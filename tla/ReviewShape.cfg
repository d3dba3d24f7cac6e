\* The type invariant and the safety properties; the liveness is checked with one draft.
SPECIFICATION Spec
CONSTANTS
    MaxSubmissions = 2
    MaxRounds = 2
    MaxHeads = 2
    MaxDrafts = 2
    MaxEdits = 1
    MaxFaults = 2
CHECK_DEADLOCK FALSE
INVARIANTS
    ReviewTypeOK
    OneReviewPosted
    PostedIsExact
    RecordsAgree
    OwnReviewIsKnown
