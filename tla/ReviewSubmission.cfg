SPECIFICATION LiveSpec
CONSTANTS
    MaxSubmissions = 2
    MaxRounds = 2
    MaxHeads = 2
    MaxDrafts = 2
    MaxEdits = 1
    MaxFaults = 2
CHECK_DEADLOCK FALSE
CONSTRAINT NotAllAtOnce
INVARIANTS
    OneReviewPosted
    PostedIsExact
    RecordsAgree
PROPERTIES
    SubmissionSettles
    FollowupSettles
