\* A crash between the reservation of the review and the lease of its draft.
SPECIFICATION LiveSpec
CONSTANTS
    MaxSubmissions = 1
    MaxRounds = 1
    MaxHeads = 1
    MaxDrafts = 1
    MaxEdits = 1
    MaxFaults = 1
CHECK_DEADLOCK FALSE
PROPERTIES
    ReservationIsReleased
