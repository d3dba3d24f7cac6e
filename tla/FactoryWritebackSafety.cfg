\* The safety properties with any three events.
SPECIFICATION Spec
CONSTANTS
    b1 = b1
    b2 = b2
    Bodies = {b1, b2}
    MaxEffects = 3
    MaxEvents = 3
SYMMETRY BodySymmetry
CHECK_DEADLOCK FALSE
INVARIANTS
    WritebackTypeOK
    NoBlindPost
    SentWasShown
    ReceiptsAreEchoes
PROPERTIES
    DispatchIsAuthorized
    EditsAreKept
