\* Any two events; with three, see FactoryWritebackSafety.cfg.
SPECIFICATION LiveSpec
CONSTANTS
    b1 = b1
    b2 = b2
    Bodies = {b1, b2}
    MaxEffects = 3
    MaxEvents = 2
CHECK_DEADLOCK FALSE
INVARIANTS
    NoBlindPost
    ReceiptsAreEchoes
PROPERTIES
    DispatchIsAuthorized
    EditsAreKept
    StatusIsShown
    AnswersAreFound
