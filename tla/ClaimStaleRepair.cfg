\* Liveness: a repair that failed and whose task has changed since.
SPECIFICATION LiveSpec
CONSTANTS
    b1 = b1
    b2 = b2
    Bodies = {b1, b2}
    MaxEffects = 3
    MaxEvents = 3
CHECK_DEADLOCK FALSE
PROPERTIES
    StaleRepairIsReviewed
