\* A status relinquished while an effect of it is in flight.
SPECIFICATION Spec
CONSTANTS
    b1 = b1
    b2 = b2
    Bodies = {b1, b2}
    MaxEffects = 3
    MaxEvents = 3
CHECK_DEADLOCK FALSE
PROPERTIES
    RelinquishedIsLeft
