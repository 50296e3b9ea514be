SPECIFICATION Spec
CONSTANT MaxEvents = 3
INVARIANT LimboEndsInPowerOff
CHECK_DEADLOCK FALSE
