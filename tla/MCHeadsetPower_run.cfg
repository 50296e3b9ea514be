SPECIFICATION Spec
CONSTANT MaxEvents = 5
INVARIANT
    PoweringOnIsUnderWay
    LimboIsLeft
CHECK_DEADLOCK FALSE
