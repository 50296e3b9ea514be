\* Two handsets and four events from outside.
CONSTANTS
    Handsets = {h1, h2}
    NoGoal = NoGoal
    Calls = {"start", "stop", "user_connect", "prohibit", "shutdown"}
    MaxEvents = 4
SPECIFICATION FairSpec
CHECK_DEADLOCK FALSE
INVARIANTS
    NoPanic
    StartedIsOpen
    StoppedIsUnlinked
    ActiveGoalsEnd
PROPERTIES
    StoppingEnds
    StartingEnds
