\* A late answer to a request for one handset.
CONSTANTS
    Handsets = {h1, h2}
    NoGoal = NoGoal
    Calls = {"start", "stop", "user_lru"}
    MaxEvents = 5
SPECIFICATION Spec
CHECK_DEADLOCK FALSE
INVARIANT StoppedIsUnlinked
