\* Two tasks, messages for one or both and retained up to twice, a clock that wraps at 6.
CONSTANTS
    Task = {t1, t2}
    AppId = {"app"}
    SimilarId = {"more_data"}
    ReplaceId = {"attached","detached"}
    Ptr = {p1, p2}
    Cond = {c1}
    None = None
    Wrap = 6
    Delays = {0, 2}
    MaxAge = 0
    TimerLimit = 1
    TimerId = {1, 2}
    MaxRetained = 2
SPECIFICATION Spec
CHECK_DEADLOCK FALSE
SYMMETRY Symmetry
INVARIANTS
    NoLostWakeup
    RetainedStaysDelivered
    LatestSystemMessage
PROPERTY NeverEarly
