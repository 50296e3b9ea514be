\* Five goals and five slots: the queue, and the refinement with its liveness.
CONSTANTS
    Goals = {"connect", "disconnect", "allow_le", "connectable", "stop"}
    None = None
    Contention <- MCContention
    Exclusive <- MCExclusive
    Concurrent <- MCConcurrent
    Slots = 5
    MaxQueued = 2
    MaxIgnored = 1
SPECIFICATION FairSpec
INVARIANTS
    LocksFollowActiveGoals
    SlotForEveryGoal
PROPERTY ImplementsSchedule
