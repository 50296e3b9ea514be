\* Four rules of two events that share a decision.
CONSTANTS
    Events = {"linkloss", "start"}
    Count = 4
    EventsOf <- MCEventsOf
    MessageOf <- MCMessageOf
    Actions = {"run", "ignore", "defer"}
    MaxSent = 4
SPECIFICATION Spec
INVARIANTS
    InProgressIsOnItsWay
    SetEventIsServed
