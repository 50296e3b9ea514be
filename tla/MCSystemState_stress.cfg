CONSTANTS
    Cl = Cl
    Prompt = Prompt
    Stop = Stop
    NoMsg = NoMsg
    MsgIds = {Cl, Prompt, Stop}
    Table <- StressTable
    MaxPosted = 2
SPECIFICATION FairSpec
INVARIANTS
    TypeOK
    NoLostWakeup
    StableIsFinished
PROPERTIES
    TransitionGraph
    QuietMeansStable
