SPECIFICATION Spec
CONSTANTS
    Cmds <- MCCmds
    Resumed <- MCResumed
    Hashes <- MCHashes
    Required <- MCRequired
    Impatient <- MCImpatient
INVARIANTS
    TypeOK
    MutualExclusion
    LatchOrder
    OwnerFirst
    WakeUpParked
    NoLostWakeUp
    ReplyAtMostOnce
    ExecutedUnanswered
CHECK_DEADLOCK FALSE
