SPECIFICATION FairSpec
CONSTANTS
    Cmds <- MCTwoCmds
    Resumed <- MCResumed
    Hashes <- MCHashes
    Required <- MCRequired
    Impatient <- MCImpatient
PROPERTIES
    EveryCommandAnswered
CHECK_DEADLOCK FALSE
