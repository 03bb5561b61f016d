SPECIFICATION Spec
CONSTANTS
    e1 = e1
    e2 = e2
    Events <- OneRound
    MaxClasses = 2
    ThreadSettings <- LoopOrPair
PROPERTIES
    RemainingThreadsLog
CHECK_DEADLOCK FALSE
