SPECIFICATION Spec
CONSTANTS
    w1 = w1
    w2 = w2
    Entry <- MCEntry
    Margin <- MCMargin
    Stop <- MCStop
    Later = {2}
    Deposit = 4
    Quotes = {1, 6}
    MaxQuotes = 2
    MaxWatchFaults = 1
    Unknown = Unknown
    Algorithms <- MCAlgorithms
    MaxAlgoFaults = 3
    Pilots = {w1, w2}
    maxOpenTrades = 1
    maxDailyTrades = 2
    MaxSignals = 2
    MaxConfigChanges = 2
    MaxPilotFaults = 1
CHECK_DEADLOCK FALSE
INVARIANT MinimalStopOut
INVARIANT AlgoNeverOverfills
 
 
PROPERTY PilotPauseTakesHold
