SPECIFICATION FairSpec
CONSTANTS
    Handlers <- HandlersOfPlugin
    TimerEvents = {"timer"}
    Strategies <- StrategiesOfPlugin
    Period = 2
    Files <- FilesOfPlugin
    LuaFile = "main"
    None = None
    Missing = Missing
    MaxQueue = 2
    MaxTimers = 2
    MaxInputs = 2
INVARIANTS BestEffortNeverStacks
PROPERTIES EarlyOnlyIfSetBack TimersRun LastEditIsLoaded
CHECK_DEADLOCK FALSE
