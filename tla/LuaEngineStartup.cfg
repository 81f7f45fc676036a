\* Nothing is triggered but onInit by the engine itself.
SPECIFICATION FairSpec
CONSTANTS
    A = A
    PluginStates <- Plugins
    ConsoleState = con
    Callers = {c1}
    Engine = Engine
    Console = Console
    onInit = onInit
    Events = {onInit, ev}
    None = None
    MaxTriggers = 0
CHECK_DEADLOCK FALSE
PROPERTIES
    OnInitsCalled
