\* Two plugins that share a state, and the console's state.  Two triggers besides
\* the engine's, so that their orders can differ.  No symmetry with liveness.
\* A creation and a trigger that embrace stop everything.
SPECIFICATION FairSpec
CONSTANTS
    A = A
    PluginStates <- Plugins
    ConsoleState = con
    Callers = {c1}
    Engine = Engine
    Console = Console
    onInit = onInit
    Events = {onInit, ev}
    None = None
    MaxTriggers = 2
CHECK_DEADLOCK FALSE
INVARIANTS
    OnlyCreationsEmbrace
    HandlersHaveStates
PROPERTIES
    ImplementsEventBus
    WaitsEnd
