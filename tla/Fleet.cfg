\* A player who has left stays gone: the model stops there.
SPECIFICATION Spec
CONSTANTS
    MaxCars = 1
    Plugins = {p1, p2}
SYMMETRY PluginSymmetry
CHECK_DEADLOCK FALSE
INVARIANTS
    FleetBound
    ChosenIdStaysFree
    ViewAgrees
PROPERTIES
    RemovedStaysRemoved
