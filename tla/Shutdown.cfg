SPECIFICATION ShutdownFairSpec
CONSTANT Requesters = {"Main", "Lua state"}
CONSTANT MaxRequests = 3
INVARIANTS ThreadsEndBeforeMain HandlersEndBeforeMain
 
CHECK_DEADLOCK FALSE
