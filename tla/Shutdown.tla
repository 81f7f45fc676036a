------------------------------ MODULE Shutdown -------------------------------
(***************************************************************************)
(* The life of the process: main's start-up, the threads it starts, and    *)
(* Application::GracefullyShutdown, which a signal, the console's exit, a   *)
(* plugin's exit() or a server that cannot listen may call at any moment.  *)
(*                                                                         *)
(* A request sets mShutdown, which the threads poll, and then runs the     *)
(* registered handlers, the latest first; most of them join a thread, and  *)
(* the first one registered, so the last to run, lets main return.         *)
(***************************************************************************)
EXTENDS Naturals, Sequences, SequencesExt

CONSTANTS
    Requesters,     \* bound: who may call GracefullyShutdown
    MaxRequests     \* bound: calls of GracefullyShutdown

\* Start-up, in the order of main and of the constructors it calls.
Register(h) == [op |-> "register", what |-> h]
StartOf(t) == [op |-> "start", what |-> t]

StartUp ==
    << Register("Main"),
       Register("PPSMonitor"), StartOf("PPSMonitor"),
       Register("Heartbeat"), StartOf("Heartbeat"),
       Register("UDPNetwork"), Register("TCPNetwork"), StartOf("TCPNetwork"), StartOf("UDPNetwork"),
       Register("LuaEngine"), StartOf("LuaEngine"),
       [op |-> "SetNetwork", what |-> "PPSMonitor"],
       Register("PluginMonitor"), StartOf("PluginMonitor"),
       Register("onShutdown"), Register("Kick") >>

Looping == Len(StartUp) + 1
Returning == Len(StartUp) + 2

Joined == {"PPSMonitor", "Heartbeat", "LuaEngine", "PluginMonitor"}
Detached == {"TCPNetwork", "UDPNetwork"}
LuaState == "Lua state"     \* one state's thread; the engine starts it
Threads == Joined \cup Detached \cup {LuaState}
Handlers == Joined \cup Detached \cup {"Main", "onShutdown", "Kick"}

\* A signal's handler runs on main's thread; a network thread calls it when it
\* cannot listen.
ASSUME ShutdownAssumption ==
    /\ Requesters \subseteq {"Main", "Console", LuaState} \cup Detached
    /\ MaxRequests \in Nat

VARIABLES
    at,             \* main's place in StartUp
    mShutdownHandlers,
    mutex,          \* holder of mShutdownHandlersMutex; "register" is main registering
    mShutdown,
    AlreadyShuttingDown, ShutdownAttempts,
    requests,       \* calls of GracefullyShutdown so far
    request,        \* every requester's place in GracefullyShutdown
    handler,        \* the handler a requester is at
    mainHeld,       \* the mutex that main held when a signal interrupted it
    mainShutdown,   \* main's local variable Shutdown
    exited,         \* the process is over
    doing,         \* what each thread is doing
    joined,         \* threads joined or detached: no longer joinable
    mNetwork,       \* the PPS monitor has its network
    mStateExecuteQueue,     \* chunks, as the threads that wait for them; the first may be running
    runs,           \* history: runs of the handlers that were decided
    unhandled       \* history: threads unstarted when a run of the handlers began

mainVars == <<at, mNetwork>>
requestVars == <<mShutdown, AlreadyShuttingDown, ShutdownAttempts, requests, request, handler, mainHeld,
                 mainShutdown, runs, unhandled>>
shutdownVars == <<at, mShutdownHandlers, mutex, mShutdown, AlreadyShuttingDown, ShutdownAttempts, requests,
          request, handler, mainHeld, mainShutdown, exited, doing, joined, mNetwork, mStateExecuteQueue,
          runs, unhandled>>

Nothing == "none"
RequestSteps == {Nothing, "announce", "check", "count", "mark", "lock", "handle", "await"}
\* What main may hold: mSystemStatusMapMutex, or a mutex that every log line
\* takes, such as ThreadNameMapMutex, the settings' and the console's.
Locks == {"status", "log"}
ThreadSteps == {"unstarted", "running", "ended",
                "spin",                                 \* the PPS monitor without a network
                "load", "onInit", "await",              \* the engine before its loop
                "pass",                                 \* the plugin monitor at the files
                "head", "chunk", "functions", "call"}   \* a state's thread

Awaiting == {"LuaEngine", "PluginMonitor"}

ShutdownTypeOK ==
    /\ at \in 1..Returning
    /\ mShutdownHandlers \in Seq(Handlers)
    /\ mutex \in Requesters \cup {"register", Nothing}
    /\ ShutdownAttempts \in Nat
    /\ requests \in 0..MaxRequests
    /\ request \in [Requesters -> RequestSteps]
    /\ handler \in [Requesters -> Nat]
    /\ mainHeld \in Locks \cup {Nothing}
    /\ {mShutdown, AlreadyShuttingDown, mainShutdown, exited, mNetwork} \subseteq BOOLEAN
    /\ doing \in [Threads -> ThreadSteps]
    /\ joined \subseteq Joined \cup Detached
    /\ mStateExecuteQueue \in Seq(Awaiting)
    /\ runs \in Nat
    /\ unhandled \subseteq Joined

ShutdownInit ==
    /\ at = 1
    /\ mShutdownHandlers = << >>
    /\ mutex = Nothing
    /\ mShutdown = FALSE
    /\ AlreadyShuttingDown = FALSE
    /\ ShutdownAttempts = 0
    /\ requests = 0
    /\ request = [r \in Requesters |-> Nothing]
    /\ handler = [r \in Requesters |-> 0]
    /\ mainHeld = Nothing
    /\ mainShutdown = FALSE
    /\ exited = FALSE
    /\ doing = [t \in Threads |-> "unstarted"]
    /\ joined = {}
    /\ mNetwork = FALSE
    /\ mStateExecuteQueue = << >>
    /\ runs = 0
    /\ unhandled = {}

Become(t, step) == doing' = [doing EXCEPT ![t] = step]

-----------------------------------------------------------------------------
(* main.  A signal interrupts it; it goes on when the handler returns.     *)

Uninterrupted == "Main" \in Requesters => request["Main"] = Nothing

Here(op) ==
    /\ Uninterrupted
    /\ at \in DOMAIN StartUp
    /\ StartUp[at].op = op

TakeHandlersMutex ==
    /\ Here("register")
    /\ mutex = Nothing
    /\ mutex' = "register"
    /\ UNCHANGED <<mainVars, mShutdownHandlers, requestVars, exited, doing, joined, mStateExecuteQueue>>

\* Mutant of RegisterShutdownHandler: push_back, so that handlers run in the
\* order of registration.
RegisterShutdownHandler_AtBack ==
    /\ Here("register")
    /\ mutex = "register"
    /\ mShutdownHandlers' = Append(mShutdownHandlers, StartUp[at].what)
    /\ mutex' = Nothing
    /\ at' = at + 1
    /\ UNCHANGED <<mNetwork, requestVars, exited, doing, joined, mStateExecuteQueue>>

RegisterShutdownHandler ==
    /\ Here("register")
    /\ mutex = "register"
    /\ mShutdownHandlers' = <<StartUp[at].what>> \o mShutdownHandlers
    /\ mutex' = Nothing
    /\ at' = at + 1
    /\ UNCHANGED <<mNetwork, requestVars, exited, doing, joined, mStateExecuteQueue>>

FirstStep(t) ==
    CASE t = "PPSMonitor" -> "spin" [] t = "LuaEngine" -> "load" [] OTHER -> "running"

StartThread ==
    /\ Here("start")
    /\ Become(StartUp[at].what, FirstStep(StartUp[at].what))
    /\ at' = at + 1
    /\ UNCHANGED <<mShutdownHandlers, mutex, requestVars, exited, joined, mNetwork, mStateExecuteQueue>>

SetNetwork ==
    /\ Here("SetNetwork")
    /\ mNetwork' = TRUE
    /\ at' = at + 1
    /\ UNCHANGED <<mShutdownHandlers, mutex, requestVars, exited, doing, joined, mStateExecuteQueue>>

LeaveLoop ==
    /\ Uninterrupted
    /\ at = Looping
    /\ mainShutdown
    /\ at' = Returning
    /\ UNCHANGED <<mShutdownHandlers, mutex, requestVars, exited, doing, joined, mNetwork, mStateExecuteQueue>>

\* The destructors of main's locals join what no handler joined, and the
\* states' threads; then the process exits.
Destruct ==
    /\ Uninterrupted
    /\ at = Returning
    /\ \A t \in (Joined \ joined) \cup {LuaState} : doing[t] \in {"unstarted", "ended"}
    /\ exited' = TRUE
    /\ UNCHANGED <<mainVars, mShutdownHandlers, mutex, requestVars, doing, joined, mStateExecuteQueue>>

MainStep ==
    TakeHandlersMutex \/ RegisterShutdownHandler \/ StartThread \/ SetNetwork \/ LeaveLoop \/ Destruct

-----------------------------------------------------------------------------
(* GracefullyShutdown, which every requester runs on its own thread.  The  *)
(* two statics are plain: they are read and written in separate steps.     *)

GotoRequest(r, step) == request' = [request EXCEPT ![r] = step]

\* Who can call it now: main's thread once signals are handled, the console
\* once it knows the engine, Lua code, a network thread while it starts.
\* A network thread is "running" before and in its loop: nobody waits for it,
\* so that it may be before the loop for as long as it likes.
MayRequest(r) ==
    CASE r = "Main" -> TRUE
      [] r = "Console" -> at > SelectInSeq(StartUp, LAMBDA i : i = StartOf("LuaEngine"))
      [] r = LuaState -> doing[LuaState] \in {"chunk", "call"}
      [] OTHER -> doing[r] = "running"

\* A signal takes main as it is.  The handler's first log line comes before
\* GracefullyShutdown, and locks again what main holds for one of its own.
Request(r) ==
    /\ request[r] = Nothing
    /\ MayRequest(r)
    /\ requests < MaxRequests
    /\ requests' = requests + 1
    /\ mainHeld' \in IF r = "Main" /\ mutex # "register" THEN Locks \cup {Nothing} ELSE {mainHeld}
    /\ IF r = "Main" /\ mainHeld' = "log"
       THEN GotoRequest(r, "announce") /\ UNCHANGED mShutdown
       ELSE GotoRequest(r, "check") /\ mShutdown' = TRUE
    /\ UNCHANGED <<mainVars, mShutdownHandlers, mutex, AlreadyShuttingDown, ShutdownAttempts, handler,
                   mainShutdown, runs, unhandled, exited, doing, joined, mStateExecuteQueue>>

CheckAlready(r) ==
    /\ request[r] = "check"
    /\ IF AlreadyShuttingDown
       THEN /\ ShutdownAttempts' = ShutdownAttempts + 1
            /\ GotoRequest(r, "count")
       ELSE /\ GotoRequest(r, "mark")
            /\ UNCHANGED ShutdownAttempts
    /\ UNCHANGED <<mainVars, mShutdownHandlers, mutex, mShutdown, AlreadyShuttingDown, requests, handler,
                   mainHeld, mainShutdown, runs, unhandled, exited, doing, joined, mStateExecuteQueue>>

\* Main goes on where it was, and unlocks what it held.
LetGo(r) == mainHeld' = IF r = "Main" THEN Nothing ELSE mainHeld

\* The second further request ends the process at once.  Every answer is logged.
CountAttempts(r) ==
    /\ request[r] = "count" /\ mainHeld # "log"
    /\ exited' = (ShutdownAttempts = 2)
    /\ GotoRequest(r, Nothing)
    /\ LetGo(r)
    /\ UNCHANGED <<mainVars, mShutdownHandlers, mutex, mShutdown, AlreadyShuttingDown, ShutdownAttempts,
                   requests, handler, mainShutdown, runs, unhandled, doing, joined, mStateExecuteQueue>>

MarkShuttingDown(r) ==
    /\ request[r] = "mark"
    /\ AlreadyShuttingDown' = TRUE
    /\ runs' = runs + 1
    /\ GotoRequest(r, "lock")
    /\ UNCHANGED <<mainVars, mShutdownHandlers, mutex, mShutdown, ShutdownAttempts, requests, handler, mainHeld,
                   mainShutdown, unhandled, exited, doing, joined, mStateExecuteQueue>>

LockHandlers(r) ==
    /\ request[r] = "lock"
    /\ mutex = Nothing
    /\ mutex' = r
    /\ handler' = [handler EXCEPT ![r] = 1]
    /\ GotoRequest(r, "handle")
    /\ unhandled' = unhandled \cup {t \in Joined : doing[t] = "unstarted"}
    /\ UNCHANGED <<mainVars, mShutdownHandlers, mShutdown, AlreadyShuttingDown, ShutdownAttempts, requests,
                   mainHeld, mainShutdown, runs, exited, doing, joined, mStateExecuteQueue>>

At(r, hs) ==
    /\ request[r] = "handle"
    /\ handler[r] \in DOMAIN mShutdownHandlers
    /\ mShutdownHandlers[handler[r]] \in hs

NextHandler(r) == handler' = [handler EXCEPT ![r] = @ + 1]

HandlerVars == <<mShutdownHandlers, mutex, mainHeld, mShutdown, AlreadyShuttingDown, ShutdownAttempts, requests,
                 runs, unhandled, exited>>

\* These handlers call SetSubsystemStatus, first of all.
SetsStatus == (Joined \ {"PluginMonitor"}) \cup Detached \cup {"Main"}

\* A line is logged before each handler.
Handling(r, hs) ==
    /\ At(r, hs)
    /\ mainHeld # "log"
    /\ mainHeld = "status" => ~At(r, SetsStatus)

\* Mutant of JoinThread: the handler does not wait.
JoinThread_Detaches(r) ==
    /\ Handling(r, Joined)
    /\ joined' = joined \cup {mShutdownHandlers[handler[r]]}
    /\ NextHandler(r)
    /\ UNCHANGED <<mainVars, HandlerVars, request, mainShutdown, doing, mStateExecuteQueue>>

\* A thread that was not started yet, or joined before, is not joinable.
JoinThread(r) ==
    /\ Handling(r, Joined)
    /\ LET t == mShutdownHandlers[handler[r]]
       IN  /\ doing[t] = "unstarted" \/ doing[t] = "ended" \/ t \in joined
           /\ joined' = IF doing[t] = "unstarted" THEN joined ELSE joined \cup {t}
    /\ NextHandler(r)
    /\ UNCHANGED <<mainVars, HandlerVars, request, mainShutdown, doing, mStateExecuteQueue>>

DetachThread(r) ==
    /\ Handling(r, Detached)
    /\ joined' = joined \cup {mShutdownHandlers[handler[r]]}
    /\ NextHandler(r)
    /\ UNCHANGED <<mainVars, HandlerVars, request, mainShutdown, doing, mStateExecuteQueue>>

\* ClientKick of every player: ClientSocket's.
KickPlayers(r) ==
    /\ Handling(r, {"Kick"})
    /\ NextHandler(r)
    /\ UNCHANGED <<mainVars, HandlerVars, request, mainShutdown, doing, joined, mStateExecuteQueue>>

\* The event's calls are queued in the states, whose threads may have left.
TriggerOnShutdown(r) ==
    /\ Handling(r, {"onShutdown"})
    /\ GotoRequest(r, "await")
    /\ UNCHANGED <<mainVars, HandlerVars, handler, mainShutdown, doing, joined, mStateExecuteQueue>>

\* WaitForAll gives up after five seconds.
AwaitOnShutdown(r) ==
    /\ request[r] = "await"
    /\ GotoRequest(r, "handle")
    /\ NextHandler(r)
    /\ UNCHANGED <<mainVars, HandlerVars, mainShutdown, doing, joined, mStateExecuteQueue>>

ReleaseMain(r) ==
    /\ Handling(r, {"Main"})
    /\ mainShutdown' = TRUE
    /\ NextHandler(r)
    /\ UNCHANGED <<mainVars, HandlerVars, request, doing, joined, mStateExecuteQueue>>

HandlersDone(r) ==
    /\ request[r] = "handle"
    /\ handler[r] > Len(mShutdownHandlers)
    /\ mutex' = Nothing
    /\ GotoRequest(r, Nothing)
    /\ LetGo(r)
    /\ UNCHANGED <<mainVars, mShutdownHandlers, mShutdown, AlreadyShuttingDown, ShutdownAttempts, requests,
                   handler, mainShutdown, runs, unhandled, exited, doing, joined, mStateExecuteQueue>>

RequestStep(r) ==
    \/ CheckAlready(r) \/ CountAttempts(r) \/ MarkShuttingDown(r) \/ LockHandlers(r)
    \/ JoinThread(r) \/ DetachThread(r) \/ KickPlayers(r) \/ TriggerOnShutdown(r) \/ AwaitOnShutdown(r)
    \/ ReleaseMain(r) \/ HandlersDone(r)

-----------------------------------------------------------------------------
(* The threads, as far as they start, wait for each other and end.         *)

Does(t, step) == doing[t] = step /\ (t \in Requesters => request[t] = Nothing)

ThreadVars == <<at, mNetwork, mShutdownHandlers, mutex, requestVars, exited, joined>>

StopSpinning ==
    /\ Does("PPSMonitor", "spin")
    /\ mNetwork
    /\ Become("PPSMonitor", "running")
    /\ UNCHANGED <<ThreadVars, mStateExecuteQueue>>

\* The loops that poll mShutdown; the plugin monitor not while it waits, and it
\* sets its status when it leaves.
LeaveThread(t) ==
    /\ Does(t, "running")
    /\ mShutdown
    /\ t = "PluginMonitor" => mainHeld # "status"
    /\ ~Contains(mStateExecuteQueue, t)
    /\ Become(t, "ended")
    /\ UNCHANGED <<ThreadVars, mStateExecuteQueue>>

\* The acceptor's constructor binds; the thread does not catch what it throws.
TCPCannotBind ==
    /\ Does("TCPNetwork", "running")
    /\ exited' = TRUE
    /\ UNCHANGED <<mainVars, mShutdownHandlers, mutex, requestVars, doing, joined, mStateExecuteQueue>>

\* The engine's thread creates the plugin's state, if there is a plugin, and
\* waits until its chunk has run; then onInit, for at most five seconds.
LoadPlugin ==
    /\ Does("LuaEngine", "load")
    /\ doing' = [doing EXCEPT !["LuaEngine"] = "onInit", ![LuaState] = "head"]
    /\ mStateExecuteQueue' = Append(mStateExecuteQueue, "LuaEngine")
    /\ UNCHANGED ThreadVars

NoPlugin ==
    /\ Does("LuaEngine", "load")
    /\ Become("LuaEngine", "onInit")
    /\ UNCHANGED <<ThreadVars, mStateExecuteQueue>>

TriggerOnInit ==
    /\ Does("LuaEngine", "onInit")
    /\ ~Contains(mStateExecuteQueue, "LuaEngine")
    /\ Become("LuaEngine", "await")
    /\ UNCHANGED <<ThreadVars, mStateExecuteQueue>>

AwaitOnInit ==
    /\ Does("LuaEngine", "await")
    /\ Become("LuaEngine", "running")
    /\ UNCHANGED <<ThreadVars, mStateExecuteQueue>>

\* The plugin monitor looks at mShutdown, then at the files; it waits for the
\* chunk it reloads, here of one file in a pass.
BeginPass ==
    /\ Does("PluginMonitor", "running")
    /\ ~mShutdown
    /\ ~Contains(mStateExecuteQueue, "PluginMonitor")
    /\ Become("PluginMonitor", "pass")
    /\ UNCHANGED <<ThreadVars, mStateExecuteQueue>>

Reload ==
    /\ Does("PluginMonitor", "pass")
    /\ doing[LuaState] # "unstarted"
    /\ mStateExecuteQueue' = Append(mStateExecuteQueue, "PluginMonitor")
    /\ Become("PluginMonitor", "running")
    /\ UNCHANGED ThreadVars

EndPass ==
    /\ Does("PluginMonitor", "pass")
    /\ Become("PluginMonitor", "running")
    /\ UNCHANGED <<ThreadVars, mStateExecuteQueue>>

\* Mutant of StateHead: the thread does not look at mShutdown.
StateHead_Forever ==
    /\ Does(LuaState, "head")
    /\ Become(LuaState, IF mStateExecuteQueue # << >> THEN "chunk" ELSE "functions")
    /\ UNCHANGED <<ThreadVars, mStateExecuteQueue>>

StateHead ==
    /\ Does(LuaState, "head")
    /\ Become(LuaState, IF mShutdown THEN "ended"
                        ELSE IF mStateExecuteQueue # << >> THEN "chunk" ELSE "functions")
    /\ UNCHANGED <<ThreadVars, mStateExecuteQueue>>

RunChunk ==
    /\ Does(LuaState, "chunk")
    /\ mStateExecuteQueue' = Tail(mStateExecuteQueue)
    /\ Become(LuaState, "functions")
    /\ UNCHANGED ThreadVars

\* A queued call, or none within half a second.
TakeCall ==
    /\ Does(LuaState, "functions")
    /\ Become(LuaState, "call")
    /\ UNCHANGED <<ThreadVars, mStateExecuteQueue>>

NextIteration ==
    /\ Does(LuaState, "functions") \/ Does(LuaState, "call")
    /\ Become(LuaState, "head")
    /\ UNCHANGED <<ThreadVars, mStateExecuteQueue>>

EngineStep == LoadPlugin \/ NoPlugin \/ TriggerOnInit \/ AwaitOnInit \/ LeaveThread("LuaEngine")
StateStep == StateHead \/ RunChunk \/ NextIteration

-----------------------------------------------------------------------------
ShutdownNext ==
    /\ ~exited
    /\ \/ MainStep
       \/ \E r \in Requesters : Request(r) \/ RequestStep(r)
       \/ StopSpinning
       \/ \E t \in Joined : LeaveThread(t)
       \/ TCPCannotBind
       \/ EngineStep
       \/ BeginPass \/ Reload \/ EndPass
       \/ StateStep \/ TakeCall

\* Every thread goes on; a call in Lua ends.  Nobody must request a shutdown,
\* change a file, call a function, send a datagram or connect.
ShutdownFairness ==
    /\ WF_shutdownVars(~exited /\ MainStep)
    /\ \A r \in Requesters : WF_shutdownVars(~exited /\ RequestStep(r))
    /\ WF_shutdownVars(~exited /\ StopSpinning)
    /\ \A t \in Joined : WF_shutdownVars(~exited /\ LeaveThread(t))
    /\ WF_shutdownVars(~exited /\ EngineStep)
    /\ WF_shutdownVars(~exited /\ EndPass)
    /\ WF_shutdownVars(~exited /\ StateStep)

ShutdownSpec == ShutdownInit /\ [][ShutdownNext]_shutdownVars
ShutdownFairSpec == ShutdownSpec /\ ShutdownFairness

-----------------------------------------------------------------------------
(* Properties.                                                             *)

\* When main destroys its locals every monitor's thread has ended, except one
\* that was started after the handlers began: no thread is left working
\* with objects that are being destroyed.
ThreadsEndBeforeMain ==
    at = Returning => \A t \in Joined \ unhandled : doing[t] \in {"unstarted", "ended"}

\* A handler refers to main's locals.  None is left to run when main leaves
\* its loop, because main's own handler runs last - unless two requests both
\* found AlreadyShuttingDown false, and the handlers run twice.
HandlersEndBeforeMain ==
    at = Returning /\ runs = 1 =>
        \A r \in Requesters :
            request[r] = "handle" => handler[r] > Len(mShutdownHandlers)

\* A requester that waits for a thread that waits for a chunk nobody will run:
\* the state's thread has ended, or is itself the requester or queued behind it.
Stranded(t) ==
    /\ Contains(mStateExecuteQueue, t)
    /\ \/ doing[LuaState] = "ended"
       \/ \E r \in Requesters : At(r, {t}) /\ (r = LuaState \/ (LuaState \in Requesters /\ request[LuaState] = "lock"))

\* A signal that interrupts main finds locked, and has to lock, a mutex that
\* main holds: the handlers', when main was registering one; one that every log
\* line takes; or mSystemStatusMapMutex, which main takes at start-up and every
\* 100 ms until it is fully started (main.cpp:226, 245).  The handler waits for
\* main itself, or for the requester whose handlers wait for main.
LocksItself ==
    /\ "Main" \in Requesters
    /\ \/ request["Main"] = "lock" /\ mutex = "register"
       \/ mainHeld = "log"
       \/ /\ mainHeld = "status" /\ request["Main"] \in {"lock", "handle"}
          /\ \E r \in Requesters :
                \/ At(r, SetsStatus)
                \/ At(r, {"PluginMonitor"}) /\ doing["PluginMonitor"] \notin {"unstarted", "ended"}

\* The PPS monitor spins until main gives it a network, and main is the one
\* that joins it, or waits for the mutex of the one that does.
NeverSpinsOut ==
    /\ doing["PPSMonitor"] = "spin"
    /\ ~mNetwork
    /\ \E r \in Requesters :
          /\ At(r, {"PPSMonitor"})
          /\ r = "Main" \/ Here("register") \/ ("Main" \in Requesters /\ request["Main"] = "lock")

\* Main's own handler was registered after the handlers had run: main loops on
\* without its threads.
Undead ==
    /\ at = Looping
    /\ ~mainShutdown
    /\ \A r \in Requesters : request[r] = Nothing

\* A requested shutdown ends the process, unless it comes to one of four
\* stands, which are for good: all but main's waiting for a mutex of the log
\* until two more requests force the exit, and that one for ever.
ShutdownEnds == requests > 0 ~> [](exited \/ LocksItself \/ NeverSpinsOut \/ Undead
                                   \/ \E t \in Awaiting : Stranded(t))
-----------------------------------------------------------------------------
(* The inductive invariant behind the two.                                 *)

\* What main has registered can be found, main's own handler last; what main
\* has yet to start is not started.
HandlersRegistered ==
    /\ \A j \in 1..(at - 1) : j \in DOMAIN StartUp /\ StartUp[j].op = "register" =>
           \E i \in DOMAIN mShutdownHandlers : mShutdownHandlers[i] = StartUp[j].what
    /\ at = 1 => mShutdownHandlers = << >>
    /\ \A i \in DOMAIN mShutdownHandlers :
           mShutdownHandlers[i] = "Main" => i = Len(mShutdownHandlers)
    /\ \A j \in DOMAIN StartUp : j >= at /\ StartUp[j].op = "start" => doing[StartUp[j].what] = "unstarted"

\* A thread has its handler before it runs, and is joined after it ended.
HandlerBeforeThread ==
    /\ \A t \in Joined : doing[t] # "unstarted" =>
           \E i \in DOMAIN mShutdownHandlers : mShutdownHandlers[i] = t
    /\ \A t \in joined \cap Joined : doing[t] = "ended"

\* The requester that runs the handlers holds their mutex.
HandlersLocked ==
    /\ \A r \in Requesters : request[r] \in {"handle", "await"} <=> mutex = r
    /\ \A r \in Requesters : request[r] = "await" =>
           /\ handler[r] \in DOMAIN mShutdownHandlers
           /\ mShutdownHandlers[handler[r]] = "onShutdown"
    /\ doing[LuaState] = "chunk" => mStateExecuteQueue # << >>

\* The handlers behind a requester have waited for their threads.
HandledEnded ==
    \A r \in Requesters : request[r] \in {"handle", "await"} =>
        /\ \A i \in DOMAIN mShutdownHandlers :
               i < handler[r] /\ mShutdownHandlers[i] \in Joined \ unhandled =>
                   doing[mShutdownHandlers[i]] = "ended"
        /\ \A t \in Joined \ unhandled : doing[t] # "unstarted"

MainReleased ==
    /\ mainShutdown => \A t \in Joined \ unhandled : doing[t] = "ended"
    /\ at = Returning => mainShutdown

InRun(r) == request[r] \in {"lock", "handle", "await"}

\* As long as the handlers are run once, one requester runs them.
OneRun ==
    /\ runs = 0 => ~mainShutdown /\ \A r \in Requesters : ~InRun(r)
    /\ runs = 1 => \A r, q \in Requesters : InRun(r) /\ InRun(q) => r = q
    /\ runs = 1 /\ mainShutdown => \A r \in Requesters : InRun(r) =>
           request[r] = "handle" /\ handler[r] > Len(mShutdownHandlers)

ShutdownIndInv ==
    /\ ShutdownTypeOK
    /\ HandlersRegistered
    /\ HandlerBeforeThread
    /\ HandlersLocked
    /\ HandledEnded
    /\ MainReleased
    /\ OneRun

=============================================================================
