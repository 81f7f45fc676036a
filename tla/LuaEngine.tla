------------------------------ MODULE LuaEngine ------------------------------
(***************************************************************************)
(* The Lua engine: one thread per Lua state, which runs the chunks and the *)
(* calls queued for it, and the threads of the server that queue them:     *)
(* the engine's own, which loads the plugins, the console, and the threads *)
(* of the clients, which trigger events and mostly wait for the handlers.  *)
(*                                                                         *)
(* Two mutexes guard what they share, mLuaStatesMutex and mLuaEventsMutex. *)
(* TriggerEvent takes the second and, for each call it queues, the first;  *)
(* EnsureStateExists takes the first and then, to register onInit, the     *)
(* second.                                                                 *)
(***************************************************************************)
EXTENDS Naturals, Sequences, FiniteSets

CONSTANTS
    PluginStates,   \* the states that the plugins name, in the order of loading
    ConsoleState,   \* mDefaultStateId of the console
    Callers,        \* threads of clients
    Engine,         \* the thread of TLuaEngine::operator()
    Console,        \* the thread of the command line
    Events, onInit,
    None,
    MaxTriggers     \* bound: events triggered by anyone but the engine

States == {PluginStates[i] : i \in DOMAIN PluginStates} \cup {ConsoleState}
Threads == Callers \cup States \cup {Engine, Console}

EngineSteps == {"load", "register", "script", "loading", "trigger", "calls", "timed", "loop"}
ConsoleSteps == {"idle", "register", "onInit", "waiting", "calls", "timed"}
CallerSteps == {"idle", "calls", "waiting"}
LuaSteps == {"unstarted", "scripts", "functions", "chunk", "call", "register", "calls", "own"}
Steps == EngineSteps \cup ConsoleSteps \cup CallerSteps \cup LuaSteps

ASSUME ConstantsAssumption ==
    /\ PluginStates \in Seq(States) \ {<< >>}
    /\ Engine # Console
    /\ {Engine, Console} \cap (Callers \cup States) = {}
    /\ Callers \cap States = {}
    /\ None \notin Threads \cup Nat \cup Steps
    /\ Threads \cap Nat = {}
    /\ onInit \in Events
    /\ MaxTriggers \in Nat

VARIABLES
    mLuaStates,     \* the states that exist
    mLuaEvents,     \* for each event the states with a handler (one each)
    statesMutex,    \* holder of mLuaStatesMutex
    eventsMutex,    \* holder of mLuaEventsMutex
    mStateExecuteQueue,     \* for each state the chunks, as the threads that wait for them
    mStateFunctionQueue,    \* for each state the calls, as the numbers of their triggers
    running,        \* the chunk or call a state's thread is at
    ran,            \* states in which a chunk was run: others define no function
    loaded,         \* plugins loaded
    triggered,      \* triggers so far
    pc,             \* every thread's step
    next,           \* the step after TriggerEvent
    todo,           \* states whose handlers TriggerEvent has still to call
    number,         \* the trigger a thread is at
    pending         \* results a thread waits for and that are not ready

registry == <<mLuaStates, mLuaEvents>>
mutexes == <<statesMutex, eventsMutex>>
queues == <<mStateExecuteQueue, mStateFunctionQueue>>
trigger == <<triggered, next, todo, number>>
vars == <<mLuaStates, mLuaEvents, statesMutex, eventsMutex, mStateExecuteQueue, mStateFunctionQueue,
          running, ran, loaded, triggered, pc, next, todo, number, pending>>

\* A call is known by its trigger's number, the console's call of onInit and
\* a chunk by the thread that waits for it.
CallIds == Nat \cup {Engine, Console}

TypeOK ==
    /\ mLuaStates \subseteq States
    /\ mLuaEvents \in [Events -> SUBSET States]
    /\ statesMutex \in {Engine, Console, None}
    /\ eventsMutex \in Threads \cup {None}
    /\ mStateExecuteQueue \in [States -> Seq({Engine, Console})]
    /\ mStateFunctionQueue \in [States -> Seq(CallIds)]
    /\ running \in [States -> CallIds \cup {None}]
    /\ ran \subseteq mLuaStates
    /\ loaded \in 0..Len(PluginStates)
    /\ triggered \in Nat
    /\ pc \in [Threads -> Steps]
    /\ next \in [Threads -> Steps \cup {None}]
    /\ todo \in [Threads -> SUBSET States]
    /\ number \in [Threads -> Nat]
    /\ pending \in [Threads -> SUBSET (CallIds \X States)]

-----------------------------------------------------------------------------

Init ==
    /\ mLuaStates = {}
    /\ mLuaEvents = [e \in Events |-> {}]
    /\ statesMutex = None
    /\ eventsMutex = None
    /\ mStateExecuteQueue = [s \in States |-> << >>]
    /\ mStateFunctionQueue = [s \in States |-> << >>]
    /\ running = [s \in States |-> None]
    /\ ran = {}
    /\ loaded = 0
    /\ triggered = 0
    /\ pc = [t \in Threads |->
                IF t = Engine THEN "load" ELSE IF t \in States THEN "unstarted" ELSE "idle"]
    /\ next = [t \in Threads |-> None]
    /\ todo = [t \in Threads |-> {}]
    /\ number = [t \in Threads |-> 0]
    /\ pending = [t \in Threads |-> {}]

Goto(t, step) == pc' = [pc EXCEPT ![t] = step]

EnqueueCall(s, id) ==
    mStateFunctionQueue' = [mStateFunctionQueue EXCEPT ![s] = Append(@, id)]

-----------------------------------------------------------------------------
(* EnsureStateExists.                                                      *)

\* The state whose existence a thread ensures.
WantedState(t) == IF t = Engine THEN PluginStates[loaded + 1] ELSE ConsoleState

\* Mutant of EnsureStateExists: the state is not entered into the map.
EnsureStateExists_NotInserted(t) ==
    /\ pc[t] = IF t = Engine THEN "load" ELSE "idle"
    /\ statesMutex = None
    /\ statesMutex' = t
    /\ pc' = [pc EXCEPT ![t] = "register", ![WantedState(t)] = "scripts"]
    /\ UNCHANGED <<registry, eventsMutex, queues, running, ran, loaded, trigger, pending>>

\* The state is created, with its thread, and the mutex kept.  A state that is
\* there already is left alone: its plugin's chunk is queued in another step.
EnsureStateExists(t) ==
    /\ pc[t] = IF t = Engine THEN "load" ELSE "idle"
    /\ statesMutex = None
    /\ IF WantedState(t) \in mLuaStates
       THEN /\ t = Engine
            /\ Goto(t, "script")
            /\ UNCHANGED <<mLuaStates, statesMutex>>
       ELSE /\ mLuaStates' = mLuaStates \cup {WantedState(t)}
            /\ statesMutex' = t
            /\ pc' = [pc EXCEPT ![t] = "register", ![WantedState(t)] = "scripts"]
    /\ UNCHANGED <<mLuaEvents, eventsMutex, queues, running, ran, loaded, trigger, pending>>

\* onInit is registered.  The engine, which will trigger it for all states,
\* adds the plugin's path and releases the mutex; the console queues the call
\* and keeps the mutex while it waits.
RegisterOnInit(t) ==
    /\ pc[t] = "register"
    /\ statesMutex = t
    /\ eventsMutex = None
    /\ mLuaEvents' = [mLuaEvents EXCEPT ![onInit] = @ \cup {WantedState(t)}]
    /\ IF t = Engine
       THEN /\ statesMutex' = None
            /\ Goto(t, "script")
            /\ UNCHANGED <<mStateFunctionQueue, pending>>
       ELSE /\ EnqueueCall(ConsoleState, t)
            /\ pending' = [pending EXCEPT ![t] = {<<t, ConsoleState>>}]
            /\ Goto(t, "onInit")
            /\ UNCHANGED statesMutex
    /\ UNCHANGED <<mLuaStates, eventsMutex, mStateExecuteQueue, running, ran, loaded, trigger>>

OnInitReturned ==
    /\ pc[Console] = "onInit"
    /\ pending[Console] = {}
    /\ statesMutex' = None
    /\ Goto(Console, "idle")
    /\ UNCHANGED <<registry, eventsMutex, queues, running, ran, loaded, trigger, pending>>

-----------------------------------------------------------------------------
(* Chunks: a plugin's files, a line typed at the Lua console.              *)

EnqueueScript(t, s) ==
    /\ statesMutex = None
    /\ mStateExecuteQueue' = [mStateExecuteQueue EXCEPT ![s] = Append(@, t)]
    /\ pending' = [pending EXCEPT ![t] = {<<t, s>>}]
    /\ UNCHANGED <<registry, mutexes, mStateFunctionQueue, running, ran, loaded, trigger>>

\* TLuaPlugin's constructor.  The files of a plugin count as one chunk.
LoadPlugin ==
    /\ pc[Engine] = "script"
    /\ EnqueueScript(Engine, WantedState(Engine))
    /\ Goto(Engine, "loading")

PluginLoaded ==
    /\ pc[Engine] = "loading"
    /\ pending[Engine] = {}
    /\ loaded' = loaded + 1
    /\ Goto(Engine, IF loaded + 1 = Len(PluginStates) THEN "trigger" ELSE "load")
    /\ UNCHANGED <<registry, mutexes, queues, running, ran, trigger, pending>>

\* The console is attached to any state; its own was ensured first.
RunLine(s) ==
    /\ pc[Console] = "idle"
    /\ ConsoleState \in mLuaStates
    /\ s \in mLuaStates
    /\ EnqueueScript(Console, s)
    /\ Goto(Console, "waiting")

-----------------------------------------------------------------------------
(* TriggerEvent.                                                           *)

\* Mutant of TriggerEvent: the handlers are copied and the mutex released.
TriggerEvent_Copies(t, e, ignored, return) ==
    /\ eventsMutex = None
    /\ LET calls == mLuaEvents[e] \ ignored IN
       IF calls = {}
       THEN /\ Goto(t, return)
            /\ UNCHANGED <<number, todo, next>>
       ELSE /\ number' = [number EXCEPT ![t] = triggered + 1]
            /\ todo' = [todo EXCEPT ![t] = calls]
            /\ next' = [next EXCEPT ![t] = return]
            /\ Goto(t, "calls")
    /\ triggered' = triggered + 1
    /\ UNCHANGED <<registry, mutexes, queues, running, ran, loaded, pending>>

\* The mutex is taken and the handlers found; without any, it returns at once.
TriggerEvent(t, e, ignored, return) ==
    /\ eventsMutex = None
    /\ LET calls == mLuaEvents[e] \ ignored IN
       IF calls = {}
       THEN /\ Goto(t, return)
            /\ UNCHANGED <<eventsMutex, number, todo, next>>
       ELSE /\ eventsMutex' = t
            /\ number' = [number EXCEPT ![t] = triggered + 1]
            /\ todo' = [todo EXCEPT ![t] = calls]
            /\ next' = [next EXCEPT ![t] = return]
            /\ Goto(t, "calls")
    /\ triggered' = triggered + 1
    /\ UNCHANGED <<registry, statesMutex, queues, running, ran, loaded, pending>>

\* One turn of its loop: TLuaEngine::EnqueueFunctionCall.  The last one
\* releases the mutex.  Only a thread that waits keeps the results.
EnqueueFunctionCall(t, s) ==
    /\ pc[t] = "calls"
    /\ s \in todo[t]
    /\ statesMutex = None
    /\ EnqueueCall(s, number[t])
    /\ todo' = [todo EXCEPT ![t] = @ \ {s}]
    /\ pending' = IF next[t] \in {"waiting", "timed"}
                  THEN [pending EXCEPT ![t] = @ \cup {<<number[t], s>>}]
                  ELSE pending
    /\ IF todo[t] = {s}
       THEN /\ eventsMutex' = None
            /\ number' = [number EXCEPT ![t] = 0]
            /\ next' = [next EXCEPT ![t] = None]
            /\ Goto(t, next[t])
       ELSE UNCHANGED <<eventsMutex, number, next, pc>>
    /\ UNCHANGED <<registry, statesMutex, mStateExecuteQueue, running, ran, loaded, triggered>>

\* A client's thread waits for all handlers, or leaves them to ReportErrors.
ClientTriggers(t, e) ==
    /\ t \in Callers
    /\ pc[t] = "idle"
    /\ triggered < MaxTriggers
    /\ \E return \in {"waiting", "idle"} : TriggerEvent(t, e, {}, return)

\* onConsoleInput.
ConsoleTriggers(e) ==
    /\ pc[Console] = "idle"
    /\ triggered < MaxTriggers
    /\ TriggerEvent(Console, e, {}, "timed")

EngineTriggers ==
    /\ pc[Engine] = "trigger"
    /\ TriggerEvent(Engine, onInit, {}, "timed")

\* WaitUntilReady, and WaitForAll without a limit.
Ready(t) ==
    /\ pc[t] = "waiting"
    /\ pending[t] = {}
    /\ Goto(t, "idle")
    /\ UNCHANGED <<registry, mutexes, queues, running, ran, loaded, trigger, pending>>

\* WaitForAll with its five seconds, which may be over at any time.
TimedWaitEnds(t) ==
    /\ pc[t] = "timed"
    /\ pending' = [pending EXCEPT ![t] = {}]
    /\ Goto(t, IF t = Engine THEN "loop" ELSE "idle")
    /\ UNCHANGED <<registry, mutexes, queues, running, ran, loaded, trigger>>

-----------------------------------------------------------------------------
(* A state's thread: StateThreadData::operator().                          *)

\* In turn a chunk, if there is one, and a call, if one comes within 500 ms.
RunChunk(s) ==
    /\ pc[s] = "scripts"
    /\ IF mStateExecuteQueue[s] = << >>
       THEN /\ Goto(s, "functions")
            /\ UNCHANGED <<mStateExecuteQueue, running, ran>>
       ELSE /\ mStateExecuteQueue' = [mStateExecuteQueue EXCEPT ![s] = Tail(@)]
            /\ running' = [running EXCEPT ![s] = Head(mStateExecuteQueue[s])]
            /\ ran' = ran \cup {s}
            /\ Goto(s, "chunk")
    /\ UNCHANGED <<registry, mutexes, mStateFunctionQueue, loaded, trigger, pending>>

TakeCall(s) ==
    /\ pc[s] = "functions"
    /\ mStateFunctionQueue[s] # << >>
    /\ mStateFunctionQueue' = [mStateFunctionQueue EXCEPT ![s] = Tail(@)]

\* Mutant of FunctionFound: a new state already has an onInit.
FunctionFound_Preloaded(s) ==
    /\ TakeCall(s)
    /\ running' = [running EXCEPT ![s] = Head(mStateFunctionQueue[s])]
    /\ Goto(s, "call")
    /\ UNCHANGED <<registry, mutexes, mStateExecuteQueue, ran, loaded, trigger, pending>>

\* The function may have been removed by now; without a chunk there is none.
FunctionFound(s) ==
    /\ s \in ran
    /\ TakeCall(s)
    /\ running' = [running EXCEPT ![s] = Head(mStateFunctionQueue[s])]
    /\ Goto(s, "call")
    /\ UNCHANGED <<registry, mutexes, mStateExecuteQueue, ran, loaded, trigger, pending>>

MarkReady(id, s) == pending' = [t \in Threads |-> pending[t] \ {<<id, s>>}]

FunctionNotFound(s) ==
    /\ TakeCall(s)
    /\ MarkReady(Head(mStateFunctionQueue[s]), s)
    /\ Goto(s, "scripts")
    /\ UNCHANGED <<registry, mutexes, mStateExecuteQueue, running, ran, loaded, trigger>>

NoCall(s) ==
    /\ pc[s] = "functions"
    /\ mStateFunctionQueue[s] = << >>
    /\ Goto(s, "scripts")
    /\ UNCHANGED <<registry, mutexes, queues, running, ran, loaded, trigger, pending>>

\* Mutant of LuaReturns: a failure leaves the result as it is.
LuaReturns_OnSuccess(s) ==
    /\ pc[s] \in {"chunk", "call"}
    /\ MarkReady(running[s], s) \/ UNCHANGED pending
    /\ running' = [running EXCEPT ![s] = None]
    /\ Goto(s, IF pc[s] = "chunk" THEN "functions" ELSE "scripts")
    /\ UNCHANGED <<registry, mutexes, queues, ran, loaded, trigger>>

\* The chunk or the function returns, or fails: its result is ready either way.
LuaReturns(s) ==
    /\ pc[s] \in {"chunk", "call"}
    /\ MarkReady(running[s], s)
    /\ running' = [running EXCEPT ![s] = None]
    /\ Goto(s, IF pc[s] = "chunk" THEN "functions" ELSE "scripts")
    /\ UNCHANGED <<registry, mutexes, queues, ran, loaded, trigger>>

\* MP.RegisterEvent: the thread wants the mutex, and then has it.  Bound: Lua
\* code does not register what is registered, which would change nothing.
LuaRegisters(s) ==
    /\ pc[s] \in {"chunk", "call"}
    /\ \E e \in Events : s \notin mLuaEvents[e]
    /\ next' = [next EXCEPT ![s] = pc[s]]
    /\ Goto(s, "register")
    /\ UNCHANGED <<registry, mutexes, queues, running, ran, loaded, triggered, todo, number, pending>>

RegisterEvent(s, e) ==
    /\ pc[s] = "register"
    /\ s \notin mLuaEvents[e]
    /\ eventsMutex = None
    /\ mLuaEvents' = [mLuaEvents EXCEPT ![e] = @ \cup {s}]
    /\ next' = [next EXCEPT ![s] = None]
    /\ Goto(s, next[s])
    /\ UNCHANGED <<mLuaStates, mutexes, queues, running, ran, loaded, triggered, todo, number, pending>>

\* MP.TriggerGlobalEvent: the other states' handlers are queued, then the
\* state's own found and called in place.
LuaTriggers(s, e) ==
    /\ pc[s] \in {"chunk", "call"}
    /\ triggered < MaxTriggers
    /\ TriggerEvent(s, e, {s}, "own")

OwnHandlers(s) ==
    /\ pc[s] = "own"
    /\ eventsMutex = None
    /\ Goto(s, IF running[s] \in Nat THEN "call" ELSE "chunk")
    /\ UNCHANGED <<registry, mutexes, queues, running, ran, loaded, trigger, pending>>

-----------------------------------------------------------------------------

Next ==
    \/ OnInitReturned \/ LoadPlugin \/ PluginLoaded \/ EngineTriggers
    \/ \E t \in {Engine, Console} : EnsureStateExists(t) \/ RegisterOnInit(t) \/ TimedWaitEnds(t)
    \/ \E e \in Events : ConsoleTriggers(e)
    \/ \E t \in Callers, e \in Events : ClientTriggers(t, e)
    \/ \E t \in Callers \cup {Console} : Ready(t)
    \/ \E t \in Threads, s \in States : EnqueueFunctionCall(t, s)
    \/ \E s \in States :
          \/ RunLine(s) \/ RunChunk(s) \/ FunctionFound(s) \/ FunctionNotFound(s) \/ NoCall(s)
          \/ LuaReturns(s) \/ LuaRegisters(s) \/ OwnHandlers(s)
          \/ \E e \in Events : RegisterEvent(s, e) \/ LuaTriggers(s, e)

Spec == Init /\ [][Next]_vars

\* What a thread does next when nobody asks it anything; at each of its steps
\* there is one way on, but for the call of a function that may be missing.
Proceeds(t) ==
    \/ t = Engine /\ (EnsureStateExists(t) \/ LoadPlugin \/ PluginLoaded \/ EngineTriggers)
    \/ t \in {Engine, Console} /\ (RegisterOnInit(t) \/ TimedWaitEnds(t))
    \/ t = Console /\ OnInitReturned
    \/ t \in Callers \cup {Console} /\ Ready(t)
    \/ \E s \in States : EnqueueFunctionCall(t, s)
    \/ /\ t \in States
       /\ \/ RunChunk(t) \/ FunctionFound(t) \/ FunctionNotFound(t) \/ NoCall(t)
          \/ LuaReturns(t) \/ OwnHandlers(t) \/ \E e \in Events : RegisterEvent(t, e)

\* Threads run, and Lua code returns, which is up to the plugins.  Nobody has
\* to trigger or to type.  A mutex that stays free is taken: the bounds let
\* both be held finitely often, so that nothing stronger is needed.
Fairness == \A t \in Threads : WF_vars(Proceeds(t))

FairSpec == Spec /\ Fairness

-----------------------------------------------------------------------------

\* Who waits for whom: for a mutex, or for a result that a state has to make.
WantsEvents(t) ==
    \/ pc[t] \in {"register", "own"}
    \/ t = Engine /\ pc[t] = "trigger"
WantsStates(t) ==
    \/ pc[t] = "calls"
    \/ t = Engine /\ pc[t] \in {"load", "script"}
WaitsFor(t, u) ==
    \/ WantsEvents(t) /\ eventsMutex = u
    \/ WantsStates(t) /\ statesMutex = u
    \/ pc[t] \in {"loading", "onInit", "waiting"} /\ \E r \in pending[t] : r[2] = u

\* The creation of a state holds the first mutex and waits for the second, a
\* trigger the other way round.
Embrace ==
    /\ statesMutex \in {Engine, Console}
    /\ pc[statesMutex] = "register"
    /\ eventsMutex # None

\* Threads that wait for one another are in that embrace: no wait for a
\* result under a mutex, no handler that registers or triggers, and no other
\* order of the mutexes ever closes a circle (TLuaEngine.cpp:436).
OnlyCreationsEmbrace ==
    \A circle \in (SUBSET Threads) \ {{}} :
        (\A t \in circle : \E u \in circle : WaitsFor(t, u)) => Embrace

\* A result that somebody waits for is one that a state has queued or is
\* working on: none is dropped without being made ready (TLuaEngine.cpp:1173).
InQueue(id, queue) == \E i \in DOMAIN queue : queue[i] = id
AtState(id, s) ==
    \/ running[s] = id
    \/ InQueue(id, mStateFunctionQueue[s])
    \/ InQueue(id, mStateExecuteQueue[s])
AwaitedCallsExist == \A t \in Threads : \A r \in pending[t] : AtState(r[1], r[2])

\* EnqueueFunctionCall finds the state of every handler, mLuaStates.at never
\* throws: a state is in the map before its first handler is in the other
\* (TLuaEngine.cpp:372).
HandlersHaveStates ==
    /\ \A e \in Events : mLuaEvents[e] \subseteq mLuaStates
    /\ \A t \in Threads : todo[t] \subseteq mLuaStates

-----------------------------------------------------------------------------
(* The inductive invariant.                                                *)

StepsOfThreads ==
    /\ pc[Engine] \in EngineSteps /\ next[Engine] \in {"timed", None}
    /\ pc[Console] \in ConsoleSteps /\ next[Console] \in {"timed", None}
    /\ \A c \in Callers : pc[c] \in CallerSteps /\ next[c] \in {"waiting", "idle", None}
    /\ \A s \in States : pc[s] \in LuaSteps /\ next[s] \in {"chunk", "call", "own", None}
    /\ \A t \in Threads : pc[t] = "calls" => next[t] # None
    /\ \A s \in States : /\ pc[s] = "calls" => next[s] = "own"
                         /\ pc[s] = "register" => next[s] \in {"chunk", "call"}
    /\ pc[Engine] \in {"load", "register", "script", "loading"} => loaded < Len(PluginStates)

MutexHolders ==
    /\ \A t \in Threads : eventsMutex = t <=> pc[t] = "calls"
    /\ \A t \in {Engine, Console} : statesMutex = t <=> pc[t] \in {"register", "onInit"}

StatesCreated ==
    /\ \A s \in States : pc[s] = "unstarted" <=> s \notin mLuaStates
    /\ \A s \in States \ mLuaStates : mStateExecuteQueue[s] = << >>
    /\ \A s \in States : pc[s] \in {"unstarted", "scripts", "functions"} => running[s] = None
    /\ \A t \in {Engine, Console} : pc[t] = "register" => WantedState(t) \in mLuaStates
    /\ pc[Engine] = "script" => WantedState(Engine) \in mLuaStates

\* The state that the console creates runs nothing meanwhile.
ConsoleCreates ==
    /\ pc[Console] \in {"register", "onInit"} =>
          /\ pc[ConsoleState] \in {"scripts", "functions"}
          /\ ConsoleState \notin ran
          /\ mStateExecuteQueue[ConsoleState] = << >>
    /\ pc[Console] = "onInit" => pending[Console] \subseteq {<<Console, ConsoleState>>}

\* The inductive invariant of the proofs.
IndInv ==
    /\ TypeOK
    /\ StepsOfThreads
    /\ MutexHolders
    /\ StatesCreated
    /\ ConsoleCreates
    /\ HandlersHaveStates
    /\ AwaitedCallsExist

-----------------------------------------------------------------------------

\* Calls in a queue are triggers' calls, but for the console's of onInit: that
\* one is alone in the queue of a state which nobody else can reach before the
\* console gives the mutex back.
CallsQueued ==
    /\ \A s \in States :
          \/ mStateFunctionQueue[s] \in Seq(Nat)
          \/ /\ s = ConsoleState
             /\ mStateFunctionQueue[s] = <<Console>>
             /\ pc[Console] = "onInit"
             /\ <<Console, ConsoleState>> \in pending[Console]
    /\ \A s \in States \ mLuaStates : mStateFunctionQueue[s] = << >>
    /\ pc[Console] = "register" => mStateFunctionQueue[ConsoleState] = << >>

\* What is left of the triggers at a state: the call it runs, those queued,
\* and the one that a trigger in progress will queue.
Triggers(queue) == IF queue = <<Console>> THEN << >> ELSE queue
BeingRun(s) == IF running[s] \in Nat THEN <<running[s]>> ELSE << >>
Coming(s) == IF eventsMutex # None /\ s \in todo[eventsMutex] THEN <<number[eventsMutex]>> ELSE << >>
InboxOf(s) == BeingRun(s) \o Triggers(mStateFunctionQueue[s]) \o Coming(s)

Bus == INSTANCE EventBus WITH
    handlers <- mLuaEvents, inbox <- [s \in States |-> InboxOf(s)]

\* Triggers reach the handlers registered at that moment, once, and in the
\* same order at all states: the events' mutex covers the whole loop
\* (TLuaEngine.h:158).
ImplementsEventBus == Bus!Spec

\* Whoever waits for handlers gets on, and the engine gets through loading the
\* plugins, except when a creation and a trigger embrace: then nothing
\* triggers, registers or creates any more.
WaitsEnd ==
    /\ \A t \in Callers \cup {Console} : pc[t] # "idle" ~> (pc[t] = "idle" \/ Embrace)
    /\ <>(pc[Engine] = "loop" \/ Embrace)

\* "now call all onInit's" (TLuaEngine.cpp:73): they are called at some point.
OnInitsCalled == <>(pc[Engine] \in {"timed", "loop"})
=============================================================================
