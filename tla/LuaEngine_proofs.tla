--------------------------- MODULE LuaEngine_proofs ---------------------------
(***************************************************************************)
(* Proofs about LuaEngine, for any plugins, states, clients and events.    *)
(***************************************************************************)
EXTENDS LuaEngine, SequenceTheorems, TLAPS

\* The threads are all different, and none is a number or None.
LEMMA Names ==
    /\ Engine \in Threads /\ Console \in Threads /\ States \subseteq Threads /\ Callers \subseteq Threads
    /\ Engine \notin States /\ Console \notin States /\ Engine \notin Callers /\ Console \notin Callers
    /\ Engine # Console /\ None \notin Threads /\ None \notin CallIds
    /\ \A t \in Threads : t \in States \/ t \in Callers \/ t = Engine \/ t = Console
    /\ Callers \cap States = {}
    /\ ConsoleState \in States
    /\ Engine \notin Nat /\ Console \notin Nat
    /\ onInit \in Events
BY ConstantsAssumption DEF Threads, States, CallIds

-----------------------------------------------------------------------------
(* Deadlock.                                                               *)

\* Who waits for a holder of the first mutex waits for an embrace: the holder
\* is at a creation, which wants the second, or waits for a state that runs.
LEMMA EmbraceFollows ==
    ASSUME IndInv, NEW circle \in SUBSET Threads,
           \A t \in circle : \E u \in circle : WaitsFor(t, u),
           NEW v \in circle, statesMutex = v
    PROVE  Embrace
<1>1. v \in {Engine, Console} /\ pc[v] \in {"register", "onInit"}
  BY Names DEF IndInv, TypeOK, MutexHolders
<1>2. PICK w \in circle : WaitsFor(v, w)
  OBVIOUS
<1>3. CASE pc[v] = "register"
  <2>1. eventsMutex = w
    BY <1>2, <1>3 DEF WaitsFor, WantsEvents, WantsStates
  <2>2. QED
    BY <1>1, <1>3, <2>1, Names DEF Embrace
<1>4. CASE pc[v] = "onInit"
  <2>1. v = Console
    BY <1>1, <1>4 DEF IndInv, StepsOfThreads, EngineSteps
  <2>2. w = ConsoleState
    BY <1>2, <1>4, <2>1 DEF WaitsFor, WantsEvents, WantsStates, IndInv, ConsoleCreates
  <2>3. pc[w] \in {"scripts", "functions"}
    BY <1>4, <2>1, <2>2 DEF IndInv, ConsoleCreates
  <2>4. PICK x \in circle : WaitsFor(w, x)
    OBVIOUS
  <2>5. QED
    BY <2>2, <2>3, <2>4, Names DEF WaitsFor, WantsEvents, WantsStates
<1>5. QED
  BY <1>1, <1>3, <1>4

\* A circle through a thread that waits for a mutex leads to that holder.
LEMMA HolderWaits ==
    ASSUME IndInv, NEW circle \in SUBSET Threads,
           \A t \in circle : \E u \in circle : WaitsFor(t, u),
           NEW v \in circle, WantsEvents(v) \/ WantsStates(v)
    PROVE  Embrace
<1>1. PICK w \in circle : WaitsFor(v, w)
  OBVIOUS
<1>2. CASE WantsStates(v)
  <2>1. statesMutex = w
    BY <1>1, <1>2 DEF WaitsFor, WantsEvents, WantsStates
  <2>2. QED
    BY <2>1, EmbraceFollows
<1>3. CASE WantsEvents(v)
  <2>1. eventsMutex = w
    BY <1>1, <1>3 DEF WaitsFor, WantsEvents, WantsStates
  <2>2. pc[w] = "calls"
    BY <2>1 DEF IndInv, MutexHolders
  <2>3. PICK x \in circle : WaitsFor(w, x)
    OBVIOUS
  <2>4. statesMutex = x
    BY <2>2, <2>3 DEF WaitsFor, WantsEvents, WantsStates
  <2>5. QED
    BY <2>4, EmbraceFollows
<1>4. QED
  BY <1>2, <1>3

\* Every circle leads to a mutex: who makes a result waits only for one.
LEMMA OnlyEmbrace == IndInv => OnlyCreationsEmbrace
<1>1. SUFFICES ASSUME IndInv, NEW circle \in (SUBSET Threads) \ {{}},
                      \A t \in circle : \E u \in circle : WaitsFor(t, u)
               PROVE  Embrace
  BY DEF OnlyCreationsEmbrace
<1>2. PICK v \in circle : TRUE
  BY <1>1
<1>3. PICK w \in circle : WaitsFor(v, w)
  BY <1>1, <1>2
<1>4. CASE WantsEvents(v) \/ WantsStates(v)
  BY <1>1, <1>4, HolderWaits
<1>5. CASE \E r \in pending[v] : r[2] = w
  <2>1. w \in States
    <3>1. v \in Threads /\ pending \in [Threads -> SUBSET (CallIds \X States)]
      BY <1>1 DEF IndInv, TypeOK
    <3>2. PICK r \in pending[v] : r[2] = w
      BY <1>5
    <3>3. r \in CallIds \X States
      BY <3>1, <3>2
    <3>4. QED
      BY <3>2, <3>3
  <2>2. PICK x \in circle : WaitsFor(w, x)
    BY <1>1, <1>3
  <2>3. WantsEvents(w) \/ WantsStates(w)
    BY <1>1, <2>1, <2>2 DEF WaitsFor, IndInv, StepsOfThreads, LuaSteps
  <2>4. QED
    BY <1>1, <2>3, HolderWaits
<1>6. QED
  BY <1>3, <1>4, <1>5 DEF WaitsFor
-----------------------------------------------------------------------------
(* Queues.                                                                 *)

\* What is appended to a queue is in it, and the rest stays.
LEMMA Enqueued ==
    ASSUME NEW S, NEW q \in Seq(S), NEW x \in S
    PROVE  /\ Append(q, x) \in Seq(S)
           /\ InQueue(x, Append(q, x))
           /\ \A id : InQueue(id, q) => InQueue(id, Append(q, x))
<1>1. Append(q, x) \in Seq(S) /\ Len(Append(q, x)) = Len(q) + 1 /\ Len(q) \in Nat
  OBVIOUS
<1>2. DOMAIN q = 1..Len(q) /\ DOMAIN Append(q, x) = 1..Len(q) + 1
  BY <1>1
<1>3. Append(q, x)[Len(q) + 1] = x /\ \A i \in 1..Len(q) : Append(q, x)[i] = q[i]
  OBVIOUS
<1>4. QED
  BY <1>1, <1>2, <1>3 DEF InQueue

\* What leaves a queue is its head.
LEMMA Dequeued ==
    ASSUME NEW S, NEW q \in Seq(S), q # << >>
    PROVE  /\ Head(q) \in S
           /\ Tail(q) \in Seq(S)
           /\ \A id : InQueue(id, q) => id = Head(q) \/ InQueue(id, Tail(q))
<1>1. Head(q) \in S /\ Tail(q) \in Seq(S) /\ Len(q) \in Nat \ {0} /\ Len(Tail(q)) = Len(q) - 1 /\ Head(q) = q[1]
  OBVIOUS
<1>2. \A j \in 1..Len(q) - 1 : Tail(q)[j] = q[j + 1]
  BY <1>1
<1>3. DOMAIN q = 1..Len(q) /\ DOMAIN Tail(q) = 1..Len(q) - 1
  BY <1>1
<1>4. ASSUME NEW id, InQueue(id, q) PROVE id = Head(q) \/ InQueue(id, Tail(q))
  <2>1. PICK i \in 1..Len(q) : q[i] = id
    BY <1>3, <1>4 DEF InQueue
  <2>2. CASE i = 1
    BY <1>1, <2>1, <2>2
  <2>3. CASE i # 1
    <3>1. i - 1 \in 1..Len(q) - 1 /\ (i - 1) + 1 = i
      BY <1>1, <2>1, <2>3
    <3>2. QED
      BY <1>2, <1>3, <2>1, <3>1 DEF InQueue
  <2>4. QED
    BY <2>2, <2>3
<1>5. QED
  BY <1>1, <1>4

\* The state that a plugin or the console names.
LEMMA WantedIsState ==
    ASSUME IndInv, NEW t \in {Engine, Console},
           t = Engine => pc[Engine] \in {"load", "register", "script", "loading"}
    PROVE  WantedState(t) \in States
<1>1. CASE t = Engine
  <2>1. loaded \in 0..Len(PluginStates) /\ loaded < Len(PluginStates)
    BY <1>1 DEF IndInv, TypeOK, StepsOfThreads
  <2>2. Len(PluginStates) \in Nat /\ PluginStates \in Seq(States)
    BY ConstantsAssumption
  <2>3. loaded + 1 \in 1..Len(PluginStates)
    BY <2>1, <2>2
  <2>4. QED
    BY <1>1, <2>2, <2>3 DEF WantedState
<1>2. QED
  BY <1>1, Names DEF WantedState

\* It is enough that calls stay at their states and that what somebody begins
\* to wait for is there.
LEMMA AwaitedStay ==
    ASSUME IndInv,
           \A s \in States : \A id \in CallIds : AtState(id, s) => AtState(id, s)',
           \A u \in Threads : \A r \in pending'[u] : r \in pending[u] \/ AtState(r[1], r[2])'
    PROVE  AwaitedCallsExist'
<1>1. pending \in [Threads -> SUBSET (CallIds \X States)]
  BY DEF IndInv, TypeOK
<1>2. ASSUME NEW u \in Threads, NEW r \in pending'[u], r \in pending[u] PROVE AtState(r[1], r[2])'
  <2>1. r \in CallIds \X States
    BY <1>1, <1>2
  <2>2. AtState(r[1], r[2])
    BY <1>2 DEF IndInv, AwaitedCallsExist
  <2>3. QED
    BY <2>1, <2>2
<1>3. QED
  BY <1>2 DEF AwaitedCallsExist

-----------------------------------------------------------------------------
(* The steps keep the invariant.                                           *)

\* A created state's thread is at its first step, and the creator holds
\* the mutex.
LEMMA EnsureStateExistsKeeps ==
    ASSUME IndInv, NEW t \in {Engine, Console}, EnsureStateExists(t)
    PROVE  IndInv'
<1> USE DEF registry, mutexes, queues, trigger, Goto
<1>0. TypeOK
  BY DEF IndInv
<1>1. TypeOK'
  <2>1. WantedState(t) \in States
    BY WantedIsState, Names DEF EnsureStateExists
  <2>2. pc' \in [Threads -> Steps]
    <3>1. {"script", "register", "scripts"} \subseteq Steps
      BY DEF Steps, EngineSteps, LuaSteps
    <3>2. PICK w \in States : w = WantedState(t)
      BY <2>1
    <3>3. pc' = [pc EXCEPT ![t] = "script"] \/ pc' = [pc EXCEPT ![t] = "register", ![w] = "scripts"]
      BY <3>2 DEF EnsureStateExists
    <3>4. CASE pc' = [pc EXCEPT ![t] = "script"]
      BY <3>1, <3>4, <1>0 DEF TypeOK
    <3>5. CASE pc' = [pc EXCEPT ![t] = "register", ![w] = "scripts"]
      BY <3>1, <3>5, <1>0 DEF TypeOK
    <3>6. QED
      BY <3>3, <3>4, <3>5
  <2>3. mLuaStates' \subseteq States /\ mLuaStates \subseteq mLuaStates' /\ statesMutex' \in {Engine, Console, None}
    BY <2>1 DEF EnsureStateExists, TypeOK, IndInv
  <2>4. QED
    BY <2>2, <2>3 DEF EnsureStateExists, TypeOK, IndInv
<1>2. StepsOfThreads'
  <2>1. PICK w \in States : w = WantedState(t)
    BY WantedIsState, Names DEF EnsureStateExists
  <2>2. CASE w \in mLuaStates
    <3>1. pc' = [pc EXCEPT ![Engine] = "script"] /\ pc[Engine] = "load" /\ UNCHANGED <<next, loaded>>
      BY <2>1, <2>2 DEF EnsureStateExists
    <3>2. \A u \in Threads : pc'[u] = IF u = Engine THEN "script" ELSE pc[u]
      BY <3>1, <1>0 DEF TypeOK
    <3>3. QED
      BY <3>1, <3>2, Names, SMTT(30) DEF IndInv, StepsOfThreads, EngineSteps
  <2>3. CASE w \notin mLuaStates
    <3>1. /\ pc' = [pc EXCEPT ![t] = "register", ![w] = "scripts"]
          /\ statesMutex = None /\ statesMutex' = t
          /\ mLuaStates' = mLuaStates \cup {w}
          /\ pc[t] = IF t = Engine THEN "load" ELSE "idle"
          /\ UNCHANGED <<eventsMutex, mStateExecuteQueue, running, next, loaded>>
      BY <2>1, <2>3 DEF EnsureStateExists
    <3>2. w \in Threads /\ t \in Threads /\ w # t /\ w # Engine /\ w # Console
      BY Names
    <3>3. pc'[t] = "register" /\ pc'[w] = "scripts" /\ \A u \in Threads \ {t, w} : pc'[u] = pc[u]
      BY <3>1, <3>2, <1>0 DEF TypeOK
    <3>4. pc[w] = "unstarted" /\ running[w] = None
      BY <2>1, <2>3 DEF IndInv, StatesCreated
    <3>5. \A u \in Threads : pc'[u] = "calls" => pc[u] = "calls"
      BY <3>2, <3>3
    <3>6. pc'[Engine] \in EngineSteps /\ pc'[Console] \in ConsoleSteps
      BY <3>2, <3>3, Names DEF IndInv, StepsOfThreads, EngineSteps, ConsoleSteps
    <3>7. \A c \in Callers : pc'[c] \in CallerSteps
      BY <3>2, <3>3, Names DEF IndInv, StepsOfThreads
    <3>8. \A s \in States : pc'[s] \in LuaSteps /\ (pc'[s] = "register" => pc[s] = "register")
      BY <3>2, <3>3, Names DEF IndInv, StepsOfThreads, LuaSteps
    <3>9. pc'[Engine] \in {"load", "register", "script", "loading"} => loaded < Len(PluginStates)
      BY <3>1, <3>2, <3>3, Names DEF IndInv, StepsOfThreads
    <3>10. QED
      BY <3>1, <3>5, <3>6, <3>7, <3>8, <3>9, Names DEF IndInv, StepsOfThreads
  <2>4. QED
    BY <2>2, <2>3
<1>3. MutexHolders'
  <2>1. PICK w \in States : w = WantedState(t)
    BY WantedIsState, Names DEF EnsureStateExists
  <2>2. CASE w \in mLuaStates
    BY <2>1, <2>2, <1>0, Names DEF EnsureStateExists, TypeOK, IndInv, MutexHolders
  <2>3. CASE w \notin mLuaStates
    <3>1. /\ pc' = [pc EXCEPT ![t] = "register", ![w] = "scripts"]
          /\ statesMutex = None /\ statesMutex' = t
          /\ mLuaStates' = mLuaStates \cup {w}
          /\ pc[t] = IF t = Engine THEN "load" ELSE "idle"
          /\ UNCHANGED <<eventsMutex, mStateExecuteQueue, running, next, loaded>>
      BY <2>1, <2>3 DEF EnsureStateExists
    <3>2. w \in Threads /\ t \in Threads /\ w # t /\ w # Engine /\ w # Console
      BY Names
    <3>3. pc'[t] = "register" /\ pc'[w] = "scripts" /\ \A u \in Threads \ {t, w} : pc'[u] = pc[u]
      BY <3>1, <3>2, <1>0 DEF TypeOK
    <3>4. pc[w] = "unstarted" /\ running[w] = None
      BY <2>1, <2>3 DEF IndInv, StatesCreated
    <3>5. \A u \in Threads : eventsMutex = u <=> pc'[u] = "calls"
      BY <3>1, <3>2, <3>3, <3>4 DEF IndInv, MutexHolders
    <3>6. \A u \in {Engine, Console} : t = u <=> pc'[u] \in {"register", "onInit"}
      BY <3>1, <3>2, <3>3, Names DEF IndInv, MutexHolders
    <3>7. QED
      BY <3>1, <3>5, <3>6 DEF MutexHolders
  <2>4. QED
    BY <2>2, <2>3
<1>4. StatesCreated'
  <2>1. PICK w \in States : w = WantedState(t)
    BY WantedIsState, Names DEF EnsureStateExists
  <2>2. CASE w \in mLuaStates
    BY <2>1, <2>2, <1>0, Names DEF EnsureStateExists, TypeOK, IndInv, StatesCreated, WantedState
  <2>3. CASE w \notin mLuaStates
    <3>1. /\ pc' = [pc EXCEPT ![t] = "register", ![w] = "scripts"]
          /\ statesMutex = None /\ statesMutex' = t
          /\ mLuaStates' = mLuaStates \cup {w}
          /\ pc[t] = IF t = Engine THEN "load" ELSE "idle"
          /\ UNCHANGED <<eventsMutex, mStateExecuteQueue, running, next, loaded>>
      BY <2>1, <2>3 DEF EnsureStateExists
    <3>2. w \in Threads /\ t \in Threads /\ w # t /\ w # Engine /\ w # Console
      BY Names
    <3>3. pc'[t] = "register" /\ pc'[w] = "scripts" /\ \A u \in Threads \ {t, w} : pc'[u] = pc[u]
      BY <3>1, <3>2, <1>0 DEF TypeOK
    <3>4. pc[w] = "unstarted" /\ running[w] = None
      BY <2>1, <2>3 DEF IndInv, StatesCreated
    <3>5. \A s \in States : s # w => pc'[s] = pc[s]
      BY <3>2, <3>3, Names
    <3>6. \A u \in {Engine, Console} : WantedState(u)' = WantedState(u)
      BY <3>1 DEF WantedState
    <3>7. \A u \in {Engine, Console} : pc'[u] = "register" => WantedState(u) \in mLuaStates'
      BY <2>1, <3>1, <3>2, <3>3, Names DEF IndInv, StatesCreated
    <3>8. pc'[Engine] = "script" => WantedState(Engine) \in mLuaStates'
      BY <3>1, <3>2, <3>3, Names DEF IndInv, StatesCreated
    <3>9. /\ \A s \in States : pc'[s] = "unstarted" <=> s \notin mLuaStates'
          /\ \A s \in States \ mLuaStates' : mStateExecuteQueue'[s] = << >>
          /\ \A s \in States : pc'[s] \in {"unstarted", "scripts", "functions"} => running'[s] = None
      BY <3>1, <3>3, <3>4, <3>5 DEF IndInv, StatesCreated
    <3>10. QED
      BY <3>6, <3>7, <3>8, <3>9, Names DEF StatesCreated
  <2>4. QED
    BY <2>2, <2>3
<1>5. ConsoleCreates'
  BY Names DEF ConsoleCreates, StepsOfThreads, MutexHolders, StatesCreated, TypeOK, IndInv, EnsureStateExists, WantedState
<1>6. HandlersHaveStates'
  BY Names DEF HandlersHaveStates, StatesCreated, TypeOK, IndInv, EnsureStateExists, WantedState
<1>7. AwaitedCallsExist'
  BY Names DEF AwaitedCallsExist, AtState, IndInv, EnsureStateExists, WantedState
<1>8. QED
  BY <1>1, <1>2, <1>3, <1>4, <1>5, <1>6, <1>7 DEF IndInv

\* The handler's state exists; the console's call is queued at it.
LEMMA RegisterOnInitKeeps ==
    ASSUME IndInv, NEW t \in {Engine, Console}, RegisterOnInit(t)
    PROVE  IndInv'
<1> USE DEF registry, mutexes, queues, trigger, Goto
<1>0. TypeOK
  BY DEF IndInv
<1>1. TypeOK'
  <2>1. WantedState(t) \in States
    BY WantedIsState, Names DEF RegisterOnInit
  <2>2. mLuaEvents' \in [Events -> SUBSET States]
    BY <2>1, <1>0 DEF RegisterOnInit, TypeOK
  <2>3. CASE t = Engine
    <3>1. /\ UNCHANGED <<mLuaStates, eventsMutex, mStateExecuteQueue, mStateFunctionQueue, running, ran, loaded,
                         triggered, next, todo, number, pending>>
          /\ statesMutex' = None /\ pc' = [pc EXCEPT ![Engine] = "script"]
      BY <2>3 DEF RegisterOnInit
    <3>2. pc' \in [Threads -> Steps]
      BY <3>1, <1>0 DEF TypeOK, Steps, EngineSteps
    <3>3. QED
      BY <2>2, <3>1, <3>2, <1>0 DEF TypeOK
  <2>4. CASE t = Console
    <3>1. mStateFunctionQueue' = [mStateFunctionQueue EXCEPT ![ConsoleState] = Append(@, Console)]
      BY <2>4, Names DEF RegisterOnInit, EnqueueCall
    <3>2. mStateFunctionQueue[ConsoleState] \in Seq(CallIds) /\ Console \in CallIds
      BY <1>0, Names DEF TypeOK, CallIds
    <3>3. Append(mStateFunctionQueue[ConsoleState], Console) \in Seq(CallIds)
      BY <3>2, Enqueued
    <3>4. mStateFunctionQueue' \in [States -> Seq(CallIds)]
      BY <3>1, <3>3, <1>0, Names DEF TypeOK
    <3>5. pending' \in [Threads -> SUBSET (CallIds \X States)]
      <4>1. PICK r \in CallIds \X States : r = <<Console, ConsoleState>>
        BY <3>2, Names
      <4>2. pending' = [pending EXCEPT ![Console] = {r}]
        BY <2>4, <4>1, Names DEF RegisterOnInit
      <4>3. QED
        BY <4>1, <4>2, <1>0 DEF TypeOK
    <3>6. /\ UNCHANGED <<mLuaStates, statesMutex, eventsMutex, mStateExecuteQueue, running, ran, loaded,
                         triggered, next, todo, number>>
          /\ pc' = [pc EXCEPT ![Console] = "onInit"]
      BY <2>4, Names DEF RegisterOnInit
    <3>7. pc' \in [Threads -> Steps]
      BY <3>6, <1>0 DEF TypeOK, Steps, ConsoleSteps
    <3>8. QED
      BY <2>2, <3>4, <3>5, <3>6, <3>7, <1>0 DEF TypeOK
  <2>5. QED
    BY <2>3, <2>4
<1>2. StepsOfThreads'
  <2>1. PICK step \in {"script", "onInit"} :
            /\ pc' = [pc EXCEPT ![t] = step]
            /\ step = IF t = Engine THEN "script" ELSE "onInit"
            /\ pc[t] = "register"
            /\ UNCHANGED <<next, loaded>>
    BY DEF RegisterOnInit
  <2>2. t \in Threads /\ t \notin States /\ t \notin Callers
    BY Names
  <2>3. pc'[t] = step /\ \A u \in Threads \ {t} : pc'[u] = pc[u]
    BY <2>1, <2>2, <1>0 DEF TypeOK
  <2>4. pc'[Engine] \in EngineSteps /\ pc'[Console] \in ConsoleSteps
    BY <2>1, <2>2, <2>3, Names DEF IndInv, StepsOfThreads, EngineSteps, ConsoleSteps
  <2>5. (\A c \in Callers : pc'[c] = pc[c]) /\ (\A s \in States : pc'[s] = pc[s])
    BY <2>2, <2>3, Names
  <2>6. \A u \in Threads : pc'[u] = "calls" => pc[u] = "calls"
    BY <2>1, <2>2, <2>3
  <2>7. pc'[Engine] \in {"load", "register", "script", "loading"} => loaded < Len(PluginStates)
    BY <2>1, <2>2, <2>3, Names DEF IndInv, StepsOfThreads
  <2>8. QED
    BY <2>1, <2>4, <2>5, <2>6, <2>7 DEF IndInv, StepsOfThreads
<1>3. MutexHolders'
  BY Names DEF MutexHolders, StepsOfThreads, TypeOK, IndInv, RegisterOnInit, WantedState, EnqueueCall
<1>4. StatesCreated'
  BY Names DEF StatesCreated, StepsOfThreads, WantedState, TypeOK, IndInv, RegisterOnInit, EnqueueCall
<1>5. ConsoleCreates'
  BY Names DEF ConsoleCreates, StepsOfThreads, MutexHolders, StatesCreated, TypeOK, IndInv, RegisterOnInit, WantedState, EnqueueCall
<1>6. HandlersHaveStates'
  BY Names DEF HandlersHaveStates, StatesCreated, TypeOK, IndInv, RegisterOnInit, WantedState, EnqueueCall
<1>7. AwaitedCallsExist'
  <2>1. CASE t = Engine
    BY <2>1 DEF RegisterOnInit, AwaitedCallsExist, AtState, IndInv
  <2>2. CASE t = Console
    <3>1. mStateFunctionQueue' = [mStateFunctionQueue EXCEPT ![ConsoleState] = Append(@, Console)]
      BY <2>2, Names DEF RegisterOnInit, EnqueueCall
    <3>2. mStateFunctionQueue[ConsoleState] \in Seq(CallIds) /\ Console \in CallIds
      BY <1>0, Names DEF TypeOK, CallIds
    <3>3. /\ InQueue(Console, Append(mStateFunctionQueue[ConsoleState], Console))
          /\ \A id : InQueue(id, mStateFunctionQueue[ConsoleState])
                     => InQueue(id, Append(mStateFunctionQueue[ConsoleState], Console))
      BY <3>2, Enqueued
    <3>4. \A s \in States : \A id : InQueue(id, mStateFunctionQueue[s]) => InQueue(id, mStateFunctionQueue'[s])
      BY <3>1, <3>3, <1>0, Names DEF TypeOK
    <3>5. InQueue(Console, mStateFunctionQueue'[ConsoleState])
      BY <3>1, <3>3, <1>0, Names DEF TypeOK
    <3>6. pending' = [pending EXCEPT ![Console] = {<<Console, ConsoleState>>}] /\ UNCHANGED <<running, mStateExecuteQueue>>
      BY <2>2, Names DEF RegisterOnInit
    <3>7. \A u \in Threads : \A r \in pending'[u] : r \in pending[u] \/ r = <<Console, ConsoleState>>
      BY <3>6, <1>0, Names DEF TypeOK
    <3>8. QED
      BY <3>4, <3>5, <3>6, <3>7, AwaitedStay, Names DEF AtState
  <2>3. QED
    BY <2>1, <2>2
<1>8. QED
  BY <1>1, <1>2, <1>3, <1>4, <1>5, <1>6, <1>7 DEF IndInv

\* The console gives the mutex back.
LEMMA OnInitReturnedKeeps ==
    ASSUME IndInv, OnInitReturned
    PROVE  IndInv'
<1> USE DEF registry, mutexes, queues, trigger, Goto
<1>0. TypeOK
  BY DEF IndInv
<1>1. TypeOK'
  BY Names DEF TypeOK, IndInv, OnInitReturned, Steps, EngineSteps, ConsoleSteps, CallerSteps, LuaSteps
<1>2. StepsOfThreads'
  BY Names DEF StepsOfThreads, EngineSteps, ConsoleSteps, CallerSteps, LuaSteps, TypeOK, IndInv, OnInitReturned
<1>3. MutexHolders'
  BY Names DEF MutexHolders, StepsOfThreads, TypeOK, IndInv, OnInitReturned
<1>4. StatesCreated'
  BY Names DEF StatesCreated, StepsOfThreads, WantedState, TypeOK, IndInv, OnInitReturned
<1>5. ConsoleCreates'
  BY Names DEF ConsoleCreates, StepsOfThreads, MutexHolders, StatesCreated, TypeOK, IndInv, OnInitReturned
<1>6. HandlersHaveStates'
  BY Names DEF HandlersHaveStates, StatesCreated, TypeOK, IndInv, OnInitReturned
<1>7. AwaitedCallsExist'
  BY Names DEF AwaitedCallsExist, AtState, IndInv, OnInitReturned
<1>8. QED
  BY <1>1, <1>2, <1>3, <1>4, <1>5, <1>6, <1>7 DEF IndInv

\* A chunk is queued.
LEMMA EnqueueScriptQueues ==
    ASSUME IndInv, NEW t \in {Engine, Console}, NEW s \in States, EnqueueScript(t, s)
    PROVE  /\ mStateExecuteQueue' \in [States -> Seq({Engine, Console})]
           /\ pending' \in [Threads -> SUBSET (CallIds \X States)]
           /\ AwaitedCallsExist'
<1>0. TypeOK
  BY DEF IndInv
<1>1. /\ mStateExecuteQueue' = [mStateExecuteQueue EXCEPT ![s] = Append(@, t)]
      /\ pending' = [pending EXCEPT ![t] = {<<t, s>>}]
      /\ UNCHANGED <<running, mStateFunctionQueue>>
  BY DEF EnqueueScript
<1>2. mStateExecuteQueue[s] \in Seq({Engine, Console})
  BY <1>0 DEF TypeOK
<1>3. /\ Append(mStateExecuteQueue[s], t) \in Seq({Engine, Console})
      /\ InQueue(t, Append(mStateExecuteQueue[s], t))
      /\ \A id : InQueue(id, mStateExecuteQueue[s]) => InQueue(id, Append(mStateExecuteQueue[s], t))
  BY <1>2, Enqueued
<1>4. mStateExecuteQueue' \in [States -> Seq({Engine, Console})]
  BY <1>0, <1>1, <1>3 DEF TypeOK
<1>5. t \in CallIds /\ t \in Threads
  BY Names DEF CallIds
<1>6. pending' \in [Threads -> SUBSET (CallIds \X States)]
  BY <1>0, <1>1, <1>5 DEF TypeOK
<1>7. AwaitedCallsExist'
  <2>1. \A u \in States : \A id : InQueue(id, mStateExecuteQueue[u]) => InQueue(id, mStateExecuteQueue'[u])
    BY <1>0, <1>1, <1>3 DEF TypeOK
  <2>2. InQueue(t, mStateExecuteQueue'[s])
    BY <1>0, <1>1, <1>3 DEF TypeOK
  <2>3. \A u \in Threads : \A r \in pending'[u] : r \in pending[u] \/ r = <<t, s>>
    BY <1>0, <1>1 DEF TypeOK
  <2>4. QED
    BY <1>1, <2>1, <2>2, <2>3, AwaitedStay DEF AtState
<1>8. QED
  BY <1>4, <1>6, <1>7

\* The plugin's state exists, and its chunk is queued there.
LEMMA LoadPluginKeeps ==
    ASSUME IndInv, LoadPlugin
    PROVE  IndInv'
<1> USE DEF registry, mutexes, queues, trigger, Goto
<1>0. TypeOK
  BY DEF IndInv
<1>1. TypeOK'
  <2>1. WantedState(Engine) \in States
    BY WantedIsState DEF LoadPlugin
  <2>2. /\ mStateExecuteQueue' \in [States -> Seq({Engine, Console})]
        /\ pending' \in [Threads -> SUBSET (CallIds \X States)]
    BY <2>1, EnqueueScriptQueues DEF LoadPlugin
  <2>3. pc' \in [Threads -> Steps]
    BY <1>0 DEF LoadPlugin, TypeOK, Steps, EngineSteps
  <2>4. QED
    BY <2>2, <2>3, <1>0 DEF LoadPlugin, EnqueueScript, TypeOK
<1>2. StepsOfThreads'
  BY Names DEF StepsOfThreads, EngineSteps, ConsoleSteps, CallerSteps, LuaSteps, TypeOK, IndInv, LoadPlugin, EnqueueScript, WantedState
<1>3. MutexHolders'
  BY Names DEF MutexHolders, StepsOfThreads, TypeOK, IndInv, LoadPlugin, EnqueueScript, WantedState
<1>4. StatesCreated'
  BY Names DEF StatesCreated, StepsOfThreads, WantedState, TypeOK, IndInv, LoadPlugin, EnqueueScript
<1>5. ConsoleCreates'
  BY Names DEF ConsoleCreates, StepsOfThreads, MutexHolders, StatesCreated, TypeOK, IndInv, LoadPlugin, EnqueueScript, WantedState
<1>6. HandlersHaveStates'
  BY Names DEF HandlersHaveStates, StatesCreated, TypeOK, IndInv, LoadPlugin, EnqueueScript, WantedState
<1>7. AwaitedCallsExist'
  <2>1. WantedState(Engine) \in States
    BY WantedIsState DEF LoadPlugin
  <2>2. QED
    BY <2>1, EnqueueScriptQueues DEF LoadPlugin
<1>8. QED
  BY <1>1, <1>2, <1>3, <1>4, <1>5, <1>6, <1>7 DEF IndInv

\* The next plugin, or all are loaded.
LEMMA PluginLoadedKeeps ==
    ASSUME IndInv, PluginLoaded
    PROVE  IndInv'
<1> USE DEF registry, mutexes, queues, trigger, Goto
<1>0. TypeOK
  BY DEF IndInv
<1>1. TypeOK'
  <2>1. loaded \in 0..Len(PluginStates) /\ loaded < Len(PluginStates) /\ Len(PluginStates) \in Nat
    BY <1>0, ConstantsAssumption DEF PluginLoaded, IndInv, StepsOfThreads, TypeOK
  <2>2. loaded' \in 0..Len(PluginStates)
    BY <2>1 DEF PluginLoaded
  <2>3. pc' \in [Threads -> Steps]
    BY <1>0 DEF PluginLoaded, TypeOK, Steps, EngineSteps
  <2>4. QED
    BY <2>2, <2>3, <1>0 DEF PluginLoaded, TypeOK
<1>2. StepsOfThreads'
  BY Names DEF StepsOfThreads, EngineSteps, ConsoleSteps, CallerSteps, LuaSteps, TypeOK, IndInv, PluginLoaded, WantedState
<1>3. MutexHolders'
  BY Names DEF MutexHolders, StepsOfThreads, TypeOK, IndInv, PluginLoaded, WantedState
<1>4. StatesCreated'
  BY Names DEF StatesCreated, StepsOfThreads, WantedState, TypeOK, IndInv, PluginLoaded
<1>5. ConsoleCreates'
  BY Names DEF ConsoleCreates, StepsOfThreads, MutexHolders, StatesCreated, TypeOK, IndInv, PluginLoaded, WantedState
<1>6. HandlersHaveStates'
  BY Names DEF HandlersHaveStates, StatesCreated, TypeOK, IndInv, PluginLoaded, WantedState
<1>7. AwaitedCallsExist'
  BY Names DEF AwaitedCallsExist, AtState, IndInv, PluginLoaded, WantedState
<1>8. QED
  BY <1>1, <1>2, <1>3, <1>4, <1>5, <1>6, <1>7 DEF IndInv

\* The console attaches only to states that exist.
LEMMA RunLineKeeps ==
    ASSUME IndInv, NEW s \in States, RunLine(s)
    PROVE  IndInv'
<1> USE DEF registry, mutexes, queues, trigger, Goto
<1>0. TypeOK
  BY DEF IndInv
<1>1. TypeOK'
  <2>1. /\ mStateExecuteQueue' \in [States -> Seq({Engine, Console})]
        /\ pending' \in [Threads -> SUBSET (CallIds \X States)]
    BY EnqueueScriptQueues DEF RunLine
  <2>2. pc' \in [Threads -> Steps]
    BY <1>0 DEF RunLine, TypeOK, Steps, ConsoleSteps
  <2>3. QED
    BY <2>1, <2>2, <1>0 DEF RunLine, EnqueueScript, TypeOK
<1>2. StepsOfThreads'
  BY Names DEF StepsOfThreads, EngineSteps, ConsoleSteps, CallerSteps, LuaSteps, TypeOK, IndInv, RunLine, EnqueueScript
<1>3. MutexHolders'
  BY Names DEF MutexHolders, StepsOfThreads, TypeOK, IndInv, RunLine, EnqueueScript
<1>4. StatesCreated'
  BY Names DEF StatesCreated, StepsOfThreads, WantedState, TypeOK, IndInv, RunLine, EnqueueScript
<1>5. ConsoleCreates'
  BY Names DEF ConsoleCreates, StepsOfThreads, MutexHolders, StatesCreated, TypeOK, IndInv, RunLine, EnqueueScript
<1>6. HandlersHaveStates'
  BY Names DEF HandlersHaveStates, StatesCreated, TypeOK, IndInv, RunLine, EnqueueScript
<1>7. AwaitedCallsExist'
  BY EnqueueScriptQueues DEF RunLine
<1>8. QED
  BY <1>1, <1>2, <1>3, <1>4, <1>5, <1>6, <1>7 DEF IndInv

\* A call is queued.
LEMMA EnqueueFunctionCallQueues ==
    ASSUME IndInv, NEW t \in Threads, NEW s \in States, EnqueueFunctionCall(t, s)
    PROVE  /\ mStateFunctionQueue' \in [States -> Seq(CallIds)]
           /\ pending' \in [Threads -> SUBSET (CallIds \X States)]
           /\ AwaitedCallsExist'
<1>0. TypeOK
  BY DEF IndInv
<1>1. /\ mStateFunctionQueue' = [mStateFunctionQueue EXCEPT ![s] = Append(@, number[t])]
      /\ \/ pending' = [pending EXCEPT ![t] = @ \cup {<<number[t], s>>}]
         \/ pending' = pending
      /\ UNCHANGED <<running, mStateExecuteQueue>>
  BY DEF EnqueueFunctionCall, EnqueueCall
<1>2. mStateFunctionQueue[s] \in Seq(CallIds) /\ number[t] \in CallIds
  BY <1>0 DEF TypeOK, CallIds
<1>3. /\ Append(mStateFunctionQueue[s], number[t]) \in Seq(CallIds)
      /\ InQueue(number[t], Append(mStateFunctionQueue[s], number[t]))
      /\ \A id : InQueue(id, mStateFunctionQueue[s]) => InQueue(id, Append(mStateFunctionQueue[s], number[t]))
  BY <1>2, Enqueued
<1>4. mStateFunctionQueue' \in [States -> Seq(CallIds)]
  BY <1>0, <1>1, <1>3 DEF TypeOK
<1>5. pending' \in [Threads -> SUBSET (CallIds \X States)]
  <2>1. <<number[t], s>> \in CallIds \X States
    BY <1>2
  <2>2. pending[t] \cup {<<number[t], s>>} \in SUBSET (CallIds \X States)
    BY <2>1, <1>0 DEF TypeOK
  <2>3. QED
    BY <2>2, <1>0, <1>1 DEF TypeOK
<1>6. AwaitedCallsExist'
  <2>1. \A u \in States : \A id : InQueue(id, mStateFunctionQueue[u]) => InQueue(id, mStateFunctionQueue'[u])
    BY <1>0, <1>1, <1>3 DEF TypeOK
  <2>2. InQueue(number[t], mStateFunctionQueue'[s])
    BY <1>0, <1>1, <1>3 DEF TypeOK
  <2>3. \A u \in Threads : \A r \in pending'[u] : r \in pending[u] \/ r = <<number[t], s>>
    <3>1. PICK c : c = <<number[t], s>>
      OBVIOUS
    <3>2. pending' = [pending EXCEPT ![t] = @ \cup {c}] \/ pending' = pending
      BY <1>1, <3>1
    <3>3. \A u \in Threads : pending'[u] \subseteq pending[u] \cup {c}
      BY <3>2, <1>0 DEF TypeOK
    <3>4. QED
      BY <3>1, <3>3
  <2>4. QED
    BY <1>1, <2>1, <2>2, <2>3, AwaitedStay DEF AtState
<1>7. QED
  BY <1>4, <1>5, <1>6

\* The call is queued before anyone waits for it; the last one gives the
\* mutex back.
LEMMA EnqueueFunctionCallKeeps ==
    ASSUME IndInv, NEW t \in Threads, NEW s \in States, EnqueueFunctionCall(t, s)
    PROVE  IndInv'
<1> USE DEF registry, mutexes, queues, trigger, Goto
<1>0. TypeOK
  BY DEF IndInv
<1>1. TypeOK'
  <2>1. next[t] \in {"timed", "waiting", "idle", "own"}
    BY Names DEF EnqueueFunctionCall, IndInv, StepsOfThreads
  <2>2. /\ mStateFunctionQueue' \in [States -> Seq(CallIds)]
        /\ pending' \in [Threads -> SUBSET (CallIds \X States)]
    BY EnqueueFunctionCallQueues
  <2>3. todo' \in [Threads -> SUBSET States]
    BY <1>0 DEF EnqueueFunctionCall, TypeOK
  <2>4. pc' \in [Threads -> Steps] /\ next' \in [Threads -> Steps \cup {None}] /\ number' \in [Threads -> Nat]
    <3>1. CASE todo[t] = {s}
      <4>1. next[t] \in Steps
        BY <2>1 DEF Steps, EngineSteps, ConsoleSteps, CallerSteps, LuaSteps
      <4>2. /\ pc' = [pc EXCEPT ![t] = next[t]]
            /\ next' = [next EXCEPT ![t] = None]
            /\ number' = [number EXCEPT ![t] = 0]
        BY <3>1 DEF EnqueueFunctionCall
      <4>3. QED
        BY <4>1, <4>2, <1>0 DEF TypeOK
    <3>2. CASE todo[t] # {s}
      BY <3>2, <1>0 DEF EnqueueFunctionCall, TypeOK
    <3>3. QED
      BY <3>1, <3>2
  <2>5. eventsMutex' \in Threads \cup {None}
    BY <1>0 DEF EnqueueFunctionCall, TypeOK
  <2>6. QED
    BY <2>2, <2>3, <2>4, <2>5, <1>0 DEF EnqueueFunctionCall, TypeOK
<1>2. StepsOfThreads'
  <2>1. CASE todo[t] # {s}
    BY <2>1 DEF EnqueueFunctionCall, IndInv, StepsOfThreads
  <2>2. CASE todo[t] = {s}
    <3>1. /\ pc[t] = "calls"
          /\ pc' = [pc EXCEPT ![t] = next[t]] /\ next' = [next EXCEPT ![t] = None]
          /\ UNCHANGED loaded
      BY <2>2 DEF EnqueueFunctionCall
    <3>2. pc'[t] = next[t] /\ next'[t] = None /\ \A u \in Threads \ {t} : pc'[u] = pc[u] /\ next'[u] = next[u]
      BY <3>1, <1>0 DEF TypeOK
    <3>3. t = Engine => next[t] = "timed"
      BY <3>1 DEF IndInv, StepsOfThreads
    <3>4. t = Console => next[t] = "timed"
      BY <3>1 DEF IndInv, StepsOfThreads
    <3>5. t \in Callers => next[t] \in {"waiting", "idle"}
      BY <3>1 DEF IndInv, StepsOfThreads
    <3>6. t \in States => next[t] = "own"
      BY <3>1 DEF IndInv, StepsOfThreads
    <3>7. pc'[Engine] \in EngineSteps /\ next'[Engine] \in {"timed", None}
      BY <3>2, <3>3, Names DEF IndInv, StepsOfThreads, EngineSteps
    <3>8. pc'[Console] \in ConsoleSteps /\ next'[Console] \in {"timed", None}
      BY <3>2, <3>4, Names DEF IndInv, StepsOfThreads, ConsoleSteps
    <3>9. \A c \in Callers : pc'[c] \in CallerSteps /\ next'[c] \in {"waiting", "idle", None}
      BY <3>2, <3>5, Names DEF IndInv, StepsOfThreads, CallerSteps
    <3>10. \A u \in States : pc'[u] \in LuaSteps /\ next'[u] \in {"chunk", "call", "own", None}
      BY <3>2, <3>6, Names DEF IndInv, StepsOfThreads, LuaSteps
    <3>11. \A u \in Threads : pc'[u] = "calls" => next'[u] # None
      BY <3>2, <3>3, <3>4, <3>5, <3>6, Names DEF IndInv, StepsOfThreads
    <3>12. \A u \in States : /\ pc'[u] = "calls" => next'[u] = "own"
                             /\ pc'[u] = "register" => next'[u] \in {"chunk", "call"}
      BY <3>2, <3>6, Names DEF IndInv, StepsOfThreads
    <3>13. pc'[Engine] \in {"load", "register", "script", "loading"} => loaded' < Len(PluginStates)
      BY <3>1, <3>2, <3>3, Names DEF IndInv, StepsOfThreads
    <3>14. QED
      BY <3>7, <3>8, <3>9, <3>10, <3>11, <3>12, <3>13 DEF StepsOfThreads
  <2>3. QED
    BY <2>1, <2>2
<1>3. MutexHolders'
  <2>1. next[t] \in {"timed", "waiting", "idle", "own"}
    BY Names DEF EnqueueFunctionCall, IndInv, StepsOfThreads
  <2>2. CASE todo[t] # {s}
    BY <2>2 DEF EnqueueFunctionCall, IndInv, MutexHolders
  <2>3. CASE todo[t] = {s}
    <3>1. pc[t] = "calls" /\ pc' = [pc EXCEPT ![t] = next[t]] /\ eventsMutex' = None
      BY <2>3 DEF EnqueueFunctionCall
    <3>2. pc'[t] = next[t] /\ \A u \in Threads \ {t} : pc'[u] = pc[u]
      BY <3>1, <1>0 DEF TypeOK
    <3>3. QED
      BY <2>1, <3>1, <3>2, Names DEF EnqueueFunctionCall, IndInv, MutexHolders
  <2>4. QED
    BY <2>2, <2>3
<1>4. StatesCreated'
  <2>1. next[t] \in {"timed", "waiting", "idle", "own"}
    BY Names DEF EnqueueFunctionCall, IndInv, StepsOfThreads
  <2>2. CASE todo[t] # {s}
    BY <2>2 DEF EnqueueFunctionCall, IndInv, StatesCreated, WantedState
  <2>3. CASE todo[t] = {s}
    <3>1. pc[t] = "calls" /\ pc' = [pc EXCEPT ![t] = next[t]] /\ eventsMutex' = None
      BY <2>3 DEF EnqueueFunctionCall
    <3>2. pc'[t] = next[t] /\ \A u \in Threads \ {t} : pc'[u] = pc[u]
      BY <3>1, <1>0 DEF TypeOK
    <3>3. QED
      BY <2>1, <3>1, <3>2, Names DEF EnqueueFunctionCall, IndInv, StatesCreated, WantedState
  <2>4. QED
    BY <2>2, <2>3
<1>5. ConsoleCreates'
  BY Names DEF ConsoleCreates, StepsOfThreads, MutexHolders, StatesCreated, TypeOK, IndInv, EnqueueFunctionCall, EnqueueCall
<1>6. HandlersHaveStates'
  BY Names DEF HandlersHaveStates, StatesCreated, TypeOK, IndInv, EnqueueFunctionCall, EnqueueCall
<1>7. AwaitedCallsExist'
  BY EnqueueFunctionCallQueues
<1>8. QED
  BY <1>1, <1>2, <1>3, <1>4, <1>5, <1>6, <1>7 DEF IndInv

\* Nothing is pending any more.
LEMMA ReadyKeeps ==
    ASSUME IndInv, NEW t \in Callers \cup {Console}, Ready(t)
    PROVE  IndInv'
<1> USE DEF registry, mutexes, queues, trigger, Goto
<1>0. TypeOK
  BY DEF IndInv
<1>1. TypeOK'
  BY Names DEF TypeOK, IndInv, Ready, Steps, EngineSteps, ConsoleSteps, CallerSteps, LuaSteps
<1>2. StepsOfThreads'
  BY Names DEF StepsOfThreads, EngineSteps, ConsoleSteps, CallerSteps, LuaSteps, TypeOK, IndInv, Ready
<1>3. MutexHolders'
  BY Names DEF MutexHolders, StepsOfThreads, TypeOK, IndInv, Ready
<1>4. StatesCreated'
  BY Names DEF StatesCreated, StepsOfThreads, WantedState, TypeOK, IndInv, Ready
<1>5. ConsoleCreates'
  BY Names DEF ConsoleCreates, StepsOfThreads, MutexHolders, StatesCreated, TypeOK, IndInv, Ready
<1>6. HandlersHaveStates'
  BY Names DEF HandlersHaveStates, StatesCreated, TypeOK, IndInv, Ready
<1>7. AwaitedCallsExist'
  BY Names DEF AwaitedCallsExist, AtState, IndInv, Ready
<1>8. QED
  BY <1>1, <1>2, <1>3, <1>4, <1>5, <1>6, <1>7 DEF IndInv

\* The results are given up.
LEMMA TimedWaitEndsKeeps ==
    ASSUME IndInv, NEW t \in {Engine, Console}, TimedWaitEnds(t)
    PROVE  IndInv'
<1> USE DEF registry, mutexes, queues, trigger, Goto
<1>0. TypeOK
  BY DEF IndInv
<1>1. TypeOK'
  BY Names DEF TypeOK, IndInv, TimedWaitEnds, Steps, EngineSteps, ConsoleSteps, CallerSteps, LuaSteps
<1>2. StepsOfThreads'
  BY Names DEF StepsOfThreads, EngineSteps, ConsoleSteps, CallerSteps, LuaSteps, TypeOK, IndInv, TimedWaitEnds
<1>3. MutexHolders'
  BY Names DEF MutexHolders, StepsOfThreads, TypeOK, IndInv, TimedWaitEnds
<1>4. StatesCreated'
  BY Names DEF StatesCreated, StepsOfThreads, WantedState, TypeOK, IndInv, TimedWaitEnds
<1>5. ConsoleCreates'
  BY Names DEF ConsoleCreates, StepsOfThreads, MutexHolders, StatesCreated, TypeOK, IndInv, TimedWaitEnds
<1>6. HandlersHaveStates'
  BY Names DEF HandlersHaveStates, StatesCreated, TypeOK, IndInv, TimedWaitEnds
<1>7. AwaitedCallsExist'
  BY Names DEF AwaitedCallsExist, AtState, IndInv, TimedWaitEnds
<1>8. QED
  BY <1>1, <1>2, <1>3, <1>4, <1>5, <1>6, <1>7 DEF IndInv

\* The chunk moves from the queue to the thread.  A state that the
\* console creates has none.
LEMMA RunChunkKeeps ==
    ASSUME IndInv, NEW s \in States, RunChunk(s)
    PROVE  IndInv'
<1> USE DEF registry, mutexes, queues, trigger, Goto
<1>0. TypeOK
  BY DEF IndInv
<1>1. TypeOK'
  <2>1. CASE mStateExecuteQueue[s] = << >>
    BY <2>1, <1>0 DEF RunChunk, TypeOK, Steps, LuaSteps
  <2>2. CASE mStateExecuteQueue[s] # << >>
    <3>1. Head(mStateExecuteQueue[s]) \in {Engine, Console} /\ Tail(mStateExecuteQueue[s]) \in Seq({Engine, Console})
      BY <2>2, <1>0, Dequeued DEF TypeOK
    <3>2. s \in mLuaStates
      BY <2>2 DEF IndInv, StatesCreated
    <3>3. mStateExecuteQueue' \in [States -> Seq({Engine, Console})] /\ running' \in [States -> CallIds \cup {None}]
      <4>1. PICK t \in CallIds : t = Head(mStateExecuteQueue[s])
        BY <3>1 DEF CallIds
      <4>2. PICK q \in Seq({Engine, Console}) : q = Tail(mStateExecuteQueue[s])
        BY <3>1
      <4>3. mStateExecuteQueue' = [mStateExecuteQueue EXCEPT ![s] = q] /\ running' = [running EXCEPT ![s] = t]
        BY <2>2, <4>1, <4>2 DEF RunChunk
      <4>4. mStateExecuteQueue' \in [States -> Seq({Engine, Console})]
        BY <4>3, <1>0 DEF TypeOK
      <4>5. running' \in [States -> CallIds \cup {None}]
        BY <4>3, <1>0 DEF TypeOK
      <4>6. QED
        BY <4>4, <4>5
    <3>4. pc' \in [Threads -> Steps]
      BY <2>2, <1>0 DEF RunChunk, TypeOK, Steps, LuaSteps
    <3>5. QED
      BY <2>2, <3>2, <3>3, <3>4, <1>0 DEF RunChunk, TypeOK
  <2>3. QED
    BY <2>1, <2>2
<1>2. StepsOfThreads'
  <2>1. PICK step \in {"functions", "chunk"} : pc' = [pc EXCEPT ![s] = step]
    BY DEF RunChunk
  <2>2. pc[s] = "scripts" /\ pc'[s] = step /\ \A u \in Threads \ {s} : pc'[u] = pc[u]
    BY <2>1, <1>0, Names DEF RunChunk, TypeOK
  <2>3. QED
    BY <2>2, Names DEF RunChunk, IndInv, StepsOfThreads, LuaSteps
<1>3. MutexHolders'
  BY Names DEF MutexHolders, StepsOfThreads, TypeOK, IndInv, RunChunk
<1>4. StatesCreated'
  <2>1. CASE mStateExecuteQueue[s] = << >>
    <3>1. pc[s] = "scripts" /\ pc' = [pc EXCEPT ![s] = "functions"]
      BY <2>1 DEF RunChunk
    <3>2. pc'[s] = "functions" /\ \A u \in Threads \ {s} : pc'[u] = pc[u]
      BY <3>1, <1>0, Names DEF TypeOK
    <3>3. QED
      BY <2>1, <3>1, <3>2, Names DEF RunChunk, IndInv, StatesCreated, WantedState
  <2>2. CASE mStateExecuteQueue[s] # << >>
    <3>1. /\ pc[s] = "scripts" /\ pc' = [pc EXCEPT ![s] = "chunk"]
          /\ running' = [running EXCEPT ![s] = Head(mStateExecuteQueue[s])]
          /\ mStateExecuteQueue' = [mStateExecuteQueue EXCEPT ![s] = Tail(@)]
      BY <2>2 DEF RunChunk
    <3>2. pc'[s] = "chunk" /\ \A u \in Threads \ {s} : pc'[u] = pc[u]
      BY <3>1, <1>0, Names DEF TypeOK
    <3>3. \A u \in States \ {s} : running'[u] = running[u] /\ mStateExecuteQueue'[u] = mStateExecuteQueue[u]
      BY <3>1, <1>0 DEF TypeOK
    <3>4. s \in mLuaStates
      BY <2>2 DEF IndInv, StatesCreated
    <3>5. QED
      BY <3>1, <3>2, <3>3, <3>4, Names DEF RunChunk, IndInv, StatesCreated, WantedState
  <2>3. QED
    BY <2>1, <2>2
<1>5. ConsoleCreates'
  BY Names DEF ConsoleCreates, StepsOfThreads, MutexHolders, StatesCreated, TypeOK, IndInv, RunChunk
<1>6. HandlersHaveStates'
  BY Names DEF HandlersHaveStates, StatesCreated, TypeOK, IndInv, RunChunk
<1>7. AwaitedCallsExist'
  <2>1. CASE mStateExecuteQueue[s] = << >>
    BY <2>1 DEF RunChunk, AwaitedCallsExist, AtState, IndInv
  <2>2. CASE mStateExecuteQueue[s] # << >>
    <3>1. /\ running' = [running EXCEPT ![s] = Head(mStateExecuteQueue[s])]
          /\ mStateExecuteQueue' = [mStateExecuteQueue EXCEPT ![s] = Tail(@)]
          /\ UNCHANGED <<mStateFunctionQueue, pending>>
      BY <2>2 DEF RunChunk
    <3>2. \A id : InQueue(id, mStateExecuteQueue[s]) => id = Head(mStateExecuteQueue[s]) \/ InQueue(id, Tail(mStateExecuteQueue[s]))
      BY <2>2, <1>0, Dequeued DEF TypeOK
    <3>3. running[s] = None
      BY DEF RunChunk, IndInv, StatesCreated
    <3>4. /\ running'[s] = Head(mStateExecuteQueue[s]) /\ mStateExecuteQueue'[s] = Tail(mStateExecuteQueue[s])
          /\ \A u \in States \ {s} : running'[u] = running[u] /\ mStateExecuteQueue'[u] = mStateExecuteQueue[u]
      BY <3>1, <1>0 DEF TypeOK
    <3>5. \A u \in States : \A id \in CallIds : AtState(id, u) => AtState(id, u)'
      BY <3>1, <3>2, <3>3, <3>4, Names DEF AtState
    <3>6. QED
      BY <3>1, <3>5, AwaitedStay
  <2>3. QED
    BY <2>1, <2>2
<1>8. QED
  BY <1>1, <1>2, <1>3, <1>4, <1>5, <1>6, <1>7 DEF IndInv

\* The call moves from the queue to the thread.  A state that the
\* console creates has run nothing and so finds nothing.
LEMMA FunctionFoundKeeps ==
    ASSUME IndInv, NEW s \in States, FunctionFound(s)
    PROVE  IndInv'
<1> USE DEF registry, mutexes, queues, trigger, Goto
<1>0. TypeOK
  BY DEF IndInv
<1>1. TypeOK'
  BY Names DEF TypeOK, IndInv, FunctionFound, TakeCall, Steps, EngineSteps, ConsoleSteps, CallerSteps, LuaSteps
<1>2. StepsOfThreads'
  BY Names DEF StepsOfThreads, EngineSteps, ConsoleSteps, CallerSteps, LuaSteps, TypeOK, IndInv, FunctionFound, TakeCall
<1>3. MutexHolders'
  BY Names DEF MutexHolders, StepsOfThreads, TypeOK, IndInv, FunctionFound, TakeCall
<1>4. StatesCreated'
  <2>1. pc' = [pc EXCEPT ![s] = "call"] /\ pc[s] = "functions"
    BY DEF FunctionFound, TakeCall
  <2>2. /\ pc'[s] = "call" /\ \A u \in Threads \ {s} : pc'[u] = pc[u]
        /\ \A u \in States \ {s} : running'[u] = running[u]
        /\ UNCHANGED <<mLuaStates, mStateExecuteQueue, loaded>>
    BY <2>1, <1>0, Names DEF FunctionFound, TypeOK
  <2>3. \A u \in States : pc'[u] = "unstarted" <=> u \notin mLuaStates'
    BY <2>1, <2>2, Names DEF IndInv, StatesCreated
  <2>4. \A u \in States : pc'[u] \in {"unstarted", "scripts", "functions"} => running'[u] = None
    BY <2>1, <2>2, Names DEF IndInv, StatesCreated
  <2>5. \A u \in {Engine, Console} : pc'[u] = pc[u] /\ WantedState(u)' = WantedState(u)
    BY <2>2, Names DEF WantedState
  <2>6. QED
    BY <2>2, <2>3, <2>4, <2>5 DEF IndInv, StatesCreated
<1>5. ConsoleCreates'
  BY Names DEF ConsoleCreates, StepsOfThreads, MutexHolders, StatesCreated, TypeOK, IndInv, FunctionFound, TakeCall
<1>6. HandlersHaveStates'
  BY Names DEF HandlersHaveStates, StatesCreated, TypeOK, IndInv, FunctionFound, TakeCall
<1>7. AwaitedCallsExist'
  <2>2. mStateFunctionQueue[s] # << >>
    BY DEF FunctionFound, TakeCall
  <2>3. AwaitedCallsExist'
    <3>1. /\ running' = [running EXCEPT ![s] = Head(mStateFunctionQueue[s])]
          /\ mStateFunctionQueue' = [mStateFunctionQueue EXCEPT ![s] = Tail(@)]
          /\ UNCHANGED <<mStateExecuteQueue, pending>>
      BY <2>2 DEF FunctionFound, TakeCall
    <3>2. \A id : InQueue(id, mStateFunctionQueue[s]) => id = Head(mStateFunctionQueue[s]) \/ InQueue(id, Tail(mStateFunctionQueue[s]))
      BY <2>2, <1>0, Dequeued DEF TypeOK
    <3>3. running[s] = None
      BY DEF FunctionFound, TakeCall, IndInv, StatesCreated
    <3>4. /\ running'[s] = Head(mStateFunctionQueue[s]) /\ mStateFunctionQueue'[s] = Tail(mStateFunctionQueue[s])
          /\ \A u \in States \ {s} : running'[u] = running[u] /\ mStateFunctionQueue'[u] = mStateFunctionQueue[u]
      BY <3>1, <1>0 DEF TypeOK
    <3>5. \A u \in States : \A id \in CallIds : AtState(id, u) => AtState(id, u)'
      BY <3>1, <3>2, <3>3, <3>4, Names DEF AtState
    <3>6. QED
      BY <3>1, <3>5, AwaitedStay
  <2>4. QED
    BY <2>3
<1>8. QED
  BY <1>1, <1>2, <1>3, <1>4, <1>5, <1>6, <1>7 DEF IndInv

\* The call leaves the queue, and nobody waits for it any more.
LEMMA FunctionNotFoundKeeps ==
    ASSUME IndInv, NEW s \in States, FunctionNotFound(s)
    PROVE  IndInv'
<1> USE DEF registry, mutexes, queues, trigger, Goto
<1>0. TypeOK
  BY DEF IndInv
<1>1. TypeOK'
  BY Names DEF TypeOK, IndInv, FunctionNotFound, TakeCall, MarkReady, Steps, EngineSteps, ConsoleSteps, CallerSteps, LuaSteps
<1>2. StepsOfThreads'
  BY Names DEF StepsOfThreads, EngineSteps, ConsoleSteps, CallerSteps, LuaSteps, TypeOK, IndInv, FunctionNotFound, TakeCall, MarkReady
<1>3. MutexHolders'
  BY Names DEF MutexHolders, StepsOfThreads, TypeOK, IndInv, FunctionNotFound, TakeCall, MarkReady
<1>4. StatesCreated'
  BY Names DEF StatesCreated, StepsOfThreads, WantedState, TypeOK, IndInv, FunctionNotFound, TakeCall, MarkReady
<1>5. ConsoleCreates'
  BY Names DEF ConsoleCreates, StepsOfThreads, MutexHolders, StatesCreated, TypeOK, IndInv, FunctionNotFound, TakeCall, MarkReady
<1>6. HandlersHaveStates'
  BY Names DEF HandlersHaveStates, StatesCreated, TypeOK, IndInv, FunctionNotFound, TakeCall, MarkReady
<1>7. AwaitedCallsExist'
  <2>1. /\ mStateFunctionQueue[s] # << >>
        /\ mStateFunctionQueue' = [mStateFunctionQueue EXCEPT ![s] = Tail(@)]
        /\ pending' = [u \in Threads |-> pending[u] \ {<<Head(mStateFunctionQueue[s]), s>>}]
        /\ UNCHANGED <<running, mStateExecuteQueue>>
    BY DEF FunctionNotFound, TakeCall, MarkReady
  <2>2. \A id : InQueue(id, mStateFunctionQueue[s])
               => id = Head(mStateFunctionQueue[s]) \/ InQueue(id, Tail(mStateFunctionQueue[s]))
    BY <2>1, <1>0, Dequeued DEF TypeOK
  <2>3. /\ mStateFunctionQueue'[s] = Tail(mStateFunctionQueue[s])
        /\ \A u \in States \ {s} : mStateFunctionQueue'[u] = mStateFunctionQueue[u]
    BY <2>1, <1>0 DEF TypeOK
  <2>4. ASSUME NEW u \in Threads, NEW r \in pending'[u] PROVE AtState(r[1], r[2])'
    <3>1. r \in pending[u] /\ r # <<Head(mStateFunctionQueue[s]), s>> /\ r \in CallIds \X States
      BY <2>1, <2>4, <1>0 DEF TypeOK
    <3>2. AtState(r[1], r[2]) /\ r = <<r[1], r[2]>> /\ r[2] \in States
      BY <3>1 DEF IndInv, AwaitedCallsExist
    <3>3. QED
      BY <2>1, <2>2, <2>3, <3>1, <3>2 DEF AtState
  <2>5. QED
    BY <2>4 DEF AwaitedCallsExist
<1>8. QED
  BY <1>1, <1>2, <1>3, <1>4, <1>5, <1>6, <1>7 DEF IndInv

\* An empty queue changes only the thread's step.
LEMMA NoCallKeeps ==
    ASSUME IndInv, NEW s \in States, NoCall(s)
    PROVE  IndInv'
<1> USE DEF registry, mutexes, queues, trigger, Goto
<1>0. TypeOK
  BY DEF IndInv
<1>1. TypeOK'
  BY Names DEF TypeOK, IndInv, NoCall, Steps, EngineSteps, ConsoleSteps, CallerSteps, LuaSteps
<1>2. StepsOfThreads'
  BY Names DEF StepsOfThreads, EngineSteps, ConsoleSteps, CallerSteps, LuaSteps, TypeOK, IndInv, NoCall
<1>3. MutexHolders'
  BY Names DEF MutexHolders, StepsOfThreads, TypeOK, IndInv, NoCall
<1>4. StatesCreated'
  BY Names DEF StatesCreated, StepsOfThreads, WantedState, TypeOK, IndInv, NoCall
<1>5. ConsoleCreates'
  BY Names DEF ConsoleCreates, StepsOfThreads, MutexHolders, StatesCreated, TypeOK, IndInv, NoCall
<1>6. HandlersHaveStates'
  BY Names DEF HandlersHaveStates, StatesCreated, TypeOK, IndInv, NoCall
<1>7. AwaitedCallsExist'
  BY Names DEF AwaitedCallsExist, AtState, IndInv, NoCall
<1>8. QED
  BY <1>1, <1>2, <1>3, <1>4, <1>5, <1>6, <1>7 DEF IndInv

\* The call leaves the thread, and nobody waits for it any more.
LEMMA LuaReturnsKeeps ==
    ASSUME IndInv, NEW s \in States, LuaReturns(s)
    PROVE  IndInv'
<1> USE DEF registry, mutexes, queues, trigger, Goto
<1>0. TypeOK
  BY DEF IndInv
<1>1. TypeOK'
  BY Names DEF TypeOK, IndInv, LuaReturns, MarkReady, Steps, EngineSteps, ConsoleSteps, CallerSteps, LuaSteps
<1>2. StepsOfThreads'
  BY Names DEF StepsOfThreads, EngineSteps, ConsoleSteps, CallerSteps, LuaSteps, TypeOK, IndInv, LuaReturns, MarkReady
<1>3. MutexHolders'
  BY Names DEF MutexHolders, StepsOfThreads, TypeOK, IndInv, LuaReturns, MarkReady
<1>4. StatesCreated'
  BY Names DEF StatesCreated, StepsOfThreads, WantedState, TypeOK, IndInv, LuaReturns, MarkReady
<1>5. ConsoleCreates'
  BY Names DEF ConsoleCreates, StepsOfThreads, MutexHolders, StatesCreated, TypeOK, IndInv, LuaReturns, MarkReady
<1>6. HandlersHaveStates'
  BY Names DEF HandlersHaveStates, StatesCreated, TypeOK, IndInv, LuaReturns, MarkReady
<1>7. AwaitedCallsExist'
  <2>1. /\ running' = [running EXCEPT ![s] = None]
        /\ pending' = [u \in Threads |-> pending[u] \ {<<running[s], s>>}]
        /\ UNCHANGED <<mStateFunctionQueue, mStateExecuteQueue>>
    BY DEF LuaReturns, MarkReady
  <2>2. \A u \in States \ {s} : running'[u] = running[u]
    BY <2>1, <1>0 DEF TypeOK
  <2>3. ASSUME NEW u \in Threads, NEW r \in pending'[u] PROVE AtState(r[1], r[2])'
    <3>1. r \in pending[u] /\ r # <<running[s], s>> /\ r \in CallIds \X States
      BY <2>1, <2>3, <1>0 DEF TypeOK
    <3>2. AtState(r[1], r[2]) /\ r = <<r[1], r[2]>> /\ r[2] \in States
      BY <3>1 DEF IndInv, AwaitedCallsExist
    <3>3. QED
      BY <2>1, <2>2, <3>1, <3>2 DEF AtState
  <2>4. QED
    BY <2>3 DEF AwaitedCallsExist
<1>8. QED
  BY <1>1, <1>2, <1>3, <1>4, <1>5, <1>6, <1>7 DEF IndInv

\* Waiting for a mutex changes only the thread's step.
LEMMA LuaRegistersKeeps ==
    ASSUME IndInv, NEW s \in States, LuaRegisters(s)
    PROVE  IndInv'
<1> USE DEF registry, mutexes, queues, trigger, Goto
<1>0. TypeOK
  BY DEF IndInv
<1>1. TypeOK'
  BY Names DEF TypeOK, IndInv, LuaRegisters, Steps, EngineSteps, ConsoleSteps, CallerSteps, LuaSteps
<1>2. StepsOfThreads'
  BY Names DEF StepsOfThreads, EngineSteps, ConsoleSteps, CallerSteps, LuaSteps, TypeOK, IndInv, LuaRegisters
<1>3. MutexHolders'
  BY Names DEF MutexHolders, StepsOfThreads, TypeOK, IndInv, LuaRegisters
<1>4. StatesCreated'
  BY Names DEF StatesCreated, StepsOfThreads, WantedState, TypeOK, IndInv, LuaRegisters
<1>5. ConsoleCreates'
  BY Names DEF ConsoleCreates, StepsOfThreads, MutexHolders, StatesCreated, TypeOK, IndInv, LuaRegisters
<1>6. HandlersHaveStates'
  BY Names DEF HandlersHaveStates, StatesCreated, TypeOK, IndInv, LuaRegisters
<1>7. AwaitedCallsExist'
  BY Names DEF AwaitedCallsExist, AtState, IndInv, LuaRegisters
<1>8. QED
  BY <1>1, <1>2, <1>3, <1>4, <1>5, <1>6, <1>7 DEF IndInv

\* The registering state exists.
LEMMA RegisterEventKeeps ==
    ASSUME IndInv, NEW s \in States, NEW e \in Events, RegisterEvent(s, e)
    PROVE  IndInv'
<1> USE DEF registry, mutexes, queues, trigger, Goto
<1>0. TypeOK
  BY DEF IndInv
<1>1. TypeOK'
  <2>1. mLuaEvents' \in [Events -> SUBSET States]
    BY <1>0 DEF RegisterEvent, TypeOK
  <2>2. next[s] \in {"chunk", "call"}
    BY DEF RegisterEvent, IndInv, StepsOfThreads
  <2>3. pc' \in [Threads -> Steps]
    BY <1>0, <2>2 DEF RegisterEvent, TypeOK, Steps, LuaSteps
  <2>4. next' \in [Threads -> Steps \cup {None}]
    BY <1>0 DEF RegisterEvent, TypeOK
  <2>5. QED
    BY <2>1, <2>3, <2>4, <1>0 DEF RegisterEvent, TypeOK
<1>2. StepsOfThreads'
  BY Names DEF StepsOfThreads, EngineSteps, ConsoleSteps, CallerSteps, LuaSteps, TypeOK, IndInv, RegisterEvent
<1>3. MutexHolders'
  <2>1. next[s] \in {"chunk", "call"} /\ pc[s] = "register" /\ pc' = [pc EXCEPT ![s] = next[s]]
    BY DEF RegisterEvent, IndInv, StepsOfThreads
  <2>2. QED
    BY <1>0, <2>1, Names DEF RegisterEvent, TypeOK, IndInv, MutexHolders
<1>4. StatesCreated'
  <2>1. next[s] \in {"chunk", "call"} /\ pc[s] = "register" /\ pc' = [pc EXCEPT ![s] = next[s]]
    BY DEF RegisterEvent, IndInv, StepsOfThreads
  <2>2. QED
    BY <1>0, <2>1, Names DEF RegisterEvent, TypeOK, IndInv, StatesCreated, WantedState
<1>5. ConsoleCreates'
  BY Names DEF ConsoleCreates, StepsOfThreads, MutexHolders, StatesCreated, TypeOK, IndInv, RegisterEvent
<1>6. HandlersHaveStates'
  BY Names DEF HandlersHaveStates, StatesCreated, TypeOK, IndInv, RegisterEvent
<1>7. AwaitedCallsExist'
  BY Names DEF AwaitedCallsExist, AtState, IndInv, RegisterEvent
<1>8. QED
  BY <1>1, <1>2, <1>3, <1>4, <1>5, <1>6, <1>7 DEF IndInv

\* Handlers called in place change only the thread's step.
LEMMA OwnHandlersKeeps ==
    ASSUME IndInv, NEW s \in States, OwnHandlers(s)
    PROVE  IndInv'
<1> USE DEF registry, mutexes, queues, trigger, Goto
<1>0. TypeOK
  BY DEF IndInv
<1>1. TypeOK'
  BY Names DEF TypeOK, IndInv, OwnHandlers, Steps, EngineSteps, ConsoleSteps, CallerSteps, LuaSteps
<1>2. StepsOfThreads'
  BY Names DEF StepsOfThreads, EngineSteps, ConsoleSteps, CallerSteps, LuaSteps, TypeOK, IndInv, OwnHandlers
<1>3. MutexHolders'
  BY Names DEF MutexHolders, StepsOfThreads, TypeOK, IndInv, OwnHandlers
<1>4. StatesCreated'
  BY Names DEF StatesCreated, StepsOfThreads, WantedState, TypeOK, IndInv, OwnHandlers
<1>5. ConsoleCreates'
  BY Names DEF ConsoleCreates, StepsOfThreads, MutexHolders, StatesCreated, TypeOK, IndInv, OwnHandlers
<1>6. HandlersHaveStates'
  BY Names DEF HandlersHaveStates, StatesCreated, TypeOK, IndInv, OwnHandlers
<1>7. AwaitedCallsExist'
  BY Names DEF AwaitedCallsExist, AtState, IndInv, OwnHandlers
<1>8. QED
  BY <1>1, <1>2, <1>3, <1>4, <1>5, <1>6, <1>7 DEF IndInv


\* TriggerEvent, called by a thread that may call it.
LEMMA TriggerEventKeeps ==
    ASSUME IndInv, NEW t \in Threads, NEW e \in Events, NEW ignored, NEW return \in Steps,
           TriggerEvent(t, e, ignored, return),
           \/ t = Engine /\ pc[t] = "trigger" /\ return = "timed"
           \/ t = Console /\ pc[t] = "idle" /\ return = "timed"
           \/ t \in Callers /\ pc[t] = "idle" /\ return \in {"waiting", "idle"}
           \/ t \in States /\ pc[t] \in {"chunk", "call"} /\ return = "own"
    PROVE  IndInv'
<1> USE DEF registry, mutexes, queues, trigger, Goto
<1>0. TypeOK
  BY DEF IndInv
<1>1. PICK step \in {"calls", return} :
        /\ pc' = [pc EXCEPT ![t] = step]
        /\ pc'[t] = step
        /\ \A u \in Threads \ {t} : pc'[u] = pc[u]
        /\ step = "calls" =>
              /\ eventsMutex' = t
              /\ next' = [next EXCEPT ![t] = return]
              /\ todo' = [todo EXCEPT ![t] = mLuaEvents[e] \ ignored]
              /\ number' = [number EXCEPT ![t] = triggered + 1]
        /\ step = return => UNCHANGED <<eventsMutex, number, todo, next>>
  <2>1. return # "calls"
    OBVIOUS
  <2>2. CASE mLuaEvents[e] \ ignored = {}
    BY <2>1, <2>2, <1>0 DEF TriggerEvent, TypeOK
  <2>3. CASE mLuaEvents[e] \ ignored # {}
    BY <2>1, <2>3, <1>0 DEF TriggerEvent, TypeOK
  <2>4. QED
    BY <2>2, <2>3
<1>2. /\ eventsMutex = None /\ triggered' = triggered + 1
      /\ UNCHANGED <<registry, statesMutex, queues, running, ran, loaded, pending>>
  BY DEF TriggerEvent
<1>3. step = "calls" \/ step = return
  BY <1>1
<1>4. TypeOK'
  <2>1. pc' \in [Threads -> Steps]
    BY <1>1, <1>0 DEF TypeOK, Steps, EngineSteps
  <2>2. mLuaEvents[e] \ ignored \in SUBSET States /\ triggered + 1 \in Nat
    BY <1>0 DEF TypeOK
  <2>3. todo' \in [Threads -> SUBSET States] /\ number' \in [Threads -> Nat]
    <3>1. CASE step = "calls"
      <4>1. PICK calls \in SUBSET States : calls = mLuaEvents[e] \ ignored
        BY <2>2
      <4>2. todo' = [todo EXCEPT ![t] = calls] /\ number' = [number EXCEPT ![t] = triggered + 1]
        BY <1>1, <3>1, <4>1
      <4>3. QED
        BY <2>2, <4>2, <1>0 DEF TypeOK
    <3>2. CASE step = return
      BY <3>2, <1>0, <1>1 DEF TypeOK
    <3>3. QED
      BY <3>1, <3>2, <1>3
  <2>4. next' \in [Threads -> Steps \cup {None}]
    <3>1. next' = [next EXCEPT ![t] = return] \/ next' = next
      BY <1>1, <1>3
    <3>2. QED
      BY <3>1, <1>0 DEF TypeOK
  <2>5. eventsMutex' \in Threads \cup {None}
    <3>1. eventsMutex' = t \/ eventsMutex' = eventsMutex
      BY <1>1, <1>3
    <3>2. QED
      BY <3>1, <1>0 DEF TypeOK
  <2>6. QED
    BY <2>1, <2>2, <2>3, <2>4, <2>5, <1>0, <1>2 DEF TypeOK
<1>5. \A u \in Threads \ {t} : next'[u] = next[u]
  BY <1>0, <1>1, <1>3 DEF TypeOK
<1>6. step = "calls" => next'[t] = return
  BY <1>0, <1>1 DEF TypeOK
<1>7. step = return => next'[t] = next[t]
  BY <1>1
<1>8. StepsOfThreads'
  <2>1. pc'[Engine] \in EngineSteps /\ next'[Engine] \in {"timed", None}
    BY <1>1, <1>3, <1>5, <1>6, <1>7, Names DEF IndInv, StepsOfThreads, EngineSteps
  <2>2. pc'[Console] \in ConsoleSteps /\ next'[Console] \in {"timed", None}
    BY <1>1, <1>3, <1>5, <1>6, <1>7, Names DEF IndInv, StepsOfThreads, ConsoleSteps
  <2>3. \A c \in Callers : pc'[c] \in CallerSteps /\ next'[c] \in {"waiting", "idle", None}
    BY <1>1, <1>3, <1>5, <1>6, <1>7, Names DEF IndInv, StepsOfThreads, CallerSteps
  <2>4. \A u \in States : pc'[u] \in LuaSteps /\ next'[u] \in {"chunk", "call", "own", None}
    BY <1>1, <1>3, <1>5, <1>6, <1>7, Names DEF IndInv, StepsOfThreads, LuaSteps
  <2>5. \A u \in Threads : pc'[u] = "calls" => next'[u] # None
    BY <1>1, <1>3, <1>5, <1>6, ConstantsAssumption DEF IndInv, StepsOfThreads
  <2>6. \A u \in States : pc'[u] = "calls" => next'[u] = "own"
    BY <1>1, <1>3, <1>5, <1>6, Names DEF IndInv, StepsOfThreads
  <2>7. \A u \in States : pc'[u] = "register" => next'[u] \in {"chunk", "call"}
    BY <1>1, <1>3, <1>5, Names DEF IndInv, StepsOfThreads
  <2>8. pc'[Engine] \in {"load", "register", "script", "loading"} => loaded' < Len(PluginStates)
    BY <1>1, <1>2, <1>3, Names DEF IndInv, StepsOfThreads
  <2>9. QED
    BY <2>1, <2>2, <2>3, <2>4, <2>5, <2>6, <2>7, <2>8 DEF StepsOfThreads
<1>9. MutexHolders'
  BY <1>1, <1>2, <1>3, Names DEF IndInv, MutexHolders
<1>10. StatesCreated'
  BY <1>1, <1>2, <1>3, Names DEF IndInv, StatesCreated, WantedState
<1>11. ConsoleCreates'
  BY <1>1, <1>2, <1>3, Names DEF IndInv, ConsoleCreates
<1>12. HandlersHaveStates'
  <2>1. \A u \in Threads : todo'[u] \subseteq todo[u] \/ todo'[u] \subseteq mLuaEvents[e]
    <3>1. CASE step = "calls"
      <4>1. PICK calls \in SUBSET mLuaEvents[e] : calls = mLuaEvents[e] \ ignored
        OBVIOUS
      <4>2. todo' = [todo EXCEPT ![t] = calls]
        BY <1>1, <3>1, <4>1
      <4>3. QED
        BY <4>2, <1>0 DEF TypeOK
    <3>2. CASE step = return
      BY <3>2, <1>1
    <3>3. QED
      BY <3>1, <3>2, <1>3
  <2>2. QED
    BY <2>1, <1>2 DEF IndInv, HandlersHaveStates
<1>13. AwaitedCallsExist'
  BY <1>2 DEF IndInv, AwaitedCallsExist, AtState
<1>14. QED
  BY <1>4, <1>8, <1>9, <1>10, <1>11, <1>12, <1>13 DEF IndInv

-----------------------------------------------------------------------------
(* The theorems.                                                           *)

\* At the start there are no states, no handlers and no calls.
LEMMA InitHolds == Init => IndInv
<1> SUFFICES ASSUME Init PROVE IndInv
  OBVIOUS
<1> USE DEF Init
<1>1. TypeOK
  <2>1. /\ mStateExecuteQueue \in [States -> Seq({Engine, Console})]
        /\ mStateFunctionQueue \in [States -> Seq(CallIds)]
    OBVIOUS
  <2>2. Len(PluginStates) \in Nat
    BY ConstantsAssumption
  <2>3. pc \in [Threads -> Steps]
    BY DEF Steps, EngineSteps, LuaSteps, ConsoleSteps
  <2>4. QED
    BY <2>1, <2>2, <2>3 DEF TypeOK
<1>2. StepsOfThreads
  <2>1. Len(PluginStates) \in Nat /\ 0 < Len(PluginStates)
    BY ConstantsAssumption
  <2>2. QED
    BY <2>1, Names DEF StepsOfThreads, EngineSteps, ConsoleSteps, CallerSteps, LuaSteps
<1>3. MutexHolders
  BY Names DEF MutexHolders
<1>4. StatesCreated /\ ConsoleCreates
  BY Names DEF StatesCreated, ConsoleCreates
<1>5. HandlersHaveStates /\ AwaitedCallsExist
  BY DEF HandlersHaveStates, AwaitedCallsExist
<1>6. QED
  BY <1>1, <1>2, <1>3, <1>4, <1>5 DEF IndInv

\* Without a step nothing changes.
LEMMA StutteringKeeps == IndInv /\ UNCHANGED vars => IndInv'
BY DEF vars, IndInv, TypeOK, StepsOfThreads, MutexHolders, StatesCreated, ConsoleCreates, WantedState,
       HandlersHaveStates, AwaitedCallsExist, AtState

\* Every action keeps the invariant.
LEMMA NextKeeps == IndInv /\ Next => IndInv'
<1> SUFFICES ASSUME IndInv, Next PROVE IndInv'
  OBVIOUS
<1>1. CASE OnInitReturned \/ LoadPlugin \/ PluginLoaded
  BY <1>1, OnInitReturnedKeeps, LoadPluginKeeps, PluginLoadedKeeps
<1>2. CASE EngineTriggers
  BY <1>2, TriggerEventKeeps, Names DEF EngineTriggers, Steps, EngineSteps
<1>3. ASSUME NEW t \in {Engine, Console}, EnsureStateExists(t) \/ RegisterOnInit(t) \/ TimedWaitEnds(t)
      PROVE  IndInv'
  BY <1>3, EnsureStateExistsKeeps, RegisterOnInitKeeps, TimedWaitEndsKeeps
<1>4. ASSUME NEW e \in Events, ConsoleTriggers(e)
      PROVE  IndInv'
  BY <1>4, TriggerEventKeeps, Names DEF ConsoleTriggers, Steps, ConsoleSteps
<1>5. ASSUME NEW t \in Callers, NEW e \in Events, ClientTriggers(t, e)
      PROVE  IndInv'
  <2>1. PICK return \in {"waiting", "idle"} : TriggerEvent(t, e, {}, return) /\ pc[t] = "idle"
    BY <1>5 DEF ClientTriggers
  <2>2. return \in Steps /\ t \in Threads
    BY Names DEF Steps, CallerSteps
  <2>3. QED
    BY <2>1, <2>2, TriggerEventKeeps
<1>6. ASSUME NEW t \in Callers \cup {Console}, Ready(t)
      PROVE  IndInv'
  BY <1>6, ReadyKeeps
<1>7. ASSUME NEW t \in Threads, NEW s \in States, EnqueueFunctionCall(t, s)
      PROVE  IndInv'
  BY <1>7, EnqueueFunctionCallKeeps
<1>8. ASSUME NEW s \in States, RunLine(s) \/ RunChunk(s) \/ FunctionFound(s) \/ FunctionNotFound(s) \/ NoCall(s)
      PROVE  IndInv'
  BY <1>8, RunLineKeeps, RunChunkKeeps, FunctionFoundKeeps, FunctionNotFoundKeeps, NoCallKeeps
<1>9. ASSUME NEW s \in States, LuaReturns(s) \/ LuaRegisters(s) \/ OwnHandlers(s)
      PROVE  IndInv'
  BY <1>9, LuaReturnsKeeps, LuaRegistersKeeps, OwnHandlersKeeps
<1>10. ASSUME NEW s \in States, NEW e \in Events, RegisterEvent(s, e)
       PROVE  IndInv'
  BY <1>10, RegisterEventKeeps
<1>11. ASSUME NEW s \in States, NEW e \in Events, LuaTriggers(s, e)
       PROVE  IndInv'
  BY <1>11, TriggerEventKeeps, Names DEF LuaTriggers, Steps, LuaSteps
<1>12. QED
  BY <1>1, <1>2, <1>3, <1>4, <1>5, <1>6, <1>7, <1>8, <1>9, <1>10, <1>11 DEF Next

\* IndInv holds always; TypeOK is a part of it.
THEOREM Invariance == Spec => []IndInv
<1>1. IndInv /\ [Next]_vars => IndInv'
  BY NextKeeps, StutteringKeeps
<1>2. QED
  BY InitHolds, <1>1, PTL DEF Spec

\* The engine's types, for any number of plugins, states, clients and triggers.
THEOREM TypeCorrect == Spec => []TypeOK
<1>1. IndInv => TypeOK
  BY DEF IndInv
<1>2. QED
  BY <1>1, Invariance, PTL

\* The only circle of waiting threads is the one of a state's creation and a
\* trigger, each with the mutex that the other wants: whatever handlers,
\* plugins and clients do, nothing else in the engine deadlocks.
THEOREM OnlyCreationsDeadlock == Spec => []OnlyCreationsEmbrace
BY OnlyEmbrace, Invariance, PTL

\* TriggerEvent never calls a handler of a state that the engine does not
\* know, so mLuaStates.at never throws in EnqueueFunctionCall.
THEOREM HandlersFindStates == Spec => []HandlersHaveStates
<1>1. IndInv => HandlersHaveStates
  BY DEF IndInv
<1>2. QED
  BY <1>1, Invariance, PTL

\* A result that somebody waits for belongs to a chunk or a call that its
\* state has queued or is running: no answer is dropped.
THEOREM NoResultForgotten == Spec => []AwaitedCallsExist
<1>1. IndInv => AwaitedCallsExist
  BY DEF IndInv
<1>2. QED
  BY <1>1, Invariance, PTL
-----------------------------------------------------------------------------
(* What the queues hold.                                                   *)

\* A step that leaves the queues alone, and the console at its creation of a
\* state if it is at one.
LEMMA CallsStay ==
    ASSUME CallsQueued, UNCHANGED <<mStateFunctionQueue, mLuaStates>>,
           pc'[Console] = "register" => pc[Console] = "register",
           pc[Console] = "onInit" => /\ pc'[Console] = "onInit"
                                     /\ <<Console, ConsoleState>> \in pending[Console] =>
                                            <<Console, ConsoleState>> \in pending'[Console]
    PROVE  CallsQueued'
BY DEF CallsQueued

\* A state's queue without its head, by a step that changes no other queue.
LEMMA CallsTaken ==
    ASSUME IndInv, CallsQueued, NEW s \in States, TakeCall(s),
           UNCHANGED mLuaStates, pc'[Console] = pc[Console],
           <<Console, ConsoleState>> \in pending[Console] /\ s # ConsoleState =>
                <<Console, ConsoleState>> \in pending'[Console]
    PROVE  CallsQueued'
<1>1. /\ mStateFunctionQueue[s] # << >>
      /\ mStateFunctionQueue'[s] = Tail(mStateFunctionQueue[s])
      /\ \A u \in States \ {s} : mStateFunctionQueue'[u] = mStateFunctionQueue[u]
  BY DEF TakeCall, IndInv, TypeOK
<1>2. Tail(mStateFunctionQueue[s]) \in Seq(Nat)
  <2>1. CASE mStateFunctionQueue[s] \in Seq(Nat)
    BY <1>1, <2>1
  <2>2. CASE mStateFunctionQueue[s] = <<Console>>
    <3>1. Tail(<<Console>>) = << >>
      OBVIOUS
    <3>2. QED
      BY <2>2, <3>1
  <2>3. QED
    BY <2>1, <2>2 DEF CallsQueued
<1>3. s \in mLuaStates /\ (pc[Console] = "register" => s # ConsoleState)
  BY <1>1 DEF CallsQueued
<1>4. ASSUME NEW u \in States, u # s
      PROVE  mStateFunctionQueue'[u] \in Seq(Nat) \/ (/\ u = ConsoleState
                                                       /\ mStateFunctionQueue'[u] = <<Console>>
                                                       /\ pc'[Console] = "onInit"
                                                       /\ <<Console, ConsoleState>> \in pending'[Console])
  BY <1>1, <1>4 DEF CallsQueued
<1>5. \A u \in States \ mLuaStates' : mStateFunctionQueue'[u] = << >>
  BY <1>1, <1>3 DEF CallsQueued
<1>6. pc'[Console] = "register" => mStateFunctionQueue'[ConsoleState] = << >>
  BY <1>1, <1>3, Names DEF CallsQueued
<1>7. QED
  BY <1>1, <1>2, <1>4, <1>5, <1>6 DEF CallsQueued

\* Nobody is at the creation of a state when the mutex is free or the
\* engine's, and the console is at nothing else meanwhile.
LEMMA ConsoleElsewhere ==
    ASSUME IndInv, statesMutex # Console
    PROVE  pc[Console] \notin {"register", "onInit"}
BY Names DEF IndInv, MutexHolders

\* A creation, and the call of onInit.
LEMMA CreationQueues ==
    ASSUME IndInv, CallsQueued, NEW t \in {Engine, Console}, EnsureStateExists(t) \/ RegisterOnInit(t)
    PROVE  CallsQueued'
<1> USE DEF registry, mutexes, queues, trigger, Goto
<1>0. TypeOK
  BY DEF IndInv
<1>1. CASE EnsureStateExists(t)
  <2>1. UNCHANGED <<mStateFunctionQueue, pending>> /\ mLuaStates \subseteq mLuaStates'
    BY <1>1 DEF EnsureStateExists
  <2>2. pc[Console] \notin {"register", "onInit"}
    BY <1>1, ConsoleElsewhere, Names DEF EnsureStateExists
  <2>3. pc'[Console] = "register" => ConsoleState \notin mLuaStates
    <3>1. CASE t = Console
      BY <1>1, <3>1, Names DEF EnsureStateExists, WantedState
    <3>2. CASE t = Engine
      <4>1. PICK w \in States : w = WantedState(t)
        BY <1>1, WantedIsState, Names DEF EnsureStateExists
      <4>2. pc' = [pc EXCEPT ![Engine] = "script"] \/ pc' = [pc EXCEPT ![Engine] = "register", ![w] = "scripts"]
        BY <1>1, <3>2, <4>1 DEF EnsureStateExists
      <4>3. pc'[Console] = pc[Console]
        BY <4>2, <1>0, Names DEF TypeOK
      <4>4. QED
        BY <2>2, <4>3
    <3>3. QED
      BY <3>1, <3>2
  <2>4. QED
    BY <2>1, <2>2, <2>3, Names DEF CallsQueued
<1>2. CASE RegisterOnInit(t) /\ t = Engine
  <2>1. UNCHANGED <<mStateFunctionQueue, mLuaStates, pending>> /\ pc' = [pc EXCEPT ![Engine] = "script"]
    BY <1>2, Names DEF RegisterOnInit
  <2>2. pc'[Console] = pc[Console]
    BY <2>1, <1>0, Names DEF TypeOK
  <2>3. QED
    BY <2>1, <2>2, CallsStay
<1>3. CASE RegisterOnInit(t) /\ t = Console
  <2>1. /\ pc[Console] = "register" /\ pc' = [pc EXCEPT ![Console] = "onInit"]
        /\ mStateFunctionQueue' = [mStateFunctionQueue EXCEPT ![ConsoleState] = Append(@, Console)]
        /\ pending' = [pending EXCEPT ![Console] = {<<Console, ConsoleState>>}]
        /\ UNCHANGED mLuaStates
    BY <1>3, Names DEF RegisterOnInit, EnqueueCall
  <2>2. pc'[Console] = "onInit" /\ <<Console, ConsoleState>> \in pending'[Console]
    BY <2>1, <1>0, Names DEF TypeOK
  <2>3. mStateFunctionQueue'[ConsoleState] = <<Console>>
    <3>1. mStateFunctionQueue[ConsoleState] = << >>
      BY <2>1 DEF CallsQueued
    <3>2. Append(<< >>, Console) = <<Console>>
      OBVIOUS
    <3>3. QED
      BY <2>1, <3>1, <3>2, <1>0, Names DEF TypeOK
  <2>4. \A u \in States \ {ConsoleState} : mStateFunctionQueue'[u] = mStateFunctionQueue[u]
    BY <2>1, <1>0 DEF TypeOK
  <2>5. ConsoleState \in mLuaStates
    BY <2>1, Names DEF IndInv, StatesCreated, WantedState
  <2>6. QED
    BY <2>1, <2>2, <2>3, <2>4, <2>5 DEF CallsQueued
<1>4. QED
  BY <1>1, <1>2, <1>3, Names

\* A trigger's call.
LEMMA TriggerQueues ==
    ASSUME IndInv, CallsQueued, NEW t \in Threads, NEW s \in States, EnqueueFunctionCall(t, s)
    PROVE  CallsQueued'
<1> USE DEF registry, mutexes, queues, trigger, Goto
<1>0. TypeOK
  BY DEF IndInv
<1>1. pc[Console] \notin {"register", "onInit"}
  BY ConsoleElsewhere, Names DEF EnqueueFunctionCall
<1>2. pc'[Console] \notin {"register", "onInit"}
  <2>1. next[Console] \notin {"register", "onInit"}
    <3>1. None # "register" /\ None # "onInit"
      BY ConstantsAssumption DEF Steps, ConsoleSteps
    <3>2. QED
      BY <3>1 DEF IndInv, StepsOfThreads
  <2>2. pc' = [pc EXCEPT ![t] = next[t]] \/ pc' = pc
    BY DEF EnqueueFunctionCall
  <2>3. QED
    BY <2>1, <2>2, <1>0, <1>1, Names DEF TypeOK
<1>3. number[t] \in Nat /\ \A u \in States : mStateFunctionQueue[u] \in Seq(Nat)
  BY <1>0, <1>1 DEF TypeOK, CallsQueued
<1>4. /\ mStateFunctionQueue'[s] = Append(mStateFunctionQueue[s], number[t])
      /\ \A u \in States \ {s} : mStateFunctionQueue'[u] = mStateFunctionQueue[u]
  BY <1>0 DEF EnqueueFunctionCall, EnqueueCall, TypeOK
<1>5. Append(mStateFunctionQueue[s], number[t]) \in Seq(Nat)
  BY <1>3
<1>6. s \in mLuaStates /\ mLuaStates' = mLuaStates
  BY DEF EnqueueFunctionCall, IndInv, HandlersHaveStates
<1>7. QED
  BY <1>2, <1>3, <1>4, <1>5, <1>6 DEF CallsQueued

\* A trigger's first step changes no queue, nor the console at a creation.
LEMMA TriggerKeepsQueues ==
    ASSUME IndInv, CallsQueued, NEW t \in Threads, NEW e \in Events, NEW ignored, NEW return \in Steps,
           TriggerEvent(t, e, ignored, return),
           return # "register", t = Console => pc[Console] = "idle"
    PROVE  CallsQueued'
<1>1. /\ UNCHANGED <<mStateFunctionQueue, mLuaStates, pending>>
      /\ pc' = [pc EXCEPT ![t] = return] \/ pc' = [pc EXCEPT ![t] = "calls"]
  BY DEF TriggerEvent, Goto, registry, queues
<1>2. t # Console => pc'[Console] = pc[Console]
  BY <1>1, Names DEF IndInv, TypeOK
<1>3. t = Console => pc'[Console] # "register"
  BY <1>1, Names DEF IndInv, TypeOK
<1>4. QED
  BY <1>1, <1>2, <1>3, CallsStay

\* A state's thread takes a call.
LEMMA TakingKeepsQueues ==
    ASSUME IndInv, CallsQueued, NEW s \in States, FunctionFound(s) \/ FunctionNotFound(s)
    PROVE  CallsQueued'
<1> USE DEF registry, mutexes, queues, trigger, Goto
<1>1. pc'[Console] = pc[Console]
  BY Names DEF FunctionFound, FunctionNotFound, IndInv, TypeOK
<1>2. TakeCall(s) /\ UNCHANGED mLuaStates
  BY DEF FunctionFound, FunctionNotFound
<1>3. CASE FunctionFound(s)
  BY <1>1, <1>2, <1>3, CallsTaken DEF FunctionFound
<1>4. CASE FunctionNotFound(s)
  <2>1. pending'[Console] = pending[Console] \ {<<Head(mStateFunctionQueue[s]), s>>}
    BY <1>4, Names DEF FunctionNotFound, MarkReady
  <2>2. s # ConsoleState => <<Console, ConsoleState>> # <<Head(mStateFunctionQueue[s]), s>>
    OBVIOUS
  <2>3. QED
    BY <1>1, <1>2, <2>1, <2>2, CallsTaken
<1>5. QED
  BY <1>3, <1>4

\* A chunk or call that returns is not the console's call of onInit.
LEMMA ReturnKeepsQueues ==
    ASSUME IndInv, CallsQueued, NEW s \in States, LuaReturns(s)
    PROVE  CallsQueued'
<1> USE DEF registry, mutexes, queues, trigger, Goto
<1>1. UNCHANGED <<mStateFunctionQueue, mLuaStates>> /\ pc'[Console] = pc[Console]
  BY Names DEF LuaReturns, IndInv, TypeOK
<1>2. pending'[Console] = pending[Console] \ {<<running[s], s>>}
  BY Names DEF LuaReturns, MarkReady
<1>3. pc[Console] = "onInit" => s # ConsoleState
  BY DEF LuaReturns, IndInv, ConsoleCreates
<1>4. s # ConsoleState => <<Console, ConsoleState>> # <<running[s], s>>
  OBVIOUS
<1>5. QED
  BY <1>1, <1>2, <1>3, <1>4, CallsStay

\* Every step keeps what the queues hold.
LEMMA NextKeepsQueues == IndInv /\ CallsQueued /\ Next => CallsQueued'
<1> SUFFICES ASSUME IndInv, CallsQueued, Next PROVE CallsQueued'
  OBVIOUS
<1> USE DEF registry, mutexes, queues, trigger, Goto
<1>0. TypeOK
  BY DEF IndInv
<1>1. CASE OnInitReturned
  <2>1. /\ pc[Console] = "onInit" /\ pending[Console] = {} /\ UNCHANGED <<mStateFunctionQueue, mLuaStates>>
        /\ pc' = [pc EXCEPT ![Console] = "idle"]
    BY <1>1 DEF OnInitReturned
  <2>2. \A s \in States : mStateFunctionQueue[s] \in Seq(Nat)
    BY <2>1 DEF CallsQueued
  <2>3. pc'[Console] = "idle"
    BY <2>1, <1>0, Names DEF TypeOK
  <2>4. QED
    BY <2>1, <2>2, <2>3 DEF CallsQueued
<1>2. CASE LoadPlugin \/ PluginLoaded
  <2>1. UNCHANGED <<mStateFunctionQueue, mLuaStates>>
    BY <1>2 DEF LoadPlugin, EnqueueScript, PluginLoaded
  <2>2. pc'[Console] = pc[Console] /\ pending'[Console] = pending[Console]
    BY <1>2, <1>0, Names DEF LoadPlugin, EnqueueScript, PluginLoaded, TypeOK
  <2>3. QED
    BY <2>1, <2>2, CallsStay
<1>3. CASE EngineTriggers
  BY <1>3, TriggerKeepsQueues, Names DEF EngineTriggers, Steps, EngineSteps
<1>4. ASSUME NEW t \in {Engine, Console}, EnsureStateExists(t) \/ RegisterOnInit(t)
      PROVE  CallsQueued'
  BY <1>4, CreationQueues
<1>5. ASSUME NEW t \in {Engine, Console}, TimedWaitEnds(t)
      PROVE  CallsQueued'
  <2>1. /\ pc[t] = "timed" /\ UNCHANGED <<mStateFunctionQueue, mLuaStates>>
        /\ pending' = [pending EXCEPT ![t] = {}]
        /\ pc' = [pc EXCEPT ![t] = IF t = Engine THEN "loop" ELSE "idle"]
    BY <1>5 DEF TimedWaitEnds
  <2>2. t # Console => pc'[Console] = pc[Console] /\ pending'[Console] = pending[Console]
    BY <2>1, <1>0, Names DEF TypeOK
  <2>3. t = Console => pc'[Console] = "idle"
    BY <2>1, <1>0, Names DEF TypeOK
  <2>4. QED
    BY <2>1, <2>2, <2>3, CallsStay
<1>6. ASSUME NEW e \in Events, ConsoleTriggers(e)
      PROVE  CallsQueued'
  BY <1>6, TriggerKeepsQueues, Names DEF ConsoleTriggers, Steps, ConsoleSteps
<1>7. ASSUME NEW t \in Callers, NEW e \in Events, ClientTriggers(t, e)
      PROVE  CallsQueued'
  <2>1. PICK return \in {"waiting", "idle"} : TriggerEvent(t, e, {}, return)
    BY <1>7 DEF ClientTriggers
  <2>2. return \in Steps /\ return # "register" /\ t \in Threads /\ t # Console
    BY Names DEF Steps, CallerSteps
  <2>3. QED
    BY <2>1, <2>2, TriggerKeepsQueues
<1>8. ASSUME NEW t \in Callers \cup {Console}, Ready(t)
      PROVE  CallsQueued'
  <2>1. pc[t] = "waiting" /\ pc' = [pc EXCEPT ![t] = "idle"] /\ UNCHANGED <<mStateFunctionQueue, mLuaStates, pending>>
    BY <1>8 DEF Ready
  <2>2. (t # Console => pc'[Console] = pc[Console]) /\ (t = Console => pc'[Console] = "idle")
    BY <2>1, <1>0, Names DEF TypeOK
  <2>3. QED
    BY <2>1, <2>2, CallsStay
<1>9. ASSUME NEW t \in Threads, NEW s \in States, EnqueueFunctionCall(t, s)
      PROVE  CallsQueued'
  BY <1>9, TriggerQueues
<1>10. ASSUME NEW s \in States, RunLine(s)
       PROVE  CallsQueued'
  <2>1. pc[Console] = "idle" /\ pc' = [pc EXCEPT ![Console] = "waiting"] /\ UNCHANGED <<mStateFunctionQueue, mLuaStates>>
    BY <1>10 DEF RunLine, EnqueueScript
  <2>2. pc'[Console] = "waiting"
    BY <2>1, <1>0, Names DEF TypeOK
  <2>3. QED
    BY <2>1, <2>2, CallsStay
<1>11. ASSUME NEW s \in States, FunctionFound(s) \/ FunctionNotFound(s)
       PROVE  CallsQueued'
  BY <1>11, TakingKeepsQueues
<1>12. ASSUME NEW s \in States, LuaReturns(s)
       PROVE  CallsQueued'
  BY <1>12, ReturnKeepsQueues
<1>13. ASSUME NEW s \in States, RunChunk(s) \/ NoCall(s) \/ LuaRegisters(s) \/ OwnHandlers(s)
                                \/ \E e \in Events : RegisterEvent(s, e)
       PROVE  CallsQueued'
  <2>1. UNCHANGED <<mStateFunctionQueue, mLuaStates, pending>>
    BY <1>13 DEF RunChunk, NoCall, LuaRegisters, OwnHandlers, RegisterEvent
  <2>2. PICK step : pc' = [pc EXCEPT ![s] = step]
    BY <1>13 DEF RunChunk, NoCall, LuaRegisters, OwnHandlers, RegisterEvent
  <2>3. pc'[Console] = pc[Console]
    BY <2>2, <1>0, Names DEF TypeOK
  <2>4. QED
    BY <2>1, <2>3, CallsStay
<1>14. ASSUME NEW s \in States, NEW e \in Events, LuaTriggers(s, e)
       PROVE  CallsQueued'
  BY <1>14, TriggerKeepsQueues, Names DEF LuaTriggers, Steps, LuaSteps
<1>15. QED
  BY <1>1, <1>2, <1>3, <1>4, <1>5, <1>6, <1>7, <1>8, <1>9, <1>10, <1>11, <1>12, <1>13, <1>14 DEF Next

\* Calls in a queue are triggers' calls throughout, but for the console's.
LEMMA QueuesHold == Spec => []CallsQueued
<1>1. Init => CallsQueued
  BY Names DEF Init, CallsQueued
<1>2. CallsQueued /\ UNCHANGED vars => CallsQueued'
  BY DEF vars, CallsQueued
<1>3. IndInv /\ CallsQueued /\ [Next]_vars => CallsQueued'
  BY <1>2, NextKeepsQueues
<1>4. QED
  BY <1>1, <1>3, Invariance, PTL DEF Spec

-----------------------------------------------------------------------------
(* The engine implements the bus.                                          *)

\* Three sequences in a row, whose first or second one loses its head or gets
\* another element at its end.
LEMMA Rows ==
    ASSUME NEW q \in Seq(Nat), NEW r \in Seq(Nat), NEW n \in Nat
    PROVE  /\ << >> \o q \o r \in Seq(Nat)
           /\ <<n>> \o q \o r # << >>
           /\ Tail(<<n>> \o q \o r) = << >> \o q \o r
           /\ q # << >> => /\ <<Head(q)>> \o Tail(q) \o r = << >> \o q \o r
                           /\ << >> \o q \o r # << >>
                           /\ Tail(<< >> \o q \o r) = << >> \o Tail(q) \o r
<1>1. << >> \in Seq(Nat) /\ <<n>> \in Seq(Nat) /\ <<n>> # << >> /\ Len(<<n>>) = 1
  OBVIOUS
<1>2. << >> \o q = q
  BY ConcatEmptySeq
<1>3. q \o r \in Seq(Nat) /\ Len(q \o r) = Len(q) + Len(r) /\ Len(q) \in Nat /\ Len(r) \in Nat
  BY ConcatProperties, LenProperties
<1>4. (<<n>> \o q) \o r = <<n>> \o (q \o r)
  BY <1>1, ConcatAssociative
<1>5. ASSUME NEW t \in Seq(Nat), NEW m \in Nat
      PROVE  <<m>> \o t # << >> /\ Tail(<<m>> \o t) = t
  <2>1. <<m>> \in Seq(Nat) /\ Len(<<m>>) = 1
    OBVIOUS
  <2>2. /\ <<m>> \o t \in Seq(Nat) /\ Len(<<m>> \o t) = 1 + Len(t) /\ Len(t) \in Nat
        /\ \A i \in 1..1 + Len(t) : (<<m>> \o t)[i] = IF i <= 1 THEN <<m>>[i] ELSE t[i - 1]
    BY <2>1, ConcatProperties, LenProperties
  <2>3. <<m>> \o t # << >>
    BY <2>2
  <2>4. /\ Tail(<<m>> \o t) \in Seq(Nat) /\ Len(Tail(<<m>> \o t)) = Len(t)
        /\ \A i \in 1..Len(t) : Tail(<<m>> \o t)[i] = (<<m>> \o t)[i + 1]
    BY <2>2, <2>3, HeadTailProperties
  <2>5. \A i \in 1..Len(t) : Tail(<<m>> \o t)[i] = t[i]
    <3>1. \A i \in 1..Len(t) : i + 1 \in 1..1 + Len(t) /\ ~(i + 1 <= 1) /\ (i + 1) - 1 = i
      BY <2>2
    <3>2. QED
      BY <2>2, <2>4, <3>1
  <2>6. QED
    BY <2>3, <2>4, <2>5, SeqEqual
<1>6. ASSUME q # << >>
      PROVE  Head(q) \in Nat /\ Tail(q) \in Seq(Nat) /\ <<Head(q)>> \o Tail(q) = q
  <2>1. Head(q) \in Nat /\ Tail(q) \in Seq(Nat) /\ q = SubSeq(q, 1, Len(q)) /\ Tail(q) = SubSeq(q, 2, Len(q))
    BY <1>6, HeadTailProperties, SubSeqFull, TailIsSubSeq
  <2>2. Head(q) = q[1] /\ 1 \in 1..Len(q) /\ Len(q) \in 1..Len(q)
    BY <1>3, <1>6, EmptySeq
  <2>3. SubSeq(q, 1, Len(q)) = <<q[1]>> \o SubSeq(q, 1 + 1, Len(q))
    BY <2>2, SubSeqRecursiveFirst
  <2>4. QED
    BY <2>1, <2>2, <2>3
<1>7. ASSUME q # << >>
      PROVE  /\ <<Head(q)>> \o Tail(q) \o r = << >> \o q \o r
             /\ << >> \o q \o r # << >>
             /\ Tail(<< >> \o q \o r) = << >> \o Tail(q) \o r
  <2>1. Head(q) \in Nat /\ Tail(q) \in Seq(Nat) /\ <<Head(q)>> \o Tail(q) = q
    BY <1>6, <1>7
  <2>2. Tail(q) \o r \in Seq(Nat) /\ << >> \o Tail(q) = Tail(q) /\ <<Head(q)>> \in Seq(Nat)
    BY <2>1, ConcatProperties, ConcatEmptySeq
  <2>3. q \o r = <<Head(q)>> \o (Tail(q) \o r)
    BY <2>1, <2>2, ConcatAssociative
  <2>4. q \o r # << >> /\ Tail(q \o r) = Tail(q) \o r
    BY <2>1, <2>2, <2>3, <1>5
  <2>5. QED
    BY <2>1, <2>2, <2>4, <1>2
<1>8. QED
  BY <1>2, <1>3, <1>4, <1>5, <1>7

\* The last of three sequences in a row is empty and gets an element, or moves
\* to the end of the second.
LEMMA RowEnds ==
    ASSUME NEW p \in Seq(Nat), NEW q \in Seq(Nat), NEW n \in Nat
    PROVE  /\ p \o q \o <<n>> = Append(p \o q \o << >>, n)
           /\ p \o Append(q, n) \o << >> = p \o q \o <<n>>
<1>1. p \o q \in Seq(Nat) /\ Append(q, n) \in Seq(Nat) /\ <<n>> \in Seq(Nat)
  BY ConcatProperties
<1>2. p \o Append(q, n) \in Seq(Nat)
  BY <1>1, ConcatProperties
<1>3. p \o q \o << >> = p \o q /\ p \o Append(q, n) \o << >> = p \o Append(q, n)
  BY <1>1, <1>2, ConcatEmptySeq
<1>4. Append(p \o q, n) = p \o q \o <<n>> /\ Append(q, n) = q \o <<n>>
  BY <1>1, AppendIsConcat
<1>5. p \o q \o <<n>> = p \o (q \o <<n>>)
  BY <1>1, ConcatAssociative
<1>6. QED
  BY <1>3, <1>4, <1>5

\* The console is not a number, so its call alone is no queue of triggers.
LEMMA NotConsoles == <<Console>> \notin Seq(Nat)
<1>1. <<Console>>[1] = Console /\ Len(<<Console>>) = 1
  OBVIOUS
<1>2. SUFFICES ASSUME <<Console>> \in Seq(Nat) PROVE FALSE
  OBVIOUS
<1>3. <<Console>>[1] \in Nat
  BY <1>1, <1>2, ElementOfSeq
<1>4. QED
  BY <1>1, <1>3, Names

\* The parts of a state's inbox are numbers of triggers; the console's call of
\* onInit, if it is queued, is not among them.
LEMMA InboxParts ==
    ASSUME IndInv, CallsQueued, NEW s \in States
    PROVE  /\ BeingRun(s) \in Seq(Nat)
           /\ Triggers(mStateFunctionQueue[s]) \in Seq(Nat)
           /\ Coming(s) \in Seq(Nat)
           /\ mStateFunctionQueue[s] \in Seq(Nat) => Triggers(mStateFunctionQueue[s]) = mStateFunctionQueue[s]
<1>1. \A n \in Nat : <<n>> \in Seq(Nat)
  OBVIOUS
<1>2. << >> \in Seq(Nat)
  OBVIOUS
<1>3. BeingRun(s) \in Seq(Nat)
  BY <1>1, <1>2 DEF BeingRun
<1>4. Coming(s) \in Seq(Nat)
  <2>1. eventsMutex # None => number[eventsMutex] \in Nat
    BY DEF IndInv, TypeOK
  <2>2. QED
    BY <1>1, <1>2, <2>1 DEF Coming
<1>5. QED
  BY <1>2, <1>3, <1>4, NotConsoles DEF CallsQueued, Triggers

BusVars == <<mLuaEvents, [s \in States |-> InboxOf(s)], triggered>>

\* What the bus sees of a step that it takes no part in, and of a call that is
\* over.
LEMMA BusStutters ==
    ASSUME \A s \in States : InboxOf(s)' = InboxOf(s), UNCHANGED <<mLuaEvents, triggered>>
    PROVE  UNCHANGED BusVars
BY DEF BusVars

\* A state that takes the first call of its queue handles an event of the bus.
LEMMA BusHandles ==
    ASSUME NEW s \in States, InboxOf(s) # << >>, InboxOf(s)' = Tail(InboxOf(s)),
           \A u \in States \ {s} : InboxOf(u)' = InboxOf(u), UNCHANGED <<mLuaEvents, triggered>>
    PROVE  Bus!Next
<1>1. [u \in States |-> InboxOf(u)]' = [[u \in States |-> InboxOf(u)] EXCEPT ![s] = Tail(@)]
  OBVIOUS
<1>2. [u \in States |-> InboxOf(u)][s] # << >>
  OBVIOUS
<1>3. Bus!Handle(s)
  BY <1>1, <1>2 DEF Bus!Handle
<1>4. QED
  BY <1>3 DEF Bus!Next

\* A registration in the engine is one at the bus.
LEMMA BusRegisters ==
    ASSUME NEW s \in States, NEW e \in Events, mLuaEvents' = [mLuaEvents EXCEPT ![e] = @ \cup {s}],
           \A u \in States : InboxOf(u)' = InboxOf(u), UNCHANGED triggered
    PROVE  Bus!Next
<1>1. [u \in States |-> InboxOf(u)]' = [u \in States |-> InboxOf(u)]
  OBVIOUS
<1>2. Bus!Register(e, s)
  BY <1>1 DEF Bus!Register
<1>3. QED
  BY <1>2 DEF Bus!Next

\* A state whose thread, queue and share of the trigger in progress are as
\* they were.
LEMMA InboxStays ==
    ASSUME NEW s \in States, UNCHANGED <<eventsMutex, todo, number>>,
           mStateFunctionQueue'[s] = mStateFunctionQueue[s],
           running'[s] = running[s] \/ (running[s] \notin Nat /\ running'[s] \notin Nat)
    PROVE  InboxOf(s)' = InboxOf(s)
<1>1. BeingRun(s)' = BeingRun(s)
  BY DEF BeingRun
<1>2. Coming(s)' = Coming(s)
  BY DEF Coming
<1>3. Triggers(mStateFunctionQueue[s])' = Triggers(mStateFunctionQueue[s])
  BY DEF Triggers
<1>4. QED
  BY <1>1, <1>2, <1>3 DEF InboxOf

\* Creations register onInit; the console's own call of it is no trigger's.
LEMMA CreationRegisters ==
    ASSUME IndInv, CallsQueued, NEW t \in {Engine, Console}, RegisterOnInit(t)
    PROVE  Bus!Next
<1> USE DEF registry, mutexes, queues, trigger, Goto
<1>1. PICK w \in States : w = WantedState(t)
  BY WantedIsState, Names DEF RegisterOnInit
<1>2. /\ mLuaEvents' = [mLuaEvents EXCEPT ![onInit] = @ \cup {w}]
      /\ UNCHANGED <<eventsMutex, todo, number, running, triggered>>
  BY <1>1 DEF RegisterOnInit
<1>3. ASSUME NEW s \in States PROVE InboxOf(s)' = InboxOf(s)
  <2>1. CASE mStateFunctionQueue'[s] = mStateFunctionQueue[s]
    <3>1. UNCHANGED <<eventsMutex, todo, number>> /\ running'[s] = running[s]
      BY <1>2
    <3>2. QED
      BY <2>1, <3>1, InboxStays
  <2>2. CASE t = Console /\ s = ConsoleState
    <3>1. /\ pc[Console] = "register"
          /\ mStateFunctionQueue' = [mStateFunctionQueue EXCEPT ![ConsoleState] = Append(@, Console)]
      BY <2>2, Names DEF RegisterOnInit, EnqueueCall
    <3>2. mStateFunctionQueue[s] = << >> /\ mStateFunctionQueue'[s] = Append(<< >>, Console)
      BY <2>2, <3>1 DEF CallsQueued, IndInv, TypeOK
    <3>3. Append(<< >>, Console) = <<Console>>
      OBVIOUS
    <3>4. Triggers(mStateFunctionQueue[s])' = Triggers(mStateFunctionQueue[s])
      BY <3>2, <3>3 DEF Triggers
    <3>5. BeingRun(s)' = BeingRun(s) /\ Coming(s)' = Coming(s)
      BY <1>2 DEF BeingRun, Coming
    <3>6. QED
      BY <3>4, <3>5 DEF InboxOf
  <2>3. t = Engine \/ s # ConsoleState => mStateFunctionQueue'[s] = mStateFunctionQueue[s]
    BY Names DEF RegisterOnInit, EnqueueCall, IndInv, TypeOK
  <2>4. QED
    BY <2>1, <2>2, <2>3
<1>4. QED
  BY <1>1, <1>2, <1>3, BusRegisters, Names

\* A trigger's first step: all handlers are to get it.
LEMMA TriggerTriggers ==
    ASSUME IndInv, CallsQueued, NEW t \in Threads, NEW e \in Events, NEW ignored, NEW return,
           ignored = {} \/ (\E s \in States : ignored = {s}),
           TriggerEvent(t, e, ignored, return)
    PROVE  Bus!Next
<1> USE DEF registry, mutexes, queues, trigger, Goto
<1>1. PICK calls \in SUBSET States : calls = mLuaEvents[e] \ ignored
  BY DEF IndInv, TypeOK
<1>2. /\ eventsMutex = None /\ triggered' = triggered + 1 /\ triggered + 1 \in Nat
      /\ UNCHANGED <<mLuaEvents, running, mStateFunctionQueue>>
  BY DEF TriggerEvent, IndInv, TypeOK
<1>3. ASSUME NEW s \in States
      PROVE  InboxOf(s)' = IF s \in calls THEN Append(InboxOf(s), triggered + 1) ELSE InboxOf(s)
  <2>1. Coming(s) = << >>
    BY <1>2 DEF Coming
  <2>2. Coming(s)' = IF s \in calls THEN <<triggered + 1>> ELSE << >>
    <3>1. CASE calls = {}
      BY <1>1, <1>2, <3>1 DEF TriggerEvent, Coming
    <3>2. CASE calls # {}
      <4>1. eventsMutex' = t /\ number' = [number EXCEPT ![t] = triggered + 1] /\ todo' = [todo EXCEPT ![t] = calls]
        BY <1>1, <3>2 DEF TriggerEvent
      <4>2. t # None /\ number'[t] = triggered + 1 /\ todo'[t] = calls
        BY <4>1, Names DEF IndInv, TypeOK
      <4>3. QED
        BY <4>1, <4>2 DEF Coming
    <3>3. QED
      BY <3>1, <3>2
  <2>3. BeingRun(s)' = BeingRun(s) /\ Triggers(mStateFunctionQueue[s])' = Triggers(mStateFunctionQueue[s])
    BY <1>2 DEF BeingRun, Triggers
  <2>4. PICK p \in Seq(Nat), q \in Seq(Nat) : p = BeingRun(s) /\ q = Triggers(mStateFunctionQueue[s])
    BY InboxParts
  <2>5. InboxOf(s) = p \o q \o << >> /\ InboxOf(s)' = p \o q \o (IF s \in calls THEN <<triggered + 1>> ELSE << >>)
    BY <2>1, <2>2, <2>3, <2>4 DEF InboxOf
  <2>6. QED
    <3>1. p \o q \o <<triggered + 1>> = Append(p \o q \o << >>, triggered + 1)
      BY <1>2, <2>4, RowEnds
    <3>2. CASE s \in calls
      BY <2>5, <3>1, <3>2
    <3>3. CASE s \notin calls
      BY <2>5, <3>3
    <3>4. QED
      BY <3>2, <3>3
<1>4. Bus!Trigger(e, ignored)
  <2>1. [s \in States |-> InboxOf(s)]' =
            [s \in States |-> IF s \in mLuaEvents[e] \ ignored
                              THEN Append([u \in States |-> InboxOf(u)][s], triggered + 1)
                              ELSE [u \in States |-> InboxOf(u)][s]]
    BY <1>1, <1>3
  <2>2. QED
    BY <1>2, <2>1 DEF Bus!Trigger
<1>5. QED
  BY <1>4, Names DEF Bus!Next

\* The last call of a turn, or any, goes from the trigger to the queue.
LEMMA CallMovesOn ==
    ASSUME IndInv, CallsQueued, NEW t \in Threads, NEW s \in States, EnqueueFunctionCall(t, s)
    PROVE  UNCHANGED BusVars
<1> USE DEF registry, mutexes, queues, trigger, Goto
<1>0. TypeOK
  BY DEF IndInv
<1>1. eventsMutex = t /\ t # None /\ s \in todo[t]
  BY Names DEF EnqueueFunctionCall, IndInv, MutexHolders
<1>2. /\ UNCHANGED <<mLuaEvents, running, triggered>>
      /\ todo' = [todo EXCEPT ![t] = @ \ {s}]
      /\ mStateFunctionQueue' = [mStateFunctionQueue EXCEPT ![s] = Append(@, number[t])]
  BY DEF EnqueueFunctionCall, EnqueueCall
<1>3. \/ eventsMutex' = None /\ todo[t] = {s}
      \/ UNCHANGED <<eventsMutex, number>>
  BY DEF EnqueueFunctionCall
<1>4. ASSUME NEW u \in States, u # s PROVE InboxOf(u)' = InboxOf(u)
  <2>1. Coming(u)' = Coming(u)
    <3>1. u \in todo'[t] <=> u \in todo[t]
      BY <1>0, <1>2, <1>4 DEF TypeOK
    <3>2. CASE eventsMutex' = None /\ todo[t] = {s}
      BY <1>1, <1>4, <3>2 DEF Coming
    <3>3. CASE UNCHANGED <<eventsMutex, number>>
      BY <1>1, <3>1, <3>3 DEF Coming
    <3>4. QED
      BY <1>3, <3>2, <3>3
  <2>2. mStateFunctionQueue'[u] = mStateFunctionQueue[u]
    BY <1>0, <1>2, <1>4 DEF TypeOK
  <2>3. BeingRun(u)' = BeingRun(u) /\ Triggers(mStateFunctionQueue[u])' = Triggers(mStateFunctionQueue[u])
    BY <1>2, <2>2 DEF BeingRun, Triggers
  <2>4. QED
    BY <2>1, <2>3 DEF InboxOf
<1>5. InboxOf(s)' = InboxOf(s)
  <2>1. PICK n \in Nat : n = number[t]
    BY <1>0 DEF TypeOK
  <2>2. mStateFunctionQueue[s] \in Seq(Nat)
    BY ConsoleElsewhere, Names DEF EnqueueFunctionCall, CallsQueued
  <2>3. PICK p \in Seq(Nat), q \in Seq(Nat) :
            p = BeingRun(s) /\ q = mStateFunctionQueue[s] /\ q = Triggers(mStateFunctionQueue[s])
    BY <2>2, InboxParts
  <2>4. Coming(s) = <<n>>
    BY <1>1, <2>1 DEF Coming
  <2>5. Coming(s)' = << >>
    <3>1. s \notin todo'[t]
      BY <1>0, <1>2 DEF TypeOK
    <3>2. QED
      BY <1>1, <1>3, <3>1 DEF Coming
  <2>6. BeingRun(s)' = p
    BY <1>2, <2>3 DEF BeingRun
  <2>7. Triggers(mStateFunctionQueue[s])' = Append(q, n)
    <3>1. mStateFunctionQueue'[s] = Append(q, n)
      BY <1>0, <1>2, <2>1, <2>3 DEF TypeOK
    <3>2. Append(q, n) \in Seq(Nat)
      BY AppendProperties
    <3>3. <<Console>> \notin Seq(Nat)
      BY NotConsoles
    <3>4. QED
      BY <3>1, <3>2, <3>3 DEF Triggers
  <2>8. InboxOf(s) = p \o q \o <<n>>
    BY <2>3, <2>4 DEF InboxOf
  <2>9. InboxOf(s)' = p \o Append(q, n) \o << >>
    BY <2>5, <2>6, <2>7 DEF InboxOf
  <2>10. p \o Append(q, n) \o << >> = p \o q \o <<n>>
    BY <2>1, <2>3, RowEnds
  <2>11. QED
    BY <2>8, <2>9, <2>10
<1>6. QED
  BY <1>2, <1>4, <1>5, BusStutters

\* A call that is found goes from the queue to the thread.
LEMMA FoundMovesOn ==
    ASSUME IndInv, CallsQueued, NEW s \in States, FunctionFound(s)
    PROVE  UNCHANGED BusVars
<1> USE DEF registry, mutexes, queues, trigger, Goto
<1>0. TypeOK
  BY DEF IndInv
<1>1. /\ UNCHANGED <<mLuaEvents, eventsMutex, todo, number, triggered>>
      /\ mStateFunctionQueue[s] # << >>
      /\ running'[s] = Head(mStateFunctionQueue[s]) /\ mStateFunctionQueue'[s] = Tail(mStateFunctionQueue[s])
      /\ \A u \in States \ {s} : running'[u] = running[u] /\ mStateFunctionQueue'[u] = mStateFunctionQueue[u]
  BY <1>0 DEF FunctionFound, TakeCall, TypeOK
<1>2. mStateFunctionQueue[s] \in Seq(Nat)
  BY DEF FunctionFound, CallsQueued, IndInv, ConsoleCreates
<1>3. running[s] \notin Nat
  <2>1. running[s] = None
    BY DEF FunctionFound, TakeCall, IndInv, StatesCreated
  <2>2. QED
    BY <2>1, Names DEF CallIds
<1>4. PICK q \in Seq(Nat), r \in Seq(Nat) : q = mStateFunctionQueue[s] /\ q = Triggers(mStateFunctionQueue[s]) /\ r = Coming(s)
  BY <1>2, InboxParts
<1>5. Head(q) \in Nat /\ Tail(q) \in Seq(Nat)
  BY <1>1, <1>4, HeadTailProperties
<1>6. InboxOf(s) = << >> \o q \o r
  BY <1>3, <1>4 DEF InboxOf, BeingRun
<1>7. InboxOf(s)' = <<Head(q)>> \o Tail(q) \o r
  <2>1. BeingRun(s)' = <<Head(q)>>
    BY <1>1, <1>4, <1>5 DEF BeingRun
  <2>2. Triggers(mStateFunctionQueue[s])' = Tail(q)
    BY <1>1, <1>4, <1>5, NotConsoles DEF Triggers
  <2>3. Coming(s)' = r
    BY <1>1, <1>4 DEF Coming
  <2>4. QED
    BY <2>1, <2>2, <2>3 DEF InboxOf
<1>8. InboxOf(s)' = InboxOf(s)
  BY <1>1, <1>4, <1>6, <1>7, Rows
<1>9. \A u \in States \ {s} : InboxOf(u)' = InboxOf(u)
  BY <1>1, InboxStays
<1>10. QED
  BY <1>1, <1>8, <1>9, BusStutters

\* A call without a function is over at once, like the console's own, which
\* the bus never saw.
LEMMA MissingHandled ==
    ASSUME IndInv, CallsQueued, NEW s \in States, FunctionNotFound(s)
    PROVE  Bus!Next \/ UNCHANGED BusVars
<1> USE DEF registry, mutexes, queues, trigger, Goto
<1>0. TypeOK
  BY DEF IndInv
<1>1. /\ UNCHANGED <<mLuaEvents, eventsMutex, todo, number, triggered, running>>
      /\ mStateFunctionQueue[s] # << >> /\ mStateFunctionQueue'[s] = Tail(mStateFunctionQueue[s])
      /\ \A u \in States \ {s} : mStateFunctionQueue'[u] = mStateFunctionQueue[u]
  BY <1>0 DEF FunctionNotFound, TakeCall, TypeOK
<1>2. running[s] \notin Nat
  <2>1. running[s] = None
    BY DEF FunctionNotFound, TakeCall, IndInv, StatesCreated
  <2>2. QED
    BY <2>1, Names DEF CallIds
<1>3. \A u \in States \ {s} : InboxOf(u)' = InboxOf(u)
  BY <1>1, InboxStays
<1>4. BeingRun(s) = << >> /\ BeingRun(s)' = << >> /\ Coming(s)' = Coming(s)
  BY <1>1, <1>2 DEF BeingRun, Coming
<1>5. CASE mStateFunctionQueue[s] = <<Console>>
  <2>1. Tail(<<Console>>) = << >> /\ << >> # <<Console>>
    OBVIOUS
  <2>2. Triggers(mStateFunctionQueue[s])' = Triggers(mStateFunctionQueue[s])
    BY <1>1, <1>5, <2>1 DEF Triggers
  <2>3. InboxOf(s)' = InboxOf(s)
    BY <1>4, <2>2 DEF InboxOf
  <2>4. QED
    BY <1>1, <1>3, <2>3, BusStutters
<1>6. CASE mStateFunctionQueue[s] # <<Console>>
  <2>1. mStateFunctionQueue[s] \in Seq(Nat)
    BY <1>6 DEF CallsQueued
  <2>2. PICK q \in Seq(Nat), r \in Seq(Nat) :
            q = mStateFunctionQueue[s] /\ q = Triggers(mStateFunctionQueue[s]) /\ r = Coming(s)
    BY <2>1, InboxParts
  <2>3. Tail(q) \in Seq(Nat)
    BY <1>1, <2>2, HeadTailProperties
  <2>4. Triggers(mStateFunctionQueue[s])' = Tail(q)
    BY <1>1, <2>2, <2>3, NotConsoles DEF Triggers
  <2>5. InboxOf(s) = << >> \o q \o r /\ InboxOf(s)' = << >> \o Tail(q) \o r
    BY <1>4, <2>2, <2>4 DEF InboxOf
  <2>6. q # << >> /\ 0 \in Nat
    BY <1>1, <2>2
  <2>7. << >> \o q \o r # << >> /\ Tail(<< >> \o q \o r) = << >> \o Tail(q) \o r
    BY <2>6, Rows
  <2>8. InboxOf(s) # << >> /\ InboxOf(s)' = Tail(InboxOf(s))
    BY <2>5, <2>7
  <2>9. QED
    BY <1>1, <1>3, <2>8, BusHandles
<1>7. QED
  BY <1>5, <1>6

\* A call that returns has been handled; a chunk is none of the bus's business.
LEMMA ReturnHandled ==
    ASSUME IndInv, CallsQueued, NEW s \in States, LuaReturns(s)
    PROVE  Bus!Next \/ UNCHANGED BusVars
<1> USE DEF registry, mutexes, queues, trigger, Goto
<1>1. /\ UNCHANGED <<mLuaEvents, eventsMutex, todo, number, triggered, mStateFunctionQueue>>
      /\ running'[s] = None /\ None \notin Nat
      /\ \A u \in States \ {s} : running'[u] = running[u]
  BY Names DEF LuaReturns, IndInv, TypeOK, CallIds
<1>2. \A u \in States \ {s} : InboxOf(u)' = InboxOf(u)
  BY <1>1, InboxStays
<1>3. CASE running[s] \notin Nat
  <2>1. InboxOf(s)' = InboxOf(s)
    BY <1>1, <1>3, InboxStays
  <2>2. QED
    BY <1>1, <1>2, <2>1, BusStutters
<1>4. CASE running[s] \in Nat
  <2>1. PICK n \in Nat, q \in Seq(Nat), r \in Seq(Nat) :
            n = running[s] /\ q = Triggers(mStateFunctionQueue[s]) /\ r = Coming(s)
    BY <1>4, InboxParts
  <2>2. InboxOf(s) = <<n>> \o q \o r
    BY <2>1 DEF InboxOf, BeingRun
  <2>3. InboxOf(s)' = << >> \o q \o r
    BY <1>1, <2>1 DEF InboxOf, BeingRun, Triggers, Coming
  <2>4. <<n>> \o q \o r # << >> /\ Tail(<<n>> \o q \o r) = << >> \o q \o r
    BY Rows
  <2>5. InboxOf(s) # << >> /\ InboxOf(s)' = Tail(InboxOf(s))
    BY <2>2, <2>3, <2>4
  <2>6. QED
    BY <1>1, <1>2, <2>5, BusHandles
<1>5. QED
  BY <1>3, <1>4

\* Every step of the engine is a step of the bus or none.
LEMMA NextOnBus == IndInv /\ CallsQueued /\ Next => Bus!Next \/ UNCHANGED BusVars
<1> SUFFICES ASSUME IndInv, CallsQueued, Next PROVE Bus!Next \/ UNCHANGED BusVars
  OBVIOUS
<1> USE DEF registry, mutexes, queues, trigger, Goto
<1>q. ASSUME UNCHANGED <<mLuaEvents, running, mStateFunctionQueue, eventsMutex, todo, number, triggered>>
      PROVE  UNCHANGED BusVars
  <2>1. UNCHANGED <<eventsMutex, todo, number, mLuaEvents, triggered>>
    BY <1>q
  <2>2. \A s \in States : mStateFunctionQueue'[s] = mStateFunctionQueue[s] /\ running'[s] = running[s]
    BY <1>q
  <2>3. QED
    BY <2>1, <2>2, InboxStays, BusStutters
<1>1. CASE OnInitReturned \/ LoadPlugin \/ PluginLoaded
  BY <1>1, <1>q DEF OnInitReturned, LoadPlugin, EnqueueScript, PluginLoaded
<1>2. CASE EngineTriggers
  BY <1>2, TriggerTriggers, Names DEF EngineTriggers
<1>3. ASSUME NEW t \in {Engine, Console}, EnsureStateExists(t) \/ TimedWaitEnds(t)
      PROVE  UNCHANGED BusVars
  BY <1>3, <1>q DEF EnsureStateExists, TimedWaitEnds
<1>4. ASSUME NEW t \in {Engine, Console}, RegisterOnInit(t)
      PROVE  Bus!Next
  BY <1>4, CreationRegisters
<1>5. ASSUME NEW e \in Events, ConsoleTriggers(e)
      PROVE  Bus!Next
  BY <1>5, TriggerTriggers, Names DEF ConsoleTriggers
<1>6. ASSUME NEW t \in Callers, NEW e \in Events, ClientTriggers(t, e)
      PROVE  Bus!Next
  BY <1>6, TriggerTriggers, Names DEF ClientTriggers
<1>7. ASSUME NEW t \in Callers \cup {Console}, Ready(t)
      PROVE  UNCHANGED BusVars
  BY <1>7, <1>q DEF Ready
<1>8. ASSUME NEW t \in Threads, NEW s \in States, EnqueueFunctionCall(t, s)
      PROVE  UNCHANGED BusVars
  BY <1>8, CallMovesOn
<1>9. ASSUME NEW s \in States, RunLine(s) \/ NoCall(s) \/ LuaRegisters(s) \/ OwnHandlers(s)
      PROVE  UNCHANGED BusVars
  BY <1>9, <1>q DEF RunLine, EnqueueScript, NoCall, LuaRegisters, OwnHandlers
<1>10. ASSUME NEW s \in States, RunChunk(s)
       PROVE  UNCHANGED BusVars
  <2>1. CASE mStateExecuteQueue[s] = << >>
    BY <1>10, <2>1, <1>q DEF RunChunk
  <2>2. CASE mStateExecuteQueue[s] # << >>
    <3>1. UNCHANGED <<mLuaEvents, mStateFunctionQueue, eventsMutex, todo, number, triggered>>
      BY <1>10 DEF RunChunk
    <3>2. Head(mStateExecuteQueue[s]) \in {Engine, Console}
      BY <2>2, Dequeued DEF IndInv, TypeOK
    <3>3. running'[s] \notin Nat /\ \A u \in States \ {s} : running'[u] = running[u]
      BY <1>10, <2>2, <3>2, Names DEF RunChunk, IndInv, TypeOK
    <3>4. running[s] = None
      BY <1>10 DEF RunChunk, IndInv, StatesCreated
    <3>5. \A u \in States : InboxOf(u)' = InboxOf(u)
      <4>1. InboxOf(s)' = InboxOf(s)
        BY <3>1, <3>3, <3>4, Names, InboxStays DEF CallIds
      <4>2. \A u \in States \ {s} : InboxOf(u)' = InboxOf(u)
        BY <3>1, <3>3, InboxStays
      <4>3. QED
        BY <4>1, <4>2
    <3>6. QED
      BY <3>1, <3>5, BusStutters
  <2>3. QED
    BY <2>1, <2>2
<1>11. ASSUME NEW s \in States, FunctionFound(s)
       PROVE  UNCHANGED BusVars
  BY <1>11, FoundMovesOn
<1>12. ASSUME NEW s \in States, FunctionNotFound(s) \/ LuaReturns(s)
       PROVE  Bus!Next \/ UNCHANGED BusVars
  BY <1>12, MissingHandled, ReturnHandled
<1>13. ASSUME NEW s \in States, NEW e \in Events, RegisterEvent(s, e)
       PROVE  Bus!Next
  <2>1. /\ UNCHANGED <<eventsMutex, todo, number, triggered>>
        /\ mLuaEvents' = [mLuaEvents EXCEPT ![e] = @ \cup {s}]
        /\ \A u \in States : mStateFunctionQueue'[u] = mStateFunctionQueue[u] /\ running'[u] = running[u]
    BY <1>13 DEF RegisterEvent
  <2>2. \A u \in States : InboxOf(u)' = InboxOf(u)
    BY <2>1, InboxStays
  <2>3. QED
    BY <2>1, <2>2, BusRegisters
<1>14. ASSUME NEW s \in States, NEW e \in Events, LuaTriggers(s, e)
       PROVE  Bus!Next
  BY <1>14, TriggerTriggers, Names DEF LuaTriggers
<1>15. QED
  BY <1>1, <1>2, <1>3, <1>4, <1>5, <1>6, <1>7, <1>8, <1>9, <1>10, <1>11, <1>12, <1>13, <1>14 DEF Next

\* The engine is an event bus: whatever threads, mutexes and queues do, an
\* event reaches the handlers registered when it was triggered, once, and all
\* states see the events they share in one order.
THEOREM EngineImplementsBus == Spec => ImplementsEventBus
<1>1. Init => Bus!Init
  <2>1. SUFFICES ASSUME Init PROVE [s \in States |-> InboxOf(s)] = [s \in States |-> << >>]
    BY DEF Init, Bus!Init
  <2>2. << >> \o << >> \o << >> = << >>
    BY ConcatEmptySeq, EmptySeq
  <2>3. ASSUME NEW s \in States PROVE InboxOf(s) = << >>
    <3>1. running[s] = None /\ None \notin Nat /\ eventsMutex = None /\ mStateFunctionQueue[s] = << >>
      BY <2>1, <2>3, Names DEF Init, CallIds
    <3>2. BeingRun(s) = << >> /\ Coming(s) = << >> /\ Triggers(mStateFunctionQueue[s]) = << >>
      BY <3>1 DEF BeingRun, Coming, Triggers
    <3>3. QED
      BY <2>2, <3>2 DEF InboxOf
  <2>4. QED
    BY <2>3
<1>2. UNCHANGED vars => UNCHANGED BusVars
  BY DEF vars, BusVars, InboxOf, BeingRun, Triggers, Coming
<1>3. IndInv /\ CallsQueued /\ [Next]_vars => [Bus!Next]_BusVars
  BY <1>2, NextOnBus
<1>4. QED
  BY <1>1, <1>3, Invariance, QueuesHold, PTL DEF Spec, ImplementsEventBus, Bus!Spec, BusVars
=============================================================================
