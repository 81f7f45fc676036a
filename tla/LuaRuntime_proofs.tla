-------------------------- MODULE LuaRuntime_proofs --------------------------
(***************************************************************************)
(* Proofs about LuaRuntime, for any events and handlers, any states and    *)
(* files, any number of timers and any number of edits.                    *)
(***************************************************************************)
EXTENDS LuaRuntime, FiniteSetTheorems, TLAPS

-----------------------------------------------------------------------------
(* Sequences of calls and of timers.                                       *)

\* A set whose elements are all equal has at most one.
LEMMA AtMostOne ==
    ASSUME NEW S, \A x, y \in S : x = y
    PROVE  Cardinality(S) <= 1
<1>1. CASE S = {}
  BY <1>1, FS_EmptySet
<1>2. CASE S # {}
  <2>1. PICK x \in S : S = {x}
    BY <1>2
  <2>2. Cardinality({x}) = 1
    BY FS_Singleton
  <2>3. QED
    BY <2>1, <2>2
<1>3. QED
  BY <1>1, <1>2

\* A finite set's elements, in some order.
LEMMA SetToSeqType ==
    ASSUME NEW S, IsFiniteSet(S)
    PROVE  SetToSeq(S) \in Seq(S) /\ Len(SetToSeq(S)) = Cardinality(S)
<1>1. PICK f : f \in [1..Cardinality(S) -> S] /\ IsInjective(f)
  BY FS_CardinalityType DEF ExistsBijection, Bijection, Injection
<1>2. SetToSeq(S) \in [1..Cardinality(S) -> S]
  BY <1>1 DEF SetToSeq
<1>3. QED
  BY <1>2, FS_CardinalityType

-----------------------------------------------------------------------------
(* The queue of calls.                                                     *)

NoTwo(q) ==
    \A i, j \in DOMAIN q :
        /\ q[i].by = "BestEffort" /\ q[j].by = "BestEffort" /\ q[i].event = q[j].event
        => i = j

QueueOK == mStateFunctionQueue \in Seq(Call) /\ NoTwo(mStateFunctionQueue)

\* Calls that no best-effort timer queued may go to the end.
LEMMA OthersKeepNoTwo ==
    ASSUME NEW q \in Seq(Call), NEW r \in Seq(Call), NoTwo(q), \A i \in DOMAIN r : r[i].by # "BestEffort"
    PROVE  q \o r \in Seq(Call) /\ NoTwo(q \o r)
<1>1. q \o r \in Seq(Call) /\ Len(q \o r) = Len(q) + Len(r)
  OBVIOUS
<1>2. ASSUME NEW i \in DOMAIN (q \o r), (q \o r)[i].by = "BestEffort"
      PROVE  i \in DOMAIN q /\ (q \o r)[i] = q[i]
  <2>1. CASE i <= Len(q)
    BY <1>1, <2>1
  <2>2. CASE i > Len(q)
    <3>1. i - Len(q) \in DOMAIN r /\ (q \o r)[i] = r[i - Len(q)]
      BY <1>1, <2>2
    <3>2. QED
      BY <1>2, <3>1
  <2>3. QED
    BY <1>1, <2>1, <2>2
<1>3. NoTwo(q \o r)
  BY <1>2 DEF NoTwo
<1>4. QED
  BY <1>1, <1>3

\* So may one of a best-effort timer, if none of its event is queued.
LEMMA TimedKeepsNoTwo ==
    ASSUME NEW q \in Seq(Call), NoTwo(q), NEW c \in Call,
           c.by = "BestEffort" => \A i \in DOMAIN q : q[i].event # c.event
    PROVE  Append(q, c) \in Seq(Call) /\ NoTwo(Append(q, c))
<1>1. /\ Append(q, c) \in Seq(Call) /\ Len(Append(q, c)) = Len(q) + 1 /\ Append(q, c)[Len(q) + 1] = c
      /\ \A i \in DOMAIN q : Append(q, c)[i] = q[i]
  OBVIOUS
<1>2. \A i \in DOMAIN Append(q, c) : i \in DOMAIN q \/ i = Len(q) + 1
  BY <1>1
<1>3. NoTwo(Append(q, c))
  <2>1. SUFFICES ASSUME NEW i \in DOMAIN Append(q, c), NEW j \in DOMAIN Append(q, c),
                        Append(q, c)[i].by = "BestEffort", Append(q, c)[j].by = "BestEffort",
                        Append(q, c)[i].event = Append(q, c)[j].event
                 PROVE  i = j
    BY DEF NoTwo
  <2>2. CASE i \in DOMAIN q /\ j \in DOMAIN q
    BY <1>1, <2>1, <2>2 DEF NoTwo
  <2>3. CASE i = Len(q) + 1 /\ j = Len(q) + 1
    BY <2>3
  <2>4. CASE i \in DOMAIN q /\ j = Len(q) + 1
    BY <1>1, <2>1, <2>4
  <2>5. CASE j \in DOMAIN q /\ i = Len(q) + 1
    BY <1>1, <2>1, <2>5
  <2>6. QED
    BY <1>2, <2>2, <2>3, <2>4, <2>5
<1>4. QED
  BY <1>1, <1>3

\* Taking the first call leaves no two calls of a kind.
LEMMA TailKeepsNoTwo ==
    ASSUME NEW q \in Seq(Call), NoTwo(q), q # << >>
    PROVE  Tail(q) \in Seq(Call) /\ NoTwo(Tail(q))
<1>1. Tail(q) \in Seq(Call)
  OBVIOUS
<1>2. \A i \in DOMAIN Tail(q) : i \in Nat /\ i + 1 \in DOMAIN q /\ Tail(q)[i] = q[i + 1]
  OBVIOUS
<1>3. SUFFICES ASSUME NEW i \in DOMAIN Tail(q), NEW j \in DOMAIN Tail(q),
                      Tail(q)[i].by = "BestEffort", Tail(q)[j].by = "BestEffort",
                      Tail(q)[i].event = Tail(q)[j].event
               PROVE  i = j
  BY <1>1 DEF NoTwo
<1>4. i + 1 = j + 1
  BY <1>2, <1>3 DEF NoTwo
<1>5. QED
  BY <1>2, <1>4

\* A trigger's calls are none of a timer's.
LEMMA CallsOfType ==
    ASSUME NEW e \in Events
    PROVE  CallsOf(e) \in Seq(Call) /\ \A i \in DOMAIN CallsOf(e) : CallsOf(e)[i].by # "BestEffort"
<1>1. Handlers[e] \in Seq(Functions)
  BY ConstantsAssumption
<1>2. \A i \in DOMAIN Handlers[e] : Handlers[e][i] \in Functions
  BY <1>1
<1>3. \A i \in DOMAIN Handlers[e] : [event |-> e, function |-> Handlers[e][i], by |-> None] \in Call
  BY <1>2 DEF Call
<1>4. CallsOf(e) \in [1..Len(Handlers[e]) -> Call] /\ Len(Handlers[e]) \in Nat
  <2>1. DOMAIN Handlers[e] = 1..Len(Handlers[e]) /\ Len(Handlers[e]) \in Nat
    BY <1>1
  <2>2. CallsOf(e) \in [DOMAIN Handlers[e] -> Call]
    BY <1>3 DEF CallsOf
  <2>3. QED
    BY <2>1, <2>2
<1>5. CallsOf(e) \in Seq(Call)
  BY <1>4
<1>6. None # "BestEffort"
  BY ConstantsAssumption
<1>7. \A i \in DOMAIN CallsOf(e) : CallsOf(e)[i].by = None
  BY DEF CallsOf
<1>8. QED
  BY <1>5, <1>6, <1>7

\* The groups of which the invariant consists.
TimersOK ==
    /\ mTimedEvents \in Seq(Timer) /\ Len(mTimedEvents) <= MaxTimers
    /\ scan \in 0..Len(mTimedEvents)
    /\ due \in Seq(Functions)
    /\ WaitedForWhatIsGone
    /\ DueAreItsHandlers

StateOK ==
    /\ state \in {"scripts", "chunk", "functions", "call"}
    /\ running \in Events \cup {None}
    /\ script \in 0..MaxInputs \cup {None}
    /\ loaded \in 0..MaxInputs
    /\ ChunkIsThere

FilesOK ==
    /\ content \in [FileSet -> 0..MaxInputs]
    /\ lastWrite \in [FileSet -> 0..MaxInputs \cup {Missing}]
    /\ DOMAIN mFileTimes \subseteq FileSet /\ \A f \in DOMAIN mFileTimes : mFileTimes[f] \in 0..MaxInputs
    /\ ToRemove \subseteq FileSet
    /\ file \in 0..Len(Files)
    /\ monitor \in {"look", "read", "wait", "onInit", "changed"}
    /\ inputs \in 0..MaxInputs
    /\ unseen \subseteq FileSet

\* The invariant, by the variables that its parts are about.
LEMMA Groups == IndInv <=> TimersOK /\ QueueOK /\ StateOK /\ FilesOK
BY DEF IndInv, TypeOK, TimersOK, QueueOK, StateOK, FilesOK, OneCall, NoTwo

\* The timer that the scan is at.
LEMMA TimerAt ==
    ASSUME TimersOK, NEW i \in DOMAIN mTimedEvents
    PROVE  /\ mTimedEvents[i] \in Timer
           /\ mTimedEvents[i].event \in TimerEvents /\ mTimedEvents[i].event \in Events
           /\ mTimedEvents[i].strategy \in {"BestEffort", "Precise"}
           /\ mTimedEvents[i].left \in 0..Period /\ mTimedEvents[i].waited \in 0..Period
           /\ Handlers[mTimedEvents[i].event] \in Seq(Functions)
<1>1. mTimedEvents[i] \in Timer
  BY DEF TimersOK
<1>2. QED
  BY <1>1, ConstantsAssumption DEF Timer

\* While handlers are due, the scan is at a timer that exists.
LEMMA ScanIsAtATimer ==
    ASSUME TimersOK, due # << >> \/ scan # 0
    PROVE  scan \in DOMAIN mTimedEvents
BY DEF TimersOK, DueAreItsHandlers

\* Every step keeps the queue free of two best-effort calls of one event.
LEMMA QueueNext ==
    ASSUME TimersOK, QueueOK, Next
    PROVE  QueueOK'
<1>1. CASE EnqueueTimed
  <2> DEFINE t == mTimedEvents[scan]
             c == [event |-> t.event, function |-> Head(due), by |-> t.strategy]
  <2>1. due # << >> /\ ~Refused(t, Head(due)) /\ mStateFunctionQueue' = Append(mStateFunctionQueue, c)
    BY <1>1 DEF EnqueueTimed
  <2>2. t.event \in Events /\ t.strategy \in {"BestEffort", "Precise"} /\ Head(due) \in Functions
    BY <2>1, ScanIsAtATimer, TimerAt DEF TimersOK
  <2>3. c \in Call /\ c.by = t.strategy /\ c.event = t.event
    BY <2>2 DEF Call
  <2>4. c.by = "BestEffort" => \A i \in DOMAIN mStateFunctionQueue : mStateFunctionQueue[i].event # c.event
    BY <2>1, <2>3 DEF Refused
  <2> HIDE DEF c
  <2>5. QED
    BY <2>1, <2>3, <2>4, TimedKeepsNoTwo DEF QueueOK
<1>2. CASE TakeCall
  BY <1>2, TailKeepsNoTwo DEF TakeCall, QueueOK
<1>3. ASSUME NEW e \in Events, mStateFunctionQueue' = mStateFunctionQueue \o CallsOf(e)
      PROVE  QueueOK'
  BY <1>3, CallsOfType, OthersKeepNoTwo DEF QueueOK
<1>4. CASE TriggerOnInit \/ TriggerOnFileChanged \/ \E e \in TimerEvents : TriggerEvent(e)
  BY <1>3, <1>4, ConstantsAssumption DEF TriggerOnInit, TriggerOnFileChanged, TriggerEvent
<1>5. CASE UNCHANGED mStateFunctionQueue
  BY <1>5 DEF QueueOK
<1>6. QED
  <2>1. CASE Tick \/ BeginScan \/ ScanStep
    BY <1>1, <1>5, <2>1 DEF Tick, BeginScan, ScanStep, SkipTimer, TimerExpires, RevertReset
  <2>2. CASE StateStep \/ \E e \in TimerEvents : CancelEventTimers(e)
    BY <1>2, <1>5, <2>2 DEF StateStep, LookForScript, RunScript, TimeOut, FinishCall, CancelEventTimers
  <2>3. CASE MonitorStep \/ \E f \in FileSet : Edit(f) \/ Delete(f)
    BY <1>4, <1>5, <2>3 DEF MonitorStep, BeginPass, LookAtFile, ReadFile, AwaitScript, Edit, Delete
  <2>4. QED
    BY <1>4, <2>1, <2>2, <2>3 DEF Next

-----------------------------------------------------------------------------
(* The timers.                                                             *)

\* While no handlers are being queued, timers of which each has waited for what
\* is gone of its period may take the place of others.
LEMMA TimersReplaced ==
    ASSUME TimersOK, due' = << >> \/ (due' = due /\ UNCHANGED <<mTimedEvents, scan>>), due' \in Seq(Functions),
           mTimedEvents' \in Seq(Timer), Len(mTimedEvents') <= MaxTimers, scan' \in 0..Len(mTimedEvents'),
           \A i \in DOMAIN mTimedEvents' : mTimedEvents'[i].left + mTimedEvents'[i].waited >= Period
    PROVE  TimersOK'
<1>1. WaitedForWhatIsGone'
  BY DEF WaitedForWhatIsGone
<1>2. DueAreItsHandlers'
  BY DEF TimersOK, DueAreItsHandlers
<1>3. QED
  BY <1>1, <1>2 DEF TimersOK

\* The scan's next place.
LEMMA NextTimerType ==
    ASSUME TimersOK, scan \in DOMAIN mTimedEvents, NextTimer
    PROVE  scan' \in 0..Len(mTimedEvents)
<1>1. Len(mTimedEvents) \in Nat /\ scan \in 1..Len(mTimedEvents)
  BY DEF TimersOK
<1>2. CASE scan = Len(mTimedEvents)
  BY <1>1, <1>2 DEF NextTimer
<1>3. CASE scan # Len(mTimedEvents)
  BY <1>1, <1>3 DEF NextTimer
<1>4. QED
  BY <1>2, <1>3

\* The timers a load creates are as many as its events.
LEMMA CreatedTimersType ==
    ASSUME NEW s \in StrategyChoices
    PROVE  /\ CreatedTimers(s) \in Seq(Timer) /\ Len(CreatedTimers(s)) <= Cardinality(TimerEvents)
           /\ Cardinality(TimerEvents) \in Nat
           /\ \A i \in DOMAIN CreatedTimers(s) :
                  CreatedTimers(s)[i].left + CreatedTimers(s)[i].waited >= Period
<1> DEFINE T == {NewTimer(e, s[e]) : e \in TimerEvents}
<1>1. IsFiniteSet(TimerEvents)
  BY ConstantsAssumption
<1>2. IsFiniteSet(T) /\ Cardinality(T) <= Cardinality(TimerEvents)
  <2> DEFINE f == [e \in TimerEvents |-> NewTimer(e, s[e])]
  <2>1. f \in Surjection(TimerEvents, T)
    BY DEF Surjection
  <2> HIDE DEF T, f
  <2>2. QED
    BY <1>1, <2>1, FS_Surjection
<1>3. Period \in Nat /\ 0 \in 0..Period /\ Period \in 0..Period
  BY ConstantsAssumption
<1>4. ASSUME NEW e \in TimerEvents
      PROVE  NewTimer(e, s[e]) \in Timer /\ NewTimer(e, s[e]).left + NewTimer(e, s[e]).waited >= Period
  <2>1. s[e] \in {"BestEffort", "Precise"}
    BY DEF StrategyChoices
  <2>2. QED
    BY <1>3, <2>1 DEF NewTimer, Timer
<1>5. CreatedTimers(s) \in Seq(T) /\ Len(CreatedTimers(s)) = Cardinality(T)
  BY <1>2, SetToSeqType DEF CreatedTimers
<1>6. \A i \in DOMAIN CreatedTimers(s) : CreatedTimers(s)[i] \in T
  BY <1>5
<1>7. \A t \in T : t \in Timer /\ t.left + t.waited >= Period
  BY <1>4
<1>8. CreatedTimers(s) \in Seq(Timer)
  BY <1>5, <1>7
<1>9. Cardinality(TimerEvents) \in Nat
  BY <1>1, FS_CardinalityType
<1> HIDE DEF T
<1>10. QED
  BY <1>2, <1>5, <1>6, <1>7, <1>8, <1>9

\* Time that passes is counted up to the period of a timer.
LEMMA TickKeeps ==
    ASSUME TimersOK, Tick
    PROVE  TimersOK'
<1>1. Period \in Nat /\ mTimedEvents \in Seq(Timer)
  BY ConstantsAssumption DEF TimersOK
<1>2. /\ due = << >> /\ UNCHANGED <<scan, due>>
      /\ mTimedEvents' = [i \in DOMAIN mTimedEvents |->
            [mTimedEvents[i] EXCEPT !.left = IF @ = 0 THEN 0 ELSE @ - 1,
                                    !.waited = IF @ = Period THEN Period ELSE @ + 1]]
  BY DEF Tick
<1>3. ASSUME NEW i \in DOMAIN mTimedEvents
      PROVE  mTimedEvents'[i] \in Timer /\ mTimedEvents'[i].left + mTimedEvents'[i].waited >= Period
  <2>1. PICK t \in Timer : t = mTimedEvents[i]
    BY <1>1
  <2>2. t.left \in 0..Period /\ t.waited \in 0..Period /\ t.left + t.waited >= Period
    BY <1>3, <2>1 DEF Timer, TimersOK, WaitedForWhatIsGone
  <2>3. PICK left \in 0..Period, waited \in 0..Period :
            /\ left = (IF t.left = 0 THEN 0 ELSE t.left - 1)
            /\ waited = (IF t.waited = Period THEN Period ELSE t.waited + 1)
            /\ left + waited >= Period
    <3>1. (IF t.left = 0 THEN 0 ELSE t.left - 1) \in 0..Period
      BY <1>1, <2>2
    <3>2. (IF t.waited = Period THEN Period ELSE t.waited + 1) \in 0..Period
      BY <1>1, <2>2
    <3>3. (IF t.left = 0 THEN 0 ELSE t.left - 1) + (IF t.waited = Period THEN Period ELSE t.waited + 1) >= Period
      BY <1>1, <2>2
    <3>4. QED
      BY <3>1, <3>2, <3>3
  <2>4. mTimedEvents'[i] = [t EXCEPT !.left = left, !.waited = waited]
    BY <1>2, <2>1, <2>3
  <2>5. [t EXCEPT !.left = left, !.waited = waited] \in Timer
    BY <2>1, <2>3 DEF Timer
  <2>6. mTimedEvents'[i].left = left /\ mTimedEvents'[i].waited = waited
    BY <2>1, <2>4 DEF Timer
  <2>7. QED
    BY <2>3, <2>4, <2>5, <2>6
<1>4. mTimedEvents' \in Seq(Timer) /\ Len(mTimedEvents') = Len(mTimedEvents) /\ DOMAIN mTimedEvents' = DOMAIN mTimedEvents
  <2>1. DOMAIN mTimedEvents = 1..Len(mTimedEvents) /\ Len(mTimedEvents) \in Nat
    BY <1>1
  <2>2. DOMAIN mTimedEvents' = DOMAIN mTimedEvents /\ mTimedEvents' = [i \in DOMAIN mTimedEvents |-> mTimedEvents'[i]]
    BY <1>2
  <2>3. mTimedEvents' \in [1..Len(mTimedEvents) -> Timer]
    BY <1>3, <2>1, <2>2
  <2>4. QED
    BY <2>1, <2>2, <2>3
<1>5. QED
  BY <1>2, <1>3, <1>4, TimersReplaced DEF TimersOK

\* The scan changes the timer it is at.
LEMMA ScanKeeps ==
    ASSUME TimersOK, BeginScan \/ ScanStep
    PROVE  TimersOK'
<1>1. Period \in Nat /\ Period # 0 /\ mTimedEvents \in Seq(Timer) /\ Len(mTimedEvents) <= MaxTimers
      /\ scan \in 0..Len(mTimedEvents) /\ due \in Seq(Functions) /\ Len(mTimedEvents) \in Nat
  BY ConstantsAssumption DEF TimersOK
<1>0. 0 \in 0..Period /\ Period \in 0..Period
  BY <1>1
<1>2. \A i \in DOMAIN mTimedEvents : mTimedEvents[i].left + mTimedEvents[i].waited >= Period
  BY DEF TimersOK, WaitedForWhatIsGone
<1>3. CASE BeginScan
  <2>1. UNCHANGED <<mTimedEvents, due>> /\ scan = 0 /\ scan' = 1 /\ mTimedEvents # << >>
    BY <1>3 DEF BeginScan
  <2>2. due = << >>
    BY <2>1 DEF TimersOK, DueAreItsHandlers
  <2>3. scan' \in 0..Len(mTimedEvents')
    BY <1>1, <2>1
  <2>4. QED
    BY <1>1, <1>2, <2>1, <2>2, <2>3, TimersReplaced
<1>4. CASE SkipTimer
  <2>1. UNCHANGED <<mTimedEvents, due>> /\ due = << >> /\ scan # 0 /\ NextTimer
    BY <1>4 DEF SkipTimer
  <2>2. scan' \in 0..Len(mTimedEvents')
    BY <2>1, ScanIsAtATimer, NextTimerType
  <2>3. QED
    BY <1>1, <1>2, <2>1, <2>2, TimersReplaced
<1>5. ASSUME due # << >> \/ scan # 0
      PROVE  /\ scan \in DOMAIN mTimedEvents
             /\ mTimedEvents[scan] \in Timer /\ mTimedEvents[scan].event \in Events
             /\ mTimedEvents[scan].left \in 0..Period /\ mTimedEvents[scan].waited \in 0..Period
             /\ Handlers[mTimedEvents[scan].event] \in Seq(Functions)
  BY <1>5, ScanIsAtATimer, TimerAt
<1>6. ASSUME NEW t \in Timer, scan \in DOMAIN mTimedEvents, mTimedEvents' = [mTimedEvents EXCEPT ![scan] = t],
             t.left + t.waited >= Period
      PROVE  /\ mTimedEvents' \in Seq(Timer) /\ Len(mTimedEvents') = Len(mTimedEvents)
             /\ mTimedEvents'[scan] = t
             /\ \A i \in DOMAIN mTimedEvents' : mTimedEvents'[i].left + mTimedEvents'[i].waited >= Period
  <2>1. mTimedEvents' \in Seq(Timer) /\ Len(mTimedEvents') = Len(mTimedEvents) /\ mTimedEvents'[scan] = t
    BY <1>1, <1>6
  <2>2. \A i \in DOMAIN mTimedEvents' : i \in DOMAIN mTimedEvents /\ (i # scan => mTimedEvents'[i] = mTimedEvents[i])
    BY <1>1, <1>6
  <2>3. QED
    BY <1>2, <1>6, <2>1, <2>2
<1>7. CASE TimerExpires
  <2>1. /\ scan # 0 /\ due = << >> /\ mTimedEvents[scan].left = 0
        /\ mTimedEvents' = [mTimedEvents EXCEPT ![scan].left = Period]
        /\ due' = Handlers[mTimedEvents[scan].event] /\ UNCHANGED scan
    BY <1>7 DEF TimerExpires
  <2>2. PICK t \in Timer : t = mTimedEvents[scan]
    BY <1>5, <2>1
  <2>3. PICK u \in Timer : u = [t EXCEPT !.left = Period]
    <3>1. [t EXCEPT !.left = Period] \in Timer
      BY <1>0, <2>2 DEF Timer
    <3>2. QED
      BY <3>1
  <2>4. u.left = Period /\ u.waited = t.waited /\ u.event = t.event /\ t.waited \in 0..Period
    BY <2>2, <2>3 DEF Timer
  <2>5. mTimedEvents' = [mTimedEvents EXCEPT ![scan] = u]
    BY <1>1, <1>5, <2>1, <2>2, <2>3
  <2>6. t.waited = Period
    <3>1. t.left + t.waited >= Period /\ t.left = 0
      BY <1>2, <1>5, <2>1, <2>2
    <3>2. QED
      BY <1>1, <2>4, <3>1
  <2>7. u.left + u.waited >= Period
    BY <1>1, <2>4, <2>6
  <2>8. /\ mTimedEvents' \in Seq(Timer) /\ Len(mTimedEvents') = Len(mTimedEvents) /\ mTimedEvents'[scan] = u
        /\ \A i \in DOMAIN mTimedEvents' : mTimedEvents'[i].left + mTimedEvents'[i].waited >= Period
    BY <1>5, <1>6, <2>1, <2>5, <2>7
  <2>9. DueAreItsHandlers'
    <3>1. due' = Handlers[u.event] /\ Len(due') \in Nat
      BY <1>5, <2>1, <2>2, <2>4
    <3>2. Len(due') <= Len(Handlers[u.event])
      BY <3>1
    <3>3. QED
      BY <2>1, <2>4, <2>6, <2>8, <3>1, <3>2 DEF DueAreItsHandlers
  <2>10. WaitedForWhatIsGone'
    BY <2>8 DEF WaitedForWhatIsGone
  <2>11. due' \in Seq(Functions)
    BY <1>5, <2>1
  <2>12. QED
    BY <1>1, <2>1, <2>8, <2>9, <2>10, <2>11 DEF TimersOK
<1>8. CASE RevertReset
  <2>1. /\ due # << >> /\ due' = << >> /\ NextTimer
        /\ mTimedEvents' = [mTimedEvents EXCEPT ![scan].left = 0, ![scan].waited = Period]
    BY <1>8 DEF RevertReset
  <2>2. PICK t \in Timer : t = mTimedEvents[scan]
    BY <1>5, <2>1
  <2>3. PICK u \in Timer : u = [t EXCEPT !.left = 0, !.waited = Period]
    <3>1. [t EXCEPT !.left = 0, !.waited = Period] \in Timer
      BY <1>0, <2>2 DEF Timer
    <3>2. QED
      BY <3>1
  <2>4. u.left = 0 /\ u.waited = Period
    BY <2>2, <2>3 DEF Timer
  <2>5. mTimedEvents' = [mTimedEvents EXCEPT ![scan] = u]
    BY <1>1, <1>5, <2>1, <2>2, <2>3
  <2>6. u.left + u.waited >= Period
    BY <1>1, <2>4
  <2>7. /\ mTimedEvents' \in Seq(Timer) /\ Len(mTimedEvents') = Len(mTimedEvents)
        /\ \A i \in DOMAIN mTimedEvents' : mTimedEvents'[i].left + mTimedEvents'[i].waited >= Period
    BY <1>5, <1>6, <2>1, <2>5, <2>6
  <2>8. scan' \in 0..Len(mTimedEvents')
    BY <1>5, <2>1, <2>7, NextTimerType
  <2>9. due' \in Seq(Functions)
    BY <2>1
  <2>10. QED
    BY <1>1, <2>1, <2>7, <2>8, <2>9, TimersReplaced
<1>9. CASE EnqueueTimed
  <2> DEFINE hs == Handlers[mTimedEvents[scan].event]
  <2>1. /\ due # << >> /\ due' = Tail(due)
        /\ mTimedEvents' = IF due = hs THEN [mTimedEvents EXCEPT ![scan].waited = 0] ELSE mTimedEvents
        /\ IF Len(due) = 1 THEN NextTimer ELSE UNCHANGED scan
    BY <1>9 DEF EnqueueTimed
  <2>2. mTimedEvents[scan].left = Period /\ Len(due) <= Len(hs)
    BY <2>1 DEF TimersOK, DueAreItsHandlers
  <2>3. PICK t \in Timer : t = mTimedEvents[scan]
    BY <1>5, <2>1
  <2>4. PICK u \in Timer : /\ mTimedEvents' = [mTimedEvents EXCEPT ![scan] = u]
                           /\ u.left = Period /\ u.event = t.event /\ u.left + u.waited >= Period
    <3>1. CASE due = hs
      <4>1. PICK u \in Timer : u = [t EXCEPT !.waited = 0]
        <5>1. [t EXCEPT !.waited = 0] \in Timer
          BY <1>0, <2>3 DEF Timer
        <5>2. QED
          BY <5>1
      <4>2. u.left = Period /\ u.waited = 0 /\ u.event = t.event
        BY <2>2, <2>3, <4>1 DEF Timer
      <4>3. mTimedEvents' = [mTimedEvents EXCEPT ![scan] = u]
        BY <1>1, <1>5, <2>1, <2>3, <3>1, <4>1
      <4>4. u.left + u.waited >= Period
        BY <1>1, <4>2
      <4>5. QED
        BY <4>2, <4>3, <4>4
    <3>2. CASE due # hs
      <4>1. mTimedEvents' = [mTimedEvents EXCEPT ![scan] = t]
        BY <1>1, <1>5, <2>1, <2>3, <3>2
      <4>2. t.left + t.waited >= Period
        BY <1>2, <1>5, <2>1, <2>3
      <4>3. QED
        BY <2>2, <2>3, <4>1, <4>2
    <3>3. QED
      BY <3>1, <3>2
  <2>5. /\ mTimedEvents' \in Seq(Timer) /\ Len(mTimedEvents') = Len(mTimedEvents) /\ mTimedEvents'[scan] = u
        /\ \A i \in DOMAIN mTimedEvents' : mTimedEvents'[i].left + mTimedEvents'[i].waited >= Period
    BY <1>5, <1>6, <2>1, <2>4
  <2>6. due' \in Seq(Functions) /\ Len(due') = Len(due) - 1 /\ Len(due) \in Nat /\ Len(due) # 0
    BY <1>1, <2>1
  <2>7. CASE Len(due) = 1
    <3>1. due' = << >>
      BY <2>6, <2>7
    <3>2. scan' \in 0..Len(mTimedEvents')
      BY <1>5, <2>1, <2>5, <2>7, NextTimerType
    <3>3. QED
      BY <1>1, <2>5, <2>6, <3>1, <3>2, TimersReplaced
  <2>8. CASE Len(due) # 1
    <3>1. scan' = scan
      BY <2>1, <2>8
    <3>2. /\ scan # 0 /\ mTimedEvents'[scan].left = Period /\ mTimedEvents'[scan].event = t.event
          /\ hs = Handlers[t.event]
      <4>1. scan # 0
        BY <2>1 DEF TimersOK, DueAreItsHandlers
      <4>2. QED
        BY <2>3, <2>4, <2>5, <4>1
    <3>3. Len(hs) \in Nat
      BY <1>5, <2>1
    <3>4. Len(due') < Len(hs)
      BY <2>2, <2>6, <3>3
    <3>5. Len(due') <= Len(hs) /\ due' # hs
      BY <2>6, <3>3, <3>4
    <3>6. DueAreItsHandlers'
      BY <3>1, <3>2, <3>5 DEF DueAreItsHandlers
    <3>7. WaitedForWhatIsGone'
      BY <2>5 DEF WaitedForWhatIsGone
    <3>8. QED
      BY <1>1, <2>5, <2>6, <3>1, <3>6, <3>7 DEF TimersOK
  <2>9. QED
    BY <2>7, <2>8
<1>10. QED
  BY <1>3, <1>4, <1>7, <1>8, <1>9 DEF ScanStep

\* A reload's timers, and those that a handler leaves.
LEMMA RunScriptKeeps ==
    ASSUME TimersOK, RunScript
    PROVE  TimersOK'
<1>1. Period \in Nat /\ mTimedEvents \in Seq(Timer) /\ Len(mTimedEvents) <= MaxTimers /\ MaxTimers \in Nat
      /\ scan \in 0..Len(mTimedEvents) /\ due \in Seq(Functions) /\ UNCHANGED <<scan, due>>
      /\ Len(mTimedEvents) \in Nat
  BY ConstantsAssumption DEF TimersOK, RunScript
<1>2. \A i \in DOMAIN mTimedEvents : mTimedEvents[i].left + mTimedEvents[i].waited >= Period
  BY DEF TimersOK, WaitedForWhatIsGone
<1>3. CASE UNCHANGED mTimedEvents
  BY <1>1, <1>2, <1>3, TimersReplaced
<1>4. CASE ~UNCHANGED mTimedEvents
  <2>1. PICK s \in StrategyChoices : mTimedEvents' = mTimedEvents \o CreatedTimers(s)
    BY <1>4 DEF RunScript
  <2>2. scan = 0 /\ Len(mTimedEvents) + Cardinality(TimerEvents) <= MaxTimers
    BY <1>4 DEF RunScript
  <2>3. PICK ts \in Seq(Timer) :
            /\ ts = CreatedTimers(s) /\ Len(ts) <= Cardinality(TimerEvents) /\ Cardinality(TimerEvents) \in Nat
            /\ \A i \in DOMAIN ts : ts[i].left + ts[i].waited >= Period
    BY CreatedTimersType
  <2>4. mTimedEvents' \in Seq(Timer) /\ Len(mTimedEvents') = Len(mTimedEvents) + Len(ts) /\ Len(ts) \in Nat
    BY <1>1, <2>1, <2>3
  <2>5. Len(mTimedEvents') <= MaxTimers
    BY <1>1, <2>2, <2>3, <2>4
  <2>6. ASSUME NEW i \in DOMAIN mTimedEvents'
        PROVE  mTimedEvents'[i].left + mTimedEvents'[i].waited >= Period
    <3>1. CASE i <= Len(mTimedEvents)
      <4>1. i \in DOMAIN mTimedEvents /\ mTimedEvents'[i] = mTimedEvents[i]
        BY <1>1, <2>1, <2>3, <2>4, <2>6, <3>1
      <4>2. QED
        BY <1>2, <4>1
    <3>2. CASE i > Len(mTimedEvents)
      <4>1. i - Len(mTimedEvents) \in DOMAIN ts /\ mTimedEvents'[i] = ts[i - Len(mTimedEvents)]
        BY <1>1, <2>1, <2>3, <2>4, <2>6, <3>2
      <4>2. QED
        BY <2>3, <4>1
    <3>3. QED
      BY <1>1, <2>4, <3>1, <3>2
  <2>7. due = << >>
    BY <2>2 DEF TimersOK, DueAreItsHandlers
  <2>8. scan' \in 0..Len(mTimedEvents')
    BY <1>1, <2>2, <2>4
  <2>9. QED
    BY <1>1, <2>4, <2>5, <2>6, <2>7, <2>8, TimersReplaced
<1>5. QED
  BY <1>3, <1>4

\* Cancelling the timers of an event keeps those of the others.
LEMMA CancelKeeps ==
    ASSUME TimersOK, NEW e \in TimerEvents, CancelEventTimers(e)
    PROVE  TimersOK'
<1> DEFINE kept == {i \in DOMAIN mTimedEvents : mTimedEvents[i].event # e}
<1>1. Period \in Nat /\ mTimedEvents \in Seq(Timer) /\ Len(mTimedEvents) <= MaxTimers /\ MaxTimers \in Nat
      /\ due \in Seq(Functions) /\ UNCHANGED <<scan, due>> /\ scan = 0
      /\ Len(mTimedEvents) \in Nat /\ DOMAIN mTimedEvents = 1..Len(mTimedEvents)
  BY ConstantsAssumption DEF TimersOK, CancelEventTimers
<1>2. \A i \in DOMAIN mTimedEvents : mTimedEvents[i].left + mTimedEvents[i].waited >= Period
  BY DEF TimersOK, WaitedForWhatIsGone
<1>3. PICK n \in Nat : n = Cardinality(kept) /\ n <= Len(mTimedEvents)
  <2>1. IsFiniteSet(1..Len(mTimedEvents)) /\ Cardinality(1..Len(mTimedEvents)) = Len(mTimedEvents)
    <3>1. PICK m \in Nat : m = Len(mTimedEvents)
      BY <1>1
    <3>2. 1 \in Int /\ m \in Int
      BY <3>1
    <3>3. IsFiniteSet(1..m) /\ Cardinality(1..m) = IF 1 > m THEN 0 ELSE m - 1 + 1
      BY <3>2, FS_Interval
    <3>4. QED
      BY <3>1, <3>3
  <2>2. kept \subseteq 1..Len(mTimedEvents)
    BY <1>1
  <2> HIDE DEF kept
  <2>3. IsFiniteSet(kept) /\ Cardinality(kept) <= Len(mTimedEvents)
    BY <2>1, <2>2, FS_Subset
  <2>4. QED
    BY <2>3, FS_CardinalityType
<1>4. PICK place \in [1..n -> kept] : mTimedEvents' = [i \in DOMAIN place |-> mTimedEvents[place[i]]]
  BY <1>3 DEF CancelEventTimers
<1>5. \A i \in 1..n : place[i] \in DOMAIN mTimedEvents
  BY <1>4
<1>6. DOMAIN mTimedEvents' = 1..n /\ \A i \in 1..n : mTimedEvents'[i] = mTimedEvents[place[i]]
  BY <1>4
<1>7. mTimedEvents' \in Seq(Timer) /\ Len(mTimedEvents') = n
  <2>1. \A i \in 1..n : mTimedEvents[place[i]] \in Timer
    BY <1>1, <1>5
  <2>2. mTimedEvents' \in [1..n -> Timer]
    BY <1>4, <2>1
  <2>3. mTimedEvents' \in Seq(Timer)
    BY <2>2
  <2>4. QED
    BY <1>6, <2>3
<1>8. \A i \in DOMAIN mTimedEvents' : mTimedEvents'[i].left + mTimedEvents'[i].waited >= Period
  BY <1>2, <1>5, <1>6
<1>9. due = << >>
  BY <1>1 DEF TimersOK, DueAreItsHandlers
<1>10. Len(mTimedEvents') <= MaxTimers /\ scan' \in 0..Len(mTimedEvents')
  BY <1>1, <1>3, <1>7
<1>11. QED
  BY <1>1, <1>7, <1>8, <1>9, <1>10, TimersReplaced

\* Every step keeps the timers' part of the invariant.
LEMMA TimersNext ==
    ASSUME TimersOK, Next
    PROVE  TimersOK'
<1>1. CASE UNCHANGED timerVars
  <2>1. UNCHANGED <<mTimedEvents, scan, due>>
    BY <1>1 DEF timerVars
  <2>2. QED
    BY <2>1 DEF TimersOK, WaitedForWhatIsGone, DueAreItsHandlers
<1>2. CASE Tick \/ BeginScan \/ ScanStep
  BY <1>2, TickKeeps, ScanKeeps
<1>3. CASE StateStep \/ \E e \in TimerEvents : TriggerEvent(e) \/ CancelEventTimers(e)
  BY <1>1, <1>3, RunScriptKeeps, CancelKeeps DEF StateStep, LookForScript, TakeCall, TimeOut, FinishCall, TriggerEvent
<1>4. CASE MonitorStep \/ \E f \in FileSet : Edit(f) \/ Delete(f)
  BY <1>1, <1>4 DEF MonitorStep, BeginPass, LookAtFile, ReadFile, AwaitScript, TriggerOnInit,
      TriggerOnFileChanged, Edit, Delete
<1>5. QED
  BY <1>2, <1>3, <1>4 DEF Next

-----------------------------------------------------------------------------
(* The state's thread and the monitor.                                     *)

\* Every step keeps the state's part.
LEMMA StateNext ==
    ASSUME QueueOK, StateOK, FilesOK, Next
    PROVE  StateOK'
<1>1. CASE UNCHANGED stateVars
  <2>1. UNCHANGED <<state, running, script, loaded>>
    BY <1>1 DEF stateVars
  <2>2. QED
    BY <2>1 DEF StateOK, ChunkIsThere
<1>2. CASE LookForScript \/ TimeOut
  BY <1>2 DEF LookForScript, TimeOut, StateOK, ChunkIsThere
<1>3. CASE RunScript
  <2>1. script \in 0..MaxInputs
    BY <1>3 DEF RunScript, StateOK, ChunkIsThere
  <2>2. QED
    BY <1>3, <2>1 DEF RunScript, StateOK, ChunkIsThere
<1>4. CASE TakeCall
  <2>1. Head(mStateFunctionQueue) \in Call
    BY <1>4 DEF TakeCall, QueueOK
  <2>2. running' \in Events
    BY <1>4, <2>1 DEF TakeCall, Call
  <2>3. QED
    BY <1>4, <2>2 DEF TakeCall, StateOK, ChunkIsThere
<1>5. CASE FinishCall
  BY <1>5 DEF FinishCall, StateOK, ChunkIsThere
<1>6. CASE ReadFile
  <2>1. UNCHANGED <<state, running, loaded>>
    BY <1>6 DEF ReadFile
  <2>2. script' = script \/ script' = content[LuaFile]
    BY <1>6 DEF ReadFile
  <2>3. content[LuaFile] \in 0..MaxInputs /\ content[LuaFile] # None
    <3>1. LuaFile \in FileSet /\ {Missing, None} \cap Nat = {} /\ MaxInputs \in Nat
      BY ConstantsAssumption
    <3>2. content[LuaFile] \in 0..MaxInputs
      BY <3>1 DEF FilesOK
    <3>3. QED
      BY <3>1, <3>2
  <2>4. QED
    BY <2>1, <2>2, <2>3 DEF StateOK, ChunkIsThere
<1>7. CASE Tick \/ BeginScan \/ ScanStep
  BY <1>1, <1>7 DEF Tick, BeginScan, ScanStep, SkipTimer, TimerExpires, EnqueueTimed, RevertReset
<1>8. CASE \E e \in TimerEvents : TriggerEvent(e) \/ CancelEventTimers(e)
  BY <1>1, <1>8 DEF TriggerEvent, CancelEventTimers
<1>9. CASE (MonitorStep /\ ~ReadFile) \/ \E f \in FileSet : Edit(f) \/ Delete(f)
  BY <1>1, <1>9 DEF MonitorStep, BeginPass, LookAtFile, AwaitScript, TriggerOnInit, TriggerOnFileChanged, Edit, Delete
<1>10. QED
  BY <1>2, <1>3, <1>4, <1>5, <1>6, <1>7, <1>8, <1>9 DEF Next, StateStep

\* Every step keeps the files' and the monitor's part.
LEMMA FilesNext ==
    ASSUME FilesOK, Next
    PROVE  FilesOK'
<1>1. CASE UNCHANGED <<fileVars, monitorVars>> /\ (inputs' = inputs \/ (inputs < MaxInputs /\ inputs' = inputs + 1))
  <2>1. UNCHANGED <<content, lastWrite, unseen, mFileTimes, ToRemove, file, monitor>>
    BY <1>1 DEF fileVars, monitorVars
  <2>2. inputs' \in 0..MaxInputs
    BY <1>1, ConstantsAssumption DEF FilesOK
  <2>3. QED
    BY <2>1, <2>2 DEF FilesOK
<1>2. /\ Len(Files) \in Nat /\ DOMAIN Files = 1..Len(Files) /\ MaxInputs \in Nat
      /\ inputs \in 0..MaxInputs /\ file \in 0..Len(Files)
  BY ConstantsAssumption DEF FilesOK
<1>3. ASSUME NextFile
      PROVE  file' \in 0..Len(Files) /\ monitor' = "look"
  <2>1. (file + 1) % (Len(Files) + 1) \in 0..Len(Files)
    <3>1. PICK n \in Nat : n = Len(Files)
      BY <1>2
    <3>2. PICK m \in Nat : m = file + 1
      BY <1>2
    <3>3. m % (n + 1) \in 0..n
      BY <3>1, <3>2
    <3>4. QED
      BY <3>1, <3>2, <3>3
  <2>2. QED
    BY <1>3, <2>1 DEF NextFile
<1>4. CASE MonitorStep
  <2>1. UNCHANGED <<content, lastWrite, unseen, inputs>>
    BY <1>4 DEF MonitorStep, BeginPass, LookAtFile, ReadFile, AwaitScript, TriggerOnInit, TriggerOnFileChanged, fileVars
  <2>2. CASE BeginPass
    <3>1. file' \in 0..Len(Files)
      <4>1. Len(Files) # 0
        BY <1>2, ConstantsAssumption DEF FileSet
      <4>2. QED
        BY <1>2, <2>2, <4>1 DEF BeginPass
    <3>2. QED
      BY <2>1, <2>2, <3>1 DEF BeginPass, FilesOK
  <2>3. CASE LookAtFile
    <3> DEFINE f == Files[file]
    <3>1. f \in FileSet
      BY <1>2, <2>3 DEF LookAtFile, FileSet
    <3>2. /\ DOMAIN mFileTimes' \subseteq FileSet
          /\ \A g \in DOMAIN mFileTimes' : mFileTimes'[g] \in 0..MaxInputs
      <4>1. CASE f \in DOMAIN mFileTimes /\ lastWrite[f] # Missing /\ lastWrite[f] > mFileTimes[f]
        <5>1. mFileTimes' = [mFileTimes EXCEPT ![f] = lastWrite[f]]
          BY <2>3, <4>1 DEF LookAtFile
        <5>2. lastWrite[f] \in 0..MaxInputs
          BY <3>1, <4>1 DEF FilesOK
        <5>3. QED
          BY <5>1, <5>2 DEF FilesOK
      <4>2. CASE ~(f \in DOMAIN mFileTimes /\ lastWrite[f] # Missing /\ lastWrite[f] > mFileTimes[f])
        BY <2>3, <4>2 DEF LookAtFile, FilesOK
      <4>3. QED
        BY <4>1, <4>2
    <3>3. ToRemove' \subseteq FileSet
      BY <2>3, <3>1 DEF LookAtFile, FilesOK
    <3>4. file' \in 0..Len(Files) /\ monitor' \in {"look", "read", "changed"}
      BY <1>2, <1>3, <2>3 DEF LookAtFile
    <3>5. QED
      BY <2>1, <3>2, <3>3, <3>4 DEF FilesOK
  <2>4. CASE ReadFile
    <3>1. UNCHANGED mFileTimes /\ LuaFile \in FileSet
      BY <2>4, ConstantsAssumption DEF ReadFile
    <3>2. ToRemove' \subseteq FileSet
      BY <2>4, <3>1 DEF ReadFile, FilesOK
    <3>3. file' \in 0..Len(Files) /\ monitor' \in {"look", "wait"}
      BY <1>2, <1>3, <2>4 DEF ReadFile
    <3>4. QED
      BY <2>1, <3>1, <3>2, <3>3 DEF FilesOK
  <2>5. CASE AwaitScript \/ TriggerOnInit \/ TriggerOnFileChanged
    <3>1. UNCHANGED <<mFileTimes, ToRemove>>
      BY <2>5 DEF AwaitScript, TriggerOnInit, TriggerOnFileChanged
    <3>2. file' \in 0..Len(Files) /\ monitor' \in {"look", "onInit", "changed"}
      BY <1>2, <1>3, <2>5 DEF AwaitScript, TriggerOnInit, TriggerOnFileChanged
    <3>3. QED
      BY <2>1, <3>1, <3>2 DEF FilesOK
  <2>6. QED
    BY <1>4, <2>2, <2>3, <2>4, <2>5 DEF MonitorStep
<1>5. ASSUME NEW f \in FileSet, Edit(f)
      PROVE  FilesOK'
  <2>1. UNCHANGED <<mFileTimes, ToRemove, file, monitor>>
    BY <1>5 DEF Edit, monitorVars
  <2>2. inputs' \in 0..MaxInputs /\ inputs + 1 \in 0..MaxInputs
    BY <1>2, <1>5 DEF Edit
  <2>3. content' \in [FileSet -> 0..MaxInputs]
    BY <1>5, <2>2 DEF Edit, FilesOK
  <2>4. PICK time : /\ time \in 0..(inputs + 1)
                    /\ lastWrite' = [lastWrite EXCEPT ![f] = time]
                    /\ unseen' = unseen \cup {f} \/ unseen' = unseen \ {f}
    BY <1>5 DEF Edit
  <2>5. time \in 0..MaxInputs
    BY <1>2, <2>2, <2>4
  <2>6. lastWrite' \in [FileSet -> 0..MaxInputs \cup {Missing}] /\ unseen' \subseteq FileSet
    BY <2>4, <2>5 DEF FilesOK
  <2>7. QED
    BY <2>1, <2>2, <2>3, <2>6 DEF FilesOK
<1>6. ASSUME NEW f \in FileSet, Delete(f)
      PROVE  FilesOK'
  <2>1. UNCHANGED <<content, unseen, mFileTimes, ToRemove, file, monitor>>
    BY <1>6 DEF Delete, monitorVars
  <2>2. inputs' \in 0..MaxInputs
    BY <1>2, <1>6 DEF Delete
  <2>3. lastWrite' \in [FileSet -> 0..MaxInputs \cup {Missing}]
    BY <1>6 DEF Delete, FilesOK
  <2>4. QED
    BY <2>1, <2>2, <2>3 DEF FilesOK
<1>7. CASE Tick \/ BeginScan \/ ScanStep
  BY <1>1, <1>7 DEF Tick, BeginScan, ScanStep, SkipTimer, TimerExpires, EnqueueTimed, RevertReset
<1>8. CASE StateStep \/ \E e \in TimerEvents : TriggerEvent(e) \/ CancelEventTimers(e)
  BY <1>1, <1>8 DEF StateStep, LookForScript, RunScript, TakeCall, TimeOut, FinishCall, TriggerEvent, CancelEventTimers
<1>9. QED
  BY <1>4, <1>5, <1>6, <1>7, <1>8 DEF Next

-----------------------------------------------------------------------------
(* The theorems.                                                           *)

\* A plugin that was just loaded satisfies the invariant.
LEMMA InitInv == Init => IndInv
<1> SUFFICES ASSUME Init PROVE IndInv
  OBVIOUS
<1>1. TimersOK
  <2>1. PICK s \in StrategyChoices : mTimedEvents = CreatedTimers(s)
    BY DEF Init
  <2>2. /\ mTimedEvents \in Seq(Timer) /\ Len(mTimedEvents) <= Cardinality(TimerEvents)
        /\ Cardinality(TimerEvents) \in Nat /\ WaitedForWhatIsGone
    BY <2>1, CreatedTimersType DEF WaitedForWhatIsGone
  <2>3. Len(mTimedEvents) <= MaxTimers /\ 0 \in 0..Len(mTimedEvents)
    BY <2>2, ConstantsAssumption
  <2>4. QED
    BY <2>2, <2>3 DEF Init, TimersOK, DueAreItsHandlers
<1>2. QueueOK
  BY DEF Init, QueueOK, NoTwo
<1>3. StateOK
  BY ConstantsAssumption DEF Init, StateOK, ChunkIsThere
<1>4. FilesOK
  <2>1. 0 \in 0..MaxInputs /\ 0 \in 0..Len(Files)
    BY ConstantsAssumption
  <2>2. QED
    BY <2>1 DEF Init, FilesOK
<1>5. QED
  BY <1>1, <1>2, <1>3, <1>4, Groups

\* Every step keeps it.
LEMMA StepInv == IndInv /\ [Next]_vars => IndInv'
<1> SUFFICES ASSUME IndInv, [Next]_vars PROVE IndInv'
  OBVIOUS
<1>1. TimersOK /\ QueueOK /\ StateOK /\ FilesOK
  BY Groups
<1>2. CASE Next
  <2>1. TimersOK' /\ QueueOK' /\ StateOK' /\ FilesOK'
    BY <1>1, <1>2, TimersNext, QueueNext, StateNext, FilesNext
  <2>2. QED
    BY <2>1, Groups, PTL
<1>3. CASE UNCHANGED vars
  BY <1>3 DEF vars, IndInv, TypeOK, OneCall, WaitedForWhatIsGone, DueAreItsHandlers, ChunkIsThere
<1>4. QED
  BY <1>2, <1>3

\* What every state of timers, queue and plugin monitor has in common: calls of
\* a refused kind are queued once, and what is due of a timer are its handlers
\* (TLuaEngine.cpp, TPluginMonitor.cpp).
THEOREM RuntimeInvariant == Spec => []IndInv
BY InitInv, StepInv, PTL DEF Spec

\* Two best-effort calls of an event would be two of its handlers.
LEMMA OneCallNeverStacks == OneCall => BestEffortNeverStacks
<1> SUFFICES ASSUME OneCall, NEW e \in TimerEvents
             PROVE  Cardinality({i \in DOMAIN mStateFunctionQueue :
                        mStateFunctionQueue[i].event = e /\ mStateFunctionQueue[i].by = "BestEffort"}) <= 1
  BY DEF BestEffortNeverStacks
<1> DEFINE S == {i \in DOMAIN mStateFunctionQueue :
                        mStateFunctionQueue[i].event = e /\ mStateFunctionQueue[i].by = "BestEffort"}
<1>1. \A x, y \in S : x = y
  BY DEF OneCall
<1> HIDE DEF S
<1>2. Cardinality(S) <= 1
  BY <1>1, AtMostOne
<1>3. QED
  BY <1>2 DEF S

\* Best-effort timers never have two calls of one event in the queue.
THEOREM NeverStacks == Spec => []BestEffortNeverStacks
<1>1. IndInv => BestEffortNeverStacks
  BY OneCallNeverStacks DEF IndInv
<1>2. QED
  BY <1>1, RuntimeInvariant, PTL

\* The first handler of a timer is queued when its period is over.
LEMMA FirstHandlerStep ==
    IndInv /\ [Next]_vars =>
        [\A i \in DOMAIN mTimedEvents :
            EnqueueTimed /\ scan = i /\ due = Handlers[mTimedEvents[i].event]
                => mTimedEvents[i].waited = Period]_vars
BY DEF IndInv, DueAreItsHandlers, EnqueueTimed

\* A timer's first handler is queued a period after it last was, or after the
\* timer was set back.
THEOREM EarlyOnlyThen == Spec => EarlyOnlyIfSetBack
BY RuntimeInvariant, FirstHandlerStep, PTL DEF Spec, EarlyOnlyIfSetBack
===============================================================================
