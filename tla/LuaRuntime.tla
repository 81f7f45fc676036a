------------------------------ MODULE LuaRuntime ------------------------------
(***************************************************************************)
(* One Lua state while the server runs: its timers, which the engine's     *)
(* thread scans, the calls that its own thread takes from the queue, and   *)
(* the plugin monitor, which reloads a file of the plugin when it changes. *)
(*                                                                         *)
(* A handler can cancel a timer; a reloaded file creates its timers again. *)
(* The scan holds mTimedEventsMutex, so that neither happens within one,   *)
(* but between two handlers of a timer the state's thread can take a call. *)
(***************************************************************************)
EXTENDS Naturals, Sequences, SequencesExt, FiniteSets

CONSTANTS
    Handlers,       \* for each event the functions registered for it, in the order of their names
    TimerEvents,    \* events that the plugin's file creates timers for
    Strategies,     \* for each of them the strategies it may ask for
    Period,         \* a timer's interval, in ticks of the clock
    Files,          \* files in the plugin's folder, in the order of mFileTimes
    LuaFile,        \* the one of them that defines the plugin; the others only raise onFileChanged
    None,
    Missing,        \* the modification time of a file that is not there
    MaxQueue,       \* bound: calls in the queue when time passes
    MaxTimers,      \* bound: timers, which every reload adds to
    MaxInputs       \* bound: changes of files and events triggered

Events == DOMAIN Handlers
Functions == UNION {{Handlers[e][i] : i \in DOMAIN Handlers[e]} : e \in Events}
FileSet == {Files[i] : i \in DOMAIN Files}

ASSUME ConstantsAssumption ==
    /\ {"onInit", "onFileChanged"} \subseteq Events
    /\ \A e \in Events : Handlers[e] \in Seq(Functions)
    /\ TimerEvents \subseteq Events /\ IsFiniteSet(TimerEvents)
    /\ \A e \in TimerEvents : Strategies[e] \subseteq {"BestEffort", "Precise"}
    /\ Period \in Nat \ {0}
    /\ Files \in Seq(FileSet) /\ IsInjective(Files) /\ LuaFile \in FileSet
    /\ {Missing, None} \cap Nat = {} /\ None \notin {"BestEffort", "Precise"}
    /\ MaxInputs \in Nat
    /\ MaxTimers \in Nat /\ Cardinality(TimerEvents) <= MaxTimers

VARIABLES
    mTimedEvents,           \* sequence of timers
    mStateFunctionQueue,    \* sequence of calls
    scan,           \* the timer the scan is at; 0 when the engine does not hold mTimedEventsMutex
    due,            \* the handlers of that timer that it has still to queue
    state,          \* what the state's thread is doing
    running,        \* the event of the call it is at
    script,         \* the chunk queued for it, or the one it runs: there is one, the monitor waits for it
    content,        \* every file's content, as the number of the input that made it
    loaded,         \* the content of LuaFile that the state ran last
    lastWrite,      \* every file's modification time
    mFileTimes,     \* the times the monitor knows, of the files it watches
    ToRemove,       \* files it failed to read in this pass
    file,           \* the file it is at in this pass; 0 while it sleeps
    monitor,        \* what it is doing with that file
    inputs,         \* changes of files and events triggered so far
    unseen          \* history: files whose last change brought no later time than the monitor knows

timerVars == <<mTimedEvents, scan, due>>
stateVars == <<state, running, script, loaded>>
fileVars == <<content, lastWrite, unseen>>
monitorVars == <<mFileTimes, ToRemove, file, monitor>>
vars == <<mTimedEvents, mStateFunctionQueue, scan, due, state, running, script, content, loaded,
          lastWrite, mFileTimes, ToRemove, file, monitor, inputs, unseen>>

\* left: ticks until it expires.  waited: history, ticks since the first of its
\* handlers was last queued, counted up to Period; all of Period once it was set
\* back.  by: the strategy of the timer that queued a call.
Timer == [event: TimerEvents, strategy: {"BestEffort", "Precise"}, left: 0..Period, waited: 0..Period]
Call == [event: Events, function: Functions, by: {"BestEffort", "Precise", None}]

TypeOK ==
    /\ mTimedEvents \in Seq(Timer) /\ Len(mTimedEvents) <= MaxTimers
    /\ mStateFunctionQueue \in Seq(Call)
    /\ scan \in 0..Len(mTimedEvents)
    /\ due \in Seq(Functions)
    /\ state \in {"scripts", "chunk", "functions", "call"}
    /\ running \in Events \cup {None}
    /\ script \in 0..MaxInputs \cup {None}
    /\ content \in [FileSet -> 0..MaxInputs] /\ loaded \in 0..MaxInputs
    /\ lastWrite \in [FileSet -> 0..MaxInputs \cup {Missing}]
    /\ DOMAIN mFileTimes \subseteq FileSet /\ \A f \in DOMAIN mFileTimes : mFileTimes[f] \in 0..MaxInputs
    /\ ToRemove \subseteq FileSet
    /\ file \in 0..Len(Files)
    /\ monitor \in {"look", "read", "wait", "onInit", "changed"}
    /\ inputs \in 0..MaxInputs
    /\ unseen \subseteq FileSet

NewTimer(e, strategy) == [event |-> e, strategy |-> strategy, left |-> Period, waited |-> 0]

\* The timers that one run of the plugin's file creates.
CreatedTimers(strategies) == SetToSeq({NewTimer(e, strategies[e]) : e \in TimerEvents})

StrategyChoices == {s \in [TimerEvents -> {"BestEffort", "Precise"}] : \A e \in TimerEvents : s[e] \in Strategies[e]}

\* The plugins are loaded and onInit was called before the engine's loop begins.
Init ==
    /\ \E s \in StrategyChoices : mTimedEvents = CreatedTimers(s)
    /\ mStateFunctionQueue = << >>
    /\ scan = 0
    /\ due = << >>
    /\ state = "scripts"
    /\ running = None
    /\ script = None
    /\ content = [f \in FileSet |-> 0]
    /\ loaded = 0
    /\ lastWrite = [f \in FileSet |-> 0]
    /\ mFileTimes = [f \in FileSet |-> 0]
    /\ ToRemove = {}
    /\ file = 0
    /\ monitor = "look"
    /\ inputs = 0
    /\ unseen = {}

-----------------------------------------------------------------------------
(* The engine's loop over mTimedEvents.                                    *)

\* Queueing a timer's handlers takes no time that its interval would notice.
\* The bound keeps precise timers from filling the queue of a slow state.
Tick ==
    /\ due = << >>
    /\ Len(mStateFunctionQueue) < MaxQueue
    /\ mTimedEvents' = [i \in DOMAIN mTimedEvents |->
            [mTimedEvents[i] EXCEPT !.left = IF @ = 0 THEN 0 ELSE @ - 1,
                                    !.waited = IF @ = Period THEN Period ELSE @ + 1]]
    /\ mTimedEvents' # mTimedEvents
    /\ UNCHANGED <<mStateFunctionQueue, scan, due, stateVars, fileVars, inputs, monitorVars>>

BeginScan ==
    /\ scan = 0
    /\ mTimedEvents # << >>
    /\ scan' = 1
    /\ UNCHANGED <<mTimedEvents, due, mStateFunctionQueue, stateVars, fileVars, inputs, monitorVars>>

\* On to the next timer, or out of the scan.
NextTimer == scan' = IF scan = Len(mTimedEvents) THEN 0 ELSE scan + 1

SkipTimer ==
    /\ scan # 0 /\ due = << >>
    /\ mTimedEvents[scan].left > 0
    /\ NextTimer
    /\ UNCHANGED <<mTimedEvents, due, mStateFunctionQueue, stateVars, fileVars, inputs, monitorVars>>

\* Mutant of TimerExpires: Reset is forgotten.
TimerExpires_NoReset ==
    /\ scan # 0 /\ due = << >>
    /\ mTimedEvents[scan].left = 0
    /\ due' = Handlers[mTimedEvents[scan].event]
    /\ UNCHANGED <<mTimedEvents, scan, mStateFunctionQueue, stateVars, fileVars, inputs, monitorVars>>

\* Mutant of TimerExpires: the handlers are those of another state.
TimerExpires_WrongState ==
    /\ scan # 0 /\ due = << >>
    /\ mTimedEvents[scan].left = 0
    /\ mTimedEvents' = [mTimedEvents EXCEPT ![scan].left = Period]
    /\ UNCHANGED <<scan, due, mStateFunctionQueue, stateVars, fileVars, inputs, monitorVars>>

TimerExpires ==
    /\ scan # 0 /\ due = << >>
    /\ mTimedEvents[scan].left = 0
    /\ mTimedEvents' = [mTimedEvents EXCEPT ![scan].left = Period]
    /\ due' = Handlers[mTimedEvents[scan].event]
    /\ UNCHANGED <<scan, mStateFunctionQueue, stateVars, fileVars, inputs, monitorVars>>

\* Mutant of Refused: the queue is searched for the function, not for the event.
Refused_ByFunction(t, function) ==
    /\ t.strategy = "BestEffort"
    /\ \E i \in DOMAIN mStateFunctionQueue : mStateFunctionQueue[i].function = function

\* EnqueueFunctionCallFromCustomEvent finds the event in the queue.
Refused(t, function) ==
    /\ t.strategy = "BestEffort"
    /\ \E i \in DOMAIN mStateFunctionQueue : mStateFunctionQueue[i].event = t.event

EnqueueTimed ==
    /\ due # << >>
    /\ LET t == mTimedEvents[scan]
       IN  /\ ~Refused(t, Head(due))
           /\ mStateFunctionQueue' = Append(mStateFunctionQueue,
                    [event |-> t.event, function |-> Head(due), by |-> t.strategy])
           /\ mTimedEvents' = IF due = Handlers[t.event] THEN [mTimedEvents EXCEPT ![scan].waited = 0]
                                                         ELSE mTimedEvents
    /\ due' = Tail(due)
    /\ IF Len(due) = 1 THEN NextTimer ELSE UNCHANGED scan
    /\ UNCHANGED <<stateVars, fileVars, inputs, monitorVars>>

\* The timer is as it was before Reset, expired; its other handlers are left out.
RevertReset ==
    /\ due # << >>
    /\ Refused(mTimedEvents[scan], Head(due))
    /\ mTimedEvents' = [mTimedEvents EXCEPT ![scan].left = 0, ![scan].waited = Period]
    /\ due' = << >>
    /\ NextTimer
    /\ UNCHANGED <<mStateFunctionQueue, stateVars, fileVars, inputs, monitorVars>>

ScanStep == SkipTimer \/ TimerExpires \/ EnqueueTimed \/ RevertReset

-----------------------------------------------------------------------------
(* Calls: what others queue, and what the state's thread does.             *)

CallsOf(e) == [i \in DOMAIN Handlers[e] |-> [event |-> e, function |-> Handlers[e][i], by |-> None]]

\* TriggerEvent by a client's thread or by another plugin.
TriggerEvent(e) ==
    /\ inputs < MaxInputs
    /\ inputs' = inputs + 1
    /\ mStateFunctionQueue' = mStateFunctionQueue \o CallsOf(e)
    /\ UNCHANGED <<timerVars, stateVars, fileVars, monitorVars>>

LookForScript ==
    /\ state = "scripts"
    /\ state' = IF script # None THEN "chunk" ELSE "functions"
    /\ UNCHANGED <<running, script, loaded, timerVars, mStateFunctionQueue, fileVars, inputs, monitorVars>>

\* The file's code creates its timers, a second time if nobody cancelled them;
\* a chunk that fails may have created none.
RunScript ==
    /\ state = "chunk"
    /\ \/ /\ scan = 0
          /\ Len(mTimedEvents) + Cardinality(TimerEvents) <= MaxTimers
          /\ \E s \in StrategyChoices : mTimedEvents' = mTimedEvents \o CreatedTimers(s)
       \/ UNCHANGED mTimedEvents
    /\ loaded' = script
    /\ script' = None
    /\ state' = "functions"
    /\ UNCHANGED <<scan, due, running, mStateFunctionQueue, fileVars, inputs, monitorVars>>

TakeCall ==
    /\ state = "functions"
    /\ mStateFunctionQueue # << >>
    /\ running' = Head(mStateFunctionQueue).event
    /\ mStateFunctionQueue' = Tail(mStateFunctionQueue)
    /\ state' = "call"
    /\ UNCHANGED <<script, loaded, timerVars, fileVars, inputs, monitorVars>>

TimeOut ==
    /\ state = "functions"
    /\ mStateFunctionQueue = << >>
    /\ state' = "scripts"
    /\ UNCHANGED <<running, script, loaded, timerVars, mStateFunctionQueue, fileVars, inputs, monitorVars>>

\* A handler may cancel the timers of an event; calls in the queue stay there.
CancelEventTimers(e) ==
    /\ state = "call"
    /\ scan = 0
    /\ LET kept == {i \in DOMAIN mTimedEvents : mTimedEvents[i].event # e}
       IN  \E place \in [1..Cardinality(kept) -> kept] :
              /\ \A i, j \in DOMAIN place : i < j => place[i] < place[j]
              /\ mTimedEvents' = [i \in DOMAIN place |-> mTimedEvents[place[i]]]
    /\ UNCHANGED <<scan, due, mStateFunctionQueue, stateVars, fileVars, inputs, monitorVars>>

FinishCall ==
    /\ state = "call"
    /\ running' = None
    /\ state' = "scripts"
    /\ UNCHANGED <<script, loaded, timerVars, mStateFunctionQueue, fileVars, inputs, monitorVars>>

StateStep == LookForScript \/ RunScript \/ TakeCall \/ TimeOut \/ FinishCall

-----------------------------------------------------------------------------
(* The plugin monitor.                                                     *)

\* A file is written, with one time for two writes within the granularity of the
\* clock, or replaced by one that keeps its own, older time: copied, unpacked,
\* moved back.
Edit(f) ==
    /\ inputs < MaxInputs
    /\ inputs' = inputs + 1
    /\ content' = [content EXCEPT ![f] = inputs + 1]
    /\ \E time \in 0..(inputs + 1) :
          /\ lastWrite' = [lastWrite EXCEPT ![f] = time]
          /\ unseen' = IF f \in DOMAIN mFileTimes /\ time <= mFileTimes[f]
                       THEN unseen \cup {f} ELSE unseen \ {f}
    /\ UNCHANGED <<timerVars, mStateFunctionQueue, stateVars, monitorVars>>

Delete(f) ==
    /\ inputs < MaxInputs
    /\ lastWrite[f] # Missing
    /\ inputs' = inputs + 1
    /\ lastWrite' = [lastWrite EXCEPT ![f] = Missing]
    /\ UNCHANGED <<content, unseen, timerVars, mStateFunctionQueue, stateVars, monitorVars>>

\* After the sleep the files that failed are no longer watched, for good.
BeginPass ==
    /\ file = 0
    /\ mFileTimes' = [f \in DOMAIN mFileTimes \ ToRemove |-> mFileTimes[f]]
    /\ ToRemove' = {}
    /\ file' = 1
    /\ monitor' = "look"
    /\ UNCHANGED <<timerVars, mStateFunctionQueue, stateVars, fileVars, inputs>>

NextFile ==
    /\ file' = (file + 1) % (Len(Files) + 1)
    /\ monitor' = "look"

LookAtFile ==
    /\ file # 0 /\ monitor = "look"
    /\ LET f == Files[file]
       IN  IF f \in DOMAIN mFileTimes /\ lastWrite[f] # Missing /\ lastWrite[f] > mFileTimes[f]
           THEN /\ mFileTimes' = [mFileTimes EXCEPT ![f] = lastWrite[f]]
                /\ monitor' = IF f = LuaFile THEN "read" ELSE "changed"
                /\ UNCHANGED <<ToRemove, file>>
           ELSE /\ NextFile
                /\ ToRemove' = IF f \in DOMAIN mFileTimes /\ lastWrite[f] = Missing
                               THEN ToRemove \cup {f} ELSE ToRemove
                /\ UNCHANGED mFileTimes
    /\ UNCHANGED <<timerVars, mStateFunctionQueue, stateVars, fileVars, inputs>>

\* file_size throws when the file is gone by now.
ReadFile ==
    /\ monitor = "read"
    /\ IF lastWrite[LuaFile] # Missing
       THEN /\ script' = content[LuaFile]
            /\ monitor' = "wait"
            /\ UNCHANGED <<ToRemove, file>>
       ELSE /\ ToRemove' = ToRemove \cup {LuaFile}
            /\ NextFile
            /\ UNCHANGED script
    /\ UNCHANGED <<mFileTimes, state, running, loaded, timerVars, mStateFunctionQueue, fileVars, inputs>>

\* Mutant of AwaitScript: the file's time is noted when the script has run.
AwaitScript_NotesTime ==
    /\ monitor = "wait"
    /\ script = None
    /\ mFileTimes' = [mFileTimes EXCEPT ![LuaFile] = IF lastWrite[LuaFile] = Missing THEN @ ELSE lastWrite[LuaFile]]
    /\ \/ monitor' = "onInit" /\ UNCHANGED file
       \/ NextFile
    /\ UNCHANGED <<ToRemove, timerVars, mStateFunctionQueue, stateVars, fileVars, inputs>>

\* Nothing is triggered when the chunk failed.
AwaitScript ==
    /\ monitor = "wait"
    /\ script = None
    /\ \/ monitor' = "onInit" /\ UNCHANGED file
       \/ NextFile
    /\ UNCHANGED <<mFileTimes, ToRemove, timerVars, mStateFunctionQueue, stateVars, fileVars, inputs>>

TriggerOnInit ==
    /\ monitor = "onInit"
    /\ mStateFunctionQueue' = mStateFunctionQueue \o CallsOf("onInit")
    /\ monitor' = "changed"
    /\ UNCHANGED <<mFileTimes, ToRemove, file, timerVars, stateVars, fileVars, inputs>>

TriggerOnFileChanged ==
    /\ monitor = "changed"
    /\ mStateFunctionQueue' = mStateFunctionQueue \o CallsOf("onFileChanged")
    /\ NextFile
    /\ UNCHANGED <<mFileTimes, ToRemove, timerVars, stateVars, fileVars, inputs>>

MonitorStep ==
    BeginPass \/ LookAtFile \/ ReadFile \/ AwaitScript \/ TriggerOnInit \/ TriggerOnFileChanged

-----------------------------------------------------------------------------
Next ==
    \/ Tick \/ BeginScan \/ ScanStep
    \/ \E e \in TimerEvents : TriggerEvent(e)
    \/ StateStep
    \/ \E e \in TimerEvents : CancelEventTimers(e)
    \/ MonitorStep
    \/ \E f \in FileSet : Edit(f) \/ Delete(f)

Spec == Init /\ [][Next]_vars

\* The clock and the threads go on; a handler returns.  Nobody must trigger an
\* event, cancel a timer or change a file.  The clock's fairness is strong because
\* the model, not the machine, stops the clock now and then.
FairSpec ==
    /\ Spec
    /\ SF_vars(Tick)
    /\ WF_vars(BeginScan)
    /\ WF_vars(ScanStep)
    /\ WF_vars(StateStep)
    /\ WF_vars(MonitorStep)

-----------------------------------------------------------------------------
(* Properties.                                                             *)

\* Best-effort timers do not pile up calls: of those they queued for an event at
\* most one is in the queue, however slow the state's thread is, how many handlers
\* the event has and how often a reload created the timer.
BestEffortNeverStacks ==
    \A e \in TimerEvents :
        Cardinality({i \in DOMAIN mStateFunctionQueue :
                        mStateFunctionQueue[i].event = e /\ mStateFunctionQueue[i].by = "BestEffort"}) <= 1

\* The first handler of a timer is not queued before a whole period has passed
\* since it last was, except when a refused call has set the timer back: it is
\* tried again at once, and with a second handler, refused because the first is
\* in the queue, the first runs too often.
EarlyOnlyIfSetBack ==
    [][\A i \in DOMAIN mTimedEvents :
          EnqueueTimed /\ scan = i /\ due = Handlers[mTimedEvents[i].event]
              => mTimedEvents[i].waited = Period]_vars

\* The inductive invariant behind the two: of best-effort calls of one event no
\* two are queued; a timer has waited for as much of its period as is not left;
\* while its handlers are queued its time stands still.
OneCall ==
    \A i, j \in DOMAIN mStateFunctionQueue :
        /\ mStateFunctionQueue[i].by = "BestEffort" /\ mStateFunctionQueue[j].by = "BestEffort"
        /\ mStateFunctionQueue[i].event = mStateFunctionQueue[j].event
        => i = j

WaitedForWhatIsGone ==
    \A i \in DOMAIN mTimedEvents : mTimedEvents[i].left + mTimedEvents[i].waited >= Period

DueAreItsHandlers ==
    due # << >> =>
        /\ scan # 0
        /\ mTimedEvents[scan].left = Period
        /\ Len(due) <= Len(Handlers[mTimedEvents[scan].event])
        /\ due = Handlers[mTimedEvents[scan].event] => mTimedEvents[scan].waited = Period

ChunkIsThere == state = "chunk" => script # None

IndInv == TypeOK /\ OneCall /\ WaitedForWhatIsGone /\ DueAreItsHandlers /\ ChunkIsThere

\* A timer's event is called again and again until a handler cancels it.
TimersRun ==
    \A e \in TimerEvents :
        (\E i \in DOMAIN mTimedEvents : mTimedEvents[i].event = e)
            ~> (running = e \/ \A i \in DOMAIN mTimedEvents : mTimedEvents[i].event # e)

\* The content of a watched file that is there is the one the state ran last,
\* in the end - unless its last change brought the time that the monitor had
\* noted already or an older one (TPluginMonitor.cpp:56).
LastEditIsLoaded ==
    []<>(\/ loaded = content[LuaFile]
         \/ lastWrite[LuaFile] = Missing \/ LuaFile \notin DOMAIN mFileTimes
         \/ LuaFile \in unseen)
=============================================================================
