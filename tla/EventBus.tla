------------------------------- MODULE EventBus -------------------------------
(***************************************************************************)
(* What the Lua engine promises of its events: an event reaches every      *)
(* state that has a handler for it when it is triggered, once; and all     *)
(* states see the events they share in one order.  No locks, no threads.   *)
(***************************************************************************)
EXTENDS Naturals, Sequences

CONSTANTS States, Events

VARIABLES
    handlers,   \* the states that have a handler for an event
    inbox,      \* the events that a state has still to handle, the oldest first
    triggered   \* number of events triggered so far

Init ==
    /\ handlers = [e \in Events |-> {}]
    /\ inbox = [s \in States |-> << >>]
    /\ triggered = 0

Register(e, s) ==
    /\ handlers' = [handlers EXCEPT ![e] = @ \cup {s}]
    /\ UNCHANGED <<inbox, triggered>>

\* All handlers at once; at most one state, the one that triggers, is left out.
Trigger(e, ignored) ==
    /\ inbox' = [s \in States |->
                    IF s \in handlers[e] \ ignored THEN Append(inbox[s], triggered + 1) ELSE inbox[s]]
    /\ triggered' = triggered + 1
    /\ UNCHANGED handlers

Handle(s) ==
    /\ inbox[s] # << >>
    /\ inbox' = [inbox EXCEPT ![s] = Tail(@)]
    /\ UNCHANGED <<handlers, triggered>>

Next ==
    \E s \in States :
        \/ Handle(s)
        \/ \E e \in Events :
              Register(e, s) \/ Trigger(e, {}) \/ Trigger(e, {s})

Spec == Init /\ [][Next]_<<handlers, inbox, triggered>>
=============================================================================
