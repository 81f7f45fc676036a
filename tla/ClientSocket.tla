----------------------------- MODULE ClientSocket -----------------------------
(***************************************************************************)
(* The TCP socket of one client and everybody who uses it: the client's    *)
(* own thread (TNetwork::TCPClient: receive, parse, answer), its Looper    *)
(* thread (writes the queued packets) and any number of other threads      *)
(* (plugins that answer or kick, the PPS monitor's time-out, broadcasts).  *)
(*                                                                         *)
(* There is no lock around the socket.  A thread that finds it broken      *)
(* calls TClient::Disconnect, whose compare-and-swap picks one winner to   *)
(* shut it down, close it and mark the client Disconnected, in three       *)
(* further steps.                                                          *)
(***************************************************************************)
EXTENDS Naturals, Sequences

CONSTANTS
    Others,     \* threads other than the client's own two
    Receiver,   \* the thread of TCPClient
    Looper,     \* the QueueSync thread
    MaxQueue    \* bound: packets waiting in the queue at a time

ASSUME ThreadsAssumption ==
    /\ Receiver # Looper
    /\ Receiver \notin Others
    /\ Looper \notin Others
    /\ MaxQueue \in Nat

VARIABLES
    mDisconnectState,   \* EDisconnectState
    isOpen,             \* mSocket.is_open()
    isShut,             \* mSocket.shutdown has been called
    closes,             \* history: calls of mSocket.close
    peer,               \* whether the peer still has its end of the connection
    sync,               \* IsSyncing and IsSynced: "neither", "syncing" or "synced"
    queue,              \* MissedPacketQueueSize
    pc,                 \* every thread's step
    stack,              \* and the steps its calls return to
    partial,            \* threads that have written a part of a frame
    torn                \* history: a frame was written into the middle of another

socket == <<mDisconnectState, isOpen, isShut, closes>>
frames == <<partial, torn>>
control == <<pc, stack>>
vars == <<mDisconnectState, isOpen, isShut, closes, peer, sync, queue, pc, stack, partial, torn>>

Threads == Others \cup {Receiver, Looper}

DisconnectStates == {"Connected", "Disconnecting", "Disconnected"}
Closing == {"shutdown", "close", "store"}
Writing == {"write", "rest"}
ReceiverSteps == {"loop", "recv", "read", "parse", "startSync", "snapshot", "leave", "join", "done"}
LooperSteps == {"check", "next", "clear", "done"}
Steps == {"cas", "idle"} \cup Closing \cup Writing \cup ReceiverSteps \cup LooperSteps

\* The steps that a thread in TCPSend or in Disconnect may still return to.
SendStacks ==
    {<<"idle">>, <<"cas", "idle">>, <<"loop">>, <<"cas", "loop">>, <<"startSync">>,
     <<"snapshot">>, <<"cas", "cas", "leave">>, <<"next">>}
DisconnectStacks ==
    {<<"idle">>, <<"cas", "idle">>, <<"loop">>, <<"cas", "loop">>, <<"snapshot">>, <<"leave">>,
     <<"cas", "leave">>, <<"cas", "cas", "leave">>, <<"join">>, <<"clear">>, <<"cas", "clear">>}
Stacks == SendStacks \cup DisconnectStacks \cup {<< >>}

TypeOK ==
    /\ mDisconnectState \in DisconnectStates
    /\ isOpen \in BOOLEAN
    /\ isShut \in BOOLEAN
    /\ closes \in Nat
    /\ peer \in {"there", "gone"}
    /\ sync \in {"neither", "syncing", "synced"}
    /\ queue \in 0..MaxQueue
    /\ pc \in [Threads -> Steps]
    /\ stack \in [Threads -> Stacks]
    /\ partial \subseteq Threads
    /\ torn \in BOOLEAN

-----------------------------------------------------------------------------

Init ==
    /\ mDisconnectState = "Connected"
    /\ isOpen = TRUE
    /\ isShut = FALSE
    /\ closes = 0
    /\ peer = "there"
    /\ sync = "neither"
    /\ queue = 0
    /\ pc = [t \in Threads |->
                IF t = Receiver THEN "loop" ELSE IF t = Looper THEN "check" ELSE "idle"]
    /\ stack = [t \in Threads |-> << >>]
    /\ partial = {}
    /\ torn = FALSE

IsDisconnected == mDisconnectState # "Connected"

Goto(t, step) == pc' = [pc EXCEPT ![t] = step] /\ UNCHANGED stack

\* A call: the thread goes to a step of the callee, which returns to the steps
\* of `cont`, one after the other.
Call(t, step, cont) ==
    /\ pc' = [pc EXCEPT ![t] = step]
    /\ stack' = [stack EXCEPT ![t] = cont]

Return(t) == Call(t, Head(stack[t]), Tail(stack[t]))

-----------------------------------------------------------------------------
(* TClient::Disconnect.                                                    *)

\* Mutant of CompareExchange: the state is tested but not set.
CompareExchange_TestOnly(t) ==
    /\ pc[t] = "cas"
    /\ IF mDisconnectState = "Connected" THEN Goto(t, "shutdown") ELSE Return(t)
    /\ UNCHANGED <<socket, peer, sync, queue, frames>>

CompareExchange(t) ==
    /\ pc[t] = "cas"
    /\ IF mDisconnectState = "Connected"
       THEN mDisconnectState' = "Disconnecting" /\ Goto(t, "shutdown")
       ELSE UNCHANGED mDisconnectState /\ Return(t)
    /\ UNCHANGED <<isOpen, isShut, closes, peer, sync, queue, frames>>

Shutdown(t) ==
    /\ pc[t] = "shutdown"
    /\ IF isOpen
       THEN isShut' = TRUE /\ Goto(t, "close")
       ELSE UNCHANGED isShut /\ Goto(t, "store")
    /\ UNCHANGED <<mDisconnectState, isOpen, closes, peer, sync, queue, frames>>

Close(t) ==
    /\ pc[t] = "close"
    /\ isOpen' = FALSE
    /\ closes' = closes + 1
    /\ Goto(t, "store")
    /\ UNCHANGED <<mDisconnectState, isShut, peer, sync, queue, frames>>

Store(t) ==
    /\ pc[t] = "store"
    /\ mDisconnectState' = "Disconnected"
    /\ Return(t)
    /\ UNCHANGED <<isOpen, isShut, closes, peer, sync, queue, frames>>

Disconnect(t) == CompareExchange(t) \/ Shutdown(t) \/ Close(t) \/ Store(t)

-----------------------------------------------------------------------------
(* TNetwork::TCPSend.  The frame (header and data) goes out in one piece or *)
(* in several, as the peer has room for it.                                *)

\* Whether a thread's read or write ends with an error.  Closing a socket does
\* not wake a thread that is blocked in it; shutting it down does.
Broken(t) == isShut \/ peer = "gone" \/ (pc[t] = "write" /\ ~isOpen)

\* TCPSend(c, Data) with IsSync = FALSE: while the client is syncing the packet
\* is queued, or dropped if it is of another kind, and the call succeeds.
SendWhileSyncing(t) ==
    /\ pc[t] = "write"
    /\ t \in Others
    /\ sync = "syncing"
    /\ \E kept \in {0, 1} : queue + kept <= MaxQueue /\ queue' = queue + kept
    /\ Return(t)
    /\ UNCHANGED <<socket, peer, sync, frames>>

WritesNow(t) == ~(t \in Others /\ sync = "syncing")

WriteWhole(t) ==
    /\ pc[t] = "write"
    /\ WritesNow(t)
    /\ ~Broken(t)
    /\ torn' = (torn \/ partial # {})
    /\ Return(t)
    /\ UNCHANGED <<socket, peer, sync, queue, partial>>

WritePart(t) ==
    /\ pc[t] = "write"
    /\ WritesNow(t)
    /\ ~Broken(t)
    /\ torn' = (torn \/ partial # {})
    /\ partial' = partial \cup {t}
    /\ Goto(t, "rest")
    /\ UNCHANGED <<socket, peer, sync, queue>>

WriteRest(t) ==
    /\ pc[t] = "rest"
    /\ ~Broken(t)
    /\ partial' = partial \ {t}
    /\ Return(t)
    /\ UNCHANGED <<socket, peer, sync, queue, torn>>

\* What a caller does once TCPSend has returned false: the Looper calls
\* DisconnectClient again and clears the queue, SyncClient gives up if it was
\* only starting, and everybody else ignores it.
AfterFailure(t) ==
    IF t = Looper THEN <<"cas", "clear">>
    ELSE IF stack[t] = <<"startSync">> THEN <<"loop">>
    ELSE stack[t]

\* The error path calls DisconnectClient and then returns false.
WriteFails(t) ==
    /\ pc[t] \in Writing
    /\ pc[t] = "write" => WritesNow(t)
    /\ Broken(t)
    /\ partial' = partial \ {t}
    /\ Call(t, "cas", AfterFailure(t))
    /\ UNCHANGED <<socket, peer, sync, queue, torn>>

TCPSend(t) ==
    \/ SendWhileSyncing(t) \/ WriteWhole(t) \/ WritePart(t) \/ WriteRest(t) \/ WriteFails(t)

-----------------------------------------------------------------------------
(* The client's own thread: TNetwork::TCPClient after OnConnect.           *)

Idle == <<socket, peer, sync, queue, frames>>

LoopCheck ==
    /\ pc[Receiver] = "loop"
    /\ Goto(Receiver, IF IsDisconnected THEN "leave" ELSE "recv")
    /\ UNCHANGED Idle

\* TCPRcv returns nothing at once if the client is disconnected, and TCPClient
\* then disconnects it once more and leaves the loop.
RecvCheck ==
    /\ pc[Receiver] = "recv"
    /\ IF IsDisconnected THEN Call(Receiver, "cas", <<"leave">>) ELSE Goto(Receiver, "read")
    /\ UNCHANGED Idle

\* A packet arrives; peer = "gone" means that there is nothing left to receive.
ReadPacket ==
    /\ pc[Receiver] = "read"
    /\ ~Broken(Receiver)
    /\ Goto(Receiver, "parse")
    /\ UNCHANGED Idle

\* A header out of range: ClientKick, and then TCPClient's own DisconnectClient.
ReadBadHeader ==
    /\ pc[Receiver] = "read"
    /\ ~Broken(Receiver)
    /\ Call(Receiver, "write", <<"cas", "cas", "leave">>)
    /\ UNCHANGED Idle

\* Mutant of ReadFails: the receive error is not acted upon.
ReadFails_Retries ==
    /\ pc[Receiver] = "read"
    /\ Broken(Receiver)
    /\ Goto(Receiver, "loop")
    /\ UNCHANGED Idle

ReadFails ==
    /\ pc[Receiver] = "read"
    /\ Broken(Receiver)
    /\ Call(Receiver, "cas", <<"leave">>)
    /\ UNCHANGED Idle

\* GlobalParser: nothing for this client; an answer; an exception; a packet that
\* does not decompress (ClientKick); or 'H', which starts SyncClient.
ParsePacket ==
    /\ pc[Receiver] = "parse"
    /\ \/ Goto(Receiver, "loop")
       \/ Call(Receiver, "write", <<"loop">>)
       \/ Call(Receiver, "cas", <<"leave">>)
       \/ Call(Receiver, "write", <<"cas", "loop">>)
       \/ sync # "synced" /\ Call(Receiver, "write", <<"startSync">>)
    /\ UNCHANGED Idle

\* 'p': the player list is queued, whatever the client's state.
ParsePing ==
    /\ pc[Receiver] = "parse"
    /\ queue < MaxQueue
    /\ queue' = queue + 1
    /\ Goto(Receiver, "loop")
    /\ UNCHANGED <<socket, peer, sync, frames>>

StartSync ==
    /\ pc[Receiver] = "startSync"
    /\ sync' = "syncing"
    /\ Goto(Receiver, "snapshot")
    /\ UNCHANGED <<socket, peer, queue, frames>>

\* The next vehicle of the others, written past the queue (IsSync).
SnapshotVehicle ==
    /\ pc[Receiver] = "snapshot"
    /\ ~IsDisconnected
    /\ Call(Receiver, "write", <<"snapshot">>)
    /\ UNCHANGED Idle

\* Disconnected before the next vehicle: neither syncing nor synced any more.
SnapshotAborted ==
    /\ pc[Receiver] = "snapshot"
    /\ IsDisconnected
    /\ sync' = "neither"
    /\ Goto(Receiver, "loop")
    /\ UNCHANGED <<socket, peer, queue, frames>>

SnapshotDone ==
    /\ pc[Receiver] = "snapshot"
    /\ sync' = "synced"
    /\ Goto(Receiver, "loop")
    /\ UNCHANGED <<socket, peer, queue, frames>>

\* OnDisconnect tells the others, calls DisconnectClient and RemoveClient.
Leave ==
    /\ pc[Receiver] = "leave"
    /\ Call(Receiver, "cas", <<"join">>)
    /\ UNCHANGED Idle

\* The destructor of QueueSync waits for the Looper.
Join ==
    /\ pc[Receiver] = "join"
    /\ pc[Looper] = "done"
    /\ Goto(Receiver, "done")
    /\ UNCHANGED Idle

ReceiverStep ==
    \/ LoopCheck \/ RecvCheck \/ ReadFails \/ ParsePacket \/ ParsePing
    \/ StartSync \/ SnapshotVehicle \/ SnapshotAborted \/ SnapshotDone \/ Leave \/ Join

-----------------------------------------------------------------------------
(* TNetwork::Looper.                                                       *)

\* Mutant of LooperEnds: the loop ends only with its queue empty.
LooperEnds_DrainFirst ==
    /\ pc[Looper] = "check"
    /\ IsDisconnected
    /\ queue = 0
    /\ Goto(Looper, "done")
    /\ UNCHANGED Idle

LooperEnds ==
    /\ pc[Looper] = "check"
    /\ IsDisconnected
    /\ Goto(Looper, "done")
    /\ UNCHANGED Idle

LooperStarts ==
    /\ pc[Looper] = "check"
    /\ ~IsDisconnected
    /\ sync = "synced"
    /\ queue > 0
    /\ Goto(Looper, "next")
    /\ UNCHANGED Idle

LooperTakes ==
    /\ pc[Looper] = "next"
    /\ queue > 0
    /\ queue' = queue - 1
    /\ Call(Looper, "write", <<"next">>)
    /\ UNCHANGED <<socket, peer, sync, frames>>

LooperEmptied ==
    /\ pc[Looper] = "next"
    /\ queue = 0
    /\ Goto(Looper, "check")
    /\ UNCHANGED Idle

LooperClears ==
    /\ pc[Looper] = "clear"
    /\ queue' = 0
    /\ Goto(Looper, "check")
    /\ UNCHANGED <<socket, peer, sync, frames>>

LooperStep == LooperEnds \/ LooperStarts \/ LooperTakes \/ LooperEmptied \/ LooperClears

-----------------------------------------------------------------------------
(* Other threads, as long as they can find the client in the server's list. *)

Listed == pc[Receiver] \notin {"join", "done"}

\* Respond (an answer), ClientKick (a frame, then DisconnectClient), or
\* DisconnectClient alone (the time-out, or the same player joining again).
OtherStarts(t) ==
    /\ pc[t] = "idle"
    /\ Listed
    /\ \/ Call(t, "write", <<"idle">>)
       \/ Call(t, "write", <<"cas", "idle">>)
       \/ Call(t, "cas", <<"idle">>)
    /\ UNCHANGED Idle

\* SendToAll reaches this client.
Broadcast(t) ==
    /\ pc[t] = "idle"
    /\ Listed
    /\ sync # "neither"
    /\ queue < MaxQueue
    /\ queue' = queue + 1
    /\ UNCHANGED <<socket, peer, sync, frames, control>>

PeerCloses ==
    /\ peer = "there"
    /\ peer' = "gone"
    /\ UNCHANGED <<socket, sync, queue, frames, control>>

-----------------------------------------------------------------------------

Next ==
    \/ \E t \in Threads : Disconnect(t) \/ TCPSend(t)
    \/ ReceiverStep \/ ReadPacket \/ ReadBadHeader
    \/ LooperStep
    \/ \E t \in Others : OtherStarts(t) \/ Broadcast(t)
    \/ PeerCloses

Spec == Init /\ [][Next]_vars

\* Every thread that can go on does.  Nothing makes a peer send, read or hang
\* up, and nothing makes a plugin call: ReadPacket, the successful writes,
\* PeerCloses, OtherStarts and Broadcast carry no fairness.
Fairness ==
    /\ \A t \in Threads : WF_vars(Disconnect(t)) /\ WF_vars(WriteFails(t))
    /\ WF_vars(ReceiverStep)
    /\ WF_vars(LooperStep)

FairSpec == Spec /\ Fairness

-----------------------------------------------------------------------------
(* Properties.                                                             *)

\* What every stage of the tear-down says about the socket.
SocketMatchesState ==
    /\ mDisconnectState = "Connected" => isOpen /\ ~isShut /\ closes = 0
    /\ mDisconnectState = "Disconnecting" => \E t \in Threads : pc[t] \in Closing
    /\ mDisconnectState = "Disconnected" => ~isOpen /\ isShut /\ closes = 1
    /\ \A t \in Threads :
        /\ pc[t] \in Closing => mDisconnectState = "Disconnecting"
        /\ pc[t] = "shutdown" => isOpen /\ ~isShut /\ closes = 0
        /\ pc[t] = "close" => isOpen /\ isShut /\ closes = 0
        /\ pc[t] = "store" => ~isOpen /\ isShut /\ closes = 1

\* "concurrent close() on the same socket can crash in Asio internals": of all
\* the threads that disconnect a client, one at most is ever at it.
OneCloser ==
    \A t, u \in Threads : pc[t] \in Closing /\ pc[u] \in Closing => t = u

\* The socket is closed once, however many threads find it broken.
ClosedOnce == closes <= 1

\* By the time OnDisconnect tells the other players, the client is already
\* being disconnected, whichever way the receive loop was left.
LeaverIsDisconnected == pc[Receiver] \in {"leave", "join", "done"} => IsDisconnected

\* Why it holds: what every thread in the middle of a call returns to.
Calls ==
    \A t \in Threads :
        /\ pc[t] \in Writing => stack[t] \in SendStacks /\ (stack[t] = <<"next">> => t = Looper)
        /\ pc[t] \in Closing \cup {"cas"} => stack[t] \in DisconnectStacks

\* The inductive invariant.
IndInv == TypeOK /\ Calls /\ SocketMatchesState /\ OneCloser /\ LeaverIsDisconnected

\* The state only moves towards Disconnected, one stage at a time.
DisconnectIsFinal ==
    [][mDisconnectState' # mDisconnectState =>
        \/ mDisconnectState = "Connected" /\ mDisconnectState' = "Disconnecting"
        \/ mDisconnectState = "Disconnecting" /\ mDisconnectState' = "Disconnected"]_vars

\* Whoever disconnects a client, both its threads end: the receiver even if it
\* is blocked in a read or a write, the Looper whatever its queue holds.
DisconnectEndsThreads == IsDisconnected ~> pc[Receiver] = "done" /\ pc[Looper] = "done"

\* A peer that is gone is noticed, and its client disconnected.
PeerLossNoticed == peer = "gone" ~> mDisconnectState = "Disconnected"

\* Stated at TNetwork.cpp:597, "a header of 4 bytes, followed by the data": no
\* frame is written into the middle of another.  The code does not ensure
\* this: a second WriteWhole or WritePart can follow a WritePart.
FramesAreContiguous == ~torn
=============================================================================
