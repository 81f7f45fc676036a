-------------------------- MODULE Connection_proofs --------------------------
(***************************************************************************)
(* Proofs about the two ways to a player: the socket of a client, for any  *)
(* number of threads that answer, kick or time it out; and the UDP         *)
(* channel, for any number of sessions, any addresses and any number of    *)
(* values of a byte.                                                       *)
(***************************************************************************)
EXTENDS ClientSocket, UdpChannel, FiniteSetTheorems, WellFoundedInduction, TLAPS

-----------------------------------------------------------------------------
(* Calls and returns.                                                      *)

\* TCPSend returns into Disconnect or into its caller, and never to where the
\* client is taken to be disconnected.
LEMMA ReturnFromSend ==
    ASSUME NEW k \in SendStacks
    PROVE  /\ Tail(k) \in Stacks
           /\ \/ Head(k) = "cas" /\ Tail(k) \in DisconnectStacks
              \/ Head(k) \in {"idle", "loop", "startSync", "snapshot", "next"}
<1>1. CASE k = <<"cas", "cas", "leave">>
  <2>1. Head(k) = "cas" /\ Tail(k) = <<"cas", "leave">>
    BY <1>1
  <2>2. QED
    BY <2>1 DEF DisconnectStacks, Stacks
<1>2. ASSUME NEW x \in {"idle", "loop"}, k = <<"cas", x>>
      PROVE  Head(k) = "cas" /\ Tail(k) \in DisconnectStacks
  <2>1. Head(k) = "cas" /\ Tail(k) = <<x>>
    BY <1>2
  <2>2. QED
    BY <2>1 DEF DisconnectStacks
<1>3. ASSUME NEW x \in {"idle", "loop", "startSync", "snapshot", "next"}, k = <<x>>
      PROVE  Head(k) = x /\ Tail(k) = << >>
  BY <1>3
<1>4. QED
  BY <1>1, <1>2, <1>3 DEF SendStacks, Stacks

\* Disconnect returns into another Disconnect or into its caller.
LEMMA ReturnFromDisconnect ==
    ASSUME NEW k \in DisconnectStacks
    PROVE  /\ Tail(k) \in Stacks
           /\ \/ Head(k) = "cas" /\ Tail(k) \in DisconnectStacks
              \/ Head(k) \in {"idle", "loop", "snapshot", "leave", "join", "clear"}
<1>1. CASE k = <<"cas", "cas", "leave">>
  <2>1. Head(k) = "cas" /\ Tail(k) = <<"cas", "leave">>
    BY <1>1
  <2>2. QED
    BY <2>1 DEF DisconnectStacks, Stacks
<1>2. ASSUME NEW x \in {"idle", "loop", "leave", "clear"}, k = <<"cas", x>>
      PROVE  Head(k) = "cas" /\ Tail(k) \in DisconnectStacks
  <2>1. Head(k) = "cas" /\ Tail(k) = <<x>>
    BY <1>2
  <2>2. QED
    BY <2>1 DEF DisconnectStacks
<1>3. ASSUME NEW x \in {"idle", "loop", "snapshot", "leave", "join", "clear"}, k = <<x>>
      PROVE  Head(k) = x /\ Tail(k) = << >>
  BY <1>3
<1>4. QED
  BY <1>1, <1>2, <1>3 DEF DisconnectStacks, Stacks

\* What TCPSend's callers do after a failure.
LEMMA AfterFailureStacks ==
    ASSUME NEW t \in Threads, stack[t] \in SendStacks,
           stack[t] = <<"next">> => t = Looper
    PROVE  AfterFailure(t) \in DisconnectStacks
<1>1. stack[t] # <<"next">> => stack[t] \in DisconnectStacks \/ stack[t] = <<"startSync">>
  BY DEF SendStacks, DisconnectStacks
<1>2. <<"loop">> \in DisconnectStacks /\ <<"cas", "clear">> \in DisconnectStacks
  BY DEF DisconnectStacks
<1>3. QED
  BY <1>1, <1>2 DEF AfterFailure

\* A step of one thread that leaves the socket alone: t goes to s, with k left
\* to return to.
Moves(t, s, k) ==
    /\ UNCHANGED socket
    /\ pc[t] \notin Closing
    /\ s \in Steps \ Closing
    /\ k \in Stacks
    /\ pc' = [pc EXCEPT ![t] = s]
    /\ stack' = [stack EXCEPT ![t] = k]
    /\ s \in Writing => k \in SendStacks /\ (k = <<"next">> => t = Looper)
    /\ s = "cas" => k \in DisconnectStacks
    /\ t = Receiver /\ s \in {"leave", "join", "done"} => IsDisconnected

\* A thread that moves to a step, with what it returns to, keeps the invariant.
LEMMA MovesKeepInv ==
    ASSUME IndInv, NEW t \in Threads, NEW s, NEW k, Moves(t, s, k)
    PROVE  /\ pc' \in [Threads -> Steps] /\ stack' \in [Threads -> Stacks]
           /\ Calls' /\ SocketMatchesState' /\ OneCloser' /\ LeaverIsDisconnected'
<1> USE DEF IndInv, TypeOK, Moves, socket
<1>1. /\ pc' \in [Threads -> Steps] /\ stack' \in [Threads -> Stacks]
      /\ pc'[t] = s /\ stack'[t] = k
      /\ \A u \in Threads \ {t} : pc'[u] = pc[u] /\ stack'[u] = stack[u]
  OBVIOUS
<1>2. Calls'
  BY <1>1 DEF Calls, Writing, Closing
<1>3. SocketMatchesState'
  BY <1>1 DEF SocketMatchesState, Closing
<1>4. OneCloser'
  BY <1>1 DEF OneCloser
<1>5. LeaverIsDisconnected'
  BY <1>1 DEF LeaverIsDisconnected, IsDisconnected
<1>6. QED
  BY <1>1, <1>2, <1>3, <1>4, <1>5

-----------------------------------------------------------------------------
(* Every step is a move, or one of Disconnect's own.                       *)

\* What TCPSend returns to is a step of its caller.
LEMMA SendReturns ==
    ASSUME IndInv, NEW t \in Threads, pc[t] \in Writing, Return(t), UNCHANGED socket
    PROVE  Moves(t, Head(stack[t]), Tail(stack[t]))
<1>1. stack[t] \in SendStacks
  BY DEF IndInv, Calls
<1>2. PICK k : k = stack[t]
  OBVIOUS
<1>3. k \in SendStacks
  BY <1>1, <1>2
<1>4. /\ Tail(k) \in Stacks
      /\ \/ Head(k) = "cas" /\ Tail(k) \in DisconnectStacks
         \/ Head(k) \in {"idle", "loop", "startSync", "snapshot", "next"}
  BY <1>3, ReturnFromSend
<1>5. Head(k) \in Steps \ Closing /\ Head(k) \notin Writing
      /\ Head(k) \notin {"leave", "join", "done"}
  BY <1>4 DEF Steps, Closing, Writing, ReceiverSteps, LooperSteps
<1>6. /\ pc[t] \notin Closing
      /\ pc' = [pc EXCEPT ![t] = Head(k)]
      /\ stack' = [stack EXCEPT ![t] = Tail(k)]
  BY <1>2 DEF Return, Call, Writing, Closing
<1>7. Moves(t, Head(k), Tail(k))
  BY <1>4, <1>5, <1>6 DEF Moves
<1>8. QED
  BY <1>2, <1>7

\* What Disconnect returns to is a step of its caller, and never another
\* Disconnect's middle.
LEMMA DisconnectReturns ==
    ASSUME IndInv, NEW t \in Threads, pc[t] \in Closing \cup {"cas"}
    PROVE  /\ Tail(stack[t]) \in Stacks
           /\ Head(stack[t]) \in Steps \ (Closing \cup Writing)
           /\ Head(stack[t]) = "cas" => Tail(stack[t]) \in DisconnectStacks
<1>1. PICK k : k = stack[t]
  OBVIOUS
<1>2. k \in DisconnectStacks
  BY <1>1 DEF IndInv, Calls
<1>3. /\ Tail(k) \in Stacks
      /\ \/ Head(k) = "cas" /\ Tail(k) \in DisconnectStacks
         \/ Head(k) \in {"idle", "loop", "snapshot", "leave", "join", "clear"}
  BY <1>2, ReturnFromDisconnect
<1>4. /\ Head(k) \in Steps \ (Closing \cup Writing)
      /\ Head(k) = "cas" => Tail(k) \in DisconnectStacks
  BY <1>3 DEF Steps, Closing, Writing, ReceiverSteps, LooperSteps
<1>5. QED
  BY <1>1, <1>3, <1>4

\* A step within a function: the steps to return to stay as they are.
LEMMA GotoMoves ==
    ASSUME IndInv, NEW t \in Threads, NEW s \in Steps \ Closing, Goto(t, s),
           pc[t] \notin Closing, UNCHANGED socket,
           s \in Writing => pc[t] \in Writing, s # "cas",
           t = Receiver /\ s \in {"leave", "join", "done"} => IsDisconnected
    PROVE  Moves(t, s, stack[t])
<1>1. stack' = [stack EXCEPT ![t] = stack[t]] /\ stack[t] \in Stacks
  BY DEF IndInv, TypeOK, Goto
<1>2. s \in Writing => stack[t] \in SendStacks /\ (stack[t] = <<"next">> => t = Looper)
  BY DEF IndInv, Calls
<1>3. QED
  BY <1>1, <1>2 DEF Moves, Goto

\* A call of TCPSend, and one of Disconnect.
LEMMA SendCalled ==
    ASSUME NEW t \in Threads, NEW k \in SendStacks, k = <<"next">> => t = Looper,
           Call(t, "write", k), pc[t] \notin Closing, UNCHANGED socket
    PROVE  Moves(t, "write", k)
<1>1. "write" \in Steps \ Closing
  BY DEF Steps, Closing, Writing
<1>2. QED
  BY <1>1 DEF Moves, Call, Stacks

\* A call of Disconnect is such a move.
LEMMA DisconnectCalled ==
    ASSUME NEW t \in Threads, NEW k \in DisconnectStacks,
           Call(t, "cas", k), pc[t] \notin Closing, UNCHANGED socket
    PROVE  Moves(t, "cas", k)
<1>1. "cas" \in Steps \ Closing /\ "cas" \notin Writing
  BY DEF Steps, Closing, Writing
<1>2. QED
  BY <1>1 DEF Moves, Call, Stacks

\* Every step of TCPSend is such a move.
LEMMA SendMoves ==
    ASSUME IndInv, NEW t \in Threads, TCPSend(t)
    PROVE  \E s, k : Moves(t, s, k)
<1>1. CASE SendWhileSyncing(t) \/ WriteWhole(t) \/ WriteRest(t)
  <2>1. pc[t] \in Writing /\ Return(t) /\ UNCHANGED socket
    BY <1>1 DEF SendWhileSyncing, WriteWhole, WriteRest, Writing
  <2>2. QED
    BY <2>1, SendReturns
<1>2. CASE WritePart(t)
  <2>1. pc[t] = "write" /\ Goto(t, "rest") /\ UNCHANGED socket
    BY <1>2 DEF WritePart
  <2>2. /\ "rest" \in Steps \ Closing /\ pc[t] \notin Closing /\ pc[t] \in Writing
        /\ "rest" # "cas" /\ "rest" \notin {"leave", "join", "done"}
    BY <2>1 DEF Steps, Closing, Writing
  <2>3. Moves(t, "rest", stack[t])
    BY <2>1, <2>2, GotoMoves
  <2>4. QED
    BY <2>3
<1>3. CASE WriteFails(t)
  <2>1. pc[t] \in Writing /\ Call(t, "cas", AfterFailure(t)) /\ UNCHANGED socket
    BY <1>3 DEF WriteFails
  <2>2. AfterFailure(t) \in DisconnectStacks
    BY <2>1, AfterFailureStacks DEF IndInv, Calls
  <2>3. pc[t] \notin Closing
    BY <2>1 DEF Writing, Closing
  <2>4. QED
    BY <2>1, <2>2, <2>3, DisconnectCalled
<1>4. QED
  BY <1>1, <1>2, <1>3 DEF TCPSend

\* The steps to return to that the receiver, the Looper and the others push.
LEMMA Literals ==
    /\ {<<"loop">>, <<"cas", "loop">>, <<"startSync">>, <<"snapshot">>, <<"idle">>,
        <<"cas", "idle">>, <<"cas", "cas", "leave">>} \subseteq SendStacks
    /\ <<"next">> \in SendStacks
    /\ {<<"leave">>, <<"join">>, <<"idle">>} \subseteq DisconnectStacks
    /\ \A x \in {"loop", "startSync", "snapshot", "idle"} : <<x>> # <<"next">>
    /\ \A x \in {"loop", "idle"} : <<"cas", x>> # <<"next">>
    /\ <<"cas", "cas", "leave">> # <<"next">>
<1>1. \A x \in {"loop", "startSync", "snapshot", "idle"} : <<x>> # <<"next">>
  OBVIOUS
<1>2. \A x : Len(<<"cas", x>>) = 2
  OBVIOUS
<1>3. Len(<<"next">>) = 1 /\ Len(<<"cas", "cas", "leave">>) = 3
  OBVIOUS
<1>4. QED
  BY <1>1, <1>2, <1>3 DEF SendStacks, DisconnectStacks

\* Every step of the receiver is.
LEMMA ReceiverMoves ==
    ASSUME IndInv, ReceiverStep \/ ReadPacket \/ ReadBadHeader
    PROVE  \E s, k : Moves(Receiver, s, k)
<1>1. Receiver \in Threads
  BY DEF Threads
<1>2. ASSUME NEW s \in {"leave", "recv", "read", "parse", "loop", "snapshot", "done"},
             Goto(Receiver, s), pc[Receiver] \in ReceiverSteps, UNCHANGED socket,
             s \in {"leave", "done"} => IsDisconnected
      PROVE  \E q, k : Moves(Receiver, q, k)
  <2>1. /\ s \in Steps \ Closing /\ s \notin Writing /\ s # "cas"
        /\ pc[Receiver] \notin Closing
    BY <1>2 DEF Steps, Closing, Writing, ReceiverSteps
  <2>2. Moves(Receiver, s, stack[Receiver])
    BY <1>1, <1>2, <2>1, GotoMoves
  <2>3. QED
    BY <2>2
<1>3. ASSUME NEW k \in {<<"loop">>, <<"cas", "loop">>, <<"startSync">>, <<"snapshot">>,
                        <<"cas", "cas", "leave">>},
             Call(Receiver, "write", k), pc[Receiver] \in ReceiverSteps, UNCHANGED socket
      PROVE  \E q, j : Moves(Receiver, q, j)
  <2>1. k \in SendStacks /\ k # <<"next">>
    BY <1>3, Literals
  <2>2. pc[Receiver] \notin Closing
    BY <1>3 DEF Closing, ReceiverSteps
  <2>3. Moves(Receiver, "write", k)
    BY <1>1, <1>3, <2>1, <2>2, SendCalled
  <2>4. QED
    BY <2>3
<1>4. ASSUME NEW k \in {<<"leave">>, <<"join">>},
             Call(Receiver, "cas", k), pc[Receiver] \in ReceiverSteps, UNCHANGED socket
      PROVE  \E q, j : Moves(Receiver, q, j)
  <2>1. k \in DisconnectStacks
    BY <1>4, Literals
  <2>2. pc[Receiver] \notin Closing
    BY <1>4 DEF Closing, ReceiverSteps
  <2>3. Moves(Receiver, "cas", k)
    BY <1>1, <1>4, <2>1, <2>2, DisconnectCalled
  <2>4. QED
    BY <2>3
<1> USE DEF Idle, ReceiverSteps, socket
<1>5. CASE LoopCheck
  BY <1>2, <1>5 DEF LoopCheck
<1>6. CASE RecvCheck
  BY <1>2, <1>4, <1>6 DEF RecvCheck
<1>7. CASE ReadPacket
  BY <1>2, <1>7 DEF ReadPacket
<1>8. CASE ReadBadHeader
  BY <1>3, <1>8 DEF ReadBadHeader
<1>9. CASE ReadFails
  BY <1>4, <1>9 DEF ReadFails
<1>10. CASE ParsePacket
  BY <1>2, <1>3, <1>4, <1>10 DEF ParsePacket
<1>11. CASE ParsePing
  BY <1>2, <1>11 DEF ParsePing
<1>12. CASE StartSync
  BY <1>2, <1>12 DEF StartSync
<1>13. CASE SnapshotVehicle
  BY <1>3, <1>13 DEF SnapshotVehicle
<1>14. CASE SnapshotAborted
  BY <1>2, <1>14 DEF SnapshotAborted
<1>15. CASE SnapshotDone
  BY <1>2, <1>15 DEF SnapshotDone
<1>16. CASE Leave
  BY <1>4, <1>16 DEF Leave
<1>17. CASE Join
  <2>1. IsDisconnected
    BY <1>17 DEF Join, IndInv, LeaverIsDisconnected
  <2>2. QED
    BY <1>2, <1>17, <2>1 DEF Join
<1>18. QED
  BY <1>5, <1>6, <1>7, <1>8, <1>9, <1>10, <1>11, <1>12, <1>13, <1>14, <1>15, <1>16, <1>17
     DEF ReceiverStep

\* Every step of the Looper is.
LEMMA LooperMoves ==
    ASSUME IndInv, LooperStep
    PROVE  \E s, k : Moves(Looper, s, k)
<1>1. Looper \in Threads /\ Looper # Receiver
  BY ThreadsAssumption DEF Threads
<1>2. ASSUME NEW s \in {"check", "next", "done"},
             Goto(Looper, s), pc[Looper] \in LooperSteps, UNCHANGED socket
      PROVE  \E q, k : Moves(Looper, q, k)
  <2>1. /\ s \in Steps \ Closing /\ s \notin Writing /\ s # "cas"
        /\ pc[Looper] \notin Closing
    BY <1>2 DEF Steps, Closing, Writing, LooperSteps
  <2>2. Moves(Looper, s, stack[Looper])
    BY <1>1, <1>2, <2>1, GotoMoves
  <2>3. QED
    BY <2>2
<1> USE DEF Idle, LooperSteps, socket
<1>3. CASE LooperEnds
  BY <1>2, <1>3 DEF LooperEnds
<1>4. CASE LooperStarts
  BY <1>2, <1>4 DEF LooperStarts
<1>5. CASE LooperTakes
  <2>1. <<"next">> \in SendStacks /\ pc[Looper] \notin Closing
    BY <1>5, Literals DEF LooperTakes, Closing
  <2>2. Call(Looper, "write", <<"next">>) /\ UNCHANGED socket
    BY <1>5 DEF LooperTakes
  <2>3. QED
    BY <1>1, <2>1, <2>2, SendCalled
<1>6. CASE LooperEmptied
  BY <1>2, <1>6 DEF LooperEmptied
<1>7. CASE LooperClears
  BY <1>2, <1>7 DEF LooperClears
<1>8. QED
  BY <1>3, <1>4, <1>5, <1>6, <1>7 DEF LooperStep

\* So is the start of a send or a kick by another thread.
LEMMA OtherMoves ==
    ASSUME IndInv, NEW t \in Others, OtherStarts(t)
    PROVE  \E s, k : Moves(t, s, k)
<1>1. t \in Threads /\ pc[t] \notin Closing /\ UNCHANGED socket
  BY DEF Threads, OtherStarts, Closing, Idle
<1>2. CASE Call(t, "cas", <<"idle">>)
  BY <1>1, <1>2, Literals, DisconnectCalled
<1>3. ASSUME NEW k \in {<<"idle">>, <<"cas", "idle">>}, Call(t, "write", k)
      PROVE  \E s, j : Moves(t, s, j)
  <2>1. k \in SendStacks /\ k # <<"next">>
    BY <1>3, Literals
  <2>2. Moves(t, "write", k)
    BY <1>1, <1>3, <2>1, SendCalled
  <2>3. QED
    BY <2>2
<1>4. QED
  BY <1>2, <1>3 DEF OtherStarts

-----------------------------------------------------------------------------
(* The invariant.                                                          *)

\* What an action says of the control state and the socket.
ControlInv ==
    /\ pc \in [Threads -> Steps]
    /\ stack \in [Threads -> Stacks]
    /\ Calls
    /\ SocketMatchesState
    /\ OneCloser
    /\ LeaverIsDisconnected

\* TClient::Disconnect keeps the invariant.
LEMMA DisconnectKeepsInv ==
    ASSUME IndInv, NEW t \in Threads, Disconnect(t)
    PROVE  ControlInv'
<1> USE DEF IndInv, TypeOK, ControlInv
<1> DEFINE NowAt(s) ==
      /\ pc' = [pc EXCEPT ![t] = s]
      /\ stack' = stack
<1>1. ASSUME NEW s \in Closing, NowAt(s), pc[t] \in Closing \cup {"cas"}
      PROVE  /\ pc' \in [Threads -> Steps] /\ stack' \in [Threads -> Stacks]
             /\ pc'[t] = s /\ \A u \in Threads \ {t} : pc'[u] = pc[u]
             /\ Calls'
  <2>1. s \in Steps /\ s \notin Writing
    BY <1>1 DEF Steps, Closing, Writing
  <2>2. stack[t] \in DisconnectStacks
    BY <1>1 DEF Calls
  <2>3. /\ pc' \in [Threads -> Steps] /\ stack' = stack
        /\ pc'[t] = s /\ \A u \in Threads \ {t} : pc'[u] = pc[u]
    BY <1>1, <2>1
  <2>4. Calls'
    BY <2>1, <2>2, <2>3 DEF Calls
  <2>5. QED
    BY <2>3, <2>4
<1>2. CASE CompareExchange(t) /\ mDisconnectState = "Connected"
  <2>1. /\ mDisconnectState' = "Disconnecting" /\ NowAt("shutdown") /\ pc[t] = "cas"
        /\ isOpen' = isOpen /\ isShut' = isShut /\ closes' = closes
    BY <1>2 DEF CompareExchange, Goto
  <2>2. "shutdown" \in Closing
    BY DEF Closing
  <2>3. /\ pc' \in [Threads -> Steps] /\ stack' \in [Threads -> Stacks]
        /\ pc'[t] = "shutdown" /\ \A u \in Threads \ {t} : pc'[u] = pc[u]
        /\ Calls'
    BY <1>1, <2>1, <2>2
  <2>4. \A u \in Threads : pc[u] \notin Closing
    BY <1>2 DEF SocketMatchesState
  <2>5. isOpen /\ ~isShut /\ closes = 0
    BY <1>2 DEF SocketMatchesState
  <2>6. SocketMatchesState'
    BY <2>1, <2>2, <2>3, <2>4, <2>5 DEF SocketMatchesState, Closing
  <2>7. OneCloser'
    BY <2>3, <2>4 DEF OneCloser
  <2>8. LeaverIsDisconnected'
    BY <2>1 DEF LeaverIsDisconnected, IsDisconnected
  <2>9. QED
    BY <2>3, <2>6, <2>7, <2>8
<1>3. CASE CompareExchange(t) /\ mDisconnectState # "Connected"
  <2>1. pc[t] = "cas" /\ UNCHANGED socket /\ Return(t)
    BY <1>3 DEF CompareExchange, socket
  <2>2. /\ Tail(stack[t]) \in Stacks
        /\ Head(stack[t]) \in Steps \ (Closing \cup Writing)
        /\ Head(stack[t]) = "cas" => Tail(stack[t]) \in DisconnectStacks
    BY <2>1, DisconnectReturns
  <2>3. PICK s, k : s = Head(stack[t]) /\ k = Tail(stack[t])
    OBVIOUS
  <2>4. Moves(t, s, k)
    BY <1>3, <2>1, <2>2, <2>3 DEF Moves, Return, Call, IsDisconnected, Closing
  <2>5. QED
    BY <2>4, MovesKeepInv
<1>4. ASSUME pc[t] \in Closing
      PROVE  \A u \in Threads \ {t} : pc[u] \notin Closing
  BY <1>4 DEF OneCloser
<1>5. CASE Shutdown(t)
  <2>1. pc[t] = "shutdown" /\ pc[t] \in Closing
    BY <1>5 DEF Shutdown, Closing
  <2>2. mDisconnectState = "Disconnecting" /\ isOpen /\ ~isShut /\ closes = 0
    BY <2>1 DEF SocketMatchesState
  <2>3. /\ NowAt("close") /\ isShut' = TRUE
        /\ mDisconnectState' = mDisconnectState /\ isOpen' = isOpen /\ closes' = closes
    BY <1>5, <2>2 DEF Shutdown, Goto
  <2>4. "close" \in Closing
    BY DEF Closing
  <2>5. /\ pc' \in [Threads -> Steps] /\ stack' \in [Threads -> Stacks]
        /\ pc'[t] = "close" /\ \A u \in Threads \ {t} : pc'[u] = pc[u]
        /\ Calls'
    BY <1>1, <2>1, <2>3, <2>4
  <2>6. SocketMatchesState'
    BY <1>4, <2>1, <2>2, <2>3, <2>4, <2>5 DEF SocketMatchesState, Closing
  <2>7. OneCloser'
    BY <1>4, <2>1, <2>5 DEF OneCloser
  <2>8. LeaverIsDisconnected'
    BY <2>2, <2>3 DEF LeaverIsDisconnected, IsDisconnected
  <2>9. QED
    BY <2>5, <2>6, <2>7, <2>8
<1>6. CASE Close(t)
  <2>1. pc[t] = "close" /\ pc[t] \in Closing
    BY <1>6 DEF Close, Closing
  <2>2. mDisconnectState = "Disconnecting" /\ isOpen /\ isShut /\ closes = 0
    BY <2>1 DEF SocketMatchesState
  <2>3. /\ NowAt("store") /\ isShut' = isShut
        /\ mDisconnectState' = mDisconnectState /\ isOpen' = FALSE /\ closes' = 1
    BY <1>6, <2>2 DEF Close, Goto
  <2>4. "store" \in Closing
    BY DEF Closing
  <2>5. /\ pc' \in [Threads -> Steps] /\ stack' \in [Threads -> Stacks]
        /\ pc'[t] = "store" /\ \A u \in Threads \ {t} : pc'[u] = pc[u]
        /\ Calls'
    BY <1>1, <2>1, <2>3, <2>4
  <2>6. SocketMatchesState'
    BY <1>4, <2>1, <2>2, <2>3, <2>4, <2>5 DEF SocketMatchesState, Closing
  <2>7. OneCloser'
    BY <1>4, <2>1, <2>5 DEF OneCloser
  <2>8. LeaverIsDisconnected'
    BY <2>2, <2>3 DEF LeaverIsDisconnected, IsDisconnected
  <2>9. QED
    BY <2>5, <2>6, <2>7, <2>8
<1>7. CASE Store(t)
  <2>1. pc[t] = "store" /\ pc[t] \in Closing
    BY <1>7 DEF Store, Closing
  <2>2. ~isOpen /\ isShut /\ closes = 1
    BY <2>1 DEF SocketMatchesState
  <2>3. PICK s, k : s = Head(stack[t]) /\ k = Tail(stack[t])
    OBVIOUS
  <2>4. /\ k \in Stacks
        /\ s \in Steps \ (Closing \cup Writing)
        /\ s = "cas" => k \in DisconnectStacks
    BY <2>1, <2>3, DisconnectReturns
  <2>5. /\ mDisconnectState' = "Disconnected"
        /\ isOpen' = isOpen /\ isShut' = isShut /\ closes' = closes
        /\ pc' = [pc EXCEPT ![t] = s] /\ stack' = [stack EXCEPT ![t] = k]
    BY <1>7, <2>3 DEF Store, Return, Call
  <2>6. /\ pc' \in [Threads -> Steps] /\ stack' \in [Threads -> Stacks]
        /\ pc'[t] = s /\ stack'[t] = k
        /\ \A u \in Threads \ {t} : pc'[u] = pc[u] /\ stack'[u] = stack[u]
    BY <2>4, <2>5
  <2>7. Calls'
    BY <2>4, <2>6 DEF Calls
  <2>8. \A u \in Threads : pc'[u] \notin Closing
    BY <1>4, <2>1, <2>4, <2>6
  <2>9. SocketMatchesState'
    BY <2>2, <2>5, <2>8 DEF SocketMatchesState, Closing
  <2>10. OneCloser'
    BY <2>8 DEF OneCloser
  <2>11. LeaverIsDisconnected'
    BY <2>5 DEF LeaverIsDisconnected, IsDisconnected
  <2>12. QED
    BY <2>6, <2>7, <2>9, <2>10, <2>11
<1>8. QED
  BY <1>2, <1>3, <1>5, <1>6, <1>7 DEF Disconnect

\* The variables that are not control keep their types.
LEMMA DataTyped ==
    ASSUME TypeOK, Next
    PROVE  /\ mDisconnectState' \in DisconnectStates
           /\ isOpen' \in BOOLEAN /\ isShut' \in BOOLEAN /\ closes' \in Nat
           /\ peer' \in {"there", "gone"}
           /\ sync' \in {"neither", "syncing", "synced"}
           /\ queue' \in 0..MaxQueue
           /\ partial' \subseteq Threads
           /\ torn' \in BOOLEAN
<1> DEFINE Typed ==
      /\ mDisconnectState' \in DisconnectStates
      /\ isOpen' \in BOOLEAN /\ isShut' \in BOOLEAN /\ closes' \in Nat
      /\ peer' \in {"there", "gone"}
      /\ sync' \in {"neither", "syncing", "synced"}
      /\ queue' \in 0..MaxQueue
      /\ partial' \subseteq Threads
      /\ torn' \in BOOLEAN
<1> USE ThreadsAssumption DEF TypeOK, DisconnectStates, socket, frames, Idle
<1>1. ASSUME NEW t \in Threads, Disconnect(t) PROVE Typed
  <2>1. CASE CompareExchange(t)
    BY <2>1 DEF CompareExchange
  <2>2. CASE Shutdown(t)
    BY <2>2 DEF Shutdown
  <2>3. CASE Close(t)
    <3>1. closes' \in Nat
      BY <2>3 DEF Close
    <3>2. isOpen' \in BOOLEAN
      BY <2>3 DEF Close
    <3>3. UNCHANGED <<mDisconnectState, isShut, peer, sync, queue, partial, torn>>
      BY <2>3 DEF Close
    <3>4. QED
      BY <3>1, <3>2, <3>3
  <2>4. CASE Store(t)
    BY <2>4 DEF Store
  <2>5. QED
    BY <1>1, <2>1, <2>2, <2>3, <2>4 DEF Disconnect
<1>2. ASSUME NEW t \in Threads, TCPSend(t) PROVE Typed
  <2>1. (torn \/ partial # {}) \in BOOLEAN
    OBVIOUS
  <2>2. CASE SendWhileSyncing(t)
    BY <2>2 DEF SendWhileSyncing
  <2>3. CASE WriteWhole(t)
    BY <2>1, <2>3 DEF WriteWhole
  <2>4. CASE WritePart(t)
    BY <1>2, <2>1, <2>4 DEF WritePart
  <2>5. CASE WriteRest(t)
    BY <2>5 DEF WriteRest
  <2>6. CASE WriteFails(t)
    BY <2>6 DEF WriteFails
  <2>7. QED
    BY <1>2, <2>2, <2>3, <2>4, <2>5, <2>6 DEF TCPSend
<1>3. CASE ReceiverStep \/ ReadPacket \/ ReadBadHeader
  BY <1>3 DEF ReceiverStep, ReadPacket, ReadBadHeader, LoopCheck, RecvCheck, ReadFails,
     ParsePacket, ParsePing, StartSync, SnapshotVehicle, SnapshotAborted, SnapshotDone, Leave, Join
<1>4. CASE LooperStep
  BY <1>4 DEF LooperStep, LooperEnds, LooperStarts, LooperTakes, LooperEmptied, LooperClears
<1>5. ASSUME NEW t \in Others, OtherStarts(t) \/ Broadcast(t) PROVE Typed
  BY <1>5 DEF OtherStarts, Broadcast
<1>6. CASE PeerCloses
  BY <1>6 DEF PeerCloses
<1>7. QED
  BY <1>1, <1>2, <1>3, <1>4, <1>5, <1>6 DEF Next

\* No thread has called anything, and the socket is open.
LEMMA InitIndInv == Init => IndInv
<1> SUFFICES ASSUME Init PROVE IndInv
  OBVIOUS
<1>1. /\ pc \in [Threads -> {"loop", "check", "idle"}]
      /\ Receiver \in Threads /\ pc[Receiver] = "loop"
  BY ThreadsAssumption DEF Init, Threads
<1>2. {"loop", "check", "idle"} \subseteq Steps \ (Closing \cup Writing \cup {"cas"})
  BY DEF Steps, Closing, Writing, ReceiverSteps, LooperSteps
<1>3. pc \in [Threads -> Steps] /\ \A t \in Threads : pc[t] \notin Closing \cup Writing \cup {"cas"}
  BY <1>1, <1>2
<1>4. TypeOK
  <2>1. << >> \in Stacks
    BY DEF Stacks
  <2>2. stack \in [Threads -> Stacks]
    BY <2>1 DEF Init
  <2>3. isOpen \in BOOLEAN /\ isShut \in BOOLEAN /\ torn \in BOOLEAN
    BY DEF Init
  <2>4. closes \in Nat /\ queue \in 0..MaxQueue
    BY ThreadsAssumption DEF Init
  <2>5. QED
    BY <1>3, <2>2, <2>3, <2>4 DEF Init, TypeOK, DisconnectStates
<1>5. Calls
  BY <1>3 DEF Calls
<1>6. SocketMatchesState
  BY <1>3 DEF Init, SocketMatchesState, Closing
<1>7. OneCloser
  BY <1>3 DEF OneCloser
<1>8. LeaverIsDisconnected
  BY <1>1 DEF LeaverIsDisconnected
<1>9. QED
  BY <1>4, <1>5, <1>6, <1>7, <1>8 DEF IndInv

\* Every step of a socket's threads keeps the invariant.
LEMMA NextIndInv == IndInv /\ [Next]_vars => IndInv'
<1> SUFFICES ASSUME IndInv, [Next]_vars PROVE IndInv'
  OBVIOUS
<1>1. CASE UNCHANGED vars
  BY <1>1 DEF vars, IndInv, TypeOK, Calls, SocketMatchesState, OneCloser,
     LeaverIsDisconnected, IsDisconnected
<1>2. CASE Next
  <2>1. ASSUME NEW t \in Threads, NEW s, NEW k, Moves(t, s, k) PROVE ControlInv'
    BY <2>1, MovesKeepInv DEF ControlInv
  <2>2. ASSUME UNCHANGED <<socket, control>> PROVE ControlInv'
    BY <2>2 DEF ControlInv, IndInv, TypeOK, socket, control, Calls, SocketMatchesState,
       OneCloser, LeaverIsDisconnected, IsDisconnected
  <2>3. ASSUME NEW t \in Threads, Disconnect(t) \/ TCPSend(t) PROVE ControlInv'
    BY <2>1, <2>3, DisconnectKeepsInv, SendMoves
  <2>4. ASSUME ReceiverStep \/ ReadPacket \/ ReadBadHeader PROVE ControlInv'
    <3>1. PICK s, k : Moves(Receiver, s, k)
      BY <2>4, ReceiverMoves
    <3>2. Receiver \in Threads
      BY DEF Threads
    <3>3. QED
      BY <2>1, <3>1, <3>2
  <2>5. ASSUME LooperStep PROVE ControlInv'
    <3>1. PICK s, k : Moves(Looper, s, k)
      BY <2>5, LooperMoves
    <3>2. Looper \in Threads
      BY DEF Threads
    <3>3. QED
      BY <2>1, <3>1, <3>2
  <2>6. ASSUME NEW t \in Others, OtherStarts(t) PROVE ControlInv'
    BY <2>1, <2>6, OtherMoves DEF Threads
  <2>7. ASSUME NEW t \in Others, Broadcast(t) PROVE ControlInv'
    BY <2>2, <2>7 DEF Broadcast
  <2>8. ASSUME PeerCloses PROVE ControlInv'
    <3>1. UNCHANGED <<socket, control>>
      BY <2>8 DEF PeerCloses
    <3>2. QED
      BY <2>2, <3>1
  <2>9. ControlInv'
    BY <1>2, <2>3, <2>4, <2>5, <2>6, <2>7, <2>8 DEF Next
  <2>10. TypeOK'
    BY <1>2, <2>9, DataTyped DEF IndInv, ControlInv, TypeOK
  <2>11. QED
    BY <2>9, <2>10 DEF IndInv, ControlInv
<1>3. QED
  BY <1>1, <1>2

-----------------------------------------------------------------------------
(* The theorems.                                                           *)

\* The invariant holds whatever the threads of a server do with a client.
THEOREM Invariance == Spec => []IndInv
<1>1. Init => IndInv
  BY InitIndInv
<1>2. IndInv /\ [Next]_vars => IndInv'
  BY NextIndInv
<1>3. QED
  BY <1>1, <1>2, PTL DEF Spec

\* TClient::Disconnect: one thread at most is between its compare-and-swap and
\* its last store, so no two threads ever close the socket concurrently.
THEOREM SingleCloser == Spec => []OneCloser
<1>1. IndInv => OneCloser
  BY DEF IndInv
<1>2. QED
  BY <1>1, Invariance, PTL

\* TClient::Disconnect closes the socket at most once.
THEOREM NoDoubleClose == Spec => []ClosedOnce
<1>1. IndInv => ClosedOnce
  BY DEF IndInv, TypeOK, DisconnectStates, SocketMatchesState, ClosedOnce, Closing
<1>2. QED
  BY <1>1, Invariance, PTL

\* TNetwork::TCPClient reaches OnDisconnect only with the client disconnected.
THEOREM LeavesDisconnected == Spec => []LeaverIsDisconnected
<1>1. IndInv => LeaverIsDisconnected
  BY DEF IndInv
<1>2. QED
  BY <1>1, Invariance, PTL

\* mDisconnectState goes from Connected to Disconnecting to Disconnected and
\* never back.
THEOREM NoReconnection == Spec => DisconnectIsFinal
<1> DEFINE Forward ==
      mDisconnectState' # mDisconnectState =>
        \/ mDisconnectState = "Connected" /\ mDisconnectState' = "Disconnecting"
        \/ mDisconnectState = "Disconnecting" /\ mDisconnectState' = "Disconnected"
<1>1. IndInv /\ [Next]_vars => [Forward]_vars
  <2> SUFFICES ASSUME IndInv, [Next]_vars PROVE [Forward]_vars
    OBVIOUS
  <2>1. CASE UNCHANGED vars
    BY <2>1
  <2>2. ASSUME NEW t \in Threads, Disconnect(t) PROVE Forward
    <3>1. pc[t] = "store" => mDisconnectState = "Disconnecting"
      BY DEF IndInv, SocketMatchesState, Closing
    <3>2. QED
      BY <2>2, <3>1 DEF Disconnect, CompareExchange, Shutdown, Close, Store
  <2>3. ASSUME NEW t \in Threads, \E s, k : Moves(t, s, k) PROVE Forward
    BY <2>3 DEF Moves, socket
  <2>4. CASE Next
    BY <2>2, <2>3, <2>4, SendMoves, ReceiverMoves, LooperMoves, OtherMoves
       DEF Next, Threads, Broadcast, PeerCloses, socket
  <2>5. QED
    BY <2>1, <2>4
<1>2. QED
  BY <1>1, Invariance, PTL DEF Spec, DisconnectIsFinal

-----------------------------------------------------------------------------
(* UdpChannel.                                                             *)

USE ConstantsAssumption

-----------------------------------------------------------------------------
(* Types.                                                                  *)

\* The byte that stands for an ID is a byte.
LEMMA ByteOfType ==
    ASSUME NEW id \in Int
    PROVE  ByteOf(id) \in 0..(Bytes - 1)
BY DEF ByteOf

\* Among one more candidates than there are clients in the list, TNetwork::OpenID
\* finds one that no client has.
LEMMA OpenIDType ==
    ASSUME UdpTypeOK
    PROVE  OpenID \in Nat
<1> DEFINE Candidates == 0..Cardinality(mClients)
           Free == {i \in Candidates : \A d \in mClients : mID[d] # i}
           Used == {mID[d] : d \in mClients}
<1>1. IsFiniteSet(mClients) /\ Cardinality(mClients) \in Nat
  BY FS_Subset, FS_CardinalityType DEF UdpTypeOK
<1>2. IsFiniteSet(Candidates) /\ Cardinality(Candidates) = Cardinality(mClients) + 1
  BY <1>1, FS_Interval
<1>3. IsFiniteSet(Used) /\ Cardinality(Used) <= Cardinality(mClients) /\ Cardinality(Used) \in Nat
  <2>1. [d \in mClients |-> mID[d]] \in Surjection(mClients, Used)
    BY DEF Surjection
  <2>2. QED
    BY <1>1, <2>1, FS_Surjection, FS_CardinalityType
<1>4. Free # {}
  <2>1. ASSUME Candidates \subseteq Used PROVE FALSE
    <3>1. Cardinality(Candidates) <= Cardinality(Used)
      BY <1>3, <2>1, FS_Subset
    <3>2. QED
      BY <1>1, <1>2, <1>3, <3>1
  <2>2. QED
    BY <2>1
<1>5. Free \in SUBSET Nat
  OBVIOUS
<1>6. OpenID = CHOOSE i \in Free : \A j \in Free : i =< j
  BY DEF OpenID, Min
<1> HIDE DEF Free
<1>7. PICK i \in Free : \A j \in Free : ~ (<<j, i>> \in OpToRel(<, Nat))
  BY <1>4, <1>5, NatLessThanWellFounded, WFMin
<1>8. \A j \in Free : i =< j
  <2>1. \A j \in Free : ~ (j < i)
    BY <1>5, <1>7 DEF OpToRel
  <2>2. QED
    BY <1>5, <2>1
<1>9. QED
  BY <1>5, <1>6, <1>7, <1>8

\* A datagram on its way, or in hand, is a datagram.
LEMMA PacketType ==
    ASSUME UdpTypeOK, packet # None
    PROVE  /\ packet \in Datagram
           /\ packet.session \in Clients /\ packet.from \in Addresses
BY DEF UdpTypeOK, Datagram

-----------------------------------------------------------------------------
(* Sessions.                                                               *)

\* A session's ID is stored while no secret of it exists.
LEMMA SetIDKeepsInv ==
    ASSUME UdpIndInv, NEW c \in Clients, SetID(c)
    PROVE  UdpIndInv'
<1> USE DEF SetID, channelVars, threadVars, historyVars
<1>1. UdpTypeOK'
  BY DEF UdpIndInv, UdpTypeOK
<1>2. \A d \in Clients : mID[d] # -1 => mID'[d] = mID[d]
  BY DEF UdpIndInv, UdpTypeOK
<1>3. DatagramsAreGenuine'
  <2>1. \A m \in network : m.session \in Clients
    BY DEF UdpIndInv, UdpTypeOK, Datagram
  <2>2. \A m \in Datagram : m.session \in Clients /\ Genuine(m) => Genuine(m)'
    BY <1>2 DEF Genuine
  <2>3. QED
    BY <2>1, <2>2, PacketType DEF UdpIndInv, DatagramsAreGenuine, UdpTypeOK
<1>4. HandshakeInHand' /\ AddressesAreProven' /\ SendsToProvenAddress'
  BY DEF UdpIndInv, HandshakeInHand, AddressesAreProven, SendsToProvenAddress
<1>5. MagicNeedsID'
  BY <1>2 DEF UdpIndInv, MagicNeedsID, KnowsMagic
<1>6. ParsedWithIDs'
  <2>1. \A d \in Clients : \A e \in parsed[d] : e \in Clients
    BY DEF UdpIndInv, UdpTypeOK
  <2>2. QED
    BY <1>2, <2>1 DEF UdpIndInv, ParsedWithIDs
<1>7. QED
  BY <1>1, <1>3, <1>4, <1>5, <1>6 DEF UdpIndInv

\* The other steps of a session change nothing that the properties are about.
LEMMA SessionKeepsInv ==
    ASSUME UdpIndInv, NEW c \in Clients,
           InsertClient(c) \/ FindID(c) \/ SetMagic(c) \/ DisconnectClient(c) \/ RemoveClient(c)
    PROVE  UdpIndInv'
<1> USE DEF channelVars, clientVars, threadVars, historyVars
<1>1. /\ UNCHANGED <<mID, mUDPAddress, mIsUDPConnected, network, packet, todo, step, proven, sending,
                     parsed, sent>>
      /\ mMagic' = mMagic \/ (mMagic' = mMagic \cup {c} /\ mID[c] # -1)
  BY DEF InsertClient, FindID, SetMagic, DisconnectClient, RemoveClient
<1>2. UdpTypeOK'
  <2>1. CASE FindID(c)
    BY <2>1, OpenIDType DEF UdpIndInv, UdpTypeOK, FindID
  <2>2. CASE ~ FindID(c)
    BY <1>1, <2>2 DEF UdpIndInv, UdpTypeOK, InsertClient, SetMagic, DisconnectClient, RemoveClient
  <2>3. QED
    BY <2>1, <2>2
<1>3. DatagramsAreGenuine' /\ ParsedWithIDs'
  BY <1>1 DEF UdpIndInv, DatagramsAreGenuine, Genuine, ParsedWithIDs
<1>4. HandshakeInHand' /\ AddressesAreProven' /\ SendsToProvenAddress'
  BY <1>1 DEF UdpIndInv, HandshakeInHand, AddressesAreProven, SendsToProvenAddress
<1>5. MagicNeedsID'
  BY <1>1 DEF UdpIndInv, MagicNeedsID, KnowsMagic
<1>6. QED
  BY <1>2, <1>3, <1>4, <1>5 DEF UdpIndInv

-----------------------------------------------------------------------------
(* The network.                                                            *)

\* What a client sends carries its own ID and address.
LEMMA ClientSendsKeepsInv ==
    ASSUME UdpIndInv, NEW c \in Clients, NEW kind \in {"magic", "data"}, ClientSends(c, kind)
    PROVE  UdpIndInv'
<1> DEFINE new == [from |-> Address[c], session |-> c, byte |-> ByteOf(mID[c]), kind |-> kind]
<1> USE DEF channelVars, clientVars, threadVars, historyVars
<1>1. /\ network' = network \cup {new}
      /\ KnowsMagic(c)
      /\ UNCHANGED <<mClients, mID, openID, mDisconnected, mMagic, mUDPAddress, mIsUDPConnected,
                     packet, todo, step, proven, sending, parsed, sent>>
  BY DEF ClientSends
<1>2. new \in Datagram /\ Genuine(new)
  <2>1. mID[c] \in Int /\ mID[c] # -1
    BY <1>1 DEF UdpIndInv, UdpTypeOK, MagicNeedsID
  <2>2. ByteOf(mID[c]) \in 0..(Bytes - 1)
    BY <2>1, ByteOfType
  <2>3. QED
    BY <2>1, <2>2 DEF Datagram, Addresses, Genuine
<1> HIDE DEF new
<1>3. UdpTypeOK'
  BY <1>1, <1>2 DEF UdpIndInv, UdpTypeOK
<1>4. DatagramsAreGenuine' /\ ParsedWithIDs'
  BY <1>1, <1>2 DEF UdpIndInv, DatagramsAreGenuine, Genuine, ParsedWithIDs
<1>5. HandshakeInHand' /\ AddressesAreProven' /\ SendsToProvenAddress' /\ MagicNeedsID'
  BY <1>1 DEF UdpIndInv, HandshakeInHand, AddressesAreProven, SendsToProvenAddress, MagicNeedsID, KnowsMagic
<1>6. QED
  BY <1>3, <1>4, <1>5 DEF UdpIndInv

\* The network loses datagrams, or hands one over.
LEMMA NetworkKeepsInv ==
    ASSUME UdpIndInv, NEW m \in network, Lose(m) \/ Receive(m)
    PROVE  UdpIndInv'
<1> USE DEF channelVars, clientVars, threadVars, historyVars
<1>1. /\ network' \subseteq network
      /\ packet = None
      /\ packet' = packet \/ packet' = m
      /\ todo' = todo \/ todo' = mClients
      /\ UNCHANGED <<mClients, mID, openID, mDisconnected, mMagic, mUDPAddress, mIsUDPConnected,
                     step, proven, sending, parsed, sent>>
  BY DEF Lose, Receive
<1>2. step = "visit"
  BY <1>1 DEF UdpIndInv, HandshakeInHand
<1>3. UdpTypeOK'
  BY <1>1 DEF UdpIndInv, UdpTypeOK
<1>4. DatagramsAreGenuine' /\ ParsedWithIDs'
  BY <1>1 DEF UdpIndInv, DatagramsAreGenuine, Genuine, ParsedWithIDs
<1>5. HandshakeInHand' /\ AddressesAreProven' /\ SendsToProvenAddress' /\ MagicNeedsID'
  BY <1>1, <1>2 DEF UdpIndInv, HandshakeInHand, AddressesAreProven, SendsToProvenAddress, MagicNeedsID, KnowsMagic
<1>6. QED
  BY <1>3, <1>4, <1>5 DEF UdpIndInv

-----------------------------------------------------------------------------
(* UDPServerMain.                                                          *)

\* The UDP thread walks the list and finds nothing to do.
LEMMA WalkKeepsInv ==
    ASSUME UdpIndInv,
           (\E c \in Clients : PassOver(c) \/ Ignore(c)) \/ EndOfList
    PROVE  UdpIndInv'
<1> USE DEF channelVars, clientVars, threadVars, historyVars
<1>1. /\ packet' \in {packet, None}
      /\ todo' \subseteq todo
      /\ step = "visit"
      /\ UNCHANGED <<mClients, mID, openID, mDisconnected, mMagic, mUDPAddress, mIsUDPConnected,
                     network, step, proven, sending, parsed, sent>>
  BY DEF PassOver, Ignore, EndOfList, Visiting
<1>2. UdpTypeOK'
  BY <1>1 DEF UdpIndInv, UdpTypeOK
<1>3. DatagramsAreGenuine' /\ ParsedWithIDs'
  BY <1>1 DEF UdpIndInv, DatagramsAreGenuine, Genuine, ParsedWithIDs
<1>4. HandshakeInHand' /\ AddressesAreProven' /\ SendsToProvenAddress' /\ MagicNeedsID'
  BY <1>1 DEF UdpIndInv, HandshakeInHand, AddressesAreProven, SendsToProvenAddress, MagicNeedsID, KnowsMagic
<1>5. QED
  BY <1>2, <1>3, <1>4 DEF UdpIndInv

\* The three steps of a handshake: the magic is the client's own, and so the
\* address it came from is the client's.
LEMMA HandshakeKeepsInv ==
    ASSUME UdpIndInv,
           (\E c \in Clients : AcceptMagic(c)) \/ StoreAddress \/ StoreConnected
    PROVE  UdpIndInv'
<1> USE DEF channelVars, clientVars, threadVars, historyVars
<1>1. /\ UNCHANGED <<mClients, mID, openID, mDisconnected, packet, network, sending, parsed, sent>>
      /\ packet # None
  BY DEF UdpIndInv, HandshakeInHand, AcceptMagic, StoreAddress, StoreConnected, Visiting
<1>2. Genuine(packet) /\ packet.session \in Clients /\ packet.from \in Addresses
  BY <1>1, PacketType DEF UdpIndInv, DatagramsAreGenuine
<1>3. DatagramsAreGenuine' /\ ParsedWithIDs' /\ SendsToProvenAddress'
  BY <1>1 DEF UdpIndInv, DatagramsAreGenuine, Genuine, ParsedWithIDs, SendsToProvenAddress
<1>4. CASE \E c \in Clients : AcceptMagic(c)
  <2>1. PICK c \in Clients : AcceptMagic(c)
    BY <1>4
  <2>2. UdpTypeOK'
    BY <1>1, <2>1 DEF UdpIndInv, UdpTypeOK, AcceptMagic
  <2>3. HandshakeInHand' /\ AddressesAreProven'
    BY <1>1, <2>1 DEF UdpIndInv, HandshakeInHand, AddressesAreProven, AcceptMagic
  <2>4. MagicNeedsID'
    BY <1>1, <2>1 DEF UdpIndInv, MagicNeedsID, KnowsMagic, AcceptMagic, AwaitsMagic
  <2>5. QED
    BY <1>3, <2>2, <2>3, <2>4 DEF UdpIndInv
<1>5. CASE StoreAddress
  <2>1. proven = packet.session /\ packet.from = Address[proven]
    BY <1>2, <1>5 DEF UdpIndInv, HandshakeInHand, StoreAddress, Genuine
  <2>2. UdpTypeOK'
    BY <1>1, <1>2, <1>5 DEF UdpIndInv, UdpTypeOK, StoreAddress
  <2>3. mUDPAddress' = [mUDPAddress EXCEPT ![proven] = Address[proven]]
    BY <1>5, <2>1 DEF StoreAddress
  <2>4. HandshakeInHand'
    BY <1>1, <1>5, <2>1 DEF HandshakeInHand, StoreAddress
  <2>5. AddressesAreProven'
    BY <1>1, <1>2, <1>5, <2>1, <2>3 DEF UdpIndInv, UdpTypeOK, AddressesAreProven, StoreAddress
  <2>6. MagicNeedsID'
    BY <1>1, <1>2, <1>5, <2>1, <2>3 DEF UdpIndInv, UdpTypeOK, MagicNeedsID, KnowsMagic, Genuine, StoreAddress
  <2>7. QED
    BY <1>3, <2>2, <2>4, <2>5, <2>6 DEF UdpIndInv
<1>6. CASE StoreConnected
  <2>1. UdpTypeOK'
    BY <1>1, <1>2, <1>6 DEF UdpIndInv, UdpTypeOK, HandshakeInHand, StoreConnected
  <2>2. HandshakeInHand' /\ AddressesAreProven'
    BY <1>1, <1>6 DEF UdpIndInv, HandshakeInHand, AddressesAreProven, StoreConnected
  <2>3. MagicNeedsID'
    BY <1>1, <1>6 DEF UdpIndInv, MagicNeedsID, KnowsMagic, StoreConnected
  <2>4. QED
    BY <1>3, <2>1, <2>2, <2>3 DEF UdpIndInv
<1>7. QED
  BY <1>4, <1>5, <1>6

\* A datagram is parsed for a client whose address is its sender's, and whose
\* ID is the one its sender wrote.
LEMMA ParseKeepsUdpInv ==
    ASSUME UdpIndInv, NEW c \in Clients, Parse(c)
    PROVE  UdpIndInv'
<1> USE DEF channelVars, clientVars, threadVars, historyVars
<1>1. /\ parsed' = [parsed EXCEPT ![c] = @ \cup {packet.session}]
      /\ todo' \subseteq todo
      /\ UNCHANGED <<mClients, mID, openID, mDisconnected, mMagic, mUDPAddress, mIsUDPConnected,
                     network, packet, step, proven, sending, sent>>
      /\ packet # None /\ Matches(c) /\ mUDPAddress[c] = packet.from
  BY DEF Parse, Visiting
<1>2. Genuine(packet) /\ packet.session \in Clients /\ packet.from \in Addresses
  BY <1>1, PacketType DEF UdpIndInv, DatagramsAreGenuine
<1>3. mUDPAddress[c] # None /\ mUDPAddress[c] = Address[c]
  BY <1>1, <1>2 DEF UdpIndInv, AddressesAreProven, Addresses
<1>4. UdpTypeOK'
  BY <1>1, <1>2 DEF UdpIndInv, UdpTypeOK
<1>5. ParsedWithIDs'
  <2>1. mID[c] # -1
    BY <1>3 DEF UdpIndInv, MagicNeedsID, KnowsMagic
  <2>2. /\ mID[packet.session] # -1 /\ Address[packet.session] = Address[c]
        /\ mID[c] = IDOf(ByteOf(mID[packet.session]))
    BY <1>1, <1>2, <1>3 DEF Genuine, Matches
  <2>3. QED
    BY <1>1, <2>1, <2>2 DEF UdpIndInv, UdpTypeOK, ParsedWithIDs
<1>6. DatagramsAreGenuine'
  BY <1>1 DEF UdpIndInv, DatagramsAreGenuine, Genuine
<1>7. HandshakeInHand' /\ AddressesAreProven' /\ SendsToProvenAddress' /\ MagicNeedsID'
  BY <1>1 DEF UdpIndInv, HandshakeInHand, AddressesAreProven, SendsToProvenAddress, MagicNeedsID, KnowsMagic
<1>8. QED
  BY <1>4, <1>5, <1>6, <1>7 DEF UdpIndInv

-----------------------------------------------------------------------------
(* UDPSend.                                                                *)

\* UDPSend uses the address that it finds stored.
LEMMA SendKeepsInv ==
    ASSUME UdpIndInv, NEW c \in Clients, CheckConnected(c) \/ SendTo(c)
    PROVE  UdpIndInv'
<1> USE DEF channelVars, clientVars, threadVars, historyVars
<1>1. /\ UNCHANGED <<mClients, mID, openID, mMagic, mUDPAddress, mIsUDPConnected,
                     network, packet, todo, step, proven, parsed>>
      /\ sending' \subseteq sending \cup mIsUDPConnected
      /\ \/ UNCHANGED sent
         \/ c \in sending /\ sent' = [sent EXCEPT ![c] = @ \cup {mUDPAddress[c]}]
      /\ mDisconnected' \subseteq mDisconnected \cup {c}
  BY DEF CheckConnected, SendTo
<1>2. UdpTypeOK'
  BY <1>1 DEF UdpIndInv, UdpTypeOK
<1>3. SendsToProvenAddress'
  BY <1>1 DEF UdpIndInv, UdpTypeOK, AddressesAreProven, SendsToProvenAddress
<1>4. DatagramsAreGenuine' /\ ParsedWithIDs'
  BY <1>1 DEF UdpIndInv, DatagramsAreGenuine, Genuine, ParsedWithIDs
<1>5. HandshakeInHand' /\ AddressesAreProven' /\ MagicNeedsID'
  BY <1>1 DEF UdpIndInv, HandshakeInHand, AddressesAreProven, MagicNeedsID, KnowsMagic
<1>6. QED
  BY <1>2, <1>3, <1>4, <1>5 DEF UdpIndInv

-----------------------------------------------------------------------------
(* The theorems.                                                           *)

\* There are no sessions and no datagrams.
LEMMA InitUdpIndInv == UdpInit => UdpIndInv
<1> SUFFICES ASSUME UdpInit PROVE UdpIndInv
  OBVIOUS
<1> USE DEF UdpInit
<1>1. UdpTypeOK
  BY DEF UdpTypeOK
<1>2. DatagramsAreGenuine /\ HandshakeInHand /\ MagicNeedsID
  BY DEF DatagramsAreGenuine, HandshakeInHand, MagicNeedsID, KnowsMagic
<1>3. AddressesAreProven /\ ParsedWithIDs /\ SendsToProvenAddress
  BY DEF AddressesAreProven, ParsedWithIDs, SendsToProvenAddress
<1>4. QED
  BY <1>1, <1>2, <1>3 DEF UdpIndInv

\* Every step of sessions, server and network keeps the invariant.
LEMMA NextUdpIndInv == UdpIndInv /\ [UdpNext]_udpVars => UdpIndInv'
<1> SUFFICES ASSUME UdpIndInv, [UdpNext]_udpVars PROVE UdpIndInv'
  OBVIOUS
<1>1. ASSUME NEW c \in Clients,
             InsertClient(c) \/ FindID(c) \/ SetMagic(c) \/ DisconnectClient(c) \/ RemoveClient(c)
      PROVE  UdpIndInv'
  BY <1>1, SessionKeepsInv
<1>2. ASSUME NEW c \in Clients, SetID(c) PROVE UdpIndInv'
  BY <1>2, SetIDKeepsInv
<1>3. ASSUME NEW c \in Clients, NEW kind \in {"magic", "data"}, ClientSends(c, kind) PROVE UdpIndInv'
  BY <1>3, ClientSendsKeepsInv
<1>4. ASSUME NEW c \in Clients, CheckConnected(c) \/ SendTo(c) PROVE UdpIndInv'
  BY <1>4, SendKeepsInv
<1>5. ASSUME NEW m \in network, Lose(m) \/ Receive(m) PROVE UdpIndInv'
  BY <1>5, NetworkKeepsInv
<1>6. CASE HandleDatagram
  <2>1. ASSUME NEW c \in Clients, Parse(c) PROVE UdpIndInv'
    BY <2>1, ParseKeepsUdpInv
  <2>2. CASE (\E c \in Clients : PassOver(c) \/ Ignore(c)) \/ EndOfList
    BY <2>2, WalkKeepsInv
  <2>3. CASE (\E c \in Clients : AcceptMagic(c)) \/ StoreAddress \/ StoreConnected
    BY <2>3, HandshakeKeepsInv
  <2>4. QED
    BY <1>6, <2>1, <2>2, <2>3 DEF HandleDatagram
<1>7. CASE UNCHANGED udpVars
  <2>1. UdpTypeOK' /\ DatagramsAreGenuine' /\ HandshakeInHand' /\ MagicNeedsID'
    BY <1>7 DEF udpVars, UdpIndInv, UdpTypeOK, DatagramsAreGenuine, Genuine, HandshakeInHand, MagicNeedsID, KnowsMagic
  <2>2. AddressesAreProven' /\ ParsedWithIDs' /\ SendsToProvenAddress'
    BY <1>7 DEF udpVars, UdpIndInv, AddressesAreProven, ParsedWithIDs, SendsToProvenAddress
  <2>3. QED
    BY <2>1, <2>2 DEF UdpIndInv
<1>8. QED
  BY <1>1, <1>2, <1>3, <1>4, <1>5, <1>6, <1>7 DEF UdpNext

\* The invariant holds throughout: datagrams carry what is still their sender's
\* ID and address, and addresses are stored for those who proved them.
THEOREM UdpInvariance == UdpSpec => []UdpIndInv
BY InitUdpIndInv, NextUdpIndInv, PTL DEF UdpSpec

\* What UDPServerMain parses as a client's came from it, or from a session with
\* the same ID and the same address.
THEOREM DatagramsAreTheSenders == UdpSpec => []ParsedAsTheSenders
<1>1. UdpIndInv => ParsedAsTheSenders
  BY DEF UdpIndInv, ParsedWithIDs, ParsedAsTheSenders
<1>2. QED
  BY <1>1, UdpInvariance, PTL

\* UDPSend, which reads flag and address without a lock, uses no address but the
\* one that proved the client's magic.
THEOREM AddressesWereProven == UdpSpec => []SendsToProvenAddress
<1>1. UdpIndInv => SendsToProvenAddress
  BY DEF UdpIndInv
<1>2. QED
  BY <1>1, UdpInvariance, PTL

=============================================================================
