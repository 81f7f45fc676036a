--------------------------- MODULE SessionRegistry ---------------------------
(***************************************************************************)
(* The server's list of players, TServer::mClients, and the sessions that  *)
(* enter and leave it: one thread per connection runs                      *)
(* TNetwork::Authentication from the answer of the authentication backend, *)
(* TCPClient, OnConnect and OnDisconnect.                                  *)
(*                                                                         *)
(* mClientsMutex is held for single list operations only, and mOpenIDMutex *)
(* for the search of an ID but not for its assignment, so the checks that  *)
(* a joining session makes (of its namesakes, of the player limit, of the  *)
(* IDs in use) and the steps they justify are separate.                    *)
(***************************************************************************)
EXTENDS Integers, FiniteSets

CONSTANTS
    Sessions,   \* connections (one can be used again once it is over)
    Names,      \* player names, each with its guest flag
    MaxPlayers  \* General.MaxPlayers

ASSUME SessionsAssumption == IsFiniteSet(Sessions) /\ MaxPlayers \in Nat

VARIABLES
    pc,         \* every session's step
    name,       \* the name the backend gave it
    mClients,   \* the sessions in the list
    connected,  \* those whose mDisconnectState is Connected
    openID,     \* the ID that OpenID has returned and SetID has yet to store; 0 if none
    mID,        \* and the one SetID has stored; -1 if none
    bypassed,   \* history: sessions that a plugin let past the player limit
    overtaken,  \* history: sessions overtaken between limit check and insertion
    twins,      \* history: pairs of sessions whose check for namesakes missed the other
    raced       \* history: pairs of sessions that looked for an ID at the same time

registry == <<mClients, connected>>
ids == <<openID, mID>>
checks == <<bypassed, overtaken, twins>>
vars == <<pc, name, mClients, connected, openID, mID, bypassed, overtaken, twins, raced>>

Steps == {"offline", "stale", "auth", "insert", "start", "setID", "resources", "loop",
          "leaving", "unwinding", "caught"}
Ids == 0..Cardinality(Sessions)
Pairs == SUBSET Sessions

TypeOK ==
    /\ pc \in [Sessions -> Steps]
    /\ name \in [Sessions -> Names]
    /\ mClients \subseteq Sessions
    /\ connected \subseteq Sessions
    /\ openID \in [Sessions -> Ids]
    /\ mID \in [Sessions -> Ids \cup {-1}]
    /\ bypassed \subseteq Sessions
    /\ overtaken \subseteq Sessions
    /\ twins \subseteq Pairs
    /\ raced \subseteq Pairs

-----------------------------------------------------------------------------

Init ==
    /\ pc = [s \in Sessions |-> "offline"]
    /\ name \in [Sessions -> Names]
    /\ mClients = {}
    /\ connected = {}
    /\ openID = [s \in Sessions |-> 0]
    /\ mID = [s \in Sessions |-> -1]
    /\ bypassed = {}
    /\ overtaken = {}
    /\ twins = {}
    /\ raced = {}

GoTo(s, step) == pc' = [pc EXCEPT ![s] = step]

\* The backend has told the name of a new connection.
Authenticated(s, n) ==
    /\ pc[s] = "offline"
    /\ GoTo(s, "stale")
    /\ name' = [name EXCEPT ![s] = n]
    /\ connected' = connected \cup {s}
    /\ UNCHANGED <<mClients, ids, checks, raced>>

\* The session is over: disconnected, not in the list, and destroyed.
Over(s) ==
    /\ GoTo(s, "offline")
    /\ connected' = connected \ {s}
    /\ mClients' = mClients \ {s}
    /\ mID' = [mID EXCEPT ![s] = -1]
    /\ bypassed' = bypassed \ {s}
    /\ overtaken' = overtaken \ {s}
    /\ twins' = {p \in twins : s \notin p}
    /\ raced' = {p \in raced : s \notin p}
    /\ UNCHANGED <<name, openID>>

Namesakes(s) == {c \in Sessions \ {s} : name[c] = name[s]}

\* The namesakes that the check of s leaves alone: those not in the list yet,
\* and, once the check has hit one, the others in the list.
Missed(s, hit) ==
    {c \in Namesakes(s) : pc[c] \in {"auth", "insert"} \/ (hit # {} /\ c \in mClients \ hit)}

\* Mutant of DropStale: the stale client is not disconnected.
DropStale_Tolerant(s) ==
    /\ pc[s] = "stale"
    /\ twins' = twins \cup {{s, c} : c \in Missed(s, {})}
    /\ GoTo(s, "auth")
    /\ UNCHANGED <<name, registry, ids, bypassed, overtaken, raced>>

\* The loop over the clients stops at the first namesake, in the set's order,
\* and disconnects it ("Stale Client"); then onPlayerAuth is raised and waited
\* for.
DropStale(s) ==
    /\ pc[s] = "stale"
    /\ LET found == Namesakes(s) \cap mClients IN
       \E hit \in IF found = {} THEN {{}} ELSE {{c} : c \in found} :
            /\ connected' = connected \ hit
            /\ twins' = twins \cup {{s, c} : c \in Missed(s, hit)}
    /\ GoTo(s, "auth")
    /\ UNCHANGED <<name, mClients, ids, bypassed, overtaken, raced>>

ClientCount == Cardinality(mClients)

\* Mutant of HasRoom: one more than the limit.
HasRoom_OffByOne == ClientCount <= MaxPlayers

HasRoom == ClientCount < MaxPlayers

\* The plugins allow the player, or let them past the limit.
Allow(s, bypass) ==
    /\ pc[s] = "auth"
    /\ bypass \/ HasRoom
    /\ bypassed' = IF bypass THEN bypassed \cup {s} ELSE bypassed
    /\ GoTo(s, "insert")
    /\ UNCHANGED <<name, registry, ids, overtaken, twins, raced>>

\* A plugin refuses the player, or the server is full: ClientKick.
Refuse(s) ==
    /\ pc[s] = "auth"
    /\ Over(s)

InsertClient(s) ==
    /\ pc[s] = "insert"
    /\ mClients' = mClients \cup {s}
    /\ overtaken' = overtaken \cup {c \in Sessions \ {s} : pc[c] = "insert"}
    /\ GoTo(s, "start")
    /\ UNCHANGED <<name, connected, ids, bypassed, twins, raced>>

\* TCPClient finds the client disconnected already.
StartDisconnected(s) ==
    /\ pc[s] = "start"
    /\ s \notin connected
    /\ Over(s)

UsedIDs == {mID[c] : c \in mClients}

\* Mutant of OpenID: a client that is disconnected does not count.
OpenID_Connected ==
    CHOOSE i \in Ids : /\ i \notin {mID[c] : c \in mClients \cap connected}
                       /\ \A j \in Ids : j < i => j \in {mID[c] : c \in mClients \cap connected}

\* The lowest ID that no client in the list has.
OpenID == CHOOSE i \in Ids : i \notin UsedIDs /\ \A j \in Ids : j < i => j \in UsedIDs

\* OnConnect asks for an ID...
Start(s) ==
    /\ pc[s] = "start"
    /\ s \in connected
    /\ openID' = [openID EXCEPT ![s] = OpenID]
    /\ raced' = raced \cup {{s, c} : c \in {d \in Sessions \ {s} : pc[d] = "setID"}}
    /\ GoTo(s, "setID")
    /\ UNCHANGED <<name, registry, mID, checks>>

\* ... and stores it, without mOpenIDMutex; onPlayerConnecting is raised.
SetID(s) ==
    /\ pc[s] = "setID"
    /\ mID' = [mID EXCEPT ![s] = openID[s]]
    /\ openID' = [openID EXCEPT ![s] = 0]
    /\ GoTo(s, "resources")
    /\ UNCHANGED <<name, registry, checks, raced>>

\* SyncResources ends, with "Done" or with a failure that disconnects, and the
\* Looper's thread starts.
SyncResources(s, done) ==
    /\ pc[s] = "resources"
    /\ connected' = IF done THEN connected ELSE connected \ {s}
    /\ GoTo(s, "loop")
    /\ UNCHANGED <<name, mClients, ids, checks, raced>>

\* TCPRcv fails, or a packet cannot be parsed.
ReceiveFails(s) ==
    /\ pc[s] = "loop"
    /\ connected' = connected \ {s}
    /\ UNCHANGED <<pc, name, mClients, ids, checks, raced>>

\* Mutant of OnDisconnect: the player is forgotten before the handlers run.
OnDisconnect_RemovesFirst(s) ==
    /\ pc[s] = "loop"
    /\ s \notin connected
    /\ mClients' = mClients \ {s}
    /\ GoTo(s, "leaving")
    /\ UNCHANGED <<name, connected, ids, checks, raced>>

\* The loop ends and OnDisconnect raises onPlayerDisconnect and waits for it.
OnDisconnect(s) ==
    /\ pc[s] = "loop"
    /\ s \notin connected
    /\ GoTo(s, "leaving")
    /\ UNCHANGED <<name, registry, ids, checks, raced>>

\* Mutant of RemoveClient: the list keeps the client.
RemoveClient_Keeps(s) ==
    /\ pc[s] = "leaving"
    /\ UNCHANGED <<pc, name, registry, ids, checks, raced>>

\* The handlers have returned.
RemoveClient(s) ==
    /\ pc[s] = "leaving"
    /\ Over(s)

\* An exception after InsertClient (the Looper's thread cannot be started; no
\* memory for a packet): Identify catches it and closes the socket it was
\* given, from which the client's has been moved.
Throws(s) ==
    /\ pc[s] = "resources"
    /\ GoTo(s, "caught")
    /\ UNCHANGED <<name, registry, ids, checks, raced>>

\* Once the Looper runs, the exception first waits for it to end.
ThrowsInLoop(s) ==
    /\ pc[s] = "loop"
    /\ GoTo(s, "unwinding")
    /\ UNCHANGED <<name, registry, ids, checks, raced>>

LooperJoined(s) ==
    /\ pc[s] = "unwinding"
    /\ s \notin connected
    /\ GoTo(s, "caught")
    /\ UNCHANGED <<name, registry, ids, checks, raced>>

\* A plugin, the time-out or the shutdown disconnects a client of the list.
Disconnected(s) ==
    /\ s \in mClients \cap connected
    /\ connected' = connected \ {s}
    /\ UNCHANGED <<pc, name, mClients, ids, checks, raced>>

-----------------------------------------------------------------------------

Join(s) ==
    \/ DropStale(s) \/ Refuse(s) \/ InsertClient(s)
    \/ \E bypass \in BOOLEAN : Allow(s, bypass)

Serve(s) == StartDisconnected(s) \/ Start(s) \/ SetID(s)

Leave(s) == OnDisconnect(s) \/ RemoveClient(s) \/ LooperJoined(s)

Next ==
    \E s \in Sessions :
        \/ \E n \in Names : Authenticated(s, n)
        \/ Join(s) \/ Serve(s) \/ Leave(s)
        \/ \E done \in BOOLEAN : SyncResources(s, done)
        \/ ReceiveFails(s) \/ Throws(s) \/ ThrowsInLoop(s) \/ Disconnected(s)

Spec == Init /\ [][Next]_vars

\* Threads run, plugins' handlers return, and a receive on a client that is
\* disconnected fails.  Nothing makes a client send "Done", leave, or time out.
Fairness ==
    \A s \in Sessions :
        /\ WF_vars(Serve(s) \/ Leave(s))
        /\ WF_vars(s \notin connected /\ SyncResources(s, FALSE))

FairSpec == Spec /\ Fairness

-----------------------------------------------------------------------------
(* Properties.                                                             *)

HasID(s) == s \in mClients /\ mID[s] >= 0

\* Two players in the list never have the same ID, not even while one of them
\* is still being torn down, unless both were looking for an ID at the same
\* time: mOpenIDMutex does not cover the assignment.
SameIDOnlyIfRaced ==
    \A s, t \in Sessions : s # t /\ HasID(s) /\ HasID(t) /\ mID[s] = mID[t] => {s, t} \in raced

\* Why it holds: an ID on its way to being assigned is in use by nobody else,
\* unless the two raced.
ReservedIDs ==
    \A s, t \in Sessions : s # t /\ pc[s] = "setID" =>
        /\ pc[t] = "setID" => {s, t} \in raced
        /\ HasID(t) /\ mID[t] = openID[s] => {s, t} \in raced

\* While the plugins handle onPlayerDisconnect(ID), that ID still belongs to the
\* player who leaves: a lookup by ID finds them, and not a successor.
LeaverKeepsID ==
    \A s \in Sessions : pc[s] = "leaving" =>
        /\ HasID(s)
        /\ \A t \in Sessions \ {s} : HasID(t) /\ mID[t] = mID[s] => {s, t} \in raced

\* A player is never connected twice, unless neither of the two was in the list
\* when the other looked, or the check was satisfied with a third session.
OneSessionPerName ==
    \A s, t \in mClients \cap connected :
        s # t /\ name[s] = name[t] => {s, t} \in twins

\* Why it holds: the same, from the check on.
Checked == Steps \ {"offline", "stale"}
CheckedNamesakes ==
    \A s, t \in connected :
        s # t /\ name[s] = name[t] /\ pc[s] \in Checked /\ pc[t] \in Checked => {s, t} \in twins

\* The list exceeds the player limit only by sessions that a plugin let past
\* it, or that others overtook after their check.
WithinLimit == mClients \ (bypassed \cup overtaken)
PlayerLimit == Cardinality(WithinLimit) <= MaxPlayers

\* Why it holds: whoever has passed the check, and has not been overtaken, still
\* finds room.
RoomLeft ==
    \A s \in Sessions :
        pc[s] = "insert" /\ s \notin bypassed \cup overtaken => Cardinality(WithinLimit) < MaxPlayers

\* Why the list and the threads agree: which steps are taken in the list.
Serving == {"resources", "loop", "leaving", "unwinding", "caught"}
Listed == {"start", "setID"} \cup Serving
ListMatchesThreads ==
    \A s \in Sessions :
        /\ s \in mClients <=> pc[s] \in Listed
        /\ mID[s] >= 0 <=> pc[s] \in Serving

\* The inductive invariant.
IndInv ==
    /\ TypeOK
    /\ ListMatchesThreads
    /\ ReservedIDs
    /\ SameIDOnlyIfRaced
    /\ CheckedNamesakes
    /\ RoomLeft
    /\ PlayerLimit

\* A client that is disconnected leaves the list, whatever step it was at,
\* except after an exception.
DisconnectedLeave ==
    \A s \in Sessions :
        s \in mClients \ connected ~> s \notin mClients \/ pc[s] = "caught"

\* Stated at TNetwork.cpp:360, "client left in invalid state, closing socket":
\* when the exception has been handled, the client's socket is closed.  The
\* code does not do this: Throws is a step to the contrary.
ExceptionClosesSocket == \A s \in Sessions : pc[s] = "caught" => s \notin connected
=============================================================================
