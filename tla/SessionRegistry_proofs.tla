----------------------- MODULE SessionRegistry_proofs -----------------------
(***************************************************************************)
(* Proofs about SessionRegistry, for any number of sessions, any names and *)
(* any player limit.                                                       *)
(***************************************************************************)
EXTENDS SessionRegistry, FiniteSetTheorems, WellFoundedInduction, TLAPS

USE SessionsAssumption

-----------------------------------------------------------------------------
(* The choice of an ID.                                                    *)

\* TNetwork::OpenID finds an ID that no client in the list has: there is one
\* more candidate than there can be clients.
LEMMA OpenIDIsUnused ==
    ASSUME TypeOK
    PROVE  OpenID \in Ids \ UsedIDs
<1>1. Cardinality(Sessions) \in Nat
  BY FS_CardinalityType
<1>2. IsFiniteSet(Ids) /\ Cardinality(Ids) = Cardinality(Sessions) + 1
  BY <1>1, FS_Interval DEF Ids
<1>3. IsFiniteSet(mClients) /\ Cardinality(mClients) <= Cardinality(Sessions)
  BY FS_Subset DEF TypeOK
<1>4. IsFiniteSet(UsedIDs) /\ Cardinality(UsedIDs) <= Cardinality(mClients)
  <2>1. [c \in mClients |-> mID[c]] \in Surjection(mClients, UsedIDs)
    BY DEF UsedIDs, Surjection
  <2>2. QED
    BY <1>3, <2>1, FS_Surjection
<1>5. Ids \ UsedIDs # {}
  <2>1. Cardinality(mClients) \in Nat /\ Cardinality(UsedIDs) \in Nat
    BY <1>3, <1>4, FS_CardinalityType
  <2>2. ~ (Ids \subseteq UsedIDs)
    BY <1>1, <1>2, <1>3, <1>4, <2>1, FS_Subset
  <2>3. QED
    BY <2>2
<1> DEFINE Free == Ids \ UsedIDs
<1>6. Free \in SUBSET Nat
  BY DEF Ids
<1> HIDE DEF Free
<1>7. PICK i \in Free : \A j \in Free : ~ (<<j, i>> \in OpToRel(<, Nat))
  <2>1. Free # {}
    BY <1>5 DEF Free
  <2>2. QED
    BY <1>6, <2>1, NatLessThanWellFounded, WFMin
<1>8. \A j \in Free : ~ (j < i)
  BY <1>6, <1>7 DEF OpToRel
<1>9. i \in Ids /\ i \notin UsedIDs /\ \A j \in Ids : j < i => j \in UsedIDs
  BY <1>8 DEF Free
<1>10. QED
  BY <1>9 DEF OpenID

-----------------------------------------------------------------------------
(* The steps.                                                              *)

\* A step of a session that is being served, or the loss of its connection.
Quiet(s) ==
    /\ \/ UNCHANGED pc
       \/ \E step \in Serving : pc[s] \in Serving /\ GoTo(s, step)
    /\ connected' \in {connected, connected \ {s}}
    /\ UNCHANGED <<name, mClients, ids, checks, raced>>

\* Most steps move a session and leave list, IDs and checks alone.
LEMMA QuietSteps ==
    ASSUME NEW s \in Sessions,
           \/ \E done \in BOOLEAN : SyncResources(s, done)
           \/ ReceiveFails(s) \/ OnDisconnect(s) \/ LooperJoined(s)
           \/ Throws(s) \/ ThrowsInLoop(s) \/ Disconnected(s)
    PROVE  Quiet(s)
<1> USE DEF Quiet, Serving, GoTo, registry, ids, checks
<1>1. ASSUME NEW done \in BOOLEAN, SyncResources(s, done) PROVE Quiet(s)
  BY <1>1 DEF SyncResources
<1>2. CASE ReceiveFails(s) \/ Disconnected(s)
  BY <1>2 DEF ReceiveFails, Disconnected
<1>3. CASE OnDisconnect(s) \/ LooperJoined(s) \/ Throws(s) \/ ThrowsInLoop(s)
  BY <1>3 DEF OnDisconnect, LooperJoined, Throws, ThrowsInLoop
<1>4. QED
  BY <1>1, <1>2, <1>3

\* Such a step keeps the invariant.
LEMMA QuietKeepsInv ==
    ASSUME IndInv, NEW s \in Sessions, Quiet(s)
    PROVE  IndInv'
<1> USE DEF IndInv, TypeOK, Quiet, GoTo, ids, checks
<1>1. /\ pc' \in [Sessions -> Steps]
      /\ \A t \in Sessions :
            pc'[t] # pc[t] => pc[t] \in Serving /\ pc'[t] \in Serving
      /\ connected' \subseteq connected
      /\ UNCHANGED <<name, mClients, openID, mID, bypassed, overtaken, twins, raced>>
  BY DEF Serving, Steps
<1>2. TypeOK'
  BY <1>1 DEF Pairs
<1>3. ListMatchesThreads'
  BY <1>1 DEF ListMatchesThreads, Listed
<1>4. \A t \in Sessions : /\ pc'[t] = "setID" => pc[t] = "setID"
                          /\ pc'[t] = "insert" => pc[t] = "insert"
                          /\ pc'[t] \in Checked => pc[t] \in Checked
  BY <1>1 DEF Serving, Checked, Steps
<1>5. ReservedIDs' /\ SameIDOnlyIfRaced'
  BY <1>1, <1>4 DEF ReservedIDs, SameIDOnlyIfRaced, HasID
<1>6. CheckedNamesakes'
  BY <1>1, <1>4 DEF CheckedNamesakes
<1>7. RoomLeft' /\ PlayerLimit'
  BY <1>1, <1>4 DEF RoomLeft, PlayerLimit, WithinLimit
<1>8. QED
  BY <1>2, <1>3, <1>5, <1>6, <1>7

\* The room that those within the limit take up.
LEMMA RoomTaken ==
    ASSUME TypeOK
    PROVE  /\ IsFiniteSet(WithinLimit)
           /\ Cardinality(WithinLimit) \in Nat
           /\ Cardinality(WithinLimit) <= ClientCount
           /\ \A s \in Sessions : /\ IsFiniteSet(WithinLimit \ {s})
                                  /\ Cardinality(WithinLimit \ {s}) \in Nat
                                  /\ Cardinality(WithinLimit \ {s}) <= Cardinality(WithinLimit)
           /\ \A s \in Sessions : Cardinality(WithinLimit \cup {s}) <= Cardinality(WithinLimit) + 1
<1>1. IsFiniteSet(mClients)
  BY FS_Subset DEF TypeOK
<1>2. IsFiniteSet(WithinLimit) /\ Cardinality(WithinLimit) <= ClientCount
  BY <1>1, FS_Subset DEF WithinLimit, ClientCount
<1>3. Cardinality(WithinLimit) \in Nat
  BY <1>2, FS_CardinalityType
<1>4. ASSUME NEW s \in Sessions
      PROVE  /\ IsFiniteSet(WithinLimit \ {s})
             /\ Cardinality(WithinLimit \ {s}) \in Nat
             /\ Cardinality(WithinLimit \ {s}) <= Cardinality(WithinLimit)
  BY <1>2, FS_Subset, FS_CardinalityType
<1>5. ASSUME NEW s \in Sessions
      PROVE  Cardinality(WithinLimit \cup {s}) <= Cardinality(WithinLimit) + 1
  <2>1. Cardinality(WithinLimit \cup {s}) =
          IF s \in WithinLimit THEN Cardinality(WithinLimit) ELSE Cardinality(WithinLimit) + 1
    BY <1>2, FS_AddElement
  <2>2. QED
    BY <1>3, <2>1
<1>6. QED
  BY <1>2, <1>3, <1>4, <1>5

\* A session gets its name.
LEMMA AuthenticatedKeepsInv ==
    ASSUME IndInv, NEW s \in Sessions, NEW n \in Names, Authenticated(s, n)
    PROVE  IndInv'
<1> USE DEF IndInv, TypeOK, Authenticated, GoTo, ids, checks
<1>1. /\ pc' \in [Sessions -> Steps]
      /\ pc'[s] = "stale" /\ \A t \in Sessions \ {s} : pc'[t] = pc[t]
      /\ name' \in [Sessions -> Names] /\ \A t \in Sessions \ {s} : name'[t] = name[t]
      /\ connected' = connected \cup {s}
      /\ UNCHANGED <<mClients, openID, mID, bypassed, overtaken, twins, raced>>
  BY DEF Steps
<1>2. TypeOK'
  BY <1>1 DEF Pairs
<1>3. ListMatchesThreads'
  BY <1>1 DEF ListMatchesThreads, Listed, Serving
<1>4. ReservedIDs' /\ SameIDOnlyIfRaced'
  BY <1>1 DEF ReservedIDs, SameIDOnlyIfRaced, HasID
<1>5. CheckedNamesakes'
  BY <1>1 DEF CheckedNamesakes, Checked
<1>6. RoomLeft' /\ PlayerLimit'
  BY <1>1 DEF RoomLeft, PlayerLimit, WithinLimit
<1>7. QED
  BY <1>2, <1>3, <1>4, <1>5, <1>6

\* The check for namesakes leaves no connected one behind but those it missed.
LEMMA DropStaleKeepsInv ==
    ASSUME IndInv, NEW s \in Sessions, DropStale(s)
    PROVE  IndInv'
<1> USE DEF IndInv, TypeOK, GoTo, registry, ids
<1>1. PICK hit \in SUBSET (Namesakes(s) \cap mClients) :
        /\ hit = {} => Namesakes(s) \cap mClients = {}
        /\ connected' = connected \ hit
        /\ twins' = twins \cup {{s, c} : c \in Missed(s, hit)}
  BY DEF DropStale
<1>2. /\ pc[s] = "stale" /\ pc' \in [Sessions -> Steps]
      /\ pc'[s] = "auth" /\ \A t \in Sessions \ {s} : pc'[t] = pc[t]
      /\ UNCHANGED <<name, mClients, openID, mID, bypassed, overtaken, raced>>
  BY DEF DropStale, Steps
<1>3. TypeOK'
  <2>1. \A c \in Missed(s, hit) : {s, c} \in Pairs
    BY DEF Missed, Namesakes, Pairs
  <2>2. QED
    BY <1>1, <1>2, <2>1
<1>4. ListMatchesThreads'
  BY <1>2 DEF ListMatchesThreads, Listed, Serving
<1>5. ReservedIDs' /\ SameIDOnlyIfRaced'
  BY <1>2 DEF ReservedIDs, SameIDOnlyIfRaced, HasID
<1>6. CheckedNamesakes'
  <2>1. ASSUME NEW c \in connected', c # s, name[c] = name[s], pc[c] \in Checked
        PROVE  {s, c} \in twins'
    <3>1. c \in Namesakes(s) /\ c \notin hit
      BY <1>1, <2>1 DEF Namesakes
    <3>2. pc[c] \in {"auth", "insert"} \/ c \in mClients
      BY <2>1, <3>1 DEF Checked, Steps, ListMatchesThreads, Listed, Serving, Namesakes
    <3>3. c \in mClients => hit # {}
      BY <1>1, <3>1
    <3>4. c \in Missed(s, hit)
      BY <3>1, <3>2, <3>3 DEF Missed
    <3>5. QED
      BY <1>1, <3>4
  <2>2. ASSUME NEW t \in connected', NEW u \in connected', t # u, t # s, u # s,
               name[t] = name[u], pc[t] \in Checked, pc[u] \in Checked
        PROVE  {t, u} \in twins'
    BY <1>1, <2>2 DEF CheckedNamesakes
  <2>3. \A c : {s, c} = {c, s}
    OBVIOUS
  <2>4. connected' \subseteq Sessions
    BY <1>1
  <2>5. QED
    BY <1>2, <2>1, <2>2, <2>3, <2>4 DEF CheckedNamesakes
<1>7. RoomLeft' /\ PlayerLimit'
  BY <1>2 DEF RoomLeft, PlayerLimit, WithinLimit
<1>8. QED
  BY <1>3, <1>4, <1>5, <1>6, <1>7

\* A plugin lets it in, past the limit or not.
LEMMA AllowKeepsInv ==
    ASSUME IndInv, NEW s \in Sessions, NEW bypass \in BOOLEAN, Allow(s, bypass)
    PROVE  IndInv'
<1> USE DEF IndInv, TypeOK, Allow, GoTo, registry, ids
<1>1. /\ pc[s] = "auth" /\ pc' \in [Sessions -> Steps]
      /\ pc'[s] = "insert" /\ \A t \in Sessions \ {s} : pc'[t] = pc[t]
      /\ bypassed' = IF bypass THEN bypassed \cup {s} ELSE bypassed
      /\ bypass \/ HasRoom
      /\ UNCHANGED <<name, mClients, connected, openID, mID, overtaken, twins, raced>>
  BY DEF Steps
<1>2. TypeOK'
  BY <1>1 DEF Pairs
<1>3. ListMatchesThreads'
  BY <1>1 DEF ListMatchesThreads, Listed, Serving
<1>4. ReservedIDs' /\ SameIDOnlyIfRaced'
  BY <1>1 DEF ReservedIDs, SameIDOnlyIfRaced, HasID
<1>5. CheckedNamesakes'
  BY <1>1 DEF CheckedNamesakes, Checked
<1>6. WithinLimit' = WithinLimit
  <2>1. s \notin mClients
    BY <1>1 DEF ListMatchesThreads, Listed, Serving
  <2>2. QED
    BY <1>1, <2>1 DEF WithinLimit
<1>7. RoomLeft' /\ PlayerLimit'
  <2>1. ASSUME s \notin bypassed' PROVE Cardinality(WithinLimit) < MaxPlayers
    <3>1. ClientCount < MaxPlayers
      BY <1>1, <2>1 DEF HasRoom
    <3>2. IsFiniteSet(mClients) /\ ClientCount \in Nat
      BY FS_Subset, FS_CardinalityType DEF ClientCount
    <3>3. QED
      BY <3>1, <3>2, RoomTaken
  <2>2. PlayerLimit'
    BY <1>6 DEF PlayerLimit
  <2>3. RoomLeft'
    BY <1>1, <1>6, <2>1 DEF RoomLeft
  <2>4. QED
    BY <2>2, <2>3
<1>8. QED
  BY <1>2, <1>3, <1>4, <1>5, <1>7

\* A session that is over takes its place, its name and its ID with it.
LEMMA OverKeepsInv ==
    ASSUME IndInv, NEW s \in Sessions, Over(s)
    PROVE  IndInv'
<1> USE DEF IndInv, TypeOK, Over, GoTo
<1>1. /\ pc' \in [Sessions -> Steps]
      /\ pc'[s] = "offline" /\ \A t \in Sessions \ {s} : pc'[t] = pc[t]
      /\ mID' \in [Sessions -> Ids \cup {-1}]
      /\ mID'[s] = -1 /\ \A t \in Sessions \ {s} : mID'[t] = mID[t]
      /\ connected' = connected \ {s} /\ mClients' = mClients \ {s}
      /\ bypassed' = bypassed \ {s} /\ overtaken' = overtaken \ {s}
      /\ \A t, u \in Sessions \ {s} : /\ {t, u} \in twins => {t, u} \in twins'
                                      /\ {t, u} \in raced => {t, u} \in raced'
      /\ UNCHANGED <<name, openID>>
  BY DEF Steps
<1>2. TypeOK'
  BY <1>1 DEF Pairs
<1>3. ListMatchesThreads'
  BY <1>1 DEF ListMatchesThreads, Listed, Serving
<1>4. ReservedIDs'
  BY <1>1 DEF ReservedIDs, HasID
<1>5. SameIDOnlyIfRaced'
  BY <1>1 DEF SameIDOnlyIfRaced, HasID
<1>6. CheckedNamesakes'
  BY <1>1 DEF CheckedNamesakes, Checked
<1>7. WithinLimit' = WithinLimit \ {s}
  BY <1>1 DEF WithinLimit
<1>8. PlayerLimit'
  <2>1. /\ Cardinality(WithinLimit \ {s}) <= Cardinality(WithinLimit)
        /\ Cardinality(WithinLimit \ {s}) \in Nat /\ Cardinality(WithinLimit) \in Nat
    BY RoomTaken
  <2>2. Cardinality(WithinLimit) <= MaxPlayers
    BY DEF PlayerLimit
  <2>3. Cardinality(WithinLimit \ {s}) <= MaxPlayers
    BY <2>1, <2>2, SessionsAssumption
  <2>4. QED
    BY <1>7, <2>3 DEF PlayerLimit
<1>9. RoomLeft'
  <2>1. ASSUME NEW t \in Sessions, pc'[t] = "insert", t \notin bypassed' \cup overtaken'
        PROVE  Cardinality(WithinLimit') < MaxPlayers
    <3>1. Cardinality(WithinLimit) < MaxPlayers
      BY <1>1, <2>1 DEF RoomLeft
    <3>2. /\ Cardinality(WithinLimit \ {s}) <= Cardinality(WithinLimit)
          /\ Cardinality(WithinLimit \ {s}) \in Nat /\ Cardinality(WithinLimit) \in Nat
      BY RoomTaken
    <3>3. Cardinality(WithinLimit \ {s}) < MaxPlayers
      BY <3>1, <3>2, SessionsAssumption
    <3>4. QED
      BY <1>7, <3>3
  <2>2. QED
    BY <2>1 DEF RoomLeft
<1>10. QED
  BY <1>2, <1>3, <1>4, <1>5, <1>6, <1>8, <1>9

\* It enters the list.
LEMMA InsertClientKeepsInv ==
    ASSUME IndInv, NEW s \in Sessions, InsertClient(s)
    PROVE  IndInv'
<1> USE DEF IndInv, TypeOK, InsertClient, GoTo, ids
<1>1. /\ pc[s] = "insert" /\ pc' \in [Sessions -> Steps]
      /\ pc'[s] = "start" /\ \A t \in Sessions \ {s} : pc'[t] = pc[t]
      /\ mClients' = mClients \cup {s}
      /\ overtaken' = overtaken \cup {c \in Sessions \ {s} : pc[c] = "insert"}
      /\ UNCHANGED <<name, connected, openID, mID, bypassed, twins, raced>>
  BY DEF Steps
<1>2. TypeOK'
  BY <1>1 DEF Pairs
<1>3. ListMatchesThreads'
  BY <1>1 DEF ListMatchesThreads, Listed, Serving
<1>4. ~(mID[s] >= 0)
  BY <1>1 DEF ListMatchesThreads, Serving
<1>5. ReservedIDs' /\ SameIDOnlyIfRaced'
  BY <1>1, <1>4 DEF ReservedIDs, SameIDOnlyIfRaced, HasID
<1>6. CheckedNamesakes'
  BY <1>1 DEF CheckedNamesakes, Checked, Steps
<1>7. \A c \in Sessions : pc[c] = "insert" => c \notin mClients
  BY DEF ListMatchesThreads, Listed, Serving
<1>8. RoomLeft'
  BY <1>1 DEF RoomLeft
<1>9. PlayerLimit'
  <2>1. CASE s \in bypassed \cup overtaken
    <3>1. WithinLimit' = WithinLimit
      BY <1>1, <1>7, <2>1 DEF WithinLimit
    <3>2. QED
      BY <3>1 DEF PlayerLimit
  <2>2. CASE s \notin bypassed \cup overtaken
    <3>1. WithinLimit' = WithinLimit \cup {s}
      BY <1>1, <1>7, <2>2 DEF WithinLimit
    <3>2. Cardinality(WithinLimit) < MaxPlayers
      BY <1>1, <2>2 DEF RoomLeft
    <3>3. Cardinality(WithinLimit \cup {s}) <= Cardinality(WithinLimit) + 1
      BY RoomTaken
    <3>4. Cardinality(WithinLimit \cup {s}) \in Nat
      BY RoomTaken, FS_AddElement, FS_CardinalityType
    <3>5. QED
      BY <3>1, <3>2, <3>3, <3>4, RoomTaken DEF PlayerLimit
  <2>3. QED
    BY <2>1, <2>2
<1>10. QED
  BY <1>2, <1>3, <1>5, <1>6, <1>8, <1>9

\* The ID is nobody's, and whoever is about to store one raced with s.
LEMMA StartKeepsInv ==
    ASSUME IndInv, NEW s \in Sessions, Start(s)
    PROVE  IndInv'
<1> USE DEF IndInv, TypeOK, Start, GoTo, registry, checks
<1>1. OpenID \in Ids \ UsedIDs
  BY OpenIDIsUnused
<1>2. /\ pc[s] = "start" /\ pc' \in [Sessions -> Steps]
      /\ pc'[s] = "setID" /\ \A t \in Sessions \ {s} : pc'[t] = pc[t]
      /\ openID' \in [Sessions -> Ids]
      /\ openID'[s] = OpenID /\ \A t \in Sessions \ {s} : openID'[t] = openID[t]
      /\ raced' = raced \cup {{s, c} : c \in {d \in Sessions \ {s} : pc[d] = "setID"}}
      /\ UNCHANGED <<name, mClients, connected, mID, bypassed, overtaken, twins>>
  BY <1>1 DEF Steps
<1>3. TypeOK'
  <2>1. \A c \in Sessions : {s, c} \in Pairs
    BY DEF Pairs
  <2>2. QED
    BY <1>2, <2>1
<1>4. ListMatchesThreads'
  BY <1>2 DEF ListMatchesThreads, Listed, Serving
<1>5. ReservedIDs'
  <2>1. ASSUME NEW t \in Sessions \ {s}, pc[t] = "setID"
        PROVE  {s, t} \in raced' /\ {t, s} \in raced'
    <3>1. {s, t} = {t, s}
      OBVIOUS
    <3>2. QED
      BY <1>2, <2>1, <3>1
  <2>2. ASSUME NEW t \in Sessions \ {s}, HasID(t)
        PROVE  mID[t] # OpenID
    BY <1>1, <2>2 DEF HasID, UsedIDs
  <2>3. ~(mID[s] >= 0)
    BY <1>2 DEF ListMatchesThreads, Serving
  <2>4. QED
    BY <1>2, <2>1, <2>2, <2>3 DEF ReservedIDs, HasID
<1>6. SameIDOnlyIfRaced'
  BY <1>2 DEF SameIDOnlyIfRaced, HasID
<1>7. CheckedNamesakes'
  BY <1>2 DEF CheckedNamesakes, Checked, Steps
<1>8. RoomLeft' /\ PlayerLimit'
  BY <1>2 DEF RoomLeft, PlayerLimit, WithinLimit
<1>9. QED
  BY <1>3, <1>4, <1>5, <1>6, <1>7, <1>8

\* It takes the ID that it found.
LEMMA SetIDKeepsInv ==
    ASSUME IndInv, NEW s \in Sessions, SetID(s)
    PROVE  IndInv'
<1> USE DEF IndInv, TypeOK, SetID, GoTo, registry, checks
<1>1. 0 \in Ids /\ \A i \in Ids : i >= 0
  BY FS_CardinalityType DEF Ids
<1>2. /\ pc[s] = "setID" /\ pc' \in [Sessions -> Steps]
      /\ pc'[s] = "resources" /\ \A t \in Sessions \ {s} : pc'[t] = pc[t]
      /\ mID' \in [Sessions -> Ids \cup {-1}]
      /\ mID'[s] = openID[s] /\ \A t \in Sessions \ {s} : mID'[t] = mID[t]
      /\ openID' \in [Sessions -> Ids] /\ \A t \in Sessions \ {s} : openID'[t] = openID[t]
      /\ UNCHANGED <<name, mClients, connected, bypassed, overtaken, twins, raced>>
  BY <1>1 DEF Steps
<1>3. TypeOK'
  BY <1>2 DEF Pairs
<1>4. ListMatchesThreads'
  BY <1>1, <1>2 DEF ListMatchesThreads, Listed, Serving
<1>5. \A t \in Sessions \ {s} : {t, s} = {s, t}
  OBVIOUS
<1>6. ReservedIDs'
  BY <1>2, <1>5 DEF ReservedIDs, HasID
<1>7. SameIDOnlyIfRaced'
  BY <1>2, <1>5 DEF SameIDOnlyIfRaced, ReservedIDs, HasID
<1>8. CheckedNamesakes'
  BY <1>2 DEF CheckedNamesakes, Checked, Steps
<1>9. RoomLeft' /\ PlayerLimit'
  BY <1>2 DEF RoomLeft, PlayerLimit, WithinLimit
<1>10. QED
  BY <1>3, <1>4, <1>6, <1>7, <1>8, <1>9

-----------------------------------------------------------------------------
(* The theorems.                                                           *)

\* Nobody is there.
LEMMA InitIndInv == Init => IndInv
<1> SUFFICES ASSUME Init PROVE IndInv
  OBVIOUS
<1>1. Cardinality(Sessions) \in Nat
  BY FS_CardinalityType
<1>2. TypeOK
  BY <1>1 DEF Init, TypeOK, Steps, Ids, Pairs
<1>3. ListMatchesThreads
  BY DEF Init, ListMatchesThreads, Listed, Serving
<1>4. ReservedIDs /\ SameIDOnlyIfRaced /\ CheckedNamesakes /\ RoomLeft
  BY DEF Init, ReservedIDs, SameIDOnlyIfRaced, CheckedNamesakes, RoomLeft, HasID, Checked
<1>5. PlayerLimit
  <2>1. WithinLimit = {}
    BY DEF Init, WithinLimit
  <2>2. QED
    BY <2>1, FS_EmptySet DEF PlayerLimit
<1>6. QED
  BY <1>2, <1>3, <1>4, <1>5 DEF IndInv

\* Every step of every session keeps the invariant.
LEMMA NextIndInv == IndInv /\ [Next]_vars => IndInv'
<1> SUFFICES ASSUME IndInv, [Next]_vars PROVE IndInv'
  OBVIOUS
<1>1. CASE UNCHANGED vars
  BY <1>1 DEF vars, IndInv, TypeOK, ListMatchesThreads, ReservedIDs, SameIDOnlyIfRaced, HasID,
     CheckedNamesakes, RoomLeft, PlayerLimit, WithinLimit
<1>2. ASSUME NEW s \in Sessions, NEW n \in Names, Authenticated(s, n) PROVE IndInv'
  BY <1>2, AuthenticatedKeepsInv
<1>3. ASSUME NEW s \in Sessions, Join(s) PROVE IndInv'
  BY <1>3, DropStaleKeepsInv, AllowKeepsInv, OverKeepsInv, InsertClientKeepsInv DEF Join, Refuse
<1>4. ASSUME NEW s \in Sessions, Serve(s) PROVE IndInv'
  BY <1>4, OverKeepsInv, StartKeepsInv, SetIDKeepsInv DEF Serve, StartDisconnected
<1>5. ASSUME NEW s \in Sessions,
             \/ Leave(s) \/ ReceiveFails(s) \/ Throws(s) \/ ThrowsInLoop(s) \/ Disconnected(s)
             \/ \E done \in BOOLEAN : SyncResources(s, done)
      PROVE  IndInv'
  BY <1>5, QuietSteps, QuietKeepsInv, OverKeepsInv DEF Leave, RemoveClient
<1>6. QED
  BY <1>1, <1>2, <1>3, <1>4, <1>5 DEF Next

\* The invariant holds however sessions join, leave and are disconnected.
THEOREM Invariance == Spec => []IndInv
<1>1. QED
  BY InitIndInv, NextIndInv, PTL DEF Spec

\* TNetwork::OpenID and SetID: two players share an ID only if they looked for
\* one at the same time.
THEOREM IDsAreUnique == Spec => []SameIDOnlyIfRaced
<1>1. IndInv => SameIDOnlyIfRaced
  BY DEF IndInv
<1>2. QED
  BY <1>1, Invariance, PTL

\* TNetwork::OnDisconnect: a plugin that handles onPlayerDisconnect finds the
\* leaving player by ID.
THEOREM IDsOutliveTheHandlers == Spec => []LeaverKeepsID
<1>1. IndInv => LeaverKeepsID
  BY DEF IndInv, ListMatchesThreads, Listed, Serving, SameIDOnlyIfRaced, LeaverKeepsID, HasID
<1>2. QED
  BY <1>1, Invariance, PTL

\* TNetwork::Authentication: the check for stale clients leaves one connected
\* session per name, but for those it cannot see.
THEOREM NamesAreUnique == Spec => []OneSessionPerName
<1>1. IndInv => OneSessionPerName
  <2> SUFFICES ASSUME IndInv PROVE OneSessionPerName
    OBVIOUS
  <2>1. \A s \in mClients : s \in Sessions /\ pc[s] \in Checked
    BY DEF IndInv, TypeOK, ListMatchesThreads, Listed, Serving, Checked, Steps
  <2>2. QED
    BY <2>1 DEF IndInv, CheckedNamesakes, OneSessionPerName
<1>2. QED
  BY <1>1, Invariance, PTL

\* TNetwork::Authentication: the player limit is exceeded only by sessions that
\* a plugin let past it, or that others overtook after the check.
THEOREM LimitIsKept == Spec => []PlayerLimit
<1>1. IndInv => PlayerLimit
  BY DEF IndInv
<1>2. QED
  BY <1>1, Invariance, PTL

=============================================================================
