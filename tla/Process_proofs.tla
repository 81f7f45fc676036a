---------------------------- MODULE Process_proofs ----------------------------
(***************************************************************************)
(* Proofs about what the process does beside its sessions: the accept loop *)
(* and its limiter, for every set of connections and addresses and every   *)
(* pair of positive limits; the start-up and the shutdown, for any         *)
(* requesters and any number of their requests; the settings and the       *)
(* heartbeat, for any values, any number of starts, edits and changes and  *)
(* any number of addresses.                                                *)
(***************************************************************************)
EXTENDS ConnectionLimiter, Shutdown, Heartbeat, FiniteSetTheorems, TLAPS

-----------------------------------------------------------------------------
(* Counting.  Exact relates a total g and a map of buckets m to a set H of *)
(* holders whose addresses f gives.                                        *)

Exact(g, m, H, f) ==
    /\ g = Cardinality(H)
    /\ DOMAIN m = {f[c] : c \in H}
    /\ \A ip \in DOMAIN m : m[ip] = Cardinality({c \in H : f[c] = ip})

In(m, ip) == IF ip \in DOMAIN m THEN m[ip] ELSE 0

\* A bucket that is absent stands for no holder at all: Count is the number of
\* holders for every address.
LEMMA CountIsCardinality ==
    ASSUME NEW g, NEW m, NEW H, NEW f, NEW ip, IsFiniteSet(H), Exact(g, m, H, f)
    PROVE  /\ In(m, ip) = Cardinality({c \in H : f[c] = ip})
           /\ In(m, ip) \in Nat
           /\ IsFiniteSet({c \in H : f[c] = ip})
<1> DEFINE S == {c \in H : f[c] = ip}
<1>1. S \in SUBSET H
  OBVIOUS
<1>2. IsFiniteSet(S) /\ Cardinality(S) \in Nat
  BY <1>1, FS_Subset, FS_CardinalityType
<1>3. CASE ip \in DOMAIN m
  BY <1>2, <1>3 DEF In, Exact
<1>4. CASE ip \notin DOMAIN m
  <2>1. S = {}
    BY <1>4 DEF Exact
  <2>2. Cardinality(S) = 0
    BY <2>1, FS_EmptySet
  <2>3. QED
    BY <1>2, <1>4, <2>2 DEF In
<1>5. QED
  BY <1>3, <1>4

\* One more holder: TryAcquire's two increments keep the counters exact.
LEMMA IncrementExact ==
    ASSUME NEW g, NEW m, NEW H, NEW f, NEW c,
           IsFiniteSet(H), c \notin H, Exact(g, m, H, f)
    PROVE  Exact(g + 1, Put(m, f[c], In(m, f[c]) + 1), H \cup {c}, f)
<1> DEFINE K == H \cup {c}
           n == Put(m, f[c], In(m, f[c]) + 1)
<1>1. g + 1 = Cardinality(K)
  BY FS_AddElement DEF Exact
<1>2. DOMAIN n = {f[d] : d \in K}
  BY DEF Put, Exact
<1>3. ASSUME NEW ip \in DOMAIN n
      PROVE  n[ip] = Cardinality({d \in K : f[d] = ip})
  <2>1. CASE ip = f[c]
    <3> DEFINE S == {d \in H : f[d] = ip}
    <3>1. {d \in K : f[d] = ip} = S \cup {c}
      BY <2>1
    <3>2. IsFiniteSet(S) /\ In(m, ip) = Cardinality(S)
      BY CountIsCardinality
    <3>3. c \notin S
      OBVIOUS
    <3> HIDE DEF S
    <3>4. Cardinality(S \cup {c}) = Cardinality(S) + 1
      BY <3>2, <3>3, FS_AddElement
    <3>5. n[ip] = In(m, ip) + 1
      BY <2>1 DEF Put
    <3>6. QED
      BY <3>1, <3>2, <3>4, <3>5
  <2>2. CASE ip # f[c]
    <3>1. {d \in K : f[d] = ip} = {d \in H : f[d] = ip}
      BY <2>2
    <3>2. n[ip] = m[ip] /\ ip \in DOMAIN m
      BY <1>3, <2>2 DEF Put
    <3>3. QED
      BY <3>1, <3>2 DEF Exact
  <2>3. QED
    BY <2>1, <2>2
<1>4. QED
  BY <1>1, <1>2, <1>3 DEF Exact

\* One holder less: Release's decrements, and the erasure of an emptied
\* bucket, keep the counters exact; its underflow guards never fire.
LEMMA ReleaseExact ==
    ASSUME NEW g, NEW m, NEW H, NEW f, NEW c \in H,
           IsFiniteSet(H), Exact(g, m, H, f)
    PROVE  /\ g > 0 /\ In(m, f[c]) > 0
           /\ Exact(g - 1,
                    IF In(m, f[c]) - 1 = 0 THEN Erase(m, f[c])
                                           ELSE Put(m, f[c], In(m, f[c]) - 1),
                    H \ {c}, f)
<1> DEFINE K == H \ {c}
           k == In(m, f[c]) - 1
           n == IF k = 0 THEN Erase(m, f[c]) ELSE Put(m, f[c], k)
           S == {d \in H : f[d] = f[c]}
           T == {d \in K : f[d] = f[c]}
<1>1. Cardinality(H) \in Nat /\ Cardinality(K) = g - 1 /\ IsFiniteSet(K)
  BY FS_RemoveElement, FS_CardinalityType DEF Exact
<1>2. Cardinality(K) \in Nat
  BY <1>1, FS_CardinalityType
<1>3. g > 0
  BY <1>1, <1>2 DEF Exact
<1>4. IsFiniteSet(S) /\ In(m, f[c]) = Cardinality(S)
  BY CountIsCardinality
<1>5. T = S \ {c} /\ c \in S
  OBVIOUS
<1>6. Cardinality(T) = k /\ Cardinality(T) \in Nat /\ IsFiniteSet(T)
  <2> HIDE DEF S, T
  <2>1. IsFiniteSet(T) /\ Cardinality(T) = Cardinality(S) - 1
    BY <1>4, <1>5, FS_RemoveElement
  <2>2. Cardinality(T) \in Nat
    BY <2>1, FS_CardinalityType
  <2>3. QED
    BY <1>4, <2>1, <2>2
<1>7. In(m, f[c]) > 0
  <2>1. Cardinality(S) \in Nat
    BY <1>4, FS_CardinalityType
  <2>2. QED
    BY <1>4, <1>6, <2>1
<1>8. k = 0 <=> T = {}
  BY <1>6, FS_EmptySet
<1>9. f[c] \in DOMAIN m
  BY DEF Exact
<1>10. DOMAIN n = {f[d] : d \in K}
  <2>1. DOMAIN n = IF k = 0 THEN DOMAIN m \ {f[c]} ELSE DOMAIN m
    BY <1>9 DEF Erase, Put
  <2>2. CASE k = 0
    BY <1>8, <2>1, <2>2 DEF Exact
  <2>3. CASE k # 0
    <3>1. PICK d \in K : f[d] = f[c]
      BY <1>8, <2>3
    <3>2. QED
      BY <2>1, <2>3, <3>1 DEF Exact
  <2>4. QED
    BY <2>2, <2>3
<1>11. ASSUME NEW ip \in DOMAIN n
       PROVE  n[ip] = Cardinality({d \in K : f[d] = ip})
  <2>1. CASE ip = f[c]
    <3>1. k # 0
      BY <1>11, <2>1 DEF Erase
    <3>2. n[ip] = k
      BY <2>1, <3>1 DEF Put
    <3>3. QED
      BY <1>6, <2>1, <3>2
  <2>2. CASE ip # f[c]
    <3>1. {d \in K : f[d] = ip} = {d \in H : f[d] = ip}
      BY <2>2
    <3>2. n[ip] = m[ip] /\ ip \in DOMAIN m
      BY <1>11, <2>2 DEF Put, Erase
    <3>3. QED
      BY <3>1, <3>2 DEF Exact
  <2>3. QED
    BY <2>1, <2>2
<1>12. Exact(g - 1, n, K, f)
  BY <1>1, <1>10, <1>11 DEF Exact
<1>13. QED
  BY <1>3, <1>7, <1>12

\* Counters stay exact when only addresses of non-holders change.
LEMMA RelabelExact ==
    ASSUME NEW g, NEW m, NEW H, NEW f, NEW h, Exact(g, m, H, f),
           \A c \in H : f[c] = h[c]
    PROVE  Exact(g, m, H, h)
<1>1. {f[c] : c \in H} = {h[c] : c \in H}
  OBVIOUS
<1>2. \A ip : {c \in H : f[c] = ip} = {c \in H : h[c] = ip}
  OBVIOUS
<1>3. QED
  BY <1>1, <1>2 DEF Exact

-----------------------------------------------------------------------------
(* The inductive invariant.                                                *)

\* The counters hold exactly one unit for every holder.
LEMMA CountersExact ==
    GlobalCountsGuards /\ BucketsCountGuards <=> Exact(mGlobal, mPerIp, Holders, connIp)
BY DEF GlobalCountsGuards, BucketsCountGuards, Exact, HoldersOf

\* Who the holders are, given custody.
LEMMA HoldersAre ==
    ASSUME LimiterTypeOK, Custody
    PROVE  /\ Holders = owned \cup (IF acceptPc \in {"move", "spawn"} THEN {current} ELSE {})
           /\ Holders \subseteq Conns
           /\ IsFiniteSet(Holders)
           /\ \A c \in Conns : c \in Holders <=>
                 thread[c] # "none" \/ (acceptPc \in {"move", "spawn", "unwind"} /\ c = current)
<1>1. Holders = owned \cup (IF acceptPc \in {"move", "spawn"} THEN {current} ELSE {})
  BY LimitsAssumption DEF Holders, Custody, LimiterTypeOK
<1>2. IsFiniteSet(Holders)
  BY <1>1, FS_AddElement DEF Custody
<1>3. QED
  BY <1>1, <1>2 DEF Custody, LimiterTypeOK

\* A limiter that counted nobody is exact.
LEMMA InitInd == LimiterInit => LimiterIndInv
<1> SUFFICES ASSUME LimiterInit PROVE LimiterIndInv
  OBVIOUS
<1>1. Holders = {}
  BY DEF LimiterInit, Holders
<1>2. LimiterTypeOK
  BY DEF LimiterInit, LimiterTypeOK, AcceptStates, ThreadStates
<1>3. Custody
  BY FS_EmptySet DEF LimiterInit, Custody
<1>4. GlobalCountsGuards /\ BucketsCountGuards
  BY <1>1, FS_EmptySet DEF LimiterInit, GlobalCountsGuards, BucketsCountGuards
<1>5. CountersWithinLimits
  BY LimitsAssumption DEF LimiterInit, CountersWithinLimits
<1>6. QED
  BY <1>2, <1>3, <1>4, <1>5 DEF LimiterIndInv

\* A step that touches neither the counters nor the set of holders, nor the
\* address of a holder, keeps everything said about the counters.
LEMMA SameHolders ==
    ASSUME LimiterIndInv, UNCHANGED limiter, Holders' = Holders,
           \A c \in Holders : connIp'[c] = connIp[c]
    PROVE  GlobalCountsGuards' /\ BucketsCountGuards' /\ CountersWithinLimits'
<1>1. Exact(mGlobal, mPerIp, Holders, connIp)
  BY CountersExact DEF LimiterIndInv
<1>2. Exact(mGlobal', mPerIp', Holders', connIp')
  BY <1>1, RelabelExact DEF limiter
<1>3. GlobalCountsGuards' /\ BucketsCountGuards'
  BY <1>2 DEF GlobalCountsGuards, BucketsCountGuards, Exact, HoldersOf
<1>4. QED
  BY <1>3 DEF LimiterIndInv, CountersWithinLimits, limiter

\* A step that releases the unit of one holder keeps the counters exact.
LEMMA OneHolderLess ==
    ASSUME LimiterIndInv, NEW c \in Holders, Release(c), Holders' = Holders \ {c}, UNCHANGED connIp
    PROVE  /\ GlobalCountsGuards' /\ BucketsCountGuards' /\ CountersWithinLimits'
           /\ mGlobal' \in Nat /\ DOMAIN mPerIp' \subseteq Ips
           /\ mPerIp' \in [DOMAIN mPerIp' -> Nat]
<1> DEFINE n == In(mPerIp, connIp[c]) - 1
<1>1. IsFiniteSet(Holders) /\ Exact(mGlobal, mPerIp, Holders, connIp)
  BY CountersExact, HoldersAre DEF LimiterIndInv
<1>2. /\ mGlobal > 0 /\ In(mPerIp, connIp[c]) > 0
      /\ Exact(mGlobal - 1,
               IF n = 0 THEN Erase(mPerIp, connIp[c]) ELSE Put(mPerIp, connIp[c], n),
               Holders \ {c}, connIp)
  BY <1>1, ReleaseExact
<1>3. /\ mGlobal' = mGlobal - 1
      /\ mPerIp' = IF n = 0 THEN Erase(mPerIp, connIp[c]) ELSE Put(mPerIp, connIp[c], n)
  BY <1>2 DEF Release, Count, In
<1>4. Exact(mGlobal', mPerIp', Holders', connIp')
  BY <1>2, <1>3
<1>5. GlobalCountsGuards' /\ BucketsCountGuards'
  BY <1>4 DEF GlobalCountsGuards, BucketsCountGuards, Exact, HoldersOf
<1>6. In(mPerIp, connIp[c]) \in Nat
  BY <1>1, CountIsCardinality
<1>7. connIp[c] \in DOMAIN mPerIp
  BY <1>1 DEF Exact
<1>8. CountersWithinLimits'
  BY <1>3, <1>6, <1>7, LimitsAssumption DEF LimiterIndInv, CountersWithinLimits, LimiterTypeOK, Erase, Put, In
<1>9. QED
  BY <1>2, <1>3, <1>5, <1>6, <1>7, <1>8 DEF LimiterIndInv, LimiterTypeOK, Erase, Put

\* Every step of the accept loop and of an Identify thread preserves the
\* invariant: custody moves, but exactly one unit per holder remains counted.
LEMMA StepInd == LimiterIndInv /\ [LimiterNext]_limiterVars => LimiterIndInv'
<1> SUFFICES ASSUME LimiterIndInv, [LimiterNext]_limiterVars PROVE LimiterIndInv'
  OBVIOUS
<1> USE LimitsAssumption
<1>0. LimiterTypeOK /\ Custody
  BY DEF LimiterIndInv
<1>h. /\ Holders = owned \cup (IF acceptPc \in {"move", "spawn"} THEN {current} ELSE {})
      /\ Holders \subseteq Conns
      /\ IsFiniteSet(Holders)
      /\ \A c \in Conns : c \in Holders <=>
            thread[c] # "none" \/ (acceptPc \in {"move", "spawn", "unwind"} /\ c = current)
  BY <1>0, HoldersAre
<1>1. ASSUME NEW c \in Conns, NEW ip \in Ips, Accept(c, ip) PROVE LimiterIndInv'
  <2>1. LimiterTypeOK' /\ Custody'
    BY <1>0, <1>1 DEF Accept, LimiterTypeOK, Custody, AcceptStates, limiter
  <2>2. Holders' = Holders /\ \A d \in Holders : connIp'[d] = connIp[d]
    BY <1>0, <1>1, <1>h DEF Accept, Holders, LimiterTypeOK
  <2>3. QED
    BY <1>1, <2>1, <2>2, SameHolders DEF Accept, LimiterIndInv
<1>2. CASE Admit
  <2> DEFINE ip == connIp[current]
  <2>1. current \in Conns /\ current \notin Holders /\ ip \in Ips
    BY <1>0, <1>2, <1>h DEF Admit, LimiterTypeOK, Custody
  <2>2. Holders' = Holders \cup {current}
    BY <1>0, <1>2, <2>1 DEF Admit, Holders, Custody, LimiterTypeOK
  <2>3. Exact(mGlobal, mPerIp, Holders, connIp)
    BY CountersExact DEF LimiterIndInv
  <2>4. Exact(mGlobal + 1, Put(mPerIp, ip, In(mPerIp, ip) + 1), Holders \cup {current}, connIp)
    BY <1>h, <2>1, <2>3, IncrementExact
  <2>5. /\ mGlobal' = mGlobal + 1 /\ connIp' = connIp
        /\ mPerIp' = Put(mPerIp, ip, In(mPerIp, ip) + 1)
    BY <1>2 DEF Admit, Increment, Count, In
  <2>6. Exact(mGlobal', mPerIp', Holders', connIp')
    BY <2>2, <2>4, <2>5
  <2>7. GlobalCountsGuards' /\ BucketsCountGuards'
    BY <2>6 DEF GlobalCountsGuards, BucketsCountGuards, Exact, HoldersOf
  <2>8. In(mPerIp, ip) \in Nat
    BY <1>h, <2>3, CountIsCardinality
  <2>9. mGlobal < MaxGlobal /\ In(mPerIp, ip) < MaxPerIp
    BY <1>2 DEF Admit, MayAdmit, Count, In
  <2>10. CountersWithinLimits'
    BY <1>0, <2>5, <2>8, <2>9 DEF LimiterIndInv, CountersWithinLimits, LimiterTypeOK, Put
  <2>11. LimiterTypeOK'
    BY <1>0, <1>2, <2>1, <2>5, <2>8 DEF Admit, LimiterTypeOK, Put, AcceptStates
  <2>12. Custody'
    BY <1>0, <1>2 DEF Admit, Custody
  <2>13. QED
    BY <2>7, <2>10, <2>11, <2>12 DEF LimiterIndInv
<1>3. CASE Reject
  <2>1. LimiterTypeOK' /\ Custody'
    BY <1>0, <1>3 DEF Reject, LimiterTypeOK, Custody, AcceptStates, limiter
  <2>2. Holders' = Holders
    BY <1>3 DEF Reject, Holders
  <2>3. QED
    BY <1>3, <2>1, <2>2, SameHolders DEF Reject, LimiterIndInv
<1>4. CASE MoveToLocal
  <2>1. LimiterTypeOK' /\ Custody'
    BY <1>0, <1>4 DEF MoveToLocal, LimiterTypeOK, Custody, AcceptStates, limiter
  <2>2. Holders' = Holders
    BY <1>0, <1>4 DEF MoveToLocal, Holders, Custody
  <2>3. QED
    BY <1>4, <2>1, <2>2, SameHolders DEF MoveToLocal, LimiterIndInv
<1>5. CASE Spawn
  <2>1. LimiterTypeOK' /\ Custody'
    <3>1. owned' = owned \cup {current} /\ current \in Conns
      BY <1>0, <1>5 DEF Spawn, Custody
    <3>2. IsFiniteSet(owned')
      BY <1>0, <3>1, FS_AddElement DEF Custody
    <3>3. LimiterTypeOK'
      BY <1>0, <1>5, <3>1 DEF Spawn, LimiterTypeOK, AcceptStates, ThreadStates, limiter
    <3>4. QED
      BY <1>0, <1>5, <3>1, <3>2, <3>3 DEF Spawn, LimiterTypeOK, Custody
  <2>2. Holders' = Holders
    BY <1>0, <1>5 DEF Spawn, Holders, Custody
  <2>3. QED
    BY <1>5, <2>1, <2>2, SameHolders DEF Spawn, LimiterIndInv
<1>6. CASE SpawnThrows
  <2>1. LimiterTypeOK' /\ Custody'
    <3>1. owned' = owned \cup {current} /\ current \in Conns
      BY <1>0, <1>6 DEF SpawnThrows, Custody
    <3>2. IsFiniteSet(owned')
      BY <1>0, <3>1, FS_AddElement DEF Custody
    <3>3. LimiterTypeOK'
      BY <1>0, <1>6, <3>1 DEF SpawnThrows, LimiterTypeOK, AcceptStates, limiter
    <3>4. QED
      BY <1>0, <1>6, <3>1, <3>2, <3>3 DEF SpawnThrows, LimiterTypeOK, Custody
  <2>2. Holders' = Holders
    BY <1>0, <1>6 DEF SpawnThrows, Holders, Custody
  <2>3. QED
    BY <1>6, <2>1, <2>2, SameHolders DEF SpawnThrows, LimiterIndInv
<1>7. CASE Unwind
  <2>1. current \in Holders /\ UNCHANGED connIp
    BY <1>0, <1>7, <1>h DEF Unwind, Custody
  <2>2. Holders' = Holders \ {current}
    BY <1>0, <1>7 DEF Unwind, Holders, Custody
  <2>3. Release(current)
    BY <1>7 DEF Unwind
  <2>4. /\ GlobalCountsGuards' /\ BucketsCountGuards' /\ CountersWithinLimits'
        /\ mGlobal' \in Nat /\ DOMAIN mPerIp' \subseteq Ips
        /\ mPerIp' \in [DOMAIN mPerIp' -> Nat]
    BY <2>1, <2>2, <2>3, OneHolderLess
  <2>5. IsFiniteSet(owned')
    BY <1>0, <1>7, FS_RemoveElement DEF Unwind, Custody
  <2>6. LimiterTypeOK'
    BY <1>0, <1>7, <2>4 DEF Unwind, LimiterTypeOK, AcceptStates
  <2>7. Custody'
    BY <1>0, <1>7, <2>5 DEF Unwind, Custody, LimiterTypeOK
  <2>8. QED
    BY <2>4, <2>6, <2>7 DEF LimiterIndInv
<1>8. CASE DropGuard
  <2>1. guard = NoOwner /\ UNCHANGED limiter
    BY <1>0, <1>8 DEF DropGuard, Destroy, Custody
  <2>2. LimiterTypeOK' /\ Custody'
    BY <1>0, <1>8, <2>1 DEF DropGuard, LimiterTypeOK, Custody, AcceptStates, limiter
  <2>3. Holders' = Holders
    BY <1>8, <2>1 DEF DropGuard, Holders
  <2>4. QED
    BY <1>8, <2>1, <2>2, <2>3, SameHolders DEF DropGuard, LimiterIndInv
<1>9. CASE DropOptional
  <2>1. maybeGuard = NoOwner /\ UNCHANGED limiter
    BY <1>0, <1>9 DEF DropOptional, Destroy, Custody
  <2>2. LimiterTypeOK' /\ Custody'
    BY <1>0, <1>9, <2>1 DEF DropOptional, LimiterTypeOK, Custody, AcceptStates, limiter
  <2>3. Holders' = Holders
    BY <1>9, <2>1 DEF DropOptional, Holders
  <2>4. QED
    BY <1>9, <2>1, <2>2, <2>3, SameHolders DEF DropOptional, LimiterIndInv
<1>10. ASSUME NEW c \in Conns, StartSession(c) \/ EndWithoutSession(c) \/ EndSession(c)
       PROVE  LimiterIndInv'
  <2>1. LimiterTypeOK' /\ Custody'
    BY <1>0, <1>10 DEF StartSession, EndWithoutSession, EndSession, LimiterTypeOK, Custody,
                       ThreadStates, limiter
  <2>2. Holders' = Holders /\ UNCHANGED <<limiter, connIp>>
    BY <1>10 DEF StartSession, EndWithoutSession, EndSession, Holders
  <2>3. QED
    BY <2>1, <2>2, SameHolders DEF LimiterIndInv
<1>11. ASSUME NEW c \in Conns, DestroyThread(c) PROVE LimiterIndInv'
  <2>1. c \in owned /\ c \in Holders /\ UNCHANGED connIp
    BY <1>0, <1>11 DEF DestroyThread, Custody, Holders
  <2>2. Holders' = Holders \ {c}
    BY <1>0, <1>11, <2>1 DEF DestroyThread, Holders, Custody
  <2>3. Release(c)
    BY <1>11, <2>1 DEF DestroyThread
  <2>4. /\ GlobalCountsGuards' /\ BucketsCountGuards' /\ CountersWithinLimits'
        /\ mGlobal' \in Nat /\ DOMAIN mPerIp' \subseteq Ips
        /\ mPerIp' \in [DOMAIN mPerIp' -> Nat]
    BY <2>1, <2>2, <2>3, OneHolderLess
  <2>5. IsFiniteSet(owned')
    BY <1>0, <1>11, FS_RemoveElement DEF DestroyThread, Custody
  <2>6. LimiterTypeOK'
    BY <1>0, <1>11, <2>4 DEF DestroyThread, LimiterTypeOK, ThreadStates
  <2>7. Custody'
    BY <1>0, <1>11, <2>5 DEF DestroyThread, Custody, LimiterTypeOK
  <2>8. QED
    BY <2>4, <2>6, <2>7 DEF LimiterIndInv
<1>12. CASE UNCHANGED limiterVars
  <2>1. LimiterTypeOK' /\ Custody'
    BY <1>0, <1>12 DEF limiterVars, LimiterTypeOK, Custody
  <2>2. Holders' = Holders /\ UNCHANGED <<limiter, connIp>>
    BY <1>12 DEF limiterVars, Holders, limiter
  <2>3. QED
    BY <2>1, <2>2, SameHolders DEF LimiterIndInv
<1>13. QED
  BY <1>1, <1>2, <1>3, <1>4, <1>5, <1>6, <1>7, <1>8, <1>9, <1>10, <1>11, <1>12
     DEF LimiterNext, AcceptLoop, HandleAccepted, Identify

\* The inductive invariant holds in every reachable state.
THEOREM LimiterInvariance == LimiterSpec => []LimiterIndInv
<1>1. LimiterInit => LimiterIndInv
  BY InitInd
<1>2. LimiterIndInv /\ [LimiterNext]_limiterVars => LimiterIndInv'
  BY StepInd
<1>3. QED
  BY <1>1, <1>2, PTL DEF LimiterSpec

\* Type correctness of the limiter, the accept loop and the threads.
THEOREM LimiterTypeCorrect == LimiterSpec => []LimiterTypeOK
<1>1. LimiterIndInv => LimiterTypeOK
  BY DEF LimiterIndInv
<1>2. QED
  BY <1>1, LimiterInvariance, PTL

\* No unit is lost or given back twice: both counters are exact in every
\* reachable state, and no bucket outlives its last guard.
THEOREM CountersAreExact == LimiterSpec => [](GlobalCountsGuards /\ BucketsCountGuards)
<1>1. LimiterIndInv => GlobalCountsGuards /\ BucketsCountGuards
  BY DEF LimiterIndInv
<1>2. QED
  BY <1>1, LimiterInvariance, PTL

\* The number of Identify threads, in total and per address, is bounded by
\* the limits.
THEOREM ThreadsBounded == LimiterSpec => []ThreadsWithinLimits
<1>1. LimiterIndInv => ThreadsWithinLimits
  <2> SUFFICES ASSUME LimiterIndInv PROVE ThreadsWithinLimits
    OBVIOUS
  <2> DEFINE alive == {c \in Conns : thread[c] # "none"}
  <2>1. IsFiniteSet(Holders) /\ Exact(mGlobal, mPerIp, Holders, connIp) /\ alive \subseteq Holders
    BY CountersExact, HoldersAre DEF LimiterIndInv
  <2>2. Cardinality(alive) <= MaxGlobal
    <3>1. Cardinality(alive) <= Cardinality(Holders) /\ IsFiniteSet(alive)
      BY <2>1, FS_Subset
    <3>2. Cardinality(alive) \in Nat /\ Cardinality(Holders) \in Nat
      BY <2>1, <3>1, FS_CardinalityType
    <3>3. QED
      BY <2>1, <3>1, <3>2, LimitsAssumption DEF LimiterIndInv, CountersWithinLimits, Exact
  <2>3. ASSUME NEW ip \in Ips
        PROVE  Cardinality({c \in alive : connIp[c] = ip}) <= MaxPerIp
    <3> DEFINE A == {c \in alive : connIp[c] = ip}
               H == {c \in Holders : connIp[c] = ip}
    <3>1. IsFiniteSet(H) /\ In(mPerIp, ip) = Cardinality(H)
      BY <2>1, CountIsCardinality
    <3>2. A \in SUBSET H
      BY <2>1
    <3>3. Cardinality(A) <= Cardinality(H) /\ IsFiniteSet(A)
      BY <3>1, <3>2, FS_Subset
    <3>4. Cardinality(A) \in Nat /\ Cardinality(H) \in Nat
      BY <3>1, <3>3, FS_CardinalityType
    <3>5. In(mPerIp, ip) <= MaxPerIp
      BY LimitsAssumption DEF In, LimiterIndInv, CountersWithinLimits
    <3>6. QED
      BY <3>1, <3>3, <3>4, <3>5, LimitsAssumption
  <2>4. QED
    BY <2>2, <2>3 DEF ThreadsWithinLimits
<1>2. QED
  BY <1>1, LimiterInvariance, PTL

\* A connection is refused only when the guards alive at that moment fill the
\* server or its address's share.
THEOREM RejectionsJustified == LimiterSpec => RejectsOnlyWhenFull
<1> DEFINE Justified ==
      acceptPc = "acquire" /\ acceptPc' = "accept" =>
          \/ Cardinality(Holders) >= MaxGlobal
          \/ Cardinality(HoldersOf(connIp[current])) >= MaxPerIp
<1>1. LimiterIndInv /\ [LimiterNext]_limiterVars => [Justified]_limiterVars
  <2> SUFFICES ASSUME LimiterIndInv, LimiterNext, acceptPc = "acquire", acceptPc' = "accept"
               PROVE  Justified
    OBVIOUS
  <2>1. Reject
    BY DEF LimiterNext, AcceptLoop, HandleAccepted, Identify, Accept, Admit, MoveToLocal, Spawn,
           SpawnThrows, Unwind, DropGuard, DropOptional, StartSession, EndWithoutSession,
           EndSession, DestroyThread
  <2>2. IsFiniteSet(Holders) /\ Exact(mGlobal, mPerIp, Holders, connIp)
    BY CountersExact, HoldersAre DEF LimiterIndInv
  <2>3. /\ In(mPerIp, connIp[current]) = Cardinality(HoldersOf(connIp[current]))
        /\ In(mPerIp, connIp[current]) \in Nat
    BY <2>2, CountIsCardinality DEF HoldersOf
  <2>4. ~(mGlobal < MaxGlobal /\ In(mPerIp, connIp[current]) < MaxPerIp)
    BY <2>1 DEF Reject, MayAdmit, Count, In
  <2>5. mGlobal = Cardinality(Holders) /\ mGlobal \in Nat
    BY <2>2 DEF Exact, LimiterIndInv, LimiterTypeOK
  <2>6. QED
    BY <2>3, <2>4, <2>5, LimitsAssumption
<1>2. QED
  BY <1>1, LimiterInvariance, PTL DEF LimiterSpec, RejectsOnlyWhenFull

-----------------------------------------------------------------------------
(* Refinement of the abstract specification.                               *)

held == [c \in Holders |-> connIp[c]]

\* A step that keeps every holder and its address is a stutter of Admission.
LEMMA Stutter ==
    ASSUME Holders' = Holders, \A c \in Holders : connIp'[c] = connIp[c]
    PROVE  held' = held
BY DEF held

\* The abstract module counts with the same Cardinality.
LEMMA SameCardinality == \A S : Admitting!Cardinality(S) = Cardinality(S)
BY Zenon DEF Cardinality, Admitting!Cardinality

\* Releasing the unit of a holder is Leave of that connection.
LEMMA ReleaseIsLeave ==
    ASSUME NEW c \in Conns, c \in Holders, Holders' = Holders \ {c}, UNCHANGED connIp
    PROVE  Admitting!Next
<1>1. DOMAIN held = Holders /\ held' = [d \in Holders \ {c} |-> held[d]]
  BY DEF held
<1>2. Admitting!Leave(c)
  BY <1>1 DEF Admitting!Leave, Admitting!Admitted, held
<1>3. QED
  BY <1>2 DEF Admitting!Next

\* Admitting one more connection while both limits have room is its Enter.
LEMMA AdmitIsEnter ==
    ASSUME NEW c \in Conns, NEW ip \in Ips, c \notin Holders,
           Cardinality(Holders) < MaxGlobal,
           Cardinality({d \in Holders : connIp[d] = ip}) < MaxPerIp,
           held' = [d \in Holders \cup {c} |-> IF d = c THEN ip ELSE held[d]]
    PROVE  Admitting!Next
<1>1. DOMAIN held = Holders /\ {d \in Holders : held[d] = ip} = {d \in Holders : connIp[d] = ip}
  BY DEF held
<1>2. Admitting!Enter(c, ip)
  BY <1>1, SameCardinality
     DEF Admitting!Enter, Admitting!Admitted, Admitting!From, held
<1>3. QED
  BY <1>2 DEF Admitting!Next

\* A step of limiter, guards and threads is one of admission or changes nothing
\* it sees.
LEMMA StepRefines == LimiterIndInv /\ [LimiterNext]_limiterVars => [Admitting!Next]_held
<1> SUFFICES ASSUME LimiterIndInv, [LimiterNext]_limiterVars PROVE Admitting!Next \/ held' = held
  BY DEF held
<1> USE LimitsAssumption
<1>0. LimiterTypeOK /\ Custody
  BY DEF LimiterIndInv
<1>h. /\ Holders \subseteq Conns
      /\ IsFiniteSet(Holders)
      /\ \A c \in Conns : c \in Holders <=>
            thread[c] # "none" \/ (acceptPc \in {"move", "spawn", "unwind"} /\ c = current)
  BY <1>0, HoldersAre
<1>1. ASSUME NEW c \in Conns, NEW ip \in Ips, Accept(c, ip) PROVE held' = held
  <2>1. Holders' = Holders /\ \A d \in Holders : connIp'[d] = connIp[d]
    BY <1>0, <1>1, <1>h DEF Accept, Holders, LimiterTypeOK
  <2>2. QED
    BY <2>1, Stutter
<1>2. CASE Admit
  <2> DEFINE ip == connIp[current]
  <2>1. current \in Conns /\ current \notin Holders /\ ip \in Ips
    BY <1>0, <1>2, <1>h DEF Admit, LimiterTypeOK, Custody
  <2>2. Holders' = Holders \cup {current} /\ connIp' = connIp
    BY <1>0, <1>2, <2>1 DEF Admit, Holders, Custody, LimiterTypeOK
  <2>3. Exact(mGlobal, mPerIp, Holders, connIp)
    BY CountersExact DEF LimiterIndInv
  <2>4. In(mPerIp, ip) = Cardinality({d \in Holders : connIp[d] = ip})
    BY <1>h, <2>3, CountIsCardinality
  <2>5. mGlobal < MaxGlobal /\ In(mPerIp, ip) < MaxPerIp
    BY <1>2 DEF Admit, MayAdmit, Count, In
  <2>6. held' = [d \in Holders \cup {current} |-> IF d = current THEN ip ELSE held[d]]
    BY <2>2 DEF held
  <2>7. Cardinality(Holders) < MaxGlobal /\ Cardinality({d \in Holders : connIp[d] = ip}) < MaxPerIp
    BY <2>3, <2>4, <2>5 DEF Exact
  <2>8. QED
    BY <2>1, <2>6, <2>7, AdmitIsEnter
<1>3. CASE Reject \/ MoveToLocal \/ Spawn \/ SpawnThrows
  <2>1. Holders' = Holders /\ connIp' = connIp
    BY <1>0, <1>3 DEF Reject, MoveToLocal, Spawn, SpawnThrows, Holders, Custody
  <2>2. QED
    BY <2>1, Stutter
<1>4. CASE Unwind
  <2>1. current \in Conns /\ current \in Holders /\ UNCHANGED connIp
    BY <1>0, <1>4, <1>h DEF Unwind, Custody
  <2>2. Holders' = Holders \ {current}
    BY <1>0, <1>4 DEF Unwind, Holders, Custody
  <2>3. QED
    BY <2>1, <2>2, ReleaseIsLeave
<1>5. CASE DropGuard \/ DropOptional
  <2>1. Holders' = Holders /\ connIp' = connIp
    BY <1>0, <1>5 DEF DropGuard, DropOptional, Custody, Holders
  <2>2. QED
    BY <2>1, Stutter
<1>6. ASSUME NEW c \in Conns, StartSession(c) \/ EndWithoutSession(c) \/ EndSession(c)
      PROVE  held' = held
  <2>1. Holders' = Holders /\ connIp' = connIp
    BY <1>6 DEF StartSession, EndWithoutSession, EndSession, Holders
  <2>2. QED
    BY <2>1, Stutter
<1>7. ASSUME NEW c \in Conns, DestroyThread(c) PROVE Admitting!Next
  <2>1. c \in Holders /\ UNCHANGED connIp
    BY <1>0, <1>7, <1>h DEF DestroyThread
  <2>2. Holders' = Holders \ {c}
    BY <1>0, <1>7, <2>1 DEF DestroyThread, Holders, Custody
  <2>3. QED
    BY <2>1, <2>2, ReleaseIsLeave
<1>8. CASE UNCHANGED limiterVars
  <2>1. Holders' = Holders /\ connIp' = connIp
    BY <1>8 DEF limiterVars, Holders
  <2>2. QED
    BY <2>1, Stutter
<1>9. QED
  BY <1>1, <1>2, <1>3, <1>4, <1>5, <1>6, <1>7, <1>8
     DEF LimiterNext, AcceptLoop, HandleAccepted, Identify

\* The limiter with its guards, threads and exception paths implements the
\* abstract admission policy.
THEOREM RefinesAdmission == LimiterSpec => ImplementsAdmission
<1>1. LimiterInit => Admitting!Init
  <2> SUFFICES ASSUME LimiterInit PROVE Admitting!Init
    OBVIOUS
  <2>1. Holders = {}
    BY DEF LimiterInit, Holders
  <2>2. QED
    BY <2>1 DEF Admitting!Init
<1>2. LimiterIndInv /\ [LimiterNext]_limiterVars => [Admitting!Next]_held
  BY StepRefines
<1>3. QED
  BY <1>1, <1>2, LimiterInvariance, PTL DEF LimiterSpec, ImplementsAdmission, Admitting!Spec, held

-----------------------------------------------------------------------------
(* Start-up and shutdown.                                                  *)

\* What a proof needs of the list StartUp: its steps, that "Main" comes first,
\* that a thread is started once and has its handler registered before.
LEMMA StartUpFacts ==
    /\ DOMAIN StartUp = 1..16 /\ Looping = 17 /\ Returning = 18
    /\ \A j \in 1..16 : StartUp[j].op = "register" =>
           StartUp[j].what \in Handlers /\ (StartUp[j].what = "Main" => j = 1)
    /\ \A j \in 1..16 : StartUp[j].op = "start" =>
           /\ StartUp[j].what \in Joined \cup Detached
           /\ \A k \in 1..16 : StartUp[k].op = "start" /\ StartUp[k].what = StartUp[j].what => k = j
           /\ StartUp[j].what \in Joined =>
                  \E k \in 1..(j - 1) : StartUp[k].op = "register" /\ StartUp[k].what = StartUp[j].what
<1> DEFINE R(h) == [op |-> "register", what |-> h]
           S(t) == [op |-> "start", what |-> t]
<1>1. /\ StartUp[1] = R("Main") /\ StartUp[2] = R("PPSMonitor") /\ StartUp[3] = S("PPSMonitor")
      /\ StartUp[4] = R("Heartbeat") /\ StartUp[5] = S("Heartbeat")
      /\ StartUp[6] = R("UDPNetwork") /\ StartUp[7] = R("TCPNetwork")
      /\ StartUp[8] = S("TCPNetwork") /\ StartUp[9] = S("UDPNetwork")
      /\ StartUp[10] = R("LuaEngine") /\ StartUp[11] = S("LuaEngine")
      /\ StartUp[12] = [op |-> "SetNetwork", what |-> "PPSMonitor"]
      /\ StartUp[13] = R("PluginMonitor") /\ StartUp[14] = S("PluginMonitor")
      /\ StartUp[15] = R("onShutdown") /\ StartUp[16] = R("Kick")
  BY DEF StartUp, Register, StartOf
<1>2. DOMAIN StartUp = 1..16 /\ Looping = 17 /\ Returning = 18
  BY DEF StartUp, Looping, Returning
<1>3. \A j \in 1..16 : StartUp[j].op = "register" =>
           StartUp[j].what \in Handlers /\ (StartUp[j].what = "Main" => j = 1)
  BY <1>1 DEF Handlers, Joined, Detached
<1>4. ASSUME NEW j \in 1..16, StartUp[j].op = "start"
      PROVE  /\ <<j, StartUp[j].what>> \in
                  {<<3, "PPSMonitor">>, <<5, "Heartbeat">>, <<8, "TCPNetwork">>, <<9, "UDPNetwork">>,
                   <<11, "LuaEngine">>, <<14, "PluginMonitor">>}
  BY <1>1, <1>4
<1>5. ASSUME NEW j \in 1..16, StartUp[j].op = "start", StartUp[j].what \in Joined
      PROVE  \E k \in 1..(j - 1) : StartUp[k].op = "register" /\ StartUp[k].what = StartUp[j].what
  <2>1. StartUp[j - 1].op = "register" /\ StartUp[j - 1].what = StartUp[j].what /\ j - 1 \in 1..(j - 1)
    BY <1>1, <1>4, <1>5 DEF Joined
  <2>2. QED
    BY <2>1
<1>6. ASSUME NEW j \in 1..16, StartUp[j].op = "start", NEW k \in 1..16, StartUp[k].op = "start",
             StartUp[k].what = StartUp[j].what
      PROVE  k = j
  BY <1>4, <1>6
<1>7. \A j \in 1..16 : StartUp[j].op = "start" => StartUp[j].what \in Joined \cup Detached
  BY <1>4 DEF Joined, Detached
<1>8. QED
  BY <1>2, <1>3, <1>5, <1>6, <1>7

\* Its length, and where main is after its last step.
LEMMA StartUpLength == DOMAIN StartUp = 1..16 /\ Looping = 17 /\ Returning = 18
BY StartUpFacts

\* What main starts are threads that it joins or that run detached.
LEMMA StartedThreads ==
    \A j \in 1..16 : StartUp[j].op = "start" => StartUp[j].what \in Joined \cup Detached
BY StartUpFacts

\* Reaches the two properties that the runs check.
LEMMA ShutdownInvImplies == ShutdownIndInv => ThreadsEndBeforeMain /\ HandlersEndBeforeMain
<1> SUFFICES ASSUME ShutdownIndInv PROVE ThreadsEndBeforeMain /\ HandlersEndBeforeMain
  OBVIOUS
<1>1. ThreadsEndBeforeMain
  BY DEF ShutdownIndInv, MainReleased, ThreadsEndBeforeMain
<1>2. HandlersEndBeforeMain
  BY DEF ShutdownIndInv, MainReleased, OneRun, InRun, HandlersEndBeforeMain
<1>3. QED
  BY <1>1, <1>2

\* A process that starts satisfies the invariant.
LEMMA InitShutdownInv == ShutdownAssumption /\ ShutdownInit => ShutdownIndInv
<1> SUFFICES ASSUME ShutdownAssumption, ShutdownInit PROVE ShutdownIndInv
  OBVIOUS
<1>1. ShutdownTypeOK
  <2>1. at \in 1..Returning
    BY StartUpLength DEF ShutdownInit
  <2>2. /\ request \in [Requesters -> RequestSteps] /\ handler \in [Requesters -> Nat]
        /\ doing \in [Threads -> ThreadSteps]
    BY DEF ShutdownInit, RequestSteps, ThreadSteps
  <2>3. {mShutdown, AlreadyShuttingDown, mainShutdown, exited, mNetwork} \subseteq BOOLEAN
    BY DEF ShutdownInit
  <2>4. /\ mShutdownHandlers \in Seq(Handlers) /\ mStateExecuteQueue \in Seq(Awaiting)
        /\ mutex = Nothing /\ mainHeld = Nothing /\ joined = {} /\ unhandled = {}
    BY DEF ShutdownInit
  <2>5. ShutdownAttempts \in Nat /\ runs \in Nat /\ requests \in 0..MaxRequests
    BY DEF ShutdownInit, ShutdownAssumption
  <2>6. QED
    BY <2>1, <2>2, <2>3, <2>4, <2>5 DEF ShutdownTypeOK
<1>2. HandlersRegistered
  <2>1. \A j \in DOMAIN StartUp : StartUp[j].op = "start" => StartUp[j].what \in Threads
    BY StartUpFacts DEF Threads
  <2>2. QED
    BY <2>1 DEF ShutdownInit, HandlersRegistered
<1>3. HandlerBeforeThread
  BY DEF ShutdownInit, HandlerBeforeThread, Threads
<1>4. HandlersLocked
  BY DEF ShutdownInit, HandlersLocked, ShutdownAssumption, Detached, LuaState, Threads, Nothing
<1>5. HandledEnded /\ OneRun
  BY DEF ShutdownInit, HandledEnded, OneRun, InRun, Nothing
<1>6. MainReleased
  BY StartUpLength DEF ShutdownInit, MainReleased
<1>7. QED
  BY <1>1, <1>2, <1>3, <1>4, <1>5, <1>6 DEF ShutdownIndInv

-----------------------------------------------------------------------------
(* The threads' steps.                                                     *)

ThreadStep ==
    \/ StopSpinning
    \/ \E t \in Joined : LeaveThread(t)
    \/ TCPCannotBind
    \/ EngineStep
    \/ BeginPass \/ Reload \/ EndPass
    \/ StateStep \/ TakeCall

\* A thread's step moves that thread, which is running, and may queue a chunk;
\* a state's thread that has found a chunk still has it.
LEMMA ThreadMoves ==
    ASSUME ShutdownTypeOK, HandlersLocked, ThreadStep
    PROVE  /\ UNCHANGED <<at, mNetwork, mShutdownHandlers, mutex, requestVars, joined>>
           /\ exited' \in BOOLEAN
           /\ doing' \in [Threads -> ThreadSteps]
           /\ \A t \in Joined : doing'[t] # doing[t] =>
                  doing[t] \notin {"unstarted", "ended"} /\ doing'[t] # "unstarted"
           /\ \A t \in Detached : doing'[t] = doing[t]
           /\ mStateExecuteQueue' \in Seq(Awaiting)
           /\ doing'[LuaState] = "chunk" => mStateExecuteQueue' # << >>
<1>1. UNCHANGED <<at, mNetwork, mShutdownHandlers, mutex, requestVars, joined>> /\ exited' \in BOOLEAN
  <2>1. exited \in BOOLEAN
    BY DEF ShutdownTypeOK
  <2>2. QED
    BY <2>1 DEF ThreadStep, StopSpinning, LeaveThread, TCPCannotBind, EngineStep, LoadPlugin, NoPlugin, TriggerOnInit,
        AwaitOnInit, BeginPass, Reload, EndPass, StateStep, StateHead, RunChunk, NextIteration, TakeCall,
        ThreadVars, mainVars, Become
<1> DEFINE Moves(t) ==
        /\ t \in Threads \ Detached
        /\ doing[t] \notin {"unstarted", "ended"}
        /\ \E step \in ThreadSteps \ {"unstarted"} : doing' = [doing EXCEPT ![t] = step]
<1>2. ASSUME NEW t, Moves(t), mStateExecuteQueue' \in Seq(Awaiting),
             doing'[LuaState] = "chunk" => mStateExecuteQueue' # << >>
      PROVE  /\ doing' \in [Threads -> ThreadSteps]
             /\ \A u \in Joined : doing'[u] # doing[u] =>
                    doing[u] \notin {"unstarted", "ended"} /\ doing'[u] # "unstarted"
             /\ \A u \in Detached : doing'[u] = doing[u]
             /\ mStateExecuteQueue' \in Seq(Awaiting)
             /\ doing'[LuaState] = "chunk" => mStateExecuteQueue' # << >>
  <2>1. PICK step \in ThreadSteps \ {"unstarted"} : doing' = [doing EXCEPT ![t] = step]
    BY <1>2
  <2>2. doing \in [Threads -> ThreadSteps]
    BY DEF ShutdownTypeOK
  <2>3. doing' \in [Threads -> ThreadSteps]
    BY <1>2, <2>1, <2>2
  <2>4. \A u \in Threads : u # t => doing'[u] = doing[u]
    BY <2>1, <2>2
  <2>5. doing'[t] = step
    BY <1>2, <2>1, <2>2
  <2>6. QED
    BY <1>2, <2>3, <2>4, <2>5 DEF Threads
<1> DEFINE Quiet(t) == Moves(t) /\ UNCHANGED mStateExecuteQueue
<1>3. ASSUME NEW t, Quiet(t), t # LuaState
      PROVE  /\ mStateExecuteQueue' \in Seq(Awaiting)
             /\ doing'[LuaState] = "chunk" => mStateExecuteQueue' # << >>
  <2>1. doing \in [Threads -> ThreadSteps] /\ mStateExecuteQueue \in Seq(Awaiting)
    BY DEF ShutdownTypeOK
  <2>2. doing'[LuaState] = doing[LuaState]
    BY <1>3, <2>1 DEF Threads
  <2>3. QED
    BY <1>3, <2>1, <2>2 DEF HandlersLocked
<1>4. CASE StopSpinning
  <2>1. Quiet("PPSMonitor")
    BY <1>4 DEF StopSpinning, Does, Become, Threads, Joined, Detached, ThreadSteps
  <2>2. QED
    BY <1>1, <1>2, <1>3, <2>1 DEF LuaState
<1>5. ASSUME NEW t \in Joined, LeaveThread(t)
      PROVE  Quiet(t)
    BY <1>5 DEF LeaveThread, Does, Become, Threads, Joined, Detached, ThreadSteps
<1>6. CASE \E t \in Joined : LeaveThread(t)
  <2>1. PICK t \in Joined : Quiet(t)
    BY <1>5, <1>6
  <2>2. t # LuaState
    BY DEF Joined, LuaState
  <2>3. QED
    BY <1>1, <1>2, <1>3, <2>1, <2>2
<1>7. CASE TCPCannotBind
  <2>1. UNCHANGED <<doing, mStateExecuteQueue>>
    BY <1>7 DEF TCPCannotBind
  <2>2. QED
    BY <1>1, <2>1 DEF ShutdownTypeOK, HandlersLocked
<1>8. CASE EngineStep
  <2>1. CASE LoadPlugin
    <3>1. /\ doing \in [Threads -> ThreadSteps] /\ doing["LuaEngine"] = "load"
          /\ doing' = [doing EXCEPT !["LuaEngine"] = "onInit", ![LuaState] = "head"]
      BY <2>1 DEF ShutdownTypeOK, LoadPlugin, Does
    <3>2. /\ doing' \in [Threads -> ThreadSteps]
          /\ doing'["LuaEngine"] = "onInit" /\ doing'[LuaState] = "head"
          /\ \A u \in Threads \ {"LuaEngine", LuaState} : doing'[u] = doing[u]
      BY <3>1 DEF Threads, Joined, LuaState, ThreadSteps
    <3>3. mStateExecuteQueue' \in Seq(Awaiting)
      BY <2>1 DEF ShutdownTypeOK, LoadPlugin, Awaiting
    <3>4. \A u \in Joined \cup Detached : u # LuaState
      BY DEF Joined, Detached, LuaState
    <3>5. "LuaEngine" \notin Detached
      BY DEF Detached
    <3>6. QED
      BY <1>1, <3>1, <3>2, <3>3, <3>4, <3>5 DEF Threads
  <2>2. CASE EngineStep /\ ~LoadPlugin
    <3>1. Quiet("LuaEngine")
      BY <1>5, <2>2 DEF EngineStep, NoPlugin, TriggerOnInit, AwaitOnInit, Does, Become, Threads, Joined, Detached, ThreadSteps
    <3>2. QED
      BY <1>1, <1>2, <1>3, <3>1 DEF LuaState
  <2>3. QED
    BY <1>8, <2>1, <2>2
<1>9. CASE BeginPass \/ EndPass
  <2>1. Quiet("PluginMonitor")
    BY <1>9 DEF BeginPass, EndPass, Does, Become, Threads, Joined, Detached, ThreadSteps
  <2>2. QED
    BY <1>1, <1>2, <1>3, <2>1 DEF LuaState
<1>10. CASE Reload
  <2>1. Moves("PluginMonitor")
    BY <1>10 DEF Reload, Does, Become, Threads, Joined, Detached, ThreadSteps
  <2>2. mStateExecuteQueue' \in Seq(Awaiting) /\ mStateExecuteQueue' # << >>
    <3>1. mStateExecuteQueue \in Seq(Awaiting) /\ "PluginMonitor" \in Awaiting
      BY DEF ShutdownTypeOK, Awaiting
    <3>2. mStateExecuteQueue' = Append(mStateExecuteQueue, "PluginMonitor")
      BY <1>10 DEF Reload
    <3>3. QED
      BY <3>1, <3>2
  <2>3. QED
    BY <1>1, <1>2, <2>1, <2>2
<1>11. CASE StateStep \/ TakeCall
  <2>1. Moves(LuaState)
    BY <1>11 DEF StateStep, StateHead, RunChunk, NextIteration, TakeCall, Does, Become, Threads, Joined,
        Detached, LuaState, ThreadSteps
  <2>2. mStateExecuteQueue \in Seq(Awaiting) /\ LuaState \in DOMAIN doing
    BY DEF ShutdownTypeOK, Threads
  <2>3. CASE RunChunk
    <3>1. mStateExecuteQueue # << >> /\ mStateExecuteQueue' = Tail(mStateExecuteQueue)
      BY <2>3 DEF RunChunk, Does, HandlersLocked
    <3>2. doing'[LuaState] # "chunk"
      BY <2>2, <2>3 DEF RunChunk, Become
    <3>3. mStateExecuteQueue' \in Seq(Awaiting)
      BY <2>2, <3>1
    <3>4. QED
      BY <1>1, <1>2, <2>1, <3>2, <3>3
  <2>4. CASE StateHead
    <3>1. UNCHANGED mStateExecuteQueue
      BY <2>4 DEF StateHead
    <3>2. doing'[LuaState] = "chunk" => mStateExecuteQueue # << >>
      BY <2>2, <2>4 DEF StateHead, Become
    <3>3. QED
      BY <1>1, <1>2, <2>1, <2>2, <3>1, <3>2
  <2>5. CASE NextIteration \/ TakeCall
    <3>1. UNCHANGED mStateExecuteQueue /\ doing'[LuaState] # "chunk"
      BY <2>2, <2>5 DEF NextIteration, TakeCall, Become
    <3>2. QED
      BY <1>1, <1>2, <2>1, <2>2, <3>1
  <2>6. QED
    BY <1>11, <2>3, <2>4, <2>5 DEF StateStep
<1>12. QED
  BY <1>4, <1>6, <1>7, <1>8, <1>9, <1>10, <1>11 DEF ThreadStep

\* Every step of a thread keeps it.
LEMMA ThreadKeeps ==
    ASSUME ShutdownIndInv, ThreadStep
    PROVE  ShutdownIndInv'
<1>0. ShutdownTypeOK /\ HandlersLocked
  BY DEF ShutdownIndInv
<1>1. /\ UNCHANGED <<at, mNetwork, mShutdownHandlers, mutex, requestVars, joined>>
      /\ exited' \in BOOLEAN
      /\ doing' \in [Threads -> ThreadSteps]
      /\ mStateExecuteQueue' \in Seq(Awaiting)
      /\ doing'[LuaState] = "chunk" => mStateExecuteQueue' # << >>
  BY <1>0, ThreadMoves
<1>2. /\ \A t \in Joined : doing'[t] # doing[t] =>
             doing[t] \notin {"unstarted", "ended"} /\ doing'[t] # "unstarted"
      /\ \A t \in Detached : doing'[t] = doing[t]
  BY <1>0, ThreadMoves
<1>3. /\ \A t \in Joined : doing[t] = "ended" => doing'[t] = "ended"
      /\ \A t \in Joined \cup Detached : doing'[t] = "unstarted" <=> doing[t] = "unstarted"
  BY <1>2
<1>4. UNCHANGED <<mShutdown, AlreadyShuttingDown, ShutdownAttempts, requests, request, handler, mainHeld,
                  mainShutdown, runs, unhandled>>
  BY <1>1 DEF requestVars
<1>5. ShutdownTypeOK'
  BY <1>0, <1>1, <1>4 DEF ShutdownTypeOK
<1>6. HandlersRegistered'
  BY <1>1, <1>3, StartUpFacts DEF ShutdownIndInv, HandlersRegistered
<1>7. HandlerBeforeThread'
  BY <1>1, <1>3 DEF ShutdownIndInv, HandlerBeforeThread
<1>8. HandlersLocked'
  BY <1>0, <1>1, <1>4 DEF HandlersLocked
<1>9. HandledEnded'
  BY <1>1, <1>3, <1>4 DEF ShutdownIndInv, HandledEnded
<1>10. MainReleased'
  BY <1>1, <1>3, <1>4 DEF ShutdownIndInv, MainReleased
<1>11. OneRun'
  BY <1>1, <1>4 DEF ShutdownIndInv, OneRun, InRun
<1>12. QED
  BY <1>5, <1>6, <1>7, <1>8, <1>9, <1>10, <1>11 DEF ShutdownIndInv

-----------------------------------------------------------------------------
(* Main's steps.                                                           *)

\* What main's steps leave alone.
LEMMA MainLeaves ==
    ASSUME MainStep
    PROVE  UNCHANGED <<mShutdown, AlreadyShuttingDown, ShutdownAttempts, requests, request, handler, mainHeld,
                       mainShutdown, runs, unhandled, joined, mStateExecuteQueue>>
BY DEF MainStep, TakeHandlersMutex, RegisterShutdownHandler, StartThread, SetNetwork, LeaveLoop, Destruct,
    requestVars

\* While main holds the mutex no requester runs the handlers.
LEMMA MainHolds ==
    ASSUME ShutdownAssumption, HandlersLocked, mutex = "register" \/ mutex = Nothing
    PROVE  \A r \in Requesters : request[r] \notin {"handle", "await"}
BY DEF ShutdownAssumption, HandlersLocked, Detached, LuaState, Nothing

\* A handler that is registered goes in front of the others.
LEMMA RegisterKeeps ==
    ASSUME ShutdownAssumption, ShutdownIndInv, RegisterShutdownHandler
    PROVE  ShutdownIndInv'
<1> DEFINE h == StartUp[at].what
<1>0. ShutdownTypeOK /\ HandlersLocked /\ HandlersRegistered
  BY DEF ShutdownIndInv
<1>1. UNCHANGED <<mShutdown, AlreadyShuttingDown, ShutdownAttempts, requests, request, handler, mainHeld,
                  mainShutdown, runs, unhandled, joined, mStateExecuteQueue>>
  BY MainLeaves DEF MainStep
<1>2. /\ UNCHANGED <<exited, doing, mNetwork>>
      /\ mutex = "register" /\ mutex' = Nothing /\ at' = at + 1
      /\ mShutdownHandlers' = <<h>> \o mShutdownHandlers
      /\ at \in 1..16 /\ StartUp[at].op = "register"
  BY StartUpFacts DEF RegisterShutdownHandler, Here
<1>3. h \in Handlers /\ (h = "Main" => at = 1)
  BY <1>2, StartUpFacts
<1>4. /\ mShutdownHandlers' \in Seq(Handlers) /\ Len(mShutdownHandlers') = Len(mShutdownHandlers) + 1
      /\ mShutdownHandlers'[1] = h
      /\ \A i \in 1..Len(mShutdownHandlers) : mShutdownHandlers'[i + 1] = mShutdownHandlers[i]
  <2>1. mShutdownHandlers \in Seq(Handlers)
    BY <1>0 DEF ShutdownTypeOK
  <2>2. QED
    BY <1>2, <1>3, <2>1
<1>5. DOMAIN mShutdownHandlers' = 1..(Len(mShutdownHandlers) + 1) /\ DOMAIN mShutdownHandlers = 1..Len(mShutdownHandlers)
      /\ Len(mShutdownHandlers) \in Nat
  BY <1>0, <1>4 DEF ShutdownTypeOK
<1>6. \A r \in Requesters : request[r] \notin {"handle", "await"}
  BY <1>0, <1>2, MainHolds
<1>7. \A x : (\E i \in DOMAIN mShutdownHandlers : mShutdownHandlers[i] = x) =>
             \E i \in DOMAIN mShutdownHandlers' : mShutdownHandlers'[i] = x
  <2>1. SUFFICES ASSUME NEW i \in DOMAIN mShutdownHandlers
                 PROVE  \E k \in DOMAIN mShutdownHandlers' : mShutdownHandlers'[k] = mShutdownHandlers[i]
    OBVIOUS
  <2>2. i + 1 \in DOMAIN mShutdownHandlers' /\ mShutdownHandlers'[i + 1] = mShutdownHandlers[i]
    BY <1>4, <1>5, <2>1
  <2>3. QED
    BY <2>2
<1>8. ShutdownTypeOK'
  <2>1. at' \in 1..Returning
    BY <1>2, StartUpLength
  <2>2. QED
    BY <1>0, <1>1, <1>2, <1>4, <2>1 DEF ShutdownTypeOK
<1>9. HandlersRegistered'
  <2>1. ASSUME NEW j \in 1..(at' - 1), j \in DOMAIN StartUp, StartUp[j].op = "register"
        PROVE  \E i \in DOMAIN mShutdownHandlers' : mShutdownHandlers'[i] = StartUp[j].what
    <3>1. CASE j = at
      <4>1. 1 \in DOMAIN mShutdownHandlers'
        BY <1>5
      <4>2. QED
        BY <1>4, <3>1, <4>1
    <3>2. CASE j # at
      <4>1. j \in 1..(at - 1)
        BY <1>2, <2>1, <3>2
      <4>2. \E i \in DOMAIN mShutdownHandlers : mShutdownHandlers[i] = StartUp[j].what
        BY <1>0, <2>1, <4>1 DEF HandlersRegistered
      <4>3. QED
        BY <1>7, <4>2
    <3>3. QED
      BY <3>1, <3>2
  <2>2. at' # 1
    BY <1>2
  <2>3. ASSUME NEW i \in DOMAIN mShutdownHandlers', mShutdownHandlers'[i] = "Main"
        PROVE  i = Len(mShutdownHandlers')
    <3>1. CASE i = 1
      <4>1. at = 1 /\ mShutdownHandlers = << >>
        BY <1>0, <1>3, <1>4, <2>3, <3>1 DEF HandlersRegistered
      <4>2. QED
        BY <1>4, <3>1, <4>1
    <3>2. CASE i # 1
      <4>1. PICK k \in DOMAIN mShutdownHandlers : i = k + 1
        <5>1. i - 1 \in DOMAIN mShutdownHandlers /\ i = (i - 1) + 1
          BY <1>5, <2>3, <3>2
        <5>2. QED
          BY <5>1
      <4>2. mShutdownHandlers[k] = "Main"
        BY <1>4, <1>5, <2>3, <4>1
      <4>3. k = Len(mShutdownHandlers)
        BY <1>0, <4>2 DEF HandlersRegistered
      <4>4. QED
        BY <1>4, <4>1, <4>3
    <3>3. QED
      BY <3>1, <3>2
  <2>4. \A j \in DOMAIN StartUp : j >= at' /\ StartUp[j].op = "start" => doing'[StartUp[j].what] = "unstarted"
    <3>1. DOMAIN StartUp = 1..16
      BY StartUpFacts
    <3>2. at' = at + 1 /\ at \in 1..16
      BY <1>2
    <3>3. \A j \in 1..16 : j >= at' => j >= at
      BY <3>2
    <3>4. \A j \in 1..16 : j >= at /\ StartUp[j].op = "start" => doing[StartUp[j].what] = "unstarted"
      BY <1>0, <3>1 DEF HandlersRegistered
    <3>5. UNCHANGED doing
      BY <1>2
    <3>6. QED
      BY <3>1, <3>3, <3>4, <3>5
  <2>5. QED
    BY <2>1, <2>2, <2>3, <2>4 DEF HandlersRegistered
<1>10. HandlerBeforeThread'
  BY <1>1, <1>2, <1>7 DEF ShutdownIndInv, HandlerBeforeThread
<1>11. HandlersLocked' /\ HandledEnded'
  <2>1. \A r \in Requesters : r # Nothing
    BY DEF ShutdownAssumption, Detached, LuaState, Nothing
  <2>2. QED
    BY <1>0, <1>1, <1>2, <1>6, <2>1 DEF HandlersLocked, HandledEnded
<1>12. MainReleased'
  <2>1. at' # Returning
    BY <1>2, StartUpLength
  <2>2. QED
    BY <1>1, <1>2, <2>1 DEF ShutdownIndInv, MainReleased
<1>13. OneRun'
  <2>1. runs = 1 /\ mainShutdown => \A r \in Requesters : ~InRun(r)
    BY <1>6 DEF ShutdownIndInv, OneRun, InRun
  <2>2. QED
    BY <1>1, <2>1 DEF ShutdownIndInv, OneRun, InRun
<1>14. QED
  BY <1>8, <1>9, <1>10, <1>11, <1>12, <1>13 DEF ShutdownIndInv

\* Every step of main keeps the invariant.
LEMMA MainKeeps ==
    ASSUME ShutdownAssumption, ShutdownIndInv, MainStep
    PROVE  ShutdownIndInv'
<1>0. ShutdownTypeOK /\ HandlersLocked /\ HandlersRegistered
  BY DEF ShutdownIndInv
<1>1. UNCHANGED <<mShutdown, AlreadyShuttingDown, ShutdownAttempts, requests, request, handler, mainHeld,
                  mainShutdown, runs, unhandled, joined, mStateExecuteQueue>>
  BY MainLeaves
<1>2. CASE RegisterShutdownHandler
  BY <1>2, RegisterKeeps
<1>3. CASE TakeHandlersMutex
  <2>1. UNCHANGED <<at, mShutdownHandlers, exited, doing, mNetwork>> /\ mutex = Nothing /\ mutex' = "register"
    BY <1>3 DEF TakeHandlersMutex, mainVars
  <2>2. \A r \in Requesters : r # "register" /\ request[r] \notin {"handle", "await"}
    BY <1>0, <2>1, MainHolds DEF ShutdownAssumption, Detached, LuaState
  <2>3. ShutdownTypeOK' /\ HandlersRegistered' /\ HandlerBeforeThread'
    BY <1>0, <1>1, <2>1 DEF ShutdownIndInv, ShutdownTypeOK, HandlersRegistered, HandlerBeforeThread
  <2>4. HandlersLocked' /\ HandledEnded'
    BY <1>0, <1>1, <2>1, <2>2 DEF HandlersLocked, HandledEnded
  <2>5. MainReleased' /\ OneRun'
    BY <1>1, <2>1 DEF ShutdownIndInv, MainReleased, OneRun, InRun
  <2>6. QED
    BY <2>3, <2>4, <2>5 DEF ShutdownIndInv
<1>4. CASE StartThread
  <2> DEFINE t == StartUp[at].what
  <2>1. /\ at \in 1..16 /\ StartUp[at].op = "start" /\ at' = at + 1
        /\ doing' = [doing EXCEPT ![t] = FirstStep(t)]
        /\ UNCHANGED <<mShutdownHandlers, mutex, exited, mNetwork>>
    BY <1>4, StartUpFacts DEF StartThread, Here, Become
  <2>0. \A j \in 1..16 : j >= at /\ StartUp[j].op = "start" => doing[StartUp[j].what] = "unstarted"
    <3>1. \A j \in DOMAIN StartUp : j >= at /\ StartUp[j].op = "start" => doing[StartUp[j].what] = "unstarted"
      BY <1>0 DEF HandlersRegistered
    <3>2. QED
      BY <3>1, StartUpLength
  <2>2. t \in Joined \cup Detached /\ t \in Threads /\ doing[t] = "unstarted"
    <3>1. t \in Joined \cup Detached
      BY <2>1, StartedThreads
    <3>2. t \in Threads
      BY <3>1 DEF Threads
    <3>3. doing[t] = "unstarted"
      BY <2>0, <2>1
    <3>4. QED
      BY <3>1, <3>2, <3>3
  <2>3. FirstStep(t) \in {"spin", "load", "running"}
    BY DEF FirstStep
  <2>4. /\ doing' \in [Threads -> ThreadSteps] /\ doing'[t] \in {"spin", "load", "running"}
        /\ \A u \in Threads : u # t => doing'[u] = doing[u]
    <3>1. doing \in [Threads -> ThreadSteps]
      BY <1>0 DEF ShutdownTypeOK
    <3>2. FirstStep(t) \in ThreadSteps
      BY <2>3 DEF ThreadSteps
    <3>3. QED
      BY <2>1, <2>2, <2>3, <3>1, <3>2
  <2>5. t # LuaState /\ \A u \in Joined \cup Detached : u \in Threads
    BY <2>2 DEF Threads, Joined, Detached, LuaState
  <2>6. \A u \in Joined : doing[u] = "ended" => doing'[u] = "ended"
    BY <2>2, <2>4, <2>5
  <2>7. ShutdownTypeOK'
    <3>1. at' \in 1..Returning
      BY <2>1, StartUpLength
    <3>2. QED
      BY <1>0, <1>1, <2>1, <2>4, <3>1 DEF ShutdownTypeOK
  <2>8. HandlersRegistered'
    <3>1. \A j \in 1..(at' - 1) : j \in DOMAIN StartUp /\ StartUp[j].op = "register" => j \in 1..(at - 1)
      BY <2>1
    <3>2. \A j \in DOMAIN StartUp : j >= at' /\ StartUp[j].op = "start" => doing'[StartUp[j].what] = "unstarted"
      <4>1. SUFFICES ASSUME NEW j \in 1..16, j >= at + 1, StartUp[j].op = "start"
                     PROVE  doing'[StartUp[j].what] = "unstarted"
        BY <2>1, StartUpLength
      <4>2. j # at
        BY <2>1, <4>1
      <4>3. StartUp[j].what # t
        BY <2>1, <4>1, <4>2, StartUpFacts
      <4>4. doing[StartUp[j].what] = "unstarted"
        BY <2>0, <2>1, <4>1
      <4>5. StartUp[j].what \in Threads
        BY <2>5, <4>1, StartedThreads
      <4>6. QED
        BY <2>4, <4>3, <4>4, <4>5
    <3>3. at' # 1
      BY <2>1
    <3>4. QED
      BY <1>0, <2>1, <3>1, <3>2, <3>3 DEF HandlersRegistered
  <2>9. HandlerBeforeThread'
    <3>1. ASSUME t \in Joined
          PROVE  \E i \in DOMAIN mShutdownHandlers : mShutdownHandlers[i] = t
      <4>1. PICK k \in 1..(at - 1) : StartUp[k].op = "register" /\ StartUp[k].what = t
        BY <2>1, <3>1, StartUpFacts
      <4>2. k \in DOMAIN StartUp
        BY <2>1, StartUpLength
      <4>3. QED
        BY <1>0, <4>1, <4>2 DEF HandlersRegistered
    <3>2. QED
      BY <1>1, <2>1, <2>4, <2>5, <2>6, <3>1 DEF ShutdownIndInv, HandlerBeforeThread
  <2>10. HandlersLocked'
    <3>1. doing'[LuaState] = doing[LuaState]
      BY <2>4, <2>5 DEF Threads
    <3>2. QED
      BY <1>0, <1>1, <2>1, <3>1 DEF HandlersLocked
  <2>11. HandledEnded'
    <3>1. \A u \in Joined \ unhandled : doing[u] # "unstarted" => doing'[u] # "unstarted"
      BY <2>4, <2>5
    <3>2. QED
      BY <1>1, <2>1, <2>6, <3>1 DEF ShutdownIndInv, HandledEnded
  <2>12. MainReleased'
    <3>1. at' # Returning
      BY <2>1, StartUpLength
    <3>2. QED
      BY <1>1, <2>6, <3>1 DEF ShutdownIndInv, MainReleased
  <2>13. OneRun'
    BY <1>1, <2>1 DEF ShutdownIndInv, OneRun, InRun
  <2>14. QED
    BY <2>7, <2>8, <2>9, <2>10, <2>11, <2>12, <2>13 DEF ShutdownIndInv
<1>5. CASE SetNetwork \/ LeaveLoop \/ Destruct
  <2>1. /\ UNCHANGED <<mShutdownHandlers, mutex, doing>>
        /\ exited' \in BOOLEAN /\ mNetwork' \in BOOLEAN
        /\ \/ at' = at
           \/ at \in 1..16 /\ at' = at + 1 /\ StartUp[at].op = "SetNetwork"
           \/ at = Looping /\ at' = Returning /\ mainShutdown
    BY <1>0, <1>5, StartUpFacts DEF SetNetwork, LeaveLoop, Destruct, mainVars, Here, ShutdownTypeOK
  <2>2. at \in 1..18
    BY <1>0, StartUpLength DEF ShutdownTypeOK
  <2>3. /\ at' \in 1..18 /\ at' >= at /\ (at' = 1 => at = 1)
        /\ \A j \in 1..16 : j < at' /\ StartUp[j].op = "register" => j < at
        /\ at' = Returning => at = Returning \/ mainShutdown
    BY <2>1, <2>2, StartUpLength
  <2>4. ShutdownTypeOK'
    <3>1. at' \in 1..Returning
      BY <2>3, StartUpLength
    <3>2. QED
      BY <1>0, <1>1, <2>1, <3>1 DEF ShutdownTypeOK
  <2>5. HandlersRegistered'
    <3>1. \A j \in 1..(at' - 1) : j \in DOMAIN StartUp /\ StartUp[j].op = "register" => j \in 1..(at - 1)
      BY <2>2, <2>3, StartUpLength
    <3>2. \A j \in DOMAIN StartUp : j >= at' => j >= at
      BY <2>2, <2>3, StartUpLength
    <3>3. QED
      BY <1>0, <2>1, <2>3, <3>1, <3>2 DEF HandlersRegistered
  <2>6. HandlerBeforeThread' /\ HandlersLocked' /\ HandledEnded'
    BY <1>1, <2>1 DEF ShutdownIndInv, HandlerBeforeThread, HandlersLocked, HandledEnded
  <2>7. MainReleased' /\ OneRun'
    BY <1>1, <2>1, <2>3 DEF ShutdownIndInv, MainReleased, OneRun, InRun
  <2>8. QED
    BY <2>4, <2>5, <2>6, <2>7 DEF ShutdownIndInv
<1>6. QED
  BY <1>2, <1>3, <1>4, <1>5 DEF MainStep

-----------------------------------------------------------------------------
(* A requester's steps.                                                    *)

\* What every step of a requester leaves alone.
LEMMA RequestLeaves ==
    ASSUME NEW r \in Requesters, Request(r) \/ RequestStep(r)
    PROVE  UNCHANGED <<at, mNetwork, mShutdownHandlers, doing, mStateExecuteQueue>>
BY DEF Request, RequestStep, CheckAlready, CountAttempts, MarkShuttingDown, LockHandlers, JoinThread, DetachThread,
    KickPlayers, TriggerOnShutdown, AwaitOnShutdown, ReleaseMain, HandlersDone, mainVars, HandlerVars

\* So they keep what is said of main and of the threads, if they keep the rest.
LEMMA RequestKeepsMain ==
    ASSUME ShutdownIndInv, NEW r \in Requesters, Request(r) \/ RequestStep(r)
    PROVE  HandlersRegistered'
BY RequestLeaves DEF ShutdownIndInv, HandlersRegistered

\* The steps before a requester holds the mutex.
LEMMA RequestBegins ==
    ASSUME ShutdownAssumption, ShutdownIndInv, NEW r \in Requesters,
           Request(r) \/ CheckAlready(r) \/ CountAttempts(r) \/ MarkShuttingDown(r)
    PROVE  ShutdownIndInv'
<1>0. ShutdownTypeOK /\ HandlersLocked
  BY DEF ShutdownIndInv
<1>1. /\ UNCHANGED <<at, mNetwork, mShutdownHandlers, doing, mStateExecuteQueue>>
      /\ UNCHANGED <<mutex, handler, mainShutdown, unhandled, joined>>
  BY DEF Request, CheckAlready, CountAttempts, MarkShuttingDown, mainVars
<1>2. PICK step \in {Nothing, "announce", "check", "count", "mark", "lock"} :
          request[r] \in {Nothing, "check", "count", "mark"} /\ request' = [request EXCEPT ![r] = step]
  BY DEF Request, CheckAlready, CountAttempts, MarkShuttingDown, GotoRequest
<1>3. /\ request' \in [Requesters -> RequestSteps]
      /\ \A q \in Requesters : request'[q] # request[q] =>
             /\ q = r
             /\ request[q] \notin {"lock", "handle", "await"}
             /\ request'[q] \in {Nothing, "announce", "check", "count", "mark", "lock"}
  <2>1. request \in [Requesters -> RequestSteps]
    BY <1>0 DEF ShutdownTypeOK
  <2>2. step \in RequestSteps
    BY <1>2 DEF RequestSteps
  <2>3. request' \in [Requesters -> RequestSteps]
    BY <1>2, <2>1, <2>2
  <2>4. \A q \in Requesters : q # r => request'[q] = request[q]
    BY <1>2, <2>1
  <2>5. request'[r] = step
    BY <1>2, <2>1
  <2>6. request[r] \notin {"lock", "handle", "await"}
    BY <1>2 DEF Nothing
  <2>7. QED
    BY <1>2, <2>3, <2>4, <2>5, <2>6
<1>4. \A q \in Requesters : \A step2 \in {"handle", "await"} : request'[q] = step2 <=> request[q] = step2
  BY <1>3 DEF Nothing
<1>5. ShutdownTypeOK'
  <2>1. /\ {mShutdown, AlreadyShuttingDown, exited}' \subseteq BOOLEAN
        /\ ShutdownAttempts' \in Nat /\ requests' \in 0..MaxRequests /\ runs' \in Nat
    <3>1. /\ mShutdown \in BOOLEAN /\ AlreadyShuttingDown \in BOOLEAN /\ exited \in BOOLEAN
          /\ ShutdownAttempts \in Nat /\ requests \in 0..MaxRequests /\ runs \in Nat
      BY <1>0 DEF ShutdownTypeOK
    <3>2. CASE Request(r)
      <4>1. /\ mShutdown' \in {TRUE, mShutdown} /\ requests' = requests + 1 /\ requests < MaxRequests
            /\ UNCHANGED <<AlreadyShuttingDown, exited, ShutdownAttempts, runs>>
        BY <3>2 DEF Request
      <4>2. requests' \in 0..MaxRequests
        BY <3>1, <4>1 DEF ShutdownAssumption
      <4>3. QED
        BY <3>1, <4>1, <4>2
    <3>3. CASE CheckAlready(r)
      <4>1. /\ UNCHANGED <<mShutdown, AlreadyShuttingDown, exited, requests, runs>>
            /\ ShutdownAttempts' = ShutdownAttempts + 1 \/ ShutdownAttempts' = ShutdownAttempts
        BY <3>3 DEF CheckAlready
      <4>2. ShutdownAttempts' \in Nat
        BY <3>1, <4>1
      <4>3. QED
        BY <3>1, <4>1, <4>2
    <3>4. CASE CountAttempts(r)
      BY <3>1, <3>4 DEF CountAttempts
    <3>5. CASE MarkShuttingDown(r)
      <4>1. /\ AlreadyShuttingDown' = TRUE /\ runs' = runs + 1
            /\ UNCHANGED <<mShutdown, exited, ShutdownAttempts, requests>>
        BY <3>5 DEF MarkShuttingDown
      <4>2. runs' \in Nat
        BY <3>1, <4>1
      <4>3. QED
        BY <3>1, <4>1, <4>2
    <3>6. QED
      BY <3>2, <3>3, <3>4, <3>5
  <2>2. mainHeld' \in Locks \cup {Nothing}
    <3>1. mainHeld \in Locks \cup {Nothing}
      BY <1>0 DEF ShutdownTypeOK
    <3>2. mainHeld' \in Locks \cup {Nothing} \/ mainHeld' = mainHeld
      BY DEF Request, CheckAlready, CountAttempts, MarkShuttingDown, LetGo
    <3>3. QED
      BY <3>1, <3>2
  <2>3. QED
    BY <1>0, <1>1, <1>3, <2>1, <2>2 DEF ShutdownTypeOK
<1>6. HandlersRegistered'
  BY RequestKeepsMain DEF RequestStep
<1>7. HandlerBeforeThread'
  BY <1>1 DEF ShutdownIndInv, HandlerBeforeThread
<1>8. HandlersLocked'
  BY <1>0, <1>1, <1>4 DEF HandlersLocked
<1>9. HandledEnded'
  BY <1>1, <1>4 DEF ShutdownIndInv, HandledEnded
<1>10. MainReleased'
  BY <1>1 DEF ShutdownIndInv, MainReleased
<1>11. OneRun'
  <2>1. CASE MarkShuttingDown(r)
    <3>1. runs \in Nat /\ runs' = runs + 1
      BY <1>0, <2>1 DEF ShutdownTypeOK, MarkShuttingDown
    <3>2. runs' = 1 => runs = 0 /\ ~mainShutdown' /\ \A q \in Requesters : ~InRun(q)
      BY <1>1, <3>1 DEF ShutdownIndInv, OneRun
    <3>3. runs' = 1 => \A q \in Requesters : InRun(q)' => q = r
      BY <1>3, <3>2 DEF InRun
    <3>4. QED
      BY <3>1, <3>2, <3>3 DEF OneRun
  <2>2. CASE ~MarkShuttingDown(r)
    <3>1. runs' = runs /\ step # "lock"
      <4>1. \E s2 \in {Nothing, "announce", "check", "count", "mark"} : request' = [request EXCEPT ![r] = s2] /\ runs' = runs
        BY <2>2 DEF Request, CheckAlready, CountAttempts, GotoRequest
      <4>2. request \in [Requesters -> RequestSteps]
        BY <1>0 DEF ShutdownTypeOK
      <4>3. request'[r] = step
        BY <1>2, <4>2
      <4>4. request'[r] \in {Nothing, "announce", "check", "count", "mark"}
        BY <4>1, <4>2
      <4>5. QED
        BY <4>1, <4>3, <4>4 DEF Nothing
    <3>2. \A q \in Requesters : InRun(q)' => InRun(q)
      <4>1. request \in [Requesters -> RequestSteps]
        BY <1>0 DEF ShutdownTypeOK
      <4>2. request'[r] = step /\ \A q \in Requesters : q # r => request'[q] = request[q]
        BY <1>2, <4>1
      <4>3. ~InRun(r)'
        BY <1>2, <3>1, <4>2 DEF InRun, Nothing
      <4>4. QED
        BY <4>2, <4>3 DEF InRun
    <3>3. QED
      BY <1>1, <1>4, <3>1, <3>2 DEF ShutdownIndInv, OneRun
  <2>3. QED
    BY <2>1, <2>2
<1>12. QED
  BY <1>5, <1>6, <1>7, <1>8, <1>9, <1>10, <1>11 DEF ShutdownIndInv

\* Who locks the handlers' mutex is the only one to run them.
LEMMA LockKeeps ==
    ASSUME ShutdownAssumption, ShutdownIndInv, NEW r \in Requesters, LockHandlers(r)
    PROVE  ShutdownIndInv'
<1>0. ShutdownTypeOK /\ HandlersLocked
  BY DEF ShutdownIndInv
<1>1. UNCHANGED <<at, mNetwork, mShutdownHandlers, doing, mStateExecuteQueue, mShutdown, AlreadyShuttingDown,
                  ShutdownAttempts, requests, mainHeld, mainShutdown, runs, exited, joined>>
  BY DEF LockHandlers, mainVars
<1>2. /\ request[r] = "lock" /\ mutex = Nothing /\ mutex' = r
      /\ handler' = [handler EXCEPT ![r] = 1]
      /\ request' = [request EXCEPT ![r] = "handle"]
      /\ unhandled' = unhandled \cup {t \in Joined : doing[t] = "unstarted"}
  BY DEF LockHandlers, GotoRequest
<1>3. request \in [Requesters -> RequestSteps] /\ handler \in [Requesters -> Nat] /\ unhandled \subseteq Joined
  BY <1>0 DEF ShutdownTypeOK
<1>4. /\ request' \in [Requesters -> RequestSteps] /\ handler' \in [Requesters -> Nat]
      /\ unhandled' \subseteq Joined
      /\ request'[r] = "handle" /\ handler'[r] = 1
      /\ \A q \in Requesters : q # r => request'[q] = request[q] /\ handler'[q] = handler[q]
  <2>1. "handle" \in RequestSteps /\ 1 \in Nat
    BY DEF RequestSteps
  <2>2. QED
    BY <1>2, <1>3, <2>1
<1>5. \A q \in Requesters : request[q] \notin {"handle", "await"}
  BY <1>0, <1>2, MainHolds
<1>6. ShutdownTypeOK'
  BY <1>0, <1>1, <1>2, <1>4 DEF ShutdownTypeOK
<1>7. HandlersRegistered'
  BY RequestKeepsMain DEF RequestStep
<1>8. HandlerBeforeThread'
  BY <1>1 DEF ShutdownIndInv, HandlerBeforeThread
<1>9. HandlersLocked'
  BY <1>0, <1>1, <1>2, <1>4, <1>5 DEF HandlersLocked
<1>10. HandledEnded'
  <2>1. mShutdownHandlers \in Seq(Handlers)
    BY <1>0 DEF ShutdownTypeOK
  <2>2. \A i \in DOMAIN mShutdownHandlers' : ~(i < handler'[r])
    BY <1>1, <1>4, <2>1
  <2>3. \A t \in Joined \ unhandled' : doing'[t] # "unstarted"
    BY <1>1, <1>2
  <2>4. \A q \in Requesters : request'[q] \in {"handle", "await"} => q = r
    BY <1>4, <1>5
  <2>5. QED
    BY <2>2, <2>3, <2>4 DEF HandledEnded
<1>11. MainReleased'
  BY <1>1, <1>2 DEF ShutdownIndInv, MainReleased
<1>12. OneRun'
  <2>1. \A q \in Requesters : InRun(q)' => InRun(q)
    BY <1>2, <1>4 DEF InRun
  <2>2. ~(runs = 1 /\ mainShutdown)
    <3>1. InRun(r) /\ request[r] # "handle"
      BY <1>2 DEF InRun
    <3>2. QED
      BY <3>1 DEF ShutdownIndInv, OneRun
  <2>3. QED
    BY <1>1, <2>1, <2>2 DEF ShutdownIndInv, OneRun
<1>13. QED
  BY <1>6, <1>7, <1>8, <1>9, <1>10, <1>11, <1>12 DEF ShutdownIndInv

\* A handler that has run: what a requester's step from one handler to the
\* next has to show of the handler and of what it did.
LEMMA HandlerKeeps ==
    ASSUME ShutdownAssumption, ShutdownIndInv, NEW r \in Requesters, RequestStep(r),
           request[r] \in {"handle", "await"},
           handler[r] \in DOMAIN mShutdownHandlers,
           mShutdownHandlers[handler[r]] \in Joined \ unhandled => doing[mShutdownHandlers[handler[r]]] = "ended",
           handler' = [handler EXCEPT ![r] = handler[r] + 1],
           request' = [request EXCEPT ![r] = "handle"],
           UNCHANGED HandlerVars,
           joined' \subseteq Joined \cup Detached,
           \A t \in joined' \cap Joined : t \in joined \/ doing[t] = "ended",
           IF mShutdownHandlers[handler[r]] = "Main" THEN mainShutdown' ELSE mainShutdown' = mainShutdown,
           mainShutdown' \in BOOLEAN
    PROVE  ShutdownIndInv'
<1>0. ShutdownTypeOK /\ HandlersLocked /\ HandlersRegistered /\ HandledEnded
  BY DEF ShutdownIndInv
<1>1. UNCHANGED <<at, mNetwork, mShutdownHandlers, doing, mStateExecuteQueue, mutex, mainHeld, mShutdown,
                  AlreadyShuttingDown, ShutdownAttempts, requests, runs, unhandled, exited>>
  BY RequestLeaves DEF HandlerVars
<1>2. mShutdownHandlers \in Seq(Handlers) /\ request \in [Requesters -> RequestSteps] /\ handler \in [Requesters -> Nat]
  BY <1>0 DEF ShutdownTypeOK
<1>3. /\ request' \in [Requesters -> RequestSteps] /\ handler' \in [Requesters -> Nat]
      /\ request'[r] = "handle" /\ handler'[r] = handler[r] + 1 /\ handler[r] \in Nat
      /\ \A q \in Requesters : q # r => request'[q] = request[q] /\ handler'[q] = handler[q]
  <2>1. "handle" \in RequestSteps
    BY DEF RequestSteps
  <2>2. handler[r] + 1 \in Nat /\ handler[r] \in Nat
    BY <1>2
  <2>3. QED
    BY <1>2, <2>1, <2>2
<1>4. mutex = r /\ \A q \in Requesters : q # r => request[q] \notin {"handle", "await"}
  BY <1>0 DEF HandlersLocked
<1>5. mainShutdown' /\ ~mainShutdown =>
          /\ handler'[r] > Len(mShutdownHandlers)
          /\ \A t \in Joined \ unhandled : doing[t] = "ended"
  <2>1. SUFFICES ASSUME mainShutdown', ~mainShutdown
                 PROVE  /\ handler'[r] > Len(mShutdownHandlers)
                        /\ \A t \in Joined \ unhandled : doing[t] = "ended"
    OBVIOUS
  <2>2. mShutdownHandlers[handler[r]] = "Main"
    BY <2>1
  <2>3. handler[r] = Len(mShutdownHandlers)
    BY <1>0, <2>2 DEF HandlersRegistered
  <2>4. ASSUME NEW t \in Joined \ unhandled
        PROVE  doing[t] = "ended"
    <3>1. PICK i \in DOMAIN mShutdownHandlers : mShutdownHandlers[i] = t
      BY <1>0 DEF HandledEnded, ShutdownIndInv, HandlerBeforeThread
    <3>2. t # "Main"
      BY DEF Joined
    <3>3. i < handler[r]
      BY <1>2, <2>2, <2>3, <3>1, <3>2
    <3>4. QED
      BY <1>0, <3>1, <3>3 DEF HandledEnded
  <2>5. QED
    BY <1>2, <1>3, <2>3, <2>4
<1>6. ShutdownTypeOK'
  <2>1. mainShutdown \in BOOLEAN
    BY <1>0 DEF ShutdownTypeOK
  <2>2. QED
    BY <1>0, <1>1, <1>3, <2>1 DEF ShutdownTypeOK
<1>7. HandlersRegistered'
  BY RequestKeepsMain
<1>8. HandlerBeforeThread'
  BY <1>1 DEF ShutdownIndInv, HandlerBeforeThread
<1>9. HandlersLocked'
  BY <1>0, <1>1, <1>3, <1>4 DEF HandlersLocked
<1>10. HandledEnded'
  <2>1. ASSUME NEW i \in DOMAIN mShutdownHandlers, i < handler[r] + 1, mShutdownHandlers[i] \in Joined \ unhandled
        PROVE  doing[mShutdownHandlers[i]] = "ended"
    <3>1. i = handler[r] \/ i < handler[r]
      BY <1>2, <1>3, <2>1
    <3>2. QED
      BY <1>0, <2>1, <3>1 DEF HandledEnded
  <2>2. \A q \in Requesters : request'[q] \in {"handle", "await"} => q = r
    BY <1>3, <1>4
  <2>3. \A t \in Joined \ unhandled : doing[t] # "unstarted"
    BY <1>0 DEF HandledEnded
  <2>4. QED
    BY <1>1, <1>3, <2>1, <2>2, <2>3 DEF HandledEnded
<1>11. MainReleased'
  BY <1>1, <1>5 DEF ShutdownIndInv, MainReleased
<1>12. OneRun'
  <2>1. InRun(r) /\ \A q \in Requesters : InRun(q)' <=> InRun(q)
    BY <1>3 DEF InRun
  <2>2. runs # 0
    BY <2>1 DEF ShutdownIndInv, OneRun
  <2>3. ASSUME runs = 1, mainShutdown', NEW q \in Requesters, InRun(q)
        PROVE  request'[q] = "handle" /\ handler'[q] > Len(mShutdownHandlers)
    <3>1. q = r
      BY <2>1, <2>3 DEF ShutdownIndInv, OneRun
    <3>2. CASE mainShutdown
      <4>1. handler[r] > Len(mShutdownHandlers)
        BY <2>1, <2>3, <3>2 DEF ShutdownIndInv, OneRun
      <4>2. QED
        BY <1>2, <1>3, <3>1, <4>1
    <3>3. CASE ~mainShutdown
      BY <1>3, <1>5, <2>3, <3>1, <3>3
    <3>4. QED
      BY <3>2, <3>3
  <2>4. QED
    BY <1>1, <2>1, <2>2, <2>3 DEF ShutdownIndInv, OneRun
<1>13. QED
  BY <1>6, <1>7, <1>8, <1>9, <1>10, <1>11, <1>12 DEF ShutdownIndInv

\* A handler that has run has its thread ended, and is followed by the next.
LEMMA HandlersRun ==
    ASSUME ShutdownAssumption, ShutdownIndInv, NEW r \in Requesters,
           \/ JoinThread(r) \/ DetachThread(r) \/ KickPlayers(r) \/ AwaitOnShutdown(r) \/ ReleaseMain(r)
    PROVE  ShutdownIndInv'
<1> DEFINE h == mShutdownHandlers[handler[r]]
<1>0. ShutdownTypeOK /\ HandlersLocked
  BY DEF ShutdownIndInv
<1>1. /\ request \in [Requesters -> RequestSteps] /\ joined \subseteq Joined \cup Detached
      /\ mainShutdown \in BOOLEAN /\ doing \in [Threads -> ThreadSteps]
  BY <1>0 DEF ShutdownTypeOK
<1>2. handler' = [handler EXCEPT ![r] = handler[r] + 1]
  BY DEF JoinThread, DetachThread, KickPlayers, AwaitOnShutdown, ReleaseMain, NextHandler
<1>3. RequestStep(r) /\ UNCHANGED HandlerVars
  BY DEF RequestStep, JoinThread, DetachThread, KickPlayers, AwaitOnShutdown, ReleaseMain
<1>4. ASSUME At(r, {h}), UNCHANGED request
      PROVE  request[r] = "handle" /\ request' = [request EXCEPT ![r] = "handle"]
  <2>1. request[r] = "handle"
    BY <1>4 DEF At
  <2>2. [request EXCEPT ![r] = "handle"] = request
    BY <1>1, <2>1
  <2>3. QED
    BY <1>4, <2>1, <2>2
<1>5. CASE JoinThread(r)
  <2>1. At(r, {h}) /\ handler[r] \in DOMAIN mShutdownHandlers /\ h \in Joined
    BY <1>5 DEF JoinThread, Handling, At
  <2>2. UNCHANGED <<request, mainShutdown>>
    BY <1>5 DEF JoinThread
  <2>3. /\ doing[h] = "unstarted" \/ doing[h] = "ended" \/ h \in joined
        /\ joined' = IF doing[h] = "unstarted" THEN joined ELSE joined \cup {h}
    BY <1>5 DEF JoinThread
  <2>4. doing[h] = "unstarted" \/ doing[h] = "ended"
    BY <2>1, <2>3 DEF ShutdownIndInv, HandlerBeforeThread
  <2>5. h \in Joined \ unhandled => doing[h] = "ended"
    BY <1>4, <2>1, <2>2, <2>4 DEF ShutdownIndInv, HandledEnded
  <2>6. joined' \subseteq Joined \cup Detached /\ \A t \in joined' \cap Joined : t \in joined \/ doing[t] = "ended"
    BY <1>1, <2>1, <2>3, <2>4
  <2>7. h # "Main"
    BY <2>1 DEF Joined
  <2> HIDE DEF h
  <2>8. QED
    BY <1>1, <1>2, <1>3, <1>4, <2>1, <2>2, <2>5, <2>6, <2>7, HandlerKeeps DEF h
<1>6. CASE DetachThread(r) \/ KickPlayers(r) \/ ReleaseMain(r)
  <2>1. At(r, {h}) /\ handler[r] \in DOMAIN mShutdownHandlers /\ h \in Detached \cup {"Kick", "Main"}
    BY <1>6 DEF DetachThread, KickPlayers, ReleaseMain, Handling, At
  <2>2. UNCHANGED request
    BY <1>6 DEF DetachThread, KickPlayers, ReleaseMain
  <2>3. h \notin Joined
    BY <2>1 DEF Joined, Detached
  <2>4. joined' = joined \/ (h \in Detached /\ joined' = joined \cup {h})
    BY <1>6 DEF DetachThread, KickPlayers, ReleaseMain, Handling, At
  <2>5. joined' \subseteq Joined \cup Detached /\ \A t \in joined' \cap Joined : t \in joined \/ doing[t] = "ended"
    BY <1>1, <2>3, <2>4
  <2>6. (IF h = "Main" THEN mainShutdown' ELSE mainShutdown' = mainShutdown) /\ mainShutdown' \in BOOLEAN
    <3>1. CASE ReleaseMain(r)
      BY <3>1 DEF ReleaseMain, Handling, At
    <3>2. CASE DetachThread(r) \/ KickPlayers(r)
      <4>1. h # "Main" /\ mainShutdown' = mainShutdown
        BY <3>2 DEF DetachThread, KickPlayers, Handling, At, Detached
      <4>2. QED
        BY <1>1, <4>1
    <3>3. QED
      BY <1>6, <3>1, <3>2
  <2>7. QED
    BY <1>2, <1>3, <1>4, <2>1, <2>2, <2>3, <2>5, <2>6, HandlerKeeps
<1>7. CASE AwaitOnShutdown(r)
  <2>1. /\ request[r] = "await" /\ request' = [request EXCEPT ![r] = "handle"]
        /\ UNCHANGED <<mainShutdown, joined>>
    BY <1>7 DEF AwaitOnShutdown, GotoRequest
  <2>2. handler[r] \in DOMAIN mShutdownHandlers /\ h = "onShutdown"
    BY <1>0, <2>1 DEF HandlersLocked
  <2>3. h \notin Joined
    BY <2>2 DEF Joined
  <2>4. QED
    BY <1>1, <1>2, <1>3, <2>1, <2>2, <2>3, HandlerKeeps
<1>8. QED
  BY <1>5, <1>6, <1>7

\* Between a handler's trigger and its wait, and after the last handler.
LEMMA HandlersPause ==
    ASSUME ShutdownAssumption, ShutdownIndInv, NEW r \in Requesters, TriggerOnShutdown(r) \/ HandlersDone(r)
    PROVE  ShutdownIndInv'
<1>0. ShutdownTypeOK /\ HandlersLocked
  BY DEF ShutdownIndInv
<1>1. UNCHANGED <<at, mNetwork, mShutdownHandlers, doing, mStateExecuteQueue, mShutdown, AlreadyShuttingDown,
                  ShutdownAttempts, requests, handler, mainShutdown, runs, unhandled, exited, joined>>
  BY DEF TriggerOnShutdown, HandlersDone, mainVars, HandlerVars
<1>2. request \in [Requesters -> RequestSteps] /\ "await" \in RequestSteps /\ Nothing \in RequestSteps
  BY <1>0 DEF ShutdownTypeOK, RequestSteps
<1>3. /\ request[r] = "handle"
      /\ \/ mutex' = mutex /\ request' = [request EXCEPT ![r] = "await"] /\ TriggerOnShutdown(r)
         \/ mutex' = Nothing /\ request' = [request EXCEPT ![r] = Nothing]
  BY DEF TriggerOnShutdown, HandlersDone, Handling, At, GotoRequest, HandlerVars
<1>4. /\ request' \in [Requesters -> RequestSteps]
      /\ \A q \in Requesters : q # r => request'[q] = request[q]
      /\ (mutex' = mutex /\ request'[r] = "await" /\ TriggerOnShutdown(r)) \/ (mutex' = Nothing /\ request'[r] = Nothing)
  BY <1>2, <1>3
<1>5. mutex = r /\ (\A q \in Requesters : q # r => request[q] \notin {"handle", "await"})
      /\ \A q \in Requesters : q # Nothing
  BY <1>0, <1>3 DEF HandlersLocked, ShutdownAssumption, Detached, LuaState, Nothing
<1>6. \A q \in Requesters : request'[q] \in {"handle", "await"} => request[q] \in {"handle", "await"}
  BY <1>3, <1>4
<1>7. ShutdownTypeOK'
  <2>1. mutex' \in Requesters \cup {"register", Nothing}
    BY <1>4, <1>5
  <2>2. mainHeld' \in Locks \cup {Nothing}
    <3>1. mainHeld \in Locks \cup {Nothing}
      BY <1>0 DEF ShutdownTypeOK
    <3>2. mainHeld' = Nothing \/ mainHeld' = mainHeld
      BY DEF TriggerOnShutdown, HandlersDone, HandlerVars, LetGo
    <3>3. QED
      BY <3>1, <3>2
  <2>3. QED
    BY <1>0, <1>1, <1>4, <2>1, <2>2 DEF ShutdownTypeOK
<1>8. HandlersRegistered'
  BY RequestKeepsMain DEF RequestStep
<1>9. HandlerBeforeThread' /\ MainReleased'
  BY <1>1 DEF ShutdownIndInv, HandlerBeforeThread, MainReleased
<1>10. HandlersLocked'
  <2>1. \A q \in Requesters : request'[q] \in {"handle", "await"} <=> mutex' = q
    BY <1>4, <1>5 DEF Nothing
  <2>2. TriggerOnShutdown(r) =>
            handler[r] \in DOMAIN mShutdownHandlers /\ mShutdownHandlers[handler[r]] = "onShutdown"
    BY DEF TriggerOnShutdown, Handling, At
  <2>3. \A q \in Requesters : request'[q] = "await" => q = r /\ TriggerOnShutdown(r)
    BY <1>4, <1>5 DEF Nothing
  <2>4. QED
    BY <1>0, <1>1, <2>1, <2>2, <2>3 DEF HandlersLocked
<1>11. HandledEnded'
  BY <1>1, <1>6 DEF ShutdownIndInv, HandledEnded
<1>12. OneRun'
  <2>1. \A q \in Requesters : InRun(q)' => InRun(q)
    BY <1>3, <1>4 DEF InRun, Nothing
  <2>2. ASSUME runs = 1, mainShutdown, NEW q \in Requesters, InRun(q)'
        PROVE  request'[q] = "handle" /\ handler[q] > Len(mShutdownHandlers)
    <3>1. InRun(r) /\ InRun(q)
      BY <1>3, <2>1, <2>2 DEF InRun
    <3>2. q = r /\ handler[r] > Len(mShutdownHandlers)
      BY <2>2, <3>1 DEF ShutdownIndInv, OneRun
    <3>3. request'[r] = "await"
      BY <1>4, <2>2, <3>2 DEF InRun, Nothing
    <3>4. handler[r] \in DOMAIN mShutdownHandlers
      BY <1>4, <3>3 DEF TriggerOnShutdown, Handling, At, Nothing
    <3>5. mShutdownHandlers \in Seq(Handlers)
      BY <1>0 DEF ShutdownTypeOK
    <3>6. QED
      BY <3>2, <3>4, <3>5
  <2>3. QED
    BY <1>1, <2>1, <2>2 DEF ShutdownIndInv, OneRun
<1>13. QED
  BY <1>7, <1>8, <1>9, <1>10, <1>11, <1>12 DEF ShutdownIndInv

-----------------------------------------------------------------------------
(* The theorems.                                                           *)

\* Every step keeps the invariant.
LEMMA StepShutdownInv == ShutdownAssumption /\ ShutdownIndInv /\ [ShutdownNext]_shutdownVars => ShutdownIndInv'
<1> SUFFICES ASSUME ShutdownAssumption, ShutdownIndInv, [ShutdownNext]_shutdownVars PROVE ShutdownIndInv'
  OBVIOUS
<1>1. CASE MainStep
  BY <1>1, MainKeeps
<1>2. CASE \E r \in Requesters : Request(r) \/ RequestStep(r)
  BY <1>2, RequestBegins, LockKeeps, HandlersRun, HandlersPause DEF RequestStep
<1>3. CASE ThreadStep
  BY <1>3, ThreadKeeps
<1>4. CASE UNCHANGED shutdownVars
  <2>1. ShutdownTypeOK'
    BY <1>4 DEF shutdownVars, ShutdownIndInv, ShutdownTypeOK
  <2>2. HandlersRegistered' /\ HandlerBeforeThread'
    BY <1>4 DEF shutdownVars, ShutdownIndInv, HandlersRegistered, HandlerBeforeThread
  <2>3. HandlersLocked' /\ HandledEnded'
    BY <1>4 DEF shutdownVars, ShutdownIndInv, HandlersLocked, HandledEnded
  <2>4. MainReleased' /\ OneRun'
    BY <1>4 DEF shutdownVars, ShutdownIndInv, MainReleased, OneRun, InRun
  <2>5. QED
    BY <2>1, <2>2, <2>3, <2>4 DEF ShutdownIndInv
<1>5. QED
  BY <1>1, <1>2, <1>3, <1>4 DEF ShutdownNext, ThreadStep

\* What holds of the list of handlers, its mutex, the runs of it and the
\* threads in every state of a start-up and a shutdown (Common.cpp, main.cpp).
THEOREM ShutdownInvariant == ShutdownSpec => []ShutdownIndInv
BY InitShutdownInv, StepShutdownInv, ShutdownAssumption, PTL DEF ShutdownSpec

\* When main returns, each thread that a handler joins has ended or was never
\* started, but for those that were started after the handlers began.
THEOREM MainOutlivesThreads == ShutdownSpec => []ThreadsEndBeforeMain
BY ShutdownInvariant, ShutdownInvImplies, PTL

\* When the handlers run once, whatever else is requested meanwhile, main returns
\* after the last of them (Common.cpp's AlreadyShuttingDown, main's own handler).
THEOREM MainOutlivesHandlers == ShutdownSpec => []HandlersEndBeforeMain
BY ShutdownInvariant, ShutdownInvImplies, PTL

-----------------------------------------------------------------------------
(* Settings and Heartbeat.                                                 *)

USE ConstantsAssumption, HeartbeatAssumption

FileType == [Keys -> Values \cup {Absent, Wrong}]

-----------------------------------------------------------------------------
(* The start.                                                              *)

\* A file that main wrote, or the operator edited, says for each key what it holds.
LEMMA FromFileOf ==
    ASSUME file' \in FileType, NEW k \in Keys
    PROVE  FromFile(k)' = IF file'[k] \in Values THEN file'[k] ELSE Default[k]
BY DEF FromFile, FileType, Default

\* The settings as the program has them.
LEMMA DefaultType == Default \in [Keys -> Values] /\ \A k \in Keys : Default[k] = 0
BY DEF Default

\* A start that came to its end has forgotten what it was given.
LEMMA ForgetType ==
    ASSUME Forget
    PROVE  env' \in Environments /\ portArgument' \in Values \cup {None} /\ disabled' \in BOOLEAN
<1>1. env' \in Environments /\ portArgument' \in Values \cup {None}
  BY DEF Forget, Environments
<1>2. disabled' = FALSE
  BY DEF Forget
<1>3. QED
  BY <1>1, <1>2

\* A port has 16 bits.
LEMMA NarrowType ==
    ASSUME NEW p \in Values
    PROVE  Narrow(p) \in Ports /\ (p \in Ports => Narrow(p) = p)
<1>1. p \in Nat /\ PortRange \in Nat /\ PortRange > 0
  BY ConstantsAssumption
<1>2. p % PortRange \in 0..(PortRange - 1)
  BY <1>1, Z3
<1>3. p \in 0..(PortRange - 1) => p % PortRange = p
  BY <1>1, Z3
<1>4. QED
  BY <1>2, <1>3 DEF Narrow, Ports

\* A start takes the defaults.
LEMMA StartKeepsInv ==
    ASSUME SettingsInv, Start
    PROVE  SettingsInv'
<1> USE DEF SettingsInv, Start
<1>1. phase' \in {"create", "parse"} /\ settings' = Default /\ UNCHANGED <<file, bound, edits, sets, due>>
  OBVIOUS
<1>2. SettingsTypeOK'
  BY <1>1, DefaultType DEF SettingsTypeOK
<1>3. FileIsThere' /\ StartsFromDefault' /\ ParsedIsDue'
  BY <1>1 DEF FileIsThere, StartsFromDefault, ParsedIsDue
<1>4. FileSaysWhatIsDue'
  BY <1>1 DEF FileSaysWhatIsDue, FromFile
<1>5. QED
  BY <1>2, <1>3, <1>4

\* The file is emptied, and what was parsed is all there is.
LEMMA OpenFileKeepsInv ==
    ASSUME SettingsInv, OpenFile
    PROVE  SettingsInv'
<1> USE DEF SettingsInv, OpenFile
<1>1. /\ \/ phase = "create" /\ phase' = "created"
         \/ phase = "flush" /\ phase' = "truncated"
      /\ UNCHANGED <<settings, env, portArgument, disabled, bound, starts, edits, sets, due>>
  OBVIOUS
<1>2. file' \in FileType
  BY DEF FileType
<1>3. SettingsTypeOK'
  BY <1>1, <1>2 DEF SettingsTypeOK, FileType
<1>4. FileIsThere'
  BY <1>2 DEF FileIsThere, FileType
<1>5. FileSaysWhatIsDue' /\ StartsFromDefault' /\ ParsedIsDue'
  BY <1>1 DEF FileSaysWhatIsDue, StartsFromDefault, ParsedIsDue
<1>6. QED
  BY <1>3, <1>4, <1>5

\* The file is written anew from them.
LEMMA WriteFileKeepsInv ==
    ASSUME SettingsInv, WriteFile
    PROVE  SettingsInv'
<1> USE DEF SettingsInv, WriteFile
<1>1. /\ settings' = settings /\ settings \in [Keys -> Values]
      /\ file' = settings
      /\ UNCHANGED <<env, portArgument, disabled, bound, starts, edits, sets>>
  BY DEF SettingsTypeOK, Written
<1>2. file' \in FileType
  BY <1>1 DEF FileType
<1>3. \A k \in Keys : FromFile(k)' = settings[k]
  BY <1>1, <1>2, FromFileOf
<1>4. CASE phase = "created"
  <2>1. phase' = "parse" /\ due' = Default /\ settings = Default
    BY <1>4 DEF StartsFromDefault
  <2>2. SettingsTypeOK'
    BY <1>1, <1>2, <2>1, DefaultType DEF SettingsTypeOK, FileType
  <2>3. FileIsThere'
    BY <1>2 DEF FileIsThere, FileType
  <2>4. FileSaysWhatIsDue' /\ StartsFromDefault' /\ ParsedIsDue'
    BY <1>1, <1>3, <2>1 DEF FileSaysWhatIsDue, StartsFromDefault, ParsedIsDue
  <2>5. QED
    BY <2>2, <2>3, <2>4
<1>5. CASE phase = "truncated"
  <2>1. /\ phase' = "check"
        /\ due' = [k \in Keys |-> IF due[k] = Unknown THEN settings[k]
                                  ELSE IF k \in DOMAIN env THEN env[k] ELSE due[k]]
    BY <1>5
  <2>2. \A k \in Keys : due'[k] = settings[k]
    BY <1>5, <2>1 DEF ParsedIsDue
  <2>3. due' \in [Keys -> Values \cup {Unknown}]
    BY <1>1, <2>1, <2>2
  <2>4. SettingsTypeOK'
    BY <1>1, <1>2, <2>1, <2>3 DEF SettingsTypeOK, FileType
  <2>5. FileIsThere'
    BY <2>1 DEF FileIsThere
  <2>6. FileSaysWhatIsDue' /\ StartsFromDefault' /\ ParsedIsDue'
    BY <1>1, <1>3, <2>1, <2>2 DEF FileSaysWhatIsDue, StartsFromDefault, ParsedIsDue
  <2>7. QED
    BY <2>4, <2>5, <2>6
<1>6. QED
  BY <1>4, <1>5

\* What was written in part is a file, or does not parse.
LEMMA TornType ==
    ASSUME SettingsTypeOK, file' \in Torn
    PROVE  file' \in FileType \cup {Malformed} /\ file' # None
<1>1. settings \in [Keys -> Values]
  BY DEF SettingsTypeOK
<1>2. \A part \in SUBSET Keys : [k \in Keys |-> IF k \in part THEN settings[k] ELSE Absent] \in FileType
  BY <1>1 DEF FileType
<1>3. file' \in FileType \cup {Malformed}
  BY <1>2 DEF Torn
<1>4. QED
  BY <1>3, None # Malformed, ConstantsAssumption DEF FileType

\* Nothing is due of a file whose write fell short.
LEMMA WriteShortKeepsInv ==
    ASSUME SettingsInv, WriteShort
    PROVE  SettingsInv'
<1>1. /\ file' \in Torn /\ due' = [k \in Keys |-> Unknown]
      /\ phase \in {"created", "truncated"}
      /\ phase' = IF phase = "created" THEN "parse" ELSE "check"
      /\ UNCHANGED <<settings, env, portArgument, disabled, bound, starts, edits, sets>>
  BY DEF WriteShort
<1>2. file' \in FileType \cup {Malformed} /\ file' # None
  BY <1>1, TornType DEF SettingsInv
<1>3. SettingsTypeOK'
  BY <1>1, <1>2 DEF SettingsInv, SettingsTypeOK, FileType
<1>4. FileIsThere' /\ ParsedIsDue'
  BY <1>1, <1>2 DEF FileIsThere, ParsedIsDue
<1>5. FileSaysWhatIsDue'
  BY <1>1 DEF FileSaysWhatIsDue
<1>6. StartsFromDefault'
  BY <1>1 DEF SettingsInv, StartsFromDefault
<1>7. QED
  BY <1>3, <1>4, <1>5, <1>6 DEF SettingsInv

\* A variable of the environment that is set has a value.
LEMMA EnvironmentType ==
    ASSUME SettingsTypeOK, NEW k \in DOMAIN env
    PROVE  env[k] \in Values
<1>1. CASE env = NoValues
  BY <1>1 DEF NoValues
<1>2. CASE env # NoValues
  <2>1. PICK j \in Keys : env \in [{j} -> ValuesOf(j) \ {0}]
    BY <1>2 DEF SettingsTypeOK, Environments
  <2>2. env[k] \in ValuesOf(j)
    BY <2>1
  <2>3. QED
    BY <2>2 DEF ValuesOf
<1>3. QED
  BY <1>1, <1>2

\* What a start has parsed: the environment, else the file, else the default.
LEMMA ParsedValues ==
    ASSUME SettingsInv, ParseFromFile
    PROVE  /\ settings' \in [Keys -> Values]
           /\ \A k \in Keys : settings'[k] = IF k \in DOMAIN env THEN env[k]
                                             ELSE IF disabled THEN Default[k] ELSE FromFile(k)
<1>1. settings = Default /\ SettingsTypeOK
  BY DEF SettingsInv, StartsFromDefault, ParseFromFile
<1>2. CASE disabled
  <2>1. settings' = [k \in Keys |-> TryReadValue([j \in Keys |-> Absent], k)]
    BY <1>2 DEF ParseFromFile
  <2>2. \A k \in Keys : settings'[k] = IF k \in DOMAIN env THEN env[k] ELSE Default[k]
    BY <1>1, <2>1 DEF TryReadValue
  <2>3. QED
    BY <1>1, <1>2, <2>1, <2>2, DefaultType, EnvironmentType
<1>3. CASE ~ disabled
  <2>1. file \in FileType /\ file \notin {None, Malformed}
    BY <1>1, <1>3 DEF SettingsInv, FileIsThere, ParseFromFile, SettingsTypeOK, FileType
  <2>2. settings' = [k \in Keys |-> TryReadValue(file, k)]
    BY <1>3 DEF ParseFromFile
  <2>3. \A k \in Keys : settings'[k] = IF k \in DOMAIN env THEN env[k] ELSE FromFile(k)
    BY <1>1, <2>1, <2>2 DEF TryReadValue, FromFile
  <2>4. \A k \in Keys : FromFile(k) \in Values
    BY <2>1, DefaultType DEF FromFile
  <2>5. QED
    BY <1>3, <2>2, <2>3, <2>4, EnvironmentType, <1>1
<1>4. QED
  BY <1>1, <1>2, <1>3 DEF SettingsTypeOK

\* Parsing takes the environment's value, the file's or the default.
LEMMA ParseKeepsInv ==
    ASSUME SettingsInv, ParseFromFile
    PROVE  SettingsInv'
<1>1. /\ phase = "parse" /\ phase' = IF disabled THEN "check" ELSE "flush"
      /\ UNCHANGED <<file, env, portArgument, disabled, bound, starts, edits, sets, due>>
  BY DEF ParseFromFile
<1>2. SettingsTypeOK'
  BY <1>1, ParsedValues DEF SettingsInv, SettingsTypeOK
<1>3. FileIsThere' /\ StartsFromDefault'
  BY <1>1 DEF FileIsThere, StartsFromDefault
<1>4. FileSaysWhatIsDue'
  BY <1>1 DEF SettingsInv, FileSaysWhatIsDue, FromFile
<1>5. ParsedIsDue'
  BY <1>1, ParsedValues DEF SettingsInv, FileSaysWhatIsDue, ParsedIsDue
<1>6. QED
  BY <1>2, <1>3, <1>4, <1>5 DEF SettingsInv

\* Steps before and after the file is read and rewritten.
LEMMA QuietKeepsInv ==
    ASSUME SettingsInv, SettingsTypeOK',
           phase \notin {"created", "truncated"},
           phase' \notin {"create", "created", "parse", "flush", "truncated"},
           UNCHANGED <<file, due>>
    PROVE  SettingsInv'
BY DEF SettingsInv, FileIsThere, FileSaysWhatIsDue, FromFile, StartsFromDefault, ParsedIsDue

\* Steps that leave file and parsing alone.
LEMMA OtherStepsKeepInv ==
    ASSUME SettingsInv,
           \/ CannotWrite \/ ParseFails \/ CheckAuthKey \/ OverridePort \/ Bind
           \/ \E k \in Keys, v \in Values : Set(k, v)
    PROVE  SettingsInv'
<1>1. CASE CannotWrite \/ ParseFails \/ CheckAuthKey
  <2>1. SettingsTypeOK'
    BY <1>1 DEF SettingsInv, SettingsTypeOK, CannotWrite, ParseFails, CheckAuthKey
  <2>2. QED
    BY <1>1, <2>1, QuietKeepsInv DEF CannotWrite, ParseFails, CheckAuthKey
<1>2. CASE OverridePort
  <2>1. settings' \in [Keys -> Values]
    <3>1. settings \in [Keys -> Values] /\ (portArgument \in Values \/ portArgument = None)
      BY DEF SettingsInv, SettingsTypeOK
    <3>2. None \notin Ports
      BY ConstantsAssumption DEF Ports
    <3>3. settings' = settings \/ (portArgument \in Values /\ settings' = [settings EXCEPT !["Port"] = portArgument])
      BY <1>2, <3>1, <3>2 DEF OverridePort
    <3>4. QED
      BY <3>1, <3>3
  <2>2. /\ phase = "arguments" /\ phase' \in {"up", "down"} /\ Forget
        /\ UNCHANGED <<file, bound, starts, edits, sets, due>>
    BY <1>2 DEF OverridePort
  <2>3. SettingsTypeOK'
    BY <2>1, <2>2, ForgetType DEF SettingsInv, SettingsTypeOK
  <2>4. QED
    BY <2>2, <2>3, QuietKeepsInv
<1>3. CASE Bind
  <2>1. /\ phase = "up" /\ bound' = Narrow(settings["Port"])
        /\ UNCHANGED <<phase, settings, file, env, portArgument, disabled, starts, edits, sets, due>>
    BY <1>3 DEF Bind
  <2>2. bound' \in Ports
    BY <2>1, NarrowType DEF SettingsInv, SettingsTypeOK, Keys
  <2>3. SettingsTypeOK'
    BY <2>1, <2>2 DEF SettingsInv, SettingsTypeOK
  <2>4. QED
    BY <2>1, <2>3, QuietKeepsInv
<1>4. ASSUME NEW k \in Keys, NEW v \in Values, Set(k, v)
      PROVE  SettingsInv'
  <2>1. settings' \in [Keys -> Values] /\ sets' \in 0..MaxSets
    BY <1>4 DEF SettingsInv, SettingsTypeOK, Set
  <2>2. SettingsTypeOK'
    BY <1>4, <2>1 DEF SettingsInv, SettingsTypeOK, Set
  <2>3. QED
    BY <1>4, <2>2, QuietKeepsInv DEF Set
<1>5. QED
  BY <1>1, <1>2, <1>3, <1>4

\* The operator's word is due, unless the file is about to be overwritten.
LEMMA EditKeepsInv ==
    ASSUME SettingsInv, NEW k \in Keys, NEW v \in Values \cup {Wrong}, Edit(k, v)
    PROVE  SettingsInv'
<1>1. /\ due' = [due EXCEPT ![k] = IF phase \in {"created", "flush", "truncated"} THEN Unknown
                                   ELSE IF v = Wrong THEN Default[k] ELSE v]
      /\ UNCHANGED <<phase, settings, env, portArgument, disabled, bound, starts, sets>>
      /\ edits' \in 0..MaxEdits
  BY DEF SettingsInv, SettingsTypeOK, Edit
<1>2. file' \in FileType /\ \A j \in Keys \ {k} : FromFile(j)' = FromFile(j)
  <2>1. CASE file = Malformed
    <3>1. file' = [j \in Keys |-> IF j = k THEN v ELSE Absent]
      BY <2>1 DEF Edit
    <3>2. file' \in FileType
      BY <3>1 DEF FileType
    <3>3. \A j \in Keys \ {k} : FromFile(j)' = Default[j]
      BY <3>1, <3>2, FromFileOf
    <3>4. QED
      BY <2>1, <3>2, <3>3 DEF FromFile
  <2>2. CASE file # Malformed
    <3>1. file \in FileType /\ file \notin {None, Malformed} /\ file' = [file EXCEPT ![k] = v]
      BY <2>2 DEF SettingsInv, SettingsTypeOK, Edit, FileType
    <3>2. file' \in FileType /\ \A j \in Keys \ {k} : file'[j] = file[j]
      BY <3>1 DEF FileType
    <3>3. \A j \in Keys \ {k} : FromFile(j)' = FromFile(j)
      <4>1. ASSUME NEW j \in Keys \ {k} PROVE FromFile(j)' = FromFile(j)
        <5>1. FromFile(j)' = IF file'[j] \in Values THEN file'[j] ELSE Default[j]
          BY <3>2, FromFileOf
        <5>2. QED
          BY <3>1, <3>2, <5>1 DEF FromFile
      <4>2. QED
        BY <4>1
    <3>4. QED
      BY <3>2, <3>3
  <2>3. QED
    BY <2>1, <2>2
<1>3. FromFile(k)' = IF v = Wrong THEN Default[k] ELSE v
  <2>1. file'[k] = v
    BY DEF Edit, SettingsInv, SettingsTypeOK
  <2>2. QED
    BY <1>2, <2>1, FromFileOf
<1>4. SettingsTypeOK'
  <2>1. due' \in [Keys -> Values \cup {Unknown}]
    BY <1>1, DefaultType DEF SettingsInv, SettingsTypeOK
  <2>2. QED
    BY <1>1, <1>2, <2>1 DEF SettingsInv, SettingsTypeOK, FileType
<1>5. FileIsThere'
  BY <1>2 DEF FileIsThere, FileType
<1>6. FileSaysWhatIsDue'
  BY <1>1, <1>2, <1>3 DEF SettingsInv, SettingsTypeOK, FileSaysWhatIsDue
<1>7. StartsFromDefault' /\ ParsedIsDue'
  BY <1>1 DEF SettingsInv, SettingsTypeOK, StartsFromDefault, ParsedIsDue
<1>8. QED
  BY <1>4, <1>5, <1>6, <1>7 DEF SettingsInv

\* Nothing is due of a file that was written in part.
LEMMA StopKeepsInv ==
    ASSUME SettingsInv, Stop
    PROVE  SettingsInv'
<1>1. /\ phase' = "down" /\ bound' = None
      /\ settings' = Default /\ Forget
      /\ UNCHANGED <<starts, edits, sets>>
  BY DEF Stop
<1>2. CASE phase \in {"created", "truncated"}
  <2>1. file' \in Torn /\ due' = [k \in Keys |-> Unknown]
    BY <1>2 DEF Stop
  <2>2. file' \in FileType \cup {Malformed}
    BY <2>1, TornType DEF SettingsInv
  <2>3. SettingsTypeOK'
    BY <1>1, <2>1, <2>2, ForgetType, DefaultType DEF SettingsInv, SettingsTypeOK, FileType
  <2>4. QED
    BY <1>1, <2>1, <2>3 DEF SettingsInv, FileIsThere, FileSaysWhatIsDue, StartsFromDefault, ParsedIsDue
<1>3. CASE phase \notin {"created", "truncated"}
  <2>1. UNCHANGED <<file, due>>
    BY <1>3 DEF Stop
  <2>2. SettingsTypeOK'
    BY <1>1, <2>1, ForgetType, DefaultType DEF SettingsInv, SettingsTypeOK
  <2>3. QED
    BY <1>1, <1>3, <2>1, <2>2, QuietKeepsInv
<1>4. QED
  BY <1>2, <1>3

\* Every step of the settings keeps their part of the invariant.
LEMMA SettingsNextInv ==
    ASSUME SettingsInv, SettingsNext \/ Stop \/ UNCHANGED settingsVars
    PROVE  SettingsInv'
<1>1. CASE Start \/ OpenFile \/ WriteFile \/ WriteShort \/ ParseFromFile \/ Stop
  BY <1>1, StartKeepsInv, OpenFileKeepsInv, WriteFileKeepsInv, WriteShortKeepsInv, ParseKeepsInv, StopKeepsInv
<1>2. CASE CannotWrite \/ ParseFails \/ CheckAuthKey \/ OverridePort \/ Bind
  BY <1>2, OtherStepsKeepInv
<1>3. ASSUME NEW k \in Keys, NEW v \in Values, ConsoleSets(k, v) \/ LuaSets(k, v)
      PROVE  SettingsInv'
  BY <1>3, OtherStepsKeepInv DEF ConsoleSets, LuaSets
<1>4. ASSUME NEW k \in Keys, NEW v \in Values \cup {Wrong}, Edit(k, v)
      PROVE  SettingsInv'
  BY <1>4, EditKeepsInv
<1>5. CASE UNCHANGED settingsVars
  BY <1>5 DEF settingsVars, SettingsInv, SettingsTypeOK, FileIsThere, FileSaysWhatIsDue, FromFile,
              StartsFromDefault, ParsedIsDue
<1>6. QED
  BY <1>1, <1>2, <1>3, <1>4, <1>5 DEF SettingsNext, ValuesOf

-----------------------------------------------------------------------------
(* The heartbeat.                                                          *)

\* Neither console nor Lua sets the port.
LEMMA PortStays ==
    ASSUME SettingsInv, NEW k \in Keys, NEW v \in Values, ConsoleSets(k, v) \/ LuaSets(k, v)
    PROVE  phase' = phase /\ bound' = bound /\ settings'["Port"] = settings["Port"]
<1>1. k # "Port"
  BY DEF ConsoleSets, LuaSets, InputAccessMapping, LuaMaySet, Keys
<1>2. settings' = [settings EXCEPT ![k] = v] /\ UNCHANGED <<phase, bound>>
  BY DEF ConsoleSets, LuaSets, Set
<1>3. settings \in [Keys -> Values]
  BY DEF SettingsInv, SettingsTypeOK
<1>4. QED
  BY <1>1, <1>2, <1>3 DEF Keys

\* So the ports stay the setting.
LEMMA PortNextInv ==
    ASSUME IndInv, [Next]_vars
    PROVE  PortsAreTheSetting'
<1> USE DEF IndInv, PortsAreTheSetting
<1>1. CASE SettingsNext /\ UNCHANGED heartbeatVars
  <2>1. LastBody' = LastBody
    BY <1>1 DEF heartbeatVars
  <2>2. CASE \/ Start \/ OpenFile \/ WriteFile \/ WriteShort \/ CannotWrite
             \/ ParseFromFile \/ ParseFails \/ CheckAuthKey
    BY <2>1, <2>2 DEF Start, OpenFile, WriteFile, WriteShort, CannotWrite, ParseFromFile, ParseFails, CheckAuthKey
  <2>3. CASE OverridePort \/ Bind
    BY <2>1, <2>3 DEF OverridePort, Bind
  <2>4. ASSUME NEW k \in Keys, NEW v \in Values, ConsoleSets(k, v) \/ LuaSets(k, v)
        PROVE  PortsAreTheSetting'
    BY <2>1, <2>4, PortStays
  <2>5. ASSUME NEW k \in Keys, NEW v \in Values \cup {Wrong}, Edit(k, v)
        PROVE  PortsAreTheSetting'
    BY <2>1, <2>5 DEF Edit
  <2>6. QED
    BY <1>1, <2>2, <2>3, <2>4, <2>5 DEF SettingsNext, ValuesOf
<1>2. CASE StopAll
  BY <1>2 DEF StopAll, Stop
<1>3. CASE Generate
  BY <1>3 DEF Generate, Running, Body, settingsVars
<1>4. CASE Tick \/ Reaches \/ Lost \/ Judge \/ UNCHANGED vars
  BY <1>4 DEF Tick, Reaches, Lost, Judge, vars, settingsVars, heartbeatVars
<1>5. QED
  BY <1>1, <1>2, <1>3, <1>4 DEF Next

\* Every step keeps the heartbeat's types.
LEMMA TypeNextInv ==
    ASSUME IndInv, [Next]_vars, SettingsTypeOK'
    PROVE  TypeOK'
<1> USE DEF IndInv, TypeOK
<1>1. CASE SettingsNext /\ UNCHANGED heartbeatVars
  BY <1>1 DEF heartbeatVars
<1>2. CASE StopAll
  <2>1. isAuth' \in BOOLEAN
    BY <1>2 DEF StopAll
  <2>2. passed' \in 0..Threshold /\ url' \in 1..Urls
    BY <1>2 DEF StopAll
  <2>3. QED
    BY <1>2, <2>1, <2>2 DEF StopAll
<1>3. CASE Generate
  <2>1. Body \in Bodies
    BY DEF Body, Bodies, SettingsTypeOK, Keys
  <2>2. QED
    BY <1>3, <2>1 DEF Generate
<1>4. CASE Tick
  BY <1>4 DEF Tick
<1>5. CASE Reaches \/ Lost
  BY <1>5 DEF Reaches, Lost, NextUrl, Answers
<1>6. CASE Judge
  BY <1>6 DEF Judge, Answers
<1>7. CASE UNCHANGED vars
  BY <1>7 DEF vars, heartbeatVars
<1>8. QED
  BY <1>1, <1>2, <1>3, <1>4, <1>5, <1>6, <1>7 DEF Next

-----------------------------------------------------------------------------
(* The theorems.                                                           *)

\* Before the first start nothing is bound and nothing was posted.
LEMMA InitIndInv == Init => IndInv
<1> SUFFICES ASSUME Init PROVE IndInv
  OBVIOUS
<1> USE DEF Init, SettingsInit
<1>1. SettingsTypeOK
  <2>1. env \in Environments
    BY DEF Environments
  <2>2. disabled \in BOOLEAN
    OBVIOUS
  <2>3. starts \in 0..MaxStarts /\ edits \in 0..MaxEdits /\ sets \in 0..MaxSets
    OBVIOUS
  <2>4. due \in [Keys -> Values \cup {Unknown}]
    BY DefaultType
  <2>5. QED
    BY <2>1, <2>2, <2>3, <2>4, DefaultType DEF SettingsTypeOK
<1>2. SettingsInv
  BY <1>1 DEF SettingsInv, FileIsThere, FileSaysWhatIsDue, FromFile, StartsFromDefault, ParsedIsDue
<1>3. TypeOK
  <2>1. isAuth \in BOOLEAN
    OBVIOUS
  <2>2. passed \in 0..Threshold /\ url \in 1..Urls
    OBVIOUS
  <2>3. QED
    BY <1>1, <2>1, <2>2 DEF TypeOK
<1>4. PortsAreTheSetting
  BY DEF PortsAreTheSetting
<1>5. QED
  BY <1>2, <1>3, <1>4 DEF IndInv

\* Every step of settings and heartbeat keeps the invariant.
LEMMA NextIndInv == IndInv /\ [Next]_vars => IndInv'
<1> SUFFICES ASSUME IndInv, [Next]_vars PROVE IndInv'
  OBVIOUS
<1>1. SettingsNext \/ Stop \/ UNCHANGED settingsVars
  BY DEF Next, vars, StopAll, Tick, Generate, Reaches, Lost, Judge
<1>2. SettingsInv'
  BY <1>1, SettingsNextInv DEF IndInv
<1>3. TypeOK' /\ PortsAreTheSetting'
  BY <1>2, TypeNextInv, PortNextInv DEF SettingsInv
<1>4. QED
  BY <1>2, <1>3 DEF IndInv

\* The invariant holds throughout: the file says what is due whenever it is not
\* being rewritten, and both ports come from the setting.
THEOREM Invariance == Spec => []IndInv
BY InitIndInv, NextIndInv, PTL DEF Spec

\* All variables have their types.
THEOREM TypeCorrect == Spec => []TypeOK
<1>1. IndInv => TypeOK
  BY DEF IndInv
<1>2. QED
  BY <1>1, Invariance, PTL

\* The heartbeat names the port that the network has bound, whatever plugins and
\* the console set meanwhile, unless the setting is none that 16 bits hold.
THEOREM PortIsAdvertised == Spec => []AdvertisesBoundPort
<1>1. IndInv => AdvertisesBoundPort
  <2> SUFFICES ASSUME IndInv, bound # None, LastBody # None, LastBody.port \in Ports
               PROVE  LastBody.port = bound
    BY DEF AdvertisesBoundPort
  <2>1. bound = Narrow(settings["Port"]) /\ LastBody.port = settings["Port"]
    BY DEF IndInv, PortsAreTheSetting
  <2>2. settings["Port"] \in Values
    BY DEF IndInv, SettingsInv, SettingsTypeOK, Keys
  <2>3. QED
    BY <2>1, <2>2, NarrowType
<1>2. QED
  BY <1>1, Invariance, PTL

\* However often the file was rewritten, edited and torn by a stop or a short
\* write, a start takes what the environment says, else what is due.
THEOREM ConfigurationIsKept == Spec => StartsAsConfigured
<1>1. IndInv /\ [Next]_vars =>
        [phase = "parse" /\ phase' \in {"flush", "check"} =>
            \A k \in Keys :
               IF k \in DOMAIN env THEN settings'[k] = env[k]
               ELSE IF disabled THEN settings'[k] = Default[k]
               ELSE due[k] \in {settings'[k], Unknown}]_settingsVars
  <2> SUFFICES ASSUME IndInv, [Next]_vars, phase = "parse", phase' \in {"flush", "check"}, NEW k \in Keys
               PROVE  IF k \in DOMAIN env THEN settings'[k] = env[k]
                      ELSE IF disabled THEN settings'[k] = Default[k]
                      ELSE due[k] \in {settings'[k], Unknown}
    OBVIOUS
  <2>1. ParseFromFile
    <3>1. SettingsNext
      BY DEF Next, vars, settingsVars, StopAll, Stop, Tick, Generate, Reaches, Lost, Judge
    <3>2. QED
      BY <3>1 DEF SettingsNext, Start, OpenFile, WriteFile, WriteShort, CannotWrite, ParseFails, CheckAuthKey,
                  OverridePort, Bind, ConsoleSets, LuaSets, Set, Edit
  <2>2. settings'[k] = IF k \in DOMAIN env THEN env[k] ELSE IF disabled THEN Default[k] ELSE FromFile(k)
    BY <2>1, ParsedValues DEF IndInv
  <2>3. due[k] \in {FromFile(k), Unknown}
    BY DEF IndInv, SettingsInv, FileSaysWhatIsDue
  <2>4. QED
    BY <2>2, <2>3
<1>2. QED
  BY <1>1, Invariance, PTL DEF Spec, StartsAsConfigured

=============================================================================
