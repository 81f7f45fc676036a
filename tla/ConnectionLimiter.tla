-------------------------- MODULE ConnectionLimiter --------------------------
(***************************************************************************)
(* The connection limiter (TConnectionLimiter) and the two kinds of thread *)
(* that use it: the accept loop of TNetwork::TCPServerMain, and one        *)
(* detached TNetwork::Identify thread per admitted connection.             *)
(*                                                                         *)
(* A TGuard is a move-only object that owns one unit of the two counters.  *)
(* It travels optional -> local variable -> argument of the thread, and    *)
(* whichever object owns the unit last gives it back in its destructor.    *)
(* A guard is represented by the connection it was acquired for; an object *)
(* that was never assigned, or was moved from, holds NoOwner.              *)
(***************************************************************************)
EXTENDS Integers, FiniteSets

CONSTANTS
    Conns,      \* sockets the acceptor can hand out (an id is reusable once closed)
    Ips,        \* remote addresses
    MaxPerIp,   \* MAX_CONCURRENT_CONNECTIONS
    MaxGlobal,  \* MAX_GLOBAL_CONNECTIONS
    NoOwner     \* mOwner == nullptr

\* The constructor throws when a limit is zero (TConnectionLimiter.cpp:27-34).
ASSUME LimitsAssumption ==
    /\ MaxPerIp \in Nat \ {0}
    /\ MaxGlobal \in Nat \ {0}
    /\ NoOwner \notin Conns

VARIABLES
    mGlobal,    \* the limiter's total
    mPerIp,     \* the limiter's buckets: a function whose domain is the keys present
    acceptPc,   \* where the accept loop is
    current,    \* the connection the accept loop is handling
    connIp,     \* remote address of every connection
    maybeGuard, \* the TGuard inside the optional `MaybeGuard`
    guard,      \* the accept loop's local `Guard`
    thread,     \* state of the Identify thread of a connection
    owned       \* connections whose thread argument still owns its unit

limiter == <<mGlobal, mPerIp>>
limiterVars == <<mGlobal, mPerIp, acceptPc, current, connIp, maybeGuard, guard, thread, owned>>

AcceptStates == {"accept", "acquire", "move", "spawn", "unwind", "scopeEnd", "optionalEnd"}
ThreadStates == {"none", "reading", "session", "returned"}

LimiterTypeOK ==
    /\ mGlobal \in Nat
    /\ DOMAIN mPerIp \subseteq Ips
    /\ mPerIp \in [DOMAIN mPerIp -> Nat]
    /\ acceptPc \in AcceptStates
    /\ current \in Conns \cup {NoOwner}
    /\ connIp \in [Conns -> Ips]
    /\ maybeGuard \in Conns \cup {NoOwner}
    /\ guard \in Conns \cup {NoOwner}
    /\ thread \in [Conns -> ThreadStates]
    /\ owned \subseteq Conns

-----------------------------------------------------------------------------
(* The limiter.  Both operations run entirely under mMutex, so each is one *)
(* atomic change of the two counters.                                      *)

Count(ip) == IF ip \in DOMAIN mPerIp THEN mPerIp[ip] ELSE 0

Put(f, ip, n) == [i \in DOMAIN f \cup {ip} |-> IF i = ip THEN n ELSE f[i]]
Erase(f, ip) == [i \in DOMAIN f \ {ip} |-> f[i]]

\* Mutant of MayAdmit: the global limit is compared with > instead of >=.
MayAdmit_GlobalOffByOne(ip) == mGlobal <= MaxGlobal /\ Count(ip) < MaxPerIp

\* Mutant of MayAdmit: the address's own limit is not looked at.
MayAdmit_AnyIp(ip) == mGlobal < MaxGlobal

MayAdmit(ip) == mGlobal < MaxGlobal /\ Count(ip) < MaxPerIp

Increment(ip) ==
    /\ mPerIp' = Put(mPerIp, ip, Count(ip) + 1)
    /\ mGlobal' = mGlobal + 1

\* Give back the unit held for connection c, with the code's two guards
\* against underflow.
Release(c) ==
    LET ip == connIp[c]
        n  == IF Count(ip) > 0 THEN Count(ip) - 1 ELSE 0
    IN  /\ mPerIp' = IF n = 0 THEN Erase(mPerIp, ip) ELSE Put(mPerIp, ip, n)
        /\ mGlobal' = IF mGlobal > 0 THEN mGlobal - 1 ELSE 0

\* What GetStats reports of the counters.
CurrentMaxPerIp ==
    CHOOSE n \in {mPerIp[i] : i \in DOMAIN mPerIp} \cup {0} :
        \A i \in DOMAIN mPerIp : mPerIp[i] <= n
SaturatedIpBuckets == {i \in DOMAIN mPerIp : mPerIp[i] >= MaxPerIp}

-----------------------------------------------------------------------------
(* The accept loop.                                                        *)

LimiterInit ==
    /\ mGlobal = 0
    /\ mPerIp = [i \in {} |-> 0]
    /\ acceptPc = "accept"
    /\ current = NoOwner
    /\ connIp \in [Conns -> Ips]
    /\ maybeGuard = NoOwner
    /\ guard = NoOwner
    /\ thread = [c \in Conns |-> "none"]
    /\ owned = {}

\* accept() returns a socket with a readable remote endpoint.  (An error of
\* either call `continue`s with no change of state.)
Accept(c, ip) ==
    /\ acceptPc = "accept"
    /\ thread[c] = "none"
    /\ current' = c
    /\ connIp' = [connIp EXCEPT ![c] = ip]
    /\ acceptPc' = "acquire"
    /\ UNCHANGED <<limiter, maybeGuard, guard, thread, owned>>

\* TryAcquire finds room: both counters go up and the optional holds a guard.
Admit ==
    /\ acceptPc = "acquire"
    /\ MayAdmit(connIp[current])
    /\ Increment(connIp[current])
    /\ maybeGuard' = current
    /\ acceptPc' = "move"
    /\ UNCHANGED <<current, connIp, guard, thread, owned>>

\* TryAcquire returns nullopt: the socket is destroyed by the `continue`.
\* The try_emplace'd bucket cannot stay behind empty, because the limit that
\* refuses it is at least one.
Reject ==
    /\ acceptPc = "acquire"
    /\ ~MayAdmit(connIp[current])
    /\ current' = NoOwner
    /\ acceptPc' = "accept"
    /\ UNCHANGED <<limiter, connIp, maybeGuard, guard, thread, owned>>

\* auto Guard = std::move(MaybeGuard.value());
MoveToLocal ==
    /\ acceptPc = "move"
    /\ guard' = maybeGuard
    /\ maybeGuard' = NoOwner
    /\ acceptPc' = "spawn"
    /\ UNCHANGED <<limiter, current, connIp, thread, owned>>

\* The thread starts with its own, moved-to, guard.
Spawn ==
    /\ acceptPc = "spawn"
    /\ owned' = owned \cup ({guard} \ {NoOwner})
    /\ guard' = NoOwner
    /\ thread' = [thread EXCEPT ![current] = "reading"]
    /\ acceptPc' = "scopeEnd"
    /\ UNCHANGED <<limiter, current, connIp, maybeGuard>>

\* std::thread could not start a thread and throws; the copy of the guard it
\* had made is destroyed on the way to the catch block.
SpawnThrows ==
    /\ acceptPc = "spawn"
    /\ owned' = owned \cup ({guard} \ {NoOwner})
    /\ guard' = NoOwner
    /\ acceptPc' = "unwind"
    /\ UNCHANGED <<limiter, current, connIp, maybeGuard, thread>>

\* Mutant of Unwind: the exception path forgets the unit.
Unwind_Leaks ==
    /\ acceptPc = "unwind"
    /\ owned' = owned \ {current}
    /\ acceptPc' = "scopeEnd"
    /\ UNCHANGED <<limiter, current, connIp, maybeGuard, guard, thread>>

Unwind ==
    /\ acceptPc = "unwind"
    /\ Release(current)
    /\ owned' = owned \ {current}
    /\ acceptPc' = "scopeEnd"
    /\ UNCHANGED <<current, connIp, maybeGuard, guard, thread>>

\* The destructor of a guard object: it releases what it still owns.
Destroy(object) == IF object # NoOwner THEN Release(object) ELSE UNCHANGED limiter

\* End of the loop body: ~TGuard of the local `Guard`...
DropGuard ==
    /\ acceptPc = "scopeEnd"
    /\ Destroy(guard)
    /\ guard' = NoOwner
    /\ acceptPc' = "optionalEnd"
    /\ UNCHANGED <<current, connIp, maybeGuard, thread, owned>>

\* ... and then of the guard inside `MaybeGuard`.
DropOptional ==
    /\ acceptPc = "optionalEnd"
    /\ Destroy(maybeGuard)
    /\ maybeGuard' = NoOwner
    /\ acceptPc' = "accept"
    /\ current' = NoOwner
    /\ UNCHANGED <<connIp, guard, thread, owned>>

-----------------------------------------------------------------------------
(* Identify(c): one byte is read with a ten second limit; 'C' runs the     *)
(* whole session inside the thread, every other code, error or exception   *)
(* returns at once.                                                        *)

StartSession(c) ==
    /\ thread[c] = "reading"
    /\ thread' = [thread EXCEPT ![c] = "session"]
    /\ UNCHANGED <<limiter, acceptPc, current, connIp, maybeGuard, guard, owned>>

\* Mutant of EndWithoutSession: the read has no time limit.
EndWithoutSession_NoTimeout(c) ==
    /\ FALSE
    /\ thread' = [thread EXCEPT ![c] = "returned"]
    /\ UNCHANGED <<limiter, acceptPc, current, connIp, maybeGuard, guard, owned>>

\* A timeout, a read error, one of 'D' 'P' 'I', or an unknown code.
EndWithoutSession(c) ==
    /\ thread[c] = "reading"
    /\ thread' = [thread EXCEPT ![c] = "returned"]
    /\ UNCHANGED <<limiter, acceptPc, current, connIp, maybeGuard, guard, owned>>

\* Authentication or TCPClient returned or threw.
EndSession(c) ==
    /\ thread[c] = "session"
    /\ thread' = [thread EXCEPT ![c] = "returned"]
    /\ UNCHANGED <<limiter, acceptPc, current, connIp, maybeGuard, guard, owned>>

\* The arguments of the finished thread are destroyed, the guard among them.
DestroyThread(c) ==
    /\ thread[c] = "returned"
    /\ thread' = [thread EXCEPT ![c] = "none"]
    /\ owned' = owned \ {c}
    /\ IF c \in owned THEN Release(c) ELSE UNCHANGED limiter
    /\ UNCHANGED <<acceptPc, current, connIp, maybeGuard, guard>>

HandleAccepted ==
    \/ Admit \/ Reject \/ MoveToLocal \/ Spawn \/ SpawnThrows \/ Unwind
    \/ DropGuard \/ DropOptional

AcceptLoop == (\E c \in Conns, ip \in Ips : Accept(c, ip)) \/ HandleAccepted

Identify(c) ==
    \/ StartSession(c) \/ EndWithoutSession(c) \/ EndSession(c) \/ DestroyThread(c)

LimiterNext == AcceptLoop \/ \E c \in Conns : Identify(c)

LimiterSpec == LimiterInit /\ [][LimiterNext]_limiterVars

\* The accept thread and the Identify threads are scheduled; the read has
\* a timeout.  Nothing makes a session end, nor a client connect.
LimiterFairness ==
    /\ WF_limiterVars(HandleAccepted)
    /\ \A c \in Conns : WF_limiterVars(EndWithoutSession(c))
    /\ \A c \in Conns : WF_limiterVars(DestroyThread(c))

LimiterFairSpec == LimiterSpec /\ LimiterFairness

-----------------------------------------------------------------------------
(* Properties.                                                             *)

\* The connections some guard object owns a unit for.
Holders == owned \cup ({maybeGuard, guard} \ {NoOwner})
HoldersOf(ip) == {c \in Holders : connIp[c] = ip}

\* Whatever order guards are moved, destroyed and released in, the global
\* counter is exactly the number of live guards: no unit is lost on an
\* exception and none is given back twice.
GlobalCountsGuards == mGlobal = Cardinality(Holders)

\* The same for every bucket, and a bucket exists exactly while its address
\* holds a connection, so the map does not grow with the addresses seen.
BucketsCountGuards ==
    /\ DOMAIN mPerIp = {connIp[c] : c \in Holders}
    /\ \A ip \in DOMAIN mPerIp : mPerIp[ip] = Cardinality(HoldersOf(ip))

\* Which object owns the unit of a connection at each point of its life: the
\* part of the inductive invariant that does not mention the counters.
Custody ==
    /\ IsFiniteSet(owned)
    /\ \A c \in Conns :
        c \in owned <=> thread[c] # "none" \/ (acceptPc = "unwind" /\ c = current)
    /\ maybeGuard = IF acceptPc = "move" THEN current ELSE NoOwner
    /\ guard = IF acceptPc = "spawn" THEN current ELSE NoOwner
    /\ acceptPc \in {"acquire", "move", "spawn", "unwind"} =>
            current \in Conns /\ thread[current] = "none"

\* The counters never exceed the limits.
CountersWithinLimits ==
    mGlobal <= MaxGlobal /\ \A ip \in DOMAIN mPerIp : mPerIp[ip] <= MaxPerIp

\* The inductive invariant: typing, custody of every unit, exact counters.
LimiterIndInv == LimiterTypeOK /\ Custody /\ GlobalCountsGuards /\ BucketsCountGuards /\ CountersWithinLimits

\* Never more Identify threads than the limits allow, in total or for one
\* address: the counters bound the resource they stand for.
ThreadsWithinLimits ==
    LET alive == {c \in Conns : thread[c] # "none"} IN
    /\ Cardinality(alive) <= MaxGlobal
    /\ \A ip \in Ips : Cardinality({c \in alive : connIp[c] = ip}) <= MaxPerIp

\* A connection is turned away only when the live guards themselves, not
\* merely the counters, fill the server or the address's share.
RejectsOnlyWhenFull ==
    [][acceptPc = "acquire" /\ acceptPc' = "accept" =>
        \/ Cardinality(Holders) >= MaxGlobal
        \/ Cardinality(HoldersOf(connIp[current])) >= MaxPerIp]_limiterVars

\* GetStats' saturated buckets are exactly the addresses that hold their full
\* share of guards, and its largest bucket never exceeds that share.
StatsAgreeWithGuards ==
    /\ SaturatedIpBuckets = {ip \in Ips : Cardinality(HoldersOf(ip)) >= MaxPerIp}
    /\ CurrentMaxPerIp <= MaxPerIp

\* A unit is only ever kept by a running session: whatever else becomes of an
\* admitted connection (a silent client, a thread that does not start), the
\* unit comes back.
OnlySessionsKeepUnits ==
    \A c \in Conns : c \in Holders /\ thread[c] # "session" ~>
                        thread[c] = "session" \/ c \notin Holders

-----------------------------------------------------------------------------
\* What the limiter promises, with guards, threads and counters left out: a
\* set of admitted connections that each limit bounds.
Admitting == INSTANCE Admission
                WITH holding <- [c \in Holders |-> connIp[c]]

ImplementsAdmission == Admitting!Spec
=============================================================================
