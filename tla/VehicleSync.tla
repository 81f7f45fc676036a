----------------------------- MODULE VehicleSync -----------------------------
(***************************************************************************)
(* How a joining player gets to know the vehicles of the others.  The      *)
(* joiner's receiver thread (TNetwork::SyncClient) writes a snapshot of    *)
(* every player's vehicles straight to the socket, while the others'       *)
(* threads (TServer::ParseVehicle, TNetwork::OnDisconnect) go on changing  *)
(* their vehicles and broadcast every change with SendToAll, which appends *)
(* it to the joiner's queue; TNetwork::Looper writes the queue out once    *)
(* the joiner is synced.                                                   *)
(*                                                                         *)
(* mIsSynced and mIsSyncing are plain bools that threads write and read    *)
(* without a lock: the two stores that end a sync, and the two loads of    *)
(* SendToAll's test, are seen in either order.                             *)
(***************************************************************************)
EXTENDS Integers, SequencesExt

CONSTANTS
    Owners,     \* the other players
    Vids,       \* vehicle IDs
    Configs,    \* vehicle data
    None,       \* no data in a packet; no packet
    MaxQueue    \* bound: a broadcast waits while the queue is this long

ASSUME SyncAssumption == MaxQueue \in Nat /\ None \notin Configs

VARIABLES
    garage,         \* mVehicleData of every owner: from vehicle IDs to configs
    pc,             \* the step of every owner's thread
    packet,         \* what it is about to broadcast
    looked,         \* the joiner's flags it has found false
    leaving,        \* OnDisconnect: vehicles whose 'Od' is still to be sent
    syncPc,         \* the joiner's thread in SyncClient
    toVisit,        \* clients ForEachClient has still to visit
    batch,          \* the copied vehicles still to be sent, as packets
    mIsSyncing, mIsSynced,
    mPacketsSync,   \* the joiner's queue
    disconnected,   \* the joiner's connection is lost
    view,           \* the vehicles the joiner has been told about
    half,           \* history: changes broadcast without the joiner, not yet applied
    missed,         \* history: vehicles whose latest change never got through
    since           \* history: where the sync was when an owner's change began

owners == <<garage, pc, packet, looked, leaving>>
sync == <<syncPc, toVisit, batch, mIsSyncing, mIsSynced>>
history == <<half, missed, since>>
vars == <<garage, pc, packet, looked, leaving, syncPc, toVisit, batch, mIsSyncing, mIsSynced,
          mPacketsSync, disconnected, view, half, missed, since>>

Packets == [kind : {"spawn"}, owner : Owners, vid : Vids, config : Configs]
      \cup [kind : {"edit"}, owner : Owners, vid : Vids, config : Configs]
      \cup [kind : {"delete"}, owner : Owners, vid : Vids, config : {None}]

Garage == UNION {[V -> Configs] : V \in SUBSET Vids}
Flags == {"synced", "syncing"}
SyncSteps == {"joining", "snapshot", "ending", "done"}
Steps == {"idle", "add", "broadcast", "apply", "leave", "leaveBroadcast", "gone"}

TypeOK ==
    /\ garage \in [Owners -> Garage] /\ view \in [Owners -> Garage]
    /\ pc \in [Owners -> Steps]
    /\ packet \in [Owners -> Packets \cup {None}]
    /\ looked \in [Owners -> SUBSET Flags]
    /\ leaving \in [Owners -> SUBSET Vids]
    /\ syncPc \in SyncSteps /\ since \in [Owners -> SyncSteps]
    /\ toVisit \subseteq Owners
    /\ batch \subseteq Packets
    /\ {mIsSyncing, mIsSynced, disconnected} \subseteq BOOLEAN
    /\ mPacketsSync \in Seq(Packets) /\ Len(mPacketsSync) <= MaxQueue
    /\ half \subseteq Owners \X Vids /\ missed \subseteq Owners \X Vids

-----------------------------------------------------------------------------
(* Vehicles and packets.                                                   *)

With(cars, v, c) == [w \in DOMAIN cars \cup {v} |-> IF w = v THEN c ELSE cars[w]]
Without(cars, v) == [w \in DOMAIN cars \ {v} |-> cars[w]]

\* What a packet does to the cars of its owner, on the server and at a player:
\* an edit or a deletion of an unknown vehicle does nothing.
Changed(cars, m) ==
    CASE m.kind = "spawn" -> With(cars, m.vid, m.config)
      [] m.kind = "edit" /\ m.vid \in DOMAIN cars -> With(cars, m.vid, m.config)
      [] m.kind = "delete" -> Without(cars, m.vid)
      [] OTHER -> cars

Told(known, m) == [known EXCEPT ![m.owner] = Changed(@, m)]

Spawned(o, v, c) == [kind |-> "spawn", owner |-> o, vid |-> v, config |-> c]
Edited(o, v, c) == [kind |-> "edit", owner |-> o, vid |-> v, config |-> c]
Deleted(o, v) == [kind |-> "delete", owner |-> o, vid |-> v, config |-> None]

Subject(m) == <<m.owner, m.vid>>

\* An owner's vehicles have been copied for the joiner.
Visited(o) == o \notin toVisit

Flag(f) == IF f = "synced" THEN mIsSynced ELSE mIsSyncing

-----------------------------------------------------------------------------

Init ==
    /\ garage \in [Owners -> Garage]
    /\ pc = [o \in Owners |-> "idle"]
    /\ packet = [o \in Owners |-> None]
    /\ looked = [o \in Owners |-> {}]
    /\ leaving = [o \in Owners |-> {}]
    /\ syncPc = "joining"
    /\ toVisit = Owners
    /\ batch = {}
    /\ mIsSyncing = FALSE /\ mIsSynced = FALSE
    /\ mPacketsSync = <<>>
    /\ disconnected = FALSE
    /\ view = [o \in Owners |-> [v \in {} |-> None]]
    /\ half = {} /\ missed = {} /\ since = [o \in Owners |-> "joining"]

-----------------------------------------------------------------------------
(* An owner's thread.                                                      *)

Goto(o, step) == pc' = [pc EXCEPT ![o] = step]

Begin(o, step) == Goto(o, step) /\ since' = [since EXCEPT ![o] = syncPc]
End(o, step) == Goto(o, step) /\ since' = [since EXCEPT ![o] = "joining"]

Idle(o) == End(o, "idle") /\ packet' = [packet EXCEPT ![o] = None]

Start(o, m, step) ==
    /\ pc[o] = "idle"
    /\ packet' = [packet EXCEPT ![o] = m]
    /\ Begin(o, step)
    /\ UNCHANGED <<garage, looked, leaving, sync, mPacketsSync, disconnected, view, half, missed>>

\* An allowed 'Os' of a new vehicle: AddNewCar first, then the broadcast.
Spawn(o, v, c) == v \notin DOMAIN garage[o] /\ Start(o, Spawned(o, v, c), "add")

\* 'Oc' and 'Od' (also what a refused edit and MP.RemoveVehicle do): the
\* broadcast first, then the list.  Left out: an 'Oc' whose data Apply cannot
\* store (TServer.cpp:560, 568, 575), of which the others are told all the same.
Edit(o, v, c) == Start(o, Edited(o, v, c), "broadcast")
Delete(o, v) == Start(o, Deleted(o, v), "broadcast")

AddNewCar(o) ==
    /\ pc[o] = "add"
    /\ garage' = Told(garage, packet[o])
    /\ Goto(o, "broadcast")
    /\ UNCHANGED <<packet, looked, leaving, sync, mPacketsSync, disconnected, view, history>>

\* The connection of the owner has ended: OnDisconnect works on a copy.
Disconnect(o) ==
    /\ pc[o] = "idle"
    /\ leaving' = [leaving EXCEPT ![o] = DOMAIN garage[o]]
    /\ Begin(o, "leave")
    /\ UNCHANGED <<garage, packet, looked, sync, mPacketsSync, disconnected, view, half, missed>>

LeaveOne(o, v) ==
    /\ pc[o] = "leave"
    /\ v \in leaving[o]
    /\ leaving' = [leaving EXCEPT ![o] = @ \ {v}]
    /\ packet' = [packet EXCEPT ![o] = Deleted(o, v)]
    /\ Goto(o, "leaveBroadcast")
    /\ UNCHANGED <<garage, looked, sync, mPacketsSync, disconnected, view, history>>

\* RemoveClient clears the list.
ClearCars(o) ==
    /\ pc[o] = "leave"
    /\ leaving[o] = {}
    /\ garage' = [garage EXCEPT ![o] = [v \in {} |-> None]]
    /\ LET own == {x \in half : x[1] = o}
       IN  half' = half \ own /\ missed' = IF Visited(o) THEN missed \cup own ELSE missed
    /\ End(o, "gone")
    /\ UNCHANGED <<packet, looked, leaving, sync, mPacketsSync, disconnected, view>>

Broadcasting(o) == pc[o] \in {"broadcast", "leaveBroadcast"}

\* A spawn is over with its broadcast, an edit or a deletion is applied now, a
\* disconnection goes on.
EndBroadcast(o) ==
    /\ looked' = [looked EXCEPT ![o] = {}]
    /\ \/ /\ pc[o] = "leaveBroadcast"
          /\ Goto(o, "leave") /\ packet' = [packet EXCEPT ![o] = None] /\ UNCHANGED since
       \/ pc[o] = "broadcast" /\ packet[o].kind = "spawn" /\ Idle(o)
       \/ pc[o] = "broadcast" /\ packet[o].kind # "spawn" /\ Goto(o, "apply") /\ UNCHANGED <<packet, since>>

\* SendToAll: `Client->IsSynced() || Client->IsSyncing()`, found false so far.
LookedFalse(o, f) ==
    /\ Broadcasting(o)
    /\ f \notin looked[o] /\ ~Flag(f)
    /\ looked[o] \cup {f} # Flags
    /\ looked' = [looked EXCEPT ![o] = @ \cup {f}]
    /\ UNCHANGED <<garage, pc, packet, leaving, sync, mPacketsSync, disconnected, view, history>>

\* Both were false: the joiner is passed over.  A spawn passed over after its
\* owner's snapshot is missed, even when the snapshot has the vehicle: an older
\* deletion, still queued, may undo it.  An edit or a deletion is missed if its
\* owner's snapshot is taken before it is applied.
PassedOver(o, f) ==
    /\ Broadcasting(o)
    /\ f \notin looked[o] /\ ~Flag(f)
    /\ looked[o] \cup {f} = Flags
    /\ IF packet[o].kind = "spawn"
       THEN missed' = (IF Visited(o) THEN missed \cup {Subject(packet[o])} ELSE missed) /\ UNCHANGED half
       ELSE half' = half \cup {Subject(packet[o])} /\ UNCHANGED missed
    /\ EndBroadcast(o)
    /\ UNCHANGED <<garage, leaving, sync, mPacketsSync, disconnected, view>>

\* One was true: the packet is queued.  The joiner may have hung up.
LookedTrue(o, f) ==
    /\ Broadcasting(o)
    /\ f \notin looked[o] /\ Flag(f)
    /\ Len(mPacketsSync) < MaxQueue
    /\ mPacketsSync' = Append(mPacketsSync, packet[o])
    /\ half' = half \ {Subject(packet[o])}
    /\ missed' = IF packet[o].kind = "edit" THEN missed ELSE missed \ {Subject(packet[o])}
    /\ EndBroadcast(o)
    /\ UNCHANGED <<garage, leaving, sync, disconnected, view>>

\* SetCarData or DeleteCar.
Apply(o) ==
    /\ pc[o] = "apply"
    /\ garage' = Told(garage, packet[o])
    /\ half' = half \ {Subject(packet[o])}
    /\ missed' = IF Visited(o) /\ garage' # garage THEN missed \cup (half \cap {Subject(packet[o])})
                 ELSE missed
    /\ Idle(o)
    /\ UNCHANGED <<looked, leaving, sync, mPacketsSync, disconnected, view>>

OwnerStep(o) ==
    \/ \E v \in Vids : Delete(o, v) \/ LeaveOne(o, v)
    \/ \E v \in Vids, c \in Configs : Spawn(o, v, c) \/ Edit(o, v, c)
    \/ AddNewCar(o) \/ Disconnect(o) \/ ClearCars(o) \/ Apply(o)
    \/ \E f \in Flags : LookedFalse(o, f) \/ PassedOver(o, f) \/ LookedTrue(o, f)

-----------------------------------------------------------------------------
(* The joiner's receiver thread: SyncClient, on its 'H' packet.            *)

\* Mutant of StartSync: the joiner is marked as syncing by SnapshotDone only.
StartSync_Late ==
    /\ syncPc = "joining" /\ ~disconnected
    /\ syncPc' = "snapshot"
    /\ UNCHANGED <<owners, toVisit, batch, mIsSyncing, mIsSynced, mPacketsSync, disconnected, view, history>>

StartSync ==
    /\ syncPc = "joining" /\ ~disconnected
    /\ mIsSyncing' = TRUE
    /\ syncPc' = "snapshot"
    /\ UNCHANGED <<owners, toVisit, batch, mIsSynced, mPacketsSync, disconnected, view, history>>

\* GetAllCars of the next client, copied under its lock.
Visit(o) ==
    /\ syncPc = "snapshot" /\ batch = {}
    /\ o \in toVisit
    /\ toVisit' = toVisit \ {o}
    /\ batch' = {Spawned(o, v, garage[o][v]) : v \in DOMAIN garage[o]}
    /\ UNCHANGED <<owners, syncPc, mIsSyncing, mIsSynced, mPacketsSync, disconnected, view, history>>

\* Respond with IsSync: written past the queue.
SendOne(m) ==
    /\ syncPc = "snapshot" /\ ~disconnected
    /\ m \in batch
    /\ batch' = batch \ {m}
    /\ view' = Told(view, m)
    /\ UNCHANGED <<owners, syncPc, toVisit, mIsSyncing, mIsSynced, mPacketsSync, disconnected, history>>

\* A joiner that has hung up gets no further vehicle and is never synced.
SyncAborted ==
    /\ syncPc = "snapshot" /\ disconnected
    /\ batch # {}
    /\ mIsSyncing' = FALSE
    /\ syncPc' = "done"
    /\ UNCHANGED <<owners, toVisit, batch, mIsSynced, mPacketsSync, disconnected, view, history>>

SnapshotDone ==
    /\ syncPc = "snapshot"
    /\ toVisit = {} /\ batch = {}
    /\ syncPc' = "ending"
    /\ UNCHANGED <<owners, toVisit, batch, mIsSyncing, mIsSynced, mPacketsSync, disconnected, view, history>>

SetNotSyncing ==
    /\ syncPc = "ending" /\ mIsSyncing
    /\ mIsSyncing' = FALSE
    /\ syncPc' = IF mIsSynced THEN "done" ELSE "ending"
    /\ UNCHANGED <<owners, toVisit, batch, mIsSynced, mPacketsSync, disconnected, view, history>>

\* Mutant of SetSynced: the flag is forgotten.
SetSynced_Forgets ==
    /\ syncPc = "ending" /\ ~mIsSynced
    /\ syncPc' = IF mIsSyncing THEN "ending" ELSE "done"
    /\ UNCHANGED <<owners, toVisit, batch, mIsSyncing, mIsSynced, mPacketsSync, disconnected, view, history>>

SetSynced ==
    /\ syncPc = "ending" /\ ~mIsSynced
    /\ mIsSynced' = TRUE
    /\ syncPc' = IF mIsSyncing THEN "ending" ELSE "done"
    /\ UNCHANGED <<owners, toVisit, batch, mIsSyncing, mPacketsSync, disconnected, view, history>>

SyncStep ==
    \/ StartSync \/ SyncAborted \/ SnapshotDone \/ SetNotSyncing \/ SetSynced
    \/ \E o \in Owners : Visit(o)
    \/ \E m \in batch : SendOne(m)

-----------------------------------------------------------------------------
(* The joiner's Looper, and the network.                                   *)

\* Mutant of LooperSends: the newest packet goes first.
LooperSends_Newest ==
    /\ ~mIsSyncing /\ mIsSynced
    /\ mPacketsSync # <<>> /\ ~disconnected
    /\ mPacketsSync' = Front(mPacketsSync)
    /\ view' = Told(view, Last(mPacketsSync))
    /\ UNCHANGED <<owners, sync, disconnected, history>>

LooperSends ==
    /\ ~mIsSyncing /\ mIsSynced
    /\ mPacketsSync # <<>> /\ ~disconnected
    /\ mPacketsSync' = Tail(mPacketsSync)
    /\ view' = Told(view, Head(mPacketsSync))
    /\ UNCHANGED <<owners, sync, disconnected, history>>

\* The joiner hangs up, is kicked or times out; its queue is never sent.
HangUp ==
    /\ ~disconnected
    /\ disconnected' = TRUE
    /\ UNCHANGED <<owners, sync, mPacketsSync, view, history>>

Next == SyncStep \/ LooperSends \/ HangUp \/ \E o \in Owners : OwnerStep(o)

Spec == Init /\ [][Next]_vars

\* The joiner's two threads are scheduled.  Nothing makes a client ask for its
\* sync, nor an owner change its vehicles.
Fairness ==
    /\ WF_vars(SyncStep /\ syncPc # "joining")
    /\ WF_vars(LooperSends)

FairSpec == Spec /\ Fairness

-----------------------------------------------------------------------------
(* Properties.                                                             *)

\* What is known of a vehicle, None for nothing, after the packets q: the last
\* spawn or deletion says whether there is a vehicle, the last packet which data
\* it has; edits alone change what was known before.
About(q, x) == {i \in DOMAIN q : Subject(q[i]) = x}
Cuts(q, x) == {i \in About(q, x) : q[i].kind # "edit"}

KnownAfter(known, q, x) ==
    IF Cuts(q, x) = {}
    THEN IF known = None \/ About(q, x) = {} THEN known ELSE q[Max(About(q, x))].config
    ELSE IF q[Max(Cuts(q, x))].kind = "delete" THEN None ELSE q[Max(About(q, x))].config

Value(cars, v) == IF v \in DOMAIN cars THEN cars[v] ELSE None

\* What the joiner knows of a vehicle once the copies are written...
Snapshot(o, v) ==
    IF \E m \in batch : Subject(m) = <<o, v>>
    THEN (CHOOSE m \in batch : Subject(m) = <<o, v>>).config
    ELSE Value(view[o], v)

\* ... and the queue, in its order.
Forthcoming(o, v) == KnownAfter(Snapshot(o, v), mPacketsSync, <<o, v>>)

\* Every vehicle of an owner that is between two changes, and whose snapshot
\* has been taken, is or will be known to the joiner as it is on the server:
\* snapshot and queue, written by two threads while the owners' threads go on
\* spawning, editing, deleting and leaving, add up.  The exception are the
\* changes in `missed`.  (TNetwork::SyncClient, SendToAll and Looper.)
Catching(o) == Visited(o) /\ pc[o] \in {"idle", "gone"}
SnapshotAndQueueAddUp ==
    ~disconnected =>
        \A o \in Owners, v \in Vids : Catching(o) /\ <<o, v>> \notin missed =>
            Forthcoming(o, v) = Value(garage[o], v)

Settled == mIsSynced /\ ~mIsSyncing /\ ~disconnected /\ mPacketsSync = <<>>

\* A change is missed only if it straddles the begin or the end of the sync: one
\* that both starts and ends while the joiner is syncing, or once it is synced,
\* always gets through (SyncClient's flags around the snapshot, SendToAll's test
\* of them).
MissesStraddleAnEnd ==
    [][\A x \in missed' \ missed :
          since[x[1]] # syncPc \/ syncPc = "ending" \/ disconnected]_vars

\* A joiner that asked for its sync, stays connected and is left alone
\* eventually has an empty queue (TNetwork::Looper).
CatchesUp ==
    <>[](\A o \in Owners : pc[o] \in {"idle", "gone"})
        => (syncPc # "joining" ~> (disconnected \/ Settled))

\* "after syncing is done, we apply all packets they missed"
\* (TNetwork.cpp:1244): with the queue written out, the joiner knows the
\* vehicles as they are.  The code does not ensure this: MissesStraddleAnEnd
\* says which changes it misses.
MissedPacketsApplied ==
    Settled => \A o \in Owners : Catching(o) => view[o] = garage[o]
-----------------------------------------------------------------------------
(* The inductive invariant behind SnapshotAndQueueAddUp and                *)
(* MissesStraddleAnEnd.                                                    *)

\* The joiner's thread and its flags.
SyncInOrder ==
    /\ syncPc = "joining" => toVisit = Owners /\ mPacketsSync = << >>
    /\ syncPc \in {"joining", "snapshot"} => ~mIsSynced
    /\ mIsSyncing => syncPc \in {"snapshot", "ending"}
    /\ syncPc = "snapshot" => mIsSyncing
    /\ syncPc = "done" /\ ~disconnected => mIsSynced
    /\ syncPc \in {"ending", "done"} /\ ~disconnected => toVisit = {} /\ batch = {}

\* The copied vehicles are those of visited owners, each once; nothing is known
\* of the others.
CopiedOnce ==
    /\ \A m \in batch : m.kind = "spawn" /\ m.owner \notin toVisit
    /\ \A m, n \in batch : Subject(m) = Subject(n) => m = n
    /\ \A o \in toVisit : DOMAIN view[o] = {}

\* An owner's thread has the packet that its step needs, a spawn is broadcast
\* with the vehicle in the list, and a change that was passed over is the one
\* its owner is about to apply.
PacketMatches(o) ==
    /\ pc[o] \in {"add", "broadcast", "apply", "leaveBroadcast"} =>
           packet[o] \in Packets /\ packet[o].owner = o
    /\ pc[o] = "add" => packet[o].kind = "spawn"
    /\ pc[o] = "apply" => packet[o].kind # "spawn"
    /\ pc[o] = "leaveBroadcast" => packet[o].kind = "delete" /\ packet[o].vid \notin leaving[o]
    /\ pc[o] = "broadcast" /\ packet[o].kind = "spawn" => Value(garage[o], packet[o].vid) = packet[o].config
    /\ looked[o] # {} => Broadcasting(o)
    /\ \A v \in Vids : <<o, v>> \in half =>
           \/ pc[o] \in {"leave", "leaveBroadcast"}
           \/ pc[o] = "apply" /\ packet[o].vid = v

Rank(step) == CASE step = "joining" -> 0 [] step = "snapshot" -> 1 [] step = "ending" -> 2 [] OTHER -> 3

\* What an owner found false since its change began tells where the sync was.
LooksInOrder(o) ==
    /\ Rank(since[o]) <= Rank(syncPc)
    /\ "syncing" \in looked[o] /\ since[o] = "snapshot" => syncPc # "snapshot"
    /\ "synced" \in looked[o] /\ since[o] = "done" => disconnected
    /\ \A v \in Vids : <<o, v>> \in half /\ since[o] = syncPc /\ syncPc \in {"snapshot", "done"} => disconnected

\* An owner that is still to be visited and passes the joiner over has nothing
\* in its queue.
NothingBeforeVisit(o) ==
    /\ syncPc \in {"joining", "snapshot"} /\ "syncing" \in looked[o] =>
           \A i \in DOMAIN mPacketsSync : mPacketsSync[i].owner # o
    /\ o \in toVisit /\ ~disconnected =>
           \A v \in Vids : <<o, v>> \in half => About(mPacketsSync, <<o, v>>) = {}
    /\ o \in toVisit => \A v \in Vids : <<o, v>> \notin missed

\* A vehicle that is on the server, and whose spawn is being broadcast.
Spawning(o, v) == pc[o] = "broadcast" /\ packet[o].kind = "spawn" /\ packet[o].vid = v

Leaving(o, v) ==
    /\ pc[o] \in {"leave", "leaveBroadcast"}
    /\ v \notin leaving[o]
    /\ pc[o] = "leaveBroadcast" => packet[o].vid # v

\* What the joiner is to know of a vehicle: what the server has, or will have
\* when a change that is in the queue is applied.
Expected(o, v) ==
    IF <<o, v>> \in half THEN Value(garage[o], v)
    ELSE IF pc[o] = "apply" /\ packet[o].vid = v THEN Value(Changed(garage[o], packet[o]), v)
    ELSE IF Leaving(o, v) THEN None ELSE Value(garage[o], v)

\* A vehicle of an owner that is still to be visited is in effect copied at
\* every moment.
Base(o, v) == IF Visited(o) THEN Snapshot(o, v) ELSE Value(garage[o], v)

AddsUp(o, v) ==
    <<o, v>> \notin missed /\ ~Spawning(o, v) =>
        Expected(o, v) = KnownAfter(Base(o, v), mPacketsSync, <<o, v>>)

OwnerInOrder(o) == PacketMatches(o) /\ LooksInOrder(o) /\ NothingBeforeVisit(o)

IndInv ==
    /\ TypeOK
    /\ SyncInOrder
    /\ CopiedOnce
    /\ \A o \in Owners : OwnerInOrder(o)
    /\ ~disconnected => \A o \in Owners, v \in Vids : AddsUp(o, v)

=============================================================================
