-------------------------------- MODULE Fleet --------------------------------
(***************************************************************************)
(* The vehicles of one connected player: TClient::mVehicleData and         *)
(* mUnicycleID, as changed by the player's own thread (the 'O' packets of  *)
(* TServer::ParseVehicle, one at a time) and, at the same time, by plugin  *)
(* threads that call MP.RemoveVehicle.                                     *)
(*                                                                         *)
(* mVehicleDataMutex is held for one list operation only, so everything a  *)
(* handler does between two of them (raise an event and wait for the       *)
(* plugins, broadcast, look up and then store) is a separate step here.    *)
(* `view` is what the other players have been told: it follows the 'Os'    *)
(* and 'Od' packets handed to SendToAll, in that order.                    *)
(***************************************************************************)
EXTENDS Integers, FiniteSets

CONSTANTS
    MaxCars,    \* General.MaxCars (its value does not change while running)
    Plugins     \* Lua state threads that may call MP.RemoveVehicle

ASSUME MaxCarsAssumption == MaxCars \in Nat

VARIABLES
    fleet,          \* mVehicleData: a function from vehicle IDs to shapes
    mUnicycleID,    \* the ID that GetCarCount does not count; -1 if none
    pc, id, shape,  \* the player's thread: step, VID or CarID, shape in the packet
    left,           \* OnDisconnect: vehicles whose 'Od' is still to be sent
    pluginPc,       \* the step of every plugin thread in RemoveVehicle
    pluginId,       \* and the vehicle it was called for
    view,           \* vehicles the players believe to exist
    contested       \* history: vehicles whose latest spawn a plugin's removal overlapped

player == <<pc, id, shape, left>>
plugins == <<pluginPc, pluginId>>
told == <<view, contested>>
vars == <<fleet, mUnicycleID, pc, id, shape, left, pluginPc, pluginId, view, contested>>

\* A list of at most MaxCars + 1 vehicles always leaves one of these free.
Ids == 0..(MaxCars + 1)
Shapes == {"car", "unicycle", "null"}       \* null: the JSON is a bare null
PacketShapes == Shapes \cup {"garbled"}     \* garbled: the JSON does not parse
Steps == {"idle", "spawnEvent", "add", "announce", "editEvent", "lookup", "paintLookup",
          "store", "deleteCar", "leaving", "gone"}
PluginSteps == {"idle", "missed", "send", "deleteCar"}

TypeOK ==
    /\ DOMAIN fleet \subseteq Ids
    /\ fleet \in [DOMAIN fleet -> Shapes]
    /\ mUnicycleID \in Ids \cup {-1}
    /\ pc \in Steps
    /\ id \in Ids
    /\ shape \in PacketShapes
    /\ left \subseteq Ids
    /\ pluginPc \in [Plugins -> PluginSteps]
    /\ pluginId \in [Plugins -> Ids]
    /\ view \subseteq Ids
    /\ contested \subseteq Ids

-----------------------------------------------------------------------------
(* TClient's list operations, each under mVehicleDataMutex.                *)

Vehicles == DOMAIN fleet

Without(v) == [w \in Vehicles \ {v} |-> fleet[w]]
With(v, s) == [w \in Vehicles \cup {v} |-> IF w = v THEN s ELSE fleet[w]]

\* Mutant of GetOpenCarID: the next ID after the number of vehicles.
GetOpenCarID_Count == IF Cardinality(Vehicles) \in Ids THEN Cardinality(Vehicles) ELSE 0

\* The lowest ID not in use.
GetOpenCarID == CHOOSE v \in Ids : v \notin Vehicles /\ \A w \in Ids : w < v => w \in Vehicles

\* Mutant of GetCarCount: a unicycle slot that is set but empty is discounted.
GetCarCount_SlotDiscount ==
    IF mUnicycleID >= 0 THEN Cardinality(Vehicles) - 1 ELSE Cardinality(Vehicles)

GetCarCount ==
    IF mUnicycleID \in Vehicles THEN Cardinality(Vehicles) - 1 ELSE Cardinality(Vehicles)

\* What GetCarData lets its callers see: a vehicle whose data is null looks
\* like no vehicle, but only a missing one sends the caller on to DeleteCar.
HasData(v) == v \in Vehicles /\ fleet[v] # "null"

\* The thread's next step within a handler, and the return from it, with which
\* the handler's variables are forgotten.
GoTo(step) == pc' = step /\ UNCHANGED <<id, shape>>
Return == pc' = "idle" /\ id' = 0 /\ shape' = "car"

\* Mutant of SetCarData: a vehicle that is gone is put back.
SetCarData_Upsert(v, s) == fleet' = With(v, s) /\ Return

\* SetCarData stores into an entry it finds; otherwise it leaves the lock and
\* goes on to DeleteCar.
SetCarData(v, s) ==
    IF v \in Vehicles
    THEN fleet' = With(v, s) /\ Return
    ELSE GoTo("deleteCar") /\ UNCHANGED fleet

-----------------------------------------------------------------------------
(* The player's thread.                                                    *)

Init ==
    /\ fleet = [v \in {} |-> "car"]
    /\ mUnicycleID = -1
    /\ pc = "idle"
    /\ id = 0
    /\ shape = "car"
    /\ left = {}
    /\ pluginPc = [p \in Plugins |-> "idle"]
    /\ pluginId = [p \in Plugins |-> 0]
    /\ view = {}
    /\ contested = {}

\* 'Os': an ID is chosen, then onVehicleSpawn is raised and waited for.
SpawnRequest(s) ==
    /\ pc = "idle"
    /\ id' = GetOpenCarID
    /\ shape' = s
    /\ pc' = "spawnEvent"
    /\ UNCHANGED <<fleet, mUnicycleID, left, plugins, told>>

TakesUnicycleSlot == shape = "unicycle" /\ mUnicycleID < 0
ShouldSpawn == TakesUnicycleSlot \/ GetCarCount < MaxCars

\* ShouldSpawn is asked first and reserves the unicycle slot even when a
\* plugin has cancelled the spawn; a refused spawn is echoed and deleted again
\* on its owner's screen only.
SpawnDecide(cancelled) ==
    /\ pc = "spawnEvent"
    /\ mUnicycleID' = IF TakesUnicycleSlot THEN id ELSE mUnicycleID
    /\ IF ShouldSpawn /\ ~cancelled /\ shape # "garbled" THEN GoTo("add") ELSE Return
    /\ UNCHANGED <<fleet, left, plugins, told>>

Removing(v) == \E p \in Plugins : pluginPc[p] # "idle" /\ pluginId[p] = v

AddNewCar ==
    /\ pc = "add"
    /\ fleet' = With(id, shape)
    /\ GoTo("announce")
    /\ contested' = IF Removing(id) THEN contested \cup {id} ELSE contested \ {id}
    /\ UNCHANGED <<mUnicycleID, left, plugins, view>>

\* SendToAll of the 'Os' packet.
AnnounceSpawn ==
    /\ pc = "announce"
    /\ view' = view \cup {id}
    /\ Return
    /\ UNCHANGED <<fleet, mUnicycleID, left, plugins, contested>>

\* 'Oc': onVehicleEdited is raised and waited for.
EditRequest(v, s) ==
    /\ pc = "idle"
    /\ id' = v
    /\ shape' = s
    /\ pc' = "editEvent"
    /\ UNCHANGED <<fleet, mUnicycleID, left, plugins, told>>

EditAllowed(cancelled) ==
    (mUnicycleID # id \/ shape = "unicycle") /\ ~cancelled

\* The edit is broadcast and Apply starts.
EditAccept ==
    /\ pc = "editEvent"
    /\ EditAllowed(FALSE)
    /\ GoTo("lookup")
    /\ UNCHANGED <<fleet, mUnicycleID, left, plugins, told>>

FreeUnicycleSlot(v) == mUnicycleID' = IF mUnicycleID = v THEN -1 ELSE mUnicycleID

\* The edit is refused: 'Od' to everyone, and then the vehicle is deleted.
EditRefuse(cancelled) ==
    /\ pc = "editEvent"
    /\ ~EditAllowed(cancelled)
    /\ FreeUnicycleSlot(id)
    /\ view' = view \ {id}
    /\ GoTo("deleteCar")
    /\ UNCHANGED <<fleet, left, plugins, contested>>

\* Apply: GetCarData, then the new JSON is parsed.
EditLookup ==
    /\ pc = "lookup"
    /\ IF id \notin Vehicles THEN GoTo("deleteCar")
       ELSE IF HasData(id) /\ shape # "garbled" THEN GoTo("store") ELSE Return
    /\ UNCHANGED <<fleet, mUnicycleID, left, plugins, told>>

\* 'Op': the paint is broadcast and, if the vehicle's data has paints, merged
\* into a copy of that data.
PaintRequest(v) ==
    /\ pc = "idle"
    /\ id' = v
    /\ pc' = "paintLookup"
    /\ UNCHANGED <<fleet, mUnicycleID, shape, left, plugins, told>>

PaintLookup ==
    /\ pc = "paintLookup"
    /\ \/ HasData(id) /\ pc' = "store" /\ shape' = fleet[id] /\ UNCHANGED id
       \/ id \in Vehicles /\ Return
       \/ id \notin Vehicles /\ GoTo("deleteCar")
    /\ UNCHANGED <<fleet, mUnicycleID, left, plugins, told>>

Store ==
    /\ pc = "store"
    /\ SetCarData(id, shape)
    /\ UNCHANGED <<mUnicycleID, left, plugins, told>>

\* 'Od' from the player: broadcast first, deleted afterwards.
DeleteRequest(v) ==
    /\ pc = "idle"
    /\ id' = v
    /\ FreeUnicycleSlot(v)
    /\ view' = view \ {v}
    /\ pc' = "deleteCar"
    /\ UNCHANGED <<fleet, shape, left, plugins, contested>>

DeleteCar ==
    /\ pc = "deleteCar"
    /\ fleet' = Without(id)
    /\ Return
    /\ UNCHANGED <<mUnicycleID, left, plugins, told>>

\* The connection has ended.  OnDisconnect copies the list, sends one 'Od' per
\* vehicle of the copy, and RemoveClient clears the list.
Disconnect ==
    /\ pc = "idle"
    /\ left' = Vehicles
    /\ GoTo("leaving")
    /\ UNCHANGED <<fleet, mUnicycleID, plugins, told>>

LeaveOne(v) ==
    /\ pc = "leaving"
    /\ v \in left
    /\ left' = left \ {v}
    /\ view' = view \ {v}
    /\ UNCHANGED <<fleet, mUnicycleID, pc, id, shape, plugins, contested>>

ClearCars ==
    /\ pc = "leaving"
    /\ left = {}
    /\ fleet' = [v \in {} |-> "car"]
    /\ GoTo("gone")
    /\ UNCHANGED <<mUnicycleID, left, plugins, told>>

-----------------------------------------------------------------------------
(* MP.RemoveVehicle(player, v) on a plugin's thread.                       *)

Plugin(p, step, v) ==
    /\ pluginPc' = [pluginPc EXCEPT ![p] = step]
    /\ pluginId' = [pluginId EXCEPT ![p] = v]

PluginReturn(p) == Plugin(p, "idle", 0)

\* GetClient finds the player and GetCarData looks the vehicle up.
RemoveVehicle(p, v) ==
    /\ pluginPc[p] = "idle"
    /\ pc # "gone"
    /\ IF v \notin Vehicles THEN Plugin(p, "missed", v)
       ELSE IF HasData(v) THEN Plugin(p, "send", v) ELSE PluginReturn(p)
    /\ contested' = IF pc = "announce" /\ id = v /\ HasData(v) THEN contested \cup {v} ELSE contested
    /\ UNCHANGED <<fleet, mUnicycleID, player, view>>

\* GetCarData did not find the vehicle: it has left the lock, calls DeleteCar,
\* and RemoveVehicle answers "Vehicle does not exist".
RemoveMissed(p) ==
    /\ pluginPc[p] = "missed"
    /\ fleet' = Without(pluginId[p])
    /\ PluginReturn(p)
    /\ UNCHANGED <<mUnicycleID, player, told>>

\* Mutant of RemoveSend: the vehicle is deleted without telling the players.
RemoveSend_Silent(p) ==
    /\ pluginPc[p] = "send"
    /\ Plugin(p, "deleteCar", pluginId[p])
    /\ UNCHANGED <<fleet, mUnicycleID, player, told>>

RemoveSend(p) ==
    /\ pluginPc[p] = "send"
    /\ view' = view \ {pluginId[p]}
    /\ Plugin(p, "deleteCar", pluginId[p])
    /\ UNCHANGED <<fleet, mUnicycleID, player, contested>>

RemoveDelete(p) ==
    /\ pluginPc[p] = "deleteCar"
    /\ fleet' = Without(pluginId[p])
    /\ PluginReturn(p)
    /\ UNCHANGED <<mUnicycleID, player, told>>

-----------------------------------------------------------------------------

PlayerStep ==
    \/ \E s \in PacketShapes : SpawnRequest(s) \/ \E v \in Ids : EditRequest(v, s)
    \/ \E cancelled \in BOOLEAN : SpawnDecide(cancelled) \/ EditRefuse(cancelled)
    \/ AddNewCar \/ AnnounceSpawn \/ EditAccept \/ EditLookup \/ PaintLookup \/ Store \/ DeleteCar
    \/ \E v \in Ids : PaintRequest(v) \/ DeleteRequest(v) \/ LeaveOne(v)
    \/ Disconnect \/ ClearCars

PluginStep(p) ==
    \/ \E v \in Ids : RemoveVehicle(p, v)
    \/ RemoveMissed(p) \/ RemoveSend(p) \/ RemoveDelete(p)

Next == PlayerStep \/ \E p \in Plugins : PluginStep(p)

Spec == Init /\ [][Next]_vars

-----------------------------------------------------------------------------
(* Properties.                                                             *)

\* However spawns, edits, deletions and plugin removals interleave, and
\* whatever slot the unicycle exemption points at, a player never has more
\* than one vehicle above the limit.  That one need not be a unicycle: a
\* unicycle that a plugin refused leaves its ID in the slot (TServer.cpp:359),
\* and the car that gets the ID next is not counted.
FleetBound == Cardinality(Vehicles) <= MaxCars + 1

\* Why FleetBound holds: the extra place is there only while the exempt ID is
\* in the list or the player's thread is about to delete a vehicle, and a spawn
\* that passed the check has left room for itself even if plugins remove
\* vehicles meanwhile.
SpawnRoom ==
    /\ Cardinality(Vehicles) <= MaxCars + 1
    /\ \/ mUnicycleID \in Vehicles
       \/ Cardinality(Vehicles) <= MaxCars
       \/ pc = "deleteCar" /\ id \in Vehicles
    /\ pc = "add" =>
        /\ Cardinality(Vehicles) <= MaxCars
        /\ mUnicycleID \in Vehicles \cup {id} \/ Cardinality(Vehicles) < MaxCars

\* Two vehicles of a player never share an ID: the ID chosen before waiting for
\* the plugins is still free when the vehicle is added.
ChosenIdStaysFree == pc \in {"spawnEvent", "add"} => id \notin Vehicles

Quiescent == pc \in {"idle", "gone"} /\ \A p \in Plugins : pluginPc[p] = "idle"

\* When nothing is in progress, every vehicle on the server is one the players
\* know of: none is ever silently present.
NeverInvisible == Quiescent => Vehicles \subseteq view

\* When nothing is in progress, the players see exactly the server's vehicles,
\* except those whose spawn overlapped a plugin's removal of the same ID.
ViewAgrees == Quiescent => view \ contested \subseteq Vehicles

\* Nothing but a spawn brings a vehicle into being: an edit or a repaint whose
\* vehicle is removed between its lookup and its store does not revive it.
RemovedStaysRemoved ==
    [][Vehicles' \subseteq Vehicles \cup (IF pc = "add" THEN {id} ELSE {})]_vars

\* Why ChosenIdStaysFree leads to a well-formed list: what is about to be
\* stored has been parsed.
Parsed == pc \in {"add", "store"} => shape # "garbled"

\* Why NeverInvisible holds: whoever lets a vehicle stay that the players do not
\* know of is about to announce or to delete it.
Unsettled ==
    (IF pc \in {"announce", "deleteCar"} THEN {id} ELSE {})
        \cup {pluginId[p] : p \in {q \in Plugins : pluginPc[q] = "deleteCar"}}

Seen ==
    /\ pc # "leaving" => Vehicles \subseteq view \cup Unsettled
    /\ pc = "gone" => Vehicles = {}

\* Why ViewAgrees holds: whoever deletes a vehicle has told the players, and no
\* spawn has told them otherwise since, unless the two overlapped.
Agreement ==
    /\ view \ contested \subseteq Vehicles
    /\ pc = "deleteCar" => id \notin view \ contested
    /\ pc = "announce" =>
        /\ id \in Vehicles \cup contested
        /\ Removing(id) => id \in contested
    /\ pc = "leaving" => view \ contested \subseteq left
    /\ \A p \in Plugins :
        pluginPc[p] \in {"missed", "deleteCar"} => pluginId[p] \notin view \ contested

\* The inductive invariant.
IndInv == TypeOK /\ SpawnRoom /\ ChosenIdStaysFree /\ Parsed /\ Seen /\ Agreement
=============================================================================
