---------------------------- MODULE Fleet_proofs ----------------------------
(***************************************************************************)
(* Proofs about Fleet, for every car limit and every set of plugins.       *)
(***************************************************************************)
EXTENDS Fleet, FiniteSetTheorems, WellFoundedInduction, TLAPS

USE MaxCarsAssumption

-----------------------------------------------------------------------------
(* The list operations.                                                    *)

\* A set of natural numbers that is not empty has a least element.
LEMMA LeastElement ==
    ASSUME NEW S \in SUBSET Nat, S # {}
    PROVE  \E n \in S : \A m \in S : n <= m
<1>1. PICK n \in S : \A m \in S : ~ (<<m, n>> \in OpToRel(<, Nat))
  BY NatLessThanWellFounded, WFMin
<1>2. \A m \in S : ~ (m < n)
  BY <1>1 DEF OpToRel
<1>3. QED
  BY <1>2

\* Vehicle lists are finite.
LEMMA FiniteFleet ==
    ASSUME TypeOK
    PROVE  /\ IsFiniteSet(Ids) /\ Cardinality(Ids) = MaxCars + 2
           /\ \A S \in SUBSET Ids : IsFiniteSet(S) /\ Cardinality(S) \in Nat
           /\ Vehicles \in SUBSET Ids
<1>1. IsFiniteSet(Ids) /\ Cardinality(Ids) = MaxCars + 2
  BY FS_Interval DEF Ids
<1>2. \A S \in SUBSET Ids : IsFiniteSet(S) /\ Cardinality(S) \in Nat
  BY <1>1, FS_Subset, FS_CardinalityType
<1>3. QED
  BY <1>1, <1>2 DEF TypeOK, Vehicles

\* TClient::GetOpenCarID finds an ID, and one that is free.
LEMMA OpenCarID ==
    ASSUME TypeOK, Cardinality(Vehicles) <= MaxCars + 1
    PROVE  GetOpenCarID \in Ids \ Vehicles
<1>1. Ids \ Vehicles # {}
  BY FiniteFleet, FS_Subset
<1> DEFINE Free == Ids \ Vehicles
<1>0. Free \in SUBSET Nat
  BY DEF Ids
<1> HIDE DEF Free
<1>2. PICK v \in Free : \A w \in Free : v <= w
  BY <1>1, <1>0, LeastElement DEF Free
<1>3. \A w \in Ids : w < v => w \in Vehicles
  BY <1>2 DEF Ids, Free
<1>4. QED
  BY <1>2, <1>3 DEF GetOpenCarID, Free

\* Removing and adding a vehicle, and the room both leave.
LEMMA ListSteps ==
    ASSUME TypeOK, NEW v \in Ids, NEW s \in Shapes
    PROVE  /\ DOMAIN Without(v) = Vehicles \ {v}
           /\ DOMAIN With(v, s) = Vehicles \cup {v}
           /\ Without(v) \in [Vehicles \ {v} -> Shapes]
           /\ With(v, s) \in [Vehicles \cup {v} -> Shapes]
  BY DEF Without, With, TypeOK, Vehicles

-----------------------------------------------------------------------------
(* The initial state.                                                      *)

\* A player joins with no vehicles.
LEMMA InitIndInv == Init => IndInv
<1>1. Init => Vehicles = {}
  BY DEF Init, Vehicles
<1>2. Init => TypeOK
  BY DEF Init, TypeOK, Ids, Shapes, PacketShapes, Steps, PluginSteps
<1>3. Init => SpawnRoom
  BY <1>1, FS_EmptySet DEF Init, SpawnRoom
<1>4. Init => ChosenIdStaysFree /\ Parsed /\ Seen /\ Agreement
  BY <1>1 DEF Init, ChosenIdStaysFree, Parsed, Seen, Agreement
<1>5. QED
  BY <1>2, <1>3, <1>4 DEF IndInv

(* Steps.                                                                  *)

\* Every step keeps the types.
LEMMA TypeStep ==
    ASSUME IndInv, Next
    PROVE  TypeOK'
<1>0. TypeOK /\ Parsed /\ SpawnRoom
  BY DEF IndInv
<1>l. GetOpenCarID \in Ids /\ Vehicles \in SUBSET Ids /\ 0 \in Ids
  BY <1>0, OpenCarID, FiniteFleet DEF SpawnRoom, Ids
<1>m. \A v \in Ids, s \in Shapes :
        /\ DOMAIN Without(v) = Vehicles \ {v}
        /\ DOMAIN With(v, s) = Vehicles \cup {v}
        /\ Without(v) \in [Vehicles \ {v} -> Shapes]
        /\ With(v, s) \in [Vehicles \cup {v} -> Shapes]
  BY <1>0, ListSteps
<1> USE DEF Vehicles
<1> USE DEF TypeOK, Shapes, PacketShapes, Steps, PluginSteps, Parsed
<1>1. ASSUME NEW s \in PacketShapes, SpawnRequest(s)
      PROVE  TypeOK'
  BY <1>1, <1>0, <1>l, <1>m DEF SpawnRequest, player, plugins, told
<1>2. ASSUME NEW v \in Ids, NEW s \in PacketShapes, EditRequest(v, s)
      PROVE  TypeOK'
  BY <1>2, <1>0, <1>l, <1>m DEF EditRequest, plugins, told
<1>3. ASSUME NEW cancelled \in BOOLEAN, SpawnDecide(cancelled)
      PROVE  TypeOK'
  BY <1>3, <1>0, <1>l, <1>m DEF SpawnDecide, GoTo, Return, TakesUnicycleSlot, ShouldSpawn,
      GetCarCount, plugins, told
<1>4. ASSUME NEW cancelled \in BOOLEAN, EditRefuse(cancelled)
      PROVE  TypeOK'
  BY <1>4, <1>0, <1>l, <1>m DEF EditRefuse, EditAllowed, FreeUnicycleSlot, GoTo, plugins
<1>5. CASE AddNewCar
  <2>1. fleet' = With(id, shape) /\ id \in Ids /\ shape \in Shapes
    BY <1>5, <1>0 DEF AddNewCar
  <2>2. DOMAIN fleet' = Vehicles \cup {id} /\ fleet' \in [DOMAIN fleet' -> Shapes]
    BY <2>1, <1>m
  <2>3. QED
    BY <1>5, <1>0, <1>l, <2>2 DEF AddNewCar, GoTo, plugins, Removing
<1>6. CASE AnnounceSpawn
  BY <1>6, <1>0, <1>l, <1>m DEF AnnounceSpawn, Return, plugins
<1>7. CASE EditAccept
  BY <1>7, <1>0, <1>l, <1>m DEF EditAccept, EditAllowed, GoTo, plugins, told
<1>8. CASE EditLookup
  BY <1>8, <1>0, <1>l, <1>m DEF EditLookup, GoTo, HasData, Return, plugins, told
<1>9. CASE PaintLookup
  BY <1>9, <1>0, <1>l, <1>m DEF PaintLookup, GoTo, HasData, Return, plugins, told
<1>10. CASE Store
  <2>1. CASE id \in Vehicles
    <3>1. fleet' = With(id, shape) /\ id \in Ids /\ shape \in Shapes
      BY <1>10, <1>0, <2>1 DEF Store, SetCarData
    <3>2. DOMAIN fleet' = Vehicles \cup {id} /\ fleet' \in [DOMAIN fleet' -> Shapes]
      BY <3>1, <1>m
    <3>3. QED
      BY <1>10, <1>0, <1>l, <2>1, <3>2 DEF Store, SetCarData, GoTo, Return, plugins, told
  <2>2. CASE id \notin Vehicles
    BY <1>10, <1>0, <1>l, <2>2 DEF Store, SetCarData, GoTo, Return, plugins, told
  <2>3. QED
    BY <2>1, <2>2
<1>11. CASE DeleteCar
  BY <1>11, <1>0, <1>l, <1>m DEF DeleteCar, Return, plugins, told
<1>12. ASSUME NEW v \in Ids, PaintRequest(v)
      PROVE  TypeOK'
  BY <1>12, <1>0, <1>l, <1>m DEF PaintRequest, plugins, told
<1>13. ASSUME NEW v \in Ids, DeleteRequest(v)
      PROVE  TypeOK'
  BY <1>13, <1>0, <1>l, <1>m DEF DeleteRequest, FreeUnicycleSlot, plugins
<1>14. ASSUME NEW v \in Ids, LeaveOne(v)
      PROVE  TypeOK'
  BY <1>14, <1>0, <1>l, <1>m DEF LeaveOne, plugins
<1>15. CASE Disconnect
  BY <1>15, <1>0, <1>l, <1>m DEF Disconnect, GoTo, plugins, told
<1>16. CASE ClearCars
  BY <1>16, <1>0, <1>l, <1>m DEF ClearCars, GoTo, plugins, told
<1>17. ASSUME NEW p \in Plugins, NEW v \in Ids, RemoveVehicle(p, v)
      PROVE  TypeOK'
  BY <1>17, <1>0, <1>l, <1>m DEF RemoveVehicle, Plugin, PluginReturn, HasData, player
<1>18. ASSUME NEW p \in Plugins, RemoveMissed(p)
      PROVE  TypeOK'
  <2>1. PICK v \in Ids : v = pluginId[p]
    BY <1>0
  <2>2. fleet' = Without(v) /\ pluginPc' = [pluginPc EXCEPT ![p] = "idle"] /\ pluginId' = [pluginId EXCEPT ![p] = 0]
    BY <1>18, <2>1 DEF RemoveMissed, Plugin, PluginReturn
  <2>3. DOMAIN fleet' \subseteq Ids /\ fleet' \in [DOMAIN fleet' -> Shapes]
    BY <2>2, <1>l, <1>m
  <2>4. pluginPc' \in [Plugins -> PluginSteps] /\ pluginId' \in [Plugins -> Ids]
    BY <2>2, <1>0, <1>l
  <2>5. QED
    BY <1>18, <2>3, <2>4, <1>0 DEF RemoveMissed, player, told
<1>19. ASSUME NEW p \in Plugins, RemoveSend(p)
      PROVE  TypeOK'
  BY <1>19, <1>0, <1>l, <1>m DEF RemoveSend, Plugin, player
<1>20. ASSUME NEW p \in Plugins, RemoveDelete(p)
      PROVE  TypeOK'
  <2>1. PICK v \in Ids : v = pluginId[p]
    BY <1>0
  <2>2. fleet' = Without(v) /\ pluginPc' = [pluginPc EXCEPT ![p] = "idle"] /\ pluginId' = [pluginId EXCEPT ![p] = 0]
    BY <1>20, <2>1 DEF RemoveDelete, Plugin, PluginReturn
  <2>3. DOMAIN fleet' \subseteq Ids /\ fleet' \in [DOMAIN fleet' -> Shapes]
    BY <2>2, <1>l, <1>m
  <2>4. pluginPc' \in [Plugins -> PluginSteps] /\ pluginId' \in [Plugins -> Ids]
    BY <2>2, <1>0, <1>l
  <2>5. QED
    BY <1>20, <2>3, <2>4, <1>0 DEF RemoveDelete, player, told
<1>21. QED
  BY <1>1, <1>2, <1>3, <1>4, <1>5, <1>6, <1>7, <1>8, <1>9, <1>10, <1>11, <1>12, <1>13, <1>14,
      <1>15, <1>16, <1>17, <1>18, <1>19, <1>20 DEF Next, PlayerStep, PluginStep

\* What each step that touches the list does to the set of vehicles.
LEMMA ListEffects ==
    ASSUME TypeOK, Parsed
    PROVE  /\ AddNewCar => Vehicles' = Vehicles \cup {id}
           /\ Store => Vehicles' = Vehicles
           /\ DeleteCar => Vehicles' = Vehicles \ {id}
           /\ \A p \in Plugins :
                RemoveMissed(p) \/ RemoveDelete(p) => Vehicles' = Vehicles \ {pluginId[p]}
<1>1. id \in Ids /\ \A p \in Plugins : pluginId[p] \in Ids
  BY DEF TypeOK
<1>2. pc \in {"add", "store"} => shape \in Shapes
  BY DEF TypeOK, Parsed, PacketShapes
<1>3. \A v \in Ids : DOMAIN Without(v) = Vehicles \ {v}
  BY ListSteps DEF Shapes
<1>4. \A v \in Ids, s \in Shapes : DOMAIN With(v, s) = Vehicles \cup {v}
  BY ListSteps
<1>5. ASSUME AddNewCar
      PROVE  Vehicles' = Vehicles \cup {id}
  BY <1>1, <1>2, <1>4, <1>5 DEF AddNewCar, Vehicles
<1>6. ASSUME Store
      PROVE  Vehicles' = Vehicles
  <2>1. pc = "store" /\ (id \in Vehicles => fleet' = With(id, shape))
    BY <1>6 DEF Store, SetCarData
  <2>2. id \notin Vehicles => fleet' = fleet
    BY <1>6 DEF Store, SetCarData
  <2>3. id \in Vehicles => Vehicles' = Vehicles \cup {id}
    BY <1>1, <1>2, <1>4, <2>1 DEF Vehicles
  <2>4. QED
    BY <2>2, <2>3 DEF Vehicles
<1>7. ASSUME DeleteCar
      PROVE  Vehicles' = Vehicles \ {id}
  BY <1>1, <1>3, <1>7 DEF DeleteCar, Vehicles
<1>8. ASSUME NEW p \in Plugins, RemoveMissed(p) \/ RemoveDelete(p)
      PROVE  Vehicles' = Vehicles \ {pluginId[p]}
  BY <1>1, <1>3, <1>8 DEF RemoveMissed, RemoveDelete, Vehicles
<1>9. QED
  BY <1>5, <1>6, <1>7, <1>8

\* Every step leaves the room that the limit counts on.
LEMMA RoomStep ==
    ASSUME IndInv, Next
    PROVE  SpawnRoom'
<1>0. TypeOK /\ Parsed /\ SpawnRoom /\ ChosenIdStaysFree
  BY DEF IndInv
<1>l. /\ Vehicles \in SUBSET Ids
      /\ Cardinality(Vehicles) \in Nat
      /\ -1 \notin Ids
  BY <1>0, FiniteFleet DEF Ids
<1>n. \A v \in Ids : /\ Cardinality(Vehicles \ {v}) <= Cardinality(Vehicles)
                     /\ v \in Vehicles => Cardinality(Vehicles \ {v}) = Cardinality(Vehicles) - 1
                     /\ Cardinality(Vehicles \ {v}) \in Nat
                     /\ v \notin Vehicles => Cardinality(Vehicles \cup {v}) =
                         Cardinality(Vehicles) + 1
  BY <1>0, <1>l, FiniteFleet, FS_AddElement, FS_RemoveElement
<1>u. mUnicycleID \in Ids \cup {-1} /\ id \in Ids /\ \A p \in Plugins : pluginId[p] \in Ids
  BY <1>0 DEF TypeOK
<1>w. ASSUME NEW x \in Ids, Vehicles' = Vehicles \ {x}, UNCHANGED <<mUnicycleID, pc, id>>
      PROVE  SpawnRoom'
  BY <1>w, <1>0, <1>l, <1>n DEF SpawnRoom
<1> USE DEF SpawnRoom, ChosenIdStaysFree
<1>1. ASSUME NEW s \in PacketShapes, SpawnRequest(s)
      PROVE  SpawnRoom'
  <2>1. Vehicles' = Vehicles
    BY <1>1 DEF Vehicles, SpawnRequest, player, plugins, told
  <2>2. QED
    BY <1>1, <1>0, <1>l, <1>u, <2>1 DEF SpawnRequest, player, plugins, told
<1>2. ASSUME NEW v \in Ids, NEW s \in PacketShapes, EditRequest(v, s)
      PROVE  SpawnRoom'
  <2>1. Vehicles' = Vehicles
    BY <1>2 DEF Vehicles, EditRequest, plugins, told
  <2>2. QED
    BY <1>2, <1>0, <1>l, <1>u, <2>1 DEF EditRequest, plugins, told
<1>3. ASSUME NEW cancelled \in BOOLEAN, SpawnDecide(cancelled)
      PROVE  SpawnRoom'
  <2>1. Vehicles' = Vehicles /\ pc = "spawnEvent" /\ id \notin Vehicles
    BY <1>3, <1>0 DEF SpawnDecide, Vehicles
  <2>2. CASE TakesUnicycleSlot
    <3>1. mUnicycleID \notin Vehicles /\ mUnicycleID' = id
      BY <1>3, <1>l, <1>u, <2>2 DEF SpawnDecide, TakesUnicycleSlot, Ids
    <3>2. Cardinality(Vehicles) <= MaxCars
      BY <1>0, <2>1, <3>1
    <3>3. QED
      BY <1>3, <1>l, <2>1, <3>1, <3>2 DEF SpawnDecide, GoTo, Return
  <2>3. CASE ~TakesUnicycleSlot
    <3>1. mUnicycleID' = mUnicycleID
      BY <1>3, <2>3 DEF SpawnDecide
    <3>2. pc' = "add" => GetCarCount < MaxCars /\ id' = id
      BY <1>3, <2>3 DEF SpawnDecide, ShouldSpawn, GoTo, Return
    <3>3. pc' \in {"add", "idle"}
      BY <1>3 DEF SpawnDecide, GoTo, Return
    <3>4. QED
      BY <1>0, <1>l, <2>1, <3>1, <3>2, <3>3 DEF GetCarCount
  <2>4. QED
    BY <2>2, <2>3
<1>4. ASSUME NEW cancelled \in BOOLEAN, EditRefuse(cancelled)
      PROVE  SpawnRoom'
  <2>1. Vehicles' = Vehicles
    BY <1>4 DEF Vehicles, EditRefuse, EditAllowed, FreeUnicycleSlot, GoTo, plugins
  <2>2. QED
    BY <1>4, <1>0, <1>l, <1>u, <2>1 DEF EditRefuse, EditAllowed, FreeUnicycleSlot, GoTo, plugins
<1>5. CASE AddNewCar
  <2>1. Vehicles' = Vehicles \cup {id} /\ id \notin Vehicles /\ pc = "add"
    BY <1>5, <1>0, ListEffects DEF AddNewCar
  <2>2. QED
    BY <1>5, <1>0, <1>l, <1>n, <1>u, <2>1 DEF AddNewCar, GoTo
<1>6. CASE AnnounceSpawn
  <2>1. Vehicles' = Vehicles
    BY <1>6 DEF Vehicles, AnnounceSpawn, Return, plugins
  <2>2. QED
    BY <1>6, <1>0, <1>l, <1>u, <2>1 DEF AnnounceSpawn, Return, plugins
<1>7. CASE EditAccept
  <2>1. Vehicles' = Vehicles
    BY <1>7 DEF Vehicles, EditAccept, EditAllowed, GoTo, plugins, told
  <2>2. QED
    BY <1>7, <1>0, <1>l, <1>u, <2>1 DEF EditAccept, EditAllowed, GoTo, plugins, told
<1>8. CASE EditLookup
  <2>1. Vehicles' = Vehicles
    BY <1>8 DEF Vehicles, EditLookup, GoTo, HasData, Return, plugins, told
  <2>2. QED
    BY <1>8, <1>0, <1>l, <1>u, <2>1 DEF EditLookup, GoTo, HasData, Return, plugins, told
<1>9. CASE PaintLookup
  <2>1. Vehicles' = Vehicles /\ mUnicycleID' = mUnicycleID
    BY <1>9 DEF PaintLookup, Vehicles
  <2>2. pc' \in {"store", "idle"} \/ (pc' = "deleteCar" /\ id' = id)
    BY <1>9 DEF PaintLookup, GoTo, Return
  <2>3. pc = "paintLookup"
    BY <1>9 DEF PaintLookup
  <2>4. QED
    BY <1>0, <1>l, <2>1, <2>2, <2>3
<1>10. CASE Store
  <2>1. Vehicles' = Vehicles
    BY <1>10, <1>0, ListEffects
  <2>2. QED
    BY <1>10, <1>0, <1>l, <1>u, <2>1 DEF Store, SetCarData, GoTo, Return, plugins, told
<1>11. CASE DeleteCar
  <2>1. Vehicles' = Vehicles \ {id} /\ mUnicycleID' = mUnicycleID /\ pc' = "idle"
    BY <1>11, <1>0, ListEffects DEF DeleteCar, Return
  <2>2. CASE id \in Vehicles
    BY <1>0, <1>l, <1>n, <1>u, <2>1, <2>2
  <2>3. CASE id \notin Vehicles
    <3>1. Vehicles' = Vehicles
      BY <2>1, <2>3
    <3>2. QED
      BY <1>0, <1>l, <2>1, <2>3, <3>1
  <2>4. QED
    BY <2>2, <2>3
<1>12. ASSUME NEW v \in Ids, PaintRequest(v)
      PROVE  SpawnRoom'
  <2>1. Vehicles' = Vehicles
    BY <1>12 DEF Vehicles, PaintRequest, plugins, told
  <2>2. QED
    BY <1>12, <1>0, <1>l, <1>u, <2>1 DEF PaintRequest, plugins, told
<1>13. ASSUME NEW v \in Ids, DeleteRequest(v)
      PROVE  SpawnRoom'
  <2>1. Vehicles' = Vehicles
    BY <1>13 DEF Vehicles, DeleteRequest, FreeUnicycleSlot, plugins
  <2>2. QED
    BY <1>13, <1>0, <1>l, <1>u, <2>1 DEF DeleteRequest, FreeUnicycleSlot, plugins
<1>14. ASSUME NEW v \in Ids, LeaveOne(v)
      PROVE  SpawnRoom'
  <2>1. Vehicles' = Vehicles
    BY <1>14 DEF Vehicles, LeaveOne, plugins
  <2>2. QED
    BY <1>14, <1>0, <1>l, <1>u, <2>1 DEF LeaveOne, plugins
<1>15. CASE Disconnect
  <2>1. Vehicles' = Vehicles
    BY <1>15 DEF Vehicles, Disconnect, GoTo, plugins, told
  <2>2. QED
    BY <1>15, <1>0, <1>l, <1>u, <2>1 DEF Disconnect, GoTo, plugins, told
<1>16. CASE ClearCars
  <2>1. Vehicles' = {}
    BY <1>16 DEF ClearCars, Vehicles
  <2>2. Cardinality(Vehicles') = 0
    BY <2>1, FS_EmptySet
  <2>3. QED
    BY <1>16, <1>0, <1>l, <1>u, <2>1, <2>2 DEF ClearCars, GoTo, plugins, told
<1>17. ASSUME NEW p \in Plugins, NEW v \in Ids, RemoveVehicle(p, v)
      PROVE  SpawnRoom'
  <2>1. Vehicles' = Vehicles
    BY <1>17 DEF Vehicles, RemoveVehicle, Plugin, PluginReturn, HasData, player
  <2>2. QED
    BY <1>17, <1>0, <1>l, <1>u, <2>1 DEF RemoveVehicle, Plugin, PluginReturn, HasData, player
<1>18. ASSUME NEW p \in Plugins, RemoveMissed(p)
      PROVE  SpawnRoom'
  <2>1. Vehicles' = Vehicles \ {pluginId[p]} /\ UNCHANGED <<mUnicycleID, pc, id>>
    BY <1>18, <1>0, ListEffects DEF RemoveMissed, player
  <2>2. QED
    BY <2>1, <1>u, <1>w
<1>19. ASSUME NEW p \in Plugins, RemoveSend(p)
      PROVE  SpawnRoom'
  <2>1. Vehicles' = Vehicles
    BY <1>19 DEF Vehicles, RemoveSend, Plugin, player
  <2>2. QED
    BY <1>19, <1>0, <1>l, <1>u, <2>1 DEF RemoveSend, Plugin, player
<1>20. ASSUME NEW p \in Plugins, RemoveDelete(p)
      PROVE  SpawnRoom'
  <2>1. Vehicles' = Vehicles \ {pluginId[p]} /\ UNCHANGED <<mUnicycleID, pc, id>>
    BY <1>20, <1>0, ListEffects DEF RemoveDelete, player
  <2>2. QED
    BY <2>1, <1>u, <1>w
<1>21. QED
  BY <1>1, <1>2, <1>3, <1>4, <1>5, <1>6, <1>7, <1>8, <1>9, <1>10, <1>11, <1>12, <1>13, <1>14,
      <1>15, <1>16, <1>17, <1>18, <1>19, <1>20 DEF Next, PlayerStep, PluginStep

\* The chosen ID stays free until the vehicle is stored, and what is stored was parsed.
LEMMA SpawnStep ==
    ASSUME IndInv, Next
    PROVE  (ChosenIdStaysFree /\ Parsed)'
<1>0. TypeOK /\ Parsed /\ SpawnRoom /\ ChosenIdStaysFree
  BY DEF IndInv
<1> USE DEF ChosenIdStaysFree, Parsed
<1>1. ASSUME NEW s \in PacketShapes, SpawnRequest(s)
      PROVE  (ChosenIdStaysFree /\ Parsed)'
  BY <1>1, <1>0, OpenCarID DEF SpawnRequest, SpawnRoom, Vehicles
<1>2. ASSUME NEW v \in Ids, NEW s \in PacketShapes, EditRequest(v, s)
      PROVE  (ChosenIdStaysFree /\ Parsed)'
  BY <1>2, <1>0 DEF EditRequest
<1>3. ASSUME NEW cancelled \in BOOLEAN, SpawnDecide(cancelled)
      PROVE  (ChosenIdStaysFree /\ Parsed)'
  <2>1. Vehicles' = Vehicles
    BY <1>3, <1>0, ListEffects DEF Vehicles, SpawnDecide, GoTo, Return, TakesUnicycleSlot,
        ShouldSpawn, GetCarCount, plugins, told
  <2>2. QED
    BY <1>3, <1>0, <2>1 DEF SpawnDecide, GoTo, Return, TakesUnicycleSlot, ShouldSpawn,
        GetCarCount, plugins, told
<1>4. ASSUME NEW cancelled \in BOOLEAN, EditRefuse(cancelled)
      PROVE  (ChosenIdStaysFree /\ Parsed)'
  BY <1>4, <1>0 DEF EditRefuse, GoTo
<1>5. CASE AddNewCar
  BY <1>5, <1>0 DEF AddNewCar, GoTo
<1>6. CASE AnnounceSpawn
  BY <1>6, <1>0 DEF AnnounceSpawn, Return
<1>7. CASE EditAccept
  BY <1>7, <1>0 DEF EditAccept, GoTo
<1>8. CASE EditLookup
  BY <1>8, <1>0 DEF EditLookup, GoTo, HasData, Return
<1>9. CASE PaintLookup
  BY <1>9, <1>0 DEF PaintLookup, HasData, GoTo, Return, TypeOK, Shapes, Vehicles
<1>10. CASE Store
  BY <1>10, <1>0 DEF Store, SetCarData, GoTo, Return
<1>11. CASE DeleteCar
  BY <1>11, <1>0 DEF DeleteCar, Return
<1>12. ASSUME NEW v \in Ids, PaintRequest(v)
      PROVE  (ChosenIdStaysFree /\ Parsed)'
  BY <1>12, <1>0 DEF PaintRequest
<1>13. ASSUME NEW v \in Ids, DeleteRequest(v)
      PROVE  (ChosenIdStaysFree /\ Parsed)'
  BY <1>13, <1>0 DEF DeleteRequest
<1>14. ASSUME NEW v \in Ids, LeaveOne(v)
      PROVE  (ChosenIdStaysFree /\ Parsed)'
  <2>1. Vehicles' = Vehicles
    BY <1>14, <1>0, ListEffects DEF Vehicles, LeaveOne, plugins
  <2>2. QED
    BY <1>14, <1>0, <2>1 DEF LeaveOne, plugins
<1>15. CASE Disconnect
  BY <1>15, <1>0 DEF Disconnect, GoTo
<1>16. CASE ClearCars
  BY <1>16, <1>0 DEF ClearCars, GoTo
<1>17. ASSUME NEW p \in Plugins, NEW v \in Ids, RemoveVehicle(p, v)
      PROVE  (ChosenIdStaysFree /\ Parsed)'
  <2>1. Vehicles' = Vehicles
    BY <1>17, <1>0, ListEffects DEF Vehicles, RemoveVehicle, Plugin, PluginReturn, HasData, player
  <2>2. QED
    BY <1>17, <1>0, <2>1 DEF RemoveVehicle, Plugin, PluginReturn, HasData, player
<1>18. ASSUME NEW p \in Plugins, RemoveMissed(p)
      PROVE  (ChosenIdStaysFree /\ Parsed)'
  <2>1. Vehicles' = Vehicles \ {pluginId[p]} /\ UNCHANGED <<pc, id, shape>>
    BY <1>18, <1>0, ListEffects DEF RemoveMissed, player
  <2>2. QED
    BY <1>0, <2>1
<1>19. ASSUME NEW p \in Plugins, RemoveSend(p)
      PROVE  (ChosenIdStaysFree /\ Parsed)'
  <2>1. Vehicles' = Vehicles
    BY <1>19, <1>0, ListEffects DEF Vehicles, RemoveSend, Plugin, player
  <2>2. QED
    BY <1>19, <1>0, <2>1 DEF RemoveSend, Plugin, player
<1>20. ASSUME NEW p \in Plugins, RemoveDelete(p)
      PROVE  (ChosenIdStaysFree /\ Parsed)'
  <2>1. Vehicles' = Vehicles \ {pluginId[p]} /\ UNCHANGED <<pc, id, shape>>
    BY <1>20, <1>0, ListEffects DEF RemoveDelete, player
  <2>2. QED
    BY <1>0, <2>1
<1>21. QED
  BY <1>1, <1>2, <1>3, <1>4, <1>5, <1>6, <1>7, <1>8, <1>9, <1>10, <1>11, <1>12, <1>13, <1>14,
      <1>15, <1>16, <1>17, <1>18, <1>19, <1>20 DEF Next, PlayerStep, PluginStep

\* A vehicle the players do not know of is about to be announced or deleted.
LEMMA SeenStep ==
    ASSUME IndInv, Next
    PROVE  Seen'
<1>0. TypeOK /\ Parsed /\ Seen /\ Agreement
  BY DEF IndInv
<1> USE DEF Seen, Unsettled, TypeOK
<1>1. ASSUME NEW s \in PacketShapes, SpawnRequest(s)
      PROVE  Seen'
  <2>1. Vehicles' = Vehicles
    BY <1>1, <1>0 DEF SpawnRequest, Vehicles
  <2>2. QED
    BY <1>1, <1>0, <2>1 DEF SpawnRequest, player, plugins, told
<1>2. ASSUME NEW v \in Ids, NEW s \in PacketShapes, EditRequest(v, s)
      PROVE  Seen'
  <2>1. Vehicles' = Vehicles
    BY <1>2, <1>0 DEF EditRequest, Vehicles
  <2>2. QED
    BY <1>2, <1>0, <2>1 DEF EditRequest, plugins, told
<1>3. ASSUME NEW cancelled \in BOOLEAN, SpawnDecide(cancelled)
      PROVE  Seen'
  <2>1. Vehicles' = Vehicles
    BY <1>3, <1>0 DEF SpawnDecide, Vehicles
  <2>2. QED
    BY <1>3, <1>0, <2>1 DEF SpawnDecide, GoTo, Return, plugins, told
<1>4. ASSUME NEW cancelled \in BOOLEAN, EditRefuse(cancelled)
      PROVE  Seen'
  <2>1. Vehicles' = Vehicles
    BY <1>4, <1>0 DEF EditRefuse, Vehicles
  <2>2. QED
    BY <1>4, <1>0, <2>1 DEF EditRefuse, GoTo, plugins
<1>5. CASE AddNewCar
  <2>1. Vehicles' = Vehicles \cup {id}
    BY <1>5, <1>0, ListEffects
  <2>2. QED
    BY <1>5, <1>0, <2>1 DEF AddNewCar, GoTo, plugins, Removing
<1>6. CASE AnnounceSpawn
  <2>1. Vehicles' = Vehicles
    BY <1>6, <1>0 DEF AnnounceSpawn, Vehicles
  <2>2. QED
    BY <1>6, <1>0, <2>1 DEF AnnounceSpawn, Return, plugins
<1>7. CASE EditAccept
  <2>1. Vehicles' = Vehicles
    BY <1>7, <1>0 DEF EditAccept, Vehicles
  <2>2. QED
    BY <1>7, <1>0, <2>1 DEF EditAccept, GoTo, plugins, told
<1>8. CASE EditLookup
  <2>1. Vehicles' = Vehicles
    BY <1>8, <1>0 DEF EditLookup, Vehicles
  <2>2. QED
    BY <1>8, <1>0, <2>1 DEF EditLookup, GoTo, HasData, Return, plugins, told
<1>9. CASE PaintLookup
  <2>1. Vehicles' = Vehicles
    BY <1>9, <1>0 DEF PaintLookup, Vehicles
  <2>2. QED
    BY <1>9, <1>0, <2>1 DEF PaintLookup, GoTo, HasData, Return, plugins, told
<1>10. CASE Store
  <2>1. Vehicles' = Vehicles
    BY <1>10, <1>0, ListEffects
  <2>2. QED
    BY <1>10, <1>0, <2>1 DEF Store, SetCarData, GoTo, Return, plugins, told
<1>11. CASE DeleteCar
  <2>1. Vehicles' = Vehicles \ {id}
    BY <1>11, <1>0, ListEffects
  <2>2. QED
    BY <1>11, <1>0, <2>1 DEF DeleteCar, Return, plugins, told
<1>12. ASSUME NEW v \in Ids, PaintRequest(v)
      PROVE  Seen'
  <2>1. Vehicles' = Vehicles
    BY <1>12, <1>0 DEF PaintRequest, Vehicles
  <2>2. QED
    BY <1>12, <1>0, <2>1 DEF PaintRequest, plugins, told
<1>13. ASSUME NEW v \in Ids, DeleteRequest(v)
      PROVE  Seen'
  <2>1. Vehicles' = Vehicles
    BY <1>13, <1>0 DEF DeleteRequest, Vehicles
  <2>2. QED
    BY <1>13, <1>0, <2>1 DEF DeleteRequest, plugins
<1>14. ASSUME NEW v \in Ids, LeaveOne(v)
      PROVE  Seen'
  <2>1. Vehicles' = Vehicles
    BY <1>14, <1>0 DEF LeaveOne, Vehicles
  <2>2. QED
    BY <1>14, <1>0, <2>1 DEF LeaveOne, plugins
<1>15. CASE Disconnect
  <2>1. Vehicles' = Vehicles
    BY <1>15, <1>0 DEF Disconnect, Vehicles
  <2>2. QED
    BY <1>15, <1>0, <2>1 DEF Disconnect, GoTo, plugins, told
<1>16. CASE ClearCars
  <2>1. Vehicles' = {}
    BY <1>16, <1>0 DEF ClearCars, Vehicles
  <2>2. QED
    BY <1>16, <1>0, <2>1 DEF ClearCars, GoTo, plugins, told
<1>17. ASSUME NEW p \in Plugins, NEW v \in Ids, RemoveVehicle(p, v)
      PROVE  Seen'
  <2>1. Vehicles' = Vehicles
    BY <1>17, <1>0 DEF RemoveVehicle, Vehicles
  <2>2. QED
    BY <1>17, <1>0, <2>1 DEF RemoveVehicle, Plugin, PluginReturn, HasData, player
<1>18. ASSUME NEW p \in Plugins, RemoveMissed(p)
      PROVE  Seen'
  <2>1. Vehicles' = Vehicles \ {pluginId[p]}
    BY <1>18, <1>0, ListEffects
  <2>2. QED
    BY <1>18, <1>0, <2>1 DEF RemoveMissed, Plugin, PluginReturn, player, told
<1>19. ASSUME NEW p \in Plugins, RemoveSend(p)
      PROVE  Seen'
  <2>1. Vehicles' = Vehicles
    BY <1>19, <1>0 DEF RemoveSend, Vehicles
  <2>2. QED
    BY <1>19, <1>0, <2>1 DEF RemoveSend, Plugin, player
<1>20. ASSUME NEW p \in Plugins, RemoveDelete(p)
      PROVE  Seen'
  <2>1. Vehicles' = Vehicles \ {pluginId[p]}
    BY <1>20, <1>0, ListEffects
  <2>2. QED
    BY <1>20, <1>0, <2>1 DEF RemoveDelete, Plugin, PluginReturn, player, told
<1>21. QED
  BY <1>1, <1>2, <1>3, <1>4, <1>5, <1>6, <1>7, <1>8, <1>9, <1>10, <1>11, <1>12, <1>13, <1>14,
      <1>15, <1>16, <1>17, <1>18, <1>19, <1>20 DEF Next, PlayerStep, PluginStep

\* What the players see and the server does not have overlapped a removal.
LEMMA AgreementStep ==
    ASSUME IndInv, Next
    PROVE  Agreement'
<1>0. TypeOK /\ Parsed /\ Seen /\ Agreement
  BY DEF IndInv
<1> USE DEF Agreement, Removing, TypeOK
<1>1. ASSUME NEW s \in PacketShapes, SpawnRequest(s)
      PROVE  Agreement'
  <2>1. Vehicles' = Vehicles
    BY <1>1, <1>0 DEF SpawnRequest, Vehicles
  <2>2. QED
    BY <1>1, <1>0, <2>1 DEF SpawnRequest, player, plugins, told
<1>2. ASSUME NEW v \in Ids, NEW s \in PacketShapes, EditRequest(v, s)
      PROVE  Agreement'
  <2>1. Vehicles' = Vehicles
    BY <1>2, <1>0 DEF EditRequest, Vehicles
  <2>2. QED
    BY <1>2, <1>0, <2>1 DEF EditRequest, plugins, told
<1>3. ASSUME NEW cancelled \in BOOLEAN, SpawnDecide(cancelled)
      PROVE  Agreement'
  <2>1. Vehicles' = Vehicles
    BY <1>3, <1>0 DEF SpawnDecide, Vehicles
  <2>2. QED
    BY <1>3, <1>0, <2>1 DEF SpawnDecide, GoTo, Return, plugins, told
<1>4. ASSUME NEW cancelled \in BOOLEAN, EditRefuse(cancelled)
      PROVE  Agreement'
  <2>1. Vehicles' = Vehicles
    BY <1>4, <1>0 DEF EditRefuse, Vehicles
  <2>2. QED
    BY <1>4, <1>0, <2>1 DEF EditRefuse, GoTo, plugins
<1>5. CASE AddNewCar
  <2>1. Vehicles' = Vehicles \cup {id}
    BY <1>5, <1>0, ListEffects
  <2>2. QED
    BY <1>5, <1>0, <2>1 DEF AddNewCar, GoTo, plugins, Removing
<1>6. CASE AnnounceSpawn
  <2>1. Vehicles' = Vehicles
    BY <1>6, <1>0 DEF AnnounceSpawn, Vehicles
  <2>2. QED
    BY <1>6, <1>0, <2>1 DEF AnnounceSpawn, Return, plugins
<1>7. CASE EditAccept
  <2>1. Vehicles' = Vehicles
    BY <1>7, <1>0 DEF EditAccept, Vehicles
  <2>2. QED
    BY <1>7, <1>0, <2>1 DEF EditAccept, GoTo, plugins, told
<1>8. CASE EditLookup
  <2>1. Vehicles' = Vehicles
    BY <1>8, <1>0 DEF EditLookup, Vehicles
  <2>2. QED
    BY <1>8, <1>0, <2>1 DEF EditLookup, GoTo, HasData, Return, plugins, told
<1>9. CASE PaintLookup
  <2>1. Vehicles' = Vehicles
    BY <1>9, <1>0 DEF PaintLookup, Vehicles
  <2>2. QED
    BY <1>9, <1>0, <2>1 DEF PaintLookup, GoTo, HasData, Return, plugins, told
<1>10. CASE Store
  <2>1. Vehicles' = Vehicles
    BY <1>10, <1>0, ListEffects
  <2>2. QED
    BY <1>10, <1>0, <2>1 DEF Store, SetCarData, GoTo, Return, plugins, told
<1>11. CASE DeleteCar
  <2>1. Vehicles' = Vehicles \ {id}
    BY <1>11, <1>0, ListEffects
  <2>2. QED
    BY <1>11, <1>0, <2>1 DEF DeleteCar, Return, plugins, told
<1>12. ASSUME NEW v \in Ids, PaintRequest(v)
      PROVE  Agreement'
  <2>1. Vehicles' = Vehicles
    BY <1>12, <1>0 DEF PaintRequest, Vehicles
  <2>2. QED
    BY <1>12, <1>0, <2>1 DEF PaintRequest, plugins, told
<1>13. ASSUME NEW v \in Ids, DeleteRequest(v)
      PROVE  Agreement'
  <2>1. Vehicles' = Vehicles
    BY <1>13, <1>0 DEF DeleteRequest, Vehicles
  <2>2. QED
    BY <1>13, <1>0, <2>1 DEF DeleteRequest, plugins
<1>14. ASSUME NEW v \in Ids, LeaveOne(v)
      PROVE  Agreement'
  <2>1. Vehicles' = Vehicles
    BY <1>14, <1>0 DEF LeaveOne, Vehicles
  <2>2. QED
    BY <1>14, <1>0, <2>1 DEF LeaveOne, plugins
<1>15. CASE Disconnect
  <2>1. Vehicles' = Vehicles
    BY <1>15, <1>0 DEF Disconnect, Vehicles
  <2>2. QED
    BY <1>15, <1>0, <2>1 DEF Disconnect, GoTo, plugins, told
<1>16. CASE ClearCars
  <2>1. Vehicles' = {}
    BY <1>16, <1>0 DEF ClearCars, Vehicles
  <2>2. QED
    BY <1>16, <1>0, <2>1 DEF ClearCars, GoTo, plugins, told
<1>17. ASSUME NEW p \in Plugins, NEW v \in Ids, RemoveVehicle(p, v)
      PROVE  Agreement'
  <2>1. Vehicles' = Vehicles
    BY <1>17, <1>0 DEF RemoveVehicle, Vehicles
  <2>2. QED
    BY <1>17, <1>0, <2>1 DEF RemoveVehicle, Plugin, PluginReturn, HasData, player
<1>18. ASSUME NEW p \in Plugins, RemoveMissed(p)
      PROVE  Agreement'
  <2>1. Vehicles' = Vehicles \ {pluginId[p]}
    BY <1>18, <1>0, ListEffects
  <2>2. QED
    BY <1>18, <1>0, <2>1 DEF RemoveMissed, Plugin, PluginReturn, player, told
<1>19. ASSUME NEW p \in Plugins, RemoveSend(p)
      PROVE  Agreement'
  <2>1. Vehicles' = Vehicles
    BY <1>19, <1>0 DEF RemoveSend, Vehicles
  <2>2. QED
    BY <1>19, <1>0, <2>1 DEF RemoveSend, Plugin, player
<1>20. ASSUME NEW p \in Plugins, RemoveDelete(p)
      PROVE  Agreement'
  <2>1. Vehicles' = Vehicles \ {pluginId[p]}
    BY <1>20, <1>0, ListEffects
  <2>2. QED
    BY <1>20, <1>0, <2>1 DEF RemoveDelete, Plugin, PluginReturn, player, told
<1>21. QED
  BY <1>1, <1>2, <1>3, <1>4, <1>5, <1>6, <1>7, <1>8, <1>9, <1>10, <1>11, <1>12, <1>13, <1>14,
      <1>15, <1>16, <1>17, <1>18, <1>19, <1>20 DEF Next, PlayerStep, PluginStep

\* The inductive invariant of everything the player's thread and the plugins do
\* to one player's vehicles.
THEOREM Invariance == Spec => []IndInv
<1>1. Init => IndInv
  BY InitIndInv
<1>2. IndInv /\ [Next]_vars => IndInv'
  <2>1. ASSUME IndInv, Next
        PROVE  IndInv'
    BY <2>1, TypeStep, RoomStep, SpawnStep, SeenStep, AgreementStep DEF IndInv
  <2>2. ASSUME IndInv, UNCHANGED vars
        PROVE  IndInv'
    BY <2>2 DEF IndInv, TypeOK, SpawnRoom, ChosenIdStaysFree, Parsed, Seen, Unsettled, Agreement,
        Removing, Vehicles, vars
  <2>3. QED
    BY <2>1, <2>2
<1>3. QED
  BY <1>1, <1>2, PTL DEF Spec

-----------------------------------------------------------------------------
(* What follows from it.                                                   *)

\* However spawns, edits, deletions and plugin removals interleave, a player
\* never has more than one vehicle above the limit.
THEOREM FleetIsBounded == Spec => []FleetBound
<1>1. IndInv => FleetBound
  BY DEF IndInv, SpawnRoom, FleetBound
<1>2. QED
  BY <1>1, Invariance, PTL

\* An ID chosen before the plugins were asked is still free when the vehicle is
\* stored: no two vehicles of a player share one.
THEOREM ChosenIdIsFree == Spec => []ChosenIdStaysFree
<1>1. IndInv => ChosenIdStaysFree
  BY DEF IndInv
<1>2. QED
  BY <1>1, Invariance, PTL

\* No vehicle is ever silently present once nothing is in progress.
THEOREM NothingInvisible == Spec => []NeverInvisible
<1>1. IndInv => NeverInvisible
  BY DEF IndInv, Seen, Unsettled, NeverInvisible, Quiescent
<1>2. QED
  BY <1>1, Invariance, PTL

\* The players see nothing that the server has not, overlapping removals of a
\* vehicle just spawned aside.
THEOREM PlayersSeeTheServer == Spec => []ViewAgrees
<1>1. IndInv => ViewAgrees
  BY DEF IndInv, Agreement, ViewAgrees
<1>2. QED
  BY <1>1, Invariance, PTL

\* Only a spawn brings a vehicle into being: no edit or repaint revives one that
\* a plugin removed under it.
THEOREM NothingRevived == Spec => RemovedStaysRemoved
<1> DEFINE Step == Vehicles' \subseteq Vehicles \cup (IF pc = "add" THEN {id} ELSE {})
<1>1. IndInv /\ [Next]_vars => [Step]_vars
  <2>1. ASSUME IndInv, Next
        PROVE  Step
    <3>1. TypeOK /\ Parsed
      BY <2>1 DEF IndInv
    <3>2. CASE AddNewCar \/ Store \/ DeleteCar
      BY <3>1, <3>2, ListEffects DEF AddNewCar
    <3>3. CASE \E p \in Plugins : RemoveMissed(p) \/ RemoveDelete(p)
      BY <3>1, <3>3, ListEffects
    <3>4. CASE ClearCars
      BY <3>4 DEF ClearCars, Vehicles
    <3>5. CASE UNCHANGED fleet
      BY <3>5 DEF Vehicles
    <3>6. QED
      BY <2>1, <3>2, <3>3, <3>4, <3>5 DEF Next, PlayerStep, PluginStep, SpawnRequest, EditRequest,
          SpawnDecide, EditRefuse, AnnounceSpawn, EditAccept, EditLookup, PaintLookup,
          PaintRequest, DeleteRequest, LeaveOne, Disconnect, RemoveVehicle, RemoveSend
  <2>2. QED
    BY <2>1
<1>2. QED
  BY <1>1, Invariance, PTL DEF Spec, RemovedStaysRemoved

=============================================================================
