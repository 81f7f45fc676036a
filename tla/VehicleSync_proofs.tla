-------------------------- MODULE VehicleSync_proofs --------------------------
(***************************************************************************)
(* Proofs about VehicleSync, for any owners, each with any number of       *)
(* vehicles and of changes to them.                                        *)
(***************************************************************************)
EXTENDS VehicleSync, WellFoundedInduction, TLAPS

-----------------------------------------------------------------------------
(* What is known of a vehicle after a queue of packets.                    *)

\* A set of places has a last one.
LEMMA LastPlace ==
    ASSUME NEW n \in Nat, NEW S \in SUBSET (1..n), S # {}
    PROVE  Max(S) \in S /\ \A j \in S : j <= Max(S)
<1> DEFINE T == {n - i : i \in S}
<1>1. T \subseteq Nat /\ T # {}
  <2>1. \A i \in S : n - i \in Nat
    OBVIOUS
  <2>2. \A i \in S : n - i \in T
    OBVIOUS
  <2>3. QED
    BY <2>1, <2>2
<1>2. PICK x \in T : \A y \in T : ~(<<y, x>> \in OpToRel(<, Nat))
  <2> HIDE DEF T
  <2>1. QED
    BY <1>1, NatLessThanWellFounded, WFMin
<1>3. PICK i \in S : x = n - i
  BY <1>2
<1>4. ASSUME NEW j \in S
      PROVE  i >= j
  <2>1. n - j \in T /\ n - j \in Nat /\ x \in Nat
    BY <1>1, <1>2
  <2>2. ~(n - j < x)
    BY <1>2, <2>1 DEF OpToRel
  <2>3. QED
    BY <1>3, <2>2
<1>5. \E k \in S : \A j \in S : k >= j
  BY <1>4
<1>6. Max(S) \in S /\ \A j \in S : Max(S) >= j
  BY <1>5 DEF Max
<1>7. QED
  BY <1>6

\* The place that is in a set and not before any other is the last.
LEMMA LastIs ==
    ASSUME NEW n \in Nat, NEW S \in SUBSET (1..n), NEW i \in S, \A j \in S : j <= i
    PROVE  Max(S) = i
<1>1. Max(S) \in S /\ \A j \in S : j <= Max(S)
  BY LastPlace
<1>2. Max(S) \in Int /\ i \in Int
  <2>1. \A j \in S : j \in Int
    OBVIOUS
  <2>2. QED
    BY <1>1, <2>1
<1>3. Max(S) <= i /\ i <= Max(S)
  BY <1>1
<1>4. QED
  BY <1>2, <1>3

\* One packet's effect.
After(known, m) == IF m.kind = "spawn" \/ (m.kind = "edit" /\ known # None) THEN m.config ELSE None

AfterIf(known, m, x) == IF Subject(m) = x THEN After(known, m) ELSE known

Known == Configs \cup {None}

\* The fields of a packet.
LEMMA PacketType ==
    ASSUME NEW m \in Packets
    PROVE  /\ m.kind \in {"spawn", "edit", "delete"} /\ m.owner \in Owners /\ m.vid \in Vids
           /\ m.kind # "delete" => m.config \in Configs
           /\ m.kind = "delete" => m.config = None
BY DEF Packets

\* What is known after a packet is a config or nothing.
LEMMA AfterType ==
    ASSUME NEW m \in Packets, NEW k \in Known
    PROVE  After(k, m) \in Known
BY PacketType DEF After, Known

\* The last packet of a vehicle, and the last that is a spawn or a deletion.
LEMMA LastPackets ==
    ASSUME NEW q \in Seq(Packets), NEW x
    PROVE  /\ About(q, x) \in SUBSET (1..Len(q)) /\ Cuts(q, x) \subseteq About(q, x)
           /\ About(q, x) # {} => /\ Max(About(q, x)) \in About(q, x)
                                  /\ \A j \in About(q, x) : j <= Max(About(q, x))
           /\ Cuts(q, x) # {} => /\ Max(Cuts(q, x)) \in Cuts(q, x)
                                 /\ \A j \in Cuts(q, x) : j <= Max(Cuts(q, x))
<1>1. Len(q) \in Nat /\ DOMAIN q = 1..Len(q)
  OBVIOUS
<1>2. About(q, x) \in SUBSET (1..Len(q)) /\ Cuts(q, x) \in SUBSET (1..Len(q)) /\ Cuts(q, x) \subseteq About(q, x)
  BY <1>1 DEF About, Cuts
<1>3. QED
  BY <1>1, <1>2, LastPlace

\* Packets about other vehicles tell nothing of this one.
LEMMA NothingAbout ==
    ASSUME NEW q, NEW x, NEW k, About(q, x) = {}
    PROVE  KnownAfter(k, q, x) = k
BY DEF KnownAfter, Cuts

\* Nothing is said of a vehicle without data.
LEMMA LastHasData ==
    ASSUME NEW q \in Seq(Packets), NEW x, About(q, x) # {},
           Cuts(q, x) = {} \/ q[Max(Cuts(q, x))].kind # "delete"
    PROVE  q[Max(About(q, x))].config \in Configs
<1> DEFINE last == Max(About(q, x))
<1>1. last \in About(q, x) /\ \A j \in About(q, x) : j <= last
  BY LastPackets
<1>2. last \in DOMAIN q /\ q[last] \in Packets
  BY <1>1 DEF About
<1>3. q[last].kind # "delete"
  <2>1. SUFFICES ASSUME q[last].kind = "delete" PROVE FALSE
    OBVIOUS
  <2>2. last \in Cuts(q, x)
    BY <1>1, <2>1 DEF Cuts
  <2>3. Max(Cuts(q, x)) \in Cuts(q, x) /\ last <= Max(Cuts(q, x))
    BY <2>2, LastPackets
  <2>4. Max(Cuts(q, x)) <= last
    BY <1>1, <2>3 DEF Cuts
  <2>5. Max(Cuts(q, x)) = last
    <3>1. Max(Cuts(q, x)) \in Nat /\ last \in Nat
      BY <1>1, <2>3, LastPackets
    <3>2. QED
      BY <2>3, <2>4, <3>1
  <2>6. QED
    BY <2>1, <2>2, <2>5
<1>4. QED
  BY <1>2, <1>3, PacketType

\* What is known after a queue is a config or nothing.
LEMMA KnownType ==
    ASSUME NEW q \in Seq(Packets), NEW x, NEW k \in Known
    PROVE  KnownAfter(k, q, x) \in Known
<1>1. Cuts(q, x) \subseteq About(q, x)
  BY LastPackets
<1>2. QED
  BY <1>1, LastHasData DEF KnownAfter, Known

\* Telling everything a second time changes nothing.
LEMMA ToldTwice ==
    ASSUME SyncAssumption, NEW q \in Seq(Packets), NEW x, NEW k \in Known
    PROVE  KnownAfter(KnownAfter(k, q, x), q, x) = KnownAfter(k, q, x)
<1>1. CASE Cuts(q, x) # {}
  BY <1>1 DEF KnownAfter
<1>2. CASE Cuts(q, x) = {} /\ (k = None \/ About(q, x) = {})
  BY <1>2 DEF KnownAfter
<1>3. CASE Cuts(q, x) = {} /\ k # None /\ About(q, x) # {}
  <2>1. KnownAfter(k, q, x) = q[Max(About(q, x))].config
    BY <1>3 DEF KnownAfter
  <2>2. q[Max(About(q, x))].config # None
    BY <1>3, LastHasData DEF SyncAssumption
  <2>3. QED
    BY <1>3, <2>1, <2>2 DEF KnownAfter
<1>4. QED
  BY <1>1, <1>2, <1>3

\* A packet at the end of the queue is told last.
LEMMA KnownAppend ==
    ASSUME SyncAssumption, NEW q \in Seq(Packets), NEW m \in Packets, NEW x, NEW k \in Known
    PROVE  KnownAfter(k, Append(q, m), x) = AfterIf(KnownAfter(k, q, x), m, x)
<1> DEFINE p == Append(q, m)
           n == Len(q)
<1>1. p \in Seq(Packets) /\ Len(p) = n + 1 /\ n \in Nat /\ DOMAIN p = 1..(n + 1) /\ DOMAIN q = 1..n
      /\ p[n + 1] = m /\ \A i \in 1..n : p[i] = q[i]
  OBVIOUS
<1> HIDE DEF p, n
<1>2. /\ About(q, x) \in SUBSET (1..n) /\ Cuts(q, x) \subseteq About(q, x)
      /\ About(q, x) # {} => Max(About(q, x)) \in About(q, x)
      /\ Cuts(q, x) # {} => Max(Cuts(q, x)) \in Cuts(q, x)
  BY LastPackets DEF n
<1>3. /\ About(q, x) # {} => p[Max(About(q, x))] = q[Max(About(q, x))]
      /\ Cuts(q, x) # {} => p[Max(Cuts(q, x))] = q[Max(Cuts(q, x))]
  BY <1>1, <1>2
<1>4. CASE Subject(m) # x
  <2>1. About(p, x) = About(q, x)
    BY <1>1, <1>4 DEF About
  <2>2. Cuts(p, x) = Cuts(q, x)
    BY <1>1, <1>2, <2>1 DEF Cuts
  <2>3. KnownAfter(k, p, x) = KnownAfter(k, q, x)
    BY <1>2, <1>3, <2>1, <2>2 DEF KnownAfter
  <2>4. QED
    BY <1>4, <2>3 DEF AfterIf, p
<1>5. CASE Subject(m) = x
  <2>1. About(p, x) = About(q, x) \cup {n + 1}
    BY <1>1, <1>5 DEF About
  <2>2. Max(About(p, x)) = n + 1
    <3>1. About(p, x) \in SUBSET (1..(n + 1)) /\ n + 1 \in About(p, x) /\ \A j \in About(p, x) : j <= n + 1
      BY <1>1, <1>2, <2>1
    <3>2. n + 1 \in Nat
      BY <1>1
    <3>3. QED
      BY <3>1, <3>2, LastIs
  <2>3. CASE m.kind = "edit"
    <3>1. Cuts(p, x) = Cuts(q, x)
      BY <1>1, <1>2, <2>1, <2>3 DEF Cuts
    <3>2. CASE Cuts(q, x) = {}
      <4>1. KnownAfter(k, p, x) = IF k = None THEN k ELSE m.config
        BY <1>1, <2>1, <2>2, <3>1, <3>2 DEF KnownAfter
      <4>2. KnownAfter(k, q, x) = None <=> k = None
        BY <3>2, LastHasData DEF KnownAfter, SyncAssumption
      <4>3. QED
        BY <1>5, <2>3, <4>1, <4>2 DEF AfterIf, After, p
    <3>3. CASE Cuts(q, x) # {}
      <4>1. KnownAfter(k, p, x) = IF q[Max(Cuts(q, x))].kind = "delete" THEN None ELSE m.config
        BY <1>1, <1>3, <2>2, <3>1, <3>3 DEF KnownAfter
      <4>2. KnownAfter(k, q, x) = None <=> q[Max(Cuts(q, x))].kind = "delete"
        <5>1. About(q, x) # {}
          BY <1>2, <3>3
        <5>2. QED
          BY <3>3, <5>1, LastHasData DEF KnownAfter, SyncAssumption
      <4>3. QED
        BY <1>5, <2>3, <4>1, <4>2 DEF AfterIf, After, p
    <3>4. QED
      BY <3>2, <3>3
  <2>4. CASE m.kind # "edit"
    <3>1. Cuts(p, x) = Cuts(q, x) \cup {n + 1}
      BY <1>1, <1>2, <2>1, <2>4 DEF Cuts
    <3>2. Max(Cuts(p, x)) = n + 1
      <4>1. Cuts(p, x) \in SUBSET (1..(n + 1)) /\ n + 1 \in Cuts(p, x) /\ \A j \in Cuts(p, x) : j <= n + 1
        BY <1>1, <1>2, <3>1
      <4>2. n + 1 \in Nat
        BY <1>1
      <4>3. QED
        BY <4>1, <4>2, LastIs
    <3>3. KnownAfter(k, p, x) = IF m.kind = "delete" THEN None ELSE m.config
      BY <1>1, <2>2, <3>1, <3>2 DEF KnownAfter
    <3>4. QED
      BY <1>5, <2>4, <3>3, PacketType DEF AfterIf, After, p
  <2>5. QED
    BY <2>3, <2>4
<1>6. QED
  BY <1>4, <1>5

\* A packet at the head of the queue is told first.
LEMMA KnownTail ==
    ASSUME SyncAssumption, NEW q \in Seq(Packets), q # << >>, NEW x, NEW k \in Known
    PROVE  KnownAfter(k, q, x) = KnownAfter(AfterIf(k, Head(q), x), Tail(q), x)
<1> DEFINE t == Tail(q)
           m == Head(q)
           r == AfterIf(k, m, x)
<1>1. PICK n \in Nat : Len(q) = n + 1
  <2>1. Len(q) \in Nat /\ Len(q) # 0
    OBVIOUS
  <2>2. Len(q) - 1 \in Nat /\ Len(q) = (Len(q) - 1) + 1
    BY <2>1
  <2>3. QED
    BY <2>2
<1>2. t \in Seq(Packets) /\ Len(t) = n
  BY <1>1
<1>3. DOMAIN q = 1..(n + 1) /\ DOMAIN t = 1..n
  BY <1>1, <1>2
<1>4. m = q[1] /\ \A i \in 1..n : t[i] = q[i + 1]
  BY <1>1, <1>2
<1>5. m \in Packets
  BY <1>1, <1>4
<1> HIDE DEF t, m, r
<1>6. /\ About(t, x) \in SUBSET (1..n) /\ Cuts(t, x) \subseteq About(t, x)
      /\ About(t, x) # {} => Max(About(t, x)) \in About(t, x) /\ \A j \in About(t, x) : j <= Max(About(t, x))
      /\ Cuts(t, x) # {} => Max(Cuts(t, x)) \in Cuts(t, x) /\ \A j \in Cuts(t, x) : j <= Max(Cuts(t, x))
  BY <1>2, LastPackets
<1>7. About(q, x) \in SUBSET (1..(n + 1)) /\ Cuts(q, x) \subseteq About(q, x)
  BY <1>1, LastPackets
<1>8. /\ \A i \in 1..n : i \in About(t, x) <=> i + 1 \in About(q, x)
      /\ \A i \in 1..n : i \in Cuts(t, x) <=> i + 1 \in Cuts(q, x)
  <2>1. \A i \in 1..n : i + 1 \in 1..(n + 1)
    OBVIOUS
  <2>2. \A i \in 1..n : i \in About(t, x) <=> i + 1 \in About(q, x)
    BY <1>3, <1>4, <2>1 DEF About
  <2>3. QED
    BY <1>4, <2>2, <1>6, <1>7 DEF Cuts
<1>9. \A i \in 1..(n + 1) : i = 1 \/ \E j \in 1..n : i = j + 1
  <2>1. SUFFICES ASSUME NEW i \in 1..(n + 1), i # 1 PROVE \E j \in 1..n : i = j + 1
    OBVIOUS
  <2>2. i - 1 \in 1..n /\ i = (i - 1) + 1
    BY <2>1
  <2>3. QED
    BY <2>2
<1>10. /\ 1 \in About(q, x) <=> Subject(m) = x
       /\ 1 \in Cuts(q, x) <=> Subject(m) = x /\ m.kind # "edit"
  <2>1. 1 \in 1..(n + 1)
    OBVIOUS
  <2>2. QED
    BY <1>3, <1>4, <2>1 DEF About, Cuts
<1>11. ASSUME NEW S \in SUBSET (1..(n + 1)), NEW T \in SUBSET (1..n), T # {}, Max(T) \in T,
              \A j \in T : j <= Max(T), \A i \in 1..n : i \in T <=> i + 1 \in S
       PROVE  Max(S) = Max(T) + 1
  <2>1. PICK top \in 1..n : top = Max(T)
    BY <1>11
  <2>2. top + 1 \in S
    BY <1>11, <2>1
  <2>3. ASSUME NEW i \in S
        PROVE  i <= top + 1
    <3>1. CASE i = 1
      BY <3>1
    <3>2. ASSUME NEW j \in 1..n, i = j + 1
          PROVE  i <= top + 1
      <4>1. j \in T
        BY <1>11, <3>2
      <4>2. j <= top
        BY <1>11, <2>1, <4>1
      <4>3. QED
        BY <3>2, <4>2
    <3>3. i \in 1..(n + 1)
      BY <1>11
    <3>4. QED
      BY <3>1, <3>2, <3>3, <1>9
  <2>4. Max(S) = top + 1
    <3>1. n + 1 \in Nat
      OBVIOUS
    <3>2. QED
      BY <2>2, <2>3, <3>1, LastIs
  <2>5. QED
    BY <2>1, <2>4
<1>12. About(t, x) # {} => Max(About(q, x)) = Max(About(t, x)) + 1 /\ q[Max(About(q, x))] = t[Max(About(t, x))]
  <2>1. SUFFICES ASSUME About(t, x) # {}
                 PROVE  Max(About(q, x)) = Max(About(t, x)) + 1 /\ q[Max(About(q, x))] = t[Max(About(t, x))]
    OBVIOUS
  <2>2. Max(About(q, x)) = Max(About(t, x)) + 1
    BY <2>1, <1>6, <1>7, <1>8, <1>11
  <2>3. Max(About(t, x)) \in 1..n
    BY <2>1, <1>6
  <2>4. QED
    BY <2>2, <2>3, <1>4
<1>13. Cuts(t, x) # {} => Max(Cuts(q, x)) = Max(Cuts(t, x)) + 1 /\ q[Max(Cuts(q, x))] = t[Max(Cuts(t, x))]
  <2>1. SUFFICES ASSUME Cuts(t, x) # {}
                 PROVE  Max(Cuts(q, x)) = Max(Cuts(t, x)) + 1 /\ q[Max(Cuts(q, x))] = t[Max(Cuts(t, x))]
    OBVIOUS
  <2>2. Cuts(t, x) \in SUBSET (1..n) /\ Cuts(q, x) \in SUBSET (1..(n + 1))
    BY <1>6, <1>7
  <2>3. Max(Cuts(q, x)) = Max(Cuts(t, x)) + 1
    BY <2>1, <2>2, <1>6, <1>8, <1>11
  <2>4. Max(Cuts(t, x)) \in 1..n
    BY <2>1, <2>2, <1>6
  <2>5. QED
    BY <2>3, <2>4, <1>4
<1>14. About(t, x) # {} => About(q, x) # {}
  BY <1>6, <1>8
<1>15. Cuts(t, x) # {} => Cuts(q, x) # {}
  BY <1>6, <1>8
<1>16. \A i \in Cuts(q, x) : i = 1 \/ Cuts(t, x) # {}
  <2>1. SUFFICES ASSUME NEW i \in Cuts(q, x), i # 1 PROVE Cuts(t, x) # {}
    OBVIOUS
  <2>2. i \in 1..(n + 1)
    BY <1>7
  <2>3. PICK j \in 1..n : i = j + 1
    BY <1>9, <2>1, <2>2
  <2>4. QED
    BY <1>8, <2>3
<1>17. \A i \in About(q, x) : i = 1 \/ About(t, x) # {}
  <2>1. SUFFICES ASSUME NEW i \in About(q, x), i # 1 PROVE About(t, x) # {}
    OBVIOUS
  <2>2. i \in 1..(n + 1)
    BY <1>7
  <2>3. PICK j \in 1..n : i = j + 1
    BY <1>9, <2>1, <2>2
  <2>4. QED
    BY <1>8, <2>3
<1>18. Max({1}) = 1
  <2>1. {1} \in SUBSET (1..1) /\ 1 \in Nat
    OBVIOUS
  <2>2. QED
    BY <2>1, LastIs
<1>19. m.kind \in {"spawn", "edit", "delete"} /\ (m.kind # "delete" => m.config # None)
  BY <1>5, PacketType DEF SyncAssumption
<1>20. CASE Cuts(t, x) # {}
  <2>1. About(t, x) # {} /\ Cuts(q, x) # {}
    BY <1>6, <1>15, <1>20
  <2>2. KnownAfter(k, q, x) = KnownAfter(r, t, x)
    BY <1>12, <1>13, <1>20, <2>1 DEF KnownAfter
  <2>3. QED
    BY <2>2 DEF t, m, r
<1>21. CASE Cuts(t, x) = {} /\ About(t, x) # {}
  <2>1. KnownAfter(r, t, x) = IF r = None THEN r ELSE t[Max(About(t, x))].config
    BY <1>21 DEF KnownAfter
  <2>2. CASE Subject(m) = x /\ m.kind # "edit"
    <3>1. Cuts(q, x) = {1}
      BY <1>10, <1>16, <1>21, <2>2
    <3>2. KnownAfter(k, q, x) = IF m.kind = "delete" THEN None ELSE t[Max(About(t, x))].config
      BY <1>4, <1>12, <1>18, <1>21, <3>1 DEF KnownAfter
    <3>3. r = None <=> m.kind = "delete"
      BY <1>19, <2>2 DEF r, AfterIf, After
    <3>4. KnownAfter(k, q, x) = KnownAfter(r, t, x)
      BY <2>1, <3>2, <3>3
    <3>5. QED
      BY <3>4 DEF t, m, r
  <2>3. CASE ~(Subject(m) = x /\ m.kind # "edit")
    <3>1. Cuts(q, x) = {}
      BY <1>10, <1>16, <1>21, <2>3
    <3>2. KnownAfter(k, q, x) = IF k = None THEN k ELSE t[Max(About(t, x))].config
      BY <1>12, <1>14, <1>21, <3>1 DEF KnownAfter
    <3>3. r = None <=> k = None
      BY <1>19, <2>3 DEF r, AfterIf, After
    <3>4. KnownAfter(k, q, x) = KnownAfter(r, t, x)
      BY <2>1, <3>2, <3>3
    <3>5. QED
      BY <3>4 DEF t, m, r
  <2>4. QED
    BY <2>2, <2>3
<1>22. CASE About(t, x) = {}
  <2>1. Cuts(t, x) = {} /\ KnownAfter(r, t, x) = r
    BY <1>6, <1>22, NothingAbout
  <2>2. CASE Subject(m) # x
    <3>1. About(q, x) = {}
      BY <1>10, <1>17, <1>22, <2>2
    <3>2. KnownAfter(k, q, x) = k /\ r = k
      BY <2>2, <3>1, NothingAbout DEF r, AfterIf
    <3>3. QED
      BY <2>1, <3>2 DEF t, m, r
  <2>3. CASE Subject(m) = x
    <3>1. About(q, x) = {1}
      BY <1>10, <1>17, <1>22, <2>3
    <3>2. CASE m.kind = "edit"
      <4>1. Cuts(q, x) = {}
        BY <1>10, <1>16, <2>1, <3>2
      <4>2. KnownAfter(k, q, x) = IF k = None THEN k ELSE m.config
        BY <1>4, <1>18, <3>1, <4>1 DEF KnownAfter
      <4>3. QED
        BY <2>1, <2>3, <3>2, <4>2 DEF AfterIf, After, t, m, r
    <3>3. CASE m.kind # "edit"
      <4>1. Cuts(q, x) = {1}
        BY <1>10, <1>16, <2>1, <2>3, <3>3
      <4>2. KnownAfter(k, q, x) = IF m.kind = "delete" THEN None ELSE m.config
        BY <1>4, <1>18, <3>1, <4>1 DEF KnownAfter
      <4>3. QED
        BY <1>19, <2>1, <2>3, <3>3, <4>2 DEF AfterIf, After, t, m, r
    <3>4. QED
      BY <3>2, <3>3
  <2>4. QED
    BY <2>2, <2>3
<1>23. QED
  BY <1>20, <1>21, <1>22 DEF t, m

-----------------------------------------------------------------------------
(* Vehicles.                                                               *)

\* An owner's vehicles are from vehicle IDs to configs.
LEMMA CarsType ==
    ASSUME NEW cars \in Garage
    PROVE  DOMAIN cars \subseteq Vids /\ \A v \in DOMAIN cars : cars[v] \in Configs
BY DEF Garage

\* So are all functions like that.
LEMMA CarsAre ==
    ASSUME NEW V \in SUBSET Vids, NEW cars \in [V -> Configs]
    PROVE  cars \in Garage
BY DEF Garage

\* An owner's vehicles with one more, or another config,
LEMMA WithType ==
    ASSUME NEW cars \in Garage, NEW v \in Vids, NEW c \in Configs
    PROVE  With(cars, v, c) \in Garage
<1>1. With(cars, v, c) \in [DOMAIN cars \cup {v} -> Configs] /\ DOMAIN cars \cup {v} \in SUBSET Vids
  BY CarsType DEF With
<1>2. QED
  BY <1>1, CarsAre

\* with one less,
LEMMA WithoutType ==
    ASSUME NEW cars \in Garage, NEW v
    PROVE  Without(cars, v) \in Garage
<1>1. Without(cars, v) \in [DOMAIN cars \ {v} -> Configs] /\ DOMAIN cars \ {v} \in SUBSET Vids
  BY CarsType DEF Without
<1>2. QED
  BY <1>1, CarsAre

\* and without any.
LEMMA EmptyCars ==
    /\ [v \in {} |-> None] \in Garage
    /\ DOMAIN [v \in {} |-> None] = {}
    /\ \A v : Value([w \in {} |-> None], v) = None
<1>1. {} \in SUBSET Vids /\ [v \in {} |-> None] \in [{} -> Configs]
  OBVIOUS
<1>2. QED
  BY <1>1, CarsAre DEF Value

\* An owner's vehicles after a packet was applied.
LEMMA ChangedType ==
    ASSUME NEW cars \in Garage, NEW m \in Packets
    PROVE  Changed(cars, m) \in Garage
BY PacketType, WithType, WithoutType DEF Changed

\* A vehicle has a config, or is not there.
LEMMA ValueType ==
    ASSUME NEW cars \in Garage, NEW v
    PROVE  Value(cars, v) \in Known
BY CarsType DEF Value, Known

\* A packet changes the vehicle it is about, and no other.
LEMMA ChangedValue ==
    ASSUME SyncAssumption, NEW cars \in Garage, NEW m \in Packets, NEW v
    PROVE  Value(Changed(cars, m), v) = IF v = m.vid THEN After(Value(cars, v), m) ELSE Value(cars, v)
<1>1. m.kind \in {"spawn", "edit", "delete"}
  BY PacketType
<1>2. v \in DOMAIN cars => cars[v] # None
  BY CarsType DEF SyncAssumption
<1>3. CASE m.kind = "spawn" \/ (m.kind = "edit" /\ m.vid \in DOMAIN cars)
  <2>1. Changed(cars, m) = With(cars, m.vid, m.config)
    BY <1>3 DEF Changed
  <2>2. Value(With(cars, m.vid, m.config), v) = IF v = m.vid THEN m.config ELSE Value(cars, v)
    BY DEF With, Value
  <2>3. QED
    BY <1>2, <1>3, <2>1, <2>2 DEF After, Value
<1>4. CASE m.kind = "delete"
  <2>1. Changed(cars, m) = Without(cars, m.vid)
    BY <1>4 DEF Changed
  <2>2. Value(Without(cars, m.vid), v) = IF v = m.vid THEN None ELSE Value(cars, v)
    BY DEF Without, Value
  <2>3. QED
    BY <1>4, <2>1, <2>2 DEF After
<1>5. CASE m.kind = "edit" /\ m.vid \notin DOMAIN cars
  BY <1>5 DEF Changed, After, Value
<1>6. QED
  BY <1>1, <1>3, <1>4, <1>5

\* A packet told to the owners' cars changes those of its owner.
LEMMA ToldType ==
    ASSUME NEW known \in [Owners -> Garage], NEW m \in Packets
    PROVE  /\ Told(known, m) \in [Owners -> Garage]
           /\ Told(known, m)[m.owner] = Changed(known[m.owner], m)
           /\ \A p \in Owners : p # m.owner => Told(known, m)[p] = known[p]
<1>1. m.owner \in Owners
  BY PacketType
<1>2. Changed(known[m.owner], m) \in Garage
  BY <1>1, ChangedType
<1>3. QED
  BY <1>1, <1>2 DEF Told

\* What a packet tells of a vehicle, in the joiner's view.
LEMMA ToldValue ==
    ASSUME SyncAssumption, NEW known \in [Owners -> Garage], NEW m \in Packets, NEW p \in Owners, NEW v
    PROVE  Value(Told(known, m)[p], v) = AfterIf(Value(known[p], v), m, <<p, v>>)
<1>1. CASE p = m.owner
  <2>1. Value(Told(known, m)[p], v) = IF v = m.vid THEN After(Value(known[p], v), m) ELSE Value(known[p], v)
    BY <1>1, ToldType, ChangedValue
  <2>2. Subject(m) = <<p, v>> <=> v = m.vid
    BY <1>1 DEF Subject
  <2>3. QED
    BY <2>1, <2>2 DEF AfterIf
<1>2. CASE p # m.owner
  <2>1. Subject(m) # <<p, v>>
    BY <1>2 DEF Subject
  <2>2. QED
    BY <1>2, <2>1, ToldType DEF AfterIf
<1>3. QED
  BY <1>1, <1>2

\* What the joiner knows of a vehicle is its data, or nothing.
LEMMA SnapshotType ==
    ASSUME SyncAssumption, CopiedOnce, batch \subseteq Packets, NEW o, view[o] \in Garage, NEW v
    PROVE  Snapshot(o, v) \in Known
<1>1. CASE \E m \in batch : Subject(m) = <<o, v>>
  <2> DEFINE m == CHOOSE m \in batch : Subject(m) = <<o, v>>
  <2>1. m \in batch
    BY <1>1
  <2>2. m \in Packets /\ m.kind = "spawn"
    BY <2>1 DEF CopiedOnce
  <2>3. m.config \in Known
    <3> HIDE DEF m
    <3>1. QED
      BY <2>2, PacketType DEF Known
  <2>4. QED
    BY <1>1, <2>3 DEF Snapshot
<1>2. CASE ~\E m \in batch : Subject(m) = <<o, v>>
  BY <1>2, ValueType DEF Snapshot
<1>3. QED
  BY <1>1, <1>2

-----------------------------------------------------------------------------
(* The first state.                                                        *)

\* Nobody has a vehicle, and the joiner knows of none.
LEMMA InvInit == ASSUME SyncAssumption, Init PROVE IndInv
<1>1. [v \in {} |-> None] \in Garage
  BY EmptyCars
<1>2. TypeOK
  <2>1. garage \in [Owners -> Garage] /\ view \in [Owners -> Garage]
    BY <1>1 DEF Init
  <2>2. /\ pc \in [Owners -> Steps] /\ packet \in [Owners -> Packets \cup {None}]
        /\ looked \in [Owners -> SUBSET Flags] /\ leaving \in [Owners -> SUBSET Vids]
        /\ syncPc \in SyncSteps /\ since \in [Owners -> SyncSteps]
        /\ toVisit \subseteq Owners /\ batch \subseteq Packets
        /\ half \subseteq Owners \X Vids /\ missed \subseteq Owners \X Vids
    BY DEF Init, Steps, SyncSteps
  <2>3. {mIsSyncing, mIsSynced, disconnected} \subseteq BOOLEAN
    BY DEF Init
  <2>4. mPacketsSync \in Seq(Packets) /\ Len(mPacketsSync) <= MaxQueue
    BY DEF Init, SyncAssumption
  <2>5. QED
    BY <2>1, <2>2, <2>3, <2>4 DEF TypeOK
<1>3. SyncInOrder
  BY DEF Init, SyncInOrder
<1>4. CopiedOnce
  BY EmptyCars DEF Init, CopiedOnce
<1>5. ASSUME NEW o \in Owners
      PROVE  OwnerInOrder(o)
  <2>1. pc[o] = "idle" /\ looked[o] = {} /\ since[o] = "joining" /\ half = {} /\ missed = {} /\ syncPc = "joining"
    BY DEF Init
  <2>2. PacketMatches(o)
    BY <2>1 DEF PacketMatches
  <2>3. LooksInOrder(o)
    BY <2>1 DEF LooksInOrder, Rank
  <2>4. NothingBeforeVisit(o)
    BY <2>1 DEF NothingBeforeVisit
  <2>5. QED
    BY <2>2, <2>3, <2>4 DEF OwnerInOrder
<1>6. ASSUME NEW o \in Owners, NEW v \in Vids
      PROVE  AddsUp(o, v)
  <2>1. Expected(o, v) = Value(garage[o], v)
    BY DEF Init, Expected, Leaving
  <2>2. Base(o, v) = Value(garage[o], v)
    BY DEF Init, Base, Visited
  <2>3. About(mPacketsSync, <<o, v>>) = {}
    BY DEF Init, About
  <2>4. QED
    BY <2>1, <2>2, <2>3, NothingAbout DEF AddsUp
<1>7. QED
  BY <1>2, <1>3, <1>4, <1>5, <1>6 DEF IndInv

-----------------------------------------------------------------------------
(* A step of an owner leaves the others alone.                             *)

OthersAlone(o) ==
    /\ \A p \in Owners \ {o} :
           /\ garage'[p] = garage[p] /\ pc'[p] = pc[p] /\ packet'[p] = packet[p]
           /\ looked'[p] = looked[p] /\ leaving'[p] = leaving[p] /\ since'[p] = since[p]
           /\ \A v \in Vids : /\ <<p, v>> \in half' <=> <<p, v>> \in half
                              /\ <<p, v>> \in missed' <=> <<p, v>> \in missed
    /\ UNCHANGED <<sync, disconnected, view>>
    /\ \/ mPacketsSync' = mPacketsSync
       \/ /\ syncPc # "joining"
          /\ packet[o] \in Packets /\ packet[o].owner = o
          /\ mPacketsSync' = Append(mPacketsSync, packet[o])

\* A packet about another vehicle leaves alone what the queue has about this
\* one.
LEMMA AppendedElse ==
    ASSUME NEW q \in Seq(Packets), NEW m \in Packets, NEW x, Subject(m) # x
    PROVE  About(Append(q, m), x) = About(q, x)
<1> DEFINE r == Append(q, m)
           n == Len(q)
<1>1. n \in Nat /\ DOMAIN q = 1..n /\ DOMAIN r = 1..(n + 1) /\ r[n + 1] = m /\ \A i \in 1..n : r[i] = q[i]
  OBVIOUS
<1> HIDE DEF r, n
<1>2. \A i \in 1..(n + 1) : i \in 1..n \/ i = n + 1
  BY <1>1
<1>3. \A i \in 1..n : i \in 1..(n + 1)
  BY <1>1
<1>4. About(r, x) = About(q, x)
  BY <1>1, <1>2, <1>3 DEF About
<1>5. QED
  BY <1>4 DEF r

\* A packet of another owner adds none of this one's.
LEMMA AppendedOwner ==
    ASSUME NEW q \in Seq(Packets), NEW m \in Packets, NEW p, p # m.owner, \A i \in DOMAIN q : q[i].owner # p
    PROVE  \A i \in DOMAIN Append(q, m) : Append(q, m)[i].owner # p
<1> DEFINE r == Append(q, m)
           n == Len(q)
<1>1. n \in Nat /\ DOMAIN q = 1..n /\ DOMAIN r = 1..(n + 1) /\ r[n + 1] = m /\ \A i \in 1..n : r[i] = q[i]
  OBVIOUS
<1> HIDE DEF r, n
<1>2. \A i \in 1..(n + 1) : i \in 1..n \/ i = n + 1
  BY <1>1
<1>3. \A i \in DOMAIN r : r[i].owner # p
  BY <1>1, <1>2
<1>4. QED
  BY <1>3 DEF r

\* A step of one owner leaves what holds of the others.
LEMMA OthersKeep ==
    ASSUME SyncAssumption, IndInv, NEW o \in Owners, OthersAlone(o), NEW p \in Owners, p # o
    PROVE  OwnerInOrder(p)' /\ (~disconnected => \A v \in Vids : AddsUp(p, v)')
<1>1. /\ garage'[p] = garage[p] /\ pc'[p] = pc[p] /\ packet'[p] = packet[p]
      /\ looked'[p] = looked[p] /\ leaving'[p] = leaving[p] /\ since'[p] = since[p]
      /\ \A v \in Vids : /\ <<p, v>> \in half' <=> <<p, v>> \in half
                         /\ <<p, v>> \in missed' <=> <<p, v>> \in missed
  BY DEF OthersAlone
<1>2. UNCHANGED <<syncPc, toVisit, batch, mIsSyncing, mIsSynced, disconnected, view>>
  BY DEF OthersAlone, sync
<1>3. mPacketsSync \in Seq(Packets) /\ OwnerInOrder(p) /\ garage[p] \in Garage /\ view[p] \in Garage /\ CopiedOnce
      /\ batch \subseteq Packets
  BY DEF IndInv, TypeOK
<1>4. /\ (\A i \in DOMAIN mPacketsSync : mPacketsSync[i].owner # p) =>
              \A i \in DOMAIN mPacketsSync' : mPacketsSync'[i].owner # p
      /\ \A v : About(mPacketsSync', <<p, v>>) = About(mPacketsSync, <<p, v>>)
  <2>1. CASE mPacketsSync' = mPacketsSync
    BY <2>1
  <2>2. CASE packet[o] \in Packets /\ packet[o].owner = o /\ mPacketsSync' = Append(mPacketsSync, packet[o])
    <3> DEFINE q == Append(mPacketsSync, packet[o])
    <3>1. /\ (\A i \in DOMAIN mPacketsSync : mPacketsSync[i].owner # p) => \A i \in DOMAIN q : q[i].owner # p
          /\ \A v : About(q, <<p, v>>) = About(mPacketsSync, <<p, v>>)
      <4>1. mPacketsSync \in Seq(Packets) /\ packet[o] \in Packets /\ p # packet[o].owner
        BY <1>3, <2>2
      <4>2. (\A i \in DOMAIN mPacketsSync : mPacketsSync[i].owner # p) => \A i \in DOMAIN q : q[i].owner # p
        BY <4>1, AppendedOwner
      <4>3. \A v : Subject(packet[o]) # <<p, v>>
        BY <2>2 DEF Subject
      <4>4. \A v : About(q, <<p, v>>) = About(mPacketsSync, <<p, v>>)
        BY <4>1, <4>3, AppendedElse
      <4>5. QED
        BY <4>2, <4>4
    <3>2. mPacketsSync' = q
      BY <2>2
    <3> HIDE DEF q
    <3>3. QED
      BY <3>1, <3>2
  <2>3. QED
    BY <2>1, <2>2 DEF OthersAlone
<1>5. PacketMatches(p)'
  BY <1>1, <1>3 DEF OwnerInOrder, PacketMatches, Broadcasting
<1>6. LooksInOrder(p)'
  BY <1>1, <1>2, <1>3 DEF OwnerInOrder, LooksInOrder
<1>7. NothingBeforeVisit(p)'
  BY <1>1, <1>2, <1>3, <1>4 DEF OwnerInOrder, NothingBeforeVisit
<1>8. ASSUME ~disconnected, NEW v \in Vids
      PROVE  AddsUp(p, v)'
  <2>1. Expected(p, v)' = Expected(p, v) /\ Spawning(p, v)' = Spawning(p, v)
    BY <1>1 DEF Expected, Leaving, Spawning
  <2>2. Base(p, v)' = Base(p, v)
    BY <1>1, <1>2 DEF Base, Visited, Snapshot
  <2>3. KnownAfter(Base(p, v), mPacketsSync', <<p, v>>) = KnownAfter(Base(p, v), mPacketsSync, <<p, v>>)
    <3>1. CASE mPacketsSync' = mPacketsSync
      BY <3>1
    <3>2. CASE packet[o] \in Packets /\ packet[o].owner = o /\ mPacketsSync' = Append(mPacketsSync, packet[o])
      <4>1. Base(p, v) \in Known
        BY <1>3, SnapshotType, ValueType DEF Base
      <4>2. Subject(packet[o]) # <<p, v>>
        BY <3>2 DEF Subject
      <4>3. QED
        BY <1>3, <3>2, <4>1, <4>2, KnownAppend DEF AfterIf
    <3>3. QED
      BY <3>1, <3>2 DEF OthersAlone
  <2>4. AddsUp(p, v)
    BY <1>8 DEF IndInv
  <2>5. QED
    BY <1>1, <2>1, <2>2, <2>3, <2>4 DEF AddsUp
<1>9. QED
  BY <1>5, <1>6, <1>7, <1>8 DEF OwnerInOrder

-----------------------------------------------------------------------------
(* A step of an owner keeps what is said of it.                            *)

OwnKept(o) == TypeOK /\ OwnerInOrder(o) /\ (~disconnected => \A v \in Vids : AddsUp(o, v))

\* What the invariant says of one owner.
LEMMA OwnFacts ==
    ASSUME IndInv, NEW o \in Owners
    PROVE  /\ TypeOK /\ SyncInOrder /\ CopiedOnce
           /\ PacketMatches(o) /\ LooksInOrder(o) /\ NothingBeforeVisit(o)
           /\ ~disconnected => \A v \in Vids : AddsUp(o, v)
           /\ garage[o] \in Garage /\ view[o] \in Garage /\ pc[o] \in Steps /\ looked[o] \in SUBSET Flags
           /\ leaving[o] \in SUBSET Vids /\ since[o] \in SyncSteps
BY DEF IndInv, OwnerInOrder, TypeOK

\* Where the joiner's knowledge and the owner's cars stay as they are, only what
\* is expected of a vehicle matters.
LEMMA SameExpected ==
    ASSUME NEW o, NEW v, AddsUp(o, v), garage'[o] = garage[o], UNCHANGED <<sync, view, mPacketsSync>>,
           (<<o, v>> \notin missed /\ ~Spawning(o, v))' =>
               <<o, v>> \notin missed /\ ~Spawning(o, v) /\ Expected(o, v)' = Expected(o, v)
    PROVE  AddsUp(o, v)'
<1>1. Base(o, v)' = Base(o, v)
  BY DEF sync, Base, Visited, Snapshot
<1>2. QED
  BY <1>1 DEF AddsUp

\* A change begins.
LEMMA StartKeeps ==
    ASSUME SyncAssumption, IndInv, NEW o \in Owners, NEW m \in Packets, m.owner = o, NEW step \in {"add", "broadcast"},
           step = "add" <=> m.kind = "spawn", Start(o, m, step)
    PROVE  OthersAlone(o) /\ OwnKept(o)'
<1>0. /\ TypeOK /\ PacketMatches(o) /\ LooksInOrder(o) /\ NothingBeforeVisit(o)
      /\ ~disconnected => \A v \in Vids : AddsUp(o, v)
  BY OwnFacts
<1>1. UNCHANGED <<garage, looked, leaving, sync, mPacketsSync, disconnected, view, half, missed>> /\ UNCHANGED syncPc
  BY DEF Start, sync
<1>2. pc[o] = "idle" /\ pc'[o] = step /\ packet'[o] = m /\ since'[o] = syncPc
  BY <1>0 DEF Start, Begin, Goto, TypeOK
<1>3. looked[o] = {} /\ \A v \in Vids : <<o, v>> \notin half
  BY <1>0, <1>2 DEF PacketMatches, Broadcasting
<1>4. OthersAlone(o)
  BY <1>0, <1>1 DEF OthersAlone, Start, Begin, Goto, TypeOK
<1>5. TypeOK'
  <2>1. pc' \in [Owners -> Steps] /\ packet' \in [Owners -> Packets \cup {None}] /\ since' \in [Owners -> SyncSteps]
    BY <1>0 DEF Start, Begin, Goto, TypeOK, Steps
  <2>2. QED
    BY <1>0, <1>1, <2>1 DEF TypeOK, sync
<1>6. PacketMatches(o)'
  BY <1>0, <1>1, <1>2, <1>3 DEF PacketMatches
<1>7. LooksInOrder(o)'
  <2>1. Rank(syncPc) <= Rank(syncPc)
    BY DEF Rank
  <2>2. QED
    BY <1>1, <1>2, <1>3, <2>1 DEF LooksInOrder, Rank
<1>8. NothingBeforeVisit(o)'
  BY <1>0, <1>1, <1>3 DEF NothingBeforeVisit, sync
<1>9. ASSUME ~disconnected, NEW v \in Vids
      PROVE  AddsUp(o, v)'
  <2>1. AddsUp(o, v)
    BY <1>0, <1>9
  <2>2. ~Spawning(o, v)
    BY <1>2 DEF Spawning
  <2>3. Expected(o, v) = Value(garage[o], v)
    BY <1>2, <1>3 DEF Expected, Leaving
  <2>4. Expected(o, v)' = Value(garage[o], v)
    BY <1>1, <1>2, <1>3 DEF Expected, Leaving
  <2>5. QED
    BY <1>1, <2>1, <2>2, <2>3, <2>4, SameExpected
<1>10. QED
  BY <1>1, <1>4, <1>5, <1>6, <1>7, <1>8, <1>9 DEF OwnKept, OwnerInOrder

\* A new vehicle gets on the list.
LEMMA AddKeeps ==
    ASSUME SyncAssumption, IndInv, NEW o \in Owners, AddNewCar(o)
    PROVE  OthersAlone(o) /\ OwnKept(o)'
<1>0. /\ TypeOK /\ PacketMatches(o) /\ LooksInOrder(o) /\ NothingBeforeVisit(o)
      /\ ~disconnected => \A v \in Vids : AddsUp(o, v)
      /\ garage[o] \in Garage
  BY OwnFacts
<1>1. UNCHANGED <<packet, looked, leaving, sync, mPacketsSync, disconnected, view, history>>
      /\ UNCHANGED <<syncPc, toVisit, batch, half, missed, since>>
  BY DEF AddNewCar, sync, history
<1>2. pc[o] = "add" /\ pc'[o] = "broadcast"
  BY <1>0 DEF AddNewCar, Goto, TypeOK
<1>3. packet[o] \in Packets /\ packet[o].owner = o /\ packet[o].kind = "spawn"
  BY <1>0, <1>2 DEF PacketMatches
<1>4. /\ garage' \in [Owners -> Garage] /\ garage'[o] = Changed(garage[o], packet[o])
      /\ \A p \in Owners : p # o => garage'[p] = garage[p]
  BY <1>0, <1>3, ToldType DEF AddNewCar, TypeOK
<1>5. \A v : Value(garage'[o], v) = IF v = packet[o].vid THEN packet[o].config ELSE Value(garage[o], v)
  BY <1>0, <1>3, <1>4, ChangedValue DEF After
<1>6. looked[o] = {} /\ \A v \in Vids : <<o, v>> \notin half
  BY <1>0, <1>2 DEF PacketMatches, Broadcasting
<1>7. OthersAlone(o)
  BY <1>0, <1>1, <1>4 DEF OthersAlone, AddNewCar, Goto, TypeOK, history
<1>8. TypeOK'
  <2>1. pc' \in [Owners -> Steps]
    BY <1>0 DEF AddNewCar, Goto, TypeOK, Steps
  <2>2. QED
    BY <1>0, <1>1, <1>4, <2>1 DEF TypeOK, sync, history
<1>9. PacketMatches(o)'
  BY <1>0, <1>1, <1>2, <1>3, <1>5, <1>6 DEF PacketMatches
<1>10. LooksInOrder(o)' /\ NothingBeforeVisit(o)'
  BY <1>0, <1>1, <1>6 DEF LooksInOrder, NothingBeforeVisit
<1>11. ASSUME ~disconnected, NEW v \in Vids
       PROVE  AddsUp(o, v)'
  <2>1. CASE v = packet[o].vid
    BY <1>1, <1>2, <1>3, <2>1 DEF AddsUp, Spawning
  <2>2. CASE v # packet[o].vid
    <3>1. AddsUp(o, v) /\ ~Spawning(o, v)
      BY <1>0, <1>2, <1>11 DEF Spawning
    <3>2. Expected(o, v) = Value(garage[o], v)
      BY <1>2, <1>6 DEF Expected, Leaving
    <3>3. Expected(o, v)' = Value(garage[o], v)
      BY <1>1, <1>2, <1>5, <1>6, <2>2 DEF Expected, Leaving
    <3>4. Base(o, v)' = Base(o, v)
      BY <1>1, <1>5, <2>2 DEF Base, Visited, Snapshot
    <3>5. QED
      BY <1>1, <3>1, <3>2, <3>3, <3>4 DEF AddsUp
  <2>3. QED
    BY <2>1, <2>2
<1>12. QED
  BY <1>1, <1>7, <1>8, <1>9, <1>10, <1>11 DEF OwnKept, OwnerInOrder

\* The vehicles of an owner that leaves are to be deleted one by one.
LEMMA DisconnectKeeps ==
    ASSUME SyncAssumption, IndInv, NEW o \in Owners, Disconnect(o)
    PROVE  OthersAlone(o) /\ OwnKept(o)'
<1>0. /\ TypeOK /\ PacketMatches(o) /\ LooksInOrder(o) /\ NothingBeforeVisit(o)
      /\ ~disconnected => \A v \in Vids : AddsUp(o, v)
      /\ garage[o] \in Garage
  BY OwnFacts
<1>1. UNCHANGED <<garage, packet, looked, sync, mPacketsSync, disconnected, view, half, missed>>
      /\ UNCHANGED <<syncPc, toVisit>>
  BY DEF Disconnect, sync
<1>2. pc[o] = "idle" /\ pc'[o] = "leave" /\ since'[o] = syncPc /\ leaving'[o] = DOMAIN garage[o]
  BY <1>0 DEF Disconnect, Begin, Goto, TypeOK
<1>3. looked[o] = {} /\ \A v \in Vids : <<o, v>> \notin half
  BY <1>0, <1>2 DEF PacketMatches, Broadcasting
<1>4. OthersAlone(o)
  BY <1>0, <1>1 DEF OthersAlone, Disconnect, Begin, Goto, TypeOK
<1>5. TypeOK'
  <2>1. DOMAIN garage[o] \in SUBSET Vids
    BY <1>0, CarsType
  <2>2. pc' \in [Owners -> Steps] /\ leaving' \in [Owners -> SUBSET Vids] /\ since' \in [Owners -> SyncSteps]
    BY <1>0, <2>1 DEF Disconnect, Begin, Goto, TypeOK, Steps
  <2>3. QED
    BY <1>0, <1>1, <2>2 DEF TypeOK, sync
<1>6. PacketMatches(o)'
  BY <1>0, <1>1, <1>2, <1>3 DEF PacketMatches
<1>7. LooksInOrder(o)'
  <2>1. Rank(syncPc) <= Rank(syncPc)
    BY DEF Rank
  <2>2. QED
    BY <1>1, <1>2, <1>3, <2>1 DEF LooksInOrder, Rank
<1>8. NothingBeforeVisit(o)'
  BY <1>0, <1>1, <1>3 DEF NothingBeforeVisit
<1>9. ASSUME ~disconnected, NEW v \in Vids
      PROVE  AddsUp(o, v)'
  <2>1. AddsUp(o, v)
    BY <1>0, <1>9
  <2>2. ~Spawning(o, v)
    BY <1>2 DEF Spawning
  <2>3. Expected(o, v) = Value(garage[o], v)
    BY <1>2, <1>3 DEF Expected, Leaving
  <2>4. Expected(o, v)' = Value(garage[o], v)
    BY <1>1, <1>2, <1>3 DEF Expected, Leaving, Value
  <2>5. QED
    BY <1>1, <2>1, <2>2, <2>3, <2>4, SameExpected
<1>10. QED
  BY <1>1, <1>4, <1>5, <1>6, <1>7, <1>8, <1>9 DEF OwnKept, OwnerInOrder

\* A leaving owner turns to one of the vehicles left.
LEMMA LeaveOneKeeps ==
    ASSUME SyncAssumption, IndInv, NEW o \in Owners, NEW w \in Vids, LeaveOne(o, w)
    PROVE  OthersAlone(o) /\ OwnKept(o)'
<1>0. /\ TypeOK /\ PacketMatches(o) /\ LooksInOrder(o) /\ NothingBeforeVisit(o)
      /\ ~disconnected => \A v \in Vids : AddsUp(o, v)
  BY OwnFacts
<1>1. UNCHANGED <<garage, looked, sync, mPacketsSync, disconnected, view, history>>
      /\ UNCHANGED <<syncPc, toVisit, half, missed, since>>
  BY DEF LeaveOne, sync, history
<1>2. /\ pc[o] = "leave" /\ w \in leaving[o]
      /\ pc'[o] = "leaveBroadcast" /\ leaving'[o] = leaving[o] \ {w} /\ packet'[o] = Deleted(o, w)
  BY <1>0 DEF LeaveOne, Goto, TypeOK
<1>3. looked[o] = {}
  BY <1>0, <1>2 DEF PacketMatches, Broadcasting
<1>4. Deleted(o, w) \in Packets /\ Deleted(o, w).owner = o /\ Deleted(o, w).kind = "delete" /\ Deleted(o, w).vid = w
  BY DEF Deleted, Packets
<1>5. OthersAlone(o)
  BY <1>0, <1>1 DEF OthersAlone, LeaveOne, Goto, TypeOK, history
<1>6. TypeOK'
  <2>1. pc' \in [Owners -> Steps] /\ leaving' \in [Owners -> SUBSET Vids]
        /\ packet' \in [Owners -> Packets \cup {None}]
    BY <1>0, <1>4 DEF LeaveOne, Goto, TypeOK, Steps
  <2>2. QED
    BY <1>0, <1>1, <2>1 DEF TypeOK, sync, history
<1>7. PacketMatches(o)'
  BY <1>0, <1>1, <1>2, <1>3, <1>4 DEF PacketMatches
<1>8. LooksInOrder(o)' /\ NothingBeforeVisit(o)'
  BY <1>0, <1>1, <1>3 DEF LooksInOrder, NothingBeforeVisit
<1>9. ASSUME ~disconnected, NEW v \in Vids
      PROVE  AddsUp(o, v)'
  <2>1. AddsUp(o, v) /\ ~Spawning(o, v)
    BY <1>0, <1>2, <1>9 DEF Spawning
  <2>2. Leaving(o, v)' <=> Leaving(o, v)
    BY <1>2, <1>4 DEF Leaving
  <2>3. Expected(o, v)' = Expected(o, v)
    BY <1>1, <1>2, <2>2 DEF Expected
  <2>4. QED
    BY <1>1, <2>1, <2>3, SameExpected
<1>10. QED
  BY <1>1, <1>5, <1>6, <1>7, <1>8, <1>9 DEF OwnKept, OwnerInOrder

\* The joiner's queue has room for one more packet.
LEMMA QueueGrows ==
    ASSUME TypeOK, NEW m \in Packets, Len(mPacketsSync) < MaxQueue, SyncAssumption
    PROVE  Append(mPacketsSync, m) \in Seq(Packets) /\ Len(Append(mPacketsSync, m)) <= MaxQueue
<1>1. mPacketsSync \in Seq(Packets) /\ MaxQueue \in Nat
  BY DEF TypeOK, SyncAssumption
<1>2. Len(Append(mPacketsSync, m)) = Len(mPacketsSync) + 1 /\ Append(mPacketsSync, m) \in Seq(Packets)
      /\ Len(mPacketsSync) \in Nat
  BY <1>1
<1>3. QED
  BY <1>1, <1>2

\* An owner whose vehicles are still to be copied may set out before the sync
\* or while it is running.
LEMMA Unvisited ==
    ASSUME IndInv, NEW o \in toVisit, ~disconnected
    PROVE  syncPc \in {"joining", "snapshot"} /\ ~mIsSynced
BY DEF IndInv, TypeOK, SyncInOrder, SyncSteps

\* The end of a broadcast: what the owner does next.
EndsAs(o) ==
    \/ /\ pc[o] = "leaveBroadcast" /\ packet[o].kind = "delete"
       /\ pc'[o] = "leave" /\ packet'[o] = None /\ since'[o] = since[o]
    \/ /\ pc[o] = "broadcast" /\ packet[o].kind = "spawn"
       /\ pc'[o] = "idle" /\ packet'[o] = None /\ since'[o] = "joining"
    \/ /\ pc[o] = "broadcast" /\ packet[o].kind # "spawn"
       /\ pc'[o] = "apply" /\ packet'[o] = packet[o] /\ since'[o] = since[o]

\* Where a broadcast that ends leaves its owner.
LEMMA EndBroadcastFacts ==
    ASSUME IndInv, NEW o \in Owners, Broadcasting(o), EndBroadcast(o)
    PROVE  /\ packet[o] \in Packets /\ packet[o].owner = o /\ packet[o].vid \in Vids
           /\ looked'[o] = {} /\ looked' \in [Owners -> SUBSET Flags]
           /\ pc' \in [Owners -> Steps] /\ packet' \in [Owners -> Packets \cup {None}]
           /\ since' \in [Owners -> SyncSteps]
           /\ \A p \in Owners \ {o} : /\ pc'[p] = pc[p] /\ packet'[p] = packet[p]
                                      /\ looked'[p] = looked[p] /\ since'[p] = since[p]
           /\ EndsAs(o)
<1>0. TypeOK /\ PacketMatches(o)
  BY OwnFacts
<1>1. packet[o] \in Packets /\ packet[o].owner = o /\ packet[o].vid \in Vids
  BY <1>0, PacketType DEF Broadcasting, PacketMatches
<1>2. /\ looked'[o] = {} /\ looked' \in [Owners -> SUBSET Flags]
      /\ \A p \in Owners \ {o} : looked'[p] = looked[p]
  BY <1>0 DEF EndBroadcast, TypeOK
<1>3. CASE pc[o] = "leaveBroadcast" /\ Goto(o, "leave") /\ packet' = [packet EXCEPT ![o] = None] /\ UNCHANGED since
  <2>1. packet[o].kind = "delete"
    BY <1>0, <1>3 DEF PacketMatches
  <2>2. /\ pc' \in [Owners -> Steps] /\ packet' \in [Owners -> Packets \cup {None}]
        /\ since' \in [Owners -> SyncSteps]
    BY <1>0, <1>3 DEF TypeOK, Goto, Steps
  <2>3. /\ \A p \in Owners \ {o} : pc'[p] = pc[p] /\ packet'[p] = packet[p] /\ since'[p] = since[p]
        /\ pc'[o] = "leave" /\ packet'[o] = None /\ since'[o] = since[o]
    BY <1>0, <1>3 DEF TypeOK, Goto
  <2>4. QED
    BY <1>1, <1>2, <1>3, <2>1, <2>2, <2>3 DEF EndsAs
<1>4. CASE pc[o] = "broadcast" /\ packet[o].kind = "spawn" /\ Idle(o)
  <2>1. /\ pc' \in [Owners -> Steps] /\ packet' \in [Owners -> Packets \cup {None}]
        /\ since' \in [Owners -> SyncSteps]
    BY <1>0, <1>4 DEF TypeOK, Idle, End, Goto, Steps, SyncSteps
  <2>2. /\ \A p \in Owners \ {o} : pc'[p] = pc[p] /\ packet'[p] = packet[p] /\ since'[p] = since[p]
        /\ pc'[o] = "idle" /\ packet'[o] = None /\ since'[o] = "joining"
    BY <1>0, <1>4 DEF TypeOK, Idle, End, Goto
  <2>3. QED
    BY <1>1, <1>2, <1>4, <2>1, <2>2 DEF EndsAs
<1>5. CASE pc[o] = "broadcast" /\ packet[o].kind # "spawn" /\ Goto(o, "apply") /\ UNCHANGED <<packet, since>>
  <2>1. /\ pc' \in [Owners -> Steps] /\ packet' \in [Owners -> Packets \cup {None}]
        /\ since' \in [Owners -> SyncSteps]
    BY <1>0, <1>5 DEF TypeOK, Goto, Steps
  <2>2. /\ \A p \in Owners \ {o} : pc'[p] = pc[p] /\ packet'[p] = packet[p] /\ since'[p] = since[p]
        /\ pc'[o] = "apply" /\ packet'[o] = packet[o] /\ since'[o] = since[o]
    BY <1>0, <1>5 DEF TypeOK, Goto
  <2>3. QED
    BY <1>1, <1>2, <1>5, <2>1, <2>2 DEF EndsAs
<1>6. QED
  BY <1>3, <1>4, <1>5 DEF EndBroadcast

\* One of the joiner's flags is found false.
LEMMA LookedFalseKeeps ==
    ASSUME SyncAssumption, IndInv, NEW o \in Owners, NEW f \in Flags, LookedFalse(o, f)
    PROVE  OthersAlone(o) /\ OwnKept(o)'
<1>0. /\ TypeOK /\ SyncInOrder /\ PacketMatches(o) /\ LooksInOrder(o) /\ NothingBeforeVisit(o)
      /\ ~disconnected => \A v \in Vids : AddsUp(o, v)
  BY OwnFacts
<1>1. UNCHANGED <<garage, pc, packet, leaving, sync, mPacketsSync, disconnected, view, history>>
      /\ UNCHANGED <<syncPc, toVisit, half, missed, since>>
  BY DEF LookedFalse, sync, history
<1>2. Broadcasting(o) /\ looked'[o] = looked[o] \cup {f} /\ ~Flag(f)
  BY <1>0 DEF LookedFalse, TypeOK
<1>3. OthersAlone(o)
  BY <1>0, <1>1 DEF OthersAlone, LookedFalse, TypeOK, history
<1>4. TypeOK'
  <2>1. looked' \in [Owners -> SUBSET Flags]
    BY <1>0 DEF LookedFalse, TypeOK
  <2>2. QED
    BY <1>0, <1>1, <2>1 DEF TypeOK, sync, history
<1>5. PacketMatches(o)'
  BY <1>0, <1>1, <1>2 DEF PacketMatches, Broadcasting
<1>6. f = "syncing" => syncPc # "snapshot" /\ (syncPc \in {"joining", "snapshot"} => mPacketsSync = << >>)
  BY <1>0, <1>2 DEF Flag, SyncInOrder
<1>7. f = "synced" /\ since[o] = "done" => disconnected
  <2>1. SUFFICES ASSUME f = "synced", since[o] = "done" PROVE disconnected
    OBVIOUS
  <2>2. syncPc = "done"
    BY <1>0, <2>1 DEF LooksInOrder, Rank, TypeOK, SyncSteps
  <2>3. QED
    BY <1>0, <1>2, <2>1, <2>2 DEF Flag, SyncInOrder
<1>8. LooksInOrder(o)'
  BY <1>0, <1>1, <1>2, <1>6, <1>7 DEF LooksInOrder
<1>9. NothingBeforeVisit(o)'
  <2>1. (syncPc \in {"joining", "snapshot"} /\ "syncing" \in looked[o])' =>
            \A i \in DOMAIN mPacketsSync : mPacketsSync[i].owner # o
    <3>1. CASE "syncing" \in looked[o]
      BY <1>0, <1>1, <3>1 DEF NothingBeforeVisit
    <3>2. CASE "syncing" \notin looked[o]
      BY <1>1, <1>2, <1>6, <3>2
    <3>3. QED
      BY <3>1, <3>2
  <2>2. QED
    BY <1>0, <1>1, <2>1 DEF NothingBeforeVisit
<1>10. ASSUME ~disconnected, NEW v \in Vids
       PROVE  AddsUp(o, v)'
  <2>1. AddsUp(o, v) /\ Expected(o, v)' = Expected(o, v) /\ (Spawning(o, v)' <=> Spawning(o, v))
    BY <1>0, <1>1, <1>10 DEF Expected, Leaving, Spawning
  <2>2. QED
    BY <1>1, <2>1, SameExpected
<1>11. QED
  BY <1>1, <1>3, <1>4, <1>5, <1>8, <1>9, <1>10 DEF OwnKept, OwnerInOrder

\* An owner that passes the joiner over has looked at both flags.  With its
\* snapshot still to come it has nothing in the queue; with the snapshot taken
\* the sync was begun or ended meanwhile.
LEMMA PassedOverWhen ==
    ASSUME IndInv, NEW o \in Owners, NEW f \in Flags, PassedOver(o, f), ~disconnected
    PROVE  /\ o \in toVisit => \A v : About(mPacketsSync, <<o, v>>) = {}
           /\ since[o] = syncPc => syncPc \notin {"snapshot", "done"}
<1>0. /\ TypeOK /\ SyncInOrder /\ PacketMatches(o) /\ LooksInOrder(o) /\ NothingBeforeVisit(o)
  BY OwnFacts
<1>1. looked[o] \cup {f} = {"synced", "syncing"} /\ ~Flag(f)
  BY DEF PassedOver, Flags
<1>2. "syncing" \in looked[o] \/ ~mIsSyncing
  BY <1>1 DEF Flag
<1>3. "synced" \in looked[o] \/ ~mIsSynced
  BY <1>1 DEF Flag
<1>4. ASSUME o \in toVisit, NEW v
      PROVE  About(mPacketsSync, <<o, v>>) = {}
  <2>1. syncPc \in {"joining", "snapshot"}
    BY <1>4, Unvisited
  <2>2. CASE syncPc = "joining"
    BY <1>0, <2>2 DEF SyncInOrder, About
  <2>3. CASE syncPc = "snapshot"
    <3>1. "syncing" \in looked[o]
      BY <1>0, <1>2, <2>3 DEF SyncInOrder
    <3>2. \A i \in DOMAIN mPacketsSync : mPacketsSync[i].owner # o
      BY <1>0, <2>3, <3>1 DEF NothingBeforeVisit
    <3>3. QED
      BY <3>2 DEF About, Subject
  <2>4. QED
    BY <2>1, <2>2, <2>3
<1>5. ASSUME since[o] = syncPc, syncPc = "snapshot"
      PROVE  FALSE
  BY <1>0, <1>2, <1>5 DEF SyncInOrder, LooksInOrder
<1>6. ASSUME since[o] = syncPc, syncPc = "done"
      PROVE  FALSE
  BY <1>0, <1>3, <1>6 DEF SyncInOrder, LooksInOrder
<1>7. QED
  BY <1>4, <1>5, <1>6

\* A flag that is found false lets the packet pass the joiner by, once both
\* are.
LEMMA PassedOverKeeps ==
    ASSUME SyncAssumption, IndInv, NEW o \in Owners, NEW f \in Flags, PassedOver(o, f)
    PROVE  OthersAlone(o) /\ OwnKept(o)'
<1> DEFINE m == packet[o]
<1>0. /\ TypeOK /\ SyncInOrder /\ PacketMatches(o) /\ LooksInOrder(o) /\ NothingBeforeVisit(o)
      /\ ~disconnected => \A v \in Vids : AddsUp(o, v)
      /\ garage[o] \in Garage
  BY OwnFacts
<1>1. UNCHANGED <<garage, leaving, sync, mPacketsSync, disconnected, view>>
      /\ UNCHANGED <<syncPc, toVisit>>
  BY DEF PassedOver, sync
<1>2. /\ m \in Packets /\ m.owner = o /\ m.vid \in Vids
      /\ looked'[o] = {} /\ looked' \in [Owners -> SUBSET Flags]
      /\ pc' \in [Owners -> Steps] /\ packet' \in [Owners -> Packets \cup {None}]
      /\ since' \in [Owners -> SyncSteps]
      /\ \A p \in Owners \ {o} : /\ pc'[p] = pc[p] /\ packet'[p] = packet[p]
                                 /\ looked'[p] = looked[p] /\ since'[p] = since[p]
      /\ EndsAs(o)
  BY EndBroadcastFacts DEF PassedOver
<1>3. Subject(m) = <<o, m.vid>> /\ \A p, v : Subject(m) = <<p, v>> <=> p = o /\ v = m.vid
  BY <1>2 DEF Subject
<1>4. /\ m.kind = "spawn" => half' = half /\ missed' = IF Visited(o) THEN missed \cup {<<o, m.vid>>} ELSE missed
      /\ m.kind # "spawn" => half' = half \cup {<<o, m.vid>>} /\ missed' = missed
  BY <1>3 DEF PassedOver
<1> HIDE DEF m
<1>5. ~disconnected => /\ o \in toVisit => \A v : About(mPacketsSync, <<o, v>>) = {}
                       /\ since[o] = syncPc => syncPc \notin {"snapshot", "done"}
  BY PassedOverWhen
<1>6. pc[o] = "broadcast" => \A v \in Vids : <<o, v>> \notin half
  BY <1>0 DEF PacketMatches
<1>7. OthersAlone(o)
  <2>1. \A p \in Owners \ {o}, v \in Vids : /\ <<p, v>> \in half' <=> <<p, v>> \in half
                                            /\ <<p, v>> \in missed' <=> <<p, v>> \in missed
    BY <1>4
  <2>2. QED
    BY <1>1, <1>2, <2>1 DEF OthersAlone
<1>8. TypeOK'
  <2>1. half' \subseteq Owners \X Vids /\ missed' \subseteq Owners \X Vids
    BY <1>0, <1>2, <1>4 DEF TypeOK
  <2>2. QED
    BY <1>0, <1>1, <1>2, <2>1 DEF TypeOK, sync
<1>9. CASE pc[o] = "leaveBroadcast"
  <2>1. m.kind = "delete" /\ pc'[o] = "leave" /\ since'[o] = since[o]
    BY <1>2, <1>9 DEF EndsAs, m
  <2>2. half' = half \cup {<<o, m.vid>>} /\ missed' = missed
    BY <1>4, <2>1
  <2>3. PacketMatches(o)'
    BY <1>2, <2>1 DEF PacketMatches
  <2>4. LooksInOrder(o)'
    BY <1>0, <1>1, <1>2, <1>5, <2>1, <2>2 DEF LooksInOrder
  <2>5. NothingBeforeVisit(o)'
    BY <1>0, <1>1, <1>2, <1>5, <2>1, <2>2 DEF NothingBeforeVisit
  <2>6. ASSUME ~disconnected, NEW v \in Vids
        PROVE  AddsUp(o, v)'
    <3>1. AddsUp(o, v) /\ ~Spawning(o, v)
      BY <1>0, <1>9, <2>6 DEF Spawning
    <3>2. CASE v = m.vid
      <4>1. Expected(o, v)' = Value(garage[o], v)
        BY <1>1, <2>2, <3>2 DEF Expected
      <4>2. Expected(o, v) = Value(garage[o], v)
        BY <1>9, <3>2 DEF Expected, Leaving, m
      <4>3. QED
        BY <1>1, <2>2, <3>1, <4>1, <4>2, SameExpected
    <3>3. CASE v # m.vid
      <4>1. Leaving(o, v)' <=> Leaving(o, v)
        BY <1>1, <1>9, <2>1, <3>3 DEF Leaving, m
      <4>2. <<o, v>> \in half' <=> <<o, v>> \in half
        BY <2>2, <3>3
      <4>3. Expected(o, v)' = Expected(o, v)
        BY <1>1, <1>9, <2>1, <4>1, <4>2 DEF Expected
      <4>4. QED
        BY <1>1, <2>2, <3>1, <4>3, SameExpected
    <3>4. QED
      BY <3>2, <3>3
  <2>7. QED
    BY <1>1, <1>7, <1>8, <2>3, <2>4, <2>5, <2>6 DEF OwnKept, OwnerInOrder
<1>10. CASE pc[o] = "broadcast" /\ m.kind # "spawn"
  <2>1. pc'[o] = "apply" /\ packet'[o] = m /\ since'[o] = since[o]
    BY <1>2, <1>10 DEF EndsAs, m
  <2>2. half' = half \cup {<<o, m.vid>>} /\ missed' = missed
    BY <1>4, <1>10
  <2>3. PacketMatches(o)'
    BY <1>2, <1>6, <1>10, <2>1, <2>2 DEF PacketMatches
  <2>4. LooksInOrder(o)'
    BY <1>0, <1>1, <1>2, <1>5, <2>1, <2>2 DEF LooksInOrder
  <2>5. NothingBeforeVisit(o)'
    BY <1>0, <1>1, <1>2, <1>5, <2>1, <2>2 DEF NothingBeforeVisit
  <2>6. ASSUME ~disconnected, NEW v \in Vids
        PROVE  AddsUp(o, v)'
    <3>1. AddsUp(o, v) /\ ~Spawning(o, v)
      BY <1>0, <1>10, <2>6 DEF Spawning, m
    <3>2. Expected(o, v)' = Value(garage[o], v)
      BY <1>1, <1>6, <1>10, <2>1, <2>2 DEF Expected, Leaving
    <3>3. Expected(o, v) = Value(garage[o], v)
      BY <1>6, <1>10 DEF Expected, Leaving
    <3>4. QED
      BY <1>1, <2>2, <3>1, <3>2, <3>3, SameExpected
  <2>7. QED
    BY <1>1, <1>7, <1>8, <2>3, <2>4, <2>5, <2>6 DEF OwnKept, OwnerInOrder
<1>11. CASE pc[o] = "broadcast" /\ m.kind = "spawn"
  <2>1. pc'[o] = "idle" /\ since'[o] = "joining"
    BY <1>2, <1>11 DEF EndsAs, m
  <2>2. half' = half /\ missed' = IF Visited(o) THEN missed \cup {<<o, m.vid>>} ELSE missed
    BY <1>4, <1>11
  <2>3. PacketMatches(o)'
    BY <1>2, <1>6, <1>11, <2>1, <2>2 DEF PacketMatches
  <2>4. LooksInOrder(o)'
    BY <1>0, <1>1, <1>2, <1>6, <1>11, <2>1, <2>2 DEF LooksInOrder, Rank, TypeOK, SyncSteps
  <2>5. NothingBeforeVisit(o)'
    BY <1>0, <1>1, <1>2, <2>2 DEF NothingBeforeVisit, Visited
  <2>6. ASSUME ~disconnected, NEW v \in Vids
        PROVE  AddsUp(o, v)'
    <3>1. Expected(o, v)' = Value(garage[o], v)
      BY <1>1, <1>6, <1>11, <2>1, <2>2 DEF Expected, Leaving
    <3>2. CASE o \in toVisit
      <4>1. About(mPacketsSync, <<o, v>>) = {}
        BY <1>5, <2>6, <3>2
      <4>2. Base(o, v)' = Value(garage[o], v)
        BY <1>1, <3>2 DEF Base, Visited
      <4>3. QED
        BY <1>1, <3>1, <4>1, <4>2, NothingAbout DEF AddsUp
    <3>3. CASE o \notin toVisit /\ v # m.vid
      <4>1. AddsUp(o, v) /\ ~Spawning(o, v)
        BY <1>0, <2>6, <3>3 DEF Spawning, m
      <4>2. Expected(o, v) = Value(garage[o], v)
        BY <1>6, <1>11 DEF Expected, Leaving
      <4>3. <<o, v>> \in missed' <=> <<o, v>> \in missed
        BY <2>2, <3>3
      <4>4. QED
        BY <1>1, <3>1, <4>1, <4>2, <4>3, SameExpected
    <3>4. CASE o \notin toVisit /\ v = m.vid
      BY <2>2, <3>4 DEF AddsUp, Visited
    <3>5. QED
      BY <3>2, <3>3, <3>4
  <2>7. QED
    BY <1>1, <1>7, <1>8, <2>3, <2>4, <2>5, <2>6 DEF OwnKept, OwnerInOrder
<1>12. QED
  BY <1>9, <1>10, <1>11 DEF PassedOver, Broadcasting

\* A packet is queued.
LEMMA LookedTrueKeeps ==
    ASSUME SyncAssumption, IndInv, NEW o \in Owners, NEW f \in Flags, LookedTrue(o, f)
    PROVE  OthersAlone(o) /\ OwnKept(o)'
<1> DEFINE m == packet[o]
<1>0. /\ TypeOK /\ SyncInOrder /\ CopiedOnce /\ PacketMatches(o) /\ LooksInOrder(o) /\ NothingBeforeVisit(o)
      /\ ~disconnected => \A v \in Vids : AddsUp(o, v)
      /\ garage[o] \in Garage /\ view[o] \in Garage
      /\ mPacketsSync \in Seq(Packets) /\ batch \subseteq Packets
  BY OwnFacts DEF TypeOK
<1>1. UNCHANGED <<garage, leaving, sync, disconnected, view>> /\ UNCHANGED <<syncPc, toVisit, batch>>
  BY DEF LookedTrue, sync
<1>2. /\ m \in Packets /\ m.owner = o /\ m.vid \in Vids
      /\ looked'[o] = {} /\ looked' \in [Owners -> SUBSET Flags]
      /\ pc' \in [Owners -> Steps] /\ packet' \in [Owners -> Packets \cup {None}]
      /\ since' \in [Owners -> SyncSteps]
      /\ \A p \in Owners \ {o} : /\ pc'[p] = pc[p] /\ packet'[p] = packet[p]
                                 /\ looked'[p] = looked[p] /\ since'[p] = since[p]
      /\ EndsAs(o)
  BY EndBroadcastFacts DEF LookedTrue
<1>3. Subject(m) = <<o, m.vid>> /\ \A p, v : Subject(m) = <<p, v>> <=> p = o /\ v = m.vid
  BY <1>2 DEF Subject
<1>4. /\ mPacketsSync' = Append(mPacketsSync, m)
      /\ half' = half \ {<<o, m.vid>>}
      /\ missed' = IF m.kind = "edit" THEN missed ELSE missed \ {<<o, m.vid>>}
  BY <1>3 DEF LookedTrue
<1>5. syncPc # "joining"
  BY <1>0 DEF LookedTrue, Flag, SyncInOrder
<1>6. mPacketsSync' \in Seq(Packets) /\ Len(mPacketsSync') <= MaxQueue
  BY <1>0, <1>2, <1>4, QueueGrows DEF LookedTrue
<1>7. OthersAlone(o)
  <2>1. \A p \in Owners \ {o}, v \in Vids : /\ <<p, v>> \in half' <=> <<p, v>> \in half
                                            /\ <<p, v>> \in missed' <=> <<p, v>> \in missed
    BY <1>4
  <2>2. QED
    BY <1>1, <1>2, <1>4, <1>5, <2>1 DEF OthersAlone
<1> HIDE DEF m
<1>8. TypeOK'
  <2>1. half' \subseteq Owners \X Vids /\ missed' \subseteq Owners \X Vids
    BY <1>0, <1>4 DEF TypeOK
  <2>2. QED
    BY <1>0, <1>1, <1>2, <1>6, <2>1 DEF TypeOK, sync
<1>9. \A v \in Vids : pc[o] = "broadcast" => <<o, v>> \notin half
  BY <1>0 DEF PacketMatches
<1>10. \A v \in Vids : <<o, v>> \in half' => pc'[o] = "leave" /\ since'[o] = since[o] /\ v # m.vid
  BY <1>2, <1>4, <1>9 DEF EndsAs
<1>11. PacketMatches(o)'
  BY <1>2, <1>10 DEF PacketMatches, EndsAs, m
<1>12. LooksInOrder(o)'
  <2>1. Rank(since'[o]) <= Rank(syncPc)
    BY <1>0, <1>2 DEF LooksInOrder, EndsAs, Rank, TypeOK, SyncSteps
  <2>2. QED
    BY <1>0, <1>1, <1>2, <1>4, <1>10, <2>1 DEF LooksInOrder
<1>13. NothingBeforeVisit(o)'
  <2>1. ASSUME o \in toVisit, ~disconnected, NEW v \in Vids, <<o, v>> \in half'
        PROVE  About(mPacketsSync', <<o, v>>) = {}
    <3>1. About(mPacketsSync, <<o, v>>) = {}
      BY <1>0, <1>4, <2>1 DEF NothingBeforeVisit
    <3>2. Subject(m) # <<o, v>>
      BY <1>3, <1>10, <2>1
    <3>3. QED
      BY <1>0, <1>2, <1>4, <3>1, <3>2, AppendedElse
  <2>2. QED
    BY <1>0, <1>1, <1>2, <1>4, <2>1 DEF NothingBeforeVisit
<1>14. ASSUME ~disconnected, NEW v \in Vids
       PROVE  AddsUp(o, v)'
  <2> DEFINE known == KnownAfter(Base(o, v), mPacketsSync, <<o, v>>)
  <2>1. Base(o, v)' = Base(o, v) /\ Base(o, v) \in Known
    <3>1. Base(o, v)' = Base(o, v)
      BY <1>1 DEF Base, Visited, Snapshot
    <3>2. Base(o, v) \in Known
      BY <1>0, SnapshotType, ValueType DEF Base
    <3>3. QED
      BY <3>1, <3>2
  <2>2. KnownAfter(Base(o, v)', mPacketsSync', <<o, v>>) = IF v = m.vid THEN After(known, m) ELSE known
    <3>1. KnownAfter(Base(o, v)', mPacketsSync', <<o, v>>) = AfterIf(known, m, <<o, v>>)
      BY <1>0, <1>2, <1>4, <2>1, KnownAppend
    <3>2. Subject(m) = <<o, v>> <=> v = m.vid
      BY <1>3
    <3>3. QED
      BY <3>1, <3>2 DEF AfterIf
  <2>3. AddsUp(o, v)
    BY <1>0, <1>14
  <2> HIDE DEF known
  <2>4. CASE v # m.vid
    <3>1. Spawning(o, v)' <=> FALSE
      BY <1>2 DEF Spawning, EndsAs
    <3>2. ~Spawning(o, v)
      BY <2>4 DEF Spawning, m
    <3>3. Expected(o, v)' = Expected(o, v)
      <4>1. <<o, v>> \in half' <=> <<o, v>> \in half
        BY <1>4, <2>4
      <4>2. CASE pc[o] = "leaveBroadcast"
        <5>1. pc'[o] = "leave"
          BY <1>2, <4>2 DEF EndsAs
        <5>2. Leaving(o, v)' <=> Leaving(o, v)
          BY <1>1, <2>4, <4>2, <5>1 DEF Leaving, m
        <5>3. QED
          BY <1>1, <4>1, <4>2, <5>1, <5>2 DEF Expected
      <4>3. CASE pc[o] = "broadcast"
        <5>1. pc'[o] = "idle" \/ (pc'[o] = "apply" /\ packet'[o] = m)
          BY <1>2, <4>3 DEF EndsAs, m
        <5>2. Expected(o, v)' = Value(garage[o], v)
          BY <1>1, <2>4, <5>1 DEF Expected, Leaving
        <5>3. Expected(o, v) = Value(garage[o], v)
          BY <4>3 DEF Expected, Leaving
        <5>4. QED
          BY <5>2, <5>3
      <4>4. QED
        BY <4>2, <4>3 DEF LookedTrue, Broadcasting
    <3>4. <<o, v>> \in missed' <=> <<o, v>> \in missed
      BY <1>4, <2>4
    <3>5. QED
      BY <2>2, <2>3, <2>4, <3>2, <3>3, <3>4 DEF AddsUp, known
  <2>5. CASE v = m.vid /\ pc[o] = "broadcast" /\ m.kind = "spawn"
    <3>1. Expected(o, v)' = Value(garage[o], v)
      BY <1>1, <1>2, <2>5 DEF Expected, Leaving, EndsAs, m
    <3>2. Value(garage[o], v) = m.config
      BY <1>0, <2>5 DEF PacketMatches, m
    <3>3. QED
      BY <2>2, <2>5, <3>1, <3>2 DEF AddsUp, After
  <2>6. CASE v = m.vid /\ pc[o] = "broadcast" /\ m.kind # "spawn"
    <3>1. pc'[o] = "apply" /\ packet'[o] = m /\ <<o, v>> \notin half'
      BY <1>2, <1>4, <2>6 DEF EndsAs, m
    <3>2. Expected(o, v)' = Value(Changed(garage[o], m), v)
      BY <1>1, <2>6, <3>1 DEF Expected
    <3>3. Expected(o, v)' = After(Value(garage[o], v), m)
      BY <1>0, <1>2, <2>6, <3>2, ChangedValue
    <3>4. CASE m.kind = "delete"
      BY <2>2, <2>6, <3>3, <3>4 DEF AddsUp, After
    <3>5. CASE m.kind = "edit"
      <4>1. ~Spawning(o, v)
        BY <2>6 DEF Spawning, m
      <4>2. Expected(o, v) = Value(garage[o], v)
        BY <2>6 DEF Expected, Leaving
      <4>3. <<o, v>> \notin missed' => known = Value(garage[o], v)
        BY <1>4, <2>3, <3>5, <4>1, <4>2 DEF AddsUp, known
      <4>4. QED
        BY <2>2, <2>6, <3>3, <4>3 DEF AddsUp
    <3>6. QED
      BY <1>2, <2>6, <3>4, <3>5, PacketType
  <2>7. CASE v = m.vid /\ pc[o] = "leaveBroadcast"
    <3>1. m.kind = "delete" /\ pc'[o] = "leave" /\ <<o, v>> \notin half' /\ v \notin leaving[o]
      BY <1>0, <1>2, <1>4, <2>7 DEF EndsAs, PacketMatches, m
    <3>2. Leaving(o, v)'
      BY <1>1, <3>1 DEF Leaving
    <3>3. Expected(o, v)' = None
      BY <3>1, <3>2 DEF Expected
    <3>4. QED
      BY <2>2, <2>7, <3>1, <3>3 DEF AddsUp, After
  <2>8. QED
    BY <2>4, <2>5, <2>6, <2>7 DEF LookedTrue, Broadcasting
<1>15. QED
  BY <1>1, <1>7, <1>8, <1>11, <1>12, <1>13, <1>14 DEF OwnKept, OwnerInOrder

\* A change that was broadcast first is applied.
LEMMA ApplyKeeps ==
    ASSUME SyncAssumption, IndInv, NEW o \in Owners, Apply(o)
    PROVE  OthersAlone(o) /\ OwnKept(o)'
<1> DEFINE m == packet[o]
<1>0. /\ TypeOK /\ PacketMatches(o) /\ LooksInOrder(o) /\ NothingBeforeVisit(o)
      /\ ~disconnected => \A v \in Vids : AddsUp(o, v)
      /\ garage[o] \in Garage /\ mPacketsSync \in Seq(Packets)
  BY OwnFacts DEF TypeOK
<1>1. UNCHANGED <<looked, leaving, sync, mPacketsSync, disconnected, view>> /\ UNCHANGED <<syncPc, toVisit, batch>>
  BY DEF Apply, sync
<1>2. /\ pc[o] = "apply" /\ pc'[o] = "idle" /\ since'[o] = "joining"
      /\ pc' \in [Owners -> Steps] /\ packet' \in [Owners -> Packets \cup {None}] /\ since' \in [Owners -> SyncSteps]
      /\ \A p \in Owners \ {o} : pc'[p] = pc[p] /\ packet'[p] = packet[p] /\ since'[p] = since[p]
  BY <1>0 DEF Apply, Idle, End, Goto, TypeOK, Steps, SyncSteps
<1>3. m \in Packets /\ m.owner = o /\ m.vid \in Vids /\ m.kind # "spawn" /\ Subject(m) = <<o, m.vid>>
  BY <1>0, <1>2, PacketType DEF PacketMatches, Subject
<1>4. /\ garage' \in [Owners -> Garage] /\ garage'[o] = Changed(garage[o], m)
      /\ \A p \in Owners : p # o => garage'[p] = garage[p]
  BY <1>0, <1>3, ToldType DEF Apply, TypeOK
<1>5. /\ half' = half \ {<<o, m.vid>>}
      /\ missed' = IF Visited(o) /\ garage' # garage THEN missed \cup (half \cap {<<o, m.vid>>}) ELSE missed
  BY <1>3 DEF Apply
<1> HIDE DEF m
<1>6. \A v \in Vids : <<o, v>> \in half => v = m.vid
  BY <1>0, <1>2 DEF PacketMatches, m
<1>7. \A v \in Vids : <<o, v>> \notin half'
  BY <1>5, <1>6
<1>8. looked[o] = {} /\ looked'[o] = {}
  BY <1>0, <1>1, <1>2 DEF PacketMatches, Broadcasting
<1>9. OthersAlone(o)
  <2>1. \A p \in Owners \ {o}, v \in Vids : /\ <<p, v>> \in half' <=> <<p, v>> \in half
                                            /\ <<p, v>> \in missed' <=> <<p, v>> \in missed
    BY <1>5
  <2>2. QED
    BY <1>1, <1>2, <1>4, <2>1 DEF OthersAlone
<1>10. TypeOK'
  <2>1. half' \subseteq Owners \X Vids /\ missed' \subseteq Owners \X Vids
    BY <1>0, <1>5 DEF TypeOK
  <2>2. QED
    BY <1>0, <1>1, <1>2, <1>4, <2>1 DEF TypeOK, sync
<1>11. PacketMatches(o)'
  BY <1>2, <1>7, <1>8 DEF PacketMatches
<1>12. LooksInOrder(o)'
  <2>1. Rank("joining") <= Rank(syncPc)
    BY DEF Rank
  <2>2. QED
    BY <1>1, <1>2, <1>7, <1>8, <2>1 DEF LooksInOrder
<1>13. NothingBeforeVisit(o)'
  BY <1>0, <1>1, <1>5, <1>7, <1>8 DEF NothingBeforeVisit, Visited
<1>14. ASSUME ~disconnected, NEW v \in Vids
       PROVE  AddsUp(o, v)'
  <2>1. AddsUp(o, v) /\ ~Spawning(o, v)
    BY <1>0, <1>2, <1>14 DEF Spawning
  <2>2. Expected(o, v)' = Value(garage'[o], v)
    BY <1>2, <1>7 DEF Expected, Leaving
  <2>3. Value(garage'[o], v) = IF v = m.vid THEN After(Value(garage[o], v), m) ELSE Value(garage[o], v)
    BY <1>0, <1>3, <1>4, ChangedValue
  <2>4. o \notin toVisit => Base(o, v)' = Base(o, v)
    BY <1>1 DEF Base, Visited, Snapshot
  <2>5. o \in toVisit => Base(o, v)' = Value(garage'[o], v) /\ Base(o, v) = Value(garage[o], v)
    BY <1>1 DEF Base, Visited
  <2>6. <<o, v>> \notin missed' => <<o, v>> \notin missed
    BY <1>5
  <2>7. CASE v # m.vid
    <3>1. Expected(o, v) = Value(garage[o], v)
      BY <1>2, <1>6, <2>7 DEF Expected, Leaving, m
    <3>2. Base(o, v)' = Base(o, v)
      BY <2>3, <2>4, <2>5, <2>7
    <3>3. QED
      BY <1>1, <2>1, <2>2, <2>3, <2>6, <2>7, <3>1, <3>2 DEF AddsUp
  <2>8. CASE v = m.vid /\ <<o, v>> \notin half
    <3>1. Expected(o, v) = Value(garage'[o], v)
      BY <1>2, <1>4, <2>8 DEF Expected, m
    <3>2. CASE o \notin toVisit
      BY <1>1, <2>1, <2>2, <2>4, <2>6, <3>1, <3>2 DEF AddsUp
    <3>3. CASE o \in toVisit
      <4>1. Value(garage[o], v) \in Known
        BY <1>0, ValueType
      <4>2. KnownAfter(KnownAfter(Value(garage[o], v), mPacketsSync, <<o, v>>), mPacketsSync, <<o, v>>)
                = KnownAfter(Value(garage[o], v), mPacketsSync, <<o, v>>)
        BY <1>0, <4>1, ToldTwice
      <4>3. <<o, v>> \notin missed => Value(garage'[o], v) = KnownAfter(Value(garage[o], v), mPacketsSync, <<o, v>>)
        BY <2>1, <2>5, <3>1, <3>3 DEF AddsUp
      <4>4. <<o, v>> \notin missed => Value(garage'[o], v) = KnownAfter(Value(garage'[o], v), mPacketsSync, <<o, v>>)
        BY <4>2, <4>3
      <4>5. QED
        BY <1>1, <2>2, <2>5, <2>6, <3>3, <4>4 DEF AddsUp
    <3>4. QED
      BY <3>2, <3>3
  <2>9. CASE v = m.vid /\ <<o, v>> \in half /\ o \in toVisit
    <3>1. About(mPacketsSync, <<o, v>>) = {}
      BY <1>0, <1>14, <2>9 DEF NothingBeforeVisit
    <3>2. QED
      BY <1>1, <2>2, <2>5, <2>9, <3>1, NothingAbout DEF AddsUp
  <2>10. CASE v = m.vid /\ <<o, v>> \in half /\ o \notin toVisit
    <3>1. CASE garage' = garage
      <4>1. Expected(o, v) = Value(garage'[o], v)
        BY <2>10, <3>1 DEF Expected
      <4>2. QED
        BY <1>1, <2>1, <2>2, <2>4, <2>6, <2>10, <4>1 DEF AddsUp
    <3>2. CASE garage' # garage
      <4>1. <<o, v>> \in missed'
        BY <1>5, <2>10, <3>2 DEF Visited
      <4>2. QED
        BY <4>1 DEF AddsUp
    <3>3. QED
      BY <3>1, <3>2
  <2>11. QED
    BY <2>7, <2>8, <2>9, <2>10
<1>15. QED
  BY <1>1, <1>9, <1>10, <1>11, <1>12, <1>13, <1>14 DEF OwnKept, OwnerInOrder

\* The vehicles of an owner that has left are gone.
LEMMA ClearKeeps ==
    ASSUME SyncAssumption, IndInv, NEW o \in Owners, ClearCars(o)
    PROVE  OthersAlone(o) /\ OwnKept(o)'
<1> DEFINE own == {x \in half : x[1] = o}
<1>0. /\ TypeOK /\ PacketMatches(o) /\ LooksInOrder(o) /\ NothingBeforeVisit(o)
      /\ ~disconnected => \A v \in Vids : AddsUp(o, v)
      /\ garage[o] \in Garage /\ mPacketsSync \in Seq(Packets)
  BY OwnFacts DEF TypeOK
<1>1. UNCHANGED <<packet, looked, leaving, sync, mPacketsSync, disconnected, view>>
      /\ UNCHANGED <<syncPc, toVisit, batch>>
  BY DEF ClearCars, sync
<1>2. /\ pc[o] = "leave" /\ leaving[o] = {} /\ pc'[o] = "gone" /\ since'[o] = "joining"
      /\ pc' \in [Owners -> Steps] /\ since' \in [Owners -> SyncSteps]
      /\ \A p \in Owners \ {o} : pc'[p] = pc[p] /\ since'[p] = since[p]
  BY <1>0 DEF ClearCars, End, Goto, TypeOK, Steps, SyncSteps
<1>3. /\ garage' \in [Owners -> Garage] /\ \A v : Value(garage'[o], v) = None
      /\ \A p \in Owners : p # o => garage'[p] = garage[p]
  <2>1. garage' = [garage EXCEPT ![o] = [v \in {} |-> None]]
    BY DEF ClearCars
  <2>2. garage' \in [Owners -> Garage] /\ garage'[o] = [v \in {} |-> None]
        /\ \A p \in Owners : p # o => garage'[p] = garage[p]
    BY <1>0, <2>1, EmptyCars DEF TypeOK
  <2>3. QED
    BY <2>2, EmptyCars
<1>4. half' = half \ own /\ missed' = IF Visited(o) THEN missed \cup own ELSE missed
  BY DEF ClearCars
<1>5. \A p, v : <<p, v>> \in own <=> <<p, v>> \in half /\ p = o
  OBVIOUS
<1>6. own \subseteq half
  OBVIOUS
<1> HIDE DEF own
<1>7. \A v \in Vids : <<o, v>> \notin half'
  BY <1>4, <1>5
<1>8. looked[o] = {} /\ looked'[o] = {}
  BY <1>0, <1>1, <1>2 DEF PacketMatches, Broadcasting
<1>9. OthersAlone(o)
  <2>1. \A p \in Owners \ {o}, v \in Vids : /\ <<p, v>> \in half' <=> <<p, v>> \in half
                                            /\ <<p, v>> \in missed' <=> <<p, v>> \in missed
    BY <1>4, <1>5
  <2>2. QED
    BY <1>1, <1>2, <1>3, <2>1 DEF OthersAlone
<1>10. TypeOK'
  <2>1. half' \subseteq Owners \X Vids /\ missed' \subseteq Owners \X Vids
    BY <1>0, <1>4, <1>6 DEF TypeOK
  <2>2. QED
    BY <1>0, <1>1, <1>2, <1>3, <2>1 DEF TypeOK, sync
<1>11. PacketMatches(o)'
  BY <1>2, <1>7, <1>8 DEF PacketMatches
<1>12. LooksInOrder(o)'
  <2>1. Rank("joining") <= Rank(syncPc)
    BY DEF Rank
  <2>2. QED
    BY <1>1, <1>2, <1>7, <1>8, <2>1 DEF LooksInOrder
<1>13. NothingBeforeVisit(o)'
  BY <1>0, <1>1, <1>4, <1>7, <1>8 DEF NothingBeforeVisit, Visited
<1>14. ASSUME ~disconnected, NEW v \in Vids
       PROVE  AddsUp(o, v)'
  <2>1. AddsUp(o, v) /\ ~Spawning(o, v)
    BY <1>0, <1>2, <1>14 DEF Spawning
  <2>2. Expected(o, v)' = None
    BY <1>2, <1>3, <1>7 DEF Expected, Leaving
  <2>3. <<o, v>> \notin half => Expected(o, v) = None
    BY <1>2 DEF Expected, Leaving
  <2>4. CASE o \notin toVisit /\ <<o, v>> \in half
    BY <1>4, <1>5, <2>4 DEF AddsUp, Visited
  <2>5. CASE o \notin toVisit /\ <<o, v>> \notin half
    <3>1. Base(o, v)' = Base(o, v)
      BY <1>1, <2>5 DEF Base, Visited, Snapshot
    <3>2. <<o, v>> \notin missed' => <<o, v>> \notin missed
      BY <1>4
    <3>3. QED
      BY <1>1, <2>1, <2>2, <2>3, <2>5, <3>1, <3>2 DEF AddsUp
  <2>6. CASE o \in toVisit
    <3>1. Base(o, v)' = None /\ Base(o, v) = Value(garage[o], v)
      BY <1>1, <1>3, <2>6 DEF Base, Visited
    <3>2. CASE <<o, v>> \in half
      <4>1. About(mPacketsSync, <<o, v>>) = {}
        BY <1>0, <1>14, <2>6, <3>2 DEF NothingBeforeVisit
      <4>2. QED
        BY <1>1, <2>2, <3>1, <4>1, NothingAbout DEF AddsUp
    <3>3. CASE <<o, v>> \notin half
      <4>1. <<o, v>> \notin missed
        BY <1>0, <2>6 DEF NothingBeforeVisit
      <4>2. KnownAfter(Value(garage[o], v), mPacketsSync, <<o, v>>) = None
        BY <2>1, <2>3, <3>1, <3>3, <4>1 DEF AddsUp
      <4>3. Value(garage[o], v) \in Known
        BY <1>0, ValueType
      <4>4. KnownAfter(KnownAfter(Value(garage[o], v), mPacketsSync, <<o, v>>), mPacketsSync, <<o, v>>)
                = KnownAfter(Value(garage[o], v), mPacketsSync, <<o, v>>)
        BY <1>0, <4>3, ToldTwice
      <4>5. KnownAfter(None, mPacketsSync, <<o, v>>) = None
        BY <4>2, <4>4
      <4>6. QED
        BY <1>1, <2>2, <3>1, <4>5 DEF AddsUp
    <3>4. QED
      BY <3>2, <3>3
  <2>7. QED
    BY <2>4, <2>5, <2>6
<1>15. QED
  BY <1>1, <1>9, <1>10, <1>11, <1>12, <1>13, <1>14 DEF OwnKept, OwnerInOrder

\* Every step of an owner keeps what holds of it, and of the others.
LEMMA OwnerKeeps ==
    ASSUME SyncAssumption, IndInv, NEW o \in Owners, OwnerStep(o)
    PROVE  OthersAlone(o) /\ OwnKept(o)'
<1>1. ASSUME NEW v \in Vids, Delete(o, v)
      PROVE  OthersAlone(o) /\ OwnKept(o)'
  <2>1. Deleted(o, v) \in Packets /\ Deleted(o, v).owner = o /\ Deleted(o, v).kind = "delete"
    BY DEF Deleted, Packets
  <2>2. QED
    BY <1>1, <2>1, StartKeeps DEF Delete
<1>2. ASSUME NEW v \in Vids, LeaveOne(o, v)
      PROVE  OthersAlone(o) /\ OwnKept(o)'
  BY <1>2, LeaveOneKeeps
<1>3. ASSUME NEW v \in Vids, NEW c \in Configs, Spawn(o, v, c)
      PROVE  OthersAlone(o) /\ OwnKept(o)'
  <2>1. Spawned(o, v, c) \in Packets /\ Spawned(o, v, c).owner = o /\ Spawned(o, v, c).kind = "spawn"
    BY DEF Spawned, Packets
  <2>2. QED
    BY <1>3, <2>1, StartKeeps DEF Spawn
<1>4. ASSUME NEW v \in Vids, NEW c \in Configs, Edit(o, v, c)
      PROVE  OthersAlone(o) /\ OwnKept(o)'
  <2>1. Edited(o, v, c) \in Packets /\ Edited(o, v, c).owner = o /\ Edited(o, v, c).kind = "edit"
    BY DEF Edited, Packets
  <2>2. QED
    BY <1>4, <2>1, StartKeeps DEF Edit
<1>5. ASSUME NEW f \in Flags, LookedFalse(o, f) \/ PassedOver(o, f) \/ LookedTrue(o, f)
      PROVE  OthersAlone(o) /\ OwnKept(o)'
  BY <1>5, LookedFalseKeeps, PassedOverKeeps, LookedTrueKeeps
<1>6. QED
  BY <1>1, <1>2, <1>3, <1>4, <1>5, AddKeeps, DisconnectKeeps, ClearKeeps, ApplyKeeps DEF OwnerStep

\* So it keeps the invariant.
LEMMA OwnerStepKeeps ==
    ASSUME SyncAssumption, IndInv, NEW o \in Owners, OwnerStep(o)
    PROVE  IndInv'
<1>1. OthersAlone(o) /\ OwnKept(o)'
  BY OwnerKeeps
<1>2. \A p \in Owners : OwnerInOrder(p)' /\ (~disconnected => \A v \in Vids : AddsUp(p, v)')
  <2>1. SUFFICES ASSUME NEW p \in Owners
                 PROVE  OwnerInOrder(p)' /\ (~disconnected => \A v \in Vids : AddsUp(p, v)')
    OBVIOUS
  <2>2. CASE p = o
    BY <1>1, <2>2 DEF OwnKept, OthersAlone
  <2>3. CASE p # o
    BY <1>1, <2>3, OthersKeep
  <2>4. QED
    BY <2>2, <2>3
<1>3. UNCHANGED <<syncPc, toVisit, batch, mIsSyncing, mIsSynced, disconnected, view>>
  BY <1>1 DEF OthersAlone, sync
<1>4. SyncInOrder'
  BY <1>1, <1>3 DEF OthersAlone, IndInv, SyncInOrder
<1>5. CopiedOnce'
  BY <1>3 DEF IndInv, CopiedOnce
<1>6. TypeOK'
  BY <1>1 DEF OwnKept
<1>7. QED
  BY <1>2, <1>3, <1>4, <1>5, <1>6 DEF IndInv

-----------------------------------------------------------------------------
(* The joiner's threads.                                                   *)

\* A step of the joiner's that owners do not see leaves their part.
LEMMA OwnersStill ==
    ASSUME UNCHANGED <<owners, history>>, NEW o
    PROVE  /\ PacketMatches(o) => PacketMatches(o)'
           /\ UNCHANGED <<garage, pc, packet, looked, leaving, half, missed, since>>
           /\ \A v : Expected(o, v)' = Expected(o, v) /\ (Spawning(o, v)' <=> Spawning(o, v))
<1>1. UNCHANGED <<garage, pc, packet, looked, leaving, half, missed, since>>
  BY DEF owners, history
<1>2. QED
  BY <1>1 DEF PacketMatches, Broadcasting, Expected, Leaving, Spawning

\* The steps that only move the joiner's thread and set its flags.
FlagStep == StartSync \/ SyncAborted \/ SnapshotDone \/ SetNotSyncing \/ SetSynced

\* The stores of the two flags keep the invariant.
LEMMA FlagsKeep ==
    ASSUME SyncAssumption, IndInv, FlagStep
    PROVE  IndInv'
<1>0. TypeOK /\ SyncInOrder /\ CopiedOnce
  BY DEF IndInv
<1>1. UNCHANGED <<owners, history>> /\ UNCHANGED <<toVisit, batch, mPacketsSync, disconnected, view>>
  BY DEF FlagStep, StartSync, SyncAborted, SnapshotDone, SetNotSyncing, SetSynced
<1>2. UNCHANGED <<garage, pc, packet, looked, leaving, half, missed, since>>
  BY <1>1 DEF owners, history
<1>3. TypeOK'
  <2>1. syncPc' \in SyncSteps /\ mIsSyncing' \in BOOLEAN /\ mIsSynced' \in BOOLEAN
    BY <1>0 DEF FlagStep, StartSync, SyncAborted, SnapshotDone, SetNotSyncing, SetSynced, SyncSteps, TypeOK
  <2>2. QED
    BY <1>0, <1>1, <1>2, <2>1 DEF TypeOK
<1>4. SyncInOrder'
  BY <1>0 DEF FlagStep, StartSync, SyncAborted, SnapshotDone, SetNotSyncing, SetSynced, SyncInOrder, TypeOK, SyncSteps
<1>5. CopiedOnce'
  BY <1>0, <1>1 DEF CopiedOnce
<1>6. /\ Rank(syncPc) <= Rank(syncPc') /\ Rank(syncPc) \in Nat /\ Rank(syncPc') \in Nat
      /\ syncPc' = "snapshot" => Rank(syncPc) = 0 \/ syncPc = "snapshot"
      /\ syncPc' \in {"joining", "snapshot"} => syncPc \in {"joining", "snapshot"}
      /\ syncPc' = "snapshot" => syncPc = "joining"
      /\ syncPc' = "done" /\ ~disconnected => syncPc = "ending"
  BY <1>0 DEF FlagStep, StartSync, SyncAborted, SnapshotDone, SetNotSyncing, SetSynced, Rank, SyncInOrder
<1>7. ASSUME NEW o \in Owners
      PROVE  OwnerInOrder(o)'
  <2>0. PacketMatches(o) /\ LooksInOrder(o) /\ NothingBeforeVisit(o) /\ since[o] \in SyncSteps
    BY OwnFacts
  <2>1. PacketMatches(o)'
    BY <1>1, <2>0, OwnersStill
  <2>2. Rank(since[o]) <= Rank(syncPc')
    <3>1. Rank(since[o]) \in Nat
      BY DEF Rank
    <3>2. QED
      BY <1>6, <2>0, <3>1 DEF LooksInOrder
  <2>3. syncPc' = "snapshot" => since[o] = "joining"
    BY <1>6, <2>0 DEF LooksInOrder, Rank, SyncSteps
  <2>4. syncPc' = "done" /\ ~disconnected => since[o] # "done"
    BY <1>6, <2>0 DEF LooksInOrder, Rank, SyncSteps
  <2>5. LooksInOrder(o)'
    BY <1>1, <1>2, <2>0, <2>2, <2>3, <2>4 DEF LooksInOrder
  <2>6. NothingBeforeVisit(o)'
    BY <1>1, <1>2, <1>6, <2>0 DEF NothingBeforeVisit
  <2>7. QED
    BY <2>1, <2>5, <2>6 DEF OwnerInOrder
<1>8. ASSUME ~disconnected, NEW o \in Owners, NEW v \in Vids
      PROVE  AddsUp(o, v)'
  <2>1. AddsUp(o, v)
    BY <1>8 DEF IndInv
  <2>2. Base(o, v)' = Base(o, v)
    BY <1>1, <1>2 DEF Base, Visited, Snapshot
  <2>3. Expected(o, v)' = Expected(o, v) /\ (Spawning(o, v)' <=> Spawning(o, v))
    BY <1>1, OwnersStill
  <2>4. QED
    BY <1>1, <1>2, <2>1, <2>2, <2>3 DEF AddsUp
<1>9. QED
  BY <1>1, <1>3, <1>4, <1>5, <1>7, <1>8 DEF IndInv

\* A step of the joiner's threads that does not move the sync on.
LEMMA OrderKept ==
    ASSUME IndInv, UNCHANGED <<owners, history, syncPc, disconnected>>, toVisit' \subseteq toVisit,
           NEW o \in Owners,
           ~disconnected /\ (syncPc \in {"joining", "snapshot"} \/ toVisit # {}) => mPacketsSync' = mPacketsSync,
           syncPc \in {"joining", "snapshot"} => mPacketsSync' = mPacketsSync
    PROVE  OwnerInOrder(o)'
<1>0. PacketMatches(o) /\ LooksInOrder(o) /\ NothingBeforeVisit(o)
  BY OwnFacts
<1>1. UNCHANGED <<garage, pc, packet, looked, leaving, half, missed, since>>
  BY DEF owners, history
<1>2. PacketMatches(o)'
  BY <1>0, OwnersStill
<1>3. LooksInOrder(o)'
  BY <1>0, <1>1 DEF LooksInOrder
<1>4. NothingBeforeVisit(o)'
  BY <1>0, <1>1 DEF NothingBeforeVisit
<1>5. QED
  BY <1>2, <1>3, <1>4 DEF OwnerInOrder

\* The vehicles of one more owner are copied.
LEMMA VisitKeeps ==
    ASSUME SyncAssumption, IndInv, NEW w \in Owners, Visit(w)
    PROVE  IndInv'
<1>0. TypeOK /\ SyncInOrder /\ CopiedOnce /\ garage[w] \in Garage
  BY OwnFacts
<1>1. /\ UNCHANGED <<owners, history>>
      /\ UNCHANGED <<syncPc, mIsSyncing, mIsSynced, mPacketsSync, disconnected, view>>
      /\ syncPc = "snapshot" /\ batch = {} /\ w \in toVisit /\ toVisit' = toVisit \ {w}
      /\ batch' = {Spawned(w, v, garage[w][v]) : v \in DOMAIN garage[w]}
  BY DEF Visit
<1>2. UNCHANGED <<garage, pc, packet, looked, leaving, half, missed, since>>
  BY <1>1 DEF owners, history
<1>3. \A v \in DOMAIN garage[w] : Spawned(w, v, garage[w][v]) \in Packets
  BY <1>0, CarsType DEF Spawned, Packets
<1>4. \A m \in batch' : /\ m.kind = "spawn" /\ m.owner = w /\ m.vid \in DOMAIN garage[w]
                         /\ m.config = garage[w][m.vid] /\ m = Spawned(w, m.vid, garage[w][m.vid])
                         /\ m \in Packets
  BY <1>1, <1>3 DEF Spawned
<1>5. \A m \in batch' : Subject(m) = <<w, m.vid>>
  BY <1>4 DEF Subject
<1>6. TypeOK'
  BY <1>0, <1>1, <1>2, <1>4 DEF TypeOK
<1>7. SyncInOrder'
  BY <1>0, <1>1 DEF SyncInOrder
<1>8. CopiedOnce'
  <2>1. \A m \in batch' : m.kind = "spawn" /\ m.owner \notin toVisit'
    BY <1>1, <1>4
  <2>2. ASSUME NEW m \in batch', NEW n \in batch', Subject(m) = Subject(n)
        PROVE  m = n
    <3>1. m.vid = n.vid
      BY <1>5, <2>2
    <3>2. QED
      BY <1>4, <3>1
  <2>3. \A o \in toVisit' : DOMAIN view[o] = {}
    BY <1>0, <1>1 DEF CopiedOnce
  <2>4. QED
    BY <1>1, <2>1, <2>2, <2>3 DEF CopiedOnce
<1>9. \A o \in Owners : OwnerInOrder(o)'
  BY <1>1, OrderKept
<1>10. ASSUME ~disconnected, NEW o \in Owners, NEW v \in Vids
       PROVE  AddsUp(o, v)'
  <2>1. AddsUp(o, v)
    BY <1>10 DEF IndInv
  <2>2. Base(o, v)' = Base(o, v)
    <3>1. CASE o # w
      <4>1. ~\E m \in batch' : Subject(m) = <<o, v>>
        BY <1>5, <3>1
      <4>2. Snapshot(o, v)' = Snapshot(o, v)
        BY <1>1, <4>1 DEF Snapshot
      <4>3. QED
        BY <1>1, <1>2, <3>1, <4>2 DEF Base, Visited
    <3>2. CASE o = w /\ v \in DOMAIN garage[w]
      <4> DEFINE m == CHOOSE m \in batch' : Subject(m) = <<o, v>>
      <4>1. Spawned(w, v, garage[w][v]) \in batch' /\ Subject(Spawned(w, v, garage[w][v])) = <<w, v>>
        BY <1>1, <3>2 DEF Spawned, Subject
      <4>2. \E n \in batch' : Subject(n) = <<o, v>>
        BY <3>2, <4>1
      <4>3. m \in batch' /\ Subject(m) = <<o, v>>
        BY <4>2
      <4>4. Snapshot(o, v)' = m.config
        BY <4>2 DEF Snapshot
      <4> HIDE DEF m
      <4>5. m.vid = v
        BY <1>5, <4>3
      <4>6. Snapshot(o, v)' = garage[w][v]
        BY <1>4, <4>3, <4>4, <4>5
      <4>7. QED
        BY <1>1, <1>2, <3>2, <4>6 DEF Base, Visited, Value
    <3>3. CASE o = w /\ v \notin DOMAIN garage[w]
      <4>1. ~\E m \in batch' : Subject(m) = <<o, v>>
        BY <1>4, <1>5, <3>3
      <4>2. DOMAIN view[w] = {}
        BY <1>0, <1>1 DEF CopiedOnce
      <4>3. Snapshot(o, v)' = None
        BY <1>1, <3>3, <4>1, <4>2 DEF Snapshot, Value
      <4>4. QED
        BY <1>1, <1>2, <3>3, <4>3 DEF Base, Visited, Value
    <3>4. QED
      BY <3>1, <3>2, <3>3
  <2>3. Expected(o, v)' = Expected(o, v) /\ (Spawning(o, v)' <=> Spawning(o, v))
    BY <1>1, OwnersStill
  <2>4. QED
    BY <1>1, <1>2, <2>1, <2>2, <2>3 DEF AddsUp
<1>11. QED
  BY <1>1, <1>6, <1>7, <1>8, <1>9, <1>10 DEF IndInv

\* A copied vehicle is written to the joiner's socket.
LEMMA SendKeeps ==
    ASSUME SyncAssumption, IndInv, NEW m \in batch, SendOne(m)
    PROVE  IndInv'
<1>0. /\ TypeOK /\ SyncInOrder /\ CopiedOnce /\ batch \subseteq Packets /\ view \in [Owners -> Garage]
  BY DEF IndInv, TypeOK
<1>1. /\ UNCHANGED <<owners, history>>
      /\ UNCHANGED <<syncPc, toVisit, mIsSyncing, mIsSynced, mPacketsSync, disconnected>>
      /\ syncPc = "snapshot" /\ batch' = batch \ {m} /\ view' = Told(view, m)
  BY DEF SendOne
<1>2. UNCHANGED <<garage, pc, packet, looked, leaving, half, missed, since>>
  BY <1>1 DEF owners, history
<1>3. m \in Packets /\ m.kind = "spawn" /\ m.owner \notin toVisit
  BY <1>0 DEF CopiedOnce
<1>4. /\ view' \in [Owners -> Garage]
      /\ \A p \in Owners : p # m.owner => view'[p] = view[p]
  BY <1>0, <1>1, <1>3, ToldType
<1>5. TypeOK'
  BY <1>0, <1>1, <1>2, <1>4 DEF TypeOK
<1>6. SyncInOrder'
  BY <1>0, <1>1 DEF SyncInOrder
<1>7. CopiedOnce'
  <2>1. \A n \in batch' : n \in batch
    BY <1>1
  <2>2. \A o \in toVisit : view'[o] = view[o]
    BY <1>0, <1>3, <1>4 DEF TypeOK
  <2>3. QED
    BY <1>0, <1>1, <2>1, <2>2 DEF CopiedOnce
<1>8. \A o \in Owners : OwnerInOrder(o)'
  BY <1>1, OrderKept
<1>9. ASSUME ~disconnected, NEW o \in Owners, NEW v \in Vids
      PROVE  AddsUp(o, v)'
  <2>1. AddsUp(o, v)
    BY <1>9 DEF IndInv
  <2>2. Snapshot(o, v)' = Snapshot(o, v)
    <3>1. Value(view'[o], v) = AfterIf(Value(view[o], v), m, <<o, v>>)
      BY <1>0, <1>1, <1>3, ToldValue
    <3>2. CASE Subject(m) = <<o, v>>
      <4>1. ~\E n \in batch' : Subject(n) = <<o, v>>
        BY <1>0, <1>1, <3>2 DEF CopiedOnce
      <4>2. Snapshot(o, v)' = m.config
        BY <1>3, <3>1, <3>2, <4>1 DEF Snapshot, AfterIf, After
      <4>3. (CHOOSE n \in batch : Subject(n) = <<o, v>>) = m
        BY <1>0, <3>2 DEF CopiedOnce
      <4>4. Snapshot(o, v) = m.config
        BY <3>2, <4>3 DEF Snapshot
      <4>5. QED
        BY <4>2, <4>4
    <3>3. CASE Subject(m) # <<o, v>> /\ \E n \in batch : Subject(n) = <<o, v>>
      <4>1. PICK n \in batch : Subject(n) = <<o, v>>
        BY <3>3
      <4>2. n \in batch'
        BY <1>1, <3>3, <4>1
      <4>3. \A k \in batch : Subject(k) = <<o, v>> => k = n
        BY <1>0, <4>1 DEF CopiedOnce
      <4>4. (CHOOSE k \in batch : Subject(k) = <<o, v>>) = n
        BY <4>1, <4>3
      <4>5. (CHOOSE k \in batch' : Subject(k) = <<o, v>>) = n
        <5>1. \A k \in batch' : Subject(k) = <<o, v>> => k = n
          BY <1>1, <4>3
        <5>2. QED
          BY <4>1, <4>2, <5>1
      <4>6. QED
        BY <4>1, <4>2, <4>4, <4>5 DEF Snapshot
    <3>4. CASE Subject(m) # <<o, v>> /\ ~\E n \in batch : Subject(n) = <<o, v>>
      <4>1. ~\E n \in batch' : Subject(n) = <<o, v>>
        BY <1>1, <3>4
      <4>2. QED
        BY <3>1, <3>4, <4>1 DEF Snapshot, AfterIf
    <3>5. QED
      BY <3>2, <3>3, <3>4
  <2>3. Base(o, v)' = Base(o, v)
    BY <1>1, <1>2, <2>2 DEF Base, Visited
  <2>4. Expected(o, v)' = Expected(o, v) /\ (Spawning(o, v)' <=> Spawning(o, v))
    BY <1>1, OwnersStill
  <2>5. QED
    BY <1>1, <1>2, <2>1, <2>3, <2>4 DEF AddsUp
<1>10. QED
  BY <1>1, <1>5, <1>6, <1>7, <1>8, <1>9 DEF IndInv

\* The oldest packet of the queue is written.
LEMMA LooperKeeps ==
    ASSUME SyncAssumption, IndInv, LooperSends
    PROVE  IndInv'
<1> DEFINE m == Head(mPacketsSync)
<1>0. /\ TypeOK /\ SyncInOrder /\ CopiedOnce /\ view \in [Owners -> Garage]
      /\ mPacketsSync \in Seq(Packets) /\ Len(mPacketsSync) <= MaxQueue
  BY DEF IndInv, TypeOK
<1>1. /\ UNCHANGED <<owners, history>>
      /\ UNCHANGED <<syncPc, toVisit, batch, mIsSyncing, mIsSynced, disconnected>>
      /\ mIsSynced /\ ~mIsSyncing /\ mPacketsSync # << >> /\ ~disconnected
      /\ mPacketsSync' = Tail(mPacketsSync) /\ view' = Told(view, m)
  BY DEF LooperSends, sync
<1>2. UNCHANGED <<garage, pc, packet, looked, leaving, half, missed, since>>
  BY <1>1 DEF owners, history
<1>3. m \in Packets /\ Tail(mPacketsSync) \in Seq(Packets) /\ Len(Tail(mPacketsSync)) <= Len(mPacketsSync)
      /\ Len(Tail(mPacketsSync)) \in Nat /\ Len(mPacketsSync) \in Nat
  BY <1>0, <1>1
<1>4. Len(mPacketsSync') <= MaxQueue
  BY <1>0, <1>1, <1>3 DEF SyncAssumption
<1>5. syncPc \in {"ending", "done"} /\ toVisit = {} /\ batch = {}
  BY <1>0, <1>1 DEF SyncInOrder, TypeOK, SyncSteps
<1> HIDE DEF m
<1>6. TypeOK'
  <2>1. view' \in [Owners -> Garage]
    BY <1>0, <1>1, <1>3, ToldType
  <2>2. QED
    BY <1>0, <1>1, <1>2, <1>3, <1>4, <2>1 DEF TypeOK
<1>7. SyncInOrder'
  BY <1>0, <1>1, <1>5 DEF SyncInOrder
<1>8. CopiedOnce'
  BY <1>1, <1>5 DEF CopiedOnce
<1>9. \A o \in Owners : OwnerInOrder(o)'
  BY <1>1, <1>5, OrderKept
<1>10. ASSUME NEW o \in Owners, NEW v \in Vids
       PROVE  AddsUp(o, v)'
  <2>1. AddsUp(o, v)
    BY <1>1 DEF IndInv
  <2>2. Base(o, v) = Value(view[o], v) /\ Base(o, v)' = Value(view'[o], v)
    BY <1>1, <1>5 DEF Base, Visited, Snapshot
  <2>3. Value(view'[o], v) = AfterIf(Value(view[o], v), m, <<o, v>>)
    BY <1>0, <1>1, <1>3, ToldValue
  <2>4. KnownAfter(Base(o, v)', mPacketsSync', <<o, v>>) = KnownAfter(Base(o, v), mPacketsSync, <<o, v>>)
    <3>1. Value(view[o], v) \in Known
      BY <1>0, ValueType
    <3>2. QED
      BY <1>0, <1>1, <2>2, <2>3, <3>1, KnownTail DEF m
  <2>5. Expected(o, v)' = Expected(o, v) /\ (Spawning(o, v)' <=> Spawning(o, v))
    BY <1>1, OwnersStill
  <2>6. QED
    BY <1>2, <2>1, <2>4, <2>5 DEF AddsUp
<1>11. QED
  BY <1>6, <1>7, <1>8, <1>9, <1>10 DEF IndInv

\* So does the loss of the joiner's connection,
LEMMA HangUpKeeps ==
    ASSUME IndInv, HangUp
    PROVE  IndInv'
<1>0. TypeOK /\ SyncInOrder /\ CopiedOnce
  BY DEF IndInv
<1>1. /\ UNCHANGED <<owners, history>> /\ UNCHANGED <<syncPc, toVisit, batch, mIsSyncing, mIsSynced, mPacketsSync, view>>
      /\ disconnected'
  BY DEF HangUp, sync
<1>2. UNCHANGED <<garage, pc, packet, looked, leaving, half, missed, since>>
  BY <1>1 DEF owners, history
<1>3. TypeOK'
  <2>1. disconnected' \in BOOLEAN
    BY DEF HangUp
  <2>2. QED
    BY <1>0, <1>1, <1>2, <2>1 DEF TypeOK
<1>4. SyncInOrder' /\ CopiedOnce'
  BY <1>0, <1>1 DEF SyncInOrder, CopiedOnce
<1>5. ASSUME NEW o \in Owners
      PROVE  OwnerInOrder(o)'
  <2>0. PacketMatches(o) /\ LooksInOrder(o) /\ NothingBeforeVisit(o)
    BY OwnFacts
  <2>1. PacketMatches(o)'
    BY <1>1, <2>0, OwnersStill
  <2>2. LooksInOrder(o)' /\ NothingBeforeVisit(o)'
    BY <1>1, <1>2, <2>0 DEF LooksInOrder, NothingBeforeVisit
  <2>3. QED
    BY <2>1, <2>2 DEF OwnerInOrder
<1>6. QED
  BY <1>1, <1>3, <1>4, <1>5 DEF IndInv

\* and every other step.
LEMMA NextKeeps ==
    ASSUME SyncAssumption, IndInv, [Next]_vars
    PROVE  IndInv'
<1>1. CASE SyncStep
  <2>1. ASSUME NEW o \in Owners, Visit(o)
        PROVE  IndInv'
    BY <2>1, VisitKeeps
  <2>2. ASSUME NEW m \in batch, SendOne(m)
        PROVE  IndInv'
    BY <2>2, SendKeeps
  <2>3. CASE FlagStep
    BY <2>3, FlagsKeep
  <2>4. QED
    BY <1>1, <2>1, <2>2, <2>3 DEF SyncStep, FlagStep
<1>2. ASSUME NEW o \in Owners, OwnerStep(o)
      PROVE  IndInv'
  BY <1>2, OwnerStepKeeps
<1>3. CASE UNCHANGED vars
  <2>1. UNCHANGED <<garage, pc, packet, looked, leaving, syncPc, toVisit, batch, mIsSyncing, mIsSynced,
                    mPacketsSync, disconnected, view, half, missed, since>>
    BY <1>3 DEF vars
  <2>2. UNCHANGED <<owners, history>>
    BY <2>1 DEF owners, history
  <2>3. TypeOK' /\ SyncInOrder' /\ CopiedOnce'
    BY <2>1 DEF IndInv, TypeOK, SyncInOrder, CopiedOnce
  <2>4. \A o \in Owners : OwnerInOrder(o)'
    BY <2>1, <2>2, OrderKept
  <2>5. ASSUME ~disconnected, NEW o \in Owners, NEW v \in Vids
        PROVE  AddsUp(o, v)'
    <3>1. AddsUp(o, v)
      BY <2>5 DEF IndInv
    <3>2. Expected(o, v)' = Expected(o, v) /\ (Spawning(o, v)' <=> Spawning(o, v))
      BY <2>2, OwnersStill
    <3>3. Base(o, v)' = Base(o, v)
      BY <2>1 DEF Base, Visited, Snapshot
    <3>4. QED
      BY <2>1, <3>1, <3>2, <3>3 DEF AddsUp
  <2>6. QED
    BY <2>1, <2>3, <2>4, <2>5 DEF IndInv
<1>4. QED
  BY <1>1, <1>2, <1>3, LooperKeeps, HangUpKeeps DEF Next

-----------------------------------------------------------------------------
(* The theorems.                                                           *)

\* The inductive invariant: where the joiner's sync and the owners' changes
\* stand, and what the joiner is to know of every vehicle (TNetwork::SyncClient,
\* SendToAll and Looper, TServer::ParseVehicle).
THEOREM SyncInvariant == Spec => []IndInv
<1>1. Init => IndInv
  BY SyncAssumption, InvInit
<1>2. IndInv /\ [Next]_vars => IndInv'
  BY SyncAssumption, NextKeeps
<1>3. QED
  BY <1>1, <1>2, PTL DEF Spec

\* Snapshot and queue, written by two threads, add up to what the server has of
\* every vehicle of an owner that is between two changes, those missed excepted.
THEOREM SyncAddsUp == Spec => []SnapshotAndQueueAddUp
<1>1. IndInv => SnapshotAndQueueAddUp
  <2>1. SUFFICES ASSUME IndInv, ~disconnected, NEW o \in Owners, NEW v \in Vids, Catching(o), <<o, v>> \notin missed
                 PROVE  Forthcoming(o, v) = Value(garage[o], v)
    BY DEF SnapshotAndQueueAddUp
  <2>2. AddsUp(o, v) /\ PacketMatches(o)
    BY <2>1 DEF IndInv, OwnerInOrder
  <2>3. pc[o] \in {"idle", "gone"} /\ Visited(o)
    BY <2>1 DEF Catching
  <2>4. <<o, v>> \notin half /\ ~Spawning(o, v)
    BY <2>2, <2>3 DEF PacketMatches, Spawning
  <2>5. Expected(o, v) = Value(garage[o], v)
    BY <2>3, <2>4 DEF Expected, Leaving
  <2>6. Base(o, v) = Snapshot(o, v)
    BY <2>3 DEF Base
  <2>7. QED
    BY <2>1, <2>2, <2>4, <2>5, <2>6 DEF AddsUp, Forthcoming
<1>2. QED
  BY <1>1, SyncInvariant, PTL

\* A change that both starts and ends while the joiner is syncing, or once it is
\* synced, always gets through: those that are missed straddle the begin or the
\* end of the sync (the flags of SyncClient and the test of SendToAll).
THEOREM MissesAreAtTheEnds == Spec => MissesStraddleAnEnd
<1> DEFINE Straddles == \A x \in missed' \ missed : since[x[1]] # syncPc \/ syncPc = "ending" \/ disconnected
<1>1. IndInv /\ [Next]_vars => [Straddles]_vars
  <2>1. SUFFICES ASSUME IndInv, Next, NEW x \in missed' \ missed,
                        since[x[1]] = syncPc, syncPc # "ending", ~disconnected
                 PROVE  FALSE
    OBVIOUS
  <2>2. ASSUME missed' = missed
        PROVE  FALSE
    BY <2>1, <2>2
  <2>3. TypeOK /\ SyncInOrder
    BY <2>1 DEF IndInv
  <2>4. syncPc \in {"joining", "snapshot", "done"}
    BY <2>1, <2>3 DEF TypeOK, SyncSteps
  <2>5. ASSUME NEW o \in Owners, Visited(o), x[1] = o, since[o] = syncPc, NEW v \in Vids, <<o, v>> \in half
        PROVE  FALSE
    <3>1. LooksInOrder(o)
      BY <2>1 DEF IndInv, OwnerInOrder
    <3>2. syncPc # "joining"
      BY <2>3, <2>5 DEF SyncInOrder, Visited
    <3>3. QED
      BY <2>1, <2>4, <2>5, <3>1, <3>2 DEF LooksInOrder
  <2>6. ASSUME NEW o \in Owners, OwnerStep(o)
        PROVE  FALSE
    <3>1. CASE ClearCars(o)
      <4>1. Visited(o) /\ x \in half /\ x[1] = o
        BY <2>1, <3>1 DEF ClearCars
      <4>2. PICK v \in Vids : x = <<o, v>>
        BY <2>3, <4>1 DEF TypeOK
      <4>3. QED
        BY <2>1, <2>5, <4>1, <4>2
    <3>2. CASE Apply(o)
      <4>1. Visited(o) /\ x \in half /\ x = Subject(packet[o])
        BY <2>1, <3>2 DEF Apply
      <4>2. PacketMatches(o) /\ pc[o] = "apply"
        BY <2>1, <3>2 DEF IndInv, OwnerInOrder, Apply
      <4>3. packet[o].vid \in Vids /\ x = <<o, packet[o].vid>> /\ x[1] = o
        BY <4>1, <4>2, PacketType DEF PacketMatches, Subject
      <4>4. QED
        BY <2>1, <2>5, <4>1, <4>3
    <3>3. ASSUME NEW f \in Flags, PassedOver(o, f)
          PROVE  FALSE
      <4>1. Visited(o) /\ x = Subject(packet[o])
        BY <2>1, <3>3 DEF PassedOver
      <4>2. PacketMatches(o) /\ Broadcasting(o)
        BY <2>1, <3>3 DEF IndInv, OwnerInOrder, PassedOver
      <4>3. x[1] = o
        BY <4>1, <4>2 DEF PacketMatches, Broadcasting, Subject
      <4>4. syncPc # "joining"
        BY <2>3, <4>1 DEF SyncInOrder, Visited
      <4>5. syncPc \notin {"snapshot", "done"}
        BY <2>1, <3>3, <4>3, PassedOverWhen
      <4>6. QED
        BY <2>4, <4>4, <4>5
    <3>4. ASSUME NEW f \in Flags, LookedTrue(o, f)
          PROVE  FALSE
      <4>1. missed' \subseteq missed
        BY <3>4 DEF LookedTrue
      <4>2. QED
        BY <2>1, <4>1
    <3>5. ASSUME NEW f \in Flags, LookedFalse(o, f)
          PROVE  FALSE
      BY <2>2, <3>5 DEF LookedFalse, history
    <3>6. CASE AddNewCar(o) \/ Disconnect(o)
      BY <2>2, <3>6 DEF AddNewCar, Disconnect, history
    <3>7. ASSUME NEW v \in Vids, Delete(o, v) \/ LeaveOne(o, v)
          PROVE  FALSE
      BY <2>2, <3>7 DEF Delete, Start, LeaveOne, history
    <3>8. ASSUME NEW v \in Vids, NEW c \in Configs, Spawn(o, v, c) \/ Edit(o, v, c)
          PROVE  FALSE
      BY <2>2, <3>8 DEF Spawn, Edit, Start
    <3>9. QED
      BY <2>6, <3>1, <3>2, <3>3, <3>4, <3>5, <3>6, <3>7, <3>8 DEF OwnerStep
  <2>7. CASE SyncStep
    <3>1. missed' = missed
      BY <2>7 DEF SyncStep, StartSync, SyncAborted, SnapshotDone, SetNotSyncing, SetSynced, Visit, SendOne, history
    <3>2. QED
      BY <2>2, <3>1
  <2>8. CASE LooperSends \/ HangUp
    BY <2>2, <2>8 DEF LooperSends, HangUp, history
  <2>9. QED
    BY <2>1, <2>6, <2>7, <2>8 DEF Next
<1>2. QED
  BY <1>1, SyncInvariant, PTL DEF Spec, MissesStraddleAnEnd
===============================================================================
