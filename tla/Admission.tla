------------------------------ MODULE Admission ------------------------------
(***************************************************************************)
(* What a connection limiter promises: connections are admitted while both *)
(* the server and their address have room, and leave again.  No counters,  *)
(* no guard objects, no threads.                                           *)
(***************************************************************************)
EXTENDS Integers, FiniteSets

CONSTANTS Conns, Ips, MaxPerIp, MaxGlobal

VARIABLE holding    \* the admitted connections, each with its address

Admitted == DOMAIN holding
From(ip) == {c \in Admitted : holding[c] = ip}

Init == holding = [c \in {} |-> CHOOSE ip \in Ips : TRUE]

Enter(c, ip) ==
    /\ c \notin Admitted
    /\ Cardinality(Admitted) < MaxGlobal
    /\ Cardinality(From(ip)) < MaxPerIp
    /\ holding' = [d \in Admitted \cup {c} |-> IF d = c THEN ip ELSE holding[d]]

Leave(c) ==
    /\ c \in Admitted
    /\ holding' = [d \in Admitted \ {c} |-> holding[d]]

Next == \E c \in Conns : Leave(c) \/ \E ip \in Ips : Enter(c, ip)

Spec == Init /\ [][Next]_holding
=============================================================================
