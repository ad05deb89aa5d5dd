---------------------------- MODULE MCUnrSetup ----------------------------
(* Four boxes in a row on three ranks, two species. *)
EXTENDS UnrSetup

Row == [b \in Box |-> {d \in Box : d \in (b - 1)..(b + 1)}]

(* Every rank has a box. *)
FullMaps == {m \in [Box -> Rank] : \A r \in Rank : \E b \in Box : m[b] = r}
===========================================================================
