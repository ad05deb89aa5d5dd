------------------------- MODULE MCFusionExchange -------------------------
(* An instance of FusionExchange: a chain of three ranks, whose ends are    *)
(* not neighbors and may drift apart.                                      *)
EXTENDS FusionExchange

ChainNeighbor == [r \in 1..3 |-> {n \in 1..3 : n = r - 1 \/ n = r + 1}]

(* One end of the chain may pack for the middle, the middle always packs    *)
(* for the other end, and the other two channels stay empty.               *)
ChainLoad == [c \in Chan |-> CASE c[1] = 1 -> {0, 1}
                               [] c[1] = 2 /\ c[2] = 3 -> {1}
                               [] OTHER -> {0}]
===========================================================================
