--------------------------- MODULE OneSidedWrite ---------------------------
(***************************************************************************)
(* What a channel of the communication library promises for its RDMA       *)
(* writes: each write that was started gives one event to the signal of    *)
(* its source and one to the signal of its target, in either order, and    *)
(* the target's event comes with the data of that write.                   *)
(***************************************************************************)
EXTENDS Integers

CONSTANT
  Write      (* The writes that may be started.                             *)

VARIABLES
  started,   (* The writes started so far.                                  *)
  sent,      (* sent[w]: events w gave to the signal of its source.         *)
  landed     (* landed[w]: events w gave to the signal of its target.       *)

wvars == <<started, sent, landed>>

Init ==
  /\ started = {}
  /\ sent    = [w \in Write |-> 0]
  /\ landed  = [w \in Write |-> 0]

(* A batch of new writes is started.                                       *)
Start ==
  /\ started \subseteq started' /\ started' \subseteq Write
  /\ UNCHANGED <<sent, landed>>

Complete(w) ==
  /\ w \in started /\ sent[w] = 0
  /\ sent' = [sent EXCEPT ![w] = 1]
  /\ UNCHANGED <<started, landed>>

Land(w) ==
  /\ w \in started /\ landed[w] = 0
  /\ landed' = [landed EXCEPT ![w] = 1]
  /\ UNCHANGED <<started, sent>>

Next ==
  \/ Start
  \/ \E w \in Write : Complete(w) \/ Land(w)

Spec == Init /\ [][Next]_wvars
===========================================================================
