------------------------- MODULE ParticleTransfer -------------------------
(***************************************************************************)
(* What the fused particle exchange promises, without buffers or signals.  *)
(* Every directed channel <<src, dst, thread>> is a mailbox that holds at  *)
(* most one parcel.  A rank posts one parcel on every outgoing channel per *)
(* fused step, and takes one from every incoming channel.  Nothing is      *)
(* lost, repeated, torn or taken in a step it does not belong to.          *)
(***************************************************************************)
EXTENDS Integers

CONSTANTS
  Rank,      (* The ranks of the particle communicator.                     *)
  Chan,      (* The channels, a subset of Rank \X Rank \X Thread.           *)
  Load       (* Load[c]: the sizes a parcel on channel c may have.          *)

VARIABLES
  round,     (* round[r]: how many times r has posted its parcels.          *)
  box,       (* box[c]: the empty set, or the one parcel on its way.        *)
  got        (* got[c]: the parcel last taken from c.                       *)

tvars == <<round, box, got>>

(* An empty parcel carries no payload, so it has no step of origin. *)
Parcel(size, step) == [size |-> size, step |-> IF size = 0 THEN 0 ELSE step]

Out(r) == {c \in Chan : c[1] = r}
In(r)  == {c \in Chan : c[2] = r}

Init ==
  /\ round = [r \in Rank |-> 0]
  /\ box   = [c \in Chan |-> {}]
  /\ got   = [c \in Chan |-> Parcel(0, 0)]

Post(r) ==
  /\ \A c \in Out(r) : box[c] = {}
  /\ round' = [round EXCEPT ![r] = @ + 1]
  /\ \E load \in [Out(r) -> UNION {Load[c] : c \in Out(r)}] :
       /\ \A c \in Out(r) : load[c] \in Load[c]
       /\ box' = [c \in Chan |-> IF c \in Out(r)
                                   THEN {Parcel(load[c], round[r] + 1)}
                                   ELSE box[c]]
  /\ UNCHANGED got

Take(r) ==
  /\ \A c \in In(r) : box[c] # {}
  /\ got' = [c \in Chan |-> IF c \in In(r)
                              THEN CHOOSE p \in box[c] : TRUE
                              ELSE got[c]]
  /\ box' = [c \in Chan |-> IF c \in In(r) THEN {} ELSE box[c]]
  /\ UNCHANGED round

Next == \E r \in Rank : Post(r) \/ Take(r)

Spec == Init /\ [][Next]_tvars
===========================================================================
