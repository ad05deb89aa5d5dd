-------------------------- MODULE PackCompaction --------------------------
(***************************************************************************)
(* The in-place compaction of PhysicalParticleContainer::fusion_pack_unr   *)
(* on one tile: the particles that have left the tile are moved behind     *)
(* those that stay, first one by one while they are within a vector of the *)
(* tail, then a vector of up to VL at a time by gather, store and scatter. *)
(* The attribute arrays of the tile are one array of particles here: the   *)
(* code applies the same moves to each of them.                            *)
(***************************************************************************)
EXTENDS Integers

CONSTANTS
  NP,      (* np_to_push: particles of the tile.                            *)
  VL       (* svcntd(): lanes of a vector.                                  *)

ASSUME SizeAssumption == NP \in Nat /\ VL \in Nat \ {0}

Slot == 0..(NP - 1)

VARIABLES
  pc,         (* The loop of the function that is running.                  *)
  moveBegin,  (* ptile.g_move_begin.                                        *)
  gone,       (* The particles outside the real tile box, by first slot.    *)
  ip,         (* The slot the scan reads next.                              *)
  list,       (* outside_particles: this thread's part of int_buffer.       *)
  last,       (* outside_particles_index - 1, then tail_outside_index.      *)
  tail,       (* The last slot not yet known to hold a gone particle.       *)
  arr,        (* arr[s]: the particle in slot s, named by its first slot.   *)
  newBegin    (* ptile.g_new_particles_begin.                               *)

vars == <<pc, moveBegin, gone, ip, list, last, tail, arr, newBegin>>

(* The sort kernel has left every particle below moveBegin in its cell, so  *)
(* only the ones behind it can have left the tile.                         *)
Init ==
  /\ pc = "scan"
  /\ moveBegin \in 0..NP
  /\ gone \in SUBSET (moveBegin..(NP - 1))
  /\ ip = moveBegin
  /\ list = [s \in Slot |-> 0]
  /\ last = -1
  /\ tail = NP - 1
  /\ arr = [s \in Slot |-> s]
  /\ newBegin \in 0..NP

(* Mutant: a slot relative to the first unsorted one.                       *)
ScanRelative ==
  /\ pc = "scan"
  /\ IF ip < NP
       THEN /\ ip' = ip + 1
            /\ IF arr[ip] \in gone
                 THEN /\ list' = [list EXCEPT ![last + 1] = ip - moveBegin]
                      /\ last' = last + 1
                 ELSE UNCHANGED <<list, last>>
            /\ UNCHANGED pc
       ELSE /\ pc' = "swap"
            /\ UNCHANGED <<ip, list, last>>
  /\ UNCHANGED <<moveBegin, gone, tail, arr, newBegin>>

(* One lane of the vectorised scan: svcompact stores the slots of the gone  *)
(* particles in ascending order.                                           *)
Scan ==
  /\ pc = "scan"
  /\ IF ip < NP
       THEN /\ ip' = ip + 1
            /\ IF arr[ip] \in gone
                 THEN list' = [list EXCEPT ![last + 1] = ip] /\ last' = last + 1
                 ELSE UNCHANGED <<list, last>>
            /\ UNCHANGED pc
       ELSE /\ pc' = "swap"
            /\ UNCHANGED <<ip, list, last>>
  /\ UNCHANGED <<moveBegin, gone, tail, arr, newBegin>>

NearTailShort == last >= 0 /\ tail - list[last] < VL - 1   \* Mutant.

NearTail == last >= 0 /\ tail - list[last] < VL

(* The scalar loop: exchange the last gone particle with the tail.          *)
SwapTail ==
  /\ pc = "swap"
  /\ NearTail
  /\ arr' = [arr EXCEPT ![list[last]] = arr[tail], ![tail] = arr[list[last]]]
  /\ tail' = tail - 1
  /\ last' = last - 1
  /\ UNCHANGED <<pc, moveBegin, gone, ip, list, newBegin>>

EndSwap ==
  /\ pc = "swap"
  /\ ~NearTail
  /\ pc' = "block"
  /\ UNCHANGED <<moveBegin, gone, ip, list, last, tail, arr, newBegin>>

LanesShort == IF last + 1 < VL THEN last ELSE VL   \* Mutant: last is an index.

(* The lanes that are active: svwhilele_b64(0, tail_outside_index).         *)
Lanes == IF last + 1 < VL THEN last + 1 ELSE VL

(* The slot of the gone particle that lane i gathers, and the slot of the   *)
(* tail block it loads and stores.                                         *)
GatherSlot(i) == list[last - Lanes + 1 + i]
BlockSlot(i)  == tail - Lanes + 1 + i

(* One vector: both blocks are read before either is written; the scatter   *)
(* into the gaps comes after the store into the tail.                      *)
SwapBlock ==
  /\ pc = "block"
  /\ last >= 0
  /\ arr' = [s \in Slot |->
       IF \E i \in 0..(Lanes - 1) : GatherSlot(i) = s
         THEN arr[BlockSlot(CHOOSE i \in 0..(Lanes - 1) : GatherSlot(i) = s)]
         ELSE IF s \in BlockSlot(0)..tail
                THEN arr[GatherSlot(s - BlockSlot(0))]
                ELSE arr[s]]
  /\ tail' = tail - Lanes
  /\ last' = last - Lanes
  /\ UNCHANGED <<pc, moveBegin, gone, ip, list, newBegin>>

(* Mutant: the tail itself is taken for a gone particle.                    *)
FinishAtTail ==
  /\ pc = "block"
  /\ last < 0
  /\ newBegin' = tail
  /\ pc' = "done"
  /\ UNCHANGED <<moveBegin, gone, ip, list, last, tail, arr>>

Finish ==
  /\ pc = "block"
  /\ last < 0
  /\ newBegin' = tail + 1
  /\ pc' = "done"
  /\ UNCHANGED <<moveBegin, gone, ip, list, last, tail, arr>>

Next == Scan \/ SwapTail \/ EndSwap \/ SwapBlock \/ Finish

Spec == Init /\ [][Next]_vars

(* One thread runs the function to its end. *)
FairSpec == Spec /\ WF_vars(Next)

---------------------------------------------------------------------------
TypeOK ==
  /\ pc \in {"scan", "swap", "block", "done"}
  /\ moveBegin \in 0..NP
  /\ gone \subseteq moveBegin..(NP - 1)
  /\ ip \in moveBegin..NP
  /\ list \in [Slot -> 0..NP]
  /\ last \in -1..(NP - 1)
  /\ tail \in -1..(NP - 1)
  /\ arr \in [Slot -> Slot]
  /\ newBegin \in 0..NP

(* No particle is overwritten or copied twice: at every point of the        *)
(* compaction each particle of the tile is in exactly one slot.            *)
NoParticleDuplicated ==
  \A s, u \in Slot : arr[s] = arr[u] => s = u

(* When the function ends, the particles from g_new_particles_begin on are  *)
(* exactly those that left the tile: only they are packed, and only they    *)
(* are erased by fusion_local_collect.                                     *)
Partitioned ==
  pc = "done" => \A s \in Slot : s >= newBegin <=> arr[s] \in gone

(* The block moved by one vector step never overlaps the slots it gathers   *)
(* from: the store and the scatter write disjoint parts of the arrays.     *)
BlocksDisjoint ==
  pc = "block" /\ last >= 0 => GatherSlot(Lanes - 1) < BlockSlot(0)

(* The physically sorted prefix of the tile keeps every particle in place:  *)
(* the bins of the next step's gather still describe it.                   *)
PrefixUntouched ==
  \A s \in Slot : s < moveBegin => arr[s] = s

(* The compaction ends. *)
Terminates == <>(pc = "done")
===========================================================================
