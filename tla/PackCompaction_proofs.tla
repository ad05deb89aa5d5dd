----------------------- MODULE PackCompaction_proofs -----------------------
(***************************************************************************)
(* For every number of particles and every vector length, the compaction   *)
(* of fusion_pack_unr permutes the particles of the tile, leaves its       *)
(* sorted prefix alone, and ends with the gone particles behind the others. *)
(* The inductive invariant says what the list of gone slots still promises: *)
(* it is ascending, it lies below the frontier (ip while scanning, tail     *)
(* afterwards), and below the frontier it names exactly the gone ones.      *)
(***************************************************************************)
EXTENDS PackCompaction, TLAPS

(* The slots below the frontier are those the list speaks about. *)
Frontier == IF pc = "scan" THEN ip ELSE tail + 1

(* The listed slots ascend, so entry j is at least j - i above entry i. *)
Ordered == \A j \in 0..last : \A i \in 0..j : list[i] + (j - i) <= list[j]

Within == \A i \in 0..last : moveBegin <= list[i] /\ list[i] < Frontier

Front == \A s \in Slot : s < Frontier =>
           (arr[s] \in gone <=> \E i \in 0..last : list[i] = s)

Back == \A s \in Slot : s > tail => arr[s] \in gone

(* The scalar loop has left a whole vector between the last gap and tail. *)
Gap == pc = "block" /\ last >= 0 => tail - list[last] >= VL

Phase == /\ pc = "scan" => tail = NP - 1
         /\ pc = "done" => last = -1 /\ newBegin = tail + 1

IInv == /\ TypeOK /\ Ordered /\ Within /\ Front /\ Back /\ Gap /\ Phase
        /\ NoParticleDuplicated /\ PrefixUntouched

---------------------------------------------------------------------------
(* An ascending list of slots is no longer than its largest entry. *)
LEMMA LastBelowFrontier ==
  ASSUME TypeOK, Ordered, Within, last >= 0
  PROVE  last <= list[last] /\ list[last] < Frontier /\ list[last] \in Int
  <1>1. 0 \in 0..last /\ last \in 0..last
    BY SMT DEF TypeOK
  <1>2. list[0] + (last - 0) <= list[last]
    BY <1>1 DEF Ordered
  <1>3. list[0] \in Nat /\ list[last] \in Nat
    BY SizeAssumption, SMTT(40) DEF TypeOK, Slot
  <1> QED BY <1>1, <1>2, <1>3 DEF Within, TypeOK

(* The lanes of a vector step: at least one, at most VL and what is left.  *)
LEMMA LanesBound ==
  ASSUME TypeOK, last >= 0
  PROVE  Lanes \in 1..VL /\ Lanes <= last + 1
  BY SizeAssumption DEF TypeOK, Lanes

(* The slots a vector step gathers from are distinct slots of the tile      *)
(* below its tail block: the two blocks are disjoint.                       *)
LEMMA GatherBelowBlock ==
  ASSUME IInv, pc = "block", last >= 0
  PROVE  /\ \A i \in 0..(Lanes - 1) :
              /\ GatherSlot(i) \in Slot /\ BlockSlot(i) \in Slot
              /\ last - Lanes + 1 + i \in 0..last
              /\ moveBegin <= GatherSlot(i) /\ GatherSlot(i) < BlockSlot(0)
         /\ \A i, j \in 0..(Lanes - 1) : GatherSlot(i) = GatherSlot(j) => i = j
  <1>0. Lanes \in 1..VL /\ Lanes <= last + 1 /\ last \in Nat /\ VL \in Nat /\ tail \in Int
    BY LanesBound, SizeAssumption DEF IInv, TypeOK
  <1>1. tail - list[last] >= VL /\ tail \in -1..(NP - 1) /\ NP \in Nat /\ moveBegin \in Nat
    BY SizeAssumption DEF IInv, Gap, TypeOK
  <1>2. \A k \in 0..last : list[k] \in Nat /\ moveBegin <= list[k] /\ list[k] < tail + 1
    <2> TAKE k \in 0..last
    <2>1. k \in Slot
      BY SizeAssumption DEF IInv, TypeOK, Slot
    <2>2. list[k] \in Nat /\ moveBegin <= list[k] /\ list[k] < Frontier
      BY <2>1, <1>1 DEF IInv, TypeOK, Within
    <2> QED BY <2>2 DEF Frontier
  <1>3. ASSUME NEW i \in 0..(Lanes - 1)
        PROVE  /\ GatherSlot(i) \in Slot /\ BlockSlot(i) \in Slot
               /\ last - Lanes + 1 + i \in 0..last
               /\ moveBegin <= GatherSlot(i) /\ GatherSlot(i) < BlockSlot(0)
    <2> DEFINE k == last - Lanes + 1 + i
    <2>1. k \in 0..last /\ last \in 0..last
      BY <1>0
    <2>2. list[k] + (last - k) <= list[last]
      BY <2>1 DEF IInv, Ordered
    <2> QED BY <1>0, <1>1, <1>2, <2>1, <2>2 DEF GatherSlot, BlockSlot, Slot
  <1>4. ASSUME NEW i \in 0..(Lanes - 1), NEW j \in 0..(Lanes - 1), i < j
        PROVE  GatherSlot(i) # GatherSlot(j)
    <2> DEFINE k == last - Lanes + 1 + i
               m == last - Lanes + 1 + j
    <2>1. m \in 0..last /\ k \in 0..m /\ k \in 0..last /\ m - k > 0
      BY <1>0, <1>4
    <2>2. list[k] + (m - k) <= list[m]
      BY <2>1 DEF IInv, Ordered
    <2> QED BY <1>2, <2>1, <2>2 DEF GatherSlot
  <1>5. \A i, j \in 0..(Lanes - 1) : GatherSlot(i) = GatherSlot(j) => i = j
    BY <1>0, <1>4
  <1> QED BY <1>3, <1>5

(* What one vector step does: gap i and block slot i exchange particles.   *)
Exchanged(s, t) ==
  \/ \E i \in 0..(Lanes - 1) : s = GatherSlot(i) /\ t = BlockSlot(i)
  \/ \E i \in 0..(Lanes - 1) : s = BlockSlot(i) /\ t = GatherSlot(i)
  \/ /\ \A i \in 0..(Lanes - 1) : s # GatherSlot(i) /\ s # BlockSlot(i)
     /\ s = t

(* What a vector step does to each slot: the gathered slots get the tail     *)
(* block, the tail block gets them, and the rest is left alone.            *)
LEMMA SwapBlockExchanges ==
  ASSUME IInv, SwapBlock
  PROVE  /\ \A i \in 0..(Lanes - 1) :
              /\ arr'[GatherSlot(i)] = arr[BlockSlot(i)]
              /\ arr'[BlockSlot(i)] = arr[GatherSlot(i)]
         /\ \A s \in Slot :
              (\A i \in 0..(Lanes - 1) : s # GatherSlot(i) /\ s # BlockSlot(i))
                => arr'[s] = arr[s]
  <1>0. pc = "block" /\ last >= 0 /\ Lanes \in Nat /\ tail \in Int
    BY LanesBound, SizeAssumption DEF SwapBlock, IInv, TypeOK
  <1>1. /\ \A i \in 0..(Lanes - 1) :
             /\ GatherSlot(i) \in Slot /\ BlockSlot(i) \in Slot
             /\ GatherSlot(i) < BlockSlot(0)
        /\ \A i, j \in 0..(Lanes - 1) : GatherSlot(i) = GatherSlot(j) => i = j
    BY <1>0, GatherBelowBlock
  <1>2. ASSUME NEW i \in 0..(Lanes - 1)
        PROVE  arr'[GatherSlot(i)] = arr[BlockSlot(i)]
    <2> DEFINE c == CHOOSE j \in 0..(Lanes - 1) : GatherSlot(j) = GatherSlot(i)
    <2>1. c \in 0..(Lanes - 1) /\ GatherSlot(c) = GatherSlot(i)
      OBVIOUS
    <2>2. c = i
      BY <1>1, <2>1
    <2>3. arr'[GatherSlot(i)] = arr[BlockSlot(c)]
      BY <1>1 DEF SwapBlock
    <2> QED BY <2>2, <2>3
  <1>3. ASSUME NEW i \in 0..(Lanes - 1)
        PROVE  arr'[BlockSlot(i)] = arr[GatherSlot(i)]
    <2>0. BlockSlot(i) \in Slot
      BY <1>1
    <2>1. BlockSlot(i) \in BlockSlot(0)..tail /\ BlockSlot(i) - BlockSlot(0) = i
      <3>1. i \in Int /\ 0 <= i /\ i < Lanes
        BY <1>0
      <3> QED BY <1>0, <3>1 DEF BlockSlot
    <2>2. ~ \E j \in 0..(Lanes - 1) : GatherSlot(j) = BlockSlot(i)
      <3>1. \A j \in 0..(Lanes - 1) : GatherSlot(j) < BlockSlot(0) /\ GatherSlot(j) \in Int
        BY <1>1 DEF Slot
      <3>2. BlockSlot(i) >= BlockSlot(0) /\ BlockSlot(i) \in Int /\ BlockSlot(0) \in Int
        BY <1>0, <2>1 DEF BlockSlot
      <3> QED BY <3>1, <3>2
    <2> QED BY <2>0, <2>1, <2>2 DEF SwapBlock
  <1>4. ASSUME NEW s \in Slot,
               \A i \in 0..(Lanes - 1) : s # GatherSlot(i) /\ s # BlockSlot(i)
        PROVE  arr'[s] = arr[s]
    <2>1. s \notin BlockSlot(0)..tail
      <3> SUFFICES ASSUME s \in BlockSlot(0)..tail PROVE FALSE
        OBVIOUS
      <3>1. s - BlockSlot(0) \in 0..(Lanes - 1) /\ s = BlockSlot(s - BlockSlot(0))
        BY <1>0 DEF BlockSlot, Slot
      <3> QED BY <3>1, <1>4
    <2> QED BY <1>4, <2>1 DEF SwapBlock
  <1> QED BY <1>2, <1>3, <1>4

---------------------------------------------------------------------------
(* Before the scan the list is empty and every particle in its own slot.    *)
LEMMA InitIInv == Init => IInv
  <1> SUFFICES ASSUME Init PROVE IInv
    OBVIOUS
  <1> USE SizeAssumption DEF Init
  <1>1. TypeOK
    BY DEF TypeOK, Slot
  <1>2. Ordered /\ Within /\ Gap /\ Phase
    BY DEF Ordered, Within, Gap, Phase
  <1>3. Front /\ Back
    BY DEF Front, Back, Frontier, Slot
  <1>4. NoParticleDuplicated /\ PrefixUntouched
    BY DEF NoParticleDuplicated, PrefixUntouched
  <1> QED BY <1>1, <1>2, <1>3, <1>4 DEF IInv

(* The scan lists the slots of the gone particles in ascending order.       *)
LEMMA ScanIInv == ASSUME IInv, Scan PROVE IInv'
  <1>0. TypeOK /\ Ordered /\ Within /\ Front /\ Phase /\ NP \in Nat
    BY SizeAssumption DEF IInv
  <1>1. CASE ip < NP /\ arr[ip] \in gone
    <2>1. /\ ip' = ip + 1 /\ list' = [list EXCEPT ![last + 1] = ip] /\ last' = last + 1
          /\ pc' = "scan" /\ pc = "scan"
          /\ UNCHANGED <<moveBegin, gone, tail, arr, newBegin>>
      BY <1>1 DEF Scan
    <2>a. last \in Int /\ last >= -1 /\ ip \in Nat /\ moveBegin \in Nat /\ moveBegin <= ip
      BY <1>0 DEF TypeOK
    <2>b. last < ip
      <3>1. CASE last >= 0
        BY <3>1, <1>0, <2>1, <2>a, LastBelowFrontier DEF Frontier
      <3>2. CASE last < 0
        BY <3>2, <2>a
      <3> QED BY <3>1, <3>2, <2>a
    <2>2. last + 1 \in Slot /\ ip \in Slot /\ last \in Int /\ ip \in Int /\ moveBegin <= ip
      BY <1>0, <1>1, <2>a, <2>b DEF Slot
    <2>3. /\ list'[last + 1] = ip
          /\ \A i \in 0..last : list'[i] = list[i] /\ list[i] \in Int
      <3>1. list \in [Slot -> 0..NP]
        BY <1>0 DEF TypeOK
      <3>2. list'[last + 1] = ip
        BY <3>1, <2>1, <2>2
      <3>3. ASSUME NEW i \in 0..last PROVE list'[i] = list[i] /\ list[i] \in Int
        <4>1. i \in Slot /\ i # last + 1
          BY <1>0, <2>a, <2>2 DEF Slot
        <4> QED BY <4>1, <3>1, <2>1
      <3> QED BY <3>2, <3>3
    <2>4. TypeOK'
      <3>1. ip + 1 \in moveBegin..NP /\ ip \in 0..NP /\ last + 1 \in -1..(NP - 1)
        BY <1>0, <1>1, <2>a, <2>b
      <3> QED BY <1>0, <2>1, <3>1 DEF TypeOK
    <2>5. Ordered'
      <3> SUFFICES ASSUME NEW j \in 0..last', NEW i \in 0..j
                   PROVE  list'[i] + (j - i) <= list'[j]
        BY DEF Ordered
      <3>1. CASE j <= last
        BY <3>1, <2>1, <2>2, <2>3, <1>0 DEF Ordered
      <3>2. CASE j = last + 1 /\ i <= last
        <4>1. last \in 0..last /\ i \in 0..last
          BY <3>2, <2>2
        <4>2. list[i] + (last - i) <= list[last] /\ list[last] < ip
          BY <4>1, <1>0, <2>1 DEF Ordered, Within, Frontier
        <4> QED BY <3>2, <4>1, <4>2, <2>2, <2>3
      <3>3. CASE j = last + 1 /\ i = last + 1
        BY <3>3, <2>2, <2>3
      <3> QED BY <3>1, <3>2, <3>3, <2>1, <2>2
    <2>6. Within'
      <3> SUFFICES ASSUME NEW i \in 0..last'
                   PROVE  moveBegin <= list'[i] /\ list'[i] < ip + 1
        BY <2>1 DEF Within, Frontier
      <3>1. CASE i <= last
        BY <3>1, <2>1, <2>2, <2>3, <1>0 DEF Within, Frontier
      <3>2. CASE i = last + 1
        BY <3>2, <2>2, <2>3
      <3> QED BY <3>1, <3>2, <2>1, <2>2
    <2>7. Front'
      <3> SUFFICES ASSUME NEW s \in Slot, s < ip + 1
                   PROVE  arr[s] \in gone <=> \E i \in 0..last' : list'[i] = s
        BY <2>1 DEF Front, Frontier, Slot
      <3>1. CASE s = ip
        <4>1. last + 1 \in 0..last'
          BY <2>1, <2>2 DEF Slot
        <4> QED BY <3>1, <4>1, <1>1, <2>3
      <3>2. CASE s < ip
        <4>1. arr[s] \in gone <=> \E i \in 0..last : list[i] = s
          BY <3>2, <1>0, <2>1 DEF Front, Frontier
        <4>2. (\E i \in 0..last : list[i] = s) <=> (\E i \in 0..last' : list'[i] = s)
          BY <3>2, <2>1, <2>2, <2>3
        <4> QED BY <4>1, <4>2
      <3> QED BY <3>1, <3>2, <2>2 DEF Slot
    <2>8. Back' /\ Gap' /\ Phase' /\ NoParticleDuplicated' /\ PrefixUntouched'
      BY <2>1 DEF IInv, Back, Gap, Phase, NoParticleDuplicated, PrefixUntouched, Slot
    <2> QED BY <2>4, <2>5, <2>6, <2>7, <2>8 DEF IInv
  <1>2. CASE ip < NP /\ arr[ip] \notin gone
    <2>1. /\ ip' = ip + 1 /\ pc' = "scan" /\ pc = "scan"
          /\ UNCHANGED <<moveBegin, gone, tail, arr, newBegin, list, last>>
      BY <1>2 DEF Scan
    <2>2. TypeOK'
      BY <1>0, <1>2, <2>1 DEF TypeOK
    <2>3. Ordered' /\ Back' /\ Gap' /\ Phase' /\ NoParticleDuplicated' /\ PrefixUntouched'
      BY <2>1 DEF IInv, Ordered, Back, Gap, Phase, NoParticleDuplicated, PrefixUntouched, Slot
    <2>4. /\ Within'
      <3> SUFFICES ASSUME NEW i \in 0..last
                   PROVE  moveBegin <= list[i] /\ list[i] < ip + 1
        BY <2>1 DEF Within, Frontier
      <3>1. i \in Slot
        BY <1>0 DEF TypeOK, Slot
      <3> QED BY <3>1, <1>0, <2>1 DEF Within, Frontier, TypeOK
    <2>5. Front'
      <3> SUFFICES ASSUME NEW s \in Slot, s < ip + 1
                   PROVE  arr[s] \in gone <=> \E i \in 0..last : list[i] = s
        BY <2>1 DEF Front, Frontier, Slot
      <3>1. CASE s = ip
        <4>1. ~ \E i \in 0..last : list[i] = ip
          <5> SUFFICES ASSUME NEW i \in 0..last, list[i] = ip PROVE FALSE
            OBVIOUS
          <5> QED BY <1>0, <2>1 DEF Within, Frontier, TypeOK
        <4> QED BY <3>1, <4>1, <1>2
      <3>2. CASE s < ip
        BY <3>2, <1>0, <2>1 DEF Front, Frontier
      <3> QED BY <3>1, <3>2, <1>0 DEF Slot, TypeOK
    <2> QED BY <2>2, <2>3, <2>4, <2>5 DEF IInv
  <1>3. CASE ~(ip < NP)
    <2>1. /\ pc' = "swap" /\ pc = "scan"
          /\ UNCHANGED <<moveBegin, gone, tail, arr, newBegin, list, last, ip>>
      BY <1>3 DEF Scan
    <2>2. ip = NP /\ tail = NP - 1
      BY <1>0, <1>3, <2>1 DEF TypeOK, Phase
    <2>3. Frontier' = Frontier
      BY <2>1, <2>2, <1>0 DEF Frontier
    <2>4. TypeOK' /\ Ordered' /\ Back' /\ Gap' /\ Phase' /\ NoParticleDuplicated' /\ PrefixUntouched'
      BY <2>1, <2>2 DEF IInv, TypeOK, Ordered, Back, Gap, Phase, NoParticleDuplicated, PrefixUntouched, Slot
    <2>5. Within' /\ Front'
      BY <1>0, <2>1, <2>3 DEF Within, Front, Slot
    <2> QED BY <2>4, <2>5 DEF IInv
  <1> QED BY <1>1, <1>2, <1>3

(* The scalar exchange: the tail slot holds a particle that stays, unless   *)
(* it is the listed slot itself.                                           *)
LEMMA SwapTailIInv == ASSUME IInv, SwapTail PROVE IInv'
  <1>0. /\ TypeOK /\ Ordered /\ Within /\ Front /\ Back /\ NP \in Nat
        /\ NoParticleDuplicated /\ PrefixUntouched
        /\ last >= 0 /\ pc = "swap" /\ pc' = "swap"
        /\ last' = last - 1 /\ tail' = tail - 1
        /\ UNCHANGED <<moveBegin, gone, ip, list, newBegin>>
    BY SizeAssumption DEF IInv, SwapTail, NearTail
  <1> DEFINE g == list[last]
  <1>1. /\ g \in Slot /\ tail \in Slot /\ moveBegin <= g /\ g <= tail
        /\ last \in 0..last /\ last \in Int /\ tail \in Int /\ moveBegin \in Nat
    <2>1. last \in Int /\ tail \in Int /\ tail <= NP - 1 /\ last \in 0..last /\ moveBegin \in Nat
      BY <1>0 DEF TypeOK
    <2>2. last <= g /\ g < tail + 1 /\ g \in Int
      BY <1>0, LastBelowFrontier DEF Frontier
    <2>3. moveBegin <= g
      BY <2>1, <1>0 DEF Within
    <2> QED BY <1>0, <2>1, <2>2, <2>3 DEF Slot
  <1>2. /\ arr'[g] = arr[tail] /\ arr'[tail] = arr[g]
        /\ \A s \in Slot : s # g /\ s # tail => arr'[s] = arr[s]
    BY <1>0, <1>1 DEF SwapTail, TypeOK
  <1>3. \A i \in 0..(last - 1) : list[i] < g /\ list[i] \in Int /\ i \in 0..last
    <2> TAKE i \in 0..(last - 1)
    <2>1. i \in 0..last /\ last - i > 0 /\ i \in Slot
      BY <1>0, <1>1 DEF TypeOK, Slot
    <2>2. list[i] + (last - i) <= g /\ list[i] \in Int
      BY <1>0, <1>1, <2>1 DEF Ordered, TypeOK
    <2> QED BY <1>1, <2>1, <2>2 DEF Slot
  <1>4. TypeOK'
    <2>1. arr' \in [Slot -> Slot]
      BY <1>0, <1>1 DEF SwapTail, TypeOK
    <2>2. tail - 1 \in -1..(NP - 1) /\ last - 1 \in -1..(NP - 1)
      BY <1>0, <1>1 DEF TypeOK, Slot
    <2> QED BY <1>0, <2>1, <2>2 DEF TypeOK
  <1>5. Ordered'
    BY <1>0, <1>1 DEF Ordered
  <1>6. Within'
    <2> SUFFICES ASSUME NEW i \in 0..(last - 1)
                 PROVE  moveBegin <= list[i] /\ list[i] < tail
      BY <1>0, <1>1 DEF Within, Frontier
    <2>1. moveBegin <= list[i]
      BY <1>0, <1>3 DEF Within
    <2> QED BY <1>1, <1>3, <2>1 DEF Slot
  <1>7. Front'
    <2> SUFFICES ASSUME NEW s \in Slot, s < tail
                 PROVE  arr'[s] \in gone <=> \E i \in 0..(last - 1) : list[i] = s
      BY <1>0, <1>1 DEF Front, Frontier, Slot
    <2>1. CASE s = g
      <3>1. ~ \E i \in 0..last : list[i] = tail
        <4> SUFFICES ASSUME NEW i \in 0..last, list[i] = tail PROVE FALSE
          OBVIOUS
        <4>1. i = last \/ i \in 0..(last - 1)
          BY <1>1
        <4> QED BY <4>1, <1>1, <1>3, <2>1 DEF Slot
      <3>2. arr[tail] \notin gone
        BY <3>1, <1>0, <1>1 DEF Front, Frontier
      <3>3. ~ \E i \in 0..(last - 1) : list[i] = g
        BY <1>3
      <3> QED BY <2>1, <3>2, <3>3, <1>2
    <2>2. CASE s # g
      <3>1. arr'[s] = arr[s]
        BY <2>2, <1>1, <1>2 DEF Slot
      <3>2. arr[s] \in gone <=> \E i \in 0..last : list[i] = s
        BY <1>0, <1>1 DEF Front, Frontier, Slot
      <3>3. (\E i \in 0..last : list[i] = s) <=> (\E i \in 0..(last - 1) : list[i] = s)
        BY <2>2, <1>1
      <3> QED BY <3>1, <3>2, <3>3
    <2> QED BY <2>1, <2>2
  <1>8. Back'
    <2> SUFFICES ASSUME NEW s \in Slot, s > tail - 1 PROVE arr'[s] \in gone
      BY <1>0 DEF Back
    <2>1. CASE s = tail
      <3>1. arr[g] \in gone
        BY <1>0, <1>1 DEF Front, Frontier, Slot
      <3> QED BY <2>1, <3>1, <1>2
    <2>2. CASE s > tail
      BY <2>2, <1>0, <1>1, <1>2 DEF Back, Slot
    <2> QED BY <2>1, <2>2, <1>1 DEF Slot
  <1>9. Gap' /\ Phase'
    BY <1>0 DEF Gap, Phase
  <1>10. NoParticleDuplicated'
    <2> SUFFICES ASSUME NEW s \in Slot, NEW u \in Slot, arr'[s] = arr'[u] PROVE s = u
      BY DEF NoParticleDuplicated
    <2> DEFINE from(x) == IF x = g THEN tail ELSE IF x = tail THEN g ELSE x
    <2>1. \A x \in Slot : from(x) \in Slot /\ arr'[x] = arr[from(x)]
      BY <1>1, <1>2
    <2>2. from(s) = from(u)
      BY <2>1, <1>0 DEF NoParticleDuplicated
    <2> QED BY <2>2
  <1>11. PrefixUntouched'
    BY <1>0, <1>1, <1>2 DEF PrefixUntouched, Slot
  <1> QED BY <1>4, <1>5, <1>6, <1>7, <1>8, <1>9, <1>10, <1>11 DEF IInv

(* The scalar loop ends with no listed slot within a vector of the tail.    *)
LEMMA EndSwapIInv == ASSUME IInv, EndSwap PROVE IInv'
  <1>1. /\ pc = "swap" /\ pc' = "block" /\ ~NearTail
        /\ UNCHANGED <<moveBegin, gone, ip, list, last, tail, arr, newBegin>>
    BY DEF EndSwap
  <1>2. TypeOK' /\ Ordered' /\ Back' /\ Phase' /\ NoParticleDuplicated' /\ PrefixUntouched'
    BY <1>1 DEF IInv, TypeOK, Ordered, Back, Phase, NoParticleDuplicated, PrefixUntouched
  <1>3. Within' /\ Front'
    BY <1>1 DEF IInv, Within, Front, Frontier
  <1>4. Gap'
    <2> SUFFICES ASSUME last >= 0 PROVE tail - list[last] >= VL
      BY <1>1 DEF Gap
    <2>1. list[last] \in Int /\ tail \in Int /\ VL \in Int
      BY LastBelowFrontier, SizeAssumption DEF IInv, TypeOK
    <2>2. ~(tail - list[last] < VL)
      BY <1>1 DEF NearTail
    <2> QED BY <2>1, <2>2
  <1> QED BY <1>2, <1>3, <1>4 DEF IInv

(* The vector exchange, from what it does to each slot. *)
LEMMA SwapBlockIInv == ASSUME IInv, SwapBlock PROVE IInv'
  <1>0. /\ TypeOK /\ Ordered /\ Within /\ Front /\ Back /\ Gap /\ NP \in Nat
        /\ NoParticleDuplicated /\ PrefixUntouched
        /\ last >= 0 /\ pc = "block" /\ pc' = "block"
        /\ last' = last - Lanes /\ tail' = tail - Lanes
        /\ UNCHANGED <<moveBegin, gone, ip, list, newBegin>>
    BY SizeAssumption DEF IInv, SwapBlock
  <1>1. /\ Lanes \in Int /\ 1 <= Lanes /\ Lanes <= VL /\ Lanes <= last + 1
        /\ last \in Int /\ tail \in Int /\ moveBegin \in Nat /\ VL \in Int
        /\ tail <= NP - 1 /\ tail - list[last] >= VL /\ list[last] \in Int
        /\ 0 <= list[last] /\ last <= list[last] /\ last <= NP - 1
    BY <1>0, LanesBound, LastBelowFrontier, SizeAssumption DEF Gap, TypeOK
  <1> DEFINE I == 0..(Lanes - 1)
  <1>2. /\ \A i \in I : /\ GatherSlot(i) \in Slot /\ BlockSlot(i) \in Slot
                        /\ last - Lanes + 1 + i \in 0..last
                        /\ moveBegin <= GatherSlot(i) /\ GatherSlot(i) < BlockSlot(0)
        /\ \A i, j \in I : GatherSlot(i) = GatherSlot(j) => i = j
    BY <1>0, GatherBelowBlock
  <1>3. /\ \A i \in I : /\ arr'[GatherSlot(i)] = arr[BlockSlot(i)]
                        /\ arr'[BlockSlot(i)] = arr[GatherSlot(i)]
        /\ \A s \in Slot : (\A i \in I : s # GatherSlot(i) /\ s # BlockSlot(i))
                             => arr'[s] = arr[s]
    BY SwapBlockExchanges
  <1>4. \A s \in Slot : s > tail - Lanes /\ s <= tail =>
                          \E i \in I : s = BlockSlot(i)
    <2> SUFFICES ASSUME NEW s \in Slot, s > tail - Lanes, s <= tail
                 PROVE  \E i \in I : s = BlockSlot(i)
      OBVIOUS
    <2>1. s - (tail - Lanes + 1) \in I /\ s = BlockSlot(s - (tail - Lanes + 1))
      BY <1>1 DEF BlockSlot, Slot
    <2> QED BY <2>1
  <1>5. \A i \in I : /\ BlockSlot(i) > tail - Lanes /\ BlockSlot(i) <= tail
                     /\ GatherSlot(i) <= tail - Lanes
    <2> TAKE i \in I
    <2>1. BlockSlot(i) > tail - Lanes /\ BlockSlot(i) <= tail /\ BlockSlot(0) = tail - Lanes + 1
      BY <1>1 DEF BlockSlot
    <2> QED BY <1>1, <1>2, <2>1 DEF Slot
  <1>6. \A k \in 0..last : k \in Slot /\ list[k] \in Int /\ list[k] <= tail - Lanes
                           /\ list[k] + (last - k) <= list[last]
    <2> TAKE k \in 0..last
    <2>1. k \in Slot /\ last \in 0..last
      BY <1>0, <1>1 DEF Slot
    <2>2. list[k] \in Int
      BY <2>1, <1>0 DEF TypeOK
    <2>3. list[k] + (last - k) <= list[last]
      BY <1>0, <2>1 DEF Ordered
    <2> QED BY <1>1, <2>1, <2>2, <2>3
  <1>7. \A k \in 0..last : k > last - Lanes => \E i \in I : list[k] = GatherSlot(i)
    <2> SUFFICES ASSUME NEW k \in 0..last, k > last - Lanes
                 PROVE  \E i \in I : list[k] = GatherSlot(i)
      OBVIOUS
    <2> DEFINE i == k - (last - Lanes + 1)
    <2>1. i \in I /\ last - Lanes + 1 + i = k
      BY <1>1
    <2> QED BY <2>1 DEF GatherSlot
  <1>8. \A k \in 0..(last - Lanes) : \A i \in I : list[k] # GatherSlot(i)
    <2> TAKE k \in 0..(last - Lanes)
    <2> TAKE i \in I
    <2> DEFINE m == last - Lanes + 1 + i
    <2>1. m \in 0..last /\ k \in 0..m /\ m - k > 0 /\ k \in 0..last
      BY <1>1
    <2>2. list[k] + (m - k) <= list[m]
      BY <1>0, <2>1 DEF Ordered
    <2> QED BY <1>6, <2>1, <2>2 DEF GatherSlot
  <1>9. TypeOK'
    <2>1. arr' \in [Slot -> Slot]
      <3>1. ASSUME NEW s \in Slot PROVE arr'[s] \in Slot
        <4>1. CASE \E i \in I : s = GatherSlot(i)
          BY <4>1, <1>0, <1>2, <1>3 DEF TypeOK
        <4>2. CASE \E i \in I : s = BlockSlot(i)
          BY <4>2, <1>0, <1>2, <1>3 DEF TypeOK
        <4>3. CASE \A i \in I : s # GatherSlot(i) /\ s # BlockSlot(i)
          BY <4>3, <1>0, <1>3 DEF TypeOK
        <4> QED BY <4>1, <4>2, <4>3
      <3>2. arr' = [s \in Slot |-> arr'[s]]
        BY DEF SwapBlock
      <3> QED BY <3>1, <3>2
    <2>2. tail - Lanes \in -1..(NP - 1) /\ last - Lanes \in -1..(NP - 1)
      BY <1>0, <1>1
    <2> QED BY <1>0, <2>1, <2>2 DEF TypeOK
  <1>10. Ordered'
    BY <1>0, <1>1 DEF Ordered
  <1>11. Within'
    <2> SUFFICES ASSUME NEW k \in 0..(last - Lanes)
                 PROVE  moveBegin <= list[k] /\ list[k] < tail - Lanes + 1
      BY <1>0, <1>1 DEF Within, Frontier
    <2>1. k \in 0..last
      BY <1>1
    <2> QED BY <1>0, <1>1, <1>6, <2>1 DEF Within
  <1>12. Front'
    <2> SUFFICES ASSUME NEW s \in Slot, s < tail - Lanes + 1
                 PROVE  arr'[s] \in gone <=> \E k \in 0..(last - Lanes) : list[k] = s
      BY <1>0, <1>1 DEF Front, Frontier
    <2>1. CASE \E i \in I : s = GatherSlot(i)
      <3>1. PICK i \in I : s = GatherSlot(i)
        BY <2>1
      <3>2. ~ \E k \in 0..last : list[k] = BlockSlot(i)
        BY <1>1, <1>5, <1>6
      <3>3. arr[BlockSlot(i)] \notin gone
        <4>1. BlockSlot(i) \in Slot /\ BlockSlot(i) < Frontier
          BY <1>0, <1>1, <1>2, <1>5 DEF Frontier, Slot
        <4> QED BY <4>1, <3>2, <1>0 DEF Front
      <3>4. ~ \E k \in 0..(last - Lanes) : list[k] = s
        BY <3>1, <1>8
      <3> QED BY <3>1, <3>3, <3>4, <1>3
    <2>2. CASE \A i \in I : s # GatherSlot(i)
      <3>1. \A i \in I : s # BlockSlot(i)
        BY <1>1, <1>5 DEF Slot
      <3>2. arr'[s] = arr[s]
        BY <2>2, <3>1, <1>3
      <3>3. arr[s] \in gone <=> \E k \in 0..last : list[k] = s
        BY <1>0, <1>1 DEF Front, Frontier, Slot
      <3>4. (\E k \in 0..last : list[k] = s) <=> (\E k \in 0..(last - Lanes) : list[k] = s)
        BY <2>2, <1>1, <1>7
      <3> QED BY <3>2, <3>3, <3>4
    <2> QED BY <2>1, <2>2
  <1>13. Back'
    <2> SUFFICES ASSUME NEW s \in Slot, s > tail - Lanes PROVE arr'[s] \in gone
      BY <1>0 DEF Back
    <2>1. CASE s <= tail
      <3>1. PICK i \in I : s = BlockSlot(i)
        BY <2>1, <1>4
      <3>2. GatherSlot(i) \in Slot /\ GatherSlot(i) < Frontier
        BY <1>0, <1>1, <1>2, <1>5 DEF Frontier, Slot
      <3>3. \E k \in 0..last : list[k] = GatherSlot(i)
        BY <1>2 DEF GatherSlot
      <3>4. arr[GatherSlot(i)] \in gone
        BY <3>2, <3>3, <1>0 DEF Front
      <3> QED BY <3>1, <3>4, <1>3
    <2>2. CASE s > tail
      <3>1. \A i \in I : s # GatherSlot(i) /\ s # BlockSlot(i)
        BY <2>2, <1>1, <1>2, <1>5 DEF Slot
      <3> QED BY <2>2, <3>1, <1>0, <1>3 DEF Back
    <2> QED BY <2>1, <2>2, <1>1 DEF Slot
  <1>14. Gap'
    <2> SUFFICES ASSUME last - Lanes >= 0
                 PROVE  (tail - Lanes) - list[last - Lanes] >= VL
      BY <1>0 DEF Gap
    <2>1. last - Lanes \in 0..last
      BY <1>1
    <2>2. list[last - Lanes] + (last - (last - Lanes)) <= list[last] /\ list[last - Lanes] \in Int
      BY <1>6, <2>1
    <2> QED BY <1>1, <2>2
  <1>15. Phase'
    BY <1>0 DEF Phase
  <1>16. NoParticleDuplicated'
    <2>1. ASSUME NEW s \in Slot
          PROVE  \E t \in Slot : arr'[s] = arr[t] /\ Exchanged(s, t)
      <3>1. CASE \E i \in I : s = GatherSlot(i)
        BY <3>1, <1>2, <1>3 DEF Exchanged
      <3>2. CASE \E i \in I : s = BlockSlot(i)
        BY <3>2, <1>2, <1>3 DEF Exchanged
      <3>3. CASE \A i \in I : s # GatherSlot(i) /\ s # BlockSlot(i)
        BY <3>3, <1>3 DEF Exchanged
      <3> QED BY <3>1, <3>2, <3>3
    <2>2. \A i, j \in I : BlockSlot(i) = BlockSlot(j) => i = j
      BY <1>1 DEF BlockSlot
    <2>3. \A i, j \in I : GatherSlot(i) # BlockSlot(j)
      BY <1>1, <1>2, <1>5 DEF Slot
    <2>4. ASSUME NEW s \in Slot, NEW u \in Slot, NEW t \in Slot, Exchanged(s, t), Exchanged(u, t)
          PROVE  s = u
      BY <2>2, <2>3, <2>4, <1>2 DEF Exchanged
    <2>5. ASSUME NEW s \in Slot, NEW u \in Slot, arr'[s] = arr'[u]
          PROVE  s = u
      <3>1. PICK t \in Slot : arr'[s] = arr[t] /\ Exchanged(s, t)
        BY <2>1
      <3>2. PICK v \in Slot : arr'[u] = arr[v] /\ Exchanged(u, v)
        BY <2>1
      <3>3. t = v
        BY <2>5, <3>1, <3>2, <1>0 DEF NoParticleDuplicated
      <3> QED BY <2>4, <3>1, <3>2, <3>3
    <2> QED BY <2>5 DEF NoParticleDuplicated
  <1>17. PrefixUntouched'
    <2> SUFFICES ASSUME NEW s \in Slot, s < moveBegin PROVE arr'[s] = s
      BY <1>0 DEF PrefixUntouched
    <2>1. 0 \in I
      BY <1>1
    <2>2. \A i \in I : s # GatherSlot(i) /\ s # BlockSlot(i)
      BY <1>1, <1>2, <1>5, <2>1 DEF Slot
    <2>3. arr[s] = s
      BY <1>0 DEF PrefixUntouched
    <2> QED BY <2>2, <2>3, <1>3
  <1> QED
    BY <1>9, <1>10, <1>11, <1>12, <1>13, <1>14, <1>15, <1>16, <1>17 DEF IInv

(* With an empty list, the particles behind the tail are all the gone ones. *)
LEMMA FinishIInv == ASSUME IInv, Finish PROVE IInv'
  <1>1. /\ pc = "block" /\ pc' = "done" /\ last < 0 /\ newBegin' = tail + 1
        /\ UNCHANGED <<moveBegin, gone, ip, list, last, tail, arr>>
    BY DEF Finish
  <1>2. last = -1 /\ tail + 1 \in 0..NP
    BY <1>1, SizeAssumption DEF IInv, TypeOK
  <1>3. TypeOK' /\ Phase'
    BY <1>1, <1>2 DEF IInv, TypeOK, Phase
  <1>4. Ordered' /\ Within' /\ Front' /\ Back' /\ Gap' /\ NoParticleDuplicated' /\ PrefixUntouched'
    BY <1>1 DEF IInv, Ordered, Within, Front, Back, Gap, Frontier,
                NoParticleDuplicated, PrefixUntouched
  <1> QED BY <1>3, <1>4 DEF IInv

---------------------------------------------------------------------------
(* The strengthened invariant holds in every state of every behaviour.     *)
THEOREM Inductive == Spec => []IInv
  <1>1. ASSUME IInv, [Next]_vars PROVE IInv'
    <2>1. CASE UNCHANGED vars
      BY <1>1, <2>1 DEF vars, IInv, TypeOK, Ordered, Within, Front, Back, Gap, Phase,
                        Frontier, NoParticleDuplicated, PrefixUntouched
    <2> QED BY <1>1, <2>1, ScanIInv, SwapTailIInv, EndSwapIInv, SwapBlockIInv,
               FinishIInv DEF Next
  <1> QED BY <1>1, InitIInv, PTL DEF Spec

(* The state of the compaction keeps its types: no index leaves the arrays. *)
THEOREM TypeCorrect == Spec => []TypeOK
  <1>1. IInv => TypeOK
    BY DEF IInv
  <1> QED BY <1>1, Inductive, PTL

(* fusion_pack_unr ends with exactly the particles that left the tile from  *)
(* g_new_particles_begin on.                                               *)
THEOREM PartitionCorrect == Spec => []Partitioned
  <1>1. IInv => Partitioned
    <2> SUFFICES ASSUME IInv, pc = "done", NEW s \in Slot
                 PROVE  s >= newBegin <=> arr[s] \in gone
      BY DEF Partitioned
    <2>1. last = -1 /\ newBegin = tail + 1 /\ tail \in Int /\ s \in Int
      BY DEF IInv, Phase, TypeOK, Slot
    <2>2. CASE s > tail
      BY <2>1, <2>2 DEF IInv, Back
    <2>3. CASE s <= tail
      <3>1. ~ \E i \in 0..last : list[i] = s
        BY <2>1
      <3>2. s < Frontier
        BY <2>1, <2>3 DEF Frontier
      <3> QED BY <2>1, <2>3, <3>1, <3>2 DEF IInv, Front
    <2> QED BY <2>1, <2>2, <2>3
  <1> QED BY <1>1, Inductive, PTL

(* No particle of the tile is overwritten or copied by the compaction.      *)
THEOREM PermutationCorrect == Spec => []NoParticleDuplicated
  <1>1. IInv => NoParticleDuplicated
    BY DEF IInv
  <1> QED BY <1>1, Inductive, PTL

(* The sorted prefix, which the bins describe, is never touched.            *)
THEOREM PrefixCorrect == Spec => []PrefixUntouched
  <1>1. IInv => PrefixUntouched
    BY DEF IInv
  <1> QED BY <1>1, Inductive, PTL

(* The vector store and scatter never write the same slot.                  *)
THEOREM BlocksCorrect == Spec => []BlocksDisjoint
  <1>1. IInv => BlocksDisjoint
    <2> SUFFICES ASSUME IInv, pc = "block", last >= 0
                 PROVE  GatherSlot(Lanes - 1) < BlockSlot(0)
      BY DEF BlocksDisjoint
    <2>1. Lanes - 1 \in 0..(Lanes - 1)
      BY LanesBound, SizeAssumption DEF IInv
    <2> QED BY <2>1, GatherBelowBlock
  <1> QED BY <1>1, Inductive, PTL
==============================================================================
