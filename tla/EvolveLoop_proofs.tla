-------------------------- MODULE EvolveLoop_proofs --------------------------
(***************************************************************************)
(* For any number of ranks, any script of calls, any stop time, tolerance   *)
(* and interval, any signals and any number of crashes.                     *)
(*                                                                         *)
(* Two facts about one rank, whatever the others do: Evolve ends its loop   *)
(* without a break only after the last half push, and a run of the job      *)
(* dumps no step twice.  What is carried from step to step is small (IInv): *)
(* before the step is counted, that the last push was the half push if the  *)
(* step was the last one (LastHalfPush), and which steps m_already_done     *)
(* still has to stop (Dumped).                                             *)
(*                                                                         *)
(* Then the ranks together (CInv).  What a rank does next is a function of  *)
(* what it has and of what rank 0 has broadcast for the step (Advances), so *)
(* there is one course of events, a chain of snapshots in which every rank  *)
(* has a place: a rank at the end makes the chain longer, one that is       *)
(* behind makes the step the chain already has.  Calls, steps and places    *)
(* are passed in order along the chain (Follows), so two ranks at the same  *)
(* place hold the same.  A crash starts a new chain, which needs that all   *)
(* parts of a checkpoint are of one run of the job and agree with the flag  *)
(* of rank 0 (OnDisk).                                                     *)
(***************************************************************************)
EXTENDS EvolveLoop, TLAPS

Typed ==
    /\ stop \in Int
    /\ pc \in [Rank -> Places]
    /\ call \in [Rank -> Nat \ {0}]
    /\ sim \in [Rank -> Object]
    /\ wrote \in [Rank -> Seq(Nat)]
    /\ disk \subseteq [step : Nat, rank : Rank, sync : BOOLEAN, mom : Int,
                       domain : Nat, life : Nat]
    /\ crashes \in Nat

(* Between Begin and HandleBoundaries the step is not counted yet, and the  *)
(* test of lines 129 and 182 is about the next one.                         *)
LastHalfPush(place, p) ==
    /\ place \in {"begun", "pushed"} => p.istep < p.limit
    /\ place = "pushed" /\ IsLast(p) => p.sync
    /\ place \in {"stepped", "flushed", "handled"} =>
          /\ p.istep <= p.limit
          /\ AtStop(Time(p.istep)) \/ p.istep = p.limit => p.sync

(* No dump is of a step to come ...                                         *)
Past(p, w) ==
    /\ \A i \in 1 .. Len(w) - 1 : w[i] < w[i + 1]
    /\ \A i \in 1 .. Len(w) : w[i] <= p.istep

(* ... and one of the present step has set m_already_done, unless the next  *)
(* step has begun and cleared it.                                           *)
Dumped(p, w) == ~p.done => \A i \in 1 .. Len(w) : w[i] < p.istep

Local(place, p, w) ==
    /\ LastHalfPush(place, p)
    /\ Past(p, w)
    /\ place \notin {"begun", "pushed"} => Dumped(p, w)

IInv == Typed /\ \A r \in Rank : Local(pc[r], sim[r], wrote[r])

-----------------------------------------------------------------------------
(* The objects the steps of a rank make are objects again. *)

LEMMA FlushedObject ==
    ASSUME NEW p \in Object, NEW n, NEW forced \in BOOLEAN
    PROVE  LET q == AfterFlush(p, n, forced) IN
           /\ q \in Object
           /\ q.istep = p.istep /\ q.limit = p.limit /\ q.sync = p.sync
           /\ q.done = (p.done \/ Dumps(p, n, forced))
  <1> DEFINE d == p.done \/ Dumps(p, n, forced)
             v == p.view + p.moved
             q == [p EXCEPT !.view = v, !.done = d]
  <1>1. AfterFlush(p, n, forced) = q
    BY Zenon DEF AfterFlush
  <1>2. d \in BOOLEAN /\ v \in Nat
    BY DEF Object
  <1>3. q \in Object
    <2> HIDE DEF d, v
    <2> QED BY <1>2, Zenon DEF Object
  <1>4. q.istep = p.istep /\ q.limit = p.limit /\ q.sync = p.sync /\ q.done = d
    <2> HIDE DEF d, v
    <2> QED BY Zenon DEF Object
  <1> QED BY <1>1, <1>3, <1>4, Zenon

LEMMA FilledObject ==
    ASSUME NEW p \in Object
    PROVE  /\ Filled(p) \in Object
           /\ Filled(p).istep = p.istep /\ Filled(p).limit = p.limit
           /\ Filled(p).done = p.done
  <1> DEFINE m == p.mom - 1
             q == [p EXCEPT !.mom = m, !.sync = FALSE]
  <1>1. m \in Int
    BY DEF Object
  <1>2. q \in Object /\ q.istep = p.istep /\ q.limit = p.limit /\ q.done = p.done
    <2> HIDE DEF m
    <2> QED BY <1>1, Zenon DEF Object
  <1>3. Filled(p) = IF p.sync THEN q ELSE p
    BY Zenon DEF Filled
  <1> HIDE DEF q
  <1> QED BY <1>2, <1>3, Zenon

LEMMA SteppedObject ==
    ASSUME NEW p \in Object
    PROVE  /\ Stepped(p) \in Object
           /\ Stepped(p).istep = p.istep /\ Stepped(p).limit = p.limit
           /\ Stepped(p).done = p.done
           /\ IsLast(Stepped(p)) => Stepped(p).sync
  <1> DEFINE m == p.mom + 2
             l == p.last \/ IsLast(p)
             q == [p EXCEPT !.mom = m, !.last = l]
             n == q.mom + 1
             s == [q EXCEPT !.mom = n, !.sync = TRUE]
  <1>1. m \in Int /\ l \in BOOLEAN
    BY DEF Object
  <1>2. q \in Object /\ q.istep = p.istep /\ q.limit = p.limit /\ q.done = p.done
    <2> HIDE DEF m, l
    <2> QED BY <1>1, Zenon DEF Object
  <1>3. Stepped(p) = IF IsLast(p) THEN s ELSE q
    BY Zenon DEF Stepped
  <1> HIDE DEF q
  <1>4. n \in Int
    BY <1>2 DEF Object
  <1>5. /\ s \in Object /\ s.istep = q.istep /\ s.limit = q.limit
        /\ s.done = q.done /\ s.sync = TRUE
    <2> HIDE DEF n
    <2> QED BY <1>2, <1>4, Zenon DEF Object
  <1> HIDE DEF s
  <1>6. IsLast(q) <=> IsLast(p)
    BY <1>2, Zenon DEF IsLast
  <1> QED BY <1>2, <1>3, <1>5, <1>6, Zenon

-----------------------------------------------------------------------------
(* What every step of a rank leaves as it is, or of its type.               *)
Rest ==
    /\ call' \in [Rank -> Nat \ {0}]
    /\ disk' \subseteq [step : Nat, rank : Rank, sync : BOOLEAN, mom : Int,
                        domain : Nat, life : Nat]
    /\ stop' = stop /\ crashes' = crashes

(* A step of one rank leaves the others alone, and what it makes of its own *)
(* state is all there is to look at.                                        *)
LEMMA OneRank ==
    ASSUME IInv, NEW r \in Rank,
           NEW place \in Places, NEW p \in Object, NEW w \in Seq(Nat),
           Local(place, p, w),
           pc' = [pc EXCEPT ![r] = place],
           sim' = [sim EXCEPT ![r] = p],
           wrote' = [wrote EXCEPT ![r] = w],
           Rest
    PROVE  IInv'
  <1>1. Typed'
    BY Zenon DEF IInv, Typed, Rest
  <1>2. stop' = stop
    BY DEF Rest
  <1>3. ASSUME NEW q \in Rank PROVE Local(pc[q], sim[q], wrote[q])'
    <2>1. pc[q]' = (IF q = r THEN place ELSE pc[q])
          /\ sim[q]' = (IF q = r THEN p ELSE sim[q])
          /\ wrote[q]' = (IF q = r THEN w ELSE wrote[q])
      BY Zenon DEF IInv, Typed
    <2>2. Local(pc[q], sim[q], wrote[q])
      BY DEF IInv
    <2>3. CASE q = r
      <3>1. pc[q]' = place /\ sim[q]' = p /\ wrote[q]' = w
        BY <2>1, <2>3
      <3> QED BY <1>2, <3>1, Zenon DEF Local, LastHalfPush, Past, Dumped, IsLast, AtStop, Time
    <2>4. CASE q # r
      <3>1. pc[q]' = pc[q] /\ sim[q]' = sim[q] /\ wrote[q]' = wrote[q]
        BY <2>1, <2>4
      <3> QED BY <1>2, <2>2, <3>1, Zenon DEF Local, LastHalfPush, Past, Dumped, IsLast, AtStop, Time
    <2> QED BY <2>3, <2>4
  <1> QED BY <1>1, <1>3 DEF IInv

(* FilterComputePackFlush: a dump is of the present step, which no earlier  *)
(* dump is of, and sets m_already_done.                                     *)
LEMMA FlushStep ==
    ASSUME Typed, NEW r \in Rank, NEW n, NEW forced \in BOOLEAN,
           Flush(r, sim[r], n, forced),
           Past(sim[r], wrote[r]), Dumped(sim[r], wrote[r])
    PROVE  \E p \in Object, w \in Seq(Nat) :
             /\ sim' = [sim EXCEPT ![r] = p]
             /\ wrote' = [wrote EXCEPT ![r] = w]
             /\ p.istep = sim[r].istep /\ p.limit = sim[r].limit
             /\ p.sync = sim[r].sync
             /\ Past(p, w) /\ Dumped(p, w)
             /\ disk' \subseteq [step : Nat, rank : Rank, sync : BOOLEAN,
                                 mom : Int, domain : Nat, life : Nat]
  <1> DEFINE p == AfterFlush(sim[r], n, forced)
  <1>1. sim[r] \in Object /\ wrote[r] \in Seq(Nat)
    BY DEF Typed
  <1>2. /\ p \in Object
        /\ p.istep = sim[r].istep /\ p.limit = sim[r].limit
        /\ p.sync = sim[r].sync
        /\ p.done = (sim[r].done \/ Dumps(sim[r], n, forced))
    BY <1>1, FlushedObject
  <1>3. sim' = [sim EXCEPT ![r] = p]
    BY DEF Flush
  <1>4. p.istep \in Nat
    BY <1>2 DEF Object
  <1>5. CASE Dumps(sim[r], n, forced)
    <2> DEFINE w == Append(wrote[r], p.istep)
    <2>1. wrote' = [wrote EXCEPT ![r] = w] /\ disk' = Saved(Part(r, p))
      BY <1>5, Zenon DEF Flush
    <2>2. ~sim[r].done /\ p.done
      BY <1>2, <1>5 DEF Dumps
    <2>3. Part(r, p) \in [step : Nat, rank : Rank, sync : BOOLEAN, mom : Int,
                          domain : Nat, life : Nat]
      BY <1>2 DEF Part, Object, Typed
    <2>4. disk' \subseteq [step : Nat, rank : Rank, sync : BOOLEAN, mom : Int,
                           domain : Nat, life : Nat]
      BY <2>1, <2>3, Zenon DEF Saved, Typed
    <2> HIDE DEF p
    <2>5. /\ w \in Seq(Nat) /\ Len(w) = Len(wrote[r]) + 1
          /\ Len(wrote[r]) \in Nat
          /\ \A i \in 1 .. Len(wrote[r]) : w[i] = wrote[r][i] /\ w[i] \in Nat
          /\ w[Len(wrote[r]) + 1] = p.istep
      BY <1>1, <1>4
    <2>6. \A i \in 1 .. Len(wrote[r]) : wrote[r][i] < p.istep
      BY <1>2, <2>2 DEF Dumped
    <2> HIDE DEF w
    <2>7. \A i \in 1 .. Len(w) : w[i] <= p.istep
      <3> TAKE i \in 1 .. Len(w)
      <3>1. CASE i = Len(wrote[r]) + 1
        BY <1>4, <2>5, <3>1
      <3>2. CASE i # Len(wrote[r]) + 1
        <4>1. i \in 1 .. Len(wrote[r])
          BY <2>5, <3>2
        <4> QED BY <1>4, <2>5, <2>6, <4>1
      <3> QED BY <3>1, <3>2
    <2>8. \A i \in 1 .. Len(w) - 1 : w[i] < w[i + 1]
      <3> TAKE i \in 1 .. Len(w) - 1
      <3>1. CASE i = Len(wrote[r])
        BY <2>5, <2>6, <3>1
      <3>2. CASE i # Len(wrote[r])
        <4>1. i \in 1 .. Len(wrote[r]) - 1 /\ i + 1 \in 1 .. Len(wrote[r])
          BY <2>5, <3>2
        <4>2. wrote[r][i] < wrote[r][i + 1]
          BY <4>1 DEF Past
        <4> QED BY <2>5, <4>1, <4>2
      <3> QED BY <3>1, <3>2
    <2>9. Past(p, w) /\ Dumped(p, w)
      BY <2>2, <2>7, <2>8 DEF Past, Dumped
    <2> QED BY <1>2, <1>3, <2>1, <2>4, <2>5, <2>9
  <1>6. CASE ~Dumps(sim[r], n, forced)
    <2>1. wrote' = wrote /\ disk' = disk
      BY <1>6, Zenon DEF Flush
    <2>2. wrote' = [wrote EXCEPT ![r] = wrote[r]]
      BY <2>1, Zenon DEF Typed
    <2>3. p.done = sim[r].done
      BY <1>1, <1>2, <1>6 DEF Object
    <2> HIDE DEF p
    <2>4. Past(p, wrote[r]) /\ Dumped(p, wrote[r])
      BY <1>2, <2>3 DEF Past, Dumped
    <2> QED BY <1>1, <1>2, <1>3, <2>1, <2>2, <2>4 DEF Typed
  <1> QED BY <1>5, <1>6

-----------------------------------------------------------------------------
LEMMA CallsCount ==
    ASSUME Typed, NEW r \in Rank
    PROVE  [call EXCEPT ![r] = @ + 1] \in [Rank -> Nat \ {0}]
  BY DEF Typed

LEMMA EnterKeeps == ASSUME IInv, NEW r \in Rank, Enter(r) PROVE IInv'
  <1> DEFINE p == [sim[r] EXCEPT !.limit = NumStepsMax(sim[r], Script[call[r]])]
  <1>1. sim[r] \in Object /\ wrote[r] \in Seq(Nat) /\ call[r] \in Nat \ {0}
    BY DEF IInv, Typed
  <1>2. NumStepsMax(sim[r], Script[call[r]]) \in Int
    <2>1. Script \in Seq(Int) /\ call[r] \in 1 .. Len(Script)
      BY <1>1, EvolveAssumption DEF Enter
    <2>2. Script[call[r]] \in Int
      BY <2>1
    <2> QED BY <1>1, <2>2, EvolveAssumption DEF NumStepsMax, Object
  <1>3. /\ p \in Object /\ p.istep = sim[r].istep /\ p.done = sim[r].done
    BY <1>1, <1>2, Zenon DEF Object
  <1>4. sim' = [sim EXCEPT ![r] = p] /\ wrote' = [wrote EXCEPT ![r] = wrote[r]]
    BY Zenon DEF Enter, IInv, Typed
  <1> HIDE DEF p
  <1>5. Local("loop", p, wrote[r])
    <2>1. Local("outside", sim[r], wrote[r])
      BY Zenon DEF Enter, At, IInv
    <2> QED BY <1>3, <2>1 DEF Local, LastHalfPush, Past, Dumped
  <1>6. pc' = [pc EXCEPT ![r] = "loop"] /\ "loop" \in Places
    BY DEF Enter, At, Places
  <1>7. Rest
    BY Zenon DEF Enter, IInv, Typed, Rest
  <1> QED BY <1>1, <1>3, <1>4, <1>5, <1>6, <1>7, OneRank, Zenon

LEMMA BeginKeeps == ASSUME IInv, NEW r \in Rank, Begin(r) PROVE IInv'
  <1> DEFINE p == [sim[r] EXCEPT !.done = FALSE]
  <1>1. sim[r] \in Object /\ wrote[r] \in Seq(Nat)
    BY DEF IInv, Typed
  <1>2. p \in Object /\ p.istep = sim[r].istep /\ p.limit = sim[r].limit
    BY <1>1 DEF Object
  <1>3. sim' = [sim EXCEPT ![r] = p] /\ wrote' = [wrote EXCEPT ![r] = wrote[r]]
    BY Zenon DEF Begin, IInv, Typed
  <1>4. sim[r].istep < sim[r].limit
    BY DEF Begin, Continues
  <1> HIDE DEF p
  <1>5. Local("begun", p, wrote[r])
    BY <1>2, <1>4 DEF Local, LastHalfPush, Past, IInv
  <1>6. pc' = [pc EXCEPT ![r] = "begun"] /\ "begun" \in Places
    BY DEF Begin, At, Places
  <1>7. Rest
    BY Zenon DEF Begin, IInv, Typed, Rest
  <1> QED BY <1>1, <1>2, <1>3, <1>5, <1>6, <1>7, OneRank, Zenon

LEMMA PushKeeps == ASSUME IInv, NEW r \in Rank, Push(r) PROVE IInv'
  <1> DEFINE p == Stepped(Filled(sim[r]))
  <1>1. sim[r] \in Object /\ wrote[r] \in Seq(Nat)
    BY DEF IInv, Typed
  <1>2. /\ p \in Object /\ p.istep = sim[r].istep /\ p.limit = sim[r].limit
        /\ IsLast(p) => p.sync
    BY <1>1, FilledObject, SteppedObject
  <1>3. sim' = [sim EXCEPT ![r] = p] /\ wrote' = [wrote EXCEPT ![r] = wrote[r]]
    BY Zenon DEF Push, IInv, Typed
  <1>4. Local("begun", sim[r], wrote[r])
    BY Zenon DEF Push, At, IInv
  <1> HIDE DEF p
  <1>5. Local("pushed", p, wrote[r])
    BY <1>2, <1>4 DEF Local, LastHalfPush, Past
  <1>6. pc' = [pc EXCEPT ![r] = "pushed"] /\ "pushed" \in Places
    BY DEF Push, At, Places
  <1>7. Rest
    BY Zenon DEF Push, IInv, Typed, Rest
  <1> QED BY <1>1, <1>2, <1>3, <1>5, <1>6, <1>7, OneRank, Zenon

LEMMA HandleBoundariesKeeps ==
    ASSUME IInv, NEW r \in Rank, HandleBoundaries(r) PROVE IInv'
  <1> DEFINE n == sim[r].istep + 1
             d == sim[r].domain + 1
             p == [sim[r] EXCEPT !.istep = n, !.domain = d, !.moved = 1]
  <1>1. sim[r] \in Object /\ wrote[r] \in Seq(Nat)
    BY DEF IInv, Typed
  <1>2. n \in Nat /\ d \in Nat /\ sim[r].istep \in Nat /\ sim[r].limit \in Int
    BY <1>1 DEF Object
  <1>3. /\ p \in Object /\ p.istep = n /\ p.limit = sim[r].limit
        /\ p.sync = sim[r].sync
    <2> HIDE DEF n, d
    <2>1. 1 \in {0, 1}
      OBVIOUS
    <2> QED BY <1>1, <1>2, <2>1, Zenon DEF Object
  <1>4. sim' = [sim EXCEPT ![r] = p] /\ wrote' = [wrote EXCEPT ![r] = wrote[r]]
    BY Zenon DEF HandleBoundaries, IInv, Typed
  <1>5. Local("pushed", sim[r], wrote[r])
    BY Zenon DEF HandleBoundaries, At, IInv
  <1> HIDE DEF p
  <1>6. \A i \in 1 .. Len(wrote[r]) : wrote[r][i] < n
    <2> TAKE i \in 1 .. Len(wrote[r])
    <2>1. wrote[r][i] \in Nat /\ wrote[r][i] <= sim[r].istep
      BY <1>1, <1>5 DEF Local, Past
    <2> QED BY <1>2, <2>1
  <1>7. Past(p, wrote[r]) /\ Dumped(p, wrote[r])
    <2>1. \A i \in 1 .. Len(wrote[r]) : wrote[r][i] \in Nat
      BY <1>1
    <2> QED BY <1>2, <1>3, <1>5, <1>6, <2>1 DEF Local, Past, Dumped
  <1>8. LastHalfPush("stepped", p)
    <2>1. n <= sim[r].limit
      BY <1>2, <1>5 DEF Local, LastHalfPush
    <2>2. AtStop(Time(n)) \/ n = sim[r].limit => IsLast(sim[r])
      BY <1>2 DEF IsLast
    <2>3. IsLast(sim[r]) => sim[r].sync
      BY <1>5 DEF Local, LastHalfPush
    <2> QED BY <1>3, <2>1, <2>2, <2>3 DEF LastHalfPush
  <1>9. Local("stepped", p, wrote[r])
    BY <1>7, <1>8 DEF Local
  <1>10. pc' = [pc EXCEPT ![r] = "stepped"] /\ "stepped" \in Places
    BY DEF HandleBoundaries, At, Places
  <1>11. Rest
    BY Zenon DEF HandleBoundaries, IInv, Typed, Rest
  <1> QED BY <1>1, <1>3, <1>4, <1>9, <1>10, <1>11, OneRank, Zenon

LEMMA DiagnoseKeeps == ASSUME IInv, NEW r \in Rank, Diagnose(r) PROVE IInv'
  <1>1. Local("stepped", sim[r], wrote[r])
    BY Zenon DEF Diagnose, At, IInv
  <1>2. Past(sim[r], wrote[r]) /\ Dumped(sim[r], wrote[r])
    BY <1>1 DEF Local
  <1>3. Flush(r, sim[r], sim[r].istep - 1, FALSE)
    BY DEF Diagnose
  <1>4. Typed
    BY DEF IInv
  <1>5. PICK p \in Object, w \in Seq(Nat) :
             /\ sim' = [sim EXCEPT ![r] = p]
             /\ wrote' = [wrote EXCEPT ![r] = w]
             /\ p.istep = sim[r].istep /\ p.limit = sim[r].limit
             /\ p.sync = sim[r].sync
             /\ Past(p, w) /\ Dumped(p, w)
             /\ disk' \subseteq [step : Nat, rank : Rank, sync : BOOLEAN,
                                 mom : Int, domain : Nat, life : Nat]
    BY <1>2, <1>3, <1>4, FlushStep
  <1>6. Local("flushed", p, w)
    BY <1>1, <1>5 DEF Local, LastHalfPush
  <1>7. pc' = [pc EXCEPT ![r] = "flushed"] /\ "flushed" \in Places
    BY DEF Diagnose, At, Places
  <1> QED BY <1>5, <1>6, <1>7, OneRank, Zenon DEF Diagnose, IInv, Typed, Rest

LEMMA HandleSignalsKeeps == ASSUME IInv, NEW r \in Rank, HandleSignals(r) PROVE IInv'
  <1>1. Local("flushed", sim[r], wrote[r])
    BY Zenon DEF HandleSignals, At, IInv
  <1>2. Past(sim[r], wrote[r]) /\ Dumped(sim[r], wrote[r])
    BY <1>1 DEF Local
  <1>3. Typed
    BY DEF IInv
  <1>4. pc' = [pc EXCEPT ![r] = "handled"] /\ "handled" \in Places
    BY DEF HandleSignals, At, Places
  <1>5. CASE "checkpoint" \in Received(r)
    <2>1. Flush(r, sim[r], sim[r].istep, TRUE)
      BY <1>5, Zenon DEF HandleSignals
    <2>2. PICK p \in Object, w \in Seq(Nat) :
             /\ sim' = [sim EXCEPT ![r] = p]
             /\ wrote' = [wrote EXCEPT ![r] = w]
             /\ p.istep = sim[r].istep /\ p.limit = sim[r].limit
             /\ p.sync = sim[r].sync
             /\ Past(p, w) /\ Dumped(p, w)
             /\ disk' \subseteq [step : Nat, rank : Rank, sync : BOOLEAN,
                                 mom : Int, domain : Nat, life : Nat]
      BY <1>2, <1>3, <2>1, FlushStep
    <2>3. Local("handled", p, w)
      BY <1>1, <2>2 DEF Local, LastHalfPush
    <2> QED BY <1>4, <2>2, <2>3, OneRank, Zenon DEF HandleSignals, IInv, Typed, Rest
  <1>6. CASE "checkpoint" \notin Received(r)
    <2>1. sim[r] \in Object /\ wrote[r] \in Seq(Nat)
      BY DEF IInv, Typed
    <2>2. sim' = [sim EXCEPT ![r] = sim[r]] /\ wrote' = [wrote EXCEPT ![r] = wrote[r]]
          /\ disk' = disk
      BY <1>6, Zenon DEF HandleSignals, IInv, Typed
    <2>3. Local("handled", sim[r], wrote[r])
      BY <1>1 DEF Local, LastHalfPush
    <2> QED BY <1>4, <2>1, <2>2, <2>3, OneRank, Zenon DEF HandleSignals, IInv, Typed, Rest
  <1> QED BY <1>5, <1>6

LEMMA CheckStopKeeps == ASSUME IInv, NEW r \in Rank, CheckStop(r) PROVE IInv'
  <1> DEFINE exit == "break" \in requested[r]
             over == AtStop(Time(sim[r].istep)) \/ exit
             place == IF over THEN "after" ELSE "loop"
             p == [sim[r] EXCEPT !.exit = exit]
  <1>1. sim[r] \in Object /\ wrote[r] \in Seq(Nat)
    BY DEF IInv, Typed
  <1>2. exit \in BOOLEAN
    OBVIOUS
  <1>3. p \in Object /\ p.istep = sim[r].istep /\ p.done = sim[r].done
    <2> HIDE DEF exit
    <2> QED BY <1>1, <1>2 DEF Object
  <1>4. sim' = [sim EXCEPT ![r] = p] /\ wrote' = [wrote EXCEPT ![r] = wrote[r]]
    BY Zenon DEF CheckStop, IInv, Typed
  <1>5. pc' = [pc EXCEPT ![r] = place] /\ pc[r] = "handled"
    BY Zenon DEF CheckStop, At
  <1>6. place \in Places /\ place \in {"after", "loop"}
    BY DEF Places
  <1> HIDE DEF p, place
  <1>7. Local(place, p, wrote[r])
    <2>1. Local("handled", sim[r], wrote[r])
      BY <1>5, Zenon DEF IInv
    <2> QED BY <1>3, <1>6, <2>1 DEF Local, LastHalfPush, Past, Dumped
  <1>8. Rest
    BY Zenon DEF CheckStop, IInv, Typed, Rest
  <1> QED BY <1>1, <1>3, <1>4, <1>5, <1>6, <1>7, <1>8, OneRank, Zenon

LEMMA LoopEndsKeeps == ASSUME IInv, NEW r \in Rank, LoopEnds(r) PROVE IInv'
  <1>1. sim[r] \in Object /\ wrote[r] \in Seq(Nat)
    BY DEF IInv, Typed
  <1>2. Local("loop", sim[r], wrote[r])
    BY Zenon DEF LoopEnds, At, IInv
  <1>3. Local("after", sim[r], wrote[r])
    BY <1>2 DEF Local, LastHalfPush
  <1>4. pc' = [pc EXCEPT ![r] = "after"] /\ "after" \in Places
    BY DEF LoopEnds, At, Places
  <1>5. sim' = [sim EXCEPT ![r] = sim[r]] /\ wrote' = [wrote EXCEPT ![r] = wrote[r]]
    BY Zenon DEF LoopEnds, IInv, Typed
  <1>6. Rest
    BY Zenon DEF LoopEnds, IInv, Typed, Rest
  <1> QED BY <1>1, <1>3, <1>4, <1>5, <1>6, OneRank, Zenon

LEMMA LeaveKeeps == ASSUME IInv, NEW r \in Rank, Leave(r) PROVE IInv'
  <1>1. Local("after", sim[r], wrote[r])
    BY Zenon DEF Leave, At, IInv
  <1>2. Past(sim[r], wrote[r]) /\ Dumped(sim[r], wrote[r])
    BY <1>1 DEF Local
  <1>3. Typed
    BY DEF IInv
  <1>4. pc' = [pc EXCEPT ![r] = "outside"] /\ "outside" \in Places
    BY DEF Leave, At, Places
  <1>5. call' \in [Rank -> Nat \ {0}]
    BY <1>3, CallsCount DEF Leave
  <1>6. CASE AtEnd(sim[r])
    <2>1. Flush(r, sim[r], sim[r].istep, TRUE)
      BY <1>6, Zenon DEF Leave
    <2>2. PICK p \in Object, w \in Seq(Nat) :
             /\ sim' = [sim EXCEPT ![r] = p]
             /\ wrote' = [wrote EXCEPT ![r] = w]
             /\ p.istep = sim[r].istep /\ p.limit = sim[r].limit
             /\ p.sync = sim[r].sync
             /\ Past(p, w) /\ Dumped(p, w)
             /\ disk' \subseteq [step : Nat, rank : Rank, sync : BOOLEAN,
                                 mom : Int, domain : Nat, life : Nat]
      BY <1>2, <1>3, <2>1, FlushStep
    <2>3. Local("outside", p, w)
      BY <2>2 DEF Local, LastHalfPush
    <2> QED BY <1>4, <1>5, <2>2, <2>3, OneRank, Zenon DEF Leave, Rest
  <1>7. CASE ~AtEnd(sim[r])
    <2>1. sim[r] \in Object /\ wrote[r] \in Seq(Nat)
      BY DEF IInv, Typed
    <2>2. sim' = [sim EXCEPT ![r] = sim[r]] /\ wrote' = [wrote EXCEPT ![r] = wrote[r]]
          /\ disk' = disk
      BY <1>7, Zenon DEF Leave, IInv, Typed
    <2>3. Local("outside", sim[r], wrote[r])
      BY <1>1 DEF Local, LastHalfPush
    <2> QED BY <1>3, <1>4, <1>5, <2>1, <2>2, <2>3, OneRank, Zenon DEF Leave, Typed, Rest
  <1> QED BY <1>6, <1>7

-----------------------------------------------------------------------------
(* The job starts from scratch, or again from a complete checkpoint.        *)
LEMMA InitHolds == Init => IInv
  <1> SUFFICES ASSUME Init PROVE IInv
    OBVIOUS
  <1>1. Fresh \in Object /\ Fresh.istep = 0
    BY DEF Fresh, Object
  <1>2. Dumps(Fresh, -1, FALSE)
    BY EvolveAssumption DEF Dumps, InIntervals, Fresh
  <1>3. Scratch \in Object /\ Scratch.istep = 0 /\ Scratch.done
    BY <1>1, <1>2, FlushedObject DEF Scratch
  <1> HIDE DEF Scratch
  <1>4. Typed
    <2>1. [r \in Rank |-> Scratch] \in [Rank -> Object]
      BY <1>3
    <2>2. [r \in Rank |-> <<0>>] \in [Rank -> Seq(Nat)]
      OBVIOUS
    <2>3. disk \subseteq [step : Nat, rank : Rank, sync : BOOLEAN, mom : Int,
                          domain : Nat, life : Nat]
      <3>1. \A r \in Rank :
               [step |-> 0, rank |-> r, sync |-> TRUE, mom |-> 0, domain |-> 0,
                life |-> 0] \in [step : Nat, rank : Rank, sync : BOOLEAN,
                                mom : Int, domain : Nat, life : Nat]
        OBVIOUS
      <3> QED BY <3>1, Zenon DEF Init
    <2>4. /\ stop \in Int /\ pc \in [Rank -> Places]
          /\ call \in [Rank -> Nat \ {0}] /\ crashes \in Nat
      BY EvolveAssumption DEF Init, Places
    <2> QED BY <2>1, <2>2, <2>3, <2>4, Zenon DEF Init, Typed
  <1>5. ASSUME NEW r \in Rank PROVE Local(pc[r], sim[r], wrote[r])
    <2>1. pc[r] = "outside" /\ sim[r] = Scratch /\ wrote[r] = <<0>>
      BY DEF Init
    <2>2. Local("outside", Scratch, <<0>>)
      BY <1>3 DEF Local, LastHalfPush, Past, Dumped
    <2> QED BY <2>1, <2>2
  <1> QED BY <1>4, <1>5 DEF IInv

LEMMA CrashKeeps == ASSUME IInv, NEW n, Crash(n) PROVE IInv'
  <1> DEFINE O(r) == Restored(PartOf(n, Root), PartOf(n, r))
  <1>1. \A r \in Rank : PartOf(n, r) \in disk
    BY DEF Crash, Complete, PartOf
  <1>2. ASSUME NEW r \in Rank PROVE O(r) \in Object
    <2>1. PartOf(n, r) \in disk /\ PartOf(n, Root) \in disk
      BY <1>1, EvolveAssumption
    <2> DEFINE h == PartOf(n, Root)
               m == PartOf(n, r)
    <2>2. /\ h.step \in Nat /\ h.sync \in BOOLEAN /\ h.domain \in Nat
          /\ m.mom \in Int
      BY <2>1, Zenon DEF IInv, Typed
    <2> HIDE DEF h, m
    <2>3. [Fresh EXCEPT !.istep = h.step, !.sync = h.sync, !.mom = m.mom,
                        !.domain = h.domain, !.view = h.domain] \in Object
      <3>1. Fresh \in Object
        BY DEF Fresh, Object
      <3> QED BY <2>2, <3>1, Zenon DEF Object
    <2> QED BY <2>3, Zenon DEF Restored, h, m
  <1> HIDE DEF O
  <1>3. /\ pc' = [r \in Rank |-> "outside"] /\ call' = [r \in Rank |-> 1]
        /\ sim' = [r \in Rank |-> O(r)] /\ wrote' = [r \in Rank |-> <<>>]
        /\ stop' = stop /\ disk' = disk /\ crashes' = crashes + 1
    BY Zenon DEF Crash, Start, O
  <1>4. Typed'
    <2>1. pc' \in [Rank -> Places] /\ call' \in [Rank -> Nat \ {0}]
      BY <1>3 DEF Places
    <2>2. sim' \in [Rank -> Object]
      BY <1>2, <1>3, Zenon
    <2>3. wrote' \in [Rank -> Seq(Nat)] /\ crashes' \in Nat
      BY <1>3 DEF IInv, Typed
    <2> QED BY <1>3, <2>1, <2>2, <2>3, Zenon DEF IInv, Typed
  <1>5. ASSUME NEW r \in Rank PROVE Local(pc[r], sim[r], wrote[r])'
    <2>1. pc[r]' = "outside" /\ wrote[r]' = <<>>
      BY <1>3
    <2> QED BY <2>1 DEF Local, LastHalfPush, Past, Dumped
  <1> QED BY <1>4, <1>5 DEF IInv

LEMMA NextKeeps == IInv /\ [Next]_vars => IInv'
  <1> SUFFICES ASSUME IInv, [Next]_vars PROVE IInv'
    OBVIOUS
  <1>1. ASSUME NEW r \in Rank, RankNext(r) PROVE IInv'
    BY <1>1, EnterKeeps, BeginKeeps, PushKeeps, HandleBoundariesKeeps, DiagnoseKeeps,
       HandleSignalsKeeps, CheckStopKeeps, LoopEndsKeeps, LeaveKeeps, Zenon DEF RankNext
  <1>2. ASSUME NEW n, Crash(n) PROVE IInv'
    BY <1>2, CrashKeeps
  <1>3. ASSUME UNCHANGED <<stop, pc, call, sim, wrote, disk, crashes>> PROVE IInv'
    BY <1>3, Zenon DEF IInv, Typed, Local, LastHalfPush, Past, Dumped, IsLast, AtStop
  <1>4. ASSUME NEW s, SignalSetFlag(s) PROVE IInv'
    BY <1>3, <1>4, Zenon DEF SignalSetFlag
  <1>5. ASSUME UNCHANGED vars PROVE IInv'
    BY <1>3, <1>5, Zenon DEF vars
  <1> QED BY <1>1, <1>2, <1>4, <1>5, Zenon DEF Next

(* The invariant: what every rank carries from step to step.                *)
THEOREM Inductive == Spec => []IInv
  BY InitHolds, NextKeeps, PTL DEF Spec

(* No run of the job dumps a step twice, whichever of its three kinds of    *)
(* calls asks for it (m_already_done).                                      *)
THEOREM NoStepDumpedTwice == Spec => []DumpedOnce
  <1>1. IInv => DumpedOnce
    BY DEF IInv, Local, Past, DumpedOnce
  <1> QED BY <1>1, Inductive, PTL

(* A rank ends its loop in CheckStop, or at the head of the next iteration, *)
(* which has no time left or no step.                                       *)
LEMMA EndIsSynchronized ==
    ASSUME IInv, Next, NEW r \in Rank, EndsLoop(r)
    PROVE  sim'[r].sync
  <1>1. sim[r] \in Object /\ pc \in [Rank -> Places] /\ stop \in Int
        /\ sim \in [Rank -> Object]
    BY DEF IInv, Typed
  <1>2. CheckStop(r)
    <2>1. pc[r] = "handled" /\ pc'[r] \notin {"handled", "outside"}
      BY DEF EndsLoop
    <2>2. ASSUME NEW q \in Rank, RankNext(q) PROVE CheckStop(r)
      <3>1. q = r
        BY <1>1, <2>1, <2>2, Zenon DEF RankNext, Enter, Begin, Push, HandleBoundaries,
           Diagnose, HandleSignals, CheckStop, LoopEnds, Leave, At
      <3>2. HandleSignals(r) \/ CheckStop(r) \/ pc[r] # "handled"
        BY <2>2, <3>1 DEF RankNext, Enter, Begin, Push, HandleBoundaries, Diagnose,
           LoopEnds, Leave, At
      <3> QED BY <2>1, <3>2 DEF HandleSignals, At
    <2>3. ASSUME NEW s, SignalSetFlag(s) PROVE FALSE
      BY <2>1, <2>3 DEF SignalSetFlag
    <2>4. ASSUME NEW n, Crash(n) PROVE FALSE
      BY <2>1, <2>4 DEF Crash, Start
    <2>5. ASSUME UNCHANGED vars PROVE FALSE
      BY <2>1, <2>5 DEF vars
    <2> QED BY <2>2, <2>3, <2>4, <2>5, Zenon DEF Next
  <1> DEFINE exit == "break" \in requested[r]
  <1>3. sim'[r] = [sim[r] EXCEPT !.exit = exit]
    BY <1>1, <1>2, Zenon DEF CheckStop
  <1>4. /\ sim'[r].istep = sim[r].istep /\ sim'[r].limit = sim[r].limit
        /\ sim'[r].sync = sim[r].sync /\ sim'[r].exit = exit
    <2> HIDE DEF exit
    <2> QED BY <1>1, <1>3, Zenon DEF Object
  <1>5. Local("handled", sim[r], wrote[r])
    BY Zenon DEF EndsLoop, IInv
  <1>6. /\ sim[r].istep \in Nat /\ sim[r].limit \in Int
        /\ Time(sim[r].istep) \in Int
    BY <1>1, EvolveAssumption DEF Object, Time
  <1>7. stop' = stop /\ ~exit
    BY <1>2, <1>4 DEF CheckStop, EndsLoop
  <1>8. pc'[r] = IF AtStop(Time(sim[r].istep)) \/ exit THEN "after" ELSE "loop"
    BY <1>1, <1>2, Zenon DEF CheckStop, At
  <1>9. CASE pc'[r] = "after"
    <2>1. AtStop(Time(sim[r].istep))
      BY <1>7, <1>8, <1>9
    <2> QED BY <1>4, <1>5, <2>1, Zenon DEF Local, LastHalfPush
  <1>10. CASE pc'[r] = "loop" /\ ~Continues(sim'[r])
    <2>1. sim[r].istep >= sim[r].limit \/ Time(sim[r].istep) >= stop
      <3>1. Continues(sim'[r]) <=> sim[r].istep < sim[r].limit /\ Time(sim[r].istep) < stop
        BY <1>4, Zenon DEF Continues
      <3> QED BY <1>1, <1>6, <1>10, <3>1
    <2>2. sim[r].istep <= sim[r].limit
      BY <1>5 DEF Local, LastHalfPush
    <2>3. AtStop(Time(sim[r].istep)) \/ sim[r].istep = sim[r].limit
      BY <1>1, <1>6, <2>1, <2>2, EvolveAssumption DEF AtStop
    <2> QED BY <1>4, <1>5, <2>3, Zenon DEF Local, LastHalfPush
  <1> QED BY <1>9, <1>10 DEF EndsLoop

(* The step after which Evolve returns without a break was ended with the   *)
(* half push that synchronizes the momenta.                                 *)
THEOREM EndsSynchronized == Spec => SynchronizedAtEnd
  <1>1. IInv /\ [Next]_vars => [\A r \in Rank : EndsLoop(r) => sim'[r].sync]_vars
    BY EndIsSynchronized, Zenon
  <1> QED BY <1>1, Inductive, PTL DEF Spec, SynchronizedAtEnd

-----------------------------------------------------------------------------
(* The ranks together.  A rank is where a single course of events has it,   *)
(* the same for all of them, and the ranks only differ in how far they are. *)

(* What Evolve has of a rank. *)
Snapshot == [pc : Places, call : Nat \ {0}, obj : Object, wrote : Seq(Nat),
             heard : Nat]

Snap(place, c, p, w, h) ==
    [pc |-> place, call |-> c, obj |-> p, wrote |-> w, heard |-> h]

Here(r) == Snap(pc[r], call[r], sim[r], wrote[r], heard[r])

Written(a, n, forced) ==
    IF Dumps(a.obj, n, forced) THEN Append(a.wrote, a.obj.istep) ELSE a.wrote

Counted(p) == [p EXCEPT !.istep = @ + 1, !.domain = @ + 1, !.moved = 1]

(* What follows after a, ps being what rank 0 has broadcast. *)
Advances(a, b, ps) ==
    LET p == a.obj
        n == a.obj.istep
        exit == "break" \in ps[a.heard] IN
    /\ a.pc = "outside" =>
          b = Snap("loop", a.call,
                   [p EXCEPT !.limit = NumStepsMax(p, Script[a.call])],
                   a.wrote, a.heard)
    /\ a.pc = "loop" /\ Continues(p) =>
          b = Snap("begun", a.call, [p EXCEPT !.done = FALSE], a.wrote,
                   a.heard + 1)
    /\ a.pc = "loop" /\ ~Continues(p) =>
          b = Snap("after", a.call, p, a.wrote, a.heard)
    /\ a.pc = "begun" =>
          b = Snap("pushed", a.call, Stepped(Filled(p)), a.wrote, a.heard)
    /\ a.pc = "pushed" =>
          b = Snap("stepped", a.call, Counted(p), a.wrote, a.heard)
    /\ a.pc = "stepped" =>
          b = Snap("flushed", a.call, AfterFlush(p, n - 1, FALSE),
                   Written(a, n - 1, FALSE), a.heard)
    /\ a.pc = "flushed" /\ "checkpoint" \in ps[a.heard] =>
          b = Snap("handled", a.call, AfterFlush(p, n, TRUE),
                   Written(a, n, TRUE), a.heard)
    /\ a.pc = "flushed" /\ "checkpoint" \notin ps[a.heard] =>
          b = Snap("handled", a.call, p, a.wrote, a.heard)
    /\ a.pc = "handled" =>
          b = Snap(IF AtStop(Time(n)) \/ exit THEN "after" ELSE "loop",
                   a.call, [p EXCEPT !.exit = exit], a.wrote, a.heard)
    /\ a.pc = "after" /\ AtEnd(p) =>
          b = Snap("outside", a.call + 1, AfterFlush(p, n, TRUE),
                   Written(a, n, TRUE), a.heard)
    /\ a.pc = "after" /\ ~AtEnd(p) =>
          b = Snap("outside", a.call + 1, p, a.wrote, a.heard)

Ahead(place) == IF place \in {"begun", "pushed"} THEN 1 ELSE 0

(* What a snapshot is by itself, in a job that began at step base: the      *)
(* momenta are centered, the next step's from the push on, and a broadcast  *)
(* has been joined for every step.                                          *)
Good(a, base) ==
    /\ a.obj.mom = (2 * (a.obj.istep + (IF a.pc = "pushed" THEN 1 ELSE 0)))
                   - (IF a.obj.sync THEN 0 ELSE 1)
    /\ a.heard + base = a.obj.istep + Ahead(a.pc)
    /\ a.call <= Len(Script) + 1
    /\ a.pc # "outside" => a.call <= Len(Script)
    /\ a.pc \in {"begun", "pushed", "stepped", "flushed", "handled"} =>
          a.heard >= 1

Order(place) ==
    CASE place = "outside" -> 0
      [] place = "stepped" -> 1
      [] place = "flushed" -> 2
      [] place = "handled" -> 3
      [] place = "loop"    -> 4
      [] place = "begun"   -> 5
      [] place = "pushed"  -> 6
      [] place = "after"   -> 7

(* Calls, steps and places are passed in this order, never twice. *)
Before(a, b) ==
    \/ a.call < b.call
    \/ a.call = b.call /\ a.obj.istep < b.obj.istep
    \/ /\ a.call = b.call /\ a.obj.istep = b.obj.istep
       /\ Order(a.pc) < Order(b.pc)

Begins(s, t) == Len(s) <= Len(t) /\ \A i \in 1 .. Len(s) : s[i] = t[i]

(* b comes later than a. *)
Follows(a, b) ==
    /\ Before(a, b)
    /\ a.obj.istep <= b.obj.istep
    /\ a.pc = "pushed" => a.obj.istep < b.obj.istep
    /\ /\ a.obj.istep = b.obj.istep
       /\ b.pc # "pushed"
       => b.obj.sync = a.obj.sync
    /\ Begins(a.wrote, b.wrote)

(* The broadcast that a looks at has been made. *)
Answered(a, ps) ==
    a.pc \in {"flushed", "handled"} => a.heard \in 1 .. Len(ps)

Chain(k, base, T, ps) ==
    /\ \A i \in 1 .. k : Good(T[i], base)
    /\ \A i \in 1 .. k - 1 : Advances(T[i], T[i + 1], ps) /\ Answered(T[i], ps)
    /\ \A i, j \in 1 .. k : i < j => Follows(T[i], T[j])

AtRest(d, a) ==
    a.pc # "pushed" /\ a.obj.istep = d.step /\ a.obj.sync = d.sync

Placed(T, at) == \A r \in Rank : T[at[r]] = Here(r)

(* What this run of the job has put on disk is from the chain. *)
Stored(k, T) ==
    \A d \in disk : d.life = crashes => \E i \in 1 .. k : AtRest(d, T[i])

Common ==
    \E k \in Nat \ {0}, base \in Nat :
        \E T \in [1 .. k -> Snapshot], at \in [Rank -> 1 .. k] :
            Chain(k, base, T, posted) /\ Placed(T, at) /\ Stored(k, T)

(* All parts of a checkpoint of step n are alike: older ones are removed    *)
(* when a new one is begun.                                                 *)
OnDisk ==
    \A d \in disk :
        /\ d.life <= crashes
        /\ d.mom = (2 * d.step) - (IF d.sync THEN 0 ELSE 1)
        /\ \A e \in disk : d.step = e.step => d.sync = e.sync

(* Outside an iteration nothing is asked for; in it, rank 0 knows what it   *)
(* has broadcast, the others once they have waited for it.                  *)
Asked ==
    \A r \in Rank :
        /\ pc[r] \in {"outside", "loop", "after"} => requested[r] = {}
        /\ pc[r] \in {"begun", "pushed", "stepped", "flushed"} =>
              requested[r] = IF r = Root THEN posted[heard[r]] ELSE {}
        /\ pc[r] = "handled" =>
              /\ heard[r] <= Len(posted)
              /\ requested[r] = posted[heard[r]] \ {"checkpoint"}

(* No rank counts a step before the others have pushed. *)
Tight ==
    \A r, q \in Rank :
        /\ sim[q].istep < sim[r].istep =>
              /\ sim[q].istep = sim[r].istep - 1
              /\ pc[q] = "pushed" /\ pc[r] # "pushed"
        /\ sim[q].istep = sim[r].istep /\ pc[r] = "pushed" =>
              pc[q] \in {"begun", "pushed"}

Bounded ==
    /\ stop \in StopTimes
    /\ requested \in [Rank -> SUBSET Actions]
    /\ flags \subseteq CheckpointSignals \union BreakSignals
    /\ posted \in Seq(SUBSET Actions)
    /\ heard \in [Rank -> Nat]
    /\ signals \in 0 .. MaxSignals
    /\ crashes \in 0 .. MaxCrashes
    /\ heard[Root] = Len(posted)

CInv == IInv /\ Bounded /\ Asked /\ Tight /\ OnDisk /\ Common

-----------------------------------------------------------------------------
LEMMA FlushedTime ==
    ASSUME NEW p \in Object, NEW n, NEW forced \in BOOLEAN
    PROVE  AfterFlush(p, n, forced).mom = p.mom
  <1> DEFINE d == p.done \/ Dumps(p, n, forced)
             v == p.view + p.moved
             q == [p EXCEPT !.view = v, !.done = d]
  <1>1. AfterFlush(p, n, forced) = q
    BY Zenon DEF AfterFlush
  <1>2. q.mom = p.mom
    <2> HIDE DEF d, v
    <2> QED BY Zenon DEF Object
  <1> QED BY <1>1, <1>2, Zenon

(* The half pushes keep the momenta where is_synchronized tells. *)
LEMMA PushedTime ==
    ASSUME NEW p \in Object, p.mom = (2 * p.istep) - (IF p.sync THEN 0 ELSE 1)
    PROVE  Stepped(Filled(p)).mom
             = (2 * (p.istep + 1)) - (IF Stepped(Filled(p)).sync THEN 0 ELSE 1)
  <1> DEFINE m == p.mom - 1
             f == [p EXCEPT !.mom = m, !.sync = FALSE]
  <1>1. /\ p.mom \in Int /\ p.istep \in Nat /\ m \in Int /\ p.sync \in BOOLEAN
    BY DEF Object
  <1>2. f \in Object /\ f.mom = m /\ f.sync = FALSE
    <2> HIDE DEF m
    <2> QED BY <1>1, Zenon DEF Object
  <1>3. Filled(p) = IF p.sync THEN f ELSE p
    BY Zenon DEF Filled
  <1> HIDE DEF f
  <1>4. /\ Filled(p) \in Object
        /\ Filled(p).mom = (2 * p.istep) - 1
        /\ Filled(p).sync = FALSE
    <2>1. CASE p.sync
      BY <1>1, <1>2, <1>3, <2>1
    <2>2. CASE ~p.sync
      BY <1>1, <1>3, <2>2
    <2> QED BY <2>1, <2>2
  <1> DEFINE g == Filled(p)
             x == g.mom + 2
             l == g.last \/ IsLast(g)
             q == [g EXCEPT !.mom = x, !.last = l]
             y == q.mom + 1
             s == [q EXCEPT !.mom = y, !.sync = TRUE]
  <1>5. Stepped(g) = IF IsLast(g) THEN s ELSE q
    BY Zenon DEF Stepped
  <1>6. q.mom = x /\ q.sync = g.sync /\ q \in Object
    <2>1. x \in Int /\ l \in BOOLEAN
      BY <1>4 DEF Object
    <2> HIDE DEF g, x, l
    <2> QED BY <1>4, <2>1, Zenon DEF Object, g
  <1> HIDE DEF q
  <1>7. s.mom = y /\ s.sync = TRUE
    <2> HIDE DEF y
    <2> QED BY <1>6, Zenon DEF Object
  <1> HIDE DEF s
  <1>8. Stepped(g).mom = (2 * (p.istep + 1)) - (IF Stepped(g).sync THEN 0 ELSE 1)
    <2>1. x = (2 * p.istep) + 1 /\ y = (2 * p.istep) + 2
      BY <1>1, <1>4, <1>6
    <2>2. CASE IsLast(g)
      BY <1>1, <1>5, <1>7, <2>1, <2>2
    <2>3. CASE ~IsLast(g)
      BY <1>1, <1>4, <1>5, <1>6, <2>1, <2>3
    <2> QED BY <2>2, <2>3
  <1> QED BY <1>8, Zenon

LEMMA CountedObject ==
    ASSUME NEW p \in Object
    PROVE  /\ Counted(p).istep = p.istep + 1 /\ Counted(p).sync = p.sync
           /\ Counted(p).mom = p.mom
  <1> DEFINE n == p.istep + 1
             d == p.domain + 1
             q == [p EXCEPT !.istep = n, !.domain = d, !.moved = 1]
  <1>1. q.istep = n /\ q.sync = p.sync /\ q.mom = p.mom
    <2> HIDE DEF n, d
    <2> QED BY Zenon DEF Object
  <1>2. Counted(p) = q
    BY Zenon DEF Counted
  <1> QED BY <1>1, <1>2, Zenon

-----------------------------------------------------------------------------
(* What comes after is determined. *)
LEMMA Deterministic ==
    ASSUME NEW a \in Snapshot, NEW b, NEW c, NEW ps,
           Advances(a, b, ps), Advances(a, c, ps)
    PROVE  b = c
  <1>1. a.pc \in Places
    BY DEF Snapshot
  <1>2. a.pc = "outside" \/ a.pc = "begun" \/ a.pc = "pushed" => b = c
    BY Zenon DEF Advances
  <1>6. a.pc = "stepped" => b = c
    BY Zenon DEF Advances
  <1>7. a.pc = "handled" => b = c
    <2> DEFINE exit == "break" \in ps[a.heard]
               s == Snap(IF AtStop(Time(a.obj.istep)) \/ exit THEN "after" ELSE "loop",
                         a.call, [a.obj EXCEPT !.exit = exit], a.wrote, a.heard)
    <2>1. a.pc = "handled" => b = s
      BY Zenon DEF Advances
    <2>2. a.pc = "handled" => c = s
      BY Zenon DEF Advances
    <2> HIDE DEF s
    <2> QED BY <2>1, <2>2
  <1>3. a.pc = "loop" => b = c
    BY Zenon DEF Advances
  <1>4. a.pc = "flushed" => b = c
    BY Zenon DEF Advances
  <1>5. a.pc = "after" => b = c
    BY Zenon DEF Advances
  <1> QED BY <1>1, <1>2, <1>3, <1>4, <1>5, <1>6, <1>7 DEF Places

(* Another broadcast does not change what was made of the earlier ones. *)
LEMMA AdvancesStill ==
    ASSUME NEW a \in Snapshot, NEW b, NEW ps \in Seq(SUBSET Actions), NEW x \in SUBSET Actions,
           Advances(a, b, ps), Answered(a, ps)
    PROVE  Advances(a, b, Append(ps, x)) /\ Answered(a, Append(ps, x))
  <1>1. CASE a.pc \in {"flushed", "handled"}
    <2>1. a.heard \in 1 .. Len(ps)
      BY <1>1 DEF Answered
    <2>2. Append(ps, x)[a.heard] = ps[a.heard] /\ a.heard \in 1 .. Len(Append(ps, x))
      BY <2>1
    <2> QED BY <2>2, Zenon DEF Advances, Answered
  <1>2. CASE a.pc \notin {"flushed", "handled"}
    <2>1. a.pc # "flushed" /\ a.pc # "handled"
      BY <1>2
    <2> QED BY <1>2, <2>1, Zenon DEF Advances, Answered
  <1> QED BY <1>1, <1>2

-----------------------------------------------------------------------------
LEMMA WrittenMore ==
    ASSUME NEW a \in Snapshot, NEW n, NEW forced
    PROVE  Begins(a.wrote, Written(a, n, forced))
  <1>1. a.wrote \in Seq(Nat) /\ a.obj.istep \in Nat
    BY DEF Snapshot, Object
  <1>2. Begins(a.wrote, a.wrote) /\ Begins(a.wrote, Append(a.wrote, a.obj.istep))
    BY <1>1 DEF Begins
  <1> QED BY <1>2 DEF Written

LEMMA FollowsTransitive ==
    ASSUME NEW a \in Snapshot, NEW b \in Snapshot, NEW c \in Snapshot,
           Follows(a, b), Follows(b, c)
    PROVE  Follows(a, c)
  <1>1. /\ a.call \in Nat /\ b.call \in Nat /\ c.call \in Nat
        /\ a.obj.istep \in Nat /\ b.obj.istep \in Nat /\ c.obj.istep \in Nat
        /\ a.pc \in Places /\ b.pc \in Places /\ c.pc \in Places
        /\ a.wrote \in Seq(Nat) /\ b.wrote \in Seq(Nat) /\ c.wrote \in Seq(Nat)
    BY DEF Snapshot, Object
  <1>2. \A x \in Places : Order(x) \in Nat
    BY DEF Order, Places
  <1>3. Before(a, c)
    BY <1>1, <1>2, SMTT(40) DEF Follows, Before
  <1>4. a.obj.istep <= c.obj.istep /\ (a.pc = "pushed" => a.obj.istep < c.obj.istep)
    BY <1>1 DEF Follows
  <1>5. a.obj.istep = c.obj.istep /\ c.pc # "pushed" => c.obj.sync = a.obj.sync
    BY <1>1 DEF Follows
  <1>6. Begins(a.wrote, c.wrote)
    BY <1>1 DEF Follows, Begins
  <1> QED BY <1>3, <1>4, <1>5, <1>6 DEF Follows

(* What comes next is later, and good again. *)
LEMMA AdvancesWell ==
    ASSUME NEW a \in Snapshot, NEW b \in Snapshot, NEW ps, NEW base \in Nat,
           Good(a, base), Advances(a, b, ps),
           a.pc = "outside" => a.call <= Len(Script)
    PROVE  Good(b, base) /\ Follows(a, b)
  <1> DEFINE p == a.obj
             n == p.istep
  <1>1. /\ a.pc \in Places /\ p \in Object /\ a.call \in Nat \ {0}
        /\ a.wrote \in Seq(Nat) /\ a.heard \in Nat
        /\ n \in Nat /\ p.mom \in Int /\ p.sync \in BOOLEAN /\ Len(Script) \in Nat
    BY EvolveAssumption, SMTT(40) DEF Snapshot, Object
  <1>2. /\ p.mom = (2 * (n + (IF a.pc = "pushed" THEN 1 ELSE 0)))
                      - (IF p.sync THEN 0 ELSE 1)
        /\ a.heard + base = n + Ahead(a.pc)
        /\ a.call <= Len(Script) + 1
        /\ a.pc # "outside" => a.call <= Len(Script)
        /\ a.pc \in {"begun", "pushed", "stepped", "flushed", "handled"} =>
              a.heard >= 1
    BY Zenon DEF Good
  <1>3. Begins(a.wrote, a.wrote)
    BY <1>1 DEF Begins
  (* A step that pushes nothing and leaves the count of steps alone. *)
  <1>4. ASSUME NEW place \in Places, NEW q, NEW w, NEW h \in Nat, NEW c \in Nat,
               b = Snap(place, c, q, w, h),
               a.pc # "pushed", place # "pushed",
               q.istep = n, q.sync = p.sync, q.mom = p.mom,
               h + Ahead(a.pc) = a.heard + Ahead(place),
               place \in {"begun", "pushed", "stepped", "flushed", "handled"} => h >= 1,
               Begins(a.wrote, w),
               \/ c = a.call /\ c <= Len(Script) /\ Order(a.pc) < Order(place)
               \/ c = a.call + 1 /\ c <= Len(Script) + 1 /\ place = "outside"
        PROVE  Good(b, base) /\ Follows(a, b)
    <2>1. /\ b.pc = place /\ b.call = c /\ b.obj = q /\ b.wrote = w /\ b.heard = h
      BY <1>4 DEF Snap
    <2>2. /\ Ahead(a.pc) \in Int /\ Ahead(place) \in Int
      BY DEF Ahead
    <2>3. h + base = n + Ahead(place)
      <3>1. a.heard + base = n + Ahead(a.pc) /\ h + Ahead(a.pc) = a.heard + Ahead(place)
        BY <1>2, <1>4
      <3>2. a.heard \in Nat /\ n \in Nat /\ h \in Nat
        BY <1>1, <1>4
      <3> HIDE DEF n
      <3> QED BY <2>2, <3>1, <3>2, SMTT(40)
    <2>4. p.mom = (2 * n) - (IF p.sync THEN 0 ELSE 1)
      BY <1>1, <1>2, <1>4
    <2>5. Good(b, base)
      BY <1>1, <1>4, <2>1, <2>3, <2>4 DEF Good
    <2>6. Before(a, b)
      BY <1>1, <1>4, <2>1 DEF Before
    <2>7. Follows(a, b)
      BY <1>1, <1>4, <2>1, <2>6 DEF Follows
    <2> QED BY <2>5, <2>7
  <1>5. CASE a.pc = "outside"
    <2> DEFINE x == NumStepsMax(p, Script[a.call])
               q == [p EXCEPT !.limit = x]
    <2>1. b = Snap("loop", a.call, q, a.wrote, a.heard)
      BY <1>5, Zenon DEF Advances
    <2>2. q.istep = n /\ q.sync = p.sync /\ q.mom = p.mom
      <3> HIDE DEF x
      <3> QED BY <1>1, Zenon DEF Object
    <2> HIDE DEF q
    <2>3. /\ "loop" \in Places /\ "loop" # "pushed" /\ a.pc # "pushed"
          /\ a.heard + Ahead(a.pc) = a.heard + Ahead("loop")
          /\ "loop" \in {"begun", "pushed", "stepped", "flushed", "handled"} => a.heard >= 1
          /\ a.heard \in Nat /\ a.call \in Nat
          /\ \/ a.call = a.call /\ a.call <= Len(Script) /\ Order(a.pc) < Order("loop")
             \/ a.call = a.call + 1 /\ a.call <= Len(Script) + 1 /\ "loop" = "outside"
      BY <1>1, <1>2, <1>5 DEF Order, Ahead, Places
    <2> QED BY <1>3, <1>4, <2>1, <2>2, <2>3, Zenon
  <1>6. CASE a.pc = "loop" /\ Continues(p)
    <2> DEFINE q == [p EXCEPT !.done = FALSE]
    <2>1. b = Snap("begun", a.call, q, a.wrote, a.heard + 1)
      BY <1>6, Zenon DEF Advances
    <2>2. q.istep = n /\ q.sync = p.sync /\ q.mom = p.mom
      BY <1>1, Zenon DEF Object
    <2> HIDE DEF q
    <2>3. /\ "begun" \in Places /\ "begun" # "pushed" /\ a.pc # "pushed"
          /\ (a.heard + 1) + Ahead(a.pc) = a.heard + Ahead("begun")
          /\ "begun" \in {"begun", "pushed", "stepped", "flushed", "handled"} => (a.heard + 1) >= 1
          /\ (a.heard + 1) \in Nat /\ a.call \in Nat
          /\ \/ a.call = a.call /\ a.call <= Len(Script) /\ Order(a.pc) < Order("begun")
             \/ a.call = a.call + 1 /\ a.call <= Len(Script) + 1 /\ "begun" = "outside"
      BY <1>1, <1>2, <1>6, SMTT(40) DEF Order, Ahead, Places
    <2> QED BY <1>3, <1>4, <2>1, <2>2, <2>3, Zenon
  <1>7. CASE a.pc = "loop" /\ ~Continues(p)
    <2>1. b = Snap("after", a.call, p, a.wrote, a.heard)
      BY <1>7, Zenon DEF Advances
    <2>3. /\ "after" \in Places /\ "after" # "pushed" /\ a.pc # "pushed"
          /\ a.heard + Ahead(a.pc) = a.heard + Ahead("after")
          /\ "after" \in {"begun", "pushed", "stepped", "flushed", "handled"} => a.heard >= 1
          /\ a.heard \in Nat /\ a.call \in Nat
          /\ \/ a.call = a.call /\ a.call <= Len(Script) /\ Order(a.pc) < Order("after")
             \/ a.call = a.call + 1 /\ a.call <= Len(Script) + 1 /\ "after" = "outside"
      BY <1>1, <1>2, <1>7 DEF Order, Ahead, Places
    <2> QED BY <1>3, <1>4, <2>1, <2>3, Zenon
  <1>8. CASE a.pc = "begun"
    <2> DEFINE q == Stepped(Filled(p))
    <2>1. b = Snap("pushed", a.call, q, a.wrote, a.heard)
      BY <1>8, Zenon DEF Advances
    <2>2. q.istep = n
      BY <1>1, FilledObject, SteppedObject
    <2>3. p.mom = (2 * n) - (IF p.sync THEN 0 ELSE 1)
      BY <1>1, <1>2, <1>8
    <2>4. q.mom = (2 * (n + 1)) - (IF q.sync THEN 0 ELSE 1)
      BY <1>1, <2>3, PushedTime, Zenon
    <2> HIDE DEF q
    <2>5. /\ b.pc = "pushed" /\ b.call = a.call /\ b.obj = q /\ b.wrote = a.wrote
          /\ b.heard = a.heard
      BY <2>1 DEF Snap
    <2>6. Good(b, base)
      <3>1. a.heard + base = n + 1 /\ a.heard >= 1 /\ a.call <= Len(Script)
        BY <1>2, <1>8 DEF Ahead
      <3> QED BY <1>1, <2>2, <2>4, <2>5, <3>1 DEF Good, Ahead
    <2>7. Order(a.pc) < Order(b.pc)
      BY <1>8, <2>5 DEF Order
    <2>8. Before(a, b) /\ a.obj.istep = b.obj.istep /\ a.pc # "pushed" /\ b.pc = "pushed"
      BY <1>8, <2>2, <2>5, <2>7 DEF Before
    <2> QED BY <1>1, <1>3, <2>5, <2>6, <2>8 DEF Follows
  <1>9. CASE a.pc = "pushed"
    <2> DEFINE q == Counted(p)
    <2>1. b = Snap("stepped", a.call, q, a.wrote, a.heard)
      BY <1>9, Zenon DEF Advances
    <2>2. q.istep = n + 1 /\ q.sync = p.sync /\ q.mom = p.mom
      BY <1>1, CountedObject
    <2> HIDE DEF q
    <2>3. /\ b.pc = "stepped" /\ b.call = a.call /\ b.obj = q /\ b.wrote = a.wrote
          /\ b.heard = a.heard
      BY <2>1 DEF Snap
    <2>4. Good(b, base)
      <3>1. a.heard + base = n + 1 /\ a.heard >= 1 /\ a.call <= Len(Script)
        BY <1>2, <1>9 DEF Ahead
      <3>2. p.mom = (2 * (n + 1)) - (IF p.sync THEN 0 ELSE 1)
        BY <1>1, <1>2, <1>9
      <3>3. /\ b.obj.mom = (2 * (b.obj.istep + (IF b.pc = "pushed" THEN 1 ELSE 0)))
                           - (IF b.obj.sync THEN 0 ELSE 1)
        <4>1. b.obj.istep = n + 1 /\ b.obj.mom = p.mom /\ b.obj.sync = p.sync /\ b.pc # "pushed"
          BY <2>2, <2>3
        <4>2. n + 1 = n + 1 + 0 /\ n + 1 \in Nat
          BY <1>1
        <4> QED BY <3>2, <4>1, <4>2
      <3>4. b.heard + base = b.obj.istep + Ahead(b.pc)
        <4>1. Ahead(b.pc) = 0
          BY <2>3 DEF Ahead
        <4> QED BY <1>1, <2>2, <2>3, <3>1, <4>1
      <3>5. /\ b.call <= Len(Script) + 1 /\ b.call <= Len(Script) /\ b.heard >= 1
        BY <1>1, <2>3, <3>1
      <3> QED BY <3>3, <3>4, <3>5, Zenon DEF Good
    <2>5. Before(a, b)
      BY <1>1, <2>2, <2>3 DEF Before
    <2> QED BY <1>1, <1>3, <2>2, <2>3, <2>4, <2>5 DEF Follows
  <1>10. ASSUME NEW m, NEW forced \in BOOLEAN, NEW place, NEW c \in Nat,
                b = Snap(place, c, AfterFlush(p, m, forced), Written(a, m, forced), a.heard),
                \/ a.pc = "stepped" /\ place = "flushed" /\ c = a.call
                \/ a.pc = "flushed" /\ place = "handled" /\ c = a.call
                \/ a.pc = "after" /\ place = "outside" /\ c = a.call + 1
         PROVE  Good(b, base) /\ Follows(a, b)
    <2> DEFINE q == AfterFlush(p, m, forced)
               w == Written(a, m, forced)
    <2>1. q.istep = n /\ q.sync = p.sync /\ q.mom = p.mom
      BY <1>1, FlushedObject, FlushedTime
    <2>2. Begins(a.wrote, w)
      BY WrittenMore
    <2>3. b = Snap(place, c, q, w, a.heard)
      BY <1>10
    <2> HIDE DEF q, w
    <2>4. Ahead(a.pc) = Ahead(place) /\ place \in Places /\ place # "pushed" /\ a.pc # "pushed"
      BY <1>10 DEF Ahead, Places
    <2>5. \/ c = a.call /\ c <= Len(Script) /\ Order(a.pc) < Order(place)
          \/ c = a.call + 1 /\ c <= Len(Script) + 1 /\ place = "outside"
      BY <1>1, <1>2, <1>10, SMTT(40) DEF Order
    <2>6. place \in {"begun", "pushed", "stepped", "flushed", "handled"} => a.heard >= 1
      BY <1>2, <1>10
    <2>7. a.heard + Ahead(a.pc) = a.heard + Ahead(place)
      BY <2>4
    <2> QED BY <1>1, <1>4, <2>1, <2>2, <2>3, <2>4, <2>5, <2>6, <2>7, Zenon
  <1>11. CASE a.pc = "stepped"
    <2>1. b = Snap("flushed", a.call, AfterFlush(p, n - 1, FALSE),
                   Written(a, n - 1, FALSE), a.heard)
      BY <1>11, Zenon DEF Advances
    <2>2. a.call \in Nat
      BY <1>1
    <2> QED BY <1>10, <1>11, <2>1, <2>2, Zenon
  <1>12. CASE a.pc = "flushed" /\ "checkpoint" \in ps[a.heard]
    <2>1. b = Snap("handled", a.call, AfterFlush(p, n, TRUE), Written(a, n, TRUE), a.heard)
      BY <1>12, Zenon DEF Advances
    <2>2. a.call \in Nat
      BY <1>1
    <2> QED BY <1>10, <1>12, <2>1, <2>2, Zenon
  <1>13. CASE a.pc = "flushed" /\ "checkpoint" \notin ps[a.heard]
    <2>1. b = Snap("handled", a.call, p, a.wrote, a.heard)
      BY <1>13, Zenon DEF Advances
    <2>3. /\ "handled" \in Places /\ "handled" # "pushed" /\ a.pc # "pushed"
          /\ a.heard + Ahead(a.pc) = a.heard + Ahead("handled")
          /\ "handled" \in {"begun", "pushed", "stepped", "flushed", "handled"} => a.heard >= 1
          /\ a.heard \in Nat /\ a.call \in Nat
          /\ \/ a.call = a.call /\ a.call <= Len(Script) /\ Order(a.pc) < Order("handled")
             \/ a.call = a.call + 1 /\ a.call <= Len(Script) + 1 /\ "handled" = "outside"
      BY <1>1, <1>2, <1>13 DEF Order, Ahead, Places
    <2> QED BY <1>3, <1>4, <2>1, <2>3, Zenon
  <1>14. CASE a.pc = "handled"
    <2> DEFINE exit == "break" \in ps[a.heard]
               q == [p EXCEPT !.exit = exit]
               place == IF AtStop(Time(n)) \/ exit THEN "after" ELSE "loop"
    <2>1. b = Snap(place, a.call, q, a.wrote, a.heard)
      BY <1>14, Zenon DEF Advances
    <2>2. q.istep = n /\ q.sync = p.sync /\ q.mom = p.mom
      <3> HIDE DEF exit
      <3> QED BY <1>1, Zenon DEF Object
    <2>3. place \in {"after", "loop"}
      OBVIOUS
    <2> HIDE DEF q, place
    <2>4. CASE place = "after"
      <3>1. b = Snap("after", a.call, q, a.wrote, a.heard)
        BY <2>1, <2>4
      <3>2. /\ "after" \in Places /\ "after" # "pushed" /\ a.pc # "pushed"
            /\ a.heard + Ahead(a.pc) = a.heard + Ahead("after")
            /\ "after" \in {"begun", "pushed", "stepped", "flushed", "handled"} => a.heard >= 1
            /\ a.heard \in Nat /\ a.call \in Nat
            /\ \/ a.call = a.call /\ a.call <= Len(Script) /\ Order(a.pc) < Order("after")
               \/ a.call = a.call + 1 /\ a.call <= Len(Script) + 1 /\ "after" = "outside"
        BY <1>1, <1>2, <1>14 DEF Order, Ahead, Places
      <3> QED BY <1>3, <1>4, <2>2, <3>1, <3>2, Zenon
    <2>5. CASE place = "loop"
      <3>1. b = Snap("loop", a.call, q, a.wrote, a.heard)
        BY <2>1, <2>5
      <3>2. /\ "loop" \in Places /\ "loop" # "pushed" /\ a.pc # "pushed"
            /\ a.heard + Ahead(a.pc) = a.heard + Ahead("loop")
            /\ "loop" \in {"begun", "pushed", "stepped", "flushed", "handled"} => a.heard >= 1
            /\ a.heard \in Nat /\ a.call \in Nat
            /\ \/ a.call = a.call /\ a.call <= Len(Script) /\ Order(a.pc) < Order("loop")
               \/ a.call = a.call + 1 /\ a.call <= Len(Script) + 1 /\ "loop" = "outside"
        BY <1>1, <1>2, <1>14 DEF Order, Ahead, Places
      <3> QED BY <1>3, <1>4, <2>2, <3>1, <3>2, Zenon
    <2> QED BY <2>3, <2>4, <2>5
  <1>15. CASE a.pc = "after" /\ AtEnd(p)
    <2>1. b = Snap("outside", a.call + 1, AfterFlush(p, n, TRUE), Written(a, n, TRUE), a.heard)
      BY <1>15, Zenon DEF Advances
    <2>2. a.call + 1 \in Nat
      BY <1>1
    <2> QED BY <1>10, <1>15, <2>1, <2>2, Zenon
  <1>16. CASE a.pc = "after" /\ ~AtEnd(p)
    <2>1. b = Snap("outside", a.call + 1, p, a.wrote, a.heard)
      BY <1>16, Zenon DEF Advances
    <2>3. /\ "outside" \in Places /\ "outside" # "pushed" /\ a.pc # "pushed"
          /\ a.heard + Ahead(a.pc) = a.heard + Ahead("outside")
          /\ "outside" \in {"begun", "pushed", "stepped", "flushed", "handled"} => a.heard >= 1
          /\ a.heard \in Nat /\ (a.call + 1) \in Nat
          /\ \/ (a.call + 1) = a.call /\ (a.call + 1) <= Len(Script) /\ Order(a.pc) < Order("outside")
             \/ (a.call + 1) = a.call + 1 /\ (a.call + 1) <= Len(Script) + 1 /\ "outside" = "outside"
      BY <1>1, <1>2, <1>16 DEF Order, Ahead, Places
    <2> QED BY <1>3, <1>4, <2>1, <2>3, Zenon
  <1> QED BY <1>1, <1>5, <1>6, <1>7, <1>8, <1>9, <1>11, <1>12, <1>13, <1>14, <1>15, <1>16 DEF Places

-----------------------------------------------------------------------------
LEMMA ChainStill ==
    ASSUME NEW k \in Nat \ {0}, NEW base \in Nat, NEW T \in [1 .. k -> Snapshot],
           NEW ps \in Seq(SUBSET Actions), NEW x \in SUBSET Actions,
           Chain(k, base, T, ps)
    PROVE  Chain(k, base, T, Append(ps, x))
  <1>1. ASSUME NEW i \in 1 .. k - 1
        PROVE  Advances(T[i], T[i + 1], Append(ps, x)) /\ Answered(T[i], Append(ps, x))
    <2>1. T[i] \in Snapshot
      OBVIOUS
    <2>2. Advances(T[i], T[i + 1], ps) /\ Answered(T[i], ps)
      BY DEF Chain
    <2> QED BY <2>1, <2>2, AdvancesStill
  <1> QED BY <1>1 DEF Chain

Longer(T, k, b) == [i \in 1 .. k + 1 |-> IF i = k + 1 THEN b ELSE T[i]]

(* The chain grows at its end. *)
LEMMA ChainGrows ==
    ASSUME NEW k \in Nat \ {0}, NEW base \in Nat, NEW T \in [1 .. k -> Snapshot],
           NEW ps, NEW b \in Snapshot,
           Chain(k, base, T, ps),
           Advances(T[k], b, ps), Answered(T[k], ps), Good(b, base), Follows(T[k], b)
    PROVE  Longer(T, k, b) \in [1 .. k + 1 -> Snapshot]
           /\ Chain(k + 1, base, Longer(T, k, b), ps)
  <1> DEFINE U == Longer(T, k, b)
  <1>1. /\ \A i \in 1 .. k : U[i] = T[i] /\ i \in 1 .. k + 1
        /\ U[k + 1] = b
        /\ U \in [1 .. k + 1 -> Snapshot]
    BY DEF Longer
  <1> HIDE DEF U
  <1>2. \A i \in 1 .. k + 1 : i \in 1 .. k \/ i = k + 1
    OBVIOUS
  <1>3. \A i \in 1 .. k + 1 : Good(U[i], base)
    BY <1>1, <1>2 DEF Chain
  <1>4. ASSUME NEW i \in 1 .. k
        PROVE  Advances(U[i], U[i + 1], ps) /\ Answered(U[i], ps)
    <2>1. CASE i = k
      BY <1>1, <2>1
    <2>2. CASE i # k
      <3>1. i \in 1 .. k - 1 /\ i + 1 \in 1 .. k
        BY <2>2
      <3> QED BY <1>1, <3>1 DEF Chain
    <2> QED BY <2>1, <2>2
  <1>5. ASSUME NEW i \in 1 .. k + 1, NEW j \in 1 .. k + 1, i < j
        PROVE  Follows(U[i], U[j])
    <2>1. i \in 1 .. k
      BY <1>5
    <2>2. CASE j # k + 1
      <3>1. j \in 1 .. k
        BY <2>2
      <3> QED BY <1>1, <1>5, <2>1, <3>1 DEF Chain
    <2>3. CASE j = k + 1
      <3>1. k \in 1 .. k
        OBVIOUS
      <3>2. CASE i = k
        BY <1>1, <2>3, <3>2
      <3>3. CASE i # k
        <4>1. Follows(T[i], T[k])
          <5>1. i < k
            BY <2>1, <3>3
          <5> QED BY <2>1, <3>1, <5>1 DEF Chain
        <4>2. T[i] \in Snapshot /\ T[k] \in Snapshot
          BY <2>1, <3>1
        <4>3. Follows(T[i], b)
          BY <4>1, <4>2, FollowsTransitive
        <4> QED BY <1>1, <2>1, <2>3, <4>3
      <3> QED BY <3>2, <3>3
    <2> QED BY <2>2, <2>3
  <1>6. (k + 1) - 1 = k
    OBVIOUS
  <1> QED BY <1>1, <1>3, <1>4, <1>5, <1>6, Zenon DEF Chain, U

(* stop_time is the same for the whole job. *)
LEMMA ChainSame ==
    ASSUME stop' = stop, NEW k, NEW base, NEW T, NEW ps, Chain(k, base, T, ps)
    PROVE  Chain(k, base, T, ps)'
  <1>1. ASSUME NEW p
        PROVE  /\ AtStop(Time(p.istep))' <=> AtStop(Time(p.istep))
               /\ Continues(p)' <=> Continues(p)
               /\ AtEnd(p)' <=> AtEnd(p)
               /\ IsLast(p)' <=> IsLast(p)
    BY DEF AtStop, Continues, AtEnd, IsLast, Time
  <1>2. ASSUME NEW p PROVE Stepped(Filled(p))' = Stepped(Filled(p))
    BY <1>1, Zenon DEF Stepped, Filled
  <1>3. ASSUME NEW a, NEW b PROVE Advances(a, b, ps)' <=> Advances(a, b, ps)
    BY <1>1, <1>2, Zenon DEF Advances, Snap, Counted, Written, AfterFlush, Dumps, InIntervals,
       NumStepsMax
  <1>4. ASSUME NEW a, NEW b
        PROVE  /\ Good(a, base)' <=> Good(a, base)
               /\ Answered(a, ps)' <=> Answered(a, ps)
               /\ Follows(a, b)' <=> Follows(a, b)
    BY Zenon DEF Good, Ahead, Answered, Follows, Before, Order, Begins
  <1> QED BY <1>3, <1>4 DEF Chain

(* A rank at the end of the chain makes it longer; one that is behind makes *)
(* the step that the chain already has, as it is determined.                *)
LEMMA CommonStep ==
    ASSUME NEW k \in Nat \ {0}, NEW base \in Nat,
           NEW T \in [1 .. k -> Snapshot], NEW at \in [Rank -> 1 .. k],
           posted \in Seq(SUBSET Actions),
           Chain(k, base, T, posted), Placed(T, at),
           NEW r \in Rank, NEW b \in Snapshot,
           Here(r)' = b, \A q \in Rank \ {r} : Here(q)' = Here(q),
           Advances(Here(r), b, posted), Answered(Here(r), posted),
           pc[r] = "outside" => call[r] <= Len(Script),
           posted' = posted \/ \E x \in SUBSET Actions : posted' = Append(posted, x),
           stop' = stop, crashes' = crashes,
           \A d \in disk' : d.life = crashes => \E i \in 1 .. k : AtRest(d, T[i])
    PROVE  Common'
  <1>1. T[at[r]] = Here(r) /\ at[r] \in 1 .. k /\ Here(r) \in Snapshot
    BY DEF Placed
  <1>2. pc[r] = Here(r).pc /\ call[r] = Here(r).call
    BY DEF Here, Snap
  <1>3. Good(b, base) /\ Follows(Here(r), b)
    <2>1. Good(Here(r), base)
      BY <1>1 DEF Chain
    <2> QED BY <1>1, <1>2, <2>1, AdvancesWell
  <1>4. SUFFICES ASSUME NEW l \in Nat \ {0}, NEW U \in [1 .. l -> Snapshot],
                        NEW u \in [Rank -> 1 .. l],
                        Chain(l, base, U, posted), k <= l,
                        \A i \in 1 .. k : U[i] = T[i],
                        U[u[r]] = b, \A q \in Rank \ {r} : U[u[q]] = Here(q)
                 PROVE  Common'
    <2>1. CASE at[r] = k
      <3> DEFINE U == Longer(T, k, b)
                 u == [at EXCEPT ![r] = k + 1]
      <3>1. U \in [1 .. k + 1 -> Snapshot] /\ Chain(k + 1, base, U, posted)
        <4>1. T[k] = Here(r)
          BY <1>1, <2>1
        <4>3. Advances(T[k], b, posted) /\ Answered(T[k], posted) /\ Follows(T[k], b)
          BY <1>3, <4>1
        <4> QED BY <1>3, <4>3, ChainGrows
      <3>2. /\ \A i \in 1 .. k : U[i] = T[i]
            /\ U[k + 1] = b
        BY DEF Longer
      <3>3. /\ u \in [Rank -> 1 .. k + 1] /\ u[r] = k + 1
            /\ \A q \in Rank \ {r} : u[q] = at[q] /\ at[q] \in 1 .. k
        OBVIOUS
      <3>4. k + 1 \in Nat \ {0} /\ k <= k + 1
        OBVIOUS
      <3> HIDE DEF U, u
      <3>5. \A q \in Rank \ {r} : U[u[q]] = Here(q)
        BY <3>2, <3>3 DEF Placed
      <3>6. U[u[r]] = b
        BY <3>2, <3>3
      <3> QED BY <1>4, <3>1, <3>2, <3>3, <3>4, <3>5, <3>6
    <2>2. CASE at[r] # k
      <3> DEFINE u == [at EXCEPT ![r] = at[r] + 1]
      <3>1. at[r] \in 1 .. k - 1 /\ at[r] + 1 \in 1 .. k
        BY <1>1, <2>2
      <3>2. Advances(Here(r), T[at[r] + 1], posted)
        BY <1>1, <3>1 DEF Chain
      <3>3. T[at[r] + 1] = b
        BY <1>1, <3>2, Deterministic
      <3>4. /\ u \in [Rank -> 1 .. k] /\ u[r] = at[r] + 1
            /\ \A q \in Rank \ {r} : u[q] = at[q]
        BY <3>1
      <3> HIDE DEF u
      <3>5. \A q \in Rank \ {r} : T[u[q]] = Here(q)
        BY <3>4 DEF Placed
      <3>6. T[u[r]] = b
        BY <3>3, <3>4
      <3>7. k <= k
        OBVIOUS
      <3> QED BY <1>4, <3>4, <3>5, <3>6, <3>7
    <2> QED BY <2>1, <2>2
  <1>5. PICK ps : ps = posted'
    OBVIOUS
  <1>6. Chain(l, base, U, ps)'
    <2>1. Chain(l, base, U, ps)
      <3>1. CASE posted' = posted
        BY <1>4, <1>5, <3>1
      <3>2. ASSUME NEW x \in SUBSET Actions, posted' = Append(posted, x)
            PROVE  Chain(l, base, U, ps)
        <4>1. Chain(l, base, U, Append(posted, x))
          BY <1>4, ChainStill
        <4> QED BY <1>5, <3>2, <4>1
      <3> QED BY <3>1, <3>2
    <2> QED BY <2>1, ChainSame
  <1>7. Chain(l, base, U, posted)'
    BY <1>5, <1>6
  <1>8. Placed(U, u)'
    <2>1. \A q \in Rank : U[u[q]] = Here(q)'
      BY <1>4
    <2> QED BY <2>1, Zenon DEF Placed
  <1>9. Stored(l, U)'
    <2>1. \A i \in 1 .. k : i \in 1 .. l
      BY <1>4
    <2>2. ASSUME NEW d \in disk', d.life = crashes'
          PROVE  \E i \in 1 .. l : AtRest(d, U[i])
      <3>1. PICK i \in 1 .. k : AtRest(d, T[i])
        BY <2>2
      <3> QED BY <1>4, <2>1, <3>1
    <2> QED BY <2>2, Zenon DEF Stored, AtRest
  <1> QED BY <1>7, <1>8, <1>9, Zenon DEF Common

-----------------------------------------------------------------------------
(* What the invariant says of one rank. *)
LEMMA RankFacts ==
    ASSUME CInv, NEW r \in Rank
    PROVE  /\ Here(r) \in Snapshot
           /\ sim[r].mom = (2 * (sim[r].istep + (IF pc[r] = "pushed" THEN 1 ELSE 0)))
                           - (IF sim[r].sync THEN 0 ELSE 1)
           /\ call[r] <= Len(Script) + 1
           /\ pc[r] # "outside" => call[r] <= Len(Script)
           /\ pc[r] \in {"begun", "pushed", "stepped", "flushed", "handled"} =>
                 heard[r] >= 1
           /\ pc[r] \in Places /\ sim[r] \in Object /\ heard[r] \in Nat
           /\ requested[r] \in SUBSET Actions /\ wrote[r] \in Seq(Nat)
           /\ call[r] \in Nat \ {0}
  <1>0. PICK k \in Nat \ {0}, base \in Nat :
               \E T \in [1 .. k -> Snapshot], at \in [Rank -> 1 .. k] :
                   Chain(k, base, T, posted) /\ Placed(T, at)
    BY Zenon DEF CInv, Common
  <1>1. PICK T \in [1 .. k -> Snapshot], at \in [Rank -> 1 .. k] :
               Chain(k, base, T, posted) /\ Placed(T, at)
    BY <1>0
  <1>2. Here(r) \in Snapshot /\ Good(Here(r), base)
    BY <1>1 DEF Chain, Placed
  <1>3. /\ Here(r).pc = pc[r] /\ Here(r).call = call[r] /\ Here(r).obj = sim[r]
        /\ Here(r).heard = heard[r]
    BY DEF Here, Snap
  <1>4. /\ pc[r] \in Places /\ sim[r] \in Object /\ wrote[r] \in Seq(Nat)
        /\ call[r] \in Nat \ {0}
    BY DEF CInv, IInv, Typed
  <1>5. heard[r] \in Nat /\ requested[r] \in SUBSET Actions
    BY DEF CInv, Bounded
  <1> QED BY <1>2, <1>3, <1>4, <1>5, Zenon DEF Good

(* One rank steps, from a place where it is not between its two pushes if   *)
(* it writes to disk, and writes what it is.                                *)
DiskStep(r) ==
    \/ disk' = disk
    \/ \E e : /\ e.step = sim[r].istep /\ e.sync = sim[r].sync /\ e.mom = sim[r].mom
              /\ e.life = crashes /\ pc[r] # "pushed"
              /\ disk' = {d \in disk : d.step # e.step \/ d.life = e.life} \union {e}

LEMMA CommonKept ==
    ASSUME CInv, IInv', NEW r \in Rank,
           Here(r)' \in Snapshot, \A q \in Rank \ {r} : Here(q)' = Here(q),
           Advances(Here(r), Here(r)', posted), Answered(Here(r), posted),
           pc[r] = "outside" => call[r] <= Len(Script),
           posted' = posted \/ \E x \in SUBSET Actions : posted' = Append(posted, x),
           stop' = stop, crashes' = crashes, DiskStep(r)
    PROVE  Common' /\ OnDisk'
  <1>0. PICK k \in Nat \ {0}, base \in Nat :
               \E T \in [1 .. k -> Snapshot], at \in [Rank -> 1 .. k] :
                   Chain(k, base, T, posted) /\ Placed(T, at) /\ Stored(k, T)
    BY Zenon DEF CInv, Common
  <1>1. PICK T \in [1 .. k -> Snapshot], at \in [Rank -> 1 .. k] :
               Chain(k, base, T, posted) /\ Placed(T, at) /\ Stored(k, T)
    BY <1>0
  <1>2. T[at[r]] = Here(r) /\ at[r] \in 1 .. k /\ posted \in Seq(SUBSET Actions)
    BY <1>1 DEF Placed, CInv, Bounded
  <1>3. \A i, j \in 1 .. k : \A d, e :
           AtRest(d, T[i]) /\ AtRest(e, T[j]) /\ d.step = e.step => d.sync = e.sync
    <2> TAKE i, j \in 1 .. k
    <2> TAKE d, e
    <2> HAVE AtRest(d, T[i]) /\ AtRest(e, T[j]) /\ d.step = e.step
    <2>1. CASE i = j
      BY <2>1 DEF AtRest
    <2>2. CASE i < j
      BY <1>1, <2>2 DEF AtRest, Chain, Follows
    <2>3. CASE j < i
      BY <1>1, <2>3 DEF AtRest, Chain, Follows
    <2> QED BY <2>1, <2>2, <2>3
  <1>4. Here(r).pc = pc[r] /\ Here(r).obj = sim[r]
    BY DEF Here, Snap
  <1>5. \A d \in disk : d.life = crashes => \E i \in 1 .. k : AtRest(d, T[i])
    BY <1>1 DEF Stored
  <1>6. crashes \in Nat
    BY DEF CInv, IInv, Typed
  <1>7. /\ \A d \in disk' : d.life = crashes => \E i \in 1 .. k : AtRest(d, T[i])
        /\ OnDisk'
    <2>1. CASE disk' = disk
      <3>1. OnDisk'
        BY <2>1 DEF CInv, OnDisk
      <3> QED BY <1>5, <2>1, <3>1
    <2>2. ASSUME NEW e,
                 e.step = sim[r].istep, e.sync = sim[r].sync, e.mom = sim[r].mom,
                 e.life = crashes, pc[r] # "pushed",
                 disk' = {d \in disk : d.step # e.step \/ d.life = e.life} \union {e}
          PROVE  /\ \A d \in disk' : d.life = crashes => \E i \in 1 .. k : AtRest(d, T[i])
                 /\ OnDisk'
      <3>1. AtRest(e, T[at[r]])
        BY <1>2, <1>4, <2>2 DEF AtRest
      <3>2. \A d \in disk' : d = e \/ (d \in disk /\ (d.step = e.step => d.life = crashes))
        BY <2>2, Zenon
      <3>3. \A d \in disk' : d.life = crashes => \E i \in 1 .. k : AtRest(d, T[i])
        BY <1>2, <1>5, <3>1, <3>2
      <3>4. \A d \in disk' : d.step = e.step => d.sync = e.sync
        <4> TAKE d \in disk'
        <4> HAVE d.step = e.step
        <4>1. CASE d = e
          BY <4>1
        <4>2. CASE d # e
          <5>1. PICK i \in 1 .. k : AtRest(d, T[i])
            BY <1>5, <3>2, <4>2
          <5> QED BY <1>2, <1>3, <3>1, <5>1
        <4> QED BY <4>1, <4>2
      <3>5. e.mom = (2 * e.step) - (IF e.sync THEN 0 ELSE 1)
        <4>1. /\ sim[r].mom = (2 * (sim[r].istep + (IF pc[r] = "pushed" THEN 1 ELSE 0)))
                              - (IF sim[r].sync THEN 0 ELSE 1)
              /\ sim[r].istep \in Nat
          BY RankFacts DEF Object
        <4>2. sim[r].istep + 0 = sim[r].istep
          BY <4>1
        <4> QED BY <2>2, <4>1, <4>2
      <3>6. ASSUME NEW d \in disk', NEW c \in disk', d.step = c.step
            PROVE  d.sync = c.sync
        <4>1. CASE d.step = e.step
          BY <3>4, <3>6, <4>1
        <4>2. CASE d.step # e.step
          <5>1. d \in disk /\ c \in disk
            BY <3>2, <3>6, <4>2
          <5> QED BY <3>6, <5>1 DEF CInv, OnDisk
        <4> QED BY <4>1, <4>2
      <3>7. ASSUME NEW d \in disk'
            PROVE  d.life <= crashes /\ d.mom = (2 * d.step) - (IF d.sync THEN 0 ELSE 1)
        <4>1. CASE d = e
          BY <1>6, <2>2, <3>5, <4>1
        <4>2. CASE d # e
          <5>1. d \in disk
            BY <3>2, <4>2
          <5> QED BY <5>1, Zenon DEF CInv, OnDisk
        <4> QED BY <4>1, <4>2
      <3>8. OnDisk'
        BY <3>6, <3>7, Zenon DEF OnDisk
      <3> QED BY <3>3, <3>8
    <2> QED BY <2>1, <2>2 DEF DiskStep
  <1>8. PICK b : b = Here(r)'
    OBVIOUS
  <1>9. Common'
    BY <1>1, <1>2, <1>7, <1>8, CommonStep
  <1> QED BY <1>7, <1>9

(* The steps that neither push nor count a step leave the ranks as close as *)
(* they are.                                                                *)
LEMMA TightStays ==
    ASSUME CInv, NEW r \in Rank, NEW place,
           pc' = [pc EXCEPT ![r] = place],
           pc[r] \notin {"begun", "pushed"}, place # "pushed",
           \A q \in Rank : sim'[q].istep = sim[q].istep
    PROVE  Tight'
  <1>1. \A q \in Rank : pc'[q] = IF q = r THEN place ELSE pc[q]
    BY DEF CInv, IInv, Typed
  <1>2. Tight
    BY DEF CInv
  <1> SUFFICES ASSUME NEW s \in Rank, NEW q \in Rank
               PROVE  /\ sim'[q].istep < sim'[s].istep =>
                            /\ sim'[q].istep = sim'[s].istep - 1
                            /\ pc'[q] = "pushed" /\ pc'[s] # "pushed"
                      /\ sim'[q].istep = sim'[s].istep /\ pc'[s] = "pushed" =>
                            pc'[q] \in {"begun", "pushed"}
    BY Zenon DEF Tight
  <1> QED BY <1>1, <1>2 DEF Tight

(* What one rank asks for does not concern the others. *)
LEMMA AskedStays ==
    ASSUME CInv, NEW r \in Rank, NEW place, NEW x, NEW h,
           pc' = [pc EXCEPT ![r] = place],
           requested' = [requested EXCEPT ![r] = x],
           heard' = [heard EXCEPT ![r] = h],
           posted' = posted,
           place \in {"outside", "loop", "after"} => x = {},
           place \in {"begun", "pushed", "stepped", "flushed"} =>
              x = IF r = Root THEN posted[h] ELSE {},
           place = "handled" => h <= Len(posted) /\ x = posted[h] \ {"checkpoint"}
    PROVE  Asked'
  <1>1. \A q \in Rank : /\ pc'[q] = IF q = r THEN place ELSE pc[q]
                        /\ requested'[q] = IF q = r THEN x ELSE requested[q]
                        /\ heard'[q] = IF q = r THEN h ELSE heard[q]
    BY DEF CInv, IInv, Typed, Bounded
  <1>2. Asked
    BY DEF CInv
  <1>3. ASSUME NEW q \in Rank
        PROVE  /\ pc'[q] \in {"outside", "loop", "after"} => requested'[q] = {}
               /\ pc'[q] \in {"begun", "pushed", "stepped", "flushed"} =>
                     requested'[q] = IF q = Root THEN posted[heard'[q]] ELSE {}
               /\ pc'[q] = "handled" =>
                     /\ heard'[q] <= Len(posted)
                     /\ requested'[q] = posted[heard'[q]] \ {"checkpoint"}
    <2>1. CASE q = r
      BY <1>1, <2>1
    <2>2. CASE q # r
      BY <1>1, <1>2, <2>2 DEF Asked
    <2> QED BY <2>1, <2>2
  <1> QED BY <1>3 DEF Asked

LEMMA HereAfter ==
    ASSUME CInv, IInv', Bounded', NEW r \in Rank,
           NEW place, NEW c, NEW p, NEW w, NEW h,
           pc' = [pc EXCEPT ![r] = place], call' = [call EXCEPT ![r] = c],
           sim' = [sim EXCEPT ![r] = p], wrote' = [wrote EXCEPT ![r] = w],
           heard' = [heard EXCEPT ![r] = h]
    PROVE  /\ Here(r)' = Snap(place, c, p, w, h)
           /\ Here(r)' \in Snapshot
           /\ \A q \in Rank \ {r} : Here(q)' = Here(q)
  <1>1. /\ pc'[r] = place /\ call'[r] = c /\ sim'[r] = p /\ wrote'[r] = w /\ heard'[r] = h
        /\ \A q \in Rank \ {r} : /\ pc'[q] = pc[q] /\ call'[q] = call[q]
                                 /\ sim'[q] = sim[q] /\ wrote'[q] = wrote[q]
                                 /\ heard'[q] = heard[q]
    BY DEF CInv, IInv, Typed, Bounded
  <1>2. /\ pc'[r] \in Places /\ call'[r] \in Nat \ {0} /\ sim'[r] \in Object
        /\ wrote'[r] \in Seq(Nat) /\ heard'[r] \in Nat
    BY DEF IInv, Typed, Bounded
  <1> QED BY <1>1, <1>2, Zenon DEF Here, Snap, Snapshot

-----------------------------------------------------------------------------
(* All steps of a rank but Begin leave the broadcasts alone. *)
LEMMA RankTogether ==
    ASSUME CInv, IInv', Tight', NEW r \in Rank,
           NEW place, NEW c, NEW p, NEW w, NEW x \in SUBSET Actions,
           pc' = [pc EXCEPT ![r] = place], call' = [call EXCEPT ![r] = c],
           sim' = [sim EXCEPT ![r] = p], wrote' = [wrote EXCEPT ![r] = w],
           requested' = [requested EXCEPT ![r] = x],
           heard' = heard, posted' = posted, flags' = flags, signals' = signals,
           stop' = stop, crashes' = crashes, DiskStep(r),
           Advances(Here(r), Snap(place, c, p, w, heard[r]), posted),
           Answered(Here(r), posted),
           pc[r] = "outside" => call[r] <= Len(Script),
           place \in {"outside", "loop", "after"} => x = {},
           place \in {"begun", "pushed", "stepped", "flushed"} =>
              x = IF r = Root THEN posted[heard[r]] ELSE {},
           place = "handled" =>
              heard[r] <= Len(posted) /\ x = posted[heard[r]] \ {"checkpoint"}
    PROVE  CInv'
  <1>1. heard' = [heard EXCEPT ![r] = heard[r]]
    BY DEF CInv, Bounded
  <1>2. Bounded'
    <2>1. requested' \in [Rank -> SUBSET Actions]
      BY DEF CInv, Bounded
    <2> QED BY <2>1, Zenon DEF CInv, Bounded
  <1>3. /\ Here(r)' = Snap(place, c, p, w, heard[r])
        /\ Here(r)' \in Snapshot
        /\ \A q \in Rank \ {r} : Here(q)' = Here(q)
    BY <1>1, <1>2, HereAfter, Zenon
  <1>4. Asked'
    BY <1>1, AskedStays, Zenon
  <1>5. Common' /\ OnDisk'
    BY <1>3, CommonKept, Zenon
  <1> QED BY <1>2, <1>4, <1>5 DEF CInv

LEMMA HereIs ==
    ASSUME NEW r
    PROVE  /\ Here(r).pc = pc[r] /\ Here(r).call = call[r] /\ Here(r).obj = sim[r]
           /\ Here(r).wrote = wrote[r] /\ Here(r).heard = heard[r]
  BY DEF Here, Snap

LEMMA EnterTogether == ASSUME CInv, IInv', NEW r \in Rank, Enter(r) PROVE CInv'
  <1> DEFINE y == NumStepsMax(sim[r], Script[call[r]])
             p == [sim[r] EXCEPT !.limit = y]
  <1>1. /\ pc[r] = "outside" /\ pc' = [pc EXCEPT ![r] = "loop"]
        /\ call[r] <= Len(Script) /\ sim' = [sim EXCEPT ![r] = p]
        /\ UNCHANGED <<stop, call, requested, flags, posted, heard, wrote, disk,
                       signals, crashes>>
    BY Zenon DEF Enter, At
  <1>2. /\ call' = [call EXCEPT ![r] = call[r]] /\ wrote' = [wrote EXCEPT ![r] = wrote[r]]
        /\ requested' = [requested EXCEPT ![r] = requested[r]]
    BY <1>1, Zenon DEF CInv, IInv, Typed, Bounded
  <1>3. /\ requested[r] \in SUBSET Actions /\ requested[r] = {}
    BY <1>1, RankFacts DEF CInv, Asked
  <1>4. Advances(Here(r), Snap("loop", call[r], p, wrote[r], heard[r]), posted)
    BY <1>1, HereIs, Zenon DEF Advances
  <1>5. Answered(Here(r), posted)
    BY <1>1, HereIs DEF Answered
  <1>6. sim[r] \in Object /\ sim \in [Rank -> Object]
    BY DEF CInv, IInv, Typed
  <1>7. p.istep = sim[r].istep
    <2> HIDE DEF y
    <2> QED BY <1>6, Zenon DEF Object
  <1> HIDE DEF p
  <1>8. Tight'
    <2>1. \A q \in Rank : sim'[q].istep = sim[q].istep
      BY <1>1, <1>6, <1>7
    <2> QED BY <1>1, <2>1, TightStays
  <1>9. DiskStep(r)
    BY <1>1 DEF DiskStep
  <1> QED BY <1>1, <1>2, <1>3, <1>4, <1>5, <1>8, <1>9, RankTogether, Zenon

LEMMA LoopEndsTogether == ASSUME CInv, IInv', NEW r \in Rank, LoopEnds(r) PROVE CInv'
  <1>1. /\ pc[r] = "loop" /\ pc' = [pc EXCEPT ![r] = "after"] /\ ~Continues(sim[r])
        /\ UNCHANGED <<stop, call, sim, requested, flags, posted, heard, wrote, disk,
                       signals, crashes>>
    BY Zenon DEF LoopEnds, At
  <1>2. /\ call' = [call EXCEPT ![r] = call[r]] /\ wrote' = [wrote EXCEPT ![r] = wrote[r]]
        /\ requested' = [requested EXCEPT ![r] = requested[r]]
        /\ sim' = [sim EXCEPT ![r] = sim[r]]
    BY <1>1, Zenon DEF CInv, IInv, Typed, Bounded
  <1>3. /\ requested[r] \in SUBSET Actions /\ requested[r] = {}
    BY <1>1, RankFacts DEF CInv, Asked
  <1>4. Advances(Here(r), Snap("after", call[r], sim[r], wrote[r], heard[r]), posted)
    BY <1>1, HereIs, Zenon DEF Advances
  <1>5. Answered(Here(r), posted)
    BY <1>1, HereIs DEF Answered
  <1>8. Tight'
    <2>1. \A q \in Rank : sim'[q].istep = sim[q].istep
      BY <1>1
    <2> QED BY <1>1, <2>1, TightStays
  <1>9. DiskStep(r)
    BY <1>1 DEF DiskStep
  <1> QED BY <1>1, <1>2, <1>3, <1>4, <1>5, <1>8, <1>9, RankTogether, Zenon

LEMMA PushTogether == ASSUME CInv, IInv', NEW r \in Rank, Push(r) PROVE CInv'
  <1> DEFINE p == Stepped(Filled(sim[r]))
  <1>1. /\ pc[r] = "begun" /\ pc' = [pc EXCEPT ![r] = "pushed"]
        /\ sim' = [sim EXCEPT ![r] = p]
        /\ UNCHANGED <<stop, call, requested, flags, posted, heard, wrote, disk,
                       signals, crashes>>
    BY Zenon DEF Push, At
  <1>2. /\ call' = [call EXCEPT ![r] = call[r]] /\ wrote' = [wrote EXCEPT ![r] = wrote[r]]
        /\ requested' = [requested EXCEPT ![r] = requested[r]]
    BY <1>1, Zenon DEF CInv, IInv, Typed, Bounded
  <1>3. /\ requested[r] \in SUBSET Actions
        /\ requested[r] = IF r = Root THEN posted[heard[r]] ELSE {}
    BY <1>1, RankFacts DEF CInv, Asked
  <1>4. Advances(Here(r), Snap("pushed", call[r], p, wrote[r], heard[r]), posted)
    BY <1>1, HereIs, Zenon DEF Advances
  <1>5. Answered(Here(r), posted)
    BY <1>1, HereIs DEF Answered
  <1>6. sim[r] \in Object /\ sim \in [Rank -> Object] /\ pc \in [Rank -> Places]
    BY DEF CInv, IInv, Typed
  <1>7. p.istep = sim[r].istep
    BY <1>6, FilledObject, SteppedObject
  <1> HIDE DEF p
  <1>8. Tight'
    <2>1. \A q \in Rank : /\ sim'[q].istep = sim[q].istep /\ sim[q].istep \in Nat
                          /\ pc'[q] = IF q = r THEN "pushed" ELSE pc[q]
      BY <1>1, <1>6, <1>7 DEF Object
    <2>2. \A q \in Rank :
             \/ sim[q].istep > sim[r].istep
             \/ sim[q].istep = sim[r].istep /\ pc[q] \in {"begun", "pushed"}
      BY DEF Push, Arrived
    <2>3. Tight
      BY DEF CInv
    <2> SUFFICES ASSUME NEW s \in Rank, NEW q \in Rank
                 PROVE  /\ sim'[q].istep < sim'[s].istep =>
                              /\ sim'[q].istep = sim'[s].istep - 1
                              /\ pc'[q] = "pushed" /\ pc'[s] # "pushed"
                        /\ sim'[q].istep = sim'[s].istep /\ pc'[s] = "pushed" =>
                              pc'[q] \in {"begun", "pushed"}
      BY Zenon DEF Tight
    <2> QED BY <1>1, <2>1, <2>2, <2>3 DEF Tight
  <1>9. DiskStep(r)
    BY <1>1 DEF DiskStep
  <1> QED BY <1>1, <1>2, <1>3, <1>4, <1>5, <1>8, <1>9, RankTogether, Zenon

LEMMA HandleBoundariesTogether ==
    ASSUME CInv, IInv', NEW r \in Rank, HandleBoundaries(r) PROVE CInv'
  <1> DEFINE p == Counted(sim[r])
  <1>1. /\ pc[r] = "pushed" /\ pc' = [pc EXCEPT ![r] = "stepped"]
        /\ sim' = [sim EXCEPT ![r] = p]
        /\ UNCHANGED <<stop, call, requested, flags, posted, heard, wrote, disk,
                       signals, crashes>>
    <2>1. sim' = [sim EXCEPT ![r] = p]
      BY Zenon DEF HandleBoundaries, Counted, CInv, IInv, Typed
    <2> QED BY <2>1, Zenon DEF HandleBoundaries, At
  <1>2. /\ call' = [call EXCEPT ![r] = call[r]] /\ wrote' = [wrote EXCEPT ![r] = wrote[r]]
        /\ requested' = [requested EXCEPT ![r] = requested[r]]
    BY <1>1, Zenon DEF CInv, IInv, Typed, Bounded
  <1>3. /\ requested[r] \in SUBSET Actions
        /\ requested[r] = IF r = Root THEN posted[heard[r]] ELSE {}
    BY <1>1, RankFacts DEF CInv, Asked
  <1>4. Advances(Here(r), Snap("stepped", call[r], p, wrote[r], heard[r]), posted)
    BY <1>1, HereIs, Zenon DEF Advances
  <1>5. Answered(Here(r), posted)
    BY <1>1, HereIs DEF Answered
  <1>6. sim[r] \in Object /\ sim \in [Rank -> Object] /\ pc \in [Rank -> Places]
    BY DEF CInv, IInv, Typed
  <1>7. p.istep = sim[r].istep + 1
    BY <1>6, CountedObject
  <1> HIDE DEF p
  <1>8. Tight'
    <2>1. \A q \in Rank : /\ sim'[q].istep = IF q = r THEN sim[r].istep + 1 ELSE sim[q].istep
                          /\ sim[q].istep \in Nat
                          /\ pc'[q] = IF q = r THEN "stepped" ELSE pc[q]
      BY <1>1, <1>6, <1>7 DEF Object
    <2>2. \A q \in Rank :
             \/ sim[q].istep > sim[r].istep
             \/ sim[q].istep = sim[r].istep /\ pc[q] = "pushed"
      BY DEF HandleBoundaries, Exchanges
    <2>3. Tight
      BY DEF CInv
    <2> SUFFICES ASSUME NEW s \in Rank, NEW q \in Rank
                 PROVE  /\ sim'[q].istep < sim'[s].istep =>
                              /\ sim'[q].istep = sim'[s].istep - 1
                              /\ pc'[q] = "pushed" /\ pc'[s] # "pushed"
                        /\ sim'[q].istep = sim'[s].istep /\ pc'[s] = "pushed" =>
                              pc'[q] \in {"begun", "pushed"}
      BY Zenon DEF Tight
    <2> QED BY <1>1, <2>1, <2>2, <2>3 DEF Tight
  <1>9. DiskStep(r)
    BY <1>1 DEF DiskStep
  <1> QED BY <1>1, <1>2, <1>3, <1>4, <1>5, <1>8, <1>9, RankTogether, Zenon

LEMMA CheckStopTogether == ASSUME CInv, IInv', NEW r \in Rank, CheckStop(r) PROVE CInv'
  <1> DEFINE exit == "break" \in requested[r]
             over == AtStop(Time(sim[r].istep)) \/ exit
             place == IF over THEN "after" ELSE "loop"
             p == [sim[r] EXCEPT !.exit = exit]
  <1>1. /\ pc[r] = "handled" /\ pc' = [pc EXCEPT ![r] = place]
        /\ sim' = [sim EXCEPT ![r] = p]
        /\ requested' = [requested EXCEPT ![r] = requested[r] \ {"break"}]
        /\ UNCHANGED <<stop, call, flags, posted, heard, wrote, disk, signals, crashes>>
    BY Zenon DEF CheckStop, At, CInv, IInv, Typed, Bounded
  <1>2. /\ call' = [call EXCEPT ![r] = call[r]] /\ wrote' = [wrote EXCEPT ![r] = wrote[r]]
    BY <1>1, Zenon DEF CInv, IInv, Typed
  <1>3. /\ requested[r] \in SUBSET Actions /\ heard[r] \in Nat /\ heard[r] >= 1
        /\ heard[r] <= Len(posted)
        /\ requested[r] = posted[heard[r]] \ {"checkpoint"}
    BY <1>1, RankFacts DEF CInv, Asked
  <1>4. exit <=> "break" \in posted[heard[r]]
    BY <1>3
  <1>5. place = (IF AtStop(Time(sim[r].istep)) \/ "break" \in posted[heard[r]]
                 THEN "after" ELSE "loop")
    BY <1>4
  <1>6. p = [sim[r] EXCEPT !.exit = "break" \in posted[heard[r]]]
    <2>1. exit = ("break" \in posted[heard[r]])
      BY <1>4
    <2> HIDE DEF exit
    <2> QED BY <2>1
  <1>7. place \in {"after", "loop"}
    BY <1>5
  <1>8. sim[r] \in Object /\ sim \in [Rank -> Object]
    BY DEF CInv, IInv, Typed
  <1>9. p.istep = sim[r].istep
    <2> HIDE DEF exit
    <2> QED BY <1>8, Zenon DEF Object
  <1> HIDE DEF p, place
  <1>10. Advances(Here(r), Snap(place, call[r], p, wrote[r], heard[r]), posted)
    BY <1>1, <1>5, <1>6, HereIs, Zenon DEF Advances
  <1>11. Answered(Here(r), posted)
    <2>1. posted \in Seq(SUBSET Actions)
      BY DEF CInv, Bounded
    <2> QED BY <1>3, <2>1, HereIs DEF Answered
  <1>12. Tight'
    <2>1. \A q \in Rank : sim'[q].istep = sim[q].istep
      BY <1>1, <1>8, <1>9
    <2>2. pc[r] \notin {"begun", "pushed"} /\ place # "pushed"
      BY <1>1, <1>7
    <2> QED BY <1>1, <2>1, <2>2, TightStays
  <1>13. DiskStep(r)
    BY <1>1 DEF DiskStep
  <1> DEFINE x == requested[r] \ {"break"}
  <1>14. x \in SUBSET Actions /\ x = {}
    BY <1>3 DEF Actions
  <1>15. requested' = [requested EXCEPT ![r] = x]
    BY <1>1
  <1> HIDE DEF x
  <1>16. /\ place \in {"outside", "loop", "after"} => x = {}
         /\ place \in {"begun", "pushed", "stepped", "flushed"} =>
               x = IF r = Root THEN posted[heard[r]] ELSE {}
         /\ place = "handled" =>
               heard[r] <= Len(posted) /\ x = posted[heard[r]] \ {"checkpoint"}
    BY <1>7, <1>14
  <1>17. pc[r] # "outside"
    BY <1>1
  <1> QED BY <1>1, <1>2, <1>10, <1>11, <1>12, <1>13, <1>14, <1>15, <1>16, <1>17,
             RankTogether, Zenon

(* FilterComputePackFlush for the chain. *)
LEMMA FlushTogether ==
    ASSUME CInv, NEW r \in Rank, NEW n, NEW forced \in BOOLEAN, pc[r] # "pushed",
           Flush(r, sim[r], n, forced)
    PROVE  /\ sim' = [sim EXCEPT ![r] = AfterFlush(sim[r], n, forced)]
           /\ wrote' = [wrote EXCEPT ![r] = Written(Here(r), n, forced)]
           /\ AfterFlush(sim[r], n, forced).istep = sim[r].istep
           /\ crashes \in Nat
           /\ DiskStep(r)
  <1> DEFINE q == AfterFlush(sim[r], n, forced)
  <1>1. sim[r] \in Object /\ crashes \in Nat
    BY DEF CInv, IInv, Typed
  <1>2. q.istep = sim[r].istep /\ q.sync = sim[r].sync /\ q.mom = sim[r].mom
    BY <1>1, FlushedObject, FlushedTime
  <1>3. sim' = [sim EXCEPT ![r] = q]
    BY DEF Flush
  <1>4. CASE Dumps(sim[r], n, forced)
    <2>1. wrote' = [wrote EXCEPT ![r] = Append(wrote[r], q.istep)] /\ disk' = Saved(Part(r, q))
      BY <1>4, Zenon DEF Flush
    <2>2. Written(Here(r), n, forced) = Append(wrote[r], sim[r].istep)
      BY <1>4, HereIs, Zenon DEF Written
    <2>3. DiskStep(r)
      <3> DEFINE e == Part(r, q)
      <3>1. e.step = q.istep /\ e.sync = q.sync /\ e.mom = q.mom /\ e.life = crashes
        BY Zenon DEF Part
      <3>2. disk' = {d \in disk : d.step # e.step \/ d.life = e.life} \union {e}
        BY <2>1, Zenon DEF Saved
      <3> HIDE DEF e
      <3> QED BY <1>2, <3>1, <3>2 DEF DiskStep
    <2> QED BY <1>1, <1>2, <1>3, <2>1, <2>2, <2>3
  <1>5. CASE ~Dumps(sim[r], n, forced)
    <2>1. wrote' = wrote /\ disk' = disk
      BY <1>5, Zenon DEF Flush
    <2>2. Written(Here(r), n, forced) = wrote[r]
      BY <1>5, HereIs, Zenon DEF Written
    <2>3. wrote' = [wrote EXCEPT ![r] = wrote[r]]
      BY <2>1, Zenon DEF CInv, IInv, Typed
    <2> QED BY <1>1, <1>2, <1>3, <2>1, <2>2, <2>3 DEF DiskStep
  <1> QED BY <1>4, <1>5

LEMMA DiagnoseTogether == ASSUME CInv, IInv', NEW r \in Rank, Diagnose(r) PROVE CInv'
  <1> DEFINE n == sim[r].istep - 1
             p == AfterFlush(sim[r], n, FALSE)
             w == Written(Here(r), n, FALSE)
  <1>1. /\ pc[r] = "stepped" /\ pc' = [pc EXCEPT ![r] = "flushed"]
        /\ Flush(r, sim[r], n, FALSE)
        /\ UNCHANGED <<stop, call, requested, flags, posted, heard, signals, crashes>>
    BY Zenon DEF Diagnose, At
  <1>2. /\ call' = [call EXCEPT ![r] = call[r]]
        /\ requested' = [requested EXCEPT ![r] = requested[r]]
    BY <1>1, Zenon DEF CInv, IInv, Typed, Bounded
  <1>3. /\ requested[r] \in SUBSET Actions
        /\ requested[r] = IF r = Root THEN posted[heard[r]] ELSE {}
    BY <1>1, RankFacts DEF CInv, Asked
  <1>4. /\ sim' = [sim EXCEPT ![r] = p] /\ wrote' = [wrote EXCEPT ![r] = w]
        /\ p.istep = sim[r].istep /\ DiskStep(r)
    BY <1>1, FlushTogether
  <1>5. Advances(Here(r), Snap("flushed", call[r], p, w, heard[r]), posted)
    BY <1>1, HereIs, Zenon DEF Advances
  <1>6. Answered(Here(r), posted)
    BY <1>1, HereIs DEF Answered
  <1> HIDE DEF n, p, w
  <1>7. Tight'
    <2>1. \A q \in Rank : sim'[q].istep = sim[q].istep
      BY <1>4 DEF CInv, IInv, Typed
    <2> QED BY <1>1, <2>1, TightStays
  <1> QED BY <1>1, <1>2, <1>3, <1>4, <1>5, <1>6, <1>7, RankTogether, Zenon

LEMMA HandleSignalsTogether ==
    ASSUME CInv, IInv', NEW r \in Rank, HandleSignals(r) PROVE CInv'
  <1> DEFINE n == sim[r].istep
             x == posted[heard[r]] \ {"checkpoint"}
  <1>1. /\ pc[r] = "flushed" /\ pc' = [pc EXCEPT ![r] = "handled"]
        /\ heard[r] <= Len(posted)
        /\ requested' = [requested EXCEPT ![r] = Received(r) \ {"checkpoint"}]
        /\ UNCHANGED <<stop, call, flags, posted, heard, signals, crashes>>
    BY Zenon DEF HandleSignals, At
  <1>2. call' = [call EXCEPT ![r] = call[r]]
    BY <1>1, Zenon DEF CInv, IInv, Typed
  <1>3. /\ heard[r] \in 1 .. Len(posted) /\ posted \in Seq(SUBSET Actions)
        /\ requested[r] = IF r = Root THEN posted[heard[r]] ELSE {}
    <2>1. heard[r] \in Nat /\ heard[r] >= 1
      BY <1>1, RankFacts
    <2>2. posted \in Seq(SUBSET Actions)
      BY DEF CInv, Bounded
    <2> QED BY <1>1, <2>1, <2>2 DEF CInv, Asked
  <1>4. Received(r) = posted[heard[r]]
    BY <1>3 DEF Received
  <1>5. x \in SUBSET Actions /\ requested' = [requested EXCEPT ![r] = x]
    <2>1. posted[heard[r]] \in SUBSET Actions
      BY <1>3
    <2> QED BY <1>1, <1>4, <2>1
  <1>6. Answered(Here(r), posted)
    BY <1>3, HereIs DEF Answered
  <1>7. /\ "handled" \in {"outside", "loop", "after"} => x = {}
        /\ "handled" \in {"begun", "pushed", "stepped", "flushed"} =>
              x = IF r = Root THEN posted[heard[r]] ELSE {}
        /\ "handled" = "handled" =>
              heard[r] <= Len(posted) /\ x = posted[heard[r]] \ {"checkpoint"}
        /\ pc[r] # "outside"
    BY <1>1
  <1> HIDE DEF x
  <1>8. CASE "checkpoint" \in posted[heard[r]]
    <2> DEFINE p == AfterFlush(sim[r], n, TRUE)
               w == Written(Here(r), n, TRUE)
    <2>1. Flush(r, sim[r], n, TRUE)
      BY <1>4, <1>8, Zenon DEF HandleSignals
    <2>2. /\ sim' = [sim EXCEPT ![r] = p] /\ wrote' = [wrote EXCEPT ![r] = w]
          /\ p.istep = sim[r].istep /\ DiskStep(r)
      BY <1>1, <2>1, FlushTogether
    <2>3. Advances(Here(r), Snap("handled", call[r], p, w, heard[r]), posted)
      BY <1>1, <1>8, HereIs, Zenon DEF Advances
    <2> HIDE DEF p, w
    <2>4. Tight'
      <3>1. \A q \in Rank : sim'[q].istep = sim[q].istep
        BY <2>2 DEF CInv, IInv, Typed
      <3> QED BY <1>1, <3>1, TightStays
    <2> QED BY <1>1, <1>2, <1>5, <1>6, <1>7, <2>2, <2>3, <2>4, RankTogether, Zenon
  <1>9. CASE "checkpoint" \notin posted[heard[r]]
    <2>1. sim' = sim /\ wrote' = wrote /\ disk' = disk
      BY <1>4, <1>9, Zenon DEF HandleSignals
    <2>2. sim' = [sim EXCEPT ![r] = sim[r]] /\ wrote' = [wrote EXCEPT ![r] = wrote[r]]
      BY <2>1, Zenon DEF CInv, IInv, Typed
    <2>3. Advances(Here(r), Snap("handled", call[r], sim[r], wrote[r], heard[r]), posted)
      BY <1>1, <1>9, HereIs, Zenon DEF Advances
    <2>4. Tight'
      BY <1>1, <2>1, TightStays
    <2>5. DiskStep(r)
      BY <2>1 DEF DiskStep
    <2> QED BY <1>1, <1>2, <1>5, <1>6, <1>7, <2>2, <2>3, <2>4, <2>5, RankTogether, Zenon
  <1> QED BY <1>8, <1>9

LEMMA LeaveTogether == ASSUME CInv, IInv', NEW r \in Rank, Leave(r) PROVE CInv'
  <1> DEFINE n == sim[r].istep
             c == call[r] + 1
  <1>1. /\ pc[r] = "after" /\ pc' = [pc EXCEPT ![r] = "outside"]
        /\ call' = [call EXCEPT ![r] = c]
        /\ UNCHANGED <<stop, requested, flags, posted, heard, signals, crashes>>
    BY Zenon DEF Leave, At, CInv, IInv, Typed
  <1>2. /\ requested' = [requested EXCEPT ![r] = requested[r]]
    BY <1>1, Zenon DEF CInv, Bounded
  <1>3. /\ requested[r] \in SUBSET Actions /\ requested[r] = {}
    BY <1>1, RankFacts DEF CInv, Asked
  <1>4. Answered(Here(r), posted)
    BY <1>1, HereIs DEF Answered
  <1>5. CASE AtEnd(sim[r])
    <2> DEFINE p == AfterFlush(sim[r], n, TRUE)
               w == Written(Here(r), n, TRUE)
    <2>1. Flush(r, sim[r], n, TRUE)
      BY <1>5, Zenon DEF Leave
    <2>2. /\ sim' = [sim EXCEPT ![r] = p] /\ wrote' = [wrote EXCEPT ![r] = w]
          /\ p.istep = sim[r].istep /\ DiskStep(r)
      BY <1>1, <2>1, FlushTogether
    <2>3. Advances(Here(r), Snap("outside", c, p, w, heard[r]), posted)
      BY <1>1, <1>5, HereIs, Zenon DEF Advances
    <2> HIDE DEF p, w, c
    <2>4. Tight'
      <3>1. \A q \in Rank : sim'[q].istep = sim[q].istep
        BY <2>2 DEF CInv, IInv, Typed
      <3> QED BY <1>1, <3>1, TightStays
    <2> QED BY <1>1, <1>2, <1>3, <1>4, <2>2, <2>3, <2>4, RankTogether, Zenon
  <1>6. CASE ~AtEnd(sim[r])
    <2>1. sim' = sim /\ wrote' = wrote /\ disk' = disk
      BY <1>6, Zenon DEF Leave
    <2>2. sim' = [sim EXCEPT ![r] = sim[r]] /\ wrote' = [wrote EXCEPT ![r] = wrote[r]]
      BY <2>1, Zenon DEF CInv, IInv, Typed
    <2>3. Advances(Here(r), Snap("outside", c, sim[r], wrote[r], heard[r]), posted)
      BY <1>1, <1>6, HereIs, Zenon DEF Advances
    <2>4. Tight'
      BY <1>1, <2>1, TightStays
    <2>5. DiskStep(r)
      BY <2>1 DEF DiskStep
    <2> HIDE DEF c
    <2> QED BY <1>1, <1>2, <1>3, <1>4, <2>2, <2>3, <2>4, <2>5, RankTogether, Zenon
  <1> QED BY <1>5, <1>6

LEMMA BeginTogether == ASSUME CInv, IInv', NEW r \in Rank, Begin(r) PROVE CInv'
  <1> DEFINE p == [sim[r] EXCEPT !.done = FALSE]
             h == heard[r] + 1
             all == requested[r] \union ActionsOf(flags)
  <1>1. /\ pc[r] = "loop" /\ pc' = [pc EXCEPT ![r] = "begun"] /\ Continues(sim[r])
        /\ sim' = [sim EXCEPT ![r] = p] /\ heard' = [heard EXCEPT ![r] = h]
        /\ UNCHANGED <<stop, call, wrote, disk, signals, crashes>>
    BY Zenon DEF Begin, At, CheckSignals, CInv, IInv, Typed, Bounded
  <1>2. /\ call' = [call EXCEPT ![r] = call[r]] /\ wrote' = [wrote EXCEPT ![r] = wrote[r]]
    BY <1>1, Zenon DEF CInv, IInv, Typed
  <1>3. /\ sim[r] \in Object /\ sim \in [Rank -> Object] /\ pc \in [Rank -> Places]
        /\ posted \in Seq(SUBSET Actions) /\ heard \in [Rank -> Nat]
        /\ requested \in [Rank -> SUBSET Actions] /\ heard[Root] = Len(posted)
        /\ Root \in Rank
    BY EvolveAssumption DEF CInv, IInv, Typed, Bounded
  <1>4. requested[r] = {}
    BY <1>1 DEF CInv, Asked
  <1>5. all \in SUBSET Actions
    BY <1>3 DEF ActionsOf
  <1>6. /\ r = Root => /\ requested' = [requested EXCEPT ![r] = all]
                       /\ posted' = Append(posted, all) /\ flags' = {}
        /\ r # Root => requested' = requested /\ posted' = posted /\ flags' = flags
    BY Zenon DEF Begin, CheckSignals
  <1>7. p.istep = sim[r].istep
    BY <1>3, Zenon DEF Object
  <1>8. Advances(Here(r), Snap("begun", call[r], p, wrote[r], h), posted)
    BY <1>1, HereIs, Zenon DEF Advances
  <1>9. Answered(Here(r), posted)
    BY <1>1, HereIs DEF Answered
  <1> HIDE DEF p, all
  <1>10. h \in Nat /\ heard' \in [Rank -> Nat] /\ heard'[r] = h
    BY <1>1, <1>3
  <1>11. Bounded'
    <2>1. /\ requested' \in [Rank -> SUBSET Actions] /\ posted' \in Seq(SUBSET Actions)
          /\ flags' \subseteq CheckpointSignals \union BreakSignals
      <3>1. CASE r = Root
        <4>1. flags' = {} /\ posted' = Append(posted, all)
              /\ requested' = [requested EXCEPT ![r] = all]
          BY <1>6, <3>1
        <4>2. Append(posted, all) \in Seq(SUBSET Actions)
          BY <1>3, <1>5
        <4>3. [requested EXCEPT ![r] = all] \in [Rank -> SUBSET Actions]
          BY <1>3, <1>5
        <4> QED BY <4>1, <4>2, <4>3
      <3>2. CASE r # Root
        <4>1. flags \subseteq CheckpointSignals \union BreakSignals
          BY DEF CInv, Bounded
        <4> QED BY <1>3, <1>6, <3>2, <4>1, Zenon
      <3> QED BY <3>1, <3>2
    <2>2. heard'[Root] = Len(posted')
      <3>1. CASE r = Root
        BY <1>3, <1>5, <1>6, <1>10, <3>1
      <3>2. CASE r # Root
        BY <1>1, <1>3, <1>6, <3>2
      <3> QED BY <3>1, <3>2
    <2> QED BY <1>1, <1>10, <2>1, <2>2, Zenon DEF CInv, Bounded
  <1>12. Asked'
    <2>1. CASE r # Root
      <3>1. requested' = [requested EXCEPT ![r] = {}]
        BY <1>3, <1>4, <1>6, <2>1
      <3> DEFINE x == {}
      <3>2. requested' = [requested EXCEPT ![r] = x] /\ posted' = posted
            /\ (x = IF r = Root THEN posted[h] ELSE {})
        BY <1>6, <2>1, <3>1
      <3> HIDE DEF x, h
      <3> QED BY <1>1, <3>2, AskedStays
    <2>2. CASE r = Root
      <3>1. /\ posted' = Append(posted, all) /\ h = Len(posted) + 1
            /\ requested' = [requested EXCEPT ![r] = all]
        BY <1>3, <1>6, <2>2
      <3>2. /\ posted'[h] = all /\ \A i \in 1 .. Len(posted) : posted'[i] = posted[i]
            /\ Len(posted') = Len(posted) + 1
        BY <1>3, <1>5, <3>1
      <3>3. /\ pc'[r] = "begun" /\ requested'[r] = all
        BY <1>1, <1>3, <3>1
      <3>4. \A q \in Rank \ {r} : /\ pc'[q] = pc[q] /\ requested'[q] = requested[q]
                                  /\ heard'[q] = heard[q]
        BY <1>1, <1>3, <3>1
      <3>5. ASSUME NEW q \in Rank
            PROVE  /\ pc'[q] \in {"outside", "loop", "after"} => requested'[q] = {}
                   /\ pc'[q] \in {"begun", "pushed", "stepped", "flushed"} =>
                         requested'[q] = IF q = Root THEN posted'[heard'[q]] ELSE {}
                   /\ pc'[q] = "handled" =>
                         /\ heard'[q] <= Len(posted')
                         /\ requested'[q] = posted'[heard'[q]] \ {"checkpoint"}
        <4>1. CASE q = r
          BY <1>10, <2>2, <3>2, <3>3, <4>1
        <4>2. CASE q # r
          <5>1. pc[q] = "handled" => heard[q] \in 1 .. Len(posted)
            <6>1. pc[q] = "handled" => heard[q] >= 1 /\ heard[q] \in Nat
              BY RankFacts
            <6>2. pc[q] = "handled" => heard[q] <= Len(posted)
              BY DEF CInv, Asked
            <6> QED BY <1>3, <6>1, <6>2
          <5>2. Asked
            BY DEF CInv
          <5>3. pc'[q] \in {"begun", "pushed", "stepped", "flushed"} => requested'[q] = {}
            BY <2>2, <3>4, <4>2, <5>2 DEF Asked
          <5>4. pc'[q] = "handled" =>
                   /\ heard'[q] <= Len(posted')
                   /\ requested'[q] = posted'[heard'[q]] \ {"checkpoint"}
            <6> HAVE pc'[q] = "handled"
            <6>1. heard'[q] = heard[q] /\ heard[q] \in 1 .. Len(posted)
              BY <3>4, <4>2, <5>1
            <6>2. requested'[q] = posted[heard[q]] \ {"checkpoint"}
              BY <3>4, <4>2, <5>2 DEF Asked
            <6>3. posted'[heard[q]] = posted[heard[q]]
              BY <3>2, <6>1
            <6>4. heard'[q] <= Len(posted')
              BY <1>3, <3>2, <6>1
            <6> QED BY <6>1, <6>2, <6>3, <6>4
          <5>5. pc'[q] \in {"outside", "loop", "after"} => requested'[q] = {}
            BY <3>4, <4>2, <5>2 DEF Asked
          <5> QED BY <2>2, <4>2, <5>3, <5>4, <5>5
        <4> QED BY <4>1, <4>2
      <3> QED BY <3>5, Zenon DEF Asked
    <2> QED BY <2>1, <2>2
  <1>13. Tight'
    <2>1. \A q \in Rank : sim'[q].istep = sim[q].istep
      BY <1>1, <1>3, <1>7
    <2> QED BY <1>1, <2>1, TightStays
  <1>14. /\ Here(r)' = Snap("begun", call[r], p, wrote[r], h)
         /\ Here(r)' \in Snapshot
         /\ \A q \in Rank \ {r} : Here(q)' = Here(q)
    <2> HIDE DEF h
    <2> QED BY <1>1, <1>2, <1>11, HereAfter, Zenon
  <1>15. posted' = posted \/ \E x \in SUBSET Actions : posted' = Append(posted, x)
    BY <1>5, <1>6
  <1>16. DiskStep(r)
    BY <1>1 DEF DiskStep
  <1>17. Common' /\ OnDisk'
    <2>1. Advances(Here(r), Here(r)', posted)
      BY <1>8, <1>14
    <2>2. pc[r] # "outside" /\ stop' = stop /\ crashes' = crashes
      BY <1>1
    <2> QED BY <1>9, <1>14, <1>15, <1>16, <2>1, <2>2, CommonKept
  <1> QED BY <1>11, <1>12, <1>13, <1>17 DEF CInv

-----------------------------------------------------------------------------
(* A job begins: all ranks hold the same object. *)
LEMMA FreshCommon ==
    ASSUME IInv', NEW p \in Object, NEW w \in Seq(Nat),
           p.mom = (2 * p.istep) - (IF p.sync THEN 0 ELSE 1),
           \A r \in Rank : /\ pc'[r] = "outside" /\ call'[r] = 1 /\ sim'[r] = p
                           /\ wrote'[r] = w /\ heard'[r] = 0,
           \A d \in disk' : d.life = crashes' => AtRest(d, Snap("outside", 1, p, w, 0))
    PROVE  Common'
  <1> DEFINE a == Snap("outside", 1, p, w, 0)
             T == [i \in 1 .. 1 |-> a]
             at == [r \in Rank |-> 1]
  <1>1. a \in Snapshot
    BY DEF Snap, Snapshot, Places
  <1>2. p.istep \in Nat /\ p.mom \in Int /\ Len(Script) \in Nat
    BY EvolveAssumption DEF Object
  <1>3. /\ a.pc = "outside" /\ a.call = 1 /\ a.obj = p /\ a.wrote = w /\ a.heard = 0
    BY DEF Snap
  <1>4. Good(a, p.istep)
    <2>1. p.istep + 0 = p.istep /\ 1 <= Len(Script) + 1
      BY <1>2
    <2> HIDE DEF a
    <2> QED BY <1>2, <1>3, <2>1 DEF Good, Ahead
  <1> HIDE DEF a
  <1>5. /\ T \in [1 .. 1 -> Snapshot] /\ \A i \in 1 .. 1 : T[i] = a
        /\ at \in [Rank -> 1 .. 1] /\ \A r \in Rank : T[at[r]] = a
    BY <1>1
  <1> HIDE DEF T, at
  <1>6. PICK ps : ps = posted'
    OBVIOUS
  <1>7. Chain(1, p.istep, T, posted)'
    <2>1. \A i \in 1 .. 1 : Good(T[i], p.istep)
      BY <1>4, <1>5
    <2>2. \A i \in 1 .. 1 - 1 : FALSE
      OBVIOUS
    <2>3. \A i, j \in 1 .. 1 : ~(i < j)
      OBVIOUS
    <2>4. \A i \in 1 .. 1 : Good(T[i], p.istep)'
      BY <2>1, Zenon DEF Good, Ahead
    <2> QED BY <2>2, <2>3, <2>4, Zenon DEF Chain
  <1>8. Placed(T, at)'
    <2>1. \A r \in Rank : T[at[r]] = Here(r)'
      BY <1>5, Zenon DEF Here, a
    <2> QED BY <2>1, Zenon DEF Placed
  <1>9. Stored(1, T)'
    <2>1. 1 \in 1 .. 1
      OBVIOUS
    <2>2. \A d \in disk' : d.life = crashes' => AtRest(d, T[1])
      BY <1>5, <2>1 DEF a
    <2> QED BY <2>1, <2>2, Zenon DEF Stored, AtRest
  <1>10. 1 \in Nat \ {0}
    OBVIOUS
  <1> QED BY <1>2, <1>5, <1>7, <1>8, <1>9, <1>10, Zenon DEF Common

LEMMA InitTogether == Init => CInv
  <1> SUFFICES ASSUME Init PROVE CInv
    OBVIOUS
  <1>1. IInv
    BY InitHolds
  <1>2. Fresh \in Object /\ Fresh.istep = 0 /\ Fresh.mom = 0 /\ Fresh.sync
    BY DEF Fresh, Object
  <1>3. /\ Scratch \in Object /\ Scratch.istep = 0 /\ Scratch.mom = 0 /\ Scratch.sync
    BY <1>2, FlushedObject, FlushedTime DEF Scratch
  <1> HIDE DEF Scratch
  <1>4. Bounded
    <2>1. requested \in [Rank -> SUBSET Actions] /\ heard \in [Rank -> Nat]
          /\ posted \in Seq(SUBSET Actions) /\ flags = {} /\ stop \in StopTimes
          /\ signals = 0 /\ crashes = 0
      BY DEF Init
    <2>2. heard[Root] = Len(posted)
      BY EvolveAssumption DEF Init
    <2>3. 0 \in 0 .. MaxSignals /\ 0 \in 0 .. MaxCrashes
      BY EvolveAssumption
    <2> QED BY <2>1, <2>2, <2>3, Zenon DEF Bounded
  <1>5. Asked
    BY DEF Init, Asked
  <1>6. Tight
    BY <1>3 DEF Init, Tight
  <1>7. \A d \in disk : /\ d.step = 0 /\ d.sync = TRUE /\ d.mom = 0 /\ d.life = 0
                        /\ crashes = 0
    BY DEF Init
  <1>8. OnDisk
    <2>1. ASSUME NEW d \in disk
          PROVE  d.life <= crashes /\ d.mom = (2 * d.step) - (IF d.sync THEN 0 ELSE 1)
      <3>1. d.step = 0 /\ d.sync = TRUE /\ d.mom = 0 /\ d.life = 0 /\ crashes = 0
        BY <1>7
      <3>2. 0 = (2 * 0) - 0
        OBVIOUS
      <3>3. (IF d.sync THEN 0 ELSE 1) = 0
        BY <3>1, Zenon
      <3>4. 0 <= 0
        OBVIOUS
      <3>5. d.mom = (2 * d.step) - (IF d.sync THEN 0 ELSE 1)
        BY <3>1, <3>2, <3>3, Zenon
      <3>6. d.life <= crashes
        BY <3>1, <3>4
      <3> QED BY <3>5, <3>6
    <2> QED BY <1>7, <2>1, Zenon DEF OnDisk
  <1>9. Common
    <2> DEFINE a == Snap("outside", 1, Scratch, <<0>>, 0)
               T == [i \in 1 .. 1 |-> a]
               at == [r \in Rank |-> 1]
    <2>1. a \in Snapshot
      BY <1>3 DEF Snap, Snapshot, Places
    <2>2. /\ a.pc = "outside" /\ a.call = 1 /\ a.obj = Scratch /\ a.heard = 0
      BY DEF Snap
    <2>3. Good(a, 0)
      <3>1. Len(Script) \in Nat
        BY EvolveAssumption
      <3> HIDE DEF a
      <3> QED BY <1>3, <2>2, <3>1 DEF Good, Ahead
    <2>4. \A r \in Rank : Here(r) = a
      BY DEF Init, Here
    <2>5. \A d \in disk : AtRest(d, a)
      BY <1>3, <1>7, <2>2 DEF AtRest
    <2> HIDE DEF a
    <2>6. /\ T \in [1 .. 1 -> Snapshot] /\ \A i \in 1 .. 1 : T[i] = a
          /\ at \in [Rank -> 1 .. 1] /\ \A r \in Rank : T[at[r]] = a
      BY <2>1
    <2> HIDE DEF T, at
    <2>7. Chain(1, 0, T, posted)
      BY <2>3, <2>6 DEF Chain
    <2>8. Placed(T, at) /\ Stored(1, T)
      BY <2>4, <2>5, <2>6 DEF Placed, Stored
    <2>9. 1 \in Nat \ {0} /\ 0 \in Nat
      OBVIOUS
    <2> QED BY <2>6, <2>7, <2>8, <2>9, Zenon DEF Common
  <1> QED BY <1>1, <1>4, <1>5, <1>6, <1>8, <1>9 DEF CInv

(* All ranks read the flag of rank 0, which is that of their own particles. *)
LEMMA CrashTogether == ASSUME CInv, IInv', NEW n, Crash(n) PROVE CInv'
  <1> DEFINE h == PartOf(n, Root)
             p == Restored(h, h)
  <1>1. \A r \in Rank : PartOf(n, r) \in disk /\ PartOf(n, r).step = n
    BY DEF Crash, Complete, PartOf
  <1>2. Root \in Rank /\ h \in disk /\ h.step = n
    BY <1>1, EvolveAssumption
  <1>3. \A d \in disk : /\ d.life <= crashes
                        /\ d.mom = (2 * d.step) - (IF d.sync THEN 0 ELSE 1)
                        /\ \A e \in disk : d.step = e.step => d.sync = e.sync
    BY Zenon DEF CInv, OnDisk
  <1>4. ASSUME NEW r \in Rank PROVE Restored(h, PartOf(n, r)) = p
    <2>1. PartOf(n, r) \in disk /\ PartOf(n, r).step = h.step
      BY <1>1, <1>2
    <2> DEFINE m == PartOf(n, r)
    <2>2. m.sync = h.sync /\ m.mom = (2 * m.step) - (IF m.sync THEN 0 ELSE 1)
          /\ h.mom = (2 * h.step) - (IF h.sync THEN 0 ELSE 1)
      BY <1>2, <1>3, <2>1
    <2>3. m.mom = h.mom
      BY <2>1, <2>2
    <2> QED BY <2>3, Zenon DEF Restored
  <1>5. /\ h.step \in Nat /\ h.sync \in BOOLEAN /\ h.mom \in Int /\ h.domain \in Nat
        /\ h.mom = (2 * h.step) - (IF h.sync THEN 0 ELSE 1)
        /\ \A d \in disk : d.life \in Nat
    BY <1>2, <1>3, Zenon DEF CInv, IInv, Typed
  <1>6. /\ p \in Object /\ p.istep = h.step /\ p.sync = h.sync /\ p.mom = h.mom
    <2> HIDE DEF h
    <2>1. Fresh \in Object
      BY DEF Fresh, Object
    <2>2. [Fresh EXCEPT !.istep = h.step, !.sync = h.sync, !.mom = h.mom,
                        !.domain = h.domain, !.view = h.domain] \in Object
      BY <1>5, <2>1, Zenon DEF Object
    <2> QED BY <2>1, <2>2, Zenon DEF Restored, Object
  <1>7. /\ pc' = [r \in Rank |-> "outside"] /\ call' = [r \in Rank |-> 1]
        /\ sim' = [r \in Rank |-> Restored(h, PartOf(n, r))]
        /\ wrote' = [r \in Rank |-> <<>>] /\ requested' = [r \in Rank |-> {}]
        /\ flags' = {} /\ posted' = <<>> /\ heard' = [r \in Rank |-> 0]
        /\ stop' = stop /\ disk' = disk /\ crashes' = crashes + 1 /\ signals' = signals
        /\ crashes < MaxCrashes
    BY Zenon DEF Crash, Start
  <1> HIDE DEF h
  <1>8. \A r \in Rank : /\ pc'[r] = "outside" /\ call'[r] = 1 /\ sim'[r] = p
                        /\ wrote'[r] = <<>> /\ heard'[r] = 0 /\ requested'[r] = {}
    BY <1>4, <1>7
  <1> HIDE DEF p
  <1>9. crashes \in 0 .. MaxCrashes /\ MaxCrashes \in Nat
    BY EvolveAssumption DEF CInv, Bounded
  <1>10. Bounded'
    <2>1. requested' \in [Rank -> SUBSET Actions] /\ heard' \in [Rank -> Nat]
          /\ posted' \in Seq(SUBSET Actions) /\ crashes' \in 0 .. MaxCrashes
          /\ flags' = {}
      BY <1>7, <1>9
    <2>2. heard'[Root] = Len(posted')
      BY <1>2, <1>7
    <2> QED BY <1>7, <2>1, <2>2, Zenon DEF CInv, Bounded
  <1>11. Asked'
    BY <1>8 DEF Asked
  <1>12. Tight'
    BY <1>6, <1>8 DEF Tight, Object
  <1>13. OnDisk'
    <2>1. \A d \in disk : d.life <= crashes + 1
      BY <1>3, <1>5, <1>9
    <2> QED BY <1>3, <1>7, <2>1 DEF OnDisk
  <1>14. \A d \in disk' : d.life # crashes'
    BY <1>3, <1>5, <1>7, <1>9
  <1>15. Common'
    <2>1. <<>> \in Seq(Nat)
      OBVIOUS
    <2>2. p.mom = (2 * p.istep) - (IF p.sync THEN 0 ELSE 1)
      BY <1>5, <1>6
    <2>3. \A d \in disk' : d.life = crashes' => AtRest(d, Snap("outside", 1, p, <<>>, 0))
      BY <1>14
    <2> QED BY <1>6, <1>8, <2>1, <2>2, <2>3, FreshCommon, Zenon
  <1> QED BY <1>10, <1>11, <1>12, <1>13, <1>15 DEF CInv

(* A signal changes the flags only. *)
LEMMA QuietTogether ==
    ASSUME CInv, IInv', Bounded',
           UNCHANGED <<stop, pc, call, sim, requested, posted, heard, wrote, disk, crashes>>
    PROVE  CInv'
  <1>1. Asked' /\ Tight' /\ OnDisk'
    BY DEF CInv, Asked, Tight, OnDisk
  <1>2. PICK k \in Nat \ {0}, base \in Nat :
               \E T \in [1 .. k -> Snapshot], at \in [Rank -> 1 .. k] :
                   Chain(k, base, T, posted) /\ Placed(T, at) /\ Stored(k, T)
    BY Zenon DEF CInv, Common
  <1>3. PICK T \in [1 .. k -> Snapshot], at \in [Rank -> 1 .. k] :
               Chain(k, base, T, posted) /\ Placed(T, at) /\ Stored(k, T)
    BY <1>2
  <1>4. PICK ps : ps = posted'
    OBVIOUS
  <1>5. Chain(k, base, T, ps)'
    BY <1>3, <1>4, ChainSame
  <1>6. Chain(k, base, T, posted)'
    BY <1>4, <1>5
  <1>7. Placed(T, at)' /\ Stored(k, T)'
    BY <1>3, Zenon DEF Placed, Stored, Here, AtRest
  <1>8. Common'
    BY <1>6, <1>7, Zenon DEF Common
  <1> QED BY <1>1, <1>8 DEF CInv

LEMMA NextTogether == CInv /\ [Next]_vars => CInv'
  <1> SUFFICES ASSUME CInv, [Next]_vars PROVE CInv'
    OBVIOUS
  <1>1. IInv'
    BY NextKeeps DEF CInv
  <1>2. ASSUME NEW r \in Rank, RankNext(r) PROVE CInv'
    BY <1>1, <1>2, EnterTogether, BeginTogether, PushTogether, HandleBoundariesTogether,
       DiagnoseTogether, HandleSignalsTogether, CheckStopTogether, LoopEndsTogether,
       LeaveTogether, Zenon DEF RankNext
  <1>3. ASSUME NEW n, Crash(n) PROVE CInv'
    BY <1>1, <1>3, CrashTogether
  <1>4. ASSUME NEW s \in CheckpointSignals \union BreakSignals, SignalSetFlag(s) PROVE CInv'
    <2>1. Bounded'
      <3>1. signals' \in 0 .. MaxSignals
        BY <1>4, EvolveAssumption DEF SignalSetFlag, CInv, Bounded
      <3>2. flags' \subseteq CheckpointSignals \union BreakSignals
        BY <1>4, Zenon DEF SignalSetFlag, CInv, Bounded
      <3> QED BY <1>4, <3>1, <3>2, Zenon DEF SignalSetFlag, CInv, Bounded
    <2> QED BY <1>1, <1>4, <2>1, QuietTogether, Zenon DEF SignalSetFlag
  <1>5. ASSUME UNCHANGED vars PROVE CInv'
    <2>1. Bounded'
      BY <1>5, Zenon DEF vars, CInv, Bounded
    <2> QED BY <1>1, <1>5, <2>1, QuietTogether, Zenon DEF vars
  <1> QED BY <1>2, <1>3, <1>4, <1>5, Zenon DEF Next

(* The invariant of the ranks together: one course of events. *)
THEOREM OneCourse == Spec => []CInv
  BY InitTogether, NextTogether, PTL DEF Spec

(* The state of Evolve keeps its types, and no rank joins a broadcast more  *)
(* than one ahead of rank 0 or behind it.                                   *)
THEOREM TypeCorrect == Spec => []TypeOK
  <1>1. CInv => TypeOK
    <2> SUFFICES ASSUME CInv PROVE TypeOK
      OBVIOUS
    <2>1. call \in [Rank -> 1 .. Len(Script) + 1]
      <3>1. call \in [Rank -> Nat \ {0}] /\ Len(Script) \in Nat
        BY EvolveAssumption DEF CInv, IInv, Typed
      <3>2. \A r \in Rank : call[r] \in 1 .. Len(Script) + 1
        BY <3>1, RankFacts
      <3> QED BY <3>1, <3>2
    <2>2. disk \subseteq [step : Nat, rank : Rank, sync : BOOLEAN, mom : Int,
                          domain : Nat, life : 0 .. MaxCrashes]
      <3>1. \A d \in disk :
               /\ d \in [step : Nat, rank : Rank, sync : BOOLEAN, mom : Int,
                         domain : Nat, life : Nat]
               /\ d.life <= crashes /\ crashes \in 0 .. MaxCrashes /\ MaxCrashes \in Nat
        BY EvolveAssumption, Zenon DEF CInv, IInv, Typed, OnDisk, Bounded
      <3>2. \A d \in disk : d.life \in 0 .. MaxCrashes
        BY <3>1
      <3> QED BY <3>1, <3>2
    <2>3. ASSUME NEW r \in Rank PROVE heard[r] \in Len(posted) - 1 .. Len(posted) + 1
      <3>1. PICK k \in Nat \ {0}, base \in Nat :
                   \E T \in [1 .. k -> Snapshot], at \in [Rank -> 1 .. k] :
                       Chain(k, base, T, posted) /\ Placed(T, at)
        BY Zenon DEF CInv, Common
      <3>2. PICK T \in [1 .. k -> Snapshot], at \in [Rank -> 1 .. k] :
                   Chain(k, base, T, posted) /\ Placed(T, at)
        BY <3>1
      <3>3. \A q \in Rank : Good(Here(q), base)
        BY <3>2 DEF Chain, Placed
      <3>4. \A q \in Rank : /\ heard[q] + base = sim[q].istep + Ahead(pc[q])
                            /\ heard[q] \in Nat /\ sim[q].istep \in Nat
        <4> TAKE q \in Rank
        <4>1. heard[q] \in Nat /\ sim[q] \in Object
          BY RankFacts
        <4>2. Here(q).heard + base = Here(q).obj.istep + Ahead(Here(q).pc)
          BY <3>3, Zenon DEF Good
        <4> QED BY <4>1, <4>2, HereIs DEF Object
      <3>5. Root \in Rank /\ heard[Root] = Len(posted)
        BY EvolveAssumption DEF CInv, Bounded
      <3>6. ASSUME NEW s \in Rank, NEW q \in Rank PROVE heard[q] >= heard[s] - 1
        <4>1. /\ heard[q] + base = sim[q].istep + Ahead(pc[q])
              /\ heard[s] + base = sim[s].istep + Ahead(pc[s])
              /\ heard[q] \in Nat /\ heard[s] \in Nat
              /\ sim[q].istep \in Nat /\ sim[s].istep \in Nat
          BY <3>4
        <4>2. \/ sim[q].istep >= sim[s].istep
              \/ /\ sim[q].istep = sim[s].istep - 1 /\ Ahead(pc[q]) = 1
          BY <4>1, SMTT(40) DEF CInv, Tight, Ahead
        <4>3. Ahead(pc[q]) \in {0, 1} /\ Ahead(pc[s]) \in {0, 1}
          BY DEF Ahead
        <4> DEFINE x == heard[q]
                   y == heard[s]
                   m == sim[q].istep
                   n == sim[s].istep
                   a == Ahead(pc[q])
                   c == Ahead(pc[s])
        <4>4. /\ x + base = m + a /\ y + base = n + c
              /\ x \in Nat /\ y \in Nat /\ m \in Nat /\ n \in Nat
              /\ a \in {0, 1} /\ c \in {0, 1}
              /\ m >= n \/ (m = n - 1 /\ a = 1)
          BY <4>1, <4>2, <4>3, Zenon
        <4> HIDE DEF x, y, m, n, a, c
        <4>5. x >= y - 1
          BY <4>4
        <4> QED BY <4>5 DEF x, y
      <3> QED BY <3>4, <3>5, <3>6, SMTT(40)
    <2> QED BY <2>1, <2>2, <2>3, Zenon DEF TypeOK, CInv, IInv, Typed, Bounded
  <1> QED BY <1>1, OneCourse, PTL

LEMMA BeginsIsPrefix ==
    ASSUME NEW s \in Seq(Nat), NEW t \in Seq(Nat), Begins(s, t)
    PROVE  IsPrefix(s, t)
  BY DEF Begins, IsPrefix

(* Ranks at the same place of the same step and call hold equal objects and *)
(* have taken part in the same dumps: what each decides by itself in        *)
(* CheckStopSimulation, in the diagnostics and at the last step, all decide *)
(* alike.                                                                   *)
THEOREM DecidedAlike == Spec => []SameDecisions
  <1>1. CInv => SameDecisions
    <2> SUFFICES ASSUME CInv, NEW r \in Rank, NEW q \in Rank
                 PROVE  /\ /\ pc[r] = pc[q]
                           /\ call[r] = call[q]
                           /\ sim[r].istep = sim[q].istep
                           => sim[r] = sim[q]
                        /\ IsPrefix(wrote[r], wrote[q]) \/ IsPrefix(wrote[q], wrote[r])
      BY DEF SameDecisions
    <2>1. PICK k \in Nat \ {0}, base \in Nat :
                 \E T \in [1 .. k -> Snapshot], at \in [Rank -> 1 .. k] :
                     Chain(k, base, T, posted) /\ Placed(T, at)
      BY Zenon DEF CInv, Common
    <2>2. PICK T \in [1 .. k -> Snapshot], at \in [Rank -> 1 .. k] :
                 Chain(k, base, T, posted) /\ Placed(T, at)
      BY <2>1
    <2>3. /\ \A i, j \in 1 .. k : i < j => Follows(T[i], T[j])
          /\ T[at[r]] = Here(r) /\ T[at[q]] = Here(q)
          /\ at[r] \in 1 .. k /\ at[q] \in 1 .. k
      BY <2>2 DEF Chain, Placed
    <2>4. /\ wrote[r] \in Seq(Nat) /\ wrote[q] \in Seq(Nat)
          /\ call[r] \in Nat /\ call[q] \in Nat
          /\ sim[r].istep \in Nat /\ sim[q].istep \in Nat
          /\ Order(pc[r]) \in Nat /\ Order(pc[q]) \in Nat
      <3>1. \A x \in Places : Order(x) \in Nat
        BY DEF Order, Places
      <3> QED BY <3>1, RankFacts DEF Object
    <2>5. CASE at[r] = at[q]
      <3>1. Here(r) = Here(q)
        BY <2>3, <2>5
      <3>2. sim[r] = sim[q] /\ wrote[r] = wrote[q]
        BY <3>1, HereIs
      <3>3. Begins(wrote[r], wrote[q])
        BY <2>4, <3>2 DEF Begins
      <3> QED BY <2>4, <3>2, <3>3, BeginsIsPrefix
    <2>6. ASSUME NEW x \in Rank, NEW y \in Rank, Follows(Here(x), Here(y)),
                 x \in {r, q}, y \in {r, q}
          PROVE  /\ ~(pc[x] = pc[y] /\ call[x] = call[y] /\ sim[x].istep = sim[y].istep)
                 /\ IsPrefix(wrote[x], wrote[y])
      <3>1. Before(Here(x), Here(y)) /\ Begins(wrote[x], wrote[y])
        BY <2>6, HereIs DEF Follows
      <3>2. ~(pc[x] = pc[y] /\ call[x] = call[y] /\ sim[x].istep = sim[y].istep)
        BY <2>4, <2>6, <3>1, HereIs, SMTT(40) DEF Before
      <3>3. wrote[x] \in Seq(Nat) /\ wrote[y] \in Seq(Nat)
        BY <2>4, <2>6
      <3> QED BY <3>1, <3>2, <3>3, BeginsIsPrefix
    <2>7. CASE at[r] < at[q]
      <3>1. Follows(Here(r), Here(q))
        BY <2>3, <2>7
      <3> QED BY <2>6, <3>1
    <2>8. CASE at[q] < at[r]
      <3>1. Follows(Here(q), Here(r))
        BY <2>3, <2>8
      <3> QED BY <2>6, <3>1
    <2> QED BY <2>3, <2>5, <2>7, <2>8
  <1> QED BY <1>1, OneCourse, PTL

(* is_synchronized tells the time of the momenta, between the steps and in  *)
(* every complete checkpoint, for all ranks that restart from it with the   *)
(* flag of rank 0.                                                          *)
THEOREM MomentaCorrect == Spec => []MomentaCentered
  <1>1. CInv => MomentaCentered
    <2> SUFFICES ASSUME CInv PROVE MomentaCentered
      OBVIOUS
    <2>1. ASSUME NEW r \in Rank, pc[r] # "pushed" PROVE sim[r].mom = Momenta(sim[r])
      <3>1. /\ sim[r].mom = (2 * (sim[r].istep + (IF pc[r] = "pushed" THEN 1 ELSE 0)))
                            - (IF sim[r].sync THEN 0 ELSE 1)
            /\ sim[r].istep \in Nat
        BY RankFacts DEF Object
      <3>2. sim[r].istep + 0 = sim[r].istep
        BY <3>1
      <3> QED BY <2>1, <3>1, <3>2 DEF Momenta
    <2>2. ASSUME NEW n, Complete(n), NEW r \in Rank
          PROVE  PartOf(n, r).mom = 2 * n - (IF PartOf(n, Root).sync THEN 0 ELSE 1)
      <3>1. \A q \in Rank : PartOf(n, q) \in disk /\ PartOf(n, q).step = n
        BY <2>2 DEF Complete, PartOf
      <3>2. Root \in Rank
        BY EvolveAssumption
      <3>3. \A d \in disk : /\ d.mom = (2 * d.step) - (IF d.sync THEN 0 ELSE 1)
                            /\ \A e \in disk : d.step = e.step => d.sync = e.sync
        BY Zenon DEF CInv, OnDisk
      <3>4. PartOf(n, r).sync = PartOf(n, Root).sync
        BY <3>1, <3>2, <3>3
      <3> QED BY <3>1, <3>3, <3>4
    <2> QED BY <2>1, <2>2 DEF MomentaCentered
  <1> QED BY <1>1, OneCourse, PTL
=============================================================================
