----------------------------- MODULE UnrSetup -----------------------------
(***************************************************************************)
(* The set-up of the fused exchange, for every species at the head of its  *)
(* first Evolve and again of the first after a load balance has changed    *)
(* the distribution: UNR_BuildRedistributeMask_and_ClearSendBuffer finds   *)
(* the neighbors of the rank in the redistribute mask, UNR_WarpX_buffer_reg *)
(* registers a send and a receive block for each of them, and              *)
(* UNR_WarpX_blk_sync exchanges the handles of the receive blocks.         *)
(* FusionExchange starts from what this module ends with.  Threads have    *)
(* blocks of their own, numbered alike everywhere, and are left out of the *)
(* handles.                                                                *)
(***************************************************************************)
EXTENDS Integers, FiniteSets

CONSTANTS
  Rank,         (* Ranks of the communicator; they are numbers.             *)
  Box,          (* Boxes of the BoxArray.                                   *)
  Touch,        (* Touch[b]: boxes within one cell of b, across periodic    *)
                (* boundaries too.                                          *)
  Maps,         (* DistributionMaps considered, from Box to Rank.           *)
  LastSpecies,  (* Species, set up one after the other.                     *)
  MaxRound      (* Bound: set-ups of a species, one and a load balance each. *)

ASSUME RankAssumption  == Rank \subseteq Nat /\ IsFiniteSet(Rank)
ASSUME TouchAssumption ==
  /\ Touch \in [Box -> SUBSET Box]
  /\ \A b, d \in Box : d \in Touch[b] => b \in Touch[d]
ASSUME MapAssumption   == Maps \subseteq [Box -> Rank]
ASSUME SizeAssumption  == LastSpecies \in Nat \ {0} /\ MaxRound \in Nat \ {0}

VARIABLES
  owner,         (* ParticleDistributionMap: the rank of each box.          *)
  round,         (* How many distributions there have been.                 *)
  pc,
  species,       (* species[r]: the species r is setting up.                *)
  neighborProcs, (* neighborProcs[r][s], kept sorted by RemoveDuplicates.   *)
  whoToIdx,      (* whoToIdx[r][s]: the index of each neighbor, and what is *)
                 (* left of the neighbors of earlier rounds.                *)
  entered,       (* Calls of unr_mem_reg_sync each rank has made.           *)
  seqNum,        (* The next message tag of each rank.                      *)
  mail,          (* Handles sent and not yet received.                      *)
  rmtBlk         (* rmtBlk[r][s]: unr_rmt_blk, a handle for each index.     *)

vars == <<owner, round, pc, species, neighborProcs, whoToIdx, entered, seqNum, mail, rmtBlk>>

Species == 1..LastSpecies

Init ==
  /\ owner \in Maps /\ round = 1
  /\ pc = [r \in Rank |-> "mask"]
  /\ species = [r \in Rank |-> 1]
  /\ neighborProcs = [r \in Rank |-> [s \in Species |-> {}]]
  /\ whoToIdx = [r \in Rank |-> [s \in Species |-> <<>>]]
  /\ entered = [r \in Rank |-> 0]
  /\ seqNum = [r \in Rank |-> 0]
  /\ mail = {}
  /\ rmtBlk = [r \in Rank |-> [s \in Species |-> <<>>]]

---------------------------------------------------------------------------
Own(r) == {b \in Box : owner[b] = r}

(* Mutant: the mask is read without its lower ghost cells.                  *)
NeighborsAbove(r) ==
  {owner[d] : d \in UNION {{e \in Touch[b] : e > b} : b \in Own(r)}} \ {r}

(* The ranks found in the mask grown by one cell.                           *)
NeighborsOf(r) == {owner[d] : d \in UNION {Touch[b] : b \in Own(r)}} \ {r}

Index(S) == [n \in S |-> Cardinality({m \in S : m <= n})]
At(S, i) == CHOOSE n \in S : Index(S)[n] = i

Over(f, g) == [n \in DOMAIN f \cup DOMAIN g |-> IF n \in DOMAIN f THEN f[n] ELSE g[n]]

InsertedOnly(old, new) == Over(old, new)   \* Mutant: entries are only inserted.

(* operator[] overwrites; the entries of former neighbors stay.             *)
Reindexed(old, new) == Over(new, old)

(* Finds no mask, or one of another distribution, and makes a new one.  A   *)
(* rank without neighbors returns before any of its buffers is made.       *)
BuildMask(r) ==
  /\ pc[r] = "mask" /\ species[r] \in Species
  /\ neighborProcs' = [neighborProcs EXCEPT ![r][species[r]] = NeighborsOf(r)]
  /\ IF NeighborsOf(r) = {}
       THEN species' = [species EXCEPT ![r] = @ + 1] /\ UNCHANGED <<pc, whoToIdx>>
       ELSE /\ pc' = [pc EXCEPT ![r] = "register"]
            /\ whoToIdx' = [whoToIdx EXCEPT ![r][species[r]] =
                              Reindexed(@, Index(NeighborsOf(r)))]
            /\ UNCHANGED species
  /\ UNCHANGED <<owner, round, entered, seqNum, mail, rmtBlk>>

(* UNR_WarpX_buffer_reg allocates the memory and calls unr_mem_reg_sync, a  *)
(* gather over all ranks ...                                               *)
Register(r) ==
  /\ pc[r] = "register"
  /\ entered' = [entered EXCEPT ![r] = @ + 1]
  /\ pc' = [pc EXCEPT ![r] = "sync"]
  /\ UNCHANGED <<owner, round, species, neighborProcs, whoToIdx, seqNum, mail, rmtBlk>>

(* ... which it leaves once every rank has called it as often.              *)
LeaveSync(r) ==
  /\ pc[r] = "sync"
  /\ \A q \in Rank : entered[q] >= entered[r]
  /\ pc' = [pc EXCEPT ![r] = "post"]
  /\ UNCHANGED <<owner, round, species, neighborProcs, whoToIdx, entered, seqNum, mail, rmtBlk>>

Neighbors(r) == neighborProcs[r][species[r]]

(* The receive block that r has registered for n.                           *)
BlockFor(r, n) ==
  [owner |-> r, species |-> species[r], round |-> round, idx |-> Index(Neighbors(r))[n]]

Letter(r, n) == [src |-> r, dst |-> n, tag |-> seqNum[r], blk |-> BlockFor(r, n)]

(* UNR_WarpX_blk_sync takes the next tag, posts a receive for every neighbor *)
(* and sends it the block it may write to.                                 *)
Post(r) ==
  /\ pc[r] = "post"
  /\ mail' = mail \cup {Letter(r, n) : n \in Neighbors(r)}
  /\ seqNum' = [seqNum EXCEPT ![r] = @ + 1]
  /\ pc' = [pc EXCEPT ![r] = "waitall"]
  /\ UNCHANGED <<owner, round, species, neighborProcs, whoToIdx, entered, rmtBlk>>

Expected(r) == {l \in mail : l.dst = r /\ l.src \in Neighbors(r) /\ l.tag = seqNum[r] - 1}

(* Both MPI_Waitall, and the handles stored by the index of their sender.    *)
WaitAll(r) ==
  /\ pc[r] = "waitall"
  /\ \A n \in Neighbors(r) : \E l \in Expected(r) : l.src = n
  /\ rmtBlk' = [rmtBlk EXCEPT ![r][species[r]] =
       [i \in 1..Cardinality(Neighbors(r)) |->
          (CHOOSE l \in Expected(r) : l.src = At(Neighbors(r), i)).blk]]
  /\ mail' = mail \ Expected(r)
  /\ species' = [species EXCEPT ![r] = @ + 1]
  /\ pc' = [pc EXCEPT ![r] = "mask"]
  /\ UNCHANGED <<owner, round, neighborProcs, whoToIdx, entered, seqNum>>

RankNext(r) == BuildMask(r) \/ Register(r) \/ LeaveSync(r) \/ Post(r) \/ WaitAll(r)

AllSetUp == \A r \in Rank : species[r] > LastSpecies

(* CheckLoadBalance, which all ranks enter, gives the boxes to other ranks; *)
(* the next Evolve of every species repeats the set-up.  New blocks are     *)
(* registered and the old ones never released.                             *)
Rebalance ==
  /\ AllSetUp /\ round < MaxRound
  /\ owner' \in Maps \ {owner}
  /\ round' = round + 1
  /\ species' = [r \in Rank |-> 1]
  /\ UNCHANGED <<pc, neighborProcs, whoToIdx, entered, seqNum, mail, rmtBlk>>

Next == Rebalance \/ \E r \in Rank : RankNext(r)

Spec == Init /\ [][Next]_vars

(* Every rank goes on while it can; a load balance need never happen.       *)
FairSpec == Spec /\ \A r \in Rank : WF_vars(RankNext(r))

---------------------------------------------------------------------------
Ready(r, s) == species[r] > s

(* What FusionExchange takes for granted, also after a load balance:        *)
(* neighborhood is mutual, and what r packs for n, found through            *)
(* who_to_idx, is written to the block that n has registered for r, for    *)
(* this species and this distribution, to which nobody else writes.        *)
ChannelsPaired ==
  \A r, n \in Rank, s \in Species : Ready(r, s) /\ n \in neighborProcs[r][s] =>
    /\ r \in neighborProcs[n][s]
    /\ whoToIdx[r][s][n] \in DOMAIN rmtBlk[r][s]
    /\ LET blk == rmtBlk[r][s][whoToIdx[r][s][n]] IN
         /\ blk = [owner |-> n, species |-> s, round |-> round,
                   idx |-> whoToIdx[n][s][r]]
         /\ \A q \in Rank \ {r} : Ready(q, s) =>
              \A i \in DOMAIN rmtBlk[q][s] : rmtBlk[q][s][i] # blk

(* Every rank gets through the set-up, and through every repetition of it,  *)
(* however the boxes are distributed, as long as each rank has one.        *)
AllRegistered == \A k \in 1..MaxRound : round = k ~> (round = k /\ AllSetUp)
===========================================================================
