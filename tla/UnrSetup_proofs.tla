------------------------- MODULE UnrSetup_proofs -------------------------
(***************************************************************************)
(* Proofs about the set-up of the fused exchange.  Inv relates every rank   *)
(* to base, the counters of all ranks when the distribution changed: a rank *)
(* has registered and posted as often as its species and its place in the   *)
(* loop say (Counted), no rank is past a gather that another has not called  *)
(* (Gathered), none past a species its neighbors have not posted (Met), and *)
(* so the tag of a handle tells the species it is for (Carried).  That the   *)
(* tags agree is the only thing that keeps the handles of two species apart, *)
(* and it takes every rank to start each distribution with the same base:    *)
(* when all have set up the last species either every rank has neighbors or  *)
(* none has (RebalanceKeeps).  Found and Exchanged say what a rank then has. *)
(***************************************************************************)
EXTENDS UnrSetup, FiniteSetTheorems, TLAPS


(* A species a rank has found the neighbors for, one it has posted its      *)
(* handles for, and how often it has come through the gather.               *)
Known(r, s) == species[r] > s \/ (species[r] = s /\ pc[r] # "mask")
Passed(r) == species[r] - (IF pc[r] \in {"post", "waitall"} THEN 0 ELSE 1)

Block(n, r, s) ==
  [owner |-> n, species |-> s, round |-> round, idx |-> Index(NeighborsOf(n))[r]]

(* The counters of a rank, base being what they were when the distribution  *)
(* changed.                                                                *)
Counted(base) ==
  \A r \in Rank :
    IF NeighborsOf(r) = {}
      THEN pc[r] = "mask" /\ entered[r] = base /\ seqNum[r] = base
      ELSE /\ entered[r] = base + species[r] - (IF pc[r] \in {"mask", "register"} THEN 1 ELSE 0)
           /\ seqNum[r] = base + species[r] - (IF pc[r] = "waitall" THEN 0 ELSE 1)

(* No rank comes through a gather before all have called it.                *)
Gathered(base) ==
  \A r, q \in Rank : NeighborsOf(r) # {} => entered[q] >= base + Passed(r)

(* No rank has a species behind it before its neighbors have posted theirs. *)
Met(base) ==
  \A r \in Rank : \A n \in NeighborsOf(r) : seqNum[n] >= base + species[r] - 1

Carried(base) ==
  \A l \in mail : \E s \in Species :
    /\ l.src \in Rank /\ l.dst \in NeighborsOf(l.src)
    /\ l.tag = base + s - 1 /\ l.tag < seqNum[l.src]
    /\ l.blk = Block(l.src, l.dst, s)
    /\ species[l.dst] <= s

Found ==
  \A r \in Rank, s \in Species : Known(r, s) =>
    /\ neighborProcs[r][s] = NeighborsOf(r)
    /\ \A n \in NeighborsOf(r) : whoToIdx[r][s][n] = Index(NeighborsOf(r))[n]

Exchanged ==
  \A r \in Rank, s \in Species : Ready(r, s) /\ NeighborsOf(r) # {} =>
    rmtBlk[r][s] = [i \in 1..Cardinality(NeighborsOf(r)) |-> Block(At(NeighborsOf(r), i), r, s)]

(* The state and the values its variables range over.                       *)
Typed ==
  /\ owner \in Maps /\ round \in Nat
  /\ pc \in [Rank -> {"mask", "register", "sync", "post", "waitall"}]
  /\ species \in [Rank -> 1..(LastSpecies + 1)]
  /\ \A r \in Rank : species[r] > LastSpecies => pc[r] = "mask"
  /\ neighborProcs \in [Rank -> [Species -> SUBSET Rank]]
  /\ entered \in [Rank -> Nat] /\ seqNum \in [Rank -> Nat]
  /\ DOMAIN whoToIdx = Rank /\ \A r \in Rank : DOMAIN whoToIdx[r] = Species
  /\ DOMAIN rmtBlk = Rank /\ \A r \in Rank : DOMAIN rmtBlk[r] = Species

Inv(base) ==
  Typed /\ Found /\ Exchanged /\ Counted(base) /\ Gathered(base) /\ Met(base) /\ Carried(base)

IInv == \E base \in Nat : Inv(base)

---------------------------------------------------------------------------
(* The neighbors of a rank and their numbers.                              *)

LEMMA Mutual ==
  ASSUME NEW r \in Rank, NEW n \in NeighborsOf(r), owner \in Maps
  PROVE  n \in Rank /\ n # r /\ r \in NeighborsOf(n)
  <1>1. owner \in [Box -> Rank]
    BY MapAssumption
  <1>a. PICK d \in UNION {Touch[b] : b \in Own(r)} : owner[d] = n /\ n # r
    BY DEF NeighborsOf
  <1>2. PICK b \in Box : d \in Touch[b] /\ owner[b] = r
    BY <1>a DEF Own
  <1>3. d \in Box /\ b \in Touch[d]
    BY <1>2, TouchAssumption
  <1>4. d \in Own(n) /\ n \in Rank
    BY <1>1, <1>a, <1>3 DEF Own
  <1>5. b \in UNION {Touch[e] : e \in Own(n)}
    BY <1>3, <1>4
  <1>6. r \in NeighborsOf(n)
    BY <1>a, <1>2, <1>5, Zenon DEF NeighborsOf
  <1> QED BY <1>a, <1>4, <1>6

LEMMA NeighborsAreRanks ==
  ASSUME NEW r \in Rank, owner \in Maps
  PROVE  NeighborsOf(r) \in SUBSET Rank
  BY Mutual

(* The index of a member of a set of ranks is its position in their order,  *)
(* and At is the inverse of it.                                            *)
LEMMA IndexAt ==
  ASSUME NEW S \in SUBSET Rank
  PROVE  /\ Cardinality(S) \in Nat
         /\ \A n \in S : Index(S)[n] \in 1..Cardinality(S) /\ At(S, Index(S)[n]) = n
         /\ \A i \in 1..Cardinality(S) : At(S, i) \in S /\ Index(S)[At(S, i)] = i
  <1> DEFINE upto(i) == {k \in S : k <= i}
             rank == [i \in S |-> Cardinality(upto(i))]
             m == Cardinality(S)
  <1>1. IsFiniteSet(S) /\ m \in Nat /\ S \subseteq Nat
    BY RankAssumption, FS_Subset, FS_CardinalityType
  <1>2. \A i \in S : IsFiniteSet(upto(i)) /\ rank[i] \in 1..m
    <2> TAKE i \in S
    <2>1. upto(i) \in SUBSET S /\ upto(i) # {} /\ rank[i] = Cardinality(upto(i))
      BY <1>1
    <2> HIDE DEF upto, rank
    <2>2. IsFiniteSet(upto(i)) /\ Cardinality(upto(i)) <= m
      BY <1>1, <2>1, FS_Subset
    <2>3. Cardinality(upto(i)) \in Nat
      BY <2>2, FS_CardinalityType
    <2>4. Cardinality(upto(i)) # 0
      BY <2>1, <2>2, FS_EmptySet
    <2> QED BY <1>1, <2>1, <2>2, <2>3, <2>4
  <1>3. ASSUME NEW i \in S, NEW j \in S, i < j PROVE rank[i] # rank[j]
    <2>1. upto(i) \in SUBSET upto(j) /\ upto(i) # upto(j)
      <3>1. i \in Nat /\ j \in Nat /\ \A k \in S : k \in Nat
        BY <1>1
      <3>2. j \in upto(j) /\ j \notin upto(i)
        BY <1>3, <3>1
      <3>3. \A k \in upto(i) : k \in upto(j)
        BY <1>3, <3>1
      <3> HIDE DEF upto
      <3> QED BY <3>2, <3>3
    <2>2. rank[i] = Cardinality(upto(i)) /\ rank[j] = Cardinality(upto(j))
      OBVIOUS
    <2> HIDE DEF upto, rank
    <2>3. IsFiniteSet(upto(j))
      BY <1>2
    <2>4. Cardinality(upto(i)) = Cardinality(upto(j)) => upto(i) = upto(j)
      BY <2>1, <2>3, FS_Subset
    <2> QED BY <2>1, <2>2, <2>4
  <1>4. \A i, j \in S : rank[i] = rank[j] => i = j
    BY <1>1, <1>3
  <1>5. rank \in Injection(S, 1..m)
    BY <1>2, <1>4 DEF Injection, IsInjective
  <1>6. \A k \in 1..m : \E i \in S : rank[i] = k
    <2>1. IsFiniteSet(1..m) /\ Cardinality(1..m) = m
      BY <1>1, FS_Interval
    <2> HIDE DEF rank
    <2>2. rank \in Surjection(S, 1..m)
      BY <1>5, <2>1, FS_Injection
    <2> QED BY <2>2 DEF Surjection
  <1>7. Index(S) = rank
    BY DEF Index
  <1> HIDE DEF rank, m
  <1>8. \A k \in 1..m : At(S, k) \in S /\ rank[At(S, k)] = k
    BY <1>6, <1>7 DEF At
  <1>9. \A i \in S : rank[i] \in 1..m /\ At(S, rank[i]) = i
    BY <1>2, <1>4, <1>8
  <1> QED BY <1>1, <1>7, <1>8, <1>9 DEF m

LEMMA ReindexedFinds ==
  ASSUME NEW old, NEW S
  PROVE  \A n \in S : Reindexed(old, Index(S))[n] = Index(S)[n]
  <1>1. DOMAIN Index(S) = S
    BY DEF Index
  <1> QED BY <1>1 DEF Reindexed, Over

---------------------------------------------------------------------------
(* One step of a rank.                                                     *)

LEMMA SameNeighbors ==
  ASSUME owner' = owner
  PROVE  \A r : (NeighborsOf(r))' = NeighborsOf(r)
  BY DEF NeighborsOf, Own

LEMMA SameBlocks ==
  ASSUME owner' = owner, round' = round
  PROVE  \A n, r, s : (Block(n, r, s))' = Block(n, r, s)
  BY SameNeighbors DEF Block

(* A rank that is past the mask has found its neighbors, and has some.       *)
LEMMA AtWork ==
  ASSUME NEW base \in Nat, NEW r \in Rank, Typed, Found, Counted(base), pc[r] # "mask"
  PROVE  /\ species[r] \in Species
         /\ Neighbors(r) = NeighborsOf(r) /\ NeighborsOf(r) # {}
         /\ NeighborsOf(r) \in SUBSET Rank
  <1>1. species[r] \in Species
    BY SizeAssumption DEF Typed, Species
  <1>2. NeighborsOf(r) # {}
    BY DEF Counted
  <1>3. Neighbors(r) = NeighborsOf(r)
    BY <1>1 DEF Found, Known, Neighbors
  <1> QED BY <1>1, <1>2, <1>3, NeighborsAreRanks DEF Typed

LEMMA BuildMaskKeeps ==
  ASSUME NEW base \in Nat, NEW r \in Rank, Inv(base), BuildMask(r)
  PROVE  Inv(base)'
  <1> DEFINE s == species[r]
  <1>0. /\ Typed /\ Found /\ Exchanged /\ Counted(base) /\ Gathered(base) /\ Met(base)
        /\ Carried(base)
    BY DEF Inv
  <1>1. /\ pc[r] = "mask" /\ s \in Species
        /\ neighborProcs' = [neighborProcs EXCEPT ![r][s] = NeighborsOf(r)]
        /\ \/ /\ NeighborsOf(r) = {} /\ species' = [species EXCEPT ![r] = s + 1]
              /\ UNCHANGED <<pc, whoToIdx>>
           \/ /\ NeighborsOf(r) # {} /\ pc' = [pc EXCEPT ![r] = "register"]
              /\ whoToIdx' = [whoToIdx EXCEPT ![r][s] = Reindexed(@, Index(NeighborsOf(r)))]
              /\ UNCHANGED species
        /\ UNCHANGED <<owner, round, entered, seqNum, mail, rmtBlk>>
    BY Zenon DEF BuildMask
  <1>2. /\ \A q : (NeighborsOf(q))' = NeighborsOf(q)
        /\ \A n, q, t : (Block(n, q, t))' = Block(n, q, t)
    BY <1>1, SameNeighbors, SameBlocks
  <1>3. NeighborsOf(r) \in SUBSET Rank
    BY <1>0, NeighborsAreRanks DEF Typed
  <1>4. /\ s \in Nat /\ s + 1 \in 1..(LastSpecies + 1)
        /\ \A q \in Rank : species[q] \in Nat /\ species'[q] \in Nat
        /\ \A q \in Rank \ {r} : species'[q] = species[q] /\ pc'[q] = pc[q]
        /\ species'[r] = s \/ (NeighborsOf(r) = {} /\ species'[r] = s + 1)
    <2>1. s \in Nat /\ s + 1 \in 1..(LastSpecies + 1)
      BY <1>1, SizeAssumption DEF Species
    <2>2. species'[r] = s \/ (NeighborsOf(r) = {} /\ species'[r] = s + 1)
      BY <1>0, <1>1 DEF Typed
    <2>3. \A q \in Rank \ {r} : species'[q] = species[q] /\ pc'[q] = pc[q]
      BY <1>0, <1>1 DEF Typed
    <2>4. \A q \in Rank : species[q] \in Nat
      BY <1>0 DEF Typed
    <2> QED BY <2>1, <2>2, <2>3, <2>4
  <1>5. Typed'
    <2>1. species' \in [Rank -> 1..(LastSpecies + 1)]
      BY <1>0, <1>1, <1>4 DEF Typed
    <2>2. \A q \in Rank : species'[q] > LastSpecies => pc'[q] = "mask"
      BY <1>0, <1>1, <1>4, SizeAssumption, SMTT(40) DEF Typed, Species
    <2>3. /\ pc' \in [Rank -> {"mask", "register", "sync", "post", "waitall"}]
          /\ neighborProcs' \in [Rank -> [Species -> SUBSET Rank]]
      BY <1>0, <1>1, <1>3 DEF Typed
    <2>4. DOMAIN whoToIdx' = Rank /\ \A q \in Rank : DOMAIN whoToIdx'[q] = Species
      BY <1>0, <1>1 DEF Typed
    <2> QED BY <1>0, <1>1, <2>1, <2>2, <2>3, <2>4 DEF Typed
  <1>6. Found'
    <2> SUFFICES ASSUME NEW q \in Rank, NEW t \in Species, Known(q, t)'
                 PROVE  /\ neighborProcs'[q][t] = NeighborsOf(q)
                        /\ \A n \in NeighborsOf(q) :
                             whoToIdx'[q][t][n] = Index(NeighborsOf(q))[n]
      BY <1>2 DEF Found
    <2>1. CASE q # r \/ t # s
      <3>1. Known(q, t)
        BY <1>1, <1>4, <2>1 DEF Known, Species
      <3>2. neighborProcs'[q][t] = neighborProcs[q][t]
        BY <1>0, <1>1, <2>1 DEF Typed
      <3>3. whoToIdx'[q][t] = whoToIdx[q][t]
        BY <1>0, <1>1, <2>1 DEF Typed
      <3> QED BY <1>0, <3>1, <3>2, <3>3 DEF Found
    <2>2. CASE q = r /\ t = s
      <3>1. neighborProcs'[r][s] = NeighborsOf(r)
        BY <1>0, <1>1 DEF Typed
      <3>2. ASSUME NEW n \in NeighborsOf(r)
            PROVE  whoToIdx'[r][s][n] = Index(NeighborsOf(r))[n]
        <4>1. whoToIdx'[r][s] = Reindexed(whoToIdx[r][s], Index(NeighborsOf(r)))
          BY <1>0, <1>1, <3>2 DEF Typed
        <4> QED BY <4>1, ReindexedFinds
      <3> QED BY <2>2, <3>1, <3>2
    <2> QED BY <2>1, <2>2
  <1>7. Exchanged'
    <2> SUFFICES ASSUME NEW q \in Rank, NEW t \in Species, Ready(q, t)', NeighborsOf(q) # {}
                 PROVE  rmtBlk[q][t] = [i \in 1..Cardinality(NeighborsOf(q)) |->
                                          Block(At(NeighborsOf(q), i), q, t)]
      BY <1>1, <1>2 DEF Exchanged
    <2>1. Ready(q, t)
      BY <1>4 DEF Ready
    <2> QED BY <1>0, <2>1 DEF Exchanged
  <1>8. Counted(base)'
    BY <1>0, <1>1, <1>2, <1>4 DEF Counted, Typed
  <1>9. Gathered(base)'
    <2> SUFFICES ASSUME NEW q \in Rank, NEW p \in Rank, NeighborsOf(q) # {}
                 PROVE  entered[p] >= base + (Passed(q))'
      BY <1>1, <1>2 DEF Gathered
    <2>1. (Passed(q))' = Passed(q)
      BY <1>0, <1>1, <1>4 DEF Passed, Typed
    <2> QED BY <1>0, <2>1 DEF Gathered
  <1>10. Met(base)'
    BY <1>0, <1>1, <1>2, <1>4 DEF Met
  <1>11. Carried(base)'
    <2> SUFFICES ASSUME NEW l \in mail
                 PROVE  \E t \in Species :
                          /\ l.src \in Rank /\ l.dst \in NeighborsOf(l.src)
                          /\ l.tag = base + t - 1 /\ l.tag < seqNum[l.src]
                          /\ l.blk = Block(l.src, l.dst, t)
                          /\ species'[l.dst] <= t
      BY <1>1, <1>2 DEF Carried
    <2>1. PICK t \in Species :
            /\ l.src \in Rank /\ l.dst \in NeighborsOf(l.src)
            /\ l.tag = base + t - 1 /\ l.tag < seqNum[l.src]
            /\ l.blk = Block(l.src, l.dst, t)
            /\ species[l.dst] <= t
      BY <1>0 DEF Carried
    <2>2. l.dst \in Rank /\ NeighborsOf(l.dst) # {}
      BY <1>0, <2>1, Mutual DEF Typed
    <2>3. species'[l.dst] = species[l.dst]
      BY <1>4, <2>2
    <2> QED BY <2>1, <2>3
  <1> QED BY <1>5, <1>6, <1>7, <1>8, <1>9, <1>10, <1>11 DEF Inv

(* A step that changes neither the rank's species, the neighbors nor what   *)
(* is in the mail keeps what was found and what was exchanged.              *)
LEMMA SameSpecies ==
  ASSUME NEW base \in Nat, NEW r \in Rank, Typed, Found, Exchanged, Counted(base),
         pc[r] # "mask", NEW e \in {"sync", "post", "waitall"}, pc' = [pc EXCEPT ![r] = e],
         UNCHANGED <<owner, round, species, neighborProcs, whoToIdx, rmtBlk>>
  PROVE  /\ Found' /\ Exchanged'
         /\ \A q : (NeighborsOf(q))' = NeighborsOf(q)
         /\ \A n, q, t : (Block(n, q, t))' = Block(n, q, t)
         /\ pc' \in [Rank -> {"mask", "register", "sync", "post", "waitall"}]
         /\ \A q \in Rank : species'[q] > LastSpecies => pc'[q] = "mask"
  <1>1. /\ \A q : (NeighborsOf(q))' = NeighborsOf(q)
        /\ \A n, q, t : (Block(n, q, t))' = Block(n, q, t)
    BY SameNeighbors, SameBlocks
  <1>2. pc' \in [Rank -> {"mask", "register", "sync", "post", "waitall"}]
    BY DEF Typed
  <1>3. \A q \in Rank : species'[q] > LastSpecies => pc'[q] = "mask"
    BY DEF Typed
  <1>4. \A q \in Rank, t \in Species : (Known(q, t))' <=> Known(q, t)
    BY DEF Known, Typed
  <1>5. Found'
    BY <1>1, <1>4, Zenon DEF Found
  <1>6. Exchanged'
    BY <1>1 DEF Exchanged, Ready
  <1> QED BY <1>1, <1>2, <1>3, <1>5, <1>6

LEMMA RegisterKeeps ==
  ASSUME NEW base \in Nat, NEW r \in Rank, Inv(base), Register(r)
  PROVE  Inv(base)'
  <1>0. /\ Typed /\ Found /\ Exchanged /\ Counted(base) /\ Gathered(base) /\ Met(base)
        /\ Carried(base)
    BY DEF Inv
  <1>1. /\ pc[r] = "register" /\ pc' = [pc EXCEPT ![r] = "sync"]
        /\ entered' = [entered EXCEPT ![r] = @ + 1]
        /\ UNCHANGED <<owner, round, species, neighborProcs, whoToIdx, seqNum, mail, rmtBlk>>
    BY Zenon DEF Register
  <1>2. /\ Found' /\ Exchanged'
        /\ \A q : (NeighborsOf(q))' = NeighborsOf(q)
        /\ \A n, q, t : (Block(n, q, t))' = Block(n, q, t)
        /\ pc' \in [Rank -> {"mask", "register", "sync", "post", "waitall"}]
        /\ \A q \in Rank : species'[q] > LastSpecies => pc'[q] = "mask"
    BY <1>0, <1>1, SameSpecies
  <1>3. Typed'
    BY <1>0, <1>1, <1>2 DEF Typed
  <1>4. \A q \in Rank : entered[q] \in Nat /\ entered'[q] \in Nat /\ entered'[q] >= entered[q]
    BY <1>0, <1>1 DEF Typed
  <1>5. Counted(base)'
    BY <1>0, <1>1, <1>2 DEF Counted, Typed
  <1>6. Gathered(base)'
    <2> SUFFICES ASSUME NEW q \in Rank, NEW p \in Rank, NeighborsOf(q) # {}
                 PROVE  entered'[p] >= base + (Passed(q))'
      BY <1>2 DEF Gathered
    <2>1. (Passed(q))' = Passed(q) /\ Passed(q) \in Int
      BY <1>0, <1>1 DEF Passed, Typed
    <2>2. entered[p] >= base + Passed(q)
      BY <1>0 DEF Gathered
    <2> QED BY <1>4, <2>1, <2>2
  <1>7. Met(base)' /\ Carried(base)'
    BY <1>0, <1>1, <1>2, Zenon DEF Met, Carried
  <1> QED BY <1>2, <1>3, <1>5, <1>6, <1>7 DEF Inv

LEMMA LeaveSyncKeeps ==
  ASSUME NEW base \in Nat, NEW r \in Rank, Inv(base), LeaveSync(r)
  PROVE  Inv(base)'
  <1>0. /\ Typed /\ Found /\ Exchanged /\ Counted(base) /\ Gathered(base) /\ Met(base)
        /\ Carried(base)
    BY DEF Inv
  <1>1. /\ pc[r] = "sync" /\ pc' = [pc EXCEPT ![r] = "post"]
        /\ \A q \in Rank : entered[q] >= entered[r]
        /\ UNCHANGED <<owner, round, species, neighborProcs, whoToIdx, entered, seqNum, mail,
                       rmtBlk>>
    BY Zenon DEF LeaveSync
  <1>2. /\ Found' /\ Exchanged'
        /\ \A q : (NeighborsOf(q))' = NeighborsOf(q)
        /\ \A n, q, t : (Block(n, q, t))' = Block(n, q, t)
        /\ pc' \in [Rank -> {"mask", "register", "sync", "post", "waitall"}]
        /\ \A q \in Rank : species'[q] > LastSpecies => pc'[q] = "mask"
    BY <1>0, <1>1, SameSpecies
  <1>3. Typed'
    BY <1>0, <1>1, <1>2 DEF Typed
  <1>4. Counted(base)'
    BY <1>0, <1>1, <1>2 DEF Counted, Typed
  <1>5. Gathered(base)'
    <2> SUFFICES ASSUME NEW q \in Rank, NEW p \in Rank, NeighborsOf(q) # {}
                 PROVE  entered[p] >= base + (Passed(q))'
      BY <1>1, <1>2 DEF Gathered
    <2>1. CASE q # r
      <3>1. (Passed(q))' = Passed(q)
        BY <1>0, <1>1, <2>1 DEF Passed, Typed
      <3> QED BY <1>0, <3>1 DEF Gathered
    <2>2. CASE q = r
      <3>1. (Passed(q))' = species[r] /\ entered[r] = base + species[r]
        BY <1>0, <1>1, <2>2 DEF Passed, Counted, Typed
      <3> QED BY <1>1, <3>1
    <2> QED BY <2>1, <2>2
  <1>6. Met(base)' /\ Carried(base)'
    BY <1>0, <1>1, <1>2, Zenon DEF Met, Carried
  <1> QED BY <1>2, <1>3, <1>4, <1>5, <1>6 DEF Inv

LEMMA PostKeeps ==
  ASSUME NEW base \in Nat, NEW r \in Rank, Inv(base), Post(r)
  PROVE  Inv(base)'
  <1> DEFINE s == species[r]
  <1>0. /\ Typed /\ Found /\ Exchanged /\ Counted(base) /\ Gathered(base) /\ Met(base)
        /\ Carried(base)
    BY DEF Inv
  <1>1. /\ pc[r] = "post" /\ pc' = [pc EXCEPT ![r] = "waitall"]
        /\ mail' = mail \cup {Letter(r, n) : n \in Neighbors(r)}
        /\ seqNum' = [seqNum EXCEPT ![r] = @ + 1]
        /\ UNCHANGED <<owner, round, species, neighborProcs, whoToIdx, entered, rmtBlk>>
    BY Zenon DEF Post
  <1>2. /\ Found' /\ Exchanged'
        /\ \A q : (NeighborsOf(q))' = NeighborsOf(q)
        /\ \A n, q, t : (Block(n, q, t))' = Block(n, q, t)
        /\ pc' \in [Rank -> {"mask", "register", "sync", "post", "waitall"}]
        /\ \A q \in Rank : species'[q] > LastSpecies => pc'[q] = "mask"
    BY <1>0, <1>1, SameSpecies
  <1>3. /\ s \in Species /\ Neighbors(r) = NeighborsOf(r) /\ NeighborsOf(r) # {}
        /\ NeighborsOf(r) \in SUBSET Rank
    BY <1>0, <1>1, AtWork
  <1>4. Typed'
    BY <1>0, <1>1, <1>2 DEF Typed
  <1>5. /\ seqNum[r] = base + s - 1 /\ seqNum'[r] = base + s
        /\ \A q \in Rank : seqNum[q] \in Nat /\ seqNum'[q] \in Nat /\ seqNum'[q] >= seqNum[q]
        /\ \A q \in Rank : species[q] \in Nat
    <2>1. seqNum[r] = base + s - 1 /\ s \in Nat /\ seqNum[r] \in Nat
      BY <1>0, <1>1, <1>3 DEF Counted, Typed
    <2>2. \A q \in Rank : seqNum[q] \in Nat /\ species[q] \in Nat
      BY <1>0 DEF Typed
    <2>3. seqNum'[r] = seqNum[r] + 1 /\ \A q \in Rank \ {r} : seqNum'[q] = seqNum[q]
      BY <1>0, <1>1 DEF Typed
    <2> QED BY <2>1, <2>2, <2>3
  <1>6. Counted(base)'
    BY <1>0, <1>1, <1>2 DEF Counted, Typed
  <1>7. Gathered(base)'
    <2> SUFFICES ASSUME NEW q \in Rank, NEW p \in Rank, NeighborsOf(q) # {}
                 PROVE  entered[p] >= base + (Passed(q))'
      BY <1>1, <1>2 DEF Gathered
    <2>1. (Passed(q))' = Passed(q)
      BY <1>0, <1>1 DEF Passed, Typed
    <2> QED BY <1>0, <2>1 DEF Gathered
  <1>8. Met(base)'
    <2> SUFFICES ASSUME NEW q \in Rank, NEW n \in NeighborsOf(q)
                 PROVE  seqNum'[n] >= base + species[q] - 1
      BY <1>1, <1>2 DEF Met
    <2>1. n \in Rank
      BY <1>0, Mutual DEF Typed
    <2>2. seqNum[n] >= base + species[q] - 1
      BY <1>0 DEF Met
    <2> QED BY <1>5, <2>1, <2>2
  <1>9. Carried(base)'
    <2> DEFINE Mailed(l, t) == /\ l.src \in Rank /\ l.dst \in NeighborsOf(l.src)
                               /\ l.tag = base + t - 1 /\ l.tag < seqNum'[l.src]
                               /\ l.blk = Block(l.src, l.dst, t)
                               /\ species[l.dst] <= t
    <2> SUFFICES ASSUME NEW l \in mail' PROVE \E t \in Species : Mailed(l, t)
      BY <1>1, <1>2 DEF Carried
    <2>1. CASE l \in mail
      <3>1. PICK t \in Species :
              /\ l.src \in Rank /\ l.dst \in NeighborsOf(l.src)
              /\ l.tag = base + t - 1 /\ l.tag < seqNum[l.src]
              /\ l.blk = Block(l.src, l.dst, t)
              /\ species[l.dst] <= t
        BY <1>0, <2>1 DEF Carried
      <3>2. l.tag < seqNum'[l.src]
        BY <1>5, <3>1 DEF Species
      <3> QED BY <3>1, <3>2
    <2>2. CASE \E n \in NeighborsOf(r) : l = Letter(r, n)
      <3>1. PICK n \in NeighborsOf(r) : l = Letter(r, n)
        BY <2>2
      <3>2. l.src = r /\ l.dst = n /\ l.tag = seqNum[r] /\ l.blk = BlockFor(r, n)
        BY <3>1 DEF Letter
      <3>3. BlockFor(r, n) = Block(r, n, s)
        BY <1>3, Zenon DEF BlockFor, Block
      <3>4. n \in Rank /\ r \in NeighborsOf(n)
        BY <1>0, Mutual DEF Typed
      <3>5. seqNum[r] >= base + species[n] - 1
        BY <1>0, <3>4 DEF Met
      <3>6. species[n] <= s
        BY <1>3, <1>5, <3>4, <3>5 DEF Species
      <3>7. Mailed(l, s)
        BY <1>3, <1>5, <3>2, <3>3, <3>4, <3>6 DEF Species
      <3> QED BY <1>3, <3>7
    <2> QED BY <1>1, <1>3, <2>1, <2>2
  <1> QED BY <1>2, <1>4, <1>6, <1>7, <1>8, <1>9 DEF Inv

LEMMA WaitAllKeeps ==
  ASSUME NEW base \in Nat, NEW r \in Rank, Inv(base), WaitAll(r)
  PROVE  Inv(base)'
  <1> DEFINE s == species[r]
             N == NeighborsOf(r)
  <1>0. /\ Typed /\ Found /\ Exchanged /\ Counted(base) /\ Gathered(base) /\ Met(base)
        /\ Carried(base)
    BY DEF Inv
  <1>1. /\ pc[r] = "waitall" /\ pc' = [pc EXCEPT ![r] = "mask"]
        /\ \A n \in Neighbors(r) : \E l \in Expected(r) : l.src = n
        /\ rmtBlk' = [rmtBlk EXCEPT ![r][s] =
             [i \in 1..Cardinality(Neighbors(r)) |->
                (CHOOSE l \in Expected(r) : l.src = At(Neighbors(r), i)).blk]]
        /\ mail' = mail \ Expected(r)
        /\ species' = [species EXCEPT ![r] = @ + 1]
        /\ UNCHANGED <<owner, round, neighborProcs, whoToIdx, entered, seqNum>>
    BY Zenon DEF WaitAll
  <1>2. /\ \A q : (NeighborsOf(q))' = NeighborsOf(q)
        /\ \A n, q, t : (Block(n, q, t))' = Block(n, q, t)
    BY <1>1, SameNeighbors, SameBlocks
  <1>3. s \in Species /\ Neighbors(r) = N /\ N # {} /\ N \in SUBSET Rank
    BY <1>0, <1>1, AtWork
  <1>4. /\ s \in Nat /\ s + 1 \in 1..(LastSpecies + 1)
        /\ species'[r] = s + 1
        /\ \A q \in Rank \ {r} : species'[q] = species[q] /\ pc'[q] = pc[q]
        /\ \A q \in Rank : species[q] \in Nat /\ seqNum[q] \in Nat
        /\ seqNum[r] = base + s
    <2>1. s \in Nat /\ s + 1 \in 1..(LastSpecies + 1)
      BY <1>3, SizeAssumption DEF Species
    <2>2. species'[r] = s + 1
      BY <1>0, <1>1 DEF Typed
    <2>3. \A q \in Rank \ {r} : species'[q] = species[q] /\ pc'[q] = pc[q]
      BY <1>0, <1>1 DEF Typed
    <2>4. \A q \in Rank : species[q] \in Nat /\ seqNum[q] \in Nat
      BY <1>0 DEF Typed
    <2>5. seqNum[r] = base + s
      BY <1>0, <1>1, <1>3, <2>1 DEF Counted
    <2> QED BY <2>1, <2>2, <2>3, <2>4, <2>5
  (* A handle that r now waits for is the one for this species.              *)
  <1>5. \A l \in Expected(r) :
          /\ l.src \in N /\ l.blk = Block(l.src, r, s)
          /\ seqNum[l.src] >= base + s
    <2> SUFFICES ASSUME NEW l \in Expected(r)
                 PROVE  /\ l.src \in N /\ l.blk = Block(l.src, r, s)
                        /\ seqNum[l.src] >= base + s
      OBVIOUS
    <2>1. l \in mail /\ l.dst = r /\ l.src \in N /\ l.tag = seqNum[r] - 1
      BY <1>3 DEF Expected
    <2>2. PICK t \in Species :
            /\ l.src \in Rank /\ l.dst \in NeighborsOf(l.src)
            /\ l.tag = base + t - 1 /\ l.tag < seqNum[l.src]
            /\ l.blk = Block(l.src, l.dst, t)
      BY <1>0, <2>1 DEF Carried
    <2>3. t = s
      BY <1>4, <2>1, <2>2 DEF Species
    <2>4. l.blk = Block(l.src, r, s)
      BY <2>1, <2>2, <2>3
    <2>5. seqNum[l.src] >= base + s
      BY <1>4, <2>2, <2>3
    <2> QED BY <2>1, <2>4, <2>5
  <1>6. Typed'
    <2>1. species' \in [Rank -> 1..(LastSpecies + 1)]
      BY <1>0, <1>1, <1>4 DEF Typed
    <2>2. \A q \in Rank : species'[q] > LastSpecies => pc'[q] = "mask"
      BY <1>0, <1>1, <1>4 DEF Typed
    <2>3. pc' \in [Rank -> {"mask", "register", "sync", "post", "waitall"}]
      BY <1>0, <1>1 DEF Typed
    <2>4. DOMAIN rmtBlk' = Rank /\ \A q \in Rank : DOMAIN rmtBlk'[q] = Species
      BY <1>0, <1>1 DEF Typed
    <2> QED BY <1>0, <1>1, <2>1, <2>2, <2>3, <2>4 DEF Typed
  <1>7. Found'
    <2>1. \A q \in Rank, t \in Species : (Known(q, t))' => Known(q, t)
      BY <1>0, <1>1, <1>4 DEF Known, Typed, Species
    <2> QED BY <1>0, <1>1, <1>2, <2>1, Zenon DEF Found
  <1>8. Exchanged'
    <2> SUFFICES ASSUME NEW q \in Rank, NEW t \in Species, Ready(q, t)', NeighborsOf(q) # {}
                 PROVE  rmtBlk'[q][t] = [i \in 1..Cardinality(NeighborsOf(q)) |->
                                           Block(At(NeighborsOf(q), i), q, t)]
      BY <1>2 DEF Exchanged
    <2>1. CASE q # r \/ t # s
      <3>1. Ready(q, t)
        BY <1>4, <2>1 DEF Ready, Species
      <3>2. rmtBlk'[q][t] = rmtBlk[q][t]
        BY <1>0, <1>1, <2>1 DEF Typed
      <3> QED BY <1>0, <3>1, <3>2 DEF Exchanged
    <2>2. CASE q = r /\ t = s
      <3>1. rmtBlk'[r][s] = [i \in 1..Cardinality(N) |->
                               (CHOOSE l \in Expected(r) : l.src = At(N, i)).blk]
        BY <1>0, <1>1, <1>3 DEF Typed
      <3>2. ASSUME NEW i \in 1..Cardinality(N)
            PROVE  (CHOOSE l \in Expected(r) : l.src = At(N, i)).blk = Block(At(N, i), r, s)
        <4>1. At(N, i) \in N
          BY <1>3, IndexAt
        <4>2. PICK l \in Expected(r) : l = CHOOSE k \in Expected(r) : k.src = At(N, i)
          BY <1>1, <1>3, <4>1
        <4>3. l.src = At(N, i)
          BY <1>1, <1>3, <4>1, <4>2
        <4> QED BY <1>5, <4>2, <4>3
      <3> QED BY <2>2, <3>1, <3>2
    <2> QED BY <2>1, <2>2
  <1>9. Counted(base)'
    <2>1. entered[r] = base + s /\ pc'[r] = "mask"
      BY <1>0, <1>1, <1>3, <1>4 DEF Counted, Typed
    <2>2. /\ entered[r] = base + species'[r] - 1
          /\ seqNum[r] = base + species'[r] - 1
      BY <1>4, <2>1
    <2>3. ASSUME NEW q \in Rank
          PROVE  IF NeighborsOf(q) = {}
                   THEN pc'[q] = "mask" /\ entered[q] = base /\ seqNum[q] = base
                   ELSE /\ entered[q] = base + species'[q]
                             - (IF pc'[q] \in {"mask", "register"} THEN 1 ELSE 0)
                        /\ seqNum[q] = base + species'[q]
                             - (IF pc'[q] = "waitall" THEN 0 ELSE 1)
      <3>1. CASE q # r
        BY <1>0, <1>4, <3>1 DEF Counted
      <3>2. CASE q = r
        BY <1>3, <2>1, <2>2, <3>2
      <3> QED BY <3>1, <3>2
    <2> QED BY <1>1, <1>2, <2>3 DEF Counted
  <1>10. Gathered(base)'
    <2> SUFFICES ASSUME NEW q \in Rank, NEW p \in Rank, NeighborsOf(q) # {}
                 PROVE  entered[p] >= base + (Passed(q))'
      BY <1>1, <1>2 DEF Gathered
    <2>1. (Passed(q))' = Passed(q)
      BY <1>0, <1>1, <1>4, SMTT(40) DEF Passed, Typed
    <2> QED BY <1>0, <2>1 DEF Gathered
  <1>11. Met(base)'
    <2> SUFFICES ASSUME NEW q \in Rank, NEW n \in NeighborsOf(q)
                 PROVE  seqNum[n] >= base + species'[q] - 1
      BY <1>1, <1>2 DEF Met
    <2>1. CASE q # r
      BY <1>0, <1>4, <2>1 DEF Met
    <2>2. CASE q = r
      <3>1. PICK l \in Expected(r) : l.src = n
        BY <1>1, <1>3, <2>2
      <3>2. seqNum[n] >= base + s /\ n \in Rank
        BY <1>3, <1>5, <2>2, <3>1
      <3> QED BY <1>4, <2>2, <3>2
    <2> QED BY <2>1, <2>2
  <1>12. Carried(base)'
    <2> SUFFICES ASSUME NEW l \in mail, l \notin Expected(r)
                 PROVE  \E t \in Species :
                          /\ l.src \in Rank /\ l.dst \in NeighborsOf(l.src)
                          /\ l.tag = base + t - 1 /\ l.tag < seqNum[l.src]
                          /\ l.blk = Block(l.src, l.dst, t)
                          /\ species'[l.dst] <= t
      BY <1>1, <1>2 DEF Carried
    <2>1. PICK t \in Species :
            /\ l.src \in Rank /\ l.dst \in NeighborsOf(l.src)
            /\ l.tag = base + t - 1 /\ l.tag < seqNum[l.src]
            /\ l.blk = Block(l.src, l.dst, t)
            /\ species[l.dst] <= t
      BY <1>0 DEF Carried
    <2>2. l.dst \in Rank /\ l.src \in NeighborsOf(l.dst)
      BY <1>0, <2>1, Mutual DEF Typed
    <2>3. species'[l.dst] <= t
      <3>1. CASE l.dst # r
        BY <1>4, <2>1, <2>2, <3>1
      <3>2. CASE l.dst = r
        <4>1. t # s
          <5>1. l.tag # seqNum[r] - 1
            BY <1>3, <2>2, <3>2 DEF Expected
          <5> QED BY <1>4, <2>1, <5>1
        <4> QED BY <1>4, <2>1, <3>2, <4>1 DEF Species
      <3> QED BY <3>1, <3>2
    <2> QED BY <2>1, <2>3
  <1> QED BY <1>6, <1>7, <1>8, <1>9, <1>10, <1>11, <1>12 DEF Inv

(* When all have set up the last species, no handle is in the mail; and     *)
(* unless nobody has neighbors, nobody has none and the counters agree.      *)
LEMMA RebalanceKeeps ==
  ASSUME NEW base \in Nat, Inv(base), Rebalance
  PROVE  \E next \in Nat : Inv(next)'
  <1>0. /\ Typed /\ Found /\ Exchanged /\ Counted(base) /\ Gathered(base) /\ Met(base)
        /\ Carried(base)
    BY DEF Inv
  <1>1. /\ \A r \in Rank : species[r] > LastSpecies
        /\ owner' \in Maps /\ round' = round + 1
        /\ species' = [r \in Rank |-> 1]
        /\ UNCHANGED <<pc, neighborProcs, whoToIdx, entered, seqNum, mail, rmtBlk>>
    BY Zenon DEF Rebalance, AllSetUp
  <1>2. \A r \in Rank : species[r] = LastSpecies + 1 /\ pc[r] = "mask"
    BY <1>0, <1>1, SizeAssumption DEF Typed
  <1>3. mail = {}
    <2> SUFFICES ASSUME NEW l \in mail PROVE FALSE
      OBVIOUS
    <2>1. PICK t \in Species :
            l.src \in Rank /\ l.dst \in NeighborsOf(l.src) /\ species[l.dst] <= t
      BY <1>0 DEF Carried
    <2>2. l.dst \in Rank
      BY <1>0, <2>1, Mutual DEF Typed
    <2> QED BY <1>2, <2>1, <2>2, SizeAssumption DEF Species
  <1>4. \E next \in Nat : \A r \in Rank : entered[r] = next /\ seqNum[r] = next
    <2>1. CASE \A r \in Rank : NeighborsOf(r) = {}
      BY <1>0, <2>1 DEF Counted
    <2>2. CASE \E r \in Rank : NeighborsOf(r) # {}
      <3>1. PICK r \in Rank : NeighborsOf(r) # {}
        BY <2>2
      <3>2. Passed(r) = LastSpecies
        BY <1>2, SizeAssumption DEF Passed
      <3>3. ASSUME NEW q \in Rank PROVE NeighborsOf(q) # {}
        <4>1. entered[q] >= base + LastSpecies
          BY <1>0, <3>1, <3>2 DEF Gathered
        <4>2. entered[q] # base
          BY <4>1, SizeAssumption
        <4> QED BY <1>0, <4>2 DEF Counted
      <3>4. ASSUME NEW q \in Rank
            PROVE  entered[q] = base + LastSpecies /\ seqNum[q] = base + LastSpecies
        <4>1. /\ entered[q] = base + (LastSpecies + 1) - 1
              /\ seqNum[q] = base + (LastSpecies + 1) - 1
          BY <1>0, <1>2, <3>3 DEF Counted
        <4> QED BY <4>1, SizeAssumption
      <3> QED BY <3>4, SizeAssumption
    <2> QED BY <2>1, <2>2
  <1>5. PICK next \in Nat : \A r \in Rank : entered[r] = next /\ seqNum[r] = next
    BY <1>4
  <1>6. Typed'
    <2>1. species' \in [Rank -> 1..(LastSpecies + 1)] /\ round' \in Nat
      BY <1>0, <1>1, SizeAssumption DEF Typed
    <2>2. \A r \in Rank : pc'[r] = "mask"
      BY <1>1, <1>2
    <2> QED BY <1>0, <1>1, <2>1, <2>2 DEF Typed
  <1>7. Found' /\ Exchanged'
    BY <1>1, <1>2 DEF Found, Exchanged, Known, Ready, Species
  <1>8. Counted(next)'
    BY <1>1, <1>2, <1>5 DEF Counted
  <1>9. Gathered(next)'
    BY <1>1, <1>2, <1>5 DEF Gathered, Passed
  <1>10. Met(next)'
    <2> SUFFICES ASSUME NEW r \in Rank, NEW n \in (NeighborsOf(r))'
                 PROVE  seqNum[n] >= next + 1 - 1
      BY <1>1 DEF Met
    <2>1. n \in Rank
      <3>1. owner' \in [Box -> Rank]
        BY <1>1, MapAssumption
      <3>2. PICK d \in UNION {Touch[b] : b \in (Own(r))'} : owner'[d] = n
        BY DEF NeighborsOf
      <3>3. d \in Box
        BY <3>2, TouchAssumption DEF Own
      <3> QED BY <3>1, <3>2, <3>3
    <2> QED BY <1>5, <2>1
  <1>11. Carried(next)'
    BY <1>1, <1>3 DEF Carried
  <1>12. Inv(next)'
    BY <1>6, <1>7, <1>8, <1>9, <1>10, <1>11 DEF Inv
  <1> QED BY <1>12

---------------------------------------------------------------------------
(* The counters, tags, blocks and handles of every state are as Inv says,   *)
(* for the base of the distribution in force.                               *)
THEOREM Invariance == Spec => []IInv
  <1>1. Init => IInv
    <2> SUFFICES ASSUME Init PROVE IInv
      OBVIOUS
    <2>1. Typed
      BY SizeAssumption DEF Init, Typed
    <2>2. Found /\ Exchanged
      BY DEF Init, Found, Exchanged, Known, Ready, Species
    <2>3. Counted(0) /\ Gathered(0)
      BY DEF Init, Counted, Gathered, Passed
    <2>4. Met(0)
      BY <2>1, Mutual DEF Init, Met, Typed
    <2>5. Carried(0)
      BY DEF Init, Carried
    <2>6. Inv(0)
      BY <2>1, <2>2, <2>3, <2>4, <2>5 DEF Inv
    <2> QED BY <2>6 DEF IInv
  <1>2. IInv /\ [Next]_vars => IInv'
    <2> SUFFICES ASSUME IInv, [Next]_vars PROVE IInv'
      OBVIOUS
    <2>1. PICK base \in Nat : Inv(base)
      BY DEF IInv
    <2>2. CASE UNCHANGED vars
      <3>1. Inv(base)'
        <4>0. /\ Typed /\ Found /\ Exchanged /\ Counted(base) /\ Gathered(base)
              /\ Met(base) /\ Carried(base)
          BY <2>1 DEF Inv
        <4>1. UNCHANGED <<owner, round, pc, species, neighborProcs, whoToIdx, entered, seqNum,
                          mail, rmtBlk>>
          BY <2>2 DEF vars
        <4>2. /\ \A q : (NeighborsOf(q))' = NeighborsOf(q)
              /\ \A n, q, t : (Block(n, q, t))' = Block(n, q, t)
          BY <4>1, SameNeighbors, SameBlocks
        <4>3. Typed'
          BY <4>0, <4>1 DEF Typed
        <4>4. Found'
          BY <4>0, <4>1, <4>2 DEF Found, Known
        <4>5. Exchanged'
          BY <4>0, <4>1, <4>2 DEF Exchanged, Ready
        <4>6. Counted(base)'
          BY <4>0, <4>1, <4>2 DEF Counted
        <4>7. Gathered(base)' /\ Met(base)'
          BY <4>0, <4>1, <4>2 DEF Gathered, Met, Passed
        <4>8. Carried(base)'
          BY <4>0, <4>1, <4>2 DEF Carried
        <4> QED BY <4>3, <4>4, <4>5, <4>6, <4>7, <4>8 DEF Inv
      <3> QED BY <3>1 DEF IInv
    <2>3. CASE Rebalance
      BY <2>1, <2>3, RebalanceKeeps DEF IInv
    <2>4. ASSUME NEW r \in Rank, RankNext(r) PROVE IInv'
      <3>1. Inv(base)'
        BY <2>1, <2>4, BuildMaskKeeps, RegisterKeeps, LeaveSyncKeeps, PostKeeps, WaitAllKeeps,
           Zenon DEF RankNext
      <3> QED BY <3>1 DEF IInv
    <2> QED BY <2>2, <2>3, <2>4 DEF Next
  <1> QED BY <1>1, <1>2, PTL DEF Spec

(* What a rank has exchanged when it is ready for a species pairs it with   *)
(* its neighbors.                                                          *)
LEMMA InvPairs == IInv => ChannelsPaired
  <1> SUFFICES ASSUME IInv, NEW r \in Rank, NEW n \in Rank, NEW s \in Species,
                      Ready(r, s), n \in neighborProcs[r][s]
               PROVE  /\ r \in neighborProcs[n][s]
                      /\ whoToIdx[r][s][n] \in DOMAIN rmtBlk[r][s]
                      /\ LET blk == rmtBlk[r][s][whoToIdx[r][s][n]] IN
                           /\ blk = [owner |-> n, species |-> s, round |-> round,
                                     idx |-> whoToIdx[n][s][r]]
                           /\ \A q \in Rank \ {r} : Ready(q, s) =>
                                \A i \in DOMAIN rmtBlk[q][s] : rmtBlk[q][s][i] # blk
    BY DEF ChannelsPaired
  <1>1. PICK base \in Nat : Inv(base)
    BY DEF IInv
  <1>2. /\ Typed /\ Found /\ Exchanged /\ Counted(base) /\ Gathered(base)
    BY <1>1 DEF Inv
  <1> DEFINE N == NeighborsOf(r)
             k == Index(N)[n]
  <1>3. neighborProcs[r][s] = N /\ n \in N /\ N # {} /\ whoToIdx[r][s][n] = k
    BY <1>2 DEF Found, Known, Ready
  <1>4. r \in NeighborsOf(n) /\ N \in SUBSET Rank
    BY <1>2, <1>3, Mutual, NeighborsAreRanks DEF Typed
  (* r has come through the gather, so n has registered its blocks.          *)
  <1>5. Known(n, s)
    <2>1. entered[n] >= base + Passed(r) /\ Passed(r) >= s
      BY <1>2, <1>3 DEF Gathered, Passed, Ready, Typed, Species
    <2>2. entered[n] = base + species[n] - (IF pc[n] \in {"mask", "register"} THEN 1 ELSE 0)
      BY <1>2, <1>4 DEF Counted
    <2>3. species[n] > s \/ (species[n] = s /\ pc[n] # "mask")
      BY <1>2, <2>1, <2>2 DEF Typed, Species, Passed
    <2> QED BY <2>3 DEF Known
  <1>6. r \in neighborProcs[n][s] /\ whoToIdx[n][s][r] = Index(NeighborsOf(n))[r]
    BY <1>2, <1>4, <1>5 DEF Found
  <1>7. k \in 1..Cardinality(N) /\ At(N, k) = n
    BY <1>3, <1>4, IndexAt
  <1>8. rmtBlk[r][s] = [i \in 1..Cardinality(N) |-> Block(At(N, i), r, s)]
    BY <1>2, <1>3 DEF Exchanged
  <1>9. k \in DOMAIN rmtBlk[r][s] /\ rmtBlk[r][s][k] = Block(n, r, s)
    BY <1>7, <1>8
  <1>10. ASSUME NEW q \in Rank \ {r}, Ready(q, s), NEW i \in DOMAIN rmtBlk[q][s],
                rmtBlk[q][s][i] = Block(n, r, s)
         PROVE  FALSE
    <2> DEFINE M == NeighborsOf(q)
    <2>1. M # {}
      (* Every rank has been through the gather that r has come through.     *)
      <3>1. entered[q] >= base + Passed(r) /\ Passed(r) >= s
        BY <1>2, <1>3 DEF Gathered, Passed, Ready, Typed, Species
      <3>2. entered[q] # base
        <4>1. Passed(r) \in Int /\ entered[q] \in Nat
          BY <1>2 DEF Passed, Typed
        <4> QED BY <3>1, <4>1 DEF Species
      <3> QED BY <1>2, <3>2 DEF Counted
    <2>2. rmtBlk[q][s] = [j \in 1..Cardinality(M) |-> Block(At(M, j), q, s)]
      BY <1>2, <1>10, <2>1 DEF Exchanged
    <2>3. i \in 1..Cardinality(M) /\ Block(At(M, i), q, s) = Block(n, r, s)
      BY <1>10, <2>2
    <2>4. /\ At(M, i) = n
          /\ Index(NeighborsOf(At(M, i)))[q] = Index(NeighborsOf(n))[r]
      BY <2>3 DEF Block
    <2>5. M \in SUBSET Rank
      BY <1>2, NeighborsAreRanks DEF Typed
    <2>6. n \in M
      BY <2>3, <2>4, <2>5, IndexAt
    <2>7. q \in NeighborsOf(n) /\ NeighborsOf(n) \in SUBSET Rank
      BY <1>2, <2>6, Mutual, NeighborsAreRanks DEF Typed
    <2>8. q = r
      BY <1>4, <2>4, <2>7, IndexAt
    <2> QED BY <1>10, <2>8
  <1>11. Block(n, r, s) = [owner |-> n, species |-> s, round |-> round,
                           idx |-> whoToIdx[n][s][r]]
    BY <1>6 DEF Block
  <1> QED BY <1>3, <1>6, <1>9, <1>10, <1>11

(* After UNR_WarpX_blk_sync of a species, what a rank packs for a neighbor  *)
(* goes to the block that the neighbor has registered for this rank, this   *)
(* species and this distribution, and no other rank has been given it.      *)
THEOREM PairedCorrect == Spec => []ChannelsPaired
  BY Invariance, InvPairs, PTL

(* A rank with no neighbors returns from the mask before unr_mem_reg_sync.  *)
(* While there is one, no rank with neighbors gets through its first gather.*)
NoneIsReady ==
  \A q, r \in Rank : NeighborsOf(q) = {} /\ NeighborsOf(r) # {} =>
    species[r] = 1 /\ pc[r] \in {"mask", "register", "sync"}

(* One rank that owns no box and touches none keeps the fused exchange of    *)
(* every other rank from ever being set up, on any number of ranks.          *)
THEOREM BoxlessBlocks == Spec => []NoneIsReady
  <1>1. IInv => NoneIsReady
    <2> SUFFICES ASSUME NEW base \in Nat, Inv(base), NEW q \in Rank, NEW r \in Rank,
                        NeighborsOf(q) = {}, NeighborsOf(r) # {}
                 PROVE  species[r] = 1 /\ pc[r] \in {"mask", "register", "sync"}
      BY DEF IInv, NoneIsReady
    <2>1. entered[q] = base /\ entered[q] >= base + Passed(r)
      BY DEF Inv, Counted, Gathered
    <2>2. /\ species[r] \in Nat \ {0}
          /\ pc[r] \in {"mask", "register", "sync", "post", "waitall"}
      BY DEF Inv, Typed
    <2> QED BY <2>1, <2>2 DEF Passed
  <1> QED BY <1>1, Invariance, PTL
===========================================================================
