--------------------------- MODULE UnrPlan_proofs ---------------------------
(***************************************************************************)
(* Proofs about plans and signals.                                         *)
(*                                                                         *)
(* Division: the parts Divided gives a write add up to the write           *)
(* (DivisionWhole), so a plan has, for every write, a row of parts that    *)
(* tile it (PlannedIs, PartsTile), and the first of its pieces counts the  *)
(* write while each other one takes an increment from the upper half of    *)
(* the counter that the first has added (BatchIs).  The channels count what *)
(* the pieces carry when no write is divided over channels of verbs, which *)
(* drop it: the hypothesis WholeOnVerbs, without which the run plan_verbs  *)
(* shows a counter that gets to zero too early.  That a piece goes into the *)
(* block it was made for needs HandlesAgree, which is false for one list of *)
(* verbs and one of MPI.                                                   *)
(*                                                                         *)
(* Counters: Balanced says what a counter holds while any subset A of the  *)
(* pieces of a batch B is in the air: one for each write whose first piece *)
(* is in A, High for each other piece in A, less High for each other piece *)
(* of the writes whose first one is still in A.  It holds when all are in  *)
(* the air, is kept whichever piece lands next, and is zero only when A is *)
(* empty, because the first pieces are fewer than High (ZeroMeansLanded).  *)
(*                                                                         *)
(* Queues: Rings says that what is queued or popped is triggered, once.    *)
(* A ring that is full but for one place holds every signal of its pool,   *)
(* so the one that has just got to zero finds room (RingHasRoom).          *)
(***************************************************************************)
EXTENDS UnrPlan, FiniteSetTheorems, TLAPS


(* What a launch of a request puts in the air for a signal.                 *)
Flight(p, x) == [plan |-> p, sig |-> x.sig, add |-> Counted(x), i |-> x.i,
                 channel |-> x.channel]
Batch(p, req, s) == {Flight(p, x) : x \in {y \in Planned(req) : y.sig = s}}

(* The first piece of a write counts it, the others are deferred until then. *)
First(x) == x.add # -High
Firsts(A) == {x \in A : First(x)}
Others(A) == {x \in A : ~First(x)}
OthersOf(B, x) == {y \in B : ~First(y) /\ y.i = x.i}
Deferred(B, A) == {y \in B : ~First(y) /\ \E x \in A : First(x) /\ x.i = y.i}

(* The value a counter has while the pieces A of the batch B are in the air. *)
Due(B, A) == Cardinality(Firsts(A))
               + High * (Cardinality(Others(A)) - Cardinality(Deferred(B, A)))

Balance(s, B) == Aloft(s) \in SUBSET B /\ counter[s] = Due(B, Aloft(s))

(* A signal nothing was started on has its counter armed; one in use is in  *)
(* balance with the batch that uses it.                                     *)
Balanced ==
  \A s \in Sig :
    IF s \in used
      THEN \E p \in Plan : \E req \in Requests[p] :
             s \in SigsOf(req) /\ Balance(s, Batch(p, req, s))
      ELSE Aloft(s) = {} /\ counter[s] = NumEvent[s]

(* A plan is, or is to be, made from what it was asked for.                 *)
Kept ==
  /\ args \in [Plan -> UNION {Requests[p] : p \in Plan}]
  /\ status \in [Plan -> 0..2]
  /\ DOMAIN asked = Plan /\ DOMAIN para = Plan /\ DOMAIN pieces = Plan
  /\ \A p \in Plan :
       /\ args[p] \in Requests[p]
       /\ status[p] # 0 => asked[p] \in Requests[p]
       /\ status[p] = 1 => para[p] = asked[p]
       /\ status[p] = 2 => pieces[p] = Planned(asked[p])

(* The state and the values its variables range over.                       *)
QueueType(r) == [head : 0..(QueueSize(r) - 1), tail : 0..(QueueSize(r) - 1),
                 buff : [0..(QueueSize(r) - 1) -> Sig \cup {None}]]

Typed ==
  /\ counter \in [Sig -> Int] /\ used \in SUBSET Sig
  /\ \A x \in flying : x.sig \in Sig \cup {NoSig}
  /\ tpc \in [Thread -> {"poll", "lock", "arm"}]
  /\ got \in [Thread -> Sig \cup {None}]
  /\ \A t \in Thread :
       /\ tpc[t] = "arm" <=> got[t] # None
       /\ got[t] # None => SigHome[got[t]] = ThreadHome[t]
  /\ DOMAIN queue = Peer
  /\ \A r \in Peer : queue[r] \in QueueType(r)

(* What is queued or popped is triggered, in one place only, and what is    *)
(* triggered is queued or popped.                                           *)
Rings ==
  /\ \A r \in Peer : \A i \in Places(r) :
       /\ queue[r].buff[i] \in PoolOf(r) /\ counter[queue[r].buff[i]] = 0
       /\ \A j \in Places(r) : queue[r].buff[j] = queue[r].buff[i] => j = i
       /\ \A t \in Thread : got[t] # queue[r].buff[i]
  /\ \A t \in Thread : got[t] # None =>
       counter[got[t]] = 0 /\ \A u \in Thread : got[u] = got[t] => u = t
  /\ \A s \in Sig : counter[s] = 0 =>
       \/ \E i \in Places(SigHome[s]) : queue[SigHome[s]].buff[i] = s
       \/ \E t \in Thread : got[t] = s

---------------------------------------------------------------------------
(* Least numbers.                                                          *)

(* A set of naturals has a least one.                                       *)
LEMMA LeastNat ==
  ASSUME NEW S \in SUBSET Nat, S # {}
  PROVE  \E m \in S : \A x \in S : m <= x
  <1>1. IsWellFoundedOn(OpToRel(<, Nat), Nat)
    BY NatLessThanWellFounded
  <1>2. PICK m \in S : \A y \in S : ~ (<<y, m>> \in OpToRel(<, Nat))
    BY <1>1, WFMin
  <1>3. \A y \in S : ~ (y < m)
    BY <1>2 DEF OpToRel
  <1> QED BY <1>3

(* Induction up to a bound.                                                *)
LEMMA UpTo ==
  ASSUME NEW n \in Nat, NEW S \in SUBSET (1..(n + 1)), 1 \in S,
         \A j \in 1..n : j \in S => j + 1 \in S
  PROVE  S = 1..(n + 1)
  <1> DEFINE Bad == (1..(n + 1)) \ S
  <1> SUFFICES ASSUME Bad # {} PROVE FALSE
    OBVIOUS
  <1>1. Bad \in SUBSET Nat
    OBVIOUS
  <1>2. PICK m \in Bad : \A x \in Bad : m <= x
    <2> HIDE DEF Bad
    <2> QED BY <1>1, LeastNat
  <1>3. m \in 1..(n + 1) /\ m \notin S /\ m # 1
    BY <1>2
  <1>4. m - 1 \in 1..n /\ m - 1 \notin Bad
    BY <1>2, <1>3
  <1>5. (m - 1) + 1 \in S /\ (m - 1) + 1 = m
    BY <1>3, <1>4
  <1> QED BY <1>3, <1>5

(* Min of the community modules, a CHOOSE.                                  *)
LEMMA MinIs ==
  ASSUME NEW S \in SUBSET Nat, S # {}
  PROVE  Min(S) \in S /\ \A x \in S : Min(S) <= x
  BY LeastNat DEF Min

---------------------------------------------------------------------------
(* The division of a write among n channels.                               *)

Give(rest) ==
  LET a == IF rest > BlkSize THEN BlkSize ELSE rest
  IN  IF rest - a < BlkSize THEN rest ELSE a

HandedStep(n, f, rest) ==
  [k \in 1..n |->
     IF rest = 0 THEN [more |-> [j \in 1..n |-> 0], next |-> k]
     ELSE [f[rest - Give(rest)][(k % n) + 1] EXCEPT !.more[k] = @ + Give(rest)]]

HandedUpTo(n, N, f) == f = [rest \in 0..N |-> HandedStep(n, f, rest)]

(* A block is not empty (PlanAssumption).                                   *)
LEMMA BlkSizeIs == BlkSize \in Nat /\ BlkSize > 0
  BY PlanAssumption

(* Each turn hands out something, and no more than is left.                 *)
LEMMA GiveIs ==
  ASSUME NEW rest \in Nat, rest # 0
  PROVE  Give(rest) \in 1..rest /\ rest - Give(rest) \in 0..(rest - 1)
  BY BlkSizeIs DEF Give

(* A step looks only at what is left after it.                              *)
LEMMA HandedLooksBack ==
  ASSUME NEW n, NEW f, NEW g, NEW rest \in Nat, \A x \in 0..(rest - 1) : f[x] = g[x]
  PROVE  HandedStep(n, f, rest) = HandedStep(n, g, rest)
  <1>1. CASE rest = 0
    BY <1>1 DEF HandedStep
  <1>2. CASE rest # 0
    <2>1. f[rest - Give(rest)] = g[rest - Give(rest)]
      BY <1>2, GiveIs
    <2> QED BY <1>2, <2>1 DEF HandedStep
  <1> QED BY <1>1, <1>2

(* The recursion of Handed has a solution: a least argument without one     *)
(* would have one.                                                          *)
LEMMA HandedExists ==
  ASSUME NEW n
  PROVE  \A N \in Nat : \E f : HandedUpTo(n, N, f)
  <1> DEFINE Bad == {N \in Nat : ~ \E f : HandedUpTo(n, N, f)}
  <1> SUFFICES ASSUME Bad # {} PROVE FALSE
    OBVIOUS
  <1>1. PICK m \in Bad : \A x \in Bad : m <= x
    BY LeastNat
  <1>2. \E f : HandedUpTo(n, m, f)
    <2>1. CASE m = 0
      <3> DEFINE f == [rest \in 0..0 |-> HandedStep(n, <<>>, rest)]
      <3>1. \A rest \in 0..0 : HandedStep(n, <<>>, rest) = HandedStep(n, f, rest)
        BY HandedLooksBack
      <3>2. f = [rest \in 0..0 |-> HandedStep(n, f, rest)]
        BY <3>1, Zenon
      <3> QED BY <2>1, <3>2 DEF HandedUpTo
    <2>2. CASE m # 0
      <3>1. m - 1 \in Nat /\ m - 1 \notin Bad
        BY <1>1, <2>2
      <3>2. PICK g : HandedUpTo(n, m - 1, g)
        BY <3>1
      <3>3. \A rest \in 0..(m - 1) : g[rest] = HandedStep(n, g, rest)
        BY <3>2 DEF HandedUpTo
      <3> DEFINE f == [rest \in 0..m |-> IF rest = m THEN HandedStep(n, g, m) ELSE g[rest]]
      <3>4. \A rest \in 0..(m - 1) : f[rest] = g[rest]
        OBVIOUS
      <3>5. ASSUME NEW rest \in 0..m PROVE f[rest] = HandedStep(n, f, rest)
        <4>1. f[rest] = HandedStep(n, g, rest)
          BY <3>3
        <4>2. rest \in Nat /\ \A x \in 0..(rest - 1) : f[x] = g[x]
          BY <3>4
        <4> HIDE DEF f
        <4>3. HandedStep(n, f, rest) = HandedStep(n, g, rest)
          BY <4>2, HandedLooksBack
        <4> QED BY <4>1, <4>3
      <3>6. f = [rest \in 0..m |-> f[rest]]
        OBVIOUS
      <3>7. f = [rest \in 0..m |-> HandedStep(n, f, rest)]
        <4> HIDE DEF f
        <4> QED BY <3>5, <3>6, Zenon
      <3> QED BY <3>7 DEF HandedUpTo
    <2> QED BY <2>1, <2>2
  <1> QED BY <1>2

(* Handed is a solution of its recursion.                                   *)
LEMMA HandedIs ==
  ASSUME NEW n \in Nat
  PROVE  \A rest \in 0..(n * BlkSize) : Handed(n)[rest] = HandedStep(n, Handed(n), rest)
  <1>1. n * BlkSize \in Nat
    BY BlkSizeIs
  <1> DEFINE Sol(f) == HandedUpTo(n, n * BlkSize, f)
  <1>2. Handed(n) = CHOOSE f : Sol(f)
    BY SMT DEF Handed, HandedUpTo, HandedStep, Give
  <1>3. \E f : Sol(f)
    BY <1>1, HandedExists
  <1> HIDE DEF Sol
  <1>4. Sol(Handed(n))
    BY <1>2, <1>3, Zenon
  <1>5. Handed(n) = [rest \in 0..(n * BlkSize) |-> HandedStep(n, Handed(n), rest)]
    BY <1>4, Zenon DEF Sol, HandedUpTo
  <1> QED BY <1>5

(* The offsets of the parts are sums.                                      *)
SumStep(part, f, k) == IF k = 0 THEN 0 ELSE f[k - 1] + part[k]
SumUpTo(part, N, f) == f = [k \in 0..N |-> SumStep(part, f, k)]

(* So has that of Before.                                                   *)
LEMMA SumExists ==
  ASSUME NEW part
  PROVE  \A N \in Nat : \E f : SumUpTo(part, N, f)
  <1> DEFINE Bad == {N \in Nat : ~ \E f : SumUpTo(part, N, f)}
  <1> SUFFICES ASSUME Bad # {} PROVE FALSE
    OBVIOUS
  <1>1. PICK m \in Bad : \A x \in Bad : m <= x
    <2>1. Bad \in SUBSET Nat
      BY BlkSizeIs
    <2> HIDE DEF Bad
    <2> QED BY <2>1, LeastNat
  <1>2. \E f : SumUpTo(part, m, f)
    <2>1. CASE m = 0
      <3> DEFINE f == [k \in 0..0 |-> 0]
      <3>1. f = [k \in 0..0 |-> SumStep(part, f, k)]
        BY DEF SumStep
      <3> QED BY <2>1, <3>1 DEF SumUpTo
    <2>2. CASE m # 0
      <3>1. m - 1 \in Nat /\ m - 1 \notin Bad
        BY <1>1, <2>2
      <3>2. PICK g : SumUpTo(part, m - 1, g)
        BY <3>1
      <3>3. \A k \in 0..(m - 1) : g[k] = SumStep(part, g, k)
        BY <3>2 DEF SumUpTo
      <3> DEFINE f == [k \in 0..m |-> IF k = m THEN SumStep(part, g, m) ELSE g[k]]
      <3>4. \A k \in 0..(m - 1) : f[k] = g[k]
        OBVIOUS
      <3>5. ASSUME NEW k \in 0..m PROVE f[k] = SumStep(part, f, k)
        <4>1. f[k] = SumStep(part, g, k)
          BY <3>3
        <4>2. k # 0 => f[k - 1] = g[k - 1]
          BY <3>4
        <4> HIDE DEF f
        <4> QED BY <4>1, <4>2 DEF SumStep
      <3>6. f = [k \in 0..m |-> f[k]]
        OBVIOUS
      <3>7. f = [k \in 0..m |-> SumStep(part, f, k)]
        <4> HIDE DEF f
        <4> QED BY <3>5, <3>6, Zenon
      <3> QED BY <3>7 DEF SumUpTo
    <2> QED BY <2>1, <2>2
  <1> QED BY <1>2

(* Before sums the parts of the channels before the j-th.                   *)
LEMMA BeforeIs ==
  ASSUME NEW n \in Nat, NEW part \in [1..n -> Nat]
  PROVE  /\ Len(part) = n
         /\ Before(part, 1) = 0
         /\ \A j \in 1..n : Before(part, j + 1) = Before(part, j) + part[j]
         /\ \A j \in 1..(n + 1) : Before(part, j) \in Nat
  <1>1. Len(part) = n
    OBVIOUS
  <1> DEFINE Sol(f) == SumUpTo(part, n, f)
             sum == CHOOSE f : Sol(f)
  <1>2. \A j : Before(part, j) = sum[j - 1]
    BY <1>1, SMT DEF Before, SumUpTo, SumStep
  <1>3. \E f : Sol(f)
    BY SumExists
  <1>4. Sol(sum)
    <2> HIDE DEF Sol
    <2> QED BY <1>3, Zenon
  <1> HIDE DEF sum
  <1>5. \A k \in 0..n : sum[k] = SumStep(part, sum, k)
    BY <1>4 DEF SumUpTo
  <1>6. Before(part, 1) = 0
    BY <1>2, <1>5 DEF SumStep
  <1>7. ASSUME NEW j \in 1..n PROVE Before(part, j + 1) = Before(part, j) + part[j]
    <2>1. sum[j] = sum[j - 1] + part[j]
      BY <1>5 DEF SumStep
    <2>2. (j + 1) - 1 = j
      OBVIOUS
    <2> QED BY <1>2, <2>1, <2>2
  <1>8. \A j \in 1..(n + 1) : Before(part, j) \in Nat
    <2> DEFINE S == {j \in 1..(n + 1) : Before(part, j) \in Nat}
    <2>1. 1 \in S
      BY <1>6
    <2>2. \A j \in 1..n : j \in S => j + 1 \in S
      BY <1>7
    <2>3. S \in SUBSET (1..(n + 1))
      OBVIOUS
    <2>4. S = 1..(n + 1)
      <3> HIDE DEF S
      <3> QED BY <2>1, <2>2, <2>3, UpTo
    <2> QED BY <2>4
  <1> QED BY <1>1, <1>6, <1>7, <1>8

(* The parts before a later one end where it begins or earlier.             *)
LEMMA BeforeGrows ==
  ASSUME NEW n \in Nat, NEW part \in [1..n -> Nat], NEW i \in 1..n
  PROVE  \A j \in (i + 1)..(n + 1) : Before(part, i) + part[i] <= Before(part, j)
  <1> DEFINE S == {j \in 1..(n + 1) : i < j => Before(part, i) + part[i] <= Before(part, j)}
  <1>1. \A j \in 1..n : Before(part, j + 1) = Before(part, j) + part[j] /\ part[j] \in Nat
    BY BeforeIs
  <1>2. \A j \in 1..(n + 1) : Before(part, j) \in Nat
    BY BeforeIs
  <1>3. 1 \in S
    OBVIOUS
  <1>4. ASSUME NEW j \in 1..n, j \in S PROVE j + 1 \in S
    <2>1. CASE i < j
      <3>1. Before(part, i) + part[i] <= Before(part, j)
        BY <1>4, <2>1
      <3>2. Before(part, i) + part[i] <= Before(part, j + 1)
        BY <1>1, <1>2, <3>1, SMTT(40)
      <3> QED BY <3>2
    <2>2. CASE i = j
      <3>1. Before(part, i) + part[i] <= Before(part, j + 1)
        BY <1>1, <1>2, <2>2
      <3> QED BY <3>1
    <2>3. CASE i > j
      BY <2>3
    <2> QED BY <2>1, <2>2, <2>3
  <1>5. S = 1..(n + 1)
    <2>1. S \in SUBSET (1..(n + 1))
      OBVIOUS
    <2> HIDE DEF S
    <2> QED BY <1>3, <1>4, <2>1, UpTo
  <1> QED BY <1>5

(* What one channel is given more is in the sums after it.                   *)
GivenMore(n, part, more, k, d) ==
  \A j \in 1..n : more[j] = part[j] + (IF j = k THEN d ELSE 0)

LEMMA BeforeMore ==
  ASSUME NEW n \in Nat, NEW part \in [1..n -> Nat], NEW k \in 1..n, NEW d \in Nat,
         NEW more \in [1..n -> Nat], GivenMore(n, part, more, k, d)
  PROVE  Before(more, n + 1) = Before(part, n + 1) + d
  <1> DEFINE e(j) == IF j > k THEN d ELSE 0
             Claim(j) == Before(more, j) = Before(part, j) + e(j)
             S == {j \in 1..(n + 1) : Claim(j)}
  <1>1. /\ Before(part, 1) = 0 /\ \A j \in 1..(n + 1) : Before(part, j) \in Nat
        /\ \A j \in 1..n : Before(part, j + 1) = Before(part, j) + part[j]
    BY BeforeIs
  <1>2. /\ Before(more, 1) = 0
        /\ \A j \in 1..n : Before(more, j + 1) = Before(more, j) + more[j]
    BY BeforeIs
  <1>3. 1 \in S
    BY <1>1, <1>2
  <1>4. ASSUME NEW j \in 1..n, Claim(j) PROVE Claim(j + 1)
    <2> DEFINE x == IF j = k THEN d ELSE 0
    <2>1. more[j] = part[j] + x /\ part[j] \in Nat
      BY DEF GivenMore
    <2>2. e(j + 1) = e(j) + x /\ e(j) \in Nat /\ x \in Nat
      OBVIOUS
    <2>3. Before(part, j + 1) = Before(part, j) + part[j] /\ Before(part, j) \in Nat
      BY <1>1, SMTT(40)
    <2>4. Before(more, j + 1) = Before(more, j) + more[j]
      BY <1>2
    <2> HIDE DEF e, x
    <2>5. Before(more, j) = Before(part, j) + e(j)
      BY <1>4
    <2> QED BY <2>1, <2>2, <2>3, <2>4, <2>5
  <1>5. S = 1..(n + 1)
    <2>1. S \in SUBSET (1..(n + 1))
      OBVIOUS
    <2>2. \A j \in 1..n : j \in S => j + 1 \in S
      <3> HIDE DEF Claim
      <3> QED BY <1>4
    <2> HIDE DEF S
    <2> QED BY <1>3, <2>1, <2>2, UpTo
  <1>6. Claim(n + 1)
    <2> HIDE DEF Claim
    <2> QED BY <1>5, SMTT(40)
  <1> QED BY <1>6

(* The same is given to all.                                               *)
LEMMA BeforeAll ==
  ASSUME NEW n \in Nat, NEW more \in [1..n -> Nat], NEW c \in Nat,
         NEW part \in [1..n -> Nat], \A j \in 1..n : part[j] = c + more[j]
  PROVE  Before(part, n + 1) = n * c + Before(more, n + 1)
  <1> DEFINE Claim(j) == Before(part, j) = (j - 1) * c + Before(more, j)
             S == {j \in 1..(n + 1) : Claim(j)}
  <1>1. /\ Before(part, 1) = 0
        /\ \A j \in 1..n : Before(part, j + 1) = Before(part, j) + part[j]
    BY BeforeIs
  <1>2. /\ Before(more, 1) = 0 /\ \A j \in 1..(n + 1) : Before(more, j) \in Nat
        /\ \A j \in 1..n : Before(more, j + 1) = Before(more, j) + more[j]
    BY BeforeIs
  <1>3. 1 \in S
    BY <1>1, <1>2
  <1>4. ASSUME NEW j \in 1..n, Claim(j) PROVE Claim(j + 1)
    <2>1. Before(part, j + 1) = (j - 1) * c + Before(more, j) + c + more[j]
      BY <1>1, <1>2, <1>4
    <2>2. (j - 1) * c + c = ((j + 1) - 1) * c /\ (j - 1) * c \in Nat
      OBVIOUS
    <2>3. /\ Before(more, j + 1) = Before(more, j) + more[j]
          /\ Before(more, j) \in Nat /\ more[j] \in Nat
      BY <1>2
    <2> QED BY <2>1, <2>2, <2>3
  <1>5. S = 1..(n + 1)
    <2>1. S \in SUBSET (1..(n + 1))
      OBVIOUS
    <2>2. \A j \in 1..n : j \in S => j + 1 \in S
      <3> HIDE DEF Claim
      <3> QED BY <1>4
    <2> HIDE DEF S
    <2> QED BY <1>3, <2>1, <2>2, UpTo
  <1>6. Claim(n + 1)
    <2> HIDE DEF Claim
    <2> QED BY <1>5
  <1> QED BY <1>6

(* The rest is handed out to the last byte, the first of it to channel k.   *)
Handout(n, rest, k, h) ==
  /\ h \in [more : [1..n -> Nat], next : 1..n]
  /\ Before(h.more, n + 1) = rest
  /\ rest # 0 => h.more[k] > 0

LEMMA HandedOut ==
  ASSUME NEW n \in Nat \ {0}
  PROVE  \A rest \in 0..(n * BlkSize) : \A k \in 1..n : Handout(n, rest, k, Handed(n)[rest][k])
  <1> DEFINE h == Handed(n)
             Bad == {rest \in 0..(n * BlkSize) : ~ \A k \in 1..n : Handout(n, rest, k, h[rest][k])}
  <1> SUFFICES ASSUME Bad # {} PROVE FALSE
    OBVIOUS
  <1>0. n * BlkSize \in Nat
    BY BlkSizeIs
  <1>1. PICK m \in Bad : \A x \in Bad : m <= x
    <2>1. Bad \in SUBSET Nat
      BY BlkSizeIs
    <2> HIDE DEF Bad
    <2> QED BY <2>1, LeastNat
  <1>2. \A rest \in 0..(n * BlkSize) : h[rest] = HandedStep(n, h, rest)
    BY HandedIs
  <1> HIDE DEF h
  <1>3. ASSUME NEW k \in 1..n PROVE Handout(n, m, k, h[m][k])
    <2>1. CASE m = 0
      <3> DEFINE zero == [j \in 1..n |-> 0]
      <3>1. h[m][k] = [more |-> zero, next |-> k]
        BY <1>2, <2>1, <1>0 DEF HandedStep
      <3>2. zero \in [1..n -> Nat]
        OBVIOUS
      <3>3. Before(zero, n + 1) = 0
        <4> DEFINE S == {j \in 1..(n + 1) : Before(zero, j) = 0}
        <4>1. Before(zero, 1) = 0 /\ \A j \in 1..n : Before(zero, j + 1) = Before(zero, j) + 0
          BY <3>2, BeforeIs
        <4>2. S \in SUBSET (1..(n + 1)) /\ 1 \in S
          BY <4>1
        <4>4. \A j \in 1..n : j \in S => j + 1 \in S
          <5> HIDE DEF zero, Bad
          <5> QED BY <4>1
        <4>3. S = 1..(n + 1)
          <5> HIDE DEF S
          <5> QED BY <4>2, <4>4, UpTo
        <4> QED BY <4>3
      <3> HIDE DEF zero
      <3> QED BY <2>1, <3>1, <3>2, <3>3, SMTT(40) DEF Handout
    <2>2. CASE m # 0
      <3> DEFINE d == Give(m)
                 q == (k % n) + 1
                 tail == h[m - d][q]
      <3>1. d \in 1..m /\ m - d \in 0..(m - 1) /\ q \in 1..n
        BY <2>2, GiveIs
      <3>2. h[m][k] = [tail EXCEPT !.more[k] = @ + d]
        <4>1. h[m] = HandedStep(n, h, m)
          BY <1>0, <1>2
        <4> QED BY <2>2, <4>1 DEF HandedStep
      <3>3. m - d \in 0..(n * BlkSize) /\ m - d \notin Bad
        <4> HIDE DEF d
        <4> QED BY <1>0, <1>1, <3>1
      <3>4. Handout(n, m - d, q, tail)
        BY <3>1, <3>3
      <3> HIDE DEF d, q, tail
      <3>5. tail \in [more : [1..n -> Nat], next : 1..n] /\ Before(tail.more, n + 1) = m - d
        BY <3>4 DEF Handout
      <3> DEFINE old == tail.more
                 more == [old EXCEPT ![k] = @ + d]
      <3>0. old \in [1..n -> Nat] /\ Before(old, n + 1) = m - d /\ d \in Nat \ {0}
        BY <3>1, <3>5
      <3>6. h[m][k] = [more |-> more, next |-> tail.next]
        BY <3>2, <3>5
      <3> HIDE DEF old
      <3>7. more \in [1..n -> Nat] /\ more[k] > 0
        BY <3>0, SMTT(40)
      <3>8. Before(more, n + 1) = m
        <4>1. Before(more, n + 1) = Before(old, n + 1) + d
          <5>1. n \in Nat /\ d \in Nat
            BY <3>0
          <5>2. GivenMore(n, old, more, k, d)
            BY <3>0 DEF GivenMore
          <5>3. more \in [1..n -> Nat] /\ old \in [1..n -> Nat] /\ k \in 1..n
            BY <3>0, <3>7
          <5> HIDE DEF more
          <5> HIDE DEF old, d, Bad
          <5> QED BY <5>1, <5>2, <5>3, BeforeMore, SMTT(40)
        <4> HIDE DEF more
        <4> QED BY <3>0, <4>1
      <3>9. tail.next \in 1..n
        BY <3>5
      <3> HIDE DEF more, Bad
      <3> QED BY <3>6, <3>7, <3>8, <3>9 DEF Handout
    <2> QED BY <2>1, <2>2
  <1> QED BY <1>1, <1>3

(* What a write is divided into makes up the write (the assertion of         *)
(* unr_rdma_plan_create), and some channel gets a part of it.               *)
THEOREM DivisionWhole ==
  ASSUME NEW size \in Nat, NEW n \in Nat \ {0}, NEW k \in 1..n
  PROVE  /\ Divided(size, n, k).part \in [1..n -> Nat]
         /\ Divided(size, n, k).next \in 1..n
         /\ Before(Divided(size, n, k).part, n + 1) = size
         /\ size # 0 => \E j \in 1..n : Divided(size, n, k).part[j] # 0
  <1> DEFINE N == n * BlkSize
             whole == size \div N
             rest == size % N
             c == whole * BlkSize
             h == Handed(n)[rest][k]
             part == [j \in 1..n |-> c + h.more[j]]
  <1>1. N \in Nat \ {0}
    BY BlkSizeIs
  <1>2. whole \in Nat /\ rest \in 0..(N - 1) /\ size = N * whole + rest
    <2> HIDE DEF N
    <2> QED BY <1>1
  <1>3. c \in Nat /\ n * c = N * whole /\ (whole # 0 => c # 0)
    <2> HIDE DEF whole
    <2>1. c \in Nat
      BY <1>2, BlkSizeIs
    <2>2. n * (whole * BlkSize) = (n * BlkSize) * whole
      BY <1>2, BlkSizeIs
    <2>3. whole # 0 => whole * BlkSize # 0
      BY <1>2, BlkSizeIs
    <2> QED BY <2>1, <2>2, <2>3
  <1>4. Handout(n, rest, k, h)
    <2>1. rest \in 0..(n * BlkSize)
      BY <1>1, <1>2
    <2> HIDE DEF rest
    <2> QED BY <2>1, HandedOut
  <1> DEFINE more == h.more
  <1>5. /\ more \in [1..n -> Nat] /\ h.next \in 1..n
        /\ Before(more, n + 1) = rest /\ (rest # 0 => more[k] > 0)
    <2> HIDE DEF h, rest
    <2> QED BY <1>4 DEF Handout
  <1>6. Divided(size, n, k) = [part |-> part, next |-> h.next]
    BY DEF Divided
  <1>7. part \in [1..n -> Nat] /\ \A j \in 1..n : part[j] = c + more[j]
    <2> HIDE DEF c, more
    <2>1. part = [j \in 1..n |-> c + more[j]]
      BY DEF more
    <2> HIDE DEF part
    <2>2. c \in Nat /\ more \in [1..n -> Nat]
      BY <1>3, <1>5
    <2>3. \A j \in 1..n : c + more[j] \in Nat
      BY <2>2
    <2>4. \A j \in 1..n : part[j] = c + more[j]
      BY <2>1
    <2>5. part \in [1..n -> Nat]
      BY <2>1, <2>3
    <2> QED BY <2>4, <2>5
  <1> HIDE DEF part, more, c, rest, whole, N, h
  <1>8. Before(part, n + 1) = n * c + Before(more, n + 1)
    <2>1. n \in Nat /\ c \in Nat
      BY <1>3, <1>5
    <2>2. more \in [1..n -> Nat] /\ part \in [1..n -> Nat]
      BY <1>5, <1>7
    <2>3. \A j \in 1..n : part[j] = c + more[j]
      BY <1>7
    <2> QED BY <2>1, <2>2, <2>3, BeforeAll
  <1>9. Before(part, n + 1) = size
    BY <1>2, <1>3, <1>5, <1>8
  <1>10. size # 0 => part[k] # 0
    <2>1. size # 0 => whole # 0 \/ rest # 0
      BY <1>1, <1>2
    <2>2. part[k] = c + more[k] /\ more[k] \in Nat
      BY <1>5, <1>7
    <2> QED BY <1>3, <1>5, <2>1, <2>2
  <1> QED BY <1>5, <1>6, <1>7, <1>9, <1>10

---------------------------------------------------------------------------
(* The pieces of a plan.                                                   *)

GroupLen(req, i) == Len(Group(req[i].peer))
DividedAt(req, f, i) ==
  Divided(req[i].size, GroupLen(req, i), f[i - 1].next[req[i].peer \in SameNode])

PlannedStep(req, f, i) ==
  IF i = 0 THEN [pieces |-> {}, next |-> [near \in BOOLEAN |-> 1]]
  ELSE IF req[i].size = 0 THEN f[i - 1]
  ELSE [pieces |-> f[i - 1].pieces \cup PiecesOf(req, i, DividedAt(req, f, i).part),
        next |-> [f[i - 1].next EXCEPT ![req[i].peer \in SameNode] = DividedAt(req, f, i).next]]

PlannedUpTo(req, N, f) == f = [i \in 0..N |-> PlannedStep(req, f, i)]

(* The recursion over the writes of a plan has a solution.                  *)
LEMMA PlannedExists ==
  ASSUME NEW req
  PROVE  \A N \in Nat : \E f : PlannedUpTo(req, N, f)
  <1> DEFINE Bad == {N \in Nat : ~ \E f : PlannedUpTo(req, N, f)}
  <1> SUFFICES ASSUME Bad # {} PROVE FALSE
    OBVIOUS
  <1>1. PICK m \in Bad : \A x \in Bad : m <= x
    BY LeastNat
  <1>2. \E f : PlannedUpTo(req, m, f)
    <2>1. CASE m = 0
      <3> DEFINE f == [i \in 0..0 |-> PlannedStep(req, <<>>, i)]
      <3>1. \A i \in 0..0 : PlannedStep(req, <<>>, i) = PlannedStep(req, f, i)
        BY DEF PlannedStep
      <3>2. f = [i \in 0..0 |-> PlannedStep(req, f, i)]
        BY <3>1, Zenon
      <3> QED BY <2>1, <3>2 DEF PlannedUpTo
    <2>2. CASE m # 0
      <3>1. m - 1 \in Nat /\ m - 1 \notin Bad
        BY <1>1, <2>2
      <3>2. PICK g : PlannedUpTo(req, m - 1, g)
        BY <3>1
      <3>3. \A i \in 0..(m - 1) : g[i] = PlannedStep(req, g, i)
        BY <3>2 DEF PlannedUpTo
      <3> DEFINE f == [i \in 0..m |-> IF i = m THEN PlannedStep(req, g, m) ELSE g[i]]
      <3>4. \A i \in 0..(m - 1) : f[i] = g[i]
        OBVIOUS
      <3>5. ASSUME NEW i \in 0..m PROVE f[i] = PlannedStep(req, f, i)
        <4>1. f[i] = PlannedStep(req, g, i)
          BY <3>3
        <4>2. i # 0 => f[i - 1] = g[i - 1]
          BY <3>4
        <4> HIDE DEF f
        <4>3. PlannedStep(req, f, i) = PlannedStep(req, g, i)
          BY <4>2 DEF PlannedStep, DividedAt
        <4> QED BY <4>1, <4>3
      <3>6. f = [i \in 0..m |-> f[i]]
        OBVIOUS
      <3>7. f = [i \in 0..m |-> PlannedStep(req, f, i)]
        <4> HIDE DEF f
        <4> QED BY <3>5, <3>6, Zenon
      <3> QED BY <3>7 DEF PlannedUpTo
    <2> QED BY <2>1, <2>2
  <1> QED BY <1>2

(* A plan has the pieces of its writes, each divided.                       *)
Parts(req, part) ==
  \A i \in Writes(req) :
    /\ part[i] \in [1..GroupLen(req, i) -> Nat]
    /\ Before(part[i], GroupLen(req, i) + 1) = req[i].size
    /\ \E j \in 1..GroupLen(req, i) : part[i][j] # 0

(* A group of channels is a sequence without repetition.                    *)
LEMMA GroupIs ==
  ASSUME NEW r
  PROVE  /\ Len(Group(r)) \in Nat \ {0} /\ DOMAIN Group(r) = 1..Len(Group(r))
         /\ \A j, k \in DOMAIN Group(r) : Group(r)[j] = Group(r)[k] => j = k
         /\ \A q : (q \in SameNode <=> r \in SameNode) => Group(q) = Group(r)
  BY PlanAssumption DEF Group, IsInjective

(* What a batch is made of.                                                 *)
LEMMA RequestIs ==
  ASSUME NEW p \in Plan, NEW req \in Requests[p]
  PROVE  /\ Len(req) \in Nat /\ DOMAIN req = 1..Len(req)
         /\ \A i \in DOMAIN req :
              /\ req[i].peer \in Peer /\ req[i].size \in Nat /\ req[i].off \in Nat
              /\ req[i].sig \in Sig \cup {NoSig}
         /\ Writes(req) = {i \in 1..Len(req) : req[i].size # 0}
         /\ SigsOf(req) \in SUBSET Sig
  BY RequestAssumption DEF Request, Writes, SigsOf

Union(req, part, n) == UNION {PiecesOf(req, i, part[i]) : i \in {w \in Writes(req) : w <= n}}

LEMMA PlannedIs ==
  ASSUME NEW p \in Plan, NEW req \in Requests[p]
  PROVE  \E part : Parts(req, part) /\ Planned(req) = Union(req, part, Len(req))
  <1> DEFINE N == Len(req)
             W == Writes(req)
             Sol(f) == PlannedUpTo(req, N, f)
             f == CHOOSE g : Sol(g)
  <1>1. /\ N \in Nat /\ DOMAIN req = 1..N
        /\ \A i \in 1..N : req[i].peer \in Peer /\ req[i].size \in Nat
        /\ W = {i \in 1..N : req[i].size # 0}
    BY RequestIs
  <1>2. Planned(req) = f[N].pieces
    BY SMT DEF Planned, PlannedUpTo, PlannedStep, DividedAt, GroupLen
  <1>3. \A i \in 0..N : f[i] = PlannedStep(req, f, i)
    <2>1. \E g : Sol(g)
      BY <1>1, PlannedExists
    <2>2. Sol(f)
      <3> HIDE DEF Sol
      <3> QED BY <2>1, Zenon
    <2> HIDE DEF f
    <2> QED BY <2>2 DEF PlannedUpTo
  <1> HIDE DEF f
  <1> DEFINE part == [i \in W |-> DividedAt(req, f, i).part]
             len(near) == Len(IF near THEN Intra ELSE Inter)
             Claim(j) == /\ DOMAIN f[j].next = BOOLEAN
                         /\ \A near \in BOOLEAN : f[j].next[near] \in 1..len(near)
                         /\ f[j].pieces = Union(req, part, j)
             S == {j \in 1..(N + 1) : Claim(j - 1)}
  <1>4. ASSUME NEW i \in 1..N, Claim(i - 1), req[i].size # 0
        PROVE  /\ i \in W
               /\ part[i] = DividedAt(req, f, i).part
               /\ part[i] \in [1..GroupLen(req, i) -> Nat]
               /\ Before(part[i], GroupLen(req, i) + 1) = req[i].size
               /\ \E j \in 1..GroupLen(req, i) : part[i][j] # 0
               /\ DividedAt(req, f, i).next \in 1..len(req[i].peer \in SameNode)
    <2>1. i \in W /\ part[i] = DividedAt(req, f, i).part
      BY <1>1, <1>4
    <2> DEFINE near == req[i].peer \in SameNode
               n == GroupLen(req, i)
               k == f[i - 1].next[near]
    <2>2. n = len(near) /\ n \in Nat \ {0}
      BY GroupIs DEF Group, GroupLen
    <2>3. k \in 1..n
      <3>1. near \in BOOLEAN
        OBVIOUS
      <3>2. k \in 1..len(near)
        <4> HIDE DEF near, len
        <4> QED BY <1>4, <3>1, Zenon
      <3> QED BY <2>2, <3>2
    <2>4. DividedAt(req, f, i) = Divided(req[i].size, n, k)
      BY DEF DividedAt
    <2>5. req[i].size \in Nat
      BY <1>1
    <2> HIDE DEF n, k, near, len, part
    <2>6. /\ Divided(req[i].size, n, k).part \in [1..n -> Nat]
          /\ Divided(req[i].size, n, k).next \in 1..n
          /\ Before(Divided(req[i].size, n, k).part, n + 1) = req[i].size
          /\ \E j \in 1..n : Divided(req[i].size, n, k).part[j] # 0
      BY <1>4, <2>2, <2>3, <2>5, DivisionWhole
    <2>7. DividedAt(req, f, i).next \in 1..len(near)
      BY <2>2, <2>4, <2>6
    <2> QED BY <2>1, <2>4, <2>6, <2>7 DEF n, near
  <1>5. Claim(0)
    <2>1. f[0] = [pieces |-> {}, next |-> [near \in BOOLEAN |-> 1]]
      <3>1. f[0] = PlannedStep(req, f, 0)
        BY <1>1, <1>3
      <3> QED BY <3>1, Zenon DEF PlannedStep
    <2>2. Union(req, part, 0) = {}
      <3>1. {w \in Writes(req) : w <= 0} = {}
        BY <1>1
      <3> QED BY <3>1 DEF Union
    <2>3. \A near \in BOOLEAN : 1 \in 1..len(near)
      BY PlanAssumption
    <2> HIDE DEF part, len
    <2> QED BY <2>1, <2>2, <2>3
  <1>6. ASSUME NEW i \in 1..N, Claim(i - 1) PROVE Claim(i)
    <2>1. f[i] = PlannedStep(req, f, i) /\ i # 0
      BY <1>1, <1>3
    <2>2. CASE req[i].size = 0
      <3>1. f[i] = f[i - 1]
        BY <2>1, <2>2 DEF PlannedStep
      <3>2. {w \in Writes(req) : w <= i} = {w \in Writes(req) : w <= i - 1}
        BY <1>1, <2>2
      <3>3. Union(req, part, i) = Union(req, part, i - 1)
        <4> HIDE DEF part
        <4> QED BY <3>2, Zenon DEF Union
      <3> HIDE DEF part, len
      <3> QED BY <1>6, <3>1, <3>3
    <2>3. CASE req[i].size # 0
      <3> DEFINE near == req[i].peer \in SameNode
                 d == DividedAt(req, f, i)
      <3>1. i \in W /\ part[i] = d.part /\ d.next \in 1..len(near)
        <4> HIDE DEF part, len
        <4> QED BY <1>4, <1>6, <2>3
      <3>2. f[i] = [pieces |-> f[i - 1].pieces \cup PiecesOf(req, i, d.part),
                    next |-> [f[i - 1].next EXCEPT ![near] = d.next]]
        BY <2>1, <2>3 DEF PlannedStep
      <3> HIDE DEF part, len, d
      <3>3. {w \in Writes(req) : w <= i} = {w \in Writes(req) : w <= i - 1} \cup {i}
        BY <1>1, <3>1
      <3>4. Union(req, part, i) = Union(req, part, i - 1) \cup PiecesOf(req, i, part[i])
        <4> DEFINE P(w) == PiecesOf(req, w, part[w])
                   A == {w \in Writes(req) : w <= i - 1}
        <4>1. UNION {P(w) : w \in A \cup {i}} = (UNION {P(w) : w \in A}) \cup P(i)
          <5> HIDE DEF P, A
          <5> QED OBVIOUS
        <4> QED BY <3>3, <4>1 DEF Union
      <3>5. f[i].pieces = Union(req, part, i)
        BY <1>6, <3>1, <3>2, <3>4
      <3>6. f[i].next = [f[i - 1].next EXCEPT ![near] = d.next]
        BY <3>2
      <3>7. DOMAIN f[i].next = BOOLEAN
        BY <1>6, <3>6
      <3>8. ASSUME NEW b \in BOOLEAN PROVE f[i].next[b] \in 1..len(b)
        <4>1. f[i - 1].next[b] \in 1..len(b) /\ DOMAIN f[i - 1].next = BOOLEAN
          BY <1>6
        <4> HIDE DEF near
        <4>2. CASE b = near
          BY <3>1, <3>6, <4>1, <4>2, Zenon
        <4>3. CASE b # near
          BY <3>6, <4>1, <4>3, Zenon
        <4> QED BY <4>2, <4>3
      <3> QED BY <3>5, <3>7, <3>8
    <2> QED BY <2>2, <2>3
  <1>7. \A j \in 0..N : Claim(j)
    <2> HIDE DEF Claim
    <2>1. 1 \in S
      BY <1>1, <1>5
    <2>2. \A j \in 1..N : j \in S => j + 1 \in S
      <3> TAKE j \in 1..N
      <3>1. (j + 1) - 1 = j
        BY <1>1
      <3> QED BY <1>1, <1>6, <3>1
    <2>3. S \in SUBSET (1..(N + 1))
      OBVIOUS
    <2>4. S = 1..(N + 1)
      <3> HIDE DEF S, N
      <3> QED BY <1>1, <2>1, <2>2, <2>3, UpTo
    <2>5. ASSUME NEW j \in 0..N PROVE Claim(j)
      <3>1. j + 1 \in 1..(N + 1) /\ (j + 1) - 1 = j
        BY <1>1
      <3>2. j + 1 \in S
        BY <2>4, <3>1
      <3> QED BY <3>1, <3>2
    <2> QED BY <2>5
  <1>8. Parts(req, part)
    <2> SUFFICES ASSUME NEW i \in W
                 PROVE  /\ part[i] \in [1..GroupLen(req, i) -> Nat]
                        /\ Before(part[i], GroupLen(req, i) + 1) = req[i].size
                        /\ \E j \in 1..GroupLen(req, i) : part[i][j] # 0
      BY DEF Parts
    <2>1. i \in 1..N /\ req[i].size # 0 /\ i - 1 \in 0..N
      BY <1>1
    <2> HIDE DEF Claim, part
    <2> QED BY <1>4, <1>7, <2>1
  <1>9. Planned(req) = Union(req, part, N)
    <2>1. Claim(N)
      <3> HIDE DEF Claim
      <3> QED BY <1>1, <1>7
    <2> QED BY <1>2, <2>1
  <1> HIDE DEF part
  <1> QED BY <1>8, <1>9

---------------------------------------------------------------------------
(* The increments of a batch.                                              *)

Batched(s, B) ==
  /\ IsFiniteSet(B)
  /\ \A y \in B : y.sig = s /\ y.add \in Int
  /\ Cardinality(Firsts(B)) = NumEvent[s]
  /\ \A x \in Firsts(B) : x.add = -1 + Cardinality(OthersOf(B, x)) * High
  /\ \A x, y \in Firsts(B) : x.i = y.i => x = y
  /\ \A y \in B : \E x \in Firsts(B) : x.i = y.i

SigWrites(req, s) == {i \in Writes(req) : req[i].sig = s}
Some(part, i) == {j \in DOMAIN part[i] : part[i][j] # 0}
PartFlight(p, req, part, i, j) ==
  [plan |-> p, sig |-> req[i].sig, add |-> SigAdd(part[i], j), i |-> i,
   channel |-> Group(req[i].peer)[j]]

(* A channel of verbs is given whole writes only, which count -1.            *)
LEMMA CountsAll ==
  ASSUME WholeOnVerbs, NEW req, NEW part, Parts(req, part),
         NEW i \in Writes(req), NEW j \in Some(part, i), Group(req[i].peer)[j] \in Verbs
  PROVE  SigAdd(part[i], j) = -1
  <1> DEFINE g == Group(req[i].peer)
  <1>1. DOMAIN part[i] = 1..GroupLen(req, i) /\ j \in DOMAIN part[i]
    BY DEF Parts, Some
  <1>2. j \in DOMAIN g /\ g \in {Inter, Intra}
    BY <1>1, GroupIs DEF GroupLen, Group
  <1>3. Len(g) = 1
    BY <1>2 DEF WholeOnVerbs, Range
  <1>4. DOMAIN part[i] = {1} /\ j = 1
    BY <1>1, <1>3 DEF GroupLen
  <1>5. {k \in DOMAIN part[i] : part[i][k] # 0} = {1}
    BY <1>4 DEF Some
  <1>6. Min({1}) = 1
    BY MinIs
  <1>7. Cardinality({1}) = 1 /\ High \in Nat
    BY FS_Singleton, PlanAssumption
  <1>8. SigAdd(part[i], j) = IF j = Min({1}) THEN -1 + (Cardinality({1}) - 1) * High ELSE -High
    BY <1>5, Zenon DEF SigAdd
  <1>9. SigAdd(part[i], j) = -1 + (1 - 1) * High
    BY <1>4, <1>6, <1>7, <1>8
  <1> QED BY <1>7, <1>9

(* What Batched says holds of the pieces a plan has for a signal.           *)
LEMMA BatchIs ==
  ASSUME WholeOnVerbs, NEW p \in Plan, NEW req \in Requests[p], NEW s \in SigsOf(req)
  PROVE  Batched(s, Batch(p, req, s))
  <1> DEFINE B == Batch(p, req, s)
             I == SigWrites(req, s)
  <1>1. PICK part : Parts(req, part) /\ Planned(req) = Union(req, part, Len(req))
    BY PlannedIs
  <1> DEFINE fl(i, j) == PartFlight(p, req, part, i, j)
             some(i) == Some(part, i)
             first(i) == fl(i, Min(some(i)))
  <1>2. /\ Len(req) \in Nat /\ Writes(req) = {i \in 1..Len(req) : req[i].size # 0}
        /\ s \in Sig
    BY RequestIs
  <1>3. I \in SUBSET (1..Len(req)) /\ I \in SUBSET Writes(req) /\ IsFiniteSet(I)
    <2>1. I \in SUBSET (1..Len(req)) /\ I \in SUBSET Writes(req)
      BY <1>2 DEF SigWrites
    <2>2. IsFiniteSet(1..Len(req))
      BY <1>2, FS_Interval
    <2> HIDE DEF I
    <2> QED BY <2>1, <2>2, FS_Subset
  <1>4. Cardinality(I) = NumEvent[s] /\ High \in Nat /\ High > 1
    <2>1. Cardinality(I) = NumEvent[s] /\ High \in Nat
      BY PlanAssumption DEF SigWrites
    <2>2. NumEvent[s] \in 1..(High - 1)
      BY <1>2, PlanAssumption
    <2> QED BY <2>1, <2>2
  <1>5. ASSUME NEW i \in I
        PROVE  /\ some(i) \in SUBSET (1..GroupLen(req, i)) /\ some(i) # {}
               /\ some(i) = {j \in DOMAIN part[i] : part[i][j] # 0}
               /\ IsFiniteSet(some(i)) /\ Cardinality(some(i)) \in Nat \ {0}
               /\ Min(some(i)) \in some(i)
               /\ \A j, k \in some(i) : Group(req[i].peer)[j] = Group(req[i].peer)[k] => j = k
    <2>1. /\ part[i] \in [1..GroupLen(req, i) -> Nat]
          /\ \E j \in 1..GroupLen(req, i) : part[i][j] # 0
      BY <1>1, <1>3 DEF Parts
    <2>2. some(i) \in SUBSET (1..GroupLen(req, i)) /\ some(i) # {}
      BY <2>1 DEF Some
    <2>3. GroupLen(req, i) \in Nat \ {0} /\ DOMAIN Group(req[i].peer) = 1..GroupLen(req, i)
      BY GroupIs DEF GroupLen
    <2>4. IsFiniteSet(some(i)) /\ Cardinality(some(i)) \in Nat \ {0}
      <3>1. IsFiniteSet(1..GroupLen(req, i))
        BY <2>3, FS_Interval
      <3> HIDE DEF some
      <3>2. IsFiniteSet(some(i))
        BY <2>2, <3>1, FS_Subset
      <3> QED BY <2>2, <3>2, FS_CardinalityType, FS_EmptySet
    <2>5. Min(some(i)) \in some(i)
      <3>1. some(i) \in SUBSET Nat
        BY <2>2, <2>3
      <3> HIDE DEF some
      <3> QED BY <2>2, <3>1, MinIs
    <2>6. \A j, k \in some(i) : Group(req[i].peer)[j] = Group(req[i].peer)[k] => j = k
      <3> HIDE DEF some
      <3> QED BY <2>2, <2>3, GroupIs
    <2> QED BY <2>2, <2>4, <2>5, <2>6 DEF Some
  <1>6. B = UNION {{fl(i, j) : j \in some(i)} : i \in I}
    <2>1. ASSUME NEW i \in I, NEW j \in some(i) PROVE fl(i, j) \in B
      <3> DEFINE x == [i |-> i, peer |-> req[i].peer, mem |-> MemAt(req[i].peer, j, req[i].mem),
                       channel |-> Group(req[i].peer)[j],
                       off |-> req[i].off + Before(part[i], j), size |-> part[i][j],
                       sig |-> req[i].sig, add |-> SigAdd(part[i], j)]
      <3>1. x \in PiecesOf(req, i, part[i])
        BY <1>5 DEF PiecesOf
      <3>2. i \in {w \in Writes(req) : w <= Len(req)}
        BY <1>2, <1>3
      <3>3. x \in Planned(req)
        BY <1>1, <3>1, <3>2 DEF Union
      <3>4. x.sig = s /\ Flight(p, x) = fl(i, j)
        <4>1. Counted(x) = SigAdd(part[i], j)
          BY <1>1, <1>3, CountsAll DEF Counted
        <4> QED BY <4>1 DEF SigWrites, Flight, PartFlight
      <3> HIDE DEF x
      <3>5. Flight(p, x) \in B
        BY <3>3, <3>4 DEF Batch
      <3> HIDE DEF fl
      <3> QED BY <3>4, <3>5
    <2>2. ASSUME NEW y \in B PROVE \E i \in I : \E j \in some(i) : y = fl(i, j)
      <3>1. PICK x \in Planned(req) : x.sig = s /\ y = Flight(p, x)
        BY DEF Batch
      <3>2. PICK i \in Writes(req) : x \in PiecesOf(req, i, part[i])
        BY <1>1, <3>1 DEF Union
      <3>3. PICK j \in some(i) :
              x = [i |-> i, peer |-> req[i].peer, mem |-> MemAt(req[i].peer, j, req[i].mem),
                   channel |-> Group(req[i].peer)[j],
                   off |-> req[i].off + Before(part[i], j), size |-> part[i][j],
                   sig |-> req[i].sig, add |-> SigAdd(part[i], j)]
        BY <3>2 DEF PiecesOf, Some
      <3>4. i \in I /\ y = fl(i, j)
        <4>1. Counted(x) = SigAdd(part[i], j)
          BY <1>1, <3>3, CountsAll DEF Counted
        <4> QED BY <3>1, <3>2, <3>3, <4>1 DEF SigWrites, Flight, PartFlight
      <3> QED BY <3>4
    <2> HIDE DEF B, I, fl, some
    <2> QED BY <2>1, <2>2
  <1>7. ASSUME NEW i \in I, NEW j \in some(i)
        PROVE  /\ fl(i, j).i = i /\ fl(i, j).sig = s /\ fl(i, j).add \in Int
               /\ \A k \in some(i) : fl(i, j) = fl(i, k) => j = k
               /\ j = Min(some(i)) => fl(i, j).add = -1 + (Cardinality(some(i)) - 1) * High
               /\ First(fl(i, j)) <=> j = Min(some(i))
    <2>1. /\ fl(i, j).i = i /\ fl(i, j).sig = s /\ fl(i, j).add = SigAdd(part[i], j)
          /\ \A k \in some(i) : fl(i, j) = fl(i, k) =>
               Group(req[i].peer)[j] = Group(req[i].peer)[k]
      BY DEF PartFlight, SigWrites
    <2>2. \A k \in some(i) : fl(i, j) = fl(i, k) => j = k
      <3> HIDE DEF fl, some
      <3> QED BY <1>5, <2>1
    <2>3. SigAdd(part[i], j) =
            IF j = Min(some(i)) THEN -1 + (Cardinality(some(i)) - 1) * High ELSE -High
      BY <1>5 DEF SigAdd
    <2> DEFINE c == Cardinality(some(i))
    <2>4. c \in Nat \ {0}
      BY <1>5
    <2> HIDE DEF c
    <2>5. -1 + (c - 1) * High \in Int /\ -High \in Int /\ -1 + (c - 1) * High # -High
      BY <1>4, <2>4
    <2> HIDE DEF fl, some
    <2>6. fl(i, j).add \in Int
      BY <2>1, <2>3, <2>5 DEF c
    <2>7. First(fl(i, j)) <=> j = Min(some(i))
      BY <2>1, <2>3, <2>5 DEF First, c
    <2> QED BY <2>1, <2>2, <2>3, <2>6, <2>7
  <1> HIDE DEF fl, some, B, I
  <1>8. IsFiniteSet(B)
    <2> DEFINE T == [i \in I |-> {fl(i, j) : j \in some(i)}]
               R == {T[i] : i \in I}
    <2>1. ASSUME NEW i \in I PROVE IsFiniteSet(T[i])
      <3> DEFINE g == [j \in some(i) |-> fl(i, j)]
      <3>1. g \in Surjection(some(i), T[i])
        BY DEF Surjection
      <3> HIDE DEF g, T
      <3> QED BY <1>5, <3>1, FS_Surjection
    <2>2. T \in Surjection(I, R)
      BY DEF Surjection
    <2>3. IsFiniteSet(R)
      <3> HIDE DEF T, R
      <3> QED BY <1>3, <2>2, FS_Surjection
    <2>4. B = UNION R
      BY <1>6
    <2>5. \A X \in R : IsFiniteSet(X)
      BY <2>1
    <2> HIDE DEF R
    <2> QED BY <2>3, <2>4, <2>5, FS_UNION
  <1>9. \A y \in B : \E i \in I : \E j \in some(i) : y = fl(i, j)
    BY <1>6
  <1>10. \A i \in I : \A j \in some(i) : fl(i, j) \in B
    BY <1>6
  <1>11. \A y \in B : y.sig = s /\ y.add \in Int
    BY <1>7, <1>9
  <1>12. ASSUME NEW i \in I
         PROVE  first(i) \in Firsts(B) /\ first(i).i = i
                /\ first(i).add = -1 + (Cardinality(some(i)) - 1) * High
    BY <1>5, <1>7, <1>10 DEF Firsts
  <1>13. ASSUME NEW x \in Firsts(B) PROVE x.i \in I /\ x = first(x.i)
    <2>1. x \in B /\ First(x)
      BY DEF Firsts
    <2>2. PICK i \in I : \E j \in some(i) : x = fl(i, j)
      BY <1>9, <2>1
    <2>3. PICK j \in some(i) : x = fl(i, j)
      BY <2>2
    <2> QED BY <1>7, <2>1, <2>3
  <1>14. \A x, y \in Firsts(B) : x.i = y.i => x = y
    <2> HIDE DEF first
    <2> QED BY <1>13
  <1>15. \A y \in B : \E x \in Firsts(B) : x.i = y.i
    <2> HIDE DEF first
    <2> QED BY <1>7, <1>9, <1>12
  <1>16. Cardinality(Firsts(B)) = NumEvent[s]
    <2> DEFINE g == [i \in I |-> first(i)]
    <2>1. g \in Surjection(I, Firsts(B))
      <3> HIDE DEF first
      <3> QED BY <1>12, <1>13 DEF Surjection
    <2>2. g \in Injection(I, Firsts(B))
      <3> HIDE DEF first
      <3> QED BY <1>12 DEF Injection, IsInjective
    <2> HIDE DEF g
    <2>3. Cardinality(Firsts(B)) = Cardinality(I)
      BY <1>3, <2>1, <2>2, FS_Surjection
    <2> QED BY <1>4, <2>3
  <1>17. ASSUME NEW x \in Firsts(B) PROVE x.add = -1 + Cardinality(OthersOf(B, x)) * High
    <2> DEFINE i == x.i
               J == some(i) \ {Min(some(i))}
               g == [j \in J |-> fl(i, j)]
    <2>1. i \in I /\ x = first(i)
      BY <1>13
    <2>2. IsFiniteSet(J) /\ Cardinality(J) = Cardinality(some(i)) - 1
      BY <1>5, <2>1, FS_RemoveElement
    <2>3. \A j \in J : g[j] \in OthersOf(B, x)
      <3> HIDE DEF first
      <3> QED BY <1>7, <1>10, <2>1 DEF OthersOf
    <2>4. ASSUME NEW y \in OthersOf(B, x) PROVE \E j \in J : g[j] = y
      <3>1. y \in B /\ ~First(y) /\ y.i = i
        BY DEF OthersOf
      <3>2. PICK w \in I : \E j \in some(w) : y = fl(w, j)
        BY <1>9, <3>1
      <3>3. PICK j \in some(w) : y = fl(w, j)
        BY <3>2
      <3>4. w = i /\ j # Min(some(w))
        BY <1>7, <3>1, <3>3
      <3> QED BY <3>3, <3>4
    <2>5. g \in Surjection(J, OthersOf(B, x))
      BY <2>3, <2>4 DEF Surjection
    <2>6. g \in Injection(J, OthersOf(B, x))
      <3>1. \A j, k \in J : g[j] = g[k] => j = k
        BY <1>7, <2>1
      <3> QED BY <2>3, <3>1 DEF Injection, IsInjective
    <2> HIDE DEF g, J
    <2>7. Cardinality(OthersOf(B, x)) = Cardinality(J)
      BY <2>2, <2>5, <2>6, FS_Surjection
    <2>8. first(i).add = -1 + (Cardinality(some(i)) - 1) * High
      BY <1>12, <2>1
    <2> HIDE DEF first, i
    <2> QED BY <2>1, <2>2, <2>7, <2>8
  <1> QED BY <1>8, <1>11, <1>14, <1>15, <1>16, <1>17 DEF Batched, B

---------------------------------------------------------------------------
(* A signal whose counter is in balance.                                   *)

(* All the sets counted are finite.                                         *)
LEMMA Finite ==
  ASSUME NEW s \in Sig, NEW B, NEW A \in SUBSET B, Batched(s, B)
  PROVE  /\ IsFiniteSet(A) /\ IsFiniteSet(Firsts(A)) /\ IsFiniteSet(Others(A))
         /\ IsFiniteSet(Deferred(B, A)) /\ IsFiniteSet(Firsts(B))
         /\ \A x : IsFiniteSet(OthersOf(B, x)) /\ Cardinality(OthersOf(B, x)) \in Nat
         /\ Cardinality(Firsts(A)) \in Nat /\ Cardinality(Others(A)) \in Nat
         /\ Cardinality(Deferred(B, A)) \in Nat
  <1>1. IsFiniteSet(B)
    BY DEF Batched
  <1>2. /\ Firsts(A) \in SUBSET B /\ Others(A) \in SUBSET B /\ Deferred(B, A) \in SUBSET B
        /\ Firsts(B) \in SUBSET B /\ \A x : OthersOf(B, x) \in SUBSET B
    BY DEF Firsts, Others, Deferred, OthersOf
  <1>3. \A S \in SUBSET B : IsFiniteSet(S) /\ Cardinality(S) \in Nat
    BY <1>1, FS_Subset, FS_CardinalityType
  <1> QED BY <1>2, <1>3


(* The counter gets to zero when nothing of the batch is in the air.        *)
LEMMA ZeroMeansLanded ==
  ASSUME NEW s \in Sig, NEW B, NEW A \in SUBSET B, Batched(s, B)
  PROVE  Due(B, A) = 0 <=> A = {}
  <1> DEFINE a == Cardinality(Firsts(A))
             b == Cardinality(Others(A))
             c == Cardinality(Deferred(B, A))
  <1>1. /\ a \in Nat /\ b \in Nat /\ c \in Nat
        /\ IsFiniteSet(Firsts(A)) /\ IsFiniteSet(Others(A)) /\ IsFiniteSet(Deferred(B, A))
        /\ IsFiniteSet(Firsts(B))
    BY Finite
  <1>2. High \in Nat /\ High > 1 /\ NumEvent[s] \in Nat /\ NumEvent[s] < High
    BY PlanAssumption
  <1>3. a < High
    <2>1. Firsts(A) \in SUBSET Firsts(B) /\ Cardinality(Firsts(B)) = NumEvent[s]
      BY DEF Firsts, Batched
    <2>2. a <= Cardinality(Firsts(B))
      BY <1>1, <2>1, FS_Subset
    <2> HIDE DEF a
    <2> QED BY <1>1, <1>2, <2>1, <2>2
  <1>4. Due(B, A) = a + High * (b - c)
    BY DEF Due
  <1>5. a = 0 <=> Firsts(A) = {}
    BY <1>1, FS_EmptySet
  <1>6. b = 0 <=> Others(A) = {}
    BY <1>1, FS_EmptySet
  <1>7. Firsts(A) = {} => Deferred(B, A) = {}
    BY DEF Firsts, Deferred
  <1>8. Deferred(B, A) = {} => c = 0
    BY <1>1, FS_EmptySet
  <1>9. A = Firsts(A) \cup Others(A)
    BY DEF Firsts, Others
  <1>10. ASSUME a + High * (b - c) = 0 PROVE a = 0 /\ (c = 0 => b = 0)
    <2> HIDE DEF a, b, c
    <2> DEFINE d == b - c
    <2>1. d \in Int
      BY <1>1
    <2>2. a + High * d = 0
      BY <1>10
    <2>3. (c = 0 => b = d) /\ (c = 0 => d >= 0)
      BY <1>1
    <2> HIDE DEF d
    <2>4. d >= 1 => High * d >= High
      BY <1>2, <2>1
    <2>5. d <= -1 => High * d <= -High
      BY <1>2, <2>1
    <2>6. d = 0
      BY <1>1, <1>2, <1>3, <2>1, <2>2, <2>4, <2>5
    <2> QED BY <1>1, <1>2, <2>2, <2>3, <2>6
  <1>11. ASSUME a = 0, b = 0, c = 0 PROVE a + High * (b - c) = 0
    <2> HIDE DEF a, b, c
    <2> QED BY <1>2, <1>11
  <1> HIDE DEF a, b, c
  <1>12. Due(B, A) = 0 => A = {}
    BY <1>4, <1>5, <1>6, <1>7, <1>8, <1>9, <1>10
  <1>13. A = {} => Firsts(A) = {} /\ Others(A) = {}
    BY <1>9
  <1> QED BY <1>4, <1>5, <1>6, <1>7, <1>8, <1>11, <1>12, <1>13

(* All of it is in the air.                                                *)
LEMMA AllAloft ==
  ASSUME NEW s \in Sig, NEW B, Batched(s, B)
  PROVE  Due(B, B) = NumEvent[s]
  <1>1. Deferred(B, B) = Others(B)
    BY DEF Deferred, Others, Firsts, Batched
  <1>2. Cardinality(Others(B)) \in Nat
    BY Finite
  <1> DEFINE b == Cardinality(Others(B))
  <1>3. Due(B, B) = Cardinality(Firsts(B)) + High * (b - b)
    BY <1>1 DEF Due
  <1>4. Cardinality(Firsts(B)) = NumEvent[s] /\ NumEvent[s] \in Nat /\ High \in Nat
    BY PlanAssumption DEF Batched
  <1>5. b \in Nat
    BY <1>2
  <1> HIDE DEF b
  <1>6. b - b = 0
    BY <1>5
  <1>7. High * 0 = 0
    BY <1>4
  <1> QED BY <1>3, <1>4, <1>6, <1>7

(* The first piece of a write lands.                                       *)
LEMMA LandFirst ==
  ASSUME NEW s \in Sig, NEW B, NEW A \in SUBSET B, Batched(s, B), NEW x \in A, First(x)
  PROVE  Due(B, A \ {x}) = Due(B, A) + x.add
  <1> DEFINE D == A \ {x}
             a == Cardinality(Firsts(A))
             b == Cardinality(Others(A))
             c == Cardinality(Deferred(B, A))
             e == Cardinality(OthersOf(B, x))
  <1>1. /\ a \in Nat /\ b \in Nat /\ c \in Nat /\ e \in Nat
        /\ IsFiniteSet(Firsts(A)) /\ IsFiniteSet(Deferred(B, A)) /\ IsFiniteSet(OthersOf(B, x))
    BY Finite
  <1>2. x \in Firsts(B) /\ x \in Firsts(A)
    BY DEF Firsts
  <1>3. x.add = -1 + e * High
    BY <1>2 DEF Batched
  <1>4. Firsts(D) = Firsts(A) \ {x} /\ Others(D) = Others(A)
    BY DEF Firsts, Others
  <1>5. Deferred(B, D) = Deferred(B, A) \ OthersOf(B, x)
    <2>1. ASSUME NEW y \in A, First(y), y.i = x.i PROVE y = x
      BY <1>2, <2>1 DEF Batched, Firsts
    <2> QED BY <2>1 DEF Deferred, OthersOf
  <1>6. OthersOf(B, x) \in SUBSET Deferred(B, A)
    BY DEF OthersOf, Deferred
  <1>7. Cardinality(Firsts(D)) = a - 1
    <2>1. Cardinality(Firsts(A) \ {x}) = Cardinality(Firsts(A)) - 1
      BY <1>1, <1>2, FS_RemoveElement
    <2> QED BY <1>4, <2>1
  <1>8. Cardinality(Deferred(B, D)) = c - e
    <2>1. Deferred(B, A) \cap OthersOf(B, x) = OthersOf(B, x)
      BY <1>6
    <2>2. Cardinality(Deferred(B, A) \ OthersOf(B, x)) = c - Cardinality(Deferred(B, A) \cap OthersOf(B, x))
      BY <1>1, FS_Difference
    <2> QED BY <1>5, <2>1, <2>2
  <1>9. Due(B, D) = (a - 1) + High * (b - (c - e)) /\ Due(B, A) = a + High * (b - c)
    BY <1>4, <1>7, <1>8 DEF Due
  <1>10. High \in Nat
    BY PlanAssumption
  <1> HIDE DEF a, b, c, e, D
  <1> DEFINE d == b - c
  <1>11. d \in Int /\ b - (c - e) = d + e
    BY <1>1
  <1>12. High * (d + e) = High * d + e * High
    <2> HIDE DEF d
    <2> QED BY <1>1, <1>10, <1>11
  <1>13. High * d \in Int /\ e * High \in Int
    <2> HIDE DEF d
    <2> QED BY <1>1, <1>10, <1>11
  <1>14. Due(B, D) = (a - 1) + (High * d + e * High) /\ Due(B, A) = a + High * d
    BY <1>9, <1>11, <1>12
  <1> HIDE DEF d
  <1>15. Due(B, D) = Due(B, A) + x.add
    <2> DEFINE g == High * d
               h == e * High
    <2>1. g \in Int /\ h \in Int /\ Due(B, D) = (a - 1) + (g + h) /\ Due(B, A) = a + g
          /\ x.add = -1 + h
      BY <1>3, <1>13, <1>14
    <2> HIDE DEF g, h
    <2> QED BY <1>1, <2>1
  <1> QED BY <1>15 DEF D

(* Another piece lands.                                                    *)
LEMMA LandOther ==
  ASSUME NEW s \in Sig, NEW B, NEW A \in SUBSET B, Batched(s, B), NEW x \in A, ~First(x)
  PROVE  Due(B, A \ {x}) = Due(B, A) + x.add
  <1> DEFINE D == A \ {x}
             a == Cardinality(Firsts(A))
             b == Cardinality(Others(A))
             c == Cardinality(Deferred(B, A))
  <1>1. a \in Nat /\ b \in Nat /\ c \in Nat /\ IsFiniteSet(Others(A))
    BY Finite
  <1>2. High \in Nat
    BY PlanAssumption
  <1>3. x.add = -High
    BY DEF First
  <1>4. Firsts(D) = Firsts(A) /\ Others(D) = Others(A) \ {x} /\ x \in Others(A)
    BY DEF Firsts, Others
  <1>5. Deferred(B, D) = Deferred(B, A)
    BY DEF Deferred
  <1>6. Cardinality(Others(D)) = b - 1
    BY <1>1, <1>4, FS_RemoveElement
  <1>7. Due(B, D) = a + High * ((b - 1) - c) /\ Due(B, A) = a + High * (b - c)
    BY <1>4, <1>5, <1>6 DEF Due
  <1> HIDE DEF a, b, c, D
  <1> DEFINE d == b - c
  <1>8. d \in Int /\ (b - 1) - c = d - 1
    BY <1>1
  <1>9. High * (d - 1) = High * d - High /\ High * d \in Int
    <2> HIDE DEF d
    <2> QED BY <1>2, <1>8
  <1>10. Due(B, D) = a + (High * d - High) /\ Due(B, A) = a + High * d
    BY <1>7, <1>8, <1>9
  <1> HIDE DEF d
  <1>11. Due(B, D) = Due(B, A) + x.add
    <2> DEFINE g == High * d
    <2>1. g \in Int /\ Due(B, D) = a + (g - High) /\ Due(B, A) = a + g
      BY <1>9, <1>10
    <2> HIDE DEF g
    <2> QED BY <1>1, <1>2, <1>3, <2>1
  <1> QED BY <1>11 DEF D

---------------------------------------------------------------------------
(* What the steps do to the counters.                                      *)

(* A signal has an event, and fewer than the lower half of its counter can  *)
(* hold.                                                                    *)
LEMMA SignalIs ==
  /\ \A s \in Sig : NumEvent[s] \in Nat /\ NumEvent[s] # 0 /\ NumEvent[s] < High
  /\ NoSig \notin Sig /\ None \notin Sig
  BY RequestAssumption, PlanAssumption

(* The pieces of a plan carry the signals of its writes.                    *)
LEMMA SigsPlanned ==
  ASSUME NEW p \in Plan, NEW req \in Requests[p]
  PROVE  {x.sig : x \in Planned(req)} \ {NoSig} = SigsOf(req)
  <1>1. PICK part : Parts(req, part) /\ Planned(req) = Union(req, part, Len(req))
    BY PlannedIs
  <1>2. Writes(req) = {i \in 1..Len(req) : req[i].size # 0} /\ Len(req) \in Nat
    BY RequestIs
  <1>3. ASSUME NEW x \in Planned(req) PROVE \E i \in Writes(req) : x.sig = req[i].sig
    <2>1. PICK i \in Writes(req) : x \in PiecesOf(req, i, part[i])
      BY <1>1 DEF Union
    <2> QED BY <2>1 DEF PiecesOf
  <1>4. ASSUME NEW i \in Writes(req) PROVE \E x \in Planned(req) : x.sig = req[i].sig
    <2>1. PICK j \in 1..GroupLen(req, i) : part[i][j] # 0
      BY <1>1 DEF Parts
    <2>2. j \in DOMAIN part[i]
      BY <1>1 DEF Parts
    <2> DEFINE x == [i |-> i, peer |-> req[i].peer, mem |-> MemAt(req[i].peer, j, req[i].mem),
                     channel |-> Group(req[i].peer)[j],
                     off |-> req[i].off + Before(part[i], j), size |-> part[i][j],
                     sig |-> req[i].sig, add |-> SigAdd(part[i], j)]
    <2>3. x \in PiecesOf(req, i, part[i]) /\ x.sig = req[i].sig
      BY <2>1, <2>2 DEF PiecesOf
    <2> HIDE DEF x
    <2>4. i \in {w \in Writes(req) : w <= Len(req)}
      BY <1>2
    <2> QED BY <1>1, <2>3, <2>4 DEF Union
  <1> QED BY <1>3, <1>4 DEF SigsOf

(* What is in the air for a signal when p was launched.                     *)
LEMMA LaunchedIs ==
  ASSUME NEW p \in Plan, NEW req \in Requests[p], Launch(p, Planned(req))
  PROVE  /\ used' = used \cup SigsOf(req)
         /\ \A s \in Sig : Aloft(s)' = Aloft(s) \cup Batch(p, req, s)
         /\ \A s \in Sig \ SigsOf(req) : Batch(p, req, s) = {}
         /\ \A x \in flying' : x \in flying \/ x.sig \in SigsOf(req) \cup {NoSig}
  <1>1. {x.sig : x \in Planned(req)} \ {NoSig} = SigsOf(req)
    BY SigsPlanned
  <1>2. /\ flying' = flying \cup {Flight(p, x) : x \in Planned(req)}
        /\ used' = used \cup ({x.sig : x \in Planned(req)} \ {NoSig})
    BY DEF Launch, Flight
  <1>3. \A x : Flight(p, x).sig = x.sig
    BY DEF Flight
  <1>4. \A s \in Sig : Aloft(s)' = Aloft(s) \cup Batch(p, req, s)
    BY <1>2, <1>3 DEF Aloft, Batch
  <1>5. \A s \in Sig \ SigsOf(req) : Batch(p, req, s) = {}
    BY <1>1, SignalIs DEF Batch
  <1>6. \A x \in flying' : x \in flying \/ x.sig \in SigsOf(req) \cup {NoSig}
    BY <1>1, <1>2, <1>3
  <1> QED BY <1>1, <1>2, <1>4, <1>5, <1>6

(* A signal in use is in balance with the batch that uses it.               *)
LEMMA BalanceNow ==
  ASSUME WholeOnVerbs, NEW s \in Sig, Balanced, s \in used
  PROVE  \E B : /\ \E p \in Plan : \E req \in Requests[p] : s \in SigsOf(req) /\ B = Batch(p, req, s)
                /\ Batched(s, B) /\ Aloft(s) \in SUBSET B /\ counter[s] = Due(B, Aloft(s))
  <1>1. PICK p \in Plan : \E req \in Requests[p] :
          s \in SigsOf(req) /\ Balance(s, Batch(p, req, s))
    BY DEF Balanced
  <1>2. PICK req \in Requests[p] : s \in SigsOf(req) /\ Balance(s, Batch(p, req, s))
    BY <1>1
  <1>3. Batched(s, Batch(p, req, s))
    BY <1>2, BatchIs
  <1> QED BY <1>2, <1>3 DEF Balance

(* A balanced counter is zero exactly when all has landed.                  *)
LEMMA Triggered ==
  ASSUME WholeOnVerbs, Balanced
  PROVE  TriggeredWhenAllLanded
  <1> SUFFICES ASSUME NEW s \in Sig
               PROVE  counter[s] = 0 <=> s \in used /\ Aloft(s) = {}
    BY DEF TriggeredWhenAllLanded
  <1>1. CASE s \in used
    <2>1. PICK B : /\ Batched(s, B) /\ Aloft(s) \in SUBSET B /\ counter[s] = Due(B, Aloft(s))
      BY <1>1, BalanceNow
    <2> QED BY <1>1, <2>1, ZeroMeansLanded
  <1>2. CASE s \notin used
    BY <1>2, SignalIs DEF Balanced
  <1> QED BY <1>1, <1>2

(* A launch puts whole batches in the air, for signals that had nothing     *)
(* there.                                                                   *)
LEMMA LaunchKeeps ==
  ASSUME WholeOnVerbs, NEW p \in Plan, NEW req \in Requests[p], Launch(p, Planned(req)),
         Balanced, counter' = counter, SigsOf(req) \cap used = {}
  PROVE  Balanced'
  <1>1. /\ used' = used \cup SigsOf(req)
        /\ \A s \in Sig : Aloft(s)' = Aloft(s) \cup Batch(p, req, s)
        /\ \A s \in Sig \ SigsOf(req) : Batch(p, req, s) = {}
    BY LaunchedIs
  <1> SUFFICES ASSUME NEW s \in Sig
               PROVE  IF s \in used'
                        THEN \E q \in Plan : \E other \in Requests[q] :
                               s \in SigsOf(other) /\ Balance(s, Batch(q, other, s))'
                        ELSE Aloft(s)' = {} /\ counter'[s] = NumEvent[s]
    BY DEF Balanced
  <1>2. CASE s \in SigsOf(req)
    <2> DEFINE B == Batch(p, req, s)
    <2>1. Aloft(s) = {} /\ counter[s] = NumEvent[s]
      BY <1>2 DEF Balanced
    <2>2. Aloft(s)' = B
      BY <1>1, <2>1
    <2>3. Due(B, B) = NumEvent[s]
      BY <1>2, BatchIs, AllAloft
    <2>4. Balance(s, B)'
      BY <2>1, <2>2, <2>3 DEF Balance
    <2> QED BY <1>1, <1>2, <2>4
  <1>3. CASE s \notin SigsOf(req)
    <2>1. Aloft(s)' = Aloft(s) /\ (s \in used' <=> s \in used)
      BY <1>1, <1>3
    <2>2. \A B : Balance(s, B) => Balance(s, B)'
      BY <2>1 DEF Balance
    <2> QED BY <2>1, <2>2 DEF Balanced
  <1> QED BY <1>2, <1>3

(* A signal a piece in the air carries is in use and is not at zero.        *)
LEMMA AloftMeansUsed ==
  ASSUME WholeOnVerbs, NEW x \in flying, NEW s \in Sig, x.sig = s, Balanced
  PROVE  s \in used /\ counter[s] # 0 /\ x.add \in Int
  <1>1. x \in Aloft(s)
    BY DEF Aloft
  <1>2. s \in used
    BY <1>1 DEF Balanced
  <1>3. PICK B : /\ Batched(s, B) /\ Aloft(s) \in SUBSET B /\ counter[s] = Due(B, Aloft(s))
    BY <1>2, BalanceNow
  <1> QED BY <1>1, <1>2, <1>3, ZeroMeansLanded DEF Batched

(* Whichever piece lands next, its signal stays in balance.                 *)
LEMMA LandKeeps ==
  ASSUME WholeOnVerbs, NEW x \in flying, NEW s \in Sig, x.sig = s, Balanced, Typed,
         flying' = flying \ {x}, used' = used,
         counter' = [counter EXCEPT ![s] = @ + x.add]
  PROVE  Balanced'
  <1> SUFFICES ASSUME NEW z \in Sig
               PROVE  IF z \in used
                        THEN \E q \in Plan : \E other \in Requests[q] :
                               z \in SigsOf(other) /\ Balance(z, Batch(q, other, z))'
                        ELSE Aloft(z)' = {} /\ counter'[z] = NumEvent[z]
    BY DEF Balanced
  <1>0. counter \in [Sig -> Int]
    BY DEF Typed
  <1>1. CASE z = s
    <2>1. PICK B : /\ \E p \in Plan : \E req \in Requests[p] :
                        s \in SigsOf(req) /\ B = Batch(p, req, s)
                   /\ Batched(s, B) /\ Aloft(s) \in SUBSET B /\ counter[s] = Due(B, Aloft(s))
      BY AloftMeansUsed, BalanceNow
    <2>2. Aloft(s)' = Aloft(s) \ {x} /\ x \in Aloft(s)
      BY DEF Aloft
    <2>3. counter'[s] = counter[s] + x.add
      BY <1>0
    <2>4. Due(B, Aloft(s) \ {x}) = Due(B, Aloft(s)) + x.add
      BY <2>1, <2>2, LandFirst, LandOther
    <2>5. Balance(s, B)'
      BY <2>1, <2>2, <2>3, <2>4 DEF Balance
    <2> QED BY <1>1, <2>1, <2>5, AloftMeansUsed
  <1>2. CASE z # s
    <2>1. Aloft(z)' = Aloft(z)
      BY <1>2 DEF Aloft
    <2>2. counter'[z] = counter[z]
      BY <1>0, <1>2
    <2>3. \A B : Balance(z, B) => Balance(z, B)'
      BY <2>1, <2>2 DEF Balance
    <2> QED BY <2>1, <2>2, <2>3 DEF Balanced
  <1> QED BY <1>1, <1>2

(* A triggered signal has nothing in the air, so it can be armed again.     *)
LEMMA ArmKeeps ==
  ASSUME WholeOnVerbs, NEW s \in Sig, counter[s] = 0, Balanced, Typed,
         flying' = flying, used' = used \ {s},
         counter' = [counter EXCEPT ![s] = NumEvent[s]]
  PROVE  Balanced'
  <1> SUFFICES ASSUME NEW z \in Sig
               PROVE  IF z \in used'
                        THEN \E q \in Plan : \E other \in Requests[q] :
                               z \in SigsOf(other) /\ Balance(z, Batch(q, other, z))'
                        ELSE Aloft(z)' = {} /\ counter'[z] = NumEvent[z]
    BY DEF Balanced
  <1>0. counter \in [Sig -> Int] /\ Aloft(z)' = Aloft(z)
    BY DEF Typed, Aloft
  <1>1. CASE z = s
    <2>1. Aloft(s) = {}
      BY Triggered DEF TriggeredWhenAllLanded
    <2> QED BY <1>0, <1>1, <2>1
  <1>2. CASE z # s
    <2>1. counter'[z] = counter[z] /\ (z \in used' <=> z \in used)
      BY <1>0, <1>2
    <2>2. \A B : Balance(z, B) => Balance(z, B)'
      BY <1>0, <2>1 DEF Balance
    <2> QED BY <1>0, <2>1, <2>2 DEF Balanced
  <1> QED BY <1>1, <1>2

---------------------------------------------------------------------------
(* Rings of a pool.                                                        *)

InRing(n, h, t) ==
  {i \in 0..(n - 1) : IF h <= t THEN i >= h /\ i < t ELSE i >= h \/ i < t}
After(n, i) == (i + 1) % n

(* The next place of a ring.                                                *)
LEMMA AfterIs ==
  ASSUME NEW n \in Nat \ {0}, NEW i \in 0..(n - 1)
  PROVE  After(n, i) = (IF i = n - 1 THEN 0 ELSE i + 1) /\ After(n, i) \in 0..(n - 1)
  <1>1. CASE i = n - 1
    <2>1. (i + 1) % n = n % n
      BY <1>1
    <2>2. n % n = 0
      OBVIOUS
    <2> QED BY <1>1, <2>1, <2>2 DEF After
  <1>2. CASE i # n - 1
    <2>1. i + 1 \in 0..(n - 1)
      BY <1>2
    <2>2. (i + 1) % n = i + 1
      BY <2>1
    <2> QED BY <1>2, <2>1, <2>2 DEF After
  <1> QED BY <1>1, <1>2

(* A push adds the place of the tail, unless it would make the ring look    *)
(* empty.                                                                   *)
LEMMA RingPush ==
  ASSUME NEW n \in Nat \ {0}, NEW h \in 0..(n - 1), NEW t \in 0..(n - 1), After(n, t) # h
  PROVE  InRing(n, h, After(n, t)) = InRing(n, h, t) \cup {t} /\ t \notin InRing(n, h, t)
  <1> DEFINE a == After(n, t)
  <1>1. a = (IF t = n - 1 THEN 0 ELSE t + 1) /\ a # h
    BY AfterIs
  <1> HIDE DEF a
  <1>2. CASE t = n - 1
    <2>1. a = 0 /\ h > 0
      BY <1>1, <1>2
    <2> QED BY <1>2, <2>1 DEF InRing, a
  <1>3. CASE t # n - 1
    <2>1. a = t + 1
      BY <1>1, <1>3
    <2>2. h <= t \/ h > t + 1
      BY <1>1, <2>1
    <2>3. InRing(n, h, a) = InRing(n, h, t) \cup {t}
      BY <1>3, <2>1, <2>2 DEF InRing
    <2> QED BY <2>3 DEF InRing, a
  <1> QED BY <1>2, <1>3

(* A pop removes the place of the head.                                     *)
LEMMA RingPop ==
  ASSUME NEW n \in Nat \ {0}, NEW h \in 0..(n - 1), NEW t \in 0..(n - 1), h # t
  PROVE  InRing(n, After(n, h), t) = InRing(n, h, t) \ {h} /\ h \in InRing(n, h, t)
  BY AfterIs DEF InRing

(* When the tail is just before the head, every other place is taken.       *)
LEMMA RingFull ==
  ASSUME NEW n \in Nat \ {0}, NEW h \in 0..(n - 1), NEW t \in 0..(n - 1), After(n, t) = h
  PROVE  InRing(n, h, t) = (0..(n - 1)) \ {t}
  BY AfterIs DEF InRing

(* A ring has one place more than its pool has signals.                     *)
LEMMA PoolIs ==
  ASSUME NEW r \in Peer
  PROVE  /\ IsFiniteSet(PoolOf(r)) /\ Cardinality(PoolOf(r)) \in Nat
         /\ QueueSize(r) \in Nat \ {0} /\ QueueSize(r) = Cardinality(PoolOf(r)) + 1
  <1>1. IsFiniteSet(PoolOf(r))
    BY RequestAssumption, FS_Subset DEF PoolOf
  <1>2. Cardinality(PoolOf(r)) \in Nat
    BY <1>1, FS_CardinalityType
  <1> QED BY <1>1, <1>2 DEF QueueSize

(* The places in use, from head and tail.                                   *)
LEMMA PlacesIs ==
  ASSUME NEW r \in Peer, queue[r] \in QueueType(r)
  PROVE  Places(r) = InRing(QueueSize(r), queue[r].head, queue[r].tail)
  BY DEF Places, InRing, QueueType

(* A pool has room for each of its signals: one that is not queued can be.  *)
LEMMA RingHasRoom ==
  ASSUME NEW r \in Peer, NEW s \in PoolOf(r), queue[r] \in QueueType(r),
         \A i \in Places(r) :
           /\ queue[r].buff[i] \in PoolOf(r) \ {s}
           /\ \A j \in Places(r) : queue[r].buff[j] = queue[r].buff[i] => j = i
  PROVE  After(QueueSize(r), queue[r].tail) # queue[r].head
  <1> DEFINE n == QueueSize(r)
             h == queue[r].head
             t == queue[r].tail
             P == Places(r)
             S == PoolOf(r) \ {s}
             g == [i \in P |-> queue[r].buff[i]]
  <1> SUFFICES ASSUME After(n, t) = h PROVE FALSE
    OBVIOUS
  <1>1. n \in Nat \ {0} /\ n = Cardinality(PoolOf(r)) + 1 /\ IsFiniteSet(PoolOf(r))
        /\ Cardinality(PoolOf(r)) \in Nat
    BY PoolIs
  <1>2. h \in 0..(n - 1) /\ t \in 0..(n - 1)
    BY DEF QueueType
  <1>3. P = InRing(n, h, t)
    BY PlacesIs
  <1>4. P = (0..(n - 1)) \ {t}
    <2> HIDE DEF n, h, t, P
    <2> QED BY <1>1, <1>2, <1>3, RingFull
  <1>5. IsFiniteSet(P) /\ Cardinality(P) = n - 1
    <2> HIDE DEF n, h, t, P
    <2>1. 0 \in Int /\ n - 1 \in Int
      BY <1>1
    <2>2. IsFiniteSet(0..(n - 1)) /\ Cardinality(0..(n - 1)) = n
      BY <1>1, <2>1, FS_Interval
    <2> DEFINE I == 0..(n - 1)
    <2>3. IsFiniteSet(I \ {t}) /\ Cardinality(I \ {t}) = Cardinality(I) - 1
      <3>1. IsFiniteSet(I) /\ t \in I
        BY <1>2, <2>2
      <3> HIDE DEF I
      <3> QED BY <3>1, FS_RemoveElement
    <2> QED BY <1>4, <2>2, <2>3
  <1>6. IsFiniteSet(S) /\ Cardinality(S) = Cardinality(PoolOf(r)) - 1
    BY <1>1, FS_RemoveElement
  <1>7. g \in Injection(P, S)
    BY DEF Injection, IsInjective
  <1> HIDE DEF g, P, S
  <1>8. Cardinality(P) <= Cardinality(S)
    BY <1>6, <1>7, FS_Injection
  <1> HIDE DEF n
  <1> QED BY <1>1, <1>5, <1>6, <1>8

---------------------------------------------------------------------------
(* What the steps do to the queues.                                        *)

(* A step that leaves the queues and the set of triggered signals alone.    *)
LEMMA SameRings ==
  ASSUME Typed, Rings, queue' = queue, got' = got,
         \A s \in Sig : counter'[s] = 0 <=> counter[s] = 0
  PROVE  Rings'
  <1>1. \A r \in Peer : Places(r)' = Places(r)
    BY DEF Places
  <1>2. \A r \in Peer : PoolOf(r) \in SUBSET Sig
    BY DEF PoolOf
  <1>3. \A s \in Sig : SigHome[s] \in Peer
    BY PlanAssumption
  <1>4. \A t \in Thread : got[t] # None => got[t] \in Sig
    BY DEF Typed
  <1> QED BY <1>1, <1>2, <1>3, <1>4 DEF Rings

(* A signal whose counter has just got to zero is queued.                   *)
LEMMA PushKeeps ==
  ASSUME Typed, Rings, NEW s \in Sig, counter[s] # 0, counter'[s] = 0,
         \A z \in Sig \ {s} : counter'[z] = counter[z],
         queue' = [queue EXCEPT ![SigHome[s]] = Pushed(SigHome[s], s)], got' = got
  PROVE  /\ Rings'
         /\ DOMAIN queue' = Peer /\ \A r \in Peer : queue'[r] \in QueueType(r)
  <1> DEFINE r == SigHome[s]
             n == QueueSize(r)
             h == queue[r].head
             t == queue[r].tail
             new == Pushed(r, s)
  <1>1. r \in Peer /\ s \in PoolOf(r)
    BY PlanAssumption DEF PoolOf
  <1>2. /\ DOMAIN queue = Peer /\ \A q \in Peer : queue[q] \in QueueType(q)
        /\ \A u \in Thread : got[u] # None => got[u] \in Sig
    BY DEF Typed
  <1>3. n \in Nat \ {0}
    BY <1>1, PoolIs
  <1>4. h \in 0..(n - 1) /\ t \in 0..(n - 1) /\ queue[r].buff \in [0..(n - 1) -> Sig \cup {None}]
    BY <1>1, <1>2 DEF QueueType
  <1>5. After(n, t) # h
    <2>1. \A i \in Places(r) :
            /\ queue[r].buff[i] \in PoolOf(r) \ {s}
            /\ \A j \in Places(r) : queue[r].buff[j] = queue[r].buff[i] => j = i
      BY <1>1 DEF Rings
    <2> HIDE DEF r
    <2> QED BY <1>1, <1>2, <2>1, RingHasRoom
  <1>6. /\ new.head = h /\ new.tail = After(n, t) /\ new.buff = [queue[r].buff EXCEPT ![t] = s]
        /\ new \in QueueType(r)
    <2> DEFINE q == queue[r]
               a == After(n, t)
               b == [q.buff EXCEPT ![t] = s]
    <2>1. q \in [head : 0..(n - 1), tail : 0..(n - 1), buff : [0..(n - 1) -> Sig \cup {None}]]
      BY <1>1, <1>2 DEF QueueType
    <2>2. q = [head |-> h, tail |-> t, buff |-> q.buff]
      BY <2>1
    <2>3. a \in 0..(n - 1)
      BY <1>3, <1>4, AfterIs
    <2>4. b \in [0..(n - 1) -> Sig \cup {None}]
      BY <1>4
    <2>5. new = [q EXCEPT !.buff = b, !.tail = a]
      BY DEF Pushed, NextPlace, After
    <2> DEFINE c == q.buff
    <2>7. q = [head |-> h, tail |-> t, buff |-> c]
      BY <2>2
    <2> HIDE DEF q, a, b, c, h, t, new
    <2>8. new = [[head |-> h, tail |-> t, buff |-> c] EXCEPT !.buff = b, !.tail = a]
      BY <2>5, <2>7, Zenon
    <2>6. new = [head |-> h, tail |-> a, buff |-> b]
      BY <2>8, Zenon
    <2> QED BY <1>4, <2>3, <2>4, <2>6 DEF QueueType, a, b, q
  <1>7. queue'[r] = new /\ \A q \in Peer \ {r} : queue'[q] = queue[q]
    BY <1>1, <1>2
  <1>8. DOMAIN queue' = Peer /\ \A q \in Peer : queue'[q] \in QueueType(q)
    BY <1>2, <1>6, <1>7
  <1>9. t \notin Places(r) /\ Places(r)' = Places(r) \cup {t}
    <2>1. Places(r) = InRing(n, h, t)
      BY <1>1, <1>2, PlacesIs
    <2>2. Places(r)' = InRing(n, h, After(n, t))
      <3>1. Places(r)' = InRing(n, queue'[r].head, queue'[r].tail)
        BY <1>1, <1>8 DEF Places, InRing, QueueType
      <3> QED BY <1>6, <1>7, <3>1
    <2> HIDE DEF n, h, t
    <2> QED BY <1>3, <1>4, <1>5, <2>1, <2>2, RingPush
  <1>10. \A q \in Peer \ {r} : Places(q)' = Places(q)
    BY <1>7 DEF Places
  <1>11. /\ queue'[r].buff[t] = s
         /\ \A i \in Places(r) : queue'[r].buff[i] = queue[r].buff[i]
    <2>1. Places(r) \in SUBSET (0..(n - 1))
      BY <1>4 DEF Places
    <2> DEFINE b == queue[r].buff
               P == Places(r)
               c == queue'[r].buff
    <2>2. b \in [0..(n - 1) -> Sig \cup {None}] /\ t \in 0..(n - 1) /\ t \notin P
          /\ P \in SUBSET (0..(n - 1))
      BY <1>4, <1>9, <2>1
    <2>3. c = [b EXCEPT ![t] = s]
      BY <1>6, <1>7
    <2> HIDE DEF new, r, n, h, t, b, P, c
    <2>4. c[t] = s /\ \A i \in P : c[i] = b[i]
      BY <2>2, <2>3
    <2> QED BY <2>4 DEF P, b, c
  <1>12. \A q \in Peer : PoolOf(q) \in SUBSET Sig
    BY DEF PoolOf
  <1>13. \A z \in Sig : SigHome[z] \in Peer
    BY PlanAssumption
  <1> HIDE DEF r, new, n, h, t
  <1>14. ASSUME NEW q \in Peer, NEW i \in Places(q)'
         PROVE  /\ queue'[q].buff[i] \in PoolOf(q) /\ counter'[queue'[q].buff[i]] = 0
                /\ \A j \in Places(q)' : queue'[q].buff[j] = queue'[q].buff[i] => j = i
                /\ \A u \in Thread : got[u] # queue'[q].buff[i]
    <2>1. CASE q # r
      <3>1. Places(q)' = Places(q) /\ queue'[q] = queue[q]
        BY <1>7, <1>10, <2>1
      <3>2. queue[q].buff[i] \in PoolOf(q) /\ queue[q].buff[i] \in Sig /\ counter[queue[q].buff[i]] = 0
        BY <1>12, <3>1 DEF Rings
      <3> QED BY <3>1, <3>2 DEF Rings
    <2>2. CASE q = r /\ i = t
      <3>1. \A j \in Places(r) : queue[r].buff[j] # s
        BY <1>1 DEF Rings
      <3>2. \A u \in Thread : got[u] # s
        BY SignalIs DEF Rings
      <3> QED BY <1>1, <1>9, <1>11, <2>2, <3>1, <3>2
    <2>3. CASE q = r /\ i # t
      <3>1. i \in Places(r) /\ queue'[r].buff[i] = queue[r].buff[i]
        BY <1>9, <1>11, <2>3
      <3>2. /\ queue[r].buff[i] \in PoolOf(r) /\ counter[queue[r].buff[i]] = 0
            /\ \A j \in Places(r) : queue[r].buff[j] = queue[r].buff[i] => j = i
            /\ \A u \in Thread : got[u] # queue[r].buff[i]
        BY <1>1, <3>1 DEF Rings
      <3>3. queue[r].buff[i] # s /\ queue[r].buff[i] \in Sig
        BY <1>1, <1>12, <3>2
      <3> QED BY <1>9, <1>11, <2>3, <3>1, <3>2, <3>3
    <2> QED BY <2>1, <2>2, <2>3
  <1>15. ASSUME NEW u \in Thread, got[u] # None
         PROVE  counter'[got[u]] = 0 /\ \A w \in Thread : got[w] = got[u] => w = u
    BY <1>2, <1>15 DEF Rings
  <1>16. ASSUME NEW z \in Sig, counter'[z] = 0
         PROVE  \/ \E i \in Places(SigHome[z])' : queue'[SigHome[z]].buff[i] = z
                \/ \E u \in Thread : got[u] = z
    <2>1. CASE z = s
      BY <1>9, <1>11, <2>1 DEF r
    <2>2. CASE z # s
      <3>1. counter[z] = 0 /\ SigHome[z] \in Peer
        BY <1>13, <1>16, <2>2
      <3>2. \/ \E i \in Places(SigHome[z]) : queue[SigHome[z]].buff[i] = z
            \/ \E u \in Thread : got[u] = z
        BY <3>1 DEF Rings
      <3>3. CASE SigHome[z] = r
        BY <1>9, <1>11, <3>2, <3>3
      <3>4. CASE SigHome[z] # r
        BY <1>7, <1>10, <3>1, <3>2, <3>4
      <3> QED BY <3>3, <3>4
    <2> QED BY <2>1, <2>2
  <1> QED BY <1>8, <1>14, <1>15, <1>16 DEF Rings

(* A thread that has the lock takes the oldest signal.                      *)
LEMMA PopKeeps ==
  ASSUME Typed, Rings, NEW t \in Thread, got[t] = None,
         NEW r \in Peer, r = ThreadHome[t], ~IsEmpty(queue[r]), counter' = counter,
         queue' = [queue EXCEPT ![r].head = NextPlace(r, @)],
         got' = [got EXCEPT ![t] = queue[r].buff[queue[r].head]]
  PROVE  /\ Rings' /\ got'[t] \in PoolOf(r)
         /\ DOMAIN queue' = Peer /\ \A q \in Peer : queue'[q] \in QueueType(q)
  <1> DEFINE n == QueueSize(r)
             h == queue[r].head
             e == queue[r].tail
             v == queue[r].buff[h]
             new == [queue[r] EXCEPT !.head = After(n, h)]
  <1>1. /\ DOMAIN queue = Peer /\ \A q \in Peer : queue[q] \in QueueType(q)
        /\ got \in [Thread -> Sig \cup {None}]
    BY DEF Typed
  <1>2. n \in Nat \ {0}
    BY PoolIs
  <1>3. h \in 0..(n - 1) /\ e \in 0..(n - 1) /\ h # e
    BY <1>1 DEF QueueType, IsEmpty
  <1>4. After(n, h) \in 0..(n - 1)
    BY <1>2, <1>3, AfterIs
  <1>5. new.head = After(n, h) /\ new.tail = e /\ new.buff = queue[r].buff /\ new \in QueueType(r)
    <2> DEFINE a == After(n, h)
    <2>1. queue[r] \in [head : 0..(n - 1), tail : 0..(n - 1), buff : [0..(n - 1) -> Sig \cup {None}]]
      BY <1>1 DEF QueueType
    <2>2. a \in 0..(n - 1) /\ new = [queue[r] EXCEPT !.head = a]
      BY <1>4
    <2> HIDE DEF a, new
    <2>3. new.head = a /\ new.tail = e /\ new.buff = queue[r].buff
      BY <2>1, <2>2
    <2>4. new \in [head : 0..(n - 1), tail : 0..(n - 1), buff : [0..(n - 1) -> Sig \cup {None}]]
      BY <2>1, <2>2
    <2> QED BY <2>3, <2>4 DEF QueueType, a
  <1>6. queue'[r] = new /\ \A q \in Peer \ {r} : queue'[q] = queue[q]
    BY <1>1 DEF NextPlace, After
  <1>7. DOMAIN queue' = Peer /\ \A q \in Peer : queue'[q] \in QueueType(q)
    BY <1>1, <1>5, <1>6
  <1>8. h \in Places(r) /\ Places(r)' = Places(r) \ {h}
    <2>1. Places(r) = InRing(n, h, e)
      BY <1>1, PlacesIs
    <2>2. Places(r)' = InRing(n, After(n, h), e)
      <3>1. Places(r)' = InRing(n, queue'[r].head, queue'[r].tail)
        BY <1>7 DEF Places, InRing, QueueType
      <3> QED BY <1>5, <1>6, <3>1
    <2> HIDE DEF n, h, e
    <2> QED BY <1>2, <1>3, <2>1, <2>2, RingPop
  <1>9. \A q \in Peer \ {r} : Places(q)' = Places(q)
    BY <1>6 DEF Places
  <1>10. queue'[r].buff = queue[r].buff
    BY <1>5, <1>6
  <1>11. v \in PoolOf(r) /\ counter[v] = 0 /\ \A u \in Thread : got[u] # v
    BY <1>8 DEF Rings
  <1>12. \A q \in Peer : PoolOf(q) \in SUBSET Sig
    BY DEF PoolOf
  <1>13. got'[t] = v /\ \A u \in Thread \ {t} : got'[u] = got[u]
    BY <1>1
  <1> HIDE DEF new, n, h, e, v
  <1>14. ASSUME NEW q \in Peer, NEW i \in Places(q)'
         PROVE  /\ queue'[q].buff[i] \in PoolOf(q) /\ counter[queue'[q].buff[i]] = 0
                /\ \A j \in Places(q)' : queue'[q].buff[j] = queue'[q].buff[i] => j = i
                /\ \A u \in Thread : got'[u] # queue'[q].buff[i]
    <2>1. i \in Places(q) /\ Places(q)' \in SUBSET Places(q) /\ queue'[q].buff = queue[q].buff
      BY <1>6, <1>8, <1>9, <1>10
    <2>2. /\ queue[q].buff[i] \in PoolOf(q) /\ counter[queue[q].buff[i]] = 0
          /\ \A j \in Places(q) : queue[q].buff[j] = queue[q].buff[i] => j = i
          /\ \A u \in Thread : got[u] # queue[q].buff[i]
      BY <2>1 DEF Rings
    <2>3. queue[q].buff[i] # v
      <3>1. CASE q = r
        BY <1>8, <2>2, <3>1 DEF v
      <3>2. CASE q # r
        BY <1>11, <2>2, <3>2 DEF PoolOf
      <3> QED BY <3>1, <3>2
    <2> QED BY <1>13, <2>1, <2>2, <2>3
  <1>15. ASSUME NEW u \in Thread, got'[u] # None
         PROVE  counter[got'[u]] = 0 /\ \A w \in Thread : got'[w] = got'[u] => w = u
    <2>1. CASE u = t
      BY <1>11, <1>13, <2>1
    <2>2. CASE u # t
      <3>1. /\ counter[got[u]] = 0
            /\ \A w \in Thread : got[w] = got[u] => w = u
        BY <1>13, <1>15, <2>2 DEF Rings
      <3> QED BY <1>11, <1>13, <2>2, <3>1
    <2> QED BY <2>1, <2>2
  <1>16. ASSUME NEW z \in Sig, counter[z] = 0
         PROVE  \/ \E i \in Places(SigHome[z])' : queue'[SigHome[z]].buff[i] = z
                \/ \E u \in Thread : got'[u] = z
    <2>1. SigHome[z] \in Peer
      BY PlanAssumption
    <2>2. \/ \E i \in Places(SigHome[z]) : queue[SigHome[z]].buff[i] = z
          \/ \E u \in Thread : got[u] = z
      BY <1>16 DEF Rings
    <2>3. ASSUME NEW u \in Thread, got[u] = z PROVE got'[u] = z
      BY <1>13, <2>3, SignalIs
    <2>4. ASSUME NEW i \in Places(SigHome[z]), queue[SigHome[z]].buff[i] = z, z # v
          PROVE  i \in Places(SigHome[z])' /\ queue'[SigHome[z]].buff[i] = z
      <3>1. CASE SigHome[z] = r
        BY <1>8, <1>10, <2>4, <3>1 DEF v
      <3>2. CASE SigHome[z] # r
        BY <1>6, <1>9, <2>1, <2>4, <3>2
      <3> QED BY <3>1, <3>2
    <2> QED BY <1>13, <2>2, <2>3, <2>4
  <1>17. Rings'
    <2>1. \A q \in Peer : \A i \in Places(q)' :
            /\ queue'[q].buff[i] \in PoolOf(q) /\ counter'[queue'[q].buff[i]] = 0
            /\ \A j \in Places(q)' : queue'[q].buff[j] = queue'[q].buff[i] => j = i
            /\ \A u \in Thread : got'[u] # queue'[q].buff[i]
      BY <1>14, Zenon
    <2>2. \A u \in Thread : got'[u] # None =>
            counter'[got'[u]] = 0 /\ \A w \in Thread : got'[w] = got'[u] => w = u
      BY <1>15, Zenon
    <2>3. \A z \in Sig : counter'[z] = 0 =>
            \/ \E i \in Places(SigHome[z])' : queue'[SigHome[z]].buff[i] = z
            \/ \E u \in Thread : got'[u] = z
      BY <1>16, Zenon
    <2> QED BY <2>1, <2>2, <2>3, Zenon DEF Rings
  <1> QED BY <1>7, <1>11, <1>13, <1>17, Zenon

(* A thread sets the counter of the signal it has popped anew.              *)
LEMMA ArmRings ==
  ASSUME Typed, Rings, NEW t \in Thread, got[t] # None, queue' = queue,
         counter' = [counter EXCEPT ![got[t]] = NumEvent[got[t]]],
         got' = [got EXCEPT ![t] = None]
  PROVE  Rings'
  <1> DEFINE s == got[t]
  <1>1. /\ s \in Sig /\ counter \in [Sig -> Int] /\ got \in [Thread -> Sig \cup {None}]
    BY DEF Typed
  <1>2. \A r \in Peer : Places(r)' = Places(r)
    BY DEF Places
  <1>3. \A r \in Peer : PoolOf(r) \in SUBSET Sig
    BY DEF PoolOf
  <1>4. counter'[s] # 0 /\ \A z \in Sig \ {s} : counter'[z] = counter[z]
    BY <1>1, SignalIs
  <1>5. got'[t] = None /\ \A u \in Thread \ {t} : got'[u] = got[u] /\ got[u] # s
    BY <1>1 DEF Rings
  <1> HIDE DEF s
  <1>6. ASSUME NEW r \in Peer, NEW i \in Places(r)
        PROVE  /\ queue[r].buff[i] \in PoolOf(r) /\ counter'[queue[r].buff[i]] = 0
               /\ \A j \in Places(r) : queue[r].buff[j] = queue[r].buff[i] => j = i
               /\ \A u \in Thread : got'[u] # queue[r].buff[i]
    <2>1. /\ queue[r].buff[i] \in PoolOf(r) /\ counter[queue[r].buff[i]] = 0
          /\ \A j \in Places(r) : queue[r].buff[j] = queue[r].buff[i] => j = i
          /\ \A u \in Thread : got[u] # queue[r].buff[i]
      BY DEF Rings
    <2> QED BY <1>3, <1>4, <1>5, <2>1, SignalIs DEF s
  <1>7. ASSUME NEW u \in Thread, got'[u] # None
        PROVE  counter'[got'[u]] = 0 /\ \A w \in Thread : got'[w] = got'[u] => w = u
    <2>1. u # t /\ got'[u] = got[u] /\ got[u] # s /\ got[u] \in Sig
      BY <1>1, <1>5, <1>7
    <2>2. counter[got[u]] = 0 /\ \A w \in Thread : got[w] = got[u] => w = u
      BY <1>7, <2>1 DEF Rings
    <2> QED BY <1>4, <1>5, <1>7, <2>1, <2>2
  <1>8. ASSUME NEW z \in Sig, counter'[z] = 0
        PROVE  \/ \E i \in Places(SigHome[z]) : queue[SigHome[z]].buff[i] = z
               \/ \E u \in Thread : got'[u] = z
    <2>1. z # s /\ counter[z] = 0
      BY <1>4, <1>8
    <2> QED BY <1>5, <2>1 DEF Rings, s
  <1>9. \A z \in Sig : SigHome[z] \in Peer
    BY PlanAssumption
  <1> QED BY <1>2, <1>6, <1>7, <1>8, <1>9 DEF Rings

---------------------------------------------------------------------------
(* The invariant.                                                          *)

IInv == Balanced /\ Kept /\ Typed /\ Rings

(* The invariant holds at first.                                            *)
LEMMA InitIInv == Init => IInv
  <1> SUFFICES ASSUME Init PROVE IInv
    OBVIOUS
  <1>1. Balanced
    BY DEF Init, Balanced, Aloft
  <1>2. Kept
    BY DEF Init, Kept
  <1>3. \A r \in Peer : EmptyQueue(r) \in QueueType(r)
    BY PoolIs DEF EmptyQueue, QueueType
  <1>4. Typed
    BY <1>3, PlanAssumption DEF Init, Typed
  <1>5. \A s \in Sig : counter[s] # 0
    BY SignalIs DEF Init
  <1>6. ASSUME NEW r \in Peer PROVE Places(r) = {}
    <2>1. queue[r].head = 0 /\ queue[r].tail = 0
      BY DEF Init, EmptyQueue
    <2>2. DOMAIN queue[r].buff = 0..(QueueSize(r) - 1) /\ QueueSize(r) \in Nat
      BY PoolIs DEF Init, EmptyQueue
    <2> QED BY <2>1, <2>2 DEF Places
  <1>7. Rings
    BY <1>5, <1>6 DEF Init, Rings
  <1> QED BY <1>1, <1>2, <1>4, <1>7 DEF IInv

(* The caller's arrays may change, but not what a plan was asked for.       *)
LEMMA KeptNext ==
  ASSUME Kept, [Next]_vars
  PROVE  Kept'
  <1>1. ASSUME NEW p \in Plan, Create(p) PROVE Kept'
    <2>1. /\ args \in [Plan -> UNION {Requests[q] : q \in Plan}]
          /\ status \in [Plan -> 0..2] /\ DOMAIN asked = Plan
          /\ DOMAIN para = Plan /\ DOMAIN pieces = Plan /\ args[p] \in Requests[p]
      BY DEF Kept
    <2>2. args' = args /\ asked' = [asked EXCEPT ![p] = args[p]]
      BY <1>1 DEF Create
    <2>3. CASE MemKnown(args[p])
      <3>1. /\ status' = [status EXCEPT ![p] = 2]
            /\ pieces' = [pieces EXCEPT ![p] = Planned(args[p])] /\ para' = para
        BY <1>1, <2>3 DEF Create
      <3> QED BY <2>1, <2>2, <3>1 DEF Kept
    <2>4. CASE ~MemKnown(args[p])
      <3>1. /\ status' = [status EXCEPT ![p] = 1]
            /\ para' = [para EXCEPT ![p] = args[p]] /\ pieces' = pieces
        BY <1>1, <2>4 DEF Create
      <3> QED BY <2>1, <2>2, <3>1 DEF Kept
    <2> QED BY <2>3, <2>4
  <1>2. ASSUME NEW p \in Plan, StartLater(p) PROVE Kept'
    <2>1. /\ status' = [status EXCEPT ![p] = 2] /\ status[p] = 1
          /\ pieces' = [pieces EXCEPT ![p] = Planned(para[p])]
          /\ para' = [para EXCEPT ![p] = <<>>] /\ args' = args /\ asked' = asked
      BY <1>2 DEF StartLater, ParaOf
    <2> QED BY <2>1 DEF Kept
  <1>3. ASSUME NEW p \in Plan, NEW req \in Requests[p],
               args' = [args EXCEPT ![p] = req] \/ args' = args,
               UNCHANGED <<asked, status, para, pieces>>
        PROVE  Kept'
    BY <1>3 DEF Kept
  <1>4. ASSUME NEW p \in Plan, NEW req \in Requests[p], args' = [args EXCEPT ![p] = req],
               status' = [status EXCEPT ![p] = 0], pieces' = [pieces EXCEPT ![p] = {}],
               asked' = [asked EXCEPT ![p] = <<>>], para' = para
        PROVE  Kept'
    BY <1>4 DEF Kept
  <1>5. ASSUME UNCHANGED <<args, asked, status, para, pieces>> PROVE Kept'
    BY <1>5 DEF Kept
  <1>6. ASSUME NEW p \in Plan, Reuse(p) \/ StartOnce(p) PROVE Kept'
    <2>1. \E req \in Requests[p] : args' = [args EXCEPT ![p] = req]
      BY <1>6 DEF Reuse, StartOnce
    <2>2. UNCHANGED <<asked, status, para, pieces>>
      BY <1>6 DEF Reuse, StartOnce
    <2> QED BY <1>3, <2>1, <2>2
  <1>7. ASSUME NEW p \in Plan, Destroy(p) PROVE Kept'
    <2>1. PICK req \in Requests[p] : args' = [args EXCEPT ![p] = req]
      BY <1>7 DEF Destroy
    <2>2. /\ status' = [status EXCEPT ![p] = 0] /\ pieces' = [pieces EXCEPT ![p] = {}]
          /\ asked' = [asked EXCEPT ![p] = <<>>] /\ para' = para
      BY <1>7 DEF Destroy
    <2> QED BY <1>4, <2>1, <2>2
  <1>8. ASSUME NEW p \in Plan, Start(p) PROVE Kept'
    BY <1>5, <1>8 DEF Start
  <1>9. ASSUME \/ \E r \in Peer : Register(r)
               \/ MemSync
               \/ Channels
               \/ \E t \in Thread : Detect(t)
               \/ UNCHANGED vars
        PROVE  Kept'
    <2>1. UNCHANGED pvars
      BY <1>9 DEF Register, MemSync, Channels, Land, Detect, Poll, Take, Arm, vars
    <2> QED BY <1>5, <2>1 DEF pvars
  <1> QED BY <1>1, <1>2, <1>6, <1>7, <1>8, <1>9 DEF Next, WriterNext

(* Steps that touch neither signals nor queues.                             *)
LEMMA QuietKeeps ==
  ASSUME IInv, UNCHANGED <<svars, queue, got>>, tpc' = tpc
  PROVE  Balanced' /\ Typed' /\ Rings'
  <1>1. flying' = flying /\ counter' = counter /\ used' = used /\ queue' = queue /\ got' = got
    BY DEF svars
  <1>2. Balanced'
    BY <1>1 DEF IInv, Balanced, Balance, Aloft
  <1>3. Typed'
    BY <1>1 DEF IInv, Typed
  <1>4. Rings'
    BY <1>1, SameRings DEF IInv
  <1> QED BY <1>2, <1>3, <1>4

(* A launch.                                                                *)
LEMMA LaunchAll ==
  ASSUME WholeOnVerbs, NEW p \in Plan, NEW req \in Requests[p], IInv, Launch(p, Planned(req)),
         SigsOf(req) \cap used = {}, counter' = counter, UNCHANGED qvars
  PROVE  Balanced' /\ Typed' /\ Rings'
  <1>1. queue' = queue /\ got' = got /\ tpc' = tpc
    BY DEF qvars
  <1>2. Balanced'
    BY LaunchKeeps DEF IInv
  <1>3. /\ used' = used \cup SigsOf(req)
        /\ \A x \in flying' : x \in flying \/ x.sig \in SigsOf(req) \cup {NoSig}
    BY LaunchedIs
  <1>4. SigsOf(req) \in SUBSET Sig
    BY RequestIs
  <1>5. Typed'
    BY <1>1, <1>3, <1>4 DEF IInv, Typed
  <1>6. Rings'
    BY <1>1, SameRings DEF IInv
  <1> QED BY <1>2, <1>5, <1>6

(* The steps of the writer.                                                 *)
LEMMA WriterKeeps ==
  ASSUME WholeOnVerbs, IInv, WriterNext
  PROVE  Balanced' /\ Typed' /\ Rings'
  <1>0. Kept
    BY DEF IInv
  <1>1. ASSUME NEW r \in Peer, Register(r) PROVE Balanced' /\ Typed' /\ Rings'
    BY <1>1, QuietKeeps DEF Register, qvars
  <1>2. ASSUME MemSync PROVE Balanced' /\ Typed' /\ Rings'
    BY <1>2, QuietKeeps DEF MemSync, qvars
  <1>3. ASSUME NEW p \in Plan, Create(p) PROVE Balanced' /\ Typed' /\ Rings'
    BY <1>3, QuietKeeps DEF Create, qvars
  <1>4. ASSUME NEW p \in Plan, Reuse(p) PROVE Balanced' /\ Typed' /\ Rings'
    BY <1>4, QuietKeeps DEF Reuse, qvars
  <1>5. ASSUME NEW p \in Plan, Start(p) PROVE Balanced' /\ Typed' /\ Rings'
    <2>1. asked[p] \in Requests[p] /\ pieces[p] = Planned(asked[p])
      BY <1>0, <1>5 DEF Kept, Start
    <2>2. /\ Launch(p, Planned(asked[p])) /\ SigsOf(asked[p]) \cap used = {}
          /\ counter' = counter /\ UNCHANGED qvars
      BY <1>5, <2>1 DEF Start, Acknowledged
    <2> QED BY <2>1, <2>2, LaunchAll
  <1>6. ASSUME NEW p \in Plan, StartLater(p) PROVE Balanced' /\ Typed' /\ Rings'
    <2>1. asked[p] \in Requests[p] /\ ParaOf(p) = asked[p]
      BY <1>0, <1>6 DEF Kept, StartLater, ParaOf
    <2>2. /\ Launch(p, Planned(asked[p])) /\ SigsOf(asked[p]) \cap used = {}
          /\ counter' = counter /\ UNCHANGED qvars
      BY <1>6, <2>1 DEF StartLater, Acknowledged
    <2> QED BY <2>1, <2>2, LaunchAll
  <1>7. ASSUME NEW p \in Plan, StartOnce(p) PROVE Balanced' /\ Typed' /\ Rings'
    <2>1. args[p] \in Requests[p]
      BY <1>0 DEF Kept
    <2>2. /\ Launch(p, Planned(args[p])) /\ SigsOf(args[p]) \cap used = {}
          /\ counter' = counter /\ UNCHANGED qvars
      BY <1>7 DEF StartOnce, Acknowledged
    <2> QED BY <2>1, <2>2, LaunchAll
  <1>8. ASSUME NEW p \in Plan, Destroy(p) PROVE Balanced' /\ Typed' /\ Rings'
    BY <1>8, QuietKeeps DEF Destroy, qvars
  <1> QED BY <1>1, <1>2, <1>3, <1>4, <1>5, <1>6, <1>7, <1>8 DEF WriterNext

(* A piece takes effect.                                                    *)
LEMMA LandAll ==
  ASSUME WholeOnVerbs, IInv, NEW x \in flying, Land(x)
  PROVE  Balanced' /\ Typed' /\ Rings'
  <1>0. Balanced /\ Typed /\ Rings
    BY DEF IInv
  <1>1. flying' = flying \ {x} /\ used' = used /\ tpc' = tpc /\ got' = got
    BY DEF Land
  <1>2. CASE x.sig = NoSig
    <2>1. counter' = counter /\ queue' = queue
      BY <1>2 DEF Land
    <2>2. \A s \in Sig : Aloft(s)' = Aloft(s)
      BY <1>1, <1>2, SignalIs DEF Aloft
    <2>3. Balanced'
      BY <1>0, <1>1, <2>1, <2>2 DEF Balanced, Balance
    <2>4. Typed'
      BY <1>0, <1>1, <2>1 DEF Typed
    <2>5. Rings'
      BY <1>0, <1>1, <2>1, SameRings
    <2> QED BY <2>3, <2>4, <2>5
  <1>3. CASE x.sig # NoSig
    <2> DEFINE s == x.sig
    <2>1. s \in Sig
      BY <1>0, <1>3 DEF Typed
    <2>2. /\ counter' = [counter EXCEPT ![s] = @ + x.add]
          /\ queue' = IF counter'[s] = 0 THEN [queue EXCEPT ![SigHome[s]] = Pushed(SigHome[s], s)]
                                         ELSE queue
      BY <1>3 DEF Land
    <2> HIDE DEF s
    <2>3. Balanced'
      BY <1>0, <1>1, <2>1, <2>2, LandKeeps DEF s
    <2>4. counter[s] # 0 /\ x.add \in Int
      BY <1>0, <2>1, AloftMeansUsed DEF s
    <2>5. counter' \in [Sig -> Int] /\ \A z \in Sig \ {s} : counter'[z] = counter[z]
      BY <1>0, <2>1, <2>2, <2>4 DEF Typed
    <2>6. CASE counter'[s] = 0
      <3>1. queue' = [queue EXCEPT ![SigHome[s]] = Pushed(SigHome[s], s)]
        BY <2>2, <2>6
      <3>2. Rings' /\ DOMAIN queue' = Peer /\ \A r \in Peer : queue'[r] \in QueueType(r)
        BY <1>0, <1>1, <2>1, <2>4, <2>5, <2>6, <3>1, PushKeeps
      <3>3. Typed'
        BY <1>0, <1>1, <2>5, <3>2 DEF Typed
      <3> QED BY <2>3, <3>2, <3>3
    <2>7. CASE counter'[s] # 0
      <3>1. queue' = queue
        BY <2>2, <2>7
      <3>2. Typed'
        BY <1>0, <1>1, <2>5, <3>1 DEF Typed
      <3>3. \A z \in Sig : counter'[z] = 0 <=> counter[z] = 0
        BY <2>4, <2>5, <2>7
      <3>4. Rings'
        BY <1>0, <1>1, <3>1, <3>3, SameRings
      <3> QED BY <2>3, <3>2, <3>4
    <2> QED BY <2>6, <2>7
  <1> QED BY <1>2, <1>3

(* The steps of a thread that detects signals.                              *)
LEMMA DetectAll ==
  ASSUME WholeOnVerbs, IInv, NEW t \in Thread, Detect(t)
  PROVE  Balanced' /\ Typed' /\ Rings'
  <1>0. /\ Balanced /\ Typed /\ Rings
        /\ tpc \in [Thread -> {"poll", "lock", "arm"}] /\ got \in [Thread -> Sig \cup {None}]
        /\ \A u \in Thread : tpc[u] = "arm" <=> got[u] # None
    BY DEF IInv, Typed
  <1>1. CASE Poll(t)
    <2>1. /\ flying' = flying /\ counter' = counter /\ used' = used
          /\ queue' = queue /\ got' = got /\ tpc' = [tpc EXCEPT ![t] = "lock"] /\ tpc[t] = "poll"
      BY <1>1 DEF Poll, svars
    <2>2. Balanced'
      BY <1>0, <2>1 DEF Balanced, Balance, Aloft
    <2>3. Typed'
      BY <1>0, <2>1 DEF Typed
    <2>4. Rings'
      BY <1>0, <2>1, SameRings
    <2> QED BY <2>2, <2>3, <2>4
  <1>2. CASE Take(t)
    <2> DEFINE r == ThreadHome[t]
    <2>1. flying' = flying /\ counter' = counter /\ used' = used /\ tpc[t] = "lock"
      BY <1>2 DEF Take, svars
    <2>2. r \in Peer /\ got[t] = None
      BY <1>0, <2>1, PlanAssumption
    <2>3. Balanced'
      BY <1>0, <2>1 DEF Balanced, Balance, Aloft
    <2>4. CASE IsEmpty(queue[r])
      <3>1. tpc' = [tpc EXCEPT ![t] = "poll"] /\ queue' = queue /\ got' = got
        BY <1>2, <2>4 DEF Take
      <3>2. Typed'
        BY <1>0, <2>1, <3>1 DEF Typed
      <3>3. Rings'
        BY <1>0, <2>1, <3>1, SameRings
      <3> QED BY <2>3, <3>2, <3>3
    <2>5. CASE ~IsEmpty(queue[r])
      <3>1. /\ tpc' = [tpc EXCEPT ![t] = "arm"]
            /\ queue' = [queue EXCEPT ![r].head = NextPlace(r, @)]
            /\ got' = [got EXCEPT ![t] = queue[r].buff[queue[r].head]]
        BY <1>2, <2>5 DEF Take
      <3> HIDE DEF r
      <3>2. /\ Rings' /\ got'[t] \in PoolOf(r)
            /\ DOMAIN queue' = Peer /\ \A q \in Peer : queue'[q] \in QueueType(q)
        <4>1. r = ThreadHome[t]
          BY DEF r
        <4> QED BY <1>0, <2>1, <2>2, <2>5, <3>1, <4>1, PopKeeps
      <3>3. got'[t] \in Sig /\ SigHome[got'[t]] = ThreadHome[t]
        BY <3>2 DEF PoolOf, r
      <3>4. /\ got' \in [Thread -> Sig \cup {None}] /\ \A u \in Thread \ {t} : got'[u] = got[u]
            /\ tpc' \in [Thread -> {"poll", "lock", "arm"}]
            /\ tpc'[t] = "arm" /\ \A u \in Thread \ {t} : tpc'[u] = tpc[u]
        <4> DEFINE v == queue[r].buff[queue[r].head]
        <4>1. got'[t] = v
          BY <1>0, <3>1
        <4>2. v \in Sig
          BY <3>3, <4>1
        <4>3. got' = [got EXCEPT ![t] = v]
          BY <3>1
        <4> HIDE DEF v
        <4> QED BY <1>0, <3>1, <4>2, <4>3
      <3>5. Typed'
        <4>1. counter' \in [Sig -> Int] /\ used' \in SUBSET Sig
              /\ \A x \in flying' : x.sig \in Sig \cup {NoSig}
          BY <1>0, <2>1 DEF Typed
        <4>2. ASSUME NEW u \in Thread
              PROVE  /\ tpc'[u] = "arm" <=> got'[u] # None
                     /\ got'[u] # None => SigHome[got'[u]] = ThreadHome[u]
          <5>1. CASE u = t
            BY <3>3, <3>4, <5>1, SignalIs
          <5>2. CASE u # t
            BY <1>0, <3>4, <5>2 DEF Typed
          <5> QED BY <5>1, <5>2
        <4> QED BY <3>2, <3>4, <4>1, <4>2 DEF Typed
      <3> QED BY <2>3, <3>2, <3>5
    <2> QED BY <2>4, <2>5
  <1>3. CASE Arm(t)
    <2> DEFINE s == got[t]
    <2>1. /\ flying' = flying /\ queue' = queue /\ used' = used \ {s} /\ tpc[t] = "arm"
          /\ counter' = [counter EXCEPT ![s] = NumEvent[s]]
          /\ got' = [got EXCEPT ![t] = None] /\ tpc' = [tpc EXCEPT ![t] = "poll"]
      BY <1>3 DEF Arm
    <2>2. s # None /\ s \in Sig /\ counter[s] = 0
      BY <1>0, <2>1 DEF Rings
    <2>3. Rings'
      BY <1>0, <2>1, <2>2, ArmRings
    <2>4. Balanced'
      <3> HIDE DEF s
      <3> QED BY <1>0, <2>1, <2>2, ArmKeeps
    <2>5. counter' \in [Sig -> Int]
      <3>1. NumEvent[s] \in Int /\ counter \in [Sig -> Int]
        BY <1>0, <2>2, SignalIs DEF Typed
      <3> QED BY <2>1, <3>1
    <2>6. Typed'
      BY <1>0, <2>1, <2>5 DEF Typed
    <2> QED BY <2>3, <2>4, <2>6
  <1> QED BY <1>1, <1>2, <1>3 DEF Detect

(* Every step keeps the invariant.                                          *)
LEMMA NextIInv ==
  ASSUME WholeOnVerbs, IInv, [Next]_vars
  PROVE  IInv'
  <1>1. Kept'
    BY KeptNext DEF IInv
  <1>2. CASE WriterNext
    BY <1>1, <1>2, WriterKeeps DEF IInv
  <1>3. CASE Channels
    BY <1>1, <1>3, LandAll DEF IInv, Channels
  <1>4. ASSUME NEW t \in Thread, Detect(t) PROVE IInv'
    BY <1>1, <1>4, DetectAll DEF IInv
  <1>5. CASE UNCHANGED vars
    BY <1>1, <1>5, QuietKeeps DEF IInv, vars, svars, qvars
  <1> QED BY <1>2, <1>3, <1>4, <1>5 DEF Next

(* The hypotheses are met by equal lists of channels, and by lists of equal *)
(* length that name channels of MPI only, as with UNR_INTER and UNR_INTRA  *)
(* not set.                                                                *)
LEMMA EqualLists ==
  ASSUME Inter = Intra
  PROVE  HandlesAgree
  BY DEF HandlesAgree, RightHandle, Group, OtherGroup

LEMMA MpiOnly ==
  ASSUME Verbs = {}, Len(Inter) = Len(Intra)
  PROVE  WholeOnVerbs /\ HandlesAgree
  <1>1. WholeOnVerbs
    BY DEF WholeOnVerbs
  <1>2. \A c : HandleAt(c) = 0
    BY FS_EmptySet DEF HandleAt
  <1>3. DOMAIN Inter = DOMAIN Intra
    BY PlanAssumption
  <1> QED BY <1>1, <1>2, <1>3 DEF HandlesAgree, RightHandle, Group, OtherGroup

(* Every reachable state satisfies IInv: counters in balance with what is   *)
(* in the air, plans as they were asked for, queues without repetition,    *)
(* where no write is divided over channels of verbs (sig_add_arr,          *)
(* uri_verbs_event_progress, uri_mpi_channel_daemon).                       *)
THEOREM Invariance ==
  ASSUME WholeOnVerbs
  PROVE  Spec => []IInv
  <1>1. IInv /\ [Next]_vars => IInv'
    BY NextIInv
  <1> QED BY <1>1, InitIInv, PTL DEF Spec

(* A counter of the plans' signals is zero exactly when writes were started *)
(* on it and all their pieces have taken effect, for every number of        *)
(* channels of MPI, block size and division, and for a single channel of   *)
(* verbs (sig_add_arr, uri_mpi_channel_daemon, uri_verbs_event_progress).   *)
THEOREM TriggeredCorrect ==
  ASSUME WholeOnVerbs
  PROVE  Spec => []TriggeredWhenAllLanded
  <1>1. IInv => TriggeredWhenAllLanded
    BY Triggered DEF IInv
  <1>2. Spec => []IInv
    BY Invariance
  <1> QED BY <1>1, <1>2, PTL

(* What is in a ring or popped is triggered, and what is triggered is       *)
(* there once.                                                              *)
LEMMA Reported == IInv => ReportedOnce
  <1> SUFFICES ASSUME IInv, NEW s \in Sig
               PROVE  LET q == queue[SigHome[s]].buff IN
                      Cardinality({i \in Places(SigHome[s]) : q[i] = s})
                        + Cardinality({t \in Thread : got[t] = s})
                        = IF counter[s] = 0 THEN 1 ELSE 0
    BY DEF ReportedOnce
  <1> DEFINE r == SigHome[s]
             Q == {i \in Places(r) : queue[r].buff[i] = s}
             T == {t \in Thread : got[t] = s}
  <1>1. r \in Peer
    BY PlanAssumption
  <1>2. s # None
    BY SignalIs
  <1>3. \A i, j \in Q : i = j
    BY <1>1 DEF IInv, Rings
  <1>4. \A t, u \in T : t = u
    BY <1>2 DEF IInv, Rings
  <1>5. Q = {} \/ T = {}
    BY <1>1 DEF IInv, Rings
  <1>6. counter[s] = 0 <=> Q # {} \/ T # {}
    BY <1>1, <1>2 DEF IInv, Rings
  <1> HIDE DEF Q, T
  <1>7. \A S : (\A i, j \in S : i = j) => Cardinality(S) = IF S = {} THEN 0 ELSE 1
    <2> SUFFICES ASSUME NEW S, \A i, j \in S : i = j
                 PROVE  Cardinality(S) = IF S = {} THEN 0 ELSE 1
      OBVIOUS
    <2>1. CASE S = {}
      BY <2>1, FS_EmptySet
    <2>2. CASE S # {}
      <3>1. PICK x : x \in S
        BY <2>2
      <3>2. S = {x}
        BY <3>1
      <3> QED BY <2>2, <3>2, FS_Singleton
    <2> QED BY <2>1, <2>2
  <1>8. /\ Cardinality(Q) = IF Q = {} THEN 0 ELSE 1
        /\ Cardinality(T) = IF T = {} THEN 0 ELSE 1
    BY <1>3, <1>4, <1>7
  <1>9. Cardinality(Q) + Cardinality(T) = IF counter[s] = 0 THEN 1 ELSE 0
    BY <1>5, <1>6, <1>8
  <1> QED BY <1>9 DEF Q, T

(* A triggered signal is in the ring of its pool or with one thread, once,  *)
(* however many threads poll, and a ring never overflows (uru_queue).       *)
THEOREM ReportedCorrect ==
  ASSUME WholeOnVerbs
  PROVE  Spec => []ReportedOnce
  <1>1. Spec => []IInv
    BY Invariance
  <1> QED BY <1>1, Reported, PTL

---------------------------------------------------------------------------
(* The pieces of a plan tile its writes.                                   *)

PieceAt(req, i, part, j) ==
  [i |-> i, peer |-> req[i].peer, mem |-> MemAt(req[i].peer, j, req[i].mem),
   channel |-> Group(req[i].peer)[j],
   off |-> req[i].off + Before(part, j), size |-> part[j],
   sig |-> req[i].sig, add |-> SigAdd(part, j)]

(* A byte of a write is in one part of it, any other byte in none.          *)
InPart(part, j, b) == Before(part, j) <= b /\ b < Before(part, j) + part[j]

LEMMA PartsTile ==
  ASSUME NEW n \in Nat \ {0}, NEW part \in [1..n -> Nat], NEW b \in Int
  PROVE  /\ \A j, k \in 1..n : InPart(part, j, b) /\ InPart(part, k, b) => j = k
         /\ (\E j \in 1..n : InPart(part, j, b)) <=> b \in 0..(Before(part, n + 1) - 1)
  <1>1. /\ Before(part, 1) = 0 /\ \A j \in 1..(n + 1) : Before(part, j) \in Nat
        /\ \A j \in 1..n : Before(part, j + 1) = Before(part, j) + part[j] /\ part[j] \in Nat
    BY BeforeIs
  <1>2. \A j \in 1..n : \A k \in (j + 1)..(n + 1) : Before(part, j) + part[j] <= Before(part, k)
    BY BeforeGrows
  <1>3. ASSUME NEW j \in 1..n, NEW k \in 1..n, InPart(part, j, b), InPart(part, k, b), j < k
        PROVE  FALSE
    <2>1. k \in (j + 1)..(n + 1)
      BY <1>3
    <2>2. Before(part, j) + part[j] <= Before(part, k)
      BY <1>2, <2>1
    <2>3. b < Before(part, j) + part[j] /\ Before(part, k) <= b
      BY <1>3 DEF InPart
    <2>4. Before(part, k) \in Nat /\ Before(part, j) + part[j] \in Nat
      BY <1>1
    <2> QED BY <2>2, <2>3, <2>4
  <1>4. ASSUME NEW j \in 1..n, NEW k \in 1..n, InPart(part, j, b), InPart(part, k, b)
        PROVE  j = k
    <2>1. ~(j < k) /\ ~(k < j)
      BY <1>3, <1>4
    <2> QED BY <2>1
  <1>5. ASSUME NEW j \in 1..n, InPart(part, j, b) PROVE b \in 0..(Before(part, n + 1) - 1)
    <2>1. Before(part, j) + part[j] <= Before(part, n + 1)
      BY <1>2
    <2> QED BY <1>1, <1>5, <2>1, SMTT(40) DEF InPart
  <1>6. ASSUME b \in 0..(Before(part, n + 1) - 1) PROVE \E j \in 1..n : InPart(part, j, b)
    <2> DEFINE S == {j \in 1..(n + 1) : b < Before(part, j)}
    <2>1. n + 1 \in S /\ S \in SUBSET Nat
      BY <1>1, <1>6
    <2>2. PICK m \in S : \A x \in S : m <= x
      <3> HIDE DEF S
      <3> QED BY <2>1, LeastNat
    <2>3. m \in 1..(n + 1) /\ b < Before(part, m) /\ m # 1
      BY <1>1, <1>6
    <2> DEFINE j == m - 1
    <2>4. j \in 1..n /\ j + 1 = m /\ j \notin S
      BY <2>2, <2>3
    <2>5. ~(b < Before(part, j)) /\ b < Before(part, j + 1)
      BY <2>3, <2>4
    <2> HIDE DEF j
    <2>6. InPart(part, j, b)
      BY <1>1, <2>4, <2>5 DEF InPart
    <2> QED BY <2>4, <2>6
  <1> QED BY <1>4, <1>5, <1>6

(* A byte of a write is in one of its pieces, any other byte in none.       *)
LEMMA Tiled ==
  ASSUME NEW p \in Plan, NEW req \in Requests[p], NEW i \in Writes(req), NEW b \in Int
  PROVE  Cardinality({x \in {y \in Planned(req) : y.i = i} : Covers(x, b)})
           = IF Covers(req[i], b) THEN 1 ELSE 0
  <1>1. PICK part : Parts(req, part) /\ Planned(req) = Union(req, part, Len(req))
    BY PlannedIs
  <1> DEFINE n == GroupLen(req, i)
             pt == part[i]
             own == {y \in Planned(req) : y.i = i}
             C == {x \in own : Covers(x, b)}
             off == req[i].off
             a == b - off
             at(j) == PieceAt(req, i, pt, j)
  <1>2. /\ n \in Nat \ {0} /\ pt \in [1..n -> Nat] /\ Before(pt, n + 1) = req[i].size
        /\ off \in Nat /\ a \in Int /\ req[i].size \in Nat
        /\ i \in 1..Len(req) /\ Len(req) \in Nat
    BY <1>1, GroupIs, RequestIs DEF Parts, GroupLen
  <1>3. \A j \in 1..n : Before(pt, j) \in Nat /\ pt[j] \in Nat
    <2> HIDE DEF pt, n
    <2>1. \A j \in 1..(n + 1) : Before(pt, j) \in Nat
      <3>1. n \in Nat /\ pt \in [1..n -> Nat]
        BY <1>2
      <3> QED BY <3>1, BeforeIs
    <2> QED BY <1>2, <2>1, SMTT(40)
  <1>4. ASSUME NEW x \in own PROVE \E j \in 1..n : x = at(j) /\ pt[j] # 0
    <2>1. PICK w \in Writes(req) : x \in PiecesOf(req, w, part[w])
      BY <1>1 DEF Union
    <2>2. w = i
      BY <2>1 DEF PiecesOf
    <2> QED BY <1>2, <2>1, <2>2 DEF PiecesOf, PieceAt
  <1>5. ASSUME NEW j \in 1..n, pt[j] # 0 PROVE at(j) \in own
    <2>1. at(j) \in PiecesOf(req, i, part[i])
      BY <1>2, <1>5 DEF PiecesOf, PieceAt
    <2>2. i \in {w \in Writes(req) : w <= Len(req)}
      BY <1>2
    <2>3. at(j) \in Planned(req)
      BY <1>1, <2>1, <2>2 DEF Union
    <2> QED BY <2>3 DEF PieceAt
  <1>6. \A j \in 1..n : Covers(at(j), b) <=> InPart(pt, j, a)
    <2> SUFFICES ASSUME NEW j \in 1..n PROVE Covers(at(j), b) <=> InPart(pt, j, a)
      OBVIOUS
    <2>1. at(j).off = off + Before(pt, j) /\ at(j).size = pt[j]
      BY DEF PieceAt
    <2> DEFINE c == Before(pt, j)
               d == pt[j]
    <2>2. c \in Nat /\ d \in Nat
      BY <1>3
    <2> HIDE DEF pt, off, at
    <2>3. Covers(at(j), b) <=> b \in (off + c)..(off + c + d - 1)
      BY <2>1 DEF Covers
    <2>4. InPart(pt, j, a) <=> c <= a /\ a < c + d
      BY DEF InPart
    <2> HIDE DEF c, d
    <2> QED BY <1>2, <2>2, <2>3, <2>4, SMTT(40)
  <1>7. /\ \A j, k \in 1..n : InPart(pt, j, a) /\ InPart(pt, k, a) => j = k
        /\ (\E j \in 1..n : InPart(pt, j, a)) <=> a \in 0..(req[i].size - 1)
    <2> HIDE DEF pt, n, a
    <2> QED BY <1>2, PartsTile
  <1>8. Covers(req[i], b) <=> a \in 0..(req[i].size - 1)
    BY <1>2, SMTT(40) DEF Covers
  <1>9. \A j \in 1..n : InPart(pt, j, a) => pt[j] # 0
    <2> HIDE DEF pt
    <2> QED BY <1>2, <1>3 DEF InPart
  <1> HIDE DEF n, pt, own, a, at
  <1>10. \A x, y \in C : x = y
    BY <1>4, <1>6, <1>7
  <1>11. C # {} <=> Covers(req[i], b)
    BY <1>4, <1>5, <1>6, <1>7, <1>8, <1>9
  <1>12. Cardinality(C) = IF C = {} THEN 0 ELSE 1
    <2> HIDE DEF C
    <2>1. CASE C = {}
      BY <2>1, FS_EmptySet
    <2>2. CASE C # {}
      <3>1. PICK x : x \in C
        BY <2>2
      <3>2. C = {x}
        BY <1>10, <3>1
      <3> QED BY <2>2, <3>2, FS_Singleton
    <2> QED BY <2>1, <2>2
  <1> QED BY <1>11, <1>12 DEF C, own

(* A piece x belongs to a write of the batch and goes where that one goes.  *)
SameWrite(req, x) ==
  [req[x.i] EXCEPT !.off = 0, !.size = 0] =
    [peer |-> x.peer, mem |-> x.mem, sig |-> x.sig, off |-> 0, size |-> 0]

(* A piece goes where its write goes, through a channel to the node of the  *)
(* peer.                                                                    *)
LEMMA Faithful ==
  ASSUME HandlesAgree, NEW p \in Plan, NEW req \in Requests[p], NEW x \in Planned(req)
  PROVE  /\ x.i \in Writes(req) /\ x.channel \in Range(Group(x.peer))
         /\ SameWrite(req, x)
         /\ x.off \in Int /\ x.size \in Int
  <1>1. PICK part : Parts(req, part) /\ Planned(req) = Union(req, part, Len(req))
    BY PlannedIs
  <1>2. PICK i \in Writes(req) : x \in PiecesOf(req, i, part[i])
    BY <1>1 DEF Union
  <1>3. PICK j \in DOMAIN part[i] : x = PieceAt(req, i, part[i], j)
    BY <1>2 DEF PiecesOf, PieceAt
  <1>5. part[i] \in [1..GroupLen(req, i) -> Nat] /\ j \in 1..GroupLen(req, i)
    BY <1>1 DEF Parts
  <1>10. MemAt(req[i].peer, j, req[i].mem) = req[i].mem
    BY <1>5, GroupIs, RequestIs DEF HandlesAgree, MemAt, GroupLen, Writes
  <1>4. /\ x.i = i /\ x.peer = req[i].peer /\ x.mem = req[i].mem /\ x.sig = req[i].sig
        /\ x.channel = Group(req[i].peer)[j]
        /\ x.off = req[i].off + Before(part[i], j) /\ x.size = part[i][j]
    BY <1>3, <1>10 DEF PieceAt
  <1>6. x.channel \in Range(Group(x.peer))
    BY <1>4, <1>5, GroupIs DEF GroupLen, Range
  <1>7. [req[i] EXCEPT !.off = 0, !.size = 0] =
          [peer |-> req[i].peer, mem |-> req[i].mem, sig |-> req[i].sig, off |-> 0, size |-> 0]
    <2> DEFINE a == req[i].peer
               b == req[i].mem
               c == req[i].off
               d == req[i].size
               e == req[i].sig
    <2>1. req[i] \in Request
      BY RequestAssumption DEF Writes
    <2>2. req[i] = [peer |-> a, mem |-> b, off |-> c, size |-> d, sig |-> e]
      BY <2>1 DEF Request
    <2> HIDE DEF a, b, c, d, e
    <2> DEFINE r0 == [peer |-> a, mem |-> b, off |-> c, size |-> d, sig |-> e]
               r1 == [peer |-> a, mem |-> b, off |-> 0, size |-> d, sig |-> e]
               r2 == [peer |-> a, mem |-> b, off |-> 0, size |-> 0, sig |-> e]
    <2>3. [r0 EXCEPT !.off = 0] = r1 /\ [r1 EXCEPT !.size = 0] = r2
      OBVIOUS
    <2>7. req[i] = r0
      BY <2>2
    <2> HIDE DEF r0, r1, r2
    <2>4. [req[i] EXCEPT !.off = 0, !.size = 0] = r2
      BY <2>3, <2>7
    <2>5. r2 = [peer |-> a, mem |-> b, sig |-> e, off |-> 0, size |-> 0]
      BY DEF r2
    <2>6. [req[i] EXCEPT !.off = 0, !.size = 0]
            = [peer |-> a, mem |-> b, sig |-> e, off |-> 0, size |-> 0]
      BY <2>4, <2>5, Zenon
    <2> QED BY <2>6 DEF a, b, e
  <1>8. x.off \in Int /\ x.size \in Int
    <2>1. req[i].off \in Nat /\ GroupLen(req, i) \in Nat
      BY RequestIs, GroupIs DEF Writes, GroupLen
    <2> DEFINE n == GroupLen(req, i)
               pt == part[i]
    <2>2. Before(pt, j) \in Nat
      <3>1. n \in Nat /\ pt \in [1..n -> Nat] /\ j \in 1..(n + 1)
        BY <1>5, <2>1
      <3> HIDE DEF n, pt
      <3> QED BY <3>1, BeforeIs
    <2> QED BY <1>4, <1>5, <2>1, <2>2
  <1>9. SameWrite(req, x)
    BY <1>4, <1>7, Zenon DEF SameWrite
  <1> QED BY <1>4, <1>6, <1>8, <1>9

(* The first and last bytes of the pieces of a write, and its own bytes.    *)
Ends(p, i) == UNION {{x.off, x.off + x.size - 1} : x \in {x \in pieces[p] : x.i = i}}
Whole(p, i) == (asked[p][i].off)..(asked[p][i].off + asked[p][i].size - 1)

(* A plan kept as it was asked for tiles its writes.                        *)
LEMMA PiecesDo ==
  ASSUME HandlesAgree, Kept
  PROVE  PiecesTile
  <1> SUFFICES ASSUME NEW p \in Plan, status[p] = 2
               PROVE  LET req == asked[p] IN
                      /\ \A x \in pieces[p] :
                           /\ x.i \in Writes(req) /\ x.channel \in Range(Group(x.peer))
                           /\ [req[x.i] EXCEPT !.off = 0, !.size = 0] =
                                [peer |-> x.peer, mem |-> x.mem, sig |-> x.sig,
                                 off |-> 0, size |-> 0]
                      /\ \A i \in Writes(req) :
                           LET own == {x \in pieces[p] : x.i = i} IN
                           \A b \in (UNION {{x.off, x.off + x.size - 1} : x \in own})
                                      \cup (req[i].off)..(req[i].off + req[i].size - 1) :
                             Cardinality({x \in own : Covers(x, b)})
                               = IF Covers(req[i], b) THEN 1 ELSE 0
    BY Zenon DEF PiecesTile
  <1>1. ASSUME NEW x \in pieces[p]
        PROVE  x.i \in Writes(asked[p]) /\ x.channel \in Range(Group(x.peer))
               /\ SameWrite(asked[p], x)
    <2>1. asked[p] \in Requests[p] /\ pieces[p] = Planned(asked[p])
      BY DEF Kept
    <2> QED BY <1>1, <2>1, Faithful
  <1>2. ASSUME NEW i \in Writes(asked[p]),
               NEW b \in Ends(p, i) \cup Whole(p, i)
        PROVE  Cardinality({x \in {x \in pieces[p] : x.i = i} : Covers(x, b)})
                 = IF Covers(asked[p][i], b) THEN 1 ELSE 0
    <2>1. asked[p] \in Requests[p] /\ pieces[p] = Planned(asked[p])
      BY DEF Kept
    <2>2. \A x \in pieces[p] : x.off \in Int /\ x.size \in Int
      <3> SUFFICES ASSUME NEW x \in pieces[p] PROVE x.off \in Int /\ x.size \in Int
        OBVIOUS
      <3> QED BY <2>1, Faithful
    <2>3. b \in Int
      <3>1. ASSUME b \in Ends(p, i) PROVE b \in Int
        <4>1. PICK x \in pieces[p] : b \in {x.off, x.off + x.size - 1}
          BY <3>1 DEF Ends
        <4> QED BY <2>2, <4>1
      <3>2. ASSUME b \in Whole(p, i) PROVE b \in Int
        BY <3>2 DEF Whole
      <3> QED BY <3>1, <3>2
    <2>4. Cardinality({x \in {y \in Planned(asked[p]) : y.i = i} : Covers(x, b)})
            = IF Covers(asked[p][i], b) THEN 1 ELSE 0
      <3> HIDE DEF Kept
      <3> QED BY <2>1, <2>3, Tiled
    <2> QED BY <2>1, <2>4
  <1> HIDE DEF Kept
  <1>3. \A x \in pieces[p] :
          /\ x.i \in Writes(asked[p]) /\ x.channel \in Range(Group(x.peer))
          /\ [asked[p][x.i] EXCEPT !.off = 0, !.size = 0] =
               [peer |-> x.peer, mem |-> x.mem, sig |-> x.sig, off |-> 0, size |-> 0]
    BY <1>1, Zenon DEF SameWrite
  <1>4. \A i \in Writes(asked[p]) : \A b \in Ends(p, i) \cup Whole(p, i) :
          Cardinality({x \in {x \in pieces[p] : x.i = i} : Covers(x, b)})
            = IF Covers(asked[p][i], b) THEN 1 ELSE 0
    BY <1>2, Zenon
  <1> QED BY <1>3, <1>4, Zenon DEF Ends, Whole

(* The pieces of a plan write every byte of its writes once and nothing     *)
(* else, also when it is completed after the caller has changed its arrays, *)
(* wherever the swapped offsets of the memory handles agree                *)
(* (unr_rdma_plan_create, unr_plan_start).                                  *)
THEOREM PiecesCorrect ==
  ASSUME HandlesAgree
  PROVE  Spec => []PiecesTile
  <1>1. Init => Kept
    BY DEF Init, Kept
  <1>2. Kept /\ [Next]_vars => Kept'
    BY KeptNext
  <1>3. Kept => PiecesTile
    BY PiecesDo
  <1> QED BY <1>1, <1>2, <1>3, PTL DEF Spec
===========================================================================
