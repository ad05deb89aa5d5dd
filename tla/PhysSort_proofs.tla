--------------------------- MODULE PhysSort_proofs ---------------------------
(***************************************************************************)
(* Proofs about the physically sorted tile.  The inductive invariant IInv   *)
(* has six parts: the arrays agree in length and hold nothing twice         *)
(* (Typed); a particle outside them carries an identifier that is not in    *)
(* the identifier array (Apart), which is why appending one leaves the      *)
(* identifiers different; the two marks lie in the arrays in order (Marks); *)
(* outside the sweep the bins divide the slots up to g_move_begin and each  *)
(* holds the particles of its cell (Binned); the arrays hold what is in the *)
(* tile and, behind g_new_particles_begin, only what may be erased (Held);  *)
(* and during the sweep the slots that were read fill the two ends of the   *)
(* buffer, each once, while as many slots of it are empty as slots are      *)
(* unread (Swept).  The last part is what makes the two writers meet: every *)
(* vector takes as many slots of the hole as it has lanes, whatever way     *)
(* they go.                                                                *)
(***************************************************************************)
EXTENDS PhysSort, FiniteSetTheorems, SequenceTheorems, TLAPS

---------------------------------------------------------------------------
(* Numbers in order.                                                       *)

LEMMA BoundedFinite ==
  ASSUME NEW n \in Nat, NEW I \in SUBSET (1..n)
  PROVE  IsFiniteSet(I) /\ Cardinality(I) \in Nat
  <1>1. IsFiniteSet(1..n)
    BY FS_Interval
  <1>2. IsFiniteSet(I)
    BY <1>1, FS_Subset
  <1> QED BY <1>2, FS_CardinalityType

(* A set of numbers up to n that holds with a number all smaller ones is an *)
(* initial segment.                                                        *)
LEMMA InitialSegment ==
  ASSUME NEW n \in Nat, NEW T \in SUBSET (1..n),
         \A i \in T : \A j \in 1..i : j \in T
  PROVE  /\ IsFiniteSet(T) /\ Cardinality(T) \in Nat
         /\ T = 1..Cardinality(T)
  <1>1. IsFiniteSet(T) /\ Cardinality(T) \in Nat
    BY BoundedFinite
  <1> DEFINE m == Cardinality(T)
  <1>2. \A i \in T : i <= m
    <2> SUFFICES ASSUME NEW i \in T PROVE i <= m
      OBVIOUS
    <2>1. 1..i \in SUBSET T /\ i \in Nat \ {0}
      OBVIOUS
    <2>2. Cardinality(1..i) = i
      BY <2>1, FS_Interval
    <2>3. Cardinality(1..i) <= Cardinality(T)
      BY <1>1, <2>1, FS_Subset
    <2> QED BY <2>2, <2>3
  <1>3. T \in SUBSET (1..m)
    BY <1>2
  <1>4. IsFiniteSet(1..m) /\ Cardinality(1..m) = m
    BY <1>1, FS_Interval
  <1>5. T = 1..m
    BY <1>1, <1>3, <1>4, FS_Subset
  <1> QED BY <1>1, <1>5

(* Ordered lists the members of a set, each once.                           *)
LEMMA OrderedLists ==
  ASSUME NEW n \in Nat, NEW I \in SUBSET (1..n)
  PROVE  /\ IsFiniteSet(I) /\ Cardinality(I) \in Nat
         /\ \A k \in 1..Cardinality(I) : Ordered(I)[k] \in I
         /\ \A j, k \in 1..Cardinality(I) : Ordered(I)[j] = Ordered(I)[k] => j = k
         /\ \A i \in I : \E k \in 1..Cardinality(I) : Ordered(I)[k] = i
  <1> DEFINE upto(i) == {k \in I : k <= i}
             rank == [i \in I |-> Cardinality(upto(i))]
             m == Cardinality(I)
  <1>1. IsFiniteSet(I) /\ m \in Nat /\ I \subseteq Nat
    BY BoundedFinite
  <1>2. \A i \in I : IsFiniteSet(upto(i)) /\ rank[i] \in 1..m
    <2> TAKE i \in I
    <2>1. upto(i) \in SUBSET I /\ upto(i) # {} /\ rank[i] = Cardinality(upto(i))
      BY <1>1
    <2> HIDE DEF upto, rank
    <2>2. IsFiniteSet(upto(i)) /\ Cardinality(upto(i)) <= m
      BY <1>1, <2>1, FS_Subset
    <2>3. Cardinality(upto(i)) \in Nat
      BY <2>2, FS_CardinalityType
    <2>4. Cardinality(upto(i)) # 0
      BY <2>1, <2>2, FS_EmptySet
    <2> QED BY <1>1, <2>1, <2>2, <2>3, <2>4
  <1>3. ASSUME NEW i \in I, NEW j \in I, i < j PROVE rank[i] # rank[j]
    <2>1. upto(i) \in SUBSET upto(j) /\ upto(i) # upto(j)
      <3>1. i \in Nat /\ j \in Nat /\ \A k \in I : k \in Nat
        BY <1>1
      <3>2. j \in upto(j) /\ j \notin upto(i)
        BY <1>3, <3>1
      <3>3. \A k \in upto(i) : k \in upto(j)
        BY <1>3, <3>1
      <3> HIDE DEF upto
      <3> QED BY <3>2, <3>3
    <2>2. rank[i] = Cardinality(upto(i)) /\ rank[j] = Cardinality(upto(j))
      OBVIOUS
    <2> HIDE DEF upto, rank
    <2>3. IsFiniteSet(upto(j))
      BY <1>2
    <2>4. Cardinality(upto(i)) = Cardinality(upto(j)) => upto(i) = upto(j)
      BY <2>1, <2>3, FS_Subset
    <2> QED BY <2>1, <2>2, <2>4
  <1>4. \A i, j \in I : rank[i] = rank[j] => i = j
    BY <1>1, <1>3
  <1>5. rank \in Injection(I, 1..m)
    BY <1>2, <1>4 DEF Injection, IsInjective
  <1>6. \A k \in 1..m : \E i \in I : rank[i] = k
    <2>1. IsFiniteSet(1..m) /\ Cardinality(1..m) = m
      BY <1>1, FS_Interval
    <2> HIDE DEF rank
    <2>2. rank \in Surjection(I, 1..m)
      BY <1>5, <2>1, FS_Injection
    <2> QED BY <2>2 DEF Surjection
  <1>7. \A k \in 1..m : Ordered(I)[k] = CHOOSE i \in I : rank[i] = k
    <2> TAKE k \in 1..m
    <2>1. Ordered(I)[k] = CHOOSE i \in I : Cardinality({x \in I : x <= i}) = k
      BY DEF Ordered
    <2>2. (CHOOSE i \in I : Cardinality({x \in I : x <= i}) = k) = (CHOOSE i \in I : rank[i] = k)
      <3>1. \A i \in I : Cardinality({x \in I : x <= i}) = rank[i]
        OBVIOUS
      <3> QED BY <3>1, Zenon
    <2> QED BY <2>1, <2>2
  <1> HIDE DEF rank, m
  <1>8. \A k \in 1..m : Ordered(I)[k] \in I /\ rank[Ordered(I)[k]] = k
    BY <1>6, <1>7
  <1>9. \A i \in I : rank[i] \in 1..m /\ Ordered(I)[rank[i]] = i
    BY <1>2, <1>4, <1>8
  <1> QED BY <1>1, <1>8, <1>9 DEF m

(* A sequence of different elements that has all of a set of as many.        *)
LEMMA AllOfThem ==
  ASSUME NEW n \in Nat, NEW s \in [1..n -> Particle], Distinct(s), Len(s) = n,
         NEW q \in [1..n -> Elems(s)], Len(q) = n
  PROVE  Distinct(q) <=> Elems(q) = Elems(s)
  <1>1. IsFiniteSet(1..n) /\ Cardinality(1..n) = n
    BY FS_Interval
  <1>2. s \in Surjection(1..n, Elems(s)) /\ s \in Injection(1..n, Elems(s))
    BY DEF Surjection, Injection, IsInjective, Elems, Distinct
  <1>3. IsFiniteSet(Elems(s)) /\ Cardinality(Elems(s)) = Cardinality(1..n)
    BY <1>1, <1>2, FS_Surjection
  <1>4. ASSUME Distinct(q) PROVE Elems(q) = Elems(s)
    <2>1. q \in Injection(1..n, Elems(s))
      BY <1>4 DEF Injection, IsInjective, Distinct
    <2>2. q \in Surjection(1..n, Elems(s))
      BY <1>3, <2>1, FS_Injection
    <2> QED BY <2>2 DEF Surjection, Elems
  <1>5. ASSUME Elems(q) = Elems(s) PROVE Distinct(q)
    <2>1. q \in Surjection(1..n, Elems(s))
      BY <1>5 DEF Surjection, Elems
    <2>2. q \in Injection(1..n, Elems(s))
      BY <1>1, <1>3, <2>1, FS_Surjection
    <2> QED BY <2>2 DEF Injection, IsInjective, Distinct
  <1> QED BY <1>4, <1>5

---------------------------------------------------------------------------
(* The invariant.                                                          *)

N == Len(slots)
BinSet(c) == (binOffset[c] + 1)..(binOffset[c] + binLength[c])
Sweeping == pc \in {"binned", "tail"}
Leaving  == pc \in {"packed", "deposited"} /\ ~isLastStep

(* The arrays of the tile agree in length, and nothing occurs twice.        *)
Typed ==
  /\ TypeOK
  /\ Len(idcpu) = N /\ Distinct(slots) /\ Distinct(idcpu)

(* Particles outside the arrays carry identifiers of their own.             *)
Apart ==
  \A p \in Particle \ Elems(slots) :
    /\ carried[p] \notin Elems(idcpu)
    /\ \A q \in Particle \ Elems(slots) : carried[p] = carried[q] => p = q

(* The marks lie in the arrays, in this order.                              *)
Marks ==
  /\ moveBegin <= N
  /\ ~isLastStep => newBegin <= N
  /\ pc \notin {"binned", "tail", "swept"} /\ ~isLastStep => moveBegin <= newBegin
  /\ ~initialized => moveBegin = 0
  /\ pc \in {"binned", "tail", "swept"} => N > 0 /\ initialized
  /\ pc # "idle" => step < LastStep

(* Outside the sweep the bins divide the slots up to moveBegin, and each    *)
(* holds the particles of its cell.                                        *)
Binned == ~Sweeping =>
  /\ \A c \in Cell : \A i \in BinSet(c) : i \in 1..moveBegin /\ cell[slots[i]] = c
  /\ \A i \in 1..moveBegin : \E c \in Cell : i \in BinSet(c)

(* The arrays hold what is in the tile, and behind newBegin what is going   *)
(* to be erased: departed particles, which carry their identifiers, and    *)
(* injected ones.                                                          *)
Held ==
  /\ Inside \ added \subseteq Elems(slots)
  /\ pc \in {"idle", "binned", "tail", "swept", "packed"} => added \cap Elems(slots) = {}
  /\ pc \in {"idle", "collect", "sort"} => \A i \in 1..N : cell[slots[i]] # 0
  /\ Leaving =>
       /\ \A i \in 1..newBegin : cell[slots[i]] # 0
       /\ \A i \in (newBegin + 1)..N :
            /\ cell[slots[i]] = 0 \/ slots[i] \in added
            /\ idcpu[i] = carried[slots[i]]

(* The slots the sweep has not read, and those of buf it has written.       *)
Later ==
  {i \in 1..N : \E c \in (bin + 1)..NCell : i \in BinSet(c) \/ i \in Elems(binToIp[c])}
Unread ==
  Elems(todo) \cup Later \cup (IF pc = "binned" THEN Elems(binToIp[bin]) ELSE {})
Filled == (1..front) \cup ((back + 1)..N)

(* Slots not read are where the bins say, unbinned ones behind moveBegin.   *)
Sources ==
  /\ Distinct(todo)
  /\ \A i \in Elems(todo) :
       /\ i \in 1..N /\ cell[slots[i]] = bin
       /\ IF pc = "binned" THEN i <= moveBegin ELSE i > moveBegin
  /\ \A c \in (bin + 1)..NCell : \A i \in BinSet(c) :
       i \in 1..moveBegin /\ cell[slots[i]] = c
  /\ \A c \in bin..NCell : c > bin \/ pc = "binned" =>
       /\ Distinct(binToIp[c])
       /\ \A i \in Elems(binToIp[c]) : i \in (moveBegin + 1)..N /\ cell[slots[i]] = c

(* What was read was written once, and as many slots are left as unread.    *)
Written ==
  /\ Len(buf) = N /\ front <= back /\ back <= N
  /\ \A i \in 1..N : buf[i] = Empty <=> i \notin Filled
  /\ \A i, j \in Filled : buf[i] = buf[j] => i = j
  /\ \A i \in Filled : \E u \in (1..N) \ Unread : buf[i] = slots[u]
  /\ \A u \in (1..N) \ Unread : \E i \in Filled : buf[i] = slots[u]
  /\ back - front = Cardinality(Unread)

(* The new ranges divide the front of buf.                                  *)
NewBins ==
  /\ newLength <= front
  /\ \A c \in 1..(bin - 1) : \A i \in BinSet(c) :
       i \in 1..(front - newLength) /\ cell[buf[i]] = c
  /\ \A i \in 1..(front - newLength) : \E c \in 1..(bin - 1) : i \in BinSet(c)
  /\ \A i \in (front - newLength + 1)..front : cell[buf[i]] = bin

Swept == Sweeping => Sources /\ Written /\ NewBins

IInv == Typed /\ Apart /\ Marks /\ Binned /\ Held /\ Swept

---------------------------------------------------------------------------
(* The initial state.                                                      *)

LEMMA IsSequence ==
  ASSUME NEW S, NEW n \in Nat, NEW s \in [1..n -> S]
  PROVE  s \in Seq(S) /\ Len(s) = n
  OBVIOUS

LEMMA OrdersAre ==
  ASSUME NEW S, NEW n \in Nat, NEW q \in Orders(S, n)
  PROVE  /\ q \in Seq(S) /\ Len(q) \in Nat /\ q \in [1..Len(q) -> S]
         /\ Distinct(q)
  <1>1. PICK k \in 0..n : q \in [1..k -> S]
    BY Zenon DEF Orders
  <1>2. k \in Nat
    OBVIOUS
  <1>3. q \in Seq(S) /\ Len(q) = k
    BY <1>1, <1>2, IsSequence
  <1>4. Distinct(q)
    BY Zenon DEF Orders
  <1> QED BY <1>1, <1>2, <1>3, <1>4

(* InitBin's ranges hold the particles of each cell.                        *)
LEMMA SortedBins ==
  ASSUME slots \in Seq(Particle), cell \in [Particle -> 0..NCell], SortedByCell(slots),
         NEW c \in Cell
  PROVE  /\ Cardinality(BelowCell(c)) \in Nat /\ Cardinality(InCell(c)) \in Nat
         /\ InCell(c) = (Cardinality(BelowCell(c)) + 1)
                          ..(Cardinality(BelowCell(c)) + Cardinality(InCell(c)))
  <1> DEFINE n == Len(slots)
             f(i) == cell[slots[i]]
             below == BelowCell(c)
             in == InCell(c)
  <1>1. n \in Nat /\ c \in Nat /\ \A i \in 1..n : f(i) \in Nat
    BY PhysSortAssumption DEF Cell
  <1>0. /\ below = {i \in 1..n : f(i) < c} /\ in = {i \in 1..n : f(i) = c}
        /\ \A i, j \in 1..n : i < j => f(i) <= f(j)
    BY DEF BelowCell, InCell, SortedByCell
  <1> HIDE DEF n, f, below, in
  <1>2. below \in SUBSET (1..n) /\ in \in SUBSET (1..n) /\ below \cup in \in SUBSET (1..n)
        /\ below \cap in = {}
    BY <1>0, <1>1
  <1>3. \A i \in below : \A j \in 1..i : j \in below
    <2> TAKE i \in below
    <2> TAKE j \in 1..i
    <2>1. i \in 1..n /\ j \in 1..n /\ (j = i \/ j < i) /\ f(i) < c
      BY <1>0, <1>1
    <2> QED BY <1>0, <1>1, <2>1
  <1>4. \A i \in below \cup in : \A j \in 1..i : j \in below \cup in
    <2> TAKE i \in below \cup in
    <2> TAKE j \in 1..i
    <2>1. i \in 1..n /\ j \in 1..n /\ (j = i \/ j < i) /\ f(i) <= c
      BY <1>0, <1>1
    <2>2. f(j) <= c
      BY <1>0, <1>1, <2>1
    <2> QED BY <1>0, <1>1, <2>1, <2>2
  <1>5. /\ IsFiniteSet(below) /\ Cardinality(below) \in Nat /\ below = 1..Cardinality(below)
    BY <1>1, <1>2, <1>3, InitialSegment
  <1>6. /\ IsFiniteSet(below \cup in) /\ Cardinality(below \cup in) \in Nat
        /\ below \cup in = 1..Cardinality(below \cup in)
    BY <1>1, <1>2, <1>4, InitialSegment
  <1>7. IsFiniteSet(in) /\ Cardinality(in) \in Nat
    BY <1>1, <1>2, BoundedFinite
  <1>8. Cardinality(below \cup in) = Cardinality(below) + Cardinality(in)
    <2>1. Cardinality(below \cup in)
            = Cardinality(below) + Cardinality(in) - Cardinality(below \cap in)
      BY <1>5, <1>7, FS_Union
    <2>2. Cardinality(below \cap in) = 0
      BY <1>2, FS_EmptySet
    <2> QED BY <1>5, <1>7, <2>1, <2>2
  <1>9. in = (below \cup in) \ below
    BY <1>2
  <1>10. \A i : i \in in <=> i \in 1..Cardinality(below \cup in) /\ i \notin 1..Cardinality(below)
    BY <1>5, <1>6, <1>9, Zenon
  <1>11. \A a, b \in Nat : \A i :
           i \in 1..(a + b) /\ i \notin 1..a <=> i \in (a + 1)..(a + b)
    OBVIOUS
  <1>12. \A i : i \in in <=> i \in (Cardinality(below) + 1)..(Cardinality(below) + Cardinality(in))
    BY <1>5, <1>7, <1>8, <1>10, <1>11, Zenon
  <1> QED BY <1>5, <1>7, <1>12, Zenon DEF below, in

LEMMA InitHolds == Init => IInv
  <1> SUFFICES ASSUME Init PROVE IInv
    OBVIOUS
  <1>1. /\ cell \in [Particle -> 0..NCell] /\ slots \in Orders(Particle, MaxArrive)
        /\ Elems(slots) = {p \in Particle : cell[p] # 0}
        /\ idcpu = slots /\ carried = [p \in Particle |-> p]
        /\ moveBegin = Len(slots) /\ newBegin = Len(slots) /\ pc = "idle"
        /\ added = {} /\ initialized = TRUE /\ SortedByCell(slots)
    BY DEF Init
  <1>2. /\ slots \in Seq(Particle) /\ N \in Nat /\ slots \in [1..N -> Particle]
        /\ Distinct(slots)
    BY <1>1, OrdersAre, PhysSortAssumption DEF N
  <1>3. \A i \in 1..N : cell[slots[i]] # 0
    BY <1>1, <1>2 DEF Elems, N
  <1>4. \A c \in Cell : /\ Cardinality(BelowCell(c)) \in Nat /\ Cardinality(InCell(c)) \in Nat
                        /\ BinSet(c) = InCell(c)
    <2> TAKE c \in Cell
    <2>2. /\ Cardinality(BelowCell(c)) \in Nat /\ Cardinality(InCell(c)) \in Nat
          /\ InCell(c) = (Cardinality(BelowCell(c)) + 1)
                           ..(Cardinality(BelowCell(c)) + Cardinality(InCell(c)))
      BY <1>1, <1>2, SortedBins, Zenon
    <2>3. binOffset[c] = Cardinality(BelowCell(c)) /\ binLength[c] = Cardinality(InCell(c))
      BY DEF Init
    <2> QED BY <2>2, <2>3 DEF BinSet
  <1>5. TypeOK
    <2>1. binOffset \in [Cell -> Int] /\ binLength \in [Cell -> Nat]
      BY <1>4 DEF Init
    <2>2. binToIp \in [Cell -> Seq(Nat)]
      <3>1. <<>> \in Seq(Nat)
        OBVIOUS
      <3> QED BY <3>1, Zenon DEF Init
    <2>3. current \in [Particle -> [0..NCell -> Nat]]
      BY DEF Init, NoCurrent
    <2>4. step \in 0..LastStep /\ bin \in Cell
      BY PhysSortAssumption DEF Init, Cell
    <2>5. carried \in [Particle -> Particle]
      BY <1>1
    <2>6. /\ todo \in Seq(Nat) /\ buf \in Seq(Particle \cup {Empty})
          /\ newLength \in Nat /\ front \in Nat /\ back \in Int
          /\ isLastStep \in BOOLEAN /\ added \subseteq Particle
      <3>1. <<>> \in Seq(Nat) /\ <<>> \in Seq(Particle \cup {Empty})
        BY EmptySeq
      <3>2. todo = <<>> /\ buf = <<>> /\ isLastStep = FALSE /\ added = {}
        BY Zenon DEF Init
      <3>5. newLength = 0 /\ front = 0 /\ back = 0
        BY Zenon DEF Init
      <3>3. todo \in Seq(Nat) /\ buf \in Seq(Particle \cup {Empty}) /\ added \subseteq Particle
        BY <3>1, <3>2, Zenon
      <3>4. newLength \in Nat /\ front \in Nat /\ back \in Int
        BY <3>5
      <3>6. isLastStep \in BOOLEAN
        BY <3>2, Zenon
      <3> QED BY <3>3, <3>4, <3>6, Zenon
    <2> QED BY <1>1, <1>2, <2>1, <2>2, <2>3, <2>4, <2>5, <2>6 DEF TypeOK, N
  <1>6. Typed
    BY <1>1, <1>2, <1>5 DEF Typed, N
  <1>7. Apart
    BY <1>1 DEF Apart
  <1>8. Marks
    BY <1>1, <1>2 DEF Marks, N
  <1>9. Binned
    <2>1. \A c \in Cell : \A i \in BinSet(c) : i \in 1..moveBegin /\ cell[slots[i]] = c
      BY <1>1, <1>4 DEF InCell
    <2>2. \A i \in 1..moveBegin : \E c \in Cell : i \in BinSet(c)
      <3> TAKE i \in 1..moveBegin
      <3>1. cell[slots[i]] \in Cell
        BY <1>1, <1>2, <1>3, PhysSortAssumption DEF N, Cell
      <3> QED BY <1>1, <1>4, <3>1 DEF InCell
    <2> QED BY <2>1, <2>2 DEF Binned
  <1>10. Held
    BY <1>1, <1>3 DEF Held, Inside, Leaving
  <1>11. Swept
    BY <1>1 DEF Swept, Sweeping
  <1> QED BY <1>6, <1>7, <1>8, <1>9, <1>10, <1>11 DEF IInv

---------------------------------------------------------------------------
(* The steps that leave the arrays alone, or almost.                        *)

LEMMA Shape ==
  ASSUME Typed
  PROVE  /\ N \in Nat /\ slots \in [1..N -> Particle] /\ idcpu \in [1..N -> Particle]
         /\ \A i, j \in 1..N : slots[i] = slots[j] => i = j
         /\ \A i, j \in 1..N : idcpu[i] = idcpu[j] => i = j
         /\ \A i \in 1..N : slots[i] \in Elems(slots) /\ idcpu[i] \in Elems(idcpu)
         /\ \A p \in Elems(slots) : p \in Particle /\ \E i \in 1..N : slots[i] = p
         /\ \A p \in Elems(idcpu) : p \in Particle /\ \E i \in 1..N : idcpu[i] = p
         /\ moveBegin \in Nat /\ newBegin \in Nat /\ NCell \in Nat \ {0}
         /\ cell \in [Particle -> 0..NCell] /\ carried \in [Particle -> Particle]
  <1>1. /\ slots \in Seq(Particle) /\ idcpu \in Seq(Particle) /\ Len(idcpu) = N
        /\ Distinct(slots) /\ Distinct(idcpu)
    BY DEF Typed, TypeOK
  <1>2. N \in Nat /\ slots \in [1..N -> Particle] /\ idcpu \in [1..N -> Particle]
    BY <1>1 DEF N
  <1>3. moveBegin \in Nat /\ newBegin \in Nat /\ NCell \in Nat \ {0}
         /\ cell \in [Particle -> 0..NCell] /\ carried \in [Particle -> Particle]
    BY PhysSortAssumption DEF Typed, TypeOK
  <1> QED BY <1>1, <1>2, <1>3 DEF Elems, Distinct, N

LEMMA EndBinnedHolds == IInv /\ EndBinned => IInv'
  <1> SUFFICES ASSUME IInv, EndBinned PROVE IInv'
    OBVIOUS
  <1>1. /\ pc = "binned" /\ todo = <<>> /\ pc' = "tail" /\ todo' = binToIp[bin]
        /\ UNCHANGED <<step, isLastStep, slots, idcpu, cell, carried, binOffset, binLength,
                       moveBegin, newBegin, initialized, binToIp, bin, newLength, front, back,
                       buf, current, added>>
    BY Zenon DEF EndBinned, tile, bins
  <1>2. TypeOK'
    BY <1>1, Zenon DEF IInv, Typed, TypeOK
  <1>3. Typed' /\ Apart'
    BY <1>1, <1>2 DEF IInv, Typed, Apart, N, Distinct, Elems
  <1>4. Marks' /\ Binned'
    BY <1>1 DEF IInv, Marks, Binned, N, Sweeping
  <1>5. Held'
    BY <1>1 DEF IInv, Held, N, Elems, Inside, Leaving
  <1>6. Sources /\ Written /\ NewBins
    BY <1>1 DEF IInv, Swept, Sweeping
  <1>7. bin \in Cell /\ bin \in bin..NCell /\ bin \in Nat /\ NCell \in Nat
    BY PhysSortAssumption DEF IInv, Typed, TypeOK, Cell
  <1>8. Elems(todo) = {}
    BY <1>1 DEF Elems
  <1>9. Later' = Later /\ N' = N /\ Filled' = Filled
    BY <1>1 DEF Later, BinSet, N, Elems, Filled
  <1>10. Unread' = Unread
    BY <1>1, <1>8, <1>9 DEF Unread, Elems
  <1>11. Distinct(binToIp[bin]) /\ \A i \in Elems(binToIp[bin]) :
             i \in (moveBegin + 1)..N /\ cell[slots[i]] = bin
    BY <1>1, <1>6, <1>7 DEF Sources
  <1>12. moveBegin \in Nat /\ N \in Nat
    BY Shape DEF IInv
  <1>13. Distinct(todo)' /\ \A i \in Elems(todo') : i \in 1..N /\ cell[slots[i]] = bin
            /\ i > moveBegin
    <2>1. Distinct(todo')
      BY <1>1, <1>11
    <2>2. \A i \in Elems(todo') : i \in (moveBegin + 1)..N /\ cell[slots[i]] = bin
      BY <1>1, <1>11
    <2> QED BY <1>12, <2>1, <2>2
  <1>14. /\ \A c \in (bin + 1)..NCell : \A i \in BinSet(c)' :
             i \in 1..moveBegin /\ cell[slots[i]] = c
        /\ \A c \in bin..NCell : c > bin  =>
             /\ Distinct(binToIp[c])'
             /\ \A i \in Elems(binToIp'[c]) : i \in (moveBegin + 1)..N /\ cell[slots[i]] = c
    BY <1>1, <1>6 DEF Sources, Distinct, Elems, BinSet, N
  <1>15. Sources'
    BY <1>1, <1>13, <1>14 DEF Sources, N
  <1>16. Written'
    BY <1>1, <1>6, <1>9, <1>10 DEF Written
  <1>17. NewBins'
    BY <1>1, <1>6 DEF NewBins, BinSet
  <1> QED BY <1>1, <1>3, <1>4, <1>5, <1>6, <1>15, <1>16, <1>17 DEF IInv, Swept

LEMMA DepositHolds == IInv /\ Deposit => IInv'
  <1> SUFFICES ASSUME IInv, Deposit PROVE IInv'
    OBVIOUS
  <1>1. /\ pc = (IF isLastStep THEN "swept" ELSE "packed") /\ pc' = "deposited"
        /\ UNCHANGED <<step, isLastStep, slots, idcpu, cell, carried, binOffset, binLength,
                       moveBegin, newBegin, initialized, binToIp, bin, todo, newLength, front,
                       back, buf, added>>
    BY Zenon DEF Deposit, tile, bins, sweep
  <1>0. N \in Nat
    BY Shape DEF IInv
  <1>2. current' \in [Particle -> [0..NCell -> Nat]]
    <2>1. \A c \in 0..NCell, p \in Particle :
            /\ Cardinality({i \in 1..Len(slots) : slots[i] = p /\ InBin(i, c)}) \in Nat
            /\ Cardinality({i \in Unsorted : slots[i] = p /\ cell[p] = c}) \in Nat
      <3> TAKE c \in 0..NCell, p \in Particle
      <3>1. moveBegin \in Nat
        BY Shape DEF IInv
      <3>2. {i \in 1..Len(slots) : slots[i] = p /\ InBin(i, c)} \in SUBSET (1..N)
        BY DEF N
      <3>3. {i \in Unsorted : slots[i] = p /\ cell[p] = c} \in SUBSET (1..N)
        BY <3>1 DEF N, Unsorted
      <3> QED BY <1>0, <3>2, <3>3, BoundedFinite
    <2>2. \A c \in 0..NCell, p \in Particle :
            Cardinality({i \in 1..Len(slots) : slots[i] = p /\ InBin(i, c)})
            + Cardinality({i \in Unsorted : slots[i] = p /\ cell[p] = c}) \in Nat
      BY <2>1
    <2> QED BY <2>2, Zenon DEF Deposit
  <1>3. TypeOK'
    BY <1>1, <1>2, Zenon DEF IInv, Typed, TypeOK
  <1>4. Typed' /\ Apart'
    BY <1>1, <1>3 DEF IInv, Typed, Apart, N, Distinct, Elems
  <1>5. Marks'
    BY <1>1 DEF IInv, Marks, N
  <1>6. Binned' /\ Swept'
    BY <1>1 DEF IInv, Binned, N, Sweeping, Swept, BinSet
  <1>7. Held'
    BY <1>1 DEF IInv, Held, N, Elems, Inside, Leaving
  <1> QED BY <1>4, <1>5, <1>6, <1>7 DEF IInv

LEMMA EndStepHolds == IInv /\ EndStep => IInv'
  <1> SUFFICES ASSUME IInv, EndStep PROVE IInv'
    OBVIOUS
  <1>1. /\ pc = "sort" /\ pc' = "idle" /\ step' = step + 1
        /\ added' = added \ Elems(slots)
        /\ UNCHANGED <<isLastStep, slots, idcpu, cell, carried, binOffset, binLength,
                       moveBegin, newBegin, initialized, binToIp, bin, todo, newLength, front,
                       back, buf, current>>
    BY Zenon DEF EndStep, tile, bins, sweep
  <1>2. step' \in 0..LastStep
    BY <1>1, PhysSortAssumption DEF IInv, Typed, TypeOK, Marks
  <1>3. TypeOK'
    <2>1. added' \subseteq Particle
      BY <1>1 DEF IInv, Typed, TypeOK
    <2> QED BY <1>1, <1>2, <2>1, Zenon DEF IInv, Typed, TypeOK
  <1>4. Typed' /\ Apart'
    BY <1>1, <1>3 DEF IInv, Typed, Apart, N, Distinct, Elems
  <1>5. Marks'
    BY <1>1 DEF IInv, Marks, N
  <1>6. Binned' /\ Swept'
    BY <1>1 DEF IInv, Binned, N, Sweeping, Swept, BinSet
  <1>7. Held'
    BY <1>1 DEF IInv, Held, N, Elems, Inside, Leaving
  <1> QED BY <1>4, <1>5, <1>6, <1>7 DEF IInv

---------------------------------------------------------------------------
(* The steps that append particles, and those that erase some before.       *)

(* u is the first k of s with q behind. *)
IsJoin(u, s, k, q, S) ==
  /\ u \in Seq(S) /\ Len(u) = k + Len(q)
  /\ \A i \in 1..k : u[i] = s[i]
  /\ \A i \in (k + 1)..(k + Len(q)) : u[i] = q[i - k]

LEMMA Joined ==
  ASSUME NEW S, NEW s \in Seq(S), NEW k \in 0..Len(s), NEW q \in Seq(S)
  PROVE  IsJoin(UpTo(s, k) \o q, s, k, q, S)
  <1>1. UpTo(s, k) \in Seq(S) /\ Len(UpTo(s, k)) = k /\ \A i \in 1..k : UpTo(s, k)[i] = s[i]
    BY DEF UpTo
  <1> DEFINE u == UpTo(s, k)
  <1> HIDE DEF u
  <1>2. u \in Seq(S) /\ Len(u) = k /\ \A i \in 1..k : u[i] = s[i]
    BY <1>1 DEF u
  <1>3. /\ u \o q \in Seq(S) /\ Len(u \o q) = k + Len(q)
        /\ \A i \in 1..k : (u \o q)[i] = s[i]
        /\ \A i \in (k + 1)..(k + Len(q)) : (u \o q)[i] = q[i - k]
    BY <1>2
  <1> QED BY <1>3 DEF u, IsJoin

(* What is left of the arrays, and particles from outside behind it, each   *)
(* with the identifier it carries; what is erased carries its identifier.   *)
Arrive(k, q) ==
  /\ slots' = UpTo(slots, k) \o q
  /\ idcpu' = UpTo(idcpu, k) \o Ids(q)
  /\ carried' = carried

LEMMA Arrivals ==
  ASSUME Typed, Apart, NEW k \in 0..N, NEW q \in Seq(Away), Distinct(q), Arrive(k, q),
         \A i \in (k + 1)..N : idcpu[i] = carried[slots[i]]
  PROVE  /\ slots' \in Seq(Particle) /\ idcpu' \in Seq(Particle)
         /\ Len(q) \in Nat /\ N' = k + Len(q) /\ Len(idcpu') = N'
         /\ Distinct(slots') /\ Distinct(idcpu')
         /\ \A i \in 1..k : slots'[i] = slots[i] /\ idcpu'[i] = idcpu[i]
         /\ \A i \in (k + 1)..N' : slots'[i] \in Elems(q) /\ idcpu'[i] = carried[slots'[i]]
         /\ Elems(q) \subseteq Elems(slots')
         /\ \A i \in 1..k : slots[i] \in Elems(slots')
         /\ Elems(q) \cap Elems(slots) = {}
         /\ Apart'
  <1> DEFINE m == Len(q)
             ids == Ids(q)
  <1>0. /\ slots' = UpTo(slots, k) \o q /\ idcpu' = UpTo(idcpu, k) \o ids
        /\ carried' = carried /\ k \in Nat
    BY Shape DEF Arrive
  <1>1. /\ N \in Nat /\ slots \in [1..N -> Particle] /\ idcpu \in [1..N -> Particle]
        /\ \A i, j \in 1..N : slots[i] = slots[j] => i = j
        /\ \A i, j \in 1..N : idcpu[i] = idcpu[j] => i = j
        /\ \A i \in 1..N : slots[i] \in Elems(slots) /\ idcpu[i] \in Elems(idcpu)
        /\ \A p \in Elems(slots) : p \in Particle /\ \E i \in 1..N : slots[i] = p
        /\ \A p \in Elems(idcpu) : p \in Particle /\ \E i \in 1..N : idcpu[i] = p
        /\ carried \in [Particle -> Particle]
    BY Shape
  <1>2. slots \in Seq(Particle) /\ idcpu \in Seq(Particle) /\ Len(slots) = N /\ Len(idcpu) = N
    BY DEF Typed, TypeOK, N
  <1>3. /\ q \in Seq(Particle) /\ m \in Nat
        /\ \A j \in 1..m : q[j] \in Particle \ Elems(slots) /\ q[j] \in Elems(q)
    <2>1. q \in Seq(Away) /\ \A x \in Away : x \in Particle \ Elems(slots)
      BY DEF Away
    <2>2. m \in Nat /\ q \in [1..m -> Away]
      BY <2>1
    <2>3. q \in [1..m -> Particle]
      BY <2>1, <2>2
    <2>4. q \in Seq(Particle)
      BY <2>2, <2>3, IsSequence
    <2> QED BY <2>1, <2>2, <2>4 DEF Elems
  <1>4. ids \in Seq(Particle) /\ Len(ids) = m /\ \A j \in 1..m : ids[j] = carried[q[j]]
    BY <1>1, <1>3 DEF Ids
  <1> HIDE DEF m, ids
  <1>5. /\ slots' \in Seq(Particle) /\ N' = k + m
        /\ \A i \in 1..k : slots'[i] = slots[i]
        /\ \A i \in (k + 1)..(k + m) : slots'[i] = q[i - k]
    <2>1. IsJoin(UpTo(slots, k) \o q, slots, k, q, Particle)
      <3>1. k \in 0..Len(slots)
        BY <1>2
      <3> QED BY <1>2, <1>3, <3>1, Joined
    <2> QED BY <1>0, <2>1 DEF N, m, IsJoin
  <1>6. /\ idcpu' \in Seq(Particle) /\ Len(idcpu') = k + m
        /\ \A i \in 1..k : idcpu'[i] = idcpu[i]
        /\ \A i \in (k + 1)..(k + m) : idcpu'[i] = ids[i - k]
    <2>1. IsJoin(UpTo(idcpu, k) \o ids, idcpu, k, ids, Particle)
      <3>1. k \in 0..Len(idcpu) /\ idcpu \in Seq(Particle) /\ ids \in Seq(Particle)
        BY <1>2, <1>4
      <3> QED BY <3>1, Joined
    <2> QED BY <1>0, <1>4, <2>1 DEF IsJoin
  <1>k. k \in Nat /\ N \in Nat /\ k <= N /\ m \in Nat
    BY <1>0, <1>1, <1>3
  <1>7. \A i \in (k + 1)..(k + m) :
          /\ i - k \in 1..m /\ slots'[i] = q[i - k] /\ slots'[i] \in Elems(q)
          /\ slots'[i] \in Particle \ Elems(slots) /\ idcpu'[i] = carried[slots'[i]]
    <2> TAKE i \in (k + 1)..(k + m)
    <2>1. i - k \in 1..m
      BY <1>k
    <2>2. slots'[i] = q[i - k] /\ idcpu'[i] = ids[i - k]
      BY <1>5, <1>6, Zenon
    <2> QED BY <1>3, <1>4, <2>1, <2>2, Zenon
  <1>8. \A i \in 1..k : i \in 1..N /\ slots'[i] = slots[i] /\ idcpu'[i] = idcpu[i]
    <2>1. \A i \in 1..k : i \in 1..N
      BY <1>k
    <2> QED BY <1>5, <1>6, <2>1, Zenon
  <1>9. \A i \in 1..(k + m) : i \in 1..k \/ i \in (k + 1)..(k + m)
    BY <1>k
  <1>10. \A i, j \in (k + 1)..(k + m) : slots'[i] = slots'[j] => i = j
    <2> TAKE i, j \in (k + 1)..(k + m)
    <2> HAVE slots'[i] = slots'[j]
    <2>1. i - k \in 1..m /\ j - k \in 1..m /\ q[i - k] = q[j - k]
      BY <1>7
    <2>2. i - k = j - k
      BY <2>1 DEF Distinct, m
    <2> QED BY <1>k, <2>2
  <1>11. \A i, j \in 1..(k + m) : slots'[i] = slots'[j] => i = j
    <2> TAKE i, j \in 1..(k + m)
    <2> HAVE slots'[i] = slots'[j]
    <2>1. i \in 1..k => slots'[i] \in Elems(slots)
      BY <1>1, <1>8, Zenon
    <2>2. j \in 1..k => slots'[j] \in Elems(slots)
      BY <1>1, <1>8, Zenon
    <2>3. i \in 1..k /\ j \in 1..k => i = j
      <3> HAVE i \in 1..k /\ j \in 1..k
      <3>1. i \in 1..N /\ j \in 1..N /\ slots[i] = slots[j]
        BY <1>8, Zenon
      <3> QED BY <1>1, <3>1, Zenon
    <2> QED BY <1>7, <1>9, <1>10, <2>1, <2>2, <2>3, Zenon
  <1>12. \A p \in Particle \ Elems(slots) : carried[p] \notin Elems(idcpu)
    BY DEF Apart
  <1>13. \A p, r \in Particle \ Elems(slots) : carried[p] = carried[r] => p = r
    BY DEF Apart
  <1>14. \A i, j \in 1..(k + m) : idcpu'[i] = idcpu'[j] => i = j
    <2> TAKE i, j \in 1..(k + m)
    <2> HAVE idcpu'[i] = idcpu'[j]
    <2>1. i \in 1..k => idcpu'[i] \in Elems(idcpu)
      BY <1>1, <1>8, Zenon
    <2>2. j \in 1..k => idcpu'[j] \in Elems(idcpu)
      BY <1>1, <1>8, Zenon
    <2>3. i \in 1..k /\ j \in 1..k => i = j
      <3> HAVE i \in 1..k /\ j \in 1..k
      <3>1. i \in 1..N /\ j \in 1..N /\ idcpu[i] = idcpu[j]
        BY <1>8, Zenon
      <3> QED BY <1>1, <3>1, Zenon
    <2>4. i \in (k + 1)..(k + m) => idcpu'[i] \notin Elems(idcpu)
      BY <1>7, <1>12, Zenon
    <2>5. j \in (k + 1)..(k + m) => idcpu'[j] \notin Elems(idcpu)
      BY <1>7, <1>12, Zenon
    <2>6. i \in (k + 1)..(k + m) /\ j \in (k + 1)..(k + m) => i = j
      <3> HAVE i \in (k + 1)..(k + m) /\ j \in (k + 1)..(k + m)
      <3>1. carried[slots'[i]] = carried[slots'[j]]
        BY <1>7, Zenon
      <3>2. slots'[i] = slots'[j]
        BY <1>7, <1>13, <3>1, Zenon
      <3> QED BY <1>10, <3>2, Zenon
    <2> QED BY <1>9, <2>1, <2>2, <2>3, <2>4, <2>5, <2>6, Zenon
  <1>15. Elems(slots') = {slots'[i] : i \in 1..(k + m)} /\ Elems(idcpu') = {idcpu'[i] : i \in 1..(k + m)}
    BY <1>5, <1>6 DEF N, Elems
  <1>16. Elems(q) \subseteq Elems(slots') /\ Elems(q) \cap Elems(slots) = {}
    <2>1. \A j \in 1..m : j + k \in (k + 1)..(k + m) /\ j + k \in 1..(k + m) /\ slots'[j + k] = q[j]
      <3> TAKE j \in 1..m
      <3>1. j + k \in (k + 1)..(k + m) /\ j + k \in 1..(k + m) /\ (j + k) - k = j
        BY <1>k
      <3> QED BY <1>7, <3>1
    <2>2. \A p \in Elems(q) : \E j \in 1..m : p = q[j]
      BY DEF Elems, m
    <2> QED BY <1>3, <1>15, <2>1, <2>2
  <1>17. \A i \in 1..k : slots[i] \in Elems(slots')
    <2>1. \A i \in 1..k : i \in 1..(k + m)
      BY <1>k
    <2> QED BY <1>8, <1>15, <2>1, Zenon
  <1>18. \A p \in Particle \ Elems(slots') :
           p \in Elems(slots) => \E i \in (k + 1)..N : p = slots[i] /\ carried[p] = idcpu[i]
    <2>1. \A i \in 1..N : i \in 1..k \/ i \in (k + 1)..N
      BY <1>0, <1>1
    <2> QED BY <1>1, <1>17, <2>1
  <1>19. \A p \in Particle \ Elems(slots') : carried[p] \notin Elems(idcpu')
    <2> SUFFICES ASSUME NEW p \in Particle \ Elems(slots'), NEW i \in 1..(k + m),
                        carried[p] = idcpu'[i]
                 PROVE  FALSE
      BY <1>15
    <2>1. CASE p \in Elems(slots)
      <3>1. PICK j \in (k + 1)..N : p = slots[j] /\ carried[p] = idcpu[j]
        BY <1>18, <2>1
      <3>2. j \in 1..N /\ j \notin 1..k /\ carried[p] \in Elems(idcpu)
        BY <1>1, <3>1
      <3> QED BY <1>1, <1>7, <1>8, <1>9, <1>12, <3>1, <3>2
    <2>2. CASE p \notin Elems(slots)
      <3>1. i \in 1..k => FALSE
        BY <1>1, <1>8, <1>12, <2>2
      <3>2. i \in (k + 1)..(k + m) => p = slots'[i]
        BY <1>7, <1>13, <2>2
      <3> QED BY <1>9, <1>15, <3>1, <3>2
    <2> QED BY <2>1, <2>2
  <1>20. \A p, r \in Particle \ Elems(slots') : carried[p] = carried[r] => p = r
    <2> SUFFICES ASSUME NEW p \in Particle \ Elems(slots'), NEW r \in Particle \ Elems(slots'),
                        carried[p] = carried[r]
                 PROVE  p = r
      OBVIOUS
    <2>1. \A x \in {p, r} : x \in Elems(slots) =>
             \E i \in 1..N : x = slots[i] /\ carried[x] = idcpu[i] /\ carried[x] \in Elems(idcpu)
      BY <1>1, <1>18
    <2> QED BY <1>1, <1>12, <1>13, <2>1
  <1>21. Apart'
    <2>1. carried' = carried
      BY <1>0
    <2> QED BY <1>19, <1>20, <2>1, Zenon DEF Apart
  <1>22. Distinct(slots') /\ Distinct(idcpu')
    BY <1>5, <1>6, <1>11, <1>14 DEF Distinct, N
  <1> QED BY <1>3, <1>5, <1>6, <1>7, <1>8, <1>16, <1>17, <1>21, <1>22 DEF m

(* What the particles that arrive leave untouched, and what holds of them.  *)
LEMMA ArrivalsKeep ==
  ASSUME IInv, ~Sweeping, NEW k \in 0..N, moveBegin <= k, NEW q \in Seq(Away), Distinct(q),
         Arrive(k, q), \A i \in (k + 1)..N : idcpu[i] = carried[slots[i]],
         cell' \in [Particle -> 0..NCell],
         \A p \in Particle : IF p \in Elems(q) THEN cell'[p] # 0 ELSE cell'[p] = cell[p],
         UNCHANGED bins, UNCHANGED sweep,
         pc' \in {"deposited", "collect", "sort"}, UNCHANGED <<step, isLastStep, current>>,
         added' \subseteq Particle
  PROVE  /\ Typed' /\ Apart' /\ Binned' /\ Swept'
         /\ Len(q) \in Nat /\ N' = k + Len(q)
         /\ \A i \in 1..k : i \in 1..N /\ slots'[i] = slots[i] /\ idcpu'[i] = idcpu[i]
                            /\ cell'[slots'[i]] = cell[slots[i]]
         /\ \A i \in (k + 1)..N' : /\ slots'[i] \in Elems(q) /\ cell'[slots'[i]] # 0
                                   /\ idcpu'[i] = carried'[slots'[i]]
         /\ Elems(q) \cap Elems(slots) = {}
         /\ Elems(q) \subseteq Elems(slots')
         /\ \A i \in 1..k : slots[i] \in Elems(slots')
  <1>1. Typed /\ Apart /\ Marks /\ Binned
    BY DEF IInv
  <1>2. /\ slots' \in Seq(Particle) /\ idcpu' \in Seq(Particle)
        /\ Len(q) \in Nat /\ N' = k + Len(q) /\ Len(idcpu') = N'
        /\ Distinct(slots') /\ Distinct(idcpu')
        /\ \A i \in 1..k : slots'[i] = slots[i] /\ idcpu'[i] = idcpu[i]
        /\ \A i \in (k + 1)..N' : slots'[i] \in Elems(q) /\ idcpu'[i] = carried[slots'[i]]
        /\ Elems(q) \subseteq Elems(slots')
        /\ \A i \in 1..k : slots[i] \in Elems(slots')
        /\ Elems(q) \cap Elems(slots) = {}
        /\ Apart'
    BY <1>1, Arrivals
  <1>3. /\ N \in Nat /\ \A i \in 1..N : slots[i] \in Elems(slots) /\ slots[i] \in Particle
        /\ moveBegin \in Nat
    BY <1>1, Shape
  <1>4. carried' = carried
    BY DEF Arrive
  <1>5. /\ UNCHANGED <<binOffset, binLength, moveBegin, newBegin, initialized>>
        /\ UNCHANGED <<binToIp, bin, todo, newLength, front, back, buf>>
    BY DEF bins, sweep
  <1>6. TypeOK'
    BY <1>1, <1>2, <1>4, <1>5, Zenon DEF Typed, TypeOK
  <1>7. Typed'
    BY <1>2, <1>6 DEF Typed, N
  <1>8. \A i \in 1..k : i \in 1..N
    BY <1>3
  <1>9. \A i \in 1..k : cell'[slots'[i]] = cell[slots[i]]
    BY <1>2, <1>3, <1>8
  <1>10. \A i \in (k + 1)..N' : cell'[slots'[i]] # 0
    <2>1. Elems(q) \subseteq Particle
      <3>1. Elems(q) \subseteq Away
        BY DEF Elems
      <3> QED BY <3>1 DEF Away
    <2> QED BY <1>2, <2>1
  <1>11. Binned'
    <2>1. \A i \in 1..moveBegin : i \in 1..k
      BY <1>3
    <2>2. /\ \A c \in Cell : \A i \in BinSet(c) : i \in 1..moveBegin /\ cell[slots[i]] = c
          /\ \A i \in 1..moveBegin : \E c \in Cell : i \in BinSet(c)
      BY <1>1 DEF Binned
    <2>3. \A c : BinSet(c)' = BinSet(c)
      BY <1>5 DEF BinSet
    <2>4. /\ \A c \in Cell : \A i \in BinSet(c)' : i \in 1..moveBegin' /\ cell'[slots'[i]] = c
          /\ \A i \in 1..moveBegin' : \E c \in Cell : i \in BinSet(c)'
      BY <1>5, <1>9, <2>1, <2>2, <2>3
    <2> QED BY <2>4, Zenon DEF Binned
  <1>12. Swept'
    BY DEF Swept, Sweeping
  <1> QED BY <1>2, <1>4, <1>7, <1>8, <1>9, <1>10, <1>11, <1>12, Zenon

LEMMA AwayAre ==
  ASSUME NEW n, NEW q \in Orders(Away, n), n \in Nat, NEW c \in [Elems(q) -> Cell],
         cell' = Place(q, c), cell \in [Particle -> 0..NCell]
  PROVE  /\ q \in Seq(Away) /\ Distinct(q)
         /\ cell' \in [Particle -> 0..NCell]
         /\ \A p \in Particle : IF p \in Elems(q) THEN cell'[p] # 0 ELSE cell'[p] = cell[p]
  <1>1. q \in Seq(Away) /\ Distinct(q)
    BY OrdersAre
  <1>2. \A p \in Elems(q) : c[p] \in 0..NCell /\ c[p] # 0
    BY PhysSortAssumption DEF Cell
  <1>3. cell' = [p \in Particle |-> IF p \in Elems(q) THEN c[p] ELSE cell[p]]
    BY Zenon DEF Place
  <1>4. \A p \in Particle : cell'[p] = IF p \in Elems(q) THEN c[p] ELSE cell[p]
    BY <1>3
  <1>5. \A p \in Particle : (IF p \in Elems(q) THEN c[p] ELSE cell[p]) \in 0..NCell
    BY <1>2
  <1> QED BY <1>1, <1>2, <1>3, <1>4, <1>5

LEMMA WholeArrays ==
  ASSUME Typed
  PROVE  UpTo(slots, N) = slots /\ UpTo(idcpu, N) = idcpu
  BY DEF Typed, TypeOK, UpTo, N

LEMMA AppendIsJoin ==
  ASSUME NEW S, NEW s \in Seq(S), NEW x \in S
  PROVE  s \o <<x>> = Append(s, x)
  OBVIOUS

LEMMA InjectHolds == IInv /\ Inject => IInv'
  <1> SUFFICES ASSUME IInv, Inject PROVE IInv'
    OBVIOUS
  <1>1. PICK p \in Away, c \in Cell :
          /\ slots' = Append(slots, p) /\ idcpu' = Append(idcpu, carried[p])
          /\ cell' = [cell EXCEPT ![p] = c] /\ added' = added \cup {p}
    BY Zenon DEF Inject
  <1>2. /\ pc = "deposited" /\ UNCHANGED <<pc, step, isLastStep, carried, current>>
        /\ UNCHANGED bins /\ UNCHANGED sweep
    BY Zenon DEF Inject
  <1>3. UNCHANGED <<moveBegin, newBegin, initialized>>
    BY <1>2, Zenon DEF bins
  <1>4. /\ N \in Nat /\ cell \in [Particle -> 0..NCell] /\ carried \in [Particle -> Particle]
        /\ \A x \in Elems(slots) : x \in Particle /\ \E i \in 1..N : slots[i] = x
        /\ moveBegin \in Nat /\ newBegin \in Nat
        /\ \A i \in 1..N : slots[i] \in Particle
    BY Shape DEF IInv
  <1>5. Typed /\ Apart /\ Marks /\ Binned /\ Held /\ Swept
    BY DEF IInv
  <1> DEFINE q == <<p>>
  <1>6. /\ p \in Particle /\ cell[p] = 0 /\ p \notin Elems(slots)
    BY DEF Away
  <1>7. q \in Seq(Away) /\ Distinct(q) /\ Elems(q) = {p} /\ Len(q) = 1
    BY DEF Distinct, Elems
  <1>8. Arrive(N, q)
    <2>1. UpTo(slots, N) = slots /\ UpTo(idcpu, N) = idcpu
      BY <1>5, WholeArrays
    <2>2. Ids(q) = <<carried[p]>>
      BY DEF Ids
    <2>3. slots \in Seq(Particle) /\ idcpu \in Seq(Particle)
      BY <1>5 DEF Typed, TypeOK
    <2>4. carried[p] \in Particle
      BY <1>4, <1>6
    <2>5. slots \o <<p>> = Append(slots, p)
      BY <1>6, <2>3, AppendIsJoin
    <2>6. idcpu \o <<carried[p]>> = Append(idcpu, carried[p])
      BY <2>4, <2>3, AppendIsJoin
    <2> QED BY <1>1, <1>2, <2>1, <2>2, <2>5, <2>6, Zenon DEF Arrive
  <1>9. cell' \in [Particle -> 0..NCell] /\ cell'[p] # 0
        /\ \A x \in Particle : x # p => cell'[x] = cell[x]
    BY <1>1, <1>4, <1>6, PhysSortAssumption DEF Cell
  <1>10. \A x \in Particle : IF x \in Elems(q) THEN cell'[x] # 0 ELSE cell'[x] = cell[x]
    BY <1>7, <1>9
  <1>11. added' \subseteq Particle
    BY <1>1, <1>5, <1>6 DEF Typed, TypeOK
  <1> HIDE DEF q
  <1>12. /\ Typed' /\ Apart' /\ Binned' /\ Swept'
         /\ Len(q) \in Nat /\ N' = N + Len(q)
         /\ \A i \in 1..N : i \in 1..N /\ slots'[i] = slots[i] /\ idcpu'[i] = idcpu[i]
                            /\ cell'[slots'[i]] = cell[slots[i]]
         /\ \A i \in (N + 1)..N' : /\ slots'[i] \in Elems(q) /\ cell'[slots'[i]] # 0
                                   /\ idcpu'[i] = carried'[slots'[i]]
         /\ Elems(q) \subseteq Elems(slots')
         /\ \A i \in 1..N : slots[i] \in Elems(slots')
    <2>1. /\ N \in 0..N /\ moveBegin <= N /\ ~Sweeping
          /\ \A i \in (N + 1)..N : idcpu[i] = carried[slots[i]]
      BY <1>2, <1>4, <1>5 DEF Marks, Sweeping
    <2>2. pc' \in {"deposited", "collect", "sort"}
      BY <1>2
    <2> QED BY <1>2, <1>7, <1>8, <1>9, <1>10, <1>11, <2>1, <2>2, ArrivalsKeep
  <1>13. Marks'
    BY <1>2, <1>3, <1>4, <1>5, <1>7, <1>12 DEF Marks
  <1>14. Held'
    <2>1. Inside' \ added' \subseteq Elems(slots')
      <3>1. Inside' \ added' \subseteq Inside \ added
        BY <1>1, <1>9 DEF Inside
      <3> QED BY <1>4, <1>5, <1>12, <3>1 DEF Held
    <2>2. Leaving' =>
            /\ \A i \in 1..newBegin' : cell'[slots'[i]] # 0
            /\ \A i \in (newBegin' + 1)..N' :
                 /\ cell'[slots'[i]] = 0 \/ slots'[i] \in added'
                 /\ idcpu'[i] = carried'[slots'[i]]
      <3> SUFFICES ASSUME Leaving'
                   PROVE  /\ \A i \in 1..newBegin : cell'[slots'[i]] # 0
                          /\ \A i \in (newBegin + 1)..N' :
                               /\ cell'[slots'[i]] = 0 \/ slots'[i] \in added'
                               /\ idcpu'[i] = carried'[slots'[i]]
        BY <1>3
      <3>1. Leaving /\ newBegin <= N
        BY <1>2, <1>5 DEF Leaving, Marks
      <3>2. /\ \A i \in 1..newBegin : i \in 1..N /\ cell[slots[i]] # 0
            /\ \A i \in (newBegin + 1)..N :
                 /\ i \in 1..N
                 /\ cell[slots[i]] = 0 \/ slots[i] \in added
                 /\ idcpu[i] = carried[slots[i]]
        BY <1>4, <1>5, <3>1 DEF Held
      <3>3. \A i \in (newBegin + 1)..N' : i \in (newBegin + 1)..N \/ i \in (N + 1)..N'
        BY <1>4, <1>7, <1>12
      <3>4. \A i \in (newBegin + 1)..N :
               /\ cell'[slots'[i]] = 0 \/ slots'[i] \in added'
               /\ idcpu'[i] = carried'[slots'[i]]
        BY <1>1, <1>2, <1>12, <3>2
      <3>5. \A i \in (N + 1)..N' :
               /\ slots'[i] \in added' /\ idcpu'[i] = carried'[slots'[i]]
        BY <1>1, <1>7, <1>12
      <3> QED BY <1>12, <3>2, <3>3, <3>4, <3>5
    <2>3. pc' = "deposited"
      BY <1>2
    <2> QED BY <2>1, <2>2, <2>3 DEF Held
  <1> QED BY <1>12, <1>13, <1>14 DEF IInv

(* The collects, and the arrivals of RedistributeLocal: all that is kept is *)
(* in the tile, and what is erased is not, or was injected.                 *)
LEMMA CollectHolds ==
  ASSUME IInv, ~Sweeping, NEW k \in 0..N, moveBegin <= k, ~isLastStep => newBegin <= k,
         NEW q \in Orders(Away, MaxArrive), NEW c \in [Elems(q) -> Cell], cell' = Place(q, c),
         Arrive(k, q),
         \A i \in 1..k : cell[slots[i]] # 0,
         \A i \in (k + 1)..N : /\ idcpu[i] = carried[slots[i]]
                               /\ cell[slots[i]] = 0 \/ slots[i] \in added,
         pc # "idle", pc' \in {"collect", "sort"},
         (pc \notin {"binned", "tail", "swept"}) \/ isLastStep,
         UNCHANGED bins, UNCHANGED sweep, UNCHANGED <<step, isLastStep, current, added>>
  PROVE  IInv'
  <1>1. Typed /\ Apart /\ Marks /\ Binned /\ Held /\ Swept
    BY DEF IInv
  <1>2. /\ N \in Nat /\ cell \in [Particle -> 0..NCell]
        /\ \A x \in Elems(slots) : x \in Particle /\ \E i \in 1..N : slots[i] = x
        /\ moveBegin \in Nat /\ newBegin \in Nat
    BY <1>1, Shape
  <1>3. UNCHANGED <<moveBegin, newBegin, initialized>>
    BY Zenon DEF bins
  <1>4. /\ q \in Seq(Away) /\ Distinct(q)
        /\ cell' \in [Particle -> 0..NCell]
        /\ \A p \in Particle : IF p \in Elems(q) THEN cell'[p] # 0 ELSE cell'[p] = cell[p]
    BY <1>2, PhysSortAssumption, AwayAre
  <1>5. added' \subseteq Particle /\ pc' \in {"deposited", "collect", "sort"}
    BY <1>1 DEF Typed, TypeOK
  <1>6. \A i \in (k + 1)..N : idcpu[i] = carried[slots[i]]
    OBVIOUS
  <1>7. /\ Typed' /\ Apart' /\ Binned' /\ Swept'
        /\ Len(q) \in Nat /\ N' = k + Len(q)
        /\ \A i \in 1..k : i \in 1..N /\ slots'[i] = slots[i] /\ idcpu'[i] = idcpu[i]
                           /\ cell'[slots'[i]] = cell[slots[i]]
        /\ \A i \in (k + 1)..N' : /\ slots'[i] \in Elems(q) /\ cell'[slots'[i]] # 0
                                  /\ idcpu'[i] = carried'[slots'[i]]
        /\ Elems(q) \subseteq Elems(slots')
        /\ \A i \in 1..k : slots[i] \in Elems(slots')
    BY <1>4, <1>5, <1>6, ArrivalsKeep
  <1>8. Marks'
    <2>1. pc' \notin {"idle", "binned", "tail", "swept"}
      OBVIOUS
    <2>2. k \in Nat /\ k <= N'
      BY <1>2, <1>7
    <2>3. step < LastStep /\ (~initialized => moveBegin = 0)
      BY <1>1 DEF Marks
    <2>4. ~isLastStep => moveBegin <= newBegin
      BY <1>1 DEF Marks
    <2>5. N' \in Nat /\ moveBegin <= N' /\ (~isLastStep => newBegin <= N')
      BY <1>2, <1>7, <2>2
    <2>6. step' = step /\ isLastStep' = isLastStep /\ moveBegin' = moveBegin
          /\ newBegin' = newBegin /\ initialized' = initialized
      BY <1>3
    <2> QED BY <2>1, <2>3, <2>4, <2>5, <2>6 DEF Marks
  <1>9. \A i \in 1..N' : cell'[slots'[i]] # 0
    <2>1. \A i \in 1..N' : i \in 1..k \/ i \in (k + 1)..N'
      BY <1>2, <1>7
    <2> QED BY <1>7, <2>1
  <1>10. Inside' \ added' \subseteq Elems(slots')
    <2> SUFFICES ASSUME NEW x \in Inside', x \notin added, x \notin Elems(q)
                 PROVE  x \in Elems(slots')
      BY <1>7
    <2>1. x \in Particle /\ cell[x] # 0
      BY <1>4 DEF Inside
    <2>2. x \in Elems(slots)
      BY <1>1, <2>1 DEF Held, Inside
    <2>3. PICK i \in 1..N : slots[i] = x
      BY <1>2, <2>2
    <2>4. i \in 1..k \/ i \in (k + 1)..N
      BY <1>2
    <2> QED BY <1>7, <2>1, <2>3, <2>4
  <1>11. Held'
    <2>1. pc' \notin {"idle", "binned", "tail", "swept", "packed", "deposited"}
      OBVIOUS
    <2> QED BY <1>9, <1>10, <2>1 DEF Held, Leaving
  <1> QED BY <1>7, <1>8, <1>11 DEF IInv

LEMMA LocalCollectHolds == IInv /\ LocalCollect => IInv'
  <1> SUFFICES ASSUME IInv, LocalCollect PROVE IInv'
    OBVIOUS
  <1>1. /\ pc = "deposited" /\ ~isLastStep /\ pc' = "collect"
        /\ UNCHANGED <<step, isLastStep, current, added>> /\ UNCHANGED bins /\ UNCHANGED sweep
        /\ carried' = carried
    BY Zenon DEF LocalCollect
  <1>2. PICK q \in Orders(Away, MaxArrive) : \E c \in [Elems(q) -> Cell] :
          /\ slots' = Kept(slots) \o q /\ idcpu' = Kept(idcpu) \o Ids(q) /\ cell' = Place(q, c)
    BY Zenon DEF LocalCollect
  <1>3. PICK c \in [Elems(q) -> Cell] :
          /\ slots' = Kept(slots) \o q /\ idcpu' = Kept(idcpu) \o Ids(q) /\ cell' = Place(q, c)
    BY <1>2
  <1>4. Arrive(newBegin, q)
    BY <1>1, <1>3 DEF Arrive, Kept
  <1>5. Typed /\ Marks /\ Held /\ Leaving /\ ~Sweeping
    BY <1>1 DEF IInv, Leaving, Sweeping
  <1>6. N \in Nat /\ newBegin \in 0..N /\ moveBegin <= newBegin
    BY <1>1, <1>5, Shape DEF Marks
  <1>7. /\ \A i \in 1..newBegin : cell[slots[i]] # 0
        /\ \A i \in (newBegin + 1)..N : /\ idcpu[i] = carried[slots[i]]
                                        /\ cell[slots[i]] = 0 \/ slots[i] \in added
    BY <1>5 DEF Held
  <1>8. newBegin <= newBegin /\ pc # "idle" /\ pc' \in {"collect", "sort"}
        /\ pc \notin {"binned", "tail", "swept"}
    BY <1>1, <1>6
  <1> QED BY <1>1, <1>3, <1>4, <1>5, <1>6, <1>7, <1>8, CollectHolds

LEMMA RemoteCollectHolds == IInv /\ (RemoteCollect \/ RedistributeIn) => IInv'
  <1> SUFFICES ASSUME IInv, RemoteCollect \/ RedistributeIn PROVE IInv'
    OBVIOUS
  <1>1. /\ pc \in {"collect", "deposited", "leaving"} /\ pc' = "sort"
        /\ pc # "collect" => isLastStep
        /\ UNCHANGED <<step, isLastStep, current, added>> /\ UNCHANGED bins /\ UNCHANGED sweep
        /\ carried' = carried
    BY DEF RemoteCollect, RedistributeIn
  <1>2. PICK q \in Orders(Away, MaxArrive) : \E c \in [Elems(q) -> Cell] :
          /\ slots' = slots \o q /\ idcpu' = idcpu \o Ids(q) /\ cell' = Place(q, c)
    BY Zenon DEF RemoteCollect, RedistributeIn
  <1>3. PICK c \in [Elems(q) -> Cell] :
          /\ slots' = slots \o q /\ idcpu' = idcpu \o Ids(q) /\ cell' = Place(q, c)
    BY <1>2
  <1>5. Typed /\ Marks /\ Held /\ ~Sweeping
    BY <1>1 DEF IInv, Sweeping
  <1>4. Arrive(N, q)
    BY <1>1, <1>3, <1>5, WholeArrays DEF Arrive
  <1>6. N \in Nat /\ N \in 0..N /\ moveBegin <= N /\ (~isLastStep => newBegin <= N)
    BY <1>1, <1>5, Shape DEF Marks
  <1>7. \A i \in 1..N : cell[slots[i]] # 0
    <2>1. CASE RemoteCollect
      BY <1>5, <2>1 DEF RemoteCollect, Held
    <2>2. CASE RedistributeIn
      BY <2>2 DEF RedistributeIn, N
    <2> QED BY <2>1, <2>2
  <1>8. pc # "idle" /\ pc' \in {"collect", "sort"} /\ pc \notin {"binned", "tail", "swept"}
    BY <1>1
  <1>9. \A i \in (N + 1)..N : /\ idcpu[i] = carried[slots[i]]
                              /\ cell[slots[i]] = 0 \/ slots[i] \in added
    BY <1>6
  <1> QED BY <1>1, <1>3, <1>4, <1>5, <1>6, <1>7, <1>8, <1>9, CollectHolds

---------------------------------------------------------------------------
(* The load balance, the removals of RedistributeLocal, and the pack.       *)

LEMMA LoadBalanceHolds == IInv /\ LoadBalance => IInv'
  <1> SUFFICES ASSUME IInv, LoadBalance PROVE IInv'
    OBVIOUS
  <1>1. /\ pc = "idle" /\ slots' \in Reordered
        /\ idcpu' = [i \in 1..N |-> IdOf(slots'[i])]
        /\ binOffset' = [c \in Cell |-> -1] /\ binLength' = [c \in Cell |-> 0]
        /\ moveBegin' = 0 /\ newBegin' = 0 /\ initialized' = FALSE
        /\ UNCHANGED <<pc, step, isLastStep, cell, carried, current, added>>
        /\ UNCHANGED <<binToIp, bin, todo, newLength, front, back, buf>>
    BY Zenon DEF LoadBalance, Fresh, sweep, N
  <1>2. Typed /\ Apart /\ Marks /\ Held
    BY DEF IInv
  <1>3. /\ N \in Nat /\ slots \in [1..N -> Particle]
        /\ \A i, j \in 1..N : slots[i] = slots[j] => i = j
        /\ \A i, j \in 1..N : idcpu[i] = idcpu[j] => i = j
        /\ \A i \in 1..N : slots[i] \in Elems(slots) /\ idcpu[i] \in Elems(idcpu)
        /\ \A p \in Elems(slots) : p \in Particle /\ \E i \in 1..N : slots[i] = p
        /\ \A p \in Elems(idcpu) : p \in Particle
    BY <1>2, Shape
  <1>4. Distinct(slots) /\ Len(slots) = N
    BY <1>2 DEF Typed, N
  <1>5. slots' \in [1..N -> Elems(slots)] /\ Distinct(slots')
    BY <1>1, <1>4 DEF Reordered
  <1>6. Len(slots') = N
    BY <1>3, <1>5, IsSequence
  <1>7. Elems(slots') = Elems(slots)
    BY <1>3, <1>4, <1>5, <1>6, AllOfThem
  <1>8. slots' \in Seq(Particle)
    <2>1. slots' \in [1..N -> Particle]
      BY <1>3, <1>5
    <2> QED BY <1>3, <2>1, IsSequence
  <1>9. \A p \in Elems(slots) : \E i \in 1..N : slots[i] = p /\ IdOf(p) = idcpu[i]
    <2> TAKE p \in Elems(slots)
    <2>1. \E i \in 1..N : slots[i] = p
      BY <1>3
    <2> DEFINE i == CHOOSE i \in 1..N : slots[i] = p
    <2>2. i \in 1..N /\ slots[i] = p
      BY <2>1
    <2>3. IdOf(p) = idcpu[i]
      BY <1>4 DEF IdOf
    <2> QED BY <2>2, <2>3
  <1>10. \A i \in 1..N : \E k \in 1..N : slots'[i] = slots[k] /\ idcpu'[i] = idcpu[k]
    BY <1>1, <1>5, <1>9
  <1>11. idcpu' \in [1..N -> Particle]
    <2>1. \A i \in 1..N : IdOf(slots'[i]) \in Particle
      BY <1>3, <1>5, <1>9
    <2> QED BY <1>1, <2>1
  <1>12. idcpu' \in Seq(Particle) /\ Len(idcpu') = N
    BY <1>3, <1>11, IsSequence
  <1>13. \A i, j \in 1..N : idcpu'[i] = idcpu'[j] => i = j
    <2> TAKE i, j \in 1..N
    <2> HAVE idcpu'[i] = idcpu'[j]
    <2>1. PICK a \in 1..N : slots'[i] = slots[a] /\ idcpu'[i] = idcpu[a]
      BY <1>10
    <2>2. PICK b \in 1..N : slots'[j] = slots[b] /\ idcpu'[j] = idcpu[b]
      BY <1>10
    <2>3. a = b
      BY <1>3, <2>1, <2>2
    <2> QED BY <1>5, <1>6, <2>1, <2>2, <2>3 DEF Distinct
  <1>14. Elems(idcpu') \subseteq Elems(idcpu)
    BY <1>3, <1>10, <1>12 DEF Elems
  <1>15. Apart'
    BY <1>1, <1>2, <1>7, <1>14 DEF Apart
  <1>16. TypeOK'
    <2>1. /\ binOffset' \in [Cell -> Int] /\ binLength' \in [Cell -> Nat]
          /\ moveBegin' \in Nat /\ newBegin' \in Nat /\ initialized' \in BOOLEAN
      <3>1. -1 \in Int /\ 0 \in Nat /\ FALSE \in BOOLEAN
        OBVIOUS
      <3>2. /\ binOffset' = [c \in Cell |-> -1] /\ binLength' = [c \in Cell |-> 0]
            /\ moveBegin' = 0 /\ newBegin' = 0 /\ initialized' = FALSE
        BY <1>1
      <3>3. binOffset' \in [Cell -> Int] /\ binLength' \in [Cell -> Nat]
        BY <3>1, <3>2
      <3> QED BY <3>1, <3>2, <3>3, Zenon
    <2> QED BY <1>1, <1>2, <1>8, <1>12, <2>1, Zenon DEF Typed, TypeOK
  <1>17. Typed'
    BY <1>5, <1>6, <1>12, <1>13, <1>16 DEF Typed, Distinct, N
  <1>18. Marks'
    BY <1>1, <1>3, <1>6 DEF Marks, N
  <1>19. Binned'
    <2>1. \A c \in Cell : BinSet(c)' = {}
      BY <1>1 DEF BinSet
    <2>2. 1..moveBegin' = {}
      BY <1>1
    <2> QED BY <2>1, <2>2 DEF Binned
  <1>20. Held'
    <2>1. \A i \in 1..N : cell[slots'[i]] # 0
      BY <1>1, <1>2, <1>3, <1>5 DEF Held
    <2> QED BY <1>1, <1>2, <1>6, <1>7, <2>1 DEF Held, Inside, Leaving, N
  <1>21. Swept'
    BY <1>1 DEF Swept, Sweeping
  <1> QED BY <1>15, <1>17, <1>18, <1>19, <1>20, <1>21 DEF IInv

LEMMA FilledHole ==
  ASSUME NEW S, NEW s \in Seq(S), NEW g \in 1..Len(s)
  PROVE  /\ FillHole(s, g) \in Seq(S) /\ Len(FillHole(s, g)) = Len(s) - 1
         /\ \A i \in 1..(Len(s) - 1) : FillHole(s, g)[i] = IF i = g THEN s[Len(s)] ELSE s[i]
  <1> DEFINE n == Len(s)
             r == [s EXCEPT ![g] = s[n]]
  <1>1. n \in Nat \ {0} /\ s \in [1..n -> S] /\ s[n] \in S
    OBVIOUS
  <1>2. r \in [1..n -> S] /\ \A i \in 1..n : r[i] = IF i = g THEN s[n] ELSE s[i]
    BY <1>1
  <1> HIDE DEF n, r
  <1>3. r \in Seq(S) /\ Len(r) = n
    BY <1>1, <1>2, IsSequence
  <1>4. /\ SubSeq(r, 1, n - 1) \in Seq(S) /\ Len(SubSeq(r, 1, n - 1)) = n - 1
        /\ \A i \in 1..(n - 1) : SubSeq(r, 1, n - 1)[i] = r[i]
    BY <1>1, <1>3
  <1>5. FillHole(s, g) = SubSeq(r, 1, n - 1)
    BY DEF FillHole, UpTo, r, n
  <1>6. \A i \in 1..(n - 1) : i \in 1..n
    BY <1>1
  <1> QED BY <1>2, <1>4, <1>5, <1>6 DEF n

LEMMA FirstGoneIs ==
  ASSUME Typed, NEW z \in 1..N, cell[slots[z]] = 0
  PROVE  /\ FirstGone \in 1..N /\ cell[slots[FirstGone]] = 0
         /\ \A j \in 1..(FirstGone - 1) : cell[slots[j]] # 0
  <1> DEFINE T == {i \in 1..N : \A j \in 1..i : cell[slots[j]] # 0}
             m == Cardinality(T)
  <1>1. N \in Nat
    BY Shape
  <1>2. T \in SUBSET (1..N) /\ \A i \in T : \A j \in 1..i : j \in T
    BY <1>1
  <1>3. m \in Nat /\ T = 1..m
    BY <1>1, <1>2, InitialSegment
  <1>4. \A j \in 1..m : cell[slots[j]] # 0
    BY <1>1, <1>3
  <1>5. m < z
    BY <1>3, <1>4
  <1>6. m + 1 \in 1..N /\ m + 1 \notin T
    <2>1. m + 1 \notin 1..m /\ m + 1 \in 1..N
      BY <1>1, <1>3, <1>5
    <2> QED BY <1>3, <2>1, Zenon
  <1>7. cell[slots[m + 1]] = 0
    BY <1>3, <1>4, <1>6
  <1>8. \A j \in 1..((m + 1) - 1) : cell[slots[j]] # 0
    BY <1>3, <1>4
  <1> HIDE DEF m
  <1>9. \E i \in 1..N : cell[slots[i]] = 0 /\ \A j \in 1..(i - 1) : cell[slots[j]] # 0
    BY <1>6, <1>7, <1>8
  <1> QED BY <1>9 DEF FirstGone, N

LEMMA RedistributeOutHolds == IInv /\ RedistributeOut => IInv'
  <1> SUFFICES ASSUME IInv, RedistributeOut PROVE IInv'
    OBVIOUS
  <1> DEFINE g == FirstGone
  <1>1. /\ pc \in {"deposited", "leaving"} /\ pc' = "leaving" /\ isLastStep
        /\ \E i \in 1..N : cell[slots[i]] = 0
        /\ slots' = FillHole(slots, g) /\ idcpu' = FillHole(idcpu, g)
        /\ carried' = [carried EXCEPT ![slots[g]] = idcpu[g]]
        /\ UNCHANGED <<step, isLastStep, cell, current, added>>
        /\ UNCHANGED <<binOffset, binLength, moveBegin, newBegin, initialized>>
        /\ UNCHANGED <<binToIp, bin, todo, newLength, front, back, buf>>
    BY DEF RedistributeOut, sweep, bins, N
  <1>2. Typed /\ Apart /\ Marks /\ Binned /\ Held
    BY DEF IInv
  <1>3. /\ N \in Nat /\ slots \in [1..N -> Particle] /\ idcpu \in [1..N -> Particle]
        /\ \A i, j \in 1..N : slots[i] = slots[j] => i = j
        /\ \A i, j \in 1..N : idcpu[i] = idcpu[j] => i = j
        /\ \A i \in 1..N : slots[i] \in Elems(slots) /\ idcpu[i] \in Elems(idcpu)
        /\ \A p \in Elems(slots) : p \in Particle /\ \E i \in 1..N : slots[i] = p
        /\ moveBegin \in Nat /\ carried \in [Particle -> Particle]
    BY <1>2, Shape
  <1>4. slots \in Seq(Particle) /\ idcpu \in Seq(Particle) /\ Len(slots) = N /\ Len(idcpu) = N
    BY <1>2 DEF Typed, TypeOK, N
  <1>5. /\ g \in 1..N /\ cell[slots[g]] = 0
        /\ \A j \in 1..(g - 1) : cell[slots[j]] # 0
    BY <1>1, <1>2, FirstGoneIs
  <1> HIDE DEF g
  <1>6. /\ slots' \in Seq(Particle) /\ N' = N - 1
        /\ \A i \in 1..(N - 1) : slots'[i] = IF i = g THEN slots[N] ELSE slots[i]
    <2>1. g \in 1..Len(slots)
      BY <1>4, <1>5
    <2>2. /\ FillHole(slots, g) \in Seq(Particle) /\ Len(FillHole(slots, g)) = Len(slots) - 1
          /\ \A i \in 1..(Len(slots) - 1) :
               FillHole(slots, g)[i] = IF i = g THEN slots[Len(slots)] ELSE slots[i]
      BY <1>4, <2>1, FilledHole
    <2> QED BY <1>1, <1>4, <2>2 DEF N
  <1>7. /\ idcpu' \in Seq(Particle) /\ Len(idcpu') = N - 1
        /\ \A i \in 1..(N - 1) : idcpu'[i] = IF i = g THEN idcpu[N] ELSE idcpu[i]
    <2>1. g \in 1..Len(idcpu)
      BY <1>4, <1>5
    <2>2. /\ FillHole(idcpu, g) \in Seq(Particle) /\ Len(FillHole(idcpu, g)) = Len(idcpu) - 1
          /\ \A i \in 1..(Len(idcpu) - 1) :
               FillHole(idcpu, g)[i] = IF i = g THEN idcpu[Len(idcpu)] ELSE idcpu[i]
      BY <1>4, <2>1, FilledHole
    <2> QED BY <1>1, <1>4, <2>2
  <1> DEFINE from(i) == IF i = g THEN N ELSE i
  <1>8. \A i \in 1..(N - 1) : /\ from(i) \in 1..N /\ from(i) # g
                              /\ slots'[i] = slots[from(i)] /\ idcpu'[i] = idcpu[from(i)]
    BY <1>3, <1>5, <1>6, <1>7
  <1>9. \A i, j \in 1..(N - 1) : from(i) = from(j) => i = j
    BY <1>3, <1>5
  <1>10. \A u \in 1..N : u # g => \E i \in 1..(N - 1) : u = from(i)
    <2> SUFFICES ASSUME NEW u \in 1..N, u # g PROVE \E i \in 1..(N - 1) : u = from(i)
      OBVIOUS
    <2>1. CASE u = N
      <3>1. g \in 1..(N - 1) /\ u = from(g)
        BY <1>3, <1>5, <2>1
      <3> QED BY <3>1
    <2>2. CASE u # N
      <3>1. u \in 1..(N - 1) /\ u = from(u)
        BY <1>3, <2>2
      <3> QED BY <3>1
    <2> QED BY <2>1, <2>2
  <1> HIDE DEF from
  <1>11. Distinct(slots') /\ Distinct(idcpu')
    <2>1. \A i, j \in 1..(N - 1) : slots'[i] = slots'[j] => i = j
      BY <1>3, <1>8, <1>9
    <2>2. \A i, j \in 1..(N - 1) : idcpu'[i] = idcpu'[j] => i = j
      BY <1>3, <1>8, <1>9
    <2> QED BY <1>6, <1>7, <2>1, <2>2 DEF Distinct, N
  <1>12. \A p \in Elems(slots) : p # slots[g] => p \in Elems(slots')
    <2> SUFFICES ASSUME NEW p \in Elems(slots), p # slots[g] PROVE p \in Elems(slots')
      OBVIOUS
    <2>1. PICK u \in 1..N : slots[u] = p
      BY <1>3
    <2>2. PICK i \in 1..(N - 1) : u = from(i)
      BY <1>10, <2>1
    <2> QED BY <1>6, <1>8, <2>1, <2>2 DEF Elems, N
  <1>13. Elems(idcpu') \subseteq Elems(idcpu) \ {idcpu[g]}
    <2>1. \A i \in 1..(N - 1) : idcpu'[i] \in Elems(idcpu) /\ idcpu'[i] # idcpu[g]
      BY <1>3, <1>5, <1>8
    <2> QED BY <1>7, <2>1 DEF Elems
  <1>14. slots[g] \in Particle /\ idcpu[g] \in Elems(idcpu) /\ idcpu[g] \in Particle
    BY <1>3, <1>5
  <1>15. \A p \in Particle : carried'[p] = IF p = slots[g] THEN idcpu[g] ELSE carried[p]
    BY <1>1, <1>3
  <1>16. carried' \in [Particle -> Particle]
    BY <1>1, <1>3, <1>14
  <1>17. Apart'
    <2>1. \A p \in Particle \ Elems(slots') : p = slots[g] \/ p \notin Elems(slots)
      BY <1>12
    <2>2. \A p \in Particle \ Elems(slots) : carried[p] \notin Elems(idcpu)
      BY <1>2 DEF Apart
    <2>3. \A p, q \in Particle \ Elems(slots) : carried[p] = carried[q] => p = q
      BY <1>2 DEF Apart
    <2>4. \A p \in Particle \ Elems(slots') : carried'[p] \notin Elems(idcpu')
      BY <1>13, <1>15, <2>1, <2>2
    <2>5. \A p, q \in Particle \ Elems(slots') : carried'[p] = carried'[q] => p = q
      BY <1>14, <1>15, <2>1, <2>2, <2>3
    <2> QED BY <2>4, <2>5 DEF Apart
  <1>18. TypeOK'
    BY <1>1, <1>2, <1>6, <1>7, <1>16, Zenon DEF Typed, TypeOK
  <1>19. Typed'
    BY <1>6, <1>7, <1>11, <1>18 DEF Typed
  <1>20. moveBegin < g
    <2>1. \A i \in 1..moveBegin : cell[slots[i]] # 0
      BY <1>1, <1>2, PhysSortAssumption DEF Binned, Sweeping, Cell
    <2> QED BY <1>3, <1>5, <2>1
  <1>21. Marks'
    BY <1>1, <1>2, <1>3, <1>5, <1>6, <1>20 DEF Marks
  <1>22. Binned'
    <2>1. \A i \in 1..moveBegin : slots'[i] = slots[i]
      BY <1>3, <1>5, <1>6, <1>20
    <2>2. /\ \A c \in Cell : \A i \in BinSet(c) : i \in 1..moveBegin /\ cell[slots[i]] = c
          /\ \A i \in 1..moveBegin : \E c \in Cell : i \in BinSet(c)
      BY <1>1, <1>2 DEF Binned, Sweeping
    <2>3. \A c : BinSet(c)' = BinSet(c)
      BY <1>1 DEF BinSet
    <2>4. /\ \A c \in Cell : \A i \in BinSet(c)' : i \in 1..moveBegin' /\ cell'[slots'[i]] = c
          /\ \A i \in 1..moveBegin' : \E c \in Cell : i \in BinSet(c)'
      BY <1>1, <2>1, <2>2, <2>3
    <2> QED BY <2>4, Zenon DEF Binned
  <1>23. Held'
    <2>1. Inside \ added \subseteq Elems(slots')
      BY <1>2, <1>5, <1>12 DEF Held, Inside
    <2> QED BY <1>1, <2>1 DEF Held, Inside, Leaving
  <1>24. Swept'
    BY <1>1 DEF Swept, Sweeping
  <1> QED BY <1>17, <1>19, <1>21, <1>22, <1>23, <1>24 DEF IInv

LEMMA PackHolds == IInv /\ Pack => IInv'
  <1> SUFFICES ASSUME IInv, Pack PROVE IInv'
    OBVIOUS
  <1>1. /\ pc = "swept" /\ ~isLastStep /\ pc' = "packed"
        /\ UNCHANGED <<step, isLastStep, idcpu, cell, current, added>>
        /\ UNCHANGED <<binOffset, binLength, moveBegin, initialized>>
        /\ UNCHANGED <<binToIp, bin, todo, newLength, front, back, buf>>
    BY Zenon DEF Pack, sweep
  <1>2. Typed /\ Apart /\ Marks /\ Binned /\ Held
    BY DEF IInv
  <1>3. /\ N \in Nat /\ slots \in [1..N -> Particle] /\ idcpu \in [1..N -> Particle]
        /\ \A p \in Elems(slots) : p \in Particle /\ \E i \in 1..N : slots[i] = p
        /\ moveBegin \in Nat /\ carried \in [Particle -> Particle]
        /\ Len(slots) = N /\ Distinct(slots) /\ moveBegin <= N
    BY <1>1, <1>2, Shape DEF Typed, N, Marks
  <1>4. PICK q \in [1..N -> Elems(slots)], n \in moveBegin..N :
          /\ Compacted(q, n) /\ slots' = q /\ newBegin' = n
          /\ carried' = [p \in Particle |->
               IF \E i \in (n + 1)..Len(q) : q[i] = p
                 THEN idcpu[CHOOSE i \in (n + 1)..Len(q) : q[i] = p] ELSE carried[p]]
    BY Zenon DEF Pack, N
  <1>5. q \in Seq(Particle) /\ Len(q) = N
    <2>1. q \in [1..N -> Particle]
      BY <1>3
    <2> QED BY <1>3, <2>1, IsSequence
  <1>6. /\ UpTo(q, moveBegin) = UpTo(slots, moveBegin) /\ Elems(q) = Elems(slots)
        /\ \A i \in 1..N : i > n <=> cell[q[i]] = 0
    BY <1>4, <1>5 DEF Compacted
  <1>7. Distinct(q)
    BY <1>3, <1>5, <1>6, AllOfThem
  <1>8. \A i \in 1..moveBegin : q[i] = slots[i]
    <2>1. \A i \in 1..moveBegin : UpTo(q, moveBegin)[i] = q[i] /\ UpTo(slots, moveBegin)[i] = slots[i]
      BY <1>3, <1>5, <1>2 DEF UpTo, Typed, TypeOK
    <2> QED BY <1>6, <2>1
  <1>9. \A p \in Particle \ Elems(slots) : carried'[p] = carried[p]
    <2>1. \A i \in (n + 1)..N : q[i] \in Elems(slots)
      BY <1>3
    <2> QED BY <1>4, <1>5, <2>1
  <1>10. \A i \in (n + 1)..N : carried'[q[i]] = idcpu[i]
    <2> TAKE i \in (n + 1)..N
    <2>1. i \in 1..N /\ q[i] \in Particle
      BY <1>3, <1>5
    <2> DEFINE k == CHOOSE k \in (n + 1)..N : q[k] = q[i]
    <2>2. k \in (n + 1)..N /\ q[k] = q[i]
      OBVIOUS
    <2>3. k = i
      BY <1>3, <1>5, <1>7, <2>1, <2>2 DEF Distinct
    <2>4. carried'[q[i]] = idcpu[k]
      BY <1>4, <1>5, <2>1
    <2> QED BY <2>3, <2>4
  <1>11. carried' \in [Particle -> Particle]
    <2>1. \A p \in Particle : (\E i \in (n + 1)..N : q[i] = p) =>
             idcpu[CHOOSE i \in (n + 1)..N : q[i] = p] \in Particle
      <3> SUFFICES ASSUME NEW p \in Particle, \E i \in (n + 1)..N : q[i] = p
                   PROVE  idcpu[CHOOSE i \in (n + 1)..N : q[i] = p] \in Particle
        OBVIOUS
      <3> DEFINE k == CHOOSE i \in (n + 1)..N : q[i] = p
      <3>1. k \in (n + 1)..N
        OBVIOUS
      <3>2. k \in 1..N
        BY <1>3, <3>1
      <3> QED BY <1>3, <3>2
    <2>2. \A p \in Particle :
             (IF \E i \in (n + 1)..N : q[i] = p
                THEN idcpu[CHOOSE i \in (n + 1)..N : q[i] = p] ELSE carried[p]) \in Particle
      BY <1>3, <2>1
    <2>3. carried' = [p \in Particle |->
             IF \E i \in (n + 1)..N : q[i] = p
                THEN idcpu[CHOOSE i \in (n + 1)..N : q[i] = p] ELSE carried[p]]
      BY <1>4, <1>5
    <2> QED BY <2>2, <2>3
  <1>12. slots' = q /\ newBegin' = n /\ n \in Nat /\ moveBegin <= n /\ n <= N /\ N' = N
    BY <1>3, <1>4, <1>5 DEF N
  <1>13. TypeOK'
    BY <1>1, <1>2, <1>5, <1>11, <1>12, Zenon DEF Typed, TypeOK
  <1>14. Typed'
    BY <1>1, <1>2, <1>7, <1>12, <1>13 DEF Typed
  <1>15. Apart'
    BY <1>1, <1>2, <1>6, <1>9, <1>12 DEF Apart
  <1>16. Marks'
    BY <1>1, <1>2, <1>3, <1>12 DEF Marks
  <1>17. Binned'
    <2>2. /\ \A c \in Cell : \A i \in BinSet(c) : i \in 1..moveBegin /\ cell[slots[i]] = c
          /\ \A i \in 1..moveBegin : \E c \in Cell : i \in BinSet(c)
      BY <1>1, <1>2 DEF Binned, Sweeping
    <2>3. \A c : BinSet(c)' = BinSet(c)
      BY <1>1 DEF BinSet
    <2>4. /\ \A c \in Cell : \A i \in BinSet(c)' : i \in 1..moveBegin' /\ cell'[slots'[i]] = c
          /\ \A i \in 1..moveBegin' : \E c \in Cell : i \in BinSet(c)'
      BY <1>1, <1>8, <1>12, <2>2, <2>3
    <2> QED BY <2>4, Zenon DEF Binned
  <1>18. Held'
    <2>1. Inside \ added \subseteq Elems(slots') /\ added \cap Elems(slots') = {}
      BY <1>1, <1>2, <1>6, <1>12 DEF Held
    <2>2. \A i \in 1..n : cell[q[i]] # 0
      BY <1>3, <1>6, <1>12
    <2>3. \A i \in (n + 1)..N : cell[q[i]] = 0 /\ idcpu[i] = carried'[q[i]]
      BY <1>3, <1>6, <1>10, <1>12
    <2>4. /\ \A i \in 1..newBegin' : cell'[slots'[i]] # 0
          /\ \A i \in (newBegin' + 1)..N' :
               /\ cell'[slots'[i]] = 0 \/ slots'[i] \in added'
               /\ idcpu'[i] = carried'[slots'[i]]
      BY <1>1, <1>12, <2>2, <2>3
    <2>5. Inside' \ added' \subseteq Elems(slots') /\ added' \cap Elems(slots') = {}
      BY <1>1, <2>1 DEF Inside
    <2>6. pc' \notin {"idle", "collect", "sort"}
      BY <1>1
    <2> QED BY <2>4, <2>5, <2>6 DEF Held
  <1>19. Swept'
    BY <1>1 DEF Swept, Sweeping
  <1> QED BY <1>14, <1>15, <1>16, <1>17, <1>18, <1>19 DEF IInv

---------------------------------------------------------------------------
(* The sweep begins: no slot is read, no slot of buf is written.            *)

LEMMA OrderedIs ==
  ASSUME NEW n \in Nat, NEW I \in SUBSET (1..n)
  PROVE  /\ Ordered(I) \in Seq(Nat) /\ Distinct(Ordered(I)) /\ Elems(Ordered(I)) = I
         /\ Len(Ordered(I)) = Cardinality(I)
  <1> DEFINE m == Cardinality(I)
             s == Ordered(I)
  <1>1. /\ IsFiniteSet(I) /\ m \in Nat
        /\ \A k \in 1..m : s[k] \in I
        /\ \A j, k \in 1..m : s[j] = s[k] => j = k
        /\ \A i \in I : \E k \in 1..m : s[k] = i
    BY OrderedLists, Zenon
  <1>2. s = [k \in 1..m |-> s[k]]
    BY DEF Ordered
  <1> HIDE DEF s, m
  <1>3. s \in [1..m -> Nat]
    BY <1>1, <1>2
  <1>4. s \in Seq(Nat) /\ Len(s) = m
    BY <1>1, <1>3, IsSequence
  <1>5. Distinct(s)
    BY <1>1, <1>4 DEF Distinct
  <1>6. Elems(s) = I
    <2>1. Elems(s) = {s[k] : k \in 1..m}
      BY <1>4 DEF Elems
    <2>2. \A k \in 1..m : s[k] \in I
      BY <1>1, Zenon
    <2>3. \A i \in I : \E k \in 1..m : s[k] = i
      BY <1>1, Zenon
    <2>4. \A x : x \in Elems(s) <=> \E k \in 1..m : x = s[k]
      BY <2>1, Zenon
    <2>5. \A x : x \in Elems(s) => x \in I
      BY <2>2, <2>4, Zenon
    <2>6. \A x : x \in I => x \in Elems(s)
      <3> TAKE x
      <3> HAVE x \in I
      <3>1. PICK k \in 1..m : s[k] = x
        BY <2>3, Zenon
      <3> QED BY <2>4, <3>1, Zenon
    <2> QED BY <2>5, <2>6, Zenon
  <1> QED BY <1>4, <1>5, <1>6 DEF s, m

LEMMA BinSlotsAre ==
  ASSUME Typed, NEW c \in Cell, BinSet(c) \subseteq Nat
  PROVE  BinSlots(c) \in Seq(Nat) /\ Distinct(BinSlots(c)) /\ Elems(BinSlots(c)) = BinSet(c)
  <1> DEFINE s == BinSlots(c)
             o == binOffset[c]
             l == binLength[c]
  <1>1. o \in Int /\ l \in Nat
    BY DEF Typed, TypeOK
  <1>2. s = [i \in 1..l |-> o + i] /\ BinSet(c) = (o + 1)..(o + l)
    BY DEF BinSlots, BinSet
  <1> HIDE DEF s, o, l
  <1>3. \A i \in 1..l : s[i] = o + i /\ o + i \in (o + 1)..(o + l)
    BY <1>1, <1>2
  <1>4. s \in [1..l -> Nat]
    BY <1>2, <1>3
  <1>5. s \in Seq(Nat) /\ Len(s) = l
    BY <1>1, <1>4, IsSequence
  <1>6. \A i, j \in 1..l : s[i] = s[j] => i = j
    BY <1>1, <1>3
  <1>7. \A x \in (o + 1)..(o + l) : \E i \in 1..l : s[i] = x
    <2> TAKE x \in (o + 1)..(o + l)
    <2>1. x - o \in 1..l /\ o + (x - o) = x
      BY <1>1
    <2> QED BY <1>3, <2>1
  <1>8. Distinct(s)
    BY <1>5, <1>6 DEF Distinct
  <1>9. Elems(s) = BinSet(c)
    BY <1>2, <1>3, <1>5, <1>7 DEF Elems
  <1> QED BY <1>5, <1>8, <1>9 DEF s

LEMMA StartSweepHolds == IInv /\ StartSweep => IInv'
  <1> SUFFICES ASSUME IInv, StartSweep PROVE IInv'
    OBVIOUS
  <1>1. /\ pc = "idle" /\ step < LastStep /\ isLastStep' \in {isLastStep, TRUE}
        /\ current' = NoCurrent
        /\ UNCHANGED <<step, slots, idcpu, cell, carried, binOffset, binLength, moveBegin,
                       newBegin, added>>
    BY Zenon DEF StartSweep, tile
  <1>2. Typed /\ Apart /\ Marks /\ Binned /\ Held
    BY DEF IInv
  <1>3. /\ N \in Nat /\ slots \in [1..N -> Particle] /\ moveBegin \in Nat /\ newBegin \in Nat
        /\ NCell \in Nat \ {0} /\ cell \in [Particle -> 0..NCell] /\ slots \in Seq(Particle)
        /\ Len(slots) = N
    BY <1>2, Shape DEF Typed, TypeOK, N
  <1>4. isLastStep' \in BOOLEAN /\ (~isLastStep' => ~isLastStep)
    BY <1>1, <1>2 DEF Typed, TypeOK
  <1>5. current' \in [Particle -> [0..NCell -> Nat]]
    BY <1>1 DEF NoCurrent
  <1>6. Apart' /\ N' = N
    BY <1>1, <1>2 DEF Apart, N
  <1>7. /\ \A c \in Cell : \A i \in BinSet(c) : i \in 1..moveBegin /\ cell[slots[i]] = c
        /\ \A i \in 1..moveBegin : \E c \in Cell : i \in BinSet(c)
    BY <1>1, <1>2 DEF Binned, Sweeping
  <1>8. \A c : BinSet(c)' = BinSet(c)
    BY <1>1 DEF BinSet
  <1>9. CASE slots = <<>>
    <2>1. pc' = "deposited" /\ UNCHANGED <<binToIp, bin, todo, newLength, front, back, buf>>
          /\ initialized' = initialized
      BY <1>9, Zenon DEF StartSweep, sweep
    <2>2. N = 0
      BY <1>9, <1>3
    <2>3. TypeOK'
      BY <1>1, <1>2, <1>4, <1>5, <2>1, Zenon DEF Typed, TypeOK
    <2>4. Typed'
      BY <1>1, <1>2, <2>3 DEF Typed, N
    <2>5. Marks'
      BY <1>1, <1>2, <1>4, <1>6, <2>1 DEF Marks
    <2>6. Binned'
      BY <1>1, <1>7, <1>8, Zenon DEF Binned
    <2>7. Held'
      <3>1. Inside' \ added' \subseteq Elems(slots')
        BY <1>1, <1>2 DEF Held, Inside
      <3>2. Leaving' => newBegin' = 0 /\ N' = 0
        BY <1>1, <1>2, <1>3, <1>4, <1>6, <2>2 DEF Marks, Leaving
      <3> QED BY <2>1, <3>1, <3>2 DEF Held
    <2>8. Swept'
      BY <2>1 DEF Swept, Sweeping
    <2> QED BY <1>6, <2>4, <2>5, <2>6, <2>7, <2>8 DEF IInv
  <1>10. CASE slots # <<>>
    <2> DEFINE tail(c) == {i \in (moveBegin + 1)..N : cell[slots[i]] = c}
    <2>1. /\ pc' = "binned" /\ initialized' = TRUE
          /\ binToIp' = [c \in Cell |-> Ordered(tail(c))]
          /\ bin' = 1 /\ todo' = BinSlots(1) /\ newLength' = 0
          /\ front' = 0 /\ back' = N
          /\ buf' = [i \in 1..N |-> Empty]
      BY <1>10, Zenon DEF StartSweep, N
    <2>2. \A c \in Cell : tail(c) \in SUBSET (1..N)
      BY <1>3
    <2>3. \A c \in Cell : /\ binToIp'[c] \in Seq(Nat) /\ Distinct(binToIp'[c])
                          /\ Elems(binToIp'[c]) = tail(c)
      BY <1>3, <2>1, <2>2, OrderedIs
    <2>4. binToIp' \in [Cell -> Seq(Nat)]
      BY <2>1, <2>3
    <2>5. 1 \in Cell /\ \A c \in Cell : c \in Nat /\ (c = 1 \/ c \in 2..NCell)
      BY <1>3 DEF Cell
    <2>6. todo' \in Seq(Nat) /\ Distinct(todo') /\ Elems(todo') = BinSet(1)
      <3>1. BinSet(1) \subseteq Nat
        BY <1>7, <2>5
      <3> QED BY <1>2, <2>1, <2>5, <3>1, BinSlotsAre
    <2>7. buf' \in Seq(Particle \cup {Empty}) /\ Len(buf') = N /\ \A i \in 1..N : buf'[i] = Empty
      <3>1. buf' \in [1..N -> Particle \cup {Empty}]
        BY <2>1
      <3> QED BY <1>3, <2>1, <3>1, IsSequence
    <2> HIDE DEF tail
    <2>8. TypeOK'
      <3>1. newLength' \in Nat /\ front' \in Nat /\ back' \in Int /\ bin' \in Cell
        BY <1>3, <2>1, <2>5
      <3>2. pc' \in {"idle", "binned", "tail", "swept", "packed", "deposited", "collect",
                     "leaving", "sort"} /\ initialized' \in BOOLEAN
        BY <2>1
      <3> QED BY <1>1, <1>2, <1>4, <1>5, <2>4, <2>6, <2>7, <3>1, <3>2, Zenon DEF Typed, TypeOK
    <2>9. Typed'
      BY <1>1, <1>2, <2>8 DEF Typed, N
    <2>10. Marks'
      <3>1. N > 0
        BY <1>3, <1>10
      <3> QED BY <1>1, <1>2, <1>4, <1>6, <2>1, <3>1 DEF Marks
    <2>11. Binned' /\ Sweeping'
      BY <2>1 DEF Binned, Sweeping
    <2>12. Held'
      <3>1. Inside' \ added' \subseteq Elems(slots') /\ added' \cap Elems(slots') = {}
        BY <1>1, <1>2 DEF Held, Inside
      <3> QED BY <2>1, <3>1 DEF Held, Leaving
    <2>13. \A i \in 1..N : cell[slots[i]] \in Cell
      BY <1>1, <1>2, <1>3 DEF Held, Cell
    <2>14. \A i \in (moveBegin + 1)..N : i \in 1..N /\ i \in tail(cell[slots[i]])
      BY <1>3 DEF tail
    <2>15. Unread' = 1..N
      <3>1. Later' = {i \in 1..N : \E c \in 2..NCell : i \in BinSet(c) \/ i \in tail(c)}
        <4>1. \A c \in 2..NCell : Elems(binToIp'[c]) = tail(c)
          BY <1>3, <2>3 DEF Cell
        <4>2. Later' = {i \in 1..N : \E c \in (1 + 1)..NCell :
                                        i \in BinSet(c) \/ i \in Elems(binToIp'[c])}
          BY <1>6, <1>8, <2>1, Zenon DEF Later, Elems
        <4>3. 1 + 1 = 2
          OBVIOUS
        <4> QED BY <4>1, <4>2, <4>3, Zenon
      <3>2. Unread' = BinSet(1) \cup Later' \cup tail(1)
        <4>1. Unread' = Elems(todo') \cup Later'
                          \cup (IF pc' = "binned" THEN Elems(binToIp'[bin']) ELSE {})
          BY Zenon DEF Unread, Elems
        <4> QED BY <2>1, <2>3, <2>5, <2>6, <4>1
      <3>3. BinSet(1) \subseteq 1..N
        BY <1>2, <1>3, <1>7, <2>5 DEF Marks
      <3>4. tail(1) \subseteq 1..N
        BY <2>2, <2>5 DEF tail
      <3>5. ASSUME NEW i \in 1..N PROVE i \in BinSet(1) \cup Later' \cup tail(1)
        <4>1. CASE i \in 1..moveBegin
          <5>1. PICK c \in Cell : i \in BinSet(c)
            BY <1>7, <4>1
          <5> QED BY <2>5, <3>1, <5>1
        <4>2. CASE i \in (moveBegin + 1)..N
          <5>1. cell[slots[i]] \in Cell /\ i \in tail(cell[slots[i]])
            BY <2>13, <2>14, <4>2, Zenon
          <5> QED BY <2>5, <3>1, <5>1
        <4> QED BY <1>3, <4>1, <4>2
      <3> HIDE DEF Later
      <3>6. Later' \subseteq 1..N
        BY <3>1
      <3> QED BY <3>2, <3>3, <3>4, <3>5, <3>6
    <2>16. Sources'
      <3>1. \A i \in Elems(todo') : i \in 1..N /\ cell[slots[i]] = 1 /\ i <= moveBegin
        BY <1>2, <1>3, <1>7, <2>5, <2>6 DEF Marks
      <3>2. \A c \in 2..NCell : \A i \in BinSet(c) : i \in 1..moveBegin /\ cell[slots[i]] = c
        BY <1>3, <1>7 DEF Cell
      <3>3. \A c \in 1..NCell : Distinct(binToIp'[c]) /\ \A i \in Elems(binToIp'[c]) :
               i \in (moveBegin + 1)..N /\ cell[slots[i]] = c
        BY <2>3 DEF Cell, tail
      <3>4. bin' + 1 = 2
        BY <2>1
      <3> HIDE DEF N, BinSet
      <3>5. /\ Distinct(todo')
            /\ \A i \in Elems(todo') :
                 /\ i \in 1..N' /\ cell'[slots'[i]] = bin'
                 /\ IF pc' = "binned" THEN i <= moveBegin' ELSE i > moveBegin'
            /\ \A c \in (bin' + 1)..NCell : \A i \in BinSet(c)' :
                 i \in 1..moveBegin' /\ cell'[slots'[i]] = c
        BY <1>1, <1>6, <1>8, <2>1, <2>6, <3>1, <3>2, <3>4
      <3>6. \A c \in bin'..NCell : c > bin' \/ pc' = "binned" =>
                /\ Distinct(binToIp'[c])
                /\ \A i \in Elems(binToIp'[c]) : i \in (moveBegin' + 1)..N' /\ cell'[slots'[i]] = c
        BY <1>1, <1>6, <2>1, <3>3
      <3> QED BY <3>5, <3>6, Zenon DEF Sources, Distinct, Elems
    <2>17. Written'
      <3>1. Filled' = {} /\ front' = 0 /\ back' = N
        BY <1>3, <1>6, <2>1 DEF Filled
      <3>2. Cardinality(Unread') = N
        BY <1>3, <2>15, FS_Interval
      <3>3. (1..N) \ Unread' = {}
        BY <2>15
      <3> QED BY <1>3, <1>6, <2>7, <3>1, <3>2, <3>3, SMTT(40) DEF Written
    <2>18. NewBins'
      BY <2>1 DEF NewBins
    <2> QED BY <1>6, <2>1, <2>9, <2>10, <2>11, <2>12, <2>16, <2>17, <2>18 DEF IInv, Swept
  <1> QED BY <1>9, <1>10

---------------------------------------------------------------------------
(* A bin ends: its new range is the last newLength slots the front writer   *)
(* has filled.                                                             *)

LEMMA EndBinHolds == IInv /\ EndBin => IInv'
  <1> SUFFICES ASSUME IInv, EndBin PROVE IInv'
    OBVIOUS
  <1>1. /\ pc = "tail" /\ todo = <<>> /\ newLength' = 0
        /\ binLength' = [binLength EXCEPT ![bin] = newLength]
        /\ binOffset' = [binOffset EXCEPT ![bin] = NewOffset]
        /\ UNCHANGED <<step, isLastStep, idcpu, cell, carried, newBegin, initialized, binToIp,
                       front, back, buf, current, added>>
    BY Zenon DEF EndBin
  <1>2. Typed /\ Apart /\ Marks /\ Held /\ Sources /\ Written /\ NewBins
    BY <1>1 DEF IInv, Swept, Sweeping
  <1>3. /\ N \in Nat /\ slots \in [1..N -> Particle] /\ moveBegin \in Nat /\ newBegin \in Nat
        /\ NCell \in Nat \ {0} /\ cell \in [Particle -> 0..NCell]
        /\ \A p \in Elems(slots) : p \in Particle /\ \E i \in 1..N : slots[i] = p
        /\ \A i \in 1..N : slots[i] \in Elems(slots)
        /\ \A i, j \in 1..N : slots[i] = slots[j] => i = j
        /\ moveBegin <= N
    BY <1>2, Shape DEF Marks
  <1>4. /\ bin \in 1..NCell /\ newLength \in Nat /\ front \in Nat /\ back \in Int
        /\ binLength \in [Cell -> Nat] /\ binOffset \in [Cell -> Int]
        /\ newLength <= front /\ front <= back /\ back <= N
    BY <1>2 DEF Typed, TypeOK, Cell, NewBins, Written
  <1>b. bin \in Nat /\ NCell \in Nat /\ 1 <= bin /\ bin <= NCell
    BY <1>3, <1>4
  <1>5. NewOffset \in Int /\ NewOffset = front - newLength
    BY <1>4 DEF NewOffset
  <1>6. binLength' \in [Cell -> Nat] /\ binOffset' \in [Cell -> Int]
    BY <1>1, <1>4, <1>5
  <1>7. \A c \in 1..NCell : BinSet(c)' = IF c = bin THEN (front - newLength + 1)..front
                                         ELSE BinSet(c)
    <2> TAKE c \in 1..NCell
    <2>1. CASE c = bin
      <3>1. binLength'[c] = newLength /\ binOffset'[c] = front - newLength
        BY <1>1, <1>4, <1>5, <2>1 DEF Cell
      <3>2. (front - newLength) + newLength = front
        BY <1>4
      <3> QED BY <2>1, <3>1, <3>2 DEF BinSet
    <2>2. CASE c # bin
      <3>1. binLength'[c] = binLength[c] /\ binOffset'[c] = binOffset[c]
        BY <1>1, <1>4, <2>2 DEF Cell
      <3> QED BY <2>2, <3>1 DEF BinSet
    <2> QED BY <2>1, <2>2
  <1>8. Elems(todo) = {}
    BY <1>1 DEF Elems
  <1>9. Unread = Later
    BY <1>1, <1>8 DEF Unread
  <1>10. /\ \A c \in 1..(bin - 1) : \A i \in BinSet(c) :
              i \in 1..(front - newLength) /\ cell[buf[i]] = c
         /\ \A i \in 1..(front - newLength) : \E c \in 1..(bin - 1) : i \in BinSet(c)
         /\ \A i \in (front - newLength + 1)..front : cell[buf[i]] = bin
    BY <1>2 DEF NewBins
  (* The ranges of the bins swept so far divide the front of buf.           *)
  <1>11. /\ \A c \in 1..bin : \A i \in BinSet(c)' : i \in 1..front /\ cell[buf[i]] = c
         /\ \A i \in 1..front : \E c \in 1..bin : i \in BinSet(c)'
    <2>1. ASSUME NEW c \in 1..bin, NEW i \in BinSet(c)'
          PROVE  i \in 1..front /\ cell[buf[i]] = c
      <3>1. CASE c = bin
        BY <1>4, <1>7, <1>10, <3>1
      <3>2. CASE c # bin
        <4>1. c \in 1..(bin - 1) /\ c \in 1..NCell
          BY <1>b, <3>2
        <4>2. i \in BinSet(c)
          BY <1>7, <3>2, <4>1
        <4>3. i \in 1..(front - newLength) /\ cell[buf[i]] = c
          BY <1>10, <4>1, <4>2
        <4> QED BY <1>4, <4>3
      <3> QED BY <3>1, <3>2
    <2>2. ASSUME NEW i \in 1..front PROVE \E c \in 1..bin : i \in BinSet(c)'
      <3>1. CASE i <= front - newLength
        <4>1. PICK c \in 1..(bin - 1) : i \in BinSet(c)
          BY <1>4, <1>10, <3>1
        <4>2. c \in 1..NCell /\ c # bin /\ c \in 1..bin
          BY <1>b
        <4> QED BY <1>7, <4>1, <4>2
      <3>2. CASE i > front - newLength
        <4>1. bin \in 1..NCell /\ bin \in 1..bin /\ i \in (front - newLength + 1)..front
          BY <1>4, <3>2
        <4> QED BY <1>7, <4>1
      <3> QED BY <1>4, <3>1, <3>2
    <2> QED BY <2>1, <2>2
  <1> HIDE DEF NewOffset
  <1>12. CASE bin < NCell
    <2>1. /\ pc' = "binned" /\ bin' = bin + 1 /\ todo' = BinSlots(bin + 1)
          /\ UNCHANGED <<slots, moveBegin>>
      BY <1>12, Zenon DEF EndBin
    <2>2. bin + 1 \in 1..NCell /\ bin + 1 \in Cell /\ bin + 1 # bin /\ bin + 1 \in (bin + 1)..NCell
      BY <1>b, <1>12 DEF Cell
    <2>3. /\ \A c \in (bin + 1)..NCell : \A i \in BinSet(c) :
               i \in 1..moveBegin /\ cell[slots[i]] = c
          /\ \A c \in (bin + 1)..NCell :
               /\ Distinct(binToIp[c])
               /\ \A i \in Elems(binToIp[c]) : i \in (moveBegin + 1)..N /\ cell[slots[i]] = c
      <3>1. \A c \in (bin + 1)..NCell : c \in bin..NCell /\ c > bin
        BY <1>4
      <3> QED BY <1>2, <3>1 DEF Sources
    <2>4. todo' \in Seq(Nat) /\ Distinct(todo') /\ Elems(todo') = BinSet(bin + 1)
      <3>1. BinSet(bin + 1) \subseteq Nat
        BY <2>2, <2>3
      <3> QED BY <1>2, <2>1, <2>2, <3>1, BinSlotsAre
    <2>5. TypeOK'
      <3>1. pc' \in {"idle", "binned", "tail", "swept", "packed", "deposited", "collect",
                     "leaving", "sort"} /\ newLength' \in Nat /\ bin' \in Cell
        BY <1>1, <2>1, <2>2
      <3> QED BY <1>1, <1>2, <1>6, <2>1, <2>4, <3>1, Zenon DEF Typed, TypeOK
    <2>6. Typed' /\ N' = N
      BY <1>1, <1>2, <2>1, <2>5 DEF Typed, N
    <2>7. Apart'
      BY <1>1, <1>2, <2>1 DEF Apart
    <2>8. Marks'
      BY <1>1, <1>2, <2>1, <2>6 DEF Marks
    <2>9. Binned' /\ Sweeping'
      BY <2>1 DEF Binned, Sweeping
    <2>10. Held'
      <3>1. Inside' \ added' \subseteq Elems(slots') /\ added' \cap Elems(slots') = {}
        BY <1>1, <1>2, <2>1 DEF Held, Inside
      <3> QED BY <2>1, <3>1 DEF Held, Leaving
    <2>11. \A c \in (bin + 1)..NCell : BinSet(c)' = BinSet(c)
      BY <1>4, <1>7
    <2>12. Unread' = Later
      <3>1. \A i \in 1..N : i \in Later <=> \E c \in (bin + 1)..NCell :
                                              i \in BinSet(c) \/ i \in Elems(binToIp[c])
        BY DEF Later
      <3>2. \A i \in 1..N : i \in Later' <=> \E c \in ((bin + 1) + 1)..NCell :
                                               i \in BinSet(c) \/ i \in Elems(binToIp[c])
        <4>1. Later' = {i \in 1..N : \E c \in ((bin + 1) + 1)..NCell :
                                               i \in BinSet(c)' \/ i \in Elems(binToIp[c])}
          BY <1>1, <2>1, <2>6, Zenon DEF Later, Elems
        <4>2. \A c \in ((bin + 1) + 1)..NCell : BinSet(c)' = BinSet(c)
          BY <1>4, <2>11
        <4> QED BY <4>1, <4>2
      <3>3. Later \subseteq 1..N /\ Later' \subseteq 1..N
        BY <2>6 DEF Later
      <3>4. Unread' = BinSet(bin + 1) \cup Later' \cup Elems(binToIp[bin + 1])
        <4>1. Unread' = Elems(todo') \cup Later'
                          \cup (IF pc' = "binned" THEN Elems(binToIp'[bin']) ELSE {})
          BY Zenon DEF Unread, Elems
        <4> QED BY <1>1, <2>1, <2>4, <4>1
      <3>5. BinSet(bin + 1) \subseteq 1..N /\ Elems(binToIp[bin + 1]) \subseteq 1..N
        BY <1>3, <2>2, <2>3
      <3>6. \A c : c \in (bin + 1)..NCell <=> c = bin + 1 \/ c \in ((bin + 1) + 1)..NCell
        BY <1>3, <1>4, <1>12
      <3>7. \A i \in 1..N : i \in Later <=>
              i \in BinSet(bin + 1) \/ i \in Later' \/ i \in Elems(binToIp[bin + 1])
        BY <3>1, <3>2, <3>6, Zenon
      <3> HIDE DEF Later, Unread
      <3> QED BY <3>3, <3>4, <3>5, <3>7
    <2>13. Sources'
      <3>1. \A i \in Elems(todo') : i \in 1..N /\ cell[slots[i]] = bin + 1 /\ i <= moveBegin
        BY <1>3, <2>2, <2>3, <2>4
      <3>2. \A c \in ((bin + 1) + 1)..NCell : c \in (bin + 1)..NCell
        BY <1>4
      <3>3. /\ Distinct(todo')
            /\ \A i \in Elems(todo') :
                 /\ i \in 1..N' /\ cell'[slots'[i]] = bin'
                 /\ IF pc' = "binned" THEN i <= moveBegin' ELSE i > moveBegin'
        BY <1>1, <2>1, <2>4, <2>6, <3>1
      <3>4. \A c \in (bin' + 1)..NCell : \A i \in BinSet(c)' :
                 i \in 1..moveBegin' /\ cell'[slots'[i]] = c
        BY <1>1, <2>1, <2>3, <2>11, <3>2
      <3>5. \A c \in bin'..NCell : c > bin' \/ pc' = "binned" =>
                /\ Distinct(binToIp'[c])
                /\ \A i \in Elems(binToIp'[c]) : i \in (moveBegin' + 1)..N' /\ cell'[slots'[i]] = c
        BY <1>1, <2>1, <2>3, <2>6
      <3> QED BY <3>3, <3>4, <3>5, Zenon DEF Sources, Distinct, Elems
    <2>14. Written'
      <3>1. Filled' = Filled
        BY <1>1, <2>6 DEF Filled
      <3> HIDE DEF Unread, Later, Filled
      <3> QED BY <1>1, <1>2, <1>9, <2>1, <2>6, <2>12, <3>1 DEF Written
    <2>15. NewBins'
      <3>1. front' - newLength' = front /\ front' = front /\ buf' = buf /\ cell' = cell
            /\ bin' - 1 = bin /\ newLength' <= front'
        BY <1>1, <1>4, <2>1
      <3>2. (front' - newLength' + 1)..front' = {}
        BY <1>4, <3>1
      <3> QED BY <1>11, <3>1, <3>2 DEF NewBins
    <2> QED BY <2>6, <2>7, <2>8, <2>9, <2>10, <2>13, <2>14, <2>15 DEF IInv, Swept
  <1>13. CASE ~(bin < NCell)
    <2>1. pc' = "swept" /\ moveBegin' = back /\ slots' = buf /\ UNCHANGED <<bin, todo>>
      BY <1>13, Zenon DEF EndBin
    <2>2. bin = NCell /\ (bin + 1)..NCell = {}
      BY <1>b, <1>13
    <2>3. Unread = {}
      BY <1>9, <2>2 DEF Later
    <2>4. front = back
      <3>1. Cardinality(Unread) = 0
        BY <2>3, FS_EmptySet
      <3> QED BY <1>2, <1>4, <3>1 DEF Written
    <2>5. Filled = 1..N
      BY <1>3, <1>4, <2>4 DEF Filled
    <2>6. /\ Len(buf) = N
          /\ \A i, j \in 1..N : buf[i] = buf[j] => i = j
          /\ \A i \in 1..N : \E u \in 1..N : buf[i] = slots[u]
          /\ \A u \in 1..N : \E i \in 1..N : buf[i] = slots[u]
      <3>1. (1..N) \ Unread = 1..N
        BY <2>3
      <3> HIDE DEF Unread, Filled
      <3>2. Len(buf) = N
        BY <1>2 DEF Written
      <3>3. \A i, j \in Filled : buf[i] = buf[j] => i = j
        BY <1>2 DEF Written
      <3>4. \A i \in Filled : \E u \in (1..N) \ Unread : buf[i] = slots[u]
        BY <1>2 DEF Written
      <3>5. \A u \in (1..N) \ Unread : \E i \in Filled : buf[i] = slots[u]
        BY <1>2 DEF Written
      <3>6. \A i, j \in 1..N : buf[i] = buf[j] => i = j
        BY <2>5, <3>3
      <3>7. \A i \in 1..N : \E u \in 1..N : buf[i] = slots[u]
        BY <2>5, <3>1, <3>4
      <3>8. \A u \in 1..N : \E i \in 1..N : buf[i] = slots[u]
        BY <2>5, <3>1, <3>5
      <3> QED BY <3>2, <3>6, <3>7, <3>8, Zenon
    <2>7. buf \in Seq(Particle)
      <3>1. buf \in Seq(Particle \cup {Empty})
        BY <1>2 DEF Typed, TypeOK
      <3>2. buf \in [1..N -> Particle \cup {Empty}]
        BY <2>6, <3>1
      <3>3. \A i \in 1..N : buf[i] \in Particle
        BY <1>3, <2>6
      <3>4. buf \in [1..N -> Particle]
        BY <3>2, <3>3
      <3> QED BY <1>3, <3>4, IsSequence
    <2>8. Elems(slots') = Elems(slots)
      <3>1. \A p : p \in Elems(buf) <=> \E i \in 1..N : p = buf[i]
        BY <2>6 DEF Elems
      <3>2. \A p : p \in Elems(slots) <=> \E i \in 1..N : p = slots[i]
        BY DEF Elems, N
      <3>3. \A p : p \in Elems(buf) => p \in Elems(slots)
        <4> TAKE p
        <4> HAVE p \in Elems(buf)
        <4>1. PICK i \in 1..N : p = buf[i]
          BY <3>1
        <4>2. PICK u \in 1..N : buf[i] = slots[u]
          BY <2>6, Zenon
        <4> QED BY <3>2, <4>1, <4>2, Zenon
      <3>4. \A p : p \in Elems(slots) => p \in Elems(buf)
        <4> TAKE p
        <4> HAVE p \in Elems(slots)
        <4>1. PICK u \in 1..N : p = slots[u]
          BY <3>2
        <4>2. PICK i \in 1..N : buf[i] = slots[u]
          BY <2>6, Zenon
        <4> QED BY <3>1, <4>1, <4>2, Zenon
      <3> QED BY <2>1, <3>3, <3>4
    <2>9. N' = N /\ Distinct(slots')
      BY <2>1, <2>6 DEF N, Distinct
    <2>10. TypeOK'
      <3>1. pc' \in {"idle", "binned", "tail", "swept", "packed", "deposited", "collect",
                     "leaving", "sort"} /\ newLength' \in Nat /\ moveBegin' \in Nat
        BY <1>1, <1>4, <2>1
      <3> QED BY <1>1, <1>2, <1>6, <2>1, <2>7, <3>1, Zenon DEF Typed, TypeOK
    <2>11. Typed'
      BY <1>1, <1>2, <2>9, <2>10 DEF Typed
    <2>12. Apart'
      BY <1>1, <1>2, <2>8 DEF Apart
    <2>13. Marks'
      BY <1>1, <1>2, <1>4, <2>1, <2>9 DEF Marks
    <2>14. Binned'
      <3>1. \A c \in Cell : c \in 1..bin
        BY <2>2 DEF Cell
      <3>2. \A c \in 1..bin : c \in Cell
        BY <2>2 DEF Cell
      <3>3. /\ \A c \in Cell : \A i \in BinSet(c)' : i \in 1..moveBegin' /\ cell'[slots'[i]] = c
            /\ \A i \in 1..moveBegin' : \E c \in Cell : i \in BinSet(c)'
        BY <1>1, <1>11, <2>1, <2>4, <3>1, <3>2
      <3> QED BY <3>3, Zenon DEF Binned
    <2>15. Held'
      <3>1. Inside' \ added' \subseteq Elems(slots') /\ added' \cap Elems(slots') = {}
        BY <1>1, <1>2, <2>8 DEF Held, Inside
      <3> QED BY <2>1, <3>1 DEF Held, Leaving
    <2>16. Swept'
      BY <2>1 DEF Swept, Sweeping
    <2> QED BY <2>11, <2>12, <2>13, <2>14, <2>15, <2>16 DEF IInv
  <1> QED BY <1>12, <1>13

---------------------------------------------------------------------------
(* One vector: its lanes go to the two ends of what is left of buf.         *)

Movers(A, L)       == (1..L) \ A
FrontZone(A, f)    == (f + 1)..(f + Cardinality(A))
BackStart(A, L, k) == k - Cardinality(Movers(A, L))
BackZone(A, L, k)  == (BackStart(A, L, k) + 1)..k

(* The lane that comes to slot i of buf. *)
LaneOf(A, L, f, k, i) ==
  IF i \in FrontZone(A, f) THEN Ordered(A)[i - f]
  ELSE Ordered(Movers(A, L))[i - BackStart(A, L, k)]

(* Every lane that stays comes to one slot of the front zone, every other  *)
(* one to one slot of the back zone, and the zones do not meet.            *)
LanesTaken(A, L, f, k) ==
  /\ Cardinality(A) \in Nat /\ Cardinality(Movers(A, L)) \in Nat
  /\ Cardinality(A) + Cardinality(Movers(A, L)) = L
  /\ f + Cardinality(A) <= BackStart(A, L, k)
  /\ \A i \in FrontZone(A, f) : LaneOf(A, L, f, k, i) \in A
  /\ \A i \in BackZone(A, L, k) : LaneOf(A, L, f, k, i) \in Movers(A, L)
  /\ \A i, j \in FrontZone(A, f) \cup BackZone(A, L, k) :
       LaneOf(A, L, f, k, i) = LaneOf(A, L, f, k, j) => i = j
  /\ \A l \in 1..L : \E i \in FrontZone(A, f) \cup BackZone(A, L, k) :
       LaneOf(A, L, f, k, i) = l

LEMMA ZonesTakeTheLanes ==
  ASSUME NEW L \in Nat, NEW A \in SUBSET (1..L), NEW f \in Nat, NEW k \in Nat, f + L <= k
  PROVE  LanesTaken(A, L, f, k)
  <1> DEFINE B == Movers(A, L)
             a == Cardinality(A)
             b == Cardinality(B)
             sA == Ordered(A)
             sB == Ordered(B)
             at(i) == LaneOf(A, L, f, k, i)
  <1>1. B \in SUBSET (1..L) /\ A \cap B = {} /\ A \cup B = 1..L
    BY DEF Movers
  <1> HIDE DEF B
  <1>2. /\ IsFiniteSet(A) /\ a \in Nat
        /\ \A n \in 1..a : sA[n] \in A
        /\ \A m, n \in 1..a : sA[m] = sA[n] => m = n
        /\ \A l \in A : \E n \in 1..a : sA[n] = l
    BY OrderedLists, Zenon
  <1>3. /\ IsFiniteSet(B) /\ b \in Nat
        /\ \A n \in 1..b : sB[n] \in B
        /\ \A m, n \in 1..b : sB[m] = sB[n] => m = n
        /\ \A l \in B : \E n \in 1..b : sB[n] = l
    BY <1>1, OrderedLists, Zenon
  <1> HIDE DEF a, b, sA, sB
  <1>4. a + b = L
    <2>1. Cardinality(A \cup B) = Cardinality(A) + Cardinality(B) - Cardinality(A \cap B)
      BY <1>2, <1>3, FS_Union
    <2>2. Cardinality(A \cap B) = 0
      BY <1>1, FS_EmptySet
    <2>3. Cardinality(1..L) = L
      BY FS_Interval
    <2>4. Cardinality(A \cup B) = L
      BY <1>1, <2>3, Zenon
    <2>5. L = a + b - 0
      BY <2>1, <2>2, <2>4, Zenon DEF a, b
    <2> QED BY <1>2, <1>3, <2>5
  <1>5. /\ FrontZone(A, f) = (f + 1)..(f + a) /\ BackStart(A, L, k) = k - b
        /\ BackZone(A, L, k) = ((k - b) + 1)..k
    BY DEF FrontZone, BackZone, BackStart, a, b, B
  <1>6. f + a <= k - b
    BY <1>2, <1>3, <1>4
  <1>7. ASSUME NEW i \in (f + 1)..(f + a) PROVE i - f \in 1..a /\ at(i) = sA[i - f]
    <2>1. i - f \in 1..a
      BY <1>2
    <2>2. at(i) = sA[i - f]
      BY <1>5, Zenon DEF LaneOf, sA
    <2> QED BY <2>1, <2>2
  <1>8. ASSUME NEW i \in ((k - b) + 1)..k PROVE i - (k - b) \in 1..b /\ at(i) = sB[i - (k - b)]
    <2>1. i - (k - b) \in 1..b /\ i \notin (f + 1)..(f + a)
      BY <1>2, <1>3, <1>6
    <2>2. at(i) = sB[i - (k - b)]
      BY <1>5, <2>1, Zenon DEF LaneOf, sB, B
    <2> QED BY <2>1, <2>2
  <1> HIDE DEF at
  <1>9. \A i \in (f + 1)..(f + a) : at(i) \in A
    <2> TAKE i \in (f + 1)..(f + a)
    <2>1. i - f \in 1..a /\ at(i) = sA[i - f]
      BY <1>7
    <2> QED BY <1>2, <2>1
  <1>10. \A i \in ((k - b) + 1)..k : at(i) \in B
    <2> TAKE i \in ((k - b) + 1)..k
    <2>1. i - (k - b) \in 1..b /\ at(i) = sB[i - (k - b)]
      BY <1>8
    <2> QED BY <1>3, <2>1
  <1>11. \A i, j \in (f + 1)..(f + a) : at(i) = at(j) => i = j
    <2> TAKE i, j \in (f + 1)..(f + a)
    <2> HAVE at(i) = at(j)
    <2>1. i - f = j - f
      BY <1>2, <1>7, Zenon
    <2> QED BY <1>2, <2>1
  <1>12. \A i, j \in ((k - b) + 1)..k : at(i) = at(j) => i = j
    <2> TAKE i, j \in ((k - b) + 1)..k
    <2> HAVE at(i) = at(j)
    <2>1. i - (k - b) = j - (k - b)
      BY <1>3, <1>8, Zenon
    <2> QED BY <1>3, <2>1
  <1>13. \A i, j \in ((f + 1)..(f + a)) \cup (((k - b) + 1)..k) : at(i) = at(j) => i = j
    <2> TAKE i, j \in ((f + 1)..(f + a)) \cup (((k - b) + 1)..k)
    <2> HAVE at(i) = at(j)
    <2>1. i \in (f + 1)..(f + a) /\ j \in ((k - b) + 1)..k => FALSE
      BY <1>1, <1>9, <1>10
    <2>2. j \in (f + 1)..(f + a) /\ i \in ((k - b) + 1)..k => FALSE
      BY <1>1, <1>9, <1>10
    <2> QED BY <1>11, <1>12, <2>1, <2>2, Zenon
  <1>14. \A l \in 1..L : \E i \in ((f + 1)..(f + a)) \cup (((k - b) + 1)..k) : at(i) = l
    <2> TAKE l \in 1..L
    <2>1. CASE l \in A
      <3>1. PICK n \in 1..a : sA[n] = l
        BY <1>2, <2>1, Zenon
      <3>2. f + n \in (f + 1)..(f + a) /\ (f + n) - f = n
        BY <1>2
      <3>3. at(f + n) = l
        BY <1>7, <3>1, <3>2
      <3> QED BY <3>2, <3>3
    <2>2. CASE l \in B
      <3>1. PICK n \in 1..b : sB[n] = l
        BY <1>3, <2>2, Zenon
      <3>2. (k - b) + n \in ((k - b) + 1)..k /\ ((k - b) + n) - (k - b) = n
        BY <1>3
      <3>3. at((k - b) + n) = l
        BY <1>8, <3>1, <3>2
      <3> QED BY <3>2, <3>3
    <2> QED BY <1>1, <2>1, <2>2
  <1> QED BY <1>2, <1>3, <1>4, <1>5, <1>6, <1>9, <1>10, <1>13, <1>14, Zenon DEF a, b, B, at, LanesTaken

(* The lanes of a vector are unread, so they fit between the two writers.   *)
Read == {todo[l] : l \in 1..Lanes}

LEMMA LanesFit ==
  ASSUME IInv, Sweeping
  PROVE  /\ todo \in Seq(Nat) /\ Len(todo) \in Nat /\ Lanes \in 0..Len(todo)
         /\ todo # <<>> => Lanes > 0
         /\ \A l, m \in 1..Len(todo) : todo[l] = todo[m] => l = m
         /\ \A l \in 1..Len(todo) : todo[l] \in Unread /\ todo[l] \in 1..N
         /\ front \in Nat /\ back \in Nat /\ front + Lanes <= back /\ back <= N
         /\ Unread \in SUBSET (1..N)
         /\ Cardinality(Unread \ Read) = (back - front) - Lanes
  <1> DEFINE n == Len(todo)
             L == Lanes
  <1>1. Typed /\ Sources /\ Written
    BY DEF IInv, Swept
  <1>2. /\ todo \in Seq(Nat) /\ n \in Nat /\ front \in Nat /\ back \in Int /\ back <= N
        /\ front <= back /\ back - front = Cardinality(Unread)
    BY <1>1 DEF Typed, TypeOK, Written
  <1>3. N \in Nat /\ moveBegin \in Nat /\ NCell \in Nat
    BY <1>1, Shape
  <1>4. L \in 0..n /\ (todo # <<>> => L > 0)
    BY <1>2, PhysSortAssumption DEF Lanes
  <1>5. \A l, m \in 1..n : todo[l] = todo[m] => l = m
    BY <1>1 DEF Sources, Distinct
  <1>6. \A l \in 1..n : todo[l] \in Unread /\ todo[l] \in 1..N
    BY <1>1 DEF Sources, Unread, Elems
  <1>7. Unread \in SUBSET (1..N)
    <2>1. Elems(todo) \subseteq 1..N
      BY <1>6 DEF Elems
    <2>2. pc = "binned" => Elems(binToIp[bin]) \subseteq 1..N
      <3> HAVE pc = "binned"
      <3>1. bin \in bin..NCell
        BY <1>1, PhysSortAssumption DEF Typed, TypeOK, Cell
      <3>2. \A i \in Elems(binToIp[bin]) : i \in (moveBegin + 1)..N
        BY <1>1, <3>1 DEF Sources
      <3> QED BY <1>3, <3>2
    <2> QED BY <2>1, <2>2 DEF Unread, Later
  <1> HIDE DEF n, L
  <1>8. IsFiniteSet(Unread) /\ Cardinality(Unread) \in Nat
    BY <1>3, <1>7, BoundedFinite
  <1>9. IsFiniteSet(1..L) /\ Cardinality(1..L) = L /\ \A l \in 1..L : l \in 1..n
    BY <1>2, <1>4, FS_Interval
  <1> DEFINE f == [l \in 1..L |-> todo[l]]
  <1>10. f \in Surjection(1..L, Read) /\ f \in Injection(1..L, Read)
    <2>1. \A l \in 1..L : f[l] = todo[l] /\ todo[l] \in Read
      BY DEF Read, L
    <2>2. \A x \in Read : \E l \in 1..L : f[l] = x
      BY DEF Read, L
    <2>3. f \in [1..L -> Read]
      BY <2>1
    <2>4. \A l, m \in 1..L : f[l] = f[m] => l = m
      BY <1>5, <1>9, <2>1
    <2> HIDE DEF f
    <2> QED BY <2>2, <2>3, <2>4 DEF Surjection, Injection, IsInjective
  <1> HIDE DEF f
  <1>11. IsFiniteSet(Read) /\ Cardinality(Read) = L
    BY <1>9, <1>10, FS_Surjection
  <1>12. Read \in SUBSET Unread
    BY <1>6, <1>9 DEF Read, L
  <1>13. Cardinality(Read) <= Cardinality(Unread)
    BY <1>8, <1>12, FS_Subset
  <1>14. Cardinality(Unread \ Read) = Cardinality(Unread) - Cardinality(Unread \cap Read)
    BY <1>8, FS_Difference
  <1>15. Unread \cap Read = Read
    BY <1>12
  <1>16. Cardinality(Unread \ Read) = (back - front) - L
    BY <1>2, <1>11, <1>14, <1>15
  <1>17. front + L <= back /\ back \in Nat
    <2>1. L <= back - front
      BY <1>2, <1>11, <1>13
    <2>2. L \in Nat
      BY <1>2, <1>4
    <2> QED BY <1>2, <2>1, <2>2
  <1> QED BY <1>2, <1>4, <1>5, <1>6, <1>7, <1>16, <1>17, Zenon DEF n, L

(* What one step of the kernel does, A being the lanes that stay.           *)
Zone(A) == FrontZone(A, front) \cup BackZone(A, Lanes, back)
Slot(A, i) == todo[LaneOf(A, Lanes, front, back, i)]

Pushed(A) ==
  /\ cell' \in [Particle -> 0..NCell]
  /\ \A p \in Particle : p \notin {slots[i] : i \in Read} => cell'[p] = cell[p]
  /\ \A l \in A : cell'[slots[todo[l]]] = bin
  /\ front' = front + Cardinality(A) /\ back' = BackStart(A, Lanes, back)
  /\ newLength' = newLength + Cardinality(A)
  /\ buf' \in Seq(Particle \cup {Empty}) /\ Len(buf') = N
  /\ \A i \in 1..N : buf'[i] = IF i \in Zone(A) THEN slots[Slot(A, i)] ELSE buf[i]

LEMMA PushVectorDoes ==
  ASSUME IInv, PushVector
  PROVE  \E A \in SUBSET (1..Lanes) : Pushed(A)
  <1> DEFINE L == Lanes
             lane == [i \in 1..Lanes |-> slots[todo[i]]]
  <1>1. pc \in {"binned", "tail"} /\ Sweeping /\ todo # <<>>
    BY DEF PushVector, Sweeping
  <1>2. /\ L \in 0..Len(todo) /\ L \in Nat
        /\ \A l \in 1..Len(todo) : todo[l] \in Unread /\ todo[l] \in 1..N
        /\ \A l, m \in 1..Len(todo) : todo[l] = todo[m] => l = m
        /\ front \in Nat /\ back \in Nat /\ front + L <= back /\ back <= N
    BY <1>1, LanesFit
  <1>3. PICK dest \in [Elems(lane) -> 0..NCell] :
          LET stay == Picked(lane, {i \in 1..Lanes : dest[lane[i]] = bin})
              move == Picked(lane, {i \in 1..Lanes : dest[lane[i]] # bin}) IN
          /\ cell' = [p \in Particle |-> IF p \in Elems(lane) THEN dest[p] ELSE cell[p]]
          /\ buf' = [i \in 1..Len(buf) |->
               CASE i \in (front + 1)..(front + Len(stay)) -> stay[i - front]
                 [] i \in (BackAfter(move) + 1)..back /\ i - BackAfter(move) <= Len(move)
                      -> move[i - BackAfter(move)]
                 [] OTHER -> buf[i]]
          /\ front' = front + Len(stay)
          /\ back' = BackAfter(move)
          /\ newLength' = newLength + Len(stay)
    BY Zenon DEF PushVector
  <1> DEFINE A == {i \in 1..L : dest[lane[i]] = bin}
             B == Movers(A, L)
             a == Cardinality(A)
             b == Cardinality(B)
             stay == Picked(lane, A)
             move == Picked(lane, B)
  <1>4. /\ N \in Nat /\ slots \in [1..N -> Particle] /\ cell \in [Particle -> 0..NCell]
        /\ Len(buf) = N /\ buf \in Seq(Particle \cup {Empty})
    <2>1. Typed /\ Written
      BY <1>1 DEF IInv, Swept
    <2> QED BY <2>1, Shape DEF Written, Typed, TypeOK
  <1>5. A \in SUBSET (1..L) /\ B \in SUBSET (1..L)
        /\ B = {i \in 1..Lanes : dest[lane[i]] # bin}
    BY DEF Movers
  <1>6. /\ a \in Nat /\ b \in Nat /\ a + b = L
        /\ front + a <= BackStart(A, L, back)
        /\ \A i \in FrontZone(A, front) : LaneOf(A, L, front, back, i) \in A
        /\ \A i \in BackZone(A, L, back) : LaneOf(A, L, front, back, i) \in B
    <2>1. LanesTaken(A, L, front, back)
      BY <1>2, <1>5, ZonesTakeTheLanes
    <2> QED BY <2>1, Zenon DEF LanesTaken
  <1>7. lane \in [1..L -> Particle] /\ \A l \in 1..L : lane[l] = slots[todo[l]]
    BY <1>2, <1>4
  <1>8. Len(lane) = L
    BY <1>2, <1>7, IsSequence
  <1>9. /\ cell' = [p \in Particle |-> IF p \in Elems(lane) THEN dest[p] ELSE cell[p]]
        /\ front' = front + Len(stay) /\ back' = BackAfter(move)
        /\ newLength' = newLength + Len(stay)
        /\ buf' = [i \in 1..Len(buf) |->
               CASE i \in (front + 1)..(front + Len(stay)) -> stay[i - front]
                 [] i \in (BackAfter(move) + 1)..back /\ i - BackAfter(move) <= Len(move)
                      -> move[i - BackAfter(move)]
                 [] OTHER -> buf[i]]
    <2> DEFINE move0 == Picked(lane, {i \in 1..Lanes : dest[lane[i]] # bin})
    <2>1. /\ cell' = [p \in Particle |-> IF p \in Elems(lane) THEN dest[p] ELSE cell[p]]
          /\ front' = front + Len(stay) /\ back' = BackAfter(move0)
          /\ newLength' = newLength + Len(stay)
          /\ buf' = [i \in 1..Len(buf) |->
               CASE i \in (front + 1)..(front + Len(stay)) -> stay[i - front]
                 [] i \in (BackAfter(move0) + 1)..back /\ i - BackAfter(move0) <= Len(move0)
                      -> move0[i - BackAfter(move0)]
                 [] OTHER -> buf[i]]
      BY <1>3
    <2>2. move0 = move
      BY <1>5
    <2> HIDE DEF move0, move, stay, lane
    <2> QED BY <2>1, <2>2
  <1> HIDE DEF A, L, B, lane
  <1>10. \A n \in 1..a : Ordered(A)[n] \in 1..L
    BY <1>2, <1>5, OrderedLists
  <1>11. \A n \in 1..b : Ordered(B)[n] \in 1..L
    BY <1>2, <1>5, OrderedLists
  <1>12. /\ stay = [n \in 1..a |-> lane[Ordered(A)[n]]]
         /\ move = [n \in 1..b |-> lane[Ordered(B)[n]]]
    BY DEF Picked
  <1> HIDE DEF a, b, stay, move
  <1>13. stay \in [1..a -> Particle] /\ move \in [1..b -> Particle]
    BY <1>7, <1>10, <1>11, <1>12
  <1>14. Len(stay) = a /\ Len(move) = b
    BY <1>6, <1>13, IsSequence
  <1>15. BackAfter(move) = back - b /\ BackStart(A, L, back) = back - b
    BY <1>14 DEF BackAfter, BackStart, b, B
  <1>16. /\ FrontZone(A, front) = (front + 1)..(front + a)
         /\ BackZone(A, L, back) = ((back - b) + 1)..back
    BY <1>15 DEF FrontZone, BackZone, a
  <1>17. Elems(lane) = {slots[i] : i \in Read}
    <2>1. \A p : p \in Elems(lane) <=> \E l \in 1..L : p = lane[l]
      BY <1>8 DEF Elems
    <2>2. \A i : i \in Read <=> \E l \in 1..L : i = todo[l]
      BY DEF Read, L
    <2>3. \A p : p \in {slots[i] : i \in Read} <=> \E l \in 1..L : p = slots[todo[l]]
      <3> TAKE p
      <3>1. p \in {slots[i] : i \in Read} => \E l \in 1..L : p = slots[todo[l]]
        <4> HAVE p \in {slots[i] : i \in Read}
        <4>1. PICK i \in Read : p = slots[i]
          OBVIOUS
        <4>2. PICK l \in 1..L : i = todo[l]
          BY <2>2
        <4> QED BY <4>1, <4>2
      <3>2. (\E l \in 1..L : p = slots[todo[l]]) => p \in {slots[i] : i \in Read}
        BY <2>2
      <3> QED BY <3>1, <3>2
    <2>4. \A p : p \in Elems(lane) <=> p \in {slots[i] : i \in Read}
      BY <1>7, <2>1, <2>3, ZenonT(40)
    <2> QED BY <2>4, Zenon
  <1>18. /\ cell' \in [Particle -> 0..NCell]
         /\ \A p \in Particle : cell'[p] = IF p \in Elems(lane) THEN dest[p] ELSE cell[p]
    BY <1>4, <1>9
  <1>19. \A l \in A : cell'[slots[todo[l]]] = bin
    <2> TAKE l \in A
    <2>1. l \in 1..L /\ lane[l] \in Particle /\ lane[l] \in Elems(lane)
      BY <1>5, <1>7, <1>8 DEF Elems
    <2>2. dest[lane[l]] = bin
      BY DEF A
    <2> QED BY <1>7, <1>18, <2>1, <2>2
  <1>20. \A i \in 1..N : i \in FrontZone(A, front) =>
           buf'[i] = slots[todo[LaneOf(A, L, front, back, i)]]
    <2> TAKE i \in 1..N
    <2> HAVE i \in FrontZone(A, front)
    <2>1. /\ i \in (front + 1)..(front + a) /\ i - front \in 1..a
          /\ i \notin ((back - b) + 1)..back
      BY <1>2, <1>6, <1>15, <1>16
    <2>2. buf'[i] = stay[i - front]
      BY <1>4, <1>9, <1>14, <1>15, <2>1
    <2>3. stay[i - front] = lane[Ordered(A)[i - front]]
      BY <1>12, <2>1
    <2>4. LaneOf(A, L, front, back, i) = Ordered(A)[i - front]
      BY Zenon DEF LaneOf
    <2> QED BY <1>7, <1>10, <2>1, <2>2, <2>3, <2>4
  <1>21. \A i \in 1..N : i \in BackZone(A, L, back) =>
           buf'[i] = slots[todo[LaneOf(A, L, front, back, i)]]
    <2> TAKE i \in 1..N
    <2> HAVE i \in BackZone(A, L, back)
    <2>1. /\ i \in ((back - b) + 1)..back /\ i - (back - b) \in 1..b
          /\ i \notin (front + 1)..(front + a) /\ i - (back - b) <= b
      BY <1>2, <1>6, <1>15, <1>16
    <2>2. buf'[i] = move[i - (back - b)]
      BY <1>4, <1>9, <1>14, <1>15, <2>1
    <2>3. move[i - (back - b)] = lane[Ordered(B)[i - (back - b)]]
      BY <1>12, <2>1
    <2>4. LaneOf(A, L, front, back, i) = Ordered(B)[i - (back - b)]
      BY <1>15, <1>16, <2>1, Zenon DEF LaneOf, B
    <2> QED BY <1>7, <1>11, <2>1, <2>2, <2>3, <2>4
  <1>22. \A i \in 1..N : i \notin FrontZone(A, front) \cup BackZone(A, L, back) => buf'[i] = buf[i]
    BY <1>4, <1>9, <1>14, <1>15, <1>16
  <1>23. \A i \in 1..N : buf'[i] = IF i \in Zone(A) THEN slots[Slot(A, i)] ELSE buf[i]
    BY <1>20, <1>21, <1>22 DEF Zone, Slot, L
  <1>24. buf' \in Seq(Particle \cup {Empty}) /\ Len(buf') = N
    <2>1. \A i \in 1..N : buf[i] \in Particle \cup {Empty}
      BY <1>4
    <2>2. \A i \in 1..N : i \in Zone(A) => slots[Slot(A, i)] \in Particle
      <3> TAKE i \in 1..N
      <3> HAVE i \in Zone(A)
      <3>1. LaneOf(A, L, front, back, i) \in 1..L
        BY <1>5, <1>6 DEF Zone, L
      <3>2. Slot(A, i) \in 1..N
        BY <1>2, <3>1 DEF Slot, L
      <3> QED BY <1>4, <3>2
    <2>3. \A i \in 1..N : buf'[i] \in Particle \cup {Empty}
      BY <1>23, <2>1, <2>2
    <2>4. buf' = [i \in 1..N |-> buf'[i]]
      BY <1>4, <1>9
    <2>5. buf' \in [1..N -> Particle \cup {Empty}]
      BY <2>3, <2>4
    <2> QED BY <1>4, <2>5, IsSequence
  <1>25. /\ front' = front + Cardinality(A) /\ back' = BackStart(A, Lanes, back)
         /\ newLength' = newLength + Cardinality(A)
    BY <1>9, <1>14, <1>15 DEF a, L
  <1>26. Pushed(A)
    BY <1>17, <1>18, <1>19, <1>23, <1>24, <1>25 DEF Pushed
  <1> QED BY <1>5, <1>26 DEF L

LEMMA PushVectorHolds == IInv /\ PushVector => IInv'
  <1> SUFFICES ASSUME IInv, PushVector PROVE IInv'
    OBVIOUS
  <1>1. /\ pc \in {"binned", "tail"} /\ todo # <<>>
        /\ todo' = SubSeq(todo, Lanes + 1, Len(todo))
        /\ UNCHANGED <<pc, step, isLastStep, slots, idcpu, carried, binOffset, binLength,
                       moveBegin, newBegin, initialized, binToIp, bin, current, added>>
    BY DEF PushVector, bins
  <1>2. Typed /\ Apart /\ Marks /\ Held /\ Sources /\ Written /\ NewBins /\ Sweeping
    BY <1>1 DEF IInv, Swept, Sweeping
  <1>3. /\ todo \in Seq(Nat) /\ Len(todo) \in Nat /\ Lanes \in 0..Len(todo) /\ Lanes \in Nat
        /\ \A l, m \in 1..Len(todo) : todo[l] = todo[m] => l = m
        /\ \A l \in 1..Len(todo) : todo[l] \in Unread /\ todo[l] \in 1..N
        /\ front \in Nat /\ back \in Nat /\ front + Lanes <= back /\ back <= N
        /\ Unread \in SUBSET (1..N)
        /\ Cardinality(Unread \ Read) = (back - front) - Lanes
    BY <1>2, LanesFit
  <1>4. /\ N \in Nat /\ slots \in [1..N -> Particle] /\ moveBegin \in Nat /\ NCell \in Nat
        /\ \A i, j \in 1..N : slots[i] = slots[j] => i = j
        /\ \A i \in 1..N : slots[i] \in Elems(slots)
    BY <1>2, Shape
  <1>5. PICK A \in SUBSET (1..Lanes) : Pushed(A)
    BY PushVectorDoes
  <1> DEFINE a == Cardinality(A)
             b == Cardinality(Movers(A, Lanes))
             FZ == FrontZone(A, front)
             BZ == BackZone(A, Lanes, back)
             at(i) == LaneOf(A, Lanes, front, back, i)
  <1>6. /\ a \in Nat /\ b \in Nat /\ a + b = Lanes
        /\ front + a <= BackStart(A, Lanes, back)
        /\ \A i \in FZ : at(i) \in A
        /\ \A i \in BZ : at(i) \in Movers(A, Lanes)
        /\ \A i, j \in FZ \cup BZ : at(i) = at(j) => i = j
        /\ \A l \in 1..Lanes : \E i \in FZ \cup BZ : at(i) = l
    <2>1. LanesTaken(A, Lanes, front, back)
      BY <1>3, ZonesTakeTheLanes
    <2> QED BY <2>1, Zenon DEF LanesTaken
  <1>7. BackStart(A, Lanes, back) = back - b /\ FZ = (front + 1)..(front + a)
        /\ BZ = ((back - b) + 1)..back /\ Zone(A) = FZ \cup BZ
    BY DEF BackStart, FrontZone, BackZone, Zone
  <1>8. /\ cell' \in [Particle -> 0..NCell]
        /\ \A p \in Particle : p \notin {slots[i] : i \in Read} => cell'[p] = cell[p]
        /\ \A l \in A : cell'[slots[todo[l]]] = bin
        /\ front' = front + a /\ back' = back - b /\ newLength' = newLength + a
        /\ buf' \in Seq(Particle \cup {Empty}) /\ Len(buf') = N
        /\ \A i \in 1..N : buf'[i] = IF i \in FZ \cup BZ THEN slots[Slot(A, i)] ELSE buf[i]
    BY <1>5, <1>7 DEF Pushed
  <1> HIDE DEF a, b, FZ, BZ, at
  <1>9. \A l \in 1..Lanes : l \in 1..Len(todo) /\ todo[l] \in Read
    BY <1>3 DEF Read
  <1>10. \A u \in Read : u \in Unread /\ u \in 1..N /\ \E l \in 1..Lanes : u = todo[l]
    BY <1>3, <1>9 DEF Read
  <1>11. Filled' = Filled \cup (FZ \cup BZ) /\ N' = N
    <2>1. N' = N
      BY <1>1 DEF N
    <2>2. front' = front + a /\ back' = back - b /\ front + a <= back - b
      BY <1>6, <1>7, <1>8
    <2>3. \A i \in Nat : i \in (1..(front + a)) \cup (((back - b) + 1)..N)
                       <=> \/ i \in (1..front) \cup ((back + 1)..N)
                           \/ i \in (front + 1)..(front + a) \/ i \in ((back - b) + 1)..back
      BY <1>3, <1>4, <1>6, <2>2
    <2>4. /\ \A i : i \in (1..(front + a)) \cup (((back - b) + 1)..N) => i \in Nat
          /\ \A i : i \in (1..front) \cup ((back + 1)..N) => i \in Nat
          /\ \A i : i \in (front + 1)..(front + a) => i \in Nat
          /\ \A i : i \in ((back - b) + 1)..back => i \in Nat
      BY <1>3, <1>4, <1>6, <2>2
    <2>5. Filled' = (1..(front + a)) \cup (((back - b) + 1)..N)
      BY <2>1, <2>2 DEF Filled
    <2>6. Filled = (1..front) \cup ((back + 1)..N)
      BY DEF Filled
    <2>7. \A i : i \in Filled' <=> i \in Filled \cup (FZ \cup BZ)
      BY <1>7, <2>3, <2>4, <2>5, <2>6
    <2> QED BY <2>1, <2>7
  <1>12. Filled \in SUBSET (1..N) /\ (FZ \cup BZ) \in SUBSET (1..N)
         /\ \A i \in FZ \cup BZ : i \notin Filled
    BY <1>3, <1>4, <1>6, <1>7 DEF Filled
  <1>13. \A i \in FZ \cup BZ : /\ at(i) \in 1..Lanes /\ Slot(A, i) = todo[at(i)]
                              /\ Slot(A, i) \in Read /\ buf'[i] = slots[Slot(A, i)]
    <2> TAKE i \in FZ \cup BZ
    <2>1. at(i) \in 1..Lanes
      BY <1>6 DEF Movers
    <2>2. Slot(A, i) = todo[at(i)]
      BY DEF Slot, at
    <2> QED BY <1>8, <1>9, <1>12, <2>1, <2>2
  <1>14. \A i \in Filled : i \notin FZ \cup BZ /\ buf'[i] = buf[i]
    BY <1>8, <1>12
  (* A slot is read once: the rest of what was unread still is.             *)
  <1>15. Elems(todo') = Elems(todo) \ Read
    <2>1. \A l \in (Lanes + 1)..Len(todo) : todo'[l - Lanes] = todo[l]
      BY <1>1, <1>3
    <2>2. Len(todo') = Len(todo) - Lanes
      BY <1>1, <1>3
    <2>3. \A k \in 1..(Len(todo) - Lanes) : /\ k + Lanes \in (Lanes + 1)..Len(todo)
                                           /\ todo'[k] = todo[k + Lanes]
      BY <1>1, <1>3
    <2>4. \A u : u \in Elems(todo') <=> \E l \in (Lanes + 1)..Len(todo) : u = todo[l]
      <3>1. \A u : u \in Elems(todo') <=> \E k \in 1..(Len(todo) - Lanes) : u = todo'[k]
        BY <2>2 DEF Elems
      <3>2. \A l \in (Lanes + 1)..Len(todo) : l - Lanes \in 1..(Len(todo) - Lanes)
        BY <1>3
      <3> QED BY <2>1, <2>3, <3>1, <3>2
    <2>5. \A u : u \in Elems(todo) <=> \E l \in 1..Len(todo) : u = todo[l]
      BY DEF Elems
    <2>6. \A l \in 1..Len(todo) : l \in 1..Lanes \/ l \in (Lanes + 1)..Len(todo)
      BY <1>3
    <2>7. \A l \in (Lanes + 1)..Len(todo) : l \in 1..Len(todo) /\ l \notin 1..Lanes
      BY <1>3
    <2>8. \A l \in (Lanes + 1)..Len(todo) : todo[l] \notin Read
      <3> TAKE l \in (Lanes + 1)..Len(todo)
      <3>1. SUFFICES ASSUME todo[l] \in Read PROVE FALSE
        OBVIOUS
      <3>2. PICK m \in 1..Lanes : todo[l] = todo[m]
        BY <1>10, <3>1
      <3> QED BY <1>3, <1>9, <2>7, <3>2
    <2>9. \A u \in Elems(todo) : u \notin Read => u \in Elems(todo')
      <3> TAKE u \in Elems(todo)
      <3> HAVE u \notin Read
      <3>1. PICK l \in 1..Len(todo) : u = todo[l]
        BY <2>5
      <3>2. l \notin 1..Lanes
        BY <1>9, <3>1
      <3> QED BY <2>4, <2>6, <3>1, <3>2
    <2>10. \A u \in Elems(todo') : u \in Elems(todo) \ Read
      BY <2>4, <2>5, <2>7, <2>8
    <2> QED BY <2>9, <2>10
  <1>16. Distinct(todo')
    <2> SUFFICES ASSUME NEW k \in 1..Len(todo'), NEW m \in 1..Len(todo'), todo'[k] = todo'[m]
                 PROVE  k = m
      BY DEF Distinct
    <2>1. /\ k + Lanes \in 1..Len(todo) /\ m + Lanes \in 1..Len(todo)
          /\ todo'[k] = todo[k + Lanes] /\ todo'[m] = todo[m + Lanes]
      BY <1>1, <1>3
    <2>2. k + Lanes = m + Lanes
      BY <1>3, <2>1
    <2> QED BY <1>1, <1>3, <2>2
  <1>17. bin \in Nat /\ bin \in bin..NCell
    BY <1>2, PhysSortAssumption DEF Typed, TypeOK, Cell
  <1>18. \A u \in Read : cell[slots[u]] = bin /\ (pc = "binned" => u <= moveBegin)
    <2>1. \A i \in Elems(todo) : cell[slots[i]] = bin /\ (pc = "binned" => i <= moveBegin)
      BY <1>2 DEF Sources
    <2>2. \A u \in Read : u \in Elems(todo)
      BY <1>9, <1>10 DEF Elems
    <2> QED BY <2>1, <2>2
  <1>19. /\ \A c \in (bin + 1)..NCell : \A i \in BinSet(c) :
              i \in 1..moveBegin /\ cell[slots[i]] = c
         /\ \A c \in bin..NCell : c > bin \/ pc = "binned" =>
              /\ Distinct(binToIp[c])
              /\ \A i \in Elems(binToIp[c]) : i \in (moveBegin + 1)..N /\ cell[slots[i]] = c
    BY <1>2, Zenon DEF Sources
  <1>20. \A c \in (bin + 1)..NCell : c # bin /\ c \in bin..NCell /\ c > bin
    BY <1>17
  <1>21. Later \cap Read = {}
    <2> SUFFICES ASSUME NEW u \in Later, u \in Read PROVE FALSE
      OBVIOUS
    <2>1. PICK c \in (bin + 1)..NCell : u \in BinSet(c) \/ u \in Elems(binToIp[c])
      BY DEF Later
    <2>2. cell[slots[u]] = c
      BY <1>19, <1>20, <2>1
    <2> QED BY <1>18, <1>20, <2>2
  <1>22. pc = "binned" => Elems(binToIp[bin]) \cap Read = {}
    <2> SUFFICES ASSUME pc = "binned", NEW u \in Elems(binToIp[bin]), u \in Read PROVE FALSE
      OBVIOUS
    <2>1. u \in (moveBegin + 1)..N
      BY <1>17, <1>19
    <2>2. u <= moveBegin
      BY <1>18
    <2> QED BY <1>4, <2>1, <2>2
  <1>23. Later' = Later
    BY <1>1, <1>11, Zenon DEF Later, BinSet, Elems
  <1>24. Unread' = Unread \ Read
    <2>1. Unread' = Elems(todo') \cup Later \cup (IF pc = "binned" THEN Elems(binToIp[bin]) ELSE {})
      <3>1. Unread' = Elems(todo') \cup Later'
                        \cup (IF pc' = "binned" THEN Elems(binToIp'[bin']) ELSE {})
        BY Zenon DEF Unread, Elems
      <3> QED BY <1>1, <1>23, <3>1
    <2>2. Unread = Elems(todo) \cup Later \cup (IF pc = "binned" THEN Elems(binToIp[bin]) ELSE {})
      BY DEF Unread
    <2> QED BY <1>15, <1>21, <1>22, <2>1, <2>2
  <1> HIDE DEF Unread, Later, Filled
  <1>25. \A u \in 1..N : u \notin Read => cell'[slots[u]] = cell[slots[u]]
    <2> TAKE u \in 1..N
    <2> HAVE u \notin Read
    <2>1. slots[u] \in Particle /\ slots[u] \notin {slots[i] : i \in Read}
      BY <1>4, <1>10
    <2> QED BY <1>8, <2>1
  <1>26. \A p \in Particle : p \notin Elems(slots) => cell'[p] = cell[p]
    BY <1>4, <1>8, <1>10
  <1>27. Sources'
    <2>1. \A i \in Elems(todo') : i \in Elems(todo) /\ i \in 1..N /\ i \notin Read
      BY <1>2, <1>15 DEF Sources
    <2>2. \A i \in Elems(todo') :
               /\ i \in 1..N' /\ cell'[slots'[i]] = bin'
               /\ IF pc' = "binned" THEN i <= moveBegin' ELSE i > moveBegin'
      BY <1>1, <1>2, <1>11, <1>25, <2>1 DEF Sources
    <2>3. \A c \in (bin' + 1)..NCell : \A i \in BinSet(c)' :
               i \in 1..moveBegin' /\ cell'[slots'[i]] = c
      <3> SUFFICES ASSUME NEW c \in (bin + 1)..NCell, NEW i \in BinSet(c)
                   PROVE  i \in 1..moveBegin /\ cell'[slots[i]] = c
        BY <1>1 DEF BinSet
      <3>1. i \in 1..moveBegin /\ cell[slots[i]] = c /\ c # bin
        BY <1>19, <1>20
      <3>2. i \in 1..N /\ i \notin Read
        BY <1>2, <1>4, <1>18, <3>1 DEF Marks
      <3> QED BY <1>25, <3>1, <3>2
    <2>4. \A c \in bin'..NCell : c > bin' \/ pc' = "binned" =>
              /\ Distinct(binToIp'[c])
              /\ \A i \in Elems(binToIp'[c]) : i \in (moveBegin' + 1)..N' /\ cell'[slots'[i]] = c
      <3> SUFFICES ASSUME NEW c \in bin..NCell, c > bin \/ pc = "binned"
                   PROVE  /\ Distinct(binToIp[c])
                          /\ \A i \in Elems(binToIp[c]) :
                               i \in (moveBegin + 1)..N /\ cell'[slots[i]] = c
        BY <1>1, <1>11
      <3>1. Distinct(binToIp[c]) /\ \A i \in Elems(binToIp[c]) :
                i \in (moveBegin + 1)..N /\ cell[slots[i]] = c
        BY <1>19
      <3>2. ASSUME NEW i \in Elems(binToIp[c])
            PROVE  i \in (moveBegin + 1)..N /\ cell'[slots[i]] = c
        <4>1. i \in (moveBegin + 1)..N /\ cell[slots[i]] = c /\ i \in 1..N
          BY <1>4, <3>1
        <4>2. c # bin \/ (pc = "binned" /\ c = bin)
          BY <1>17
        <4>3. i \notin Read
          BY <1>18, <1>22, <4>1, <4>2
        <4> QED BY <1>25, <4>1, <4>3
      <3> QED BY <3>1, <3>2
    <2> QED BY <1>16, <2>2, <2>3, <2>4, Zenon DEF Sources, Distinct, Elems
  <1>28. /\ \A i \in 1..N : buf[i] = Empty <=> i \notin Filled
         /\ \A i, j \in Filled : buf[i] = buf[j] => i = j
         /\ \A i \in Filled : \E u \in (1..N) \ Unread : buf[i] = slots[u]
         /\ \A u \in (1..N) \ Unread : \E i \in Filled : buf[i] = slots[u]
    BY <1>2, Zenon DEF Written
  <1>29. Written'
    <2>1. \A i \in 1..N : buf'[i] = Empty <=> i \notin Filled'
      <3> TAKE i \in 1..N
      <3>1. CASE i \in FZ \cup BZ
        <4>1. buf'[i] \in Particle
          BY <1>4, <1>10, <1>13, <3>1
        <4> QED BY <1>11, <3>1, <4>1, PhysSortAssumption
      <3>2. CASE i \notin FZ \cup BZ
        BY <1>8, <1>11, <1>28, <3>2
      <3> QED BY <3>1, <3>2
    <2>2. \A i \in FZ \cup BZ : \E u \in Read : buf'[i] = slots[u]
      BY <1>13
    <2>3. \A i, j \in Filled' : buf'[i] = buf'[j] => i = j
      <3> TAKE i, j \in Filled'
      <3> HAVE buf'[i] = buf'[j]
      <3>1. \A x \in Filled, y \in FZ \cup BZ : buf'[x] # buf'[y]
        <4> TAKE x \in Filled, y \in FZ \cup BZ
        <4>1. PICK u \in (1..N) \ Unread : buf[x] = slots[u]
          BY <1>28
        <4>2. PICK v \in Read : buf'[y] = slots[v]
          BY <2>2
        <4>3. u # v /\ u \in 1..N /\ v \in 1..N
          BY <1>10
        <4>4. slots[u] # slots[v]
          BY <1>4, <4>3
        <4>5. buf'[x] = buf[x]
          BY <1>14
        <4> QED BY <4>1, <4>2, <4>4, <4>5
      <3>2. CASE i \in Filled /\ j \in Filled
        BY <1>14, <1>28, <3>2
      <3>3. CASE i \in FZ \cup BZ /\ j \in FZ \cup BZ
        <4>1. at(i) \in 1..Lanes /\ at(j) \in 1..Lanes /\ slots[todo[at(i)]] = slots[todo[at(j)]]
          BY <1>13, <3>3
        <4>2. at(i) \in 1..Len(todo) /\ at(j) \in 1..Len(todo)
          BY <1>9, <4>1
        <4>3. todo[at(i)] = todo[at(j)]
          BY <1>3, <1>4, <4>1, <4>2
        <4>4. at(i) = at(j)
          BY <1>3, <4>2, <4>3
        <4> QED BY <1>6, <3>3, <4>4
      <3> QED BY <1>11, <3>1, <3>2, <3>3
    <2>4. \A i \in Filled' : \E u \in (1..N) \ Unread' : buf'[i] = slots[u]
      <3> TAKE i \in Filled'
      <3>1. CASE i \in Filled
        <4>1. PICK u \in (1..N) \ Unread : buf[i] = slots[u]
          BY <1>28, <3>1
        <4> QED BY <1>14, <1>24, <3>1, <4>1
      <3>2. CASE i \in FZ \cup BZ
        <4>1. PICK u \in Read : buf'[i] = slots[u]
          BY <2>2, <3>2
        <4> QED BY <1>10, <1>24, <4>1
      <3> QED BY <1>11, <3>1, <3>2
    <2>5. \A u \in (1..N) \ Unread' : \E i \in Filled' : buf'[i] = slots[u]
      <3> TAKE u \in (1..N) \ Unread'
      <3>1. CASE u \in Read
        <4>1. PICK l \in 1..Lanes : u = todo[l]
          BY <1>10, <3>1
        <4>2. PICK i \in FZ \cup BZ : at(i) = l
          BY <1>6
        <4> QED BY <1>11, <1>13, <4>1, <4>2
      <3>2. CASE u \notin Read
        <4>1. u \in (1..N) \ Unread
          BY <1>24, <3>2
        <4>2. PICK i \in Filled : buf[i] = slots[u]
          BY <1>28, <4>1
        <4> QED BY <1>11, <1>14, <4>2
      <3> QED BY <3>1, <3>2
    <2>6. front' <= back' /\ back' <= N
      BY <1>3, <1>6, <1>7, <1>8
    <2>7. back' - front' = Cardinality(Unread')
      <3>1. back' - front' = (back - front) - Lanes
        BY <1>3, <1>6, <1>8
      <3> QED BY <1>3, <1>24, <3>1
    <2>8. N' = N /\ slots' = slots /\ Len(buf') = N
      BY <1>1, <1>8, <1>11
    <2> HIDE DEF N
    <2>9. \A i \in 1..N' : buf'[i] = Empty <=> i \notin Filled'
      BY <2>1, <2>8
    <2>10. \A i \in Filled' : \E u \in (1..N') \ Unread' : buf'[i] = slots'[u]
      BY <2>4, <2>8
    <2>11. \A u \in (1..N') \ Unread' : \E i \in Filled' : buf'[i] = slots'[u]
      BY <2>5, <2>8
    <2> QED BY <2>3, <2>6, <2>7, <2>8, <2>9, <2>10, <2>11, Zenon DEF Written
  <1>30. /\ newLength \in Nat /\ newLength <= front
         /\ \A c \in 1..(bin - 1) : \A i \in BinSet(c) :
              i \in 1..(front - newLength) /\ cell[buf[i]] = c
         /\ \A i \in 1..(front - newLength) : \E c \in 1..(bin - 1) : i \in BinSet(c)
         /\ \A i \in (front - newLength + 1)..front : cell[buf[i]] = bin
    BY <1>2 DEF NewBins, Typed, TypeOK
  <1>31. \A i \in Filled : cell'[buf'[i]] = cell[buf[i]]
    <2> TAKE i \in Filled
    <2>1. PICK u \in (1..N) \ Unread : buf[i] = slots[u]
      BY <1>28
    <2>2. u \notin Read
      BY <1>10
    <2> QED BY <1>14, <1>25, <2>1, <2>2
  <1>32. \A i \in FZ : cell'[buf'[i]] = bin
    <2> TAKE i \in FZ
    <2>1. at(i) \in A /\ i \in FZ \cup BZ
      BY <1>6
    <2>2. buf'[i] = slots[todo[at(i)]]
      BY <1>13, <2>1
    <2> QED BY <1>8, <2>1, <2>2
  <1>33. NewBins'
    <2>1. front' - newLength' = front - newLength /\ newLength' <= front'
      BY <1>3, <1>6, <1>8, <1>30
    <2>2. \A i \in 1..front : i \in Filled
      BY DEF Filled
    <2>3. \A c \in 1..(bin - 1) : \A i \in BinSet(c) :
              i \in 1..(front - newLength) /\ cell'[buf'[i]] = c
      <3> TAKE c \in 1..(bin - 1)
      <3> TAKE i \in BinSet(c)
      <3>1. i \in 1..(front - newLength) /\ cell[buf[i]] = c
        BY <1>30
      <3>2. i \in 1..front
        BY <1>3, <1>30, <3>1
      <3> QED BY <1>31, <2>2, <3>1, <3>2
    <2>4. \A i \in (front - newLength + 1)..(front + a) : cell'[buf'[i]] = bin
      <3> TAKE i \in (front - newLength + 1)..(front + a)
      <3>1. \/ i \in (front - newLength + 1)..front /\ i \in 1..front
            \/ i \in (front + 1)..(front + a)
        BY <1>3, <1>6, <1>30
      <3>2. i \in (front - newLength + 1)..front /\ i \in 1..front => cell'[buf'[i]] = bin
        BY <1>30, <1>31, <2>2
      <3> QED BY <1>7, <1>32, <3>1, <3>2
    <2>5. bin' = bin /\ front' = front + a /\ \A c : BinSet(c)' = BinSet(c)
      BY <1>1, <1>8 DEF BinSet
    <2>6. \A c \in 1..(bin' - 1) : \A i \in BinSet(c)' :
            i \in 1..(front' - newLength') /\ cell'[buf'[i]] = c
      BY <2>1, <2>3, <2>5
    <2>7. \A i \in 1..(front' - newLength') : \E c \in 1..(bin' - 1) : i \in BinSet(c)'
      BY <1>30, <2>1, <2>5
    <2>8. \A i \in (front' - newLength' + 1)..front' : cell'[buf'[i]] = bin'
      BY <2>1, <2>4, <2>5
    <2> QED BY <2>1, <2>6, <2>7, <2>8, Zenon DEF NewBins
  <1>34. TypeOK'
    <2>1. newLength' \in Nat /\ front' \in Nat /\ back' \in Int
      BY <1>3, <1>6, <1>8, <1>30
    <2>2. todo' \in Seq(Nat)
      BY <1>1, <1>3
    <2> QED BY <1>1, <1>2, <1>8, <2>1, <2>2, Zenon DEF Typed, TypeOK
  <1>35. Typed'
    BY <1>1, <1>2, <1>11, <1>34 DEF Typed
  <1>36. Apart'
    BY <1>1, <1>2 DEF Apart
  <1>37. Marks'
    BY <1>1, <1>2, <1>11 DEF Marks
  <1>38. Binned' /\ Sweeping'
    BY <1>1 DEF Binned, Sweeping
  <1>39. Held'
    <2>1. Inside' \ added' \subseteq Elems(slots')
      <3> SUFFICES ASSUME NEW p \in Particle, cell'[p] # 0, p \notin added, p \notin Elems(slots)
                   PROVE  FALSE
        BY <1>1 DEF Inside
      <3> QED BY <1>2, <1>26 DEF Held, Inside
    <2>2. added' \cap Elems(slots') = {}
      BY <1>1, <1>2 DEF Held
    <2> QED BY <1>1, <2>1, <2>2 DEF Held, Leaving
  <1> QED BY <1>27, <1>29, <1>33, <1>35, <1>36, <1>37, <1>38, <1>39 DEF IInv, Swept

---------------------------------------------------------------------------
LEMMA Inductive == IInv /\ [Next]_vars => IInv'
  <1> SUFFICES ASSUME IInv, [Next]_vars PROVE IInv'
    OBVIOUS
  <1>1. CASE LoadBalance
    BY <1>1, LoadBalanceHolds
  <1>2. CASE StartSweep
    BY <1>2, StartSweepHolds
  <1>3. CASE PushVector
    BY <1>3, PushVectorHolds
  <1>4. CASE EndBinned
    BY <1>4, EndBinnedHolds
  <1>5. CASE EndBin
    BY <1>5, EndBinHolds
  <1>6. CASE Pack
    BY <1>6, PackHolds
  <1>7. CASE Deposit
    BY <1>7, DepositHolds
  <1>8. CASE Inject
    BY <1>8, InjectHolds
  <1>9. CASE LocalCollect
    BY <1>9, LocalCollectHolds
  <1>10. CASE RemoteCollect \/ RedistributeIn
    BY <1>10, RemoteCollectHolds
  <1>11. CASE RedistributeOut
    BY <1>11, RedistributeOutHolds
  <1>12. CASE EndStep
    BY <1>12, EndStepHolds
  <1>13. CASE UNCHANGED vars
    <2>1. UNCHANGED <<pc, step, isLastStep, slots, idcpu, cell, carried, binOffset, binLength,
                      moveBegin, newBegin, initialized, binToIp, bin, todo, newLength, front,
                      back, buf, current, added>>
      BY <1>13 DEF vars, tile, bins, sweep
    <2>2. TypeOK'
      BY <2>1, Zenon DEF IInv, Typed, TypeOK
    <2>3. Typed' /\ Apart'
      BY <2>1, <2>2 DEF IInv, Typed, Apart, N, Distinct, Elems
    <2>4. Marks'
      BY <2>1 DEF IInv, Marks, N
    <2>5. Binned'
      BY <2>1 DEF IInv, Binned, Sweeping, BinSet
    <2>6. Held'
      BY <2>1 DEF IInv, Held, N, Elems, Inside, Leaving
    <2>7. Unread' = Unread /\ Filled' = Filled /\ N' = N
      <3>1. N' = N /\ Filled' = Filled
        BY <2>1 DEF N, Filled
      <3>2. Later' = Later
        BY <2>1, <3>1 DEF Later, BinSet, Elems
      <3> QED BY <2>1, <3>1, <3>2 DEF Unread, Elems
    <2>8. Sources => Sources'
      BY <2>1, <2>7 DEF Sources, Distinct, Elems, BinSet
    <2>9. Written => Written'
      BY <2>1, <2>7 DEF Written
    <2>10. NewBins => NewBins'
      BY <2>1 DEF NewBins, BinSet
    <2>11. Swept'
      BY <2>1, <2>8, <2>9, <2>10 DEF IInv, Swept, Sweeping
    <2> QED BY <2>3, <2>4, <2>5, <2>6, <2>11 DEF IInv
  <1> QED BY <1>1, <1>2, <1>3, <1>4, <1>5, <1>6, <1>7, <1>8, <1>9, <1>10, <1>11, <1>12, <1>13,
             Zenon DEF Next

(* The invariant holds in every state: the bins, marks and identifiers of   *)
(* the tile fit together through the sweep, the pack, the collects, the     *)
(* load balance and the fallback, for every tile, vector length and number  *)
(* of particles.                                                           *)
THEOREM Invariance == Spec => []IInv
  BY InitHolds, Inductive, PTL DEF Spec

(* The arrays, bins and sweep variables of PhysicalParticleContainer keep   *)
(* their types.                                                            *)
THEOREM TypeCorrect == Spec => []TypeOK
  <1>1. IInv => TypeOK
    BY DEF IInv, Typed
  <1> QED BY <1>1, Invariance, PTL

(* PushPX_vpu_mpu_physort_order3 gathers every particle with the fields of  *)
(* the cell it is in: what the bins say is true when the sweep reads them.  *)
THEOREM FieldsCorrect == Spec => []FieldsOfItsCell
  <1>1. IInv => FieldsOfItsCell
    <2> SUFFICES ASSUME IInv, pc \in {"binned", "tail"}, NEW i \in 1..Len(todo)
                 PROVE  todo[i] <= Len(slots) /\ cell[slots[todo[i]]] = bin
      BY DEF FieldsOfItsCell
    <2>1. Sources /\ Typed
      BY DEF IInv, Swept, Sweeping
    <2>2. todo[i] \in Elems(todo)
      BY DEF Elems
    <2>3. todo[i] \in 1..N /\ cell[slots[todo[i]]] = bin
      BY <2>1, <2>2 DEF Sources
    <2> QED BY <2>1, <2>3, Shape DEF N
  <1> QED BY <1>1, Invariance, PTL

(* The two writers of the kernel meet, fusion_pack_unr and the collects     *)
(* keep the arrays as long as each other and the identifiers different, and *)
(* between two steps the tile holds exactly its particles, those injected   *)
(* after the pack excepted.                                                *)
THEOREM NothingLost == Spec => []NoParticleLost
  <1>1. IInv => NoParticleLost
    <2> SUFFICES ASSUME IInv PROVE NoParticleLost
      OBVIOUS
    <2>1. Typed /\ Held /\ N \in Nat /\ slots \in [1..N -> Particle]
      BY Shape DEF IInv
    <2>2. IdentifiersDistinct
      BY <2>1 DEF Typed, IdentifiersDistinct, N
    <2>3. pc \in {"binned", "tail"} =>
            front <= back /\ \A i \in 1..Len(buf) : buf[i] = Empty <=> i \in (front + 1)..back
      <3> HAVE pc \in {"binned", "tail"}
      <3>1. Written /\ front \in Nat /\ back \in Int
        BY <2>1 DEF IInv, Swept, Sweeping, Typed, TypeOK
      <3>2. \A i \in 1..N : i \notin Filled <=> i \in (front + 1)..back
        BY <2>1, <3>1 DEF Filled, Written
      <3> HIDE DEF N, Filled
      <3> QED BY <3>1, <3>2 DEF Written
    <2>4. \A i \in 1..Len(slots) : slots[i] # Empty
      BY <2>1, PhysSortAssumption DEF N
    <2>5. WritersMeet
      BY <2>3, <2>4 DEF WritersMeet
    <2>6. pc = "idle" => /\ Distinct(slots) /\ Elems(slots) \subseteq Inside
                         /\ Inside \ added \subseteq Elems(slots)
      <3> HAVE pc = "idle"
      <3>1. \A p \in Elems(slots) : p \in Particle /\ \E i \in 1..N : slots[i] = p
        BY <2>1, Shape
      <3> QED BY <2>1, <3>1 DEF Held, Typed, Inside
    <2> QED BY <2>2, <2>5, <2>6 DEF NoParticleLost
  <1> QED BY <1>1, Invariance, PTL

LEMMA DepositedAt ==
  ASSUME IInv, pc \in {"swept", "packed"}, Deposit, NEW p \in Particle, NEW c \in 0..NCell
  PROVE  current'[p][c] = IF p \in Elems(slots) /\ cell[p] = c THEN 1 ELSE 0
  <1> DEFINE S == {i \in 1..N : slots[i] = p /\ InBin(i, c)}
             U == {i \in Unsorted : slots[i] = p /\ cell[p] = c}
  <1>1. current'[p][c] = Cardinality(S) + Cardinality(U)
    BY Zenon DEF Deposit, N
  <1>2. /\ N \in Nat /\ moveBegin \in Nat
        /\ \A i \in 1..N : slots[i] \in Elems(slots)
        /\ \A x \in Elems(slots) : x \in Particle /\ \E i \in 1..N : slots[i] = x
        /\ \A i, j \in 1..N : slots[i] = slots[j] => i = j
    BY Shape DEF IInv
  <1>3. /\ \A d \in Cell : \A i \in BinSet(d) : i \in 1..moveBegin /\ cell[slots[i]] = d
        /\ \A i \in 1..moveBegin : \E d \in Cell : i \in BinSet(d)
        /\ moveBegin <= N
    BY DEF IInv, Binned, Sweeping, Marks
  <1>4. \A i : InBin(i, c) <=> c \in Cell /\ i \in BinSet(c)
    BY PhysSortAssumption DEF InBin, BinSet, Cell
  <1>5. \A i \in Unsorted : i \in 1..N /\ i \notin 1..moveBegin
    BY <1>2 DEF Unsorted, N
  <1>6. \A i \in 1..N : i \in 1..moveBegin \/ i \in Unsorted
    BY <1>2 DEF Unsorted, N
  <1>7. CASE p \notin Elems(slots) \/ cell[p] # c
    <2>1. S = {}
      <3> SUFFICES ASSUME NEW i \in S PROVE FALSE
        OBVIOUS
      <3>1. i \in 1..N /\ slots[i] = p /\ c \in Cell /\ i \in BinSet(c)
        BY <1>4
      <3> QED BY <1>2, <1>3, <1>7, <3>1
    <2>2. U = {}
      BY <1>2, <1>5, <1>7
    <2> HIDE DEF S, U
    <2>3. Cardinality(S) = 0 /\ Cardinality(U) = 0
      BY <2>1, <2>2, FS_EmptySet
    <2> QED BY <1>1, <1>7, <2>3
  <1>8. CASE p \in Elems(slots) /\ cell[p] = c
    <2>1. PICK k \in 1..N : slots[k] = p
      BY <1>2, <1>8
    <2>2. CASE k \in 1..moveBegin
      <3>1. PICK d \in Cell : k \in BinSet(d)
        BY <1>3, <2>2
      <3>2. d = c
        BY <1>3, <1>8, <2>1, <3>1
      <3>3. S = {k}
        BY <1>2, <1>4, <2>1, <3>1, <3>2
      <3>4. U = {}
        BY <1>2, <1>5, <2>1, <2>2
      <3> HIDE DEF S, U
      <3>5. Cardinality(S) = 1 /\ Cardinality(U) = 0
        BY <3>3, <3>4, FS_EmptySet, FS_Singleton
      <3> QED BY <1>1, <1>8, <3>5
    <2>3. CASE k \in Unsorted
      <3>1. S = {}
        <4> SUFFICES ASSUME NEW i \in S PROVE FALSE
          OBVIOUS
        <4>1. i \in 1..N /\ slots[i] = p /\ c \in Cell /\ i \in BinSet(c)
          BY <1>4
        <4>2. i = k /\ i \in 1..moveBegin
          BY <1>2, <1>3, <2>1, <4>1
        <4> QED BY <1>5, <2>3, <4>2
      <3>2. U = {k}
        <4>1. k \in U
          BY <1>8, <2>1, <2>3
        <4>2. \A i \in U : i = k
          BY <1>2, <1>5, <2>1
        <4> QED BY <4>1, <4>2
      <3> HIDE DEF S, U
      <3>3. Cardinality(S) = 0 /\ Cardinality(U) = 1
        BY <3>1, <3>2, FS_EmptySet, FS_Singleton
      <3> QED BY <1>1, <1>8, <3>3
    <2> QED BY <1>6, <2>2, <2>3
  <1> QED BY <1>7, <1>8

LEMMA DepositedStep == IInv /\ DepositedOnce /\ [Next]_vars => DepositedOnce'
  <1> SUFFICES ASSUME IInv, DepositedOnce, [Next]_vars, pc' = "deposited"
               PROVE  \A p \in Particle, c \in 0..NCell :
                        current'[p][c] = IF p \in Elems(slots') \ added' /\ cell'[p] = c
                                           THEN 1 ELSE 0
    BY DEF DepositedOnce, Elems
  <1>1. CASE Deposit
    <2>1. pc \in {"swept", "packed"}
      BY <1>1 DEF Deposit
    <2>2. added' = added /\ slots' = slots /\ cell' = cell
      BY <1>1 DEF Deposit, tile
    <2>3. added \cap Elems(slots) = {}
      BY <2>1 DEF IInv, Held
    <2>4. \A p \in Particle, c \in 0..NCell :
            current'[p][c] = IF p \in Elems(slots) /\ cell[p] = c THEN 1 ELSE 0
      BY <1>1, <2>1, DepositedAt
    <2> QED BY <2>2, <2>3, <2>4
  <1>2. CASE StartSweep
    <2>1. current' = NoCurrent /\ slots' = slots
      BY <1>2 DEF StartSweep, tile
    <2>2. slots = <<>>
      BY <1>2 DEF StartSweep
    <2>3. Elems(slots') = {}
      BY <2>1, <2>2 DEF Elems
    <2> QED BY <2>1, <2>3 DEF NoCurrent
  <1>3. CASE Inject
    <2>1. PICK q \in Away, d \in Cell :
            /\ slots' = Append(slots, q) /\ cell' = [cell EXCEPT ![q] = d]
            /\ added' = added \cup {q}
      BY <1>3, Zenon DEF Inject
    <2>2. pc = "deposited" /\ current' = current
      BY <1>3 DEF Inject
    <2>3. q \in Particle /\ q \notin Elems(slots)
      BY DEF Away
    <2>4. cell \in [Particle -> 0..NCell] /\ slots \in Seq(Particle)
      BY DEF IInv, Typed, TypeOK
    <2>5. Elems(slots') = Elems(slots) \cup {q}
      BY <2>1, <2>3, <2>4 DEF Elems
    <2>6. \A p \in Particle : p # q => cell'[p] = cell[p]
      BY <2>1, <2>4
    <2>7. \A p \in Particle, c \in 0..NCell :
            current[p][c] = IF p \in Elems(slots) \ added /\ cell[p] = c THEN 1 ELSE 0
      BY <2>2 DEF DepositedOnce
    <2> TAKE p \in Particle, c \in 0..NCell
    <2>8. CASE p = q
      BY <2>1, <2>2, <2>3, <2>7, <2>8
    <2>9. CASE p # q
      BY <2>1, <2>2, <2>5, <2>6, <2>7, <2>9
    <2> QED BY <2>8, <2>9
  <1>4. CASE UNCHANGED vars
    BY <1>4 DEF vars, tile, DepositedOnce
  <1>5. CASE /\ ~Deposit /\ ~StartSweep /\ ~Inject /\ ~UNCHANGED vars
    BY <1>5 DEF Next, LoadBalance, PushVector, EndBinned, EndBin, Pack, LocalCollect,
                RemoteCollect, RedistributeOut, RedistributeIn, EndStep
  <1> QED BY <1>1, <1>2, <1>3, <1>4, <1>5

(* DepositCurrent deposits every particle of the tile exactly once, from    *)
(* the cell it is in, the departing ones included, although the pack has    *)
(* moved the unbinned slots before.                                        *)
THEOREM DepositedCorrect == Spec => []DepositedOnce
  <1>1. Init => DepositedOnce
    BY DEF Init, DepositedOnce
  <1> QED BY <1>1, DepositedStep, Invariance, PTL DEF Spec

---------------------------------------------------------------------------
(* The binned prefix.                                                      *)

LEMMA PrefixSame ==
  ASSUME NEW s \in Seq(Particle), NEW t \in Seq(Particle), NEW m \in Nat,
         m <= Len(s), m <= Len(t), \A i \in 1..m : s[i] = t[i]
  PROVE  UpTo(s, m) = UpTo(t, m)
  <1>1. /\ UpTo(s, m) \in Seq(Particle) /\ Len(UpTo(s, m)) = m
        /\ \A i \in 1..m : UpTo(s, m)[i] = s[i]
    BY DEF UpTo
  <1>2. /\ UpTo(t, m) \in Seq(Particle) /\ Len(UpTo(t, m)) = m
        /\ \A i \in 1..m : UpTo(t, m)[i] = t[i]
    BY DEF UpTo
  <1> QED BY <1>1, <1>2, SeqEqual, Zenon

LEMMA PiecesOfAway ==
  ASSUME NEW n \in Nat, NEW q \in Orders(Away, n)
  PROVE  q \in Seq(Particle)
  <1>1. q \in [1..Len(q) -> Away] /\ Len(q) \in Nat
    BY OrdersAre
  <1>2. q \in [1..Len(q) -> Particle]
    BY <1>1 DEF Away
  <1> QED BY <1>1, <1>2, IsSequence

(* A step that keeps the slots up to moveBegin keeps the prefix.            *)
LEMMA PrefixStays ==
  ASSUME IInv, IInv', moveBegin' = moveBegin, \A i \in 1..moveBegin : slots'[i] = slots[i]
  PROVE  UpTo(slots', moveBegin') = UpTo(slots, moveBegin)
  <1>1. /\ slots \in Seq(Particle) /\ slots' \in Seq(Particle) /\ moveBegin \in Nat
        /\ moveBegin <= Len(slots) /\ moveBegin <= Len(slots')
    BY DEF IInv, Typed, TypeOK, Marks, N
  <1> QED BY <1>1, PrefixSame

LEMMA PrefixStep ==
  IInv /\ IInv' /\ [Next]_vars =>
    [pc # "tail" /\ (initialized => initialized')
       => UpTo(slots', moveBegin') = UpTo(slots, moveBegin)]_vars
  <1> SUFFICES ASSUME IInv, IInv', Next, pc # "tail", initialized => initialized'
               PROVE  UpTo(slots', moveBegin') = UpTo(slots, moveBegin)
    OBVIOUS
  <1>0. /\ slots \in Seq(Particle) /\ slots' \in Seq(Particle) /\ N \in Nat
        /\ moveBegin \in Nat /\ moveBegin <= N /\ newBegin \in Nat
        /\ ~isLastStep => newBegin <= N
        /\ pc \notin {"binned", "tail", "swept"} /\ ~isLastStep => moveBegin <= newBegin
        /\ \A i \in 1..N : slots[i] \in Elems(slots)
    <2>1. Typed /\ Marks
      BY DEF IInv
    <2>2. slots \in Seq(Particle) /\ slots' \in Seq(Particle)
      BY DEF IInv, Typed, TypeOK
    <2>3. N \in Nat /\ moveBegin \in Nat /\ newBegin \in Nat
          /\ \A i \in 1..N : slots[i] \in Elems(slots)
      BY <2>1, Shape
    <2> QED BY <2>1, <2>2, <2>3 DEF Marks
  <1>1. CASE LoadBalance
    <2>1. initialized' = FALSE /\ moveBegin' = 0
      BY <1>1 DEF LoadBalance, Fresh
    <2>2. moveBegin = 0
      BY <2>1 DEF IInv, Marks
    <2> QED BY <1>0, <2>1, <2>2, PrefixSame
  <1>2. CASE StartSweep \/ PushVector \/ EndBinned \/ Deposit \/ EndStep
    <2>1. slots' = slots /\ moveBegin' = moveBegin
      BY <1>2 DEF StartSweep, PushVector, EndBinned, Deposit, EndStep, tile, bins
    <2> QED BY <2>1
  <1>3. CASE Pack
    BY <1>3 DEF Pack, Compacted
  <1>4. CASE Inject
    <2>1. PICK p \in Away : slots' = Append(slots, p)
      BY <1>4 DEF Inject
    <2>2. moveBegin' = moveBegin
      BY <1>4 DEF Inject, bins
    <2>3. \A i \in 1..moveBegin : slots'[i] = slots[i]
      BY <1>0, <2>1 DEF N, Away
    <2> QED BY <2>2, <2>3, PrefixStays
  <1>5. CASE LocalCollect
    <2>1. PICK q \in Orders(Away, MaxArrive) : slots' = Kept(slots) \o q
      BY <1>5 DEF LocalCollect
    <2>2. moveBegin' = moveBegin /\ pc = "deposited" /\ ~isLastStep
      BY <1>5 DEF LocalCollect, bins
    <2>3. q \in Seq(Particle)
      BY PhysSortAssumption, PiecesOfAway
    <2>4. newBegin \in 0..Len(slots) /\ moveBegin <= newBegin
      BY <1>0, <2>2 DEF N
    <2>5. \A i \in 1..newBegin : (UpTo(slots, newBegin) \o q)[i] = slots[i]
      <3>1. IsJoin(UpTo(slots, newBegin) \o q, slots, newBegin, q, Particle)
        BY <1>0, <2>3, <2>4, Joined
      <3> QED BY <3>1, Zenon DEF IsJoin
    <2>6. \A i \in 1..moveBegin : slots'[i] = slots[i]
      <3>1. slots' = UpTo(slots, newBegin) \o q
        BY <2>1 DEF Kept
      <3>2. \A i \in 1..moveBegin : i \in 1..newBegin
        BY <1>0, <2>4
      <3> QED BY <2>5, <3>1, <3>2, Zenon
    <2> QED BY <2>2, <2>6, PrefixStays
  <1>6. CASE RemoteCollect \/ RedistributeIn
    <2>1. PICK q \in Orders(Away, MaxArrive) : slots' = slots \o q
      BY <1>6 DEF RemoteCollect, RedistributeIn
    <2>2. moveBegin' = moveBegin
      BY <1>6 DEF RemoteCollect, RedistributeIn, bins
    <2>3. q \in Seq(Particle)
      BY PhysSortAssumption, PiecesOfAway
    <2>4. \A i \in 1..moveBegin : slots'[i] = slots[i]
      BY <1>0, <2>1, <2>3 DEF N
    <2> QED BY <2>2, <2>4, PrefixStays
  <1>7. CASE RedistributeOut
    <2> DEFINE g == FirstGone
    <2>1. /\ pc \in {"deposited", "leaving"} /\ \E i \in 1..N : cell[slots[i]] = 0
          /\ slots' = FillHole(slots, g) /\ moveBegin' = moveBegin
      BY <1>7 DEF RedistributeOut, bins, N
    <2>2. g \in 1..N /\ cell[slots[g]] = 0
      BY <2>1, FirstGoneIs DEF IInv
    <2>3. \A i \in 1..moveBegin : cell[slots[i]] # 0
      BY <2>1, PhysSortAssumption DEF IInv, Binned, Sweeping, Cell
    <2> HIDE DEF g
    <2>4. g \in 1..Len(slots) /\ moveBegin < g
      BY <1>0, <2>2, <2>3 DEF N
    <2>5. \A i \in 1..(Len(slots) - 1) :
             FillHole(slots, g)[i] = IF i = g THEN slots[Len(slots)] ELSE slots[i]
      BY <1>0, <2>4, FilledHole
    <2>6. \A i \in 1..moveBegin : i \in 1..(Len(slots) - 1) /\ i # g
      BY <1>0, <2>4 DEF N
    <2>7. \A i \in 1..moveBegin : slots'[i] = slots[i]
      <3>1. slots' = FillHole(slots, g)
        BY <2>1
      <3>2. \A i \in 1..moveBegin : FillHole(slots, g)[i] = slots[i]
        BY <2>5, <2>6, Zenon
      <3> QED BY <3>1, <3>2, Zenon
    <2> QED BY <2>1, <2>7, PrefixStays
  <1>8. CASE EndBin
    BY <1>8 DEF EndBin
  <1> QED BY <1>1, <1>2, <1>3, <1>4, <1>5, <1>6, <1>7, <1>8 DEF Next

(* Nothing but the end of a sweep changes the binned prefix of the tile, on *)
(* which the next sweep relies; a load balance begins anew.                 *)
THEOREM PrefixCorrect == Spec => PrefixKept
  BY Invariance, PrefixStep, PTL DEF Spec, PrefixKept

---------------------------------------------------------------------------
(* A property the code has only under a condition.                          *)

(* The layout is initialized wherever the collects read it.                 *)
Initialized ==
  /\ pc # "idle" => initialized
  /\ slots = <<>> => initialized

LEMMA InitializedStep ==
  ASSUME ~EmptyMoves
  PROVE  IInv /\ IInv' /\ Initialized /\ [Next]_vars => Initialized'
  <1> SUFFICES ASSUME IInv, IInv', Initialized, [Next]_vars PROVE Initialized'
    OBVIOUS
  <1>1. CASE LoadBalance
    <2>1. pc' = "idle" /\ slots # <<>> /\ slots' \in Reordered
      BY <1>1 DEF LoadBalance
    <2>2. N \in Nat /\ slots \in Seq(Particle)
      BY Shape DEF IInv, Typed, TypeOK
    <2>3. slots' # <<>>
      <3>1. slots' \in [1..N -> Elems(slots)]
        BY <2>1 DEF Reordered, N
      <3>2. Len(slots') = N
        BY <2>2, <3>1, IsSequence
      <3>3. N # 0
        BY <2>1, <2>2 DEF N
      <3> QED BY <3>2, <3>3
    <2> QED BY <2>1, <2>3 DEF Initialized
  <1>2. CASE StartSweep
    BY <1>2 DEF StartSweep, Initialized, tile
  <1>3. CASE PushVector \/ EndBinned \/ EndBin \/ Pack \/ Deposit
    <2>1. initialized' = initialized /\ pc # "idle"
      BY <1>3 DEF PushVector, EndBinned, EndBin, Pack, Deposit, bins
    <2> QED BY <2>1 DEF Initialized
  <1>4. CASE Inject \/ LocalCollect \/ RemoteCollect \/ RedistributeOut \/ RedistributeIn \/ EndStep
    <2>1. initialized' = initialized /\ pc # "idle"
      BY <1>4 DEF Inject, LocalCollect, RemoteCollect, RedistributeOut, RedistributeIn, EndStep, bins
    <2> QED BY <2>1 DEF Initialized
  <1>5. CASE UNCHANGED vars
    BY <1>5 DEF vars, tile, bins, Initialized
  <1> QED BY <1>1, <1>2, <1>3, <1>4, <1>5 DEF Next

(* As long as no load balance gives away an empty tile, the collects find   *)
(* the layout initialized; with one they do not, as the run about empty     *)
(* tiles shows.                                                            *)
THEOREM InitializedCorrect ==
  ASSUME ~EmptyMoves
  PROVE  Spec => []CollectsInitialized
  <1>1. Init => Initialized
    BY DEF Init, Initialized
  <1>2. Initialized => CollectsInitialized
    BY DEF Initialized, CollectsInitialized
  <1>3. IInv /\ IInv' /\ Initialized /\ [Next]_vars => Initialized'
    BY InitializedStep
  <1> QED BY <1>1, <1>2, <1>3, Invariance, PTL DEF Spec
=============================================================================
