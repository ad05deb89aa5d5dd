------------------------ MODULE UriMpiChannel_proofs ------------------------
(***************************************************************************)
(* For every set of ranks, threads, targets and lawful programs, the MPI    *)
(* channel implements one-sided writes.  A receive is posted only when a    *)
(* control message has come, perhaps after its data, while tags and batch   *)
(* ids are given out again; so the invariant of UriMpiInvariant looks       *)
(* ahead, along the course of the messages under way, at all receives that  *)
(* are posted or will be.  Each part of it has a lemma for each step of a   *)
(* thread (Put, PutCtrl, Create, Start, ListRequests, Wait, Sync, Destroy,  *)
(* DestroyCtrl, DestroyIds) or of a daemon (Drain, Test, Signal, Release,   *)
(* Unlist) that can disturb it, and the lemmas Inv* put the parts together. *)
(***************************************************************************)
EXTENDS UriMpiInvariant, FiniteSetTheorems, SequenceTheorems, TLAPS


\* A function on an interval from 1 is a sequence.
LEMMA SeqIs ==
  ASSUME NEW T, NEW n \in Nat, NEW S, S = [i \in 1..n |-> S[i]], \A i \in 1..n : S[i] \in T
  PROVE  S \in Seq(T) /\ Len(S) = n /\ DOMAIN S = 1..n
<1>1. S \in [1..n -> T]  OBVIOUS
<1> QED BY <1>1

---------------------------------------------------------------------------
(* Numbers in order.                                                       *)

\* Ordered lists the members of a finite set of numbers, each once, in
\* increasing order.
LEMMA OrderedLists ==
  ASSUME NEW I \in SUBSET Nat, IsFiniteSet(I)
  PROVE  LET m == Cardinality(I) IN
         /\ m \in Nat /\ Ordered(I) \in [1..m -> I]
         /\ \A j, k \in 1..m : j < k => Ordered(I)[j] < Ordered(I)[k]
         /\ \A i \in I : \E k \in 1..m : Ordered(I)[k] = i
<1> DEFINE upto(i) == {k \in I : k <= i}
           rank == [i \in I |-> Cardinality(upto(i))]
           m == Cardinality(I)
<1>1. m \in Nat  BY FS_CardinalityType
<1>2. \A i \in I : IsFiniteSet(upto(i)) /\ rank[i] \in 1..m
  <2> TAKE i \in I
  <2>1. upto(i) \in SUBSET I /\ upto(i) # {} /\ rank[i] = Cardinality(upto(i))  OBVIOUS
  <2> HIDE DEF upto, rank
  <2>2. IsFiniteSet(upto(i)) /\ Cardinality(upto(i)) <= m  BY <1>1, <2>1, FS_Subset
  <2>3. Cardinality(upto(i)) \in Nat  BY <2>2, FS_CardinalityType
  <2>4. Cardinality(upto(i)) # 0  BY <2>1, <2>2, FS_EmptySet
  <2> QED BY <1>1, <2>1, <2>2, <2>3, <2>4
<1>3. ASSUME NEW i \in I, NEW j \in I, i < j PROVE rank[i] < rank[j]
  <2>1. upto(i) \in SUBSET upto(j) /\ upto(i) # upto(j)
    <3>1. i \in Nat /\ j \in Nat /\ \A k \in I : k \in Nat  OBVIOUS
    <3>2. j \in upto(j) /\ j \notin upto(i)  BY <1>3, <3>1
    <3>3. \A k \in upto(i) : k \in upto(j)  BY <1>3, <3>1
    <3> HIDE DEF upto
    <3> QED BY <3>2, <3>3
  <2>2. rank[i] = Cardinality(upto(i)) /\ rank[j] = Cardinality(upto(j))  OBVIOUS
  <2>3. rank[i] \in Nat /\ rank[j] \in Nat  BY <1>2
  <2> HIDE DEF upto, rank
  <2>4. IsFiniteSet(upto(j))  BY <1>2
  <2>5. /\ Cardinality(upto(i)) <= Cardinality(upto(j))
        /\ Cardinality(upto(i)) = Cardinality(upto(j)) => upto(i) = upto(j)
    BY <2>1, <2>4, FS_Subset
  <2> QED BY <2>1, <2>2, <2>3, <2>5
<1>a. \A i, j \in I : i < j => rank[i] < rank[j]  BY <1>3
<1>b. \A i \in I : rank[i] \in Nat  BY <1>1, <1>2
<1>4. \A i, j \in I : rank[i] = rank[j] => i = j
  <2> HIDE DEF rank
  <2> SUFFICES ASSUME NEW i \in I, NEW j \in I, rank[i] = rank[j] PROVE i = j  OBVIOUS
  <2>1. i \in Nat /\ j \in Nat /\ ~ (i < j) /\ ~ (j < i)  BY <1>a, <1>b
  <2> QED BY <2>1
<1>5. rank \in Injection(I, 1..m)  BY <1>2, <1>4 DEF Injection, IsInjective
<1>6. \A k \in 1..m : \E i \in I : rank[i] = k
  <2>1. IsFiniteSet(1..m) /\ Cardinality(1..m) = m  BY <1>1, FS_Interval
  <2> HIDE DEF rank
  <2>2. rank \in Surjection(I, 1..m)  BY <1>5, <2>1, FS_Injection
  <2> QED BY <2>2 DEF Surjection
<1>7. \A k \in 1..m : Ordered(I)[k] = CHOOSE i \in I : rank[i] = k
  <2> TAKE k \in 1..m
  <2>1. Ordered(I)[k] = CHOOSE i \in I : Cardinality({x \in I : x <= i}) = k  BY DEF Ordered
  <2>2. (CHOOSE i \in I : Cardinality({x \in I : x <= i}) = k) = (CHOOSE i \in I : rank[i] = k)
    <3>1. \A i \in I : Cardinality({x \in I : x <= i}) = rank[i]  OBVIOUS
    <3> QED BY <3>1, Zenon
  <2> QED BY <2>1, <2>2
<1>8. Ordered(I) = [k \in 1..m |-> Ordered(I)[k]]
  <2> DEFINE e(k) == CHOOSE i \in I : Cardinality({x \in I : x <= i}) = k
  <2>1. Ordered(I) = [k \in 1..m |-> e(k)]  BY Zenon DEF Ordered
  <2> HIDE DEF e, m
  <2> QED BY <2>1
<1> HIDE DEF rank, m
<1>9. \A k \in 1..m : Ordered(I)[k] \in I /\ rank[Ordered(I)[k]] = k  BY <1>6, <1>7
<1>10. \A i \in I : rank[i] \in 1..m /\ Ordered(I)[rank[i]] = i  BY <1>2, <1>4, <1>9
<1>11. ASSUME NEW j \in 1..m, NEW k \in 1..m, j < k PROVE Ordered(I)[j] < Ordered(I)[k]
  <2>1. /\ Ordered(I)[j] \in I /\ Ordered(I)[k] \in I
        /\ rank[Ordered(I)[j]] = j /\ rank[Ordered(I)[k]] = k
    BY <1>9
  <2>2. Ordered(I)[j] # Ordered(I)[k]  BY <1>11, <2>1
  <2>3. ~ (Ordered(I)[k] < Ordered(I)[j])
    <3> SUFFICES ASSUME Ordered(I)[k] < Ordered(I)[j] PROVE FALSE  OBVIOUS
    <3>1. rank[Ordered(I)[k]] < rank[Ordered(I)[j]]  BY <1>a, <2>1
    <3> QED BY <1>11, <2>1, <3>1
  <2>4. Ordered(I)[j] \in Nat /\ Ordered(I)[k] \in Nat  BY <2>1
  <2> QED BY <2>2, <2>3, <2>4
<1>12. Ordered(I) \in [1..m -> I]  BY <1>8, <1>9
<1> QED BY <1>1, <1>10, <1>11, <1>12 DEF m

\* Without leaves out the elements of a sequence at some places and keeps
\* the others in their order.
LEMMA WithoutIs ==
  ASSUME NEW T, NEW s \in Seq(T), NEW I \in SUBSET (DOMAIN s)
  PROVE  Without(s, I) \in Seq(T) /\ \E f : Thinned(Without(s, I), s, I, f)
<1> DEFINE J == (DOMAIN s) \ I
           m == Cardinality(J)
           f == Ordered(J)
<1>1. J \in SUBSET Nat /\ IsFiniteSet(J)
  <2>1. DOMAIN s = 1..Len(s) /\ Len(s) \in Nat  OBVIOUS
  <2>2. IsFiniteSet(1..Len(s))  BY <2>1, FS_Interval
  <2>3. J \in SUBSET (1..Len(s))  BY <2>1
  <2> QED BY <2>2, <2>3, FS_Subset
<1> HIDE DEF J
<1>2. /\ m \in Nat /\ f \in [1..m -> J]
      /\ \A j, k \in 1..m : j < k => f[j] < f[k]
      /\ \A i \in J : \E k \in 1..m : f[k] = i
  BY <1>1, OrderedLists
<1>3. Without(s, I) = [i \in DOMAIN f |-> s[f[i]]]  BY DEF Without, J
<1> HIDE DEF f, m
<1>4. DOMAIN f = 1..m  BY <1>2
<1>5. \A i \in J : s[i] \in T  BY DEF J
<1>6. Without(s, I) \in [1..m -> T] /\ DOMAIN Without(s, I) = 1..m
      /\ \A n \in 1..m : Without(s, I)[n] = s[f[n]]
  BY <1>2, <1>3, <1>4, <1>5
<1>7. Without(s, I) \in Seq(T)  BY <1>2, <1>6
<1>8. f \in [DOMAIN Without(s, I) -> J]  BY <1>2, <1>6
<1>9. Thinned(Without(s, I), s, I, f)  BY <1>2, <1>6, <1>8 DEF Thinned, J
<1> QED BY <1>7, <1>9

\* Compacted keeps the elements of a list that were not worked on.
LEMMA CompactedIs ==
  ASSUME NEW T, NEW s \in Seq(T), NEW D \in SUBSET (DOMAIN s)
  PROVE  Compacted(s, D) \in Seq(T) /\ \E f : Picked(Compacted(s, D), s, D, f)
<1> DEFINE L == Len(s)
           m == L - Cardinality(D)
           G == {i \in (DOMAIN s) \ D : i > m}
           H == {i \in D : i <= m}
           g == Cardinality(G)
           movers == Reverse(Ordered(G))
           hole(i) == Cardinality({k \in D : k <= i})
           f == [i \in 1..m |-> IF i \in D THEN movers[hole(i)] ELSE i]
<1>1. L \in Nat /\ DOMAIN s = 1..L /\ IsFiniteSet(1..L) /\ Cardinality(1..L) = L
  <2>1. L \in Nat /\ DOMAIN s = 1..L  OBVIOUS
  <2> HIDE DEF L
  <2> QED BY <2>1, FS_Interval
<1>2. IsFiniteSet(D) /\ Cardinality(D) \in Nat /\ Cardinality(D) <= L
  BY <1>1, FS_Subset, FS_CardinalityType
<1>3. m \in Nat /\ m <= L  BY <1>1, <1>2
<1> HIDE DEF m, L
<1>4. H \in SUBSET D /\ G \in SUBSET (1..L)  BY <1>1
<1>5. /\ IsFiniteSet(H) /\ Cardinality(H) \in Nat /\ IsFiniteSet(G) /\ g \in Nat
  BY <1>1, <1>2, <1>4, FS_Subset, FS_CardinalityType
<1>6. g = Cardinality(H)
  <2> DEFINE K == 1..m
  <2>1. IsFiniteSet(K) /\ Cardinality(K) = m  BY <1>3, FS_Interval
  <2> DEFINE S == (1..L) \ D
  <2>2. IsFiniteSet(S) /\ Cardinality(S) = m
    <3> DEFINE R == 1..L
    <3>1. R \cap D = D  BY <1>1
    <3>a. IsFiniteSet(R) /\ Cardinality(R) = L /\ S = R \ D  BY <1>1
    <3> HIDE DEF R, S
    <3>b. IsFiniteSet(R \ D) /\ Cardinality(R \ D) = Cardinality(R) - Cardinality(R \cap D)
      BY <3>a, FS_Difference, Zenon
    <3> QED BY <3>1, <3>a, <3>b DEF m
  <2>3. K \ S = H /\ S \ K = G /\ K \cap S = S \cap K  BY <1>1, <1>3
  <2> HIDE DEF K, S
  <2>4. /\ Cardinality(K \ S) = m - Cardinality(K \cap S)
        /\ Cardinality(S \ K) = m - Cardinality(S \cap K)
    BY <2>1, <2>2, FS_Difference
  <2> QED BY <2>3, <2>4
<1>7. /\ movers \in [1..g -> G]
      /\ \A j, k \in 1..g : movers[j] = movers[k] => j = k
      /\ \A i \in G : \E k \in 1..g : movers[k] = i
  <2> DEFINE o == Ordered(G)
  <2>1. /\ o \in [1..g -> G]
        /\ \A j, k \in 1..g : j < k => o[j] < o[k]
        /\ \A i \in G : \E k \in 1..g : o[k] = i
    <3>1. G \in SUBSET Nat  BY <1>1
    <3> HIDE DEF G
    <3> QED BY <1>5, <3>1, OrderedLists
  <2>2. movers = [i \in 1..Len(o) |-> o[(Len(o) - i) + 1]]  BY DEF Reverse
  <2>a. \A i \in G : i \in Nat  BY <1>1
  <2> HIDE DEF o, G, g, movers
  <2>3. Len(o) = g  BY <1>5, <2>1
  <2>4. \A j, k \in 1..g : o[j] = o[k] => j = k  BY <2>1, <2>a, <1>5
  <2>5. \A i \in 1..g : (g - i) + 1 \in 1..g  BY <1>5
  <2>6. movers \in [1..g -> G] /\ \A i \in 1..g : movers[i] = o[(g - i) + 1]
    BY <2>1, <2>2, <2>3, <2>5
  <2>7. \A j, k \in 1..g : movers[j] = movers[k] => j = k
    <3> SUFFICES ASSUME NEW j \in 1..g, NEW k \in 1..g, movers[j] = movers[k] PROVE j = k  OBVIOUS
    <3>1. (g - j) + 1 = (g - k) + 1  BY <2>4, <2>5, <2>6
    <3> QED BY <3>1, <1>5
  <2>8. \A i \in G : \E k \in 1..g : movers[k] = i
    <3> TAKE i \in G
    <3>1. PICK k \in 1..g : o[k] = i  BY <2>1
    <3>2. (g - k) + 1 \in 1..g /\ (g - ((g - k) + 1)) + 1 = k  BY <1>5
    <3>3. movers[(g - k) + 1] = i  BY <2>6, <3>1, <3>2
    <3> QED BY <3>2, <3>3
  <2> QED BY <2>6, <2>7, <2>8
<1>8. \A i \in H : hole(i) \in 1..g
  <2> TAKE i \in H
  <2>1. {k \in D : k <= i} \in SUBSET H /\ i \in {k \in D : k <= i}  BY <1>1, <1>3, <1>4
  <2>2. IsFiniteSet({k \in D : k <= i}) /\ hole(i) <= g /\ hole(i) \in Nat
    BY <1>5, <1>6, <2>1, FS_Subset, FS_CardinalityType
  <2>3. hole(i) # 0  BY <2>1, <2>2, FS_EmptySet
  <2> QED BY <2>2, <2>3, <1>5
<1>9. \A i, j \in H : i < j => hole(i) < hole(j)
  <2> SUFFICES ASSUME NEW i \in H, NEW j \in H, i < j PROVE hole(i) < hole(j)  OBVIOUS
  <2> DEFINE A(x) == {k \in D : k <= x}
  <2>1. A(i) \in SUBSET A(j) /\ j \in A(j) /\ j \notin A(i)  BY <1>1, <1>4
  <2>2. A(j) \in SUBSET D /\ A(i) \in SUBSET D  OBVIOUS
  <2>3. hole(i) = Cardinality(A(i)) /\ hole(j) = Cardinality(A(j))  OBVIOUS
  <2> HIDE DEF A
  <2>4. IsFiniteSet(A(j)) /\ IsFiniteSet(A(i))  BY <1>2, <2>2, FS_Subset
  <2>5. Cardinality(A(i)) \in Nat /\ Cardinality(A(j)) \in Nat  BY <2>4, FS_CardinalityType
  <2>6. Cardinality(A(i)) <= Cardinality(A(j)) /\ (Cardinality(A(j)) = Cardinality(A(i)) => A(j) = A(i))
    BY <2>1, <2>4, FS_Subset
  <2> QED BY <2>1, <2>3, <2>5, <2>6
<1>10. \A k \in 1..g : \E i \in H : hole(i) = k
  <2> DEFINE h == [i \in H |-> hole(i)]
  <2>1. \A i, j \in H : h[i] = h[j] => i = j
    <3>1. \A i \in H : i \in Nat  BY <1>1, <1>4
    <3>2. \A i, j \in H : i < j \/ j < i \/ i = j  BY <3>1
    <3>3. \A i, j \in H : i < j => h[i] < h[j]  BY <1>9
    <3>a. \A i \in H : h[i] = hole(i)  OBVIOUS
    <3>4. \A i \in H : h[i] \in Nat
      <4> HIDE DEF h, H, hole
      <4> QED BY <1>8, <1>5, <3>a
    <3> HIDE DEF h, H
    <3> QED BY <3>2, <3>3, <3>4
  <2>2. h \in Injection(H, 1..g)  BY <1>8, <2>1 DEF Injection, IsInjective
  <2>3. IsFiniteSet(1..g) /\ Cardinality(1..g) = g  BY <1>5, FS_Interval
  <2> HIDE DEF h
  <2>4. h \in Surjection(H, 1..g)  BY <1>6, <2>2, <2>3, FS_Injection
  <2>5. \A k \in 1..g : \E i \in H : h[i] = k  BY <2>4 DEF Surjection
  <2> QED BY <2>5 DEF h
<1>11. Compacted(s, D) = [i \in 1..m |-> IF i \in D THEN s[movers[hole(i)]] ELSE s[i]]
  BY DEF Compacted, m, L
<1> HIDE DEF movers, hole, g
<1>12. \A i \in 1..m : i \in D <=> i \in H  BY <1>3
<1>13. /\ f \in [1..m -> (DOMAIN s) \ D]
       /\ \A i \in 1..m : Compacted(s, D)[i] = s[f[i]]
       /\ DOMAIN Compacted(s, D) = 1..m
  BY <1>1, <1>3, <1>7, <1>8, <1>11, <1>12
<1>14. \A j, k \in 1..m : f[j] = f[k] => j = k
  <2> SUFFICES ASSUME NEW j \in 1..m, NEW k \in 1..m, f[j] = f[k] PROVE j = k  OBVIOUS
  <2>1. CASE j \in D /\ k \in D
    <3>1. hole(j) = hole(k)  BY <2>1, <1>7, <1>8, <1>12
    <3> QED BY <3>1, <1>8, <1>9, <1>12, <2>1, <1>3
  <2>2. CASE j \in D /\ k \notin D  BY <2>2, <1>7, <1>8, <1>12, <1>3
  <2>3. CASE j \notin D /\ k \in D  BY <2>3, <1>7, <1>8, <1>12, <1>3
  <2> QED BY <2>1, <2>2, <2>3
<1>15. \A i \in (DOMAIN s) \ D : \E n \in 1..m : f[n] = i
  <2> TAKE i \in (DOMAIN s) \ D
  <2>1. CASE i > m
    <3>1. PICK k \in 1..g : movers[k] = i  BY <2>1, <1>7
    <3>2. PICK n \in H : hole(n) = k  BY <1>10
    <3>3. n \in 1..m /\ n \in D  BY <1>1, <1>3, <1>4
    <3> QED BY <3>1, <3>2, <3>3
  <2>2. CASE ~ (i > m)  BY <2>2, <1>1, <1>3
  <2> QED BY <2>1, <2>2
<1>16. Compacted(s, D) \in Seq(T)
  <2> HIDE DEF f
  <2>1. \A i \in DOMAIN s : s[i] \in T  OBVIOUS
  <2>2. Compacted(s, D) = [i \in 1..m |-> Compacted(s, D)[i]]  BY <1>11, <1>13
  <2>3. \A i \in 1..m : Compacted(s, D)[i] \in T  BY <2>1, <1>13
  <2> HIDE DEF G, H
  <2> QED BY <2>2, <2>3, <1>3
<1>17. Picked(Compacted(s, D), s, D, f)
  <2> HIDE DEF f
  <2> QED BY <1>13, <1>14, <1>15 DEF Picked
<1> QED BY <1>16, <1>17
---------------------------------------------------------------------------
(* Receives and data.                                                      *)

\* How many elements up to i have its tag: a number.
LEMMA NthNat ==
  ASSUME NEW s, NEW i \in Nat
  PROVE  Nth(s, i) \in Nat
<1> DEFINE A == {x \in 1..i : s[x].tag = s[i].tag}
<1>1. IsFiniteSet(1..i)  BY FS_Interval
<1>2. A \in SUBSET (1..i) /\ Nth(s, i) = Cardinality(A)  BY DEF Nth
<1> HIDE DEF A
<1> QED BY <1>1, <1>2, FS_Subset, FS_CardinalityType

\* Of the elements with one tag, a later one has a higher number.
LEMMA NthGrows ==
  ASSUME NEW s, NEW i \in Nat, NEW k \in Nat, 1 <= i, i < k, s[i].tag = s[k].tag
  PROVE  Nth(s, i) < Nth(s, k)
<1> DEFINE A(n) == {x \in 1..n : s[x].tag = s[k].tag}
<1>1. A(i) \in SUBSET A(k) /\ k \in A(k) /\ k \notin A(i) /\ A(k) \in SUBSET (1..k)  OBVIOUS
<1>2. Nth(s, i) = Cardinality(A(i)) /\ Nth(s, k) = Cardinality(A(k))  BY DEF Nth
<1>3. IsFiniteSet(1..k)  BY FS_Interval
<1> HIDE DEF A
<1>4. IsFiniteSet(A(k))  BY <1>1, <1>3, FS_Subset
<1>5. /\ IsFiniteSet(A(i)) /\ Cardinality(A(i)) <= Cardinality(A(k))
      /\ Cardinality(A(k)) = Cardinality(A(i)) => A(k) = A(i)
  BY <1>1, <1>4, FS_Subset
<1>6. Cardinality(A(i)) \in Nat /\ Cardinality(A(k)) \in Nat  BY <1>4, <1>5, FS_CardinalityType
<1> QED BY <1>1, <1>2, <1>5, <1>6

\* A receive and the data of its write have the same number under their tag.
LEMMA SameNth ==
  ASSUME NEW T, NEW L \in Seq(T), NEW N \in Seq(T), NEW U, Lined(L, N, U),
         NEW i \in DOMAIN L, NEW k \in DOMAIN N, L[i] = N[k]
  PROVE  Nth(L, i) = Nth(N, k)
<1> DEFINE A == {x \in 1..i : L[x].tag = L[i].tag}
           B == {y \in 1..k : N[y].tag = N[k].tag}
           g == [x \in A |-> CHOOSE y \in B : N[y] = L[x]]
<1>1. /\ Len(L) \in Nat /\ DOMAIN L = 1..Len(L) /\ i \in 1..Len(L)
      /\ Len(N) \in Nat /\ DOMAIN N = 1..Len(N) /\ k \in 1..Len(N)
  OBVIOUS
<1>a. /\ HasData(L, N) /\ Expected(L, N, U) /\ Once(L) /\ Once(N)
      /\ SameOrder(L, N) /\ NotIn(L, U) /\ LastIn(N, U)
  BY DEF Lined
<1>b. A \subseteq DOMAIN L /\ B \subseteq DOMAIN N  BY <1>1
<1>2. ASSUME NEW x \in A PROVE \E y \in B : N[y] = L[x]
  <2>0. x \in DOMAIN L /\ x <= i /\ L[x].tag = L[i].tag  BY <1>1
  <2>1. PICK y \in DOMAIN N : N[y] = L[x]  BY <1>a, <2>0 DEF HasData
  <2>2. y \in Nat /\ k \in Nat /\ N[y].tag = N[k].tag  BY <1>1, <2>0, <2>1
  <2>3. k < y => i < x  BY <1>a, <2>0, <2>1, <2>2 DEF SameOrder
  <2>4. y <= k  BY <1>1, <2>0, <2>2, <2>3
  <2> QED BY <1>1, <2>1, <2>2, <2>4
<1>3. ASSUME NEW y \in B PROVE \E x \in A : N[y] = L[x]
  <2>1. y \in DOMAIN N /\ N[y].tag = N[k].tag /\ (y < k \/ y = k)  BY <1>1
  <2>2. N[y] \notin U
    <3> SUFFICES ASSUME N[y] \in U PROVE FALSE  OBVIOUS
    <3>1. PICK z \in DOMAIN N : N[z] = N[y] /\ \A l \in DOMAIN N : N[l].tag = N[y].tag => l <= z
      BY <1>a DEF LastIn
    <3>2. z = y  BY <1>a, <2>1, <3>1 DEF Once
    <3>3. k <= y  BY <2>1, <3>1, <3>2
    <3>4. y = k  BY <2>1, <3>3, <1>1
    <3> QED BY <1>a, <3>4 DEF NotIn
  <2>3. PICK x \in DOMAIN L : L[x] = N[y]  BY <1>a, <2>1, <2>2 DEF Expected
  <2>4. y < k => x < i  BY <1>a, <2>1, <2>3 DEF SameOrder
  <2>5. y = k => x = i  BY <1>a, <2>3 DEF Once
  <2>6. x \in 1..i  BY <1>1, <2>1, <2>3, <2>4, <2>5
  <2> QED BY <2>1, <2>3, <2>6
<1>4. \A x \in A : g[x] \in B /\ N[g[x]] = L[x]  BY <1>2
<1>7. g \in [A -> B]
  <2>1. \A x \in A : g[x] \in B  BY <1>4
  <2> HIDE DEF A, B
  <2> QED BY <2>1
<1> HIDE DEF g, A, B
<1>5. \A x, y \in A : g[x] = g[y] => x = y
  <2> SUFFICES ASSUME NEW x \in A, NEW y \in A, g[x] = g[y] PROVE x = y  OBVIOUS
  <2>1. L[x] = L[y] /\ x \in DOMAIN L /\ y \in DOMAIN L  BY <1>b, <1>4
  <2> QED BY <2>1, <1>a DEF Once
<1>6. \A y \in B : \E x \in A : g[x] = y
  <2> TAKE y \in B
  <2>1. PICK x \in A : N[y] = L[x]  BY <1>3
  <2>2. N[g[x]].w = N[y].w /\ g[x] \in DOMAIN N /\ y \in DOMAIN N  BY <1>b, <1>4, <2>1
  <2>3. g[x] = y  BY <2>2, <1>a DEF Once
  <2> QED BY <2>3
<1>8. g \in Bijection(A, B)  BY <1>5, <1>6, <1>7 DEF Bijection, Injection, Surjection, IsInjective
<1>9. IsFiniteSet(A)
  <2>0. i \in Int  BY <1>1
  <2>1. IsFiniteSet(1..i)  BY <2>0, FS_Interval
  <2>2. A \in SUBSET (1..i)  BY DEF A
  <2> QED BY <2>1, <2>2, FS_Subset
<1>10. Cardinality(A) = Cardinality(B)
  <2>1. ExistsBijection(A, B)  BY <1>8 DEF ExistsBijection
  <2> QED BY <1>9, <2>1, FS_Bijection
<1>11. Nth(L, i) = Cardinality(A) /\ Nth(N, k) = Cardinality(B)  BY DEF Nth, A, B
<1> QED BY <1>10, <1>11

\* MPI gives every receive the data of its own write.
LEMMA OwnMates ==
  ASSUME NEW T, NEW L \in Seq(T), NEW N \in Seq(T), NEW U, Lined(L, N, U),
         NEW i \in DOMAIN L, NEW k \in DOMAIN N,
         L[i].tag = N[k].tag, Nth(L, i) = Nth(N, k)
  PROVE  L[i] = N[k]
<1>1. PICK l \in DOMAIN N : N[l] = L[i]  BY DEF Lined, HasData
<1>2. Nth(L, i) = Nth(N, l)
  <2>1. L[i] = N[l]  BY <1>1
  <2> QED BY <2>1, SameNth
<1>3. l \in Nat /\ k \in Nat /\ 1 <= l /\ 1 <= k /\ N[l].tag = N[k].tag  BY <1>1
<1>4. Nth(N, l) \in Nat /\ Nth(N, k) \in Nat  BY <1>3, NthNat
<1>5. l < k => Nth(N, l) < Nth(N, k)  BY <1>3, NthGrows
<1>6. k < l => Nth(N, k) < Nth(N, l)  BY <1>3, NthGrows
<1>7. l = k  BY <1>2, <1>3, <1>4, <1>5, <1>6
<1> QED BY <1>1, <1>7

\* The places of a sequence that was appended to.
LEMMA Joined ==
  ASSUME NEW T, NEW N \in Seq(T), NEW S \in Seq(T)
  PROVE  /\ N \o S \in Seq(T) /\ Len(N \o S) = Len(N) + Len(S)
         /\ DOMAIN N = 1..Len(N) /\ DOMAIN S = 1..Len(S) /\ Len(N) \in Nat /\ Len(S) \in Nat
         /\ \A k \in DOMAIN N : k \in DOMAIN (N \o S) /\ (N \o S)[k] = N[k]
         /\ \A x \in DOMAIN S : Len(N) + x \in DOMAIN (N \o S) /\ (N \o S)[Len(N) + x] = S[x]
         /\ \A k \in DOMAIN (N \o S) : k \in DOMAIN N \/ \E x \in DOMAIN S : k = Len(N) + x
<1>1. /\ N \o S \in Seq(T) /\ Len(N \o S) = Len(N) + Len(S)
      /\ DOMAIN N = 1..Len(N) /\ DOMAIN S = 1..Len(S) /\ Len(N) \in Nat /\ Len(S) \in Nat
      /\ DOMAIN (N \o S) = 1..(Len(N) + Len(S))
  OBVIOUS
<1>2. \A k \in DOMAIN N : k \in DOMAIN (N \o S) /\ (N \o S)[k] = N[k]  OBVIOUS
<1>3. \A x \in DOMAIN S : Len(N) + x \in DOMAIN (N \o S) /\ (N \o S)[Len(N) + x] = S[x]  OBVIOUS
<1>4. \A k \in DOMAIN (N \o S) : k \notin DOMAIN N => k - Len(N) \in DOMAIN S /\ k = Len(N) + (k - Len(N))
  BY <1>1
<1> QED BY <1>1, <1>2, <1>3, <1>4

\* Data is sent and its target not told.
LEMMA LinedSend ==
  ASSUME NEW T, NEW L \in Seq(T), NEW N \in Seq(T), NEW U, NEW S \in Seq(T),
         Lined(L, N, U), Several(S),
         \A x \in DOMAIN S : \A k \in DOMAIN N : S[x].w # N[k].w,
         \A x \in DOMAIN S : \A o \in U : S[x].tag # o.tag
  PROVE  Lined(L, N \o S, U \cup Elements(S))
<1> DEFINE M == N \o S
           W == U \cup Elements(S)
<1>1. /\ M \in Seq(T) /\ Len(M) = Len(N) + Len(S)
      /\ DOMAIN N = 1..Len(N) /\ DOMAIN S = 1..Len(S) /\ Len(N) \in Nat /\ Len(S) \in Nat
      /\ \A k \in DOMAIN N : k \in DOMAIN M /\ M[k] = N[k]
      /\ \A x \in DOMAIN S : Len(N) + x \in DOMAIN M /\ M[Len(N) + x] = S[x]
      /\ \A k \in DOMAIN M : k \in DOMAIN N \/ \E x \in DOMAIN S : k = Len(N) + x
  BY Joined
<1>2. /\ HasData(L, N) /\ Expected(L, N, U) /\ Once(L) /\ Once(N)
      /\ SameOrder(L, N) /\ NotIn(L, U) /\ LastIn(N, U)
  BY DEF Lined
<1>3. \A o \in W : o \in U \/ \E x \in DOMAIN S : o = S[x]  BY DEF Elements
<1>4. U \subseteq W /\ \A x \in DOMAIN S : S[x] \in W  BY DEF Elements
<1> HIDE DEF M, W
<1>5. HasData(L, M)  BY <1>1, <1>2 DEF HasData
<1>6. Expected(L, M, W)  BY <1>1, <1>2, <1>4 DEF Expected
<1>7. Once(M)
  <2> SUFFICES ASSUME NEW k1 \in DOMAIN M, NEW k2 \in DOMAIN M, M[k1].w = M[k2].w
               PROVE  k1 = k2
    BY DEF Once
  <2>1. CASE k1 \in DOMAIN N /\ k2 \in DOMAIN N  BY <2>1, <1>1, <1>2 DEF Once
  <2>2. CASE k1 \in DOMAIN N /\ \E x \in DOMAIN S : k2 = Len(N) + x  BY <2>2, <1>1, <1>2
  <2>3. CASE k2 \in DOMAIN N /\ \E x \in DOMAIN S : k1 = Len(N) + x  BY <2>3, <1>1, <1>2
  <2>4. CASE (\E x \in DOMAIN S : k1 = Len(N) + x) /\ \E x \in DOMAIN S : k2 = Len(N) + x
    BY <2>4, <1>1, SMTT(40) DEF Several
  <2> QED BY <1>1, <2>1, <2>2, <2>3, <2>4
<1>8. \A i \in DOMAIN L : \A k \in DOMAIN M : L[i] = M[k] => k \in DOMAIN N /\ N[k] = L[i]
  <2> SUFFICES ASSUME NEW i \in DOMAIN L, NEW k \in DOMAIN M, L[i] = M[k]
               PROVE  k \in DOMAIN N /\ N[k] = L[i]
    OBVIOUS
  <2>1. PICK y \in DOMAIN N : N[y] = L[i]  BY <1>2 DEF HasData
  <2>2. y = k  BY <1>1, <1>7, <2>1 DEF Once
  <2> QED BY <2>1, <2>2
<1>9. SameOrder(L, M)  BY <1>2, <1>8 DEF SameOrder
<1>10. NotIn(L, W)
  <2> SUFFICES ASSUME NEW o \in W, NEW i \in DOMAIN L, L[i].w = o.w PROVE FALSE  BY DEF NotIn
  <2>1. PICK k \in DOMAIN N : N[k] = L[i]  BY <1>2 DEF HasData
  <2> QED BY <1>2, <1>3, <2>1 DEF NotIn
<1>11. LastIn(M, W)
  <2> SUFFICES ASSUME NEW o \in W
               PROVE  \E k \in DOMAIN M : M[k] = o /\ \A l \in DOMAIN M : M[l].tag = o.tag => l <= k
    BY DEF LastIn
  <2>1. CASE o \in U
    <3>1. PICK k \in DOMAIN N : N[k] = o /\ \A l \in DOMAIN N : N[l].tag = o.tag => l <= k
      BY <2>1, <1>2 DEF LastIn
    <3>2. \A l \in DOMAIN M : M[l].tag = o.tag => l <= k  BY <1>1, <2>1, <3>1
    <3> QED BY <1>1, <3>1, <3>2
  <2>2. CASE \E x \in DOMAIN S : o = S[x]
    <3>1. PICK x \in DOMAIN S : o = S[x]  BY <2>2
    <3>2. \A l \in DOMAIN M : M[l].tag = o.tag => l <= Len(N) + x
      <4> SUFFICES ASSUME NEW l \in DOMAIN M, M[l].tag = o.tag PROVE l <= Len(N) + x  OBVIOUS
      <4>1. CASE l \in DOMAIN N  BY <4>1, <1>1
      <4>2. CASE \E y \in DOMAIN S : l = Len(N) + y  BY <4>2, <1>1, <3>1 DEF Several
      <4> QED BY <1>1, <4>1, <4>2
    <3> QED BY <1>1, <3>1, <3>2
  <2> QED BY <1>3, <2>1, <2>2
<1>12. Lined(L, M, W)  BY <1>2, <1>5, <1>6, <1>7, <1>9, <1>10, <1>11 DEF Lined
<1> QED BY <1>12 DEF M, W

\* The target of untold data is told.
LEMMA LinedTell ==
  ASSUME NEW T, NEW L \in Seq(T), NEW N \in Seq(T), NEW U, NEW S \in Seq(T),
         Lined(L, N, U), Several(S), \A x \in DOMAIN S : S[x] \in U
  PROVE  Lined(L \o S, N, U \ Elements(S))
<1> DEFINE M == L \o S
           W == U \ Elements(S)
<1>1. /\ M \in Seq(T) /\ Len(M) = Len(L) + Len(S)
      /\ DOMAIN L = 1..Len(L) /\ DOMAIN S = 1..Len(S) /\ Len(L) \in Nat /\ Len(S) \in Nat
      /\ \A k \in DOMAIN L : k \in DOMAIN M /\ M[k] = L[k]
      /\ \A x \in DOMAIN S : Len(L) + x \in DOMAIN M /\ M[Len(L) + x] = S[x]
      /\ \A k \in DOMAIN M : k \in DOMAIN L \/ \E x \in DOMAIN S : k = Len(L) + x
  BY Joined
<1>2. /\ HasData(L, N) /\ Expected(L, N, U) /\ Once(L) /\ Once(N)
      /\ SameOrder(L, N) /\ NotIn(L, U) /\ LastIn(N, U)
  BY DEF Lined
<1>3. W \subseteq U /\ \A o \in U : o \in W \/ \E x \in DOMAIN S : o = S[x]  BY DEF Elements
<1>4. \A o \in W : \A x \in DOMAIN S : o # S[x]  BY DEF Elements
<1> HIDE DEF M, W
<1>5. HasData(M, N)  BY <1>1, <1>2 DEF HasData, LastIn
<1>6. Expected(M, N, W)  BY <1>1, <1>2, <1>3 DEF Expected
<1>7. Once(M)
  <2> SUFFICES ASSUME NEW k1 \in DOMAIN M, NEW k2 \in DOMAIN M, M[k1].w = M[k2].w
               PROVE  k1 = k2
    BY DEF Once
  <2>1. CASE k1 \in DOMAIN L /\ k2 \in DOMAIN L  BY <2>1, <1>1, <1>2 DEF Once
  <2>a. \A x \in DOMAIN S : \A k \in DOMAIN L : L[k].w # S[x].w  BY <1>2 DEF NotIn
  <2>2. CASE k1 \in DOMAIN L /\ \E x \in DOMAIN S : k2 = Len(L) + x  BY <2>2, <1>1, <2>a
  <2>3. CASE k2 \in DOMAIN L /\ \E x \in DOMAIN S : k1 = Len(L) + x  BY <2>3, <1>1, <2>a
  <2>4. CASE (\E x \in DOMAIN S : k1 = Len(L) + x) /\ \E x \in DOMAIN S : k2 = Len(L) + x
    <3>1. PICK x \in DOMAIN S : k1 = Len(L) + x  BY <2>4
    <3>2. PICK y \in DOMAIN S : k2 = Len(L) + y  BY <2>4
    <3>3. M[k1] = S[x] /\ M[k2] = S[y]  BY <1>1, <3>1, <3>2
    <3>4. x = y  BY <3>3 DEF Several
    <3> QED BY <3>1, <3>2, <3>4
  <2> QED BY <1>1, <2>1, <2>2, <2>3, <2>4
<1>8. SameOrder(M, N)
  <2> SUFFICES ASSUME NEW i1 \in DOMAIN M, NEW i2 \in DOMAIN M,
                      NEW k1 \in DOMAIN N, NEW k2 \in DOMAIN N,
                      M[i1] = N[k1], M[i2] = N[k2], N[k1].tag = N[k2].tag, k1 < k2
               PROVE  i1 < i2
    BY DEF SameOrder
  <2>1. CASE i1 \in DOMAIN L /\ i2 \in DOMAIN L  BY <2>1, <1>1, <1>2 DEF SameOrder
  <2>2. CASE i1 \in DOMAIN L /\ \E x \in DOMAIN S : i2 = Len(L) + x  BY <2>2, <1>1
  <2>3. CASE \E x \in DOMAIN S : i1 = Len(L) + x
    <3>1. PICK x \in DOMAIN S : i1 = Len(L) + x  BY <2>3
    <3>2. PICK k \in DOMAIN N : N[k] = S[x] /\ \A l \in DOMAIN N : N[l].tag = S[x].tag => l <= k
      BY <1>2 DEF LastIn
    <3>3. k = k1  BY <1>1, <1>2, <3>1, <3>2 DEF Once
    <3>4. k2 <= k1 /\ k1 \in Nat /\ k2 \in Nat  BY <1>1, <3>1, <3>2, <3>3
    <3> QED BY <3>4
  <2> QED BY <2>1, <2>2, <2>3, <1>1
<1>9. NotIn(M, W)
  <2> SUFFICES ASSUME NEW o \in W, NEW i \in DOMAIN M, M[i].w = o.w PROVE FALSE  BY DEF NotIn
  <2>1. CASE i \in DOMAIN L  BY <2>1, <1>1, <1>2, <1>3 DEF NotIn
  <2>2. CASE \E x \in DOMAIN S : i = Len(L) + x
    <3>1. PICK x \in DOMAIN S : i = Len(L) + x  BY <2>2
    <3>2. PICK k \in DOMAIN N : N[k] = S[x]  BY <1>2 DEF LastIn
    <3>3. PICK l \in DOMAIN N : N[l] = o  BY <1>2, <1>3 DEF LastIn
    <3>4. k = l  BY <1>1, <1>2, <3>1, <3>2, <3>3 DEF Once
    <3> QED BY <1>4, <3>2, <3>3, <3>4
  <2> QED BY <1>1, <2>1, <2>2
<1>10. LastIn(N, W)  BY <1>2, <1>3 DEF LastIn
<1>11. Lined(M, N, W)  BY <1>2, <1>5, <1>6, <1>7, <1>8, <1>9, <1>10 DEF Lined
<1> QED BY <1>11 DEF M, W

\* New data is sent and its target told at once.
LEMMA LinedStart ==
  ASSUME NEW T, NEW L \in Seq(T), NEW N \in Seq(T), NEW U, NEW S \in Seq(T),
         Lined(L, N, U), Several(S),
         \A x \in DOMAIN S : \A k \in DOMAIN N : S[x].w # N[k].w,
         \A x \in DOMAIN S : \A o \in U : S[x].tag # o.tag
  PROVE  Lined(L \o S, N \o S, U)
<1>1. Lined(L, N \o S, U \cup Elements(S)) /\ N \o S \in Seq(T)  BY LinedSend
<1>2. \A x \in DOMAIN S : S[x] \in U \cup Elements(S)  BY DEF Elements
<1>3. (U \cup Elements(S)) \ Elements(S) = U  BY DEF Elements
<1> HIDE DEF Lined, Several
<1>4. Lined(L \o S, N \o S, (U \cup Elements(S)) \ Elements(S))  BY <1>1, <1>2, LinedTell
<1> QED BY <1>3, <1>4

\* Receives are completed, each with the data of its write.
LEMMA LinedThin ==
  ASSUME NEW T, NEW L \in Seq(T), NEW N \in Seq(T), NEW U, Lined(L, N, U),
         NEW I, NEW K, NEW M \in Seq(T), NEW H \in Seq(T), NEW f, NEW h,
         Thinned(M, L, I, f), Thinned(H, N, K, h), InPairs(L, N, I, K)
  PROVE  Lined(M, H, U)
<1>0. /\ \A i \in DOMAIN L : \A k \in DOMAIN N : L[i] = N[k] => (i \in I <=> k \in K)
      /\ \A k \in K : k \in DOMAIN N => \E i \in DOMAIN L : L[i] = N[k]
  BY DEF InPairs
<1>2. /\ HasData(L, N) /\ Expected(L, N, U) /\ Once(L) /\ Once(N)
      /\ SameOrder(L, N) /\ NotIn(L, U) /\ LastIn(N, U)
  BY DEF Lined
<1>3. /\ \A n \in DOMAIN M : f[n] \in DOMAIN L /\ f[n] \notin I /\ M[n] = L[f[n]]
      /\ \A j, k \in DOMAIN M : j < k => f[j] < f[k]
      /\ \A i \in DOMAIN L : i \notin I => \E n \in DOMAIN M : f[n] = i
  BY DEF Thinned
<1>4. /\ \A n \in DOMAIN H : h[n] \in DOMAIN N /\ h[n] \notin K /\ H[n] = N[h[n]]
      /\ \A j, k \in DOMAIN H : j < k => h[j] < h[k]
      /\ \A i \in DOMAIN N : i \notin K => \E n \in DOMAIN H : h[n] = i
  BY DEF Thinned
<1>5. /\ DOMAIN L \subseteq Nat /\ DOMAIN N \subseteq Nat
      /\ DOMAIN M \subseteq Nat /\ DOMAIN H \subseteq Nat
  OBVIOUS
<1>6. HasData(M, H)
  <2> SUFFICES ASSUME NEW n \in DOMAIN M PROVE \E k \in DOMAIN H : H[k] = M[n]  BY DEF HasData
  <2>1. PICK k \in DOMAIN N : N[k] = L[f[n]]  BY <1>2, <1>3 DEF HasData
  <2>2. k \notin K  BY <1>0, <1>3, <2>1
  <2>3. PICK x \in DOMAIN H : h[x] = k  BY <1>4, <2>2
  <2> QED BY <1>3, <1>4, <2>1, <2>3
<1>7. Expected(M, H, U)
  <2> SUFFICES ASSUME NEW k \in DOMAIN H, H[k] \notin U PROVE \E n \in DOMAIN M : M[n] = H[k]
    BY DEF Expected
  <2>1. PICK i \in DOMAIN L : L[i] = N[h[k]]  BY <1>2, <1>4 DEF Expected
  <2>2. i \notin I  BY <1>0, <1>4, <2>1
  <2>3. PICK n \in DOMAIN M : f[n] = i  BY <1>3, <2>2
  <2> QED BY <1>3, <1>4, <2>1, <2>3
<1>8. Once(M)
  <2> SUFFICES ASSUME NEW j \in DOMAIN M, NEW k \in DOMAIN M, M[j].w = M[k].w PROVE j = k
    BY DEF Once
  <2>1. f[j] = f[k] /\ f[j] \in Nat  BY <1>2, <1>3, <1>5 DEF Once
  <2>2. ~ (j < k) /\ ~ (k < j)  BY <1>3, <2>1
  <2> QED BY <1>5, <2>2
<1>9. Once(H)
  <2> SUFFICES ASSUME NEW j \in DOMAIN H, NEW k \in DOMAIN H, H[j].w = H[k].w PROVE j = k
    BY DEF Once
  <2>1. h[j] = h[k] /\ h[j] \in Nat  BY <1>2, <1>4, <1>5 DEF Once
  <2>2. ~ (j < k) /\ ~ (k < j)  BY <1>4, <2>1
  <2> QED BY <1>5, <2>2
<1>10. SameOrder(M, H)
  <2> SUFFICES ASSUME NEW i1 \in DOMAIN M, NEW i2 \in DOMAIN M,
                      NEW k1 \in DOMAIN H, NEW k2 \in DOMAIN H,
                      M[i1] = H[k1], M[i2] = H[k2], H[k1].tag = H[k2].tag, k1 < k2
               PROVE  i1 < i2
    BY DEF SameOrder
  <2>0. /\ f[i1] \in DOMAIN L /\ f[i2] \in DOMAIN L /\ h[k1] \in DOMAIN N /\ h[k2] \in DOMAIN N
        /\ L[f[i1]] = N[h[k1]] /\ L[f[i2]] = N[h[k2]] /\ N[h[k1]].tag = N[h[k2]].tag
        /\ h[k1] < h[k2]
    BY <1>3, <1>4
  <2>1. f[i1] < f[i2]  BY <2>0, <1>2 DEF SameOrder
  <2>2. f[i1] \in Nat /\ f[i2] \in Nat /\ i1 \in Nat /\ i2 \in Nat  BY <1>3, <1>5
  <2>3. i2 < i1 => f[i2] < f[i1]  BY <1>3
  <2> QED BY <2>1, <2>2, <2>3
<1>11. NotIn(M, U)  BY <1>2, <1>3, SMTT(40) DEF NotIn
<1>12. LastIn(H, U)
  <2> SUFFICES ASSUME NEW o \in U
               PROVE  \E k \in DOMAIN H : H[k] = o /\ \A l \in DOMAIN H : H[l].tag = o.tag => l <= k
    BY DEF LastIn
  <2>1. PICK k \in DOMAIN N : N[k] = o /\ \A l \in DOMAIN N : N[l].tag = o.tag => l <= k
    BY <1>2 DEF LastIn
  <2>2. k \notin K
    <3>1. \A i \in DOMAIN L : L[i] # N[k]  BY <1>2, <2>1 DEF NotIn
    <3> QED BY <1>0, <2>1, <3>1
  <2>3. PICK x \in DOMAIN H : h[x] = k  BY <1>4, <2>2
  <2>4. ASSUME NEW l \in DOMAIN H, H[l].tag = o.tag PROVE l <= x
    <3>1. h[l] <= h[x] /\ h[l] \in Nat /\ h[x] \in Nat /\ l \in Nat /\ x \in Nat
      BY <1>4, <1>5, <2>1, <2>3, <2>4
    <3>2. x < l => h[x] < h[l]  BY <1>4
    <3> QED BY <3>1, <3>2
  <2> QED BY <1>4, <2>1, <2>3, <2>4
<1> QED BY <1>6, <1>7, <1>8, <1>9, <1>10, <1>11, <1>12 DEF Lined

---------------------------------------------------------------------------
(* Messages.                                                               *)

\* The types of what a message posts and leaves.
LEMMA MessageTypes ==
  ASSUME NEW t \in SUBSET RecType, NEW m \in MsgType
  PROVE  SlotAfter(t, m) \in SUBSET RecType /\ Posts(t, m) \in Seq(OpType)
<1>1. SlotAfter(t, m) \in SUBSET RecType  BY DEF SlotAfter, RecType, MsgType
<1>2. Posts(t, m) \in Seq(OpType)
  <2>1. CASE m.type = "execute"  BY <2>1 DEF Posts, MsgType
  <2>2. CASE m.type = "start" /\ InSlot(t, m.id) # {}
    <3> DEFINE b == CHOOSE b \in InSlot(t, m.id) : TRUE
               S == [i \in DOMAIN b.ops |-> [b.ops[i] EXCEPT !.w = <<@[1], @[2], m.start>>]]
    <3>1. Posts(t, m) = S  BY <2>2 DEF Posts
    <3>2. b \in RecType  BY <2>2 DEF InSlot
    <3> HIDE DEF b
    <3>3. b.ops \in Seq(OpType) /\ m.start \in Nat  BY <3>2 DEF RecType, MsgType
    <3>4. ASSUME NEW i \in DOMAIN b.ops PROVE S[i] \in OpType
      <4>a. b.ops[i] \in OpType  BY <3>3
      <4>1. b.ops[i] \in [w : BatchKey \X Nat \X Nat, tag : Nat]  BY <4>a DEF OpType
      <4>2. b.ops[i].w[1] \in BatchKey /\ b.ops[i].w[2] \in Nat /\ b.ops[i].tag \in Nat  BY <4>1
      <4>3. S[i] = [w |-> <<b.ops[i].w[1], b.ops[i].w[2], m.start>>, tag |-> b.ops[i].tag]  BY <4>1
      <4> HIDE DEF S
      <4>4. <<b.ops[i].w[1], b.ops[i].w[2], m.start>> \in BatchKey \X Nat \X Nat  BY <3>3, <4>2
      <4> QED BY <4>2, <4>3, <4>4 DEF OpType
    <3>5. DOMAIN S = 1..Len(b.ops) /\ Len(b.ops) \in Nat /\ S = [i \in DOMAIN b.ops |-> S[i]]
      BY <3>3
    <3>6. \A i \in DOMAIN b.ops : S[i] \in OpType  BY <3>4
    <3> HIDE DEF S
    <3>7. S \in [1..Len(b.ops) -> OpType]  BY <3>3, <3>5, <3>6
    <3> QED BY <3>1, <3>5, <3>7
  <2>3. CASE m.type # "execute" /\ ~ (m.type = "start" /\ InSlot(t, m.id) # {})  BY <2>3 DEF Posts
  <2> QED BY <2>1, <2>2, <2>3
<1> QED BY <1>1, <1>2

\* A message that finds fewer receives before it still fits.
LEMMA FitsFewer ==
  ASSUME NEW t, NEW m, NEW L, NEW c, NEW K, NEW d, Fits(t, L, c, m),
         \A x \in 1..d : \E y \in 1..c : K[x] = L[y]
  PROVE  Fits(t, K, d, m)
<1>1. ASSUME m.type \in {"start", "destroy"}
      PROVE  \E b \in t :
               /\ InSlot(t, m.id) = {b}
               /\ \A x \in 1..d : \A y \in DOMAIN b.ops :
                    ~ (b.ops[y].w[1] = K[x].w[1] /\ b.ops[y].w[2] = K[x].w[2])
  <2>1. PICK b \in t :
          /\ InSlot(t, m.id) = {b}
          /\ \A x \in 1..c : \A y \in DOMAIN b.ops :
               ~ (b.ops[y].w[1] = L[x].w[1] /\ b.ops[y].w[2] = L[x].w[2])
    BY <1>1 DEF Fits
  <2>2. \A x \in 1..d : \A y \in DOMAIN b.ops :
                    ~ (b.ops[y].w[1] = K[x].w[1] /\ b.ops[y].w[2] = K[x].w[2])
    BY <2>1
  <2> QED BY <2>1, <2>2
<1>2. m.type = "create" => InSlot(t, m.id) = {}  BY DEF Fits
<1> QED BY <1>1, <1>2 DEF Fits

\* A function with one more value at its end.
LEMMA LaterIs ==
  ASSUME NEW n \in Nat, NEW R, NEW f \in [0..n -> R], NEW e \in R
  PROVE  /\ Later(f, n, e) \in [0..(n + 1) -> R] /\ Later(f, n, e)[n + 1] = e
         /\ \A i \in 0..n : Later(f, n, e)[i] = f[i]
         /\ \A i \in 0..(n + 1) : i \in 0..n \/ i = n + 1
  BY DEF Later

\* One more message at the end of a course that fits the table it will find.
LEMMA CourseTell ==
  ASSUME NEW T, NEW L, NEW C, NEW q, NEW P, NEW s, NEW m \in MsgType, NEW S,
         OnCourse(T, L, C, q, P, s), S = Posts(T[Len(q)], m), Fits(T[Len(q)], L, Len(L), m)
  PROVE  /\ S \in Seq(OpType) /\ L \in Seq(OpType) /\ Len(q) \in Nat
         /\ OnCourse(Later(T, Len(q), SlotAfter(T[Len(q)], m)), L \o S,
                     Later(C, Len(q), Len(L) + Len(S)), Append(q, m), P, s)
<1> DEFINE n == Len(q)
           T2 == Later(T, n, SlotAfter(T[n], m))
           C2 == Later(C, n, Len(L) + Len(S))
           L2 == L \o S
           q2 == Append(q, m)
<1>1. /\ q \in Seq(MsgType) /\ P \in Seq(OpType) /\ L \in Seq(OpType)
      /\ T \in [0..n -> SUBSET RecType] /\ T[0] = s
      /\ C \in [0..n -> 0..Len(L)] /\ C[0] = Len(P) /\ C[n] = Len(L)
      /\ \A x \in 1..Len(P) : P[x] = L[x]
      /\ \A i, j \in 0..n : i <= j => C[i] <= C[j]
      /\ \A i \in 1..n : Turn(T, L, C, q[i], i)
  BY DEF OnCourse
<1>2. n \in Nat /\ Len(L) \in Nat /\ n \in 0..n /\ Len(P) \in Nat  BY <1>1
<1>3. SlotAfter(T[n], m) \in SUBSET RecType /\ S \in Seq(OpType)
  <2>1. T[n] \in SUBSET RecType  BY <1>1, <1>2
  <2> QED BY <2>1, MessageTypes
<1>4. q2 \in Seq(MsgType) /\ Len(q2) = n + 1 /\ q2[n + 1] = m /\ \A i \in 1..n : q2[i] = q[i]
  BY <1>1
<1>5. /\ L2 \in Seq(OpType) /\ Len(L2) = Len(L) + Len(S) /\ Len(S) \in Nat
      /\ \A x \in 1..Len(L) : L2[x] = L[x]
      /\ \A x \in 1..Len(S) : L2[Len(L) + x] = S[x]
  BY <1>1, <1>3
<1>6. /\ T2 \in [0..(n + 1) -> SUBSET RecType] /\ T2[n + 1] = SlotAfter(T[n], m)
      /\ \A i \in 0..n : T2[i] = T[i]
      /\ \A i \in 0..(n + 1) : i \in 0..n \/ i = n + 1
  <2> DEFINE R == SUBSET RecType
             e == SlotAfter(T[n], m)
  <2>1. T \in [0..n -> R] /\ e \in R  BY <1>1, <1>3
  <2> HIDE DEF n, R, e
  <2>2. /\ Later(T, n, e) \in [0..(n + 1) -> R] /\ Later(T, n, e)[n + 1] = e
        /\ \A i \in 0..n : Later(T, n, e)[i] = T[i]
        /\ \A i \in 0..(n + 1) : i \in 0..n \/ i = n + 1
    BY <1>2, <2>1, LaterIs
  <2> QED BY <2>2 DEF R, e
<1>7. /\ C2 \in [0..(n + 1) -> 0..Len(L2)] /\ C2[n + 1] = Len(L2)
      /\ \A i \in 0..n : C2[i] = C[i]
  <2>1. C \in [0..n -> 0..Len(L2)] /\ Len(L) + Len(S) \in 0..Len(L2)  BY <1>1, <1>2, <1>5
  <2> DEFINE R == 0..Len(L2)
             e == Len(L) + Len(S)
  <2>2. C \in [0..n -> R] /\ e \in R  BY <2>1
  <2>4. e = Len(L2)  BY <1>5
  <2> HIDE DEF n, R, e
  <2>3. /\ Later(C, n, e) \in [0..(n + 1) -> R] /\ Later(C, n, e)[n + 1] = e
        /\ \A i \in 0..n : Later(C, n, e)[i] = C[i]
    BY <1>2, <2>2 DEF Later
  <2> QED BY <2>3, <2>4 DEF R, e
<1> HIDE DEF n, T2, C2, L2, q2
<1>9. ASSUME NEW i \in 1..(n + 1) PROVE Turn(T2, L2, C2, q2[i], i)
  <2>1. CASE i \in 1..n
    <3>1. i \in 0..n /\ i - 1 \in 0..n /\ q2[i] = q[i] /\ C[i - 1] \in 0..Len(L)
      BY <2>1, <1>1, <1>2, <1>4
    <3>2. Turn(T, L, C, q[i], i)  BY <2>1, <1>1
    <3>3. T2[i] = T[i] /\ T2[i - 1] = T[i - 1] /\ C2[i] = C[i] /\ C2[i - 1] = C[i - 1]
      BY <1>6, <1>7, <3>1
    <3>4. Fits(T[i - 1], L2, C[i - 1], q[i])
      <4>1. \A x \in 1..C[i - 1] : x \in 1..Len(L)  BY <3>1, <1>2
      <4>2. \A x \in 1..C[i - 1] : \E y \in 1..C[i - 1] : L2[x] = L[y]  BY <4>1, <1>5
      <4> QED BY <3>2, <4>2, FitsFewer DEF Turn
    <3>5. \A x \in 1..Len(Posts(T[i - 1], q[i])) : L2[C[i - 1] + x] = L[C[i - 1] + x]
      <4>1. C[i] \in 0..Len(L) /\ Len(Posts(T[i - 1], q[i])) = C[i] - C[i - 1]
        BY <1>1, <3>1, <3>2 DEF Turn
      <4> DEFINE l == Len(Posts(T[i - 1], q[i]))
                 a == C[i - 1]
      <4>2. l = C[i] - a /\ C[i] \in 0..Len(L) /\ a \in 0..Len(L) /\ Len(L) \in Nat
        BY <4>1, <3>1, <1>2
      <4> HIDE DEF l, a
      <4>3. \A x \in 1..l : a + x \in 1..Len(L)  BY <4>2
      <4> QED BY <4>3, <1>5 DEF l, a
    <3> QED BY <3>1, <3>2, <3>3, <3>4, <3>5 DEF Turn
  <2>2. CASE i = n + 1
    <3>1. T2[i - 1] = T[n] /\ C2[i - 1] = Len(L) /\ q2[i] = m /\ C2[i] = Len(L2) /\ T2[i] = SlotAfter(T[n], m)
      BY <2>2, <1>1, <1>2, <1>4, <1>6, <1>7
    <3>2. Fits(T[n], L2, Len(L), m)
      <4>1. \A x \in 1..Len(L) : \E y \in 1..Len(L) : L2[x] = L[y]  BY <1>5
      <4>2. Fits(T[n], L, Len(L), m)  BY DEF n
      <4> QED BY <4>1, <4>2, FitsFewer
    <3>3. Posts(T2[i - 1], q2[i]) = S  BY <3>1 DEF n
    <3>4. Len(S) = Len(L2) - Len(L)  BY <1>2, <1>5
    <3> QED BY <3>1, <3>2, <3>3, <3>4, <1>3, <1>5 DEF Turn
  <2> QED BY <1>2, <2>1, <2>2
<1>10. \A i, j \in 0..(n + 1) : i <= j => C2[i] <= C2[j]
  <2> SUFFICES ASSUME NEW i \in 0..(n + 1), NEW j \in 0..(n + 1), i <= j PROVE C2[i] <= C2[j]
    OBVIOUS
  <2>1. CASE j = n + 1
    <3>1. C2[i] \in 0..Len(L2)  BY <1>7
    <3> QED BY <2>1, <3>1, <1>5, <1>2, <1>7
  <2>2. CASE j \in 0..n  BY <2>2, <1>1, <1>2, <1>7
  <2> QED BY <1>2, <2>1, <2>2
<1>11. T2[0] = s /\ C2[0] = Len(P) /\ \A x \in 1..Len(P) : P[x] = L2[x]
  <2>1. 0 \in 0..n /\ C[0] \in 0..Len(L)  BY <1>1, <1>2
  <2> QED BY <2>1, <1>1, <1>2, <1>5, <1>6, <1>7
<1>12. OnCourse(T2, L2, C2, q2, P, s)
  BY <1>1, <1>4, <1>5, <1>6, <1>7, <1>9, <1>10, <1>11 DEF OnCourse
<1> QED BY <1>1, <1>2, <1>3, <1>12 DEF T2, L2, C2, q2, n

\* The first message of a course is processed: its receives are posted.
LEMMA CourseDrain ==
  ASSUME NEW T, NEW L, NEW C, NEW q, NEW P, NEW s, OnCourse(T, L, C, q, P, s), q # <<>>
  PROVE  LET S == Posts(s, Head(q)) IN
         /\ P \in Seq(OpType) /\ S \in Seq(OpType) /\ Len(S) = C[1] - Len(P) /\ Len(P) \in Nat
         /\ L \in Seq(OpType) /\ C[1] \in 0..Len(L) /\ Head(q) \in MsgType
         /\ \A x \in 1..Len(S) : S[x] = L[Len(P) + x]
         /\ Turn(T, L, C, Head(q), 1) /\ T[0] = s /\ C[0] = Len(P)
         /\ OnCourse(Sooner(T, Len(q)), L, Sooner(C, Len(q)), Tail(q), P \o S,
                     SlotAfter(s, Head(q)))
         /\ Sooner(C, Len(q))[0] = C[1]
         /\ Sooner(T, Len(q))[Len(Tail(q))] = T[Len(q)]
<1> DEFINE n == Len(q)
           m == Head(q)
           S == Posts(s, m)
           T2 == Sooner(T, n)
           C2 == Sooner(C, n)
           q2 == Tail(q)
           P2 == P \o S
<1>1. /\ q \in Seq(MsgType) /\ P \in Seq(OpType) /\ L \in Seq(OpType)
      /\ T \in [0..n -> SUBSET RecType] /\ T[0] = s
      /\ C \in [0..n -> 0..Len(L)] /\ C[0] = Len(P) /\ C[n] = Len(L)
      /\ \A x \in 1..Len(P) : P[x] = L[x]
      /\ \A i, j \in 0..n : i <= j => C[i] <= C[j]
      /\ \A i \in 1..n : Turn(T, L, C, q[i], i)
  BY DEF OnCourse
<1>2. n \in Nat \ {0} /\ Len(L) \in Nat /\ Len(P) \in Nat /\ m = q[1] /\ m \in MsgType  BY <1>1
<1>3. q2 \in Seq(MsgType) /\ Len(q2) = n - 1 /\ \A i \in 1..(n - 1) : q2[i] = q[i + 1]  BY <1>1
<1>4. Turn(T, L, C, m, 1) /\ 1 \in 0..n /\ 0 \in 0..n
  <2>1. 1 \in 1..n  BY <1>2
  <2> QED BY <1>1, <1>2, <2>1
<1>5. /\ S \in Seq(OpType) /\ Len(S) = C[1] - Len(P)
      /\ \A x \in 1..Len(S) : S[x] = L[Len(P) + x]
      /\ T[1] = SlotAfter(s, m)
  <2>1. T[1 - 1] = s /\ C[1 - 1] = Len(P)  BY <1>1
  <2> QED BY <1>4, <2>1 DEF Turn
<1>6. C[1] \in 0..Len(L) /\ T[1] \in SUBSET RecType  BY <1>1, <1>4
<1> HIDE DEF S, m, q2
<1>7. /\ P2 \in Seq(OpType) /\ Len(P2) = C[1]
      /\ \A x \in 1..Len(P2) : P2[x] = L[x]
  <2>1. P2 \in Seq(OpType) /\ Len(P2) = Len(P) + Len(S)  BY <1>1, <1>5, Joined, Zenon
  <2>2. Len(P2) = C[1]  BY <2>1, <1>2, <1>5, <1>6
  <2>3. ASSUME NEW x \in 1..Len(P2) PROVE P2[x] = L[x]
    <3>1. CASE x \in 1..Len(P)  BY <3>1, <1>1, <1>5
    <3>2. CASE x \notin 1..Len(P)
      <4>1. x - Len(P) \in 1..Len(S) /\ Len(P) + (x - Len(P)) = x  BY <3>2, <2>1, <1>1, <1>5
      <4>2. P2[x] = S[x - Len(P)]  BY <4>1, <3>2, <1>1, <1>5
      <4> QED BY <4>1, <4>2, <1>5
    <3> QED BY <3>1, <3>2
  <2> QED BY <2>1, <2>2, <2>3
<1>8. /\ T2 \in [0..(n - 1) -> SUBSET RecType] /\ \A i \in 0..(n - 1) : T2[i] = T[i + 1] /\ i + 1 \in 0..n
      /\ C2 \in [0..(n - 1) -> 0..Len(L)] /\ \A i \in 0..(n - 1) : C2[i] = C[i + 1]
  <2>1. \A i \in 0..(n - 1) : i + 1 \in 0..n  BY <1>2
  <2> HIDE DEF n
  <2>2. T2 \in [0..(n - 1) -> SUBSET RecType] /\ \A i \in 0..(n - 1) : T2[i] = T[i + 1]
    BY <1>1, <2>1 DEF Sooner
  <2>3. C2 \in [0..(n - 1) -> 0..Len(L)] /\ \A i \in 0..(n - 1) : C2[i] = C[i + 1]
    BY <1>1, <2>1 DEF Sooner
  <2> QED BY <2>1, <2>2, <2>3
<1> HIDE DEF T2, C2, P2, n
<1>9. ASSUME NEW i \in 1..(n - 1) PROVE Turn(T2, L, C2, q2[i], i)
  <2>1. i \in 0..(n - 1) /\ i - 1 \in 0..(n - 1) /\ i + 1 \in 1..n /\ (i + 1) - 1 = i /\ (i - 1) + 1 = i
    BY <1>2
  <2>2. Turn(T, L, C, q[i + 1], i + 1)  BY <1>1, <2>1
  <2>3. T2[i] = T[i + 1] /\ T2[i - 1] = T[i] /\ C2[i] = C[i + 1] /\ C2[i - 1] = C[i] /\ q2[i] = q[i + 1]
    BY <1>3, <1>8, <2>1
  <2> QED BY <2>1, <2>2, <2>3 DEF Turn
<1>10. \A i, j \in 0..(n - 1) : i <= j => C2[i] <= C2[j]
  <2> SUFFICES ASSUME NEW i \in 0..(n - 1), NEW j \in 0..(n - 1), i <= j PROVE C2[i] <= C2[j]
    OBVIOUS
  <2>1. i + 1 \in 0..n /\ j + 1 \in 0..n /\ i + 1 <= j + 1  BY <1>2
  <2> QED BY <2>1, <1>1, <1>8
<1>11. /\ T2[0] = SlotAfter(s, m) /\ C2[0] = C[1] /\ C2[0] = Len(P2)
       /\ C2[n - 1] = Len(L) /\ T2[n - 1] = T[n]
  <2>1. 0 \in 0..(n - 1) /\ n - 1 \in 0..(n - 1) /\ (n - 1) + 1 = n /\ 0 + 1 = 1  BY <1>2
  <2> QED BY <2>1, <1>1, <1>5, <1>7, <1>8
<1>12. OnCourse(T2, L, C2, q2, P2, SlotAfter(s, m))
  BY <1>1, <1>3, <1>7, <1>8, <1>9, <1>10, <1>11 DEF OnCourse
<1>13. T2[Len(q2)] = T[n]  BY <1>3, <1>11
<1> QED BY <1>1, <1>2, <1>4, <1>5, <1>6, <1>11, <1>12, <1>13 DEF T2, C2, q2, P2, S, m, n

\* Some receives are complete.
LEMMA CourseTest ==
  ASSUME NEW T, NEW L, NEW C, NEW q, NEW P, NEW s, OnCourse(T, L, C, q, P, s),
         NEW I \in SUBSET (DOMAIN P)
  PROVE  \E K, D, f :
           /\ OnCourse(T, K, D, q, Without(P, I), s)
           /\ K \in Seq(OpType) /\ L \in Seq(OpType) /\ Thinned(K, L, I, f)
           /\ Firsts(K, f, D[0], C[0])
<1> DEFINE n == Len(q)
           a == Len(P)
           W == Without(P, I)
           b == Len(W)
           z == Len(L) - a
           K == [x \in 1..(b + z) |-> IF x <= b THEN W[x] ELSE L[a + (x - b)]]
           D == [i \in 0..n |-> b + (C[i] - a)]
<1>1. /\ q \in Seq(MsgType) /\ P \in Seq(OpType) /\ L \in Seq(OpType)
      /\ T \in [0..n -> SUBSET RecType] /\ T[0] = s
      /\ C \in [0..n -> 0..Len(L)] /\ C[0] = Len(P) /\ C[n] = Len(L)
      /\ \A x \in 1..Len(P) : P[x] = L[x]
      /\ \A i, j \in 0..n : i <= j => C[i] <= C[j]
      /\ \A i \in 1..n : Turn(T, L, C, q[i], i)
  BY DEF OnCourse
<1>2. /\ n \in Nat /\ Len(L) \in Nat /\ a \in Nat /\ 0 \in 0..n /\ n \in 0..n
      /\ DOMAIN P = 1..a /\ DOMAIN L = 1..Len(L)
  BY <1>1
<1>3. \A i \in 0..n : C[i] \in 0..Len(L) /\ C[i] \in Int /\ a <= C[i]  BY <1>1, <1>2
<1>4. a <= Len(L) /\ z \in Nat  BY <1>1, <1>2, <1>3
<1>5. W \in Seq(OpType)  BY <1>1, WithoutIs
<1>b. P \in Seq(OpType)  BY <1>1
<1>6. PICK f : Thinned(W, P, I, f)  BY <1>b, WithoutIs
<1>c. /\ f \in [DOMAIN W -> (DOMAIN P) \ I]
      /\ \A x \in DOMAIN W : W[x] = P[f[x]]
      /\ \A j, k \in DOMAIN W : j < k => f[j] < f[k]
      /\ \A i \in (DOMAIN P) \ I : \E x \in DOMAIN W : f[x] = i
  BY <1>6, Zenon DEF Thinned
<1> HIDE DEF W
<1>7. b \in Nat /\ DOMAIN W = 1..b  BY <1>5
<1>8. \A x \in 1..b : f[x] \in 1..a /\ f[x] \notin I /\ W[x] = L[f[x]]  BY <1>1, <1>2, <1>c, <1>7
<1> DEFINE g == [x \in 1..(b + z) |-> IF x <= b THEN f[x] ELSE a + (x - b)]
<1> HIDE DEF n, a, b, z
<1>9. /\ DOMAIN K = 1..(b + z) /\ K \in Seq(OpType) /\ Len(K) = b + z
      /\ \A x \in 1..b : K[x] = W[x]
  <2>1. b + z \in Nat  BY <1>4, <1>7
  <2>2. \A x \in 1..(b + z) : K[x] \in OpType
    <3> TAKE x \in 1..(b + z)
    <3>1. CASE x <= b
      <4>1. x \in DOMAIN W  BY <3>1, <1>7
      <4> QED BY <3>1, <4>1, <1>5
    <3>2. CASE ~ (x <= b)
      <4>1. a + (x - b) \in DOMAIN L  BY <3>2, <1>2, <1>4, <1>7 DEF z
      <4> QED BY <3>2, <4>1, <1>1
    <3> QED BY <3>1, <3>2
  <2>3. K \in [1..(b + z) -> OpType]  BY <2>2
  <2> HIDE DEF K
  <2>4. K \in Seq(OpType) /\ Len(K) = b + z /\ DOMAIN K = 1..(b + z)  BY <2>1, <2>3
  <2>5. \A x \in 1..b : x \in 1..(b + z) /\ x <= b  BY <1>4, <1>7
  <2>6. \A x \in 1..b : K[x] = W[x]  BY <2>5 DEF K
  <2> QED BY <2>4, <2>6
<1>10. /\ \A x \in 1..(b + z) : K[x] = L[g[x]] /\ g[x] \in 1..Len(L) /\ g[x] \notin I
       /\ \A x \in 1..(b + z) : x <= b <=> g[x] <= a
  <2> SUFFICES ASSUME NEW x \in 1..(b + z)
               PROVE  K[x] = L[g[x]] /\ g[x] \in 1..Len(L) /\ g[x] \notin I /\ (x <= b <=> g[x] <= a)
    OBVIOUS
  <2>1. CASE x <= b
    <3>1. x \in 1..b /\ g[x] = f[x] /\ K[x] = W[x]  BY <2>1, <1>4, <1>7
    <3> HIDE DEF g, K
    <3> QED BY <3>1, <1>8, <2>1, <1>2, <1>4
  <2>2. CASE ~ (x <= b)
    <3>1. g[x] = a + (x - b) /\ K[x] = L[a + (x - b)]  BY <2>2
    <3>2. a + (x - b) \in 1..Len(L) /\ a + (x - b) > a  BY <2>2, <1>2, <1>4, <1>7 DEF z
    <3> HIDE DEF g, K
    <3>3. \A i \in I : i <= a  BY <1>2
    <3> QED BY <3>1, <3>2, <3>3, <2>2, <1>2
  <2> QED BY <2>1, <2>2
<1>11. \A j, k \in 1..(b + z) : j < k => g[j] < g[k]
  <2> SUFFICES ASSUME NEW j \in 1..(b + z), NEW k \in 1..(b + z), j < k PROVE g[j] < g[k]  OBVIOUS
  <2>1. CASE k <= b
    <3>1. j \in DOMAIN W /\ k \in DOMAIN W /\ g[j] = f[j] /\ g[k] = f[k]  BY <2>1, <1>4, <1>7
    <3> QED BY <3>1, <1>c
  <2>2. CASE j <= b /\ ~ (k <= b)
    <3>1. g[j] <= a /\ ~ (g[k] <= a) /\ g[j] \in Int /\ g[k] \in Int  BY <2>2, <1>10, <1>2
    <3> QED BY <3>1, <1>2
  <2>3. CASE ~ (j <= b)
    <3>1. ~ (k <= b) /\ g[j] = a + (j - b) /\ g[k] = a + (k - b)  BY <2>3, <1>4, <1>7
    <3> QED BY <3>1, <1>2, <1>4, <1>7
  <2> QED BY <2>1, <2>2, <2>3, <1>4, <1>7
<1>12. \A i \in (DOMAIN L) \ I : \E x \in 1..(b + z) : g[x] = i
  <2> TAKE i \in (DOMAIN L) \ I
  <2>1. CASE i <= a
    <3>1. PICK x \in DOMAIN W : f[x] = i
      <4>1. i \in (DOMAIN P) \ I  BY <2>1, <1>2
      <4> QED BY <4>1, <1>c
    <3>2. x \in 1..(b + z) /\ x <= b  BY <1>4, <1>7
    <3> QED BY <3>1, <3>2
  <2>2. CASE ~ (i <= a)
    <3>1. (i - a) + b \in 1..(b + z) /\ ~ ((i - a) + b <= b) /\ a + (((i - a) + b) - b) = i
      BY <2>2, <1>2, <1>4, <1>7 DEF z
    <3> QED BY <3>1
  <2> QED BY <2>1, <2>2
<1>13. Thinned(K, L, I, g)
  <2>1. g = [x \in DOMAIN K |-> g[x]]  BY <1>9
  <2>2. \A x \in DOMAIN K : g[x] \in (DOMAIN L) \ I  BY <1>2, <1>9, <1>10
  <2> HIDE DEF g, K
  <2>3. g \in [DOMAIN K -> (DOMAIN L) \ I]  BY <2>1, <2>2
  <2> QED BY <2>3, <1>9, <1>10, <1>11, <1>12 DEF Thinned
<1>14. /\ \A i \in 0..n : D[i] = b + (C[i] - a)
       /\ D \in [0..n -> 0..Len(K)] /\ D[0] = b /\ D[n] = Len(K)
       /\ \A i, j \in 0..n : i <= j => D[i] <= D[j]
  <2>1. \A i \in 0..n : b + (C[i] - a) \in 0..(b + z)  BY <1>2, <1>3, <1>4, <1>7 DEF z
  <2>2. \A i, j \in 0..n : i <= j => b + (C[i] - a) <= b + (C[j] - a)
    <3> SUFFICES ASSUME NEW i \in 0..n, NEW j \in 0..n, i <= j
                 PROVE  b + (C[i] - a) <= b + (C[j] - a)
      OBVIOUS
    <3>1. C[i] <= C[j]  BY <1>1
    <3> QED BY <3>1, <1>2, <1>3, <1>7
  <2>3. C[0] = a /\ C[n] = a + z  BY <1>1, <1>2 DEF z, a
  <2> QED BY <2>1, <2>2, <2>3, <1>2, <1>4, <1>7, <1>9
<1>a. n = Len(q) /\ b = Len(W)  BY DEF n, b
<1> HIDE DEF D, K, g
<1>15. ASSUME NEW i \in 1..n PROVE Turn(T, K, D, q[i], i)
  <2>1. i - 1 \in 0..n /\ i \in 0..n  BY <1>2
  <2>2. Turn(T, L, C, q[i], i)  BY <1>1
  <2>3. Fits(T[i - 1], K, D[i - 1], q[i])
    <3>1. \A x \in 1..D[i - 1] : g[x] \in 1..C[i - 1] /\ K[x] = L[g[x]]
      <4> TAKE x \in 1..D[i - 1]
      <4>1. D[i - 1] \in 0..(b + z) /\ x \in 1..(b + z)  BY <2>1, <1>4, <1>7, <1>9, <1>14
      <4>2. CASE x <= b  BY <4>1, <4>2, <1>2, <1>3, <1>10, <2>1
      <4>3. CASE ~ (x <= b)
        <5>1. g[x] = a + (x - b)  BY <4>1, <4>3 DEF g
        <5>2. x <= b + (C[i - 1] - a)  BY <2>1, <1>14
        <5> QED BY <4>1, <5>1, <5>2, <1>2, <1>3, <1>7, <1>10, <2>1
      <4> QED BY <4>2, <4>3
    <3>2. Fits(T[i - 1], L, C[i - 1], q[i])  BY <2>2 DEF Turn
    <3> QED BY <3>1, <3>2, FitsFewer
  <2>4. D[i] - D[i - 1] = C[i] - C[i - 1]
    <3>1. /\ D[i] = b + (C[i] - a) /\ D[i - 1] = b + (C[i - 1] - a)
          /\ C[i] \in Int /\ C[i - 1] \in Int
      BY <2>1, <1>3, <1>14
    <3> QED BY <3>1, <1>2, <1>7
  <2>5. \A x \in 1..(C[i] - C[i - 1]) : K[D[i - 1] + x] = L[C[i - 1] + x]
    <3> TAKE x \in 1..(C[i] - C[i - 1])
    <3>1. D[i - 1] = b + (C[i - 1] - a) /\ C[i] \in Int /\ C[i] <= Len(L) /\ C[i - 1] \in Int /\ a <= C[i - 1]
      BY <2>1, <1>2, <1>3, <1>14
    <3>2. /\ D[i - 1] + x \in 1..(b + z) /\ ~ (D[i - 1] + x <= b)
          /\ a + ((D[i - 1] + x) - b) = C[i - 1] + x
      <4> DEFINE c == C[i - 1]
                 l == Len(L)
      <4>1. /\ x \in Int /\ 1 <= x /\ c \in Int /\ c + x <= l /\ a <= c /\ l \in Nat /\ z = l - a
            /\ D[i - 1] = b + (c - a) /\ b \in Nat /\ a \in Nat
        BY <3>1, <1>2, <1>7 DEF z
      <4> HIDE DEF c, l
      <4>2. b + (c - a) + x \in 1..(b + z) /\ ~ (b + (c - a) + x <= b) /\ a + ((b + (c - a) + x) - b) = c + x
        BY <4>1
      <4> QED BY <4>1, <4>2 DEF c
    <3> QED BY <3>2 DEF K
  <2> QED BY <2>2, <2>3, <2>4, <2>5 DEF Turn
<1>16. \A x \in 1..b : W[x] = K[x]  BY <1>9
<1>17. OnCourse(T, K, D, q, W, s)  BY <1>1, <1>5, <1>9, <1>14, <1>15, <1>16, <1>a DEF OnCourse
<1>18. \A x \in DOMAIN K : (x <= D[0] <=> g[x] <= C[0])  BY <1>1, <1>9, <1>10, <1>14 DEF a
<1>19. Firsts(K, g, D[0], C[0])  BY <1>18 DEF Firsts
<1> QED BY <1>1, <1>9, <1>13, <1>17, <1>19 DEF W

---------------------------------------------------------------------------
(* Places in a program.                                                    *)

\* Every operation follows the put or create it is about, and only that.
LEMMA OwnsOnce ==
  ASSUME NEW q \in Seq(Operation), NEW i \in Nat, NEW k, NEW l, Owns(q, k, i), Owns(q, l, i)
  PROVE  k = l
  BY DEF Owns

\* There is one newest batch.
LEMMA NewestOnce ==
  ASSUME NEW c, c.q \in Seq(Operation), NEW k, NEW l, Newest(c, k), Newest(c, l)
  PROVE  k = l
<1>1. k \in 1..Len(c.q) /\ l \in 1..Len(c.q) /\ Len(c.q) \in Nat  BY DEF Newest, Entered
<1>2. ~ (k < l)
  <2> SUFFICES ASSUME k < l PROVE FALSE  OBVIOUS
  <2>1. l \in (k + 1)..Len(c.q)  BY <1>1
  <2> QED BY <2>1 DEF Newest
<1>3. ~ (l < k)
  <2> SUFFICES ASSUME l < k PROVE FALSE  OBVIOUS
  <2>1. k \in (l + 1)..Len(c.q)  BY <1>1
  <2> QED BY <2>1 DEF Newest
<1> QED BY <1>1, <1>2, <1>3

\* Where a thread calls an operation on a batch, the batch is its newest
\* one; a plan that is started or destroyed is there and was synchronized.
LEMMA CalledOn ==
  ASSUME NEW c, c.q \in Seq(Operation), Lawful(c.q), c.a \in DOMAIN c.q, c.s = "begin",
         c.q[c.a] \notin Starting
  PROVE  \E k \in DOMAIN c.q :
           /\ Owns(c.q, k, c.a) /\ Newest(c, k) /\ k < c.a
           /\ c.q[c.a] \in {"start", "destroy"} => OpenPlan(c, k) /\ Synced(c, k)
<1> DEFINE q == c.q
           a == c.a
<1>1. PICK k \in 1..a :
        /\ Owns(q, k, a)
        /\ q[a] \in {"start", "destroy"} =>
             /\ q[k] = "create" /\ Settled(q, k, a)
             /\ \A m \in k..(a - 1) : q[m] # "destroy"
  BY DEF Lawful
<1>2. Len(q) \in Nat /\ DOMAIN q = 1..Len(q) /\ a \in 1..Len(q) /\ k \in 1..Len(q)  BY <1>1
<1>3. q[k] \in Starting /\ \A m \in (k + 1)..a : q[m] \notin Starting  BY <1>1 DEF Owns
<1>4. k # a  BY <1>3
<1>5. \A m : Entered(c, m) <=> m \in 1..Len(q) /\ m < a  BY <1>2 DEF Entered
<1> HIDE DEF q, a
<1>6. \A m : Entered(c, m) /\ m \in (k + 1)..Len(q) => m \in (k + 1)..a /\ m \in k..(a - 1)
  BY <1>2, <1>5
<1>7. Newest(c, k)
  <2>1. Entered(c, k)  BY <1>1, <1>2, <1>4, <1>5
  <2>2. \A m \in (k + 1)..Len(q) : Entered(c, m) => q[m] \notin Starting  BY <1>3, <1>6
  <2> QED BY <1>3, <2>1, <2>2 DEF Newest, q
<1>8. ASSUME q[a] \in {"start", "destroy"} PROVE OpenPlan(c, k) /\ Synced(c, k)
  <2>1. q[k] = "create" /\ Settled(q, k, a) /\ \A m \in k..(a - 1) : q[m] # "destroy"  BY <1>1, <1>8
  <2>2. \A m \in (k + 1)..Len(q) : Entered(c, m) => q[m] # "destroy"  BY <2>1, <1>6
  <2>3. OpenPlan(c, k)  BY <1>7, <2>1, <2>2 DEF OpenPlan, q
  <2>4. ASSUME NEW m \in k..Len(q), Entered(c, m), q[m] \in {"put", "start"}
        PROVE  \E l \in (m + 1)..(a - 1) : q[l] = "sync"
    <3>1. m \in k..(a - 1)  BY <2>4, <1>2, <1>5
    <3> QED BY <2>1, <2>4, <3>1 DEF Settled
  <2>5. Synced(c, k)  BY <1>7, <2>4 DEF Synced, q, a
  <2> QED BY <2>3, <2>5
<1> QED BY <1>1, <1>2, <1>4, <1>7, <1>8 DEF q, a

\* The newest batch owns the operation a thread is in.
LEMMA NewestOwner ==
  ASSUME NEW c, c.q \in Seq(Operation), c.a \in DOMAIN c.q, NEW k, Newest(c, k),
         c.s # "begin" \/ c.q[c.a] \notin Starting
  PROVE  Owns(c.q, k, c.a)
<1>1. Len(c.q) \in Nat /\ DOMAIN c.q = 1..Len(c.q) /\ c.a \in 1..Len(c.q)  OBVIOUS
<1>2. k \in 1..c.a /\ c.q[k] \in Starting  BY <1>1 DEF Newest, Entered
<1>3. \A m \in (k + 1)..c.a : m \in (k + 1)..Len(c.q) /\ (Entered(c, m) \/ (m = c.a /\ c.s = "begin"))
  BY <1>1, <1>2 DEF Entered
<1>4. \A m \in (k + 1)..c.a : c.q[m] \notin Starting  BY <1>3 DEF Newest
<1> QED BY <1>2, <1>4 DEF Owns

\* A put or create is entered.
LEMMA EnterStarting ==
  ASSUME NEW c, c.q \in Seq(Operation), c.a \in DOMAIN c.q, c.s \in {"sent", "append"},
         c.q[c.a] \in Starting, NEW k
  PROVE  /\ Newest(c, k) <=> k = c.a
         /\ OpenPlan(c, k) <=> k = c.a /\ c.q[c.a] = "create"
         /\ Synced(c, k) => k = c.a /\ c.q[c.a] = "create"
<1>1. Len(c.q) \in Nat /\ DOMAIN c.q = 1..Len(c.q) /\ c.a \in 1..Len(c.q)  OBVIOUS
<1>2. \A m : Entered(c, m) <=> m \in 1..Len(c.q) /\ m <= c.a  BY <1>1 DEF Entered
<1>3. Newest(c, c.a)  BY <1>1, <1>2 DEF Newest
<1>4. Newest(c, k) <=> k = c.a  BY <1>3, NewestOnce
<1>5. OpenPlan(c, k) <=> k = c.a /\ c.q[c.a] = "create"
  <2>1. \A m \in (c.a + 1)..Len(c.q) : ~ Entered(c, m)  BY <1>1, <1>2
  <2> QED BY <1>4, <2>1 DEF OpenPlan
<1>6. ASSUME Synced(c, k) PROVE k = c.a /\ c.q[c.a] = "create"
  <2>1. k = c.a  BY <1>4, <1>6 DEF Synced
  <2>2. c.a \in k..Len(c.q) /\ Entered(c, c.a)  BY <1>1, <1>2, <2>1
  <2>3. c.q[c.a] \in {"put", "start"} => \E l \in (c.a + 1)..(c.a - 1) : TRUE
    BY <1>6, <2>2 DEF Synced
  <2>4. c.q[c.a] # "put"  BY <1>1, <2>3
  <2> QED BY <2>1, <2>4 DEF Starting
<1> QED BY <1>4, <1>5, <1>6

\* A step inside of an operation enters none.
LEMMA StayEntered ==
  ASSUME NEW c, NEW d, c.q = d.q, c.a = d.a, c.s # "begin", d.s # "begin", NEW k
  PROVE  /\ (Entered(d, k) <=> Entered(c, k)) /\ (Newest(d, k) <=> Newest(c, k))
         /\ (Synced(d, k) <=> Synced(c, k))
         /\ (c.s \in {"untagged", "told"} <=> d.s \in {"untagged", "told"}) =>
              (OpenPlan(d, k) <=> OpenPlan(c, k))
<1>1. \A m : Entered(d, m) <=> Entered(c, m)  BY DEF Entered
<1>2. (Newest(d, k) <=> Newest(c, k))  BY <1>1 DEF Newest
<1>3. (Synced(d, k) <=> Synced(c, k))  BY <1>1, <1>2 DEF Synced
<1>4. ASSUME c.s \in {"untagged", "told"} <=> d.s \in {"untagged", "told"}
      PROVE  (OpenPlan(d, k) <=> OpenPlan(c, k))
  BY <1>1, <1>2, <1>4 DEF OpenPlan
<1> QED BY <1>1, <1>2, <1>3, <1>4

\* An operation on a batch made before is entered: a start ...
LEMMA EnterStart ==
  ASSUME NEW c, NEW d, c.q \in Seq(Operation), c.q = d.q, c.a = d.a, c.a \in DOMAIN c.q,
         c.s = "begin", d.s = "append", c.q[c.a] = "start", NEW k
  PROVE  /\ (Newest(d, k) <=> Newest(c, k)) /\ (OpenPlan(d, k) <=> OpenPlan(c, k))
         /\ ~ Synced(d, k)
<1>1. Len(c.q) \in Nat /\ DOMAIN c.q = 1..Len(c.q) /\ c.a \in 1..Len(c.q)  OBVIOUS
<1>2. \A m : Entered(d, m) <=> Entered(c, m) \/ m = c.a  BY <1>1 DEF Entered
<1>3. (Newest(d, k) <=> Newest(c, k))  BY <1>2 DEF Newest, Starting
<1>4. (OpenPlan(d, k) <=> OpenPlan(c, k))  BY <1>2, <1>3 DEF OpenPlan
<1>5. ~ Synced(d, k)
  <2> SUFFICES ASSUME Synced(d, k) PROVE FALSE  OBVIOUS
  <2>1. c.a \in k..Len(c.q) /\ Entered(d, c.a)  BY <1>1, <1>2 DEF Synced, Newest, Entered
  <2>2. \E l \in (c.a + 1)..(c.a - 1) : TRUE  BY <2>1 DEF Synced
  <2> QED BY <1>1, <2>2
<1> QED BY <1>3, <1>4, <1>5

\* ... or a destroy.
LEMMA EnterDestroy ==
  ASSUME NEW c, NEW d, c.q \in Seq(Operation), c.q = d.q, c.a = d.a, c.a \in DOMAIN c.q,
         c.s = "begin", d.s = "untagged", c.q[c.a] = "destroy", NEW k
  PROVE  /\ (Newest(d, k) <=> Newest(c, k)) /\ (OpenPlan(d, k) <=> OpenPlan(c, k))
         /\ (Synced(d, k) <=> Synced(c, k))
<1>1. Len(c.q) \in Nat /\ DOMAIN c.q = 1..Len(c.q) /\ c.a \in 1..Len(c.q)  OBVIOUS
<1>2. \A m : Entered(d, m) <=> Entered(c, m) \/ m = c.a  BY <1>1 DEF Entered
<1>a. ~ Entered(c, c.a)  BY <1>1 DEF Entered
<1>3. (Newest(d, k) <=> Newest(c, k))  BY <1>2 DEF Newest, Starting
<1>4. (OpenPlan(d, k) <=> OpenPlan(c, k))  BY <1>2, <1>3, <1>a DEF OpenPlan
<1>5. (Synced(d, k) <=> Synced(c, k))  BY <1>2, <1>3 DEF Synced
<1> QED BY <1>3, <1>4, <1>5

\* The plan is gone when its batch ids went back.
LEMMA PlanGone ==
  ASSUME NEW d, d.q \in Seq(Operation), Lawful(d.q), d.a \in DOMAIN d.q, d.s = "append",
         d.q[d.a] = "destroy", NEW k
  PROVE  ~ OpenPlan(d, k)
<1> SUFFICES ASSUME OpenPlan(d, k) PROVE FALSE  OBVIOUS
<1>1. Len(d.q) \in Nat /\ DOMAIN d.q = 1..Len(d.q) /\ d.a \in 1..Len(d.q)  OBVIOUS
<1>2. k \in 1..d.a /\ d.q[k] = "create"  BY <1>1 DEF OpenPlan, Newest, Entered
<1>3. d.a \in (k + 1)..Len(d.q) /\ Entered(d, d.a)  BY <1>1, <1>2 DEF Entered
<1> QED BY <1>3 DEF OpenPlan

\* An operation is over.
LEMMA OperationOver ==
  ASSUME NEW c, NEW d, c.q \in Seq(Operation), c.q = d.q, d.a = c.a + 1, c.a \in DOMAIN c.q,
         d.s = "begin", NEW k,
         \/ c.s = "append" /\ c.q[c.a] # "sync"
         \/ c.s = "begin" /\ c.q[c.a] \in {"wait", "sync"}
  PROVE  /\ (Newest(d, k) <=> Newest(c, k)) /\ (OpenPlan(d, k) <=> OpenPlan(c, k))
         /\ c.q[c.a] # "sync" => (Synced(d, k) <=> Synced(c, k))
         /\ \A m : Entered(c, m) => Entered(d, m)
<1>1. Len(c.q) \in Nat /\ DOMAIN c.q = 1..Len(c.q) /\ c.a \in 1..Len(c.q)  OBVIOUS
<1>2. \A m : Entered(d, m) <=> Entered(c, m) \/ m = c.a  BY <1>1 DEF Entered
<1>3. CASE c.s = "append" /\ c.q[c.a] # "sync"
  <2>1. \A m : Entered(d, m) <=> Entered(c, m)  BY <1>1, <1>3 DEF Entered
  <2>2. (Newest(d, k) <=> Newest(c, k))  BY <2>1 DEF Newest
  <2>3. (OpenPlan(d, k) <=> OpenPlan(c, k))  BY <1>3, <2>1, <2>2 DEF OpenPlan
  <2>4. \A l : l \in Int /\ l <= c.a /\ c.q[l] = "sync" => l <= c.a - 1  BY <1>1, <1>3
  <2>5. (Synced(d, k) <=> Synced(c, k))  BY <1>1, <2>1, <2>2, <2>4 DEF Synced
  <2> QED BY <2>1, <2>2, <2>3, <2>5
<1>4. CASE c.s = "begin" /\ c.q[c.a] \in {"wait", "sync"}
  <2>2. (Newest(d, k) <=> Newest(c, k))  BY <1>2, <1>4 DEF Newest, Starting
  <2>3. (OpenPlan(d, k) <=> OpenPlan(c, k))  BY <1>2, <1>4, <2>2 DEF OpenPlan
  <2>4. c.q[c.a] # "sync" => \A l : l \in Int /\ l <= c.a /\ c.q[l] = "sync" => l <= c.a - 1
    BY <1>1
  <2>5. c.q[c.a] # "sync" => (Synced(d, k) <=> Synced(c, k))
    BY <1>1, <1>2, <1>4, <2>2, <2>4 DEF Synced
  <2> QED BY <1>2, <2>2, <2>3, <2>5
<1> QED BY <1>3, <1>4

---------------------------------------------------------------------------
(* Batches, writes and pools.                                              *)

\* What a batch is named by.
LEMMA BatchKeyIs ==
  /\ \A b \in BatchKey : b = <<b[1], b[2]>> /\ b[1] \in User /\ b[2] \in Nat
  /\ \A p \in Progs, u \in User : \A k \in DOMAIN p[u] :
       p[u][k] \in Starting => <<u, k>> \in BatchKey
<1>1. ASSUME NEW b \in BatchKey PROVE b = <<b[1], b[2]>> /\ b[1] \in User /\ b[2] \in Nat
  <2>1. PICK p \in Progs, u \in User : \E k \in DOMAIN p[u] : b = <<u, k>>  BY DEF BatchKey
  <2>2. p[u] \in Seq(Operation)  BY ChannelAssumption
  <2> QED BY <2>1, <2>2
<1>2. ASSUME NEW p \in Progs, NEW u \in User, NEW k \in DOMAIN p[u], p[u][k] \in Starting
      PROVE  <<u, k>> \in BatchKey
  <2> DEFINE K(q, v) == {<<v, i>> : i \in {i \in DOMAIN q[v] : q[v][i] \in Starting}}
  <2>1. <<u, k>> \in K(p, u)  BY <1>2
  <2>2. BatchKey = UNION {K(q, v) : q \in Progs, v \in User}  BY DEF BatchKey
  <2> HIDE DEF K
  <2> QED BY <2>1, <2>2
<1> QED BY <1>1, <1>2

\* What a write is named by.
LEMMA WriteIs ==
  /\ \A w \in Write :
       /\ w = <<w[1], w[2], w[3]>> /\ w[1] \in BatchKey /\ w[2] \in Piece(w[1][1])
       /\ w[3] \in Nat \ {0} /\ w[1][1] \in User
  /\ \A p \in Progs, u \in User : \A k, n \in DOMAIN p[u] : \A j \in Piece(u) :
       p[u][k] \in Starting => <<<<u, k>>, j, n>> \in Write
<1>1. ASSUME NEW w \in Write
      PROVE  /\ w = <<w[1], w[2], w[3]>> /\ w[1] \in BatchKey /\ w[2] \in Piece(w[1][1])
             /\ w[3] \in Nat \ {0} /\ w[1][1] \in User
  <2>1. PICK p \in Progs, u \in User : w \in
              {<<<<u, k>>, j, n>> : k \in {k \in DOMAIN p[u] : p[u][k] \in Starting},
                                    j \in Piece(u), n \in DOMAIN p[u]}
    BY DEF Write
  <2>2. PICK k \in DOMAIN p[u], j \in Piece(u), n \in DOMAIN p[u] :
          p[u][k] \in Starting /\ w = <<<<u, k>>, j, n>>
    BY <2>1
  <2>3. p[u] \in Seq(Operation)  BY ChannelAssumption
  <2>4. <<u, k>> \in BatchKey  BY <2>2, BatchKeyIs
  <2> QED BY <2>2, <2>3, <2>4
<1>2. ASSUME NEW p \in Progs, NEW u \in User, NEW k \in DOMAIN p[u], NEW n \in DOMAIN p[u],
             NEW j \in Piece(u), p[u][k] \in Starting
      PROVE  <<<<u, k>>, j, n>> \in Write
  <2> DEFINE K(q, v) == {<<<<v, i>>, l, m>> : i \in {i \in DOMAIN q[v] : q[v][i] \in Starting},
                                              l \in Piece(v), m \in DOMAIN q[v]}
  <2>1. <<<<u, k>>, j, n>> \in K(p, u)  BY <1>2
  <2>2. Write = UNION {K(q, v) : q \in Progs, v \in User}  BY DEF Write
  <2> HIDE DEF K
  <2> QED BY <2>1, <2>2
<1> QED BY <1>1, <1>2

\* The pieces of a batch and their targets.
LEMMA BatchIs ==
  ASSUME NEW u \in User
  PROVE  /\ Batch[u] \in Seq(Rank) /\ Home[u] \in Rank /\ Len(Batch[u]) \in Nat
         /\ Piece(u) = 1..Len(Batch[u]) /\ \A j \in Piece(u) : Batch[u][j] \in Rank
         /\ \A d : d \in Target(u) <=> \E j \in Piece(u) : Batch[u][j] = d
         /\ Target(u) \subseteq Rank
<1>1. Batch[u] \in Seq(Rank) /\ Home[u] \in Rank  BY ChannelAssumption
<1>2. /\ Len(Batch[u]) \in Nat /\ Piece(u) = 1..Len(Batch[u])
      /\ \A j \in Piece(u) : Batch[u][j] \in Rank
  BY <1>1 DEF Piece
<1>3. \A d : d \in Target(u) <=> \E j \in Piece(u) : Batch[u][j] = d  BY DEF Target, Piece, Range
<1> QED BY <1>1, <1>2, <1>3

\* The pieces for a rank are listed once each, in order.
LEMMA PiecesToIs ==
  ASSUME NEW u \in User, NEW d
  PROVE  /\ IsFiniteSet(PiecesFor(u, d)) /\ Len(PiecesTo(u, d)) = Cardinality(PiecesFor(u, d))
         /\ PiecesTo(u, d) \in Seq(Nat) /\ Len(PiecesTo(u, d)) \in Nat
         /\ DOMAIN PiecesTo(u, d) = 1..Len(PiecesTo(u, d))
         /\ \A i \in DOMAIN PiecesTo(u, d) :
              PiecesTo(u, d)[i] \in Piece(u) /\ Batch[u][PiecesTo(u, d)[i]] = d
         /\ \A i, k \in DOMAIN PiecesTo(u, d) : PiecesTo(u, d)[i] = PiecesTo(u, d)[k] => i = k
         /\ \A j \in Piece(u) : Batch[u][j] = d => \E i \in DOMAIN PiecesTo(u, d) : PiecesTo(u, d)[i] = j
<1> DEFINE I == PiecesFor(u, d)
           m == Cardinality(I)
           S == PiecesTo(u, d)
<1>1. I \in SUBSET (1..Len(Batch[u])) /\ Len(Batch[u]) \in Nat  BY BatchIs DEF PiecesFor
<1>2. IsFiniteSet(I) /\ I \in SUBSET Nat
  <2>1. IsFiniteSet(1..Len(Batch[u]))  BY <1>1, FS_Interval
  <2>2. \A i \in 1..Len(Batch[u]) : i \in Nat  BY <1>1
  <2> HIDE DEF I
  <2> QED BY <1>1, <2>1, <2>2, FS_Subset
<1>3. S = Ordered(I)  BY DEF PiecesTo, PiecesFor
<1> HIDE DEF I, S
<1>4. /\ m \in Nat /\ S \in [1..m -> I]
      /\ \A j, k \in 1..m : j < k => S[j] < S[k]
      /\ \A i \in I : \E k \in 1..m : S[k] = i
  BY <1>2, <1>3, OrderedLists
<1> HIDE DEF m
<1>5. \A i \in 1..m : S[i] \in I /\ S[i] \in Nat  BY <1>2, <1>4
<1>6. S \in Seq(Nat) /\ Len(S) = m /\ DOMAIN S = 1..m
  <2>1. S \in [1..m -> Nat]  BY <1>4, <1>5
  <2> QED BY <1>4, <2>1
<1>7. \A i, k \in 1..m : S[i] = S[k] => i = k
  <2> SUFFICES ASSUME NEW i \in 1..m, NEW k \in 1..m, S[i] = S[k] PROVE i = k  OBVIOUS
  <2>1. ~ (i < k) /\ ~ (k < i)  BY <1>4, <1>5
  <2> QED BY <2>1, <1>4
<1>8. \A i \in 1..m : S[i] \in Piece(u) /\ Batch[u][S[i]] = d  BY <1>5 DEF I, PiecesFor
<1>9. \A j \in Piece(u) : Batch[u][j] = d => j \in I  BY DEF I, PiecesFor
<1> QED BY <1>2, <1>4, <1>6, <1>7, <1>8, <1>9 DEF I, S, m

\* Numbers that are taken were not out, are out now, and differ.
LEMMA TakenIs ==
  ASSUME NEW pool, PoolOK(pool), NEW n \in Nat
  PROVE  /\ PoolOK(AfterTaking(pool, n))
         /\ \A x : Out(pool, x) => Out(AfterTaking(pool, n), x)
         /\ \A i \in 1..n :
              /\ Taken(pool, n)[i] \in Nat /\ ~ Out(pool, Taken(pool, n)[i])
              /\ Out(AfterTaking(pool, n), Taken(pool, n)[i])
         /\ \A i, k \in 1..n : Taken(pool, n)[i] = Taken(pool, n)[k] => i = k
<1> DEFINE F == pool.free
           f == Len(F)
           M == pool.max
           back == IF n < f THEN n ELSE f
           G == SubSeq(F, 1, f - back)
           pool2 == AfterTaking(pool, n)
           t == Taken(pool, n)
<1>1. /\ F \in Seq(Nat) /\ M \in Nat \ {0} /\ f \in Nat /\ DOMAIN F = 1..f
      /\ \A i \in 1..f : F[i] \in 1..(M - 1)
      /\ \A i, k \in 1..f : F[i] = F[k] => i = k
  BY DEF PoolOK
<1>2. back \in Nat /\ back <= f /\ back <= n /\ (back = n \/ back = f)  BY <1>1
<1>3. pool2 = [free |-> G, max |-> M + n - back]  BY DEF AfterTaking
<1>4. \A i \in 1..n : t[i] = IF i <= f THEN F[f + 1 - i] ELSE M + i - f - 1  BY DEF Taken
<1> HIDE DEF f, back, F, M, t
<1>5. G \in Seq(Nat) /\ Len(G) = f - back /\ \A i \in 1..(f - back) : G[i] = F[i]
  <2>1. f - back \in Int /\ f - back >= 0 /\ f - back <= f  BY <1>1, <1>2
  <2>2. \A i \in 1..(f - back) : F[i] \in Nat  BY <1>1, <2>1
  <2> DEFINE e == f - back
  <2> HIDE DEF e
  <2>3. /\ SubSeq(F, 1, e) \in Seq(Nat) /\ Len(SubSeq(F, 1, e)) = IF 1 <= e THEN e - 1 + 1 ELSE 0
        /\ \A i \in 1..(e - 1 + 1) : SubSeq(F, 1, e)[i] = F[1 + i - 1]
    BY <2>1, <2>2, SubSeqProperties DEF e
  <2>4. e \in Int /\ e >= 0 /\ G = SubSeq(F, 1, e)  BY <2>1 DEF e
  <2> HIDE DEF G
  <2>5. G \in Seq(Nat) /\ Len(G) = e /\ \A i \in 1..e : G[i] = F[i]  BY <2>3, <2>4
  <2> QED BY <2>5 DEF e
<1> HIDE DEF G, pool2
<1>6. /\ pool2.free = G /\ pool2.max = M + n - back /\ DOMAIN G = 1..(f - back)
      /\ pool2.max \in Nat \ {0} /\ M <= pool2.max
  BY <1>1, <1>2, <1>3, <1>5
<1>7. PoolOK(pool2)
  <2>1. pool2 \in [max : Nat \ {0}, free : Seq(Nat)]  BY <1>3, <1>5, <1>6
  <2>2. \A i \in 1..(f - back) : i \in 1..f  BY <1>1, <1>2
  <2>3. \A i \in DOMAIN G : G[i] \in 1..(pool2.max - 1)  BY <1>1, <1>5, <1>6, <2>2
  <2> QED BY <1>1, <1>5, <1>6, <2>1, <2>2, <2>3 DEF PoolOK
<1>8. \A x : Out(pool, x) => Out(pool2, x)
  <2>1. \A i \in 1..(f - back) : i \in 1..f  BY <1>1, <1>2
  <2>2. \A x \in 1..(M - 1) : x \in 1..(pool2.max - 1)  BY <1>1, <1>6
  <2> QED BY <1>1, <1>5, <1>6, <2>1, <2>2 DEF Out, F, M
<1>9. ASSUME NEW i \in 1..n PROVE t[i] \in Nat /\ ~ Out(pool, t[i]) /\ Out(pool2, t[i])
  <2>1. CASE i <= f
    <3>1. f + 1 - i \in 1..f /\ t[i] = F[f + 1 - i] /\ i <= back  BY <2>1, <1>1, <1>2, <1>4
    <3>2. t[i] \in 1..(M - 1) /\ ~ Out(pool, t[i])  BY <1>1, <3>1 DEF Out, F
    <3>3. \A k \in 1..(f - back) : k \in 1..f /\ k # f + 1 - i  BY <1>1, <1>2, <3>1
    <3>4. \A k \in 1..(f - back) : G[k] # t[i]  BY <1>1, <1>5, <3>1, <3>3
    <3>5. t[i] \in Nat /\ t[i] \in 1..(pool2.max - 1)  BY <1>1, <1>6, <3>2
    <3> QED BY <1>6, <3>2, <3>4, <3>5 DEF Out
  <2>2. CASE ~ (i <= f)
    <3>1. t[i] = M + i - f - 1 /\ back = f  BY <2>2, <1>1, <1>2, <1>4
    <3>2. t[i] \in Nat /\ ~ (t[i] <= M - 1) /\ t[i] \in 1..(pool2.max - 1)
      BY <2>2, <3>1, <1>1, <1>2, <1>6
    <3>3. ~ Out(pool, t[i])  BY <3>2, <1>1 DEF Out, M
    <3>4. DOMAIN pool2.free = {}  BY <1>1, <1>6, <3>1
    <3>5. Out(pool2, t[i])  BY <3>2, <3>4 DEF Out
    <3> QED BY <3>2, <3>3, <3>5
  <2> QED BY <2>1, <2>2
<1>10. ASSUME NEW i \in 1..n, NEW k \in 1..n, t[i] = t[k] PROVE i = k
  <2>1. CASE i <= f /\ k <= f
    <3>1. f + 1 - i \in 1..f /\ f + 1 - k \in 1..f /\ t[i] = F[f + 1 - i] /\ t[k] = F[f + 1 - k]
      BY <2>1, <1>1, <1>4
    <3>2. f + 1 - i = f + 1 - k  BY <1>1, <1>10, <3>1
    <3> QED BY <3>2, <1>1
  <2>2. CASE ~ (i <= f) /\ ~ (k <= f)  BY <2>2, <1>1, <1>4, <1>10
  <2>3. CASE i <= f /\ ~ (k <= f)
    <3>1. f + 1 - i \in 1..f /\ t[i] = F[f + 1 - i] /\ t[k] = M + k - f - 1  BY <2>3, <1>1, <1>4
    <3>2. t[i] <= M - 1 /\ t[k] > M - 1  BY <3>1, <2>3, <1>1
    <3> QED BY <3>2, <1>1, <1>9, <1>10
  <2>4. CASE ~ (i <= f) /\ k <= f
    <3>1. f + 1 - k \in 1..f /\ t[k] = F[f + 1 - k] /\ t[i] = M + i - f - 1  BY <2>4, <1>1, <1>4
    <3>2. t[k] <= M - 1 /\ t[i] > M - 1  BY <3>1, <2>4, <1>1
    <3> QED BY <3>2, <1>1, <1>9, <1>10
  <2> QED BY <2>1, <2>2, <2>3, <2>4
<1> QED BY <1>7, <1>8, <1>9, <1>10 DEF pool2, t

\* The numbers taken first do not depend on how many are taken.
LEMMA TakenSame ==
  ASSUME NEW pool, NEW m \in Nat, NEW n \in Nat, NEW c \in 1..m, c \in 1..n
  PROVE  Taken(pool, m)[c] = Taken(pool, n)[c]
  BY DEF Taken

\* Numbers that are given back.
LEMMA ReturnedIs ==
  ASSUME NEW pool, PoolOK(pool), NEW S \in Seq(Nat),
         \A i \in DOMAIN S : Out(pool, S[i]),
         \A i, k \in DOMAIN S : S[i] = S[k] => i = k
  PROVE  /\ PoolOK(Returned(pool, S))
         /\ \A x : Out(Returned(pool, S), x) <=> Out(pool, x) /\ \A i \in DOMAIN S : S[i] # x
<1> DEFINE F == pool.free
           G == F \o S
           pool2 == Returned(pool, S)
<1>1. /\ F \in Seq(Nat) /\ pool.max \in Nat \ {0}
      /\ \A i \in DOMAIN F : F[i] \in 1..(pool.max - 1)
      /\ \A i, k \in DOMAIN F : F[i] = F[k] => i = k
      /\ pool \in [max : Nat \ {0}, free : Seq(Nat)]
  BY DEF PoolOK
<1>2. pool2.max = pool.max /\ pool2.free = G /\ pool2 = [max |-> pool.max, free |-> G]
  <2>1. pool2 = [pool EXCEPT !.free = G]  BY DEF Returned
  <2>2. pool = [max |-> pool.max, free |-> pool.free]  BY <1>1
  <2> HIDE DEF G, pool2
  <2> QED BY <2>1, <2>2
<1> HIDE DEF F
<1>3. /\ G \in Seq(Nat) /\ Len(G) = Len(F) + Len(S)
      /\ DOMAIN F = 1..Len(F) /\ DOMAIN S = 1..Len(S) /\ Len(F) \in Nat /\ Len(S) \in Nat
      /\ \A k \in DOMAIN F : k \in DOMAIN G /\ G[k] = F[k]
      /\ \A x \in DOMAIN S : Len(F) + x \in DOMAIN G /\ G[Len(F) + x] = S[x]
      /\ \A k \in DOMAIN G : k \in DOMAIN F \/ \E x \in DOMAIN S : k = Len(F) + x
  BY <1>1, Joined
<1> HIDE DEF G, pool2
<1>4. \A x \in DOMAIN S : S[x] \in 1..(pool.max - 1) /\ \A i \in DOMAIN F : F[i] # S[x]
  BY DEF Out, F
<1>5. ASSUME NEW i \in DOMAIN G PROVE G[i] \in 1..(pool.max - 1)
  <2>1. CASE i \in DOMAIN F  BY <2>1, <1>1, <1>3
  <2>2. CASE \E x \in DOMAIN S : i = Len(F) + x  BY <2>2, <1>3, <1>4
  <2> QED BY <1>3, <2>1, <2>2
<1>6. \A i, k \in DOMAIN G : G[i] = G[k] => i = k
  <2> SUFFICES ASSUME NEW i \in DOMAIN G, NEW k \in DOMAIN G, G[i] = G[k] PROVE i = k  OBVIOUS
  <2>1. CASE i \in DOMAIN F /\ k \in DOMAIN F  BY <2>1, <1>1, <1>3
  <2>2. CASE i \in DOMAIN F /\ \E x \in DOMAIN S : k = Len(F) + x  BY <2>2, <1>3, <1>4
  <2>3. CASE k \in DOMAIN F /\ \E x \in DOMAIN S : i = Len(F) + x  BY <2>3, <1>3, <1>4
  <2>4. CASE (\E x \in DOMAIN S : k = Len(F) + x) /\ \E x \in DOMAIN S : i = Len(F) + x
    BY <2>4, <1>3
  <2> QED BY <1>3, <2>1, <2>2, <2>3, <2>4
<1>7. PoolOK(pool2)  BY <1>1, <1>2, <1>3, <1>5, <1>6 DEF PoolOK
<1>8. ASSUME NEW x
      PROVE  Out(pool2, x) <=> Out(pool, x) /\ \A i \in DOMAIN S : S[i] # x
  <2>1. (\A i \in DOMAIN G : G[i] # x) => (\A i \in DOMAIN F : F[i] # x) /\ \A i \in DOMAIN S : S[i] # x
    <3>1. \A i \in DOMAIN F : G[i] = F[i] /\ i \in DOMAIN G  BY <1>3
    <3>2. \A i \in DOMAIN S : G[Len(F) + i] = S[i] /\ Len(F) + i \in DOMAIN G  BY <1>3
    <3> QED BY <3>1, <3>2, Zenon
  <2>2. ASSUME \A i \in DOMAIN F : F[i] # x, \A i \in DOMAIN S : S[i] # x, NEW i \in DOMAIN G
        PROVE  G[i] # x
    <3>1. CASE i \in DOMAIN F  BY <3>1, <2>2, <1>3
    <3>2. CASE \E y \in DOMAIN S : i = Len(F) + y
      <4>1. PICK y \in DOMAIN S : i = Len(F) + y  BY <3>2
      <4>2. G[i] = S[y]  BY <4>1, <1>3
      <4> QED BY <2>2, <4>2
    <3> QED BY <1>3, <3>1, <3>2
  <2>3. (\A i \in DOMAIN F : F[i] # x) /\ (\A i \in DOMAIN S : S[i] # x) => \A i \in DOMAIN G : G[i] # x
    BY <2>2
  <2>4. /\ Out(pool2, x) <=> x \in 1..(pool.max - 1) /\ \A i \in DOMAIN G : G[i] # x
        /\ Out(pool, x) <=> x \in 1..(pool.max - 1) /\ \A i \in DOMAIN F : F[i] # x
    BY <1>2 DEF Out, F
  <2> QED BY <2>1, <2>3, <2>4
<1> QED BY <1>7, <1>8 DEF pool2

\* The tags a batch takes from the pools of its targets.
LEMMA TagsTakenIs ==
  ASSUME NEW u \in User, DOMAIN tagPool = Pair, \A p \in Pair : PoolOK(tagPool[p])
  PROVE  /\ TagsTaken(u) \in [Piece(u) -> Nat]
         /\ \A j \in Piece(u) :
              /\ ~ Out(tagPool[<<Home[u], Batch[u][j]>>], TagsTaken(u)[j])
              /\ Out(TagPoolAfterTaking(u)[<<Home[u], Batch[u][j]>>], TagsTaken(u)[j])
         /\ \A j, l \in Piece(u) :
              Batch[u][j] = Batch[u][l] /\ TagsTaken(u)[j] = TagsTaken(u)[l] => j = l
         /\ DOMAIN TagPoolAfterTaking(u) = Pair
         /\ \A p \in Pair :
              /\ PoolOK(TagPoolAfterTaking(u)[p])
              /\ \A x : Out(tagPool[p], x) => Out(TagPoolAfterTaking(u)[p], x)
<1> DEFINE c(d, j) == Cardinality({i \in 1..j : Batch[u][i] = d})
           ts == TagsTaken(u)
           tp == TagPoolAfterTaking(u)
           n(d) == Len(PiecesTo(u, d))
<1>1. /\ Home[u] \in Rank /\ Piece(u) = 1..Len(Batch[u]) /\ Len(Batch[u]) \in Nat
      /\ \A j \in Piece(u) : Batch[u][j] \in Rank
  BY BatchIs
<1>2. \A d : n(d) \in Nat  BY PiecesToIs
<1>3. \A d : \A j \in Piece(u) : IsFiniteSet({i \in 1..j : Batch[u][i] = d}) /\ c(d, j) \in Nat /\ c(d, j) <= j
  <2> TAKE d
  <2> TAKE j \in Piece(u)
  <2>1. IsFiniteSet(1..j) /\ Cardinality(1..j) = j /\ j \in Nat  BY <1>1, FS_Interval
  <2> DEFINE A == {i \in 1..j : Batch[u][i] = d}
  <2>2. A \in SUBSET (1..j)  OBVIOUS
  <2> HIDE DEF A
  <2>3. IsFiniteSet(A) /\ Cardinality(A) \in Nat /\ Cardinality(A) <= j
    BY <2>1, <2>2, FS_Subset, FS_CardinalityType
  <2> QED BY <2>3 DEF A
<1>4. \A d : \A j \in Piece(u) : Batch[u][j] = d => c(d, j) >= 1 /\ c(d, j) <= n(d)
  <2> TAKE d
  <2> TAKE j \in Piece(u)
  <2> DEFINE A == {i \in 1..j : Batch[u][i] = d}
             B == PiecesFor(u, d)
  <2>1. Batch[u][j] = d => j \in A  BY <1>1
  <2>2. A \in SUBSET B  BY <1>1 DEF PiecesFor
  <2>3. IsFiniteSet(A) /\ Cardinality(A) \in Nat  BY <1>3
  <2>4. IsFiniteSet(B) /\ n(d) = Cardinality(B)  BY PiecesToIs
  <2>5. c(d, j) = Cardinality(A)  OBVIOUS
  <2> HIDE DEF A, B, c
  <2>6. Cardinality(A) <= Cardinality(B)  BY <2>2, <2>4, FS_Subset
  <2>7. A # {} => Cardinality(A) # 0  BY <2>3, FS_EmptySet
  <2> QED BY <2>1, <2>3, <2>4, <2>5, <2>6, <2>7
<1>5. \A d : \A j, l \in Piece(u) : Batch[u][j] = d /\ Batch[u][l] = d /\ j < l => c(d, j) < c(d, l)
  <2> TAKE d
  <2> SUFFICES ASSUME NEW j \in Piece(u), NEW l \in Piece(u), Batch[u][j] = d, Batch[u][l] = d, j < l
               PROVE  c(d, j) < c(d, l)
    OBVIOUS
  <2> DEFINE A(i) == {x \in 1..i : Batch[u][x] = d}
  <2>1. A(j) \in SUBSET A(l) /\ l \in A(l) /\ l \notin A(j)  BY <1>1
  <2>2. IsFiniteSet(A(l)) /\ Cardinality(A(l)) \in Nat /\ Cardinality(A(j)) \in Nat  BY <1>3
  <2>3. c(d, j) = Cardinality(A(j)) /\ c(d, l) = Cardinality(A(l))  OBVIOUS
  <2> HIDE DEF A, c
  <2>4. Cardinality(A(j)) <= Cardinality(A(l)) /\ (Cardinality(A(l)) = Cardinality(A(j)) => A(l) = A(j))
    BY <2>1, <2>2, FS_Subset
  <2> QED BY <2>1, <2>2, <2>3, <2>4
<1>6. DOMAIN ts = Piece(u) /\ \A j \in Piece(u) : ts[j] = Taken(tagPool[<<Home[u], Batch[u][j]>>], j)[c(Batch[u][j], j)]
  BY DEF TagsTaken
<1>7. DOMAIN tp = Pair /\ \A p \in Pair : tp[p] = IF p[1] = Home[u] THEN AfterTaking(tagPool[p], n(p[2])) ELSE tagPool[p]
  BY DEF TagPoolAfterTaking
<1> HIDE DEF c, ts, tp, n
<1>8. ASSUME NEW j \in Piece(u)
      PROVE  LET d == Batch[u][j]
                 p == <<Home[u], d>>
             IN  /\ p \in Pair /\ tp[p] = AfterTaking(tagPool[p], n(d)) /\ PoolOK(tagPool[p])
                 /\ c(d, j) \in 1..n(d) /\ ts[j] = Taken(tagPool[p], n(d))[c(d, j)]
  <2> DEFINE d == Batch[u][j]
             p == <<Home[u], d>>
  <2>1. p \in Pair /\ p[1] = Home[u] /\ p[2] = d  BY <1>1 DEF Pair
  <2>2. c(d, j) \in 1..n(d) /\ c(d, j) \in 1..j /\ j \in Nat /\ n(d) \in Nat
    <3>1. j \in Nat /\ n(d) \in Nat  BY <1>1, <1>2
    <3>2. c(d, j) \in Nat /\ c(d, j) <= j /\ c(d, j) >= 1 /\ c(d, j) <= n(d)  BY <1>3, <1>4
    <3> QED BY <3>1, <3>2
  <2>3. tp[p] = AfterTaking(tagPool[p], n(d))  BY <1>7, <2>1
  <2>4. ts[j] = Taken(tagPool[p], j)[c(d, j)]  BY <1>6
  <2> HIDE DEF p, d
  <2>5. Taken(tagPool[p], j)[c(d, j)] = Taken(tagPool[p], n(d))[c(d, j)]  BY <2>2, TakenSame
  <2> QED BY <2>1, <2>2, <2>3, <2>4, <2>5 DEF p, d
<1>9. \A j \in Piece(u) :
        /\ ts[j] \in Nat
        /\ ~ Out(tagPool[<<Home[u], Batch[u][j]>>], ts[j])
        /\ Out(tp[<<Home[u], Batch[u][j]>>], ts[j])
  <2> TAKE j \in Piece(u)
  <2> DEFINE p == <<Home[u], Batch[u][j]>>
             m == n(Batch[u][j])
             i == c(Batch[u][j], j)
  <2>1. /\ m \in Nat /\ PoolOK(tagPool[p]) /\ i \in 1..m
        /\ tp[p] = AfterTaking(tagPool[p], m) /\ ts[j] = Taken(tagPool[p], m)[i]
    BY <1>2, <1>8
  <2> HIDE DEF p, m, i
  <2>2. /\ Taken(tagPool[p], m)[i] \in Nat /\ ~ Out(tagPool[p], Taken(tagPool[p], m)[i])
        /\ Out(AfterTaking(tagPool[p], m), Taken(tagPool[p], m)[i])
    BY <2>1, TakenIs
  <2> QED BY <2>1, <2>2 DEF p
<1>10. ASSUME NEW j \in Piece(u), NEW l \in Piece(u), Batch[u][j] = Batch[u][l], ts[j] = ts[l]
       PROVE  j = l
  <2> DEFINE d == Batch[u][j]
  <2>1. c(d, j) = c(d, l)
    <3> DEFINE pool == tagPool[<<Home[u], d>>]
    <3>1. /\ PoolOK(pool) /\ n(d) \in Nat /\ c(d, j) \in 1..n(d) /\ c(d, l) \in 1..n(d)
          /\ Taken(pool, n(d))[c(d, j)] = Taken(pool, n(d))[c(d, l)]
      BY <1>2, <1>8, <1>10
    <3> HIDE DEF pool, d
    <3> QED BY <3>1, TakenIs
  <2>2. c(d, j) \in Nat /\ c(d, l) \in Nat /\ Batch[u][j] = d /\ Batch[u][l] = d  BY <1>3, <1>10
  <2> HIDE DEF d
  <2>3. (j < l => c(d, j) < c(d, l)) /\ (l < j => c(d, l) < c(d, j))  BY <1>5, <2>2
  <2> QED BY <1>1, <2>1, <2>2, <2>3
<1>11. ASSUME NEW p \in Pair
       PROVE  PoolOK(tp[p]) /\ \A x : Out(tagPool[p], x) => Out(tp[p], x)
  <2>1. CASE p[1] = Home[u]  BY <1>2, <1>7, <2>1, TakenIs
  <2>2. CASE p[1] # Home[u]  BY <1>7, <2>2
  <2> QED BY <2>1, <2>2
<1>12. ts \in [Piece(u) -> Nat]
  <2>1. ts = [j \in Piece(u) |-> ts[j]]  BY DEF ts, TagsTaken
  <2> QED BY <1>9, <2>1
<1> QED BY <1>7, <1>9, <1>10, <1>11, <1>12 DEF ts, tp

\* The batch of an operation.
LEMMA MineIs ==
  ASSUME NEW u, NEW k, prog[u] \in Seq(Operation), at[u] \in Nat, Owns(prog[u], k, at[u])
  PROVE  Mine(u) = <<u, k>>
<1>1. k \in 1..at[u]  BY DEF Owns
<1>2. \A l \in 1..at[u] : Owns(prog[u], l, at[u]) => l = k  BY OwnsOnce
<1> QED BY <1>1, <1>2 DEF Mine

\* What is sent to, and to be received by, one target.
LEMMA OpsIs ==
  ASSUME NEW u \in User, NEW k, Mine(u) = <<u, k>>, <<u, k>> \in BatchKey, NEW n \in Nat, NEW d,
         NEW ts \in [Piece(u) -> Nat]
  PROVE  /\ Ops(u, d, n, ts) \in Seq(OpType)
         /\ DOMAIN Ops(u, d, n, ts) = DOMAIN PiecesTo(u, d)
         /\ \A i \in DOMAIN PiecesTo(u, d) : Ops(u, d, n, ts)[i] = Op(u, k, PiecesTo(u, d)[i], n, ts)
         /\ Elements(Ops(u, d, n, ts)) = {Op(u, k, j, n, ts) : j \in PiecesFor(u, d)}
         /\ (\A j, l \in Piece(u) : Batch[u][j] = Batch[u][l] /\ ts[j] = ts[l] => j = l) =>
              Several(Ops(u, d, n, ts))
<1> DEFINE S == Ops(u, d, n, ts)
           Q == PiecesTo(u, d)
<1>1. /\ Q \in Seq(Nat) /\ Len(Q) \in Nat /\ DOMAIN Q = 1..Len(Q)
      /\ \A i \in DOMAIN Q : Q[i] \in Piece(u) /\ Batch[u][Q[i]] = d
      /\ \A i, l \in DOMAIN Q : Q[i] = Q[l] => i = l
      /\ \A j \in Piece(u) : Batch[u][j] = d => \E i \in DOMAIN Q : Q[i] = j
  BY PiecesToIs
<1>2. S = [i \in DOMAIN Q |-> [w |-> <<<<u, k>>, Q[i], n>>, tag |-> ts[Q[i]]]]  BY DEF Ops
<1> HIDE DEF S, Q
<1>3. DOMAIN S = DOMAIN Q /\ \A i \in DOMAIN Q : S[i] = Op(u, k, Q[i], n, ts)  BY <1>2 DEF Op
<1>4. \A i \in DOMAIN Q : S[i] \in OpType
  <2> TAKE i \in DOMAIN Q
  <2>1. Q[i] \in Nat /\ ts[Q[i]] \in Nat  BY <1>1
  <2>2. <<<<u, k>>, Q[i], n>> \in BatchKey \X Nat \X Nat  BY <2>1
  <2> QED BY <1>2, <2>1, <2>2 DEF OpType
<1>5. S \in Seq(OpType)
  <2>1. S = [i \in 1..Len(Q) |-> S[i]] /\ \A i \in 1..Len(Q) : S[i] \in OpType  BY <1>1, <1>2, <1>4
  <2> QED BY <1>1, <2>1, SeqIs
<1>6. Elements(S) = {Op(u, k, j, n, ts) : j \in PiecesFor(u, d)}
  BY <1>1, <1>3 DEF Elements, PiecesFor
<1>7. ASSUME \A j, l \in Piece(u) : Batch[u][j] = Batch[u][l] /\ ts[j] = ts[l] => j = l
      PROVE  Several(S)
  <2> SUFFICES ASSUME NEW x \in DOMAIN S, NEW y \in DOMAIN S,
                      S[x].w = S[y].w \/ S[x].tag = S[y].tag
               PROVE  x = y
    BY DEF Several
  <2>1. S[x] = Op(u, k, Q[x], n, ts) /\ S[y] = Op(u, k, Q[y], n, ts) /\ x \in DOMAIN Q /\ y \in DOMAIN Q
    BY <1>3
  <2>2. Q[x] = Q[y] \/ ts[Q[x]] = ts[Q[y]]  BY <2>1 DEF Op
  <2>3. Q[x] = Q[y]  BY <1>1, <1>7, <2>1, <2>2
  <2> QED BY <1>1, <2>1, <2>3
<1> QED BY <1>3, <1>5, <1>6, <1>7 DEF S, Q

---------------------------------------------------------------------------
(* The calls of a thread.                                                  *)

\* What is known of a thread's program and place.
LEMMA CalledFacts ==
  ASSUME Called, NEW u \in User
  PROVE  /\ prog[u] \in Seq(Operation) /\ Lawful(prog[u]) /\ Len(prog[u]) \in Nat
         /\ DOMAIN prog[u] = 1..Len(prog[u])
         /\ at[u] \in 1..(Len(prog[u]) + 1) /\ at[u] \in Nat
         /\ step[u] \in {"begin", "sent", "append", "untagged", "told"}
         /\ step[u] # "begin" => at[u] \in DOMAIN prog[u]
         /\ step[u] = "sent" => prog[u][at[u]] = "put"
         /\ step[u] \in {"untagged", "told"} => prog[u][at[u]] = "destroy"
         /\ step[u] = "append" => prog[u][at[u]] \in Starting \cup {"start", "destroy"}
         /\ \A k \in DOMAIN prog[u] : prog[u][k] \in Starting => <<u, k>> \in BatchKey
         /\ at[u] \in DOMAIN prog[u] => \E k \in DOMAIN prog[u] :
              /\ Owns(prog[u], k, at[u]) /\ prog[u][k] \in Starting
              /\ Mine(u) = <<u, k>> /\ <<u, k>> \in BatchKey
<1>1. prog \in Progs /\ Caller(u)  BY DEF Called
<1>2. prog[u] \in Seq(Operation) /\ Lawful(prog[u]) /\ Len(prog[u]) \in Nat /\ DOMAIN prog[u] = 1..Len(prog[u])
  <2>1. prog[u] \in Seq(Operation)  BY <1>1, ChannelAssumption
  <2>2. Lawful(prog[u])  BY <1>1, CallerAssumption
  <2> QED BY <2>1, <2>2
<1>3. PlaceOK([q |-> prog[u], a |-> at[u], s |-> step[u]])  BY <1>1 DEF Caller, Place
<1>4. /\ at[u] \in 1..(Len(prog[u]) + 1) /\ at[u] \in Nat
      /\ step[u] \in {"begin", "sent", "append", "untagged", "told"}
      /\ step[u] # "begin" => at[u] \in DOMAIN prog[u]
      /\ step[u] = "sent" => prog[u][at[u]] = "put"
      /\ step[u] \in {"untagged", "told"} => prog[u][at[u]] = "destroy"
      /\ step[u] = "append" => prog[u][at[u]] \in Starting \cup {"start", "destroy"}
  BY <1>2, <1>3 DEF PlaceOK
<1>5. \A k \in DOMAIN prog[u] : prog[u][k] \in Starting => <<u, k>> \in BatchKey
  BY <1>1, BatchKeyIs
<1>6. ASSUME at[u] \in DOMAIN prog[u]
      PROVE  \E k \in DOMAIN prog[u] :
            /\ Owns(prog[u], k, at[u]) /\ prog[u][k] \in Starting
            /\ Mine(u) = <<u, k>> /\ <<u, k>> \in BatchKey
  <2>1. PICK k \in 1..at[u] : Owns(prog[u], k, at[u])  BY <1>2, <1>6 DEF Lawful
  <2>2. prog[u][k] \in Starting /\ k \in DOMAIN prog[u]  BY <1>2, <1>6, <2>1 DEF Owns
  <2>3. Mine(u) = <<u, k>>  BY <1>2, <1>4, <2>1, MineIs
  <2> QED BY <1>5, <2>1, <2>2, <2>3
<1> QED BY <1>2, <1>4, <1>5, <1>6

\* The batch of a put or create is its own.
LEMMA MineStarting ==
  ASSUME Called, NEW u \in User, at[u] \in DOMAIN prog[u], prog[u][at[u]] \in Starting
  PROVE  Owns(prog[u], at[u], at[u]) /\ Mine(u) = <<u, at[u]>> /\ <<u, at[u]>> \in BatchKey
<1>1. prog[u] \in Seq(Operation) /\ at[u] \in Nat \ {0} /\ <<u, at[u]>> \in BatchKey  BY CalledFacts
<1>2. Owns(prog[u], at[u], at[u])  BY <1>1 DEF Owns
<1> QED BY <1>1, <1>2, MineIs

\* The other threads.
LEMMA OtherCaller ==
  ASSUME Called, NEW v \in User, prog' = prog, at'[v] = at[v], step'[v] = step[v],
         tags'[v] = tags[v], todo'[v] = todo[v],
         \A k : <<v, k>> \in BatchKey => starts'[<<v, k>>] = starts[<<v, k>>]
  PROVE  Caller(v)' /\ Place(v)' = Place(v) /\ TodoOf(v)' = TodoOf(v)
<1>1. Caller(v)  BY DEF Called
<1>2. Place(v)' = Place(v)  BY DEF Place
<1>3. Mine(v)' = Mine(v)  BY DEF Mine
<1>4. TodoOf(v)' = TodoOf(v)
  <2>1. SendRequests(v, 1, tags[v], FALSE)' = SendRequests(v, 1, tags[v], FALSE)
    BY <1>3 DEF SendRequests
  <2>2. CASE step[v] \in {"told", "append"}
    <3>1. starts'[Mine(v)] = starts[Mine(v)]
      <4>1. at[v] \in DOMAIN prog[v]  BY <2>2, CalledFacts
      <4>2. PICK k \in DOMAIN prog[v] : Mine(v) = <<v, k>> /\ <<v, k>> \in BatchKey
        BY <4>1, CalledFacts
      <4> QED BY <4>2
    <3>2. SendRequests(v, starts[Mine(v)], tags[v], TRUE)' = SendRequests(v, starts[Mine(v)], tags[v], TRUE)
      BY <1>3, <3>1 DEF SendRequests
    <3> QED BY <2>1, <3>2 DEF TodoOf
  <2>3. CASE step[v] \notin {"told", "append"}  BY <2>3 DEF TodoOf
  <2> QED BY <2>2, <2>3
<1>5. PutOpen(Place(v)) => starts'[<<v, at[v]>>] = starts[<<v, at[v]>>]
  <2> SUFFICES ASSUME PutOpen(Place(v)) PROVE starts'[<<v, at[v]>>] = starts[<<v, at[v]>>]  OBVIOUS
  <2>1. step[v] \in {"sent", "append"} /\ prog[v][at[v]] = "put"  BY DEF PutOpen, Place
  <2>2. at[v] \in DOMAIN prog[v] /\ prog[v][at[v]] \in Starting  BY <2>1, CalledFacts DEF Starting
  <2> QED BY <2>2, MineStarting
<1>6. Sending(Place(v)) => starts'[Mine(v)] = starts[Mine(v)]
  <2> SUFFICES ASSUME Sending(Place(v)) PROVE starts'[Mine(v)] = starts[Mine(v)]  OBVIOUS
  <2>1. at[v] \in DOMAIN prog[v]  BY CalledFacts DEF Sending, Place
  <2>2. PICK k \in DOMAIN prog[v] : Mine(v) = <<v, k>> /\ <<v, k>> \in BatchKey
    BY <2>1, CalledFacts
  <2> QED BY <2>2
<1>7. Caller(v)'  BY <1>1, <1>2, <1>3, <1>4, <1>5, <1>6 DEF Caller
<1> QED BY <1>2, <1>4, <1>7

\* A step of a thread leaves the other threads where they are.
LEMMA CalledOthers ==
  ASSUME Called, NEW u \in User, UserNext(u)
  PROVE  /\ prog' = prog
         /\ DOMAIN at' = User /\ DOMAIN step' = User /\ DOMAIN tags' = User
         /\ DOMAIN ids' = User /\ DOMAIN todo' = User /\ starts' \in [BatchKey -> Nat]
         /\ \A v \in User \ {u} :
              /\ at'[v] = at[v] /\ step'[v] = step[v] /\ tags'[v] = tags[v]
              /\ ids'[v] = ids[v] /\ todo'[v] = todo[v]
              /\ \A k : <<v, k>> \in BatchKey => starts'[<<v, k>>] = starts[<<v, k>>]
              /\ Caller(v)' /\ Place(v)' = Place(v) /\ TodoOf(v)' = TodoOf(v)
<1>1. /\ DOMAIN at = User /\ DOMAIN step = User /\ DOMAIN tags = User /\ DOMAIN ids = User
      /\ DOMAIN todo = User /\ starts \in [BatchKey -> Nat] /\ prog \in Progs
  BY DEF Called
<1>2. /\ prog' = prog
      /\ DOMAIN at' = User /\ DOMAIN step' = User /\ DOMAIN tags' = User
      /\ DOMAIN ids' = User /\ DOMAIN todo' = User
      /\ \A v \in User \ {u} :
           /\ at'[v] = at[v] /\ step'[v] = step[v] /\ tags'[v] = tags[v]
           /\ ids'[v] = ids[v] /\ todo'[v] = todo[v]
      /\ \/ starts' = starts
         \/ Calls(u, "put") /\ starts' = [starts EXCEPT ![Mine(u)] = 1]
         \/ Calls(u, "start") /\ starts' = [starts EXCEPT ![Mine(u)] = starts[Mine(u)] + 1]
  <2>2. CASE Put(u)
    <3>1. /\ prog' = prog /\ at' = at /\ ids' = ids /\ todo' = todo
          /\ tags' = [tags EXCEPT ![u] = TagsTaken(u)] /\ step' = [step EXCEPT ![u] = "sent"]
          /\ Calls(u, "put") /\ starts' = [starts EXCEPT ![Mine(u)] = 1]
      BY <2>2 DEF Put
    <3> QED BY <1>1, <3>1
  <2>3. CASE PutCtrl(u)  BY <1>1, <2>3 DEF PutCtrl
  <2>4. CASE Create(u)  BY <1>1, <2>4 DEF Create
  <2>5. CASE Start(u)
    <3>1. PICK t : /\ prog' = prog /\ at' = at /\ ids' = ids /\ tags' = tags
                   /\ todo' = [todo EXCEPT ![u] = t] /\ step' = [step EXCEPT ![u] = "append"]
                   /\ Calls(u, "start") /\ starts' = [starts EXCEPT ![Mine(u)] = starts[Mine(u)] + 1]
      BY <2>5 DEF Start
    <3> QED BY <1>1, <3>1
  <2>6. CASE Destroy(u)  BY <1>1, <2>6 DEF Destroy
  <2>7. CASE DestroyCtrl(u)  BY <1>1, <2>7 DEF DestroyCtrl
  <2>8. CASE DestroyIds(u)  BY <1>1, <2>8 DEF DestroyIds
  <2>9. CASE ListRequests(u)  BY <1>1, <2>9 DEF ListRequests
  <2>10. CASE Wait(u)  BY <1>1, <2>10 DEF Wait
  <2>11. CASE Sync(u)  BY <1>1, <2>11 DEF Sync
  <2> QED BY <2>2, <2>3, <2>4, <2>5, <2>6, <2>7, <2>8, <2>9, <2>10, <2>11 DEF UserNext
<1>3. starts' = starts \/ \E k : \E n \in Nat : <<u, k>> \in BatchKey /\ starts' = [starts EXCEPT ![<<u, k>>] = n]
  <2>1. ASSUME at[u] \in DOMAIN prog[u] PROVE \E k : Mine(u) = <<u, k>> /\ <<u, k>> \in BatchKey
    BY <2>1, CalledFacts
  <2>2. ASSUME NEW op, Calls(u, op) PROVE at[u] \in DOMAIN prog[u]
    <3>1. at[u] \in 1..(Len(prog[u]) + 1) /\ Len(prog[u]) \in Nat /\ DOMAIN prog[u] = 1..Len(prog[u])
      BY CalledFacts
    <3> QED BY <2>2, <3>1 DEF Calls
  <2>3. CASE starts' = starts  BY <2>3
  <2>4. CASE Calls(u, "put") /\ starts' = [starts EXCEPT ![Mine(u)] = 1]
    <3>1. PICK k : Mine(u) = <<u, k>> /\ <<u, k>> \in BatchKey  BY <2>1, <2>2, <2>4
    <3> QED BY <2>4, <3>1
  <2>5. CASE Calls(u, "start") /\ starts' = [starts EXCEPT ![Mine(u)] = starts[Mine(u)] + 1]
    <3>1. PICK k : Mine(u) = <<u, k>> /\ <<u, k>> \in BatchKey  BY <2>1, <2>2, <2>5
    <3>2. starts[Mine(u)] + 1 \in Nat  BY <1>1, <3>1
    <3> QED BY <2>5, <3>1, <3>2
  <2> QED BY <1>2, <2>3, <2>4, <2>5
<1>4. starts' \in [BatchKey -> Nat]  BY <1>1, <1>3
<1>5. ASSUME NEW v \in User \ {u}
      PROVE  /\ at'[v] = at[v] /\ step'[v] = step[v] /\ tags'[v] = tags[v]
             /\ ids'[v] = ids[v] /\ todo'[v] = todo[v]
             /\ \A k : <<v, k>> \in BatchKey => starts'[<<v, k>>] = starts[<<v, k>>]
  <2>1. \A k : <<v, k>> \in BatchKey => starts'[<<v, k>>] = starts[<<v, k>>]  BY <1>1, <1>3
  <2> QED BY <1>1, <1>2, <2>1
<1>6. ASSUME NEW v \in User \ {u}
      PROVE  Caller(v)' /\ Place(v)' = Place(v) /\ TodoOf(v)' = TodoOf(v)
  BY <1>2, <1>5, OtherCaller
<1>7. /\ DOMAIN at' = User /\ DOMAIN step' = User /\ DOMAIN tags' = User
      /\ DOMAIN ids' = User /\ DOMAIN todo' = User
  BY <1>2
<1> QED BY <1>2, <1>4, <1>5, <1>6, <1>7

\* A thread that calls an operation is at its beginning.
LEMMA CalledWhere ==
  ASSUME Called, NEW u \in User, NEW op, Calls(u, op)
  PROVE  at[u] \in DOMAIN prog[u] /\ prog[u][at[u]] = op /\ step[u] = "begin" /\ at[u] \in Nat \ {0}
<1>1. at[u] \in 1..(Len(prog[u]) + 1) /\ Len(prog[u]) \in Nat /\ DOMAIN prog[u] = 1..Len(prog[u])
  BY CalledFacts
<1> QED BY <1>1 DEF Calls

\* A put sends its data: the batch is new and started for the first time.
LEMMA CalledPut ==
  ASSUME Called, NEW u \in User, Put(u)
  PROVE  /\ Caller(u)' /\ starts[Mine(u)] = 0
         /\ Mine(u) = <<u, at[u]>> /\ <<u, at[u]>> \in BatchKey
<1> DEFINE a == at[u]
           q == prog[u]
<1>1. /\ Calls(u, "put") /\ prog' = prog /\ at' = at /\ todo' = todo
      /\ tags' = [tags EXCEPT ![u] = TagsTaken(u)]
      /\ starts' = [starts EXCEPT ![Mine(u)] = 1] /\ step' = [step EXCEPT ![u] = "sent"]
  BY DEF Put
<1>2. DOMAIN step = User /\ DOMAIN tags = User /\ starts \in [BatchKey -> Nat] /\ Caller(u)
  BY DEF Called
<1>3. a \in DOMAIN q /\ q[a] = "put" /\ step[u] = "begin" /\ a \in Nat \ {0} /\ q[a] \in Starting
      /\ DOMAIN q = 1..Len(q)
  BY <1>1, CalledWhere, CalledFacts DEF Starting
<1>4. Mine(u) = <<u, a>> /\ <<u, a>> \in BatchKey  BY <1>3, MineStarting
<1>6. starts[<<u, a>>] = 0
  <2>1. ~ Entered(Place(u), a)  BY <1>3 DEF Entered, Place
  <2>2. ~ (starts[<<u, a>>] > 0) /\ starts[<<u, a>>] \in Nat  BY <1>2, <1>4, <2>1 DEF Caller
  <2> QED BY <2>2
<1>7. Caller(u)'
  <2>1. step'[u] = "sent" /\ at'[u] = a /\ prog'[u] = q /\ starts'[<<u, a>>] = 1
    BY <1>1, <1>2, <1>4
  <2>2. PlaceOK(Place(u))' /\ PutOpen(Place(u))'  BY <1>3, <2>1 DEF PlaceOK, PutOpen, Place
  <2>3. todo'[u] = <<>> /\ TodoOf(u)' = <<>>  BY <1>1, <1>2, <1>3, <2>1 DEF TodoOf, Caller
  <2>4. ASSUME NEW k, <<u, k>> \in BatchKey
        PROVE  /\ starts'[<<u, k>>] <= at'[u]
               /\ starts'[<<u, k>>] > 0 => Entered(Place(u), k)' /\ prog'[u][k] \in Starting
    <3>1. CASE k = a  BY <3>1, <1>3, <2>1 DEF Entered, Place
    <3>2. CASE k # a
      <4>1. starts'[<<u, k>>] = starts[<<u, k>>] /\ starts[<<u, k>>] \in Nat
        BY <3>2, <2>4, <1>1, <1>2, <1>4
      <4>2. /\ starts[<<u, k>>] <= a - 1
            /\ starts[<<u, k>>] > 0 => Entered(Place(u), k) /\ q[k] \in Starting
        BY <2>4, <1>2, <1>3 DEF Caller
      <4>3. Entered(Place(u), k) => Entered(Place(u), k)'  BY <1>3, <2>1 DEF Entered, Place
      <4> QED BY <4>1, <4>2, <4>3, <2>1, <1>3
    <3> QED BY <3>1, <3>2
  <2>5. (starts[Mine(u)])' > 0
    <3>1. Mine(u)' = Mine(u)  BY <1>1 DEF Mine
    <3> QED BY <1>4, <2>1, <3>1
  <2> QED BY <2>1, <2>2, <2>3, <2>4, <2>5 DEF Caller
<1> QED BY <1>4, <1>6, <1>7

\* A thread that another step leaves alone.
LEMMA CallerSame ==
  ASSUME Called, NEW u \in User, prog' = prog,
         \A k : <<u, k>> \in BatchKey => starts'[<<u, k>>] = starts[<<u, k>>],
         PlaceOK(Place(u))', todo'[u] = TodoOf(u)',
         (at'[u] = at[u] /\ step'[u] # "begin") \/ at'[u] = at[u] + 1,
         PutOpen(Place(u))' => PutOpen(Place(u)) /\ at'[u] = at[u],
         Sending(Place(u))' => Sending(Place(u)) /\ at'[u] = at[u]
  PROVE  Caller(u)'
<1>1. Caller(u) /\ starts \in [BatchKey -> Nat]  BY DEF Called
<1>2. at[u] \in Nat /\ DOMAIN prog[u] = 1..Len(prog[u])  BY CalledFacts
<1>3. \A k : Entered(Place(u), k) => Entered(Place(u), k)'  BY <1>2 DEF Entered, Place
<1>4. ASSUME NEW k, <<u, k>> \in BatchKey
      PROVE  /\ starts'[<<u, k>>] <= (IF step'[u] = "begin" THEN at'[u] - 1 ELSE at'[u])
             /\ starts'[<<u, k>>] > 0 => Entered(Place(u), k)' /\ prog'[u][k] \in Starting
  <2>1. /\ starts[<<u, k>>] <= (IF step[u] = "begin" THEN at[u] - 1 ELSE at[u])
        /\ starts[<<u, k>>] > 0 => Entered(Place(u), k) /\ prog[u][k] \in Starting
    BY <1>1, <1>4 DEF Caller
  <2>2. starts[<<u, k>>] \in Nat /\ starts'[<<u, k>>] = starts[<<u, k>>]  BY <1>1, <1>4
  <2>3. starts'[<<u, k>>] <= (IF step'[u] = "begin" THEN at'[u] - 1 ELSE at'[u])
    BY <1>2, <2>1, <2>2
  <2> QED BY <1>3, <2>1, <2>2, <2>3
<1>5. PutOpen(Place(u))' => starts'[<<u, at'[u]>>] = 1
  <2> SUFFICES ASSUME PutOpen(Place(u))' PROVE starts'[<<u, at'[u]>>] = 1  OBVIOUS
  <2>1. PutOpen(Place(u)) /\ at'[u] = at[u]  OBVIOUS
  <2>2. step[u] \in {"sent", "append"} /\ prog[u][at[u]] = "put" /\ starts[<<u, at[u]>>] = 1
    BY <1>1, <2>1 DEF PutOpen, Place, Caller
  <2>3. at[u] \in DOMAIN prog[u] /\ prog[u][at[u]] \in Starting  BY <2>2, CalledFacts DEF Starting
  <2>4. <<u, at[u]>> \in BatchKey  BY <2>3, MineStarting
  <2> QED BY <2>1, <2>2, <2>4
<1>6. Sending(Place(u))' => (starts[Mine(u)])' > 0
  <2> SUFFICES ASSUME Sending(Place(u))' PROVE (starts[Mine(u)])' > 0  OBVIOUS
  <2>1. Sending(Place(u)) /\ at'[u] = at[u]  OBVIOUS
  <2>2. Mine(u)' = Mine(u)  BY <2>1 DEF Mine
  <2>3. at[u] \in DOMAIN prog[u]  BY <2>1, CalledFacts DEF Sending, Place
  <2>4. PICK k \in DOMAIN prog[u] : Mine(u) = <<u, k>> /\ <<u, k>> \in BatchKey
    BY <2>3, CalledFacts
  <2>5. starts[Mine(u)] > 0  BY <1>1, <2>1 DEF Caller
  <2> QED BY <2>2, <2>4, <2>5
<1> QED BY <1>4, <1>5, <1>6 DEF Caller

\* A put tells its targets: the batch is its own, in its first start.
LEMMA CalledPutCtrl ==
  ASSUME Called, NEW u \in User, PutCtrl(u)
  PROVE  /\ Caller(u)' /\ starts[Mine(u)] = 1 /\ at[u] \in DOMAIN prog[u] /\ prog[u][at[u]] = "put"
         /\ Mine(u) = <<u, at[u]>> /\ <<u, at[u]>> \in BatchKey
<1>1. /\ step[u] = "sent" /\ prog' = prog /\ at' = at /\ tags' = tags /\ starts' = starts
      /\ todo' = [todo EXCEPT ![u] = SendRequests(u, 1, tags[u], FALSE) \o CtrlRequests(u)]
      /\ step' = [step EXCEPT ![u] = "append"]
  BY DEF PutCtrl
<1>2. DOMAIN step = User /\ DOMAIN todo = User /\ Caller(u)  BY DEF Called
<1>3. at[u] \in DOMAIN prog[u] /\ prog[u][at[u]] = "put" /\ at[u] \in 1..(Len(prog[u]) + 1)
  BY <1>1, CalledFacts
<1>4. Mine(u) = <<u, at[u]>> /\ <<u, at[u]>> \in BatchKey  BY <1>3, MineStarting DEF Starting
<1>5. Mine(u)' = Mine(u)  BY <1>1 DEF Mine
<1>6. todo'[u] = TodoOf(u)'
  <2>1. step'[u] = "append" /\ prog'[u][at'[u]] = "put"  BY <1>1, <1>2, <1>3
  <2>2. SendRequests(u, 1, tags[u], FALSE)' = SendRequests(u, 1, tags[u], FALSE)
    BY <1>1, <1>5 DEF SendRequests
  <2> QED BY <1>1, <1>2, <2>1, <2>2 DEF TodoOf
<1>7. PlaceOK(Place(u))'  BY <1>1, <1>2, <1>3 DEF PlaceOK, Place, Starting
<1>8. PutOpen(Place(u)) /\ Sending(Place(u))  BY <1>1, <1>3 DEF PutOpen, Sending, Place
<1>9. Caller(u)'  BY <1>1, <1>2, <1>6, <1>7, <1>8, CallerSame
<1> QED BY <1>2, <1>3, <1>4, <1>8, <1>9 DEF Caller, Place

\* A plan is made: the batch is new.
LEMMA CalledCreate ==
  ASSUME Called, NEW u \in User, Create(u)
  PROVE  /\ Caller(u)' /\ starts[Mine(u)] = 0
         /\ Mine(u) = <<u, at[u]>> /\ <<u, at[u]>> \in BatchKey
<1>1. /\ Calls(u, "create") /\ prog' = prog /\ at' = at /\ starts' = starts
      /\ todo' = [todo EXCEPT ![u] = CtrlRequests(u)]
      /\ step' = [step EXCEPT ![u] = "append"]
  BY DEF Create
<1>2. DOMAIN step = User /\ DOMAIN todo = User /\ Caller(u) /\ starts \in [BatchKey -> Nat]
  BY DEF Called
<1>3. at[u] \in DOMAIN prog[u] /\ prog[u][at[u]] = "create" /\ step[u] = "begin" /\ at[u] \in 1..(Len(prog[u]) + 1)
  BY <1>1, CalledWhere, CalledFacts
<1>4. Mine(u) = <<u, at[u]>> /\ <<u, at[u]>> \in BatchKey  BY <1>3, MineStarting DEF Starting
<1>5. step'[u] = "append" /\ prog'[u][at'[u]] = "create" /\ todo'[u] = CtrlRequests(u)
  BY <1>1, <1>2, <1>3
<1>6. todo'[u] = TodoOf(u)'  BY <1>5 DEF TodoOf
<1>7. PlaceOK(Place(u))'  BY <1>1, <1>3, <1>5 DEF PlaceOK, Place, Starting
<1>8. ~ PutOpen(Place(u))' /\ ~ Sending(Place(u))'  BY <1>5 DEF PutOpen, Sending, Place
<1>9. Caller(u)'  BY <1>1, <1>5, <1>6, <1>7, <1>8, CallerSame
<1>10. starts[<<u, at[u]>>] = 0
  <2>1. ~ Entered(Place(u), at[u])  BY <1>3 DEF Entered, Place
  <2>2. ~ (starts[<<u, at[u]>>] > 0) /\ starts[<<u, at[u]>>] \in Nat  BY <1>2, <1>4, <2>1 DEF Caller
  <2> QED BY <2>2
<1> QED BY <1>4, <1>9, <1>10

\* A start or destroy is of a plan that was synchronized.
LEMMA CalledPlan ==
  ASSUME Called, NEW u \in User, NEW op \in {"start", "destroy"}, Calls(u, op)
  PROVE  \E k \in DOMAIN prog[u] :
           /\ Mine(u) = <<u, k>> /\ <<u, k>> \in BatchKey /\ Owns(prog[u], k, at[u])
           /\ OpenPlan(Place(u), k) /\ Synced(Place(u), k) /\ Newest(Place(u), k)
           /\ Entered(Place(u), k) /\ k < at[u] /\ prog[u][k] = "create"
<1>1. at[u] \in DOMAIN prog[u] /\ prog[u][at[u]] = op /\ step[u] = "begin" /\ at[u] \in Nat
  BY CalledWhere
<1>2. prog[u] \in Seq(Operation) /\ Lawful(prog[u])  BY CalledFacts
<1> DEFINE c == Place(u)
<1>3. c.q = prog[u] /\ c.a = at[u] /\ c.s = step[u]  BY DEF Place
<1>4. op \notin Starting  BY DEF Starting
<1> HIDE DEF c
<1>5. PICK k \in DOMAIN c.q :
         /\ Owns(c.q, k, c.a) /\ Newest(c, k) /\ k < c.a
         /\ c.q[c.a] \in {"start", "destroy"} => OpenPlan(c, k) /\ Synced(c, k)
  BY <1>1, <1>2, <1>3, <1>4, CalledOn
<1>6. Mine(u) = <<u, k>>  BY <1>1, <1>2, <1>3, <1>5, MineIs
<1>7. OpenPlan(c, k) /\ Synced(c, k) /\ Entered(c, k) /\ prog[u][k] = "create"
  BY <1>1, <1>3, <1>5 DEF OpenPlan, Newest
<1>8. <<u, k>> \in BatchKey  BY <1>3, <1>7, CalledFacts DEF Starting
<1> QED BY <1>3, <1>5, <1>6, <1>7, <1>8 DEF c

\* A plan is started once more.
LEMMA CalledStart ==
  ASSUME Called, NEW u \in User, Start(u)
  PROVE  Caller(u)'
<1>1. /\ Calls(u, "start") /\ prog' = prog /\ at' = at /\ tags' = tags
      /\ starts' = [starts EXCEPT ![Mine(u)] = starts[Mine(u)] + 1]
      /\ todo' = [todo EXCEPT ![u] = CtrlRequests(u) \o SendRequests(u, starts[Mine(u)] + 1, tags[u], TRUE)]
      /\ step' = [step EXCEPT ![u] = "append"]
  BY DEF Start
<1>2. DOMAIN step = User /\ DOMAIN todo = User /\ Caller(u) /\ starts \in [BatchKey -> Nat]
  BY DEF Called
<1>3. /\ at[u] \in DOMAIN prog[u] /\ prog[u][at[u]] = "start" /\ step[u] = "begin"
      /\ at[u] \in 1..(Len(prog[u]) + 1) /\ at[u] \in Nat
  BY <1>1, CalledWhere, CalledFacts
<1>4. PICK k \in DOMAIN prog[u] :
        Mine(u) = <<u, k>> /\ <<u, k>> \in BatchKey /\ Entered(Place(u), k) /\ prog[u][k] = "create"
  BY <1>1, CalledPlan
<1>5. step'[u] = "append" /\ prog'[u][at'[u]] = "start"  BY <1>1, <1>2, <1>3
<1>6. todo'[u] = TodoOf(u)'
  <2>1. Mine(u)' = Mine(u)  BY <1>1 DEF Mine
  <2>2. starts'[Mine(u)] = starts[Mine(u)] + 1  BY <1>1, <1>2, <1>4
  <2>3. SendRequests(u, starts[Mine(u)], tags[u], TRUE)' = SendRequests(u, starts[Mine(u)] + 1, tags[u], TRUE)
    <3>1. (starts[Mine(u)])' = starts[Mine(u)] + 1 /\ tags' = tags  BY <1>1, <2>1, <2>2
    <3> QED BY <2>1, <3>1 DEF SendRequests
  <2> QED BY <1>1, <1>2, <1>5, <2>3 DEF TodoOf
<1>7. PlaceOK(Place(u))'  BY <1>1, <1>3, <1>5 DEF PlaceOK, Place, Starting
<1>8. ~ PutOpen(Place(u))'  BY <1>5 DEF PutOpen, Place
<1>9. \A m : Entered(Place(u), m) => Entered(Place(u), m)'  BY <1>1, <1>3, <1>5 DEF Entered, Place
<1>10. ASSUME NEW m, <<u, m>> \in BatchKey
      PROVE  /\ starts'[<<u, m>>] <= at[u]
             /\ starts'[<<u, m>>] > 0 => Entered(Place(u), m)' /\ prog'[u][m] \in Starting
  <2>1. /\ starts[<<u, m>>] <= at[u] - 1
        /\ starts[<<u, m>>] > 0 => Entered(Place(u), m) /\ prog[u][m] \in Starting
    BY <1>2, <1>3, <1>10 DEF Caller
  <2>2. starts[<<u, m>>] \in Nat  BY <1>2, <1>10
  <2>3. CASE m = k
    <3>1. starts'[<<u, m>>] = starts[<<u, m>>] + 1  BY <2>3, <1>1, <1>2, <1>4
    <3> QED BY <3>1, <2>1, <2>2, <2>3, <1>1, <1>3, <1>4, <1>9 DEF Starting
  <2>4. CASE m # k
    <3>1. starts'[<<u, m>>] = starts[<<u, m>>]  BY <2>4, <1>1, <1>2, <1>4
    <3> QED BY <3>1, <2>1, <2>2, <1>1, <1>3, <1>9
  <2> QED BY <2>3, <2>4
<1>11. (starts[Mine(u)])' > 0
  <2>1. Mine(u)' = Mine(u)  BY <1>1 DEF Mine
  <2>2. starts'[Mine(u)] = starts[Mine(u)] + 1 /\ starts[Mine(u)] \in Nat  BY <1>1, <1>2, <1>4
  <2> QED BY <2>1, <2>2
<1> QED BY <1>1, <1>5, <1>6, <1>7, <1>8, <1>10, <1>11 DEF Caller

\* The three steps of a destroy stay within one operation.
LEMMA CalledDestroys ==
  ASSUME Called, NEW u \in User, Destroy(u) \/ DestroyCtrl(u) \/ DestroyIds(u)
  PROVE  /\ Caller(u)' /\ step'[u] # "begin" /\ at[u] \in DOMAIN prog[u] /\ prog[u][at[u]] = "destroy"
         /\ at' = at
<1>1. DOMAIN step = User /\ DOMAIN todo = User /\ Caller(u)  BY DEF Called
<1>2. /\ at[u] \in DOMAIN prog[u] /\ prog[u][at[u]] = "destroy" /\ prog' = prog /\ at' = at
      /\ starts' = starts /\ at[u] \in 1..(Len(prog[u]) + 1)
  <2>1. at[u] \in 1..(Len(prog[u]) + 1)  BY CalledFacts
  <2>2. CASE Destroy(u)  BY <2>1, <2>2, CalledWhere DEF Destroy
  <2>3. CASE DestroyCtrl(u)  BY <2>1, <2>3, CalledFacts DEF DestroyCtrl
  <2>4. CASE DestroyIds(u)  BY <2>1, <2>4, CalledFacts DEF DestroyIds
  <2> QED BY <2>2, <2>3, <2>4
<1>3. step'[u] \in {"untagged", "told", "append"}  BY <1>1 DEF Destroy, DestroyCtrl, DestroyIds
<1>4. todo'[u] = TodoOf(u)'
  <2>1. CASE Destroy(u)
    <3>1. step[u] = "begin" /\ step'[u] = "untagged" /\ todo' = todo
      BY <1>1, <2>1 DEF Destroy, Calls
    <3> QED BY <1>1, <3>1 DEF TodoOf, Caller
  <2>2. CASE DestroyCtrl(u)
    <3>1. step'[u] = "told" /\ todo'[u] = CtrlRequests(u)  BY <1>1, <2>2 DEF DestroyCtrl
    <3> QED BY <1>2, <3>1 DEF TodoOf
  <2>3. CASE DestroyIds(u)
    <3>1. step[u] = "told" /\ step'[u] = "append" /\ todo' = todo  BY <1>1, <2>3 DEF DestroyIds
    <3> QED BY <1>1, <1>2, <3>1 DEF TodoOf, Caller
  <2> QED BY <2>1, <2>2, <2>3
<1>5. PlaceOK(Place(u))'  BY <1>2, <1>3 DEF PlaceOK, Place, Starting
<1>6. ~ PutOpen(Place(u))' /\ ~ Sending(Place(u))'  BY <1>2, <1>3 DEF PutOpen, Sending, Place
<1>7. Caller(u)'  BY <1>2, <1>3, <1>4, <1>5, <1>6, CallerSame
<1> QED BY <1>2, <1>3, <1>7

\* An operation is over.
LEMMA CalledOver ==
  ASSUME Called, NEW u \in User, ListRequests(u) \/ Wait(u) \/ Sync(u)
  PROVE  /\ Caller(u)' /\ at[u] \in DOMAIN prog[u] /\ prog' = prog /\ starts' = starts /\ tags' = tags
         /\ at'[u] = at[u] + 1 /\ step'[u] = "begin"
         /\ \/ step[u] = "append" /\ prog[u][at[u]] # "sync"
            \/ step[u] = "begin" /\ prog[u][at[u]] \in {"wait", "sync"}
<1>1. DOMAIN step = User /\ DOMAIN at = User /\ DOMAIN todo = User /\ Caller(u)  BY DEF Called
<1>2. /\ prog' = prog /\ starts' = starts /\ tags' = tags
      /\ at'[u] = at[u] + 1 /\ step'[u] = "begin" /\ at[u] \in DOMAIN prog[u]
      /\ \/ step[u] = "append" /\ prog[u][at[u]] # "sync"
         \/ step[u] = "begin" /\ prog[u][at[u]] \in {"wait", "sync"}
  <2>2. CASE ListRequests(u)
    <3>1. /\ prog' = prog /\ starts' = starts /\ tags' = tags /\ step[u] = "append"
          /\ at'[u] = at[u] + 1 /\ step'[u] = "begin"
      BY <1>1, <2>2 DEF ListRequests
    <3>2. at[u] \in DOMAIN prog[u] /\ prog[u][at[u]] \in Starting \cup {"start", "destroy"}
      BY <3>1, CalledFacts
    <3> QED BY <3>1, <3>2 DEF Starting
  <2>3. CASE Wait(u)  BY <1>1, <2>3, CalledWhere DEF Wait
  <2>4. CASE Sync(u)  BY <1>1, <2>4, CalledWhere DEF Sync
  <2> QED BY <2>2, <2>3, <2>4
<1>3. todo'[u] = <<>>
  <2>1. CASE ListRequests(u)  BY <1>1, <2>1 DEF ListRequests
  <2>2. CASE Wait(u) \/ Sync(u)
    <3>1. step[u] = "begin" /\ todo' = todo  BY <2>2 DEF Wait, Sync, Calls
    <3> QED BY <1>1, <3>1 DEF Caller, TodoOf
  <2> QED BY <2>1, <2>2
<1>4. todo'[u] = TodoOf(u)'  BY <1>2, <1>3 DEF TodoOf
<1>5. PlaceOK(Place(u))'
  <2>1. at[u] \in 1..(Len(prog[u]) + 1) /\ Len(prog[u]) \in Nat /\ DOMAIN prog[u] = 1..Len(prog[u])
    BY CalledFacts
  <2> QED BY <1>2, <2>1 DEF PlaceOK, Place, Starting
<1>6. ~ PutOpen(Place(u))' /\ ~ Sending(Place(u))'  BY <1>2, <1>3 DEF PutOpen, Sending, Place
<1>7. Caller(u)'  BY <1>2, <1>4, <1>5, <1>6, CallerSame
<1> QED BY <1>2, <1>7

\* The threads keep to their programs.
LEMMA CalledStep ==
  ASSUME Called, NEW u \in User, UserNext(u)
  PROVE  Called'
<1>1. Caller(u)'
  BY CalledPut, CalledPutCtrl, CalledCreate, CalledStart, CalledDestroys, CalledOver DEF UserNext
<1>2. prog' \in Progs /\ \A v \in User : Caller(v)'  BY <1>1, CalledOthers DEF Called
<1> QED BY <1>2, CalledOthers DEF Called

\* The daemon leaves the threads alone.
LEMMA CalledSame ==
  ASSUME Called, UNCHANGED uvars
  PROVE  /\ Called' /\ \A u \in User : Place(u)' = Place(u) /\ Mine(u)' = Mine(u)
         /\ \A p : Untold(p)' = Untold(p)
         /\ prog' = prog /\ at' = at /\ step' = step /\ tags' = tags /\ ids' = ids /\ todo' = todo
         /\ starts' = starts
<1>1. /\ prog' = prog /\ at' = at /\ step' = step /\ tags' = tags /\ ids' = ids /\ todo' = todo
      /\ starts' = starts
  BY DEF uvars
<1>2. \A u \in User : Place(u)' = Place(u) /\ Mine(u)' = Mine(u)  BY <1>1 DEF Place, Mine
<1>3. \A p : Untold(p)' = Untold(p)  BY <1>1 DEF Untold, Op
<1>4. \A u \in User : Caller(u)'  BY <1>1, OtherCaller DEF Called
<1> QED BY <1>1, <1>2, <1>3, <1>4 DEF Called

---------------------------------------------------------------------------
(* The messages of a step.                                                 *)

\* A message to each target keeps all pairs on course if each fits.
LEMMA CourseTold ==
  ASSUME NEW tab, NEW line, NEW cut, Course(tab, line, cut), NEW u \in User, NEW msg,
         \A d \in Target(u) : msg[d] \in MsgType,
         \A p \in Pair : ToldTo(u, p) =>
           Fits(AtEnd(tab, p), line[p], Len(line[p]), msg[p[2]]),
         ctrl' = Tell(u, msg), posted' = posted, slot' = slot
  PROVE  /\ \E T, L, C : Course(T, L, C)' /\ Told(T, L, C, tab, line, cut, u, msg)
         /\ \A p \in Pair :
              /\ ToldTo(u, p) => Len(ctrl'[p]) = Len(ctrl[p]) + 1
              /\ ~ ToldTo(u, p) => ctrl'[p] = ctrl[p]
<1> DEFINE m(p) == msg[p[2]]
           A(p) == tab[p][Len(ctrl[p])]
           S(p) == Posts(A(p), m(p))
<1>1. PICK T : T = [p \in Pair |-> IF ToldTo(u, p) THEN Later(tab[p], Len(ctrl[p]), SlotAfter(A(p), m(p))) ELSE tab[p]]
  OBVIOUS
<1>2. PICK L : L = [p \in Pair |-> IF ToldTo(u, p) THEN line[p] \o S(p) ELSE line[p]]  OBVIOUS
<1>3. PICK C : C = [p \in Pair |-> IF ToldTo(u, p) THEN Later(cut[p], Len(ctrl[p]), Len(line[p]) + Len(S(p))) ELSE cut[p]]
  OBVIOUS
<1>4. /\ DOMAIN ctrl' = Pair /\ DOMAIN posted' = Pair /\ DOMAIN slot' = Pair
      /\ \A p \in Pair : OnCourse(tab[p], line[p], cut[p], ctrl[p], posted[p], slot[p])
  BY DEF Course, Tell
<1>5. \A p \in Pair : ctrl'[p] = IF ToldTo(u, p) THEN Append(ctrl[p], m(p)) ELSE ctrl[p]
  BY DEF Tell, ToldTo
<1>6. ASSUME NEW p \in Pair, ToldTo(u, p)
      PROVE  /\ OnCourse(T[p], L[p], C[p], ctrl'[p], posted'[p], slot'[p])
             /\ C[p][0] = cut[p][0] /\ L[p] = line[p] \o S(p)
             /\ T[p][Len(ctrl[p]) + 1] = SlotAfter(A(p), m(p)) /\ Len(ctrl'[p]) = Len(ctrl[p]) + 1
  <2>1. /\ m(p) \in MsgType /\ Fits(A(p), line[p], Len(line[p]), m(p))
        /\ OnCourse(tab[p], line[p], cut[p], ctrl[p], posted[p], slot[p])
    BY <1>4, <1>6 DEF ToldTo, AtEnd
  <2>2. /\ T[p] = Later(tab[p], Len(ctrl[p]), SlotAfter(A(p), m(p))) /\ L[p] = line[p] \o S(p)
        /\ C[p] = Later(cut[p], Len(ctrl[p]), Len(line[p]) + Len(S(p)))
        /\ ctrl'[p] = Append(ctrl[p], m(p)) /\ posted'[p] = posted[p] /\ slot'[p] = slot[p]
    BY <1>1, <1>2, <1>3, <1>5, <1>6
  <2>3. S(p) = Posts(tab[p][Len(ctrl[p])], m(p))  OBVIOUS
  <2> HIDE DEF m, S
  <2>4. Len(ctrl[p]) \in Nat /\
        OnCourse(Later(tab[p], Len(ctrl[p]), SlotAfter(tab[p][Len(ctrl[p])], m(p))), line[p] \o S(p),
                 Later(cut[p], Len(ctrl[p]), Len(line[p]) + Len(S(p))), Append(ctrl[p], m(p)), posted[p], slot[p])
    BY <2>1, <2>3, CourseTell
  <2>5. OnCourse(T[p], L[p], C[p], ctrl'[p], posted'[p], slot'[p])  BY <2>2, <2>4
  <2>6. C[p][0] = cut[p][0]  BY <2>2, <2>4 DEF Later
  <2>7. T[p][Len(ctrl[p]) + 1] = SlotAfter(A(p), m(p))  BY <2>2, <2>4 DEF Later
  <2>8. Len(ctrl'[p]) = Len(ctrl[p]) + 1
    <3>1. ctrl[p] \in Seq(MsgType)  BY <2>1 DEF OnCourse
    <3> QED BY <2>1, <2>2, <3>1
  <2> QED BY <2>2, <2>5, <2>6, <2>7, <2>8
<1>7. ASSUME NEW p \in Pair, ~ ToldTo(u, p)
      PROVE  /\ OnCourse(T[p], L[p], C[p], ctrl'[p], posted'[p], slot'[p])
             /\ C[p] = cut[p] /\ L[p] = line[p] /\ T[p] = tab[p] /\ ctrl'[p] = ctrl[p]
  BY <1>1, <1>2, <1>3, <1>4, <1>5, <1>7
<1> HIDE DEF m
<1>8. Course(T, L, C)'
  <2>1. \A p \in Pair : OnCourse(T[p], L[p], C[p], ctrl'[p], posted'[p], slot'[p])  BY <1>6, <1>7
  <2> QED BY <1>4, <2>1 DEF Course
<1>9. Told(T, L, C, tab, line, cut, u, msg)
  <2>1. ASSUME NEW p \in Pair
        PROVE  /\ C[p][0] = cut[p][0]
               /\ ToldTo(u, p) => L[p] = line[p] \o Posts(A(p), msg[p[2]])
                                  /\ T[p][Len(ctrl[p]) + 1] = SlotAfter(A(p), msg[p[2]])
               /\ ~ ToldTo(u, p) => L[p] = line[p] /\ T[p] = tab[p]
    BY <1>6, <1>7 DEF m
  <2> QED BY <2>1 DEF Told, AtEnd
<1> QED BY <1>6, <1>7, <1>8, <1>9

\* Pairs stay on course while no message is sent or taken.
LEMMA CourseSame ==
  ASSUME NEW tab, NEW line, NEW cut, Course(tab, line, cut), ctrl' = ctrl, posted' = posted, slot' = slot
  PROVE  Course(tab, line, cut)' /\ \A p : AtEnd(tab, p)' = AtEnd(tab, p)
  BY DEF Course, AtEnd

\* What is untold.
LEMMA UntoldIs ==
  ASSUME NEW p, NEW o
  PROVE  o \in Untold(p) <=>
           \E v \in User : \E j \in Piece(v) :
             /\ Home[v] = p[1] /\ step[v] = "sent" /\ Batch[v][j] = p[2]
             /\ o = Op(v, at[v], j, 1, tags[v])
  BY DEF Untold

\* Nothing becomes untold or told while threads stay where they are.
LEMMA UntoldSame ==
  ASSUME Called, NEW u \in User, UserNext(u), step[u] # "sent", step'[u] # "sent", NEW p
  PROVE  Untold(p)' = Untold(p)
<1>1. \A v \in User : step'[v] = "sent" \/ step[v] = "sent" =>
        v # u /\ step'[v] = step[v] /\ at'[v] = at[v] /\ tags'[v] = tags[v]
  BY CalledOthers
<1>2. {v \in User : Home[v] = p[1] /\ step'[v] = "sent"} = {v \in User : Home[v] = p[1] /\ step[v] = "sent"}
  BY <1>1
<1>3. \A v \in {v \in User : Home[v] = p[1] /\ step[v] = "sent"} :
        {Op(v, at'[v], j, 1, tags'[v]) : j \in {j \in Piece(v) : Batch[v][j] = p[2]}} =
        {Op(v, at[v], j, 1, tags[v]) : j \in {j \in Piece(v) : Batch[v][j] = p[2]}}
  BY <1>1
<1> QED BY <1>2, <1>3 DEF Untold

\* The data of a put is untold until its control messages are sent.
LEMMA UntoldPut ==
  ASSUME Called, NEW u \in User, UserNext(u), step[u] # "sent", step'[u] = "sent", at'[u] = at[u],
         NEW p, NEW o
  PROVE  o \in Untold(p)' <=>
           \/ o \in Untold(p)
           \/ Home[u] = p[1] /\ \E j \in PiecesFor(u, p[2]) : o = Op(u, at[u], j, 1, tags'[u])
<1>1. \A v \in User \ {u} : step'[v] = step[v] /\ at'[v] = at[v] /\ tags'[v] = tags[v]
  BY CalledOthers
<1>2. o \in Untold(p)' <=>
         \E v \in User : \E j \in Piece(v) :
           /\ Home[v] = p[1] /\ step'[v] = "sent" /\ Batch[v][j] = p[2]
           /\ o = Op(v, at'[v], j, 1, tags'[v])
  BY DEF Untold
<1>3. o \in Untold(p) <=>
         \E v \in User \ {u} : \E j \in Piece(v) :
           /\ Home[v] = p[1] /\ step[v] = "sent" /\ Batch[v][j] = p[2]
           /\ o = Op(v, at[v], j, 1, tags[v])
  BY UntoldIs
<1> QED BY <1>1, <1>2, <1>3 DEF PiecesFor

\* The control messages of a put tell all of its data.
LEMMA UntoldTold ==
  ASSUME Called, NEW u \in User, UserNext(u), step[u] = "sent", step'[u] # "sent", NEW p, NEW o
  PROVE  /\ o \in Untold(p)' <=>
              o \in Untold(p) /\ \A j \in PiecesFor(u, p[2]) : o # Op(u, at[u], j, 1, tags[u])
         /\ Home[u] = p[1] => \A j \in PiecesFor(u, p[2]) : Op(u, at[u], j, 1, tags[u]) \in Untold(p)
<1>1. \A v \in User \ {u} : step'[v] = step[v] /\ at'[v] = at[v] /\ tags'[v] = tags[v]
  BY CalledOthers
<1>2. o \in Untold(p)' <=>
         \E v \in User \ {u} : \E j \in Piece(v) :
           /\ Home[v] = p[1] /\ step'[v] = "sent" /\ Batch[v][j] = p[2]
           /\ o = Op(v, at'[v], j, 1, tags'[v])
  BY DEF Untold
<1>3. o \in Untold(p) <=>
         \E v \in User : \E j \in Piece(v) :
           /\ Home[v] = p[1] /\ step[v] = "sent" /\ Batch[v][j] = p[2]
           /\ o = Op(v, at[v], j, 1, tags[v])
  BY UntoldIs
<1>4. \A v \in User \ {u} : \A j, l : Op(v, at[v], j, 1, tags[v]) # Op(u, at[u], l, 1, tags[u])
  BY DEF Op
<1>5. Home[u] = p[1] => \A j \in PiecesFor(u, p[2]) : Op(u, at[u], j, 1, tags[u]) \in Untold(p)
  BY UntoldIs DEF PiecesFor
<1> QED BY <1>1, <1>2, <1>3, <1>4, <1>5 DEF PiecesFor

---------------------------------------------------------------------------
(* Data and receives.                                                      *)

\* A piece of a batch in a start of its own program is a write of its pair.
LEMMA NewWrite ==
  ASSUME Called, NEW u \in User, NEW k \in DOMAIN prog[u], prog[u][k] \in Starting,
         NEW n \in 1..Len(prog[u]), NEW j \in Piece(u)
  PROVE  /\ <<<<u, k>>, j, n>> \in Write /\ <<u, k>> \in BatchKey
         /\ OnPair(<<Home[u], Batch[u][j]>>, <<<<u, k>>, j, n>>)
<1>1. prog \in Progs /\ n \in DOMAIN prog[u] /\ <<u, k>> \in BatchKey  BY CalledFacts DEF Called
<1> QED BY <1>1, WriteIs DEF OnPair

\* The tags of a thread that has not told its targets are out, and its own.
LEMMA UntoldTags ==
  ASSUME Called, TagsHeld, NEW u \in User, NEW d, NEW o \in Untold(<<Home[u], d>>)
  PROVE  /\ Out(tagPool[<<Home[u], d>>], o.tag)
         /\ step[u] # "sent" /\ Holds(Place(u)) => \A j \in PiecesFor(u, d) : tags[u][j] # o.tag
<1>0. PICK v \in User : \E j \in Piece(v) :
           /\ Home[v] = Home[u] /\ step[v] = "sent" /\ Batch[v][j] = d
           /\ o = Op(v, at[v], j, 1, tags[v])
  BY UntoldIs
<1>1. PICK j \in Piece(v) :
           /\ Home[v] = Home[u] /\ step[v] = "sent" /\ Batch[v][j] = d
           /\ o = Op(v, at[v], j, 1, tags[v])
  BY <1>0
<1>2. Holds(Place(v))  BY <1>1, CalledFacts DEF Holds, PutOpen, Place
<1>3. o.tag = tags[v][j]  BY <1>1 DEF Op
<1>4. Out(tagPool[<<Home[u], d>>], o.tag)
  BY <1>1, <1>2, <1>3 DEF TagsHeld, HeldOut
<1>5. ASSUME step[u] # "sent", Holds(Place(u)), NEW l \in PiecesFor(u, d) PROVE tags[u][l] # o.tag
  <2>1. l \in Piece(u) /\ Batch[u][l] = d /\ u # v  BY <1>1, <1>5 DEF PiecesFor
  <2>2. \A i \in Piece(u), m \in Piece(v) :
     /\ Holds(Place(u)) /\ Holds(Place(v)) /\ Home[u] = Home[v] /\ Batch[u][i] = Batch[v][m]
     /\ tags[u][i] = tags[v][m]
     => u = v /\ i = m
    BY DEF TagsHeld, HeldApart
  <2> QED BY <1>1, <1>2, <1>3, <1>5, <2>1, <2>2
<1> QED BY <1>4, <1>5

\* Receives and data match on while neither changes.
LEMMA MatchedSame ==
  ASSUME Called, Called', NEW line, NEW L, Matched(line), net' = net,
         \A p \in Pair : L[p] = line[p],
         \A p \in Pair : Untold(p)' = Untold(p),
         \A b \in BatchKey : starts[b] <= starts'[b]
  PROVE  Matched(L)'
<1>1. \A w : Begun(w) => Begun(w)'
  <2>1. \A w \in Write : w[1] \in BatchKey /\ w[3] \in Nat  BY WriteIs
  <2>2. starts \in [BatchKey -> Nat] /\ starts' \in [BatchKey -> Nat]  BY DEF Called
  <2> QED BY <2>1, <2>2 DEF Begun
<1> QED BY <1>1 DEF Matched, OnPair

\* Data of a put comes last under its tags, which nobody else holds.
LEMMA MatchedPut ==
  ASSUME Called, TagsHeld, NEW line, Matched(line), \A p \in Pair : line[p] \in Seq(OpType),
         NEW u \in User, Put(u)
  PROVE  Matched(line)'
<1> DEFINE k == at[u]
           ts == TagsTaken(u)
           S(p) == Ops(u, p[2], 1, ts)
<1>1. /\ Calls(u, "put") /\ tags' = [tags EXCEPT ![u] = ts] /\ net' = Messages(u, 1, ts)
      /\ starts' = [starts EXCEPT ![Mine(u)] = 1] /\ at' = at /\ step' = [step EXCEPT ![u] = "sent"]
  BY DEF Put
<1>2. /\ k \in DOMAIN prog[u] /\ prog[u][k] = "put" /\ step[u] = "begin" /\ k \in Nat \ {0}
      /\ DOMAIN prog[u] = 1..Len(prog[u]) /\ 1 \in 1..Len(prog[u])
  <2>1. k \in DOMAIN prog[u] /\ prog[u][k] = "put" /\ step[u] = "begin" /\ k \in Nat \ {0}
    BY <1>1, CalledWhere
  <2>2. DOMAIN prog[u] = 1..Len(prog[u]) /\ Len(prog[u]) \in Nat  BY CalledFacts
  <2> QED BY <2>1, <2>2
<1>3. Mine(u) = <<u, k>> /\ <<u, k>> \in BatchKey /\ starts[<<u, k>>] = 0  BY CalledPut
<1>4. DOMAIN step = User /\ DOMAIN tags = User /\ starts \in [BatchKey -> Nat]  BY DEF Called
<1>5. step'[u] = "sent" /\ tags'[u] = ts /\ at'[u] = at[u]  BY <1>1, <1>4
<1>6. DOMAIN tagPool = Pair /\ \A p \in Pair : PoolOK(tagPool[p])
  BY DEF TagsHeld, Pools
<1>7. /\ ts \in [Piece(u) -> Nat]
      /\ \A j \in Piece(u) : ~ Out(tagPool[<<Home[u], Batch[u][j]>>], ts[j])
      /\ \A j, l \in Piece(u) : Batch[u][j] = Batch[u][l] /\ ts[j] = ts[l] => j = l
  BY <1>6, TagsTakenIs
<1>8. \A w : Begun(w) => Begun(w)' /\ w[1] # <<u, k>>
  <2>1. \A w \in Write : w[1] \in BatchKey /\ w[3] \in Nat \ {0}  BY WriteIs
  <2> QED BY <1>1, <1>3, <1>4, <2>1 DEF Begun
<1>9. \A p \in Pair : net'[p] = IF p[1] = Home[u] THEN net[p] \o S(p) ELSE net[p]
  BY <1>1 DEF Messages
<1>10. DOMAIN net' = Pair  BY <1>1 DEF Messages
<1> HIDE DEF ts, S
<1>11. ASSUME NEW p \in Pair
       PROVE  /\ S(p) \in Seq(OpType) /\ Several(S(p))
              /\ Elements(S(p)) = {Op(u, k, j, 1, ts) : j \in PiecesFor(u, p[2])}
  <2>1. 1 \in Nat  OBVIOUS
  <2> QED BY <1>3, <1>7, <2>1, OpsIs DEF S
<1>12. ASSUME NEW p \in Pair, p[1] = Home[u]
       PROVE  /\ net'[p] \in Seq(OpType) /\ Lined(line[p], net'[p], Untold(p)')
              /\ \A i \in DOMAIN net'[p] : Begun(net[p][i].w)' /\ OnPair(p, net'[p][i].w)
  <2>1. /\ net[p] \in Seq(OpType) /\ Lined(line[p], net[p], Untold(p)) /\ line[p] \in Seq(OpType)
        /\ \A i \in DOMAIN net[p] : Begun(net[p][i].w) /\ OnPair(p, net[p][i].w)
    BY DEF Matched
  <2>2. p = <<Home[u], p[2]>>  BY <1>12 DEF Pair
  <2>3. \A x \in DOMAIN S(p) : \E j \in PiecesFor(u, p[2]) : S(p)[x] = Op(u, k, j, 1, ts)
    BY <1>11 DEF Elements
  <2>4. \A x \in DOMAIN S(p) : \A i \in DOMAIN net[p] : S(p)[x].w # net[p][i].w
    <3>1. \A x \in DOMAIN S(p) : S(p)[x].w[1] = <<u, k>>  BY <2>3 DEF Op
    <3> QED BY <1>8, <2>1, <3>1
  <2>5. \A x \in DOMAIN S(p) : \A o \in Untold(p) : S(p)[x].tag # o.tag
    <3> SUFFICES ASSUME NEW x \in DOMAIN S(p), NEW o \in Untold(p), S(p)[x].tag = o.tag PROVE FALSE
      OBVIOUS
    <3>1. PICK j \in PiecesFor(u, p[2]) : S(p)[x] = Op(u, k, j, 1, ts)  BY <2>3
    <3>2. S(p)[x].tag = ts[j] /\ j \in Piece(u) /\ Batch[u][j] = p[2]  BY <3>1 DEF Op, PiecesFor
    <3>3. o \in Untold(<<Home[u], p[2]>>)  BY <2>2
    <3>4. Out(tagPool[<<Home[u], p[2]>>], o.tag)  BY <3>3, UntoldTags
    <3> QED BY <1>7, <3>2, <3>4
  <2>6. Lined(line[p], net[p] \o S(p), Untold(p) \cup Elements(S(p)))
    BY <1>11, <2>1, <2>4, <2>5, LinedSend
  <2>7. Untold(p)' = Untold(p) \cup Elements(S(p))
    <3>1. UserNext(u)  BY DEF UserNext
    <3>a. step[u] # "sent" /\ step'[u] = "sent" /\ at'[u] = at[u]  BY <1>2, <1>5
    <3>2. \A o : o \in Untold(p)' <=>
            \/ o \in Untold(p)
            \/ Home[u] = p[1] /\ \E j \in PiecesFor(u, p[2]) : o = Op(u, at[u], j, 1, tags'[u])
      BY <3>1, <3>a, UntoldPut
    <3>3. \A o : o \in Untold(p)' <=>
            o \in Untold(p) \/ \E j \in PiecesFor(u, p[2]) : o = Op(u, k, j, 1, ts)
      BY <1>5, <1>12, <3>2
    <3> QED BY <1>11, <3>3
  <2>8. net'[p] = net[p] \o S(p)  BY <1>9, <1>12
  <2>9. net'[p] \in Seq(OpType)  BY <1>11, <2>1, <2>8, Joined
  <2>10. ASSUME NEW i \in DOMAIN net'[p]
         PROVE  Begun(net[p][i].w)' /\ OnPair(p, net'[p][i].w)
    <3>1. CASE i \in DOMAIN net[p]
      <4>1. net'[p][i] = net[p][i]  BY <1>11, <2>1, <2>8, <3>1, Joined
      <4> QED BY <1>8, <2>1, <3>1, <4>1
    <3>2. CASE i \notin DOMAIN net[p]
      <4>0. i \in DOMAIN (net[p] \o S(p))  BY <2>8, <2>10
      <4>b. S(p) \in Seq(OpType) /\ net[p] \in Seq(OpType)  BY <1>11, <2>1
      <4>a. PICK x \in DOMAIN S(p) : i = Len(net[p]) + x  BY <4>b, <4>0, <3>2, Joined
      <4>1. net'[p][i] = S(p)[x]  BY <4>a, <4>b, <2>8, Joined
      <4>2. PICK j \in PiecesFor(u, p[2]) : S(p)[x] = Op(u, k, j, 1, ts)  BY <2>3
      <4>3. net'[p][i].w = <<<<u, k>>, j, 1>> /\ j \in Piece(u) /\ Batch[u][j] = p[2]
        BY <4>1, <4>2 DEF Op, PiecesFor
      <4>4. <<<<u, k>>, j, 1>> \in Write /\ OnPair(p, <<<<u, k>>, j, 1>>)
        BY <1>2, <2>2, <4>3, NewWrite DEF Starting
      <4>5. Begun(<<<<u, k>>, j, 1>>)'  BY <1>1, <1>3, <1>4, <4>4 DEF Begun
      <4> DEFINE w == <<<<u, k>>, j, 1>>
      <4>6. net'[p][i].w = w /\ w \in Write /\ w[3] <= starts'[w[1]] /\ OnPair(p, w)
        BY <1>5, <4>3, <4>4, <4>5 DEF Begun
      <4> HIDE DEF w
      <4> QED BY <4>6 DEF Begun
    <3> QED BY <3>1, <3>2
  <2> QED BY <2>6, <2>7, <2>8, <2>9, <2>10
<1>13. ASSUME NEW p \in Pair, p[1] # Home[u]
       PROVE  /\ net'[p] \in Seq(OpType) /\ Lined(line[p], net'[p], Untold(p)')
              /\ \A i \in DOMAIN net'[p] : Begun(net[p][i].w)' /\ OnPair(p, net'[p][i].w)
  <2>1. /\ net[p] \in Seq(OpType) /\ Lined(line[p], net[p], Untold(p))
        /\ \A i \in DOMAIN net[p] : Begun(net[p][i].w) /\ OnPair(p, net[p][i].w)
    BY DEF Matched
  <2>2. Untold(p)' = Untold(p)
    <3>1. UserNext(u)  BY DEF UserNext
    <3> QED BY <1>2, <1>5, <1>13, <3>1, UntoldPut
  <2> QED BY <1>8, <1>9, <1>13, <2>1, <2>2
<1> QED BY <1>10, <1>12, <1>13 DEF Matched, OnPair

\* The writes of a thread that holds its tags.
LEMMA HeldOps ==
  ASSUME Called, TagsHeld, NEW u \in User, Holds(Place(u)), NEW k, Mine(u) = <<u, k>>,
         <<u, k>> \in BatchKey, NEW n \in Nat, NEW d
  PROVE  /\ Ops(u, d, n, tags[u]) \in Seq(OpType) /\ Several(Ops(u, d, n, tags[u]))
         /\ Elements(Ops(u, d, n, tags[u])) = {Op(u, k, j, n, tags[u]) : j \in PiecesFor(u, d)}
         /\ DOMAIN Ops(u, d, n, tags[u]) = DOMAIN PiecesTo(u, d)
         /\ \A i \in DOMAIN PiecesTo(u, d) :
              Ops(u, d, n, tags[u])[i] = Op(u, k, PiecesTo(u, d)[i], n, tags[u])
<1>1. tags[u] \in [Piece(u) -> Nat]
  BY DEF TagsHeld, HeldOut
<1>2. \A j, l \in Piece(u) : Batch[u][j] = Batch[u][l] /\ tags[u][j] = tags[u][l] => j = l
  <2>1. \A j \in Piece(u), l \in Piece(u) :
     /\ Holds(Place(u)) /\ Holds(Place(u)) /\ Home[u] = Home[u] /\ Batch[u][j] = Batch[u][l]
     /\ tags[u][j] = tags[u][l]
     => u = u /\ j = l
    BY DEF TagsHeld, HeldApart
  <2> QED BY <2>1
<1> HIDE DEF TagsHeld
<1> QED BY <1>1, <1>2, OpsIs

\* A rank without pieces gets no data.
LEMMA OpsNone ==
  ASSUME NEW u \in User, NEW d, d \notin Target(u), NEW n, NEW ts
  PROVE  Ops(u, d, n, ts) = <<>> /\ PiecesFor(u, d) = {}
<1>1. PiecesFor(u, d) = {}  BY BatchIs DEF PiecesFor
<1>2. DOMAIN PiecesTo(u, d) = {}
  <2>1. /\ DOMAIN PiecesTo(u, d) = 1..Len(PiecesTo(u, d))
        /\ \A i \in DOMAIN PiecesTo(u, d) : PiecesTo(u, d)[i] \in Piece(u) /\ Batch[u][PiecesTo(u, d)[i]] = d
    BY PiecesToIs
  <2> QED BY <1>1, <2>1 DEF PiecesFor
<1> QED BY <1>1, <1>2 DEF Ops

\* The receives of a put come after all others under its tags.
LEMMA MatchedPutCtrl ==
  ASSUME Called, TagsHeld, NEW line, NEW L, Matched(line), \A p \in Pair : line[p] \in Seq(OpType),
         NEW u \in User, PutCtrl(u),
         \A p \in Pair : L[p] = IF ToldTo(u, p) THEN line[p] \o Ops(u, p[2], 1, tags[u]) ELSE line[p]
  PROVE  Matched(L)'
<1> DEFINE S(p) == Ops(u, p[2], 1, tags[u])
<1>1. /\ step[u] = "sent" /\ at' = at /\ starts' = starts /\ net' = net
      /\ step' = [step EXCEPT ![u] = "append"]
  BY DEF PutCtrl
<1>2. PICK k : k = at[u]  OBVIOUS
<1>3. Mine(u) = <<u, k>> /\ <<u, k>> \in BatchKey /\ prog[u][k] = "put"  BY <1>2, CalledPutCtrl
<1>4. UserNext(u) /\ step'[u] # "sent" /\ Holds(Place(u))
  BY <1>1, <1>2, <1>3 DEF UserNext, Called, Holds, PutOpen, Place
<1>5. \A w : Begun(w) => Begun(w)'  BY <1>1 DEF Begun
<1> HIDE DEF S
<1>6. ASSUME NEW p \in Pair, ToldTo(u, p)
      PROVE  Lined(L[p], net[p], Untold(p)')
  <2>1. /\ net[p] \in Seq(OpType) /\ Lined(line[p], net[p], Untold(p)) /\ line[p] \in Seq(OpType)
    BY DEF Matched
  <2>2. 1 \in Nat  OBVIOUS
  <2>3. /\ S(p) \in Seq(OpType) /\ Several(S(p))
        /\ Elements(S(p)) = {Op(u, k, j, 1, tags[u]) : j \in PiecesFor(u, p[2])}
    BY <1>3, <1>4, <2>2, HeldOps DEF S
  <2>4. \A o : o \in Untold(p)' <=>
            o \in Untold(p) /\ \A j \in PiecesFor(u, p[2]) : o # Op(u, at[u], j, 1, tags[u])
    BY <1>1, <1>4, UntoldTold
  <2>5. Home[u] = p[1] => \A j \in PiecesFor(u, p[2]) : Op(u, at[u], j, 1, tags[u]) \in Untold(p)
    BY <1>1, <1>4, UntoldTold
  <2>6. \A x \in DOMAIN S(p) : S(p)[x] \in Untold(p)
    <3>1. \A x \in DOMAIN S(p) : S(p)[x] \in Elements(S(p))  BY DEF Elements
    <3> QED BY <1>2, <1>6, <2>3, <2>5, <3>1 DEF ToldTo
  <2>7. Untold(p)' = Untold(p) \ Elements(S(p))  BY <1>2, <2>3, <2>4
  <2>8. Lined(line[p] \o S(p), net[p], Untold(p) \ Elements(S(p)))  BY <2>1, <2>3, <2>6, LinedTell
  <2>9. L[p] = line[p] \o S(p)  BY <1>6 DEF S
  <2> QED BY <2>7, <2>8, <2>9
<1>7. ASSUME NEW p \in Pair, ~ ToldTo(u, p)
      PROVE  Lined(L[p], net[p], Untold(p)')
  <2>1. L[p] = line[p] /\ Lined(line[p], net[p], Untold(p))  BY <1>7 DEF Matched
  <2>2. \A o : o \in Untold(p)' <=>
            o \in Untold(p) /\ \A j \in PiecesFor(u, p[2]) : o # Op(u, at[u], j, 1, tags[u])
    BY <1>1, <1>4, UntoldTold
  <2>3. \A o : o \in Untold(p)' <=> o \in Untold(p)
    <3>1. CASE p[1] = Home[u]
      <4>1. PiecesFor(u, p[2]) = {}  BY <1>7, <3>1, OpsNone DEF ToldTo
      <4> QED BY <2>2, <4>1
    <3>2. CASE p[1] # Home[u]
      <4>1. \A o \in Untold(p) : \A j : o # Op(u, at[u], j, 1, tags[u])
        <5> SUFFICES ASSUME NEW o \in Untold(p), NEW j, o = Op(u, at[u], j, 1, tags[u]) PROVE FALSE
          OBVIOUS
        <5>1. PICK v \in User : Home[v] = p[1] /\ \E l \in Piece(v) : o = Op(v, at[v], l, 1, tags[v])
          BY UntoldIs
        <5> QED BY <3>2, <5>1 DEF Op
      <4> QED BY <2>2, <4>1
    <3> QED BY <3>1, <3>2
  <2>4. Untold(p)' = Untold(p)  BY <2>3
  <2> QED BY <2>1, <2>4
<1>8. DOMAIN net' = Pair /\ \A p \in Pair :
        /\ net'[p] \in Seq(OpType)
        /\ \A i \in DOMAIN net'[p] : Begun(net[p][i].w)' /\ OnPair(p, net'[p][i].w)
  BY <1>1, <1>5 DEF Matched
<1> QED BY <1>1, <1>6, <1>7, <1>8 DEF Matched, OnPair

\* The receives and the data of a started plan go to the same pairs together.
LEMMA MatchedStart ==
  ASSUME Called, TagsHeld, NEW line, NEW L, Matched(line), \A p \in Pair : line[p] \in Seq(OpType),
         NEW u \in User, Start(u),
         \A p \in Pair : L[p] = IF ToldTo(u, p) THEN line[p] \o Ops(u, p[2], starts[Mine(u)] + 1, tags[u])
                                                ELSE line[p]
  PROVE  Matched(L)'
<1>1. PICK n : n = starts[Mine(u)] + 1  OBVIOUS
<1> DEFINE S(p) == Ops(u, p[2], n, tags[u])
<1>2. /\ Calls(u, "start") /\ at' = at /\ starts' = [starts EXCEPT ![Mine(u)] = n]
      /\ net' = Messages(u, n, tags[u]) /\ step' = [step EXCEPT ![u] = "append"] /\ tags' = tags
  BY <1>1 DEF Start
<1>3. PICK k \in DOMAIN prog[u] :
        /\ Mine(u) = <<u, k>> /\ <<u, k>> \in BatchKey /\ prog[u][k] = "create"
        /\ OpenPlan(Place(u), k)
  BY <1>2, CalledPlan
<1>4. /\ at[u] \in DOMAIN prog[u] /\ prog[u][at[u]] = "start" /\ step[u] = "begin"
      /\ DOMAIN prog[u] = 1..Len(prog[u]) /\ Len(prog[u]) \in Nat
  BY <1>2, CalledWhere, CalledFacts
<1>5. starts \in [BatchKey -> Nat] /\ starts[<<u, k>>] <= at[u] - 1 /\ DOMAIN step = User
  BY <1>3, <1>4 DEF Called, Caller
<1>6. n \in 1..Len(prog[u]) /\ n = starts[<<u, k>>] + 1 /\ n \in Nat  BY <1>1, <1>3, <1>4, <1>5
<1>7. UserNext(u) /\ step[u] # "sent" /\ step'[u] # "sent" /\ Holds(Place(u))
  <2>1. Holds(Place(u))  BY <1>3, <1>4 DEF Holds, Place
  <2> QED BY <1>2, <1>4, <1>5, <2>1 DEF UserNext
<1>8. \A p : Untold(p)' = Untold(p)  BY <1>7, UntoldSame
<1>9. \A w : Begun(w) => Begun(w)' /\ (w[1] = <<u, k>> => w[3] < n)
  <2>1. \A w \in Write : w[1] \in BatchKey /\ w[3] \in Nat \ {0}  BY WriteIs
  <2> QED BY <1>2, <1>3, <1>5, <1>6, <2>1, SMTT(40) DEF Begun
<1>10. \A p \in Pair : net'[p] = IF p[1] = Home[u] THEN net[p] \o S(p) ELSE net[p]
  BY <1>2 DEF Messages
<1>11. DOMAIN net' = Pair  BY <1>2 DEF Messages
<1> HIDE DEF S
<1>12. ASSUME NEW p \in Pair, ToldTo(u, p)
       PROVE  /\ net'[p] \in Seq(OpType) /\ Lined(L[p], net'[p], Untold(p)')
              /\ \A i \in DOMAIN net'[p] : Begun(net[p][i].w)' /\ OnPair(p, net'[p][i].w)
  <2>1. /\ net[p] \in Seq(OpType) /\ Lined(line[p], net[p], Untold(p)) /\ line[p] \in Seq(OpType)
        /\ \A i \in DOMAIN net[p] : Begun(net[p][i].w) /\ OnPair(p, net[p][i].w)
    BY DEF Matched
  <2>2. p = <<Home[u], p[2]>> /\ p[1] = Home[u]  BY <1>12 DEF Pair, ToldTo
  <2>a. /\ S(p) \in Seq(OpType) /\ Several(S(p))
        /\ Elements(S(p)) = {Op(u, k, j, n, tags[u]) : j \in PiecesFor(u, p[2])}
    BY <1>3, <1>6, <1>7, HeldOps, ZenonT(40) DEF S
  <2>3. \A x \in DOMAIN S(p) : \E j \in PiecesFor(u, p[2]) : S(p)[x] = Op(u, k, j, n, tags[u])
    BY <2>a DEF Elements
  <2>4. \A x \in DOMAIN S(p) : \A i \in DOMAIN net[p] : S(p)[x].w # net[p][i].w
    <3>1. \A x \in DOMAIN S(p) : S(p)[x].w[1] = <<u, k>> /\ S(p)[x].w[3] = n  BY <2>3 DEF Op
    <3>2. \A i \in DOMAIN net[p] : net[p][i].w[1] = <<u, k>> => net[p][i].w[3] < n  BY <1>9, <2>1
    <3> QED BY <1>6, <3>1, <3>2, SMTT(40)
  <2>5. \A x \in DOMAIN S(p) : \A o \in Untold(p) : S(p)[x].tag # o.tag
    <3> SUFFICES ASSUME NEW x \in DOMAIN S(p), NEW o \in Untold(p), S(p)[x].tag = o.tag PROVE FALSE
      OBVIOUS
    <3>1. PICK j \in PiecesFor(u, p[2]) : S(p)[x] = Op(u, k, j, n, tags[u])  BY <2>3
    <3>2. S(p)[x].tag = tags[u][j]  BY <3>1 DEF Op
    <3>3. o \in Untold(<<Home[u], p[2]>>)  BY <2>2
    <3>4. tags[u][j] # o.tag  BY <1>7, <3>1, <3>3, UntoldTags
    <3> QED BY <3>2, <3>4
  <2>6. Lined(line[p] \o S(p), net[p] \o S(p), Untold(p))  BY <2>a, <2>1, <2>4, <2>5, LinedStart
  <2>8. net'[p] = net[p] \o S(p) /\ L[p] = line[p] \o S(p)  BY <1>1, <1>10, <1>12, <2>2 DEF S
  <2>9. net'[p] \in Seq(OpType)  BY <2>a, <2>1, <2>8, Joined
  <2>10. ASSUME NEW i \in DOMAIN net'[p]
         PROVE  Begun(net[p][i].w)' /\ OnPair(p, net'[p][i].w)
    <3>1. CASE i \in DOMAIN net[p]
      <4>1. net'[p][i] = net[p][i]  BY <2>a, <2>1, <2>8, <3>1, Joined
      <4> QED BY <1>9, <2>1, <3>1, <4>1
    <3>2. CASE i \notin DOMAIN net[p]
      <4>0. i \in DOMAIN (net[p] \o S(p))  BY <2>8, <2>10
      <4>b. S(p) \in Seq(OpType) /\ net[p] \in Seq(OpType)  BY <2>a, <2>1
      <4>a. PICK x \in DOMAIN S(p) : i = Len(net[p]) + x  BY <4>b, <4>0, <3>2, Joined
      <4>1. net'[p][i] = S(p)[x]  BY <4>a, <4>b, <2>8, Joined
      <4>2. PICK j \in PiecesFor(u, p[2]) : S(p)[x] = Op(u, k, j, n, tags[u])  BY <2>3
      <4> DEFINE w == <<<<u, k>>, j, n>>
      <4>3. net'[p][i].w = w /\ j \in Piece(u) /\ Batch[u][j] = p[2]
        BY <4>1, <4>2 DEF Op, PiecesFor
      <4>4. w \in Write /\ OnPair(p, w)  BY <1>3, <1>6, <2>2, <4>3, NewWrite DEF Starting
      <4>5. w[3] <= starts'[w[1]]  BY <1>2, <1>3, <1>5, <1>6
      <4> HIDE DEF w
      <4> QED BY <4>3, <4>4, <4>5 DEF Begun
    <3> QED BY <3>1, <3>2
  <2> QED BY <1>8, <2>6, <2>8, <2>9, <2>10
<1>13. ASSUME NEW p \in Pair, ~ ToldTo(u, p)
       PROVE  /\ net'[p] \in Seq(OpType) /\ Lined(L[p], net'[p], Untold(p)')
              /\ \A i \in DOMAIN net'[p] : Begun(net[p][i].w)' /\ OnPair(p, net'[p][i].w)
  <2>1. /\ net[p] \in Seq(OpType) /\ Lined(line[p], net[p], Untold(p))
        /\ \A i \in DOMAIN net[p] : Begun(net[p][i].w) /\ OnPair(p, net[p][i].w)
    BY DEF Matched
  <2>2. net'[p] = net[p]
    <3>1. CASE p[1] = Home[u]
      <4>1. S(p) = <<>>  BY <1>13, <3>1, OpsNone DEF S, ToldTo
      <4>2. net'[p] = net[p] \o <<>>  BY <1>10, <3>1, <4>1
      <4> QED BY <2>1, <4>2
    <3>2. CASE p[1] # Home[u]  BY <1>10, <3>2
    <3> QED BY <3>1, <3>2
  <2>3. L[p] = line[p]  BY <1>13
  <2> QED BY <1>8, <1>9, <2>1, <2>2, <2>3
<1> QED BY <1>11, <1>12, <1>13 DEF Matched, OnPair

\* MPI completes a receive with the data of its own write.
LEMMA MatesOwn ==
  ASSUME NEW tab, NEW line, NEW cut, Course(tab, line, cut), Matched(line), NEW p \in Pair,
         NEW im \in Mates(p)
  PROVE  /\ im[1] \in DOMAIN posted[p] /\ im[2] \in DOMAIN net[p] /\ im[1] \in DOMAIN line[p]
         /\ line[p][im[1]] = net[p][im[2]] /\ posted[p][im[1]] = net[p][im[2]]
         /\ line[p] \in Seq(OpType) /\ posted[p] \in Seq(OpType) /\ net[p] \in Seq(OpType)
         /\ DOMAIN posted[p] \subseteq DOMAIN line[p]
<1> DEFINE i == im[1]
           k == im[2]
           P == posted[p]
           N == net[p]
           L == line[p]
<1>1. i \in DOMAIN P /\ k \in DOMAIN N /\ P[i].tag = N[k].tag /\ Nth(P, i) = Nth(N, k)  BY DEF Mates
<1>2. N \in Seq(OpType) /\ Lined(L, N, Untold(p))  BY DEF Matched
<1>3. OnCourse(tab[p], L, cut[p], ctrl[p], P, slot[p])  BY DEF Course
<1> HIDE DEF i, k, P, N, L
<1>4. /\ P \in Seq(OpType) /\ L \in Seq(OpType) /\ cut[p][0] = Len(P) /\ 0 \in 0..Len(ctrl[p])
      /\ cut[p] \in [0..Len(ctrl[p]) -> 0..Len(L)] /\ \A x \in 1..Len(P) : P[x] = L[x]
  <2>1. ctrl[p] \in Seq(MsgType)  BY <1>3 DEF OnCourse
  <2>2. Len(ctrl[p]) \in Nat  BY <2>1
  <2> QED BY <1>3, <2>2 DEF OnCourse
<1>5. Len(P) \in 0..Len(L) /\ DOMAIN P = 1..Len(P) /\ DOMAIN L = 1..Len(L) /\ Len(L) \in Nat
  BY <1>4
<1>6. i \in DOMAIN L /\ L[i] = P[i] /\ i \in Nat  BY <1>1, <1>4, <1>5
<1>7. Nth(L, i) = Nth(P, i)
  <2>1. \A x \in 1..i : L[x] = P[x]  BY <1>1, <1>4, <1>5
  <2>2. {x \in 1..i : L[x].tag = L[i].tag} = {x \in 1..i : P[x].tag = P[i].tag}  BY <1>6, <2>1
  <2> QED BY <2>2 DEF Nth
<1>8. L[i] = N[k]  BY <1>1, <1>2, <1>4, <1>6, <1>7, OwnMates
<1> QED BY <1>1, <1>2, <1>4, <1>5, <1>6, <1>8 DEF i, k, P, N, L

\* What is matched is matched with its own data: OwnData, of one state.
LEMMA OwnDataIs ==
  ASSUME NEW tab, NEW line, NEW cut, Course(tab, line, cut), Matched(line)
  PROVE  OwnData
  BY MatesOwn DEF OwnData

\* What a test does, in terms of lists.
LEMMA TestIs ==
  ASSUME NEW r, Test(r)
  PROVE  /\ dpc[r] = "drain"
         /\ \E D \in SUBSET Complete(r) :
              /\ D # {}
              /\ done' = [done EXCEPT ![r] = [n \in 1..Cardinality(D) |->
                            [idx |-> Ordered(D)[n], req |-> reqs[r][Ordered(D)[n]]]]]
              /\ posted' = [p \in Pair |-> Without(posted[p], {im[1] : im \in OverPairs(r, D, p)})]
              /\ net' = [p \in Pair |-> Without(net[p], {im[2] : im \in OverPairs(r, D, p)})]
              /\ dpc' = [dpc EXCEPT ![r] =
                   IF \E i \in D : reqs[r][i].kind \in {"send", "recv"} THEN "signal" ELSE "remove"]
         /\ UNCHANGED <<uvars, tagPool, idPool, ctrl, slot, reqs, svars>>
  BY DEF Test, OverPairs

\* What a test completes was matched.
LEMMA OverMates ==
  ASSUME NEW r, NEW D, NEW p \in Pair
  PROVE  /\ OverPairs(r, D, p) \subseteq Mates(p)
         /\ \A im \in OverPairs(r, D, p) : p[2] = r /\ \E i \in D :
              reqs[r][i].kind = "recv" /\ reqs[r][i].peer = p[1] /\ posted[p][im[1]].w = reqs[r][i].w
<1> SUFFICES ASSUME NEW im \in OverPairs(r, D, p)
             PROVE  im \in Mates(p) /\ p[2] = r /\ \E i \in D :
            reqs[r][i].kind = "recv" /\ reqs[r][i].peer = p[1] /\ posted[p][im[1]].w = reqs[r][i].w
  OBVIOUS
<1>1. p[2] = r  BY DEF OverPairs
<1>2. PICK i \in {i \in D : reqs[r][i].kind = "recv" /\ reqs[r][i].peer = p[1]} : im \in MatesOf(r, reqs[r][i])
  BY <1>1 DEF OverPairs
<1>3. p = <<reqs[r][i].peer, r>>  BY <1>1, <1>2 DEF Pair
<1> QED BY <1>1, <1>2, <1>3 DEF MatesOf

\* Receives and data are completed in pairs.
LEMMA TestMoves ==
  ASSUME Called, NEW tab, NEW line, NEW cut, Course(tab, line, cut), Matched(line),
         NEW r \in Rank, NEW D,
         posted' = [p \in Pair |-> Without(posted[p], {im[1] : im \in OverPairs(r, D, p)})],
         net' = [p \in Pair |-> Without(net[p], {im[2] : im \in OverPairs(r, D, p)})],
         UNCHANGED <<uvars, ctrl, slot>>
  PROVE  \E L, C :
           /\ Course(tab, L, C)' /\ Matched(L)'
           /\ \A p \in Pair : \E f :
                /\ Thinned(L[p], line[p], {im[1] : im \in OverPairs(r, D, p)}, f)
                /\ Firsts(L[p], f, C[p][0], cut[p][0])
<1> DEFINE I(p) == {im[1] : im \in OverPairs(r, D, p)}
           J(p) == {im[2] : im \in OverPairs(r, D, p)}
           Good(p, t) ==
             /\ OnCourse(tab[p], t[1], t[2], ctrl[p], Without(posted[p], I(p)), slot[p])
             /\ t[1] \in Seq(OpType) /\ Thinned(t[1], line[p], I(p), t[3])
             /\ Firsts(t[1], t[3], t[2][0], cut[p][0])
<1>1. \A p \in Pair : OnCourse(tab[p], line[p], cut[p], ctrl[p], posted[p], slot[p])  BY DEF Course
<1>2. \A p \in Pair : \A im \in OverPairs(r, D, p) :
        /\ im[1] \in DOMAIN posted[p] /\ im[2] \in DOMAIN net[p] /\ im[1] \in DOMAIN line[p]
        /\ line[p][im[1]] = net[p][im[2]]
  BY OverMates, MatesOwn
<1>3. ASSUME NEW p \in Pair PROVE \E t : Good(p, t)
  <2>1. OnCourse(tab[p], line[p], cut[p], ctrl[p], posted[p], slot[p]) /\ I(p) \in SUBSET (DOMAIN posted[p])
    BY <1>1, <1>2
  <2> HIDE DEF I
  <2>2. PICK K, C, f :
         /\ OnCourse(tab[p], K, C, ctrl[p], Without(posted[p], I(p)), slot[p])
         /\ K \in Seq(OpType) /\ line[p] \in Seq(OpType) /\ Thinned(K, line[p], I(p), f)
         /\ Firsts(K, f, C[0], cut[p][0])
    BY <2>1, CourseTest
  <2> DEFINE t == <<K, C, f>>
  <2>3. t[1] = K /\ t[2] = C /\ t[3] = f  OBVIOUS
  <2> HIDE DEF t
  <2>4. Good(p, t)  BY <2>2, <2>3
  <2> QED BY <2>4
<1> HIDE DEF Good, I
<1>4. PICK G : G = [p \in Pair |-> CHOOSE t : Good(p, t)]  OBVIOUS
<1>5. \A p \in Pair : Good(p, G[p])  BY <1>3, <1>4
<1>6. PICK L : L = [p \in Pair |-> G[p][1]]  OBVIOUS
<1>7. PICK C : C = [p \in Pair |-> G[p][2]]  OBVIOUS
<1>8. \A p \in Pair :
        /\ OnCourse(tab[p], L[p], C[p], ctrl'[p], posted'[p], slot'[p])
        /\ L[p] \in Seq(OpType)
        /\ \E f : /\ Thinned(L[p], line[p], I(p), f)
                  /\ Firsts(L[p], f, C[p][0], cut[p][0])
  <2> TAKE p \in Pair
  <2>1. L[p] = G[p][1] /\ C[p] = G[p][2] /\ Good(p, G[p])  BY <1>5, <1>6, <1>7
  <2>2. posted'[p] = Without(posted[p], I(p)) /\ ctrl'[p] = ctrl[p] /\ slot'[p] = slot[p]  BY DEF I
  <2> QED BY <2>1, <2>2 DEF Good
<1>9. Course(tab, L, C)'
  <2>1. DOMAIN ctrl' = Pair /\ DOMAIN posted' = Pair /\ DOMAIN slot' = Pair  BY DEF Course
  <2> QED BY <1>8, <2>1 DEF Course
<1>10. /\ \A p : Untold(p)' = Untold(p)
       /\ \A w : Begun(w) => Begun(w)'
  BY CalledSame DEF Begun
<1>11. ASSUME NEW p \in Pair
       PROVE  /\ net'[p] \in Seq(OpType) /\ Lined(L[p], net'[p], Untold(p)')
              /\ \A i \in DOMAIN net'[p] : Begun(net[p][i].w)' /\ OnPair(p, net'[p][i].w)
  <2>1. /\ net[p] \in Seq(OpType) /\ Lined(line[p], net[p], Untold(p)) /\ line[p] \in Seq(OpType)
        /\ \A i \in DOMAIN net[p] : Begun(net[p][i].w) /\ OnPair(p, net[p][i].w)
    BY <1>1 DEF Matched, OnCourse
  <2>2. J(p) \in SUBSET (DOMAIN net[p])  BY <1>2
  <2>3. net'[p] = Without(net[p], J(p))  OBVIOUS
  <2>4. \A i \in DOMAIN line[p] : \A k \in DOMAIN net[p] : line[p][i] = net[p][k] =>
          (i \in I(p) <=> k \in J(p))
    <3> TAKE i \in DOMAIN line[p]
    <3> TAKE k \in DOMAIN net[p]
    <3>1. Once(line[p]) /\ Once(net[p])  BY <2>1 DEF Lined
    <3>2. ASSUME line[p][i] = net[p][k], NEW im \in OverPairs(r, D, p) PROVE im[1] = i <=> im[2] = k
      <4>1. /\ im[1] \in DOMAIN line[p] /\ im[2] \in DOMAIN net[p]
            /\ line[p][im[1]] = net[p][im[2]]
        BY <1>2
      <4> QED BY <3>1, <3>2, <4>1 DEF Once
    <3> QED BY <3>2 DEF I
  <2>5. \A k \in J(p) : k \in DOMAIN net[p] => \E i \in DOMAIN line[p] : line[p][i] = net[p][k]
    BY <1>2
  <2> HIDE DEF J
  <2>6. net'[p] \in Seq(OpType) /\ \E h : Thinned(net'[p], net[p], J(p), h)
    BY <2>1, <2>2, <2>3, WithoutIs
  <2>7. PICK h : Thinned(net'[p], net[p], J(p), h)  BY <2>6
  <2>8. PICK f : Thinned(L[p], line[p], I(p), f)  BY <1>8
  <2>9. L[p] \in Seq(OpType)  BY <1>8
  <2>10. Lined(L[p], net'[p], Untold(p))
    <3>1. /\ line[p] \in Seq(OpType) /\ net[p] \in Seq(OpType) /\ Lined(line[p], net[p], Untold(p))
          /\ L[p] \in Seq(OpType) /\ net'[p] \in Seq(OpType)
          /\ Thinned(L[p], line[p], I(p), f) /\ Thinned(net'[p], net[p], J(p), h)
      BY <2>1, <2>6, <2>7, <2>8, <2>9
    <3>2. InPairs(line[p], net[p], I(p), J(p))  BY <2>4, <2>5 DEF InPairs
    <3> QED BY <3>1, <3>2, LinedThin
  <2>11. ASSUME NEW i \in DOMAIN net'[p] PROVE Begun(net[p][i].w)' /\ OnPair(p, net'[p][i].w)
    <3>1. h[i] \in DOMAIN net[p] /\ net'[p][i] = net[p][h[i]]  BY <2>7 DEF Thinned
    <3> QED BY <1>10, <2>1, <3>1
  <2> QED BY <1>10, <2>6, <2>10, <2>11
<1>12. Matched(L)'
  <2>1. DOMAIN net' = Pair  OBVIOUS
  <2> QED BY <1>11, <2>1 DEF Matched, OnPair
<1> QED BY <1>8, <1>9, <1>12 DEF I

---------------------------------------------------------------------------
(* What the steps tell their targets.                                      *)

\* A plan that is being destroyed is there until its batch ids go back.
LEMMA DestroyedPlan ==
  ASSUME Called, NEW u \in User, step[u] \in {"untagged", "told"}
  PROVE  \E k \in DOMAIN prog[u] :
           /\ Mine(u) = <<u, k>> /\ <<u, k>> \in BatchKey /\ prog[u][k] = "create"
           /\ OpenPlan(Place(u), k) /\ Synced(Place(u), k) /\ Newest(Place(u), k)
<1> DEFINE c == [q |-> prog[u], a |-> at[u], s |-> "begin"]
           d == [q |-> prog[u], a |-> at[u], s |-> "untagged"]
           e == Place(u)
<1>1. /\ prog[u] \in Seq(Operation) /\ Lawful(prog[u]) /\ at[u] \in DOMAIN prog[u]
      /\ prog[u][at[u]] = "destroy" /\ at[u] \in Nat
  BY CalledFacts
<1>2. c.q = prog[u] /\ c.a = at[u] /\ c.s = "begin"  OBVIOUS
<1>3. d.q = prog[u] /\ d.a = at[u] /\ d.s = "untagged"  OBVIOUS
<1>4. e.q = prog[u] /\ e.a = at[u] /\ e.s \in {"untagged", "told"}  BY DEF Place
<1> HIDE DEF c, d, e
<1>5. "destroy" \notin Starting  BY DEF Starting
<1>6. PICK k \in DOMAIN c.q :
         /\ Owns(c.q, k, c.a) /\ Newest(c, k) /\ k < c.a
         /\ c.q[c.a] \in {"start", "destroy"} => OpenPlan(c, k) /\ Synced(c, k)
  BY <1>1, <1>2, <1>5, CalledOn
<1>7. OpenPlan(c, k) /\ Synced(c, k) /\ Newest(c, k)  BY <1>1, <1>2, <1>6
<1>8. OpenPlan(d, k) /\ Synced(d, k) /\ Newest(d, k)  BY <1>1, <1>2, <1>3, <1>7, EnterDestroy
<1>9. OpenPlan(e, k) /\ Synced(e, k) /\ Newest(e, k)  BY <1>3, <1>4, <1>8, StayEntered
<1>10. Mine(u) = <<u, k>>  BY <1>1, <1>2, <1>6, MineIs
<1>11. prog[u][k] = "create"  BY <1>2, <1>7 DEF OpenPlan
<1>12. <<u, k>> \in BatchKey  BY <1>2, <1>11, CalledFacts DEF Starting
<1> QED BY <1>2, <1>9, <1>10, <1>11, <1>12 DEF e

\* The writes a plan holds for one target.
LEMMA PlanOpsIs ==
  ASSUME NEW u \in User, NEW k, NEW d
  PROVE  /\ DOMAIN PlanOps(u, k, d) = DOMAIN PiecesTo(u, d)
         /\ \A i \in DOMAIN PlanOps(u, k, d) :
              /\ PlanOps(u, k, d)[i] = Op(u, k, PiecesTo(u, d)[i], 0, tags[u])
              /\ PlanOps(u, k, d)[i].w = <<<<u, k>>, PiecesTo(u, d)[i], 0>>
              /\ PlanOps(u, k, d)[i].tag = tags[u][PiecesTo(u, d)[i]]
              /\ PiecesTo(u, d)[i] \in Piece(u)
<1>1. \A i \in DOMAIN PiecesTo(u, d) : PiecesTo(u, d)[i] \in Piece(u)  BY PiecesToIs
<1> QED BY <1>1 DEF PlanOps, Op

\* A plan that was synchronized is in the table, alone under its id, and
\* none of its receives is active.
LEMMA PlanFits ==
  ASSUME Called, NEW tab, NEW line, NEW cut, Course(tab, line, cut), Matched(line), IdsHeld(tab),
         Events(line, cut), Signals, NEW u \in User, NEW k \in DOMAIN prog[u],
         OpenPlan(Place(u), k), Synced(Place(u), k), step[u] # "told", <<u, k>> \in BatchKey,
         NEW p \in Pair, ToldTo(u, p), NEW m, m.id = ids[u][p[2]]
  PROVE  /\ InSlot(AtEnd(tab, p), m.id) = {[id |-> m.id, ops |-> PlanOps(u, k, p[2])]}
         /\ Fits(AtEnd(tab, p), line[p], Len(line[p]), m) \/ m.type = "create"
         /\ ids[u][p[2]] \in Nat
<1> DEFINE T == AtEnd(tab, p)
           d == p[2]
           b == [id |-> m.id, ops |-> PlanOps(u, k, d)]
<1>1. p = <<Home[u], d>> /\ d \in Target(u)  BY DEF ToldTo, Pair
<1>2. b \in T /\ Out(idPool[p], ids[u][d])
  BY <1>1 DEF IdsHeld, PlanHeld
<1>3. \A x, y \in T : x.id = y.id => x = y
  BY DEF IdsHeld, IdsOnce
<1>4. ids[u][d] \in Nat
  <2>1. PoolOK(idPool[p])  BY DEF IdsHeld, IdPools
  <2> QED BY <1>2, <2>1 DEF Out, PoolOK
<1>5. b.id = m.id /\ b.ops = PlanOps(u, k, d)  OBVIOUS
<1> HIDE DEF b, T, d
<1>6. InSlot(T, m.id) = {b}  BY <1>2, <1>3, <1>5 DEF InSlot
<1>7. Armed(<<u, k>>)  BY DEF Signals, SyncArmed
<1>8. ASSUME NEW x \in 1..Len(line[p]), NEW y \in DOMAIN b.ops
      PROVE  ~ (b.ops[y].w[1] = line[p][x].w[1] /\ b.ops[y].w[2] = line[p][x].w[2])
  <2>1. b.ops[y].w[1] = <<u, k>>  BY <1>5, PlanOpsIs
  <2>2. line[p] \in Seq(OpType) /\ DOMAIN line[p] = 1..Len(line[p])  BY DEF Course, OnCourse
  <2>3. PICK i \in DOMAIN net[p] : net[p][i] = line[p][x]  BY <2>2 DEF Matched, Lined, HasData
  <2>4. Begun(line[p][x].w)  BY <2>3 DEF Matched
  <2>5. landed[line[p][x].w] = 0
    BY <2>2 DEF Events, AllExpected, Expects
  <2>6. \A w \in Write : w[1] = <<u, k>> /\ w[3] <= starts[<<u, k>>] => landed[w] = 1
    BY <1>7 DEF Armed
  <2>7. PICK w : w = line[p][x].w  OBVIOUS
  <2>8. w \in Write /\ w[3] <= starts[w[1]] /\ landed[w] = 0  BY <2>4, <2>5, <2>7 DEF Begun
  <2>9. w[1] # <<u, k>>  BY <2>6, <2>8
  <2> QED BY <2>1, <2>7, <2>9
<1>9. Fits(T, line[p], Len(line[p]), m) \/ m.type = "create"  BY <1>2, <1>6, <1>8 DEF Fits
<1> QED BY <1>4, <1>5, <1>6, <1>9 DEF b, T, d

\* A start of it posts the receives for the data that was sent.
LEMMA PlanPosts ==
  ASSUME NEW u \in User, NEW k, Mine(u) = <<u, k>>, NEW d, NEW T, NEW id, NEW n,
         InSlot(T, id) = {[id |-> id, ops |-> PlanOps(u, k, d)]}
  PROVE  Posts(T, Msg("start", id, n, <<>>)) = Ops(u, d, n, tags[u])
<1> DEFINE b == [id |-> id, ops |-> PlanOps(u, k, d)]
           m == Msg("start", id, n, <<>>)
           c == CHOOSE b1 \in InSlot(T, id) : TRUE
<1>1. m.type = "start" /\ m.id = id /\ m.start = n  BY DEF Msg
<1>2. c = b  OBVIOUS
<1>3. b.ops = PlanOps(u, k, d)  OBVIOUS
<1>4. InSlot(T, id) # {}  OBVIOUS
<1> HIDE DEF b, m, c
<1>5. Posts(T, m) = [i \in DOMAIN c.ops |-> [c.ops[i] EXCEPT !.w = <<@[1], @[2], n>>]]
  BY <1>1, <1>4 DEF Posts, c
<1>6. \A i \in DOMAIN PiecesTo(u, d) :
        [PlanOps(u, k, d)[i] EXCEPT !.w = <<@[1], @[2], n>>] =
        [w |-> <<<<u, k>>, PiecesTo(u, d)[i], n>>, tag |-> tags[u][PiecesTo(u, d)[i]]]
  BY DEF PlanOps, Op
<1>7. Posts(T, m) = [i \in DOMAIN PiecesTo(u, d) |->
        [w |-> <<<<u, k>>, PiecesTo(u, d)[i], n>>, tag |-> tags[u][PiecesTo(u, d)[i]]]]
  <2>1. DOMAIN PlanOps(u, k, d) = DOMAIN PiecesTo(u, d)  BY PlanOpsIs
  <2> QED BY <1>2, <1>3, <1>5, <1>6, <2>1
<1>8. Ops(u, d, n, tags[u]) = [i \in DOMAIN PiecesTo(u, d) |->
        [w |-> <<<<u, k>>, PiecesTo(u, d)[i], n>>, tag |-> tags[u][PiecesTo(u, d)[i]]]]
  BY DEF Ops
<1> QED BY <1>7, <1>8 DEF m

\* The messages of a put post its receives and change no table.
LEMMA TellPutCtrl ==
  ASSUME Called, TagsHeld, NEW tab, NEW line, NEW cut, Course(tab, line, cut),
         NEW u \in User, PutCtrl(u)
  PROVE  \E T, L, C : Course(T, L, C)' /\ \A p \in Pair :
           /\ C[p][0] = cut[p][0] /\ AtEnd(T, p)' = AtEnd(tab, p)
           /\ L[p] = IF ToldTo(u, p) THEN line[p] \o Ops(u, p[2], 1, tags[u]) ELSE line[p]
<1> DEFINE msg == [d \in Target(u) |-> Msg("execute", -1, 1, Ops(u, d, 1, tags[u]))]
<1>1. ctrl' = Tell(u, msg) /\ posted' = posted /\ slot' = slot /\ step[u] = "sent"  BY DEF PutCtrl
<1>2. Mine(u) = <<u, at[u]>> /\ <<u, at[u]>> \in BatchKey /\ Holds(Place(u))
  BY <1>1, CalledPutCtrl DEF Holds, PutOpen, Place
<1>3. \A d \in Target(u) : Ops(u, d, 1, tags[u]) \in Seq(OpType)  BY <1>2, HeldOps
<1>4. \A d \in Target(u) : msg[d] = Msg("execute", -1, 1, Ops(u, d, 1, tags[u]))  OBVIOUS
<1> HIDE DEF msg
<1>5. \A d \in Target(u) :
        /\ msg[d].type = "execute" /\ msg[d].ops = Ops(u, d, 1, tags[u]) /\ msg[d] \in MsgType
  <2> TAKE d \in Target(u)
  <2>1. msg[d] = [type |-> "execute", id |-> -1, start |-> 1, ops |-> Ops(u, d, 1, tags[u])]
    BY <1>4 DEF Msg
  <2> QED BY <1>3, <2>1 DEF MsgType
<1>6. \A p \in Pair : ToldTo(u, p) =>
        /\ Fits(AtEnd(tab, p), line[p], Len(line[p]), msg[p[2]])
        /\ Posts(AtEnd(tab, p), msg[p[2]]) = Ops(u, p[2], 1, tags[u])
        /\ SlotAfter(AtEnd(tab, p), msg[p[2]]) = AtEnd(tab, p)
  BY <1>5, Zenon DEF ToldTo, Fits, Posts, SlotAfter
<1>7. PICK T, L, C : Course(T, L, C)' /\ Told(T, L, C, tab, line, cut, u, msg)
  BY <1>1, <1>5, <1>6, CourseTold
<1>8. \A p \in Pair :
            /\ ToldTo(u, p) => Len(ctrl'[p]) = Len(ctrl[p]) + 1
            /\ ~ ToldTo(u, p) => ctrl'[p] = ctrl[p]
  BY <1>1, <1>5, <1>6, CourseTold
<1>9. ASSUME NEW p \in Pair
      PROVE  /\ C[p][0] = cut[p][0] /\ AtEnd(T, p)' = AtEnd(tab, p)
             /\ L[p] = IF ToldTo(u, p) THEN line[p] \o Ops(u, p[2], 1, tags[u]) ELSE line[p]
  BY <1>6, <1>7, <1>8 DEF Told, AtEnd
<1> QED BY <1>7, <1>9

\* The id a plan gets was with nobody and is out from then on.
LEMMA NewIdIs ==
  ASSUME NEW tab, IdsHeld(tab), NEW u \in User, NEW p \in Pair, ToldTo(u, p)
  PROVE  /\ NewId(u, p[2]) \in Nat /\ ~ Out(idPool[p], NewId(u, p[2]))
         /\ Out(AfterTaking(idPool[p], 1), NewId(u, p[2])) /\ PoolOK(AfterTaking(idPool[p], 1))
         /\ \A x : Out(idPool[p], x) => Out(AfterTaking(idPool[p], 1), x)
         /\ InSlot(AtEnd(tab, p), NewId(u, p[2])) = {}
<1>1. p = <<Home[u], p[2]>>  BY DEF ToldTo, Pair
<1>2. PoolOK(idPool[p]) /\ \A b \in AtEnd(tab, p) : Out(idPool[p], b.id)
  BY DEF IdsHeld, IdPools, IdsOut
<1>3. 1 \in Nat /\ 1 \in 1..1  OBVIOUS
<1>4. /\ NewId(u, p[2]) \in Nat /\ ~ Out(idPool[p], NewId(u, p[2]))
      /\ Out(AfterTaking(idPool[p], 1), NewId(u, p[2])) /\ PoolOK(AfterTaking(idPool[p], 1))
      /\ \A x : Out(idPool[p], x) => Out(AfterTaking(idPool[p], 1), x)
  <2>1. NewId(u, p[2]) = Taken(idPool[p], 1)[1]  BY <1>1 DEF NewId
  <2> QED BY <1>2, <1>3, <2>1, TakenIs
<1>5. InSlot(AtEnd(tab, p), NewId(u, p[2])) = {}  BY <1>2, <1>4 DEF InSlot
<1> QED BY <1>4, <1>5

\* What a create does.
LEMMA CreateIs ==
  ASSUME NEW u, Create(u)
  PROVE  /\ Calls(u, "create") /\ tags' = [tags EXCEPT ![u] = TagsTaken(u)]
         /\ tagPool' = TagPoolAfterTaking(u)
         /\ ids' = [ids EXCEPT ![u] = [d \in Target(u) |-> NewId(u, d)]]
         /\ ctrl' = Tell(u, [d \in Target(u) |-> Msg("create", NewId(u, d), 0, Ops(u, d, 0, TagsTaken(u)))])
         /\ idPool' = [p \in Pair |-> IF p[1] = Home[u] /\ p[2] \in Target(u)
                                 THEN AfterTaking(idPool[p], 1) ELSE idPool[p]]
         /\ todo' = [todo EXCEPT ![u] = CtrlRequests(u)]
         /\ step' = [step EXCEPT ![u] = "append"]
         /\ UNCHANGED <<prog, at, starts, net, posted, slot, reqs, dvars, svars>>
  BY DEF Create, NewId

\* The messages of a create find their slots empty, as their ids are new.
LEMMA TellCreate ==
  ASSUME Called, TagsHeld, NEW tab, NEW line, NEW cut, Course(tab, line, cut), IdsHeld(tab),
         NEW u \in User, Create(u)
  PROVE  \E T, L, C : Course(T, L, C)' /\ \A p \in Pair :
           /\ C[p][0] = cut[p][0] /\ L[p] = line[p]
           /\ AtEnd(T, p)' = IF ToldTo(u, p)
                THEN AtEnd(tab, p) \cup {[id |-> NewId(u, p[2]), ops |-> Ops(u, p[2], 0, TagsTaken(u))]}
                ELSE AtEnd(tab, p)
<1> DEFINE ts == TagsTaken(u)
           msg == [d \in Target(u) |-> Msg("create", NewId(u, d), 0, Ops(u, d, 0, ts))]
<1>1. ctrl' = Tell(u, msg) /\ posted' = posted /\ slot' = slot /\ Calls(u, "create")  BY CreateIs
<1>2. PICK k : Mine(u) = <<u, k>> /\ <<u, k>> \in BatchKey  BY CalledCreate
<1>3. ts \in [Piece(u) -> Nat]
  BY TagsTakenIs DEF TagsHeld, Pools
<1>4. \A d \in Target(u) : msg[d] = Msg("create", NewId(u, d), 0, Ops(u, d, 0, ts))  OBVIOUS
<1> HIDE DEF ts, msg
<1>5. \A d \in Target(u) : Ops(u, d, 0, ts) \in Seq(OpType)
  <2>1. 0 \in Nat  OBVIOUS
  <2> QED BY <1>2, <1>3, <2>1, OpsIs
<1>6. \A d \in Target(u) : <<Home[u], d>> \in Pair /\ ToldTo(u, <<Home[u], d>>)
  BY BatchIs DEF Pair, ToldTo
<1>7. \A d \in Target(u) : NewId(u, d) \in Nat  BY <1>6, NewIdIs
<1>8. \A d \in Target(u) :
        /\ msg[d].type = "create" /\ msg[d].id = NewId(u, d) /\ msg[d].ops = Ops(u, d, 0, ts)
        /\ msg[d] \in MsgType
  <2> TAKE d \in Target(u)
  <2>1. msg[d] = [type |-> "create", id |-> NewId(u, d), start |-> 0, ops |-> Ops(u, d, 0, ts)]
    BY <1>4 DEF Msg
  <2>2. NewId(u, d) \in Int /\ 0 \in Nat  BY <1>7
  <2> QED BY <1>5, <2>1, <2>2 DEF MsgType
<1>9. \A p \in Pair : ToldTo(u, p) =>
        /\ Fits(AtEnd(tab, p), line[p], Len(line[p]), msg[p[2]])
        /\ Posts(AtEnd(tab, p), msg[p[2]]) = <<>>
        /\ SlotAfter(AtEnd(tab, p), msg[p[2]]) =
             AtEnd(tab, p) \cup {[id |-> NewId(u, p[2]), ops |-> Ops(u, p[2], 0, ts)]}
  <2> SUFFICES ASSUME NEW p \in Pair, ToldTo(u, p)
               PROVE  /\ Fits(AtEnd(tab, p), line[p], Len(line[p]), msg[p[2]])
                      /\ Posts(AtEnd(tab, p), msg[p[2]]) = <<>>
                      /\ SlotAfter(AtEnd(tab, p), msg[p[2]]) =
                           AtEnd(tab, p) \cup {[id |-> NewId(u, p[2]), ops |-> Ops(u, p[2], 0, ts)]}
    OBVIOUS
  <2>1. p[2] \in Target(u) /\ InSlot(AtEnd(tab, p), NewId(u, p[2])) = {}  BY NewIdIs DEF ToldTo
  <2>2. /\ msg[p[2]].type = "create" /\ msg[p[2]].id = NewId(u, p[2])
        /\ msg[p[2]].ops = Ops(u, p[2], 0, ts)
    BY <1>8, <2>1
  <2>3. Fits(AtEnd(tab, p), line[p], Len(line[p]), msg[p[2]])  BY <2>1, <2>2 DEF Fits
  <2>4. Posts(AtEnd(tab, p), msg[p[2]]) = <<>>  BY <2>2 DEF Posts
  <2> QED BY <2>2, <2>3, <2>4 DEF SlotAfter
<1>10. PICK T, L, C : Course(T, L, C)' /\ Told(T, L, C, tab, line, cut, u, msg)
  BY <1>1, <1>8, <1>9, CourseTold
<1>11. \A p \in Pair :
            /\ ToldTo(u, p) => Len(ctrl'[p]) = Len(ctrl[p]) + 1
            /\ ~ ToldTo(u, p) => ctrl'[p] = ctrl[p]
  BY <1>1, <1>8, <1>9, CourseTold
<1>12. ASSUME NEW p \in Pair
      PROVE  /\ C[p][0] = cut[p][0] /\ L[p] = line[p]
             /\ AtEnd(T, p)' = IF ToldTo(u, p)
                  THEN AtEnd(tab, p) \cup {[id |-> NewId(u, p[2]), ops |-> Ops(u, p[2], 0, ts)]}
                  ELSE AtEnd(tab, p)
  <2>1. line[p] \in Seq(OpType)  BY DEF Course, OnCourse
  <2>2. line[p] \o <<>> = line[p]  BY <2>1
  <2>3. L[p] = line[p] /\ C[p][0] = cut[p][0]  BY <1>9, <1>10, <2>2 DEF Told
  <2>4. CASE ToldTo(u, p)
    <3>1. T[p][Len(ctrl[p]) + 1] = AtEnd(tab, p) \cup {[id |-> NewId(u, p[2]), ops |-> Ops(u, p[2], 0, ts)]}
      BY <1>9, <1>10, <2>4 DEF Told
    <3>2. AtEnd(T, p)' = T[p][Len(ctrl[p]) + 1]  BY <1>11, <2>4 DEF AtEnd
    <3> QED BY <2>3, <2>4, <3>1, <3>2
  <2>5. CASE ~ ToldTo(u, p)
    <3>1. T[p] = tab[p] /\ ctrl'[p] = ctrl[p]  BY <1>10, <1>11, <2>5 DEF Told
    <3>2. AtEnd(T, p)' = AtEnd(tab, p)  BY <3>1 DEF AtEnd
    <3> QED BY <2>3, <2>5, <3>2
  <2> QED BY <2>4, <2>5
<1> QED BY <1>10, <1>12 DEF ts

\* The messages of a start find the plan in its slot and its receives over.
LEMMA TellStart ==
  ASSUME Called, TagsHeld, NEW tab, NEW line, NEW cut, Course(tab, line, cut), Matched(line),
         IdsHeld(tab), Events(line, cut), Signals, NEW u \in User, Start(u)
  PROVE  \E T, L, C : Course(T, L, C)' /\ \A p \in Pair :
           /\ C[p][0] = cut[p][0] /\ AtEnd(T, p)' = AtEnd(tab, p)
           /\ L[p] = IF ToldTo(u, p) THEN line[p] \o Ops(u, p[2], starts[Mine(u)] + 1, tags[u])
                                     ELSE line[p]
<1>1. PICK n : n = starts[Mine(u)] + 1  OBVIOUS
<1> DEFINE msg == [d \in Target(u) |-> Msg("start", ids[u][d], n, <<>>)]
<1>2. ctrl' = Tell(u, msg) /\ posted' = posted /\ slot' = slot /\ Calls(u, "start")
  BY <1>1 DEF Start
<1>3. PICK k \in DOMAIN prog[u] :
         /\ Mine(u) = <<u, k>> /\ <<u, k>> \in BatchKey /\ OpenPlan(Place(u), k)
         /\ Synced(Place(u), k)
  BY <1>2, CalledPlan
<1>4. step[u] = "begin" /\ n \in Nat  BY <1>1, <1>2, <1>3, CalledWhere DEF Called
<1>5. \A d \in Target(u) : msg[d] = Msg("start", ids[u][d], n, <<>>)  OBVIOUS
<1> HIDE DEF msg
<1>6. \A d \in Target(u) : msg[d].type = "start" /\ msg[d].id = ids[u][d]
  <2> TAKE d \in Target(u)
  <2>1. msg[d] = [type |-> "start", id |-> ids[u][d], start |-> n, ops |-> <<>>]  BY <1>5 DEF Msg
  <2> QED BY <2>1
<1>7. \A p \in Pair : ToldTo(u, p) =>
        /\ Fits(AtEnd(tab, p), line[p], Len(line[p]), msg[p[2]]) /\ ids[u][p[2]] \in Nat
        /\ InSlot(AtEnd(tab, p), ids[u][p[2]]) = {[id |-> ids[u][p[2]], ops |-> PlanOps(u, k, p[2])]}
  <2> SUFFICES ASSUME NEW p \in Pair, ToldTo(u, p)
               PROVE  /\ Fits(AtEnd(tab, p), line[p], Len(line[p]), msg[p[2]]) /\ ids[u][p[2]] \in Nat
                      /\ InSlot(AtEnd(tab, p), ids[u][p[2]]) = {[id |-> ids[u][p[2]], ops |-> PlanOps(u, k, p[2])]}
    OBVIOUS
  <2>1. msg[p[2]].type = "start" /\ msg[p[2]].id = ids[u][p[2]]  BY <1>6 DEF ToldTo
  <2>2. /\ InSlot(AtEnd(tab, p), msg[p[2]].id) = {[id |-> msg[p[2]].id, ops |-> PlanOps(u, k, p[2])]}
        /\ Fits(AtEnd(tab, p), line[p], Len(line[p]), msg[p[2]]) \/ msg[p[2]].type = "create"
        /\ ids[u][p[2]] \in Nat
    BY <1>3, <1>4, <2>1, PlanFits
  <2> QED BY <2>1, <2>2
<1>8. \A d \in Target(u) : <<Home[u], d>> \in Pair /\ ToldTo(u, <<Home[u], d>>)
  BY BatchIs DEF Pair, ToldTo
<1>9. \A d \in Target(u) : msg[d] \in MsgType
  <2> TAKE d \in Target(u)
  <2>1. msg[d] = [type |-> "start", id |-> ids[u][d], start |-> n, ops |-> <<>>]  BY <1>5 DEF Msg
  <2>2. ids[u][d] \in Int
    <3>1. ids[u][(<<Home[u], d>>)[2]] \in Nat  BY <1>7, <1>8
    <3> QED BY <3>1
  <2>3. <<>> \in Seq(OpType)  OBVIOUS
  <2> QED BY <1>4, <2>1, <2>2, <2>3 DEF MsgType
<1>10. \A p \in Pair : ToldTo(u, p) =>
        /\ Posts(AtEnd(tab, p), msg[p[2]]) = Ops(u, p[2], n, tags[u])
        /\ SlotAfter(AtEnd(tab, p), msg[p[2]]) = AtEnd(tab, p)
  <2> SUFFICES ASSUME NEW p \in Pair, ToldTo(u, p)
               PROVE  /\ Posts(AtEnd(tab, p), msg[p[2]]) = Ops(u, p[2], n, tags[u])
                      /\ SlotAfter(AtEnd(tab, p), msg[p[2]]) = AtEnd(tab, p)
    OBVIOUS
  <2>1. p[2] \in Target(u)  BY DEF ToldTo
  <2>2. Posts(AtEnd(tab, p), Msg("start", ids[u][p[2]], n, <<>>)) = Ops(u, p[2], n, tags[u])
    BY <1>3, <1>7, PlanPosts
  <2> QED BY <1>5, <1>6, <2>1, <2>2 DEF SlotAfter
<1>11. PICK T, L, C : Course(T, L, C)' /\ Told(T, L, C, tab, line, cut, u, msg)
  BY <1>2, <1>9, <1>7, CourseTold
<1>12. \A p \in Pair :
            /\ ToldTo(u, p) => Len(ctrl'[p]) = Len(ctrl[p]) + 1
            /\ ~ ToldTo(u, p) => ctrl'[p] = ctrl[p]
  BY <1>2, <1>9, <1>7, CourseTold
<1>13. ASSUME NEW p \in Pair
      PROVE  /\ C[p][0] = cut[p][0] /\ AtEnd(T, p)' = AtEnd(tab, p)
             /\ L[p] = IF ToldTo(u, p) THEN line[p] \o Ops(u, p[2], n, tags[u]) ELSE line[p]
  BY <1>10, <1>11, <1>12 DEF Told, AtEnd
<1> QED BY <1>1, <1>11, <1>13

\* The messages of a destroy find the plan, whose receives are over.
LEMMA TellDestroy ==
  ASSUME Called, NEW tab, NEW line, NEW cut, Course(tab, line, cut), Matched(line),
         IdsHeld(tab), Events(line, cut), Signals, NEW u \in User, DestroyCtrl(u)
  PROVE  \E T, L, C : Course(T, L, C)' /\ \A p \in Pair :
           /\ C[p][0] = cut[p][0] /\ L[p] = line[p]
           /\ AtEnd(T, p)' = IF ToldTo(u, p) THEN AtEnd(tab, p) \ InSlot(AtEnd(tab, p), ids[u][p[2]])
                                             ELSE AtEnd(tab, p)
<1> DEFINE msg == [d \in Target(u) |-> Msg("destroy", ids[u][d], 0, <<>>)]
<1>2. ctrl' = Tell(u, msg) /\ posted' = posted /\ slot' = slot /\ step[u] = "untagged"
  BY DEF DestroyCtrl
<1>3. PICK k \in DOMAIN prog[u] :
         /\ Mine(u) = <<u, k>> /\ <<u, k>> \in BatchKey /\ OpenPlan(Place(u), k)
         /\ Synced(Place(u), k)
  BY <1>2, DestroyedPlan
<1>5. \A d \in Target(u) : msg[d] = Msg("destroy", ids[u][d], 0, <<>>)  OBVIOUS
<1> HIDE DEF msg
<1>6. \A d \in Target(u) : msg[d].type = "destroy" /\ msg[d].id = ids[u][d]
  <2> TAKE d \in Target(u)
  <2>1. msg[d] = [type |-> "destroy", id |-> ids[u][d], start |-> 0, ops |-> <<>>]  BY <1>5 DEF Msg
  <2> QED BY <2>1
<1>7. \A p \in Pair : ToldTo(u, p) =>
        /\ Fits(AtEnd(tab, p), line[p], Len(line[p]), msg[p[2]]) /\ ids[u][p[2]] \in Nat
        /\ Posts(AtEnd(tab, p), msg[p[2]]) = <<>>
        /\ SlotAfter(AtEnd(tab, p), msg[p[2]]) = AtEnd(tab, p) \ InSlot(AtEnd(tab, p), ids[u][p[2]])
  <2> SUFFICES ASSUME NEW p \in Pair, ToldTo(u, p)
               PROVE  /\ Fits(AtEnd(tab, p), line[p], Len(line[p]), msg[p[2]]) /\ ids[u][p[2]] \in Nat
                      /\ Posts(AtEnd(tab, p), msg[p[2]]) = <<>>
                      /\ SlotAfter(AtEnd(tab, p), msg[p[2]]) = AtEnd(tab, p) \ InSlot(AtEnd(tab, p), ids[u][p[2]])
    OBVIOUS
  <2>1. msg[p[2]].type = "destroy" /\ msg[p[2]].id = ids[u][p[2]]  BY <1>6 DEF ToldTo
  <2>2. /\ Fits(AtEnd(tab, p), line[p], Len(line[p]), msg[p[2]]) \/ msg[p[2]].type = "create"
        /\ ids[u][p[2]] \in Nat
    BY <1>2, <1>3, <2>1, PlanFits
  <2>3. Posts(AtEnd(tab, p), msg[p[2]]) = <<>>  BY <2>1 DEF Posts
  <2> QED BY <2>1, <2>2, <2>3 DEF SlotAfter
<1>8. \A d \in Target(u) : <<Home[u], d>> \in Pair /\ ToldTo(u, <<Home[u], d>>)
  BY BatchIs DEF Pair, ToldTo
<1>9. \A d \in Target(u) : msg[d] \in MsgType
  <2> TAKE d \in Target(u)
  <2>1. msg[d] = [type |-> "destroy", id |-> ids[u][d], start |-> 0, ops |-> <<>>]  BY <1>5 DEF Msg
  <2>2. ids[u][d] \in Int /\ 0 \in Nat
    <3>1. ids[u][(<<Home[u], d>>)[2]] \in Nat  BY <1>7, <1>8
    <3> QED BY <3>1
  <2>3. <<>> \in Seq(OpType)  OBVIOUS
  <2> QED BY <2>1, <2>2, <2>3 DEF MsgType
<1>11. PICK T, L, C : Course(T, L, C)' /\ Told(T, L, C, tab, line, cut, u, msg)
  BY <1>2, <1>9, <1>7, CourseTold
<1>12. \A p \in Pair :
            /\ ToldTo(u, p) => Len(ctrl'[p]) = Len(ctrl[p]) + 1
            /\ ~ ToldTo(u, p) => ctrl'[p] = ctrl[p]
  BY <1>2, <1>9, <1>7, CourseTold
<1>13. ASSUME NEW p \in Pair
      PROVE  /\ C[p][0] = cut[p][0] /\ L[p] = line[p]
             /\ AtEnd(T, p)' = IF ToldTo(u, p) THEN AtEnd(tab, p) \ InSlot(AtEnd(tab, p), ids[u][p[2]])
                                               ELSE AtEnd(tab, p)
  <2>1. line[p] \in Seq(OpType)  BY DEF Course, OnCourse
  <2>2. line[p] \o <<>> = line[p]  BY <2>1
  <2> QED BY <1>7, <1>11, <1>12, <2>2 DEF Told, AtEnd
<1> QED BY <1>11, <1>13

---------------------------------------------------------------------------
(* Requests to be listed.                                                  *)

\* A plan that is being started.
LEMMA StartedPlan ==
  ASSUME Called, NEW u \in User, step[u] = "append", prog[u][at[u]] = "start"
  PROVE  \E k \in DOMAIN prog[u] :
           /\ Mine(u) = <<u, k>> /\ <<u, k>> \in BatchKey /\ prog[u][k] = "create"
           /\ OpenPlan(Place(u), k) /\ Owns(prog[u], k, at[u])
<1> DEFINE c == [q |-> prog[u], a |-> at[u], s |-> "begin"]
           e == Place(u)
<1>1. /\ prog[u] \in Seq(Operation) /\ Lawful(prog[u]) /\ at[u] \in DOMAIN prog[u]
      /\ prog[u][at[u]] = "start" /\ at[u] \in Nat
  BY CalledFacts
<1>2. c.q = prog[u] /\ c.a = at[u] /\ c.s = "begin"  OBVIOUS
<1>4. e.q = prog[u] /\ e.a = at[u] /\ e.s = "append"  BY DEF Place
<1> HIDE DEF c, e
<1>5. "start" \notin Starting  BY DEF Starting
<1>6. PICK k \in DOMAIN c.q :
         /\ Owns(c.q, k, c.a) /\ Newest(c, k) /\ k < c.a
         /\ c.q[c.a] \in {"start", "destroy"} => OpenPlan(c, k) /\ Synced(c, k)
  BY <1>1, <1>2, <1>5, CalledOn
<1>7. OpenPlan(c, k)  BY <1>1, <1>2, <1>6
<1>8. OpenPlan(e, k)  BY <1>1, <1>2, <1>4, <1>7, EnterStart
<1>10. Mine(u) = <<u, k>>  BY <1>1, <1>2, <1>6, MineIs
<1>11. prog[u][k] = "create"  BY <1>2, <1>7 DEF OpenPlan
<1>12. <<u, k>> \in BatchKey  BY <1>2, <1>11, CalledFacts DEF Starting
<1> QED BY <1>2, <1>6, <1>8, <1>10, <1>11, <1>12 DEF e

\* The requests of the control messages of a call.
LEMMA CtrlRequestsIs ==
  ASSUME NEW u \in User
  PROVE  /\ CtrlRequests(u) \in Seq(ReqType)
         /\ \A i \in DOMAIN CtrlRequests(u) : CtrlRequests(u)[i].kind = "ctrl"
<1> DEFINE m == Cardinality(Target(u))
           Q == CtrlRequests(u)
<1>1. Target(u) \in SUBSET Nat /\ Target(u) \subseteq Rank  BY BatchIs, ChannelAssumption
<1>2. IsFiniteSet(Target(u))
  <2>1. IsFiniteSet(Piece(u))
    <3>1. Piece(u) = 1..Len(Batch[u]) /\ Len(Batch[u]) \in Nat  BY BatchIs
    <3> QED BY <3>1, FS_Interval
  <2>2. Batch[u] \in Surjection(Piece(u), Target(u))
    <3>1. Batch[u] \in [Piece(u) -> Target(u)]  BY BatchIs
    <3> QED BY <3>1, BatchIs DEF Surjection
  <2> QED BY <2>1, <2>2, FS_Surjection
<1>3. m \in Nat /\ Ordered(Target(u)) \in [1..m -> Target(u)]  BY <1>1, <1>2, OrderedLists
<1>4. Q = [i \in 1..m |-> Request("ctrl", Ordered(Target(u))[i], NoWrite, 0, FALSE)]
  BY DEF CtrlRequests
<1> HIDE DEF m, Q
<1>5. \A i \in 1..m : Q[i] \in ReqType /\ Q[i].kind = "ctrl"
  <2> TAKE i \in 1..m
  <2>1. Ordered(Target(u))[i] \in Rank  BY <1>1, <1>3
  <2>2. Q[i] = [kind |-> "ctrl", peer |-> Ordered(Target(u))[i], w |-> NoWrite, tag |-> 0, keep |-> FALSE]
    BY <1>4 DEF Request
  <2> QED BY <2>1, <2>2 DEF ReqType
<1>6. Q = [i \in 1..m |-> Q[i]]  BY <1>4
<1>7. Q \in Seq(ReqType) /\ DOMAIN Q = 1..m  BY <1>3, <1>5, <1>6, SeqIs
<1> QED BY <1>5, <1>7 DEF Q

\* The requests of the data of a call: one for each piece.
LEMMA SendRequestsIs ==
  ASSUME NEW u \in User, NEW k, Mine(u) = <<u, k>>, NEW n, NEW ts \in [Piece(u) -> Nat],
         NEW keep \in BOOLEAN, \A j \in Piece(u) : <<<<u, k>>, j, n>> \in Write
  PROVE  /\ SendRequests(u, n, ts, keep) \in Seq(ReqType)
         /\ DOMAIN SendRequests(u, n, ts, keep) = Piece(u)
         /\ \A j \in Piece(u) :
              SendOf(SendRequests(u, n, ts, keep)[j], Batch[u][j], <<<<u, k>>, j, n>>, ts[j], keep)
<1> DEFINE Q == SendRequests(u, n, ts, keep)
<1>1. Piece(u) = 1..Len(Batch[u]) /\ Len(Batch[u]) \in Nat /\ \A j \in Piece(u) : Batch[u][j] \in Rank
  BY BatchIs
<1>2. Q = [j \in Piece(u) |-> Request("send", Batch[u][j], <<<<u, k>>, j, n>>, ts[j], keep)]
  BY DEF SendRequests
<1> HIDE DEF Q
<1>3. \A j \in Piece(u) :
        /\ Q[j].kind = "send" /\ Q[j].peer = Batch[u][j] /\ Q[j].w = <<<<u, k>>, j, n>>
        /\ Q[j].tag = ts[j] /\ Q[j].keep = keep /\ Q[j] \in ReqType
  <2> TAKE j \in Piece(u)
  <2>1. Q[j] = [kind |-> "send", peer |-> Batch[u][j], w |-> <<<<u, k>>, j, n>>, tag |-> ts[j], keep |-> keep]
    BY <1>2 DEF Request
  <2>2. <<<<u, k>>, j, n>> \in Write /\ ts[j] \in Nat /\ Batch[u][j] \in Rank  BY <1>1
  <2> QED BY <2>1, <2>2 DEF ReqType
<1>4. Q = [j \in 1..Len(Batch[u]) |-> Q[j]]  BY <1>1, <1>2
<1>5. Q \in Seq(ReqType) /\ DOMAIN Q = Piece(u)  BY <1>1, <1>3, <1>4, SeqIs
<1> QED BY <1>3, <1>5 DEF Q, SendOf

\* Two lists without a send in common, joined.
LEMMA JoinedOnce ==
  ASSUME NEW A \in Seq(ReqType), NEW B \in Seq(ReqType), SendsOnce(A), SendsOnce(B), Apart(A, B)
  PROVE  A \o B \in Seq(ReqType) /\ Both(A \o B, A, B) /\ SendsOnce(A \o B)
<1> DEFINE C == A \o B
<1>1. /\ C \in Seq(ReqType)
      /\ \A k \in DOMAIN A : k \in DOMAIN C /\ C[k] = A[k]
      /\ \A x \in DOMAIN B : Len(A) + x \in DOMAIN C /\ C[Len(A) + x] = B[x]
      /\ \A k \in DOMAIN C : k \in DOMAIN A \/ \E x \in DOMAIN B : k = Len(A) + x
  BY Joined
<1> HIDE DEF C
<1>2. SendsOnce(C)
  <2> SUFFICES ASSUME NEW x \in DOMAIN C, NEW y \in DOMAIN C, C[x] = C[y], C[x].kind = "send"
               PROVE  x = y
    BY DEF SendsOnce
  <2>1. CASE x \in DOMAIN A /\ y \in DOMAIN A  BY <1>1, <2>1 DEF SendsOnce
  <2>2. CASE x \in DOMAIN A /\ y \notin DOMAIN A  BY <1>1, <2>2 DEF Apart
  <2>3. CASE x \notin DOMAIN A /\ y \in DOMAIN A  BY <1>1, <2>3 DEF Apart
  <2>4. CASE x \notin DOMAIN A /\ y \notin DOMAIN A
    <3>1. PICK i \in DOMAIN B : x = Len(A) + i  BY <1>1, <2>4
    <3>2. PICK j \in DOMAIN B : y = Len(A) + j  BY <1>1, <2>4
    <3>3. B[i] = B[j] /\ B[i].kind = "send"  BY <1>1, <3>1, <3>2
    <3> QED BY <3>1, <3>2, <3>3 DEF SendsOnce
  <2> QED BY <2>1, <2>2, <2>3, <2>4
<1>3. Both(C, A, B)
  <2>1. \A x \in DOMAIN C : (\E i \in DOMAIN A : C[x] = A[i]) \/ (\E j \in DOMAIN B : C[x] = B[j])
    BY <1>1
  <2>2. \A i \in DOMAIN A : \E x \in DOMAIN C : C[x] = A[i]  BY <1>1
  <2>3. \A j \in DOMAIN B : \E x \in DOMAIN C : C[x] = B[j]  BY <1>1
  <2> QED BY <2>1, <2>2, <2>3 DEF Both
<1> QED BY <1>1, <1>2, <1>3 DEF C

\* What a thread has to list: a send for each piece, once, and control requests.
LEMMA TodoIs ==
  ASSUME Called, TagsHeld, NEW u \in User, step[u] = "append"
  PROVE  /\ todo[u] \in Seq(ReqType)
         /\ \A x \in DOMAIN todo[u] :
              \/ todo[u][x].kind = "ctrl"
              \/ /\ prog[u][at[u]] \in {"put", "start"}
                 /\ \E j \in Piece(u) : SendAt(u, x, j)
         /\ \A x, y \in DOMAIN todo[u] : \A j \in Piece(u) :
              SendAt(u, x, j) /\ SendAt(u, y, j) => x = y
         /\ prog[u][at[u]] \in {"put", "start"} =>
              \A j \in Piece(u) : \E x \in DOMAIN todo[u] : SendAt(u, x, j)
<1> DEFINE op == prog[u][at[u]]
           Q == CtrlRequests(u)
<1>1. todo[u] = TodoOf(u) /\ Caller(u) /\ starts \in [BatchKey -> Nat]  BY DEF Called, Caller
<1>2. at[u] \in DOMAIN prog[u] /\ op \in {"put", "create", "start", "destroy"}
  BY CalledFacts DEF Starting
<1>3. Q \in Seq(ReqType) /\ \A i \in DOMAIN Q : Q[i].kind = "ctrl"  BY CtrlRequestsIs
<1>4. CASE op \in {"create", "destroy"}
  <2>1. todo[u] = Q  BY <1>1, <1>4 DEF TodoOf
  <2>2. \A x \in DOMAIN todo[u] : todo[u][x].kind = "ctrl" /\ \A j : ~ SendAt(u, x, j)
    BY <1>3, <2>1 DEF SendAt
  <2> QED BY <1>3, <1>4, <2>1, <2>2
<1>5. CASE op \in {"put", "start"}
  <2> DEFINE n == starts[Mine(u)]
             S == SendRequests(u, n, tags[u], op = "start")
  <2>1. \E k \in DOMAIN prog[u] : Mine(u) = <<u, k>> /\ <<u, k>> \in BatchKey /\ prog[u][k] \in Starting
                                  /\ Holds(Place(u)) /\ (op = "put" => n = 1) /\ n <= at[u]
    <3>1. CASE op = "put"
      <4>1. Mine(u) = <<u, at[u]>> /\ <<u, at[u]>> \in BatchKey
        BY <1>2, <3>1, MineStarting DEF Starting
      <4>2. PutOpen(Place(u)) /\ Holds(Place(u))  BY <3>1 DEF PutOpen, Place, Holds
      <4>3. n = 1 /\ at[u] \in Nat \ {0}  BY <1>1, <4>1, <4>2, CalledFacts DEF Caller, Place
      <4> QED BY <1>2, <3>1, <4>1, <4>2, <4>3 DEF Starting
    <3>2. CASE op = "start"
      <4>1. PICK k \in DOMAIN prog[u] :
         /\ Mine(u) = <<u, k>> /\ <<u, k>> \in BatchKey /\ prog[u][k] = "create"
         /\ OpenPlan(Place(u), k)
        BY <3>2, StartedPlan
      <4>2. Holds(Place(u))  BY <4>1 DEF Holds, Place
      <4>3. n <= at[u]  BY <1>1, <4>1 DEF Caller
      <4> QED BY <3>2, <4>1, <4>2, <4>3 DEF Starting
    <3> QED BY <1>5, <3>1, <3>2
  <2>2. PICK k \in DOMAIN prog[u] :
          /\ Mine(u) = <<u, k>> /\ <<u, k>> \in BatchKey /\ prog[u][k] \in Starting
          /\ Holds(Place(u)) /\ (op = "put" => n = 1) /\ n <= at[u]
    BY <2>1
  <2>3. tags[u] \in [Piece(u) -> Nat]
    BY <2>2 DEF TagsHeld, HeldOut
  <2>4. n \in 1..Len(prog[u])
    <3>1. n \in Nat /\ at[u] \in 1..Len(prog[u]) /\ Len(prog[u]) \in Nat
      BY <1>1, <1>2, <2>2, CalledFacts
    <3>2. n > 0  BY <1>1, <1>5 DEF Caller, Sending, Place
    <3> QED BY <2>2, <3>1, <3>2
  <2>5. \A j \in Piece(u) : <<<<u, k>>, j, n>> \in Write  BY <2>2, <2>4, NewWrite
  <2>a. PICK keep \in BOOLEAN : keep = (op = "start")  OBVIOUS
  <2>b. SendRequests(u, n, tags[u], keep) = S  BY <2>a
  <2>7. /\ S \in Seq(ReqType) /\ DOMAIN S = Piece(u)
        /\ \A j \in Piece(u) :
            /\ S[j].kind = "send" /\ S[j].peer = Batch[u][j] /\ S[j].w = <<<<u, k>>, j, n>>
            /\ S[j].tag = tags[u][j] /\ S[j].keep = (op = "start")
    <3> DEFINE R == SendRequests(u, n, tags[u], keep)
    <3>1. /\ R \in Seq(ReqType) /\ DOMAIN R = Piece(u)
          /\ \A j \in Piece(u) : SendOf(R[j], Batch[u][j], <<<<u, k>>, j, n>>, tags[u][j], keep)
      <4> HIDE DEF n, S
      <4> QED BY <2>2, <2>3, <2>5, SendRequestsIs
    <3> HIDE DEF R, S
    <3> QED BY <3>1, <2>a, <2>b DEF R, SendOf
  <2>8. todo[u] = S \o Q \/ todo[u] = Q \o S
    <3>1. CASE op = "put"
      <4>1. n = 1 /\ (op = "start") = FALSE  BY <2>2, <3>1
      <4>2. S = SendRequests(u, 1, tags[u], FALSE)  BY <4>1
      <4> QED BY <1>1, <3>1, <4>2 DEF TodoOf
    <3>2. CASE op = "start"
      <4>1. S = SendRequests(u, n, tags[u], TRUE)  BY <3>2
      <4> QED BY <1>1, <3>2, <4>1 DEF TodoOf
    <3> QED BY <1>5, <3>1, <3>2
  <2>9. \A x \in DOMAIN todo[u], j \in Piece(u) : todo[u][x] = S[j] => SendAt(u, x, j)
    BY <2>2, <2>7, ZenonT(40) DEF SendAt
  <2>10. \A x \in DOMAIN todo[u] : \A j : SendAt(u, x, j) => todo[u][x].kind = "send" /\ todo[u][x].w = <<<<u, k>>, j, n>>
    BY <2>2 DEF SendAt
  <2> HIDE DEF S, Q, n
  <2>11. /\ todo[u] \in Seq(ReqType)
         /\ \A x \in DOMAIN todo[u] :
              (\E i \in DOMAIN Q : todo[u][x] = Q[i]) \/ (\E j \in Piece(u) : todo[u][x] = S[j])
         /\ \A j \in Piece(u) : \E x \in DOMAIN todo[u] : todo[u][x] = S[j]
         /\ \A x, y \in DOMAIN todo[u] : todo[u][x] = todo[u][y] /\ todo[u][x].kind = "send" => x = y
    <3>1. SendsOnce(S)
      <4> SUFFICES ASSUME NEW i \in Piece(u), NEW j \in Piece(u), S[i] = S[j] PROVE i = j
        BY <2>7 DEF SendsOnce
      <4>1. <<<<u, k>>, i, n>> = <<<<u, k>>, j, n>>  BY <2>7
      <4> QED BY <4>1
    <3>a. Apart(S, Q) /\ Apart(Q, S)  BY <1>3, <2>7 DEF Apart
    <3>b. SendsOnce(Q)  BY <1>3 DEF SendsOnce
    <3>2. CASE todo[u] = S \o Q
      <4>1. todo[u] \in Seq(ReqType) /\ Both(todo[u], S, Q) /\ SendsOnce(todo[u])
        BY <1>3, <2>7, <3>1, <3>2, <3>a, <3>b, JoinedOnce
      <4> QED BY <4>1, <2>7 DEF Both, SendsOnce
    <3>3. CASE todo[u] = Q \o S
      <4>1. todo[u] \in Seq(ReqType) /\ Both(todo[u], Q, S) /\ SendsOnce(todo[u])
        BY <1>3, <2>7, <3>1, <3>3, <3>a, <3>b, JoinedOnce
      <4> QED BY <4>1, <2>7 DEF Both, SendsOnce
    <3> QED BY <2>8, <3>2, <3>3
  <2>12. \A x \in DOMAIN todo[u] :
            \/ todo[u][x].kind = "ctrl"
            \/ \E j \in Piece(u) : SendAt(u, x, j)
    BY <1>3, <2>9, <2>11
  <2>13. ASSUME NEW x \in DOMAIN todo[u], NEW y \in DOMAIN todo[u], NEW j \in Piece(u),
                SendAt(u, x, j), SendAt(u, y, j)
         PROVE  x = y
    <3>1. \A z \in DOMAIN todo[u] : SendAt(u, z, j) => todo[u][z] = S[j]
      <4> SUFFICES ASSUME NEW z \in DOMAIN todo[u], SendAt(u, z, j) PROVE todo[u][z] = S[j]  OBVIOUS
      <4>1. todo[u][z].kind = "send" /\ todo[u][z].w = <<<<u, k>>, j, n>>  BY <2>10
      <4>2. PICK i \in Piece(u) : todo[u][z] = S[i]  BY <1>3, <2>11, <4>1
      <4>3. <<<<u, k>>, i, n>> = <<<<u, k>>, j, n>>  BY <2>7, <4>1, <4>2
      <4> QED BY <4>2, <4>3
    <3> QED BY <2>7, <2>11, <2>13, <3>1
  <2>14. \A j \in Piece(u) : \E x \in DOMAIN todo[u] : SendAt(u, x, j)  BY <2>9, <2>11
  <2> QED BY <1>5, <2>11, <2>12, <2>13, <2>14
<1> QED BY <1>2, <1>4, <1>5

---------------------------------------------------------------------------
(* Tags that are out.                                                      *)

\* A step that gives no tag to anyone keeps the tags apart.
LEMMA TagsKept ==
  ASSUME TagsHeld, Pools', \A u \in User : HoldsFrom(u), \A r \in Rank : \E g : OwedFrom(r, g)
  PROVE  TagsHeld'
<1>1. \A u \in User : HeldOut(u)'
  <2> TAKE u \in User
  <2>1. HoldsFrom(u) /\ HeldOut(u)  BY DEF TagsHeld
  <2> QED BY <2>1 DEF HoldsFrom, HeldOut
<1>2. \A u, v \in User : HeldApart(u, v)'
  <2> TAKE u, v \in User
  <2>1. HoldsFrom(u) /\ HoldsFrom(v) /\ HeldApart(u, v)  BY DEF TagsHeld
  <2> QED BY <2>1 DEF HoldsFrom, HeldApart
<1>3. \A r \in Rank : OwedOut(r)' /\ OwedApart(r)'
  <2> TAKE r \in Rank
  <2>1. PICK g : OwedFrom(r, g)  OBVIOUS
  <2>2. OwedOut(r) /\ OwedApart(r)  BY DEF TagsHeld
  <2>3. OwedOut(r)'  BY <2>1 DEF OwedFrom, OwedOut
  <2>4. OwedApart(r)'
    <3> SUFFICES ASSUME NEW i \in DOMAIN reqs'[r], NEW k \in DOMAIN reqs'[r], Owes(r, i)', Owes(r, k)',
                        reqs'[r][k].peer = reqs'[r][i].peer, reqs'[r][k].tag = reqs'[r][i].tag
                 PROVE  k = i
      BY DEF OwedApart
    <3>1. /\ g[i] \in DOMAIN reqs[r] /\ Owes(r, g[i])
          /\ reqs'[r][i].peer = reqs[r][g[i]].peer /\ reqs'[r][i].tag = reqs[r][g[i]].tag
          /\ g[k] \in DOMAIN reqs[r] /\ Owes(r, g[k])
          /\ reqs'[r][k].peer = reqs[r][g[k]].peer /\ reqs'[r][k].tag = reqs[r][g[k]].tag
          /\ g[i] = g[k] => i = k
      BY <2>1 DEF OwedFrom
    <3>2. g[i] = g[k]  BY <2>2, <3>1 DEF OwedApart
    <3> QED BY <3>1, <3>2
  <2> QED BY <2>3, <2>4
<1>4. \A r \in Rank : \A u \in User : OwedHeld(r, u)'
  <2> TAKE r \in Rank
  <2> TAKE u \in User
  <2>1. PICK g : OwedFrom(r, g)  OBVIOUS
  <2>2. HoldsFrom(u) /\ OwedHeld(r, u)  BY DEF TagsHeld
  <2> SUFFICES ASSUME NEW i \in DOMAIN reqs'[r], NEW j \in Piece(u), Owes(r, i)', Holds(Place(u))',
                      Home[u] = r, Batch[u][j] = reqs'[r][i].peer
               PROVE  tags'[u][j] # reqs'[r][i].tag
    BY DEF OwedHeld
  <2>3. /\ g[i] \in DOMAIN reqs[r] /\ Owes(r, g[i])
        /\ reqs'[r][i].peer = reqs[r][g[i]].peer /\ reqs'[r][i].tag = reqs[r][g[i]].tag
    BY <2>1 DEF OwedFrom
  <2>4. Holds(Place(u)) /\ tags'[u] = tags[u]  BY <2>2 DEF HoldsFrom
  <2>5. tags[u][j] # reqs[r][g[i]].tag  BY <2>2, <2>3, <2>4 DEF OwedHeld
  <2> QED BY <2>3, <2>4, <2>5
<1> QED BY <1>1, <1>2, <1>3, <1>4 DEF TagsHeld

\* A step that leaves lists and pools alone.
LEMMA OwedSame ==
  ASSUME TagsHeld, NEW r \in Rank, reqs' = reqs, done'[r] = done[r],
         \A i \in DOMAIN reqs[r] : Owes(r, i) => Out(tagPool'[<<r, reqs[r][i].peer>>], reqs[r][i].tag)
  PROVE  \E g : OwedFrom(r, g)
<1> DEFINE g == [i \in DOMAIN reqs[r] |-> i]
<1>1. \A i : Owes(r, i)' <=> Owes(r, i)  BY DEF Owes, OverAt
<1> HIDE DEF g
<1>2. \A i \in DOMAIN reqs[r] : g[i] = i  BY DEF g
<1>3. OwedFrom(r, g)  BY <1>1, <1>2 DEF OwedFrom
<1> QED BY <1>3

\* Tags stay apart while nobody takes, hands over or returns one.
LEMMA TagsSame ==
  ASSUME TagsHeld, tagPool' = tagPool, reqs' = reqs, done' = done,
         \A u \in User : Holds(Place(u))' => Holds(Place(u)) /\ tags'[u] = tags[u]
  PROVE  TagsHeld'
<1>1. Pools' /\ \A u \in User : HeldOut(u)  BY DEF Pools, TagsHeld
<1>2. \A u \in User : HoldsFrom(u)  BY <1>1 DEF HoldsFrom, HeldOut
<1>3. \A r \in Rank : \E g : OwedFrom(r, g)
  <2> TAKE r \in Rank
  <2>1. OwedOut(r)  BY DEF TagsHeld
  <2>2. \A i \in DOMAIN reqs[r] : Owes(r, i) => Out(tagPool'[<<r, reqs[r][i].peer>>], reqs[r][i].tag)
    BY <2>1 DEF OwedOut
  <2> QED BY <2>2, OwedSame
<1> QED BY <1>1, <1>2, <1>3, TagsKept

---------------------------------------------------------------------------
(* Plans and the tags of a thread from one step to the next.                *)

\* A put has no plan, and it holds its tags until it lists its requests.
LEMMA PlanPut ==
  ASSUME Called, NEW u \in User, Put(u) \/ PutCtrl(u)
  PROVE  /\ \A k : ~ OpenPlan(Place(u), k)' /\ ~ Synced(Place(u), k)'
         /\ PutCtrl(u) => Holds(Place(u)) /\ tags' = tags
<1> DEFINE d == [q |-> prog'[u], a |-> at'[u], s |-> step'[u]]
<1>1. /\ prog' = prog /\ at' = at /\ step'[u] \in {"sent", "append"}
      /\ at[u] \in DOMAIN prog[u] /\ prog[u][at[u]] = "put"
  <2>1. CASE Put(u)  BY <2>1, CalledWhere DEF Put, Called
  <2>2. CASE PutCtrl(u)  BY <2>2, CalledPutCtrl DEF PutCtrl, Called
  <2> QED BY <2>1, <2>2
<1>2. prog[u] \in Seq(Operation)  BY CalledFacts
<1>3. d.q = prog[u] /\ d.a = at[u] /\ d.s = step'[u]  BY <1>1
<1>4. Place(u)' = d  BY DEF Place
<1> HIDE DEF d
<1>5. ASSUME NEW k PROVE ~ OpenPlan(d, k) /\ ~ Synced(d, k)
  BY <1>1, <1>2, <1>3, EnterStarting DEF Starting
<1>6. PutCtrl(u) => Holds(Place(u)) /\ tags' = tags  BY <1>1 DEF PutCtrl, Holds, PutOpen, Place
<1> QED BY <1>4, <1>5, <1>6

\* From its making on a plan is open.
LEMMA PlanCreate ==
  ASSUME Called, NEW u \in User, Create(u)
  PROVE  \A k : (OpenPlan(Place(u), k)' <=> k = at[u]) /\ (Synced(Place(u), k)' => k = at[u])
<1> DEFINE d == [q |-> prog'[u], a |-> at'[u], s |-> step'[u]]
<1>1. /\ prog' = prog /\ at' = at /\ step'[u] = "append"
      /\ at[u] \in DOMAIN prog[u] /\ prog[u][at[u]] = "create"
  <2>1. /\ Calls(u, "create") /\ step' = [step EXCEPT ![u] = "append"]
        /\ UNCHANGED <<prog, at, starts, net, posted, slot, reqs, dvars, svars>>
    BY CreateIs
  <2> QED BY <2>1, CalledWhere DEF Called
<1>2. prog[u] \in Seq(Operation)  BY CalledFacts
<1>3. d.q = prog[u] /\ d.a = at[u] /\ d.s = step'[u]  BY <1>1
<1>4. Place(u)' = d  BY DEF Place
<1> HIDE DEF d
<1>5. ASSUME NEW k PROVE (OpenPlan(d, k) <=> k = at[u]) /\ (Synced(d, k) => k = at[u])
  BY <1>1, <1>2, <1>3, EnterStarting DEF Starting
<1> QED BY <1>4, <1>5

\* A start keeps the plan open and leaves its batch unsynchronized.
LEMMA PlanStart ==
  ASSUME Called, NEW u \in User, Start(u)
  PROVE  /\ OpenSame(u) /\ \A k : ~ Synced(Place(u), k)'
         /\ Holds(Place(u)) /\ tags' = tags
<1> DEFINE c == [q |-> prog[u], a |-> at[u], s |-> step[u]]
           d == [q |-> prog'[u], a |-> at'[u], s |-> step'[u]]
<1>1. /\ prog' = prog /\ at' = at /\ step'[u] = "append" /\ step[u] = "begin" /\ tags' = tags
      /\ at[u] \in DOMAIN prog[u] /\ prog[u][at[u]] = "start" /\ Calls(u, "start")
  BY CalledWhere DEF Start, Called
<1>2. prog[u] \in Seq(Operation)  BY CalledFacts
<1>3. /\ d.q = prog[u] /\ d.a = at[u] /\ d.s = step'[u]
      /\ c.q = prog[u] /\ c.a = at[u] /\ c.s = step[u]
  BY <1>1
<1>4. Place(u)' = d /\ Place(u) = c  BY DEF Place
<1> HIDE DEF d, c
<1>5. ASSUME NEW k PROVE (OpenPlan(d, k) <=> OpenPlan(c, k)) /\ ~ Synced(d, k)
  BY <1>1, <1>2, <1>3, EnterStart
<1>6. Holds(c)
  <2>1. PICK k \in DOMAIN prog[u] : OpenPlan(Place(u), k)  BY <1>1, CalledPlan
  <2> QED BY <1>1, <1>3, <1>4, <2>1 DEF Holds
<1> QED BY <1>1, <1>4, <1>5, <1>6 DEF OpenSame

\* A destroy gives the tags back first.
LEMMA PlanDestroy ==
  ASSUME Called, NEW u \in User, Destroy(u) \/ DestroyCtrl(u)
  PROVE  OpenSame(u) /\ SyncedSame(u) /\ ~ Holds(Place(u))'
<1> DEFINE c == [q |-> prog[u], a |-> at[u], s |-> step[u]]
           d == [q |-> prog'[u], a |-> at'[u], s |-> step'[u]]
<1>1. /\ prog' = prog /\ at' = at /\ step'[u] \in {"untagged", "told"}
      /\ at[u] \in DOMAIN prog[u] /\ prog[u][at[u]] = "destroy"
      /\ \/ step[u] = "begin" /\ step'[u] = "untagged"
         \/ step[u] = "untagged" /\ step'[u] = "told"
  <2>1. CASE Destroy(u)  BY <2>1, CalledDestroys, CalledWhere DEF Destroy, Called
  <2>2. CASE DestroyCtrl(u)  BY <2>2, CalledDestroys DEF DestroyCtrl, Called
  <2> QED BY <2>1, <2>2
<1>2. prog[u] \in Seq(Operation)  BY CalledFacts
<1>3. /\ d.q = prog[u] /\ d.a = at[u] /\ d.s = step'[u]
      /\ c.q = prog[u] /\ c.a = at[u] /\ c.s = step[u]
  BY <1>1
<1>4. Place(u)' = d /\ Place(u) = c  BY DEF Place
<1> HIDE DEF d, c
<1>5. ASSUME NEW k PROVE (OpenPlan(d, k) <=> OpenPlan(c, k)) /\ (Synced(d, k) <=> Synced(c, k))
  <2>1. CASE step[u] = "begin"  BY <1>1, <1>2, <1>3, <2>1, EnterDestroy
  <2>2. CASE step[u] = "untagged"
    <3>1. c.s # "begin" /\ d.s # "begin" /\ c.s \in {"untagged", "told"} /\ d.s \in {"untagged", "told"}
      BY <1>1, <1>3, <2>2
    <3> QED BY <1>3, <3>1, StayEntered
  <2> QED BY <1>1, <2>1, <2>2
<1>6. ~ Holds(d)  BY <1>1, <1>3 DEF Holds, PutOpen
<1> QED BY <1>4, <1>5, <1>6 DEF OpenSame, SyncedSame

\* With its ids a plan is gone.
LEMMA PlanDestroyed ==
  ASSUME Called, NEW u \in User, DestroyIds(u)
  PROVE  SyncedSame(u) /\ ~ Holds(Place(u))' /\ \A k : ~ OpenPlan(Place(u), k)'
<1> DEFINE c == [q |-> prog[u], a |-> at[u], s |-> step[u]]
           d == [q |-> prog'[u], a |-> at'[u], s |-> step'[u]]
<1>1. /\ prog' = prog /\ at' = at /\ step'[u] = "append" /\ step[u] = "told"
      /\ at[u] \in DOMAIN prog[u] /\ prog[u][at[u]] = "destroy"
  BY CalledDestroys DEF DestroyIds, Called
<1>2. prog[u] \in Seq(Operation) /\ Lawful(prog[u])  BY CalledFacts
<1>3. /\ d.q = prog[u] /\ d.a = at[u] /\ d.s = step'[u]
      /\ c.q = prog[u] /\ c.a = at[u] /\ c.s = step[u]
  BY <1>1
<1>4. Place(u)' = d /\ Place(u) = c  BY DEF Place
<1> HIDE DEF d, c
<1>5. ASSUME NEW k PROVE ~ OpenPlan(d, k) /\ (Synced(d, k) <=> Synced(c, k))
  <2>1. ~ OpenPlan(d, k)  BY <1>1, <1>2, <1>3, PlanGone
  <2>2. c.s # "begin" /\ d.s # "begin"  BY <1>1, <1>3
  <2> QED BY <1>3, <2>1, <2>2, StayEntered
<1>6. ~ Holds(d)  BY <1>1, <1>3, <1>5 DEF Holds, PutOpen
<1> QED BY <1>4, <1>5, <1>6 DEF SyncedSame

\* At its end an operation opens no plan.
LEMMA PlanOver ==
  ASSUME Called, NEW u \in User, ListRequests(u) \/ Wait(u) \/ Sync(u)
  PROVE  /\ OpenSame(u) /\ (ListRequests(u) \/ Wait(u) => SyncedSame(u)) /\ tags' = tags
         /\ Holds(Place(u))' => Holds(Place(u)) /\ prog[u][at[u]] # "put"
         /\ Sync(u) => \A k : Synced(Place(u), k)' => Mine(u) = <<u, k>>
<1> DEFINE c == [q |-> prog[u], a |-> at[u], s |-> step[u]]
           d == [q |-> prog'[u], a |-> at'[u], s |-> step'[u]]
<1>1. /\ prog' = prog /\ at'[u] = at[u] + 1 /\ step'[u] = "begin" /\ tags' = tags
      /\ at[u] \in DOMAIN prog[u]
      /\ \/ step[u] = "append" /\ prog[u][at[u]] # "sync"
         \/ step[u] = "begin" /\ prog[u][at[u]] \in {"wait", "sync"}
  BY CalledOver
<1>2. prog[u] \in Seq(Operation) /\ at[u] \in Nat  BY CalledFacts
<1>3. /\ d.q = prog[u] /\ d.a = at[u] + 1 /\ d.s = "begin"
      /\ c.q = prog[u] /\ c.a = at[u] /\ c.s = step[u]
  BY <1>1
<1>4. Place(u)' = d /\ Place(u) = c  BY DEF Place
<1>a. /\ Sync(u) => prog[u][at[u]] = "sync" /\ step[u] = "begin"
      /\ Wait(u) => prog[u][at[u]] = "wait"
  BY DEF Sync, Wait, Calls
<1>b. ListRequests(u) => step[u] = "append" /\ prog[u][at[u]] # "sync"  BY <1>1 DEF ListRequests
<1> HIDE DEF d, c
<1>5. \A k : /\ (Newest(d, k) <=> Newest(c, k)) /\ (OpenPlan(d, k) <=> OpenPlan(c, k))
             /\ c.q[c.a] # "sync" => (Synced(d, k) <=> Synced(c, k))
  BY <1>1, <1>2, <1>3, OperationOver
<1>6. Holds(d) => Holds(c) /\ prog[u][at[u]] # "put"
  <2> SUFFICES ASSUME Holds(d) PROVE Holds(c) /\ prog[u][at[u]] # "put"  OBVIOUS
  <2>1. PICK k \in DOMAIN prog[u] : OpenPlan(c, k)  BY <1>3, <1>5 DEF Holds, PutOpen
  <2>2. prog[u][at[u]] # "put"
    <3> SUFFICES ASSUME prog[u][at[u]] = "put" PROVE FALSE  OBVIOUS
    <3>1. step[u] = "append"  BY <1>1
    <3>2. ~ OpenPlan(c, k)  BY <1>1, <1>2, <1>3, <3>1, EnterStarting DEF Starting
    <3> QED BY <2>1, <3>2
  <2> QED BY <1>1, <1>3, <2>1, <2>2 DEF Holds
<1>7. ASSUME Sync(u), NEW k, Synced(d, k)
      PROVE  Mine(u) = <<u, k>>
  <2>1. Newest(c, k)  BY <1>5, <1>7 DEF Synced
  <2>2. c.q[c.a] \notin Starting  BY <1>3, <1>7, <1>a DEF Starting
  <2>3. Owns(c.q, k, c.a)  BY <1>1, <1>2, <1>3, <2>1, <2>2, NewestOwner
  <2> QED BY <1>2, <1>3, <2>3, MineIs
<1>8. ListRequests(u) \/ Wait(u) => SyncedSame(u)  BY <1>3, <1>4, <1>5, <1>a, <1>b DEF SyncedSame
<1> QED BY <1>1, <1>4, <1>5, <1>6, <1>7, <1>8 DEF OpenSame

---------------------------------------------------------------------------
(* Tags over the steps of a thread.                                        *)

\* A step of a thread leaves the places of all others.
LEMMA HoldsOthers ==
  ASSUME Called, NEW u \in User, UserNext(u), NEW v \in User, v # u
  PROVE  /\ (Holds(Place(v))' <=> Holds(Place(v))) /\ tags'[v] = tags[v]
         /\ \A k : /\ OpenPlan(Place(v), k)' <=> OpenPlan(Place(v), k)
                   /\ Synced(Place(v), k)' <=> Synced(Place(v), k)
<1>1. Place(v)' = Place(v) /\ tags'[v] = tags[v]  BY CalledOthers
<1> QED BY <1>1

\* A step of a thread that takes or returns no tag keeps the tags apart.
LEMMA TagsUser ==
  ASSUME Called, TagsHeld, NEW u \in User,
         PutCtrl(u) \/ Start(u) \/ DestroyCtrl(u) \/ DestroyIds(u) \/ Wait(u) \/ Sync(u)
  PROVE  TagsHeld'
<1>1. tagPool' = tagPool /\ reqs' = reqs /\ done' = done /\ UserNext(u)
  BY DEF PutCtrl, Start, DestroyCtrl, DestroyIds, Wait, Sync, UserNext, dvars
<1>2. Holds(Place(u))' => Holds(Place(u)) /\ tags'[u] = tags[u]
  BY PlanPut, PlanStart, PlanDestroy, PlanDestroyed, PlanOver
<1>3. ASSUME NEW v \in User, v # u
      PROVE  Holds(Place(v))' => Holds(Place(v)) /\ tags'[v] = tags[v]
  BY <1>1, <1>3, HoldsOthers
<1>4. \A v \in User : Holds(Place(v))' => Holds(Place(v)) /\ tags'[v] = tags[v]  BY <1>2, <1>3
<1> QED BY <1>1, <1>4, TagsSame

\* The tags of a destroyed plan go back to their pools.
LEMMA TagsDestroy ==
  ASSUME Called, TagsHeld, Lists, NEW u \in User, Destroy(u)
  PROVE  TagsHeld'
<1> DEFINE S(p) == [i \in DOMAIN PiecesTo(u, p[2]) |-> tags[u][PiecesTo(u, p[2])[i]]]
<1>1. /\ tagPool' = TagsReturned(u) /\ reqs' = reqs /\ done' = done /\ UserNext(u)
      /\ Calls(u, "destroy") /\ tags' = tags
  BY DEF Destroy, UserNext, dvars
<1>2. Holds(Place(u))
  <2>1. step[u] = "begin"  BY <1>1, CalledWhere
  <2>2. PICK k \in DOMAIN prog[u] : OpenPlan(Place(u), k)  BY <1>1, CalledPlan
  <2> QED BY <2>1, <2>2 DEF Holds, Place
<1>3. ~ Holds(Place(u))'  BY PlanDestroy
<1>4. HeldOut(u) /\ HeldApart(u, u) /\ Pools  BY DEF TagsHeld
<1>5. DOMAIN tagPool' = Pair /\ \A p \in Pair :
        tagPool'[p] = IF p[1] = Home[u] THEN Returned(tagPool[p], S(p)) ELSE tagPool[p]
  BY <1>1 DEF TagsReturned
<1>6. \A p \in Pair : p[1] = Home[u] =>
        /\ S(p) \in Seq(Nat)
        /\ \A i \in DOMAIN S(p) : /\ Out(tagPool[p], S(p)[i])
                                  /\ \E j \in Piece(u) : Batch[u][j] = p[2] /\ S(p)[i] = tags[u][j]
        /\ \A i, k \in DOMAIN S(p) : S(p)[i] = S(p)[k] => i = k
  <2> SUFFICES ASSUME NEW p \in Pair, p[1] = Home[u]
               PROVE  /\ S(p) \in Seq(Nat)
                      /\ \A i \in DOMAIN S(p) :
                           /\ Out(tagPool[p], S(p)[i])
                           /\ \E j \in Piece(u) : Batch[u][j] = p[2] /\ S(p)[i] = tags[u][j]
                      /\ \A i, k \in DOMAIN S(p) : S(p)[i] = S(p)[k] => i = k
    OBVIOUS
  <2> DEFINE P == PiecesTo(u, p[2])
             m == Len(P)
  <2>1. /\ m \in Nat /\ DOMAIN P = 1..m
        /\ \A i \in DOMAIN P : P[i] \in Piece(u) /\ Batch[u][P[i]] = p[2]
        /\ \A i, k \in DOMAIN P : P[i] = P[k] => i = k
    BY PiecesToIs
  <2>2. S(p) = [i \in 1..m |-> tags[u][P[i]]]  BY <2>1
  <2>p. p = <<Home[u], p[2]>>  BY DEF Pair
  <2> HIDE DEF P, m, S
  <2>3. \A i \in 1..m : S(p)[i] \in Nat /\ S(p)[i] = tags[u][P[i]]
    BY <1>2, <1>4, <2>1, <2>2 DEF HeldOut
  <2>4. S(p) = [i \in 1..m |-> S(p)[i]]  BY <2>2
  <2>5. S(p) \in Seq(Nat) /\ DOMAIN S(p) = 1..m  BY <2>1, <2>3, <2>4, SeqIs
  <2>6. \A i \in 1..m : Out(tagPool[p], S(p)[i])  BY <1>2, <1>4, <2>1, <2>3, <2>p, SMTT(40) DEF HeldOut
  <2>7. \A i, k \in 1..m : S(p)[i] = S(p)[k] => i = k  BY <1>2, <1>4, <2>1, <2>3 DEF HeldApart
  <2> QED BY <2>1, <2>3, <2>5, <2>6, <2>7
<1> HIDE DEF S
<1>7. \A p \in Pair : PoolOK(tagPool'[p])
  <2> TAKE p \in Pair
  <2>1. CASE p[1] = Home[u]
    <3>1. PoolOK(tagPool[p])  BY <1>4 DEF Pools
    <3>2. PoolOK(Returned(tagPool[p], S(p)))  BY <1>6, <2>1, <3>1, ReturnedIs
    <3> QED BY <1>5, <2>1, <3>2
  <2>2. CASE p[1] # Home[u]  BY <1>4, <1>5, <2>2 DEF Pools
  <2> QED BY <2>1, <2>2
<1>8. \A p \in Pair : \A x : Out(tagPool[p], x) /\ (p[1] = Home[u] => \A j \in Piece(u) :
                            Batch[u][j] = p[2] => tags[u][j] # x) => Out(tagPool'[p], x)
  <2> SUFFICES ASSUME NEW p \in Pair, NEW x, Out(tagPool[p], x),
                      p[1] = Home[u] => \A j \in Piece(u) : Batch[u][j] = p[2] => tags[u][j] # x
               PROVE  Out(tagPool'[p], x)
    OBVIOUS
  <2>1. CASE p[1] = Home[u]
    <3>1. PoolOK(tagPool[p])  BY <1>4 DEF Pools
    <3>2. \A y : Out(Returned(tagPool[p], S(p)), y) <=> Out(tagPool[p], y) /\ \A i \in DOMAIN S(p) : S(p)[i] # y
      BY <1>6, <2>1, <3>1, ReturnedIs
    <3>3. \A i \in DOMAIN S(p) : S(p)[i] # x  BY <1>6, <2>1
    <3>4. Out(Returned(tagPool[p], S(p)), x)  BY <3>2, <3>3
    <3> QED BY <1>5, <2>1, <3>4
  <2>2. CASE p[1] # Home[u]  BY <1>5, <2>2
  <2> QED BY <2>1, <2>2
<1>9. \A v \in User : HoldsFrom(v)
  <2> TAKE v \in User
  <2>1. CASE v = u  BY <1>3, <2>1 DEF HoldsFrom
  <2>2. CASE v # u
    <3> SUFFICES ASSUME Holds(Place(v))'
                 PROVE  /\ Holds(Place(v)) /\ tags'[v] = tags[v]
                        /\ \A j \in Piece(v) : Out(tagPool'[<<Home[v], Batch[v][j]>>], tags[v][j])
      BY DEF HoldsFrom
    <3>1. Holds(Place(v)) /\ tags'[v] = tags[v]  BY <1>1, <2>2, HoldsOthers
    <3>2. HeldOut(v) /\ HeldApart(u, v)  BY DEF TagsHeld
    <3>3. ASSUME NEW j \in Piece(v) PROVE Out(tagPool'[<<Home[v], Batch[v][j]>>], tags[v][j])
      <4> DEFINE p == <<Home[v], Batch[v][j]>>
      <4>1. p \in Pair /\ p[1] = Home[v] /\ p[2] = Batch[v][j]  BY BatchIs DEF Pair
      <4>2. Out(tagPool[p], tags[v][j])  BY <3>1, <3>2 DEF HeldOut
      <4>3. p[1] = Home[u] => \A l \in Piece(u) : Batch[u][l] = p[2] => tags[u][l] # tags[v][j]
        BY <1>2, <2>2, <3>1, <3>2, <4>1 DEF HeldApart
      <4> HIDE DEF p
      <4>4. Out(tagPool'[p], tags[v][j])  BY <1>8, <4>1, <4>2, <4>3
      <4> QED BY <4>4 DEF p
    <3> QED BY <3>1, <3>3
  <2> QED BY <2>1, <2>2
<1>10. \A r \in Rank : \E g : OwedFrom(r, g)
  <2> TAKE r \in Rank
  <2>1. OwedOut(r) /\ OwedHeld(r, u)  BY DEF TagsHeld
  <2>2. ASSUME NEW i \in DOMAIN reqs[r], Owes(r, i)
        PROVE  Out(tagPool'[<<r, reqs[r][i].peer>>], reqs[r][i].tag)
    <3> DEFINE p == <<r, reqs[r][i].peer>>
    <3>1. Out(tagPool[p], reqs[r][i].tag)  BY <2>1, <2>2 DEF OwedOut
    <3>2. p[1] = Home[u] => \A l \in Piece(u) : Batch[u][l] = p[2] => tags[u][l] # reqs[r][i].tag
      BY <1>2, <2>1, <2>2 DEF OwedHeld
    <3>3. p \in Pair
      <4>1. reqs[r] \in Seq(ReqType)  BY DEF Lists
      <4>2. reqs[r][i] \in ReqType  BY <4>1
      <4> QED BY <4>2 DEF ReqType, Pair
    <3> HIDE DEF p
    <3>4. Out(tagPool'[p], reqs[r][i].tag)  BY <1>8, <3>1, <3>2, <3>3
    <3> QED BY <3>4 DEF p
  <2> QED BY <1>1, <2>2, OwedSame
<1>11. Pools'  BY <1>5, <1>7 DEF Pools
<1> QED BY <1>9, <1>10, <1>11, TagsKept

\* The tags of a new batch.
LEMMA TagsNew ==
  ASSUME Called, TagsHeld, Lists, NEW u \in User, Put(u) \/ Create(u)
  PROVE  TagsHeld'
<1>1. /\ tags' = [tags EXCEPT ![u] = TagsTaken(u)] /\ tagPool' = TagPoolAfterTaking(u)
      /\ reqs' = reqs /\ done' = done /\ UserNext(u)
  <2>1. CASE Put(u)  BY <2>1 DEF Put, UserNext, dvars
  <2>2. CASE Create(u)  BY <2>2, CreateIs DEF UserNext, dvars
  <2> QED BY <2>1, <2>2
<1>2. Pools /\ DOMAIN tags = User  BY DEF Called, TagsHeld
<1>3. /\ TagsTaken(u) \in [Piece(u) -> Nat]
      /\ \A j \in Piece(u) :
            /\ ~ Out(tagPool[<<Home[u], Batch[u][j]>>], TagsTaken(u)[j])
            /\ Out(TagPoolAfterTaking(u)[<<Home[u], Batch[u][j]>>], TagsTaken(u)[j])
      /\ \A j, l \in Piece(u) :
            Batch[u][j] = Batch[u][l] /\ TagsTaken(u)[j] = TagsTaken(u)[l] => j = l
      /\ DOMAIN TagPoolAfterTaking(u) = Pair
  BY <1>2, TagsTakenIs DEF Pools
<1>4. \A p \in Pair :
            /\ PoolOK(TagPoolAfterTaking(u)[p])
            /\ \A x : Out(tagPool[p], x) => Out(TagPoolAfterTaking(u)[p], x)
  BY <1>2, TagsTakenIs DEF Pools
<1>5. tags'[u] = TagsTaken(u) /\ \A v \in User \ {u} : tags'[v] = tags[v]  BY <1>1, <1>2
<1>6. \A i, r : Owes(r, i)' <=> Owes(r, i)  BY <1>1 DEF Owes, OverAt
<1>p. \A v \in User : \A j \in Piece(v) : <<Home[v], Batch[v][j]>> \in Pair  BY BatchIs DEF Pair
<1>7. \A v \in User \ {u} : HeldOut(v)'
  <2> TAKE v \in User \ {u}
  <2>1. HeldOut(v)  BY DEF TagsHeld
  <2>2. Holds(Place(v))' <=> Holds(Place(v))  BY <1>1, HoldsOthers
  <2> QED BY <1>1, <1>4, <1>5, <1>p, <2>1, <2>2 DEF HeldOut
<1>8. HeldOut(u)'  BY <1>1, <1>3, <1>5 DEF HeldOut
<1>9. HeldApart(u, u)'  BY <1>3, <1>5 DEF HeldApart
<1>10. ASSUME NEW v \in User \ {u} PROVE HeldApart(u, v)' /\ HeldApart(v, u)'
  <2>1. HeldOut(v) /\ (Holds(Place(v))' <=> Holds(Place(v)))  BY <1>1, HoldsOthers DEF TagsHeld
  <2>2. ASSUME NEW j \in Piece(u), NEW l \in Piece(v), Holds(Place(v))', Home[u] = Home[v],
               Batch[u][j] = Batch[v][l]
        PROVE  tags'[u][j] # tags'[v][l]
    BY <1>3, <1>5, <2>1, <2>2 DEF HeldOut
  <2> QED BY <2>2 DEF HeldApart
<1>11. ASSUME NEW v \in User \ {u}, NEW w \in User \ {u} PROVE HeldApart(v, w)'
  <2>1. HeldApart(v, w) /\ (Holds(Place(v))' <=> Holds(Place(v))) /\ (Holds(Place(w))' <=> Holds(Place(w)))
    BY <1>1, HoldsOthers DEF TagsHeld
  <2> QED BY <1>5, <2>1 DEF HeldApart
<1>12. ASSUME NEW r \in Rank PROVE OwedApart(r)'
  <2>1. OwedApart(r)  BY DEF TagsHeld
  <2> QED BY <1>1, <1>6, <2>1 DEF OwedApart
<1>13. ASSUME NEW r \in Rank PROVE OwedOut(r)'
  <2>1. OwedOut(r)  BY DEF TagsHeld
  <2> SUFFICES ASSUME NEW i \in DOMAIN reqs[r], Owes(r, i)
               PROVE  Out(tagPool'[<<r, reqs[r][i].peer>>], reqs[r][i].tag)
    BY <1>1, <1>6 DEF OwedOut
  <2>2. reqs[r][i] \in ReqType  BY DEF Lists
  <2>3. <<r, reqs[r][i].peer>> \in Pair  BY <2>2 DEF ReqType, Pair
  <2> QED BY <1>1, <1>4, <2>1, <2>3 DEF OwedOut
<1>14. ASSUME NEW r \in Rank PROVE OwedHeld(r, u)'
  <2>1. OwedOut(r)  BY DEF TagsHeld
  <2> SUFFICES ASSUME NEW i \in DOMAIN reqs[r], NEW j \in Piece(u), Owes(r, i),
                      Home[u] = r, Batch[u][j] = reqs[r][i].peer
               PROVE  TagsTaken(u)[j] # reqs[r][i].tag
    BY <1>1, <1>5, <1>6 DEF OwedHeld
  <2> QED BY <1>3, <2>1 DEF OwedOut
<1>15. ASSUME NEW r \in Rank, NEW v \in User \ {u} PROVE OwedHeld(r, v)'
  <2>1. OwedHeld(r, v) /\ (Holds(Place(v))' <=> Holds(Place(v)))  BY <1>1, HoldsOthers DEF TagsHeld
  <2> QED BY <1>1, <1>5, <1>6, <2>1 DEF OwedHeld
<1>16. Pools'  BY <1>1, <1>3, <1>4 DEF Pools
<1> QED
  <2>1. \A v \in User : HeldOut(v)'  BY <1>7, <1>8
  <2>2. \A v, w \in User : HeldApart(v, w)'  BY <1>9, <1>10, <1>11
  <2>3. \A r \in Rank : OwedOut(r)' /\ OwedApart(r)'  BY <1>12, <1>13
  <2>4. \A r \in Rank : \A v \in User : OwedHeld(r, v)'  BY <1>14, <1>15
  <2> QED BY <1>16, <2>1, <2>2, <2>3, <2>4 DEF TagsHeld

\* Who owes a tag after requests were listed.
LEMMA ListedOwed ==
  ASSUME Called, TagsHeld, Lists, NEW u \in User, ListRequests(u), NEW r \in Rank
  PROVE  \A i \in DOMAIN reqs'[r] : Owes(r, i)' => OldOwed(r, i) \/ \E j \in Piece(u) : NewOwed(u, r, i, j)
<1> SUFFICES ASSUME NEW i \in DOMAIN reqs'[r], Owes(r, i)'
             PROVE  OldOwed(r, i) \/ \E j \in Piece(u) : NewOwed(u, r, i, j)
  OBVIOUS
<1>1. /\ reqs' = [reqs EXCEPT ![Home[u]] = @ \o todo[u]] /\ done' = done /\ step[u] = "append"
  BY DEF ListRequests, dvars
<1>2. DOMAIN reqs = Rank /\ reqs[r] \in Seq(ReqType)  BY DEF Lists
<1>3. OverAt(r, i)' <=> OverAt(r, i)  BY <1>1 DEF OverAt
<1>4. CASE r # Home[u]
  <2>1. reqs'[r] = reqs[r]  BY <1>1, <1>2, <1>4
  <2> QED BY <1>3, <2>1 DEF Owes, OldOwed
<1>5. CASE r = Home[u]
  <2>1. todo[u] \in Seq(ReqType)  BY <1>1, TodoIs
  <2>2. reqs'[r] = reqs[r] \o todo[u]  BY <1>1, <1>2, <1>5
  <2>3. /\ \A k \in DOMAIN reqs[r] : reqs'[r][k] = reqs[r][k]
        /\ \A x \in DOMAIN todo[u] : reqs'[r][Len(reqs[r]) + x] = todo[u][x]
        /\ \A k \in DOMAIN reqs'[r] : k \in DOMAIN reqs[r] \/ \E x \in DOMAIN todo[u] : k = Len(reqs[r]) + x
    <3> DEFINE N == reqs[r] \o todo[u]
    <3>1. /\ \A k \in DOMAIN reqs[r] : N[k] = reqs[r][k]
          /\ \A x \in DOMAIN todo[u] : N[Len(reqs[r]) + x] = todo[u][x]
          /\ \A k \in DOMAIN N : k \in DOMAIN reqs[r] \/ \E x \in DOMAIN todo[u] : k = Len(reqs[r]) + x
      BY <1>2, <2>1, Joined
    <3>2. reqs'[r] = N  BY <2>2
    <3> HIDE DEF N
    <3> QED BY <3>1, <3>2
  <2>4. CASE i \in DOMAIN reqs[r]  BY <1>3, <2>3, <2>4 DEF Owes, OldOwed
  <2>5. CASE \E x \in DOMAIN todo[u] : i = Len(reqs[r]) + x
    <3>1. PICK x \in DOMAIN todo[u] : i = Len(reqs[r]) + x  BY <2>5
    <3>2. reqs'[r][i] = todo[u][x] /\ todo[u][x].kind = "send" /\ ~ todo[u][x].keep
      BY <2>3, <3>1 DEF Owes
    <3>3. /\ prog[u][at[u]] \in {"put", "start"} /\ \E j \in Piece(u) : SendAt(u, x, j)
      BY <1>1, <3>2, TodoIs
    <3>4. PICK j \in Piece(u) : SendAt(u, x, j)  BY <3>3
    <3>5. prog[u][at[u]] = "put"  BY <3>2, <3>3, <3>4 DEF SendAt
    <3>6. Holds(Place(u)) /\ ~ Holds(Place(u))'  BY <1>1, <3>5, PlanOver DEF Holds, PutOpen, Place
    <3>7. NewOwed(u, r, i, j)  BY <1>5, <3>1, <3>2, <3>4, <3>6 DEF NewOwed, SendAt
    <3> QED BY <3>7
  <2> QED BY <2>3, <2>4, <2>5
<1> QED BY <1>4, <1>5

\* Listed requests of a put take over its tags.
LEMMA TagsListed ==
  ASSUME Called, TagsHeld, Lists, NEW u \in User, ListRequests(u)
  PROVE  TagsHeld'
<1>1. tagPool' = tagPool /\ tags' = tags /\ UserNext(u) /\ step[u] = "append"
  BY DEF ListRequests, UserNext
<1>2. \A v \in User : Holds(Place(v))' => Holds(Place(v))
  <2> TAKE v \in User
  <2>1. CASE v = u  BY <2>1, PlanOver
  <2>2. CASE v # u  BY <1>1, <2>2, HoldsOthers
  <2> QED BY <2>1, <2>2
<1>3. Pools' /\ \A v \in User : HeldOut(v)'
  <2>1. Pools /\ \A v \in User : HeldOut(v)  BY DEF TagsHeld
  <2> QED BY <1>1, <1>2, <2>1 DEF Pools, HeldOut
<1>4. \A v, w \in User : HeldApart(v, w)'
  <2> TAKE v, w \in User
  <2>1. HeldApart(v, w)  BY DEF TagsHeld
  <2> QED BY <1>1, <1>2, <2>1 DEF HeldApart
<1>5. HeldOut(u) /\ HeldApart(u, u)  BY DEF TagsHeld
<1>6. ASSUME NEW r \in Rank
      PROVE  OwedOut(r)' /\ OwedApart(r)' /\ \A v \in User : OwedHeld(r, v)'
  <2>1. \A i \in DOMAIN reqs'[r] : Owes(r, i)' => OldOwed(r, i) \/ \E j \in Piece(u) : NewOwed(u, r, i, j)
    BY ListedOwed
  <2>2. OwedOut(r) /\ OwedApart(r) /\ \A v \in User : OwedHeld(r, v)  BY DEF TagsHeld
  <2>3. OwedOut(r)'
    <3> SUFFICES ASSUME NEW i \in DOMAIN reqs'[r], Owes(r, i)'
                 PROVE  Out(tagPool[<<r, reqs'[r][i].peer>>], reqs'[r][i].tag)
      BY <1>1 DEF OwedOut
    <3>1. CASE OldOwed(r, i)  BY <2>2, <3>1 DEF OldOwed, OwedOut
    <3>2. CASE \E j \in Piece(u) : NewOwed(u, r, i, j)  BY <1>5, <3>2 DEF NewOwed, HeldOut
    <3> QED BY <2>1, <3>1, <3>2
  <2>4. OwedApart(r)'
    <3> SUFFICES ASSUME NEW i \in DOMAIN reqs'[r], NEW k \in DOMAIN reqs'[r], Owes(r, i)', Owes(r, k)',
                        reqs'[r][k].peer = reqs'[r][i].peer, reqs'[r][k].tag = reqs'[r][i].tag
                 PROVE  k = i
      BY DEF OwedApart
    <3>1. CASE OldOwed(r, i) /\ OldOwed(r, k)  BY <2>2, <3>1 DEF OldOwed, OwedApart
    <3>2. ASSUME NEW x, NEW y, OldOwed(r, x), NEW j \in Piece(u), NewOwed(u, r, y, j),
                 reqs'[r][x].peer = reqs'[r][y].peer, reqs'[r][x].tag = reqs'[r][y].tag
          PROVE  FALSE
      BY <2>2, <3>2 DEF OldOwed, NewOwed, OwedHeld
    <3>3. ASSUME NEW j \in Piece(u), NEW l \in Piece(u), NewOwed(u, r, i, j), NewOwed(u, r, k, l)
          PROVE  k = i
      <4>1. j = l  BY <1>5, <3>3 DEF NewOwed, HeldApart
      <4>2. PICK x \in DOMAIN todo[u] : i = Len(reqs[r]) + x /\ SendAt(u, x, j)  BY <3>3 DEF NewOwed
      <4>3. PICK y \in DOMAIN todo[u] : k = Len(reqs[r]) + y /\ SendAt(u, y, l)  BY <3>3 DEF NewOwed
      <4>4. x = y  BY <1>1, <4>1, <4>2, <4>3, TodoIs
      <4> QED BY <4>2, <4>3, <4>4
    <3> QED BY <2>1, <3>1, <3>2, <3>3
  <2>5. ASSUME NEW v \in User PROVE OwedHeld(r, v)'
    <3> SUFFICES ASSUME NEW i \in DOMAIN reqs'[r], NEW j \in Piece(v), Owes(r, i)', Holds(Place(v))',
                        Home[v] = r, Batch[v][j] = reqs'[r][i].peer
                 PROVE  tags[v][j] # reqs'[r][i].tag
      BY <1>1 DEF OwedHeld
    <3>1. CASE OldOwed(r, i)  BY <1>2, <2>2, <3>1 DEF OldOwed, OwedHeld
    <3>2. ASSUME NEW l \in Piece(u), NewOwed(u, r, i, l) PROVE tags[v][j] # reqs'[r][i].tag
      <4>1. HeldApart(u, v) /\ v # u  BY <3>2 DEF NewOwed, TagsHeld
      <4> QED BY <1>2, <3>2, <4>1 DEF NewOwed, HeldApart
    <3> QED BY <2>1, <3>1, <3>2
  <2> QED BY <2>3, <2>4, <2>5
<1> QED BY <1>3, <1>4, <1>6 DEF TagsHeld

---------------------------------------------------------------------------
(* What the daemon works on.                                               *)

\* The least of a finite set, by the ordering of the daemon.
LEMMA LeastIs ==
  ASSUME NEW I \in SUBSET Nat, IsFiniteSet(I), I # {}
  PROVE  Min(I) \in I /\ \A i \in I : Min(I) <= i
<1> DEFINE m == Cardinality(I)
           S == Ordered(I)
<1>1. /\ m \in Nat /\ S \in [1..m -> I]
      /\ \A j, k \in 1..m : j < k => S[j] < S[k]
      /\ \A i \in I : \E k \in 1..m : S[k] = i
  BY OrderedLists
<1> HIDE DEF m, S
<1>2. 1 \in 1..m
  <2>1. PICK i \in I : TRUE  OBVIOUS
  <2>2. PICK k \in 1..m : S[k] = i  BY <1>1, <2>1
  <2> QED BY <1>1, <2>2
<1>3. S[1] \in I /\ \A i \in I : S[1] <= i
  <2>1. S[1] \in I  BY <1>1, <1>2
  <2>2. ASSUME NEW i \in I PROVE S[1] <= i
    <3>1. PICK k \in 1..m : S[k] = i  BY <1>1
    <3>2. k = 1 \/ 1 < k  BY <1>1
    <3>3. k = 1 => S[1] = i  BY <3>1
    <3>4. 1 < k => S[1] < S[k]  BY <1>1, <1>2
    <3>5. S[1] \in Nat /\ i \in Nat  BY <2>1
    <3> QED BY <3>1, <3>2, <3>3, <3>4, <3>5
  <2> QED BY <2>1, <2>2
<1>4. \E x \in I : \A y \in I : x <= y  BY <1>3
<1> QED BY <1>4 DEF Min

\* What the daemon has still to work on.
LEMMA PendingIs ==
  ASSUME Works, NEW r \in Rank
  PROVE  /\ Pending(r) \in SUBSET Nat /\ IsFiniteSet(Pending(r)) /\ Pending(r) \subseteq DOMAIN done[r]
         /\ done[r] \in Seq(DoneType) /\ DOMAIN done[r] = 1..Len(done[r]) /\ Len(done[r]) \in Nat
<1>1. done[r] \in Seq(DoneType) /\ DOMAIN done[r] = 1..Len(done[r]) /\ Len(done[r]) \in Nat
  BY DEF Works, WorkTypes
<1>2. Pending(r) \subseteq 1..Len(done[r])  BY <1>1 DEF Pending
<1>3. IsFiniteSet(1..Len(done[r]))  BY <1>1, FS_Interval
<1>4. IsFiniteSet(Pending(r))  BY <1>2, <1>3, FS_Subset
<1> QED BY <1>1, <1>2, <1>4

\* The request the daemon works on, and that it is in the list.
LEMMA CurrentIs ==
  ASSUME Works, NEW r \in Rank, dpc[r] \in {"signal", "release"}
  PROVE  LET n == Current(r)
             e == done[r][n].req
             x == done[r][n].idx
         IN  /\ n \in DOMAIN done[r] /\ n \in Pending(r) /\ x \in DOMAIN reqs[r]
             /\ e.kind \in {"send", "recv"} /\ e.kind = reqs[r][x].kind
             /\ dpc[r] = "release" => e.kind = "send"
             /\ e.w = reqs[r][x].w /\ e.peer = reqs[r][x].peer
             /\ e.tag = reqs[r][x].tag /\ e.keep = reqs[r][x].keep
             /\ ~ OverAt(r, x)
<1>1. Pending(r) # {} /\ (dpc[r] = "release" => done[r][Current(r)].req.kind = "send")
  BY DEF Works, WorksOf, Phase
<1>2. Current(r) \in Pending(r)  BY <1>1, PendingIs, LeastIs DEF Current
<1> DEFINE n == Current(r)
<1>3. n \in DOMAIN done[r] /\ done[r][n].req.kind \in {"send", "recv"}  BY <1>2 DEF Pending
<1>4. LET x == done[r][n].idx
          e == done[r][n].req
      IN  /\ x \in DOMAIN reqs[r]
          /\ e.kind = reqs[r][x].kind \/ (e.kind = "over" /\ reqs[r][x].kind # "ctrl")
          /\ e.w = reqs[r][x].w /\ e.peer = reqs[r][x].peer
          /\ e.tag = reqs[r][x].tag /\ e.keep = reqs[r][x].keep
  BY <1>3 DEF Works, WorksOf, Copied
<1>5. \A k \in DOMAIN done[r] : done[r][k].idx = done[r][n].idx => k = n
  BY <1>3 DEF Works, WorksOf, WorkedApart
<1>6. ~ OverAt(r, done[r][n].idx)  BY <1>3, <1>5 DEF OverAt
<1> QED BY <1>1, <1>2, <1>3, <1>4, <1>6

\* The current request is over.
LEMMA OverIs ==
  ASSUME Works, NEW r \in Rank, dpc[r] \in {"signal", "release"}, done' = Over(r)
  PROVE  LET c == Current(r) IN
         /\ done' \in [Rank -> Seq(DoneType)] /\ DOMAIN done'[r] = DOMAIN done[r]
         /\ \A n \in DOMAIN done[r] :
              /\ done'[r][n].idx = done[r][n].idx
              /\ n # c => done'[r][n] = done[r][n]
         /\ done'[r][c].req.kind = "over"
         /\ done'[r][c].req.w = done[r][c].req.w /\ done'[r][c].req.peer = done[r][c].req.peer
         /\ done'[r][c].req.tag = done[r][c].req.tag /\ done'[r][c].req.keep = done[r][c].req.keep
         /\ \A s \in Rank \ {r} : done'[s] = done[s]
         /\ \A i : OverAt(r, i)' <=> OverAt(r, i) \/ i = done[r][c].idx
         /\ Pending(r)' = Pending(r) \ {c}
<1>1. PICK c : c = Current(r)  OBVIOUS
<1>2. c \in DOMAIN done[r] /\ c \in Pending(r)  BY <1>1, CurrentIs
<1>3. done \in [Rank -> Seq(DoneType)] /\ done[r] \in Seq(DoneType)
  BY DEF Works, WorkTypes
<1>4. done' = [done EXCEPT ![r][c].req.kind = "over"]  BY <1>1 DEF Over
<1>5. done'[r] = [done[r] EXCEPT ![c].req.kind = "over"] /\ \A s \in Rank \ {r} : done'[s] = done[s]
  BY <1>3, <1>4
<1>6. DOMAIN done'[r] = DOMAIN done[r] /\ \A n \in DOMAIN done[r] : n # c => done'[r][n] = done[r][n]
  BY <1>5
<1>7. done'[r][c] = [done[r][c] EXCEPT !.req.kind = "over"]  BY <1>2, <1>5
<1>8. done[r][c] \in DoneType  BY <1>2, <1>3
<1>9. /\ done'[r][c].idx = done[r][c].idx /\ done'[r][c].req.kind = "over"
      /\ done'[r][c].req.w = done[r][c].req.w /\ done'[r][c].req.peer = done[r][c].req.peer
      /\ done'[r][c].req.tag = done[r][c].req.tag /\ done'[r][c].req.keep = done[r][c].req.keep
      /\ done'[r][c] \in DoneType
  BY <1>7, <1>8 DEF DoneType
<1>10. done'[r] \in Seq(DoneType)
  <2>1. DOMAIN done[r] = 1..Len(done[r]) /\ Len(done[r]) \in Nat /\ \A n \in DOMAIN done[r] : done[r][n] \in DoneType
    BY <1>3
  <2>2. \A n \in 1..Len(done[r]) : done'[r][n] \in DoneType  BY <1>6, <1>9, <2>1
  <2>3. done'[r] = [n \in 1..Len(done[r]) |-> done'[r][n]]  BY <1>5, <2>1
  <2> QED BY <2>1, <2>2, <2>3, SeqIs
<1>11. done' \in [Rank -> Seq(DoneType)]
  <2>1. DOMAIN done' = Rank /\ \A s \in Rank : done'[s] \in Seq(DoneType)
    BY <1>3, <1>4, <1>5, <1>10
  <2>2. done' = [s \in Rank |-> done'[s]]  BY <1>3, <1>4
  <2> QED BY <2>1, <2>2
<1>12. \A n \in DOMAIN done[r] : done'[r][n].idx = done[r][n].idx  BY <1>6, <1>9
<1>13. ASSUME NEW i PROVE OverAt(r, i)' <=> OverAt(r, i) \/ i = done[r][c].idx
  <2>1. done[r][c].req.kind # "over"  BY <1>2 DEF Pending
  <2>2. OverAt(r, i)' <=> \E n \in DOMAIN done[r] : done[r][n].idx = i /\ done'[r][n].req.kind = "over"
    BY <1>6, <1>12 DEF OverAt
  <2> QED BY <1>2, <1>6, <1>9, <2>1, <2>2 DEF OverAt
<1>14. Pending(r)' = Pending(r) \ {c}  BY <1>2, <1>6, <1>9 DEF Pending
<1> QED BY <1>1, <1>5, <1>6, <1>9, <1>11, <1>12, <1>13, <1>14

\* What is worked on after a test is a copy of the complete requests.
LEMMA TestDone ==
  ASSUME Lists, Works, NEW r \in Rank, NEW D \in SUBSET (DOMAIN reqs[r]),
         done' = [done EXCEPT ![r] = [n \in 1..Cardinality(D) |->
                            [idx |-> Ordered(D)[n], req |-> reqs[r][Ordered(D)[n]]]]]
  PROVE  /\ done' \in [Rank -> Seq(DoneType)] /\ \A s \in Rank \ {r} : done'[s] = done[s]
         /\ \A n \in DOMAIN done'[r] : done'[r][n].idx \in D /\ done'[r][n].req = reqs[r][done'[r][n].idx]
         /\ \A n, k \in DOMAIN done'[r] : done'[r][k].idx = done'[r][n].idx => k = n
         /\ \A i \in D : \E n \in DOMAIN done'[r] : done'[r][n].idx = i
         /\ \A i : ~ OverAt(r, i)'
<1> DEFINE m == Cardinality(D)
           O == Ordered(D)
           N == [n \in 1..m |-> [idx |-> O[n], req |-> reqs[r][O[n]]]]
<1>1. /\ reqs[r] \in Seq(ReqType) /\ DOMAIN reqs[r] = 1..Len(reqs[r]) /\ Len(reqs[r]) \in Nat
      /\ \A i \in DOMAIN reqs[r] : reqs[r][i] \in ReqType
  BY DEF Lists
<1>2. D \in SUBSET Nat  BY <1>1
<1>3. IsFiniteSet(D)
  <2>1. IsFiniteSet(1..Len(reqs[r]))  BY <1>1, FS_Interval
  <2>2. D \subseteq 1..Len(reqs[r])  BY <1>1
  <2> QED BY <2>1, <2>2, FS_Subset
<1>4. /\ m \in Nat /\ O \in [1..m -> D]
      /\ \A j, k \in 1..m : j < k => O[j] < O[k]
      /\ \A i \in D : \E k \in 1..m : O[k] = i
  BY <1>2, <1>3, OrderedLists
<1>5. done \in [Rank -> Seq(DoneType)] /\ done' = [done EXCEPT ![r] = N]
  BY DEF Works, WorkTypes
<1> HIDE DEF m, O
<1>6. done'[r] = N /\ \A s \in Rank \ {r} : done'[s] = done[s]  BY <1>5
<1>7. DOMAIN N = 1..m /\ \A n \in 1..m : N[n].idx = O[n] /\ N[n].req = reqs[r][O[n]]  OBVIOUS
<1>8. \A n \in 1..m : N[n] \in DoneType
  <2> TAKE n \in 1..m
  <2>1. O[n] \in Nat /\ O[n] \in DOMAIN reqs[r]  BY <1>2, <1>4
  <2>2. reqs[r][O[n]] \in ReqType  BY <1>1, <2>1
  <2>3. N[n] = [idx |-> O[n], req |-> reqs[r][O[n]]]  OBVIOUS
  <2> QED BY <2>1, <2>2, <2>3 DEF DoneType, ReqType
<1>9. N = [n \in 1..m |-> N[n]]  OBVIOUS
<1> HIDE DEF N
<1>10. N \in Seq(DoneType)  BY <1>4, <1>8, <1>9, SeqIs
<1>11. done' \in [Rank -> Seq(DoneType)]  BY <1>5, <1>10
<1>12. \A n, k \in 1..m : O[n] = O[k] => k = n
  <2> SUFFICES ASSUME NEW n \in 1..m, NEW k \in 1..m, O[n] = O[k] PROVE k = n  OBVIOUS
  <2>1. O[n] \in Nat /\ O[k] \in Nat  BY <1>2, <1>4
  <2>2. (n < k => O[n] < O[k]) /\ (k < n => O[k] < O[n])  BY <1>4
  <2>3. ~ (O[n] < O[k]) /\ ~ (O[k] < O[n])  BY <2>1
  <2> QED BY <2>2, <2>3
<1>13. \A n \in 1..m : N[n].req.kind # "over"
  <2> TAKE n \in 1..m
  <2>1. reqs[r][O[n]] \in ReqType /\ N[n].req = reqs[r][O[n]]  BY <1>1, <1>4, <1>7
  <2> QED BY <2>1 DEF ReqType
<1>14. \A i : ~ OverAt(r, i)'  BY <1>6, <1>7, <1>13 DEF OverAt
<1>15. /\ \A n \in DOMAIN N : N[n].idx \in D /\ N[n].req = reqs[r][N[n].idx]
       /\ \A n, k \in DOMAIN N : N[k].idx = N[n].idx => k = n
       /\ \A i \in D : \E n \in DOMAIN N : N[n].idx = i
  <2>1. \A n \in 1..m : O[n] \in D  BY <1>4
  <2>2. \A n \in DOMAIN N : N[n].idx \in D /\ N[n].req = reqs[r][N[n].idx]  BY <1>7, <2>1
  <2>3. \A n, k \in DOMAIN N : N[k].idx = N[n].idx => k = n  BY <1>7, <1>12
  <2>4. \A i \in D : \E n \in DOMAIN N : N[n].idx = i  BY <1>4, <1>7
  <2> QED BY <2>2, <2>3, <2>4
<1> QED BY <1>6, <1>11, <1>14, <1>15

\* The list without what was worked on.
LEMMA UnlistIs ==
  ASSUME Lists, Works, NEW r \in Rank, Unlist(r)
  PROVE  /\ reqs' \in [Rank -> Seq(ReqType)] /\ \A s \in Rank \ {r} : reqs'[s] = reqs[s] /\ done'[s] = done[s]
         /\ \E f : Picked(reqs'[r], reqs[r], Worked(r), f)
         /\ done' \in [Rank -> Seq(DoneType)] /\ done'[r] = <<>> /\ dpc' = [dpc EXCEPT ![r] = "drain"]
         /\ dpc[r] = "remove"
         /\ UNCHANGED <<uvars, tagPool, idPool, mvars, svars>>
<1>1. /\ reqs' = [reqs EXCEPT ![r] = Compacted(@, Worked(r))] /\ done' = [done EXCEPT ![r] = <<>>]
      /\ dpc' = [dpc EXCEPT ![r] = "drain"] /\ dpc[r] = "remove"
      /\ UNCHANGED <<uvars, tagPool, idPool, mvars, svars>>
  BY DEF Unlist
<1>2. reqs \in [Rank -> Seq(ReqType)] /\ done \in [Rank -> Seq(DoneType)]
  BY DEF Lists, Works, WorkTypes
<1>3. Worked(r) \in SUBSET (DOMAIN reqs[r])
  BY DEF Works, Worked, WorksOf, Copied
<1>4. Compacted(reqs[r], Worked(r)) \in Seq(ReqType)
      /\ \E f : Picked(Compacted(reqs[r], Worked(r)), reqs[r], Worked(r), f)
  <2>1. reqs[r] \in Seq(ReqType)  BY <1>2
  <2> QED BY <1>3, <2>1, CompactedIs
<1>5. reqs'[r] = Compacted(reqs[r], Worked(r))  BY <1>1, <1>2
<1>6. reqs' \in [Rank -> Seq(ReqType)] /\ done' \in [Rank -> Seq(DoneType)]  BY <1>1, <1>2, <1>4
<1>7. done'[r] = <<>> /\ \A s \in Rank \ {r} : reqs'[s] = reqs[s] /\ done'[s] = done[s]
  BY <1>1, <1>2
<1> QED BY <1>1, <1>4, <1>5, <1>6, <1>7

\* What processing a message does, in terms of lists.
LEMMA DrainIs ==
  ASSUME Lists, NEW tab, NEW line, NEW cut, Course(tab, line, cut), NEW r \in Rank, NEW s \in Rank, Drain(r, s)
  PROVE  \E p, m, S, R : Drained(r, s, p, m, S, R)
<1>1. PICK p : p = <<s, r>>  OBVIOUS
<1>2. PICK m : m = Head(ctrl[p])  OBVIOUS
<1>3. PICK S : S = Posts(slot[p], m)  OBVIOUS
<1>4. p \in Pair  BY <1>1 DEF Pair
<1>5. /\ dpc[r] = "drain" /\ ctrl[p] # <<>> /\ ctrl' = [ctrl EXCEPT ![p] = Tail(@)]
      /\ slot' = [slot EXCEPT ![p] = SlotAfter(@, m)]
      /\ posted' = [posted EXCEPT ![p] = @ \o S]
      /\ reqs' = [reqs EXCEPT ![r] = @ \o Receives(s, m, S)]
      /\ UNCHANGED <<uvars, tagPool, idPool, net, dvars, svars>>
  BY <1>1, <1>2, <1>3 DEF Drain
<1>6. S \in Seq(OpType)
  <2>1. OnCourse(tab[p], line[p], cut[p], ctrl[p], posted[p], slot[p])  BY <1>4 DEF Course
  <2> QED BY <1>2, <1>3, <1>5, <2>1, CourseDrain
<1>7. \A x \in DOMAIN S : S[x] \in OpType  BY <1>6
<1>8. Receives(s, m, S) = [x \in DOMAIN S |-> Request("recv", s, S[x].w, S[x].tag, m.type = "start")]
  BY DEF Receives
<1>9. ASSUME NEW x \in DOMAIN S
      PROVE  /\ Receives(s, m, S)[x] \in [kind : {"recv"}, peer : {s}, w : BatchKey \X Nat \X Nat, tag : Nat, keep : BOOLEAN]
             /\ Receives(s, m, S)[x].w = S[x].w
  <2>1. Receives(s, m, S)[x] = [kind |-> "recv", peer |-> s, w |-> S[x].w, tag |-> S[x].tag, keep |-> (m.type = "start")]
    BY <1>8 DEF Request
  <2>2. S[x].w \in BatchKey \X Nat \X Nat /\ S[x].tag \in Nat  BY <1>7 DEF OpType
  <2>3. (m.type = "start") \in BOOLEAN  OBVIOUS
  <2>4. PICK w, t, b : w = S[x].w /\ t = S[x].tag /\ b = (m.type = "start") /\ b \in BOOLEAN
    BY <2>3
  <2> QED BY <2>1, <2>2, <2>4
<1>10. /\ Receives(s, m, S) \in [DOMAIN S -> [kind : {"recv"}, peer : {s}, w : BatchKey \X Nat \X Nat, tag : Nat, keep : BOOLEAN]]
       /\ \A x \in DOMAIN Receives(s, m, S) : Receives(s, m, S)[x].w = S[x].w
  BY <1>8, <1>9
<1>11. PICK R : R = Receives(s, m, S)  OBVIOUS
<1>12. /\ R \in [DOMAIN S -> [kind : {"recv"}, peer : {s}, w : BatchKey \X Nat \X Nat, tag : Nat, keep : BOOLEAN]]
       /\ \A x \in DOMAIN R : R[x].w = S[x].w
       /\ reqs' = [reqs EXCEPT ![r] = @ \o R]
  BY <1>5, <1>10, <1>11
<1>13. Drained(r, s, p, m, S, R)  BY <1>1, <1>2, <1>3, <1>4, <1>5, <1>6, <1>12 DEF Drained
<1> QED BY <1>13

---------------------------------------------------------------------------
(* Tags over the steps of the daemon.                                      *)

\* Requests owe their tags as before, or less.
LEMMA OwedFewer ==
  ASSUME NEW r \in Rank, reqs' = reqs,
         \A i \in DOMAIN reqs[r] : Owes(r, i)' =>
           Owes(r, i) /\ Out(tagPool'[<<r, reqs[r][i].peer>>], reqs[r][i].tag)
  PROVE  \E g : OwedFrom(r, g)
<1> DEFINE g == [i \in DOMAIN reqs[r] |-> i]
<1>1. \A i \in DOMAIN reqs[r] : g[i] = i  OBVIOUS
<1> HIDE DEF g
<1>2. OwedFrom(r, g)  BY <1>1 DEF OwedFrom
<1> QED BY <1>2

\* A step of the daemon leaves the tags of the threads.
LEMMA HoldsDaemon ==
  ASSUME Called, TagsHeld, UNCHANGED uvars, tagPool' = tagPool
  PROVE  Pools' /\ \A u \in User : HoldsFrom(u)
<1>1. Pools' /\ \A u \in User : HeldOut(u)  BY DEF Pools, TagsHeld
<1>2. tags' = tags /\ \A u \in User : Place(u)' = Place(u)  BY CalledSame
<1> QED BY <1>1, <1>2 DEF HoldsFrom, HeldOut

\* A test returns no tag.
LEMMA TagsTest ==
  ASSUME Called, TagsHeld, Lists, Works, NEW r \in Rank, Test(r)
  PROVE  TagsHeld'
<1>1. reqs' = reqs /\ tagPool' = tagPool /\ UNCHANGED uvars /\ dpc[r] = "drain"  BY TestIs
<1>2. PICK D \in SUBSET Complete(r) :
        done' = [done EXCEPT ![r] = [n \in 1..Cardinality(D) |->
                          [idx |-> Ordered(D)[n], req |-> reqs[r][Ordered(D)[n]]]]]
  BY TestIs
<1>3. D \in SUBSET (DOMAIN reqs[r])  BY DEF Complete
<1>4. done[r] = <<>>  BY <1>1 DEF Works, WorksOf, Phase
<1>5. \A s \in Rank : \A i : Owes(s, i)' => Owes(s, i)
  <2> TAKE s \in Rank
  <2> TAKE i
  <2>1. CASE s = r  BY <1>1, <1>4, <2>1 DEF Owes, OverAt
  <2>2. CASE s # r
    <3>1. done'[s] = done[s]  BY <1>2, <1>3, <2>2, TestDone
    <3> QED BY <1>1, <3>1 DEF Owes, OverAt
  <2> QED BY <2>1, <2>2
<1>6. \A s \in Rank : \E g : OwedFrom(s, g)
  <2> TAKE s \in Rank
  <2>1. OwedOut(s)  BY DEF TagsHeld
  <2>2. \A i \in DOMAIN reqs[s] : Owes(s, i)' =>
          Owes(s, i) /\ Out(tagPool'[<<s, reqs[s][i].peer>>], reqs[s][i].tag)
    BY <1>1, <1>5, <2>1 DEF OwedOut, Owes
  <2> QED BY <1>1, <2>2, OwedFewer
<1> QED BY <1>1, <1>6, HoldsDaemon, TagsKept

\* What moving a signal does.
LEMMA SignalIs ==
  ASSUME Works, NEW r \in Rank, Signal(r)
  PROVE  LET e == done[r][Current(r)].req IN
         /\ dpc[r] = "signal" /\ UNCHANGED <<uvars, tagPool, idPool, mvars, reqs>>
         /\ \/ /\ e.kind = "send"
               /\ sendSig' = [sendSig EXCEPT ![e.w[1]] = @ - 1] /\ sent' = [sent EXCEPT ![e.w] = @ + 1]
               /\ dpc' = [dpc EXCEPT ![r] = "release"] /\ UNCHANGED <<done, recvSig, landed>>
            \/ /\ e.kind = "recv"
               /\ recvSig' = [recvSig EXCEPT ![e.w[1]][e.w[2]] = @ - 1]
               /\ landed' = [landed EXCEPT ![e.w] = @ + 1]
               /\ dpc' = [dpc EXCEPT ![r] = AfterRequest(r)] /\ done' = Over(r)
               /\ UNCHANGED <<sendSig, sent>>
<1>1. done[r][Current(r)].req.kind \in {"send", "recv"}  BY CurrentIs, Zenon DEF Signal
<1> QED BY <1>1, Zenon DEF Signal

\* A signal gives no tag back.
LEMMA TagsSignal ==
  ASSUME Called, TagsHeld, Lists, Works, NEW r \in Rank, Signal(r)
  PROVE  TagsHeld'
<1>1. reqs' = reqs /\ tagPool' = tagPool /\ UNCHANGED uvars /\ dpc[r] = "signal"
      /\ (done' = done \/ done' = Over(r))
  BY SignalIs, Zenon
<1>2. \A s \in Rank : \A i : Owes(s, i)' => Owes(s, i)
  <2> TAKE s \in Rank
  <2> TAKE i
  <2>1. CASE done' = done  BY <1>1, <2>1 DEF Owes, OverAt
  <2>2. CASE done' = Over(r)
    <3>1. OverAt(s, i) => OverAt(s, i)'
      <4>1. CASE s = r  BY <1>1, <2>2, <4>1, OverIs
      <4>2. CASE s # r
        <5>1. done'[s] = done[s]  BY <1>1, <2>2, <4>2, OverIs
        <5> QED BY <5>1 DEF OverAt
      <4> QED BY <4>1, <4>2
    <3> QED BY <1>1, <3>1 DEF Owes
  <2> QED BY <1>1, <2>1, <2>2
<1>3. \A s \in Rank : \E g : OwedFrom(s, g)
  <2> TAKE s \in Rank
  <2>1. OwedOut(s)  BY DEF TagsHeld
  <2>2. \A i \in DOMAIN reqs[s] : Owes(s, i)' =>
          Owes(s, i) /\ Out(tagPool'[<<s, reqs[s][i].peer>>], reqs[s][i].tag)
    BY <1>1, <1>2, <2>1 DEF OwedOut
  <2> QED BY <1>1, <2>2, OwedFewer
<1> QED BY <1>1, <1>3, HoldsDaemon, TagsKept

\* What is removed from the list owes no tag any more.
LEMMA TagsUnlist ==
  ASSUME Called, TagsHeld, Lists, Works, NEW r \in Rank, Unlist(r)
  PROVE  TagsHeld'
<1>1. /\ \A s \in Rank \ {r} : reqs'[s] = reqs[s] /\ done'[s] = done[s]
      /\ \E f : Picked(reqs'[r], reqs[r], Worked(r), f)
      /\ tagPool' = tagPool /\ UNCHANGED uvars
  BY UnlistIs
<1>2. \A s \in Rank \ {r} : \E g : OwedFrom(s, g)
  <2> TAKE s \in Rank \ {r}
  <2> DEFINE g == [i \in DOMAIN reqs[s] |-> i]
  <2>1. OwedOut(s)  BY DEF TagsHeld
  <2>2. reqs'[s] = reqs[s] /\ done'[s] = done[s]  BY <1>1
  <2>3. \A i : Owes(s, i)' <=> Owes(s, i)  BY <2>2 DEF Owes, OverAt
  <2>4. \A i \in DOMAIN reqs[s] : g[i] = i  OBVIOUS
  <2> HIDE DEF g
  <2>5. OwedFrom(s, g)  BY <1>1, <2>1, <2>2, <2>3, <2>4 DEF OwedFrom, OwedOut
  <2> QED BY <2>5
<1>3. \E g : OwedFrom(r, g)
  <2>1. PICK f : Picked(reqs'[r], reqs[r], Worked(r), f)  BY <1>1
  <2>2. OwedOut(r)  BY DEF TagsHeld
  <2>3. ASSUME NEW i \in DOMAIN reqs'[r], Owes(r, i)'
        PROVE  /\ f[i] \in DOMAIN reqs[r] /\ Owes(r, f[i]) /\ reqs'[r][i] = reqs[r][f[i]]
    <3>1. f[i] \in DOMAIN reqs[r] /\ f[i] \notin Worked(r) /\ reqs'[r][i] = reqs[r][f[i]]
      BY <2>1 DEF Picked
    <3>2. ~ OverAt(r, f[i])  BY <3>1 DEF OverAt, Worked
    <3> QED BY <2>3, <3>1, <3>2 DEF Owes
  <2>4. OwedFrom(r, f)  BY <1>1, <2>1, <2>2, <2>3 DEF OwedFrom, OwedOut, Picked
  <2> QED BY <2>4
<1> QED BY <1>1, <1>2, <1>3, HoldsDaemon, TagsKept

\* Requests of new receives owe no tag.
LEMMA TagsDrain ==
  ASSUME Called, TagsHeld, Lists, NEW tab, NEW line, NEW cut, Course(tab, line, cut),
         NEW r \in Rank, NEW s \in Rank, Drain(r, s)
  PROVE  TagsHeld'
<1>1. PICK R : /\ reqs' = [reqs EXCEPT ![r] = @ \o R] /\ done' = done /\ tagPool' = tagPool
               /\ UNCHANGED uvars /\ \A x \in DOMAIN R : R[x].kind = "recv"
               /\ \E n \in Nat : DOMAIN R = 1..n
  <2>1. PICK p, m, S, R : Drained(r, s, p, m, S, R)  BY DrainIs
  <2>2. S \in Seq(OpType) /\ DOMAIN R = DOMAIN S /\ \A x \in DOMAIN R : R[x].kind = "recv"
    BY <2>1 DEF Drained
  <2>3. \E n \in Nat : DOMAIN R = 1..n  BY <2>2
  <2> QED BY <2>1, <2>2, <2>3 DEF Drained, dvars
<1>2. reqs \in [Rank -> Seq(ReqType)]  BY DEF Lists
<1>3. ASSUME NEW q \in Rank, NEW i, Owes(q, i)' PROVE Owes(q, i) /\ reqs'[q][i] = reqs[q][i]
  <2>1. OverAt(q, i)' <=> OverAt(q, i)  BY <1>1 DEF OverAt
  <2>2. CASE q # r
    <3>1. reqs'[q] = reqs[q]  BY <1>1, <1>2, <2>2
    <3> QED BY <1>3, <2>1, <3>1 DEF Owes
  <2>3. CASE q = r
    <3>1. reqs'[r] = reqs[r] \o R  BY <1>1, <1>2
    <3>2. PICK n \in Nat : DOMAIN R = 1..n  BY <1>1
    <3>3. PICK m \in Nat : DOMAIN reqs[r] = 1..m /\ Len(reqs[r]) = m  BY <1>2
    <3>4. Len(R) = n  BY <3>2
    <3>5. DOMAIN (reqs[r] \o R) = 1..(m + n) /\ \A k \in 1..(m + n) :
            (reqs[r] \o R)[k] = IF k <= m THEN reqs[r][k] ELSE R[k - m]
      BY <3>3, <3>4
    <3>6. i \in 1..(m + n) /\ reqs'[r][i].kind = "send"  BY <1>3, <2>3, <3>1, <3>5 DEF Owes
    <3>7. i \in DOMAIN reqs[r] /\ reqs'[r][i] = reqs[r][i]
      <4>1. reqs'[r][i] = IF i <= m THEN reqs[r][i] ELSE R[i - m]  BY <3>1, <3>5, <3>6
      <4>2. ~ (i <= m) => i - m \in 1..n  BY <3>6
      <4>3. ~ (i <= m) => R[i - m].kind = "recv"  BY <1>1, <3>2, <4>2
      <4>4. i <= m  BY <3>6, <4>1, <4>3
      <4> QED BY <3>3, <3>6, <4>1, <4>4
    <3> QED BY <1>3, <2>1, <2>3, <3>7 DEF Owes
  <2> QED BY <2>2, <2>3
<1>4. \A q \in Rank : \E g : OwedFrom(q, g)
  <2> TAKE q \in Rank
  <2> DEFINE g == [i \in DOMAIN reqs'[q] |-> i]
  <2>1. OwedOut(q)  BY DEF TagsHeld
  <2>2. \A i \in DOMAIN reqs'[q] : g[i] = i  OBVIOUS
  <2> HIDE DEF g
  <2>3. \A i \in DOMAIN reqs'[q] : Owes(q, i)' => Owes(q, i) /\ reqs'[q][i] = reqs[q][i] /\ i \in DOMAIN reqs[q]
    BY <1>3 DEF Owes
  <2>4. OwedFrom(q, g)  BY <1>1, <2>1, <2>2, <2>3 DEF OwedFrom, OwedOut
  <2> QED BY <2>4
<1> QED BY <1>1, <1>4, HoldsDaemon, TagsKept

\* A tag that was used once goes back.
LEMMA TagsRelease ==
  ASSUME Called, TagsHeld, Lists, Works, NEW r \in Rank, Release(r)
  PROVE  TagsHeld'
<1>1. PICK c, e, x : c = Current(r) /\ e = done[r][c].req /\ x = done[r][c].idx  OBVIOUS
<1>2. PICK p : p = <<r, e.peer>>  OBVIOUS
<1>3. /\ tagPool' = (IF e.keep THEN tagPool ELSE [tagPool EXCEPT ![p] = Returned(@, <<e.tag>>)])
      /\ done' = Over(r) /\ dpc[r] = "release" /\ reqs' = reqs /\ UNCHANGED uvars
  BY <1>1, <1>2 DEF Release
<1>4. /\ x \in DOMAIN reqs[r] /\ e.kind = "send" /\ e.kind = reqs[r][x].kind
      /\ e.peer = reqs[r][x].peer /\ e.tag = reqs[r][x].tag /\ e.keep = reqs[r][x].keep
      /\ ~ OverAt(r, x)
  BY <1>1, <1>3, CurrentIs
<1>5. \A i : OverAt(r, i)' <=> OverAt(r, i) \/ i = x  BY <1>1, <1>3, OverIs
<1>6. \A s \in Rank \ {r} : done'[s] = done[s]  BY <1>3, OverIs
<1>7. CASE e.keep
  <2>1. tagPool' = tagPool  BY <1>3, <1>7
  <2>2. \A s \in Rank : \A i : Owes(s, i)' => Owes(s, i)  BY <1>3, <1>5, <1>6 DEF Owes, OverAt
  <2>3. \A s \in Rank : \E g : OwedFrom(s, g)
    <3> TAKE s \in Rank
    <3>1. OwedOut(s)  BY DEF TagsHeld
    <3>2. \A i \in DOMAIN reqs[s] : Owes(s, i)' =>
            Owes(s, i) /\ Out(tagPool'[<<s, reqs[s][i].peer>>], reqs[s][i].tag)
      BY <2>1, <2>2, <3>1 DEF OwedOut
    <3> QED BY <1>3, <3>2, OwedFewer
  <2> QED BY <1>3, <2>1, <2>3, HoldsDaemon, TagsKept
<1>8. CASE ~ e.keep
  <2>1. Owes(r, x)  BY <1>4, <1>8 DEF Owes
  <2>2. Pools /\ OwedOut(r) /\ OwedApart(r) /\ \A u \in User : OwedHeld(r, u) /\ HeldOut(u)
    BY DEF TagsHeld
  <2>3. p \in Pair /\ e.tag \in Nat
    <3>1. reqs[r][x] \in ReqType  BY <1>4 DEF Lists
    <3> QED BY <1>2, <1>4, <3>1 DEF ReqType, Pair
  <2>4. Out(tagPool[p], e.tag) /\ PoolOK(tagPool[p])
    BY <1>2, <1>4, <2>1, <2>2, <2>3 DEF OwedOut, Pools
  <2>5. PICK S : S = <<e.tag>>  OBVIOUS
  <2>6. S \in Seq(Nat) /\ DOMAIN S = {1} /\ S[1] = e.tag  BY <2>3, <2>5
  <2>7. /\ PoolOK(Returned(tagPool[p], S))
        /\ \A y : Out(Returned(tagPool[p], S), y) <=> Out(tagPool[p], y) /\ \A i \in DOMAIN S : S[i] # y
    <3>1. \A i \in DOMAIN S : Out(tagPool[p], S[i])  BY <2>4, <2>6
    <3>2. \A i, k \in DOMAIN S : S[i] = S[k] => i = k  BY <2>6
    <3> QED BY <2>4, <2>6, <3>1, <3>2, ReturnedIs
  <2>8. DOMAIN tagPool' = Pair /\ tagPool'[p] = Returned(tagPool[p], S)
        /\ \A q \in Pair : q # p => tagPool'[q] = tagPool[q]
    BY <1>3, <1>8, <2>2, <2>3, <2>5 DEF Pools
  <2>9. Pools'  BY <2>2, <2>7, <2>8 DEF Pools
  <2>10. \A q \in Pair : \A y : Out(tagPool[q], y) /\ (q = p => y # e.tag) => Out(tagPool'[q], y)
    BY <2>6, <2>7, <2>8
  <2>11. \A s \in Rank : \E g : OwedFrom(s, g)
    <3> TAKE s \in Rank
    <3>1. OwedOut(s)  BY DEF TagsHeld
    <3>2. ASSUME NEW i \in DOMAIN reqs[s], Owes(s, i)'
          PROVE  Owes(s, i) /\ Out(tagPool'[<<s, reqs[s][i].peer>>], reqs[s][i].tag)
      <4>1. Owes(s, i) /\ (s = r => i # x)  BY <1>3, <1>5, <1>6, <3>2 DEF Owes, OverAt
      <4>2. PICK q : q = <<s, reqs[s][i].peer>>  OBVIOUS
      <4>3. q \in Pair
        <5>1. reqs[s][i] \in ReqType  BY DEF Lists
        <5> QED BY <4>2, <5>1 DEF ReqType, Pair
      <4>4. Out(tagPool[q], reqs[s][i].tag)  BY <3>1, <4>1, <4>2 DEF OwedOut
      <4>5. q = p => reqs[s][i].tag # e.tag  BY <1>2, <1>4, <2>1, <2>2, <4>1, <4>2 DEF OwedApart
      <4> QED BY <2>10, <4>1, <4>2, <4>3, <4>4, <4>5
    <3> QED BY <1>3, <3>2, OwedFewer
  <2>12. tags' = tags /\ \A u \in User : Place(u)' = Place(u)  BY <1>3, CalledSame
  <2>13. ASSUME NEW u \in User PROVE HoldsFrom(u)
    <3> SUFFICES ASSUME Holds(Place(u)), NEW j \in Piece(u)
                 PROVE  Out(tagPool'[<<Home[u], Batch[u][j]>>], tags[u][j])
      BY <2>12 DEF HoldsFrom
    <3>1. PICK q : q = <<Home[u], Batch[u][j]>>  OBVIOUS
    <3>2. q \in Pair  BY <3>1, BatchIs DEF Pair
    <3>3. Out(tagPool[q], tags[u][j])  BY <2>2, <3>1 DEF HeldOut
    <3>4. q = p => tags[u][j] # e.tag  BY <1>2, <1>4, <2>1, <2>2, <3>1 DEF OwedHeld
    <3> QED BY <2>10, <3>1, <3>2, <3>3, <3>4
  <2> QED BY <2>9, <2>11, <2>13, TagsKept
<1> QED BY <1>7, <1>8

\* No two users of a tag.
LEMMA TagsUserNext ==
  ASSUME Called, TagsHeld, Lists, NEW u \in User, UserNext(u)
  PROVE  TagsHeld'
  BY TagsUser, TagsDestroy, TagsNew, TagsListed DEF UserNext

\* All steps of the daemon keep the tags apart.
LEMMA TagsDaemonNext ==
  ASSUME Called, TagsHeld, Lists, Works, NEW tab, NEW line, NEW cut, Course(tab, line, cut),
         NEW r \in Rank, DaemonNext(r)
  PROVE  TagsHeld'
  BY TagsDrain, TagsTest, TagsSignal, TagsRelease, TagsUnlist DEF DaemonNext

---------------------------------------------------------------------------
(* Batch ids that are out.                                                 *)

\* The writes of a plan stay as long as its tags.
LEMMA PlanOpsSame ==
  ASSUME NEW u, NEW k, NEW d, tags'[u] = tags[u]
  PROVE  PlanOps(u, k, d)' = PlanOps(u, k, d)
  BY DEF PlanOps, Op, PiecesTo

\* A thread tells each of its targets.
LEMMA TargetPair ==
  ASSUME NEW u \in User, NEW d \in Target(u)
  PROVE  /\ <<Home[u], d>> \in Pair /\ ToldTo(u, <<Home[u], d>>)
<1>1. Home[u] \in Rank /\ d \in Rank  BY BatchIs
<1> QED BY <1>1 DEF Pair, ToldTo

\* A step that leaves the tables to come and the pools alone.
LEMMA IdsKept ==
  ASSUME NEW tab, NEW T, IdsHeld(tab), idPool' = idPool, prog' = prog,
         \A p \in Pair : AtEnd(T, p)' = AtEnd(tab, p), \A u \in User : PlanFrom(u)
  PROVE  IdsHeld(T)'
<1>1. IdPools' /\ \A p \in Pair : IdsOut(T, p)' /\ IdsOnce(T, p)'
  <2>1. IdPools /\ \A p \in Pair : IdsOut(tab, p) /\ IdsOnce(tab, p)  BY DEF IdsHeld
  <2> QED BY <2>1 DEF IdPools, IdsOut, IdsOnce
<1>2. ASSUME NEW u \in User PROVE PlanHeld(T, u)'
  <2>1. PlanHeld(tab, u) /\ PlanFrom(u)  BY DEF IdsHeld
  <2> SUFFICES ASSUME NEW k \in DOMAIN prog[u], OpenPlan(Place(u), k)', NEW d \in Target(u)
               PROVE  LET A == AtEnd(T, <<Home[u], d>>)' IN
                      /\ Out(idPool[<<Home[u], d>>], ids'[u][d])
                      /\ step'[u] # "told" => [id |-> ids'[u][d], ops |-> PlanOps(u, k, d)'] \in A
                      /\ step'[u] = "told" => InSlot(A, ids'[u][d]) = {}
    BY DEF PlanHeld, InSlot
  <2>2. /\ OpenPlan(Place(u), k) /\ tags'[u] = tags[u] /\ ids'[u] = ids[u]
        /\ (step'[u] = "told" <=> step[u] = "told")
    BY <2>1 DEF PlanFrom
  <2>3. PlanOps(u, k, d)' = PlanOps(u, k, d)  BY <2>2, PlanOpsSame
  <2>4. AtEnd(T, <<Home[u], d>>)' = AtEnd(tab, <<Home[u], d>>)  BY TargetPair
  <2> QED BY <2>1, <2>2, <2>3, <2>4 DEF PlanHeld
<1>3. ASSUME NEW u \in User, NEW v \in User PROVE PlansApart(u, v)'
  <2>1. PlansApart(u, v) /\ PlanFrom(u) /\ PlanFrom(v)  BY DEF IdsHeld
  <2> SUFFICES ASSUME NEW k \in DOMAIN prog[u], NEW l \in DOMAIN prog[v], NEW d \in Target(u) \cap Target(v),
                      OpenPlan(Place(u), k)', OpenPlan(Place(v), l)', Home[u] = Home[v],
                      ids'[u][d] = ids'[v][d]
               PROVE  u = v
    BY DEF PlansApart
  <2>2. OpenPlan(Place(u), k) /\ ids'[u] = ids[u] /\ OpenPlan(Place(v), l) /\ ids'[v] = ids[v]
    BY <2>1 DEF PlanFrom
  <2> QED BY <2>1, <2>2 DEF PlansApart
<1> QED BY <1>1, <1>2, <1>3 DEF IdsHeld

\* The plans of the other threads.
LEMMA PlanFromOthers ==
  ASSUME Called, NEW u \in User, UserNext(u), NEW v \in User, v # u
  PROVE  PlanFrom(v)
<1>1. ids'[v] = ids[v] /\ step'[v] = step[v] /\ tags'[v] = tags[v]  BY CalledOthers
<1>2. \A k : OpenPlan(Place(v), k)' <=> OpenPlan(Place(v), k)  BY HoldsOthers
<1> QED BY <1>1, <1>2 DEF PlanFrom

\* A step that sends no message on a plan keeps the ids apart.
LEMMA IdsUser ==
  ASSUME Called, NEW tab, NEW T, IdsHeld(tab), NEW u \in User, UserNext(u),
         ~ Create(u), ~ DestroyCtrl(u), ~ DestroyIds(u), \A p \in Pair : AtEnd(T, p)' = AtEnd(tab, p)
  PROVE  IdsHeld(T)'
<1>1. idPool' = idPool /\ prog' = prog /\ ids' = ids
  BY DEF UserNext, Put, PutCtrl, Start, Destroy, ListRequests, Wait, Sync
<1>2. PlanFrom(u)
  <2>1. CASE Put(u) \/ PutCtrl(u)  BY <2>1, PlanPut DEF PlanFrom
  <2>2. CASE Start(u)
    <3>1. step[u] = "begin" /\ step'[u] = "append"  BY <2>2, CalledWhere DEF Start, Called
    <3> QED BY <1>1, <2>2, <3>1, PlanStart DEF PlanFrom, OpenSame
  <2>3. CASE Destroy(u)
    <3>1. step[u] = "begin" /\ step'[u] = "untagged" /\ tags' = tags
      BY <2>3, CalledWhere DEF Destroy, Called
    <3> QED BY <1>1, <2>3, <3>1, PlanDestroy DEF PlanFrom, OpenSame
  <2>4. CASE ListRequests(u) \/ Wait(u) \/ Sync(u)
    <3>1. step[u] \in {"begin", "append"} /\ step'[u] = "begin" /\ tags' = tags  BY <2>4, CalledOver
    <3> QED BY <1>1, <2>4, <3>1, PlanOver DEF PlanFrom, OpenSame
  <2> QED BY <2>1, <2>2, <2>3, <2>4 DEF UserNext
<1>3. \A v \in User : PlanFrom(v)  BY <1>2, PlanFromOthers
<1> QED BY <1>1, <1>3, IdsKept

\* A step of the daemon keeps the tables to come, and with them the ids.
LEMMA IdsDaemon ==
  ASSUME Called, NEW tab, NEW T, IdsHeld(tab), UNCHANGED uvars, idPool' = idPool,
         \A p \in Pair : AtEnd(T, p)' = AtEnd(tab, p)
  PROVE  IdsHeld(T)'
<1>1. prog' = prog /\ step' = step /\ tags' = tags /\ ids' = ids /\ \A u \in User : Place(u)' = Place(u)
  BY CalledSame
<1>2. \A u \in User : PlanFrom(u)
  <2> TAKE u \in User
  <2>1. \A k : OpenPlan(Place(u), k)' <=> OpenPlan(Place(u), k)  BY <1>1
  <2> QED BY <1>1, <2>1 DEF PlanFrom
<1> QED BY <1>1, <1>2, IdsKept

\* The targets of a plan are told that it is destroyed.
LEMMA IdsTold ==
  ASSUME Called, NEW tab, NEW T, IdsHeld(tab), NEW u \in User, DestroyCtrl(u),
         \A p \in Pair : AtEnd(T, p)' =
           IF ToldTo(u, p) THEN AtEnd(tab, p) \ InSlot(AtEnd(tab, p), ids[u][p[2]]) ELSE AtEnd(tab, p)
  PROVE  IdsHeld(T)'
<1>1. /\ idPool' = idPool /\ prog' = prog /\ ids' = ids /\ tags' = tags /\ step[u] = "untagged"
      /\ step'[u] = "told" /\ UserNext(u)
  BY DEF DestroyCtrl, UserNext, Called
<1>2. /\ \A p \in Pair : AtEnd(T, p)' \subseteq AtEnd(tab, p)
      /\ \A p \in Pair : ~ ToldTo(u, p) => AtEnd(T, p)' = AtEnd(tab, p)
      /\ \A p \in Pair : ToldTo(u, p) => \A b \in AtEnd(tab, p) :
           b \in AtEnd(T, p)' <=> b.id # ids[u][p[2]]
  BY DEF InSlot
<1>3. IdPools' /\ \A p \in Pair : IdsOut(T, p)' /\ IdsOnce(T, p)'
  <2>1. IdPools /\ \A p \in Pair : IdsOut(tab, p) /\ IdsOnce(tab, p)  BY DEF IdsHeld
  <2> QED BY <1>1, <1>2, <2>1 DEF IdPools, IdsOut, IdsOnce
<1>4. \A v \in User : \A k : OpenPlan(Place(v), k)' <=> OpenPlan(Place(v), k)
  <2> TAKE v \in User
  <2>1. v = u => OpenSame(u)  BY PlanDestroy
  <2>2. v # u => \A k : OpenPlan(Place(v), k)' <=> OpenPlan(Place(v), k)  BY <1>1, HoldsOthers
  <2> QED BY <2>1, <2>2 DEF OpenSame
<1>5. \A v, w \in User : PlansApart(v, w)'
  <2> TAKE v, w \in User
  <2>1. PlansApart(v, w)  BY DEF IdsHeld
  <2> QED BY <1>1, <1>4, <2>1 DEF PlansApart
<1>6. PICK l \in DOMAIN prog[u] : OpenPlan(Place(u), l)  BY <1>1, DestroyedPlan
<1>7. ASSUME NEW v \in User PROVE PlanHeld(T, v)'
  <2>1. PlanHeld(tab, v) /\ PlansApart(u, v)  BY DEF IdsHeld
  <2> SUFFICES ASSUME NEW k \in DOMAIN prog[v], OpenPlan(Place(v), k), NEW d \in Target(v)
               PROVE  LET A == AtEnd(T, <<Home[v], d>>)' IN
                      /\ Out(idPool[<<Home[v], d>>], ids[v][d])
                      /\ step'[v] # "told" => [id |-> ids[v][d], ops |-> PlanOps(v, k, d)] \in A
                      /\ step'[v] = "told" => InSlot(A, ids[v][d]) = {}
    BY <1>1, <1>4, PlanOpsSame DEF PlanHeld, InSlot
  <2>2. PICK p : p = <<Home[v], d>>  OBVIOUS
  <2>3. p \in Pair /\ p[1] = Home[v] /\ p[2] = d  BY <2>2, TargetPair
  <2>4. /\ Out(idPool[p], ids[v][d])
        /\ step[v] # "told" => [id |-> ids[v][d], ops |-> PlanOps(v, k, d)] \in AtEnd(tab, p)
        /\ step[v] = "told" => InSlot(AtEnd(tab, p), ids[v][d]) = {}
    BY <2>1, <2>2 DEF PlanHeld
  <2>5. CASE v = u
    <3>1. ToldTo(u, p)  BY <2>2, <2>5, TargetPair
    <3>2. InSlot(AtEnd(T, p)', ids[v][d]) = {}  BY <1>2, <2>3, <2>5, <3>1 DEF InSlot
    <3> QED BY <1>1, <2>2, <2>4, <2>5, <3>2
  <2>6. CASE v # u
    <3>1. step'[v] = step[v]  BY <1>1, <2>6, CalledOthers
    <3>2. step[v] = "told" => InSlot(AtEnd(T, p)', ids[v][d]) = {}  BY <1>2, <2>3, <2>4 DEF InSlot
    <3>3. ToldTo(u, p) => ids[v][d] # ids[u][d]  BY <1>6, <2>1, <2>3, <2>6 DEF ToldTo, PlansApart
    <3>4. ASSUME step[v] # "told" PROVE [id |-> ids[v][d], ops |-> PlanOps(v, k, d)] \in AtEnd(T, p)'
      <4>1. PICK b : b = [id |-> ids[v][d], ops |-> PlanOps(v, k, d)]  OBVIOUS
      <4>2. b \in AtEnd(tab, p) /\ b.id = ids[v][d]  BY <2>4, <3>4, <4>1
      <4>3. b \in AtEnd(T, p)'  BY <1>2, <2>3, <3>3, <4>2
      <4> QED BY <4>1, <4>3
    <3> QED BY <2>2, <2>4, <3>1, <3>2, <3>4
  <2> QED BY <2>5, <2>6
<1> QED BY <1>3, <1>5, <1>7 DEF IdsHeld

\* The batch ids go back.
LEMMA IdsBack ==
  ASSUME Called, NEW tab, NEW T, IdsHeld(tab), NEW u \in User, DestroyIds(u),
         \A p \in Pair : AtEnd(T, p)' = AtEnd(tab, p)
  PROVE  IdsHeld(T)'
<1>1. /\ idPool' = IdsReturned(u) /\ prog' = prog /\ ids' = ids /\ tags' = tags /\ step[u] = "told"
      /\ UserNext(u)
  BY DEF DestroyIds, UserNext, Called
<1>2. PICK l \in DOMAIN prog[u] : OpenPlan(Place(u), l)  BY <1>1, DestroyedPlan
<1>3. IdPools /\ PlanHeld(tab, u) /\ \A p \in Pair : IdsOut(tab, p) /\ IdsOnce(tab, p)
  BY DEF IdsHeld
<1>4. \A p \in Pair : ToldTo(u, p) =>
        Out(idPool[p], ids[u][p[2]]) /\ InSlot(AtEnd(tab, p), ids[u][p[2]]) = {}
  <2> SUFFICES ASSUME NEW p \in Pair, ToldTo(u, p)
               PROVE  Out(idPool[p], ids[u][p[2]]) /\ InSlot(AtEnd(tab, p), ids[u][p[2]]) = {}
    OBVIOUS
  <2>1. p = <<Home[u], p[2]>> /\ p[2] \in Target(u)  BY DEF Pair, ToldTo
  <2> QED BY <1>1, <1>2, <1>3, <2>1 DEF PlanHeld
<1>5. /\ DOMAIN idPool' = Pair
      /\ \A p \in Pair : ToldTo(u, p) => idPool'[p] = Returned(idPool[p], <<ids[u][p[2]]>>)
      /\ \A p \in Pair : ~ ToldTo(u, p) => idPool'[p] = idPool[p]
  BY <1>1 DEF IdsReturned, ToldTo
<1>6. \A p \in Pair : ToldTo(u, p) => PoolOK(idPool'[p]) /\ \A x :
        Out(idPool[p], x) /\ x # ids[u][p[2]] => Out(idPool'[p], x)
  <2> SUFFICES ASSUME NEW p \in Pair, ToldTo(u, p)
               PROVE  PoolOK(idPool'[p]) /\ \A x :
                        Out(idPool[p], x) /\ x # ids[u][p[2]] => Out(idPool'[p], x)
    OBVIOUS
  <2>1. PICK S : S = <<ids[u][p[2]]>>  OBVIOUS
  <2>2. PoolOK(idPool[p]) /\ Out(idPool[p], ids[u][p[2]])  BY <1>3, <1>4 DEF IdPools
  <2>3. ids[u][p[2]] \in Nat  BY <2>2 DEF PoolOK, Out
  <2>4. S \in Seq(Nat) /\ DOMAIN S = {1} /\ S[1] = ids[u][p[2]]  BY <2>1, <2>3
  <2>5. \A i \in DOMAIN S : Out(idPool[p], S[i])  BY <2>2, <2>4
  <2>6. \A i, k \in DOMAIN S : S[i] = S[k] => i = k  BY <2>4
  <2>7. /\ PoolOK(Returned(idPool[p], S))
        /\ \A y : Out(Returned(idPool[p], S), y) <=> Out(idPool[p], y) /\ \A i \in DOMAIN S : S[i] # y
    BY <2>2, <2>4, <2>5, <2>6, ReturnedIs
  <2>8. idPool'[p] = Returned(idPool[p], S)  BY <1>5, <2>1
  <2> QED BY <2>4, <2>7, <2>8
<1>7. IdPools'  BY <1>3, <1>5, <1>6 DEF IdPools
<1>8. \A p \in Pair : \A x : Out(idPool[p], x) /\ (ToldTo(u, p) => x # ids[u][p[2]]) => Out(idPool'[p], x)
  BY <1>5, <1>6
<1>9. ASSUME NEW p \in Pair PROVE IdsOut(T, p)' /\ IdsOnce(T, p)'
  <2>1. IdsOnce(T, p)'  BY <1>3 DEF IdsOnce
  <2>2. ASSUME NEW b \in AtEnd(tab, p) PROVE Out(idPool'[p], b.id)
    <3>1. Out(idPool[p], b.id)  BY <1>3 DEF IdsOut
    <3>2. ToldTo(u, p) => b.id # ids[u][p[2]]  BY <1>4 DEF InSlot
    <3> QED BY <1>8, <3>1, <3>2
  <2> QED BY <2>1, <2>2 DEF IdsOut
<1>10. \A k : ~ OpenPlan(Place(u), k)'  BY PlanDestroyed
<1>11. \A v \in User : v # u => \A k : OpenPlan(Place(v), k)' <=> OpenPlan(Place(v), k)
  BY <1>1, HoldsOthers
<1>12. \A v, w \in User : PlansApart(v, w)'
  <2> TAKE v, w \in User
  <2>1. PlansApart(v, w)  BY DEF IdsHeld
  <2> QED BY <1>1, <1>10, <1>11, <2>1 DEF PlansApart
<1>13. ASSUME NEW v \in User PROVE PlanHeld(T, v)'
  <2>1. PlanHeld(tab, v) /\ PlansApart(u, v)  BY DEF IdsHeld
  <2> SUFFICES ASSUME v # u, NEW k \in DOMAIN prog[v], OpenPlan(Place(v), k), NEW d \in Target(v)
               PROVE  LET A == AtEnd(T, <<Home[v], d>>)' IN
                      /\ Out(idPool'[<<Home[v], d>>], ids[v][d])
                      /\ step'[v] # "told" => [id |-> ids[v][d], ops |-> PlanOps(v, k, d)] \in A
                      /\ step'[v] = "told" => InSlot(A, ids[v][d]) = {}
    BY <1>1, <1>10, <1>11, PlanOpsSame DEF PlanHeld, InSlot
  <2>2. PICK p : p = <<Home[v], d>>  OBVIOUS
  <2>3. p \in Pair /\ p[1] = Home[v] /\ p[2] = d  BY <2>2, TargetPair
  <2>4. /\ Out(idPool[p], ids[v][d])
        /\ step[v] # "told" => [id |-> ids[v][d], ops |-> PlanOps(v, k, d)] \in AtEnd(tab, p)
        /\ step[v] = "told" => InSlot(AtEnd(tab, p), ids[v][d]) = {}
    BY <2>1, <2>2 DEF PlanHeld
  <2>5. step'[v] = step[v]  BY <1>1, CalledOthers
  <2>6. ToldTo(u, p) => ids[v][d] # ids[u][d]  BY <1>2, <2>1, <2>3 DEF ToldTo, PlansApart
  <2>7. Out(idPool'[p], ids[v][d])  BY <1>8, <2>3, <2>4, <2>6
  <2> QED BY <2>2, <2>3, <2>4, <2>5, <2>7
<1> QED BY <1>7, <1>9, <1>12, <1>13 DEF IdsHeld

\* A new plan is told to its targets.
LEMMA IdsNew ==
  ASSUME Called, NEW tab, NEW T, IdsHeld(tab), NEW u \in User, Create(u),
         \A p \in Pair : AtEnd(T, p)' = IF ToldTo(u, p)
           THEN AtEnd(tab, p) \cup {[id |-> NewId(u, p[2]), ops |-> Ops(u, p[2], 0, TagsTaken(u))]}
           ELSE AtEnd(tab, p)
  PROVE  IdsHeld(T)'
<1> DEFINE new(p) == [id |-> NewId(u, p[2]), ops |-> Ops(u, p[2], 0, TagsTaken(u))]
<1>1. /\ Calls(u, "create") /\ tags' = [tags EXCEPT ![u] = TagsTaken(u)]
      /\ ids' = [ids EXCEPT ![u] = [d \in Target(u) |-> NewId(u, d)]]
      /\ idPool' = [p \in Pair |-> IF p[1] = Home[u] /\ p[2] \in Target(u)
                               THEN AfterTaking(idPool[p], 1) ELSE idPool[p]]
      /\ step' = [step EXCEPT ![u] = "append"] /\ prog' = prog /\ UserNext(u)
  BY CreateIs DEF UserNext
<1>2. /\ step[u] = "begin" /\ step'[u] = "append" /\ tags'[u] = TagsTaken(u)
      /\ \A d \in Target(u) : ids'[u][d] = NewId(u, d)
  BY <1>1, CalledWhere DEF Called
<1>3. IdPools /\ \A p \in Pair : IdsOut(tab, p) /\ IdsOnce(tab, p)  BY DEF IdsHeld
<1>4. /\ DOMAIN idPool' = Pair
      /\ \A p \in Pair : ToldTo(u, p) => idPool'[p] = AfterTaking(idPool[p], 1)
      /\ \A p \in Pair : ~ ToldTo(u, p) => idPool'[p] = idPool[p]
  BY <1>1 DEF ToldTo
<1>5. \A p \in Pair : ToldTo(u, p) =>
       /\ ~ Out(idPool[p], NewId(u, p[2])) /\ Out(idPool'[p], NewId(u, p[2])) /\ PoolOK(idPool'[p])
       /\ \A x : Out(idPool[p], x) => Out(idPool'[p], x)
       /\ InSlot(AtEnd(tab, p), NewId(u, p[2])) = {}
  BY <1>4, NewIdIs
<1>6. \A p \in Pair : \A x : Out(idPool[p], x) => Out(idPool'[p], x)  BY <1>4, <1>5
<1>7. /\ \A p \in Pair : AtEnd(tab, p) \subseteq AtEnd(T, p)'
      /\ \A p \in Pair : ToldTo(u, p) => new(p) \in AtEnd(T, p)'
      /\ \A p \in Pair : \A b \in AtEnd(T, p)' : b \in AtEnd(tab, p) \/ (ToldTo(u, p) /\ b = new(p))
      /\ \A p : new(p).id = NewId(u, p[2])
  OBVIOUS
<1> HIDE DEF new
<1>8. IdPools'  BY <1>3, <1>4, <1>5 DEF IdPools
<1>9. ASSUME NEW p \in Pair PROVE IdsOut(T, p)' /\ IdsOnce(T, p)'
  <2>1. IdsOut(T, p)'  BY <1>3, <1>5, <1>6, <1>7 DEF IdsOut
  <2>2. ASSUME NEW b \in AtEnd(T, p)', NEW c \in AtEnd(T, p)', b.id = c.id PROVE b = c
    BY <1>3, <1>5, <1>7, <2>2 DEF IdsOnce, InSlot
  <2> QED BY <2>1, <2>2 DEF IdsOnce
<1>10. \A k : (OpenPlan(Place(u), k)' <=> k = at[u])  BY PlanCreate
<1>11. \A v \in User : v # u =>
         /\ ids'[v] = ids[v] /\ step'[v] = step[v] /\ tags'[v] = tags[v]
         /\ \A k : OpenPlan(Place(v), k)' <=> OpenPlan(Place(v), k)
  BY <1>1, HoldsOthers, CalledOthers
<1>12. ASSUME NEW v \in User, v # u, NEW k \in DOMAIN prog[v], OpenPlan(Place(v), k)', NEW d \in Target(v)
       PROVE  /\ Out(idPool[<<Home[v], d>>], ids[v][d])
              /\ ToldTo(u, <<Home[v], d>>) => ids[v][d] # ids'[u][d]
  <2>1. PlanHeld(tab, v)  BY DEF IdsHeld
  <2>2. Out(idPool[<<Home[v], d>>], ids[v][d])  BY <1>11, <1>12, <2>1 DEF PlanHeld
  <2>3. PICK p \in Pair : p = <<Home[v], d>>  BY TargetPair
  <2>4. ToldTo(u, p) => ids[v][d] # NewId(u, d) /\ d \in Target(u)  BY <1>5, <2>2, <2>3 DEF ToldTo
  <2> QED BY <1>2, <2>2, <2>3, <2>4
<1>13. ASSUME NEW v \in User, NEW w \in User PROVE PlansApart(v, w)'
  <2>1. PlansApart(v, w)  BY DEF IdsHeld
  <2> SUFFICES ASSUME v # w, NEW k \in DOMAIN prog[v], NEW l \in DOMAIN prog[w], NEW d \in Target(v) \cap Target(w),
                      OpenPlan(Place(v), k)', OpenPlan(Place(w), l)', Home[v] = Home[w],
                      ids'[v][d] = ids'[w][d]
               PROVE  FALSE
    BY <1>1 DEF PlansApart
  <2>2. CASE v = u  BY <1>11, <1>12, <2>2 DEF ToldTo
  <2>3. CASE w = u  BY <1>11, <1>12, <2>3, ZenonT(40) DEF ToldTo
  <2>4. CASE v # u /\ w # u  BY <1>11, <2>1, <2>4 DEF PlansApart
  <2> QED BY <2>2, <2>3, <2>4
<1>14. ASSUME NEW v \in User PROVE PlanHeld(T, v)'
  <2> SUFFICES ASSUME NEW k \in DOMAIN prog[v], OpenPlan(Place(v), k)', NEW d \in Target(v)
               PROVE  LET A == AtEnd(T, <<Home[v], d>>)' IN
                      /\ Out(idPool'[<<Home[v], d>>], ids'[v][d])
                      /\ step'[v] # "told" => [id |-> ids'[v][d], ops |-> PlanOps(v, k, d)'] \in A
                      /\ step'[v] = "told" => InSlot(A, ids'[v][d]) = {}
    BY <1>1 DEF PlanHeld, InSlot
  <2>1. PICK p : p = <<Home[v], d>>  OBVIOUS
  <2>2. p \in Pair /\ p[1] = Home[v] /\ p[2] = d  BY <2>1, TargetPair
  <2>3. CASE v = u
    <3>1. ToldTo(u, p)  BY <2>1, <2>3, TargetPair
    <3>2. k = at[u] /\ at[u] \in DOMAIN prog[u] /\ prog[u][at[u]] = "create"
      BY <1>1, <1>10, <2>3, CalledWhere
    <3>3. Mine(u) = <<u, k>>  BY <3>2, MineStarting DEF Starting
    <3>4. PlanOps(u, k, d)' = Ops(u, d, 0, TagsTaken(u))
      BY <1>2, <3>3 DEF PlanOps, Ops, Op, PiecesTo
    <3>5. [id |-> ids'[v][d], ops |-> PlanOps(v, k, d)'] = new(p)  BY <1>2, <2>2, <2>3, <3>4 DEF new
    <3> QED BY <1>2, <1>5, <1>7, <2>1, <2>2, <2>3, <3>1, <3>5
  <2>4. CASE v # u
    <3>1. PlanHeld(tab, v) /\ OpenPlan(Place(v), k)  BY <1>11, <2>4 DEF IdsHeld
    <3>2. /\ Out(idPool[p], ids[v][d])
          /\ step[v] # "told" => [id |-> ids[v][d], ops |-> PlanOps(v, k, d)] \in AtEnd(tab, p)
          /\ step[v] = "told" => InSlot(AtEnd(tab, p), ids[v][d]) = {}
      BY <2>1, <3>1 DEF PlanHeld
    <3>3. PlanOps(v, k, d)' = PlanOps(v, k, d) /\ ids'[v] = ids[v] /\ step'[v] = step[v]
      BY <1>11, <2>4, PlanOpsSame
    <3>4. ToldTo(u, p) => ids[v][d] # NewId(u, d)  BY <1>2, <1>12, <2>1, <2>2, <2>4 DEF ToldTo
    <3>5. step[v] = "told" => InSlot(AtEnd(T, p)', ids[v][d]) = {}
      BY <1>7, <2>2, <3>2, <3>4 DEF InSlot
    <3>6. Out(idPool'[p], ids[v][d])  BY <1>6, <2>2, <3>2
    <3>7. step[v] # "told" => [id |-> ids[v][d], ops |-> PlanOps(v, k, d)] \in AtEnd(T, p)'
      BY <1>7, <2>2, <3>2
    <3> QED BY <2>1, <3>3, <3>5, <3>6, <3>7
  <2> QED BY <2>3, <2>4
<1> QED BY <1>8, <1>9, <1>13, <1>14 DEF IdsHeld

---------------------------------------------------------------------------
(* The lists.                                                              *)

\* Batches are started again and again, never less often.
LEMMA StartsGrow ==
  ASSUME Called, NEW u \in User, UserNext(u)
  PROVE  \A b \in BatchKey : starts[b] <= starts'[b]
<1>1. starts \in [BatchKey -> Nat]  BY DEF Called
<1>2. CASE Put(u)
  <2>1. starts[Mine(u)] = 0 /\ Mine(u) \in BatchKey /\ starts' = [starts EXCEPT ![Mine(u)] = 1]
    BY <1>2, CalledPut DEF Put
  <2>2. PICK c \in BatchKey : c = Mine(u)  BY <2>1
  <2> QED BY <1>1, <2>1, <2>2
<1>3. CASE Start(u)
  <2>1. Calls(u, "start") /\ starts' = [starts EXCEPT ![Mine(u)] = starts[Mine(u)] + 1]
    BY <1>3 DEF Start
  <2>2. Mine(u) \in BatchKey  BY <2>1, CalledPlan
  <2>3. PICK c \in BatchKey : c = Mine(u)  BY <2>2
  <2> QED BY <1>1, <2>1, <2>3
<1>4. CASE ~ Put(u) /\ ~ Start(u)
  <2>1. starts' = starts
    BY <1>4 DEF UserNext, PutCtrl, Create, Destroy, DestroyCtrl, DestroyIds, ListRequests, Wait,
       Sync
  <2> QED BY <1>1, <2>1
<1> QED BY <1>2, <1>3, <1>4

\* A write that has begun stays so.
LEMMA BegunGrows ==
  ASSUME Called, Called', \A b \in BatchKey : starts[b] <= starts'[b], NEW w, Begun(w)
  PROVE  Begun(w)'
<1>1. w \in Write /\ w[1] \in BatchKey /\ w[3] \in Nat /\ w[3] <= starts[w[1]]  BY WriteIs DEF Begun
<1>2. starts[w[1]] \in Nat /\ starts'[w[1]] \in Nat /\ starts[w[1]] <= starts'[w[1]]
  BY <1>1 DEF Called
<1>3. w[3] <= starts'[w[1]]  BY <1>1, <1>2
<1> QED BY <1>1, <1>3 DEF Begun

\* What a request is for stays so.
LEMMA ForRankGrows ==
  ASSUME Called, Called', \A b \in BatchKey : starts[b] <= starts'[b], NEW r, NEW e, ForRank(r, e)
  PROVE  ForRank(r, e)'
  BY BegunGrows DEF ForRank, OnPair

\* The lists stay.
LEMMA ListsSame ==
  ASSUME Called, Called', Lists, reqs' = reqs, \A b \in BatchKey : starts[b] <= starts'[b]
  PROVE  Lists'
<1>1. \A r \in Rank : \A i \in DOMAIN reqs[r] : ForRank(r, reqs[r][i])  BY DEF Lists
<1>2. ASSUME NEW r \in Rank, NEW i \in DOMAIN reqs[r] PROVE ForRank(r, reqs[r][i])'
  <2>1. PICK e : e = reqs[r][i]  OBVIOUS
  <2>2. ForRank(r, e)  BY <1>1, <2>1
  <2>3. ForRank(r, e)'  BY <2>2, ForRankGrows
  <2>4. reqs'[r][i] = e  BY <2>1
  <2> QED BY <2>3, <2>4 DEF ForRank
<1> QED BY <1>2 DEF Lists

\* The list of one rank changes.
LEMMA ListsOne ==
  ASSUME Called, Called', Lists, \A b \in BatchKey : starts[b] <= starts'[b], NEW r \in Rank,
         reqs' \in [Rank -> Seq(ReqType)], \A s \in Rank \ {r} : reqs'[s] = reqs[s],
         \A i \in DOMAIN reqs'[r] : ForRank(r, reqs[r][i])',
         \A i, k \in DOMAIN reqs'[r] : Alike(reqs'[r][i], reqs'[r][k]) => k = i
  PROVE  Lists'
<1>1. ASSUME NEW s \in Rank, s # r, NEW i \in DOMAIN reqs'[s] PROVE ForRank(s, reqs[s][i])'
  <2>1. PICK e : e = reqs[s][i]  OBVIOUS
  <2>2. ForRank(s, e)  BY <1>1, <2>1 DEF Lists
  <2>3. ForRank(s, e)'  BY <2>2, ForRankGrows
  <2>4. reqs'[s][i] = e  BY <1>1, <2>1
  <2> QED BY <2>3, <2>4 DEF ForRank
<1>2. ASSUME NEW s \in Rank, s # r PROVE \A i, k \in DOMAIN reqs'[s] : Alike(reqs'[s][i], reqs'[s][k]) => k = i
  BY <1>2 DEF Lists
<1> QED BY <1>1, <1>2 DEF Lists

\* Requests that are in no list yet, of writes begun, are appended.
LEMMA ListsAppend ==
  ASSUME Called, Called', Lists, \A b \in BatchKey : starts[b] <= starts'[b], NEW r \in Rank,
         NEW A \in Seq(ReqType), reqs' = [reqs EXCEPT ![r] = @ \o A],
         \A x \in DOMAIN A : ForRank(r, A[x]),
         \A x, y \in DOMAIN A : Alike(A[x], A[y]) => y = x,
         \A x \in DOMAIN A : \A i \in DOMAIN reqs[r] : ~ Alike(A[x], reqs[r][i])
  PROVE  Lists'
<1>1. reqs \in [Rank -> Seq(ReqType)] /\ reqs[r] \in Seq(ReqType)  BY DEF Lists
<1> DEFINE N == reqs[r] \o A
<1>2. /\ N \in Seq(ReqType)
      /\ \A k \in DOMAIN reqs[r] : N[k] = reqs[r][k]
      /\ \A x \in DOMAIN A : N[Len(reqs[r]) + x] = A[x]
      /\ \A k \in DOMAIN N : k \in DOMAIN reqs[r] \/ \E x \in DOMAIN A : k = Len(reqs[r]) + x
  BY <1>1, Joined
<1>3. reqs' = [reqs EXCEPT ![r] = N]  OBVIOUS
<1> HIDE DEF N
<1>4. reqs' \in [Rank -> Seq(ReqType)] /\ reqs'[r] = N /\ \A s \in Rank \ {r} : reqs'[s] = reqs[s]
  BY <1>1, <1>2, <1>3
<1>5. ASSUME NEW i \in DOMAIN N PROVE ForRank(r, reqs[r][i])'
  <2>1. PICK e : e = N[i]  OBVIOUS
  <2>2. ForRank(r, e)  BY <1>2, <2>1 DEF Lists
  <2>3. ForRank(r, e)'  BY <2>2, ForRankGrows
  <2>4. reqs'[r][i] = e  BY <1>4, <2>1
  <2> QED BY <2>3, <2>4 DEF ForRank
<1>6. ASSUME NEW i \in DOMAIN N, NEW k \in DOMAIN N, Alike(N[i], N[k]) PROVE k = i
  <2>1. CASE i \in DOMAIN reqs[r] /\ k \in DOMAIN reqs[r]  BY <1>2, <1>6, <2>1 DEF Lists
  <2>2. CASE i \in DOMAIN reqs[r] /\ k \notin DOMAIN reqs[r]
    <3>1. PICK x \in DOMAIN A : k = Len(reqs[r]) + x  BY <1>2, <2>2
    <3>2. Alike(N[k], N[i])  BY <1>6 DEF Alike
    <3>3. Alike(A[x], reqs[r][i])  BY <1>2, <2>2, <3>1, <3>2
    <3> QED BY <2>2, <3>3
  <2>3. CASE i \notin DOMAIN reqs[r] /\ k \in DOMAIN reqs[r]  BY <1>2, <1>6, <2>3
  <2>4. CASE i \notin DOMAIN reqs[r] /\ k \notin DOMAIN reqs[r]
    <3>1. PICK x \in DOMAIN A : i = Len(reqs[r]) + x  BY <1>2, <2>4
    <3>2. PICK y \in DOMAIN A : k = Len(reqs[r]) + y  BY <1>2, <2>4
    <3>3. Alike(A[x], A[y])  BY <1>2, <1>6, <3>1, <3>2
    <3> QED BY <3>1, <3>2, <3>3
  <2> QED BY <2>1, <2>2, <2>3, <2>4
<1>7. \A i \in DOMAIN reqs'[r] : ForRank(r, reqs[r][i])'  BY <1>4, <1>5
<1>8. \A i, k \in DOMAIN reqs'[r] : Alike(reqs'[r][i], reqs'[r][k]) => k = i  BY <1>4, <1>6
<1> QED BY <1>4, <1>7, <1>8, ListsOne

\* A message is taken: what it posts is listed.
LEMMA DrainMoves ==
  ASSUME Lists, NEW tab, NEW line, NEW cut, Course(tab, line, cut), NEW r \in Rank, NEW s \in Rank, Drain(r, s)
  PROVE  \E T, C, R : DrainStep(tab, line, cut, r, s, T, C, R)
<1>1. PICK p, m, S, R : Drained(r, s, p, m, S, R)  BY DrainIs
<1>5. /\ p = <<s, r>> /\ p \in Pair /\ ctrl[p] # <<>> /\ dpc[r] = "drain" /\ S \in Seq(OpType)
      /\ R \in [DOMAIN S -> [kind : {"recv"}, peer : {s}, w : BatchKey \X Nat \X Nat, tag : Nat, keep : BOOLEAN]]
      /\ \A x \in DOMAIN R : R[x].w = S[x].w
  BY <1>1 DEF Drained
<1>a. /\ reqs' = [reqs EXCEPT ![r] = @ \o R]
      /\ UNCHANGED <<uvars, tagPool, idPool, net, dvars, svars>>
  BY <1>1 DEF Drained
<1>2. PICK q, P, t, n : q = ctrl[p] /\ P = posted[p] /\ t = slot[p] /\ n = Len(ctrl[p])  OBVIOUS
<1>3. PICK T0, L, C0 : T0 = tab[p] /\ L = line[p] /\ C0 = cut[p]  OBVIOUS
<1>4. q # <<>> /\ n = Len(q) /\ m = Head(q) /\ S = Posts(t, m)  BY <1>1, <1>2 DEF Drained
<1>6. OnCourse(T0, L, C0, q, P, t)  BY <1>2, <1>3, <1>5 DEF Course
<1>7. /\ P \in Seq(OpType) /\ Len(S) = C0[1] - Len(P) /\ Len(P) \in Nat
      /\ L \in Seq(OpType) /\ C0[1] \in 0..Len(L)
      /\ \A x \in 1..Len(S) : S[x] = L[Len(P) + x]
      /\ C0[0] = Len(P)
      /\ OnCourse(Sooner(T0, n), L, Sooner(C0, n), Tail(q), P \o S, SlotAfter(t, m))
      /\ Sooner(C0, n)[0] = C0[1]
      /\ Sooner(T0, n)[Len(Tail(q))] = T0[n]
  BY <1>4, <1>6, CourseDrain
<1>b. PICK T, C : /\ T = [z \in Pair |-> IF z = p THEN Sooner(T0, n) ELSE tab[z]]
                  /\ C = [z \in Pair |-> IF z = p THEN Sooner(C0, n) ELSE cut[z]]
  OBVIOUS
<1>8. /\ T[p] = Sooner(T0, n) /\ C[p] = Sooner(C0, n)
      /\ \A z \in Pair : z # p => T[z] = tab[z] /\ C[z] = cut[z]
  BY <1>5, <1>b
<1>9. /\ DOMAIN ctrl = Pair /\ DOMAIN posted = Pair /\ DOMAIN slot = Pair
      /\ \A z \in Pair : OnCourse(tab[z], line[z], cut[z], ctrl[z], posted[z], slot[z])
  BY DEF Course
<1>10. /\ DOMAIN ctrl' = Pair /\ DOMAIN posted' = Pair /\ DOMAIN slot' = Pair
       /\ ctrl'[p] = Tail(q) /\ posted'[p] = P \o S /\ slot'[p] = SlotAfter(t, m)
       /\ \A z \in Pair : z # p => ctrl'[z] = ctrl[z] /\ posted'[z] = posted[z] /\ slot'[z] = slot[z]
  BY <1>1, <1>2, <1>9 DEF Drained
<1>11. \A z \in Pair : OnCourse(T[z], line[z], C[z], ctrl'[z], posted'[z], slot'[z])
  <2> TAKE z \in Pair
  <2>1. CASE z = p  BY <1>3, <1>7, <1>8, <1>10, <2>1
  <2>2. CASE z # p  BY <1>8, <1>9, <1>10, <2>2
  <2> QED BY <2>1, <2>2
<1>12. Course(T, line, C)'  BY <1>10, <1>11 DEF Course
<1>13. \A z \in Pair : AtEnd(T, z)' = AtEnd(tab, z)
  <2> TAKE z \in Pair
  <2>1. CASE z = p  BY <1>2, <1>3, <1>7, <1>8, <1>10, <2>1 DEF AtEnd
  <2>2. CASE z # p  BY <1>8, <1>10, <2>2 DEF AtEnd
  <2> QED BY <2>1, <2>2
<1>14. Listing(L, C0[0], C[p][0], R, s)
  <2>1. C[p][0] = C0[1]  BY <1>7, <1>8
  <2>2. PICK c, d : c = C0[0] /\ d = C[p][0]  OBVIOUS
  <2>3. c \in Nat /\ d \in Nat /\ d <= Len(L) /\ Len(S) = d - c /\ Len(S) \in Nat
    <3>1. Len(S) \in Nat /\ Len(L) \in Nat  BY <1>5, <1>7
    <3> QED BY <1>7, <2>1, <2>2, <3>1
  <2>4. DOMAIN S = 1..(d - c) /\ c <= d
    <3>1. DOMAIN S = 1..Len(S)  BY <1>5
    <3> QED BY <2>3, <3>1
  <2>5. R \in [1..(d - c) -> RecvAll] /\ \A x \in 1..(d - c) : R[x].peer = s
    BY <1>5, <2>4 DEF RecvAll
  <2>6. \A x \in 1..(d - c) : R[x].w = L[c + x].w
    <3> TAKE x \in 1..(d - c)
    <3>1. S[x] = L[c + x]  BY <1>7, <2>2, <2>3
    <3>2. R[x].w = S[x].w  BY <1>5, <2>4
    <3> QED BY <3>1, <3>2
  <2>7. Listing(L, c, d, R, s)  BY <2>3, <2>4, <2>5, <2>6 DEF Listing
  <2> QED BY <2>2, <2>7
<1> QED
  <2>1. \A z \in Pair : z # <<s, r>> => C[z] = cut[z]  BY <1>5, <1>8
  <2>2. Listing(line[<<s, r>>], cut[<<s, r>>][0], C[<<s, r>>][0], R, s)  BY <1>3, <1>5, <1>14
  <2>3. \A z \in Pair : AtEnd(T, z)' = AtEnd(tab, z)  BY <1>13
  <2>4. DrainStep(tab, line, cut, r, s, T, C, R)
    BY <1>5, <1>a, <1>12, <2>1, <2>2, <2>3 DEF DrainStep
  <2> QED BY <2>4

\* The writes that are to be received.
LEMMA LineIs ==
  ASSUME Called, NEW tab, NEW line, NEW cut, Course(tab, line, cut), Matched(line), NEW p \in Pair
  PROVE  /\ line[p] \in Seq(OpType) /\ DOMAIN line[p] = 1..Len(line[p]) /\ Len(line[p]) \in Nat
         /\ \A x \in DOMAIN line[p] :
              Begun(line[p][x].w) /\ OnPair(p, line[p][x].w) /\ line[p][x].w \in Write
         /\ \A x, y \in DOMAIN line[p] : line[p][x].w = line[p][y].w => x = y
<1>1. line[p] \in Seq(OpType) /\ Lined(line[p], net[p], Untold(p))  BY DEF Course, OnCourse, Matched
<1>2. \A k \in DOMAIN net[p] : Begun(net[p][k].w) /\ OnPair(p, net[p][k].w)  BY DEF Matched
<1>3. ASSUME NEW x \in DOMAIN line[p]
      PROVE  Begun(line[p][x].w) /\ OnPair(p, line[p][x].w) /\ line[p][x].w \in Write
  <2>1. PICK k \in DOMAIN net[p] : net[p][k] = line[p][x]  BY <1>1 DEF Lined, HasData
  <2>2. Begun(line[p][x].w) /\ OnPair(p, line[p][x].w)  BY <1>2, <2>1
  <2> QED BY <2>2 DEF Begun
<1>4. \A x, y \in DOMAIN line[p] : line[p][x].w = line[p][y].w => x = y  BY <1>1 DEF Lined, Once
<1>5. DOMAIN line[p] = 1..Len(line[p]) /\ Len(line[p]) \in Nat  BY <1>1
<1> QED BY <1>1, <1>3, <1>4, <1>5

\* What a thread lists are the sends of its batch's last start.
LEMMA TodoWrites ==
  ASSUME Called, TagsHeld, NEW u \in User, step[u] = "append"
  PROVE  /\ Mine(u) \in BatchKey
         /\ \E k \in DOMAIN prog[u] : Mine(u) = <<u, k>> /\ Owns(prog[u], k, at[u])
         /\ prog[u][at[u]] \in {"put", "start"} =>
              /\ Sending(Place(u))
              /\ \A j \in Piece(u) :
                   /\ Begun(<<Mine(u), j, starts[Mine(u)]>>)
                   /\ OnPair(<<Home[u], Batch[u][j]>>, <<Mine(u), j, starts[Mine(u)]>>)
<1>1. PICK k \in DOMAIN prog[u] :
        /\ Owns(prog[u], k, at[u]) /\ prog[u][k] \in Starting
        /\ Mine(u) = <<u, k>> /\ <<u, k>> \in BatchKey
  BY CalledFacts
<1>2. ASSUME prog[u][at[u]] \in {"put", "start"}
      PROVE  /\ Sending(Place(u))
             /\ \A j \in Piece(u) :
                 /\ Begun(<<Mine(u), j, starts[Mine(u)]>>)
                 /\ OnPair(<<Home[u], Batch[u][j]>>, <<Mine(u), j, starts[Mine(u)]>>)
  <2>1. Sending(Place(u))  BY <1>2 DEF Sending, Place
  <2>2. Caller(u) /\ starts[<<u, k>>] \in Nat  BY <1>1 DEF Called
  <2>3. starts[<<u, k>>] > 0 /\ starts[<<u, k>>] <= at[u]  BY <1>1, <2>1, <2>2 DEF Caller
  <2>4. at[u] \in DOMAIN prog[u] /\ DOMAIN prog[u] = 1..Len(prog[u]) /\ Len(prog[u]) \in Nat /\ at[u] \in Nat
    BY CalledFacts
  <2>5. starts[<<u, k>>] \in 1..Len(prog[u])  BY <2>2, <2>3, <2>4
  <2>6. ASSUME NEW j \in Piece(u)
        PROVE  Begun(<<<<u, k>>, j, starts[<<u, k>>]>>)
               /\ OnPair(<<Home[u], Batch[u][j]>>, <<<<u, k>>, j, starts[<<u, k>>]>>)
    <3>1. /\ <<<<u, k>>, j, starts[<<u, k>>]>> \in Write
          /\ OnPair(<<Home[u], Batch[u][j]>>, <<<<u, k>>, j, starts[<<u, k>>]>>)
      BY <1>1, <2>5, NewWrite
    <3> QED BY <2>2, <3>1 DEF Begun
  <2> QED BY <1>1, <2>1, <2>6
<1> QED BY <1>1, <1>2

\* The list after its user's requests were appended.
LEMMA ListsListed ==
  ASSUME Called, Called', TagsHeld, Lists, NEW line, NEW cut, Events(line, cut),
         NEW u \in User, ListRequests(u)
  PROVE  Lists'
<1>1. /\ step[u] = "append" /\ reqs' = [reqs EXCEPT ![Home[u]] = @ \o todo[u]] /\ starts' = starts
  BY DEF ListRequests
<1>2. Home[u] \in Rank  BY BatchIs
<1>3. /\ todo[u] \in Seq(ReqType)
      /\ \A x \in DOMAIN todo[u] :
           \/ todo[u][x].kind = "ctrl"
           \/ /\ prog[u][at[u]] \in {"put", "start"}
              /\ \E j \in Piece(u) : SendAt(u, x, j)
      /\ \A x, y \in DOMAIN todo[u] : \A j \in Piece(u) :
           SendAt(u, x, j) /\ SendAt(u, y, j) => x = y
  BY <1>1, TodoIs
<1>4. PICK k \in DOMAIN prog[u] : Mine(u) = <<u, k>> /\ Owns(prog[u], k, at[u])  BY <1>1, TodoWrites
<1>5. /\ Mine(u) \in BatchKey
      /\ prog[u][at[u]] \in {"put", "start"} =>
            /\ Sending(Place(u))
            /\ \A j \in Piece(u) :
                 /\ Begun(<<Mine(u), j, starts[Mine(u)]>>)
                 /\ OnPair(<<Home[u], Batch[u][j]>>, <<Mine(u), j, starts[Mine(u)]>>)
  BY <1>1, TodoWrites
<1>6. ASSUME NEW x \in DOMAIN todo[u], todo[u][x].kind # "ctrl"
      PROVE  \E j \in Piece(u) :
               /\ SendAt(u, x, j) /\ todo[u][x].kind = "send" /\ todo[u][x].peer = Batch[u][j]
               /\ todo[u][x].w = <<Mine(u), j, starts[Mine(u)]>>
               /\ prog[u][at[u]] \in {"put", "start"}
  <2>1. PICK j \in Piece(u) : SendAt(u, x, j)  BY <1>3, <1>6
  <2> QED BY <1>3, <1>6, <2>1 DEF SendAt
<1>7. \A x \in DOMAIN todo[u] : ForRank(Home[u], todo[u][x])
  <2> TAKE x \in DOMAIN todo[u]
  <2>1. CASE todo[u][x].kind = "ctrl"  BY <2>1 DEF ForRank
  <2>2. CASE todo[u][x].kind # "ctrl"
    <3>1. PICK j \in Piece(u) :
               /\ SendAt(u, x, j) /\ todo[u][x].kind = "send" /\ todo[u][x].peer = Batch[u][j]
               /\ todo[u][x].w = <<Mine(u), j, starts[Mine(u)]>>
               /\ prog[u][at[u]] \in {"put", "start"}
      BY <1>6, <2>2
    <3> QED BY <1>5, <3>1 DEF ForRank
  <2> QED BY <2>1, <2>2
<1>8. \A x, y \in DOMAIN todo[u] : Alike(todo[u][x], todo[u][y]) => y = x
  <2> SUFFICES ASSUME NEW x \in DOMAIN todo[u], NEW y \in DOMAIN todo[u], Alike(todo[u][x], todo[u][y])
               PROVE  y = x
    OBVIOUS
  <2>1. todo[u][y].kind # "ctrl" /\ todo[u][x].kind # "ctrl" /\ todo[u][y].w = todo[u][x].w
    BY DEF Alike
  <2>2. PICK i \in Piece(u) : SendAt(u, x, i) /\ todo[u][x].w = <<Mine(u), i, starts[Mine(u)]>>
    BY <1>6, <2>1
  <2>3. PICK j \in Piece(u) : SendAt(u, y, j) /\ todo[u][y].w = <<Mine(u), j, starts[Mine(u)]>>
    BY <1>6, <2>1
  <2>4. i = j  BY <2>1, <2>2, <2>3
  <2> QED BY <1>3, <2>2, <2>3, <2>4
<1>9. \A x \in DOMAIN todo[u] : \A i \in DOMAIN reqs[Home[u]] : ~ Alike(todo[u][x], reqs[Home[u]][i])
  <2> SUFFICES ASSUME NEW x \in DOMAIN todo[u], NEW i \in DOMAIN reqs[Home[u]],
                      Alike(todo[u][x], reqs[Home[u]][i])
               PROVE  FALSE
    OBVIOUS
  <2>1. /\ todo[u][x].kind # "ctrl" /\ reqs[Home[u]][i].kind = todo[u][x].kind
        /\ reqs[Home[u]][i].w = todo[u][x].w
    BY DEF Alike
  <2>2. PICK j \in Piece(u) :
               /\ todo[u][x].kind = "send"
               /\ todo[u][x].w = <<Mine(u), j, starts[Mine(u)]>>
               /\ prog[u][at[u]] \in {"put", "start"}
    BY <1>6, <2>1
  <2>3. ~ ListedAs(Home[u], "send", <<<<u, k>>, j, starts[<<u, k>>]>>)
    BY <1>4, <1>5, <2>2 DEF Events, NotSent
  <2> QED BY <1>4, <2>1, <2>2, <2>3 DEF ListedAs
<1>10. \A b \in BatchKey : starts[b] <= starts'[b]  BY <1>1 DEF Called
<1> QED BY <1>1, <1>2, <1>3, <1>7, <1>8, <1>9, <1>10, ListsAppend

\* The receives a message posts are of writes that were not listed.
LEMMA ListingIs ==
  ASSUME Called, NEW tab, NEW line, NEW cut, Course(tab, line, cut), Matched(line), Events(line, cut),
         NEW r \in Rank, NEW s \in Rank, NEW p, p = <<s, r>>, NEW d, NEW R,
         Listing(line[p], cut[p][0], d, R, s)
  PROVE  p \in Pair /\ NewReceives(line[p], cut[p][0], d, R, r, s)
<1>1. p \in Pair  BY DEF Pair
<1>2. /\ line[p] \in Seq(OpType) /\ DOMAIN line[p] = 1..Len(line[p]) /\ Len(line[p]) \in Nat
      /\ \A x \in DOMAIN line[p] : line[p][x].w \in Write
  BY <1>1, LineIs
<1>3. PICK L, c : L = line[p] /\ c = cut[p][0]  OBVIOUS
<1>4. /\ R \in [1..(d - c) -> RecvAll] /\ c \in Nat /\ d \in Nat /\ c <= d /\ d <= Len(L)
      /\ \A x \in 1..(d - c) : R[x].peer = s /\ R[x].w = L[c + x].w
  BY <1>3 DEF Listing
<1>5. ASSUME NEW x \in 1..(d - c)
      PROVE  R[x] \in ReqType /\ NewReceive(L, c, d, R, r, s, x)
  <2>1. c + x \in DOMAIN L /\ c + x > c /\ c + x <= d  BY <1>2, <1>3, <1>4
  <2>2. R[x] \in RecvAll /\ R[x].w \in Write  BY <1>2, <1>3, <1>4, <2>1
  <2>3. R[x] \in ReqType /\ R[x].kind = "recv"  BY <2>2 DEF RecvAll, ReqType
  <2>4. landed[L[c + x].w] = 0 /\ ~ ListedAs(r, "recv", L[c + x].w)
    BY <1>1, <1>3, <2>1 DEF Events, AllExpected, Expects
  <2> QED BY <1>4, <2>1, <2>3, <2>4 DEF NewReceive
<1>6. R \in Seq(ReqType) /\ DOMAIN R = 1..(d - c)
  <2>1. d - c \in Nat  BY <1>4
  <2>2. R \in [1..(d - c) -> ReqType]  BY <1>4, <1>5
  <2> QED BY <2>1, <2>2
<1>7. ASSUME NEW x \in DOMAIN L, x > c, x <= d PROVE x - c \in DOMAIN R
  <2>1. x \in Nat  BY <1>2, <1>3
  <2> QED BY <1>4, <1>6, <1>7, <2>1
<1>8. NewReceives(L, c, d, R, r, s)  BY <1>4, <1>5, <1>6, <1>7 DEF NewReceives
<1> QED BY <1>1, <1>3, <1>8

\* The receives of a message were in no list.
LEMMA ListsDrain ==
  ASSUME Called, Called', Lists, NEW tab, NEW line, NEW cut, Course(tab, line, cut), Matched(line),
         Events(line, cut), NEW r \in Rank, NEW s \in Rank, Drain(r, s)
  PROVE  Lists'
<1>1. PICK T, C, R : DrainStep(tab, line, cut, r, s, T, C, R)  BY DrainMoves
<1>2. PICK p : p = <<s, r>>  OBVIOUS
<1>3. /\ Listing(line[p], cut[p][0], C[p][0], R, s) /\ reqs' = [reqs EXCEPT ![r] = @ \o R]
      /\ starts' = starts
  BY <1>1, <1>2 DEF DrainStep, uvars
<1>a. p \in Pair /\ NewReceives(line[p], cut[p][0], C[p][0], R, r, s)  BY <1>2, <1>3, ListingIs
<1>4. /\ R \in Seq(ReqType) /\ p \in Pair /\ cut[p][0] \in Nat
      /\ \A x \in DOMAIN R :
           /\ R[x].kind = "recv" /\ cut[p][0] + x \in DOMAIN line[p] /\ x \in Nat
           /\ R[x].w = line[p][cut[p][0] + x].w /\ R[x].peer = s
           /\ ~ ListedAs(r, "recv", R[x].w)
  BY <1>a DEF NewReceives, NewReceive
<1>5. /\ \A x \in DOMAIN line[p] : Begun(line[p][x].w) /\ OnPair(p, line[p][x].w)
      /\ \A x, y \in DOMAIN line[p] : line[p][x].w = line[p][y].w => x = y
  BY <1>4, LineIs
<1>6. \A x \in DOMAIN R : ForRank(r, R[x])  BY <1>2, <1>4, <1>5 DEF ForRank
<1>7. \A x, y \in DOMAIN R : Alike(R[x], R[y]) => y = x
  <2> SUFFICES ASSUME NEW x \in DOMAIN R, NEW y \in DOMAIN R, R[y].w = R[x].w
               PROVE  y = x
    BY DEF Alike
  <2>1. cut[p][0] + x = cut[p][0] + y  BY <1>4, <1>5
  <2> QED BY <1>4, <2>1
<1>8. \A x \in DOMAIN R : \A i \in DOMAIN reqs[r] : ~ Alike(R[x], reqs[r][i])
  BY <1>4 DEF Alike, ListedAs
<1>9. \A b \in BatchKey : starts[b] <= starts'[b]  BY <1>3 DEF Called
<1> QED BY <1>3, <1>4, <1>6, <1>7, <1>8, <1>9, ListsAppend

\* The removal by index moves requests and doubles none.
LEMMA ListsUnlist ==
  ASSUME Called, Called', Lists, Works, NEW r \in Rank, Unlist(r)
  PROVE  Lists'
<1>1. /\ reqs' \in [Rank -> Seq(ReqType)] /\ \A s \in Rank \ {r} : reqs'[s] = reqs[s]
      /\ UNCHANGED uvars
  BY UnlistIs
<1>2. PICK f : Picked(reqs'[r], reqs[r], Worked(r), f)  BY UnlistIs
<1>3. /\ \A n \in DOMAIN reqs'[r] : f[n] \in DOMAIN reqs[r] /\ reqs'[r][n] = reqs[r][f[n]]
      /\ \A j, k \in DOMAIN reqs'[r] : f[j] = f[k] => j = k
  BY <1>2 DEF Picked
<1>4. \A b \in BatchKey : starts[b] <= starts'[b]  BY <1>1 DEF Called, uvars
<1>5. ASSUME NEW i \in DOMAIN reqs'[r]
      PROVE  ForRank(r, reqs[r][i])'
  <2>1. ForRank(r, reqs[r][f[i]])  BY <1>3 DEF Lists
  <2>2. PICK e : e = reqs[r][f[i]]  OBVIOUS
  <2>3. ForRank(r, e)'  BY <1>4, <2>1, <2>2, ForRankGrows
  <2>4. reqs'[r][i] = e  BY <1>3, <2>2
  <2> QED BY <2>3, <2>4 DEF ForRank
<1>6. ASSUME NEW i \in DOMAIN reqs'[r], NEW k \in DOMAIN reqs'[r], Alike(reqs'[r][i], reqs'[r][k])
      PROVE  k = i
  <2>1. Alike(reqs[r][f[i]], reqs[r][f[k]])  BY <1>3, <1>6
  <2>2. f[k] = f[i]  BY <1>3, <2>1 DEF Lists
  <2> QED BY <1>3, <2>2
<1> QED BY <1>1, <1>4, <1>5, <1>6, ListsOne

\* All steps of a thread keep the lists.
LEMMA ListsUserNext ==
  ASSUME Called, TagsHeld, Lists, NEW line, NEW cut, Events(line, cut), NEW u \in User, UserNext(u)
  PROVE  Lists'
<1>1. Called' /\ \A b \in BatchKey : starts[b] <= starts'[b]  BY CalledStep, StartsGrow
<1>2. CASE ListRequests(u)  BY <1>1, <1>2, ListsListed
<1>3. CASE ~ ListRequests(u)
  <2>1. reqs' = reqs
    BY <1>3, Zenon DEF UserNext, Put, PutCtrl, Create, Start, Destroy, DestroyCtrl, DestroyIds,
       Wait, Sync, mvars
  <2> QED BY <1>1, <2>1, ListsSame
<1> QED BY <1>2, <1>3

\* All steps of the daemon keep the lists.
LEMMA ListsDaemonNext ==
  ASSUME Called, Lists, Works, NEW tab, NEW line, NEW cut, Course(tab, line, cut), Matched(line),
         Events(line, cut), NEW r \in Rank, DaemonNext(r)
  PROVE  Lists'
<1>1. UNCHANGED uvars  BY Zenon DEF DaemonNext, Drain, Test, Signal, Release, Unlist
<1>2. Called'  BY <1>1, CalledSame
<1>3. \A b \in BatchKey : starts[b] <= starts'[b]  BY <1>1 DEF Called, uvars
<1>4. CASE \E s \in Rank : Drain(r, s)  BY <1>2, <1>4, ListsDrain
<1>5. CASE Unlist(r)  BY <1>2, <1>5, ListsUnlist
<1>6. CASE Test(r) \/ Signal(r) \/ Release(r)
  <2>1. reqs' = reqs  BY <1>6, Zenon DEF Test, Signal, Release
  <2> QED BY <1>2, <1>3, <2>1, ListsSame
<1> QED BY <1>4, <1>5, <1>6 DEF DaemonNext

\* The list may have grown meanwhile.
LEMMA WorksStay ==
  ASSUME Works, NEW s \in Rank, dpc'[s] = dpc[s], done'[s] = done[s],
         \A i \in DOMAIN reqs[s] : i \in DOMAIN reqs'[s] /\ reqs'[s][i] = reqs[s][i]
  PROVE  WorksOf(s)'
<1>1. WorksOf(s)  BY DEF Works
<1>2. Pending(s)' = Pending(s)  BY DEF Pending
<1>3. Current(s)' = Current(s)  BY <1>2 DEF Current
<1>4. Phase(s)'  BY <1>1, <1>2, <1>3 DEF WorksOf, Phase
<1>5. WorkedApart(s)'  BY <1>1 DEF WorksOf, WorkedApart
<1>6. \A n \in DOMAIN done[s] : Copied(s, done[s][n])'  BY <1>1 DEF WorksOf, Copied
<1> QED BY <1>4, <1>5, <1>6 DEF WorksOf

\* The work stays as the list only grows.
LEMMA WorksSame ==
  ASSUME Works, dpc' = dpc, done' = done,
         \A s \in Rank : \A i \in DOMAIN reqs[s] : i \in DOMAIN reqs'[s] /\ reqs'[s][i] = reqs[s][i]
  PROVE  Works'
<1>1. WorkTypes'  BY DEF WorkTypes, Works
<1>2. \A s \in Rank : WorksOf(s)'  BY WorksStay
<1> QED BY <1>1, <1>2 DEF Works

\* One daemon goes on with its own copy.
LEMMA WorksOne ==
  ASSUME Works, NEW r \in Rank, NEW v \in {"drain", "signal", "release", "remove"},
         dpc' = [dpc EXCEPT ![r] = v], done' \in [Rank -> Seq(DoneType)],
         \A s \in Rank \ {r} : done'[s] = done[s] /\ reqs'[s] = reqs[s],
         WorksOf(r)'
  PROVE  Works'
<1>1. WorkTypes'  BY DEF WorkTypes, Works
<1>2. ASSUME NEW s \in Rank PROVE WorksOf(s)'
  <2>1. CASE s = r  BY <2>1
  <2>2. CASE s # r
    <3>1. dpc'[s] = dpc[s]  BY <2>2 DEF WorkTypes, Works
    <3> QED BY <2>2, <3>1, WorksStay
  <2> QED BY <2>1, <2>2
<1> QED BY <1>1, <1>2 DEF Works

\* A list after an append: the old requests in place, then the new ones.
LEMMA ReqsAppended ==
  ASSUME Lists, NEW r \in Rank, NEW A \in Seq(ReqType), reqs' = [reqs EXCEPT ![r] = @ \o A]
  PROVE  \A s \in Rank :
           /\ \A i \in DOMAIN reqs[s] : i \in DOMAIN reqs'[s] /\ reqs'[s][i] = reqs[s][i]
           /\ \A i \in DOMAIN reqs'[s] :
                i \in DOMAIN reqs[s] \/ (s = r /\ \E x \in DOMAIN A : i = Len(reqs[r]) + x /\ reqs'[s][i] = A[x])
           /\ s = r => \A x \in DOMAIN A : Len(reqs[r]) + x \in DOMAIN reqs'[r] /\ reqs'[r][Len(reqs[r]) + x] = A[x]
<1> TAKE s \in Rank
<1>1. reqs[r] \in Seq(ReqType) /\ reqs \in [Rank -> Seq(ReqType)]  BY DEF Lists
<1>2. CASE s # r
  <2>1. reqs'[s] = reqs[s]  BY <1>1, <1>2
  <2> QED BY <1>2, <2>1
<1>3. CASE s = r
  <2> DEFINE N == reqs[r] \o A
  <2>1. /\ \A k \in DOMAIN reqs[r] : k \in DOMAIN N /\ N[k] = reqs[r][k]
        /\ \A x \in DOMAIN A : Len(reqs[r]) + x \in DOMAIN N /\ N[Len(reqs[r]) + x] = A[x]
        /\ \A k \in DOMAIN N : k \in DOMAIN reqs[r] \/ \E x \in DOMAIN A : k = Len(reqs[r]) + x
    BY <1>1, Joined, SMTT(40)
  <2>2. reqs'[s] = N  BY <1>1, <1>3
  <2> HIDE DEF N
  <2> QED BY <1>3, <2>1, <2>2, ZenonT(40)
<1> QED BY <1>2, <1>3

\* Listed requests keep their places while a thread appends.
LEMMA ReqsStay ==
  ASSUME Lists, NEW r \in Rank, NEW A \in Seq(ReqType), reqs' = [reqs EXCEPT ![r] = @ \o A]
  PROVE  \A s \in Rank : \A i \in DOMAIN reqs[s] : i \in DOMAIN reqs'[s] /\ reqs'[s][i] = reqs[s][i]
  BY ReqsAppended

\* A thread that appends to the list leaves the copy that is worked on valid.
LEMMA WorksUserNext ==
  ASSUME Called, TagsHeld, Lists, Works, NEW u \in User, UserNext(u)
  PROVE  Works'
<1>1. dpc' = dpc /\ done' = done
  BY DEF UserNext, Put, PutCtrl, Create, Start, Destroy, DestroyCtrl, DestroyIds, ListRequests,
     Wait, Sync, dvars
<1>2. CASE ListRequests(u)
  <2>1. step[u] = "append" /\ reqs' = [reqs EXCEPT ![Home[u]] = @ \o todo[u]] /\ Home[u] \in Rank
    BY <1>2, BatchIs DEF ListRequests
  <2>2. todo[u] \in Seq(ReqType)  BY <2>1, TodoIs
  <2> QED BY <1>1, <2>1, <2>2, ReqsStay, WorksSame
<1>3. CASE ~ ListRequests(u)
  <2>1. reqs' = reqs
    BY <1>3 DEF UserNext, Put, PutCtrl, Create, Start, Destroy, DestroyCtrl, DestroyIds, Wait,
       Sync, mvars
  <2> QED BY <1>1, <2>1, WorksSame
<1> QED BY <1>2, <1>3

\* Receives are appended before a test.
LEMMA WorksDrain ==
  ASSUME Called, Lists, Works, NEW tab, NEW line, NEW cut, Course(tab, line, cut), Matched(line),
         Events(line, cut), NEW r \in Rank, NEW s \in Rank, Drain(r, s)
  PROVE  Works'
<1>1. PICK T, C, R : DrainStep(tab, line, cut, r, s, T, C, R)  BY DrainMoves
<1>2. PICK p : p = <<s, r>>  OBVIOUS
<1>3. /\ Listing(line[p], cut[p][0], C[p][0], R, s) /\ reqs' = [reqs EXCEPT ![r] = @ \o R]
      /\ dpc' = dpc /\ done' = done
  BY <1>1, <1>2 DEF DrainStep, dvars
<1>4. NewReceives(line[p], cut[p][0], C[p][0], R, r, s)  BY <1>2, <1>3, ListingIs
<1>5. R \in Seq(ReqType)  BY <1>4 DEF NewReceives
<1> QED BY <1>3, <1>5, ReqsStay, WorksSame

\* A test copies requests at distinct places of the list.
LEMMA WorksTest ==
  ASSUME Lists, Works, NEW r \in Rank, Test(r)
  PROVE  Works'
<1>1. PICK D \in SUBSET Complete(r) :
            /\ D # {}
            /\ done' = [done EXCEPT ![r] = [n \in 1..Cardinality(D) |->
                          [idx |-> Ordered(D)[n], req |-> reqs[r][Ordered(D)[n]]]]]
            /\ dpc' = [dpc EXCEPT ![r] =
                 IF \E i \in D : reqs[r][i].kind \in {"send", "recv"} THEN "signal" ELSE "remove"]
  BY TestIs
<1>2. D \in SUBSET (DOMAIN reqs[r])  BY DEF Complete
<1>3. /\ done' \in [Rank -> Seq(DoneType)] /\ \A s \in Rank \ {r} : done'[s] = done[s]
      /\ \A n \in DOMAIN done'[r] : done'[r][n].idx \in D /\ done'[r][n].req = reqs[r][done'[r][n].idx]
      /\ \A n, k \in DOMAIN done'[r] : done'[r][k].idx = done'[r][n].idx => k = n
      /\ \A i \in D : \E n \in DOMAIN done'[r] : done'[r][n].idx = i
  BY <1>1, <1>2, TestDone
<1>4. reqs' = reqs  BY TestIs
<1>5. PICK v : v = IF \E i \in D : reqs[r][i].kind \in {"send", "recv"} THEN "signal" ELSE "remove"
  OBVIOUS
<1>6. v \in {"drain", "signal", "release", "remove"} /\ dpc' = [dpc EXCEPT ![r] = v] /\ dpc'[r] = v
      /\ v \in {"signal", "remove"}
  BY <1>1, <1>5 DEF Works, WorkTypes
<1>7. Pending(r)' # {} <=> \E i \in D : reqs[r][i].kind \in {"send", "recv"}
  <2>1. Pending(r)' = {n \in DOMAIN done'[r] : done'[r][n].req.kind \in {"send", "recv"}}
    BY DEF Pending
  <2>2. PICK g : g = done'[r]  OBVIOUS
  <2>3. /\ \A n \in DOMAIN g : g[n].idx \in D /\ g[n].req = reqs[r][g[n].idx]
        /\ \A i \in D : \E n \in DOMAIN g : g[n].idx = i
    BY <1>3, <2>2
  <2>4. ASSUME NEW i \in D, reqs[r][i].kind \in {"send", "recv"}
        PROVE  \E n \in DOMAIN g : g[n].req.kind \in {"send", "recv"}
    <3>1. PICK n \in DOMAIN g : g[n].idx = i  BY <2>3
    <3>2. g[n].req = reqs[r][i]  BY <2>3, <3>1
    <3> QED BY <2>4, <3>2
  <2>5. ASSUME NEW n \in DOMAIN g, g[n].req.kind \in {"send", "recv"}
        PROVE  \E i \in D : reqs[r][i].kind \in {"send", "recv"}
    BY <2>3, <2>5
  <2>6. Pending(r)' # {} <=> \E n \in DOMAIN g : g[n].req.kind \in {"send", "recv"}  BY <2>1, <2>2
  <2> QED BY <2>4, <2>5, <2>6
<1>8. Phase(r)'  BY <1>5, <1>6, <1>7 DEF Phase
<1>9. ASSUME NEW n \in DOMAIN done'[r]
      PROVE  Copied(r, done[r][n])'
  BY <1>2, <1>3, <1>4 DEF Copied
<1>10. WorksOf(r)'  BY <1>3, <1>8, <1>9 DEF WorksOf, WorkedApart
<1> QED BY <1>1, <1>3, <1>4, <1>5, <1>6, <1>10, WorksOne

\* A request is done with.
LEMMA WorksOver ==
  ASSUME Works, NEW r \in Rank, dpc[r] \in {"signal", "release"}, done' = Over(r), reqs' = reqs,
         dpc' = [dpc EXCEPT ![r] = AfterRequest(r)]
  PROVE  Works'
<1>1. PICK c : c = Current(r)  OBVIOUS
<1>2. /\ done' \in [Rank -> Seq(DoneType)] /\ DOMAIN done'[r] = DOMAIN done[r]
      /\ \A n \in DOMAIN done[r] :
            /\ done'[r][n].idx = done[r][n].idx
            /\ n # c => done'[r][n] = done[r][n]
      /\ done'[r][c].req.kind = "over"
      /\ done'[r][c].req.w = done[r][c].req.w /\ done'[r][c].req.peer = done[r][c].req.peer
      /\ done'[r][c].req.tag = done[r][c].req.tag /\ done'[r][c].req.keep = done[r][c].req.keep
      /\ \A s \in Rank \ {r} : done'[s] = done[s]
      /\ Pending(r)' = Pending(r) \ {c}
  BY <1>1, OverIs
<1>3. /\ c \in DOMAIN done[r] /\ c \in Pending(r)
      /\ done[r][c].req.kind \in {"send", "recv"} /\ done[r][c].req.kind = reqs[r][done[r][c].idx].kind
  BY <1>1, CurrentIs
<1>4. WorksOf(r)  BY DEF Works
<1>5. PICK v : v = AfterRequest(r)  OBVIOUS
<1>6. v \in {"signal", "remove"} /\ dpc' = [dpc EXCEPT ![r] = v] /\ dpc'[r] = v
  BY <1>5 DEF Works, AfterRequest, WorkTypes
<1>7. IF v = "remove" THEN Pending(r) \ {c} = {} ELSE Pending(r) \ {c} # {}
  <2>1. PICK P : P = Pending(r)  OBVIOUS
  <2>2. IsFiniteSet(P) /\ c \in P  BY <1>3, <2>1, PendingIs
  <2>3. Cardinality(P) = 1 => P \ {c} = {}
    <3>1. ASSUME Cardinality(P) = 1 PROVE P \ {c} = {}
      <4>1. PICK e : P = {e}  BY <2>2, <3>1, FS_Singleton
      <4> QED BY <2>2, <4>1
    <3> QED BY <3>1
  <2>4. P \ {c} = {} => Cardinality(P) = 1
    <3>1. ASSUME P \ {c} = {} PROVE Cardinality(P) = 1
      <4>1. P = {c}  BY <2>2, <3>1
      <4> QED BY <4>1, FS_Singleton
    <3> QED BY <3>1
  <2> QED BY <1>5, <2>1, <2>3, <2>4 DEF AfterRequest
<1>8. Phase(r)'  BY <1>2, <1>6, <1>7 DEF Phase
<1>9. ASSUME NEW n \in DOMAIN done'[r]
      PROVE  Copied(r, done[r][n])'
  <2>1. Copied(r, done[r][n]) /\ n \in DOMAIN done[r]  BY <1>2, <1>4 DEF WorksOf
  <2>2. CASE n = c  BY <1>2, <1>3, <2>1, <2>2 DEF Copied
  <2>3. CASE n # c  BY <1>2, <2>1, <2>3 DEF Copied
  <2> QED BY <2>2, <2>3
<1>10. WorkedApart(r)'  BY <1>2, <1>4 DEF WorksOf, WorkedApart
<1>11. WorksOf(r)'  BY <1>8, <1>9, <1>10 DEF WorksOf
<1> QED BY <1>2, <1>6, <1>11, WorksOne

\* A send whose signal was moved is released next.
LEMMA WorksSignal ==
  ASSUME Works, NEW r \in Rank, Signal(r)
  PROVE  Works'
<1>1. PICK e : e = done[r][Current(r)].req  OBVIOUS
<1>2. /\ dpc[r] = "signal" /\ UNCHANGED <<uvars, tagPool, idPool, mvars, reqs>>
      /\ \/ /\ e.kind = "send"
            /\ dpc' = [dpc EXCEPT ![r] = "release"] /\ UNCHANGED <<done, recvSig, landed>>
         \/ /\ e.kind = "recv"
            /\ dpc' = [dpc EXCEPT ![r] = AfterRequest(r)] /\ done' = Over(r)
  BY <1>1, SignalIs
<1>3. CASE e.kind = "send"
  <2>1. dpc' = [dpc EXCEPT ![r] = "release"] /\ done' = done /\ reqs' = reqs  BY <1>2, <1>3
  <2>2. WorksOf(r)  BY DEF Works
  <2>3. Pending(r)' = Pending(r)  BY <2>1 DEF Pending
  <2>4. Current(r)' = Current(r)  BY <2>3 DEF Current
  <2>5. dpc'[r] = "release" /\ Pending(r) # {}
    BY <1>2, <2>1, <2>2 DEF Works, WorkTypes, WorksOf, Phase
  <2>6. Phase(r)'  BY <1>1, <1>3, <2>1, <2>3, <2>4, <2>5 DEF Phase
  <2>7. WorksOf(r)'  BY <2>1, <2>2, <2>6 DEF WorksOf, WorkedApart, Copied
  <2>8. done' \in [Rank -> Seq(DoneType)]  BY <2>1 DEF Works, WorkTypes
  <2> QED BY <2>1, <2>7, <2>8, WorksOne
<1>4. CASE e.kind # "send"  BY <1>2, <1>4, WorksOver
<1> QED BY <1>3, <1>4

\* After the removal there is no work.
LEMMA WorksUnlist ==
  ASSUME Lists, Works, NEW r \in Rank, Unlist(r)
  PROVE  Works'
<1>1. /\ reqs' \in [Rank -> Seq(ReqType)] /\ \A s \in Rank \ {r} : reqs'[s] = reqs[s] /\ done'[s] = done[s]
      /\ done' \in [Rank -> Seq(DoneType)] /\ done'[r] = <<>> /\ dpc' = [dpc EXCEPT ![r] = "drain"]
  BY UnlistIs
<1>2. DOMAIN done'[r] = {} /\ dpc'[r] = "drain"
  BY <1>1 DEF Works, WorkTypes
<1>3. WorksOf(r)'  BY <1>1, <1>2 DEF WorksOf, WorkedApart, Phase
<1> QED BY <1>1, <1>3, WorksOne

\* All steps of the daemon keep its work in accordance with the list.
LEMMA WorksDaemonNext ==
  ASSUME Called, Lists, Works, NEW tab, NEW line, NEW cut, Course(tab, line, cut), Matched(line),
         Events(line, cut), NEW r \in Rank, DaemonNext(r)
  PROVE  Works'
<1>1. CASE \E s \in Rank : Drain(r, s)  BY <1>1, WorksDrain
<1>2. CASE Test(r)  BY <1>2, WorksTest
<1>3. CASE Signal(r)  BY <1>3, WorksSignal
<1>4. CASE Release(r)  BY <1>4, WorksOver DEF Release
<1>5. CASE Unlist(r)  BY <1>5, WorksUnlist
<1> QED BY <1>1, <1>2, <1>3, <1>4, <1>5 DEF DaemonNext

\* A write that was not started has no event and no request.
LEMMA FreshIs ==
  ASSUME Called, Lists, EventTypes, NoneAhead, NEW w, Fresh(w)
  PROVE  /\ sent[w] = 0 /\ landed[w] = 0
         /\ \A r \in Rank : ~ ListedAs(r, "send", w) /\ ~ ListedAs(r, "recv", w)
<1>1. sent[w] = 0 /\ landed[w] = 0  BY DEF Fresh, NoneAhead
<1>2. ~ Begun(w)
  <2>1. w[1] \in BatchKey /\ w[3] \in Nat  BY WriteIs DEF Fresh
  <2>2. starts[w[1]] \in Nat  BY <2>1 DEF Called
  <2> QED BY <2>1, <2>2 DEF Fresh, Begun
<1>3. ASSUME NEW r \in Rank
      PROVE  ~ ListedAs(r, "send", w) /\ ~ ListedAs(r, "recv", w)
  BY <1>2 DEF ListedAs, Lists, ForRank
<1> QED BY <1>1, <1>3

\* A step of a thread that lists nothing and gives no event.
LEMMA EventsUser ==
  ASSUME Called, Lists, NEW line, NEW cut, Events(line, cut), NEW u \in User, UserNext(u),
         ~ ListRequests(u), NEW L, NEW C, \A p \in Pair : C[p][0] = cut[p][0],
         \A k \in DOMAIN prog[u] : SendingFrom(u, k),
         \A p \in Pair : UntoldFrom(p) /\ LineFrom(L, line, C[p][0], p)
  PROVE  Events(L, C)'
<1>1. /\ EventTypes /\ NoneAhead
      /\ \A r \in Rank : \A i \in DOMAIN reqs[r] : SentIs(r, i) /\ LandedIs(r, i)
      /\ \A v \in User : \A k \in DOMAIN prog[v] : NotSent(v, k)
      /\ \A p \in Pair : NotLanded(p) /\ AllExpected(line, cut, p)
  BY Zenon DEF Events
<1>2. reqs' = reqs /\ done' = done /\ dpc' = dpc /\ sent' = sent /\ landed' = landed
  BY DEF UserNext, Put, PutCtrl, Create, Start, Destroy, DestroyCtrl, DestroyIds, Wait, Sync,
     mvars, dvars, svars
<1>3. /\ Called' /\ prog' = prog
      /\ \A v \in User \ {u} :
           /\ at'[v] = at[v] /\ Place(v)' = Place(v)
           /\ \A k : <<v, k>> \in BatchKey => starts'[<<v, k>>] = starts[<<v, k>>]
  BY CalledOthers, CalledStep
<1>4. EventTypes'  BY <1>1, <1>2 DEF EventTypes
<1>5. NoneAhead'
  <2>1. ASSUME NEW w \in Write, w[3] > starts'[w[1]] PROVE sent'[w] = 0 /\ landed'[w] = 0
    <3>1. w[1] \in BatchKey /\ w[3] \in Nat  BY WriteIs
    <3>2. starts[w[1]] \in Nat /\ starts'[w[1]] \in Nat /\ starts[w[1]] <= starts'[w[1]]
      BY <1>3, <3>1, StartsGrow DEF Called
    <3>3. w[3] > starts[w[1]]  BY <2>1, <3>1, <3>2
    <3> QED BY <1>1, <1>2, <3>3 DEF NoneAhead
  <2> QED BY <2>1 DEF NoneAhead
<1>6. ASSUME NEW r \in Rank, NEW i \in DOMAIN reqs'[r] PROVE SentIs(r, i)' /\ LandedIs(r, i)'
  <2>1. (OverAt(r, i)' <=> OverAt(r, i)) /\ (Releasing(r, i)' <=> Releasing(r, i))
    BY <1>2 DEF OverAt, Releasing, Current, Pending
  <2>2. SentIs(r, i) /\ LandedIs(r, i)  BY <1>1, <1>2
  <2> QED BY <1>2, <2>1, <2>2, Zenon DEF SentIs, LandedIs
<1>7. \A r, w : \A kind : ListedAs(r, kind, w)' <=> ListedAs(r, kind, w)  BY <1>2 DEF ListedAs
<1>8. \A r, w : Awaited(r, w)' <=> Awaited(r, w)  BY <1>2 DEF Awaited, Worked
<1>9. ASSUME NEW v \in User, NEW k \in DOMAIN prog'[v] PROVE NotSent(v, k)'
  <2>1. NotSent(v, k) /\ k \in DOMAIN prog[v] /\ Home[v] \in Rank  BY <1>1, <1>3, BatchIs
  <2> SUFFICES ASSUME Sending(Place(v))', Owns(prog[v], k, at[v])', NEW j \in Piece(v),
                      NEW w, w = <<<<v, k>>, j, starts'[<<v, k>>]>>
               PROVE  sent[w] = 0 /\ ~ ListedAs(Home[v], "send", w)
    BY <1>2, <1>7 DEF NotSent
  <2>2. CASE Sending(Place(v)) /\ at'[v] = at[v] /\ starts'[<<v, k>>] = starts[<<v, k>>]
    <3>1. Owns(prog[v], k, at[v])  BY <1>3, <2>2
    <3> QED BY <2>1, <2>2, <3>1 DEF NotSent
  <2>3. CASE Fresh(w)  BY <1>1, <2>1, <2>3, FreshIs
  <2>4. CASE v = u  BY <2>1, <2>2, <2>3, <2>4 DEF SendingFrom
  <2>5. CASE v # u
    <3>1. <<v, k>> \in BatchKey
      <4>1. prog[v][k] \in Starting  BY <1>3 DEF Owns
      <4> QED BY <2>1, <4>1, CalledFacts
    <3> QED BY <1>3, <2>2, <2>5, <3>1
  <2> QED BY <2>4, <2>5
<1>10. ASSUME NEW p \in Pair PROVE NotLanded(p)' /\ AllExpected(L, C, p)'
  <2>1. NotLanded(p) /\ AllExpected(line, cut, p) /\ p[2] \in Rank /\ C[p][0] = cut[p][0]
    BY <1>1 DEF Pair
  <2>2. ASSUME NEW w, Fresh(w) PROVE landed[w] = 0 /\ ~ ListedAs(p[2], "recv", w)
    BY <1>1, <2>1, <2>2, FreshIs
  <2>3. NotLanded(p)'
    <3> SUFFICES ASSUME NEW o \in Untold(p)'
                 PROVE  landed[o.w] = 0 /\ ~ ListedAs(p[2], "recv", o.w)
      BY <1>2, <1>7 DEF NotLanded
    <3>1. o \in Untold(p) \/ Fresh(o.w)  BY DEF UntoldFrom
    <3> QED BY <2>1, <2>2, <3>1 DEF NotLanded
  <2>4. AllExpected(L, C, p)'
    <3> SUFFICES ASSUME NEW x \in DOMAIN L[p]
                 PROVE  Expects(p, L[p][x].w, x, C[p][0])
      BY <1>2, <1>7, <1>8 DEF AllExpected, Expects
    <3>1. CASE x \in DOMAIN line[p] /\ L[p][x] = line[p][x]  BY <2>1, <3>1 DEF AllExpected
    <3>2. CASE ~ (x <= C[p][0]) /\ Fresh(L[p][x].w)  BY <2>2, <3>2 DEF Expects
    <3>3. CASE ~ (x <= C[p][0]) /\ L[p][x] \in Untold(p)  BY <2>1, <3>3 DEF Expects, NotLanded
    <3> QED BY <3>1, <3>2, <3>3 DEF LineFrom
  <2> QED BY <2>3, <2>4
<1> QED BY <1>4, <1>5, <1>6, <1>9, <1>10 DEF Events

\* A sequence after an append.
LEMMA LineGrown ==
  ASSUME NEW N \in Seq(OpType), NEW S \in Seq(OpType), NEW c \in 0..Len(N)
  PROVE  \A x \in DOMAIN (N \o S) :
           \/ x \in DOMAIN N /\ (N \o S)[x] = N[x]
           \/ x > c /\ ~ (x <= c) /\ \E y \in DOMAIN S : (N \o S)[x] = S[y]
<1>1. /\ DOMAIN N = 1..Len(N) /\ DOMAIN S = 1..Len(S) /\ Len(N) \in Nat /\ Len(S) \in Nat
      /\ \A k \in DOMAIN N : (N \o S)[k] = N[k]
      /\ \A x \in DOMAIN S : (N \o S)[Len(N) + x] = S[x]
      /\ \A k \in DOMAIN (N \o S) : k \in DOMAIN N \/ \E x \in DOMAIN S : k = Len(N) + x
  BY Joined
<1>2. ASSUME NEW x, NEW y \in DOMAIN S, x = Len(N) + y
      PROVE  x > c /\ ~ (x <= c) /\ (N \o S)[x] = S[y]
  BY <1>1, <1>2
<1> QED BY <1>1, <1>2

\* What a call sends are pieces of its batch.
LEMMA HeldOp ==
  ASSUME Called, TagsHeld, NEW u \in User, Holds(Place(u)), NEW k, Mine(u) = <<u, k>>,
         <<u, k>> \in BatchKey, NEW n \in Nat, NEW d
  PROVE  SendsOf(Ops(u, d, n, tags[u]), u, k, n, d)
<1>1. /\ Ops(u, d, n, tags[u]) \in Seq(OpType)
      /\ DOMAIN Ops(u, d, n, tags[u]) = DOMAIN PiecesTo(u, d)
      /\ \A i \in DOMAIN PiecesTo(u, d) :
           Ops(u, d, n, tags[u])[i] = Op(u, k, PiecesTo(u, d)[i], n, tags[u])
  BY HeldOps
<1>2. \A i \in DOMAIN PiecesTo(u, d) : PiecesTo(u, d)[i] \in PiecesFor(u, d)
  BY PiecesToIs DEF PiecesFor
<1> QED BY <1>1, <1>2 DEF SendsOf

\* Receives to come that stay.
LEMMA LineFromSame ==
  ASSUME NEW L, NEW line, NEW p, L[p] = line[p], NEW c
  PROVE  LineFrom(L, line, c, p)
  BY DEF LineFrom

\* The first receives to come are posted.
LEMMA CutIs ==
  ASSUME NEW tab, NEW line, NEW cut, Course(tab, line, cut), NEW p \in Pair
  PROVE  line[p] \in Seq(OpType) /\ cut[p][0] \in 0..Len(line[p])
<1>1. OnCourse(tab[p], line[p], cut[p], ctrl[p], posted[p], slot[p])  BY DEF Course
<1>2. /\ line[p] \in Seq(OpType) /\ ctrl[p] \in Seq(MsgType)
      /\ cut[p] \in [0..Len(ctrl[p]) -> 0..Len(line[p])]
  BY <1>1 DEF OnCourse
<1>3. 0 \in 0..Len(ctrl[p])  BY <1>2
<1> QED BY <1>2, <1>3

\* The data of a put is under way without events.
LEMMA EventsPut ==
  ASSUME Called, Lists, NEW line, NEW cut, Events(line, cut), NEW u \in User, Put(u)
  PROVE  Events(line, cut)'
<1>1. /\ starts[Mine(u)] = 0 /\ Mine(u) = <<u, at[u]>> /\ <<u, at[u]>> \in BatchKey  BY CalledPut
<1>2. /\ at' = at /\ prog' = prog /\ step' = [step EXCEPT ![u] = "sent"] /\ step[u] = "begin"
      /\ starts' = [starts EXCEPT ![Mine(u)] = 1] /\ ~ ListRequests(u) /\ UserNext(u)
  BY DEF Put, Calls, ListRequests, UserNext
<1>3. at[u] \in DOMAIN prog[u] /\ prog[u][at[u]] = "put"  BY CalledWhere DEF Put
<1>4. starts'[<<u, at[u]>>] = 1 /\ step'[u] = "sent"  BY <1>1, <1>2 DEF Called
<1>5. ASSUME NEW j \in Piece(u) PROVE Fresh(<<<<u, at[u]>>, j, 1>>)
  <2>1. 1 \in 1..Len(prog[u])  BY <1>3, CalledFacts
  <2>2. <<<<u, at[u]>>, j, 1>> \in Write  BY <1>3, <2>1, NewWrite DEF Starting
  <2> QED BY <1>1, <2>2 DEF Fresh
<1>6. ASSUME NEW k \in DOMAIN prog[u] PROVE SendingFrom(u, k)
  <2> SUFFICES ASSUME Owns(prog[u], k, at[u])
               PROVE  \A j \in Piece(u) : Fresh(<<<<u, k>>, j, starts'[<<u, k>>]>>)
    BY <1>2 DEF SendingFrom
  <2>1. Owns(prog[u], at[u], at[u])  BY <1>3, MineStarting DEF Starting
  <2>2. k = at[u]  BY <2>1, CalledFacts, OwnsOnce
  <2> QED BY <1>4, <1>5, <2>2
<1>7. ASSUME NEW p \in Pair PROVE UntoldFrom(p)
  <2> SUFFICES ASSUME NEW o \in Untold(p)', o \notin Untold(p) PROVE Fresh(o.w)  BY DEF UntoldFrom
  <2>1. PICK j \in PiecesFor(u, p[2]) : o = Op(u, at[u], j, 1, tags'[u])  BY <1>2, <1>4, UntoldPut
  <2>2. o.w = <<<<u, at[u]>>, j, 1>> /\ j \in Piece(u)  BY <2>1 DEF Op, PiecesFor
  <2> QED BY <1>5, <2>2
<1> QED BY <1>2, <1>6, <1>7, LineFromSame, EventsUser

\* The receives of a put become due.
LEMMA EventsPutCtrl ==
  ASSUME Called, TagsHeld, Lists, NEW tab, NEW line, NEW cut, Course(tab, line, cut),
         Events(line, cut), NEW u \in User, PutCtrl(u), NEW L, NEW C,
         \A p \in Pair : C[p][0] = cut[p][0] /\
           L[p] = IF ToldTo(u, p) THEN line[p] \o Ops(u, p[2], 1, tags[u]) ELSE line[p]
  PROVE  Events(L, C)'
<1>1. /\ Mine(u) = <<u, at[u]>> /\ <<u, at[u]>> \in BatchKey /\ prog[u][at[u]] = "put"
  BY CalledPutCtrl
<1>2. /\ at' = at /\ prog' = prog /\ step' = [step EXCEPT ![u] = "append"] /\ step[u] = "sent"
      /\ starts' = starts /\ ~ ListRequests(u) /\ UserNext(u)
  BY DEF PutCtrl, ListRequests, UserNext
<1>3. Sending(Place(u)) /\ step'[u] # "sent"  BY <1>2 DEF Sending, Place, Called
<1>4. \A k \in DOMAIN prog[u] : SendingFrom(u, k)  BY <1>2, <1>3 DEF SendingFrom
<1>5. \A p \in Pair : UntoldFrom(p)  BY <1>2, <1>3, UntoldTold DEF UntoldFrom
<1>6. ASSUME NEW p \in Pair PROVE LineFrom(L, line, C[p][0], p)
  <2>1. CASE ~ ToldTo(u, p)  BY <2>1, LineFromSame
  <2>2. CASE ToldTo(u, p)
    <3>1. Holds(Place(u))  BY PlanPut
    <3>2. PICK S : S = Ops(u, p[2], 1, tags[u])  OBVIOUS
    <3>3. /\ S \in Seq(OpType)
          /\ \A y \in DOMAIN S : \E j \in PiecesFor(u, p[2]) : S[y] = Op(u, at[u], j, 1, tags[u])
      <4>1. 1 \in Nat  OBVIOUS
      <4>2. SendsOf(Ops(u, p[2], 1, tags[u]), u, at[u], 1, p[2])  BY <1>1, <3>1, <4>1, HeldOp
      <4>3. SendsOf(S, u, at[u], 1, p[2])  BY <3>2, <4>2
      <4> QED BY <4>3 DEF SendsOf
    <3>4. \A j \in PiecesFor(u, p[2]) : Op(u, at[u], j, 1, tags[u]) \in Untold(p)
      BY <1>2, <1>3, <2>2, UntoldTold DEF ToldTo
    <3>5. \A y \in DOMAIN S : S[y] \in Untold(p)  BY <3>3, <3>4
    <3>6. PICK N, c : N = line[p] /\ c = C[p][0]  OBVIOUS
    <3>7. N \in Seq(OpType) /\ c \in 0..Len(N) /\ L[p] = N \o S  BY <2>2, <3>2, <3>6, CutIs
    <3>8. \A x \in DOMAIN (N \o S) :
         \/ x \in DOMAIN N /\ (N \o S)[x] = N[x]
         \/ x > c /\ ~ (x <= c) /\ \E y \in DOMAIN S : (N \o S)[x] = S[y]
      BY <3>3, <3>7, LineGrown
    <3>9. \A x \in DOMAIN L[p] :
         \/ x \in DOMAIN N /\ L[p][x] = N[x]
         \/ x > c /\ ~ (x <= c) /\ L[p][x] \in Untold(p)
      BY <3>5, <3>7, <3>8
    <3> QED BY <3>6, <3>9 DEF LineFrom
  <2> QED BY <2>1, <2>2
<1>7. \A p \in Pair : C[p][0] = cut[p][0]  OBVIOUS
<1>8. \A p \in Pair : UntoldFrom(p) /\ LineFrom(L, line, C[p][0], p)  BY <1>5, <1>6
<1> QED BY <1>2, <1>4, <1>7, <1>8, EventsUser

\* The receives of a started plan become due, its data is under way.
LEMMA EventsStart ==
  ASSUME Called, TagsHeld, Lists, NEW tab, NEW line, NEW cut, Course(tab, line, cut),
         Events(line, cut), NEW u \in User, Start(u), NEW L, NEW C,
         \A p \in Pair : C[p][0] = cut[p][0] /\
           L[p] = IF ToldTo(u, p) THEN line[p] \o Ops(u, p[2], starts[Mine(u)] + 1, tags[u])
                                  ELSE line[p]
  PROVE  Events(L, C)'
<1>1. PICK k \in DOMAIN prog[u] :
         /\ Mine(u) = <<u, k>> /\ <<u, k>> \in BatchKey /\ Owns(prog[u], k, at[u])
         /\ prog[u][k] = "create"
  BY CalledPlan DEF Start
<1>2. /\ at' = at /\ prog' = prog /\ step' = [step EXCEPT ![u] = "append"] /\ step[u] = "begin"
      /\ starts' = [starts EXCEPT ![Mine(u)] = starts[Mine(u)] + 1] /\ ~ ListRequests(u) /\ UserNext(u)
  BY DEF Start, Calls, ListRequests, UserNext
<1>3. PICK n : n = starts[Mine(u)] + 1  OBVIOUS
<1>4. n \in Nat /\ n > starts[<<u, k>>] /\ starts'[<<u, k>>] = n /\ n > 0 /\ step'[u] = "append"
  BY <1>1, <1>2, <1>3 DEF Called
<1>5. n \in 1..Len(prog[u])
  <2>1. Caller(u)'  BY CalledStart
  <2>2. starts'[<<u, k>>] <= at'[u]  BY <1>1, <1>4, <2>1 DEF Caller
  <2>3. at[u] \in DOMAIN prog[u] /\ DOMAIN prog[u] = 1..Len(prog[u]) /\ Len(prog[u]) \in Nat /\ at[u] \in Nat
    BY CalledFacts, CalledWhere DEF Start
  <2> QED BY <1>2, <1>4, <2>2, <2>3
<1>6. ASSUME NEW j \in Piece(u) PROVE Fresh(<<<<u, k>>, j, n>>)
  <2>1. <<<<u, k>>, j, n>> \in Write  BY <1>1, <1>5, NewWrite DEF Starting
  <2> QED BY <1>4, <2>1 DEF Fresh
<1>7. ASSUME NEW l \in DOMAIN prog[u] PROVE SendingFrom(u, l)
  <2> SUFFICES ASSUME Owns(prog[u], l, at[u])
               PROVE  \A j \in Piece(u) : Fresh(<<<<u, l>>, j, starts'[<<u, l>>]>>)
    BY <1>2 DEF SendingFrom
  <2>1. l = k  BY <1>1, CalledFacts, OwnsOnce
  <2> QED BY <1>4, <1>6, <2>1
<1>8. \A p \in Pair : UntoldFrom(p)  BY <1>2, <1>4, UntoldSame DEF UntoldFrom
<1>9. ASSUME NEW p \in Pair PROVE LineFrom(L, line, C[p][0], p)
  <2>1. CASE ~ ToldTo(u, p)  BY <2>1, LineFromSame
  <2>2. CASE ToldTo(u, p)
    <3>1. Holds(Place(u))  BY PlanStart
    <3>2. PICK S : S = Ops(u, p[2], n, tags[u])  OBVIOUS
    <3>3. /\ S \in Seq(OpType)
          /\ \A y \in DOMAIN S : \E j \in PiecesFor(u, p[2]) : S[y] = Op(u, k, j, n, tags[u])
      <4>2. SendsOf(Ops(u, p[2], n, tags[u]), u, k, n, p[2])  BY <1>1, <1>4, <3>1, HeldOp
      <4>3. SendsOf(S, u, k, n, p[2])  BY <3>2, <4>2
      <4> QED BY <4>3 DEF SendsOf
    <3>5. ASSUME NEW y \in DOMAIN S PROVE Fresh(S[y].w)
      <4>2. PICK j \in PiecesFor(u, p[2]) : S[y] = Op(u, k, j, n, tags[u])  BY <3>3
      <4>3. S[y].w = <<<<u, k>>, j, n>> /\ j \in Piece(u)  BY <4>2 DEF Op, PiecesFor
      <4> QED BY <1>6, <4>3
    <3>6. PICK N, c : N = line[p] /\ c = C[p][0]  OBVIOUS
    <3>7. N \in Seq(OpType) /\ c \in 0..Len(N) /\ L[p] = N \o S  BY <1>3, <2>2, <3>2, <3>6, CutIs
    <3>8. \A x \in DOMAIN (N \o S) :
         \/ x \in DOMAIN N /\ (N \o S)[x] = N[x]
         \/ x > c /\ ~ (x <= c) /\ \E y \in DOMAIN S : (N \o S)[x] = S[y]
      BY <3>3, <3>7, LineGrown
    <3>9. \A x \in DOMAIN L[p] :
         \/ x \in DOMAIN N /\ L[p][x] = N[x]
         \/ x > c /\ ~ (x <= c) /\ Fresh(L[p][x].w)
      BY <3>5, <3>7, <3>8
    <3> QED BY <3>6, <3>9 DEF LineFrom
  <2> QED BY <2>1, <2>2
<1>10. \A p \in Pair : C[p][0] = cut[p][0]  OBVIOUS
<1>11. \A p \in Pair : UntoldFrom(p) /\ LineFrom(L, line, C[p][0], p)  BY <1>8, <1>9
<1> QED BY <1>2, <1>7, <1>10, <1>11, EventsUser

\* The other operations of a thread move no data.
LEMMA EventsQuiet ==
  ASSUME Called, Lists, NEW line, NEW cut, Events(line, cut), NEW u \in User,
         Create(u) \/ Destroy(u) \/ DestroyCtrl(u) \/ DestroyIds(u) \/ Wait(u) \/ Sync(u), NEW L, NEW C,
         \A p \in Pair : C[p][0] = cut[p][0] /\ L[p] = line[p]
  PROVE  Events(L, C)'
<1>1. UserNext(u) /\ prog' = prog /\ ~ ListRequests(u) /\ step[u] # "sent"
  <2>1. UserNext(u) /\ prog' = prog
    BY DEF UserNext, Create, Destroy, DestroyCtrl, DestroyIds, Wait, Sync
  <2>2. step[u] \in {"begin", "untagged", "told"}
    BY DEF Create, Destroy, DestroyCtrl, DestroyIds, Wait, Sync, Calls
  <2> QED BY <2>1, <2>2 DEF ListRequests
<1>2. step'[u] # "sent" /\ ~ Sending(Place(u))'
  <2>1. CASE Create(u)
    <3>1. step'[u] = "append" /\ at' = at /\ prog[u][at[u]] = "create"
      BY <2>1, CalledWhere DEF Create, Called
    <3> QED BY <1>1, <3>1 DEF Sending, Place
  <2>2. CASE Destroy(u) \/ DestroyCtrl(u) \/ DestroyIds(u)
    <3>1. at' = at /\ prog[u][at[u]] = "destroy"  BY <2>2, CalledDestroys
    <3>2. step'[u] \in {"untagged", "told", "append"}
      BY <2>2 DEF Destroy, DestroyCtrl, DestroyIds, Called
    <3> QED BY <1>1, <3>1, <3>2 DEF Sending, Place
  <2>3. CASE Wait(u) \/ Sync(u)
    <3>1. step'[u] = "begin"  BY <2>3, CalledOver
    <3> QED BY <3>1 DEF Sending, Place
  <2> QED BY <2>1, <2>2, <2>3
<1>3. \A k \in DOMAIN prog[u] : SendingFrom(u, k)  BY <1>2 DEF SendingFrom
<1>4. \A p \in Pair : UntoldFrom(p)  BY <1>1, <1>2, UntoldSame DEF UntoldFrom
<1>5. \A p \in Pair : UntoldFrom(p) /\ LineFrom(L, line, C[p][0], p)  BY <1>4, LineFromSame
<1> QED BY <1>1, <1>3, <1>5, EventsUser

\* What is worked on is listed.
LEMMA WorkedListed ==
  ASSUME Works, NEW s \in Rank, NEW i, OverAt(s, i) \/ Releasing(s, i) \/ i \in Worked(s)
  PROVE  i \in DOMAIN reqs[s] /\ i \in Worked(s) /\ done[s] # <<>>
<1>1. \A n \in DOMAIN done[s] : done[s][n].idx \in DOMAIN reqs[s]  BY DEF WorksOf, Copied, Works
<1>2. \E n \in DOMAIN done[s] : done[s][n].idx = i
  <2>1. CASE OverAt(s, i)  BY <2>1 DEF OverAt
  <2>2. CASE Releasing(s, i)
    <3>1. Current(s) \in DOMAIN done[s]  BY <2>2, CurrentIs DEF Releasing
    <3> QED BY <2>2, <3>1 DEF Releasing
  <2>3. CASE i \in Worked(s)  BY <2>3 DEF Worked
  <2> QED BY <2>1, <2>2, <2>3
<1>3. done[s] # <<>>  BY <1>2
<1> QED BY <1>1, <1>2, <1>3 DEF Worked

\* What is in a list after an append and was not before is one of the new.
LEMMA ReqsNew ==
  ASSUME Lists, NEW r \in Rank, NEW A \in Seq(ReqType), reqs' = [reqs EXCEPT ![r] = @ \o A],
         NEW s \in Rank, NEW i \in DOMAIN reqs'[s], i \notin DOMAIN reqs[s]
  PROVE  s = r /\ \E x \in DOMAIN A : reqs'[s][i] = A[x]
<1>1. reqs[r] \in Seq(ReqType) /\ reqs \in [Rank -> Seq(ReqType)]  BY DEF Lists
<1>2. s = r  BY <1>1
<1>3. reqs'[s] = reqs[r] \o A  BY <1>1, <1>2
<1>4. PICK N : N = reqs[r] \o A  OBVIOUS
<1>5. /\ \A x \in DOMAIN A : N[Len(reqs[r]) + x] = A[x]
      /\ \A y \in DOMAIN N : y \in DOMAIN reqs[r] \/ \E x \in DOMAIN A : y = Len(reqs[r]) + x
  BY <1>1, <1>4, Joined
<1>6. i \in DOMAIN N /\ i \notin DOMAIN reqs[r] /\ reqs'[s][i] = N[i]  BY <1>2, <1>3, <1>4
<1>7. PICK x \in DOMAIN A : i = Len(reqs[r]) + x  BY <1>5, <1>6
<1>8. reqs'[s][i] = A[x]  BY <1>5, <1>6, <1>7
<1> QED BY <1>2, <1>8

\* Events of requests that were in the list or are new in it.
LEMMA EventsAppend ==
  ASSUME Lists, Works, NEW line, NEW cut, Events(line, cut), NEW r \in Rank, NEW A \in Seq(ReqType),
         reqs' = [reqs EXCEPT ![r] = @ \o A], done' = done, dpc' = dpc, sent' = sent, landed' = landed,
         NewRequests(A), NEW s \in Rank, NEW i \in DOMAIN reqs'[s]
  PROVE  SentIs(s, i)' /\ LandedIs(s, i)'
<1>1. (OverAt(s, i)' <=> OverAt(s, i)) /\ (Releasing(s, i)' <=> Releasing(s, i))
  BY DEF OverAt, Releasing, Current, Pending
<1>2. CASE i \in DOMAIN reqs[s]
  <2>1. reqs'[s][i] = reqs[s][i]  BY <1>2, ReqsStay
  <2>2. SentIs(s, i) /\ LandedIs(s, i)  BY <1>2, Zenon DEF Events
  <2> QED BY <1>1, <2>1, <2>2, Zenon DEF SentIs, LandedIs
<1>3. CASE i \notin DOMAIN reqs[s]
  <2>2. PICK x \in DOMAIN A : reqs'[s][i] = A[x]  BY <1>3, ReqsNew
  <2>3. ~ OverAt(s, i) /\ ~ Releasing(s, i)  BY <1>3, WorkedListed
  <2>4. (reqs'[s][i].kind = "send" => sent'[reqs'[s][i].w] = 0)
        /\ (reqs'[s][i].kind = "recv" => landed'[reqs'[s][i].w] = 0)
    BY <2>2 DEF NewRequests
  <2> QED BY <1>1, <2>3, <2>4 DEF SentIs, LandedIs
<1> QED BY <1>2, <1>3

\* What an append does to what is listed and awaited.
LEMMA ListedAppend ==
  ASSUME Lists, NEW r \in Rank, NEW A \in Seq(ReqType), reqs' = [reqs EXCEPT ![r] = @ \o A], done' = done,
         NEW s \in Rank, NEW w
  PROVE  /\ \A kind : ~ ListedAs(s, kind, w) /\ (s = r => \A x \in DOMAIN A : A[x].kind = kind => A[x].w # w)
              => ~ ListedAs(s, kind, w)'
         /\ Awaited(s, w) => Awaited(s, w)'
<1>1. \A i \in DOMAIN reqs[s] : i \in DOMAIN reqs'[s] /\ reqs'[s][i] = reqs[s][i]  BY ReqsStay
<1>2. ASSUME NEW kind, ListedAs(s, kind, w)'
      PROVE  ListedAs(s, kind, w) \/ (s = r /\ \E x \in DOMAIN A : A[x].kind = kind /\ A[x].w = w)
  <2>1. PICK i \in DOMAIN reqs'[s] : reqs'[s][i].kind = kind /\ reqs'[s][i].w = w
    BY <1>2 DEF ListedAs
  <2>2. CASE i \in DOMAIN reqs[s]  BY <1>1, <2>1, <2>2 DEF ListedAs
  <2>3. CASE i \notin DOMAIN reqs[s]
    <3>1. s = r /\ \E x \in DOMAIN A : reqs'[s][i] = A[x]  BY <2>3, ReqsNew
    <3> QED BY <2>1, <3>1
  <2> QED BY <2>2, <2>3
<1>3. Awaited(s, w) => Awaited(s, w)'
  <2>1. Worked(s)' = Worked(s)  BY DEF Worked
  <2> QED BY <1>1, <2>1 DEF Awaited
<1> QED BY <1>2, <1>3

\* The requests of a call are listed: none of its writes has an event yet.
LEMMA EventsListed ==
  ASSUME Called, TagsHeld, Lists, Works, NEW line, NEW cut, Events(line, cut),
         NEW u \in User, ListRequests(u)
  PROVE  Events(line, cut)'
<1>1. /\ step[u] = "append" /\ reqs' = [reqs EXCEPT ![Home[u]] = @ \o todo[u]] /\ UserNext(u)
      /\ starts' = starts /\ dpc' = dpc /\ done' = done /\ sent' = sent /\ landed' = landed /\ prog' = prog
  BY DEF ListRequests, dvars, svars, UserNext
<1>2. Home[u] \in Rank /\ todo[u] \in Seq(ReqType)  BY <1>1, TodoIs, BatchIs
<1>3. PICK k \in DOMAIN prog[u] : Mine(u) = <<u, k>> /\ Owns(prog[u], k, at[u])  BY <1>1, TodoWrites
<1>4. \A x \in DOMAIN todo[u] :
           \/ todo[u][x].kind = "ctrl"
           \/ \E j \in Piece(u) :
                /\ todo[u][x].kind = "send" /\ todo[u][x].w = <<<<u, k>>, j, starts[<<u, k>>]>>
                /\ Sending(Place(u))
  <2> TAKE x \in DOMAIN todo[u]
  <2>1. CASE todo[u][x].kind = "ctrl"  BY <2>1
  <2>2. CASE todo[u][x].kind # "ctrl"
    <3>1. PICK j \in Piece(u) : SendAt(u, x, j) /\ prog[u][at[u]] \in {"put", "start"}
      BY <1>1, <2>2, TodoIs
    <3>2. Sending(Place(u))  BY <1>1, <3>1, TodoWrites
    <3> QED BY <1>3, <3>1, <3>2 DEF SendAt
  <2> QED BY <2>1, <2>2
<1>5. /\ EventTypes /\ NoneAhead
      /\ \A v \in User : \A l \in DOMAIN prog[v] : NotSent(v, l)
      /\ \A p \in Pair : NotLanded(p) /\ AllExpected(line, cut, p)
  BY Zenon DEF Events
<1>6. NewRequests(todo[u])  BY <1>3, <1>4, <1>5 DEF NewRequests, NotSent
<1>7. \A s \in Rank : \A i \in DOMAIN reqs'[s] : SentIs(s, i)' /\ LandedIs(s, i)'
  BY <1>1, <1>2, <1>6, EventsAppend
<1>8. EventTypes' /\ NoneAhead'  BY <1>1, <1>5 DEF EventTypes, NoneAhead
<1>9. ASSUME NEW v \in User, NEW l \in DOMAIN prog'[v] PROVE NotSent(v, l)'
  <2> SUFFICES ASSUME Sending(Place(v))', Owns(prog[v], l, at[v])', NEW j \in Piece(v),
                      NEW w, w = <<<<v, l>>, j, starts[<<v, l>>]>>
               PROVE  sent[w] = 0 /\ ~ ListedAs(Home[v], "send", w)'
    BY <1>1 DEF NotSent
  <2>1. v # u
    <3>1. step'[u] = "begin"  BY CalledOver
    <3> QED BY <3>1 DEF Sending, Place
  <2>2. Place(v)' = Place(v) /\ at'[v] = at[v]  BY <1>1, <2>1, CalledOthers
  <2>3. sent[w] = 0 /\ ~ ListedAs(Home[v], "send", w)  BY <1>1, <1>5, <2>2 DEF NotSent
  <2>4. \A x \in DOMAIN todo[u] : todo[u][x].kind = "send" => todo[u][x].w # w  BY <1>4, <2>1
  <2>5. Home[v] \in Rank  BY BatchIs
  <2> QED BY <1>1, <1>2, <2>3, <2>4, <2>5, ListedAppend
<1>10. ASSUME NEW p \in Pair PROVE NotLanded(p)' /\ AllExpected(line, cut, p)'
  <2>1. p[2] \in Rank  BY DEF Pair
  <2>2. ASSUME NEW w, ~ ListedAs(p[2], "recv", w) PROVE ~ ListedAs(p[2], "recv", w)'
    <3>1. \A x \in DOMAIN todo[u] : todo[u][x].kind # "recv"  BY <1>4
    <3> QED BY <1>1, <1>2, <2>1, <2>2, <3>1, ListedAppend, ZenonT(40)
  <2>3. ASSUME NEW w, Awaited(p[2], w) PROVE Awaited(p[2], w)'
    BY <1>1, <1>2, <2>1, <2>3, ListedAppend
  <2>4. step'[u] # "sent"  BY CalledOver
  <2>5. Untold(p)' = Untold(p)  BY <1>1, <2>4, UntoldSame
  <2>6. NotLanded(p)'  BY <1>1, <1>5, <2>2, <2>5 DEF NotLanded
  <2>7. ASSUME NEW x \in DOMAIN line[p] PROVE Expects(p, line[p][x].w, x, cut[p][0])'
    <3>1. Expects(p, line[p][x].w, x, cut[p][0])  BY <1>5 DEF AllExpected
    <3> QED BY <1>1, <2>2, <2>3, <3>1 DEF Expects
  <2> QED BY <2>6, <2>7 DEF AllExpected
<1> QED BY <1>7, <1>8, <1>9, <1>10 DEF Events

\* Data of a put whose target was not told is of another write than what
\* the target knows of.
LEMMA UntoldApart ==
  ASSUME NEW line, Matched(line), NEW p \in Pair, NEW o \in Untold(p)
  PROVE  OnPair(p, o.w) /\ o.w \in Write /\ \A x \in DOMAIN line[p] : line[p][x].w # o.w
<1>1. \A x \in DOMAIN line[p] : line[p][x].w # o.w  BY DEF Matched, Lined, NotIn
<1>2. PICK v \in User : \E j \in Piece(v) :
           /\ Home[v] = p[1] /\ step[v] = "sent" /\ Batch[v][j] = p[2]
           /\ o = Op(v, at[v], j, 1, tags[v])
  BY UntoldIs
<1>3. PICK j \in Piece(v) : Batch[v][j] = p[2] /\ o = Op(v, at[v], j, 1, tags[v])  BY <1>2
<1>4. OnPair(p, o.w)  BY <1>2, <1>3 DEF OnPair, Op
<1>5. PICK k \in DOMAIN net[p] : net[p][k] = o  BY DEF Matched, Lined, LastIn
<1>6. o.w \in Write  BY <1>5 DEF Matched, Begun
<1> QED BY <1>1, <1>4, <1>6

\* What a request at r receives and what is on its way to r are on the same
\* pair when they are of the same write.
LEMMA SamePair ==
  ASSUME NEW p \in Pair, NEW q \in Pair, NEW w, OnPair(p, w), OnPair(q, w)
  PROVE  p = q
<1>1. p[1] = q[1] /\ p[2] = q[2]  BY DEF OnPair
<1>2. p = <<p[1], p[2]>> /\ q = <<q[1], q[2]>>  BY DEF Pair
<1> QED BY <1>1, <1>2

\* The new requests are in the list after an append.
LEMMA ReqsEnd ==
  ASSUME Lists, NEW r \in Rank, NEW A \in Seq(ReqType), reqs' = [reqs EXCEPT ![r] = @ \o A],
         NEW x \in DOMAIN A
  PROVE  \E i \in DOMAIN reqs'[r] : reqs'[r][i] = A[x]
<1>1. reqs[r] \in Seq(ReqType) /\ reqs \in [Rank -> Seq(ReqType)]  BY DEF Lists
<1>2. reqs'[r] = reqs[r] \o A  BY <1>1
<1>3. PICK N : N = reqs[r] \o A  OBVIOUS
<1>4. Len(reqs[r]) + x \in DOMAIN N /\ N[Len(reqs[r]) + x] = A[x]  BY <1>1, <1>3, Joined
<1> QED BY <1>2, <1>3, <1>4

\* The receives of a message are listed, and awaited from now on.
LEMMA EventsDrain ==
  ASSUME Called, Lists, Works, NEW tab, NEW line, NEW cut, Course(tab, line, cut),
         Matched(line), Events(line, cut), NEW r \in Rank, NEW s \in Rank,
         NEW T, NEW C, NEW R, DrainStep(tab, line, cut, r, s, T, C, R)
  PROVE  Events(line, C)'
<1>1. PICK p : p = <<s, r>>  OBVIOUS
<1>2. PICK L, c, d : L = line[p] /\ c = cut[p][0] /\ d = C[p][0]  OBVIOUS
<1>3. /\ Listing(L, c, d, R, s) /\ reqs' = [reqs EXCEPT ![r] = @ \o R] /\ dpc[r] = "drain"
      /\ \A q \in Pair : q # p => C[q] = cut[q]
      /\ UNCHANGED <<uvars, tagPool, idPool, net, dvars, svars>>
  BY <1>1, <1>2 DEF DrainStep
<1>4. /\ starts' = starts /\ dpc' = dpc /\ done' = done /\ sent' = sent /\ landed' = landed
      /\ prog' = prog /\ at' = at
      /\ \A v \in User : Place(v)' = Place(v)
      /\ \A q : Untold(q)' = Untold(q)
  BY <1>3, CalledSame DEF uvars, dvars, svars
<1>5. p \in Pair /\ NewReceives(L, c, d, R, r, s)  BY <1>1, <1>2, <1>3, ListingIs
<1>6. /\ R \in Seq(ReqType) /\ \A x \in DOMAIN R : NewReceive(L, c, d, R, r, s, x)
      /\ c \in Nat /\ d \in Nat /\ c <= d
      /\ \A x \in DOMAIN L : x > c /\ x <= d => x - c \in DOMAIN R
  BY <1>5 DEF NewReceives
<1>7. \A x \in DOMAIN R :
        /\ R[x].kind = "recv" /\ c + x \in DOMAIN L /\ c + x <= d /\ R[x].w = L[c + x].w /\ landed[R[x].w] = 0
  BY <1>6 DEF NewReceive
<1>8. /\ \A x \in DOMAIN L : OnPair(p, L[x].w) /\ x \in Nat
      /\ \A x, y \in DOMAIN L : L[x].w = L[y].w => x = y
  BY <1>2, <1>5, LineIs
<1>9. /\ EventTypes /\ NoneAhead
      /\ \A v \in User : \A l \in DOMAIN prog[v] : NotSent(v, l)
      /\ \A q \in Pair : NotLanded(q) /\ AllExpected(line, cut, q)
  BY Zenon DEF Events
<1>10. NewRequests(R)  BY <1>7 DEF NewRequests
<1>11. \A z \in Rank : \A i \in DOMAIN reqs'[z] : SentIs(z, i)' /\ LandedIs(z, i)'
  BY <1>3, <1>4, <1>6, <1>10, EventsAppend
<1>12. EventTypes' /\ NoneAhead'  BY <1>4, <1>9 DEF EventTypes, NoneAhead
<1>13. ASSUME NEW v \in User, NEW l \in DOMAIN prog'[v] PROVE NotSent(v, l)'
  <2> SUFFICES ASSUME Sending(Place(v)), Owns(prog[v], l, at[v]), NEW j \in Piece(v),
                      NEW w, w = <<<<v, l>>, j, starts[<<v, l>>]>>
               PROVE  sent[w] = 0 /\ ~ ListedAs(Home[v], "send", w)'
    BY <1>4 DEF NotSent
  <2>1. sent[w] = 0 /\ ~ ListedAs(Home[v], "send", w)  BY <1>4, <1>9 DEF NotSent
  <2>2. \A x \in DOMAIN R : R[x].kind = "send" => R[x].w # w  BY <1>7
  <2>3. Home[v] \in Rank  BY BatchIs
  <2> QED BY <1>3, <1>4, <1>6, <2>1, <2>2, <2>3, ListedAppend
<1>14. ASSUME NEW q \in Pair, NEW w, ~ ListedAs(q[2], "recv", w), OnPair(q, w),
              q = p => \A x \in DOMAIN L : x <= d => L[x].w # w
       PROVE  ~ ListedAs(q[2], "recv", w)'
  <2>1. q[2] \in Rank  BY DEF Pair
  <2>2. ASSUME NEW x \in DOMAIN R, R[x].w = w PROVE FALSE
    <3>1. c + x \in DOMAIN L /\ c + x <= d /\ L[c + x].w = w  BY <1>7, <2>2
    <3>2. q = p  BY <1>5, <1>8, <1>14, <3>1, SamePair
    <3> QED BY <1>14, <3>1, <3>2
  <2> QED BY <1>3, <1>4, <1>6, <1>14, <2>1, <2>2, ListedAppend
<1>15. ASSUME NEW q \in Pair, NEW w, Awaited(q[2], w) PROVE Awaited(q[2], w)'
  <2>1. q[2] \in Rank  BY DEF Pair
  <2> QED BY <1>3, <1>4, <1>6, <1>15, <2>1, ListedAppend
<1>16. ASSUME NEW q \in Pair PROVE NotLanded(q)'
  <2> SUFFICES ASSUME NEW o \in Untold(q)
               PROVE  landed[o.w] = 0 /\ ~ ListedAs(q[2], "recv", o.w)'
    BY <1>4 DEF NotLanded
  <2>1. landed[o.w] = 0 /\ ~ ListedAs(q[2], "recv", o.w)  BY <1>9 DEF NotLanded
  <2>2. OnPair(q, o.w) /\ \A x \in DOMAIN line[q] : line[q][x].w # o.w  BY UntoldApart
  <2> QED BY <1>2, <1>14, <2>1, <2>2
<1>17. ASSUME NEW x \in DOMAIN L, x > c, x <= d PROVE Awaited(r, L[x].w)'
  <2>1. PICK y : y \in DOMAIN R /\ y = x - c  BY <1>6, <1>17
  <2>2. c + y = x  BY <1>6, <1>8, <2>1
  <2>3. R[y].kind = "recv" /\ R[y].w = L[x].w  BY <1>7, <2>1, <2>2
  <2>4. \E i \in DOMAIN reqs'[r] : reqs'[r][i] = R[y]  BY <1>3, <1>6, <2>1, ReqsEnd
  <2>5. Worked(r)' = {}
    <3>1. done'[r] = <<>>  BY <1>3, <1>4 DEF Works, WorksOf, Phase
    <3> QED BY <3>1 DEF Worked
  <2> QED BY <2>3, <2>4, <2>5 DEF Awaited
<1>18. ASSUME NEW q \in Pair PROVE AllExpected(line, C, q)'
  <2> SUFFICES ASSUME NEW x \in DOMAIN line[q] PROVE Expects(q, line[q][x].w, x, C[q][0])'
    BY DEF AllExpected
  <2>1. Expects(q, line[q][x].w, x, cut[q][0])  BY <1>9 DEF AllExpected
  <2>2. OnPair(q, line[q][x].w)  BY LineIs
  <2>3. CASE q # p
    <3>1. C[q] = cut[q]  BY <1>3, <2>3
    <3>2. x > C[q][0] => ~ ListedAs(q[2], "recv", line[q][x].w)'
      BY <1>14, <2>1, <2>2, <2>3, <3>1 DEF Expects
    <3>3. x <= C[q][0] => Awaited(q[2], line[q][x].w)'  BY <1>15, <2>1, <3>1 DEF Expects
    <3> QED BY <1>4, <2>1, <3>2, <3>3 DEF Expects
  <2>4. CASE q = p
    <3>1. x \in DOMAIN L /\ x \in Nat /\ L[x] = line[q][x] /\ q[2] = r /\ C[q][0] = d
      BY <1>1, <1>2, <1>8, <2>4
    <3>2. ASSUME x > d PROVE ~ ListedAs(q[2], "recv", L[x].w)'
      <4>1. x > c  BY <1>6, <3>1, <3>2
      <4>2. ~ ListedAs(q[2], "recv", L[x].w)  BY <1>2, <2>1, <2>4, <3>1, <4>1 DEF Expects
      <4>3. \A y \in DOMAIN L : y <= d => L[y].w # L[x].w  BY <1>6, <1>8, <3>1, <3>2
      <4> QED BY <1>14, <2>2, <3>1, <4>2, <4>3
    <3>3. ASSUME x <= d PROVE Awaited(q[2], L[x].w)'
      <4>1. CASE x <= c  BY <1>2, <1>15, <2>1, <2>4, <3>1, <4>1 DEF Expects
      <4>2. CASE x > c  BY <1>17, <3>1, <3>3, <4>2
      <4> QED BY <1>6, <3>1, <4>1, <4>2
    <3> QED BY <1>4, <2>1, <3>1, <3>2, <3>3 DEF Expects
  <2> QED BY <2>3, <2>4
<1> QED BY <1>11, <1>12, <1>13, <1>16, <1>18 DEF Events

\* The first receives to come are posted, after a step.
LEMMA CutNext ==
  ASSUME NEW tab, NEW line, NEW cut, Course(tab, line, cut)', NEW p \in Pair
  PROVE  line[p] \in Seq(OpType) /\ cut[p][0] \in 0..Len(line[p])
<1>1. PICK q, P, t : q = ctrl'[p] /\ P = posted'[p] /\ t = slot'[p]  OBVIOUS
<1>2. OnCourse(tab[p], line[p], cut[p], q, P, t)  BY <1>1 DEF Course
<1>3. line[p] \in Seq(OpType) /\ q \in Seq(MsgType) /\ cut[p] \in [0..Len(q) -> 0..Len(line[p])]
  BY <1>2 DEF OnCourse
<1>4. 0 \in 0..Len(q)  BY <1>3
<1> QED BY <1>3, <1>4

\* A complete receive had its data: it is no longer awaited.
LEMMA TestedWas ==
  ASSUME Called, Lists, NEW tab, NEW line, NEW cut, Course(tab, line, cut), Matched(line),
         NEW r \in Rank, NEW D \in SUBSET Complete(r), NEW p \in Pair, p[2] = r,
         NEW y \in DOMAIN line[p], NEW i \in D, reqs[r][i].kind = "recv", reqs[r][i].w = line[p][y].w
  PROVE  y \in {im[1] : im \in OverPairs(r, D, p)}
<1>1. i \in DOMAIN reqs[r] /\ CanComplete(r, reqs[r][i])  BY DEF Complete
<1>2. PICK e : e = reqs[r][i]  OBVIOUS
<1>3. MatesOf(r, e) # {}  BY <1>1, <1>2 DEF CanComplete
<1>4. reqs[r][i] \in ReqType  BY <1>1 DEF Lists
<1>5. e.peer \in Rank /\ ForRank(r, e)  BY <1>1, <1>2, <1>4 DEF ReqType, Lists
<1>6. <<e.peer, r>> \in Pair /\ OnPair(<<e.peer, r>>, e.w)  BY <1>2, <1>5 DEF Pair, ForRank
<1>7. OnPair(p, e.w)  BY <1>2, LineIs
<1>8. p = <<e.peer, r>>  BY <1>6, <1>7, SamePair
<1>9. PICK im \in MatesOf(r, e) : TRUE  BY <1>3
<1>10. im \in Mates(p) /\ posted[p][im[1]].w = e.w  BY <1>8, <1>9 DEF MatesOf
<1>11. im[1] \in DOMAIN line[p] /\ line[p][im[1]] = net[p][im[2]] /\ posted[p][im[1]] = net[p][im[2]]
  BY <1>10, MatesOwn
<1>12. im[1] = y  BY <1>2, <1>10, <1>11, LineIs
<1>13. im \in OverPairs(r, D, p)
  <2>1. e.peer = p[1]  BY <1>8
  <2>2. i \in {j \in D : reqs[r][j].kind = "recv" /\ reqs[r][j].peer = p[1]}  BY <1>2, <2>1
  <2> QED BY <1>2, <1>9, <2>2 DEF OverPairs
<1> QED BY <1>12, <1>13

\* Receives that a test completes are due no more: they are worked on.
LEMMA EventsTest ==
  ASSUME Called, Lists, Works, NEW tab, NEW line, NEW cut, Course(tab, line, cut), Matched(line),
         Events(line, cut), NEW r \in Rank, Test(r)
  PROVE  \E L, C : Course(tab, L, C)' /\ Matched(L)' /\ Events(L, C)'
<1>1. PICK D \in SUBSET Complete(r) :
            /\ D # {}
            /\ done' = [done EXCEPT ![r] = [n \in 1..Cardinality(D) |->
                          [idx |-> Ordered(D)[n], req |-> reqs[r][Ordered(D)[n]]]]]
            /\ posted' = [p \in Pair |-> Without(posted[p], {im[1] : im \in OverPairs(r, D, p)})]
            /\ net' = [p \in Pair |-> Without(net[p], {im[2] : im \in OverPairs(r, D, p)})]
            /\ dpc' = [dpc EXCEPT ![r] =
                 IF \E i \in D : reqs[r][i].kind \in {"send", "recv"} THEN "signal" ELSE "remove"]
  BY TestIs
<1>2. /\ dpc[r] = "drain" /\ UNCHANGED <<uvars, tagPool, idPool, ctrl, slot, reqs, svars>>
  BY TestIs
<1>3. /\ reqs' = reqs /\ sent' = sent /\ landed' = landed /\ starts' = starts /\ prog' = prog /\ at' = at
      /\ \A v \in User : Place(v)' = Place(v)
      /\ \A q : Untold(q)' = Untold(q)
  BY <1>2, CalledSame DEF uvars, svars
<1>4. D \in SUBSET (DOMAIN reqs[r])  BY DEF Complete
<1>5. /\ \A s \in Rank \ {r} : done'[s] = done[s]
      /\ \A n \in DOMAIN done'[r] : done'[r][n].idx \in D
      /\ \A i : ~ OverAt(r, i)'
  BY <1>1, <1>4, TestDone
<1>6. PICK L, C :
         /\ Course(tab, L, C)' /\ Matched(L)'
         /\ \A p \in Pair : \E f :
              /\ Thinned(L[p], line[p], {im[1] : im \in OverPairs(r, D, p)}, f)
              /\ Firsts(L[p], f, C[p][0], cut[p][0])
  BY <1>1, <1>2, TestMoves
<1>7. /\ EventTypes /\ NoneAhead
      /\ \A s \in Rank : \A i \in DOMAIN reqs[s] : SentIs(s, i) /\ LandedIs(s, i)
      /\ \A v \in User : \A l \in DOMAIN prog[v] : NotSent(v, l)
      /\ \A q \in Pair : NotLanded(q) /\ AllExpected(line, cut, q)
  BY Zenon DEF Events
<1>8. EventTypes' /\ NoneAhead'  BY <1>3, <1>7 DEF EventTypes, NoneAhead
<1>9. \A s \in Rank : \A i \in DOMAIN reqs[s] : (OverAt(s, i)' <=> OverAt(s, i)) /\ (Releasing(s, i)' <=> Releasing(s, i))
  <2> TAKE s \in Rank
  <2> TAKE i \in DOMAIN reqs[s]
  <2>1. CASE s = r
    <3>1. done[r] = <<>>  BY <1>2 DEF Works, WorksOf, Phase
    <3>2. ~ OverAt(r, i)  BY <3>1 DEF OverAt
    <3>3. dpc'[r] \in {"signal", "remove"}
      BY <1>1 DEF Works, WorkTypes
    <3> QED BY <1>2, <1>5, <2>1, <3>2, <3>3 DEF Releasing
  <2>2. CASE s # r
    <3>1. done'[s] = done[s] /\ dpc'[s] = dpc[s]
      BY <1>1, <1>5, <2>2 DEF Works
    <3> QED BY <3>1 DEF OverAt, Releasing, Current, Pending
  <2> QED BY <2>1, <2>2
<1>10. ASSUME NEW s \in Rank, NEW i \in DOMAIN reqs'[s] PROVE SentIs(s, i)' /\ LandedIs(s, i)'
  <2>1. SentIs(s, i) /\ LandedIs(s, i) /\ (OverAt(s, i)' <=> OverAt(s, i)) /\ (Releasing(s, i)' <=> Releasing(s, i))
    BY <1>3, <1>7, <1>9
  <2> QED BY <1>3, <2>1, Zenon DEF SentIs, LandedIs
<1>11. \A s, w : \A kind : ListedAs(s, kind, w)' <=> ListedAs(s, kind, w)  BY <1>3 DEF ListedAs
<1>12. ASSUME NEW v \in User, NEW l \in DOMAIN prog'[v] PROVE NotSent(v, l)'
  BY <1>3, <1>7, <1>11 DEF NotSent
<1>13. ASSUME NEW p \in Pair PROVE NotLanded(p)' /\ AllExpected(L, C, p)'
  <2>1. NotLanded(p)'  BY <1>3, <1>7, <1>11 DEF NotLanded
  <2>2. PICK f : /\ Thinned(L[p], line[p], {im[1] : im \in OverPairs(r, D, p)}, f)
                 /\ Firsts(L[p], f, C[p][0], cut[p][0])
    BY <1>6
  <2>3. PICK I : I = {im[1] : im \in OverPairs(r, D, p)}  OBVIOUS
  <2>4. /\ \A x \in DOMAIN L[p] : f[x] \in DOMAIN line[p] /\ f[x] \notin I /\ L[p][x] = line[p][f[x]]
    BY <2>2, <2>3 DEF Thinned
  <2>5. line[p] \in Seq(OpType) /\ cut[p][0] \in Nat /\ \A y \in DOMAIN line[p] : y \in Nat
    <3>1. line[p] \in Seq(OpType) /\ cut[p][0] \in 0..Len(line[p])  BY CutIs
    <3> QED BY <3>1
  <2>6. C[p][0] \in Nat /\ \A x \in DOMAIN L[p] : x \in Nat
    <3>1. L[p] \in Seq(OpType) /\ C[p][0] \in 0..Len(L[p])  BY <1>6, CutNext
    <3> QED BY <3>1
  <2> SUFFICES ASSUME NEW x \in DOMAIN L[p], NEW y, y = f[x], NEW w, w = line[p][y].w
               PROVE  Expects(p, w, x, C[p][0])'
    BY <2>1, <2>4 DEF AllExpected
  <2>7. y \in DOMAIN line[p] /\ y \notin I  BY <2>4
  <2>8. Expects(p, w, y, cut[p][0])  BY <1>7, <2>7 DEF AllExpected
  <2>9. IF x <= C[p][0] THEN y <= cut[p][0] ELSE y > cut[p][0]  BY <2>2, <2>5, <2>6, <2>7 DEF Firsts
  <2>10. ASSUME Awaited(p[2], w) PROVE Awaited(p[2], w)'
    <3>1. PICK i \in DOMAIN reqs[p[2]] : reqs[p[2]][i].kind = "recv" /\ reqs[p[2]][i].w = w /\ i \notin Worked(p[2])
      BY <2>10 DEF Awaited
    <3>2. i \notin Worked(p[2])'
      <4>1. CASE p[2] = r
        <5>1. i \notin D  BY <2>3, <2>7, <3>1, <4>1, TestedWas
        <5> QED BY <1>5, <4>1, <5>1 DEF Worked
      <4>2. CASE p[2] # r
        <5>1. p[2] \in Rank  BY DEF Pair
        <5>2. done'[p[2]] = done[p[2]]  BY <1>5, <4>2, <5>1
        <5> QED BY <3>1, <5>2 DEF Worked
      <4> QED BY <4>1, <4>2
    <3> QED BY <1>3, <3>1, <3>2 DEF Awaited
  <2>11. landed'[w] = 0  BY <1>3, <2>8 DEF Expects
  <2>12. ASSUME x > C[p][0] PROVE ~ ListedAs(p[2], "recv", w)'
    BY <1>11, <2>6, <2>8, <2>9, <2>12 DEF Expects
  <2>13. ASSUME x <= C[p][0] PROVE Awaited(p[2], w)'  BY <2>8, <2>9, <2>10, <2>13 DEF Expects
  <2> QED BY <2>11, <2>12, <2>13 DEF Expects
<1>14. Events(L, C)'  BY <1>8, <1>10, <1>12, <1>13 DEF Events
<1> QED BY <1>6, <1>14

\* The request the daemon works on is of a write begun, on its own rank.
LEMMA HandledIs ==
  ASSUME Lists, Works, NEW r \in Rank, dpc[r] \in {"signal", "release"}
  PROVE  \E x, w : HandledNow(r, x, w)
<1>1. PICK n, x, e : n = Current(r) /\ e = done[r][n].req /\ x = done[r][n].idx  OBVIOUS
<1>2. /\ n \in DOMAIN done[r] /\ n \in Pending(r) /\ x \in DOMAIN reqs[r]
      /\ e.kind \in {"send", "recv"} /\ e.kind = reqs[r][x].kind
      /\ e.w = reqs[r][x].w /\ ~ OverAt(r, x)
  BY <1>1, CurrentIs
<1>3. PICK w : w = e.w  OBVIOUS
<1>4. ForRank(r, reqs[r][x])  BY <1>2 DEF Lists
<1>5. /\ Begun(w) /\ w \in Write
      /\ reqs[r][x].kind = "send" => Home[w[1][1]] = r
      /\ reqs[r][x].kind = "recv" => Batch[w[1][1]][w[2]] = r
  <2>1. CASE e.kind = "send"  BY <1>2, <1>3, <1>4, <2>1 DEF ForRank, Begun, OnPair
  <2>2. CASE e.kind = "recv"  BY <1>2, <1>3, <1>4, <2>2 DEF ForRank, Begun, OnPair
  <2> QED BY <1>2, <2>1, <2>2
<1>6. ASSUME NEW s \in Rank, NEW i \in DOMAIN reqs[s], reqs[s][i].kind = reqs[r][x].kind, reqs[s][i].w = w
      PROVE  s = r /\ i = x
  <2>1. ForRank(s, reqs[s][i])  BY DEF Lists
  <2>2. s = r
    <3>1. CASE e.kind = "send"  BY <1>2, <1>5, <1>6, <2>1, <3>1 DEF ForRank, OnPair
    <3>2. CASE e.kind = "recv"  BY <1>2, <1>5, <1>6, <2>1, <3>2 DEF ForRank, OnPair
    <3> QED BY <1>2, <3>1, <3>2
  <2>3. Alike(reqs[r][x], reqs[r][i])  BY <1>2, <1>3, <1>6, <2>2 DEF Alike
  <2> QED BY <1>2, <2>2, <2>3 DEF Lists
<1>7. x \in Worked(r)  BY <1>1, <1>2 DEF Worked
<1>8. HandledNow(r, x, w)  BY <1>1, <1>2, <1>3, <1>5, <1>6, <1>7, Zenon DEF HandledNow
<1> QED BY <1>8

\* The event of a send is given with its signal.
LEMMA EventsSent ==
  ASSUME Called, Lists, Works, NEW line, NEW cut, Events(line, cut), NEW r \in Rank, Signal(r),
         NEW x, NEW w, HandledNow(r, x, w), reqs[r][x].kind = "send"
  PROVE  Events(line, cut)'
<1>1. /\ dpc[r] = "signal" /\ UNCHANGED <<uvars, reqs>>
      /\ sent' = [sent EXCEPT ![w] = @ + 1] /\ dpc' = [dpc EXCEPT ![r] = "release"]
      /\ done' = done /\ landed' = landed
  BY SignalIs, Zenon DEF HandledNow
<1>2. /\ starts' = starts /\ prog' = prog /\ at' = at /\ reqs' = reqs
      /\ \A v \in User : Place(v)' = Place(v)
      /\ \A q : Untold(q)' = Untold(q)
  BY <1>1, CalledSame DEF uvars
<1>3. /\ EventTypes /\ NoneAhead
      /\ \A s \in Rank : \A i \in DOMAIN reqs[s] : SentIs(s, i) /\ LandedIs(s, i)
      /\ \A v \in User : \A l \in DOMAIN prog[v] : NotSent(v, l)
      /\ \A q \in Pair : NotLanded(q) /\ AllExpected(line, cut, q)
  BY Zenon DEF Events
<1>4. sent[w] = 0
  <2>1. ~ Releasing(r, x)  BY <1>1 DEF Releasing
  <2>2. SentIs(r, x) /\ sent[w] \in {0, 1}  BY <1>3 DEF HandledNow, EventTypes
  <2> QED BY <2>1, <2>2 DEF SentIs, HandledNow
<1>5. sent'[w] = 1 /\ sent' \in [Write -> {0, 1}] /\ \A z \in Write : z # w => sent'[z] = sent[z]
  BY <1>1, <1>3, <1>4 DEF HandledNow, EventTypes
<1>6. EventTypes'  BY <1>1, <1>3, <1>5 DEF EventTypes
<1>7. NoneAhead'
  <2>1. ~ (w[3] > starts[w[1]])
    <3>1. w[3] <= starts[w[1]] /\ w[3] \in Nat /\ starts[w[1]] \in Nat
      BY WriteIs DEF HandledNow, Begun, Called
    <3> QED BY <3>1
  <2> QED BY <1>1, <1>2, <1>3, <1>5, <2>1 DEF NoneAhead
<1>8. \A s, i : OverAt(s, i)' <=> OverAt(s, i)  BY <1>1 DEF OverAt
<1>9. \A s \in Rank : \A i : Releasing(s, i)' <=> (Releasing(s, i) \/ (s = r /\ i = x))
  <2> TAKE s \in Rank
  <2>1. CASE s = r
    <3>1. dpc'[r] = "release" /\ Current(r)' = Current(r)
      BY <1>1 DEF Works, Current, Pending, WorkTypes
    <3> QED BY <1>1, <2>1, <3>1 DEF Releasing, HandledNow
  <2>2. CASE s # r
    <3>1. dpc'[s] = dpc[s] /\ Current(s)' = Current(s)
      BY <1>1, <2>2 DEF Works, Current, Pending
    <3> QED BY <1>1, <2>2, <3>1 DEF Releasing
  <2> QED BY <2>1, <2>2
<1>10. ASSUME NEW s \in Rank, NEW i \in DOMAIN reqs'[s] PROVE SentIs(s, i)' /\ LandedIs(s, i)'
  <2>1. SentIs(s, i) /\ LandedIs(s, i) /\ i \in DOMAIN reqs[s]  BY <1>2, <1>3
  <2>2. LandedIs(s, i)'  BY <1>1, <1>2, <1>8, <2>1, Zenon DEF LandedIs
  <2>3. CASE s = r /\ i = x
    <3>1. Releasing(s, i)' /\ sent'[w] = 1 /\ reqs'[s][i].w = w
      BY <1>2, <1>5, <1>9, <2>3 DEF HandledNow
    <3> QED BY <2>2, <3>1 DEF SentIs
  <2>4. CASE ~ (s = r /\ i = x)
    <3>1. OverAt(s, i)' <=> OverAt(s, i)  BY <1>8
    <3>2. Releasing(s, i)' <=> Releasing(s, i)  BY <1>9, <2>4
    <3>3. ASSUME reqs[s][i].kind = "send"
          PROVE  sent'[reqs[s][i].w] = sent[reqs[s][i].w]
      <4>1. reqs[s][i].w # w  BY <2>1, <2>4, <3>3 DEF HandledNow
      <4>2. reqs[s][i].w \in Write  BY <2>1, <3>3 DEF Lists, Begun, ForRank
      <4> QED BY <1>5, <4>1, <4>2
    <3>4. SentIs(s, i)'  BY <1>2, <2>1, <3>1, <3>2, <3>3, Zenon DEF SentIs
    <3> QED BY <2>2, <3>4
  <2> QED BY <2>3, <2>4
<1>11. \A s, z : \A kind : ListedAs(s, kind, z)' <=> ListedAs(s, kind, z)  BY <1>2 DEF ListedAs
<1>12. ASSUME NEW v \in User, NEW l \in DOMAIN prog'[v] PROVE NotSent(v, l)'
  <2> SUFFICES ASSUME Sending(Place(v)), Owns(prog[v], l, at[v]), NEW j \in Piece(v),
                      NEW z, z = <<<<v, l>>, j, starts[<<v, l>>]>>
               PROVE  sent'[z] = 0 /\ ~ ListedAs(Home[v], "send", z)'
    BY <1>2 DEF NotSent
  <2>1. sent[z] = 0 /\ ~ ListedAs(Home[v], "send", z)  BY <1>2, <1>3 DEF NotSent
  <2>2. z # w
    <3>1. ASSUME z = w PROVE FALSE
      <4>1. Home[v] = r  BY <3>1 DEF HandledNow
      <4> QED BY <2>1, <3>1, <4>1 DEF HandledNow, ListedAs
    <3> QED BY <3>1
  <2>3. sent'[z] = sent[z]  BY <1>1, <1>3, <2>2 DEF EventTypes
  <2> QED BY <1>11, <2>1, <2>3
<1>13. \A s, z : Awaited(s, z)' <=> Awaited(s, z)  BY <1>1, <1>2 DEF Awaited, Worked
<1>14. ASSUME NEW p \in Pair PROVE NotLanded(p)' /\ AllExpected(line, cut, p)'
  <2>1. NotLanded(p)'  BY <1>1, <1>2, <1>3, <1>11 DEF NotLanded
  <2>2. AllExpected(line, cut, p)'  BY <1>1, <1>3, <1>11, <1>13 DEF AllExpected, Expects
  <2> QED BY <2>1, <2>2
<1> QED BY <1>6, <1>7, <1>10, <1>12, <1>14 DEF Events

\* The current request is done with: what changes for OverAt.
LEMMA OverMoves ==
  ASSUME Works, NEW r \in Rank, dpc[r] \in {"signal", "release"}, done' = Over(r),
         dpc' = [dpc EXCEPT ![r] = AfterRequest(r)], reqs' = reqs,
         NEW x, NEW w, HandledNow(r, x, w)
  PROVE  /\ \A s \in Rank : \A i : OverAt(s, i)' <=> (OverAt(s, i) \/ (s = r /\ i = x))
         /\ \A i : ~ Releasing(r, i)'
         /\ \A s \in Rank : s # r => \A i : Releasing(s, i)' <=> Releasing(s, i)
         /\ \A s \in Rank : Worked(s)' = Worked(s)
         /\ \A s \in Rank : \A z : Awaited(s, z)' <=> Awaited(s, z)
         /\ \A s, z : \A kind : ListedAs(s, kind, z)' <=> ListedAs(s, kind, z)
<1>1. /\ DOMAIN done'[r] = DOMAIN done[r]
      /\ \A n \in DOMAIN done[r] : done'[r][n].idx = done[r][n].idx
      /\ \A s \in Rank \ {r} : done'[s] = done[s]
      /\ \A i : OverAt(r, i)' <=> OverAt(r, i) \/ i = x
  BY OverIs DEF HandledNow
<1>2. \A s \in Rank : \A i : OverAt(s, i)' <=> (OverAt(s, i) \/ (s = r /\ i = x))
  <2> TAKE s \in Rank
  <2>1. CASE s = r  BY <1>1, <2>1
  <2>2. CASE s # r  BY <1>1, <2>2 DEF OverAt
  <2> QED BY <2>1, <2>2
<1>3. dpc'[r] # "release"
  BY DEF Works, AfterRequest, WorkTypes
<1>4. \A i : ~ Releasing(r, i)'  BY <1>3 DEF Releasing
<1>5. ASSUME NEW s \in Rank, s # r PROVE \A i : Releasing(s, i)' <=> Releasing(s, i)
  <2>1. dpc'[s] = dpc[s] /\ done'[s] = done[s]
    BY <1>1, <1>5 DEF Works
  <2> QED BY <2>1 DEF Releasing, Current, Pending
<1>6. ASSUME NEW s \in Rank PROVE Worked(s)' = Worked(s)
  <2>1. CASE s = r  BY <1>1, <2>1 DEF Worked
  <2>2. CASE s # r  BY <1>1, <2>2 DEF Worked
  <2> QED BY <2>1, <2>2
<1>7. \A s \in Rank : \A z : Awaited(s, z)' <=> Awaited(s, z)  BY <1>6 DEF Awaited
<1>8. \A s, z : \A kind : ListedAs(s, kind, z)' <=> ListedAs(s, kind, z)  BY DEF ListedAs
<1> QED BY <1>2, <1>4, <1>5, <1>6, <1>7, <1>8

\* The event of a receive is given with its signal.
LEMMA EventsLanded ==
  ASSUME Called, Lists, Works, NEW tab, NEW line, NEW cut, Course(tab, line, cut), Matched(line),
         Events(line, cut), NEW r \in Rank, Signal(r),
         NEW x, NEW w, HandledNow(r, x, w), reqs[r][x].kind = "recv"
  PROVE  Events(line, cut)'
<1>1. /\ dpc[r] = "signal" /\ UNCHANGED <<uvars, reqs>>
      /\ landed' = [landed EXCEPT ![w] = @ + 1] /\ dpc' = [dpc EXCEPT ![r] = AfterRequest(r)]
      /\ done' = Over(r) /\ sent' = sent
  BY SignalIs, Zenon DEF HandledNow
<1>2. /\ starts' = starts /\ prog' = prog /\ at' = at /\ reqs' = reqs
      /\ \A v \in User : Place(v)' = Place(v)
      /\ \A q : Untold(q)' = Untold(q)
  BY <1>1, CalledSame DEF uvars
<1>3. /\ EventTypes /\ NoneAhead
      /\ \A s \in Rank : \A i \in DOMAIN reqs[s] : SentIs(s, i) /\ LandedIs(s, i)
      /\ \A v \in User : \A l \in DOMAIN prog[v] : NotSent(v, l)
      /\ \A q \in Pair : NotLanded(q) /\ AllExpected(line, cut, q)
  BY Zenon DEF Events
<1>4. landed[w] = 0
  <2>1. LandedIs(r, x) /\ landed[w] \in {0, 1}  BY <1>3 DEF HandledNow, EventTypes
  <2> QED BY <2>1 DEF LandedIs, HandledNow
<1>5. landed'[w] = 1 /\ landed' \in [Write -> {0, 1}] /\ \A z \in Write : z # w => landed'[z] = landed[z]
  BY <1>1, <1>3, <1>4 DEF HandledNow, EventTypes
<1>6. EventTypes'  BY <1>1, <1>3, <1>5 DEF EventTypes
<1>7. NoneAhead'
  <2>1. ~ (w[3] > starts[w[1]])
    <3>1. w[3] <= starts[w[1]] /\ w[3] \in Nat /\ starts[w[1]] \in Nat
      BY WriteIs DEF HandledNow, Begun, Called
    <3> QED BY <3>1
  <2> QED BY <1>1, <1>2, <1>3, <1>5, <2>1 DEF NoneAhead
<1>8. /\ \A s \in Rank : \A i : OverAt(s, i)' <=> (OverAt(s, i) \/ (s = r /\ i = x))
      /\ \A i : ~ Releasing(r, i)'
      /\ \A s \in Rank : s # r => \A i : Releasing(s, i)' <=> Releasing(s, i)
      /\ \A s \in Rank : \A z : Awaited(s, z)' <=> Awaited(s, z)
      /\ \A s, z : \A kind : ListedAs(s, kind, z)' <=> ListedAs(s, kind, z)
  BY <1>1, <1>2, OverMoves
<1>9. \A i : ~ Releasing(r, i)  BY <1>1 DEF Releasing
<1>10. ASSUME NEW s \in Rank, NEW i \in DOMAIN reqs'[s] PROVE SentIs(s, i)' /\ LandedIs(s, i)'
  <2>1. SentIs(s, i) /\ LandedIs(s, i) /\ i \in DOMAIN reqs[s]  BY <1>2, <1>3
  <2>2. CASE s = r /\ i = x
    <3>1. OverAt(s, i)' /\ landed'[w] = 1 /\ reqs'[s][i].w = w /\ reqs'[s][i].kind = "recv"
      BY <1>2, <1>5, <1>8, <2>2 DEF HandledNow
    <3> QED BY <3>1 DEF SentIs, LandedIs
  <2>3. CASE ~ (s = r /\ i = x)
    <3>1. OverAt(s, i)' <=> OverAt(s, i)  BY <1>8, <2>3
    <3>2. Releasing(s, i)' <=> Releasing(s, i)  BY <1>8, <1>9
    <3>3. ASSUME reqs[s][i].kind = "recv"
          PROVE  landed'[reqs[s][i].w] = landed[reqs[s][i].w]
      <4>1. reqs[s][i].w # w  BY <2>1, <2>3, <3>3 DEF HandledNow
      <4>2. reqs[s][i].w \in Write  BY <2>1, <3>3 DEF Lists, Begun, ForRank
      <4> QED BY <1>5, <4>1, <4>2
    <3>4. LandedIs(s, i)'  BY <1>2, <2>1, <3>1, <3>3, Zenon DEF LandedIs
    <3>5. SentIs(s, i)'  BY <1>1, <1>2, <2>1, <3>1, <3>2, Zenon DEF SentIs
    <3> QED BY <3>4, <3>5
  <2> QED BY <2>2, <2>3
<1>11. ASSUME NEW v \in User, NEW l \in DOMAIN prog'[v] PROVE NotSent(v, l)'
  BY <1>1, <1>2, <1>3, <1>8 DEF NotSent
<1>12. ASSUME NEW p \in Pair, OnPair(p, w) PROVE p[2] = r  BY <1>12 DEF HandledNow, OnPair
<1>13. ListedAs(r, "recv", w) /\ ~ Awaited(r, w)  BY DEF HandledNow, ListedAs, Awaited
<1>14. ASSUME NEW p \in Pair PROVE NotLanded(p)' /\ AllExpected(line, cut, p)'
  <2>1. NotLanded(p)'
    <3> SUFFICES ASSUME NEW o \in Untold(p)
                 PROVE  landed'[o.w] = 0 /\ ~ ListedAs(p[2], "recv", o.w)'
      BY <1>2 DEF NotLanded
    <3>1. landed[o.w] = 0 /\ ~ ListedAs(p[2], "recv", o.w)  BY <1>3 DEF NotLanded
    <3>2. OnPair(p, o.w) /\ o.w \in Write  BY UntoldApart
    <3>3. o.w # w  BY <1>12, <1>13, <3>1, <3>2
    <3>4. p[2] \in Rank  BY DEF Pair
    <3> QED BY <1>5, <1>8, <3>1, <3>2, <3>3, <3>4
  <2>2. AllExpected(line, cut, p)'
    <3> SUFFICES ASSUME NEW y \in DOMAIN line[p] PROVE Expects(p, line[p][y].w, y, cut[p][0])'
      BY DEF AllExpected
    <3>1. Expects(p, line[p][y].w, y, cut[p][0])  BY <1>3 DEF AllExpected
    <3>2. OnPair(p, line[p][y].w) /\ line[p][y].w \in Write  BY LineIs
    <3>3. line[p][y].w # w
      <4>1. y > cut[p][0] \/ y <= cut[p][0]
        <5>1. line[p] \in Seq(OpType) /\ cut[p][0] \in 0..Len(line[p])  BY CutIs
        <5>2. y \in Nat /\ cut[p][0] \in Nat  BY <5>1
        <5> QED BY <5>2
      <4> QED BY <1>12, <1>13, <3>1, <3>2, <4>1 DEF Expects
    <3>4. p[2] \in Rank  BY DEF Pair
    <3> QED BY <1>5, <1>8, <3>1, <3>2, <3>3, <3>4 DEF Expects
  <2> QED BY <2>1, <2>2
<1> QED BY <1>6, <1>7, <1>10, <1>11, <1>14 DEF Events

\* A release gives no event.
LEMMA EventsRelease ==
  ASSUME Called, Lists, Works, NEW line, NEW cut, Events(line, cut), NEW r \in Rank, Release(r)
  PROVE  Events(line, cut)'
<1>1. /\ dpc[r] = "release" /\ UNCHANGED <<uvars, reqs>>
      /\ dpc' = [dpc EXCEPT ![r] = AfterRequest(r)]
      /\ done' = Over(r) /\ sent' = sent /\ landed' = landed
  BY DEF Release, svars
<1>2. /\ starts' = starts /\ prog' = prog /\ at' = at /\ reqs' = reqs
      /\ \A v \in User : Place(v)' = Place(v)
      /\ \A q : Untold(q)' = Untold(q)
  BY <1>1, CalledSame DEF uvars
<1>3. /\ EventTypes /\ NoneAhead
      /\ \A s \in Rank : \A i \in DOMAIN reqs[s] : SentIs(s, i) /\ LandedIs(s, i)
      /\ \A v \in User : \A l \in DOMAIN prog[v] : NotSent(v, l)
      /\ \A q \in Pair : NotLanded(q) /\ AllExpected(line, cut, q)
  BY Zenon DEF Events
<1>4. PICK x, w : HandledNow(r, x, w)  BY <1>1, HandledIs
<1>5. reqs[r][x].kind = "send"
  BY <1>1, <1>4 DEF Works, HandledNow, WorksOf, Phase
<1>6. \A i : Releasing(r, i) <=> i = x  BY <1>1, <1>4 DEF Releasing, HandledNow
<1>7. EventTypes' /\ NoneAhead'  BY <1>1, <1>2, <1>3 DEF EventTypes, NoneAhead
<1>8. /\ \A s \in Rank : \A i : OverAt(s, i)' <=> (OverAt(s, i) \/ (s = r /\ i = x))
      /\ \A i : ~ Releasing(r, i)'
      /\ \A s \in Rank : s # r => \A i : Releasing(s, i)' <=> Releasing(s, i)
      /\ \A s \in Rank : \A z : Awaited(s, z)' <=> Awaited(s, z)
      /\ \A s, z : \A kind : ListedAs(s, kind, z)' <=> ListedAs(s, kind, z)
  BY <1>1, <1>2, <1>4, OverMoves
<1>10. ASSUME NEW s \in Rank, NEW i \in DOMAIN reqs'[s] PROVE SentIs(s, i)' /\ LandedIs(s, i)'
  <2>1. SentIs(s, i) /\ LandedIs(s, i) /\ i \in DOMAIN reqs[s]  BY <1>2, <1>3
  <2>2. (OverAt(s, i)' \/ Releasing(s, i)') <=> (OverAt(s, i) \/ Releasing(s, i))  BY <1>6, <1>8
  <2>3. SentIs(s, i)'  BY <1>1, <1>2, <2>1, <2>2, Zenon DEF SentIs
  <2>4. reqs[s][i].kind = "recv" => (OverAt(s, i)' <=> OverAt(s, i))  BY <1>5, <1>8
  <2>5. LandedIs(s, i)'  BY <1>1, <1>2, <2>1, <2>4, Zenon DEF LandedIs
  <2> QED BY <2>3, <2>5
<1>11. ASSUME NEW v \in User, NEW l \in DOMAIN prog'[v] PROVE NotSent(v, l)'
  BY <1>1, <1>2, <1>3, <1>8 DEF NotSent
<1>12. ASSUME NEW p \in Pair PROVE NotLanded(p)' /\ AllExpected(line, cut, p)'
  <2>1. p[2] \in Rank  BY DEF Pair
  <2>2. NotLanded(p)'  BY <1>1, <1>2, <1>3, <1>8 DEF NotLanded
  <2>3. AllExpected(line, cut, p)'  BY <1>1, <1>3, <1>8, <2>1 DEF AllExpected, Expects
  <2> QED BY <2>2, <2>3
<1> QED BY <1>7, <1>10, <1>11, <1>12 DEF Events

\* What leaves the list has given its event.
LEMMA EventsUnlist ==
  ASSUME Called, Lists, Works, NEW line, NEW cut, Events(line, cut), NEW r \in Rank, Unlist(r)
  PROVE  Events(line, cut)'
<1>1. /\ \A s \in Rank \ {r} : reqs'[s] = reqs[s] /\ done'[s] = done[s]
      /\ done'[r] = <<>> /\ dpc' = [dpc EXCEPT ![r] = "drain"] /\ dpc[r] = "remove"
      /\ UNCHANGED <<uvars, svars>>
  BY UnlistIs
<1>2. /\ starts' = starts /\ prog' = prog /\ at' = at /\ sent' = sent /\ landed' = landed
      /\ \A v \in User : Place(v)' = Place(v)
      /\ \A q : Untold(q)' = Untold(q)
  BY <1>1, CalledSame DEF uvars, svars
<1>3. /\ EventTypes /\ NoneAhead
      /\ \A s \in Rank : \A i \in DOMAIN reqs[s] : SentIs(s, i) /\ LandedIs(s, i)
      /\ \A v \in User : \A l \in DOMAIN prog[v] : NotSent(v, l)
      /\ \A q \in Pair : NotLanded(q) /\ AllExpected(line, cut, q)
  BY Zenon DEF Events
<1>4. PICK f : Picked(reqs'[r], reqs[r], Worked(r), f)  BY UnlistIs
<1>5. /\ \A n \in DOMAIN reqs'[r] : f[n] \in DOMAIN reqs[r] /\ f[n] \notin Worked(r) /\ reqs'[r][n] = reqs[r][f[n]]
      /\ \A i \in DOMAIN reqs[r] : i \notin Worked(r) => \E n \in DOMAIN reqs'[r] : f[n] = i
  BY <1>4 DEF Picked
<1>6. EventTypes' /\ NoneAhead'  BY <1>2, <1>3 DEF EventTypes, NoneAhead
<1>7. \A i : ~ OverAt(r, i)' /\ ~ Releasing(r, i)' /\ i \notin Worked(r)'
  <2>1. dpc'[r] = "drain"  BY <1>1 DEF Works, WorkTypes
  <2> QED BY <1>1, <2>1 DEF OverAt, Releasing, Worked
<1>8. ASSUME NEW s \in Rank, NEW i \in DOMAIN reqs'[s] PROVE SentIs(s, i)' /\ LandedIs(s, i)'
  <2>1. CASE s = r
    <3>1. PICK k : k = f[i]  OBVIOUS
    <3>2. k \in DOMAIN reqs[r] /\ k \notin Worked(r) /\ reqs'[r][i] = reqs[r][k]
      BY <1>5, <2>1, <3>1
    <3>3. ~ OverAt(r, k) /\ ~ Releasing(r, k)  BY <3>2, WorkedListed
    <3>4. SentIs(r, k) /\ LandedIs(r, k)  BY <1>3, <3>2
    <3>5. ~ OverAt(r, i)' /\ ~ Releasing(r, i)'  BY <1>7
    <3>6. SentIs(r, i)'  BY <1>2, <3>2, <3>3, <3>4, <3>5 DEF SentIs
    <3>7. LandedIs(r, i)'  BY <1>2, <3>2, <3>3, <3>4, <3>5 DEF LandedIs
    <3> QED BY <2>1, <3>6, <3>7
  <2>2. CASE s # r
    <3>1. reqs'[s] = reqs[s] /\ done'[s] = done[s] /\ dpc'[s] = dpc[s]
      BY <1>1, <2>2 DEF Works
    <3>2. SentIs(s, i) /\ LandedIs(s, i)  BY <1>3, <3>1
    <3>3. (OverAt(s, i)' <=> OverAt(s, i)) /\ (Releasing(s, i)' <=> Releasing(s, i))
      BY <3>1 DEF OverAt, Releasing, Current, Pending
    <3> QED BY <1>2, <3>1, <3>2, <3>3, Zenon DEF SentIs, LandedIs
  <2> QED BY <2>1, <2>2
<1>9. ASSUME NEW s \in Rank, NEW z, NEW kind, ListedAs(s, kind, z)' PROVE ListedAs(s, kind, z)
  <2>1. PICK i \in DOMAIN reqs'[s] : reqs'[s][i].kind = kind /\ reqs'[s][i].w = z
    BY <1>9 DEF ListedAs
  <2>2. CASE s = r  BY <1>5, <2>1, <2>2 DEF ListedAs
  <2>3. CASE s # r  BY <1>1, <2>1, <2>3 DEF ListedAs
  <2> QED BY <2>2, <2>3
<1>10. ASSUME NEW s \in Rank, NEW z, Awaited(s, z) PROVE Awaited(s, z)'
  <2>1. PICK i \in DOMAIN reqs[s] : reqs[s][i].kind = "recv" /\ reqs[s][i].w = z /\ i \notin Worked(s)
    BY <1>10 DEF Awaited
  <2>2. CASE s = r
    <3>1. PICK n \in DOMAIN reqs'[r] : f[n] = i  BY <1>5, <2>1, <2>2
    <3>2. reqs'[r][n] = reqs[r][i] /\ n \notin Worked(r)'  BY <1>5, <1>7, <3>1
    <3> QED BY <2>1, <2>2, <3>2 DEF Awaited
  <2>3. CASE s # r  BY <1>1, <2>1, <2>3 DEF Awaited, Worked
  <2> QED BY <2>2, <2>3
<1>11. ASSUME NEW v \in User, NEW l \in DOMAIN prog'[v] PROVE NotSent(v, l)'
  <2>1. Home[v] \in Rank  BY BatchIs
  <2> QED BY <1>2, <1>3, <1>9, <2>1 DEF NotSent
<1>12. ASSUME NEW p \in Pair PROVE NotLanded(p)' /\ AllExpected(line, cut, p)'
  <2>1. p[2] \in Rank  BY DEF Pair
  <2>2. NotLanded(p)'  BY <1>2, <1>3, <1>9, <2>1 DEF NotLanded
  <2>3. AllExpected(line, cut, p)'  BY <1>2, <1>3, <1>9, <1>10, <2>1 DEF AllExpected, Expects
  <2> QED BY <2>2, <2>3
<1> QED BY <1>6, <1>8, <1>11, <1>12 DEF Events

\* A batch whose signals and events stay is armed as before.
LEMMA ArmedSame ==
  ASSUME NEW b, sendSig'[b] = sendSig[b], recvSig'[b] = recvSig[b], starts'[b] = starts[b],
         \A w \in Write : w[1] = b => sent'[w] = sent[w] /\ landed'[w] = landed[w]
  PROVE  Armed(b) => Armed(b)'
  BY DEF Armed

\* A piece of the last start of a batch is a write.
LEMMA KeyWrite ==
  ASSUME Called, NEW b \in BatchKey, starts[b] > 0, NEW j \in Piece(b[1])
  PROVE  <<b, j, starts[b]>> \in Write
<1>1. b = <<b[1], b[2]>> /\ b[1] \in User  BY BatchKeyIs
<1>2. PICK u, k : u = b[1] /\ k = b[2]  OBVIOUS
<1>3. b = <<u, k>> /\ u \in User /\ j \in Piece(u)  BY <1>1, <1>2
<1>4. Caller(u) /\ starts[b] \in Nat  BY <1>3 DEF Called
<1>5. /\ starts[b] <= (IF step[u] = "begin" THEN at[u] - 1 ELSE at[u])
      /\ Entered(Place(u), k) /\ prog[u][k] \in Starting
  BY <1>3, <1>4 DEF Caller
<1>6. /\ at[u] \in 1..(Len(prog[u]) + 1) /\ Len(prog[u]) \in Nat
      /\ step[u] # "begin" => at[u] \in DOMAIN prog[u]
      /\ DOMAIN prog[u] = 1..Len(prog[u])
  BY <1>3, CalledFacts
<1>7. starts[b] \in 1..Len(prog[u])
  <2>1. CASE step[u] = "begin"  BY <1>4, <1>5, <1>6, <2>1
  <2>2. CASE step[u] # "begin"  BY <1>4, <1>5, <1>6, <2>2
  <2> QED BY <2>1, <2>2
<1>8. k \in DOMAIN prog[u]  BY <1>5 DEF Entered, Place
<1> QED BY <1>3, <1>5, <1>7, <1>8, NewWrite

\* A batch whose signals and events stay counts as before.
LEMMA CountingSame ==
  ASSUME Called, NEW b \in BatchKey, starts[b] > 0,
         sendSig'[b] = sendSig[b], recvSig'[b] = recvSig[b], starts'[b] = starts[b],
         \A w \in Write : w[1] = b => sent'[w] = sent[w] /\ landed'[w] = landed[w]
  PROVE  Counting(b) => Counting(b)'
<1>1. \A j \in Piece(b[1]) : /\ sent'[<<b, j, starts[b]>>] = sent[<<b, j, starts[b]>>]
                            /\ landed'[<<b, j, starts[b]>>] = landed[<<b, j, starts[b]>>]
  BY KeyWrite
<1>2. Unsent(b)' = Unsent(b)  BY <1>1 DEF Unsent
<1> QED BY <1>1, <1>2 DEF Counting

\* A batch nobody touched.
LEMMA SignalSame ==
  ASSUME Called, NEW b \in BatchKey, SignalOf(b),
         sendSig'[b] = sendSig[b], recvSig'[b] = recvSig[b], starts'[b] = starts[b],
         \A w \in Write : w[1] = b => sent'[w] = sent[w] /\ landed'[w] = landed[w]
  PROVE  SignalOf(b)'
<1>1. CASE Armed(b)  BY <1>1, ArmedSame DEF SignalOf
<1>2. CASE ~ Armed(b)  BY <1>2, CountingSame DEF SignalOf
<1> QED BY <1>1, <1>2

\* A synchronized batch is one.
LEMMA SyncedKey ==
  ASSUME Called, NEW u \in User, NEW k \in DOMAIN prog[u], Synced(Place(u), k) \/ Synced(Place(u), k)',
         prog' = prog
  PROVE  <<u, k>> \in BatchKey
<1>1. prog[u][k] \in Starting  BY DEF Synced, Newest, Place
<1> QED BY <1>1, CalledFacts

\* Nothing moved but threads.
LEMMA SignalsSame ==
  ASSUME Called, Signals, UNCHANGED svars, starts' = starts, prog' = prog,
         \A u \in User : \A k \in DOMAIN prog[u] :
           Synced(Place(u), k)' => Synced(Place(u), k) \/ Armed(<<u, k>>)
  PROVE  Signals'
<1>1. sendSig' = sendSig /\ recvSig' = recvSig /\ sent' = sent /\ landed' = landed  BY DEF svars
<1>2. /\ SignalTypes /\ \A b \in BatchKey : SignalOf(b)
      /\ PastOver /\ \A u \in User : \A k \in DOMAIN prog[u] : SyncArmed(u, k)
  BY Zenon DEF Signals
<1>3. SignalTypes' /\ PastOver'  BY <1>1, <1>2 DEF SignalTypes, PastOver
<1>4. \A b \in BatchKey : SignalOf(b)'  BY <1>1, <1>2, SignalSame
<1>5. ASSUME NEW u \in User, NEW k \in DOMAIN prog'[u] PROVE SyncArmed(u, k)'
  <2>1. Armed(<<u, k>>) => Armed(<<u, k>>)'  BY <1>1, ArmedSame
  <2> QED BY <1>2, <2>1 DEF SyncArmed
<1> QED BY <1>3, <1>4, <1>5 DEF Signals

\* A batch that is armed starts counting.
LEMMA SignalsStarted ==
  ASSUME Called, Signals, NoneAhead, NEW u \in User, UserNext(u), UNCHANGED svars,
         NEW b \in BatchKey, b[1] = u, NEW n \in Nat, starts[b] = n, starts' = [starts EXCEPT ![b] = n + 1],
         Armed(b), \A j \in Piece(u) : Fresh(<<b, j, n + 1>>), \A k : ~ Synced(Place(u), k)'
  PROVE  Signals'
<1>1. sendSig' = sendSig /\ recvSig' = recvSig /\ sent' = sent /\ landed' = landed /\ prog' = prog
  BY CalledOthers DEF svars
<1>2. /\ SignalTypes /\ \A c \in BatchKey : SignalOf(c)
      /\ PastOver /\ \A v \in User : \A k \in DOMAIN prog[v] : SyncArmed(v, k)
  BY Zenon DEF Signals
<1>3. SignalTypes'  BY <1>1, <1>2 DEF SignalTypes
<1>4. starts'[b] = n + 1 /\ \A c \in BatchKey : c # b => starts'[c] = starts[c]  BY DEF Called
<1>5. PastOver'
  <2> SUFFICES ASSUME NEW w \in Write, w[3] < starts'[w[1]] PROVE sent[w] = 1 /\ landed[w] = 1
    BY <1>1 DEF PastOver
  <2>1. w[1] \in BatchKey /\ w[3] \in Nat  BY WriteIs
  <2>2. CASE w[1] = b
    <3>1. w[3] <= starts[b]  BY <1>4, <2>1, <2>2
    <3> QED BY <2>2, <3>1 DEF Armed
  <2>3. CASE w[1] # b  BY <1>2, <1>4, <2>1, <2>3 DEF PastOver
  <2> QED BY <2>2, <2>3
<1>6. Counting(b)'
  <2>1. \A j \in Piece(u) : sent[<<b, j, n + 1>>] = 0 /\ landed[<<b, j, n + 1>>] = 0
    BY DEF Fresh, NoneAhead
  <2>2. Unsent(b)' = Piece(u)  BY <1>1, <1>4, <2>1 DEF Unsent
  <2>3. Cardinality(Piece(u)) = Len(Batch[u])
    <3>1. PICK l : l = Len(Batch[u])  OBVIOUS
    <3>2. Piece(u) = 1..l /\ l \in Nat  BY <3>1, BatchIs
    <3>3. Cardinality(1..l) = IF 1 > l THEN 0 ELSE l - 1 + 1  BY <3>2, FS_Interval
    <3> QED BY <3>1, <3>2, <3>3
  <2>4. sendSig'[b] = Cardinality(Unsent(b)')  BY <1>1, <2>2, <2>3 DEF Armed, NumEvent
  <2>5. \A j \in Piece(b[1]) : recvSig'[b][j] = 1 - landed'[<<b, j, starts'[b]>>]
    BY <1>1, <1>4, <2>1 DEF Armed
  <2> QED BY <2>4, <2>5 DEF Counting
<1>7. ASSUME NEW c \in BatchKey PROVE SignalOf(c)'
  <2>1. CASE c = b
    <3>1. starts'[b] > 0  BY <1>4
    <3> QED BY <1>6, <2>1, <3>1 DEF SignalOf
  <2>2. CASE c # b  BY <1>1, <1>2, <1>4, <2>2, SignalSame
  <2> QED BY <2>1, <2>2
<1>8. ASSUME NEW v \in User, NEW k \in DOMAIN prog'[v] PROVE SyncArmed(v, k)'
  <2> SUFFICES ASSUME Synced(Place(v), k)' PROVE Armed(<<v, k>>)'  BY DEF SyncArmed
  <2>1. v # u  OBVIOUS
  <2>2. Synced(Place(v), k)  BY <2>1, HoldsOthers
  <2>3. <<v, k>> \in BatchKey /\ <<v, k>> # b  BY <1>1, <2>1, <2>2, SyncedKey
  <2>4. Armed(<<v, k>>)  BY <1>1, <1>2, <2>2 DEF SyncArmed
  <2> QED BY <1>1, <1>4, <2>3, <2>4, ArmedSame
<1> QED BY <1>3, <1>5, <1>7, <1>8 DEF Signals

\* Who begins an operation of a plan finds its signals armed, and so does
\* who puts a batch that was never started.
LEMMA NeverStarted ==
  ASSUME Signals, NEW b \in BatchKey, starts[b] = 0
  PROVE  Armed(b)
<1>1. SignalOf(b)  BY Zenon DEF Signals
<1> QED BY <1>1 DEF SignalOf

\* The first start of a batch.
LEMMA SignalsPut ==
  ASSUME Called, Signals, NEW line, NEW cut, Events(line, cut), NEW u \in User, Put(u)
  PROVE  Signals'
<1>1. /\ starts[Mine(u)] = 0 /\ Mine(u) = <<u, at[u]>> /\ <<u, at[u]>> \in BatchKey  BY CalledPut
<1>2. /\ starts' = [starts EXCEPT ![Mine(u)] = 1] /\ UserNext(u) /\ UNCHANGED svars
  BY DEF Put, UserNext
<1>3. at[u] \in DOMAIN prog[u] /\ prog[u][at[u]] = "put"  BY CalledWhere DEF Put
<1>4. PICK b, n : b = Mine(u) /\ n = 0  OBVIOUS
<1>5. ASSUME NEW j \in Piece(u) PROVE Fresh(<<b, j, n + 1>>)
  <2>1. 1 \in 1..Len(prog[u])  BY <1>3, CalledFacts
  <2>2. <<<<u, at[u]>>, j, 1>> \in Write  BY <1>3, <2>1, NewWrite DEF Starting
  <2> QED BY <1>1, <1>4, <2>2 DEF Fresh
<1>6. \A k : ~ Synced(Place(u), k)'  BY PlanPut
<1>7. Armed(b) /\ b \in BatchKey /\ b[1] = u /\ starts[b] = n /\ n \in Nat /\ starts' = [starts EXCEPT ![b] = n + 1]
  BY <1>1, <1>2, <1>4, NeverStarted
<1>8. NoneAhead  BY Zenon DEF Events
<1> QED BY <1>2, <1>5, <1>6, <1>7, <1>8, SignalsStarted

\* A plan is started when it is armed, as it was synchronized.
LEMMA SignalsStart ==
  ASSUME Called, Signals, NEW line, NEW cut, Events(line, cut), NEW u \in User, Start(u)
  PROVE  Signals'
<1>1. PICK k \in DOMAIN prog[u] :
         /\ Mine(u) = <<u, k>> /\ <<u, k>> \in BatchKey
         /\ prog[u][k] = "create" /\ Synced(Place(u), k)
  BY CalledPlan DEF Start
<1>2. /\ at' = at /\ starts' = [starts EXCEPT ![Mine(u)] = starts[Mine(u)] + 1]
      /\ UserNext(u) /\ UNCHANGED svars
  BY DEF Start, UserNext
<1>3. PICK b, n : b = <<u, k>> /\ n = starts[b]  OBVIOUS
<1>4. n \in Nat /\ b \in BatchKey /\ b[1] = u /\ starts' = [starts EXCEPT ![b] = n + 1] /\ starts'[b] = n + 1
  BY <1>1, <1>2, <1>3 DEF Called
<1>5. n + 1 \in 1..Len(prog[u])
  <2>1. Caller(u)' /\ at[u] \in DOMAIN prog[u] /\ DOMAIN prog[u] = 1..Len(prog[u]) /\ Len(prog[u]) \in Nat
    BY CalledStart, CalledFacts, CalledWhere DEF Start
  <2>2. starts'[b] <= at[u] /\ at[u] \in Nat
    <3>1. at[u] \in Nat  BY <2>1
    <3>2. starts'[b] <= (IF step'[u] = "begin" THEN at'[u] - 1 ELSE at'[u])
      BY <1>3, <1>4, <2>1 DEF Caller
    <3> QED BY <1>2, <1>4, <3>1, <3>2
  <2> QED BY <1>4, <2>1, <2>2
<1>6. ASSUME NEW j \in Piece(u) PROVE Fresh(<<b, j, n + 1>>)
  <2>1. <<<<u, k>>, j, n + 1>> \in Write  BY <1>1, <1>5, NewWrite DEF Starting
  <2> QED BY <1>3, <1>4, <2>1 DEF Fresh
<1>7. \A l : ~ Synced(Place(u), l)'  BY PlanStart
<1>8. SyncArmed(u, k)  BY Zenon DEF Signals
<1>9. Armed(b)  BY <1>1, <1>3, <1>8 DEF SyncArmed
<1>10. NoneAhead  BY Zenon DEF Events
<1> QED BY <1>2, <1>3, <1>4, <1>6, <1>7, <1>9, <1>10, SignalsStarted

\* Steps of a thread that start nothing and reset nothing.
LEMMA SignalsQuiet ==
  ASSUME Called, Signals, NEW u \in User, UserNext(u), ~ Put(u), ~ Start(u), ~ Sync(u)
  PROVE  Signals'
<1>1. UNCHANGED svars /\ starts' = starts /\ prog' = prog
  <2>1. CASE PutCtrl(u) \/ Create(u) \/ DestroyCtrl(u)  BY <2>1 DEF PutCtrl, Create, DestroyCtrl
  <2>2. CASE Destroy(u) \/ DestroyIds(u)  BY <2>2 DEF Destroy, DestroyIds
  <2>3. CASE ListRequests(u) \/ Wait(u)  BY <2>3 DEF ListRequests, Wait
  <2> QED BY <2>1, <2>2, <2>3 DEF UserNext
<1>2. ASSUME NEW v \in User, NEW k \in DOMAIN prog[v], Synced(Place(v), k)'
      PROVE  Synced(Place(v), k) \/ Armed(<<v, k>>)
  <2>1. CASE v # u  BY <1>2, <2>1, HoldsOthers
  <2>2. CASE v = u /\ PutCtrl(u)  BY <1>2, <2>2, PlanPut
  <2>3. CASE v = u /\ Create(u)
    <3>1. k = at[u] /\ starts[<<u, at[u]>>] = 0 /\ <<u, at[u]>> \in BatchKey
      BY <1>2, <2>3, PlanCreate, CalledCreate
    <3> QED BY <2>3, <3>1, NeverStarted
  <2>4. CASE v = u /\ (Destroy(u) \/ DestroyCtrl(u))  BY <1>2, <2>4, PlanDestroy DEF SyncedSame
  <2>5. CASE v = u /\ DestroyIds(u)  BY <1>2, <2>5, PlanDestroyed DEF SyncedSame
  <2>6. CASE v = u /\ (ListRequests(u) \/ Wait(u))  BY <1>2, <2>6, PlanOver DEF SyncedSame
  <2> QED BY <2>1, <2>2, <2>3, <2>4, <2>5, <2>6 DEF UserNext
<1> QED BY <1>1, <1>2, SignalsSame

\* Both sides waited: every write of the last start gave its events.
LEMMA WaitedOver ==
  ASSUME Called, Signals, NEW line, NEW cut, Events(line, cut), NEW b \in BatchKey,
         sendSig[b] = 0, \A j \in Piece(b[1]) : recvSig[b][j] = 0,
         NEW w \in Write, w[1] = b, w[3] <= starts[b]
  PROVE  sent[w] = 1 /\ landed[w] = 1
<1>1. SignalOf(b) /\ PastOver /\ EventTypes  BY Zenon DEF Events, Signals
<1>2. PICK j, n : j = w[2] /\ n = w[3]  OBVIOUS
<1>3. w = <<b, j, n>> /\ j \in Piece(b[1]) /\ n \in Nat /\ n <= starts[b] /\ starts[b] \in Nat
  BY <1>2, WriteIs DEF Called
<1>4. CASE Armed(b)  BY <1>4 DEF Armed
<1>5. CASE ~ Armed(b) /\ n < starts[b]  BY <1>1, <1>2, <1>5 DEF PastOver
<1>6. CASE ~ Armed(b) /\ n = starts[b]
  <2>1. Counting(b)  BY <1>1, <1>6 DEF SignalOf
  <2>2. landed[w] \in {0, 1} /\ sent[w] \in {0, 1} /\ 0 = 1 - landed[w]
    BY <1>1, <1>3, <1>6, <2>1 DEF Counting, EventTypes
  <2>3. Cardinality(Unsent(b)) = 0  BY <2>1 DEF Counting
  <2>4. IsFiniteSet(Unsent(b))
    <3>1. b[1] \in User  BY BatchKeyIs
    <3>2. Piece(b[1]) = 1..Len(Batch[b[1]]) /\ Len(Batch[b[1]]) \in Nat  BY <3>1, BatchIs
    <3>3. IsFiniteSet(Piece(b[1]))  BY <3>2, FS_Interval
    <3>4. Unsent(b) \subseteq Piece(b[1])  BY DEF Unsent
    <3> QED BY <3>3, <3>4, FS_Subset
  <2>5. Unsent(b) = {}  BY <2>3, <2>4, FS_EmptySet
  <2>6. sent[w] # 0  BY <1>3, <1>6, <2>5 DEF Unsent
  <2> QED BY <2>2, <2>6
<1> QED BY <1>3, <1>4, <1>5, <1>6

\* Both sides have waited for their signals and reset them.
LEMMA SignalsSync ==
  ASSUME Called, Signals, NEW line, NEW cut, Events(line, cut), NEW u \in User, Sync(u)
  PROVE  Signals'
<1>1. PICK b : b = Mine(u)  OBVIOUS
<1>2. at[u] \in DOMAIN prog[u]  BY CalledWhere DEF Sync
<1>3. b \in BatchKey /\ b[1] = u
  <2>1. PICK k : Mine(u) = <<u, k>> /\ <<u, k>> \in BatchKey  BY <1>2, CalledFacts
  <2> QED BY <1>1, <2>1
<1>4. /\ sendSig[b] = 0 /\ \A j \in Piece(u) : recvSig[b][j] = 0
      /\ sendSig' = [sendSig EXCEPT ![b] = NumEvent(u)]
      /\ recvSig' = [recvSig EXCEPT ![b] = [j \in Piece(u) |-> 1]]
      /\ sent' = sent /\ landed' = landed /\ starts' = starts /\ prog' = prog /\ UserNext(u)
  BY <1>1 DEF Sync, UserNext
<1>5. /\ SignalTypes /\ \A c \in BatchKey : SignalOf(c)
      /\ PastOver /\ \A v \in User : \A k \in DOMAIN prog[v] : SyncArmed(v, k)
  BY Zenon DEF Signals
<1>6. /\ sendSig'[b] = NumEvent(u) /\ recvSig'[b] = [j \in Piece(u) |-> 1]
      /\ DOMAIN sendSig' = BatchKey /\ DOMAIN recvSig' = BatchKey
      /\ \A c \in BatchKey : c # b => sendSig'[c] = sendSig[c] /\ recvSig'[c] = recvSig[c]
  BY <1>3, <1>4, <1>5 DEF SignalTypes
<1>7. SignalTypes'
  <2> SUFFICES ASSUME NEW c \in BatchKey PROVE recvSig'[c] \in [Piece(c[1]) -> Int]
    BY <1>6 DEF SignalTypes
  <2>1. CASE c = b  BY <1>3, <1>6, <2>1
  <2>2. CASE c # b  BY <1>5, <1>6, <2>2 DEF SignalTypes
  <2> QED BY <2>1, <2>2
<1>8. \A w \in Write : w[1] = b /\ w[3] <= starts[b] => sent[w] = 1 /\ landed[w] = 1
  BY <1>3, <1>4, WaitedOver
<1>9. Armed(b)'  BY <1>3, <1>4, <1>6, <1>8 DEF Armed
<1>10. PastOver'  BY <1>4, <1>5 DEF PastOver
<1>11. ASSUME NEW c \in BatchKey PROVE SignalOf(c)'
  <2>1. CASE c = b  BY <1>9, <2>1 DEF SignalOf
  <2>2. CASE c # b  BY <1>4, <1>5, <1>6, <2>2, SignalSame
  <2> QED BY <2>1, <2>2
<1>12. ASSUME NEW v \in User, NEW k \in DOMAIN prog'[v] PROVE SyncArmed(v, k)'
  <2> SUFFICES ASSUME Synced(Place(v), k)' PROVE Armed(<<v, k>>)'  BY DEF SyncArmed
  <2>1. CASE v = u
    <3>1. <<v, k>> = b  BY <1>1, <2>1, PlanOver
    <3> QED BY <1>9, <3>1
  <2>2. CASE v # u
    <3>1. Synced(Place(v), k)  BY <1>4, <2>2, HoldsOthers
    <3>2. <<v, k>> \in BatchKey /\ <<v, k>> # b  BY <1>3, <1>4, <2>2, <3>1, SyncedKey
    <3>3. Armed(<<v, k>>)  BY <1>4, <1>5, <3>1 DEF SyncArmed
    <3> QED BY <1>4, <1>6, <3>2, <3>3, ArmedSame
  <2> QED BY <2>1, <2>2
<1> QED BY <1>7, <1>10, <1>11, <1>12 DEF Signals

\* All steps of a thread keep the signals in accordance with the events.
LEMMA SignalsUserNext ==
  ASSUME Called, Signals, NEW line, NEW cut, Events(line, cut), NEW u \in User, UserNext(u)
  PROVE  Signals'
  BY SignalsPut, SignalsStart, SignalsSync, SignalsQuiet

\* A write without both events is of the last start of a batch not armed.
LEMMA LastStart ==
  ASSUME Called, Signals, NEW w \in Write, Begun(w), ~ (sent[w] = 1 /\ landed[w] = 1)
  PROVE  \E b, j, n : /\ w = <<b, j, n>> /\ b \in BatchKey /\ b[1] \in User /\ j \in Piece(b[1])
                      /\ n = starts[b] /\ n \in Nat /\ n > 0
                      /\ ~ Armed(b) /\ Counting(b)
<1>1. PICK b, j, n : b = w[1] /\ j = w[2] /\ n = w[3]  OBVIOUS
<1>2. w = <<b, j, n>> /\ b \in BatchKey /\ b[1] \in User /\ j \in Piece(b[1]) /\ n \in Nat \ {0}
  BY <1>1, WriteIs
<1>3. SignalOf(b) /\ PastOver  BY <1>2, Zenon DEF Signals
<1>4. n <= starts[b] /\ starts[b] \in Nat  BY <1>1, <1>2 DEF Begun, Called
<1>5. n = starts[b]  BY <1>1, <1>2, <1>3, <1>4 DEF PastOver
<1>6. ~ Armed(b)  BY <1>1, <1>4 DEF Armed
<1>7. Counting(b)  BY <1>3, <1>6 DEF SignalOf
<1> QED BY <1>2, <1>5, <1>6, <1>7

\* The event of one write moves the counter of its batch only.
LEMMA SignalsMoved ==
  ASSUME Called, Signals, UNCHANGED uvars, SignalTypes', PastOver',
         NEW b \in BatchKey, starts[b] > 0, ~ Armed(b), Counting(b)',
         \A c \in BatchKey : c # b => sendSig'[c] = sendSig[c] /\ recvSig'[c] = recvSig[c],
         \A z \in Write : z[1] # b => sent'[z] = sent[z] /\ landed'[z] = landed[z]
  PROVE  Signals'
<1>1. starts' = starts /\ prog' = prog /\ \A v \in User : Place(v)' = Place(v)  BY CalledSame
<1>2. /\ \A c \in BatchKey : SignalOf(c)
      /\ \A v \in User : \A k \in DOMAIN prog[v] : SyncArmed(v, k)
  BY Zenon DEF Signals
<1>3. ASSUME NEW c \in BatchKey PROVE SignalOf(c)'
  <2>1. CASE c = b  BY <1>1, <2>1 DEF SignalOf
  <2>2. CASE c # b  BY <1>1, <1>2, <2>2, SignalSame
  <2> QED BY <2>1, <2>2
<1>4. ASSUME NEW v \in User, NEW k \in DOMAIN prog'[v] PROVE SyncArmed(v, k)'
  <2> SUFFICES ASSUME Synced(Place(v), k)' PROVE Armed(<<v, k>>)'  BY DEF SyncArmed
  <2>1. Synced(Place(v), k)  BY <1>1 DEF Synced, Newest, Entered
  <2>2. Armed(<<v, k>>) /\ <<v, k>> \in BatchKey  BY <1>1, <1>2, <2>1, SyncedKey DEF SyncArmed
  <2> QED BY <1>1, <2>2, ArmedSame
<1> QED BY <1>3, <1>4 DEF Signals

\* One send less is counted, and one more has its event.
LEMMA SignalsSent ==
  ASSUME Called, Lists, Works, Signals, NEW line, NEW cut, Events(line, cut), NEW r \in Rank, Signal(r),
         NEW x, NEW w, HandledNow(r, x, w), reqs[r][x].kind = "send"
  PROVE  Signals'
<1>1. /\ dpc[r] = "signal" /\ UNCHANGED uvars /\ landed' = landed /\ recvSig' = recvSig
      /\ sent' = [sent EXCEPT ![w] = @ + 1] /\ sendSig' = [sendSig EXCEPT ![w[1]] = @ - 1]
  BY SignalIs, Zenon DEF HandledNow
<1>2. EventTypes /\ SentIs(r, x) /\ PastOver /\ SignalTypes
  BY Zenon DEF HandledNow, Events, Signals
<1>3. w \in Write /\ Begun(w) /\ sent[w] = 0
  <2>1. ~ Releasing(r, x)  BY <1>1 DEF Releasing
  <2>2. sent[w] \in {0, 1}  BY <1>2 DEF HandledNow, EventTypes
  <2> QED BY <1>2, <2>1, <2>2 DEF SentIs, HandledNow
<1>4. PICK b, j, n : /\ w = <<b, j, n>> /\ b \in BatchKey /\ b[1] \in User /\ j \in Piece(b[1])
                     /\ n = starts[b] /\ n \in Nat /\ n > 0
                     /\ ~ Armed(b) /\ Counting(b)
  BY <1>3, LastStart
<1>5. starts' = starts  BY <1>1, CalledSame
<1>6. sent'[w] = 1 /\ DOMAIN sent' = Write /\ \A z \in Write : z # w => sent'[z] = sent[z]
  BY <1>1, <1>2, <1>3 DEF EventTypes
<1>7. /\ sendSig'[b] = sendSig[b] - 1 /\ DOMAIN sendSig' = BatchKey
      /\ \A c \in BatchKey : c # b => sendSig'[c] = sendSig[c]
  BY <1>1, <1>2, <1>4 DEF SignalTypes
<1>8. SignalTypes'  BY <1>1, <1>2, <1>7 DEF SignalTypes
<1>9. PastOver'  BY <1>1, <1>2, <1>5, <1>6 DEF PastOver
<1>10. Counting(b)'
  <2>1. Unsent(b)' = Unsent(b) \ {j}
    <3>1. ASSUME NEW i \in Piece(b[1]) PROVE sent'[<<b, i, n>>] = 0 <=> sent[<<b, i, n>>] = 0 /\ i # j
      <4>1. CASE i = j  BY <1>4, <1>6, <4>1
      <4>2. CASE i # j
        <5>1. <<b, i, n>> \in Write /\ <<b, i, n>> # w  BY <1>4, <4>2, KeyWrite
        <5> QED BY <1>6, <4>2, <5>1
      <4> QED BY <4>1, <4>2
    <3> QED BY <1>4, <1>5, <3>1 DEF Unsent
  <2>2. j \in Unsent(b)  BY <1>3, <1>4 DEF Unsent
  <2>3. IsFiniteSet(Unsent(b))
    <3>1. Piece(b[1]) = 1..Len(Batch[b[1]]) /\ Len(Batch[b[1]]) \in Nat  BY <1>4, BatchIs
    <3>2. IsFiniteSet(Piece(b[1]))  BY <3>1, FS_Interval
    <3>3. Unsent(b) \subseteq Piece(b[1])  BY DEF Unsent
    <3> QED BY <3>2, <3>3, FS_Subset
  <2>4. Cardinality(Unsent(b) \ {j}) = Cardinality(Unsent(b)) - 1  BY <2>2, <2>3, FS_RemoveElement
  <2>5. sendSig'[b] = Cardinality(Unsent(b)')  BY <1>4, <1>7, <2>1, <2>4 DEF Counting
  <2>6. \A i \in Piece(b[1]) : recvSig'[b][i] = 1 - landed'[<<b, i, starts'[b]>>]
    BY <1>1, <1>4, <1>5 DEF Counting
  <2> QED BY <2>5, <2>6 DEF Counting
<1>11. \A z \in Write : z[1] # b => sent'[z] = sent[z] /\ landed'[z] = landed[z]
  BY <1>1, <1>4, <1>6
<1>12. starts[b] > 0  BY <1>4
<1> QED BY <1>1, <1>4, <1>7, <1>8, <1>9, <1>10, <1>11, <1>12, SignalsMoved

\* One receive less is counted, and it has its event.
LEMMA SignalsLanded ==
  ASSUME Called, Lists, Works, Signals, NEW line, NEW cut, Events(line, cut), NEW r \in Rank, Signal(r),
         NEW x, NEW w, HandledNow(r, x, w), reqs[r][x].kind = "recv"
  PROVE  Signals'
<1>1. /\ dpc[r] = "signal" /\ UNCHANGED uvars /\ sent' = sent /\ sendSig' = sendSig
      /\ landed' = [landed EXCEPT ![w] = @ + 1] /\ recvSig' = [recvSig EXCEPT ![w[1]][w[2]] = @ - 1]
  BY SignalIs, Zenon DEF HandledNow
<1>2. EventTypes /\ LandedIs(r, x) /\ PastOver /\ SignalTypes
  BY Zenon DEF HandledNow, Events, Signals
<1>3. w \in Write /\ Begun(w) /\ landed[w] = 0
  <2>1. landed[w] \in {0, 1}  BY <1>2 DEF HandledNow, EventTypes
  <2> QED BY <1>2, <2>1 DEF LandedIs, HandledNow
<1>4. PICK b, j, n : /\ w = <<b, j, n>> /\ b \in BatchKey /\ b[1] \in User /\ j \in Piece(b[1])
                     /\ n = starts[b] /\ n \in Nat /\ n > 0
                     /\ ~ Armed(b) /\ Counting(b)
  BY <1>3, LastStart
<1>5. starts' = starts  BY <1>1, CalledSame
<1>6. landed'[w] = 1 /\ DOMAIN landed' = Write /\ \A z \in Write : z # w => landed'[z] = landed[z]
  BY <1>1, <1>2, <1>3 DEF EventTypes
<1>7. /\ recvSig'[b] = [recvSig[b] EXCEPT ![j] = recvSig[b][j] - 1] /\ DOMAIN recvSig' = BatchKey
      /\ \A c \in BatchKey : c # b => recvSig'[c] = recvSig[c]
  BY <1>1, <1>2, <1>4 DEF SignalTypes
<1>8. /\ recvSig'[b] \in [Piece(b[1]) -> Int] /\ recvSig'[b][j] = recvSig[b][j] - 1
      /\ \A i \in Piece(b[1]) : i # j => recvSig'[b][i] = recvSig[b][i]
  <2>1. recvSig[b] \in [Piece(b[1]) -> Int]  BY <1>2, <1>4 DEF SignalTypes
  <2> QED BY <1>4, <1>7, <2>1
<1>9. SignalTypes'
  <2> SUFFICES ASSUME NEW c \in BatchKey PROVE recvSig'[c] \in [Piece(c[1]) -> Int]
    BY <1>1, <1>2, <1>7 DEF SignalTypes
  <2>1. CASE c = b  BY <1>8, <2>1
  <2>2. CASE c # b  BY <1>2, <1>7, <2>2 DEF SignalTypes
  <2> QED BY <2>1, <2>2
<1>10. PastOver'  BY <1>1, <1>2, <1>5, <1>6 DEF PastOver
<1>11. Counting(b)'
  <2>1. Unsent(b)' = Unsent(b)  BY <1>1, <1>5 DEF Unsent
  <2>2. sendSig'[b] = Cardinality(Unsent(b)')  BY <1>1, <1>4, <2>1 DEF Counting
  <2>3. ASSUME NEW i \in Piece(b[1]) PROVE recvSig'[b][i] = 1 - landed'[<<b, i, n>>]
    <3>1. CASE i = j
      <4>1. recvSig[b][j] = 1 - landed[w]  BY <1>4 DEF Counting
      <4>2. recvSig[b][j] = 1  BY <1>3, <4>1
      <4> QED BY <1>4, <1>6, <1>8, <3>1, <4>2
    <3>2. CASE i # j
      <4>1. <<b, i, n>> \in Write /\ <<b, i, n>> # w  BY <1>4, <3>2, KeyWrite
      <4> QED BY <1>4, <1>6, <1>8, <3>2, <4>1 DEF Counting
    <3> QED BY <3>1, <3>2
  <2> QED BY <1>4, <1>5, <2>2, <2>3 DEF Counting
<1>12. \A z \in Write : z[1] # b => sent'[z] = sent[z] /\ landed'[z] = landed[z]
  BY <1>1, <1>4, <1>6
<1>13. starts[b] > 0  BY <1>4
<1> QED BY <1>1, <1>4, <1>7, <1>9, <1>10, <1>11, <1>12, <1>13, SignalsMoved

\* A step that moves no signal and gives no event.
LEMMA SignalsUnmoved ==
  ASSUME Called, Signals, UNCHANGED <<uvars, svars>>
  PROVE  Signals'
<1>1. starts' = starts /\ prog' = prog /\ \A v \in User : Place(v)' = Place(v)  BY CalledSame
<1>2. ASSUME NEW v \in User, NEW k \in DOMAIN prog[v], Synced(Place(v), k)' PROVE Synced(Place(v), k)
  BY <1>1, <1>2 DEF Synced, Newest, Entered
<1> QED BY <1>1, <1>2, SignalsSame

\* All steps of the daemon keep the signals in accordance with the events.
LEMMA SignalsDaemonNext ==
  ASSUME Called, Lists, Works, Signals, NEW line, NEW cut, Events(line, cut),
         NEW r \in Rank, DaemonNext(r)
  PROVE  Signals'
<1>1. CASE Signal(r)
  <2>1. dpc[r] \in {"signal", "release"}  BY <1>1, Zenon DEF Signal
  <2>2. PICK x, w : HandledNow(r, x, w)  BY <2>1, HandledIs
  <2>3. reqs[r][x].kind \in {"send", "recv"}  BY <2>2 DEF HandledNow
  <2> QED BY <1>1, <2>2, <2>3, SignalsSent, SignalsLanded
<1>2. CASE \E s \in Rank : Drain(r, s)  BY <1>2, SignalsUnmoved DEF Drain
<1>3. CASE Test(r)  BY <1>3, SignalsUnmoved DEF Test
<1>4. CASE Release(r)  BY <1>4, SignalsUnmoved DEF Release
<1>5. CASE Unlist(r)  BY <1>5, SignalsUnmoved DEF Unlist
<1> QED BY <1>1, <1>2, <1>3, <1>4, <1>5 DEF DaemonNext

\* What every step of a thread keeps, whatever it does to the tables.
LEMMA UserKeeps ==
  ASSUME NEW tab, NEW line, NEW cut, Inv(tab, line, cut), NEW u \in User, UserNext(u)
  PROVE  Called' /\ TagsHeld' /\ Lists' /\ Works' /\ Signals'
  BY CalledStep, TagsUserNext, ListsUserNext, WorksUserNext, SignalsUserNext DEF Inv

\* Receives and data match after a step that sends nothing and posts nothing.
LEMMA MatchedQuiet ==
  ASSUME Called, NEW line, NEW L, Matched(line), NEW u \in User, UserNext(u),
         step[u] # "sent", step'[u] # "sent", net' = net, \A p \in Pair : L[p] = line[p]
  PROVE  Matched(L)'
<1>1. \A p \in Pair : Untold(p)' = Untold(p)  BY UntoldSame
<1>2. Called' /\ \A b \in BatchKey : starts[b] <= starts'[b]  BY CalledStep, StartsGrow
<1> QED BY <1>1, <1>2, MatchedSame

\* The course is the same or has one message more; the rest follows.
LEMMA InvPut ==
  ASSUME NEW tab, NEW line, NEW cut, Inv(tab, line, cut), NEW u \in User, Put(u)
  PROVE  Inv(tab, line, cut)'
<1>1. /\ Called /\ Course(tab, line, cut) /\ Matched(line) /\ TagsHeld /\ IdsHeld(tab)
      /\ Lists /\ Works /\ Events(line, cut) /\ Signals
  BY DEF Inv
<1>2. UserNext(u) /\ ~ Create(u) /\ ~ DestroyCtrl(u) /\ ~ DestroyIds(u)
      /\ ctrl' = ctrl /\ posted' = posted /\ slot' = slot
  BY DEF Put, UserNext, Create, DestroyCtrl, DestroyIds, Calls
<1>3. Course(tab, line, cut)' /\ \A p \in Pair : AtEnd(tab, p)' = AtEnd(tab, p)
  BY <1>1, <1>2, CourseSame
<1>4. \A p \in Pair : line[p] \in Seq(OpType)  BY <1>1, CutIs
<1>5. Matched(line)'  BY <1>1, <1>4, MatchedPut
<1>6. IdsHeld(tab)'  BY <1>1, <1>2, <1>3, IdsUser
<1>7. Events(line, cut)'  BY <1>1, EventsPut
<1>8. Called' /\ TagsHeld' /\ Lists' /\ Works' /\ Signals'  BY <1>2, UserKeeps
<1> QED BY <1>3, <1>5, <1>6, <1>7, <1>8 DEF Inv

\* The control messages of a put keep the invariant.
LEMMA InvPutCtrl ==
  ASSUME NEW tab, NEW line, NEW cut, Inv(tab, line, cut), NEW u \in User, PutCtrl(u)
  PROVE  \E T, L, C : Inv(T, L, C)'
<1>1. /\ Called /\ Course(tab, line, cut) /\ Matched(line) /\ TagsHeld /\ IdsHeld(tab)
      /\ Lists /\ Works /\ Events(line, cut) /\ Signals
  BY DEF Inv
<1>2. UserNext(u) /\ ~ Create(u) /\ ~ DestroyCtrl(u) /\ ~ DestroyIds(u)
  <2>1. step[u] = "sent"  BY DEF PutCtrl
  <2> QED BY <2>1 DEF UserNext, Create, DestroyCtrl, DestroyIds, Calls
<1>3. PICK T, L, C : Course(T, L, C)' /\ \A p \in Pair :
         /\ C[p][0] = cut[p][0] /\ AtEnd(T, p)' = AtEnd(tab, p)
         /\ L[p] = IF ToldTo(u, p) THEN line[p] \o Ops(u, p[2], 1, tags[u]) ELSE line[p]
  BY <1>1, TellPutCtrl
<1>4. \A p \in Pair : line[p] \in Seq(OpType)  BY <1>1, CutIs
<1>5. Matched(L)'  BY <1>1, <1>3, <1>4, MatchedPutCtrl
<1>6. IdsHeld(T)'  BY <1>1, <1>2, <1>3, IdsUser
<1>7. Events(L, C)'  BY <1>1, <1>3, EventsPutCtrl
<1>8. Called' /\ TagsHeld' /\ Lists' /\ Works' /\ Signals'  BY <1>2, UserKeeps
<1>9. Inv(T, L, C)'  BY <1>3, <1>5, <1>6, <1>7, <1>8 DEF Inv
<1> QED BY <1>9

\* A create keeps it.
LEMMA InvCreate ==
  ASSUME NEW tab, NEW line, NEW cut, Inv(tab, line, cut), NEW u \in User, Create(u)
  PROVE  \E T, L, C : Inv(T, L, C)'
<1>1. /\ Called /\ Course(tab, line, cut) /\ Matched(line) /\ TagsHeld /\ IdsHeld(tab)
      /\ Lists /\ Works /\ Events(line, cut) /\ Signals
  BY DEF Inv
<1>2. UserNext(u) /\ step[u] = "begin" /\ step' = [step EXCEPT ![u] = "append"] /\ net' = net
  BY DEF UserNext, Create, Calls
<1>3. step'[u] = "append"  BY <1>1, <1>2 DEF Called
<1>4. PICK T, L, C : Course(T, L, C)' /\ \A p \in Pair :
         /\ C[p][0] = cut[p][0] /\ L[p] = line[p]
         /\ AtEnd(T, p)' = IF ToldTo(u, p)
              THEN AtEnd(tab, p) \cup {[id |-> NewId(u, p[2]), ops |-> Ops(u, p[2], 0, TagsTaken(u))]}
              ELSE AtEnd(tab, p)
  BY <1>1, TellCreate
<1>5. Matched(L)'  BY <1>1, <1>2, <1>3, <1>4, MatchedQuiet
<1>6. IdsHeld(T)'  BY <1>1, <1>4, IdsNew
<1>7. Events(L, C)'  BY <1>1, <1>4, EventsQuiet
<1>8. Called' /\ TagsHeld' /\ Lists' /\ Works' /\ Signals'  BY <1>2, UserKeeps
<1>9. Inv(T, L, C)'  BY <1>4, <1>5, <1>6, <1>7, <1>8 DEF Inv
<1> QED BY <1>9

\* A start keeps it.
LEMMA InvStart ==
  ASSUME NEW tab, NEW line, NEW cut, Inv(tab, line, cut), NEW u \in User, Start(u)
  PROVE  \E T, L, C : Inv(T, L, C)'
<1>1. /\ Called /\ Course(tab, line, cut) /\ Matched(line) /\ TagsHeld /\ IdsHeld(tab)
      /\ Lists /\ Works /\ Events(line, cut) /\ Signals
  BY DEF Inv
<1>2. UserNext(u) /\ ~ Create(u) /\ ~ DestroyCtrl(u) /\ ~ DestroyIds(u)
  BY DEF Start, UserNext, Create, DestroyCtrl, DestroyIds, Calls
<1>3. PICK T, L, C : Course(T, L, C)' /\ \A p \in Pair :
         /\ C[p][0] = cut[p][0] /\ AtEnd(T, p)' = AtEnd(tab, p)
         /\ L[p] = IF ToldTo(u, p) THEN line[p] \o Ops(u, p[2], starts[Mine(u)] + 1, tags[u])
                                   ELSE line[p]
  BY <1>1, TellStart
<1>4. \A p \in Pair : line[p] \in Seq(OpType)  BY <1>1, CutIs
<1>5. Matched(L)'  BY <1>1, <1>3, <1>4, MatchedStart
<1>6. IdsHeld(T)'  BY <1>1, <1>2, <1>3, IdsUser
<1>7. Events(L, C)'  BY <1>1, <1>3, EventsStart
<1>8. Called' /\ TagsHeld' /\ Lists' /\ Works' /\ Signals'  BY <1>2, UserKeeps
<1>9. Inv(T, L, C)'  BY <1>3, <1>5, <1>6, <1>7, <1>8 DEF Inv
<1> QED BY <1>9

\* The messages of a destroy keep it.
LEMMA InvDestroyCtrl ==
  ASSUME NEW tab, NEW line, NEW cut, Inv(tab, line, cut), NEW u \in User, DestroyCtrl(u)
  PROVE  \E T, L, C : Inv(T, L, C)'
<1>1. /\ Called /\ Course(tab, line, cut) /\ Matched(line) /\ TagsHeld /\ IdsHeld(tab)
      /\ Lists /\ Works /\ Events(line, cut) /\ Signals
  BY DEF Inv
<1>2. UserNext(u) /\ step[u] = "untagged" /\ step' = [step EXCEPT ![u] = "told"] /\ net' = net
  BY DEF UserNext, DestroyCtrl
<1>3. step'[u] = "told"  BY <1>1, <1>2 DEF Called
<1>4. PICK T, L, C : Course(T, L, C)' /\ \A p \in Pair :
         /\ C[p][0] = cut[p][0] /\ L[p] = line[p]
         /\ AtEnd(T, p)' = IF ToldTo(u, p) THEN AtEnd(tab, p) \ InSlot(AtEnd(tab, p), ids[u][p[2]])
                                           ELSE AtEnd(tab, p)
  BY <1>1, TellDestroy
<1>5. Matched(L)'  BY <1>1, <1>2, <1>3, <1>4, MatchedQuiet
<1>6. IdsHeld(T)'  BY <1>1, <1>4, IdsTold
<1>7. Events(L, C)'  BY <1>1, <1>4, EventsQuiet
<1>8. Called' /\ TagsHeld' /\ Lists' /\ Works' /\ Signals'  BY <1>2, UserKeeps
<1>9. Inv(T, L, C)'  BY <1>4, <1>5, <1>6, <1>7, <1>8 DEF Inv
<1> QED BY <1>9

\* Steps of a thread without messages keep it, with the same witnesses.
LEMMA InvQuiet ==
  ASSUME NEW tab, NEW line, NEW cut, Inv(tab, line, cut), NEW u \in User,
         Destroy(u) \/ DestroyIds(u) \/ ListRequests(u) \/ Wait(u) \/ Sync(u)
  PROVE  Inv(tab, line, cut)'
<1>1. /\ Called /\ Course(tab, line, cut) /\ Matched(line) /\ TagsHeld /\ IdsHeld(tab)
      /\ Lists /\ Works /\ Events(line, cut) /\ Signals
  BY DEF Inv
<1>2. /\ UserNext(u) /\ ctrl' = ctrl /\ posted' = posted /\ slot' = slot /\ net' = net
      /\ step[u] # "sent" /\ step'[u] # "sent" /\ ~ Create(u) /\ ~ DestroyCtrl(u)
  <2>1. DOMAIN step = User  BY <1>1 DEF Called
  <2>2. CASE Destroy(u)  BY <2>1, <2>2 DEF UserNext, Destroy, Calls, mvars, Create, DestroyCtrl
  <2>3. CASE DestroyIds(u)
    BY <2>1, <2>3 DEF UserNext, DestroyIds, mvars, Create, DestroyCtrl, Calls
  <2>4. CASE ListRequests(u)
    BY <2>1, <2>4 DEF UserNext, ListRequests, mvars, Create, DestroyCtrl, Calls
  <2>5. CASE Wait(u)  BY <2>1, <2>5 DEF UserNext, Wait, Calls, mvars, Create, DestroyCtrl
  <2>6. CASE Sync(u)  BY <2>1, <2>6 DEF UserNext, Sync, Calls, mvars, Create, DestroyCtrl
  <2> QED BY <2>2, <2>3, <2>4, <2>5, <2>6
<1>3. Course(tab, line, cut)' /\ \A p \in Pair : AtEnd(tab, p)' = AtEnd(tab, p)
  BY <1>1, <1>2, CourseSame
<1>4. Matched(line)'  BY <1>1, <1>2, MatchedQuiet
<1>5. IdsHeld(tab)'
  <2>1. CASE DestroyIds(u)  BY <1>1, <1>3, <2>1, IdsBack
  <2>2. CASE ~ DestroyIds(u)  BY <1>1, <1>2, <1>3, <2>2, IdsUser
  <2> QED BY <2>1, <2>2
<1>6. Events(line, cut)'
  <2>1. CASE ListRequests(u)  BY <1>1, <2>1, EventsListed
  <2>2. CASE ~ ListRequests(u)  BY <1>1, <2>2, EventsQuiet
  <2> QED BY <2>1, <2>2
<1>7. Called' /\ TagsHeld' /\ Lists' /\ Works' /\ Signals'  BY <1>2, UserKeeps
<1> QED BY <1>3, <1>4, <1>5, <1>6, <1>7 DEF Inv

\* All steps of a thread keep it.
LEMMA InvUserNext ==
  ASSUME NEW tab, NEW line, NEW cut, Inv(tab, line, cut), NEW u \in User, UserNext(u)
  PROVE  \E T, L, C : Inv(T, L, C)'
<1>1. CASE Put(u)  BY <1>1, InvPut
<1>2. CASE Destroy(u) \/ DestroyIds(u) \/ ListRequests(u) \/ Wait(u) \/ Sync(u)  BY <1>2, InvQuiet
<1>3. CASE PutCtrl(u)  BY <1>3, InvPutCtrl
<1>4. CASE Create(u)  BY <1>4, InvCreate
<1>5. CASE Start(u)  BY <1>5, InvStart
<1>6. CASE DestroyCtrl(u)  BY <1>6, InvDestroyCtrl
<1> QED BY <1>1, <1>2, <1>3, <1>4, <1>5, <1>6 DEF UserNext

\* What every step of the daemon keeps.
LEMMA DaemonKeeps ==
  ASSUME NEW tab, NEW line, NEW cut, Inv(tab, line, cut), NEW r \in Rank, DaemonNext(r)
  PROVE  Called' /\ TagsHeld' /\ Lists' /\ Works' /\ Signals'
<1>1. UNCHANGED uvars  BY Zenon DEF DaemonNext, Drain, Test, Signal, Release, Unlist
<1>2. Called'  BY <1>1, CalledSame DEF Inv
<1>3. TagsHeld'  BY TagsDaemonNext DEF Inv
<1>4. Lists'  BY ListsDaemonNext DEF Inv
<1>5. Works'  BY WorksDaemonNext DEF Inv
<1>6. Signals'  BY SignalsDaemonNext DEF Inv
<1> QED BY <1>2, <1>3, <1>4, <1>5, <1>6

\* Receives and data match after a step of the daemon that completes none.
LEMMA MatchedDaemon ==
  ASSUME Called, NEW line, Matched(line), UNCHANGED uvars, net' = net
  PROVE  Matched(line)'
<1>1. Called' /\ starts' = starts /\ \A p : Untold(p)' = Untold(p)  BY CalledSame
<1>2. \A b \in BatchKey : starts[b] <= starts'[b]  BY <1>1 DEF Called
<1>3. \A p \in Pair : line[p] = line[p] /\ Untold(p)' = Untold(p)  BY <1>1
<1> QED BY <1>1, <1>2, <1>3, MatchedSame

\* Processing a message keeps it: the course is one message shorter.
LEMMA InvDrain ==
  ASSUME NEW tab, NEW line, NEW cut, Inv(tab, line, cut), NEW r \in Rank, NEW s \in Rank, Drain(r, s)
  PROVE  \E T, C : Inv(T, line, C)'
<1>1. /\ Called /\ Course(tab, line, cut) /\ Matched(line) /\ TagsHeld /\ IdsHeld(tab)
      /\ Lists /\ Works /\ Events(line, cut) /\ Signals
  BY DEF Inv
<1>2. PICK T, C, R : DrainStep(tab, line, cut, r, s, T, C, R)  BY <1>1, DrainMoves
<1>3. /\ Course(T, line, C)' /\ \A p \in Pair : AtEnd(T, p)' = AtEnd(tab, p)
      /\ UNCHANGED uvars /\ idPool' = idPool /\ net' = net
  BY <1>2 DEF DrainStep
<1>4. Matched(line)'  BY <1>1, <1>3, MatchedDaemon
<1>5. IdsHeld(T)'  BY <1>1, <1>3, IdsDaemon
<1>6. Events(line, C)'  BY <1>1, <1>2, EventsDrain
<1>7. Called' /\ TagsHeld' /\ Lists' /\ Works' /\ Signals'  BY DaemonKeeps DEF DaemonNext
<1>8. Inv(T, line, C)'  BY <1>3, <1>4, <1>5, <1>6, <1>7 DEF Inv
<1> QED BY <1>8

\* A test keeps it: what it completes is no longer to come.
LEMMA InvTest ==
  ASSUME NEW tab, NEW line, NEW cut, Inv(tab, line, cut), NEW r \in Rank, Test(r)
  PROVE  \E L, C : Inv(tab, L, C)'
<1>1. /\ Called /\ Course(tab, line, cut) /\ Matched(line) /\ TagsHeld /\ IdsHeld(tab)
      /\ Lists /\ Works /\ Events(line, cut) /\ Signals
  BY DEF Inv
<1>2. PICK L, C : Course(tab, L, C)' /\ Matched(L)' /\ Events(L, C)'  BY <1>1, EventsTest
<1>3. UNCHANGED uvars /\ idPool' = idPool /\ ctrl' = ctrl  BY DEF Test
<1>4. \A p \in Pair : AtEnd(tab, p)' = AtEnd(tab, p)  BY <1>3 DEF AtEnd
<1>5. IdsHeld(tab)'  BY <1>1, <1>3, <1>4, IdsDaemon
<1>6. Called' /\ TagsHeld' /\ Lists' /\ Works' /\ Signals'  BY DaemonKeeps DEF DaemonNext
<1>7. Inv(tab, L, C)'  BY <1>2, <1>5, <1>6 DEF Inv
<1> QED BY <1>7

\* Signals, releases and removals keep it.
LEMMA InvHandle ==
  ASSUME NEW tab, NEW line, NEW cut, Inv(tab, line, cut), NEW r \in Rank,
         Signal(r) \/ Release(r) \/ Unlist(r)
  PROVE  Inv(tab, line, cut)'
<1>1. /\ Called /\ Course(tab, line, cut) /\ Matched(line) /\ TagsHeld /\ IdsHeld(tab)
      /\ Lists /\ Works /\ Events(line, cut) /\ Signals
  BY DEF Inv
<1>2. /\ UNCHANGED uvars /\ idPool' = idPool /\ net' = net
      /\ ctrl' = ctrl /\ posted' = posted /\ slot' = slot
  BY Zenon DEF Signal, Release, Unlist, mvars
<1>3. Course(tab, line, cut)' /\ \A p \in Pair : AtEnd(tab, p)' = AtEnd(tab, p)
  BY <1>1, <1>2, CourseSame
<1>4. Matched(line)'  BY <1>1, <1>2, MatchedDaemon
<1>5. IdsHeld(tab)'  BY <1>1, <1>2, <1>3, IdsDaemon
<1>6. Events(line, cut)'
  <2>1. CASE Release(r)  BY <1>1, <2>1, EventsRelease
  <2>2. CASE Unlist(r)  BY <1>1, <2>2, EventsUnlist
  <2>3. CASE Signal(r)
    <3>1. dpc[r] \in {"signal", "release"}  BY <2>3, Zenon DEF Signal
    <3>2. PICK x, w : HandledNow(r, x, w)  BY <1>1, <3>1, HandledIs
    <3>3. reqs[r][x].kind \in {"send", "recv"}  BY <3>2 DEF HandledNow
    <3> QED BY <1>1, <2>3, <3>2, <3>3, EventsSent, EventsLanded
  <2> QED BY <2>1, <2>2, <2>3
<1>7. Called' /\ TagsHeld' /\ Lists' /\ Works' /\ Signals'  BY DaemonKeeps DEF DaemonNext
<1> QED BY <1>3, <1>4, <1>5, <1>6, <1>7 DEF Inv

\* All steps of the daemon keep it.
LEMMA InvDaemonNext ==
  ASSUME NEW tab, NEW line, NEW cut, Inv(tab, line, cut), NEW r \in Rank, DaemonNext(r)
  PROVE  \E T, L, C : Inv(T, L, C)'
<1>1. CASE Signal(r) \/ Release(r) \/ Unlist(r)  BY <1>1, InvHandle
<1>2. CASE Test(r)  BY <1>2, InvTest
<1>3. CASE \E s \in Rank : Drain(r, s)
  <2>1. PICK s \in Rank : Drain(r, s)  BY <1>3
  <2> QED BY <2>1, InvDrain
<1> QED BY <1>1, <1>2, <1>3 DEF DaemonNext

\* A step of nobody.
LEMMA EventsStutter ==
  ASSUME Called, NEW line, NEW cut, Events(line, cut), UNCHANGED vars
  PROVE  Events(line, cut)'
<1>1. /\ UNCHANGED uvars /\ reqs' = reqs /\ dpc' = dpc /\ done' = done /\ sent' = sent /\ landed' = landed
  BY DEF vars, dvars, svars
<1>2. /\ starts' = starts /\ prog' = prog /\ at' = at
      /\ \A v \in User : Place(v)' = Place(v)
      /\ \A q : Untold(q)' = Untold(q)
  BY <1>1, CalledSame
<1>3. /\ EventTypes /\ NoneAhead
      /\ \A s \in Rank : \A i \in DOMAIN reqs[s] : SentIs(s, i) /\ LandedIs(s, i)
      /\ \A v \in User : \A l \in DOMAIN prog[v] : NotSent(v, l)
      /\ \A q \in Pair : NotLanded(q) /\ AllExpected(line, cut, q)
  BY Zenon DEF Events
<1>4. EventTypes' /\ NoneAhead'  BY <1>1, <1>2, <1>3 DEF EventTypes, NoneAhead
<1>5. \A s, i : (OverAt(s, i)' <=> OverAt(s, i)) /\ (Releasing(s, i)' <=> Releasing(s, i))
  <2>1. \A s : Current(s)' = Current(s)  BY <1>1 DEF Current, Pending
  <2> QED BY <1>1, <2>1 DEF OverAt, Releasing
<1>6. \A s \in Rank : \A i \in DOMAIN reqs'[s] : SentIs(s, i)' /\ LandedIs(s, i)'
  BY <1>1, <1>3, <1>5 DEF SentIs, LandedIs
<1>7. \A s, kind, w : ListedAs(s, kind, w)' <=> ListedAs(s, kind, w)  BY <1>1 DEF ListedAs
<1>8. \A s, w : Awaited(s, w)' <=> Awaited(s, w)  BY <1>1 DEF Awaited, Worked
<1>9. \A v \in User : \A l \in DOMAIN prog'[v] : NotSent(v, l)'
  <2> SUFFICES ASSUME NEW v \in User, NEW l \in DOMAIN prog[v] PROVE NotSent(v, l)'  BY <1>2
  <2>1. Sending(Place(v))' <=> Sending(Place(v))  BY <1>2 DEF Sending
  <2>2. NotSent(v, l)  BY <1>3
  <2> QED BY <1>1, <1>2, <1>7, <2>1, <2>2 DEF NotSent
<1>10. \A q \in Pair : NotLanded(q)'  BY <1>1, <1>2, <1>3, <1>7 DEF NotLanded
<1>11. \A q \in Pair : AllExpected(line, cut, q)'
  BY <1>1, <1>3, <1>7, <1>8 DEF AllExpected, Expects
<1> QED BY <1>4, <1>6, <1>9, <1>10, <1>11 DEF Events

\* So does a step that changes nothing.
LEMMA InvStutter ==
  ASSUME NEW tab, NEW line, NEW cut, Inv(tab, line, cut), UNCHANGED vars
  PROVE  Inv(tab, line, cut)'
<1>1. /\ Called /\ Course(tab, line, cut) /\ Matched(line) /\ TagsHeld /\ IdsHeld(tab)
      /\ Lists /\ Works /\ Events(line, cut) /\ Signals
  BY DEF Inv
<1>2. /\ UNCHANGED uvars /\ idPool' = idPool /\ net' = net /\ tagPool' = tagPool /\ UNCHANGED svars
      /\ ctrl' = ctrl /\ posted' = posted /\ slot' = slot /\ reqs' = reqs /\ dpc' = dpc /\ done' = done
  BY DEF vars, mvars, dvars
<1>3. Called' /\ tags' = tags /\ starts' = starts /\ \A u \in User : Place(u)' = Place(u)
  BY <1>1, <1>2, CalledSame
<1>4. Course(tab, line, cut)' /\ \A p \in Pair : AtEnd(tab, p)' = AtEnd(tab, p)
  BY <1>1, <1>2, CourseSame
<1>5. Matched(line)'  BY <1>1, <1>2, MatchedDaemon
<1>6. IdsHeld(tab)'  BY <1>1, <1>2, <1>4, IdsDaemon
<1>7. TagsHeld'
  <2>1. \A u \in User : Holds(Place(u))' => Holds(Place(u)) /\ tags'[u] = tags[u]
    BY <1>3 DEF Holds, PutOpen, OpenPlan, Newest, Entered
  <2> QED BY <1>1, <1>2, <2>1, TagsSame
<1>8. Lists'
  <2>1. \A b \in BatchKey : starts[b] <= starts'[b]  BY <1>1, <1>3 DEF Called
  <2> QED BY <1>1, <1>2, <1>3, <2>1, ListsSame
<1>9. Works'
  <2>1. \A s \in Rank : \A i \in DOMAIN reqs[s] : i \in DOMAIN reqs'[s] /\ reqs'[s][i] = reqs[s][i]
    BY <1>2
  <2> QED BY <1>1, <1>2, <2>1, WorksSame
<1>10. Events(line, cut)'  BY <1>1, EventsStutter
<1>11. Signals'  BY <1>1, <1>2, SignalsUnmoved
<1> QED BY <1>3, <1>4, <1>5, <1>6, <1>7, <1>8, <1>9, <1>10, <1>11 DEF Inv

\* Nothing is entered, sent or listed at first.
LEMMA InitCalled ==
  ASSUME Init
  PROVE  /\ Called /\ \A u \in User : ~ Holds(Place(u)) /\ ~ Sending(Place(u)) /\ step[u] = "begin"
         /\ \A u \in User : \A k : ~ OpenPlan(Place(u), k) /\ ~ Synced(Place(u), k)
         /\ \A p : Untold(p) = {}
<1>1. /\ prog \in Progs /\ at = [u \in User |-> 1] /\ step = [u \in User |-> "begin"]
      /\ tags = [u \in User |-> <<>>] /\ DOMAIN ids = User
      /\ todo = [u \in User |-> <<>>] /\ starts = [b \in BatchKey |-> 0]
  BY DEF Init
<1>2. ASSUME NEW u \in User
      PROVE  /\ \A k : ~ Entered(Place(u), k) /\ Place(u).s = "begin"
             /\ Len(prog[u]) \in Nat
  <2>1. prog[u] \in Seq(Operation)  BY <1>1, ChannelAssumption
  <2>2. Place(u).s = "begin" /\ Place(u).a = 1 /\ Place(u).q = prog[u]  BY <1>1 DEF Place
  <2>3. \A k \in DOMAIN prog[u] : ~ (k < 1)  BY <2>1
  <2> QED BY <2>1, <2>2, <2>3 DEF Entered
<1>3. ASSUME NEW u \in User
      PROVE  /\ ~ Holds(Place(u)) /\ ~ Sending(Place(u)) /\ ~ PutOpen(Place(u))
             /\ \A k : ~ OpenPlan(Place(u), k) /\ ~ Synced(Place(u), k)
  BY <1>2 DEF Holds, Sending, PutOpen, OpenPlan, Synced, Newest
<1>4. ASSUME NEW u \in User PROVE Caller(u)
  <2>1. PlaceOK(Place(u))  BY <1>1, <1>2 DEF PlaceOK, Place
  <2>2. todo[u] = TodoOf(u)  BY <1>1 DEF TodoOf
  <2>3. \A k : <<u, k>> \in BatchKey => starts[<<u, k>>] = 0  BY <1>1
  <2>4. at[u] = 1 /\ step[u] = "begin"  BY <1>1
  <2> QED BY <1>3, <2>1, <2>2, <2>3, <2>4 DEF Caller
<1>5. Called  BY <1>1, <1>4 DEF Called
<1>6. \A p : Untold(p) = {}  BY <1>1, UntoldIs
<1> QED BY <1>1, <1>3, <1>5, <1>6

\* At first nothing is under way and all tables are empty.
LEMMA InitCourse ==
  ASSUME Init, NEW tab, NEW line, NEW cut, AtFirst(tab, line, cut)
  PROVE  Course(tab, line, cut) /\ \A p \in Pair : AtEnd(tab, p) = {}
<1>1. /\ ctrl = [p \in Pair |-> <<>>] /\ posted = [p \in Pair |-> <<>>] /\ slot = [p \in Pair |-> {}]
  BY DEF Init
<1>2. OnCourse([i \in 0..0 |-> {}], <<>>, [i \in 0..0 |-> 0], <<>>, <<>>, {})  BY DEF OnCourse
<1>3. Course(tab, line, cut)  BY <1>1, <1>2 DEF Course, AtFirst
<1>4. \A p \in Pair : AtEnd(tab, p) = {}  BY <1>1 DEF AtEnd, AtFirst
<1> QED BY <1>3, <1>4

\* A new pool has nothing out.
LEMMA InitPools ==
  PoolOK([max |-> 1, free |-> <<>>])
  BY DEF PoolOK

\* The invariant holds at first, ...
LEMMA InvInit ==
  ASSUME Init
  PROVE  IInv
<1>1. PICK tab, line, cut : AtFirst(tab, line, cut)
  <2>1. PICK tab, line, cut : /\ tab = [p \in Pair |-> [i \in 0..0 |-> {}]]
                              /\ line = [p \in Pair |-> <<>>] /\ cut = [p \in Pair |-> [i \in 0..0 |-> 0]]
    OBVIOUS
  <2>2. AtFirst(tab, line, cut)  BY <2>1 DEF AtFirst
  <2> QED BY <2>2
<1>a. \A p \in Pair : line[p] = <<>>  BY <1>1 DEF AtFirst
<1>2. /\ Called /\ \A u \in User : ~ Holds(Place(u)) /\ ~ Sending(Place(u)) /\ step[u] = "begin"
      /\ \A u \in User : \A k : ~ OpenPlan(Place(u), k) /\ ~ Synced(Place(u), k)
      /\ \A p : Untold(p) = {}
  BY InitCalled
<1>3. Course(tab, line, cut) /\ \A p \in Pair : AtEnd(tab, p) = {}  BY <1>1, InitCourse
<1>4. /\ net = [p \in Pair |-> <<>>] /\ reqs = [r \in Rank |-> <<>>] /\ starts = [b \in BatchKey |-> 0]
      /\ tagPool = [p \in Pair |-> [max |-> 1, free |-> <<>>]]
      /\ idPool = [p \in Pair |-> [max |-> 1, free |-> <<>>]]
      /\ dpc = [r \in Rank |-> "drain"] /\ done = [r \in Rank |-> <<>>]
      /\ sendSig = [b \in BatchKey |-> NumEvent(b[1])]
      /\ recvSig = [b \in BatchKey |-> [j \in Piece(b[1]) |-> 1]]
      /\ sent = [w \in Write |-> 0] /\ landed = [w \in Write |-> 0]
  BY DEF Init
<1>5. Matched(line)
  <2>1. Lined(<<>>, <<>>, {})  BY DEF Lined, HasData, Expected, Once, SameOrder, NotIn, LastIn
  <2>2. \A p \in Pair : net[p] = <<>> /\ line[p] = <<>> /\ Untold(p) = {}  BY <1>a, <1>2, <1>4
  <2>3. DOMAIN net = Pair /\ <<>> \in Seq(OpType) /\ DOMAIN <<>> = {}  BY <1>4
  <2>4. ASSUME NEW p \in Pair
        PROVE  /\ net[p] \in Seq(OpType) /\ Lined(line[p], net[p], Untold(p))
               /\ \A k \in DOMAIN net[p] : Begun(net[p][k].w) /\ OnPair(p, net[p][k].w)
    BY <2>1, <2>2, <2>3
  <2> QED BY <2>3, <2>4 DEF Matched
<1>6. \A r \in Rank : reqs[r] = <<>> /\ done[r] = <<>> /\ dpc[r] = "drain"  BY <1>4
<1>7. TagsHeld
  <2>1. Pools  BY <1>4, InitPools DEF Pools
  <2>2. \A u, v \in User : HeldOut(u) /\ HeldApart(u, v)  BY <1>2 DEF HeldOut, HeldApart
  <2>3. \A r \in Rank, u \in User : OwedOut(r) /\ OwedApart(r) /\ OwedHeld(r, u)
    BY <1>6 DEF OwedOut, OwedApart, OwedHeld, Owes
  <2>4. \A r \in Rank : OwedOut(r) /\ OwedApart(r)  BY <1>6 DEF OwedOut, OwedApart, Owes
  <2> QED BY <2>1, <2>2, <2>3, <2>4 DEF TagsHeld
<1>8. IdsHeld(tab)
  <2>1. IdPools  BY <1>4, InitPools DEF IdPools
  <2>2. \A p \in Pair : IdsOut(tab, p) /\ IdsOnce(tab, p)  BY <1>3 DEF IdsOut, IdsOnce
  <2>3. \A u \in User : PlanHeld(tab, u)  BY <1>2 DEF PlanHeld
  <2>4. \A u, v \in User : PlansApart(u, v)  BY <1>2 DEF PlansApart
  <2> QED BY <2>1, <2>2, <2>3, <2>4 DEF IdsHeld
<1>9. Lists  BY <1>4, <1>6 DEF Lists
<1>10. Works
  <2>1. WorkTypes  BY <1>4 DEF WorkTypes
  <2>2. \A r \in Rank : WorksOf(r)  BY <1>6 DEF WorksOf, Phase, WorkedApart
  <2> QED BY <2>1, <2>2 DEF Works
<1>11. Events(line, cut)
  <2>1. EventTypes /\ NoneAhead  BY <1>4 DEF EventTypes, NoneAhead
  <2>2. \A r \in Rank : \A i \in DOMAIN reqs[r] : SentIs(r, i) /\ LandedIs(r, i)  BY <1>6
  <2>3. \A u \in User : \A k \in DOMAIN prog[u] : NotSent(u, k)  BY <1>2 DEF NotSent
  <2>4. \A p \in Pair : NotLanded(p) /\ AllExpected(line, cut, p)
    BY <1>a, <1>2 DEF NotLanded, AllExpected
  <2> QED BY <2>1, <2>2, <2>3, <2>4, Zenon DEF Events
<1>12. Signals
  <2>1. SignalTypes  BY <1>4 DEF SignalTypes
  <2>2. \A w \in Write : w[1] \in BatchKey /\ w[3] \in Nat \ {0} /\ starts[w[1]] = 0
    BY <1>4, WriteIs
  <2>3. \A b \in BatchKey : Armed(b)  BY <1>4, <2>2 DEF Armed
  <2>4. \A b \in BatchKey : SignalOf(b)  BY <2>3 DEF SignalOf
  <2>5. PastOver  BY <2>2 DEF PastOver
  <2>6. \A u \in User : \A k \in DOMAIN prog[u] : SyncArmed(u, k)  BY <1>2 DEF SyncArmed
  <2> QED BY <2>1, <2>4, <2>5, <2>6, Zenon DEF Signals
<1>13. Inv(tab, line, cut)  BY <1>2, <1>3, <1>5, <1>7, <1>8, <1>9, <1>10, <1>11, <1>12 DEF Inv
<1> QED BY <1>13 DEF IInv

---------------------------------------------------------------------------
(* The invariant, and what it gives.                                        *)

\* ... and after every step.
LEMMA InvNext ==
  ASSUME IInv, [Next]_vars
  PROVE  IInv'
<1>1. PICK tab, line, cut : Inv(tab, line, cut)  BY DEF IInv
<1>2. CASE \E u \in User : UserNext(u)
  <2>1. PICK u \in User : UserNext(u)  BY <1>2
  <2>2. \E T, L, C : Inv(T, L, C)'  BY <1>1, <2>1, InvUserNext
  <2> QED BY <2>2 DEF IInv
<1>3. CASE \E r \in Rank : DaemonNext(r)
  <2>1. PICK r \in Rank : DaemonNext(r)  BY <1>3
  <2>2. \E T, L, C : Inv(T, L, C)'  BY <1>1, <2>1, InvDaemonNext
  <2> QED BY <2>2 DEF IInv
<1>4. CASE UNCHANGED vars
  <2>1. Inv(tab, line, cut)'  BY <1>1, <1>4, InvStutter
  <2> QED BY <2>1 DEF IInv
<1> QED BY <1>2, <1>3, <1>4 DEF Next

\* IInv always holds.
THEOREM Invariance == Spec => []IInv
<1>1. Init => IInv  BY InvInit
<1>2. IInv /\ [Next]_vars => IInv'  BY InvNext
<1> QED BY <1>1, <1>2, PTL DEF Spec

\* Every receive is completed by the data of its own write.
THEOREM OwnDataCorrect == Spec => []OwnData
<1>1. IInv => OwnData  BY OwnDataIs DEF IInv, Inv
<1> QED BY <1>1, Invariance, PTL

\* The next message of a pair fits the table it finds.
LEMMA NextFits ==
  ASSUME NEW tab, NEW line, NEW cut, Course(tab, line, cut), NEW p \in Pair, ctrl[p] # <<>>
  PROVE  Fits(slot[p], posted[p], Len(posted[p]), Head(ctrl[p]))
<1>1. PICK T, L, C, q, P, s : /\ T = tab[p] /\ L = line[p] /\ C = cut[p]
                              /\ q = ctrl[p] /\ P = posted[p] /\ s = slot[p]
  OBVIOUS
<1>2. OnCourse(T, L, C, q, P, s) /\ q # <<>>  BY <1>1 DEF Course
<1>3. Turn(T, L, C, Head(q), 1) /\ T[0] = s /\ C[0] = Len(P) /\ P \in Seq(OpType)
  BY <1>2, CourseDrain
<1>4. \A x \in 1..Len(P) : P[x] = L[x]  BY <1>2 DEF OnCourse
<1>5. Fits(T[1 - 1], L, C[1 - 1], Head(q))  BY <1>3 DEF Turn
<1>6. Fits(s, L, Len(P), Head(q))  BY <1>3, <1>5
<1>7. \A x \in 1..Len(P) : \E y \in 1..Len(P) : P[x] = L[y]  BY <1>4
<1>8. Fits(s, P, Len(P), Head(q))  BY <1>6, <1>7, FitsFewer
<1> QED BY <1>1, <1>8

\* What the daemon finds in a control message fits its table.
THEOREM FitsCorrect == Spec => []CtrlMessageFits
<1>1. IInv => CtrlMessageFits
  <2> SUFFICES ASSUME IInv PROVE CtrlMessageFits  OBVIOUS
  <2>1. PICK tab, line, cut : Course(tab, line, cut)  BY DEF IInv, Inv
  <2>2. ASSUME NEW r \in Rank, NEW s \in Rank, NEW p, p = <<s, r>>, NEW m, m = Head(ctrl[p]),
               ctrl[p] # <<>>
        PROVE  CASE m.type = "create" -> InSlot(slot[p], m.id) = {}
                 [] m.type \in {"start", "destroy"} ->
                      \E b \in InSlot(slot[p], m.id) :
                        \A op \in Range(b.ops), q \in Range(posted[p]) :
                          op.w[1] = q.w[1] => op.w[2] # q.w[2]
                 [] OTHER -> TRUE
    <3>1. p \in Pair  BY <2>2 DEF Pair
    <3>2. Fits(slot[p], posted[p], Len(posted[p]), m)  BY <2>1, <2>2, <3>1, NextFits
    <3>3. posted[p] \in Seq(OpType)  BY <2>1, <3>1 DEF Course, OnCourse
    <3>4. CASE m.type = "create"  BY <3>2, <3>4 DEF Fits
    <3>5. CASE m.type \in {"start", "destroy"}
      <4>1. PICK b \in slot[p] :
              /\ InSlot(slot[p], m.id) = {b}
              /\ \A x \in 1..Len(posted[p]) : \A y \in DOMAIN b.ops :
                   ~ (b.ops[y].w[1] = posted[p][x].w[1] /\ b.ops[y].w[2] = posted[p][x].w[2])
        BY <3>2, <3>5 DEF Fits
      <4>2. \A op \in Range(b.ops), q \in Range(posted[p]) : op.w[1] = q.w[1] => op.w[2] # q.w[2]
        BY <3>3, <4>1 DEF Range
      <4>3. \E c \in InSlot(slot[p], m.id) :
               \A op \in Range(c.ops), q \in Range(posted[p]) : op.w[1] = q.w[1] => op.w[2] # q.w[2]
        BY <4>1, <4>2
      <4> QED BY <3>5, <4>3
    <3>6. CASE m.type \notin {"create", "start", "destroy"}  BY <3>6
    <3> QED BY <3>4, <3>5, <3>6
  <2> QED BY <2>2 DEF CtrlMessageFits
<1> QED BY <1>1, Invariance, PTL

\* A counter at zero means that every write of the last start is done.
THEOREM SignalsCorrect == Spec => []SignalMeansDone
<1>1. IInv => SignalMeansDone
  <2> SUFFICES ASSUME IInv, NEW b \in BatchKey, starts[b] > 0
               PROVE  /\ sendSig[b] = 0 => \A j \in Piece(b[1]) : sent[<<b, j, starts[b]>>] = 1
                      /\ \A j \in Piece(b[1]) :
                           recvSig[b][j] = 0 => landed[<<b, j, starts[b]>>] = 1
    BY DEF SignalMeansDone
  <2>1. PICK line, cut : Called /\ Events(line, cut) /\ Signals  BY DEF IInv, Inv
  <2>2. EventTypes /\ SignalOf(b)  BY <2>1, Zenon DEF Events, Signals
  <2>3. ASSUME NEW j \in Piece(b[1])
        PROVE  LET w == <<b, j, starts[b]>> IN
               /\ w \in Write /\ w[1] = b /\ w[3] = starts[b] /\ starts[b] \in Nat
               /\ sent[w] \in {0, 1} /\ landed[w] \in {0, 1}
    BY <2>1, <2>2, KeyWrite DEF EventTypes, Called
  <2>4. CASE Armed(b)  BY <2>3, <2>4 DEF Armed
  <2>5. CASE Counting(b)
    <3>1. ASSUME NEW j \in Piece(b[1]), recvSig[b][j] = 0
          PROVE  landed[<<b, j, starts[b]>>] = 1
      BY <2>3, <2>5, <3>1 DEF Counting
    <3>2. ASSUME sendSig[b] = 0, NEW j \in Piece(b[1])
          PROVE  sent[<<b, j, starts[b]>>] = 1
      <4>1. IsFiniteSet(Unsent(b))
        <5>1. b[1] \in User  BY BatchKeyIs
        <5>2. Piece(b[1]) = 1..Len(Batch[b[1]]) /\ Len(Batch[b[1]]) \in Nat  BY <5>1, BatchIs
        <5>3. IsFiniteSet(Piece(b[1]))  BY <5>2, FS_Interval
        <5>4. Unsent(b) \subseteq Piece(b[1])  BY DEF Unsent
        <5> QED BY <5>3, <5>4, FS_Subset
      <4>2. Cardinality(Unsent(b)) = 0  BY <2>5, <3>2 DEF Counting
      <4>3. Unsent(b) = {}  BY <4>1, <4>2, FS_EmptySet
      <4> QED BY <2>3, <4>3 DEF Unsent
    <3> QED BY <3>1, <3>2
  <2> QED BY <2>2, <2>4, <2>5 DEF SignalOf
<1> QED BY <1>1, Invariance, PTL

\* Each active receive is listed once, each send until its event is.
THEOREM TrackedCorrect == Spec => []RequestsTracked
<1>1. IInv => RequestsTracked
  <2> SUFFICES ASSUME IInv PROVE RequestsTracked  OBVIOUS
  <2>1. PICK tab, line, cut : Course(tab, line, cut) /\ Lists /\ Works /\ Events(line, cut)
    BY DEF IInv, Inv
  <2>2. /\ \A r \in Rank : \A i \in DOMAIN reqs[r] : SentIs(r, i)
        /\ \A p \in Pair : AllExpected(line, cut, p)
    BY <2>1, Zenon DEF Events
  <2>3. ASSUME NEW p \in Pair, NEW m \in Range(posted[p])
        PROVE  Cardinality(Listed(p[2], "recv", m.w)) = 1
    <3>1. PICK x \in DOMAIN posted[p] : m = posted[p][x]  BY DEF Range
    <3>2. /\ posted[p] \in Seq(OpType) /\ line[p] \in Seq(OpType)
          /\ \A y \in 1..Len(posted[p]) : posted[p][y] = line[p][y]
          /\ cut[p][0] = Len(posted[p]) /\ cut[p][0] \in 0..Len(line[p])
      <4>1. OnCourse(tab[p], line[p], cut[p], ctrl[p], posted[p], slot[p])  BY <2>1 DEF Course
      <4>2. /\ posted[p] \in Seq(OpType) /\ cut[p][0] = Len(posted[p])
            /\ \A y \in 1..Len(posted[p]) : posted[p][y] = line[p][y]
        BY <4>1 DEF OnCourse
      <4> QED BY <2>1, <4>2, CutIs
    <3>3. x \in DOMAIN line[p] /\ x <= cut[p][0] /\ line[p][x].w = m.w  BY <3>1, <3>2
    <3>4. Awaited(p[2], m.w)  BY <2>2, <3>3 DEF AllExpected, Expects
    <3>5. PICK i \in DOMAIN reqs[p[2]] : reqs[p[2]][i].kind = "recv" /\ reqs[p[2]][i].w = m.w
      BY <3>4 DEF Awaited
    <3>6. p[2] \in Rank  BY DEF Pair
    <3>7. \A k \in Listed(p[2], "recv", m.w) : k = i
      BY <2>1, <3>5, <3>6 DEF Listed, Lists, Alike
    <3>8. Listed(p[2], "recv", m.w) = {i}  BY <3>5, <3>7 DEF Listed
    <3> QED BY <3>8, FS_Singleton
  <2>4. ASSUME NEW r \in Rank, NEW w \in Write, sent[w] = 1, NEW i \in Listed(r, "send", w)
        PROVE  i \in Worked(r)
    <3>1. i \in DOMAIN reqs[r] /\ reqs[r][i].kind = "send" /\ reqs[r][i].w = w  BY <2>4 DEF Listed
    <3>2. OverAt(r, i) \/ Releasing(r, i)  BY <2>2, <2>4, <3>1 DEF SentIs
    <3> QED BY <2>1, <3>2, WorkedListed
  <2> QED BY <2>3, <2>4 DEF RequestsTracked
<1> QED BY <1>1, Invariance, PTL

---------------------------------------------------------------------------
(* The channel implements one-sided writes.                                  *)

\* No write has been started at first.
LEMMA WritesInit ==
  ASSUME Init
  PROVE  Writes!Init
<1>1. /\ starts = [b \in BatchKey |-> 0] /\ sent = [w \in Write |-> 0] /\ landed = [w \in Write |-> 0]
  BY DEF Init
<1>2. {w \in Write : w[3] <= starts[w[1]]} = {}
  <2>1. \A w \in Write : w[1] \in BatchKey /\ w[3] \in Nat \ {0}  BY WriteIs
  <2>2. \A w \in Write : ~ (w[3] <= starts[w[1]])  BY <1>1, <2>1
  <2> QED BY <2>2
<1> QED BY <1>1, <1>2 DEF Writes!Init

\* A step of a thread starts some writes, or none.
LEMMA WritesUser ==
  ASSUME Called, NEW u \in User, UserNext(u)
  PROVE  Writes!Start
<1>1. sent' = sent /\ landed' = landed
  <2>1. CASE Put(u) \/ PutCtrl(u) \/ Create(u) \/ Start(u)
    BY <2>1 DEF Put, PutCtrl, Create, Start, svars
  <2>2. CASE Destroy(u) \/ DestroyCtrl(u) \/ DestroyIds(u)
    BY <2>2 DEF Destroy, DestroyCtrl, DestroyIds, svars
  <2>3. CASE ListRequests(u) \/ Wait(u) \/ Sync(u)  BY <2>3 DEF ListRequests, Wait, Sync, svars
  <2> QED BY <2>1, <2>2, <2>3 DEF UserNext
<1>2. \A b \in BatchKey : starts[b] <= starts'[b] /\ starts[b] \in Nat /\ starts'[b] \in Nat
  <2>1. Called'  BY CalledStep
  <2> QED BY <2>1, StartsGrow DEF Called
<1>3. \A w \in Write : w[1] \in BatchKey /\ w[3] \in Nat  BY WriteIs
<1>4. \A w \in Write : w[3] <= starts[w[1]] => w[3] <= starts'[w[1]]  BY <1>2, <1>3
<1>5. {w \in Write : w[3] <= starts[w[1]]} \subseteq {w \in Write : w[3] <= starts'[w[1]]}  BY <1>4
<1> QED BY <1>1, <1>5 DEF Writes!Start

\* A moved signal is one event of one write, which had not been given.
LEMMA WritesSignal ==
  ASSUME Called, Lists, Works, NEW line, NEW cut, Events(line, cut), NEW r \in Rank, Signal(r)
  PROVE  \E w \in Write : Writes!Complete(w) \/ Writes!Land(w)
<1>1. dpc[r] = "signal" /\ UNCHANGED uvars  BY Zenon DEF Signal
<1>2. PICK x, w : HandledNow(r, x, w)  BY <1>1, HandledIs
<1>3. /\ x \in DOMAIN reqs[r] /\ reqs[r][x].kind \in {"send", "recv"} /\ reqs[r][x].w = w
      /\ ~ OverAt(r, x) /\ w \in {z \in Write : z[3] <= starts[z[1]]} /\ w \in Write
  BY <1>2 DEF HandledNow, Begun
<1>4. EventTypes /\ SentIs(r, x) /\ LandedIs(r, x)  BY <1>3, Zenon DEF Events
<1>5. sent[w] \in {0, 1} /\ landed[w] \in {0, 1} /\ ~ Releasing(r, x)
  BY <1>1, <1>3, <1>4 DEF EventTypes, Releasing
<1>6. {z \in Write : z[3] <= starts'[z[1]]} = {z \in Write : z[3] <= starts[z[1]]}
  BY <1>1, CalledSame
<1>7. CASE reqs[r][x].kind = "send"
  <2>1. sent' = [sent EXCEPT ![w] = @ + 1] /\ landed' = landed
    BY <1>2, <1>7, SignalIs, Zenon DEF HandledNow
  <2>2. sent[w] = 0  BY <1>3, <1>4, <1>5, <1>7 DEF SentIs
  <2>3. sent' = [sent EXCEPT ![w] = 1]  BY <2>1, <2>2
  <2>4. Writes!Complete(w)  BY <1>3, <1>6, <2>1, <2>2, <2>3 DEF Writes!Complete
  <2> QED BY <1>3, <2>4
<1>8. CASE reqs[r][x].kind = "recv"
  <2>1. landed' = [landed EXCEPT ![w] = @ + 1] /\ sent' = sent
    BY <1>2, <1>8, SignalIs, Zenon DEF HandledNow
  <2>2. landed[w] = 0  BY <1>3, <1>4, <1>5, <1>8 DEF LandedIs
  <2>3. landed' = [landed EXCEPT ![w] = 1]  BY <2>1, <2>2
  <2>4. Writes!Land(w)  BY <1>3, <1>6, <2>1, <2>2, <2>3 DEF Writes!Land
  <2> QED BY <1>3, <2>4
<1> QED BY <1>3, <1>7, <1>8

\* Every step is one of OneSidedWrite, or leaves its variables.
LEMMA WritesStep ==
  ASSUME IInv, [Next]_vars
  PROVE  [Writes!Next]_(Writes!wvars)
<1>1. PICK line, cut : Called /\ Lists /\ Works /\ Events(line, cut)  BY DEF IInv, Inv
<1>2. CASE \E u \in User : UserNext(u)
  <2>1. Writes!Start  BY <1>1, <1>2, WritesUser
  <2> QED BY <2>1 DEF Writes!Next
<1>3. CASE \E r \in Rank : Signal(r)
  <2>1. \E w \in Write : Writes!Complete(w) \/ Writes!Land(w)  BY <1>1, <1>3, WritesSignal
  <2> QED BY <2>1 DEF Writes!Next
<1>4. ASSUME UNCHANGED <<starts, sent, landed>> PROVE UNCHANGED Writes!wvars
  BY <1>4 DEF Writes!wvars
<1>5. CASE \E r \in Rank : (\E s \in Rank : Drain(r, s)) \/ Test(r) \/ Release(r) \/ Unlist(r)
  <2>1. UNCHANGED <<starts, sent, landed>>  BY <1>5 DEF Drain, Test, Release, Unlist, uvars, svars
  <2> QED BY <1>4, <2>1
<1>6. CASE UNCHANGED vars
  <2>1. UNCHANGED <<starts, sent, landed>>  BY <1>6 DEF vars, uvars, svars
  <2> QED BY <1>4, <2>1
<1> QED BY <1>2, <1>3, <1>5, <1>6 DEF Next, DaemonNext

\* Each write that is started gives one event on each side.
THEOREM Implements == Spec => OneEventEach
<1>1. Init => Writes!Init  BY WritesInit
<1>2. IInv /\ [Next]_vars => [Writes!Next]_(Writes!wvars)  BY WritesStep
<1> QED BY <1>1, <1>2, Invariance, PTL DEF Spec, OneEventEach, Writes!Spec

=============================================================================
