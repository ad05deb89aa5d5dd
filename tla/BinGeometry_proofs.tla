------------------------- MODULE BinGeometry_proofs -------------------------
(***************************************************************************)
(* The numbering of the bins for tiles of every size, with the finite-      *)
(* difference solver and without NCI filter, the options of the published  *)
(* runs.  Under these the box of E and the box of J are the same, so that a *)
(* bin number has one meaning; and as a box has at least three cells in a   *)
(* row, numbers of neighboring cells differ, although the numbering wraps  *)
(* round at the end of each row.                                           *)
(***************************************************************************)
EXTENDS BinGeometry, TLAPS

FiniteDifference ==
  \A o \in Options : o["fields"] /\ ~o["psatd"] /\ ~o["nci"]

Coord == [Dim -> Int]

(* A particle in a bin is in the cell the bin stands for; one in the tail    *)
(* may have left the tile.                                                 *)
IInv ==
  /\ opt \in Options
  /\ len \in [Dim -> Nat \ {0}]
  /\ cell \in Coord
  /\ pc \in {"idle", "sweep", "pack", "away"}
  /\ pc \in {"idle", "sweep"} => cell \in InTile(len)
  /\ bin # Unbinned => bin = KernelBinOf(cell) /\ cell \in InTile(len)
  /\ pc = "sweep" => bin # Unbinned
  /\ pc = "pack" => \A d \in Dim : cell[d] \in -1..len[d]
  /\ pc = "away" => cell \notin InTile(len)

---------------------------------------------------------------------------
(* Both boxes have four guard cells on every side.                          *)
LEMMA Guards ==
  ASSUME FiniteDifference, opt \in Options
  PROVE  NgEB(opt) = [d \in Dim |-> 4] /\ NgDeposJ(opt) = [d \in Dim |-> 4]
  <1>1. opt \in [Flag -> BOOLEAN] /\ (opt["galilean"] => opt["psatd"])
    BY OptionAssumption DEF OptionRecord
  <1>2. opt["fields"] /\ ~opt["psatd"] /\ ~opt["nci"]
    BY DEF FiniteDifference
  <1>3. Base(opt) = 3
    BY <1>1, <1>2 DEF Base, Nox
  <1>4. Window(opt, 3) = 3 /\ Window(opt, 4) = 4
    BY DEF Window, Larger, MaxR
  <1>5. NgEB(opt) = [d \in Dim |-> 4]
    <2>1. \A d \in Dim :
            Window(opt, Even(Base(opt) + (IF d = 3 /\ opt["nci"] THEN Stencil ELSE 0))) = 4
      BY <1>2, <1>3, <1>4 DEF Even
    <2> QED BY <1>2, <2>1, Zenon DEF NgEB
  <1>6. NgDeposJ(opt) = [d \in Dim |-> 4]
    BY <1>2, <1>3, <1>4 DEF NgDeposJ
  <1> QED BY <1>5, <1>6

(* A cell of the tile, coordinate by coordinate.                            *)
LEMMA TileCoords ==
  ASSUME NEW n \in [Dim -> Nat \ {0}], NEW c \in Coord
  PROVE  c \in InTile(n) <=> \A d \in Dim : c[d] \in 0..(n[d] - 1)
  <1>1. c = <<c[1], c[2], c[3]>>
    BY DEF Coord, Dim
  <1>2. 1 \in Dim /\ 2 \in Dim /\ 3 \in Dim /\ \A d \in Dim : d = 1 \/ d = 2 \/ d = 3
    BY DEF Dim
  <1>3. ASSUME c \in InTile(n) PROVE \A d \in Dim : c[d] \in 0..(n[d] - 1)
    <2>1. PICK x \in 0..(n[1] - 1), y \in 0..(n[2] - 1), z \in 0..(n[3] - 1) :
             c = <<x, y, z>>
      BY <1>3 DEF InTile
    <2> QED BY <1>2, <2>1
  <1>4. ASSUME \A d \in Dim : c[d] \in 0..(n[d] - 1) PROVE c \in InTile(n)
    BY <1>1, <1>2, <1>4 DEF InTile
  <1> QED BY <1>3, <1>4

LEMMA TileIsCoord ==
  ASSUME NEW n \in [Dim -> Nat \ {0}]
  PROVE  InTile(n) \subseteq Coord
  BY DEF InTile, Coord, Dim

---------------------------------------------------------------------------
(* The numbers, with the rows and layers of the grown box written out.      *)
Row == len[1] + 8
Layer == Row * (len[2] + 8)
Num(c) == (c[1] + 3) + (c[2] + 3) * Row + (c[3] + 3) * Layer

LEMMA RowLayer ==
  ASSUME len \in [Dim -> Nat \ {0}]
  PROVE  /\ Row \in Nat /\ Layer \in Nat /\ Row >= 9 /\ Layer >= 9 * Row
         /\ len[1] \in Nat \ {0} /\ len[2] \in Nat \ {0} /\ len[3] \in Nat \ {0}
  <1>1. len[1] \in Nat \ {0} /\ len[2] \in Nat \ {0} /\ len[3] \in Nat \ {0}
    BY DEF Dim
  <1>2. Row \in Nat /\ Row >= 9
    BY <1>1 DEF Row
  <1> DEFINE m == len[2] - 1
  <1>3. m \in Nat /\ len[2] + 8 = m + 9
    BY <1>1
  <1> HIDE DEF m
  <1>4. Row * (m + 9) = Row * m + 9 * Row /\ Row * m \in Nat
    BY <1>2, <1>3
  <1> QED BY <1>1, <1>2, <1>3, <1>4 DEF Layer

LEMMA AllNumber ==
  ASSUME FiniteDifference, opt \in Options, len \in [Dim -> Nat \ {0}], NEW c \in Coord
  PROVE  KernelBinOf(c) = Num(c) /\ DepositBinOf(c) = Num(c) /\ InitBinOf(c) = Num(c)
  <1> DEFINE ng == [d \in Dim |-> 4]
  <1>1. NgEB(opt) = ng /\ NgDeposJ(opt) = ng
    BY Guards
  <1>2. 1 \in Dim /\ 2 \in Dim /\ 3 \in Dim
    BY DEF Dim
  <1>3. len[1] \in Nat /\ len[2] \in Nat /\ c[1] \in Int /\ c[2] \in Int /\ c[3] \in Int
    BY <1>2 DEF Coord
  <1>4. Grown(ng)[1] = len[1] + 8 /\ Grown(ng)[2] = len[2] + 8
    BY <1>2, <1>3 DEF Grown
  <1>5. Node(c, ng)[1] = c[1] + 3 /\ Node(c, ng)[2] = c[2] + 3 /\ Node(c, ng)[3] = c[3] + 3
    BY <1>2, <1>3 DEF Node
  <1>6. Number(Node(c, ng), Grown(ng)) = Num(c)
    <2>1. Number(Node(c, ng), Grown(ng)) =
            (c[1] + 3) + (c[2] + 3) * (len[1] + 8) + (c[3] + 3) * (len[1] + 8) * (len[2] + 8)
      BY <1>4, <1>5 DEF Number
    <2>2. (c[3] + 3) * (len[1] + 8) * (len[2] + 8) = (c[3] + 3) * ((len[1] + 8) * (len[2] + 8))
      BY <1>3
    <2> QED BY <1>3, <2>1, <2>2 DEF Num, Row, Layer
  <1>7. [d \in Dim |-> c[d] + ng[d] - 1] = Node(c, ng)
    BY DEF Node
  <1> QED BY <1>1, <1>6, <1>7, Zenon DEF KernelBinOf, DepositBinOf, InitBinOf

LEMMA Distribute ==
  ASSUME NEW a \in Int, NEW b \in Int, NEW n \in Int
  PROVE  (a + 3 + b) * n = (a + 3) * n + b * n /\ (a + 3) * n \in Int /\ b * n \in Int
  OBVIOUS

(* A step by at most a cell in each direction does not come out at the same *)
(* number, except by standing still.                                       *)
LEMMA NeighborsDiffer ==
  ASSUME len \in [Dim -> Nat \ {0}], NEW c \in Coord, NEW move \in [Dim -> -1..1],
         Num([d \in Dim |-> c[d] + move[d]]) = Num(c)
  PROVE  [d \in Dim |-> c[d] + move[d]] = c
  <1>1. 1 \in Dim /\ 2 \in Dim /\ 3 \in Dim /\ \A d \in Dim : d = 1 \/ d = 2 \/ d = 3
    BY DEF Dim
  <1>2. /\ c[1] \in Int /\ c[2] \in Int /\ c[3] \in Int
        /\ move[1] \in -1..1 /\ move[2] \in -1..1 /\ move[3] \in -1..1
    BY <1>1 DEF Coord
  <1>3. /\ Row \in Nat /\ Layer \in Nat /\ Row >= 9 /\ Layer >= 9 * Row
    BY RowLayer
  <1>4. (c[1] + move[1] + 3) + (c[2] + move[2] + 3) * Row + (c[3] + move[3] + 3) * Layer
          = (c[1] + 3) + (c[2] + 3) * Row + (c[3] + 3) * Layer
    BY <1>1 DEF Num
  <1>5. /\ (c[2] + move[2] + 3) * Row = (c[2] + 3) * Row + move[2] * Row
        /\ (c[3] + move[3] + 3) * Layer = (c[3] + 3) * Layer + move[3] * Layer
        /\ (c[2] + 3) * Row \in Int /\ (c[3] + 3) * Layer \in Int
        /\ move[2] * Row \in Int /\ move[3] * Layer \in Int
    <2>1. c[2] + move[2] + 3 = c[2] + 3 + move[2] /\ c[3] + move[3] + 3 = c[3] + 3 + move[3]
      BY <1>2
    <2> QED BY <1>2, <1>3, <2>1, Distribute
  <1>6. move[1] + move[2] * Row + move[3] * Layer = 0
    BY <1>2, <1>4, <1>5
  <1>7. /\ move[2] * Row = (IF move[2] = 0 THEN 0 ELSE IF move[2] = 1 THEN Row ELSE -Row)
        /\ move[3] * Layer = (IF move[3] = 0 THEN 0 ELSE IF move[3] = 1 THEN Layer ELSE -Layer)
    BY <1>2, <1>3
  <1>8. move[1] = 0 /\ move[2] = 0 /\ move[3] = 0
    BY <1>2, <1>3, <1>6, <1>7
  <1> QED BY <1>1, <1>2, <1>8 DEF Coord

---------------------------------------------------------------------------
(* The invariant.                                                          *)

LEMMA InitHolds == ASSUME FiniteDifference, Init PROVE IInv
  <1>1. opt \in Options /\ len \in [Dim -> Nat \ {0}] /\ cell \in InTile(len)
    BY LenAssumption DEF Init
  <1>2. cell \in Coord
    BY <1>1, TileIsCoord
  <1>3. bin = KernelBinOf(cell)
    BY <1>1, <1>2, AllNumber DEF Init
  <1> QED BY <1>1, <1>2, <1>3 DEF Init, IInv

(* A number is not that of the tail.                                        *)
LEMMA Numbered ==
  ASSUME FiniteDifference, opt \in Options, len \in [Dim -> Nat \ {0}],
         NEW c \in InTile(len)
  PROVE  KernelBinOf(c) \in Nat /\ KernelBinOf(c) # Unbinned
  <1>1. c \in Coord /\ \A d \in Dim : c[d] \in 0..(len[d] - 1)
    BY TileIsCoord, TileCoords
  <1>2. c[1] \in Nat /\ c[2] \in Nat /\ c[3] \in Nat
    BY <1>1, RowLayer DEF Dim
  <1>3. Row \in Nat /\ Layer \in Nat
    BY RowLayer
  <1>4. (c[2] + 3) * Row \in Nat /\ (c[3] + 3) * Layer \in Nat
    BY <1>2, <1>3
  <1>5. Num(c) \in Nat
    BY <1>2, <1>4 DEF Num
  <1> QED BY <1>1, <1>5, AllNumber DEF Unbinned

LEMMA BinTailKeeps == ASSUME FiniteDifference, IInv, BinTail PROVE IInv'
  <1>1. cell \in InTile(len)
    BY DEF IInv, BinTail
  <1>2. KernelBinOf(cell) # Unbinned
    BY <1>1, Numbered DEF IInv
  <1>3. bin' = KernelBinOf(cell) /\ KernelBinOf(cell)' = KernelBinOf(cell)
    BY Zenon DEF IInv, BinTail, KernelBinOf, Number, Node, Grown
  <1> QED BY <1>1, <1>2, <1>3 DEF IInv, BinTail, InTile

(* One push: the decision to stay, and how far the particle may have got.   *)
LEMMA PushMeans ==
  ASSUME FiniteDifference, IInv, Push
  PROVE  /\ cell' \in Coord
         /\ \A d \in Dim : cell'[d] \in -1..len[d]
         /\ bin' # Unbinned <=> cell' = cell
         /\ bin' # Unbinned => bin' = KernelBinOf(cell)
  <1>1. PICK move \in [Dim -> -1..1] : cell' = [d \in Dim |-> cell[d] + move[d]]
    BY DEF Push
  <1>2. /\ opt \in Options /\ len \in [Dim -> Nat \ {0}] /\ cell \in Coord
        /\ cell \in InTile(len) /\ bin = KernelBinOf(cell) /\ bin # Unbinned
    BY DEF IInv, Push
  <1>3. \A d \in Dim : cell[d] \in 0..(len[d] - 1) /\ len[d] \in Nat \ {0}
    BY <1>2, TileCoords
  <1>4. cell' \in Coord /\ \A d \in Dim : cell'[d] \in -1..len[d]
    BY <1>1, <1>3 DEF Coord
  <1>5. bin' = IF KernelBinOf(cell') = bin THEN bin ELSE Unbinned
    BY DEF Push
  <1>6. KernelBinOf(cell') = bin => cell' = cell
    <2>1. KernelBinOf(cell') = Num(cell') /\ bin = Num(cell)
      BY <1>2, <1>4, AllNumber
    <2> QED BY <1>1, <1>2, <2>1, NeighborsDiffer
  <1> QED BY <1>2, <1>4, <1>5, <1>6

LEMMA PushKeeps == ASSUME FiniteDifference, IInv, Push PROVE IInv'
  <1>1. /\ cell' \in Coord
        /\ \A d \in Dim : cell'[d] \in -1..len[d]
        /\ bin' # Unbinned <=> cell' = cell
        /\ bin' # Unbinned => bin' = KernelBinOf(cell)
    BY PushMeans
  <1>2. pc' = "pack" /\ opt' = opt /\ len' = len /\ cell \in InTile(len)
    BY DEF Push, IInv
  <1>3. InTile(len)' = InTile(len)
    BY <1>2 DEF InTile
  <1>4. bin' # Unbinned => bin' = KernelBinOf(cell)' /\ cell' \in InTile(len)
    BY <1>1, <1>2, Zenon DEF KernelBinOf, Number, Node, Grown
  <1> QED BY <1>1, <1>2, <1>3, <1>4 DEF IInv

(* The test of fusion_pack_unr finds exactly the cells outside the tile.    *)
LEMMA NotContainedMeans ==
  ASSUME FiniteDifference, opt \in Options, len \in [Dim -> Nat \ {0}], NEW c \in Coord
  PROVE  NotContained(c) <=> c \notin InTile(len)
  <1>1. NgEB(opt) = [d \in Dim |-> 4]
    BY Guards
  <1>2. \A d \in Dim : /\ NgEB(opt)[d] = 4 /\ Node(c, NgEB(opt))[d] = c[d] + 3
                       /\ c[d] \in Int /\ len[d] \in Nat \ {0}
    BY <1>1 DEF Node, Coord
  <1>3. NotContained(c) <=> \E d \in Dim : c[d] + 3 < 3 \/ c[d] + 3 > len[d] + 2
    BY <1>2 DEF NotContained
  <1>4. NotContained(c) <=> \E d \in Dim : c[d] \notin 0..(len[d] - 1)
    BY <1>2, <1>3
  <1> QED BY <1>4, TileCoords

LEMMA Unmoved ==
  ASSUME UNCHANGED <<opt, len, cell>>
  PROVE  InTile(len)' = InTile(len) /\ KernelBinOf(cell)' = KernelBinOf(cell)
  <1>1. opt' = opt /\ len' = len /\ cell' = cell
    OBVIOUS
  <1>2. InTile(len)' = InTile(len)
    BY <1>1 DEF InTile
  <1>3. KernelBinOf(cell)' = KernelBinOf(cell)
    BY <1>1, Zenon DEF KernelBinOf, Number, Node, Grown
  <1> QED BY <1>2, <1>3

LEMMA PackKeeps ==
  ASSUME FiniteDifference, IInv, PackLeave \/ PackStay
  PROVE  IInv'
  <1>1. UNCHANGED <<opt, len, cell, bin>>
    BY DEF PackLeave, PackStay
  <1>2. InTile(len)' = InTile(len) /\ KernelBinOf(cell)' = KernelBinOf(cell)
    BY <1>1, Unmoved
  <1>3. NotContained(cell) <=> cell \notin InTile(len)
    BY NotContainedMeans DEF IInv
  <1>4. CASE PackLeave
    <2>1. pc' = "away" /\ cell \notin InTile(len) /\ bin = Unbinned
      BY <1>3, <1>4 DEF PackLeave
    <2> QED BY <1>1, <1>2, <2>1 DEF IInv
  <1>5. CASE PackStay
    <2>1. pc' = "idle" /\ cell \in InTile(len)
      BY <1>3, <1>5 DEF PackStay, IInv
    <2> QED BY <1>1, <1>2, <2>1 DEF IInv
  <1> QED BY <1>4, <1>5

LEMMA CollectKeeps == ASSUME IInv, Collect PROVE IInv'
  <1>1. /\ cell' \in InTile(len) /\ bin' = Unbinned /\ pc' = "idle"
        /\ opt' = opt /\ len' = len
    BY DEF Collect
  <1>2. cell' \in Coord
    BY <1>1, TileIsCoord DEF IInv
  <1>3. InTile(len)' = InTile(len)
    BY <1>1 DEF InTile
  <1> QED BY <1>1, <1>2, <1>3 DEF IInv

LEMMA NextKeeps == ASSUME FiniteDifference, IInv, [Next]_vars PROVE IInv'
  <1>1. CASE UNCHANGED vars
    <2>1. InTile(len)' = InTile(len) /\ KernelBinOf(cell)' = KernelBinOf(cell)
      BY <1>1, Unmoved DEF vars
    <2> QED BY <1>1, <2>1 DEF vars, IInv
  <1> QED BY <1>1, BinTailKeeps, PushKeeps, PackKeeps, CollectKeeps DEF Next

(* What a bin number means before and after every loop over the particles: *)
(* the invariant the theorems below rest on.                               *)
THEOREM Inductive == ASSUME FiniteDifference PROVE Spec => []IInv
  <1>1. Init => IInv
    BY InitHolds
  <1>2. IInv /\ [Next]_vars => IInv'
    BY NextKeeps
  <1> QED BY <1>1, <1>2, PTL DEF Spec

(* In a tile of any size, a particle between two steps is in the tile, and  *)
(* one that was packed is not.                                             *)
THEOREM LeavesCorrectly == ASSUME FiniteDifference PROVE Spec => []LeftIffOutside
  <1>1. IInv => LeftIffOutside
    BY DEF IInv, LeftIffOutside
  <1> QED BY <1>1, Inductive, PTL

(* In a tile of any size, a particle keeps its bin exactly when it has not  *)
(* changed cell: numbers do not coincide by wrapping round a row.          *)
THEOREM StaysCorrectly == ASSUME FiniteDifference PROVE Spec => StaysIffSameCell
  <1>1. IInv /\ [Next]_vars => [pc = "sweep" => (bin' # Unbinned <=> cell' = cell)]_vars
    <2>1. ASSUME IInv, Next, pc = "sweep" PROVE bin' # Unbinned <=> cell' = cell
      <3>1. Push
        BY <2>1 DEF Next, BinTail, PackLeave, PackStay, Collect
      <3> QED BY <2>1, <3>1, PushMeans
    <2> QED BY <2>1
  <1> QED BY <1>1, Inductive, PTL DEF Spec, StaysIffSameCell

---------------------------------------------------------------------------
(* Numbers of the grown box, taken apart again.                             *)

LEMMA DivMod ==
  ASSUME NEW q \in Nat, NEW n \in Nat \ {0}, NEW r \in 0..(n - 1)
  PROVE  (q * n + r) \div n = q /\ (q * n + r) % n = r
  OBVIOUS

(* The largest number: a cell of the grown box has one below NumBins.       *)
LEMMA InBox ==
  ASSUME len \in [Dim -> Nat \ {0}],
         NEW x \in Nat, NEW y \in Nat, NEW z \in Nat,
         x < Row, y < len[2] + 8, z < len[3] + 8
  PROVE  /\ x + y * Row + z * Layer \in Nat
         /\ x + y * Row < Layer
         /\ x + y * Row + z * Layer < Layer * (len[3] + 8)
  <1>1. Row \in Nat /\ Layer \in Nat /\ len[2] \in Nat \ {0} /\ len[3] \in Nat \ {0}
    BY RowLayer
  <1> DEFINE a == len[2] + 7 - y
             b == len[3] + 7 - z
  <1>2. a \in Nat /\ b \in Nat /\ len[2] + 8 = y + a + 1 /\ len[3] + 8 = z + b + 1
    BY <1>1
  <1> HIDE DEF a, b
  <1>3. Layer = y * Row + a * Row + Row
    BY <1>1, <1>2 DEF Layer
  <1>4. a * Row \in Nat /\ y * Row \in Nat /\ z * Layer \in Nat /\ b * Layer \in Nat
    BY <1>1, <1>2
  <1>5. Layer * (len[3] + 8) = z * Layer + b * Layer + Layer
    BY <1>1, <1>2
  <1> QED BY <1>1, <1>3, <1>4, <1>5

LEMMA Bins ==
  ASSUME FiniteDifference, opt \in Options, len \in [Dim -> Nat \ {0}]
  PROVE  /\ NumBins(Grown(NgEB(opt))) = Layer * (len[3] + 8)
         /\ NumBins(Grown(NgDeposJ(opt))) = Layer * (len[3] + 8)
         /\ Grown(NgDeposJ(opt))[1] = Row /\ Grown(NgDeposJ(opt))[2] = len[2] + 8
         /\ Layer * (len[3] + 8) \in Nat
  <1> DEFINE ng == [d \in Dim |-> 4]
  <1>1. NgEB(opt) = ng /\ NgDeposJ(opt) = ng
    BY Guards
  <1>2. len[1] \in Nat /\ len[2] \in Nat /\ len[3] \in Nat /\ Row \in Nat /\ Layer \in Nat
    BY RowLayer
  <1>3. Grown(ng)[1] = Row /\ Grown(ng)[2] = len[2] + 8 /\ Grown(ng)[3] = len[3] + 8
    BY <1>2 DEF Grown, Dim, Row
  <1>4. NumBins(Grown(ng)) = Layer * (len[3] + 8)
    BY <1>3, Zenon DEF NumBins, Layer
  <1>5. Layer * (len[3] + 8) \in Nat
    BY <1>2
  <1> QED BY <1>1, <1>3, <1>4, <1>5, Zenon

(* In a tile of any size, a bin in use exists in all arrays of bins, and a   *)
(* particle is pushed with the fields around its cell.                      *)
THEOREM BinsCorrect == ASSUME FiniteDifference PROVE Spec => []BinMeansCell
  <1>1. IInv => BinMeansCell
    <2> SUFFICES ASSUME IInv PROVE BinMeansCell
      OBVIOUS
    <2>1. opt \in Options /\ len \in [Dim -> Nat \ {0}]
      BY DEF IInv
    <2>2. BinsInRange
      <3>1. ASSUME bin # Unbinned PROVE bin \in 0..(Layer * (len[3] + 8) - 1)
        <4>1. bin = KernelBinOf(cell) /\ cell \in InTile(len) /\ cell \in Coord
          BY <3>1 DEF IInv
        <4>2. bin = Num(cell)
          BY <2>1, <4>1, AllNumber
        <4>3. \A d \in Dim : cell[d] \in 0..(len[d] - 1)
          BY <2>1, <4>1, TileCoords
        <4>4. /\ cell[1] + 3 \in Nat /\ cell[2] + 3 \in Nat /\ cell[3] + 3 \in Nat
              /\ cell[1] + 3 < Row /\ cell[2] + 3 < len[2] + 8 /\ cell[3] + 3 < len[3] + 8
          BY <2>1, <4>3, RowLayer DEF Row, Dim
        <4>5. Num(cell) \in Nat /\ Num(cell) < Layer * (len[3] + 8)
          BY <2>1, <4>4, InBox DEF Num
        <4> QED BY <2>1, <4>2, <4>5, Bins
      <3> QED BY <2>1, <3>1, Bins DEF BinsInRange
    <2> QED BY <2>2 DEF BinMeansCell, IInv
  <1> QED BY <1>1, Inductive, PTL

(* A slot of rhocells is flushed to the node its bin and lane stand for.    *)
FlushedTo(x, y, z, lane) ==
  Flushed(8 * (x + y * Row + z * Layer) + lane)
    = JIndex(x + (lane % 4), y + (lane \div 4), z)

LEMMA FlushOfSlot ==
  ASSUME FiniteDifference, opt \in Options, len \in [Dim -> Nat \ {0}],
         NEW x \in Nat, NEW y \in Nat, NEW z \in Nat, NEW lane \in 0..7,
         x < Row, y < len[2] + 8, z < len[3] + 8
  PROVE  FlushedTo(x, y, z, lane)
  <1> DEFINE B == x + y * Row + z * Layer
             m == len[2] + 8
  <1>1. /\ Row \in Nat \ {0} /\ Layer \in Nat \ {0} /\ m \in Nat \ {0}
        /\ Layer = Row * m
    BY RowLayer DEF Layer
  <1>2. B \in Nat /\ x + y * Row < Layer /\ x + y * Row \in Nat
    <2>1. y * Row \in Nat
      BY <1>1
    <2> QED BY <2>1, InBox
  <1>3. (8 * B + lane) \div 8 = B /\ (8 * B + lane) % 8 = lane
    <2> HIDE DEF B
    <2> QED BY <1>2
  <1>4. B \div Layer = z
    <2>1. B = z * Layer + (x + y * Row)
      <3>1. y * Row \in Nat /\ z * Layer \in Nat
        BY <1>1
      <3> QED BY <3>1
    <2>2. x + y * Row \in 0..(Layer - 1)
      BY <1>1, <1>2
    <2> HIDE DEF B
    <2> QED BY <1>1, <2>1, <2>2, DivMod
  <1> DEFINE q == z * m + y
  <1>5. q \in Nat /\ B = q * Row + x
    <2>1. z * Layer = (z * m) * Row /\ z * m \in Nat
      BY <1>1
    <2>2. (z * m + y) * Row = (z * m) * Row + y * Row /\ y * Row \in Nat
            /\ (z * m) * Row \in Nat
      BY <1>1, <2>1
    <2> QED BY <1>1, <2>1, <2>2
  <1>6. B \div Row = q /\ B % Row = x
    <2>1. x \in 0..(Row - 1)
      BY <1>1
    <2> HIDE DEF B, q
    <2> QED BY <1>1, <1>5, <2>1, DivMod
  <1>7. q % m = y
    <2>1. y \in 0..(m - 1)
      BY <1>1
    <2> HIDE DEF m
    <2> QED BY <1>1, <2>1, DivMod
  <1>8. /\ Grown(NgDeposJ(opt))[1] = Row /\ Grown(NgDeposJ(opt))[2] = m
    BY Bins
  <1> HIDE DEF B, q, m
  <1>9. Flushed(8 * B + lane) = JIndex(x + (lane % 4), y + (lane \div 4), z)
    BY <1>1, <1>3, <1>4, <1>6, <1>7, <1>8, Zenon DEF Flushed
  <1> QED BY <1>9 DEF B, FlushedTo

(* Slots and pairs of shape factors: eight vectors of eight slots are the    *)
(* 64 nodes of the direct deposition.                                       *)
LEMMA SameNodes ==
  ASSUME FiniteDifference, opt \in Options, len \in [Dim -> Nat \ {0}],
         NEW c \in Coord, \A d \in Dim : c[d] \in -1..len[d]
  PROVE  /\ {<<Flushed(s[1]), s[2]>> : s \in Rhocells(Num(c))} = Direct(c)
         /\ \A s \in Rhocells(Num(c)) :
              s[1] \in 0..(8 * NumBins(Grown(NgDeposJ(opt))) - 1)
  <1> DEFINE x == c[1] + 3
             y == c[2] + 3
             z == c[3] + 3
             F(iy, iz, lane) == <<lane % 4, iy + (lane \div 4), iz>>
             S(iy, iz, lane) == 8 * (x + (y + iy) * Row + (z + iz) * Layer) + lane
             N(i, j, k) == JIndex(x + i, y + j, z + k)
  <1>1. /\ len[1] \in Nat /\ len[2] \in Nat /\ len[3] \in Nat
        /\ Row \in Nat /\ Layer \in Nat /\ Row = len[1] + 8
    BY RowLayer DEF Row
  <1>2. /\ x \in Nat /\ y \in Nat /\ z \in Nat
        /\ x + 3 < Row /\ y + 3 < len[2] + 8 /\ z + 3 < len[3] + 8
    BY <1>1 DEF Coord, Dim
  <1>3. Rhocells(Num(c)) =
          {<<S(iy, iz, lane), F(iy, iz, lane)>> :
             iy \in {0, 2}, iz \in 0..3, lane \in 0..7}
    <2>1. Grown(NgDeposJ(opt))[1] = Row /\ Grown(NgDeposJ(opt))[2] = len[2] + 8
      BY Bins
    <2>2. \A iy \in {0, 2}, iz \in 0..3 :
            Num(c) + iy * Row + iz * Row * (len[2] + 8)
              = x + (y + iy) * Row + (z + iz) * Layer
      <3> TAKE iy \in {0, 2}, iz \in 0..3
      <3>1. iz * Row * (len[2] + 8) = iz * Layer
        BY <1>1 DEF Layer
      <3>2. (y + iy) * Row = y * Row + iy * Row /\ (z + iz) * Layer = z * Layer + iz * Layer
            /\ y * Row \in Nat /\ z * Layer \in Nat /\ iy * Row \in Nat /\ iz * Layer \in Nat
        <4> HIDE DEF y, z
        <4> QED BY <1>1, <1>2
      <3>3. Num(c) = x + y * Row + z * Layer
        BY DEF Num
      <3> HIDE DEF x, y, z
      <3> QED BY <1>2, <3>1, <3>2, <3>3
    <2> HIDE DEF x, y, z
    <2>3. \A iy \in {0, 2}, iz \in 0..3, lane \in 0..7 :
            8 * (Num(c) + iy * Row + iz * Row * (len[2] + 8)) + lane = S(iy, iz, lane)
      BY <2>2
    <2> HIDE DEF S, F
    <2>4. Rhocells(Num(c)) =
            {<<8 * (Num(c) + iy * Row + iz * Row * (len[2] + 8)) + lane, F(iy, iz, lane)>> :
               iy \in {0, 2}, iz \in 0..3, lane \in 0..7}
      BY <2>1 DEF Rhocells, F
    <2> QED BY <2>3, <2>4
  <1>4. Direct(c) = {<<N(i, j, k), <<i, j, k>>>> : i \in 0..3, j \in 0..3, k \in 0..3}
    <2>1. NgDeposJ(opt) = [d \in Dim |-> 4]
      BY Guards
    <2>2. /\ Node(c, NgDeposJ(opt))[1] = x /\ Node(c, NgDeposJ(opt))[2] = y
          /\ Node(c, NgDeposJ(opt))[3] = z
      BY <2>1 DEF Node, Dim, Coord
    <2> HIDE DEF x, y, z
    <2> QED BY <2>2 DEF Direct
  <1> HIDE DEF x, y, z
  <1>5. \A iy \in {0, 2}, iz \in 0..3, lane \in 0..7 :
          /\ Flushed(S(iy, iz, lane)) = N(lane % 4, iy + (lane \div 4), iz)
          /\ S(iy, iz, lane) \in 0..(8 * (Layer * (len[3] + 8)) - 1)
    <2> TAKE iy \in {0, 2}, iz \in 0..3, lane \in 0..7
    <2>1. /\ y + iy \in Nat /\ z + iz \in Nat
          /\ x < Row /\ y + iy < len[2] + 8 /\ z + iz < len[3] + 8
      BY <1>1, <1>2
    <2>2. Flushed(S(iy, iz, lane)) = JIndex(x + (lane % 4), y + iy + (lane \div 4), z + iz)
      <3> DEFINE v == y + iy
                 w == z + iz
      <3>1. v \in Nat /\ w \in Nat /\ x < Row /\ v < len[2] + 8 /\ w < len[3] + 8
        BY <2>1
      <3> HIDE DEF v, w
      <3>2. FlushedTo(x, v, w, lane)
        BY <1>2, <3>1, FlushOfSlot
      <3> QED BY <3>2, Zenon DEF FlushedTo, v, w
    <2>3. y + iy + (lane \div 4) = y + (iy + (lane \div 4))
      BY <1>2
    <2>4. LET b == x + (y + iy) * Row + (z + iz) * Layer
          IN  b \in Nat /\ b < Layer * (len[3] + 8)
      BY <1>2, <2>1, InBox
    <2>5. Layer * (len[3] + 8) \in Nat
      BY Bins
    <2> QED BY <2>2, <2>3, <2>4, <2>5
  <1> HIDE DEF S, N
  <1>6. {<<Flushed(s[1]), s[2]>> : s \in Rhocells(Num(c))} =
          {<<N(lane % 4, iy + (lane \div 4), iz), F(iy, iz, lane)>> :
             iy \in {0, 2}, iz \in 0..3, lane \in 0..7}
    <2> HIDE DEF F
    <2> DEFINE P(s) == <<Flushed(s[1]), s[2]>>
               R(iy, iz, lane) == <<S(iy, iz, lane), F(iy, iz, lane)>>
               Q(iy, iz, lane) == <<N(lane % 4, iy + (lane \div 4), iz), F(iy, iz, lane)>>
    <2>1. \A iy \in {0, 2}, iz \in 0..3, lane \in 0..7 :
            P(R(iy, iz, lane)) = Q(iy, iz, lane)
      BY <1>5
    <2>2. Rhocells(Num(c)) = {R(iy, iz, lane) : iy \in {0, 2}, iz \in 0..3, lane \in 0..7}
      BY <1>3
    <2> HIDE DEF P, Q, R
    <2>3. ASSUME NEW s \in Rhocells(Num(c))
          PROVE  \E iy \in {0, 2}, iz \in 0..3, lane \in 0..7 : P(s) = Q(iy, iz, lane)
      <3>1. PICK iy \in {0, 2}, iz \in 0..3, lane \in 0..7 : s = R(iy, iz, lane)
        BY <2>2
      <3>2. P(s) = Q(iy, iz, lane)
        BY <2>1, <3>1, Zenon
      <3> QED BY <3>2
    <2>4. ASSUME NEW iy \in {0, 2}, NEW iz \in 0..3, NEW lane \in 0..7
          PROVE  \E s \in Rhocells(Num(c)) : P(s) = Q(iy, iz, lane)
      <3>1. R(iy, iz, lane) \in Rhocells(Num(c))
        BY <2>2
      <3> QED BY <2>1, <3>1, Zenon
    <2>5. {P(s) : s \in Rhocells(Num(c))} =
            {Q(iy, iz, lane) : iy \in {0, 2}, iz \in 0..3, lane \in 0..7}
      BY <2>3, <2>4
    <2> QED BY <2>5 DEF P, Q
  <1>7. {<<N(lane % 4, iy + (lane \div 4), iz), F(iy, iz, lane)>> :
           iy \in {0, 2}, iz \in 0..3, lane \in 0..7}
        = {<<N(i, j, k), <<i, j, k>>>> : i \in 0..3, j \in 0..3, k \in 0..3}
    <2>1. ASSUME NEW iy \in {0, 2}, NEW lane \in 0..7
          PROVE  lane % 4 \in 0..3 /\ iy + (lane \div 4) \in 0..3
      BY <2>1
    <2>2. ASSUME NEW i \in 0..3, NEW j \in 0..3
          PROVE  \E iy \in {0, 2}, lane \in 0..7 : i = lane % 4 /\ j = iy + (lane \div 4)
      <3>1. CASE j < 2
        <4>1. i + 4 * j \in 0..7 /\ (i + 4 * j) % 4 = i /\ (i + 4 * j) \div 4 = j
          BY <3>1
        <4> QED BY <4>1
      <3>2. CASE j >= 2
        <4>1. i + 4 * (j - 2) \in 0..7 /\ (i + 4 * (j - 2)) % 4 = i
              /\ (i + 4 * (j - 2)) \div 4 = j - 2
          BY <3>2
        <4>2. j = 2 + ((i + 4 * (j - 2)) \div 4)
          BY <4>1
        <4> QED BY <4>1, <4>2
      <3> QED BY <3>1, <3>2
    <2> QED BY <2>1, <2>2 DEF F
  <1>8. \A s \in Rhocells(Num(c)) : s[1] \in 0..(8 * NumBins(Grown(NgDeposJ(opt))) - 1)
    <2>1. NumBins(Grown(NgDeposJ(opt))) = Layer * (len[3] + 8)
      BY Bins
    <2> HIDE DEF F
    <2> QED BY <1>3, <1>5, <2>1
  <1> QED BY <1>4, <1>6, <1>7, <1>8

(* In a tile of any size, the deposition by bins adds to the nodes of J the *)
(* direct one adds to, and its slots exist.                                 *)
THEOREM CurrentCorrect == ASSUME FiniteDifference PROVE Spec => []CurrentAroundCell
  <1>1. IInv => CurrentAroundCell
    <2> SUFFICES ASSUME IInv, pc = "pack", NEW p \in MayDeposit
                 PROVE  /\ {<<Flushed(s[1]), s[2]>> : s \in Rhocells(p[2])} = Direct(p[1])
                        /\ \A s \in Rhocells(p[2]) :
                             s[1] \in 0..(8 * NumBins(Grown(NgDeposJ(opt))) - 1)
      BY DEF CurrentAroundCell
    <2>1. opt \in Options /\ len \in [Dim -> Nat \ {0}] /\ cell \in Coord
      BY DEF IInv
    <2>2. p[1] \in Coord /\ p[2] = Num(p[1]) /\ \A d \in Dim : p[1][d] \in -1..len[d]
      <3>1. CASE bin # Unbinned
        <4>1. p = <<cell, bin>>
          BY <3>1 DEF MayDeposit
        <4>2. bin = Num(cell)
          BY <2>1, <3>1, AllNumber DEF IInv
        <4> QED BY <2>1, <4>1, <4>2 DEF IInv
      <3>2. CASE bin = Unbinned
        <4>1. PICK m \in [Dim -> -1..1] :
                 /\ p = <<[d \in Dim |-> cell[d] + m[d]],
                          DepositBinOf([d \in Dim |-> cell[d] + m[d]])>>
                 /\ \A d \in Dim : [e \in Dim |-> cell[e] + m[e]][d] \in -1..len[d]
          BY <3>2, Zenon DEF MayDeposit
        <4>2. [d \in Dim |-> cell[d] + m[d]] \in Coord
          BY <2>1 DEF Coord
        <4> QED BY <2>1, <4>1, <4>2, AllNumber
      <3> QED BY <3>1, <3>2
    <2> QED BY <2>1, <2>2, SameNodes
  <1> QED BY <1>1, Inductive, PTL
===========================================================================
