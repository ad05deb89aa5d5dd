---------------------------- MODULE BinGeometry ----------------------------
(***************************************************************************)
(* The numbering of the bins of a tile, seen by one particle.  InitBin and *)
(* the deposition number the cells of the tile grown by the guard cells of *)
(* J, the sweep and fusion_pack_unr those of the tile grown by the guard   *)
(* cells of E and B; both counts come from guardCellManager::Init.  A bin  *)
(* number is used for four decisions: with which fields a particle is      *)
(* gathered, whether it has stayed in its cell, whether it has left the    *)
(* tile, and where its current goes.                                       *)
(***************************************************************************)
EXTENDS Integers

CONSTANTS
  Options,   (* The solver options considered: records of BOOLEANs.         *)
  Lens       (* The tile sizes considered.                                  *)

Dim  == 1..3
Flag == {"fields", "psatd", "galilean", "window", "nci"}

(* A Galilean grid is an option of the PSATD solver, the NCI filter one of  *)
(* the finite-difference solver.  Comoving and collocated grids are left   *)
(* out.                                                                    *)
OptionRecord == {o \in [Flag -> BOOLEAN] :
  /\ o["galilean"] => o["psatd"]
  /\ o["psatd"] => o["fields"] /\ ~o["nci"]}

ASSUME OptionAssumption == Options \subseteq OptionRecord
ASSUME LenAssumption    == Lens \subseteq [Dim -> Nat \ {0}]

VARIABLES
  opt,    (* Solver, Galilean grid, moving window, NCI filter.              *)
  len,    (* The cells of the tile in each direction.                       *)
  cell,   (* The cell the particle is in, from the lower corner of the tile. *)
  bin,    (* The bin that lists it, or Unbinned.                            *)
  pc

vars == <<opt, len, cell, bin, pc>>

Unbinned == -1

---------------------------------------------------------------------------
(* guardCellManager::Init, for one level: neither subcycling nor a coarse   *)
(* patch, which the fused collects do not support.                         *)

Larger(a, b) == IF a > b THEN a ELSE b
Even(n)      == n + (n % 2)

Nox     == 3   \* The order of the kernels of the fused path.
Stencil == 4   \* NCIGodfreyFilter::m_stencil_width.
MaxR    == 2   \* max_r without mesh refinement.
NoxFFT  == 16  \* The default order of the PSATD solver.

(* ngFFT on a staggered grid: half the order, but all of it in z with a     *)
(* Galilean grid.                                                          *)
NgFFT(o, d)  == IF d = 3 /\ o["galilean"] THEN NoxFFT ELSE NoxFFT \div 2

Base(o)      == IF o["galilean"] THEN Nox + 1 ELSE Nox
Window(o, n) == IF o["window"] THEN Larger(n, MaxR) ELSE n

NgEBOddStencil(o) == [d \in Dim |-> Window(o, Base(o))]    \* Mutant: not evened.

(* The FFT solver raises the guard cells of every field, long after those   *)
(* of the deposition have been copied from ng_alloc_J.                     *)
NgEB(o) == [d \in Dim |->
  LET fd == Window(o, Even(Base(o) + (IF d = 3 /\ o["nci"] THEN Stencil ELSE 0)))
  IN  IF o["psatd"] THEN Larger(fd, NgFFT(o, d)) ELSE fd]

(* With an electromagnetic solver, ceil(c * 0.5 * dt / dx) = 1 is added.    *)
NgDeposJ(o) == [d \in Dim |->
  Window(o, Base(o)) + (IF o["fields"] THEN 1 ELSE 0)]

---------------------------------------------------------------------------
(* Bin numbers.  Coordinates are those of a box grown by ng cells, less one *)
(* for the first node of the third-order stencil.                          *)

Node(c, ng)  == [d \in Dim |-> c[d] + ng[d] - 1]
Grown(ng)    == [d \in Dim |-> len[d] + 2 * ng[d]]
NumBins(n)   == n[1] * n[2] * n[3]
(* Mutant: rows as long as the tile, not as the grown tile. *)
NumberNarrow(v, n) == v[1] + v[2] * len[1] + v[3] * len[1] * len[2]

Number(v, n) == v[1] + v[2] * n[1] + v[3] * n[1] * n[2]

InitBinOf(c) ==
  LET ng == NgDeposJ(opt)
  IN  Number([d \in Dim |-> c[d] + ng[d] - 1], Grown(ng))
KernelBinOf(c) == Number(Node(c, NgEB(opt)), Grown(NgEB(opt)))

(* The bin that the deposition computes for a particle of the tail, halfway *)
(* between its last position and its new one, in cell c.                   *)
DepositBinOf(c) == Number(Node(c, NgDeposJ(opt)), Grown(NgDeposJ(opt)))

---------------------------------------------------------------------------
(* The layout of the deposition.  A bin has eight slots of rhocells, and    *)
(* the 64 nodes around a particle are written as eight vectors: four planes *)
(* of nodes in z, and in each of them two pairs of rows.  A slot is paired  *)
(* with the shape factors <<i, j, k>> whose product is added to it.        *)
RhocellsNext(b) ==      \* Mutant: the second pair of rows starts a row on.
  LET n == Grown(NgDeposJ(opt))
  IN  {<<8 * (b + iy * n[1] + iz * n[1] * n[2]) + lane,
         <<lane % 4, iy + (lane \div 4), iz>>>> :
            iy \in {0, 1}, iz \in 0..3, lane \in 0..7}

Rhocells(b) ==
  LET n == Grown(NgDeposJ(opt))
  IN  {<<8 * (b + iy * n[1] + iz * n[1] * n[2]) + lane,
         <<lane % 4, iy + (lane \div 4), iz>>>> :
            iy \in {0, 2}, iz \in 0..3, lane \in 0..7}

(* The arrays of J have a node more than cells in each direction, on the    *)
(* collocated grid of the published runs for all three components.         *)
JIndex(x, y, z) ==
  LET n == Grown(NgDeposJ(opt))
  IN  x + y * (n[1] + 1) + z * (n[1] + 1) * (n[2] + 1)

(* The flush adds the first four slots of a bin to the row of nodes that    *)
(* starts at it, the last four to the next row.                            *)
Flushed(slot) ==
  LET n == Grown(NgDeposJ(opt))
      b == slot \div 8
      lane == slot % 8
  IN  JIndex((b % n[1]) + (lane % 4),
             ((b \div n[1]) % n[2]) + (lane \div 4),
             b \div (n[1] * n[2]))

(* Where doDepositionShapeNKernel, which has no bins, puts each product.    *)
Direct(c) ==
  LET v == Node(c, NgDeposJ(opt))
  IN  {<<JIndex(v[1] + i, v[2] + j, v[3] + k), <<i, j, k>>>> :
          i \in 0..3, j \in 0..3, k \in 0..3}

(* The test of fusion_pack_unr: below containlo or above containhi.         *)
ContainShort(c) ==                \* Mutant: containhi taken as an end.
  \E d \in Dim : LET ng == NgEB(opt)[d] IN
    Node(c, NgEB(opt))[d] < ng - 1 \/ Node(c, NgEB(opt))[d] > len[d] + ng - 1

NotContained(c) ==
  \E d \in Dim : LET ng == NgEB(opt)[d] IN
    Node(c, NgEB(opt))[d] < ng - 1 \/ Node(c, NgEB(opt))[d] > len[d] + ng - 2

InTile(n) == {<<x, y, z>> : x \in 0..(n[1] - 1), y \in 0..(n[2] - 1),
                            z \in 0..(n[3] - 1)}

Init ==
  /\ opt \in Options
  /\ len \in Lens
  /\ cell \in InTile(len)
  /\ bin = InitBinOf(cell)
  /\ pc = "idle"

---------------------------------------------------------------------------
(* The sweep first bins the particles behind g_move_begin.                  *)
BinTail ==
  /\ pc = "idle"
  /\ bin' = IF bin = Unbinned THEN KernelBinOf(cell) ELSE bin
  /\ pc' = "sweep"
  /\ UNCHANGED <<opt, len, cell>>

(* The particle is gathered with the fields of its bin and moves by at most *)
(* a cell in each direction; it stays in its bin or goes to the tail.      *)
Push ==
  /\ pc = "sweep"
  /\ \E move \in [Dim -> -1..1] : cell' = [d \in Dim |-> cell[d] + move[d]]
  /\ bin' = IF KernelBinOf(cell') = bin THEN bin ELSE Unbinned
  /\ pc' = "pack"
  /\ UNCHANGED <<opt, len>>

(* fusion_pack_unr looks at the particles of the tail only.                 *)
PackLeave ==
  /\ pc = "pack" /\ bin = Unbinned /\ NotContained(cell)
  /\ pc' = "away"
  /\ UNCHANGED <<opt, len, cell, bin>>

PackStay ==
  /\ pc = "pack" /\ ~(bin = Unbinned /\ NotContained(cell))
  /\ pc' = "idle"
  /\ UNCHANGED <<opt, len, cell, bin>>

(* A collect appends a particle of this tile behind the others.             *)
Collect ==
  /\ pc = "away"
  /\ cell' \in InTile(len)
  /\ bin' = Unbinned
  /\ pc' = "idle"
  /\ UNCHANGED <<opt, len>>

Next == BinTail \/ Push \/ PackLeave \/ PackStay \/ Collect

Spec == Init /\ [][Next]_vars

---------------------------------------------------------------------------
(* The arrays of bins are as long as InitBin made them, bin_to_ip as long   *)
(* as the sweep made it; every bin that is looked up exists in both.        *)
BinsInRange ==
  /\ bin # Unbinned => bin \in 0..(NumBins(Grown(NgEB(opt))) - 1)
  /\ NumBins(Grown(NgEB(opt))) <= NumBins(Grown(NgDeposJ(opt)))

(* The cells and bins under which the particle may be deposited: its own,   *)
(* if it has stayed there, or any that it may have been in halfway.        *)
MayDeposit ==
  IF bin # Unbinned THEN {<<cell, bin>>}
  ELSE {<<c, DepositBinOf(c)>> : c \in
          {c \in {[d \in Dim |-> cell[d] + m[d]] : m \in [Dim -> -1..1]} :
             \A d \in Dim : c[d] \in -1..len[d]}}

(* A bin means one cell to all who number it: it exists in the arrays of    *)
(* each, and the fields a particle is pushed with are those around its     *)
(* cell.                                                                    *)
BinMeansCell ==
  /\ BinsInRange
  /\ pc = "sweep" => bin = KernelBinOf(cell)

(* The deposition by bins adds to the nodes of J what the direct deposition *)
(* of upstream adds, with the bin that the sweep left on the box of E or    *)
(* with one computed on the box of J, and its slots exist in rhocells.     *)
CurrentAroundCell == pc = "pack" => \A p \in MayDeposit :
  LET slots == Rhocells(p[2])
  IN  /\ {<<Flushed(s[1]), s[2]>> : s \in slots} = Direct(p[1])
      /\ \A s \in slots : s[1] \in 0..(8 * NumBins(Grown(NgDeposJ(opt))) - 1)

(* A particle between two steps is in the tile, and one that was packed for *)
(* another tile is not: no bin number hides a departure.                   *)
LeftIffOutside ==
  /\ pc = "idle" => cell \in InTile(len)
  /\ pc = "away" => cell \notin InTile(len)

(* Numbers do not coincide by wrapping round a row: the kernel keeps a      *)
(* particle in its bin exactly when it has not changed cell.               *)
StaysIffSameCell ==
  [][pc = "sweep" => (bin' # Unbinned <=> cell' = cell)]_vars
===========================================================================
