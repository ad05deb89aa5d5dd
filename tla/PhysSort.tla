----------------------------- MODULE PhysSort -----------------------------
(***************************************************************************)
(* The physically sorted layout of one tile over many steps: the sweep of  *)
(* PushPX_vpu_mpu_physort_order3 and its kernel, which pushes the particles *)
(* bin by bin and writes them into a second buffer, those that stay in     *)
(* their cell from the front and those that leave it from the back; the    *)
(* compaction of fusion_pack_unr; the deposition of the current, which     *)
(* reads the same bins; the collects; the load balance, which gives the    *)
(* tile to another rank; and the fallback to RedistributeLocal once         *)
(* is_last_step is set.  Positions matter only through the cell (bin) they  *)
(* fall in; 0 is everywhere outside the tile.                              *)
(***************************************************************************)
EXTENDS Integers, Sequences, FiniteSets

CONSTANTS
  Particle,   (* Particles that may visit the tile.                         *)
  Empty,      (* The content of a buffer slot not yet written.              *)
  NCell,      (* Cells of the tile, swept in the order 1..NCell.            *)
  VL,         (* Lanes of a vector.                                         *)
  LastStep,   (* Bound: steps considered.                                   *)
  MaxArrive,  (* Bound: particles one collect receives.                     *)
  Injecting,  (* Continuous or flux injection is on.                        *)
  EmptyMoves  (* A load balance may find the tile empty.                    *)

ASSUME PhysSortAssumption ==
  /\ Empty \notin Particle
  /\ NCell \in Nat \ {0} /\ VL \in Nat \ {0}
  /\ LastStep \in Nat /\ MaxArrive \in Nat
  /\ Injecting \in BOOLEAN /\ EmptyMoves \in BOOLEAN

VARIABLES
  pc, step,
  isLastStep, (* WarpX::is_last_step.                                       *)
  slots,      (* The real attributes of the tile, one particle per slot.    *)
  idcpu,      (* The identifier array of the tile.                          *)
  cell,       (* cell[p]: the cell p is in, 0 if it is outside the tile.    *)
  carried,    (* carried[p]: the identifier p took along when it left.      *)
  binOffset, binLength,   (* g_phys_bin_offset, g_phys_bin_length.          *)
  moveBegin,  (* g_move_begin: the slots after it are in no bin.            *)
  newBegin,   (* g_new_particles_begin.                                     *)
  initialized,(* is_physort_initialized.                                    *)
  binToIp,    (* bin_to_ip: the unbinned slots of each bin.                 *)
  bin, todo,  (* The sweep: its bin, and the slots its loop has left.       *)
  newLength,  (* new_binlength.                                             *)
  front, back,(* nomove_idx and move_idx.                                   *)
  buf,        (* The thread-private buffers the kernel writes.              *)
  current,    (* current[p][c]: how often p was deposited from cell c.      *)
  added       (* History: particles injected in this step or since erased.  *)

tile  == <<slots, idcpu, cell, carried>>
bins  == <<binOffset, binLength, moveBegin, newBegin, initialized>>
sweep == <<binToIp, bin, todo, newLength, front, back, buf>>
vars  == <<pc, step, isLastStep, tile, bins, sweep, current, added>>

Cell  == 1..NCell

Elems(s)     == {s[i] : i \in 1..Len(s)}
Distinct(s)  == \A i, j \in 1..Len(s) : s[i] = s[j] => i = j
UpTo(s, n)   == SubSeq(s, 1, n)

(* The members of a set of numbers, in increasing order, and the elements   *)
(* of a sequence at these places.                                          *)
Ordered(I)   == [n \in 1..Cardinality(I) |->
                   CHOOSE i \in I : Cardinality({k \in I : k <= i}) = n]
Picked(s, I) == [n \in 1..Cardinality(I) |-> s[Ordered(I)[n]]]

(* Orders of up to n different members of S. *)
Orders(S, n) == {q \in UNION {[1..k -> S] : k \in 0..n} : Distinct(q)}

NoCurrent == [p \in Particle |-> [c \in 0..NCell |-> 0]]

(* The slots of bin c, in order. *)
BinSlots(c) == [i \in 1..binLength[c] |-> binOffset[c] + i]

(* After InitBin: sorted by cell, every particle in its bin.  It initializes *)
(* every tile, for RedistributeCPU has made all of them, an empty one with  *)
(* empty bins.                                                             *)
SortedByCell(q) == \A i, j \in 1..Len(q) : i < j => cell[q[i]] <= cell[q[j]]
InCell(c)       == {i \in 1..Len(slots) : cell[slots[i]] = c}
BelowCell(c)    == {i \in 1..Len(slots) : cell[slots[i]] < c}

Init ==
  /\ pc = "idle" /\ step = 0 /\ isLastStep = FALSE
  /\ cell \in [Particle -> 0..NCell]
  /\ slots \in Orders(Particle, MaxArrive)
  /\ Elems(slots) = {p \in Particle : cell[p] # 0}
  /\ SortedByCell(slots)
  /\ idcpu = slots
  /\ carried = [p \in Particle |-> p]
  /\ binLength = [c \in Cell |-> Cardinality(InCell(c))]
  /\ binOffset = [c \in Cell |-> Cardinality(BelowCell(c))]
  /\ moveBegin = Len(slots)
  /\ newBegin  = Len(slots)
  /\ initialized = TRUE
  /\ binToIp = [c \in Cell |-> <<>>]
  /\ bin = 1 /\ todo = <<>> /\ newLength = 0 /\ front = 0 /\ back = 0
  /\ buf = <<>>
  /\ current = NoCurrent /\ added = {}

---------------------------------------------------------------------------
FreshKeepsBins(old, fresh) == old   \* Mutant: the layout travels along.

(* What a tile's metadata become when the tile is made anew.                *)
Fresh(old, fresh) == fresh

(* The order in which the particles of the tile arrive at another rank.     *)
Reordered == {q \in [1..Len(slots) -> Elems(slots)] : Distinct(q)}
IdOf(p)   == idcpu[CHOOSE i \in 1..Len(slots) : slots[i] = p]

(* CheckLoadBalance gives the tile to another rank, where its particles are  *)
(* appended to a new tile; an empty tile is dropped and made anew in any    *)
(* case.  The metadata of a new tile are set by the first sweep, to the    *)
(* values they are given here.                                             *)
LoadBalance ==
  /\ pc = "idle" /\ step < LastStep
  /\ slots = <<>> => EmptyMoves
  /\ slots' \in Reordered
  /\ idcpu' = [i \in 1..Len(slots) |-> IdOf(slots'[i])]
  /\ binOffset' = Fresh(binOffset, [c \in Cell |-> -1])
  /\ binLength' = Fresh(binLength, [c \in Cell |-> 0])
  /\ moveBegin' = Fresh(moveBegin, 0)
  /\ newBegin' = 0 /\ initialized' = FALSE
  /\ UNCHANGED <<pc, step, isLastStep, cell, carried, sweep, current, added>>

---------------------------------------------------------------------------
(* The sweep.                                                              *)

(* WarpX::Evolve sets is_last_step and never clears it.  WarpXParIter skips *)
(* an empty tile, which is neither swept, packed nor deposited and keeps    *)
(* its metadata; any other tile has its metadata set, if it is new, and its *)
(* unsorted tail binned.                                                   *)
StartSweep ==
  /\ pc = "idle" /\ step < LastStep
  /\ isLastStep' \in {isLastStep, TRUE}
  /\ IF slots = <<>>
       THEN pc' = "deposited" /\ UNCHANGED <<sweep, initialized>>
       ELSE /\ pc' = "binned" /\ initialized' = TRUE
            /\ binToIp' = [c \in Cell |->
                 Ordered({i \in (moveBegin + 1)..Len(slots) : cell[slots[i]] = c})]
            /\ bin' = 1 /\ todo' = BinSlots(1) /\ newLength' = 0
            /\ front' = 0 /\ back' = Len(slots)
            /\ buf' = [i \in 1..Len(slots) |-> Empty]
  /\ current' = NoCurrent
  /\ UNCHANGED <<step, tile, binOffset, binLength, moveBegin, newBegin, added>>

Lanes == IF Len(todo) < VL THEN Len(todo) ELSE VL

BackByLanes(move) == back - Lanes   \* Mutant: by the vector, not by its movers.

BackAfter(move) == back - Len(move)

(* One vector of the bin's range or of its bin_to_ip list: every lane is    *)
(* gathered with the fields of cell bin and pushed, and the two groups are  *)
(* compacted into the two ends of the buffer.                              *)
PushVector ==
  /\ pc \in {"binned", "tail"} /\ todo # <<>>
  /\ LET lane  == [i \in 1..Lanes |-> slots[todo[i]]] IN
     \E dest \in [Elems(lane) -> 0..NCell] :
       LET stay == Picked(lane, {i \in 1..Lanes : dest[lane[i]] = bin})
           move == Picked(lane, {i \in 1..Lanes : dest[lane[i]] # bin}) IN
       /\ cell' = [p \in Particle |-> IF p \in Elems(lane) THEN dest[p] ELSE cell[p]]
       /\ buf' = [i \in 1..Len(buf) |->
            CASE i \in (front + 1)..(front + Len(stay)) -> stay[i - front]
              [] i \in (BackAfter(move) + 1)..back /\ i - BackAfter(move) <= Len(move)
                   -> move[i - BackAfter(move)]
              [] OTHER -> buf[i]]
       /\ front' = front + Len(stay)
       /\ back' = BackAfter(move)
       /\ newLength' = newLength + Len(stay)
  /\ todo' = SubSeq(todo, Lanes + 1, Len(todo))
  /\ UNCHANGED <<pc, step, isLastStep, slots, idcpu, carried, bins, binToIp, bin,
                 current, added>>

EndBinned ==
  /\ pc = "binned" /\ todo = <<>>
  /\ pc' = "tail" /\ todo' = binToIp[bin]
  /\ UNCHANGED <<step, isLastStep, tile, bins, binToIp, bin, newLength, front, back, buf,
                 current, added>>

NewOffset == front - newLength

(* The bin's new range ends where the front writer is.  After the last bin  *)
(* the buffers become the tile's arrays; idcpu is not among them.          *)
EndBin ==
  /\ pc = "tail" /\ todo = <<>>
  /\ binLength' = [binLength EXCEPT ![bin] = newLength]
  /\ binOffset' = [binOffset EXCEPT ![bin] = NewOffset]
  /\ newLength' = 0
  /\ IF bin < NCell
       THEN /\ pc' = "binned" /\ bin' = bin + 1 /\ todo' = BinSlots(bin + 1)
            /\ UNCHANGED <<slots, moveBegin>>
       ELSE /\ pc' = "swept" /\ moveBegin' = back /\ slots' = buf
            /\ UNCHANGED <<bin, todo>>
  /\ UNCHANGED <<step, isLastStep, idcpu, cell, carried, newBegin, initialized, binToIp,
                 front, back, buf, current, added>>

---------------------------------------------------------------------------
(* The end of the step.                                                    *)

(* Mutant: the whole tile is scanned and compacted, the prefix with it.     *)
CompactedWhole(q, n) ==
  /\ Elems(q) = Elems(slots)
  /\ \A i \in 1..Len(q) : i > n <=> cell[q[i]] = 0

(* fusion_pack_unr: PackCompaction shows that it leaves the prefix alone    *)
(* and ends with the gone particles behind the others.                     *)
Compacted(q, n) ==
  /\ UpTo(q, moveBegin) = UpTo(slots, moveBegin)
  /\ Elems(q) = Elems(slots)
  /\ \A i \in 1..Len(q) : i > n <=> cell[q[i]] = 0

(* The gone particles are packed with the identifier found in their slot.   *)
Pack ==
  /\ pc = "swept" /\ ~isLastStep
  /\ \E q \in [1..Len(slots) -> Elems(slots)], n \in moveBegin..Len(slots) :
       /\ Compacted(q, n)
       /\ slots' = q /\ newBegin' = n
       /\ carried' = [p \in Particle |->
            IF \E i \in (n + 1)..Len(q) : q[i] = p
              THEN idcpu[CHOOSE i \in (n + 1)..Len(q) : q[i] = p] ELSE carried[p]]
  /\ pc' = "packed"
  /\ UNCHANGED <<step, isLastStep, idcpu, cell, binOffset, binLength, moveBegin,
                 initialized, sweep, current, added>>

UnsortedKept == (moveBegin + 1)..newBegin  \* Mutant: without the departed ones.

Unsorted == (moveBegin + 1)..Len(slots)

InBin(i, c) == c # 0 /\ i \in (binOffset[c] + 1)..(binOffset[c] + binLength[c])

(* DepositCurrent, after the puts have been started: the slots of a bin     *)
(* deposit from the cell of the bin, without a look at where they are; the *)
(* slots behind g_move_begin from the cell they are found in.  The current *)
(* is that of half a step before, where a particle that has stayed in its  *)
(* cell was in the same cell.  Departed particles are still in the arrays. *)
Deposit ==
  /\ pc = IF isLastStep THEN "swept" ELSE "packed"
  /\ current' = [p \in Particle |-> [c \in 0..NCell |->
       Cardinality({i \in 1..Len(slots) : slots[i] = p /\ InBin(i, c)})
       + Cardinality({i \in Unsorted : slots[i] = p /\ cell[p] = c})]]
  /\ pc' = "deposited"
  /\ UNCHANGED <<step, isLastStep, tile, bins, sweep, added>>

(* Particles that may come in: outside the tile, and not in its arrays.     *)
Away == {p \in Particle : cell[p] = 0} \ Elems(slots)

Place(q, c) == [p \in Particle |-> IF p \in Elems(q) THEN c[p] ELSE cell[p]]
Ids(q)      == [i \in 1..Len(q) |-> carried[q[i]]]

(* MoveWindow or ContinuousFluxInjection add a new particle to the tile     *)
(* between the pack and the collects.                                      *)
Inject ==
  /\ Injecting /\ pc = "deposited"
  /\ \E p \in Away, c \in Cell :
       /\ slots' = Append(slots, p)
       /\ idcpu' = Append(idcpu, carried[p])
       /\ cell' = [cell EXCEPT ![p] = c]
       /\ added' = added \cup {p}
  /\ UNCHANGED <<pc, step, isLastStep, carried, bins, sweep, current>>

KeptPrefix(s) == UpTo(s, moveBegin)   \* Mutant: erases all unsorted particles.

Kept(s) == UpTo(s, newBegin)

(* fusion_local_collect: everything from g_new_particles_begin on is        *)
(* erased, then what the threads staged for this tile is appended.          *)
LocalCollect ==
  /\ pc = "deposited" /\ ~isLastStep
  /\ \E q \in Orders(Away, MaxArrive) : \E c \in [Elems(q) -> Cell] :
       /\ slots' = Kept(slots) \o q
       /\ idcpu' = Kept(idcpu) \o Ids(q)
       /\ cell' = Place(q, c)
  /\ pc' = "collect"
  /\ UNCHANGED <<step, isLastStep, carried, bins, sweep, current, added>>

(* fusion_unr_remote_collect: appends the particles of the receive blocks. *)
RemoteCollect ==
  /\ pc = "collect"
  /\ \E q \in Orders(Away, MaxArrive) : \E c \in [Elems(q) -> Cell] :
       /\ slots' = slots \o q
       /\ idcpu' = idcpu \o Ids(q)
       /\ cell' = Place(q, c)
  /\ pc' = "sort"
  /\ UNCHANGED <<step, isLastStep, carried, bins, sweep, current, added>>

(* One removal of RedistributeCPU: the last particle fills the hole.        *)
FillHole(s, i) == UpTo([s EXCEPT ![i] = s[Len(s)]], Len(s) - 1)

FirstGone == CHOOSE i \in 1..Len(slots) :
               cell[slots[i]] = 0 /\ \A j \in 1..(i - 1) : cell[slots[j]] # 0

(* RedistributeLocal on the last step: particles outside the tile are taken *)
(* out one by one, each carrying the identifier of its slot ...            *)
RedistributeOut ==
  /\ pc \in {"deposited", "leaving"} /\ isLastStep
  /\ \E i \in 1..Len(slots) : cell[slots[i]] = 0
  /\ slots' = FillHole(slots, FirstGone)
  /\ idcpu' = FillHole(idcpu, FirstGone)
  /\ carried' = [carried EXCEPT ![slots[FirstGone]] = idcpu[FirstGone]]
  /\ pc' = "leaving"
  /\ UNCHANGED <<step, isLastStep, cell, bins, sweep, current, added>>

(* ... and those that enter it are appended.  A tile that was emptied has   *)
(* been dropped and is defined anew, with no bin filled: the state it has.  *)
RedistributeIn ==
  /\ pc \in {"deposited", "leaving"} /\ isLastStep
  /\ \A i \in 1..Len(slots) : cell[slots[i]] # 0
  /\ \E q \in Orders(Away, MaxArrive) : \E c \in [Elems(q) -> Cell] :
       /\ slots' = slots \o q
       /\ idcpu' = idcpu \o Ids(q)
       /\ cell' = Place(q, c)
  /\ pc' = "sort"
  /\ UNCHANGED <<step, isLastStep, carried, bins, sweep, current, added>>

(* The step ends; SortParticlesByBin is not called, sort_intervals naming   *)
(* no step by default on a CPU.                                            *)
EndStep ==
  /\ pc = "sort"
  /\ pc' = "idle" /\ step' = step + 1
  /\ added' = added \ Elems(slots)
  /\ UNCHANGED <<isLastStep, tile, bins, sweep, current>>

Next ==
  \/ LoadBalance \/ StartSweep \/ PushVector \/ EndBinned \/ EndBin
  \/ Pack \/ Deposit \/ Inject \/ LocalCollect \/ RemoteCollect
  \/ RedistributeOut \/ RedistributeIn \/ EndStep

Spec == Init /\ [][Next]_vars

---------------------------------------------------------------------------
TypeOK ==
  /\ pc \in {"idle", "binned", "tail", "swept", "packed", "deposited", "collect",
            "leaving", "sort"}
  /\ step \in 0..LastStep /\ isLastStep \in BOOLEAN
  /\ slots \in Seq(Particle) /\ idcpu \in Seq(Particle)
  /\ cell \in [Particle -> 0..NCell] /\ carried \in [Particle -> Particle]
  /\ binOffset \in [Cell -> Int] /\ binLength \in [Cell -> Nat]
  /\ moveBegin \in Nat /\ newBegin \in Nat /\ initialized \in BOOLEAN
  /\ binToIp \in [Cell -> Seq(Nat)] /\ bin \in Cell /\ todo \in Seq(Nat)
  /\ newLength \in Nat /\ front \in Nat /\ back \in Int
  /\ buf \in Seq(Particle \cup {Empty})
  /\ current \in [Particle -> [0..NCell -> Nat]] /\ added \subseteq Particle

(* Every particle of the tile is gathered with the fields of the cell it is *)
(* in: the bin ranges left by the last sweep still describe the arrays when *)
(* the next sweep reads them.                                              *)
FieldsOfItsCell ==
  pc \in {"binned", "tail"} => \A i \in 1..Len(todo) :
    todo[i] <= Len(slots) /\ cell[slots[todo[i]]] = bin

(* Every particle of the tile, the departing ones included, deposits its    *)
(* current exactly once, from the cell it is in: the bins and the slots    *)
(* behind g_move_begin divide the arrays between them also after the pack. *)
DepositedOnce ==
  pc = "deposited" => \A p \in Particle, c \in 0..NCell :
    current[p][c] = IF p \in Elems(slots) \ added /\ cell[p] = c THEN 1 ELSE 0

(* The front and the back writer of the kernel never cross and leave the    *)
(* hole between them; when they have met the buffers are full.             *)
WritersMeet ==
  /\ pc \in {"binned", "tail"} =>
       /\ front <= back
       /\ \A i \in 1..Len(buf) : buf[i] = Empty <=> i \in (front + 1)..back
  /\ pc = "swept" => \A i \in 1..Len(slots) : slots[i] # Empty

(* fusion_local_collect erases from g_new_particles_begin and reads one     *)
(* receive buffer per thread: both exist once the layout of the tile has    *)
(* been initialized, as an empty one when the tile has nothing to build it  *)
(* from.                                                                   *)
CollectsInitialized == pc = "deposited" /\ ~isLastStep => initialized

(* The identifier array keeps the length of the attribute arrays and no     *)
(* identifier occurs twice, although the sweep does not move it.           *)
IdentifiersDistinct == Len(idcpu) = Len(slots) /\ Distinct(idcpu)

(* The particles of the domain that are in the tile.                        *)
Inside == {p \in Particle : cell[p] # 0}

(* No particle is lost or doubled by the sweep, pack and collects: the two  *)
(* writers of the sweep meet, the identifiers stay as many as the particles *)
(* and different, and between two steps the tile holds exactly the         *)
(* particles that are in it, those injected after the pack excepted.       *)
NoParticleLost ==
  /\ WritersMeet
  /\ IdentifiersDistinct
  /\ pc = "idle" => /\ Distinct(slots)
                    /\ Elems(slots) \subseteq Inside
                    /\ Inside \ added \subseteq Elems(slots)

(* Nor is a particle lost that was injected during the step.                *)
InjectedKept == pc = "idle" => added \subseteq Elems(slots)

(* Nothing but the sweep disturbs the binned prefix of the tile: pack,      *)
(* collects and the fallback only change what lies behind it, and a load    *)
(* balance begins anew.                                                    *)
PrefixKept ==
  [][pc # "tail" /\ (initialized => initialized') => UpTo(slots', moveBegin') = UpTo(slots, moveBegin)]_vars
===========================================================================
