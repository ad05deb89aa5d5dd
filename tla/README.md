# Verification of the POLAR-PIC particle path

POLAR-PIC AD is a downstream of WarpX. It replaces the particle half of the
time step by a *fused* path: particles are kept physically sorted by cell, they
are pushed cell by cell, those that leave their tile are packed as part of the
push, and they travel to neighboring ranks by one-sided puts of the UNR library
while the current is deposited. This directory holds the TLA+ models of that
path, of the communication library below it and of the time step driver above
it, the TLC runs that check them on small instances, and TLAPS proofs of the
results that matter most for every size.

Paths below are relative to the repository. *PPC* stands for
`src/Source/Particles/PhysicalParticleContainer.cpp`.

## 1. Inventory

### 1.1 What is core

The repository is WarpX and AMReX with a handful of changed files: PPC,
`WarpXParticleContainer.cpp`, `Deposition/CurrentDeposition.H`,
`MultiParticleContainer.cpp`, `Evolve/WarpXEvolve.cpp`, `WarpX.H`,
`Initialization/`, AMReX's `AMReX_ParticleTile.H`, and the vendored UNR library
under `src/deps/UNR_AD`. The models are about those, and about the part of the
upstream driver (calls of `Evolve`, signals, full diagnostics, checkpoint and
restart, load balance) that decides when the fused path runs and what it finds.
The configuration modelled is the one the code is published for: one level,
explicit push, direct current deposition of order 3, `UNROLL_OMP_UNR` and
`PUSH_vpu_mpu_PHYSORT_FUSION_ORDER3` defined. The UNR functions the particle
path calls (`unr_blk_part_rdma_batch_start`, `unr_mem_alloc_reg`) are not in the
library snapshot of the repository, so `FusionExchange` models its transport from
its use and marks it external; the plans, signals and the MPI channel that are in
the snapshot have modules of their own.

### 1.2 Components

| Component | State it keeps | Operations | Interacts through |
|---|---|---|---|
| Set-up of the exchange (PPC 2735-3025) | redistribute mask, `neighbor_procs`, `who_to_idx`, registered blocks and signals, remote handles | build mask, register, exchange handles, clear; again after a load balance | a collective registration, MPI messages with a counted tag, `FillBoundary` of the mask |
| Fused exchange (PPC 3221-3616, `WarpX.H` 414-593) | count and data block and one-event signal for each neighbor and thread, on both sides | pack, put, wait, remote collect | one-sided puts between ranks; the head of the step orders neighbors |
| Sorted tile (`AMReX_ParticleTile.H` 1274-1428, PPC 5080-5684) | attribute arrays, identifier array, bin offsets and lengths, `g_move_begin`, `g_new_particles_begin`, `is_physort_initialized` | `InitBin`, sweep (push and re-sort), pack, deposit, local and remote collect, fallback `RedistributeLocal`, load balance, injection, sorting | all of them share the arrays and trust the marks the others left |
| Compaction (PPC 6075-6331) | list of departing slots, tail index, the arrays | scan, scalar swaps, vector swaps, partition point | its mark tells the collect what to erase |
| Bin numbering (`GuardCellManager.cpp`, PPC 5246-5255) | guard cells of E, B and J; linear bin numbers | number a cell, decide stay / leave | three places number bins on two different boxes |
| Deposition (`CurrentDeposition.H` 5629-6090) | per-bin currents, J | visit the bins, then the unsorted tail; flush the bins to the nodes of J | reads the sweep's bins after the pack has permuted the tail |
| Step driver (`WarpXEvolve.cpp`, `SignalHandling.cpp`, full diagnostics, `WarpXIO.cpp`) | step number, `is_last_step`, `is_synchronized`, requested signal actions, `m_already_done`, the domain; checkpoints on disk | enter and leave `Evolve`, check and wait for signals, half pushes, boundary handling, dumps, restart | calls all of the above in order; ranks meet in exchanges and a non-blocking broadcast |
| Load balance (`WarpXRegrid.cpp`) | distribution map | redistribute boxes, define tiles anew | invalidates neighbors, handles and the marks of the sorted tiles |
| Incremental sort (PPC 4804-5079) | linked index of a tile | rebuild, move | nothing in this snapshot calls it |
| MPI variant of the exchange | MPI requests and buffers | the same four, without UNR | compiled only without `UNROLL_OMP_UNR` |
| UNR signals and plans (`unr/base`) | event counters, plans, memory tables, the queue of a pool | register, plan now or later, start, split over channels, detect, arm, destroy | the exchange rests on their contract |
| UNR MPI channel (`uri/mpi`) | tags and batch numbers, control and data messages, slots of the target, request list | put, plan, start, destroy; the daemon's drain, test, signal, release, remove | user threads append to the list while the daemon works on a copy of it |
| Multi-species wrapper | list of containers | forward each call | the species take turns in one step |

`PROJECT.json` lists these and the parts left aside, with the lines each
definition of a model stands for.

### 1.3 What is hard here

* **No acknowledgement.** A rank puts into its neighbor's receive block without
  asking. There is one block and one one-event signal per neighbor and thread, no
  second buffer, no credit. That the block has been read, and the signal reset,
  before the next put arrives follows only from the guard-cell exchange at the
  head of the next step, which is written for another purpose.
* **Zero-size puts.** An empty put triggers no signal. Both sides must agree, from
  two different copies of the same count, on whether there is data to wait for.
* **One array filled from two ends.** The sweep writes staying particles from the
  front and leaving ones from the back of one buffer, while the bin ranges it reads
  are those of the sweep before.
* **In-place vector swaps.** The compaction gathers, stores and scatters the same
  arrays; overlap of the gathered slots and the tail block would duplicate one
  particle and lose another.
* **Marks trusted later.** `g_move_begin`, `g_new_particles_begin` and the bin
  ranges are written at one point of the step and used at another; injection,
  sorting and the fallback on the last step come in between.
* **Two numberings.** `InitBin` and the deposition number cells on the box grown
  by the guard cells of J, the sweep on the box grown by those of E.
* **Collective set-up with an early return.** A rank without neighbors leaves the
  set-up before the collective.

* **Moved tiles.** A load balance gives a box to another rank: its particles reach
  a tile without bins, in another order, and the set-up of the exchange is repeated
  with new numbers for the neighbors.
* **Rows of bins, rows of nodes.** The deposition sums per bin in an array with as
  many rows as there are bins and flushes it, several slots at a time, to an array
  with as many rows as there are nodes.
* **Two-sided messages under one-sided writes.** The MPI channel sends data before
  its receive is posted, gives tags and batch numbers out again, and lets threads
  append to the list the daemon is removing from.
* **Split writes.** A write divided over channels counts its signal down by
  increments of both signs that add up to -1; pieces of several writes mix. The
  channels of MPI add these increments, those of verbs count one event per piece.
* **Decisions that must be the same on all ranks.** Signals arrive at rank 0 at any
  time and reach the others by a broadcast; dumps and the end of `Evolve` are
  collective.
* **Time centering across breaks and restarts.** Momenta are half a step behind
  positions or not, and one flag in the header of a checkpoint says which.

The fused exchange persists nothing and its transport neither loses nor repeats a
message, so there is no retry to model there; crash and restart are modelled where
the code has them, in the driver.

## 2. Modules

| Module | Models | Checked by | Proved in |
|---|---|---|---|
| `ParticleTransfer` | abstract: one mailbox per channel | as property `ExactTransfer` | - |
| `FusionExchange` | pack sizes, put, wait, collect, signals, transport | `exchange` | `FusionExchange_proofs` |
| `PackCompaction` | the loops of `fusion_pack_unr` on one tile | `pack_compaction` | `PackCompaction_proofs` |
| `PhysSort` | one tile over many steps | `phys_sort`, `inject_lost`, `empty_tile` | `PhysSort_proofs` |
| `BinGeometry` | guard cells, bin numbers, decisions taken from them, nodes of J | `bins` | `BinGeometry_proofs` |
| `UnrSetup` | mask, registration, handle exchange, load balance | `setup` | `UnrSetup_proofs` |
| `OneSidedWrite` | abstract: a write gives one event on each side | as property `OneEventEach` | - |
| `UriMpiChannel` | the MPI channel of UNR | `mpi_channel` | `UriMpiChannel_proofs` |
| `UriMpiInvariant` | no code: the inductive invariant of `UriMpiChannel` and the words of its proofs | by proof | `UriMpiChannel_proofs` |
| `UnrPlan` | plans, division, signals and pools of UNR | `unr_plan`, `plan_verbs` | `UnrPlan_proofs` |
| `EvolveLoop` | `Evolve` on all ranks, signals, dumps, restart | `evolve_loop`, `checkpoint_domain` | `EvolveLoop_proofs` |

The modules meet at these points. `UnrSetup` ends with what `FusionExchange`
takes for granted (`ChannelsPaired`). `PhysSort` uses the compaction as one
action, `Compacted`, whose three conjuncts are what `PackCompaction` proves
(`PrefixUntouched`, `NoParticleDuplicated`, `Partitioned`). The particles that
`PhysSort` packs and collects are those whose number and step `FusionExchange`
follows from block to block. `BinGeometry` justifies that `PhysSort` may speak of
cells where the code compares linear numbers. `UriMpiChannel` implements
`OneSidedWrite`, which is what `UnrPlan` assumes of its channels (a piece that is
started takes effect once, in any order) and what the puts of `FusionExchange` do.
`EvolveLoop` decides in which steps `isLastStep` of `PhysSort` is set and shows
that all ranks decide so together; its `Exchanges` guard is the step order that
`FusionExchange` keeps in detail.

### 2.1 FusionExchange

One process per rank, with the program counter `begin, fill, pack, put, wait,
collect`, and the transport. `EnterFill` / `LeaveFill` stand for
`FillBoundaryE/B`: a rank goes on when every neighbor has started the exchange of
the same step. That neighborhood in the particle mask is covered by neighborhood of
the guard cells, which are at least as wide, is taken from the code's geometry.
`Pack` clears the sizes and lets the threads write any load; `Put` copies sizes to
count blocks and starts the batch; `WaitCount` and `WaitData` are the two inner
loops of `fusion_unr_wait`, in the order of neighbors and threads; `Collect` reads
the blocks. A put is a record that is *issued* and then completes at its source
(`Sent`) and its target (`Land`) in either order; its payload is fixed at the first
of the two, so a send block that is overwritten too early shows up as a wrong
payload. A data block holds the step its payload is from: that is all the
properties need to tell whether a parcel is the right one.

### 2.2 PackCompaction

The scan (one lane at a time; `svcompact` keeps the order), the scalar loop while
the last listed slot is within a vector of the tail, and the vector loop. The
seven attribute arrays are one array of particles, since each is moved alike.

### 2.3 PhysSort

One tile, its attribute array `slots`, its identifier array `idcpu`, and the cell
each particle is in. A step is: bin the unsorted tail, for each bin push the
vectors of its range and of its tail list (`PushVector`, any destination cell for
each lane), swap the buffers in, pack, deposit, perhaps inject, local collect,
remote collect. When `isLastStep` has been set the pack and the collects are
replaced by `RedistributeLocal`. It is never cleared, although `Evolve` may be
called again, so the model lets steps follow it. An empty tile is skipped by
`WarpXParIter` and keeps its metadata. `LoadBalance` gives the tile to a new owner:
its particles arrive in any order in a tile whose metadata the next sweep sets
(`Fresh`, `initialized`). What the identifier array and the two writers of the
sweep must satisfy (`IdentifiersDistinct`, `WritersMeet`) are parts of
`NoParticleLost`.

### 2.4 BinGeometry

One particle of one tile, in cell coordinates. The guard cells come from
`guardCellManager::Init` for one level; bin numbers are computed as the code does,
row by row. `Push` moves the particle by at most one cell in each direction, which
is the Courant condition the code relies on. For the deposition the module holds
the layout of the kernel: which entries of the per-bin array a binned particle adds
to (`Rhocells`), to which node of J the flush carries each (`JIndex`, `Flushed`),
and which nodes the kernel for unsorted particles adds to (`Direct`). Weights are
left out: `CurrentAroundCell` compares the sets of nodes. It holds for the
collocated grid the published inputs select (`Examples/inputs/lia-3d.modify`,
`test-uni-16`); section 5 says what happens on another one.

### 2.5 UnrSetup

Boxes, a distribution map, and for each rank and species the mask, the collective,
the handle messages and their tag. Threads are left out of the handles: block
numbers of threads are the same on both sides. `Rebalance` chooses another map when
all ranks are through, and every species is set up again; `whoToIdx` keeps what the
`map` of the code keeps from earlier rounds (`Reindexed`).

### 2.6 OneSidedWrite and UriMpiChannel

User threads run short programs of `put`, `create`, `start`, `wait`, `sync`,
`destroy`; each call is split where another thread or the daemon can see its parts
(`Put` / `PutCtrl` / `ListRequests`; `Destroy` / `DestroyCtrl` / `DestroyIds`). The
daemon of a rank is `Drain` (one control message), `Test` (a copy of the list is
tested and some requests are complete), `Signal` and `Release` for each complete
request, and `Unlist`, the removal by index. Integer pools are as in the code: what
is returned last is given out first. Of MPI the module uses that messages of one
pair of ranks match in order, per tag; that a send may complete before or after it
is received; and that a test returns any non-empty set of what can be complete, the
sends of short control messages among it. Closing a channel
(`uri_mpi_channel.c` 283-297) is left out. The restart of a plan follows the tests
(`53_unr_sig_reset.c`): both sides have waited for their signals, reset them and met
at a barrier (`Sync`). What callers keep to is the assumption `CallerAssumption`
(`Lawful`): an operation follows the put or create it is about, a plan is started again
or destroyed only after a `Sync` of its last start (MPI forbids to start or free an
active request), and a destroyed plan is not used again. `sent` and `landed` are history variables, from which the
refinement mapping to `OneSidedWrite` is made.

### 2.7 UnrPlan

One rank writes, its peers register memory and detect signals. `Planned` is the loop
of `unr_rdma_plan_create` over the writes of a batch: the division of each over the
channels of its group (`Divided`; whole blocks first, the rest handed on from where
the last write of the group stopped), the offsets and the increments (`SigAdd`, with
`High` for 2^32). A channel is of type mpi or verbs (`Verbs`), and several of one type
can share a write: `URI_MPI_DEVICE_NUM` provides mpi0, mpi1 and so on
(`uri_mpi_channel.c` 18-43), a rank with several devices verbs0, verbs1 and so on. The
daemon of an MPI channel adds the increment of a piece to the counter (`Land`); verbs
drop it and count -1 for each piece (`Counted`; `uri_verbs_rdma.c` 4-23). The assertions
of the two (`uri_mpi_channel.c` 221, `uri_verbs_rdma.c` 5) are compiled in with
`ASSERT_CHECK` only, which is off by default, so no step of the model stops at them.
`HandleAt` is where `unr_init` puts the handle of a channel in that of a block; as the
plan takes the offset from the other list, a channel finds the block only where both are
the same (`MemAt`). The settings under which these things do no harm are named
`WholeOnVerbs` (no write is divided over channels of verbs) and `HandlesAgree`. A plan
made before the memory of a target is known keeps a copy of its parameters (`para`) and is completed by `StartLater`; `Reuse` is the caller that
overwrites its arrays in the meantime. The pool is the ring of `queue.c` with its
look before the lock (`Poll`) and the one under it (`Take`). What callers keep to is
in `Acknowledged`, from the tests of the library: they start or destroy a plan when
its targets have acknowledged the last start. Recursion is by functions.

### 2.8 EvolveLoop

One process per rank and the disk. A call of `Evolve` is `Enter`, then for each step
`Begin` (signals are checked), `Push`, `HandleBoundaries`, `Diagnose`,
`HandleSignals`, `CheckStop`, and in the end `Leave` with the dump of the last time
step. Ranks meet where the code communicates: `Push` needs the fields of the others
(`Arrived`), `HandleBoundaries` their particles (`Exchanges`), `HandleSignals` the
broadcast of rank 0. Times are integers (ticks); the tolerance of the code,
`1.e-3*dt`, is `Tol`. Momenta are the number of half steps they have made, the
domain the number of Galilean shifts. There is one full diagnostic of format
checkpoint with an interval. `Crash` is the loss of the job and a restart from any
complete checkpoint, with the script run from its beginning. Load balance,
back-transformed and reduced diagnostics, the moving window and field solvers are
left out.

## 3. Runs

Bounds are named constants of the modules and given in the `.cfg` files.

| Run | Instance | What it shows |
|---|---|---|
| `exchange` | ranks 1-2-3 in a row, 2 steps, loads that are sometimes, always or never empty | no signal is triggered before its reset, puts in flight belong to the target's step, send blocks and counts are stable, the exchange implements `ParticleTransfer`, every rank ends all its steps |
| `pack_compaction` | 7 particles, vectors of 2, every prefix and every departing set | permutation, partition, disjoint blocks, prefix untouched, termination |
| `phys_sort` | 3 particles, 2 cells, vectors of 2, 2 steps, injection and load balances | right fields, one deposition per particle, no particle lost or doubled, prefix kept |
| `bins` | tiles of 1 or 2 cells a side, finite-difference solver, no NCI filter | both numberings agree and hide no departure or change of cell, and the deposition by bins adds to the nodes of the direct one |
| `setup` | 4 boxes in a row on 3 ranks, every map that gives each rank a box, 2 species, 2 rounds | blocks are paired, everybody gets through |
| `mpi_channel` | 2 ranks, 4 threads, five sets of programs: concurrent puts, a put after a put, puts in both directions, a destroyed plan next to a new one, a plan of two writes started twice | each receive gets its own data, control messages fit the table of the target, signals are exact, requests are neither lost nor kept, the channel implements `OneSidedWrite`, all is delivered |
| `unr_plan` | 2 plans, three channels of MPI to either node, blocks of 2 bytes, writes of 0 to 9 bytes, 2 polling threads | pieces tile the writes, a counter is zero exactly when all has landed, reports are single, each start is detected |
| `evolve_loop` | 2 ranks, 3 steps, 2 calls of `Evolve`, 4 stop times, 2 signals, 1 crash | ranks decide alike, no step is dumped twice, momenta and flag agree, a checkpoint signal is served |
| `inject_lost` | as `phys_sort`, one step | violated: finding 1 |
| `empty_tile` | as `phys_sort`, a load balance may find the tile empty | violated: finding 2 |
| `checkpoint_domain` | as `evolve_loop` | violated: finding 3 |
| `plan_verbs` | as `unr_plan`, two channels of verbs | violated: finding 4 |

**Why the bounds are enough.** A chain of three is the smallest graph in which two
ranks are not neighbors and can drift two steps apart, the case in which a put
could overtake a collect; two steps are needed for a second put to meet a first
block. Threads only multiply the waits: the theorems of section 4 are about any
number of threads and steps. In the compaction 7 slots with vectors of 2 give
prefixes, partial last vectors, both loops and their hand-over; the proof covers the
rest. In `PhysSort` two steps are needed for one sweep to read the bins of another,
two cells for a particle to change bin without leaving, two lanes and three particles
for a full and a partial vector. Linear numbers wrap for the first time with one cell
a side, so sides 1 and 2 contain the boundary cases of the numbering; larger tiles are
covered by the proof. In `UnrSetup` a second round is the first that can meet
what an earlier one left. In `UriMpiChannel` a tag is given out again by the second
put of a thread, a batch number by a create after a destroy, and the list has to close
two holes when a batch of two completes at once. In `UnrPlan` three channels and sizes
from zero to more than a round of blocks give whole rounds, a rest of some blocks and a
rest smaller than a block; `High` only has to be larger than the number of events. In
`EvolveLoop` two calls are the first to repeat an `Evolve`; the stop times are beyond
the end, on a step, a tick beyond a step (inside the tolerance) and between two steps;
a second signal can hit the step that serves the first.

**Deadlock** is checked in `mpi_channel`, `unr_plan` and `evolve_loop`, whose final
state has a stuttering step of its own, and in `bins`, which never ends. `exchange`,
`pack_compaction`, `setup` and the runs of `PhysSort` stop at their bound on steps or
species; that nobody stops earlier is checked as liveness (`AllStepsComplete`,
`Terminates`, `AllRegistered`), and not claimed for `PhysSort`.

**Fairness.** Each rank is one MPI process whose main thread keeps running: weak
fairness of `RankNext(r)` in `FusionExchange`, `UnrSetup` and `EvolveLoop`. All waits
are polls on a condition that stays true until the rank itself resets it, so weak
fairness suffices. `WF_vars(Transport)` says that some pending completion is always
made eventually; the puts in flight are finitely many, and UNR drives them from a
progress thread of its own. In `UriMpiChannel` that thread is modelled:
`WF_vars(DaemonNext(r))`, since the daemon loops for ever and MPI delivers what it was
given, and `WF_vars(UserNext(u))` for the threads. In `UnrPlan` the channels and the
polling threads are fair and the writer is not: it may stop at any time, and what it
has started is detected all the same. Signals and crashes are never fair. The
compaction is one thread: `WF_vars(Next)`. `PhysSort` and `BinGeometry` claim no
liveness.

Every property of a passing run has a mutant in `PROJECT.json`: a definition of the
model changed the way a plausible slip in the code would, under which TLC finds the
property violated. The mutated forms stand beside the originals and are marked.

## 4. Proofs

TLAPS checks these for all values of the constants that satisfy the named
assumptions.

* `FusionExchange_proofs`. Assumptions: ranks are numbers, neighborhood is
  symmetric and irreflexive, loads are non-empty sets of naturals. The safety
  properties are not inductive alone: whether a put may land depends on what its
  target has accepted, and that on how far both are in their steps. `IInv`
  therefore keeps books. For each channel and kind, the *round* of the source, the
  completions each side has accepted so far, and the completion that is due are
  balanced against the signal counter and the puts in flight (`SendLedger`,
  `RecvLedger`: due and on the way, due and on the signal, or neither). `Barrier`
  carries what the guard-cell exchange gives: a neighbor's exchange counter is never
  behind. From it, `NothingDue`: when a rank is about to put, both signals of its
  channels are armed and nothing is in flight on them. Results: `TypeCorrect`,
  `SignalsSafe`, `ArrivalsInStep`, `SendBlocksStable`, `CountsStable`. With `Contents`
  (what the blocks hold while a parcel is on its way) added to `IInv`, `Put` maps to
  `Post`, `Collect` to `Take` and all other actions to stutters: `Implements` is
  `Spec => ExactTransfer`.
* `PackCompaction_proofs`, for every number of particles and every vector length.
  `IInv` adds that the list is ascending, that its slots are exactly those of the
  departing particles still before the tail, and that everything behind the tail is
  gone. The vector step is first shown to be an exchange of slots
  (`SwapBlockExchanges`), which needs the two blocks to be disjoint, which in turn
  needs the exit condition of the scalar loop. Results: `TypeCorrect`,
  `PartitionCorrect`, `PermutationCorrect`, `PrefixCorrect`, `BlocksCorrect`.

* `BinGeometry_proofs`, for tiles of every size. Hypothesis `FiniteDifference`: every
  option set has fields to evolve, no PSATD and no NCI filter, as in the published runs.
  The box of E and the box of J then both have four guard cells (`Guards`), so a bin
  number has one meaning in sweep, pack and deposition; `bins` runs under
  the same options. As a row of the box has at least nine cells, two
  cells a particle can move between never have one number (`NeighborsDiffer`), although
  the numbering wraps at the end of a row: `LeavesCorrectly`, `StaysCorrectly`. A number
  splits into row and column in one way (`DivMod`, `InBox`, `Bins`): `BinsCorrect`.
  For the flush of the currents every slot is traced to one node (`FlushOfSlot`) and the
  nodes of all slots are the nodes of the direct deposition (`SameNodes`):
  `CurrentCorrect`.
* `PhysSort_proofs`, for any number of cells, particles and steps and any vector
  length. `IInv` has six parts. The three that carry the argument: outside the sweep
  the bins divide the slots up to `g_move_begin` and each holds the particles of its
  cell (`Binned`); the arrays hold what is in the tile and, behind
  `g_new_particles_begin`, only what may be erased (`Held`); and during the sweep the
  slots already read fill the two ends of the buffer, once each, while as many of its
  slots are empty as are unread (`Swept`). The last is what makes the two writers meet
  however the lanes of a vector divide, and it needs the tail lists to be cut out of the
  same slots the bins leave (`Typed`). Results: `TypeCorrect`, `FieldsCorrect`,
  `NothingLost`, `DepositedCorrect`, `PrefixCorrect`. `InitializedCorrect` is
  conditional: `CollectsInitialized` holds while no box without particles is given
  away (`~EmptyMoves`); with one, the run `empty_tile` violates it.
* `EvolveLoop_proofs`, for any number of ranks, script of calls, stop times, intervals,
  signals and crashes. First each rank alone (`IInv`): while a step is not counted yet,
  that its push was the half push if it is the last (`LastHalfPush`); that dumps are
  ascending and none is of a step to come (`Past`); that a dump of the present step has
  set `m_already_done` (`Dumped`). Then all ranks together (`CInv`): what a rank does
  next is a function of its object and of what rank 0 has broadcast for the step, so
  there is one *course*, a chain of snapshots on which every rank has a place. A rank
  at its end makes it longer, one that is behind repeats the step it already has. Places
  are passed in order along the chain, so two ranks at the same place of the same step
  hold the same object. A crash starts a new chain, which needs that all parts of a
  complete checkpoint come from one course (`OnDisk`). Results: `NoStepDumpedTwice`,
  `EndsSynchronized`, `TypeCorrect`, `DecidedAlike`, `MomentaCorrect`.
* `UnrSetup_proofs`, for any boxes, ranks, species, maps and rounds. Everything is
  measured from *base*, what the tag counters of all ranks were when the distribution
  changed: how often a rank has registered and posted (`Counted`), that nobody is past
  a gather another has not called (`Gathered`) or past a species its neighbors have not
  posted (`Met`), and that the tag of a handle therefore tells its species (`Carried`).
  That one number serves for all ranks survives a load balance because the set-up can
  only be over for all when either every rank has neighbors or none has. Results:
  `PairedCorrect`, and `BoxlessBlocks`: while one rank has no neighbors no rank that has
  some gets through its first gather (section 5).
* `UnrPlan_proofs`, for any peers, channels, block size, requests, signals and threads.
  `RequestAssumption` gives the types of a batch, `PlanAssumption` what a caller keeps
  to: the writes of a batch on a signal are all its events, fewer than `High`; and that
  the channels of one list are of one type. Two settings of the lists are hypotheses of
  the theorems that need them: `WholeOnVerbs` of `Invariance`, `TriggeredCorrect` and
  `ReportedCorrect`, `HandlesAgree` of `PiecesCorrect`; without the first
  `plan_verbs` gives a counterexample, without the second section 5 does. Both hold when the lists name channels of MPI
  only and are of one length (`MpiOnly`), as by default; the second also when the
  lists are equal (`EqualLists`).
  *Division:* the parts of a write add up to it (`DivisionWhole`, the assertion of
  `unr_blk.c` 328-335) and tile it, so a plan does what it was asked for
  (`PiecesCorrect`). *Counters:* over channels that add the increments (`CountsAll`), while any subset of the pieces of a batch is in the air
  the counter holds one for each write whose first piece is in it, `High` for each other
  piece in it, less `High` for each other piece of the writes whose first piece is still
  in it (`Due`). Landing any piece keeps that, and the value is zero only when nothing is
  in the air, because the first pieces are fewer than `High`: `TriggeredCorrect`.
  *Queues:* what is queued or popped is triggered, and in one place only (`Rings`); a
  ring with no room would hold every signal of its pool, the one that has just been
  triggered among them: `ReportedCorrect`.

* `UriMpiChannel_proofs`, for any ranks, threads, targets and programs that satisfy
  `ChannelAssumption` and `CallerAssumption`. Whether the next message fits its table, or
  the next receive gets its own data, depends on what is still under way, so the
  invariant (`IInv` of `UriMpiInvariant`) says of each pair of ranks that there are
  witnesses of what is to come: *tab*, the table of the target after each of the control
  messages under way; *line*, all receives posted or to be posted, in order; *cut*, how
  many of them each message will have posted. `Course` says that they agree with the
  messages and that each message fits the table of its turn (`Fits`: an empty slot for a
  create; for a start or destroy the plan, with no receive of it in the line before).
  `Matched` says that line and the data under way are of the same writes, but for data
  whose message is not sent yet, and in the same order under each tag; since MPI matches
  in order per tag, posted receives are a prefix of the line, and a tag is out with one
  batch only (`TagsHeld`), the n-th receive of a tag is matched by the n-th data. That
  is `OwnDataCorrect`, also when the data came first. `IdsHeld` says that an id is in a
  table to come only while its plan is open or its destroy is under way before the id is
  returned; from it `FitsCorrect`. `Called` relates each thread to its program; `Lists`
  and `Works` say that the list holds a request once and the daemon works on a copy of
  it, for which the removal by index is shown to be a choice of the other requests in
  some order (`CompactedIs`). `Events` says for each write of the last start where its
  event is: with its thread, in the line, listed, worked on, or given. `Signals`: the
  counters are reset, or count the events that are due; and what a program calls
  synchronized is reset, which is what allows the next start. Results: `Invariance`,
  `OwnDataCorrect`, `FitsCorrect`, `SignalsCorrect`, `TrackedCorrect`, and `Implements`,
  the refinement of `OneSidedWrite`: the step of the daemon that moves a signal is the
  event of a write that had none, the call that sends the data is its start.

Recursion: no module declares a RECURSIVE operator. What the recursive functions of
`UnrPlan` compute (`Handed`, `Before`, `Planned`) is proved without an induction theorem:
the naturals are well founded (`NatLessThanWellFounded`, `WFMin`), so a set of
counterexamples has a least member, and that member has a predecessor (`LeastNat`,
`UpTo`).

Every invariant, action property and refinement that a passing run checks is stated by a
theorem. Model-checked only, as out of the prover's reach: liveness under fairness
(`AllStepsComplete`, `Terminates`, `AllRegistered`, `AllDelivered`,
`EveryStartDetected`, `CheckpointServed`) and anything with ENABLED.

## 5. Findings and known limits

Violated runs:

1. `inject_lost`. `fusion_local_collect` (PPC 3643) erases all particles from
   `g_new_particles_begin` on. Continuous injection and the moving window add
   particles after that mark was set, so they are erased in the step that made them.
2. `empty_tile`. After a load balance a box that has become empty has a new tile.
   `WarpXParIter` skips it, so `init_phys_sort` does not run, and
   `fusion_local_collect` uses marks and buffers nobody has initialized.
3. `checkpoint_domain`. With a Galilean grid the domain of a diagnostic is shifted by
   every call of `FilterComputePackFlush`; a dump forced by a signal or by the last
   step is a second call in the same step, and the checkpoint records a domain that is
   not the simulation's.
4. `plan_verbs`. Channels of verbs drop the increment of a piece and count -1 for each
   (`uri_verbs_rdma.c` 17). When a write is divided over several of them, the first
   piece that lands triggers a one-event signal while the others are on their way; the
   assertion that would stop the program is off by default.

Shown by a theorem:

* A rank without remote neighbors, one that has no box for instance, returns (PPC 3003)
  before `unr_mem_reg_sync`, a collective over all ranks (`unr_mem.c` 44), and the
  others wait in it for ever: `BoxlessBlocks`. `WarpXInitData.cpp` 1157-1166 treats ranks
  without a box as a matter of performance, and `domain_decomposition.rst` 34 says that
  the number of ranks need not be that of the boxes. `setup` therefore runs with maps
  that give every rank a box.

Met while reading the code, and not shown by a run:

* The sweep (PPC 5674) and the pack permute seven attribute arrays and not `idcpu`, so
  an identifier does not stay with its particle. Lengths and uniqueness survive
  (`IdentifiersDistinct`).
* `SortParticlesByBin` (`WarpXEvolve.cpp` 547) permutes a tile and leaves its bin
  ranges as they were. `sort_intervals` names no step by default on a CPU.
* With the PSATD solver the guard cells of E grow after those of the deposition were
  copied; bins numbered on one box are then read on the other
  (`WarpXParticleContainer.cpp` 196).
* On a staggered grid, the default (`parameters.rst` 2441), the flush of the deposition
  takes the strides of jx for jy and jz (`CurrentDeposition.H` 6024-6027).
* `resize_who` (`WarpX.H` 525) compares a payload with the block of the sender, which
  may be larger than that of the receiver. Blocks of an earlier set-up are never
  released. Block sizes are products of `int` (PPC 2766) and the list of departing
  particles has `m_init_np` entries (PPC 6132), a number nothing compares.
* MPI channel: the daemon reads `op->flag` (`uri_mpi_channel.c` 226-240) after it has
  moved the counter that lets the owner destroy the plan (the comment at `uri_mpi.h`
  146 is about that). The plan that is used once is read after it is freed
  (`unr_blk.c` 464-472). A plan started again without acknowledgement may start a
  receive that is active.
* `URU_ASSERT(counter >= 0)` (`uri_mpi_channel.c` 221) fails when a piece that is not
  the first of a divided write lands first, although the counter is right in the end:
  several channels of MPI work only in a build without `ASSERT_CHECK`. In `unr_plan`
  the counter does become negative.
* The offsets of the memory handles of the inter and intra channels are swapped
  (`unr_blk.c` 309). With `UNR_INTER=verbs` and MPI on the own node a write to the own
  node looks for its block at the offset of verbs: `HandlesAgree` is false, and TLC
  finds `PiecesTile` violated with these lists in place of those of `unr_plan`.
* A write of size zero gives no event.
* After a break signal `is_synchronized` is false, although `SignalHandling.H` 42 says
  the run stops as if it had reached its configured end. `is_last_step` is never
  cleared (`WarpXEvolve.cpp` 130). `sa_flags` is not set in `InitSignalHandling`.

## 6. What is not modelled

* Floating point: fields, pushes, shapes, currents. Positions are cells.
* Mesh refinement, subcycling, implicit push, collisions, ionization, QED,
  embedded boundaries, resampling and splitting; the fused collects do not support
  several levels.
* Field solvers, PML and boundary conditions, unchanged from upstream: the driver
  holds the exchange they imply.
* The multi-species wrapper: it forwards each call to each species in turn. Species
  take turns in `UnrSetup`.
* The capacity of per-thread buffers and blocks.
* The hardware queues of the verbs channel, whose behaviour is not in the repository:
  `UnrPlan` has what it does to a counter, and that each piece takes effect once.
* The MPI variant of the fused exchange (`fusion_Isend_and_Irecv` and its like) and
  the incremental sort of the deposition: they are compiled, but nothing in a time
  step calls them, so there is no order of calls a model could be faithful to.
* Everything else of WarpX and AMReX, by far the larger part of the source files: it
  is numerical code, input parsing, output formats and vendored libraries.

## 7. Plan

Written, in this order: `ParticleTransfer` and `FusionExchange`, because a lost or
torn message is the failure that is hardest to see; `PackCompaction` and `PhysSort`,
because everything else trusts their marks; `BinGeometry`; `UnrSetup`; then the
library below (`UriMpiChannel` with `OneSidedWrite`, `UnrPlan`), the driver above
(`EvolveLoop`), load balances in `PhysSort` and `UnrSetup`, and the deposition layout
in `BinGeometry`.

Proved since, in this order: the tile (`PhysSort_proofs`), the set-up
(`UnrSetup_proofs`), the ranks of the driver together (`EvolveLoop_proofs`), plans and
signals (`UnrPlan_proofs`), and the MPI channel (`UriMpiChannel_proofs`).

Left: that `Compacted` of `PhysSort` is implied by what `PackCompaction` ends with, as a
theorem that joins the two modules, and that the contract `UnrPlan` assumes of its
channels is `OneSidedWrite` for the MPI channel. A model of the queue pairs of verbs needs
their specification; one of the MPI variant of the exchange waits for code that calls it.
