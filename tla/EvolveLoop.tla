----------------------------- MODULE EvolveLoop -----------------------------
(***************************************************************************)
(* The time step driver WarpX::Evolve on every rank, with what it is built *)
(* around: the time centering of the momenta (is_synchronized), the last   *)
(* step (is_last_step), the diagnostics that write each step at most once  *)
(* (m_already_done), the process signals that rank 0 receives and shares   *)
(* by a non-blocking broadcast, and checkpoint and restart.                *)
(*                                                                         *)
(* Ranks run on their own and meet where the code communicates: no rank    *)
(* pushes before the fields of the others are there (FillBoundary), none   *)
(* ends the exchange of particles before the others have pushed, and       *)
(* WaitSignals returns once rank 0 has posted the broadcast of the step.   *)
(* Fields are left out; of the particles the time of their momenta is      *)
(* kept, counted in half steps; of the domain the number of Galilean       *)
(* shifts it has made.  One diagnostic is modelled, of format checkpoint.  *)
(***************************************************************************)
EXTENDS Integers, SequencesExt

CONSTANTS
    Rank,               \* MPI ranks
    Root,               \* rank 0, the only one that receives signals
    MaxStep,            \* max_step
    Script,             \* arguments of the successive calls of Evolve
    StopTimes,          \* the values of stop_time to try, in ticks
    Dt,                 \* ticks of a step
    Tol,                \* ticks of the tolerance 1.e-3*dt
    Period,             \* intervals of the diagnostic
    CheckpointSignals,  \* warpx.checkpoint_signals
    BreakSignals,       \* warpx.break_signals
    MaxSignals,         \* bound: signals that arrive
    MaxCrashes          \* bound: crashes of the job

ASSUME EvolveAssumption ==
    /\ Root \in Rank
    /\ MaxStep \in Nat /\ Period \in Nat \ {0}
    /\ Script \in Seq(Int)
    /\ Dt \in Nat \ {0} /\ Tol \in 0 .. (Dt - 1)
    /\ StopTimes \subseteq Nat
    /\ MaxSignals \in Nat /\ MaxCrashes \in Nat

VARIABLES
    stop,       \* stop_time of the input file
    pc,         \* where each rank is in Evolve
    call,       \* the call of the script each rank is in or before
    sim,        \* the WarpX object of each rank, see Object
    requested,  \* signal_actions_requested of each rank
    flags,      \* signal_received_flags of rank 0
    posted,     \* what rank 0 has broadcast, one entry a step
    heard,      \* broadcasts each rank has joined
    wrote,      \* steps each rank has dumped since the job started
    disk,       \* the parts of checkpoints on disk
    signals,    \* signals that have arrived
    crashes     \* crashes so far

vars == <<stop, pc, call, sim, requested, flags, posted, heard, wrote, disk,
          signals, crashes>>

Actions == {"break", "checkpoint"}

Places == {"outside", "loop", "begun", "pushed", "stepped", "flushed",
           "handled", "after"}

(***************************************************************************)
(* The state of a rank that Evolve reads and writes.                       *)
(***************************************************************************)
Object ==
    [istep   : Nat,       \* istep[0]; t_new[0] is istep * dt
     limit   : Int,       \* numsteps_max of the current call
     sync    : BOOLEAN,   \* is_synchronized
     mom     : Int,       \* time of the momenta in half steps
     last    : BOOLEAN,   \* is_last_step
     done    : BOOLEAN,   \* m_already_done of the diagnostic
     exit    : BOOLEAN,   \* m_exit_loop_due_to_interrupt_signal
     domain  : Nat,       \* Galilean shifts of the simulation domain
     view    : Nat,       \* Galilean shifts of the diagnostic's m_geom_output
     moved   : {0, 1}]    \* m_galilean_shift in units of a step's shift

Time(n) == n * Dt

(* The test of line 129, of line 182 and of checkStopSimulation. *)
AtStop(t) == t >= stop - Tol

InIntervals(n) == n % Period = 0

-----------------------------------------------------------------------------
(* The diagnostic. *)

(* Mutant: a forced dump does not look at m_already_done. *)
DumpsForced(p, step, forced) == forced \/ (~p.done /\ InIntervals(step + 1))

Dumps(p, step, forced) == ~p.done /\ (forced \/ InIntervals(step + 1))

(* MovingWindowAndGalileanDomainShift runs on every call, DoDump after it. *)
AfterFlush(p, step, forced) ==
    [p EXCEPT !.view = @ + p.moved,
              !.done = @ \/ Dumps(p, step, forced)]

(* What one rank contributes to a checkpoint.  Header, geometry and         *)
(* is_synchronized are those of rank 0; the geometry is m_geom_output.      *)
Part(r, p) ==
    [step |-> p.istep, rank |-> r, sync |-> p.sync, mom |-> p.mom,
     domain |-> p.view, life |-> crashes]

(* An older directory of that step is renamed before the new one is made. *)
Saved(part) ==
    {d \in disk : d.step # part.step \/ d.life = part.life} \union {part}

(* FilterComputePackFlush on an object p of rank r. *)
Flush(r, p, step, forced) ==
    LET q == AfterFlush(p, step, forced) IN
    /\ sim' = [sim EXCEPT ![r] = q]
    /\ IF Dumps(p, step, forced)
       THEN /\ wrote' = [wrote EXCEPT ![r] = Append(@, q.istep)]
            /\ disk' = Saved(Part(r, q))
       ELSE UNCHANGED <<wrote, disk>>

-----------------------------------------------------------------------------
(* Signals. *)

ActionsOf(ss) ==
    {a \in Actions : \/ a = "checkpoint" /\ ss \cap CheckpointSignals # {}
                     \/ a = "break" /\ ss \cap BreakSignals # {}}

(* SignalSetFlag, whenever the system delivers a signal. *)
SignalSetFlag(s) ==
    /\ signals < MaxSignals
    /\ s \notin flags
    /\ flags' = flags \union {s}
    /\ signals' = signals + 1
    /\ UNCHANGED <<stop, pc, call, sim, requested, posted, heard, wrote, disk,
                   crashes>>

(* Mutant: rank 0 skips the broadcast when it has nothing to tell. *)
CheckSignalsWhenSet(r) ==
    /\ heard' = [heard EXCEPT ![r] = @ + 1]
    /\ IF r = Root /\ flags # {}
       THEN LET all == requested[r] \union ActionsOf(flags) IN
            /\ requested' = [requested EXCEPT ![r] = all]
            /\ posted' = Append(posted, all)
            /\ flags' = {}
       ELSE UNCHANGED <<requested, posted, flags>>

(* Rank 0 exchanges its flags for false and posts the broadcast, the others *)
(* post the receiving side of theirs.                                       *)
CheckSignals(r) ==
    /\ heard' = [heard EXCEPT ![r] = @ + 1]
    /\ IF r = Root
       THEN LET all == requested[r] \union ActionsOf(flags) IN
            /\ requested' = [requested EXCEPT ![r] = all]
            /\ posted' = Append(posted, all)
            /\ flags' = {}
       ELSE UNCHANGED <<requested, posted, flags>>

(* Mutant: the requests are tested without waiting for the broadcast. *)
ReceivedLocal(r) == requested[r]

(* What the buffer of a rank holds after MPI_Wait. *)
Received(r) == IF r = Root THEN requested[r] ELSE posted[heard[r]]

-----------------------------------------------------------------------------
(* One call of Evolve on rank r. *)

At(r, from, to) == pc[r] = from /\ pc' = [pc EXCEPT ![r] = to]

NumStepsMax(p, numsteps) ==
    IF numsteps < 0 THEN MaxStep ELSE p.istep + numsteps

Enter(r) ==
    /\ At(r, "outside", "loop")
    /\ call[r] <= Len(Script)
    /\ sim' = [sim EXCEPT ![r].limit = NumStepsMax(sim[r], Script[call[r]])]
    /\ UNCHANGED <<stop, call, requested, flags, posted, heard, wrote, disk,
                   signals, crashes>>

Continues(p) == p.istep < p.limit /\ Time(p.istep) < stop

(* The head of an iteration: CheckSignals and NewIteration. *)
Begin(r) ==
    /\ At(r, "loop", "begun")
    /\ Continues(sim[r])
    /\ CheckSignals(r)
    /\ sim' = [sim EXCEPT ![r].done = FALSE]
    /\ UNCHANGED <<stop, call, wrote, disk, signals, crashes>>

(* Mutant: the test before the last push leaves the tolerance out. *)
IsLastExact(p) == Time(p.istep + 1) >= stop \/ p.istep = p.limit - 1

IsLast(p) == AtStop(Time(p.istep + 1)) \/ p.istep = p.limit - 1

(* ExplicitFillBoundaryEBUpdateAux: particles that are synchronized are     *)
(* first pushed back by half a step.                                        *)
Filled(p) ==
    IF p.sync THEN [p EXCEPT !.mom = @ - 1, !.sync = FALSE] ELSE p

(* The field exchange of this step needs rank q in it, or beyond it. *)
Arrived(q, n) ==
    \/ sim[q].istep > n
    \/ sim[q].istep = n /\ pc[q] \in {"begun", "pushed"}

(* is_last_step is set and never cleared; the last step ends with a push by *)
(* half a step.                                                             *)
Stepped(p) ==
    LET q == [p EXCEPT !.mom = @ + 2, !.last = @ \/ IsLast(p)]
    IN  IF IsLast(p) THEN [q EXCEPT !.mom = @ + 1, !.sync = TRUE] ELSE q

Push(r) ==
    /\ At(r, "begun", "pushed")
    /\ \A q \in Rank : Arrived(q, sim[r].istep)
    /\ sim' = [sim EXCEPT ![r] = Stepped(Filled(sim[r]))]
    /\ UNCHANGED <<stop, call, requested, flags, posted, heard, wrote, disk,
                   signals, crashes>>

(* A rank with is_last_step exchanges by Redistribute, one without by the   *)
(* fused collects: the two do not talk to each other.                       *)
Exchanges(q, r) ==
    \/ sim[q].istep > sim[r].istep
    \/ /\ sim[q].istep = sim[r].istep
       /\ pc[q] = "pushed"
       /\ sim[q].last = sim[r].last

(* istep, t_new, ShiftGalileanBoundary, MoveWindow and                      *)
(* HandleParticlesAtBoundaries.                                             *)
HandleBoundaries(r) ==
    /\ At(r, "pushed", "stepped")
    /\ \A q \in Rank : Exchanges(q, r)
    /\ sim' = [sim EXCEPT ![r].istep = @ + 1, ![r].domain = @ + 1,
                          ![r].moved = 1]
    /\ UNCHANGED <<stop, call, requested, flags, posted, heard, wrote, disk,
                   signals, crashes>>

(* The diagnostics of the iteration: step is istep - 1 by now. *)
Diagnose(r) ==
    /\ At(r, "stepped", "flushed")
    /\ Flush(r, sim[r], sim[r].istep - 1, FALSE)
    /\ UNCHANGED <<stop, call, requested, flags, posted, heard, signals,
                   crashes>>

(* Mutant: the flags are read by CheckSignals and cleared here. *)
HandleSignalsClearing(r) ==
    /\ At(r, "flushed", "handled")
    /\ heard[r] <= Len(posted)
    /\ flags' = IF r = Root THEN {} ELSE flags
    /\ requested' = [requested EXCEPT ![r] = Received(r) \ {"checkpoint"}]
    /\ IF "checkpoint" \in Received(r)
       THEN Flush(r, sim[r], sim[r].istep, TRUE)
       ELSE UNCHANGED <<sim, wrote, disk>>
    /\ UNCHANGED <<stop, call, posted, heard, signals, crashes>>

HandleSignals(r) ==
    /\ At(r, "flushed", "handled")
    /\ heard[r] <= Len(posted)
    /\ requested' = [requested EXCEPT ![r] = Received(r) \ {"checkpoint"}]
    /\ IF "checkpoint" \in Received(r)
       THEN Flush(r, sim[r], sim[r].istep, TRUE)
       ELSE UNCHANGED <<sim, wrote, disk>>
    /\ UNCHANGED <<stop, call, flags, posted, heard, signals, crashes>>

(* checkStopSimulation. *)
CheckStop(r) ==
    LET exit == "break" \in requested[r]
        over == AtStop(Time(sim[r].istep)) \/ exit
    IN  /\ At(r, "handled", IF over THEN "after" ELSE "loop")
        /\ sim' = [sim EXCEPT ![r].exit = exit]
        /\ requested' = [requested EXCEPT ![r] = @ \ {"break"}]
        /\ UNCHANGED <<stop, call, flags, posted, heard, wrote, disk, signals,
                       crashes>>

LoopEnds(r) ==
    /\ At(r, "loop", "after")
    /\ ~Continues(sim[r])
    /\ UNCHANGED <<stop, call, sim, requested, flags, posted, heard, wrote,
                   disk, signals, crashes>>

AtEnd(p) ==
    \/ p.istep = MaxStep
    \/ AtStop(Time(p.istep)) /\ Time(p.istep) < stop + Dt
    \/ p.exit

(* FilterComputePackFlushLastTimestep, and the return to the script. *)
Leave(r) ==
    /\ At(r, "after", "outside")
    /\ call' = [call EXCEPT ![r] = @ + 1]
    /\ IF AtEnd(sim[r])
       THEN Flush(r, sim[r], sim[r].istep, TRUE)
       ELSE UNCHANGED <<sim, wrote, disk>>
    /\ UNCHANGED <<stop, requested, flags, posted, heard, signals, crashes>>

-----------------------------------------------------------------------------
(* Start, crash and restart. *)

Fresh ==
    [istep |-> 0, limit |-> 0, sync |-> TRUE, mom |-> 0, last |-> FALSE,
     done |-> FALSE, exit |-> FALSE, domain |-> 0, view |-> 0, moved |-> 0]

(* InitData from scratch ends with FilterComputePackFlush(istep - 1), which  *)
(* every intervals string that starts at zero contains.                      *)
Scratch == AfterFlush(Fresh, -1, FALSE)

(* Mutant: the flag in the header is not read. *)
RestoredUnread(header, part) ==
    [Fresh EXCEPT !.istep = header.step, !.mom = part.mom,
                  !.domain = header.domain, !.view = header.domain]

(* InitFromCheckpoint: all from the header, the momenta from the particles. *)
Restored(header, part) ==
    [Fresh EXCEPT !.istep = header.step, !.sync = header.sync,
                  !.mom = part.mom, !.domain = header.domain,
                  !.view = header.domain]

Complete(n) ==
    \A r \in Rank : \E d \in disk : d.step = n /\ d.rank = r

PartOf(n, r) == CHOOSE d \in disk : d.step = n /\ d.rank = r

Start(objects, steps) ==
    /\ pc' = [r \in Rank |-> "outside"]
    /\ call' = [r \in Rank |-> 1]
    /\ sim' = objects
    /\ requested' = [r \in Rank |-> {}]
    /\ flags' = {}
    /\ posted' = <<>>
    /\ heard' = [r \in Rank |-> 0]
    /\ wrote' = [r \in Rank |-> steps]

Init ==
    /\ stop \in StopTimes
    /\ pc = [r \in Rank |-> "outside"]
    /\ call = [r \in Rank |-> 1]
    /\ sim = [r \in Rank |-> Scratch]
    /\ requested = [r \in Rank |-> {}]
    /\ flags = {}
    /\ posted = <<>>
    /\ heard = [r \in Rank |-> 0]
    /\ wrote = [r \in Rank |-> <<0>>]
    /\ disk = {[step |-> 0, rank |-> r, sync |-> TRUE, mom |-> 0,
                domain |-> 0, life |-> 0] : r \in Rank}
    /\ signals = 0
    /\ crashes = 0

Finished == \A r \in Rank : pc[r] = "outside" /\ call[r] > Len(Script)

(* The job dies, or has ended, and is started again from a complete         *)
(* checkpoint; the script runs from its beginning.                          *)
Crash(n) ==
    /\ crashes < MaxCrashes
    /\ Complete(n)
    /\ crashes' = crashes + 1
    /\ Start([r \in Rank |-> Restored(PartOf(n, Root), PartOf(n, r))], <<>>)
    /\ UNCHANGED <<stop, disk, signals>>

RankNext(r) ==
    \/ Enter(r) \/ Begin(r) \/ Push(r) \/ HandleBoundaries(r) \/ Diagnose(r)
    \/ HandleSignals(r) \/ CheckStop(r) \/ LoopEnds(r) \/ Leave(r)

Next ==
    \/ \E r \in Rank : RankNext(r)
    \/ \E s \in CheckpointSignals \union BreakSignals : SignalSetFlag(s)
    \/ \E n \in {d.step : d \in disk} : Crash(n)
    \/ Finished /\ UNCHANGED vars

Spec == Init /\ [][Next]_vars

(* Every rank keeps running; signals and crashes need not happen. *)
FairSpec == Spec /\ \A r \in Rank : WF_vars(RankNext(r))

-----------------------------------------------------------------------------
(* Properties *)

(* Types of the state, and bounds that follow from the calls: no rank joins *)
(* a broadcast more than one ahead of rank 0, and no counter leaves its     *)
(* range.                                                                   *)
TypeOK ==
    /\ stop \in StopTimes
    /\ pc \in [Rank -> Places]
    /\ call \in [Rank -> 1 .. Len(Script) + 1]
    /\ sim \in [Rank -> Object]
    /\ requested \in [Rank -> SUBSET Actions]
    /\ flags \subseteq CheckpointSignals \union BreakSignals
    /\ posted \in Seq(SUBSET Actions)
    /\ heard \in [Rank -> Nat]
    /\ wrote \in [Rank -> Seq(Nat)]
    /\ disk \subseteq [step : Nat, rank : Rank, sync : BOOLEAN, mom : Int,
                       domain : Nat, life : 0 .. MaxCrashes]
    /\ signals \in 0 .. MaxSignals
    /\ crashes \in 0 .. MaxCrashes
    /\ heard[Root] = Len(posted)
    /\ \A r \in Rank : heard[r] \in Len(posted) - 1 .. Len(posted) + 1

(* All ranks do the same: at the same place of the same step of the same    *)
(* call their objects are equal, whatever the moments at which signals came *)
(* in, and the dumps each has taken part in are those of the others, up to  *)
(* the ones still to come.  Dumps, redistribution and the end of Evolve are *)
(* collective; a rank that decided otherwise would hang the job             *)
(* (SignalHandling.H:25-28).                                                *)
SameDecisions ==
    \A r, q \in Rank :
        /\ /\ pc[r] = pc[q]
           /\ call[r] = call[q]
           /\ sim[r].istep = sim[q].istep
           => [sim[r] EXCEPT !.mom = 0] = [sim[q] EXCEPT !.mom = 0]
        /\ IsPrefix(wrote[r], wrote[q]) \/ IsPrefix(wrote[q], wrote[r])

(* No step is dumped twice by one run of the job, although a regular dump,  *)
(* one that a signal asks for and that of the last time step may all fall   *)
(* on it, in several calls of Evolve (m_already_done, FullDiagnostics.cpp   *)
(* 155).                                                                    *)
DumpedOnce ==
    \A r \in Rank : \A i \in 1 .. Len(wrote[r]) - 1 :
        wrote[r][i] < wrote[r][i + 1]

Momenta(p) == 2 * p.istep - (IF p.sync THEN 0 ELSE 1)

(* The momenta are those of the time the flag is_synchronized tells: p^n    *)
(* when it is set and p^(n-1/2) otherwise (comments at WarpXEvolve.cpp 448  *)
(* and 469), between the steps of all calls of Evolve, after breaks, and    *)
(* for every rank that reads the flag of a complete checkpoint from a       *)
(* header that rank 0 wrote.                                                *)
MomentaCentered ==
    /\ \A r \in Rank :
          pc[r] # "pushed" => sim[r].mom = Momenta(sim[r])
    /\ \A n \in {d.step : d \in disk} : Complete(n) =>
          \A r \in Rank :
              PartOf(n, r).mom =
                  2 * n - (IF PartOf(n, Root).sync THEN 0 ELSE 1)

(* The iteration after which a call of Evolve returns without a break has   *)
(* pushed the momenta forward to the time of the positions: the test before *)
(* the push (lines 129 and 182) and the tests that end the loop (line 79    *)
(* and checkStopSimulation) agree, the tolerance included.                  *)
EndsLoop(r) ==
    /\ pc[r] = "handled"
    /\ ~sim'[r].exit
    /\ \/ pc'[r] = "after"
       \/ pc'[r] = "loop" /\ ~Continues(sim'[r])

SynchronizedAtEnd ==
    [][\A r \in Rank : EndsLoop(r) => sim'[r].sync]_vars

Wanted(n) == flags \cap CheckpointSignals # {} /\ sim[Root].istep = n

(* A checkpoint signal is not lost: a signal that comes in while the loop   *)
(* is at step n is followed by a dump of step n + 1 or n + 2 on every rank  *)
(* unless the job crashes, or ends before step n + 2                        *)
(* (parameters.rst:327-330).                                                *)
CheckpointServed ==
    \A n \in 0 .. MaxStep, c \in 0 .. MaxCrashes :
        Wanted(n) /\ crashes = c
            ~> \/ \A r \in Rank : \E m \in {n + 1, n + 2} :
                      Contains(wrote[r], m)
               \/ Finished /\ sim[Root].istep < n + 2
               \/ crashes > c

(* A checkpoint holds the domain of the simulation at its step: it goes     *)
(* into the header, and InitFromCheckpoint takes it for the domain          *)
(* (WarpXIO.cpp:196).                                                       *)
CheckpointDomain ==
    \A d \in disk : d.domain = d.step
=============================================================================
