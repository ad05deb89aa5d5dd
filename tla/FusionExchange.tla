-------------------------- MODULE FusionExchange --------------------------
(***************************************************************************)
(* The per-step particle exchange of one species between ranks:            *)
(* PhysicalParticleContainer::fusion_pack_unr (its packed sizes),          *)
(* fusion_unr_put, fusion_unr_wait and fusion_unr_remote_collect, driven   *)
(* by WarpX::Evolve.  Each directed channel <<src, dst, thread>> owns one  *)
(* count block and one data block on each side, each with a one-event UNR  *)
(* signal (num_event = 1).  The puts of a batch complete locally and       *)
(* remotely in any order.  A fused step of a rank is                       *)
(*   FillBoundary (neighbor exchange) - pack - put - wait - collect.       *)
(***************************************************************************)
EXTENDS Integers

CONSTANTS
  Rank,      (* Ranks; neighbor_procs is kept sorted, so who_idx follows <. *)
  Thread,    (* OpenMP threads: one block per (neighbor, thread).           *)
  Neighbor,  (* Neighbor[r] is the set neighbor_procs of rank r.            *)
  Load,      (* Load[c]: the numbers of particles a thread may pack.        *)
  LastStep   (* Bound: fused steps before is_last_step is set.              *)

ASSUME RankAssumption == Rank \subseteq Nat /\ Thread \subseteq Nat
ASSUME NeighborAssumption ==
  /\ Neighbor \in [Rank -> SUBSET Rank]
  /\ \A r, n \in Rank : n \in Neighbor[r] => r \in Neighbor[n] /\ n # r

VARIABLES
  pc,         (* pc[r]: where rank r is in its step.                        *)
  step,       (* step[r]: fused steps r has completed.                      *)
  exchange,   (* exchange[r]: FillBoundary exchanges r has started.         *)
  dataSize,   (* unr_send_buffer.data_size of each channel.                 *)
  sendCount,  (* Count block of the sender.                                 *)
  sendData,   (* Data block of the sender: the step its payload is from.    *)
  recvCount,  (* Count block of the receiver.                               *)
  recvData,   (* Data block of the receiver: the step its payload is from.  *)
  sendSig,    (* Signal counters of the sender's blocks.                    *)
  recvSig,    (* Signal counters of the receiver's blocks.                  *)
  flight,     (* Puts not yet complete on both sides.                       *)
  counted,    (* <<r, n, t>>: r is past the count wait of thread t for n.   *)
  waited,     (* <<r, n, t>>: r is past the data wait of thread t for n.    *)
  got         (* got[c]: what the last collect read from channel c.         *)

vars == <<pc, step, exchange, dataSize, sendCount, sendData, recvCount,
          recvData, sendSig, recvSig, flight, counted, waited, got>>

Kind == {"count", "data"}

(* The channels: one per ordered pair of neighbors and thread.             *)
Chan == {c \in Rank \X Rank \X Thread : c[2] \in Neighbor[c[1]]}

ASSUME BoundAssumption ==
  LastStep \in Nat /\ Load \in [Chan -> (SUBSET Nat) \ {{}}]

Rev(c) == <<c[2], c[1], c[3]>>
Out(r) == {c \in Chan : c[1] = r}
In(r)  == {c \in Chan : c[2] = r}

PC == {"begin", "fill", "pack", "put", "wait", "collect"}

NumEvent == 1   \* WarpX_COMM_ParticleContainer::num_event

Op == [chan : Chan, kind : Kind, step : Nat, val : Nat,
       state : {"issued", "sent", "landed"}]

Init ==
  /\ pc        = [r \in Rank |-> "begin"]
  /\ step      = [r \in Rank |-> 0]
  /\ exchange  = [r \in Rank |-> 0]
  /\ dataSize  = [c \in Chan |-> 0]
  /\ sendCount = [c \in Chan |-> 0]
  /\ sendData  = [c \in Chan |-> 0]
  /\ recvCount = [c \in Chan |-> 0]
  /\ recvData  = [c \in Chan |-> 0]
  /\ sendSig   = [c \in Chan |-> [k \in Kind |-> NumEvent]]
  /\ recvSig   = [c \in Chan |-> [k \in Kind |-> NumEvent]]
  /\ flight    = {}
  /\ counted   = {}
  /\ waited    = {}
  /\ got       = [c \in Chan |-> [size |-> 0, step |-> 0]]

---------------------------------------------------------------------------
(* The rank's own thread of control.                                       *)

(* FillBoundaryE and FillBoundaryB at the head of the step: the rank posts  *)
(* its guard-cell messages ...                                             *)
EnterFill(r) ==
  /\ pc[r] = "begin"
  /\ step[r] < LastStep
  /\ pc' = [pc EXCEPT ![r] = "fill"]
  /\ exchange' = [exchange EXCEPT ![r] = @ + 1]
  /\ UNCHANGED <<step, dataSize, sendCount, sendData, recvCount, recvData,
                 sendSig, recvSig, flight, counted, waited, got>>

(* ... and goes on once it has those of every neighbor.                    *)
FillWithoutNeighbors(r) == TRUE      \* Mutant: a step with no field exchange.

FillDone(r) == \A n \in Neighbor[r] : exchange[n] >= exchange[r]

LeaveFill(r) ==
  /\ pc[r] = "fill"
  /\ FillDone(r)
  /\ pc' = [pc EXCEPT ![r] = "pack"]
  /\ UNCHANGED <<step, exchange, dataSize, sendCount, sendData, recvCount,
                 recvData, sendSig, recvSig, flight, counted, waited, got>>

(* unr_send_buffer.clear, then the threads pack: the sizes are the loads,   *)
(* and the data blocks that receive particles are overwritten.             *)
Pack(r) ==
  /\ pc[r] = "pack"
  /\ \E load \in [Out(r) -> UNION {Load[c] : c \in Out(r)}] :
       /\ \A c \in Out(r) : load[c] \in Load[c]
       /\ dataSize' = [c \in Chan |-> IF c \in Out(r) THEN load[c]
                                                      ELSE dataSize[c]]
       /\ sendData' = [c \in Chan |-> IF c \in Out(r) /\ load[c] > 0
                                        THEN step[r] + 1
                                        ELSE sendData[c]]
  /\ pc' = [pc EXCEPT ![r] = "put"]
  /\ UNCHANGED <<step, exchange, sendCount, recvCount, recvData, sendSig,
                 recvSig, flight, counted, waited, got>>

Issue(c, k, s) ==
  [chan |-> c, kind |-> k, step |-> s, val |-> 0, state |-> "issued"]

(* fusion_unr_put: fills the count blocks and starts one batch.  A write of *)
(* zero bytes is dropped by the library: it moves nothing and triggers no  *)
(* signal on either side.                                                  *)
Put(r) ==
  /\ pc[r] = "put"
  /\ sendCount' = [c \in Chan |-> IF c \in Out(r) THEN dataSize[c]
                                                  ELSE sendCount[c]]
  /\ flight' = flight
       \cup {Issue(c, "count", step[r] + 1) : c \in Out(r)}
       \cup {Issue(c, "data",  step[r] + 1) : c \in {d \in Out(r) : dataSize[d] > 0}}
  /\ pc' = [pc EXCEPT ![r] = "wait"]
  /\ counted' = {c \in counted : c[1] # r}
  /\ waited'  = {c \in waited  : c[1] # r}
  /\ UNCHANGED <<step, exchange, dataSize, sendData, recvCount, recvData,
                 sendSig, recvSig, got>>

(* fusion_unr_wait walks the neighbors in order; for one neighbor it waits  *)
(* for the counts of all threads and then for their data.                  *)
CountTurn(c) ==
  /\ c \notin counted
  /\ \A d \in Out(c[1]) : d[2] < c[2] => d \in waited
  /\ \A d \in Out(c[1]) : d[2] = c[2] /\ d[3] < c[3] => d \in counted

DataTurn(c) ==
  /\ c \notin waited
  /\ \A d \in Out(c[1]) : d[2] = c[2] => d \in counted
  /\ \A d \in Out(c[1]) : d[2] = c[2] /\ d[3] < c[3] => d \in waited

(* Mutant: progress is kept per neighbor, not per neighbor and thread.      *)
WaitCountOnce(c) ==
  /\ pc[c[1]] = "wait"
  /\ CountTurn(c)
  /\ sendSig[c]["count"] = 0
  /\ recvSig[Rev(c)]["count"] = 0
  /\ sendSig' = [sendSig EXCEPT ![c]["count"] = NumEvent]
  /\ recvSig' = [recvSig EXCEPT ![Rev(c)]["count"] = NumEvent]
  /\ counted' = counted \cup {<<c[1], c[2]>>}
  /\ UNCHANGED <<pc, step, exchange, dataSize, sendCount, sendData, recvCount,
                 recvData, flight, waited, got>>

(* Wait for and reset the two count signals of one neighbor and thread.     *)
WaitCount(c) ==
  /\ pc[c[1]] = "wait"
  /\ CountTurn(c)
  /\ sendSig[c]["count"] = 0
  /\ recvSig[Rev(c)]["count"] = 0
  /\ sendSig' = [sendSig EXCEPT ![c]["count"] = NumEvent]
  /\ recvSig' = [recvSig EXCEPT ![Rev(c)]["count"] = NumEvent]
  /\ counted' = counted \cup {c}
  /\ UNCHANGED <<pc, step, exchange, dataSize, sendCount, sendData, recvCount,
                 recvData, flight, waited, got>>

AlwaysReceives(c) == TRUE    \* Mutant: zero size not special.

(* Whether data follows is read back from the two count blocks.            *)
SendsData(c)    == sendCount[c] > 0
ReceivesData(c) == recvCount[Rev(c)] > 0

(* Wait for and reset the data signals, each only if its size is not zero.  *)
WaitData(c) ==
  /\ pc[c[1]] = "wait"
  /\ DataTurn(c)
  /\ SendsData(c) => sendSig[c]["data"] = 0
  /\ ReceivesData(c) => recvSig[Rev(c)]["data"] = 0
  /\ sendSig' = IF SendsData(c)
                  THEN [sendSig EXCEPT ![c]["data"] = NumEvent] ELSE sendSig
  /\ recvSig' = IF ReceivesData(c)
                  THEN [recvSig EXCEPT ![Rev(c)]["data"] = NumEvent] ELSE recvSig
  /\ waited' = waited \cup {c}
  /\ UNCHANGED <<pc, step, exchange, dataSize, sendCount, sendData, recvCount,
                 recvData, flight, counted, got>>

AllCounted(r) == Out(r) \subseteq counted   \* Mutant: only the counts are waited.

AllWaited(r) == Out(r) \subseteq waited

FinishWait(r) ==
  /\ pc[r] = "wait"
  /\ AllWaited(r)
  /\ pc' = [pc EXCEPT ![r] = "collect"]
  /\ UNCHANGED <<step, exchange, dataSize, sendCount, sendData, recvCount,
                 recvData, sendSig, recvSig, flight, counted, waited, got>>

(* fusion_unr_remote_collect: reads every count block and that many         *)
(* particles of the data block behind it.                                  *)
Collect(r) ==
  /\ pc[r] = "collect"
  /\ got' = [c \in Chan |->
               IF c \in In(r)
                 THEN [size |-> recvCount[c],
                       step |-> IF recvCount[c] = 0 THEN 0 ELSE recvData[c]]
                 ELSE got[c]]
  /\ step' = [step EXCEPT ![r] = @ + 1]
  /\ pc' = [pc EXCEPT ![r] = "begin"]
  /\ UNCHANGED <<exchange, dataSize, sendCount, sendData, recvCount, recvData,
                 sendSig, recvSig, flight, counted, waited>>

---------------------------------------------------------------------------
(* The one-sided transport: each put completes at its source and at its    *)
(* target, in either order.  The payload leaves the send block at the first *)
(* of the two.                                                             *)

Payload(op) ==
  IF op.state # "issued" THEN op.val
  ELSE IF op.kind = "count" THEN sendCount[op.chan] ELSE sendData[op.chan]

Sent(op) ==
  /\ op.state # "sent"
  /\ sendSig' = [sendSig EXCEPT ![op.chan][op.kind] = @ - 1]
  /\ flight' = (flight \ {op}) \cup
       IF op.state = "landed" THEN {}
       ELSE {[op EXCEPT !.state = "sent", !.val = Payload(op)]}
  /\ UNCHANGED <<pc, step, exchange, dataSize, sendCount, sendData, recvCount,
                 recvData, recvSig, counted, waited, got>>

Land(op) ==
  /\ op.state # "landed"
  /\ recvCount' = IF op.kind = "count"
                    THEN [recvCount EXCEPT ![op.chan] = Payload(op)] ELSE recvCount
  /\ recvData'  = IF op.kind = "data"
                    THEN [recvData EXCEPT ![op.chan] = Payload(op)] ELSE recvData
  /\ recvSig' = [recvSig EXCEPT ![op.chan][op.kind] = @ - 1]
  /\ flight' = (flight \ {op}) \cup
       IF op.state = "sent" THEN {}
       ELSE {[op EXCEPT !.state = "landed", !.val = Payload(op)]}
  /\ UNCHANGED <<pc, step, exchange, dataSize, sendCount, sendData, sendSig,
                 counted, waited, got>>

RankNext(r) ==
  \/ EnterFill(r) \/ LeaveFill(r) \/ Pack(r) \/ Put(r)
  \/ \E c \in Out(r) : WaitCount(c) \/ WaitData(c)
  \/ FinishWait(r) \/ Collect(r)

Transport == \E op \in flight : Sent(op) \/ Land(op)

Next == (\E r \in Rank : RankNext(r)) \/ Transport

Spec == Init /\ [][Next]_vars

(* Ranks keep running, and the transport completes every put: the library   *)
(* has a progress thread of its own on every rank.                         *)
FairSpec ==
  /\ Spec
  /\ \A r \in Rank : WF_vars(RankNext(r))
  /\ WF_vars(Transport)

---------------------------------------------------------------------------
(* Correctness.                                                            *)

(* The shape of the state; every signal counter is an integer, with no      *)
(* promise here that it is not driven below zero.                          *)
TypeOK ==
  /\ pc \in [Rank -> PC]
  /\ step \in [Rank -> Nat] /\ exchange \in [Rank -> Nat]
  /\ dataSize \in [Chan -> Nat]
  /\ sendCount \in [Chan -> Nat] /\ sendData \in [Chan -> Nat]
  /\ recvCount \in [Chan -> Nat] /\ recvData \in [Chan -> Nat]
  /\ sendSig \in [Chan -> [Kind -> Int]] /\ recvSig \in [Chan -> [Kind -> Int]]
  /\ flight \subseteq Op
  /\ counted \subseteq Chan /\ waited \subseteq Chan
  /\ got \in [Chan -> [size : Nat, step : Nat]]

(* No signal is triggered again before its owner has reset it: an early     *)
(* arrival of the next step would drive a counter below zero, and the       *)
(* reset of fusion_unr_wait would then wipe the event out.                  *)
SignalNeverOverrun ==
  \A c \in Chan, k \in Kind : sendSig[c][k] >= 0 /\ recvSig[c][k] >= 0

(* A put that can still write into a receive block belongs to the step the  *)
(* receiver is in: nothing lands in a block between the wait that accepted  *)
(* it and the collect that reads it.                                        *)
ArrivalInItsStep ==
  \A op \in flight : op.state # "landed" => op.step = step[op.chan[2]] + 1

(* The send blocks are not packed again while a put may still read them.    *)
SendBlockStable ==
  \A op \in flight :
    op.state = "issued" /\ op.kind = "data" => sendData[op.chan] = op.step

(* fusion_unr_wait reads a received count to decide whether to wait for     *)
(* data and fusion_unr_remote_collect reads it twice more; the block must   *)
(* not change from the count wait to the end of the collect.                *)
CountStableUntilCollected ==
  [][\A c \in Chan :
       (Rev(c) \in counted /\ pc[c[2]] \in {"wait", "collect"})
         => recvCount'[c] = recvCount[c]]_vars

(* The exchange delivers, on every channel and in every step, exactly what  *)
(* the sender packed for it in that step: it implements ParticleTransfer.   *)
Round(r) == step[r] + (IF pc[r] \in {"wait", "collect"} THEN 1 ELSE 0)

Transfer == INSTANCE ParticleTransfer WITH
  round <- [r \in Rank |-> Round(r)],
  box   <- [c \in Chan |->
              IF Round(c[1]) > step[c[2]]
                THEN {[size |-> sendCount[c],
                       step |-> IF sendCount[c] = 0 THEN 0 ELSE sendData[c]]}
                ELSE {}]

ExactTransfer == Transfer!Spec

(* Every rank gets through all its fused steps: nobody waits for a signal   *)
(* that will not come (a neighbor that packed nothing sends no data).       *)
AllStepsComplete == <>(\A r \in Rank : step[r] = LastStep)
===========================================================================
