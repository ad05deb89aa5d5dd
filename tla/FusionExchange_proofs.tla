----------------------- MODULE FusionExchange_proofs -----------------------
(***************************************************************************)
(* For every set of ranks, neighborhood, number of threads and loads, one   *)
(* event per signal and one block per channel are enough: the exchange of   *)
(* guard cells at the head of a step keeps neighbors within a step of each  *)
(* other, so a put of step s + 1 is never issued before its target has      *)
(* collected step s.  The inductive invariant balances, for each block of   *)
(* each channel, the puts issued, the completions that are still to come,   *)
(* and the waits that have accepted one.                                    *)
(***************************************************************************)
EXTENDS FusionExchange, TLAPS

Fused   == {"pack", "put", "wait", "collect"}
Waiting == {"wait", "collect"}
One(b)  == IF b THEN 1 ELSE 0

(* Completions a rank has accepted on a channel, as its source or target.   *)
CountOut(c) == step[c[1]] + One(c \in counted /\ pc[c[1]] \in Waiting)
DataOut(c)  == step[c[1]] + One(c \in waited /\ pc[c[1]] \in Waiting)
CountIn(c)  == step[c[2]] + One(Rev(c) \in counted /\ pc[c[2]] \in Waiting)
DataIn(c)   == step[c[2]] + One(Rev(c) \in waited /\ pc[c[2]] \in Waiting)

(* A completion of the latest put on c, not yet accepted.                   *)
CountOutDue(c) == Round(c[1]) # CountOut(c)
DataOutDue(c)  == Round(c[1]) # DataOut(c) /\ sendCount[c] > 0
CountInDue(c)  == Round(c[1]) # CountIn(c)
DataInDue(c)   == Round(c[1]) # DataIn(c) /\ sendCount[c] > 0

(* A put on c is yet to complete at its source, or at its target.           *)
Unsent(c, k)   == \E op \in flight : op.chan = c /\ op.kind = k /\ op.state # "sent"
Unlanded(c, k) == \E op \in flight : op.chan = c /\ op.kind = k /\ op.state # "landed"

(* What is due is either on its way or on the signal, and nothing else is.  *)
Ledger(sig, due, way) ==
  \/ ~due /\ sig = 1 /\ ~way
  \/ due /\ sig = 1 /\ way
  \/ due /\ sig = 0 /\ ~way

Phase == \A r \in Rank : exchange[r] = step[r] + One(pc[r] # "begin")

Barrier == \A r \in Rank : \A n \in Neighbor[r] :
             exchange[n] >= step[r] + One(pc[r] \in Fused)

WaitOrder == \A c \in Chan :
  /\ pc[c[1]] \in Waiting /\ c \in waited => c \in counted
  /\ pc[c[1]] = "collect" => c \in waited

Balance == \A c \in Chan : CountIn(c) <= Round(c[1])

SendLedger == \A c \in Chan :
  /\ Ledger(sendSig[c]["count"], CountOutDue(c), Unsent(c, "count"))
  /\ Ledger(sendSig[c]["data"],  DataOutDue(c),  Unsent(c, "data"))

RecvLedger == \A c \in Chan :
  /\ Ledger(recvSig[c]["count"], CountInDue(c), Unlanded(c, "count"))
  /\ Ledger(recvSig[c]["data"],  DataInDue(c),  Unlanded(c, "data"))

OnePut == \A o1, o2 \in flight : o1.chan = o2.chan /\ o1.kind = o2.kind => o1 = o2

PutOfRound == \A op \in flight :
  /\ op.step = Round(op.chan[1])
  /\ op.kind = "count" /\ op.state # "issued" => op.val = sendCount[op.chan]

CountArrived == \A c \in Chan :
  ~Unlanded(c, "count") => recvCount[c] = sendCount[c]

Packed == \A c \in Chan :
  pc[c[1]] = "put" /\ dataSize[c] > 0 => sendData[c] = step[c[1]] + 1

IInv == /\ TypeOK /\ Phase /\ Barrier /\ WaitOrder /\ Balance
        /\ SendLedger /\ RecvLedger /\ OnePut /\ PutOfRound
        /\ CountArrived /\ Packed /\ SendBlockStable

---------------------------------------------------------------------------
(* A channel joins two ranks that are neighbors of each other, and its      *)
(* reverse is a channel too.                                               *)
LEMMA ChanFacts ==
  ASSUME NEW c \in Chan
  PROVE  /\ c[1] \in Rank /\ c[2] \in Rank /\ c[3] \in Thread
         /\ c[2] \in Neighbor[c[1]] /\ c[1] \in Neighbor[c[2]] /\ c[1] # c[2]
         /\ Rev(c) \in Chan /\ Rev(Rev(c)) = c
         /\ Rev(c)[1] = c[2] /\ Rev(c)[2] = c[1] /\ Rev(c)[3] = c[3]
  <1>1. c[1] \in Rank /\ c[2] \in Rank /\ c[3] \in Thread /\ c = <<c[1], c[2], c[3]>>
    BY DEF Chan
  <1>2. c[2] \in Neighbor[c[1]]
    BY DEF Chan
  <1>3. c[1] \in Neighbor[c[2]] /\ c[1] # c[2]
    BY <1>1, <1>2, NeighborAssumption
  <1>4. Rev(c) \in Chan
    BY <1>1, <1>3 DEF Rev, Chan
  <1>5. Rev(Rev(c)) = c
    BY <1>1 DEF Rev
  <1> QED BY <1>1, <1>2, <1>3, <1>4, <1>5 DEF Rev

(* Before the first step nothing is due and every signal is armed.          *)
LEMMA InitIInv == Init => IInv
  <1> SUFFICES ASSUME Init PROVE IInv
    OBVIOUS
  <1> USE DEF Init
  <1>1. TypeOK
    BY DEF TypeOK, PC, Kind, NumEvent
  <1>2. Phase /\ WaitOrder /\ Packed
    BY ChanFacts DEF Phase, WaitOrder, Packed, One, Waiting
  <1>3. Barrier
    BY NeighborAssumption DEF Barrier, One, Fused
  <1>4. \A c \in Chan : /\ Round(c[1]) = 0 /\ CountOut(c) = 0 /\ DataOut(c) = 0
                       /\ CountIn(c) = 0 /\ DataIn(c) = 0
    BY ChanFacts DEF Round, CountOut, DataOut, CountIn, DataIn, One, Waiting
  <1>5. Balance /\ SendLedger /\ RecvLedger
    BY <1>4 DEF Balance, SendLedger, RecvLedger, Ledger, CountOutDue, DataOutDue,
                CountInDue, DataInDue, Unsent, Unlanded, NumEvent, Kind
  <1>6. OnePut /\ PutOfRound /\ CountArrived /\ SendBlockStable
    BY DEF OnePut, PutOfRound, CountArrived, SendBlockStable
  <1> QED BY <1>1, <1>2, <1>3, <1>5, <1>6 DEF IInv

---------------------------------------------------------------------------
(* Types.                                                                  *)

(* What a put carries is a put of the model with a number as payload.       *)
LEMMA PayloadType ==
  ASSUME TypeOK, NEW op \in flight
  PROVE  op \in Op /\ Payload(op) \in Nat
  BY DEF TypeOK, Payload, Op

(* Every operation of a rank and of the transport keeps the state in shape. *)
LEMMA TypeStep == TypeOK /\ [Next]_vars => TypeOK'
  <1> SUFFICES ASSUME TypeOK, [Next]_vars PROVE TypeOK'
    OBVIOUS
  <1>1. ASSUME NEW r \in Rank, EnterFill(r) PROVE TypeOK'
    BY <1>1 DEF TypeOK, EnterFill, PC
  <1>2. ASSUME NEW r \in Rank, LeaveFill(r) PROVE TypeOK'
    BY <1>2 DEF TypeOK, LeaveFill, PC
  <1>3. ASSUME NEW r \in Rank, Pack(r) PROVE TypeOK'
    <2>1. PICK load \in [Out(r) -> UNION {Load[c] : c \in Out(r)}] :
            /\ \A c \in Out(r) : load[c] \in Load[c]
            /\ dataSize' = [c \in Chan |-> IF c \in Out(r) THEN load[c]
                                                           ELSE dataSize[c]]
            /\ sendData' = [c \in Chan |-> IF c \in Out(r) /\ load[c] > 0
                                              THEN step[r] + 1 ELSE sendData[c]]
      BY <1>3 DEF Pack
    <2>2. \A c \in Out(r) : load[c] \in Nat
      BY <2>1, BoundAssumption DEF Out
    <2>3. dataSize' \in [Chan -> Nat] /\ sendData' \in [Chan -> Nat]
      BY <2>1, <2>2 DEF TypeOK
    <2> QED BY <1>3, <2>3 DEF TypeOK, Pack, PC
  <1>4. ASSUME NEW r \in Rank, Put(r) PROVE TypeOK'
    <2>1. \A c \in Chan, k \in Kind : Issue(c, k, step[r] + 1) \in Op
      BY DEF TypeOK, Issue, Op
    <2>2. flight' \subseteq Op
      BY <1>4, <2>1 DEF Put, Out, Kind, TypeOK
    <2>3. sendCount' \in [Chan -> Nat] /\ pc' \in [Rank -> PC]
      BY <1>4 DEF Put, TypeOK, PC
    <2>4. counted' \subseteq Chan /\ waited' \subseteq Chan
      BY <1>4 DEF Put, TypeOK
    <2> QED BY <1>4, <2>2, <2>3, <2>4 DEF Put, TypeOK
  <1>5. ASSUME NEW c \in Chan, WaitCount(c) PROVE TypeOK'
    BY <1>5, ChanFacts DEF TypeOK, WaitCount, NumEvent, Kind
  <1>6. ASSUME NEW c \in Chan, WaitData(c) PROVE TypeOK'
    BY <1>6, ChanFacts DEF TypeOK, WaitData, NumEvent, Kind
  <1>7. ASSUME NEW r \in Rank, FinishWait(r) PROVE TypeOK'
    BY <1>7 DEF TypeOK, FinishWait, PC
  <1>8. ASSUME NEW r \in Rank, Collect(r) PROVE TypeOK'
    BY <1>8 DEF TypeOK, Collect, PC
  <1>9. ASSUME NEW op \in flight, Sent(op) PROVE TypeOK'
    <2>1. op \in Op /\ Payload(op) \in Nat
      BY PayloadType
    <2>2. [op EXCEPT !.state = "sent", !.val = Payload(op)] \in Op
      BY <2>1 DEF Op
    <2>3. flight' \subseteq Op
      BY <1>9, <2>2 DEF Sent, TypeOK
    <2>4. op.chan \in Chan /\ op.kind \in Kind
      BY <2>1 DEF Op
    <2>5. sendSig' \in [Chan -> [Kind -> Int]]
      BY <1>9, <2>4 DEF Sent, TypeOK
    <2> QED BY <1>9, <2>3, <2>5 DEF TypeOK, Sent
  <1>10. ASSUME NEW op \in flight, Land(op) PROVE TypeOK'
    <2>1. op \in Op /\ Payload(op) \in Nat
      BY PayloadType
    <2>2. [op EXCEPT !.state = "landed", !.val = Payload(op)] \in Op
      BY <2>1 DEF Op
    <2>3. flight' \subseteq Op
      BY <1>10, <2>2 DEF Land, TypeOK
    <2>4. op.chan \in Chan /\ op.kind \in Kind
      BY <2>1 DEF Op
    <2>5. recvSig' \in [Chan -> [Kind -> Int]]
      BY <1>10, <2>4 DEF Land, TypeOK
    <2>6. recvCount' \in [Chan -> Nat] /\ recvData' \in [Chan -> Nat]
      BY <1>10, <2>1, <2>4 DEF Land, TypeOK
    <2> QED BY <1>10, <2>3, <2>5, <2>6 DEF TypeOK, Land
  <1>11. ASSUME UNCHANGED vars PROVE TypeOK'
    BY <1>11 DEF TypeOK, vars
  <1> QED
    BY <1>1, <1>2, <1>3, <1>4, <1>5, <1>6, <1>7, <1>8, <1>9, <1>10, <1>11
    DEF Next, RankNext, Transport, Out

(* Type correctness, for every instance.                                   *)
THEOREM TypeCorrect == Spec => []TypeOK
  <1>1. Init => TypeOK
    BY InitIInv DEF IInv
  <1> QED BY <1>1, TypeStep, PTL DEF Spec

---------------------------------------------------------------------------
(* Consequences of the invariant.                                          *)

(* Steps, rounds and accepted completions are natural numbers.             *)
LEMMA Numbers ==
  ASSUME TypeOK, NEW c \in Chan
  PROVE  /\ step[c[1]] \in Nat /\ step[c[2]] \in Nat
         /\ Round(c[1]) \in Nat /\ CountOut(c) \in Nat /\ DataOut(c) \in Nat
         /\ CountIn(c) \in Nat /\ DataIn(c) \in Nat
         /\ sendCount[c] \in Nat /\ recvCount[c] \in Nat
  <1>1. step[c[1]] \in Nat /\ step[c[2]] \in Nat
    BY ChanFacts DEF TypeOK
  <1>2. sendCount[c] \in Nat /\ recvCount[c] \in Nat
    BY DEF TypeOK
  <1> QED BY <1>1, <1>2 DEF Round, CountOut, DataOut, CountIn, DataIn, One

(* The field exchange keeps neighbors within a step of each other.         *)
LEMMA Close ==
  ASSUME TypeOK, Phase, Barrier, NEW c \in Chan
  PROVE  /\ Round(c[1]) <= step[c[2]] + 1
         /\ pc[c[1]] \in Fused => step[c[1]] <= step[c[2]]
  <1>1. /\ c[1] \in Rank /\ c[2] \in Neighbor[c[1]] /\ c[2] \in Rank
    BY ChanFacts
  <1>2. exchange[c[2]] >= step[c[1]] + One(pc[c[1]] \in Fused)
    BY <1>1 DEF Barrier
  <1>3. exchange[c[2]] = step[c[2]] + One(pc[c[2]] # "begin")
    BY <1>1 DEF Phase
  <1>4. step[c[1]] \in Nat /\ step[c[2]] \in Nat
    BY <1>1 DEF TypeOK
  <1> QED BY <1>2, <1>3, <1>4 DEF One, Round, Fused

(* Before a rank puts, everything its channels carried has been accepted.   *)
LEMMA NothingDue ==
  ASSUME IInv, NEW c \in Chan, pc[c[1]] \in {"pack", "put"}
  PROVE  /\ Round(c[1]) = step[c[1]] /\ CountOut(c) = step[c[1]]
         /\ DataOut(c) = step[c[1]]
         /\ CountIn(c) = step[c[1]] /\ DataIn(c) = step[c[1]]
         /\ \A op \in flight : op.chan # c
         /\ \A k \in Kind : sendSig[c][k] = 1 /\ recvSig[c][k] = 1
  <1> USE DEF IInv
  <1>1. Round(c[1]) = step[c[1]] /\ CountOut(c) = step[c[1]] /\ DataOut(c) = step[c[1]]
    BY Numbers DEF Round, CountOut, DataOut, One, Waiting
  <1>2. step[c[1]] <= step[c[2]]
    BY Close DEF Fused
  <1>3. CountIn(c) <= Round(c[1])
    BY DEF Balance
  <1>4. Rev(c) \in waited /\ pc[c[2]] \in Waiting => Rev(c) \in counted
    BY ChanFacts DEF WaitOrder
  <1>5. CountIn(c) = step[c[1]] /\ DataIn(c) = step[c[1]]
    BY <1>1, <1>2, <1>3, <1>4, Numbers DEF CountIn, DataIn, One
  <1>6. ~CountOutDue(c) /\ ~DataOutDue(c) /\ ~CountInDue(c) /\ ~DataInDue(c)
    BY <1>1, <1>5 DEF CountOutDue, DataOutDue, CountInDue, DataInDue
  <1>7. \A k \in Kind : /\ sendSig[c][k] = 1 /\ recvSig[c][k] = 1
                        /\ ~Unsent(c, k) /\ ~Unlanded(c, k)
    BY <1>6 DEF SendLedger, RecvLedger, Ledger, Kind
  <1>8. \A op \in flight : op.chan # c
    BY <1>7 DEF Unsent, Unlanded, TypeOK, Op
  <1> QED BY <1>1, <1>5, <1>7, <1>8

(* Once a count has been accepted, its block holds what the source sent.    *)
LEMMA Accepted ==
  ASSUME IInv, NEW c \in Chan, Rev(c) \in counted, pc[c[2]] \in Waiting
  PROVE  /\ Round(c[1]) = step[c[2]] + 1 /\ CountIn(c) = step[c[2]] + 1
         /\ ~Unlanded(c, "count") /\ recvCount[c] = sendCount[c]
  <1> USE DEF IInv
  <1>1. CountIn(c) = step[c[2]] + 1
    BY DEF CountIn, One
  <1>2. CountIn(c) <= Round(c[1]) /\ Round(c[1]) <= step[c[2]] + 1
    BY Close DEF Balance
  <1>3. Round(c[1]) = CountIn(c)
    BY <1>1, <1>2, Numbers
  <1>4. ~Unlanded(c, "count")
    BY <1>3 DEF RecvLedger, Ledger, CountInDue
  <1> QED BY <1>1, <1>3, <1>4 DEF CountArrived

(* A completion is on its way only while it is due.                        *)
LEMMA OpDue ==
  ASSUME IInv, NEW op \in flight
  PROVE  /\ op.chan \in Chan /\ op.kind \in Kind
         /\ op.state # "sent" /\ op.kind = "count" => CountOutDue(op.chan)
         /\ op.state # "sent" /\ op.kind = "data"  => DataOutDue(op.chan)
         /\ op.state # "landed" /\ op.kind = "count" => CountInDue(op.chan)
         /\ op.state # "landed" /\ op.kind = "data"  => DataInDue(op.chan)
         /\ op.state # "sent"   => sendSig[op.chan][op.kind] = 1
         /\ op.state # "landed" => recvSig[op.chan][op.kind] = 1
  <1>1. op.chan \in Chan /\ op.kind \in Kind
    BY DEF IInv, TypeOK, Op
  <1>2. /\ op.state # "sent" => Unsent(op.chan, op.kind)
        /\ op.state # "landed" => Unlanded(op.chan, op.kind)
    BY DEF Unsent, Unlanded
  <1> QED BY <1>1, <1>2 DEF IInv, SendLedger, RecvLedger, Ledger, Kind

---------------------------------------------------------------------------
(* The invariant is inductive: first the parts about the ranks alone.       *)

(* Every step keeps what is said of the ranks alone: the field exchange     *)
(* ties neighbors together, and a data wait follows its count wait.        *)
LEMMA RankStep == IInv /\ [Next]_vars => Phase' /\ Barrier' /\ WaitOrder'
  <1> SUFFICES ASSUME IInv, [Next]_vars PROVE Phase' /\ Barrier' /\ WaitOrder'
    OBVIOUS
  <1> USE DEF IInv
  <1>0. \A c \in Chan : c[1] \in Rank /\ c[2] \in Rank
    BY ChanFacts
  <1>a. /\ Neighbor \in [Rank -> SUBSET Rank]
        /\ pc \in [Rank -> PC] /\ step \in [Rank -> Nat] /\ exchange \in [Rank -> Nat]
    BY NeighborAssumption DEF TypeOK
  <1>1. ASSUME NEW r \in Rank, EnterFill(r) PROVE Phase' /\ Barrier' /\ WaitOrder'
    <2>1. Phase'
      BY <1>1, <1>a DEF EnterFill, Phase, One
    <2>2. Barrier'
      BY <1>1, <1>a DEF EnterFill, Barrier, One, Fused
    <2>3. WaitOrder'
      BY <1>1, <1>a, <1>0 DEF EnterFill, WaitOrder, Waiting
    <2> QED BY <2>1, <2>2, <2>3
  <1>2. ASSUME NEW r \in Rank, LeaveFill(r) PROVE Phase' /\ Barrier' /\ WaitOrder'
    <2>1. Phase'
      BY <1>2, <1>a DEF LeaveFill, Phase, One
    <2>2. exchange[r] = step[r] + 1
      BY <1>2, <1>a DEF LeaveFill, Phase, One
    <2>3. Barrier'
      BY <1>2, <2>2, <1>a DEF LeaveFill, FillDone, Barrier, One, Fused
    <2>4. WaitOrder'
      BY <1>2, <1>a, <1>0 DEF LeaveFill, WaitOrder, Waiting
    <2> QED BY <2>1, <2>3, <2>4
  <1>3. ASSUME NEW r \in Rank, Pack(r) PROVE Phase' /\ Barrier' /\ WaitOrder'
    <2>1. pc[r] = "pack" /\ pc' = [pc EXCEPT ![r] = "put"]
          /\ UNCHANGED <<step, exchange, counted, waited>>
      BY <1>3 DEF Pack
    <2>2. Phase' /\ Barrier'
      BY <2>1, <1>a DEF Phase, Barrier, One, Fused
    <2>3. WaitOrder'
      BY <2>1, <1>a, <1>0 DEF WaitOrder, Waiting
    <2> QED BY <2>2, <2>3
  <1>4. ASSUME NEW r \in Rank, Put(r) PROVE Phase' /\ Barrier' /\ WaitOrder'
    <2>1. pc[r] = "put" /\ pc' = [pc EXCEPT ![r] = "wait"]
          /\ UNCHANGED <<step, exchange>>
          /\ counted' = {c \in counted : c[1] # r} /\ waited' = {c \in waited : c[1] # r}
      BY <1>4 DEF Put
    <2>2. Phase' /\ Barrier'
      BY <2>1, <1>a DEF Phase, Barrier, One, Fused
    <2>3. WaitOrder'
      BY <2>1, <1>a, <1>0 DEF WaitOrder, Waiting
    <2> QED BY <2>2, <2>3
  <1>5. ASSUME NEW c \in Chan, WaitCount(c) PROVE Phase' /\ Barrier' /\ WaitOrder'
    BY <1>5 DEF WaitCount, Phase, Barrier, WaitOrder
  <1>6. ASSUME NEW c \in Chan, WaitData(c) PROVE Phase' /\ Barrier' /\ WaitOrder'
    <2>1. c \in counted
      BY <1>6 DEF WaitData, DataTurn, Out
    <2> QED BY <1>6, <2>1 DEF WaitData, Phase, Barrier, WaitOrder
  <1>7. ASSUME NEW r \in Rank, FinishWait(r) PROVE Phase' /\ Barrier' /\ WaitOrder'
    <2>1. Phase' /\ Barrier'
      BY <1>7, <1>a DEF FinishWait, Phase, Barrier, One, Fused
    <2>2. WaitOrder'
      BY <1>7, <1>a, <1>0 DEF FinishWait, AllWaited, Out, WaitOrder, Waiting
    <2> QED BY <2>1, <2>2
  <1>8. ASSUME NEW r \in Rank, Collect(r) PROVE Phase' /\ Barrier' /\ WaitOrder'
    <2>1. pc[r] = "collect" /\ pc' = [pc EXCEPT ![r] = "begin"]
          /\ step' = [step EXCEPT ![r] = @ + 1] /\ UNCHANGED <<exchange, counted, waited>>
      BY <1>8 DEF Collect
    <2>2. Phase' /\ Barrier'
      BY <2>1, <1>a DEF Phase, Barrier, One, Fused
    <2>3. WaitOrder'
      BY <2>1, <1>a, <1>0 DEF WaitOrder, Waiting
    <2> QED BY <2>2, <2>3
  <1>9. ASSUME NEW op \in flight, Sent(op) \/ Land(op) PROVE Phase' /\ Barrier' /\ WaitOrder'
    BY <1>9 DEF Sent, Land, Phase, Barrier, WaitOrder
  <1>10. ASSUME UNCHANGED vars PROVE Phase' /\ Barrier' /\ WaitOrder'
    BY <1>10 DEF vars, Phase, Barrier, WaitOrder
  <1> QED
    BY <1>1, <1>2, <1>3, <1>4, <1>5, <1>6, <1>7, <1>8, <1>9, <1>10
    DEF Next, RankNext, Transport, Out

---------------------------------------------------------------------------
(* Then the books of the channels.                                         *)

Books == /\ Balance /\ SendLedger /\ RecvLedger /\ OnePut /\ PutOfRound
         /\ CountArrived /\ Packed /\ SendBlockStable

(* A step that neither puts, completes nor accepts leaves the books alone.  *)
LEMMA QuietStep ==
  ASSUME IInv,
         UNCHANGED <<sendSig, recvSig, flight, sendCount, recvCount>>,
         \A r \in Rank : Round(r)' = Round(r),
         \A c \in Chan : /\ CountOut(c)' = CountOut(c) /\ DataOut(c)' = DataOut(c)
                         /\ CountIn(c)' = CountIn(c) /\ DataIn(c)' = DataIn(c)
  PROVE  /\ Balance' /\ SendLedger' /\ RecvLedger' /\ OnePut' /\ PutOfRound'
         /\ CountArrived'
  <1> USE DEF IInv
  <1>1. \A c \in Chan : Round(c[1])' = Round(c[1])
    BY ChanFacts
  <1>2. Balance'
    BY <1>1 DEF Balance
  <1>3. SendLedger'
    BY <1>1 DEF SendLedger, Ledger, CountOutDue, DataOutDue, Unsent
  <1>4. RecvLedger'
    BY <1>1 DEF RecvLedger, Ledger, CountInDue, DataInDue, Unlanded
  <1>5. OnePut' /\ CountArrived'
    BY DEF OnePut, CountArrived, Unlanded
  <1>6. \A op \in flight : op.chan \in Chan
    BY DEF TypeOK, Op
  <1>7. PutOfRound'
    BY <1>1, <1>6 DEF PutOfRound
  <1> QED BY <1>2, <1>3, <1>4, <1>5, <1>7

(* Starting the field exchange touches no block and no signal.             *)
LEMMA EnterFillBooks == ASSUME IInv, NEW r \in Rank, EnterFill(r) PROVE Books'
  <1> USE DEF IInv
  <1>1. /\ pc[r] = "begin" /\ pc' = [pc EXCEPT ![r] = "fill"] /\ pc \in [Rank -> PC]
        /\ UNCHANGED <<step, dataSize, sendCount, sendData, recvCount, sendSig,
                       recvSig, flight, counted, waited>>
    BY DEF EnterFill, TypeOK
  <1>2. \A q \in Rank : Round(q)' = Round(q)
    BY <1>1 DEF Round
  <1>3. \A c \in Chan : /\ CountOut(c)' = CountOut(c) /\ DataOut(c)' = DataOut(c)
                        /\ CountIn(c)' = CountIn(c) /\ DataIn(c)' = DataIn(c)
    BY <1>1, ChanFacts DEF CountOut, DataOut, CountIn, DataIn, One, Waiting
  <1>4. Packed' /\ SendBlockStable'
    BY <1>1, ChanFacts DEF Packed, SendBlockStable
  <1> QED BY <1>1, <1>2, <1>3, <1>4, QuietStep DEF Books

(* Nor does ending it.                                                     *)
LEMMA LeaveFillBooks == ASSUME IInv, NEW r \in Rank, LeaveFill(r) PROVE Books'
  <1> USE DEF IInv
  <1>1. /\ pc[r] = "fill" /\ pc' = [pc EXCEPT ![r] = "pack"] /\ pc \in [Rank -> PC]
        /\ UNCHANGED <<step, dataSize, sendCount, sendData, recvCount, sendSig,
                       recvSig, flight, counted, waited>>
    BY DEF LeaveFill, TypeOK
  <1>2. \A q \in Rank : Round(q)' = Round(q)
    BY <1>1 DEF Round
  <1>3. \A c \in Chan : /\ CountOut(c)' = CountOut(c) /\ DataOut(c)' = DataOut(c)
                        /\ CountIn(c)' = CountIn(c) /\ DataIn(c)' = DataIn(c)
    BY <1>1, ChanFacts DEF CountOut, DataOut, CountIn, DataIn, One, Waiting
  <1>4. Packed' /\ SendBlockStable'
    BY <1>1, ChanFacts DEF Packed, SendBlockStable
  <1> QED BY <1>1, <1>2, <1>3, <1>4, QuietStep DEF Books

(* Packing writes data blocks that no put is reading any more.             *)
LEMMA PackBooks == ASSUME IInv, NEW r \in Rank, Pack(r) PROVE Books'
  <1> USE DEF IInv
  <1>1. /\ pc[r] = "pack" /\ pc' = [pc EXCEPT ![r] = "put"] /\ pc \in [Rank -> PC]
        /\ UNCHANGED <<step, sendCount, recvCount, sendSig, recvSig, flight,
                       counted, waited>>
    BY DEF Pack, TypeOK
  <1>2. \A q \in Rank : Round(q)' = Round(q)
    BY <1>1 DEF Round
  <1>3. \A c \in Chan : /\ CountOut(c)' = CountOut(c) /\ DataOut(c)' = DataOut(c)
                        /\ CountIn(c)' = CountIn(c) /\ DataIn(c)' = DataIn(c)
    BY <1>1, ChanFacts DEF CountOut, DataOut, CountIn, DataIn, One, Waiting
  <1>4. PICK load : /\ dataSize' = [c \in Chan |-> IF c \in Out(r) THEN load[c]
                                                                   ELSE dataSize[c]]
                    /\ sendData' = [c \in Chan |-> IF c \in Out(r) /\ load[c] > 0
                                                      THEN step[r] + 1 ELSE sendData[c]]
    BY DEF Pack
  <1>5. Packed'
    <2> SUFFICES ASSUME NEW c \in Chan, pc'[c[1]] = "put", dataSize'[c] > 0
                 PROVE  sendData'[c] = step'[c[1]] + 1
      BY DEF Packed
    <2>1. CASE c[1] = r
      BY <2>1, <1>1, <1>4 DEF Out
    <2>2. CASE c[1] # r
      BY <2>2, <1>1, <1>4, ChanFacts DEF Out, Packed
    <2> QED BY <2>1, <2>2
  <1>6. SendBlockStable'
    <2> SUFFICES ASSUME NEW op \in flight, op.state = "issued", op.kind = "data"
                 PROVE  sendData'[op.chan] = op.step
      BY <1>1 DEF SendBlockStable
    <2>1. op.chan \in Chan
      BY DEF TypeOK, Op
    <2>2. op.chan \notin Out(r)
      BY <1>1, <2>1, NothingDue DEF Out
    <2> QED BY <1>4, <2>1, <2>2 DEF SendBlockStable
  <1> QED BY <1>1, <1>2, <1>3, <1>5, <1>6, QuietStep DEF Books

(* Leaving fusion_unr_wait changes no count: all has been accepted.         *)
LEMMA FinishWaitBooks == ASSUME IInv, NEW r \in Rank, FinishWait(r) PROVE Books'
  <1> USE DEF IInv
  <1>1. /\ pc[r] = "wait" /\ pc' = [pc EXCEPT ![r] = "collect"] /\ pc \in [Rank -> PC]
        /\ UNCHANGED <<step, dataSize, sendCount, sendData, recvCount, sendSig,
                       recvSig, flight, counted, waited>>
    BY DEF FinishWait, TypeOK
  <1>2. \A q \in Rank : Round(q)' = Round(q)
    BY <1>1 DEF Round
  <1>3. \A c \in Chan : /\ CountOut(c)' = CountOut(c) /\ DataOut(c)' = DataOut(c)
                        /\ CountIn(c)' = CountIn(c) /\ DataIn(c)' = DataIn(c)
    BY <1>1, ChanFacts DEF CountOut, DataOut, CountIn, DataIn, One, Waiting
  <1>4. Packed' /\ SendBlockStable'
    BY <1>1, ChanFacts DEF Packed, SendBlockStable
  <1> QED BY <1>1, <1>2, <1>3, <1>4, QuietStep DEF Books

(* A rank that collects has accepted all: the step it completes is the one  *)
(* its accepted completions already counted.                               *)
LEMMA CollectBooks == ASSUME IInv, NEW r \in Rank, Collect(r) PROVE Books'
  <1> USE DEF IInv
  <1>1. /\ pc[r] = "collect" /\ pc' = [pc EXCEPT ![r] = "begin"] /\ pc \in [Rank -> PC]
        /\ step' = [step EXCEPT ![r] = @ + 1] /\ step \in [Rank -> Nat]
        /\ UNCHANGED <<dataSize, sendCount, sendData, recvCount, sendSig,
                       recvSig, flight, counted, waited>>
    BY DEF Collect, TypeOK
  <1>2. \A q \in Rank : Round(q)' = Round(q)
    BY <1>1 DEF Round
  <1>3. \A c \in Chan : pc[c[1]] = "collect" => c \in waited /\ c \in counted
    BY DEF WaitOrder, Waiting
  <1>4. \A c \in Chan : CountOut(c)' = CountOut(c) /\ DataOut(c)' = DataOut(c)
    BY <1>1, <1>3, ChanFacts DEF CountOut, DataOut, One, Waiting
  <1>5. \A c \in Chan : pc[c[2]] = "collect" => Rev(c) \in waited /\ Rev(c) \in counted
    BY <1>3, ChanFacts
  <1>6. \A c \in Chan : CountIn(c)' = CountIn(c) /\ DataIn(c)' = DataIn(c)
    BY <1>1, <1>5, ChanFacts DEF CountIn, DataIn, One, Waiting
  <1>7. Packed' /\ SendBlockStable'
    BY <1>1, ChanFacts DEF Packed, SendBlockStable
  <1> QED BY <1>1, <1>2, <1>4, <1>6, <1>7, QuietStep DEF Books
(* A put finds its channels empty and makes one of each kind due on both    *)
(* sides, the data only if there are any.                                  *)
LEMMA PutBooks == ASSUME IInv, NEW r \in Rank, Put(r) PROVE Books'
  <1> USE DEF IInv
  <1> DEFINE Fresh == {Issue(c, "count", step[r] + 1) : c \in Out(r)}
               \cup {Issue(c, "data", step[r] + 1) : c \in {d \in Out(r) : dataSize[d] > 0}}
  <1>1. /\ pc[r] = "put" /\ pc' = [pc EXCEPT ![r] = "wait"] /\ pc \in [Rank -> PC]
        /\ step \in [Rank -> Nat] /\ dataSize \in [Chan -> Nat]
        /\ sendCount' = [c \in Chan |-> IF c \in Out(r) THEN dataSize[c] ELSE sendCount[c]]
        /\ flight' = flight \cup Fresh
        /\ counted' = {c \in counted : c[1] # r} /\ waited' = {c \in waited : c[1] # r}
        /\ UNCHANGED <<step, dataSize, sendData, recvCount, sendSig, recvSig>>
    BY DEF Put, TypeOK
  <1>2. \A q \in Rank \ {r} : Round(q)' = Round(q)
    BY <1>1 DEF Round
  <1>3. Round(r)' = step[r] + 1
    BY <1>1 DEF Round
  <1>4. \A op \in Fresh : /\ op.chan \in Out(r) /\ op.state = "issued"
                          /\ op.step = step[r] + 1 /\ op.kind \in Kind
                          /\ op.kind = "data" => dataSize[op.chan] > 0
                          /\ op = Issue(op.chan, op.kind, step[r] + 1)
    BY DEF Issue, Kind
  <1>5. \A c \in Out(r) : c \in Chan /\ c[1] = r
    BY DEF Out
  <1>6. \A op \in flight : op.chan \in Chan /\ op.chan \notin Out(r)
    BY <1>1, <1>5, NothingDue, ZenonT(40) DEF TypeOK, Op
  <1>7. ASSUME NEW c \in Out(r)
        PROVE  /\ Round(c[1])' = step[r] + 1
               /\ CountOut(c)' = step[r] /\ DataOut(c)' = step[r]
               /\ CountIn(c)' = step[r] /\ DataIn(c)' = step[r]
               /\ sendCount'[c] = dataSize[c]
               /\ \A k \in Kind : sendSig'[c][k] = 1 /\ recvSig'[c][k] = 1
    <2>1. c \in Chan /\ c[1] = r /\ c[2] \in Rank \ {r} /\ Rev(c)[1] = c[2]
      BY <1>5, ChanFacts
    <2>2. CountOut(c)' = step[r] /\ DataOut(c)' = step[r]
      BY <1>1, <2>1 DEF CountOut, DataOut, One
    <2>3. CountIn(c)' = CountIn(c) /\ DataIn(c)' = DataIn(c)
      BY <1>1, <2>1 DEF CountIn, DataIn, One, Waiting
    <2> QED BY <1>1, <1>3, <2>1, <2>2, <2>3, NothingDue
  <1>8. ASSUME NEW c \in Chan, c \notin Out(r)
        PROVE  /\ Round(c[1])' = Round(c[1])
               /\ CountOut(c)' = CountOut(c) /\ DataOut(c)' = DataOut(c)
               /\ CountIn(c)' = CountIn(c) /\ DataIn(c)' = DataIn(c)
               /\ sendCount'[c] = sendCount[c]
    <2>1. c[1] \in Rank \ {r} /\ c[2] \in Rank /\ Rev(c)[1] = c[2]
      BY <1>8, ChanFacts DEF Out
    <2>2. CountOut(c)' = CountOut(c) /\ DataOut(c)' = DataOut(c)
      BY <1>1, <2>1 DEF CountOut, DataOut, One, Waiting
    <2>3. CountIn(c)' = CountIn(c) /\ DataIn(c)' = DataIn(c)
      BY <1>1, <2>1 DEF CountIn, DataIn, One, Waiting
    <2> QED BY <1>1, <1>2, <1>8, <2>1, <2>2, <2>3
  <1>9. ASSUME NEW c \in Chan, c \notin Out(r), NEW k \in Kind
        PROVE  (Unsent(c, k)' <=> Unsent(c, k)) /\ (Unlanded(c, k)' <=> Unlanded(c, k))
    BY <1>1, <1>4, <1>9 DEF Unsent, Unlanded
  <1>10. ASSUME NEW c \in Out(r)
         PROVE  /\ Unsent(c, "count")' /\ Unlanded(c, "count")'
                /\ Unsent(c, "data")' <=> dataSize[c] > 0
                /\ Unlanded(c, "data")' <=> dataSize[c] > 0
    <2>1. Issue(c, "count", step[r] + 1) \in flight'
      BY <1>1
    <2>2. dataSize[c] > 0 => Issue(c, "data", step[r] + 1) \in flight'
      BY <1>1
    <2>3. \A op \in flight' : op.chan = c => op \in Fresh
      BY <1>1, <1>6
    <2>4. Unsent(c, "count")' /\ Unlanded(c, "count")'
      BY <2>1 DEF Unsent, Unlanded, Issue
    <2>5. dataSize[c] > 0 => Unsent(c, "data")' /\ Unlanded(c, "data")'
      BY <2>2 DEF Unsent, Unlanded, Issue
    <2>6. Unsent(c, "data")' \/ Unlanded(c, "data")' => dataSize[c] > 0
      BY <2>3, <1>4 DEF Unsent, Unlanded
    <2> QED BY <2>4, <2>5, <2>6
  <1>11. Balance'
    <2> SUFFICES ASSUME NEW c \in Chan PROVE CountIn(c)' <= Round(c[1])'
      BY DEF Balance
    <2>1. CASE c \in Out(r)
      <3>1. CountIn(c)' = step[r] /\ Round(c[1])' = step[r] + 1
        BY <2>1, <1>7
      <3>2. step[r] \in Nat
        BY <1>1
      <3> QED BY <3>1, <3>2
    <2>2. CASE c \notin Out(r)
      BY <2>2, <1>8 DEF Balance
    <2> QED BY <2>1, <2>2
  <1>12. SendLedger'
    <2> SUFFICES ASSUME NEW c \in Chan
                 PROVE  /\ Ledger(sendSig[c]["count"], CountOutDue(c), Unsent(c, "count"))'
                        /\ Ledger(sendSig[c]["data"],  DataOutDue(c),  Unsent(c, "data"))'
      BY DEF SendLedger
    <2>1. CASE c \in Out(r)
      <3>1. CountOutDue(c)' /\ (DataOutDue(c)' <=> dataSize[c] > 0)
        BY <2>1, <1>1, <1>7 DEF CountOutDue, DataOutDue
      <3>2. sendSig'[c]["count"] = 1 /\ sendSig'[c]["data"] = 1
        BY <2>1, <1>7 DEF Kind
      <3> QED BY <2>1, <3>1, <3>2, <1>10 DEF Ledger
    <2>2. CASE c \notin Out(r)
      <3>1. (CountOutDue(c)' <=> CountOutDue(c)) /\ (DataOutDue(c)' <=> DataOutDue(c))
        BY <2>2, <1>8 DEF CountOutDue, DataOutDue
      <3>2. (Unsent(c, "count")' <=> Unsent(c, "count")) /\ (Unsent(c, "data")' <=> Unsent(c, "data"))
        BY <2>2, <1>9 DEF Kind
      <3> QED BY <3>1, <3>2, <1>1 DEF SendLedger, Ledger
    <2> QED BY <2>1, <2>2
  <1>13. RecvLedger'
    <2> SUFFICES ASSUME NEW c \in Chan
                 PROVE  /\ Ledger(recvSig[c]["count"], CountInDue(c), Unlanded(c, "count"))'
                        /\ Ledger(recvSig[c]["data"],  DataInDue(c),  Unlanded(c, "data"))'
      BY DEF RecvLedger
    <2>1. CASE c \in Out(r)
      <3>1. CountInDue(c)' /\ (DataInDue(c)' <=> dataSize[c] > 0)
        BY <2>1, <1>1, <1>7 DEF CountInDue, DataInDue
      <3>2. recvSig'[c]["count"] = 1 /\ recvSig'[c]["data"] = 1
        BY <2>1, <1>7 DEF Kind
      <3> QED BY <2>1, <3>1, <3>2, <1>10 DEF Ledger
    <2>2. CASE c \notin Out(r)
      <3>1. (CountInDue(c)' <=> CountInDue(c)) /\ (DataInDue(c)' <=> DataInDue(c))
        BY <2>2, <1>8 DEF CountInDue, DataInDue
      <3>2. (Unlanded(c, "count")' <=> Unlanded(c, "count")) /\ (Unlanded(c, "data")' <=> Unlanded(c, "data"))
        BY <2>2, <1>9 DEF Kind
      <3> QED BY <3>1, <3>2, <1>1 DEF RecvLedger, Ledger
    <2> QED BY <2>1, <2>2
  <1>14. OnePut'
    BY <1>1, <1>4, <1>6 DEF OnePut
  <1>15. PutOfRound'
    <2> SUFFICES ASSUME NEW op \in flight'
                 PROVE  /\ op.step = Round(op.chan[1])'
                        /\ op.kind = "count" /\ op.state # "issued"
                              => op.val = sendCount'[op.chan]
      BY DEF PutOfRound
    <2>1. CASE op \in flight
      BY <2>1, <1>6, <1>8 DEF PutOfRound
    <2>2. CASE op \in Fresh
      BY <2>2, <1>4, <1>7
    <2> QED BY <2>1, <2>2, <1>1
  <1>16. CountArrived'
    <2> SUFFICES ASSUME NEW c \in Chan, ~Unlanded(c, "count")'
                 PROVE  recvCount'[c] = sendCount'[c]
      BY DEF CountArrived
    <2>1. c \notin Out(r)
      BY <1>10
    <2> QED BY <2>1, <1>1, <1>8, <1>9 DEF CountArrived, Kind
  <1>17. Packed'
    BY <1>1, ChanFacts DEF Packed
  <1>18. SendBlockStable'
    <2> SUFFICES ASSUME NEW op \in flight', op.state = "issued", op.kind = "data"
                 PROVE  sendData'[op.chan] = op.step
      BY DEF SendBlockStable
    <2>1. CASE op \in flight
      BY <2>1, <1>1 DEF SendBlockStable
    <2>2. CASE op \in Fresh
      BY <2>2, <1>1, <1>4, <1>5 DEF Packed
    <2> QED BY <2>1, <2>2, <1>1
  <1> QED
    BY <1>11, <1>12, <1>13, <1>14, <1>15, <1>16, <1>17, <1>18 DEF Books
(* Accepting a count balances the event that was on the signal.            *)
LEMMA WaitCountBooks == ASSUME IInv, NEW d \in Chan, WaitCount(d) PROVE Books'
  <1> USE DEF IInv
  <1>1. /\ pc[d[1]] = "wait" /\ d \notin counted /\ counted' = counted \cup {d}
        /\ sendSig[d]["count"] = 0 /\ recvSig[Rev(d)]["count"] = 0
        /\ sendSig' = [sendSig EXCEPT ![d]["count"] = 1]
        /\ recvSig' = [recvSig EXCEPT ![Rev(d)]["count"] = 1]
        /\ sendSig \in [Chan -> [Kind -> Int]] /\ recvSig \in [Chan -> [Kind -> Int]]
        /\ UNCHANGED <<pc, step, dataSize, sendCount, sendData, recvCount, flight, waited>>
    BY DEF WaitCount, CountTurn, NumEvent, TypeOK
  <1>2. \A c \in Chan : /\ Round(c[1])' = Round(c[1]) /\ DataOut(c)' = DataOut(c)
                        /\ DataIn(c)' = DataIn(c)
                        /\ c # d => CountOut(c)' = CountOut(c)
                        /\ c # Rev(d) => CountIn(c)' = CountIn(c)
    <2>1. \A c \in Chan : c # Rev(d) => Rev(c) # d
      BY ChanFacts
    <2> QED BY <1>1, <2>1 DEF Round, CountOut, DataOut, CountIn, DataIn
  <1>3. /\ CountOut(d) = step[d[1]] /\ CountOut(d)' = step[d[1]] + 1
        /\ Round(d[1]) = step[d[1]] + 1
    BY <1>1, Numbers DEF CountOut, Round, One, Waiting
  <1>4. /\ Rev(d) \in Chan /\ Rev(d)[2] = d[1] /\ Rev(Rev(d)) = d
    BY ChanFacts
  <1>5. /\ CountIn(Rev(d)) = step[d[1]] /\ CountIn(Rev(d))' = step[d[1]] + 1
    BY <1>1, <1>4, Numbers DEF CountIn, One, Waiting
  <1>6. CountOutDue(d) /\ ~Unsent(d, "count")
    BY <1>1 DEF SendLedger, Ledger
  <1>7. CountInDue(Rev(d)) /\ ~Unlanded(Rev(d), "count")
    BY <1>1, <1>4 DEF RecvLedger, Ledger
  <1>8. Round(Rev(d)[1]) = step[d[1]] + 1
    <2>1. Round(Rev(d)[1]) <= step[d[1]] + 1
      BY <1>4, Close
    <2>2. CountIn(Rev(d)) <= Round(Rev(d)[1]) /\ Round(Rev(d)[1]) # CountIn(Rev(d))
      BY <1>4, <1>7 DEF Balance, CountInDue
    <2> QED BY <1>4, <1>5, <2>1, <2>2, Numbers
  <1>9. Balance'
    <2> SUFFICES ASSUME NEW c \in Chan PROVE CountIn(c)' <= Round(c[1])'
      BY DEF Balance
    <2>1. CASE c = Rev(d)
      BY <2>1, <1>2, <1>4, <1>5, <1>8, Numbers
    <2>2. CASE c # Rev(d)
      BY <2>2, <1>2 DEF Balance
    <2> QED BY <2>1, <2>2
  <1>10. SendLedger'
    <2> SUFFICES ASSUME NEW c \in Chan
                 PROVE  /\ Ledger(sendSig[c]["count"], CountOutDue(c), Unsent(c, "count"))'
                        /\ Ledger(sendSig[c]["data"],  DataOutDue(c),  Unsent(c, "data"))'
      BY DEF SendLedger
    <2>1. (Unsent(c, "count")' <=> Unsent(c, "count")) /\ (Unsent(c, "data")' <=> Unsent(c, "data"))
      BY <1>1 DEF Unsent
    <2>2. DataOutDue(c)' <=> DataOutDue(c)
      BY <1>1, <1>2 DEF DataOutDue
    <2>3. sendSig'[c]["data"] = sendSig[c]["data"]
      BY <1>1 DEF Kind
    <2>4. CASE c = d
      <3>1. ~CountOutDue(c)'
        BY <2>4, <1>2, <1>3 DEF CountOutDue
      <3>2. sendSig'[c]["count"] = 1
        BY <2>4, <1>1 DEF Kind
      <3> QED BY <2>1, <2>2, <2>3, <2>4, <3>1, <3>2, <1>6 DEF SendLedger, Ledger
    <2>5. CASE c # d
      <3>1. (CountOutDue(c)' <=> CountOutDue(c)) /\ sendSig'[c] = sendSig[c]
        BY <2>5, <1>1, <1>2 DEF CountOutDue
      <3> QED BY <2>1, <2>2, <3>1 DEF SendLedger, Ledger
    <2> QED BY <2>4, <2>5
  <1>11. RecvLedger'
    <2> SUFFICES ASSUME NEW c \in Chan
                 PROVE  /\ Ledger(recvSig[c]["count"], CountInDue(c), Unlanded(c, "count"))'
                        /\ Ledger(recvSig[c]["data"],  DataInDue(c),  Unlanded(c, "data"))'
      BY DEF RecvLedger
    <2>1. (Unlanded(c, "count")' <=> Unlanded(c, "count")) /\ (Unlanded(c, "data")' <=> Unlanded(c, "data"))
      BY <1>1 DEF Unlanded
    <2>2. DataInDue(c)' <=> DataInDue(c)
      BY <1>1, <1>2 DEF DataInDue
    <2>3. recvSig'[c]["data"] = recvSig[c]["data"]
      BY <1>1, <1>4 DEF Kind
    <2>4. CASE c = Rev(d)
      <3>1. ~CountInDue(c)'
        BY <2>4, <1>2, <1>4, <1>5, <1>8 DEF CountInDue
      <3>2. recvSig'[c]["count"] = 1
        BY <2>4, <1>1, <1>4 DEF Kind
      <3> QED BY <2>1, <2>2, <2>3, <2>4, <3>1, <3>2, <1>7 DEF RecvLedger, Ledger
    <2>5. CASE c # Rev(d)
      <3>1. (CountInDue(c)' <=> CountInDue(c)) /\ recvSig'[c] = recvSig[c]
        BY <2>5, <1>1, <1>2, <1>4 DEF CountInDue
      <3> QED BY <2>1, <2>2, <3>1 DEF RecvLedger, Ledger
    <2> QED BY <2>4, <2>5
  <1>12. OnePut' /\ CountArrived' /\ Packed' /\ SendBlockStable'
    BY <1>1 DEF OnePut, CountArrived, Unlanded, Packed, SendBlockStable
  <1>13. PutOfRound'
    BY <1>1, <1>2 DEF PutOfRound, TypeOK, Op
  <1> QED BY <1>9, <1>10, <1>11, <1>12, <1>13 DEF Books

(* Accepting data: each side waits exactly if something is due there, since *)
(* both read the size the source sent.                                     *)
LEMMA WaitDataBooks == ASSUME IInv, NEW d \in Chan, WaitData(d) PROVE Books'
  <1> USE DEF IInv
  <1>1. /\ pc[d[1]] = "wait" /\ d \notin waited /\ waited' = waited \cup {d}
        /\ d \in counted
        /\ sendCount[d] > 0 => sendSig[d]["data"] = 0
        /\ recvCount[Rev(d)] > 0 => recvSig[Rev(d)]["data"] = 0
        /\ sendSig' = IF sendCount[d] > 0 THEN [sendSig EXCEPT ![d]["data"] = 1] ELSE sendSig
        /\ recvSig' = IF recvCount[Rev(d)] > 0
                        THEN [recvSig EXCEPT ![Rev(d)]["data"] = 1] ELSE recvSig
        /\ sendSig \in [Chan -> [Kind -> Int]] /\ recvSig \in [Chan -> [Kind -> Int]]
        /\ UNCHANGED <<pc, step, dataSize, sendCount, sendData, recvCount, flight, counted>>
    BY DEF WaitData, DataTurn, SendsData, ReceivesData, Out, NumEvent, TypeOK
  <1>2. \A c \in Chan : /\ Round(c[1])' = Round(c[1]) /\ CountOut(c)' = CountOut(c)
                        /\ CountIn(c)' = CountIn(c)
                        /\ c # d => DataOut(c)' = DataOut(c)
                        /\ c # Rev(d) => DataIn(c)' = DataIn(c)
    <2>1. \A c \in Chan : c # Rev(d) => Rev(c) # d
      BY ChanFacts
    <2> QED BY <1>1, <2>1 DEF Round, CountOut, DataOut, CountIn, DataIn
  <1>3. /\ DataOut(d) = step[d[1]] /\ DataOut(d)' = step[d[1]] + 1
        /\ Round(d[1]) = step[d[1]] + 1
    BY <1>1, Numbers DEF DataOut, Round, One, Waiting
  <1>4. /\ Rev(d) \in Chan /\ Rev(d)[2] = d[1] /\ Rev(Rev(d)) = d
    BY ChanFacts
  <1>5. /\ DataIn(Rev(d)) = step[d[1]] /\ DataIn(Rev(d))' = step[d[1]] + 1
    BY <1>1, <1>4, Numbers DEF DataIn, One, Waiting
  <1>6. Round(Rev(d)[1]) = step[d[1]] + 1 /\ recvCount[Rev(d)] = sendCount[Rev(d)]
    BY <1>1, <1>4, Accepted DEF Waiting
  <1>7. ~Unsent(d, "data") /\ (sendCount[d] <= 0 => sendSig[d]["data"] = 1)
    BY <1>1, Numbers DEF SendLedger, Ledger, DataOutDue
  <1>8. ~Unlanded(Rev(d), "data") /\ (sendCount[Rev(d)] <= 0 => recvSig[Rev(d)]["data"] = 1)
    BY <1>1, <1>4, <1>6, Numbers DEF RecvLedger, Ledger, DataInDue
  <1>9. Balance'
    BY <1>2 DEF Balance
  <1>10. SendLedger'
    <2> SUFFICES ASSUME NEW c \in Chan
                 PROVE  /\ Ledger(sendSig[c]["count"], CountOutDue(c), Unsent(c, "count"))'
                        /\ Ledger(sendSig[c]["data"],  DataOutDue(c),  Unsent(c, "data"))'
      BY DEF SendLedger
    <2>1. (Unsent(c, "count")' <=> Unsent(c, "count")) /\ (Unsent(c, "data")' <=> Unsent(c, "data"))
      BY <1>1 DEF Unsent
    <2>2. CountOutDue(c)' <=> CountOutDue(c)
      BY <1>2 DEF CountOutDue
    <2>3. sendSig'[c]["count"] = sendSig[c]["count"]
      BY <1>1 DEF Kind
    <2>4. CASE c = d
      <3>1. ~DataOutDue(c)'
        BY <2>4, <1>2, <1>3 DEF DataOutDue
      <3>2. sendSig'[c]["data"] = 1
        BY <2>4, <1>1, <1>7, Numbers DEF Kind
      <3> QED BY <2>1, <2>2, <2>3, <2>4, <3>1, <3>2, <1>7 DEF SendLedger, Ledger
    <2>5. CASE c # d
      <3>1. (DataOutDue(c)' <=> DataOutDue(c)) /\ sendSig'[c] = sendSig[c]
        BY <2>5, <1>1, <1>2 DEF DataOutDue
      <3> QED BY <2>1, <2>2, <3>1 DEF SendLedger, Ledger
    <2> QED BY <2>4, <2>5
  <1>11. RecvLedger'
    <2> SUFFICES ASSUME NEW c \in Chan
                 PROVE  /\ Ledger(recvSig[c]["count"], CountInDue(c), Unlanded(c, "count"))'
                        /\ Ledger(recvSig[c]["data"],  DataInDue(c),  Unlanded(c, "data"))'
      BY DEF RecvLedger
    <2>1. (Unlanded(c, "count")' <=> Unlanded(c, "count")) /\ (Unlanded(c, "data")' <=> Unlanded(c, "data"))
      BY <1>1 DEF Unlanded
    <2>2. CountInDue(c)' <=> CountInDue(c)
      BY <1>2 DEF CountInDue
    <2>3. recvSig'[c]["count"] = recvSig[c]["count"]
      BY <1>1, <1>4 DEF Kind
    <2>4. CASE c = Rev(d)
      <3>1. ~DataInDue(c)'
        BY <2>4, <1>2, <1>4, <1>5, <1>6 DEF DataInDue
      <3>2. recvSig'[c]["data"] = 1
        BY <2>4, <1>1, <1>4, <1>6, <1>8, Numbers DEF Kind
      <3> QED BY <2>1, <2>2, <2>3, <2>4, <3>1, <3>2, <1>8 DEF RecvLedger, Ledger
    <2>5. CASE c # Rev(d)
      <3>1. (DataInDue(c)' <=> DataInDue(c)) /\ recvSig'[c] = recvSig[c]
        BY <2>5, <1>1, <1>2, <1>4 DEF DataInDue
      <3> QED BY <2>1, <2>2, <3>1 DEF RecvLedger, Ledger
    <2> QED BY <2>4, <2>5
  <1>12. OnePut' /\ CountArrived' /\ Packed' /\ SendBlockStable'
    BY <1>1 DEF OnePut, CountArrived, Unlanded, Packed, SendBlockStable
  <1>13. PutOfRound'
    BY <1>1, <1>2 DEF PutOfRound, TypeOK, Op
  <1> QED BY <1>9, <1>10, <1>11, <1>12, <1>13 DEF Books

(* A completion at the source moves from the way to the signal.            *)
LEMMA SentBooks == ASSUME IInv, NEW op \in flight, Sent(op) PROVE Books'
  <1> USE DEF IInv
  <1> DEFINE next == [op EXCEPT !.state = "sent", !.val = Payload(op)]
  <1>1. /\ op \in Op /\ op.state # "sent" /\ op.chan \in Chan /\ op.kind \in Kind
        /\ sendSig \in [Chan -> [Kind -> Int]]
        /\ sendSig' = [sendSig EXCEPT ![op.chan][op.kind] = @ - 1]
        /\ UNCHANGED <<pc, step, dataSize, sendCount, sendData, recvSig, counted, waited>>
    BY DEF Sent, TypeOK, Op
  <1>2. /\ flight' \subseteq (flight \ {op}) \cup {next}
        /\ flight \ {op} \subseteq flight'
        /\ op.state = "landed" => next \notin flight'
        /\ op.state # "landed" => next \in flight'
    <2>1. next.state = "sent" /\ next.chan = op.chan /\ next.kind = op.kind
      BY <1>1 DEF Op
    <2>2. next # op
      BY <1>1, <2>1
    <2>3. next \notin flight
      BY <2>1, <2>2 DEF OnePut
    <2> QED BY <2>3 DEF Sent
  <1>3. /\ next.state = "sent" /\ next.chan = op.chan /\ next.kind = op.kind
        /\ next.step = op.step /\ next.val = Payload(op)
    BY <1>1 DEF Op
  <1>4. \A c \in Chan : /\ Round(c[1])' = Round(c[1])
                        /\ CountOut(c)' = CountOut(c) /\ DataOut(c)' = DataOut(c)
                        /\ CountIn(c)' = CountIn(c) /\ DataIn(c)' = DataIn(c)
    BY <1>1 DEF Round, CountOut, DataOut, CountIn, DataIn
  <1>5. Unsent(op.chan, op.kind) /\ sendSig[op.chan][op.kind] = 1
    BY <1>1, OpDue DEF Unsent
  <1>6. ~Unsent(op.chan, op.kind)'
    <2> SUFFICES ASSUME NEW o \in flight', o.chan = op.chan, o.kind = op.kind
                 PROVE  o.state = "sent"
      BY DEF Unsent
    <2>1. CASE o = next
      BY <2>1, <1>3
    <2>2. CASE o \in flight \ {op}
      BY <2>2 DEF OnePut
    <2> QED BY <2>1, <2>2, <1>2
  <1>7. \A c \in Chan, k \in Kind : (c # op.chan \/ k # op.kind) =>
          ((Unsent(c, k))' <=> Unsent(c, k))
    BY <1>2, <1>3 DEF Unsent
  <1>8. \A c \in Chan, k \in Kind : (Unlanded(c, k))' <=> Unlanded(c, k)
    <2> SUFFICES ASSUME NEW c \in Chan, NEW k \in Kind
                 PROVE  (Unlanded(c, k))' <=> Unlanded(c, k)
      OBVIOUS
    <2>1. ASSUME Unlanded(c, k) PROVE (Unlanded(c, k))'
      <3>1. PICK o \in flight : o.chan = c /\ o.kind = k /\ o.state # "landed"
        BY <2>1 DEF Unlanded
      <3>2. CASE o = op
        BY <3>1, <3>2, <1>2, <1>3 DEF Unlanded
      <3>3. CASE o # op
        BY <3>1, <3>3, <1>2 DEF Unlanded
      <3> QED BY <3>2, <3>3
    <2>2. ASSUME (Unlanded(c, k))' PROVE Unlanded(c, k)
      <3>1. PICK o \in flight' : o.chan = c /\ o.kind = k /\ o.state # "landed"
        BY <2>2 DEF Unlanded
      <3>2. CASE o = next
        BY <3>1, <3>2, <1>2, <1>3 DEF Unlanded
      <3>3. CASE o # next
        BY <3>1, <3>3, <1>2 DEF Unlanded
      <3> QED BY <3>2, <3>3
    <2> QED BY <2>1, <2>2
  <1>9. Balance'
    BY <1>4 DEF Balance
  <1>10. SendLedger'
    <2> SUFFICES ASSUME NEW c \in Chan
                 PROVE  /\ Ledger(sendSig[c]["count"], CountOutDue(c), Unsent(c, "count"))'
                        /\ Ledger(sendSig[c]["data"],  DataOutDue(c),  Unsent(c, "data"))'
      BY DEF SendLedger
    <2>1. (CountOutDue(c)' <=> CountOutDue(c)) /\ (DataOutDue(c)' <=> DataOutDue(c))
      BY <1>1, <1>4 DEF CountOutDue, DataOutDue
    <2>2. \A k \in Kind : (c # op.chan \/ k # op.kind) =>
            sendSig'[c][k] = sendSig[c][k] /\ ((Unsent(c, k))' <=> Unsent(c, k))
      BY <1>1, <1>7
    <2>3. sendSig'[op.chan][op.kind] = 0
      BY <1>1, <1>5
    <2>4. \A k \in Kind : c = op.chan /\ k = op.kind =>
            sendSig'[c][k] = 0 /\ ~(Unsent(c, k))' /\ Unsent(c, k)
      BY <1>5, <1>6, <2>3
    <2>5. "count" \in Kind /\ "data" \in Kind
      BY DEF Kind
    <2>6. Ledger(sendSig[c]["count"], CountOutDue(c), Unsent(c, "count"))'
      BY <2>1, <2>2, <2>4, <2>5 DEF SendLedger, Ledger
    <2>7. Ledger(sendSig[c]["data"], DataOutDue(c), Unsent(c, "data"))'
      BY <2>1, <2>2, <2>4, <2>5 DEF SendLedger, Ledger
    <2> QED BY <2>6, <2>7
  <1>11. RecvLedger'
    <2> SUFFICES ASSUME NEW c \in Chan
                 PROVE  /\ Ledger(recvSig[c]["count"], CountInDue(c), Unlanded(c, "count"))'
                        /\ Ledger(recvSig[c]["data"],  DataInDue(c),  Unlanded(c, "data"))'
      BY DEF RecvLedger
    <2>1. (CountInDue(c)' <=> CountInDue(c)) /\ (DataInDue(c)' <=> DataInDue(c))
      BY <1>1, <1>4 DEF CountInDue, DataInDue
    <2>2. /\ (Unlanded(c, "count"))' <=> Unlanded(c, "count")
          /\ (Unlanded(c, "data"))' <=> Unlanded(c, "data")
      BY <1>8 DEF Kind
    <2>3. /\ Ledger(recvSig[c]["count"], CountInDue(c), Unlanded(c, "count"))
          /\ Ledger(recvSig[c]["data"],  DataInDue(c),  Unlanded(c, "data"))
      BY DEF RecvLedger
    <2>4. recvSig' = recvSig
      BY <1>1
    <2> QED BY <2>1, <2>2, <2>3, <2>4 DEF Ledger
  <1>12. OnePut'
    <2> SUFFICES ASSUME NEW o1 \in flight', NEW o2 \in flight',
                        o1.chan = o2.chan, o1.kind = o2.kind
                 PROVE  o1 = o2
      BY DEF OnePut
    <2>1. \A o \in flight \ {op} : ~(o.chan = op.chan /\ o.kind = op.kind)
      BY DEF OnePut
    <2>2. CASE o1 = next \/ o2 = next
      BY <2>1, <2>2, <1>2, <1>3
    <2>3. CASE o1 # next /\ o2 # next
      BY <2>3, <1>2 DEF OnePut
    <2> QED BY <2>2, <2>3
  <1>13. Payload(op) = sendCount[op.chan] \/ op.kind = "data"
    BY <1>1 DEF Payload, PutOfRound, Op, Kind
  <1>14. PutOfRound'
    <2> SUFFICES ASSUME NEW o \in flight'
                 PROVE  /\ o.step = Round(o.chan[1])'
                        /\ o.kind = "count" /\ o.state # "issued"
                              => o.val = sendCount'[o.chan]
      BY DEF PutOfRound
    <2>1. CASE o = next
      BY <2>1, <1>1, <1>3, <1>4, <1>13 DEF PutOfRound
    <2>2. CASE o \in flight \ {op}
      BY <2>2, <1>1, <1>4 DEF PutOfRound, TypeOK, Op
    <2> QED BY <2>1, <2>2, <1>2
  <1>15. CountArrived'
    <2>1. recvCount' = recvCount
      BY DEF Sent
    <2> QED BY <1>1, <1>8, <2>1 DEF CountArrived, Kind
  <1>16. Packed' /\ SendBlockStable'
    BY <1>1, <1>2, <1>3 DEF Packed, SendBlockStable
  <1> QED BY <1>9, <1>10, <1>11, <1>12, <1>14, <1>15, <1>16 DEF Books

(* So does one at the target, where a count arrives as the source sent it.  *)
LEMMA LandBooks == ASSUME IInv, NEW op \in flight, Land(op) PROVE Books'
  <1> USE DEF IInv
  <1> DEFINE next == [op EXCEPT !.state = "landed", !.val = Payload(op)]
  <1>1. /\ op \in Op /\ op.state # "landed" /\ op.chan \in Chan /\ op.kind \in Kind
        /\ recvSig \in [Chan -> [Kind -> Int]]
        /\ recvSig' = [recvSig EXCEPT ![op.chan][op.kind] = @ - 1]
        /\ UNCHANGED <<pc, step, dataSize, sendCount, sendData, sendSig, counted, waited>>
    BY DEF Land, TypeOK, Op
  <1>2. /\ flight' \subseteq (flight \ {op}) \cup {next}
        /\ flight \ {op} \subseteq flight'
        /\ op.state = "sent" => next \notin flight'
        /\ op.state # "sent" => next \in flight'
    <2>1. next.state = "landed" /\ next.chan = op.chan /\ next.kind = op.kind
      BY <1>1 DEF Op
    <2>2. next # op
      BY <1>1, <2>1
    <2>3. next \notin flight
      BY <2>1, <2>2 DEF OnePut
    <2> QED BY <2>3 DEF Land
  <1>3. /\ next.state = "landed" /\ next.chan = op.chan /\ next.kind = op.kind
        /\ next.step = op.step /\ next.val = Payload(op)
    BY <1>1 DEF Op
  <1>4. \A c \in Chan : /\ Round(c[1])' = Round(c[1])
                        /\ CountOut(c)' = CountOut(c) /\ DataOut(c)' = DataOut(c)
                        /\ CountIn(c)' = CountIn(c) /\ DataIn(c)' = DataIn(c)
    BY <1>1 DEF Round, CountOut, DataOut, CountIn, DataIn
  <1>5. Unlanded(op.chan, op.kind) /\ recvSig[op.chan][op.kind] = 1
    BY <1>1, OpDue DEF Unlanded
  <1>6. ~Unlanded(op.chan, op.kind)'
    <2> SUFFICES ASSUME NEW o \in flight', o.chan = op.chan, o.kind = op.kind
                 PROVE  o.state = "landed"
      BY DEF Unlanded
    <2>1. CASE o = next
      BY <2>1, <1>3
    <2>2. CASE o \in flight \ {op}
      BY <2>2 DEF OnePut
    <2> QED BY <2>1, <2>2, <1>2
  <1>7. \A c \in Chan, k \in Kind : (c # op.chan \/ k # op.kind) =>
          ((Unlanded(c, k))' <=> Unlanded(c, k))
    BY <1>2, <1>3 DEF Unlanded
  <1>8. \A c \in Chan, k \in Kind : (Unsent(c, k))' <=> Unsent(c, k)
    <2> SUFFICES ASSUME NEW c \in Chan, NEW k \in Kind
                 PROVE  (Unsent(c, k))' <=> Unsent(c, k)
      OBVIOUS
    <2>1. ASSUME Unsent(c, k) PROVE (Unsent(c, k))'
      <3>1. PICK o \in flight : o.chan = c /\ o.kind = k /\ o.state # "sent"
        BY <2>1 DEF Unsent
      <3>2. CASE o = op
        BY <3>1, <3>2, <1>2, <1>3 DEF Unsent
      <3>3. CASE o # op
        BY <3>1, <3>3, <1>2 DEF Unsent
      <3> QED BY <3>2, <3>3
    <2>2. ASSUME (Unsent(c, k))' PROVE Unsent(c, k)
      <3>1. PICK o \in flight' : o.chan = c /\ o.kind = k /\ o.state # "sent"
        BY <2>2 DEF Unsent
      <3>2. CASE o = next
        BY <3>1, <3>2, <1>2, <1>3 DEF Unsent
      <3>3. CASE o # next
        BY <3>1, <3>3, <1>2 DEF Unsent
      <3> QED BY <3>2, <3>3
    <2> QED BY <2>1, <2>2
  <1>9. Balance'
    BY <1>4 DEF Balance
  <1>10. RecvLedger'
    <2> SUFFICES ASSUME NEW c \in Chan
                 PROVE  /\ Ledger(recvSig[c]["count"], CountInDue(c), Unlanded(c, "count"))'
                        /\ Ledger(recvSig[c]["data"],  DataInDue(c),  Unlanded(c, "data"))'
      BY DEF RecvLedger
    <2>1. (CountInDue(c)' <=> CountInDue(c)) /\ (DataInDue(c)' <=> DataInDue(c))
      BY <1>1, <1>4 DEF CountInDue, DataInDue
    <2>2. \A k \in Kind : (c # op.chan \/ k # op.kind) =>
            recvSig'[c][k] = recvSig[c][k] /\ ((Unlanded(c, k))' <=> Unlanded(c, k))
      BY <1>1, <1>7
    <2>3. recvSig'[op.chan][op.kind] = 0
      BY <1>1, <1>5
    <2>4. \A k \in Kind : c = op.chan /\ k = op.kind =>
            recvSig'[c][k] = 0 /\ ~(Unlanded(c, k))' /\ Unlanded(c, k)
      BY <1>5, <1>6, <2>3
    <2>5. "count" \in Kind /\ "data" \in Kind
      BY DEF Kind
    <2>6. Ledger(recvSig[c]["count"], CountInDue(c), Unlanded(c, "count"))'
      BY <2>1, <2>2, <2>4, <2>5 DEF RecvLedger, Ledger
    <2>7. Ledger(recvSig[c]["data"], DataInDue(c), Unlanded(c, "data"))'
      BY <2>1, <2>2, <2>4, <2>5 DEF RecvLedger, Ledger
    <2> QED BY <2>6, <2>7
  <1>11. SendLedger'
    <2> SUFFICES ASSUME NEW c \in Chan
                 PROVE  /\ Ledger(sendSig[c]["count"], CountOutDue(c), Unsent(c, "count"))'
                        /\ Ledger(sendSig[c]["data"],  DataOutDue(c),  Unsent(c, "data"))'
      BY DEF SendLedger
    <2>1. (CountOutDue(c)' <=> CountOutDue(c)) /\ (DataOutDue(c)' <=> DataOutDue(c))
      BY <1>1, <1>4 DEF CountOutDue, DataOutDue
    <2>2. /\ (Unsent(c, "count"))' <=> Unsent(c, "count")
          /\ (Unsent(c, "data"))' <=> Unsent(c, "data")
      BY <1>8 DEF Kind
    <2>3. /\ Ledger(sendSig[c]["count"], CountOutDue(c), Unsent(c, "count"))
          /\ Ledger(sendSig[c]["data"],  DataOutDue(c),  Unsent(c, "data"))
      BY DEF SendLedger
    <2>4. sendSig' = sendSig
      BY <1>1
    <2> QED BY <2>1, <2>2, <2>3, <2>4 DEF Ledger
  <1>12. OnePut'
    <2> SUFFICES ASSUME NEW o1 \in flight', NEW o2 \in flight',
                        o1.chan = o2.chan, o1.kind = o2.kind
                 PROVE  o1 = o2
      BY DEF OnePut
    <2>1. \A o \in flight \ {op} : ~(o.chan = op.chan /\ o.kind = op.kind)
      BY DEF OnePut
    <2>2. CASE o1 = next \/ o2 = next
      BY <2>1, <2>2, <1>2, <1>3
    <2>3. CASE o1 # next /\ o2 # next
      BY <2>3, <1>2 DEF OnePut
    <2> QED BY <2>2, <2>3
  <1>13. Payload(op) = sendCount[op.chan] \/ op.kind = "data"
    BY <1>1 DEF Payload, PutOfRound, Op, Kind
  <1>14. PutOfRound'
    <2> SUFFICES ASSUME NEW o \in flight'
                 PROVE  /\ o.step = Round(o.chan[1])'
                        /\ o.kind = "count" /\ o.state # "issued"
                              => o.val = sendCount'[o.chan]
      BY DEF PutOfRound
    <2>1. CASE o = next
      BY <2>1, <1>1, <1>3, <1>4, <1>13 DEF PutOfRound
    <2>2. CASE o \in flight \ {op}
      BY <2>2, <1>1, <1>4 DEF PutOfRound, TypeOK, Op
    <2> QED BY <2>1, <2>2, <1>2
  <1>15. CountArrived'
    <2> SUFFICES ASSUME NEW c \in Chan, ~Unlanded(c, "count")'
                 PROVE  recvCount'[c] = sendCount'[c]
      BY DEF CountArrived
    <2>1. CASE c = op.chan /\ op.kind = "count"
      BY <2>1, <1>1, <1>13 DEF Land, TypeOK
    <2>2. CASE ~(c = op.chan /\ op.kind = "count")
      <3>1. ~Unlanded(c, "count")
        BY <2>2, <1>7 DEF Kind
      <3>2. recvCount'[c] = recvCount[c]
        BY <2>2 DEF Land, TypeOK
      <3> QED BY <3>1, <3>2, <1>1 DEF CountArrived
    <2> QED BY <2>1, <2>2
  <1>16. Packed' /\ SendBlockStable'
    BY <1>1, <1>2, <1>3 DEF Packed, SendBlockStable
  <1> QED BY <1>9, <1>10, <1>11, <1>12, <1>14, <1>15, <1>16 DEF Books

---------------------------------------------------------------------------

(* Together: the invariant is inductive.                                   *)
LEMMA IInvStep == IInv /\ [Next]_vars => IInv'
  <1> SUFFICES ASSUME IInv, [Next]_vars PROVE IInv'
    OBVIOUS
  <1>1. TypeOK' /\ Phase' /\ Barrier' /\ WaitOrder'
    BY TypeStep, RankStep DEF IInv
  <1>2. ASSUME NEW r \in Rank, RankNext(r) PROVE Books'
    <2>1. \A c \in Out(r) : c \in Chan
      BY DEF Out
    <2> QED BY <1>2, <2>1, EnterFillBooks, LeaveFillBooks, PackBooks, PutBooks,
               WaitCountBooks, WaitDataBooks, FinishWaitBooks, CollectBooks DEF RankNext
  <1>3. ASSUME Transport PROVE Books'
    BY <1>3, SentBooks, LandBooks DEF Transport
  <1>4. ASSUME UNCHANGED vars PROVE Books'
    <2>1. /\ UNCHANGED <<pc, step, dataSize, sendCount, sendData, recvCount, sendSig,
                         recvSig, flight, counted, waited>>
      BY <1>4 DEF vars
    <2>2. \A r \in Rank : Round(r)' = Round(r)
      BY <2>1 DEF Round
    <2>3. \A c \in Chan : /\ CountOut(c)' = CountOut(c) /\ DataOut(c)' = DataOut(c)
                          /\ CountIn(c)' = CountIn(c) /\ DataIn(c)' = DataIn(c)
      BY <2>1 DEF CountOut, DataOut, CountIn, DataIn
    <2>4. Packed' /\ SendBlockStable'
      BY <2>1 DEF IInv, Packed, SendBlockStable
    <2> QED BY <2>1, <2>2, <2>3, <2>4, QuietStep DEF Books
  <1>5. Books'
    BY <1>2, <1>3, <1>4 DEF Next
  <1> QED BY <1>1, <1>5 DEF IInv, Books

(* The books balance in every reachable state of every instance.           *)
THEOREM Inductive == Spec => []IInv
  BY InitIInv, IInvStep, PTL DEF Spec

(* No signal of fusion_unr_wait is ever driven below zero, however far ranks *)
(* that are not neighbors drift apart: one event per signal is enough.     *)
THEOREM SignalsSafe == Spec => []SignalNeverOverrun
  <1>1. IInv => SignalNeverOverrun
    BY DEF IInv, SignalNeverOverrun, SendLedger, RecvLedger, Ledger, Kind
  <1> QED BY <1>1, Inductive, PTL

(* A put in flight belongs to the step its target has yet to collect, so a  *)
(* receive block needs no second buffer.                                   *)
THEOREM ArrivalsInStep == Spec => []ArrivalInItsStep
  <1>1. IInv => ArrivalInItsStep
    <2> SUFFICES ASSUME IInv, NEW op \in flight, op.state # "landed"
                 PROVE  op.step = step[op.chan[2]] + 1
      BY DEF ArrivalInItsStep
    <2>1. op.chan \in Chan /\ op.step = Round(op.chan[1])
      BY OpDue DEF IInv, PutOfRound
    <2>2. Round(op.chan[1]) <= step[op.chan[2]] + 1
      BY <2>1, Close DEF IInv
    <2>3. step[op.chan[2]] + 1 <= Round(op.chan[1])
      <3>1. CountIn(op.chan) <= Round(op.chan[1])
        BY <2>1 DEF IInv, Balance
      <3>2. Rev(op.chan) \in waited /\ pc[op.chan[2]] \in Waiting => Rev(op.chan) \in counted
        BY <2>1, ChanFacts DEF IInv, WaitOrder
      <3>3. Round(op.chan[1]) # CountIn(op.chan) \/ Round(op.chan[1]) # DataIn(op.chan)
        BY OpDue DEF CountInDue, DataInDue, Kind
      <3>4. TypeOK
        BY DEF IInv
      <3> QED BY <2>1, <2>2, <3>1, <3>2, <3>3, <3>4, Numbers DEF CountIn, DataIn, One
    <2> QED BY <2>1, <2>2, <2>3, Numbers DEF IInv
  <1> QED BY <1>1, Inductive, PTL

(* The send blocks are stable while a put may still read them.             *)
THEOREM SendBlocksStable == Spec => []SendBlockStable
  <1>1. IInv => SendBlockStable
    BY DEF IInv
  <1> QED BY <1>1, Inductive, PTL

(* What fusion_unr_wait read in a count block is what                       *)
(* fusion_unr_remote_collect reads there later in the step.                *)
THEOREM CountsStable == Spec => CountStableUntilCollected
  <1>1. IInv /\ [Next]_vars =>
          [\A c \in Chan : (Rev(c) \in counted /\ pc[c[2]] \in {"wait", "collect"})
                             => recvCount'[c] = recvCount[c]]_vars
    <2> SUFFICES ASSUME IInv, Next, NEW c \in Chan, Rev(c) \in counted,
                        pc[c[2]] \in {"wait", "collect"}
                 PROVE  recvCount'[c] = recvCount[c]
      OBVIOUS
    <2>1. ~Unlanded(c, "count")
      BY Accepted DEF Waiting
    <2>2. ASSUME NEW op \in flight, Land(op) PROVE recvCount'[c] = recvCount[c]
      BY <2>1, <2>2 DEF Land, Unlanded, IInv, TypeOK
    <2>3. ASSUME NEW op \in flight, Sent(op) PROVE recvCount'[c] = recvCount[c]
      BY <2>3 DEF Sent
    <2>4. ASSUME NEW r \in Rank, RankNext(r) PROVE recvCount'[c] = recvCount[c]
      BY <2>4 DEF RankNext, EnterFill, LeaveFill, Pack, Put, WaitCount, WaitData,
                  FinishWait, Collect
    <2> QED BY <2>2, <2>3, <2>4 DEF Next, Transport
  <1> QED BY <1>1, Inductive, PTL DEF Spec, CountStableUntilCollected

---------------------------------------------------------------------------
(* The exchange implements ParticleTransfer, for every instance: a put is   *)
(* the posting of a parcel, a collect is its taking, and every other step   *)
(* leaves the mailboxes as they are.  The books above say when a block is   *)
(* full; the invariant added here says what is in it.                      *)

(* What a rank is about to put is a load it may have packed.               *)
Loaded == \A c \in Chan : pc[c[1]] = "put" => dataSize[c] \in Load[c]

(* A payload that has left the send block is of the step of its put.       *)
Carried == \A op \in flight :
  op.kind = "data" /\ op.state # "issued" => op.val = op.step

(* The send block holds the payload of the latest round until it is packed. *)
Stamped == \A c \in Chan :
  pc[c[1]] # "put" /\ sendCount[c] > 0 => sendData[c] = Round(c[1])

DataArrived == \A c \in Chan :
  sendCount[c] > 0 /\ ~Unlanded(c, "data") => recvData[c] = Round(c[1])

Contents == Loaded /\ Carried /\ Stamped /\ DataArrived

---------------------------------------------------------------------------
(* The contents of the blocks are invariant too.                           *)

(* The blocks start empty.                                                 *)
LEMMA InitContents == Init => Contents
  BY ChanFacts DEF Init, Contents, Loaded, Carried, Stamped, DataArrived

(* Steps that neither write a block nor complete a put.                    *)
LEMMA QuietContents ==
  ASSUME IInv, Contents,
         UNCHANGED <<dataSize, sendCount, sendData, recvData, flight>>,
         \A r \in Rank : Round(r)' = Round(r) /\ (pc'[r] = "put" <=> pc[r] = "put")
  PROVE  Contents'
  <1> USE DEF Contents
  <1>1. \A c \in Chan : c[1] \in Rank
    BY ChanFacts
  <1>2. Loaded' /\ Carried' /\ Stamped'
    BY <1>1 DEF Loaded, Carried, Stamped
  <1>3. DataArrived'
    BY <1>1 DEF DataArrived, Unlanded
  <1> QED BY <1>2, <1>3

(* fusion_pack_unr writes its send blocks before anything is put from them. *)
LEMMA PackContents == ASSUME IInv, Contents, NEW r \in Rank, Pack(r) PROVE Contents'
  <1> USE DEF IInv, Contents
  <1>1. /\ pc[r] = "pack" /\ pc' = [pc EXCEPT ![r] = "put"] /\ pc \in [Rank -> PC]
        /\ UNCHANGED <<step, sendCount, recvData, flight>>
    BY DEF Pack, TypeOK
  <1>2. PICK load : /\ \A c \in Out(r) : load[c] \in Load[c]
                    /\ dataSize' = [c \in Chan |-> IF c \in Out(r) THEN load[c]
                                                                   ELSE dataSize[c]]
                    /\ sendData' = [c \in Chan |-> IF c \in Out(r) /\ load[c] > 0
                                                      THEN step[r] + 1 ELSE sendData[c]]
    BY DEF Pack
  <1>3. \A c \in Chan : c[1] \in Rank /\ Round(c[1])' = Round(c[1])
    BY <1>1, ChanFacts DEF Round
  <1>4. Loaded'
    BY <1>1, <1>2, <1>3 DEF Loaded, Out
  <1>5. Carried'
    BY <1>1 DEF Carried
  <1>6. Stamped'
    BY <1>1, <1>2, <1>3 DEF Stamped, Out
  <1>7. DataArrived'
    BY <1>1, <1>3 DEF DataArrived, Unlanded
  <1> QED BY <1>4, <1>5, <1>6, <1>7

(* fusion_unr_put starts puts of what has just been packed.                *)
LEMMA PutContents == ASSUME IInv, Contents, NEW r \in Rank, Put(r) PROVE Contents'
  <1> USE DEF IInv, Contents
  <1>1. /\ pc[r] = "put" /\ pc' = [pc EXCEPT ![r] = "wait"] /\ pc \in [Rank -> PC]
        /\ step \in [Rank -> Nat] /\ dataSize \in [Chan -> Nat]
        /\ sendCount' = [c \in Chan |-> IF c \in Out(r) THEN dataSize[c] ELSE sendCount[c]]
        /\ UNCHANGED <<step, dataSize, sendData, recvData>>
    BY DEF Put, TypeOK
  <1>2. /\ flight \subseteq flight'
        /\ \A op \in flight' : op \in flight \/ op.state = "issued"
        /\ \A c \in Out(r) : dataSize[c] > 0 => Issue(c, "data", step[r] + 1) \in flight'
    BY DEF Put, Issue
  <1>3. \A c \in Chan : c[1] \in Rank /\ (c \in Out(r) <=> c[1] = r)
    BY ChanFacts DEF Out
  <1>4. /\ Round(r)' = step[r] + 1
        /\ \A c \in Chan : c \notin Out(r) => Round(c[1])' = Round(c[1])
    BY <1>1, <1>3 DEF Round
  <1>5. Loaded'
    BY <1>1, <1>3 DEF Loaded
  <1>6. Carried'
    BY <1>2 DEF Carried
  <1>7. Stamped'
    <2> SUFFICES ASSUME NEW c \in Chan, pc'[c[1]] # "put", sendCount'[c] > 0
                 PROVE  sendData'[c] = Round(c[1])'
      BY DEF Stamped
    <2>1. CASE c \in Out(r)
      BY <2>1, <1>1, <1>3, <1>4 DEF Packed
    <2>2. CASE c \notin Out(r)
      BY <2>2, <1>1, <1>3, <1>4 DEF Stamped
    <2> QED BY <2>1, <2>2
  <1>8. DataArrived'
    <2> SUFFICES ASSUME NEW c \in Chan, sendCount'[c] > 0, ~Unlanded(c, "data")'
                 PROVE  recvData'[c] = Round(c[1])'
      BY DEF DataArrived
    <2>1. c \notin Out(r)
      BY <1>1, <1>2 DEF Unlanded, Issue
    <2>2. ~Unlanded(c, "data")
      BY <1>2 DEF Unlanded
    <2> QED BY <2>1, <2>2, <1>1, <1>4 DEF DataArrived
  <1> QED BY <1>5, <1>6, <1>7, <1>8

(* The payload of a data put is of the step of the put.                    *)
LEMMA DataPayload ==
  ASSUME IInv, Contents, NEW op \in flight, op.kind = "data"
  PROVE  Payload(op) = op.step
  BY DEF Payload, IInv, SendBlockStable, Contents, Carried

(* A put that completes at its source first has read its payload there.     *)
LEMMA SentContents == ASSUME IInv, Contents, NEW op \in flight, Sent(op) PROVE Contents'
  <1> USE DEF IInv, Contents
  <1> DEFINE next == [op EXCEPT !.state = "sent", !.val = Payload(op)]
  <1>1. /\ op \in Op /\ UNCHANGED <<pc, step, dataSize, sendCount, sendData, recvData>>
        /\ \A o \in flight' : o \in flight \/ o = next
        /\ \A o \in flight : o # op => o \in flight'
        /\ op.state # "landed" => next \in flight'
    BY DEF Sent, TypeOK
  <1>2. /\ next.chan = op.chan /\ next.kind = op.kind /\ next.state = "sent"
        /\ next.step = op.step /\ next.val = Payload(op)
    BY <1>1 DEF Op
  <1>3. Loaded' /\ Stamped'
    BY <1>1 DEF Loaded, Stamped, Round
  <1>4. Carried'
    BY <1>1, <1>2, DataPayload DEF Carried
  <1>5. DataArrived'
    <2> SUFFICES ASSUME NEW c \in Chan, sendCount'[c] > 0, ~Unlanded(c, "data")'
                 PROVE  recvData'[c] = Round(c[1])'
      BY DEF DataArrived
    <2>1. ~Unlanded(c, "data")
      BY <1>1, <1>2 DEF Unlanded
    <2> QED BY <2>1, <1>1 DEF DataArrived, Round
  <1> QED BY <1>3, <1>4, <1>5

(* A put that lands writes what the source packed in the same round.        *)
LEMMA LandContents == ASSUME IInv, Contents, NEW op \in flight, Land(op) PROVE Contents'
  <1> USE DEF IInv, Contents
  <1> DEFINE next == [op EXCEPT !.state = "landed", !.val = Payload(op)]
  <1>1. /\ op \in Op /\ UNCHANGED <<pc, step, dataSize, sendCount, sendData>>
        /\ \A o \in flight' : o \in flight \/ o = next
        /\ \A o \in flight : o # op => o \in flight'
        /\ op.kind = "data" => recvData' = [recvData EXCEPT ![op.chan] = Payload(op)]
        /\ op.kind # "data" => recvData' = recvData
        /\ recvData \in [Chan -> Nat]
    BY DEF Land, TypeOK
  <1>2. /\ next.chan = op.chan /\ next.kind = op.kind /\ next.state = "landed"
        /\ next.step = op.step /\ next.val = Payload(op)
    BY <1>1 DEF Op
  <1>3. Loaded' /\ Stamped'
    BY <1>1 DEF Loaded, Stamped, Round
  <1>4. Carried'
    BY <1>1, <1>2, DataPayload DEF Carried
  <1>5. DataArrived'
    <2> SUFFICES ASSUME NEW c \in Chan, sendCount'[c] > 0, ~Unlanded(c, "data")'
                 PROVE  recvData'[c] = Round(c[1])'
      BY DEF DataArrived
    <2>1. CASE op.chan = c /\ op.kind = "data"
      <3>1. recvData'[c] = op.step
        BY <2>1, <1>1, DataPayload
      <3>2. op.step = Round(c[1])
        BY <2>1 DEF PutOfRound
      <3> QED BY <3>1, <3>2, <1>1 DEF Round
    <2>2. CASE ~(op.chan = c /\ op.kind = "data")
      <3>1. ~Unlanded(c, "data")
        BY <2>2, <1>1 DEF Unlanded
      <3>2. recvData'[c] = recvData[c]
        BY <2>2, <1>1
      <3> QED BY <3>1, <3>2, <1>1 DEF DataArrived, Round
    <2> QED BY <2>1, <2>2
  <1> QED BY <1>3, <1>4, <1>5

(* Together: the contents are invariant under every step.                  *)
LEMMA ContentsStep == IInv /\ Contents /\ [Next]_vars => Contents'
  <1> SUFFICES ASSUME IInv, Contents, [Next]_vars PROVE Contents'
    OBVIOUS
  <1>0. pc \in [Rank -> PC] /\ step \in [Rank -> Nat]
    BY DEF IInv, TypeOK
  <1>1. ASSUME NEW r \in Rank, EnterFill(r) \/ LeaveFill(r) \/ FinishWait(r)
        PROVE  Contents'
    <2>1. UNCHANGED <<dataSize, sendCount, sendData, recvData, flight>>
      BY <1>1 DEF EnterFill, LeaveFill, FinishWait
    <2>2. \A q \in Rank : Round(q)' = Round(q) /\ (pc'[q] = "put" <=> pc[q] = "put")
      BY <1>1, <1>0 DEF EnterFill, LeaveFill, FinishWait, Round
    <2> QED BY <2>1, <2>2, QuietContents
  <1>2. ASSUME NEW r \in Rank, Collect(r) PROVE Contents'
    <2>1. UNCHANGED <<dataSize, sendCount, sendData, recvData, flight>>
      BY <1>2 DEF Collect
    <2>2. \A q \in Rank : Round(q)' = Round(q) /\ (pc'[q] = "put" <=> pc[q] = "put")
      BY <1>2, <1>0 DEF Collect, Round
    <2> QED BY <2>1, <2>2, QuietContents
  <1>3. ASSUME NEW c \in Chan, WaitCount(c) \/ WaitData(c) PROVE Contents'
    <2>1. UNCHANGED <<pc, step, dataSize, sendCount, sendData, recvData, flight>>
      BY <1>3 DEF WaitCount, WaitData
    <2> QED BY <2>1, QuietContents DEF Round
  <1>4. ASSUME UNCHANGED vars PROVE Contents'
    <2>1. UNCHANGED <<pc, step, dataSize, sendCount, sendData, recvData, flight>>
      BY <1>4 DEF vars
    <2> QED BY <2>1, QuietContents DEF Round
  <1>5. \A r \in Rank : \A c \in Out(r) : c \in Chan
    BY DEF Out
  <1> QED
    BY <1>1, <1>2, <1>3, <1>4, <1>5, PackContents, PutContents, SentContents, LandContents
    DEF Next, RankNext, Transport

---------------------------------------------------------------------------
(* The refinement mapping, channel by channel.                             *)

ParcelOf(c) == [size |-> sendCount[c],
                step |-> IF sendCount[c] = 0 THEN 0 ELSE sendData[c]]
MailOf(c)   == IF Round(c[1]) > step[c[2]] THEN {ParcelOf(c)} ELSE {}
RoundMap    == [r \in Rank |-> Round(r)]
MailMap     == [c \in Chan |-> MailOf(c)]

(* A step that leaves Round, the mail and got alone is a stutter.           *)
LEMMA StutterMaps ==
  ASSUME \A r \in Rank : Round(r)' = Round(r),
         \A c \in Chan : MailOf(c)' = MailOf(c),
         got' = got
  PROVE  RoundMap' = RoundMap /\ MailMap' = MailMap /\ got' = got
  BY DEF RoundMap, MailMap

(* Before a rank puts, the parcels of its last round have been taken.       *)
LEMMA NoMail ==
  ASSUME IInv, NEW c \in Chan, pc[c[1]] \in {"pack", "put"}
  PROVE  MailOf(c) = {} /\ step[c[1]] = step[c[2]]
  <1>1. Round(c[1]) = step[c[1]] /\ CountIn(c) = step[c[1]]
    BY NothingDue
  <1>2. step[c[1]] <= step[c[2]]
    BY Close DEF IInv, Fused
  <1>3. step[c[2]] <= CountIn(c)
    BY Numbers DEF IInv, CountIn, One
  <1> QED BY <1>1, <1>2, <1>3, Numbers DEF IInv, MailOf

(* When a rank collects, every parcel sent to it is there, and what it      *)
(* reads from its blocks is that parcel.                                   *)
LEMMA MailReady ==
  ASSUME IInv, Contents, NEW c \in Chan, pc[c[2]] = "collect"
  PROVE  /\ Round(c[1]) = step[c[2]] + 1
         /\ MailOf(c) = {ParcelOf(c)}
         /\ recvCount[c] = sendCount[c]
         /\ sendCount[c] # 0 => recvData[c] = sendData[c]
  <1> USE DEF IInv, Contents
  <1>1. Rev(c) \in Chan /\ Rev(c)[1] = c[2] /\ c[1] \in Rank
    BY ChanFacts
  <1>2. Rev(c) \in waited /\ Rev(c) \in counted
    BY <1>1 DEF WaitOrder, Waiting
  <1>3. Round(c[1]) = step[c[2]] + 1 /\ recvCount[c] = sendCount[c]
    BY <1>2, Accepted DEF Waiting
  <1>4. MailOf(c) = {ParcelOf(c)}
    BY <1>3, Numbers DEF MailOf
  <1>5. ~Unlanded(c, "data")
    <2>1. DataIn(c) = step[c[2]] + 1
      BY <1>2 DEF DataIn, One, Waiting
    <2>2. ~DataInDue(c)
      BY <2>1, <1>3 DEF DataInDue
    <2> QED BY <2>2 DEF RecvLedger, Ledger
  <1>6. pc[c[1]] # "put"
    <2> SUFFICES ASSUME pc[c[1]] = "put" PROVE FALSE
      OBVIOUS
    <2>1. Round(c[1]) = step[c[1]] /\ step[c[1]] = step[c[2]]
      BY NothingDue, NoMail
    <2> QED BY <2>1, <1>3, Numbers
  <1>7. sendCount[c] # 0 => recvData[c] = sendData[c]
    BY <1>5, <1>6, Numbers DEF DataArrived, Stamped
  <1> QED BY <1>3, <1>4, <1>7

(* Put posts a parcel on every outgoing channel.                           *)
LEMMA PutPosts == ASSUME IInv, Contents, NEW r \in Rank, Put(r) PROVE Transfer!Post(r)
  <1> USE DEF IInv, Contents
  <1> DEFINE load == [c \in Out(r) |-> dataSize[c]]
  <1>1. /\ pc[r] = "put" /\ pc' = [pc EXCEPT ![r] = "wait"] /\ pc \in [Rank -> PC]
        /\ step \in [Rank -> Nat] /\ dataSize \in [Chan -> Nat]
        /\ sendCount' = [c \in Chan |-> IF c \in Out(r) THEN dataSize[c] ELSE sendCount[c]]
        /\ UNCHANGED <<step, sendData, got>>
    BY DEF Put, TypeOK
  <1>2. \A c \in Chan : c[1] \in Rank /\ c[2] \in Rank /\ (c \in Out(r) <=> c[1] = r)
    BY ChanFacts DEF Out
  <1>3. /\ Round(r) = step[r] /\ Round(r)' = step[r] + 1
        /\ \A q \in Rank \ {r} : Round(q)' = Round(q)
    BY <1>1 DEF Round
  <1>4. RoundMap' = [RoundMap EXCEPT ![r] = @ + 1]
    BY <1>3 DEF RoundMap
  <1>5. \A c \in Out(r) : c \in Chan /\ load[c] = dataSize[c] /\ load[c] \in Load[c]
    BY <1>1, <1>2 DEF Loaded, Out
  <1>6. load \in [Out(r) -> UNION {Load[c] : c \in Out(r)}]
    BY <1>5
  <1>7. ASSUME NEW c \in Out(r)
        PROVE  /\ MailOf(c) = {}
               /\ MailOf(c)' = {Transfer!Parcel(load[c], RoundMap[r] + 1)}
    <2>1. MailOf(c) = {} /\ step[c[2]] = step[r]
      BY <1>1, <1>2, <1>5, NoMail
    <2>2. MailOf(c)' = {ParcelOf(c)'}
      BY <2>1, <1>1, <1>2, <1>3, <1>5 DEF MailOf
    <2>3. dataSize[c] > 0 => sendData[c] = step[r] + 1
      BY <1>1, <1>2, <1>5 DEF Packed
    <2>4. ParcelOf(c)' = Transfer!Parcel(load[c], RoundMap[r] + 1)
      BY <2>3, <1>1, <1>3, <1>5 DEF ParcelOf, RoundMap, Transfer!Parcel
    <2> QED BY <2>1, <2>2, <2>4
  <1>8. \A c \in Chan : c \notin Out(r) => MailOf(c)' = MailOf(c)
    BY <1>1, <1>2, <1>3 DEF MailOf, ParcelOf
  <1>9. MailMap' = [c \in Chan |-> IF c \in Out(r)
                                     THEN {Transfer!Parcel(load[c], RoundMap[r] + 1)}
                                     ELSE MailMap[c]]
    BY <1>7, <1>8 DEF MailMap
  <1>10. \A c \in Out(r) : MailMap[c] = {}
    BY <1>5, <1>7 DEF MailMap
  <1> HIDE DEF load
  <1> QED
    BY <1>1, <1>4, <1>5, <1>6, <1>9, <1>10
    DEF Transfer!Post, Transfer!Out, Out, RoundMap, MailMap, MailOf, ParcelOf

(* Collect takes the parcel of every incoming channel.                     *)
LEMMA CollectTakes ==
  ASSUME IInv, Contents, NEW r \in Rank, Collect(r) PROVE Transfer!Take(r)
  <1> USE DEF IInv, Contents
  <1>1. /\ pc[r] = "collect" /\ pc' = [pc EXCEPT ![r] = "begin"] /\ pc \in [Rank -> PC]
        /\ step' = [step EXCEPT ![r] = @ + 1] /\ step \in [Rank -> Nat]
        /\ got' = [c \in Chan |->
                     IF c \in In(r)
                       THEN [size |-> recvCount[c],
                             step |-> IF recvCount[c] = 0 THEN 0 ELSE recvData[c]]
                       ELSE got[c]]
        /\ UNCHANGED <<sendCount, sendData>>
    BY DEF Collect, TypeOK
  <1>2. \A c \in Chan : c[1] \in Rank /\ c[2] \in Rank /\ (c \in In(r) <=> c[2] = r)
    BY ChanFacts DEF In
  <1>3. \A q \in Rank : Round(q)' = Round(q)
    BY <1>1 DEF Round
  <1>4. \A c \in In(r) : c \in Chan
    BY DEF In
  <1>5. ASSUME NEW c \in In(r)
        PROVE  /\ MailOf(c) = {ParcelOf(c)} /\ MailOf(c)' = {} /\ got'[c] = ParcelOf(c)
    <2>1. /\ Round(c[1]) = step[r] + 1 /\ MailOf(c) = {ParcelOf(c)}
          /\ recvCount[c] = sendCount[c]
          /\ sendCount[c] # 0 => recvData[c] = sendData[c]
      BY <1>1, <1>2, <1>4, MailReady
    <2>2. MailOf(c)' = {}
      BY <2>1, <1>1, <1>2, <1>3, <1>4 DEF MailOf
    <2>3. got'[c] = ParcelOf(c)
      BY <2>1, <1>1, <1>4 DEF ParcelOf
    <2> QED BY <2>1, <2>2, <2>3
  <1>6. \A c \in Chan : c \notin In(r) => MailOf(c)' = MailOf(c)
    BY <1>1, <1>2, <1>3 DEF MailOf, ParcelOf
  <1>7. MailMap' = [c \in Chan |-> IF c \in In(r) THEN {} ELSE MailMap[c]]
    BY <1>5, <1>6 DEF MailMap
  <1>8. \A c \in In(r) : MailMap[c] # {} /\ got'[c] = (CHOOSE p \in MailMap[c] : TRUE)
    <2> SUFFICES ASSUME NEW c \in In(r)
                 PROVE  MailMap[c] # {} /\ got'[c] = (CHOOSE p \in MailMap[c] : TRUE)
      OBVIOUS
    <2>1. MailMap[c] = {ParcelOf(c)}
      BY <1>4, <1>5 DEF MailMap
    <2>2. (CHOOSE p \in {ParcelOf(c)} : TRUE) = ParcelOf(c)
      OBVIOUS
    <2> QED BY <2>1, <2>2, <1>5
  <1>9. got' = [c \in Chan |-> IF c \in In(r) THEN CHOOSE p \in MailMap[c] : TRUE ELSE got[c]]
    BY <1>1, <1>8
  <1>10. RoundMap' = RoundMap
    BY <1>3 DEF RoundMap
  <1> QED
    BY <1>7, <1>8, <1>9, <1>10
    DEF Transfer!Take, Transfer!In, In, RoundMap, MailMap, MailOf, ParcelOf

(* The initial state maps to empty mailboxes.                              *)
LEMMA TransferInit == Init => Transfer!Init
  <1> SUFFICES ASSUME Init PROVE Transfer!Init
    OBVIOUS
  <1>1. \A r \in Rank : Round(r) = 0
    <2> TAKE r \in Rank
    <2>1. pc[r] = "begin" /\ step[r] = 0
      BY DEF Init
    <2>2. ~(pc[r] \in {"wait", "collect"})
      BY <2>1
    <2> QED BY <2>1, <2>2 DEF Round
  <1>2. \A c \in Chan : MailOf(c) = {}
    BY <1>1, ChanFacts DEF Init, MailOf
  <1> QED BY <1>1, <1>2 DEF Init, Transfer!Init, Transfer!Parcel, MailOf, ParcelOf

(* Put maps to a posting, Collect to a taking, every other step to a stutter. *)
LEMMA TransferStep == IInv /\ Contents /\ [Next]_vars => [Transfer!Next]_(Transfer!tvars)
  <1> SUFFICES ASSUME IInv, Contents, [Next]_vars
               PROVE  Transfer!Next \/ UNCHANGED Transfer!tvars
    OBVIOUS
  <1> DEFINE Stutter == RoundMap' = RoundMap /\ MailMap' = MailMap /\ got' = got
  <1>0. pc \in [Rank -> PC] /\ step \in [Rank -> Nat]
    BY DEF IInv, TypeOK
  <1>1. \A c \in Chan : c[1] \in Rank
    BY ChanFacts
  <1>2. ASSUME NEW r \in Rank, EnterFill(r) \/ LeaveFill(r) \/ FinishWait(r) PROVE Stutter
    <2>1. UNCHANGED <<step, sendCount, sendData, got>>
      BY <1>2 DEF EnterFill, LeaveFill, FinishWait
    <2>2. \A q \in Rank : Round(q)' = Round(q)
      BY <1>2, <1>0 DEF EnterFill, LeaveFill, FinishWait, Round
    <2>3. \A c \in Chan : MailOf(c)' = MailOf(c)
      BY <2>1, <2>2, <1>1 DEF MailOf, ParcelOf
    <2> QED BY <2>1, <2>2, <2>3, StutterMaps
  <1>3. ASSUME NEW r \in Rank, Pack(r) PROVE Stutter
    <2>1. /\ pc[r] = "pack" /\ pc' = [pc EXCEPT ![r] = "put"]
          /\ UNCHANGED <<step, sendCount, got>>
      BY <1>3 DEF Pack
    <2>2. \A q \in Rank : Round(q)' = Round(q)
      BY <2>1, <1>0 DEF Round
    <2>3. ASSUME NEW c \in Chan PROVE MailOf(c)' = MailOf(c)
      <3>1. CASE c \in Out(r)
        <4>1. c[1] = r /\ MailOf(c) = {} /\ step[c[1]] = step[c[2]]
          BY <3>1, <2>1, NoMail DEF Out
        <4>2. Round(c[1])' = step[c[2]]
          BY <4>1, <2>1, <2>2, <1>1, NothingDue
        <4>3. step[c[2]] \in Nat
          BY <1>0, ChanFacts
        <4> QED BY <4>1, <4>2, <4>3, <2>1 DEF MailOf
      <3>2. CASE c \notin Out(r)
        <4>1. sendData'[c] = sendData[c]
          BY <3>2, <1>3 DEF Pack
        <4> QED BY <4>1, <2>1, <2>2, <1>1 DEF MailOf, ParcelOf
      <3> QED BY <3>1, <3>2
    <2> QED BY <2>1, <2>2, <2>3, StutterMaps
  <1>4. ASSUME UNCHANGED <<pc, step, sendCount, sendData, got>> PROVE Stutter
    <2>1. \A q \in Rank : Round(q)' = Round(q)
      BY <1>4 DEF Round
    <2>2. \A c \in Chan : MailOf(c)' = MailOf(c)
      BY <2>1, <1>1, <1>4 DEF MailOf, ParcelOf
    <2> QED BY <2>1, <2>2, <1>4, StutterMaps
  <1>5. ASSUME NEW c \in Chan, WaitCount(c) \/ WaitData(c) PROVE Stutter
    BY <1>4, <1>5 DEF WaitCount, WaitData
  <1>6. ASSUME Transport PROVE Stutter
    BY <1>4, <1>6 DEF Transport, Sent, Land
  <1>7. ASSUME UNCHANGED vars PROVE Stutter
    BY <1>4, <1>7 DEF vars
  <1>8. ASSUME NEW r \in Rank, Put(r) \/ Collect(r) PROVE Transfer!Next
    BY <1>8, PutPosts, CollectTakes DEF Transfer!Next
  <1>9. \A r \in Rank : \A c \in Out(r) : c \in Chan
    BY DEF Out
  <1>10. Transfer!Next \/ Stutter
    BY <1>2, <1>3, <1>5, <1>6, <1>7, <1>8, <1>9 DEF Next, RankNext
  <1> QED BY <1>10 DEF Transfer!tvars, RoundMap, MailMap, MailOf, ParcelOf

(* Nothing is lost, repeated, torn or taken in a step it does not belong    *)
(* to: the blocks, signals and waits of the exchange implement mailboxes.  *)
THEOREM Implements == Spec => ExactTransfer
  <1>1. Spec => [](IInv /\ Contents)
    <2>1. Init => IInv /\ Contents
      BY InitIInv, InitContents
    <2>2. IInv /\ Contents /\ [Next]_vars => (IInv /\ Contents)'
      BY IInvStep, ContentsStep
    <2> QED BY <2>1, <2>2, PTL DEF Spec
  <1> QED BY <1>1, TransferInit, TransferStep, PTL DEF Spec, ExactTransfer, Transfer!Spec
===========================================================================
