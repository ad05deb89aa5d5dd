------------------------------ MODULE UnrPlan ------------------------------
(***************************************************************************)
(* Plans and signals of the UNR library, on top of its channels.  A plan   *)
(* is a batch of writes to blocks of registered memory.  Each write is     *)
(* divided among the channels to its target, and its signal counted down   *)
(* by an increment per piece that adds up to -1; the thread whose          *)
(* completion brings a counter to zero pushes the signal on the queue of   *)
(* its pool, which several threads poll.  A plan made before the memory    *)
(* of its targets is known is completed when it is started.                *)
(*                                                                         *)
(* One rank writes; its peers register memory and detect signals.  The     *)
(* channels are modelled by what they do: each piece that was started takes *)
(* effect once, in any order.  Those of MPI (mpi, or mpi0, mpi1 and so on) *)
(* add the increment a piece carries; those of verbs drop it and count one *)
(* event per piece, so that a write divided over several of them triggers  *)
(* its signal too early: WholeOnVerbs says when that does not happen.      *)
(***************************************************************************)
EXTENDS Integers, SequencesExt

CONSTANTS
  Peer,       (* The ranks that are written to.                             *)
  SameNode,   (* Those on the node of the writer.                           *)
  Inter,      (* UNR_INTER: the channels to other nodes, in order ...       *)
  Intra,      (* UNR_INTRA: ... and to the own node.                        *)
  Verbs,      (* The channels of type verbs; all others are of type mpi.    *)
  BlkSize,    (* The block size, the same for all channels.                 *)
  High,       (* Stands for 2^32, the unit of the upper half of a counter.  *)
  Plan,       (* The plans of the writer.                                   *)
  Requests,   (* Requests[p]: the batches p may be asked for.               *)
  Sig,        (* Signals, of the peers.                                     *)
  SigHome,    (* SigHome[s]: the peer that has created s.                   *)
  NumEvent,   (* NumEvent[s]: num_event of s.                               *)
  Thread,     (* Threads that detect signals.                               *)
  ThreadHome, (* ThreadHome[t]: the peer thread t runs on.                  *)
  MaxMem,     (* Bound: blocks of memory a peer registers.                  *)
  MaxStart    (* Bound: MaxStart[p] starts of plan p.                      *)

NoSig == "NoSig"   \* UNR_NO_SIGNAL
None == "None"

(* What is written: size bytes from offset off of block mem of a peer.      *)
Writes(req) == {i \in DOMAIN req : req[i].size > 0}
SigsOf(req) == {req[i].sig : i \in Writes(req)} \ {NoSig}

Request == [peer : Peer, mem : Nat \ {0}, off : Nat, size : Nat, sig : Sig \cup {NoSig}]

ASSUME RequestAssumption ==
  /\ \A p \in Plan : \A req \in Requests[p] :
       /\ DOMAIN req = 1..Len(req) /\ Len(req) \in Nat
       /\ \A i \in DOMAIN req : req[i] \in Request
  /\ IsFiniteSet(Sig) /\ {NoSig, None} \cap Sig = {}

ASSUME PlanAssumption ==
  /\ SameNode \subseteq Peer /\ BlkSize \in Nat \ {0} /\ High \in Nat
  /\ \A l \in {Inter, Intra} :
       /\ DOMAIN l = 1..Len(l) /\ Len(l) \in Nat \ {0} /\ IsInjective(l)
       /\ Range(l) \subseteq Verbs \/ Range(l) \cap Verbs = {}
  /\ SigHome \in [Sig -> Peer] /\ ThreadHome \in [Thread -> Peer]
  /\ NumEvent \in [Sig -> 1..(High - 1)]
  (* A plan's writes are all the events of its signals, which no other uses. *)
  /\ \A p \in Plan : \A req \in Requests[p] :
       /\ \A i \in DOMAIN req : req[i].sig \in Sig =>
            SigHome[req[i].sig] = req[i].peer
       /\ \A s \in SigsOf(req) :
            Cardinality({i \in Writes(req) : req[i].sig = s}) = NumEvent[s]
       /\ \A q \in Plan \ {p} : \A other \in Requests[q] :
            SigsOf(req) \cap SigsOf(other) = {}

VARIABLES
  regs,      (* regs[r]: how many blocks of memory r has registered.        *)
  rmtLen,    (* rmt_mem_arr_len of the writer.                              *)
  args,      (* args[p]: what the caller's arrays hold.                     *)
  asked,     (* History: what p was asked for when it was created.          *)
  status,    (* status[p]: 0 none, 1 to be completed, 2 complete.           *)
  para,      (* para[p]: the copy of the parameters of a plan of status 1.  *)
  pieces,    (* pieces[p]: the pieces of a plan of status 2.                *)
  starts,    (* starts[p]: how many times p was started.                    *)
  flying,    (* Pieces started that have not taken effect.                  *)
  counter,   (* counter[s] of the flag of s.                                *)
  used,      (* History: signals whose writes were started since they were  *)
             (* armed.                                                      *)
  queue,     (* queue[r]: the ring of the signal pool of r.                 *)
  tpc,       (* tpc[t]: where t is in unr_sig_pool_detect ...               *)
  got        (* got[t]: ... and the signal it has popped.                   *)

mvars == <<regs, rmtLen>>
pvars == <<args, asked, status, para, pieces, starts>>
svars == <<flying, counter, used>>
qvars == <<queue, tpc, got>>
vars  == <<mvars, pvars, svars, qvars>>

---------------------------------------------------------------------------
(* The channels to a peer (unr_plan_create).                               *)

Group(r) == IF r \in SameNode THEN Intra ELSE Inter
OtherGroup(r) == IF r \in SameNode THEN Inter ELSE Intra

(* Where unr_init puts the handle of channel c in the memory handle: behind *)
(* those of the channels opened before it, inter first, each once.  Only   *)
(* the handles of verbs have a size.                                       *)
HandleAt(c) ==
  LET opened == Inter \o Intra
      at     == Min({k \in DOMAIN opened : opened[k] = c})
  IN  Cardinality({opened[k] : k \in 1..(at - 1)} \cap Verbs)

(* The j-th channel to r is given memory m at the offset of the j-th channel *)
(* of the other group, for the two are swapped; it finds the block there    *)
(* only when its own offset is the same.  Beyond the end of that group the *)
(* offset is arbitrary.                                                     *)
Stray == 0
RightHandle(r, j) ==
  j \in DOMAIN OtherGroup(r) /\ HandleAt(OtherGroup(r)[j]) = HandleAt(Group(r)[j])
MemAt(r, j, m) == IF RightHandle(r, j) THEN m ELSE Stray

---------------------------------------------------------------------------
(* Division of the writes.                                                 *)

(* The rest is handed out block by block to one channel after another; what *)
(* is left goes along when it is smaller than a block.                     *)
Handed(n) ==
  LET f[rest \in 0..(n * BlkSize)] == [k \in 1..n |->
        IF rest = 0 THEN [more |-> [j \in 1..n |-> 0], next |-> k]
        ELSE LET a    == IF rest > BlkSize THEN BlkSize ELSE rest
                 give == IF rest - a < BlkSize THEN rest ELSE a
                 tail == f[rest - give][(k % n) + 1]
             IN  [tail EXCEPT !.more[k] = @ + give]]
  IN  f

(* div_plan_wrt_size and the channel the next rest starts with.             *)
Divided(size, n, k) ==
  LET h == Handed(n)[size % (n * BlkSize)][k]
  IN  [part |-> [j \in 1..n |-> (size \div (n * BlkSize)) * BlkSize + h.more[j]],
       next |-> h.next]

Before(part, j) ==
  LET sum[k \in 0..Len(part)] == IF k = 0 THEN 0 ELSE sum[k - 1] + part[k]
  IN  sum[j - 1]

(* sig_add_arr: a write in one piece counts -1; of several, the first one    *)
(* counts it and carries what the others take from the upper half.          *)
SigAddLow(part, j) == -1             \* Mutant: every piece counts.
SigAddTooHigh(part, j) ==            \* Mutant: the first one counted as well.
  LET some == {i \in DOMAIN part : part[i] # 0} IN
  IF j = Min(some) THEN -1 + Cardinality(some) * High ELSE -High
SigAdd(part, j) ==
  LET some == {i \in DOMAIN part : part[i] # 0} IN
  IF j = Min(some) THEN -1 + (Cardinality(some) - 1) * High ELSE -High

(* The pieces of write i, divided from channel k on.                        *)
PiecesOf(req, i, part) ==
  {[i |-> i, peer |-> req[i].peer, mem |-> MemAt(req[i].peer, j, req[i].mem),
    channel |-> Group(req[i].peer)[j],
    off |-> req[i].off + Before(part, j), size |-> part[j],
    sig |-> req[i].sig, add |-> SigAdd(part, j)]
     : j \in {j \in DOMAIN part : part[j] # 0}}

(* The loop over the writes of a plan; each group of channels goes on where *)
(* its last write has stopped.                                             *)
Planned(req) ==
  LET f[i \in 0..Len(req)] ==
        IF i = 0 THEN [pieces |-> {}, next |-> [near \in BOOLEAN |-> 1]]
        ELSE LET so   == f[i - 1]
                 near == req[i].peer \in SameNode
                 div  == Divided(req[i].size, Len(Group(req[i].peer)), so.next[near])
             IN  IF req[i].size = 0 THEN so
                 ELSE [pieces |-> so.pieces \cup PiecesOf(req, i, div.part),
                       next   |-> [so.next EXCEPT ![near] = div.next]]
  IN  f[Len(req)].pieces

---------------------------------------------------------------------------
(* The queue of a pool: a ring with one place more than there are signals.  *)

PoolOf(r) == {s \in Sig : SigHome[s] = r}
QueueSize(r) == Cardinality(PoolOf(r)) + 1

EmptyQueue(r) == [head |-> 0, tail |-> 0, buff |-> [i \in 0..(QueueSize(r) - 1) |-> None]]
IsEmpty(q) == q.head = q.tail
NextPlace(r, i) == (i + 1) % QueueSize(r)
Pushed(r, s) == [queue[r] EXCEPT !.buff[queue[r].tail] = s, !.tail = NextPlace(r, @)]

Init ==
  /\ regs    = [r \in Peer |-> 0] /\ rmtLen = [r \in Peer |-> 0]
  /\ args    \in [Plan -> UNION {Requests[p] : p \in Plan}]
  /\ \A p \in Plan : args[p] \in Requests[p]
  /\ asked   = [p \in Plan |-> <<>>] /\ para = [p \in Plan |-> <<>>]
  /\ status  = [p \in Plan |-> 0]
  /\ pieces  = [p \in Plan |-> {}]
  /\ starts  = [p \in Plan |-> 0]
  /\ flying  = {}
  /\ counter = NumEvent
  /\ used    = {}
  /\ queue   = [r \in Peer |-> EmptyQueue(r)]
  /\ tpc     = [t \in Thread |-> "poll"]
  /\ got     = [t \in Thread |-> None]

---------------------------------------------------------------------------
(* The writer and the memory of its peers.                                 *)

(* unr_mem_reg at a peer; its blocks may be handed out at once.             *)
Register(r) ==
  /\ regs[r] < MaxMem
  /\ regs' = [regs EXCEPT ![r] = @ + 1]
  /\ UNCHANGED <<rmtLen, pvars, svars, qvars>>

(* unr_mem_reg_sync, collective: the tables are gathered anew.              *)
MemSync ==
  /\ rmtLen # regs
  /\ rmtLen' = regs
  /\ UNCHANGED <<regs, pvars, svars, qvars>>

MemKnown(req) == \A i \in DOMAIN req : req[i].mem <= rmtLen[req[i].peer]

(* unr_blk_part_send_batch_plan: the plan is made, or its parameters are    *)
(* copied when memory of a peer is not known yet.                          *)
Create(p) ==
  /\ status[p] = 0 /\ starts[p] < MaxStart[p]
  /\ \A i \in DOMAIN args[p] : args[p][i].mem <= regs[args[p][i].peer]
  /\ asked' = [asked EXCEPT ![p] = args[p]]
  /\ IF MemKnown(args[p])
       THEN /\ status' = [status EXCEPT ![p] = 2]
            /\ pieces' = [pieces EXCEPT ![p] = Planned(args[p])]
            /\ UNCHANGED para
       ELSE /\ status' = [status EXCEPT ![p] = 1]
            /\ para' = [para EXCEPT ![p] = args[p]]
            /\ UNCHANGED pieces
  /\ UNCHANGED <<mvars, args, starts, svars, qvars>>

(* The caller's arrays are the caller's again as soon as the call returns.  *)
Reuse(p) ==
  /\ status[p] = 1
  /\ args' \in {[args EXCEPT ![p] = req] : req \in Requests[p] \ {args[p]}}
  /\ UNCHANGED <<mvars, asked, status, para, pieces, starts, svars, qvars>>

Flying(p) == {x \in flying : x.plan = p}
Aloft(s) == {x \in flying : x.sig = s}

(* What a caller keeps to (tests 12 and 53): a batch is started when its    *)
(* last start has been acknowledged by all its targets.                    *)
Acknowledged(p, req) == Flying(p) = {} /\ SigsOf(req) \cap used = {}

(* uri_verbs_event_fill keeps the flag and drops the increment, and         *)
(* uri_verbs_event_progress counts one event; its assertion that the       *)
(* increment is -1 is compiled in with ASSERT_CHECK only, off by default.   *)
Counted(x) == IF x.channel \in Verbs THEN -1 ELSE x.add

Launch(p, new) ==
  /\ flying' = flying \cup {[plan |-> p, sig |-> x.sig, add |-> Counted(x), i |-> x.i,
                             channel |-> x.channel] : x \in new}
  /\ used' = used \cup ({x.sig : x \in new} \ {NoSig})
  /\ starts' = [starts EXCEPT ![p] = @ + 1]

(* unr_plan_start; a plan of status 1 is completed first, from the copy.    *)
ParaShared(p) == args[p]             \* Mutant: the arrays were not copied.
ParaOf(p) == para[p]

Start(p) ==
  /\ status[p] = 2 /\ starts[p] < MaxStart[p]
  /\ Acknowledged(p, asked[p])
  /\ Launch(p, pieces[p])
  /\ UNCHANGED <<mvars, args, asked, status, para, pieces, counter, qvars>>

(* The program exits when memory of a peer is still unknown; no caller that *)
(* synchronizes does that.                                                 *)
StartLater(p) ==
  /\ status[p] = 1 /\ starts[p] < MaxStart[p]
  /\ Acknowledged(p, asked[p])
  /\ \A i \in Writes(ParaOf(p)) : ParaOf(p)[i].mem <= rmtLen[ParaOf(p)[i].peer]
  /\ status' = [status EXCEPT ![p] = 2]
  /\ pieces' = [pieces EXCEPT ![p] = Planned(ParaOf(p))]
  /\ para' = [para EXCEPT ![p] = <<>>]
  /\ Launch(p, Planned(ParaOf(p)))
  /\ UNCHANGED <<mvars, args, asked, counter, qvars>>

(* unr_blk_part_send_batch_start: planned, started and freed by one call.   *)
StartOnce(p) ==
  /\ status[p] = 0 /\ starts[p] < MaxStart[p]
  /\ MemKnown(args[p]) /\ Acknowledged(p, args[p])
  /\ Launch(p, Planned(args[p]))
  /\ args' \in {[args EXCEPT ![p] = req] : req \in Requests[p]}
  /\ UNCHANGED <<mvars, asked, status, para, pieces, counter, qvars>>

(* unr_plan_destroy, when all is acknowledged (tests 13, 23, 33 and 43).    *)
Destroy(p) ==
  /\ status[p] # 0 /\ starts[p] > 0
  /\ Acknowledged(p, asked[p])
  /\ status' = [status EXCEPT ![p] = 0]
  /\ pieces' = [pieces EXCEPT ![p] = {}]
  /\ asked' = [asked EXCEPT ![p] = <<>>]
  /\ args' \in {[args EXCEPT ![p] = req] : req \in Requests[p]}
  /\ UNCHANGED <<mvars, para, starts, svars, qvars>>

---------------------------------------------------------------------------
(* The peers.                                                              *)

(* A piece has been written: what it counts is added, and the signal queued *)
(* when its counter gets to zero.  The assertion that the counter is not    *)
(* negative is compiled in with ASSERT_CHECK only, off by default.          *)
Land(x) ==
  /\ flying' = flying \ {x}
  /\ IF x.sig = NoSig
       THEN UNCHANGED <<counter, queue>>
       ELSE LET s == x.sig
                r == SigHome[s]
            IN  /\ counter' = [counter EXCEPT ![s] = @ + x.add]
                /\ queue' = IF counter'[s] = 0
                              THEN [queue EXCEPT ![r] = Pushed(r, s)] ELSE queue
  /\ UNCHANGED <<mvars, pvars, used, tpc, got>>

(* uru_queue_pop looks at the queue before it takes the lock ...            *)
Poll(t) ==
  /\ tpc[t] = "poll" /\ ~IsEmpty(queue[ThreadHome[t]])
  /\ tpc' = [tpc EXCEPT ![t] = "lock"]
  /\ UNCHANGED <<mvars, pvars, svars, queue, got>>

(* ... and again when it has it.                                           *)
TakeUnchecked(t) ==                  \* Mutant: only before.
  LET r == ThreadHome[t] IN
  /\ tpc[t] = "lock"
  /\ got' = [got EXCEPT ![t] = queue[r].buff[queue[r].head]]
  /\ queue' = [queue EXCEPT ![r].head = NextPlace(r, @)]
  /\ tpc' = [tpc EXCEPT ![t] = "arm"]
  /\ UNCHANGED <<mvars, pvars, svars>>

Take(t) ==
  LET r == ThreadHome[t] IN
  /\ tpc[t] = "lock"
  /\ IF IsEmpty(queue[r])
       THEN /\ tpc' = [tpc EXCEPT ![t] = "poll"]
            /\ UNCHANGED <<queue, got>>
       ELSE /\ got' = [got EXCEPT ![t] = queue[r].buff[queue[r].head]]
            /\ queue' = [queue EXCEPT ![r].head = NextPlace(r, @)]
            /\ tpc' = [tpc EXCEPT ![t] = "arm"]
  /\ UNCHANGED <<mvars, pvars, svars>>

(* unr_sig_pool_detect sets the counter anew; the caller then tells the     *)
(* writer.                                                                 *)
Arm(t) ==
  /\ tpc[t] = "arm"
  /\ counter' = [counter EXCEPT ![got[t]] = NumEvent[got[t]]]
  /\ used' = used \ {got[t]}
  /\ got' = [got EXCEPT ![t] = None]
  /\ tpc' = [tpc EXCEPT ![t] = "poll"]
  /\ UNCHANGED <<mvars, pvars, flying, queue>>

Finished ==
  /\ rmtLen = [r \in Peer |-> MaxMem] /\ flying = {} /\ used = {}
  /\ \A p \in Plan : status[p] = 0 /\ starts[p] = MaxStart[p]
  /\ \A t \in Thread : tpc[t] = "poll"

WriterNext ==
  \/ \E r \in Peer : Register(r)
  \/ MemSync
  \/ \E p \in Plan : \/ Create(p) \/ Reuse(p) \/ Start(p) \/ StartLater(p)
                     \/ StartOnce(p) \/ Destroy(p)
Channels == \E x \in flying : Land(x)
Detect(t) == Poll(t) \/ Take(t) \/ Arm(t)

Next ==
  \/ WriterNext
  \/ Channels
  \/ \E t \in Thread : Detect(t)
  \/ Finished /\ UNCHANGED vars

Spec == Init /\ [][Next]_vars

(* The channels work off what they were given and the threads keep polling; *)
(* the writer may stop at any time.                                        *)
FairSpec == Spec /\ WF_vars(Channels) /\ \A t \in Thread : WF_vars(Detect(t))

---------------------------------------------------------------------------
(* The settings of UNR_INTER and UNR_INTRA that are sound.                  *)

(* No write is divided over channels of verbs.                              *)
WholeOnVerbs == \A l \in {Inter, Intra} : Range(l) \cap Verbs # {} => Len(l) = 1

(* The swapped offsets are the right ones, as with equal lists.             *)
HandlesAgree == \A r \in Peer : \A j \in DOMAIN Group(r) : RightHandle(r, j)

---------------------------------------------------------------------------
(* Correctness.                                                            *)

Covers(x, b) == b \in x.off..(x.off + x.size - 1)

(* The pieces of a plan write what the plan was asked for when it was made, *)
(* every byte once and nothing else, through the channels to the node of    *)
(* the target and into the block that was named; neither the division, nor *)
(* a late completion from arrays that may have been used again, nor the    *)
(* offset of the memory handle changes it (unr_rdma_plan_create).          *)
PiecesTile ==
  \A p \in Plan : status[p] = 2 =>
    LET req == asked[p] IN
    /\ \A x \in pieces[p] :
         /\ x.i \in Writes(req) /\ x.channel \in Range(Group(x.peer))
         /\ [req[x.i] EXCEPT !.off = 0, !.size = 0] =
              [peer |-> x.peer, mem |-> x.mem, sig |-> x.sig, off |-> 0, size |-> 0]
    /\ \A i \in Writes(req) :
         LET own == {x \in pieces[p] : x.i = i} IN
         \A b \in (UNION {{x.off, x.off + x.size - 1} : x \in own})
                    \cup (req[i].off)..(req[i].off + req[i].size - 1) :
           Cardinality({x \in own : Covers(x, b)}) = IF Covers(req[i], b) THEN 1 ELSE 0

(* A counter is zero exactly when writes were started on the signal and     *)
(* every piece of each has taken effect, in whatever order the pieces of    *)
(* several writes have mixed their increments of both signs: unr.h says    *)
(* that a signal is triggered after the receiver has all of the data.       *)
TriggeredWhenAllLanded ==
  \A s \in Sig : counter[s] = 0 <=> s \in used /\ Aloft(s) = {}

Places(r) == {i \in DOMAIN queue[r].buff :
  LET q == queue[r] IN IF q.head <= q.tail THEN i >= q.head /\ i < q.tail
                                           ELSE i >= q.head \/ i < q.tail}

(* A triggered signal is in the ring of its pool, or with one thread that   *)
(* has popped it: it is reported once, the ring never overflows, and what   *)
(* is not triggered is not reported.                                       *)
ReportedOnce ==
  \A s \in Sig :
    LET q == queue[SigHome[s]].buff IN
    Cardinality({i \in Places(SigHome[s]) : q[i] = s})
      + Cardinality({t \in Thread : got[t] = s})
      = IF counter[s] = 0 THEN 1 ELSE 0

(* Whatever is started is detected.                                         *)
EveryStartDetected == \A s \in Sig : s \in used ~> s \notin used
===========================================================================
