--------------------------- MODULE UriMpiChannel ---------------------------
(***************************************************************************)
(* The MPI channel of the UNR library, which turns one-sided writes with   *)
(* signals into two-sided messages.  A user thread that starts a write     *)
(* takes a tag, sends the data under that tag and tells the target, in a   *)
(* control message, to post a receive for it; it then appends its requests *)
(* to the list of the rank.  One daemon thread per rank answers control    *)
(* messages, tests the requests of the list, moves the signals and removes *)
(* what is complete.  Writes come in batches: started once, or created as  *)
(* a persistent plan, started several times and destroyed.                 *)
(*                                                                         *)
(* MPI is modelled by what it guarantees: messages between two ranks on    *)
(* one communicator are matched in order, for the data per tag; a send may *)
(* complete before or after it is received.                                *)
(***************************************************************************)
EXTENDS Integers, SequencesExt

CONSTANTS
  Rank,      (* The MPI ranks.                                              *)
  User,      (* Threads that start writes.                                  *)
  Home,      (* Home[u]: the rank thread u runs on.                         *)
  Batch,     (* Batch[u]: the target of each write of u's batches, in order. *)
  Progs      (* Programs: for each thread the operations it calls, in order. *)

Pair == Rank \X Rank      \* <<source, target>>
Starting == {"put", "create"}   \* Operations that own a batch and signals.
Operation == Starting \cup {"start", "wait", "sync", "destroy"}

ASSUME ChannelAssumption ==
  /\ Rank \subseteq Nat
  /\ Home \in [User -> Rank] /\ Batch \in [User -> Seq(Rank)]
  /\ \A u \in User :
       \A i, j \in DOMAIN Batch[u] : i <= j => Batch[u][i] <= Batch[u][j]
  /\ Progs \subseteq [User -> Seq(Operation)]

(* What callers keep to: an operation follows the put or create it is about; *)
(* a plan is started again or destroyed only when source and target have    *)
(* waited for its last start, as an active MPI request may be neither       *)
(* started nor freed; and a destroyed plan is not used again.               *)
Owns(q, k, i) == /\ k \in 1..i /\ q[k] \in Starting
                 /\ \A m \in (k + 1)..i : q[m] \notin Starting

Settled(q, k, i) == \A m \in k..(i - 1) : q[m] \in {"put", "start"} =>
                      \E l \in (m + 1)..(i - 1) : q[l] = "sync"

Lawful(q) == \A i \in DOMAIN q : \E k \in 1..i :
  /\ Owns(q, k, i)
  /\ q[i] \in {"start", "destroy"} =>
       /\ q[k] = "create" /\ Settled(q, k, i)
       /\ \A m \in k..(i - 1) : q[m] # "destroy"

ASSUME CallerAssumption == \A p \in Progs, u \in User : Lawful(p[u])

VARIABLES
  prog,      (* The program being run.                                      *)
  at,        (* at[u]: the operation u is in.                               *)
  step,      (* step[u]: how far u is in it.                                *)
  tags,      (* tags[u]: the tags of the batch u works on.                  *)
  ids,       (* ids[u][d]: the batch id of u's plan for rank d.             *)
  todo,      (* todo[u]: requests u has made and not yet listed.            *)
  starts,    (* starts[b]: how many times batch b was started.              *)
  tagPool,   (* mpi_tag of each pair.                                       *)
  idPool,    (* batch_id of each pair.                                      *)
  ctrl,      (* Control messages on their way.                              *)
  net,       (* Data messages not yet received.                             *)
  posted,    (* Receives not yet complete.                                  *)
  slot,      (* recv_batch of the target, for each pair.                    *)
  reqs,      (* reqs[r]: the list mpi_req of rank r.                        *)
  dpc,       (* dpc[r]: where the daemon of r is.                           *)
  done,      (* done[r]: what MPI_Testsome returned, index and request.     *)
  sendSig,   (* Signal counter of a batch at its source.                    *)
  recvSig,   (* Signal counter of each write at its target.                 *)
  sent,      (* History: events each write gave at its source ...           *)
  landed     (* ... and at its target.                                      *)

uvars == <<prog, at, step, tags, ids, todo, starts>>
mvars == <<ctrl, net, posted, slot>>
dvars == <<dpc, done>>
svars == <<sendSig, recvSig, sent, landed>>
vars  == <<uvars, tagPool, idPool, mvars, reqs, dvars, svars>>

---------------------------------------------------------------------------
(* Batches, writes and pools.                                              *)

(* The batch an operation is about is that of the last put or create.      *)
Mine(u) == <<u, CHOOSE k \in 1..at[u] : Owns(prog[u], k, at[u])>>

BatchKey == UNION {{<<u, k>> : k \in {k \in DOMAIN p[u] : p[u][k] \in Starting}} :
                     p \in Progs, u \in User}

Piece(u) == DOMAIN Batch[u]
Target(u) == Range(Batch[u])

(* A write is a piece of a batch, in one of its starts.                    *)
Write == UNION {{<<<<u, k>>, j, n>> : k \in {k \in DOMAIN p[u] : p[u][k] \in Starting},
                                      j \in Piece(u), n \in DOMAIN p[u]} :
                  p \in Progs, u \in User}

(* uri_mpi_int_pool_get, n times: what was returned comes back last first. *)
Taken(pool, n) == [i \in 1..n |->
  IF i <= Len(pool.free) THEN pool.free[Len(pool.free) + 1 - i]
                         ELSE pool.max + i - Len(pool.free) - 1]
AfterTaking(pool, n) ==
  LET back == IF n < Len(pool.free) THEN n ELSE Len(pool.free)
  IN  [free |-> SubSeq(pool.free, 1, Len(pool.free) - back),
       max  |-> pool.max + n - back]
Returned(pool, nums) == [pool EXCEPT !.free = @ \o nums]

(* The members of a set of numbers, in increasing order.                   *)
Ordered(S) == [n \in 1..Cardinality(S) |->
                 CHOOSE i \in S : Cardinality({k \in S : k <= i}) = n]

(* num_event of the signal at the source: every piece of the batch.         *)
OneEvent(u) == 1       \* Mutant: one event, whatever the batch.
NumEvent(u) == Len(Batch[u])

(* The pieces of u for rank d, in the order of the batch.                  *)
PiecesTo(u, d) == Ordered({j \in Piece(u) : Batch[u][j] = d})

TagsTaken(u) == [j \in Piece(u) |->
  LET d == Batch[u][j]
  IN  Taken(tagPool[<<Home[u], d>>], j)
        [Cardinality({i \in 1..j : Batch[u][i] = d})]]
TagPoolAfterTaking(u) == [p \in Pair |->
  IF p[1] = Home[u] THEN AfterTaking(tagPool[p], Len(PiecesTo(u, p[2]))) ELSE tagPool[p]]

Ops(u, d, n, ts) == [i \in DOMAIN PiecesTo(u, d) |->
  LET j == PiecesTo(u, d)[i] IN [w |-> <<Mine(u), j, n>>, tag |-> ts[j]]]

Messages(u, n, ts) == [p \in Pair |->
  IF p[1] = Home[u] THEN net[p] \o Ops(u, p[2], n, ts) ELSE net[p]]

Request(kind, peer, w, tag, keep) ==
  [kind |-> kind, peer |-> peer, w |-> w, tag |-> tag, keep |-> keep]
NoWrite == <<>>
SendRequests(u, n, ts, keep) == [j \in Piece(u) |->
  Request("send", Batch[u][j], <<Mine(u), j, n>>, ts[j], keep)]
CtrlRequests(u) == [i \in 1..Cardinality(Target(u)) |->
  Request("ctrl", Ordered(Target(u))[i], NoWrite, 0, FALSE)]

Msg(type, id, start, ops) == [type |-> type, id |-> id, start |-> start, ops |-> ops]

(* One control message for each target of u.                               *)
Tell(u, msg) == [p \in Pair |->
  IF p[1] = Home[u] /\ p[2] \in Target(u) THEN Append(ctrl[p], msg[p[2]]) ELSE ctrl[p]]

Init ==
  /\ prog    \in Progs
  /\ at      = [u \in User |-> 1]
  /\ step    = [u \in User |-> "begin"]
  /\ tags    = [u \in User |-> <<>>]
  /\ ids     = [u \in User |-> [d \in Target(u) |-> 0]]
  /\ todo    = [u \in User |-> <<>>]
  /\ starts  = [b \in BatchKey |-> 0]
  /\ tagPool = [p \in Pair |-> [max |-> 1, free |-> <<>>]]
  /\ idPool  = [p \in Pair |-> [max |-> 1, free |-> <<>>]]
  /\ ctrl    = [p \in Pair |-> <<>>]
  /\ net     = [p \in Pair |-> <<>>]
  /\ posted  = [p \in Pair |-> <<>>]
  /\ slot    = [p \in Pair |-> {}]
  /\ reqs    = [r \in Rank |-> <<>>]
  /\ dpc     = [r \in Rank |-> "drain"]
  /\ done    = [r \in Rank |-> <<>>]
  /\ sendSig = [b \in BatchKey |-> NumEvent(b[1])]
  /\ recvSig = [b \in BatchKey |-> [j \in Piece(b[1]) |-> 1]]
  /\ sent    = [w \in Write |-> 0]
  /\ landed  = [w \in Write |-> 0]

---------------------------------------------------------------------------
(* The threads that start writes.                                          *)

Calls(u, op) ==
  at[u] <= Len(prog[u]) /\ prog[u][at[u]] = op /\ step[u] = "begin"

(* uri_mpi_rdma_plan_create, once_now: a tag for each write and the data    *)
(* under it ...                                                            *)
Put(u) ==
  /\ Calls(u, "put")
  /\ tags' = [tags EXCEPT ![u] = TagsTaken(u)]
  /\ tagPool' = TagPoolAfterTaking(u)
  /\ net' = Messages(u, 1, TagsTaken(u))
  /\ starts' = [starts EXCEPT ![Mine(u)] = 1]
  /\ step' = [step EXCEPT ![u] = "sent"]
  /\ UNCHANGED <<prog, at, ids, todo, idPool, ctrl, posted, slot, reqs,
                 dvars, svars>>

(* Mutant: the requests are listed before the targets are told.            *)
PutCtrlLate(u) ==
  \/ /\ step[u] = "sent"
     /\ reqs' = [reqs EXCEPT ![Home[u]] =
                   @ \o SendRequests(u, 1, tags[u], FALSE) \o CtrlRequests(u)]
     /\ step' = [step EXCEPT ![u] = "listed"]
     /\ UNCHANGED <<prog, at, tags, ids, todo, starts, tagPool, idPool,
                    mvars, dvars, svars>>
  \/ /\ step[u] = "listed"
     /\ ctrl' = Tell(u, [d \in Target(u) |-> Msg("execute", -1, 1, Ops(u, d, 1, tags[u]))])
     /\ step' = [step EXCEPT ![u] = "append"]
     /\ UNCHANGED <<prog, at, tags, ids, todo, starts, tagPool, idPool,
                    net, posted, slot, reqs, dvars, svars>>

(* ... then one message to each target, with the receives to post.         *)
PutCtrl(u) ==
  /\ step[u] = "sent"
  /\ ctrl' = Tell(u, [d \in Target(u) |-> Msg("execute", -1, 1, Ops(u, d, 1, tags[u]))])
  /\ todo' = [todo EXCEPT ![u] = SendRequests(u, 1, tags[u], FALSE) \o CtrlRequests(u)]
  /\ step' = [step EXCEPT ![u] = "append"]
  /\ UNCHANGED <<prog, at, tags, ids, starts, tagPool, idPool, net, posted,
                 slot, reqs, dvars, svars>>

(* uri_mpi_rdma_plan_create of a plan: tags and batch ids are taken, the    *)
(* targets are told to prepare their receives; no data is sent.            *)
Create(u) ==
  /\ Calls(u, "create")
  /\ tags' = [tags EXCEPT ![u] = TagsTaken(u)]
  /\ tagPool' = TagPoolAfterTaking(u)
  /\ LET id(d) == Taken(idPool[<<Home[u], d>>], 1)[1]
     IN  /\ ids' = [ids EXCEPT ![u] = [d \in Target(u) |-> id(d)]]
         /\ ctrl' = Tell(u, [d \in Target(u) |->
                               Msg("create", id(d), 0, Ops(u, d, 0, TagsTaken(u)))])
  /\ idPool' = [p \in Pair |-> IF p[1] = Home[u] /\ p[2] \in Target(u)
                                 THEN AfterTaking(idPool[p], 1) ELSE idPool[p]]
  /\ todo' = [todo EXCEPT ![u] = CtrlRequests(u)]
  /\ step' = [step EXCEPT ![u] = "append"]
  /\ UNCHANGED <<prog, at, starts, net, posted, slot, reqs, dvars, svars>>

(* uri_mpi_rdma_plan_start.                                                *)
Start(u) ==
  /\ Calls(u, "start")
  /\ LET n == starts[Mine(u)] + 1
     IN  /\ starts' = [starts EXCEPT ![Mine(u)] = n]
         /\ ctrl' = Tell(u, [d \in Target(u) |-> Msg("start", ids[u][d], n, <<>>)])
         /\ net' = Messages(u, n, tags[u])
         /\ todo' = [todo EXCEPT ![u] =
                       CtrlRequests(u) \o SendRequests(u, n, tags[u], TRUE)]
  /\ step' = [step EXCEPT ![u] = "append"]
  /\ UNCHANGED <<prog, at, tags, ids, tagPool, idPool, posted, slot, reqs,
                 dvars, svars>>

(* uri_mpi_rdma_plan_destroy: the tags go back first, then each target is   *)
(* told, then the batch ids go back and the plan is freed.                 *)
TagsReturned(u) == [p \in Pair |->
  IF p[1] = Home[u]
    THEN Returned(tagPool[p], [i \in DOMAIN PiecesTo(u, p[2]) |->
                                 tags[u][PiecesTo(u, p[2])[i]]])
    ELSE tagPool[p]]
IdsReturned(u) == [p \in Pair |->
  IF p[1] = Home[u] /\ p[2] \in Target(u)
    THEN Returned(idPool[p], <<ids[u][p[2]]>>) ELSE idPool[p]]

Destroy(u) ==
  /\ Calls(u, "destroy")
  /\ tagPool' = TagsReturned(u)
  /\ step' = [step EXCEPT ![u] = "untagged"]
  /\ UNCHANGED <<prog, at, tags, ids, todo, starts, idPool, mvars, reqs,
                 dvars, svars>>

DestroyCtrl(u) ==
  /\ step[u] = "untagged"
  /\ ctrl' = Tell(u, [d \in Target(u) |-> Msg("destroy", ids[u][d], 0, <<>>)])
  /\ todo' = [todo EXCEPT ![u] = CtrlRequests(u)]
  /\ step' = [step EXCEPT ![u] = "told"]
  /\ UNCHANGED <<prog, at, tags, ids, starts, tagPool, idPool, net, posted,
                 slot, reqs, dvars, svars>>

DestroyIds(u) ==
  /\ step[u] = "told"
  /\ idPool' = IdsReturned(u)
  /\ step' = [step EXCEPT ![u] = "append"]
  /\ UNCHANGED <<prog, at, tags, ids, todo, starts, tagPool, mvars, reqs, dvars, svars>>

(* uri_mpi_req_que_app, under the lock of the list; the call is over.       *)
ListRequests(u) ==
  /\ step[u] = "append"
  /\ reqs' = [reqs EXCEPT ![Home[u]] = @ \o todo[u]]
  /\ todo' = [todo EXCEPT ![u] = <<>>]
  /\ step' = [step EXCEPT ![u] = "begin"]
  /\ at' = [at EXCEPT ![u] = @ + 1]
  /\ UNCHANGED <<prog, tags, ids, starts, tagPool, idPool, mvars, dvars, svars>>

(* unr_sig_wait on the local signal.                                       *)
Wait(u) ==
  /\ Calls(u, "wait")
  /\ sendSig[Mine(u)] = 0
  /\ at' = [at EXCEPT ![u] = @ + 1]
  /\ UNCHANGED <<prog, step, tags, ids, todo, starts, tagPool, idPool,
                 mvars, reqs, dvars, svars>>

(* Source and target have both waited for their signals, reset them, and    *)
(* met at a barrier.                                                       *)
Sync(u) ==
  /\ Calls(u, "sync")
  /\ sendSig[Mine(u)] = 0
  /\ \A j \in Piece(u) : recvSig[Mine(u)][j] = 0
  /\ sendSig' = [sendSig EXCEPT ![Mine(u)] = NumEvent(u)]
  /\ recvSig' = [recvSig EXCEPT ![Mine(u)] = [j \in Piece(u) |-> 1]]
  /\ at' = [at EXCEPT ![u] = @ + 1]
  /\ UNCHANGED <<prog, step, tags, ids, todo, starts, tagPool, idPool,
                 mvars, reqs, dvars, sent, landed>>

UserNext(u) ==
  \/ Put(u) \/ PutCtrl(u) \/ Create(u) \/ Start(u)
  \/ Destroy(u) \/ DestroyCtrl(u) \/ DestroyIds(u)
  \/ ListRequests(u) \/ Wait(u) \/ Sync(u)

---------------------------------------------------------------------------
(* The daemon.                                                             *)

(* uri_mpi_process_ctrl_msg: a start posts the receives of the batch it      *)
(* names, an execute those it carries; both list them.                     *)
InSlot(table, id) == {b \in table : b.id = id}

Posts(table, m) ==
  CASE m.type = "execute" -> m.ops
    [] m.type = "start" /\ InSlot(table, m.id) # {} ->
         LET batch == CHOOSE b \in InSlot(table, m.id) : TRUE
         IN  [i \in DOMAIN batch.ops |->
                [batch.ops[i] EXCEPT !.w = <<@[1], @[2], m.start>>]]
    [] OTHER -> <<>>

(* Mutant: the slot of a destroyed batch is not set to NULL.               *)
SlotKept(table, m) ==
  IF m.type = "create" THEN table \cup {[id |-> m.id, ops |-> m.ops]} ELSE table

SlotAfter(table, m) ==
  CASE m.type = "create"  -> table \cup {[id |-> m.id, ops |-> m.ops]}
    [] m.type = "destroy" -> table \ InSlot(table, m.id)
    [] OTHER -> table

(* Mutant: only the receives of an execute are listed.                     *)
ReceivesOfExecute(s, m, new) ==
  IF m.type = "execute"
    THEN [i \in DOMAIN new |-> Request("recv", s, new[i].w, new[i].tag, FALSE)]
    ELSE <<>>

Receives(s, m, new) ==
  [i \in DOMAIN new |-> Request("recv", s, new[i].w, new[i].tag, m.type = "start")]

Drain(r, s) ==
  LET p == <<s, r>>
      m == Head(ctrl[p])
  IN  /\ dpc[r] = "drain"
      /\ ctrl[p] # <<>>
      /\ ctrl' = [ctrl EXCEPT ![p] = Tail(@)]
      /\ slot' = [slot EXCEPT ![p] = SlotAfter(@, m)]
      /\ posted' = [posted EXCEPT ![p] = @ \o Posts(slot[p], m)]
      /\ reqs' = [reqs EXCEPT ![r] = @ \o Receives(s, m, Posts(slot[p], m))]
      /\ UNCHANGED <<uvars, tagPool, idPool, net, dvars, svars>>

(* MPI pairs the n-th receive posted for a source and a tag with the n-th   *)
(* message sent from there under that tag.                                 *)
Nth(s, i) == Cardinality({k \in 1..i : s[k].tag = s[i].tag})
Mates(p) == {im \in (DOMAIN posted[p]) \X (DOMAIN net[p]) :
               /\ posted[p][im[1]].tag = net[p][im[2]].tag
               /\ Nth(posted[p], im[1]) = Nth(net[p], im[2])}

Without(s, I) ==
  LET keep == Ordered((DOMAIN s) \ I)
  IN  [i \in DOMAIN keep |-> s[keep[i]]]

MatesOf(r, e) == {im \in Mates(<<e.peer, r>>) : posted[<<e.peer, r>>][im[1]].w = e.w}
CanComplete(r, e) == e.kind = "recv" => MatesOf(r, e) # {}
Complete(r) == {i \in DOMAIN reqs[r] : CanComplete(r, reqs[r][i])}
MustComplete(r) == {i \in DOMAIN reqs[r] : reqs[r][i].kind = "ctrl"}

(* A copy of the list is tested: some requests of it are complete, those of *)
(* control messages at once because they are short.                        *)
Test(r) ==
  /\ dpc[r] = "drain"
  /\ \E D \in SUBSET Complete(r) :
       /\ D # {} /\ MustComplete(r) \subseteq D
       /\ done' = [done EXCEPT ![r] = [n \in 1..Cardinality(D) |->
            LET i == Ordered(D)[n] IN [idx |-> i, req |-> reqs[r][i]]]]
       /\ LET over(p) == IF p[2] # r THEN {} ELSE
                UNION {MatesOf(r, reqs[r][i]) : i \in
                         {i \in D : reqs[r][i].kind = "recv" /\ reqs[r][i].peer = p[1]}}
          IN  /\ posted' = [p \in Pair |-> Without(posted[p], {im[1] : im \in over(p)})]
              /\ net'    = [p \in Pair |-> Without(net[p],    {im[2] : im \in over(p)})]
       /\ dpc' = [dpc EXCEPT ![r] =
            IF \E i \in D : reqs[r][i].kind \in {"send", "recv"} THEN "signal" ELSE "remove"]
  /\ UNCHANGED <<uvars, tagPool, idPool, ctrl, slot, reqs, svars>>

(* Requests with a signal or a tag are handled one after the other; done    *)
(* keeps every index for the removal.                                      *)
Pending(r) == {n \in DOMAIN done[r] : done[r][n].req.kind \in {"send", "recv"}}
Current(r) == Min(Pending(r))
Over(r) == [done EXCEPT ![r][Current(r)].req.kind = "over"]
AfterRequest(r) == IF Cardinality(Pending(r)) = 1 THEN "remove" ELSE "signal"

(* The signal of a complete request moves: from here a waiting thread may   *)
(* go on.                                                                  *)
Signal(r) ==
  /\ dpc[r] = "signal"
  /\ LET e == done[r][Current(r)].req IN
     CASE e.kind = "send" ->
            /\ sendSig' = [sendSig EXCEPT ![e.w[1]] = @ - 1]
            /\ sent' = [sent EXCEPT ![e.w] = @ + 1]
            /\ dpc' = [dpc EXCEPT ![r] = "release"]
            /\ UNCHANGED <<done, recvSig, landed>>
       [] OTHER ->
            /\ recvSig' = [recvSig EXCEPT ![e.w[1]][e.w[2]] = @ - 1]
            /\ landed' = [landed EXCEPT ![e.w] = @ + 1]
            /\ dpc' = [dpc EXCEPT ![r] = AfterRequest(r)]
            /\ done' = Over(r)
            /\ UNCHANGED <<sendSig, sent>>
  /\ UNCHANGED <<uvars, tagPool, idPool, mvars, reqs>>

(* Then its flags are read and what was used once is freed, the tag too.    *)
Release(r) ==
  /\ dpc[r] = "release"
  /\ LET e == done[r][Current(r)].req
         p == <<r, e.peer>>
     IN  tagPool' = IF e.keep THEN tagPool
                    ELSE [tagPool EXCEPT ![p] = Returned(@, <<e.tag>>)]
  /\ done' = Over(r)
  /\ dpc' = [dpc EXCEPT ![r] = AfterRequest(r)]
  /\ UNCHANGED <<uvars, idPool, mvars, reqs, svars>>

(* Mutant: the list is cut to the survivors of the tested copy.            *)
CompactedCopy(s, D) ==
  SubSeq(Without(s, D), 1, Max(D \cup {0}) - Cardinality(D))

(* Complete requests leave the list, whose last ones move into the holes,   *)
(* the last of all into the first.                                         *)
Compacted(s, D) ==
  LET m == Len(s) - Cardinality(D)
      movers == Reverse(Ordered({i \in (DOMAIN s) \ D : i > m}))
  IN  [i \in 1..m |-> IF i \in D THEN s[movers[Cardinality({k \in D : k <= i})]]
                                 ELSE s[i]]

(* Mutant: a persistent request stays in the list.                         *)
WorkedOnce(r) == {done[r][n].idx : n \in {n \in DOMAIN done[r] : ~done[r][n].req.keep}}

Worked(r) == {done[r][n].idx : n \in DOMAIN done[r]}

Unlist(r) ==
  /\ dpc[r] = "remove"
  /\ reqs' = [reqs EXCEPT ![r] = Compacted(@, Worked(r))]
  /\ done' = [done EXCEPT ![r] = <<>>]
  /\ dpc' = [dpc EXCEPT ![r] = "drain"]
  /\ UNCHANGED <<uvars, tagPool, idPool, mvars, svars>>

DaemonNext(r) ==
  \/ \E s \in Rank : Drain(r, s)
  \/ Test(r) \/ Signal(r) \/ Release(r) \/ Unlist(r)

Finished == /\ \A u \in User : at[u] > Len(prog[u])
            /\ \A r \in Rank : reqs[r] = <<>> /\ dpc[r] = "drain"
            /\ \A p \in Pair : ctrl[p] = <<>>

Next == \/ \E u \in User : UserNext(u)
        \/ \E r \in Rank : DaemonNext(r)
        \/ Finished /\ UNCHANGED vars

Spec == Init /\ [][Next]_vars

(* The daemon is a thread that never stops, and MPI delivers and completes  *)
(* what it was given.                                                      *)
FairSpec ==
  /\ Spec
  /\ \A u \in User : WF_vars(UserNext(u))
  /\ \A r \in Rank : WF_vars(DaemonNext(r))

---------------------------------------------------------------------------
(* Correctness.                                                            *)

(* Every receive is completed by the data of its own write, although tags   *)
(* are recycled while earlier data under the same tag may still be waiting  *)
(* for its receive, and threads send data and control messages in any order. *)
OwnData ==
  \A p \in Pair : \A im \in Mates(p) : posted[p][im[1]].w = net[p][im[2]].w

(* What the daemon finds in a control message fits its table: a batch is    *)
(* created in an empty slot, started and destroyed in a full one, and then  *)
(* none of its receives is still active.                                   *)
CtrlMessageFits ==
  \A r, s \in Rank :
    LET p == <<s, r>>
        m == Head(ctrl[p])
    IN  dpc[r] = "drain" /\ ctrl[p] # <<>> =>
          CASE m.type = "create" -> InSlot(slot[p], m.id) = {}
            [] m.type \in {"start", "destroy"} ->
                 \E b \in InSlot(slot[p], m.id) :
                   \A op \in Range(b.ops), q \in Range(posted[p]) :
                     op.w[1] = q.w[1] => op.w[2] # q.w[2]
            [] OTHER -> TRUE

(* A counter at zero means that every write of the batch's last start has   *)
(* given its event on that side: what a waiting thread relies on.          *)
SignalMeansDone ==
  \A b \in BatchKey : starts[b] > 0 =>
    /\ sendSig[b] = 0 => \A j \in Piece(b[1]) : sent[<<b, j, starts[b]>>] = 1
    /\ \A j \in Piece(b[1]) :
         recvSig[b][j] = 0 => landed[<<b, j, starts[b]>>] = 1

(* The list and the removal by index lose no request and keep none twice,   *)
(* whatever is appended while a copy of the list is being worked on: each   *)
(* active receive is listed once, each send until its event is.            *)
Listed(r, kind, w) == {i \in DOMAIN reqs[r] : reqs[r][i].kind = kind /\ reqs[r][i].w = w}
RequestsTracked ==
  /\ \A p \in Pair : \A m \in Range(posted[p]) :
       Cardinality(Listed(p[2], "recv", m.w)) = 1
  /\ \A r \in Rank, w \in Write :
       Home[w[1][1]] = r /\ sent[w] = 1 => Listed(r, "send", w) \subseteq Worked(r)

(* The channel implements one-sided writes with one event on each side.     *)
Writes == INSTANCE OneSidedWrite WITH
  Write   <- Write,
  started <- {w \in Write : w[3] <= starts[w[1]]},
  sent    <- sent,
  landed  <- landed
OneEventEach == Writes!Spec

(* Every write that is started gives both events, every thread gets through *)
(* and the lists run empty.                                                *)
AllDelivered == <>(Finished /\ \A w \in Write :
                     w[3] <= starts[w[1]] => sent[w] = 1 /\ landed[w] = 1)
===========================================================================
