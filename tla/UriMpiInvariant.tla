-------------------------- MODULE UriMpiInvariant --------------------------
(***************************************************************************)
(* The inductive invariant of UriMpiChannel, in parts, and the words in     *)
(* which UriMpiChannel_proofs speaks of its steps.  The invariant carries   *)
(* three witnesses of what is still to come for each pair of ranks: tab,    *)
(* the table of known plans of the target after each control message under  *)
(* way; line, all receives posted or to be posted; cut, how many of them    *)
(* will be posted after each of these messages.                            *)
(***************************************************************************)
EXTENDS UriMpiChannel

---------------------------------------------------------------------------
(* Where the threads are.                                                  *)

Place(u) == [q |-> prog[u], a |-> at[u], s |-> step[u]]

(* An operation has been entered when its first step was taken.             *)
Entered(c, m) == /\ m \in DOMAIN c.q
                 /\ m < c.a \/ (m = c.a /\ c.s # "begin")

(* The batch made last, at k.                                              *)
Newest(c, k) == /\ Entered(c, k) /\ c.q[k] \in Starting
                /\ \A m \in (k + 1)..Len(c.q) : Entered(c, m) => c.q[m] \notin Starting

(* It is a plan whose batch ids were not given back yet.                    *)
OpenPlan(c, k) ==
  /\ Newest(c, k) /\ c.q[k] = "create"
  /\ \A m \in (k + 1)..Len(c.q) :
       Entered(c, m) /\ c.q[m] = "destroy" => m = c.a /\ c.s \in {"untagged", "told"}

PutOpen(c) == c.s \in {"sent", "append"} /\ c.q[c.a] = "put"

(* The thread will give its tags back, or hand them to the request of a put. *)
Holds(c) == \/ PutOpen(c)
            \/ c.s \notin {"untagged", "told"} /\ \E k \in DOMAIN c.q : OpenPlan(c, k)

(* Every start of the batch was followed by a sync.                         *)
Synced(c, k) ==
  /\ Newest(c, k)
  /\ \A m \in k..Len(c.q) : Entered(c, m) /\ c.q[m] \in {"put", "start"} =>
       \E l \in (m + 1)..(c.a - 1) : c.q[l] = "sync"

(* Data was sent whose requests are not listed yet.                         *)
Sending(c) == c.s = "sent" \/ (c.s = "append" /\ c.q[c.a] \in {"put", "start"})

PlaceOK(c) ==
  /\ c.a \in 1..(Len(c.q) + 1)
  /\ c.s \in {"begin", "sent", "append", "untagged", "told"}
  /\ c.s # "begin" => c.a \in DOMAIN c.q
  /\ c.s = "sent" => c.q[c.a] = "put"
  /\ c.s \in {"untagged", "told"} => c.q[c.a] = "destroy"
  /\ c.s = "append" => c.q[c.a] \in Starting \cup {"start", "destroy"}

TodoOf(u) ==
  IF step[u] \notin {"told", "append"} THEN <<>>
  ELSE CASE prog[u][at[u]] = "put"   -> SendRequests(u, 1, tags[u], FALSE) \o CtrlRequests(u)
         [] prog[u][at[u]] = "start" ->
              CtrlRequests(u) \o SendRequests(u, starts[Mine(u)], tags[u], TRUE)
         [] OTHER -> CtrlRequests(u)

(* What holds of one thread.                                               *)
Caller(u) ==
  /\ PlaceOK(Place(u)) /\ todo[u] = TodoOf(u)
  /\ \A k : <<u, k>> \in BatchKey =>
       /\ starts[<<u, k>>] <= (IF step[u] = "begin" THEN at[u] - 1 ELSE at[u])
       /\ starts[<<u, k>>] > 0 => Entered(Place(u), k) /\ prog[u][k] \in Starting
  /\ PutOpen(Place(u)) => starts[<<u, at[u]>>] = 1
  /\ Sending(Place(u)) => starts[Mine(u)] > 0

Called ==
  /\ prog \in Progs
  /\ DOMAIN at = User /\ DOMAIN step = User /\ DOMAIN tags = User /\ DOMAIN ids = User
  /\ DOMAIN todo = User /\ starts \in [BatchKey -> Nat]
  /\ \A u \in User : Caller(u)

---------------------------------------------------------------------------
(* The messages of one pair.                                               *)

OpType  == [w : BatchKey \X Nat \X Nat, tag : Nat]
MsgType == [type : {"execute", "create", "start", "destroy"}, id : Int, start : Nat,
            ops : Seq(OpType)]
RecType == [id : Int, ops : Seq(OpType)]

(* What a message finds at its turn, table T with the first c receives of L. *)
Fits(T, L, c, m) ==
  /\ m.type = "create" => InSlot(T, m.id) = {}
  /\ m.type \in {"start", "destroy"} =>
       \E b \in T :
         /\ InSlot(T, m.id) = {b}
         /\ \A x \in 1..c : \A y \in DOMAIN b.ops :
              ~ (b.ops[y].w[1] = L[x].w[1] /\ b.ops[y].w[2] = L[x].w[2])

(* What message m does when it is the i-th.                                 *)
Turn(T, L, C, m, i) ==
  LET S == Posts(T[i - 1], m) IN
  /\ Fits(T[i - 1], L, C[i - 1], m)
  /\ T[i] = SlotAfter(T[i - 1], m)
  /\ S \in Seq(OpType) /\ Len(S) = C[i] - C[i - 1]
  /\ \A x \in 1..Len(S) : S[x] = L[C[i - 1] + x]

(* T[i] is the table after i more of the messages q, L all receives posted   *)
(* or to be posted, and the first C[i] of them are posted by then; now the   *)
(* table is s and P are posted.                                            *)
OnCourse(T, L, C, q, P, s) ==
  /\ q \in Seq(MsgType) /\ P \in Seq(OpType) /\ L \in Seq(OpType)
  /\ T \in [0..Len(q) -> SUBSET RecType] /\ T[0] = s
  /\ C \in [0..Len(q) -> 0..Len(L)] /\ C[0] = Len(P) /\ C[Len(q)] = Len(L)
  /\ \A x \in 1..Len(P) : P[x] = L[x]
  /\ \A i, j \in 0..Len(q) : i <= j => C[i] <= C[j]
  /\ \A i \in 1..Len(q) : Turn(T, L, C, q[i], i)

(* The data N under way and the receives L are of the same writes, but for   *)
(* the untold ones in U, and those under one tag are in the same order;     *)
(* what is untold comes last under its tag.                                *)
HasData(L, N) == \A i \in DOMAIN L : \E k \in DOMAIN N : N[k] = L[i]
Expected(L, N, U) == \A k \in DOMAIN N : N[k] \in U \/ \E i \in DOMAIN L : L[i] = N[k]
Once(S) == \A i, k \in DOMAIN S : S[i].w = S[k].w => i = k
SameOrder(L, N) == \A i1, i2 \in DOMAIN L : \A k1, k2 \in DOMAIN N :
  L[i1] = N[k1] /\ L[i2] = N[k2] /\ N[k1].tag = N[k2].tag /\ k1 < k2 => i1 < i2
NotIn(L, U) == \A o \in U : \A i \in DOMAIN L : L[i].w # o.w
LastIn(N, U) == \A o \in U :
  \E k \in DOMAIN N : N[k] = o /\ \A l \in DOMAIN N : N[l].tag = o.tag => l <= k

Lined(L, N, U) ==
  /\ HasData(L, N) /\ Expected(L, N, U) /\ Once(L) /\ Once(N)
  /\ SameOrder(L, N) /\ NotIn(L, U) /\ LastIn(N, U)

Course(tab, line, cut) ==
  /\ DOMAIN ctrl = Pair /\ DOMAIN posted = Pair /\ DOMAIN slot = Pair
  /\ \A p \in Pair : OnCourse(tab[p], line[p], cut[p], ctrl[p], posted[p], slot[p])

(* Data of a put whose target has not been told yet.                       *)
Op(u, k, j, n, ts) == [w |-> <<<<u, k>>, j, n>>, tag |-> ts[j]]
Untold(p) == UNION {{Op(u, at[u], j, 1, tags[u]) : j \in {j \in Piece(u) : Batch[u][j] = p[2]}} :
                      u \in {u \in User : Home[u] = p[1] /\ step[u] = "sent"}}

Begun(w) == w \in Write /\ w[3] <= starts[w[1]]
OnPair(p, w) == Home[w[1][1]] = p[1] /\ Batch[w[1][1]][w[2]] = p[2]

Matched(line) ==
  /\ DOMAIN net = Pair
  /\ \A p \in Pair :
       /\ net[p] \in Seq(OpType)
       /\ Lined(line[p], net[p], Untold(p))
       /\ \A k \in DOMAIN net[p] : Begun(net[p][k].w) /\ OnPair(p, net[p][k].w)

---------------------------------------------------------------------------
(* Tags and batch ids.                                                     *)

PoolOK(pool) ==
  /\ pool \in [max : Nat \ {0}, free : Seq(Nat)]
  /\ \A i \in DOMAIN pool.free : pool.free[i] \in 1..(pool.max - 1)
  /\ \A i, k \in DOMAIN pool.free : pool.free[i] = pool.free[k] => i = k

(* A number that was taken and not returned.                               *)
Out(pool, n) == n \in 1..(pool.max - 1) /\ \A i \in DOMAIN pool.free : pool.free[i] # n

OverAt(r, i) == \E n \in DOMAIN done[r] : done[r][n].idx = i /\ done[r][n].req.kind = "over"

(* A send that gives its tag back when it is complete.                      *)
Owes(r, i) == /\ i \in DOMAIN reqs[r] /\ reqs[r][i].kind = "send" /\ ~reqs[r][i].keep
              /\ ~OverAt(r, i)

(* The pools; the tags that threads hold; those that listed requests will   *)
(* give back.                                                              *)
Pools == DOMAIN tagPool = Pair /\ \A p \in Pair : PoolOK(tagPool[p])
HeldOut(u) == Holds(Place(u)) =>
  /\ tags[u] \in [Piece(u) -> Nat]
  /\ \A j \in Piece(u) : Out(tagPool[<<Home[u], Batch[u][j]>>], tags[u][j])
HeldApart(u, v) == \A j \in Piece(u), l \in Piece(v) :
  /\ Holds(Place(u)) /\ Holds(Place(v)) /\ Home[u] = Home[v] /\ Batch[u][j] = Batch[v][l]
  /\ tags[u][j] = tags[v][l]
  => u = v /\ j = l
OwedOut(r) == \A i \in DOMAIN reqs[r] :
  Owes(r, i) => Out(tagPool[<<r, reqs[r][i].peer>>], reqs[r][i].tag)
OwedApart(r) == \A i, k \in DOMAIN reqs[r] :
  /\ Owes(r, i) /\ Owes(r, k) /\ reqs[r][k].peer = reqs[r][i].peer
  /\ reqs[r][k].tag = reqs[r][i].tag
  => k = i
OwedHeld(r, u) == \A i \in DOMAIN reqs[r] : \A j \in Piece(u) :
  Owes(r, i) /\ Holds(Place(u)) /\ Home[u] = r /\ Batch[u][j] = reqs[r][i].peer =>
    tags[u][j] # reqs[r][i].tag

TagsHeld ==
  /\ Pools
  /\ \A u \in User : HeldOut(u)
  /\ \A u, v \in User : HeldApart(u, v)
  /\ \A r \in Rank : OwedOut(r) /\ OwedApart(r)
  /\ \A r \in Rank : \A u \in User : OwedHeld(r, u)

(* The table of the target when all messages will have been processed.      *)
AtEnd(tab, p) == tab[p][Len(ctrl[p])]
PlanOps(u, k, d) == [i \in DOMAIN PiecesTo(u, d) |-> Op(u, k, PiecesTo(u, d)[i], 0, tags[u])]

(* The ids in the tables, and those of the plans of the threads.            *)
IdPools == DOMAIN idPool = Pair /\ \A p \in Pair : PoolOK(idPool[p])
IdsOut(tab, p) == \A b \in AtEnd(tab, p) : Out(idPool[p], b.id)
IdsOnce(tab, p) == \A b, c \in AtEnd(tab, p) : b.id = c.id => b = c
PlanHeld(tab, u) == \A k \in DOMAIN prog[u] : OpenPlan(Place(u), k) => \A d \in Target(u) :
  LET T == AtEnd(tab, <<Home[u], d>>) IN
  /\ Out(idPool[<<Home[u], d>>], ids[u][d])
  /\ step[u] # "told" => [id |-> ids[u][d], ops |-> PlanOps(u, k, d)] \in T
  /\ step[u] = "told" => InSlot(T, ids[u][d]) = {}
PlansApart(u, v) == \A k \in DOMAIN prog[u], l \in DOMAIN prog[v] :
  \A d \in Target(u) \cap Target(v) :
    OpenPlan(Place(u), k) /\ OpenPlan(Place(v), l) /\ Home[u] = Home[v] /\ ids[u][d] = ids[v][d]
    => u = v

IdsHeld(tab) ==
  /\ IdPools
  /\ \A p \in Pair : IdsOut(tab, p) /\ IdsOnce(tab, p)
  /\ \A u \in User : PlanHeld(tab, u)
  /\ \A u, v \in User : PlansApart(u, v)

---------------------------------------------------------------------------
(* The list and the daemon.                                                *)

ReqType == [kind : {"send", "recv", "ctrl"}, peer : Rank, w : Write \cup {NoWrite},
            tag : Nat, keep : BOOLEAN]

(* A request is for a write of its rank, and there is one of a kind.        *)
ForRank(r, e) ==
  /\ e.kind = "send" => Begun(e.w) /\ OnPair(<<r, e.peer>>, e.w)
  /\ e.kind = "recv" => Begun(e.w) /\ OnPair(<<e.peer, r>>, e.w)
Alike(e, f) == f.kind = e.kind /\ e.kind # "ctrl" /\ f.w = e.w

Lists ==
  /\ reqs \in [Rank -> Seq(ReqType)]
  /\ \A r \in Rank : \A i \in DOMAIN reqs[r] : ForRank(r, reqs[r][i])
  /\ \A r \in Rank : \A i, k \in DOMAIN reqs[r] : Alike(reqs[r][i], reqs[r][k]) => k = i

DoneType == [idx : Nat, req : [kind : {"send", "recv", "ctrl", "over"}, peer : Rank,
                               w : Write \cup {NoWrite}, tag : Nat, keep : BOOLEAN]]

(* What is worked on is a copy of listed requests.                          *)
WorkTypes == /\ dpc \in [Rank -> {"drain", "signal", "release", "remove"}]
             /\ done \in [Rank -> Seq(DoneType)]
Phase(r) ==
  /\ dpc[r] = "drain" => done[r] = <<>>
  /\ dpc[r] \in {"signal", "release"} => Pending(r) # {}
  /\ dpc[r] = "release" => done[r][Current(r)].req.kind = "send"
  /\ dpc[r] = "remove" => Pending(r) = {}
Copied(r, d) ==
  /\ d.idx \in DOMAIN reqs[r]
  /\ d.req.kind = reqs[r][d.idx].kind \/ (d.req.kind = "over" /\ reqs[r][d.idx].kind # "ctrl")
  /\ d.req.w = reqs[r][d.idx].w /\ d.req.peer = reqs[r][d.idx].peer
  /\ d.req.tag = reqs[r][d.idx].tag /\ d.req.keep = reqs[r][d.idx].keep
WorkedApart(r) == \A n, k \in DOMAIN done[r] : done[r][k].idx = done[r][n].idx => k = n
WorksOf(r) == Phase(r) /\ WorkedApart(r) /\ \A n \in DOMAIN done[r] : Copied(r, done[r][n])

Works == WorkTypes /\ \A r \in Rank : WorksOf(r)

---------------------------------------------------------------------------
(* Events.                                                                 *)

Releasing(r, i) == dpc[r] = "release" /\ done[r][Current(r)].idx = i

ListedAs(r, kind, w) == \E i \in DOMAIN reqs[r] : reqs[r][i].kind = kind /\ reqs[r][i].w = w

(* A receive is listed from when it is posted until it is complete and has  *)
(* not landed before; a send has no event before it is listed.             *)
EventTypes == sent \in [Write -> {0, 1}] /\ landed \in [Write -> {0, 1}]
NoneAhead == \A w \in Write : w[3] > starts[w[1]] => sent[w] = 0 /\ landed[w] = 0
SentIs(r, i) ==
  reqs[r][i].kind = "send" => (sent[reqs[r][i].w] = 1 <=> OverAt(r, i) \/ Releasing(r, i))
LandedIs(r, i) == reqs[r][i].kind = "recv" => (landed[reqs[r][i].w] = 1 <=> OverAt(r, i))
NotSent(u, k) == Sending(Place(u)) /\ Owns(prog[u], k, at[u]) =>
  \A j \in Piece(u) :
    /\ sent[<<<<u, k>>, j, starts[<<u, k>>]>>] = 0
    /\ ~ ListedAs(Home[u], "send", <<<<u, k>>, j, starts[<<u, k>>]>>)
NotLanded(p) == \A o \in Untold(p) : landed[o.w] = 0 /\ ~ ListedAs(p[2], "recv", o.w)
Awaited(r, w) ==
  \E i \in DOMAIN reqs[r] : reqs[r][i].kind = "recv" /\ reqs[r][i].w = w /\ i \notin Worked(r)
Expects(p, w, x, c) ==
  /\ landed[w] = 0
  /\ x > c => ~ ListedAs(p[2], "recv", w)
  /\ x <= c => Awaited(p[2], w)
AllExpected(line, cut, p) == \A x \in DOMAIN line[p] : Expects(p, line[p][x].w, x, cut[p][0])

Events(line, cut) ==
  /\ EventTypes /\ NoneAhead
  /\ \A r \in Rank : \A i \in DOMAIN reqs[r] : SentIs(r, i) /\ LandedIs(r, i)
  /\ \A u \in User : \A k \in DOMAIN prog[u] : NotSent(u, k)
  /\ \A p \in Pair : NotLanded(p) /\ AllExpected(line, cut, p)

(* A batch that was not started since its signals were reset, and one that  *)
(* was.                                                                    *)
Armed(b) ==
  /\ sendSig[b] = NumEvent(b[1])
  /\ \A j \in Piece(b[1]) : recvSig[b][j] = 1
  /\ \A w \in Write : w[1] = b /\ w[3] <= starts[b] => sent[w] = 1 /\ landed[w] = 1

Unsent(b) == {j \in Piece(b[1]) : sent[<<b, j, starts[b]>>] = 0}
Counting(b) ==
  /\ sendSig[b] = Cardinality(Unsent(b))
  /\ \A j \in Piece(b[1]) : recvSig[b][j] = 1 - landed[<<b, j, starts[b]>>]

SignalTypes == /\ DOMAIN sendSig = BatchKey /\ DOMAIN recvSig = BatchKey
               /\ \A b \in BatchKey : recvSig[b] \in [Piece(b[1]) -> Int]
SignalOf(b) == Armed(b) \/ (starts[b] > 0 /\ Counting(b))
PastOver == \A w \in Write : w[3] < starts[w[1]] => sent[w] = 1 /\ landed[w] = 1
SyncArmed(u, k) == Synced(Place(u), k) => Armed(<<u, k>>)

Signals ==
  /\ SignalTypes
  /\ \A b \in BatchKey : SignalOf(b)
  /\ PastOver
  /\ \A u \in User : \A k \in DOMAIN prog[u] : SyncArmed(u, k)

Inv(tab, line, cut) ==
  /\ Called /\ Course(tab, line, cut) /\ Matched(line) /\ TagsHeld /\ IdsHeld(tab)
  /\ Lists /\ Works /\ Events(line, cut) /\ Signals

IInv == \E tab, line, cut : Inv(tab, line, cut)

---------------------------------------------------------------------------
(* What the proofs say of lists and of single steps.                        *)

(* K is S without the elements at the places I, in the same order.          *)
Thinned(K, S, I, f) ==
  /\ f \in [DOMAIN K -> (DOMAIN S) \ I]
  /\ \A n \in DOMAIN K : K[n] = S[f[n]]
  /\ \A j, k \in DOMAIN K : j < k => f[j] < f[k]
  /\ \A i \in (DOMAIN S) \ I : \E n \in DOMAIN K : f[n] = i

(* K is S without the elements at the places D, in any order.               *)
Picked(K, S, D, f) ==
  /\ f \in [DOMAIN K -> (DOMAIN S) \ D]
  /\ \A n \in DOMAIN K : K[n] = S[f[n]]
  /\ \A j, k \in DOMAIN K : f[j] = f[k] => j = k
  /\ \A i \in (DOMAIN S) \ D : \E n \in DOMAIN K : f[n] = i

(* The elements of a sequence of writes, each once and each under a tag of   *)
(* its own.                                                                *)
Several(S) == \A x, y \in DOMAIN S : S[x].w = S[y].w \/ S[x].tag = S[y].tag => x = y
Elements(S) == {S[x] : x \in DOMAIN S}

(* Receives at I and data at K are completed in pairs.                      *)
InPairs(L, N, I, K) ==
  /\ \A i \in DOMAIN L : \A k \in DOMAIN N : L[i] = N[k] => (i \in I <=> k \in K)
  /\ \A k \in K : k \in DOMAIN N => \E i \in DOMAIN L : L[i] = N[k]

(* A message is appended.                                                  *)
Later(f, n, e) == [i \in 0..(n + 1) |-> IF i <= n THEN f[i] ELSE e]

(* The next message is taken.                                              *)
Sooner(f, n) == [i \in 0..(n - 1) |-> f[i + 1]]

(* What is left of the first c elements are the first d.                    *)
Firsts(K, f, d, c) == \A x \in DOMAIN K : (x <= d <=> f[x] <= c)

(* The pieces for a rank, each once.                                       *)
PiecesFor(u, d) == {j \in Piece(u) : Batch[u][j] = d}

(* One message for each target of u: the tables and receives to come.       *)
ToldTo(u, p) == p[1] = Home[u] /\ p[2] \in Target(u)
Told(T, L, C, tab, line, cut, u, msg) ==
  \A p \in Pair :
    /\ C[p][0] = cut[p][0]
    /\ ToldTo(u, p) =>
         /\ L[p] = line[p] \o Posts(AtEnd(tab, p), msg[p[2]])
         /\ T[p][Len(ctrl[p]) + 1] = SlotAfter(AtEnd(tab, p), msg[p[2]])
    /\ ~ ToldTo(u, p) => L[p] = line[p] /\ T[p] = tab[p]

(* What is over when the requests D of r are complete.                      *)
OverPairs(r, D, p) ==
  IF p[2] # r THEN {}
  ELSE UNION {MatesOf(r, reqs[r][i]) : i \in {i \in D : reqs[r][i].kind = "recv" /\ reqs[r][i].peer = p[1]}}

(* The id a new plan gets for one target.                                   *)
NewId(u, d) == Taken(idPool[<<Home[u], d>>], 1)[1]
SendOf(e, peer, w, tag, keep) ==
  e.kind = "send" /\ e.peer = peer /\ e.w = w /\ e.tag = tag /\ e.keep = keep

(* The sends of a list differ; two lists share no request; C has those of both. *)
SendsOnce(A) == \A i, j \in DOMAIN A : A[i] = A[j] /\ A[i].kind = "send" => i = j
Apart(A, B) == \A i \in DOMAIN A : \A j \in DOMAIN B : A[i] # B[j]
Both(C, A, B) ==
  /\ \A x \in DOMAIN C : (\E i \in DOMAIN A : C[x] = A[i]) \/ (\E j \in DOMAIN B : C[x] = B[j])
  /\ \A i \in DOMAIN A : \E x \in DOMAIN C : C[x] = A[i]
  /\ \A j \in DOMAIN B : \E x \in DOMAIN C : C[x] = B[j]

(* The requests of a call: one for each control message, and one for each    *)
(* piece of the batch if data was sent.                                     *)
SendAt(u, x, j) ==
  LET e == todo[u][x] IN
  /\ e.kind = "send" /\ e.peer = Batch[u][j] /\ e.w = <<Mine(u), j, starts[Mine(u)]>>
  /\ e.tag = tags[u][j] /\ e.keep = (prog[u][at[u]] = "start")

(* What is owed after a step was owed before, at g, and is still out.        *)
OwedFrom(r, g) ==
  /\ \A i \in DOMAIN reqs'[r] : Owes(r, i)' =>
       /\ g[i] \in DOMAIN reqs[r] /\ Owes(r, g[i])
       /\ reqs'[r][i].peer = reqs[r][g[i]].peer /\ reqs'[r][i].tag = reqs[r][g[i]].tag
       /\ Out(tagPool'[<<r, reqs'[r][i].peer>>], reqs'[r][i].tag)
  /\ \A i, k \in DOMAIN reqs'[r] : Owes(r, i)' /\ Owes(r, k)' /\ g[i] = g[k] => i = k

(* Who holds tags after a step held them before, and they are still out.     *)
HoldsFrom(u) == Holds(Place(u))' =>
  /\ Holds(Place(u)) /\ tags'[u] = tags[u]
  /\ \A j \in Piece(u) : Out(tagPool'[<<Home[u], Batch[u][j]>>], tags[u][j])
OpenSame(u) == \A k : OpenPlan(Place(u), k)' <=> OpenPlan(Place(u), k)
SyncedSame(u) == \A k : Synced(Place(u), k)' <=> Synced(Place(u), k)

(* The requests of a call are listed: those of a put take over its tags.    *)
OldOwed(r, i) == i \in DOMAIN reqs[r] /\ Owes(r, i) /\ reqs'[r][i] = reqs[r][i]
NewOwed(u, r, i, j) ==
  /\ r = Home[u] /\ Holds(Place(u)) /\ ~ Holds(Place(u))'
  /\ reqs'[r][i].peer = Batch[u][j] /\ reqs'[r][i].tag = tags[u][j]
  /\ \E x \in DOMAIN todo[u] : i = Len(reqs[r]) + x /\ SendAt(u, x, j)

(* A message m is taken from the queue of p: S are posted and R listed.      *)
Drained(r, s, p, m, S, R) ==
  /\ p = <<s, r>> /\ p \in Pair /\ ctrl[p] # <<>> /\ m = Head(ctrl[p]) /\ S = Posts(slot[p], m)
  /\ dpc[r] = "drain" /\ S \in Seq(OpType)
  /\ R \in [DOMAIN S -> [kind : {"recv"}, peer : {s}, w : BatchKey \X Nat \X Nat, tag : Nat, keep : BOOLEAN]]
  /\ \A x \in DOMAIN R : R[x].w = S[x].w
  /\ ctrl' = [ctrl EXCEPT ![p] = Tail(@)]
  /\ slot' = [slot EXCEPT ![p] = SlotAfter(@, m)]
  /\ posted' = [posted EXCEPT ![p] = @ \o S]
  /\ reqs' = [reqs EXCEPT ![r] = @ \o R]
  /\ UNCHANGED <<uvars, tagPool, idPool, net, dvars, svars>>

(* A thread whose plan is as before, if it still has one.                   *)
PlanFrom(u) == (\E k \in DOMAIN prog[u] : OpenPlan(Place(u), k)') =>
  /\ \A k \in DOMAIN prog[u] : OpenPlan(Place(u), k)' => OpenPlan(Place(u), k)
  /\ tags'[u] = tags[u] /\ ids'[u] = ids[u] /\ (step'[u] = "told" <=> step[u] = "told")

(* The receives R are for the places of L after the first c, up to d.        *)
RecvAll == [kind : {"recv"}, peer : Rank, w : BatchKey \X Nat \X Nat, tag : Nat, keep : BOOLEAN]
Listing(L, c, d, R, s) ==
  /\ R \in [1..(d - c) -> RecvAll] /\ c \in Nat /\ d \in Nat /\ c <= d /\ d <= Len(L)
  /\ \A x \in 1..(d - c) : R[x].peer = s /\ R[x].w = L[c + x].w
DrainStep(tab, line, cut, r, s, T, C, R) ==
  /\ Course(T, line, C)' /\ \A p \in Pair : AtEnd(T, p)' = AtEnd(tab, p)
  /\ \A p \in Pair : p # <<s, r>> => C[p] = cut[p]
  /\ Listing(line[<<s, r>>], cut[<<s, r>>][0], C[<<s, r>>][0], R, s)
  /\ reqs' = [reqs EXCEPT ![r] = @ \o R] /\ dpc[r] = "drain"
  /\ UNCHANGED <<uvars, tagPool, idPool, net, dvars, svars>>

(* What such receives are.                                                  *)
NewReceive(L, c, d, R, r, s, x) ==
  /\ R[x].kind = "recv" /\ c + x \in DOMAIN L /\ c + x > c /\ c + x <= d /\ x \in Nat
  /\ R[x].w = L[c + x].w /\ R[x].peer = s
  /\ landed[R[x].w] = 0 /\ ~ ListedAs(r, "recv", R[x].w)
NewReceives(L, c, d, R, r, s) ==
  /\ R \in Seq(ReqType) /\ \A x \in DOMAIN R : NewReceive(L, c, d, R, r, s, x)
  /\ c \in Nat /\ d \in Nat /\ c <= d
  /\ \A x \in DOMAIN L : x > c /\ x <= d => x - c \in DOMAIN R

(* A write that was not started yet.                                        *)
Fresh(w) == w \in Write /\ w[3] > starts[w[1]]

(* How a step of thread u that touches neither lists nor events moves its   *)
(* data.                                                                   *)
SendingFrom(u, k) == Sending(Place(u))' /\ Owns(prog[u], k, at[u])' =>
  \/ Sending(Place(u)) /\ at'[u] = at[u] /\ starts'[<<u, k>>] = starts[<<u, k>>]
  \/ \A j \in Piece(u) : Fresh(<<<<u, k>>, j, starts'[<<u, k>>]>>)
UntoldFrom(p) == \A o \in Untold(p)' : o \in Untold(p) \/ Fresh(o.w)
LineFrom(L, line, c, p) == \A x \in DOMAIN L[p] :
  \/ x \in DOMAIN line[p] /\ L[p][x] = line[p][x]
  \/ x > c /\ ~ (x <= c) /\ (Fresh(L[p][x].w) \/ L[p][x] \in Untold(p))
SendsOf(S, u, k, n, d) ==
  /\ S \in Seq(OpType)
  /\ \A y \in DOMAIN S : \E j \in PiecesFor(u, d) : S[y] = Op(u, k, j, n, tags[u])

(* Requests A of writes without events were appended to the list of r.      *)
NewRequests(A) == \A x \in DOMAIN A :
  /\ A[x].kind = "send" => sent[A[x].w] = 0
  /\ A[x].kind = "recv" => landed[A[x].w] = 0

(* The request whose signal is moved, or was.                               *)
HandledNow(r, x, w) ==
  /\ x \in DOMAIN reqs[r] /\ reqs[r][x].w = w /\ Begun(w) /\ w \in Write /\ x = done[r][Current(r)].idx
  /\ reqs[r][x].kind \in {"send", "recv"} /\ done[r][Current(r)].req.kind = reqs[r][x].kind
  /\ done[r][Current(r)].req.w = w
  /\ ~ OverAt(r, x) /\ x \in Worked(r)
  /\ reqs[r][x].kind = "send" => Home[w[1][1]] = r
  /\ reqs[r][x].kind = "recv" => Batch[w[1][1]][w[2]] = r
  /\ \A s \in Rank : \A i \in DOMAIN reqs[s] :
       reqs[s][i].kind = reqs[r][x].kind /\ reqs[s][i].w = w => s = r /\ i = x
AtFirst(tab, line, cut) == \A p \in Pair :
  tab[p] = [i \in 0..0 |-> {}] /\ line[p] = <<>> /\ cut[p] = [i \in 0..0 |-> 0]

=============================================================================
