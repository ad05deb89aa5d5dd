-------------------------- MODULE MCUriMpiChannel --------------------------
(* Three threads on rank 1 that write to rank 2, and one on rank 2.         *)
EXTENDS UriMpiChannel

U == {"a", "b", "c", "d"}
MCHome  == [u \in U |-> IF u = "d" THEN 2 ELSE 1]
MCBatch == [u \in U |-> CASE u = "c" -> <<2, 2>> [] u = "d" -> <<1>> [] OTHER -> <<2>>]
Running(p) == [u \in U |-> IF u \in DOMAIN p THEN p[u] ELSE <<>>]

(* Two threads put; one puts again as soon as its first data is sent; both  *)
(* ranks put, one of them a batch of two; a plan is destroyed while another *)
(* is made; a plan of two writes is started twice.                         *)
MCProgs == {Running(p) : p \in {
  [a |-> <<"put">>, b |-> <<"put">>],
  [a |-> <<"put", "wait", "put">>],
  [c |-> <<"put">>, d |-> <<"put">>],
  [a |-> <<"create">>, b |-> <<"create", "start", "sync", "destroy", "put">>],
  [c |-> <<"create", "start", "sync", "start", "sync">>]}}
===========================================================================
