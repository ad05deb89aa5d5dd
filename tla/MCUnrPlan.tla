----------------------------- MODULE MCUnrPlan -----------------------------
(* Two plans of one rank, for a peer on its node and one on another node.  *)
EXTENDS UnrPlan

Wr(peer, mem, off, size, sig) ==
  [peer |-> peer, mem |-> mem, off |-> off, size |-> size, sig |-> sig]

(* Plan "a": two writes on one signal, in up to four pieces.               *)
ToFar == {<<Wr("far", 1, 1, s[1], "s1"), Wr("far", 1, 7, s[2], "s1")>> :
            s \in {<<4, 5>>, <<3, 7>>}}
(* Plan "b": writes to either peer; one has no signal and one has no size.  *)
ToBoth == {<<Wr("far", 1, 0, 0, "s2"), Wr("near", 1, 0, m, "NoSig"),
             Wr("far", 1, 16, 1, "s2")>> : m \in {1, 9}}

MCRequests == [a |-> ToFar, b |-> ToBoth]
MCHome == [s1 |-> "far", s2 |-> "far"]
MCNum  == [s1 |-> 2, s2 |-> 1]
MCThreadHome == [t \in {"t1", "t2"} |-> "far"]
MCStarts == [a |-> 2, b |-> 1]

(* UNR_INTER and UNR_INTRA: three channels of MPI for both, as              *)
(* URI_MPI_DEVICE_NUM = 3 provides, or two of verbs for both.              *)
ThreeMpi == <<"mpi0", "mpi1", "mpi2">>
TwoVerbs == <<"verbs0", "verbs1">>
===========================================================================
