--------------------------- MODULE MCBinGeometry ---------------------------
(* Small tiles, with the options of the published runs. *)
EXTENDS BinGeometry

SmallTiles == [Dim -> {1, 2}]

(* The finite-difference Maxwell solver without NCI filter.                 *)
Published == {o \in OptionRecord : o["fields"] /\ ~o["psatd"] /\ ~o["nci"]}
===========================================================================
