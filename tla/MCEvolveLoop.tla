---------------------------- MODULE MCEvolveLoop ----------------------------
(* EvolveLoop for two ranks and a script of two calls: one for a number of  *)
(* steps, one for the rest.  A step has ten ticks, the tolerance is one.    *)
EXTENDS EvolveLoop

CONSTANTS r0, r1, usr1, hup

MCRank == {r0, r1}

(* Evolve(1), then Evolve() up to max_step, as a PICMI script calls it. *)
MCScript == <<1, -1>>

(* Never within max_step; a whole step; a tick beyond it, within the        *)
(* tolerance; between two steps.                                            *)
MCStopTimes == {1000, 20, 21, 14}
=============================================================================
