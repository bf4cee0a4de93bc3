------------------------- MODULE MCRecordingCatalog -------------------------
(***************************************************************************)
(* Small instances of RecordingCatalog for TLC.  One run explores several  *)
(* combinations of faults: each behaviour chooses its scenario at the      *)
(* start and keeps it.  All faults together, with two handlers, are beyond *)
(* TLC's reach.                                                            *)
(***************************************************************************)
EXTENDS RecordingCatalog, TLC

CONSTANTS h1, h2

TwoHandlers == {h1, h2}
HandlerSymmetry == Permutations(TwoHandlers)

\* Hooks come in order, but again; ZLM and the API restart.
Calm == {"repeat", "crash", "restart"}
\* Hooks are lost, overtake each other and are slow; the recorder is stopped.
Rough == {"lost", "reorder", "stop", "slow", "crash", "restart"}
Again == {"reorder", "repeat", "stop", "slow"}
\* Two threads handle hooks.
Crossed == {"reorder", "restart", "threads"}

FourScenarios == {Calm, Rough, Again, Crossed}
=============================================================================
