------------------------ MODULE MCPrebufferPromotion ------------------------
(***************************************************************************)
(* Small instances of PrebufferPromotion for TLC: two worker threads (the  *)
(* default of docker-compose.yml) about one fragment, and one task at a    *)
(* time (the default of huey_consumer.py, deploy/README.md) about two.     *)
(***************************************************************************)
EXTENDS PrebufferPromotion, TLC

CONSTANTS w1, w2

TwoWorkers == {w1, w2}
OneTrigger == {1}
WorkerSymmetry == Permutations(TwoWorkers)

SharedOrAlone == {{"threads", "crash", "again"}, {"many", "full", "crash", "bad", "lost"}}
=============================================================================
