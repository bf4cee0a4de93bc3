------------------------- MODULE MCStorageLifecycle -------------------------
(* Small instances of StorageLifecycle for TLC. *)
EXTENDS StorageLifecycle, TLC

CONSTANTS s1, r1, w1, w2

OneSegment == {s1}
OneRemote == {r1}
TwoWorkers == {w1, w2}

WorkerSymmetry == Permutations(TwoWorkers)
=============================================================================
