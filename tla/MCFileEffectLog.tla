--------------------------- MODULE MCFileEffectLog ---------------------------
(* FileEffectLog for TLC: a disk whose roll-backs and recoveries work, with *)
(* two keys; one on which they may fail, with more errors and one key; and  *)
(* one whose path the configuration may leave and come back to, so that two *)
(* log values stand over the file.                                          *)
EXTENDS FileEffectLog

CONSTANTS k1, k2, k3

MCKeys == {k1, k2, k3}

WorkingDisk == [errors |-> 1, rollbackMayFail |-> FALSE, recoverMayFail |-> FALSE,
                dirMayRevert |-> FALSE, mayReload |-> FALSE, keys |-> {k1, k2}]
FailingDisk == [errors |-> 3, rollbackMayFail |-> TRUE, recoverMayFail |-> TRUE,
                dirMayRevert |-> FALSE, mayReload |-> FALSE, keys |-> {k3}]
MovedPath   == [errors |-> 1, rollbackMayFail |-> TRUE, recoverMayFail |-> TRUE,
                dirMayRevert |-> FALSE, mayReload |-> TRUE, keys |-> {k3}]

MCEnvironments == {WorkingDisk, FailingDisk, MovedPath}

Symmetry == Permutations({k1, k2}) \cup Permutations(Handles)
=============================================================================
