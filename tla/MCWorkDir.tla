----------------------------- MODULE MCWorkDir -----------------------------
(***************************************************************************)
(* Batches for WorkDir: a python batch, one with mounts, one with fewer.   *)
(***************************************************************************)
EXTENDS WorkDir

CONSTANTS py, sif, sif2, j1, j2, x, y

MCInitFiles == [b \in Batches |-> IF b = py THEN {x, y} ELSE {x}]
MCJobFiles == [b \in Batches |-> [j \in Jobs |-> IF j = j1 THEN {y} ELSE {}]]
MCMounts == [b \in Batches |-> CASE b = py -> 0 [] b = sif -> 2 [] b = sif2 -> 1]
=============================================================================
