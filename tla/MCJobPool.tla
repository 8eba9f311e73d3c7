------------------------------ MODULE MCJobPool ------------------------------
(***************************************************************************)
(* Constants of the instances of JobPool that TLC checks: a node with a    *)
(* gpu and one without, a batch any node can run and one for the gpu.      *)
(***************************************************************************)
EXTENDS JobPool

CONSTANTS n1, n2, j1, j2, gpu_cap

MCCaps == {gpu_cap}
MCNodeCaps == [n \in Nodes |-> IF n = n1 THEN {gpu_cap} ELSE {}]

\* Two jobs for any node.
Plain == [batch_name |-> "plain", requirements |-> {}, jobs |-> <<j1, j2>>]
\* One job for the node with a gpu.
OnGpu == [batch_name |-> "gpu", requirements |-> {gpu_cap}, jobs |-> <<j1>>]
\* A batch submitted under a name that is in use.
Again == [batch_name |-> "plain", requirements |-> {}, jobs |-> <<j1>>]

MCBatchNames == {"plain", "gpu"}
TwoBatches == {Plain, OnGpu}
SameName   == {Plain, Again}
OneJobEach == {Again, OnGpu}
OnePlain   == {Plain}

GpuNodeMayFail    == {<<n1, "plain">>}
=============================================================================
