------------------------------ MODULE NodeTask ------------------------------
(***************************************************************************)
(* What the scheduler may rely on in a node task, whatever happens on the  *)
(* link to its compute node: the protocol state it walks through, the      *)
(* batch it has built and the job it is responsible for.  A job is taken   *)
(* only in Built, only of the batch that is built, and is given up only    *)
(* where the code reports to the scheduler.  JobPool uses a node task in   *)
(* this way, and NodeLink shows that the exchange of messages provides it. *)
(***************************************************************************)
EXTENDS Naturals

VARIABLES phase, compiled, held

taskVars == <<phase, compiled, held>>

Nothing == 0
NoJob   == [ident |-> Nothing]

Forget == compiled' = Nothing /\ held' = NoJob

TaskInit == phase = "uninit" /\ compiled = Nothing /\ held = NoJob

Move(from, to) == phase = from /\ phase' = to

Connect == Move("uninit", "prepare_build") /\ UNCHANGED <<compiled, held>>

StartBuild ==
  /\ Move("prepare_build", "building")
  /\ compiled' # Nothing
  /\ UNCHANGED held

EndBuild ==
  \/ Move("building", "built") /\ UNCHANGED <<compiled, held>>
  \/ Move("building", "prepare_build") /\ Forget

DropBuild == Move("built", "prepare_build") /\ Forget

TakeJob ==
  /\ Move("built", "send_inputs")
  /\ held = NoJob /\ held'.ident = compiled
  /\ UNCHANGED compiled

RunJob ==
  \/ Move("send_inputs", "executing") /\ UNCHANGED <<compiled, held>>
  \/ Move("executing", "receive_files") /\ UNCHANGED <<compiled, held>>

EndJob ==
  \/ Move("executing", "prepare_build") /\ Forget
  \/ Move("receive_files", "built") /\ held' = NoJob /\ UNCHANGED compiled

\* Any failure of the link or the node ends here.
Fail == phase' = "uninit" /\ Forget

TaskNext ==
  \/ Connect \/ StartBuild \/ EndBuild \/ DropBuild
  \/ TakeJob \/ RunJob \/ EndJob \/ Fail

TaskSpec == TaskInit /\ [][TaskNext]_taskVars
=============================================================================
