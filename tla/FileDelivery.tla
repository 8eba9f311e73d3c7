---------------------------- MODULE FileDelivery ----------------------------
(***************************************************************************)
(* What a transfer of files promises, whatever bytes, acknowledgements and *)
(* failures there are below: the sender goes through its list in order,    *)
(* and leaves a file only when the receiver has the whole of it or one of  *)
(* the two has given it up: it cannot be read, or not be created, or not   *)
(* be written to its end.  Nothing else may happen to the files.           *)
(***************************************************************************)
EXTENDS Naturals

CONSTANT MaxFiles     \* length of the list of files

VARIABLES next, files, given_up

deliveryVars == <<next, files, given_up>>

Listed == 1..MaxFiles

DeliveryInit ==
  /\ next = 1
  /\ files = [f \in Listed |-> "absent"]
  /\ given_up = {}

\* The receiver begins with a file that it does not get at once.
Create ==
  /\ next \in Listed /\ files[next] = "absent" /\ next \notin given_up
  /\ files' = [files EXCEPT ![next] = "partial"]
  /\ UNCHANGED <<next, given_up>>

Store ==
  /\ next \in Listed /\ files[next] # "whole" /\ next \notin given_up
  /\ files' = [files EXCEPT ![next] = "whole"]
  /\ UNCHANGED <<next, given_up>>

\* The receiver has an error with the file, and keeps what it has of it.
GiveUp ==
  /\ next \in Listed /\ files[next] = "absent" /\ next \notin given_up
  /\ files' \in {files, [files EXCEPT ![next] = "partial"]}
  /\ given_up' = given_up \cup {next}
  /\ UNCHANGED next

\* The sender has an error with the file, before anything of it was sent.
Skip ==
  /\ next \in Listed /\ files[next] = "absent"
  /\ given_up' = given_up \cup {next}
  /\ next' = next + 1
  /\ UNCHANGED files

Pass ==
  /\ next \in Listed /\ (files[next] = "whole" \/ next \in given_up)
  /\ next' = next + 1
  /\ UNCHANGED <<files, given_up>>

DeliveryNext == Create \/ Store \/ GiveUp \/ Skip \/ Pass

DeliverySpec == DeliveryInit /\ [][DeliveryNext]_deliveryVars
=============================================================================
