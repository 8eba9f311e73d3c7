------------------------------ MODULE JobLedger ------------------------------
(***************************************************************************)
(* What the head node promises about jobs, without channels, schedules or  *)
(* connections.  Every job of every batch is a ticket.  A ticket waits in  *)
(* the queue, is out at exactly one node, and is settled once: that node   *)
(* reports it finished and it is gone for good, or reports that it could   *)
(* not run it and it waits again.  A kill takes waiting tickets only.      *)
(***************************************************************************)
EXTENDS Integers

CONSTANTS Nodes, JobNames

VARIABLES
  newest,   \* the number of the newest batch
  tickets   \* the unsettled tickets <<batch, job>> and where each of them is

Waiting == [at |-> "queue"]
OutAt(n) == [at |-> "out", node |-> n]
FinishedBy(n) == [at |-> "finished", node |-> n]
ReturnedBy(n) == [at |-> "returned", node |-> n]

Place == {Waiting} \cup [at : {"out", "finished", "returned"}, node : Nodes]

LedgerTypeOK ==
  /\ newest \in Nat
  /\ DOMAIN tickets \subseteq (1..newest) \X JobNames
  /\ tickets \in [DOMAIN tickets -> Place]

LedgerInit == newest = 0 /\ tickets = << >>

Move(t, from, to) ==
  /\ t \in DOMAIN tickets /\ tickets[t] = from
  /\ tickets' = [tickets EXCEPT ![t] = to]
  /\ UNCHANGED newest

Submit(jobs) ==
  /\ newest' = newest + 1
  /\ tickets' = [t \in DOMAIN tickets \cup ({newest'} \X jobs) |->
                   IF t \in DOMAIN tickets THEN tickets[t] ELSE Waiting]

HandOut(t, n) == Move(t, Waiting, OutAt(n))
Finish(t, n)  == Move(t, OutAt(n), FinishedBy(n))
GiveUp(t, n)  == Move(t, OutAt(n), ReturnedBy(n))
Requeue(t, n) == Move(t, ReturnedBy(n), Waiting)

Settle(t, n) ==
  /\ t \in DOMAIN tickets /\ tickets[t] = FinishedBy(n)
  /\ tickets' = [u \in DOMAIN tickets \ {t} |-> tickets[u]]
  /\ UNCHANGED newest

Kill(batch) ==
  /\ tickets' = [t \in {u \in DOMAIN tickets :
                          ~(u[1] = batch /\ tickets[u] = Waiting)} |-> tickets[t]]
  /\ UNCHANGED newest

LedgerNext ==
  \/ \E jobs \in SUBSET JobNames : Submit(jobs)
  \/ \E t \in DOMAIN tickets, n \in Nodes :
       HandOut(t, n) \/ Finish(t, n) \/ GiveUp(t, n) \/ Requeue(t, n) \/ Settle(t, n)
  \/ \E batch \in 1..newest : Kill(batch)

LedgerSpec == LedgerInit /\ [][LedgerNext]_<<newest, tickets>>
=============================================================================
