---------------------------- MODULE JobPoolLedger ----------------------------
(***************************************************************************)
(* The job pool keeps the promise of JobLedger, for any nodes, batches,    *)
(* capacities and mishaps but a lost execute order: with that one a job    *)
(* that runs is with nobody (NoneLost fails), and the ledger has no place  *)
(* for it.  The proof says of every job in the map where it is (AtPlace),  *)
(* shows that it is in one place (PlacesAreTickets), and compares the      *)
(* places before and after each step.                                      *)
(***************************************************************************)
EXTENDS JobPoolProofs

\* A job is with a node task, or in a report that is on its way.
WithAt(i, j, p)     == \E n \in Nodes : IsWith(n, i, j) /\ p = [at |-> "out", node |-> n]
ReportedAt(i, j, p) == \E k \in ReportsOn(i, j) : p = ReportPlace(requests[k])
Elsewhere(i, j, p)  == WithAt(i, j, p) \/ ReportedAt(i, j, p)

Queued(i, j) == i \in DOMAIN map /\ j \in Waiting(map[i])

AtPlace(i, j, p) == (Queued(i, j) /\ p = [at |-> "queue"]) \/ Elsewhere(i, j, p)

\* Every job that runs in the schedule is accounted for, by its node.
NoneLost ==
  \A i \in DOMAIN map : \A r \in Running(map[i]) :
    \E p : Elsewhere(i, r.job_name, p) /\ p.node = r.node

LedgerInv == IInv /\ BuildInv /\ NoneLost

\* The tickets are the jobs that are somewhere, each with its place.
PlacesAreTickets ==
  /\ Tickets = [t \in DOMAIN Tickets |-> Tickets[t]]
  /\ \A t \in DOMAIN Tickets : \E i, j : t = <<i, j>> /\ AtPlace(i, j, Tickets[t])
  /\ \A i, j, p : AtPlace(i, j, p) => <<i, j>> \in DOMAIN Tickets /\ Tickets[<<i, j>>] = p

-----------------------------------------------------------------------------
(* Where the jobs are                                                      *)

\* A node task has a job as an answer or as the one it holds.
LEMMA WithHas ==
  ASSUME IInv, NEW n \in Nodes, NEW i, NEW j, IsWith(n, i, j)
  PROVE  \/ n \in Answered /\ reply[n].ident = i /\ reply[n].job_name = j
         \/ n \in Holding /\ held[n].ident = i /\ held[n].job_name = j
PROOF
  <1>1. CASE reply[n] = RunJob(i, j)
    BY <1>1 DEF RunJob, Answered
  <1>2. CASE held[n] = [ident |-> i, job_name |-> j]
    <2>1. held[n] \in Task \cup {NoTask} /\ held[n].ident = i /\ held[n].job_name = j
      BY <1>2 DEF IInv, TypeOK
    <2>2. held[n] # NoTask
      BY <1>2 DEF NoTask
    <2>3. n \in Holding
      BY <2>1, <2>2 DEF Holding, Task, NoIdent
    <2> QED
      BY <2>1, <2>3
  <1> QED
    BY <1>1, <1>2 DEF IsWith

\* The job it has runs.
LEMMA WithRuns ==
  ASSUME IInv, NEW n \in Nodes, NEW i, NEW j, IsWith(n, i, j)
  PROVE  i \in DOMAIN map /\ [job_name |-> j, node |-> n] \in Running(map[i])
PROOF
  <1>1. CASE n \in Answered /\ reply[n].ident = i /\ reply[n].job_name = j
    BY <1>1, RunsAtIsRunsIn DEF IInv, AccountedJobsRun, RunsIn
  <1>2. CASE n \in Holding /\ held[n].ident = i /\ held[n].job_name = j
    BY <1>2, RunsAtIsRunsIn DEF IInv, AccountedJobsRun, RunsIn
  <1> QED
    BY <1>1, <1>2, WithHas

\* A report is about a running job.
LEMMA ReportRuns ==
  ASSUME IInv, NEW i, NEW j, NEW k \in ReportsOn(i, j)
  PROVE  /\ i \in DOMAIN map /\ [job_name |-> j, node |-> requests[k].node] \in Running(map[i])
         /\ k \in Reporting /\ requests[k].node \in Nodes
         /\ requests[k].ident = i /\ requests[k].job_name = j
PROOF
  <1>1. k \in Reporting /\ requests[k].ident = i /\ requests[k].job_name = j
    BY DEF ReportsOn
  <1>2. requests[k] \in Request /\ requests[k].type \in {"FinishJob", "DeadNode"}
    BY <1>1 DEF IInv, TypeOK, Reporting
  <1> QED
    BY <1>1, <1>2, RunsAtIsRunsIn, RequestFields DEF IInv, AccountedJobsRun, RunsIn

\* A job that is with a node task is in no report.
LEMMA WithOrReported ==
  ASSUME IInv, NEW n \in Nodes, NEW i, NEW j, IsWith(n, i, j)
  PROVE  ReportsOn(i, j) = {}
PROOF
  <1> SUFFICES ASSUME NEW k \in ReportsOn(i, j) PROVE FALSE
    OBVIOUS
  <1>1. k \in Reporting /\ requests[k].ident = i /\ requests[k].job_name = j
    BY DEF ReportsOn
  <1>2. CASE n \in Answered /\ reply[n].ident = i /\ reply[n].job_name = j
    BY <1>1, <1>2 DEF IInv, JobHeldOnce, SameJob
  <1>3. CASE n \in Holding /\ held[n].ident = i /\ held[n].job_name = j
    BY <1>1, <1>3 DEF IInv, JobHeldOnce, SameJob
  <1> QED
    BY <1>2, <1>3, WithHas

\* There is one report on a job.
LEMMA OneReport ==
  ASSUME IInv, NEW i, NEW j, NEW k \in ReportsOn(i, j)
  PROVE  ReportsOn(i, j) = {k} /\ Min(ReportsOn(i, j)) = k
PROOF
  <1>1. ReportsOn(i, j) = {k}
    BY DEF IInv, JobHeldOnce, SameJob, ReportsOn
  <1>2. {k} \in SUBSET Nat
    BY DEF IInv, TypeOK, ReportsOn, Reporting
  <1>3. Min({k}) \in {k}
    BY <1>2, MinInSet
  <1> QED
    BY <1>1, <1>3

\* A job that runs does not wait, and there is one running job of its name.
LEMMA RunsOnce ==
  ASSUME IInv, NEW i \in DOMAIN map, NEW r \in Running(map[i])
  PROVE  /\ r.job_name \notin Waiting(map[i])
         /\ \A s \in Running(map[i]) : s.job_name = r.job_name => s = r
PROOF
  <1>1. ListedOnce(map[i])
    BY DEF IInv, JobListedOnce
  <1> QED
    BY <1>1 DEF ListedOnce, Running, Waiting, Range

\* A job is where its ticket says it is.
LEMMA Places == IInv /\ NoneLost => PlacesAreTickets
PROOF
  <1> SUFFICES ASSUME IInv, NoneLost PROVE PlacesAreTickets
    OBVIOUS
  <1>1. \A t : t \in DOMAIN Tickets <=> \E i \in DOMAIN map : \E j \in Listed(i) : t = <<i, j>>
    BY DEF Tickets
  <1>2. Tickets = [t \in DOMAIN Tickets |-> Tickets[t]]
    BY DEF Tickets
  <1>3. ASSUME NEW i \in DOMAIN map, NEW j \in Waiting(map[i])
        PROVE  <<i, j>> \in DOMAIN Tickets /\ Tickets[<<i, j>>] = [at |-> "queue"]
    BY <1>3 DEF Tickets, Listed, Waiting
  <1>4. ASSUME NEW i \in DOMAIN map, NEW r \in Running(map[i])
        PROVE  /\ <<i, r.job_name>> \in DOMAIN Tickets
               /\ Tickets[<<i, r.job_name>>] = PlaceOf(i, r)
    <2> DEFINE j == r.job_name
    <2>1. j \notin Range(map[i].remaining_jobs) /\ r \in Range(map[i].running_jobs)
      BY <1>4, RunsOnce DEF Waiting, Running
    <2>2. (CHOOSE s \in Range(map[i].running_jobs) : s.job_name = j) = r
      BY <1>4, <2>1, RunsOnce DEF Running
    <2>3. <<i, j>> \in UNION {{l} \X Listed(l) : l \in DOMAIN map}
      BY <1>4, <2>1 DEF Listed
    <2> HIDE DEF j
    <2>4. Tickets[<<i, j>>] = PlaceOf(i, CHOOSE s \in Range(map[i].running_jobs) : s.job_name = j)
      BY <2>1, <2>3 DEF Tickets
    <2> QED
      BY <2>2, <2>3, <2>4 DEF Tickets, j
  <1>5. ASSUME NEW i, NEW j, NEW n \in Nodes, IsWith(n, i, j)
        PROVE  /\ <<i, j>> \in DOMAIN Tickets
               /\ Tickets[<<i, j>>] = [at |-> "out", node |-> n]
    <2> DEFINE r == [job_name |-> j, node |-> n]
    <2>1. i \in DOMAIN map /\ r \in Running(map[i]) /\ r.job_name = j /\ r.node = n
      BY <1>5, WithRuns
    <2> HIDE DEF r
    <2>2. PlaceOf(i, r) = [at |-> "out", node |-> n]
      BY <1>5, <2>1, WithOrReported DEF PlaceOf
    <2> QED
      BY <1>4, <2>1, <2>2
  <1>6. ASSUME NEW i, NEW j, NEW k \in ReportsOn(i, j)
        PROVE  <<i, j>> \in DOMAIN Tickets /\ Tickets[<<i, j>>] = ReportPlace(requests[k])
    <2> DEFINE r == [job_name |-> j, node |-> requests[k].node]
    <2>1. i \in DOMAIN map /\ r \in Running(map[i]) /\ r.job_name = j
      BY <1>6, ReportRuns
    <2> HIDE DEF r
    <2>2. PlaceOf(i, r) = ReportPlace(requests[k])
      BY <1>6, <2>1, OneReport DEF PlaceOf
    <2> QED
      BY <1>4, <2>1, <2>2
  <1>7. \A i, j, p : AtPlace(i, j, p) => <<i, j>> \in DOMAIN Tickets /\ Tickets[<<i, j>>] = p
    BY <1>3, <1>5, <1>6 DEF AtPlace, Queued, Elsewhere, WithAt, ReportedAt
  <1>8. ASSUME NEW t \in DOMAIN Tickets
        PROVE  \E i, j : t = <<i, j>> /\ AtPlace(i, j, Tickets[t])
    <2>1. PICK i \in DOMAIN map : \E j \in Listed(i) : t = <<i, j>>
      BY <1>1, <1>8
    <2>0. PICK j \in Listed(i) : t = <<i, j>>
      BY <2>1
    <2>2. CASE j \in Waiting(map[i])
      BY <1>3, <2>0, <2>2 DEF AtPlace, Queued
    <2>3. CASE j \notin Waiting(map[i])
      <3>1. PICK r \in Running(map[i]) : r.job_name = j
        BY <2>0, <2>3 DEF Listed, Waiting, Running
      <3>2. PICK p : Elsewhere(i, j, p)
        BY <3>1 DEF NoneLost
      <3>3. AtPlace(i, j, p)
        BY <3>2 DEF AtPlace
      <3> QED
        BY <1>7, <2>0, <3>3
    <2> QED
      BY <2>2, <2>3
  <1> QED
    BY <1>2, <1>7, <1>8 DEF PlacesAreTickets

-----------------------------------------------------------------------------
(* How steps change the places                                             *)

IsReport(r) == r.type \in {"FinishJob", "DeadNode"}

\* A request that is sent adds a report when it is one.
LEMMA SendReports ==
  ASSUME IInv, NEW r \in Request, Send(r), NEW i, NEW j, NEW p
  PROVE  ReportedAt(i, j, p)' <=>
           \/ ReportedAt(i, j, p)
           \/ IsReport(r) /\ r.ident = i /\ r.job_name = j /\ p = ReportPlace(r)
PROOF
  <1>1. /\ DOMAIN requests' = 1..(Len(requests) + 1) /\ DOMAIN requests = 1..Len(requests)
        /\ requests'[Len(requests) + 1] = r /\ Len(requests) \in Nat
        /\ \A k \in 1..Len(requests) : requests'[k] = requests[k]
    BY SendFacts DEF IInv, TypeOK
  <1>2. \A k : k \in DOMAIN requests' <=> k \in DOMAIN requests \/ k = Len(requests) + 1
    BY <1>1
  <1>3. \A k \in DOMAIN requests : requests'[k] = requests[k]
    BY <1>1
  <1> QED
    BY <1>1, <1>2, <1>3 DEF ReportedAt, ReportsOn, Reporting, ReportPlace, IsReport

\* The request that is received takes its report with it.
LEMMA ReceiveReports ==
  ASSUME IInv, NEW type, Receive(type), NEW i, NEW j, NEW p
  PROVE  ReportedAt(i, j, p) <=>
           \/ ReportedAt(i, j, p)'
           \/ 1 \in ReportsOn(i, j) /\ p = ReportPlace(Head(requests))
PROOF
  <1>1. /\ requests \in Seq(Request) /\ requests # << >> /\ requests' = Tail(requests)
        /\ Head(requests) = requests[1]
    BY ReceiveFacts DEF IInv, TypeOK, Receive
  <1>2. Len(requests) \in Nat \ {0} /\ DOMAIN requests = 1..Len(requests)
    BY <1>1
  <1>3. /\ DOMAIN requests' = 1..(Len(requests) - 1)
        /\ \A k \in 1..(Len(requests) - 1) : requests'[k] = requests[k + 1]
    BY <1>1, <1>2, HeadTailProperties
  <1>4. \A k \in DOMAIN requests' : k + 1 \in DOMAIN requests /\ requests'[k] = requests[k + 1]
    BY <1>2, <1>3
  <1>5. \A k \in DOMAIN requests : k # 1 =>
          k - 1 \in DOMAIN requests' /\ requests'[k - 1] = requests[k]
    BY <1>2, <1>3
  <1>6. ASSUME ReportedAt(i, j, p)
        PROVE  ReportedAt(i, j, p)' \/ (1 \in ReportsOn(i, j) /\ p = ReportPlace(Head(requests)))
    <2>1. PICK k \in ReportsOn(i, j) : p = ReportPlace(requests[k])
      BY <1>6 DEF ReportedAt
    <2>2. CASE k = 1
      BY <1>1, <2>1, <2>2
    <2>3. CASE k # 1
      <3>1. k - 1 \in ReportsOn(i, j)' /\ requests'[k - 1] = requests[k]
        BY <1>5, <2>1, <2>3 DEF ReportsOn, Reporting
      <3> QED
        BY <2>1, <3>1 DEF ReportedAt, ReportPlace
    <2> QED
      BY <2>2, <2>3
  <1>7. ReportedAt(i, j, p)' => ReportedAt(i, j, p)
    BY <1>4 DEF ReportedAt, ReportsOn, Reporting, ReportPlace
  <1>8. 1 \in ReportsOn(i, j) /\ p = ReportPlace(Head(requests)) => ReportedAt(i, j, p)
    BY <1>1 DEF ReportedAt
  <1> QED
    BY <1>6, <1>7, <1>8

\* Answers that are no jobs come and go, and nobody takes or leaves a job.
LEMMA SameHands ==
  ASSUME \A m \in Nodes :
           /\ held'[m] = held[m]
           /\ \/ reply'[m] = reply[m]
              \/ reply[m].kind # "Job" /\ reply'[m].kind # "Job"
  PROVE  \A i, j, p : WithAt(i, j, p)' <=> WithAt(i, j, p)
PROOF
  <1>1. ASSUME NEW m \in Nodes, NEW i, NEW j PROVE IsWith(m, i, j)' <=> IsWith(m, i, j)
    BY DEF IsWith, RunJob
  <1> QED
    BY <1>1 DEF WithAt

Still ==
  /\ UNCHANGED <<map, last_identifier>>
  /\ \A i, j, p : Elsewhere(i, j, p)' <=> Elsewhere(i, j, p)

\* The steps of a node task that neither take nor report a job leave every job
\* where it is.
LEMMA QuietStands ==
  ASSUME IInv, BuildInv, NEW n \in Nodes,
         \/ ConnectToNode(n) \/ FetchNewJob(n) \/ NoJobs(n) \/ StartBuild(n)
         \/ BuildSucceeds(n) \/ BuildFails(n) \/ SwitchBatch(n) \/ SendInputs(n)
         \/ ReadCancellation(n) \/ JobEnds(n) \/ MissKeepalive(n) \/ LoseBuild(n)
  PROVE  Still
PROOF
  <1>1. NodeFits(n)
    BY DEF BuildInv
  <1>2. UNCHANGED <<map, last_identifier>>
    BY DEF ConnectToNode, FetchNewJob, NoJobs, StartBuild, BuildSucceeds, BuildFails,
           SwitchBatch, SendInputs, ReadCancellation, JobEnds, MissKeepalive, LoseBuild, poolVars
  <1>3. /\ \A m \in Nodes \ {n} : held'[m] = held[m] /\ reply'[m] = reply[m]
        /\ held'[n] = held[n]
        /\ reply'[n] = reply[n] \/ (reply[n].kind # "Job" /\ reply'[n].kind # "Job")
    <2>1. CASE MissKeepalive(n) \/ LoseBuild(n)
      <3>1. ToUninit(n) /\ held[n] = NoTask /\ reply[n].kind # "Job"
        BY <1>1, <2>1 DEF MissKeepalive, LoseBuild, NodeFits, Busy, Ready, Idle
      <3> QED
        BY <3>1 DEF IInv, TypeOK, ToUninit, Idle
    <2>2. CASE FetchNewJob(n) \/ NoJobs(n) \/ StartBuild(n) \/ SwitchBatch(n)
      BY <2>2 DEF IInv, TypeOK, FetchNewJob, NoJobs, StartBuild, SwitchBatch, Idle, Pending,
                  EmptyJobs
    <2>3. CASE \/ ConnectToNode(n) \/ BuildSucceeds(n) \/ BuildFails(n) \/ SendInputs(n)
               \/ ReadCancellation(n) \/ JobEnds(n)
      BY <2>3 DEF ConnectToNode, BuildSucceeds, BuildFails, SendInputs, ReadCancellation, JobEnds
    <2> QED
      BY <2>1, <2>2, <2>3
  <1>4. \A i, j, p : WithAt(i, j, p)' <=> WithAt(i, j, p)
    BY <1>3, SameHands
  <1>5. \A i, j, p : ReportedAt(i, j, p)' <=> ReportedAt(i, j, p)
    <2>1. CASE FetchNewJob(n)
      <3>1. PICK r \in Request : r.type = "NewJob" /\ Send(r)
        BY <2>1 DEF IInv, TypeOK, FetchNewJob, Request
      <3> QED
        BY <3>1, SendReports DEF IsReport
    <2>2. CASE ~FetchNewJob(n)
      <3>1. requests' = requests
        BY <2>2 DEF ConnectToNode, NoJobs, StartBuild, BuildSucceeds, BuildFails,
                    SwitchBatch, SendInputs, ReadCancellation, JobEnds, MissKeepalive, LoseBuild
      <3> QED
        BY <3>1 DEF ReportedAt, ReportsOn, Reporting, ReportPlace
    <2> QED
      BY <2>1, <2>2
  <1> QED
    BY <1>2, <1>4, <1>5 DEF Still, Elsewhere

\* A job that is started goes from the answer to the task held, at one node.
LEMMA StartJobStands ==
  ASSUME IInv, BuildInv, NEW n \in Nodes, StartJob(n)
  PROVE  Still
PROOF
  <1>1. NodeFits(n) /\ held[n] = NoTask /\ reply[n].kind = "Job"
    BY DEF BuildInv, NodeFits, StartJob, Busy
  <1>2. /\ UNCHANGED <<map, last_identifier, requests>>
        /\ \A m \in Nodes \ {n} : held'[m] = held[m] /\ reply'[m] = reply[m]
        /\ held'[n] = [ident |-> reply[n].ident, job_name |-> reply[n].job_name]
        /\ reply'[n] = Idle
    BY DEF IInv, TypeOK, StartJob, poolVars
  <1>3. \A i, j : IsWith(n, i, j) <=> reply[n] = RunJob(i, j)
    BY <1>1 DEF IsWith, NoTask
  <1>4. \A i, j : IsWith(n, i, j)' <=> i = reply[n].ident /\ j = reply[n].job_name
    BY <1>2 DEF IsWith, RunJob, Idle
  <1>5. \A i, j : reply[n] = RunJob(i, j) <=> i = reply[n].ident /\ j = reply[n].job_name
    <2>1. reply[n] \in [kind : {"Job"}, ident : Nat \ {NoIdent}, job_name : JobNames]
      BY <1>1 DEF IInv, TypeOK, Response, Idle, Pending, EmptyJobs
    <2> QED
      BY <2>1 DEF RunJob
  <1>6. ASSUME NEW m \in Nodes, NEW i, NEW j PROVE IsWith(m, i, j)' <=> IsWith(m, i, j)
    <2>1. CASE m = n
      BY <1>3, <1>4, <1>5, <2>1
    <2>2. CASE m # n
      BY <1>2, <2>2 DEF IsWith
    <2> QED
      BY <2>1, <2>2
  <1>7. \A i, j, p : WithAt(i, j, p)' <=> WithAt(i, j, p)
    BY <1>6 DEF WithAt
  <1>8. \A i, j, p : ReportedAt(i, j, p)' <=> ReportedAt(i, j, p)
    BY <1>2 DEF ReportedAt, ReportsOn, Reporting, ReportPlace
  <1> QED
    BY <1>2, <1>7, <1>8 DEF Still, Elsewhere

\* The step takes one job from a place to another and no other job anywhere.
Moves(i, j, from, to) ==
  /\ AtPlace(i, j, from) /\ AtPlace(i, j, to)'
  /\ \A k, l, p : <<k, l>> # <<i, j>> => (AtPlace(k, l, p)' <=> AtPlace(k, l, p))

\* No job is in two places.
LEMMA OnePlace ==
  ASSUME PlacesAreTickets, NEW i, NEW j, NEW p, NEW q, AtPlace(i, j, p), AtPlace(i, j, q)
  PROVE  p = q
PROOF
  <1>1. Tickets[<<i, j>>] = p
    BY DEF PlacesAreTickets
  <1>2. Tickets[<<i, j>>] = q
    BY DEF PlacesAreTickets
  <1> QED
    BY <1>1, <1>2

\* The ticket moves with the job.
LEMMA TicketMoves ==
  ASSUME PlacesAreTickets, PlacesAreTickets', NEW i, NEW j, NEW from, NEW to,
         Moves(i, j, from, to)
  PROVE  /\ <<i, j>> \in DOMAIN Tickets /\ Tickets[<<i, j>>] = from
         /\ Tickets' = [Tickets EXCEPT ![<<i, j>>] = to]
PROOF
  <1>1. <<i, j>> \in DOMAIN Tickets /\ Tickets[<<i, j>>] = from
    BY DEF PlacesAreTickets, Moves
  <1>2. <<i, j>> \in DOMAIN Tickets' /\ Tickets'[<<i, j>>] = to
    BY DEF PlacesAreTickets, Moves
  <1>3. ASSUME NEW t, t # <<i, j>>
        PROVE  /\ t \in DOMAIN Tickets' <=> t \in DOMAIN Tickets
               /\ t \in DOMAIN Tickets => Tickets'[t] = Tickets[t]
    <2>1. \A k, l, p : t = <<k, l>> => (AtPlace(k, l, p)' <=> AtPlace(k, l, p))
      BY <1>3 DEF Moves
    <2> QED
      BY <2>1 DEF PlacesAreTickets
  <1>4. DOMAIN Tickets' = DOMAIN Tickets
    BY <1>1, <1>2, <1>3
  <1>5. /\ Tickets = [t \in DOMAIN Tickets |-> Tickets[t]]
        /\ Tickets' = [t \in DOMAIN Tickets' |-> Tickets'[t]]
    BY DEF PlacesAreTickets
  <1>6. [Tickets EXCEPT ![<<i, j>>] = to]
          = [t \in DOMAIN Tickets |-> IF t = <<i, j>> THEN to ELSE Tickets[t]]
    BY <1>5
  <1> QED
    BY <1>1, <1>2, <1>3, <1>4, <1>5, <1>6

\* The step keeps account of every running job, and is one of the ledger's.
LedgerStep == [Ledger!LedgerNext]_<<last_identifier, Tickets>>
Keeps == NoneLost' /\ (PlacesAreTickets /\ PlacesAreTickets' => LedgerStep)

\* A step that moves no job is a stutter of the ledger.
LEMMA StillKeeps ==
  ASSUME NoneLost, Still PROVE Keeps
PROOF
  <1>1. NoneLost'
    BY DEF NoneLost, Still
  <1>2. ASSUME PlacesAreTickets, PlacesAreTickets' PROVE Tickets' = Tickets
    <2>1. \A i, j, p : AtPlace(i, j, p)' <=> AtPlace(i, j, p)
      BY DEF AtPlace, Queued, Still
    <2>2. \A t : t \in DOMAIN Tickets' <=> t \in DOMAIN Tickets
      BY <1>2, <2>1 DEF PlacesAreTickets
    <2>3. \A t \in DOMAIN Tickets : Tickets'[t] = Tickets[t]
      BY <1>2, <2>1 DEF PlacesAreTickets
    <2>4. /\ Tickets = [t \in DOMAIN Tickets |-> Tickets[t]]
          /\ Tickets' = [t \in DOMAIN Tickets' |-> Tickets'[t]]
      BY <1>2 DEF PlacesAreTickets
    <2>5. DOMAIN Tickets' = DOMAIN Tickets
      BY <2>2
    <2> QED
      BY <2>3, <2>4, <2>5
  <1> QED
    BY <1>1, <1>2 DEF Keeps, LedgerStep, Still

\* The end of a job, or its return, is reported by the node that has it.
LEMMA ReportKeeps ==
  ASSUME LedgerInv, NEW n \in Nodes, phase[n] \in Busy,
         NEW type \in {"FinishJob", "DeadNode"}, Report(type, n),
         UNCHANGED <<map, last_identifier>>, held' = [held EXCEPT ![n] = NoTask],
         reply' = reply \/ reply' = [reply EXCEPT ![n] = Idle]
  PROVE  Keeps
PROOF
  <1>1. NodeFits(n) /\ held[n] \in Task /\ reply[n].kind # "Job"
    BY DEF LedgerInv, BuildInv, NodeFits, Busy
  <1>2. PICK i, j, out, to :
          /\ i = held[n].ident /\ j = held[n].job_name
          /\ out = [at |-> "out", node |-> n]
          /\ to = ReportPlace([type |-> type, node |-> n, ident |-> i, job_name |-> j])
    OBVIOUS
  <1>3. /\ i # NoIdent /\ i \in Nat /\ j \in JobNames /\ held[n] = [ident |-> i, job_name |-> j]
        /\ out.node = n /\ to.node = n
        /\ to \in {Ledger!FinishedBy(n), Ledger!ReturnedBy(n)}
    BY <1>1, <1>2 DEF Task, ReportPlace, Ledger!FinishedBy, Ledger!ReturnedBy
  <1>4. \A k, l, p : ReportedAt(k, l, p)' <=>
                       ReportedAt(k, l, p) \/ (k = i /\ l = j /\ p = to)
    <2>1. PICK report : report = [type |-> type, node |-> n, ident |-> i, job_name |-> j]
      OBVIOUS
    <2>2. /\ report \in Request /\ Send(report) /\ IsReport(report)
          /\ report.ident = i /\ report.job_name = j /\ to = ReportPlace(report)
      BY <1>2, <1>3, <2>1 DEF Request, Report, IsReport
    <2> QED
      BY <2>2, SendReports DEF LedgerInv
  <1>5. ASSUME NEW m \in Nodes, NEW k, NEW l
        PROVE  IsWith(m, k, l) <=> IsWith(m, k, l)' \/ (m = n /\ k = i /\ l = j)
    <2>1. CASE m = n
      <3>1. held'[m] = NoTask /\ reply'[m].kind # "Job"
        BY <1>1, <2>1 DEF LedgerInv, IInv, TypeOK, Idle
      <3>2. ~IsWith(m, k, l)'
        BY <3>1 DEF IsWith, NoTask, RunJob
      <3>3. IsWith(m, k, l) <=> k = i /\ l = j
        BY <1>1, <1>3, <2>1 DEF IsWith, RunJob
      <3> QED
        BY <2>1, <3>2, <3>3
    <2>2. CASE m # n
      BY <2>2 DEF LedgerInv, IInv, TypeOK, IsWith
    <2> QED
      BY <2>1, <2>2
  <1>6. \A k, l, p : WithAt(k, l, p) <=> WithAt(k, l, p)' \/ (k = i /\ l = j /\ p = out)
    BY <1>2, <1>5 DEF WithAt
  <1>7. Elsewhere(i, j, out) /\ Elsewhere(i, j, to)'
    BY <1>4, <1>6 DEF Elsewhere
  <1>8. \A k, l : ~(k = i /\ l = j) => \A p : Elsewhere(k, l, p)' <=> Elsewhere(k, l, p)
    BY <1>4, <1>6 DEF Elsewhere
  <1>9. PlacesAreTickets
    BY Places DEF LedgerInv
  <1>10. NoneLost'
    <2> SUFFICES ASSUME NEW k \in DOMAIN map, NEW r \in Running(map[k])
                 PROVE  \E p : Elsewhere(k, r.job_name, p)' /\ p.node = r.node
      BY DEF NoneLost
    <2>1. PICK p : Elsewhere(k, r.job_name, p) /\ p.node = r.node
      BY DEF LedgerInv, NoneLost
    <2>2. CASE k = i /\ r.job_name = j
      <3>1. AtPlace(i, j, p) /\ AtPlace(i, j, out)
        BY <1>7, <2>1, <2>2 DEF AtPlace
      <3>2. p = out
        BY <1>9, <3>1, OnePlace
      <3> QED
        BY <1>3, <1>7, <2>1, <2>2, <3>2
    <2>3. CASE ~(k = i /\ r.job_name = j)
      BY <1>8, <2>1, <2>3
    <2> QED
      BY <2>2, <2>3
  <1>11. Moves(i, j, out, to)
    BY <1>7, <1>8 DEF Moves, AtPlace, Queued
  <1>12. ASSUME PlacesAreTickets, PlacesAreTickets' PROVE LedgerStep
    <2>1. /\ <<i, j>> \in DOMAIN Tickets /\ Tickets[<<i, j>>] = out
          /\ Tickets' = [Tickets EXCEPT ![<<i, j>>] = to]
      BY <1>11, <1>12, TicketMoves
    <2>2. Ledger!Finish(<<i, j>>, n) \/ Ledger!GiveUp(<<i, j>>, n)
      BY <1>2, <1>3, <2>1 DEF Ledger!Finish, Ledger!GiveUp, Ledger!Move, Ledger!OutAt
    <2> QED
      BY <2>1, <2>2 DEF LedgerStep, Ledger!LedgerNext
  <1> QED
    BY <1>10, <1>12 DEF Keeps

\* run_node reports the job it has, whatever came of it.
LEMMA JobReportedKeeps ==
  ASSUME LedgerInv, NEW n \in Nodes, JobCancelled(n) \/ ReceiveFiles(n) \/ LoseJob(n)
  PROVE  Keeps
PROOF
  <1>1. phase[n] \in Busy
    BY DEF JobCancelled, ReceiveFiles, LoseJob, Busy
  <1>2. CASE JobCancelled(n) \/ ReceiveFiles(n)
    <2>1. /\ Report("FinishJob", n) /\ UNCHANGED <<map, last_identifier>>
          /\ held' = [held EXCEPT ![n] = NoTask] /\ reply' = reply
      BY <1>2 DEF JobCancelled, ReceiveFiles, poolVars
    <2> QED
      BY <1>1, <2>1, ReportKeeps
  <1>3. CASE LoseJob(n)
    <2>1. /\ Report("DeadNode", n) /\ UNCHANGED <<map, last_identifier>>
          /\ held' = [held EXCEPT ![n] = NoTask] /\ reply' = [reply EXCEPT ![n] = Idle]
      BY <1>3 DEF LoseJob, ToUninit, poolVars
    <2> QED
      BY <1>1, <2>1, ReportKeeps
  <1> QED
    BY <1>2, <1>3

\* A user who adds or kills a batch has sent a request and no more.
LEMMA UserStepStands ==
  ASSUME IInv, UserStep
  PROVE  Still
PROOF
  <1>1. /\ UNCHANGED <<map, last_identifier, reply, held>>
        /\ \E r \in Request : ~IsReport(r) /\ Send(r)
    <2>1. CASE \E b \in Batches : UserAdds(b)
      BY <2>1 DEF UserAdds, Request, IsReport, poolVars, nodeVars
    <2>2. CASE \E name \in BatchNames : UserKills(name)
      BY <2>2 DEF UserKills, Request, IsReport, poolVars, nodeVars
    <2> QED
      BY <2>1, <2>2 DEF UserStep
  <1>2. \A i, j, p : WithAt(i, j, p)' <=> WithAt(i, j, p)
    BY <1>1, SameHands
  <1>3. \A i, j, p : ReportedAt(i, j, p)' <=> ReportedAt(i, j, p)
    BY <1>1, SendReports
  <1> QED
    BY <1>1, <1>2, <1>3 DEF Still, Elsewhere

\* A request that is no report is served and no report goes with it.
LEMMA ServedReports ==
  ASSUME IInv, NEW type, type \notin {"FinishJob", "DeadNode"}, Receive(type)
  PROVE  \A i, j, p : ReportedAt(i, j, p)' <=> ReportedAt(i, j, p)
PROOF
  <1>1. Head(requests).type = type /\ Head(requests) = requests[1]
    BY ReceiveFacts DEF IInv, TypeOK
  <1>2. \A i, j : 1 \notin ReportsOn(i, j)
    BY <1>1 DEF ReportsOn, Reporting
  <1> QED
    BY <1>2, ReceiveReports

\* A kill that finds no batch changes nothing.
LEMMA HandleKillInVainStands ==
  ASSUME IInv, HandleKillInVain
  PROVE  Still
PROOF
  <1>1. Receive("CancelBatchByName") /\ UNCHANGED <<map, last_identifier, reply, held>>
    BY DEF HandleKillInVain, poolVars, nodeVars
  <1>2. \A i, j, p : WithAt(i, j, p)' <=> WithAt(i, j, p)
    BY <1>1, SameHands
  <1> QED
    BY <1>1, <1>2, ServedReports DEF Still, Elsewhere

-----------------------------------------------------------------------------
(* The job pool hands out jobs                                             *)

\* The job of the answer leaves the queue for the node that asked.
LEMMA HandOutKeeps ==
  ASSUME LedgerInv, Receive("NewJob"), UNCHANGED <<last_identifier, held>>,
         NEW n \in Nodes, NEW i \in DOMAIN map, NEW j,
         HasRemainingJobs(map[i]), j = NextJobName(map[i]),
         reply[n].kind = "Pending", reply' = [reply EXCEPT ![n] = RunJob(i, j)],
         map' = [map EXCEPT ![i] = NextJob(@, n)]
  PROVE  Keeps
PROOF
  <1>1. PICK out : out = [at |-> "out", node |-> n]
    OBVIOUS
  <1>2. /\ map[i] \in JobSet /\ ListedOnce(map[i]) /\ n \in DOMAIN reply
        /\ map'[i] = NextJob(map[i], n) /\ DOMAIN map' = DOMAIN map
        /\ \A k \in DOMAIN map \ {i} : map'[k] = map[k]
    BY DEF LedgerInv, IInv, TypeOK, JobListedOnce
  <1>3. /\ j \in Waiting(map[i]) /\ Waiting(map'[i]) = Waiting(map[i]) \ {j}
        /\ Running(map'[i]) = Running(map[i]) \cup {[job_name |-> j, node |-> n]}
    BY <1>2, NextJobFacts
  <1>4. ASSUME NEW m \in Nodes, NEW k, NEW l
        PROVE  IsWith(m, k, l)' <=> IsWith(m, k, l) \/ (m = n /\ k = i /\ l = j)
    <2>1. CASE m = n
      <3>1. reply'[m] = RunJob(i, j)
        BY <1>2, <2>1
      <3>2. reply'[m] = RunJob(k, l) <=> k = i /\ l = j
        BY <3>1 DEF RunJob
      <3>3. reply[m] # RunJob(k, l)
        BY <2>1 DEF RunJob
      <3> QED
        BY <2>1, <3>2, <3>3 DEF IsWith
    <2>2. CASE m # n
      BY <2>2 DEF LedgerInv, IInv, TypeOK, IsWith
    <2> QED
      BY <2>1, <2>2
  <1>5. \A k, l, p : WithAt(k, l, p)' <=> WithAt(k, l, p) \/ (k = i /\ l = j /\ p = out)
    BY <1>1, <1>4 DEF WithAt
  <1>6. \A k, l, p : Elsewhere(k, l, p)' <=> Elsewhere(k, l, p) \/ (k = i /\ l = j /\ p = out)
    BY <1>5, ServedReports DEF LedgerInv, Elsewhere
  <1>7. NoneLost'
    <2> SUFFICES ASSUME NEW k \in DOMAIN map', NEW r \in Running(map'[k])
                 PROVE  \E p : Elsewhere(k, r.job_name, p)' /\ p.node = r.node
      BY DEF NoneLost
    <2>1. CASE r \in Running(map[k])
      BY <1>2, <1>6, <2>1 DEF LedgerInv, NoneLost
    <2>2. CASE r \notin Running(map[k])
      <3>1. k = i /\ r = [job_name |-> j, node |-> n]
        BY <1>2, <1>3, <2>2
      <3>2. out.node = n /\ r.job_name = j /\ r.node = n
        BY <1>1, <3>1
      <3> QED
        BY <1>6, <3>1, <3>2
    <2> QED
      BY <2>1, <2>2
  <1>8. \A k, l : Queued(k, l)' <=> Queued(k, l) /\ ~(k = i /\ l = j)
    BY <1>2, <1>3 DEF Queued
  <1>9. Moves(i, j, [at |-> "queue"], out)
    <2>1. AtPlace(i, j, [at |-> "queue"])
      BY <1>3 DEF AtPlace, Queued
    <2>2. AtPlace(i, j, out)'
      BY <1>6 DEF AtPlace
    <2>3. \A k, l, p : ~(k = i /\ l = j) => (AtPlace(k, l, p)' <=> AtPlace(k, l, p))
      BY <1>6, <1>8 DEF AtPlace
    <2> QED
      BY <2>1, <2>2, <2>3 DEF Moves
  <1>10. ASSUME PlacesAreTickets, PlacesAreTickets' PROVE LedgerStep
    <2>1. /\ <<i, j>> \in DOMAIN Tickets /\ Tickets[<<i, j>>] = [at |-> "queue"]
          /\ Tickets' = [Tickets EXCEPT ![<<i, j>>] = out]
      BY <1>9, <1>10, TicketMoves
    <2>2. Ledger!HandOut(<<i, j>>, n)
      BY <1>1, <2>1 DEF Ledger!HandOut, Ledger!Move, Ledger!OutAt, Ledger!Waiting
    <2> QED
      BY <2>1, <2>2 DEF LedgerStep, Ledger!LedgerNext
  <1> QED
    BY <1>7, <1>10 DEF Keeps

\* fetch_new_task answers with a job of the queue, or moves none.
LEMMA HandleNewJobKeeps ==
  ASSUME LedgerInv, HandleNewJob
  PROVE  Keeps
PROOF
  <1>1. PICK request, n, response :
          /\ request = Head(requests) /\ n = request.node
          /\ response = FetchResponse(map, request.initialized_job, NodeCaps[n],
                                      request.build_failures)
    OBVIOUS
  <1>2. /\ Receive("NewJob") /\ map' = AfterFetch(map, response, n)
        /\ reply' = [reply EXCEPT ![n] = response]
        /\ UNCHANGED <<last_identifier, held>>
    BY <1>1 DEF HandleNewJob
  <1>3. request \in Request /\ request.type = "NewJob" /\ 1 \in Asking /\ request = requests[1]
    BY <1>1, <1>2, ReceiveFacts DEF LedgerInv, IInv, TypeOK, Asking
  <1>4. n \in Nodes /\ request.initialized_job \in Nat /\ reply[n].kind = "Pending"
    BY <1>1, <1>3, RequestFields DEF LedgerInv, BuildInv, RequestsFit, RequestFits
  <1>5. /\ response \in Response
        /\ response.kind = "Job" =>
             /\ response.ident \in DOMAIN map
             /\ HasRemainingJobs(map[response.ident])
             /\ response.job_name = NextJobName(map[response.ident])
    BY <1>1, <1>4, FetchResponseFacts DEF LedgerInv, IInv
  <1>6. CASE response.kind = "Job"
    <2>1. PICK i, j : i = response.ident /\ j = response.job_name
      OBVIOUS
    <2>2. response = RunJob(i, j)
      BY <1>5, <1>6, <2>1 DEF Response, RunJob, EmptyJobs
    <2>3. map' = [map EXCEPT ![i] = NextJob(@, n)]
      BY <1>2, <1>6, <2>1 DEF AfterFetch
    <2> QED
      BY <1>2, <1>4, <1>5, <1>6, <2>1, <2>2, <2>3, HandOutKeeps
  <1>7. CASE response.kind # "Job"
    <2>1. map' = map
      BY <1>2, <1>7 DEF AfterFetch
    <2>2. \A i, j, p : WithAt(i, j, p)' <=> WithAt(i, j, p)
      <3>1. \A m \in Nodes : /\ held'[m] = held[m]
                             /\ \/ reply'[m] = reply[m]
                                \/ reply[m].kind # "Job" /\ reply'[m].kind # "Job"
        BY <1>2, <1>4, <1>7 DEF LedgerInv, IInv, TypeOK
      <3> QED
        BY <3>1, SameHands
    <2>3. Still
      BY <1>2, <2>1, <2>2, ServedReports DEF LedgerInv, Still, Elsewhere
    <2> QED
      BY <2>3, StillKeeps DEF LedgerInv
  <1> QED
    BY <1>6, <1>7

-----------------------------------------------------------------------------
(* The job pool serves reports                                             *)

\* What a report that is served says: its job runs where it came from, is with
\* nobody else, and is nowhere once the report is gone.
LEMMA ServedReport ==
  ASSUME IInv, NEW type \in {"FinishJob", "DeadNode"}, Receive(type),
         UNCHANGED <<reply, held>>,
         NEW i, NEW j, NEW n, NEW p,
         i = Head(requests).ident, j = Head(requests).job_name, n = Head(requests).node,
         p = ReportPlace(Head(requests))
  PROVE  /\ n \in Nodes /\ i \in DOMAIN map
         /\ [job_name |-> j, node |-> n] \in Running(map[i])
         /\ p = IF type = "FinishJob" THEN Ledger!FinishedBy(n) ELSE Ledger!ReturnedBy(n)
         /\ \A k, l, q : Elsewhere(k, l, q) <=>
                           Elsewhere(k, l, q)' \/ (k = i /\ l = j /\ q = p)
         /\ \A q : ~Elsewhere(i, j, q)'
PROOF
  <1>1. /\ Head(requests) = requests[1] /\ 1 \in DOMAIN requests
        /\ Head(requests).type = type
        /\ \A k \in DOMAIN requests' :
              /\ k \in Nat /\ k + 1 \in DOMAIN requests /\ k + 1 # 1
              /\ requests'[k] = requests[k + 1]
    BY ReceiveFacts DEF IInv, TypeOK
  <1>2. \A k, l : 1 \in ReportsOn(k, l) <=> k = i /\ l = j
    BY <1>1 DEF ReportsOn, Reporting
  <1>3. /\ n \in Nodes /\ i \in DOMAIN map
        /\ [job_name |-> j, node |-> n] \in Running(map[i])
    BY <1>1, <1>2, ReportRuns
  <1>4. p = IF type = "FinishJob" THEN Ledger!FinishedBy(n) ELSE Ledger!ReturnedBy(n)
    BY <1>1 DEF ReportPlace, Ledger!FinishedBy, Ledger!ReturnedBy
  <1>5. \A k, l, q : WithAt(k, l, q)' <=> WithAt(k, l, q)
    BY SameHands
  <1>6. \A k, l, q : ReportedAt(k, l, q) <=>
                       ReportedAt(k, l, q)' \/ (k = i /\ l = j /\ q = p)
    BY <1>2, ReceiveReports
  <1>7. ASSUME NEW q PROVE ~Elsewhere(i, j, q)'
    <2>1. ~WithAt(i, j, q)'
      <3> SUFFICES ASSUME NEW m \in Nodes, IsWith(m, i, j) PROVE FALSE
        BY <1>5 DEF WithAt
      <3> QED
        BY <1>2, WithOrReported
    <2>2. ReportsOn(i, j)' = {}
      <3> SUFFICES ASSUME NEW k \in ReportsOn(i, j)' PROVE FALSE
        OBVIOUS
      <3>1. k + 1 \in ReportsOn(i, j) /\ k + 1 # 1
        BY <1>1 DEF ReportsOn, Reporting
      <3> QED
        BY <1>2, <3>1, OneReport
    <2> QED
      BY <2>1, <2>2 DEF Elsewhere, ReportedAt
  <1> QED
    BY <1>3, <1>4, <1>5, <1>6, <1>7 DEF Elsewhere

\* A job that is given back waits again.
LEMMA HandleDeadNodeKeeps ==
  ASSUME LedgerInv, HandleDeadNode
  PROVE  Keeps
PROOF
  <1>1. PICK i, j, n, p, queue :
          /\ i = Head(requests).ident /\ j = Head(requests).job_name
          /\ n = Head(requests).node /\ p = ReportPlace(Head(requests))
          /\ queue = [at |-> "queue"]
    OBVIOUS
  <1>2. /\ Receive("DeadNode") /\ map' = AddJobBack(map, i, j)
        /\ UNCHANGED <<last_identifier, reply, held>>
    BY <1>1 DEF HandleDeadNode, nodeVars
  <1>3. /\ n \in Nodes /\ i \in DOMAIN map
        /\ [job_name |-> j, node |-> n] \in Running(map[i])
        /\ p = Ledger!ReturnedBy(n)
        /\ \A k, l, q : Elsewhere(k, l, q) <=>
                          Elsewhere(k, l, q)' \/ (k = i /\ l = j /\ q = p)
    BY <1>1, <1>2, ServedReport DEF LedgerInv
  <1>4. j \in JobNames /\ map[i] \in JobSet /\ ListedOnce(map[i])
    BY <1>1, <1>2, ReportedJobRuns DEF LedgerInv
  <1>5. /\ map'[i] = AddErroredJob(map[i], j) /\ DOMAIN map' = DOMAIN map
        /\ \A k \in DOMAIN map \ {i} : map'[k] = map[k]
    BY <1>2, <1>3 DEF AddJobBack, LedgerInv, IInv, TypeOK
  <1>6. \E r \in Running(map[i]) : r.job_name = j
    BY <1>3
  <1>7. /\ Running(map'[i]) = {r \in Running(map[i]) : r.job_name # j}
        /\ Waiting(map'[i]) = Waiting(map[i]) \cup {j}
    BY <1>4, <1>5, <1>6, AddErroredFacts
  <1>8. NoneLost'
    <2> SUFFICES ASSUME NEW k \in DOMAIN map', NEW r \in Running(map'[k])
                 PROVE  \E q : Elsewhere(k, r.job_name, q)' /\ q.node = r.node
      BY DEF NoneLost
    <2>1. r \in Running(map[k]) /\ ~(k = i /\ r.job_name = j) /\ k \in DOMAIN map
      BY <1>5, <1>7
    <2> QED
      BY <1>3, <2>1 DEF LedgerInv, NoneLost
  <1>9. \A k, l : Queued(k, l)' <=> Queued(k, l) \/ (k = i /\ l = j)
    BY <1>3, <1>5, <1>7 DEF Queued
  <1>10. Moves(i, j, p, queue)
    <2>1. AtPlace(i, j, p)
      BY <1>3 DEF AtPlace
    <2>2. AtPlace(i, j, queue)'
      BY <1>1, <1>9 DEF AtPlace
    <2>3. \A k, l, q : ~(k = i /\ l = j) => (AtPlace(k, l, q)' <=> AtPlace(k, l, q))
      BY <1>3, <1>9 DEF AtPlace
    <2> QED
      BY <2>1, <2>2, <2>3 DEF Moves
  <1>11. ASSUME PlacesAreTickets, PlacesAreTickets' PROVE LedgerStep
    <2>1. /\ <<i, j>> \in DOMAIN Tickets /\ Tickets[<<i, j>>] = p
          /\ Tickets' = [Tickets EXCEPT ![<<i, j>>] = queue]
      BY <1>10, <1>11, TicketMoves
    <2>2. Ledger!Requeue(<<i, j>>, n)
      BY <1>1, <1>2, <1>3, <2>1 DEF Ledger!Requeue, Ledger!Move, Ledger!Waiting
    <2> QED
      BY <1>3, <2>1, <2>2 DEF LedgerStep, Ledger!LedgerNext
  <1> QED
    BY <1>8, <1>11 DEF Keeps

\* finish_job takes the job off its set, and the set off the map when that was
\* its last: no other job is touched.
LEMMA FinishJobFacts ==
  ASSUME IInv, NEW i \in DOMAIN map, NEW j \in JobNames,
         map' = FinishJob(map, i, j)
  PROVE  /\ \A k \in DOMAIN map' :
              /\ k \in DOMAIN map
              /\ Running(map'[k]) = IF k = i THEN {r \in Running(map[i]) : r.job_name # j}
                                             ELSE Running(map[k])
         /\ \A k, l : Queued(k, l)' <=> Queued(k, l)
PROOF
  <1>1. PICK after : after = RemoveRunningJobByName(map[i], j)
    OBVIOUS
  <1>2. map[i] \in JobSet /\ ListedOnce(map[i])
    BY DEF IInv, TypeOK, JobListedOnce
  <1>3. /\ after.remaining_jobs = map[i].remaining_jobs
        /\ Running(after) = {r \in Running(map[i]) : r.job_name # j}
    BY <1>1, <1>2, RemoveRunningFacts
  <1>4. Waiting(after) = Waiting(map[i])
    BY <1>3 DEF Waiting
  <1>5. CASE IsFinished(after)
    <2>1. map' = [k \in DOMAIN map \ {i} |-> map[k]]
      BY <1>1, <1>5 DEF FinishJob, Restrict
    <2>2. Waiting(map[i]) = {}
      BY <1>4, <1>5 DEF IsFinished, HasRemainingJobs, Waiting, Range
    <2> QED
      BY <2>1, <2>2 DEF Queued
  <1>6. CASE ~IsFinished(after)
    <2>1. map' = [map EXCEPT ![i] = after]
      BY <1>1, <1>6 DEF FinishJob
    <2>2. /\ DOMAIN map' = DOMAIN map /\ map'[i] = after
          /\ \A k \in DOMAIN map \ {i} : map'[k] = map[k]
      BY <2>1 DEF IInv, TypeOK
    <2> QED
      BY <1>3, <1>4, <2>2 DEF Queued
  <1> QED
    BY <1>5, <1>6

\* A job that is finished is gone.
LEMMA HandleFinishJobKeeps ==
  ASSUME LedgerInv, HandleFinishJob
  PROVE  Keeps
PROOF
  <1>1. PICK i, j, n, p :
          /\ i = Head(requests).ident /\ j = Head(requests).job_name
          /\ n = Head(requests).node /\ p = ReportPlace(Head(requests))
    OBVIOUS
  <1>2. /\ Receive("FinishJob") /\ map' = FinishJob(map, i, j)
        /\ UNCHANGED <<last_identifier, reply, held>>
    BY <1>1 DEF HandleFinishJob, nodeVars
  <1>3. /\ n \in Nodes /\ i \in DOMAIN map
        /\ [job_name |-> j, node |-> n] \in Running(map[i])
        /\ p = Ledger!FinishedBy(n)
        /\ \A k, l, q : Elsewhere(k, l, q) <=>
                          Elsewhere(k, l, q)' \/ (k = i /\ l = j /\ q = p)
        /\ \A q : ~Elsewhere(i, j, q)'
    BY <1>1, <1>2, ServedReport DEF LedgerInv
  <1>4. j \in JobNames
    BY <1>1, <1>2, ReportedJobRuns DEF LedgerInv
  <1>5. /\ \A k \in DOMAIN map' :
             /\ k \in DOMAIN map
             /\ Running(map'[k]) = IF k = i THEN {r \in Running(map[i]) : r.job_name # j}
                                            ELSE Running(map[k])
        /\ \A k, l : Queued(k, l)' <=> Queued(k, l)
    BY <1>2, <1>3, <1>4, FinishJobFacts DEF LedgerInv
  <1>6. NoneLost'
    <2> SUFFICES ASSUME NEW k \in DOMAIN map', NEW r \in Running(map'[k])
                 PROVE  \E q : Elsewhere(k, r.job_name, q)' /\ q.node = r.node
      BY DEF NoneLost
    <2>1. r \in Running(map[k]) /\ ~(k = i /\ r.job_name = j) /\ k \in DOMAIN map
      BY <1>5
    <2> QED
      BY <1>3, <2>1 DEF LedgerInv, NoneLost
  <1>7. ~Queued(i, j)
    <2>1. PICK r \in Running(map[i]) : r.job_name = j
      BY <1>3
    <2> QED
      BY <1>3, <2>1, RunsOnce DEF LedgerInv, Queued
  <1>8. /\ AtPlace(i, j, p)
        /\ \A q : ~AtPlace(i, j, q)'
        /\ \A k, l, q : ~(k = i /\ l = j) => (AtPlace(k, l, q)' <=> AtPlace(k, l, q))
    BY <1>3, <1>5, <1>7 DEF AtPlace
  <1>9. ASSUME PlacesAreTickets, PlacesAreTickets' PROVE LedgerStep
    <2>1. <<i, j>> \in DOMAIN Tickets /\ Tickets[<<i, j>>] = p
      BY <1>8, <1>9 DEF PlacesAreTickets
    <2>2. <<i, j>> \notin DOMAIN Tickets'
      BY <1>8, <1>9 DEF PlacesAreTickets
    <2>3. ASSUME NEW t, t # <<i, j>>
          PROVE  /\ t \in DOMAIN Tickets' <=> t \in DOMAIN Tickets
                 /\ t \in DOMAIN Tickets => Tickets'[t] = Tickets[t]
      <3>1. \A k, l, q : t = <<k, l>> => (AtPlace(k, l, q)' <=> AtPlace(k, l, q))
        BY <1>8, <2>3
      <3> QED
        BY <1>9, <3>1 DEF PlacesAreTickets
    <2>4. DOMAIN Tickets' = DOMAIN Tickets \ {<<i, j>>}
      BY <2>2, <2>3
    <2>5. Tickets' = [t \in DOMAIN Tickets' |-> Tickets'[t]]
      BY <1>9 DEF PlacesAreTickets
    <2>6. Tickets' = [t \in DOMAIN Tickets \ {<<i, j>>} |-> Tickets[t]]
      BY <2>3, <2>4, <2>5
    <2>7. Ledger!Settle(<<i, j>>, n)
      BY <1>2, <1>3, <2>1, <2>6 DEF Ledger!Settle
    <2> QED
      BY <1>3, <2>1, <2>7 DEF LedgerStep, Ledger!LedgerNext
  <1> QED
    BY <1>6, <1>9 DEF Keeps

-----------------------------------------------------------------------------
(* Batches come and are killed                                             *)

\* The jobs of a new batch wait.
LEMMA HandleAddJobSetKeeps ==
  ASSUME LedgerInv, HandleAddJobSet
  PROVE  Keeps
PROOF
  <1>1. PICK b, i, jobs : b = Head(requests).batch /\ i = last_identifier + 1 /\ jobs = Range(b.jobs)
    OBVIOUS
  <1>2. /\ Receive("AddJobSet") /\ last_identifier' = i
        /\ map' = InsertNewBatch(map, i, b) /\ UNCHANGED <<reply, held>>
    BY <1>1 DEF HandleAddJobSet, nodeVars
  <1>3. b \in Batches
    BY <1>1, <1>2, ReceiveFacts, RequestFields DEF LedgerInv, IInv, TypeOK
  <1>4. /\ Running(FromConfig(b)) = {} /\ Waiting(FromConfig(b)) = jobs
        /\ jobs \in SUBSET JobNames
    <2>1. b.jobs \in Seq(JobNames)
      BY <1>3, BatchesAssumption
    <2>2. jobs \in SUBSET JobNames
      BY <1>1, <2>1 DEF Range
    <2> QED
      BY <1>1, <1>3, <2>2, FromConfigFacts
  <1>5. /\ DOMAIN map' = DOMAIN map \cup {i} /\ map'[i] = FromConfig(b)
        /\ i \notin DOMAIN map /\ \A k \in DOMAIN map : map'[k] = map[k]
    BY <1>1, <1>2 DEF InsertNewBatch, LedgerInv, IInv, TypeOK
  <1>6. \A k, l, p : Elsewhere(k, l, p)' <=> Elsewhere(k, l, p)
    BY <1>2, SameHands, ServedReports DEF LedgerInv, Elsewhere
  <1>7. NoneLost'
    <2> SUFFICES ASSUME NEW k \in DOMAIN map', NEW r \in Running(map'[k])
                 PROVE  \E p : Elsewhere(k, r.job_name, p)' /\ p.node = r.node
      BY DEF NoneLost
    <2>1. k \in DOMAIN map /\ r \in Running(map[k])
      BY <1>4, <1>5
    <2> QED
      BY <1>6, <2>1 DEF LedgerInv, NoneLost
  <1>8. \A k, l : Queued(k, l)' <=> Queued(k, l) \/ (k = i /\ l \in jobs)
    BY <1>4, <1>5 DEF Queued
  <1>9. \A k, l, p : AtPlace(k, l, p)' <=>
                       AtPlace(k, l, p) \/ (k = i /\ l \in jobs /\ p = [at |-> "queue"])
    BY <1>6, <1>8 DEF AtPlace
  <1>10. ASSUME PlacesAreTickets, PlacesAreTickets' PROVE LedgerStep
    <2>1. ASSUME NEW t \in DOMAIN Tickets
          PROVE  t \in DOMAIN Tickets' /\ Tickets'[t] = Tickets[t]
      <3>1. PICK k, l : t = <<k, l>> /\ AtPlace(k, l, Tickets[t])
        BY <1>10, <2>1 DEF PlacesAreTickets
      <3>2. PICK p : p = Tickets[t] /\ AtPlace(k, l, p)
        BY <3>1
      <3>3. AtPlace(k, l, p)'
        BY <1>9, <3>2
      <3> QED
        BY <1>10, <3>1, <3>2, <3>3 DEF PlacesAreTickets
    <2>2. ASSUME NEW l \in jobs
          PROVE  <<i, l>> \in DOMAIN Tickets' /\ Tickets'[<<i, l>>] = [at |-> "queue"]
      <3>1. AtPlace(i, l, [at |-> "queue"])'
        BY <1>9, <2>2
      <3> QED
        BY <1>10, <3>1 DEF PlacesAreTickets
    <2>3. ASSUME NEW t \in DOMAIN Tickets', t \notin DOMAIN Tickets
          PROVE  t \in {i} \X jobs
      <3>1. PICK k, l, p : t = <<k, l>> /\ AtPlace(k, l, p)'
        BY <1>10, <2>3 DEF PlacesAreTickets
      <3>2. ~AtPlace(k, l, p)
        BY <1>10, <2>3, <3>1 DEF PlacesAreTickets
      <3> QED
        BY <1>9, <3>1, <3>2
    <2>4. DOMAIN Tickets' = DOMAIN Tickets \cup ({i} \X jobs)
      BY <2>1, <2>2, <2>3
    <2>5. \A t \in DOMAIN Tickets' :
            Tickets'[t] = IF t \in DOMAIN Tickets THEN Tickets[t] ELSE [at |-> "queue"]
      BY <2>1, <2>2, <2>3
    <2>6. Tickets' = [t \in DOMAIN Tickets' |-> Tickets'[t]]
      BY <1>10 DEF PlacesAreTickets
    <2>7. Tickets' = [t \in DOMAIN Tickets \cup ({i} \X jobs) |->
                        IF t \in DOMAIN Tickets THEN Tickets[t] ELSE [at |-> "queue"]]
      BY <2>4, <2>5, <2>6
    <2>8. Ledger!Submit(jobs)
      BY <1>1, <1>2, <2>7 DEF Ledger!Submit, Ledger!Waiting
    <2> QED
      BY <1>4, <2>8 DEF LedgerStep, Ledger!LedgerNext
  <1> QED
    BY <1>7, <1>10 DEF Keeps

\* A kill takes the jobs that wait, and no other.
LEMMA HandleKillKeeps ==
  ASSUME LedgerInv, HandleKill
  PROVE  Keeps
PROOF
  <1>1. PICK i : /\ i \in NamedSets(map, Head(requests).batch_name)
                 /\ map' = CancelBatch(map, i)
    <2>1. PICK named : named = NamedSets(map, Head(requests).batch_name)
      OBVIOUS
    <2>2. named # {} /\ map' = CancelBatch(map, Min(named))
      BY <2>1 DEF HandleKill
    <2>3. named \in SUBSET Nat
      BY <2>1 DEF NamedSets, LedgerInv, IInv, TypeOK
    <2> QED
      BY <2>1, <2>2, <2>3, MinInSet
  <1>2. Receive("CancelBatchByName") /\ UNCHANGED <<last_identifier, reply, held>>
    BY DEF HandleKill, nodeVars
  <1>3. i \in DOMAIN map /\ i \in 1..last_identifier
    BY <1>1 DEF NamedSets, LedgerInv, IInv, TypeOK
  <1>4. /\ DOMAIN map' = DOMAIN map /\ map'[i] = ClearRemainingJobs(map[i])
        /\ \A k \in DOMAIN map \ {i} : map'[k] = map[k]
    BY <1>1, <1>3 DEF CancelBatch, LedgerInv, IInv, TypeOK
  <1>5. Running(map'[i]) = Running(map[i]) /\ Waiting(map'[i]) = {}
    BY <1>3, <1>4, ClearFacts DEF LedgerInv, IInv, TypeOK, JobListedOnce
  <1>6. \A k, l, p : Elsewhere(k, l, p)' <=> Elsewhere(k, l, p)
    BY <1>2, SameHands, ServedReports DEF LedgerInv, Elsewhere
  <1>7. NoneLost'
    <2> SUFFICES ASSUME NEW k \in DOMAIN map', NEW r \in Running(map'[k])
                 PROVE  \E p : Elsewhere(k, r.job_name, p)' /\ p.node = r.node
      BY DEF NoneLost
    <2>1. k \in DOMAIN map /\ r \in Running(map[k])
      BY <1>4, <1>5
    <2> QED
      BY <1>6, <2>1 DEF LedgerInv, NoneLost
  <1>8. \A k, l : Queued(k, l)' <=> Queued(k, l) /\ k # i
    BY <1>4, <1>5 DEF Queued
  <1>9. \A k, l, p : Elsewhere(k, l, p) => p # [at |-> "queue"]
    <2> SUFFICES ASSUME NEW k, NEW l, Elsewhere(k, l, [at |-> "queue"]) PROVE FALSE
      OBVIOUS
    <2>1. \A n : [at |-> "queue"].at # [at |-> "out", node |-> n].at
      OBVIOUS
    <2>2. \A r : [at |-> "queue"].at # ReportPlace(r).at
      BY DEF ReportPlace
    <2> QED
      BY <2>1, <2>2 DEF Elsewhere, WithAt, ReportedAt
  <1>10. \A k, l, p : AtPlace(k, l, p)' <=>
                        AtPlace(k, l, p) /\ ~(k = i /\ p = [at |-> "queue"])
    BY <1>6, <1>8, <1>9 DEF AtPlace
  <1>11. ASSUME PlacesAreTickets, PlacesAreTickets' PROVE LedgerStep
    <2> DEFINE Kept == {t \in DOMAIN Tickets :
                          ~(t[1] = i /\ Tickets[t] = [at |-> "queue"])}
    <2>1. ASSUME NEW t \in Kept
          PROVE  t \in DOMAIN Tickets' /\ Tickets'[t] = Tickets[t]
      <3>1. PICK k, l : t = <<k, l>> /\ AtPlace(k, l, Tickets[t])
        BY <1>11, <2>1 DEF PlacesAreTickets
      <3>2. PICK p : p = Tickets[t] /\ AtPlace(k, l, p)
        BY <3>1
      <3>3. ~(k = i /\ p = [at |-> "queue"])
        BY <2>1, <3>1, <3>2
      <3>4. AtPlace(k, l, p)'
        BY <1>10, <3>2, <3>3
      <3> QED
        BY <1>11, <3>1, <3>2, <3>4 DEF PlacesAreTickets
    <2>2. ASSUME NEW t \in DOMAIN Tickets'
          PROVE  t \in Kept
      <3>1. PICK k, l, p : t = <<k, l>> /\ AtPlace(k, l, p)'
        BY <1>11, <2>2 DEF PlacesAreTickets
      <3>2. AtPlace(k, l, p) /\ ~(k = i /\ p = [at |-> "queue"])
        BY <1>10, <3>1
      <3>3. t \in DOMAIN Tickets /\ Tickets[t] = p
        BY <1>11, <3>1, <3>2 DEF PlacesAreTickets
      <3> QED
        BY <3>1, <3>2, <3>3
    <2>3. DOMAIN Tickets' = Kept
      BY <2>1, <2>2
    <2>4. Tickets' = [t \in DOMAIN Tickets' |-> Tickets'[t]]
      BY <1>11 DEF PlacesAreTickets
    <2>5. Tickets' = [t \in Kept |-> Tickets[t]]
      BY <2>1, <2>3, <2>4
    <2>6. Ledger!Kill(i)
      BY <1>2, <2>5 DEF Ledger!Kill, Ledger!Waiting
    <2> QED
      BY <1>3, <2>6 DEF LedgerStep, Ledger!LedgerNext
  <1> QED
    BY <1>7, <1>11 DEF Keeps

-----------------------------------------------------------------------------
(* The theorem                                                             *)

NoHandoff == "handoff" \notin Mishaps

\* There are no tickets in the beginning.
LEMMA InitLedger == Init => Ledger!LedgerInit /\ NoneLost
PROOF
  <1> SUFFICES ASSUME Init PROVE Ledger!LedgerInit /\ NoneLost
    OBVIOUS
  <1>1. last_identifier = 0 /\ DOMAIN map = {}
    BY DEF Init
  <1>2. UNION {{i} \X Listed(i) : i \in DOMAIN map} = {}
    BY <1>1
  <1>3. Tickets = << >>
    BY <1>2 DEF Tickets
  <1> QED
    BY <1>1, <1>3 DEF Ledger!LedgerInit, NoneLost

\* Every step keeps account of the jobs, unless an execute order is lost.
LEMMA NextKeeps ==
  ASSUME NoHandoff, LedgerInv, [Next]_vars
  PROVE  Keeps
PROOF
  <1>0. IInv /\ BuildInv /\ NoneLost
    BY DEF LedgerInv
  <1>1. CASE UserStep \/ HandleKillInVain
    BY <1>0, <1>1, UserStepStands, HandleKillInVainStands, StillKeeps
  <1>2. CASE HandleNewJob \/ HandleFinishJob \/ HandleDeadNode \/ HandleAddJobSet \/ HandleKill
    BY <1>2, HandleNewJobKeeps, HandleFinishJobKeeps, HandleDeadNodeKeeps,
       HandleAddJobSetKeeps, HandleKillKeeps
  <1>3. ASSUME NEW n \in Nodes, NodeStep(n) \/ LinkFails(n) PROVE Keeps
    <2>1. CASE \/ ConnectToNode(n) \/ FetchNewJob(n) \/ NoJobs(n) \/ StartBuild(n)
               \/ BuildSucceeds(n) \/ BuildFails(n) \/ SwitchBatch(n) \/ SendInputs(n)
               \/ ReadCancellation(n) \/ JobEnds(n) \/ MissKeepalive(n) \/ LoseBuild(n)
      BY <1>0, <2>1, QuietStands, StillKeeps
    <2>2. CASE StartJob(n)
      BY <1>0, <2>2, StartJobStands, StillKeeps
    <2>3. CASE JobCancelled(n) \/ ReceiveFiles(n) \/ LoseJob(n)
      BY <2>3, JobReportedKeeps
    <2>4. ~LoseHandoff(n)
      BY DEF NoHandoff, LoseHandoff, Mishap
    <2> QED
      BY <1>3, <2>1, <2>2, <2>3, <2>4 DEF NodeStep, LinkFails
  <1>4. CASE UNCHANGED vars
    <2>1. UNCHANGED <<map, last_identifier, requests, reply, held>>
      BY <1>4 DEF vars, poolVars, nodeVars
    <2>2. Still
      BY <2>1 DEF Still, Elsewhere, WithAt, IsWith, ReportedAt, ReportsOn, Reporting, ReportPlace
    <2> QED
      BY <1>0, <2>2, StillKeeps
  <1> QED
    BY <1>1, <1>2, <1>3, <1>4 DEF Next, PoolStep

\* The head node keeps the promise of JobLedger: whatever else fails, a job of
\* a batch waits, is out at one node or in one report of that node, and is
\* handed out, settled or given back as the ledger allows (job_pool.rs,
\* schedule.rs and node.rs together).
THEOREM ImplementsLedger == NoHandoff /\ Spec => KeepsLedger
PROOF
  <1>1. ASSUME NoHandoff PROVE Spec => KeepsLedger
    <2>1. Init => LedgerInv /\ Ledger!LedgerInit
      BY InitIInv, InitBuildInv, InitLedger DEF LedgerInv
    <2>2. LedgerInv /\ [Next]_vars => LedgerInv'
      BY <1>1, NextIInv, NextBuildInv, NextKeeps DEF LedgerInv, Keeps
    <2>3. LedgerInv => PlacesAreTickets
      BY Places DEF LedgerInv
    <2>4. LedgerInv /\ PlacesAreTickets /\ PlacesAreTickets' /\ [Next]_vars
            => [Ledger!LedgerNext]_<<last_identifier, Tickets>>
      BY <1>1, NextKeeps DEF Keeps, LedgerStep
    <2> QED
      BY <2>1, <2>2, <2>3, <2>4, PTL DEF Spec, KeepsLedger, Ledger!LedgerSpec
  <1> QED
    BY <1>1
=============================================================================
