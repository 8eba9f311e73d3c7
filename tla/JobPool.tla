------------------------------- MODULE JobPool -------------------------------
(***************************************************************************)
(* The head node: the job pool task of src/src/server/job_pool.rs, which   *)
(* owns the schedule and serves one request at a time from a bounded mpsc  *)
(* channel; one node task per compute node (run_node in                    *)
(* src/src/server/node.rs), which walks the protocol states of             *)
(* src/src/protocol; and the user tasks that add and kill batches.         *)
(*                                                                         *)
(* A compute node and its TCP link appear as what the node task sees of    *)
(* them: an answer, or one of the mishaps named below.                     *)
(***************************************************************************)
EXTENDS Schedule

CONSTANTS
  RequestCap,    \* mpsc::channel(100): requests the job pool may have waiting
  CancelCap,     \* broadcast::channel(20): cancellations a node may lag behind
  MayFailBuild,  \* the pairs <<node, batch name>> whose build may fail
  Mishaps,       \* what may go wrong in this instance
  MaxMishaps,    \* bound on how often something goes wrong
  MaxBatches,    \* bound on the batches submitted
  MaxKills       \* bound on the kill requests

MishapKinds ==
  {"keepalive",  \* a node misses the check made before it asks for a task
   "building",   \* the link is lost between the build order and its result
   "handoff",    \* the link is lost while the execute order is written
   "inputs",     \* the link is lost while the input files are sent
   "executing",  \* the link or the keepalive check is lost during the job
   "results",    \* the link is lost while the results are received
   "refused",    \* the cancel port of the node refuses the connection
   "bind",       \* the node cannot listen on its cancel port and gives up
   "late"}       \* the job ends while its cancellation is delivered

ASSUME PoolAssumption ==
  /\ RequestCap \in Nat \ {0} /\ CancelCap \in Nat \ {0}
  /\ MaxBatches \in Nat /\ MaxKills \in Nat /\ MaxMishaps \in Nat
  /\ Mishaps \subseteq MishapKinds
  /\ MayFailBuild \subseteq Nodes \X BatchNames

VARIABLES
  (* the job pool task *)
  map,              \* identifier -> JobSet (GpuPriority.map)
  last_identifier,  \* the identifier of the newest batch
  requests,         \* the mpsc channel to the job pool
  (* the node tasks *)
  phase,            \* the protocol state of each node task
  reply,            \* the oneshot channel of fetch_new_job
  compiled,         \* job_identifier: the batch the node is building or has built
  held,             \* the RunTaskInfo of the job it is responsible for
  errored_jobs,     \* Common.errored_jobs: the batches it failed to build
  cancellations,    \* Common.receive_cancellation: broadcasts not yet read
  cancelled,        \* the flag of wait_job_execution
  (* bookkeeping of the model *)
  killed,           \* the batches a kill request has reached
  kills,            \* the kill requests made
  mishaps           \* the mishaps so far

poolVars  == <<map, last_identifier, killed>>
nodeVars  == <<phase, reply, compiled, held, errored_jobs, cancelled>>
boundVars == <<kills, mishaps>>
vars == <<poolVars, nodeVars, boundVars, requests, cancellations>>

-----------------------------------------------------------------------------
(* Types                                                                   *)

Idle    == [kind |-> "Idle"]      \* the node task has asked nothing
Pending == [kind |-> "Pending"]   \* it awaits the answer

Response ==
  {EmptyJobs} \cup [kind : {"JobInit"}, ident : Nat]
              \cup [kind : {"Job"}, ident : Nat \ {NoIdent}, job_name : JobNames]

Task   == [ident : Nat \ {NoIdent}, job_name : JobNames]
NoTask == [ident |-> NoIdent]

Phases == {"uninit", "prepare_build", "building", "built",
           "send_inputs", "executing", "receive_files"}

Request ==
       [type : {"NewJob"}, node : Nodes, initialized_job : Nat,
        build_failures : SUBSET Nat]
  \cup [type : {"FinishJob", "DeadNode"}, node : Nodes, ident : Nat \ {NoIdent},
        job_name : JobNames]
  \cup [type : {"AddJobSet"}, batch : Batches]
  \cup [type : {"CancelBatchByName"}, batch_name : BatchNames]

\* Every variable has its type, and the map holds job sets under identifiers
\* that were given out (GpuPriority.map and last_identifier).
TypeOK ==
  /\ last_identifier \in Nat
  /\ DOMAIN map \subseteq 1..last_identifier
  /\ map \in [DOMAIN map -> JobSet]
  /\ requests \in Seq(Request) /\ Len(requests) <= RequestCap
  /\ phase \in [Nodes -> Phases]
  /\ reply \in [Nodes -> Response \cup {Idle, Pending}]
  /\ compiled \in [Nodes -> Nat]
  /\ held \in [Nodes -> Task \cup {NoTask}]
  /\ errored_jobs \in [Nodes -> SUBSET Nat]
  /\ cancellations \in [Nodes -> Seq(Nat)]
  /\ cancelled \in [Nodes -> BOOLEAN]
  /\ killed \subseteq 1..last_identifier
  /\ kills \in Nat /\ mishaps \in Nat

Init ==
  /\ map = << >> /\ last_identifier = 0 /\ requests = << >>
  /\ phase = [n \in Nodes |-> "uninit"]
  /\ reply = [n \in Nodes |-> Idle]
  /\ compiled = [n \in Nodes |-> NoIdent]
  /\ held = [n \in Nodes |-> NoTask]
  /\ errored_jobs = [n \in Nodes |-> {}]
  /\ cancellations = [n \in Nodes |-> << >>]
  /\ cancelled = [n \in Nodes |-> FALSE]
  /\ killed = {} /\ kills = 0 /\ mishaps = 0

-----------------------------------------------------------------------------
(* Sending a request waits for room in the channel.                        *)

\* Mutant of Send: the channel is unbounded.
Send_Unbounded(request) == requests' = Append(requests, request)

Send(request) ==
  /\ Len(requests) < RequestCap
  /\ requests' = Append(requests, request)

(* User tasks *)

Submissions ==
  last_identifier + Len(SelectSeq(requests, LAMBDA r : r.type = "AddJobSet"))

UserAdds(b) ==
  /\ Submissions < MaxBatches
  /\ Send([type |-> "AddJobSet", batch |-> b])
  /\ UNCHANGED <<poolVars, nodeVars, boundVars, cancellations>>

UserKills(name) ==
  /\ kills < MaxKills
  /\ kills' = kills + 1
  /\ Send([type |-> "CancelBatchByName", batch_name |-> name])
  /\ UNCHANGED <<poolVars, nodeVars, cancellations, mishaps>>

-----------------------------------------------------------------------------
(* The job pool task: one action per request it serves.                    *)

Receive(type) ==
  /\ requests # << >>
  /\ Head(requests).type = type
  /\ requests' = Tail(requests)

HandleNewJob ==
  /\ Receive("NewJob")
  /\ LET request  == Head(requests)
         response == FetchResponse(map, request.initialized_job,
                                   NodeCaps[request.node], request.build_failures)
     IN  /\ map' = AfterFetch(map, response, request.node)
         /\ reply' = [reply EXCEPT ![request.node] = response]
  /\ UNCHANGED <<last_identifier, killed, phase, compiled, held, errored_jobs,
                 cancelled, cancellations, boundVars>>

HandleFinishJob ==
  /\ Receive("FinishJob")
  /\ map' = FinishJob(map, Head(requests).ident, Head(requests).job_name)
  /\ UNCHANGED <<last_identifier, killed, nodeVars, cancellations, boundVars>>

HandleDeadNode ==
  /\ Receive("DeadNode")
  /\ map' = AddJobBack(map, Head(requests).ident, Head(requests).job_name)
  /\ UNCHANGED <<last_identifier, killed, nodeVars, cancellations, boundVars>>

HandleAddJobSet ==
  /\ Receive("AddJobSet")
  /\ last_identifier' = last_identifier + 1
  /\ map' = InsertNewBatch(map, last_identifier', Head(requests).batch)
  /\ UNCHANGED <<killed, nodeVars, cancellations, boundVars>>

\* A receiver that lags by more than the channel holds loses the oldest ones.
Broadcast(queue, ident) ==
  IF Len(queue) < CancelCap
    THEN Append(queue, ident)
    ELSE Append(Tail(queue), ident)

\* CancelBatchByName, when the name is known and there is a node to tell.
HandleKill ==
  /\ Receive("CancelBatchByName")
  /\ LET named == NamedSets(map, Head(requests).batch_name)
     IN  /\ named # {} /\ Nodes # {}
         /\ cancellations' =
              [n \in Nodes |-> Broadcast(cancellations[n], Min(named))]
         /\ map' = CancelBatch(map, Min(named))
         /\ killed' = killed \cup {Min(named)}
  /\ UNCHANGED <<last_identifier, nodeVars, boundVars>>

\* ... and otherwise: BatchNameMissing or NoBroadcastNodes is all that happens.
HandleKillInVain ==
  /\ Receive("CancelBatchByName")
  /\ NamedSets(map, Head(requests).batch_name) = {} \/ Nodes = {}
  /\ UNCHANGED <<poolVars, nodeVars, cancellations, boundVars>>

-----------------------------------------------------------------------------
(* The node tasks                                                          *)

\* The node task returns to the uninitialised state and forgets what it built.
ToUninit(n) ==
  /\ phase' = [phase EXCEPT ![n] = "uninit"]
  /\ compiled' = [compiled EXCEPT ![n] = NoIdent]
  /\ held' = [held EXCEPT ![n] = NoTask]
  /\ reply' = [reply EXCEPT ![n] = Idle]
  /\ cancelled' = [cancelled EXCEPT ![n] = FALSE]
  /\ UNCHANGED errored_jobs

Mishap(kind) ==
  /\ kind \in Mishaps
  /\ mishaps < MaxMishaps
  /\ mishaps' = mishaps + 1

\* The connection is made and the versions agree.
ConnectToNode(n) ==
  /\ phase[n] = "uninit"
  /\ phase' = [phase EXCEPT ![n] = "prepare_build"]
  /\ UNCHANGED <<poolVars, reply, compiled, held, errored_jobs, cancelled,
                 requests, cancellations, boundVars>>

\* fetch_new_job: the keepalive check passes and the request is sent.
FetchNewJob(n) ==
  /\ phase[n] \in {"prepare_build", "built"}
  /\ reply[n] = Idle
  /\ Send([type |-> "NewJob", node |-> n, initialized_job |-> compiled[n],
           build_failures |-> errored_jobs[n]])
  /\ reply' = [reply EXCEPT ![n] = Pending]
  /\ UNCHANGED <<poolVars, phase, compiled, held, errored_jobs, cancelled,
                 cancellations, boundVars>>

MissKeepalive(n) ==
  /\ phase[n] \in {"prepare_build", "built"}
  /\ reply[n] = Idle
  /\ Mishap("keepalive")
  /\ ToUninit(n)
  /\ UNCHANGED <<poolVars, requests, cancellations, kills>>

\* EmptyJobs: sleep, then ask again.
NoJobs(n) ==
  /\ reply[n] = EmptyJobs
  /\ reply' = [reply EXCEPT ![n] = Idle]
  /\ UNCHANGED <<poolVars, phase, compiled, held, errored_jobs, cancelled,
                 requests, cancellations, boundVars>>

\* PrepareBuild: order the node to build, and send it the files to build from.
StartBuild(n) ==
  /\ phase[n] = "prepare_build"
  /\ reply[n].kind = "JobInit"
  /\ phase' = [phase EXCEPT ![n] = "building"]
  /\ compiled' = [compiled EXCEPT ![n] = reply[n].ident]
  /\ reply' = [reply EXCEPT ![n] = Idle]
  /\ UNCHANGED <<poolVars, held, errored_jobs, cancelled, requests,
                 cancellations, boundVars>>

BuildSucceeds(n) ==
  /\ phase[n] = "building"
  /\ phase' = [phase EXCEPT ![n] = "built"]
  /\ UNCHANGED <<poolVars, reply, compiled, held, errored_jobs, cancelled,
                 requests, cancellations, boundVars>>

\* The set may have left the map by now, its jobs done by other nodes.
BuildFails(n) ==
  /\ phase[n] = "building"
  /\ compiled[n] \in DOMAIN map =>
       <<n, map[compiled[n]].batch_name>> \in MayFailBuild
  /\ errored_jobs' = [errored_jobs EXCEPT ![n] = @ \cup {compiled[n]}]
  /\ phase' = [phase EXCEPT ![n] = "prepare_build"]
  /\ compiled' = [compiled EXCEPT ![n] = NoIdent]
  /\ UNCHANGED <<poolVars, reply, held, cancelled, requests, cancellations,
                 boundVars>>

\* Mutant of SwitchBatch: the identifier of the old batch is kept.
SwitchBatch_KeepsIdent(n) ==
  /\ phase[n] = "built"
  /\ reply[n].kind = "JobInit"
  /\ phase' = [phase EXCEPT ![n] = "prepare_build"]
  /\ reply' = [reply EXCEPT ![n] = Idle]
  /\ UNCHANGED <<poolVars, compiled, held, errored_jobs, cancelled, requests,
                 cancellations, boundVars>>

\* Built: another batch comes first, so the node is told to prepare to build.
\* The initialisation just received is dropped; it is asked for again.
SwitchBatch(n) ==
  /\ phase[n] = "built"
  /\ reply[n].kind = "JobInit"
  /\ phase' = [phase EXCEPT ![n] = "prepare_build"]
  /\ compiled' = [compiled EXCEPT ![n] = NoIdent]
  /\ reply' = [reply EXCEPT ![n] = Idle]
  /\ UNCHANGED <<poolVars, held, errored_jobs, cancelled, requests,
                 cancellations, boundVars>>

\* The link fails while a build is ordered or under way: no job is affected.
LoseBuild(n) ==
  /\ phase[n] = "building" \/ reply[n].kind = "JobInit"
  /\ Mishap("building")
  /\ ToUninit(n)
  /\ UNCHANGED <<poolVars, requests, cancellations, kills>>

\* Built: a job of the batch that is built; the execute order is written.
StartJob(n) ==
  /\ phase[n] = "built"
  /\ reply[n].kind = "Job"
  /\ held' = [held EXCEPT ![n] =
                [ident |-> reply[n].ident, job_name |-> reply[n].job_name]]
  /\ phase' = [phase EXCEPT ![n] = "send_inputs"]
  /\ reply' = [reply EXCEPT ![n] = Idle]
  /\ UNCHANGED <<poolVars, compiled, errored_jobs, cancelled, requests,
                 cancellations, boundVars>>

\* The execute order cannot be written.  run_all_jobs returns the error of
\* send_job_execution_instructions and the job with it: no DeadNode is sent.
LoseHandoff(n) ==
  /\ phase[n] = "built"
  /\ reply[n].kind = "Job"
  /\ Mishap("handoff")
  /\ ToUninit(n)
  /\ UNCHANGED <<poolVars, requests, cancellations, kills>>

SendInputs(n) ==
  /\ phase[n] = "send_inputs"
  /\ phase' = [phase EXCEPT ![n] = "executing"]
  /\ UNCHANGED <<poolVars, reply, compiled, held, errored_jobs, cancelled,
                 requests, cancellations, boundVars>>

\* check_broadcast_for_matching_token, which runs only while a job executes:
\* the oldest cancellation is read.  If it is for this batch the node's cancel
\* port is contacted; the cancellation is used up whether the node answers.
ReadCancellation(n) ==
  /\ phase[n] = "executing"
  /\ cancellations[n] # << >>
  /\ cancellations' = [cancellations EXCEPT ![n] = Tail(@)]
  /\ LET matches == Head(cancellations[n]) = held[n].ident
     IN  \/ /\ cancelled' = [cancelled EXCEPT ![n] = @ \/ matches]
            /\ UNCHANGED mishaps
         \/ /\ matches
            /\ Mishap("refused")
            /\ UNCHANGED cancelled
  /\ UNCHANGED <<poolVars, phase, reply, compiled, held, errored_jobs,
                 requests, kills>>

Report(type, n) ==
  Send([type |-> type, node |-> n, ident |-> held[n].ident,
        job_name |-> held[n].job_name])

\* Mutant of JobCancelled: the scheduler is not told.
JobCancelled_Silent(n) ==
  /\ phase[n] = "executing"
  /\ \/ cancelled[n] /\ UNCHANGED mishaps
     \/ ~cancelled[n] /\ Mishap("bind")
  /\ phase' = [phase EXCEPT ![n] = "prepare_build"]
  /\ compiled' = [compiled EXCEPT ![n] = NoIdent]
  /\ held' = [held EXCEPT ![n] = NoTask]
  /\ cancelled' = [cancelled EXCEPT ![n] = FALSE]
  /\ UNCHANGED <<poolVars, requests, reply, errored_jobs, cancellations, kills>>

\* The node reports the job as cancelled: it is finished as far as the
\* scheduler is concerned, and the node forgets the batch.
JobCancelled(n) ==
  /\ phase[n] = "executing"
  /\ \/ cancelled[n] /\ UNCHANGED mishaps
     \/ ~cancelled[n] /\ Mishap("bind")
  /\ Report("FinishJob", n)
  /\ phase' = [phase EXCEPT ![n] = "prepare_build"]
  /\ compiled' = [compiled EXCEPT ![n] = NoIdent]
  /\ held' = [held EXCEPT ![n] = NoTask]
  /\ cancelled' = [cancelled EXCEPT ![n] = FALSE]
  /\ UNCHANGED <<poolVars, reply, errored_jobs, cancellations, kills>>

\* The node reports the end of the job, successful or not.  When the flag is
\* set the node is told to treat the job as cancelled, but the node task goes
\* on to the results all the same.
JobEnds(n) ==
  /\ phase[n] = "executing"
  /\ \/ ~cancelled[n] /\ UNCHANGED mishaps
     \/ cancelled[n] /\ Mishap("late")
  /\ phase' = [phase EXCEPT ![n] = "receive_files"]
  /\ UNCHANGED <<poolVars, reply, compiled, held, errored_jobs, cancelled,
                 requests, cancellations, kills>>

\* The results arrive, unless the node was told that the job was cancelled.
ReceiveFiles(n) ==
  /\ phase[n] = "receive_files"
  /\ ~cancelled[n]
  /\ Report("FinishJob", n)
  /\ phase' = [phase EXCEPT ![n] = "built"]
  /\ held' = [held EXCEPT ![n] = NoTask]
  /\ UNCHANGED <<poolVars, reply, compiled, errored_jobs, cancelled,
                 cancellations, boundVars>>

\* Mutant of LoseJob: the scheduler is not told.
LoseJob_Silent(n) ==
  /\ \/ phase[n] = "send_inputs" /\ Mishap("inputs")
     \/ phase[n] = "executing" /\ Mishap("executing")
     \/ phase[n] = "receive_files" /\ Mishap("results")
  /\ ToUninit(n)
  /\ UNCHANGED <<poolVars, requests, cancellations, kills>>

\* The link or the node fails while the job is its own: DeadNode returns it.
LoseJob(n) ==
  /\ \/ phase[n] = "send_inputs" /\ Mishap("inputs")
     \/ phase[n] = "executing" /\ Mishap("executing")
     \/ phase[n] = "receive_files" /\ Mishap("results")
  /\ Report("DeadNode", n)
  /\ ToUninit(n)
  /\ UNCHANGED <<poolVars, cancellations, kills>>

-----------------------------------------------------------------------------
UserStep ==
  \/ \E b \in Batches : UserAdds(b)
  \/ \E name \in BatchNames : UserKills(name)

PoolStep ==
  \/ HandleNewJob
  \/ HandleFinishJob
  \/ HandleDeadNode
  \/ HandleAddJobSet
  \/ HandleKill
  \/ HandleKillInVain

\* The steps a node task takes with the answers of a node that works.
NodeStep(n) ==
  \/ ConnectToNode(n)
  \/ FetchNewJob(n)
  \/ NoJobs(n)
  \/ StartBuild(n)
  \/ BuildSucceeds(n)
  \/ BuildFails(n)
  \/ SwitchBatch(n)
  \/ StartJob(n)
  \/ SendInputs(n)
  \/ ReadCancellation(n)
  \/ JobCancelled(n)
  \/ JobEnds(n)
  \/ ReceiveFiles(n)

LinkFails(n) ==
  \/ MissKeepalive(n)
  \/ LoseBuild(n)
  \/ LoseHandoff(n)
  \/ LoseJob(n)

Next ==
  \/ UserStep
  \/ PoolStep
  \/ \E n \in Nodes : NodeStep(n) \/ LinkFails(n)

Spec == Init /\ [][Next]_vars

(* The runtime polls every task that is ready, the channels are FIFO, and a  *)
(* node that works answers: builds and jobs end.  Nothing obliges a mishap,  *)
(* a user or, where both outcomes are open, a failed build.                  *)
Fairness ==
  /\ WF_vars(PoolStep)
  /\ \A n \in Nodes : WF_vars(NodeStep(n))

FairSpec == Spec /\ Fairness

-----------------------------------------------------------------------------
(* Who will still account for a job that was handed out: a node task whose  *)
(* answer holds the job, the node task that is responsible for it, a report *)
(* on its way back to the job pool.                                         *)

Answered  == {n \in Nodes : reply[n].kind = "Job"}
Holding   == {n \in Nodes : held[n].ident # NoIdent}
Reporting == {k \in DOMAIN requests : requests[k].type \in {"FinishJob", "DeadNode"}}

SameJob(x, y) == x.ident = y.ident /\ x.job_name = y.job_name

\* The schedule knows the job x as one that runs at node n.
RunsAt(x, n) ==
  /\ x.ident \in DOMAIN map
  /\ [job_name |-> x.job_name, node |-> n] \in Range(map[x.ident].running_jobs)

\* Whatever fails and is retried, a job is never with two nodes, nor with a
\* node while a report on it is still in the channel.
JobHeldOnce ==
  /\ \A m, n \in Answered : SameJob(reply[m], reply[n]) => m = n
  /\ \A m, n \in Holding : SameJob(held[m], held[n]) => m = n
  /\ \A k, l \in Reporting : SameJob(requests[k], requests[l]) => k = l
  /\ \A m \in Answered, n \in Holding : ~SameJob(reply[m], held[n])
  /\ \A n \in Answered, k \in Reporting : ~SameJob(reply[n], requests[k])
  /\ \A n \in Holding, k \in Reporting : ~SameJob(held[n], requests[k])

\* Every job that someone accounts for is known to the schedule: its set is in
\* the map and lists it as running at that node.  This is what makes the
\* branches of add_job_back and finish_job marked "This should not happen"
\* unreachable, and keeps one node's report from touching another node's job.
AccountedJobsRun ==
  /\ \A n \in Answered : RunsAt(reply[n], n)
  /\ \A n \in Holding : RunsAt(held[n], n)
  /\ \A k \in Reporting : RunsAt(requests[k], requests[k].node)

\* From the execute order to the report the node task keeps the job.
BusyHolds ==
  \A n \in Nodes :
    phase[n] \in {"send_inputs", "executing", "receive_files"} => n \in Holding

\* Within a set a job waits once, or runs once, never both.
JobListedOnce == \A i \in DOMAIN map : ListedOnce(map[i])

\* The answers over which the node tasks panic never come: a job for a node
\* that has built nothing (send_job), and the initialisation of the batch the
\* node has already built (send_job_execution_instructions).
AnswersExpected ==
  \A n \in Nodes :
    /\ reply[n].kind = "Job" =>
         phase[n] = "built" /\ reply[n].ident = compiled[n]
    /\ reply[n].kind = "JobInit" =>
         phase[n] \in {"prepare_build", "built"} /\ reply[n].ident # compiled[n]

\* A node runs only jobs of the batch it has built, whose requirements it
\* meets and whose build has not failed there - although job_by_id does not
\* look at the capabilities, and errored_jobs outlives the connection.
RunsWhatItBuilt ==
  \A n \in Nodes :
    n \in Holding =>
      /\ held[n].ident = compiled[n]
      /\ held[n].ident \notin errored_jobs[n]
      /\ map[held[n].ident].requirements \subseteq NodeCaps[n]

\* A set with nothing waiting and nothing running lingers in the map only when
\* a kill emptied it: no order of reports leaves one behind.
OnlyKilledSetsLinger ==
  \A i \in DOMAIN map : IsFinished(map[i]) => i \in killed

\* While nothing goes wrong, the kill of a batch reaches every node that has
\* one of its jobs: the flag is set, or the cancellation is still to be read.
KillReachesJobs ==
  \A n \in Nodes :
    /\ phase[n] \in {"send_inputs", "executing"}
    /\ held[n].ident \in killed
    => cancelled[n] \/ held[n].ident \in Range(cancellations[n])

IsRunning(i, j) ==
  /\ i \in DOMAIN map
  /\ \E k \in DOMAIN map[i].running_jobs : map[i].running_jobs[k].job_name = j

\* A batch that is not killed leaves the map, as finish_job drops it with its
\* last job, whichever nodes fail to build it, die or are given other batches:
\* where some node can build it and the mishaps end.
BatchesComplete ==
  \A i \in 1..MaxBatches :
    i \in DOMAIN map ~> i \notin DOMAIN map \/ i \in killed

\* A job that was handed out comes back to the schedule, finished or returned:
\* "if a compute node goes down while executing a job, the job will be
\* rescheduled" (docs/src/introduction.md).
RunningJobsSettle ==
  \A i \in 1..MaxBatches, j \in JobNames :
    IsRunning(i, j) ~> ~IsRunning(i, j)

\* After a kill the jobs of the batch that were running come to an end, those
\* that were returned in the meantime and ran again included.
KilledJobsEnd ==
  \A i \in 1..MaxBatches :
    i \in killed ~> i \notin DOMAIN map \/ IsFinished(map[i])

-----------------------------------------------------------------------------
(* The ledger of the job pool.                                             *)

ReportsOn(i, job) ==
  {k \in Reporting : requests[k].ident = i /\ requests[k].job_name = job}

IsWith(n, i, job) ==
  \/ reply[n] = RunJob(i, job)
  \/ held[n] = [ident |-> i, job_name |-> job]

\* Where a report in the channel puts its job.
ReportPlace(report) ==
  [at   |-> IF report.type = "FinishJob" THEN "finished" ELSE "returned",
   node |-> report.node]

\* A running job nobody will account for is in a place the ledger does not know.
PlaceOf(i, running) ==
  LET reports == ReportsOn(i, running.job_name)
  IN  CASE reports # {} -> ReportPlace(requests[Min(reports)])
        [] reports = {} /\ IsWith(running.node, i, running.job_name) ->
             [at |-> "out", node |-> running.node]
        [] OTHER -> [at |-> "lost"]

Listed(i) == Range(map[i].remaining_jobs)
               \cup {r.job_name : r \in Range(map[i].running_jobs)}

Tickets ==
  [t \in UNION {{i} \X Listed(i) : i \in DOMAIN map} |->
     IF t[2] \in Range(map[t[1]].remaining_jobs)
       THEN [at |-> "queue"]
       ELSE PlaceOf(t[1], CHOOSE r \in Range(map[t[1]].running_jobs) :
                            r.job_name = t[2])]

Ledger == INSTANCE JobLedger WITH newest <- last_identifier, tickets <- Tickets

\* The job pool keeps the promise of the ledger.
KeepsLedger == Ledger!LedgerSpec

-----------------------------------------------------------------------------
(* The node tasks.                                                         *)

NodeTaskOf(n) == INSTANCE NodeTask WITH
  phase <- phase[n], compiled <- compiled[n], held <- held[n]

\* Each node task moves as NodeTask allows: jobs are taken in Built only, of
\* the batch that is built, and every way out of a job is one NodeLink's
\* server has.
KeepsNodeTasks ==
  /\ \A n \in Nodes : NodeTaskOf(n)!TaskInit
  /\ [][\A n \in Nodes :
          [NodeTaskOf(n)!TaskNext]_<<phase[n], compiled[n], held[n]>>]_vars
=============================================================================
