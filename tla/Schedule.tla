------------------------------ MODULE Schedule ------------------------------
(***************************************************************************)
(* The scheduling policy of the head node: GpuPriority and JobSet of       *)
(* src/src/server/schedule.rs, as operators from a map of job sets to the  *)
(* map after the call.  A map is a function from the identifiers of the    *)
(* batches the server knows to their job sets; the BTreeMap of the code    *)
(* iterates in the order of the identifiers, so "the first" is the least.  *)
(* The module has no state: JobPool owns the map and applies these         *)
(* operators to it, one request at a time.                                 *)
(***************************************************************************)
EXTENDS Integers, SequencesExt

CONSTANTS
  Nodes,       \* the compute nodes of the nodes file
  Batches,     \* the batches users may submit (config::Jobs)
  BatchNames,  \* their names, which need not be distinct
  JobNames,    \* the names of their jobs
  Caps,        \* the capabilities a node may offer and a batch require
  Gpu,         \* the capability "gpu"
  NodeCaps     \* the capabilities of each node

\* The names of the jobs of a batch are distinct: `distribute add` refuses the
\* batch otherwise, before it sends it (check_has_duplicates in src/src/add.rs).
ASSUME BatchesAssumption ==
  /\ Batches \subseteq
       [batch_name : BatchNames, requirements : SUBSET Caps, jobs : Seq(JobNames)]
  /\ \A b \in Batches : IsInjective(b.jobs)

ASSUME CapsAssumption == NodeCaps \in [Nodes -> SUBSET Caps]

\* JobSetIdentifier::None; Identity(n) is the positive number n.
NoIdent == 0

-----------------------------------------------------------------------------
(* JobSet: one batch.  remaining_jobs is a stack, its top the last element. *)

RunningJob == [job_name : JobNames, node : Nodes]

JobSet ==
  [batch_name     : BatchNames,
   requirements   : SUBSET Caps,
   remaining_jobs : Seq(JobNames),
   running_jobs   : Seq(RunningJob)]

FromConfig(b) ==
  [batch_name     |-> b.batch_name,
   requirements   |-> b.requirements,
   remaining_jobs |-> b.jobs,
   running_jobs   |-> << >>]

HasRemainingJobs(set) == set.remaining_jobs # << >>

NextJobName(set) == Last(set.remaining_jobs)

\* Mutant of NextJob: the job is read but not popped.
NextJob_NotPopped(set, node) ==
  [set EXCEPT !.running_jobs =
     Append(@, [job_name |-> NextJobName(set), node |-> node])]

\* next_job on a set that has remaining jobs: the last one starts to run.
NextJob(set, node) ==
  [set EXCEPT !.remaining_jobs = Front(@),
              !.running_jobs =
                Append(@, [job_name |-> NextJobName(set), node |-> node])]

\* Mutant of RemoveRunningJobByName: the oldest running job is removed.
RemoveRunningJobByName_Oldest(set, job) ==
  [set EXCEPT !.running_jobs = IF @ = << >> THEN @ ELSE Tail(@)]

\* The first running job of that name is removed, or nothing when none has it.
RemoveRunningJobByName(set, job) ==
  [set EXCEPT !.running_jobs =
     RemoveFirstMatch(@, LAMBDA running : running.job_name = job)]

\* Mutant of AddErroredJob: the job is still listed as running.
AddErroredJob_StillRunning(set, job) ==
  [set EXCEPT !.remaining_jobs = Append(@, job)]

\* Mutant of AddErroredJob: the job is not queued again.
AddErroredJob_NotQueued(set, job) == RemoveRunningJobByName(set, job)

AddErroredJob(set, job) ==
  LET stopped == RemoveRunningJobByName(set, job)
  IN  [stopped EXCEPT !.remaining_jobs = Append(@, job)]

ClearRemainingJobs(set) == [set EXCEPT !.remaining_jobs = << >>]

IsFinished(set) == ~HasRemainingJobs(set) /\ set.running_jobs = << >>

\* Within a set a job waits once, or runs once, never both.
ListedOnce(set) ==
  LET waiting == set.remaining_jobs
      running == set.running_jobs
  IN  /\ IsInjective(waiting)
      /\ \A k, l \in DOMAIN running :
           running[k].job_name = running[l].job_name => k = l
      /\ \A k \in DOMAIN running, l \in DOMAIN waiting :
           running[k].job_name # waiting[l]

-----------------------------------------------------------------------------
(* GpuPriority: fetch_new_task                                             *)

EmptyJobs         == [kind |-> "EmptyJobs"]
JobInit(ident)    == [kind |-> "JobInit", ident |-> ident]
RunJob(ident, job) == [kind |-> "Job", ident |-> ident, job_name |-> job]

\* Mutant of Acceptable: the capabilities of the node are not looked at.
Acceptable_AnyNode(map, caps, failures) ==
  {i \in DOMAIN map : HasRemainingJobs(map[i]) /\ i \notin failures}

\* The sets a node may start to build: jobs left, capabilities that suffice,
\* and no failed build of theirs on this node.
Acceptable(map, caps, failures) ==
  {i \in DOMAIN map : /\ HasRemainingJobs(map[i])
                      /\ map[i].requirements \subseteq caps
                      /\ i \notin failures}

AcceptableGpu(map, caps, failures) ==
  {i \in Acceptable(map, caps, failures) : Gpu \in map[i].requirements}

TakeFirstJob(map, caps, failures) ==
  LET found == Acceptable(map, caps, failures)
  IN  IF found = {} THEN EmptyJobs ELSE JobInit(Min(found))

\* job_by_id finds a job of the batch the node has compiled.  The capabilities
\* are not looked at again.
HasJobById(map, ident, failures) ==
  /\ ident \notin failures
  /\ ident \in DOMAIN map
  /\ HasRemainingJobs(map[ident])

FetchResponse(map, current, caps, failures) ==
  LET gpu == AcceptableGpu(map, caps, failures)
  IN  CASE gpu # {} /\ Min(gpu) = current ->
             RunJob(current, NextJobName(map[current]))
        [] gpu # {} /\ Min(gpu) # current ->
             JobInit(Min(gpu))
        [] gpu = {} /\ HasJobById(map, current, failures) ->
             RunJob(current, NextJobName(map[current]))
        [] OTHER ->
             TakeFirstJob(map, caps, failures)

\* The map after the response: a job that is handed out is popped, an
\* initialisation file is only cloned.
AfterFetch(map, response, node) ==
  IF response.kind = "Job"
    THEN [map EXCEPT ![response.ident] = NextJob(@, node)]
    ELSE map

-----------------------------------------------------------------------------
(* GpuPriority: the other calls                                            *)

InsertNewBatch(map, ident, b) ==
  [i \in DOMAIN map \cup {ident} |-> IF i = ident THEN FromConfig(b) ELSE map[i]]

\* Nothing changes when the set is gone ("This should not happen").
AddJobBack(map, ident, job) ==
  IF ident \in DOMAIN map
    THEN [map EXCEPT ![ident] = AddErroredJob(@, job)]
    ELSE map

\* Mutant of FinishJob: running jobs do not keep the set.
FinishJob_EarlyDrop(map, ident, job) ==
  CASE ident \notin DOMAIN map -> map
    [] ident \in DOMAIN map /\ ~HasRemainingJobs(map[ident]) ->
         Restrict(map, DOMAIN map \ {ident})
    [] OTHER -> [map EXCEPT ![ident] = RemoveRunningJobByName(@, job)]

\* Mutant of FinishJob: whether the set is done is decided before the job is
\* taken off the running jobs.
FinishJob_DecidedFirst(map, ident, job) ==
  CASE ident \notin DOMAIN map -> map
    [] ident \in DOMAIN map /\ IsFinished(map[ident]) ->
         Restrict(map, DOMAIN map \ {ident})
    [] OTHER -> [map EXCEPT ![ident] = RemoveRunningJobByName(@, job)]

\* The set is dropped with its last running job, when no job is left to run.
FinishJob(map, ident, job) ==
  LET stopped == RemoveRunningJobByName(map[ident], job)
  IN  CASE ident \notin DOMAIN map -> map
        [] ident \in DOMAIN map /\ IsFinished(stopped) ->
             Restrict(map, DOMAIN map \ {ident})
        [] OTHER -> [map EXCEPT ![ident] = stopped]

\* identifier_by_name: the oldest set of that name.
NamedSets(map, name) == {i \in DOMAIN map : map[i].batch_name = name}

\* Mutant of CancelBatch: the jobs that wait are kept.
CancelBatch_KeepsJobs(map, ident) == map

\* The jobs that wait are dropped; the set and its running jobs stay.
CancelBatch(map, ident) ==
  [map EXCEPT ![ident] = ClearRemainingJobs(@)]

=============================================================================
