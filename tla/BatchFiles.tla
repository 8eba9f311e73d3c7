----------------------------- MODULE BatchFiles -----------------------------
(***************************************************************************)
(* The files of a batch, from the configuration of the user to the nodes.  *)
(* All batches share one folder of the head node, in which a file has a    *)
(* name computed from a digest of its batch, its job and its contents.     *)
(* Nobody keeps a record of who owns a file there: users store files,      *)
(* node tasks read them and the schedule deletes them by these names alone *)
(* (config/hashing.rs, python.rs, apptainer.rs, common.rs, schedule.rs).   *)
(*                                                                         *)
(* Names and contents are sequences of letters, because the digest is      *)
(* taken of their concatenation.  The digest itself is taken as injective. *)
(***************************************************************************)
EXTENDS Naturals, Sequences, SequencesExt

CONSTANTS
  Configs,     \* the batches users submit, in the order of their submission
  Nodes,       \* the node tasks
  Mishaps,     \* what may go wrong in this instance
  MaxMishaps   \* bound on how often something goes wrong

MishapKinds ==
  {"interrupt",  \* the connection of a user breaks during a submission
   "save",       \* a file cannot be created on the head node, or not be written
                 \* to its end
   "node",       \* a node fails
   "kill"}       \* a user kills a batch

ASSUME FilesAssumption == Mishaps \subseteq MishapKinds /\ MaxMishaps \in Nat

\* A text is a sequence of letters, and a file its path, alias and contents.
Text == Seq(STRING)
FileType == [name : Text, alias : Text, bytes : Text]
PythonJobType == [name : Text, file : FileType, required : Seq(FileType)]
ApptainerJobType == [name : Text, required : Seq(FileType)]
ConfigType(python, Job) ==
  [batch_name : Text, namespace : Text, python : {python},
   build : FileType, required : Seq(FileType), jobs : Seq(Job)]

ASSUME ConfigsAssumption ==
  Configs \in Seq(ConfigType(TRUE, PythonJobType) \cup ConfigType(FALSE, ApptainerJobType))

Batches == DOMAIN Configs
JobsOf(b) == DOMAIN Configs[b].jobs

VARIABLES
  disk,       \* the shared folder: what is stored under which path
  phase,      \* how far each batch is
  stored,     \* how many files of a batch the head node has received
  unsaved,    \* paths at which the last file that came could not be saved
  remaining, running,  \* the jobs of each batch that is queued
  errored,    \* errored_jobs of each node task
  task,       \* what each node task does, for which batch and job
  sent,       \* how many files of its transfer it has been through
  received,   \* what the node has received in this transfer
  build,      \* what it received for the batch it has built
  shared,     \* history: the batches that were under way together with another
              \* one of their name
  mishaps

batchVars == <<phase, stored, unsaved, shared>>
nodeVars == <<errored, task, sent, received, build>>
vars == <<disk, batchVars, remaining, running, nodeVars, mishaps>>

-----------------------------------------------------------------------------
(* The names of files                                                      *)

\* A file of a configuration: the last part of its path, its alias or <<>>,
\* and its bytes.
Filename(file) == IF file.alias # <<>> THEN file.alias ELSE file.name

\* Mutant: the namespace is not part of the digest.
FilenameHash_NoNamespace(config, job_name, files) ==
  config.batch_name \o job_name
    \o FlattenSeq([i \in DOMAIN files |-> files[i].name \o files[i].bytes])

\* filename_hash: what the digest is taken of.  The build file, the .sif and
\* the file of a python job are not among the files.
FilenameHash(config, job_name, files) ==
  config.batch_name \o config.namespace \o job_name
    \o FlattenSeq([i \in DOMAIN files |-> files[i].name \o files[i].bytes])

InitializeHash(config) == FilenameHash(config, <<"initialize">>, config.required)
JobHash(config, job) == FilenameHash(config, job.name, job.required)

\* A HashedFile, with the bytes that as_sendable_user reads from the user's disk.
HashedFile(form, hash, index, file) ==
  [hashed_path |-> [form |-> form, hash |-> hash, index |-> index],
   original_filename |-> Filename(file), bytes |-> file.bytes]

RequiredFiles(hash, index, files) ==
  [i \in DOMAIN files |-> HashedFile("", hash, index \o <<i>>, files[i])]

PythonInitialize(config) ==
  <<HashedFile("setup_python", InitializeHash(config), <<>>, config.build)>>
    \o RequiredFiles(InitializeHash(config), <<>>, config.required)

ApptainerInitialize(config) ==
  <<HashedFile("setup_sif", InitializeHash(config), <<>>, config.build)>>
    \o RequiredFiles(InitializeHash(config), <<>>, config.required)

\* A python job has a file to run besides its required files.
PythonJob(config, j) ==
  LET job == config.jobs[j] IN
  <<HashedFile("python_run", JobHash(config, job), <<>>, job.file)>>
    \o RequiredFiles(JobHash(config, job), <<j>>, job.required)

ApptainerJob(config, j) ==
  RequiredFiles(JobHash(config, config.jobs[j]), <<j>>, config.jobs[j].required)

\* Jobs::hashed: the files of each job, and those of the initialization as job 0.
HashedConfigs ==
  [b \in Batches |->
     [j \in {0} \cup JobsOf(b) |->
        IF Configs[b].python
        THEN IF j = 0 THEN PythonInitialize(Configs[b]) ELSE PythonJob(Configs[b], j)
        ELSE IF j = 0 THEN ApptainerInitialize(Configs[b]) ELSE ApptainerJob(Configs[b], j)]]

FilesOf(b, j) == HashedConfigs[b][j]

\* Description::sendable_files: all of the batch in the order of the sending.
SendableFiles ==
  [b \in Batches |-> FilesOf(b, 0) \o FlattenSeq([j \in JobsOf(b) |-> FilesOf(b, j)])]

Paths(files) == {f.hashed_path : f \in ToSet(files)}

\* delete_files: the files in their order, until one is not there.
Deleted(files) ==
  {files[i].hashed_path : i \in {i \in DOMAIN files :
     \A k \in 1..i : files[k].hashed_path \in DOMAIN disk}}

Erase(paths) == disk' = [p \in DOMAIN disk \ paths |-> disk[p]]

\* A folder with one more file, which replaces what was there under its name.
Put(folder, name, content) ==
  [n \in DOMAIN folder \cup {name} |-> IF n = name THEN content ELSE folder[n]]

-----------------------------------------------------------------------------
Idle == [place |-> "idle", batch |-> 0, job |-> 0]

Init ==
  /\ disk = <<>>
  /\ phase = [b \in Batches |-> "new"]
  /\ stored = [b \in Batches |-> 0] /\ unsaved = {}
  /\ remaining = [b \in Batches |-> <<>>] /\ running = [b \in Batches |-> {}]
  /\ errored = [n \in Nodes |-> {}]
  /\ task = [n \in Nodes |-> Idle] /\ sent = [n \in Nodes |-> 0]
  /\ received = [n \in Nodes |-> <<>>]
  /\ build = [n \in Nodes |-> [batch |-> 0, files |-> <<>>]]
  /\ shared = {} /\ mishaps = 0

Mishap(kind) == kind \in Mishaps /\ mishaps < MaxMishaps /\ mishaps' = mishaps + 1

\* The jobs of a batch that still have to run or are running.
Jobs(b) == ToSet(remaining[b]) \cup running[b]

\* A batch may still store or send files, or have them deleted.
UnderWay(b) == phase[b] = "sending" \/ (phase[b] = "queued" /\ Jobs(b) # {})

SharesName(b, c) ==
  /\ Configs[b].batch_name = Configs[c].batch_name
  /\ Configs[b].namespace = Configs[c].namespace

\* Mutant: the names of the jobs are not compared.
Accepted_Duplicates(config) == config.jobs # <<>>

\* add: a batch has jobs, and no two of one name.
Accepted(config) ==
  /\ config.jobs # <<>>
  /\ \A i, j \in DOMAIN config.jobs : config.jobs[i].name = config.jobs[j].name => i = j

\* Nobody looks whether a batch of the name is under way: the docs leave it to
\* the user (docs/src/python.md).
Submit(b) ==
  /\ phase[b] = "new" /\ \A c \in Batches : c < b => phase[c] # "new"
  /\ IF Accepted(Configs[b])
     THEN LET rivals == {c \in Batches : UnderWay(c) /\ SharesName(b, c)} IN
          /\ phase' = [phase EXCEPT ![b] = "sending"]
          /\ shared' = shared \cup rivals \cup (IF rivals = {} THEN {} ELSE {b})
     ELSE phase' = [phase EXCEPT ![b] = "refused"] /\ UNCHANGED shared
  /\ UNCHANGED <<disk, stored, unsaved, remaining, running, nodeVars, mishaps>>

\* The next file of the batch arrives.  One that cannot be created, or only in
\* part, is logged.
StoreFile(b) ==
  /\ phase[b] = "sending" /\ stored[b] < Len(SendableFiles[b])
  /\ stored' = [stored EXCEPT ![b] = @ + 1]
  /\ LET file == SendableFiles[b][stored[b] + 1] IN
     \/ /\ disk' = Put(disk, file.hashed_path, file.bytes)
        /\ unsaved' = unsaved \ {file.hashed_path}
        /\ UNCHANGED mishaps
     \/ /\ Mishap("save")
        /\ unsaved' = unsaved \cup {file.hashed_path}
        /\ \/ UNCHANGED disk
           \/ \E k \in 1..Len(file.bytes) :
                disk' = Put(disk, file.hashed_path, SubSeq(file.bytes, 1, k - 1))
  /\ UNCHANGED <<phase, shared, remaining, running, nodeVars>>

\* The files that have arrived stay.
SubmissionBreaks(b) ==
  /\ phase[b] = "sending"
  /\ Mishap("interrupt")
  /\ phase' = [phase EXCEPT ![b] = "interrupted"]
  /\ UNCHANGED <<disk, stored, unsaved, shared, remaining, running, nodeVars>>

Queue(b) ==
  /\ phase[b] = "sending" /\ stored[b] = Len(SendableFiles[b])
  /\ phase' = [phase EXCEPT ![b] = "queued"]
  /\ remaining' = [remaining EXCEPT ![b] = [j \in JobsOf(b) |-> j]]
  /\ UNCHANGED <<disk, stored, unsaved, shared, running, nodeVars, mishaps>>

-----------------------------------------------------------------------------
(* The nodes                                                               *)

Becomes(n, what) ==
  /\ task' = [task EXCEPT ![n] = what]
  /\ sent' = [sent EXCEPT ![n] = 0]
  /\ received' = [received EXCEPT ![n] = <<>>]

StartTransfer(n, b, j) == Becomes(n, [place |-> "sending", batch |-> b, job |-> j])

\* fetch_new_task: a batch with jobs left that the node has not built.
TakeBuild(n, b) ==
  /\ task[n].place = "idle"
  /\ remaining[b] # <<>> /\ build[n].batch # b /\ b \notin errored[n]
  /\ StartTransfer(n, b, 0)
  /\ build' = [build EXCEPT ![n] = [batch |-> 0, files |-> <<>>]]
  /\ UNCHANGED <<disk, batchVars, remaining, running, errored, mishaps>>

\* next_job: the last of the remaining jobs.
TakeJob(n) ==
  LET b == build[n].batch IN
  /\ task[n].place = "idle" /\ b # 0 /\ remaining[b] # <<>>
  /\ StartTransfer(n, b, Last(remaining[b]))
  /\ remaining' = [remaining EXCEPT ![b] = Front(@)]
  /\ running' = [running EXCEPT ![b] = @ \cup {Last(remaining[b])}]
  /\ UNCHANGED <<disk, batchVars, errored, build, mishaps>>

\* send_files to the node: a file that is not there is logged and skipped, and of
\* those of one name the last stays.
SendFile(n) ==
  LET files == FilesOf(task[n].batch, task[n].job)
      file  == files[sent[n] + 1]
  IN
  /\ task[n].place = "sending" /\ sent[n] < Len(files)
  /\ sent' = [sent EXCEPT ![n] = @ + 1]
  /\ received' = [received EXCEPT ![n] =
       IF file.hashed_path \in DOMAIN disk
       THEN Put(@, file.original_filename, disk[file.hashed_path]) ELSE @]
  /\ UNCHANGED <<disk, batchVars, remaining, running, errored, task, build, mishaps>>

\* The build starts by moving the build file to its place: without it, it
\* fails, and the node task will not take the batch again.
Build(n) ==
  LET b == task[n].batch IN
  /\ task[n].place = "sending" /\ task[n].job = 0 /\ sent[n] = Len(FilesOf(b, 0))
  /\ Becomes(n, Idle)
  /\ IF FilesOf(b, 0)[1].original_filename \in DOMAIN received[n]
     THEN /\ build' = [build EXCEPT ![n] = [batch |-> b, files |-> received[n]]]
          /\ UNCHANGED errored
     ELSE /\ errored' = [errored EXCEPT ![n] = @ \cup {b}]
          /\ UNCHANGED build
  /\ UNCHANGED <<disk, batchVars, remaining, running, mishaps>>

Execute(n) ==
  /\ task[n].place = "sending" /\ task[n].job # 0
  /\ sent[n] = Len(FilesOf(task[n].batch, task[n].job))
  /\ task' = [task EXCEPT ![n].place = "executing"]
  /\ UNCHANGED <<disk, batchVars, remaining, running, errored, sent, received, build, mishaps>>

\* finish_job: with its last job the set goes, and its initialization files.
FinishJob(n) ==
  LET b == task[n].batch
      left == running[b] \ {task[n].job}
  IN
  /\ task[n].place = "executing"
  /\ Becomes(n, Idle)
  /\ running' = [running EXCEPT ![b] = left]
  /\ IF remaining[b] = <<>> /\ left = {}
     THEN /\ phase' = [phase EXCEPT ![b] = "dropped"]
          /\ Erase(Deleted(FilesOf(b, 0)))
     ELSE UNCHANGED <<phase, disk>>
  /\ UNCHANGED <<stored, unsaved, shared, remaining, errored, build, mishaps>>

\* A node that fails returns its job, and has built nothing when it is back.
NodeFails(n) ==
  LET b == task[n].batch
      j == task[n].job
  IN
  /\ task[n].place # "idle"
  /\ Mishap("node")
  /\ Becomes(n, Idle)
  /\ build' = [build EXCEPT ![n] = [batch |-> 0, files |-> <<>>]]
  /\ IF j = 0 THEN UNCHANGED <<remaining, running>>
     ELSE /\ remaining' = [remaining EXCEPT ![b] = Append(@, j)]
          /\ running' = [running EXCEPT ![b] = @ \ {j}]
  /\ UNCHANGED <<disk, batchVars, errored>>

\* clear_remaining_jobs: the queue is emptied, and the files of its jobs are
\* deleted until one is not there.
CancelBatch(b) ==
  /\ phase[b] = "queued" /\ Mishap("kill")
  /\ remaining' = [remaining EXCEPT ![b] = <<>>]
  /\ Erase(Deleted(FlattenSeq([i \in DOMAIN remaining[b] |-> FilesOf(b, remaining[b][i])])))
  /\ UNCHANGED <<batchVars, running, nodeVars>>

Next ==
  \/ \E b \in Batches :
       Submit(b) \/ StoreFile(b) \/ SubmissionBreaks(b) \/ Queue(b) \/ CancelBatch(b)
  \/ \E n \in Nodes :
       \/ \E b \in Batches : TakeBuild(n, b)
       \/ TakeJob(n) \/ SendFile(n) \/ Build(n) \/ Execute(n) \/ FinishJob(n) \/ NodeFails(n)

Spec == Init /\ [][Next]_vars

-----------------------------------------------------------------------------
(* Properties                                                              *)

Places == {"idle", "sending", "executing"}
AllPaths == UNION {Paths(SendableFiles[b]) : b \in Batches}

\* The state keeps its types.
TypeOK ==
  /\ DOMAIN disk \subseteq AllPaths /\ unsaved \subseteq AllPaths /\ shared \subseteq Batches
  /\ phase \in [Batches -> {"new", "sending", "interrupted", "queued", "dropped",
                       "refused"}]
  /\ \A b \in Batches :
       /\ stored[b] \in 0..Len(SendableFiles[b])
       /\ ToSet(remaining[b]) \cup running[b] \subseteq JobsOf(b)
       /\ IsInjective(remaining[b]) /\ ToSet(remaining[b]) \cap running[b] = {}
  /\ errored \in [Nodes -> SUBSET Batches]
  /\ task \in [Nodes -> [place : Places, batch : Batches \cup {0}, job : Nat]]
  /\ mishaps \in 0..MaxMishaps

\* No later file of the transfer has the name of this one.
IsLast(files, i) ==
  \A k \in DOMAIN files : k > i => files[k].original_filename # files[i].original_filename

\* What a node should receive, but for files that could not be saved.
Complete(files, got) ==
  \A i \in DOMAIN files : IsLast(files, i) =>
    \/ files[i].hashed_path \in unsaved
    \/ /\ files[i].original_filename \in DOMAIN got
       /\ got[files[i].original_filename] = files[i].bytes

\* A job runs with the files its user submitted, and so did the build of its
\* batch: a transfer that loses files because the set is dropped under it, or
\* takes those of another batch, never leads to a job (send_files, finish_job),
\* as long as the batch is never under way together with one of its name.
JobsRunOnTheirFiles ==
  \A n \in Nodes : task[n].place = "executing" /\ task[n].batch \notin shared =>
    /\ Complete(FilesOf(task[n].batch, task[n].job), received[n])
    /\ Complete(FilesOf(task[n].batch, 0), build[n].files)

\* The files that a queued batch may still have to send are on the disk with
\* its own contents, whoever stores and deletes files there: those of the
\* initialization while jobs are left or running, those of a job until it ends.
\* A batch that is submitted again before it has ended loses this.
NeededFilesAreThere ==
  \A b \in Batches \ shared :
    phase[b] = "queued" /\ Jobs(b) # {} =>
      \A f \in UNION {ToSet(FilesOf(b, j)) : j \in Jobs(b) \cup {0}} :
        \/ f.hashed_path \in unsaved
        \/ f.hashed_path \in DOMAIN disk /\ disk[f.hashed_path] = f.bytes
=============================================================================
