------------------------------ MODULE WorkDir ------------------------------
(***************************************************************************)
(* The working directory in which a compute node builds batches and runs   *)
(* their jobs, and in which `distribute run` does so locally.  Its folders *)
(* are shared by everything that runs one after the other: what is cleaned *)
(* when decides what a job finds in /input, what is sent as its results    *)
(* and which folders are mounted into its container (client/execute.rs,    *)
(* client/utils.rs, the client halves of the protocol states, run_local).  *)
(*                                                                         *)
(* A file is a name in a folder, and its content is who wrote it: a job of *)
(* a batch, or the batch for what comes with its initialization.  One that *)
(* could not be written to its end counts as well: the properties say      *)
(* whose files there are, not that they are whole (FileStream).            *)
(***************************************************************************)
EXTENDS Naturals, Functions

CONSTANTS
  Batches, Jobs,
  Python,        \* the python batches; the others are apptainer batches
  Names,         \* names of required files, and of those a process writes
  InitFiles,     \* required files of each batch
  JobFiles,      \* required files of each job of each batch
  Mounts,        \* how many required mounts each batch has
  Mishaps,       \* what may go wrong in this instance
  MaxMishaps     \* bound on how often something goes wrong

MishapKinds ==
  {"cut",    \* the connection to the server breaks
   "crash",  \* the node stops and is started again
   "kill",   \* the job that runs is cancelled
   "spawn",  \* a command cannot be started
   "store",  \* a received file cannot be created, or not be written to its end
   "folder"} \* a folder cannot be removed, made or filled, such as one that the
             \* process of a cancelled job still writes to

Nothing == "nothing"

ASSUME WorkDirAssumption ==
  /\ Nothing \notin Batches \cup Jobs
  /\ Python \subseteq Batches
  /\ InitFiles \in [Batches -> SUBSET Names]
  /\ JobFiles \in [Batches -> [Jobs -> SUBSET Names]]
  /\ Mounts \in [Batches -> Nat]
  /\ {"build", "job", "output", "init"} \cap (Names \cup Jobs) = {}
  /\ Mishaps \subseteq MishapKinds /\ MaxMishaps \in Nat

VARIABLES
  place,     \* the state of the node, or of `distribute run`
  batch, job,
  todo,      \* files of the transfer that have not arrived
  initial, input, save,  \* initial_files, input and distribute_save
  script,    \* run.py or apptainer.sif
  dir,       \* of the directory, input and distribute_save: whether they are
             \* missing, or what was to be removed from them is left
  binds,     \* the _bind_path_ folders that exist, with what is in them
  bound,     \* the folders of the BindingFolderState
  unmade,    \* those of them whose creation has failed
  cwd,       \* the current directory of the node's process
  orphans,   \* the jobs whose processes go on in the directory unsupervised
  archive,   \* archived_files of `distribute run`
  mishaps

folders == <<initial, input, save, script, dir>>
mounts == <<binds, bound, unmade>>
vars == <<place, batch, job, todo, folders, mounts, cwd, orphans, archive, mishaps>>

NoOwner == <<Nothing, Nothing>>
Empty == [n \in {} |-> Nothing]
Owner == <<batch, IF job = Nothing THEN "init" ELSE job>>

Put(folder, name, content) ==
  [n \in DOMAIN folder \cup {name} |-> IF n = name THEN content ELSE folder[n]]
Without(folder, name) == Restrict(folder, DOMAIN folder \ {name})

Init ==
  /\ place = "start" /\ batch = Nothing /\ job = Nothing /\ todo = {}
  /\ initial = Empty /\ input = Empty /\ save = Empty /\ script = NoOwner
  /\ dir = [base |-> "missing", input |-> "missing", save |-> "missing"]
  /\ binds = Empty /\ bound = {} /\ unmade = {}
  /\ cwd = "home" /\ orphans = {} /\ archive = Empty /\ mishaps = 0

Mishap(kind) == kind \in Mishaps /\ mishaps < MaxMishaps /\ mishaps' = mishaps + 1
NoMishap == mishaps' = mishaps

\* delete_and_create_folders.  Whoever is in the old directory stays there.
DeleteAndCreateFolders ==
  /\ initial' = Empty /\ input' = Empty /\ save' = Empty /\ script' = NoOwner
  /\ dir' = [base |-> "whole", input |-> "whole", save |-> "whole"]
  /\ binds' = Empty /\ orphans' = {}

\* remove_dir_all breaks off, and create_dir finds the directory in its place.
\* Whoever writes there goes on.
RemovalFails ==
  /\ \E kept \in SUBSET DOMAIN initial : initial' = Restrict(initial, kept)
  /\ \E kept \in SUBSET DOMAIN input : input' = Restrict(input, kept)
  /\ \E kept \in SUBSET DOMAIN save : save' = Restrict(save, kept)
  /\ \E kept \in SUBSET DOMAIN binds : binds' = Restrict(binds, kept)
  /\ script' \in {script, NoOwner}
  /\ dir' \in [base : {"left"}, input : {"left", "missing"}, save : {"left", "missing"}]
  /\ dir'.input = "missing" => input' = Empty
  /\ dir'.save = "missing" => save' = Empty
  /\ UNCHANGED orphans

\* All is removed, but one of the create_dir fails, and none comes after it.
CreationFails ==
  /\ initial' = Empty /\ input' = Empty /\ save' = Empty /\ script' = NoOwner
  /\ dir' \in {[base |-> b, input |-> "missing", save |-> s] : b, s \in {"whole", "missing"}}
  /\ dir'.base = "missing" => dir'.save = "missing"
  /\ binds' = Empty /\ orphans' = {}

\* The BindingFolderState is dropped with the state of the node.  A folder that
\* cannot be removed is logged.
DropBindings ==
  /\ \E kept \in SUBSET (bound \cap DOMAIN binds) :
       /\ kept # {} => "folder" \in Mishaps
       /\ binds' = Restrict(binds, (DOMAIN binds \ bound) \cup kept)
  /\ bound' = {} /\ unmade' = {}

\* The numbers of the folders a batch needs.
Hosts(b) == {i \in 0..Mounts[b] : i < Mounts[b]}

\* update_binded_paths, of a new BindingFolderState, where old is what there is.
\* That a folder could not be made is logged, also if an old one is in its place.
UpdateBindedPaths(b, old) ==
  /\ bound' = Hosts(b)
  /\ \E bad \in SUBSET Hosts(b) : \E kept \in SUBSET (bad \cap DOMAIN old) :
       /\ unmade' = bad
       /\ binds' = [i \in ((DOMAIN old \cup Hosts(b)) \ bad) \cup kept |->
                     IF i \in Hosts(b) \ bad THEN {} ELSE old[i]]
       /\ IF bad = {} THEN NoMishap ELSE Mishap("folder")

-----------------------------------------------------------------------------
(* The node                                                                *)

\* client_command, which ends with the error if there is one.
NodeStarts ==
  /\ place = "start"
  /\ \/ place' = "uninit" /\ DeleteAndCreateFolders /\ NoMishap
     \/ place' = place /\ (RemovalFails \/ CreationFails) /\ Mishap("folder")
  /\ UNCHANGED <<batch, job, todo, bound, unmade, cwd, archive>>

Connects ==
  /\ place = "uninit"
  /\ place' = "prepare_build"
  /\ NoMishap /\ UNCHANGED <<batch, job, todo, folders, mounts, cwd, orphans, archive>>

\* receive_job: the directory of the last batch, if there is one, goes before the
\* next order.  An error is ignored.
PreparesBuild ==
  /\ place = "prepare_build"
  /\ place' = "await_build"
  /\ \/ dir.base # "missing" /\ DeleteAndCreateFolders /\ NoMishap
     \/ dir.base # "missing" /\ (RemovalFails \/ CreationFails) /\ Mishap("folder")
     \/ dir.base = "missing" /\ NoMishap /\ UNCHANGED <<folders, binds, orphans>>
  /\ UNCHANGED <<batch, job, todo, bound, unmade, cwd, archive>>

\* receive_files makes its folder, here and below, if it is missing.
ReadsBuildOrder(b) ==
  /\ place = "await_build"
  /\ place' = "initial_files" /\ batch' = b
  /\ todo' = InitFiles[b] \cup {"build"}
  /\ dir' = [dir EXCEPT !.base = IF @ = "missing" THEN "whole" ELSE @]
  /\ NoMishap
  /\ UNCHANGED <<job, initial, input, save, script, mounts, cwd, orphans, archive>>

\* receive_files: a file that cannot be stored, or only in part, is logged.
ReceivesFile(f) ==
  /\ place \in {"initial_files", "job_files"} /\ f \in todo
  /\ todo' = todo \ {f}
  /\ \/ /\ IF place = "initial_files"
           THEN initial' = Put(initial, f, Owner) /\ UNCHANGED input
           ELSE input' = Put(input, f, Owner) /\ UNCHANGED initial
        /\ NoMishap \/ Mishap("store")
     \/ Mishap("store") /\ UNCHANGED <<initial, input>>
  /\ UNCHANGED <<place, batch, job, save, script, dir, mounts, cwd, orphans, archive>>

ReceivedFiles ==
  /\ place \in {"initial_files", "job_files"} /\ todo = {}
  /\ place' = IF place = "initial_files" THEN "building" ELSE "executing"
  /\ NoMishap /\ UNCHANGED <<batch, job, todo, folders, mounts, cwd, orphans, archive>>

\* A build that fails leaves its state: the next order comes for any batch.
BuildFails ==
  /\ place' = "prepare_build" /\ batch' = Nothing
  /\ UNCHANGED <<initial, script, mounts>>

\* initialize_apptainer_job: the .sif is moved, the folders are made.
InitializeApptainer ==
  /\ place = "building" /\ batch \notin Python
  /\ IF "build" \in DOMAIN initial
     THEN /\ place' = "built" /\ UpdateBindedPaths(batch, binds)
          /\ script' = initial["build"] /\ initial' = Without(initial, "build")
          /\ UNCHANGED batch
     ELSE BuildFails /\ NoMishap
  /\ UNCHANGED <<job, todo, input, save, dir, cwd, orphans, archive>>

\* initialize_python_job: the file is moved to run.py and run in the directory.
InitializePython ==
  /\ place = "building" /\ batch \in Python
  /\ IF "build" \in DOMAIN initial
     THEN /\ place' = "compiling" /\ cwd' = "base"
          /\ script' = initial["build"] /\ initial' = Without(initial, "build")
          /\ UNCHANGED <<batch, mounts>>
     ELSE BuildFails /\ UNCHANGED cwd
  /\ NoMishap /\ UNCHANGED <<job, todo, input, save, dir, orphans, archive>>

\* command_output_to_file; an error is logged.
Output == IF dir.save = "missing" THEN save ELSE Put(save, "output", Owner)

\* generalized_init: whatever the process returns, it is built.
BuildEnds ==
  /\ place = "compiling"
  /\ cwd' = "home"
  /\ \/ /\ place' = "built" /\ save' = Output
        /\ NoMishap /\ UNCHANGED <<batch, initial, script, mounts>>
     \/ Mishap("spawn") /\ BuildFails /\ UNCHANGED save
  /\ UNCHANGED <<job, todo, input, dir, orphans, archive>>

\* clean_distribute_save; s is what becomes of the folder.
CleanDistributeSave(s) ==
  \/ s \in {"whole", "missing"} /\ save' = Empty
  \/ s = "left" /\ \E kept \in SUBSET DOMAIN save : save' = Restrict(save, kept)

\* Mutant: what is left in the input folder is only overwritten.
CleanInput_Keeps(i) ==
  /\ i = "whole"
  /\ input' = [n \in DOMAIN input \cup DOMAIN initial |->
                 IF n \in DOMAIN initial THEN initial[n] ELSE input[n]]

\* clean_input, which copies the initial files.  It gives up if there is no
\* folder to remove.
CleanInput(i) ==
  \/ /\ i = "whole" /\ dir.input # "missing"
     /\ \E copied \in SUBSET DOMAIN initial : input' = Restrict(initial, copied)
  \/ i = "missing" /\ input' = Empty
  \/ i = "left" /\ \E kept \in SUBSET DOMAIN input : input' = Restrict(input, kept)

\* Mutant: the whole directory is made anew before every job.
EntersBuilt_DeletesAll ==
  /\ place = "built"
  /\ place' = "await_job"
  /\ initial' = initial /\ script' = script /\ input' = initial /\ save' = Empty
  /\ dir' = [base |-> "whole", input |-> "whole", save |-> "whole"]
  /\ binds' = Empty /\ orphans' = {}
  /\ NoMishap /\ UNCHANGED <<batch, job, todo, bound, unmade, cwd, archive>>

\* get_execute_instructions, where an error of either is logged.
EntersBuilt ==
  /\ place = "built"
  /\ place' = "await_job"
  /\ \E s, i \in {"whole", "left", "missing"} :
       /\ CleanDistributeSave(s) /\ CleanInput(i)
       /\ dir' = [dir EXCEPT !.save = s, !.input = i]
       /\ \/ /\ s = "whole"
             /\ i = (IF dir.input = "missing" THEN "missing" ELSE "whole")
             /\ i = "whole" => DOMAIN initial \subseteq DOMAIN input'
             /\ NoMishap
          \/ Mishap("folder")
  /\ UNCHANGED <<batch, job, todo, initial, script, mounts, cwd, orphans, archive>>

ReadsJobOrder(j) ==
  /\ place = "await_job"
  /\ place' = "job_files" /\ job' = j
  /\ todo' = JobFiles[batch][j] \cup (IF batch \in Python THEN {"job"} ELSE {})
  /\ dir' = [dir EXCEPT !.input = IF @ = "missing" THEN "whole" ELSE @]
  /\ NoMishap
  /\ UNCHANGED <<batch, initial, input, save, script, mounts, cwd, orphans, archive>>

ReadsReturn ==
  /\ place = "await_job"
  /\ place' = "prepare_build" /\ batch' = Nothing
  /\ DropBindings
  /\ NoMishap /\ UNCHANGED <<job, todo, folders, cwd, orphans, archive>>

\* run_python_job moves the file to run.py and enters the directory.
StartsPythonJob ==
  /\ place = "executing" /\ batch \in Python
  /\ IF "job" \in DOMAIN input
     THEN /\ place' = "running" /\ cwd' = "base"
          /\ script' = input["job"] /\ input' = Without(input, "job")
     ELSE place' = "reporting" /\ UNCHANGED <<cwd, script, input>>
  /\ NoMishap /\ UNCHANGED <<batch, job, todo, initial, save, dir, mounts, orphans, archive>>

StartsApptainerJob ==
  /\ place = "executing" /\ batch \notin Python
  /\ place' = "running"
  /\ NoMishap /\ UNCHANGED <<batch, job, todo, folders, mounts, cwd, orphans, archive>>

\* generalized_run, when the command has ended or could not be started.
JobEnds ==
  /\ place = "running"
  /\ place' = "reporting" /\ cwd' = "home"
  /\ \/ save' = Output /\ NoMishap
     \/ Mishap("spawn") /\ UNCHANGED save
  /\ UNCHANGED <<batch, job, todo, initial, input, script, dir, mounts, orphans, archive>>

\* generalized_run, when the cancellation comes first: the process is left to
\* itself, with the folders it has mounted or the directory it was started in.
JobIsCancelled ==
  /\ place = "running"
  /\ Mishap("kill")
  /\ place' = "cancelled" /\ cwd' = "home"
  /\ orphans' = orphans \cup {Owner}
  /\ UNCHANGED <<batch, job, todo, folders, mounts, archive>>

\* Mutant: the build is kept, since the batch may have more jobs.
ReportsCancelled_KeepsBuild ==
  /\ place = "cancelled"
  /\ place' = "built" /\ job' = Nothing
  /\ NoMishap /\ UNCHANGED <<batch, todo, folders, mounts, cwd, orphans, archive>>

ReportsCancelled ==
  /\ place = "cancelled"
  /\ place' = "prepare_build" /\ batch' = Nothing /\ job' = Nothing
  /\ DropBindings
  /\ NoMishap /\ UNCHANGED <<todo, folders, cwd, orphans, archive>>

\* The end of the command may be overtaken by a cancellation: one that the
\* arbiter took meanwhile, or the override of the server.
ReportsResult ==
  /\ place = "reporting"
  /\ \/ place' = "sending" /\ NoMishap
     \/ Mishap("kill") /\ place' = "cancelled"
  /\ UNCHANGED <<batch, job, todo, folders, mounts, cwd, orphans, archive>>

\* send_files, of all that is in distribute_save.
SendsResults ==
  /\ place = "sending"
  /\ place' = "built" /\ job' = Nothing
  /\ NoMishap /\ UNCHANGED <<batch, todo, folders, mounts, cwd, orphans, archive>>

\* into_uninit of the states that read or write; the end of a build is
\* reported from "built" and from "prepare_build".
LosesConnection ==
  /\ place \in {"prepare_build", "await_build", "initial_files", "built", "await_job",
                "job_files", "reporting", "cancelled", "sending"}
  /\ Mishap("cut")
  /\ place' = "uninit" /\ batch' = Nothing /\ job' = Nothing /\ todo' = {}
  /\ DropBindings
  /\ UNCHANGED <<folders, cwd, orphans, archive>>

\* The node stops, without its process if one runs, and will be started again.
Restarts ==
  /\ place \notin {"start", "local", "local_running", "stopped"}
  /\ Mishap("crash")
  /\ place' = "start" /\ batch' = Nothing /\ job' = Nothing /\ todo' = {}
  /\ orphans' = orphans \cup (IF place \in {"compiling", "running"} THEN {Owner} ELSE {})
  /\ bound' = {} /\ unmade' = {} /\ cwd' = "home"
  /\ UNCHANGED <<folders, binds, archive>>

-----------------------------------------------------------------------------
(* distribute run                                                          *)

\* run_local: apptainer batches only, in a directory it has made anew; if it
\* cannot, it ends before anything else.
LocalStarts(b) ==
  /\ place = "start" /\ b \notin Python
  /\ place' = "local" /\ batch' = b
  /\ initial' = [n \in InitFiles[b] |-> <<b, "init">>]
  /\ input' = Empty /\ save' = Empty /\ script' = <<b, "init">>
  /\ dir' = [base |-> "whole", input |-> "whole", save |-> "whole"]
  /\ UpdateBindedPaths(b, Empty) /\ orphans' = {}
  /\ UNCHANGED <<job, todo, cwd, archive>>

\* copy_job_files_apptainer, after clean_input.
LocalRuns(j) ==
  /\ place = "local" /\ j \notin DOMAIN archive
  /\ place' = "local_running" /\ job' = j
  /\ input' = [n \in DOMAIN initial \cup JobFiles[batch][j] |->
                 IF n \in JobFiles[batch][j] THEN <<batch, j>> ELSE initial[n]]
  /\ NoMishap
  /\ UNCHANGED <<batch, todo, initial, save, script, dir, mounts, cwd, orphans, archive>>

\* The results are moved to the archive.
LocalEnds ==
  /\ place = "local_running"
  /\ place' = "local" /\ job' = Nothing
  /\ archive' = Put(archive, job, Put(save, "output", Owner)) /\ save' = Empty
  /\ NoMishap /\ UNCHANGED <<batch, todo, initial, input, script, dir, mounts, cwd, orphans>>

\* After the last job, with the first that cannot be started, or when a folder
\* cannot be cleaned, filled or moved.
LocalStops ==
  /\ \/ place = "local" /\ DOMAIN archive = Jobs /\ NoMishap
     \/ place = "local_running" /\ Mishap("spawn")
     \/ place \in {"local", "local_running"} /\ Mishap("folder")
  /\ place' = "stopped" /\ job' = Nothing
  /\ DropBindings
  /\ UNCHANGED <<batch, todo, folders, cwd, orphans, archive>>

-----------------------------------------------------------------------------
(* What the processes do with the folders they can reach                   *)

\* To a file in one of the two, or to the folder that is missing.
Writes(owner, n) ==
  \/ /\ input' = Put(input, n, owner) /\ UNCHANGED save
     /\ dir' = [dir EXCEPT !.input = IF @ = "missing" THEN "whole" ELSE @]
  \/ /\ save' = Put(save, n, owner) /\ UNCHANGED input
     /\ dir' = [dir EXCEPT !.save = IF @ = "missing" THEN "whole" ELSE @]

ProcessWrites(n) ==
  /\ place \in {"compiling", "running", "local_running"}
  /\ Writes(Owner, n)
  /\ NoMishap
  /\ UNCHANGED <<place, batch, job, todo, initial, script, mounts, cwd, orphans, archive>>

ContainerWrites(i) ==
  /\ place \in {"running", "local_running"} /\ batch \notin Python
  /\ i \in bound \cap DOMAIN binds
  /\ binds' = [binds EXCEPT ![i] = @ \cup {Owner}]
  /\ NoMishap
  /\ UNCHANGED <<place, batch, job, todo, folders, bound, unmade, cwd, orphans, archive>>

\* An orphan that is a container writes to its mounts as well, but never to a
\* folder that was made after it: these writes are left out.
OrphanWrites(owner, n) ==
  /\ owner \in orphans
  /\ Writes(owner, n)
  /\ NoMishap
  /\ UNCHANGED <<place, batch, job, todo, initial, script, mounts, cwd, orphans, archive>>

Next ==
  \/ NodeStarts \/ Connects \/ PreparesBuild
  \/ \E b \in Batches : ReadsBuildOrder(b) \/ LocalStarts(b)
  \/ \E f \in todo : ReceivesFile(f)
  \/ ReceivedFiles
  \/ InitializeApptainer \/ InitializePython \/ BuildEnds
  \/ EntersBuilt
  \/ \E j \in Jobs : ReadsJobOrder(j) \/ LocalRuns(j)
  \/ ReadsReturn
  \/ StartsPythonJob \/ StartsApptainerJob \/ JobEnds \/ JobIsCancelled
  \/ ReportsCancelled \/ ReportsResult \/ SendsResults
  \/ LosesConnection \/ Restarts \/ LocalEnds \/ LocalStops
  \/ \E n \in Names : ProcessWrites(n) \/ \E owner \in orphans : OrphanWrites(owner, n)
  \/ \E i \in bound : ContainerWrites(i)

Spec == Init /\ [][Next]_vars

-----------------------------------------------------------------------------
(* Properties                                                              *)

JobPlaces == {"job_files", "executing", "running", "reporting", "cancelled", "sending",
              "local_running"}
Places == JobPlaces \cup
  {"start", "uninit", "prepare_build", "await_build", "initial_files", "building",
   "compiling", "built", "await_job", "local", "stopped"}
Owners == Batches \X (Jobs \cup {"init"})
Conditions == {"whole", "left", "missing"}
IsFolder(f) == Range(f) \subseteq Owners /\ DOMAIN f \subseteq Names \cup {"build", "job", "output"}

\* The state keeps its types; there is a job in the states that have one.
TypeOK ==
  /\ place \in Places /\ batch \in Batches \cup {Nothing} /\ job \in Jobs \cup {Nothing}
  /\ (job # Nothing) <=> (place \in JobPlaces)
  /\ todo \subseteq Names \cup {"build", "job"}
  /\ IsFolder(initial) /\ IsFolder(input) /\ IsFolder(save)
  /\ script \in Owners \cup {NoOwner}
  /\ dir \in [base : Conditions, input : Conditions, save : Conditions]
  /\ dir.input = "missing" => DOMAIN input = {}
  /\ dir.save = "missing" => DOMAIN save = {}
  /\ bound \subseteq Nat /\ unmade \subseteq bound /\ Range(binds) \subseteq SUBSET Owners
  /\ cwd \in {"home", "base"} /\ orphans \subseteq Owners
  /\ mishaps \in 0..MaxMishaps

\* Nothing that was to be removed is left in a folder of the directory.
Cleaned(folder) == dir.base # "left" /\ dir[folder] # "left"

\* When its process starts, the node is in the directory it was started from,
\* where its relative paths lead, and the job finds in /input the required
\* files of its batch and its own, its own in the place of those of the same
\* name, and nothing else: nothing of another batch or job, of a build script,
\* of a cancelled process or of a broken transfer, unless the removal of what
\* was there has failed.  Files may be missing only after an error.
InputsAreOwn ==
  place = "executing" =>
    LET own == JobFiles[batch][job] \cup (IF batch \in Python THEN {"job"} ELSE {}) IN
    /\ cwd = "home"
    /\ Cleaned("input") =>
         \A n \in DOMAIN input :
           \/ n \in own /\ input[n] = <<batch, job>>
           \/ n \in InitFiles[batch] /\ input[n] = <<batch, "init">>
    /\ mishaps = 0 => DOMAIN input = own \cup InitFiles[batch]

\* The results that are sent or archived under a job are those it has written,
\* whatever ran in the directory before and may still run, unless the removal of
\* older ones has failed.
ResultsAreOwn ==
  /\ place = "sending" /\ Cleaned("save") => Range(save) \subseteq {<<batch, job>>}
  /\ \A j \in DOMAIN archive : Range(archive[j]) \subseteq {<<batch, j>>}

\* The folders mounted into a container exist, as many as its batch requires,
\* but for those that could not be made, and hold nothing of another batch:
\* neither the cleaning of the directory nor the BindingFolderState of a former
\* build removes them.
MountsAreThere ==
  place \in {"executing", "running", "local_running"} /\ batch \notin Python =>
    /\ bound = Hosts(batch)
    /\ \A i \in bound \ unmade : i \in DOMAIN binds /\ binds[i] \subseteq {batch} \X Jobs
=============================================================================
