# Verification of `distribute`

`distribute` runs batches of jobs on a set of compute nodes. A head node keeps
the batches and decides which node runs what; one task per compute node drives
that node over TCP through compiling, executing and returning results; users
add, kill and pull batches over TCP. This directory holds TLA+ models of the
parts that decide about jobs and their files, the TLC runs that check them on
small instances, and proofs that TLAPS checks for every instance.

Paths below are those of the repository (`src/src/...` is the Rust crate).

## 1. Inventory

| Component | State | Operations | Modules |
|---|---|---|---|
| Schedule: `GpuPriority`, `JobSet` (`server/schedule.rs`) | `map` identifier → `JobSet` (remaining jobs as a stack, running jobs with their node, requirements); `last_identifier` | `fetch_new_task`, `insert_new_batch`, `add_job_back`, `finish_job`, `cancel_batch`, `identifier_by_name` | `Schedule` |
| Job pool task (`server/job_pool.rs`) | owns the schedule and the broadcast sender | serves one `JobRequest` at a time from an mpsc channel of 100 | `JobPool`; promise: `JobLedger` |
| Node tasks (`server/node.rs`, the server halves of `protocol/`) | the protocol state, the batch built, the job held, `errored_jobs`, a broadcast receiver of 20 | ask for a task, order a build or a job, wait, receive results, report `FinishJob` or `DeadNode`, reconnect | `NodeTask` (interface), used in `JobPool`, implemented in `NodeLink` |
| Compute node (`client/mod.rs`, client halves of `protocol/`) | the protocol state, the batch built, the job run, the cancel arbiter | accept a connection, answer, build, run, cancel, send results | `NodeLink` |
| Execution on the node (`client/execute.rs`, `client/utils.rs`, `run_local.rs`) | the working directory, the folders that are mounted, the current directory, child processes | clean, receive, build, run, cancel, return; `distribute run` | `WorkDir` |
| File transfer (`protocol/send_files/`, `transport.rs`) | place in the list, bytes counted, the large-file handshake | announce, send, acknowledge, skip, finish | `FileStream` (bytes), `NodeLink` (messages); promise: `FileDelivery` |
| User requests (`server/user_conn.rs`, `add.rs`, `kill.rs`, `pull.rs`, `server_status.rs`) | one task per connection, the transfer it is in | add a batch with its files, kill, pull, status | `UserLink` (the connection), `JobPool` (the requests) |
| Configuration and hashing (`config/`) | the shared folder of the head node | name, store, send and delete the files of a batch | `BatchFiles` |
| Pause (`pause/`) | a list of processes | scan `/proc`, stop, sleep, resume | `Pause` |
| Command line, slurm export, templates, matrix, bindings | none kept | – | not modelled (section 9) |

**How they interact.** Node and user tasks send requests to the job pool over
one bounded mpsc channel; a request for a task carries a oneshot channel for the
answer. Kills come back to all node tasks by broadcast, which a node task reads
only while its job executes; it then opens a TCP connection to the node's cancel
port, and the connection *is* the message. Server and node exchange
length-prefixed bincode messages on one connection; each protocol state has an
enum of its own. The files of all batches lie in one folder of the head node:
users write to it, node tasks read from it, the schedule deletes from it, and
only the names keep them apart. On a node everything a batch or a job leaves
behind lies in one directory. No queue is persisted: a head node that stops has
forgotten every batch, so there is no recovery to model.

**What is hard.** Reports, requests and kills of many node tasks interleave in
one channel. A job is removed from the queue before anybody has written it to a
connection. Each of some forty error paths must either return the job or not,
and either keep the connection or replace it, on both sides consistently. A
cancellation races with the end of the job. Messages are distinguished only by
the index of their variant, and bodies only by the bytes each side has counted.
Files are deleted while others may still need them. `PROJECT.json` lists these
hazards at their lines.

**What makes it correct.**
* Schedule and job pool: a job is in one place; a report finds its job; a set is
  dropped when and only when it is done; nodes run only batches they have built
  and may run; kills reach running jobs; batches complete.
* Node task and node: both agree on state and job; a job held is reported;
  neither side waits for ever; a kill stops the job it is for and no other.
* Files: what is sent arrives whole, once and under its own name; a batch is
  queued only with its files, and they stay until it has ended; a job finds its
  own files and nothing else, and its results are its own.
* Pause: whoever is stopped will be resumed.

## 2. Modules

```
Schedule ── JobPool ── JobPoolProofs ── JobPoolLedger
               └─ MCJobPool (constants)
NodeTask   JobLedger                 (promises)
NodeLink ── NodeLinkProofs
UserLink ── UserLinkProofs
FileDelivery   FileStream ── FileStreamProofs
BatchFiles ── BatchFilesProofs, MCBatchFiles
WorkDir ── WorkDirProofs, MCWorkDir
Pause ── PauseProofs, MCPause

JobPool    ⇒ JobLedger     (KeepsLedger)      proved
JobPool    ⇒ NodeTask      (KeepsNodeTasks)   proved
FileStream ⇒ FileDelivery  (KeepsDelivery)    proved
NodeLink   ⇒ NodeTask      (KeepsNodeTask)    proved
```

**Schedule** has no state: each function of the `Schedule` trait and of `JobSet`
that is ever called is an operator on the map (`FetchResponse` is what
`fetch_new_task` answers, `AfterFetch` what it leaves behind). `remaining_jobs`
is a stack as in the code: `next_job` pops the last, a job that comes back is
pushed on top.

**JobPool** has one action per request the job pool serves (`HandleNewJob`,
`HandleFinishJob`, `HandleDeadNode`, `HandleAddJobSet`, `HandleKill`,
`HandleKillInVain`), and per node the actions of `run_node` from `uninit` to
`receive_files`. `phase[n]` is the protocol state, `compiled[n]` the job
identifier that the states carry along, `held[n]` the `RunTaskInfo`, `reply[n]`
the oneshot channel, `cancelled[n]` the flag of `wait_job_execution`. The
channel is a bounded sequence and `Send` waits for room. The compute node and its
link appear as what the node task sees: an answer, or a *mishap*. In all modules
mishaps are named, chosen per instance by `Mishaps` and counted by `MaxMishaps`;
without one everything answers as it should.

**JobLedger** is the promise, in six actions on tickets: a job waits, is out at
one node, and is settled once. The refinement mapping (`Tickets` in JobPool)
derives a ticket's place from the lists of its set, the channel and the node
tasks; a running job that nobody will account for has no place in the ledger.

**NodeTask** is what the scheduler may rely on in a node task. JobPool's node
tasks behave like it (so JobPool does not use a node task in a way the code has
not), and NodeLink's server half implements it with messages (so the real
exchange provides it). It is the joint between the two models.

**NodeLink** is one node task and one compute node, step by step. `at` holds the
protocol state of both. A read is an action that needs the head of `inbox`, a
write appends to the peer's. Unit messages of different enums are *the same
value* when their variant index is the same (`Zero` is `RequestVersion`,
`ReturnPrepareBuild`, `Cancelled`, ...), and `Enum` says which tags a state's
enum decodes; anything else is a deserialization error, which the code treats as
a TCP error. What `is_tcp_error` separates is modelled on each side: a TCP error
replaces the connection (`connect`, `accept`), any other starts over on the same
one. A failure with a file is a third kind: a large file that can no longer be
opened after it was announced (`MissesLargeFile`), and one that cannot be flushed
(`CopyFails`), are panics. On the node that ends the process; on the head node it
ends the node task (`TaskGone`), which `server_command` has spawned and never looks
at again. The connection is in one of four states as the server sees it: none, in the
backlog of a busy node, joined, or dead. The job pool appears as the answers it
may give.

**UserLink** is one command of the user and the task that serves it, with the
arguments chosen at the start: `add` (dry or not), `kill`, `server-status`,
`pull` (dry or not, with filters). `user` and `server` are the places in the code
at which each side reads, writes or waits. Four enums travel on this
connection, again told apart by indices only: `UserReads` and `ServerReads` say
what each place can decode. The job pool appears as the answers it may give, or
as gone (`pool`). A large file that breaks off is a message `part`, whose rest
never comes; a side that has given up a large file reads what is left of it as
the length of a message (`stray`).

Assumption of NodeLink and UserLink: a message with a body never decodes as
another with a body, and the contents of a file never decode as a message that
fits the place where they are read. bincode's `DefaultOptions` rejects trailing and
missing bytes, and the bodies do not fit each other.

**FileStream** goes below the messages: one list of files through one
connection. `written` and `read` count all bytes of the stream; `at` is the
place in `send_files` and `transport_from_reader`, `place` the one in
`receive_files`, `read_buffer_bytes` and `receive_to_writer`. A length prefix,
a message and a large file arrive in portions of any size that is in flight. The
source of a large file is read in chunks of `BufferLen`, and the file may become
shorter or vanish after its length was announced. A received file may not be
created, or not be written to its end: a small one is then acknowledged all the
same and stays in part, a large one breaks off the connection. **FileDelivery** is
what this promises the callers: in order, once, and whole, except a file that one
side had an error with (`given_up`), of which a part may stay.

**BatchFiles** follows the files of a batch: their names are computed as
`filename_hash` does, with the concatenation of what is hashed for the digest;
`Submit`, `StoreFile` and `Queue` are `add_job_set`, `TakeBuild`, `TakeJob` and
`SendFile` the node tasks that read the folder, `FinishJob` and `CancelBatch` the
schedule that deletes (stopping at the first file that is missing, as
`delete_files` does). A batch of any name may be submitted at any time, as nobody
looks for one of the same name; `shared` keeps those that were under way together
with a namesake. Files of one name replace each other, on the head node and on the
node. A file that the head node cannot create, or not write to its end, is
acknowledged and sent on as it is; failures on the node's disk are left to
FileStream and WorkDir.

**WorkDir** is the directory of one node, or of `distribute run`: which folders
are emptied or made anew at which step of which protocol state, what is put
into them, which are mounted, where the current directory of the process is,
and the process of a cancelled job that goes on writing. A file's content is its
owner, so the properties can ask whose file it is. Each removal and each creation of
a folder may fail or stop half-way (mishap `folder`) with what the code makes
of the error, mostly nothing; `dir` says of each folder whether it is whole, missing,
or has something left that was to be removed, and `unmade` which mounts could not
be created.

**Pause** has the processes of a machine (which begin, fork, change their command
lines and exit at any time; a child has its parent's command line until its exec) and any number of invocations of `distribute pause`, each scanning `/proc`
entry by entry, then searching its list once for children, then sending signal
after signal. The duration is a choice of the moment at which the sleep ends;
Ctrl-C makes the same choice.

## 3. Runs and bounds

| Run | Question | Bounds and why they suffice |
|---|---|---|
| `safety` | `TypeOK`, `JobHeldOnce`, `AccountedJobsRun`, `JobListedOnce`, `AnswersExpected`, `RunsWhatItBuilt`, `OnlyKilledSetsLinger`, and the refinements `KeepsLedger`, `KeepsNodeTasks` | two nodes, one with a gpu; a batch of two jobs for both and one for the gpu, whose node may fail to build the first; one kill, any one mishap but the lost order. A job can be handed out, returned, handed to the other node and finished while the other job's report is in the channel; a channel of 2 fills. 291 116 states |
| `kill` | `KillReachesJobs` | two batches of the same name, two kills, so that the second can hit a batch while the first cancellation is unread; `CancelCap` 2. 826 831 states |
| `liveness` | `BatchesComplete`, `RunningJobsSettle`, `KilledJobsEnd` | one job per batch, one kill, one mishap. 110 293 states |
| `link_safety` | `NoPanic`, `RunsHeldJob`, `StoresOwnFiles`, `FinishedJobsRan`, `KillsHeldJob`, and the refinement `KeepsNodeTask` | two batches, two jobs, one file per transfer (small or large), two kills and any four mishaps of all twelve kinds; nodes of two versions. Two jobs make stale messages of the first meet the second; four mishaps make an error strike during the recovery from another, twice. 411 149 states |
| `link_liveness` | `NoStandoff`, `HeldJobsReported`, `NodeKeepsAsking`, `KilledJobStops` | two jobs, two mishaps, of the kinds after which no two sides wait (below), panics included. 51 392 states |
| `stream` | `CountsAgree`, `AnswersMatch`, `TransferEnds`, and the refinement `KeepsDelivery` | three files, a length prefix of 2 bytes, messages of 1 and 2, large files of 4 and 5 against a chunk of 3 and a socket of 4: lengths, bodies and chunks end inside and at the end of a portion, a chunk is full or not, the socket fills. Three of all mishaps but `grow`, so that a third file follows two that went wrong. 520 370 states |
| `user` | `AddedMeansQueued`, `QueuedIsComplete`, `PulledWhatWasAsked`, `SavedAreOwn`, `CommandsEnd`, `TransfersEnd` | every command with every combination of its arguments, a small file, two large ones and a folder, three mishaps: an error before, in and after the large-file handshake, one with the next large file, and one on the way out. 85 790 states |
| `files` | `JobsRunOnTheirFiles`, `NeededFilesAreThere` | four submissions: one that `distribute add` refuses, one name in two namespaces, and that name again in one of them, a python batch whose jobs share file names and one of which has an alias that hides another of its files; two nodes, two mishaps: a kill or a broken submission meets a file that is stored in part. 3 763 123 states up to symmetry of the nodes |
| `workdir` | `InputsAreOwn`, `ResultsAreOwn`, `MountsAreThere` | a python batch, a container batch with two mounts and one with one, two jobs, two mishaps: a cancelled process keeps a folder from being removed, and a folder that could not be removed or made meets a broken transfer. 1 906 757 states |
| `pause` | `NobodyLeftStopped`, `PausedWhole` | two pauses, three processes: a job, its child, its grandchild, or two trees; two changes of command lines (`MaxExecs`), so that one process becomes that of a job and is one no more, or two are each caught between fork and exec. 5 320 965 states up to symmetry of the pauses |

Two runs show a violation, each a finding in `PROJECT.json`:

| Run | What the code does |
|---|---|
| `handoff_lost` | a link that fails while the execute order is written loses the job: no `DeadNode` is sent, it stays in `running_jobs` |
| `override` | after `OverrideWithCancellation` the node goes to `prepare_build` and the server to `receive_files`: both wait, and the job is held for ever |

Mishaps left out of a passing run are ones the code does not survive. `safety`
and `liveness` leave out `handoff`. `liveness` also leaves out `keepalive` and
`late`, whose consequences are standoffs that only NodeLink describes.
`link_liveness` leaves out `late` (run `override`), `keepalive_built` and `read`
(section 4), and `bind` (irrelevant to its questions). `stream` leaves out `grow`
(section 4). `MaxMishaps`, `MaxKills`, `MaxBatches`, `MaxJobs`, `MaxFiles`, `MaxExecs`
and `Pids` bound the environment, never the program.

Deadlock is checked except in `link_safety`, `link_liveness`, `stream`, `files`,
`user`, `workdir` and `pause`: a transfer or a command ends, `distribute run` stops,
all batches are done, all processes exit, and the mishaps of `link_safety`
include ones after which the system really stands still. In `link_liveness` the only
such state is that of a node task that has panicked; that nothing else stops is what
`NoStandoff` and `NodeKeepsAsking` say.

Each module has one type invariant. That of JobPool is checked in `safety` and
proved; those of NodeLink, UserLink, FileStream, WorkDir, Pause and BatchFiles
are proved and not among the properties of their runs: they say less than those
do.

`kill` has as many kills as the broadcast channel holds (`CancelCap` = `MaxKills`
= 2), so the channel never overflows there. With `CancelCap = 1` TLC finds the lost
cancellation: the channel of the server holds 20 (`server/mod.rs:104`), so 21 kills
during one build lose the oldest, although `protocol/mod.rs:28-31` counts on "a full
history of whats being cancelled". It is a listed hazard.

## 4. Known deviations without a run of their own

These came up while modelling. The models behave like the code, and the
properties are stated so that they hold with them or name them.

* A batch killed while none of its jobs runs is never removed: only `finish_job`
  drops a set. `OnlyKilledSetsLinger` says that nothing else leaves an empty set.
  A later batch of the same name cannot be killed.
* The job of a killed batch is queued again when its node fails, and then runs.
* A batch no node can build never leaves: `MarkBuildFailure` is never sent. In
  `liveness` one node can build every batch.
* A built node that misses a keepalive takes the server's `RequestVersion`, sent
  on the old connection, for `ReturnPrepareBuild`: both wait (`node.rs:41`). With
  `keepalive_built` among the mishaps of `link_liveness`, TLC finds `NoStandoff`
  violated. `NobodyStandsOff` proves that of all mishaps only this, a kill
  that comes too late and the large file of the next item lead there.
* A large file that cannot be read once it is announced leaves sender and
  receiver waiting, since the error of `transport_from_reader` is dropped
  (`sender.rs:333`).
* A large file that grows while it is sent is sent beyond the length announced,
  and the rest is read as a message. Whoever writes to the file would be
  another program; `grow` is in the model and in no run, and the theorems about
  FileStream assume `NoGrowth`.
* A large file that can no longer be opened after it was announced and awaited is a
  panic (`sender.rs:320-325`), and so is one that cannot be flushed
  (`receiver.rs:350`), although the comment at `sender.rs:269-270` says "The only
  possible error from this function is if the TCP connection is cut". The node ends.
  On the head node it is the node task that ends, with the job it holds:
  `server/mod.rs:140-148` spawns it, and nobody starts it again or returns the job.
  `HeldJobsReported` and `NodeKeepsAsking` except exactly this (`TaskGone`);
  `NoStandoff` need not, since nobody waits on the connection of a task that is gone.
  In JobPool such a task is one that takes no more steps, which its safety
  properties allow for; its liveness assumes that none panics.
* A small file that cannot be created, or not be written to its end, is logged and
  acknowledged like any other (`receiver.rs:281-293`), and what was written stays. The
  last write of a tokio file that is not flushed may fail without even a log line.
* The process of a cancelled job is not stopped (`execute.rs:371`) and goes on
  writing. `WorkDir` shows that it does not reach the inputs and results of the
  next batch, as the directory is made anew in between, unless that fails:
* the error of `remove_dir_all` is dropped (`utils.rs:113`), then `create_dir` fails as
  the directory is there, and `prepare_build.rs:50-57` ignores that; a process that
  still writes can bring it about. The next batch is then built among the files of
  the last. Errors of `clean_distribute_save` and `clean_input` are only logged
  (`built.rs:56-80`), and of a failed job folder what remains is input or result of
  the next job. `InputsAreOwn` and `ResultsAreOwn` except the folders that still hold
  something that was to be removed (`Cleaned`), and say that nothing else brings
  foreign files there. A folder that is missing is made again by `receive_files`, but
  `clean_input` gives up when there is no `input` to remove: a job then runs without
  the initial files of its batch, which `InputsAreOwn` allows after an error only.
* A folder to be mounted that cannot be made is only logged ("This will create errors
  in the future", `execute.rs:35-37`), and the batch goes on without it.
  `MountsAreThere` excepts it (`unmade`).
* A job whose node cannot listen on its cancel port is stopped and reported as
  `Cancelled`, though nobody killed it (`executing.rs:464`): `return_on_cancellation`
  returns its error, and the arbiter takes any return for a cancellation.
* Standoffs of a user's command, both sides waiting on a sound connection, are five
  (`Standoff` in UserLink, which `CommandsEnd` excepts): a pull of a batch that does
  not exist; a large file of a pull that cannot be opened once announced, or breaks
  off in the middle, which is only logged (`user_conn.rs:480-488`); one of an `add`
  that breaks off, whose error is dropped (`sender.rs:327-331`); one that the server
  cannot write, after which it is back in its main loop and acknowledges nothing; and one
  that the user cannot create or write, whose bytes the server sends all the same
  and the user then reads as the length of a message.
* A server that cannot make the folder for the files of a batch has already told the
  user to send them, and reads them in its main loop (`ServerMisreads`).
* `kill.rs:16` is an `unreachable!` that a job pool that has stopped reaches; the
  command ends in a panic (`panicked`).
* A submission repeated after the connection broke before the answer is a
  second batch. Within one submission `QueuedIsComplete` says `queued <= 1`.
* Nobody looks whether a batch of the name is queued already. The documentation asks
  the user to keep names unique (`docs/src/python.md:61`, `apptainer.md:60`,
  `configuration.md:214`) and speaks of the results; but the input files are shared
  as well, and the first of the two to end deletes them under the other. The
  properties of BatchFiles except batches that were under way with a namesake
  (`shared`).
* Files of one name in one transfer replace each other: of a required file of a job and
  one with its name as alias only the last arrives. `Complete` asks for the last.
* The names of stored files are hashes of a concatenation without separators
  (`hashing.rs:83-102`). Batch `a` in namespace `bc` and batch
  `ab` in namespace `c` share their files; with these two as `Configs` TLC finds
  `JobsRunOnTheirFiles` violated. `SeparateConfigs` has no such pair, and the
  theorems about BatchFiles exclude such pairs (`NamesTellApart`).
* Mounted folders are kept from one job of a batch to the next;
  `docs/src/apptainer-storing-results.md:9-11` suggests that each job starts with
  empty ones. `MountsAreThere` asks for folders of the batch. After `distribute run`
  they are gone, as `BindingFolderState` removes them when it is dropped, where
  `docs/src/apptainer-running-locally.md:113-116` lists them among the results.
* What a build writes to its output is wiped before anything is sent, where
  `docs/src/configuration.md:155-175` has it returned.
* The first of two overlapping pauses to end also resumes what the other has
  stopped, and once process ids wrap, the single pass of `find_all_child_procs`
  can miss a grandchild that stands before its parent in `/proc`. `PausedWhole`
  excepts the former, and holds for ids that grow.
* `docs/src/commands.md:138` has a pause stop "all locally running jobs". One that is
  read between the fork and the exec of its first process is missed, and the command
  `apptainer run --nv --app distribute` of `execute.rs:248-258` does not have the
  pattern `apptainer run --app distribute` of `pause/mod.rs:35`: only the
  `/bin/sh /scif/apps/distribute` it starts has one. `PausedWhole` is about the
  processes that have one of the three patterns when the pause begins and keep it,
  with all their descendants, these between fork and exec or not.

## 5. Fairness

JobPool: weak fairness of the job pool task and of each node task, which are
tokio tasks that are always polled again. Users and failures are not fair:
nobody has to submit, kill or fail. `NodeStep` includes answers of the node, so
a job that is running ends: without that no batch completes. `RequestCap` is 2
in `liveness`: tokio's mpsc serves waiting senders in order, while weak fairness of a
node whose `Send` is enabled now and then promises nothing, so the channel must
have room for each node.

NodeLink: weak fairness of the server's task, the node's task and the arbiter's
task. Jobs need not end, kills need not come, a stopped node need not start
again; `HeldJobsReported` and `NodeKeepsAsking` say so as premises (`JobsEnd`,
"the node stays up", and that the node task does not panic), and `KilledJobStops`
needs none of them. No task is fair once it has panicked.

FileStream and UserLink: weak fairness of each of the two sides, which are
loops of awaits on one connection. Neither mishaps nor a cut are fair.

BatchFiles, WorkDir and Pause check safety only and need none.

## 6. What is proved

All theorems hold for every value of the constants that satisfies the named
assumption of the module. `THEOREM Invariance` of each is the inductive
invariant the others follow from; one lemma per action shows that the action
keeps it.

**JobPoolProofs** (assuming `BatchesAssumption`, batches are records with
distinct job names, `CapsAssumption` and `PoolAssumption`; all mishaps, the lost
order included):

* `TypeCorrect`: `TypeOK`, with the bound of the channel;
* `MutualExclusion`: `JobHeldOnce`, a job is with one node task or in one
  report, never in two places;
* `ReportsFindTheirJob`: `AccountedJobsRun`, so the branches of `finish_job` and
  `add_job_back` logged as "This should not happen" are dead;
* `ListedExactlyOnce`: `JobListedOnce`;
* `OnlyKillsLeaveEmptySets`: `OnlyKilledSetsLinger`, if no batch comes without
  jobs (`NoEmptyBatch`, which `distribute add` checks and the server does not).

They follow from

    IInv == TypeOK /\ JobListedOnce /\ AccountedJobsRun /\ JobHeldOnce /\ BusyHolds

None of the parts is inductive alone. `JobHeldOnce` is broken by a hand-out
unless the job handed out, which comes from the queue, is not also running
(`JobListedOnce`) and everybody who has a job has a running one
(`AccountedJobsRun`). `AccountedJobsRun` is broken by a report that takes the job of
another off the list, unless only one party has it (`JobHeldOnce`).
`JobListedOnce` is broken when a returned job is queued that is queued already,
so the report must be about a running one (`AccountedJobsRun`). `BusyHolds`
(a node task in a phase of a job holds one) makes a report name a job at all.
The facts about JobSet's operations they rest on open the module.

The second half of the module adds `BuildInv`: `NodeFits` says for each node task that what it
has built, holds and was answered fits its phase, `RequestsFit` that a request
in the channel names what its sender has built and that no node task asks twice.
The point is that a node task that waits for an answer stands still, so the
answer finds it where the request left it. From it follow

* `NoPanickingAnswer`: `AnswersExpected`, the `panic!` of `built.rs:220` is dead;
* `RunsOnlyWhatItBuilt`: `RunsWhatItBuilt`, although `job_by_id` checks neither
  capabilities nor build;
* `UsesNodeTasks`: `KeepsNodeTasks`, every node task moves as NodeTask allows;
* `KillsAreHeard`: `KillReachesJobs`, under `NothingLost`: no more kills than the
  broadcast channel holds, no cancel port that refuses, and no link that fails
  under a job. Each part is needed: a node that lags loses the oldest
  cancellation, and a job that is returned to a killed set is handed out again to a
  node that may have read the cancellation before. `KillInv` adds that killed
  sets have no jobs left (`KilledEmpty`) and that what a node has yet to read and
  what is yet to be broadcast was asked for (`RoomLeft`, a count of the channel),
  so that no broadcast pushes another out.

**JobPoolLedger** proves `ImplementsLedger`: without the mishap `handoff`,
`Spec => KeepsLedger`. The invariant `LedgerInv` adds `NoneLost` (a job on a list
of running jobs is with its node or in its report), the one part that `handoff`
breaks, which is what run `handoff_lost` shows. The mapping chooses the place of
a ticket; `PlacesAreTickets` shows that the choice is none, as each job is in one
place (`JobHeldOnce`, `JobListedOnce`, one running entry per job). For each step it is
then enough to say which places it keeps and which it changes (`...Keeps`,
`...Stands`).

**FileStreamProofs** (assuming `StreamAssumption` and `NoGrowth`, for all sizes of
prefix, chunk, socket, messages and files): `BothCountTheSame`,
`AnswersFindTheirItem`, `ImplementsDelivery`, `TypeCorrect`. The invariant
gives for every place of the sender the bytes it has written and for every
place of the receiver those it has read, both counted from the start of the item
(`Counts`, `Places`), and what is stored of the file (`Stored`). The agreement of
lengths alone is not inductive: it rests on the receiver being at the item the
sender is at, which rests on the sender waiting for the answer to each. That a file
which is passed is whole or given up rests on who reports the error: the receiver
before it acknowledges, the sender before it goes on.

**WorkDirProofs** (assuming `WorkDirAssumption`; all mishaps, any number):
`InputsOfTheJob`, `ResultsOfTheJob`, `MountsStay`, `TypeCorrect`, from

    IInv == TypeOK /\ Placed /\ Alone /\ Saved /\ Mounted /\ Inputs

which follow each folder from where it is emptied to where it is used: `Alone`
says that a cancelled process has nothing left to write to once the next build
begins in a directory that was really removed, `Saved` what is in `distribute_save`,
`Inputs` what has arrived in the folders of the initialization and of the job,
`Mounted` which folders exist but for `unmade` ones. Each says something of a folder
only while nothing is left in it that was to be removed (`Cleaned`), and each removal
that succeeds restores it. The file operations may fail any number of times.

**PauseProofs** (assuming `PauseAssumption`; any number of pauses and processes,
with or without wrapping ids, terminals closed or not): `StoppedWillResume`,
`TypeCorrect`. `NobodyLeftStopped` is inductive with the types: each pause owes a
resumption to whoever it has stopped, and gives up only the debts it has paid.

`JobsStandStill` proves `PausedWhole` if ids do not wrap (`~Wraps`), from

    IInv == TypeOK /\ IdsGrow /\ ScanKnows /\ ListKnows /\ ListHeld

A child has a larger id than its parent (`IdsGrow`), and `/proc` is read in the
order of ids, so one pass over what was read finds all descendants. Processes exit
and lose their parents while it is read: `ScanKnows` says what a pause knows of the
processes read so far that were there when it began, `ListKnows` that its list
has whatever is left of the jobs of that time, `ListHeld` that who has had the
signal stands still unless another pause has let it go on. The descendants of a process (`OfJob`) are the smallest set
that holds it and is closed under children, so that no recursion is needed. The
command line of a process may change at any time: what the invariant says of the
jobs, it says of the processes that had the command line of one when the pause
began and have kept it (`JobsOf`), and of their descendants whatever these run.

**BatchFilesProofs** (assuming `FilesAssumption` and `ConfigsAssumption`, which
types the configurations; any batches, nodes and number of mishaps):

* `FilesStayOnDisk`: `NeededFilesAreThere`;
* `JobsHaveTheirFiles`: `JobsRunOnTheirFiles`;
* `EqualWidthsTellApart`: names that are each of one width satisfy the hypothesis
  of the two above;
* `TypeCorrect`, without that hypothesis.

The hypothesis is `NamesTellApart`: accepted batches that differ in name or
namespace have no digest in common, and neither have two jobs of one batch. It is
about what users submit and not about the code, which joins the names without
separators and so does not provide it (section 4). Batches may well have one name;
those that are under way together with a namesake (`shared`) are excepted by the
properties themselves, which hold again of a later batch of that name. The batches of run `files` satisfy it: all their names
have one letter.

    IInv == Bookkeeping /\ FilesHold
    Bookkeeping == TypeOK /\ Listed /\ Phased /\ Held /\ Begun
    FilesHold == OneOfAName /\ StoredStand /\ NeededFilesAreThere
                   /\ \A n \in Nodes : TransferGot(n) /\ BuildGot(n)

`NeededFilesAreThere` is not inductive: a batch is queued with what it has stored
by then, so `StoredStand` follows the files that have arrived of a batch that is still
being sent, and the deletions of a batch that ends must not hit it, for which
no other batch of its name may be under way (`OneOfAName`). `JobsRunOnTheirFiles`
needs what a node has got so far of its transfer (`TransferGot`) and what it
has built with (`BuildGot`). Both hold only while the batch has jobs, as a
kill deletes files during a transfer: the files of a batch and of its jobs go when
nobody will ask for them again, which needs that a job is with one node and on one
list (`Bookkeeping`). TLC was given `IInv` in the instance of `files` first.

That two files of a batch have different paths, unless they are the same file
(`PathsTell`), and that two batches have no path in common (`PathsApart`), follows
from a table of the paths by their places (`FilesNamed`). What `FlattenSeq`
computes, which is defined by recursion, is proved with a least counterexample
(`LeastNumber`, `FlattensExists`, `FlattensFacts`).

**NodeLinkProofs** (assuming `LinkAssumption`; all mishaps, any number of them,
of batches, jobs, files and kills):

* `NodeTaskKept`: `Spec => KeepsNodeTask`. With `UsesNodeTasks` above it closes
  the joint: the scheduler's model takes no more from a node task than the
  exchange of messages provides;
* `OwnFilesStored`: `StoresOwnFiles`, no file of an earlier transfer is stored
  for the job of a later one;
* `HeldJobRuns`: `RunsHeldJob`, on a connection that the node serves the job the
  server waits for is the one that runs;
* `FinishedHaveRun`: `FinishedJobsRan`, what counts as finished has ended on the
  node, though `Three`, `One` and `Two` mean other things in other enums;
* `HeldJobKilled`: `KillsHeldJob`, the contact without a name stops the right job;
* `NeverPanics`: `NoPanic`, the `unreachable!()` of `connect_to_host` is dead;
* `NobodyStandsOff`: `NoStandoff`, if `late`, `keepalive_built` and `read` are not
  among the mishaps. With any of the three the code does come to a standstill
  (section 4); every other mishap may happen any number of times;
* `TypeCorrect`.

The first and the last follow from `Inv`: what each side knows in each of its
states (`ServerKnows`, `ClientKnows`), which rests on a message carrying what its
variant says (`Wires`). `Inv` says nothing of which messages can be under way, and
needs not there: a stale one moves the server to a state it may be in anyway, or
to `uninit`. The properties of both sides need it, as a message is only an index:
whether a `Zero` is a request, a cancellation or a failed build depends on where
the reader stands. They follow from `Inv /\ LinkInv` (`LinkHolds`), with

    LinkInv == ArbiterWorks /\ Ran /\ Loose /\ (Talking => Together)

`Together` is a table of the pairs of states that go together while both sides
share a connection, each with the two inboxes: `Builds`, `Runs` and `Results` are
the exchange as it is meant, `Refuses` the node that could not make its directory,
`Greets` and `Strays` a server that has started over on the same connection while
the node is still somewhere in the earlier talk. A broken connection ends the
table but not the talk, as each side goes on to read what had arrived: `Loose`
says for each side alone what it can still find (`NodeReads`, `ServerReads`), and
what relates the two even then (`Apart`). Neither is inductive alone. A side that
reads keeps `Loose` only if what is behind the message fits its next state; and
when a new connection is joined `Together` must follow from `Apart`, which says
that a server with a job left a node that had its batch built. `Ran` ties a result
under way to the end of its job, and `ArbiterWorks` the arbiter to the job it is
for, on which `KillsHeldJob` rests. TLC was given `Inv` and `LinkInv` as
invariants of `link_safety` first.

**UserLinkProofs** (assuming `UserAssumption`; any files and folders, any number of
mishaps):

* `QueuedInFull`: `QueuedIsComplete`, a batch is queued once and with its files,
  wherever the connection breaks;
* `AddedIsQueued`: `AddedMeansQueued`, the acknowledgement of a file, which is the
  same message, is never taken for "added";
* `PullIsComplete`: `PulledWhatWasAsked`;
* `SavedIsOwn`: `SavedAreOwn`;
* `TypeCorrect`.

The invariant is again a table of places and messages (`AddTalk`, `PullTalk`,
`ShortTalk`), and each entry accounts for the files: those saved, those one side
has given up and those still to come are together all that were asked for
(`Counted`). That is why a batch that is queued is complete, and it is inductive
only with the table, which says that an acknowledgement is of the file just sent
and not of the one before. A command that has failed and a connection that is cut
leave the table; `AddKept` is what remains true of a server that goes on by itself.
TLC was given the invariant in the instance of `user` first.

## 7. What is only model-checked

Liveness, which is out of the prover's reach: `BatchesComplete`,
`RunningJobsSettle`, `KilledJobsEnd`, `HeldJobsReported`, `NodeKeepsAsking`,
`KilledJobStops`, `TransferEnds`, `CommandsEnd`, `TransfersEnd`.

All other invariants, action properties and refinements of the passing runs are
proved. `NoStandoff`, `KillReachesJobs`, `KeepsLedger`, `OnlyKilledSetsLinger`,
`PausedWhole`, the two properties of BatchFiles and the theorems about FileStream hold
under the hypotheses named with them, which the instances of their runs satisfy.
Without them the code does otherwise (sections 3, 4 and 6).

## 8. Plan

Done: every component of the inventory but those of section 9, with a proof of
every safety property. Left: a connection that swallows messages without an error.
Every state but the executing one waits for ever then, so the properties to state
are about what the keepalive does reach.

## 9. What is not modelled, and why

* Parsing of yaml files and of durations, normalisation of paths, templates,
  slurm export, command line: text handling without state. What a parsed
  configuration leads to is in BatchFiles.
* Matrix messages and logging: they change no state of the system. The status
  queries are in UserLink as far as the connection is concerned.
* Python bindings: they write configuration files.
* Connections that are silently dead (section 8).
* Children that a finished job leaves behind on the node.
* Failing reads of the shared folder by a node task, and of a node's own disk, in
  BatchFiles: there a file that the head node has is sent and stored; FileStream and
  NodeLink have the failures of a transfer, WorkDir those of the node's folders.
* The panics of a node task in JobPool's liveness (section 4).
* `clear_remaining_jobs` returns early on a deletion error, but has drained all
  jobs by then: JobPool has the drained jobs, BatchFiles the deletion that stops.
