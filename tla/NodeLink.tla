------------------------------ MODULE NodeLink ------------------------------
(***************************************************************************)
(* One node task of the head node and the compute node it drives, as the   *)
(* two halves of the protocol of src/src/protocol: handshake, build, job,  *)
(* results, and the transfer of files between them.  The job pool appears  *)
(* as the answers it may give (JobPool models it).                         *)
(*                                                                         *)
(* Every state of the protocol reads one enum, and bincode writes the      *)
(* index of a variant, not its name: messages without a body are told      *)
(* apart by that index only, and one sent from one state can be read as    *)
(* another in a state it was not meant for.  A body is never read as a     *)
(* body of another type, since bincode rejects missing and trailing bytes. *)
(* A message that cannot be read is a TCP error for the reader.            *)
(***************************************************************************)
EXTENDS Naturals, Sequences

CONSTANTS
  Batches,    \* identifiers of the batches the job pool may order to build
  Versions,   \* the versions a compute node may be (re)started with
  MaxJobs,    \* bound on the jobs handed to the node
  MaxFiles,   \* bound on the files of one transfer
  MaxKills,   \* bound on the cancellations that reach the node task
  Mishaps,    \* what may go wrong in this instance
  MaxMishaps  \* bound on how often something goes wrong

MishapKinds ==
  {"cut",              \* the connection breaks
   "crash",            \* the compute node stops, and may be started again
   "keepalive",        \* a node without a batch misses the keepalive check
   "keepalive_built",  \* a node that has built a batch misses it
   "keepalive_job",    \* a node misses it while its job runs
   "mkdir",            \* the directory of the files cannot be created
   "create",           \* a large file cannot be created by its receiver
   "write",            \* a large file cannot be written by its receiver
   "open",             \* a large file cannot be opened by its sender
   "read",             \* a large file cannot be read by its sender, or not all of it
   "bind",             \* the node cannot listen on its cancel port
   "late"}             \* the job ends while its cancellation is delivered

ServerVersion == 1

ASSUME LinkAssumption ==
  /\ Batches \subseteq Nat \ {0} /\ Versions \subseteq Nat
  /\ MaxJobs \in Nat /\ MaxFiles \in Nat /\ MaxKills \in Nat
  /\ MaxMishaps \in Nat /\ Mishaps \subseteq MishapKinds

Sides == {"server", "client"}
Peer(s) == IF s = "server" THEN "client" ELSE "server"

VARIABLES
  at,        \* the protocol state of each side
  step,      \* how far each side is within a transfer of files
  files,     \* the files each side has sent in its transfer
  link,      \* the server's connection, and whether the client serves it
  inbox,     \* what each side has yet to read from that connection
  (* the server *)
  compiled,  \* job_identifier: the batch it has the node build
  held,      \* run_info: the job it waits for
  cancel,    \* the flag of wait_job_execution
  (* the client *)
  version,   \* the version it was started with
  built,     \* build_info: the batch it builds or has built
  running,   \* run_info: the job it runs or whose files it sends
  arbiter,   \* the task that watches the cancel port during a job
  (* bookkeeping of the model *)
  handouts,  \* the jobs handed out
  outcome,   \* what the server has told the job pool of each of them
  ended,     \* the jobs that ran to their end on the node
  kills, mishaps

wireVars   == <<link, inbox>>
serverVars == <<compiled, held, cancel>>
clientVars == <<version, built, running, arbiter>>
noteVars   == <<handouts, outcome, ended, kills>>
vars == <<at, step, files, wireVars, serverVars, clientVars, noteVars, mishaps>>

-----------------------------------------------------------------------------
(* Messages, by the index of their variant                                 *)

Nothing == 0
NoJob   == [ident |-> Nothing]
Job     == [ident : Batches, job_name : 1..MaxJobs]
Batch(b) == [ident |-> b]

Unit(i)  == [tag |-> i, of |-> NoJob]
Zero == Unit("0")  \* RequestVersion, ReturnPrepareBuild, Cancelled,
                   \* OverrideWithCancellation, SuccessfullCompilation, ReceivedFile
One  == Unit("1")  \* VersionsMatched, Continue, Successful,
                   \* FailedCompilation, AwaitingLargeFile
Two  == Unit("2")  \* VersionMismatch, FinishFiles, DontSendLargeFile
Three == Unit("3") \* Failed

ResponseVersion(v) == [tag |-> "version", of |-> [version |-> v]]
InitializeJob(b)   == [tag |-> "build", of |-> Batch(b)]
ExecuteJob(j)      == [tag |-> "job", of |-> j]
SaveFile(of)       == [tag |-> "file", of |-> of]
FileMarker(of)     == [tag |-> "marker", of |-> of]
LargeFile(of)      == [tag |-> "raw", of |-> of]

Tags == {"0", "1", "2", "3", "version", "build", "job", "file", "marker", "raw"}

ServerStates == {"connect", "uninit", "version", "prepare_build", "send_build",
                 "building", "built", "send_inputs", "executing", "receive_results"}
ClientStates == {"down", "accept", "uninit", "verdict", "prepare_build",
                 "receive_build", "building", "built", "receive_inputs",
                 "executing", "stopping", "confirm", "send_results", "panicked"}

\* The states in which a side sends or receives files, and what follows.
AfterSend    == [send_build |-> "building", send_inputs |-> "executing",
                 send_results |-> "built"]
AfterReceive == [receive_build |-> "building", receive_inputs |-> "executing",
                 receive_results |-> "built"]
Sending(s)   == at[s] \in DOMAIN AfterSend
Receiving(s) == at[s] \in DOMAIN AfterReceive

\* The states that read, outside transfers, with the tags their enum has.
Enum == [server |-> [version |-> {"version"}, building |-> {"0", "1"},
                     executing |-> {"0", "1", "2", "3"}],
         client |-> [uninit |-> {"0", "1", "2"}, verdict |-> {"0", "1", "2"},
                     prepare_build |-> {"build"}, built |-> {"0", "job"},
                     confirm |-> {"0", "1"}]]

Reading(s) ==
  \/ at[s] \in DOMAIN Enum[s]
  \/ Sending(s) /\ step[s] \in {"ack", "marker"}
  \/ Receiving(s) /\ step[s] \in {"ready", "raw"}

Decodable(s) ==
  IF Sending(s) THEN {"0", "1", "2"}
  ELSE IF Receiving(s) THEN IF step[s] = "raw" THEN Tags ELSE {"file", "marker", "2"}
  ELSE Enum[s][at[s]]

\* The batch or job whose files a side sends or expects.
Subject(s) ==
  CASE s = "server" /\ at[s] = "send_build"    -> Batch(compiled)
    [] s = "client" /\ at[s] = "receive_build" -> Batch(built)
    [] OTHER -> IF s = "server" THEN held ELSE running

-----------------------------------------------------------------------------
(* The connection                                                          *)

Joined == link = "joined"
Hears(s, tag) == Reading(s) /\ inbox[s] # <<>> /\ Head(inbox[s]).tag = tag
Heard(s) == Head(inbox[s]).of

\* What is written reaches a peer that serves the connection, else nobody.
Arriving(q, m) == IF Joined THEN Append(q, m) ELSE q

Send(s, m)  == inbox' = [inbox EXCEPT ![Peer(s)] = Arriving(@, m)]
Reply(s, m) == inbox' = [inbox EXCEPT ![s] = Tail(@), ![Peer(s)] = Arriving(@, m)]
Read(s)     == inbox' = [inbox EXCEPT ![s] = Tail(@)]

Goto(s, state) == at' = [at EXCEPT ![s] = state]

Enter(s, state, first) ==
  /\ Goto(s, state)
  /\ step' = [step EXCEPT ![s] = first]
  /\ files' = [files EXCEPT ![s] = 0]

Mishap(kind) == kind \in Mishaps /\ mishaps < MaxMishaps /\ mishaps' = mishaps + 1

\* What the server tells the job pool of the job it holds: FinishJob when its
\* results are complete or it was cancelled, DeadNode when it is returned.
Tell(what) ==
  outcome' = IF held = NoJob THEN outcome ELSE [outcome EXCEPT ![held.job_name] = what]

\* Mutant: the task is dropped without a DeadNode.
ServerFails_Silent(to) ==
  /\ Enter("server", to, "ready")
  /\ compiled' = Nothing /\ held' = NoJob /\ cancel' = FALSE
  /\ UNCHANGED <<clientVars, noteVars>>

\* An error ends the node task's work: a held job goes back as DeadNode.
ServerFails(to) ==
  /\ Enter("server", to, "ready")
  /\ compiled' = Nothing /\ held' = NoJob /\ cancel' = FALSE
  /\ Tell("returned")
  /\ UNCHANGED <<clientVars, handouts, ended, kills>>

\* Mutant: run_job keeps using the broken connection.
ClientFails_SameConnection ==
  /\ Enter("client", "uninit", "ready")
  /\ built' = Nothing /\ running' = NoJob /\ arbiter' = "off"
  /\ link' = IF Joined THEN "dead" ELSE link
  /\ inbox' = [inbox EXCEPT !["client"] = <<>>]
  /\ UNCHANGED <<serverVars, version, noteVars>>

\* A TCP error on the client closes its connection.
ClientFails ==
  /\ Enter("client", "accept", "ready")
  /\ built' = Nothing /\ running' = NoJob /\ arbiter' = "off"
  /\ link' = IF Joined THEN "dead" ELSE link
  /\ inbox' = [inbox EXCEPT !["client"] = <<>>]
  /\ UNCHANGED <<serverVars, version, noteVars>>

\* run_node connects again; the backlog of the node's listener answers.
ServerConnects ==
  /\ at.server = "connect" /\ at.client \notin {"down", "panicked"}
  /\ Goto("server", "uninit")
  /\ link' = "backlog" /\ inbox' = [inbox EXCEPT !["server"] = <<>>]
  /\ UNCHANGED <<step, files, serverVars, clientVars, noteVars, mishaps>>

ClientAccepts ==
  /\ at.client = "accept" /\ link = "backlog"
  /\ Goto("client", "uninit")
  /\ link' = "joined"
  /\ inbox' = [inbox EXCEPT !["client"] = IF at.server = "version" THEN <<Zero>> ELSE <<>>]
  /\ UNCHANGED <<step, files, serverVars, clientVars, noteVars, mishaps>>

\* A TCP error while reading.
BreaksOff(s) ==
  IF s = "server" THEN ServerFails("connect") /\ Read(s) /\ UNCHANGED link
                  ELSE ClientFails

\* The process of the compute node ends.
ClientStops ==
  /\ Enter("client", "down", "ready")
  /\ built' = Nothing /\ running' = NoJob /\ arbiter' = "off"
  /\ link' = IF link = "none" THEN link ELSE "dead"
  /\ inbox' = [inbox EXCEPT !["client"] = <<>>]
  /\ UNCHANGED <<serverVars, version, noteVars>>

\* A panic while files are transferred ends the node task for good, with the
\* job it holds and a word to nobody, and no other task looks after it; run_job
\* is part of the main task of the compute node, which ends with it.
Panics(s) ==
  IF s = "server"
    THEN /\ step' = [step EXCEPT !["server"] = "panicked"]
         /\ link' = "dead" /\ Read("server")
         /\ UNCHANGED <<at, files, serverVars, clientVars, noteVars>>
    ELSE ClientStops

TaskGone == step["server"] = "panicked"

\* A connection without a client on its other end fails in the end; where
\* the server only writes, after a message may have been lost on it.
ServerTcpError ==
  /\ link = "dead" /\ at.server \notin {"connect", "built"} /\ ~TaskGone
  /\ ServerFails("connect")
  /\ UNCHANGED <<wireVars, mishaps>>

ClientTcpError ==
  /\ ~Joined
  /\ at.client \notin {"down", "accept", "building", "executing", "panicked"}
  /\ ClientFails /\ UNCHANGED mishaps

\* Mutant: is_tcp_error misses the deserialization errors.
Undecodable_NotTcp(s) ==
  /\ Reading(s) /\ inbox[s] # <<>> /\ Head(inbox[s]).tag \notin Decodable(s)
  /\ IF s = "server" THEN ServerFails("uninit") /\ Read(s) /\ UNCHANGED link
                     ELSE ClientFails
  /\ UNCHANGED mishaps

Undecodable(s) ==
  /\ Reading(s) /\ inbox[s] # <<>> /\ Head(inbox[s]).tag \notin Decodable(s)
  /\ BreaksOff(s) /\ UNCHANGED mishaps

-----------------------------------------------------------------------------
(* Handshake                                                               *)

AsksVersion ==
  /\ at.server = "uninit" /\ Goto("server", "version")
  /\ Send("server", Zero)
  /\ UNCHANGED <<step, files, link, serverVars, clientVars, noteVars, mishaps>>

\* The request is read, and whatever it says taken for a RequestVersion.
AnswersVersion ==
  /\ at.client = "uninit" /\ \E tag \in Enum.client.uninit : Hears("client", tag)
  /\ Goto("client", "verdict") /\ Reply("client", ResponseVersion(version))
  /\ UNCHANGED <<step, files, link, serverVars, clientVars, noteVars, mishaps>>

ComparesVersion ==
  /\ Hears("server", "version") /\ at.server = "version"
  /\ \/ /\ Heard("server").version = ServerVersion
        /\ Goto("server", "prepare_build") /\ Reply("server", One)
     \/ /\ Heard("server").version # ServerVersion
        /\ Goto("server", "uninit") /\ Reply("server", Two)
  /\ UNCHANGED <<step, files, link, serverVars, clientVars, noteVars, mishaps>>

ReadsVerdict ==
  /\ at.client = "verdict"
  /\ \/ Hears("client", "1") /\ Goto("client", "prepare_build")
     \/ Hears("client", "2") /\ Goto("client", "uninit")
     \/ Hears("client", "0") /\ Goto("client", "panicked")
  /\ Read("client")
  /\ UNCHANGED <<step, files, link, serverVars, clientVars, noteVars, mishaps>>

-----------------------------------------------------------------------------
(* Building a batch                                                        *)

OrdersBuild ==
  /\ at.server = "prepare_build"
  /\ \E b \in Batches : compiled' = b /\ Send("server", InitializeJob(b))
  /\ Enter("server", "send_build", "ready")
  /\ UNCHANGED <<link, held, cancel, clientVars, noteVars, mishaps>>

ReadsBuildOrder ==
  /\ at.client = "prepare_build" /\ Hears("client", "build")
  /\ built' = Heard("client").ident /\ Read("client")
  /\ Enter("client", "receive_build", "open")
  /\ UNCHANGED <<link, serverVars, version, running, arbiter, noteVars, mishaps>>

ReportsBuild ==
  /\ at.client = "building"
  /\ \/ Goto("client", "built") /\ Send("client", Zero) /\ UNCHANGED built
     \/ Goto("client", "prepare_build") /\ Send("client", One) /\ built' = Nothing
  /\ UNCHANGED <<step, files, link, serverVars, version, running, arbiter,
                 noteVars, mishaps>>

ReadsBuildResult ==
  /\ at.server = "building"
  /\ \/ Hears("server", "0") /\ Goto("server", "built") /\ UNCHANGED compiled
     \/ Hears("server", "1") /\ Goto("server", "prepare_build") /\ compiled' = Nothing
  /\ Read("server")
  /\ UNCHANGED <<step, files, link, held, cancel, clientVars, noteVars, mishaps>>

-----------------------------------------------------------------------------
(* Handing out a job                                                       *)

\* The job pool wants another batch built.  The write may fail at once.
OrdersReturn ==
  /\ at.server = "built" /\ Batches # {compiled}
  /\ compiled' = Nothing
  /\ \/ Goto("server", "prepare_build") /\ Send("server", Zero)
     \/ link = "dead" /\ Goto("server", "connect") /\ UNCHANGED inbox
  /\ UNCHANGED <<step, files, link, held, cancel, clientVars, noteVars, mishaps>>

\* The job pool has a job of the batch.  If the write fails, the node task
\* does not return the job.
OrdersJob ==
  /\ at.server = "built" /\ handouts < MaxJobs
  /\ handouts' = handouts + 1
  /\ LET job == [ident |-> compiled, job_name |-> handouts']
     IN \/ /\ Enter("server", "send_inputs", "ready")
           /\ held' = job /\ Send("server", ExecuteJob(job))
           /\ UNCHANGED <<compiled, outcome>>
        \/ /\ link = "dead" /\ Enter("server", "connect", "ready")
           /\ compiled' = Nothing /\ outcome' = [outcome EXCEPT ![handouts'] = "dropped"]
           /\ UNCHANGED <<held, inbox>>
  /\ UNCHANGED <<link, cancel, clientVars, ended, kills, mishaps>>

ReadsJobOrder ==
  /\ at.client = "built"
  /\ \/ /\ Hears("client", "job") /\ running' = Heard("client")
        /\ Enter("client", "receive_inputs", "open") /\ UNCHANGED built
     \/ /\ Hears("client", "0") /\ built' = Nothing
        /\ Enter("client", "prepare_build", "ready") /\ UNCHANGED running
  /\ Read("client")
  /\ UNCHANGED <<link, serverVars, version, arbiter, noteVars, mishaps>>

-----------------------------------------------------------------------------
(* Running a job                                                           *)

\* check_broadcast: a connection to the cancel port is the cancellation.
Kills ==
  /\ at.server = "executing" /\ kills < MaxKills
  /\ kills' = kills + 1
  /\ \/ arbiter = "listening" /\ arbiter' = "contacted" /\ cancel' = TRUE
     \/ arbiter # "listening" /\ UNCHANGED <<arbiter, cancel>>
  /\ UNCHANGED <<at, step, files, wireVars, compiled, held, version, built, running,
                 handouts, outcome, ended, mishaps>>

\* Mutant: a contact sets no flag and stops no job.
Arbitrates_Deaf ==
  /\ at.client \in {"executing", "stopping"}
  /\ \/ arbiter = "starting" /\ arbiter' = "listening" /\ UNCHANGED mishaps
     \/ arbiter = "starting" /\ Mishap("bind") /\ arbiter' = "fired"
  /\ UNCHANGED <<at, step, files, wireVars, serverVars, version, built, running, noteVars>>

\* return_on_cancellation also returns if it cannot listen.
Arbitrates ==
  /\ at.client \in {"executing", "stopping"}
  /\ \/ arbiter = "starting" /\ arbiter' = "listening" /\ UNCHANGED mishaps
     \/ arbiter = "contacted" /\ arbiter' = "fired" /\ UNCHANGED mishaps
     \/ arbiter = "starting" /\ Mishap("bind") /\ arbiter' = "fired"
  /\ UNCHANGED <<at, step, files, wireVars, serverVars, version, built, running, noteVars>>

JobEnds ==
  /\ at.client = "executing" /\ Goto("client", "stopping")
  /\ ended' = ended \cup {running.job_name}
  /\ UNCHANGED <<step, files, wireVars, serverVars, clientVars, handouts, outcome,
                 kills, mishaps>>

\* A cancelled job's future is dropped.  Its process goes on: see WorkDir.
JobAborts ==
  /\ at.client = "executing" /\ arbiter = "fired" /\ Goto("client", "stopping")
  /\ UNCHANGED <<step, files, wireVars, serverVars, clientVars, noteVars, mishaps>>

\* Mutant: the result of the process goes out, whatever is_cancelled says.
ReportsResult_IgnoresCancel ==
  /\ at.client = "stopping" /\ Goto("client", "confirm")
  /\ \E m \in {One, Three} : Send("client", m)
  /\ arbiter' = "off"
  /\ UNCHANGED <<step, files, link, serverVars, version, built, running, noteVars, mishaps>>

\* Mutant: the arbiter of a job that has ended goes on listening.
ReportsResult_ArbiterRuns ==
  /\ at.client = "stopping" /\ Goto("client", "confirm")
  /\ \/ arbiter = "fired" /\ Send("client", Zero) /\ arbiter' = "reported"
     \/ arbiter # "fired" /\ UNCHANGED arbiter /\ \E m \in {One, Three} : Send("client", m)
  /\ UNCHANGED <<step, files, link, serverVars, version, built, running, noteVars, mishaps>>

\* Stopping the arbiter leaves it 50 ms to see a cancellation, no more.
ReportsResult ==
  /\ at.client = "stopping" /\ Goto("client", "confirm")
  /\ \/ arbiter = "fired" /\ Send("client", Zero) /\ UNCHANGED mishaps
     \/ /\ arbiter # "fired" /\ \E m \in {One, Three} : Send("client", m)
        /\ IF arbiter = "contacted" THEN Mishap("late") ELSE UNCHANGED mishaps
  /\ arbiter' = IF arbiter = "fired" THEN "reported" ELSE "off"
  /\ UNCHANGED <<step, files, link, serverVars, version, built, running, noteVars>>

\* Mutant: the server stays with the batch it had the node build.
ReadsCancelled_StaysBuilt ==
  /\ at.server = "executing" /\ Hears("server", "0")
  /\ Goto("server", "built") /\ Reply("server", One)
  /\ Tell("cancelled")
  /\ held' = NoJob /\ cancel' = FALSE
  /\ UNCHANGED <<step, files, link, compiled, clientVars, handouts, ended, kills, mishaps>>

\* Cancelled: the node goes back to prepare_build and the job is finished.
ReadsCancelled ==
  /\ at.server = "executing" /\ Hears("server", "0")
  /\ Goto("server", "prepare_build") /\ Reply("server", One)
  /\ Tell("cancelled")
  /\ compiled' = Nothing /\ held' = NoJob /\ cancel' = FALSE
  /\ UNCHANGED <<step, files, link, clientVars, handouts, ended, kills, mishaps>>

\* Successful or Failed: the results are awaited whatever is replied.
ReadsResult ==
  /\ at.server = "executing"
  /\ Hears("server", "1") \/ Hears("server", "3")
  /\ Reply("server", IF cancel THEN Zero ELSE One)
  /\ Enter("server", "receive_results", "open")
  /\ cancel' = FALSE
  /\ UNCHANGED <<link, compiled, held, clientVars, noteVars, mishaps>>

ReadsConfirmation ==
  /\ at.client = "confirm" /\ \E tag \in Enum.client.confirm : Hears("client", tag)
  /\ IF Hears("client", "0") \/ arbiter = "reported"
     THEN /\ Enter("client", "prepare_build", "ready")
          /\ built' = Nothing /\ running' = NoJob
     ELSE Enter("client", "send_results", "ready") /\ UNCHANGED <<built, running>>
  /\ arbiter' = IF arbiter = "reported" THEN "off" ELSE arbiter
  /\ Read("client")
  /\ UNCHANGED <<link, serverVars, version, noteVars, mishaps>>

-----------------------------------------------------------------------------
(* Transferring files, in either direction                                 *)

transferless == <<link, serverVars, clientVars, noteVars>>
Step(s, to) == step' = [step EXCEPT ![s] = to]

SendsFile(s) ==
  /\ Sending(s) /\ step[s] = "ready" /\ files[s] < MaxFiles
  /\ \/ Send(s, SaveFile(Subject(s))) /\ Step(s, "ack")
     \/ Send(s, FileMarker(Subject(s))) /\ Step(s, "marker")
  /\ files' = [files EXCEPT ![s] = @ + 1]
  /\ UNCHANGED <<at, transferless, mishaps>>

ReadsAck(s) ==
  /\ Sending(s) /\ step[s] = "ack" /\ \E tag \in Decodable(s) : Hears(s, tag)
  /\ Read(s) /\ Step(s, "ready")
  /\ UNCHANGED <<at, files, transferless, mishaps>>

\* An error of transport_from_reader, at the first byte or in mid-file, is
\* ignored: the sender waits to hear that the receiver has the file.
ReadsMarkerAnswer(s) ==
  /\ Sending(s) /\ step[s] = "marker"
  /\ \/ Hears(s, "1") /\ Reply(s, LargeFile(Subject(s))) /\ Step(s, "ack") /\ UNCHANGED mishaps
     \/ Hears(s, "1") /\ Mishap("read") /\ Read(s) /\ Step(s, "ack")
     \/ (Hears(s, "0") \/ Hears(s, "2")) /\ Read(s) /\ Step(s, "ready") /\ UNCHANGED mishaps
  /\ UNCHANGED <<at, files, transferless>>

\* The file is gone, or may not be read, once the receiver awaits it.
MissesLargeFile(s) ==
  /\ Sending(s) /\ step[s] = "marker" /\ Hears(s, "1")
  /\ Mishap("open") /\ Panics(s)

FinishesSending(s) ==
  /\ Sending(s) /\ step[s] = "ready"
  /\ Send(s, Two) /\ Enter(s, AfterSend[at[s]], "ready")
  /\ running' = IF s = "client" THEN NoJob ELSE running
  /\ UNCHANGED <<link, serverVars, version, built, arbiter, noteVars, mishaps>>

OpensDirectory(s) ==
  /\ Receiving(s) /\ step[s] = "open"
  /\ \/ Step(s, "ready") /\ UNCHANGED <<at, files, serverVars, clientVars, noteVars, mishaps>>
     \/ s = "server" /\ Mishap("mkdir") /\ ServerFails("uninit")
     \/ /\ s = "client" /\ Mishap("mkdir") /\ Enter("client", "uninit", "ready")
        /\ built' = Nothing /\ running' = NoJob
        /\ UNCHANGED <<serverVars, version, arbiter, noteVars>>
  /\ UNCHANGED wireVars

StoresFile(s) ==
  /\ Receiving(s)
  /\ \/ step[s] = "raw" /\ inbox[s] # <<>>
     \/ step[s] = "ready" /\ Hears(s, "file")
  /\ Reply(s, Zero) /\ Step(s, "ready")
  /\ UNCHANGED <<at, files, transferless, mishaps>>

\* Mutant: a receiver that cannot create the file goes on without a word.
AnswersMarker_Silent(s) ==
  /\ Receiving(s) /\ step[s] = "ready" /\ Hears(s, "marker")
  /\ \/ Reply(s, One) /\ Step(s, "raw") /\ UNCHANGED mishaps
     \/ Mishap("create") /\ Read(s) /\ UNCHANGED step
  /\ UNCHANGED <<at, files, transferless>>

AnswersMarker(s) ==
  /\ Receiving(s) /\ step[s] = "ready" /\ Hears(s, "marker")
  /\ \/ Reply(s, One) /\ Step(s, "raw") /\ UNCHANGED mishaps
     \/ Mishap("create") /\ Reply(s, Two) /\ UNCHANGED step
  /\ UNCHANGED <<at, files, transferless>>

\* An error of the disk while a large file is written counts as one of the
\* connection; one that shows when the file is flushed is a panic.
CopyFails(s) ==
  /\ Receiving(s) /\ step[s] = "raw" /\ inbox[s] # <<>>
  /\ Mishap("write") /\ (BreaksOff(s) \/ Panics(s))

\* The results are complete: the server reports the job as finished.
FinishesReceiving(s) ==
  /\ Receiving(s) /\ step[s] = "ready" /\ Hears(s, "2")
  /\ Read(s) /\ Goto(s, AfterReceive[at[s]])
  /\ \/ /\ s = "server" /\ Tell("finished") /\ held' = NoJob
        /\ UNCHANGED arbiter
     \/ /\ at[s] = "receive_build" /\ UNCHANGED <<held, outcome, arbiter>>
     \/ /\ at[s] = "receive_inputs" /\ UNCHANGED <<held, outcome>>
        /\ arbiter' = "starting"
  /\ UNCHANGED <<step, files, link, compiled, cancel, version, built, running,
                 handouts, ended, kills, mishaps>>

Transfers(s) ==
  \/ SendsFile(s) \/ ReadsAck(s) \/ ReadsMarkerAnswer(s) \/ MissesLargeFile(s)
  \/ FinishesSending(s) \/ OpensDirectory(s) \/ StoresFile(s) \/ AnswersMarker(s)
  \/ CopyFails(s) \/ FinishesReceiving(s)

-----------------------------------------------------------------------------
(* What may go wrong                                                       *)

Cut ==
  /\ Mishap("cut") /\ link \in {"backlog", "joined"}
  /\ link' = "dead"
  /\ inbox' \in {inbox, [s \in Sides |-> <<>>]}
  /\ UNCHANGED <<at, step, files, serverVars, clientVars, noteVars>>

Crash ==
  /\ Mishap("crash") /\ at.client # "down"
  /\ ClientStops

Restart ==
  /\ at.client = "down" /\ Goto("client", "accept")
  /\ version' \in Versions
  /\ UNCHANGED <<step, files, wireVars, serverVars, built, running, arbiter,
                 noteVars, mishaps>>

\* Mutant: the node task goes on as if the handshake had been made.
MissesKeepalive_NoHandshake ==
  /\ \/ at.server = "prepare_build" /\ Mishap("keepalive") /\ UNCHANGED inbox
     \/ at.server = "built" /\ Mishap("keepalive_built") /\ UNCHANGED inbox
     \/ at.server = "executing" /\ Mishap("keepalive_job") /\ Send("server", One)
  /\ ServerFails("prepare_build")
  /\ UNCHANGED link

\* Mutant: a job whose node misses the check is returned, and the next one
\* ordered on the same connection.
MissesKeepalive_BackToBuilt ==
  /\ at.server = "executing" /\ Mishap("keepalive_job") /\ Send("server", One)
  /\ Enter("server", "built", "ready")
  /\ held' = NoJob /\ cancel' = FALSE /\ Tell("returned")
  /\ UNCHANGED <<link, compiled, clientVars, handouts, ended, kills>>

\* Not a TCP error: the node task starts over on the same connection.
MissesKeepalive ==
  /\ \/ at.server = "prepare_build" /\ Mishap("keepalive") /\ UNCHANGED inbox
     \/ at.server = "built" /\ Mishap("keepalive_built") /\ UNCHANGED inbox
     \/ at.server = "executing" /\ Mishap("keepalive_job") /\ Send("server", One)
  /\ ServerFails("uninit")
  /\ UNCHANGED link

-----------------------------------------------------------------------------
(* The specification                                                       *)

Init ==
  /\ at = [server |-> "connect", client |-> "accept"]
  /\ step = [s \in Sides |-> "ready"] /\ files = [s \in Sides |-> 0]
  /\ link = "none" /\ inbox = [s \in Sides |-> <<>>]
  /\ compiled = Nothing /\ held = NoJob /\ cancel = FALSE
  /\ version \in Versions
  /\ built = Nothing /\ running = NoJob /\ arbiter = "off"
  /\ handouts = 0 /\ outcome = [j \in 1..MaxJobs |-> "none"]
  /\ ended = {}
  /\ kills = 0 /\ mishaps = 0

ServerNext ==
  \/ ServerConnects \/ ServerTcpError \/ Undecodable("server")
  \/ AsksVersion \/ ComparesVersion \/ OrdersBuild \/ ReadsBuildResult
  \/ OrdersReturn \/ OrdersJob \/ ReadsCancelled \/ ReadsResult
  \/ Transfers("server")

ClientNext ==
  \/ ClientAccepts \/ ClientTcpError \/ Undecodable("client")
  \/ AnswersVersion \/ ReadsVerdict \/ ReadsBuildOrder \/ ReportsBuild
  \/ ReadsJobOrder \/ JobAborts \/ ReportsResult \/ ReadsConfirmation
  \/ Transfers("client")

Next ==
  \/ ServerNext \/ ClientNext \/ Arbitrates \/ JobEnds \/ Kills
  \/ Cut \/ Crash \/ Restart \/ MissesKeepalive

Spec == Init /\ [][Next]_vars

\* Both processes and the arbiter keep running; nothing makes a job end, a
\* kill request come or a stopped node start again.
FairSpec ==
  /\ Spec
  /\ WF_vars(ServerNext) /\ WF_vars(ClientNext) /\ WF_vars(Arbitrates)

-----------------------------------------------------------------------------
(* Properties                                                              *)

Messages ==
  [tag : Tags, of : {NoJob} \cup Job \cup {Batch(b) : b \in Batches}
                     \cup [version : Versions]]

\* The values the variables of both processes and of the connection take.
TypeOK ==
  /\ at \in [server : ServerStates, client : ClientStates]
  /\ step \in [Sides -> {"open", "ready", "ack", "marker", "raw", "panicked"}]
  /\ files \in [Sides -> 0..MaxFiles]
  /\ link \in {"none", "backlog", "joined", "dead"}
  /\ DOMAIN inbox = Sides
  /\ \A s \in Sides : \A i \in DOMAIN inbox[s] : inbox[s][i] \in Messages
  /\ compiled \in {Nothing} \cup Batches /\ held \in {NoJob} \cup Job
  /\ cancel \in BOOLEAN /\ version \in Versions
  /\ built \in {Nothing} \cup Batches /\ running \in {NoJob} \cup Job
  /\ arbiter \in {"off", "starting", "listening", "contacted", "fired", "reported"}
  /\ handouts \in 0..MaxJobs /\ kills \in 0..MaxKills /\ mishaps \in 0..MaxMishaps
  /\ outcome \in [1..MaxJobs -> {"none", "finished", "cancelled", "returned", "dropped"}]
  /\ ended \subseteq 1..MaxJobs

\* The node never takes the answer to its version for a second question, the
\* unreachable!() of connect_to_host, though stale messages of one byte could
\* be read so.
NoPanic == at.client # "panicked"

\* While the server waits for a job on a connection the node serves, the node
\* runs that job and no other, in the batch the server had it build.
RunsHeldJob ==
  Joined /\ at.server = "executing" /\ at.client \in {"executing", "stopping", "confirm"}
    => running = held /\ built = held.ident

\* What a side is about to store came from the batch or the job it believes:
\* no file of an earlier job or connection ends up in another job's results.
StoresOwnFiles ==
  \A s \in Sides :
    Receiving(s) /\ inbox[s] # <<>> /\ Head(inbox[s]).tag \in {"file", "marker", "raw"}
      => Heard(s) = Subject(s)

\* The results of a job are taken for complete, and the job pool told that it
\* has finished, only if it ran to its end on the node: not if it was cut off,
\* by a kill or by an error of the link.
FinishedJobsRan ==
  \A j \in 1..MaxJobs : outcome[j] = "finished" => j \in ended

\* A cancellation hits the job it is meant for: the cancel port carries no
\* name, so whatever the node runs at that moment is stopped.
KillsHeldJob ==
  [][arbiter = "listening" /\ arbiter' = "contacted" => running = held]_vars

\* The two sides never both wait for the other with nothing under way.
NoStandoff ==
  ~(Joined /\ Reading("server") /\ Reading("client")
           /\ inbox.server = <<>> /\ inbox.client = <<>>)

\* A node task does what the job pool's model takes it to do, whatever the
\* node and the connection do.
PhaseOf(state) ==
  CASE state \in {"connect", "uninit", "version"}  -> "uninit"
    [] state \in {"send_build", "building"}        -> "building"
    [] state = "receive_results"                   -> "receive_files"
    [] OTHER                                       -> state

Task == INSTANCE NodeTask WITH phase <- PhaseOf(at.server)
KeepsNodeTask == Task!TaskSpec

JobsEnd == []<>(at.client # "executing")

\* If jobs end, a job the node task holds is told to the job pool in the end,
\* as finished, cancelled or returned: it does not stay with a node for ever,
\* unless the node task panics over a file of a transfer.
HeldJobsReported ==
  JobsEnd => \A j \in 1..MaxJobs :
    [](handouts >= j => <>(outcome[j] # "none" \/ TaskGone))

\* If jobs end and the node stays up, the node task keeps coming back to ask
\* the job pool for work, unless it panics.
NodeKeepsAsking ==
  JobsEnd /\ <>[](at.client # "down") /\ []~TaskGone
    => []<>(at.server \in {"prepare_build", "built"})

\* A cancellation that has reached the node ends the node's wait for the job,
\* which may not end otherwise.
KilledJobStops == (arbiter = "contacted") ~> (at.client # "executing")

\* After a job both sides go to matching states: the server does not wait for
\* the results of a job whose node has gone back to prepare_build.
StatesSynced ==
  ~(Joined /\ at.server = "receive_results" /\ at.client = "prepare_build"
           /\ inbox.client = <<>>)
=============================================================================
