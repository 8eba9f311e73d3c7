--------------------------- MODULE NodeLinkProofs ---------------------------
(***************************************************************************)
(* Proofs about the two halves of the protocol, for any batches, versions  *)
(* and jobs, and any number of files, kills and mishaps.                   *)
(*                                                                         *)
(* Inv says what each side knows in each of its states, and that a message *)
(* carries what its variant says: a stale one may be read in a state it    *)
(* was not meant for, but never gives a side a batch or a job of the wrong *)
(* kind.  From it follow the types and that the server's half implements   *)
(* NodeTask.                                                               *)
(*                                                                         *)
(* LinkInv, in the second half of the module, says what is on its way      *)
(* between the two for each pair of states they can be in together, and    *)
(* what each may find alone once the connection is broken.  From it follow *)
(* the properties of both sides.                                           *)
(***************************************************************************)
EXTENDS NodeLink, SequenceTheorems, TLAPS

Orders == {Batch(b) : b \in Batches}

\* The messages by their variants, each with its body.
Mail ==
  [tag : {"0", "1", "2", "3"}, of : {NoJob}]
  \cup [tag : {"version"}, of : [version : Versions]]
  \cup [tag : {"build"}, of : Orders]
  \cup [tag : {"job"}, of : Job]
  \cup [tag : {"file", "marker", "raw"}, of : Orders \cup Job]

StepKinds == {"open", "ready", "ack", "marker", "raw", "panicked"}
Outcomes == {"none", "finished", "cancelled", "returned", "dropped"}

Places ==
  /\ at \in [server : ServerStates, client : ClientStates]
  /\ step \in [Sides -> StepKinds] /\ files \in [Sides -> 0..MaxFiles]

Wires == inbox \in [Sides -> Seq(Mail)]

Joints == link \in {"none", "backlog", "joined", "dead"}

\* What the server knows in each of its states.
ServerKnows ==
  /\ cancel \in BOOLEAN
  /\ at.server \in {"connect", "uninit", "version", "prepare_build"} =>
       compiled = Nothing /\ held = NoJob
  /\ at.server \in {"send_build", "building", "built"} =>
       compiled \in Batches /\ held = NoJob
  /\ at.server \in {"send_inputs", "executing", "receive_results"} =>
       compiled \in Batches /\ held \in Job /\ held.ident = compiled

\* What the node knows in each of its states.
ClientKnows ==
  /\ version \in Versions
  /\ built \in {Nothing} \cup Batches /\ running \in {NoJob} \cup Job
  /\ at.client \in {"receive_build", "building", "built"} => built \in Batches
  /\ at.client \in {"receive_inputs", "executing", "stopping", "confirm", "send_results"} =>
       built \in Batches /\ running \in Job
  /\ arbiter \in {"off", "starting", "listening", "contacted", "fired", "reported"}

Notes ==
  /\ handouts \in 0..MaxJobs /\ kills \in 0..MaxKills
  /\ outcome \in [1..MaxJobs -> Outcomes] /\ ended \subseteq 1..MaxJobs

Count == mishaps \in 0..MaxMishaps

Inv == Places /\ Wires /\ Joints /\ ServerKnows /\ ClientKnows /\ Notes /\ Count

-----------------------------------------------------------------------------
(* Messages                                                                *)

\* What each side may write is a message of its variant.
LEMMA MailWritten ==
  /\ Zero \in Mail /\ One \in Mail /\ Two \in Mail /\ Three \in Mail
  /\ \A v \in Versions : ResponseVersion(v) \in Mail
  /\ \A b \in Batches : InitializeJob(b) \in Mail
  /\ \A j \in Job : ExecuteJob(j) \in Mail
  /\ \A x \in Orders \cup Job : SaveFile(x) \in Mail /\ FileMarker(x) \in Mail /\ LargeFile(x) \in Mail
BY DEF Zero, One, Two, Three, Unit, ResponseVersion, InitializeJob, ExecuteJob,
       SaveFile, FileMarker, LargeFile, Mail, Orders, NoJob

\* A message read by its variant has the body of that variant.
LEMMA MailRead ==
  ASSUME NEW m \in Mail
  PROVE  /\ m.tag = "version" => m.of \in [version : Versions]
         /\ m.tag = "build" => m.of \in Orders
         /\ m.tag = "job" => m.of \in Job
BY DEF Mail

\* What is written is appended to what the peer has yet to read, or is lost.
LEMMA SendTyped ==
  ASSUME NEW s \in Sides, NEW m \in Mail, Wires, Send(s, m)
  PROVE  Wires'
BY DEF Wires, Send, Arriving, Peer, Sides

\* What is read leaves the inbox.
LEMMA ReadTyped ==
  ASSUME NEW s \in Sides, Wires, inbox[s] # <<>>, Read(s)
  PROVE  Wires'
<1>1. inbox[s] \in Seq(Mail)
  BY DEF Wires
<1>2. Tail(inbox[s]) \in Seq(Mail)
  BY <1>1
<1> QED
  BY <1>2 DEF Wires, Read

\* Reading and answering in one step.
LEMMA ReplyTyped ==
  ASSUME NEW s \in Sides, NEW m \in Mail, Wires, inbox[s] # <<>>, Reply(s, m)
  PROVE  Wires'
<1>1. inbox[s] \in Seq(Mail) /\ Peer(s) \in Sides /\ Peer(s) # s
  BY DEF Wires, Peer, Sides
<1>2. Tail(inbox[s]) \in Seq(Mail)
  BY <1>1
<1>3. inbox[Peer(s)] \in Seq(Mail)
  BY <1>1 DEF Wires
<1>4. Arriving(inbox[Peer(s)], m) \in Seq(Mail)
  BY <1>3 DEF Arriving
<1>5. inbox' = [inbox EXCEPT ![s] = Tail(@), ![Peer(s)] = Arriving(@, m)]
  BY DEF Reply
<1> QED
  BY <1>1, <1>2, <1>4, <1>5 DEF Wires

\* What has been heard was in the inbox.
LEMMA HeardTyped ==
  ASSUME NEW s \in Sides, NEW tag, Wires, Hears(s, tag)
  PROVE  /\ inbox[s] # <<>>
         /\ tag = "version" => Heard(s) \in [version : Versions]
         /\ tag = "build" => Heard(s) \in Orders
         /\ tag = "job" => Heard(s) \in Job
<1>1. inbox[s] \in Seq(Mail) /\ inbox[s] # <<>> /\ Head(inbox[s]).tag = tag
  BY DEF Wires, Hears
<1>2. Head(inbox[s]) \in Mail
  BY <1>1
<1> QED
  BY <1>1, <1>2, MailRead DEF Heard

-----------------------------------------------------------------------------
(* What the steps of both sides are made of                                *)

\* A side changes its own protocol state only.
LEMMA GotoPlaces ==
  ASSUME Places, NEW state,
         \/ state \in ServerStates /\ Goto("server", state)
         \/ state \in ClientStates /\ Goto("client", state)
  PROVE  /\ at' \in [server : ServerStates, client : ClientStates]
         /\ Goto("server", state) => at'.server = state /\ at'.client = at.client
         /\ Goto("client", state) => at'.client = state /\ at'.server = at.server
BY DEF Places, Goto

\* A side that enters a state starts there with no files sent.
LEMMA EnterPlaces ==
  ASSUME Places, NEW state, NEW first \in StepKinds,
         \/ state \in ServerStates /\ Enter("server", state, first)
         \/ state \in ClientStates /\ Enter("client", state, first)
  PROVE  /\ Places'
         /\ Enter("server", state, first) => at'.server = state /\ at'.client = at.client
         /\ Enter("client", state, first) => at'.client = state /\ at'.server = at.server
<1>1. at' \in [server : ServerStates, client : ClientStates]
  BY GotoPlaces DEF Enter
<1>2. step' \in [Sides -> StepKinds] /\ files' \in [Sides -> 0..MaxFiles]
  BY LinkAssumption DEF Places, Enter, Sides
<1> QED
  BY <1>1, <1>2, GotoPlaces DEF Places, Enter

\* What the server holds has a name, by which it is told to the job pool.
LEMMA TellTyped ==
  ASSUME ServerKnows, Places, Notes, NEW what \in Outcomes, Tell(what)
  PROVE  outcome' \in [1..MaxJobs -> Outcomes]
<1>1. held = NoJob \/ held \in Job
  BY DEF ServerKnows, Places, ServerStates
<1> QED
  BY <1>1 DEF Tell, Notes, Job

\* An error leaves the server with nothing built and nothing held (ServerFails).
LEMMA ServerFailsKeeps ==
  ASSUME Inv, NEW to \in {"connect", "uninit"}, ServerFails(to)
  PROVE  Places' /\ ServerKnows' /\ ClientKnows' /\ Notes'
<1>1. Places' /\ at'.server = to /\ at'.client = at.client
  BY EnterPlaces DEF Inv, ServerFails, StepKinds, ServerStates
<1>2. outcome' \in [1..MaxJobs -> Outcomes]
  BY TellTyped DEF Inv, ServerFails, Outcomes
<1> QED
  BY <1>1, <1>2 DEF Inv, ServerFails, ServerKnows, ClientKnows, Notes, clientVars

\* A TCP error leaves the node with nothing built and nothing running.
LEMMA ClientFailsKeeps ==
  ASSUME Inv, ClientFails
  PROVE  Places' /\ Wires' /\ Joints' /\ ServerKnows' /\ ClientKnows' /\ Notes'
<1>1. Places' /\ at'.client = "accept" /\ at'.server = at.server
  BY EnterPlaces DEF Inv, ClientFails, StepKinds, ClientStates
<1>2. Wires' /\ Joints'
  BY DEF Inv, ClientFails, Wires, Joints, Sides
<1> QED
  BY <1>1, <1>2 DEF Inv, ClientFails, ServerKnows, ClientKnows, Notes, serverVars, noteVars

\* A node that stops forgets everything but its version.
LEMMA ClientStopsKeeps ==
  ASSUME Inv, ClientStops
  PROVE  Places' /\ Wires' /\ Joints' /\ ServerKnows' /\ ClientKnows' /\ Notes'
<1>1. Places' /\ at'.client = "down" /\ at'.server = at.server
  BY EnterPlaces DEF Inv, ClientStops, StepKinds, ClientStates
<1>2. Wires' /\ Joints'
  BY DEF Inv, ClientStops, Wires, Joints, Sides
<1> QED
  BY <1>1, <1>2 DEF Inv, ClientStops, ServerKnows, ClientKnows, Notes, serverVars, noteVars

\* A panic over a file leaves the server with what it holds, and ends the node.
LEMMA PanicsKeeps ==
  ASSUME Inv, NEW s \in Sides, inbox[s] # <<>>, Panics(s)
  PROVE  Places' /\ Wires' /\ Joints' /\ ServerKnows' /\ ClientKnows' /\ Notes'
<1>1. CASE s = "server"
  <2>1. Read("server") /\ link' = "dead" /\ step' = [step EXCEPT !["server"] = "panicked"]
        /\ UNCHANGED <<at, files, serverVars, clientVars, noteVars>>
    BY <1>1 DEF Panics
  <2>2. Wires'
    BY <1>1, <2>1, ReadTyped DEF Inv
  <2> QED
    BY <2>1, <2>2 DEF Inv, Places, StepKinds, Joints, ServerKnows, ClientKnows, Notes,
       serverVars, clientVars, noteVars
<1>2. CASE s = "client"
  BY <1>2, ClientStopsKeeps DEF Panics
<1> QED
  BY <1>1, <1>2 DEF Sides

-----------------------------------------------------------------------------
(* The connection and the handshake                                        *)

\* A new connection brings nothing to read.
LEMMA ServerConnectsInv == ASSUME Inv, ServerConnects PROVE Inv'
<1>1. at' \in [server : ServerStates, client : ClientStates]
      /\ at'.server = "uninit" /\ at'.client = at.client
  BY GotoPlaces DEF Inv, ServerConnects, ServerStates
<1>2. Wires'
  BY DEF Inv, ServerConnects, Wires, Sides
<1> QED
  BY <1>1, <1>2 DEF Inv, ServerConnects, Places, Joints, ServerKnows, ClientKnows, Notes,
     Count, serverVars, clientVars, noteVars

\* The node may find the request for its version on the connection it accepts.
LEMMA ClientAcceptsInv == ASSUME Inv, ClientAccepts PROVE Inv'
<1>1. at' \in [server : ServerStates, client : ClientStates]
      /\ at'.client = "uninit" /\ at'.server = at.server
  BY GotoPlaces DEF Inv, ClientAccepts, ClientStates
<1>2. <<Zero>> \in Seq(Mail)
  BY MailWritten
<1>3. Wires'
  BY <1>2 DEF Inv, ClientAccepts, Wires, Sides
<1> QED
  BY <1>1, <1>3 DEF Inv, ClientAccepts, Places, Joints, ServerKnows, ClientKnows, Notes,
     Count, serverVars, clientVars, noteVars

\* A side that breaks off while it reads is as after any error of its own.
LEMMA BreaksOffKeeps ==
  ASSUME Inv, NEW s \in Sides, inbox[s] # <<>>, BreaksOff(s)
  PROVE  Places' /\ Wires' /\ Joints' /\ ServerKnows' /\ ClientKnows' /\ Notes'
<1>1. CASE s = "server"
  <2>1. ServerFails("connect") /\ Read("server") /\ UNCHANGED link
    BY <1>1 DEF BreaksOff
  <2>2. Wires'
    BY <1>1, <2>1, ReadTyped DEF Inv
  <2> QED
    BY <2>1, <2>2, ServerFailsKeeps DEF Inv, Joints
<1>2. CASE s = "client"
  BY <1>2, ClientFailsKeeps DEF BreaksOff
<1> QED
  BY <1>1, <1>2 DEF Sides

\* TCP errors and messages that cannot be read, on either side.
LEMMA ErrorsInv ==
  ASSUME Inv, \/ ServerTcpError \/ ClientTcpError
              \/ Undecodable("server") \/ Undecodable("client")
  PROVE  Inv'
<1>1. CASE ServerTcpError
  <2>1. Places' /\ ServerKnows' /\ ClientKnows' /\ Notes'
    BY <1>1, ServerFailsKeeps DEF ServerTcpError
  <2> QED
    BY <1>1, <2>1 DEF ServerTcpError, Inv, Wires, Joints, Count, wireVars
<1>2. CASE ClientTcpError
  <2>1. Places' /\ Wires' /\ Joints' /\ ServerKnows' /\ ClientKnows' /\ Notes'
    BY <1>2, ClientFailsKeeps DEF ClientTcpError
  <2> QED
    BY <1>2, <2>1 DEF ClientTcpError, Inv, Count
<1>3. ASSUME NEW s \in Sides, Undecodable(s) PROVE Inv'
  <2>1. inbox[s] # <<>> /\ BreaksOff(s) /\ UNCHANGED mishaps
    BY <1>3 DEF Undecodable
  <2>2. Places' /\ Wires' /\ Joints' /\ ServerKnows' /\ ClientKnows' /\ Notes'
    BY <2>1, BreaksOffKeeps
  <2> QED
    BY <2>1, <2>2 DEF Inv, Count
<1> QED
  BY <1>1, <1>2, <1>3 DEF Sides

\* The request for the version (connect_to_host of the server).
LEMMA AsksVersionInv == ASSUME Inv, AsksVersion PROVE Inv'
<1>1. at' \in [server : ServerStates, client : ClientStates]
      /\ at'.server = "version" /\ at'.client = at.client
  BY GotoPlaces DEF Inv, AsksVersion, ServerStates
<1>2. Wires'
  BY SendTyped, MailWritten DEF Inv, AsksVersion, Sides
<1> QED
  BY <1>1, <1>2 DEF Inv, AsksVersion, Places, Joints, ServerKnows, ClientKnows, Notes,
     Count, serverVars, clientVars, noteVars

\* The node answers with the version it was started with.
LEMMA AnswersVersionInv == ASSUME Inv, AnswersVersion PROVE Inv'
<1>1. at' \in [server : ServerStates, client : ClientStates]
      /\ at'.client = "verdict" /\ at'.server = at.server
  BY GotoPlaces DEF Inv, AnswersVersion, ClientStates
<1>2. inbox["client"] # <<>> /\ Reply("client", ResponseVersion(version))
  BY DEF AnswersVersion, Hears
<1>3. ResponseVersion(version) \in Mail
  BY MailWritten DEF Inv, ClientKnows
<1>4. Wires'
  BY <1>2, <1>3, ReplyTyped DEF Inv, Sides
<1> QED
  BY <1>1, <1>4 DEF Inv, AnswersVersion, Places, Joints, ServerKnows, ClientKnows, Notes,
     Count, serverVars, clientVars, noteVars

\* The server judges the version, still without a batch.
LEMMA ComparesVersionInv == ASSUME Inv, ComparesVersion PROVE Inv'
<1>1. PICK state \in {"prepare_build", "uninit"}, m \in {One, Two} :
        Goto("server", state) /\ Reply("server", m)
  BY DEF ComparesVersion
<1>2. at' \in [server : ServerStates, client : ClientStates]
      /\ at'.server = state /\ at'.client = at.client
  BY <1>1, GotoPlaces DEF Inv, ServerStates
<1>3. inbox["server"] # <<>>
  BY DEF ComparesVersion, Hears
<1>4. Wires'
  BY <1>1, <1>3, ReplyTyped, MailWritten DEF Inv, Sides
<1> QED
  BY <1>2, <1>4 DEF Inv, ComparesVersion, Places, Joints, ServerKnows, ClientKnows, Notes,
     Count, serverVars, clientVars, noteVars

\* The node goes where the verdict sends it, the panic included.
LEMMA ReadsVerdictInv == ASSUME Inv, ReadsVerdict PROVE Inv'
<1>1. PICK state \in {"prepare_build", "uninit", "panicked"} : Goto("client", state)
  BY DEF ReadsVerdict
<1>2. at' \in [server : ServerStates, client : ClientStates]
      /\ at'.client = state /\ at'.server = at.server
  BY <1>1, GotoPlaces DEF Inv, ClientStates
<1>3. inbox["client"] # <<>> /\ Read("client")
  BY DEF ReadsVerdict, Hears
<1>4. Wires'
  BY <1>3, ReadTyped DEF Inv, Sides
<1> QED
  BY <1>2, <1>4 DEF Inv, ReadsVerdict, Places, Joints, ServerKnows, ClientKnows, Notes,
     Count, serverVars, clientVars, noteVars

-----------------------------------------------------------------------------
(* Builds and jobs                                                         *)

\* The server orders one of the batches to be built.
LEMMA OrdersBuildInv == ASSUME Inv, OrdersBuild PROVE Inv'
<1>1. Places' /\ at'.server = "send_build" /\ at'.client = at.client
  BY EnterPlaces DEF Inv, OrdersBuild, ServerStates, StepKinds
<1>2. PICK b \in Batches : compiled' = b /\ Send("server", InitializeJob(b))
  BY DEF OrdersBuild
<1>3. Wires'
  BY <1>2, SendTyped, MailWritten DEF Inv, Sides
<1> QED
  BY <1>1, <1>2, <1>3 DEF Inv, OrdersBuild, Joints, ServerKnows, ClientKnows, Notes,
     Count, clientVars, noteVars

\* The order names the batch that the node then builds.
LEMMA ReadsBuildOrderInv == ASSUME Inv, ReadsBuildOrder PROVE Inv'
<1>1. Places' /\ at'.client = "receive_build" /\ at'.server = at.server
  BY EnterPlaces DEF Inv, ReadsBuildOrder, ClientStates, StepKinds
<1>2. inbox["client"] # <<>> /\ Heard("client") \in Orders
  BY HeardTyped DEF Inv, ReadsBuildOrder, Sides
<1>3. Wires'
  BY <1>2, ReadTyped DEF Inv, ReadsBuildOrder, Sides
<1>4. built' \in Batches
  BY <1>2 DEF ReadsBuildOrder, Orders, Batch
<1> QED
  BY <1>1, <1>3, <1>4 DEF Inv, ReadsBuildOrder, Joints, ServerKnows, ClientKnows, Notes,
     Count, serverVars, noteVars

\* A failed build is forgotten by the node.
LEMMA ReportsBuildInv == ASSUME Inv, ReportsBuild PROVE Inv'
<1>1. \/ Goto("client", "built") /\ Send("client", Zero) /\ UNCHANGED built
      \/ Goto("client", "prepare_build") /\ Send("client", One) /\ built' = Nothing
  BY DEF ReportsBuild
<1>2. at' \in [server : ServerStates, client : ClientStates] /\ at'.server = at.server
      /\ \/ at'.client = "built" /\ UNCHANGED built
         \/ at'.client = "prepare_build" /\ built' = Nothing
  BY <1>1, GotoPlaces DEF Inv, ClientStates
<1>3. Wires'
  BY <1>1, SendTyped, MailWritten DEF Inv, Sides
<1> QED
  BY <1>2, <1>3 DEF Inv, ReportsBuild, Places, Joints, ServerKnows, ClientKnows, Notes,
     Count, serverVars, noteVars

\* A failed build is forgotten by the server.
LEMMA ReadsBuildResultInv == ASSUME Inv, ReadsBuildResult PROVE Inv'
<1>1. \/ Goto("server", "built") /\ UNCHANGED compiled
      \/ Goto("server", "prepare_build") /\ compiled' = Nothing
  BY DEF ReadsBuildResult
<1>2. at' \in [server : ServerStates, client : ClientStates] /\ at'.client = at.client
      /\ \/ at'.server = "built" /\ UNCHANGED compiled
         \/ at'.server = "prepare_build" /\ compiled' = Nothing
  BY <1>1, GotoPlaces DEF Inv, ServerStates
<1>3. inbox["server"] # <<>> /\ Read("server")
  BY DEF ReadsBuildResult, Hears
<1>4. Wires'
  BY <1>3, ReadTyped DEF Inv, Sides
<1> QED
  BY <1>2, <1>4 DEF Inv, ReadsBuildResult, Places, Joints, ServerKnows, ClientKnows, Notes,
     Count, clientVars, noteVars

\* Another batch is wanted: the server forgets the one that is built.
LEMMA OrdersReturnInv == ASSUME Inv, OrdersReturn PROVE Inv'
<1>1. \/ Goto("server", "prepare_build") /\ Send("server", Zero)
      \/ Goto("server", "connect") /\ UNCHANGED inbox
  BY DEF OrdersReturn
<1>2. at' \in [server : ServerStates, client : ClientStates] /\ at'.client = at.client
      /\ at'.server \in {"prepare_build", "connect"}
  BY <1>1, GotoPlaces DEF Inv, ServerStates
<1>3. Wires'
  <2>1. CASE Send("server", Zero)
    BY <2>1, SendTyped, MailWritten DEF Inv, Sides
  <2>2. CASE UNCHANGED inbox
    BY <2>2 DEF Inv, Wires
  <2> QED
    BY <1>1, <2>1, <2>2
<1> QED
  BY <1>2, <1>3 DEF Inv, OrdersReturn, Places, Joints, ServerKnows, ClientKnows, Notes,
     Count, clientVars, noteVars

\* The job handed out is of the batch that is built, or is dropped with it.
LEMMA OrdersJobInv == ASSUME Inv, OrdersJob PROVE Inv'
<1> DEFINE job == [ident |-> compiled, job_name |-> handouts']
<1>1. handouts' \in 1..MaxJobs /\ compiled \in Batches
  BY LinkAssumption DEF Inv, OrdersJob, ServerKnows, Notes
<1>2. job \in Job
  BY <1>1 DEF Job
<1>3. CASE /\ Enter("server", "send_inputs", "ready")
           /\ held' = job /\ Send("server", ExecuteJob(job))
           /\ UNCHANGED <<compiled, outcome>>
  <2>1. Places' /\ at'.server = "send_inputs" /\ at'.client = at.client
    BY <1>3, EnterPlaces DEF Inv, ServerStates, StepKinds
  <2>2. Wires'
    BY <1>2, <1>3, SendTyped, MailWritten DEF Inv, Sides
  <2>3. held' \in Job /\ held'.ident = compiled' /\ compiled' \in Batches
    BY <1>1, <1>2, <1>3
  <2> HIDE DEF job
  <2> QED
    BY <1>1, <1>3, <2>1, <2>2, <2>3, LinkAssumption
       DEF Inv, OrdersJob, Joints, ServerKnows, ClientKnows, Notes, Count, clientVars
<1>4. CASE /\ Enter("server", "connect", "ready")
           /\ compiled' = Nothing /\ outcome' = [outcome EXCEPT ![handouts'] = "dropped"]
           /\ UNCHANGED <<held, inbox>>
  <2>1. Places' /\ at'.server = "connect" /\ at'.client = at.client
    BY <1>4, EnterPlaces DEF Inv, ServerStates, StepKinds
  <2>2. held = NoJob
    BY DEF Inv, OrdersJob, ServerKnows
  <2>3. outcome' \in [1..MaxJobs -> Outcomes]
    BY <1>1, <1>4 DEF Inv, Notes, Outcomes
  <2> QED
    BY <1>1, <1>4, <2>1, <2>2, <2>3, LinkAssumption
       DEF Inv, OrdersJob, Wires, Joints, ServerKnows, ClientKnows, Notes, Count, clientVars
<1> QED
  BY <1>3, <1>4 DEF OrdersJob

\* The node takes the job it reads, or forgets its batch.
LEMMA ReadsJobOrderInv == ASSUME Inv, ReadsJobOrder PROVE Inv'
<1>1. inbox["client"] # <<>> /\ Read("client")
  BY DEF ReadsJobOrder, Hears
<1>2. Wires'
  BY <1>1, ReadTyped DEF Inv, Sides
<1>3. CASE /\ Hears("client", "job") /\ running' = Heard("client")
           /\ Enter("client", "receive_inputs", "open") /\ UNCHANGED built
  <2>1. Places' /\ at'.client = "receive_inputs" /\ at'.server = at.server
    BY <1>3, EnterPlaces DEF Inv, ClientStates, StepKinds
  <2>2. running' \in Job
    BY <1>3, HeardTyped DEF Inv, Sides
  <2> QED
    BY <1>2, <1>3, <2>1, <2>2 DEF Inv, ReadsJobOrder, Joints, ServerKnows, ClientKnows,
       Notes, Count, serverVars, noteVars
<1>4. CASE /\ Hears("client", "0") /\ built' = Nothing
           /\ Enter("client", "prepare_build", "ready") /\ UNCHANGED running
  <2>1. Places' /\ at'.client = "prepare_build" /\ at'.server = at.server
    BY <1>4, EnterPlaces DEF Inv, ClientStates, StepKinds
  <2> QED
    BY <1>2, <1>4, <2>1 DEF Inv, ReadsJobOrder, Joints, ServerKnows, ClientKnows,
       Notes, Count, serverVars, noteVars
<1> QED
  BY <1>3, <1>4 DEF ReadsJobOrder

-----------------------------------------------------------------------------
(* A job on the node                                                       *)

\* A kill changes the arbiter and the flag only.
LEMMA KillsInv == ASSUME Inv, Kills PROVE Inv'
<1>1. kills' \in 0..MaxKills
  BY LinkAssumption DEF Inv, Kills, Notes
<1> QED
  BY <1>1 DEF Inv, Kills, Places, Wires, Joints, ServerKnows, ClientKnows, Notes, Count,
     wireVars

\* A mishap is counted, up to its bound.
LEMMA MishapCounts == ASSUME Inv, NEW kind, Mishap(kind) PROVE Count'
BY LinkAssumption DEF Inv, Mishap, Count

\* The arbiter listens, or has been contacted.
LEMMA ArbitratesInv == ASSUME Inv, Arbitrates PROVE Inv'
<1>1. Count'
  BY MishapCounts DEF Arbitrates, Inv, Count
<1>2. arbiter' \in {"listening", "fired"}
  BY DEF Arbitrates
<1> QED
  BY <1>1, <1>2 DEF Inv, Arbitrates, Places, Wires, Joints, ServerKnows, ClientKnows, Notes,
     wireVars, serverVars, noteVars

\* A job that ends has a name.
LEMMA JobEndsInv == ASSUME Inv, JobEnds PROVE Inv'
<1>1. at' \in [server : ServerStates, client : ClientStates]
      /\ at'.client = "stopping" /\ at'.server = at.server
  BY GotoPlaces DEF Inv, JobEnds, ClientStates
<1>2. running.job_name \in 1..MaxJobs
  BY DEF Inv, JobEnds, ClientKnows, Job
<1> QED
  BY <1>1, <1>2 DEF Inv, JobEnds, Places, Wires, Joints, ServerKnows, ClientKnows, Notes,
     Count, wireVars, serverVars, clientVars

\* A job that is dropped leaves everything else as it is.
LEMMA JobAbortsInv == ASSUME Inv, JobAborts PROVE Inv'
<1>1. at' \in [server : ServerStates, client : ClientStates]
      /\ at'.client = "stopping" /\ at'.server = at.server
  BY GotoPlaces DEF Inv, JobAborts, ClientStates
<1> QED
  BY <1>1 DEF Inv, JobAborts, Places, Wires, Joints, ServerKnows, ClientKnows, Notes,
     Count, wireVars, serverVars, clientVars, noteVars

\* The node reports how its job ended and awaits the confirmation.
LEMMA ReportsResultInv == ASSUME Inv, ReportsResult PROVE Inv'
<1>1. at' \in [server : ServerStates, client : ClientStates]
      /\ at'.client = "confirm" /\ at'.server = at.server
  BY GotoPlaces DEF Inv, ReportsResult, ClientStates
<1>2. PICK m \in {Zero, One, Three} : Send("client", m)
  BY DEF ReportsResult
<1>3. Wires'
  BY <1>2, SendTyped, MailWritten DEF Inv, Sides
<1>4. Count'
  BY MishapCounts DEF ReportsResult, Inv, Count
<1> QED
  BY <1>1, <1>3, <1>4 DEF Inv, ReportsResult, Places, Joints, ServerKnows, ClientKnows, Notes,
     serverVars, noteVars

\* A cancelled job is told to the job pool and forgotten with its batch.
LEMMA ReadsCancelledInv == ASSUME Inv, ReadsCancelled PROVE Inv'
<1>1. at' \in [server : ServerStates, client : ClientStates]
      /\ at'.server = "prepare_build" /\ at'.client = at.client
  BY GotoPlaces DEF Inv, ReadsCancelled, ServerStates
<1>2. inbox["server"] # <<>> /\ Reply("server", One)
  BY DEF ReadsCancelled, Hears
<1>3. Wires'
  BY <1>2, ReplyTyped, MailWritten DEF Inv, Sides
<1>4. outcome' \in [1..MaxJobs -> Outcomes]
  BY TellTyped DEF Inv, ReadsCancelled, Outcomes
<1> QED
  BY <1>1, <1>3, <1>4 DEF Inv, ReadsCancelled, Places, Joints, ServerKnows, ClientKnows,
     Notes, Count, clientVars

\* The server stays with its job until the results are there.
LEMMA ReadsResultInv == ASSUME Inv, ReadsResult PROVE Inv'
<1>1. Places' /\ at'.server = "receive_results" /\ at'.client = at.client
  BY EnterPlaces DEF Inv, ReadsResult, ServerStates, StepKinds
<1>2. PICK m \in {Zero, One} : inbox["server"] # <<>> /\ Reply("server", m)
  BY DEF ReadsResult, Hears
<1>3. Wires'
  BY <1>2, ReplyTyped, MailWritten DEF Inv, Sides
<1> QED
  BY <1>1, <1>3 DEF Inv, ReadsResult, Joints, ServerKnows, ClientKnows, Notes, Count,
     clientVars, noteVars

\* The node sends its results, or forgets the job and the batch.
LEMMA ReadsConfirmationInv == ASSUME Inv, ReadsConfirmation PROVE Inv'
<1>1. inbox["client"] # <<>> /\ Read("client")
  BY DEF ReadsConfirmation, Hears
<1>2. Wires'
  BY <1>1, ReadTyped DEF Inv, Sides
<1>3. CASE /\ Enter("client", "prepare_build", "ready")
           /\ built' = Nothing /\ running' = NoJob
  <2>1. Places' /\ at'.client = "prepare_build" /\ at'.server = at.server
    BY <1>3, EnterPlaces DEF Inv, ClientStates, StepKinds
  <2> QED
    BY <1>2, <1>3, <2>1 DEF Inv, ReadsConfirmation, Joints, ServerKnows, ClientKnows,
       Notes, Count, serverVars, noteVars
<1>4. CASE Enter("client", "send_results", "ready") /\ UNCHANGED <<built, running>>
  <2>1. Places' /\ at'.client = "send_results" /\ at'.server = at.server
    BY <1>4, EnterPlaces DEF Inv, ClientStates, StepKinds
  <2> QED
    BY <1>2, <1>4, <2>1 DEF Inv, ReadsConfirmation, Joints, ServerKnows, ClientKnows,
       Notes, Count, serverVars, noteVars
<1> QED
  BY <1>3, <1>4 DEF ReadsConfirmation

-----------------------------------------------------------------------------
(* Transfers of files                                                      *)

\* What a side sends belongs to a batch or to a job.
LEMMA SubjectTyped ==
  ASSUME Inv, NEW s \in Sides, Sending(s)
  PROVE  Subject(s) \in Orders \cup Job
<1>1. CASE s = "server"
  <2>1. at.server \in {"send_build", "send_inputs"}
    BY <1>1 DEF Inv, Sending, AfterSend, Places, ServerStates
  <2>2. CASE at.server = "send_build"
    BY <1>1, <2>2 DEF Inv, ServerKnows, Subject, Orders
  <2>3. CASE at.server = "send_inputs"
    BY <1>1, <2>3 DEF Inv, ServerKnows, Subject
  <2> QED
    BY <2>1, <2>2, <2>3
<1>2. CASE s = "client"
  <2>1. at.client = "send_results"
    BY <1>2 DEF Inv, Sending, AfterSend, Places, ClientStates
  <2> QED
    BY <1>2, <2>1 DEF Inv, ClientKnows, Subject
<1> QED
  BY <1>1, <1>2 DEF Sides

\* A file, or the marker of a large one, is sent for the subject of the transfer.
LEMMA SendsFileInv == ASSUME Inv, NEW s \in Sides, SendsFile(s) PROVE Inv'
<1>1. PICK m \in {SaveFile(Subject(s)), FileMarker(Subject(s))}, to \in {"ack", "marker"} :
        Send(s, m) /\ Step(s, to)
  BY DEF SendsFile
<1>2. m \in Mail
  BY <1>1, SubjectTyped, MailWritten DEF SendsFile
<1>3. Wires'
  BY <1>1, <1>2, SendTyped DEF Inv
<1>4. Places'
  BY <1>1, LinkAssumption DEF Inv, SendsFile, Places, Step, StepKinds
<1> QED
  BY <1>3, <1>4 DEF Inv, SendsFile, transferless, Joints, ServerKnows, ClientKnows, Notes,
     Count, serverVars, clientVars, noteVars

\* The acknowledgement of a file lets the next one go.
LEMMA ReadsAckInv == ASSUME Inv, NEW s \in Sides, ReadsAck(s) PROVE Inv'
<1>1. inbox[s] # <<>> /\ Read(s)
  BY DEF ReadsAck, Hears
<1>2. Wires'
  BY <1>1, ReadTyped DEF Inv
<1>3. Places'
  BY DEF Inv, ReadsAck, Places, Step, StepKinds
<1> QED
  BY <1>2, <1>3 DEF Inv, ReadsAck, transferless, Joints, ServerKnows, ClientKnows, Notes,
     Count, serverVars, clientVars, noteVars

\* The answer to a marker lets the large file go, or passes it over.
LEMMA ReadsMarkerAnswerInv == ASSUME Inv, NEW s \in Sides, ReadsMarkerAnswer(s) PROVE Inv'
<1>1. inbox[s] # <<>> /\ (Reply(s, LargeFile(Subject(s))) \/ Read(s))
  BY DEF ReadsMarkerAnswer, Hears
<1>2. LargeFile(Subject(s)) \in Mail
  BY SubjectTyped, MailWritten DEF ReadsMarkerAnswer
<1>3. Wires'
  BY <1>1, <1>2, ReadTyped, ReplyTyped DEF Inv
<1>4. PICK to \in {"ack", "ready"} : Step(s, to)
  BY DEF ReadsMarkerAnswer
<1>5. Places'
  BY <1>4 DEF Inv, ReadsMarkerAnswer, Places, Step, StepKinds
<1>6. Count'
  BY MishapCounts DEF ReadsMarkerAnswer, Inv, Count
<1> QED
  BY <1>3, <1>5, <1>6 DEF Inv, ReadsMarkerAnswer, transferless, Joints, ServerKnows,
     ClientKnows, Notes, serverVars, clientVars, noteVars

\* The end of the files takes the sender to its next state.
LEMMA FinishesSendingInv == ASSUME Inv, NEW s \in Sides, FinishesSending(s) PROVE Inv'
<1>1. Wires'
  BY SendTyped, MailWritten DEF Inv, FinishesSending
<1>2. CASE s = "server"
  <2>1. \/ at.server = "send_build" /\ Enter("server", "building", "ready")
        \/ at.server = "send_inputs" /\ Enter("server", "executing", "ready")
    BY <1>2 DEF Inv, FinishesSending, Sending, AfterSend, Places, ServerStates
  <2>2. Places' /\ at'.client = at.client
        /\ \/ at.server = "send_build" /\ at'.server = "building"
           \/ at.server = "send_inputs" /\ at'.server = "executing"
    BY <2>1, EnterPlaces DEF Inv, ServerStates, StepKinds
  <2> QED
    BY <1>1, <1>2, <2>2 DEF Inv, FinishesSending, Joints, ServerKnows, ClientKnows, Notes,
       Count, serverVars, noteVars
<1>3. CASE s = "client"
  <2>1. Enter("client", "built", "ready") /\ at.client = "send_results"
    BY <1>3 DEF Inv, FinishesSending, Sending, AfterSend, Places, ClientStates
  <2>2. Places' /\ at'.server = at.server /\ at'.client = "built"
    BY <2>1, EnterPlaces DEF Inv, ClientStates, StepKinds
  <2> QED
    BY <1>1, <1>3, <2>1, <2>2 DEF Inv, FinishesSending, Joints, ServerKnows, ClientKnows, Notes,
       Count, serverVars, noteVars
<1> QED
  BY <1>2, <1>3 DEF Sides

\* A receiver whose directory cannot be made starts over.
LEMMA OpensDirectoryInv == ASSUME Inv, NEW s \in Sides, OpensDirectory(s) PROVE Inv'
<1>1. Wires' /\ Joints'
  BY DEF Inv, OpensDirectory, wireVars, Wires, Joints
<1>2. CASE Step(s, "ready") /\ UNCHANGED <<at, files, serverVars, clientVars, noteVars, mishaps>>
  BY <1>1, <1>2 DEF Inv, Step, Places, StepKinds, ServerKnows, ClientKnows, Notes, Count,
     serverVars, clientVars, noteVars
<1>3. CASE Mishap("mkdir") /\ ServerFails("uninit")
  BY <1>1, <1>3, ServerFailsKeeps, MishapCounts DEF Inv
<1>4. CASE /\ Mishap("mkdir") /\ Enter("client", "uninit", "ready")
           /\ built' = Nothing /\ running' = NoJob
           /\ UNCHANGED <<serverVars, version, arbiter, noteVars>>
  <2>1. Places' /\ at'.server = at.server /\ at'.client = "uninit"
    BY <1>4, EnterPlaces DEF Inv, ClientStates, StepKinds
  <2>2. Count'
    BY <1>4, MishapCounts
  <2> QED
    BY <1>1, <1>4, <2>1, <2>2 DEF Inv, ServerKnows, ClientKnows, Notes, serverVars, noteVars
<1> QED
  BY <1>2, <1>3, <1>4 DEF OpensDirectory

\* A file that is stored is acknowledged.
LEMMA StoresFileInv == ASSUME Inv, NEW s \in Sides, StoresFile(s) PROVE Inv'
<1>1. inbox[s] # <<>> /\ Reply(s, Zero) /\ Step(s, "ready")
  BY DEF StoresFile, Hears
<1>2. Wires'
  BY <1>1, ReplyTyped, MailWritten DEF Inv
<1>3. Places'
  BY <1>1 DEF Inv, StoresFile, Places, Step, StepKinds
<1> QED
  BY <1>2, <1>3 DEF Inv, StoresFile, transferless, Joints, ServerKnows, ClientKnows, Notes,
     Count, serverVars, clientVars, noteVars

\* A marker is answered, whether or not the file could be created.
LEMMA AnswersMarkerInv == ASSUME Inv, NEW s \in Sides, AnswersMarker(s) PROVE Inv'
<1>1. PICK m \in {One, Two} : inbox[s] # <<>> /\ Reply(s, m)
  BY DEF AnswersMarker, Hears
<1>2. Wires'
  BY <1>1, ReplyTyped, MailWritten DEF Inv
<1>3. Step(s, "raw") \/ UNCHANGED step
  BY DEF AnswersMarker
<1>4. Places'
  BY <1>3 DEF Inv, AnswersMarker, Places, Step, StepKinds
<1>5. Count'
  BY MishapCounts DEF AnswersMarker, Inv, Count
<1> QED
  BY <1>2, <1>4, <1>5 DEF Inv, AnswersMarker, transferless, Joints, ServerKnows, ClientKnows,
     Notes, serverVars, clientVars, noteVars

\* The end of the files takes the receiver to its next state.
LEMMA FinishesReceivingInv == ASSUME Inv, NEW s \in Sides, FinishesReceiving(s) PROVE Inv'
<1>1. inbox[s] # <<>> /\ Read(s)
  BY DEF FinishesReceiving, Hears
<1>2. Wires'
  BY <1>1, ReadTyped DEF Inv
<1>3. CASE s = "server"
  <2>1. at.server = "receive_results" /\ Goto("server", "built")
    BY <1>3 DEF Inv, FinishesReceiving, Receiving, AfterReceive, Places, ServerStates
  <2>2. Tell("finished") /\ held' = NoJob /\ UNCHANGED arbiter
    BY <1>3, <2>1 DEF FinishesReceiving
  <2>3. at' \in [server : ServerStates, client : ClientStates]
        /\ at'.server = "built" /\ at'.client = at.client
    BY <2>1, GotoPlaces DEF Inv, ServerStates
  <2>4. outcome' \in [1..MaxJobs -> Outcomes]
    BY <2>2, TellTyped DEF Inv, Outcomes
  <2> QED
    BY <1>2, <2>1, <2>2, <2>3, <2>4 DEF Inv, FinishesReceiving, Places, Joints, ServerKnows,
       ClientKnows, Notes, Count
<1>4. CASE s = "client"
  <2>1. \/ at.client = "receive_build" /\ Goto("client", "building")
        \/ at.client = "receive_inputs" /\ Goto("client", "executing")
    BY <1>4 DEF Inv, FinishesReceiving, Receiving, AfterReceive, Places, ClientStates
  <2>2. at' \in [server : ServerStates, client : ClientStates] /\ at'.server = at.server
        /\ \/ at.client = "receive_build" /\ at'.client = "building"
           \/ at.client = "receive_inputs" /\ at'.client = "executing"
    BY <2>1, GotoPlaces DEF Inv, ClientStates
  <2>3. UNCHANGED <<held, outcome>> /\ arbiter' \in {arbiter, "starting"}
    BY <1>4, <2>1 DEF FinishesReceiving
  <2> QED
    BY <1>2, <2>2, <2>3 DEF Inv, FinishesReceiving, Places, Joints, ServerKnows,
       ClientKnows, Notes, Count
<1> QED
  BY <1>3, <1>4 DEF Sides

\* A file that is gone when it is to be sent, or that cannot be written.
LEMMA FileTroubleInv ==
  ASSUME Inv, NEW s \in Sides, MissesLargeFile(s) \/ CopyFails(s)
  PROVE  Inv'
<1>1. inbox[s] # <<>> /\ (BreaksOff(s) \/ Panics(s))
  BY DEF MissesLargeFile, CopyFails, Hears
<1>2. Places' /\ Wires' /\ Joints' /\ ServerKnows' /\ ClientKnows' /\ Notes'
  BY <1>1, BreaksOffKeeps, PanicsKeeps
<1>3. Count'
  BY MishapCounts DEF MissesLargeFile, CopyFails
<1> QED
  BY <1>2, <1>3 DEF Inv

\* Every step of a transfer, on either side.
LEMMA TransfersInv == ASSUME Inv, NEW s \in Sides, Transfers(s) PROVE Inv'
BY SendsFileInv, ReadsAckInv, ReadsMarkerAnswerInv, FinishesSendingInv, OpensDirectoryInv,
   StoresFileInv, AnswersMarkerInv, FileTroubleInv, FinishesReceivingInv DEF Transfers

-----------------------------------------------------------------------------
(* Mishaps                                                                 *)

\* A broken connection loses what was under way, or not.
LEMMA CutInv == ASSUME Inv, Cut PROVE Inv'
<1>1. Wires'
  <2>1. CASE inbox' = inbox
    BY <2>1 DEF Inv, Wires
  <2>2. CASE inbox' = [s \in Sides |-> <<>>]
    BY <2>2 DEF Wires
  <2> QED
    BY <2>1, <2>2 DEF Cut
<1>2. Count'
  BY MishapCounts DEF Cut
<1> QED
  BY <1>1, <1>2 DEF Inv, Cut, Places, Joints, ServerKnows, ClientKnows, Notes,
     serverVars, clientVars, noteVars

\* A node may be stopped at any time.
LEMMA CrashInv == ASSUME Inv, Crash PROVE Inv'
<1>1. Places' /\ Wires' /\ Joints' /\ ServerKnows' /\ ClientKnows' /\ Notes'
  BY ClientStopsKeeps DEF Crash
<1>2. Count'
  BY MishapCounts DEF Crash
<1> QED
  BY <1>1, <1>2 DEF Inv

\* A node is started again with any of the versions.
LEMMA RestartInv == ASSUME Inv, Restart PROVE Inv'
<1>1. at' \in [server : ServerStates, client : ClientStates]
      /\ at'.server = at.server /\ at'.client = "accept"
  BY GotoPlaces DEF Inv, Restart, ClientStates
<1> QED
  BY <1>1 DEF Inv, Restart, Places, Wires, Joints, ServerKnows, ClientKnows, Notes, Count,
     wireVars, serverVars, noteVars

\* A missed keepalive check takes the server back to the handshake.
LEMMA MissesKeepaliveInv == ASSUME Inv, MissesKeepalive PROVE Inv'
<1>1. Places' /\ ServerKnows' /\ ClientKnows' /\ Notes'
  BY ServerFailsKeeps DEF MissesKeepalive
<1>2. UNCHANGED inbox \/ Send("server", One)
  BY DEF MissesKeepalive
<1>3. Wires'
  <2>1. CASE UNCHANGED inbox
    BY <2>1 DEF Inv, Wires
  <2>2. CASE Send("server", One)
    BY <2>2, SendTyped, MailWritten DEF Inv, Sides
  <2> QED
    BY <1>2, <2>1, <2>2
<1>4. Count'
  BY MishapCounts DEF MissesKeepalive
<1> QED
  BY <1>1, <1>3, <1>4 DEF Inv, MissesKeepalive, Joints

-----------------------------------------------------------------------------
(* The theorems                                                            *)

\* In the beginning nothing is built, held or under way.
LEMMA InitInv == ASSUME Init PROVE Inv
<1>1. Places
  BY LinkAssumption DEF Init, Places, ServerStates, ClientStates, StepKinds, Sides
<1>2. Wires
  BY DEF Init, Wires
<1>3. Joints /\ ServerKnows /\ ClientKnows
  BY DEF Init, Joints, ServerKnows, ClientKnows
<1>4. Notes /\ Count
  BY LinkAssumption DEF Init, Notes, Count, Outcomes
<1> QED
  BY <1>1, <1>2, <1>3, <1>4 DEF Inv

\* Nothing changes when nothing happens.
LEMMA StutterInv == ASSUME Inv, UNCHANGED vars PROVE Inv'
BY DEF Inv, vars, wireVars, serverVars, clientVars, noteVars, Places, Wires, Joints,
   ServerKnows, ClientKnows, Notes, Count

\* Every step of the two processes and every mishap keeps the invariant.
LEMMA NextInv == ASSUME Inv, Next PROVE Inv'
<1>1. CASE ServerNext
  <2>1. "server" \in Sides
    BY DEF Sides
  <2> QED
    BY <1>1, <2>1, ServerConnectsInv, ErrorsInv, AsksVersionInv, ComparesVersionInv,
       OrdersBuildInv, ReadsBuildResultInv, OrdersReturnInv, OrdersJobInv,
       ReadsCancelledInv, ReadsResultInv, TransfersInv DEF ServerNext
<1>2. CASE ClientNext
  <2>1. "client" \in Sides
    BY DEF Sides
  <2> QED
    BY <1>2, <2>1, ClientAcceptsInv, ErrorsInv, AnswersVersionInv, ReadsVerdictInv,
       ReadsBuildOrderInv, ReportsBuildInv, ReadsJobOrderInv, JobAbortsInv,
       ReportsResultInv, ReadsConfirmationInv, TransfersInv DEF ClientNext
<1> QED
  BY <1>1, <1>2, ArbitratesInv, JobEndsInv, KillsInv, CutInv, CrashInv, RestartInv,
     MissesKeepaliveInv DEF Next

\* What each side knows in each of its states, throughout (src/src/protocol).
THEOREM KnowledgeHolds == Spec => []Inv
<1>1. Init => Inv
  BY InitInv
<1>2. Inv /\ [Next]_vars => Inv'
  BY NextInv, StutterInv
<1> QED
  BY <1>1, <1>2, PTL DEF Spec

\* The variables of both processes and of the connection keep to their types:
\* no stale message, error or restart gives a side something it cannot handle.
THEOREM TypeCorrect == Spec => []TypeOK
<1>1. ASSUME NEW m \in Mail PROVE m \in Messages
  BY DEF Mail, Messages, Tags, Orders
<1>2. ASSUME Inv PROVE TypeOK
  <2>1. DOMAIN inbox = Sides
    BY <1>2 DEF Inv, Wires
  <2>2. \A s \in Sides : \A i \in DOMAIN inbox[s] : inbox[s][i] \in Messages
    BY <1>1, <1>2 DEF Inv, Wires
  <2>3. compiled \in {Nothing} \cup Batches /\ held \in {NoJob} \cup Job
    BY <1>2 DEF Inv, ServerKnows, Places, ServerStates
  <2> QED
    BY <1>2, <2>1, <2>2, <2>3 DEF TypeOK, Inv, Places, Joints, ServerKnows, ClientKnows, Notes,
       Count, StepKinds, Outcomes
<1> QED
  BY <1>2, KnowledgeHolds, PTL

-----------------------------------------------------------------------------
(* The server's half implements NodeTask                                   *)

\* The states of NodeTask that stand for those of the protocol.
LEMMA Phases ==
  ASSUME NEW state
  PROVE  /\ state \in {"connect", "uninit", "version"} => PhaseOf(state) = "uninit"
         /\ state \in {"send_build", "building"} => PhaseOf(state) = "building"
         /\ state = "receive_results" => PhaseOf(state) = "receive_files"
         /\ state \in {"prepare_build", "built", "send_inputs", "executing"} =>
              PhaseOf(state) = state
BY Zenon DEF PhaseOf

TaskStep == [Task!TaskNext]_(Task!taskVars)

\* Nothing happens to the node task.
LEMMA Stutters ==
  ASSUME UNCHANGED <<compiled, held>>, PhaseOf(at'.server) = PhaseOf(at.server)
  PROVE  TaskStep
BY DEF TaskStep, Task!taskVars

\* An error is the end of whatever the node task was doing.
LEMMA Fails ==
  ASSUME at'.server \in {"connect", "uninit"}, compiled' = Nothing, held' = NoJob
  PROVE  TaskStep
<1>1. PhaseOf(at'.server) = "uninit"
  BY Phases
<1> QED
  BY <1>1 DEF TaskStep, Task!TaskNext, Task!Fail, Task!Forget, Task!Nothing, Task!NoJob,
     Nothing, NoJob

\* An error of the server is Fail.
LEMMA ServerFailsTask ==
  ASSUME Inv, NEW to \in {"connect", "uninit"}, ServerFails(to)
  PROVE  TaskStep
<1>1. at'.server = to
  BY EnterPlaces DEF Inv, ServerFails, StepKinds, ServerStates
<1> QED
  BY <1>1, Fails DEF ServerFails

\* What the node does is no step of the node task.
LEMMA ClientTask ==
  ASSUME Inv, \/ ClientNext \/ Arbitrates \/ JobEnds \/ Kills \/ Cut \/ Crash \/ Restart
  PROVE  TaskStep
<1>1. CASE ClientAccepts \/ AnswersVersion \/ ReadsVerdict \/ ReadsBuildOrder \/ ReportsBuild
           \/ JobAborts \/ ReportsResult \/ JobEnds
  BY <1>1, Stutters DEF Inv, Places, Goto, Enter, ClientAccepts, AnswersVersion, ReadsVerdict,
     ReadsBuildOrder, ReportsBuild, JobAborts, ReportsResult, JobEnds, serverVars
<1>2. CASE ClientTcpError \/ Undecodable("client") \/ Crash \/ Restart
  BY <1>2, Stutters DEF Inv, Places, Goto, Enter, ClientTcpError, Undecodable, BreaksOff,
     ClientFails, Crash, ClientStops, Restart, serverVars
<1>3. CASE ReadsJobOrder \/ ReadsConfirmation
  <2>1. PICK state \in {"receive_inputs", "prepare_build", "send_results"},
              first \in {"open", "ready"} : Enter("client", state, first)
    BY <1>3 DEF ReadsJobOrder, ReadsConfirmation
  <2>2. at'.server = at.server
    BY <2>1, EnterPlaces DEF Inv, ClientStates, StepKinds
  <2>3. UNCHANGED <<compiled, held>>
    BY <1>3 DEF ReadsJobOrder, ReadsConfirmation, serverVars
  <2> QED
    BY <2>2, <2>3, Stutters
<1>4. CASE Arbitrates \/ Kills \/ Cut
  BY <1>4, Stutters DEF Arbitrates, Kills, Cut, serverVars
<1>5. CASE Transfers("client")
  <2>1. CASE SendsFile("client") \/ ReadsAck("client") \/ ReadsMarkerAnswer("client")
             \/ StoresFile("client") \/ AnswersMarker("client")
    BY <2>1, Stutters DEF SendsFile, ReadsAck, ReadsMarkerAnswer, StoresFile, AnswersMarker,
       transferless, serverVars
  <2>2. CASE FinishesSending("client")
    BY <2>2, Stutters DEF Inv, Places, FinishesSending, Enter, Goto, serverVars
  <2>3. CASE OpensDirectory("client")
    BY <2>3, Stutters DEF Inv, Places, OpensDirectory, Enter, Goto, serverVars
  <2>4. CASE FinishesReceiving("client")
    <3>1. at.client \in {"receive_build", "receive_inputs"}
      BY <2>4 DEF Inv, FinishesReceiving, Receiving, AfterReceive, Places, ClientStates
    <3>2. UNCHANGED <<compiled, held>>
      BY <2>4, <3>1 DEF FinishesReceiving
    <3>3. at'.server = at.server
      BY <2>4 DEF Inv, Places, FinishesReceiving, Goto
    <3> QED
      BY <3>2, <3>3, Stutters
  <2>5. CASE MissesLargeFile("client") \/ CopyFails("client")
    <3>1. ClientFails \/ ClientStops
      BY <2>5 DEF MissesLargeFile, CopyFails, BreaksOff, Panics
    <3> QED
      BY <3>1, Stutters DEF Inv, Places, Goto, Enter, ClientFails, ClientStops, serverVars
  <2> QED
    BY <1>5, <2>1, <2>2, <2>3, <2>4, <2>5 DEF Transfers
<1> QED
  BY <1>1, <1>2, <1>3, <1>4, <1>5 DEF ClientNext

\* The server's transfers: the inputs are sent, or the results received.
LEMMA TransferTask ==
  ASSUME Inv, Transfers("server")
  PROVE  TaskStep
<1>1. CASE SendsFile("server") \/ ReadsAck("server") \/ ReadsMarkerAnswer("server")
           \/ StoresFile("server") \/ AnswersMarker("server")
  BY <1>1, Stutters DEF SendsFile, ReadsAck, ReadsMarkerAnswer, StoresFile, AnswersMarker,
     transferless, serverVars
<1>2. CASE FinishesSending("server")
  <2>1. UNCHANGED <<compiled, held>>
        /\ \/ at.server = "send_build" /\ Enter("server", "building", "ready")
           \/ at.server = "send_inputs" /\ Enter("server", "executing", "ready")
    BY <1>2 DEF Inv, FinishesSending, Sending, AfterSend, Places, ServerStates, serverVars
  <2>2. \/ at.server = "send_build" /\ at'.server = "building"
        \/ at.server = "send_inputs" /\ at'.server = "executing"
    BY <2>1, EnterPlaces DEF Inv, ServerStates, StepKinds
  <2>3. \/ PhaseOf(at'.server) = PhaseOf(at.server)
        \/ PhaseOf(at.server) = "send_inputs" /\ PhaseOf(at'.server) = "executing"
    BY <2>2, Phases
  <2> QED
    BY <2>1, <2>3, Stutters DEF TaskStep, Task!TaskNext, Task!RunJob, Task!Move
<1>3. CASE OpensDirectory("server")
  <2>1. CASE ServerFails("uninit")
    BY <2>1, ServerFailsTask
  <2>2. CASE UNCHANGED <<at, serverVars>>
    BY <2>2, Stutters DEF serverVars
  <2> QED
    BY <1>3, <2>1, <2>2 DEF OpensDirectory
<1>4. CASE FinishesReceiving("server")
  <2>1. at.server = "receive_results" /\ Goto("server", "built")
    BY <1>4 DEF Inv, FinishesReceiving, Receiving, AfterReceive, Places, ServerStates
  <2>2. at'.server = "built"
    BY <2>1, GotoPlaces DEF Inv, ServerStates
  <2>3. held' = NoJob /\ UNCHANGED compiled
    BY <1>4, <2>1 DEF FinishesReceiving
  <2>4. PhaseOf(at.server) = "receive_files" /\ PhaseOf(at'.server) = "built"
    BY <2>1, <2>2, Phases
  <2> QED
    BY <2>3, <2>4 DEF TaskStep, Task!TaskNext, Task!EndJob, Task!Move, Task!NoJob, NoJob,
       Task!Nothing, Nothing
<1>5. CASE MissesLargeFile("server") \/ CopyFails("server")
  <2>1. CASE ServerFails("connect")
    BY <2>1, ServerFailsTask
  <2>2. CASE UNCHANGED <<at, serverVars>>
    BY <2>2, Stutters DEF serverVars
  <2> QED
    BY <1>5, <2>1, <2>2 DEF MissesLargeFile, CopyFails, BreaksOff, Panics
<1> QED
  BY <1>1, <1>2, <1>3, <1>4, <1>5 DEF Transfers

\* The handshake is Connect, at its end.
LEMMA HandshakeTask ==
  ASSUME Inv, ServerConnects \/ AsksVersion \/ ComparesVersion
  PROVE  TaskStep
<1>1. UNCHANGED <<compiled, held>>
  BY DEF ServerConnects, AsksVersion, ComparesVersion, serverVars
<1>2. PICK state \in {"uninit", "version", "prepare_build"} : Goto("server", state)
  BY DEF ServerConnects, AsksVersion, ComparesVersion
<1>3. at.server \in {"connect", "uninit", "version"} /\ at'.server = state
  BY <1>2, GotoPlaces DEF Inv, ServerConnects, AsksVersion, ComparesVersion, ServerStates
<1>4. PhaseOf(at.server) = "uninit" /\ PhaseOf(at'.server) \in {"uninit", "prepare_build"}
  BY <1>3, Phases
<1> QED
  BY <1>1, <1>4, Stutters DEF TaskStep, Task!TaskNext, Task!Connect, Task!Move

\* A build is started, ends or is given up.
LEMMA BuildTask ==
  ASSUME Inv, OrdersBuild \/ ReadsBuildResult \/ OrdersReturn
  PROVE  TaskStep
<1>1. CASE OrdersBuild
  <2>1. at.server = "prepare_build" /\ at'.server = "send_build"
    BY <1>1, EnterPlaces DEF Inv, OrdersBuild, ServerStates, StepKinds
  <2>2. PhaseOf(at.server) = "prepare_build" /\ PhaseOf(at'.server) = "building"
    BY <2>1, Phases
  <2>3. compiled' # Nothing /\ UNCHANGED held
    BY <1>1, LinkAssumption DEF OrdersBuild, Nothing
  <2> QED
    BY <2>2, <2>3 DEF TaskStep, Task!TaskNext, Task!StartBuild, Task!Move, Task!Nothing, Nothing
<1>2. CASE ReadsBuildResult
  <2>1. at.server = "building" /\ UNCHANGED held /\ held = NoJob
    BY <1>2 DEF Inv, ReadsBuildResult, ServerKnows
  <2>2. \/ Goto("server", "built") /\ UNCHANGED compiled
        \/ Goto("server", "prepare_build") /\ compiled' = Nothing
    BY <1>2 DEF ReadsBuildResult
  <2>3. \/ at'.server = "built" /\ UNCHANGED compiled
        \/ at'.server = "prepare_build" /\ compiled' = Nothing
    BY <2>2, GotoPlaces DEF Inv, ServerStates
  <2>4. /\ PhaseOf(at.server) = "building"
        /\ \/ PhaseOf(at'.server) = "built" /\ UNCHANGED compiled
           \/ PhaseOf(at'.server) = "prepare_build" /\ compiled' = Nothing
    BY <2>1, <2>3, Phases
  <2> QED
    BY <2>1, <2>4 DEF TaskStep, Task!TaskNext, Task!EndBuild, Task!Move, Task!Forget,
       Task!NoJob, NoJob, Task!Nothing, Nothing
<1>3. CASE OrdersReturn
  <2>1. at.server = "built" /\ UNCHANGED held /\ held = NoJob /\ compiled' = Nothing
    BY <1>3 DEF Inv, OrdersReturn, ServerKnows
  <2>2. PICK state \in {"prepare_build", "connect"} : Goto("server", state)
    BY <1>3 DEF OrdersReturn
  <2>3. at'.server \in {"prepare_build", "connect"}
    BY <2>2, GotoPlaces DEF Inv, ServerStates
  <2>4. /\ PhaseOf(at.server) = "built"
        /\ PhaseOf(at'.server) \in {"prepare_build", "uninit"}
    BY <2>1, <2>3, Phases
  <2> QED
    BY <2>1, <2>4 DEF TaskStep, Task!TaskNext, Task!DropBuild, Task!Fail, Task!Move, Task!Forget,
       Task!NoJob, NoJob, Task!Nothing, Nothing
<1> QED
  BY <1>1, <1>2, <1>3

\* A job is taken, or ends.
LEMMA JobTask ==
  ASSUME Inv, OrdersJob \/ ReadsCancelled \/ ReadsResult
  PROVE  TaskStep
<1>1. CASE OrdersJob
  <2>1. at.server = "built" /\ held = NoJob
    BY <1>1 DEF Inv, OrdersJob, ServerKnows
  <2>2. \/ /\ Enter("server", "send_inputs", "ready")
           /\ held'.ident = compiled /\ UNCHANGED compiled
        \/ /\ Enter("server", "connect", "ready")
           /\ compiled' = Nothing /\ UNCHANGED held
    BY <1>1 DEF OrdersJob
  <2>3. \/ at'.server = "send_inputs" /\ held'.ident = compiled /\ UNCHANGED compiled
        \/ at'.server = "connect" /\ compiled' = Nothing /\ UNCHANGED held
    BY <2>2, EnterPlaces DEF Inv, ServerStates, StepKinds
  <2>4. CASE at'.server = "connect" /\ compiled' = Nothing /\ UNCHANGED held
    BY <2>1, <2>4, Fails
  <2>5. CASE at'.server = "send_inputs" /\ held'.ident = compiled /\ UNCHANGED compiled
    <3>1. PhaseOf(at.server) = "built" /\ PhaseOf(at'.server) = "send_inputs"
      BY <2>1, <2>5, Phases
    <3> QED
      BY <2>1, <2>5, <3>1 DEF TaskStep, Task!TaskNext, Task!TakeJob, Task!Move, Task!NoJob, NoJob,
         Task!Nothing, Nothing
  <2> QED
    BY <2>3, <2>4, <2>5
<1>2. CASE ReadsCancelled
  <2>1. at.server = "executing" /\ at'.server = "prepare_build"
    BY <1>2, GotoPlaces DEF Inv, ReadsCancelled, ServerStates
  <2>2. PhaseOf(at.server) = "executing" /\ PhaseOf(at'.server) = "prepare_build"
    BY <2>1, Phases
  <2> QED
    BY <1>2, <2>2 DEF ReadsCancelled, TaskStep, Task!TaskNext, Task!EndJob, Task!Move, Task!Forget,
       Task!NoJob, NoJob, Task!Nothing, Nothing
<1>3. CASE ReadsResult
  <2>1. at.server = "executing" /\ at'.server = "receive_results"
    BY <1>3, EnterPlaces DEF Inv, ReadsResult, ServerStates, StepKinds
  <2>2. PhaseOf(at.server) = "executing" /\ PhaseOf(at'.server) = "receive_files"
    BY <2>1, Phases
  <2> QED
    BY <1>3, <2>2 DEF ReadsResult, TaskStep, Task!TaskNext, Task!RunJob, Task!Move
<1> QED
  BY <1>1, <1>2, <1>3

\* Every error of the link is Fail.
LEMMA ErrorTask ==
  ASSUME Inv, ServerTcpError \/ Undecodable("server") \/ MissesKeepalive
  PROVE  TaskStep
BY ServerFailsTask DEF ServerTcpError, Undecodable, BreaksOff, MissesKeepalive

\* The server's half of the protocol does what the model of the job pool takes
\* a node task to do: it takes a job only in Built and only of the batch it had
\* built, and lets go of one only where it reports it, whatever the node and
\* the connection do.
THEOREM NodeTaskKept == Spec => KeepsNodeTask
<1>1. Init => Task!TaskInit
  <2>1. ASSUME Init PROVE PhaseOf(at.server) = "uninit"
    BY <2>1, Phases DEF Init
  <2> QED
    BY <2>1 DEF Init, Task!TaskInit, Task!Nothing, Task!NoJob, Nothing, NoJob
<1>2. Inv /\ [Next]_vars => [Task!TaskNext]_(Task!taskVars)
  <2> SUFFICES ASSUME Inv, [Next]_vars PROVE TaskStep
    BY DEF TaskStep
  <2>1. CASE UNCHANGED vars
    BY <2>1, Stutters DEF vars, serverVars
  <2>2. CASE ServerNext
    BY <2>2, HandshakeTask, BuildTask, JobTask, ErrorTask, TransferTask DEF ServerNext
  <2> QED
    BY <2>1, <2>2, ClientTask, ErrorTask DEF Next
<1> QED
  BY <1>1, <1>2, KnowledgeHolds, PTL DEF Spec, KeepsNodeTask, Task!TaskSpec

-----------------------------------------------------------------------------
(* Both sides together, while they talk over one connection: what either   *)
(* has yet to read goes with where both of them are.                       *)

Talking == Joined /\ at.server # "connect"

ToServer == inbox["server"]
ToClient == inbox["client"]
Server(states) == at.server \in states
Client(states) == at.client \in states

\* The tag of the next message, if there is one.
Finds(q, tag) == q # <<>> /\ Head(q).tag = tag

\* Where a receiver between two files is: its directory may not be open yet.
Open == {"open", "ready"}

\* The files of one transfer, from `snd` to `rcv`: every file is answered
\* before the next.  A large file that cannot be read leaves both waiting.
Carries(snd, rcv, of) ==
  \/ /\ step[rcv] \in Open /\ inbox[snd] = <<>>
     /\ \/ step[snd] = "ready" /\ inbox[rcv] = <<>>
        \/ step[snd] = "ack" /\ inbox[rcv] = <<SaveFile(of)>>
        \/ step[snd] = "marker" /\ inbox[rcv] = <<FileMarker(of)>>
  \/ /\ step[rcv] = "ready" /\ inbox[rcv] = <<>>
     /\ \/ step[snd] = "marker" /\ inbox[snd] = <<Two>>
        \/ step[snd] = "ack" /\ inbox[snd] = <<Zero>>
  \/ /\ step[rcv] = "raw"
     /\ \/ step[snd] = "marker" /\ inbox[snd] = <<One>> /\ inbox[rcv] = <<>>
        \/ step[snd] = "ack" /\ inbox[snd] = <<>> /\ inbox[rcv] = <<LargeFile(of)>>
        \/ /\ step[snd] = "ack" /\ inbox[snd] = <<>> /\ inbox[rcv] = <<>>
           /\ "read" \in Mishaps

\* What the server has sent of a transfer that the node has not begun, with
\* the order that announces it or without.
FileSent(of) ==
  \/ step["server"] = "ready" /\ ToClient = <<>>
  \/ step["server"] = "ack" /\ ToClient = <<SaveFile(of)>>
  \/ step["server"] = "marker" /\ ToClient = <<FileMarker(of)>>

OrderSent(q, order, of) ==
  \/ step["server"] = "ready" /\ q = <<order>>
  \/ step["server"] = "ack" /\ q = <<order, SaveFile(of)>>
  \/ step["server"] = "marker" /\ q = <<order, FileMarker(of)>>

BuildSent(q) ==
  \/ Server({"prepare_build"}) /\ q = <<>>
  \/ Server({"send_build"}) /\ OrderSent(q, InitializeJob(compiled), Batch(compiled))
  \/ Server({"building"}) /\ q = <<InitializeJob(compiled), Two>>

JobSent ==
  \/ Server({"send_inputs"}) /\ OrderSent(ToClient, ExecuteJob(held), held)
  \/ Server({"executing"}) /\ ToClient = <<ExecuteJob(held), Two>>

\* The node is about to read a request where it awaits the order of a build,
\* at once or after the verdict: it will close the connection.
Doomed ==
  \/ Client({"prepare_build"}) /\ ToClient # <<>> /\ Head(ToClient) = Zero
  \/ /\ Client({"verdict"}) /\ ToClient # <<>> /\ Head(ToClient) = One
     /\ Tail(ToClient) # <<>> /\ Head(Tail(ToClient)) = Zero

\* The node is in prepare_build, or what it reads next takes it there.
Leads ==
  \/ Client({"prepare_build"}) /\ BuildSent(ToClient)
  \/ /\ ToClient # <<>> /\ BuildSent(Tail(ToClient))
     /\ \/ Client({"verdict"}) /\ Head(ToClient) = One
        \/ Client({"built"}) /\ Head(ToClient) = Zero
        \/ Client({"confirm"}) /\ arbiter = "reported" /\ Head(ToClient) = One

\* The server starts over: its request comes behind what the node has yet to
\* read of the earlier talk.
Behind(before) ==
  \/ Server({"uninit"}) /\ ToClient = before
  \/ Server({"version"}) /\ ToClient = Append(before, Zero)

\* The node has written what the server cannot read as a version.
Junk == ToServer # <<>> /\ Head(ToServer).tag # "version"

Answer == <<ResponseVersion(version)>>

\* The handshake, with a node that awaits it ...
Greets ==
  \/ /\ ToServer = <<>>
     /\ \/ Client({"uninit"}) /\ Behind(<<>>)
        \/ Client({"verdict"}) /\ (Behind(<<One>>) \/ Behind(<<Two>>))
  \/ /\ ToServer = Answer
     /\ \/ Server({"version"}) /\ Client({"verdict"}) /\ ToClient = <<>>
        \/ Server({"uninit"}) /\ Client({"verdict"}) /\ ToClient = <<One>>
        \/ Server({"uninit"}) /\ Client({"prepare_build"}) /\ ToClient = <<>>
  \/ ToServer \in {<<>>, Answer} /\ Doomed

\* ... or with one that is still at the job that the server has given up.
Strays ==
  \/ /\ ToServer = <<>>
     /\ \/ Client({"built"}) /\ \E j \in Job : Behind(<<ExecuteJob(j), Two, One>>)
        \/ Client({"uninit"}) /\ Behind(<<Two, One>>)
        \/ Client({"receive_inputs"}) /\ step["client"] \in Open /\ Behind(<<Two, One>>)
        \/ Client({"executing", "stopping"}) /\ Behind(<<One>>)
  \/ /\ ToServer = <<>> \/ Junk
     /\ \/ Client({"confirm"}) /\ (Behind(<<One>>) \/ Behind(<<Zero>>))
        \/ Client({"send_results"}) /\ step["client"] = "ready" /\ Behind(<<>>)
        \/ Client({"built"}) /\ Behind(<<Zero>>)
        \/ Client({"prepare_build"}) /\ Behind(<<>>)
  \/ /\ Junk \/ (ToServer = <<>> /\ "keepalive_built" \in Mishaps)
     /\ \/ Client({"built"}) /\ Behind(<<>>)
        \/ Client({"prepare_build"}) /\ Server({"version"}) /\ ToClient = <<>>
  \/ /\ Junk
     /\ \/ Client({"send_results"}) /\ Behind(<<>>)
        \/ Client({"built", "send_results"}) /\ Server({"version"}) /\ ToClient = <<>>

Starts == Server({"uninit", "version"}) /\ (Greets \/ Strays)

\* The node could not create the directory of the files and starts over,
\* which the server does not know.
Refuses ==
  \/ /\ ToServer = <<>> /\ Client({"uninit"})
     /\ \/ Server({"send_build"}) /\ FileSent(Batch(compiled))
        \/ Server({"send_inputs"}) /\ FileSent(held)
        \/ Server({"building", "executing"}) /\ ToClient = <<Two>>
  \/ /\ Server({"building", "executing"}) /\ Client({"verdict"})
     /\ ToServer = Answer /\ ToClient = <<>>

Builds ==
  \/ /\ Server({"prepare_build", "send_build", "building"})
     /\ ToServer = <<>> /\ (Leads \/ Doomed)
  \/ /\ built = compiled
     /\ \/ /\ Server({"send_build"}) /\ Client({"receive_build"})
           /\ Carries("server", "client", Batch(compiled))
        \/ /\ Server({"building"}) /\ Client({"receive_build"}) /\ step["client"] \in Open
           /\ ToServer = <<>> /\ ToClient = <<Two>>
        \/ Server({"building"}) /\ Client({"building"}) /\ ToServer = <<>> /\ ToClient = <<>>
        \/ Server({"building"}) /\ Client({"built"}) /\ ToServer = <<Zero>> /\ ToClient = <<>>
        \/ Server({"built"}) /\ Client({"built"}) /\ ToServer = <<>> /\ ToClient = <<>>
  \/ /\ Server({"building"}) /\ Client({"prepare_build"})
     /\ ToServer = <<One>> /\ ToClient = <<>>

Runs ==
  /\ built = compiled
  /\ \/ Client({"built"}) /\ ToServer = <<>> /\ JobSent
     \/ /\ running = held
        /\ \/ /\ Server({"send_inputs"}) /\ Client({"receive_inputs"})
              /\ Carries("server", "client", held)
           \/ /\ Server({"executing"}) /\ Client({"receive_inputs"}) /\ step["client"] \in Open
              /\ ToServer = <<>> /\ ToClient = <<Two>>
           \/ /\ Server({"executing"}) /\ Client({"executing", "stopping"})
              /\ ToServer = <<>> /\ ToClient = <<>>
              /\ cancel => arbiter \in {"contacted", "fired"}
           \/ /\ Server({"executing"}) /\ Client({"confirm"}) /\ ToClient = <<>>
              /\ \/ arbiter = "reported" /\ ToServer = <<Zero>>
                 \/ /\ arbiter = "off" /\ ToServer \in {<<One>>, <<Three>>}
                    /\ cancel => "late" \in Mishaps

\* Last, a node that took a kill which came too late for the job itself.
Results ==
  /\ Server({"receive_results"})
  /\ \/ /\ built = compiled /\ running = held
        /\ \/ /\ step["server"] \in Open /\ Client({"confirm"}) /\ arbiter = "off"
              /\ ToServer = <<>> /\ ToClient = <<One>>
           \/ Client({"send_results"}) /\ Carries("client", "server", held)
     \/ /\ built = compiled /\ Client({"built"}) /\ step["server"] \in Open
        /\ ToServer = <<Two>> /\ ToClient = <<>>
     \/ /\ step["server"] \in Open /\ "late" \in Mishaps /\ ToServer = <<>>
        /\ \/ Client({"confirm"}) /\ ToClient = <<Zero>>
           \/ Client({"prepare_build"}) /\ ToClient = <<>>

Together ==
  /\ cancel => Client({"executing", "stopping", "confirm"})
  /\ Starts \/ Refuses \/ Builds \/ Runs \/ Results

-----------------------------------------------------------------------------
(* Each side alone, whatever has become of the connection: it may still    *)
(* read what had arrived.                                                  *)

Single(q) == q # <<>> => Tail(q) = <<>>

OrderMail(q) ==
  q # <<>> =>
    \/ Head(q) = Zero
    \/ \E b \in Batches :
         /\ Head(q) = InitializeJob(b)
         /\ Tail(q) \in {<<>>, <<SaveFile(Batch(b))>>, <<FileMarker(Batch(b))>>, <<Two>>}

VerdictMail(q) ==
  q # <<>> =>
    \/ Head(q) = One /\ OrderMail(Tail(q))
    \/ Head(q) = Two /\ Tail(q) \in {<<>>, <<Zero>>}

StaleMail == {<<>>, <<One>>, <<One, Zero>>}

JobMail(q, j) ==
  q \in {<<>>, <<SaveFile(j)>>, <<FileMarker(j)>>, <<Two>>, <<Two, One>>, <<Two, One, Zero>>}

\* What the node finds in each of its states: the panic of connect_to_host
\* would need a second request right behind the first.
NodeReads ==
  /\ Client({"down", "accept", "building"}) => ToClient = <<>>
  /\ Client({"uninit"}) /\ ToClient # <<>> => VerdictMail(Tail(ToClient))
  /\ Client({"verdict"}) => VerdictMail(ToClient)
  /\ Client({"prepare_build"}) => OrderMail(ToClient)
  /\ Client({"receive_build"}) =>
       \/ step["client"] = "raw" /\ ToClient \in {<<>>, <<LargeFile(Batch(built))>>}
       \/ /\ step["client"] # "raw"
          /\ ToClient \in {<<>>, <<SaveFile(Batch(built))>>, <<FileMarker(Batch(built))>>, <<Two>>}
  /\ Client({"built"}) /\ ToClient # <<>> =>
       \/ Head(ToClient) = Zero /\ OrderMail(Tail(ToClient))
       \/ \E j \in Job : Head(ToClient) = ExecuteJob(j) /\ JobMail(Tail(ToClient), j)
  /\ Client({"receive_inputs"}) =>
       \/ step["client"] = "raw" /\ ToClient \in {<<>>, <<LargeFile(running)>>}
       \/ step["client"] # "raw" /\ JobMail(ToClient, running)
  /\ Client({"executing", "stopping"}) => ToClient \in StaleMail
  /\ Client({"confirm"}) /\ ToClient # <<>> =>
       \/ Head(ToClient) \in {Zero, One} /\ Tail(ToClient) \in {<<>>, <<Zero>>}
       \/ arbiter = "reported" /\ Head(ToClient) = One /\ OrderMail(Tail(ToClient))
  /\ Client({"send_results"}) =>
       \/ step["client"] = "ready" /\ ToClient \in {<<>>, <<Zero>>}
       \/ step["client"] # "ready" /\ Single(ToClient)
  /\ ~Client({"panicked"})

\* What the server finds: at most one message, and a file only of its job.
ServerReads ==
  /\ Server({"prepare_build", "built"}) => ToServer = <<>>
  /\ Server({"send_build", "send_inputs"}) =>
       Single(ToServer) /\ (step["server"] \in Open => ToServer = <<>>)
  /\ Server({"building", "executing", "receive_results"}) => Single(ToServer)
  /\ Server({"version", "uninit"}) /\ Finds(ToServer, "version") => Single(ToServer)
  /\ Server({"receive_results"}) /\ ToServer # <<>>
       /\ Head(ToServer).tag \in {"file", "marker", "raw"} => Head(ToServer).of = held

\* The arbiter works while the job runs, and only then.
ArbiterWorks ==
  /\ Client({"executing", "stopping"}) =>
       arbiter \in {"starting", "listening", "contacted", "fired"}
  /\ Client({"confirm"}) => arbiter \in {"off", "reported"}
  /\ ~Client({"executing", "stopping", "confirm"}) => arbiter = "off"
  /\ ~Server({"executing"}) => ~cancel

\* A job whose result goes to the server, and is not its cancellation, has ended.
Ran ==
  /\ Client({"stopping"}) /\ arbiter # "fired" => running.job_name \in ended
  /\ Server({"executing"}) /\ ToServer # <<>> /\ Head(ToServer).tag \in {"1", "3"} =>
       held.job_name \in ended
  /\ Server({"receive_results"}) => held.job_name \in ended

\* What goes together even over a connection that is broken: a server that
\* has a job has it with a node that had its batch built, and that reads
\* nothing of any other job any more.
Away == Client({"accept", "down"})
Idle == Client({"built"}) /\ ToClient = <<>>

Apart ==
  /\ link = "backlog" => Server({"uninit", "version"}) /\ ToServer = <<>>
  /\ Server({"built"}) => Away \/ Idle
  /\ Server({"building"}) /\ Finds(ToServer, "0") => Away \/ Idle
  /\ Server({"receive_results"}) /\ Finds(ToServer, "2") => Away \/ Idle
  /\ Server({"send_inputs", "executing"}) =>
       \/ Away \/ Idle
       \/ Client({"built"}) /\ ToClient # <<>> /\ Head(ToClient) = ExecuteJob(held) /\ Single(Tail(ToClient))
       \/ Client({"receive_inputs"}) /\ running = held /\ Single(ToClient)
       \/ Client({"executing", "stopping"}) /\ running = held /\ ToClient = <<>>
       \/ Client({"confirm", "verdict"}) /\ ToClient = <<>>
       \/ Client({"uninit"}) /\ Single(ToClient)

Loose == NodeReads /\ ServerReads /\ Apart
LinkInv == ArbiterWorks /\ Ran /\ Loose /\ (Talking => Together)

-----------------------------------------------------------------------------
(* What is read and written                                                *)

\* Short queues, read from the front.
LEMMA Tuples ==
  /\ \A a : <<a>> # <<>> /\ Head(<<a>>) = a /\ Tail(<<a>>) = <<>> /\ Append(<<>>, a) = <<a>>
  /\ \A a, b : <<a, b>> # <<>> /\ Head(<<a, b>>) = a /\ Tail(<<a, b>>) = <<b>>
  /\ \A a, b, c : /\ <<a, b, c>> # <<>> /\ Head(<<a, b, c>>) = a
                  /\ Tail(<<a, b, c>>) = <<b, c>>
  /\ \A a, b, c, d : /\ <<a, b, c, d>> # <<>> /\ Head(<<a, b, c, d>>) = a
                     /\ Tail(<<a, b, c, d>>) = <<b, c, d>>
OBVIOUS

\* The same of the queues of messages without a body.
LEMMA Units ==
  /\ <<Zero>> # <<>> /\ Head(<<Zero>>) = Zero /\ Tail(<<Zero>>) = <<>>
  /\ <<One>> # <<>> /\ Head(<<One>>) = One /\ Tail(<<One>>) = <<>>
  /\ <<Two>> # <<>> /\ Head(<<Two>>) = Two /\ Tail(<<Two>>) = <<>>
  /\ <<Three>> # <<>> /\ Head(<<Three>>) = Three /\ Tail(<<Three>>) = <<>>
  /\ <<One, Zero>> # <<>> /\ Head(<<One, Zero>>) = One /\ Tail(<<One, Zero>>) = <<Zero>>
  /\ <<Two, Zero>> # <<>> /\ Head(<<Two, Zero>>) = Two /\ Tail(<<Two, Zero>>) = <<Zero>>
  /\ <<Zero, Zero>> # <<>> /\ Head(<<Zero, Zero>>) = Zero /\ Tail(<<Zero, Zero>>) = <<Zero>>
  /\ <<Two, One>> # <<>> /\ Head(<<Two, One>>) = Two /\ Tail(<<Two, One>>) = <<One>>
  /\ <<Two, One, Zero>> # <<>> /\ Head(<<Two, One, Zero>>) = Two /\ Tail(<<Two, One, Zero>>) = <<One, Zero>>
BY Tuples

\* ... and written at the end.
LEMMA Written ==
  /\ \A a, b \in Mail : Append(<<a>>, b) = <<a, b>>
  /\ \A a, b, c \in Mail : Append(<<a, b>>, c) = <<a, b, c>>
  /\ \A a, b, c, d \in Mail : Append(<<a, b, c>>, d) = <<a, b, c, d>>
<1>1. ASSUME NEW a \in Mail, NEW b \in Mail PROVE Append(<<a>>, b) = <<a, b>>
  <2> DEFINE s == Append(<<a>>, b)  t == <<a, b>>
  <2>1. Len(s) = 2 /\ s[1] = a /\ s[2] = b /\ s \in Seq(Mail)
    BY AppendProperties
  <2>2. Len(t) = 2 /\ t[1] = a /\ t[2] = b /\ t \in Seq(Mail)
    OBVIOUS
  <2>3. \A i \in 1..2 : s[i] = t[i]
    BY <2>1, <2>2
  <2> HIDE DEF s, t
  <2> QED
    BY <2>1, <2>2, <2>3, SeqEqual DEF s, t
<1>2. ASSUME NEW a \in Mail, NEW b \in Mail, NEW c \in Mail
      PROVE  Append(<<a, b>>, c) = <<a, b, c>>
  <2> DEFINE s == Append(<<a, b>>, c)  t == <<a, b, c>>
  <2>1. Len(s) = 3 /\ s[1] = a /\ s[2] = b /\ s[3] = c /\ s \in Seq(Mail)
    BY AppendProperties
  <2>2. Len(t) = 3 /\ t[1] = a /\ t[2] = b /\ t[3] = c /\ t \in Seq(Mail)
    OBVIOUS
  <2>3. \A i \in 1..3 : s[i] = t[i]
    BY <2>1, <2>2
  <2> HIDE DEF s, t
  <2> QED
    BY <2>1, <2>2, <2>3, SeqEqual DEF s, t
<1>3. ASSUME NEW a \in Mail, NEW b \in Mail, NEW c \in Mail, NEW d \in Mail
      PROVE  Append(<<a, b, c>>, d) = <<a, b, c, d>>
  <2> DEFINE s == Append(<<a, b, c>>, d)  t == <<a, b, c, d>>
  <2>1. Len(s) = 4 /\ s[1] = a /\ s[2] = b /\ s[3] = c /\ s[4] = d /\ s \in Seq(Mail)
    BY AppendProperties
  <2>2. Len(t) = 4 /\ t[1] = a /\ t[2] = b /\ t[3] = c /\ t[4] = d /\ t \in Seq(Mail)
    OBVIOUS
  <2>3. \A i \in 1..4 : s[i] = t[i]
    BY <2>1, <2>2
  <2> HIDE DEF s, t
  <2> QED
    BY <2>1, <2>2, <2>3, SeqEqual DEF s, t
<1> QED
  BY <1>1, <1>2, <1>3

\* What is appended leaves the front of a queue as it is.
LEMMA Appended ==
  ASSUME NEW q \in Seq(Mail), NEW m \in Mail, NEW r, r = Append(q, m)
  PROVE  /\ r # <<>> /\ (q = <<>> => r = <<m>>)
         /\ q # <<>> => /\ Head(r) = Head(q) /\ Tail(r) = Append(Tail(q), m)
                        /\ Head(q) \in Mail /\ Tail(q) \in Seq(Mail)
                        /\ Tail(r) # <<>> /\ (Tail(q) = <<>> => Tail(r) = <<m>>)
                        /\ Tail(q) # <<>> => Head(Tail(r)) = Head(Tail(q))
<1>1. ASSUME NEW p \in Seq(Mail)
      PROVE  /\ Append(p, m) # <<>> /\ (p = <<>> => Append(p, m) = <<m>>)
             /\ p # <<>> => /\ Head(Append(p, m)) = Head(p)
                            /\ Tail(Append(p, m)) = Append(Tail(p), m)
  <2>1. Append(p, m) # <<>>
    BY AppendProperties, EmptySeq, LenProperties
  <2>2. p = <<>> => Append(p, m) = <<m>>
    BY Tuples
  <2>3. p # <<>> => Head(Append(p, m)) = Head(p) /\ Tail(Append(p, m)) = Append(Tail(p), m)
    BY HeadTailAppend
  <2> QED
    BY <2>1, <2>2, <2>3
<1>2. q # <<>> => Tail(q) \in Seq(Mail) /\ Head(q) \in Mail
  OBVIOUS
<1> QED
  BY <1>1, <1>2

\* The messages are told apart by their tags.
LEMMA Marks ==
  /\ Zero.tag = "0" /\ One.tag = "1" /\ Two.tag = "2" /\ Three.tag = "3"
  /\ \A v : ResponseVersion(v).tag = "version" /\ ResponseVersion(v).of.version = v
  /\ \A b : InitializeJob(b).tag = "build" /\ InitializeJob(b).of = Batch(b)
  /\ \A j : ExecuteJob(j).tag = "job" /\ ExecuteJob(j).of = j
  /\ \A x : /\ SaveFile(x).tag = "file" /\ SaveFile(x).of = x
            /\ FileMarker(x).tag = "marker" /\ FileMarker(x).of = x
            /\ LargeFile(x).tag = "raw" /\ LargeFile(x).of = x
BY DEF Zero, One, Two, Three, Unit, ResponseVersion, InitializeJob, ExecuteJob,
   SaveFile, FileMarker, LargeFile

\* A queue of at most one message.
LEMMA Singles == Single(<<>>) /\ \A a : Single(<<a>>)
BY Tuples DEF Single

\* The request behind what the node has yet to read.
LEMMA Requests ==
  /\ Append(<<>>, Zero) = <<Zero>> /\ Append(<<One>>, Zero) = <<One, Zero>>
  /\ Append(<<Two>>, Zero) = <<Two, Zero>> /\ Append(<<Zero>>, Zero) = <<Zero, Zero>>
  /\ Append(<<Two, One>>, Zero) = <<Two, One, Zero>>
  /\ \A j \in Job : Append(<<ExecuteJob(j), Two, One>>, Zero) = <<ExecuteJob(j), Two, One, Zero>>
BY Tuples, Written, MailWritten

\* An order comes first, and before the files it announces.
LEMMA OrdersLead ==
  ASSUME NEW q, NEW order, NEW of, OrderSent(q, order, of) \/ q = <<order, Two>>
  PROVE  /\ q # <<>> /\ Head(q) = order
         /\ Tail(q) \in {<<>>, <<SaveFile(of)>>, <<FileMarker(of)>>, <<Two>>}
<1>1. CASE q = <<order, Two>>
  BY <1>1, Tuples
<1>2. CASE step["server"] = "ready" /\ q = <<order>>
  BY <1>2, Tuples
<1>3. CASE step["server"] = "ack" /\ q = <<order, SaveFile(of)>>
  BY <1>3, Tuples
<1>4. CASE step["server"] = "marker" /\ q = <<order, FileMarker(of)>>
  BY <1>4, Tuples
<1> QED
  BY <1>1, <1>2, <1>3, <1>4 DEF OrderSent

\* When the order is read, what follows it is left.
LEMMA OrderTaken ==
  ASSUME NEW q, NEW order, NEW of, OrderSent(q, order, of)
  PROVE  /\ Head(q) = order
         /\ \/ step["server"] = "ready" /\ Tail(q) = <<>>
            \/ step["server"] = "ack" /\ Tail(q) = <<SaveFile(of)>>
            \/ step["server"] = "marker" /\ Tail(q) = <<FileMarker(of)>>
<1>1. CASE step["server"] = "ready" /\ q = <<order>>
  BY <1>1, Tuples
<1>2. CASE step["server"] = "ack" /\ q = <<order, SaveFile(of)>>
  BY <1>2, Tuples
<1>3. CASE step["server"] = "marker" /\ q = <<order, FileMarker(of)>>
  BY <1>3, Tuples
<1> QED
  BY <1>1, <1>2, <1>3 DEF OrderSent

\* What the server has sent of a build order is what the node expects.
LEMMA BuildOrders ==
  ASSUME NEW q, BuildSent(q), ~Server({"prepare_build"}) => compiled \in Batches
  PROVE  OrderMail(q)
<1>1. CASE Server({"prepare_build"}) /\ q = <<>>
  BY <1>1 DEF OrderMail
<1>2. CASE /\ Server({"send_build", "building"})
           /\ \/ OrderSent(q, InitializeJob(compiled), Batch(compiled))
              \/ q = <<InitializeJob(compiled), Two>>
  <2>1. /\ q # <<>> /\ Head(q) = InitializeJob(compiled) /\ compiled \in Batches
        /\ Tail(q) \in {<<>>, <<SaveFile(Batch(compiled))>>, <<FileMarker(Batch(compiled))>>, <<Two>>}
    BY <1>2, OrdersLead DEF Server
  <2> QED
    BY <2>1 DEF OrderMail
<1> QED
  BY <1>1, <1>2 DEF BuildSent, Server

USE DEF Server, Client, ToServer, ToClient, Open, Starts, Greets, Strays, Refuses, Builds,
        Runs, Results, Carries, FileSent, OrderSent, BuildSent, JobSent, Doomed, Leads,
        Behind, Junk, Answer

\* While both sides talk, each finds what it may find on its own.
LEMMA TogetherIsLoose ==
  ASSUME Inv, ArbiterWorks, Talking, Together
  PROVE  Loose
<1>0. /\ inbox["server"] \in Seq(Mail) /\ inbox["client"] \in Seq(Mail)
      /\ built \in {Nothing} \cup Batches
      /\ Server({"send_build", "building", "built", "send_inputs", "executing", "receive_results"}) =>
           compiled \in Batches
      /\ Server({"send_inputs", "executing", "receive_results"}) => held \in Job
  BY DEF Inv, Wires, Sides, ClientKnows, ServerKnows
<1> USE <1>0, Tuples, Requests, Marks DEF ArbiterWorks
<1>1. CASE Starts
  <2>1. NodeReads
    <3>1. CASE Greets
      <4> HIDE DEF Strays
      <4> QED
        BY <3>1 DEF NodeReads, OrderMail, VerdictMail
    <3>2. CASE Strays
      <4>1. CASE /\ Client({"built"})
                 /\ \E j \in Job : Behind(<<ExecuteJob(j), Two, One>>)
        <5>1. PICK j \in Job : Behind(<<ExecuteJob(j), Two, One>>)
          BY ONLY <4>1
        <5>2. ToClient \in {<<ExecuteJob(j), Two, One>>, <<ExecuteJob(j), Two, One, Zero>>}
          BY <5>1
        <5>3. Head(ToClient) = ExecuteJob(j) /\ Tail(ToClient) \in {<<Two, One>>, <<Two, One, Zero>>}
          <6>1. CASE ToClient = <<ExecuteJob(j), Two, One>>
            BY <6>1, Tuples
          <6>2. CASE ToClient = <<ExecuteJob(j), Two, One, Zero>>
            BY <6>2, Tuples
          <6> QED
            BY ONLY <5>2, <6>1, <6>2
        <5> QED
          BY ONLY <4>1, <5>3 DEF NodeReads, JobMail, Client, ToClient
      <4>2. CASE Client({"built", "prepare_build"}) /\ ToClient \in {<<>>, <<Zero>>, <<Zero, Zero>>}
        BY <4>2, Units DEF NodeReads, OrderMail
      <4>3. CASE /\ Client({"uninit", "receive_inputs"}) /\ ToClient \in {<<Two, One>>, <<Two, One, Zero>>}
                 /\ Client({"receive_inputs"}) => step["client"] \in Open
        BY <4>3, Units DEF NodeReads, VerdictMail, OrderMail, JobMail
      <4>4. CASE Client({"executing", "stopping"}) /\ ToClient \in {<<One>>, <<One, Zero>>}
        BY <4>4 DEF NodeReads, StaleMail
      <4>5. CASE /\ Client({"confirm"})
                 /\ ToClient \in {<<One>>, <<One, Zero>>, <<Zero>>, <<Zero, Zero>>}
        BY <4>5, Units DEF NodeReads
      <4>6. CASE Client({"send_results"}) /\ ToClient \in {<<>>, <<Zero>>}
        BY <4>6, Units DEF NodeReads, Single
      <4> QED
        BY <1>1, <3>2, <4>1, <4>2, <4>3, <4>4, <4>5, <4>6, Requests
    <3> QED
      BY <1>1, <3>1, <3>2
  <2>2. ServerReads
    <3>1. ToServer = <<>> \/ ToServer = Answer \/ Junk
      BY <1>1
    <3>2. Finds(ToServer, "version") => Single(ToServer)
      BY <3>1 DEF Finds, Single
    <3> HIDE DEF Greets, Strays
    <3> QED
      BY <1>1, <3>2 DEF ServerReads
  <2>3. Apart
    BY <1>1 DEF Apart, Finds, Talking, Joined, Away, Idle, Single
  <2> QED
    BY <2>1, <2>2, <2>3 DEF Loose
<1>2. CASE Refuses
  <2>1. NodeReads
    <3>1. \/ Client({"uninit"}) /\ (ToClient # <<>> => Tail(ToClient) = <<>>)
          \/ Client({"verdict"}) /\ ToClient = <<>>
      BY ONLY <1>2, Tuples DEF Refuses, FileSent, ToClient, Client
    <3> QED
      BY ONLY <3>1 DEF NodeReads, VerdictMail, Client, ToClient
  <2>2. ServerReads
    BY <1>2 DEF ServerReads, Finds, Single
  <2>3. Apart
    BY <1>2 DEF Apart, Finds, Talking, Joined, Away, Idle, Single
  <2> QED
    BY <2>1, <2>2, <2>3 DEF Loose
<1>3. CASE Builds
  <2>1. NodeReads
    <3>2. CASE Leads \/ Doomed
      <4>1. BuildSent(ToClient) => OrderMail(ToClient)
        BY <1>3, BuildOrders DEF Inv, ServerKnows
      <4>2. BuildSent(Tail(ToClient)) => OrderMail(Tail(ToClient))
        BY <1>3, BuildOrders DEF Inv, ServerKnows
      <4> HIDE DEF BuildSent
      <4> QED
        BY <3>2, <4>1, <4>2 DEF NodeReads, OrderMail, VerdictMail
    <3>3. CASE ~(Leads \/ Doomed)
      BY <1>3, <3>3 DEF NodeReads, OrderMail, VerdictMail, Single
    <3> QED
      BY <3>2, <3>3
  <2>2. ServerReads
    BY <1>3 DEF ServerReads, Finds, Single
  <2>3. Apart
    BY <1>3 DEF Apart, Finds, Talking, Joined, Away, Idle, Single
  <2> QED
    BY <2>1, <2>2, <2>3 DEF Loose
<1>4. CASE Runs
  <2>1. CASE Client({"built"})
    <3>0. /\ Server({"send_inputs", "executing"}) /\ ToServer = <<>> /\ held \in Job
          /\ OrderSent(ToClient, ExecuteJob(held), held) \/ ToClient = <<ExecuteJob(held), Two>>
      BY <1>4, <2>1
    <3>1. /\ ToClient # <<>> /\ Head(ToClient) = ExecuteJob(held)
          /\ Tail(ToClient) \in {<<>>, <<SaveFile(held)>>, <<FileMarker(held)>>, <<Two>>}
      <4> HIDE DEF OrderSent
      <4> QED
        BY ONLY <3>0, OrdersLead
    <3>2. NodeReads
      BY <2>1, <3>0, <3>1 DEF NodeReads, JobMail
    <3>3. ServerReads
      BY <3>0 DEF ServerReads, Finds, Single
    <3>4. Single(Tail(ToClient))
      BY ONLY <3>1, Singles
    <3>5. Apart
      BY <2>1, <3>0, <3>1, <3>4 DEF Apart, Finds, Talking, Joined
    <3> QED
      BY <3>2, <3>3, <3>5 DEF Loose
  <2>2. CASE ~Client({"built"})
    <3>2. NodeReads
      BY <1>4, <2>2 DEF NodeReads, JobMail, StaleMail
    <3>3. ServerReads
      BY <1>4, <2>2 DEF ServerReads, Finds, Single
    <3>4. Apart
      BY <1>4, <2>2 DEF Apart, Finds, Talking, Joined, Away, Idle, Single
    <3> QED
      BY <3>2, <3>3, <3>4 DEF Loose
  <2> QED
    BY <2>1, <2>2
<1>5. CASE Results
  <2>1. NodeReads
    BY <1>5 DEF NodeReads, OrderMail, VerdictMail, StaleMail, JobMail, Single
  <2>2. ServerReads
    BY <1>5 DEF ServerReads, Finds, Single
  <2>3. Apart
    BY <1>5 DEF Apart, Finds, Talking, Joined, Away, Idle, Single
  <2> QED
    BY <2>1, <2>2, <2>3 DEF Loose
<1> QED
  BY <1>1, <1>2, <1>3, <1>4, <1>5 DEF Together

\* Each side has the other for its peer.
LEMMA Peers == Peer("server") = "client" /\ Peer("client") = "server"
BY DEF Peer

\* A message that is sent goes behind what the peer has yet to read, if the
\* node serves the connection.
LEMMA Says ==
  ASSUME Inv, NEW m, Send("server", m) \/ Send("client", m)
  PROVE  /\ Send("server", m) =>
              /\ inbox'["server"] = inbox["server"]
              /\ Joined => inbox'["client"] = Append(inbox["client"], m)
              /\ ~Joined => inbox'["client"] = inbox["client"]
         /\ Send("client", m) =>
              /\ inbox'["client"] = inbox["client"]
              /\ Joined => inbox'["server"] = Append(inbox["server"], m)
              /\ ~Joined => inbox'["server"] = inbox["server"]
BY Peers DEF Inv, Wires, Sides, Send, Arriving

\* The same for an answer, with the message that it answers gone.
LEMMA Answers ==
  ASSUME Inv, NEW m, Reply("server", m) \/ Reply("client", m)
  PROVE  /\ Reply("server", m) =>
              /\ inbox'["server"] = Tail(inbox["server"])
              /\ Joined => inbox'["client"] = Append(inbox["client"], m)
              /\ ~Joined => inbox'["client"] = inbox["client"]
         /\ Reply("client", m) =>
              /\ inbox'["client"] = Tail(inbox["client"])
              /\ Joined => inbox'["server"] = Append(inbox["server"], m)
              /\ ~Joined => inbox'["server"] = inbox["server"]
BY Peers DEF Inv, Wires, Sides, Reply, Arriving

\* What is read leaves the front of the queue.
LEMMA Takes ==
  ASSUME Inv
  PROVE  /\ Read("server") =>
              inbox'["server"] = Tail(inbox["server"]) /\ inbox'["client"] = inbox["client"]
         /\ Read("client") =>
              inbox'["client"] = Tail(inbox["client"]) /\ inbox'["server"] = inbox["server"]
BY DEF Inv, Wires, Sides, Read

\* TogetherIsLoose of the next state.
LEMMA StaysLoose == (Inv /\ ArbiterWorks /\ Talking /\ Together)' => Loose'
<1>1. Inv /\ ArbiterWorks /\ Talking /\ Together => Loose
  BY TogetherIsLoose
<1> QED
  BY <1>1, PTL

\* What is to be shown of every step.
LEMMA Combine ==
  ASSUME Inv', ArbiterWorks', Ran', Talking' => Together', ~Talking' => Loose'
  PROVE  LinkInv'
BY StaysLoose DEF LinkInv

\* A step of the server leaves the node with what it finds.
LEMMA NodeStays ==
  ASSUME NodeReads, UNCHANGED <<at.client, step["client"], inbox["client"], built, running, arbiter>>
  PROVE  NodeReads'
BY DEF NodeReads

\* A step of the node leaves the server with what it finds, if it listens at
\* all and nothing arrives.
LEMMA ServerStays ==
  ASSUME ServerReads, UNCHANGED <<at.server, step["server"], held>>,
         at.server = "connect" \/ UNCHANGED inbox["server"]
  PROVE  ServerReads'
BY DEF ServerReads, Finds

\* The server asks for the version (connect_to_host).
LEMMA AsksVersionLink == ASSUME Inv, LinkInv, Inv', AsksVersion PROVE LinkInv'
<1>1. /\ at.server = "uninit" /\ at'.server = "version" /\ at'.client = at.client
      /\ inbox'["server"] = inbox["server"] /\ inbox["client"] \in Seq(Mail)
      /\ Joined => inbox'["client"] = Append(inbox["client"], Zero)
      /\ ~Joined => inbox'["client"] = inbox["client"]
      /\ UNCHANGED <<step, link, compiled, held, cancel, version, built, running, arbiter, ended>>
  BY GotoPlaces, Says DEF Inv, AsksVersion, ServerStates, Wires, Sides,
     serverVars, clientVars, noteVars
<1>2. ArbiterWorks' /\ Ran'
  BY <1>1 DEF LinkInv, ArbiterWorks, Ran
<1>3. ASSUME Talking' PROVE Together'
  <2>1. inbox'["client"] = Append(inbox["client"], Zero) /\ Together
    BY <1>1, <1>3 DEF LinkInv, Talking, Joined
  <2>2. /\ inbox["client"] # <<>> =>
             /\ Head(inbox'["client"]) = Head(inbox["client"])
             /\ inbox'["client"] # <<>> /\ Tail(inbox'["client"]) # <<>>
             /\ Tail(inbox["client"]) # <<>> =>
                  Head(Tail(inbox'["client"])) = Head(Tail(inbox["client"]))
    BY <1>1, <2>1, Appended, MailWritten
  <2>3. Starts /\ ~cancel'
    BY <1>1, <2>1 DEF LinkInv, ArbiterWorks, Together
  <2>4. CASE ToServer \in {<<>>, Answer} /\ Doomed
    <3>1. Doomed'
      BY <1>1, <2>2, <2>4
    <3> QED
      BY <1>1, <2>3, <2>4, <3>1 DEF Together
  <2>5. CASE Greets /\ ToServer = <<>> /\ ~Doomed
    BY <1>1, <2>1, <2>3, <2>5, Tuples, Requests DEF Together
  <2>6. CASE Greets /\ ToServer = Answer /\ ~Doomed
    <3>1. \/ Client({"verdict"}) /\ inbox["client"] = <<One>>
          \/ Client({"prepare_build"}) /\ inbox["client"] = <<>>
      BY <1>1, <2>6
    <3>2. \/ Client({"verdict"}) /\ inbox'["client"] = <<One, Zero>>
          \/ Client({"prepare_build"}) /\ inbox'["client"] = <<Zero>>
      BY <2>1, <3>1, Requests
    <3>3. Doomed'
      BY <1>1, <3>2, Units
    <3> QED
      BY <1>1, <2>3, <2>6, <3>3 DEF Together
  <2>7. CASE Strays
    BY <1>1, <2>1, <2>3, <2>7, Tuples, Requests DEF Together
  <2> QED
    BY <2>3, <2>4, <2>5, <2>6, <2>7
<1>4. ASSUME ~Talking' PROVE Loose'
  <2>1. NodeReads'
    BY <1>1, <1>4, NodeStays DEF LinkInv, Loose, Talking, Joined
  <2>2. ServerReads'
    BY <1>1 DEF LinkInv, Loose, ServerReads, Finds
  <2>3. Apart'
    BY <1>1 DEF LinkInv, Loose, Apart, Finds
  <2> QED
    BY <2>1, <2>2, <2>3 DEF Loose
<1> QED
  BY <1>2, <1>3, <1>4, Combine

\* What an error of the server leaves behind.
LEMMA ServerFailsFacts ==
  ASSUME Inv, NEW to \in {"connect", "uninit"}, ServerFails(to)
  PROVE  /\ at'.server = to /\ at'.client = at.client
         /\ step'["server"] = "ready" /\ step'["client"] = step["client"]
         /\ compiled' = Nothing /\ held' = NoJob /\ cancel' = FALSE
         /\ UNCHANGED <<version, built, running, arbiter, ended>>
<1>1. at'.server = to /\ at'.client = at.client
  BY EnterPlaces DEF Inv, ServerFails, StepKinds, ServerStates
<1>2. step'["server"] = "ready" /\ step'["client"] = step["client"]
  BY DEF Inv, Places, Sides, ServerFails, Enter
<1> QED
  BY <1>1, <1>2 DEF ServerFails, clientVars

\* A server that has to connect again talks to nobody.
LEMMA DisconnectsLink ==
  ASSUME Inv, LinkInv, Inv', ServerFails("connect"), UNCHANGED <<link, inbox["client"]>>,
         link # "backlog"
  PROVE  LinkInv'
<1>1. /\ at'.server = "connect" /\ at'.client = at.client
      /\ step'["client"] = step["client"] /\ cancel' = FALSE
      /\ UNCHANGED <<version, built, running, arbiter, ended>>
  BY ServerFailsFacts
<1>2. ArbiterWorks' /\ Ran'
  BY <1>1 DEF LinkInv, ArbiterWorks, Ran
<1>3. NodeReads'
  BY <1>1, NodeStays DEF LinkInv, Loose
<1>4. ServerReads' /\ Apart'
  BY <1>1 DEF ServerReads, Apart, Finds
<1> QED
  BY <1>1, <1>2, <1>3, <1>4, Combine DEF Loose, Talking

\* A node that closes its connection finds nothing any more, and the server
\* only what had arrived.
LEMMA ClientFailsLink ==
  ASSUME Inv, LinkInv, Inv', ClientFails
  PROVE  LinkInv'
<1>1. /\ at'.client = "accept" /\ at'.server = at.server
      /\ inbox'["client"] = <<>> /\ inbox'["server"] = inbox["server"]
      /\ step'["server"] = step["server"] /\ arbiter' = "off"
      /\ link' # "joined" /\ (link' = "backlog" => link = "backlog")
      /\ UNCHANGED <<held, compiled, cancel, ended>>
  <2>1. at'.client = "accept" /\ at'.server = at.server
    BY EnterPlaces DEF Inv, ClientFails, StepKinds, ClientStates
  <2> QED
    BY <2>1 DEF Inv, Places, Wires, Sides, ClientFails, Enter, Joined, serverVars, noteVars
<1>2. ArbiterWorks' /\ Ran'
  BY <1>1 DEF LinkInv, ArbiterWorks, Ran
<1>3. NodeReads'
  BY <1>1 DEF NodeReads
<1>4. ServerReads'
  BY <1>1, ServerStays DEF LinkInv, Loose
<1>5. Apart'
  BY <1>1 DEF LinkInv, Loose, Apart, Finds, Away
<1> QED
  BY <1>1, <1>2, <1>3, <1>4, <1>5, Combine DEF Loose, Talking, Joined

\* A side that breaks off while it reads gives up the connection.
LEMMA BreaksOffLink ==
  ASSUME Inv, LinkInv, Inv', NEW s \in Sides, inbox[s] # <<>>, BreaksOff(s)
  PROVE  LinkInv'
<1>1. CASE s = "server"
  <2>1. ServerFails("connect") /\ UNCHANGED <<link, inbox["client"]>>
    BY <1>1, Takes DEF BreaksOff
  <2>2. link # "backlog"
    BY <1>1 DEF LinkInv, Loose, Apart
  <2> QED
    BY <2>1, <2>2, DisconnectsLink
<1>2. CASE s = "client"
  BY <1>2, ClientFailsLink DEF BreaksOff
<1> QED
  BY <1>1, <1>2 DEF Sides

\* TCP errors and what cannot be read, on either side: the connection is given
\* up, and with it what its sender believed of the other.
LEMMA ErrorsLink ==
  ASSUME Inv, LinkInv, Inv',
         \/ ServerTcpError \/ ClientTcpError
         \/ Undecodable("server") \/ Undecodable("client")
  PROVE  LinkInv'
<1>1. CASE ServerTcpError
  BY <1>1, DisconnectsLink DEF ServerTcpError, wireVars
<1>2. CASE ClientTcpError
  BY <1>2, ClientFailsLink DEF ClientTcpError
<1>3. ASSUME NEW s \in Sides, Undecodable(s) PROVE LinkInv'
  BY <1>3, BreaksOffLink DEF Undecodable
<1> QED
  BY <1>1, <1>2, <1>3 DEF Sides

\* A new connection: the node has not heard of it, and may be anywhere.
LEMMA ServerConnectsLink == ASSUME Inv, LinkInv, Inv', ServerConnects PROVE LinkInv'
<1>1. /\ at.server = "connect" /\ at'.server = "uninit" /\ at'.client = at.client
      /\ inbox'["server"] = <<>> /\ inbox'["client"] = inbox["client"]
      /\ link' = "backlog"
      /\ UNCHANGED <<step, compiled, held, cancel, version, built, running, arbiter, ended>>
  BY GotoPlaces DEF Inv, ServerConnects, ServerStates, Wires, Sides,
     serverVars, clientVars, noteVars
<1>2. ArbiterWorks' /\ Ran'
  BY <1>1 DEF LinkInv, ArbiterWorks, Ran
<1>3. NodeReads'
  BY <1>1, NodeStays DEF LinkInv, Loose
<1>4. ServerReads' /\ Apart'
  BY <1>1 DEF ServerReads, Apart, Finds
<1> QED
  BY <1>1, <1>2, <1>3, <1>4, Combine DEF Loose, Talking, Joined

\* The node serves the connection that waits for it: all it may find there is
\* the request for its version.
LEMMA ClientAcceptsLink == ASSUME Inv, LinkInv, Inv', ClientAccepts PROVE LinkInv'
<1>1. /\ at.client = "accept" /\ at'.client = "uninit" /\ at'.server = at.server
      /\ inbox'["client"] = IF at.server = "version" THEN <<Zero>> ELSE <<>>
      /\ inbox'["server"] = inbox["server"] /\ link = "backlog" /\ link' = "joined"
      /\ UNCHANGED <<step, compiled, held, cancel, version, built, running, arbiter, ended>>
  BY GotoPlaces DEF Inv, ClientAccepts, ClientStates, Wires, Sides,
     serverVars, clientVars, noteVars
<1>2. ArbiterWorks' /\ Ran'
  BY <1>1 DEF LinkInv, ArbiterWorks, Ran
<1>3. /\ Server({"uninit", "version"}) /\ inbox["server"] = <<>> /\ ~cancel
  BY <1>1 DEF LinkInv, Loose, Apart, ArbiterWorks
<1>4. Together' /\ Talking'
  BY <1>1, <1>3, Requests DEF Together, Talking, Joined
<1> QED
  BY <1>2, <1>4, Combine

\* A connection that breaks loses what was under way on it, or not.
LEMMA CutLink == ASSUME Inv, LinkInv, Inv', Cut PROVE LinkInv'
<1>1. /\ link' = "dead"
      /\ UNCHANGED <<at, step, compiled, held, cancel, version, built, running, arbiter, ended>>
  BY DEF Cut, serverVars, clientVars, noteVars
<1>2. ArbiterWorks'
  BY <1>1 DEF LinkInv, ArbiterWorks
<1>3. CASE inbox' = inbox
  <2>1. NodeReads' /\ ServerReads'
    BY <1>1, <1>3, NodeStays, ServerStays DEF LinkInv, Loose
  <2>2. Apart' /\ Ran'
    BY <1>1, <1>3 DEF LinkInv, Loose, Apart, Finds, Away, Idle, Ran
  <2> QED
    BY <1>1, <1>2, <2>1, <2>2, Combine DEF Loose, Talking, Joined
<1>4. CASE inbox' = [s \in Sides |-> <<>>]
  <2>0. inbox'["server"] = <<>> /\ inbox'["client"] = <<>>
    BY <1>4 DEF Sides
  <2>1. NodeReads'
    BY <1>1, <2>0, Singles DEF LinkInv, Loose, NodeReads, VerdictMail, OrderMail, StaleMail, JobMail
  <2>2. ServerReads'
    BY <1>1, <2>0, Singles DEF ServerReads, Finds
  <2>3. Apart' /\ Ran'
    BY <1>1, <2>0, Singles DEF LinkInv, Loose, Apart, Finds, Away, Idle, Ran
  <2> QED
    BY <1>1, <1>2, <2>1, <2>2, <2>3, Combine DEF Loose, Talking, Joined
<1> QED
  BY <1>3, <1>4 DEF Cut

\* A node that stops is away, and finds nothing when it is back.
LEMMA StopsNodeLink == ASSUME Inv, LinkInv, Inv', ClientStops PROVE LinkInv'
<1>1. /\ at'.client = "down" /\ at'.server = at.server
      /\ inbox'["client"] = <<>> /\ inbox'["server"] = inbox["server"]
      /\ step'["server"] = step["server"] /\ arbiter' = "off"
      /\ link' \notin {"joined", "backlog"}
      /\ UNCHANGED <<held, compiled, cancel, ended>>
  <2>1. at'.client = "down" /\ at'.server = at.server
    BY EnterPlaces DEF Inv, ClientStops, StepKinds, ClientStates
  <2> QED
    BY <2>1 DEF Inv, Places, Wires, Sides, ClientStops, Enter, serverVars, noteVars
<1>2. ArbiterWorks' /\ Ran'
  BY <1>1 DEF LinkInv, ArbiterWorks, Ran
<1>3. NodeReads'
  BY <1>1 DEF NodeReads
<1>4. ServerReads'
  BY <1>1, ServerStays DEF LinkInv, Loose
<1>5. Apart'
  BY <1>1 DEF Apart, Away
<1> QED
  BY <1>1, <1>2, <1>3, <1>4, <1>5, Combine DEF Loose, Talking, Joined

LEMMA CrashLink == ASSUME Inv, LinkInv, Inv', Crash PROVE LinkInv'
BY StopsNodeLink DEF Crash

\* A node task that panics over a file leaves the node with a broken connection.
LEMMA PanicsLink ==
  ASSUME Inv, LinkInv, Inv', Panics("server"), inbox["server"] # <<>>,
         Server({"send_build", "send_inputs", "receive_results"})
  PROVE  LinkInv'
<1>1. /\ inbox'["server"] = <<>> /\ inbox'["client"] = inbox["client"] /\ link' = "dead"
      /\ step'["client"] = step["client"] /\ step'["server"] = "panicked"
      /\ UNCHANGED <<at, compiled, held, cancel, version, built, running, arbiter, ended>>
  <2>1. inbox'["server"] = Tail(inbox["server"]) /\ inbox'["client"] = inbox["client"]
    BY Takes DEF Panics
  <2>2. Tail(inbox["server"]) = <<>>
    BY DEF LinkInv, Loose, ServerReads, Single
  <2> QED
    BY <2>1, <2>2 DEF Panics, Inv, Places, Sides, serverVars, clientVars, noteVars
<1>2. ArbiterWorks' /\ Ran'
  BY <1>1 DEF LinkInv, ArbiterWorks, Ran
<1>3. NodeReads'
  BY <1>1, NodeStays DEF LinkInv, Loose
<1>4. ServerReads'
  BY <1>1, Singles DEF ServerReads, Finds, Open
<1>5. Apart'
  BY <1>1 DEF LinkInv, Loose, Apart, Finds, Away, Idle
<1> QED
  BY <1>1, <1>2, <1>3, <1>4, <1>5, Combine DEF Loose, Talking, Joined

\* A file that is gone when it is to be sent, or that cannot be written.
LEMMA FileTroubleLink ==
  ASSUME Inv, LinkInv, Inv', NEW s \in Sides, MissesLargeFile(s) \/ CopyFails(s)
  PROVE  LinkInv'
<1>1. inbox[s] # <<>> /\ (BreaksOff(s) \/ Panics(s))
  BY DEF MissesLargeFile, CopyFails, Hears
<1>2. s = "server" => Server({"send_build", "send_inputs", "receive_results"})
  BY DEF MissesLargeFile, CopyFails, Sending, Receiving, AfterSend, AfterReceive, Inv, Places,
     ServerStates
<1>3. CASE BreaksOff(s)
  BY <1>1, <1>3, BreaksOffLink
<1>4. CASE Panics(s) /\ s = "server"
  BY <1>1, <1>2, <1>4, PanicsLink
<1>5. CASE Panics(s) /\ s = "client"
  BY <1>5, StopsNodeLink DEF Panics
<1> QED
  BY <1>1, <1>3, <1>4, <1>5 DEF Sides

\* It is back, but serves no connection yet.
LEMMA RestartLink == ASSUME Inv, LinkInv, Inv', Restart PROVE LinkInv'
<1>1. /\ at.client = "down" /\ at'.client = "accept" /\ at'.server = at.server
      /\ UNCHANGED <<step, inbox, link, compiled, held, cancel, built, running, arbiter, ended>>
  BY GotoPlaces DEF Inv, Restart, ClientStates, wireVars, serverVars, noteVars
<1>2. ArbiterWorks' /\ Ran'
  BY <1>1 DEF LinkInv, ArbiterWorks, Ran
<1>3. NodeReads'
  BY <1>1 DEF LinkInv, Loose, NodeReads
<1>4. ServerReads'
  BY <1>1, ServerStays DEF LinkInv, Loose
<1>5. Apart'
  BY <1>1 DEF LinkInv, Loose, Apart, Away
<1>6. ~Talking'
  BY <1>1 DEF LinkInv, Talking, Joined, Together
<1> QED
  BY <1>1, <1>2, <1>3, <1>4, <1>5, <1>6, Combine DEF Loose

-----------------------------------------------------------------------------
(* The node's side of the handshake, the build and the job                 *)

\* What a step of the node leaves to a server that does not hear it.
LEMMA NodeAlone ==
  ASSUME LinkInv, ~Talking', UNCHANGED <<at.server, step["server"], held, link>>,
         Joined \/ UNCHANGED inbox["server"], NodeReads', Apart'
  PROVE  Loose'
<1>1. at.server = "connect" \/ UNCHANGED inbox["server"]
  BY DEF Talking, Joined
<1> QED
  BY <1>1, ServerStays DEF LinkInv, Loose

\* The node answers with its version, whatever it has read for a request.
LEMMA AnswersVersionLink == ASSUME Inv, LinkInv, Inv', AnswersVersion PROVE LinkInv'
<1>1. /\ at.client = "uninit" /\ at'.client = "verdict" /\ at'.server = at.server
      /\ inbox["client"] # <<>> /\ inbox'["client"] = Tail(inbox["client"])
      /\ Head(inbox["client"]).tag \in {"0", "1", "2"}
      /\ inbox["server"] \in Seq(Mail) /\ inbox["client"] \in Seq(Mail)
      /\ Joined => inbox'["server"] = Append(inbox["server"], ResponseVersion(version))
      /\ ~Joined => inbox'["server"] = inbox["server"]
      /\ UNCHANGED <<step, link, compiled, held, cancel, version, built, running, arbiter, ended>>
  BY GotoPlaces, Answers DEF Inv, AnswersVersion, Hears, Enum, ClientStates, Wires, Sides,
     serverVars, clientVars, noteVars
<1>2. ArbiterWorks'
  BY <1>1 DEF LinkInv, ArbiterWorks
<1>3. ResponseVersion(version) \in Mail
  BY MailWritten DEF Inv, ClientKnows
<1>4. Ran'
  <2>1. ToServer # <<>> => Head(ToServer').tag = Head(ToServer).tag
    BY <1>1, <1>3, Appended
  <2>2. ToServer = <<>> => ToServer' = <<>> \/ Head(ToServer').tag = "version"
    BY <1>1, <1>3, Appended, Marks
  <2> QED
    BY <1>1, <2>1, <2>2 DEF LinkInv, Ran
<1>5. ASSUME Talking' PROVE Together'
  <2>1. /\ inbox'["server"] = Append(inbox["server"], ResponseVersion(version)) /\ Together
        /\ ~cancel
    BY <1>1, <1>5 DEF LinkInv, Talking, Joined, Together
  <2>2. inbox["server"] = <<>> => inbox'["server"] = Answer
    BY <2>1, Tuples
  <2>3. inbox["server"] = <<>>
    BY <1>1, <2>1 DEF Together
  <2>4. \/ Server({"version"}) /\ inbox["client"] = <<Zero>>
        \/ Server({"uninit"}) /\ inbox["client"] = <<Two, One>>
        \/ Server({"version"}) /\ inbox["client"] = <<Two, One, Zero>>
        \/ Refuses
    BY <1>1, <2>1, Requests DEF Together
  <2>5. CASE Refuses
    <3>1. Server({"building", "executing"}) /\ inbox["client"] = <<Two>>
      BY <1>1, <2>5, Tuples, Marks
    <3> QED
      BY <1>1, <2>1, <2>2, <2>3, <3>1, Tuples DEF Together
  <2>6. \/ Server({"version"}) /\ inbox'["client"] = <<>>
        \/ Server({"uninit"}) /\ inbox'["client"] = <<One>>
        \/ Server({"version"}) /\ inbox'["client"] = <<One, Zero>>
        \/ Refuses
    BY <1>1, <2>4, Units
  <2>7. CASE Server({"version"}) /\ inbox'["client"] = <<One, Zero>>
    <3>1. Doomed'
      BY <1>1, <2>7, Units
    <3> QED
      BY <1>1, <2>1, <2>2, <2>3, <2>7, <3>1 DEF Together
  <2> QED
    BY <1>1, <2>1, <2>2, <2>3, <2>5, <2>6, <2>7 DEF Together
<1>6. ASSUME ~Talking' PROVE Loose'
  <2>1. NodeReads'
    BY <1>1 DEF LinkInv, Loose, NodeReads
  <2>2. Apart'
    BY <1>1, <1>6 DEF LinkInv, Loose, Apart, Finds, Away, Idle, Single, Talking, Joined
  <2> QED
    BY <1>1, <1>6, <2>1, <2>2, NodeAlone
<1> QED
  BY <1>2, <1>4, <1>5, <1>6, Combine

\* The verdict comes before any order, and is never taken for a question.
LEMMA ReadsVerdictLink == ASSUME Inv, LinkInv, Inv', ReadsVerdict PROVE LinkInv'
<1>1. /\ at.client = "verdict" /\ at'.server = at.server
      /\ inbox["client"] # <<>> /\ inbox'["client"] = Tail(inbox["client"])
      /\ inbox'["server"] = inbox["server"] /\ inbox["client"] \in Seq(Mail)
      /\ \/ Head(inbox["client"]).tag = "1" /\ at'.client = "prepare_build"
         \/ Head(inbox["client"]).tag = "2" /\ at'.client = "uninit"
         \/ Head(inbox["client"]).tag = "0"
      /\ UNCHANGED <<step, link, compiled, held, cancel, version, built, running, arbiter, ended>>
  <2>1. /\ Read("client") /\ at.client = "verdict" /\ inbox["client"] # <<>>
        /\ \/ Head(inbox["client"]).tag = "1" /\ Goto("client", "prepare_build")
           \/ Head(inbox["client"]).tag = "2" /\ Goto("client", "uninit")
           \/ Head(inbox["client"]).tag = "0" /\ Goto("client", "panicked")
    BY DEF ReadsVerdict, Hears
  <2> QED
    BY <2>1, GotoPlaces, Takes DEF Inv, ReadsVerdict, ClientStates, Wires, Sides,
       serverVars, clientVars, noteVars
<1>2. /\ at'.client \in {"prepare_build", "uninit"}
      /\ \/ /\ Head(inbox["client"]) = One /\ at'.client = "prepare_build"
            /\ OrderMail(inbox'["client"])
         \/ /\ Head(inbox["client"]) = Two /\ at'.client = "uninit"
            /\ inbox'["client"] \in {<<>>, <<Zero>>}
  BY <1>1, Marks DEF LinkInv, Loose, NodeReads, VerdictMail
<1>3. ArbiterWorks' /\ Ran'
  BY <1>1, <1>2 DEF LinkInv, ArbiterWorks, Ran
<1>4. ASSUME Talking' PROVE Together'
  <2>1. Together /\ ~cancel'
    BY <1>1, <1>4 DEF LinkInv, Talking, Joined, Together
  <2>2. CASE Starts
    <3>1. CASE ToServer \in {<<>>, Answer} /\ Doomed
      <4>1. Doomed'
        BY <1>1, <1>2, <3>1, Marks
      <4> QED
        BY <1>1, <2>1, <2>2, <3>1, <4>1 DEF Together
    <3>2. \/ ToServer = <<>> /\ (Behind(<<One>>) \/ Behind(<<Two>>))
          \/ ToServer = Answer /\ Server({"uninit"}) /\ ToClient = <<One>>
          \/ ToServer \in {<<>>, Answer} /\ Doomed
      BY <1>1, <2>2
    <3>3. CASE ToServer = <<>> /\ (Behind(<<One>>) \/ Behind(<<Two>>))
      <4>1. \/ Server({"uninit"}) /\ inbox["client"] \in {<<One>>, <<Two>>}
            \/ Server({"version"}) /\ inbox["client"] \in {<<One, Zero>>, <<Two, Zero>>}
        BY <3>3, Requests
      <4>2. Behind(<<>>)'
        BY <1>1, <4>1, Units, Requests
      <4>3. Starts'
        <5> HIDE DEF Behind
        <5> QED
          BY <1>1, <1>2, <3>3, <4>1, <4>2
      <4> QED
        <5> HIDE DEF Starts, Refuses, Builds, Runs, Results
        <5> QED
          BY <2>1, <4>3 DEF Together
    <3>4. CASE ToServer = Answer /\ Server({"uninit"}) /\ ToClient = <<One>>
      <4>1. at'.client = "prepare_build" /\ inbox'["client"] = <<>>
        BY <1>1, <3>4, Units, Marks
      <4> QED
        BY <1>1, <2>1, <3>4, <4>1 DEF Together
    <3> QED
      BY <3>1, <3>2, <3>3, <3>4
  <2>3. CASE Server({"prepare_build", "send_build", "building"}) /\ ToServer = <<>> /\ Leads
    <3>1. BuildSent(Tail(ToClient)) /\ Head(ToClient) = One
      BY <1>1, <2>3
    <3>2. Leads'
      BY <1>1, <1>2, <3>1, Marks
    <3> QED
      BY <1>1, <2>1, <2>3, <3>2 DEF Together
  <2>4. CASE Server({"prepare_build", "send_build", "building"}) /\ ToServer = <<>> /\ Doomed
    <3>1. Doomed'
      BY <1>1, <1>2, <2>4, Marks
    <3> QED
      BY <1>1, <2>1, <2>4, <3>1 DEF Together
  <2> QED
    BY <1>1, <2>1, <2>2, <2>3, <2>4 DEF Together
<1>5. ASSUME ~Talking' PROVE Loose'
  <2>1. NodeReads'
    BY <1>1, <1>2, Units, Singles DEF NodeReads, VerdictMail
  <2>2. Apart'
    BY <1>1, <1>2, <1>5, Units, Singles DEF LinkInv, Loose, Apart, Finds, Away, Idle, Talking, Joined
  <2> QED
    BY <1>1, <1>5, <2>1, <2>2, NodeAlone
<1> QED
  BY <1>3, <1>4, <1>5, Combine

\* The order names the batch whose files come next.
LEMMA ReadsBuildOrderLink == ASSUME Inv, LinkInv, Inv', ReadsBuildOrder PROVE LinkInv'
<1>1. /\ at.client = "prepare_build" /\ at'.client = "receive_build" /\ at'.server = at.server
      /\ inbox["client"] # <<>> /\ inbox'["client"] = Tail(inbox["client"])
      /\ inbox'["server"] = inbox["server"] /\ inbox["client"] \in Seq(Mail)
      /\ Head(inbox["client"]).tag = "build" /\ built' = Head(inbox["client"]).of.ident
      /\ step'["client"] = "open" /\ step'["server"] = step["server"]
      /\ UNCHANGED <<link, compiled, held, cancel, version, running, arbiter, ended>>
  <2>1. at'.client = "receive_build" /\ at'.server = at.server
    BY EnterPlaces DEF Inv, ReadsBuildOrder, ClientStates, StepKinds
  <2> QED
    BY <2>1, Takes DEF Inv, Places, ReadsBuildOrder, Enter, Hears, Heard, Wires, Sides,
       serverVars, noteVars
<1>2. PICK b \in Batches :
        /\ Head(inbox["client"]) = InitializeJob(b) /\ built' = b
        /\ inbox'["client"] \in {<<>>, <<SaveFile(Batch(b))>>, <<FileMarker(Batch(b))>>, <<Two>>}
  BY SMTT(30), <1>1, Marks DEF LinkInv, Loose, NodeReads, OrderMail, Batch
<1>3. ArbiterWorks' /\ Ran'
  BY <1>1 DEF LinkInv, ArbiterWorks, Ran
<1>4. ASSUME Talking' PROVE Together'
  <2>1. Together /\ ~cancel' /\ ~Doomed
    BY <1>1, <1>4, Marks DEF LinkInv, Talking, Joined, Together
  <2>2. BuildSent(ToClient) /\ ToServer = <<>> /\ ~Server({"prepare_build"})
    BY <1>1, <2>1, Units, Requests, Marks DEF Together
  <2>3. InitializeJob(b).of.ident = b /\ InitializeJob(compiled).of.ident = compiled
    BY DEF InitializeJob, Batch
  <2>4. CASE Server({"building"}) /\ inbox["client"] = <<InitializeJob(compiled), Two>>
    <3>1. Head(inbox["client"]) = InitializeJob(compiled) /\ inbox'["client"] = <<Two>>
      BY <1>1, <2>4, Tuples
    <3> QED
      BY <1>1, <1>2, <2>1, <2>2, <2>3, <2>4, <3>1 DEF Together
  <2>5. CASE Server({"send_build"}) /\ OrderSent(ToClient, InitializeJob(compiled), Batch(compiled))
    <3>1. /\ Head(inbox["client"]) = InitializeJob(compiled)
          /\ \/ step["server"] = "ready" /\ inbox'["client"] = <<>>
             \/ step["server"] = "ack" /\ inbox'["client"] = <<SaveFile(Batch(compiled))>>
             \/ step["server"] = "marker" /\ inbox'["client"] = <<FileMarker(Batch(compiled))>>
      <4> HIDE DEF OrderSent
      <4> QED
        BY <1>1, <2>5, OrderTaken
    <3> QED
      BY <1>1, <1>2, <2>1, <2>2, <2>3, <2>5, <3>1 DEF Together
  <2> QED
    BY <2>2, <2>4, <2>5
<1>5. ASSUME ~Talking' PROVE Loose'
  <2>1. NodeReads'
    BY <1>1, <1>2 DEF NodeReads
  <2>2. Apart'
    BY <1>1, <1>5 DEF LinkInv, Loose, Apart, Finds, Away, Idle, Talking, Joined
  <2> QED
    BY <1>1, <1>5, <2>1, <2>2, NodeAlone
<1> QED
  BY <1>3, <1>4, <1>5, Combine

\* The node reports its build to a server that waits for nothing else.
LEMMA ReportsBuildLink == ASSUME Inv, LinkInv, Inv', ReportsBuild PROVE LinkInv'
<1>1. PICK m \in {Zero, One} :
      /\ at.client = "building" /\ at'.server = at.server
      /\ inbox'["client"] = inbox["client"] /\ inbox["server"] \in Seq(Mail)
      /\ Joined => inbox'["server"] = Append(inbox["server"], m)
      /\ ~Joined => inbox'["server"] = inbox["server"]
      /\ \/ at'.client = "built" /\ m = Zero /\ UNCHANGED built
         \/ at'.client = "prepare_build" /\ m = One
      /\ UNCHANGED <<step, link, compiled, held, cancel, version, running, arbiter, ended>>
  <2>1. PICK m \in {Zero, One} :
        /\ Send("client", m)
        /\ \/ Goto("client", "built") /\ m = Zero /\ UNCHANGED built
           \/ Goto("client", "prepare_build") /\ m = One
    BY DEF ReportsBuild
  <2> QED
    BY <2>1, GotoPlaces, Says DEF Inv, ReportsBuild, ClientStates, Wires, Sides,
       serverVars, noteVars
<1>2. inbox["client"] = <<>>
  BY <1>1 DEF LinkInv, Loose, NodeReads
<1>3. ArbiterWorks'
  BY <1>1 DEF LinkInv, ArbiterWorks
<1>4. ASSUME Talking' PROVE Together' /\ Ran'
  <2>1. Together /\ ~cancel'
    BY <1>1, <1>4 DEF LinkInv, Talking, Joined, Together
  <2>2. Server({"building"}) /\ inbox["server"] = <<>> /\ inbox'["server"] = <<m>> /\ built = compiled
    BY <1>1, <1>2, <1>4, <2>1, Tuples DEF Together, Talking, Joined
  <2>3. Together'
    BY <1>1, <1>2, <2>1, <2>2 DEF Together
  <2> QED
    BY <1>1, <2>2, <2>3 DEF Ran
<1>5. ASSUME ~Talking' PROVE Loose' /\ Ran'
  <2>1. NodeReads'
    BY <1>1, <1>2 DEF NodeReads, OrderMail
  <2>2. Apart' /\ Ran'
    BY <1>1, <1>2, <1>5 DEF LinkInv, Loose, Apart, Finds, Away, Idle, Talking, Joined, Ran
  <2> QED
    BY <1>1, <1>5, <2>1, <2>2, NodeAlone
<1> QED
  BY <1>3, <1>4, <1>5, Combine

\* The node takes the job that the server holds, if they talk, or is told to
\* forget its batch.
LEMMA ReadsJobOrderLink == ASSUME Inv, LinkInv, Inv', ReadsJobOrder PROVE LinkInv'
<1>1. /\ at.client = "built" /\ at'.server = at.server
      /\ inbox["client"] # <<>> /\ inbox'["client"] = Tail(inbox["client"])
      /\ inbox'["server"] = inbox["server"] /\ inbox["client"] \in Seq(Mail)
      /\ \/ /\ Head(inbox["client"]).tag = "job" /\ running' = Head(inbox["client"]).of
            /\ at'.client = "receive_inputs" /\ step'["client"] = "open" /\ UNCHANGED built
         \/ Head(inbox["client"]).tag = "0" /\ at'.client = "prepare_build"
      /\ step'["server"] = step["server"]
      /\ UNCHANGED <<link, compiled, held, cancel, version, arbiter, ended>>
  <2>1. \/ at'.client = "receive_inputs" /\ Enter("client", "receive_inputs", "open")
           /\ Hears("client", "job") /\ running' = Heard("client") /\ UNCHANGED built
        \/ at'.client = "prepare_build" /\ Enter("client", "prepare_build", "ready")
           /\ Hears("client", "0")
    BY EnterPlaces DEF Inv, ReadsJobOrder, ClientStates, StepKinds
  <2>2. at'.server = at.server
    BY <2>1, EnterPlaces DEF Inv, ClientStates, StepKinds
  <2> QED
    BY <2>1, <2>2, Takes DEF Inv, Places, ReadsJobOrder, Enter, Hears, Heard, Wires, Sides,
       serverVars, noteVars
<1>2. \/ \E j \in Job : 
           /\ Head(inbox["client"]) = ExecuteJob(j) /\ running' = j
           /\ at'.client = "receive_inputs" /\ step'["client"] = "open" /\ UNCHANGED built
           /\ JobMail(inbox'["client"], j)
      \/ /\ Head(inbox["client"]) = Zero /\ at'.client = "prepare_build"
         /\ OrderMail(inbox'["client"])
  BY <1>1, Marks DEF LinkInv, Loose, NodeReads
<1>3. ArbiterWorks' /\ Ran'
  BY <1>1 DEF LinkInv, ArbiterWorks, Ran
<1>4. ASSUME Talking' PROVE Together'
  <2>1. Together /\ ~cancel'
    BY <1>1, <1>4 DEF LinkInv, Talking, Joined, Together
  <2>2. CASE Starts
    <3>1. \/ ToServer = <<>> /\ \E j \in Job : Behind(<<ExecuteJob(j), Two, One>>)
          \/ (ToServer = <<>> \/ Junk) /\ Behind(<<Zero>>)
          \/ (Junk \/ (ToServer = <<>> /\ "keepalive_built" \in Mishaps)) /\ Behind(<<>>)
      BY <1>1, <2>2
    <3>2. CASE ToServer = <<>> /\ \E j \in Job : Behind(<<ExecuteJob(j), Two, One>>)
      <4>1. PICK j \in Job :
              \/ Server({"uninit"}) /\ inbox["client"] = <<ExecuteJob(j), Two, One>>
              \/ Server({"version"}) /\ inbox["client"] = <<ExecuteJob(j), Two, One, Zero>>
        BY <3>2, Requests
      <4>2. CASE Server({"uninit"}) /\ inbox["client"] = <<ExecuteJob(j), Two, One>>
        <5>1. Head(inbox["client"]) = ExecuteJob(j)
          BY <4>2, Tuples
        <5>2. inbox'["client"] = <<Two, One>>
          BY <1>1, <4>2, Tuples
        <5>3. at'.client = "receive_inputs" /\ step'["client"] = "open"
          BY <1>1, <5>1, Marks
        <5> QED
          BY <1>1, <2>1, <3>2, <4>2, <5>2, <5>3 DEF Together
      <4>3. CASE Server({"version"}) /\ inbox["client"] = <<ExecuteJob(j), Two, One, Zero>>
        <5>1. Head(inbox["client"]) = ExecuteJob(j)
          BY <4>3, Tuples
        <5>2. inbox'["client"] = <<Two, One, Zero>>
          BY <1>1, <4>3, Tuples
        <5>3. at'.client = "receive_inputs" /\ step'["client"] = "open"
          BY <1>1, <5>1, Marks
        <5> QED
          BY <1>1, <2>1, <3>2, <4>3, <5>2, <5>3, Requests DEF Together
      <4> QED
        BY <4>1, <4>2, <4>3
    <3>3. CASE (ToServer = <<>> \/ Junk) /\ Behind(<<Zero>>)
      <4>1. \/ Server({"uninit"}) /\ inbox["client"] = <<Zero>>
            \/ Server({"version"}) /\ inbox["client"] = <<Zero, Zero>>
        BY <3>3, Requests
      <4>2. Head(inbox["client"]) = Zero
        BY <4>1, Units
      <4>3. \/ Server({"uninit"}) /\ inbox'["client"] = <<>>
            \/ Server({"version"}) /\ inbox'["client"] = <<Zero>>
        BY <1>1, <4>1, Units
      <4>4. at'.client = "prepare_build"
        BY <1>1, <4>2, Marks
      <4> QED
        BY <1>1, <2>1, <3>3, <4>3, <4>4, Requests DEF Together
    <3>4. CASE /\ Junk \/ (ToServer = <<>> /\ "keepalive_built" \in Mishaps)
               /\ Behind(<<>>)
      <4>1. at'.client = "prepare_build" /\ Server({"version"}) /\ inbox'["client"] = <<>>
        BY <1>1, <3>4, Units, Requests, Marks
      <4> QED
        BY <1>1, <2>1, <3>4, <4>1 DEF Together
    <3> QED
      BY <3>1, <3>2, <3>3, <3>4
  <2>3. CASE Builds
    <3>1. /\ Server({"prepare_build", "send_build", "building"}) /\ ToServer = <<>>
          /\ BuildSent(Tail(ToClient)) /\ Head(ToClient) = Zero
      BY <1>1, <2>3
    <3>2. Leads'
      BY <1>1, <3>1, Marks
    <3> QED
      BY <1>1, <2>1, <3>1, <3>2 DEF Together
  <2>4. CASE Runs
    <3>1. JobSent /\ ToServer = <<>> /\ built = compiled
      BY <1>1, <2>4
    <3>2. CASE Server({"executing"}) /\ inbox["client"] = <<ExecuteJob(held), Two>>
      <4>1. Head(inbox["client"]) = ExecuteJob(held) /\ inbox'["client"] = <<Two>>
        BY <1>1, <3>2, Tuples
      <4> QED
        BY <1>1, <2>1, <3>1, <3>2, <4>1, Marks DEF Together
    <3>3. CASE Server({"send_inputs"}) /\ OrderSent(ToClient, ExecuteJob(held), held)
      <4>1. /\ Head(inbox["client"]) = ExecuteJob(held)
            /\ \/ step["server"] = "ready" /\ inbox'["client"] = <<>>
               \/ step["server"] = "ack" /\ inbox'["client"] = <<SaveFile(held)>>
               \/ step["server"] = "marker" /\ inbox'["client"] = <<FileMarker(held)>>
        <5> HIDE DEF OrderSent
        <5> QED
          BY <1>1, <3>3, OrderTaken
      <4>2. /\ at'.client = "receive_inputs" /\ step'["client"] = "open"
            /\ running' = held /\ UNCHANGED built
        <5> HIDE DEF OrderSent
        <5> QED
          BY <1>1, <4>1, Marks
      <4>3. Carries("server", "client", held)'
        <5> HIDE DEF OrderSent
        <5> QED
          BY <1>1, <3>1, <4>1, <4>2
      <4>4. Runs'
        <5> HIDE DEF OrderSent, Carries, JobSent
        <5> QED
          BY <1>1, <3>1, <3>3, <4>2, <4>3
      <4> QED
        <5> HIDE DEF Starts, Refuses, Builds, Runs, Results
        <5> QED
          BY <2>1, <4>4 DEF Together
    <3> QED
      BY <3>1, <3>2, <3>3
  <2> QED
    BY <1>1, <2>1, <2>2, <2>3, <2>4, Units DEF Together
<1>5. ASSUME ~Talking' PROVE Loose'
  <2>1. NodeReads'
    BY <1>1, <1>2 DEF NodeReads
  <2>2. Apart'
    BY <1>1, <1>2, <1>5, Marks DEF LinkInv, Loose, Apart, Finds, Away, Idle, Talking, Joined
  <2> QED
    BY <1>1, <1>5, <2>1, <2>2, NodeAlone
<1> QED
  BY <1>3, <1>4, <1>5, Combine

\* The arbiter listens, fails to, or has been contacted.
LEMMA ArbitratesLink == ASSUME Inv, LinkInv, Inv', Arbitrates PROVE LinkInv'
<1>1. /\ Client({"executing", "stopping"}) /\ arbiter' \in {"listening", "fired"}
      /\ arbiter \in {"starting", "contacted"}
      /\ arbiter = "contacted" => arbiter' = "fired"
      /\ UNCHANGED <<at, step, inbox, link, compiled, held, cancel, version, built, running, ended>>
  BY DEF Arbitrates, wireVars, serverVars, noteVars
<1>2. ArbiterWorks' /\ Ran'
  BY <1>1 DEF LinkInv, ArbiterWorks, Ran
<1>3. ASSUME Talking' PROVE Together'
  BY <1>1, <1>3 DEF LinkInv, Talking, Joined, Together
<1>4. NodeReads'
  BY <1>1 DEF LinkInv, Loose, NodeReads
<1>5. ServerReads' /\ Apart'
  BY <1>1, ServerStays DEF LinkInv, Loose, Apart, Finds, Away, Idle
<1> QED
  BY <1>2, <1>3, <1>4, <1>5, Combine DEF Loose

\* The job ends, or is dropped: nothing is said yet.
LEMMA StopsLink == ASSUME Inv, LinkInv, Inv', JobEnds \/ JobAborts PROVE LinkInv'
<1>1. /\ at.client = "executing" /\ at'.client = "stopping" /\ at'.server = at.server
      /\ ended \subseteq ended'
      /\ arbiter = "fired" \/ running.job_name \in ended'
      /\ UNCHANGED <<step, inbox, link, compiled, held, cancel, version, built, running, arbiter>>
  BY GotoPlaces DEF Inv, JobEnds, JobAborts, ClientStates, wireVars, serverVars, clientVars, noteVars
<1>2. ArbiterWorks' /\ Ran'
  BY <1>1 DEF LinkInv, ArbiterWorks, Ran
<1>3. ASSUME Talking' PROVE Together'
  BY <1>1, <1>3 DEF LinkInv, Talking, Joined, Together
<1>4. NodeReads'
  BY <1>1 DEF LinkInv, Loose, NodeReads
<1>5. ServerReads' /\ Apart'
  BY <1>1, ServerStays DEF LinkInv, Loose, Apart, Finds, Away, Idle
<1> QED
  BY <1>2, <1>3, <1>4, <1>5, Combine DEF Loose

\* A kill reaches the arbiter that listens, which is that of the held job.
LEMMA KillsLink == ASSUME Inv, LinkInv, Inv', Kills PROVE LinkInv'
<1>1. /\ at.server = "executing"
      /\ \/ arbiter = "listening" /\ arbiter' = "contacted" /\ cancel' = TRUE
         \/ UNCHANGED <<arbiter, cancel>>
      /\ UNCHANGED <<at, step, inbox, link, compiled, held, version, built, running, ended>>
  BY DEF Kills, wireVars
<1>2. ArbiterWorks' /\ Ran'
  BY <1>1 DEF LinkInv, ArbiterWorks, Ran
<1>3. ASSUME Talking' PROVE Together'
  <2>1. Together
    BY <1>1, <1>3 DEF LinkInv, Talking, Joined
  <2>2. CASE UNCHANGED <<arbiter, cancel>>
    BY <1>1, <2>1, <2>2 DEF Together
  <2>3. CASE arbiter = "listening" /\ arbiter' = "contacted"
    <3>1. Client({"executing", "stopping"})
      BY <1>1, <2>3 DEF LinkInv, ArbiterWorks
    <3>2. Runs'
      BY <1>1, <2>1, <2>3, <3>1 DEF Together
    <3> QED
      <4> HIDE DEF Starts, Refuses, Builds, Runs, Results
      <4> QED
        BY <1>1, <3>1, <3>2 DEF Together
  <2> QED
    BY <1>1, <2>2, <2>3
<1>4. NodeReads'
  BY <1>1 DEF LinkInv, Loose, NodeReads
<1>5. ServerReads' /\ Apart'
  BY <1>1, ServerStays DEF LinkInv, Loose, Apart, Finds, Away, Idle
<1> QED
  BY <1>2, <1>3, <1>4, <1>5, Combine DEF Loose

\* The node says how the job went, to the server that waits for this job.
LEMMA ReportsResultLink == ASSUME Inv, LinkInv, Inv', ReportsResult PROVE LinkInv'
<1>1. PICK m \in {Zero, One, Three} :
      /\ at.client = "stopping" /\ at'.client = "confirm" /\ at'.server = at.server
      /\ inbox'["client"] = inbox["client"] /\ inbox["server"] \in Seq(Mail)
      /\ Joined => inbox'["server"] = Append(inbox["server"], m)
      /\ ~Joined => inbox'["server"] = inbox["server"]
      /\ \/ arbiter = "fired" /\ arbiter' = "reported" /\ m = Zero
         \/ /\ arbiter # "fired" /\ arbiter' = "off" /\ m \in {One, Three}
            /\ arbiter = "contacted" => "late" \in Mishaps
      /\ UNCHANGED <<step, link, compiled, held, cancel, version, built, running, ended>>
  <2>1. PICK m \in {Zero, One, Three} :
        /\ Send("client", m)
        /\ \/ arbiter = "fired" /\ arbiter' = "reported" /\ m = Zero
           \/ /\ arbiter # "fired" /\ arbiter' = "off" /\ m \in {One, Three}
              /\ arbiter = "contacted" => "late" \in Mishaps
    BY DEF ReportsResult, Mishap
  <2> QED
    BY <2>1, GotoPlaces, Says DEF Inv, ReportsResult, ClientStates, Wires, Sides,
       serverVars, noteVars
<1>2. m \in Mail /\ m.tag \in {"0", "1", "3"} /\ (m.tag \in {"1", "3"} => arbiter # "fired")
  BY <1>1, MailWritten, Marks
<1>3. ArbiterWorks'
  BY <1>1 DEF LinkInv, ArbiterWorks
<1>4. Ran'
  <2>1. CASE Joined
    <3>1. inbox["server"] = <<>> => Head(inbox'["server"]) = m
      BY <1>1, <2>1, Tuples
    <3>2. inbox["server"] # <<>> => Head(inbox'["server"]) = Head(inbox["server"])
      BY <1>1, <1>2, <2>1, Appended
    <3>3. Server({"executing"}) => running = held
      BY <1>1 DEF LinkInv, Loose, Apart, Away, Idle
    <3> QED
      BY <1>1, <1>2, <3>1, <3>2, <3>3 DEF LinkInv, Ran
  <2>2. CASE ~Joined
    BY <1>1, <2>2 DEF LinkInv, Ran
  <2> QED
    BY <2>1, <2>2
<1>5. ASSUME Talking' PROVE Together'
  <2>1. Together /\ inbox["server"] = <<>>
    BY <1>1, <1>5 DEF LinkInv, Talking, Joined, Together
  <2>2. inbox'["server"] = <<m>>
    BY <1>1, <1>5, <2>1, Tuples DEF Talking, Joined
  <2>3. CASE Starts
    <3>1. Behind(<<One>>) /\ ~cancel
      BY <1>1, <2>3 DEF LinkInv, ArbiterWorks
    <3>2. Junk'
      BY <1>2, <2>2, Tuples
    <3> QED
      BY <1>1, <2>3, <3>1, <3>2 DEF Together
  <2>4. CASE Runs
    BY <1>1, <2>2, <2>4 DEF LinkInv, ArbiterWorks, Together
  <2> QED
    BY <1>1, <2>1, <2>3, <2>4 DEF Together
<1>6. ASSUME ~Talking' PROVE Loose'
  <2>1. NodeReads'
    BY <1>1, Units DEF LinkInv, Loose, NodeReads, StaleMail
  <2>2. Apart'
    BY <1>1, <1>6 DEF LinkInv, Loose, Apart, Finds, Away, Idle, Talking, Joined
  <2> QED
    BY <1>1, <1>6, <2>1, <2>2, NodeAlone
<1> QED
  BY <1>3, <1>4, <1>5, <1>6, Combine

\* Whether its results are wanted: they are sent only if the server awaits them,
\* or are sent to a server that has started over and rejects them.
LEMMA ReadsConfirmationLink == ASSUME Inv, LinkInv, Inv', ReadsConfirmation PROVE LinkInv'
<1>1. /\ at.client = "confirm" /\ at'.server = at.server
      /\ inbox["client"] # <<>> /\ inbox'["client"] = Tail(inbox["client"])
      /\ Head(inbox["client"]).tag \in {"0", "1"}
      /\ inbox'["server"] = inbox["server"] /\ inbox["client"] \in Seq(Mail)
      /\ \/ /\ Head(inbox["client"]).tag = "0" \/ arbiter = "reported"
            /\ at'.client = "prepare_build"
         \/ /\ Head(inbox["client"]).tag = "1" /\ arbiter # "reported"
            /\ at'.client = "send_results" /\ step'["client"] = "ready"
            /\ UNCHANGED <<built, running>>
      /\ arbiter' = "off" /\ step'["server"] = step["server"]
      /\ UNCHANGED <<link, compiled, held, cancel, version, ended>>
  <2>1. /\ inbox["client"] # <<>> /\ Head(inbox["client"]).tag \in {"0", "1"}
        /\ \/ /\ Head(inbox["client"]).tag = "0" \/ arbiter = "reported"
              /\ Enter("client", "prepare_build", "ready")
           \/ /\ Head(inbox["client"]).tag = "1" /\ arbiter # "reported"
              /\ Enter("client", "send_results", "ready") /\ UNCHANGED <<built, running>>
        /\ arbiter' = "off"
    BY DEF ReadsConfirmation, Hears, Enum, Reading, LinkInv, ArbiterWorks
  <2>2. /\ at'.server = at.server
        /\ Enter("client", "prepare_build", "ready") => at'.client = "prepare_build"
        /\ Enter("client", "send_results", "ready") => at'.client = "send_results"
    BY <2>1, EnterPlaces DEF Inv, ClientStates, StepKinds
  <2> QED
    BY <2>1, <2>2, Takes DEF Inv, Places, ReadsConfirmation, Enter, Wires, Sides,
       serverVars, noteVars
<1>2. /\ Head(inbox["client"]) \in {Zero, One}
      /\ \/ inbox'["client"] \in {<<>>, <<Zero>>}
         \/ arbiter = "reported" /\ OrderMail(inbox'["client"])
  BY <1>1 DEF LinkInv, Loose, NodeReads
<1>3. ArbiterWorks' /\ Ran'
  BY <1>1 DEF LinkInv, ArbiterWorks, Ran
<1>4. ASSUME Talking' PROVE Together'
  <2>1. Together /\ ~cancel'
    BY <1>1, <1>4 DEF LinkInv, ArbiterWorks, Loose, Apart, Away, Idle, Talking, Joined
  <2>2. CASE Starts
    <3>1. (ToServer = <<>> \/ Junk) /\ (Behind(<<One>>) \/ Behind(<<Zero>>))
      BY <1>1, <2>2
    <3>2. \/ Server({"uninit"}) /\ inbox["client"] \in {<<One>>, <<Zero>>}
          \/ Server({"version"}) /\ inbox["client"] \in {<<One, Zero>>, <<Zero, Zero>>}
      BY <3>1, Requests
    <3>3. \/ Server({"uninit"}) /\ inbox'["client"] = <<>>
          \/ Server({"version"}) /\ inbox'["client"] = <<Zero>>
      BY <1>1, <3>2, Units
    <3> QED
      BY <1>1, <2>1, <3>1, <3>3, Requests DEF Together
  <2>3. CASE Builds
    <3>1. /\ Server({"prepare_build", "send_build", "building"}) /\ ToServer = <<>>
          /\ BuildSent(Tail(ToClient)) /\ arbiter = "reported"
      BY <1>1, <2>3
    <3>2. Leads'
      BY <1>1, <3>1
    <3> QED
      BY <1>1, <2>1, <3>1, <3>2 DEF Together
  <2>4. CASE Results
    <3>1. /\ step["server"] \in Open /\ Server({"receive_results"}) /\ ToServer = <<>>
          /\ \/ /\ built = compiled /\ running = held /\ arbiter = "off"
                /\ inbox["client"] = <<One>>
             \/ "late" \in Mishaps /\ inbox["client"] = <<Zero>>
      BY <1>1, <2>4
    <3>2. inbox'["client"] = <<>>
      BY <1>1, <3>1, Units
    <3>3. inbox["client"] = <<Zero>> => at'.client = "prepare_build"
      BY <1>1, Units, Marks
    <3>4. inbox["client"] = <<One>> /\ arbiter = "off" => at'.client = "send_results"
      BY <1>1, Units, Marks
    <3> QED
      BY <1>1, <2>1, <3>1, <3>2, <3>3, <3>4 DEF Together
  <2> QED
    BY <1>1, <2>1, <2>2, <2>3, <2>4 DEF Together
<1>5. ASSUME ~Talking' PROVE Loose'
  <2>1. OrderMail(<<>>) /\ OrderMail(<<Zero>>)
    BY Units DEF OrderMail
  <2>2. NodeReads'
    BY <1>1, <1>2, <2>1, Units, Marks DEF NodeReads
  <2>3. Apart'
    BY <1>1, <1>5 DEF LinkInv, Loose, Apart, Finds, Away, Idle, Talking, Joined
  <2> QED
    BY <1>1, <1>5, <2>2, <2>3, NodeAlone
<1> QED
  BY <1>3, <1>4, <1>5, Combine

-----------------------------------------------------------------------------
(* The node's side of the transfers                                        *)

\* A node that sends results does so to a server that awaits them, or to one
\* that has started over.
LEMMA Resulting ==
  ASSUME LinkInv, at.client = "send_results", at'.client \in {"send_results", "built"},
         UNCHANGED <<at.server, step["server"], held, cancel, arbiter, ended, link>>,
         Joined \/ UNCHANGED inbox["server"]
  PROVE  ArbiterWorks' /\ Ran' /\ (~Talking' => Apart')
<1>1. ~Server({"built", "send_inputs", "executing"}) /\ ~cancel
  BY DEF LinkInv, Loose, Apart, ArbiterWorks, Away, Idle
<1>2. ArbiterWorks' /\ Ran'
  BY <1>1 DEF LinkInv, ArbiterWorks, Ran
<1>3. ASSUME ~Talking' PROVE Apart'
  BY <1>1, <1>3 DEF LinkInv, Loose, Apart, Finds, Away, Idle, Talking, Joined
<1> QED
  BY <1>2, <1>3

\* What the server has to do with results that are sent.
LEMMA ResultsTo ==
  ASSUME LinkInv, Talking, at.client = "send_results"
  PROVE  /\ ~cancel
         /\ \/ /\ Server({"receive_results"}) /\ built = compiled /\ running = held
               /\ Carries("client", "server", held)
            \/ /\ Server({"uninit", "version"}) /\ step["client"] = "ready"
               /\ ToServer = <<>> \/ Junk
               /\ Behind(<<>>)
            \/ Server({"uninit", "version"}) /\ Junk /\ Behind(<<>>)
            \/ Server({"version"}) /\ Junk /\ ToClient = <<>>
BY DEF LinkInv, Together

\* The next file of the results, or its marker.
LEMMA SendsResultLink == ASSUME Inv, LinkInv, Inv', SendsFile("client") PROVE LinkInv'
<1>1. PICK m \in {SaveFile(running), FileMarker(running)} :
      /\ at.client = "send_results" /\ UNCHANGED at
      /\ inbox'["client"] = inbox["client"] /\ inbox["server"] \in Seq(Mail)
      /\ Joined => inbox'["server"] = Append(inbox["server"], m)
      /\ ~Joined => inbox'["server"] = inbox["server"]
      /\ step["client"] = "ready" /\ step'["server"] = step["server"]
      /\ \/ m = SaveFile(running) /\ step'["client"] = "ack"
         \/ m = FileMarker(running) /\ step'["client"] = "marker"
      /\ UNCHANGED <<link, compiled, held, cancel, version, built, running, arbiter, ended>>
  <2>1. at.client = "send_results" /\ Subject("client") = running
    BY DEF SendsFile, Sending, AfterSend, Inv, Places, ClientStates, Subject
  <2>2. PICK m \in {SaveFile(running), FileMarker(running)} :
          /\ Send("client", m)
          /\ \/ m = SaveFile(running) /\ Step("client", "ack")
             \/ m = FileMarker(running) /\ Step("client", "marker")
    BY <2>1 DEF SendsFile
  <2> QED
    BY <2>1, <2>2, Says DEF Inv, Places, SendsFile, Step, Wires, Sides,
       transferless, serverVars, clientVars, noteVars
<1>2. m \in Mail /\ m.tag \in {"file", "marker"}
  BY <1>1, MailWritten, Marks DEF Inv, ClientKnows
<1>3. ArbiterWorks' /\ Ran' /\ (~Talking' => Apart')
  BY <1>1, Resulting
<1>4. ASSUME Talking' PROVE Together'
  <2>1. Talking /\ inbox'["server"] = Append(inbox["server"], m) /\ ~cancel'
    BY <1>1, <1>4, ResultsTo DEF Talking, Joined
  <2>2. CASE /\ Server({"receive_results"}) /\ built = compiled /\ running = held
             /\ Carries("client", "server", held)
    <3>1. step["server"] \in Open /\ inbox["client"] = <<>> /\ inbox["server"] = <<>>
      BY <1>1, <2>2
    <3>2. inbox'["server"] = <<m>>
      BY <2>1, <3>1, Tuples
    <3> QED
      BY <1>1, <2>1, <2>2, <3>1, <3>2 DEF Together
  <2>3. CASE /\ Server({"uninit", "version"}) /\ (ToServer = <<>> \/ Junk)
             /\ Behind(<<>>) \/ (Server({"version"}) /\ ToClient = <<>>)
    <3>1. inbox["server"] = <<>> => inbox'["server"] = <<m>>
      BY <2>1, Tuples
    <3>2. inbox["server"] # <<>> =>
            inbox'["server"] # <<>> /\ Head(inbox'["server"]) = Head(inbox["server"])
      BY <1>1, <1>2, <2>1, Appended
    <3>3. Junk'
      BY <1>2, <2>3, <3>1, <3>2, Tuples
    <3> QED
      BY <1>1, <2>1, <2>3, <3>3 DEF Together
  <2> QED
    BY <1>1, <2>1, <2>2, <2>3, ResultsTo
<1>5. NodeReads'
  BY <1>1, Singles, Units DEF LinkInv, Loose, NodeReads, Single
<1> QED
  BY <1>1, <1>3, <1>4, <1>5, NodeAlone, Combine

\* The answer to a file.
LEMMA ReadsResultAckLink == ASSUME Inv, LinkInv, Inv', ReadsAck("client") PROVE LinkInv'
<1>1. /\ at.client = "send_results" /\ UNCHANGED at
      /\ inbox["client"] # <<>> /\ inbox'["client"] = Tail(inbox["client"])
      /\ inbox'["server"] = inbox["server"]
      /\ step["client"] = "ack" /\ step'["client"] = "ready" /\ step'["server"] = step["server"]
      /\ UNCHANGED <<link, compiled, held, cancel, version, built, running, arbiter, ended>>
  BY Takes DEF ReadsAck, Sending, AfterSend, Inv, Places, ClientStates, Step, Hears, Sides,
     transferless, serverVars, clientVars, noteVars
<1>2. inbox'["client"] = <<>>
  BY <1>1 DEF LinkInv, Loose, NodeReads, Single
<1>3. ArbiterWorks' /\ Ran' /\ (~Talking' => Apart')
  BY <1>1, Resulting
<1>4. ASSUME Talking' PROVE Together'
  BY <1>1, <1>2, <1>4, ResultsTo DEF Together, Talking, Joined
<1>5. NodeReads'
  BY <1>1, <1>2 DEF NodeReads
<1> QED
  BY <1>1, <1>3, <1>4, <1>5, NodeAlone, Combine

\* The answer to a marker, after which a large file may follow.
LEMMA ReadsResultMarkerLink ==
  ASSUME Inv, LinkInv, Inv', ReadsMarkerAnswer("client") PROVE LinkInv'
<1>1. /\ at.client = "send_results" /\ UNCHANGED at
      /\ inbox["client"] # <<>> /\ inbox'["client"] = Tail(inbox["client"])
      /\ inbox["server"] \in Seq(Mail)
      /\ step["client"] = "marker" /\ step'["server"] = step["server"]
      /\ \/ /\ Head(inbox["client"]).tag = "1" /\ step'["client"] = "ack"
            /\ Joined => inbox'["server"] = Append(inbox["server"], LargeFile(running))
            /\ ~Joined => inbox'["server"] = inbox["server"]
         \/ /\ Head(inbox["client"]).tag = "1" /\ step'["client"] = "ack"
            /\ "read" \in Mishaps /\ inbox'["server"] = inbox["server"]
         \/ /\ Head(inbox["client"]).tag \in {"0", "2"} /\ step'["client"] = "ready"
            /\ inbox'["server"] = inbox["server"]
      /\ UNCHANGED <<link, compiled, held, cancel, version, built, running, arbiter, ended>>
  <2>1. at.client = "send_results" /\ Subject("client") = running
    BY DEF ReadsMarkerAnswer, Sending, AfterSend, Inv, Places, ClientStates, Subject
  <2>2. /\ inbox["client"] # <<>>
        /\ \/ /\ Head(inbox["client"]).tag = "1" /\ Step("client", "ack")
              /\ Reply("client", LargeFile(running))
           \/ /\ Head(inbox["client"]).tag = "1" /\ Step("client", "ack")
              /\ "read" \in Mishaps /\ Read("client")
           \/ /\ Head(inbox["client"]).tag \in {"0", "2"} /\ Step("client", "ready")
              /\ Read("client")
    BY <2>1 DEF ReadsMarkerAnswer, Hears, Mishap
  <2> QED
    BY <2>1, <2>2, Takes, Answers DEF Inv, Places, ReadsMarkerAnswer, Step, Wires, Sides,
       transferless, serverVars, clientVars, noteVars
<1>2. inbox'["client"] = <<>>
  BY <1>1 DEF LinkInv, Loose, NodeReads, Single
<1>3. ArbiterWorks' /\ Ran' /\ (~Talking' => Apart')
  BY <1>1, Resulting
<1>4. ASSUME Talking' PROVE Together'
  <2>1. Talking /\ Joined /\ ~cancel'
    BY <1>1, <1>4, ResultsTo DEF Talking, Joined
  <2>2. CASE /\ Server({"receive_results"}) /\ built = compiled /\ running = held
             /\ Carries("client", "server", held)
    <3>1. CASE step["server"] = "raw" /\ inbox["client"] = <<One>> /\ inbox["server"] = <<>>
      <4>1. /\ step'["client"] = "ack"
            /\ \/ inbox'["server"] = <<LargeFile(running)>>
               \/ inbox'["server"] = <<>> /\ "read" \in Mishaps
        BY <1>1, <2>1, <3>1, Units, Marks, Tuples
      <4> QED
        BY <1>1, <1>2, <2>1, <2>2, <3>1, <4>1 DEF Together
    <3>2. CASE step["server"] = "ready" /\ inbox["client"] = <<Two>> /\ inbox["server"] = <<>>
      <4>1. step'["client"] = "ready" /\ inbox'["server"] = <<>>
        BY <1>1, <3>2, Units, Marks
      <4> QED
        BY <1>1, <1>2, <2>1, <2>2, <3>2, <4>1 DEF Together
    <3> QED
      BY <1>1, <2>2, <3>1, <3>2
  <2>3. CASE /\ Server({"uninit", "version"}) /\ Junk
             /\ Behind(<<>>) \/ (Server({"version"}) /\ ToClient = <<>>)
    <3>1. Server({"version"}) /\ inbox["client"] = <<Zero>>
      BY <1>1, <2>3, Requests
    <3>2. step'["client"] = "ready" /\ inbox'["server"] = inbox["server"]
      BY <1>1, <3>1, Units, Marks
    <3> QED
      BY <1>1, <1>2, <2>1, <2>3, <3>1, <3>2 DEF Together
  <2> QED
    BY <1>1, <2>1, <2>2, <2>3, ResultsTo
<1>5. NodeReads'
  BY <1>1, <1>2, Singles DEF NodeReads
<1> QED
  BY <1>1, <1>3, <1>4, <1>5, NodeAlone, Combine

\* The results are sent: the node waits for the next job of its batch.
LEMMA FinishesResultsLink == ASSUME Inv, LinkInv, Inv', FinishesSending("client") PROVE LinkInv'
<1>1. /\ at.client = "send_results" /\ at'.client = "built" /\ at'.server = at.server
      /\ inbox'["client"] = inbox["client"] /\ inbox["server"] \in Seq(Mail)
      /\ Joined => inbox'["server"] = Append(inbox["server"], Two)
      /\ ~Joined => inbox'["server"] = inbox["server"]
      /\ step["client"] = "ready" /\ step'["server"] = step["server"]
      /\ UNCHANGED <<link, compiled, held, cancel, version, built, arbiter, ended>>
  <2>1. at.client = "send_results" /\ AfterSend[at.client] = "built"
    BY DEF FinishesSending, Sending, AfterSend, Inv, Places, ClientStates
  <2>2. at'.client = "built" /\ at'.server = at.server
    BY <2>1, EnterPlaces DEF FinishesSending, Inv, ClientStates, StepKinds
  <2> QED
    BY <2>1, <2>2, Says DEF Inv, Places, FinishesSending, Enter, Wires, Sides,
       serverVars, noteVars
<1>3. ArbiterWorks' /\ Ran' /\ (~Talking' => Apart')
  BY <1>1, Resulting
<1>4. ASSUME Talking' PROVE Together'
  <2>1. Talking /\ inbox'["server"] = Append(inbox["server"], Two) /\ ~cancel'
    BY <1>1, <1>4, ResultsTo DEF Talking, Joined
  <2>2. CASE /\ Server({"receive_results"}) /\ built = compiled /\ running = held
             /\ Carries("client", "server", held)
    <3>1. step["server"] \in Open /\ inbox["client"] = <<>> /\ inbox["server"] = <<>>
      BY <1>1, <2>2
    <3>2. inbox'["server"] = <<Two>>
      BY <2>1, <3>1, Tuples
    <3> QED
      BY <1>1, <2>1, <2>2, <3>1, <3>2 DEF Together
  <2>3. CASE /\ Server({"uninit", "version"}) /\ (ToServer = <<>> \/ Junk)
             /\ Behind(<<>>) \/ (Server({"version"}) /\ ToClient = <<>>)
    <3>1. Junk'
      BY <1>1, <2>1, <2>3, Appended, Tuples, MailWritten, Marks
    <3> QED
      BY <1>1, <2>1, <2>3, <3>1 DEF Together
  <2> QED
    BY <1>1, <2>1, <2>2, <2>3, ResultsTo
<1>5. NodeReads'
  BY <1>1, Units DEF LinkInv, Loose, NodeReads, OrderMail
<1> QED
  BY <1>1, <1>3, <1>4, <1>5, NodeAlone, Combine

\* What a node that receives files has to do with the server.
LEMMA ReceivesFrom ==
  ASSUME LinkInv, Talking, Client({"receive_build", "receive_inputs"})
  PROVE  /\ ~cancel
         /\ \/ /\ Server({"send_build"}) /\ Client({"receive_build"}) /\ built = compiled
               /\ Carries("server", "client", Batch(compiled))
            \/ /\ Server({"send_inputs"}) /\ Client({"receive_inputs"}) /\ built = compiled
               /\ running = held /\ Carries("server", "client", held)
            \/ /\ Server({"building"}) /\ Client({"receive_build"}) /\ built = compiled
               /\ step["client"] \in Open /\ ToServer = <<>> /\ ToClient = <<Two>>
            \/ /\ Server({"executing"}) /\ Client({"receive_inputs"}) /\ built = compiled
               /\ running = held
               /\ step["client"] \in Open /\ ToServer = <<>> /\ ToClient = <<Two>>
            \/ /\ Server({"uninit", "version"}) /\ Client({"receive_inputs"})
               /\ step["client"] \in Open /\ ToServer = <<>> /\ Behind(<<Two, One>>)
BY DEF LinkInv, Together

\* What the next state owes the server when the node goes on receiving, or
\* gives up.
LEMMA ReceivesRan ==
  ASSUME LinkInv, Client({"receive_build", "receive_inputs"}), ~Client({"stopping"})',
         UNCHANGED <<at.server, held, ended, link>>,
         Joined \/ UNCHANGED inbox["server"],
         Talking /\ Server({"executing"}) => UNCHANGED inbox["server"]
  PROVE  Ran'
BY DEF LinkInv, Ran, Talking, Joined

\* What a node finds first while it receives files, and what it leaves behind.
LEMMA FilesLead ==
  ASSUME LinkInv, Client({"receive_build", "receive_inputs"}), ToClient # <<>>
  PROVE  /\ Tail(ToClient) \in StaleMail
         /\ Client({"receive_build"}) => Tail(ToClient) = <<>>
         /\ step["client"] = "raw" \/ Head(ToClient).tag \in {"file", "marker"} =>
              Tail(ToClient) = <<>>
         /\ step["client"] # "raw" /\ Head(ToClient).tag = "2" => Head(ToClient) = Two
<1>1. PICK of :
        \/ ToClient \in {<<SaveFile(of)>>, <<FileMarker(of)>>, <<LargeFile(of)>>}
        \/ step["client"] # "raw" /\ ToClient = <<Two>>
        \/ /\ step["client"] # "raw" /\ Client({"receive_inputs"})
           /\ ToClient \in {<<Two, One>>, <<Two, One, Zero>>}
  <2>1. CASE Client({"receive_build"})
    BY <2>1 DEF LinkInv, Loose, NodeReads
  <2>2. CASE Client({"receive_inputs"})
    BY <2>2 DEF LinkInv, Loose, NodeReads, JobMail
  <2> QED
    BY <2>1, <2>2
<1>2. CASE ToClient \in {<<SaveFile(of)>>, <<FileMarker(of)>>, <<LargeFile(of)>>}
  <2>1. Tail(ToClient) = <<>> /\ Head(ToClient) \in {SaveFile(of), FileMarker(of), LargeFile(of)}
    BY <1>2, Tuples
  <2> QED
    BY <2>1, Marks DEF StaleMail
<1>3. CASE step["client"] # "raw" /\ ToClient = <<Two>>
  BY <1>3, Units, Marks DEF StaleMail
<1>4. CASE /\ step["client"] # "raw" /\ Client({"receive_inputs"})
           /\ ToClient \in {<<Two, One>>, <<Two, One, Zero>>}
  BY <1>4, Units, Marks DEF StaleMail
<1> QED
  BY <1>1, <1>2, <1>3, <1>4

\* The directory of the files is there, or could not be created: the node
\* then starts over, and the server does not know.
LEMMA OpensNodeLink == ASSUME Inv, LinkInv, Inv', OpensDirectory("client") PROVE LinkInv'
<1>1. /\ Client({"receive_build", "receive_inputs"}) /\ at'.server = at.server
      /\ UNCHANGED inbox /\ step["client"] = "open" /\ step'["server"] = step["server"]
      /\ \/ at'.client = at.client /\ step'["client"] = "ready" /\ UNCHANGED <<built, running>>
         \/ at'.client = "uninit"
      /\ UNCHANGED <<link, compiled, held, cancel, version, arbiter, ended>>
  <2>1. Client({"receive_build", "receive_inputs"}) /\ UNCHANGED inbox /\ step["client"] = "open"
    BY DEF OpensDirectory, Receiving, AfterReceive, Inv, Places, ClientStates, wireVars
  <2>2. CASE Step("client", "ready") /\ UNCHANGED <<at, serverVars, clientVars, noteVars>>
    BY <2>1, <2>2 DEF Inv, Places, Step, Sides, OpensDirectory, wireVars, serverVars,
       clientVars, noteVars
  <2>3. CASE /\ Enter("client", "uninit", "ready")
             /\ UNCHANGED <<serverVars, version, arbiter, noteVars>>
    <3>1. at'.client = "uninit" /\ at'.server = at.server
      BY <2>3, EnterPlaces DEF Inv, ClientStates, StepKinds
    <3> QED
      BY <2>1, <2>3, <3>1 DEF Inv, Places, Enter, Sides, OpensDirectory, wireVars, serverVars,
         noteVars
  <2> QED
    BY <2>2, <2>3 DEF OpensDirectory
<1>2. ArbiterWorks'
  BY <1>1 DEF LinkInv, ArbiterWorks
<1>3. Ran'
  BY <1>1, ReceivesRan
<1>4. ASSUME Talking' PROVE Together'
  <2>1. Talking
    BY <1>1, <1>4 DEF Talking, Joined
  <2> QED
    BY <1>1, <2>1, ReceivesFrom DEF Together
<1>5. ASSUME ~Talking' PROVE Loose'
  <2>1. NodeReads'
    <3>1. CASE at'.client = at.client
      BY <1>1, <3>1 DEF LinkInv, Loose, NodeReads
    <3>2. CASE at'.client = "uninit"
      <4>1. VerdictMail(<<>>) /\ VerdictMail(<<One>>) /\ VerdictMail(<<One, Zero>>)
        BY Units DEF VerdictMail, OrderMail
      <4>2. inbox["client"] # <<>> => Tail(inbox["client"]) \in StaleMail
        BY <1>1, FilesLead
      <4> QED
        BY <1>1, <3>2, <4>1, <4>2 DEF NodeReads, StaleMail
    <3> QED
      BY <1>1, <3>1, <3>2
  <2>2. Apart'
    BY <1>1, <1>5 DEF LinkInv, Loose, Apart, Finds, Away, Idle, Talking, Joined
  <2> QED
    BY <1>1, <1>5, <2>1, <2>2, NodeAlone
<1> QED
  BY <1>2, <1>3, <1>4, <1>5, Combine

\* A file is stored and acknowledged.
LEMMA StoresNodeLink == ASSUME Inv, LinkInv, Inv', StoresFile("client") PROVE LinkInv'
<1>1. /\ Client({"receive_build", "receive_inputs"}) /\ UNCHANGED at
      /\ inbox["client"] # <<>> /\ inbox'["client"] = Tail(inbox["client"])
      /\ inbox["server"] \in Seq(Mail)
      /\ Joined => inbox'["server"] = Append(inbox["server"], Zero)
      /\ ~Joined => inbox'["server"] = inbox["server"]
      /\ step["client"] = "raw" \/ (step["client"] = "ready" /\ Head(inbox["client"]).tag = "file")
      /\ step'["client"] = "ready" /\ step'["server"] = step["server"]
      /\ UNCHANGED <<link, compiled, held, cancel, version, built, running, arbiter, ended>>
  BY Answers DEF StoresFile, Receiving, AfterReceive, Hears, Inv, Places, ClientStates, Step,
     Wires, Sides, transferless, serverVars, clientVars, noteVars
<1>2. inbox'["client"] = <<>>
  BY <1>1, FilesLead
<1>3. ArbiterWorks'
  BY <1>1 DEF LinkInv, ArbiterWorks
<1>4. Talking => /\ ~cancel /\ inbox["server"] = <<>> /\ step["server"] = "ack"
                 /\ \/ /\ Server({"send_build"}) /\ Client({"receive_build"}) /\ built = compiled
                    \/ /\ Server({"send_inputs"}) /\ Client({"receive_inputs"})
                       /\ built = compiled /\ running = held
  <2>1. step["client"] # "raw" => /\ inbox["client"] # <<Two>> /\ inbox["client"] # <<Two, One>>
                                  /\ inbox["client"] # <<Two, One, Zero>>
    BY <1>1, Units, Marks
  <2>2. \A of : inbox["client"] = <<FileMarker(of)>> => step["client"] = "raw"
    BY <1>1, Tuples, Marks
  <2> QED
    BY <1>1, <2>1, <2>2, ReceivesFrom, Requests
<1>5. Ran'
  BY <1>1, <1>4, ReceivesRan
<1>6. ASSUME Talking' PROVE Together'
  <2>1. Talking /\ Append(<<>>, Zero) = <<Zero>>
    BY <1>1, <1>6, Tuples DEF Talking, Joined
  <2>2. /\ inbox'["server"] = <<Zero>> /\ step'["client"] = "ready" /\ step'["server"] = "ack"
        /\ UNCHANGED <<at, compiled, held, cancel, built, running>> /\ ~cancel
    BY <1>1, <1>4, <2>1 DEF Talking, Joined
  <2>3. \A of : Carries("server", "client", of)'
    BY <1>2, <2>2
  <2>4. CASE Server({"send_build"}) /\ Client({"receive_build"}) /\ built = compiled
    <3>1. Builds'
      BY <2>2, <2>3, <2>4
    <3> QED
      BY <2>2, <3>1 DEF Together
  <2>5. CASE /\ Server({"send_inputs"}) /\ Client({"receive_inputs"})
             /\ built = compiled /\ running = held
    <3>1. Runs'
      BY <2>2, <2>3, <2>5
    <3> QED
      BY <2>2, <3>1 DEF Together
  <2> QED
    BY <1>4, <2>1, <2>4, <2>5
<1>7. ASSUME ~Talking' PROVE Loose'
  <2>1. NodeReads'
    BY <1>1, <1>2 DEF NodeReads, JobMail
  <2>2. Apart'
    BY <1>1, <1>2, <1>7, Singles DEF LinkInv, Loose, Apart, Finds, Away, Idle, Talking, Joined
  <2> QED
    BY <1>1, <1>7, <2>1, <2>2, NodeAlone
<1> QED
  BY <1>3, <1>5, <1>6, <1>7, Combine

\* A marker is answered: the large file may come, or cannot be stored.
LEMMA AnswersNodeLink == ASSUME Inv, LinkInv, Inv', AnswersMarker("client") PROVE LinkInv'
<1>1. PICK m \in {One, Two} :
      /\ Client({"receive_build", "receive_inputs"}) /\ UNCHANGED at
      /\ inbox["client"] # <<>> /\ inbox'["client"] = Tail(inbox["client"])
      /\ Head(inbox["client"]).tag = "marker"
      /\ Joined => inbox'["server"] = Append(inbox["server"], m)
      /\ ~Joined => inbox'["server"] = inbox["server"]
      /\ step["client"] = "ready" /\ step'["server"] = step["server"]
      /\ step'["client"] = IF m = One THEN "raw" ELSE "ready"
      /\ UNCHANGED <<link, compiled, held, cancel, version, built, running, arbiter, ended>>
  <2>1. PICK m \in {One, Two} :
          Reply("client", m) /\ step'["client"] = IF m = One THEN "raw" ELSE "ready"
    <3>1. \/ Reply("client", One) /\ Step("client", "raw")
          \/ Reply("client", Two) /\ UNCHANGED step /\ step["client"] = "ready"
      BY DEF AnswersMarker
    <3> QED
      BY <3>1, Marks DEF Step, Inv, Places, Sides
  <2>2. /\ Client({"receive_build", "receive_inputs"}) /\ UNCHANGED at
        /\ inbox["client"] # <<>> /\ Head(inbox["client"]).tag = "marker"
        /\ step["client"] = "ready" /\ step'["server"] = step["server"]
    BY DEF AnswersMarker, Receiving, AfterReceive, Hears, Inv, Places, ClientStates, Step, Sides
  <2> QED
    BY <2>1, <2>2, Answers DEF AnswersMarker, transferless, serverVars, clientVars, noteVars
<1>2. inbox'["client"] = <<>>
  BY <1>1, FilesLead
<1>3. ArbiterWorks'
  BY <1>1 DEF LinkInv, ArbiterWorks
<1>4. Talking => /\ ~cancel /\ inbox["server"] = <<>> /\ step["server"] = "marker"
                 /\ \/ /\ Server({"send_build"}) /\ Client({"receive_build"}) /\ built = compiled
                    \/ /\ Server({"send_inputs"}) /\ Client({"receive_inputs"})
                       /\ built = compiled /\ running = held
  <2>1. inbox["client"] # <<Two>> /\ ~Behind(<<Two, One>>)
    BY <1>1, Units, Requests, Marks
  <2>2. \A of : inbox["client"] # <<SaveFile(of)>>
    BY <1>1, Tuples, Marks
  <2>3. Carries("server", "client", Batch(compiled)) \/ Carries("server", "client", held) =>
          inbox["server"] = <<>> /\ step["server"] = "marker"
    BY <1>1, <2>2
  <2> HIDE DEF Carries, Behind
  <2>4. Talking => /\ ~cancel
                   /\ \/ /\ Server({"send_build"}) /\ Client({"receive_build"}) /\ built = compiled
                         /\ Carries("server", "client", Batch(compiled))
                      \/ /\ Server({"send_inputs"}) /\ Client({"receive_inputs"})
                         /\ built = compiled /\ running = held
                         /\ Carries("server", "client", held)
    BY <1>1, <2>1, ReceivesFrom
  <2> QED
    BY <2>3, <2>4
<1>5. Ran'
  BY <1>1, <1>4, ReceivesRan
<1>6. ASSUME Talking' PROVE Together'
  <2>1. Talking /\ Append(<<>>, m) = <<m>>
    BY <1>1, <1>6, Tuples DEF Talking, Joined
  <2>2. inbox'["server"] = <<m>>
    BY <1>1, <1>4, <2>1 DEF Talking, Joined
  <2>3. Carries("server", "client", Batch(compiled))' /\ Carries("server", "client", held)'
    <3>1. CASE m = One
      BY <1>1, <1>2, <1>4, <2>1, <2>2, <3>1
    <3>2. CASE m = Two
      BY <1>1, <1>2, <1>4, <2>1, <2>2, <3>2, Marks
    <3> QED
      BY <3>1, <3>2
  <2> HIDE DEF Carries
  <2> QED
    BY <1>1, <1>4, <2>1, <2>3 DEF Together
<1>7. ASSUME ~Talking' PROVE Loose'
  <2>1. NodeReads'
    BY <1>1, <1>2 DEF NodeReads, JobMail
  <2>2. Apart'
    BY <1>1, <1>2, <1>7, Singles DEF LinkInv, Loose, Apart, Finds, Away, Idle, Talking, Joined
  <2> QED
    BY <1>1, <1>7, <2>1, <2>2, NodeAlone
<1> QED
  BY <1>3, <1>5, <1>6, <1>7, Combine

\* The files are complete: the batch is built, or the job starts with its arbiter.
LEMMA FinishesNodeLink == ASSUME Inv, LinkInv, Inv', FinishesReceiving("client") PROVE LinkInv'
<1>1. /\ at'.server = at.server
      /\ inbox["client"] # <<>> /\ inbox'["client"] = Tail(inbox["client"])
      /\ Head(inbox["client"]).tag = "2" /\ step["client"] = "ready"
      /\ inbox'["server"] = inbox["server"]
      /\ \/ at.client = "receive_build" /\ at'.client = "building" /\ UNCHANGED arbiter
         \/ at.client = "receive_inputs" /\ at'.client = "executing" /\ arbiter' = "starting"
      /\ UNCHANGED <<step, link, compiled, held, cancel, version, built, running, ended>>
  <2>1. /\ inbox["client"] # <<>> /\ Head(inbox["client"]).tag = "2" /\ step["client"] = "ready"
        /\ \/ at.client = "receive_build" /\ Goto("client", "building") /\ UNCHANGED arbiter
           \/ at.client = "receive_inputs" /\ Goto("client", "executing") /\ arbiter' = "starting"
        /\ UNCHANGED held
    BY DEF FinishesReceiving, Hears, AfterReceive
  <2> QED
    BY <2>1, GotoPlaces, Takes DEF FinishesReceiving, Inv, ClientStates
<1>2. /\ Head(inbox["client"]) = Two
      /\ at.client = "receive_build" => inbox'["client"] = <<>>
      /\ at.client = "receive_inputs" => inbox'["client"] \in StaleMail
  BY <1>1, FilesLead
<1>3. ArbiterWorks' /\ Ran'
  BY <1>1 DEF LinkInv, ArbiterWorks, Ran
<1>4. ASSUME Talking' PROVE Together'
  <2>1. Talking
    BY <1>1, <1>4 DEF Talking, Joined
  <2>2. \A of : /\ inbox["client"] # <<SaveFile(of)>> /\ inbox["client"] # <<FileMarker(of)>>
                /\ inbox["client"] # <<LargeFile(of)>>
    BY <1>1, Tuples, Marks
  <2>3. CASE inbox["client"] = <<Two>> /\ Server({"building", "executing"})
    BY <1>1, <2>1, <2>3, Units, ReceivesFrom DEF Together
  <2>4. CASE Server({"uninit", "version"}) /\ Behind(<<Two, One>>)
    <3>1. \/ Server({"uninit"}) /\ inbox'["client"] = <<One>>
          \/ Server({"version"}) /\ inbox'["client"] = <<One, Zero>>
      BY <1>1, <2>4, Units, Requests
    <3> QED
      BY <1>1, <2>1, <2>4, <3>1, Requests, ReceivesFrom DEF Together
  <2> QED
    BY <1>1, <2>1, <2>2, <2>3, <2>4, ReceivesFrom
<1>5. ASSUME ~Talking' PROVE Loose'
  <2>1. NodeReads'
    BY <1>1, <1>2 DEF NodeReads
  <2>2. Apart'
    BY <1>1, <1>2, <1>5 DEF LinkInv, Loose, Apart, Finds, Away, Idle, Single, Talking, Joined
  <2> QED
    BY <1>1, <1>5, <2>1, <2>2, NodeAlone
<1> QED
  BY <1>3, <1>4, <1>5, Combine

-----------------------------------------------------------------------------
(* The server's side of the handshake, the build and the job               *)

\* A queue of one message.
LEMMA Alone ==
  ASSUME NEW q \in Seq(Mail), q # <<>>, Tail(q) = <<>>
  PROVE  q = <<Head(q)>>
<1> DEFINE t == <<Head(q)>>
<1>0. Len(Tail(q)) = Len(q) - 1 /\ Len(q) \in Nat /\ Len(Tail(q)) = 0
  BY HeadTailProperties, EmptySeq, LenProperties
<1>1. Len(q) = 1 /\ q[1] = Head(q) /\ q \in Seq(Mail)
  BY <1>0
<1>2. Len(t) = 1 /\ t[1] = Head(q) /\ t \in Seq(Mail)
  BY <1>1
<1>3. \A i \in 1..1 : q[i] = t[i]
  BY <1>1, <1>2
<1> HIDE DEF t
<1> QED
  BY <1>1, <1>2, <1>3, SeqEqual DEF t

\* What a step of the server leaves to a node that does not hear it.
LEMMA ServerAlone ==
  ASSUME LinkInv, ~Talking', UNCHANGED <<at.client, step["client"], built, running, arbiter, link>>,
         Joined \/ UNCHANGED inbox["client"],
         at'.server # "connect" \/ UNCHANGED inbox["client"]
  PROVE  NodeReads' /\ (at'.server # "connect" => ~Joined /\ UNCHANGED inbox["client"])
<1>1. UNCHANGED inbox["client"] /\ (at'.server # "connect" => ~Joined)
  BY DEF Talking, Joined
<1> QED
  BY <1>1, NodeStays DEF LinkInv, Loose

\* The version is judged: an answer is alone in what the server has to read.
LEMMA ComparesVersionLink == ASSUME Inv, LinkInv, Inv', ComparesVersion PROVE LinkInv'
<1>1. PICK m \in {One, Two} :
      /\ at.server = "version" /\ at'.client = at.client
      /\ inbox["server"] # <<>> /\ Head(inbox["server"]).tag = "version"
      /\ inbox'["server"] = Tail(inbox["server"]) /\ inbox["client"] \in Seq(Mail)
      /\ Joined => inbox'["client"] = Append(inbox["client"], m)
      /\ ~Joined => inbox'["client"] = inbox["client"]
      /\ \/ m = One /\ at'.server = "prepare_build"
         \/ m = Two /\ at'.server = "uninit"
      /\ UNCHANGED <<step, link, compiled, held, cancel, version, built, running, arbiter, ended>>
  <2>1. PICK m \in {One, Two} :
          /\ Reply("server", m)
          /\ \/ m = One /\ Goto("server", "prepare_build")
             \/ m = Two /\ Goto("server", "uninit")
    BY DEF ComparesVersion
  <2> QED
    BY <2>1, GotoPlaces, Answers DEF Inv, ComparesVersion, Hears, ServerStates, Wires, Sides,
       serverVars, clientVars, noteVars
<1>2. inbox'["server"] = <<>>
  BY <1>1 DEF LinkInv, Loose, ServerReads, Finds, Single
<1>3. ArbiterWorks' /\ Ran'
  BY <1>1 DEF LinkInv, ArbiterWorks, Ran
<1>4. ASSUME Talking' PROVE Together'
  <2>1. inbox'["client"] = Append(inbox["client"], m) /\ Together /\ ~cancel'
    BY <1>1, <1>4 DEF LinkInv, ArbiterWorks, Talking, Joined
  <2>2. \/ Client({"verdict"}) /\ ToClient = <<>>
        \/ Doomed
    BY <1>1, <2>1, Tuples, Marks DEF Together
  <2>3. CASE Client({"verdict"}) /\ ToClient = <<>>
    <3>1. inbox'["client"] = <<m>>
      BY <2>1, <2>3, Tuples
    <3> QED
      BY <1>1, <1>2, <2>1, <2>3, <3>1, Units DEF Together
  <2>4. CASE Doomed
    <3>1. Doomed'
      BY <1>1, <2>1, <2>4, Appended, MailWritten
    <3> QED
      BY <1>1, <1>2, <2>1, <3>1 DEF Together
  <2> QED
    BY <2>2, <2>3, <2>4
<1>5. ASSUME ~Talking' PROVE Loose'
  BY <1>1, <1>2, <1>5, ServerAlone DEF LinkInv, Loose, ServerReads, Apart, Finds
<1> QED
  BY <1>3, <1>4, <1>5, Combine

\* The order of a build goes behind what takes the node to prepare_build.
LEMMA OrdersBuildLink == ASSUME Inv, LinkInv, Inv', OrdersBuild PROVE LinkInv'
<1>1. PICK b \in Batches :
      /\ at.server = "prepare_build" /\ at'.server = "send_build" /\ at'.client = at.client
      /\ compiled' = b /\ inbox'["server"] = inbox["server"] /\ inbox["client"] \in Seq(Mail)
      /\ Joined => inbox'["client"] = Append(inbox["client"], InitializeJob(b))
      /\ ~Joined => inbox'["client"] = inbox["client"]
      /\ step'["server"] = "ready" /\ step'["client"] = step["client"]
      /\ UNCHANGED <<link, held, cancel, version, built, running, arbiter, ended>>
  <2>1. PICK b \in Batches : compiled' = b /\ Send("server", InitializeJob(b))
    BY DEF OrdersBuild
  <2>2. at'.server = "send_build" /\ at'.client = at.client
    BY EnterPlaces DEF OrdersBuild, Inv, ServerStates, StepKinds
  <2> QED
    BY <2>1, <2>2, Says DEF Inv, OrdersBuild, Enter, Places, Wires, Sides,
       clientVars, noteVars
<1>2. inbox'["server"] = <<>>
  BY <1>1 DEF LinkInv, Loose, ServerReads
<1>3. ArbiterWorks' /\ Ran'
  BY <1>1 DEF LinkInv, ArbiterWorks, Ran
<1>4. ASSUME Talking' PROVE Together'
  <2>1. /\ inbox'["client"] = Append(inbox["client"], InitializeJob(b)) /\ Together /\ ~cancel'
        /\ InitializeJob(b) \in Mail
    BY <1>1, <1>4, MailWritten DEF LinkInv, ArbiterWorks, Talking, Joined
  <2>2. Leads \/ Doomed
    BY <1>1, <2>1 DEF Together
  <2>3. CASE Leads
    <3>1. \/ inbox["client"] = <<>> /\ inbox'["client"] = <<InitializeJob(b)>>
          \/ /\ inbox["client"] # <<>> /\ Tail(inbox["client"]) = <<>>
             /\ inbox'["client"] # <<>> /\ Head(inbox'["client"]) = Head(inbox["client"])
             /\ Tail(inbox'["client"]) = <<InitializeJob(b)>>
      BY <1>1, <2>1, <2>3, Appended
    <3>2. Leads'
      BY <1>1, <2>3, <3>1
    <3> QED
      BY <1>1, <1>2, <2>1, <3>2 DEF Together
  <2>4. CASE Doomed
    <3>1. Doomed'
      BY <1>1, <2>1, <2>4, Appended
    <3> QED
      BY <1>1, <1>2, <2>1, <3>1 DEF Together
  <2> QED
    BY <2>2, <2>3, <2>4
<1>5. ASSUME ~Talking' PROVE Loose'
  BY <1>1, <1>2, <1>5, ServerAlone, Singles DEF LinkInv, Loose, ServerReads, Apart, Finds
<1> QED
  BY <1>3, <1>4, <1>5, Combine

\* The build has succeeded on the node, or failed, which it has forgotten.
LEMMA ReadsBuildResultLink == ASSUME Inv, LinkInv, Inv', ReadsBuildResult PROVE LinkInv'
<1>1. /\ at.server = "building" /\ at'.client = at.client
      /\ inbox["server"] # <<>> /\ inbox'["server"] = Tail(inbox["server"])
      /\ inbox'["client"] = inbox["client"]
      /\ \/ Head(inbox["server"]).tag = "0" /\ at'.server = "built" /\ UNCHANGED compiled
         \/ Head(inbox["server"]).tag = "1" /\ at'.server = "prepare_build"
      /\ UNCHANGED <<step, link, held, cancel, version, built, running, arbiter, ended>>
  <2>1. /\ inbox["server"] # <<>>
        /\ \/ Head(inbox["server"]).tag = "0" /\ Goto("server", "built") /\ UNCHANGED compiled
           \/ Head(inbox["server"]).tag = "1" /\ Goto("server", "prepare_build")
    BY DEF ReadsBuildResult, Hears
  <2> QED
    BY <2>1, GotoPlaces, Takes DEF Inv, ReadsBuildResult, ServerStates, clientVars, noteVars
<1>2. inbox'["server"] = <<>>
  BY <1>1 DEF LinkInv, Loose, ServerReads, Single
<1>3. ArbiterWorks' /\ Ran'
  BY <1>1 DEF LinkInv, ArbiterWorks, Ran
<1>4. ASSUME Talking' PROVE Together'
  <2>1. Together /\ ~cancel'
    BY <1>1, <1>4 DEF LinkInv, ArbiterWorks, Talking, Joined
  <2>2. \/ /\ Client({"built"}) /\ built = compiled /\ inbox["server"] = <<Zero>>
           /\ inbox["client"] = <<>>
        \/ Client({"prepare_build"}) /\ inbox["server"] = <<One>> /\ inbox["client"] = <<>>
    BY <1>1, <2>1, Tuples, Marks DEF Together
  <2>3. CASE Client({"built"}) /\ built = compiled /\ inbox["server"] = <<Zero>> /\ inbox["client"] = <<>>
    <3>1. at'.server = "built" /\ UNCHANGED compiled
      BY <1>1, <2>3, Units, Marks
    <3> QED
      BY <1>1, <1>2, <2>1, <2>3, <3>1 DEF Together
  <2>4. CASE Client({"prepare_build"}) /\ inbox["server"] = <<One>> /\ inbox["client"] = <<>>
    <3>1. at'.server = "prepare_build"
      BY <1>1, <2>4, Units, Marks
    <3> QED
      BY <1>1, <1>2, <2>1, <2>4, <3>1 DEF Together
  <2> QED
    BY <2>2, <2>3, <2>4
<1>5. ASSUME ~Talking' PROVE Loose'
  BY <1>1, <1>2, <1>5, ServerAlone DEF LinkInv, Loose, ServerReads, Apart, Finds, Away, Idle
<1> QED
  BY <1>3, <1>4, <1>5, Combine

\* The batch is given up on both sides, if the node still hears the server.
LEMMA OrdersReturnLink == ASSUME Inv, LinkInv, Inv', OrdersReturn PROVE LinkInv'
<1>1. /\ at.server = "built" /\ at'.client = at.client
      /\ inbox'["server"] = inbox["server"]
      /\ \/ /\ at'.server = "prepare_build"
            /\ Joined => inbox'["client"] = Append(inbox["client"], Zero)
            /\ ~Joined => inbox'["client"] = inbox["client"]
         \/ at'.server = "connect" /\ inbox'["client"] = inbox["client"] /\ link = "dead"
      /\ UNCHANGED <<step, link, held, cancel, version, built, running, arbiter, ended>>
  <2>1. \/ Goto("server", "prepare_build") /\ Send("server", Zero)
        \/ Goto("server", "connect") /\ UNCHANGED inbox /\ link = "dead"
    BY DEF OrdersReturn
  <2> QED
    BY <2>1, GotoPlaces, Says DEF Inv, OrdersReturn, ServerStates, clientVars, noteVars
<1>2. inbox'["server"] = <<>>
  BY <1>1 DEF LinkInv, Loose, ServerReads
<1>3. ArbiterWorks' /\ Ran'
  BY <1>1 DEF LinkInv, ArbiterWorks, Ran
<1>4. ASSUME Talking' PROVE Together'
  <2>1. inbox'["client"] = Append(inbox["client"], Zero) /\ Together /\ ~cancel'
        /\ at'.server = "prepare_build"
    BY <1>1, <1>4 DEF LinkInv, ArbiterWorks, Talking, Joined
  <2>2. Client({"built"}) /\ inbox["client"] = <<>>
    BY <1>1, <2>1 DEF Together
  <2>3. inbox'["client"] = <<Zero>>
    BY <2>1, <2>2, Tuples
  <2> QED
    BY <1>1, <1>2, <2>1, <2>2, <2>3, Units DEF Together
<1>5. ASSUME ~Talking' PROVE Loose'
  BY <1>1, <1>2, <1>5, ServerAlone DEF LinkInv, Loose, ServerReads, Apart, Finds
<1> QED
  BY <1>3, <1>4, <1>5, Combine

\* The job is ordered from a node that has built its batch and waits.
LEMMA OrdersJobLink == ASSUME Inv, LinkInv, Inv', OrdersJob PROVE LinkInv'
<1>1. /\ at.server = "built" /\ at'.client = at.client
      /\ inbox'["server"] = inbox["server"]
      /\ \/ /\ at'.server = "send_inputs" /\ step'["server"] = "ready" /\ UNCHANGED compiled
            /\ Joined => inbox'["client"] = Append(inbox["client"], ExecuteJob(held'))
            /\ ~Joined => inbox'["client"] = inbox["client"]
         \/ at'.server = "connect" /\ inbox'["client"] = inbox["client"] /\ link = "dead"
      /\ step'["client"] = step["client"]
      /\ UNCHANGED <<link, cancel, version, built, running, arbiter, ended>>
  <2>1. \/ /\ Enter("server", "send_inputs", "ready") /\ Send("server", ExecuteJob(held'))
           /\ UNCHANGED compiled
        \/ Enter("server", "connect", "ready") /\ UNCHANGED inbox /\ link = "dead"
    BY DEF OrdersJob
  <2>2. /\ at'.client = at.client
        /\ Enter("server", "send_inputs", "ready") => at'.server = "send_inputs"
        /\ Enter("server", "connect", "ready") => at'.server = "connect"
    BY <2>1, EnterPlaces DEF Inv, ServerStates, StepKinds
  <2> QED
    BY <2>1, <2>2, Says DEF Inv, OrdersJob, Enter, Places, Sides, clientVars
<1>2. inbox'["server"] = <<>>
  BY <1>1 DEF LinkInv, Loose, ServerReads
<1>3. ArbiterWorks' /\ Ran'
  BY <1>1, <1>2 DEF LinkInv, ArbiterWorks, Ran
<1>4. ASSUME Talking' PROVE Together'
  <2>1. inbox'["client"] = Append(inbox["client"], ExecuteJob(held')) /\ Together /\ ~cancel'
        /\ at'.server = "send_inputs" /\ step'["server"] = "ready" /\ UNCHANGED compiled
    BY <1>1, <1>4 DEF LinkInv, ArbiterWorks, Talking, Joined
  <2>2. Client({"built"}) /\ inbox["client"] = <<>> /\ built = compiled
    BY <1>1, <2>1 DEF Together
  <2>3. inbox'["client"] = <<ExecuteJob(held')>>
    BY <2>1, <2>2, Tuples
  <2> QED
    BY <1>1, <1>2, <2>1, <2>2, <2>3 DEF Together
<1>5. ASSUME ~Talking' PROVE Loose'
  BY <1>1, <1>2, <1>5, ServerAlone, Singles DEF LinkInv, Loose, ServerReads, Apart, Finds, Away, Idle
<1> QED
  BY <1>3, <1>4, <1>5, Combine

\* The job was cancelled: both sides forget the batch.
LEMMA ReadsCancelledLink == ASSUME Inv, LinkInv, Inv', ReadsCancelled PROVE LinkInv'
<1>1. /\ at.server = "executing" /\ at'.server = "prepare_build" /\ at'.client = at.client
      /\ inbox["server"] # <<>> /\ Head(inbox["server"]).tag = "0"
      /\ inbox'["server"] = Tail(inbox["server"]) /\ ~cancel'
      /\ Joined => inbox'["client"] = Append(inbox["client"], One)
      /\ ~Joined => inbox'["client"] = inbox["client"]
      /\ UNCHANGED <<step, link, version, built, running, arbiter, ended>>
  BY GotoPlaces, Answers DEF Inv, ReadsCancelled, Hears, ServerStates, clientVars
<1>2. inbox'["server"] = <<>>
  BY <1>1 DEF LinkInv, Loose, ServerReads, Single
<1>3. ArbiterWorks' /\ Ran'
  BY <1>1 DEF LinkInv, ArbiterWorks, Ran
<1>4. ASSUME Talking' PROVE Together'
  <2>1. inbox'["client"] = Append(inbox["client"], One) /\ Together
    BY <1>1, <1>4 DEF LinkInv, Talking, Joined
  <2>2. Client({"confirm"}) /\ inbox["client"] = <<>> /\ arbiter = "reported"
    BY <1>1, <2>1, Tuples, Marks DEF Together
  <2>3. inbox'["client"] = <<One>>
    BY <2>1, <2>2, Tuples
  <2> QED
    BY <1>1, <1>2, <2>1, <2>2, <2>3, Units DEF Together
<1>5. ASSUME ~Talking' PROVE Loose'
  BY <1>1, <1>2, <1>5, ServerAlone DEF LinkInv, Loose, ServerReads, Apart, Finds
<1> QED
  BY <1>3, <1>4, <1>5, Combine

\* The job has ended and its results are awaited, though a kill that came too
\* late has the node start over.
LEMMA ReadsResultLink == ASSUME Inv, LinkInv, Inv', ReadsResult PROVE LinkInv'
<1>1. PICK m \in {Zero, One} :
      /\ at.server = "executing" /\ at'.server = "receive_results" /\ at'.client = at.client
      /\ inbox["server"] # <<>> /\ Head(inbox["server"]).tag \in {"1", "3"}
      /\ inbox'["server"] = Tail(inbox["server"]) /\ ~cancel'
      /\ m = Zero => cancel
      /\ Joined => inbox'["client"] = Append(inbox["client"], m)
      /\ ~Joined => inbox'["client"] = inbox["client"]
      /\ step'["server"] = "open" /\ step'["client"] = step["client"]
      /\ UNCHANGED <<link, compiled, held, version, built, running, arbiter, ended>>
  <2>1. PICK m \in {Zero, One} : Reply("server", m) /\ (m = Zero => cancel)
    BY Marks DEF ReadsResult
  <2>2. at'.server = "receive_results" /\ at'.client = at.client
    BY EnterPlaces DEF ReadsResult, Inv, ServerStates, StepKinds
  <2> QED
    BY <2>1, <2>2, Answers DEF Inv, ReadsResult, Hears, Enter, Places, Sides, clientVars, noteVars
<1>2. inbox'["server"] = <<>>
  BY <1>1 DEF LinkInv, Loose, ServerReads, Single
<1>3. ArbiterWorks' /\ Ran'
  BY <1>1 DEF LinkInv, ArbiterWorks, Ran
<1>4. ASSUME Talking' PROVE Together'
  <2>1. inbox'["client"] = Append(inbox["client"], m) /\ Together
    BY <1>1, <1>4 DEF LinkInv, Talking, Joined
  <2>2. /\ Client({"confirm"}) /\ inbox["client"] = <<>> /\ arbiter = "off"
        /\ built = compiled /\ running = held /\ (cancel => "late" \in Mishaps)
    BY <1>1, <2>1, Tuples, Marks DEF Together
  <2>3. inbox'["client"] = <<m>>
    BY <2>1, <2>2, Tuples
  <2> QED
    BY <1>1, <1>2, <2>1, <2>2, <2>3 DEF Together
<1>5. ASSUME ~Talking' PROVE Loose'
  BY <1>1, <1>2, <1>5, ServerAlone, Singles DEF LinkInv, Loose, ServerReads, Apart, Finds
<1> QED
  BY <1>3, <1>4, <1>5, Combine

\* The server starts over on a connection whose other end knows nothing of it.
LEMMA MissesKeepaliveLink == ASSUME Inv, LinkInv, Inv', MissesKeepalive PROVE LinkInv'
<1>1. /\ at'.server = "uninit" /\ at'.client = at.client /\ ~cancel'
      /\ inbox'["server"] = inbox["server"] /\ inbox["client"] \in Seq(Mail)
      /\ \/ at.server = "prepare_build" /\ UNCHANGED inbox
         \/ at.server = "built" /\ UNCHANGED inbox /\ "keepalive_built" \in Mishaps
         \/ /\ at.server = "executing"
            /\ Joined => inbox'["client"] = Append(inbox["client"], One)
            /\ ~Joined => inbox'["client"] = inbox["client"]
      /\ step'["client"] = step["client"]
      /\ UNCHANGED <<link, version, built, running, arbiter, ended>>
  <2>1. /\ ServerFails("uninit") /\ UNCHANGED link
        /\ \/ at.server = "prepare_build" /\ UNCHANGED inbox
           \/ at.server = "built" /\ UNCHANGED inbox /\ "keepalive_built" \in Mishaps
           \/ at.server = "executing" /\ Send("server", One)
    BY DEF MissesKeepalive, Mishap
  <2> QED
    BY <2>1, ServerFailsFacts, Says DEF Inv, Wires, Sides
<1>2. ArbiterWorks' /\ Ran'
  BY <1>1 DEF LinkInv, ArbiterWorks, Ran
<1>3. ASSUME Talking' PROVE Together'
  <2>1. Together
    BY <1>1, <1>3 DEF LinkInv, Talking, Joined
  <2>2. CASE at.server = "prepare_build"
    <3>1. ToServer = <<>> /\ UNCHANGED inbox /\ (Leads \/ Doomed)
      BY <1>1, <2>1, <2>2 DEF Together
    <3>2. CASE Doomed
      BY <1>1, <3>1, <3>2 DEF Together
    <3>3. CASE Leads
      <4>1. inbox["client"] # <<>> => inbox["client"] = <<Head(inbox["client"])>>
        BY <1>1, <2>2, <3>3, Alone
      <4> QED
        BY <1>1, <2>2, <3>1, <3>3, <4>1 DEF Together
    <3> QED
      BY <3>1, <3>2, <3>3
  <2>3. CASE at.server = "built"
    BY <1>1, <2>1, <2>3 DEF Together
  <2>4. CASE at.server = "executing"
    <3>1. inbox'["client"] = Append(inbox["client"], One)
      BY <1>1, <1>3, <2>4 DEF Talking, Joined
    <3>2. CASE Refuses
      <4>1. \/ Client({"uninit"}) /\ ToServer = <<>> /\ inbox["client"] = <<Two>>
            \/ Client({"verdict"}) /\ ToServer = Answer /\ inbox["client"] = <<>>
        BY <2>4, <3>2
      <4>2. inbox["client"] = <<Two>> => inbox'["client"] = <<Two, One>>
        BY <3>1, Written, MailWritten
      <4>3. inbox["client"] = <<>> => inbox'["client"] = <<One>>
        BY <3>1, Tuples
      <4> QED
        BY <1>1, <4>1, <4>2, <4>3 DEF Together
    <3>3. CASE Client({"built"})
      <4>1. inbox["client"] = <<ExecuteJob(held), Two>> /\ ToServer = <<>> /\ held \in Job
        BY <2>1, <2>4, <3>3 DEF Together, Inv, ServerKnows
      <4>2. inbox'["client"] = <<ExecuteJob(held), Two, One>>
        BY <3>1, <4>1, Written, MailWritten
      <4> QED
        BY <1>1, <3>3, <4>1, <4>2 DEF Together
    <3>4. CASE Client({"receive_inputs"})
      <4>1. inbox["client"] = <<Two>> /\ ToServer = <<>> /\ step["client"] \in Open
        BY <2>1, <2>4, <3>4 DEF Together
      <4>2. inbox'["client"] = <<Two, One>>
        BY <3>1, <4>1, Written, MailWritten
      <4> QED
        BY <1>1, <3>4, <4>1, <4>2 DEF Together
    <3>5. CASE Client({"executing", "stopping", "confirm"})
      <4>1. /\ inbox["client"] = <<>>
            /\ Client({"executing", "stopping"}) => ToServer = <<>>
            /\ Client({"confirm"}) => Junk
        BY <2>1, <2>4, <3>5, Units, Marks DEF Together
      <4>2. inbox'["client"] = <<One>>
        BY <3>1, <4>1, Tuples
      <4> QED
        BY <1>1, <3>5, <4>1, <4>2 DEF Together
    <3> QED
      BY <2>1, <2>4, <3>2, <3>3, <3>4, <3>5 DEF Together
  <2> QED
    BY <1>1, <2>2, <2>3, <2>4
<1>4. ASSUME ~Talking' PROVE Loose'
  BY <1>1, <1>4, ServerAlone, Singles DEF LinkInv, Loose, ServerReads, Apart, Finds
<1> QED
  BY <1>2, <1>3, <1>4, Combine

-----------------------------------------------------------------------------
(* The server's side of the transfers                                      *)

\* What a server that sends files has to do with the node.
LEMMA SendsTo ==
  ASSUME LinkInv, Talking, Server({"send_build", "send_inputs"})
  PROVE  /\ ~cancel
         /\ \/ /\ Server({"send_build"}) /\ Client({"receive_build"}) /\ built = compiled
               /\ Carries("server", "client", Batch(compiled))
            \/ /\ Server({"send_inputs"}) /\ Client({"receive_inputs"}) /\ built = compiled
               /\ running = held /\ Carries("server", "client", held)
            \/ /\ Server({"send_build"}) /\ Client({"uninit"}) /\ ToServer = <<>>
               /\ FileSent(Batch(compiled))
            \/ /\ Server({"send_inputs"}) /\ Client({"uninit"}) /\ ToServer = <<>>
               /\ FileSent(held)
            \/ Server({"send_build"}) /\ ToServer = <<>> /\ Doomed
            \/ Server({"send_build"}) /\ ToServer = <<>> /\ Leads
            \/ /\ Server({"send_inputs"}) /\ Client({"built"}) /\ built = compiled
               /\ ToServer = <<>> /\ OrderSent(ToClient, ExecuteJob(held), held)
BY DEF LinkInv, ArbiterWorks, Together

\* What a transfer of the server leaves as it is while nobody hears it.
LEMMA SendsAlone ==
  ASSUME LinkInv, ~Talking', Server({"send_build", "send_inputs"}),
         UNCHANGED <<at.client, step["client"], built, running, arbiter, link, held>>,
         Joined \/ UNCHANGED inbox["client"],
         \/ UNCHANGED at.server
         \/ at.server = "send_build" /\ at'.server = "building" /\ inbox'["server"] = <<>>
         \/ at.server = "send_inputs" /\ at'.server = "executing",
         ServerReads'
  PROVE  Loose'
<1>1. NodeReads' /\ ~Joined /\ UNCHANGED inbox["client"]
  BY ServerAlone
<1>2. link # "backlog"
  BY DEF LinkInv, Loose, Apart
<1>3. Apart'
  BY <1>1, <1>2 DEF LinkInv, Loose, Apart, Finds, Away, Idle
<1> QED
  BY <1>1, <1>3 DEF Loose

\* The batch or the job whose files the server sends.
LEMMA SendsOf ==
  ASSUME Inv, Server({"send_build", "send_inputs"})
  PROVE  /\ Server({"send_build"}) => Subject("server") = Batch(compiled)
         /\ Server({"send_inputs"}) => Subject("server") = held
         /\ SaveFile(Subject("server")) \in Mail /\ FileMarker(Subject("server")) \in Mail
         /\ LargeFile(Subject("server")) \in Mail
         /\ Server({"send_build"}) => InitializeJob(compiled) \in Mail
         /\ Server({"send_inputs"}) => ExecuteJob(held) \in Mail
<1>1. Server({"send_build"}) => Subject("server") = Batch(compiled) /\ compiled \in Batches
  BY DEF Subject, Inv, ServerKnows
<1>2. Server({"send_inputs"}) => Subject("server") = held /\ held \in Job
  BY DEF Subject, Inv, ServerKnows
<1> QED
  BY <1>1, <1>2, MailWritten DEF Orders

\* The next file of a batch or of a job's inputs.
LEMMA SendsFileLink == ASSUME Inv, LinkInv, Inv', SendsFile("server") PROVE LinkInv'
<1> DEFINE of == Subject("server")
<1>1. PICK m \in {SaveFile(of), FileMarker(of)} :
      /\ Server({"send_build", "send_inputs"}) /\ UNCHANGED at
      /\ inbox'["server"] = inbox["server"] /\ inbox["client"] \in Seq(Mail)
      /\ Joined => inbox'["client"] = Append(inbox["client"], m)
      /\ ~Joined => inbox'["client"] = inbox["client"]
      /\ step["server"] = "ready" /\ step'["client"] = step["client"]
      /\ \/ m = SaveFile(of) /\ step'["server"] = "ack"
         \/ m = FileMarker(of) /\ step'["server"] = "marker"
      /\ UNCHANGED <<link, compiled, held, cancel, version, built, running, arbiter, ended>>
  <2>1. Server({"send_build", "send_inputs"})
    BY DEF SendsFile, Sending, AfterSend, Inv, Places, ServerStates
  <2>2. PICK m \in {SaveFile(of), FileMarker(of)} :
          /\ Send("server", m)
          /\ \/ m = SaveFile(of) /\ Step("server", "ack")
             \/ m = FileMarker(of) /\ Step("server", "marker")
    BY DEF SendsFile
  <2> HIDE DEF of
  <2> QED
    BY <2>1, <2>2, Says DEF Inv, Places, SendsFile, Step, Wires, Sides,
       transferless, serverVars, clientVars, noteVars
<1>2. /\ m \in Mail
      /\ Server({"send_build"}) => of = Batch(compiled) /\ InitializeJob(compiled) \in Mail
      /\ Server({"send_inputs"}) => of = held /\ ExecuteJob(held) \in Mail
  BY <1>1, SendsOf
<1> HIDE DEF of
<1>3. ArbiterWorks' /\ Ran'
  BY <1>1 DEF LinkInv, ArbiterWorks, Ran
<1>4. ASSUME Talking' PROVE Together'
  <2>1. Talking /\ inbox'["client"] = Append(inbox["client"], m) /\ ~cancel'
    BY <1>1, <1>4, SendsTo DEF Talking, Joined
  <2>2. CASE inbox["client"] = <<>>
    <3>1. inbox'["client"] = <<m>>
      BY <2>1, <2>2, Tuples
    <3>2. ~Leads /\ ~Doomed /\ ~OrderSent(ToClient, ExecuteJob(held), held)
      BY <1>1, <2>2, Tuples
    <3>3. CASE Client({"uninit"}) /\ ToServer = <<>>
      BY <1>1, <1>2, <2>1, <3>1, <3>3 DEF Together
    <3>4. CASE /\ Client({"receive_build", "receive_inputs"}) /\ step["client"] \in Open
               /\ ToServer = <<>> /\ built = compiled
               /\ \/ Server({"send_build"}) /\ Client({"receive_build"})
                  \/ Server({"send_inputs"}) /\ Client({"receive_inputs"}) /\ running = held
      BY <1>1, <1>2, <2>1, <3>1, <3>4 DEF Together
    <3> HIDE DEF Leads, Doomed, OrderSent
    <3> QED
      BY <1>1, <2>1, <3>2, <3>3, <3>4, SendsTo
  <2>3. CASE inbox["client"] # <<>>
    <3>0. /\ Head(inbox'["client"]) = Head(inbox["client"]) /\ inbox'["client"] # <<>>
          /\ Tail(inbox'["client"]) = Append(Tail(inbox["client"]), m)
          /\ Tail(inbox["client"]) # <<>> =>
               Tail(inbox'["client"]) # <<>> /\ Head(Tail(inbox'["client"])) = Head(Tail(inbox["client"]))
      BY <1>1, <1>2, <2>1, <2>3, Appended
    <3>1. CASE Server({"send_build"}) /\ ToServer = <<>> /\ Doomed
      <4>1. Doomed'
        BY <1>1, <3>0, <3>1
      <4> QED
        BY <1>1, <2>1, <3>1, <4>1 DEF Together
    <3>2. CASE Server({"send_build"}) /\ ToServer = <<>> /\ Leads
      <4>1. \/ Client({"prepare_build"}) /\ inbox["client"] = <<InitializeJob(compiled)>>
            \/ /\ Tail(inbox["client"]) = <<InitializeJob(compiled)>>
               /\ \/ Client({"verdict"}) /\ Head(ToClient) = One
                  \/ Client({"built"}) /\ Head(ToClient) = Zero
                  \/ Client({"confirm"}) /\ arbiter = "reported" /\ Head(ToClient) = One
        BY <1>1, <2>3, <3>2
      <4>2. Append(<<InitializeJob(compiled)>>, m) = <<InitializeJob(compiled), m>>
        BY <1>2, <3>2, Written
      <4>3. Leads'
        BY <1>1, <1>2, <2>1, <3>0, <3>2, <4>1, <4>2
      <4> QED
        BY <1>1, <2>1, <3>2, <4>3 DEF Together
    <3>3. CASE /\ Server({"send_inputs"}) /\ Client({"built"}) /\ built = compiled
               /\ ToServer = <<>> /\ OrderSent(ToClient, ExecuteJob(held), held)
      <4>1. inbox["client"] = <<ExecuteJob(held)>>
        BY <1>1, <3>3
      <4>2. inbox'["client"] = <<ExecuteJob(held), m>>
        BY <1>2, <2>1, <3>3, <4>1, Written
      <4> QED
        BY <1>1, <1>2, <2>1, <3>3, <4>2 DEF Together
    <3>4. /\ ~FileSent(Batch(compiled)) /\ ~FileSent(held)
          /\ ~Carries("server", "client", Batch(compiled)) /\ ~Carries("server", "client", held)
      BY <1>1, <2>3
    <3> HIDE DEF Leads, Doomed, OrderSent, FileSent, Carries
    <3> QED
      BY <1>1, <2>1, <3>1, <3>2, <3>3, <3>4, SendsTo
  <2> QED
    BY <2>2, <2>3
<1>5. ASSUME ~Talking' PROVE Loose'
  <2>1. ServerReads'
    BY <1>1 DEF LinkInv, Loose, ServerReads, Single
  <2> QED
    BY <1>1, <1>5, <2>1, SendsAlone
<1> QED
  BY <1>3, <1>4, <1>5, Combine

\* The answer to a file: only a node that receives files gives one.
LEMMA ReadsAckLink == ASSUME Inv, LinkInv, Inv', ReadsAck("server") PROVE LinkInv'
<1>1. /\ Server({"send_build", "send_inputs"}) /\ UNCHANGED at
      /\ inbox["server"] # <<>> /\ inbox'["server"] = Tail(inbox["server"])
      /\ inbox'["client"] = inbox["client"]
      /\ step["server"] = "ack" /\ step'["server"] = "ready" /\ step'["client"] = step["client"]
      /\ UNCHANGED <<link, compiled, held, cancel, version, built, running, arbiter, ended>>
  BY Takes DEF ReadsAck, Sending, AfterSend, Inv, Places, ServerStates, Step, Hears, Sides,
     transferless, serverVars, clientVars, noteVars
<1>2. inbox'["server"] = <<>>
  BY <1>1 DEF LinkInv, Loose, ServerReads, Single
<1>3. ArbiterWorks' /\ Ran'
  BY <1>1 DEF LinkInv, ArbiterWorks, Ran
<1>4. ASSUME Talking' PROVE Together'
  <2>1. Talking
    BY <1>1, <1>4 DEF Talking, Joined
  <2> HIDE DEF Leads, Doomed, OrderSent, FileSent
  <2> QED
    BY <1>1, <1>2, <2>1, SendsTo DEF Together
<1>5. ASSUME ~Talking' PROVE Loose'
  <2>1. ServerReads'
    BY <1>1, <1>2, Singles DEF ServerReads
  <2> QED
    BY <1>1, <1>5, <2>1, SendsAlone
<1> QED
  BY <1>3, <1>4, <1>5, Combine

\* The answer to a marker.
LEMMA ReadsMarkerLink == ASSUME Inv, LinkInv, Inv', ReadsMarkerAnswer("server") PROVE LinkInv'
<1> DEFINE of == Subject("server")
<1>1. /\ Server({"send_build", "send_inputs"}) /\ UNCHANGED at
      /\ inbox["server"] # <<>> /\ inbox'["server"] = Tail(inbox["server"])
      /\ step["server"] = "marker" /\ step'["client"] = step["client"]
      /\ \/ /\ Head(inbox["server"]).tag = "1" /\ step'["server"] = "ack"
            /\ Joined => inbox'["client"] = Append(inbox["client"], LargeFile(of))
            /\ ~Joined => inbox'["client"] = inbox["client"]
         \/ /\ Head(inbox["server"]).tag = "1" /\ step'["server"] = "ack"
            /\ "read" \in Mishaps /\ inbox'["client"] = inbox["client"]
         \/ /\ Head(inbox["server"]).tag \in {"0", "2"} /\ step'["server"] = "ready"
            /\ inbox'["client"] = inbox["client"]
      /\ UNCHANGED <<link, compiled, held, cancel, version, built, running, arbiter, ended>>
  <2>1. Server({"send_build", "send_inputs"})
    BY DEF ReadsMarkerAnswer, Sending, AfterSend, Inv, Places, ServerStates
  <2>2. /\ inbox["server"] # <<>>
        /\ \/ /\ Head(inbox["server"]).tag = "1" /\ Step("server", "ack")
              /\ Reply("server", LargeFile(of))
           \/ /\ Head(inbox["server"]).tag = "1" /\ Step("server", "ack")
              /\ "read" \in Mishaps /\ Read("server")
           \/ /\ Head(inbox["server"]).tag \in {"0", "2"} /\ Step("server", "ready")
              /\ Read("server")
    BY DEF ReadsMarkerAnswer, Hears, Mishap
  <2> HIDE DEF of
  <2> QED
    BY <2>1, <2>2, Takes, Answers DEF Inv, Places, ReadsMarkerAnswer, Step, Wires, Sides,
       transferless, serverVars, clientVars, noteVars
<1>2. /\ inbox'["server"] = <<>>
      /\ Server({"send_build"}) => of = Batch(compiled)
      /\ Server({"send_inputs"}) => of = held
  BY <1>1, SendsOf DEF LinkInv, Loose, ServerReads, Single
<1> HIDE DEF of
<1>3. ArbiterWorks' /\ Ran'
  BY <1>1 DEF LinkInv, ArbiterWorks, Ran
<1>4. ASSUME Talking' PROVE Together'
  <2>1. Talking /\ Joined /\ ~cancel'
    BY <1>1, <1>4, SendsTo DEF Talking, Joined
  <2>2. /\ \/ /\ Server({"send_build"}) /\ Client({"receive_build"}) /\ built = compiled
              /\ Carries("server", "client", Batch(compiled))
           \/ /\ Server({"send_inputs"}) /\ Client({"receive_inputs"}) /\ built = compiled
              /\ running = held /\ Carries("server", "client", held)
    <3> HIDE DEF Leads, Doomed, OrderSent, FileSent, Carries
    <3> QED
      BY <1>1, <2>1, SendsTo
  <2>3. /\ inbox["client"] = <<>>
        /\ \/ step["client"] = "raw" /\ inbox["server"] = <<One>>
           \/ step["client"] = "ready" /\ inbox["server"] = <<Two>>
    BY <1>1, <2>2
  <2>4. CASE step["client"] = "raw" /\ inbox["server"] = <<One>>
    <3>1. /\ step'["server"] = "ack"
          /\ \/ inbox'["client"] = <<LargeFile(of)>>
             \/ inbox'["client"] = <<>> /\ "read" \in Mishaps
      BY <1>1, <2>1, <2>3, <2>4, Units, Marks, Tuples
    <3> QED
      BY <1>1, <1>2, <2>1, <2>2, <2>4, <3>1 DEF Together
  <2>5. CASE step["client"] = "ready" /\ inbox["server"] = <<Two>>
    <3>1. step'["server"] = "ready" /\ inbox'["client"] = <<>>
      BY <1>1, <2>3, <2>5, Units, Marks
    <3> QED
      BY <1>1, <1>2, <2>1, <2>2, <2>5, <3>1 DEF Together
  <2> QED
    BY <2>3, <2>4, <2>5
<1>5. ASSUME ~Talking' PROVE Loose'
  <2>1. ServerReads'
    BY <1>1, <1>2, Singles DEF ServerReads
  <2> QED
    BY <1>1, <1>5, <2>1, SendsAlone
<1> QED
  BY <1>3, <1>4, <1>5, Combine

\* The files are sent: the server waits for the build or for the job.
LEMMA FinishesSendingLink == ASSUME Inv, LinkInv, Inv', FinishesSending("server") PROVE LinkInv'
<1>1. /\ \/ at.server = "send_build" /\ at'.server = "building"
         \/ at.server = "send_inputs" /\ at'.server = "executing"
      /\ at'.client = at.client
      /\ inbox'["server"] = inbox["server"] /\ inbox["client"] \in Seq(Mail)
      /\ Joined => inbox'["client"] = Append(inbox["client"], Two)
      /\ ~Joined => inbox'["client"] = inbox["client"]
      /\ step["server"] = "ready" /\ step'["client"] = step["client"]
      /\ UNCHANGED <<link, compiled, held, cancel, version, built, running, arbiter, ended>>
  <2>1. \/ at.server = "send_build" /\ AfterSend[at.server] = "building"
        \/ at.server = "send_inputs" /\ AfterSend[at.server] = "executing"
    BY DEF FinishesSending, Sending, AfterSend, Inv, Places, ServerStates
  <2>2. /\ \/ at.server = "send_build" /\ at'.server = "building"
           \/ at.server = "send_inputs" /\ at'.server = "executing"
        /\ at'.client = at.client
    BY <2>1, EnterPlaces DEF FinishesSending, Inv, ServerStates, StepKinds
  <2> QED
    BY <2>2, Says DEF Inv, Places, FinishesSending, Enter, Wires, Sides, serverVars, noteVars
<1>2. inbox'["server"] = <<>>
  BY <1>1 DEF LinkInv, Loose, ServerReads
<1>3. ArbiterWorks' /\ Ran'
  BY <1>1, <1>2 DEF LinkInv, ArbiterWorks, Ran
<1>4. ASSUME Talking' PROVE Together'
  <2>1. Talking /\ inbox'["client"] = Append(inbox["client"], Two) /\ ~cancel'
    BY <1>1, <1>4, SendsTo DEF Talking, Joined
  <2>2. CASE inbox["client"] = <<>>
    <3>1. inbox'["client"] = <<Two>>
      BY <2>1, <2>2, Tuples
    <3>2. ~Leads /\ ~Doomed /\ ~OrderSent(ToClient, ExecuteJob(held), held)
      BY <1>1, <2>2, Tuples
    <3>3. CASE Client({"uninit"})
      BY <1>1, <1>2, <2>1, <3>1, <3>3 DEF Together
    <3>4. CASE /\ Client({"receive_build", "receive_inputs"}) /\ step["client"] \in Open
               /\ built = compiled
               /\ \/ Server({"send_build"}) /\ Client({"receive_build"})
                  \/ Server({"send_inputs"}) /\ Client({"receive_inputs"}) /\ running = held
      BY <1>1, <1>2, <2>1, <3>1, <3>4 DEF Together
    <3> HIDE DEF Leads, Doomed, OrderSent
    <3> QED
      BY <1>1, <2>1, <3>2, <3>3, <3>4, SendsTo
  <2>3. CASE inbox["client"] # <<>>
    <3>0. /\ Head(inbox'["client"]) = Head(inbox["client"]) /\ inbox'["client"] # <<>>
          /\ Tail(inbox'["client"]) = Append(Tail(inbox["client"]), Two)
          /\ Tail(inbox["client"]) # <<>> =>
               Tail(inbox'["client"]) # <<>> /\ Head(Tail(inbox'["client"])) = Head(Tail(inbox["client"]))
      BY <1>1, <2>1, <2>3, Appended, MailWritten
    <3>1. CASE Server({"send_build"}) /\ Doomed
      <4>1. Doomed'
        BY <1>1, <3>0, <3>1
      <4> QED
        BY <1>1, <1>2, <2>1, <3>1, <4>1 DEF Together
    <3>2. CASE Server({"send_build"}) /\ Leads
      <4>1. \/ Client({"prepare_build"}) /\ inbox["client"] = <<InitializeJob(compiled)>>
            \/ /\ Tail(inbox["client"]) = <<InitializeJob(compiled)>>
               /\ \/ Client({"verdict"}) /\ Head(ToClient) = One
                  \/ Client({"built"}) /\ Head(ToClient) = Zero
                  \/ Client({"confirm"}) /\ arbiter = "reported" /\ Head(ToClient) = One
        BY <1>1, <2>3, <3>2
      <4>2. Append(<<InitializeJob(compiled)>>, Two) = <<InitializeJob(compiled), Two>>
        BY <3>2, SendsOf, Written, MailWritten
      <4>3. Leads'
        BY <1>1, <2>1, <3>0, <3>2, <4>1, <4>2
      <4> QED
        BY <1>1, <1>2, <2>1, <3>2, <4>3 DEF Together
    <3>3. CASE /\ Server({"send_inputs"}) /\ Client({"built"}) /\ built = compiled
               /\ OrderSent(ToClient, ExecuteJob(held), held)
      <4>1. inbox["client"] = <<ExecuteJob(held)>>
        BY <1>1, <3>3
      <4>2. inbox'["client"] = <<ExecuteJob(held), Two>>
        BY <2>1, <3>3, <4>1, SendsOf, Written, MailWritten
      <4> QED
        BY <1>1, <1>2, <2>1, <3>3, <4>2 DEF Together
    <3>4. /\ ~FileSent(Batch(compiled)) /\ ~FileSent(held)
          /\ ~Carries("server", "client", Batch(compiled)) /\ ~Carries("server", "client", held)
      BY <1>1, <2>3
    <3> HIDE DEF Leads, Doomed, OrderSent, FileSent, Carries
    <3> QED
      BY <1>1, <2>1, <3>1, <3>2, <3>3, <3>4, SendsTo
  <2> QED
    BY <2>2, <2>3
<1>5. ASSUME ~Talking' PROVE Loose'
  <2>1. ServerReads'
    BY <1>1, <1>2, Singles DEF ServerReads
  <2> QED
    BY <1>1, <1>2, <1>5, <2>1, SendsAlone
<1> QED
  BY <1>3, <1>4, <1>5, Combine

\* What a server that awaits results has to do with the node.
LEMMA AwaitsFrom ==
  ASSUME LinkInv, Talking, Server({"receive_results"})
  PROVE  /\ ~cancel
         /\ \/ /\ built = compiled /\ running = held /\ step["server"] \in Open
               /\ Client({"confirm"}) /\ arbiter = "off" /\ ToServer = <<>> /\ ToClient = <<One>>
            \/ /\ built = compiled /\ running = held /\ Client({"send_results"})
               /\ Carries("client", "server", held)
            \/ /\ built = compiled /\ Client({"built"}) /\ step["server"] \in Open
               /\ ToServer = <<Two>> /\ ToClient = <<>>
            \/ /\ step["server"] \in Open /\ "late" \in Mishaps /\ ToServer = <<>>
               /\ \/ Client({"confirm"}) /\ ToClient = <<Zero>>
                  \/ Client({"prepare_build"}) /\ ToClient = <<>>
BY DEF LinkInv, ArbiterWorks, Together

\* What the server's reading of results leaves as it is while nobody hears it.
LEMMA AwaitsAlone ==
  ASSUME LinkInv, ~Talking', Server({"receive_results"}),
         UNCHANGED <<at.client, step["client"], built, running, arbiter, link>>,
         Joined \/ UNCHANGED inbox["client"],
         \/ Server({"receive_results"})' /\ (UNCHANGED inbox["server"] \/ inbox'["server"] = <<>>)
         \/ Server({"uninit"})'
         \/ Server({"built"})' /\ Finds(ToServer, "2"),
         ServerReads'
  PROVE  Loose'
<1>1. NodeReads' /\ ~Joined /\ UNCHANGED inbox["client"]
  BY ServerAlone
<1>2. link # "backlog"
  BY DEF LinkInv, Loose, Apart
<1>3. Apart'
  BY <1>1, <1>2 DEF LinkInv, Loose, Apart, Finds, Away, Idle
<1> QED
  BY <1>1, <1>3 DEF Loose

\* The directory of the results is there, or could not be created: the server
\* gives the job back and starts over, which the node does not know.
LEMMA OpensServerLink == ASSUME Inv, LinkInv, Inv', OpensDirectory("server") PROVE LinkInv'
<1>1. /\ Server({"receive_results"}) /\ at'.client = at.client
      /\ UNCHANGED inbox /\ step["server"] = "open" /\ step'["client"] = step["client"]
      /\ \/ /\ at'.server = at.server /\ step'["server"] = "ready"
            /\ UNCHANGED <<compiled, held, cancel>>
         \/ at'.server = "uninit" /\ ~cancel'
      /\ UNCHANGED <<link, version, built, running, arbiter, ended>>
  <2>1. Server({"receive_results"}) /\ UNCHANGED inbox /\ step["server"] = "open" /\ UNCHANGED link
    BY DEF OpensDirectory, Receiving, AfterReceive, Inv, Places, ServerStates, wireVars
  <2>2. CASE Step("server", "ready") /\ UNCHANGED <<at, serverVars, clientVars, noteVars>>
    BY <2>1, <2>2 DEF Inv, Places, Step, Sides, serverVars, clientVars, noteVars
  <2>3. CASE ServerFails("uninit")
    BY <2>1, <2>3, ServerFailsFacts
  <2> QED
    BY <2>2, <2>3 DEF OpensDirectory
<1>2. ArbiterWorks' /\ Ran'
  BY <1>1 DEF LinkInv, ArbiterWorks, Ran
<1>3. ASSUME Talking' PROVE Together'
  <2>1. Talking
    BY <1>1, <1>3 DEF Talking, Joined
  <2>2. CASE at'.server = at.server
    BY <1>1, <2>1, <2>2, AwaitsFrom DEF Together
  <2>3. CASE at'.server = "uninit"
    <3>1. CASE /\ Client({"send_results"}) /\ Carries("client", "server", held)
      <4>1. /\ inbox["client"] = <<>>
            /\ \/ step["client"] = "ready" /\ inbox["server"] = <<>>
               \/ inbox["server"] \in {<<SaveFile(held)>>, <<FileMarker(held)>>}
        BY <1>1, <3>1
      <4>2. inbox["server"] \in {<<SaveFile(held)>>, <<FileMarker(held)>>} => Junk
        <5>1. inbox["server"] \in {<<SaveFile(held)>>, <<FileMarker(held)>>} =>
                /\ inbox["server"] # <<>>
                /\ Head(inbox["server"]) \in {SaveFile(held), FileMarker(held)}
          BY Tuples
        <5> QED
          BY <5>1, Marks
      <4> QED
        BY <1>1, <2>3, <3>1, <4>1, <4>2 DEF Together
    <3>2. CASE ~Client({"send_results"})
      BY <1>1, <2>1, <2>3, <3>2, AwaitsFrom, Units, Marks DEF Together
    <3> QED
      BY <1>1, <2>1, <3>1, <3>2, AwaitsFrom
  <2> QED
    BY <1>1, <2>2, <2>3
<1>4. ASSUME ~Talking' PROVE Loose'
  <2>1. ServerReads'
    BY <1>1 DEF LinkInv, Loose, ServerReads, Finds
  <2> QED
    BY <1>1, <1>4, <2>1, AwaitsAlone
<1> QED
  BY <1>2, <1>3, <1>4, Combine

\* A file of the results is stored and acknowledged.
LEMMA StoresServerLink == ASSUME Inv, LinkInv, Inv', StoresFile("server") PROVE LinkInv'
<1>1. /\ Server({"receive_results"}) /\ UNCHANGED at
      /\ inbox["server"] # <<>> /\ inbox'["server"] = Tail(inbox["server"])
      /\ inbox["client"] \in Seq(Mail)
      /\ Joined => inbox'["client"] = Append(inbox["client"], Zero)
      /\ ~Joined => inbox'["client"] = inbox["client"]
      /\ step["server"] = "raw" \/ (step["server"] = "ready" /\ Head(inbox["server"]).tag = "file")
      /\ step'["server"] = "ready" /\ step'["client"] = step["client"]
      /\ UNCHANGED <<link, compiled, held, cancel, version, built, running, arbiter, ended>>
  BY Answers DEF StoresFile, Receiving, AfterReceive, Hears, Inv, Places, ServerStates, Step,
     Wires, Sides, transferless, serverVars, clientVars, noteVars
<1>2. inbox'["server"] = <<>>
  BY <1>1 DEF LinkInv, Loose, ServerReads, Single
<1>3. ArbiterWorks' /\ Ran'
  BY <1>1 DEF LinkInv, ArbiterWorks, Ran
<1>4. ASSUME Talking' PROVE Together'
  <2>1. Talking /\ inbox'["client"] = Append(inbox["client"], Zero) /\ ~cancel'
    BY <1>1, <1>4, AwaitsFrom DEF Talking, Joined
  <2>2. step["server"] # "raw" => inbox["server"] # <<Two>> /\ inbox["server"] # <<FileMarker(held)>>
    <3>1. Head(<<FileMarker(held)>>) = FileMarker(held)
      BY Tuples
    <3> QED
      BY <1>1, <3>1, Units, Marks
  <2>3. /\ built = compiled /\ running = held /\ Client({"send_results"})
        /\ step["client"] = "ack" /\ inbox["client"] = <<>>
    BY <1>1, <2>1, <2>2, AwaitsFrom
  <2>4. inbox'["client"] = <<Zero>>
    BY <2>1, <2>3, Tuples
  <2> QED
    BY <1>1, <1>2, <2>1, <2>3, <2>4 DEF Together
<1>5. ASSUME ~Talking' PROVE Loose'
  <2>1. ServerReads'
    BY <1>1, <1>2, Singles DEF ServerReads, Finds
  <2> QED
    BY <1>1, <1>2, <1>5, <2>1, AwaitsAlone
<1> QED
  BY <1>3, <1>4, <1>5, Combine

\* A marker of the results is answered.
LEMMA AnswersServerLink == ASSUME Inv, LinkInv, Inv', AnswersMarker("server") PROVE LinkInv'
<1>1. PICK m \in {One, Two} :
      /\ Server({"receive_results"}) /\ UNCHANGED at
      /\ inbox["server"] # <<>> /\ inbox'["server"] = Tail(inbox["server"])
      /\ Head(inbox["server"]).tag = "marker"
      /\ Joined => inbox'["client"] = Append(inbox["client"], m)
      /\ ~Joined => inbox'["client"] = inbox["client"]
      /\ step["server"] = "ready" /\ step'["client"] = step["client"]
      /\ step'["server"] = IF m = One THEN "raw" ELSE "ready"
      /\ UNCHANGED <<link, compiled, held, cancel, version, built, running, arbiter, ended>>
  <2>1. PICK m \in {One, Two} :
          Reply("server", m) /\ step'["server"] = IF m = One THEN "raw" ELSE "ready"
    <3>1. \/ Reply("server", One) /\ Step("server", "raw")
          \/ Reply("server", Two) /\ UNCHANGED step /\ step["server"] = "ready"
      BY DEF AnswersMarker
    <3> QED
      BY <3>1, Marks DEF Step, Inv, Places, Sides
  <2>2. /\ Server({"receive_results"}) /\ UNCHANGED at
        /\ inbox["server"] # <<>> /\ Head(inbox["server"]).tag = "marker"
        /\ step["server"] = "ready" /\ step'["client"] = step["client"]
    BY DEF AnswersMarker, Receiving, AfterReceive, Hears, Inv, Places, ServerStates, Step, Sides
  <2> QED
    BY <2>1, <2>2, Answers DEF AnswersMarker, transferless, serverVars, clientVars, noteVars
<1>2. inbox'["server"] = <<>>
  BY <1>1 DEF LinkInv, Loose, ServerReads, Single
<1>3. ArbiterWorks' /\ Ran'
  BY <1>1 DEF LinkInv, ArbiterWorks, Ran
<1>4. ASSUME Talking' PROVE Together'
  <2>1. Talking /\ inbox'["client"] = Append(inbox["client"], m) /\ ~cancel'
    BY <1>1, <1>4, AwaitsFrom DEF Talking, Joined
  <2>2. inbox["server"] # <<Two>> /\ inbox["server"] # <<SaveFile(held)>>
    <3>1. Head(<<SaveFile(held)>>) = SaveFile(held)
      BY Tuples
    <3> QED
      BY <1>1, <3>1, Units, Marks
  <2>3. /\ built = compiled /\ running = held /\ Client({"send_results"})
        /\ step["client"] = "marker" /\ inbox["client"] = <<>>
    BY <1>1, <2>1, <2>2, AwaitsFrom
  <2>4. inbox'["client"] = <<m>>
    BY <2>1, <2>3, Tuples
  <2>5. CASE m = One
    BY <1>1, <1>2, <2>1, <2>3, <2>4, <2>5 DEF Together
  <2>6. CASE m = Two
    BY <1>1, <1>2, <2>1, <2>3, <2>4, <2>6, Marks DEF Together
  <2> QED
    BY <2>5, <2>6
<1>5. ASSUME ~Talking' PROVE Loose'
  <2>1. ServerReads'
    BY <1>1, <1>2, Singles DEF ServerReads, Finds
  <2> QED
    BY <1>1, <1>2, <1>5, <2>1, AwaitsAlone
<1> QED
  BY <1>3, <1>4, <1>5, Combine

\* The results are complete: the node waits for the next job of the batch.
LEMMA FinishesServerLink == ASSUME Inv, LinkInv, Inv', FinishesReceiving("server") PROVE LinkInv'
<1>1. /\ Server({"receive_results"}) /\ at'.server = "built" /\ at'.client = at.client
      /\ inbox["server"] # <<>> /\ inbox'["server"] = Tail(inbox["server"])
      /\ Head(inbox["server"]).tag = "2" /\ step["server"] = "ready"
      /\ inbox'["client"] = inbox["client"] /\ UNCHANGED arbiter
      /\ UNCHANGED <<step, link, compiled, cancel, version, built, running, ended>>
  <2>1. /\ Server({"receive_results"}) /\ AfterReceive[at.server] = "built"
        /\ inbox["server"] # <<>> /\ Head(inbox["server"]).tag = "2"
    BY DEF FinishesReceiving, Receiving, Hears, AfterReceive, Inv, Places, ServerStates
  <2>2. Goto("server", "built") /\ UNCHANGED arbiter
    BY <2>1 DEF FinishesReceiving
  <2> QED
    BY <2>1, <2>2, GotoPlaces, Takes DEF FinishesReceiving, Inv, ServerStates
<1>2. inbox'["server"] = <<>> /\ Finds(ToServer, "2")
  BY <1>1 DEF LinkInv, Loose, ServerReads, Single, Finds
<1>3. ArbiterWorks' /\ Ran'
  BY <1>1 DEF LinkInv, ArbiterWorks, Ran
<1>4. ASSUME Talking' PROVE Together'
  <2>1. Talking /\ ~cancel'
    BY <1>1, <1>4, AwaitsFrom DEF Talking, Joined
  <2>2. /\ inbox["server"] # <<SaveFile(held)>> /\ inbox["server"] # <<FileMarker(held)>>
        /\ inbox["server"] # <<LargeFile(held)>>
    <3>1. /\ Head(<<SaveFile(held)>>) = SaveFile(held) /\ Head(<<FileMarker(held)>>) = FileMarker(held)
          /\ Head(<<LargeFile(held)>>) = LargeFile(held)
      BY Tuples
    <3> QED
      BY <1>1, <3>1, Marks
  <2>3. Client({"built"}) /\ built = compiled /\ inbox["client"] = <<>>
    BY <1>1, <2>1, <2>2, AwaitsFrom
  <2> QED
    BY <1>1, <1>2, <2>1, <2>3 DEF Together
<1>5. ASSUME ~Talking' PROVE Loose'
  <2>1. ServerReads'
    BY <1>1, <1>2, Singles DEF ServerReads, Finds
  <2> QED
    BY <1>1, <1>2, <1>5, <2>1, AwaitsAlone
<1> QED
  BY <1>3, <1>4, <1>5, Combine

-----------------------------------------------------------------------------
(* The invariant of both sides, and what follows from it                   *)

\* At the start there is no connection and nothing to read.
LEMMA InitLink == ASSUME Init PROVE LinkInv
<1>1. /\ at.server = "connect" /\ at.client = "accept" /\ link = "none"
      /\ inbox["server"] = <<>> /\ inbox["client"] = <<>> /\ arbiter = "off" /\ ~cancel
  BY DEF Init, Sides
<1> QED
  BY <1>1, Singles DEF LinkInv, ArbiterWorks, Ran, Loose, NodeReads, ServerReads, Apart,
     Finds, Away, Talking, Joined

\* A step that changes nothing.
LEMMA StutterLink == ASSUME LinkInv, UNCHANGED vars PROVE LinkInv'
<1>1. UNCHANGED <<at, step, inbox, link, compiled, held, cancel, version, built, running,
                  arbiter, ended>>
  BY DEF vars, wireVars, serverVars, clientVars, noteVars
<1>2. ArbiterWorks' /\ Ran'
  BY <1>1 DEF LinkInv, ArbiterWorks, Ran
<1>3. NodeReads' /\ ServerReads'
  BY <1>1, NodeStays, ServerStays DEF LinkInv, Loose
<1>4. Apart'
  BY <1>1 DEF LinkInv, Loose, Apart, Finds, Away, Idle
<1>5. ASSUME Talking' PROVE Together'
  <2>1. Together /\ UNCHANGED <<at, step, inbox, compiled, held, cancel, version, built,
                                running, arbiter>>
    BY <1>1, <1>5 DEF LinkInv, Talking, Joined
  <2>2. Starts => Starts'
    BY <2>1
  <2>3. (Refuses => Refuses') /\ (Builds => Builds')
    BY <2>1
  <2>4. (Runs => Runs') /\ (Results => Results')
    BY <2>1
  <2> HIDE DEF Starts, Refuses, Builds, Runs, Results
  <2> QED
    BY <2>1, <2>2, <2>3, <2>4 DEF Together
<1> QED
  BY <1>2, <1>3, <1>4, <1>5 DEF LinkInv, Loose

\* Every step of either side, of the job and of what may go wrong.
LEMMA NextLink == ASSUME Inv, LinkInv, Next PROVE LinkInv'
<1>1. Inv'
  BY NextInv
<1>2. CASE Transfers("server")
  BY <1>1, <1>2, SendsFileLink, ReadsAckLink, ReadsMarkerLink, FinishesSendingLink,
     OpensServerLink, StoresServerLink, AnswersServerLink, FinishesServerLink,
     FileTroubleLink DEF Transfers, Sides
<1>3. CASE Transfers("client")
  BY <1>1, <1>3, SendsResultLink, ReadsResultAckLink, ReadsResultMarkerLink, FinishesResultsLink,
     OpensNodeLink, StoresNodeLink, AnswersNodeLink, FinishesNodeLink,
     FileTroubleLink DEF Transfers, Sides
<1>4. CASE ServerNext
  BY <1>1, <1>2, <1>4, ServerConnectsLink, ErrorsLink, AsksVersionLink, ComparesVersionLink,
     OrdersBuildLink, ReadsBuildResultLink, OrdersReturnLink, OrdersJobLink,
     ReadsCancelledLink, ReadsResultLink DEF ServerNext
<1>5. CASE ClientNext
  BY <1>1, <1>3, <1>5, ClientAcceptsLink, ErrorsLink, AnswersVersionLink, ReadsVerdictLink,
     ReadsBuildOrderLink, ReportsBuildLink, ReadsJobOrderLink, StopsLink,
     ReportsResultLink, ReadsConfirmationLink DEF ClientNext
<1> QED
  BY <1>1, <1>4, <1>5, ArbitratesLink, StopsLink, KillsLink, CutLink, CrashLink, RestartLink,
     MissesKeepaliveLink DEF Next

\* What is on its way between the two sides fits where both of them are, over
\* any number of connections, restarts and errors (src/src/protocol).
THEOREM LinkHolds == Spec => [](Inv /\ LinkInv)
<1>1. Init => Inv /\ LinkInv
  BY InitInv, InitLink
<1>2. (Inv /\ LinkInv) /\ [Next]_vars => (Inv /\ LinkInv)'
  BY NextInv, StutterInv, NextLink, StutterLink
<1> QED
  BY <1>1, <1>2, PTL DEF Spec

\* The unreachable!() of the node's connect_to_host is not reached: in the state
\* that awaits the verdict, what comes first is never the index of a request.
THEOREM NeverPanics == Spec => []NoPanic
<1>1. LinkInv => NoPanic
  BY DEF LinkInv, Loose, NodeReads, NoPanic
<1> QED
  BY <1>1, LinkHolds, PTL

\* While the server waits for a job on a connection that the node serves, the
\* node runs that job, in the batch that the server had it build.
THEOREM HeldJobRuns == Spec => []RunsHeldJob
<1>1. ASSUME Inv, LinkInv PROVE RunsHeldJob
  <2> SUFFICES ASSUME Joined, Server({"executing"}), Client({"executing", "stopping", "confirm"})
               PROVE  running = held /\ built = held.ident
    BY DEF RunsHeldJob
  <2>1. Together
    BY <1>1 DEF LinkInv, Talking
  <2>2. running = held /\ built = compiled
    BY <2>1 DEF Together
  <2> QED
    BY <1>1, <2>2 DEF Inv, ServerKnows
<1> QED
  BY <1>1, LinkHolds, PTL

\* What a side is about to store is of the batch or the job that it believes:
\* a stale file of another job is never read by receive_files.
THEOREM OwnFilesStored == Spec => []StoresOwnFiles
<1>1. ASSUME Inv, LinkInv PROVE StoresOwnFiles
  <2> SUFFICES ASSUME NEW s \in Sides, Receiving(s), inbox[s] # <<>>,
                      Head(inbox[s]).tag \in {"file", "marker", "raw"}
               PROVE  Heard(s) = Subject(s)
    BY DEF StoresOwnFiles
  <2>1. CASE s = "server"
    <3>1. at.server = "receive_results"
      BY <1>1, <2>1 DEF Receiving, AfterReceive, Inv, Places, ServerStates
    <3>2. Head(inbox["server"]).of = held
      BY <1>1, <2>1, <3>1 DEF LinkInv, Loose, ServerReads
    <3>3. Subject("server") = held
      BY <3>1 DEF Subject
    <3> QED
      BY <2>1, <3>2, <3>3 DEF Heard
  <2>2. CASE s = "client" /\ at.client = "receive_build"
    <3>1. \/ inbox["client"] \in {<<LargeFile(Batch(built))>>, <<SaveFile(Batch(built))>>,
                                  <<FileMarker(Batch(built))>>}
          \/ inbox["client"] = <<Two>>
      BY <1>1, <2>2 DEF LinkInv, Loose, NodeReads
    <3>2. Head(inbox["client"]) \in {LargeFile(Batch(built)), SaveFile(Batch(built)),
                                     FileMarker(Batch(built)), Two}
      BY <3>1, Tuples
    <3>3. Head(inbox["client"]).of = Batch(built)
      BY <2>2, <3>2, Marks
    <3>4. Subject("client") = Batch(built)
      BY <2>2 DEF Subject
    <3> QED
      BY <2>2, <3>3, <3>4 DEF Heard
  <2>3. CASE s = "client" /\ at.client # "receive_build"
    <3>1. at.client = "receive_inputs"
      BY <1>1, <2>3 DEF Receiving, AfterReceive, Inv, Places, ClientStates
    <3>2. \/ inbox["client"] \in {<<LargeFile(running)>>, <<SaveFile(running)>>,
                                  <<FileMarker(running)>>}
          \/ inbox["client"] \in {<<Two>>, <<Two, One>>, <<Two, One, Zero>>}
      BY <1>1, <2>3, <3>1 DEF LinkInv, Loose, NodeReads, JobMail
    <3>3. Head(inbox["client"]) \in {LargeFile(running), SaveFile(running),
                                     FileMarker(running), Two}
      BY <3>2, Tuples
    <3>4. Head(inbox["client"]).of = running
      BY <2>3, <3>3, Marks
    <3>5. Subject("client") = running
      BY <3>1 DEF Subject
    <3> QED
      BY <2>3, <3>4, <3>5 DEF Heard
  <2> QED
    BY <2>1, <2>2, <2>3 DEF Sides
<1> QED
  BY <1>1, LinkHolds, PTL

\* A job is told to the job pool as finished only if it has ended on the node.
LEMMA TellsRan ==
  ASSUME Inv, LinkInv, FinishedJobsRan, ended \subseteq ended', NEW what \in Outcomes, Tell(what),
         what = "finished" => held.job_name \in ended
  PROVE  FinishedJobsRan'
<1>1. held = NoJob \/ (held \in Job /\ outcome' = [outcome EXCEPT ![held.job_name] = what])
  BY DEF Tell, Inv, ServerKnows, Places, ServerStates
<1>2. CASE held = NoJob
  BY <1>2 DEF Tell, FinishedJobsRan
<1>3. CASE held \in Job /\ outcome' = [outcome EXCEPT ![held.job_name] = what]
  BY <1>3 DEF FinishedJobsRan, Job, Inv, Notes
<1> QED
  BY <1>1, <1>2, <1>3

\* The results of a job are taken for complete only if it ran to its end on the
\* node: neither a kill nor an error of the link can make a job count as finished.
THEOREM FinishedHaveRun == Spec => []FinishedJobsRan
<1>1. Init => FinishedJobsRan
  BY DEF Init, FinishedJobsRan
<1>2. ASSUME Inv, LinkInv, FinishedJobsRan, [Next]_vars PROVE FinishedJobsRan'
  <2>1. CASE UNCHANGED <<outcome, ended>>
    BY <1>2, <2>1 DEF FinishedJobsRan
  <2>2. CASE JobEnds
    BY <1>2, <2>2 DEF JobEnds, FinishedJobsRan
  <2>3. ASSUME NEW to, ServerFails(to) PROVE FinishedJobsRan'
    <3>1. Tell("returned") /\ ended' = ended
      BY <2>3 DEF ServerFails
    <3> QED
      BY <1>2, <3>1, TellsRan DEF Outcomes
  <2>4. CASE ReadsCancelled
    <3>1. Tell("cancelled") /\ ended' = ended
      BY <2>4 DEF ReadsCancelled
    <3> QED
      BY <1>2, <3>1, TellsRan DEF Outcomes
  <2>5. CASE OrdersJob
    BY <1>2, <2>5 DEF OrdersJob, FinishedJobsRan, Inv, Notes
  <2>6. CASE FinishesReceiving("server")
    <3>1. at.server = "receive_results"
      BY <1>2, <2>6 DEF FinishesReceiving, Receiving, AfterReceive, Inv, Places, ServerStates
    <3>2. Tell("finished") /\ ended' = ended
      BY <2>6, <3>1 DEF FinishesReceiving
    <3> QED
      BY <1>2, <3>1, <3>2, TellsRan DEF Outcomes, LinkInv, Ran
  <2>7. CASE FinishesReceiving("client")
    BY <2>1, <2>7 DEF FinishesReceiving
  <2>8. CASE ServerNext
    <3>1. CASE Transfers("server")
      BY <2>1, <2>3, <2>6, <3>1 DEF Transfers, SendsFile, ReadsAck, ReadsMarkerAnswer,
         MissesLargeFile, CopyFails, BreaksOff, Panics, FinishesSending, OpensDirectory,
         StoresFile, AnswersMarker, transferless, noteVars
    <3> QED
      BY <2>1, <2>3, <2>4, <2>5, <2>8, <3>1 DEF ServerNext, ServerConnects, ServerTcpError,
         Undecodable, BreaksOff, AsksVersion, ComparesVersion, OrdersBuild, ReadsBuildResult,
         OrdersReturn, ReadsResult, noteVars
  <2>9. CASE ClientNext
    <3>1. CASE Transfers("client")
      BY <2>1, <2>7, <3>1 DEF Transfers, SendsFile, ReadsAck, ReadsMarkerAnswer,
         MissesLargeFile, CopyFails, BreaksOff, Panics, ClientFails, ClientStops,
         FinishesSending, OpensDirectory, StoresFile, AnswersMarker, transferless, noteVars
    <3> QED
      BY <2>1, <2>9, <3>1 DEF ClientNext, ClientAccepts, ClientTcpError, ClientFails, Undecodable,
         BreaksOff, AnswersVersion, ReadsVerdict, ReadsBuildOrder, ReportsBuild, ReadsJobOrder,
         JobAborts, ReportsResult, ReadsConfirmation, noteVars
  <2> QED
    BY <1>2, <2>1, <2>2, <2>3, <2>8, <2>9 DEF Next, Arbitrates, Kills, Cut, Crash, ClientStops,
       Restart, MissesKeepalive, vars, noteVars
<1> QED
  BY <1>1, <1>2, LinkHolds, PTL DEF Spec

\* Only a kill contacts the arbiter (check_broadcast).
LEMMA KillsContact ==
  ASSUME Next, arbiter = "listening", arbiter' = "contacted"
  PROVE  Kills
<1>1. ASSUME NEW s \in Sides, Transfers(s) PROVE FALSE
  BY <1>1 DEF Transfers, SendsFile, ReadsAck, ReadsMarkerAnswer, FinishesSending, OpensDirectory,
     StoresFile, AnswersMarker, FinishesReceiving, MissesLargeFile, CopyFails, BreaksOff, Panics,
     ClientFails, ClientStops, transferless, ServerFails, clientVars
<1>2. ~ServerNext
  BY <1>1 DEF ServerNext, ServerConnects, ServerTcpError, Undecodable, BreaksOff, AsksVersion,
     Sides, ComparesVersion, OrdersBuild, ReadsBuildResult, OrdersReturn, OrdersJob, ReadsCancelled,
     ReadsResult, ServerFails, clientVars
<1>3. ~ClientNext
  BY <1>1 DEF ClientNext, ClientAccepts, ClientTcpError, ClientFails, Undecodable, Sides,
     BreaksOff, AnswersVersion, ReadsVerdict, ReadsBuildOrder, ReportsBuild, ReadsJobOrder,
     JobAborts, ReportsResult, ReadsConfirmation, clientVars
<1> QED
  BY <1>2, <1>3 DEF Next, Arbitrates, JobEnds, Cut, Crash, ClientStops, Restart,
     MissesKeepalive, ServerFails, clientVars

\* A cancellation hits the job it is meant for, though the cancel port carries no
\* name: an arbiter that listens is that of the job that the server waits for.
THEOREM HeldJobKilled == Spec => KillsHeldJob
<1>1. ASSUME Inv, LinkInv, Next, arbiter = "listening", arbiter' = "contacted"
      PROVE  running = held
  <2>1. Server({"executing"})
    BY <1>1, KillsContact DEF Kills
  <2>2. Client({"executing", "stopping"})
    BY <1>1 DEF LinkInv, ArbiterWorks
  <2> QED
    BY <1>1, <2>1, <2>2 DEF LinkInv, Loose, Apart, Away, Idle
<1>2. (Inv /\ LinkInv) /\ [Next]_vars =>
        [arbiter = "listening" /\ arbiter' = "contacted" => running = held]_vars
  BY <1>1
<1> QED
  BY <1>2, LinkHolds, PTL DEF Spec, KillsHeldJob

\* The two sides never both wait for the other with nothing under way, unless a
\* large file cannot be read, a kill comes too late, or a node that has built its
\* batch misses the keepalive check.
THEOREM NobodyStandsOff ==
  Mishaps \cap {"late", "keepalive_built", "read"} = {} => (Spec => []NoStandoff)
<1> SUFFICES ASSUME Mishaps \cap {"late", "keepalive_built", "read"} = {}
             PROVE  Spec => []NoStandoff
  OBVIOUS
<1>1. ASSUME Inv, LinkInv PROVE NoStandoff
  <2> SUFFICES ASSUME Joined, Reading("server"), Reading("client"),
                      inbox["server"] = <<>>, inbox["client"] = <<>>
               PROVE  FALSE
    BY DEF NoStandoff
  <2>1. /\ Server({"version", "building", "executing", "send_build", "send_inputs", "receive_results"})
        /\ Server({"send_build", "send_inputs"}) => step["server"] \in {"ack", "marker"}
    BY <1>1 DEF Reading, Enum, Sending, Receiving, AfterSend, AfterReceive, Inv, Places, ServerStates
  <2>2. /\ ~Client({"building", "executing", "stopping"})
        /\ Client({"send_results"}) => step["client"] \in {"ack", "marker"}
    BY <1>1 DEF Reading, Enum, Sending, Receiving, AfterSend, AfterReceive, Inv, Places, ClientStates
  <2>3. "late" \notin Mishaps /\ "keepalive_built" \notin Mishaps /\ "read" \notin Mishaps
    OBVIOUS
  <2>4. Together
    BY <1>1, <2>1 DEF LinkInv, Talking
  <2>5. ~Starts
    <3> SUFFICES ASSUME Server({"version"}) PROVE ~Greets /\ ~Strays
      BY <2>1
    <3>1. /\ ~Behind(<<>>) /\ ~Behind(<<One>>) /\ ~Behind(<<Two>>) /\ ~Behind(<<Zero>>)
          /\ ~Behind(<<Two, One>>)
      BY Requests, Units
    <3>2. \A j \in Job : ~Behind(<<ExecuteJob(j), Two, One>>)
      <4> SUFFICES ASSUME NEW j \in Job PROVE ~Behind(<<ExecuteJob(j), Two, One>>)
        OBVIOUS
      <4>1. <<ExecuteJob(j), Two, One, Zero>> # <<>>
        BY Tuples
      <4> QED
        BY <4>1, Requests
    <3>3. Answer # <<>>
      BY Tuples
    <3> HIDE DEF Behind, Answer
    <3> QED
      BY <2>2, <2>3, <3>1, <3>2, <3>3
  <2>6. ~Refuses
    BY <2>1, Tuples
  <2>7. ~Builds
    BY <2>1, <2>2, <2>3, Tuples
  <2>8. ~Runs
    BY <2>1, <2>2, <2>3, Tuples
  <2>9. ~Results
    BY <2>1, <2>2, <2>3, Tuples
  <2> QED
    BY <2>4, <2>5, <2>6, <2>7, <2>8, <2>9 DEF Together
<1> QED
  BY <1>1, LinkHolds, PTL
=============================================================================
