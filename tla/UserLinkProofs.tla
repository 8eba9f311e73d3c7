--------------------------- MODULE UserLinkProofs ---------------------------
(***************************************************************************)
(* Proofs about a command of the user and the task that serves it, for any *)
(* files and folders and any number of mishaps.  Requests and responses    *)
(* alternate, so that the invariant is a table: for each command, the      *)
(* places of both sides that go together and what is then on its way,      *)
(* with the files accounted for.  A connection that is cut carries         *)
(* nothing any more, and a command that has ended reads nothing any more:  *)
(* then each side is only held to what it has done.                        *)
(***************************************************************************)
EXTENDS UserLink, SequenceTheorems, TLAPS

Adds == request.command = "add" /\ request.runnable /\ ~request.dry
Pulls == request.command = "pull" /\ request.known /\ ~request.dry

\* Both sides and both directions of the connection.
At(u, s, ts, tu) ==
  user = u /\ server = s /\ to_server = ts /\ to_user = tu

NewBatch == Data("AddJobSet", Nothing)
NewPull == Data("PullFilesInitialize", Nothing)
Kill == Data("KillJob", Nothing)

\* The files that are accounted for, with `rest` still to come.
Counted(rest) == DOMAIN saved \cup unsaved \cup unsent \cup rest

Untouched == DOMAIN saved = {} /\ unsaved = {} /\ unsent = {}

\* A cut connection is silent, and no command ends well over it.
CutIsSilent == cut => to_user = <<>> /\ to_server = <<>> /\ user # "done"

\* The server leaves only when the connection is cut.
GoneIsCut == server = "gone" => cut

-----------------------------------------------------------------------------
(* Commands that move no file: the server stays in its main loop.          *)

ShortPlaces ==
  \/ /\ request.command = "add"
     /\ user \in {"start", "capabilities"} \cup Ended
     /\ to_server \in {<<>>, <<QueryCapabilities>>}
     /\ user = "done" => request.dry
  \/ /\ request.command = "pull" /\ request.dry
     /\ user \in {"start", "dry_response"} \cup Ended
     /\ to_server \in {<<>>, <<NewPull>>}
  \/ /\ request.command = "pull" /\ ~request.dry
     /\ \/ cut /\ user \in {"start", "pull"} \cup Ended
        \/ user = "failed" /\ to_server \in {<<>>, <<NewPull>>, <<FileReceived>>}
        \/ At("start", "request", <<>>, <<>>)
        \/ At("pull", "request", <<NewPull>>, <<>>)
        \/ At("pull", "request", <<>>, <<Data("PullFilesError", Nothing)>>)
        \/ At("pull", "request", <<FileReceived>>, <<>>)
        \/ At("pull", "request", <<>>, <<>>)
  \/ /\ request.command = "kill"
     /\ user \in {"start", "kill_result"} \cup Ended
     /\ to_server \in {<<>>, <<Kill>>}
  \/ /\ request.command = "status"
     /\ user \in {"start", "job_names"} \cup Ended
     /\ to_server \in {<<>>, <<QueryJobNames>>}

ShortTalk ==
  /\ Untouched /\ queued = 0
  /\ server \in {"request", "gone"}
  /\ user = "start" => to_server = <<>>
  /\ ShortPlaces

-----------------------------------------------------------------------------
(* A batch and its files, from the user to the server.                     *)

AddOpens ==
  /\ Untouched
  /\ \/ At("start", "request", <<>>, <<>>)
     \/ At("capabilities", "request", <<QueryCapabilities>>, <<>>)
     \/ At("capabilities", "request", <<>>, <<Data("Capabilities", Nothing)>>)
     \/ todo = Files /\ At("continue", "request", <<NewBatch>>, <<>>)
     \/ todo = Files /\ At("continue", "files", <<>>, <<Continue>>)

\* Between two files: each is on one of the lists, or still to be sent.
AddBetween ==
  /\ Counted(todo) = Files
  /\ \/ At("next_file", "files", <<>>, <<>>)
     \/ At("ack", "files", <<>>, <<ReceivedFile>>)
     \/ At("marker_ack", "files", <<>>, <<DontSendLargeFile>>)
     \/ /\ current \in LargeFiles \cap unsent /\ path = current
        /\ At("ack", "raw", <<Data("part", current)>>, <<>>)

\* A file is on its way.
AddCarries ==
  /\ Counted(todo \cup {current}) = Files
  /\ \/ /\ current \in SmallFiles
        /\ At("ack", "files", <<Data("SaveFile", current)>>, <<>>)
     \/ /\ current \in LargeFiles
        /\ \/ At("marker_ack", "files", <<Data("LargeFileMarker", current)>>, <<>>)
           \/ path = current /\ At("marker_ack", "raw", <<>>, <<AwaitingLargeFile>>)
           \/ path = current /\ At("ack", "raw", <<Data("raw", current)>>, <<>>)

\* The server has left the transfer without a word.  What the user sends then
\* is not decoded, or read as a question about the job names.
AddLeft ==
  \/ At("continue", "request", <<>>, <<Continue>>)
  \/ At("next_file", "request", <<>>, <<>>)
  \/ At("ack", "request", <<>>, <<>>)
  \/ At("ack", "stray", <<>>, <<>>)
  \/ \E tag \in {"SaveFile", "raw", "part"} :
       At("ack", "request", <<Data(tag, current)>>, <<>>)
  \/ At("marker_ack", "request", <<Data("LargeFileMarker", current)>>, <<>>)
  \/ At("added", "request", <<EndOfFiles>>, <<>>)
  \/ /\ user = "added" /\ server = "request" /\ to_server = <<>> /\ to_user # <<>>
     /\ Head(to_user).tag \in {"JobNames", "KillJob", "4", "6"}

AddCloses ==
  /\ Counted({}) = Files
  /\ \/ At("added", "files", <<EndOfFiles>>, <<>>)
     \/ At("added", "queue", <<>>, <<>>)

AddAnswered ==
  \/ queued = 1 /\ At("added", "request", <<>>, <<JobSetAdded>>)
  \/ queued = 0 /\ At("added", "request", <<>>, <<JobSetAddedFailed>>)

\* What holds on both sides even when they no longer hear each other: the
\* server queues a batch it has in full, and only once.
AddKept ==
  /\ queued \in {0, 1}
  /\ server \in {"request", "files", "raw", "stray", "queue", "gone"}
  /\ user \in {"start", "capabilities", "continue", "next_file", "ack",
               "marker_ack", "added"} \cup Ended
  /\ server = "queue" \/ queued = 1 =>
       Counted({}) = Files /\ user \in {"added"} \cup Ended
  /\ queued = 1 => server \in {"request", "gone"}
  /\ user = "done" => queued = 1

AddTalk ==
  /\ AddKept
  /\ \/ cut
     \/ user \in Ended /\ to_server = <<>>
     \/ queued = 0 /\ (AddOpens \/ AddBetween \/ AddCarries \/ AddLeft \/ AddCloses)
     \/ AddAnswered

-----------------------------------------------------------------------------
(* The results of a batch, from the server to the user.                    *)

PullOpens ==
  /\ Untouched
  /\ \/ At("start", "request", <<>>, <<>>)
     \/ At("pull", "request", <<NewPull>>, <<>>)

\* Between two entries: each is on one of the lists, or still to be sent.
PullBetween ==
  /\ Counted(todo) = Included(request)
  /\ \/ At("pull", "walk", <<>>, <<>>)
     \/ At("pull", "file_ack", <<FileReceived>>, <<>>)
     \/ current \in unsent /\ At("pull", "file_ack", <<>>, <<Data("PullFilesError", current)>>)
     \/ current \in unsent /\ At("pull_raw", "file_ack", <<>>, <<>>)
     \/ /\ current \in LargeFiles \cap unsent /\ path = current
        /\ At("pull_raw", "file_ack", <<>>, <<Data("part", current)>>)
     \/ /\ current \in unsaved /\ current \in LargeFiles
        /\ At("pull", "marker_ack", <<FileReceived, FileReceived>>, <<>>)

\* An entry is on its way.
PullCarries ==
  /\ Counted(todo \cup {current}) = Included(request)
  /\ \/ /\ current \in Entries \ LargeFiles
        /\ At("pull", "file_ack", <<>>, <<Data("SendFile", current)>>)
     \/ /\ current \in LargeFiles
        /\ \/ At("pull", "marker_ack", <<>>, <<Data("FileMarker", current)>>)
           \/ path = current /\ At("pull_raw", "marker_ack", <<FileReceived>>, <<>>)
           \/ path = current /\ At("pull_raw", "file_ack", <<>>, <<Data("raw", current)>>)

PullCloses ==
  /\ Counted({}) = Included(request)
  /\ At("pull", "request", <<>>, <<FinishFiles>>)

\* The bytes of a large file that the user has refused, or has ceased to write:
\* it cannot read them as a response, and fails or waits for what does not come.
PullStrays ==
  \/ user = "pull" /\ to_user # <<>> /\ Head(to_user).tag \in Bytes
  \/ user = "stray"

PullDone ==
  /\ user = "done" /\ server = "request" /\ to_server = <<>>
  /\ Counted({}) = Included(request)

PullTalk ==
  /\ queued = 0
  /\ server \in {"request", "walk", "marker_ack", "file_ack", "gone"}
  /\ user \in {"start", "pull", "pull_raw", "stray"} \cup Ended
  /\ to_server \in {<<>>, <<NewPull>>, <<FileReceived>>, <<FileReceived, FileReceived>>}
  /\ server = "marker_ack" => current \in LargeFiles
  /\ \/ cut
     \/ user = "failed"
     \/ PullOpens \/ PullBetween \/ PullCarries \/ PullCloses
     \/ PullStrays \/ PullDone

-----------------------------------------------------------------------------

Talk ==
  /\ ~Adds /\ ~Pulls => ShortTalk
  /\ Adds => AddTalk
  /\ Pulls => PullTalk

IInv == TypeOK /\ SavedAreOwn /\ CutIsSilent /\ GoneIsCut /\ Talk
-----------------------------------------------------------------------------
(* What is read and written                                                *)

\* A queue of one or two messages is read from the front.
LEMMA Queues ==
  /\ \A m : <<m>> # <<>> /\ Head(<<m>>) = m /\ Tail(<<m>>) = <<>>
  /\ \A m, n : <<m, n>> # <<>> /\ Head(<<m, n>>) = m /\ Tail(<<m, n>>) = <<n>>
PROOF
  OBVIOUS

\* The first message that arrives is the only one; over a connection that
\* nobody hears it is lost (a write to a closed socket).
LEMMA ArrivesFacts ==
  ASSUME NEW q \in Seq(Messages), NEW ms \in Seq(Messages), NEW hears \in BOOLEAN
  PROVE  /\ Arrives(q, hears, ms) \in Seq(Messages)
         /\ hears /\ q = <<>> => Arrives(q, hears, ms) = ms
         /\ ~hears => Arrives(q, hears, ms) = q
         /\ q # <<>> => /\ Arrives(q, hears, ms) # <<>>
                        /\ Head(Arrives(q, hears, ms)) = Head(q)
PROOF
  <1>1. CASE hears
    <2>1. Arrives(q, hears, ms) = q \o ms
      BY <1>1 DEF Arrives
    <2>2. q \o ms \in Seq(Messages)
      BY ConcatProperties
    <2>3. q = <<>> => q \o ms = ms
      BY ConcatEmptySeq
    <2>4. ASSUME q # <<>> PROVE q \o ms # <<>> /\ Head(q \o ms) = Head(q)
      <3>1. Len(q) \in Nat /\ Len(q) > 0 /\ Len(ms) \in Nat
        BY <2>4, EmptySeq, LenProperties
      <3>2. Len(q \o ms) = Len(q) + Len(ms) /\ (q \o ms)[1] = q[1]
        BY <3>1, ConcatProperties
      <3> QED
        BY <2>2, <3>1, <3>2
    <2> QED
      BY <1>1, <2>1, <2>2, <2>3, <2>4
  <1>2. CASE ~hears
    BY <1>2 DEF Arrives
  <1> QED
    BY <1>1, <1>2

\* A message is a tag with the file it carries, or nothing.
LEMMA MessageTyped ==
  ASSUME NEW tag \in Tags, NEW of \in Entries \cup {Nothing}
  PROVE  Data(tag, of) \in Messages /\ <<Data(tag, of)>> \in Seq(Messages)
         /\ <<Data(tag, of), Data(tag, of)>> \in Seq(Messages)
PROOF
  BY DEF Data, Messages

\* The messages without a body.
LEMMA UnitsTyped ==
  ASSUME NEW i \in {"0", "1", "2", "4", "5", "6", "11", "12"}
  PROVE  Unit(i) \in Messages /\ <<Unit(i)>> \in Seq(Messages)
         /\ <<Unit(i), Unit(i)>> \in Seq(Messages) /\ Unit(i) = Data(i, Nothing)
PROOF
  BY DEF Unit, Data, Messages, Tags, Responses, Requests, Acks

\* What the user finds when it reads: the first message of a connection that
\* is whole, and nothing after it if it was the only one.
LEMMA UserTakesFacts ==
  ASSUME TypeOK, CutIsSilent, NEW place, NEW tag, UserTakes(place, tag)
  PROVE  /\ user = place /\ ~cut /\ to_user # <<>>
         /\ Head(to_user) \in Messages /\ Head(to_user).tag = tag
         /\ to_user' \in Seq(Messages)
         /\ \A m : to_user = <<m>> => m.tag = tag /\ Head(to_user) = m /\ to_user' = <<>>
PROOF
  BY Queues DEF TypeOK, CutIsSilent, UserTakes

\* The same for the server.
LEMMA ServerTakesFacts ==
  ASSUME TypeOK, CutIsSilent, NEW place, NEW tag, ServerTakes(place, tag)
  PROVE  /\ server = place /\ ~cut /\ to_server # <<>>
         /\ Head(to_server) \in Messages /\ Head(to_server).tag = tag
         /\ to_server' \in Seq(Messages)
         /\ \A m : to_server = <<m>> =>
              m.tag = tag /\ Head(to_server) = m /\ to_server' = <<>>
         /\ \A m : to_server = <<m, m>> =>
              m.tag = tag /\ Head(to_server) = m /\ to_server' = <<m>>
PROOF
  <1>1. /\ server = place /\ ~cut /\ to_server # <<>> /\ to_server' = Tail(to_server)
        /\ Head(to_server) \in Messages /\ Head(to_server).tag = tag
        /\ to_server' \in Seq(Messages)
    BY DEF TypeOK, CutIsSilent, ServerTakes
  <1>2. \A m : to_server = <<m>> =>
          m.tag = tag /\ Head(to_server) = m /\ to_server' = <<>>
    BY <1>1, Queues
  <1>3. \A m : to_server = <<m, m>> =>
          m.tag = tag /\ Head(to_server) = m /\ to_server' = <<m>>
    BY <1>1, Queues
  <1> QED
    BY <1>1, <1>2, <1>3

\* What the user writes to a server that hears it is what the server reads.
LEMMA UserSendsFacts ==
  ASSUME TypeOK, NEW place, NEW ms \in Seq(Messages), UserSends(place, ms)
  PROVE  /\ to_server' \in Seq(Messages) /\ user' \in {place, "failed"}
         /\ ServerHears => user' = place
         /\ ServerHears /\ to_server = <<>> => to_server' = ms
         /\ ~ServerHears => to_server' = to_server
PROOF
  <1>1. ServerHears \in BOOLEAN
    BY DEF ServerHears
  <1> QED
    BY <1>1, ArrivesFacts DEF TypeOK, UserSends

\* What the server writes to a user that hears it is what the user reads.
LEMMA ServerSendsFacts ==
  ASSUME TypeOK, NEW place, NEW otherwise, NEW ms \in Seq(Messages),
         ServerSends(place, otherwise, ms)
  PROVE  /\ to_user' \in Seq(Messages) /\ server' \in {place, otherwise}
         /\ UserHears => server' = place
         /\ UserHears /\ to_user = <<>> => to_user' = ms
         /\ ~UserHears => to_user' = to_user
         /\ to_user # <<>> => to_user' # <<>> /\ Head(to_user') = Head(to_user)
PROOF
  <1>1. UserHears \in BOOLEAN
    BY DEF UserHears
  <1> QED
    BY <1>1, ArrivesFacts DEF TypeOK, ServerSends

\* The places of both sides.
LEMMA PlacesAre ==
  /\ UserPlaces = {"start", "capabilities", "continue", "next_file", "ack", "marker_ack",
                   "added", "kill_result", "job_names", "dry_response", "pull",
                   "pull_raw", "stray", "done", "failed", "panicked"}
  /\ ServerPlaces = {"request", "files", "raw", "file_ack", "marker_ack", "stray", "queue",
                     "walk", "gone"}
PROOF
  BY DEF UserPlaces, ServerPlaces, UserReads, ServerReads, Ended

-----------------------------------------------------------------------------
(* The user                                                                *)

\* The invariant is the conjunction that each lemma below establishes: the
\* types, what holds of files and connection, and the table.
LEMMA Combine ==
  ASSUME TypeOK', SavedAreOwn', CutIsSilent', GoneIsCut', Talk'
  PROVE  IInv'
PROOF
  BY DEF IInv

\* What a user goes on sending to a server that has left the transfer.
LEMMA LeftTags ==
  ASSUME AddLeft, to_server # <<>>
  PROVE  /\ server = "request" /\ user \in {"ack", "marker_ack", "added"}
         /\ to_user = <<>> /\ \E m : to_server = <<m>>
         /\ Head(to_server).tag \in {"SaveFile", "LargeFileMarker", "2"} \cup Bytes
         /\ Head(to_server).tag = "2" => user = "added"
         /\ Head(to_server).tag \in Bytes => user = "ack"
PROOF
  BY Queues DEF AddLeft, At, Data, EndOfFiles, Unit, Bytes

USE DEF Talk, Adds, Pulls, At, Untouched, Counted, Ended, Bytes,
        ShortTalk, ShortPlaces, AddTalk, AddKept, AddOpens, AddBetween, AddCarries,
        AddLeft, AddCloses, AddAnswered, PullTalk, PullOpens, PullBetween, PullCarries,
        PullCloses, PullStrays, PullDone

\* The command starts with its first request (add.rs, kill.rs,
\* server_status.rs, pull.rs).
LEMMA UserStartsInv ==
  ASSUME IInv, UserStarts
  PROVE  IInv'
PROOF
  <1> USE DEF UserStarts, UserUnchanged, NoMishap, transfer
  <1>0. user = "start" /\ to_server = <<>> /\ (~cut => ServerHears)
    BY DEF IInv, GoneIsCut, CutIsSilent, ServerHears
  <1>1. PICK place \in {"capabilities", "kill_result", "job_names", "dry_response", "pull"},
             m \in {QueryCapabilities, Kill, QueryJobNames, NewPull} :
          /\ UserSends(place, <<m>>)
          /\ \/ request.command = "add" /\ place = "capabilities" /\ m = QueryCapabilities
             \/ request.command = "kill" /\ place = "kill_result" /\ m = Kill
             \/ request.command = "status" /\ place = "job_names" /\ m = QueryJobNames
             \/ request.command = "pull" /\ request.dry /\ place = "dry_response" /\ m = NewPull
             \/ request.command = "pull" /\ ~request.dry /\ place = "pull" /\ m = NewPull
    BY DEF Kill, NewPull
  <1>2. <<m>> \in Seq(Messages)
    BY MessageTyped, UnitsTyped DEF QueryCapabilities, QueryJobNames, Kill, NewPull,
       Tags, Requests
  <1>3. /\ to_server' \in Seq(Messages) /\ user' \in {place, "failed"}
        /\ ~cut => user' = place /\ to_server' = <<m>>
        /\ cut => to_server' = <<>>
    BY <1>0, <1>1, <1>2, UserSendsFacts DEF IInv, ServerHears
  <1>4. TypeOK'
    BY <1>3, PlacesAre DEF IInv, TypeOK
  <1>5. SavedAreOwn' /\ CutIsSilent' /\ GoneIsCut'
    BY <1>3 DEF IInv, SavedAreOwn, CutIsSilent, GoneIsCut
  <1>6. Talk'
    BY <1>0, <1>1, <1>3 DEF IInv
  <1> QED
    BY <1>4, <1>5, <1>6, Combine

\* add: the batch is announced when some node can run it (add.rs).
LEMMA UserReadsCapabilitiesInv ==
  ASSUME IInv, UserReadsCapabilities
  PROVE  IInv'
PROOF
  <1> USE DEF UserReadsCapabilities, UserUnchanged, NoMishap
  <1>1. /\ user = "capabilities" /\ ~cut /\ to_user # <<>> /\ to_user' \in Seq(Messages)
        /\ \A m : to_user = <<m>> => to_user' = <<>>
    BY UserTakesFacts DEF IInv
  <1>2. ServerHears
    BY <1>1 DEF IInv, GoneIsCut, ServerHears
  <1>3. CASE request.runnable /\ ~request.dry
    <2>1. UserSends("continue", <<NewBatch>>) /\ todo' = Files
      BY <1>3 DEF NewBatch
    <2>2. <<NewBatch>> \in Seq(Messages)
      BY MessageTyped DEF NewBatch, Tags, Requests
    <2>3. /\ to_server' \in Seq(Messages) /\ user' = "continue"
          /\ to_server = <<>> => to_server' = <<NewBatch>>
      BY <1>2, <2>1, <2>2, UserSendsFacts DEF IInv
    <2>4. TypeOK'
      BY <1>1, <2>1, <2>3, PlacesAre DEF IInv, TypeOK, Entries
    <2>5. SavedAreOwn' /\ CutIsSilent' /\ GoneIsCut'
      BY <1>1 DEF IInv, SavedAreOwn, CutIsSilent, GoneIsCut
    <2>6. Talk'
      BY <1>1, <1>3, <2>1, <2>3, Queues DEF IInv
    <2> QED
      BY <2>4, <2>5, <2>6, Combine
  <1>4. CASE ~(request.runnable /\ ~request.dry)
    <2>1. user' = (IF request.runnable THEN "done" ELSE "failed")
          /\ UNCHANGED <<to_server, todo>>
      BY <1>4
    <2>2. TypeOK'
      BY <1>1, <2>1, PlacesAre DEF IInv, TypeOK
    <2>3. SavedAreOwn' /\ CutIsSilent' /\ GoneIsCut'
      BY <1>1, <2>1 DEF IInv, SavedAreOwn, CutIsSilent, GoneIsCut
    <2>4. Talk'
      BY <1>1, <1>4, <2>1 DEF IInv
    <2> QED
      BY <2>2, <2>3, <2>4, Combine
  <1> QED
    BY <1>3, <1>4

\* add: whatever the server answers, the files follow (add.rs).
LEMMA UserReadsContinueInv ==
  ASSUME IInv, UserReadsContinue
  PROVE  IInv'
PROOF
  <1> USE DEF UserReadsContinue, UserUnchanged, NoMishap, transfer
  <1>1. PICK tag \in Responses : UserTakes("continue", tag)
    OBVIOUS
  <1>2. /\ user = "continue" /\ ~cut /\ to_user # <<>> /\ to_user' \in Seq(Messages)
        /\ \A m : to_user = <<m>> => to_user' = <<>>
    BY <1>1, UserTakesFacts DEF IInv
  <1>3. TypeOK'
    BY <1>2, PlacesAre DEF IInv, TypeOK
  <1>4. SavedAreOwn' /\ CutIsSilent' /\ GoneIsCut'
    BY <1>2 DEF IInv, SavedAreOwn, CutIsSilent, GoneIsCut
  <1>5. Talk'
    BY <1>2, Queues DEF IInv
  <1> QED
    BY <1>3, <1>4, <1>5, Combine

\* send_files: a file that cannot be read is left out (sender.rs).
LEMMA UserSkipsFileInv ==
  ASSUME IInv, NEW f \in Files, UserSkipsFile(f)
  PROVE  IInv'
PROOF
  <1> USE DEF UserSkipsFile, UserUnchanged, Mishap
  <1>1. user = "next_file" /\ f \in todo /\ todo' = todo \ {f} /\ unsent' = unsent \cup {f}
    OBVIOUS
  <1>2. mishaps' \in 0..MaxMishaps
    BY UserAssumption DEF IInv, TypeOK
  <1>3. TypeOK'
    BY <1>2 DEF IInv, TypeOK
  <1>4. SavedAreOwn' /\ CutIsSilent' /\ GoneIsCut'
    BY DEF IInv, SavedAreOwn, CutIsSilent, GoneIsCut
  <1>5. Talk'
    BY <1>1 DEF IInv
  <1> QED
    BY <1>3, <1>4, <1>5, Combine

\* send_files: a file, or the marker that announces it (sender.rs).
LEMMA UserSendsFileInv ==
  ASSUME IInv, NEW f \in Files, UserSendsFile(f)
  PROVE  IInv'
PROOF
  <1> USE DEF UserSendsFile, UserUnchanged, NoMishap
  <1>0. /\ user = "next_file" /\ f \in todo /\ todo' = todo \ {f} /\ current' = f
        /\ ~cut => ServerHears
    BY DEF IInv, GoneIsCut, ServerHears
  <1>1. PICK place \in {"ack", "marker_ack"}, tag \in {"SaveFile", "LargeFileMarker"} :
          /\ UserSends(place, <<Data(tag, f)>>)
          /\ \/ f \in LargeFiles /\ place = "marker_ack" /\ tag = "LargeFileMarker"
             \/ f \in SmallFiles /\ place = "ack" /\ tag = "SaveFile"
    BY DEF Files
  <1>2. <<Data(tag, f)>> \in Seq(Messages)
    BY MessageTyped DEF Tags, Entries
  <1>3. /\ to_server' \in Seq(Messages) /\ user' \in {place, "failed"}
        /\ ~cut => user' = place
        /\ ~cut /\ to_server = <<>> => to_server' = <<Data(tag, f)>>
        /\ cut => to_server' = to_server
    BY <1>0, <1>1, <1>2, UserSendsFacts DEF IInv, ServerHears
  <1>4. TypeOK'
    BY <1>0, <1>3, PlacesAre DEF IInv, TypeOK, Entries
  <1>5. SavedAreOwn' /\ CutIsSilent' /\ GoneIsCut'
    BY <1>3 DEF IInv, SavedAreOwn, CutIsSilent, GoneIsCut
  <1>6. Counted(todo)' \cup {f} = Counted(todo)
    BY <1>0
  <1>7. Talk'
    BY <1>0, <1>1, <1>3, <1>6 DEF IInv
  <1> QED
    BY <1>4, <1>5, <1>7, Combine

\* send_files: all files are sent (sender.rs).
LEMMA UserFinishesFilesInv ==
  ASSUME IInv, UserFinishesFiles
  PROVE  IInv'
PROOF
  <1> USE DEF UserFinishesFiles, UserUnchanged, NoMishap, transfer
  <1>0. user = "next_file" /\ todo = {} /\ (~cut => ServerHears)
    BY DEF IInv, GoneIsCut, ServerHears
  <1>1. <<EndOfFiles>> \in Seq(Messages)
    BY UnitsTyped DEF EndOfFiles
  <1>2. /\ to_server' \in Seq(Messages) /\ user' \in {"added", "failed"}
        /\ ~cut => user' = "added"
        /\ ~cut /\ to_server = <<>> => to_server' = <<EndOfFiles>>
        /\ cut => to_server' = to_server
    BY <1>0, <1>1, UserSendsFacts DEF IInv, ServerHears
  <1>3. TypeOK'
    BY <1>2, PlacesAre DEF IInv, TypeOK
  <1>4. SavedAreOwn' /\ CutIsSilent' /\ GoneIsCut'
    BY <1>2 DEF IInv, SavedAreOwn, CutIsSilent, GoneIsCut
  <1>5. Talk'
    BY <1>0, <1>2 DEF IInv
  <1> QED
    BY <1>3, <1>4, <1>5, Combine

\* send_files: the acknowledgement of a file (sender.rs).
LEMMA UserReadsAckInv ==
  ASSUME IInv, UserReadsAck
  PROVE  IInv'
PROOF
  <1> USE DEF UserReadsAck, UserUnchanged, NoMishap, transfer
  <1>1. PICK tag \in Acks : UserTakes("ack", tag)
    OBVIOUS
  <1>2. /\ user = "ack" /\ ~cut /\ to_user # <<>> /\ to_user' \in Seq(Messages)
        /\ \A m : to_user = <<m>> => to_user' = <<>>
    BY <1>1, UserTakesFacts DEF IInv
  <1>3. TypeOK'
    BY <1>2, PlacesAre DEF IInv, TypeOK
  <1>4. SavedAreOwn' /\ CutIsSilent' /\ GoneIsCut'
    BY <1>2 DEF IInv, SavedAreOwn, CutIsSilent, GoneIsCut
  <1>5. Talk'
    BY <1>2 DEF IInv
  <1> QED
    BY <1>3, <1>4, <1>5, Combine

\* send_files: what the server answers to a marker decides whether the file
\* follows (sender.rs).
LEMMA UserReadsMarkerAckInv ==
  ASSUME IInv, UserReadsMarkerAck
  PROVE  IInv'
PROOF
  <1> USE DEF UserUnchanged, NoMishap, transfer
  <1>1. PICK tag \in Acks : UserTakes("marker_ack", tag) /\
          \/ /\ tag = "1" /\ UserSends("ack", <<Data("raw", current)>>)
             /\ NoMishap /\ UNCHANGED unsent
          \/ /\ tag = "1" /\ UserSends("ack", <<Data("part", current)>>)
             /\ Mishap("read") /\ unsent' = unsent \cup {current}
          \/ /\ tag = "1" /\ Mishap("open") /\ user' = "panicked"
             /\ UNCHANGED <<to_server, unsent>>
          \/ /\ tag # "1" /\ user' = "next_file" /\ UNCHANGED <<to_server, unsent>> /\ NoMishap
    BY DEF UserReadsMarkerAck, Acks
  <1>2. UserUnchanged /\ UNCHANGED <<todo, current, path, unsaved, saved>>
    BY DEF UserReadsMarkerAck
  <1>3. /\ user = "marker_ack" /\ ~cut /\ to_user # <<>> /\ to_user' \in Seq(Messages)
        /\ \A m : to_user = <<m>> => m.tag = tag /\ to_user' = <<>>
    BY <1>1, UserTakesFacts DEF IInv
  <1>4. ServerHears /\ mishaps' \in 0..MaxMishaps
    BY <1>1, <1>3, UserAssumption DEF IInv, TypeOK, GoneIsCut, ServerHears, Mishap
  <1>5. <<Data("raw", current)>> \in Seq(Messages) /\ <<Data("part", current)>> \in Seq(Messages)
    BY MessageTyped DEF IInv, TypeOK, Tags
  <1>6. Adds => queued = 0 /\ to_server = <<>> /\ current \in Entries \cup {Nothing}
                /\ \/ /\ tag = "1" /\ server = "raw" /\ current \in LargeFiles /\ path = current
                      /\ Counted(todo \cup {current}) = Files
                   \/ tag # "1" /\ server = "files" /\ Counted(todo) = Files
    BY <1>1, <1>3 DEF IInv, TypeOK, AwaitingLargeFile, DontSendLargeFile, ReceivedFile, Unit
  <1>7. Adds
    BY <1>3 DEF IInv
  <1>8. /\ to_server' \in Seq(Messages) /\ unsent' \subseteq Files
        /\ \/ /\ tag = "1" /\ user' = "ack" /\ to_server' = <<Data("raw", current)>>
              /\ unsent' = unsent
           \/ /\ tag = "1" /\ user' = "ack" /\ to_server' = <<Data("part", current)>>
              /\ unsent' = unsent \cup {current}
           \/ tag = "1" /\ user' = "panicked" /\ to_server' = <<>> /\ unsent' = unsent
           \/ tag # "1" /\ user' = "next_file" /\ to_server' = <<>> /\ unsent' = unsent
    BY <1>1, <1>4, <1>5, <1>6, <1>7, UserSendsFacts DEF IInv, TypeOK, Files
  <1>9. TypeOK'
    BY <1>2, <1>3, <1>4, <1>8, PlacesAre DEF IInv, TypeOK
  <1>10. SavedAreOwn' /\ CutIsSilent' /\ GoneIsCut'
    BY <1>2, <1>3, <1>8 DEF IInv, SavedAreOwn, CutIsSilent, GoneIsCut
  <1>11. to_user' = <<>>
    BY <1>3, <1>7 DEF IInv
  <1>12. Talk'
    BY <1>2, <1>3, <1>6, <1>7, <1>8, <1>11 DEF IInv
  <1> QED
    BY <1>9, <1>10, <1>12, Combine

\* The answer that decides a command (add.rs, kill.rs, server_status.rs,
\* pull.rs).
LEMMA UserReadsResultInv ==
  ASSUME IInv, NEW place \in DOMAIN Expected, UserReadsResult(place)
  PROVE  IInv'
PROOF
  <1> USE DEF UserReadsResult, UserUnchanged, NoMishap, transfer
  <1>1. PICK tag \in Responses : UserTakes(place, tag) /\
          user' = IF tag \in Expected[place] THEN "done"
                  ELSE IF place = "kill_result" THEN "panicked" ELSE "failed"
    OBVIOUS
  <1>2. /\ user = place /\ ~cut /\ to_user # <<>> /\ to_user' \in Seq(Messages)
        /\ Head(to_user).tag = tag
        /\ \A m : to_user = <<m>> => m.tag = tag /\ to_user' = <<>>
    BY <1>1, UserTakesFacts DEF IInv
  <1>3. /\ place \in {"added", "kill_result", "job_names", "dry_response"}
        /\ user' \in Ended
        /\ place = "added" /\ user' = "done" => tag = "0"
    BY <1>1 DEF Expected
  <1>4. TypeOK'
    BY <1>2, <1>3, PlacesAre DEF IInv, TypeOK
  <1>5. SavedAreOwn' /\ CutIsSilent' /\ GoneIsCut'
    BY <1>2 DEF IInv, SavedAreOwn, CutIsSilent, GoneIsCut
  <1>6. Talk'
    BY <1>2, <1>3 DEF IInv, JobSetAdded, JobSetAddedFailed, Unit
  <1> QED
    BY <1>4, <1>5, <1>6, Combine

\* What is stored under a name of its own leaves everything stored right.
LEMMA StoreFacts ==
  ASSUME SavedAreOwn, NEW f, NEW m, Store(f, m),
         m.tag \in {"SaveFile", "SendFile", "raw"}, m.of = f
  PROVE  SavedAreOwn' /\ DOMAIN saved' = DOMAIN saved \cup {f}
PROOF
  BY DEF Store, SavedAreOwn

\* pull: an entry is saved, or the command ends (pull.rs).
LEMMA UserSavesEntryInv ==
  ASSUME IInv, UserSavesEntry
  PROVE  IInv'
PROOF
  <1> USE DEF UserUnchanged, NoMishap
  <1> DEFINE e == Head(to_user).of
  <1>1. UserTakes("pull", "SendFile") /\ UserUnchanged
        /\ UNCHANGED <<todo, current, path, unsent, unsaved>>
    BY DEF UserSavesEntry
  <1>2. /\ user = "pull" /\ ~cut /\ to_user # <<>> /\ to_user' \in Seq(Messages)
        /\ Head(to_user).tag = "SendFile"
        /\ \A m : to_user = <<m>> => m.tag = "SendFile" /\ to_user' = <<>>
    BY <1>1, UserTakesFacts DEF IInv
  <1>3. ServerHears
    BY <1>2 DEF IInv, GoneIsCut, ServerHears
  <1>4. /\ to_user = <<Data("SendFile", current)>> /\ to_user' = <<>>
        /\ server = "file_ack" /\ to_server = <<>> /\ current \in Entries \ LargeFiles
        /\ Counted(todo \cup {current}) = Included(request) /\ Pulls /\ queued = 0
    BY <1>2, Queues DEF IInv, Data, FinishFiles, Unit
  <1>5. e = current
    BY <1>4, Queues DEF Data
  <1>6. CASE Store(e, Head(to_user)) /\ UserSends("pull", <<FileReceived>>) /\ NoMishap
    <2>1. SavedAreOwn' /\ DOMAIN saved' = DOMAIN saved \cup {current}
      BY <1>2, <1>5, <1>6, StoreFacts DEF IInv
    <2>2. <<FileReceived>> \in Seq(Messages)
      BY UnitsTyped DEF FileReceived
    <2>3. to_server' = <<FileReceived>> /\ user' = "pull" /\ to_server' \in Seq(Messages)
      BY <1>3, <1>4, <1>6, <2>2, UserSendsFacts DEF IInv
    <2>4. TypeOK'
      BY <1>1, <1>2, <1>4, <1>6, <2>1, <2>3, PlacesAre DEF IInv, TypeOK
    <2>5. CutIsSilent' /\ GoneIsCut'
      BY <1>1, <1>2 DEF IInv, CutIsSilent, GoneIsCut
    <2>6. Talk'
      BY <1>1, <1>4, <2>1, <2>3 DEF IInv
    <2> QED
      BY <2>1, <2>4, <2>5, <2>6, Combine
  <1>7. CASE Mishap("save") /\ user' = "failed" /\ UNCHANGED <<to_server, saved>>
    <2>1. mishaps' \in 0..MaxMishaps
      BY <1>7, UserAssumption DEF IInv, TypeOK, Mishap
    <2>2. TypeOK'
      BY <1>1, <1>2, <1>7, <2>1, PlacesAre DEF IInv, TypeOK
    <2>3. SavedAreOwn' /\ CutIsSilent' /\ GoneIsCut'
      BY <1>1, <1>2, <1>7 DEF IInv, SavedAreOwn, CutIsSilent, GoneIsCut
    <2>4. Talk'
      BY <1>1, <1>4, <1>7 DEF IInv
    <2> QED
      BY <2>2, <2>3, <2>4, Combine
  <1> QED
    BY <1>6, <1>7 DEF UserSavesEntry

\* pull: a large file is awaited, or refused, which the server is told twice
\* (save_large_file in pull.rs).
LEMMA UserReadsMarkerInv ==
  ASSUME IInv, UserReadsMarker
  PROVE  IInv'
PROOF
  <1> USE DEF UserUnchanged, NoMishap
  <1> DEFINE e == Head(to_user).of
  <1>1. UserTakes("pull", "FileMarker") /\ UserUnchanged
        /\ UNCHANGED <<todo, current, unsent, saved>>
    BY DEF UserReadsMarker
  <1>2. /\ user = "pull" /\ ~cut /\ to_user # <<>> /\ to_user' \in Seq(Messages)
        /\ Head(to_user).tag = "FileMarker"
        /\ \A m : to_user = <<m>> => m.tag = "FileMarker" /\ to_user' = <<>>
    BY <1>1, UserTakesFacts DEF IInv
  <1>3. ServerHears
    BY <1>2 DEF IInv, GoneIsCut, ServerHears
  <1>4. /\ to_user = <<Data("FileMarker", current)>> /\ to_user' = <<>>
        /\ server = "marker_ack" /\ to_server = <<>> /\ current \in LargeFiles
        /\ Counted(todo \cup {current}) = Included(request) /\ Pulls /\ queued = 0
    BY <1>2, Queues DEF IInv, Data, FinishFiles, Unit
  <1>5. e = current
    BY <1>4, Queues DEF Data
  <1>6. <<FileReceived>> \in Seq(Messages) /\ <<FileReceived, FileReceived>> \in Seq(Messages)
    BY UnitsTyped DEF FileReceived
  <1>7. CutIsSilent' /\ GoneIsCut' /\ SavedAreOwn'
    BY <1>1, <1>2 DEF IInv, CutIsSilent, GoneIsCut, SavedAreOwn
  <1>8. CASE UserSends("pull_raw", <<FileReceived>>) /\ path' = e /\ NoMishap
             /\ UNCHANGED unsaved
    <2>1. to_server' = <<FileReceived>> /\ user' = "pull_raw"
      BY <1>3, <1>4, <1>6, <1>8, UserSendsFacts DEF IInv
    <2>2. TypeOK'
      BY <1>1, <1>2, <1>4, <1>5, <1>6, <1>8, <2>1, PlacesAre DEF IInv, TypeOK
    <2>3. Talk'
      BY <1>1, <1>4, <1>5, <1>8, <2>1 DEF IInv
    <2> QED
      BY <1>7, <2>2, <2>3, Combine
  <1>9. CASE Mishap("save") /\ UserSends("pull", <<FileReceived, FileReceived>>)
             /\ unsaved' = unsaved \cup {e} /\ UNCHANGED path
    <2>1. to_server' = <<FileReceived, FileReceived>> /\ user' = "pull"
      BY <1>3, <1>4, <1>6, <1>9, UserSendsFacts DEF IInv
    <2>2. mishaps' \in 0..MaxMishaps
      BY <1>9, UserAssumption DEF IInv, TypeOK, Mishap
    <2>3. TypeOK'
      BY <1>1, <1>2, <1>4, <1>5, <1>6, <1>9, <2>1, <2>2, PlacesAre DEF IInv, TypeOK, Files
    <2>4. Talk'
      BY <1>1, <1>4, <1>5, <1>9, <2>1 DEF IInv
    <2> QED
      BY <1>7, <2>3, <2>4, Combine
  <1> QED
    BY <1>8, <1>9 DEF UserReadsMarker

\* pull: the next frame is copied into the large file (receive_to_writer in
\* transport.rs).  It is never anything but the bytes of that file.
LEMMA UserSavesLargeFileInv ==
  ASSUME IInv, UserSavesLargeFile
  PROVE  IInv'
PROOF
  <1> USE DEF UserUnchanged, NoMishap
  <1>1. PICK tag \in Tags \ {"part"} : UserTakes("pull_raw", tag)
    BY DEF UserSavesLargeFile
  <1>2. /\ UserUnchanged /\ NoMishap /\ UNCHANGED <<todo, current, path, unsent, unsaved>>
        /\ Store(path, Head(to_user)) /\ UserSends("pull", <<FileReceived>>)
    BY DEF UserSavesLargeFile
  <1>3. /\ user = "pull_raw" /\ ~cut /\ to_user # <<>> /\ to_user' \in Seq(Messages)
        /\ \A m : to_user = <<m>> => m.tag # "part" /\ to_user' = <<>>
    BY <1>1, UserTakesFacts DEF IInv
  <1>4. ServerHears
    BY <1>3 DEF IInv, GoneIsCut, ServerHears
  <1>5. /\ to_user = <<Data("raw", current)>> /\ to_user' = <<>> /\ path = current
        /\ server = "file_ack" /\ to_server = <<>> /\ current \in LargeFiles
        /\ Counted(todo \cup {current}) = Included(request) /\ Pulls /\ queued = 0
    BY <1>3, Queues DEF IInv, Data
  <1>6. Head(to_user).tag = "raw" /\ Head(to_user).of = path
    BY <1>5, Queues DEF Data
  <1>7. SavedAreOwn' /\ DOMAIN saved' = DOMAIN saved \cup {current}
    BY <1>2, <1>5, <1>6, StoreFacts DEF IInv
  <1>8. <<FileReceived>> \in Seq(Messages)
    BY UnitsTyped DEF FileReceived
  <1>9. to_server' = <<FileReceived>> /\ user' = "pull"
    BY <1>2, <1>4, <1>5, <1>8, UserSendsFacts DEF IInv
  <1>10. TypeOK'
    BY <1>2, <1>3, <1>5, <1>7, <1>8, <1>9, PlacesAre DEF IInv, TypeOK, Entries, Files
  <1>11. CutIsSilent' /\ GoneIsCut'
    BY <1>2, <1>3 DEF IInv, CutIsSilent, GoneIsCut
  <1>12. Talk'
    BY <1>2, <1>5, <1>7, <1>9 DEF IInv
  <1> QED
    BY <1>7, <1>10, <1>11, <1>12, Combine

\* pull: a large file that cannot be written is acknowledged all the same, and
\* what is left of it is still on its way (pull.rs).
LEMMA UserDropsLargeFileInv ==
  ASSUME IInv, UserDropsLargeFile
  PROVE  IInv'
PROOF
  <1> USE DEF UserUnchanged
  <1>1. /\ user = "pull_raw" /\ to_user # <<>> /\ to_user' \in {to_user, Tail(to_user)}
        /\ unsaved' = unsaved \cup {path} /\ Mishap("save")
        /\ UserSends("pull", <<FileReceived>>)
        /\ UserUnchanged /\ UNCHANGED <<todo, current, path, unsent, saved>>
    BY DEF UserDropsLargeFile
  <1>2. ~cut /\ ServerHears
    BY <1>1 DEF IInv, CutIsSilent, GoneIsCut, ServerHears
  <1>3. PICK tag \in Bytes : to_user = <<Data(tag, current)>>
    BY <1>1, <1>2 DEF IInv
  <1>4. /\ server = "file_ack" /\ to_server = <<>> /\ current \in LargeFiles /\ path = current
        /\ Counted(todo \cup {current}) = Included(request) /\ Pulls /\ queued = 0
    BY <1>1, <1>2 DEF IInv
  <1>5. Tail(to_user) = <<>> /\ Head(to_user).tag \in Bytes
    BY <1>3, Queues DEF Data
  <1>6. <<FileReceived>> \in Seq(Messages)
    BY UnitsTyped DEF FileReceived
  <1>7. to_server' = <<FileReceived>> /\ user' = "pull"
    BY <1>1, <1>2, <1>4, <1>6, UserSendsFacts DEF IInv
  <1>8. mishaps' \in 0..MaxMishaps
    BY <1>1, UserAssumption DEF IInv, TypeOK, Mishap
  <1>9. TypeOK'
    BY <1>1, <1>4, <1>5, <1>6, <1>7, <1>8, PlacesAre, EmptySeq DEF IInv, TypeOK, Files
  <1>10. SavedAreOwn' /\ CutIsSilent' /\ GoneIsCut'
    BY <1>1, <1>2, <1>7 DEF IInv, SavedAreOwn, CutIsSilent, GoneIsCut
  <1>11. Talk'
    <2>1. CASE to_user' = to_user
      BY <1>1, <1>4, <1>5, <1>7, <2>1 DEF IInv
    <2>2. CASE to_user' = <<>>
      BY <1>1, <1>4, <1>7, <2>2 DEF IInv
    <2> QED
      BY <1>1, <1>5, <2>1, <2>2
  <1> QED
    BY <1>9, <1>10, <1>11, Combine

\* pull: what is left of a large file is read as a message (pull.rs).
LEMMA UserStraysInv ==
  ASSUME IInv, UserStrays
  PROVE  IInv'
PROOF
  <1> USE DEF UserUnchanged, NoMishap, transfer
  <1>1. PICK tag \in Tags, place \in {"pull", "stray"} :
          UserTakes(place, tag) /\ (place = "pull" => tag \in Bytes)
    BY DEF UserStrays
  <1>2. user' = "stray" /\ UserUnchanged /\ NoMishap /\ UNCHANGED <<to_server, transfer>>
    BY DEF UserStrays
  <1>3. /\ user = place /\ ~cut /\ to_user # <<>> /\ to_user' \in Seq(Messages)
        /\ Head(to_user).tag = tag
        /\ \A m : to_user = <<m>> => m.tag = tag
    BY <1>1, UserTakesFacts DEF IInv
  <1>4. Pulls
    BY <1>1, <1>3 DEF IInv, Data
  <1>5. TypeOK'
    BY <1>2, <1>3, PlacesAre DEF IInv, TypeOK
  <1>6. SavedAreOwn' /\ CutIsSilent' /\ GoneIsCut'
    BY <1>2, <1>3 DEF IInv, SavedAreOwn, CutIsSilent, GoneIsCut
  <1>7. Talk'
    BY <1>2, <1>4 DEF IInv
  <1> QED
    BY <1>5, <1>6, <1>7, Combine

\* pull: an error is logged and acknowledged (pull.rs).
LEMMA UserReadsPullErrorInv ==
  ASSUME IInv, UserReadsPullError
  PROVE  IInv'
PROOF
  <1> USE DEF UserReadsPullError, UserUnchanged, NoMishap, transfer
  <1>1. /\ user = "pull" /\ ~cut /\ to_user # <<>> /\ to_user' \in Seq(Messages)
        /\ Head(to_user).tag = "PullFilesError"
        /\ \A m : to_user = <<m>> => m.tag = "PullFilesError" /\ to_user' = <<>>
    BY UserTakesFacts DEF IInv
  <1>2. ServerHears
    BY <1>1 DEF IInv, GoneIsCut, ServerHears
  <1>3. <<FileReceived>> \in Seq(Messages)
    BY UnitsTyped DEF FileReceived
  <1>4. /\ user' = "pull" /\ to_server' \in Seq(Messages)
        /\ to_server = <<>> => to_server' = <<FileReceived>>
    BY <1>2, <1>3, UserSendsFacts DEF IInv
  <1>5. TypeOK'
    BY <1>1, <1>4, PlacesAre DEF IInv, TypeOK
  <1>6. SavedAreOwn' /\ CutIsSilent' /\ GoneIsCut'
    BY <1>1 DEF IInv, SavedAreOwn, CutIsSilent, GoneIsCut
  <1>7. Talk'
    BY <1>1, <1>4 DEF IInv, Data, FinishFiles, Unit
  <1> QED
    BY <1>5, <1>6, <1>7, Combine

\* pull: the end of the files, or a response that does not belong here
\* (pull.rs).
LEMMA UserEndsPullInv ==
  ASSUME IInv, UserEndsPull
  PROVE  IInv'
PROOF
  <1> USE DEF UserUnchanged, NoMishap, transfer
  <1>1. PICK tag \in Responses \ {"SendFile", "FileMarker", "PullFilesError"} :
          UserTakes("pull", tag) /\ user' = IF tag = "11" THEN "done" ELSE "failed"
    BY DEF UserEndsPull
  <1>2. UserUnchanged /\ NoMishap /\ UNCHANGED <<to_server, transfer>>
    BY DEF UserEndsPull
  <1>3. /\ user = "pull" /\ ~cut /\ to_user # <<>> /\ to_user' \in Seq(Messages)
        /\ Head(to_user).tag = tag
        /\ \A m : to_user = <<m>> => m.tag = tag /\ to_user' = <<>>
    BY <1>1, UserTakesFacts DEF IInv
  <1>4. tag # "raw"
    BY <1>1 DEF Responses
  <1>5. TypeOK'
    BY <1>1, <1>2, <1>3, PlacesAre DEF IInv, TypeOK
  <1>6. SavedAreOwn' /\ CutIsSilent' /\ GoneIsCut'
    BY <1>2, <1>3 DEF IInv, SavedAreOwn, CutIsSilent, GoneIsCut
  <1>7. Talk'
    BY <1>1, <1>2, <1>3, <1>4 DEF IInv, Data, FinishFiles, Unit
  <1> QED
    BY <1>5, <1>6, <1>7, Combine

\* The places where the user reads, each with the messages it can decode.
LEMMA UserReadsAre ==
  /\ DOMAIN UserReads \cap (Ended \cup {"start", "next_file"}) = {}
  /\ UserReads["capabilities"] = Responses /\ UserReads["continue"] = Responses
  /\ UserReads["ack"] = Acks /\ UserReads["marker_ack"] = Acks
  /\ UserReads["added"] = Responses
PROOF
  BY DEF UserReads, Ended

\* A command that fails has queued nothing that it should not have, and leaves
\* no message behind that the server still reads (transport.rs).
LEMMA UserFailsInv ==
  ASSUME IInv, UserFails
  PROVE  IInv'
PROOF
  <1> USE DEF UserUnchanged, NoMishap, transfer
  <1>1. /\ user \in DOMAIN UserReads /\ user' = "failed"
        /\ UserUnchanged /\ NoMishap /\ UNCHANGED <<to_server, to_user, transfer>>
    BY DEF UserFails
  <1>2. TypeOK'
    BY <1>1, PlacesAre DEF IInv, TypeOK
  <1>3. SavedAreOwn' /\ CutIsSilent' /\ GoneIsCut'
    BY <1>1 DEF IInv, SavedAreOwn, CutIsSilent, GoneIsCut
  <1>4. CASE to_user = <<>>
    <2>1. cut
      BY <1>4 DEF UserFails, IInv, GoneIsCut, ServerHears
    <2>2. user # "start"
      BY <1>1, UserReadsAre
    <2>3. Talk'
      BY <1>1, <2>1, <2>2 DEF IInv, CutIsSilent
    <2> QED
      BY <1>2, <1>3, <2>3, Combine
  <1>5. CASE to_user # <<>>
    <2>1. \/ Head(to_user).tag \notin UserReads[user]
          \/ user = "capabilities" /\ Head(to_user).tag # "Capabilities"
      BY <1>5 DEF UserFails
    <2>2. ~cut /\ user # "start"
      BY <1>1, <1>5, UserReadsAre DEF IInv, CutIsSilent
    <2>3. Adds => to_server = <<>> /\ server # "queue"
      BY <1>1, <1>5, <2>1, <2>2, UserReadsAre, Queues
      DEF IInv
    <2>4. Talk'
      BY <1>1, <1>5, <2>2, <2>3 DEF IInv
    <2> QED
      BY <1>2, <1>3, <2>4, Combine
  <1> QED
    BY <1>4, <1>5

-----------------------------------------------------------------------------
(* The server                                                              *)

\* The capabilities of the nodes (query_capabilities in user_conn.rs).
LEMMA ServerAnswersCapabilitiesInv ==
  ASSUME IInv, ServerAnswersCapabilities
  PROVE  IInv'
PROOF
  <1> USE DEF ServerAnswersCapabilities, ServerUnchanged, NoMishap, transfer
  <1> DEFINE answer == Data("Capabilities", Nothing)
  <1>1. /\ server = "request" /\ ~cut /\ to_server # <<>> /\ to_server' \in Seq(Messages)
        /\ Head(to_server).tag = "1"
        /\ \A m : to_server = <<m>> => m.tag = "1" /\ to_server' = <<>>
        /\ \A m : to_server = <<m, m>> => m.tag = "1"
    BY ServerTakesFacts DEF IInv
  <1>2. <<answer>> \in Seq(Messages)
    BY MessageTyped DEF Tags, Responses
  <1>3. /\ to_user' \in Seq(Messages) /\ server' = "request"
        /\ user \notin Ended /\ to_user = <<>> => to_user' = <<answer>>
        /\ user \in Ended => to_user' = to_user
    BY <1>1, <1>2, ServerSendsFacts DEF IInv, UserHears
  <1>4. TypeOK'
    BY <1>1, <1>3, PlacesAre DEF IInv, TypeOK
  <1>5. SavedAreOwn' /\ CutIsSilent' /\ GoneIsCut'
    BY <1>1, <1>3 DEF IInv, SavedAreOwn, CutIsSilent, GoneIsCut
  <1>6. Talk'
    BY <1>1, <1>3, LeftTags DEF IInv, NewBatch, NewPull, FileReceived, Data, Unit
  <1> QED
    BY <1>4, <1>5, <1>6, Combine

\* What the job pool answers, or that it does not (query_job_names and
\* cancel_job_by_name in user_conn.rs).
LEMMA ServerAsksPoolInv ==
  ASSUME IInv, NEW tag \in {"2", "KillJob"}, NEW answer \in {"JobNames", "KillJob"},
         NEW failure \in {JobNamesFailed, KillJobFailed}, ServerAsksPool(tag, answer, failure)
  PROVE  IInv'
PROOF
  <1> USE DEF ServerUnchanged, NoMishap, transfer
  <1>1. /\ ServerTakes("request", tag) /\ ServerUnchanged /\ NoMishap
        /\ UNCHANGED <<transfer, queued>>
    BY DEF ServerAsksPool
  <1>2. PICK ms \in {<<Data(answer, Nothing)>>, <<failure>>, <<failure, failure>>} :
          ServerSends("request", "request", ms)
    BY DEF ServerAsksPool
  <1>3. /\ server = "request" /\ ~cut /\ to_server # <<>> /\ to_server' \in Seq(Messages)
        /\ Head(to_server).tag = tag
        /\ \A m : to_server = <<m>> => m.tag = tag /\ to_server' = <<>>
        /\ \A m : to_server = <<m, m>> => m.tag = tag
    BY <1>1, ServerTakesFacts DEF IInv
  <1>4. ms \in Seq(Messages)
    BY MessageTyped, UnitsTyped DEF JobNamesFailed, KillJobFailed, Tags, Responses
  <1>5. /\ to_user' \in Seq(Messages) /\ server' = "request"
        /\ user \notin Ended /\ to_user = <<>> => to_user' = ms
    BY <1>2, <1>3, <1>4, ServerSendsFacts DEF IInv, UserHears
  <1>6. \/ request.command \in {"kill", "status"}
        \/ Adds /\ queued = 0 /\ user = "added" /\ to_user = <<>> /\ to_server' = <<>>
    BY <1>3, Queues, LeftTags
    DEF IInv, QueryCapabilities, NewBatch, NewPull, FileReceived, Data, Unit
  <1>10. ms # <<>> /\ Head(ms).tag \in {"JobNames", "KillJob", "4", "6"}
    BY Queues DEF Data, JobNamesFailed, KillJobFailed, Unit
  <1>7. TypeOK'
    BY <1>1, <1>3, <1>5, PlacesAre DEF IInv, TypeOK
  <1>8. SavedAreOwn' /\ CutIsSilent' /\ GoneIsCut'
    BY <1>1, <1>3, <1>5 DEF IInv, SavedAreOwn, CutIsSilent, GoneIsCut
  <1>9. Talk'
    BY <1>1, <1>3, <1>5, <1>6, <1>10 DEF IInv
  <1> QED
    BY <1>7, <1>8, <1>9, Combine

\* The batch is accepted before its files come (add_job_set in user_conn.rs).
LEMMA ServerAcceptsBatchInv ==
  ASSUME IInv, ServerAcceptsBatch
  PROVE  IInv'
PROOF
  <1> USE DEF ServerUnchanged, NoMishap, transfer
  <1>1. PICK place \in {"files", "request"} :
          ServerSends(place, "request", <<Continue>>) /\ (NoMishap \/ Mishap("save"))
    BY DEF ServerAcceptsBatch
  <1>2. ServerTakes("request", "AddJobSet") /\ ServerUnchanged /\ UNCHANGED <<transfer, queued>>
    BY DEF ServerAcceptsBatch
  <1>3. /\ server = "request" /\ ~cut /\ to_server # <<>> /\ to_server' \in Seq(Messages)
        /\ Head(to_server).tag = "AddJobSet"
        /\ \A m : to_server = <<m>> => m.tag = "AddJobSet" /\ to_server' = <<>>
        /\ \A m : to_server = <<m, m>> => m.tag = "AddJobSet"
    BY <1>2, ServerTakesFacts DEF IInv
  <1>4. <<Continue>> \in Seq(Messages) /\ mishaps' \in 0..MaxMishaps
    BY <1>1, UnitsTyped, UserAssumption DEF Continue, IInv, TypeOK, Mishap
  <1>5. /\ to_user' \in Seq(Messages) /\ server' \in {"files", "request"}
        /\ user \notin Ended /\ to_user = <<>> => to_user' = <<Continue>>
    BY <1>1, <1>3, <1>4, ServerSendsFacts DEF IInv, UserHears
  <1>6. /\ Adds /\ user \in {"continue"} \cup Ended /\ queued = 0
        /\ user = "continue" => to_user = <<>> /\ to_server' = <<>> /\ todo = Files /\ Untouched
    BY <1>3, Queues, LeftTags
    DEF IInv, QueryCapabilities, QueryJobNames, Kill, NewPull, FileReceived, Data, Unit
  <1>7. TypeOK'
    BY <1>2, <1>3, <1>4, <1>5, PlacesAre DEF IInv, TypeOK
  <1>8. SavedAreOwn' /\ CutIsSilent' /\ GoneIsCut'
    BY <1>2, <1>3, <1>5 DEF IInv, SavedAreOwn, CutIsSilent, GoneIsCut
  <1>9. Talk'
    BY <1>2, <1>3, <1>5, <1>6 DEF IInv
  <1> QED
    BY <1>7, <1>8, <1>9, Combine

\* A batch that is not there, a dry run, or the entries to send (pull_files in
\* user_conn.rs).
LEMMA ServerStartsPullInv ==
  ASSUME IInv, ServerStartsPull
  PROVE  IInv'
PROOF
  <1> USE DEF ServerUnchanged, NoMishap
  <1>1. /\ ServerTakes("request", "PullFilesInitialize") /\ ServerUnchanged /\ NoMishap
        /\ UNCHANGED <<current, path, unsent, unsaved, saved, queued>>
    BY DEF ServerStartsPull
  <1>2. /\ server = "request" /\ ~cut /\ to_server # <<>> /\ to_server' \in Seq(Messages)
        /\ Head(to_server).tag = "PullFilesInitialize"
        /\ \A m : to_server = <<m>> => m.tag = "PullFilesInitialize" /\ to_server' = <<>>
        /\ \A m : to_server = <<m, m>> => m.tag = "PullFilesInitialize" /\ to_server' = <<m>>
    BY <1>1, ServerTakesFacts DEF IInv
  <1>3. request.command = "pull"
    BY <1>2, Queues, LeftTags DEF IInv, QueryCapabilities, QueryJobNames, Kill, NewBatch, FileReceived,
       Data, Unit
  <1>4. CASE request.known /\ ~request.dry
    <2>1. server' = "walk" /\ todo' = Included(request) /\ UNCHANGED to_user
      BY <1>4 DEF ServerStartsPull
    <2>2. TypeOK'
      BY <1>1, <1>2, <2>1, PlacesAre DEF IInv, TypeOK, Included, Entries
    <2>3. SavedAreOwn' /\ CutIsSilent' /\ GoneIsCut'
      BY <1>1, <1>2, <2>1 DEF IInv, SavedAreOwn, CutIsSilent, GoneIsCut
    <2>4. Talk'
      BY <1>1, <1>2, <1>3, <1>4, <2>1 DEF IInv, FileReceived, Unit
    <2> QED
      BY <2>2, <2>3, <2>4, Combine
  <1>5. CASE ~(request.known /\ ~request.dry)
    <2> DEFINE answer ==
          Data(IF request.known THEN "PullFilesDryResponse" ELSE "PullFilesError", Nothing)
    <2>1. ServerSends("request", "request", <<answer>>) /\ UNCHANGED todo
      BY <1>5 DEF ServerStartsPull
    <2>2. <<answer>> \in Seq(Messages)
      BY MessageTyped DEF Tags, Responses
    <2> HIDE DEF answer
    <2>3. /\ to_user' \in Seq(Messages) /\ server' = "request"
          /\ user \notin Ended /\ to_user = <<>> => to_user' = <<answer>>
      BY <1>2, <2>1, <2>2, ServerSendsFacts DEF IInv, UserHears
    <2>4. ~request.dry => answer = Data("PullFilesError", Nothing)
      BY <1>5 DEF answer, IInv, TypeOK, RequestTypes
    <2>5. TypeOK'
      BY <1>1, <1>2, <2>1, <2>3, PlacesAre DEF IInv, TypeOK
    <2>6. SavedAreOwn' /\ CutIsSilent' /\ GoneIsCut'
      BY <1>1, <1>2, <2>3 DEF IInv, SavedAreOwn, CutIsSilent, GoneIsCut
    <2>7. Talk'
      BY <1>1, <1>2, <1>3, <1>5, <2>1, <2>3, <2>4 DEF IInv, FileReceived, Unit
    <2> QED
      BY <2>5, <2>6, <2>7, Combine
  <1> QED
    BY <1>4, <1>5

\* The acknowledgement of an error that needs none (single_user_request).
LEMMA ServerIgnoresInv ==
  ASSUME IInv, ServerIgnores
  PROVE  IInv'
PROOF
  <1> USE DEF ServerIgnores, ServerUnchanged, NoMishap, transfer
  <1>1. /\ server = "request" /\ ~cut /\ to_server # <<>> /\ to_server' \in Seq(Messages)
        /\ Head(to_server).tag = "5"
        /\ \A m : to_server = <<m>> => m.tag = "5" /\ to_server' = <<>>
        /\ \A m : to_server = <<m, m>> => m.tag = "5" /\ to_server' = <<m>>
    BY ServerTakesFacts DEF IInv
  <1>2. TypeOK'
    BY <1>1 DEF IInv, TypeOK
  <1>3. SavedAreOwn' /\ CutIsSilent' /\ GoneIsCut'
    BY <1>1 DEF IInv, SavedAreOwn, CutIsSilent, GoneIsCut
  <1>4. Talk'
    BY <1>1, LeftTags DEF IInv, NewPull, NewBatch, QueryCapabilities, FileReceived, Data, Unit
  <1> QED
    BY <1>2, <1>3, <1>4, Combine

\* A file of the batch is saved, or known to have failed (receiver.rs).
LEMMA ServerSavesFileInv ==
  ASSUME IInv, ServerSavesFile
  PROVE  IInv'
PROOF
  <1> USE DEF ServerUnchanged, NoMishap
  <1> DEFINE f == Head(to_server).of
  <1>1. /\ ServerTakes("files", "SaveFile") /\ ServerSends("files", "request", <<ReceivedFile>>)
        /\ ServerUnchanged /\ UNCHANGED <<todo, current, path, unsent, queued>>
    BY DEF ServerSavesFile
  <1>2. /\ server = "files" /\ ~cut /\ to_server # <<>> /\ to_server' \in Seq(Messages)
        /\ Head(to_server).tag = "SaveFile"
        /\ \A m : to_server = <<m>> => m.tag = "SaveFile" /\ to_server' = <<>>
    BY <1>1, ServerTakesFacts DEF IInv
  <1>3. /\ to_server = <<Data("SaveFile", current)>> /\ to_server' = <<>>
        /\ user = "ack" /\ to_user = <<>> /\ current \in SmallFiles
        /\ Counted(todo \cup {current}) = Files /\ Adds /\ queued = 0
    BY <1>2, Queues DEF IInv, Data, EndOfFiles, Unit
  <1>4. f = current
    BY <1>3, Queues DEF Data
  <1>5. <<ReceivedFile>> \in Seq(Messages)
    BY UnitsTyped DEF ReceivedFile
  <1>6. to_user' = <<ReceivedFile>> /\ server' = "files"
    BY <1>1, <1>2, <1>3, <1>5, ServerSendsFacts DEF IInv, UserHears
  <1>7. CutIsSilent' /\ GoneIsCut'
    BY <1>1, <1>2, <1>6 DEF IInv, CutIsSilent, GoneIsCut
  <1>8. CASE Store(f, Head(to_server)) /\ NoMishap /\ UNCHANGED unsaved
    <2>1. SavedAreOwn' /\ DOMAIN saved' = DOMAIN saved \cup {current}
      BY <1>2, <1>4, <1>8, StoreFacts DEF IInv
    <2>2. TypeOK'
      BY <1>1, <1>2, <1>3, <1>5, <1>6, <1>8, <2>1, PlacesAre DEF IInv, TypeOK, Entries, Files
    <2>3. Talk'
      BY <1>1, <1>3, <1>6, <1>8, <2>1 DEF IInv
    <2> QED
      BY <1>7, <2>1, <2>2, <2>3, Combine
  <1>9. CASE Mishap("save") /\ unsaved' = unsaved \cup {f} /\ UNCHANGED saved
    <2>1. mishaps' \in 0..MaxMishaps
      BY <1>9, UserAssumption DEF IInv, TypeOK, Mishap
    <2>2. TypeOK'
      BY <1>1, <1>2, <1>3, <1>4, <1>5, <1>6, <1>9, <2>1, PlacesAre DEF IInv, TypeOK, Files
    <2>3. SavedAreOwn'
      BY <1>9 DEF IInv, SavedAreOwn
    <2>4. Talk'
      BY <1>1, <1>3, <1>4, <1>6, <1>9 DEF IInv
    <2> QED
      BY <1>7, <2>2, <2>3, <2>4, Combine
  <1> QED
    BY <1>8, <1>9 DEF ServerSavesFile

\* A large file is awaited, or refused (receiver.rs).
LEMMA ServerReadsMarkerInv ==
  ASSUME IInv, ServerReadsMarker
  PROVE  IInv'
PROOF
  <1> USE DEF ServerUnchanged, NoMishap
  <1> DEFINE f == Head(to_server).of
  <1>1. /\ ServerTakes("files", "LargeFileMarker") /\ ServerUnchanged
        /\ UNCHANGED <<todo, current, unsent, saved, queued>>
    BY DEF ServerReadsMarker
  <1>2. /\ server = "files" /\ ~cut /\ to_server # <<>> /\ to_server' \in Seq(Messages)
        /\ Head(to_server).tag = "LargeFileMarker"
        /\ \A m : to_server = <<m>> => m.tag = "LargeFileMarker" /\ to_server' = <<>>
    BY <1>1, ServerTakesFacts DEF IInv
  <1>3. /\ to_server = <<Data("LargeFileMarker", current)>> /\ to_server' = <<>>
        /\ user = "marker_ack" /\ to_user = <<>> /\ current \in LargeFiles
        /\ Counted(todo \cup {current}) = Files /\ Adds /\ queued = 0
    BY <1>2, Queues DEF IInv, Data, EndOfFiles, Unit
  <1>4. f = current
    BY <1>3, Queues DEF Data
  <1>5. <<AwaitingLargeFile>> \in Seq(Messages) /\ <<DontSendLargeFile>> \in Seq(Messages)
    BY UnitsTyped DEF AwaitingLargeFile, DontSendLargeFile
  <1>6. server' \in {"raw", "files"} => CutIsSilent' /\ GoneIsCut' /\ SavedAreOwn'
    BY <1>1, <1>2 DEF IInv, CutIsSilent, GoneIsCut, SavedAreOwn
  <1>7. CASE path' = f /\ NoMishap /\ UNCHANGED unsaved
             /\ ServerSends("raw", "request", <<AwaitingLargeFile>>)
    <2>1. to_user' = <<AwaitingLargeFile>> /\ server' = "raw"
      BY <1>2, <1>3, <1>5, <1>7, ServerSendsFacts DEF IInv, UserHears
    <2>2. TypeOK'
      BY <1>1, <1>2, <1>3, <1>4, <1>5, <1>7, <2>1, PlacesAre DEF IInv, TypeOK
    <2>3. Talk'
      BY <1>1, <1>3, <1>4, <1>7, <2>1 DEF IInv
    <2> QED
      BY <1>6, <2>1, <2>2, <2>3, Combine
  <1>8. CASE Mishap("save") /\ unsaved' = unsaved \cup {f} /\ UNCHANGED path
             /\ ServerSends("files", "request", <<DontSendLargeFile>>)
    <2>1. to_user' = <<DontSendLargeFile>> /\ server' = "files"
      BY <1>2, <1>3, <1>5, <1>8, ServerSendsFacts DEF IInv, UserHears
    <2>2. mishaps' \in 0..MaxMishaps
      BY <1>8, UserAssumption DEF IInv, TypeOK, Mishap
    <2>3. TypeOK'
      BY <1>1, <1>2, <1>3, <1>4, <1>5, <1>8, <2>1, <2>2, PlacesAre DEF IInv, TypeOK, Files
    <2>4. Talk'
      BY <1>1, <1>3, <1>4, <1>8, <2>1 DEF IInv
    <2> QED
      BY <1>6, <2>1, <2>3, <2>4, Combine
  <1> QED
    BY <1>7, <1>8 DEF ServerReadsMarker

\* The next frame is copied into the large file: it is the bytes of that file
\* (receive_to_writer in transport.rs).
LEMMA ServerSavesLargeFileInv ==
  ASSUME IInv, ServerSavesLargeFile
  PROVE  IInv'
PROOF
  <1> USE DEF ServerUnchanged, NoMishap
  <1>1. PICK tag \in Tags \ {"part"} : ServerTakes("raw", tag)
    BY DEF ServerSavesLargeFile
  <1>2. /\ ServerUnchanged /\ NoMishap
        /\ UNCHANGED <<todo, current, path, unsent, unsaved, queued>>
        /\ Store(path, Head(to_server)) /\ ServerSends("files", "request", <<ReceivedFile>>)
    BY DEF ServerSavesLargeFile
  <1>3. /\ server = "raw" /\ ~cut /\ to_server # <<>> /\ to_server' \in Seq(Messages)
        /\ \A m : to_server = <<m>> => m.tag # "part" /\ to_server' = <<>>
    BY <1>1, ServerTakesFacts DEF IInv
  <1>4. /\ to_server = <<Data("raw", current)>> /\ to_server' = <<>> /\ path = current
        /\ user = "ack" /\ to_user = <<>> /\ current \in LargeFiles
        /\ Counted(todo \cup {current}) = Files /\ Adds /\ queued = 0
    BY <1>3, Queues DEF IInv, Data
  <1>5. Head(to_server).tag = "raw" /\ Head(to_server).of = path
    BY <1>4, Queues DEF Data
  <1>6. SavedAreOwn' /\ DOMAIN saved' = DOMAIN saved \cup {current}
    BY <1>2, <1>4, <1>5, StoreFacts DEF IInv
  <1>7. <<ReceivedFile>> \in Seq(Messages)
    BY UnitsTyped DEF ReceivedFile
  <1>8. to_user' = <<ReceivedFile>> /\ server' = "files"
    BY <1>2, <1>3, <1>4, <1>7, ServerSendsFacts DEF IInv, UserHears
  <1>9. TypeOK'
    BY <1>2, <1>3, <1>4, <1>6, <1>7, <1>8, PlacesAre DEF IInv, TypeOK, Entries, Files
  <1>10. CutIsSilent' /\ GoneIsCut'
    BY <1>2, <1>3, <1>8 DEF IInv, CutIsSilent, GoneIsCut
  <1>11. Talk'
    BY <1>2, <1>4, <1>6, <1>8 DEF IInv
  <1> QED
    BY <1>6, <1>9, <1>10, <1>11, Combine

\* A task that ends leaves a connection that is silent.
LEMMA ServerLeavesInv ==
  ASSUME IInv, ServerLeaves, user # "done", mishaps' \in 0..MaxMishaps,
         unsaved' \subseteq Files, unsaved \subseteq unsaved',
         server # "queue", Adds, queued = 0,
         UNCHANGED <<request, user, pool, todo, current, path, unsent, saved, queued>>
  PROVE  IInv'
PROOF
  <1>1. TypeOK'
    BY PlacesAre, EmptySeq DEF IInv, TypeOK, ServerLeaves
  <1>2. SavedAreOwn' /\ CutIsSilent' /\ GoneIsCut'
    BY DEF IInv, SavedAreOwn, CutIsSilent, GoneIsCut, ServerLeaves
  <1>3. Talk'
    BY DEF IInv, ServerLeaves
  <1> QED
    BY <1>1, <1>2, <1>3, Combine

\* A large file that cannot be written ends the transfer, and the user is told
\* nothing (receiver.rs, add_job_set in user_conn.rs).
LEMMA ServerDropsLargeFileInv ==
  ASSUME IInv, ServerDropsLargeFile
  PROVE  IInv'
PROOF
  <1>1. /\ server = "raw" /\ to_server # <<>> /\ unsaved' = unsaved \cup {path}
        /\ Mishap("save")
        /\ UNCHANGED <<request, user, pool, todo, current, path, unsent, saved, queued>>
    BY DEF ServerDropsLargeFile
  <1>2. ~cut
    BY <1>1 DEF IInv, CutIsSilent
  <1>3. PICK tag \in Bytes : to_server = <<Data(tag, current)>>
    BY <1>1, <1>2 DEF IInv
  <1>4. /\ user = "ack" /\ to_user = <<>> /\ path \in LargeFiles /\ Adds /\ queued = 0
    BY <1>1, <1>2 DEF IInv
  <1>5. mishaps' \in 0..MaxMishaps /\ unsaved' \subseteq Files
    BY <1>1, <1>4, UserAssumption DEF IInv, TypeOK, Mishap, Files
  <1>6. CASE ServerLeaves
    BY <1>1, <1>4, <1>5, <1>6, ServerLeavesInv
  <1>7. CASE /\ server' = "request" /\ to_server' \in {to_server, Tail(to_server)}
             /\ UNCHANGED <<to_user, cut>>
    <2>1. to_server' \in {<<Data(tag, current)>>, <<>>} /\ to_server' \in Seq(Messages)
      BY <1>3, <1>7, Queues, EmptySeq DEF IInv, TypeOK
    <2>2. TypeOK'
      BY <1>1, <1>5, <1>7, <2>1, PlacesAre DEF IInv, TypeOK
    <2>3. SavedAreOwn' /\ CutIsSilent' /\ GoneIsCut'
      BY <1>1, <1>2, <1>7 DEF IInv, SavedAreOwn, CutIsSilent, GoneIsCut
    <2>4. Talk'
      BY <1>1, <1>4, <1>7, <2>1 DEF IInv
    <2> QED
      BY <2>2, <2>3, <2>4, Combine
  <1> QED
    BY <1>6, <1>7 DEF ServerDropsLargeFile

\* Bytes of a large file in the main loop (single_user_request).
LEMMA ServerStraysInv ==
  ASSUME IInv, ServerStrays
  PROVE  IInv'
PROOF
  <1> USE DEF ServerUnchanged, NoMishap, transfer
  <1>1. PICK tag \in Bytes : ServerTakes("request", tag)
    BY DEF ServerStrays
  <1>2. /\ server' \in {"request", "stray"} /\ ServerUnchanged /\ NoMishap
        /\ UNCHANGED <<to_user, transfer, queued>>
    BY DEF ServerStrays
  <1>3. /\ server = "request" /\ ~cut /\ to_server # <<>> /\ to_server' \in Seq(Messages)
        /\ Head(to_server).tag = tag
        /\ \A m : to_server = <<m>> => m.tag = tag /\ to_server' = <<>>
        /\ \A m : to_server = <<m, m>> => m.tag = tag
    BY <1>1, ServerTakesFacts DEF IInv, Tags
  <1>4. AddLeft /\ Adds /\ queued = 0
    BY <1>3, Queues
    DEF IInv, QueryCapabilities, QueryJobNames, NewBatch, NewPull, Kill, FileReceived, Data, Unit
  <1>5. user = "ack" /\ to_user = <<>> /\ to_server' = <<>>
    BY <1>3, <1>4, LeftTags
  <1>6. TypeOK'
    BY <1>2, <1>3, PlacesAre DEF IInv, TypeOK
  <1>7. SavedAreOwn' /\ CutIsSilent' /\ GoneIsCut'
    BY <1>2, <1>3 DEF IInv, SavedAreOwn, CutIsSilent, GoneIsCut
  <1>8. Talk'
    BY <1>2, <1>4, <1>5 DEF IInv
  <1> QED
    BY <1>6, <1>7, <1>8, Combine

\* What the main loop cannot decode ends the task (single_user_request).
LEMMA ServerMisreadsInv ==
  ASSUME IInv, ServerMisreads
  PROVE  IInv'
PROOF
  <1>1. /\ server = "request" /\ to_server # <<>> /\ Head(to_server).tag \notin Requests
        /\ ServerLeaves /\ NoMishap /\ UNCHANGED <<request, user, pool, transfer, queued>>
    BY DEF ServerMisreads
  <1>2. ~cut
    BY <1>1 DEF IInv, CutIsSilent
  <1>3. AddLeft /\ Adds /\ queued = 0
    BY <1>1, <1>2, Queues
    DEF IInv, QueryCapabilities, QueryJobNames, NewBatch, NewPull, Kill, FileReceived, Data, Unit,
        Requests
  <1>4. user # "done"
    BY <1>1, <1>3, LeftTags
  <1>5. mishaps' \in 0..MaxMishaps /\ unsaved' \subseteq Files /\ unsaved' = unsaved
    BY <1>1 DEF IInv, TypeOK, NoMishap, transfer
  <1> QED
    BY <1>1, <1>3, <1>4, <1>5, ServerLeavesInv DEF transfer

\* The end of the files is only read when none is missing (receiver.rs).
LEMMA ServerFinishesFilesInv ==
  ASSUME IInv, ServerFinishesFiles
  PROVE  IInv'
PROOF
  <1> USE DEF ServerFinishesFiles, ServerUnchanged, NoMishap, transfer
  <1>1. /\ server = "files" /\ ~cut /\ to_server # <<>> /\ to_server' \in Seq(Messages)
        /\ \A m : to_server = <<m>> => m.tag = "2" /\ to_server' = <<>>
    BY ServerTakesFacts DEF IInv
  <1>2. /\ user = "added" /\ to_server' = <<>> /\ to_user = <<>>
        /\ Counted({}) = Files /\ Adds /\ queued = 0
    BY <1>1 DEF IInv, Data
  <1>3. TypeOK'
    BY <1>1, PlacesAre DEF IInv, TypeOK
  <1>4. SavedAreOwn' /\ CutIsSilent' /\ GoneIsCut'
    BY <1>1 DEF IInv, SavedAreOwn, CutIsSilent, GoneIsCut
  <1>5. Talk'
    BY <1>2 DEF IInv
  <1> QED
    BY <1>3, <1>4, <1>5, Combine

\* The batch is queued, or the job pool is gone (add_job_set in
\* user_conn.rs).
LEMMA ServerQueuesBatchInv ==
  ASSUME IInv, ServerQueuesBatch
  PROVE  IInv'
PROOF
  <1> USE DEF ServerUnchanged, NoMishap, transfer
  <1> DEFINE m == IF pool THEN JobSetAdded ELSE JobSetAddedFailed
  <1>1. /\ server = "queue" /\ queued' = IF pool THEN queued + 1 ELSE queued
        /\ ServerSends("request", "request", <<m>>)
        /\ ServerUnchanged /\ NoMishap /\ UNCHANGED <<to_server, transfer>>
    BY DEF ServerQueuesBatch
  <1>2. <<m>> \in Seq(Messages)
    BY UnitsTyped DEF JobSetAdded, JobSetAddedFailed
  <1> HIDE DEF m
  <1>3. /\ to_user' \in Seq(Messages) /\ server' = "request"
        /\ ~cut /\ user \notin Ended /\ to_user = <<>> => to_user' = <<m>>
        /\ cut => to_user' = to_user
    BY <1>1, <1>2, ServerSendsFacts DEF IInv, UserHears
  <1>4. Adds /\ queued = 0 /\ Counted({}) = Files /\ user \in {"added"} \cup Ended
    BY <1>1 DEF IInv
  <1>5. \/ queued' = 1 /\ m = JobSetAdded
        \/ queued' = 0 /\ m = JobSetAddedFailed
    BY <1>1, <1>4 DEF m
  <1>6. TypeOK'
    BY <1>1, <1>3, <1>5, PlacesAre DEF IInv, TypeOK
  <1>7. SavedAreOwn' /\ CutIsSilent' /\ GoneIsCut'
    BY <1>1, <1>3 DEF IInv, SavedAreOwn, CutIsSilent, GoneIsCut
  <1>8. Talk'
    BY <1>1, <1>3, <1>4, <1>5 DEF IInv
  <1> QED
    BY <1>6, <1>7, <1>8, Combine

\* pull: the next entry goes out, or the error that stands for it
\* (pull_files in user_conn.rs).
LEMMA ServerSendsEntryInv ==
  ASSUME IInv, NEW e \in Entries, ServerSendsEntry(e)
  PROVE  IInv'
PROOF
  <1> USE DEF ServerUnchanged, NoMishap
  <1>1. /\ server = "walk" /\ e \in todo /\ todo' = todo \ {e} /\ current' = e
        /\ ServerUnchanged /\ UNCHANGED <<to_server, path, unsaved, saved, queued>>
    BY DEF ServerSendsEntry
  <1>2. PICK place \in {"file_ack", "marker_ack"},
             tag \in {"SendFile", "FileMarker", "PullFilesError"} :
          /\ ServerSends(place, "file_ack", <<Data(tag, e)>>)
          /\ \/ /\ e \notin LargeFiles /\ place = "file_ack" /\ tag = "SendFile"
                /\ NoMishap /\ UNCHANGED unsent
             \/ /\ e \in LargeFiles /\ place = "marker_ack" /\ tag = "FileMarker"
                /\ NoMishap /\ UNCHANGED unsent
             \/ /\ e \in Files /\ place = "file_ack" /\ tag = "PullFilesError"
                /\ Mishap("read") /\ unsent' = unsent \cup {e}
    BY DEF ServerSendsEntry
  <1>3. <<Data(tag, e)>> \in Seq(Messages) /\ mishaps' \in 0..MaxMishaps
    BY <1>2, MessageTyped, UserAssumption DEF IInv, TypeOK, Mishap, Tags, Responses
  <1>4. /\ to_user' \in Seq(Messages) /\ server' \in {place, "file_ack"}
        /\ ~cut /\ user \notin Ended => server' = place
        /\ ~cut /\ user \notin Ended /\ to_user = <<>> => to_user' = <<Data(tag, e)>>
        /\ cut => to_user' = to_user
        /\ to_user # <<>> => to_user' # <<>> /\ Head(to_user') = Head(to_user)
    BY <1>2, <1>3, ServerSendsFacts DEF IInv, UserHears
  <1>5. TypeOK'
    BY <1>1, <1>2, <1>3, <1>4, PlacesAre DEF IInv, TypeOK
  <1>6. SavedAreOwn' /\ CutIsSilent' /\ GoneIsCut'
    BY <1>1, <1>4 DEF IInv, SavedAreOwn, CutIsSilent, GoneIsCut
  <1>7. Counted(todo)' \cup {e} = Counted(todo) \cup {e}
    BY <1>1, <1>2
  <1>8. Talk'
    BY <1>1, <1>2, <1>4, <1>7 DEF IInv
  <1> QED
    BY <1>5, <1>6, <1>8, Combine

\* pull: the bytes of a large file follow any request that comes
\* (send_large_file in user_conn.rs).
LEMMA ServerSendsLargeFileInv ==
  ASSUME IInv, ServerSendsLargeFile
  PROVE  IInv'
PROOF
  <1> USE DEF ServerUnchanged, NoMishap
  <1>1. PICK tag \in Requests : ServerTakes("marker_ack", tag)
    BY DEF ServerSendsLargeFile
  <1>2. ServerUnchanged /\ UNCHANGED <<todo, current, path, unsaved, saved, queued>>
    BY DEF ServerSendsLargeFile
  <1>3. /\ server = "marker_ack" /\ ~cut /\ to_server # <<>> /\ to_server' \in Seq(Messages)
        /\ \A m : to_server = <<m>> => to_server' = <<>>
        /\ \A m : to_server = <<m, m>> => to_server' = <<m>>
    BY <1>1, ServerTakesFacts DEF IInv
  <1>4. Pulls /\ to_server' \in {<<>>, <<FileReceived>>} /\ current \in LargeFiles
    BY <1>3 DEF IInv
  <1>5. <<Data("raw", current)>> \in Seq(Messages) /\ <<Data("raw", current)>> # <<>>
        /\ Head(<<Data("raw", current)>>).tag = "raw"
    BY MessageTyped, Queues DEF IInv, TypeOK, Tags, Data
  <1>6. CASE ServerSends("file_ack", "file_ack", <<Data("raw", current)>>)
             /\ NoMishap /\ UNCHANGED unsent
    <2>1. /\ to_user' \in Seq(Messages) /\ server' = "file_ack"
          /\ user \notin Ended /\ to_user = <<>> => to_user' = <<Data("raw", current)>>
          /\ to_user # <<>> => to_user' # <<>> /\ Head(to_user') = Head(to_user)
      BY <1>3, <1>5, <1>6, ServerSendsFacts DEF IInv, UserHears
    <2>2. TypeOK'
      BY <1>2, <1>3, <1>6, <2>1, PlacesAre DEF IInv, TypeOK
    <2>3. SavedAreOwn' /\ CutIsSilent' /\ GoneIsCut'
      BY <1>2, <1>3, <2>1 DEF IInv, SavedAreOwn, CutIsSilent, GoneIsCut
    <2>4. Talk'
      BY <1>2, <1>3, <1>4, <1>5, <1>6, <2>1 DEF IInv
    <2> QED
      BY <2>2, <2>3, <2>4, Combine
  <1>7. CASE Mishap("open") /\ server' = "file_ack" /\ unsent' = unsent \cup {current}
             /\ UNCHANGED to_user
    <2>1. mishaps' \in 0..MaxMishaps
      BY <1>7, UserAssumption DEF IInv, TypeOK, Mishap
    <2>2. TypeOK'
      BY <1>2, <1>3, <1>4, <1>7, <2>1, PlacesAre DEF IInv, TypeOK, Files
    <2>3. SavedAreOwn' /\ CutIsSilent' /\ GoneIsCut'
      BY <1>2, <1>3, <1>7 DEF IInv, SavedAreOwn, CutIsSilent, GoneIsCut
    <2>4. Talk'
      BY <1>2, <1>3, <1>4, <1>7 DEF IInv
    <2> QED
      BY <2>2, <2>3, <2>4, Combine
  <1>8. CASE ServerSends("file_ack", "file_ack", <<Data("part", current)>>)
             /\ Mishap("read") /\ unsent' = unsent \cup {current}
    <2>1. mishaps' \in 0..MaxMishaps
      BY <1>8, UserAssumption DEF IInv, TypeOK, Mishap
    <2>2. <<Data("part", current)>> \in Seq(Messages) /\ <<Data("part", current)>> # <<>>
          /\ Head(<<Data("part", current)>>).tag = "part"
      BY MessageTyped, Queues DEF IInv, TypeOK, Tags, Data
    <2>3. /\ to_user' \in Seq(Messages) /\ server' = "file_ack"
          /\ user \notin Ended /\ to_user = <<>> => to_user' = <<Data("part", current)>>
          /\ to_user # <<>> => to_user' # <<>> /\ Head(to_user') = Head(to_user)
      BY <1>3, <1>8, <2>2, ServerSendsFacts DEF IInv, UserHears
    <2>4. TypeOK'
      BY <1>2, <1>3, <1>4, <1>8, <2>1, <2>3, PlacesAre DEF IInv, TypeOK, Files
    <2>5. SavedAreOwn' /\ CutIsSilent' /\ GoneIsCut'
      BY <1>2, <1>3, <2>3 DEF IInv, SavedAreOwn, CutIsSilent, GoneIsCut
    <2>6. Talk'
      BY <1>2, <1>3, <1>4, <1>8, <2>2, <2>3 DEF IInv
    <2> QED
      BY <2>4, <2>5, <2>6, Combine
  <1> QED
    BY <1>6, <1>7, <1>8 DEF ServerSendsLargeFile

\* pull: the answer to an entry (pull_files in user_conn.rs).
LEMMA ServerReadsFileAckInv ==
  ASSUME IInv, ServerReadsFileAck
  PROVE  IInv'
PROOF
  <1> USE DEF ServerUnchanged, NoMishap, transfer
  <1>1. PICK tag \in Requests : ServerTakes("file_ack", tag)
    BY DEF ServerReadsFileAck
  <1>2. /\ server' = "walk" /\ ServerUnchanged /\ NoMishap
        /\ UNCHANGED <<to_user, transfer, queued>>
    BY DEF ServerReadsFileAck
  <1>3. /\ server = "file_ack" /\ ~cut /\ to_server # <<>> /\ to_server' \in Seq(Messages)
        /\ \A m : to_server = <<m>> => to_server' = <<>>
        /\ \A m : to_server = <<m, m>> => to_server' = <<m>>
    BY <1>1, ServerTakesFacts DEF IInv
  <1>4. TypeOK'
    BY <1>2, <1>3, PlacesAre DEF IInv, TypeOK
  <1>5. SavedAreOwn' /\ CutIsSilent' /\ GoneIsCut'
    BY <1>2, <1>3 DEF IInv, SavedAreOwn, CutIsSilent, GoneIsCut
  <1>6. Talk'
    BY <1>2, <1>3 DEF IInv
  <1> QED
    BY <1>4, <1>5, <1>6, Combine

\* pull: every entry was tried (pull_files in user_conn.rs).
LEMMA ServerEndsPullInv ==
  ASSUME IInv, ServerEndsPull
  PROVE  IInv'
PROOF
  <1> USE DEF ServerEndsPull, ServerUnchanged, NoMishap, transfer
  <1>1. server = "walk" /\ todo = {}
    OBVIOUS
  <1>2. <<FinishFiles>> \in Seq(Messages)
    BY UnitsTyped DEF FinishFiles
  <1>3. /\ to_user' \in Seq(Messages) /\ server' = "request"
        /\ ~cut /\ user \notin Ended /\ to_user = <<>> => to_user' = <<FinishFiles>>
        /\ cut => to_user' = to_user
        /\ to_user # <<>> => to_user' # <<>> /\ Head(to_user') = Head(to_user)
    BY <1>2, ServerSendsFacts DEF IInv, UserHears
  <1>4. TypeOK'
    BY <1>3, PlacesAre DEF IInv, TypeOK
  <1>5. SavedAreOwn' /\ CutIsSilent' /\ GoneIsCut'
    BY <1>1, <1>3 DEF IInv, SavedAreOwn, CutIsSilent, GoneIsCut
  <1>6. Talk'
    BY <1>1, <1>3 DEF IInv
  <1> QED
    BY <1>4, <1>5, <1>6, Combine

\* The user is gone: the transfer breaks off, and a batch whose files did not
\* arrive is not queued (user_conn.rs, receiver.rs).
LEMMA ServerFindsClosedInv ==
  ASSUME IInv, ServerFindsClosed
  PROVE  IInv'
PROOF
  <1> USE DEF ServerFindsClosed, ServerUnchanged, NoMishap
  <1>1. to_server = <<>> /\ (cut \/ user \in Ended)
    BY DEF UserHears
  <1>2. server' \in {"gone", "request", "file_ack", "walk"} /\ (server' = "gone" => cut)
        /\ server # "queue" /\ todo' \subseteq todo
    OBVIOUS
  <1>3. TypeOK'
    BY <1>2, PlacesAre DEF IInv, TypeOK
  <1>4. SavedAreOwn' /\ CutIsSilent' /\ GoneIsCut'
    BY <1>2 DEF IInv, SavedAreOwn, CutIsSilent, GoneIsCut
  <1>5. Talk'
    BY <1>1 DEF IInv
  <1> QED
    BY <1>3, <1>4, <1>5, Combine

-----------------------------------------------------------------------------
(* The theorems                                                            *)

\* The connection breaks.
LEMMA CutInv ==
  ASSUME IInv, Cut
  PROVE  IInv'
PROOF
  <1> USE DEF Cut, Mishap, transfer
  <1>1. mishaps' \in 0..MaxMishaps
    BY UserAssumption DEF IInv, TypeOK
  <1>2. TypeOK'
    BY <1>1 DEF IInv, TypeOK
  <1>3. SavedAreOwn' /\ CutIsSilent' /\ GoneIsCut'
    BY DEF IInv, SavedAreOwn, CutIsSilent, GoneIsCut
  <1>4. Talk'
    BY DEF IInv
  <1> QED
    BY <1>2, <1>3, <1>4, Combine

\* The job pool stops.
LEMMA PoolStopsInv ==
  ASSUME IInv, PoolStops
  PROVE  IInv'
PROOF
  <1> USE DEF PoolStops, Mishap, transfer, wire
  <1>1. mishaps' \in 0..MaxMishaps
    BY UserAssumption DEF IInv, TypeOK
  <1>2. TypeOK'
    BY <1>1 DEF IInv, TypeOK
  <1>3. SavedAreOwn' /\ CutIsSilent' /\ GoneIsCut'
    BY DEF IInv, SavedAreOwn, CutIsSilent, GoneIsCut
  <1>4. Talk'
    BY DEF IInv
  <1> QED
    BY <1>2, <1>3, <1>4, Combine

\* The invariant holds at the start.
LEMMA InitInv ==
  ASSUME Init
  PROVE  IInv
PROOF
  <1>1. <<>> \in Seq(Messages) /\ DOMAIN saved = {}
    BY EmptySeq DEF Init
  <1>2. /\ request \in RequestTypes /\ user = "start" /\ server = "request"
        /\ to_server = <<>> /\ to_user = <<>> /\ cut = FALSE /\ pool = TRUE
        /\ todo = {} /\ current = Nothing /\ path = Nothing /\ unsent = {} /\ unsaved = {}
        /\ queued = 0 /\ mishaps = 0
    BY DEF Init
  <1>3. TypeOK
    <2>1. user \in UserPlaces /\ server \in ServerPlaces
      BY <1>2, PlacesAre
    <2>2. to_server \in Seq(Messages) /\ to_user \in Seq(Messages)
      BY <1>1, <1>2
    <2>3. mishaps \in 0..MaxMishaps
      BY <1>2, UserAssumption
    <2>4. cut \in BOOLEAN /\ pool \in BOOLEAN
      BY <1>2
    <2> QED
      BY <1>1, <1>2, <2>1, <2>2, <2>3, <2>4 DEF TypeOK
  <1>4. SavedAreOwn /\ CutIsSilent /\ GoneIsCut
    BY <1>1, <1>2 DEF SavedAreOwn, CutIsSilent, GoneIsCut
  <1>5. request.command \in {"add", "kill", "status", "pull"} /\ request.dry \in BOOLEAN
    BY <1>2, UserAssumption DEF RequestTypes
  <1>6. Talk
    BY <1>1, <1>2, <1>5
  <1> QED
    BY <1>3, <1>4, <1>6 DEF IInv

\* Every step keeps the invariant.
LEMMA StepInv ==
  ASSUME IInv, [Next]_vars
  PROVE  IInv'
PROOF
  <1>1. CASE UserNext
    <2>1. ASSUME NEW f \in Files, UserSkipsFile(f) \/ UserSendsFile(f)
          PROVE  IInv'
      BY <2>1, UserSkipsFileInv, UserSendsFileInv
    <2>2. ASSUME NEW place \in DOMAIN Expected, UserReadsResult(place)
          PROVE  IInv'
      BY <2>2, UserReadsResultInv
    <2> QED
      BY <1>1, <2>1, <2>2, UserStartsInv, UserReadsCapabilitiesInv, UserReadsContinueInv,
         UserFinishesFilesInv, UserReadsAckInv, UserReadsMarkerAckInv, UserSavesEntryInv,
         UserReadsMarkerInv, UserSavesLargeFileInv, UserDropsLargeFileInv, UserStraysInv,
         UserReadsPullErrorInv, UserEndsPullInv, UserFailsInv
      DEF UserNext
  <1>2. CASE ServerNext
    <2>1. ASSUME NEW e \in Entries, ServerSendsEntry(e)
          PROVE  IInv'
      BY <2>1, ServerSendsEntryInv
    <2>2. ServerAsksPool("2", "JobNames", JobNamesFailed) => IInv'
      BY ServerAsksPoolInv
    <2>3. ServerAsksPool("KillJob", "KillJob", KillJobFailed) => IInv'
      BY ServerAsksPoolInv
    <2> QED
      BY <1>2, <2>1, <2>2, <2>3, ServerAnswersCapabilitiesInv, ServerAcceptsBatchInv,
         ServerStartsPullInv, ServerIgnoresInv, ServerSavesFileInv, ServerReadsMarkerInv,
         ServerSavesLargeFileInv, ServerDropsLargeFileInv, ServerStraysInv,
         ServerMisreadsInv, ServerFinishesFilesInv, ServerQueuesBatchInv,
         ServerSendsLargeFileInv, ServerReadsFileAckInv, ServerEndsPullInv,
         ServerFindsClosedInv
      DEF ServerNext
  <1>3. CASE UNCHANGED vars
    <2>1. /\ UNCHANGED <<request, user, server, to_server, to_user, cut, pool, todo, current,
                         path, unsent, unsaved, saved, queued, mishaps>>
      BY <1>3 DEF vars, wire, transfer
    <2>2. TypeOK' /\ SavedAreOwn' /\ CutIsSilent' /\ GoneIsCut'
      BY <2>1 DEF IInv, TypeOK, SavedAreOwn, CutIsSilent, GoneIsCut
    <2>3. Talk'
      BY <2>1 DEF IInv
    <2> QED
      BY <2>2, <2>3, Combine
  <1> QED
    BY <1>1, <1>2, <1>3, CutInv, PoolStopsInv DEF Next

\* The table holds in every state.
LEMMA InvHolds == Spec => []IInv
PROOF
  <1>1. Init => IInv
    BY InitInv
  <1>2. IInv /\ [Next]_vars => IInv'
    BY StepInv
  <1> QED
    BY <1>1, <1>2, PTL DEF Spec

\* The state keeps its types, for any files and number of mishaps.
THEOREM TypeCorrect == Spec => []TypeOK
PROOF
  <1>1. IInv => TypeOK
    BY DEF IInv
  <1> QED
    BY <1>1, InvHolds, PTL

\* Who is told that the batch was added finds it queued: the acknowledgement
\* of a file is the same message, and is never taken for the answer (add.rs).
THEOREM AddedIsQueued == Spec => []AddedMeansQueued
PROOF
  <1>1. IInv => AddedMeansQueued
    BY DEF IInv, AddedMeansQueued
  <1> QED
    BY <1>1, InvHolds, PTL

\* A batch is queued once and with all its files, however many there are and
\* wherever the connection breaks (add_job_set in user_conn.rs).
THEOREM QueuedInFull == Spec => []QueuedIsComplete
PROOF
  <1>1. IInv => QueuedIsComplete
    BY DEF IInv, QueuedIsComplete
  <1> QED
    BY <1>1, InvHolds, PTL

\* A pull that ends well has what its filters include, up to what a side has
\* reported as failed (pull_files in user_conn.rs, pull.rs).
THEOREM PullIsComplete == Spec => []PulledWhatWasAsked
PROOF
  <1>1. IInv => PulledWhatWasAsked
    BY DEF IInv, PulledWhatWasAsked, CutIsSilent
  <1> QED
    BY <1>1, InvHolds, PTL

\* What is saved under a name are the bytes of that file: no large file is
\* read as a message, and no message is copied into one (transport.rs).
THEOREM SavedIsOwn == Spec => []SavedAreOwn
PROOF
  <1>1. IInv => SavedAreOwn
    BY DEF IInv
  <1> QED
    BY <1>1, InvHolds, PTL
=============================================================================
