------------------------------ MODULE UserLink ------------------------------
(***************************************************************************)
(* One command of the user (distribute add, kill, server-status or pull)   *)
(* and the task of the head node that serves its connection.  Four enums   *)
(* travel over that connection: requests and responses, and, while the     *)
(* files of a batch are sent, the two of send_files.  bincode writes the   *)
(* index of a variant: messages without a body are told apart by it alone, *)
(* so ReceivedFile of one enum and JobSetAdded of another are one message. *)
(* A body is never read as one of another type; where the bytes of a large *)
(* file are read as a message, they may pass for the length of one that    *)
(* never ends.  The job pool appears as the answers it may give.           *)
(***************************************************************************)
EXTENDS Naturals, Sequences

CONSTANTS
  Commands,                        \* the commands of this instance
  SmallFiles, LargeFiles, Folders, \* what a batch or its results consist of
  Mishaps,                         \* what may go wrong in this instance
  MaxMishaps                       \* bound on how often something goes wrong

MishapKinds ==
  {"cut",    \* the connection breaks
   "pool",   \* the job pool has stopped
   "save",   \* the receiver cannot create the file or folder, or not write all of it
   "read",   \* the sender cannot read the file, or not all of it
   "open"}   \* the sender cannot open the large file it has announced

ASSUME UserAssumption ==
  /\ Commands \subseteq {"add", "kill", "status", "pull"}
  /\ Mishaps \subseteq MishapKinds /\ MaxMishaps \in Nat
  /\ SmallFiles \cap LargeFiles = {} /\ Folders \cap (SmallFiles \cup LargeFiles) = {}

Files == SmallFiles \cup LargeFiles
Entries == Files \cup Folders

VARIABLES
  request,     \* the command with its arguments, and whether its batch exists
  user,        \* place of the command
  server,      \* place of single_user_request
  to_server, to_user,  \* what each side has yet to read
  cut,         \* the connection is broken
  pool,        \* the job pool answers
  todo,        \* files to be sent: by the user for add, by the server for pull
  current,     \* the file the sender is at
  path,        \* the large file the receiver writes
  unsent,      \* files the sender could not read to the end
  unsaved,     \* files the receiver could not create or write to the end
  saved,       \* what the receiver has stored, with its content
  queued,      \* how often the batch was handed to the job pool
  mishaps

wire == <<to_server, to_user, cut>>
transfer == <<todo, current, path, unsent, unsaved, saved>>
vars == <<request, user, server, wire, pool, transfer, queued, mishaps>>

Nothing == "nothing"
Unit(i) == [tag |-> i, of |-> Nothing]
Data(name, of) == [tag |-> name, of |-> of]

QueryCapabilities == Unit("1")
QueryJobNames     == Unit("2")   \* and FinishFiles of send_files
FileReceived      == Unit("5")
EndOfFiles        == Unit("2")
JobSetAdded       == Unit("0")
JobSetAddedFailed == Unit("1")
JobNamesFailed    == Unit("4")
KillJobFailed     == Unit("6")
FinishFiles       == Unit("11")
Continue          == Unit("12")
ReceivedFile      == Unit("0")
AwaitingLargeFile == Unit("1")
DontSendLargeFile == Unit("2")

Responses == {"0", "1", "4", "6", "11", "12", "Capabilities", "JobNames", "KillJob",
              "PullFilesError", "PullFilesDryResponse", "SendFile", "FileMarker"}
Requests  == {"1", "2", "5", "AddJobSet", "KillJob", "PullFilesInitialize"}
Acks      == {"0", "1", "2"}
\* The bytes of a large file: all of them, or those before its reading failed.
Bytes == {"raw", "part"}
Tags == Responses \cup Requests \cup Acks \cup {"SaveFile", "LargeFileMarker"} \cup Bytes

\* The tags that can be read at each place that reads.  A side that has taken
\* bytes of a large file for the length of a message reads no more of them.
UserReads == [capabilities |-> Responses, continue |-> Responses, ack |-> Acks,
              marker_ack |-> Acks, added |-> Responses, kill_result |-> Responses,
              job_names |-> Responses, dry_response |-> Responses,
              pull |-> Responses, pull_raw |-> Tags, stray |-> {}]
ServerReads == [request |-> Requests, files |-> {"SaveFile", "LargeFileMarker", "2"},
                raw |-> Tags, file_ack |-> Requests, marker_ack |-> Requests,
                stray |-> {}]

Ended == {"done", "failed", "panicked"}
UserPlaces == DOMAIN UserReads \cup {"start", "next_file"} \cup Ended
ServerPlaces == DOMAIN ServerReads \cup {"queue", "walk", "gone"}

\* filter_files: the entries a pull returns.
Included(r) ==
  {d \in Folders : ~r.skip_folders}
    \cup {f \in Files : (f \in r.matched) = r.is_include_filter}

\* `known` says that the namespace and the batch of a pull exist, `runnable`
\* that some node has the capabilities a batch needs.
RequestTypes ==
  [command : Commands, dry : BOOLEAN, matched : SUBSET Files,
   is_include_filter : BOOLEAN, skip_folders : BOOLEAN,
   known : BOOLEAN, runnable : BOOLEAN]

\* Arguments that a command does not have keep one value.
Init ==
  /\ request \in RequestTypes
  /\ request.command \in {"kill", "status"} => ~request.dry
  /\ request.command # "pull" =>
       /\ request.matched = {} /\ request.known
       /\ ~request.is_include_filter /\ ~request.skip_folders
  /\ request.command # "add" => request.runnable
  /\ user = "start" /\ server = "request"
  /\ to_server = <<>> /\ to_user = <<>> /\ cut = FALSE /\ pool = TRUE
  /\ todo = {} /\ current = Nothing /\ path = Nothing /\ unsent = {} /\ unsaved = {}
  /\ saved = <<>> /\ queued = 0 /\ mishaps = 0

Mishap(kind) == kind \in Mishaps /\ mishaps < MaxMishaps /\ mishaps' = mishaps + 1
NoMishap == mishaps' = mishaps

-----------------------------------------------------------------------------
(* The connection.  What is written to a side that is gone, or over a      *)
(* broken connection, is lost; the writer may learn of it or not.          *)

ServerHears == ~cut /\ server # "gone"
UserHears == ~cut /\ user \notin Ended

Arrives(q, hears, ms) == IF hears THEN q \o ms ELSE q

\* The user goes on to `place` with messages to the server.
UserSends(place, ms) ==
  /\ to_server' = Arrives(to_server, ServerHears, ms)
  /\ user' \in IF ServerHears THEN {place} ELSE {place, "failed"}

UserTakes(place, tag) ==
  /\ user = place /\ to_user # <<>> /\ Head(to_user).tag = tag
  /\ to_user' = Tail(to_user)

ServerTakes(place, tag) ==
  /\ server = place /\ to_server # <<>> /\ Head(to_server).tag = tag
  /\ to_server' = Tail(to_server)

\* The server goes on to `place` with messages to the user; where an error
\* of the write is not ignored, it leads to `otherwise`.
ServerSends(place, otherwise, ms) ==
  /\ to_user' = Arrives(to_user, UserHears, ms)
  /\ server' \in IF UserHears THEN {place} ELSE {place, otherwise}

\* What is saved under f: the bytes of a file, or those of any other message.
Store(f, m) ==
  saved' = [e \in DOMAIN saved \cup {f} |->
              IF e # f THEN saved[e]
              ELSE IF m.tag \in {"SaveFile", "SendFile", "raw"} THEN m.of ELSE Nothing]

-----------------------------------------------------------------------------
(* The user: add.rs, kill.rs, server_status.rs, pull.rs                    *)

UserUnchanged == UNCHANGED <<request, server, cut, pool, queued>>

UserStarts ==
  /\ user = "start"
  /\ \/ request.command = "add" /\ UserSends("capabilities", <<QueryCapabilities>>)
     \/ request.command = "kill" /\ UserSends("kill_result", <<Data("KillJob", Nothing)>>)
     \/ request.command = "status" /\ UserSends("job_names", <<QueryJobNames>>)
     \/ /\ request.command = "pull"
        /\ UserSends(IF request.dry THEN "dry_response" ELSE "pull",
                     <<Data("PullFilesInitialize", Nothing)>>)
  /\ UserUnchanged /\ NoMishap /\ UNCHANGED <<to_user, transfer>>

\* add: the batch is sent when some node can run it and the run is not dry.
UserReadsCapabilities ==
  /\ UserTakes("capabilities", "Capabilities")
  /\ IF request.runnable /\ ~request.dry
     THEN UserSends("continue", <<Data("AddJobSet", Nothing)>>) /\ todo' = Files
     ELSE /\ user' = IF request.runnable THEN "done" ELSE "failed"
          /\ UNCHANGED <<to_server, todo>>
  /\ UserUnchanged /\ NoMishap /\ UNCHANGED <<current, path, unsent, unsaved, saved>>

\* add: whatever the server answers, the files follow.
UserReadsContinue ==
  /\ \E tag \in Responses : UserTakes("continue", tag)
  /\ user' = "next_file"
  /\ UserUnchanged /\ NoMishap /\ UNCHANGED <<to_server, transfer>>

\* send_files: a file that cannot be read is logged and skipped.
UserSkipsFile(f) ==
  /\ user = "next_file" /\ f \in todo
  /\ Mishap("read")
  /\ todo' = todo \ {f} /\ unsent' = unsent \cup {f}
  /\ UserUnchanged /\ UNCHANGED <<user, to_server, to_user, current, path, unsaved, saved>>

UserSendsFile(f) ==
  /\ user = "next_file" /\ f \in todo
  /\ todo' = todo \ {f} /\ current' = f
  /\ IF f \in LargeFiles
     THEN UserSends("marker_ack", <<Data("LargeFileMarker", f)>>)
     ELSE UserSends("ack", <<Data("SaveFile", f)>>)
  /\ UserUnchanged /\ NoMishap /\ UNCHANGED <<to_user, path, unsent, unsaved, saved>>

UserFinishesFiles ==
  /\ user = "next_file" /\ todo = {}
  /\ UserSends("added", <<EndOfFiles>>)
  /\ UserUnchanged /\ NoMishap /\ UNCHANGED <<to_user, transfer>>

UserReadsAck ==
  /\ \E tag \in Acks : UserTakes("ack", tag)
  /\ user' = "next_file"
  /\ UserUnchanged /\ NoMishap /\ UNCHANGED <<to_server, transfer>>

\* A large file goes out if the server awaits it.  An error in the middle of it
\* is dropped, and its end awaited; one that cannot be opened any more is a
\* panic.
UserReadsMarkerAck ==
  \/ /\ UserTakes("marker_ack", "1")
     /\ UserSends("ack", <<Data("raw", current)>>)
     /\ UserUnchanged /\ NoMishap /\ UNCHANGED transfer
  \/ /\ UserTakes("marker_ack", "1")
     /\ Mishap("read") /\ unsent' = unsent \cup {current}
     /\ UserSends("ack", <<Data("part", current)>>)
     /\ UserUnchanged /\ UNCHANGED <<todo, current, path, unsaved, saved>>
  \/ /\ UserTakes("marker_ack", "1")
     /\ Mishap("open") /\ user' = "panicked"
     /\ UserUnchanged /\ UNCHANGED <<to_server, transfer>>
  \/ /\ \E tag \in Acks \ {"1"} : UserTakes("marker_ack", tag)
     /\ user' = "next_file"
     /\ UserUnchanged /\ NoMishap /\ UNCHANGED <<to_server, transfer>>

\* The places where one response decides the command: what it must be to be
\* done.  kill takes any other response for impossible.
Expected == [added |-> {"0"}, kill_result |-> {"KillJob"}, job_names |-> {"JobNames"},
             dry_response |-> {"PullFilesDryResponse", "PullFilesError"}]

UserReadsResult(place) ==
  /\ \E tag \in Responses :
       /\ UserTakes(place, tag)
       /\ user' = IF tag \in Expected[place] THEN "done"
                  ELSE IF place = "kill_result" THEN "panicked" ELSE "failed"
  /\ UserUnchanged /\ NoMishap /\ UNCHANGED <<to_server, transfer>>

\* pull: an entry is saved and acknowledged, or the command ends.
UserSavesEntry ==
  /\ UserTakes("pull", "SendFile")
  /\ \/ /\ Store(Head(to_user).of, Head(to_user))
        /\ UserSends("pull", <<FileReceived>>)
        /\ NoMishap
     \/ Mishap("save") /\ user' = "failed" /\ UNCHANGED <<to_server, saved>>
  /\ UserUnchanged /\ UNCHANGED <<todo, current, path, unsent, unsaved>>

\* save_large_file acknowledges the marker before it creates the file; when
\* that fails, the loop acknowledges the file as well.
UserReadsMarker ==
  /\ UserTakes("pull", "FileMarker")
  /\ \/ /\ UserSends("pull_raw", <<FileReceived>>) /\ path' = Head(to_user).of
        /\ NoMishap /\ UNCHANGED unsaved
     \/ /\ Mishap("save") /\ UserSends("pull", <<FileReceived, FileReceived>>)
        /\ unsaved' = unsaved \cup {Head(to_user).of}
        /\ UNCHANGED path
  /\ UserUnchanged /\ UNCHANGED <<todo, current, unsent, saved>>

\* receive_to_writer takes the next frame for the file, whatever it is, and
\* waits for the rest of one that is not complete.
UserSavesLargeFile ==
  /\ \E tag \in Tags \ {"part"} : UserTakes("pull_raw", tag)
  /\ Store(path, Head(to_user))
  /\ UserSends("pull", <<FileReceived>>)
  /\ UserUnchanged /\ NoMishap /\ UNCHANGED <<todo, current, path, unsent, unsaved>>

\* The file cannot be written to its end: this is logged, and acknowledged like
\* a success, with or without the rest of the file still to come.
UserDropsLargeFile ==
  /\ user = "pull_raw" /\ to_user # <<>>
  /\ Mishap("save")
  /\ to_user' \in {to_user, Tail(to_user)}
  /\ unsaved' = unsaved \cup {path}
  /\ UserSends("pull", <<FileReceived>>)
  /\ UserUnchanged /\ UNCHANGED <<todo, current, path, unsent, saved>>

\* What is left of a large file is read as the length of a message, and all that
\* follows as its body.
UserStrays ==
  /\ \E tag \in Tags : UserTakes("stray", tag) \/ (tag \in Bytes /\ UserTakes("pull", tag))
  /\ user' = "stray"
  /\ UserUnchanged /\ NoMishap /\ UNCHANGED <<to_server, transfer>>

\* Mutant: an error is logged and not acknowledged.
UserReadsPullError_Silent ==
  /\ UserTakes("pull", "PullFilesError")
  /\ UserUnchanged /\ NoMishap /\ UNCHANGED <<user, to_server, transfer>>

UserReadsPullError ==
  /\ UserTakes("pull", "PullFilesError")
  /\ UserSends("pull", <<FileReceived>>)
  /\ UserUnchanged /\ NoMishap /\ UNCHANGED transfer

UserEndsPull ==
  /\ \E tag \in Responses \ {"SendFile", "FileMarker", "PullFilesError"} :
       /\ UserTakes("pull", tag)
       /\ user' = IF tag = "11" THEN "done" ELSE "failed"
  /\ UserUnchanged /\ NoMishap /\ UNCHANGED <<to_server, transfer>>

\* A message of another enum, or the end of the connection, ends the command.
\* save_large_file only logs it, and the next read finds it again.
UserFails ==
  /\ user \in DOMAIN UserReads
  /\ IF to_user = <<>> THEN ~ServerHears
     ELSE \/ Head(to_user).tag \notin UserReads[user]
          \/ user = "capabilities" /\ Head(to_user).tag # "Capabilities"
  /\ user' = "failed"
  /\ UserUnchanged /\ NoMishap /\ UNCHANGED <<to_server, to_user, transfer>>

-----------------------------------------------------------------------------
(* The server: single_user_request and what it calls                       *)

ServerUnchanged == UNCHANGED <<request, user, cut, pool>>

ServerAnswersCapabilities ==
  /\ ServerTakes("request", "1")
  /\ ServerSends("request", "request", <<Data("Capabilities", Nothing)>>)
  /\ ServerUnchanged /\ NoMishap /\ UNCHANGED <<transfer, queued>>

\* query_job_names and cancel_job_by_name: when the job pool is gone, a request
\* that cannot be sent is reported, and so is the answer that does not come.
ServerAsksPool(tag, answer, failure) ==
  /\ ServerTakes("request", tag)
  /\ \E ms \in IF pool THEN {<<Data(answer, Nothing)>>}
               ELSE {<<failure>>, <<failure, failure>>} :
       ServerSends("request", "request", ms)
  /\ ServerUnchanged /\ NoMishap /\ UNCHANGED <<transfer, queued>>

\* add_job_set: the user is told to send the files.  If the folder for them
\* cannot be created, the server is back in its loop when they come.
ServerAcceptsBatch ==
  /\ ServerTakes("request", "AddJobSet")
  /\ \/ ServerSends("files", "request", <<Continue>>) /\ NoMishap
     \/ ServerSends("request", "request", <<Continue>>) /\ Mishap("save")
  /\ ServerUnchanged /\ UNCHANGED <<transfer, queued>>

\* pull_files: a batch that is not there, a dry run, or the entries to send.
ServerStartsPull ==
  /\ ServerTakes("request", "PullFilesInitialize")
  /\ IF request.known /\ ~request.dry
     THEN server' = "walk" /\ todo' = Included(request) /\ UNCHANGED to_user
     ELSE /\ ServerSends("request", "request",
               <<Data(IF request.known THEN "PullFilesDryResponse" ELSE "PullFilesError",
                      Nothing)>>)
          /\ UNCHANGED todo
  /\ ServerUnchanged /\ NoMishap /\ UNCHANGED <<current, path, unsent, unsaved, saved, queued>>

ServerIgnores ==
  /\ ServerTakes("request", "5")
  /\ ServerUnchanged /\ NoMishap /\ UNCHANGED <<server, to_user, transfer, queued>>

\* receive_files: a file that cannot be created, or not be written to its end, is
\* logged and acknowledged.
ServerSavesFile ==
  /\ ServerTakes("files", "SaveFile")
  /\ \/ Store(Head(to_server).of, Head(to_server)) /\ NoMishap /\ UNCHANGED unsaved
     \/ /\ Mishap("save") /\ unsaved' = unsaved \cup {Head(to_server).of}
        /\ UNCHANGED saved
  /\ ServerSends("files", "request", <<ReceivedFile>>)
  /\ ServerUnchanged /\ UNCHANGED <<todo, current, path, unsent, queued>>

\* Mutant: the refused file is acknowledged like every other.
ServerReadsMarker_NoContinue ==
  /\ ServerTakes("files", "LargeFileMarker")
  /\ \/ /\ path' = Head(to_server).of /\ NoMishap /\ UNCHANGED unsaved
        /\ ServerSends("raw", "request", <<AwaitingLargeFile>>)
     \/ /\ Mishap("save") /\ unsaved' = unsaved \cup {Head(to_server).of}
        /\ UNCHANGED path
        /\ ServerSends("files", "request", <<DontSendLargeFile, ReceivedFile>>)
  /\ ServerUnchanged /\ UNCHANGED <<todo, current, unsent, saved, queued>>

ServerReadsMarker ==
  /\ ServerTakes("files", "LargeFileMarker")
  /\ \/ /\ path' = Head(to_server).of /\ NoMishap /\ UNCHANGED unsaved
        /\ ServerSends("raw", "request", <<AwaitingLargeFile>>)
     \/ /\ Mishap("save") /\ unsaved' = unsaved \cup {Head(to_server).of}
        /\ UNCHANGED path
        /\ ServerSends("files", "request", <<DontSendLargeFile>>)
  /\ ServerUnchanged /\ UNCHANGED <<todo, current, unsent, saved, queued>>

ServerSavesLargeFile ==
  /\ \E tag \in Tags \ {"part"} : ServerTakes("raw", tag)
  /\ Store(path, Head(to_server))
  /\ ServerSends("files", "request", <<ReceivedFile>>)
  /\ ServerUnchanged /\ NoMishap /\ UNCHANGED <<todo, current, path, unsent, unsaved, queued>>

\* The task ends, and its connection with it.
ServerLeaves == server' = "gone" /\ cut' = TRUE /\ to_server' = <<>> /\ to_user' = <<>>

\* The file cannot be written to its end.  The server is back in its loop, with
\* or without the rest of the file still to come, and the user is told nothing;
\* if the file cannot be flushed, the task panics.
ServerDropsLargeFile ==
  /\ server = "raw" /\ to_server # <<>>
  /\ Mishap("save")
  /\ unsaved' = unsaved \cup {path}
  /\ \/ /\ server' = "request" /\ to_server' \in {to_server, Tail(to_server)}
        /\ UNCHANGED <<to_user, cut>>
     \/ ServerLeaves
  /\ UNCHANGED <<request, user, pool, todo, current, path, unsent, saved, queued>>

\* The main loop finds the bytes of a large file, and takes them for empty
\* messages or for the length of one that never ends.
ServerStrays ==
  /\ \E tag \in Bytes : ServerTakes("request", tag)
  /\ server' \in {"request", "stray"}
  /\ ServerUnchanged /\ NoMishap /\ UNCHANGED <<to_user, transfer, queued>>

\* What the main loop cannot decode ends the task.
ServerMisreads ==
  /\ server = "request" /\ to_server # <<>> /\ Head(to_server).tag \notin Requests
  /\ ServerLeaves
  /\ NoMishap /\ UNCHANGED <<request, user, pool, transfer, queued>>

ServerFinishesFiles ==
  /\ ServerTakes("files", "2")
  /\ server' = "queue"
  /\ ServerUnchanged /\ NoMishap /\ UNCHANGED <<to_user, transfer, queued>>

\* All files are here: the batch goes to the job pool, and the user is told.
ServerQueuesBatch ==
  /\ server = "queue"
  /\ queued' = IF pool THEN queued + 1 ELSE queued
  /\ ServerSends("request", "request", <<IF pool THEN JobSetAdded ELSE JobSetAddedFailed>>)
  /\ ServerUnchanged /\ NoMishap /\ UNCHANGED <<to_server, transfer>>

\* pull_files: the next entry.  A folder comes before what is in it; the
\* files of the instance lie in its folders.
ServerSendsEntry(e) ==
  /\ server = "walk" /\ e \in todo /\ (e \in Folders \/ todo \cap Folders = {})
  /\ todo' = todo \ {e} /\ current' = e
  /\ \/ /\ e \notin LargeFiles
        /\ ServerSends("file_ack", "file_ack", <<Data("SendFile", e)>>)
        /\ NoMishap /\ UNCHANGED unsent
     \/ /\ e \in LargeFiles
        /\ ServerSends("marker_ack", "file_ack", <<Data("FileMarker", e)>>)
        /\ NoMishap /\ UNCHANGED unsent
     \/ /\ e \in Files /\ Mishap("read") /\ unsent' = unsent \cup {e}
        /\ ServerSends("file_ack", "file_ack", <<Data("PullFilesError", e)>>)
  /\ ServerUnchanged /\ UNCHANGED <<to_server, path, unsaved, saved, queued>>

\* Mutant: the error of a large file is sent instead of its bytes.
ServerSendsLargeFile_Error ==
  /\ \E tag \in Requests : ServerTakes("marker_ack", tag)
  /\ \/ /\ ServerSends("file_ack", "file_ack", <<Data("raw", current)>>)
        /\ NoMishap /\ UNCHANGED unsent
     \/ /\ Mishap("open") /\ unsent' = unsent \cup {current}
        /\ ServerSends("file_ack", "file_ack", <<Data("PullFilesError", current)>>)
  /\ ServerUnchanged /\ UNCHANGED <<todo, current, path, unsaved, saved, queued>>

\* send_large_file: any request is taken for the acknowledgement.  A file
\* that cannot be opened, or not be read to its end, is only logged.
ServerSendsLargeFile ==
  /\ \E tag \in Requests : ServerTakes("marker_ack", tag)
  /\ \/ /\ ServerSends("file_ack", "file_ack", <<Data("raw", current)>>)
        /\ NoMishap /\ UNCHANGED unsent
     \/ /\ Mishap("open") /\ server' = "file_ack" /\ unsent' = unsent \cup {current}
        /\ UNCHANGED to_user
     \/ /\ Mishap("read") /\ unsent' = unsent \cup {current}
        /\ ServerSends("file_ack", "file_ack", <<Data("part", current)>>)
  /\ ServerUnchanged /\ UNCHANGED <<todo, current, path, unsaved, saved, queued>>

\* Mutant: one file that cannot be sent ends the pull as if it were complete.
ServerReadsFileAck_StopsOnError ==
  /\ \E tag \in Requests : ServerTakes("file_ack", tag)
  /\ server' = "walk" /\ todo' = IF current \in unsent THEN {} ELSE todo
  /\ ServerUnchanged /\ NoMishap
  /\ UNCHANGED <<to_user, current, path, unsent, unsaved, saved, queued>>

\* Whatever the user answers, the next file follows.
ServerReadsFileAck ==
  /\ \E tag \in Requests : ServerTakes("file_ack", tag)
  /\ server' = "walk"
  /\ ServerUnchanged /\ NoMishap /\ UNCHANGED <<to_user, transfer, queued>>

ServerEndsPull ==
  /\ server = "walk" /\ todo = {}
  /\ ServerSends("request", "request", <<FinishFiles>>)
  /\ ServerUnchanged /\ NoMishap /\ UNCHANGED <<to_server, transfer, queued>>

\* Mutant: the batch is queued although its files did not arrive.
ServerFindsClosed_QueuesAnyway ==
  /\ to_server = <<>> /\ ~UserHears
  /\ \/ server = "request" /\ cut /\ server' = "gone" /\ UNCHANGED todo
     \/ server \in {"files", "raw", "stray"} /\ server' = "queue" /\ UNCHANGED todo
     \/ server = "marker_ack" /\ server' = "file_ack" /\ UNCHANGED todo
     \/ server = "file_ack" /\ server' = "walk" /\ todo' \in {{}, todo}
  /\ ServerUnchanged /\ NoMishap
  /\ UNCHANGED <<to_server, to_user, current, path, unsent, unsaved, saved, queued>>

\* Mutant: the pull waits for an acknowledgement that cannot come.
ServerFindsClosed_WaitsOn ==
  /\ to_server = <<>> /\ ~UserHears
  /\ \/ server = "request" /\ cut /\ server' = "gone" /\ UNCHANGED todo
     \/ server \in {"files", "raw", "stray"} /\ server' = "request" /\ UNCHANGED todo
     \/ server = "marker_ack" /\ server' = "file_ack" /\ UNCHANGED todo
  /\ ServerUnchanged /\ NoMishap
  /\ UNCHANGED <<to_server, to_user, current, path, unsent, unsaved, saved, queued>>

\* The end of the connection: a pull breaks off and ends as usual.  In the
\* main loop a closed connection is read again and again, which changes
\* nothing; one that was reset ends the task.
ServerFindsClosed ==
  /\ to_server = <<>> /\ ~UserHears
  /\ \/ server = "request" /\ cut /\ server' = "gone" /\ UNCHANGED todo
     \/ server \in {"files", "raw", "stray"} /\ server' = "request" /\ UNCHANGED todo
     \/ server = "marker_ack" /\ server' = "file_ack" /\ UNCHANGED todo
     \/ server = "file_ack" /\ server' = "walk" /\ todo' \in {{}, todo}
  /\ ServerUnchanged /\ NoMishap
  /\ UNCHANGED <<to_server, to_user, current, path, unsent, unsaved, saved, queued>>

-----------------------------------------------------------------------------
(* The rest of the world                                                   *)

Cut ==
  /\ ~cut /\ user \notin Ended
  /\ Mishap("cut")
  /\ cut' = TRUE /\ to_server' = <<>> /\ to_user' = <<>>
  /\ UNCHANGED <<request, user, server, pool, transfer, queued>>

PoolStops ==
  /\ pool /\ user \notin Ended
  /\ Mishap("pool")
  /\ pool' = FALSE
  /\ UNCHANGED <<request, user, server, wire, transfer, queued>>

UserNext ==
  \/ UserStarts \/ UserReadsCapabilities \/ UserReadsContinue
  \/ \E f \in Files : UserSkipsFile(f) \/ UserSendsFile(f)
  \/ UserFinishesFiles \/ UserReadsAck \/ UserReadsMarkerAck
  \/ \E place \in DOMAIN Expected : UserReadsResult(place)
  \/ UserSavesEntry \/ UserReadsMarker \/ UserSavesLargeFile \/ UserDropsLargeFile
  \/ UserStrays \/ UserReadsPullError \/ UserEndsPull \/ UserFails

ServerNext ==
  \/ ServerAnswersCapabilities
  \/ ServerAsksPool("2", "JobNames", JobNamesFailed)
  \/ ServerAsksPool("KillJob", "KillJob", KillJobFailed)
  \/ ServerAcceptsBatch \/ ServerStartsPull \/ ServerIgnores
  \/ ServerSavesFile \/ ServerReadsMarker \/ ServerSavesLargeFile \/ ServerDropsLargeFile
  \/ ServerStrays \/ ServerMisreads
  \/ ServerFinishesFiles \/ ServerQueuesBatch
  \/ \E e \in Entries : ServerSendsEntry(e)
  \/ ServerSendsLargeFile \/ ServerReadsFileAck \/ ServerEndsPull
  \/ ServerFindsClosed

Next == UserNext \/ ServerNext \/ Cut \/ PoolStops

Spec == Init /\ [][Next]_vars

\* Both sides are tasks that a runtime schedules, and TCP delivers or resets.
FairSpec == Spec /\ WF_vars(UserNext) /\ WF_vars(ServerNext)

-----------------------------------------------------------------------------
(* Properties                                                              *)

Messages == [tag : Tags, of : Entries \cup {Nothing}]

\* The state keeps its types.
TypeOK ==
  /\ request \in RequestTypes
  /\ user \in UserPlaces /\ server \in ServerPlaces
  /\ to_server \in Seq(Messages) /\ to_user \in Seq(Messages)
  /\ cut \in BOOLEAN /\ pool \in BOOLEAN
  /\ todo \subseteq Entries /\ current \in Entries \cup {Nothing}
  /\ path \in LargeFiles \cup {Nothing}
  /\ unsent \subseteq Files /\ unsaved \subseteq Files
  /\ DOMAIN saved \subseteq Entries
  /\ queued \in Nat /\ mishaps \in 0..MaxMishaps

\* Who is told that the batch was added finds it queued: no acknowledgement of
\* a file, which is the same message, is taken for the answer (add.rs).
AddedMeansQueued ==
  request.command = "add" /\ ~request.dry /\ user = "done" => queued = 1

\* A batch is queued once, and only with all its files: on the disk of the
\* head node, or known to have failed there or at the user (add_job_set).
QueuedIsComplete ==
  /\ queued <= 1
  /\ queued = 1 => DOMAIN saved \cup unsaved \cup unsent = Files

\* A pull that ends well has saved the folders and files that the filters
\* include, except those that one side could not read, create or write.
PulledWhatWasAsked ==
  request.command = "pull" /\ ~request.dry /\ user = "done" =>
    DOMAIN saved \cup unsent \cup unsaved = Included(request)

\* What is saved under a name are the bytes of that file: no message, and nothing
\* of another file, is ever copied into a large file or saved as a small one.
SavedAreOwn == \A e \in DOMAIN saved : saved[e] = e

\* Nothing is on its way but a large file that will not be completed.
NothingComes ==
  /\ to_user = <<>> \/ (user = "pull_raw" /\ Head(to_user).tag = "part")
  /\ to_server = <<>> \/ (server = "raw" /\ Head(to_server).tag = "part")

\* Both sides wait for the other over a sound connection.  A pull of a batch that
\* is not there is told so but never that it has ended.  A large file that cannot
\* be opened once it is announced, or not be read to its end, is awaited by the
\* receiver and its acknowledgement by the sender.  A large file that the server
\* cannot write to its end is acknowledged by nobody.  One that the user cannot
\* create or write is sent all the same, and may be read as the length of a
\* message for which no more bytes come.
Standoff ==
  /\ NothingComes
  /\ \/ user = "pull" /\ server = "request" /\ ~request.known
     \/ user = "pull_raw" /\ server = "file_ack" /\ current \in unsent
     \/ user = "ack" /\ server = "raw" /\ current \in unsent
     \/ user = "ack" /\ server \in {"request", "stray"} /\ path \in unsaved
     \/ user = "stray" /\ server \in {"request", "file_ack", "marker_ack"}

\* Every command ends, whatever fails or is lost, but for these standoffs.
CommandsEnd == <>(user \in Ended \/ Standoff)

\* The task of the server is back in its main loop, or gone, when the command
\* has ended: no broken transfer keeps it.
TransfersEnd == user \in Ended ~> server \in {"request", "gone"}
=============================================================================
