----------------------------- MODULE FileStream -----------------------------
(***************************************************************************)
(* A list of files on its way through one TCP connection, byte by byte:    *)
(* send_files on one side, receive_files on the other, and below them the  *)
(* framing of transport.rs.  A message and a large file both travel as     *)
(* eight bytes with a length and a body of that length.  Nothing in the    *)
(* stream says where a body ends; both sides count.  The model counts the  *)
(* bytes too and asks whether the counts always agree.                     *)
(***************************************************************************)
EXTENDS Naturals

CONSTANTS
  MaxFiles,      \* length of the list of files
  PrefixLen,     \* bytes of the length that goes before a body
  BufferLen,     \* BUFFER_LEN, the chunk of a large file
  SocketCap,     \* bytes the connection holds between the two sides
  MessageSizes,  \* bytes of the body of a message, small files included
  LargeSizes,    \* lengths of files above LARGE_FILE_BYTE_THRESHOLD
  Mishaps,       \* what may go wrong in this instance
  MaxMishaps     \* bound on how often something goes wrong

MishapKinds == {"cut", "create", "write", "metadata", "open", "read", "shrink", "grow"}

ASSUME StreamAssumption ==
  /\ MaxFiles \in Nat /\ MaxMishaps \in Nat
  /\ PrefixLen \in Nat \ {0} /\ BufferLen \in Nat \ {0} /\ SocketCap \in Nat \ {0}
  /\ MessageSizes \subseteq Nat \ {0}
  /\ LargeSizes \subseteq Nat \ {0}
  /\ Mishaps \subseteq MishapKinds

VARIABLES
  at,              \* place of the sender in send_files
  next,            \* the file of the list it is at
  item,            \* what it sends: a small file, a marker, a raw file, the end
  length,          \* body length it has announced
  total,           \* total_bytes: body bytes it has taken from the source
  buffered,        \* bytes its write_all has still to hand to the connection
  file_len,        \* length of the large file, read with its metadata
  disk,            \* length of that file now
  start,           \* offset in the stream at which the item begins
  written, read,   \* bytes ever written to and read from the connection
  open,            \* the connection is not cut
  ack,             \* the answer on its way back, or "none"
  place,           \* place of the receiver in receive_files
  got,             \* bytes of the present length or body it has read
  content_length,  \* length it has read
  path,            \* the large file it writes
  files,           \* what it has stored of each file
  given_up,        \* history: files one of the sides had an error with, and went on
  mishaps          \* how many things went wrong

sender == <<at, next, item, length, total, buffered, file_len, start>>
receiver == <<place, got, content_length, path, files, given_up>>
wire == <<written, read, open, ack>>
vars == <<sender, disk, wire, receiver, mishaps>>

Listed == 1..MaxFiles
Least(a, b) == IF a < b THEN a ELSE b
InFlight == written - read

Mishap(kind) ==
  /\ kind \in Mishaps
  /\ mishaps < MaxMishaps
  /\ mishaps' = mishaps + 1

Init ==
  /\ at = "next" /\ next = 1 /\ item = "none"
  /\ length = 0 /\ total = 0 /\ buffered = 0 /\ file_len = 0 /\ disk = 0
  /\ start = 0 /\ written = 0 /\ read = 0 /\ open = TRUE /\ ack = "none"
  /\ place = "prefix" /\ got = 0 /\ content_length = 0 /\ path = 0
  /\ files = [f \in Listed |-> "absent"] /\ given_up = {}
  /\ mishaps = 0

-----------------------------------------------------------------------------
(* The sender.                                                             *)

\* transport: the length and the body of a message go out in one write.
Transport(kind, n) ==
  /\ item' = kind /\ length' = n /\ total' = n
  /\ buffered' = PrefixLen + n
  /\ start' = written
  /\ at' = "write"

\* The file is not there, or cannot be read into memory: it is logged.
SkipFile ==
  /\ at = "next" /\ next \in Listed
  /\ Mishap("metadata")
  /\ given_up' = given_up \cup {next}
  /\ next' = next + 1
  /\ UNCHANGED <<at, item, length, total, buffered, file_len, start, disk, wire, place, got,
                 content_length, path, files>>

SendSmallFile ==
  /\ at = "next" /\ next \in Listed
  /\ \E n \in MessageSizes : Transport("save", n)
  /\ UNCHANGED <<next, file_len, disk, wire, receiver, mishaps>>

SendMarker ==
  /\ at = "next" /\ next \in Listed
  /\ \E n \in MessageSizes : Transport("marker", n)
  /\ disk' \in LargeSizes /\ file_len' = disk'
  /\ UNCHANGED <<next, wire, receiver, mishaps>>

SendFinish ==
  /\ at = "next" /\ next \notin Listed
  /\ \E n \in MessageSizes : Transport("finish", n)
  /\ UNCHANGED <<next, file_len, disk, wire, receiver, mishaps>>

\* Where the sender goes when the connection has taken all it wrote.
AfterWrite ==
  IF total # length THEN "load" ELSE IF item = "finish" THEN "finished" ELSE "await"

\* write_all: the connection takes what it has room for.
Write ==
  /\ at = "write" /\ open
  /\ \E k \in 1..Least(buffered, SocketCap - InFlight) :
       /\ written' = written + k
       /\ buffered' = buffered - k
       /\ at' = IF k = buffered THEN AfterWrite ELSE "write"
  /\ UNCHANGED <<next, item, length, total, file_len, start, disk, read, open, ack,
                 receiver, mishaps>>

\* transport_from_reader reads the next chunk.  At the end of the file it
\* reads nothing, again and again.
Load ==
  /\ at = "load"
  /\ \E k \in 1..BufferLen :
       /\ total + k <= disk
       /\ total' = total + k
       /\ buffered' = k
  /\ at' = "write"
  /\ UNCHANGED <<next, item, length, file_len, start, disk, wire, receiver, mishaps>>

\* The error of transport_from_reader is dropped.
LoadFails ==
  /\ at = "load"
  /\ Mishap("read")
  /\ at' = "await"
  /\ UNCHANGED <<next, item, length, total, buffered, file_len, start, disk, wire, receiver>>

\* The receiver is ready for a large file: the file is opened and announced.
OpenLargeFile ==
  /\ at = "await" /\ item = "marker" /\ ack = "AwaitingLargeFile"
  /\ ack' = "none"
  /\ item' = "raw" /\ length' = file_len /\ total' = 0
  /\ buffered' = PrefixLen
  /\ start' = written
  /\ at' = "write"
  /\ UNCHANGED <<next, file_len, disk, written, read, open, receiver, mishaps>>

\* The file has vanished since its metadata was read: the sender panics.
OpenFails ==
  /\ at = "await" /\ item = "marker" /\ ack = "AwaitingLargeFile"
  /\ Mishap("open")
  /\ at' = "closed" /\ open' = FALSE
  /\ UNCHANGED <<next, item, length, total, buffered, file_len, start, disk, written, read,
                 ack, receiver>>

\* Mutant: the sender does not wait for the answer.
NextFile_Unacknowledged ==
  /\ at = "await"
  /\ ~(item = "marker" /\ ack = "AwaitingLargeFile")
  /\ ack' = "none"
  /\ at' = "next" /\ next' = next + 1
  /\ UNCHANGED <<item, length, total, buffered, file_len, start, disk, written, read, open,
                 receiver, mishaps>>

\* Any other answer takes the sender to the next file.
NextFile ==
  /\ at = "await" /\ ack # "none"
  /\ ~(item = "marker" /\ ack = "AwaitingLargeFile")
  /\ ack' = "none"
  /\ at' = "next" /\ next' = next + 1
  /\ UNCHANGED <<item, length, total, buffered, file_len, start, disk, written, read, open,
                 receiver, mishaps>>

SenderFails ==
  /\ ~open /\ at \in {"write", "await"}
  /\ at' = "closed"
  /\ UNCHANGED <<next, item, length, total, buffered, file_len, start, disk, wire, receiver,
                 mishaps>>

-----------------------------------------------------------------------------
(* The receiver.                                                           *)

\* read_buffer_bytes on the eight bytes of a length.  They are the length
\* that the sender has announced only if they begin where the item begins.
ReadLength ==
  /\ place \in {"prefix", "copy_prefix"}
  /\ \E k \in 1..Least(InFlight, PrefixLen - got) :
       /\ read' = read + k
       /\ IF got + k < PrefixLen
          THEN got' = got + k /\ UNCHANGED <<place, content_length>>
          ELSE /\ got' = 0
               /\ content_length' = IF read' = start + PrefixLen THEN length ELSE 0
               /\ place' = IF place = "prefix" THEN "body" ELSE "copy"
  /\ UNCHANGED <<sender, disk, written, open, ack, path, files, given_up, mishaps>>

\* The bytes just read end the message that the sender is sending.
IsMessage == item # "raw" /\ content_length = length /\ read' = start + PrefixLen + length

\* A small file is stored and acknowledged.  One that cannot be created, or not
\* be written to its end, is acknowledged all the same: an error is logged.
HandleSave ==
  /\ place' = "prefix" /\ ack' = "ReceivedFile"
  /\ \/ files' = [files EXCEPT ![next] = "whole"] /\ UNCHANGED <<given_up, mishaps>>
     \/ /\ \/ Mishap("create") /\ UNCHANGED files
           \/ Mishap("write") /\ files' = [files EXCEPT ![next] = "partial"]
        /\ given_up' = given_up \cup {next}
  /\ UNCHANGED path

\* Mutant: the receiver asks for the file before it knows where to store it.
HandleMarker_AlwaysAwaits ==
  \/ /\ files' = [files EXCEPT ![next] = "partial"]
     /\ path' = next
     /\ place' = "copy_prefix" /\ ack' = "AwaitingLargeFile"
     /\ UNCHANGED <<given_up, mishaps>>
  \/ /\ Mishap("create")
     /\ given_up' = given_up \cup {next}
     /\ place' = "prefix" /\ ack' = "AwaitingLargeFile"
     /\ UNCHANGED <<path, files>>

\* The file of a marker is created; without it the sender is told to go on.
HandleMarker ==
  \/ /\ files' = [files EXCEPT ![next] = "partial"]
     /\ path' = next
     /\ place' = "copy_prefix" /\ ack' = "AwaitingLargeFile"
     /\ UNCHANGED <<given_up, mishaps>>
  \/ /\ Mishap("create")
     /\ given_up' = given_up \cup {next}
     /\ place' = "prefix" /\ ack' = "DontSendLargeFile"
     /\ UNCHANGED <<path, files>>

HandleFinish ==
  /\ place' = "finished"
  /\ UNCHANGED <<ack, path, files, given_up, mishaps>>

\* A body that does not deserialize ends the exchange and the connection.
Undecodable ==
  /\ place' = "closed"
  /\ UNCHANGED <<ack, path, files, given_up, mishaps>>

\* read_buffer_bytes on a body: never more than what is left of it.
ReadBody ==
  /\ place = "body"
  /\ \E k \in 1..Least(InFlight, content_length - got) :
       /\ read' = read + k
       /\ IF got + k < content_length
          THEN got' = got + k /\ UNCHANGED <<place, ack, path, files, given_up, mishaps>>
          ELSE /\ got' = 0
               /\ CASE ~IsMessage        -> Undecodable
                    [] item = "save"     -> HandleSave
                    [] item = "marker"   -> HandleMarker
                    [] item = "finish"   -> HandleFinish
  /\ open' = (open /\ place' # "closed")
  /\ UNCHANGED <<sender, disk, written, content_length>>

\* Mutant: the count is compared before the bytes just read are added.
Copy_ComparesFirst ==
  /\ place = "copy"
  /\ \E k \in 1..Least(InFlight, BufferLen) :
       /\ read' = read + k
       /\ IF got # content_length
          THEN got' = got + k /\ UNCHANGED <<place, ack, files>>
          ELSE /\ got' = 0
               /\ files' = [files EXCEPT ![path] = "whole"]
               /\ place' = "prefix" /\ ack' = "ReceivedFile"
  /\ UNCHANGED <<sender, disk, written, open, content_length, path, given_up, mishaps>>

\* receive_to_writer: takes whatever is there, up to its buffer, and is done
\* when it has exactly the length announced.
Copy ==
  /\ place = "copy"
  /\ \E k \in 1..Least(InFlight, BufferLen) :
       /\ read' = read + k
       /\ IF got + k # content_length
          THEN got' = got + k /\ UNCHANGED <<place, ack, files>>
          ELSE /\ got' = 0
               /\ files' = [files EXCEPT ![path] =
                    IF item = "raw" /\ read' = start + PrefixLen + length
                    THEN "whole" ELSE "garbled"]
               /\ place' = "prefix" /\ ack' = "ReceivedFile"
  /\ UNCHANGED <<sender, disk, written, open, content_length, path, given_up, mishaps>>

\* A chunk cannot be written to the file, or the file not be flushed: the
\* exchange ends, and the connection with it.
CopyFails ==
  /\ place = "copy"
  /\ Mishap("write")
  /\ \E k \in 1..Least(InFlight, BufferLen) : read' = read + k
  /\ place' = "closed" /\ open' = FALSE
  /\ UNCHANGED <<sender, disk, written, ack, got, content_length, path, files, given_up>>

\* The other side is gone: a read fails, or returns nothing.
ReceiverFails ==
  /\ ~open /\ place \notin {"finished", "closed"}
  /\ place' = "closed"
  /\ UNCHANGED <<sender, disk, wire, got, content_length, path, files, given_up, mishaps>>

-----------------------------------------------------------------------------
(* The surroundings.                                                       *)

\* Somebody else writes to the file between its metadata and its last chunk.
FileChanges ==
  /\ item \in {"marker", "raw"} /\ at \in {"write", "load", "await"}
  /\ disk' \in LargeSizes \ {file_len}
  /\ Mishap(IF disk' < file_len THEN "shrink" ELSE "grow")
  /\ UNCHANGED <<sender, wire, receiver>>

Cut ==
  /\ open /\ Mishap("cut")
  /\ open' = FALSE
  /\ UNCHANGED <<sender, disk, written, read, ack, receiver>>

SenderStep ==
  \/ SendSmallFile \/ SendMarker \/ SendFinish \/ Write \/ Load
  \/ OpenLargeFile \/ NextFile \/ SenderFails

ReceiverStep == ReadLength \/ ReadBody \/ Copy \/ ReceiverFails

Trouble == SkipFile \/ LoadFails \/ OpenFails \/ CopyFails \/ FileChanges \/ Cut

Next == SenderStep \/ ReceiverStep \/ Trouble

Spec == Init /\ [][Next]_vars

\* Both are tokio tasks that are polled again when their socket is ready.
FairSpec == Spec /\ WF_vars(SenderStep) /\ WF_vars(ReceiverStep)

-----------------------------------------------------------------------------
(* What must hold.                                                         *)

TypeOK ==
  /\ at \in {"next", "write", "load", "await", "finished", "closed"}
  /\ next \in 1..(MaxFiles + 1)
  /\ item \in {"none", "save", "marker", "raw", "finish"}
  /\ length \in Nat /\ total \in Nat /\ buffered \in Nat
  /\ file_len \in Nat /\ disk \in Nat /\ start \in Nat
  /\ written \in Nat /\ read \in Nat /\ open \in BOOLEAN
  /\ ack \in {"none", "ReceivedFile", "AwaitingLargeFile", "DontSendLargeFile"}
  /\ place \in {"prefix", "body", "copy_prefix", "copy", "finished", "closed"}
  /\ got \in Nat /\ content_length \in Nat /\ path \in 0..MaxFiles
  /\ files \in [Listed -> {"absent", "partial", "whole", "garbled"}]
  /\ given_up \subseteq Listed
  /\ mishaps \in 0..MaxMishaps
  /\ read <= written /\ InFlight <= SocketCap

\* Both sides count the same body: a length is never read out of the middle
\* of something else, a raw file is never taken for a message nor a message
\* for a raw file, and the receiver never takes a byte that belongs to what
\* comes after, although receive_to_writer reads as much as it can get.
CountsAgree ==
  place \in {"body", "copy"} =>
    /\ content_length = length /\ got < length
    /\ read = start + PrefixLen + got
    /\ (place = "copy") <=> (item = "raw")

\* An answer is about the item the sender waits for: by then every byte of it
\* has been written and read, and a sender that is told to send a large file
\* is the one that has announced it.
AnswersMatch ==
  ack # "none" /\ at # "closed" =>
    /\ at = "await" /\ read = written
    /\ ack = "AwaitingLargeFile" => item = "marker" /\ path = next
    /\ ack = "DontSendLargeFile" => item = "marker"

Delivery == INSTANCE FileDelivery

\* No file is passed over unless it is stored whole or one of the sides had an
\* error with it, and none is stored twice or mixed with another, whatever is
\* cut, refused, unreadable or truncated, and wherever the disk fails.
KeepsDelivery == Delivery!DeliverySpec

\* A large file that does not keep the length it was announced with, or whose
\* reading failed.
Spoiled ==
  item = "raw" /\ (disk # file_len \/ (at = "await" /\ total # length))

\* Both sides come to an end, of the list or of the connection, unless a large
\* file is spoiled while it is sent.  Without the premise both wait for ever.
TransferEnds ==
  [](~Spoiled) => <>(at \in {"finished", "closed"} /\ place \in {"finished", "closed"})
=============================================================================
