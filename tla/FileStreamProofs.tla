-------------------------- MODULE FileStreamProofs --------------------------
(***************************************************************************)
(* Proofs about the transfer of files, for any number of files, sizes of   *)
(* messages and files, chunk and socket, and any number of mishaps, except *)
(* that a large file does not grow while it is sent: then the code sends   *)
(* more than it has announced.  The invariant says for every place of the  *)
(* sender how many bytes it has written, and for every place of the        *)
(* receiver how many it has read, both counted from where the item starts. *)
(***************************************************************************)
EXTENDS FileStream, TLAPS

\* An item is on its way, or was when the sender gave up.
Sending == at # "next"

\* What the sender has written and what write_all has left make up the length
\* and the bytes taken from the source, never more than announced.
Counted ==
  Sending =>
    /\ written + buffered = start + PrefixLen + total
    /\ total <= length /\ length # 0
    /\ item # "raw" => total = length
    /\ at = "write" => buffered # 0
    /\ at \in {"load", "await", "finished"} => buffered = 0
    /\ at = "load" => total # length

\* An item belongs to the file the sender is at, and only the end has none.
Announced ==
  Sending =>
    /\ item # "none"
    /\ item # "finish" => next \in Listed
    /\ item = "finish" => at # "await"
    /\ at = "finished" => item = "finish"
    /\ item \in {"marker", "raw"} => file_len # 0 /\ disk <= file_len
    /\ item = "raw" => length = file_len

\* Between two items nothing is on its way.
Between ==
  ~Sending => read = written /\ got = 0 /\ ack = "none" /\ place \in {"prefix", "closed"}

\* A length is read from the beginning of the item, and by the receiver that
\* expects an item of its kind.
InPrefix ==
  Sending /\ ack = "none" /\ place \in {"prefix", "copy_prefix"} =>
    /\ read = start + got /\ got < PrefixLen
    /\ (place = "copy_prefix") <=> (item = "raw")

\* An answer comes when the item was read to its end.
Answered ==
  ack # "none" =>
    /\ at \in {"await", "closed"} /\ read = written /\ got = 0
    /\ place \in {IF ack = "AwaitingLargeFile" THEN "copy_prefix" ELSE "prefix", "closed"}
    /\ ack # "ReceivedFile" => item = "marker"

\* What is stored of the file the sender is at, and nothing of those after it.
\* A file that was given up is left behind, or its answer says to go on.
Stored ==
  /\ \A f \in Listed : f > next \/ (f = next /\ ~Sending) => files[f] = "absent"
  /\ \A f \in given_up :
       f < next \/ (f = next /\ ack \in {"ReceivedFile", "DontSendLargeFile"})
  /\ Sending /\ next \in Listed =>
       /\ ack = "none" /\ item # "raw" => files[next] = "absent"
       /\ ack = "none" /\ item = "raw" => files[next] = "partial" /\ path = next
       /\ ack = "AwaitingLargeFile" => files[next] = "partial" /\ path = next
       /\ ack \in {"ReceivedFile", "DontSendLargeFile"} =>
            files[next] = "whole" \/ next \in given_up

Counts == Counted /\ Announced
Places == Between /\ InPrefix /\ CountsAgree /\ Answered

IInv == TypeOK /\ Counts /\ Places /\ Stored

\* The large files are as long as their metadata says, or become shorter.
NoGrowth == "grow" \notin Mishaps

-----------------------------------------------------------------------------
\* In the beginning nothing was sent (send_files and receive_files at entry).
LEMMA InitIInv == Init => IInv
PROOF
  BY StreamAssumption
  DEF Init, IInv, TypeOK, Counts, Places, Stored, Counted, Announced, Between, InPrefix,
      CountsAgree, Answered, Sending, InFlight, Listed

\* A message starts at the end of what was written before it (transport).
LEMMA TransportStep ==
  ASSUME IInv, at = "next", NEW n \in MessageSizes, NEW kind \in {"save", "marker", "finish"},
         Transport(kind, n), (kind = "finish") <=> (next \notin Listed),
         kind = "marker" => disk' \in LargeSizes /\ file_len' = disk',
         kind # "marker" => UNCHANGED <<file_len, disk>>,
         UNCHANGED <<next, wire, receiver, mishaps>>
  PROVE  IInv'
PROOF
  <1>1. n \in Nat \ {0}
    BY StreamAssumption
  <1>2. /\ disk' \in Nat /\ file_len' \in Nat
        /\ kind = "marker" => file_len' # 0 /\ disk' = file_len'
    <2>1. CASE kind = "marker"
      BY <2>1, StreamAssumption
    <2>2. CASE kind # "marker"
      BY <2>2 DEF IInv, TypeOK
    <2> QED
      BY <2>1, <2>2
  <1>3. TypeOK'
    BY <1>1, <1>2, StreamAssumption
    DEF IInv, TypeOK, Transport, wire, receiver, InFlight, Listed
  <1>4. Counts'
    <2>1. Counted'
      BY <1>1, StreamAssumption DEF IInv, TypeOK, Counted, Sending, Transport, wire
    <2>2. Announced'
      BY <1>1, <1>2 DEF Announced, Sending, Transport
    <2> QED
      BY <2>1, <2>2 DEF Counts
  <1>5. Places'
    BY StreamAssumption
    DEF IInv, TypeOK, Places, Between, InPrefix, CountsAgree, Answered, Sending, Transport,
        wire, receiver
  <1>6. Stored'
    BY DEF IInv, TypeOK, Places, Between, Stored, Sending, Transport, wire, receiver, Listed
  <1> QED
    BY <1>3, <1>4, <1>5, <1>6 DEF IInv

\* A file that cannot be read is left as absent as it was (send_files).
LEMMA SkipFileStep == IInv /\ SkipFile => IInv'
PROOF
  <1> SUFFICES ASSUME IInv, SkipFile PROVE IInv'
    OBVIOUS
  <1>1. TypeOK'
    BY StreamAssumption DEF IInv, TypeOK, SkipFile, Mishap, wire, receiver, InFlight, Listed
  <1>2. Counts' /\ Places'
    BY DEF IInv, Counts, Places, Counted, Announced, Between, InPrefix, CountsAgree, Answered,
           Sending, SkipFile, wire, receiver
  <1>3. Stored'
    BY StreamAssumption DEF IInv, TypeOK, Stored, Sending, SkipFile, wire, receiver, Listed
  <1> QED
    BY <1>1, <1>2, <1>3 DEF IInv

\* Bytes move from write_all to the connection, never more than it has room
\* for, and with the last one the sender waits or reads on.
LEMMA WriteStep == IInv /\ Write => IInv'
PROOF
  <1> SUFFICES ASSUME IInv, Write PROVE IInv'
    OBVIOUS
  <1>1. PICK k \in 1..Least(buffered, SocketCap - InFlight) :
          /\ written' = written + k
          /\ buffered' = buffered - k
          /\ at' = IF k = buffered THEN AfterWrite ELSE "write"
    BY DEF Write
  <1>2. k \in Nat \ {0} /\ k <= buffered /\ k <= SocketCap - InFlight
    BY StreamAssumption DEF IInv, TypeOK, InFlight, Least
  <1>3. at' \in {"write", "load", "await", "finished"}
    BY <1>1 DEF AfterWrite
  <1>4. TypeOK'
    BY <1>1, <1>2, <1>3, StreamAssumption DEF IInv, TypeOK, Write, receiver, InFlight, Listed
  <1>5. Counted'
    BY <1>1, <1>2, StreamAssumption
    DEF IInv, TypeOK, Counts, Counted, Sending, Write, AfterWrite
  <1>6. Announced'
    BY <1>1 DEF IInv, Counts, Counted, Announced, Sending, Write, AfterWrite
  <1>7. Places'
    BY <1>1, <1>3
    DEF IInv, Places, Between, InPrefix, CountsAgree, Answered, Sending, Write, receiver
  <1>8. Stored'
    BY <1>3 DEF IInv, Stored, Sending, Write, receiver
  <1> QED
    BY <1>4, <1>5, <1>6, <1>7, <1>8 DEF IInv, Counts

\* The three messages of the protocol.
LEMMA MessageStep ==
  IInv /\ (SendSmallFile \/ SendMarker \/ SendFinish) => IInv'
PROOF
  <1> SUFFICES ASSUME IInv, SendSmallFile \/ SendMarker \/ SendFinish PROVE IInv'
    OBVIOUS
  <1>1. CASE SendSmallFile
    <2>1. PICK n \in MessageSizes : Transport("save", n)
      BY <1>1 DEF SendSmallFile
    <2> QED
      BY <1>1, <2>1, TransportStep DEF SendSmallFile
  <1>2. CASE SendMarker
    <2>1. PICK n \in MessageSizes : Transport("marker", n)
      BY <1>2 DEF SendMarker
    <2> QED
      BY <1>2, <2>1, TransportStep DEF SendMarker
  <1>3. CASE SendFinish
    <2>1. PICK n \in MessageSizes : Transport("finish", n)
      BY <1>3 DEF SendFinish
    <2> QED
      BY <1>3, <2>1, TransportStep DEF SendFinish
  <1> QED
    BY <1>1, <1>2, <1>3

\* The sender waits for the next chunk only of a raw file.
LEMMA LoadingRaw == IInv /\ at = "load" => item = "raw" /\ next \in Listed /\ length = file_len
PROOF
  BY DEF IInv, Counts, Counted, Announced, Sending

\* A chunk is taken from a file that holds no more than was announced
\* (transport_from_reader).
LEMMA LoadStep == IInv /\ Load => IInv'
PROOF
  <1> SUFFICES ASSUME IInv, Load PROVE IInv'
    OBVIOUS
  <1>1. item = "raw" /\ next \in Listed /\ length = file_len
    BY LoadingRaw DEF Load
  <1>2. PICK k \in 1..BufferLen : total + k <= disk /\ total' = total + k /\ buffered' = k
    BY DEF Load
  <1>3. TypeOK'
    BY <1>2, StreamAssumption DEF IInv, TypeOK, Load, wire, receiver, InFlight
  <1>4. Counted'
    BY <1>1, <1>2, StreamAssumption
    DEF IInv, TypeOK, Counts, Counted, Announced, Sending, Load, wire
  <1>5. Announced' /\ Places' /\ Stored'
    BY DEF IInv, Counts, Announced, Places, Between, InPrefix, CountsAgree, Answered, Stored,
           Sending, Load, wire, receiver
  <1> QED
    BY <1>3, <1>4, <1>5 DEF IInv, Counts

\* The reading of a raw file fails: the sender waits for an answer
\* (the result of transport_from_reader is dropped).
LEMMA LoadFailsStep == IInv /\ LoadFails => IInv'
PROOF
  <1> SUFFICES ASSUME IInv, LoadFails PROVE IInv'
    OBVIOUS
  <1>1. item = "raw"
    BY LoadingRaw DEF LoadFails
  <1>2. TypeOK'
    BY StreamAssumption DEF IInv, TypeOK, LoadFails, Mishap, wire, receiver, InFlight
  <1>3. Counts' /\ Places' /\ Stored'
    BY <1>1
    DEF IInv, Counts, Counted, Announced, Places, Between, InPrefix, CountsAgree, Answered,
        Stored, Sending, LoadFails, wire, receiver
  <1> QED
    BY <1>2, <1>3 DEF IInv

\* The raw file starts where its marker ended, for a receiver that waits for it.
LEMMA OpenLargeFileStep == IInv /\ OpenLargeFile => IInv'
PROOF
  <1> SUFFICES ASSUME IInv, OpenLargeFile PROVE IInv'
    OBVIOUS
  <1>1. TypeOK'
    BY StreamAssumption DEF IInv, TypeOK, OpenLargeFile, receiver, InFlight
  <1>2. Counts'
    BY StreamAssumption
    DEF IInv, TypeOK, Counts, Counted, Announced, Sending, OpenLargeFile
  <1>3. Places'
    BY StreamAssumption
    DEF IInv, TypeOK, Places, Between, InPrefix, CountsAgree, Answered, Sending, OpenLargeFile,
        receiver
  <1>4. Stored'
    BY DEF IInv, Counts, Announced, Stored, Sending, OpenLargeFile, receiver
  <1> QED
    BY <1>1, <1>2, <1>3, <1>4 DEF IInv

\* The sender gives up where it is.
LEMMA GivesUpStep == IInv /\ (OpenFails \/ SenderFails) => IInv'
PROOF
  <1> SUFFICES ASSUME IInv, OpenFails \/ SenderFails PROVE IInv'
    OBVIOUS
  <1>1. /\ at \in {"write", "await"} /\ at' = "closed" /\ open' \in BOOLEAN
        /\ mishaps' \in 0..MaxMishaps
        /\ UNCHANGED <<next, item, length, total, buffered, file_len, start, disk, written,
                       read, ack, receiver>>
    <2>1. CASE OpenFails
      <3>1. mishaps' \in 0..MaxMishaps
        BY <2>1, StreamAssumption DEF IInv, TypeOK, OpenFails, Mishap
      <3> QED
        BY <2>1, <3>1 DEF OpenFails
    <2>2. CASE SenderFails
      BY <2>2 DEF IInv, TypeOK, SenderFails, wire
    <2> QED
      BY <2>1, <2>2
  <1>2. TypeOK'
    BY <1>1 DEF IInv, TypeOK, receiver, InFlight
  <1>3. Counts' /\ Places' /\ Stored'
    BY <1>1
    DEF IInv, Counts, Counted, Announced, Places, Between, InPrefix, CountsAgree, Answered,
        Stored, Sending, receiver
  <1> QED
    BY <1>2, <1>3 DEF IInv

\* The answer to a file takes the sender to the next one, with nothing left
\* on the way and nothing stored of it.
LEMMA NextFileStep == IInv /\ NextFile => IInv'
PROOF
  <1> SUFFICES ASSUME IInv, NextFile PROVE IInv'
    OBVIOUS
  <1>1. ack \in {"ReceivedFile", "DontSendLargeFile"} /\ next \in Listed
    BY DEF IInv, TypeOK, Counts, Announced, Places, Answered, Sending, NextFile
  <1>2. TypeOK'
    BY <1>1, StreamAssumption DEF IInv, TypeOK, NextFile, receiver, InFlight, Listed
  <1>3. Counts' /\ Places'
    BY <1>1
    DEF IInv, Counts, Counted, Announced, Places, Between, InPrefix, CountsAgree, Answered,
        Sending, NextFile, receiver
  <1>4. Stored'
    BY <1>1, StreamAssumption DEF IInv, TypeOK, Stored, Sending, NextFile, receiver, Listed
  <1> QED
    BY <1>2, <1>3, <1>4 DEF IInv

-----------------------------------------------------------------------------
\* A length is read in any number of pieces; the last byte of it makes the
\* announced length known (read_buffer_bytes).
LEMMA ReadLengthStep == IInv /\ ReadLength => IInv'
PROOF
  <1> SUFFICES ASSUME IInv, ReadLength PROVE IInv'
    OBVIOUS
  <1>1. PICK k \in 1..Least(InFlight, PrefixLen - got) :
          /\ read' = read + k
          /\ IF got + k < PrefixLen
             THEN got' = got + k /\ UNCHANGED <<place, content_length>>
             ELSE /\ got' = 0
                  /\ content_length' = IF read' = start + PrefixLen THEN length ELSE 0
                  /\ place' = IF place = "prefix" THEN "body" ELSE "copy"
    BY DEF ReadLength
  <1>2. k \in Nat \ {0} /\ k <= written - read /\ k <= PrefixLen - got
    BY StreamAssumption DEF IInv, TypeOK, InFlight, Least
  <1>3. Sending /\ ack = "none" /\ place \in {"prefix", "copy_prefix"}
    BY <1>2 DEF IInv, TypeOK, Places, Between, Answered, ReadLength
  <1>4. /\ read = start + got /\ got < PrefixLen
        /\ (place = "copy_prefix") <=> (item = "raw")
    BY <1>3 DEF IInv, Places, InPrefix
  <1>5. /\ Sending' /\ ack' = "none" /\ item' = item /\ length' = length /\ start' = start
        /\ at' = at /\ next' = next
    BY <1>3 DEF ReadLength, sender, Sending
  <1>6. length \in Nat \ {0}
    BY <1>3 DEF IInv, TypeOK, Counts, Counted
  <1>7. TypeOK'
    BY <1>1, <1>2, StreamAssumption DEF IInv, TypeOK, ReadLength, sender, InFlight
  <1>8. Counts' /\ Stored'
    BY DEF IInv, Counts, Counted, Announced, Stored, Sending, ReadLength, sender
  <1>9. Places'
    <2>1. CASE got + k < PrefixLen
      <3>1. read' = start' + got' /\ got' < PrefixLen /\ place' = place
        BY <1>1, <1>2, <1>4, <1>5, <2>1, StreamAssumption DEF IInv, TypeOK
      <3> QED
        BY <1>3, <1>4, <1>5, <3>1 DEF Places, Between, InPrefix, CountsAgree, Answered
    <2>2. CASE ~(got + k < PrefixLen)
      <3>1. got' = 0 /\ read' = start' + PrefixLen + got' /\ content_length' = length
        BY <1>1, <1>2, <1>4, <1>5, <2>2, StreamAssumption DEF IInv, TypeOK
      <3>2. place' \in {"body", "copy"} /\ ((place' = "copy") <=> (item' = "raw"))
        BY <1>1, <1>3, <1>4, <1>5, <2>2
      <3> QED
        BY <1>5, <1>6, <3>1, <3>2 DEF Places, Between, InPrefix, CountsAgree, Answered
    <2> QED
      BY <2>1, <2>2
  <1> QED
    BY <1>7, <1>8, <1>9 DEF IInv

\* While a body is read, nothing was answered and nothing stored of it yet.
LEMMA InBody ==
  ASSUME IInv, place \in {"body", "copy"}
  PROVE  /\ Sending /\ ack = "none"
         /\ content_length = length /\ got < length /\ read = start + PrefixLen + got
         /\ (place = "copy") <=> (item = "raw")
         /\ item \in {"save", "marker", "raw", "finish"}
         /\ item # "finish" => next \in Listed
         /\ item \in {"save", "marker"} => files[next] = "absent"
         /\ item = "raw" => files[next] = "partial" /\ path = next
         /\ next \notin given_up
PROOF
  <1>1. Sending /\ ack = "none"
    BY DEF IInv, TypeOK, Places, Between, Answered
  <1>2. /\ content_length = length /\ got < length /\ read = start + PrefixLen + got
        /\ (place = "copy") <=> (item = "raw")
    BY DEF IInv, Places, CountsAgree
  <1>3. item \in {"save", "marker", "raw", "finish"} /\ (item # "finish" => next \in Listed)
    BY <1>1 DEF IInv, TypeOK, Counts, Announced
  <1>4. next \notin given_up
    BY <1>1 DEF IInv, TypeOK, Stored
  <1> QED
    BY <1>1, <1>2, <1>3, <1>4 DEF IInv, Stored

\* The bytes of a body: a piece that does not end it is added to the count, and
\* with the last one all that was written has been read, so that the sender
\* waits, or is at its end.
LEMMA BodyBytes ==
  ASSUME IInv, place \in {"body", "copy"}, NEW k \in Nat \ {0}, k <= written - read
  PROVE  /\ got + k <= length
         /\ got + k = length =>
              /\ read + k = written /\ read + k = start + PrefixLen + length
              /\ item # "finish" => at \in {"await", "closed"}
PROOF
  <1>1. /\ Sending /\ read = start + PrefixLen + got
        /\ written + buffered = start + PrefixLen + total /\ total <= length
    BY InBody DEF IInv, Counts, Counted
  <1>2. got + k <= length
    BY <1>1, StreamAssumption DEF IInv, TypeOK
  <1>3. ASSUME got + k = length
        PROVE  /\ read + k = written /\ read + k = start + PrefixLen + length
               /\ buffered = 0 /\ total = length
    BY <1>1, <1>3, StreamAssumption DEF IInv, TypeOK
  <1>4. ASSUME got + k = length, item # "finish" PROVE at \in {"await", "closed"}
    BY <1>1, <1>3, <1>4 DEF IInv, TypeOK, Counts, Counted, Announced, Sending
  <1> QED
    BY <1>2, <1>3, <1>4

\* More bytes of a body that is not read to its end.
LEMMA MoreBytes ==
  ASSUME IInv, place \in {"body", "copy"}, NEW k \in Nat \ {0}, k <= written - read,
         got + k # length, read' = read + k, got' = got + k, open' \in BOOLEAN,
         UNCHANGED <<sender, disk, written, content_length, place, ack, path, files, given_up,
                     mishaps>>
  PROVE  IInv'
PROOF
  <1>1. /\ got + k < length /\ read + k = start + PrefixLen + (got + k)
        /\ Sending /\ ack = "none" /\ content_length = length
        /\ (place = "copy") <=> (item = "raw")
    BY InBody, BodyBytes, StreamAssumption DEF IInv, TypeOK
  <1>2. TypeOK'
    <2>1. read' \in Nat /\ got' \in Nat /\ read' <= written' /\ InFlight' <= SocketCap
      BY StreamAssumption DEF IInv, TypeOK, InFlight
    <2> QED
      BY <2>1 DEF IInv, TypeOK, sender
  <1>3. Counts' /\ Stored'
    BY DEF IInv, Counts, Counted, Announced, Stored, Sending, sender
  <1>4. Places'
    BY <1>1 DEF Places, Between, InPrefix, CountsAgree, Answered, Sending, sender
  <1> QED
    BY <1>2, <1>3, <1>4 DEF IInv

\* The last byte of a body, with an answer that fits what was stored.
LEMMA LastByte ==
  ASSUME IInv, place \in {"body", "copy"}, NEW k \in Nat \ {0}, k <= written - read,
         got + k = length, item # "finish", read' = read + k, got' = 0, open' \in BOOLEAN,
         UNCHANGED <<sender, disk, written, content_length>>,
         mishaps' \in 0..MaxMishaps, path' \in 0..MaxFiles,
         ack' \in {"ReceivedFile", "AwaitingLargeFile", "DontSendLargeFile"},
         place' = IF ack' = "AwaitingLargeFile" THEN "copy_prefix" ELSE "prefix",
         ack' # "ReceivedFile" => item = "marker",
         NEW stored \in {"absent", "partial", "whole"},
         files' = [files EXCEPT ![next] = stored],
         ack' = "AwaitingLargeFile" =>
           stored = "partial" /\ path' = next /\ given_up' = given_up,
         ack' # "AwaitingLargeFile" =>
           \/ stored = "whole" /\ given_up' = given_up
           \/ given_up' = given_up \cup {next}
  PROVE  IInv'
PROOF
  <1>1. /\ Sending /\ next \in Listed
        /\ read' = written /\ at \in {"await", "closed"}
    BY InBody, BodyBytes
  <1>2. TypeOK'
    <2>1. read' \in Nat /\ read' <= written' /\ InFlight' <= SocketCap
      BY <1>1, StreamAssumption DEF IInv, TypeOK, InFlight
    <2>2. given_up' \subseteq Listed
      BY <1>1 DEF IInv, TypeOK
    <2> QED
      BY <2>1, <2>2 DEF IInv, TypeOK, sender
  <1>3. Counts'
    BY DEF IInv, Counts, Counted, Announced, Sending, sender
  <1>4. Places'
    BY <1>1 DEF Places, Between, InPrefix, CountsAgree, Answered, Sending, sender
  <1>5. files'[next] = stored /\ \A f \in Listed : f # next => files'[f] = files[f]
    BY <1>1 DEF IInv, TypeOK
  <1>6. next' = next /\ Sending'
    BY <1>1 DEF Sending, sender
  <1>7. Stored'
    <2>1. \A f \in Listed : f > next => files'[f] = "absent"
      BY <1>1, <1>5 DEF IInv, TypeOK, Stored, Listed
    <2>2. given_up' = given_up \/ (given_up' = given_up \cup {next} /\ ack' # "AwaitingLargeFile")
      OBVIOUS
    <2>3. \A f \in given_up : f < next
      BY <1>1, InBody DEF IInv, TypeOK, Stored
    <2>4. \A f \in given_up' :
            f < next \/ (f = next /\ ack' \in {"ReceivedFile", "DontSendLargeFile"})
      BY <2>2, <2>3
    <2>5. ack' # "AwaitingLargeFile" => files'[next] = "whole" \/ next \in given_up'
      BY <1>5
    <2>6. ack' = "AwaitingLargeFile" => files'[next] = "partial" /\ path' = next
      BY <1>5
    <2> QED
      BY <1>1, <1>5, <1>6, <2>1, <2>4, <2>5, <2>6 DEF Stored
  <1> QED
    BY <1>2, <1>3, <1>4, <1>7 DEF IInv

\* What the receiver does with a piece of a message: the body that ends is that
\* of the message being sent, so that it always deserializes.
LEMMA ReadBodyCases ==
  ASSUME IInv, ReadBody
  PROVE  \E k \in Nat \ {0} :
           /\ k <= written - read /\ read' = read + k /\ open' \in BOOLEAN
           /\ UNCHANGED <<sender, disk, written, content_length>>
           /\ \/ /\ got + k # length /\ got' = got + k
                 /\ UNCHANGED <<place, ack, path, files, given_up, mishaps>>
              \/ /\ got + k = length /\ got' = 0
                 /\ \/ item = "save" /\ HandleSave
                    \/ item = "marker" /\ HandleMarker
                    \/ item = "finish" /\ HandleFinish
PROOF
  <1>1. PICK k \in 1..Least(InFlight, content_length - got) :
          /\ read' = read + k
          /\ IF got + k < content_length
             THEN got' = got + k /\ UNCHANGED <<place, ack, path, files, given_up, mishaps>>
             ELSE /\ got' = 0
                  /\ CASE ~IsMessage        -> Undecodable
                       [] item = "save"     -> HandleSave
                       [] item = "marker"   -> HandleMarker
                       [] item = "finish"   -> HandleFinish
    BY DEF ReadBody
  <1>2. k \in Nat \ {0} /\ k <= written - read /\ got + k <= content_length
    BY StreamAssumption DEF IInv, TypeOK, InFlight, Least
  <1>3. place = "body" /\ open' \in BOOLEAN /\ UNCHANGED <<sender, disk, written, content_length>>
    BY DEF ReadBody
  <1>4. content_length = length /\ item \in {"save", "marker", "finish"}
    BY <1>3, InBody
  <1>5. CASE got + k < content_length
    BY <1>1, <1>2, <1>3, <1>4, <1>5 DEF IInv, TypeOK
  <1>6. CASE ~(got + k < content_length)
    <2>1. got + k = length
      BY <1>2, <1>4, <1>6 DEF IInv, TypeOK
    <2>2. IsMessage
      BY <1>1, <1>2, <1>3, <1>4, <2>1, BodyBytes DEF IsMessage
    <2>3. \/ item = "save" /\ HandleSave
          \/ item = "marker" /\ HandleMarker
          \/ item = "finish" /\ HandleFinish
      <3>1. CASE item = "save"
        BY <1>1, <1>6, <2>2, <3>1
      <3>2. CASE item = "marker"
        BY <1>1, <1>6, <2>2, <3>2
      <3>3. CASE item = "finish"
        BY <1>1, <1>6, <2>2, <3>3
      <3> QED
        BY <1>4, <3>1, <3>2, <3>3
    <2> QED
      BY <1>1, <1>2, <1>3, <1>6, <2>1, <2>3
  <1> QED
    BY <1>5, <1>6

\* A message is read (receive_files), and a small file stored, a large one
\* created, or the failure of either answered.
LEMMA ReadBodyStep == IInv /\ ReadBody => IInv'
PROOF
  <1> SUFFICES ASSUME IInv, ReadBody PROVE IInv'
    OBVIOUS
  <1>1. place = "body"
    BY DEF ReadBody
  <1>2. PICK k \in Nat \ {0} :
          /\ k <= written - read /\ read' = read + k /\ open' \in BOOLEAN
          /\ UNCHANGED <<sender, disk, written, content_length>>
          /\ \/ /\ got + k # length /\ got' = got + k
                /\ UNCHANGED <<place, ack, path, files, given_up, mishaps>>
             \/ /\ got + k = length /\ got' = 0
                /\ \/ item = "save" /\ HandleSave
                   \/ item = "marker" /\ HandleMarker
                   \/ item = "finish" /\ HandleFinish
    BY ReadBodyCases
  <1>3. CASE got + k # length
    BY <1>1, <1>2, <1>3, MoreBytes
  <1>4. ASSUME got + k = length, item = "save", HandleSave PROVE IInv'
    <2>1. next \in Listed /\ files[next] = "absent" /\ got' = 0
      BY <1>1, <1>2, <1>4, InBody
    <2>2. mishaps' \in 0..MaxMishaps /\ path' \in 0..MaxFiles
      BY <1>4, StreamAssumption DEF IInv, TypeOK, HandleSave, Mishap
    <2>3. PICK stored \in {"absent", "partial", "whole"} :
            /\ files' = [files EXCEPT ![next] = stored]
            /\ \/ stored = "whole" /\ given_up' = given_up
               \/ given_up' = given_up \cup {next}
      <3>1. files = [files EXCEPT ![next] = "absent"]
        BY <2>1 DEF IInv, TypeOK
      <3> QED
        BY <1>4, <3>1 DEF HandleSave
    <2>4. place' = "prefix" /\ ack' = "ReceivedFile"
      BY <1>4 DEF HandleSave
    <2> QED
      BY <1>1, <1>2, <1>4, <2>1, <2>2, <2>3, <2>4, LastByte
  <1>5. ASSUME got + k = length, item = "marker", HandleMarker PROVE IInv'
    <2>1. next \in Listed /\ files[next] = "absent" /\ got' = 0
      BY <1>1, <1>2, <1>5, InBody
    <2>2. mishaps' \in 0..MaxMishaps /\ path' \in 0..MaxFiles
      BY <1>5, <2>1, StreamAssumption DEF IInv, TypeOK, HandleMarker, Mishap, Listed
    <2>3. CASE ack' = "AwaitingLargeFile"
      BY <1>1, <1>2, <1>5, <2>1, <2>2, <2>3, LastByte DEF HandleMarker
    <2>4. CASE ack' # "AwaitingLargeFile"
      <3>1. files' = [files EXCEPT ![next] = "absent"]
        BY <1>5, <2>1, <2>4 DEF IInv, TypeOK, HandleMarker
      <3> QED
        BY <1>1, <1>2, <1>5, <2>1, <2>2, <2>4, <3>1, LastByte DEF HandleMarker
    <2> QED
      BY <2>3, <2>4
  <1>6. ASSUME got + k = length, item = "finish", HandleFinish PROVE IInv'
    <2>1. got' = 0 /\ place' = "finished" /\ Sending /\ ack = "none" /\ read' = written
      BY <1>1, <1>2, <1>6, InBody, BodyBytes DEF HandleFinish
    <2>2. TypeOK'
      BY <1>2, <1>6, <2>1, StreamAssumption DEF IInv, TypeOK, HandleFinish, sender, InFlight
    <2>3. Counts' /\ Places' /\ Stored'
      BY <1>2, <1>6, <2>1
      DEF IInv, Counts, Counted, Announced, Places, Between, InPrefix, CountsAgree, Answered,
          Stored, Sending, HandleFinish, sender
    <2> QED
      BY <2>2, <2>3 DEF IInv
  <1> QED
    BY <1>2, <1>3, <1>4, <1>5, <1>6

\* The bytes a copy takes are never more than the rest of the raw file, and
\* the last one makes it whole (receive_to_writer).
LEMMA CopyCases ==
  ASSUME IInv, Copy
  PROVE  \E k \in Nat \ {0} :
           /\ k <= written - read /\ read' = read + k
           /\ UNCHANGED <<sender, disk, written, open, content_length, path, given_up, mishaps>>
           /\ \/ got + k # length /\ got' = got + k /\ UNCHANGED <<place, ack, files>>
              \/ /\ got + k = length /\ got' = 0
                 /\ files' = [files EXCEPT ![next] = "whole"]
                 /\ place' = "prefix" /\ ack' = "ReceivedFile"
PROOF
  <1>1. PICK k \in 1..Least(InFlight, BufferLen) :
          /\ read' = read + k
          /\ IF got + k # content_length
             THEN got' = got + k /\ UNCHANGED <<place, ack, files>>
             ELSE /\ got' = 0
                  /\ files' = [files EXCEPT ![path] =
                       IF item = "raw" /\ read' = start + PrefixLen + length
                       THEN "whole" ELSE "garbled"]
                  /\ place' = "prefix" /\ ack' = "ReceivedFile"
    BY DEF Copy
  <1>2. k \in Nat \ {0} /\ k <= written - read
    BY StreamAssumption DEF IInv, TypeOK, InFlight, Least
  <1>3. /\ place = "copy"
        /\ UNCHANGED <<sender, disk, written, open, content_length, path, given_up, mishaps>>
    BY DEF Copy
  <1>4. content_length = length /\ item = "raw" /\ path = next
    BY <1>3, InBody
  <1>5. CASE got + k # length
    BY <1>1, <1>2, <1>3, <1>4, <1>5
  <1>6. CASE got + k = length
    <2>1. read' = start + PrefixLen + length
      BY <1>1, <1>2, <1>3, <1>6, BodyBytes
    <2> QED
      BY <1>1, <1>2, <1>3, <1>4, <1>6, <2>1
  <1> QED
    BY <1>5, <1>6

\* The copy of a chunk (transport_from_reader) keeps the invariant.
LEMMA CopyStep == IInv /\ Copy => IInv'
PROOF
  <1> SUFFICES ASSUME IInv, Copy PROVE IInv'
    OBVIOUS
  <1>1. place = "copy"
    BY DEF Copy
  <1>2. PICK k \in Nat \ {0} :
          /\ k <= written - read /\ read' = read + k
          /\ UNCHANGED <<sender, disk, written, open, content_length, path, given_up, mishaps>>
          /\ \/ got + k # length /\ got' = got + k /\ UNCHANGED <<place, ack, files>>
             \/ /\ got + k = length /\ got' = 0
                /\ files' = [files EXCEPT ![next] = "whole"]
                /\ place' = "prefix" /\ ack' = "ReceivedFile"
    BY CopyCases
  <1>3. /\ open' \in BOOLEAN /\ mishaps' \in 0..MaxMishaps /\ path' \in 0..MaxFiles
        /\ item # "finish"
    BY <1>1, <1>2, InBody DEF IInv, TypeOK
  <1>4. CASE got + k # length
    BY <1>1, <1>2, <1>3, <1>4, MoreBytes
  <1>5. CASE got + k = length
    BY <1>1, <1>2, <1>3, <1>5, LastByte
  <1> QED
    BY <1>4, <1>5

\* A copy that cannot be written ends with the file half stored, where the
\* sender stays (receive_to_writer).
LEMMA CopyFailsStep == IInv /\ CopyFails => IInv'
PROOF
  <1> SUFFICES ASSUME IInv, CopyFails PROVE IInv'
    OBVIOUS
  <1>1. PICK k \in 1..Least(InFlight, BufferLen) : read' = read + k
    BY DEF CopyFails
  <1>2. k \in Nat \ {0} /\ k <= written - read
    BY StreamAssumption DEF IInv, TypeOK, InFlight, Least
  <1>3. Sending /\ ack = "none" /\ mishaps' \in 0..MaxMishaps
    BY InBody, StreamAssumption DEF IInv, TypeOK, CopyFails, Mishap
  <1>4. TypeOK'
    <2>1. read' \in Nat /\ read' <= written' /\ InFlight' <= SocketCap
      BY <1>1, <1>2, StreamAssumption DEF IInv, TypeOK, CopyFails, InFlight
    <2> QED
      BY <1>3, <2>1 DEF IInv, TypeOK, CopyFails, sender
  <1>5. Counts' /\ Places' /\ Stored'
    BY <1>3
    DEF IInv, Counts, Counted, Announced, Places, Between, InPrefix, CountsAgree, Answered,
        Stored, Sending, CopyFails, sender
  <1> QED
    BY <1>4, <1>5 DEF IInv

\* The receiver gives up where it is.
LEMMA ReceiverFailsStep == IInv /\ ReceiverFails => IInv'
PROOF
  BY DEF IInv, TypeOK, Counts, Counted, Announced, Places, Between, InPrefix, CountsAgree,
         Answered, Stored, Sending, InFlight, ReceiverFails, sender, wire

\* A large file may become shorter while it is sent, not longer.
LEMMA FileChangesStep == IInv /\ NoGrowth /\ FileChanges => IInv'
PROOF
  <1> SUFFICES ASSUME IInv, NoGrowth, FileChanges PROVE IInv'
    OBVIOUS
  <1>1. disk' \in Nat /\ disk' < file_len
    <2>1. disk' \in Nat /\ file_len \in Nat /\ disk' # file_len
      BY StreamAssumption DEF IInv, TypeOK, FileChanges
    <2>2. disk' < file_len
      BY <2>1 DEF NoGrowth, FileChanges, Mishap
    <2> QED
      BY <2>1, <2>2
  <1>2. mishaps' \in 0..MaxMishaps
    BY StreamAssumption DEF IInv, TypeOK, FileChanges, Mishap
  <1>3. TypeOK'
    BY <1>1, <1>2 DEF IInv, TypeOK, FileChanges, sender, wire, receiver, InFlight
  <1>4. Counts'
    BY <1>1 DEF IInv, TypeOK, Counts, Counted, Announced, Sending, FileChanges, sender, wire
  <1>5. Places' /\ Stored'
    BY DEF IInv, Places, Between, InPrefix, CountsAgree, Answered, Stored, Sending,
           FileChanges, sender, wire, receiver
  <1> QED
    BY <1>3, <1>4, <1>5 DEF IInv

\* The connection breaks between any two bytes.
LEMMA CutStep == IInv /\ Cut => IInv'
PROOF
  <1> SUFFICES ASSUME IInv, Cut PROVE IInv'
    OBVIOUS
  <1>1. mishaps' \in 0..MaxMishaps
    BY StreamAssumption DEF IInv, TypeOK, Cut, Mishap
  <1>2. TypeOK'
    BY <1>1 DEF IInv, TypeOK, Cut, sender, receiver, InFlight
  <1>3. Counts' /\ Places' /\ Stored'
    BY DEF IInv, Counts, Counted, Announced, Places, Between, InPrefix, CountsAgree, Answered,
           Stored, Sending, Cut, sender, receiver
  <1> QED
    BY <1>2, <1>3 DEF IInv

\* Every step of a transfer keeps the invariant, if no large file grows.
LEMMA NextIInv == IInv /\ NoGrowth /\ [Next]_vars => IInv'
PROOF
  <1> SUFFICES ASSUME IInv, NoGrowth, [Next]_vars PROVE IInv'
    OBVIOUS
  <1>1. CASE SenderStep
    BY <1>1, MessageStep, WriteStep, LoadStep, OpenLargeFileStep, NextFileStep, GivesUpStep
    DEF SenderStep
  <1>2. CASE ReceiverStep
    BY <1>2, ReadLengthStep, ReadBodyStep, CopyStep, ReceiverFailsStep DEF ReceiverStep
  <1>3. CASE Trouble
    BY <1>3, SkipFileStep, LoadFailsStep, GivesUpStep, CopyFailsStep, FileChangesStep,
       CutStep
    DEF Trouble
  <1>4. CASE UNCHANGED vars
    BY <1>4
    DEF IInv, TypeOK, Counts, Counted, Announced, Places, Between, InPrefix, CountsAgree,
        Answered, Stored, Sending, InFlight, vars, sender, wire, receiver
  <1> QED
    BY <1>1, <1>2, <1>3, <1>4 DEF Next

-----------------------------------------------------------------------------
(* The theorems                                                            *)

\* The invariant holds of the transfer, if no large file grows.
THEOREM Invariance == NoGrowth /\ Spec => []IInv
PROOF
  <1>1. ASSUME NoGrowth PROVE Spec => []IInv
    <2>1. Init => IInv
      BY InitIInv
    <2>2. IInv /\ [Next]_vars => IInv'
      BY <1>1, NextIInv
    <2> QED
      BY <2>1, <2>2, PTL DEF Spec
  <1> QED
    BY <1>1

\* Every place, count and answer of the two sides keeps its type, the receiver
\* reads only what was written, and the connection is never over its capacity.
THEOREM TypeCorrect == NoGrowth /\ Spec => []TypeOK
PROOF
  <1>1. IInv => TypeOK
    BY DEF IInv
  <1> QED
    BY <1>1, Invariance, PTL

\* transport.rs: whatever the sizes and however the bytes arrive, both sides
\* count the same body, and receive_to_writer never reads past its end.
THEOREM BothCountTheSame == NoGrowth /\ Spec => []CountsAgree
PROOF
  <1>1. IInv => CountsAgree
    BY DEF IInv, Places
  <1> QED
    BY <1>1, Invariance, PTL

\* send_files and receive_files: an answer is about the item the sender waits
\* for, all of which was written and read.
THEOREM AnswersFindTheirItem == NoGrowth /\ Spec => []AnswersMatch
PROOF
  <1>1. IInv => AnswersMatch
    <2> SUFFICES ASSUME IInv, ack # "none", at # "closed"
                 PROVE  /\ at = "await" /\ read = written
                        /\ ack = "AwaitingLargeFile" => item = "marker" /\ path = next
                        /\ ack = "DontSendLargeFile" => item = "marker"
      BY DEF AnswersMatch
    <2>1. at = "await" /\ read = written /\ (ack # "ReceivedFile" => item = "marker")
      BY DEF IInv, Places, Answered
    <2>2. next \in Listed
      BY <2>1 DEF IInv, Counts, Announced, Sending
    <2> QED
      BY <2>1, <2>2 DEF IInv, Stored, Sending
  <1> QED
    BY <1>1, Invariance, PTL

-----------------------------------------------------------------------------
(* The transfer implements FileDelivery.                                   *)

\* Only four steps concern the list or what is stored; each of them stores,
\* creates, gives up or leaves the file that the sender is at.
LEMMA QuietStep ==
  ASSUME \/ SendSmallFile \/ SendMarker \/ SendFinish \/ Write \/ Load \/ OpenLargeFile
         \/ SenderFails \/ ReadLength \/ ReceiverFails \/ LoadFails \/ OpenFails \/ CopyFails
         \/ FileChanges \/ Cut \/ UNCHANGED vars
  PROVE  UNCHANGED <<next, files, given_up>>
PROOF
  <1>1. CASE SendSmallFile \/ SendMarker \/ SendFinish \/ Write \/ Load \/ OpenLargeFile
    BY <1>1 DEF SendSmallFile, SendMarker, SendFinish, Write, Load, OpenLargeFile, receiver
  <1>2. CASE SenderFails \/ ReadLength \/ ReceiverFails \/ LoadFails \/ OpenFails \/ CopyFails
    BY <1>2
    DEF SenderFails, ReadLength, ReceiverFails, LoadFails, OpenFails, CopyFails, sender, receiver
  <1>3. CASE FileChanges \/ Cut \/ UNCHANGED vars
    BY <1>3 DEF FileChanges, Cut, vars, sender, receiver
  <1> QED
    BY <1>1, <1>2, <1>3

\* A file is left when it is whole, or was given up by one of the two.
LEMMA LeavingDelivers ==
  IInv /\ (SkipFile \/ NextFile) => Delivery!Skip \/ Delivery!Pass
PROOF
  <1> SUFFICES ASSUME IInv, SkipFile \/ NextFile PROVE Delivery!Skip \/ Delivery!Pass
    OBVIOUS
  <1>1. CASE SkipFile
    <2>1. next \in Listed /\ files[next] = "absent" /\ next' = next + 1 /\ files' = files
      BY <1>1 DEF IInv, Stored, Sending, SkipFile
    <2> QED
      BY <1>1, <2>1 DEF SkipFile, Delivery!Skip, Delivery!Listed, Listed
  <1>2. CASE NextFile
    <2>1. next \in Listed /\ ack \in {"ReceivedFile", "DontSendLargeFile"}
      BY <1>2 DEF IInv, TypeOK, Counts, Announced, Places, Answered, Sending, NextFile
    <2>2. files[next] = "whole" \/ next \in given_up
      BY <1>2, <2>1 DEF IInv, Stored, Sending, NextFile
    <2>3. next' = next + 1 /\ UNCHANGED <<files, given_up>>
      BY <1>2 DEF NextFile, receiver
    <2> QED
      BY <2>1, <2>2, <2>3 DEF Delivery!Pass, Delivery!Listed, Listed
  <1> QED
    BY <1>1, <1>2

\* A message creates, stores or gives up the file it announces, or does nothing.
LEMMA BodyDelivers ==
  IInv /\ ReadBody => \/ Delivery!Create \/ Delivery!Store \/ Delivery!GiveUp
                      \/ UNCHANGED <<next, files, given_up>>
PROOF
  <1> SUFFICES ASSUME IInv, ReadBody
               PROVE  \/ Delivery!Create \/ Delivery!Store \/ Delivery!GiveUp
                      \/ UNCHANGED <<next, files, given_up>>
    OBVIOUS
  <1>1. place = "body" /\ next' = next
    BY DEF ReadBody, sender
  <1>2. item \in {"save", "marker"} =>
          next \in Delivery!Listed /\ files[next] = "absent" /\ next \notin given_up
    BY <1>1, InBody DEF Listed, Delivery!Listed
  <1>3. \/ UNCHANGED <<files, given_up>>
        \/ item = "save" /\ HandleSave
        \/ item = "marker" /\ HandleMarker
        \/ item = "finish" /\ HandleFinish
    BY ReadBodyCases
  <1>4. CASE item = "save" /\ HandleSave
    BY <1>1, <1>2, <1>4 DEF HandleSave, Delivery!Store, Delivery!GiveUp
  <1>5. CASE item = "marker" /\ HandleMarker
    BY <1>1, <1>2, <1>5 DEF HandleMarker, Delivery!Create, Delivery!GiveUp
  <1>6. CASE item = "finish" /\ HandleFinish
    BY <1>1, <1>6 DEF HandleFinish
  <1> QED
    BY <1>1, <1>3, <1>4, <1>5, <1>6

\* A copy ends with the file it has begun.
LEMMA CopyDelivers == IInv /\ Copy => Delivery!Store \/ UNCHANGED <<next, files, given_up>>
PROOF
  <1> SUFFICES ASSUME IInv, Copy PROVE Delivery!Store \/ UNCHANGED <<next, files, given_up>>
    OBVIOUS
  <1>1. place = "copy" /\ next' = next
    BY DEF Copy, sender
  <1>2. next \in Listed /\ files[next] = "partial" /\ next \notin given_up
    BY <1>1, InBody
  <1>3. given_up' = given_up /\ (files' = files \/ files' = [files EXCEPT ![next] = "whole"])
    BY CopyCases
  <1> QED
    BY <1>1, <1>2, <1>3 DEF Delivery!Store, Delivery!Listed, Listed

\* send_files and receive_files keep what FileDelivery promises: files are
\* stored in the order of the list, none is left that is not whole unless one
\* of the two had an error with it, none is stored twice, and no bytes of one
\* end up in another.
THEOREM ImplementsDelivery == NoGrowth /\ Spec => KeepsDelivery
PROOF
  <1>1. Init => Delivery!DeliveryInit
    BY DEF Init, Listed, Delivery!DeliveryInit, Delivery!Listed
  <1>2. IInv /\ [Next]_vars => [Delivery!DeliveryNext]_(Delivery!deliveryVars)
    <2> SUFFICES ASSUME IInv, [Next]_vars
                 PROVE  Delivery!DeliveryNext \/ UNCHANGED <<next, files, given_up>>
      BY DEF Delivery!deliveryVars
    <2>1. CASE SkipFile \/ NextFile
      BY <2>1, LeavingDelivers DEF Delivery!DeliveryNext
    <2>2. CASE ReadBody
      BY <2>2, BodyDelivers DEF Delivery!DeliveryNext
    <2>3. CASE Copy
      BY <2>3, CopyDelivers DEF Delivery!DeliveryNext
    <2> QED
      BY <2>1, <2>2, <2>3, QuietStep DEF Next, SenderStep, ReceiverStep, Trouble
  <1> QED
    BY <1>1, <1>2, Invariance, PTL DEF Spec, KeepsDelivery, Delivery!DeliverySpec
=============================================================================
