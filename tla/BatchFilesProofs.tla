-------------------------- MODULE BatchFilesProofs --------------------------
(***************************************************************************)
(* A job finds its files: theorems about BatchFiles.                       *)
(*                                                                         *)
(* The folder of the head node knows no owners, so everything rests on the *)
(* names: a digest of the batch, its job and its files (filename_hash), a  *)
(* form and a number.  The digest is taken of names that are joined with   *)
(* nothing between them, so the code does not make sure that two batches   *)
(* have no path in common: `ab` in `c` and `a` in `bc` begin alike.        *)
(* NamesTellApart says what the users have to see to, and the theorems     *)
(* about the files hold under it.  EqualWidthsTellApart gives one way to   *)
(* see to it.                                                              *)
(*                                                                         *)
(* The invariant has two layers.  Bookkeeping says who has which job, and  *)
(* needs no names.  FilesHold follows the files on their way: what has     *)
(* arrived of a batch that is sent, what a queued batch needs, what a node *)
(* has got of its transfer and what it has built.                          *)
(***************************************************************************)
EXTENDS BatchFiles, SequenceTheorems, WellFoundedInduction, TLAPS

-----------------------------------------------------------------------------
(* The hypothesis                                                          *)

\* The digests in the paths of a batch.
HashesOf(b) ==
  {InitializeHash(Configs[b])}
    \cup {JobHash(Configs[b], Configs[b].jobs[j]) : j \in JobsOf(b)}

\* Digests of batches with different names differ, and so do those of the jobs
\* of a batch.  Batches that `distribute add` refuses are of no account.
NamesTellApart ==
  /\ \A b, c \in Batches : 
       Accepted(Configs[b]) /\ Accepted(Configs[c]) /\ ~SharesName(b, c)
         => HashesOf(b) \cap HashesOf(c) = {}
  /\ \A b \in Batches : Accepted(Configs[b]) =>
       \A i, j \in JobsOf(b) :
         JobHash(Configs[b], Configs[b].jobs[i]) = JobHash(Configs[b], Configs[b].jobs[j])
           => i = j

\* Names of one width cannot be taken for each other when they are joined.
WidthsAgree ==
  /\ \A b, c \in Batches : Accepted(Configs[b]) /\ Accepted(Configs[c]) =>
       /\ Len(Configs[b].batch_name) = Len(Configs[c].batch_name)
       /\ Len(Configs[b].namespace) = Len(Configs[c].namespace)
  /\ \A b \in Batches : Accepted(Configs[b]) =>
       \A i, j \in JobsOf(b) : Len(Configs[b].jobs[i].name) = Len(Configs[b].jobs[j].name)

-----------------------------------------------------------------------------
(* The invariant                                                           *)

\* The functions that the type invariant leaves open.
Listed ==
  /\ stored \in [Batches -> Nat] /\ sent \in [Nodes -> Nat]
  /\ DOMAIN received = Nodes /\ DOMAIN build = Nodes
  /\ DOMAIN remaining = Batches /\ DOMAIN running = Batches
  /\ \A b \in Batches : remaining[b] \in Seq(JobsOf(b))
  /\ \A n \in Nodes : build[n].batch \in Batches \cup {0}

\* Only a queued batch has jobs, and one that has not begun has stored nothing.
Phased ==
  \A b \in Batches :
    /\ phase[b] # "queued" => Jobs(b) = {}
    /\ phase[b] = "new" => stored[b] = 0

\* A node with a job has built its batch, and the job is on the list of those
\* that run, for this node alone.
Held ==
  /\ \A n \in Nodes :
       /\ task[n].place = "idle" => task[n] = Idle
       /\ task[n].place = "executing" => task[n].job # 0
       /\ task[n].place # "idle" => task[n].batch # 0
       /\ task[n].job # 0 => /\ task[n].job \in running[task[n].batch]
                             /\ build[n].batch = task[n].batch
  /\ \A m, n \in Nodes :
       task[m].job # 0 /\ task[m].batch = task[n].batch /\ task[m].job = task[n].job => m = n

\* What a node builds or has built has been queued.
Begun ==
  \A n \in Nodes : \A b \in {task[n].batch, build[n].batch} \ {0} :
    phase[b] \in {"queued", "dropped"}

\* Who has which job.
Bookkeeping == TypeOK /\ Listed /\ Phased /\ Held /\ Begun

\* A file stands if it is on the disk as it is in the configuration, or was
\* one that could not be saved, which is logged.
Stands(file) ==
  \/ file.hashed_path \in unsaved
  \/ file.hashed_path \in DOMAIN disk /\ disk[file.hashed_path] = file.bytes

\* A node has got a file under its name with its bytes.
Got(file, got) ==
  \/ file.hashed_path \in unsaved
  \/ /\ file.original_filename \in DOMAIN got
     /\ got[file.original_filename] = file.bytes

\* Only batches that are accepted get as far, and one that never shared its
\* name is under way alone.
OneOfAName ==
  /\ \A b \in Batches : phase[b] \in {"sending", "queued"} => Accepted(Configs[b])
  /\ \A b, c \in Batches :
       b # c /\ UnderWay(b) /\ UnderWay(c) /\ b \notin shared => ~SharesName(b, c)

\* What has arrived of a batch that is still sent stands on the disk.
StoredStand ==
  \A b \in Batches \ shared : phase[b] = "sending" =>
    \A i \in 1..stored[b] : Stands(SendableFiles[b][i])

\* The schedule still sends files of this batch, and all of them are its own.
Owed(b) == phase[b] = "queued" /\ Jobs(b) # {} /\ b \notin shared

\* None of the first n files but this one has its name, from it on.
LastSoFar(files, i, n) ==
  \A k \in 1..n : k > i => files[k].original_filename # files[i].original_filename

\* A node has got what it has been through of its transfer, if it is owed the
\* files,
TransferGot(n) ==
  LET files == FilesOf(task[n].batch, task[n].job) IN
  task[n].place # "idle" /\ Owed(task[n].batch) =>
    /\ task[n].place = "executing" => sent[n] = Len(files)
    /\ \A i \in 1..sent[n] : i \in DOMAIN files /\ LastSoFar(files, i, sent[n])
         => Got(files[i], received[n])

\* and has built with all of the files.
BuildGot(n) ==
  LET b == build[n].batch IN
  b # 0 /\ Owed(b) => Complete(FilesOf(b, 0), build[n].files)

\* The files are where they are needed.
FilesHold ==
  /\ OneOfAName /\ StoredStand /\ NeededFilesAreThere
  /\ \A n \in Nodes : TransferGot(n) /\ BuildGot(n)

\* The inductive invariant.
IInv == Bookkeeping /\ FilesHold

-----------------------------------------------------------------------------
(* Sequences of sequences                                                  *)

\* A set of numbers that is not empty has a least one.
LEMMA LeastNumber ==
  ASSUME NEW I \in SUBSET Nat, I # {}
  PROVE  \E m \in I : \A i \in I : m <= i
PROOF
  <1>1. PICK m \in I : \A i \in I : ~(<<i, m>> \in OpToRel(<, Nat))
    BY NatLessThanWellFounded, WFMin
  <1>2. \A i \in I : ~(i < m)
    BY <1>1 DEF OpToRel
  <1>3. \A i \in I : m <= i
    BY <1>2
  <1> QED
    BY <1>3

\* The elements of a concatenation.
LEMMA ConcatElements ==
  ASSUME NEW S, NEW s \in Seq(S), NEW t \in Seq(S)
  PROVE  s \o t \in Seq(S) /\ ToSet(s \o t) = ToSet(s) \cup ToSet(t)
PROOF
  <1> DEFINE st == s \o t
  <1>1. /\ st \in Seq(S) /\ DOMAIN st = 1..(Len(s) + Len(t))
        /\ \A i \in 1..(Len(s) + Len(t)) : st[i] = IF i <= Len(s) THEN s[i] ELSE t[i - Len(s)]
    OBVIOUS
  <1>2. DOMAIN s = 1..Len(s) /\ DOMAIN t = 1..Len(t) /\ Len(s) \in Nat /\ Len(t) \in Nat
    OBVIOUS
  <1> HIDE DEF st
  <1>3. ASSUME NEW i \in DOMAIN s PROVE i \in DOMAIN st /\ st[i] = s[i]
    BY <1>1, <1>2
  <1>4. ASSUME NEW i \in DOMAIN t
        PROVE  i + Len(s) \in DOMAIN st /\ st[i + Len(s)] = t[i]
    BY <1>1, <1>2
  <1>5. ASSUME NEW i \in DOMAIN st
        PROVE  st[i] \in ToSet(s) \cup ToSet(t)
    <2>1. CASE i <= Len(s)
      BY <1>1, <1>2, <2>1 DEF ToSet
    <2>2. CASE ~(i <= Len(s))
      <3>1. i - Len(s) \in DOMAIN t /\ st[i] = t[i - Len(s)]
        BY <1>1, <1>2, <2>2
      <3> QED
        BY <3>1 DEF ToSet
    <2> QED
      BY <2>1, <2>2
  <1>6. ToSet(st) = ToSet(s) \cup ToSet(t)
    <2>1. \A x \in ToSet(st) : x \in ToSet(s) \cup ToSet(t)
      BY <1>5 DEF ToSet
    <2>2. \A x \in ToSet(s) \cup ToSet(t) : x \in ToSet(st)
      BY <1>3, <1>4 DEF ToSet
    <2> QED
      BY <2>1, <2>2
  <1> QED
    BY <1>1, <1>6 DEF st

\* FlattenSeq is defined by a function that refers to itself.
Flattens(f, seqs, n) ==
  f = [i \in 1..n |-> IF i = 1 THEN seqs[i] ELSE f[i - 1] \o seqs[i]]

\* There is one, for every length.
LEMMA FlattensExists ==
  ASSUME NEW seqs, NEW n \in Nat
  PROVE  \E f : Flattens(f, seqs, n)
PROOF
  <1> DEFINE Bad == {m \in Nat : ~\E f : Flattens(f, seqs, m)}
  <1>1. SUFFICES ASSUME Bad # {} PROVE FALSE
    BY <1>1
  <1>2. PICK m \in Bad : \A i \in Bad : m <= i
    <2> HIDE DEF Bad
    <2>1. Bad \in SUBSET Nat
      BY DEF Bad
    <2> QED
      BY <1>1, <2>1, LeastNumber
  <1>3. CASE m = 0
    <2>1. Flattens([i \in 1..0 |-> 0], seqs, 0)
      BY DEF Flattens
    <2> QED
      BY <1>2, <1>3, <2>1
  <1>4. CASE m # 0
    <2>1. m - 1 \in Nat /\ ~(m <= m - 1)
      BY <1>2, <1>4
    <2>2. PICK f : Flattens(f, seqs, m - 1)
      BY <1>2, <2>1
    <2> DEFINE g == [i \in 1..m |-> IF i = 1 THEN seqs[i] ELSE f[i - 1] \o seqs[i]]
    <2>3. \A i \in 1..(m - 1) : g[i] = f[i]
      <3>1. \A i \in 1..(m - 1) : f[i] = IF i = 1 THEN seqs[i] ELSE f[i - 1] \o seqs[i]
        <4> DEFINE rhs == [i \in 1..(m - 1) |-> IF i = 1 THEN seqs[i] ELSE f[i - 1] \o seqs[i]]
        <4>1. f = rhs
          BY <2>2 DEF Flattens
        <4>2. \A i \in 1..(m - 1) :
                rhs[i] = IF i = 1 THEN seqs[i] ELSE f[i - 1] \o seqs[i]
          OBVIOUS
        <4> HIDE DEF rhs
        <4> QED
          BY <4>1, <4>2
      <3>2. \A i \in 1..(m - 1) : i \in 1..m
        BY <1>2, <2>1
      <3> QED
        BY <3>1, <3>2
    <2>4. \A i \in 1..m : i # 1 => g[i - 1] = f[i - 1]
      <3>1. \A i \in 1..m : i # 1 => i - 1 \in 1..(m - 1)
        BY <1>2
      <3> QED
        BY <2>3, <3>1
    <2>5. Flattens(g, seqs, m)
      <3>1. \A i \in 1..m : g[i] = IF i = 1 THEN seqs[i] ELSE g[i - 1] \o seqs[i]
        BY <2>4
      <3> QED
        BY <3>1 DEF Flattens
    <2> QED
      BY <1>2, <2>5
  <1> QED
    BY <1>3, <1>4

\* The elements of the first n of several sequences.
ElementsOfFirst(seqs, n) == UNION {ToSet(seqs[i]) : i \in 1..n}

\* What it computes, part by part: a sequence of the elements of the first ones.
LEMMA FlattensFacts ==
  ASSUME NEW S, NEW seqs \in Seq(Seq(S)), NEW f, Flattens(f, seqs, Len(seqs)),
         NEW k \in 1..Len(seqs)
  PROVE  f[k] \in Seq(S) /\ ToSet(f[k]) = ElementsOfFirst(seqs, k)
PROOF
  <1> DEFINE Good(n) == /\ f[n] \in Seq(S)
                        /\ ToSet(f[n]) = UNION {ToSet(seqs[i]) : i \in 1..n}
             Bad == {n \in 1..Len(seqs) : ~Good(n)}
  <1>0. Len(seqs) \in Nat /\ \A i \in 1..Len(seqs) : seqs[i] \in Seq(S)
    OBVIOUS
  <1>1. SUFFICES ASSUME Bad # {} PROVE FALSE
    BY <1>1 DEF ElementsOfFirst
  <1>2. PICK n \in Bad : \A i \in Bad : n <= i
    <2> HIDE DEF Bad
    <2>1. Bad \in SUBSET Nat
      BY <1>0 DEF Bad
    <2> QED
      BY <1>1, <2>1, LeastNumber
  <1>3. \A i \in 1..Len(seqs) : f[i] = IF i = 1 THEN seqs[i] ELSE f[i - 1] \o seqs[i]
    BY DEF Flattens
  <1>4. n \in 1..Len(seqs) /\ ~Good(n)
    BY <1>2
  <1>5. CASE n = 1
    <2>1. f[n] = seqs[n]
      BY <1>3, <1>4, <1>5
    <2>2. UNION {ToSet(seqs[i]) : i \in 1..n} = ToSet(seqs[n])
      BY <1>5
    <2> QED
      BY <1>0, <1>4, <2>1, <2>2
  <1>6. CASE n # 1
    <2>1. n - 1 \in 1..Len(seqs) /\ n - 1 < n
      BY <1>0, <1>4, <1>6
    <2>2. Good(n - 1)
      <3> HIDE DEF Good
      <3>1. n - 1 \notin Bad
        <4>1. ~(n <= n - 1)
          BY <1>0, <1>4
        <4> HIDE DEF Bad
        <4> QED
          BY <1>2, <4>1
      <3> QED
        BY <2>1, <3>1
    <2>3. f[n] = f[n - 1] \o seqs[n] /\ seqs[n] \in Seq(S)
      BY <1>0, <1>3, <1>4, <1>6
    <2>4. f[n] \in Seq(S) /\ ToSet(f[n]) = ToSet(f[n - 1]) \cup ToSet(seqs[n])
      BY <2>2, <2>3, ConcatElements
    <2>5. UNION {ToSet(seqs[i]) : i \in 1..n}
            = (UNION {ToSet(seqs[i]) : i \in 1..(n - 1)}) \cup ToSet(seqs[n])
      <3>1. \A i : i \in 1..n <=> i \in 1..(n - 1) \/ i = n
        BY <1>4
      <3>2. ASSUME NEW x
            PROVE  (\E i \in 1..n : x \in ToSet(seqs[i]))
                     <=> (\E i \in 1..(n - 1) : x \in ToSet(seqs[i])) \/ x \in ToSet(seqs[n])
        BY <3>1
      <3> HIDE DEF Good, Bad
      <3> QED
        BY <3>2
    <2>6. Good(n)
      BY <2>2, <2>4, <2>5
    <2> QED
      BY <1>4, <2>6
  <1> QED
    BY <1>5, <1>6

\* So it is with FlattenSeq.
LEMMA FlattenSeqFacts ==
  ASSUME NEW S, NEW seqs \in Seq(Seq(S))
  PROVE  /\ FlattenSeq(seqs) \in Seq(S)
         /\ ToSet(FlattenSeq(seqs)) = UNION {ToSet(seqs[i]) : i \in DOMAIN seqs}
PROOF
  <1>1. CASE Len(seqs) = 0
    <2>1. FlattenSeq(seqs) = seqs
      BY <1>1 DEF FlattenSeq
    <2>2. seqs = <<>> /\ DOMAIN seqs = {}
      BY <1>1
    <2>3. seqs \in Seq(S) /\ ToSet(seqs) = {}
      BY <2>2 DEF ToSet
    <2> QED
      BY <2>1, <2>2, <2>3
  <1>2. CASE Len(seqs) # 0
    <2> DEFINE f == CHOOSE g : Flattens(g, seqs, Len(seqs))
    <2>1. FlattenSeq(seqs) = f[Len(seqs)]
      BY <1>2 DEF FlattenSeq, Flattens
    <2>2. Flattens(f, seqs, Len(seqs))
      <3>1. \E g : Flattens(g, seqs, Len(seqs))
        <4>1. Len(seqs) \in Nat
          OBVIOUS
        <4> HIDE DEF f
        <4> QED
          BY <4>1, FlattensExists
      <3> QED
        BY <3>1
    <2> HIDE DEF f
    <2>3. Len(seqs) \in 1..Len(seqs) /\ DOMAIN seqs = 1..Len(seqs)
      BY <1>2
    <2>4. /\ f[Len(seqs)] \in Seq(S)
          /\ ToSet(f[Len(seqs)]) = UNION {ToSet(seqs[i]) : i \in 1..Len(seqs)}
      <3>1. /\ f[Len(seqs)] \in Seq(S)
            /\ ToSet(f[Len(seqs)]) = ElementsOfFirst(seqs, Len(seqs))
        BY <2>2, <2>3, FlattensFacts
      <3> QED
        BY <3>1 DEF ElementsOfFirst
    <2> QED
      BY <2>1, <2>3, <2>4
  <1> QED
    BY <1>1, <1>2

-----------------------------------------------------------------------------
(* The files of a batch and their paths                                    *)

\* Elements of sequences.
LEMMA Elements ==
  ASSUME NEW S, NEW s \in Seq(S)
  PROVE  DOMAIN s = 1..Len(s) /\ Len(s) \in Nat /\ \A i \in DOMAIN s : s[i] \in S
PROOF
  OBVIOUS

\* Sequences of up to two elements.
LEMMA Short ==
  /\ \A S : <<>> \in Seq(S) /\ \A x \in S : <<x>> \in Seq(S)
  /\ \A x : <<>> \o <<x>> = <<x>>
  /\ \A x, y : <<x>> \o <<y>> = <<x, y>>
PROOF
  <1>1. ASSUME NEW x, NEW y PROVE <<x>> \o <<y>> = <<x, y>>
    <2> DEFINE p == <<x>> \o <<y>>
    <2>1. <<x>> \in Seq({x, y}) /\ <<y>> \in Seq({x, y})
      OBVIOUS
    <2>2. p \in Seq({x, y}) /\ Len(p) = 2 /\ p[1] = x /\ p[2] = y
      BY <2>1
    <2> HIDE DEF p
    <2>3. p = <<x, y>>
      BY <2>2
    <2> QED
      BY <2>3 DEF p
  <1>2. ASSUME NEW x PROVE <<>> \o <<x>> = <<x>>
    <2>1. <<x>> \in Seq({x})
      OBVIOUS
    <2> QED
      BY <2>1
  <1>3. \A S : <<>> \in Seq(S) /\ \A x \in S : <<x>> \in Seq(S)
    OBVIOUS
  <1> QED
    BY <1>1, <1>2, <1>3

\* Batches and jobs are numbered from 1.
LEMMA Numbered ==
  /\ Batches \subseteq Nat \ {0}
  /\ \A b \in Batches : /\ JobsOf(b) = 1..Len(Configs[b].jobs)
                        /\ Len(Configs[b].jobs) \in Nat
                        /\ JobsOf(b) \subseteq Nat \ {0}
PROOF
  <1> DEFINE P == ConfigType(TRUE, PythonJobType)
             A == ConfigType(FALSE, ApptainerJobType)
  <1>1. Configs \in Seq(P \cup A)
    BY ConfigsAssumption
  <1> HIDE DEF P, A
  <1>2. Batches = 1..Len(Configs) /\ Len(Configs) \in Nat
    BY <1>1, Elements DEF Batches
  <1>3. ASSUME NEW b \in Batches
        PROVE  /\ JobsOf(b) = 1..Len(Configs[b].jobs)
               /\ Len(Configs[b].jobs) \in Nat
    <2>1. Configs[b] \in P \cup A
      BY <1>1 DEF Batches
    <2>2. Configs[b].jobs \in Seq(PythonJobType) \cup Seq(ApptainerJobType)
      BY <2>1 DEF P, A, ConfigType
    <2> QED
      BY <2>2, Elements DEF JobsOf
  <1> QED
    BY <1>2, <1>3

\* What a configuration has.
LEMMA ConfigFacts ==
  ASSUME NEW b \in Batches
  PROVE  /\ Configs[b].batch_name \in Text /\ Configs[b].namespace \in Text
         /\ Configs[b].python \in BOOLEAN
         /\ Configs[b].build \in FileType /\ Configs[b].required \in Seq(FileType)
         /\ \A j \in JobsOf(b) :
              /\ Configs[b].jobs[j].name \in Text
              /\ Configs[b].jobs[j].required \in Seq(FileType)
              /\ Configs[b].python => Configs[b].jobs[j].file \in FileType
PROOF
  <1> DEFINE P == ConfigType(TRUE, PythonJobType)
             A == ConfigType(FALSE, ApptainerJobType)
             jobs == Configs[b].jobs
  <1>1. Configs[b] \in P \cup A
    <2>1. Configs \in Seq(P \cup A)
      BY ConfigsAssumption
    <2> HIDE DEF P, A
    <2> QED
      BY <2>1 DEF Batches
  <1>2. CASE Configs[b] \in P
    <2>1. jobs \in Seq(PythonJobType)
      BY <1>2 DEF ConfigType
    <2> HIDE DEF jobs
    <2>2. \A j \in JobsOf(b) : jobs[j] \in PythonJobType
      BY <2>1, Elements DEF JobsOf, jobs
    <2>3. \A j \in JobsOf(b) : /\ jobs[j].name \in Text
                               /\ jobs[j].required \in Seq(FileType)
                               /\ jobs[j].file \in FileType
      BY <2>2 DEF PythonJobType
    <2> QED
      BY <1>2, <2>3 DEF ConfigType, jobs
  <1>3. CASE Configs[b] \in A
    <2>1. jobs \in Seq(ApptainerJobType)
      BY <1>3 DEF ConfigType
    <2> HIDE DEF jobs
    <2>2. \A j \in JobsOf(b) : jobs[j] \in ApptainerJobType
      BY <2>1, Elements DEF JobsOf, jobs
    <2>3. \A j \in JobsOf(b) : /\ jobs[j].name \in Text
                               /\ jobs[j].required \in Seq(FileType)
      BY <2>2 DEF ApptainerJobType
    <2>4. Configs[b].python = FALSE
      BY <1>3 DEF ConfigType
    <2> QED
      BY <1>3, <2>3, <2>4 DEF ConfigType, jobs
  <1> QED
    BY <1>1, <1>2, <1>3

\* What is hashed: the word "initialize" takes the place of the name of a job.
Letters == STRING \cup {"initialize"}
Hashed == Seq(Letters)

\* A text can be hashed.
LEMMA TextHashed == Text \subseteq Hashed
PROOF
  BY SeqMonotonic DEF Text, Hashed, Letters

\* Joining is associative.
LEMMA Regrouped ==
  ASSUME NEW s \in Hashed, NEW t \in Hashed, NEW u \in Hashed
  PROVE  (s \o t) \o u = s \o (t \o u)
PROOF
  BY ConcatAssociative DEF Hashed

\* What is hashed begins with the names of the batch, and that of the job.
LEMMA HashParts ==
  ASSUME NEW b \in Batches, NEW job_name \in Hashed, NEW files \in Seq(FileType)
  PROVE  LET names == Configs[b].batch_name \o Configs[b].namespace IN
         /\ names \in Hashed /\ FilenameHash(Configs[b], job_name, files) \in Hashed
         /\ \E rest \in Hashed :
              FilenameHash(Configs[b], job_name, files) = names \o (job_name \o rest)
PROOF
  <1> DEFINE texts == [i \in DOMAIN files |-> files[i].name \o files[i].bytes]
             start == Configs[b].batch_name \o Configs[b].namespace
  <1>1. texts \in Seq(Hashed)
    <2>1. \A i \in DOMAIN files : files[i].name \in Hashed /\ files[i].bytes \in Hashed
      <3>1. \A i \in DOMAIN files : files[i] \in FileType
        BY Elements
      <3> QED
        BY <3>1, TextHashed DEF FileType
    <2>2. \A i \in DOMAIN files : files[i].name \o files[i].bytes \in Hashed
      BY <2>1, ConcatElements DEF Hashed
    <2>3. DOMAIN files = 1..Len(files) /\ Len(files) \in Nat
      OBVIOUS
    <2> QED
      BY <2>2, <2>3
  <1>2. FlattenSeq(texts) \in Hashed
    BY <1>1, FlattenSeqFacts DEF Hashed
  <1>3. start \in Hashed
    BY ConfigFacts, TextHashed, ConcatElements DEF Hashed
  <1> HIDE DEF texts, start
  <1>4. start \o job_name \in Hashed
    BY <1>3, ConcatElements DEF Hashed
  <1>5. (start \o job_name) \o FlattenSeq(texts) \in Hashed
    BY <1>2, <1>4, ConcatElements DEF Hashed
  <1> DEFINE rest == FlattenSeq(texts)
  <1>6. (start \o job_name) \o rest = start \o (job_name \o rest)
    <2> HIDE DEF rest
    <2>1. rest \in Hashed
      BY <1>2 DEF rest
    <2> QED
      BY <1>3, <2>1, Regrouped
  <1> QED
    BY <1>2, <1>3, <1>5, <1>6 DEF FilenameHash, start, texts

\* The digests of a batch and of its jobs.
LEMMA HashesTyped ==
  ASSUME NEW b \in Batches
  PROVE  /\ InitializeHash(Configs[b]) \in Hashed
         /\ \A j \in JobsOf(b) : JobHash(Configs[b], Configs[b].jobs[j]) \in Hashed
PROOF
  <1>1. <<"initialize">> \in Hashed
    BY Short DEF Hashed, Letters
  <1>2. \A j \in JobsOf(b) : Configs[b].jobs[j].name \in Hashed
    BY ConfigFacts, TextHashed
  <1> QED
    BY <1>1, <1>2, ConfigFacts, HashParts DEF InitializeHash, JobHash

\* Sequences of one length are told apart by what they begin.
LEMMA SplitAlike ==
  ASSUME NEW s \in Hashed, NEW t \in Hashed, NEW u \in Hashed, NEW v \in Hashed,
         Len(s) = Len(t), s \o u = t \o v
  PROVE  s = t /\ u = v
PROOF
  <1> USE DEF Hashed
  <1>1. ASSUME NEW i \in 1..Len(s) PROVE s[i] = t[i]
    <2> DEFINE su == s \o u
               tv == t \o v
    <2>1. su[i] = s[i] /\ tv[i] = t[i]
      <3>1. Len(s) \in Nat /\ Len(u) \in Nat /\ Len(v) \in Nat
        OBVIOUS
      <3>2. i \in 1..(Len(s) + Len(u)) /\ i \in 1..(Len(t) + Len(v)) /\ i <= Len(s)
        BY <3>1
      <3> QED
        BY <3>2, ConcatProperties
    <2>2. su = tv
      OBVIOUS
    <2> HIDE DEF su, tv
    <2> QED
      BY <2>1, <2>2
  <1>2. s = t
    BY <1>1, SeqEqual
  <1>3. Len(u) = Len(v)
    BY ConcatProperties
  <1>4. ASSUME NEW i \in 1..Len(u) PROVE u[i] = v[i]
    <2> DEFINE k == Len(s) + i
               su == s \o u
               tv == t \o v
    <2>1. Len(s) \in Nat /\ Len(u) \in Nat
      OBVIOUS
    <2>2. k \in 1..(Len(s) + Len(u)) /\ ~(k <= Len(s)) /\ k - Len(s) = i
      BY <2>1
    <2>3. su[k] = u[i]
      <3> HIDE DEF k
      <3>1. su[k] = u[k - Len(s)]
        BY <2>2, ConcatProperties
      <3> QED
        BY <2>2, <3>1
    <2>4. tv[k] = v[i]
      <3> HIDE DEF k
      <3>1. tv[k] = v[k - Len(t)]
        BY <2>2, <1>3, ConcatProperties
      <3> QED
        BY <2>2, <3>1
    <2>5. su = tv
      OBVIOUS
    <2> HIDE DEF su, tv
    <2> QED
      BY <2>3, <2>4, <2>5
  <1>5. u = v
    BY <1>3, <1>4, SeqEqual
  <1> QED
    BY <1>2, <1>5

\* The names of a batch can be read off its digests, if names are of one width.
LEMMA NamesRead ==
  ASSUME WidthsAgree, NEW b \in Batches, NEW c \in Batches,
         Accepted(Configs[b]), Accepted(Configs[c]),
         NEW i \in Hashed, NEW j \in Hashed,
         NEW files \in Seq(FileType), NEW others \in Seq(FileType),
         FilenameHash(Configs[b], i, files) = FilenameHash(Configs[c], j, others)
  PROVE  SharesName(b, c) /\ (Len(i) = Len(j) => i = j)
PROOF
  <1> DEFINE p == Configs[b].batch_name
             q == Configs[c].batch_name
             r == Configs[b].namespace
             s == Configs[c].namespace
             m == p \o r
             n == q \o s
  <1>1. p \in Hashed /\ q \in Hashed /\ r \in Hashed /\ s \in Hashed
    BY ConfigFacts, TextHashed
  <1>2. m \in Hashed /\ n \in Hashed /\ Len(m) = Len(p) + Len(r) /\ Len(n) = Len(q) + Len(s)
    <2> HIDE DEF p, q, r, s
    <2> QED
      BY <1>1, ConcatProperties DEF Hashed
  <1>3. Len(p) = Len(q) /\ Len(r) = Len(s)
    BY DEF WidthsAgree
  <1>4. PICK u \in Hashed : FilenameHash(Configs[b], i, files) = m \o (i \o u)
    BY HashParts
  <1>5. PICK v \in Hashed : FilenameHash(Configs[c], j, others) = n \o (j \o v)
    BY HashParts
  <1> HIDE DEF m, n
  <1>6. m \o (i \o u) = n \o (j \o v)
    BY <1>4, <1>5
  <1>7. m = n /\ i \o u = j \o v
    <2>1. i \o u \in Hashed /\ j \o v \in Hashed
      BY ConcatElements DEF Hashed
    <2>2. Len(m) = Len(n)
      BY <1>2, <1>3
    <2> DEFINE iu == i \o u
               jv == j \o v
    <2>3. m \o iu = n \o jv
      BY <1>6
    <2> HIDE DEF iu, jv
    <2>4. iu \in Hashed /\ jv \in Hashed
      BY <2>1 DEF iu, jv
    <2>5. m = n /\ iu = jv
      BY <1>2, <2>2, <2>3, <2>4, SplitAlike
    <2> QED
      BY <2>5 DEF iu, jv
  <1>8. Len(i) = Len(j) => i = j
    BY <1>7, SplitAlike
  <1>9. p = q /\ r = s
    <2>1. p \o r = q \o s
      BY <1>7 DEF m, n
    <2> HIDE DEF p, q, r, s
    <2> QED
      BY <1>1, <1>3, <2>1, SplitAlike
  <1> QED
    BY <1>8, <1>9 DEF SharesName

\* The hypothesis holds of all batches whose names are of one width, that is
\* where the letters of two names that are joined cannot be shared out anew.
THEOREM EqualWidthsTellApart == WidthsAgree => NamesTellApart
PROOF
  <1> SUFFICES ASSUME WidthsAgree PROVE NamesTellApart
    OBVIOUS
  <1>1. <<"initialize">> \in Hashed
    BY Short DEF Hashed, Letters
  <1>2. ASSUME NEW b \in Batches, NEW h \in HashesOf(b)
        PROVE  \E job_name \in Hashed, files \in Seq(FileType) :
                 h = FilenameHash(Configs[b], job_name, files)
    <2>1. CASE h = InitializeHash(Configs[b])
      BY <1>1, <2>1, ConfigFacts DEF InitializeHash
    <2>2. CASE h # InitializeHash(Configs[b])
      <3>1. PICK j \in JobsOf(b) : h = JobHash(Configs[b], Configs[b].jobs[j])
        BY <1>2, <2>2 DEF HashesOf
      <3>2. /\ Configs[b].jobs[j].name \in Hashed
            /\ Configs[b].jobs[j].required \in Seq(FileType)
        BY ConfigFacts, TextHashed
      <3> QED
        BY <3>1, <3>2 DEF JobHash
    <2> QED
      BY <2>1, <2>2
  <1>3. ASSUME NEW b \in Batches, NEW c \in Batches,
               Accepted(Configs[b]), Accepted(Configs[c]), ~SharesName(b, c),
               NEW h \in HashesOf(b), h \in HashesOf(c)
        PROVE  FALSE
    <2>1. PICK i \in Hashed, files \in Seq(FileType) : h = FilenameHash(Configs[b], i, files)
      BY <1>2
    <2>2. PICK j \in Hashed, others \in Seq(FileType) : h = FilenameHash(Configs[c], j, others)
      BY <1>2, <1>3
    <2> QED
      BY <1>3, <2>1, <2>2, NamesRead
  <1>4. ASSUME NEW b \in Batches, Accepted(Configs[b]), NEW i \in JobsOf(b), NEW j \in JobsOf(b),
               JobHash(Configs[b], Configs[b].jobs[i]) = JobHash(Configs[b], Configs[b].jobs[j])
        PROVE  i = j
    <2> DEFINE one == Configs[b].jobs[i]
               two == Configs[b].jobs[j]
    <2>1. /\ one.name \in Hashed /\ one.required \in Seq(FileType)
          /\ two.name \in Hashed /\ two.required \in Seq(FileType)
      BY ConfigFacts, TextHashed
    <2>2. Len(one.name) = Len(two.name)
      BY <1>4 DEF WidthsAgree
    <2>3. FilenameHash(Configs[b], one.name, one.required)
            = FilenameHash(Configs[b], two.name, two.required)
      BY <1>4 DEF JobHash
    <2>4. one.name = two.name
      <3> HIDE DEF one, two
      <3> QED
        BY <1>4, <2>1, <2>2, <2>3, NamesRead
    <2> QED
      BY <1>4, <2>4 DEF Accepted, JobsOf
  <1> QED
    BY <1>3, <1>4 DEF NamesTellApart

\* Paths and files as they are in HashedConfigs.
Forms == {"", "setup_python", "setup_sif", "python_run"}
PathType == [form : Forms, hash : Hashed, index : Seq(Nat)]
HashedFileType == [hashed_path : PathType, original_filename : Text, bytes : Text]

\* A file with its name in the folder, and a list of them.
LEMMA HashedFileTyped ==
  ASSUME NEW form \in Forms, NEW hash \in Hashed, NEW index \in Seq(Nat), NEW file \in FileType
  PROVE  /\ HashedFile(form, hash, index, file) \in HashedFileType
         /\ HashedFile(form, hash, index, file).hashed_path
              = [form |-> form, hash |-> hash, index |-> index]
PROOF
  BY DEF HashedFile, HashedFileType, PathType, FileType, Filename

\* The required files, in their order.
LEMMA RequiredFacts ==
  ASSUME NEW hash \in Hashed, NEW index \in Seq(Nat), NEW files \in Seq(FileType)
  PROVE  LET hashed == RequiredFiles(hash, index, files) IN
         /\ hashed \in Seq(HashedFileType) /\ Len(hashed) = Len(files)
         /\ \A i \in 1..Len(files) :
              hashed[i].hashed_path = [form |-> "", hash |-> hash, index |-> index \o <<i>>]
PROOF
  <1>1. DOMAIN files = 1..Len(files) /\ Len(files) \in Nat
    OBVIOUS
  <1> DEFINE hashed == RequiredFiles(hash, index, files)
  <1>2. ASSUME NEW i \in 1..Len(files)
        PROVE  /\ hashed[i] \in HashedFileType
               /\ hashed[i].hashed_path
                    = [form |-> "", hash |-> hash, index |-> index \o <<i>>]
    <2>1. hashed[i] = HashedFile("", hash, index \o <<i>>, files[i])
      BY <1>1 DEF RequiredFiles
    <2>2. index \o <<i>> \in Seq(Nat)
      <3>1. <<i>> \in Seq(Nat)
        BY <1>1, Short
      <3> QED
        BY <3>1, ConcatElements
    <2>3. files[i] \in FileType
      BY <1>1, Elements
    <2> DEFINE form == ""
               number == index \o <<i>>
    <2>4. form \in Forms
      BY DEF Forms
    <2> HIDE DEF hashed, form, number
    <2>5. /\ HashedFile(form, hash, number, files[i]) \in HashedFileType
          /\ HashedFile(form, hash, number, files[i]).hashed_path
               = [form |-> form, hash |-> hash, index |-> number]
      BY <2>2, <2>3, <2>4, HashedFileTyped DEF number
    <2> QED
      BY <2>1, <2>5 DEF form, number
  <1>3. DOMAIN hashed = 1..Len(files) /\ hashed = [i \in 1..Len(files) |-> hashed[i]]
    BY <1>1 DEF RequiredFiles
  <1> HIDE DEF hashed
  <1>4. hashed \in Seq(HashedFileType) /\ Len(hashed) = Len(files)
    <2>1. \A i \in 1..Len(files) : hashed[i] \in HashedFileType
      BY <1>2
    <2> QED
      BY <1>1, <1>3, <2>1
  <1> QED
    BY <1>2, <1>4 DEF hashed

\* A file in front of a list.
LEMMA InFront ==
  ASSUME NEW S, NEW x \in S, NEW s \in Seq(S)
  PROVE  /\ <<x>> \o s \in Seq(S) /\ Len(<<x>> \o s) = 1 + Len(s)
         /\ (<<x>> \o s)[1] = x
         /\ \A i \in 2..(1 + Len(s)) : (<<x>> \o s)[i] = s[i - 1] /\ i - 1 \in 1..Len(s)
PROOF
  OBVIOUS

\* The path of a file by its place: its form and the number in it tell
\* whose file it is, but for the files to run of two jobs.
HashAt(b, j) ==
  IF j = 0 THEN InitializeHash(Configs[b]) ELSE JobHash(Configs[b], Configs[b].jobs[j])

FormAt(b, j, i) ==
  IF j = 0
  THEN IF i # 1 THEN "" ELSE IF Configs[b].python THEN "setup_python" ELSE "setup_sif"
  ELSE IF Configs[b].python /\ i = 1 THEN "python_run" ELSE ""

IndexAt(b, j, i) ==
  IF j = 0
  THEN IF i = 1 THEN <<>> ELSE <<i - 1>>
  ELSE IF Configs[b].python THEN IF i = 1 THEN <<>> ELSE <<j, i - 1>> ELSE <<j, i>>

PathAt(b, j, i) ==
  [form |-> FormAt(b, j, i), hash |-> HashAt(b, j), index |-> IndexAt(b, j, i)]

\* Each file of a batch is at the path of its place.
LEMMA FilesNamed ==
  ASSUME NEW b \in Batches, NEW j \in {0} \cup JobsOf(b)
  PROVE  /\ FilesOf(b, j) \in Seq(HashedFileType)
         /\ \A i \in 1..Len(FilesOf(b, j)) : FilesOf(b, j)[i].hashed_path = PathAt(b, j, i)
PROOF
  <1> DEFINE c == Configs[b]
             ih == InitializeHash(c)
             jh == JobHash(c, c.jobs[j])
  <1>1. FilesOf(b, j) = IF c.python
                        THEN IF j = 0 THEN PythonInitialize(c) ELSE PythonJob(c, j)
                        ELSE IF j = 0 THEN ApptainerInitialize(c) ELSE ApptainerJob(c, j)
    BY DEF FilesOf, HashedConfigs
  <1>2. 0 \notin JobsOf(b) /\ JobsOf(b) \subseteq Nat
    BY Numbered
  <1>3. CASE j = 0
    <2> DEFINE form == IF c.python THEN "setup_python" ELSE "setup_sif"
               x == HashedFile(form, ih, <<>>, c.build)
               r == RequiredFiles(ih, <<>>, c.required)
    <2>1. FilesOf(b, j) = <<x>> \o r
      BY <1>1, <1>3, ConfigFacts DEF PythonInitialize, ApptainerInitialize
    <2>2. x \in HashedFileType /\ x.hashed_path = PathAt(b, j, 1)
      <3>1. <<>> \in Seq(Nat) /\ form \in Forms /\ ih \in Hashed /\ c.build \in FileType
        BY ConfigFacts, HashesTyped DEF Forms
      <3>2. PathAt(b, j, 1) = [form |-> form, hash |-> ih, index |-> <<>>]
        BY <1>3 DEF PathAt, FormAt, HashAt, IndexAt
      <3> HIDE DEF form, ih, c
      <3> QED
        BY <3>1, <3>2, HashedFileTyped
    <2>3. /\ r \in Seq(HashedFileType) /\ Len(r) = Len(c.required)
          /\ \A i \in 1..Len(r) :
               r[i].hashed_path = [form |-> "", hash |-> ih, index |-> <<>> \o <<i>>]
      <3>1. <<>> \in Seq(Nat)
        OBVIOUS
      <3> QED
        BY <3>1, ConfigFacts, HashesTyped, RequiredFacts
    <2> HIDE DEF x, r, ih
    <2>0. Len(r) \in Nat
      BY <2>3, Elements
    <2>4. ASSUME NEW i \in 2..(1 + Len(r))
          PROVE  r[i - 1].hashed_path = PathAt(b, j, i)
      <3>1. i - 1 \in 1..Len(r) /\ i # 1
        BY <2>0
      <3>2. <<>> \o <<i - 1>> = <<i - 1>>
        BY <3>1
      <3> QED
        BY <1>3, <2>3, <3>1, <3>2 DEF PathAt, FormAt, HashAt, IndexAt, ih
    <2>5. \A i \in 1..(1 + Len(r)) : i = 1 \/ i \in 2..(1 + Len(r))
      BY <2>0
    <2>6. /\ <<x>> \o r \in Seq(HashedFileType) /\ Len(<<x>> \o r) = 1 + Len(r)
          /\ (<<x>> \o r)[1] = x
          /\ \A i \in 2..(1 + Len(r)) : (<<x>> \o r)[i] = r[i - 1]
      <3>1. x \in HashedFileType /\ r \in Seq(HashedFileType)
        BY <2>2, <2>3
      <3> QED
        BY ONLY <3>1, InFront
    <2> QED
      BY <2>1, <2>2, <2>4, <2>5, <2>6
  <1>4. CASE j # 0 /\ c.python
    <2> DEFINE x == HashedFile("python_run", jh, <<>>, c.jobs[j].file)
               r == RequiredFiles(jh, <<j>>, c.jobs[j].required)
    <2>1. FilesOf(b, j) = <<x>> \o r
      BY <1>1, <1>4 DEF PythonJob
    <2>2. x \in HashedFileType /\ x.hashed_path = PathAt(b, j, 1)
      <3>1. /\ <<>> \in Seq(Nat) /\ "python_run" \in Forms /\ jh \in Hashed
            /\ c.jobs[j].file \in FileType
        BY <1>4, ConfigFacts, HashesTyped DEF Forms
      <3>2. PathAt(b, j, 1) = [form |-> "python_run", hash |-> jh, index |-> <<>>]
        BY <1>4 DEF PathAt, FormAt, HashAt, IndexAt
      <3> HIDE DEF jh, c
      <3> QED
        BY <3>1, <3>2, HashedFileTyped
    <2>3. /\ r \in Seq(HashedFileType) /\ Len(r) = Len(c.jobs[j].required)
          /\ \A i \in 1..Len(r) :
               r[i].hashed_path = [form |-> "", hash |-> jh, index |-> <<j>> \o <<i>>]
      <3>1. <<j>> \in Seq(Nat)
        BY <1>2
      <3> QED
        BY <1>4, <3>1, ConfigFacts, HashesTyped, RequiredFacts
    <2> HIDE DEF x, r, jh
    <2>0. Len(r) \in Nat
      BY <2>3, Elements
    <2>4. ASSUME NEW i \in 2..(1 + Len(r))
          PROVE  r[i - 1].hashed_path = PathAt(b, j, i)
      <3>1. i - 1 \in 1..Len(r) /\ i # 1
        BY <2>0
      <3>2. <<j>> \o <<i - 1>> = <<j, i - 1>>
        BY Short
      <3> QED
        BY <1>4, <2>3, <3>1, <3>2 DEF PathAt, FormAt, HashAt, IndexAt, jh
    <2>5. \A i \in 1..(1 + Len(r)) : i = 1 \/ i \in 2..(1 + Len(r))
      BY <2>0
    <2>6. /\ <<x>> \o r \in Seq(HashedFileType) /\ Len(<<x>> \o r) = 1 + Len(r)
          /\ (<<x>> \o r)[1] = x
          /\ \A i \in 2..(1 + Len(r)) : (<<x>> \o r)[i] = r[i - 1]
      <3>1. x \in HashedFileType /\ r \in Seq(HashedFileType)
        BY <2>2, <2>3
      <3> QED
        BY ONLY <3>1, InFront
    <2> QED
      BY <2>1, <2>2, <2>4, <2>5, <2>6
  <1>5. CASE j # 0 /\ ~c.python
    <2> DEFINE r == RequiredFiles(jh, <<j>>, c.jobs[j].required)
    <2>1. FilesOf(b, j) = r
      BY <1>1, <1>5 DEF ApptainerJob
    <2>2. /\ r \in Seq(HashedFileType) /\ Len(r) = Len(c.jobs[j].required)
          /\ \A i \in 1..Len(r) :
               r[i].hashed_path = [form |-> "", hash |-> jh, index |-> <<j>> \o <<i>>]
      <3>1. <<j>> \in Seq(Nat)
        BY <1>2
      <3> QED
        BY <1>5, <3>1, ConfigFacts, HashesTyped, RequiredFacts
    <2>3. \A i \in 1..Len(r) : <<j>> \o <<i>> = <<j, i>>
      BY Short
    <2> HIDE DEF r
    <2> QED
      BY <1>5, <2>1, <2>2, <2>3 DEF PathAt, FormAt, HashAt, IndexAt
  <1> QED
    BY <1>3, <1>4, <1>5

\* A path has a digest of its batch in it,
LEMMA PathsHashed ==
  ASSUME NEW b \in Batches, NEW j \in {0} \cup JobsOf(b), NEW f \in ToSet(FilesOf(b, j))
  PROVE  f.hashed_path.hash \in HashesOf(b)
PROOF
  <1>1. PICK i \in 1..Len(FilesOf(b, j)) : f = FilesOf(b, j)[i]
    BY FilesNamed DEF ToSet
  <1>2. f.hashed_path = PathAt(b, j, i)
    BY <1>1, FilesNamed
  <1> QED
    BY <1>2 DEF PathAt, HashAt, HashesOf

\* so that batches of different names have no path in common,
LEMMA PathsApart ==
  ASSUME NamesTellApart,
         NEW b \in Batches, NEW c \in Batches,
         Accepted(Configs[b]), Accepted(Configs[c]), ~SharesName(b, c),
         NEW j \in {0} \cup JobsOf(b), NEW f \in ToSet(FilesOf(b, j)),
         NEW k \in {0} \cup JobsOf(c), NEW g \in ToSet(FilesOf(c, k))
  PROVE  f.hashed_path # g.hashed_path
PROOF
  <1>1. f.hashed_path.hash \in HashesOf(b) /\ g.hashed_path.hash \in HashesOf(c)
    BY PathsHashed
  <1>2. HashesOf(b) \cap HashesOf(c) = {}
    BY DEF NamesTellApart
  <1> QED
    BY <1>1, <1>2

\* and two files of one batch neither.
LEMMA PathsTell ==
  ASSUME NamesTellApart, NEW b \in Batches, Accepted(Configs[b]),
         NEW j \in {0} \cup JobsOf(b), NEW f \in ToSet(FilesOf(b, j)),
         NEW k \in {0} \cup JobsOf(b), NEW g \in ToSet(FilesOf(b, k)),
         f.hashed_path = g.hashed_path
  PROVE  j = k /\ f = g
PROOF
  <1>1. PICK i \in 1..Len(FilesOf(b, j)) : f = FilesOf(b, j)[i]
    BY FilesNamed DEF ToSet
  <1>2. PICK l \in 1..Len(FilesOf(b, k)) : g = FilesOf(b, k)[l]
    BY FilesNamed DEF ToSet
  <1>3. PathAt(b, j, i) = PathAt(b, k, l)
    BY <1>1, <1>2, FilesNamed
  <1>4. /\ FormAt(b, j, i) = FormAt(b, k, l)
        /\ HashAt(b, j) = HashAt(b, k)
        /\ IndexAt(b, j, i) = IndexAt(b, k, l)
    BY <1>3 DEF PathAt
  <1>5. \A m, n \in JobsOf(b) :
          JobHash(Configs[b], Configs[b].jobs[m]) = JobHash(Configs[b], Configs[b].jobs[n]) => m = n
    BY DEF NamesTellApart
  <1>6. i \in Nat /\ l \in Nat /\ j \in Nat /\ k \in Nat
    BY FilesNamed, Elements, Numbered
  <1>7. /\ \A p, q : <<p>> # <<>> /\ <<p, q>> # <<>>
        /\ \A p, q, s : <<p, q>> # <<s>>
        /\ \A p, s : <<p>> = <<s>> => p = s
        /\ \A p, q, s, t : <<p, q>> = <<s, t>> => p = s /\ q = t
    OBVIOUS
  <1>8. j = k /\ i = l
    <2>1. CASE j = 0 /\ k = 0
      <3>1. IndexAt(b, j, i) = IF i = 1 THEN <<>> ELSE <<i - 1>>
        BY <2>1 DEF IndexAt
      <3>2. IndexAt(b, k, l) = IF l = 1 THEN <<>> ELSE <<l - 1>>
        BY <2>1 DEF IndexAt
      <3>3. CASE i = 1 \/ l = 1
        BY <1>4, <1>7, <2>1, <3>1, <3>2, <3>3
      <3>4. CASE i # 1 /\ l # 1
        <4>1. i - 1 = l - 1
          BY <1>4, <1>7, <3>1, <3>2, <3>4
        <4> QED
          BY <1>6, <2>1, <4>1
      <3> QED
        BY <3>3, <3>4
    <2>2. CASE j = 0 /\ k # 0
      BY <1>4, <1>6, <1>7, <2>2 DEF FormAt, IndexAt
    <2>3. CASE j # 0 /\ k = 0
      BY <1>4, <1>6, <1>7, <2>3 DEF FormAt, IndexAt
    <2>4. CASE j # 0 /\ k # 0
      <3>1. j = k
        BY <1>4, <1>5, <2>4 DEF HashAt
      <3>2. CASE ~Configs[b].python
        <4>1. <<j, i>> = <<k, l>>
          BY <1>4, <2>4, <3>2 DEF IndexAt
        <4> QED
          BY <1>7, <3>1, <4>1
      <3>3. CASE Configs[b].python /\ (i = 1 \/ l = 1)
        BY <1>4, <1>7, <2>4, <3>1, <3>3 DEF FormAt
      <3>4. CASE Configs[b].python /\ i # 1 /\ l # 1
        <4>1. <<j, i - 1>> = <<k, l - 1>>
          BY <1>4, <2>4, <3>4 DEF IndexAt
        <4>2. i - 1 = l - 1
          BY <1>7, <4>1
        <4> QED
          BY <1>6, <3>1, <4>2
      <3> QED
        BY <3>2, <3>3, <3>4
    <2> QED
      BY <2>1, <2>2, <2>3, <2>4
  <1> QED
    BY <1>1, <1>2, <1>8

\* All files of a batch, in the order they are sent.
LEMMA SendableFacts ==
  ASSUME NEW b \in Batches
  PROVE  /\ SendableFiles[b] \in Seq(HashedFileType)
         /\ ToSet(SendableFiles[b]) = UNION {ToSet(FilesOf(b, j)) : j \in {0} \cup JobsOf(b)}
PROOF
  <1> DEFINE seqs == [j \in JobsOf(b) |-> FilesOf(b, j)]
  <1>1. SendableFiles[b] = FilesOf(b, 0) \o FlattenSeq(seqs)
    BY DEF SendableFiles
  <1>2. JobsOf(b) = 1..Len(Configs[b].jobs) /\ Len(Configs[b].jobs) \in Nat
    BY Numbered
  <1>3. \A j \in {0} \cup JobsOf(b) : FilesOf(b, j) \in Seq(HashedFileType)
    BY FilesNamed
  <1>4. seqs \in Seq(Seq(HashedFileType))
    BY <1>2, <1>3
  <1>5. DOMAIN seqs = JobsOf(b) /\ \A j \in JobsOf(b) : seqs[j] = FilesOf(b, j)
    OBVIOUS
  <1> HIDE DEF seqs
  <1>6. /\ FlattenSeq(seqs) \in Seq(HashedFileType)
        /\ ToSet(FlattenSeq(seqs)) = UNION {ToSet(FilesOf(b, j)) : j \in JobsOf(b)}
    BY <1>4, <1>5, FlattenSeqFacts
  <1>7. /\ SendableFiles[b] \in Seq(HashedFileType)
        /\ ToSet(SendableFiles[b]) = ToSet(FilesOf(b, 0)) \cup ToSet(FlattenSeq(seqs))
    <2>1. FilesOf(b, 0) \in Seq(HashedFileType)
      BY <1>3
    <2> QED
      BY <1>1, <1>6, <2>1, ConcatElements
  <1> QED
    BY <1>6, <1>7

\* and each of them is one of the initialization or of a job.
LEMMA SendableFile ==
  ASSUME NEW b \in Batches, NEW i \in 1..Len(SendableFiles[b])
  PROVE  /\ SendableFiles[b][i].hashed_path \in AllPaths
         /\ \E j \in {0} \cup JobsOf(b) : SendableFiles[b][i] \in ToSet(FilesOf(b, j))
PROOF
  <1>1. SendableFiles[b][i] \in ToSet(SendableFiles[b])
    BY SendableFacts, Elements DEF ToSet
  <1> QED
    BY <1>1, SendableFacts DEF AllPaths, Paths

\* Only files that are asked for are deleted,
LEMMA DeletedOfFiles ==
  ASSUME NEW files
  PROVE  Deleted(files) \subseteq {f.hashed_path : f \in ToSet(files)}
PROOF
  BY DEF Deleted, ToSet

\* and those of several jobs are those of each.
LEMMA DeletedOfJobs ==
  ASSUME NEW b \in Batches, NEW jobs \in Seq(JobsOf(b)),
         NEW p \in Deleted(FlattenSeq([i \in DOMAIN jobs |-> FilesOf(b, jobs[i])]))
  PROVE  \E j \in ToSet(jobs) : \E f \in ToSet(FilesOf(b, j)) : p = f.hashed_path
PROOF
  <1> DEFINE seqs == [i \in DOMAIN jobs |-> FilesOf(b, jobs[i])]
  <1>1. DOMAIN jobs = 1..Len(jobs) /\ Len(jobs) \in Nat /\ \A i \in DOMAIN jobs : jobs[i] \in JobsOf(b)
    BY Elements
  <1>2. \A i \in 1..Len(jobs) : FilesOf(b, jobs[i]) \in Seq(HashedFileType)
    BY <1>1, FilesNamed
  <1>3. seqs \in Seq(Seq(HashedFileType))
    BY <1>1, <1>2
  <1>4. DOMAIN seqs = DOMAIN jobs /\ \A i \in DOMAIN jobs : seqs[i] = FilesOf(b, jobs[i])
    OBVIOUS
  <1>5. p \in Deleted(FlattenSeq(seqs))
    OBVIOUS
  <1> HIDE DEF seqs
  <1>6. PICK f \in ToSet(FlattenSeq(seqs)) : p = f.hashed_path
    BY <1>5, DeletedOfFiles
  <1>7. PICK i \in DOMAIN jobs : f \in ToSet(seqs[i])
    BY <1>3, <1>4, <1>6, FlattenSeqFacts
  <1> QED
    BY <1>4, <1>6, <1>7 DEF ToSet

-----------------------------------------------------------------------------
(* Lists of jobs                                                           *)

\* A list without repetition loses its last element,
LEMMA TakenFromEnd ==
  ASSUME NEW S, NEW s \in Seq(S), s # <<>>, IsInjective(s)
  PROVE  /\ Last(s) \in S /\ Front(s) \in Seq(S) /\ IsInjective(Front(s))
         /\ Last(s) \notin ToSet(Front(s)) /\ ToSet(s) = ToSet(Front(s)) \cup {Last(s)}
PROOF
  <1>1. Len(s) \in Nat /\ Len(s) >= 1 /\ DOMAIN s = 1..Len(s) /\ \A i \in 1..Len(s) : s[i] \in S
    BY Elements, EmptySeq
  <1>2. Front(s) \in Seq(S) /\ DOMAIN Front(s) = 1..(Len(s) - 1)
        /\ \A i \in 1..(Len(s) - 1) : Front(s)[i] = s[i]
    <2> DEFINE front == SubSeq(s, 1, Len(s) - 1)
    <2>1. front \in Seq(S) /\ Len(front) = Len(s) - 1
          /\ \A i \in 1..(Len(s) - 1) : front[i] = s[i]
      BY <1>1
    <2> QED
      BY <2>1, Elements DEF Front
  <1>n. \A n \in Nat : /\ \A i \in 1..n : i \in 1..(n - 1) \/ i = n
                       /\ \A i \in 1..(n - 1) : i \in 1..n /\ i # n
    OBVIOUS
  <1>3. \A i \in 1..Len(s) : i \in 1..(Len(s) - 1) \/ i = Len(s)
    BY <1>1, <1>n, Zenon
  <1>4. \A i \in 1..(Len(s) - 1) : i \in 1..Len(s) /\ i # Len(s)
    BY <1>1, <1>n, Zenon
  <1>5. Last(s) = s[Len(s)] /\ Len(s) \in 1..Len(s)
    BY <1>1 DEF Last
  <1>6. IsInjective(Front(s)) /\ Last(s) \notin ToSet(Front(s))
    BY <1>1, <1>2, <1>4, <1>5 DEF IsInjective, ToSet
  <1>7. ToSet(s) = ToSet(Front(s)) \cup {Last(s)}
    BY <1>1, <1>2, <1>3, <1>4, <1>5 DEF ToSet
  <1> QED
    BY <1>1, <1>2, <1>5, <1>6, <1>7

\* gets one that it has not,
LEMMA PutBackAtEnd ==
  ASSUME NEW S, NEW s \in Seq(S), NEW e \in S, e \notin ToSet(s), IsInjective(s)
  PROVE  /\ Append(s, e) \in Seq(S) /\ IsInjective(Append(s, e))
         /\ ToSet(Append(s, e)) = ToSet(s) \cup {e}
PROOF
  <1>1. Len(s) \in Nat /\ DOMAIN s = 1..Len(s)
    BY Elements
  <1> DEFINE t == Append(s, e)
  <1>2. /\ t \in Seq(S) /\ DOMAIN t = 1..(Len(s) + 1)
        /\ \A i \in 1..Len(s) : t[i] = s[i]
        /\ t[Len(s) + 1] = e
    BY <1>1
  <1> HIDE DEF t
  <1>3. \A i \in 1..(Len(s) + 1) : i \in 1..Len(s) \/ i = Len(s) + 1
    BY <1>1
  <1>4. (\A i \in 1..Len(s) : i \in 1..(Len(s) + 1)) /\ Len(s) + 1 \in 1..(Len(s) + 1)
    BY <1>1
  <1>5. IsInjective(t)
    BY <1>1, <1>2, <1>3 DEF IsInjective, ToSet
  <1>6. ToSet(t) = ToSet(s) \cup {e}
    <2>1. ASSUME NEW x \in ToSet(t) PROVE x \in ToSet(s) \cup {e}
      BY <1>1, <1>2, <1>3, <2>1 DEF ToSet
    <2>2. ASSUME NEW x \in ToSet(s) \cup {e} PROVE x \in ToSet(t)
      BY <1>1, <1>2, <1>4, <2>2 DEF ToSet
    <2> QED
      BY <2>1, <2>2
  <1> QED
    BY <1>2, <1>5, <1>6 DEF t

\* starts with all jobs of the batch in their order,
LEMMA AllInOrder ==
  ASSUME NEW b \in Batches
  PROVE  LET jobs == [j \in JobsOf(b) |-> j] IN
         jobs \in Seq(JobsOf(b)) /\ IsInjective(jobs) /\ ToSet(jobs) = JobsOf(b)
PROOF
  <1>1. JobsOf(b) = 1..Len(Configs[b].jobs) /\ Len(Configs[b].jobs) \in Nat
    BY Numbered
  <1> DEFINE jobs == [j \in JobsOf(b) |-> j]
  <1>2. jobs \in Seq(JobsOf(b))
    BY <1>1
  <1>3. DOMAIN jobs = JobsOf(b) /\ \A j \in JobsOf(b) : jobs[j] = j
    OBVIOUS
  <1> HIDE DEF jobs
  <1>4. IsInjective(jobs) /\ ToSet(jobs) = JobsOf(b)
    BY <1>3 DEF IsInjective, ToSet
  <1> QED
    BY <1>2, <1>4 DEF jobs

\* or is empty.
LEMMA NothingListed == <<>> \in Seq(Nat) /\ ToSet(<<>>) = {} /\ IsInjective(<<>>)
PROOF
  BY DEF ToSet, IsInjective

-----------------------------------------------------------------------------
(* Who has which job                                                       *)

\* What may go wrong is bounded.
LEMMA MishapCounts ==
  ASSUME mishaps \in 0..MaxMishaps, NEW kind, Mishap(kind)
  PROVE  mishaps' \in 0..MaxMishaps
PROOF
  BY FilesAssumption DEF Mishap

\* Jobs are left only of a batch that is queued.
LEMMA JobsQueued ==
  ASSUME Bookkeeping, NEW b \in Batches, remaining[b] # <<>> \/ running[b] # {}
  PROVE  phase[b] = "queued" /\ Jobs(b) # {}
PROOF
  <1>1. remaining[b] \in Seq(JobsOf(b))
    BY DEF Bookkeeping, Listed
  <1>2. CASE remaining[b] # <<>>
    <2>1. 1 \in DOMAIN remaining[b]
      BY <1>1, <1>2, Elements, EmptySeq
    <2> QED
      BY <2>1 DEF Bookkeeping, Phased, Jobs, ToSet
  <1> QED
    BY <1>2 DEF Bookkeeping, Phased, Jobs

\* What a node that is not idle works for,
LEMMA BusyFacts ==
  ASSUME Bookkeeping, NEW n \in Nodes, task[n].place # "idle"
  PROVE  /\ task[n].batch \in Batches /\ phase[task[n].batch] \in {"queued", "dropped"}
         /\ task[n].job \in {0} \cup JobsOf(task[n].batch)
         /\ task[n].place = "executing" => task[n].job # 0
PROOF
  <1>1. task[n].batch \in Batches \cup {0} /\ task[n].batch # 0
    BY DEF Bookkeeping, TypeOK, Held
  <1>2. phase[task[n].batch] \in {"queued", "dropped"}
    BY <1>1 DEF Bookkeeping, Begun
  <1>3. task[n].job # 0 => task[n].job \in JobsOf(task[n].batch)
    BY <1>1 DEF Bookkeeping, Held, TypeOK
  <1> QED
    BY <1>1, <1>2, <1>3 DEF Bookkeeping, Held

\* and with a job of which batch.
LEMMA HeldFacts ==
  ASSUME Bookkeeping, NEW n \in Nodes, task[n].job # 0
  PROVE  /\ task[n].place # "idle" /\ task[n].batch \in Batches
         /\ task[n].job \in JobsOf(task[n].batch)
         /\ task[n].job \in running[task[n].batch]
         /\ task[n].job \notin ToSet(remaining[task[n].batch])
         /\ build[n].batch = task[n].batch
         /\ phase[task[n].batch] = "queued" /\ Jobs(task[n].batch) # {}
PROOF
  <1>1. task[n].place # "idle"
    BY DEF Bookkeeping, Held, Idle
  <1>2. task[n].batch \in Batches /\ task[n].job \in JobsOf(task[n].batch)
    BY <1>1, BusyFacts
  <1>3. task[n].job \in running[task[n].batch] /\ build[n].batch = task[n].batch
    BY DEF Bookkeeping, Held
  <1>4. task[n].job \notin ToSet(remaining[task[n].batch])
    BY <1>2, <1>3 DEF Bookkeeping, TypeOK
  <1> QED
    BY <1>1, <1>2, <1>3, <1>4, JobsQueued

\* The bookkeeping is right at the start,
LEMMA BookInit == ASSUME Init PROVE Bookkeeping
PROOF
  <1>1. TypeOK
    <2>1. DOMAIN disk = {}
      BY DEF Init
    <2>2. \A b \in Batches : Len(SendableFiles[b]) \in Nat
      BY SendableFacts, Elements
    <2> QED
      BY <2>1, <2>2, NothingListed, FilesAssumption DEF Init, TypeOK, Idle, Places
  <1>2. Listed
    BY EmptySeq DEF Init, Listed
  <1>3. Phased
    BY NothingListed DEF Init, Phased, Jobs
  <1>4. Held
    BY DEF Init, Held, Idle
  <1>5. Begun
    BY DEF Init, Begun, Idle
  <1> QED
    BY <1>1, <1>2, <1>3, <1>4, <1>5 DEF Bookkeeping

\* and after each step of a user:
LEMMA BookSubmit ==
  ASSUME Bookkeeping, NEW b \in Batches, Submit(b)
  PROVE  Bookkeeping'
PROOF
  <1>1. /\ phase[b] = "new"
        /\ \/ phase' = [phase EXCEPT ![b] = "sending"]
           \/ phase' = [phase EXCEPT ![b] = "refused"]
        /\ UNCHANGED <<disk, stored, unsaved, remaining, running, nodeVars, mishaps>>
    BY DEF Submit
  <1>2. shared' \subseteq Batches
    BY DEF Bookkeeping, TypeOK, Submit
  <1>3. TypeOK'
    BY <1>1, <1>2 DEF Bookkeeping, TypeOK, nodeVars
  <1>4. Listed'
    BY <1>1 DEF Bookkeeping, Listed, nodeVars
  <1>5. Phased'
    BY <1>1 DEF Bookkeeping, Phased, Jobs, TypeOK, nodeVars
  <1>6. Held'
    BY <1>1 DEF Bookkeeping, Held, nodeVars
  <1>7. Begun'
    <2>1. \A c \in Batches : phase[c] \in {"queued", "dropped"} => phase'[c] = phase[c]
      BY <1>1 DEF Bookkeeping, TypeOK
    <2>2. ASSUME NEW n \in Nodes, NEW c \in {task[n].batch, build[n].batch} \ {0}
          PROVE  phase'[c] \in {"queued", "dropped"}
      <3>1. c \in Batches /\ phase[c] \in {"queued", "dropped"}
        BY DEF Bookkeeping, TypeOK, Listed, Begun
      <3> QED
        BY <2>1, <3>1
    <2> QED
      BY <1>1, <2>2 DEF Begun, nodeVars
  <1> QED
    BY <1>3, <1>4, <1>5, <1>6, <1>7 DEF Bookkeeping

\* a file of the batch arrives,
LEMMA BookStoreFile ==
  ASSUME Bookkeeping, NEW b \in Batches, StoreFile(b)
  PROVE  Bookkeeping'
PROOF
  <1> DEFINE file == SendableFiles[b][stored[b] + 1]
  <1>1. stored[b] \in Nat /\ Len(SendableFiles[b]) \in Nat /\ stored[b] + 1 \in 1..Len(SendableFiles[b])
    BY SendableFacts, Elements DEF Bookkeeping, TypeOK, Listed, StoreFile
  <1>2. file.hashed_path \in AllPaths
    BY <1>1, SendableFile
  <1>3. TypeOK'
    <2>1. DOMAIN disk' \subseteq AllPaths /\ unsaved' \subseteq AllPaths
      BY <1>2 DEF Bookkeeping, TypeOK, StoreFile, Put
    <2>2. mishaps' \in 0..MaxMishaps
      BY MishapCounts DEF Bookkeeping, TypeOK, StoreFile
    <2>3. \A c \in Batches : stored'[c] \in 0..Len(SendableFiles[c])
      BY <1>1 DEF Bookkeeping, TypeOK, Listed, StoreFile
    <2> QED
      BY <2>1, <2>2, <2>3 DEF Bookkeeping, TypeOK, StoreFile, nodeVars
  <1>4. Listed'
    BY <1>1 DEF Bookkeeping, Listed, StoreFile, nodeVars
  <1>5. Phased'
    BY DEF Bookkeeping, Phased, Listed, Jobs, StoreFile
  <1>6. Held' /\ Begun'
    BY DEF Bookkeeping, Held, Begun, StoreFile, nodeVars
  <1> QED
    BY <1>3, <1>4, <1>5, <1>6 DEF Bookkeeping

\* the connection breaks,
LEMMA BookSubmissionBreaks ==
  ASSUME Bookkeeping, NEW b \in Batches, SubmissionBreaks(b)
  PROVE  Bookkeeping'
PROOF
  <1>1. TypeOK'
    <2>1. mishaps' \in 0..MaxMishaps
      BY MishapCounts DEF Bookkeeping, TypeOK, SubmissionBreaks
    <2> QED
      BY <2>1 DEF Bookkeeping, TypeOK, SubmissionBreaks, nodeVars
  <1>2. Listed' /\ Held'
    BY DEF Bookkeeping, Listed, Held, SubmissionBreaks, nodeVars
  <1>3. Phased'
    BY DEF Bookkeeping, Phased, Jobs, TypeOK, SubmissionBreaks
  <1>4. Begun'
    BY DEF Bookkeeping, Begun, TypeOK, SubmissionBreaks, nodeVars
  <1> QED
    BY <1>1, <1>2, <1>3, <1>4 DEF Bookkeeping

\* the schedule takes the batch over,
LEMMA BookQueue ==
  ASSUME Bookkeeping, NEW b \in Batches, Queue(b)
  PROVE  Bookkeeping'
PROOF
  <1> DEFINE jobs == [j \in JobsOf(b) |-> j]
  <1>1. jobs \in Seq(JobsOf(b)) /\ IsInjective(jobs) /\ ToSet(jobs) = JobsOf(b)
    BY AllInOrder
  <1>2. running[b] = {} /\ phase[b] = "sending"
    BY DEF Bookkeeping, Phased, Jobs, Queue
  <1>3. remaining' = [remaining EXCEPT ![b] = jobs] /\ phase' = [phase EXCEPT ![b] = "queued"]
    BY DEF Queue
  <1> HIDE DEF jobs
  <1>4. TypeOK'
    <2>1. \A c \in Batches :
            /\ ToSet(remaining'[c]) \cup running'[c] \subseteq JobsOf(c)
            /\ IsInjective(remaining'[c]) /\ ToSet(remaining'[c]) \cap running'[c] = {}
      <3> TAKE c \in Batches
      <3>1. CASE c = b
        <4>1. remaining'[b] = jobs /\ running'[b] = {}
          BY <1>2, <1>3 DEF Bookkeeping, Listed, Queue
        <4> QED
          BY <1>1, <3>1, <4>1
      <3>2. CASE c # b
        <4>1. remaining'[c] = remaining[c] /\ running'[c] = running[c]
          BY <1>3, <3>2 DEF Bookkeeping, Listed, Queue
        <4> QED
          BY <4>1 DEF Bookkeeping, TypeOK
      <3> QED
        BY <3>1, <3>2
    <2> QED
      BY <1>3, <2>1 DEF Bookkeeping, TypeOK, Queue, nodeVars
  <1>5. Listed'
    BY <1>1, <1>3 DEF Bookkeeping, Listed, Queue, nodeVars
  <1>6. Phased'
    BY <1>3 DEF Bookkeeping, Phased, Jobs, TypeOK, Listed, Queue
  <1>7. Held'
    BY DEF Bookkeeping, Held, Queue, nodeVars
  <1>8. Begun'
    BY <1>3 DEF Bookkeeping, Begun, TypeOK, Queue, nodeVars
  <1> QED
    BY <1>4, <1>5, <1>6, <1>7, <1>8 DEF Bookkeeping

\* a kill drops it.
LEMMA BookCancelBatch ==
  ASSUME Bookkeeping, NEW b \in Batches, CancelBatch(b)
  PROVE  Bookkeeping'
PROOF
  <1>1. remaining' = [remaining EXCEPT ![b] = <<>>] /\ running' = running /\ phase[b] = "queued"
    BY DEF CancelBatch
  <1>2. TypeOK'
    <2>1. DOMAIN disk' \subseteq AllPaths
      BY DEF Bookkeeping, TypeOK, CancelBatch, Erase
    <2>2. mishaps' \in 0..MaxMishaps
      BY MishapCounts DEF Bookkeeping, TypeOK, CancelBatch
    <2>3. \A c \in Batches :
            /\ ToSet(remaining'[c]) \cup running'[c] \subseteq JobsOf(c)
            /\ IsInjective(remaining'[c]) /\ ToSet(remaining'[c]) \cap running'[c] = {}
      BY <1>1, NothingListed DEF Bookkeeping, TypeOK, Listed
    <2> QED
      BY <2>1, <2>2, <2>3 DEF Bookkeeping, TypeOK, CancelBatch, nodeVars, batchVars
  <1>3. Listed'
    BY <1>1, EmptySeq DEF Bookkeeping, Listed, CancelBatch, nodeVars, batchVars
  <1>4. Phased'
    BY <1>1 DEF Bookkeeping, Phased, Jobs, Listed, CancelBatch, batchVars
  <1>5. Held' /\ Begun'
    BY DEF Bookkeeping, Held, Begun, CancelBatch, nodeVars, batchVars
  <1> QED
    BY <1>2, <1>3, <1>4, <1>5 DEF Bookkeeping

\* A node task gets a batch to build,
LEMMA BookTakeBuild ==
  ASSUME Bookkeeping, NEW n \in Nodes, NEW b \in Batches, TakeBuild(n, b)
  PROVE  Bookkeeping'
PROOF
  <1> DEFINE begun == [place |-> "sending", batch |-> b, job |-> 0]
             none == [batch |-> 0, files |-> <<>>]
  <1>1. /\ task' = [task EXCEPT ![n] = begun] /\ build' = [build EXCEPT ![n] = none]
        /\ sent' = [sent EXCEPT ![n] = 0] /\ received' = [received EXCEPT ![n] = <<>>]
        /\ UNCHANGED <<disk, batchVars, remaining, running, errored, mishaps>>
    BY DEF TakeBuild, StartTransfer, Becomes
  <1>2. phase[b] = "queued" /\ b # 0
    BY JobsQueued, Numbered DEF TakeBuild
  <1>3. /\ \A m \in Nodes : m # n => task'[m] = task[m] /\ build'[m] = build[m]
        /\ task'[n] = begun /\ build'[n] = none
    BY <1>1 DEF Bookkeeping, TypeOK, Listed
  <1>4. TypeOK'
    BY <1>1 DEF Bookkeeping, TypeOK, batchVars, Places
  <1>5. Listed'
    BY <1>1 DEF Bookkeeping, Listed, batchVars
  <1>6. Phased'
    BY <1>1 DEF Bookkeeping, Phased, Jobs, batchVars
  <1>7. Held'
    BY <1>1, <1>2, <1>3 DEF Bookkeeping, Held
  <1>8. Begun'
    BY <1>1, <1>2, <1>3 DEF Bookkeeping, Begun, batchVars
  <1> QED
    BY <1>4, <1>5, <1>6, <1>7, <1>8 DEF Bookkeeping

\* or a job, which goes from the list of those that remain to those that run,
LEMMA BookTakeJob ==
  ASSUME Bookkeeping, NEW n \in Nodes, TakeJob(n)
  PROVE  Bookkeeping'
PROOF
  <1> DEFINE b == build[n].batch
             j == Last(remaining[b])
             begun == [place |-> "sending", batch |-> b, job |-> j]
  <1>1. /\ task[n].place = "idle" /\ b # 0 /\ remaining[b] # <<>>
        /\ task' = [task EXCEPT ![n] = begun]
        /\ remaining' = [remaining EXCEPT ![b] = Front(@)]
        /\ running' = [running EXCEPT ![b] = @ \cup {j}]
        /\ sent' = [sent EXCEPT ![n] = 0] /\ received' = [received EXCEPT ![n] = <<>>]
        /\ UNCHANGED <<disk, batchVars, errored, build, mishaps>>
    BY DEF TakeJob, StartTransfer, Becomes
  <1>2. b \in Batches
    BY <1>1 DEF Bookkeeping, Listed
  <1>3. phase[b] = "queued" /\ Jobs(b) # {}
    BY <1>1, <1>2, JobsQueued
  <1>4. remaining[b] \in Seq(JobsOf(b)) /\ IsInjective(remaining[b])
    BY <1>2 DEF Bookkeeping, TypeOK, Listed
  <1>5. /\ j \in JobsOf(b) /\ Front(remaining[b]) \in Seq(JobsOf(b))
        /\ IsInjective(Front(remaining[b])) /\ j \notin ToSet(Front(remaining[b]))
        /\ ToSet(remaining[b]) = ToSet(Front(remaining[b])) \cup {j}
    <2> DEFINE s == remaining[b]
    <2>1. s # <<>> /\ s \in Seq(JobsOf(b)) /\ IsInjective(s)
      BY <1>1, <1>4
    <2> HIDE DEF s, b
    <2>2. /\ Last(s) \in JobsOf(b) /\ Front(s) \in Seq(JobsOf(b))
          /\ IsInjective(Front(s)) /\ Last(s) \notin ToSet(Front(s))
          /\ ToSet(s) = ToSet(Front(s)) \cup {Last(s)}
      BY <2>1, TakenFromEnd
    <2> QED
      BY <2>2 DEF s
  <1>6. j # 0 /\ j \in Nat
    BY <1>2, <1>5, Numbered
  <1> HIDE DEF j
  <1>7. /\ \A c \in Batches : c # b => remaining'[c] = remaining[c] /\ running'[c] = running[c]
        /\ remaining'[b] = Front(remaining[b]) /\ running'[b] = running[b] \cup {j}
        /\ j \notin running[b]
    BY <1>1, <1>2, <1>5 DEF Bookkeeping, TypeOK, Listed
  <1>8. \A m \in Nodes : m # n => task'[m] = task[m]
    BY <1>1 DEF Bookkeeping, TypeOK
  <1>9. task'[n] = begun
    BY <1>1 DEF Bookkeeping, TypeOK
  <1> HIDE DEF b
  <1>10. TypeOK'
    <2>1. \A c \in Batches :
            /\ ToSet(remaining'[c]) \cup running'[c] \subseteq JobsOf(c)
            /\ IsInjective(remaining'[c]) /\ ToSet(remaining'[c]) \cap running'[c] = {}
      <3> TAKE c \in Batches
      <3>1. CASE c = b
        <4>1. /\ ToSet(remaining[b]) \cup running[b] \subseteq JobsOf(b)
              /\ ToSet(remaining[b]) \cap running[b] = {}
          BY <1>2 DEF Bookkeeping, TypeOK
        <4> QED
          BY <1>5, <1>7, <3>1, <4>1
      <3>2. CASE c # b
        <4>1. remaining'[c] = remaining[c] /\ running'[c] = running[c]
          BY <1>7, <3>2
        <4> QED
          BY <4>1 DEF Bookkeeping, TypeOK
      <3> QED
        BY <3>1, <3>2
    <2>2. task' \in [Nodes -> [place : Places, batch : Batches \cup {0}, job : Nat]]
      BY <1>1, <1>2, <1>6 DEF Bookkeeping, TypeOK, Places
    <2> QED
      BY <1>1, <2>1, <2>2 DEF Bookkeeping, TypeOK, batchVars
  <1>11. Listed'
    BY <1>1, <1>5, <1>7 DEF Bookkeeping, Listed, batchVars
  <1>12. Phased'
    BY <1>1, <1>3, <1>7 DEF Bookkeeping, Phased, Jobs, batchVars
  <1>13. Held'
    <2>1. ASSUME NEW m \in Nodes
          PROVE  /\ task'[m].place = "idle" => task'[m] = Idle
                 /\ task'[m].place = "executing" => task'[m].job # 0
                 /\ task'[m].place # "idle" => task'[m].batch # 0
                 /\ task'[m].job # 0 => /\ task'[m].job \in running'[task'[m].batch]
                                        /\ build'[m].batch = task'[m].batch
      <3>1. CASE m = n
        <4>1. /\ task'[m].place = "sending" /\ task'[m].batch = b /\ task'[m].job = j
              /\ build'[m].batch = b /\ j \in running'[b]
          BY <1>1, <1>7, <1>9, <3>1 DEF b
        <4> QED
          BY <1>1, <4>1
      <3>2. CASE m # n
        <4>1. task[m].job # 0 => task[m].batch \in Batches /\ task[m].job \in running[task[m].batch]
          BY HeldFacts
        <4> QED
          BY <1>1, <1>7, <1>8, <3>2, <4>1 DEF Bookkeeping, Held
      <3> QED
        BY <3>1, <3>2
    <2>2. ASSUME NEW m \in Nodes, NEW l \in Nodes, task'[m].job # 0,
                 task'[m].batch = task'[l].batch, task'[m].job = task'[l].job
          PROVE  m = l
      <3>1. \A k \in Nodes : k # n /\ task[k].job # 0 /\ task[k].batch = b => task[k].job # j
        BY <1>7 DEF Bookkeeping, Held
      <3>2. CASE m = n /\ l # n
        BY <1>6, <1>8, <1>9, <2>2, <3>1, <3>2
      <3>3. CASE m # n /\ l = n
        BY <1>6, <1>8, <1>9, <2>2, <3>1, <3>3
      <3>4. CASE m # n /\ l # n
        BY <1>8, <2>2, <3>4 DEF Bookkeeping, Held
      <3> QED
        BY <3>2, <3>3, <3>4
    <2> QED
      BY <2>1, <2>2 DEF Held
  <1>14. Begun'
    BY <1>1, <1>3, <1>8, <1>9 DEF Bookkeeping, Begun, batchVars, b
  <1> QED
    BY <1>10, <1>11, <1>12, <1>13, <1>14 DEF Bookkeeping

\* sends its files,
LEMMA BookSendFile ==
  ASSUME Bookkeeping, NEW n \in Nodes, SendFile(n)
  PROVE  Bookkeeping'
PROOF
  <1>1. sent' = [sent EXCEPT ![n] = @ + 1] /\ DOMAIN received' = Nodes
        /\ UNCHANGED <<disk, batchVars, remaining, running, errored, task, build, mishaps>>
    BY DEF SendFile, Bookkeeping, Listed
  <1>2. TypeOK' /\ Phased' /\ Held' /\ Begun'
    BY <1>1 DEF Bookkeeping, TypeOK, Phased, Jobs, Held, Begun, batchVars
  <1>3. Listed'
    BY <1>1 DEF Bookkeeping, Listed, batchVars
  <1> QED
    BY <1>2, <1>3 DEF Bookkeeping

\* builds,
LEMMA BookBuild ==
  ASSUME Bookkeeping, NEW n \in Nodes, Build(n)
  PROVE  Bookkeeping'
PROOF
  <1> DEFINE b == task[n].batch
             built == [batch |-> b, files |-> received[n]]
  <1>1. /\ task[n].place = "sending" /\ task[n].job = 0
        /\ task' = [task EXCEPT ![n] = Idle]
        /\ \/ build' = [build EXCEPT ![n] = built] /\ errored' = errored
           \/ build' = build /\ errored' = [errored EXCEPT ![n] = @ \cup {b}]
        /\ sent' = [sent EXCEPT ![n] = 0] /\ received' = [received EXCEPT ![n] = <<>>]
        /\ UNCHANGED <<disk, batchVars, remaining, running, mishaps>>
    BY DEF Build, Becomes
  <1>2. b \in Batches /\ phase[b] \in {"queued", "dropped"}
    BY <1>1, BusyFacts
  <1>3. /\ \A m \in Nodes : m # n => task'[m] = task[m] /\ build'[m] = build[m]
        /\ task'[n] = Idle
        /\ build'[n].batch = b \/ build'[n].batch = build[n].batch
    BY <1>1 DEF Bookkeeping, TypeOK, Listed
  <1> HIDE DEF b
  <1>4. TypeOK'
    <2>1. task' \in [Nodes -> [place : Places, batch : Batches \cup {0}, job : Nat]]
      BY <1>1 DEF Bookkeeping, TypeOK, Places, Idle
    <2>2. errored' \in [Nodes -> SUBSET Batches]
      <3>1. errored \in [Nodes -> SUBSET Batches] /\ errored[n] \cup {b} \in SUBSET Batches
        BY <1>2 DEF Bookkeeping, TypeOK
      <3>2. errored' = errored \/ errored' = [errored EXCEPT ![n] = errored[n] \cup {b}]
        BY <1>1
      <3> QED
        BY <3>1, <3>2
    <2> QED
      BY <1>1, <2>1, <2>2 DEF Bookkeeping, TypeOK, batchVars
  <1>5. Listed'
    BY <1>1, <1>2, <1>3 DEF Bookkeeping, Listed, batchVars
  <1>6. Phased'
    BY <1>1 DEF Bookkeeping, Phased, Jobs, batchVars
  <1>7. Held'
    BY <1>1, <1>3 DEF Bookkeeping, Held, Idle
  <1>8. Begun'
    BY <1>1, <1>2, <1>3 DEF Bookkeeping, Begun, batchVars, Idle
  <1> QED
    BY <1>4, <1>5, <1>6, <1>7, <1>8 DEF Bookkeeping

\* executes,
LEMMA BookExecute ==
  ASSUME Bookkeeping, NEW n \in Nodes, Execute(n)
  PROVE  Bookkeeping'
PROOF
  <1>1. /\ task[n].place = "sending" /\ task[n].job # 0
        /\ task' = [task EXCEPT ![n].place = "executing"]
        /\ UNCHANGED <<disk, batchVars, remaining, running, errored, sent, received, build, mishaps>>
    BY DEF Execute
  <1>2. /\ \A m \in Nodes : m # n => task'[m] = task[m]
        /\ \A m \in Nodes : task'[m].batch = task[m].batch /\ task'[m].job = task[m].job
        /\ task'[n].place = "executing"
    BY <1>1 DEF Bookkeeping, TypeOK
  <1>3. TypeOK'
    BY <1>1 DEF Bookkeeping, TypeOK, batchVars, Places
  <1>4. Listed' /\ Phased'
    BY <1>1 DEF Bookkeeping, Listed, Phased, Jobs, batchVars
  <1>5. Held'
    BY <1>1, <1>2 DEF Bookkeeping, Held
  <1>6. Begun'
    BY <1>1, <1>2 DEF Bookkeeping, Begun, batchVars
  <1> QED
    BY <1>3, <1>4, <1>5, <1>6 DEF Bookkeeping

\* finishes the job, which ends the batch if it was the last,
LEMMA BookFinishJob ==
  ASSUME Bookkeeping, NEW n \in Nodes, FinishJob(n)
  PROVE  Bookkeeping'
PROOF
  <1> DEFINE b == task[n].batch
             j == task[n].job
             left == running[b] \ {j}
  <1>1. /\ task[n].place = "executing"
        /\ task' = [task EXCEPT ![n] = Idle]
        /\ running' = [running EXCEPT ![b] = left]
        /\ \/ /\ remaining[b] = <<>> /\ left = {}
              /\ phase' = [phase EXCEPT ![b] = "dropped"] /\ DOMAIN disk' \subseteq DOMAIN disk
           \/ UNCHANGED <<phase, disk>>
        /\ sent' = [sent EXCEPT ![n] = 0] /\ received' = [received EXCEPT ![n] = <<>>]
        /\ UNCHANGED <<stored, unsaved, shared, remaining, errored, build, mishaps>>
    BY DEF FinishJob, Erase, Becomes
  <1>2. /\ b \in Batches /\ j # 0 /\ j \in running[b] /\ phase[b] = "queued"
        /\ b # 0
    BY <1>1, BusyFacts, HeldFacts, Numbered
  <1>3. /\ \A m \in Nodes : m # n => task'[m] = task[m]
        /\ task'[n] = Idle
    BY <1>1 DEF Bookkeeping, TypeOK
  <1>4. /\ \A c \in Batches : c # b => running'[c] = running[c] /\ phase'[c] = phase[c]
        /\ running'[b] = left
        /\ phase'[b] = "queued" \/ (phase'[b] = "dropped" /\ remaining[b] = <<>> /\ left = {})
    <2>1. DOMAIN running = Batches /\ DOMAIN phase = Batches
      BY DEF Bookkeeping, TypeOK, Listed
    <2> HIDE DEF b, left
    <2>2. \A c \in Batches : running'[c] = IF c = b THEN left ELSE running[c]
      BY <1>1, <1>2, <2>1
    <2>3. \A c \in Batches : c # b => phase'[c] = phase[c]
      BY <1>1, <1>2, <2>1
    <2>4. phase'[b] = "queued" \/ (phase'[b] = "dropped" /\ remaining[b] = <<>> /\ left = {})
      <3>1. CASE phase' = phase
        BY <1>2, <3>1
      <3>2. CASE /\ remaining[b] = <<>> /\ left = {}
                 /\ phase' = [phase EXCEPT ![b] = "dropped"]
        BY <1>2, <2>1, <3>2
      <3> QED
        BY <1>1, <3>1, <3>2
    <2> QED
      BY <1>2, <2>2, <2>3, <2>4
  <1> HIDE DEF b, j
  <1>5. TypeOK'
    <2>1. /\ task' \in [Nodes -> [place : Places, batch : Batches \cup {0}, job : Nat]]
          /\ phase' \in [Batches -> {"new", "sending", "interrupted", "queued", "dropped",
                           "refused"}]
      BY <1>1 DEF Bookkeeping, TypeOK, Idle, Places
    <2>2. \A c \in Batches :
            /\ ToSet(remaining'[c]) \cup running'[c] \subseteq JobsOf(c)
            /\ IsInjective(remaining'[c]) /\ ToSet(remaining'[c]) \cap running'[c] = {}
      BY <1>1, <1>4 DEF Bookkeeping, TypeOK
    <2>3. DOMAIN disk' \subseteq AllPaths
      BY <1>1 DEF Bookkeeping, TypeOK
    <2> QED
      BY <1>1, <2>1, <2>2, <2>3 DEF Bookkeeping, TypeOK
  <1>6. Listed'
    BY <1>1 DEF Bookkeeping, Listed
  <1>7. Phased'
    BY <1>1, <1>2, <1>4, NothingListed DEF Bookkeeping, Phased, Jobs
  <1>8. Held'
    <2>1. ASSUME NEW m \in Nodes
          PROVE  /\ task'[m].place = "idle" => task'[m] = Idle
                 /\ task'[m].place = "executing" => task'[m].job # 0
                 /\ task'[m].place # "idle" => task'[m].batch # 0
                 /\ task'[m].job # 0 => /\ task'[m].job \in running'[task'[m].batch]
                                        /\ build'[m].batch = task'[m].batch
      <3>1. CASE m = n
        BY <1>3, <3>1 DEF Idle
      <3>2. CASE m # n
        <4>1. task[m].job # 0 => task[m].batch \in Batches /\ task[m].job \in running[task[m].batch]
          BY HeldFacts
        <4>2. task[m].job # 0 /\ task[m].batch = b => task[m].job # j
          BY <3>2 DEF Bookkeeping, Held, b, j
        <4>3. task[m].job # 0 => task[m].job \in running'[task[m].batch]
          BY <1>4, <4>1, <4>2
        <4> QED
          BY <1>1, <1>3, <3>2, <4>3 DEF Bookkeeping, Held
      <3> QED
        BY <3>1, <3>2
    <2>2. ASSUME NEW m \in Nodes, NEW l \in Nodes, task'[m].job # 0,
                 task'[m].batch = task'[l].batch, task'[m].job = task'[l].job
          PROVE  m = l
      <3>1. m # n /\ l # n
        BY <1>3, <2>2 DEF Idle
      <3> QED
        BY <1>3, <2>2, <3>1 DEF Bookkeeping, Held
    <2> QED
      BY <2>1, <2>2 DEF Held
  <1>9. Begun'
    <2>1. \A c \in Batches : phase[c] \in {"queued", "dropped"} => phase'[c] \in {"queued", "dropped"}
      BY <1>4
    <2>2. ASSUME NEW m \in Nodes, NEW c \in {task'[m].batch, build'[m].batch} \ {0}
          PROVE  phase'[c] \in {"queued", "dropped"}
      <3>1. c \in {task[m].batch, build[m].batch} \ {0}
        BY <1>1, <1>3 DEF Idle
      <3>2. c \in Batches
        BY <3>1 DEF Bookkeeping, TypeOK, Listed
      <3> QED
        BY <2>1, <3>1, <3>2 DEF Bookkeeping, Begun
    <2> QED
      BY <2>2 DEF Begun
  <1> QED
    BY <1>5, <1>6, <1>7, <1>8, <1>9 DEF Bookkeeping

\* or fails, and the job goes back on the list.
LEMMA BookNodeFails ==
  ASSUME Bookkeeping, NEW n \in Nodes, NodeFails(n)
  PROVE  Bookkeeping'
PROOF
  <1> DEFINE b == task[n].batch
             j == task[n].job
             none == [batch |-> 0, files |-> <<>>]
  <1>1. /\ task[n].place # "idle" /\ Mishap("node")
        /\ task' = [task EXCEPT ![n] = Idle]
        /\ build' = [build EXCEPT ![n] = none]
        /\ \/ j = 0 /\ UNCHANGED <<remaining, running>>
           \/ /\ j # 0
              /\ remaining' = [remaining EXCEPT ![b] = Append(@, j)]
              /\ running' = [running EXCEPT ![b] = @ \ {j}]
        /\ sent' = [sent EXCEPT ![n] = 0] /\ received' = [received EXCEPT ![n] = <<>>]
        /\ UNCHANGED <<disk, batchVars, errored>>
    BY DEF NodeFails, Becomes
  <1>2. /\ \A m \in Nodes : m # n => task'[m] = task[m] /\ build'[m] = build[m]
        /\ task'[n] = Idle /\ build'[n] = none
    BY <1>1 DEF Bookkeeping, TypeOK, Listed
  <1>3. b \in Batches
    BY <1>1, BusyFacts
  <1>4. j # 0 => /\ j \in JobsOf(b) /\ j \in running[b] /\ j \notin ToSet(remaining[b])
                 /\ phase[b] = "queued"
    BY HeldFacts
  <1>5. remaining[b] \in Seq(JobsOf(b)) /\ IsInjective(remaining[b])
    BY <1>3 DEF Bookkeeping, Listed, TypeOK
  <1>6. j # 0 => /\ Append(remaining[b], j) \in Seq(JobsOf(b))
                 /\ IsInjective(Append(remaining[b], j))
                 /\ ToSet(Append(remaining[b], j)) = ToSet(remaining[b]) \cup {j}
    BY <1>4, <1>5, PutBackAtEnd
  <1> HIDE DEF b, j
  <1>7. /\ \A c \in Batches : c # b => remaining'[c] = remaining[c] /\ running'[c] = running[c]
        /\ j = 0 => remaining'[b] = remaining[b] /\ running'[b] = running[b]
        /\ j # 0 => remaining'[b] = Append(remaining[b], j) /\ running'[b] = running[b] \ {j}
    BY <1>1, <1>3 DEF Bookkeeping, Listed
  <1>8. TypeOK'
    <2>1. task' \in [Nodes -> [place : Places, batch : Batches \cup {0}, job : Nat]]
      BY <1>1 DEF Bookkeeping, TypeOK, Idle, Places
    <2>2. \A c \in Batches :
            /\ ToSet(remaining'[c]) \cup running'[c] \subseteq JobsOf(c)
            /\ IsInjective(remaining'[c]) /\ ToSet(remaining'[c]) \cap running'[c] = {}
      <3>1. \A c \in Batches \ {b} :
              /\ ToSet(remaining'[c]) \cup running'[c] \subseteq JobsOf(c)
              /\ IsInjective(remaining'[c]) /\ ToSet(remaining'[c]) \cap running'[c] = {}
        BY <1>7 DEF Bookkeeping, TypeOK
      <3>2. /\ ToSet(remaining[b]) \cup running[b] \subseteq JobsOf(b)
            /\ ToSet(remaining[b]) \cap running[b] = {}
        BY <1>3 DEF Bookkeeping, TypeOK
      <3>3. /\ ToSet(remaining'[b]) \cup running'[b] \subseteq JobsOf(b)
            /\ IsInjective(remaining'[b]) /\ ToSet(remaining'[b]) \cap running'[b] = {}
        <4>1. CASE j = 0
          BY <1>5, <1>7, <3>2, <4>1
        <4>2. CASE j # 0
          BY <1>4, <1>6, <1>7, <3>2, <4>2
        <4> QED
          BY <4>1, <4>2
      <3> QED
        BY <3>1, <3>3
    <2>3. mishaps' \in 0..MaxMishaps
      BY <1>1, MishapCounts DEF Bookkeeping, TypeOK
    <2> QED
      BY <1>1, <2>1, <2>2, <2>3 DEF Bookkeeping, TypeOK, batchVars
  <1>9. Listed'
    BY <1>1, <1>2, <1>6, <1>7 DEF Bookkeeping, Listed, batchVars
  <1>10. Phased'
    BY <1>1, <1>4, <1>7 DEF Bookkeeping, Phased, Jobs, batchVars
  <1>11. Held'
    <2>1. ASSUME NEW m \in Nodes
          PROVE  /\ task'[m].place = "idle" => task'[m] = Idle
                 /\ task'[m].place = "executing" => task'[m].job # 0
                 /\ task'[m].place # "idle" => task'[m].batch # 0
                 /\ task'[m].job # 0 => /\ task'[m].job \in running'[task'[m].batch]
                                        /\ build'[m].batch = task'[m].batch
      <3>1. CASE m = n
        BY <1>2, <3>1 DEF Idle
      <3>2. CASE m # n
        <4>1. task[m].job # 0 => task[m].batch \in Batches /\ task[m].job \in running[task[m].batch]
          BY HeldFacts
        <4>2. task[m].job # 0 /\ task[m].batch = b => task[m].job # j
          BY <3>2 DEF Bookkeeping, Held, b, j
        <4>3. task[m].job # 0 => task[m].job \in running'[task[m].batch]
          BY <1>7, <4>1, <4>2
        <4> QED
          BY <1>1, <1>2, <3>2, <4>3 DEF Bookkeeping, Held
      <3> QED
        BY <3>1, <3>2
    <2>2. ASSUME NEW m \in Nodes, NEW l \in Nodes, task'[m].job # 0,
                 task'[m].batch = task'[l].batch, task'[m].job = task'[l].job
          PROVE  m = l
      <3>1. m # n /\ l # n
        BY <1>2, <2>2 DEF Idle
      <3> QED
        BY <1>2, <2>2, <3>1 DEF Bookkeeping, Held
    <2> QED
      BY <2>1, <2>2 DEF Held
  <1>12. Begun'
    BY <1>1, <1>2 DEF Bookkeeping, Begun, Idle, batchVars
  <1> QED
    BY <1>8, <1>9, <1>10, <1>11, <1>12 DEF Bookkeeping

\* So every step keeps the bookkeeping.
LEMMA BookNext == ASSUME Bookkeeping, [Next]_vars PROVE Bookkeeping'
PROOF
  <1>1. CASE UNCHANGED vars
    BY <1>1 DEF vars, batchVars, nodeVars, Bookkeeping, TypeOK, Listed, Phased, Jobs, Held, Begun
  <1>2. CASE Next
    BY <1>2, BookSubmit, BookStoreFile, BookSubmissionBreaks, BookQueue, BookCancelBatch,
       BookTakeBuild, BookTakeJob, BookSendFile, BookBuild, BookExecute, BookFinishJob,
       BookNodeFails DEF Next
  <1> QED
    BY <1>1, <1>2

\* The state keeps its types, whatever the names of the batches (TypeOK).
THEOREM TypeCorrect == Spec => []TypeOK
PROOF
  <1>1. Init => Bookkeeping
    BY BookInit
  <1>2. Bookkeeping /\ [Next]_vars => Bookkeeping'
    BY BookNext
  <1>3. Bookkeeping => TypeOK
    BY DEF Bookkeeping
  <1> QED
    BY <1>1, <1>2, <1>3, PTL DEF Spec

-----------------------------------------------------------------------------
(* The files where they are needed                                         *)

\* Its files may be on the disk and still be needed, and all of them are its own.
Alone(b) == UnderWay(b) /\ b \notin shared

\* What could not be saved of a batch does not come to the disk after all.
StillUnsaved(b) ==
  \A j \in {0} \cup JobsOf(b) : \A f \in ToSet(FilesOf(b, j)) :
    f.hashed_path \in unsaved => f.hashed_path \in unsaved'

\* NeededFilesAreThere, in these words.
NeededStand ==
  \A b \in Batches : Owed(b) =>
    \A j \in {0} \cup Jobs(b) : \A f \in ToSet(FilesOf(b, j)) : Stands(f)

\* Both say the same, of this state and of the next.
LEMMA NeededIsThere ==
  /\ NeededFilesAreThere <=> NeededStand
  /\ NeededFilesAreThere' <=> NeededStand'
PROOF
  <1>1. \A b \in Batches : \A f \in UNION {ToSet(FilesOf(b, j)) : j \in Jobs(b) \cup {0}} :
          \E j \in {0} \cup Jobs(b) : f \in ToSet(FilesOf(b, j))
    OBVIOUS
  <1>2. \A b \in Batches : \A j \in {0} \cup Jobs(b) : \A f \in ToSet(FilesOf(b, j)) :
          f \in UNION {ToSet(FilesOf(b, i)) : i \in Jobs(b) \cup {0}}
    OBVIOUS
  <1>3. NeededFilesAreThere <=> NeededStand
    BY <1>1, <1>2 DEF NeededFilesAreThere, NeededStand, Owed, Stands
  <1>4. \A b \in Batches :
          \A f \in UNION {ToSet(FilesOf(b, j)) : j \in Jobs(b)' \cup {0}} :
          \E j \in {0} \cup Jobs(b)' : f \in ToSet(FilesOf(b, j))
    OBVIOUS
  <1>5. \A b \in Batches : \A j \in {0} \cup Jobs(b)' : \A f \in ToSet(FilesOf(b, j)) :
          f \in UNION {ToSet(FilesOf(b, i)) : i \in Jobs(b)' \cup {0}}
    OBVIOUS
  <1>6. NeededFilesAreThere' <=> NeededStand'
    BY <1>4, <1>5 DEF NeededFilesAreThere, NeededStand, Owed, Stands
  <1> QED
    BY <1>3, <1>6

\* No batch gets a name by going on.
LEMMA NamesKept ==
  ASSUME OneOfAName, shared \subseteq shared',
         \A b \in Batches : UnderWay(b)' => UnderWay(b),
         \A b \in Batches : phase'[b] \in {"sending", "queued"} => phase[b] \in {"sending", "queued"}
  PROVE  OneOfAName'
PROOF
  <1>1. \A b \in Batches : phase'[b] \in {"sending", "queued"} => Accepted(Configs[b])
    BY DEF OneOfAName
  <1>2. \A b, c \in Batches :
          b # c /\ UnderWay(b)' /\ UnderWay(c)' /\ b \notin shared' => ~SharesName(b, c)
    BY DEF OneOfAName
  <1> QED
    BY <1>1, <1>2 DEF OneOfAName, SharesName

\* Files stand if a step starts nothing, adds no jobs and leaves them alone.
LEMMA FilesKept ==
  ASSUME Bookkeeping, StoredStand, NeededFilesAreThere, shared \subseteq shared',
         \A b \in Batches : phase'[b] = "sending" =>
           stored'[b] = 0 \/ (phase[b] = "sending" /\ stored'[b] = stored[b]),
         \A b \in Batches : phase'[b] = "queued" => phase[b] = "queued" /\ Jobs(b)' \subseteq Jobs(b),
         \A b \in Batches \ shared' : \A j \in {0} \cup JobsOf(b) : \A f \in ToSet(FilesOf(b, j)) :
           /\ \/ phase'[b] = "sending"
              \/ phase'[b] = "queued" /\ Jobs(b)' # {} /\ j \in {0} \cup Jobs(b)'
           /\ Stands(f)
           => Stands(f)'
  PROVE  StoredStand' /\ NeededFilesAreThere'
PROOF
  <1>1. ASSUME NEW b \in Batches \ shared', phase'[b] = "sending", NEW i \in 1..stored'[b]
        PROVE  Stands(SendableFiles[b][i])'
    <2>1. b \notin shared /\ i \in 1..stored[b] /\ phase[b] = "sending" /\ stored[b] \in 0..Len(SendableFiles[b])
      BY <1>1 DEF Bookkeeping, TypeOK
    <2>2. Stands(SendableFiles[b][i])
      BY <2>1 DEF StoredStand
    <2>3. i \in 1..Len(SendableFiles[b])
      BY <2>1, SendableFacts, Elements
    <2>4. PICK j \in {0} \cup JobsOf(b) : SendableFiles[b][i] \in ToSet(FilesOf(b, j))
      BY <2>3, SendableFile
    <2> DEFINE f == SendableFiles[b][i]
    <2>5. f \in ToSet(FilesOf(b, j)) /\ Stands(f)
      BY <2>2, <2>4
    <2> HIDE DEF f
    <2>6. Stands(f)'
      BY <1>1, <2>5
    <2> QED
      BY <2>6 DEF f
  <1>2. ASSUME NEW b \in Batches, Owed(b)',
               NEW j \in {0} \cup Jobs(b)', NEW f \in ToSet(FilesOf(b, j))
        PROVE  Stands(f)'
    <2>1. phase'[b] = "queued" /\ phase[b] = "queued" /\ Jobs(b)' # {} /\ Jobs(b)' \subseteq Jobs(b)
          /\ b \notin shared' /\ b \notin shared
      BY <1>2 DEF Owed
    <2>2. Owed(b) /\ j \in {0} \cup Jobs(b)
      BY <2>1 DEF Owed
    <2>3. Stands(f)
      BY <2>2, NeededIsThere DEF NeededStand
    <2>4. j \in {0} \cup JobsOf(b)
      BY <2>2 DEF Bookkeeping, TypeOK, Jobs
    <2> QED
      BY <1>2, <2>1, <2>3, <2>4
  <1>3. NeededFilesAreThere'
    <2>1. NeededStand'
      BY <1>2 DEF NeededStand
    <2> QED
      BY <2>1, NeededIsThere
  <1>4. StoredStand'
    BY <1>1 DEF StoredStand
  <1> QED
    BY <1>3, <1>4

\* What a node has got stays with it.
LEMMA TransferKept ==
  ASSUME Bookkeeping, NEW n \in Nodes, TransferGot(n),
         task'[n] = task[n], sent'[n] = sent[n], received'[n] = received[n],
         \A b \in Batches : task[n].batch = b /\ Owed(b)' => Owed(b) /\ StillUnsaved(b)
  PROVE  TransferGot(n)'
PROOF
  <1> DEFINE files == FilesOf(task[n].batch, task[n].job)
  <1>1. CASE task[n].place = "idle"
    BY <1>1 DEF TransferGot
  <1>2. CASE task[n].place # "idle"
    <2>1. PICK b \in Batches : task[n].batch = b
      BY <1>2, BusyFacts
    <2>2. task[n].job \in {0} \cup JobsOf(b)
      BY <1>2, <2>1, BusyFacts
    <2>3. ASSUME Owed(b)'
          PROVE  /\ task[n].place = "executing" => sent[n] = Len(files)
                 /\ \A i \in 1..sent[n] : i \in DOMAIN files /\ LastSoFar(files, i, sent[n])
                      => Got(files[i], received[n])'
      <3>1. Owed(b) /\ StillUnsaved(b)
        BY <2>1, <2>3
      <3>2. task[n].place = "executing" => sent[n] = Len(files)
        BY <1>2, <2>1, <3>1 DEF TransferGot
      <3>3. ASSUME NEW i \in 1..sent[n], i \in DOMAIN files, LastSoFar(files, i, sent[n])
            PROVE  Got(files[i], received[n])'
        <4>1. Got(files[i], received[n])
          BY <1>2, <2>1, <3>1, <3>3 DEF TransferGot
        <4>2. files[i] \in ToSet(FilesOf(b, task[n].job))
          BY <2>1, <3>3 DEF ToSet
        <4>3. files[i].hashed_path \in unsaved => files[i].hashed_path \in unsaved'
          BY <2>2, <3>1, <4>2 DEF StillUnsaved
        <4> QED
          BY <4>1, <4>3 DEF Got
      <3> QED
        BY <3>2, <3>3
    <2>4. FilesOf(task'[n].batch, task'[n].job) = files
      OBVIOUS
    <2>5. Owed(b)' <=> (phase'[task'[n].batch] = "queued" /\ Jobs(b)' # {} /\ b \notin shared')
      BY <2>1 DEF Owed
    <2> QED
      BY <2>1, <2>3, <2>4, <2>5 DEF TransferGot, Owed, Jobs, Got, LastSoFar
  <1> QED
    BY <1>1, <1>2

\* and so does what it has built with.
LEMMA BuildKept ==
  ASSUME Bookkeeping, NEW n \in Nodes, BuildGot(n), build'[n] = build[n],
         \A b \in Batches : build[n].batch = b /\ Owed(b)' => Owed(b) /\ StillUnsaved(b)
  PROVE  BuildGot(n)'
PROOF
  <1>1. CASE build[n].batch = 0
    BY <1>1 DEF BuildGot
  <1>2. CASE build[n].batch # 0
    <2>1. PICK b \in Batches : build[n].batch = b
      BY <1>2 DEF Bookkeeping, Listed
    <2>2. ASSUME Owed(b)' PROVE Complete(FilesOf(b, 0), build[n].files)'
      <3>1. Owed(b) /\ StillUnsaved(b)
        BY <2>1, <2>2
      <3>2. Complete(FilesOf(b, 0), build[n].files)
        BY <1>2, <2>1, <3>1 DEF BuildGot
      <3>3. ASSUME NEW i \in DOMAIN FilesOf(b, 0)
            PROVE  FilesOf(b, 0)[i].hashed_path \in unsaved
                     => FilesOf(b, 0)[i].hashed_path \in unsaved'
        BY <3>1, <3>3 DEF StillUnsaved, ToSet
      <3> QED
        BY <3>2, <3>3 DEF Complete, IsLast
    <2> QED
      BY <2>1, <2>2 DEF BuildGot, Owed, Jobs, Complete, IsLast
  <1> QED
    BY <1>1, <1>2

\* What is stored for one batch leaves the files of all others alone,
\* and overwrites one of its own only with what is there.
LEMMA StoreKeeps ==
  ASSUME NamesTellApart, Bookkeeping, OneOfAName,
         NEW c \in Batches, StoreFile(c),
         NEW b \in Batches, Alone(b),
         NEW j \in {0} \cup JobsOf(b), NEW f \in ToSet(FilesOf(b, j))
  PROVE  /\ Stands(f) => Stands(f)'
         /\ f = SendableFiles[c][stored[c] + 1] => Stands(f)'
         /\ b # c /\ f.hashed_path \in unsaved => f.hashed_path \in unsaved'
PROOF
  <1>1. PICK i \in 1..Len(SendableFiles[c]) : i = stored[c] + 1
    BY SendableFacts, Elements DEF Bookkeeping, TypeOK, Listed, StoreFile
  <1> DEFINE file == SendableFiles[c][i]
  <1>2. PICK k \in {0} \cup JobsOf(c) : file \in ToSet(FilesOf(c, k))
    BY SendableFile
  <1>3. PICK content :
          /\ disk' = disk \/ disk' = Put(disk, file.hashed_path, content)
          /\ \/ /\ disk' = Put(disk, file.hashed_path, content) /\ content = file.bytes
                /\ unsaved' = unsaved \ {file.hashed_path}
             \/ unsaved' = unsaved \cup {file.hashed_path}
    BY <1>1 DEF StoreFile
  <1>4. Accepted(Configs[b]) /\ Accepted(Configs[c]) /\ UnderWay(b) /\ UnderWay(c)
    BY DEF OneOfAName, Alone, UnderWay, StoreFile
  <1>5. f.hashed_path = file.hashed_path => f = file /\ b = c
    <2>1. CASE b = c
      BY <1>2, <1>4, <2>1, PathsTell
    <2>2. CASE b # c
      <3>1. ~SharesName(b, c)
        BY <1>4, <2>2 DEF OneOfAName, Alone
      <3> QED
        BY <1>2, <1>4, <3>1, PathsApart
    <2> QED
      BY <2>1, <2>2
  <1> HIDE DEF file
  <1> DEFINE Kept == /\ Stands(f) => Stands(f)'
                     /\ f = file => Stands(f)'
                     /\ b # c /\ f.hashed_path \in unsaved => f.hashed_path \in unsaved'
  <1>6. ASSUME f.hashed_path = file.hashed_path PROVE Kept
    <2>1. f = file /\ b = c
      BY <1>5, <1>6
    <2>2. Stands(f)'
      BY <1>3, <2>1 DEF Stands, Put
    <2> QED
      BY <2>1, <2>2
  <1>7. ASSUME f.hashed_path # file.hashed_path PROVE Kept
    <2>1. f.hashed_path \in unsaved <=> f.hashed_path \in unsaved'
      BY <1>3, <1>7
    <2>2. f.hashed_path \in DOMAIN disk =>
            f.hashed_path \in DOMAIN disk' /\ disk'[f.hashed_path] = disk[f.hashed_path]
      BY <1>3, <1>7 DEF Put
    <2> QED
      BY <1>7, <2>1, <2>2 DEF Stands
  <1>8. Kept
    BY <1>6, <1>7
  <1> QED
    BY <1>1, <1>8 DEF file

\* What is not erased stands.
LEMMA EraseKeeps ==
  ASSUME NEW paths, Erase(paths), unsaved' = unsaved,
         NEW f, f.hashed_path \notin paths, Stands(f)
  PROVE  Stands(f)'
PROOF
  BY DEF Erase, Stands

\* The files of a batch that is alone are not those of another under way.
LEMMA OthersApart ==
  ASSUME NamesTellApart, OneOfAName,
         NEW b \in Batches, NEW c \in Batches, b # c, Alone(b), UnderWay(c),
         NEW j \in {0} \cup JobsOf(b), NEW f \in ToSet(FilesOf(b, j)),
         NEW k \in {0} \cup JobsOf(c), NEW g \in ToSet(FilesOf(c, k))
  PROVE  f.hashed_path # g.hashed_path
PROOF
  <1>1. Accepted(Configs[b]) /\ Accepted(Configs[c]) /\ ~SharesName(b, c)
    BY DEF OneOfAName, Alone, UnderWay
  <1> QED
    BY <1>1, PathsApart

\* The files are where they are needed at the start, when none is,
LEMMA FilesInit == ASSUME Init PROVE FilesHold
PROOF
  <1>1. OneOfAName /\ StoredStand /\ NeededFilesAreThere
    BY DEF Init, OneOfAName, UnderWay, StoredStand, NeededFilesAreThere
  <1>2. \A n \in Nodes : TransferGot(n) /\ BuildGot(n)
    BY DEF Init, Idle, TransferGot, BuildGot
  <1> QED
    BY <1>1, <1>2 DEF FilesHold

\* when a batch is accepted, which from then on shares its name if another one
\* of that name is under way,
LEMMA FilesSubmit ==
  ASSUME NamesTellApart, IInv, NEW b \in Batches, Submit(b)
  PROVE  FilesHold'
PROOF
  <1> DEFINE rivals == {c \in Batches : UnderWay(c) /\ SharesName(b, c)}
  <1>1. /\ phase[b] = "new" /\ stored[b] = 0
        /\ \/ /\ Accepted(Configs[b])
              /\ phase' = [phase EXCEPT ![b] = "sending"]
              /\ shared' = shared \cup rivals \cup (IF rivals = {} THEN {} ELSE {b})
           \/ phase' = [phase EXCEPT ![b] = "refused"] /\ shared' = shared
        /\ UNCHANGED <<disk, stored, unsaved, remaining, running, nodeVars>>
    BY DEF Submit, IInv, Bookkeeping, Phased
  <1>2. \A c \in Batches : c # b => phase'[c] = phase[c]
    BY <1>1 DEF IInv, Bookkeeping, TypeOK
  <1>3. /\ phase'[b] \in {"sending", "refused"}
        /\ phase'[b] = "sending" =>
             Accepted(Configs[b]) /\ rivals \subseteq shared' /\ (rivals # {} => b \in shared')
    BY <1>1 DEF IInv, Bookkeeping, TypeOK
  <1>4. shared \subseteq shared'
    BY <1>1
  <1>5. OneOfAName'
    <2>1. \A c \in Batches : phase'[c] \in {"sending", "queued"} => Accepted(Configs[c])
      BY <1>2, <1>3 DEF IInv, FilesHold, OneOfAName
    <2>2. \A c \in Batches : c # b => (UnderWay(c)' <=> UnderWay(c))
      BY <1>1, <1>2 DEF UnderWay, Jobs
    <2>3. UnderWay(b)' => phase'[b] = "sending"
      BY <1>3 DEF UnderWay
    <2>4. ASSUME NEW c \in Batches, NEW d \in Batches, c # d, UnderWay(c)', UnderWay(d)',
                 c \notin shared'
          PROVE  ~SharesName(c, d)
      <3>1. CASE c # b /\ d # b
        BY <1>4, <2>2, <2>4, <3>1 DEF IInv, FilesHold, OneOfAName
      <3>2. CASE c = b
        BY <1>3, <2>2, <2>3, <2>4, <3>2
      <3>3. CASE d = b
        <4>1. UnderWay(c) /\ c \notin rivals
          BY <1>3, <2>2, <2>3, <2>4, <3>3
        <4> QED
          BY <3>3, <4>1 DEF SharesName
      <3> QED
        BY <3>1, <3>2, <3>3
    <2> QED
      BY <2>1, <2>4 DEF OneOfAName, SharesName
  <1>6. StoredStand' /\ NeededFilesAreThere'
    <2>1. \A c \in Batches : phase'[c] = "sending" =>
            stored'[c] = 0 \/ (phase[c] = "sending" /\ stored'[c] = stored[c])
      BY <1>1, <1>2
    <2>2. \A c \in Batches : phase'[c] = "queued" => phase[c] = "queued" /\ Jobs(c)' \subseteq Jobs(c)
      BY <1>1, <1>2, <1>3 DEF Jobs
    <2>3. ASSUME NEW f, Stands(f) PROVE Stands(f)'
      BY <1>1, <2>3 DEF Stands
    <2> QED
      BY <1>4, <2>1, <2>2, <2>3, FilesKept DEF IInv, FilesHold
  <1>7. ASSUME NEW n \in Nodes PROVE TransferGot(n)' /\ BuildGot(n)'
    <2>1. \A c \in Batches : Owed(c)' => Owed(c) /\ StillUnsaved(c)
      BY <1>1, <1>2, <1>3, <1>4 DEF Owed, Jobs, StillUnsaved
    <2> QED
      BY <1>1, <2>1, TransferKept, BuildKept DEF IInv, FilesHold, nodeVars
  <1> QED
    BY <1>5, <1>6, <1>7 DEF FilesHold

\* when a file of it arrives, which leaves those of all others alone,
LEMMA FilesStoreFile ==
  ASSUME NamesTellApart, IInv, NEW b \in Batches, StoreFile(b)
  PROVE  FilesHold'
PROOF
  <1>1. /\ stored' = [stored EXCEPT ![b] = @ + 1] /\ stored[b] + 1 \in 1..Len(SendableFiles[b])
        /\ stored[b] \in Nat /\ phase[b] = "sending"
        /\ UNCHANGED <<phase, shared, remaining, running, nodeVars>>
    BY SendableFacts, Elements DEF StoreFile, IInv, Bookkeeping, TypeOK, Listed
  <1>2. ASSUME NEW c \in Batches, Alone(c), NEW j \in {0} \cup JobsOf(c), NEW f \in ToSet(FilesOf(c, j))
        PROVE  /\ Stands(f) => Stands(f)'
               /\ f = SendableFiles[b][stored[b] + 1] => Stands(f)'
               /\ c # b /\ f.hashed_path \in unsaved => f.hashed_path \in unsaved'
    BY <1>2, StoreKeeps DEF IInv, FilesHold
  <1>3. OneOfAName'
    BY <1>1, NamesKept DEF IInv, FilesHold, UnderWay, Jobs
  <1>4. StoredStand'
    <2>1. ASSUME NEW c \in Batches \ shared', phase'[c] = "sending", NEW i \in 1..stored'[c]
          PROVE  Stands(SendableFiles[c][i])'
      <3>1. c \notin shared /\ phase[c] = "sending" /\ Alone(c)
        BY <1>1, <2>1 DEF Alone, UnderWay
      <3>2. i \in 1..Len(SendableFiles[c]) /\ (i \in 1..stored[c] \/ (c = b /\ i = stored[b] + 1))
        <4>1. CASE c = b
          <5>1. stored'[c] = stored[b] + 1
            BY <1>1, <4>1 DEF IInv, Bookkeeping, Listed
          <5>2. Len(SendableFiles[b]) \in Nat
            BY SendableFacts, Elements
          <5> QED
            BY <1>1, <4>1, <5>1, <5>2
        <4>2. CASE c # b
          <5>1. stored'[c] = stored[c] /\ stored[c] \in 0..Len(SendableFiles[c])
            BY <1>1, <4>2 DEF IInv, Bookkeeping, TypeOK, Listed
          <5>2. Len(SendableFiles[c]) \in Nat
            BY SendableFacts, Elements
          <5> QED
            BY <5>1, <5>2
        <4> QED
          BY <4>1, <4>2
      <3>3. PICK j \in {0} \cup JobsOf(c) : SendableFiles[c][i] \in ToSet(FilesOf(c, j))
        BY <3>2, SendableFile
      <3>4. Stands(SendableFiles[c][i]) \/ SendableFiles[c][i] = SendableFiles[b][stored[b] + 1]
        BY <3>1, <3>2 DEF IInv, FilesHold, StoredStand
      <3> DEFINE f == SendableFiles[c][i]
      <3> HIDE DEF f
      <3>5. f \in ToSet(FilesOf(c, j)) /\ (Stands(f) \/ f = SendableFiles[b][stored[b] + 1])
        BY <3>3, <3>4 DEF f
      <3>6. Stands(f)'
        BY <1>2, <3>1, <3>5
      <3> QED
        BY <3>6 DEF f
    <2> QED
      BY <2>1 DEF StoredStand
  <1>5. NeededFilesAreThere'
    <2>1. ASSUME NEW c \in Batches, Owed(c)', NEW j \in {0} \cup Jobs(c)', NEW f \in ToSet(FilesOf(c, j))
          PROVE  Stands(f)'
      <3>1. Owed(c) /\ Alone(c) /\ j \in {0} \cup Jobs(c)
        BY <1>1, <2>1 DEF Owed, Jobs, Alone, UnderWay
      <3>2. Stands(f)
        BY <3>1, NeededIsThere DEF NeededStand, IInv, FilesHold
      <3>3. j \in {0} \cup JobsOf(c)
        BY <3>1 DEF IInv, Bookkeeping, TypeOK, Jobs
      <3> QED
        BY <1>2, <3>1, <3>2, <3>3
    <2>2. NeededStand'
      BY <2>1 DEF NeededStand
    <2> QED
      BY <2>2, NeededIsThere
  <1>6. ASSUME NEW n \in Nodes PROVE TransferGot(n)' /\ BuildGot(n)'
    <2>1. ASSUME NEW c \in Batches, Owed(c)' PROVE Owed(c) /\ StillUnsaved(c)
      <3>1. Owed(c) /\ Alone(c) /\ c # b
        BY <1>1, <2>1 DEF Owed, Jobs, Alone, UnderWay
      <3> QED
        BY <1>2, <3>1 DEF StillUnsaved
    <2> QED
      BY <1>1, <2>1, TransferKept, BuildKept DEF IInv, FilesHold, nodeVars
  <1> QED
    BY <1>3, <1>4, <1>5, <1>6 DEF FilesHold

\* and when no more arrive.
LEMMA FilesSubmissionBreaks ==
  ASSUME NamesTellApart, IInv, NEW b \in Batches, SubmissionBreaks(b)
  PROVE  FilesHold'
PROOF
  <1>1. /\ phase' = [phase EXCEPT ![b] = "interrupted"]
        /\ UNCHANGED <<disk, stored, unsaved, shared, remaining, running, nodeVars>>
    BY DEF SubmissionBreaks
  <1>2. \A c \in Batches : phase'[c] = phase[c] \/ phase'[c] = "interrupted"
    BY <1>1 DEF IInv, Bookkeeping, TypeOK
  <1>3. OneOfAName'
    BY <1>1, <1>2, NamesKept DEF IInv, FilesHold, UnderWay, Jobs
  <1>4. StoredStand' /\ NeededFilesAreThere'
    <2>1. \A c \in Batches : phase'[c] = "sending" =>
            stored'[c] = 0 \/ (phase[c] = "sending" /\ stored'[c] = stored[c])
      BY <1>1, <1>2
    <2>2. \A c \in Batches : phase'[c] = "queued" => phase[c] = "queued" /\ Jobs(c)' \subseteq Jobs(c)
      BY <1>1, <1>2 DEF Jobs
    <2>3. ASSUME NEW f, Stands(f) PROVE Stands(f)'
      BY <1>1, <2>3 DEF Stands
    <2> QED
      BY <1>1, <2>1, <2>2, <2>3, FilesKept DEF IInv, FilesHold
  <1>5. ASSUME NEW n \in Nodes PROVE TransferGot(n)' /\ BuildGot(n)'
    <2>1. \A c \in Batches : Owed(c)' => Owed(c) /\ StillUnsaved(c)
      BY <1>1, <1>2 DEF Owed, Jobs, StillUnsaved
    <2> QED
      BY <1>1, <2>1, TransferKept, BuildKept DEF IInv, FilesHold, nodeVars
  <1> QED
    BY <1>3, <1>4, <1>5 DEF FilesHold

\* When a batch is queued, everything of it has arrived, and no node knows it.
LEMMA FilesQueue ==
  ASSUME NamesTellApart, IInv, NEW b \in Batches, Queue(b)
  PROVE  FilesHold'
PROOF
  <1> DEFINE jobs == [j \in JobsOf(b) |-> j]
  <1>1. /\ phase[b] = "sending" /\ stored[b] = Len(SendableFiles[b])
        /\ phase' = [phase EXCEPT ![b] = "queued"]
        /\ remaining' = [remaining EXCEPT ![b] = jobs]
        /\ UNCHANGED <<disk, stored, unsaved, shared, running, nodeVars>>
    BY DEF Queue
  <1>2. \A c \in Batches : c # b => phase'[c] = phase[c] /\ Jobs(c)' = Jobs(c)
    BY <1>1 DEF IInv, Bookkeeping, TypeOK, Listed, Jobs
  <1>3. OneOfAName'
    <2>1. \A c \in Batches : UnderWay(c)' => UnderWay(c)
      BY <1>1, <1>2 DEF UnderWay
    <2>2. \A c \in Batches : phase'[c] \in {"sending", "queued"} => phase[c] \in {"sending", "queued"}
      BY <1>1, <1>2
    <2> QED
      BY <1>1, <2>1, <2>2, NamesKept DEF IInv, FilesHold
  <1>4. ASSUME NEW f, Stands(f) PROVE Stands(f)'
    BY <1>1, <1>4 DEF Stands
  <1>5. StoredStand'
    <2>1. ASSUME NEW c \in Batches \ shared', phase'[c] = "sending", NEW i \in 1..stored'[c]
          PROVE  Stands(SendableFiles[c][i])
      <3>1. c \notin shared /\ phase[c] = "sending" /\ i \in 1..stored[c]
        BY <1>1, <1>2, <2>1 DEF IInv, Bookkeeping, TypeOK
      <3> QED
        BY <3>1 DEF IInv, FilesHold, StoredStand
    <2> QED
      BY <1>4, <2>1 DEF StoredStand
  <1>6. NeededFilesAreThere'
    <2>1. ASSUME NEW c \in Batches, Owed(c)', NEW j \in {0} \cup Jobs(c)', NEW f \in ToSet(FilesOf(c, j))
          PROVE  Stands(f)
      <3>1. CASE c = b
        <4>1. j \in {0} \cup JobsOf(b)
          BY <3>1, BookQueue DEF IInv, Bookkeeping, TypeOK, Jobs
        <4>2. f \in ToSet(SendableFiles[b])
          BY <2>1, <3>1, <4>1, SendableFacts
        <4>3. PICK i \in 1..Len(SendableFiles[b]) : f = SendableFiles[b][i]
          BY <4>2, SendableFacts, Elements DEF ToSet
        <4> QED
          BY <1>1, <2>1, <3>1, <4>3 DEF IInv, FilesHold, StoredStand, Owed
      <3>2. CASE c # b
        <4>1. Owed(c) /\ j \in {0} \cup Jobs(c)
          BY <1>1, <1>2, <2>1, <3>2 DEF Owed
        <4> QED
          BY <4>1, NeededIsThere DEF NeededStand, IInv, FilesHold
      <3> QED
        BY <3>1, <3>2
    <2>2. NeededStand'
      BY <1>4, <2>1 DEF NeededStand
    <2> QED
      BY <2>2, NeededIsThere
  <1>7. ASSUME NEW n \in Nodes PROVE TransferGot(n)' /\ BuildGot(n)'
    <2>1. task[n].batch # b /\ build[n].batch # b
      BY <1>1, Numbered DEF IInv, Bookkeeping, Begun
    <2>2. \A c \in Batches : c # b /\ Owed(c)' => Owed(c) /\ StillUnsaved(c)
      BY <1>1, <1>2 DEF Owed, StillUnsaved
    <2> QED
      BY <1>1, <2>1, <2>2, TransferKept, BuildKept DEF IInv, FilesHold, nodeVars
  <1> QED
    BY <1>3, <1>5, <1>6, <1>7 DEF FilesHold

\* A kill deletes files of jobs that will not run, and of no other.
LEMMA FilesCancelBatch ==
  ASSUME NamesTellApart, IInv, NEW b \in Batches, CancelBatch(b)
  PROVE  FilesHold'
PROOF
  <1> DEFINE left == remaining[b]
             paths == Deleted(FlattenSeq([i \in DOMAIN left |-> FilesOf(b, left[i])]))
  <1>1. /\ phase[b] = "queued" /\ Erase(paths)
        /\ remaining' = [remaining EXCEPT ![b] = <<>>]
        /\ UNCHANGED <<batchVars, running, nodeVars>>
    BY DEF CancelBatch
  <1>2. left \in Seq(JobsOf(b))
    BY DEF IInv, Bookkeeping, Listed
  <1> HIDE DEF left
  <1>3. ASSUME NEW p \in paths
        PROVE  \E k \in ToSet(left) : \E g \in ToSet(FilesOf(b, k)) : p = g.hashed_path
    BY <1>2, DeletedOfJobs
  <1> HIDE DEF paths
  <1>4. /\ \A c \in Batches : c # b => Jobs(c)' = Jobs(c)
        /\ Jobs(b)' = running[b] /\ Jobs(b)' \subseteq Jobs(b)
        /\ ToSet(left) \subseteq JobsOf(b) /\ ToSet(left) \cap running[b] = {}
        /\ 0 \notin ToSet(left)
    BY <1>1, NothingListed, Numbered DEF IInv, Bookkeeping, TypeOK, Listed, Jobs, left
  <1>5. OneOfAName'
    <2>1. \A c \in Batches : UnderWay(c)' => UnderWay(c)
      BY <1>1, <1>4 DEF UnderWay, batchVars
    <2> QED
      BY <1>1, <2>1, NamesKept DEF IInv, FilesHold, batchVars
  <1>6. ASSUME NEW c \in Batches \ shared', NEW j \in {0} \cup JobsOf(c), NEW f \in ToSet(FilesOf(c, j)),
               \/ phase'[c] = "sending"
               \/ phase'[c] = "queued" /\ Jobs(c)' # {} /\ j \in {0} \cup Jobs(c)',
               Stands(f)
        PROVE  Stands(f)'
    <2>1. Alone(c) /\ Accepted(Configs[b])
      BY <1>1, <1>4, <1>6 DEF Alone, UnderWay, batchVars, IInv, FilesHold, OneOfAName
    <2>2. ASSUME f.hashed_path \in paths PROVE FALSE
      <3>1. PICK k \in ToSet(left) : \E g \in ToSet(FilesOf(b, k)) : f.hashed_path = g.hashed_path
        BY <1>3, <2>2
      <3>2. PICK g \in ToSet(FilesOf(b, k)) : f.hashed_path = g.hashed_path
        BY <3>1
      <3>3. k \in {0} \cup JobsOf(b) /\ UnderWay(b)
        BY <1>1, <1>4 DEF UnderWay, Jobs, left
      <3>4. CASE c = b
        <4>1. j \in {0} \cup running[b]
          BY <1>1, <1>4, <1>6, <3>4 DEF batchVars
        <4>2. j = k
          BY <2>1, <3>2, <3>3, <3>4, PathsTell
        <4> QED
          BY <1>4, <4>1, <4>2
      <3>5. CASE c # b
        BY <2>1, <3>2, <3>3, <3>5, OthersApart DEF IInv, FilesHold
      <3> QED
        BY <3>4, <3>5
    <2> QED
      BY <1>1, <1>6, <2>2, EraseKeeps DEF batchVars
  <1>7. StoredStand' /\ NeededFilesAreThere'
    <2>1. \A c \in Batches : phase'[c] = "sending" =>
            stored'[c] = 0 \/ (phase[c] = "sending" /\ stored'[c] = stored[c])
      BY <1>1 DEF batchVars
    <2>2. \A c \in Batches : phase'[c] = "queued" => phase[c] = "queued" /\ Jobs(c)' \subseteq Jobs(c)
      BY <1>1, <1>4 DEF batchVars
    <2> QED
      BY <1>1, <1>6, <2>1, <2>2, FilesKept DEF IInv, FilesHold, batchVars
  <1>8. ASSUME NEW n \in Nodes PROVE TransferGot(n)' /\ BuildGot(n)'
    <2>1. \A c \in Batches : Owed(c)' => Owed(c) /\ StillUnsaved(c)
      BY <1>1, <1>4 DEF Owed, StillUnsaved, batchVars
    <2> QED
      BY <1>1, <2>1, TransferKept, BuildKept DEF IInv, FilesHold, nodeVars, batchVars
  <1> QED
    BY <1>5, <1>7, <1>8 DEF FilesHold

\* The last job of a batch takes the files of its initialization with it.
LEMMA FilesFinishJob ==
  ASSUME NamesTellApart, IInv, NEW n \in Nodes, FinishJob(n)
  PROVE  FilesHold'
PROOF
  <1> DEFINE b == task[n].batch
             left == running[b] \ {task[n].job}
             paths == Deleted(FilesOf(b, 0))
  <1>1. /\ task[n].place = "executing"
        /\ task' = [task EXCEPT ![n] = Idle]
        /\ running' = [running EXCEPT ![b] = left]
        /\ \/ phase' = [phase EXCEPT ![b] = "dropped"] /\ Erase(paths)
           \/ phase' = phase /\ disk' = disk
        /\ sent' = [sent EXCEPT ![n] = 0] /\ received' = [received EXCEPT ![n] = <<>>]
        /\ UNCHANGED <<stored, unsaved, shared, remaining, build>>
    BY DEF FinishJob, Becomes
  <1>2. b \in Batches /\ phase[b] = "queued" /\ UnderWay(b)
    BY <1>1, BusyFacts, HeldFacts DEF IInv, UnderWay
  <1>3. \A p \in paths : \E g \in ToSet(FilesOf(b, 0)) : p = g.hashed_path
    BY DeletedOfFiles
  <1> HIDE DEF paths, b
  <1>4. /\ \A c \in Batches : Jobs(c)' \subseteq Jobs(c)
        /\ \A c \in Batches : phase'[c] = phase[c] \/ phase'[c] = "dropped"
    BY <1>1, <1>2 DEF IInv, Bookkeeping, TypeOK, Listed, Jobs
  <1>5. OneOfAName'
    BY <1>1, <1>4, NamesKept DEF IInv, FilesHold, UnderWay
  <1>6. ASSUME NEW c \in Batches, NEW j \in {0} \cup JobsOf(c), NEW f \in ToSet(FilesOf(c, j)),
               Alone(c)', Stands(f)
        PROVE  Stands(f)'
    <2>1. CASE disk' = disk
      BY <1>1, <1>6, <2>1 DEF Stands
    <2>2. CASE phase' = [phase EXCEPT ![b] = "dropped"] /\ Erase(paths)
      <3>1. c # b /\ Alone(c)
        BY <1>1, <1>2, <1>4, <1>6, <2>2 DEF Alone, UnderWay, IInv, Bookkeeping, TypeOK
      <3>2. f.hashed_path \notin paths
        BY <1>2, <1>3, <3>1, OthersApart DEF IInv, FilesHold
      <3> QED
        BY <1>1, <1>6, <2>2, <3>2, EraseKeeps
    <2> QED
      BY <1>1, <2>1, <2>2
  <1>7. StoredStand' /\ NeededFilesAreThere'
    <2>1. \A c \in Batches : phase'[c] = "sending" =>
            stored'[c] = 0 \/ (phase[c] = "sending" /\ stored'[c] = stored[c])
      BY <1>1, <1>4
    <2>2. \A c \in Batches : phase'[c] = "queued" => phase[c] = "queued" /\ Jobs(c)' \subseteq Jobs(c)
      BY <1>4
    <2>3. \A c \in Batches \ shared' :
            phase'[c] = "sending" \/ (phase'[c] = "queued" /\ Jobs(c)' # {}) => Alone(c)'
      BY DEF Alone, UnderWay
    <2> QED
      BY <1>1, <1>6, <2>1, <2>2, <2>3, FilesKept DEF IInv, FilesHold
  <1>8. ASSUME NEW m \in Nodes PROVE TransferGot(m)' /\ BuildGot(m)'
    <2>1. \A c \in Batches : Owed(c)' => Owed(c) /\ StillUnsaved(c)
      BY <1>1, <1>4 DEF Owed, StillUnsaved
    <2>2. BuildGot(m)'
      BY <1>1, <2>1, BuildKept DEF IInv, FilesHold
    <2>3. CASE m = n
      <3>1. task'[m].place = "idle"
        BY <1>1, <2>3 DEF IInv, Bookkeeping, TypeOK, Idle
      <3> QED
        BY <2>2, <3>1 DEF TransferGot
    <2>4. CASE m # n
      <3>1. task'[m] = task[m] /\ sent'[m] = sent[m] /\ received'[m] = received[m]
        BY <1>1, <2>4 DEF IInv, Bookkeeping, TypeOK, Listed
      <3> QED
        BY <1>1, <2>1, <2>2, <3>1, TransferKept DEF IInv, FilesHold
    <2> QED
      BY <2>3, <2>4
  <1> QED
    BY <1>5, <1>7, <1>8 DEF FilesHold

\* All other steps leave the disk as it is.
LEMMA DiskKept ==
  ASSUME IInv, UNCHANGED <<disk, batchVars>>, \A b \in Batches : Jobs(b)' \subseteq Jobs(b)
  PROVE  /\ OneOfAName' /\ StoredStand' /\ NeededFilesAreThere'
         /\ \A b \in Batches : Owed(b)' => Owed(b) /\ StillUnsaved(b)
PROOF
  <1>1. OneOfAName'
    BY NamesKept DEF IInv, FilesHold, UnderWay, batchVars
  <1>2. StoredStand' /\ NeededFilesAreThere'
    <2>1. \A c \in Batches : phase'[c] = "sending" =>
            stored'[c] = 0 \/ (phase[c] = "sending" /\ stored'[c] = stored[c])
      BY DEF batchVars
    <2>2. \A c \in Batches : phase'[c] = "queued" => phase[c] = "queued" /\ Jobs(c)' \subseteq Jobs(c)
      BY DEF batchVars
    <2>3. ASSUME NEW f, Stands(f) PROVE Stands(f)'
      BY <2>3 DEF Stands, batchVars
    <2> QED
      BY <2>1, <2>2, <2>3, FilesKept DEF IInv, FilesHold, batchVars
  <1>3. \A b \in Batches : Owed(b)' => Owed(b) /\ StillUnsaved(b)
    BY DEF Owed, StillUnsaved, batchVars
  <1> QED
    BY <1>1, <1>2, <1>3

\* A transfer begins with nothing,
LEMMA FilesTakeBuild ==
  ASSUME IInv, NEW n \in Nodes, NEW b \in Batches, TakeBuild(n, b)
  PROVE  FilesHold'
PROOF
  <1>1. /\ task' = [task EXCEPT ![n] = [place |-> "sending", batch |-> b, job |-> 0]]
        /\ build' = [build EXCEPT ![n] = [batch |-> 0, files |-> <<>>]]
        /\ sent' = [sent EXCEPT ![n] = 0] /\ received' = [received EXCEPT ![n] = <<>>]
        /\ UNCHANGED <<disk, batchVars, remaining, running>>
    BY DEF TakeBuild, StartTransfer, Becomes
  <1>2. /\ OneOfAName' /\ StoredStand' /\ NeededFilesAreThere'
        /\ \A c \in Batches : Owed(c)' => Owed(c) /\ StillUnsaved(c)
    <2>1. \A c \in Batches : Jobs(c)' \subseteq Jobs(c)
      BY <1>1 DEF Jobs
    <2> QED
      BY <1>1, <2>1, DiskKept
  <1>3. ASSUME NEW m \in Nodes PROVE TransferGot(m)' /\ BuildGot(m)'
    <2>1. CASE m = n
      <3>1. /\ sent'[m] = 0 /\ build'[m].batch = 0 /\ task'[m].place = "sending"
        BY <1>1, <2>1 DEF IInv, Bookkeeping, TypeOK, Listed
      <3> QED
        BY <3>1 DEF TransferGot, BuildGot
    <2>2. CASE m # n
      <3>1. /\ task'[m] = task[m] /\ sent'[m] = sent[m] /\ received'[m] = received[m]
            /\ build'[m] = build[m] /\ unsaved' = unsaved
        BY <1>1, <2>2 DEF IInv, Bookkeeping, TypeOK, Listed, batchVars
      <3> QED
        BY <1>2, <3>1, TransferKept, BuildKept DEF IInv, FilesHold
    <2> QED
      BY <2>1, <2>2
  <1> QED
    BY <1>2, <1>3 DEF FilesHold

\* for a build as for a job.
LEMMA FilesTakeJob ==
  ASSUME IInv, NEW n \in Nodes, TakeJob(n)
  PROVE  FilesHold'
PROOF
  <1> DEFINE b == build[n].batch
             j == Last(remaining[b])
  <1>1. /\ b # 0 /\ remaining[b] # <<>>
        /\ task' = [task EXCEPT ![n] = [place |-> "sending", batch |-> b, job |-> j]]
        /\ remaining' = [remaining EXCEPT ![b] = Front(@)]
        /\ running' = [running EXCEPT ![b] = @ \cup {j}]
        /\ sent' = [sent EXCEPT ![n] = 0] /\ received' = [received EXCEPT ![n] = <<>>]
        /\ UNCHANGED <<disk, batchVars, build>>
    BY DEF TakeJob, StartTransfer, Becomes
  <1>2. \A c \in Batches : Jobs(c)' \subseteq Jobs(c)
    <2>1. b \in Batches
      BY <1>1 DEF IInv, Bookkeeping, Listed
    <2> DEFINE s == remaining[b]
    <2>2. s # <<>> /\ s \in Seq(JobsOf(b)) /\ IsInjective(s)
      BY <1>1, <2>1 DEF IInv, Bookkeeping, Listed, TypeOK
    <2> HIDE DEF s, b
    <2>3. ToSet(s) = ToSet(Front(s)) \cup {Last(s)}
      BY <2>2, TakenFromEnd
    <2> QED
      BY <1>1, <2>3 DEF Jobs, s, IInv, Bookkeeping, Listed
  <1>3. /\ OneOfAName' /\ StoredStand' /\ NeededFilesAreThere'
        /\ \A c \in Batches : Owed(c)' => Owed(c) /\ StillUnsaved(c)
    BY <1>1, <1>2, DiskKept
  <1>4. ASSUME NEW m \in Nodes PROVE TransferGot(m)' /\ BuildGot(m)'
    <2>1. BuildGot(m)'
      BY <1>1, <1>3, BuildKept DEF IInv, FilesHold, batchVars
    <2>2. CASE m = n
      <3>1. sent'[m] = 0 /\ task'[m].place = "sending"
        BY <1>1, <2>2 DEF IInv, Bookkeeping, TypeOK, Listed
      <3> QED
        BY <2>1, <3>1 DEF TransferGot
    <2>3. CASE m # n
      <3>1. /\ task'[m] = task[m] /\ sent'[m] = sent[m] /\ received'[m] = received[m]
            /\ unsaved' = unsaved
        BY <1>1, <2>3 DEF IInv, Bookkeeping, TypeOK, Listed, batchVars
      <3> QED
        BY <1>3, <2>1, <3>1, TransferKept DEF IInv, FilesHold
    <2> QED
      BY <2>2, <2>3
  <1> QED
    BY <1>3, <1>4 DEF FilesHold

\* A file that is needed is there when it is read.
LEMMA FilesSendFile ==
  ASSUME IInv, NEW n \in Nodes, SendFile(n)
  PROVE  FilesHold'
PROOF
  <1> DEFINE b == task[n].batch
             j == task[n].job
             files == FilesOf(b, j)
             file == files[sent[n] + 1]
  <1>1. /\ task[n].place = "sending" /\ sent[n] < Len(files)
        /\ sent' = [sent EXCEPT ![n] = @ + 1]
        /\ received' = [received EXCEPT ![n] =
             IF file.hashed_path \in DOMAIN disk
             THEN Put(@, file.original_filename, disk[file.hashed_path]) ELSE @]
        /\ UNCHANGED <<disk, batchVars, remaining, running, task, build>>
    BY DEF SendFile
  <1>2. b \in Batches /\ j \in {0} \cup JobsOf(b) /\ sent[n] \in Nat /\ n \in DOMAIN received
    BY <1>1, BusyFacts DEF IInv, Bookkeeping, Listed
  <1>3. sent[n] + 1 \in DOMAIN files /\ file \in ToSet(files)
    <2>1. files \in Seq(HashedFileType)
      BY <1>2, FilesNamed
    <2>2. DOMAIN files = 1..Len(files) /\ Len(files) \in Nat
      BY <2>1, Elements
    <2>3. sent[n] + 1 \in DOMAIN files
      BY <1>1, <1>2, <2>2
    <2> QED
      BY <2>3 DEF ToSet
  <1> HIDE DEF b, j, files, file
  <1>4. /\ OneOfAName' /\ StoredStand' /\ NeededFilesAreThere'
        /\ \A c \in Batches : Owed(c)' => Owed(c) /\ StillUnsaved(c)
    <2>1. \A c \in Batches : Jobs(c)' \subseteq Jobs(c)
      BY <1>1 DEF Jobs
    <2> QED
      BY <1>1, <2>1, DiskKept
  <1>5. ASSUME NEW m \in Nodes PROVE TransferGot(m)' /\ BuildGot(m)'
    <2>1. BuildGot(m)'
      BY <1>1, <1>4, BuildKept DEF IInv, FilesHold, batchVars
    <2>2. CASE m # n
      <3>1. /\ task'[m] = task[m] /\ sent'[m] = sent[m] /\ received'[m] = received[m]
            /\ unsaved' = unsaved
        BY <1>1, <2>2 DEF IInv, Bookkeeping, TypeOK, Listed, batchVars
      <3> QED
        BY <1>4, <2>1, <3>1, TransferKept DEF IInv, FilesHold
    <2>3. CASE m = n
      <3>1. /\ sent'[n] = sent[n] + 1
            /\ IF file.hashed_path \in DOMAIN disk
               THEN received'[n] = Put(received[n], file.original_filename, disk[file.hashed_path])
               ELSE received'[n] = received[n]
        BY <1>1, <1>2 DEF IInv, Bookkeeping, Listed
      <3>2. ASSUME Owed(b), NEW i \in 1..sent'[n], i \in DOMAIN files, LastSoFar(files, i, sent'[n])
            PROVE  Got(files[i], received'[n])
        <4>1. CASE i \in 1..sent[n]
          <5>1. /\ LastSoFar(files, i, sent[n])
                /\ file.original_filename # files[i].original_filename
            BY <1>2, <3>1, <3>2, <4>1 DEF LastSoFar, file
          <5>2. Got(files[i], received[n])
            BY <1>1, <3>2, <4>1, <5>1 DEF IInv, FilesHold, TransferGot, files, b, j
          <5> QED
            BY <3>1, <5>1, <5>2 DEF Got, Put
        <4>2. CASE i = sent[n] + 1
          <5>1. j \in {0} \cup Jobs(b)
            BY <1>1 DEF IInv, Bookkeeping, Held, Jobs, b, j
          <5>2. Stands(file)
            BY <1>2, <1>3, <3>2, <5>1, NeededIsThere DEF NeededStand, IInv, FilesHold, files
          <5>3. files[i] = file
            BY <4>2 DEF file
          <5> QED
            BY <3>1, <5>2, <5>3 DEF Stands, Got, Put
        <4> QED
          BY <1>2, <3>1, <3>2, <4>1, <4>2
      <3>3. task' = task /\ unsaved' = unsaved /\ task[n].place # "executing"
        BY <1>1 DEF batchVars
      <3>4. Owed(b) <=> /\ phase'[b] = "queued" /\ ToSet(remaining'[b]) \cup running'[b] # {}
                        /\ b \notin shared'
        BY <1>1 DEF Owed, Jobs, batchVars
      <3>5. TransferGot(n)'
        BY <3>2, <3>3, <3>4 DEF TransferGot, Owed, Jobs, Got, LastSoFar, files, b, j
      <3> QED
        BY <2>1, <2>3, <3>5
    <2> QED
      BY <2>2, <2>3
  <1> QED
    BY <1>4, <1>5 DEF FilesHold

\* The build has what the transfer before it brought.
LEMMA FilesBuild ==
  ASSUME IInv, NEW n \in Nodes, Build(n)
  PROVE  FilesHold'
PROOF
  <1> DEFINE b == task[n].batch
             files == FilesOf(b, 0)
  <1>1. /\ task[n].place = "sending" /\ task[n].job = 0 /\ sent[n] = Len(files)
        /\ task' = [task EXCEPT ![n] = Idle]
        /\ \/ build' = [build EXCEPT ![n] = [batch |-> b, files |-> received[n]]]
           \/ build' = build
        /\ sent' = [sent EXCEPT ![n] = 0] /\ received' = [received EXCEPT ![n] = <<>>]
        /\ UNCHANGED <<disk, batchVars, remaining, running>>
    BY DEF Build, Becomes
  <1>2. b \in Batches
    BY <1>1, BusyFacts DEF IInv
  <1>3. Owed(b) => Complete(files, received[n])
    <2>1. SUFFICES ASSUME Owed(b), NEW i \in DOMAIN files, IsLast(files, i)
                   PROVE  Got(files[i], received[n])
      BY DEF Complete, Got
    <2>2. DOMAIN files = 1..Len(files)
      BY <1>2, FilesNamed, Elements
    <2>3. LastSoFar(files, i, Len(files))
      BY <2>1, <2>2 DEF IsLast, LastSoFar
    <2> QED
      BY <1>1, <2>1, <2>2, <2>3 DEF IInv, FilesHold, TransferGot
  <1> HIDE DEF b, files
  <1>4. /\ OneOfAName' /\ StoredStand' /\ NeededFilesAreThere'
        /\ \A c \in Batches : Owed(c)' => Owed(c) /\ StillUnsaved(c)
    <2>1. \A c \in Batches : Jobs(c)' \subseteq Jobs(c)
      BY <1>1 DEF Jobs
    <2> QED
      BY <1>1, <2>1, DiskKept
  <1>5. ASSUME NEW m \in Nodes PROVE TransferGot(m)' /\ BuildGot(m)'
    <2>1. CASE m # n
      <3>1. /\ task'[m] = task[m] /\ sent'[m] = sent[m] /\ received'[m] = received[m]
            /\ build'[m] = build[m] /\ unsaved' = unsaved
        BY <1>1, <2>1 DEF IInv, Bookkeeping, TypeOK, Listed, batchVars
      <3> QED
        BY <1>4, <3>1, TransferKept, BuildKept DEF IInv, FilesHold
    <2>2. TransferGot(n)'
      <3>1. task'[n].place = "idle"
        BY <1>1 DEF IInv, Bookkeeping, TypeOK, Idle
      <3> QED
        BY <3>1 DEF TransferGot
    <2>3. BuildGot(n)'
      <3>1. CASE build' = build
        BY <1>1, <1>4, <3>1, BuildKept DEF IInv, FilesHold, batchVars
      <3>2. CASE build' = [build EXCEPT ![n] = [batch |-> b, files |-> received[n]]]
        <4>1. build'[n].batch = b /\ build'[n].files = received[n]
          BY <3>2 DEF IInv, Bookkeeping, Listed
        <4>2. Owed(b) <=> /\ phase'[b] = "queued" /\ ToSet(remaining'[b]) \cup running'[b] # {}
                          /\ b \notin shared'
          BY <1>1 DEF Owed, Jobs, batchVars
        <4>3. unsaved' = unsaved
          BY <1>1 DEF batchVars
        <4> QED
          BY <1>3, <4>1, <4>2, <4>3 DEF BuildGot, Owed, Jobs, Complete, IsLast, files
      <3> QED
        BY <1>1, <3>1, <3>2
    <2> QED
      BY <2>1, <2>2, <2>3
  <1> QED
    BY <1>4, <1>5 DEF FilesHold

\* A node executes when its transfer is at the end.
LEMMA FilesExecute ==
  ASSUME IInv, NEW n \in Nodes, Execute(n)
  PROVE  FilesHold'
PROOF
  <1> DEFINE files == FilesOf(task[n].batch, task[n].job)
  <1>1. /\ task[n].place = "sending" /\ sent[n] = Len(files)
        /\ task' = [task EXCEPT ![n].place = "executing"]
        /\ UNCHANGED <<disk, batchVars, remaining, running, sent, received, build>>
    BY DEF Execute
  <1>2. /\ OneOfAName' /\ StoredStand' /\ NeededFilesAreThere'
        /\ \A c \in Batches : Owed(c)' => Owed(c) /\ StillUnsaved(c)
    <2>1. \A c \in Batches : Jobs(c)' \subseteq Jobs(c)
      BY <1>1 DEF Jobs
    <2> QED
      BY <1>1, <2>1, DiskKept
  <1>3. ASSUME NEW m \in Nodes PROVE TransferGot(m)' /\ BuildGot(m)'
    <2>1. BuildGot(m)'
      BY <1>1, <1>2, BuildKept DEF IInv, FilesHold, batchVars
    <2>2. CASE m # n
      <3>1. task'[m] = task[m] /\ unsaved' = unsaved
        BY <1>1, <2>2 DEF IInv, Bookkeeping, TypeOK, batchVars
      <3> QED
        BY <1>1, <1>2, <2>1, <3>1, TransferKept DEF IInv, FilesHold
    <2>3. TransferGot(n)'
      <3>1. task'[n].batch = task[n].batch /\ task'[n].job = task[n].job
        BY <1>1 DEF IInv, Bookkeeping, TypeOK
      <3>2. Owed(task[n].batch) =>
              \A i \in 1..sent[n] : i \in DOMAIN files /\ LastSoFar(files, i, sent[n])
                => Got(files[i], received[n])
        BY <1>1 DEF IInv, FilesHold, TransferGot
      <3>3. Owed(task[n].batch)
              <=> (phase'[task[n].batch] = "queued"
                    /\ ToSet(remaining'[task[n].batch]) \cup running'[task[n].batch] # {}
                    /\ task[n].batch \notin shared')
        BY <1>1 DEF Owed, Jobs, batchVars
      <3>4. unsaved' = unsaved /\ sent' = sent /\ received' = received
        BY <1>1 DEF batchVars
      <3> QED
        BY <1>1, <3>1, <3>2, <3>3, <3>4 DEF TransferGot, Owed, Jobs, Got, LastSoFar
    <2> QED
      BY <2>1, <2>2, <2>3
  <1> QED
    BY <1>2, <1>3 DEF FilesHold

\* A node that fails has the job put back, and its files are needed as before.
LEMMA FilesNodeFails ==
  ASSUME IInv, NEW n \in Nodes, NodeFails(n)
  PROVE  FilesHold'
PROOF
  <1> DEFINE b == task[n].batch
             j == task[n].job
  <1>1. /\ task[n].place # "idle"
        /\ task' = [task EXCEPT ![n] = Idle]
        /\ build' = [build EXCEPT ![n] = [batch |-> 0, files |-> <<>>]]
        /\ \/ UNCHANGED <<remaining, running>>
           \/ /\ j # 0
              /\ remaining' = [remaining EXCEPT ![b] = Append(@, j)]
              /\ running' = [running EXCEPT ![b] = @ \ {j}]
        /\ sent' = [sent EXCEPT ![n] = 0] /\ received' = [received EXCEPT ![n] = <<>>]
        /\ UNCHANGED <<disk, batchVars>>
    BY DEF NodeFails, Becomes
  <1>2. \A c \in Batches : Jobs(c)' \subseteq Jobs(c)
    <2>1. b \in Batches /\ (j # 0 => j \in JobsOf(b) /\ j \in running[b] /\ j \notin ToSet(remaining[b]))
      BY <1>1, BusyFacts, HeldFacts DEF IInv
    <2> DEFINE s == remaining[b]
    <2>2. s \in Seq(JobsOf(b)) /\ IsInjective(s)
      BY <2>1 DEF IInv, Bookkeeping, Listed, TypeOK
    <2> HIDE DEF s, b, j
    <2>3. j # 0 => ToSet(Append(s, j)) = ToSet(s) \cup {j}
      BY <2>1, <2>2, PutBackAtEnd DEF s
    <2> QED
      BY <1>1, <2>1, <2>3 DEF Jobs, s, IInv, Bookkeeping, Listed
  <1>3. /\ OneOfAName' /\ StoredStand' /\ NeededFilesAreThere'
        /\ \A c \in Batches : Owed(c)' => Owed(c) /\ StillUnsaved(c)
    BY <1>1, <1>2, DiskKept
  <1>4. ASSUME NEW m \in Nodes PROVE TransferGot(m)' /\ BuildGot(m)'
    <2>1. CASE m = n
      <3>1. task'[m].place = "idle" /\ build'[m].batch = 0
        BY <1>1, <2>1 DEF IInv, Bookkeeping, TypeOK, Listed, Idle
      <3> QED
        BY <3>1 DEF TransferGot, BuildGot
    <2>2. CASE m # n
      <3>1. /\ task'[m] = task[m] /\ sent'[m] = sent[m] /\ received'[m] = received[m]
            /\ build'[m] = build[m] /\ unsaved' = unsaved
        BY <1>1, <2>2 DEF IInv, Bookkeeping, TypeOK, Listed, batchVars
      <3> QED
        BY <1>3, <3>1, TransferKept, BuildKept DEF IInv, FilesHold
    <2> QED
      BY <2>1, <2>2
  <1> QED
    BY <1>3, <1>4 DEF FilesHold

\* So every step keeps the files where they are needed.
LEMMA FilesNext == ASSUME NamesTellApart, IInv, [Next]_vars PROVE IInv'
PROOF
  <1>1. Bookkeeping'
    BY BookNext DEF IInv
  <1>2. CASE UNCHANGED vars
    <2>1. UNCHANGED <<disk, batchVars, remaining, running, nodeVars>>
      BY <1>2 DEF vars
    <2>2. \A b \in Batches : Jobs(b)' \subseteq Jobs(b)
      BY <2>1 DEF Jobs
    <2>3. /\ OneOfAName' /\ StoredStand' /\ NeededFilesAreThere'
          /\ \A b \in Batches : Owed(b)' => Owed(b) /\ StillUnsaved(b)
      BY <2>1, <2>2, DiskKept
    <2>4. \A n \in Nodes : TransferGot(n)' /\ BuildGot(n)'
      BY <2>1, <2>3, TransferKept, BuildKept DEF IInv, FilesHold, batchVars, nodeVars
    <2> QED
      BY <1>1, <2>3, <2>4 DEF IInv, FilesHold
  <1>3. CASE Next
    <2>1. FilesHold'
      BY <1>3, FilesSubmit, FilesStoreFile, FilesSubmissionBreaks, FilesQueue,
         FilesCancelBatch, FilesTakeBuild, FilesTakeJob, FilesSendFile, FilesBuild,
         FilesExecute, FilesFinishJob, FilesNodeFails DEF Next
    <2> QED
      BY <1>1, <2>1 DEF IInv
  <1> QED
    BY <1>2, <1>3

-----------------------------------------------------------------------------
(* The theorems                                                            *)

\* Both layers hold in every state.
LEMMA FilesInvariant == NamesTellApart => (Spec => []IInv)
PROOF
  <1>1. Init => IInv
    BY BookInit, FilesInit DEF IInv
  <1>2. NamesTellApart /\ IInv /\ [Next]_vars => IInv'
    BY FilesNext
  <1>3. ASSUME NamesTellApart PROVE Spec => []IInv
    <2>1. IInv /\ [Next]_vars => IInv'
      BY <1>2, <1>3
    <2> QED
      BY <1>1, <2>1, PTL DEF Spec
  <1> QED
    BY <1>3

\* If names tell batches and jobs apart, the files that a queued batch may
\* still have to send are on the disk with its contents (NeededFilesAreThere),
\* whatever is stored, deleted, interrupted, killed or fails in between, unless
\* it was under way together with another of its name.
THEOREM FilesStayOnDisk == NamesTellApart => (Spec => []NeededFilesAreThere)
PROOF
  <1>1. IInv => NeededFilesAreThere
    BY DEF IInv, FilesHold
  <1> QED
    BY <1>1, FilesInvariant, PTL

\* If names tell batches and jobs apart, a job runs with all of its own files,
\* in a build that had all of its own (JobsRunOnTheirFiles), with the same
\* exception.
THEOREM JobsHaveTheirFiles == NamesTellApart => (Spec => []JobsRunOnTheirFiles)
PROOF
  <1>1. ASSUME IInv, NEW n \in Nodes, task[n].place = "executing", task[n].batch \notin shared
        PROVE  /\ Complete(FilesOf(task[n].batch, task[n].job), received[n])
               /\ Complete(FilesOf(task[n].batch, 0), build[n].files)
    <2> DEFINE b == task[n].batch
               files == FilesOf(b, task[n].job)
    <2>1. /\ task[n].job # 0 /\ b \in Batches /\ task[n].job \in {0} \cup JobsOf(b)
      BY <1>1, BusyFacts DEF IInv
    <2>2. Owed(b) /\ build[n].batch = b
      <3>1. /\ phase[task[n].batch] = "queued" /\ Jobs(task[n].batch) # {}
            /\ build[n].batch = task[n].batch
        <4>1. Bookkeeping /\ task[n].job # 0
          BY <1>1, <2>1 DEF IInv
        <4> QED
          BY <4>1, HeldFacts
      <3> QED
        BY <1>1, <3>1 DEF Owed
    <2>3. Complete(FilesOf(b, 0), build[n].files)
      BY <1>1, <2>1, <2>2, Numbered DEF IInv, FilesHold, BuildGot
    <2>4. Complete(files, received[n])
      <3>1. SUFFICES ASSUME NEW i \in DOMAIN files, IsLast(files, i)
                     PROVE  Got(files[i], received[n])
        BY DEF Complete, Got
      <3>2. DOMAIN files = 1..Len(files)
        BY <2>1, FilesNamed, Elements
      <3>3. LastSoFar(files, i, Len(files))
        BY <3>1, <3>2 DEF IsLast, LastSoFar
      <3> QED
        BY <1>1, <2>2, <3>1, <3>2, <3>3 DEF IInv, FilesHold, TransferGot
    <2> QED
      BY <2>3, <2>4
  <1>2. IInv => JobsRunOnTheirFiles
    BY <1>1 DEF JobsRunOnTheirFiles
  <1> QED
    BY <1>2, FilesInvariant, PTL

=============================================================================
