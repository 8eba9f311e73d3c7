--------------------------- MODULE WorkDirProofs ---------------------------
(***************************************************************************)
(* Proofs about the working directory, for any batches, jobs, files and    *)
(* mounts, and any number of mishaps.  The invariant follows the folders   *)
(* from place to place: what was put there since they were last emptied,   *)
(* and by whom.                                                            *)
(***************************************************************************)
EXTENDS WorkDir, TLAPS

\* The places in which the node, or `distribute run`, works for a batch.
AtBatch == JobPlaces \cup {"initial_files", "building", "compiling", "built", "await_job", "local"}

\* A place of work has its batch; only a python build runs a command.
Placed ==
  /\ place \in AtBatch => batch \in Batches
  /\ place = "compiling" => batch \in Python

\* The process leaves its directory only while a python command runs, and what
\* a cancelled job left behind is gone before the next build begins, if nothing
\* kept the directory from being removed.  A missing one is made for the next
\* build, and the input folder for the files of a job; distribute run has clean ones.
Alone ==
  /\ cwd # "home" => place \in {"compiling", "running"}
  /\ orphans # {} =>
       place \in {"cancelled", "prepare_build", "uninit", "start"} \/ dir.base = "left"
  /\ dir.base = "missing" =>
       /\ place \in {"start", "uninit", "prepare_build", "await_build"}
       /\ orphans = {} /\ DOMAIN initial = {}
  /\ place \in {"local", "local_running"} => Cleaned("input") /\ Cleaned("save")
  /\ place \in {"job_files", "local", "local_running"} => dir.input # "missing"
  /\ mishaps = 0 =>
       Cleaned("input") /\ (place # "start" => dir.input # "missing" /\ dir.base # "missing")

\* What is in distribute_save: nothing before a job runs, then its own.
Saved ==
  /\ Cleaned("save") =>
       /\ place \in {"await_job", "job_files", "executing", "local"} => Range(save) = {}
       /\ place \in {"running", "reporting", "sending", "local_running"} =>
            Range(save) \subseteq {<<batch, job>>}
  /\ DOMAIN archive # {} => place \in {"local", "local_running", "stopped"}
  /\ \A j \in DOMAIN archive : Range(archive[j]) \subseteq {<<batch, j>>}

\* The folders that are mounted, from the build to the end of the batch.
Mounted ==
  place \in {"built", "await_job", "job_files", "executing", "running", "reporting", "sending",
             "local", "local_running"} /\ batch \notin Python =>
    /\ bound = Hosts(batch)
    /\ \A i \in bound \ unmade : i \in DOMAIN binds /\ binds[i] \subseteq {batch} \X Jobs

\* The files that come with the initialization of a batch, all of them if
\* nothing went wrong.
HoldsInitial(folder, arriving, wanted) ==
  /\ arriving \subseteq wanted
  /\ \A n \in DOMAIN folder : n \in wanted /\ folder[n] = <<batch, "init">>
  /\ mishaps = 0 => DOMAIN folder \cup arriving = wanted

Own == JobFiles[batch][job] \cup (IF batch \in Python THEN {"job"} ELSE {})

\* The input of a job: its own files that have arrived and those of its batch.
HoldsInput(arriving) ==
  /\ arriving \subseteq Own
  /\ \A n \in DOMAIN input :
       \/ n \in Own /\ input[n] = <<batch, job>>
       \/ n \in InitFiles[batch] /\ input[n] = <<batch, "init">>
  /\ mishaps = 0 => DOMAIN input \cup arriving = Own \cup InitFiles[batch]

Inputs ==
  /\ dir.base # "left" =>
       /\ place = "await_build" => DOMAIN initial = {}
       /\ place = "initial_files" => HoldsInitial(initial, todo, InitFiles[batch] \cup {"build"})
       /\ place = "building" => HoldsInitial(initial, {}, InitFiles[batch] \cup {"build"})
       /\ place \in {"compiling", "built", "await_job", "job_files", "executing", "running",
                     "reporting", "sending"} => HoldsInitial(initial, {}, InitFiles[batch])
  /\ Cleaned("input") =>
       /\ place = "await_job" => HoldsInitial(input, {}, InitFiles[batch])
       /\ place = "job_files" => HoldsInput(todo)
       /\ place = "executing" => HoldsInput({})

IInv == TypeOK /\ Placed /\ Alone /\ Saved /\ Mounted /\ Inputs

-----------------------------------------------------------------------------
(* Folders                                                                 *)

\* A file that is written to a folder, under any name, replaces what was there
\* (the rename and the create of files in client/execute.rs).
LEMMA PutFacts ==
  ASSUME NEW folder, NEW name, NEW content
  PROVE  /\ DOMAIN Put(folder, name, content) = DOMAIN folder \cup {name}
         /\ \A n \in DOMAIN folder \cup {name} :
              Put(folder, name, content)[n] = IF n = name THEN content ELSE folder[n]
         /\ Range(Put(folder, name, content)) \subseteq Range(folder) \cup {content}
PROOF
  BY DEF Put, Range

\* A folder remains one when a file of an owner is written to it.
LEMMA PutInFolder ==
  ASSUME NEW folder, IsFolder(folder), NEW name \in Names \cup {"build", "job", "output"},
         NEW content \in Owners
  PROVE  IsFolder(Put(folder, name, content))
PROOF
  <1>1. /\ Range(folder) \subseteq Owners
        /\ DOMAIN folder \subseteq Names \cup {"build", "job", "output"}
    BY DEF IsFolder
  <1>2. /\ DOMAIN Put(folder, name, content) = DOMAIN folder \cup {name}
        /\ Range(Put(folder, name, content)) \subseteq Range(folder) \cup {content}
    BY PutFacts, Zenon
  <1> QED
    BY <1>1, <1>2 DEF IsFolder

\* What is left of a folder is a folder.
LEMMA RestrictFacts ==
  ASSUME NEW folder, NEW kept \in SUBSET DOMAIN folder
  PROVE  /\ DOMAIN Restrict(folder, kept) = kept
         /\ \A n \in kept : Restrict(folder, kept)[n] = folder[n]
         /\ Range(Restrict(folder, kept)) \subseteq Range(folder)
         /\ IsFolder(folder) => IsFolder(Restrict(folder, kept))
PROOF
  <1>1. /\ DOMAIN Restrict(folder, kept) = kept
        /\ \A n \in kept : Restrict(folder, kept)[n] = folder[n]
    BY DEF Restrict
  <1>2. Range(Restrict(folder, kept)) \subseteq Range(folder)
    BY <1>1 DEF Range
  <1> QED
    BY <1>1, <1>2 DEF IsFolder

\* Nothing is a folder, too.
LEMMA EmptyFacts == IsFolder(Empty) /\ DOMAIN Empty = {} /\ Range(Empty) = {}
PROOF
  BY DEF IsFolder, Empty, Range

\* However the directory is made anew, or not, it has the types of one.
LEMMA MadeAnewTyped ==
  ASSUME TypeOK, DeleteAndCreateFolders \/ RemovalFails \/ CreationFails
  PROVE  /\ IsFolder(initial') /\ IsFolder(input') /\ IsFolder(save')
         /\ script' \in Owners \cup {NoOwner}
         /\ dir' \in [base : Conditions, input : Conditions, save : Conditions]
         /\ dir'.input = "missing" => DOMAIN input' = {}
         /\ dir'.save = "missing" => DOMAIN save' = {}
         /\ Range(binds') \subseteq SUBSET Owners /\ orphans' \subseteq Owners
PROOF
  <1>1. CASE DeleteAndCreateFolders
    BY <1>1, EmptyFacts DEF DeleteAndCreateFolders, Conditions, Range, Empty
  <1>2. CASE CreationFails
    BY <1>2, EmptyFacts DEF CreationFails, Conditions, Range, Empty
  <1>3. CASE RemovalFails
    <2>1. IsFolder(initial') /\ IsFolder(input') /\ IsFolder(save')
      BY <1>3, RestrictFacts DEF TypeOK, RemovalFails
    <2>2. Range(binds') \subseteq SUBSET Owners
      BY <1>3, RestrictFacts DEF TypeOK, RemovalFails
    <2> QED
      BY <1>3, <2>1, <2>2, EmptyFacts DEF TypeOK, RemovalFails, Conditions
  <1> QED
    BY <1>1, <1>2, <1>3

\* What the making of the directory does to it: all is new, or the removal has
\* failed, or there is nothing but what could be created.
LEMMA MadeAnewFacts ==
  ASSUME DeleteAndCreateFolders \/ RemovalFails \/ CreationFails
  PROVE  /\ dir'.base = "left" \/ (dir'.input # "left" /\ dir'.save # "left")
         /\ dir'.base # "left" => orphans' = {} /\ DOMAIN initial' = {}
         /\ DeleteAndCreateFolders => dir'.base = "whole" /\ dir'.input = "whole"
PROOF
  BY EmptyFacts DEF DeleteAndCreateFolders, RemovalFails, CreationFails

\* The numbers of mishaps, which is zero only as long as there is none.
LEMMA MishapFacts ==
  ASSUME TypeOK
  PROVE  /\ NoMishap => mishaps' \in 0..MaxMishaps
         /\ \A kind : Mishap(kind) => mishaps' \in 0..MaxMishaps /\ mishaps' # 0
PROOF
  BY WorkDirAssumption DEF TypeOK, NoMishap, Mishap

\* No folder is mounted any more.
LEMMA BindingsDropped ==
  ASSUME TypeOK, DropBindings
  PROVE  bound' = {} /\ unmade' = {} /\ Range(binds') \subseteq SUBSET Owners
PROOF
  <1>1. PICK kept \in SUBSET (bound \cap DOMAIN binds) :
          binds' = Restrict(binds, (DOMAIN binds \ bound) \cup kept)
    BY DEF DropBindings
  <1>2. Range(binds') \subseteq Range(binds)
    BY <1>1, RestrictFacts
  <1> QED
    BY <1>2 DEF TypeOK, DropBindings

\* The folders of a batch are mounted, and empty if they could be made.
LEMMA BindingsMade ==
  ASSUME TypeOK, NEW b \in Batches, NEW old, Range(old) \subseteq SUBSET Owners,
         UpdateBindedPaths(b, old)
  PROVE  /\ bound' = Hosts(b) /\ bound' \subseteq Nat /\ unmade' \subseteq bound'
         /\ Range(binds') \subseteq SUBSET Owners
         /\ \A i \in bound' \ unmade' : i \in DOMAIN binds' /\ binds'[i] = {}
         /\ mishaps' \in 0..MaxMishaps
         /\ mishaps' = 0 => mishaps = 0
PROOF
  <1>1. PICK bad \in SUBSET Hosts(b) : \E kept \in SUBSET (bad \cap DOMAIN old) :
          /\ unmade' = bad
          /\ binds' = [i \in ((DOMAIN old \cup Hosts(b)) \ bad) \cup kept |->
                        IF i \in Hosts(b) \ bad THEN {} ELSE old[i]]
          /\ IF bad = {} THEN NoMishap ELSE Mishap("folder")
    BY Zenon DEF UpdateBindedPaths
  <1>2. bound' = Hosts(b) /\ Hosts(b) \subseteq Nat
    BY WorkDirAssumption DEF UpdateBindedPaths, Hosts
  <1>3. \A i \in DOMAIN binds' : binds'[i] \in SUBSET Owners
    BY <1>1 DEF Range
  <1>4. mishaps' \in 0..MaxMishaps /\ (mishaps' = 0 => mishaps = 0)
    BY <1>1, MishapFacts DEF NoMishap
  <1> QED
    BY <1>1, <1>2, <1>3, <1>4 DEF Range

\* A folder that is made because it is missing is not one in which something is
\* left.
LEMMA FolderMade ==
  ASSUME NEW old \in [base : Conditions, input : Conditions, save : Conditions],
         NEW f \in {"base", "input", "save"},
         NEW new, new = [old EXCEPT ![f] = IF @ = "missing" THEN "whole" ELSE @]
  PROVE  /\ new \in [base : Conditions, input : Conditions, save : Conditions]
         /\ \A g \in {"base", "input", "save"} : (new[g] = "left") <=> (old[g] = "left")
         /\ \A g \in {"base", "input", "save"} : new[g] = "missing" => old[g] = "missing"
         /\ new[f] # "missing"
         /\ \A g \in {"base", "input", "save"} : g # f => new[g] = old[g]
PROOF
  BY DEF Conditions

\* Whoever writes to a folder leaves the types and what is known of the folders.
LEMMA WritesFacts ==
  ASSUME TypeOK, NEW owner \in Owners, NEW n \in Names, Writes(owner, n)
  PROVE  /\ IsFolder(input') /\ IsFolder(save')
         /\ dir' \in [base : Conditions, input : Conditions, save : Conditions]
         /\ dir'.input = "missing" => DOMAIN input' = {}
         /\ dir'.save = "missing" => DOMAIN save' = {}
         /\ dir'.base = dir.base
         /\ Cleaned("input")' <=> Cleaned("input")
         /\ Cleaned("save")' <=> Cleaned("save")
         /\ dir'.input = "missing" => dir.input = "missing"
         /\ save' = save \/ save' = Put(save, n, owner)
PROOF
  <1>1. CASE /\ input' = Put(input, n, owner) /\ UNCHANGED save
             /\ dir' = [dir EXCEPT !.input = IF @ = "missing" THEN "whole" ELSE @]
    BY <1>1, PutInFolder DEF TypeOK, Conditions, Cleaned
  <1>2. CASE /\ save' = Put(save, n, owner) /\ UNCHANGED input
             /\ dir' = [dir EXCEPT !.save = IF @ = "missing" THEN "whole" ELSE @]
    BY <1>2, PutInFolder DEF TypeOK, Conditions, Cleaned
  <1> QED
    BY <1>1, <1>2 DEF Writes

\* Whoever writes at a place of work is a job of the batch, or its build.
LEMMA OwnerIsOne == IInv /\ place \in AtBatch => Owner \in Owners
PROOF
  BY DEF IInv, TypeOK, Placed, Owner, Owners

\* While a job runs, that job.
LEMMA OwnerIsJob == IInv /\ place \in JobPlaces => Owner = <<batch, job>>
PROOF
  BY DEF IInv, TypeOK, Owner

\* The file a build starts from is none of those the batch requires.
LEMMA BuildIsNoInput == IInv /\ place \in AtBatch => "build" \notin InitFiles[batch]
PROOF
  BY WorkDirAssumption DEF IInv, Placed

-----------------------------------------------------------------------------
(* The steps of the node                                                   *)

\* In the beginning there is nothing in the directory.
LEMMA InitIInv == Init => IInv
PROOF
  <1> SUFFICES ASSUME Init PROVE IInv
    OBVIOUS
  <1>1. TypeOK
    BY EmptyFacts, WorkDirAssumption
    DEF Init, TypeOK, Places, JobPlaces, Conditions, Range, Empty
  <1>2. Placed /\ Alone
    BY EmptyFacts DEF Init, Placed, Alone, Cleaned, AtBatch, JobPlaces
  <1>3. Saved /\ Mounted /\ Inputs
    BY EmptyFacts DEF Init, Saved, Mounted, Inputs
  <1> QED
    BY <1>1, <1>2, <1>3 DEF IInv

\* The node makes its directory when it starts (client_command).
LEMMA NodeStartsStep ==
  ASSUME IInv, NodeStarts PROVE IInv'
PROOF
  <1>1. TypeOK'
    BY MadeAnewTyped, MishapFacts
    DEF IInv, TypeOK, Places, JobPlaces, NodeStarts
  <1>2. Placed' /\ Alone'
    <2>1. Placed'
      BY DEF IInv, Placed, AtBatch, JobPlaces, NodeStarts
    <2>2. /\ dir'.base = "left" \/ (dir'.input # "left" /\ dir'.save # "left")
          /\ dir'.base # "left" => orphans' = {} /\ DOMAIN initial' = {}
          /\ DeleteAndCreateFolders => dir'.base = "whole" /\ dir'.input = "whole"
      BY MadeAnewFacts DEF NodeStarts
    <2>3. /\ place = "start" /\ cwd' = cwd
          /\ \/ place' = "uninit" /\ DeleteAndCreateFolders
             \/ place' = "start" /\ mishaps' # 0
      BY MishapFacts DEF IInv, NodeStarts
    <2>4. Alone'
      BY <2>2, <2>3 DEF IInv, Alone, Cleaned
    <2> QED
      BY <2>1, <2>4
  <1>3. Saved'
    BY DEF IInv, Saved, Cleaned, NodeStarts
  <1>4. Mounted'
    BY DEF Mounted, NodeStarts
  <1>5. Inputs'
    BY DEF Inputs, HoldsInitial, HoldsInput, Own, Cleaned, TypeOK, NodeStarts
  <1> QED
    BY <1>1, <1>2, <1>3, <1>4, <1>5 DEF IInv

\* A connection changes nothing on the disk.
LEMMA ConnectsStep ==
  ASSUME IInv, Connects PROVE IInv'
PROOF
  <1>1. TypeOK'
    BY DEF IInv, TypeOK, Places, JobPlaces, folders, NoMishap, Conditions, mounts, Connects
  <1>2. Placed' /\ Alone'
    BY DEF IInv, Placed, Alone, AtBatch, JobPlaces, TypeOK, Cleaned, NoMishap, folders, Connects
  <1>3. Saved'
    BY DEF IInv, Saved, Cleaned, folders, Connects
  <1>4. Mounted'
    BY DEF Mounted, mounts, Connects
  <1>5. Inputs'
    BY DEF Inputs, HoldsInitial, HoldsInput, Own, Cleaned, folders, TypeOK, Connects
  <1> QED
    BY <1>1, <1>2, <1>3, <1>4, <1>5 DEF IInv

\* The directory is made anew before a build order is read (receive_job).
LEMMA PreparesBuildStep ==
  ASSUME IInv, PreparesBuild PROVE IInv'
PROOF
  <1>1. TypeOK'
    BY MadeAnewTyped, MishapFacts
    DEF IInv, TypeOK, Places, JobPlaces, folders, IsFolder, PreparesBuild
  <1>2. Placed' /\ Alone'
    <2>1. Placed'
      BY DEF IInv, Placed, AtBatch, JobPlaces, PreparesBuild
    <2>2. place = "prepare_build" /\ place' = "await_build" /\ cwd' = cwd
      BY DEF PreparesBuild
    <2>3. CASE dir.base = "missing"
      <3>1. dir' = dir /\ initial' = initial /\ orphans' = orphans /\ mishaps' = mishaps
        BY <2>3 DEF NoMishap, folders, PreparesBuild
      <3>2. orphans = {} /\ DOMAIN initial = {} /\ mishaps # 0
        BY <2>2, <2>3 DEF IInv, Alone
      <3> QED
        BY <2>1, <2>2, <2>3, <3>1, <3>2 DEF IInv, Alone
    <2>4. CASE dir.base # "missing"
      <3>1. /\ dir'.base = "left" \/ (dir'.input # "left" /\ dir'.save # "left")
            /\ dir'.base # "left" => orphans' = {} /\ DOMAIN initial' = {}
            /\ DeleteAndCreateFolders => dir'.base = "whole" /\ dir'.input = "whole"
        BY <2>4, MadeAnewFacts DEF PreparesBuild
      <3>2. DeleteAndCreateFolders \/ mishaps' # 0
        BY <2>4, MishapFacts DEF IInv, PreparesBuild
      <3>3. /\ dir'.base = "missing" => orphans' = {} /\ DOMAIN initial' = {}
            /\ orphans' # {} => dir'.base = "left"
        BY <3>1
      <3>4. \/ mishaps' # 0
            \/ Cleaned("input")' /\ dir'.input # "missing" /\ dir'.base # "missing"
        BY <3>1, <3>2 DEF Cleaned
      <3>5. cwd' = "home"
        BY <2>2 DEF IInv, Alone
      <3> QED
        BY <2>1, <2>2, <3>3, <3>4, <3>5 DEF Alone
    <2> QED
      BY <2>1, <2>3, <2>4
  <1>3. Saved'
    BY DEF IInv, Saved, Cleaned, folders, PreparesBuild
  <1>4. Mounted'
    BY DEF Mounted, PreparesBuild
  <1>5. Inputs'
    <2>1. place' = "await_build"
      BY DEF PreparesBuild
    <2>2. dir'.base # "left" => DOMAIN initial' = {}
      <3>1. CASE dir.base = "missing"
        BY <3>1 DEF IInv, Alone, folders, PreparesBuild
      <3>2. CASE dir.base # "missing"
        BY <3>2, MadeAnewFacts DEF PreparesBuild
      <3> QED
        BY <3>1, <3>2
    <2> QED
      BY <2>1, <2>2 DEF Inputs
  <1> QED
    BY <1>1, <1>2, <1>3, <1>4, <1>5 DEF IInv

\* A build order names the files that follow.
LEMMA ReadsBuildOrderStep ==
  ASSUME IInv, NEW b \in Batches, ReadsBuildOrder(b) PROVE IInv'
PROOF
  <1>1. TypeOK'
    BY WorkDirAssumption
    DEF IInv, TypeOK, Places, JobPlaces, NoMishap, Conditions, mounts, ReadsBuildOrder
  <1>2. Placed' /\ Alone'
    BY DEF IInv, Placed, Alone, TypeOK, Cleaned, NoMishap, ReadsBuildOrder
  <1>3. Saved'
    BY DEF IInv, Saved, Cleaned, ReadsBuildOrder
  <1>4. Mounted'
    BY DEF Mounted, mounts, ReadsBuildOrder
  <1>5. Inputs'
    BY DEF IInv, Inputs, HoldsInitial, HoldsInput, Own, Cleaned, TypeOK, ReadsBuildOrder
  <1> QED
    BY <1>1, <1>2, <1>3, <1>4, <1>5 DEF IInv

\* A file goes to the folder of the place, or nowhere (receive_files).
LEMMA ReceivesFileStep ==
  ASSUME IInv, NEW f \in todo, ReceivesFile(f) PROVE IInv'
PROOF
  <1>1. TypeOK'
    <2>1. Owner \in Owners /\ f \in Names \cup {"build", "job"}
      BY OwnerIsOne DEF IInv, TypeOK, AtBatch, JobPlaces, ReceivesFile
    <2>2. IsFolder(initial') /\ IsFolder(input')
      BY <2>1, PutInFolder DEF IInv, TypeOK, ReceivesFile
    <2>3. place = "job_files" => dir.input # "missing"
      BY DEF IInv, Alone
    <2>4. mishaps' \in 0..MaxMishaps
      BY MishapFacts DEF IInv, ReceivesFile
    <2> QED
      BY <2>2, <2>3, <2>4 DEF IInv, TypeOK, ReceivesFile, mounts
  <1>2. Placed' /\ Alone'
    BY DEF IInv, Placed, Alone, Mishap, Put, TypeOK, Cleaned, NoMishap, ReceivesFile
  <1>3. Saved'
    BY PutFacts DEF IInv, Saved, Mishap, Put, Cleaned, ReceivesFile
  <1>4. Mounted'
    BY DEF IInv, Mounted, Mishap, Put, mounts, ReceivesFile
  <1>5. Inputs'
    BY DEF IInv, TypeOK, Inputs, HoldsInitial, HoldsInput, Own, JobPlaces, Owner, NoMishap, Mishap,
        Put, Cleaned, ReceivesFile
  <1> QED
    BY <1>1, <1>2, <1>3, <1>4, <1>5 DEF IInv

\* With the last file the node goes on.
LEMMA ReceivedFilesStep ==
  ASSUME IInv, ReceivedFiles PROVE IInv'
PROOF
  <1>1. TypeOK'
    BY DEF IInv, TypeOK, Places, JobPlaces, folders, NoMishap, Conditions, mounts, ReceivedFiles
  <1>2. Placed' /\ Alone'
    BY DEF IInv, Placed, Alone, AtBatch, JobPlaces, TypeOK, Cleaned, NoMishap, folders,
        ReceivedFiles
  <1>3. Saved'
    BY DEF IInv, Saved, folders, Cleaned, ReceivedFiles
  <1>4. Mounted'
    BY DEF IInv, Mounted, mounts, ReceivedFiles
  <1>5. Inputs'
    BY DEF IInv, Inputs, HoldsInitial, HoldsInput, Own, folders, NoMishap, Cleaned, TypeOK,
        ReceivedFiles
  <1> QED
    BY <1>1, <1>2, <1>3, <1>4, <1>5 DEF IInv

\* The image is moved out of the initial files and the folders for its mounts are
\* made (initialize_apptainer_job).
LEMMA InitializeApptainerStep ==
  ASSUME IInv, InitializeApptainer PROVE IInv'
PROOF
  <1>1. TypeOK'
    <2>1. IsFolder(initial') /\ script' \in Owners \cup {NoOwner}
      <3>1. CASE "build" \in DOMAIN initial
        <4>1. initial' = Restrict(initial, DOMAIN initial \ {"build"})
          BY <3>1 DEF InitializeApptainer, Without
        <4>2. IsFolder(initial')
          BY <4>1, RestrictFacts DEF IInv, TypeOK
        <4>3. initial["build"] \in Owners
          BY <3>1 DEF IInv, TypeOK, IsFolder, Range
        <4> QED
          BY <3>1, <4>2, <4>3 DEF InitializeApptainer
      <3>2. CASE "build" \notin DOMAIN initial
        BY <3>2 DEF IInv, TypeOK, BuildFails, InitializeApptainer
      <3> QED
        BY <3>1, <3>2
    <2>2. /\ bound' \subseteq Nat /\ unmade' \subseteq bound'
          /\ Range(binds') \subseteq SUBSET Owners /\ mishaps' \in 0..MaxMishaps
      <3>1. CASE "build" \in DOMAIN initial
        BY <3>1, BindingsMade DEF IInv, TypeOK, Placed, AtBatch, InitializeApptainer
      <3>2. CASE "build" \notin DOMAIN initial
        BY <3>2 DEF IInv, TypeOK, BuildFails, NoMishap, mounts, InitializeApptainer
      <3> QED
        BY <3>1, <3>2
    <2> QED
      BY <2>1, <2>2 DEF IInv, TypeOK, Places, JobPlaces, BuildFails, InitializeApptainer
  <1>2. Placed' /\ Alone'
    <2>1. mishaps' = 0 => mishaps = 0
      BY BindingsMade DEF IInv, TypeOK, Placed, AtBatch, NoMishap, InitializeApptainer
    <2> QED
      BY <2>1 DEF IInv, Placed, Alone, AtBatch, JobPlaces, BuildFails, Cleaned,
          InitializeApptainer
  <1>3. Saved'
    BY DEF IInv, Saved, BuildFails, UpdateBindedPaths, Without, Cleaned, InitializeApptainer
  <1>4. Mounted'
    BY DEF Mounted, BuildFails, UpdateBindedPaths, Without, mounts, InitializeApptainer
  <1>5. Inputs'
    <2>1. CASE "build" \in DOMAIN initial
      <3>1. "build" \notin InitFiles[batch]
        BY BuildIsNoInput DEF AtBatch, InitializeApptainer
      <3>2. dir.base # "left" => HoldsInitial(initial, {}, InitFiles[batch] \cup {"build"})
        BY DEF IInv, Inputs, InitializeApptainer
      <3>3. /\ initial' = Without(initial, "build") /\ batch' = batch
            /\ mishaps' = 0 => mishaps = 0
        BY <2>1, BindingsMade DEF IInv, TypeOK, Placed, AtBatch, InitializeApptainer
      <3>4. /\ DOMAIN initial' = DOMAIN initial \ {"build"}
            /\ \A n \in DOMAIN initial' : initial'[n] = initial[n]
        BY <3>3 DEF Without, Restrict
      <3>5. dir.base # "left" => HoldsInitial(initial, {}, InitFiles[batch])'
        BY <2>1, <3>1, <3>2, <3>3, <3>4 DEF HoldsInitial
      <3> QED
        BY <2>1, <3>5 DEF Inputs, InitializeApptainer
    <2>2. CASE "build" \notin DOMAIN initial
      BY <2>2 DEF Inputs, BuildFails, InitializeApptainer
    <2> QED
      BY <2>1, <2>2
  <1> QED
    BY <1>1, <1>2, <1>3, <1>4, <1>5 DEF IInv

\* The build script is moved out of the initial files (initialize_python_job).
LEMMA InitializePythonStep ==
  ASSUME IInv, InitializePython PROVE IInv'
PROOF
  <1>1. TypeOK'
    BY DEF IInv, TypeOK, Places, JobPlaces, IsFolder, Restrict, Range, NoMishap, BuildFails,
        Without, Conditions, mounts, InitializePython
  <1>2. Placed' /\ Alone'
    BY DEF IInv, Placed, Alone, AtBatch, JobPlaces, BuildFails, Without, TypeOK, Cleaned, NoMishap,
        InitializePython
  <1>3. Saved'
    BY DEF IInv, Saved, BuildFails, Without, Cleaned, InitializePython
  <1>4. Mounted'
    BY DEF Mounted, BuildFails, Without, mounts, InitializePython
  <1>5. Inputs'
    <2>1. CASE "build" \in DOMAIN initial
      <3>1. "build" \notin InitFiles[batch]
        BY BuildIsNoInput DEF AtBatch, InitializePython
      <3>2. dir.base # "left" => HoldsInitial(initial, {}, InitFiles[batch] \cup {"build"})
        BY DEF IInv, Inputs, InitializePython
      <3>3. /\ initial' = Without(initial, "build") /\ batch' = batch
            /\ mishaps' = 0 => mishaps = 0
        BY <2>1, Zenon DEF NoMishap, InitializePython
      <3>4. /\ DOMAIN initial' = DOMAIN initial \ {"build"}
            /\ \A n \in DOMAIN initial' : initial'[n] = initial[n]
        BY <3>3 DEF Without, Restrict
      <3>5. dir.base # "left" => HoldsInitial(initial, {}, InitFiles[batch])'
        BY <2>1, <3>1, <3>2, <3>3, <3>4 DEF HoldsInitial
      <3> QED
        BY <2>1, <3>5 DEF Inputs, InitializePython
    <2>2. CASE "build" \notin DOMAIN initial
      BY <2>2 DEF Inputs, BuildFails, InitializePython
    <2> QED
      BY <2>1, <2>2
  <1> QED
    BY <1>1, <1>2, <1>3, <1>4, <1>5 DEF IInv

\* The build script has ended or was never started (generalized_init).
LEMMA BuildEndsStep ==
  ASSUME IInv, BuildEnds PROVE IInv'
PROOF
  <1>1. TypeOK'
    <2>1. Owner \in Owners
      BY OwnerIsOne DEF AtBatch, BuildEnds
    <2>2. IsFolder(save') /\ (dir.save = "missing" => DOMAIN save' = {})
      BY <2>1, PutInFolder DEF IInv, TypeOK, Output, BuildEnds
    <2>3. mishaps' \in 0..MaxMishaps
      BY MishapFacts DEF IInv, BuildEnds
    <2> QED
      BY <2>2, <2>3 DEF IInv, TypeOK, Places, JobPlaces, BuildFails, mounts, BuildEnds
  <1>2. Placed' /\ Alone'
    BY DEF IInv, Placed, Alone, AtBatch, JobPlaces, BuildFails, Mishap, TypeOK, Cleaned, NoMishap,
        BuildEnds
  <1>3. Saved'
    BY PutFacts DEF IInv, Saved, BuildFails, Mishap, Put, Cleaned, Output, BuildEnds
  <1>4. Mounted'
    BY DEF IInv, Placed, Mounted, BuildFails, Mishap, mounts, BuildEnds
  <1>5. Inputs'
    BY DEF IInv, Inputs, HoldsInitial, HoldsInput, Own, NoMishap, BuildFails, Mishap, Cleaned,
        TypeOK, BuildEnds
  <1> QED
    BY <1>1, <1>2, <1>3, <1>4, <1>5 DEF IInv

\* The folders of the next job are made (clean_distribute_save, clean_input).
LEMMA EntersBuiltStep ==
  ASSUME IInv, EntersBuilt PROVE IInv'
PROOF
  <1>1. TypeOK'
    <2>1. PICK i, o \in Conditions : /\ CleanDistributeSave(o) /\ CleanInput(i)
                                     /\ dir' = [dir EXCEPT !.save = o, !.input = i]
      BY DEF EntersBuilt, Conditions
    <2>2. IsFolder(save') /\ (o = "missing" => DOMAIN save' = {})
      BY <2>1, RestrictFacts, EmptyFacts DEF IInv, TypeOK, CleanDistributeSave
    <2>3. IsFolder(input') /\ (i = "missing" => DOMAIN input' = {})
      BY <2>1, RestrictFacts, EmptyFacts DEF IInv, TypeOK, CleanInput
    <2>4. mishaps' \in 0..MaxMishaps
      BY MishapFacts DEF IInv, EntersBuilt
    <2> QED
      BY <2>1, <2>2, <2>3, <2>4 DEF IInv, TypeOK, Places, JobPlaces, mounts, EntersBuilt
  <1>2. Placed' /\ Alone'
    BY DEF IInv, Placed, Alone, AtBatch, Mishap, TypeOK, Cleaned, NoMishap, EntersBuilt
  <1>3. Saved'
    <2>1. Cleaned("save")' => Range(save') = {}
      BY EmptyFacts DEF IInv, TypeOK, Cleaned, CleanDistributeSave, EntersBuilt
    <2> QED
      BY <2>1 DEF IInv, Saved, EntersBuilt
  <1>4. Mounted'
    BY DEF IInv, Mounted, Mishap, mounts, EntersBuilt
  <1>5. Inputs'
    <2> SUFFICES dir.base # "left" =>
                   /\ HoldsInitial(initial, {}, InitFiles[batch])'
                   /\ dir'.input # "left" => HoldsInitial(input, {}, InitFiles[batch])'
      BY DEF IInv, TypeOK, Inputs, Cleaned, EntersBuilt
    <2>1. dir.base # "left" => HoldsInitial(initial, {}, InitFiles[batch])
      BY DEF IInv, Inputs, EntersBuilt
    <2>2. batch' = batch /\ initial' = initial /\ (mishaps' = 0 => mishaps = 0)
      BY MishapFacts DEF IInv, NoMishap, EntersBuilt
    <2>3. PICK i, o \in {"whole", "left", "missing"} :
            /\ CleanInput(i) /\ dir' = [dir EXCEPT !.save = o, !.input = i]
            /\ \/ /\ i = (IF dir.input = "missing" THEN "missing" ELSE "whole")
                  /\ i = "whole" => DOMAIN initial \subseteq DOMAIN input'
               \/ Mishap("folder")
      BY DEF EntersBuilt
    <2>4. dir'.input = i
      BY <2>3 DEF IInv, TypeOK
    <2>5. i # "left" => /\ DOMAIN input' \subseteq DOMAIN initial
                        /\ \A n \in DOMAIN input' : input'[n] = initial[n]
      BY <2>3, RestrictFacts, EmptyFacts DEF CleanInput
    <2>6. mishaps' = 0 => DOMAIN initial \subseteq DOMAIN input'
      BY <2>2, <2>3, MishapFacts DEF IInv, Alone, EntersBuilt
    <2> QED
      BY <2>1, <2>2, <2>4, <2>5, <2>6 DEF HoldsInitial
  <1> QED
    BY <1>1, <1>2, <1>3, <1>4, <1>5 DEF IInv

\* A job order names the files that follow.
LEMMA ReadsJobOrderStep ==
  ASSUME IInv, NEW j \in Jobs, ReadsJobOrder(j) PROVE IInv'
PROOF
  <1>1. TypeOK'
    <2>1. batch \in Batches /\ JobFiles[batch][j] \subseteq Names
      BY WorkDirAssumption DEF IInv, Placed, AtBatch, ReadsJobOrder
    <2>2. /\ dir' \in [base : Conditions, input : Conditions, save : Conditions]
          /\ \A g \in {"input", "save"} : dir'[g] = "missing" => dir[g] = "missing"
      BY FolderMade DEF IInv, TypeOK, ReadsJobOrder
    <2>3. todo' \subseteq Names \cup {"build", "job"}
      BY <2>1 DEF ReadsJobOrder
    <2> QED
      BY <2>2, <2>3, WorkDirAssumption
      DEF IInv, TypeOK, Places, JobPlaces, NoMishap, mounts, ReadsJobOrder
  <1>2. Placed' /\ Alone'
    BY DEF IInv, Placed, Alone, AtBatch, TypeOK, Cleaned, NoMishap, ReadsJobOrder
  <1>3. Saved'
    BY DEF IInv, Saved, Cleaned, ReadsJobOrder
  <1>4. Mounted'
    BY DEF IInv, Mounted, mounts, ReadsJobOrder
  <1>5. Inputs'
    BY DEF IInv, Inputs, HoldsInitial, HoldsInput, Own, NoMishap, Cleaned, TypeOK, ReadsJobOrder
  <1> QED
    BY <1>1, <1>2, <1>3, <1>4, <1>5 DEF IInv

\* The batch is done: its folders for mounts go (Drop of BindingFolderState).
LEMMA ReadsReturnStep ==
  ASSUME IInv, ReadsReturn PROVE IInv'
PROOF
  <1>1. TypeOK'
    <2>1. bound' = {} /\ unmade' = {} /\ Range(binds') \subseteq SUBSET Owners
      BY BindingsDropped DEF IInv, ReadsReturn
    <2>2. mishaps' \in 0..MaxMishaps
      BY MishapFacts DEF IInv, ReadsReturn
    <2> QED
      BY <2>1, <2>2 DEF IInv, TypeOK, Places, JobPlaces, folders, ReadsReturn
  <1>2. Placed' /\ Alone'
    BY DEF IInv, Placed, Alone, AtBatch, JobPlaces, DropBindings, TypeOK, Cleaned, NoMishap,
        folders, ReadsReturn
  <1>3. Saved'
    BY DEF IInv, Saved, DropBindings, Cleaned, folders, ReadsReturn
  <1>4. Mounted'
    BY DEF Mounted, DropBindings, ReadsReturn
  <1>5. Inputs'
    BY DEF Inputs, HoldsInitial, HoldsInput, Own, DropBindings, Cleaned, folders, TypeOK,
        ReadsReturn
  <1> QED
    BY <1>1, <1>2, <1>3, <1>4, <1>5 DEF IInv

\* The script of the job is moved out of its input (run_python_job).
LEMMA StartsPythonJobStep ==
  ASSUME IInv, StartsPythonJob PROVE IInv'
PROOF
  <1>1. TypeOK'
    BY DEF IInv, TypeOK, Places, JobPlaces, IsFolder, Restrict, Range, NoMishap, Without,
        Conditions, mounts, StartsPythonJob
  <1>2. Placed' /\ Alone'
    BY DEF IInv, Placed, Alone, AtBatch, JobPlaces, Without, TypeOK, Cleaned, NoMishap,
        StartsPythonJob
  <1>3. Saved'
    BY DEF IInv, Saved, Without, Cleaned, StartsPythonJob
  <1>4. Mounted'
    BY DEF Mounted, Without, mounts, StartsPythonJob
  <1>5. Inputs'
    BY DEF IInv, Inputs, HoldsInitial, HoldsInput, Own, NoMishap, Without, Cleaned, TypeOK,
        StartsPythonJob
  <1> QED
    BY <1>1, <1>2, <1>3, <1>4, <1>5 DEF IInv

\* The container starts with the folders there are (run_apptainer_job).
LEMMA StartsApptainerJobStep ==
  ASSUME IInv, StartsApptainerJob PROVE IInv'
PROOF
  <1>1. TypeOK'
    BY DEF IInv, TypeOK, Places, JobPlaces, folders, NoMishap, Conditions, mounts,
        StartsApptainerJob
  <1>2. Placed' /\ Alone'
    BY DEF IInv, Placed, Alone, AtBatch, JobPlaces, TypeOK, Cleaned, NoMishap, folders,
        StartsApptainerJob
  <1>3. Saved'
    BY DEF IInv, Saved, folders, Cleaned, StartsApptainerJob
  <1>4. Mounted'
    BY DEF IInv, Mounted, mounts, StartsApptainerJob
  <1>5. Inputs'
    BY DEF IInv, Inputs, HoldsInitial, HoldsInput, Own, folders, NoMishap, Cleaned, TypeOK,
        StartsApptainerJob
  <1> QED
    BY <1>1, <1>2, <1>3, <1>4, <1>5 DEF IInv

\* The command has ended or was never started (generalized_run).
LEMMA JobEndsStep ==
  ASSUME IInv, JobEnds PROVE IInv'
PROOF
  <1>1. TypeOK'
    <2>1. Owner \in Owners
      BY OwnerIsOne DEF AtBatch, JobPlaces, JobEnds
    <2>2. IsFolder(save') /\ (dir.save = "missing" => DOMAIN save' = {})
      BY <2>1, PutInFolder DEF IInv, TypeOK, Output, JobEnds
    <2>3. mishaps' \in 0..MaxMishaps
      BY MishapFacts DEF IInv, JobEnds
    <2> QED
      BY <2>2, <2>3 DEF IInv, TypeOK, Places, JobPlaces, mounts, JobEnds
  <1>2. Placed' /\ Alone'
    BY DEF IInv, Placed, Alone, AtBatch, JobPlaces, Mishap, TypeOK, Cleaned, NoMishap, JobEnds
  <1>3. Saved'
    <2>1. Owner = <<batch, job>>
      BY OwnerIsJob DEF JobPlaces, JobEnds
    <2>2. Cleaned("save") => Range(save') \subseteq {<<batch, job>>}
      <3>1. Cleaned("save") => Range(save) \subseteq {<<batch, job>>}
        BY DEF IInv, Saved, JobEnds
      <3>2. save' = save \/ save' = Put(save, "output", Owner)
        BY DEF JobEnds, Output
      <3> QED
        BY <2>1, <3>1, <3>2, PutFacts
    <2> QED
      BY <2>2 DEF IInv, Saved, Cleaned, JobEnds
  <1>4. Mounted'
    BY DEF IInv, Mounted, Mishap, Put, mounts, JobEnds
  <1>5. Inputs'
    BY DEF IInv, TypeOK, Inputs, HoldsInitial, HoldsInput, Own, NoMishap, Mishap, Put, Cleaned,
        JobEnds
  <1> QED
    BY <1>1, <1>2, <1>3, <1>4, <1>5 DEF IInv

\* A cancelled command is left to itself (generalized_run).
LEMMA JobIsCancelledStep ==
  ASSUME IInv, JobIsCancelled PROVE IInv'
PROOF
  <1>1. TypeOK'
    <2>1. Owner \in Owners
      BY OwnerIsOne DEF AtBatch, JobPlaces, JobIsCancelled
    <2>2. mishaps' \in 0..MaxMishaps
      BY MishapFacts DEF IInv, JobIsCancelled
    <2> QED
      BY <2>1, <2>2 DEF IInv, TypeOK, Places, JobPlaces, folders, mounts, JobIsCancelled
  <1>2. Placed' /\ Alone'
    BY DEF IInv, Placed, Alone, AtBatch, JobPlaces, Mishap, TypeOK, Cleaned, folders,
        JobIsCancelled
  <1>3. Saved'
    BY DEF IInv, Saved, Mishap, Cleaned, folders, JobIsCancelled
  <1>4. Mounted'
    BY DEF Mounted, Mishap, mounts, JobIsCancelled
  <1>5. Inputs'
    BY DEF Inputs, HoldsInitial, HoldsInput, Own, Mishap, Cleaned, folders, TypeOK,
        JobIsCancelled
  <1> QED
    BY <1>1, <1>2, <1>3, <1>4, <1>5 DEF IInv

\* The cancellation ends the batch on this node.
LEMMA ReportsCancelledStep ==
  ASSUME IInv, ReportsCancelled PROVE IInv'
PROOF
  <1>1. TypeOK'
    <2>1. bound' = {} /\ unmade' = {} /\ Range(binds') \subseteq SUBSET Owners
      BY BindingsDropped DEF IInv, ReportsCancelled
    <2>2. mishaps' \in 0..MaxMishaps
      BY MishapFacts DEF IInv, ReportsCancelled
    <2> QED
      BY <2>1, <2>2 DEF IInv, TypeOK, Places, JobPlaces, folders, ReportsCancelled
  <1>2. Placed' /\ Alone'
    BY DEF IInv, Placed, Alone, AtBatch, JobPlaces, DropBindings, TypeOK, Cleaned, NoMishap,
        folders, ReportsCancelled
  <1>3. Saved'
    BY DEF IInv, Saved, DropBindings, Cleaned, folders, ReportsCancelled
  <1>4. Mounted'
    BY DEF Mounted, DropBindings, ReportsCancelled
  <1>5. Inputs'
    BY DEF Inputs, HoldsInitial, HoldsInput, Own, DropBindings, Cleaned, folders, TypeOK,
        ReportsCancelled
  <1> QED
    BY <1>1, <1>2, <1>3, <1>4, <1>5 DEF IInv

\* The result is reported, or overtaken by a cancellation.
LEMMA ReportsResultStep ==
  ASSUME IInv, ReportsResult PROVE IInv'
PROOF
  <1>1. TypeOK'
    BY WorkDirAssumption
    DEF IInv, TypeOK, Places, JobPlaces, folders, NoMishap, Mishap, Conditions, mounts,
        ReportsResult
  <1>2. Placed' /\ Alone'
    BY DEF IInv, Placed, Alone, AtBatch, JobPlaces, Mishap, TypeOK, Cleaned, NoMishap,
        folders, ReportsResult
  <1>3. Saved'
    BY DEF IInv, Saved, folders, Mishap, Cleaned, ReportsResult
  <1>4. Mounted'
    BY DEF IInv, Mounted, Mishap, mounts, ReportsResult
  <1>5. Inputs'
    BY DEF IInv, Inputs, HoldsInitial, HoldsInput, Own, folders, NoMishap, Mishap, Cleaned,
        TypeOK, ReportsResult
  <1> QED
    BY <1>1, <1>2, <1>3, <1>4, <1>5 DEF IInv

\* The results are sent.
LEMMA SendsResultsStep ==
  ASSUME IInv, SendsResults PROVE IInv'
PROOF
  <1>1. TypeOK'
    BY DEF IInv, TypeOK, Places, JobPlaces, folders, NoMishap, Conditions, mounts, SendsResults
  <1>2. Placed' /\ Alone'
    BY DEF IInv, Placed, Alone, AtBatch, JobPlaces, TypeOK, Cleaned, NoMishap, folders,
        SendsResults
  <1>3. Saved'
    BY DEF IInv, Saved, Cleaned, folders, SendsResults
  <1>4. Mounted'
    BY DEF IInv, Mounted, mounts, SendsResults
  <1>5. Inputs'
    BY DEF IInv, Inputs, HoldsInitial, HoldsInput, Own, folders, NoMishap, Cleaned, TypeOK,
        SendsResults
  <1> QED
    BY <1>1, <1>2, <1>3, <1>4, <1>5 DEF IInv

\* The connection breaks and the state of the node is dropped (into_uninit).
LEMMA LosesConnectionStep ==
  ASSUME IInv, LosesConnection PROVE IInv'
PROOF
  <1>1. TypeOK'
    <2>1. bound' = {} /\ unmade' = {} /\ Range(binds') \subseteq SUBSET Owners
      BY BindingsDropped DEF IInv, LosesConnection
    <2>2. mishaps' \in 0..MaxMishaps
      BY MishapFacts DEF IInv, LosesConnection
    <2> QED
      BY <2>1, <2>2 DEF IInv, TypeOK, Places, JobPlaces, folders, LosesConnection
  <1>2. Placed' /\ Alone'
    BY DEF IInv, Placed, Alone, AtBatch, JobPlaces, Mishap, DropBindings, TypeOK, Cleaned, folders,
        LosesConnection
  <1>3. Saved'
    BY DEF IInv, Saved, Mishap, DropBindings, Cleaned, folders, LosesConnection
  <1>4. Mounted'
    BY DEF Mounted, Mishap, DropBindings, LosesConnection
  <1>5. Inputs'
    BY DEF Inputs, HoldsInitial, HoldsInput, Own, Mishap, DropBindings, Cleaned, folders,
        TypeOK, LosesConnection
  <1> QED
    BY <1>1, <1>2, <1>3, <1>4, <1>5 DEF IInv

\* The node stops anywhere and is started again.
LEMMA RestartsStep ==
  ASSUME IInv, Restarts PROVE IInv'
PROOF
  <1>1. TypeOK'
    <2>1. orphans' \subseteq Owners
      BY OwnerIsOne DEF IInv, TypeOK, AtBatch, JobPlaces, Restarts
    <2>2. mishaps' \in 0..MaxMishaps
      BY MishapFacts DEF IInv, Restarts
    <2> QED
      BY <2>1, <2>2 DEF IInv, TypeOK, Places, JobPlaces, folders, Restarts
  <1>2. Placed' /\ Alone'
    <2>1. mishaps' # 0
      BY MishapFacts DEF IInv, Restarts
    <2>2. dir.base = "missing" => orphans' = {} /\ DOMAIN initial' = {}
      BY DEF IInv, Alone, folders, Restarts
    <2> QED
      BY <2>1, <2>2 DEF Placed, Alone, AtBatch, JobPlaces, folders, Restarts
  <1>3. Saved'
    BY DEF IInv, Saved, Mishap, Cleaned, folders, Restarts
  <1>4. Mounted'
    BY DEF Mounted, Mishap, Restarts
  <1>5. Inputs'
    BY DEF Inputs, HoldsInitial, HoldsInput, Own, Mishap, Cleaned, folders, TypeOK,
        Restarts
  <1> QED
    BY <1>1, <1>2, <1>3, <1>4, <1>5 DEF IInv

-----------------------------------------------------------------------------
(* The steps of distribute run, and of the processes                         *)

\* distribute run fills a new directory (run_local).
LEMMA LocalStartsStep ==
  ASSUME IInv, NEW b \in Batches, LocalStarts(b) PROVE IInv'
PROOF
  <1>1. TypeOK'
    <2>1. IsFolder(initial') /\ script' \in Owners
      BY WorkDirAssumption DEF IsFolder, Range, Owners, LocalStarts
    <2>2. /\ bound' \subseteq Nat /\ unmade' \subseteq bound'
          /\ Range(binds') \subseteq SUBSET Owners /\ mishaps' \in 0..MaxMishaps
      BY BindingsMade, EmptyFacts DEF IInv, LocalStarts
    <2> QED
      BY <2>1, <2>2, EmptyFacts
      DEF IInv, TypeOK, Places, JobPlaces, Conditions, LocalStarts
  <1>2. Placed' /\ Alone'
    BY DEF IInv, Placed, Alone, UpdateBindedPaths, TypeOK, Cleaned, NoMishap, Mishap, LocalStarts
  <1>3. Saved'
    BY EmptyFacts DEF IInv, Saved, LocalStarts
  <1>4. Mounted'
    BY DEF Mounted, UpdateBindedPaths, LocalStarts
  <1>5. Inputs'
    BY DEF Inputs, HoldsInitial, HoldsInput, Own, UpdateBindedPaths, Cleaned, TypeOK, LocalStarts
  <1> QED
    BY <1>1, <1>2, <1>3, <1>4, <1>5 DEF IInv

\* distribute run copies the files of a job (copy_job_files_apptainer).
LEMMA LocalRunsStep ==
  ASSUME IInv, NEW j \in Jobs, LocalRuns(j) PROVE IInv'
PROOF
  <1>1. TypeOK'
    <2>1. IsFolder(input')
      <3>1. /\ batch \in Batches /\ JobFiles[batch][j] \subseteq Names
            /\ Range(initial) \subseteq Owners
            /\ DOMAIN initial \subseteq Names \cup {"build", "job", "output"}
        BY WorkDirAssumption DEF IInv, TypeOK, Placed, AtBatch, IsFolder, LocalRuns
      <3>2. \A n \in DOMAIN input' : input'[n] \in Owners
        BY <3>1 DEF Owners, Range, LocalRuns
      <3> QED
        BY <3>1, <3>2 DEF IsFolder, Range, LocalRuns
    <2> QED
      BY <2>1, WorkDirAssumption
      DEF IInv, TypeOK, Alone, Places, JobPlaces, NoMishap, mounts, LocalRuns
  <1>2. Placed' /\ Alone'
    BY DEF IInv, Placed, Alone, AtBatch, TypeOK, Cleaned, NoMishap, LocalRuns
  <1>3. Saved'
    BY DEF IInv, Saved, Cleaned, LocalRuns
  <1>4. Mounted'
    BY DEF IInv, Mounted, mounts, LocalRuns
  <1>5. Inputs'
    BY DEF Inputs, HoldsInitial, HoldsInput, Own, Cleaned, TypeOK, LocalRuns
  <1> QED
    BY <1>1, <1>2, <1>3, <1>4, <1>5 DEF IInv

\* distribute run moves the results of a job to the archive.
LEMMA LocalEndsStep ==
  ASSUME IInv, LocalEnds PROVE IInv'
PROOF
  <1>1. TypeOK'
    BY OwnerIsOne, PutInFolder
    DEF IInv, TypeOK, Places, JobPlaces, IsFolder, Range, Empty, NoMishap, Put, Conditions,
        mounts, LocalEnds
  <1>2. Placed' /\ Alone'
    BY DEF IInv, Placed, Alone, AtBatch, JobPlaces, Put, TypeOK, Cleaned, NoMishap, LocalEnds
  <1>3. Saved'
    <2>1. Range(Put(save, "output", Owner)) \subseteq {<<batch, job>>}
      <3>1. Owner = <<batch, job>>
        BY OwnerIsJob DEF JobPlaces, LocalEnds
      <3> QED
        BY <3>1, PutFacts DEF IInv, Saved, Alone, LocalEnds
    <2>2. /\ DOMAIN archive' = DOMAIN archive \cup {job}
          /\ \A j \in DOMAIN archive' :
               archive'[j] = IF j = job THEN Put(save, "output", Owner) ELSE archive[j]
      <3>1. archive' = Put(archive, job, Put(save, "output", Owner))
        BY DEF LocalEnds
      <3> QED
        BY <3>1 DEF Put
    <2>3. \A j \in DOMAIN archive' : Range(archive'[j]) \subseteq {<<batch, j>>}
      BY <2>1, <2>2 DEF IInv, Saved
    <2> QED
      BY <2>3 DEF Saved, Range, Empty, LocalEnds
  <1>4. Mounted'
    BY DEF IInv, Mounted, Put, mounts, LocalEnds
  <1>5. Inputs'
    BY DEF Inputs, HoldsInitial, HoldsInput, Own, Put, Cleaned, TypeOK, LocalEnds
  <1> QED
    BY <1>1, <1>2, <1>3, <1>4, <1>5 DEF IInv

\* distribute run ends.
LEMMA LocalStopsStep ==
  ASSUME IInv, LocalStops PROVE IInv'
PROOF
  <1>1. TypeOK'
    <2>1. bound' = {} /\ unmade' = {} /\ Range(binds') \subseteq SUBSET Owners
      BY BindingsDropped DEF IInv, LocalStops
    <2>2. mishaps' \in 0..MaxMishaps
      BY MishapFacts DEF IInv, LocalStops
    <2> QED
      BY <2>1, <2>2 DEF IInv, TypeOK, Places, JobPlaces, folders, LocalStops
  <1>2. Placed' /\ Alone'
    BY DEF IInv, Placed, Alone, AtBatch, JobPlaces, Mishap, DropBindings, TypeOK, Cleaned,
        NoMishap, folders, LocalStops
  <1>3. Saved'
    BY DEF IInv, Saved, Mishap, DropBindings, Cleaned, folders, LocalStops
  <1>4. Mounted'
    BY DEF Mounted, Mishap, DropBindings, LocalStops
  <1>5. Inputs'
    BY DEF Inputs, HoldsInitial, HoldsInput, Own, Mishap, DropBindings, Cleaned, folders,
        TypeOK, LocalStops
  <1> QED
    BY <1>1, <1>2, <1>3, <1>4, <1>5 DEF IInv

\* A process writes where it likes in its folders.
LEMMA ProcessWritesStep ==
  ASSUME IInv, NEW n \in Names, ProcessWrites(n) PROVE IInv'
PROOF
  <1>1. TypeOK'
    <2>1. Owner \in Owners
      BY OwnerIsOne DEF AtBatch, JobPlaces, ProcessWrites
    <2>2. /\ IsFolder(input') /\ IsFolder(save')
          /\ dir' \in [base : Conditions, input : Conditions, save : Conditions]
          /\ dir'.input = "missing" => DOMAIN input' = {}
          /\ dir'.save = "missing" => DOMAIN save' = {}
      BY <2>1, WritesFacts DEF IInv, ProcessWrites
    <2> QED
      BY <2>2 DEF IInv, TypeOK, NoMishap, mounts, ProcessWrites
  <1>2. Placed' /\ Alone'
    BY DEF IInv, Placed, Alone, Writes, Put, TypeOK, Cleaned, NoMishap, ProcessWrites
  <1>3. Saved'
    <2>1. CASE place = "compiling"
      BY <2>1 DEF IInv, Saved, ProcessWrites
    <2>2. CASE place # "compiling"
      <3>1. Owner = <<batch, job>>
        BY <2>2, OwnerIsJob DEF JobPlaces, ProcessWrites
      <3>2. Cleaned("save")' => Range(save) \subseteq {<<batch, job>>}
        BY <2>2, OwnerIsOne, WritesFacts
        DEF IInv, Saved, AtBatch, JobPlaces, ProcessWrites
      <3>3. save' = save \/ save' = Put(save, n, Owner)
        BY DEF ProcessWrites, Writes
      <3>4. Cleaned("save")' => Range(save') \subseteq {<<batch, job>>}
        BY <3>1, <3>2, <3>3, PutFacts
      <3> QED
        BY <2>2, <3>4 DEF IInv, Saved, ProcessWrites
    <2> QED
      BY <2>1, <2>2
  <1>4. Mounted'
    BY DEF IInv, Mounted, Writes, Put, mounts, ProcessWrites
  <1>5. Inputs'
    BY DEF IInv, Inputs, HoldsInitial, HoldsInput, Own, NoMishap, Writes, Put, Cleaned, TypeOK,
        ProcessWrites
  <1> QED
    BY <1>1, <1>2, <1>3, <1>4, <1>5 DEF IInv

\* So does the process of a cancelled job, for as long as its directory is there.
LEMMA OrphanWritesStep ==
  ASSUME IInv, NEW n \in Names, NEW owner \in orphans, OrphanWrites(owner, n) PROVE IInv'
PROOF
  <1>1. TypeOK'
    <2>1. owner \in Owners
      BY DEF IInv, TypeOK
    <2>2. /\ IsFolder(input') /\ IsFolder(save')
          /\ dir' \in [base : Conditions, input : Conditions, save : Conditions]
          /\ dir'.input = "missing" => DOMAIN input' = {}
          /\ dir'.save = "missing" => DOMAIN save' = {}
      BY <2>1, WritesFacts DEF IInv, OrphanWrites
    <2> QED
      BY <2>2 DEF IInv, TypeOK, NoMishap, mounts, OrphanWrites
  <1>2. Placed' /\ Alone'
    BY DEF IInv, Placed, Alone, Writes, Put, TypeOK, Cleaned, NoMishap, OrphanWrites
  <1>3. Saved'
    <2>1. CASE dir.base = "left"
      BY <2>1, WritesFacts DEF IInv, TypeOK, Saved, Cleaned, OrphanWrites
    <2>2. CASE place \in {"cancelled", "prepare_build", "uninit", "start"}
      BY <2>2 DEF IInv, Saved, OrphanWrites
    <2> QED
      BY <2>1, <2>2 DEF IInv, Alone
  <1>4. Mounted'
    BY DEF IInv, Mounted, Writes, Put, mounts, OrphanWrites
  <1>5. Inputs'
    BY DEF IInv, Alone, Inputs, HoldsInitial, HoldsInput, Own, Writes, Put, Cleaned, TypeOK,
        OrphanWrites
  <1> QED
    BY <1>1, <1>2, <1>3, <1>4, <1>5 DEF IInv

\* A container writes to its mounts.
LEMMA ContainerWritesStep ==
  ASSUME IInv, NEW i \in bound, ContainerWrites(i) PROVE IInv'
PROOF
  <1>1. TypeOK'
    BY DEF IInv, TypeOK, Placed, AtBatch, JobPlaces, Owners, Owner, folders, Range, NoMishap,
        Conditions, ContainerWrites
  <1>2. Placed' /\ Alone'
    BY DEF IInv, Placed, Alone, TypeOK, Cleaned, NoMishap, folders, ContainerWrites
  <1>3. Saved'
    BY DEF IInv, Saved, folders, Cleaned, ContainerWrites
  <1>4. Mounted'
    BY DEF IInv, TypeOK, Mounted, JobPlaces, Owner, ContainerWrites
  <1>5. Inputs'
    BY DEF IInv, Inputs, HoldsInitial, HoldsInput, Own, folders, NoMishap, Cleaned, TypeOK,
        ContainerWrites
  <1> QED
    BY <1>1, <1>2, <1>3, <1>4, <1>5 DEF IInv

-----------------------------------------------------------------------------
(* The theorems                                                            *)

\* A step that changes nothing keeps the invariant.
LEMMA StutterStep ==
  ASSUME IInv, UNCHANGED vars PROVE IInv'
PROOF
  <1> USE DEF vars, folders, mounts, Cleaned
  <1>1. TypeOK'
    BY DEF IInv, TypeOK, IsFolder
  <1>2. Placed' /\ Alone' /\ Saved' /\ Mounted'
    BY DEF IInv, Placed, Alone, Saved, Mounted
  <1>3. Inputs'
    BY DEF IInv, Inputs, HoldsInitial, HoldsInput, Own
  <1> QED
    BY <1>1, <1>2, <1>3 DEF IInv

\* Every step of the node, of distribute run and of a process keeps it.
LEMMA NextIInv ==
  ASSUME IInv, [Next]_vars PROVE IInv'
PROOF
  <1>1. ASSUME NEW b \in Batches, ReadsBuildOrder(b) \/ LocalStarts(b) PROVE IInv'
    BY <1>1, ReadsBuildOrderStep, LocalStartsStep
  <1>2. ASSUME NEW f \in todo, ReceivesFile(f) PROVE IInv'
    BY <1>2, ReceivesFileStep
  <1>3. ASSUME NEW j \in Jobs, ReadsJobOrder(j) \/ LocalRuns(j) PROVE IInv'
    BY <1>3, ReadsJobOrderStep, LocalRunsStep
  <1>4. ASSUME NEW n \in Names, ProcessWrites(n) \/ \E owner \in orphans : OrphanWrites(owner, n)
        PROVE  IInv'
    BY <1>4, ProcessWritesStep, OrphanWritesStep
  <1>5. ASSUME NEW i \in bound, ContainerWrites(i) PROVE IInv'
    BY <1>5, ContainerWritesStep
  <1>6. CASE \/ NodeStarts \/ Connects \/ PreparesBuild \/ ReceivedFiles
             \/ InitializeApptainer \/ InitializePython \/ BuildEnds \/ EntersBuilt
             \/ ReadsReturn
    BY <1>6, NodeStartsStep, ConnectsStep, PreparesBuildStep, ReceivedFilesStep,
       InitializeApptainerStep, InitializePythonStep, BuildEndsStep, EntersBuiltStep,
       ReadsReturnStep
  <1>7. CASE \/ StartsPythonJob \/ StartsApptainerJob \/ JobEnds \/ JobIsCancelled
             \/ ReportsCancelled \/ ReportsResult \/ SendsResults
    BY <1>7, StartsPythonJobStep, StartsApptainerJobStep, JobEndsStep, JobIsCancelledStep,
       ReportsCancelledStep, ReportsResultStep, SendsResultsStep
  <1>8. CASE LosesConnection \/ Restarts \/ LocalEnds \/ LocalStops
    BY <1>8, LosesConnectionStep, RestartsStep, LocalEndsStep, LocalStopsStep
  <1>9. CASE UNCHANGED vars
    BY <1>9, StutterStep
  <1> QED
    BY <1>1, <1>2, <1>3, <1>4, <1>5, <1>6, <1>7, <1>8, <1>9 DEF Next

\* The invariant holds throughout.
THEOREM Invariance == Spec => []IInv
PROOF
  <1>1. Init => IInv
    BY InitIInv
  <1>2. IInv /\ [Next]_vars => IInv'
    BY NextIInv
  <1> QED
    BY <1>1, <1>2, PTL DEF Spec

\* Every variable keeps its type, and there is a job in the places that have one.
THEOREM TypeCorrect == Spec => []TypeOK
PROOF
  <1>1. IInv => TypeOK
    BY DEF IInv
  <1> QED
    BY <1>1, Invariance, PTL

\* A job starts with its own files and those of its batch in its input folder,
\* and nothing else, whatever ran, failed or was cancelled in the directory
\* before (get_execute_instructions, clean_input, run_python_job).
THEOREM InputsOfTheJob == Spec => []InputsAreOwn
PROOF
  <1>1. IInv => InputsAreOwn
    <2> SUFFICES ASSUME IInv, place = "executing" PROVE InputsAreOwn
      BY DEF InputsAreOwn
    <2>1. Cleaned("input") => HoldsInput({})
      BY DEF IInv, Inputs
    <2>2. cwd = "home" /\ (mishaps = 0 => Cleaned("input"))
      BY DEF IInv, Alone
    <2> QED
      BY <2>1, <2>2 DEF InputsAreOwn, HoldsInput, Own
  <1> QED
    BY <1>1, Invariance, PTL

\* What is sent to the server, or moved to the archive of `distribute run`, as
\* the results of a job was written by it (clean_distribute_save, send_files).
THEOREM ResultsOfTheJob == Spec => []ResultsAreOwn
PROOF
  <1>1. IInv => ResultsAreOwn
    BY DEF IInv, Saved, ResultsAreOwn
  <1> QED
    BY <1>1, Invariance, PTL

\* The folders that are mounted into a container are there, one for each mount
\* of the batch, and hold nothing of another batch (BindingFolderState).
THEOREM MountsStay == Spec => []MountsAreThere
PROOF
  <1>1. IInv => MountsAreThere
    BY DEF IInv, Mounted, MountsAreThere
  <1> QED
    BY <1>1, Invariance, PTL
=============================================================================
