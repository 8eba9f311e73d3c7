---------------------------- MODULE PauseProofs ----------------------------
(***************************************************************************)
(* Nobody is left stopped, for any number of overlapping pauses and of     *)
(* processes, whether or not their ids are used again; and a job is        *)
(* stopped whole, if they are not.  For the latter IInv follows a pause    *)
(* from what it has read of /proc to its list and to who is stopped, over  *)
(* the forks, execs and exits of the processes meanwhile.                  *)
(***************************************************************************)
EXTENDS Pause, TLAPS

\* A step of the rest of the machine.
ProcessStep(q) == Exits(q) \/ Execs(q) \/ \E by \in Pids \cup {Outside} : Begins(q, by)

\* Init has the types, and nobody is stopped in it.
LEMMA InitTyped == Init => TypeOK /\ NobodyLeftStopped
PROOF
  BY DEF Init, TypeOK, NobodyLeftStopped

\* What a pause adds to its list is the id of a process.
LEMMA ChildProcsTyped ==
  ASSUME NEW parents \in SUBSET Pids, NEW rest, DOMAIN rest \subseteq Pids
  PROVE  FindAllChildProcs(parents, rest) \in SUBSET Pids
PROOF
  BY DEF FindAllChildProcs

\* A list of processes that is forgotten has the type of an empty one.
LEMMA ForgottenTyped ==
  ASSUME TypeOK, NEW p \in Pausers, ForgetsScan(p)
  PROVE  /\ cursor' \in [Pausers -> Nat]
         /\ roots' \in [Pausers -> SUBSET Pids]
         /\ DOMAIN others' = Pausers /\ \A o \in Pausers : DOMAIN others'[o] \subseteq Pids
PROOF
  BY DEF TypeOK, ForgetsScan

\* The processes of the machine come and go without changing a list.
LEMMA ProcessesTyped ==
  ASSUME PauseAssumption, TypeOK, NEW q \in Pids, ProcessStep(q)
  PROVE  TypeOK'
PROOF
  <1>1. UNCHANGED <<phase, cursor, roots, others, procs, todo, start>>
    BY DEF ProcessStep, Exits, Execs, Begins, lists
  <1>2. /\ live' \subseteq Pids /\ job' \subseteq live' /\ stopped' \subseteq live'
        /\ last' \in Nat /\ execs' \in Nat
    <2>1. CASE Exits(q)
      BY <2>1 DEF TypeOK, Exits
    <2>2. CASE Execs(q)
      <3>1. job' \subseteq live /\ execs' = execs + 1
        BY <2>2 DEF TypeOK, Execs
      <3> QED
        BY <2>2, <3>1 DEF TypeOK, Execs
    <2>3. ASSUME NEW by \in Pids \cup {Outside}, Begins(q, by)
          PROVE  /\ live' \subseteq Pids /\ job' \subseteq live' /\ stopped' \subseteq live'
                 /\ last' \in Nat /\ execs' \in Nat
      <3>1. live' = live \cup {q} /\ stopped' = stopped /\ execs' = execs
        BY <2>3 DEF Begins
      <3>2. job' \subseteq job \cup {q}
        BY <2>3 DEF Begins
      <3>3. last' = last \/ last' = q
        BY <2>3 DEF Begins
      <3> QED
        BY <3>1, <3>2, <3>3 DEF TypeOK, PauseAssumption
    <2> QED
      BY <2>1, <2>2, <2>3 DEF ProcessStep
  <1>3. parent' \in [live' -> Pids \cup {Outside}]
    <2>1. CASE Exits(q)
      BY <2>1 DEF TypeOK, Exits
    <2>2. CASE Execs(q)
      BY <2>2 DEF TypeOK, Execs
    <2>3. ASSUME NEW by \in Pids \cup {Outside}, Begins(q, by)
          PROVE  parent' \in [live' -> Pids \cup {Outside}]
      BY <2>3 DEF TypeOK, Begins
    <2> QED
      BY <2>1, <2>2, <2>3 DEF ProcessStep
  <1>4. changed' \in [Pausers -> SUBSET Pids]
    <2>1. CASE Execs(q)
      BY <2>1 DEF TypeOK, Execs
    <2>2. CASE ~Execs(q)
      BY <2>2 DEF TypeOK, ProcessStep, Exits, Begins, lists
    <2> QED
      BY <2>1, <2>2
  <1> QED
    BY <1>1, <1>2, <1>3, <1>4 DEF TypeOK

\* A step of a pause changes no more than its own lists and who is stopped.
LEMMA PauserTyped ==
  ASSUME TypeOK, NEW p \in Pausers, PauserStep(p) \/ Closes(p)
  PROVE  TypeOK'
PROOF
  <1>1. CASE Starts(p) \/ FallsAsleep(p) \/ WakesUp(p) \/ Returns(p)
    BY <1>1 DEF TypeOK, Starts, FallsAsleep, WakesUp, Returns, ForgetsHistory, processes, lists
  <1>2. CASE Scanned(p)
    <2>1. FindAllChildProcs(roots[p], others[p]) \in SUBSET Pids
      BY ChildProcsTyped DEF TypeOK
    <2>2. /\ cursor' \in [Pausers -> Nat]
          /\ roots' \in [Pausers -> SUBSET Pids]
          /\ DOMAIN others' = Pausers /\ \A o \in Pausers : DOMAIN others'[o] \subseteq Pids
      BY <1>2, ForgottenTyped DEF Scanned
    <2> QED
      BY <1>2, <2>1, <2>2 DEF TypeOK, Scanned, processes
  <1>3. CASE Closes(p)
    <2>1. /\ cursor' \in [Pausers -> Nat]
          /\ roots' \in [Pausers -> SUBSET Pids]
          /\ DOMAIN others' = Pausers /\ \A o \in Pausers : DOMAIN others'[o] \subseteq Pids
      BY <1>3, ForgottenTyped DEF Closes
    <2> QED
      BY <1>3, <2>1 DEF TypeOK, Closes, ForgetsHistory, processes
  <1>4. ASSUME NEW q \in Pids, Scans(p, q) PROVE TypeOK'
    <2>1. roots' \in [Pausers -> SUBSET Pids]
      BY <1>4 DEF TypeOK, Scans
    <2>2. DOMAIN others' = Pausers /\ \A o \in Pausers : DOMAIN others'[o] \subseteq Pids
      <3>1. \/ UNCHANGED others
            \/ \E f : DOMAIN f = DOMAIN others[p] \cup {q} /\ others' = [others EXCEPT ![p] = f]
        BY <1>4 DEF Scans
      <3> QED
        BY <3>1 DEF TypeOK
    <2>3. cursor' \in [Pausers -> Nat]
      BY <1>4, PauseAssumption DEF TypeOK, Scans, PauseAssumption
    <2> QED
      BY <1>4, <2>1, <2>2, <2>3 DEF TypeOK, Scans, processes
  <1>5. ASSUME NEW q \in Pids, Stops(p, q) \/ Resumes(p, q) PROVE TypeOK'
    BY <1>5 DEF TypeOK, Stops, Resumes, lists
  <1> QED
    BY <1>1, <1>2, <1>3, <1>4, <1>5 DEF PauserStep

\* Every step keeps the types.
LEMMA TypesKept == TypeOK /\ [Next]_vars => TypeOK'
PROOF
  <1> SUFFICES ASSUME TypeOK, [Next]_vars PROVE TypeOK'
    OBVIOUS
  <1>1. CASE UNCHANGED vars
    BY <1>1 DEF TypeOK, vars, processes, lists
  <1>2. ASSUME NEW q \in Pids, ProcessStep(q)
        PROVE  TypeOK'
    BY <1>2, ProcessesTyped, PauseAssumption
  <1>3. ASSUME NEW p \in Pausers, PauserStep(p) \/ Closes(p) PROVE TypeOK'
    BY <1>3, PauserTyped
  <1> QED
    BY <1>1, <1>2, <1>3 DEF Next, ProcessStep

\* The variables of the pauses and of the processes have their types.
THEOREM TypeCorrect == Spec => []TypeOK
PROOF
  <1>1. Init => TypeOK
    BY InitTyped
  <1> QED
    BY <1>1, TypesKept, PTL DEF Spec

\* The promise to resume q: that of a pause at work, or that of one whose
\* terminal was closed.
Owes(p, q) == WillResume(p, q) \/ (phase[p] = "closed" /\ q \in procs[p])

\* What one pause does leaves the promises of the others as they are.
LEMMA OthersOwe ==
  ASSUME TypeOK, NEW p \in Pausers, PauserStep(p) \/ Closes(p),
         NEW o \in Pausers \ {p}, NEW q, Owes(o, q)
  PROVE  Owes(o, q)'
PROOF
  <1>1. phase'[o] = phase[o] /\ procs'[o] = procs[o] /\ todo'[o] = todo[o]
    BY DEF TypeOK, PauserStep, Starts, Scans, Scanned, FallsAsleep, WakesUp, Returns,
           Stops, Resumes, Closes, lists
  <1> QED
    BY <1>1 DEF Owes, WillResume

\* A pause that owes it to a process to resume it owes it after a step as well,
\* unless the step was to resume it.
LEMMA PauserOwes ==
  ASSUME TypeOK, NEW p \in Pausers, PauserStep(p) \/ Closes(p),
         NEW q, Owes(p, q), q \in stopped'
  PROVE  Owes(p, q)'
PROOF
  <1>1. CASE Starts(p) \/ Scanned(p) \/ Returns(p)
    BY <1>1 DEF TypeOK, Owes, WillResume, Starts, Scanned, Returns
  <1>2. CASE FallsAsleep(p) \/ WakesUp(p)
    BY <1>2 DEF TypeOK, Owes, WillResume, FallsAsleep, WakesUp, lists
  <1>3. CASE Closes(p)
    BY <1>3 DEF TypeOK, Owes, WillResume, Closes
  <1>4. ASSUME NEW r \in Pids, Scans(p, r) \/ Stops(p, r) \/ Resumes(p, r)
        PROVE  Owes(p, q)'
    BY <1>4 DEF TypeOK, Owes, WillResume, Scans, Stops, Resumes, lists
  <1> QED
    BY <1>1, <1>2, <1>3, <1>4 DEF PauserStep

\* Whoever is stopped by a step of a pause is owed it by that pause.
LEMMA StopperOwes ==
  ASSUME TypeOK, NEW p \in Pausers, PauserStep(p) \/ Closes(p),
         NEW q \in stopped', q \notin stopped
  PROVE  Owes(p, q)'
PROOF
  <1>1. PICK r \in Pids : Stops(p, r)
    BY DEF PauserStep, Starts, Scans, Scanned, FallsAsleep, WakesUp, Returns,
           Resumes, Closes, processes
  <1>2. q = r
    BY <1>1 DEF Stops
  <1> QED
    BY <1>1, <1>2 DEF TypeOK, Owes, WillResume, Stops, lists

\* A process stays stopped only as long as somebody owes it to resume it.
LEMMA PromisesKept == TypeOK /\ NobodyLeftStopped /\ [Next]_vars => NobodyLeftStopped'
PROOF
  <1> SUFFICES ASSUME TypeOK, NobodyLeftStopped, [Next]_vars, NEW q \in stopped'
               PROVE  \E p \in Pausers : Owes(p, q)'
    BY DEF NobodyLeftStopped, Owes
  <1>0. ASSUME q \in stopped PROVE \E p \in Pausers : Owes(p, q)
    BY <1>0 DEF NobodyLeftStopped, Owes
  <1>1. CASE UNCHANGED vars
    BY <1>0, <1>1 DEF vars, processes, lists, Owes, WillResume
  <1>2. ASSUME NEW r \in Pids, ProcessStep(r)
        PROVE  \E p \in Pausers : Owes(p, q)'
    <2>1. q \in stopped /\ UNCHANGED <<phase, procs, todo>>
      BY <1>2 DEF ProcessStep, Exits, Execs, Begins, lists
    <2> QED
      BY <1>0, <2>1 DEF Owes, WillResume
  <1>3. ASSUME NEW p \in Pausers, PauserStep(p) \/ Closes(p)
        PROVE  \E o \in Pausers : Owes(o, q)'
    <2>1. CASE q \notin stopped
      BY <1>3, <2>1, StopperOwes
    <2>2. CASE q \in stopped
      BY <1>0, <1>3, <2>2, PauserOwes, OthersOwe
    <2> QED
      BY <2>1, <2>2
  <1> QED
    BY <1>1, <1>2, <1>3 DEF Next, ProcessStep

\* Whatever processes and pauses there are and however their steps overlap, a
\* stopped process will be resumed, unless a terminal is closed on it
\* (pause, resume_procs).
THEOREM StoppedWillResume == Spec => []NobodyLeftStopped
PROOF
  <1>1. Init => TypeOK /\ NobodyLeftStopped
    BY InitTyped
  <1> QED
    BY <1>1, TypesKept, PromisesKept, PTL DEF Spec

-----------------------------------------------------------------------------
(* A pause stops a job whole.                                              *)

\* The single pass of find_all_child_procs: it keeps the processes that were
\* matched, and adds each that stands behind its parent or was matched itself.
\* The recursive function is there, as "in every closed set" satisfies its
\* equation.
LEMMA ChildProcsFound ==
  ASSUME NEW parents, NEW rest, DOMAIN rest \subseteq Nat
  PROVE  /\ parents \subseteq FindAllChildProcs(parents, rest)
         /\ \A q \in DOMAIN rest :
              \/ rest[q] \in parents
              \/ rest[q] \in FindAllChildProcs(parents, rest) /\ rest[q] < q
              => q \in FindAllChildProcs(parents, rest)
PROOF
  <1> DEFINE D == DOMAIN rest
             Closed(S) == \A q \in D : rest[q] \in parents \/ (rest[q] \in S /\ rest[q] < q)
                            => q \in S
             Least == {q \in D : \A S \in SUBSET D : Closed(S) => q \in S}
             Body(f, q) == \/ rest[q] \in parents
                           \/ rest[q] \in D /\ rest[q] < q /\ f[rest[q]]
             Defines(f) == f = [q \in D |-> Body(f, q)]
             found == [q \in D |-> q \in Least]
             Added == CHOOSE f : Defines(f)
  <1>1. Closed(Least)
    OBVIOUS
  <1>2. ASSUME NEW q \in Least
        PROVE  rest[q] \in parents \/ (rest[q] \in Least /\ rest[q] < q)
    <2>1. SUFFICES ASSUME ~(rest[q] \in parents \/ (rest[q] \in Least /\ rest[q] < q))
                   PROVE  FALSE
      OBVIOUS
    <2>2. Closed(Least \ {q})
      BY <1>1, <2>1
    <2>3. Least \ {q} \in SUBSET D
      OBVIOUS
    <2> QED
      BY <2>2, <2>3
  <1>3. Defines(found)
    <2>1. \A q \in D : q \in Least <=> Body(found, q)
      BY <1>1, <1>2
    <2>2. \A q \in D : (q \in Least) = Body(found, q)
      <3> SUFFICES ASSUME NEW q \in D PROVE (q \in Least) = Body(found, q)
        OBVIOUS
      <3>1. q \in Least <=> Body(found, q)
        BY <2>1
      <3>2. (q \in Least) \in BOOLEAN /\ Body(found, q) \in BOOLEAN
        OBVIOUS
      <3> HIDE DEF Least, Body
      <3> QED
        BY <3>1, <3>2
    <2> HIDE DEF Least, Body
    <2>3. [q \in D |-> q \in Least] = [q \in D |-> Body(found, q)]
      BY <2>2, Zenon
    <2> QED
      BY <2>3
  <1>4. Defines(Added)
    BY <1>3
  <1>5. FindAllChildProcs(parents, rest) = parents \cup {q \in D : Added[q]}
    BY DEF FindAllChildProcs
  <1>6. \A q \in D : Added[q] <=> Body(Added, q)
    BY <1>4
  <1> HIDE DEF Added
  <1> QED
    BY <1>5, <1>6


\* Ids grow, so that parents come before their children and nobody takes the
\* place of a process that a pause has read.
IdsGrow ==
  /\ \A q \in live : q <= last /\ parent[q] < q /\ parent[q] \in live \cup {Outside}
  /\ \A p \in Pausers : start[p] <= last

\* What p has read of q: that it is a job, which it is still unless it has had
\* an exec, or its parent, if that has not exited.
Knows(p, q) ==
  /\ q \in job \ changed[p] => q \in roots[p]
  /\ \/ q \in roots[p]
     \/ q \in DOMAIN others[p] /\ parent[q] \in {Outside, others[p][q]}

\* What a pause has read of the processes that were there when it began.
ScanKnows ==
  \A p \in Pausers :
    /\ phase[p] = "idle" => cursor[p] = 0
    /\ phase[p] \in {"idle", "scan"} =>
         \A q \in live : q <= start[p] /\ q <= cursor[p] => Knows(p, q)

\* Its list has whatever is left of the jobs of that time.
ListKnows ==
  \A p \in Pausers : phase[p] \in {"pause", "sleep"} =>
    \A q \in TreeOf(p) : q <= start[p] => q \in procs[p]

\* Another pause has let q go on.
Released(p, q) ==
  \E o \in Pausers \ {p} :
    phase[o] \in {"resume", "done", "closed"} /\ q \in procs[o] \ todo[o]

\* Who has had the signal stands still, but for what other pauses do.
ListHeld ==
  \A p \in Pausers :
    /\ phase[p] = "sleep" => todo[p] = {}
    /\ phase[p] \in {"pause", "sleep"} =>
         \A q \in live \cap (procs[p] \ todo[p]) : q <= start[p] =>
           q \in stopped \/ Released(p, q)

IInv == TypeOK /\ IdsGrow /\ ScanKnows /\ ListKnows /\ ListHeld


\* Nothing runs and nothing is read in the beginning.
LEMMA InitWhole == Init => IdsGrow /\ ScanKnows /\ ListKnows /\ ListHeld
PROOF
  BY DEF Init, IdsGrow, ScanKnows, ListKnows, ListHeld

\* A tree that holds the jobs of a pause and their children holds all of TreeOf.
LEMMA InTree ==
  ASSUME NEW p, NEW tree \in SUBSET live, JobsOf(p) \subseteq tree,
         \A r \in live : parent[r] \in tree => r \in tree
  PROVE  TreeOf(p) \subseteq tree
PROOF
  BY DEF TreeOf

\* TreeOf is such a tree, as its elements are in all of them.
LEMMA JobsAreTree ==
  ASSUME NEW p, job \subseteq live
  PROVE  /\ JobsOf(p) \subseteq TreeOf(p) /\ TreeOf(p) \subseteq live
         /\ \A r \in live : parent[r] \in TreeOf(p) => r \in TreeOf(p)
PROOF
  BY DEF TreeOf, JobsOf

\* A process that exits takes nothing but itself from what there is.
LEMMA ExitsLeaves ==
  ASSUME TypeOK, IdsGrow, NEW q \in Pids, Exits(q)
  PROVE  /\ IdsGrow'
         /\ \A r \in live' : /\ r \in live /\ parent'[r] \in {Outside, parent[r]}
                             /\ r \in stopped' <=> r \in stopped
                             /\ r \in job' <=> r \in job
         /\ UNCHANGED <<changed, start>>
         /\ \A p \in Pausers : TreeOf(p)' \subseteq TreeOf(p)
PROOF
  <1>0. Pids \subseteq Nat \ {Outside} /\ Outside = 0
    BY PauseAssumption DEF PauseAssumption, Outside
  <1>1. /\ live' = live \ {q} /\ job' = job \ {q} /\ stopped' = stopped \ {q} /\ last' = last
        /\ \A r \in live' : parent'[r] = IF parent[r] = q THEN Outside ELSE parent[r]
        /\ UNCHANGED <<changed, start>>
    BY DEF Exits, lists
  <1>2. IdsGrow'
    BY <1>0, <1>1 DEF IdsGrow, TypeOK
  <1>3. ASSUME NEW p \in Pausers PROVE TreeOf(p)' \subseteq TreeOf(p)
    <2> DEFINE tree == TreeOf(p) \ {q}
    <2>1. /\ JobsOf(p) \subseteq TreeOf(p) /\ TreeOf(p) \subseteq live
          /\ \A r \in live : parent[r] \in TreeOf(p) => r \in TreeOf(p)
      BY JobsAreTree DEF TypeOK
    <2>2. JobsOf(p)' = JobsOf(p) \ {q}
      BY <1>1 DEF JobsOf
    <2>3. tree \in SUBSET live' /\ JobsOf(p)' \subseteq tree
      BY <1>1, <2>1, <2>2
    <2>4. \A r \in live' : parent'[r] \in tree => r \in tree
      BY <1>0, <1>1, <2>1 DEF TypeOK
    <2> HIDE DEF tree
    <2>5. TreeOf(p)' \subseteq tree
      BY <2>3, <2>4 DEF TreeOf
    <2> QED
      BY <2>5 DEF tree
  <1> QED
    BY <1>1, <1>2, <1>3

\* Nor does a new one, whose id is greater than all there were.
LEMMA BeginsLeaves ==
  ASSUME TypeOK, IdsGrow, ~Wraps, NEW q \in Pids, NEW by \in Pids \cup {Outside}, Begins(q, by)
  PROVE  /\ IdsGrow'
         /\ \A r \in live' : r <= last => /\ r \in live /\ parent'[r] \in {Outside, parent[r]}
                                          /\ r \in stopped' <=> r \in stopped
                                          /\ r \in job' <=> r \in job
         /\ UNCHANGED <<changed, start>>
         /\ \A p \in Pausers : TreeOf(p)' \subseteq TreeOf(p) \cup {r \in Nat : r > last}
PROOF
  <1>0. Pids \subseteq Nat \ {Outside} /\ Outside = 0
    BY PauseAssumption DEF PauseAssumption, Outside
  <1>1. /\ q \notin live /\ q > last /\ live' = live \cup {q} /\ last' = q
        /\ stopped' = stopped /\ by \in live \cup {Outside}
        /\ \A r \in live' : parent'[r] = IF r = q THEN by ELSE parent[r]
        /\ UNCHANGED <<changed, start>>
    BY DEF Begins, lists
  <1>2. job \subseteq job' /\ job' \subseteq job \cup {q}
    BY DEF Begins
  <1>3. \A r \in live : r # q /\ r \in Nat
    BY <1>0, <1>1 DEF TypeOK
  <1>4. IdsGrow'
    <2>1. \A r \in live' : r <= last' /\ parent'[r] < r /\ parent'[r] \in live' \cup {Outside}
      <3> SUFFICES ASSUME NEW r \in live'
                   PROVE  r <= last' /\ parent'[r] < r /\ parent'[r] \in live' \cup {Outside}
        OBVIOUS
      <3>1. CASE r = q
        BY <1>0, <1>1, <3>1 DEF IdsGrow, TypeOK
      <3>2. CASE r # q
        BY <1>0, <1>1, <3>2 DEF IdsGrow, TypeOK
      <3> QED
        BY <3>1, <3>2
    <2>2. \A p \in Pausers : start'[p] <= last'
      BY <1>0, <1>1 DEF IdsGrow, TypeOK
    <2> QED
      BY <2>1, <2>2 DEF IdsGrow
  <1>5. ASSUME NEW p \in Pausers PROVE TreeOf(p)' \subseteq TreeOf(p) \cup {q}
    <2> DEFINE tree == TreeOf(p) \cup {q}
    <2>1. /\ JobsOf(p) \subseteq TreeOf(p) /\ TreeOf(p) \subseteq live
          /\ \A r \in live : parent[r] \in TreeOf(p) => r \in TreeOf(p)
      BY JobsAreTree DEF TypeOK
    <2>2. JobsOf(p)' \subseteq JobsOf(p) \cup {q}
      BY <1>1, <1>2 DEF JobsOf
    <2>3. tree \in SUBSET live' /\ JobsOf(p)' \subseteq tree
      BY <1>1, <2>1, <2>2
    <2>4. \A r \in live' : parent'[r] \in tree => r \in tree
      BY <1>0, <1>1, <2>1 DEF TypeOK, IdsGrow
    <2> HIDE DEF tree
    <2>5. TreeOf(p)' \subseteq tree
      BY <2>3, <2>4 DEF TreeOf
    <2> QED
      BY <2>5 DEF tree
  <1>6. \A r \in live' : r <= last => r \in live
    BY <1>0, <1>1 DEF TypeOK
  <1> QED
    BY <1>0, <1>1, <1>2, <1>3, <1>4, <1>5, <1>6

\* An exec makes no process a job of a pause that is at work.
LEMMA ExecsLeaves ==
  ASSUME TypeOK, IdsGrow, NEW q \in Pids, Execs(q)
  PROVE  /\ IdsGrow'
         /\ UNCHANGED <<live, parent, stopped, start>>
         /\ \A p \in Pausers : phase[p] \in {"scan", "pause", "sleep"} =>
              /\ TreeOf(p)' \subseteq TreeOf(p)
              /\ \A r \in live : r <= start[p] /\ r \in job' \ changed'[p] => r \in job \ changed[p]
PROOF
  <1>1. /\ UNCHANGED <<live, last, parent, stopped, start>>
        /\ \A r \in job' : r # q => r \in job
    BY DEF Execs
  <1>2. IdsGrow'
    BY <1>1 DEF IdsGrow
  <1>3. ASSUME NEW p \in Pausers, phase[p] \in {"scan", "pause", "sleep"}
        PROVE  /\ TreeOf(p)' \subseteq TreeOf(p)
               /\ \A r \in live : r <= start[p] /\ r \in job' \ changed'[p] => r \in job \ changed[p]
    <2>1. changed'[p] = IF q <= start[p] THEN changed[p] \cup {q} ELSE changed[p]
      BY <1>3 DEF Execs
    <2>2. \A r \in live : r <= start[p] /\ r \in job' \ changed'[p] => r \in job \ changed[p]
      BY <1>1, <2>1
    <2>3. job' \subseteq live
      BY DEF Execs, TypeOK
    <2>4. JobsOf(p)' \subseteq JobsOf(p)
      BY <1>1, <2>2, <2>3 DEF JobsOf
    <2>5. /\ JobsOf(p) \subseteq TreeOf(p) /\ TreeOf(p) \subseteq live
          /\ \A r \in live : parent[r] \in TreeOf(p) => r \in TreeOf(p)
      BY JobsAreTree DEF TypeOK
    <2>6. TreeOf(p)' \subseteq TreeOf(p)
      <3> DEFINE tree == TreeOf(p)
      <3>1. tree \in SUBSET live' /\ JobsOf(p)' \subseteq tree
        BY <1>1, <2>4, <2>5
      <3>2. \A r \in live' : parent'[r] \in tree => r \in tree
        BY <1>1, <2>5
      <3> HIDE DEF tree
      <3>3. TreeOf(p)' \subseteq tree
        BY <3>1, <3>2 DEF TreeOf
      <3> QED
        BY <3>3 DEF tree
    <2> QED
      BY <2>2, <2>6
  <1> QED
    BY <1>1, <1>2, <1>3

\* All three together, for a pause at work.
LEMMA ProcessesGrow ==
  ASSUME TypeOK, IdsGrow, ~Wraps, NEW q \in Pids, ProcessStep(q)
  PROVE  /\ IdsGrow'
         /\ \A r \in live' : r <= last => /\ r \in live /\ parent'[r] \in {Outside, parent[r]}
                                          /\ r \in stopped' <=> r \in stopped
         /\ \A p \in Pausers : phase[p] \in {"scan", "pause", "sleep"} =>
              /\ TreeOf(p)' \subseteq TreeOf(p) \cup {r \in Nat : r > last}
              /\ \A r \in live' : r <= start[p] /\ r \in job' \ changed'[p] => r \in job \ changed[p]
         /\ UNCHANGED <<phase, cursor, roots, others, procs, todo, start>>
PROOF
  <1>1. UNCHANGED <<phase, cursor, roots, others, procs, todo, start>>
    BY DEF ProcessStep, Exits, Execs, Begins, lists
  <1>2. \A p \in Pausers : start[p] <= last /\ start[p] \in Nat /\ last \in Nat
    BY DEF IdsGrow, TypeOK
  <1>3. live' \subseteq Nat
    BY ProcessesTyped, PauseAssumption DEF TypeOK, PauseAssumption
  <1>4. CASE Exits(q)
    BY <1>1, <1>4, ExitsLeaves
  <1>5. CASE Execs(q)
    BY <1>1, <1>5, ExecsLeaves
  <1>6. ASSUME NEW by \in Pids \cup {Outside}, Begins(q, by)
        PROVE  /\ IdsGrow'
               /\ \A r \in live' : r <= last => /\ r \in live /\ parent'[r] \in {Outside, parent[r]}
                                                /\ r \in stopped' <=> r \in stopped
               /\ \A p \in Pausers :
                    /\ TreeOf(p)' \subseteq TreeOf(p) \cup {r \in Nat : r > last}
                    /\ \A r \in live' : r <= start[p] /\ r \in job' \ changed'[p]
                                          => r \in job \ changed[p]
    <2>1. /\ IdsGrow'
          /\ \A r \in live' : r <= last => /\ r \in live /\ parent'[r] \in {Outside, parent[r]}
                                           /\ r \in stopped' <=> r \in stopped
                                           /\ r \in job' <=> r \in job
          /\ changed' = changed
          /\ \A p \in Pausers : TreeOf(p)' \subseteq TreeOf(p) \cup {r \in Nat : r > last}
      BY <1>6, BeginsLeaves
    <2>2. \A p \in Pausers : \A r \in live' : r <= start[p] => r <= last
      BY <1>2, <1>3
    <2> QED
      BY <2>1, <2>2
  <1> QED
    BY <1>1, <1>4, <1>5, <1>6 DEF ProcessStep

\* Processes that come and go take nothing from what the pauses know.
LEMMA ProcessesWhole ==
  ASSUME IInv, ~Wraps, NEW q \in Pids, ProcessStep(q)
  PROVE  IdsGrow' /\ ScanKnows' /\ ListKnows' /\ ListHeld'
PROOF
  <1>1. /\ IdsGrow'
        /\ \A r \in live' : r <= last => /\ r \in live /\ parent'[r] \in {Outside, parent[r]}
                                         /\ r \in stopped' <=> r \in stopped
        /\ \A p \in Pausers : phase[p] \in {"scan", "pause", "sleep"} =>
             /\ TreeOf(p)' \subseteq TreeOf(p) \cup {r \in Nat : r > last}
             /\ \A r \in live' : r <= start[p] /\ r \in job' \ changed'[p] => r \in job \ changed[p]
        /\ UNCHANGED <<phase, cursor, roots, others, procs, todo, start>>
    BY ProcessesGrow DEF IInv
  <1>2. \A p \in Pausers : start[p] <= last /\ start[p] \in Nat /\ last \in Nat
    BY DEF IInv, IdsGrow, TypeOK
  <1>3. live' \subseteq Nat \ {0}
    BY ProcessesTyped, PauseAssumption DEF IInv, TypeOK, PauseAssumption, Outside
  <1>4. \A p \in Pausers, r \in Nat : r <= start[p] => r <= last /\ ~(r > last)
    BY <1>2
  <1>5. ScanKnows'
    <2> SUFFICES ASSUME NEW p \in Pausers
                 PROVE  /\ phase'[p] = "idle" => cursor'[p] = 0
                        /\ phase'[p] \in {"idle", "scan"} =>
                             \A r \in live' : r <= start'[p] /\ r <= cursor'[p] => Knows(p, r)'
      BY DEF ScanKnows
    <2>1. phase[p] = "idle" => cursor'[p] = 0
      BY <1>1 DEF IInv, ScanKnows
    <2>2. ASSUME phase[p] = "scan", NEW r \in live', r <= start[p], r <= cursor[p]
          PROVE  Knows(p, r)'
      <3>1. r \in live /\ parent'[r] \in {Outside, parent[r]}
        BY <1>1, <1>3, <1>4, <2>2
      <3>2. r \in job' \ changed'[p] => r \in job \ changed[p]
        BY <1>1, <2>2
      <3>3. Knows(p, r)
        BY <2>2, <3>1 DEF IInv, ScanKnows
      <3>4. roots' = roots /\ others' = others
        BY <1>1
      <3> QED
        BY <3>1, <3>2, <3>3, <3>4 DEF Knows
    <2>3. ASSUME phase[p] = "idle", NEW r \in live', r <= cursor[p] PROVE FALSE
      <3>1. cursor[p] = 0 /\ r \in Nat /\ r # 0
        BY <1>3, <2>3 DEF IInv, ScanKnows
      <3> QED
        BY <2>3, <3>1
    <2>4. phase' = phase /\ cursor' = cursor /\ start' = start
      BY <1>1
    <2> QED
      BY <2>1, <2>2, <2>3, <2>4
  <1>6. ListKnows'
    <2>1. \A p \in Pausers : TreeOf(p)' \subseteq live'
      BY DEF TreeOf
    <2> QED
      BY <1>1, <1>3, <1>4, <2>1 DEF IInv, ListKnows
  <1>7. ListHeld'
    <2>1. \A p \in Pausers : \A r : Released(p, r) => Released(p, r)'
      BY <1>1 DEF Released
    <2> QED
      BY <1>1, <1>3, <1>4, <2>1 DEF IInv, ListHeld
  <1> QED
    BY <1>1, <1>5, <1>6, <1>7


\* A pause that reads the next entry of /proc misses none that is still there.
LEMMA ScansKnows ==
  ASSUME IInv, NEW p \in Pausers, NEW q \in Pids, Scans(p, q)
  PROVE  ScanKnows'
PROOF
  <1>1. /\ phase[p] = "scan" /\ q \in live /\ UNCHANGED <<processes, phase, start, changed>>
        /\ \A r \in live : r > cursor[p] => r >= q
        /\ cursor' = [cursor EXCEPT ![p] = q]
    BY DEF Scans
  <1>2. /\ q \in job => roots' = [roots EXCEPT ![p] = @ \cup {q}] /\ others' = others
        /\ q \notin job =>
             /\ roots' = roots
             /\ others' = [others EXCEPT ![p] =
                  [r \in DOMAIN @ \cup {q} |-> IF r = q THEN parent[q] ELSE @[r]]]
    BY DEF Scans
  <1>3. live \subseteq Nat /\ cursor[p] \in Nat
    BY PauseAssumption DEF IInv, TypeOK, PauseAssumption
  <1>4. ASSUME NEW o \in Pausers, o # p
        PROVE  roots'[o] = roots[o] /\ others'[o] = others[o] /\ cursor'[o] = cursor[o]
    BY <1>1, <1>2, <1>4 DEF IInv, TypeOK
  <1>5. ASSUME NEW r \in live, r <= q, r <= start[p]
        PROVE  Knows(p, r)'
    <2>1. UNCHANGED <<job, parent, changed>>
      BY <1>1 DEF processes
    <2>2. CASE r = q
      <3>1. CASE q \in job
        BY <1>2, <2>1, <2>2, <3>1 DEF IInv, TypeOK, Knows
      <3>2. CASE q \notin job
        BY <1>2, <2>1, <2>2, <3>2 DEF IInv, TypeOK, Knows
      <3> QED
        BY <3>1, <3>2
    <2>3. CASE r # q
      <3>1. r <= cursor[p]
        BY <1>1, <1>3, <1>5, <2>3
      <3>2. Knows(p, r)
        BY <1>1, <1>5, <3>1 DEF IInv, ScanKnows
      <3>3. CASE q \in job
        BY <1>2, <2>1, <2>3, <3>2, <3>3 DEF IInv, TypeOK, Knows
      <3>4. CASE q \notin job
        BY <1>2, <2>1, <2>3, <3>2, <3>4 DEF IInv, TypeOK, Knows
      <3> QED
        BY <3>3, <3>4
    <2> QED
      BY <2>2, <2>3
  <1>6. cursor'[p] = q
    BY <1>1 DEF IInv, TypeOK
  <1>7. ASSUME NEW o \in Pausers
        PROVE  /\ phase[o] = "idle" => cursor'[o] = 0
               /\ phase[o] \in {"idle", "scan"} =>
                    \A r \in live : r <= start[o] /\ r <= cursor'[o] => Knows(o, r)'
    <2>1. CASE o = p
      BY <1>1, <1>5, <1>6, <2>1
    <2>2. CASE o # p
      <3>1. UNCHANGED <<job, parent, changed>>
        BY <1>1 DEF processes
      <3> QED
        BY <1>4, <2>2, <3>1 DEF IInv, ScanKnows, Knows
    <2> QED
      BY <2>1, <2>2
  <1> QED
    BY <1>1, <1>7 DEF ScanKnows, processes

\* When a pause has read all of /proc, its list has the jobs whole.
LEMMA ScannedKnows ==
  ASSUME IInv, NEW p \in Pausers, Scanned(p)
  PROVE  \A q \in TreeOf(p) : q <= start[p] => q \in procs'[p]
PROOF
  <1> DEFINE found == FindAllChildProcs(roots[p], others[p])
             tree == {q \in live : q <= start[p] => q \in found}
  <1>1. procs'[p] = found /\ phase[p] = "scan" /\ \A r \in live : r <= cursor[p]
    BY DEF Scanned, IInv, TypeOK
  <1>2. Pids \subseteq Nat \ {Outside}
    BY PauseAssumption DEF PauseAssumption
  <1>3. /\ roots[p] \subseteq found
        /\ \A q \in DOMAIN others[p] :
             (others[p][q] \in found /\ others[p][q] < q) => q \in found
    <2>1. DOMAIN others[p] \subseteq Nat
      BY <1>2 DEF IInv, TypeOK
    <2> QED
      BY <2>1, ChildProcsFound
  <1>4. \A q \in live : q <= start[p] => Knows(p, q)
    BY <1>1 DEF IInv, ScanKnows
  <1>5. JobsOf(p) \subseteq tree
    BY <1>3, <1>4 DEF IInv, TypeOK, JobsOf, Knows
  <1>6. ASSUME NEW r \in live, parent[r] \in tree PROVE r \in tree
    <2> SUFFICES ASSUME r <= start[p] PROVE r \in found
      OBVIOUS
    <2>1. parent[r] \in live /\ (parent[r] <= start[p] => parent[r] \in found)
      BY <1>6
    <2>2. live \subseteq Pids /\ parent[r] < r /\ start[p] \in Nat
      BY DEF IInv, IdsGrow, TypeOK
    <2>3. parent[r] \in Nat \ {Outside} /\ r \in Nat
      BY <1>2, <2>1, <2>2
    <2>4. parent[r] \in found
      BY <2>1, <2>2, <2>3
    <2> QED
      BY <1>3, <1>4, <2>2, <2>3, <2>4 DEF Knows
  <1> HIDE DEF tree
  <1>7. TreeOf(p) \subseteq tree
    BY <1>5, <1>6, InTree DEF tree
  <1> QED
    BY <1>1, <1>7 DEF tree

\* What a step of one pause leaves to the others.
LEMMA OthersKept ==
  ASSUME TypeOK, NEW p \in Pausers, PauserStep(p) \/ Closes(p), NEW o \in Pausers, o # p
  PROVE  /\ phase'[o] = phase[o] /\ cursor'[o] = cursor[o] /\ roots'[o] = roots[o]
         /\ others'[o] = others[o] /\ procs'[o] = procs[o] /\ todo'[o] = todo[o]
         /\ start'[o] = start[o] /\ changed'[o] = changed[o]
PROOF
  <1>1. CASE Starts(p) \/ FallsAsleep(p) \/ WakesUp(p) \/ Returns(p) \/ Scanned(p) \/ Closes(p)
    BY <1>1 DEF TypeOK, Starts, FallsAsleep, WakesUp, Returns, Scanned, Closes, ForgetsScan,
       ForgetsHistory, processes, lists
  <1>2. ASSUME NEW q \in Pids, Scans(p, q) PROVE others'[o] = others[o]
    BY <1>2 DEF TypeOK, Scans
  <1>3. ASSUME NEW q \in Pids, Scans(p, q) \/ Stops(p, q) \/ Resumes(p, q)
        PROVE  /\ phase'[o] = phase[o] /\ cursor'[o] = cursor[o] /\ roots'[o] = roots[o]
               /\ others'[o] = others[o] /\ procs'[o] = procs[o] /\ todo'[o] = todo[o]
               /\ start'[o] = start[o] /\ changed'[o] = changed[o]
    BY <1>2, <1>3 DEF TypeOK, Scans, Stops, Resumes, lists
  <1> QED
    BY <1>1, <1>3 DEF PauserStep

\* A process that another pause has let go on counts as such from then on.
LEMMA StaysReleased ==
  ASSUME TypeOK, NEW p \in Pausers, PauserStep(p) \/ Closes(p),
         NEW o \in Pausers, NEW q, Released(o, q)
  PROVE  Released(o, q)'
PROOF
  <1>1. PICK r \in Pausers \ {o} :
          phase[r] \in {"resume", "done", "closed"} /\ q \in procs[r] \ todo[r]
    BY DEF Released
  <1>2. phase'[r] \in {"resume", "done", "closed"} /\ q \in procs'[r] \ todo'[r]
    <2>1. CASE r # p
      BY <1>1, <2>1, OthersKept
    <2>2. CASE r = p
      <3>1. ASSUME NEW s \in Pids, Scans(p, s) \/ Stops(p, s) \/ Resumes(p, s)
            PROVE  phase'[p] = phase[p] /\ procs'[p] = procs[p] /\ todo'[p] \subseteq todo[p]
        BY <1>1, <2>2, <3>1 DEF TypeOK, Scans, Stops, Resumes, lists
      <3>2. CASE Returns(p) \/ Closes(p)
        BY <1>1, <2>2, <3>2 DEF TypeOK, Returns, Closes, lists
      <3>3. ~Starts(p) /\ ~FallsAsleep(p) /\ ~WakesUp(p) /\ ~Scanned(p)
        BY <1>1, <2>2 DEF Starts, FallsAsleep, WakesUp, Scanned
      <3> QED
        BY <1>1, <2>2, <3>1, <3>2, <3>3 DEF PauserStep
    <2> QED
      BY <2>1, <2>2
  <1> QED
    BY <1>1, <1>2 DEF Released

\* A pause changes nothing of the processes but who is stopped.
LEMMA PauserLeaves ==
  ASSUME NEW p \in Pausers, PauserStep(p) \/ Closes(p)
  PROVE  UNCHANGED <<live, last, parent, job>>
PROOF
  BY DEF PauserStep, Starts, FallsAsleep, WakesUp, Returns, Scanned, Closes, Scans, Stops,
     Resumes, processes

\* Nor who is in the tree of jobs of a pause whose history goes on.
LEMMA TreeLeft ==
  ASSUME NEW p, UNCHANGED <<live, parent, job>>,
         changed'[p] = changed[p], start'[p] = start[p]
  PROVE  TreeOf(p)' = TreeOf(p)
PROOF
  <1>1. JobsOf(p)' = JobsOf(p)
    BY DEF JobsOf
  <1> QED
    BY <1>1 DEF TreeOf

\* Who is stopped stays so, unless a pause that resumes lets it go on.
LEMMA StaysStopped ==
  ASSUME TypeOK, NEW p \in Pausers, PauserStep(p) \/ Closes(p),
         NEW q \in stopped, q \notin stopped'
  PROVE  phase[p] = "resume" /\ phase'[p] = "resume" /\ q \in procs'[p] \ todo'[p]
PROOF
  <1>1. PICK r \in Pids : Resumes(p, r)
    BY DEF PauserStep, Starts, FallsAsleep, WakesUp, Returns, Scanned, Closes, Scans, Stops,
       processes
  <1> QED
    BY <1>1 DEF TypeOK, Resumes, lists


\* A step of a pause keeps what is known of the processes that it reads.
LEMMA PauserScan ==
  ASSUME IInv, NEW p \in Pausers, PauserStep(p) \/ Closes(p)
  PROVE  IdsGrow' /\ ScanKnows'
PROOF
  <1>1. UNCHANGED <<live, last, parent, job>>
    BY PauserLeaves
  <1>2. /\ start'[p] \in {start[p], last, 0}
        /\ phase'[p] \in {"idle", "scan"} =>
             /\ cursor'[p] = cursor[p] /\ roots'[p] = roots[p] /\ others'[p] = others[p]
             /\ changed'[p] = changed[p]
             /\ phase'[p] = "scan" /\ (phase[p] = "scan" => start'[p] = start[p])
             /\ phase[p] \in {"idle", "scan"}
        \/ \E q \in Pids : Scans(p, q)
    <2>1. CASE Starts(p) \/ Returns(p) \/ FallsAsleep(p)
      BY <2>1 DEF IInv, TypeOK, Starts, Returns, FallsAsleep, lists
    <2>2. CASE WakesUp(p) \/ Scanned(p) \/ Closes(p)
      BY <2>2 DEF IInv, TypeOK, WakesUp, Scanned, Closes, ForgetsScan, ForgetsHistory
    <2>3. ASSUME NEW q \in Pids, Stops(p, q) \/ Resumes(p, q)
          PROVE  start'[p] = start[p] /\ phase'[p] \notin {"idle", "scan"}
      BY <2>3 DEF IInv, TypeOK, Stops, Resumes, lists
    <2> QED
      BY <2>1, <2>2, <2>3 DEF PauserStep
  <1>3. IdsGrow'
    <2>1. start'[p] \in {start[p], last, 0}
      BY <1>2 DEF Scans
    <2>2. last \in Nat
      BY DEF IInv, TypeOK
    <2>3. \A o \in Pausers : start'[o] <= last
      BY <2>1, <2>2, OthersKept DEF IInv, IdsGrow
    <2> QED
      BY <1>1, <2>3 DEF IInv, IdsGrow
  <1>4. ScanKnows'
    <2>1. CASE \E q \in Pids : Scans(p, q)
      BY <2>1, ScansKnows
    <2>2. ASSUME ~\E q \in Pids : Scans(p, q), NEW o \in Pausers
          PROVE  /\ phase'[o] = "idle" => cursor'[o] = 0
                 /\ phase'[o] \in {"idle", "scan"} =>
                      \A r \in live : r <= start'[o] /\ r <= cursor'[o] => Knows(o, r)'
      <3>1. CASE o # p
        BY <1>1, <3>1, OthersKept DEF IInv, ScanKnows, Knows
      <3>2. CASE o = p /\ phase[p] = "scan"
        BY <1>1, <1>2, <2>2, <3>2 DEF IInv, ScanKnows, Knows
      <3>3. CASE o = p /\ phase[p] = "idle"
        <4>1. cursor[p] = 0 /\ \A r \in live : r \in Nat /\ r # 0
          BY <3>3, PauseAssumption DEF IInv, ScanKnows, TypeOK, PauseAssumption, Outside
        <4> QED
          BY <1>2, <2>2, <3>3, <4>1
      <3>4. CASE o = p /\ phase[p] \notin {"idle", "scan"}
        BY <1>2, <2>2, <3>4
      <3> QED
        BY <3>1, <3>2, <3>3, <3>4
    <2> QED
      BY <1>1, <2>1, <2>2 DEF ScanKnows
  <1> QED
    BY <1>3, <1>4

\* Nor does it lose a process from a list or from those held by one.
LEMMA PauserLists ==
  ASSUME IInv, NEW p \in Pausers, PauserStep(p) \/ Closes(p)
  PROVE  ListKnows' /\ ListHeld'
PROOF
  <1>1. UNCHANGED <<live, last, parent, job>>
    BY PauserLeaves
  <1>0. ASSUME NEW o \in Pausers, o # p PROVE TreeOf(o)' = TreeOf(o)
    BY <1>0, <1>1, OthersKept, TreeLeft DEF IInv
  <1>2. CASE Scanned(p)
    <2>1. \A q \in TreeOf(p) : q <= start[p] => q \in procs'[p]
      BY <1>2, ScannedKnows
    <2>2. /\ phase'[p] = "pause" /\ todo'[p] = procs'[p]
          /\ start'[p] = start[p] /\ changed'[p] = changed[p]
      BY <1>2 DEF IInv, TypeOK, Scanned
    <2>6. TreeOf(p)' = TreeOf(p)
      BY <1>1, <2>2, TreeLeft
    <2>3. ListKnows'
      BY <1>0, <2>1, <2>2, <2>6, OthersKept DEF IInv, ListKnows
    <2>4. UNCHANGED stopped
      BY <1>2 DEF Scanned, processes
    <2>5. ListHeld'
      BY <1>1, <2>2, <2>4, OthersKept, StaysReleased DEF IInv, ListHeld
    <2> QED
      BY <2>3, <2>5
  <1>3. CASE ~Scanned(p)
    <2>1. /\ procs'[p] = procs[p]
          /\ phase'[p] \in {"pause", "sleep"} =>
               /\ phase[p] \in {"pause", "sleep"}
               /\ start'[p] = start[p] /\ changed'[p] = changed[p]
               /\ \/ todo'[p] = todo[p]
                  \/ \E q \in Pids : Stops(p, q) /\ todo'[p] = todo[p] \ {q}
               /\ phase'[p] = "sleep" => todo'[p] = {}
      <3>1. CASE Starts(p) \/ Returns(p) \/ Closes(p)
        BY <3>1 DEF IInv, TypeOK, Starts, Returns, Closes, lists
      <3>2. CASE FallsAsleep(p) \/ WakesUp(p)
        BY <3>2 DEF IInv, TypeOK, ListHeld, FallsAsleep, WakesUp, lists
      <3>3. ASSUME NEW q \in Pids, Scans(p, q) \/ Resumes(p, q)
            PROVE  procs'[p] = procs[p] /\ phase'[p] \notin {"pause", "sleep"}
        BY <3>3 DEF IInv, TypeOK, Scans, Resumes, lists
      <3>4. ASSUME NEW q \in Pids, Stops(p, q)
            PROVE  /\ procs'[p] = procs[p] /\ phase'[p] = "pause" /\ phase[p] = "pause"
                   /\ start'[p] = start[p] /\ changed'[p] = changed[p]
                   /\ todo'[p] = todo[p] \ {q}
        BY <3>4 DEF IInv, TypeOK, Stops, lists
      <3> QED
        BY <1>3, <3>1, <3>2, <3>3, <3>4 DEF PauserStep
    <2>2. ListKnows'
      <3>1. phase'[p] \in {"pause", "sleep"} => TreeOf(p)' = TreeOf(p)
        BY <1>1, <2>1, TreeLeft
      <3> QED
        BY <1>0, <2>1, <3>1, OthersKept DEF IInv, ListKnows
    <2>3. ASSUME NEW o \in Pausers, phase'[o] \in {"pause", "sleep"},
                 NEW q \in live \cap (procs'[o] \ todo'[o]), q <= start'[o]
          PROVE  q \in stopped' \/ Released(o, q)'
      <3>1. CASE q \in stopped
        <4>1. SUFFICES ASSUME q \notin stopped' PROVE Released(o, q)'
          OBVIOUS
        <4>2. phase'[p] = "resume" /\ q \in procs'[p] \ todo'[p]
          BY <3>1, <4>1, StaysStopped DEF IInv
        <4> QED
          BY <2>3, <4>2 DEF Released
      <3>2. CASE q \notin stopped /\ o # p
        BY <2>3, <3>2, OthersKept, StaysReleased DEF IInv, ListHeld
      <3>3. CASE q \notin stopped /\ o = p
        <4>1. CASE q \in todo[p]
          <5>1. Stops(p, q)
            BY <2>1, <2>3, <3>3, <4>1
          <5> QED
            BY <5>1 DEF Stops
        <4>2. CASE q \notin todo[p]
          BY <2>1, <2>3, <3>3, <4>2, StaysReleased DEF IInv, ListHeld
        <4> QED
          BY <4>1, <4>2
      <3> QED
        BY <3>1, <3>2, <3>3
    <2>4. \A o \in Pausers : phase'[o] = "sleep" => todo'[o] = {}
      BY <2>1, OthersKept DEF IInv, ListHeld
    <2> QED
      BY <1>1, <2>2, <2>3, <2>4 DEF ListHeld
  <1> QED
    BY <1>2, <1>3

\* Every step keeps all of it, as long as ids are not used again.
LEMMA WholeKept == ~Wraps /\ IInv /\ [Next]_vars => IInv'
PROOF
  <1> SUFFICES ASSUME ~Wraps, IInv, [Next]_vars PROVE IInv'
    OBVIOUS
  <1>1. TypeOK'
    BY TypesKept DEF IInv
  <1>2. CASE UNCHANGED vars
    <2>1. \A p : JobsOf(p)' = JobsOf(p)
      BY <1>2 DEF JobsOf, vars, processes, lists
    <2>2. \A p : TreeOf(p)' = TreeOf(p)
      BY <1>2, <2>1 DEF TreeOf, vars, processes
    <2>3. ListKnows'
      BY <1>2, <2>2 DEF IInv, ListKnows, vars, lists
    <2> QED
      BY <1>1, <1>2, <2>3 DEF IInv, IdsGrow, ScanKnows, Knows, ListHeld, Released, vars,
         processes, lists
  <1>3. ASSUME NEW q \in Pids, ProcessStep(q) PROVE IInv'
    BY <1>1, <1>3, ProcessesWhole DEF IInv
  <1>4. ASSUME NEW p \in Pausers, PauserStep(p) \/ Closes(p) PROVE IInv'
    BY <1>1, <1>4, PauserScan, PauserLists DEF IInv
  <1> QED
    BY <1>2, <1>3, <1>4 DEF Next, ProcessStep

\* However processes fork, exec and exit while a pause looks for jobs and stops
\* them, while it sleeps the jobs that ran when it began stand still with all
\* their descendants of that time, unless another pause has let them go on
\* (find_all_child_procs, pause_procs), if process ids are not used again
\* meanwhile.  A process that was yet to have its exec into a job is not one.
THEOREM JobsStandStill == ~Wraps => (Spec => []PausedWhole)
PROOF
  <1> SUFFICES ASSUME ~Wraps PROVE Spec => []PausedWhole
    OBVIOUS
  <1>1. Init => IInv
    BY InitTyped, InitWhole DEF IInv
  <1>2. IInv /\ [Next]_vars => IInv'
    BY WholeKept
  <1>3. IInv => PausedWhole
    <2> SUFFICES ASSUME IInv, NEW p \in Pausers, phase[p] = "sleep",
                        NEW q \in TreeOf(p), q <= start[p]
                 PROVE  q \in stopped \/ Released(p, q)
      BY DEF PausedWhole, Released
    <2>1. q \in live /\ q \in procs[p] /\ todo[p] = {}
      BY DEF IInv, ListKnows, ListHeld, TreeOf
    <2> QED
      BY <2>1 DEF IInv, ListHeld
  <1> QED
    BY <1>1, <1>2, <1>3, PTL DEF Spec

=============================================================================
