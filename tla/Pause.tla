------------------------------- MODULE Pause -------------------------------
(***************************************************************************)
(* `distribute pause` (pause/mod.rs, pause/unix.rs): it looks through      *)
(* /proc for the processes of jobs, stops them, sleeps and lets them go    *)
(* on.  The jobs fork, exec and exit meanwhile, several pauses may overlap, *)
(* and a pause whose terminal is closed never resumes anything.            *)
(***************************************************************************)
EXTENDS Naturals

CONSTANTS
  Pausers,   \* invocations of the command
  Pids,      \* process ids, and so a bound on the processes there are
  MaxExecs,  \* bound on the changes of command lines
  Wraps,     \* whether the ids of processes that are gone are used again
  MayClose   \* whether the terminal of a pause may be closed

\* The parent of a process that the rest of the machine has started, such as
\* the compute node, or that has outlived its parent.
Outside == 0

ASSUME PauseAssumption ==
  /\ Pids \subseteq Nat \ {Outside} /\ MaxExecs \in Nat
  /\ Wraps \in BOOLEAN /\ MayClose \in BOOLEAN

VARIABLES
  live,      \* the processes there are
  last,      \* the highest id given to one so far
  parent,    \* the parent of each of them
  execs,     \* how often a command line has changed so far
  job,       \* those whose command line has one of the three patterns of a job
  stopped,   \* those that a SIGSTOP holds
  phase,     \* of each pause: idle, scan, pause, sleep, resume, done, closed
  cursor,    \* the entry of /proc it has read last
  roots,     \* parent_procs while it scans
  others,    \* other_procs: the parent each was read with
  procs,     \* the processes it pauses
  todo,      \* those it still has to send the signal of its phase
  start,     \* history, until it wakes up: the highest id in use when it began
  changed    \* history, as long: those of that time that have had an exec since

processes == <<live, last, parent, execs, job, stopped>>
lists == <<cursor, roots, others, procs, start, changed>>
vars == <<processes, phase, lists, todo>>

Init ==
  /\ live = {} /\ last = 0 /\ parent = << >>
  /\ execs = 0 /\ job = {} /\ stopped = {}
  /\ phase  = [p \in Pausers |-> "idle"]
  /\ cursor = [p \in Pausers |-> 0]
  /\ roots  = [p \in Pausers |-> {}]
  /\ others = [p \in Pausers |-> << >>]
  /\ procs  = [p \in Pausers |-> {}]
  /\ todo   = [p \in Pausers |-> {}]
  /\ start  = [p \in Pausers |-> 0]
  /\ changed = [p \in Pausers |-> {}]

-----------------------------------------------------------------------------
(* The processes of the machine. *)

\* The fork of a process that is not stopped, or of one of the rest of the
\* machine, such as the node: the child bears the command line of its parent.
Begins(q, by) ==
  /\ q \in Pids \ live /\ (Wraps \/ q > last)
  /\ by \in (live \ stopped) \cup {Outside}
  /\ live' = live \cup {q}
  /\ last' = IF q > last THEN q ELSE last
  /\ parent' = [r \in live' |-> IF r = q THEN by ELSE parent[r]]
  /\ job' = job \cup (IF by \in job THEN {q} ELSE {})
  /\ UNCHANGED <<execs, stopped, phase, lists, todo>>

\* An exec gives it another one.  It becomes that of a job (the node starts one,
\* apptainer its container, a script another) or is one no more.
Execs(q) ==
  /\ q \in live \ stopped /\ execs < MaxExecs
  /\ execs' = execs + 1
  /\ job' = IF q \in job THEN job \ {q} ELSE job \cup {q}
  /\ changed' = [p \in Pausers |->
       IF phase[p] \in {"scan", "pause", "sleep"} /\ q <= start[p]
       THEN changed[p] \cup {q} ELSE changed[p]]
  /\ UNCHANGED <<live, last, parent, stopped, phase, cursor, roots, others, procs, start, todo>>

\* A process exits or is killed; its children are orphaned.
Exits(q) ==
  /\ q \in live
  /\ live' = live \ {q}
  /\ parent' = [r \in live \ {q} |-> IF parent[r] = q THEN Outside ELSE parent[r]]
  /\ job' = job \ {q} /\ stopped' = stopped \ {q}
  /\ UNCHANGED <<last, execs, phase, lists, todo>>

-----------------------------------------------------------------------------
(* The command. *)

Starts(p) ==
  /\ phase[p] = "idle"
  /\ phase' = [phase EXCEPT ![p] = "scan"]
  /\ start' = [start EXCEPT ![p] = last]
  /\ UNCHANGED <<processes, cursor, roots, others, procs, changed, todo>>

\* scan_proc reads the next entry of /proc, whose entries are in the order of
\* the ids.  A process that has gone in between is passed over.
Scans(p, q) ==
  /\ phase[p] = "scan"
  /\ q \in live /\ q > cursor[p] /\ \A r \in live : r > cursor[p] => r >= q
  /\ cursor' = [cursor EXCEPT ![p] = q]
  /\ IF q \in job
     THEN roots' = [roots EXCEPT ![p] = @ \cup {q}] /\ UNCHANGED others
     ELSE /\ others' = [others EXCEPT ![p] =
               [r \in DOMAIN @ \cup {q} |-> IF r = q THEN parent[q] ELSE @[r]]]
          /\ UNCHANGED roots
  /\ UNCHANGED <<processes, phase, procs, todo, start, changed>>

\* What was read from /proc is moved into the list of processes to pause.
ForgetsScan(p) ==
  /\ cursor' = [cursor EXCEPT ![p] = 0]
  /\ roots' = [roots EXCEPT ![p] = {}]
  /\ others' = [others EXCEPT ![p] = << >>]

\* The history ends with the sleep.
ForgetsHistory(p) ==
  start' = [start EXCEPT ![p] = 0] /\ changed' = [changed EXCEPT ![p] = {}]

\* Mutant: only the children of the processes that scan_proc has matched.
FindAllChildProcs_NoGrandchildren(parents, rest) ==
  parents \cup {q \in DOMAIN rest : rest[q] \in parents}

\* find_all_child_procs goes once through the others, in their order, and adds
\* each whose parent is on the list by then.
FindAllChildProcs(parents, rest) ==
  LET Added[q \in DOMAIN rest] ==
        \/ rest[q] \in parents
        \/ /\ rest[q] \in DOMAIN rest /\ rest[q] < q
           /\ Added[rest[q]]
  IN  parents \cup {q \in DOMAIN rest : Added[q]}

Scanned(p) ==
  /\ phase[p] = "scan" /\ \A r \in live : r <= cursor[p]
  /\ procs' = [procs EXCEPT ![p] = FindAllChildProcs(roots[p], others[p])]
  /\ todo' = [todo EXCEPT ![p] = procs'[p]]
  /\ phase' = [phase EXCEPT ![p] = "pause"]
  /\ ForgetsScan(p)
  /\ UNCHANGED <<processes, start, changed>>

\* pause_procs sends the signal to one process after the other, here in any
\* order.  An error is only printed.
Stops(p, q) ==
  /\ phase[p] = "pause" /\ q \in todo[p]
  /\ todo' = [todo EXCEPT ![p] = @ \ {q}]
  /\ stopped' = stopped \cup ({q} \cap live)
  /\ UNCHANGED <<live, last, parent, execs, job, phase, lists>>

FallsAsleep(p) ==
  /\ phase[p] = "pause" /\ todo[p] = {}
  /\ phase' = [phase EXCEPT ![p] = "sleep"]
  /\ UNCHANGED <<processes, lists, todo>>

\* The duration has passed, or Ctrl-C has set the flag, now or at any time
\* since the command began: either way sleep_to_instant returns.
WakesUp(p) ==
  /\ phase[p] = "sleep"
  /\ phase' = [phase EXCEPT ![p] = "resume"]
  /\ todo' = [todo EXCEPT ![p] = procs[p]]
  /\ ForgetsHistory(p)
  /\ UNCHANGED <<processes, cursor, roots, others, procs>>

\* Mutant: the first process that has exited ends the command with an error.
Resumes_GivesUp(p, q) ==
  /\ phase[p] = "resume" /\ q \in todo[p]
  /\ todo' = [todo EXCEPT ![p] = @ \ {q}]
  /\ stopped' = stopped \ {q}
  /\ phase' = IF q \in live THEN phase ELSE [phase EXCEPT ![p] = "done"]
  /\ UNCHANGED <<live, last, parent, execs, job, lists>>

Resumes(p, q) ==
  /\ phase[p] = "resume" /\ q \in todo[p]
  /\ todo' = [todo EXCEPT ![p] = @ \ {q}]
  /\ stopped' = stopped \ {q}
  /\ UNCHANGED <<live, last, parent, execs, job, phase, lists>>

Returns(p) ==
  /\ phase[p] = "resume" /\ todo[p] = {}
  /\ phase' = [phase EXCEPT ![p] = "done"]
  /\ UNCHANGED <<processes, lists, todo>>

\* The terminal is closed, or the command killed.
Closes(p) ==
  /\ MayClose /\ phase[p] \notin {"idle", "done", "closed"}
  /\ phase' = [phase EXCEPT ![p] = "closed"]
  /\ ForgetsScan(p) /\ ForgetsHistory(p)
  /\ UNCHANGED <<processes, procs, todo>>

PauserStep(p) ==
  \/ Starts(p) \/ Scanned(p) \/ FallsAsleep(p) \/ WakesUp(p) \/ Returns(p)
  \/ \E q \in Pids : Scans(p, q) \/ Stops(p, q) \/ Resumes(p, q)

Next ==
  \/ \E q \in Pids : Exits(q) \/ Execs(q) \/ \E by \in Pids \cup {Outside} : Begins(q, by)
  \/ \E p \in Pausers : PauserStep(p) \/ Closes(p)

Spec == Init /\ [][Next]_vars

-----------------------------------------------------------------------------
(* Properties. *)

TypeOK ==
  /\ live \subseteq Pids /\ job \subseteq live /\ stopped \subseteq live
  /\ last \in Nat /\ execs \in Nat
  /\ parent \in [live -> Pids \cup {Outside}]
  /\ phase \in [Pausers -> {"idle", "scan", "pause", "sleep", "resume", "done", "closed"}]
  /\ cursor \in [Pausers -> Nat] /\ start \in [Pausers -> Nat]
  /\ roots \in [Pausers -> SUBSET Pids]
  /\ DOMAIN others = Pausers /\ \A p \in Pausers : DOMAIN others[p] \subseteq Pids
  /\ procs \in [Pausers -> SUBSET Pids]
  /\ changed \in [Pausers -> SUBSET Pids]
  /\ todo \in [Pausers -> SUBSET Pids]
  /\ \A p \in Pausers : todo[p] \subseteq procs[p]

\* The pause p has stopped q and will let it go on.
WillResume(p, q) ==
  \/ (phase[p] = "pause" /\ q \in procs[p] \ todo[p])
  \/ (phase[p] = "sleep" /\ q \in procs[p])
  \/ (phase[p] = "resume" /\ q \in todo[p])

\* Nobody stays stopped by accident: for every stopped process there is a pause
\* that is going to resume it, or one whose terminal was closed before it could.
NobodyLeftStopped ==
  \A q \in stopped : \E p \in Pausers :
    WillResume(p, q) \/ (phase[p] = "closed" /\ q \in procs[p])

\* The jobs that p finds there: the processes that bore the command line of one
\* when it began, and have had no exec since.
JobsOf(p) == {q \in job \ changed[p] : q <= start[p]}

\* These processes and their descendants, if nobody in between has exited.
TreeOf(p) ==
  {q \in live : \A tree \in SUBSET live :
     JobsOf(p) \subseteq tree /\ (\A r \in live : parent[r] \in tree => r \in tree) => q \in tree}

\* While a pause sleeps, the jobs that ran when it began to look stand still,
\* with all their descendants that were there, those between a fork and an exec
\* too, save the processes that another pause has resumed since.
PausedWhole ==
  \A p \in Pausers : phase[p] = "sleep" => \A q \in TreeOf(p) : q <= start[p] =>
      \/ q \in stopped
      \/ \E o \in Pausers \ {p} :
           phase[o] \in {"resume", "done", "closed"} /\ q \in procs[o] \ todo[o]
=============================================================================
