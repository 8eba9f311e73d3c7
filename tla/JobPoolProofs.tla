---------------------------- MODULE JobPoolProofs ----------------------------
(***************************************************************************)
(* Proofs about the job pool for any number of nodes, batches, jobs and    *)
(* mishaps, and any capacity of the channels.  One inductive invariant     *)
(* carries them: a job that someone accounts for runs in the schedule, and *)
(* the schedule lists every job once.  A waiting job is therefore with     *)
(* nobody, which is why it may be handed out.  A second one (BuildInv)     *)
(* follows builds and answers, a third (KillInv) the kills.                *)
(***************************************************************************)
EXTENDS JobPool, SequenceTheorems, FiniteSetTheorems, WellFoundedInduction, TLAPS

(***************************************************************************)
(* What the calls on one job set do to the jobs it lists (schedule.rs),    *)
(* for any set and any number of jobs.                                     *)
(***************************************************************************)

Waiting(set) == Range(set.remaining_jobs)
Running(set) == Range(set.running_jobs)

\* A set of natural numbers that is not empty has a least element, so the
\* library's Min returns one of its elements.
LEMMA MinInSet ==
  ASSUME NEW I \in SUBSET Nat, I # {}
  PROVE  Min(I) \in I /\ \A i \in I : Min(I) <= i
PROOF
  <1>1. PICK m \in I : \A i \in I : ~(<<i, m>> \in OpToRel(<, Nat))
    BY NatLessThanWellFounded, WFMin
  <1>2. \A i \in I : ~(i < m)
    BY <1>1 DEF OpToRel
  <1>3. m \in I /\ \A i \in I : m <= i
    BY <1>2
  <1> QED
    BY <1>3 DEF Min

\* Removing one element keeps the order of the others (Vec::remove).
LEMMA RemoveAtFacts ==
  ASSUME NEW S, NEW s \in Seq(S), NEW i \in 1..Len(s)
  PROVE  /\ RemoveAt(s, i) \in Seq(S)
         /\ Len(RemoveAt(s, i)) = Len(s) - 1
         /\ \A k \in 1..(Len(s) - 1) :
              RemoveAt(s, i)[k] = IF k < i THEN s[k] ELSE s[k + 1]
PROOF
  <1> DEFINE a == SubSeq(s, 1, i - 1)
             b == SubSeq(s, i + 1, Len(s))
  <1>1. /\ a \in Seq(S) /\ Len(a) = i - 1
        /\ \A k \in 1..(i - 1) : a[k] = s[k]
    BY SubSeqProperties
  <1>2. /\ b \in Seq(S) /\ Len(b) = Len(s) - i
        /\ \A k \in 1..(Len(s) - i) : b[k] = s[i + k]
    BY SubSeqProperties
  <1> HIDE DEF a, b
  <1>3. /\ a \o b \in Seq(S) /\ Len(a \o b) = Len(a) + Len(b)
        /\ \A k \in 1..(Len(a) + Len(b)) :
             (a \o b)[k] = IF k <= Len(a) THEN a[k] ELSE b[k - Len(a)]
    BY <1>1, <1>2, ConcatProperties
  <1>4. RemoveAt(s, i) = a \o b
    BY DEF RemoveAt, a, b
  <1>5. Len(a \o b) = Len(s) - 1
    BY <1>1, <1>2, <1>3
  <1>6. ASSUME NEW k \in 1..(Len(s) - 1)
        PROVE  (a \o b)[k] = IF k < i THEN s[k] ELSE s[k + 1]
    <2>1. CASE k < i
      BY <1>1, <1>2, <1>3, <2>1
    <2>2. CASE ~(k < i)
      <3>1. (a \o b)[k] = b[k - (i - 1)]
        BY <1>1, <1>2, <1>3, <2>2
      <3>2. k - (i - 1) \in 1..(Len(s) - i) /\ i + (k - (i - 1)) = k + 1
        BY <2>2
      <3> QED
        BY <1>2, <2>2, <3>1, <3>2
    <2> QED
      BY <2>1, <2>2
  <1> QED
    BY <1>3, <1>4, <1>5, <1>6

\* remove_running_job_by_name removes exactly the running job of that name when
\* the names of the running jobs are distinct.
LEMMA RemoveRunningFacts ==
  ASSUME NEW set \in JobSet, NEW job \in JobNames, ListedOnce(set)
  PROVE  /\ RemoveRunningJobByName(set, job) \in JobSet
         /\ ListedOnce(RemoveRunningJobByName(set, job))
         /\ RemoveRunningJobByName(set, job).remaining_jobs = set.remaining_jobs
         /\ RemoveRunningJobByName(set, job).batch_name = set.batch_name
         /\ RemoveRunningJobByName(set, job).requirements = set.requirements
         /\ Running(RemoveRunningJobByName(set, job)) =
              {r \in Running(set) : r.job_name # job}
PROOF
  <1> DEFINE s == set.running_jobs
             I == {k \in 1..Len(s) : s[k].job_name = job}
             after == RemoveRunningJobByName(set, job)
  <1>1. s \in Seq(RunningJob)
    BY DEF JobSet
  <1>2. CASE I = {}
    <2>1. after.running_jobs = s
      BY <1>2 DEF RemoveRunningJobByName, RemoveFirstMatch, JobSet
    <2>2. after = set
      BY <2>1 DEF RemoveRunningJobByName, JobSet
    <2> QED
      BY <1>1, <1>2, <2>2 DEF Running, Range
  <1>3. CASE I # {}
    <2> DEFINE i == Min(I)
    <2>a. I \in SUBSET Nat
      OBVIOUS
    <2>b. Min(I) \in I
      <3> HIDE DEF I
      <3> QED
        BY <1>3, <2>a, MinInSet
    <2>1. i \in 1..Len(s) /\ s[i].job_name = job
      BY <2>b
    <2>2. after.running_jobs = RemoveAt(s, i)
      BY <1>3 DEF RemoveRunningJobByName, RemoveFirstMatch, SelectInSeq, JobSet
    <2> HIDE DEF i
    <2>3. /\ after.running_jobs \in Seq(RunningJob)
          /\ Len(after.running_jobs) = Len(s) - 1
          /\ \A k \in 1..(Len(s) - 1) :
               after.running_jobs[k] = IF k < i THEN s[k] ELSE s[k + 1]
      BY <1>1, <2>1, <2>2, RemoveAtFacts
    <2>4. /\ after.remaining_jobs = set.remaining_jobs
          /\ after.batch_name = set.batch_name
          /\ after.requirements = set.requirements
          /\ after \in JobSet
      BY <2>3 DEF RemoveRunningJobByName, JobSet
    <2> HIDE DEF after, I
    <2>5. ListedOnce(after)
      <3> DEFINE r == after.running_jobs
      <3>1. ASSUME NEW k \in DOMAIN r
            PROVE  \E kk \in DOMAIN s : /\ r[k] = s[kk]
                                        /\ kk = IF k < i THEN k ELSE k + 1
        <4>1. k \in 1..(Len(s) - 1)
          BY <2>3
        <4>2. (IF k < i THEN k ELSE k + 1) \in DOMAIN s
          BY <1>1, <2>1, <4>1
        <4>3. r[k] = s[IF k < i THEN k ELSE k + 1]
          BY <2>3, <4>1
        <4> QED
          BY <4>2, <4>3
      <3> HIDE DEF r
      <3>2. ASSUME NEW k \in DOMAIN r, NEW l \in DOMAIN r,
                   r[k].job_name = r[l].job_name
            PROVE  k = l
        <4>1. k \in Nat /\ l \in Nat /\ i \in Nat
          BY <2>1, <2>3 DEF r
        <4>2. PICK kk \in DOMAIN s : r[k] = s[kk] /\ kk = IF k < i THEN k ELSE k + 1
          BY <3>1
        <4>3. PICK ll \in DOMAIN s : r[l] = s[ll] /\ ll = IF l < i THEN l ELSE l + 1
          BY <3>1
        <4>4. kk = ll
          BY <3>2, <4>2, <4>3 DEF ListedOnce
        <4> QED
          BY <4>1, <4>2, <4>3, <4>4
      <3>3. ASSUME NEW k \in DOMAIN r, NEW l \in DOMAIN set.remaining_jobs
            PROVE  r[k].job_name # set.remaining_jobs[l]
        BY <3>1 DEF ListedOnce
      <3> QED
        BY <2>4, <3>2, <3>3 DEF ListedOnce, r
    <2>6. Running(after) = {r \in Running(set) : r.job_name # job}
      <3>1. ASSUME NEW r \in Running(after)
            PROVE  r \in Running(set) /\ r.job_name # job
        <4>1. PICK k \in 1..(Len(s) - 1) : after.running_jobs[k] = r
          BY <2>3 DEF Running, Range
        <4>2. PICK kk \in DOMAIN s : s[kk] = r /\ kk # i
          BY <1>1, <2>1, <2>3, <4>1
        <4>3. s[kk].job_name # s[i].job_name
          BY <1>1, <2>1, <4>2 DEF ListedOnce
        <4> QED
          BY <2>1, <4>2, <4>3 DEF Running, Range
      <3>2. ASSUME NEW r \in Running(set), r.job_name # job
            PROVE  r \in Running(after)
        <4>1. PICK k \in 1..Len(s) : s[k] = r
          BY <1>1 DEF Running, Range
        <4>2. k # i
          BY <2>1, <3>2, <4>1
        <4>3. PICK l \in 1..(Len(s) - 1) : k = IF l < i THEN l ELSE l + 1
          <5>1. CASE k < i
            BY <1>1, <2>1, <5>1
          <5>2. CASE k > i
            <6>1. k - 1 \in 1..(Len(s) - 1) /\ ~(k - 1 < i) /\ k = (k - 1) + 1
              BY <1>1, <2>1, <5>2
            <6> QED
              BY <6>1
          <5> QED
            BY <1>1, <2>1, <4>2, <5>1, <5>2
        <4>4. after.running_jobs[l] = r
          BY <2>3, <4>1, <4>3
        <4> QED
          BY <2>3, <4>4 DEF Running, Range
      <3> QED
        BY <3>1, <3>2
    <2> QED
      BY <2>4, <2>5, <2>6 DEF after
  <1> QED
    BY <1>2, <1>3

\* add_errored_job moves a running job back to the jobs that wait.
LEMMA AddErroredFacts ==
  ASSUME NEW set \in JobSet, NEW job \in JobNames, ListedOnce(set),
         \E r \in Running(set) : r.job_name = job
  PROVE  /\ AddErroredJob(set, job) \in JobSet
         /\ ListedOnce(AddErroredJob(set, job))
         /\ Running(AddErroredJob(set, job)) =
              {r \in Running(set) : r.job_name # job}
         /\ Waiting(AddErroredJob(set, job)) = Waiting(set) \cup {job}
PROOF
  <1> DEFINE stopped == RemoveRunningJobByName(set, job)
             after == AddErroredJob(set, job)
  <1>1. /\ stopped \in JobSet /\ ListedOnce(stopped)
        /\ stopped.remaining_jobs = set.remaining_jobs
        /\ Running(stopped) = {r \in Running(set) : r.job_name # job}
    BY RemoveRunningFacts
  <1>2. after = [stopped EXCEPT !.remaining_jobs = Append(@, job)]
    BY DEF AddErroredJob
  <1> HIDE DEF stopped, after
  <1> DEFINE w == stopped.remaining_jobs
             v == after.remaining_jobs
  <1>3. w \in Seq(JobNames)
    BY <1>1 DEF JobSet
  <1>4. /\ after \in JobSet
        /\ after.running_jobs = stopped.running_jobs
        /\ v = Append(w, job)
    <2>1. Append(w, job) \in Seq(JobNames)
      BY <1>3
    <2> QED
      BY <1>1, <1>2, <2>1 DEF JobSet
  <1>5. \A k \in DOMAIN w : w[k] # job
    BY <1>1 DEF ListedOnce, Running, Range
  <1>6. \A k \in DOMAIN stopped.running_jobs : stopped.running_jobs[k].job_name # job
    BY <1>1 DEF Running, Range
  <1>7. /\ DOMAIN v = 1..(Len(w) + 1) /\ DOMAIN w = 1..Len(w)
        /\ v[Len(w) + 1] = job
        /\ \A k \in 1..Len(w) : v[k] = w[k]
    BY <1>3, <1>4
  <1>8. ListedOnce(after)
    <2>1. IsInjective(w)
      BY <1>1 DEF ListedOnce
    <2> HIDE DEF w, v
    <2>2. ASSUME NEW k \in DOMAIN v, NEW l \in DOMAIN v, v[k] = v[l]
          PROVE  k = l
      <3>1. \A m \in DOMAIN v : (m \in DOMAIN w /\ v[m] = w[m]) \/ m = Len(w) + 1
        BY <1>3, <1>7
      <3>2. \A m, p \in DOMAIN w : w[m] = w[p] => m = p
        BY <2>1 DEF IsInjective
      <3> QED
        BY <1>5, <1>7, <2>2, <3>1, <3>2
    <2>3. ASSUME NEW k \in DOMAIN after.running_jobs, NEW l \in DOMAIN v
          PROVE  after.running_jobs[k].job_name # v[l]
      <3>1. CASE l = Len(w) + 1
        BY <1>4, <1>6, <1>7, <3>1
      <3>2. CASE l # Len(w) + 1
        BY <1>1, <1>3, <1>4, <1>7, <3>2 DEF ListedOnce, w
      <3> QED
        BY <3>1, <3>2
    <2> QED
      BY <1>1, <1>4, <2>2, <2>3 DEF ListedOnce, IsInjective, v
  <1>9. Waiting(after) = Waiting(set) \cup {job}
    <2>1. Range(v) = Range(w) \cup {job}
      <3>1. ASSUME NEW x \in Range(v) PROVE x \in Range(w) \cup {job}
        BY <1>3, <1>7 DEF Range
      <3>2. ASSUME NEW x \in Range(w) \cup {job} PROVE x \in Range(v)
        BY <1>3, <1>7 DEF Range
      <3> QED
        BY <3>1, <3>2
    <2> QED
      BY <1>1, <2>1 DEF Waiting
  <1> QED
    BY <1>1, <1>4, <1>8, <1>9 DEF Running, after

\* next_job moves the job on top of the stack to the running jobs.
LEMMA NextJobFacts ==
  ASSUME NEW set \in JobSet, NEW node \in Nodes, ListedOnce(set),
         HasRemainingJobs(set)
  PROVE  /\ NextJobName(set) \in JobNames
         /\ \A r \in Running(set) : r.job_name # NextJobName(set)
         /\ NextJob(set, node) \in JobSet
         /\ ListedOnce(NextJob(set, node))
         /\ Running(NextJob(set, node)) =
              Running(set) \cup {[job_name |-> NextJobName(set), node |-> node]}
         /\ NextJobName(set) \in Waiting(set)
         /\ Waiting(NextJob(set, node)) = Waiting(set) \ {NextJobName(set)}
PROOF
  <1> DEFINE w == set.remaining_jobs
             s == set.running_jobs
             job == NextJobName(set)
             run == [job_name |-> job, node |-> node]
             after == NextJob(set, node)
             v == after.remaining_jobs
             t == after.running_jobs
  <1>1. /\ w \in Seq(JobNames) /\ s \in Seq(RunningJob)
        /\ Len(w) \in Nat \ {0} /\ DOMAIN w = 1..Len(w)
    BY DEF JobSet, HasRemainingJobs
  <1>2. job = w[Len(w)] /\ job \in JobNames
    BY <1>1 DEF NextJobName, Last
  <1>3. run \in RunningJob
    BY <1>2 DEF RunningJob
  <1>4. /\ v = SubSeq(w, 1, Len(w) - 1) /\ t = Append(s, run)
        /\ after \in JobSet
    <2>1. SubSeq(w, 1, Len(w) - 1) \in Seq(JobNames)
      BY <1>1, SubSeqProperties
    <2>2. Append(s, run) \in Seq(RunningJob)
      BY <1>1, <1>3
    <2> HIDE DEF run, job
    <2>3. after = [set EXCEPT !.remaining_jobs = SubSeq(w, 1, Len(w) - 1),
                              !.running_jobs = Append(s, run)]
      BY DEF NextJob, Front, run, job
    <2> QED
      BY <2>1, <2>2, <2>3 DEF JobSet
  <1>5. /\ DOMAIN v = 1..(Len(w) - 1)
        /\ \A k \in 1..(Len(w) - 1) : v[k] = w[k]
    BY <1>1, <1>4, SubSeqProperties
  <1>6. /\ DOMAIN t = 1..(Len(s) + 1) /\ DOMAIN s = 1..Len(s)
        /\ t[Len(s) + 1] = run
        /\ \A k \in 1..Len(s) : t[k] = s[k]
    BY <1>1, <1>3, <1>4
  <1>7. \A k \in DOMAIN s : s[k].job_name # job
    BY <1>1, <1>2 DEF ListedOnce
  <1>8. \A k, l \in DOMAIN w : w[k] = w[l] => k = l
    BY DEF ListedOnce, IsInjective
  <1> HIDE DEF job, after, v, t
  <1>9. ListedOnce(after)
    <2>1. ASSUME NEW k \in DOMAIN v, NEW l \in DOMAIN v, v[k] = v[l]
          PROVE  k = l
      BY <1>1, <1>5, <1>8, <2>1
    <2>2. ASSUME NEW k \in DOMAIN t, NEW l \in DOMAIN t,
                 t[k].job_name = t[l].job_name
          PROVE  k = l
      <3>a. Len(s) \in Nat
        BY <1>1
      <3> HIDE DEF s, run
      <3>1. \A m \in DOMAIN t : (m \in DOMAIN s /\ t[m] = s[m]) \/ m = Len(s) + 1
        BY <1>6, <3>a
      <3>2. \A m, p \in DOMAIN s : s[m].job_name = s[p].job_name => m = p
        BY DEF ListedOnce, s
      <3>3. t[Len(s) + 1].job_name = job
        BY <1>6 DEF run
      <3> QED
        BY <1>7, <2>2, <3>1, <3>2, <3>3
    <2>3. ASSUME NEW k \in DOMAIN t, NEW l \in DOMAIN v
          PROVE  t[k].job_name # v[l]
      <3>1. l \in DOMAIN w /\ l # Len(w) /\ v[l] = w[l]
        BY <1>1, <1>5
      <3>2. CASE k = Len(s) + 1
        <4>1. t[k].job_name = w[Len(w)]
          BY <1>2, <1>6, <3>2
        <4>2. w[l] # w[Len(w)]
          BY <1>1, <1>8, <3>1
        <4> QED
          BY <3>1, <4>1, <4>2
      <3>3. CASE k # Len(s) + 1
        BY <1>1, <1>6, <3>1, <3>3 DEF ListedOnce
      <3> QED
        BY <3>2, <3>3
    <2> QED
      BY <2>1, <2>2, <2>3 DEF ListedOnce, IsInjective, v, t
  <1>10. Running(after) = Running(set) \cup {run}
    <2>1. Range(t) = Range(s) \cup {run}
      <3>1. ASSUME NEW r \in Range(t) PROVE r \in Range(s) \cup {run}
        BY <1>1, <1>6 DEF Range
      <3>2. ASSUME NEW r \in Range(s) \cup {run} PROVE r \in Range(t)
        BY <1>1, <1>6 DEF Range
      <3> QED
        BY <3>1, <3>2
    <2> QED
      BY <2>1 DEF Running, t
  <1>11. \A r \in Running(set) : r.job_name # job
    BY <1>7 DEF Running, Range
  <1>12. job \in Waiting(set) /\ Waiting(after) = Waiting(set) \ {job}
    <2>1. Range(v) = Range(w) \ {job}
      <3>1. ASSUME NEW x \in Range(v) PROVE x \in Range(w) \ {job}
        BY SMTT(30), <1>1, <1>2, <1>5, <1>8 DEF Range
      <3>2. ASSUME NEW x \in Range(w) \ {job} PROVE x \in Range(v)
        BY <1>1, <1>2, <1>5 DEF Range
      <3> QED
        BY <3>1, <3>2
    <2>2. job \in Range(w)
      BY <1>1, <1>2 DEF Range
    <2> QED
      BY <2>1, <2>2 DEF Waiting, v
  <1> QED
    BY <1>2, <1>4, <1>9, <1>10, <1>11, <1>12 DEF job, after

\* clear_remaining_jobs leaves the running jobs alone.
LEMMA ClearFacts ==
  ASSUME NEW set \in JobSet, ListedOnce(set)
  PROVE  /\ ClearRemainingJobs(set) \in JobSet
         /\ ListedOnce(ClearRemainingJobs(set))
         /\ Running(ClearRemainingJobs(set)) = Running(set)
         /\ Waiting(ClearRemainingJobs(set)) = {}
PROOF
  <1> DEFINE after == ClearRemainingJobs(set)
  <1>1. << >> \in Seq(JobNames) /\ DOMAIN << >> = {}
    OBVIOUS
  <1>2. /\ after \in JobSet
        /\ after.remaining_jobs = << >>
        /\ after.running_jobs = set.running_jobs
    BY <1>1 DEF ClearRemainingJobs, JobSet
  <1> HIDE DEF after
  <1>3. ListedOnce(after)
    BY <1>1, <1>2 DEF ListedOnce, IsInjective
  <1>4. Waiting(after) = {}
    BY <1>1, <1>2 DEF Waiting, Range
  <1> QED
    BY <1>2, <1>3, <1>4 DEF Running, after

\* A batch that was accepted by `distribute add` becomes a set that lists each
\* of its jobs once.
LEMMA FromConfigFacts ==
  ASSUME NEW b \in Batches
  PROVE  /\ FromConfig(b) \in JobSet /\ ListedOnce(FromConfig(b))
         /\ Running(FromConfig(b)) = {} /\ Waiting(FromConfig(b)) = Range(b.jobs)
PROOF
  <1>1. /\ b \in [batch_name : BatchNames, requirements : SUBSET Caps, jobs : Seq(JobNames)]
        /\ IsInjective(b.jobs)
    BY BatchesAssumption
  <1>2. << >> \in Seq(RunningJob) /\ DOMAIN << >> = {}
    OBVIOUS
  <1>3. Running(FromConfig(b)) = {} /\ Waiting(FromConfig(b)) = Range(b.jobs)
    BY <1>2 DEF FromConfig, Running, Waiting, Range
  <1> QED
    BY <1>1, <1>2, <1>3 DEF FromConfig, JobSet, ListedOnce

-----------------------------------------------------------------------------
(* The job pool                                                            *)

IInv ==
  /\ TypeOK
  /\ JobListedOnce
  /\ AccountedJobsRun
  /\ JobHeldOnce
  /\ BusyHolds

\* RunsAt for a given value of the map, so as to compare two of them.
RunsIn(m, x, n) ==
  /\ x.ident \in DOMAIN m
  /\ [job_name |-> x.job_name, node |-> n] \in Running(m[x.ident])

\* RunsAt is RunsIn of the map as it is.
LEMMA RunsAtIsRunsIn == \A x, n : RunsAt(x, n) <=> RunsIn(map, x, n)
PROOF
  BY DEF RunsAt, RunsIn, Running

-----------------------------------------------------------------------------
(* The channel to the job pool                                             *)

\* A request that is sent goes last, behind the requests that wait
\* (tx.send on the mpsc channel).
LEMMA SendFacts ==
  ASSUME requests \in Seq(Request), Len(requests) <= RequestCap,
         NEW r \in Request, Send(r)
  PROVE  /\ requests' \in Seq(Request) /\ Len(requests') <= RequestCap
         /\ DOMAIN requests' = 1..(Len(requests) + 1)
         /\ DOMAIN requests = 1..Len(requests)
         /\ requests'[Len(requests) + 1] = r
         /\ \A k \in 1..Len(requests) : requests'[k] = requests[k]
PROOF
  <1>1. requests' = Append(requests, r) /\ Len(requests) < RequestCap
    BY DEF Send
  <1>2. RequestCap \in Nat
    BY PoolAssumption
  <1> QED
    BY <1>1, <1>2

\* A request that is received was the first, and the others move up
\* (rx.recv on the mpsc channel).
LEMMA ReceiveFacts ==
  ASSUME requests \in Seq(Request), Len(requests) <= RequestCap,
         NEW type, Receive(type)
  PROVE  /\ requests' \in Seq(Request) /\ Len(requests') <= RequestCap
         /\ Head(requests) \in Request /\ Head(requests).type = type
         /\ Head(requests) = requests[1] /\ 1 \in DOMAIN requests
         /\ \A k \in DOMAIN requests' :
              /\ k \in Nat /\ k + 1 \in DOMAIN requests /\ k + 1 # 1
              /\ requests'[k] = requests[k + 1]
PROOF
  <1>1. requests # << >> /\ requests' = Tail(requests) /\ Head(requests).type = type
    BY DEF Receive
  <1>2. RequestCap \in Nat
    BY PoolAssumption
  <1>3. Len(requests) \in Nat \ {0} /\ DOMAIN requests = 1..Len(requests)
    BY <1>1
  <1>4. /\ requests' \in Seq(Request) /\ Len(requests') = Len(requests) - 1
        /\ DOMAIN requests' = 1..(Len(requests) - 1)
        /\ \A k \in 1..(Len(requests) - 1) : requests'[k] = requests[k + 1]
    BY <1>1, <1>3, HeadTailProperties
  <1>5. Head(requests) = requests[1] /\ requests[1] \in Request
    BY <1>1, <1>3
  <1> QED
    BY <1>1, <1>2, <1>3, <1>4, <1>5

\* A request of a type has the fields of that type.
LEMMA RequestFields ==
  ASSUME NEW r \in Request
  PROVE  /\ r.type \in {"NewJob", "FinishJob", "DeadNode"} => r.node \in Nodes
         /\ r.type = "NewJob" =>
              r.initialized_job \in Nat /\ r.build_failures \in SUBSET Nat
         /\ r.type \in {"FinishJob", "DeadNode"} =>
              r.ident \in Nat \ {NoIdent} /\ r.job_name \in JobNames
         /\ r.type = "AddJobSet" => r.batch \in Batches
         /\ r.type = "CancelBatchByName" => r.batch_name \in BatchNames
PROOF
  BY DEF Request

\* An answer of fetch_new_task has the fields of its kind.
LEMMA ReplyFields ==
  ASSUME NEW r \in Response \cup {Idle, Pending}
  PROVE  /\ r.kind = "Job" => r.ident \in Nat \ {NoIdent} /\ r.job_name \in JobNames
         /\ r.kind = "JobInit" => r.ident \in Nat
PROOF
  BY DEF Response, Idle, Pending, EmptyJobs

\* A node task that holds a job holds a RunTaskInfo.
LEMMA HeldFields ==
  ASSUME NEW h \in Task \cup {NoTask}, h.ident # NoIdent
  PROVE  h \in Task /\ h.ident \in Nat \ {NoIdent} /\ h.job_name \in JobNames
PROOF
  BY DEF Task, NoTask

-----------------------------------------------------------------------------
(* Steps that only move accounts about: nobody accounts for a job he did   *)
(* not account for before, and the map stays as it is.                     *)

\* No job gains a holder when answers and tasks stay or go and the
\* requests only move up.
LEMMA HeldOnceKept ==
  ASSUME JobHeldOnce, NEW d \in Nat,
         \A n \in Answered' : n \in Answered /\ reply'[n] = reply[n],
         \A n \in Holding' : n \in Holding /\ held'[n] = held[n],
         \A k \in Reporting' : k + d \in Reporting /\ requests'[k] = requests[k + d],
         Reporting' \subseteq Nat
  PROVE  JobHeldOnce'
PROOF
  <1>1. ASSUME NEW k \in Reporting', NEW l \in Reporting',
               SameJob(requests'[k], requests'[l])
        PROVE  k = l
    <2>1. k + d = l + d
      BY <1>1 DEF JobHeldOnce
    <2> QED
      BY <2>1
  <1> QED
    BY <1>1 DEF JobHeldOnce

\* Accounts that stay remain good for as long as the map does not change.
LEMMA AccountsKept ==
  ASSUME AccountedJobsRun, UNCHANGED map, NEW d \in Nat,
         \A n \in Answered' : n \in Answered /\ reply'[n] = reply[n],
         \A n \in Holding' : n \in Holding /\ held'[n] = held[n],
         \A k \in Reporting' : k + d \in Reporting /\ requests'[k] = requests[k + d]
  PROVE  AccountedJobsRun'
PROOF
  BY DEF AccountedJobsRun, RunsAt

\* A step that adds no account and changes no set keeps the invariant.
LEMMA QuietStep ==
  ASSUME IInv, TypeOK', BusyHolds', UNCHANGED map, NEW d \in Nat,
         \A n \in Answered' : n \in Answered /\ reply'[n] = reply[n],
         \A n \in Holding' : n \in Holding /\ held'[n] = held[n],
         \A k \in Reporting' : k + d \in Reporting /\ requests'[k] = requests[k + d]
  PROVE  IInv'
PROOF
  <1>1. Reporting' \subseteq Nat
    BY DEF Reporting, TypeOK
  <1>2. JobHeldOnce'
    BY <1>1, HeldOnceKept DEF IInv
  <1>3. AccountedJobsRun'
    BY AccountsKept DEF IInv
  <1>4. JobListedOnce'
    BY DEF IInv, JobListedOnce
  <1> QED
    BY <1>2, <1>3, <1>4 DEF IInv

\* A request that reports on no job changes no account.
LEMMA SendQuietly ==
  ASSUME IInv, NEW r \in Request, r.type \notin {"FinishJob", "DeadNode"}, Send(r)
  PROVE  \A k \in Reporting' : k + 0 \in Reporting /\ requests'[k] = requests[k + 0]
PROOF
  <1>1. requests \in Seq(Request) /\ Len(requests) <= RequestCap
    BY DEF IInv, TypeOK
  <1>2. /\ DOMAIN requests' = 1..(Len(requests) + 1)
        /\ DOMAIN requests = 1..Len(requests)
        /\ requests'[Len(requests) + 1] = r
        /\ \A k \in 1..Len(requests) : requests'[k] = requests[k]
    BY <1>1, SendFacts
  <1> SUFFICES ASSUME NEW k \in Reporting'
               PROVE  k + 0 \in Reporting /\ requests'[k] = requests[k + 0]
    OBVIOUS
  <1>3. k \in 1..(Len(requests) + 1) /\ requests'[k].type \in {"FinishJob", "DeadNode"}
    BY <1>2 DEF Reporting
  <1>4. k # Len(requests) + 1
    BY <1>2, <1>3
  <1>5. k \in 1..Len(requests) /\ k + 0 = k
    BY <1>1, <1>3, <1>4
  <1> QED
    BY <1>2, <1>3, <1>5 DEF Reporting

-----------------------------------------------------------------------------
(* The initial state                                                       *)

\* The server starts with no batch, no request and nothing handed out.
LEMMA InitIInv == Init => IInv
PROOF
  <1> SUFFICES ASSUME Init PROVE IInv
    OBVIOUS
  <1>1. << >> \in Seq(Request) /\ Len(<< >>) = 0 /\ DOMAIN << >> = {}
    OBVIOUS
  <1>2. << >> \in [{} -> JobSet]
    OBVIOUS
  <1>3. TypeOK
    BY <1>1, <1>2, PoolAssumption DEF Init, TypeOK, Phases, NoIdent
  <1>4. Answered = {} /\ Holding = {} /\ Reporting = {}
    BY <1>1 DEF Init, Answered, Holding, Reporting, Idle, NoTask, NoIdent
  <1>5. JobListedOnce
    BY <1>1 DEF Init, JobListedOnce
  <1>6. BusyHolds
    BY DEF Init, BusyHolds
  <1> QED
    BY <1>3, <1>4, <1>5, <1>6 DEF IInv, AccountedJobsRun, JobHeldOnce

-----------------------------------------------------------------------------
(* The user tasks                                                          *)

\* add_job_set sends a request that reports on no job.
LEMMA UserAddsStep ==
  ASSUME IInv, NEW b \in Batches, UserAdds(b)
  PROVE  IInv'
PROOF
  <1> DEFINE r == [type |-> "AddJobSet", batch |-> b]
  <1>1. r \in Request /\ r.type \notin {"FinishJob", "DeadNode"} /\ Send(r)
    BY DEF Request, UserAdds
  <1> HIDE DEF r
  <1>2. requests' \in Seq(Request) /\ Len(requests') <= RequestCap
    BY <1>1, SendFacts DEF IInv, TypeOK
  <1>3. UNCHANGED <<poolVars, nodeVars, boundVars, cancellations>>
    BY DEF UserAdds
  <1>4. TypeOK' /\ BusyHolds'
    BY <1>2, <1>3
       DEF IInv, TypeOK, BusyHolds, Holding, poolVars, nodeVars, boundVars
  <1> QED
    BY <1>1, <1>3, <1>4, SendQuietly, QuietStep
       DEF Answered, Holding, poolVars, nodeVars

\* cancel_job_by_name sends a request that reports on no job.
LEMMA UserKillsStep ==
  ASSUME IInv, NEW name \in BatchNames, UserKills(name)
  PROVE  IInv'
PROOF
  <1> DEFINE r == [type |-> "CancelBatchByName", batch_name |-> name]
  <1>1. r \in Request /\ r.type \notin {"FinishJob", "DeadNode"} /\ Send(r)
    BY DEF Request, UserKills
  <1> HIDE DEF r
  <1>2. requests' \in Seq(Request) /\ Len(requests') <= RequestCap
    BY <1>1, SendFacts DEF IInv, TypeOK
  <1>3. /\ UNCHANGED <<poolVars, nodeVars, cancellations, mishaps>>
        /\ kills' = kills + 1
    BY DEF UserKills
  <1>4. TypeOK' /\ BusyHolds'
    BY <1>2, <1>3 DEF IInv, TypeOK, BusyHolds, Holding, poolVars, nodeVars
  <1> QED
    BY <1>1, <1>3, <1>4, SendQuietly, QuietStep
       DEF Answered, Holding, poolVars, nodeVars

-----------------------------------------------------------------------------
(* The steps of a node task that leave the channel to the job pool alone   *)

\* A node task that sends nothing and takes no job keeps the invariant.
LEMMA QuietNodeStep ==
  ASSUME IInv, TypeOK', BusyHolds', UNCHANGED <<map, requests>>,
         \A n \in Answered' : n \in Answered /\ reply'[n] = reply[n],
         \A n \in Holding' : n \in Holding /\ held'[n] = held[n]
  PROVE  IInv'
PROOF
  <1>1. \A k \in Reporting' : k + 0 \in Reporting /\ requests'[k] = requests[k + 0]
    BY DEF Reporting, IInv, TypeOK
  <1> QED
    BY <1>1, QuietStep

\* A node task that falls back to Uninit has no answer and no job left.
LEMMA ToUninitFacts ==
  ASSUME IInv, NEW n \in Nodes, ToUninit(n)
  PROVE  /\ phase' \in [Nodes -> Phases]
         /\ reply' \in [Nodes -> Response \cup {Idle, Pending}]
         /\ compiled' \in [Nodes -> Nat]
         /\ held' \in [Nodes -> Task \cup {NoTask}]
         /\ errored_jobs' \in [Nodes -> SUBSET Nat]
         /\ cancelled' \in [Nodes -> BOOLEAN]
         /\ n \notin Answered' /\ n \notin Holding'
         /\ \A m \in Answered' : m # n /\ m \in Answered /\ reply'[m] = reply[m]
         /\ \A m \in Holding' : m # n /\ m \in Holding /\ held'[m] = held[m]
         /\ BusyHolds'
PROOF
  <1>1. Idle.kind # "Job" /\ NoTask.ident = NoIdent
    BY DEF Idle, NoTask
  <1> HIDE DEF Idle, NoTask
  <1> QED
    BY <1>1 DEF IInv, TypeOK, ToUninit, Phases, Answered, Holding, BusyHolds, NoIdent

\* The mishaps are counted.
LEMMA MishapFacts ==
  ASSUME IInv, NEW kind, Mishap(kind)
  PROVE  mishaps' \in Nat
PROOF
  BY DEF IInv, TypeOK, Mishap

\* connect_to_node changes the state of the node task only.
LEMMA ConnectToNodeStep ==
  ASSUME IInv, NEW n \in Nodes, ConnectToNode(n)
  PROVE  IInv'
PROOF
  <1>1. Idle.kind # "Job"
    BY DEF Idle
  <1> HIDE DEF Idle
  <1>2. TypeOK'
    BY DEF IInv, TypeOK, ConnectToNode, Phases, NoIdent, poolVars, boundVars
  <1>3. BusyHolds'
    BY DEF IInv, TypeOK, BusyHolds, Holding, ConnectToNode
  <1> QED
    BY <1>1, <1>2, <1>3, QuietNodeStep
       DEF IInv, TypeOK, ConnectToNode, Answered, Holding, poolVars

\* The answer EmptyJobs holds no job, and is dropped.
LEMMA NoJobsStep ==
  ASSUME IInv, NEW n \in Nodes, NoJobs(n)
  PROVE  IInv'
PROOF
  <1>1. Idle.kind # "Job"
    BY DEF Idle
  <1> HIDE DEF Idle
  <1>2. TypeOK'
    BY DEF IInv, TypeOK, NoJobs, Phases, NoIdent, poolVars, boundVars
  <1>3. BusyHolds'
    BY DEF IInv, TypeOK, BusyHolds, Holding, NoJobs
  <1> QED
    BY <1>1, <1>2, <1>3, QuietNodeStep
       DEF IInv, TypeOK, NoJobs, Answered, Holding, poolVars

\* into_built: no job is involved in a build.
LEMMA BuildSucceedsStep ==
  ASSUME IInv, NEW n \in Nodes, BuildSucceeds(n)
  PROVE  IInv'
PROOF
  <1>1. Idle.kind # "Job"
    BY DEF Idle
  <1> HIDE DEF Idle
  <1>2. TypeOK'
    BY DEF IInv, TypeOK, BuildSucceeds, Phases, NoIdent, poolVars, boundVars
  <1>3. BusyHolds'
    BY DEF IInv, TypeOK, BusyHolds, Holding, BuildSucceeds
  <1> QED
    BY <1>1, <1>2, <1>3, QuietNodeStep
       DEF IInv, TypeOK, BuildSucceeds, Answered, Holding, poolVars

\* into_prepare_build after a failed build: no job is involved.
LEMMA BuildFailsStep ==
  ASSUME IInv, NEW n \in Nodes, BuildFails(n)
  PROVE  IInv'
PROOF
  <1>1. Idle.kind # "Job"
    BY DEF Idle
  <1> HIDE DEF Idle
  <1>2. TypeOK'
    BY DEF IInv, TypeOK, BuildFails, Phases, NoIdent, poolVars, boundVars
  <1>3. BusyHolds'
    BY DEF IInv, TypeOK, BusyHolds, Holding, BuildFails
  <1> QED
    BY <1>1, <1>2, <1>3, QuietNodeStep
       DEF IInv, TypeOK, BuildFails, Answered, Holding, poolVars

\* An initialisation that is dropped in Built holds no job.
LEMMA SwitchBatchStep ==
  ASSUME IInv, NEW n \in Nodes, SwitchBatch(n)
  PROVE  IInv'
PROOF
  <1>1. Idle.kind # "Job"
    BY DEF Idle
  <1> HIDE DEF Idle
  <1>2. TypeOK'
    BY DEF IInv, TypeOK, SwitchBatch, Phases, NoIdent, poolVars, boundVars
  <1>3. BusyHolds'
    BY DEF IInv, TypeOK, BusyHolds, Holding, SwitchBatch
  <1> QED
    BY <1>1, <1>2, <1>3, QuietNodeStep
       DEF IInv, TypeOK, SwitchBatch, Answered, Holding, poolVars

\* into_executing: the node task keeps the job it holds.
LEMMA SendInputsStep ==
  ASSUME IInv, NEW n \in Nodes, SendInputs(n)
  PROVE  IInv'
PROOF
  <1>1. Idle.kind # "Job"
    BY DEF Idle
  <1> HIDE DEF Idle
  <1>2. TypeOK'
    BY DEF IInv, TypeOK, SendInputs, Phases, NoIdent, poolVars, boundVars
  <1>3. BusyHolds'
    BY DEF IInv, TypeOK, BusyHolds, Holding, SendInputs
  <1> QED
    BY <1>1, <1>2, <1>3, QuietNodeStep
       DEF IInv, TypeOK, SendInputs, Answered, Holding, poolVars

\* An initialisation the node task starts to build holds no job.
LEMMA StartBuildStep ==
  ASSUME IInv, NEW n \in Nodes, StartBuild(n)
  PROVE  IInv'
PROOF
  <1>1. Idle.kind # "Job"
    BY DEF Idle
  <1>2. reply[n].ident \in Nat
    BY ReplyFields DEF IInv, TypeOK, StartBuild
  <1> HIDE DEF Idle
  <1>3. TypeOK'
    BY <1>2 DEF IInv, TypeOK, StartBuild, Phases, poolVars, boundVars
  <1>4. BusyHolds'
    BY DEF IInv, TypeOK, BusyHolds, Holding, StartBuild
  <1> QED
    BY <1>1, <1>3, <1>4, QuietNodeStep
       DEF IInv, TypeOK, StartBuild, Answered, Holding, poolVars

\* check_broadcast_for_matching_token sets a flag and no more.
LEMMA ReadCancellationStep ==
  ASSUME IInv, NEW n \in Nodes, ReadCancellation(n)
  PROVE  IInv'
PROOF
  <1>1. cancellations' \in [Nodes -> Seq(Nat)]
    <2>1. Tail(cancellations[n]) \in Seq(Nat)
      BY DEF IInv, TypeOK, ReadCancellation
    <2> QED
      BY <2>1 DEF IInv, TypeOK, ReadCancellation
  <1>2. mishaps' \in Nat
    BY MishapFacts DEF IInv, TypeOK, ReadCancellation
  <1>3. cancelled' \in [Nodes -> BOOLEAN]
    BY DEF IInv, TypeOK, ReadCancellation
  <1>4. UNCHANGED <<poolVars, phase, reply, compiled, held, errored_jobs,
                    requests, kills>>
    BY DEF ReadCancellation
  <1>5. TypeOK' /\ BusyHolds'
    BY <1>1, <1>2, <1>3, <1>4 DEF IInv, TypeOK, BusyHolds, Holding, poolVars
  <1> QED
    BY <1>4, <1>5, QuietNodeStep DEF Answered, Holding, poolVars

\* into_send_files: the node task keeps the job it holds.
LEMMA JobEndsStep ==
  ASSUME IInv, NEW n \in Nodes, JobEnds(n)
  PROVE  IInv'
PROOF
  <1>1. mishaps' \in Nat
    BY MishapFacts DEF IInv, TypeOK, JobEnds
  <1>2. TypeOK'
    BY <1>1 DEF IInv, TypeOK, JobEnds, Phases, poolVars
  <1>3. BusyHolds'
    BY DEF IInv, TypeOK, BusyHolds, Holding, JobEnds
  <1> QED
    BY <1>2, <1>3, QuietNodeStep DEF JobEnds, Answered, Holding, poolVars

\* complete_on_ping_failure before a request: there is no job to lose.
LEMMA MissKeepaliveStep ==
  ASSUME IInv, NEW n \in Nodes, MissKeepalive(n)
  PROVE  IInv'
PROOF
  <1>1. ToUninit(n) /\ UNCHANGED <<poolVars, requests, cancellations, kills>>
    BY DEF MissKeepalive
  <1>2. mishaps' \in Nat
    BY MishapFacts DEF MissKeepalive
  <1>3. TypeOK'
    BY <1>1, <1>2, ToUninitFacts DEF IInv, TypeOK, poolVars
  <1> QED
    BY <1>1, <1>3, ToUninitFacts, QuietNodeStep DEF poolVars

\* A link that fails during a build loses no job.
LEMMA LoseBuildStep ==
  ASSUME IInv, NEW n \in Nodes, LoseBuild(n)
  PROVE  IInv'
PROOF
  <1>1. ToUninit(n) /\ UNCHANGED <<poolVars, requests, cancellations, kills>>
    BY DEF LoseBuild
  <1>2. mishaps' \in Nat
    BY MishapFacts DEF LoseBuild
  <1>3. TypeOK'
    BY <1>1, <1>2, ToUninitFacts DEF IInv, TypeOK, poolVars
  <1> QED
    BY <1>1, <1>3, ToUninitFacts, QuietNodeStep DEF poolVars

\* The job of the answer is lost: one account less, and the schedule still
\* lists the job as running (node.rs, the ? of run_all_jobs).
LEMMA LoseHandoffStep ==
  ASSUME IInv, NEW n \in Nodes, LoseHandoff(n)
  PROVE  IInv'
PROOF
  <1>1. ToUninit(n) /\ UNCHANGED <<poolVars, requests, cancellations, kills>>
    BY DEF LoseHandoff
  <1>2. mishaps' \in Nat
    BY MishapFacts DEF LoseHandoff
  <1>3. TypeOK'
    BY <1>1, <1>2, ToUninitFacts DEF IInv, TypeOK, poolVars
  <1> QED
    BY <1>1, <1>3, ToUninitFacts, QuietNodeStep DEF poolVars

\* fetch_new_job sends a request that reports on no job.
LEMMA FetchNewJobStep ==
  ASSUME IInv, NEW n \in Nodes, FetchNewJob(n)
  PROVE  IInv'
PROOF
  <1> DEFINE r == [type |-> "NewJob", node |-> n, initialized_job |-> compiled[n],
                   build_failures |-> errored_jobs[n]]
  <1>1. r \in Request /\ r.type \notin {"FinishJob", "DeadNode"} /\ Send(r)
    BY DEF IInv, TypeOK, Request, FetchNewJob
  <1> HIDE DEF r
  <1>2. requests' \in Seq(Request) /\ Len(requests') <= RequestCap
    BY <1>1, SendFacts DEF IInv, TypeOK
  <1>3. Pending.kind # "Job"
    BY DEF Pending
  <1> HIDE DEF Pending
  <1>4. /\ UNCHANGED <<poolVars, phase, compiled, held, errored_jobs, cancelled,
                       cancellations, boundVars>>
        /\ reply' = [reply EXCEPT ![n] = Pending]
    BY DEF FetchNewJob
  <1>5. TypeOK' /\ BusyHolds'
    BY <1>2, <1>4 DEF IInv, TypeOK, BusyHolds, Holding, poolVars, boundVars
  <1> QED
    BY <1>1, <1>3, <1>4, <1>5, SendQuietly, QuietStep
       DEF IInv, TypeOK, Answered, Holding, poolVars

-----------------------------------------------------------------------------
(* The steps in which a job changes hands                                  *)

\* The answer's job becomes the task's: the account moves within the node.
LEMMA StartJobStep ==
  ASSUME IInv, NEW n \in Nodes, StartJob(n)
  PROVE  IInv'
PROOF
  <1> DEFINE t == [ident |-> reply[n].ident, job_name |-> reply[n].job_name]
  <1>1. n \in Answered /\ reply[n] \in Response \cup {Idle, Pending}
    BY DEF IInv, TypeOK, StartJob, Answered
  <1>2. t \in Task /\ t.ident # NoIdent /\ SameJob(t, reply[n])
    BY <1>1, ReplyFields DEF Task, Answered, SameJob
  <1>3. /\ held' = [held EXCEPT ![n] = t]
        /\ phase' = [phase EXCEPT ![n] = "send_inputs"]
        /\ reply' = [reply EXCEPT ![n] = Idle]
        /\ UNCHANGED <<poolVars, compiled, errored_jobs, cancelled, requests,
                       cancellations, boundVars>>
    BY DEF StartJob
  <1> HIDE DEF t
  <1>4. Idle.kind # "Job"
    BY DEF Idle
  <1> HIDE DEF Idle
  <1>5. TypeOK'
    BY <1>2, <1>3 DEF IInv, TypeOK, Phases, poolVars, boundVars
  <1>6. BusyHolds'
    BY <1>2, <1>3 DEF IInv, TypeOK, BusyHolds, Holding
  <1>7. /\ \A m \in Answered' : m # n /\ m \in Answered /\ reply'[m] = reply[m]
        /\ \A m \in Holding' : \/ m = n /\ held'[m] = t
                               \/ m # n /\ m \in Holding /\ held'[m] = held[m]
        /\ Reporting' = Reporting
    BY <1>3, <1>4 DEF IInv, TypeOK, Answered, Holding, Reporting
  <1>8. AccountedJobsRun'
    <2>1. RunsAt(t, n)
      BY <1>1, <1>2 DEF IInv, AccountedJobsRun, RunsAt, SameJob
    <2> QED
      BY <1>3, <1>7, <2>1 DEF IInv, AccountedJobsRun, RunsAt, poolVars
  <1>9. JobHeldOnce'
    BY <1>1, <1>2, <1>3, <1>7 DEF IInv, JobHeldOnce, SameJob
  <1>10. JobListedOnce'
    BY <1>3 DEF IInv, JobListedOnce, poolVars
  <1> QED
    BY <1>5, <1>6, <1>8, <1>9, <1>10 DEF IInv

\* A report takes over the account of the node that sends it.
LEMMA ReportFacts ==
  ASSUME IInv, TypeOK', BusyHolds', UNCHANGED map,
         NEW n \in Nodes, NEW type \in {"FinishJob", "DeadNode"},
         n \in Holding, Report(type, n),
         \A m \in Answered' : m \in Answered /\ reply'[m] = reply[m],
         \A m \in Holding' : m # n /\ m \in Holding /\ held'[m] = held[m]
  PROVE  IInv'
PROOF
  <1> DEFINE r == [type |-> type, node |-> n, ident |-> held[n].ident,
                   job_name |-> held[n].job_name]
             last == Len(requests) + 1
  <1>1. held[n] \in Task
    BY HeldFields DEF IInv, TypeOK, Holding
  <1>2. r \in Request /\ SameJob(r, held[n]) /\ r.node = n
    BY <1>1 DEF Task, Request, SameJob
  <1>3. Send(r)
    BY DEF Report
  <1> HIDE DEF r
  <1>4. requests \in Seq(Request) /\ Len(requests) <= RequestCap
    BY DEF IInv, TypeOK
  <1>5. /\ DOMAIN requests' = 1..last /\ DOMAIN requests = 1..Len(requests)
        /\ requests'[last] = r
        /\ \A k \in 1..Len(requests) : requests'[k] = requests[k]
    BY <1>2, <1>3, <1>4, SendFacts
  <1>6. \A k \in Reporting' :
          \/ k = last /\ requests'[k] = r
          \/ k \in Reporting /\ requests'[k] = requests[k]
    BY <1>4, <1>5 DEF Reporting
  <1> HIDE DEF last
  <1>7. AccountedJobsRun'
    <2>1. RunsAt(r, n)
      BY <1>2 DEF IInv, AccountedJobsRun, RunsAt, SameJob
    <2>2. \A k \in Reporting' : RunsAt(requests'[k], requests'[k].node)
      BY <1>2, <1>6, <2>1 DEF IInv, AccountedJobsRun
    <2> QED
      BY <2>2 DEF IInv, AccountedJobsRun, RunsAt
  <1>8. JobHeldOnce'
    BY <1>2, <1>6 DEF IInv, JobHeldOnce, SameJob
  <1>9. JobListedOnce'
    BY DEF IInv, JobListedOnce
  <1> QED
    BY <1>7, <1>8, <1>9 DEF IInv

\* A report is a request like any other.
LEMMA ReportTyped ==
  ASSUME IInv, NEW n \in Nodes, NEW type \in {"FinishJob", "DeadNode"},
         n \in Holding, Report(type, n)
  PROVE  requests' \in Seq(Request) /\ Len(requests') <= RequestCap
PROOF
  <1> DEFINE r == [type |-> type, node |-> n, ident |-> held[n].ident,
                   job_name |-> held[n].job_name]
  <1>1. held[n] \in Task
    BY HeldFields DEF IInv, TypeOK, Holding
  <1>2. r \in Request /\ Send(r)
    BY <1>1 DEF Task, Request, Report
  <1> HIDE DEF r
  <1> QED
    BY <1>2, SendFacts DEF IInv, TypeOK

\* FinishJob of a cancelled job moves the account into the channel.
LEMMA JobCancelledStep ==
  ASSUME IInv, NEW n \in Nodes, JobCancelled(n)
  PROVE  IInv'
PROOF
  <1>1. Report("FinishJob", n) /\ n \in Holding
    BY DEF JobCancelled, IInv, BusyHolds
  <1>2. requests' \in Seq(Request) /\ Len(requests') <= RequestCap
    BY <1>1, ReportTyped
  <1>3. mishaps' \in Nat
    BY MishapFacts DEF IInv, TypeOK, JobCancelled
  <1>4. NoTask.ident = NoIdent
    BY DEF NoTask
  <1> HIDE DEF NoTask
  <1>5. TypeOK'
    BY <1>2, <1>3 DEF IInv, TypeOK, JobCancelled, Phases, NoIdent, poolVars
  <1>6. BusyHolds'
    BY <1>4 DEF IInv, TypeOK, BusyHolds, Holding, JobCancelled
  <1>7. /\ \A m \in Answered' : m \in Answered /\ reply'[m] = reply[m]
        /\ \A m \in Holding' : m # n /\ m \in Holding /\ held'[m] = held[m]
        /\ UNCHANGED map
    BY <1>4 DEF IInv, TypeOK, Answered, Holding, JobCancelled, poolVars
  <1> QED
    BY <1>1, <1>5, <1>6, <1>7, ReportFacts

\* FinishJob after the results moves the account into the channel.
LEMMA ReceiveFilesStep ==
  ASSUME IInv, NEW n \in Nodes, ReceiveFiles(n)
  PROVE  IInv'
PROOF
  <1>1. Report("FinishJob", n) /\ n \in Holding
    BY DEF ReceiveFiles, IInv, BusyHolds
  <1>2. requests' \in Seq(Request) /\ Len(requests') <= RequestCap
    BY <1>1, ReportTyped
  <1>4. NoTask.ident = NoIdent
    BY DEF NoTask
  <1> HIDE DEF NoTask
  <1>5. TypeOK'
    BY <1>2 DEF IInv, TypeOK, ReceiveFiles, Phases, poolVars, boundVars
  <1>6. BusyHolds'
    BY <1>4 DEF IInv, TypeOK, BusyHolds, Holding, ReceiveFiles
  <1>7. /\ \A m \in Answered' : m \in Answered /\ reply'[m] = reply[m]
        /\ \A m \in Holding' : m # n /\ m \in Holding /\ held'[m] = held[m]
        /\ UNCHANGED map
    BY <1>4 DEF IInv, TypeOK, Answered, Holding, ReceiveFiles, poolVars
  <1> QED
    BY <1>1, <1>5, <1>6, <1>7, ReportFacts

\* DeadNode moves the account into the channel.
LEMMA LoseJobStep ==
  ASSUME IInv, NEW n \in Nodes, LoseJob(n)
  PROVE  IInv'
PROOF
  <1>1. Report("DeadNode", n) /\ n \in Holding /\ ToUninit(n)
    BY DEF LoseJob, IInv, BusyHolds
  <1>2. requests' \in Seq(Request) /\ Len(requests') <= RequestCap
    BY <1>1, ReportTyped
  <1>3. mishaps' \in Nat /\ UNCHANGED <<poolVars, cancellations, kills>>
    BY MishapFacts DEF IInv, TypeOK, LoseJob
  <1>4. TypeOK'
    BY <1>1, <1>2, <1>3, ToUninitFacts DEF IInv, TypeOK, poolVars
  <1> QED
    BY <1>1, <1>3, <1>4, ToUninitFacts, ReportFacts DEF poolVars

-----------------------------------------------------------------------------
(* The job pool                                                            *)

\* What fetch_new_task answers: a job only from a set of the map that has jobs
\* left, the one next_job is going to pop.
LEMMA FetchResponseFacts ==
  ASSUME TypeOK, JobListedOnce, NEW current \in Nat, NEW caps, NEW failures
  PROVE  LET response == FetchResponse(map, current, caps, failures)
         IN  /\ response \in Response
             /\ response.kind = "Job" =>
                  /\ response.ident \in DOMAIN map
                  /\ HasRemainingJobs(map[response.ident])
                  /\ response.job_name = NextJobName(map[response.ident])
PROOF
  <1> DEFINE gpu == AcceptableGpu(map, caps, failures)
             found == Acceptable(map, caps, failures)
             first == TakeFirstJob(map, caps, failures)
             response == FetchResponse(map, current, caps, failures)
  <1>1. /\ DOMAIN map \subseteq Nat /\ NoIdent \notin DOMAIN map
        /\ \A i \in DOMAIN map : map[i] \in JobSet /\ ListedOnce(map[i])
    BY DEF TypeOK, JobListedOnce, NoIdent
  <1>2. \A i \in found : i \in DOMAIN map /\ HasRemainingJobs(map[i])
    BY DEF Acceptable
  <1>3. gpu \subseteq found
    BY DEF AcceptableGpu
  <1>4. ASSUME NEW i \in DOMAIN map, HasRemainingJobs(map[i])
        PROVE  RunJob(i, NextJobName(map[i])) \in Response
    <2>1. NextJobName(map[i]) \in JobNames
      BY <1>1, <1>4 DEF NextJobName, Last, HasRemainingJobs, JobSet
    <2> QED
      BY <1>1, <2>1 DEF RunJob, Response
  <1>5. \A i \in Nat : JobInit(i) \in Response /\ JobInit(i).kind = "JobInit"
    BY DEF JobInit, Response
  <1>6. first \in Response /\ first.kind # "Job"
    <2>1. CASE found = {}
      BY <2>1 DEF TakeFirstJob, EmptyJobs, Response
    <2>2. CASE found # {}
      <3> HIDE DEF found
      <3>1. Min(found) \in Nat
        BY <1>1, <1>2, <2>2, MinInSet
      <3>2. first = JobInit(Min(found))
        BY <2>2 DEF TakeFirstJob, found
      <3> QED
        BY <1>5, <3>1, <3>2
    <2> QED
      BY <2>1, <2>2
  <1>7. gpu # {} => Min(gpu) \in gpu
    <2>1. gpu \in SUBSET Nat
      BY <1>1, <1>2, <1>3
    <2> HIDE DEF gpu
    <2> QED
      BY <2>1, MinInSet
  <1>8. \/ /\ response = RunJob(current, NextJobName(map[current]))
           /\ current \in DOMAIN map /\ HasRemainingJobs(map[current])
        \/ \E i \in Nat : response = JobInit(i)
        \/ response = first
    <2>1. CASE gpu # {} /\ Min(gpu) = current
      BY <1>2, <1>3, <1>7, <2>1 DEF FetchResponse
    <2>2. CASE gpu # {} /\ Min(gpu) # current
      BY <1>1, <1>2, <1>3, <1>7, <2>2 DEF FetchResponse
    <2>3. CASE gpu = {} /\ HasJobById(map, current, failures)
      BY <2>3 DEF FetchResponse, HasJobById
    <2>4. CASE gpu = {} /\ ~HasJobById(map, current, failures)
      BY <2>4 DEF FetchResponse
    <2> QED
      BY <2>1, <2>2, <2>3, <2>4
  <1> HIDE DEF first, gpu, found
  <1> QED
    BY <1>4, <1>5, <1>6, <1>8 DEF RunJob

\* The job handed out was waiting, hence with nobody, and now runs at the
\* node that asked (fetch_new_task, next_job).
LEMMA HandleNewJobStep ==
  ASSUME IInv, HandleNewJob
  PROVE  IInv'
PROOF
  <1> DEFINE request == Head(requests)
             node == request.node
             response == FetchResponse(map, request.initialized_job,
                                       NodeCaps[node], request.build_failures)
             i == response.ident
             job == response.job_name
  <1>1. Receive("NewJob") /\ request \in Request /\ request.type = "NewJob"
    BY ReceiveFacts DEF IInv, TypeOK, HandleNewJob
  <1>2. node \in Nodes /\ request.initialized_job \in Nat
    BY <1>1, RequestFields
  <1>3. /\ map' = AfterFetch(map, response, node)
        /\ reply' = [reply EXCEPT ![node] = response]
        /\ UNCHANGED <<last_identifier, killed, phase, compiled, held, errored_jobs,
                       cancelled, cancellations, boundVars>>
    BY DEF HandleNewJob
  <1>4. /\ response \in Response
        /\ response.kind = "Job" =>
             /\ i \in DOMAIN map
             /\ HasRemainingJobs(map[i])
             /\ job = NextJobName(map[i])
    BY <1>2, FetchResponseFacts DEF IInv
  <1> HIDE DEF response, request
  <1>5. /\ requests' \in Seq(Request) /\ Len(requests') <= RequestCap
        /\ \A k \in Reporting' : k + 1 \in Reporting /\ requests'[k] = requests[k + 1]
        /\ Reporting' \subseteq Nat
    BY <1>1, ReceiveFacts DEF IInv, TypeOK, Reporting
  <1>6. /\ \A m \in Answered' : \/ m = node /\ reply'[m] = response /\ response.kind = "Job"
                                \/ m # node /\ m \in Answered /\ reply'[m] = reply[m]
        /\ Holding' = Holding /\ held' = held
    BY <1>2, <1>3 DEF IInv, TypeOK, Answered, Holding
  <1>7. CASE response.kind # "Job"
    <2>1. UNCHANGED map
      BY <1>3, <1>7 DEF AfterFetch
    <2>2. TypeOK' /\ BusyHolds'
      BY <1>3, <1>4, <1>5, <2>1 DEF IInv, TypeOK, BusyHolds, Holding, boundVars
    <2> QED
      BY <1>5, <1>6, <1>7, <2>1, <2>2, QuietStep
  <1>8. CASE response.kind = "Job"
    <2> DEFINE run == [job_name |-> job, node |-> node]
    <2>1. map' = [map EXCEPT ![i] = NextJob(map[i], node)] /\ DOMAIN map' = DOMAIN map
      BY <1>3, <1>8 DEF AfterFetch
    <2>2. map[i] \in JobSet /\ ListedOnce(map[i])
      BY <1>4, <1>8 DEF IInv, TypeOK, JobListedOnce
    <2>3. /\ \A r \in Running(map[i]) : r.job_name # job
          /\ map'[i] \in JobSet /\ ListedOnce(map'[i])
          /\ Running(map'[i]) = Running(map[i]) \cup {run}
      BY <1>2, <1>4, <1>8, <2>1, <2>2, NextJobFacts
    <2>4. \A l \in DOMAIN map : l # i => map'[l] = map[l]
      BY <2>1
    <2>5. JobListedOnce'
      BY <2>1, <2>3, <2>4 DEF IInv, JobListedOnce
    <2>6. map' \in [DOMAIN map' -> JobSet]
      BY <2>1, <2>3, <2>4 DEF IInv, TypeOK
    <2>7. TypeOK' /\ BusyHolds'
      BY <1>3, <1>4, <1>5, <2>1, <2>6 DEF IInv, TypeOK, BusyHolds, Holding, boundVars
    <2>8. \A x, n : RunsIn(map, x, n) => RunsIn(map', x, n) /\ ~SameJob(x, response)
      BY <2>1, <2>3, <2>4 DEF RunsIn, SameJob
    <2>9. RunsIn(map', response, node)
      BY <1>4, <1>8, <2>1, <2>3 DEF RunsIn
    <2>10. AccountedJobsRun'
      <3>1. \A n \in Answered' : RunsIn(map', reply'[n], n)
        BY <1>6, <2>8, <2>9, RunsAtIsRunsIn DEF IInv, AccountedJobsRun
      <3>2. \A n \in Holding' : RunsIn(map', held'[n], n)
        BY <1>6, <2>8, RunsAtIsRunsIn DEF IInv, AccountedJobsRun
      <3>3. \A k \in Reporting' : RunsIn(map', requests'[k], requests'[k].node)
        BY <1>5, <2>8, RunsAtIsRunsIn DEF IInv, AccountedJobsRun
      <3> QED
        BY <3>1, <3>2, <3>3 DEF AccountedJobsRun, RunsAt, RunsIn, Running
    <2>11. JobHeldOnce'
      <3>1. /\ \A m \in Answered : ~SameJob(reply[m], response)
            /\ \A m \in Holding : ~SameJob(held[m], response)
            /\ \A k \in Reporting : ~SameJob(requests[k], response)
        BY <2>8, RunsAtIsRunsIn DEF IInv, AccountedJobsRun
      <3>2. \A k, l \in Reporting' : SameJob(requests'[k], requests'[l]) => k = l
        <4> SUFFICES ASSUME NEW k \in Reporting', NEW l \in Reporting',
                            SameJob(requests'[k], requests'[l])
                     PROVE  k = l
          OBVIOUS
        <4>1. k + 1 = l + 1
          BY <1>5 DEF IInv, JobHeldOnce
        <4> QED
          BY <1>5, <4>1
      <3> QED
        BY SMTT(30), <1>5, <1>6, <3>1, <3>2 DEF IInv, JobHeldOnce, SameJob
    <2> QED
      BY <2>5, <2>7, <2>10, <2>11 DEF IInv
  <1> QED
    BY <1>7, <1>8

\* A request is served that hands nothing out.  The jobs that run keep running,
\* but for the one the request reports on, for which nobody else accounts.
LEMMA ServedStep ==
  ASSUME IInv, NEW type, Receive(type), UNCHANGED <<phase, reply, held>>,
         TypeOK', JobListedOnce',
         \A x, n : /\ RunsIn(map, x, n)
                   /\ 1 \in Reporting => ~SameJob(x, Head(requests))
                   => RunsIn(map', x, n)
  PROVE  IInv'
PROOF
  <1> DEFINE request == Head(requests)
  <1>1. /\ request = requests[1]
        /\ \A k \in Reporting' : /\ k + 1 \in Reporting /\ k + 1 # 1
                                 /\ requests'[k] = requests[k + 1]
        /\ Reporting' \subseteq Nat
    BY ReceiveFacts DEF IInv, TypeOK, Reporting
  <1>2. Answered' = Answered /\ Holding' = Holding
    BY DEF Answered, Holding
  <1> HIDE DEF request
  <1>3. JobHeldOnce'
    BY <1>1, <1>2, HeldOnceKept DEF IInv
  <1>4. BusyHolds'
    BY <1>2 DEF IInv, BusyHolds
  <1>5. AccountedJobsRun'
    <2>1. \A n \in Answered : RunsIn(map', reply[n], n)
      BY <1>1, RunsAtIsRunsIn DEF IInv, AccountedJobsRun, JobHeldOnce, SameJob, request
    <2>2. \A n \in Holding : RunsIn(map', held[n], n)
      BY <1>1, RunsAtIsRunsIn DEF IInv, AccountedJobsRun, JobHeldOnce, SameJob, request
    <2>3. \A k \in Reporting : k # 1 => RunsIn(map', requests[k], requests[k].node)
      BY <1>1, RunsAtIsRunsIn DEF IInv, AccountedJobsRun, JobHeldOnce, SameJob, request
    <2>4. \A k \in Reporting' : RunsIn(map', requests'[k], requests'[k].node)
      BY <1>1, <2>3
    <2> QED
      BY <1>2, <2>1, <2>2, <2>4 DEF AccountedJobsRun, RunsAt, RunsIn, Running
  <1> QED
    BY <1>3, <1>4, <1>5 DEF IInv

\* The first request, when it is a report, is about a job that runs.
LEMMA ReportedJobRuns ==
  ASSUME IInv, NEW type \in {"FinishJob", "DeadNode"}, Receive(type)
  PROVE  LET request == Head(requests)
         IN  /\ 1 \in Reporting
             /\ request.ident \in DOMAIN map /\ request.job_name \in JobNames
             /\ map[request.ident] \in JobSet /\ ListedOnce(map[request.ident])
             /\ \E r \in Running(map[request.ident]) : r.job_name = request.job_name
PROOF
  <1> DEFINE request == Head(requests)
  <1>1. /\ request = requests[1] /\ 1 \in DOMAIN requests
        /\ request \in Request /\ request.type = type
    BY ReceiveFacts DEF IInv, TypeOK
  <1> HIDE DEF request
  <1>2. request.job_name \in JobNames
    BY <1>1, RequestFields
  <1>3. 1 \in Reporting
    BY <1>1 DEF Reporting
  <1>4. RunsIn(map, request, request.node)
    BY <1>1, <1>3, RunsAtIsRunsIn DEF IInv, AccountedJobsRun
  <1>5. request.ident \in DOMAIN map
    BY <1>4 DEF RunsIn
  <1>6. \E r \in Running(map[request.ident]) : r.job_name = request.job_name
    BY <1>4 DEF RunsIn
  <1>7. map[request.ident] \in JobSet /\ ListedOnce(map[request.ident])
    BY <1>5 DEF IInv, TypeOK, JobListedOnce
  <1> QED
    BY <1>2, <1>3, <1>5, <1>6, <1>7 DEF request

\* The job returned waits again and nobody accounts for it any more
\* (add_job_back, add_errored_job).
LEMMA HandleDeadNodeStep ==
  ASSUME IInv, HandleDeadNode
  PROVE  IInv'
PROOF
  <1> DEFINE request == Head(requests)
             i == request.ident
             job == request.job_name
             after == AddErroredJob(map[i], job)
  <1>1. /\ Receive("DeadNode") /\ map' = AddJobBack(map, i, job)
        /\ UNCHANGED <<last_identifier, killed, nodeVars, cancellations, boundVars>>
    BY DEF HandleDeadNode
  <1>2. /\ 1 \in Reporting /\ i \in DOMAIN map /\ job \in JobNames
        /\ map[i] \in JobSet /\ ListedOnce(map[i])
        /\ \E r \in Running(map[i]) : r.job_name = job
    BY <1>1, ReportedJobRuns
  <1>3. /\ after \in JobSet /\ ListedOnce(after)
        /\ Running(after) = {r \in Running(map[i]) : r.job_name # job}
    BY <1>2, AddErroredFacts
  <1>4. requests' \in Seq(Request) /\ Len(requests') <= RequestCap
    BY <1>1, ReceiveFacts DEF IInv, TypeOK
  <1> HIDE DEF request, after
  <1>5. map' = [map EXCEPT ![i] = after]
    BY <1>1, <1>2 DEF AddJobBack, after
  <1>6. map' \in [DOMAIN map' -> JobSet] /\ DOMAIN map' = DOMAIN map
    BY <1>3, <1>5 DEF IInv, TypeOK
  <1>7. TypeOK'
    BY <1>1, <1>4, <1>6 DEF IInv, TypeOK, nodeVars, boundVars
  <1>8. JobListedOnce'
    BY <1>3, <1>5 DEF IInv, JobListedOnce
  <1>9. \A x, n : RunsIn(map, x, n) /\ ~SameJob(x, request) => RunsIn(map', x, n)
    BY <1>2, <1>3, <1>5 DEF RunsIn, SameJob
  <1> QED
    BY <1>1, <1>2, <1>7, <1>8, <1>9, ServedStep DEF nodeVars, request

\* The job finished leaves its set, and the set the map only when no other
\* job of it runs (finish_job).
LEMMA HandleFinishJobStep ==
  ASSUME IInv, HandleFinishJob
  PROVE  IInv'
PROOF
  <1> DEFINE request == Head(requests)
             i == request.ident
             job == request.job_name
             after == RemoveRunningJobByName(map[i], job)
  <1>1. /\ Receive("FinishJob") /\ map' = FinishJob(map, i, job)
        /\ UNCHANGED <<last_identifier, killed, nodeVars, cancellations, boundVars>>
    BY DEF HandleFinishJob
  <1>2. /\ 1 \in Reporting /\ i \in DOMAIN map /\ job \in JobNames
        /\ map[i] \in JobSet /\ ListedOnce(map[i])
    BY <1>1, ReportedJobRuns
  <1>3. /\ after \in JobSet /\ ListedOnce(after)
        /\ Running(after) = {r \in Running(map[i]) : r.job_name # job}
    BY <1>2, RemoveRunningFacts
  <1>4. requests' \in Seq(Request) /\ Len(requests') <= RequestCap
    BY <1>1, ReceiveFacts DEF IInv, TypeOK
  <1> HIDE DEF request, after
  <1>5. CASE IsFinished(after)
    <2>1. map' = [l \in DOMAIN map \ {i} |-> map[l]]
      BY <1>1, <1>2, <1>5 DEF FinishJob, Restrict, after
    <2>2. Running(after) = {}
      BY <1>5 DEF IsFinished, Running, Range
    <2>3. TypeOK'
      <3>1. map' \in [DOMAIN map' -> JobSet] /\ DOMAIN map' \subseteq DOMAIN map
        BY <2>1 DEF IInv, TypeOK
      <3> QED
        BY <1>1, <1>4, <3>1 DEF IInv, TypeOK, nodeVars, boundVars
    <2>4. JobListedOnce'
      BY <2>1 DEF IInv, JobListedOnce
    <2>5. \A x, n : RunsIn(map, x, n) /\ ~SameJob(x, request) => RunsIn(map', x, n)
      <3> SUFFICES ASSUME NEW x, NEW n, RunsIn(map, x, n), ~SameJob(x, request)
                   PROVE  RunsIn(map', x, n)
        OBVIOUS
      <3>1. x.ident # i
        <4> SUFFICES ASSUME x.ident = i PROVE FALSE
          OBVIOUS
        <4>1. [job_name |-> x.job_name, node |-> n] \in Running(map[i])
          BY DEF RunsIn
        <4>2. x.job_name # job
          BY DEF SameJob
        <4>3. [job_name |-> x.job_name, node |-> n].job_name = x.job_name
          OBVIOUS
        <4>4. [job_name |-> x.job_name, node |-> n] \in Running(after)
          BY <1>3, <4>1, <4>2, <4>3
        <4> QED
          BY <2>2, <4>4
      <3> QED
        BY <2>1, <3>1 DEF RunsIn
    <2> QED
      BY <1>1, <1>2, <2>3, <2>4, <2>5, ServedStep DEF nodeVars, request
  <1>6. CASE ~IsFinished(after)
    <2>1. map' = [map EXCEPT ![i] = after]
      BY <1>1, <1>2, <1>6 DEF FinishJob, after
    <2>2. map' \in [DOMAIN map' -> JobSet] /\ DOMAIN map' = DOMAIN map
      BY <1>3, <2>1 DEF IInv, TypeOK
    <2>3. TypeOK'
      BY <1>1, <1>4, <2>2 DEF IInv, TypeOK, nodeVars, boundVars
    <2>4. JobListedOnce'
      BY <1>3, <2>1 DEF IInv, JobListedOnce
    <2>5. \A x, n : RunsIn(map, x, n) /\ ~SameJob(x, request) => RunsIn(map', x, n)
      BY <1>2, <1>3, <2>1 DEF RunsIn, SameJob
    <2> QED
      BY <1>1, <1>2, <2>3, <2>4, <2>5, ServedStep DEF nodeVars, request
  <1> QED
    BY <1>5, <1>6

\* A new batch comes under a new identifier; nobody has a job of it yet
\* (insert_new_batch).
LEMMA HandleAddJobSetStep ==
  ASSUME IInv, HandleAddJobSet
  PROVE  IInv'
PROOF
  <1> DEFINE b == Head(requests).batch
  <1>1. /\ Receive("AddJobSet") /\ last_identifier' = last_identifier + 1
        /\ map' = InsertNewBatch(map, last_identifier', b)
        /\ UNCHANGED <<killed, nodeVars, cancellations, boundVars>>
    BY DEF HandleAddJobSet
  <1>2. b \in Batches /\ requests' \in Seq(Request) /\ Len(requests') <= RequestCap
    BY <1>1, ReceiveFacts, RequestFields DEF IInv, TypeOK
  <1>3. FromConfig(b) \in JobSet /\ ListedOnce(FromConfig(b))
    BY <1>2, FromConfigFacts
  <1> HIDE DEF b
  <1>4. /\ DOMAIN map' = DOMAIN map \cup {last_identifier + 1}
        /\ map'[last_identifier + 1] = FromConfig(b)
        /\ last_identifier + 1 \notin DOMAIN map
        /\ \A i \in DOMAIN map : map'[i] = map[i]
        /\ map' = [i \in DOMAIN map' |-> map'[i]]
    BY <1>1 DEF InsertNewBatch, IInv, TypeOK
  <1>5. TypeOK'
    <2>1. map' \in [DOMAIN map' -> JobSet]
      BY <1>3, <1>4 DEF IInv, TypeOK
    <2>2. /\ last_identifier' \in Nat /\ DOMAIN map' \subseteq 1..last_identifier'
          /\ killed' \subseteq 1..last_identifier'
      <3>1. /\ last_identifier \in Nat /\ DOMAIN map \subseteq 1..last_identifier
            /\ killed \subseteq 1..last_identifier
        BY DEF IInv, TypeOK
      <3>2. /\ last_identifier + 1 \in 1..(last_identifier + 1)
            /\ 1..last_identifier \subseteq 1..(last_identifier + 1)
        BY <3>1
      <3> QED
        BY <1>1, <1>4, <3>1, <3>2
    <2> QED
      BY <1>1, <1>2, <2>1, <2>2 DEF IInv, TypeOK, nodeVars, boundVars
  <1>6. JobListedOnce'
    BY <1>3, <1>4 DEF IInv, JobListedOnce
  <1>7. \A x, n : RunsIn(map, x, n) => RunsIn(map', x, n)
    BY <1>4 DEF RunsIn
  <1> QED
    BY <1>1, <1>5, <1>6, <1>7, ServedStep DEF nodeVars

\* clear_remaining_jobs drops jobs that are with nobody (cancel_batch).
LEMMA HandleKillStep ==
  ASSUME IInv, HandleKill
  PROVE  IInv'
PROOF
  <1> DEFINE named == NamedSets(map, Head(requests).batch_name)
             i == Min(named)
             after == ClearRemainingJobs(map[i])
  <1>1. /\ Receive("CancelBatchByName") /\ named # {}
        /\ cancellations' = [n \in Nodes |-> Broadcast(cancellations[n], i)]
        /\ map' = [map EXCEPT ![i] = after]
        /\ killed' = killed \cup {i}
        /\ UNCHANGED <<last_identifier, nodeVars, boundVars>>
    BY DEF HandleKill, CancelBatch
  <1>2. i \in DOMAIN map
    <2>1. named \in SUBSET Nat /\ named \subseteq DOMAIN map
      BY DEF NamedSets, IInv, TypeOK
    <2>2. named # {}
      BY <1>1
    <2> HIDE DEF named
    <2> QED
      BY <2>1, <2>2, MinInSet
  <1>3. requests' \in Seq(Request) /\ Len(requests') <= RequestCap
    BY <1>1, ReceiveFacts DEF IInv, TypeOK
  <1>4. 1 \notin Reporting
    BY <1>1, ReceiveFacts DEF IInv, TypeOK, Reporting
  <1> HIDE DEF i, after
  <1>5. after \in JobSet /\ ListedOnce(after) /\ Running(after) = Running(map[i])
    BY <1>2, ClearFacts DEF IInv, TypeOK, JobListedOnce, after
  <1>6. cancellations' \in [Nodes -> Seq(Nat)]
    <2>1. i \in Nat
      BY <1>2 DEF IInv, TypeOK
    <2>2. ASSUME NEW q \in Seq(Nat) PROVE Broadcast(q, i) \in Seq(Nat)
      <3>1. CASE Len(q) < CancelCap
        BY <2>1, <3>1 DEF Broadcast
      <3>2. CASE ~(Len(q) < CancelCap)
        <4>1. Len(q) # 0 /\ Tail(q) \in Seq(Nat)
          BY <3>2, PoolAssumption
        <4> QED
          BY <2>1, <3>2, <4>1 DEF Broadcast
      <3> QED
        BY <3>1, <3>2
    <2> QED
      BY <1>1, <2>2 DEF IInv, TypeOK
  <1>7. TypeOK'
    <2>1. map' \in [DOMAIN map' -> JobSet] /\ DOMAIN map' = DOMAIN map
      BY <1>1, <1>5 DEF IInv, TypeOK
    <2>2. killed' \subseteq 1..last_identifier
      BY <1>1, <1>2 DEF IInv, TypeOK
    <2> QED
      BY <1>1, <1>3, <1>6, <2>1, <2>2 DEF IInv, TypeOK, nodeVars, boundVars
  <1>8. JobListedOnce'
    BY <1>1, <1>5 DEF IInv, JobListedOnce
  <1>9. \A x, n : RunsIn(map, x, n) => RunsIn(map', x, n)
    BY <1>1, <1>2, <1>5 DEF RunsIn
  <1> QED
    BY <1>1, <1>7, <1>8, <1>9, ServedStep DEF nodeVars

\* A kill of an unknown name takes its request out of the channel.
LEMMA HandleKillInVainStep ==
  ASSUME IInv, HandleKillInVain
  PROVE  IInv'
PROOF
  <1>1. /\ Receive("CancelBatchByName")
        /\ UNCHANGED <<poolVars, nodeVars, cancellations, boundVars>>
    BY DEF HandleKillInVain
  <1>2. requests' \in Seq(Request) /\ Len(requests') <= RequestCap
    BY <1>1, ReceiveFacts DEF IInv, TypeOK
  <1>3. TypeOK' /\ JobListedOnce'
    BY <1>1, <1>2 DEF IInv, TypeOK, JobListedOnce, poolVars, nodeVars, boundVars
  <1>4. \A x, n : RunsIn(map, x, n) => RunsIn(map', x, n)
    BY <1>1 DEF RunsIn, poolVars
  <1> QED
    BY <1>1, <1>3, <1>4, ServedStep DEF nodeVars

-----------------------------------------------------------------------------
(* The theorems                                                            *)

\* A step that changes nothing keeps the invariant.
LEMMA StutterStep ==
  ASSUME IInv, UNCHANGED vars
  PROVE  IInv'
PROOF
  <1>1. TypeOK' /\ JobListedOnce' /\ BusyHolds' /\ JobHeldOnce' /\ AccountedJobsRun'
    BY DEF vars, poolVars, nodeVars, boundVars, IInv, TypeOK, JobListedOnce,
           BusyHolds, JobHeldOnce, AccountedJobsRun, RunsAt, Answered, Holding,
           Reporting
  <1> QED
    BY <1>1 DEF IInv

\* Every step of the server keeps the invariant.
LEMMA NextIInv ==
  ASSUME IInv, [Next]_vars
  PROVE  IInv'
PROOF
  <1>1. CASE UserStep
    BY <1>1, UserAddsStep, UserKillsStep DEF UserStep
  <1>2. CASE PoolStep
    BY <1>2, HandleNewJobStep, HandleFinishJobStep, HandleDeadNodeStep,
       HandleAddJobSetStep, HandleKillStep, HandleKillInVainStep DEF PoolStep
  <1>3. ASSUME NEW n \in Nodes, NodeStep(n) PROVE IInv'
    BY <1>3, ConnectToNodeStep, FetchNewJobStep, NoJobsStep, StartBuildStep,
       BuildSucceedsStep, BuildFailsStep, SwitchBatchStep, StartJobStep,
       SendInputsStep, ReadCancellationStep, JobCancelledStep, JobEndsStep,
       ReceiveFilesStep DEF NodeStep
  <1>4. ASSUME NEW n \in Nodes, LinkFails(n) PROVE IInv'
    BY <1>4, MissKeepaliveStep, LoseBuildStep, LoseHandoffStep, LoseJobStep
       DEF LinkFails
  <1>5. CASE UNCHANGED vars
    BY <1>5, StutterStep
  <1> QED
    BY <1>1, <1>2, <1>3, <1>4, <1>5 DEF Next

\* The invariant holds throughout.
THEOREM Invariance == Spec => []IInv
PROOF
  <1>1. Init => IInv
    BY InitIInv
  <1>2. IInv /\ [Next]_vars => IInv'
    BY NextIInv
  <1> QED
    BY <1>1, <1>2, PTL DEF Spec

\* Every variable keeps its type, the channel to the job pool its bound, and
\* the map only identifiers that were given out (GpuPriority, run_node).
THEOREM TypeCorrect == Spec => []TypeOK
PROOF
  <1>1. IInv => TypeOK
    BY DEF IInv
  <1> QED
    BY <1>1, Invariance, PTL

\* However links and nodes fail and whoever kills what, no job is with two
\* nodes, nor with a node while a report on it is still in the channel
\* (fetch_new_task, finish_job, add_job_back).
THEOREM MutualExclusion == Spec => []JobHeldOnce
PROOF
  <1>1. IInv => JobHeldOnce
    BY DEF IInv
  <1> QED
    BY <1>1, Invariance, PTL

\* A report always finds its set, and the set the job among those that run at
\* the node that reports: the "This should not happen" branches of finish_job
\* and add_job_back are dead code.
THEOREM ReportsFindTheirJob == Spec => []AccountedJobsRun
PROOF
  <1>1. IInv => AccountedJobsRun
    BY DEF IInv
  <1> QED
    BY <1>1, Invariance, PTL

\* No set ever lists a job twice, whatever is returned and handed out again
\* (next_job, add_errored_job, remove_running_job_by_name).
THEOREM ListedExactlyOnce == Spec => []JobListedOnce
PROOF
  <1>1. IInv => JobListedOnce
    BY DEF IInv
  <1> QED
    BY <1>1, Invariance, PTL

-----------------------------------------------------------------------------
(* Sets that linger                                                        *)

\* distribute add refuses a configuration without jobs (src/src/add.rs).
NoEmptyBatch == \A b \in Batches : b.jobs # << >>

\* A set that starts a job or gets one back has a job.
LEMMA JobsInSets ==
  ASSUME NEW set \in JobSet
  PROVE  /\ \A n : ~IsFinished(NextJob(set, n))
         /\ \A job \in JobNames : ListedOnce(set) => ~IsFinished(AddErroredJob(set, job))
PROOF
  <1>1. set.running_jobs \in Seq(RunningJob) /\ set.remaining_jobs \in Seq(JobNames)
    BY DEF JobSet
  <1>2. ASSUME NEW n PROVE ~IsFinished(NextJob(set, n))
    <2>1. \A x : Append(set.running_jobs, x) # << >>
      BY <1>1
    <2>2. NextJob(set, n).running_jobs
            = Append(set.running_jobs, [job_name |-> NextJobName(set), node |-> n])
      BY DEF NextJob, JobSet
    <2> QED
      BY <2>1, <2>2 DEF IsFinished
  <1>3. ASSUME NEW job \in JobNames, ListedOnce(set)
        PROVE  ~IsFinished(AddErroredJob(set, job))
    <2>1. PICK stopped \in JobSet : stopped = RemoveRunningJobByName(set, job)
      BY <1>3, RemoveRunningFacts
    <2>2. stopped.remaining_jobs \in Seq(JobNames)
      BY DEF JobSet
    <2>3. AddErroredJob(set, job).remaining_jobs = Append(stopped.remaining_jobs, job)
      BY <2>1 DEF AddErroredJob, JobSet
    <2>4. Append(stopped.remaining_jobs, job) # << >>
      BY <2>2
    <2> QED
      BY <2>3, <2>4 DEF IsFinished, HasRemainingJobs
  <1> QED
    BY <1>2, <1>3

\* No step empties a set but the one that drops it and the kill.
LEMMA NoneEmptied ==
  ASSUME NoEmptyBatch, IInv, OnlyKilledSetsLinger, [Next]_vars
  PROVE  OnlyKilledSetsLinger'
PROOF
  <1> SUFFICES ASSUME NEW i \in DOMAIN map', IsFinished(map'[i]) PROVE i \in killed'
    BY DEF OnlyKilledSetsLinger
  <1>1. \A k \in DOMAIN map : map[k] \in JobSet /\ ListedOnce(map[k])
    BY DEF IInv, TypeOK, JobListedOnce
  <1>2. CASE HandleNewJob
    <2>1. PICK response, n : map' = AfterFetch(map, response, n)
      BY <1>2 DEF HandleNewJob
    <2>2. killed' = killed
      BY <1>2 DEF HandleNewJob
    <2>3. i \in DOMAIN map /\ (map'[i] = map[i] \/ map'[i] = NextJob(map[i], n))
      BY <2>1 DEF AfterFetch, IInv, TypeOK
    <2> QED
      BY <1>1, <2>2, <2>3, JobsInSets DEF OnlyKilledSetsLinger
  <1>3. CASE HandleFinishJob
    <2>1. PICK ident, job : map' = FinishJob(map, ident, job)
      BY <1>3 DEF HandleFinishJob
    <2>2. killed' = killed
      BY <1>3 DEF HandleFinishJob
    <2>3. i \in DOMAIN map /\ map'[i] = map[i]
      BY <2>1 DEF FinishJob, Restrict, IInv, TypeOK
    <2> QED
      BY <2>2, <2>3 DEF OnlyKilledSetsLinger
  <1>4. CASE HandleDeadNode
    <2>1. PICK ident, job : /\ ident = Head(requests).ident /\ job = Head(requests).job_name
                            /\ map' = AddJobBack(map, ident, job)
      BY <1>4 DEF HandleDeadNode
    <2>2. killed' = killed /\ job \in JobNames
      BY <1>4, <2>1, ReportedJobRuns DEF HandleDeadNode
    <2>3. i \in DOMAIN map /\ (map'[i] = map[i] \/ map'[i] = AddErroredJob(map[i], job))
      BY <2>1 DEF AddJobBack, IInv, TypeOK
    <2> QED
      BY <1>1, <2>2, <2>3, JobsInSets DEF OnlyKilledSetsLinger
  <1>5. CASE HandleAddJobSet
    <2>1. PICK b : b = Head(requests).batch
      OBVIOUS
    <2>2. b \in Batches
      BY <1>5, <2>1, ReceiveFacts, RequestFields DEF HandleAddJobSet, IInv, TypeOK
    <2>3. killed' = killed /\ (map'[i] = FromConfig(b) \/ (i \in DOMAIN map /\ map'[i] = map[i]))
      BY <1>5, <2>1 DEF HandleAddJobSet, InsertNewBatch
    <2>4. ~IsFinished(FromConfig(b))
      BY <2>2 DEF NoEmptyBatch, FromConfig, IsFinished, HasRemainingJobs
    <2> QED
      BY <2>3, <2>4 DEF OnlyKilledSetsLinger
  <1>6. CASE HandleKill
    <2>1. PICK k : map' = CancelBatch(map, k) /\ killed' = killed \cup {k}
      BY <1>6 DEF HandleKill
    <2>2. i \in DOMAIN map /\ (i # k => map'[i] = map[i])
      BY <2>1 DEF CancelBatch, IInv, TypeOK
    <2> QED
      BY <2>1, <2>2 DEF OnlyKilledSetsLinger
  <1>7. CASE UNCHANGED <<map, killed>>
    BY <1>7 DEF OnlyKilledSetsLinger
  <1>8. CASE HandleKillInVain \/ UserStep \/ UNCHANGED vars
    BY <1>7, <1>8 DEF HandleKillInVain, UserStep, UserAdds, UserKills, vars, poolVars
  <1>9. ASSUME NEW n \in Nodes, NodeStep(n) \/ LinkFails(n) PROVE UNCHANGED <<map, killed>>
    BY <1>9 DEF NodeStep, LinkFails, ConnectToNode, FetchNewJob, NoJobs, StartBuild,
       BuildSucceeds, BuildFails, SwitchBatch, StartJob, SendInputs, ReadCancellation,
       JobCancelled, JobEnds, ReceiveFiles, MissKeepalive, LoseBuild, LoseHandoff, LoseJob,
       poolVars
  <1> QED
    BY <1>2, <1>3, <1>4, <1>5, <1>6, <1>7, <1>8, <1>9 DEF Next, PoolStep

\* finish_job drops a set with its last job, whatever the order of reports:
\* only a kill leaves an empty one in the map.
THEOREM OnlyKillsLeaveEmptySets == NoEmptyBatch /\ Spec => []OnlyKilledSetsLinger
PROOF
  <1>1. ASSUME NoEmptyBatch PROVE Spec => []OnlyKilledSetsLinger
    <2>1. Init => OnlyKilledSetsLinger
      BY DEF Init, OnlyKilledSetsLinger
    <2>2. IInv /\ OnlyKilledSetsLinger /\ [Next]_vars => OnlyKilledSetsLinger'
      BY <1>1, NoneEmptied
    <2> QED
      BY <2>1, <2>2, Invariance, PTL DEF Spec
  <1> QED
    BY <1>1

-----------------------------------------------------------------------------
(* Which answers a node task gets, which jobs it runs, and that it moves   *)
(* as NodeTask allows.  The invariant follows the identifier of a batch    *)
(* from the answer to the build and to the job.  A node task that waits    *)
(* for an answer stands still, so that the answer finds it where the       *)
(* request has left it.  The last section follows a kill from its request  *)
(* to the nodes that have a job of the batch.                              *)

Ready == {"prepare_build", "built"}
Busy    == {"send_inputs", "executing", "receive_files"}
Unbuilt == {"uninit", "prepare_build"}

\* A batch that was once a candidate for the node, whether or not it is still
\* in the map.
Buildable(n, i) ==
  /\ i # NoIdent /\ i <= last_identifier
  /\ i \notin errored_jobs[n]
  /\ i \in DOMAIN map => map[i].requirements \subseteq NodeCaps[n]

\* What a node task has built, holds and was answered fits its phase.
NodeFits(n) ==
  /\ phase[n] \in Unbuilt => compiled[n] = NoIdent
  /\ phase[n] \notin Unbuilt => Buildable(n, compiled[n])
  /\ phase[n] \in Busy => held[n] \in Task /\ held[n].ident = compiled[n]
  /\ phase[n] \notin Busy => held[n] = NoTask
  /\ reply[n].kind \in {"Pending", "Job", "JobInit"} => phase[n] \in Ready
  /\ reply[n].kind = "Job" => phase[n] = "built" /\ reply[n].ident = compiled[n]
  /\ reply[n].kind = "JobInit" =>
       reply[n].ident # compiled[n] /\ Buildable(n, reply[n].ident)

\* A request for a job says what the node task that waits has built and what
\* it could not build, and is its only one.
RequestFits(r) ==
  /\ reply[r.node].kind = "Pending"
  /\ r.initialized_job = compiled[r.node]
  /\ r.build_failures = errored_jobs[r.node]

Asking == {k \in DOMAIN requests : requests[k].type = "NewJob"}

RequestsFit ==
  /\ \A k \in Asking : RequestFits(requests[k])
  /\ \A k, l \in Asking : requests[k].node = requests[l].node => k = l

BuildInv == (\A n \in Nodes : NodeFits(n)) /\ RequestsFit

-----------------------------------------------------------------------------
\* In the beginning nothing is built or asked for.
LEMMA InitBuildInv == Init => BuildInv
PROOF
  BY DEF Init, BuildInv, NodeFits, RequestsFit, Asking, Unbuilt, Busy, Idle

-----------------------------------------------------------------------------
(* The steps of a node task                                                *)

\* A step of a node task that does not wait for an answer, and asks for none.
LEMMA NodeMoves ==
  ASSUME IInv, BuildInv, NEW n \in Nodes, NodeFits(n)', reply[n].kind # "Pending",
         UNCHANGED <<map, last_identifier>>,
         \A m \in Nodes \ {n} :
           /\ phase'[m] = phase[m] /\ compiled'[m] = compiled[m] /\ held'[m] = held[m]
           /\ reply'[m] = reply[m] /\ errored_jobs'[m] = errored_jobs[m],
         \/ requests' = requests
         \/ \E r \in Request : r.type # "NewJob" /\ Send(r)
  PROVE  BuildInv'
PROOF
  <1>1. \A m \in Nodes \ {n} : NodeFits(m)'
    BY DEF BuildInv, NodeFits, Buildable
  <1>2. /\ requests \in Seq(Request) /\ Len(requests) <= RequestCap
        /\ DOMAIN requests = 1..Len(requests)
    BY DEF IInv, TypeOK
  <1>3. Asking' = Asking /\ \A k \in Asking : requests'[k] = requests[k]
    <2>1. CASE requests' = requests
      BY <2>1 DEF Asking
    <2>2. ASSUME NEW r \in Request, r.type # "NewJob", Send(r)
          PROVE  Asking' = Asking /\ \A k \in Asking : requests'[k] = requests[k]
      <3>1. /\ DOMAIN requests' = 1..(Len(requests) + 1)
            /\ requests'[Len(requests) + 1] = r
            /\ \A k \in 1..Len(requests) : requests'[k] = requests[k]
        BY <1>2, <2>2, SendFacts
      <3> QED
        BY <1>2, <2>2, <3>1 DEF Asking
    <2> QED
      BY <2>1, <2>2
  <1>4. \A k \in Asking : requests[k].node \in Nodes \ {n}
    <2> SUFFICES ASSUME NEW k \in Asking PROVE requests[k].node \in Nodes \ {n}
      OBVIOUS
    <2>1. requests[k] \in Request /\ requests[k].type = "NewJob"
      BY <1>2 DEF Asking
    <2>2. reply[requests[k].node].kind = "Pending"
      BY DEF BuildInv, RequestsFit, RequestFits
    <2> QED
      BY <2>1, <2>2, RequestFields
  <1>5. RequestsFit'
    BY <1>3, <1>4 DEF BuildInv, RequestsFit, RequestFits
  <1> QED
    BY <1>1, <1>5 DEF BuildInv

\* The request tells what the node task has built and failed to build
\* (fetch_new_job); none of its requests can be in the channel yet.
LEMMA FetchNewJobFits ==
  ASSUME IInv, BuildInv, NEW n \in Nodes, FetchNewJob(n)
  PROVE  BuildInv'
PROOF
  <1> DEFINE r == [type |-> "NewJob", node |-> n, initialized_job |-> compiled[n],
                   build_failures |-> errored_jobs[n]]
  <1>1. /\ requests \in Seq(Request) /\ Len(requests) <= RequestCap
        /\ reply[n].kind # "Pending" /\ phase[n] \in Ready /\ Send(r) /\ r \in Request
    BY DEF IInv, TypeOK, FetchNewJob, Idle, Ready, Request
  <1>2. /\ UNCHANGED <<map, last_identifier, phase, compiled, held, errored_jobs>>
        /\ reply'[n].kind = "Pending"
        /\ \A m \in Nodes \ {n} : reply'[m] = reply[m]
    BY DEF IInv, TypeOK, FetchNewJob, poolVars, Pending
  <1>3. \A m \in Nodes : NodeFits(m)'
    BY <1>1, <1>2 DEF BuildInv, NodeFits, Buildable
  <1>4. /\ r.type = "NewJob" /\ r.node = n /\ r.initialized_job = compiled[n]
        /\ r.build_failures = errored_jobs[n]
    OBVIOUS
  <1> HIDE DEF r
  <1>5. /\ DOMAIN requests' = 1..(Len(requests) + 1) /\ DOMAIN requests = 1..Len(requests)
        /\ requests'[Len(requests) + 1] = r
        /\ \A k \in 1..Len(requests) : requests'[k] = requests[k]
    BY <1>1, SendFacts
  <1>6. \A k \in Asking : requests[k].node \in Nodes \ {n}
    <2> SUFFICES ASSUME NEW k \in Asking PROVE requests[k].node \in Nodes \ {n}
      OBVIOUS
    <2>1. requests[k] \in Request /\ requests[k].type = "NewJob"
      BY <1>1 DEF Asking
    <2>2. reply[requests[k].node].kind = "Pending"
      BY DEF BuildInv, RequestsFit, RequestFits
    <2> QED
      BY <1>1, <2>1, <2>2, RequestFields
  <1>7. Asking' = Asking \cup {Len(requests) + 1} /\ \A k \in Asking : requests'[k] = requests[k]
    BY <1>1, <1>4, <1>5 DEF Asking
  <1>8. \A k \in Asking' : RequestFits(requests[k])'
    BY <1>2, <1>4, <1>5, <1>6, <1>7 DEF BuildInv, RequestsFit, RequestFits
  <1>9. \A k, l \in Asking' : requests'[k].node = requests'[l].node => k = l
    BY <1>4, <1>5, <1>6, <1>7 DEF BuildInv, RequestsFit
  <1> QED
    BY <1>3, <1>8, <1>9 DEF BuildInv, RequestsFit

\* The steps of a node task that neither ask nor report.

\* connect_to_host: nothing is built yet.
LEMMA ConnectToNodeFits ==
  ASSUME IInv, BuildInv, NEW n \in Nodes, ConnectToNode(n)
  PROVE  BuildInv'
PROOF
  <1>1. NodeFits(n) /\ reply[n].kind # "Pending"
    BY DEF BuildInv, NodeFits, ConnectToNode, Ready
  <1>2. /\ UNCHANGED <<map, last_identifier, requests>>
        /\ \A m \in Nodes \ {n} :
             /\ phase'[m] = phase[m] /\ compiled'[m] = compiled[m] /\ held'[m] = held[m]
             /\ reply'[m] = reply[m] /\ errored_jobs'[m] = errored_jobs[m]
    BY DEF IInv, TypeOK, ConnectToNode, poolVars
  <1>3. NodeFits(n)'
    BY <1>1 DEF IInv, TypeOK, NodeFits, Buildable, ConnectToNode, Ready, Busy, Unbuilt, poolVars
  <1> QED
    BY <1>1, <1>2, <1>3, NodeMoves

\* EmptyJobs: the node task will ask again.
LEMMA NoJobsFits ==
  ASSUME IInv, BuildInv, NEW n \in Nodes, NoJobs(n)
  PROVE  BuildInv'
PROOF
  <1>1. NodeFits(n) /\ reply[n].kind # "Pending"
    BY DEF BuildInv, NodeFits, NoJobs, Ready, EmptyJobs
  <1>2. /\ UNCHANGED <<map, last_identifier, requests>>
        /\ \A m \in Nodes \ {n} :
             /\ phase'[m] = phase[m] /\ compiled'[m] = compiled[m] /\ held'[m] = held[m]
             /\ reply'[m] = reply[m] /\ errored_jobs'[m] = errored_jobs[m]
    BY DEF IInv, TypeOK, NoJobs, poolVars
  <1>3. NodeFits(n)'
    BY <1>1 DEF IInv, TypeOK, NodeFits, Buildable, NoJobs, Ready, Busy, Unbuilt, poolVars, EmptyJobs, Idle
  <1> QED
    BY <1>1, <1>2, <1>3, NodeMoves

\* PrepareBuild: the batch of the answer becomes the one that is built.
LEMMA StartBuildFits ==
  ASSUME IInv, BuildInv, NEW n \in Nodes, StartBuild(n)
  PROVE  BuildInv'
PROOF
  <1>1. NodeFits(n) /\ reply[n].kind # "Pending"
    BY DEF BuildInv, NodeFits, StartBuild, Ready
  <1>2. /\ UNCHANGED <<map, last_identifier, requests>>
        /\ \A m \in Nodes \ {n} :
             /\ phase'[m] = phase[m] /\ compiled'[m] = compiled[m] /\ held'[m] = held[m]
             /\ reply'[m] = reply[m] /\ errored_jobs'[m] = errored_jobs[m]
    BY DEF IInv, TypeOK, StartBuild, poolVars
  <1>3. NodeFits(n)'
    BY <1>1 DEF IInv, TypeOK, NodeFits, Buildable, StartBuild, Ready, Busy, Unbuilt, poolVars, Idle
  <1> QED
    BY <1>1, <1>2, <1>3, NodeMoves

\* The batch that was ordered is built.
LEMMA BuildSucceedsFits ==
  ASSUME IInv, BuildInv, NEW n \in Nodes, BuildSucceeds(n)
  PROVE  BuildInv'
PROOF
  <1>1. NodeFits(n) /\ reply[n].kind # "Pending"
    BY DEF BuildInv, NodeFits, BuildSucceeds, Ready
  <1>2. /\ UNCHANGED <<map, last_identifier, requests>>
        /\ \A m \in Nodes \ {n} :
             /\ phase'[m] = phase[m] /\ compiled'[m] = compiled[m] /\ held'[m] = held[m]
             /\ reply'[m] = reply[m] /\ errored_jobs'[m] = errored_jobs[m]
    BY DEF IInv, TypeOK, BuildSucceeds, poolVars
  <1>3. NodeFits(n)'
    BY <1>1 DEF IInv, TypeOK, NodeFits, Buildable, BuildSucceeds, Ready, Busy, Unbuilt, poolVars
  <1> QED
    BY <1>1, <1>2, <1>3, NodeMoves

\* A batch that could not be built is remembered, and none is built.
LEMMA BuildFailsFits ==
  ASSUME IInv, BuildInv, NEW n \in Nodes, BuildFails(n)
  PROVE  BuildInv'
PROOF
  <1>1. NodeFits(n) /\ reply[n].kind # "Pending"
    BY DEF BuildInv, NodeFits, BuildFails, Ready
  <1>2. /\ UNCHANGED <<map, last_identifier, requests>>
        /\ \A m \in Nodes \ {n} :
             /\ phase'[m] = phase[m] /\ compiled'[m] = compiled[m] /\ held'[m] = held[m]
             /\ reply'[m] = reply[m] /\ errored_jobs'[m] = errored_jobs[m]
    BY DEF IInv, TypeOK, BuildFails, poolVars
  <1>3. NodeFits(n)'
    BY <1>1 DEF IInv, TypeOK, NodeFits, Buildable, BuildFails, Ready, Busy, Unbuilt, poolVars
  <1> QED
    BY <1>1, <1>2, <1>3, NodeMoves

\* Another batch comes first: the node forgets the one it has built.
LEMMA SwitchBatchFits ==
  ASSUME IInv, BuildInv, NEW n \in Nodes, SwitchBatch(n)
  PROVE  BuildInv'
PROOF
  <1>1. NodeFits(n) /\ reply[n].kind # "Pending"
    BY DEF BuildInv, NodeFits, SwitchBatch, Ready
  <1>2. /\ UNCHANGED <<map, last_identifier, requests>>
        /\ \A m \in Nodes \ {n} :
             /\ phase'[m] = phase[m] /\ compiled'[m] = compiled[m] /\ held'[m] = held[m]
             /\ reply'[m] = reply[m] /\ errored_jobs'[m] = errored_jobs[m]
    BY DEF IInv, TypeOK, SwitchBatch, poolVars
  <1>3. NodeFits(n)'
    BY <1>1 DEF IInv, TypeOK, NodeFits, Buildable, SwitchBatch, Ready, Busy, Unbuilt, poolVars, Idle
  <1> QED
    BY <1>1, <1>2, <1>3, NodeMoves

\* The job of the answer is of the batch that is built.
LEMMA StartJobFits ==
  ASSUME IInv, BuildInv, NEW n \in Nodes, StartJob(n)
  PROVE  BuildInv'
PROOF
  <1>1. NodeFits(n) /\ reply[n].kind # "Pending"
    BY DEF BuildInv, NodeFits, StartJob, Ready
  <1>2. /\ UNCHANGED <<map, last_identifier, requests>>
        /\ \A m \in Nodes \ {n} :
             /\ phase'[m] = phase[m] /\ compiled'[m] = compiled[m] /\ held'[m] = held[m]
             /\ reply'[m] = reply[m] /\ errored_jobs'[m] = errored_jobs[m]
    BY DEF IInv, TypeOK, StartJob, poolVars
  <1>3. NodeFits(n)'
    <2> DEFINE job == [ident |-> reply[n].ident, job_name |-> reply[n].job_name]
    <2>1. /\ reply[n].kind = "Job" /\ reply[n] \in Response \cup {Idle, Pending}
          /\ phase[n] = "built" /\ reply[n].ident = compiled[n]
          /\ Buildable(n, compiled[n])
      BY <1>1 DEF IInv, TypeOK, NodeFits, StartJob, Unbuilt
    <2>2. job \in Task
      BY <2>1, ReplyFields DEF Task
    <2>3. /\ phase'[n] = "send_inputs" /\ held'[n] = job /\ compiled'[n] = compiled[n]
          /\ reply'[n] = Idle /\ errored_jobs' = errored_jobs
      BY DEF IInv, TypeOK, StartJob
    <2>4. job.ident = compiled[n]
      BY <2>1
    <2>5. Buildable(n, compiled[n])'
      BY <2>1, <2>3 DEF Buildable, StartJob, poolVars
    <2> HIDE DEF job
    <2> QED
      BY <2>1, <2>2, <2>3, <2>4, <2>5 DEF NodeFits, Unbuilt, Busy, Ready, Idle
  <1> QED
    BY <1>1, <1>2, <1>3, NodeMoves

\* The files of the job are sent.
LEMMA SendInputsFits ==
  ASSUME IInv, BuildInv, NEW n \in Nodes, SendInputs(n)
  PROVE  BuildInv'
PROOF
  <1>1. NodeFits(n) /\ reply[n].kind # "Pending"
    BY DEF BuildInv, NodeFits, SendInputs, Ready
  <1>2. /\ UNCHANGED <<map, last_identifier, requests>>
        /\ \A m \in Nodes \ {n} :
             /\ phase'[m] = phase[m] /\ compiled'[m] = compiled[m] /\ held'[m] = held[m]
             /\ reply'[m] = reply[m] /\ errored_jobs'[m] = errored_jobs[m]
    BY DEF IInv, TypeOK, SendInputs, poolVars
  <1>3. NodeFits(n)'
    BY <1>1 DEF IInv, TypeOK, NodeFits, Buildable, SendInputs, Ready, Busy, Unbuilt, poolVars
  <1> QED
    BY <1>1, <1>2, <1>3, NodeMoves

\* A cancellation that is read changes the flag only.
LEMMA ReadCancellationFits ==
  ASSUME IInv, BuildInv, NEW n \in Nodes, ReadCancellation(n)
  PROVE  BuildInv'
PROOF
  <1>1. NodeFits(n) /\ reply[n].kind # "Pending"
    BY DEF BuildInv, NodeFits, ReadCancellation, Ready
  <1>2. /\ UNCHANGED <<map, last_identifier, requests>>
        /\ \A m \in Nodes \ {n} :
             /\ phase'[m] = phase[m] /\ compiled'[m] = compiled[m] /\ held'[m] = held[m]
             /\ reply'[m] = reply[m] /\ errored_jobs'[m] = errored_jobs[m]
    BY DEF IInv, TypeOK, ReadCancellation, poolVars
  <1>3. NodeFits(n)'
    BY <1>1 DEF IInv, TypeOK, NodeFits, Buildable, ReadCancellation, Ready, Busy, Unbuilt, poolVars
  <1> QED
    BY <1>1, <1>2, <1>3, NodeMoves

\* The end of the job is reported by the node.
LEMMA JobEndsFits ==
  ASSUME IInv, BuildInv, NEW n \in Nodes, JobEnds(n)
  PROVE  BuildInv'
PROOF
  <1>1. NodeFits(n) /\ reply[n].kind # "Pending"
    BY DEF BuildInv, NodeFits, JobEnds, Ready
  <1>2. /\ UNCHANGED <<map, last_identifier, requests>>
        /\ \A m \in Nodes \ {n} :
             /\ phase'[m] = phase[m] /\ compiled'[m] = compiled[m] /\ held'[m] = held[m]
             /\ reply'[m] = reply[m] /\ errored_jobs'[m] = errored_jobs[m]
    BY DEF IInv, TypeOK, JobEnds, poolVars
  <1>3. NodeFits(n)'
    BY <1>1 DEF IInv, TypeOK, NodeFits, Buildable, JobEnds, Ready, Busy, Unbuilt, poolVars
  <1> QED
    BY <1>1, <1>2, <1>3, NodeMoves

\* A node task that falls back to Uninit has nothing.
LEMMA ToUninitFits ==
  ASSUME IInv, BuildInv, NEW n \in Nodes, ToUninit(n), UNCHANGED <<map, last_identifier>>
  PROVE  /\ NodeFits(n)'
         /\ \A m \in Nodes \ {n} :
              /\ phase'[m] = phase[m] /\ compiled'[m] = compiled[m] /\ held'[m] = held[m]
              /\ reply'[m] = reply[m] /\ errored_jobs'[m] = errored_jobs[m]
PROOF
  BY DEF IInv, TypeOK, NodeFits, Buildable, ToUninit, Ready, Busy, Unbuilt, Idle

\* The link fails where no job is the node's, or the job is forgotten.
LEMMA LinkFailsFits ==
  ASSUME IInv, BuildInv, NEW n \in Nodes, MissKeepalive(n) \/ LoseBuild(n) \/ LoseHandoff(n)
  PROVE  BuildInv'
PROOF
  <1>1. NodeFits(n)
    BY DEF BuildInv
  <1>2. CASE MissKeepalive(n)
    <2>1. reply[n].kind # "Pending"
      BY <1>2 DEF MissKeepalive, Idle
    <2> QED
      BY <1>2, <2>1, ToUninitFits, NodeMoves DEF MissKeepalive, poolVars
  <1>3. CASE LoseBuild(n)
    <2>1. reply[n].kind # "Pending"
      BY <1>1, <1>3 DEF NodeFits, Ready, LoseBuild
    <2> QED
      BY <1>3, <2>1, ToUninitFits, NodeMoves DEF LoseBuild, poolVars
  <1>4. CASE LoseHandoff(n)
    <2>1. reply[n].kind # "Pending"
      BY <1>4 DEF LoseHandoff
    <2> QED
      BY <1>4, <2>1, ToUninitFits, NodeMoves DEF LoseHandoff, poolVars
  <1> QED
    BY <1>2, <1>3, <1>4

\* A report is about the job held, by a node task that waits for no answer.
LEMMA ReportFits ==
  ASSUME IInv, BuildInv, NEW n \in Nodes, phase[n] \in Busy,
         NEW type \in {"FinishJob", "DeadNode"}, Report(type, n)
  PROVE  /\ NodeFits(n) /\ reply[n].kind # "Pending"
         /\ \E r \in Request : r.type # "NewJob" /\ Send(r)
PROOF
  <1>1. NodeFits(n)
    BY DEF BuildInv
  <1>2. held[n] \in Task
    BY <1>1 DEF NodeFits
  <1>3. [type |-> type, node |-> n, ident |-> held[n].ident, job_name |-> held[n].job_name]
          \in Request
    BY <1>2 DEF Request, Task
  <1> QED
    BY <1>1, <1>3 DEF NodeFits, Report, Busy, Ready

\* The job is cancelled, or its results are there: nothing is held any more.
LEMMA JobReportedFits ==
  ASSUME IInv, BuildInv, NEW n \in Nodes, JobCancelled(n) \/ ReceiveFiles(n)
  PROVE  BuildInv'
PROOF
  <1>1. phase[n] \in Busy /\ Report("FinishJob", n)
    BY DEF JobCancelled, ReceiveFiles, Busy
  <1>2. /\ NodeFits(n) /\ reply[n].kind # "Pending"
        /\ \E r \in Request : r.type # "NewJob" /\ Send(r)
    BY <1>1, ReportFits
  <1>3. /\ UNCHANGED <<map, last_identifier>>
        /\ \A m \in Nodes \ {n} :
             /\ phase'[m] = phase[m] /\ compiled'[m] = compiled[m] /\ held'[m] = held[m]
             /\ reply'[m] = reply[m] /\ errored_jobs'[m] = errored_jobs[m]
    BY DEF IInv, TypeOK, JobCancelled, ReceiveFiles, poolVars
  <1>4. NodeFits(n)'
    <2>1. CASE JobCancelled(n)
      BY <1>2, <2>1 DEF IInv, TypeOK, NodeFits, Buildable, JobCancelled, Ready, Busy, Unbuilt,
                        poolVars
    <2>2. CASE ReceiveFiles(n)
      BY <1>2, <2>2 DEF IInv, TypeOK, NodeFits, Buildable, ReceiveFiles, Ready, Busy, Unbuilt,
                        poolVars
    <2> QED
      BY <2>1, <2>2
  <1> QED
    BY <1>2, <1>3, <1>4, NodeMoves

\* A job is returned by a node task that falls back to Uninit.
LEMMA LoseJobFits ==
  ASSUME IInv, BuildInv, NEW n \in Nodes, LoseJob(n)
  PROVE  BuildInv'
PROOF
  <1>1. phase[n] \in Busy /\ Report("DeadNode", n) /\ ToUninit(n)
    BY DEF LoseJob, Busy
  <1>2. UNCHANGED <<map, last_identifier>>
    BY DEF LoseJob, poolVars
  <1> QED
    BY <1>1, <1>2, ReportFits, ToUninitFits, NodeMoves

-----------------------------------------------------------------------------
(* The job pool                                                            *)

\* A request is served that asks for no job: sets may come under new
\* identifiers, and those there are keep their requirements.
LEMMA PoolServes ==
  ASSUME IInv, BuildInv, NEW type, type # "NewJob", Receive(type),
         UNCHANGED <<phase, reply, compiled, held, errored_jobs>>,
         last_identifier' \in Nat, last_identifier <= last_identifier',
         \A i \in DOMAIN map' :
           \/ i \in DOMAIN map /\ map'[i].requirements = map[i].requirements
           \/ i = last_identifier + 1
  PROVE  BuildInv'
PROOF
  <1>1. ASSUME NEW n \in Nodes, NEW i \in Nat, Buildable(n, i) PROVE Buildable(n, i)'
    <2>1. last_identifier \in Nat
      BY DEF IInv, TypeOK
    <2>2. i # last_identifier + 1 /\ i <= last_identifier'
      BY <1>1, <2>1 DEF Buildable
    <2>3. i \in DOMAIN map' => i \in DOMAIN map /\ map'[i].requirements = map[i].requirements
      BY <2>2
    <2> QED
      BY <1>1, <2>2, <2>3 DEF Buildable
  <1>2. ASSUME NEW n \in Nodes PROVE NodeFits(n)'
    <2>1. /\ compiled[n] \in Nat /\ NodeFits(n)
          /\ reply[n].kind = "JobInit" => reply[n].ident \in Nat
      BY ReplyFields DEF IInv, TypeOK, BuildInv
    <2> QED
      BY <1>1, <2>1 DEF NodeFits
  <1>3. \A k \in Asking' : k \in Nat /\ k + 1 \in Asking /\ requests'[k] = requests[k + 1]
    BY ReceiveFacts DEF IInv, TypeOK, Asking
  <1>4. \A k \in Asking' : RequestFits(requests[k])'
    BY <1>3 DEF BuildInv, RequestsFit, RequestFits
  <1>5. ASSUME NEW k \in Asking', NEW l \in Asking', requests'[k].node = requests'[l].node
        PROVE  k = l
    <2>1. k + 1 = l + 1
      BY <1>3, <1>5 DEF BuildInv, RequestsFit
    <2> QED
      BY <1>3, <2>1
  <1> QED
    BY <1>2, <1>4, <1>5 DEF BuildInv, RequestsFit

\* The set of a job that is finished keeps its requirements or goes.
LEMMA HandleFinishJobFits ==
  ASSUME IInv, BuildInv, HandleFinishJob
  PROVE  BuildInv'
PROOF
  <1> DEFINE i == Head(requests).ident
             job == Head(requests).job_name
             after == RemoveRunningJobByName(map[i], job)
  <1>1. /\ Receive("FinishJob") /\ map' = FinishJob(map, i, job)
        /\ UNCHANGED <<last_identifier, nodeVars>>
    BY DEF HandleFinishJob
  <1>2. after.requirements = map[i].requirements /\ i \in DOMAIN map
    BY <1>1, ReportedJobRuns, RemoveRunningFacts
  <1> HIDE DEF i, after
  <1>3. map' = [l \in DOMAIN map \ {i} |-> map[l]] \/ map' = [map EXCEPT ![i] = after]
    BY <1>1, <1>2 DEF FinishJob, Restrict, after
  <1>4. \A l \in DOMAIN map' : l \in DOMAIN map /\ map'[l].requirements = map[l].requirements
    BY <1>2, <1>3
  <1>5. last_identifier' \in Nat /\ last_identifier <= last_identifier'
    BY <1>1 DEF IInv, TypeOK
  <1> QED
    BY <1>1, <1>4, <1>5, PoolServes DEF nodeVars

\* So does the set of a job that is returned.
LEMMA HandleDeadNodeFits ==
  ASSUME IInv, BuildInv, HandleDeadNode
  PROVE  BuildInv'
PROOF
  <1> DEFINE i == Head(requests).ident
             job == Head(requests).job_name
             stopped == RemoveRunningJobByName(map[i], job)
             after == AddErroredJob(map[i], job)
  <1>1. /\ Receive("DeadNode") /\ map' = AddJobBack(map, i, job)
        /\ UNCHANGED <<last_identifier, nodeVars>>
    BY DEF HandleDeadNode
  <1>2. /\ stopped.requirements = map[i].requirements /\ i \in DOMAIN map
        /\ stopped \in JobSet
    BY <1>1, ReportedJobRuns, RemoveRunningFacts
  <1>3. after = [stopped EXCEPT !.remaining_jobs = Append(@, job)]
    BY DEF AddErroredJob
  <1> HIDE DEF i, stopped, after
  <1>4. after.requirements = stopped.requirements
    BY <1>2, <1>3 DEF JobSet
  <1>5. map' = [map EXCEPT ![i] = after]
    BY <1>1, <1>2 DEF AddJobBack, after
  <1>6. \A l \in DOMAIN map' : l \in DOMAIN map /\ map'[l].requirements = map[l].requirements
    BY <1>2, <1>4, <1>5
  <1>7. last_identifier' \in Nat /\ last_identifier <= last_identifier'
    BY <1>1 DEF IInv, TypeOK
  <1> QED
    BY <1>1, <1>6, <1>7, PoolServes DEF nodeVars

\* A new batch gets an identifier that no node task knows.
LEMMA HandleAddJobSetFits ==
  ASSUME IInv, BuildInv, HandleAddJobSet
  PROVE  BuildInv'
PROOF
  <1>1. /\ Receive("AddJobSet") /\ last_identifier' = last_identifier + 1
        /\ map' = InsertNewBatch(map, last_identifier + 1, Head(requests).batch)
        /\ UNCHANGED nodeVars
    BY DEF HandleAddJobSet
  <1>2. \A i \in DOMAIN map' : \/ i \in DOMAIN map /\ map'[i].requirements = map[i].requirements
                               \/ i = last_identifier + 1
    BY <1>1 DEF InsertNewBatch
  <1>3. last_identifier' \in Nat /\ last_identifier <= last_identifier'
    BY <1>1 DEF IInv, TypeOK
  <1> QED
    BY <1>1, <1>2, <1>3, PoolServes DEF nodeVars

\* A kill takes the jobs of a set, not its requirements.
LEMMA HandleKillFits ==
  ASSUME IInv, BuildInv, HandleKill \/ HandleKillInVain
  PROVE  BuildInv'
PROOF
  <1>1. Receive("CancelBatchByName") /\ UNCHANGED <<last_identifier, nodeVars>>
    BY DEF HandleKill, HandleKillInVain, poolVars
  <1>2. \/ map' = map
        \/ \E i : map' = [map EXCEPT ![i] = ClearRemainingJobs(map[i])]
    BY DEF HandleKill, HandleKillInVain, CancelBatch, poolVars
  <1>3. \A i \in DOMAIN map : ClearRemainingJobs(map[i]).requirements = map[i].requirements
    BY DEF IInv, TypeOK, ClearRemainingJobs, JobSet
  <1>4. \A l \in DOMAIN map' : l \in DOMAIN map /\ map'[l].requirements = map[l].requirements
    BY <1>2, <1>3
  <1>5. last_identifier' \in Nat /\ last_identifier <= last_identifier'
    BY <1>1 DEF IInv, TypeOK
  <1> QED
    BY <1>1, <1>4, <1>5, PoolServes DEF nodeVars

\* What fetch_new_task answers: a job of the batch that is built, and another
\* batch only when that one has no job to give.
LEMMA FetchAnswers ==
  ASSUME TypeOK, JobListedOnce, NEW current \in Nat, NEW caps, NEW failures
  PROVE  LET response == FetchResponse(map, current, caps, failures)
         IN  /\ response.kind \in {"EmptyJobs", "Job", "JobInit"}
             /\ response.kind = "Job" => response.ident = current /\ current \in DOMAIN map
             /\ response.kind = "JobInit" =>
                  response.ident # current /\ response.ident \in Acceptable(map, caps, failures)
PROOF
  <1> DEFINE gpu == AcceptableGpu(map, caps, failures)
             found == Acceptable(map, caps, failures)
             first == TakeFirstJob(map, caps, failures)
             response == FetchResponse(map, current, caps, failures)
  <1>1. gpu \subseteq found /\ found \in SUBSET Nat /\ found \subseteq DOMAIN map
    BY DEF TypeOK, AcceptableGpu, Acceptable
  <1>2. /\ gpu # {} => Min(gpu) \in gpu
        /\ found # {} => Min(found) \in found
    <2>1. gpu \in SUBSET Nat /\ found \in SUBSET Nat
      BY <1>1
    <2> HIDE DEF gpu, found
    <2> QED
      BY <2>1, MinInSet
  <1>3. CASE gpu # {} /\ Min(gpu) = current
    <2>1. response = RunJob(current, NextJobName(map[current]))
      BY <1>3 DEF FetchResponse
    <2> QED
      BY <1>1, <1>2, <1>3, <2>1 DEF RunJob
  <1>4. CASE gpu # {} /\ Min(gpu) # current
    <2>1. response = JobInit(Min(gpu))
      BY <1>4 DEF FetchResponse
    <2> QED
      BY <1>1, <1>2, <1>4, <2>1 DEF JobInit
  <1>5. CASE gpu = {} /\ HasJobById(map, current, failures)
    <2>1. response = RunJob(current, NextJobName(map[current]))
      BY <1>5 DEF FetchResponse
    <2> QED
      BY <1>5, <2>1 DEF RunJob, HasJobById
  <1>6. CASE gpu = {} /\ ~HasJobById(map, current, failures)
    <2>1. response = IF found = {} THEN EmptyJobs ELSE JobInit(Min(found))
      BY <1>6 DEF FetchResponse, TakeFirstJob
    <2>2. current \notin found
      BY <1>6 DEF HasJobById, Acceptable
    <2>3. CASE found = {}
      BY <2>1, <2>3 DEF EmptyJobs
    <2>4. CASE found # {}
      BY <1>2, <2>1, <2>2, <2>4 DEF JobInit
    <2> QED
      BY <2>3, <2>4
  <1> QED
    BY <1>3, <1>4, <1>5, <1>6

\* The node task that asked gets its answer where it waits for it; the others
\* see only a job less in the queue.
LEMMA HandleNewJobFits ==
  ASSUME IInv, BuildInv, HandleNewJob
  PROVE  BuildInv'
PROOF
  <1> DEFINE request == Head(requests)
             node == request.node
             response == FetchResponse(map, request.initialized_job,
                                       NodeCaps[node], request.build_failures)
  <1>1. /\ Receive("NewJob") /\ map' = AfterFetch(map, response, node)
        /\ reply' = [reply EXCEPT ![node] = response]
        /\ UNCHANGED <<last_identifier, phase, compiled, held, errored_jobs>>
    BY DEF HandleNewJob
  <1>2. /\ request \in Request /\ request.type = "NewJob" /\ 1 \in Asking
        /\ request = requests[1]
        /\ \A k \in Asking' : /\ k \in Nat /\ k + 1 \in Asking /\ k + 1 # 1
                              /\ requests'[k] = requests[k + 1]
    BY <1>1, ReceiveFacts DEF IInv, TypeOK, Asking
  <1>3. node \in Nodes /\ request.initialized_job \in Nat
    BY <1>2, RequestFields
  <1>4. RequestFits(request)
    BY <1>2 DEF BuildInv, RequestsFit
  <1>5. /\ response.kind \in {"EmptyJobs", "Job", "JobInit"}
        /\ response.kind = "Job" =>
             response.ident = request.initialized_job /\ request.initialized_job \in DOMAIN map
        /\ response.kind = "JobInit" =>
             /\ response.ident # request.initialized_job
             /\ response.ident \in Acceptable(map, NodeCaps[node], request.build_failures)
    BY <1>3, FetchAnswers DEF IInv
  <1> HIDE DEF response, request
  <1>6. /\ DOMAIN map' = DOMAIN map
        /\ \A i \in DOMAIN map : map'[i].requirements = map[i].requirements
    <2>1. \A i \in DOMAIN map : NextJob(map[i], node).requirements = map[i].requirements
      BY DEF IInv, TypeOK, NextJob, JobSet
    <2> QED
      BY <1>1, <2>1 DEF AfterFetch
  <1>7. \A n \in Nodes : \A i : Buildable(n, i) => Buildable(n, i)'
    BY <1>1, <1>6 DEF Buildable
  <1>8. ASSUME NEW n \in Nodes, n # node PROVE NodeFits(n)'
    <2>1. NodeFits(n) /\ reply'[n] = reply[n]
      BY <1>1, <1>8 DEF BuildInv, IInv, TypeOK
    <2> QED
      BY <1>1, <1>7, <2>1 DEF NodeFits
  <1>9. ASSUME NEW n \in Nodes, n = node PROVE NodeFits(n)'
    <2>1. NodeFits(n) /\ phase[n] \in Ready
      BY <1>4, <1>9 DEF BuildInv, NodeFits, RequestFits
    <2>2. reply'[n] = response
      BY <1>1, <1>9 DEF IInv, TypeOK
    <2>3. response.kind = "Job" => phase[n] = "built" /\ response.ident = compiled[n]
      <3> SUFFICES ASSUME response.kind = "Job"
                   PROVE  phase[n] = "built" /\ response.ident = compiled[n]
        OBVIOUS
      <3>1. compiled[n] \in DOMAIN map /\ response.ident = compiled[n]
        BY <1>4, <1>5, <1>9 DEF RequestFits
      <3>2. NoIdent \notin DOMAIN map
        BY DEF IInv, TypeOK, NoIdent
      <3> QED
        BY <2>1, <3>1, <3>2 DEF NodeFits, Ready, Unbuilt
    <2>4. response.kind = "JobInit" =>
            response.ident # compiled[n] /\ Buildable(n, response.ident)
      <3> SUFFICES ASSUME response.kind = "JobInit"
                   PROVE  response.ident # compiled[n] /\ Buildable(n, response.ident)
        OBVIOUS
      <3>1. \A i \in DOMAIN map : i # NoIdent /\ i <= last_identifier
        BY DEF IInv, TypeOK, NoIdent
      <3> QED
        BY <1>4, <1>5, <1>9, <3>1 DEF RequestFits, Acceptable, Buildable
    <2>5. PICK answer : answer = reply'[n]
      OBVIOUS
    <2>6. answer.kind = "JobInit" => Buildable(n, answer.ident)'
      BY <1>7, <2>2, <2>4, <2>5
    <2> QED
      BY <1>1, <1>5, <1>7, <2>1, <2>2, <2>3, <2>4, <2>5, <2>6 DEF NodeFits
  <1>10. RequestsFit'
    <2>1. ASSUME NEW k \in Asking' PROVE RequestFits(requests[k])'
      <3>1. requests[k + 1].node # node /\ RequestFits(requests[k + 1])
        BY <1>2 DEF BuildInv, RequestsFit
      <3>2. reply'[requests[k + 1].node] = reply[requests[k + 1].node]
        BY <1>1, <3>1
      <3> QED
        BY <1>1, <1>2, <3>1, <3>2 DEF RequestFits
    <2>2. ASSUME NEW k \in Asking', NEW l \in Asking', requests'[k].node = requests'[l].node
          PROVE  k = l
      <3>1. k + 1 = l + 1
        BY <1>2, <2>2 DEF BuildInv, RequestsFit
      <3> QED
        BY <1>2, <3>1
    <2> QED
      BY <2>1, <2>2 DEF RequestsFit
  <1> QED
    BY <1>8, <1>9, <1>10 DEF BuildInv

\* Users add requests that ask for no job.
LEMMA UserStepFits ==
  ASSUME IInv, BuildInv, UserStep
  PROVE  BuildInv'
PROOF
  <1>1. /\ UNCHANGED <<poolVars, nodeVars>>
        /\ \E r \in Request : r.type # "NewJob" /\ Send(r)
    BY DEF UserStep, UserAdds, UserKills, Request
  <1>2. PICK r \in Request : r.type # "NewJob" /\ Send(r)
    BY <1>1
  <1>3. \A n \in Nodes : NodeFits(n)'
    BY <1>1 DEF BuildInv, NodeFits, Buildable, poolVars, nodeVars
  <1>4. /\ requests \in Seq(Request) /\ DOMAIN requests = 1..Len(requests)
        /\ Len(requests) <= RequestCap
    BY DEF IInv, TypeOK
  <1>5. /\ DOMAIN requests' = 1..(Len(requests) + 1)
        /\ requests'[Len(requests) + 1] = r
        /\ \A k \in 1..Len(requests) : requests'[k] = requests[k]
    BY <1>2, <1>4, SendFacts
  <1>6. Asking' = Asking /\ \A k \in Asking : requests'[k] = requests[k]
    BY <1>2, <1>4, <1>5 DEF Asking
  <1>7. RequestsFit'
    BY <1>1, <1>6 DEF BuildInv, RequestsFit, RequestFits, nodeVars
  <1> QED
    BY <1>3, <1>7 DEF BuildInv

\* A step that changes nothing keeps the invariant.
LEMMA StutterFits ==
  ASSUME BuildInv, UNCHANGED vars
  PROVE  BuildInv'
PROOF
  BY DEF BuildInv, NodeFits, Buildable, RequestsFit, RequestFits, Asking, vars, poolVars,
         nodeVars

\* Every step of the server keeps the invariant.
LEMMA NextBuildInv ==
  ASSUME IInv, BuildInv, [Next]_vars
  PROVE  BuildInv'
PROOF
  <1>1. CASE UserStep
    BY <1>1, UserStepFits
  <1>2. CASE PoolStep
    BY <1>2, HandleNewJobFits, HandleFinishJobFits, HandleDeadNodeFits,
       HandleAddJobSetFits, HandleKillFits DEF PoolStep
  <1>3. ASSUME NEW n \in Nodes, NodeStep(n) PROVE BuildInv'
    BY <1>3, ConnectToNodeFits, FetchNewJobFits, NoJobsFits, StartBuildFits,
       BuildSucceedsFits, BuildFailsFits, SwitchBatchFits, StartJobFits, SendInputsFits,
       ReadCancellationFits, JobReportedFits, JobEndsFits DEF NodeStep
  <1>4. ASSUME NEW n \in Nodes, LinkFails(n) PROVE BuildInv'
    BY <1>4, LinkFailsFits, LoseJobFits DEF LinkFails
  <1>5. CASE UNCHANGED vars
    BY <1>5, StutterFits
  <1> QED
    BY <1>1, <1>2, <1>3, <1>4, <1>5 DEF Next

-----------------------------------------------------------------------------
(* The theorems                                                            *)

\* What a node task has built, asked for and was answered fits, throughout.
THEOREM BuildInvariance == Spec => [](IInv /\ BuildInv)
PROOF
  <1>1. Init => IInv /\ BuildInv
    BY InitIInv, InitBuildInv
  <1>2. IInv /\ BuildInv /\ [Next]_vars => IInv' /\ BuildInv'
    BY NextIInv, NextBuildInv
  <1> QED
    BY <1>1, <1>2, PTL DEF Spec

\* The answers over which the node tasks panic never come: a job before
\* anything is built (send_job), and the batch that is built as one to build
\* (send_job_execution_instructions).
THEOREM NoPanickingAnswer == Spec => []AnswersExpected
PROOF
  <1>1. BuildInv => AnswersExpected
    BY DEF BuildInv, NodeFits, AnswersExpected, Ready
  <1> QED
    BY <1>1, BuildInvariance, PTL

\* A node runs only jobs of the batch it has built and may run, although
\* job_by_id does not look at the capabilities and errored_jobs outlives the
\* connection.
THEOREM RunsOnlyWhatItBuilt == Spec => []RunsWhatItBuilt
PROOF
  <1>1. IInv /\ BuildInv => RunsWhatItBuilt
    <2> SUFFICES ASSUME IInv, BuildInv, NEW n \in Nodes, n \in Holding
                 PROVE  /\ held[n].ident = compiled[n]
                        /\ held[n].ident \notin errored_jobs[n]
                        /\ map[held[n].ident].requirements \subseteq NodeCaps[n]
      BY DEF RunsWhatItBuilt
    <2>1. NodeFits(n) /\ held[n].ident # NoIdent
      BY DEF BuildInv, Holding
    <2>2. phase[n] \in Busy
      BY <2>1 DEF NodeFits, NoTask
    <2>3. held[n].ident = compiled[n] /\ Buildable(n, compiled[n])
      BY <2>1, <2>2 DEF NodeFits, Busy, Unbuilt
    <2>4. held[n].ident \in DOMAIN map
      BY DEF IInv, AccountedJobsRun, RunsAt
    <2> QED
      BY <2>3, <2>4 DEF Buildable
  <1> QED
    BY <1>1, BuildInvariance, PTL

-----------------------------------------------------------------------------
(* The node tasks move as NodeTask allows                                  *)

\* In the beginning every node task is where NodeTask starts.
LEMMA InitTask == Init => \A n \in Nodes : NodeTaskOf(n)!TaskInit
PROOF
  BY DEF Init, NodeTaskOf!TaskInit, NodeTaskOf!NoJob, NodeTaskOf!Nothing, NoTask, NoIdent

\* What a node task does without a failure is a move of NodeTask.
LEMMA NodeStepMoves ==
  ASSUME IInv, BuildInv, NEW n \in Nodes, NodeStep(n)
  PROVE  [NodeTaskOf(n)!TaskNext]_<<phase[n], compiled[n], held[n]>>
PROOF
  <1> USE DEF NodeTaskOf!TaskNext, NodeTaskOf!Move, NodeTaskOf!Nothing, NodeTaskOf!NoJob,
              NodeTaskOf!Forget, NoIdent, NoTask
  <1>0. NodeFits(n)
    BY DEF BuildInv
  <1>1. CASE ConnectToNode(n)
    BY <1>1 DEF IInv, TypeOK, ConnectToNode, NodeTaskOf!Connect
  <1>2. CASE FetchNewJob(n) \/ NoJobs(n) \/ ReadCancellation(n)
    BY <1>2 DEF FetchNewJob, NoJobs, ReadCancellation
  <1>3. CASE StartBuild(n)
    BY <1>0, <1>3 DEF IInv, TypeOK, NodeFits, Buildable, StartBuild, NodeTaskOf!StartBuild
  <1>4. CASE BuildSucceeds(n)
    BY <1>4 DEF IInv, TypeOK, BuildSucceeds, NodeTaskOf!EndBuild
  <1>5. CASE BuildFails(n)
    BY <1>0, <1>5 DEF IInv, TypeOK, NodeFits, Busy, BuildFails, NodeTaskOf!EndBuild
  <1>6. CASE SwitchBatch(n)
    BY <1>0, <1>6 DEF IInv, TypeOK, NodeFits, Busy, SwitchBatch, NodeTaskOf!DropBuild
  <1>7. CASE StartJob(n)
    BY <1>0, <1>7 DEF IInv, TypeOK, NodeFits, Busy, StartJob, NodeTaskOf!TakeJob
  <1>8. CASE SendInputs(n) \/ JobEnds(n)
    BY <1>8 DEF IInv, TypeOK, SendInputs, JobEnds, NodeTaskOf!RunJob
  <1>9. CASE JobCancelled(n) \/ ReceiveFiles(n)
    BY <1>9 DEF IInv, TypeOK, JobCancelled, ReceiveFiles, NodeTaskOf!EndJob
  <1> QED
    BY <1>1, <1>2, <1>3, <1>4, <1>5, <1>6, <1>7, <1>8, <1>9 DEF NodeStep

\* Whatever fails, the node task has nothing afterwards.
LEMMA LinkFailsMoves ==
  ASSUME IInv, NEW n \in Nodes, LinkFails(n)
  PROVE  [NodeTaskOf(n)!TaskNext]_<<phase[n], compiled[n], held[n]>>
PROOF
  <1>1. ToUninit(n)
    BY DEF LinkFails, MissKeepalive, LoseBuild, LoseHandoff, LoseJob
  <1> QED
    BY <1>1 DEF IInv, TypeOK, ToUninit, NodeTaskOf!TaskNext, NodeTaskOf!Fail,
                NodeTaskOf!Forget, NodeTaskOf!Nothing, NodeTaskOf!NoJob, NoIdent, NoTask

\* A node task does not move in the steps of others.
LEMMA OthersStandStill ==
  ASSUME IInv, NEW n \in Nodes,
         \/ UserStep \/ PoolStep \/ UNCHANGED vars
         \/ \E m \in Nodes \ {n} : NodeStep(m) \/ LinkFails(m)
  PROVE  UNCHANGED <<phase[n], compiled[n], held[n]>>
PROOF
  <1>1. CASE UserStep
    BY <1>1 DEF UserStep, UserAdds, UserKills, nodeVars
  <1>2. CASE PoolStep
    BY <1>2 DEF PoolStep, HandleNewJob, HandleFinishJob, HandleDeadNode, HandleAddJobSet,
                HandleKill, HandleKillInVain, nodeVars
  <1>3. ASSUME NEW m \in Nodes \ {n}, NodeStep(m) PROVE UNCHANGED <<phase[n], compiled[n], held[n]>>
    BY <1>3 DEF IInv, TypeOK, NodeStep, ConnectToNode, FetchNewJob, NoJobs, StartBuild,
                BuildSucceeds, BuildFails, SwitchBatch, StartJob, SendInputs,
                ReadCancellation, JobCancelled, JobEnds, ReceiveFiles
  <1>4. ASSUME NEW m \in Nodes \ {n}, LinkFails(m) PROVE UNCHANGED <<phase[n], compiled[n], held[n]>>
    <2>1. ToUninit(m)
      BY <1>4 DEF LinkFails, MissKeepalive, LoseBuild, LoseHandoff, LoseJob
    <2> QED
      BY <2>1 DEF IInv, TypeOK, ToUninit
  <1>5. CASE UNCHANGED vars
    BY <1>5 DEF vars, nodeVars
  <1> QED
    BY <1>1, <1>2, <1>3, <1>4, <1>5

\* The node tasks of the job pool are node tasks: a job is taken only where
\* its batch is built, and given up only where run_node reports it or forgets
\* it with everything else.
THEOREM UsesNodeTasks == Spec => KeepsNodeTasks
PROOF
  <1>1. ASSUME IInv, BuildInv, [Next]_vars
        PROVE  \A n \in Nodes : [NodeTaskOf(n)!TaskNext]_<<phase[n], compiled[n], held[n]>>
    <2> SUFFICES ASSUME NEW n \in Nodes PROVE [NodeTaskOf(n)!TaskNext]_<<phase[n], compiled[n], held[n]>>
      OBVIOUS
    <2>1. CASE NodeStep(n) \/ LinkFails(n)
      BY <1>1, <2>1, NodeStepMoves, LinkFailsMoves
    <2>2. CASE ~(NodeStep(n) \/ LinkFails(n))
      BY <1>1, <2>2, OthersStandStill DEF Next
    <2> QED
      BY <2>1, <2>2
  <1>2. IInv /\ BuildInv /\ [Next]_vars =>
          [\A n \in Nodes : [NodeTaskOf(n)!TaskNext]_<<phase[n], compiled[n], held[n]>>]_vars
    BY <1>1
  <1> QED
    BY <1>2, InitTask, BuildInvariance, PTL DEF Spec, KeepsNodeTasks
-----------------------------------------------------------------------------
(* Kills reach the jobs of their batch                                     *)

\* No more kills than a node may lag behind, no cancel port that refuses, and
\* no link that fails under a job: such a job is queued again, and the node
\* that gets it next may have read the cancellation long ago.
NothingLost ==
  /\ MaxKills <= CancelCap
  /\ Mishaps \cap {"refused", "inputs", "executing", "results"} = {}

KillsAsked == {k \in DOMAIN requests : requests[k].type = "CancelBatchByName"}

\* A batch that is killed hands out no more jobs, for none is returned.
KilledEmpty ==
  /\ \A k \in DOMAIN requests : requests[k].type # "DeadNode"
  /\ \A i \in killed : i \in DOMAIN map => ~HasRemainingJobs(map[i])

\* A node that has a job of the batch, or is to have one, will read of its end.
Hears(n) ==
  /\ reply[n].kind = "Job" /\ reply[n].ident \in killed =>
       reply[n].ident \in Range(cancellations[n])
  /\ phase[n] \in {"send_inputs", "executing"} /\ held[n].ident \in killed =>
       cancelled[n] \/ held[n].ident \in Range(cancellations[n])

\* What a node has yet to read, and what is yet to be broadcast, was asked for.
RoomLeft ==
  /\ kills <= MaxKills
  /\ \A n \in Nodes : Len(cancellations[n]) + Cardinality(KillsAsked) <= kills

KillInv == KilledEmpty /\ (\A n \in Nodes : Hears(n)) /\ RoomLeft

\* What a queue of cancellations holds after one is added, and after one is read.
LEMMA RangeFacts ==
  ASSUME NEW q \in Seq(Nat), NEW x \in Nat
  PROVE  /\ \A y : y \in Range(Append(q, x)) <=> y \in Range(q) \/ y = x
         /\ q # << >> => \A y \in Range(q) : y = Head(q) \/ y \in Range(Tail(q))
PROOF
  <1>1. DOMAIN q = 1..Len(q) /\ Len(q) \in Nat
    OBVIOUS
  <1>2. \A y : y \in Range(Append(q, x)) <=> y \in Range(q) \/ y = x
    <2>1. /\ DOMAIN Append(q, x) = 1..(Len(q) + 1)
          /\ Append(q, x)[Len(q) + 1] = x
          /\ \A k \in 1..Len(q) : Append(q, x)[k] = q[k]
      OBVIOUS
    <2>2. \A y : y \in Range(Append(q, x)) <=> \E k \in 1..(Len(q) + 1) : Append(q, x)[k] = y
      BY <2>1 DEF Range
    <2>3. \A y : y \in Range(q) <=> \E k \in 1..Len(q) : q[k] = y
      BY <1>1 DEF Range
    <2>4. ASSUME NEW y, y \in Range(Append(q, x)) PROVE y \in Range(q) \/ y = x
      <3>1. PICK k \in 1..(Len(q) + 1) : Append(q, x)[k] = y
        BY <2>2, <2>4
      <3>2. k \in 1..Len(q) \/ k = Len(q) + 1
        BY <1>1
      <3> QED
        BY <2>1, <2>3, <3>1, <3>2
    <2>5. ASSUME NEW y, y \in Range(q) \/ y = x PROVE y \in Range(Append(q, x))
      <3>1. CASE y = x
        BY <1>1, <2>1, <2>2, <3>1
      <3>2. CASE y \in Range(q)
        <4>1. PICK k \in 1..Len(q) : q[k] = y
          BY <2>3, <3>2
        <4>2. k \in 1..(Len(q) + 1)
          BY <1>1
        <4> QED
          BY <2>1, <2>2, <4>1, <4>2
      <3> QED
        BY <2>5, <3>1, <3>2
    <2> QED
      BY <2>4, <2>5
  <1>3. ASSUME q # << >>, NEW y \in Range(q) PROVE y = Head(q) \/ y \in Range(Tail(q))
    <2>1. PICK k \in 1..Len(q) : q[k] = y
      BY <1>1 DEF Range
    <2>2. /\ DOMAIN Tail(q) = 1..(Len(q) - 1) /\ Head(q) = q[1]
          /\ \A l \in 1..(Len(q) - 1) : Tail(q)[l] = q[l + 1]
      BY <1>3, <1>1, HeadTailProperties
    <2>3. CASE k = 1
      BY <2>1, <2>2, <2>3
    <2>4. CASE k # 1
      <3>1. k - 1 \in 1..(Len(q) - 1) /\ (k - 1) + 1 = k
        BY <1>1, <2>4
      <3>2. Tail(q)[k - 1] = y
        BY <2>1, <2>2, <3>1
      <3> QED
        BY <2>2, <3>1, <3>2 DEF Range
    <2> QED
      BY <2>3, <2>4
  <1> QED
    BY <1>2, <1>3

\* The kills that are asked for are finitely many.
LEMMA AskedFinite ==
  ASSUME TypeOK
  PROVE  IsFiniteSet(KillsAsked) /\ Cardinality(KillsAsked) \in Nat
PROOF
  <1>1. DOMAIN requests = 1..Len(requests) /\ Len(requests) \in Nat
    BY DEF TypeOK
  <1>2. IsFiniteSet(1..Len(requests))
    BY <1>1, FS_Interval
  <1>3. KillsAsked \subseteq 1..Len(requests)
    BY <1>1 DEF KillsAsked
  <1>4. IsFiniteSet(KillsAsked)
    BY <1>2, <1>3, FS_Subset
  <1> QED
    BY <1>4, FS_CardinalityType

\* A request that is sent counts if it asks for a kill.
LEMMA SendAsks ==
  ASSUME TypeOK, NEW r \in Request, Send(r)
  PROVE  /\ r.type # "CancelBatchByName" => KillsAsked' = KillsAsked
         /\ r.type = "CancelBatchByName" =>
              Cardinality(KillsAsked') = Cardinality(KillsAsked) + 1
         /\ r.type # "DeadNode" /\ (\A k \in DOMAIN requests : requests[k].type # "DeadNode") =>
              \A k \in DOMAIN requests' : requests'[k].type # "DeadNode"
PROOF
  <1>1. /\ DOMAIN requests' = 1..(Len(requests) + 1) /\ DOMAIN requests = 1..Len(requests)
        /\ requests'[Len(requests) + 1] = r /\ Len(requests) \in Nat
        /\ \A k \in 1..Len(requests) : requests'[k] = requests[k]
    BY SendFacts DEF TypeOK
  <1>2. r.type # "CancelBatchByName" => KillsAsked' = KillsAsked
    BY <1>1 DEF KillsAsked
  <1>3. r.type = "CancelBatchByName" => KillsAsked' = KillsAsked \cup {Len(requests) + 1}
    BY <1>1 DEF KillsAsked
  <1>4. Len(requests) + 1 \notin KillsAsked
    BY <1>1 DEF KillsAsked
  <1>5. r.type = "CancelBatchByName" => Cardinality(KillsAsked') = Cardinality(KillsAsked) + 1
    BY <1>3, <1>4, AskedFinite, FS_AddElement
  <1> QED
    BY <1>1, <1>2, <1>5

\* The same of the next state.
LEMMA AskedFiniteAfter ==
  ASSUME TypeOK'
  PROVE  IsFiniteSet(KillsAsked') /\ Cardinality(KillsAsked') \in Nat
PROOF
  <1>1. DOMAIN requests' = 1..Len(requests') /\ Len(requests') \in Nat
    BY DEF TypeOK
  <1>2. IsFiniteSet(1..Len(requests'))
    BY <1>1, FS_Interval
  <1>3. KillsAsked' \subseteq 1..Len(requests')
    BY <1>1 DEF KillsAsked
  <1>4. IsFiniteSet(KillsAsked')
    BY <1>2, <1>3, FS_Subset
  <1> QED
    BY <1>4, FS_CardinalityType

\* A request that is served is no longer asked for, and the others stay.
LEMMA ServedAsks ==
  ASSUME TypeOK, TypeOK', NEW type, Receive(type)
  PROVE  /\ Cardinality(KillsAsked') <= Cardinality(KillsAsked)
         /\ type = "CancelBatchByName" => Cardinality(KillsAsked') < Cardinality(KillsAsked)
         /\ (\A k \in DOMAIN requests : requests[k].type # "DeadNode") =>
              \A k \in DOMAIN requests' : requests'[k].type # "DeadNode"
PROOF
  <1>1. /\ Head(requests).type = type /\ Head(requests) = requests[1] /\ 1 \in DOMAIN requests
        /\ \A k \in DOMAIN requests' :
             /\ k \in Nat /\ k + 1 \in DOMAIN requests /\ k + 1 # 1
             /\ requests'[k] = requests[k + 1]
    BY ReceiveFacts DEF TypeOK
  <1> DEFINE f == [k \in KillsAsked' |-> k + 1]
  <1>2. \A k \in KillsAsked' : k \in Nat /\ k + 1 \in KillsAsked \ {1}
    BY <1>1 DEF KillsAsked
  <1>3. f \in Injection(KillsAsked', KillsAsked \ {1})
    BY <1>2 DEF Injection, IsInjective
  <1>4. IsFiniteSet(KillsAsked) /\ IsFiniteSet(KillsAsked \ {1})
    BY AskedFinite, FS_Subset
  <1>5. Cardinality(KillsAsked') <= Cardinality(KillsAsked \ {1})
    BY <1>3, <1>4, FS_Injection
  <1>6. Cardinality(KillsAsked \ {1}) =
          IF 1 \in KillsAsked THEN Cardinality(KillsAsked) - 1 ELSE Cardinality(KillsAsked)
    BY <1>4, FS_RemoveElement
  <1>7. /\ Cardinality(KillsAsked) \in Nat /\ Cardinality(KillsAsked \ {1}) \in Nat
        /\ Cardinality(KillsAsked') \in Nat
    BY <1>4, AskedFinite, FS_CardinalityType, FS_Injection, <1>3
  <1>8. type = "CancelBatchByName" => 1 \in KillsAsked
    BY <1>1 DEF KillsAsked
  <1> QED
    BY <1>1, <1>5, <1>6, <1>7, <1>8

\* A step that leaves the map, the kills and what each node has to read as
\* they are.
LEMMA QuietKills ==
  ASSUME TypeOK, KillInv, UNCHANGED <<map, killed, kills, cancellations>>,
         \A m \in Nodes : Hears(m)',
         \/ requests' = requests
         \/ \E r \in Request : r.type \notin {"DeadNode", "CancelBatchByName"} /\ Send(r)
  PROVE  KillInv'
PROOF
  <1>1. /\ KillsAsked' = KillsAsked
        /\ \A k \in DOMAIN requests' : requests'[k].type # "DeadNode"
    BY SendAsks DEF KillInv, KilledEmpty, KillsAsked
  <1> QED
    BY <1>1 DEF KillInv, KilledEmpty, RoomLeft

\* The node task asks, or goes on without a job.
LEMMA IdleStepsHear ==
  ASSUME TypeOK, KillInv, NEW n \in Nodes,
         \/ ConnectToNode(n) \/ FetchNewJob(n) \/ NoJobs(n) \/ StartBuild(n)
         \/ BuildSucceeds(n) \/ BuildFails(n) \/ SwitchBatch(n)
  PROVE  KillInv'
PROOF
  <1>1. ASSUME NEW m \in Nodes PROVE Hears(m)'
    <2>1. Hears(m)
      BY DEF KillInv
    <2>2. /\ UNCHANGED <<held, cancelled, cancellations, killed>>
          /\ reply'[m] = reply[m] \/ reply'[m].kind # "Job"
          /\ phase'[m] = phase[m] \/ phase'[m] \notin {"send_inputs", "executing"}
      BY DEF TypeOK, ConnectToNode, FetchNewJob, NoJobs, StartBuild, BuildSucceeds, BuildFails,
         SwitchBatch, poolVars, Idle, Pending
    <2> QED
      BY <2>1, <2>2 DEF Hears
  <1>2. UNCHANGED <<map, killed, kills, cancellations>>
    BY DEF ConnectToNode, FetchNewJob, NoJobs, StartBuild, BuildSucceeds, BuildFails,
       SwitchBatch, poolVars, boundVars
  <1>3. \/ requests' = requests
        \/ \E r \in Request : r.type \notin {"DeadNode", "CancelBatchByName"} /\ Send(r)
    <2>1. CASE FetchNewJob(n)
      <3> DEFINE r == [type |-> "NewJob", node |-> n, initialized_job |-> compiled[n],
                       build_failures |-> errored_jobs[n]]
      <3>1. r \in Request /\ r.type = "NewJob"
        BY DEF Request, TypeOK
      <3>2. Send(r)
        BY <2>1 DEF FetchNewJob
      <3> QED
        BY <3>1, <3>2
    <2> QED
      BY <2>1 DEF ConnectToNode, NoJobs, StartBuild, BuildSucceeds, BuildFails, SwitchBatch
  <1> QED
    BY <1>1, <1>2, <1>3, QuietKills

\* The job of the answer becomes the job of the node.
LEMMA StartJobHears ==
  ASSUME TypeOK, KillInv, NEW n \in Nodes, StartJob(n)
  PROVE  KillInv'
PROOF
  <1> DEFINE job == [ident |-> reply[n].ident, job_name |-> reply[n].job_name]
  <1>1. ASSUME NEW m \in Nodes PROVE Hears(m)'
    <2>1. Hears(m) /\ UNCHANGED <<cancelled, cancellations, killed>>
      BY DEF KillInv, StartJob, poolVars
    <2>2. CASE m = n
      <3>1. reply'[n] = Idle /\ held'[n].ident = reply[n].ident /\ reply[n].kind = "Job"
        BY DEF TypeOK, StartJob
      <3> QED
        BY <2>1, <2>2, <3>1 DEF Hears, Idle
    <2>3. CASE m # n
      <3>1. reply'[m] = reply[m] /\ held'[m] = held[m] /\ phase'[m] = phase[m]
        BY <2>3 DEF TypeOK, StartJob
      <3> QED
        BY <2>1, <3>1 DEF Hears
    <2> QED
      BY <2>2, <2>3
  <1>2. UNCHANGED <<map, killed, kills, cancellations, requests>>
    BY DEF StartJob, poolVars, boundVars
  <1> QED
    BY <1>1, <1>2, QuietKills

\* The job runs, or ends.
LEMMA JobStepsHear ==
  ASSUME TypeOK, KillInv, NEW n \in Nodes, SendInputs(n) \/ JobEnds(n)
  PROVE  KillInv'
PROOF
  <1>1. ASSUME NEW m \in Nodes PROVE Hears(m)'
    <2>1. Hears(m) /\ UNCHANGED <<reply, held, cancelled, cancellations, killed>>
      BY DEF KillInv, SendInputs, JobEnds, poolVars
    <2>2. phase'[m] \in {"send_inputs", "executing"} => phase[m] \in {"send_inputs", "executing"}
      BY DEF TypeOK, SendInputs, JobEnds
    <2> QED
      BY <2>1, <2>2 DEF Hears
  <1>2. UNCHANGED <<map, killed, kills, cancellations, requests>>
    BY DEF SendInputs, JobEnds, poolVars, boundVars
  <1> QED
    BY <1>1, <1>2, QuietKills

\* The job is reported, or the node task gives up what it is doing: the node
\* has no job any more.
LEMMA EndsHear ==
  ASSUME TypeOK, KillInv, BusyHolds, NEW n \in Nodes,
         \/ JobCancelled(n) \/ ReceiveFiles(n)
         \/ MissKeepalive(n) \/ LoseBuild(n) \/ LoseHandoff(n)
  PROVE  KillInv'
PROOF
  <1>1. ASSUME NEW m \in Nodes PROVE Hears(m)'
    <2>1. Hears(m) /\ UNCHANGED <<cancellations, killed>>
      BY DEF KillInv, JobCancelled, ReceiveFiles, MissKeepalive, LoseBuild, LoseHandoff, poolVars
    <2>2. CASE m = n
      <3>1. /\ phase'[n] \notin {"send_inputs", "executing"}
            /\ reply'[n] = reply[n] \/ reply'[n].kind # "Job"
        BY DEF TypeOK, JobCancelled, ReceiveFiles, MissKeepalive, LoseBuild, LoseHandoff, ToUninit,
           Idle
      <3> QED
        BY <2>1, <2>2, <3>1 DEF Hears
    <2>3. CASE m # n
      <3>1. /\ reply'[m] = reply[m] /\ held'[m] = held[m] /\ phase'[m] = phase[m]
            /\ cancelled'[m] = cancelled[m]
        BY <2>3 DEF TypeOK, JobCancelled, ReceiveFiles, MissKeepalive, LoseBuild, LoseHandoff,
           ToUninit
      <3> QED
        BY <2>1, <3>1 DEF Hears
    <2> QED
      BY <2>2, <2>3
  <1>2. UNCHANGED <<map, killed, kills, cancellations>>
    BY DEF JobCancelled, ReceiveFiles, MissKeepalive, LoseBuild, LoseHandoff, poolVars, boundVars
  <1>3. \/ requests' = requests
        \/ \E r \in Request : r.type \notin {"DeadNode", "CancelBatchByName"} /\ Send(r)
    <2>1. CASE JobCancelled(n) \/ ReceiveFiles(n)
      <3> DEFINE r == [type |-> "FinishJob", node |-> n, ident |-> held[n].ident,
                       job_name |-> held[n].job_name]
      <3>1. held[n].ident # NoIdent
        BY <2>1 DEF BusyHolds, Holding, JobCancelled, ReceiveFiles
      <3>2. held[n] \in Task
        BY <3>1, HeldFields DEF TypeOK
      <3>3. r \in Request /\ r.type = "FinishJob"
        BY <3>2 DEF Request, Task
      <3>4. Send(r)
        BY <2>1 DEF JobCancelled, ReceiveFiles, Report
      <3> QED
        BY <3>3, <3>4
    <2> QED
      BY <2>1 DEF MissKeepalive, LoseBuild, LoseHandoff
  <1> QED
    BY <1>1, <1>2, <1>3, QuietKills

\* A job that the link loses would be returned, which is ruled out.
LEMMA LoseJobHears ==
  ASSUME NothingLost, NEW n \in Nodes, LoseJob(n)
  PROVE  FALSE
PROOF
  BY DEF NothingLost, LoseJob, Mishap

\* The oldest cancellation is read: it sets the flag, or was for another batch.
LEMMA ReadCancellationHears ==
  ASSUME NothingLost, TypeOK, KillInv, BuildInv, NEW n \in Nodes, ReadCancellation(n)
  PROVE  KillInv'
PROOF
  <1>1. /\ UNCHANGED <<map, killed, kills, requests, phase, reply, held>>
        /\ cancellations[n] \in Seq(Nat) /\ cancellations[n] # << >>
        /\ cancellations' = [cancellations EXCEPT ![n] = Tail(@)]
        /\ cancelled' = [cancelled EXCEPT ![n] = @ \/ Head(cancellations[n]) = held[n].ident]
    BY DEF TypeOK, ReadCancellation, poolVars, NothingLost, Mishap
  <1>2. ASSUME NEW m \in Nodes PROVE Hears(m)'
    <2>1. Hears(m)
      BY DEF KillInv
    <2>2. CASE m = n
      <3>1. /\ cancellations'[n] = Tail(cancellations[n])
            /\ cancelled'[n] = (cancelled[n] \/ Head(cancellations[n]) = held[n].ident)
        BY <1>1 DEF TypeOK
      <3>2. \A y \in Range(cancellations[n]) : y = Head(cancellations[n])
                                               \/ y \in Range(Tail(cancellations[n]))
        BY <1>1, RangeFacts
      <3>3. reply[n].kind # "Job"
        BY DEF BuildInv, NodeFits, ReadCancellation
      <3>4. ASSUME held[n].ident \in killed, phase[n] \in {"send_inputs", "executing"}
            PROVE  cancelled'[n] \/ held[n].ident \in Range(cancellations'[n])
        <4>1. cancelled[n] \/ held[n].ident \in Range(cancellations[n])
          BY <2>1, <2>2, <3>4 DEF Hears
        <4> QED
          BY <3>1, <3>2, <4>1
      <3> QED
        BY <1>1, <2>2, <3>3, <3>4 DEF Hears
    <2>3. CASE m # n
      <3>1. cancellations'[m] = cancellations[m] /\ cancelled'[m] = cancelled[m]
        BY <1>1, <2>3 DEF TypeOK
      <3> QED
        BY <1>1, <2>1, <3>1 DEF Hears
    <2> QED
      BY <2>2, <2>3
  <1>3. KilledEmpty'
    BY <1>1 DEF KillInv, KilledEmpty
  <1>4. RoomLeft'
    <2>1. KillsAsked' = KillsAsked
      BY <1>1 DEF KillsAsked
    <2>2. \A m \in Nodes : /\ Len(cancellations'[m]) <= Len(cancellations[m])
                           /\ Len(cancellations'[m]) \in Nat /\ Len(cancellations[m]) \in Nat
      BY <1>1, HeadTailProperties DEF TypeOK
    <2>3. Cardinality(KillsAsked) \in Nat /\ kills \in Nat
      BY AskedFinite DEF TypeOK
    <2> QED
      BY <1>1, <2>1, <2>2, <2>3 DEF KillInv, RoomLeft
  <1> QED
    BY <1>2, <1>3, <1>4 DEF KillInv

\* Users ask for batches and kills.
LEMMA UserStepHears ==
  ASSUME TypeOK, TypeOK', KillInv, UserStep
  PROVE  KillInv'
PROOF
  <1>1. ASSUME NEW b \in Batches, UserAdds(b) PROVE KillInv'
    <2> DEFINE r == [type |-> "AddJobSet", batch |-> b]
    <2>1. r \in Request /\ r.type = "AddJobSet" /\ Send(r)
      BY <1>1 DEF Request, UserAdds
    <2>2. UNCHANGED <<map, killed, kills, cancellations, nodeVars>>
      BY <1>1 DEF UserAdds, poolVars, boundVars
    <2>3. \A m \in Nodes : Hears(m)'
      BY <2>2 DEF KillInv, Hears, nodeVars
    <2> HIDE DEF r
    <2> QED
      BY <2>1, <2>2, <2>3, QuietKills
  <1>2. ASSUME NEW name \in BatchNames, UserKills(name) PROVE KillInv'
    <2> DEFINE r == [type |-> "CancelBatchByName", batch_name |-> name]
    <2>1. r \in Request /\ r.type = "CancelBatchByName" /\ Send(r)
      BY <1>2 DEF Request, UserKills
    <2>2. /\ UNCHANGED <<map, killed, cancellations, nodeVars>>
          /\ kills < MaxKills /\ kills' = kills + 1
      BY <1>2 DEF UserKills, poolVars
    <2> HIDE DEF r
    <2>3. /\ Cardinality(KillsAsked') = Cardinality(KillsAsked) + 1
          /\ \A k \in DOMAIN requests' : requests'[k].type # "DeadNode"
      BY <2>1, SendAsks DEF KillInv, KilledEmpty
    <2>4. \A m \in Nodes : Hears(m)'
      BY <2>2 DEF KillInv, Hears, nodeVars
    <2>5. RoomLeft'
      <3>1. /\ Cardinality(KillsAsked) \in Nat /\ kills \in Nat /\ MaxKills \in Nat
            /\ \A m \in Nodes : Len(cancellations[m]) \in Nat
        BY SMTT(30), AskedFinite, PoolAssumption DEF TypeOK
      <3> QED
        BY <2>2, <2>3, <3>1 DEF KillInv, RoomLeft
    <2> QED
      BY <2>2, <2>3, <2>4, <2>5 DEF KillInv, KilledEmpty
  <1> QED
    BY <1>1, <1>2 DEF UserStep

\* A request is served that broadcasts nothing: the sets of killed batches stay
\* without jobs to hand out.
LEMMA ServedHears ==
  ASSUME TypeOK, TypeOK', KillInv, NEW type, Receive(type),
         UNCHANGED <<killed, kills, cancellations>>,
         \A i \in killed : i \in DOMAIN map' =>
            i \in DOMAIN map /\ (~HasRemainingJobs(map[i]) => ~HasRemainingJobs(map'[i])),
         \A m \in Nodes : Hears(m)'
  PROVE  KillInv'
PROOF
  <1>1. KilledEmpty'
    BY ServedAsks DEF KillInv, KilledEmpty
  <1>2. RoomLeft'
    <2>1. /\ Cardinality(KillsAsked) \in Nat /\ Cardinality(KillsAsked') \in Nat /\ kills \in Nat
          /\ \A m \in Nodes : Len(cancellations[m]) \in Nat
      BY SMTT(30), AskedFinite, AskedFiniteAfter DEF TypeOK
    <2>2. Cardinality(KillsAsked') <= Cardinality(KillsAsked)
      BY ServedAsks
    <2> QED
      BY <2>1, <2>2 DEF KillInv, RoomLeft
  <1> QED
    BY <1>1, <1>2 DEF KillInv

\* A job is handed out of a set that has jobs left, so of none that is killed.
LEMMA HandleNewJobHears ==
  ASSUME IInv, TypeOK', KillInv, HandleNewJob
  PROVE  KillInv'
PROOF
  <1> DEFINE request == Head(requests)
             node == request.node
             response == FetchResponse(map, request.initialized_job,
                                       NodeCaps[node], request.build_failures)
  <1>1. /\ Receive("NewJob") /\ map' = AfterFetch(map, response, node)
        /\ reply' = [reply EXCEPT ![node] = response]
        /\ UNCHANGED <<phase, held, cancelled, killed, kills, cancellations>>
    BY DEF HandleNewJob, boundVars
  <1>2. request \in Request /\ request.type = "NewJob"
    BY <1>1, ReceiveFacts DEF IInv, TypeOK
  <1>3. node \in Nodes /\ request.initialized_job \in Nat
    BY <1>2, RequestFields
  <1>4. response.kind = "Job" =>
          response.ident \in DOMAIN map /\ HasRemainingJobs(map[response.ident])
    BY <1>3, FetchResponseFacts DEF IInv
  <1> HIDE DEF response, request
  <1>5. response.kind = "Job" => response.ident \notin killed
    BY <1>4 DEF KillInv, KilledEmpty
  <1>6. \A i \in killed : i \in DOMAIN map' => i \in DOMAIN map /\ map'[i] = map[i]
    BY <1>1, <1>5 DEF AfterFetch
  <1>7. ASSUME NEW m \in Nodes PROVE Hears(m)'
    <2>1. Hears(m)
      BY DEF KillInv
    <2>2. reply'[m] = reply[m] \/ reply'[m] = response
      BY <1>1, <1>3 DEF IInv, TypeOK
    <2> QED
      BY <1>1, <1>5, <2>1, <2>2 DEF Hears
  <1> QED
    BY <1>1, <1>6, <1>7, ServedHears DEF IInv

\* The set of a job that is finished goes, or has no more jobs left than before.
LEMMA HandleFinishJobHears ==
  ASSUME IInv, TypeOK', KillInv, HandleFinishJob
  PROVE  KillInv'
PROOF
  <1> DEFINE i == Head(requests).ident
             job == Head(requests).job_name
             after == RemoveRunningJobByName(map[i], job)
  <1>1. /\ Receive("FinishJob") /\ map' = FinishJob(map, i, job)
        /\ UNCHANGED <<killed, kills, cancellations, nodeVars>>
    BY DEF HandleFinishJob, boundVars
  <1>2. after.remaining_jobs = map[i].remaining_jobs /\ i \in DOMAIN map
    BY <1>1, ReportedJobRuns, RemoveRunningFacts
  <1> HIDE DEF i, after
  <1>3. map' = [l \in DOMAIN map \ {i} |-> map[l]] \/ map' = [map EXCEPT ![i] = after]
    BY <1>1, <1>2 DEF FinishJob, Restrict, after
  <1>4. \A l \in DOMAIN map' :
          l \in DOMAIN map /\ map'[l].remaining_jobs = map[l].remaining_jobs
    BY <1>2, <1>3
  <1>5. \A m \in Nodes : Hears(m)'
    BY <1>1 DEF KillInv, Hears, nodeVars
  <1> QED
    BY <1>1, <1>4, <1>5, ServedHears DEF IInv, HasRemainingJobs

\* A new batch gets an identifier that no kill has named.
LEMMA HandleAddJobSetHears ==
  ASSUME IInv, TypeOK', KillInv, HandleAddJobSet
  PROVE  KillInv'
PROOF
  <1>1. /\ Receive("AddJobSet")
        /\ map' = InsertNewBatch(map, last_identifier + 1, Head(requests).batch)
        /\ UNCHANGED <<killed, kills, cancellations, nodeVars>>
    BY DEF HandleAddJobSet, boundVars
  <1>2. last_identifier + 1 \notin killed
    BY DEF IInv, TypeOK
  <1>3. \A i \in killed : i \in DOMAIN map' => i \in DOMAIN map /\ map'[i] = map[i]
    BY <1>1, <1>2 DEF InsertNewBatch
  <1>4. \A m \in Nodes : Hears(m)'
    BY <1>1 DEF KillInv, Hears, nodeVars
  <1> QED
    BY <1>1, <1>3, <1>4, ServedHears DEF IInv

\* No job is returned.
LEMMA HandleDeadNodeHears ==
  ASSUME IInv, KillInv, HandleDeadNode
  PROVE  FALSE
PROOF
  <1>1. Head(requests) = requests[1] /\ 1 \in DOMAIN requests /\ Head(requests).type = "DeadNode"
    BY ReceiveFacts DEF IInv, TypeOK, HandleDeadNode
  <1> QED
    BY <1>1 DEF KillInv, KilledEmpty

\* A kill that finds no batch or no node changes nothing.
LEMMA HandleKillInVainHears ==
  ASSUME IInv, TypeOK', KillInv, HandleKillInVain
  PROVE  KillInv'
PROOF
  <1>1. Receive("CancelBatchByName")
        /\ UNCHANGED <<map, killed, kills, cancellations, nodeVars>>
    BY DEF HandleKillInVain, poolVars, boundVars
  <1>2. \A m \in Nodes : Hears(m)'
    BY <1>1 DEF KillInv, Hears, nodeVars
  <1> QED
    BY <1>1, <1>2, ServedHears DEF IInv

\* A kill empties the set and tells every node, as each has room for it.
LEMMA HandleKillHears ==
  ASSUME NothingLost, IInv, TypeOK', KillInv, HandleKill
  PROVE  KillInv'
PROOF
  <1> DEFINE named == NamedSets(map, Head(requests).batch_name)
             i == Min(named)
  <1>1. /\ Receive("CancelBatchByName") /\ named # {}
        /\ cancellations' = [n \in Nodes |-> Broadcast(cancellations[n], i)]
        /\ map' = [map EXCEPT ![i] = ClearRemainingJobs(map[i])]
        /\ killed' = killed \cup {i}
        /\ UNCHANGED <<nodeVars, kills>>
    BY DEF HandleKill, CancelBatch, boundVars
  <1>2. i \in DOMAIN map
    <2>1. named \in SUBSET Nat /\ named \subseteq DOMAIN map
      BY DEF NamedSets, IInv, TypeOK
    <2>2. named # {}
      BY <1>1
    <2> HIDE DEF named
    <2> QED
      BY <2>1, <2>2, MinInSet
  <1> HIDE DEF i
  <1>3. i \in Nat
    BY <1>2 DEF IInv, TypeOK
  <1>4. /\ Cardinality(KillsAsked) \in Nat /\ Cardinality(KillsAsked') \in Nat
        /\ kills \in Nat /\ MaxKills \in Nat /\ CancelCap \in Nat
        /\ \A n \in Nodes : cancellations[n] \in Seq(Nat) /\ Len(cancellations[n]) \in Nat
    <2>1. TypeOK /\ cancellations \in [Nodes -> Seq(Nat)]
      BY DEF IInv, TypeOK
    <2>2. \A n \in Nodes : cancellations[n] \in Seq(Nat) /\ Len(cancellations[n]) \in Nat
      BY <2>1
    <2>3. kills \in Nat
      BY DEF IInv, TypeOK
    <2> QED
      BY <2>1, <2>2, <2>3, AskedFinite, AskedFiniteAfter, PoolAssumption
  <1>5. Cardinality(KillsAsked') < Cardinality(KillsAsked)
    BY <1>1, ServedAsks DEF IInv
  <1>6. \A n \in Nodes : Len(cancellations[n]) < CancelCap
    BY <1>4, <1>5 DEF KillInv, RoomLeft, NothingLost
  <1>7. \A n \in Nodes : cancellations'[n] = Append(cancellations[n], i)
    BY <1>1, <1>6 DEF Broadcast
  <1>8. ASSUME NEW n \in Nodes PROVE Hears(n)'
    <2>1. \A y : y \in Range(cancellations'[n]) <=> y \in Range(cancellations[n]) \/ y = i
      BY <1>3, <1>4, <1>7, RangeFacts
    <2>2. Hears(n) /\ UNCHANGED <<reply, phase, held, cancelled>>
      BY <1>1 DEF KillInv, nodeVars
    <2> QED
      BY <1>1, <2>1, <2>2 DEF Hears
  <1>9. KilledEmpty'
    <2>1. ~HasRemainingJobs(ClearRemainingJobs(map[i]))
      BY <1>2 DEF ClearRemainingJobs, HasRemainingJobs, IInv, TypeOK, JobSet
    <2>2. \A l \in killed' : l \in DOMAIN map' => ~HasRemainingJobs(map'[l])
      BY <1>1, <2>1 DEF KillInv, KilledEmpty
    <2>3. \A k \in DOMAIN requests' : requests'[k].type # "DeadNode"
      BY <1>1, ServedAsks DEF IInv, KillInv, KilledEmpty
    <2> QED
      BY <2>2, <2>3 DEF KilledEmpty
  <1>10. RoomLeft'
    <2>1. \A n \in Nodes : Len(cancellations'[n]) = Len(cancellations[n]) + 1
      BY <1>3, <1>4, <1>7
    <2> QED
      BY <1>1, <1>4, <1>5, <2>1 DEF KillInv, RoomLeft
  <1> QED
    BY <1>8, <1>9, <1>10 DEF KillInv

\* In the beginning nothing is killed.
LEMMA InitKillInv == Init => KillInv
PROOF
  <1> SUFFICES ASSUME Init PROVE KillInv
    OBVIOUS
  <1>1. KillsAsked = {} /\ Cardinality(KillsAsked) = 0
    BY FS_EmptySet DEF Init, KillsAsked
  <1> QED
    BY <1>1, PoolAssumption DEF Init, KillInv, KilledEmpty, Hears, RoomLeft, Idle

\* Every step keeps what each node has heard, if no cancellation is lost.
LEMMA NextKillInv ==
  ASSUME NothingLost, IInv, IInv', BuildInv, KillInv, [Next]_vars
  PROVE  KillInv'
PROOF
  <1> USE DEF IInv
  <1>1. CASE UserStep
    BY <1>1, UserStepHears
  <1>2. CASE PoolStep
    BY <1>2, HandleNewJobHears, HandleFinishJobHears, HandleDeadNodeHears, HandleAddJobSetHears,
       HandleKillHears, HandleKillInVainHears DEF PoolStep
  <1>3. ASSUME NEW n \in Nodes, NodeStep(n) PROVE KillInv'
    BY <1>3, IdleStepsHear, StartJobHears, JobStepsHear, EndsHear, ReadCancellationHears
       DEF NodeStep
  <1>4. ASSUME NEW n \in Nodes, LinkFails(n) PROVE KillInv'
    BY <1>4, EndsHear, LoseJobHears DEF LinkFails
  <1>5. CASE UNCHANGED vars
    BY <1>5 DEF KillInv, KilledEmpty, Hears, RoomLeft, KillsAsked, vars, poolVars, nodeVars,
       boundVars
  <1> QED
    BY <1>1, <1>2, <1>3, <1>4, <1>5 DEF Next

\* A kill reaches every node that has one of the jobs of its batch, if no more
\* kills come than a node may lag behind (the broadcast channel of
\* server_from_commands keeps 20), no cancel port refuses and no link fails under
\* a job: the flag of wait_job_execution is set, or the cancellation is still
\* to be read.
THEOREM KillsAreHeard == NothingLost /\ Spec => []KillReachesJobs
PROOF
  <1>1. ASSUME NothingLost PROVE Spec => []KillReachesJobs
    <2>1. KillInv => KillReachesJobs
      BY DEF KillInv, Hears, KillReachesJobs
    <2>2. Init => IInv /\ BuildInv /\ KillInv
      BY InitIInv, InitBuildInv, InitKillInv
    <2>3. IInv /\ BuildInv /\ KillInv /\ [Next]_vars => IInv' /\ BuildInv' /\ KillInv'
      BY <1>1, NextIInv, NextBuildInv, NextKillInv
    <2> QED
      BY <2>1, <2>2, <2>3, PTL DEF Spec
  <1> QED
    BY <1>1
=============================================================================
