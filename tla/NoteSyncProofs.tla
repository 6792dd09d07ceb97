-------------------------- MODULE NoteSyncProofs --------------------------
(* Proofs about NoteSync, for every value of its constants.                 *)
EXTENDS NoteSync, WellFoundedInduction, TLAPS

-----------------------------------------------------------------------------
(* The types.                                                               *)

JobType    == [status : {"queued", "running", "succeeded", "failed", "gone"},
               reason : Reasons, notes : SUBSET Notes]
ClientType == [at : {"none", "read", "record"}, reason : Reasons, todo : SUBSET Notes,
               row : 0..MaxJobs, notes : SUBSET Notes, fresh : SUBSET Notes]
DaemonType == [at : Steps, serving : BOOLEAN, job : 0..MaxJobs, ok : BOOLEAN]

Resting == {"off", "boot", "idle", "dead"}

JobsOK ==
  /\ jobs \in Seq(JobType) /\ Len(jobs) <= MaxJobs
  /\ failures \in Seq(Nat)
  /\ \A i \in DOMAIN failures :
       failures[i] \in DOMAIN jobs /\ jobs[failures[i]].status \in {"failed", "gone"}

DaemonsOK ==
  /\ daemon \in [Daemons -> DaemonType]
  /\ \A d \in Daemons :
       daemon[d].job \in IF daemon[d].at \in Resting THEN {NoJob} ELSE DOMAIN jobs

TypeInv ==
  /\ managed \in BOOLEAN /\ server \in BOOLEAN /\ lock \in Daemons \cup {None}
  /\ JobsOK /\ DaemonsOK
  /\ client \in [Clients -> ClientType] /\ owed \in [Rows -> SUBSET Notes]
  /\ writes \in 0..MaxWrites /\ faults \in 0..MaxFaults

\* What is read of a job, a request and a daemon is of its type.
LEMMA JobFields ==
  ASSUME NEW j \in JobType
  PROVE  /\ j.status \in {"queued", "running", "succeeded", "failed", "gone"}
         /\ j.reason \in Reasons /\ j.notes \subseteq Notes
  BY DEF JobType

LEMMA ClientFields ==
  ASSUME NEW t \in ClientType
  PROVE  /\ t.reason \in Reasons /\ t.row \in 0..MaxJobs
         /\ t.todo \subseteq Notes /\ t.notes \subseteq Notes /\ t.fresh \subseteq Notes
  BY DEF ClientType

\* A request goes on with the notes that are left.
LEMMA ClientNext ==
  ASSUME NEW t \in ClientType, NEW rest \in SUBSET Notes
  PROVE  [t EXCEPT !.at = "read", !.todo = rest, !.row = NoJob, !.notes = {}] \in ClientType
<1>1. NoJob \in 0..MaxJobs
  BY BoundsAssumption DEF NoJob
<1> QED
  BY <1>1 DEF ClientType

LEMMA DaemonFields ==
  ASSUME NEW t \in DaemonType
  PROVE  t.at \in Steps /\ t.serving \in BOOLEAN /\ t.job \in 0..MaxJobs /\ t.ok \in BOOLEAN
  BY DEF DaemonType

\* A job gets a status, or the notes that were recorded in it.
LEMMA JobStatus ==
  ASSUME NEW j \in JobType, NEW s \in {"queued", "running", "succeeded", "failed", "gone"}
  PROVE  [j EXCEPT !.status = s] \in JobType /\ [j EXCEPT !.status = s].status = s
  BY DEF JobType

LEMMA JobNotes ==
  ASSUME NEW j \in JobType, NEW n \in SUBSET Notes
  PROVE  [j EXCEPT !.notes = n] \in JobType /\ [j EXCEPT !.notes = n].status = j.status
  BY DEF JobType

\* The step of a run changes neither its job nor whether its daemon serves.
LEMMA DaemonGoes ==
  ASSUME NEW t \in DaemonType, NEW step \in Steps, NEW ok \in BOOLEAN
  PROVE  LET v == [[t EXCEPT !.at = step] EXCEPT !.ok = ok]
         IN  /\ v \in DaemonType /\ v.at = step
             /\ v.serving = t.serving /\ v.job = t.job
  BY DEF DaemonType

LEMMA DaemonOk ==
  ASSUME NEW t \in DaemonType, NEW step \in Steps, NEW ok \in BOOLEAN
  PROVE  [[t EXCEPT !.at = step] EXCEPT !.ok = ok].ok = ok
  BY DEF DaemonType

LEMMA DaemonAt ==
  ASSUME NEW t \in DaemonType, NEW step \in Steps
  PROVE  LET v == [t EXCEPT !.at = step]
         IN  /\ v \in DaemonType /\ v.at = step
             /\ v.serving = t.serving /\ v.job = t.job
  BY DEF DaemonType

LEMMA Values ==
  /\ Idle \in ClientType /\ Off \in DaemonType
  /\ Off.at = "off" /\ ~Off.serving /\ Off.job = NoJob
  BY BoundsAssumption DEF Idle, ClientType, Reasons, NoJob, Off, DaemonType, Steps

\* A worker that has no job, and one that has ended.
LEMMA AtRestValue ==
  ASSUME NEW step \in Steps
  PROVE  /\ AtRest(step) \in DaemonType /\ AtRest(step).at = step
         /\ AtRest(step).serving /\ AtRest(step).job = NoJob
<1>1. NoJob \in 0..MaxJobs
  BY BoundsAssumption DEF NoJob
<1> QED
  BY <1>1 DEF AtRest, DaemonType

LEMMA TypeInit == Init => TypeInv
<1> SUFFICES ASSUME Init PROVE TypeInv
  OBVIOUS
<1>1. JobsOK
  BY BoundsAssumption DEF Init, JobsOK
<1>2. DaemonsOK
  BY Values DEF Init, DaemonsOK, Resting
<1> QED
  BY <1>1, <1>2, Values, BoundsAssumption DEF Init, TypeInv, Rows

-----------------------------------------------------------------------------
(* The queue.                                                               *)

\* The oldest of some rows is one of them: a non-empty set of numbers has a least.
LEMMA OldestRow ==
  ASSUME NEW S \in SUBSET Nat, Oldest(S) # NoJob
  PROVE  Oldest(S) \in S
<1>1. S # {} /\ Oldest(S) = CHOOSE j \in S : \A i \in S : j <= i
  BY DEF Oldest
<1>2. PICK m \in S : \A n \in S : ~ (<<n, m>> \in OpToRel(<, Nat))
  BY <1>1, WFMin, NatLessThanWellFounded
<1>3. ASSUME NEW n \in S PROVE m <= n
  <2>1. n < m => <<n, m>> \in OpToRel(<, Nat)
    BY DEF OpToRel
  <2>2. ~ (n < m)
    BY <1>2, <2>1
  <2> QED
    BY <2>2
<1> QED
  BY <1>1, <1>3

LEMMA StatusRows ==
  ASSUME JobsOK, NEW s
  PROVE  Status(s) \in SUBSET Nat /\ Status(s) \subseteq DOMAIN jobs
  BY DEF Status, JobsOK

\* What a step may do to the queue: no place goes, and a failed job stays failed
\* until it is deleted.
JobsMove ==
  /\ jobs' \in Seq(JobType) /\ Len(jobs') <= MaxJobs
  /\ Len(jobs) <= Len(jobs')
  /\ \A j \in DOMAIN jobs :
       jobs[j].status \in {"failed", "gone"} => jobs'[j].status \in {"failed", "gone"}

\* No step but a claim makes a job running.
NoneClaimed ==
  \A j \in DOMAIN jobs' :
    jobs'[j].status = "running" => j \in DOMAIN jobs /\ jobs[j].status = "running"

LEMMA JobsStay == ASSUME JobsOK, UNCHANGED jobs PROVE JobsMove /\ NoneClaimed
  BY DEF JobsOK, JobsMove, NoneClaimed

LEMMA JobsRequeued ==
  ASSUME JobsOK, jobs' = Requeued
  PROVE  /\ JobsMove /\ Len(jobs') = Len(jobs)
         /\ \A j \in DOMAIN jobs' : jobs'[j].status # "running"
         /\ \A j \in DOMAIN jobs' :
              jobs'[j].status = "succeeded" => jobs[j].status = "succeeded"
<1> DEFINE q(j) == IF jobs[j].status = "running" THEN [jobs[j] EXCEPT !.status = "queued"]
                   ELSE jobs[j]
<1>1. ASSUME NEW j \in DOMAIN jobs
      PROVE  /\ q(j) \in JobType /\ q(j).status # "running"
             /\ jobs[j].status \in {"failed", "gone"} => q(j).status = jobs[j].status
             /\ q(j).status = "succeeded" => jobs[j].status = "succeeded"
  <2>1. jobs[j] \in JobType
    BY DEF JobsOK
  <2>2. [jobs[j] EXCEPT !.status = "queued"] \in JobType
        /\ [jobs[j] EXCEPT !.status = "queued"].status = "queued"
    BY <2>1, JobStatus
  <2> QED
    BY <2>1, <2>2
<1>2. jobs' = [j \in 1..Len(jobs) |-> q(j)]
  BY DEF Requeued, JobsOK
<1> HIDE DEF q
<1>3. jobs' \in Seq(JobType) /\ Len(jobs') = Len(jobs)
  BY <1>1, <1>2 DEF JobsOK
<1> QED
  BY <1>1, <1>2, <1>3 DEF JobsOK, JobsMove

\* The rows of the purged agent are deleted; the others stay.
LEMMA JobsPurged ==
  ASSUME JobsOK, PurgeAgent
  PROVE  /\ JobsMove /\ NoneClaimed /\ Len(jobs') = Len(jobs)
         /\ \A j \in DOMAIN jobs' : jobs'[j].status \in {jobs[j].status, "gone"}
<1> DEFINE q(j) == IF jobs[j].reason = "write" THEN [jobs[j] EXCEPT !.status = "gone"]
                   ELSE jobs[j]
<1>1. ASSUME NEW j \in DOMAIN jobs
      PROVE  q(j) \in JobType /\ q(j).status \in {jobs[j].status, "gone"}
  <2>1. jobs[j] \in JobType
    BY DEF JobsOK
  <2>2. [jobs[j] EXCEPT !.status = "gone"] \in JobType
        /\ [jobs[j] EXCEPT !.status = "gone"].status = "gone"
    BY <2>1, JobStatus
  <2> QED
    BY <2>1, <2>2
<1>2. jobs' = [j \in 1..Len(jobs) |-> q(j)]
  BY DEF PurgeAgent, JobsOK
<1> HIDE DEF q
<1>3. jobs' \in Seq(JobType) /\ Len(jobs') = Len(jobs)
  BY <1>1, <1>2 DEF JobsOK
<1>4. \A j \in DOMAIN jobs : jobs'[j].status \in {jobs[j].status, "gone"}
  BY <1>1, <1>2 DEF JobsOK
<1> QED
  BY <1>3, <1>4 DEF JobsOK, JobsMove, NoneClaimed

\* A sequence with another value at one place.
LEMMA SeqExcept ==
  ASSUME NEW T, NEW s \in Seq(T), NEW i, NEW v, i \in DOMAIN s => v \in T
  PROVE  LET t == [s EXCEPT ![i] = v]
         IN  /\ t \in Seq(T) /\ Len(t) = Len(s)
             /\ \A k \in DOMAIN s : t[k] = IF k = i THEN v ELSE s[k]
<1> DEFINE t == [s EXCEPT ![i] = v]
           u == [k \in 1..Len(s) |-> IF k = i THEN v ELSE s[k]]
<1>1. t = u
  OBVIOUS
<1>2. u \in Seq(T) /\ Len(u) = Len(s) /\ \A k \in DOMAIN s : u[k] = IF k = i THEN v ELSE s[k]
  OBVIOUS
<1> QED
  BY <1>1, <1>2

\* One job gets a new status.
LEMMA JobsMarked ==
  ASSUME JobsOK, NEW j \in DOMAIN jobs, NEW s \in {"running", "succeeded", "failed"},
         jobs[j].status \notin {"failed", "gone"}, jobs' = [jobs EXCEPT ![j].status = s]
  PROVE  /\ JobsMove /\ Len(jobs') = Len(jobs) /\ jobs'[j].status = s
         /\ \A i \in DOMAIN jobs : i # j => jobs'[i].status = jobs[i].status
<1> DEFINE v == [jobs[j] EXCEPT !.status = s]
<1>0. jobs \in Seq(JobType) /\ jobs[j] \in JobType
  BY DEF JobsOK
<1>a. s \in {"queued", "running", "succeeded", "failed", "gone"}
  OBVIOUS
<1>1. v \in JobType /\ v.status = s
  BY <1>0, <1>a, JobStatus
<1>2. jobs' = [jobs EXCEPT ![j] = v]
  OBVIOUS
<1> HIDE DEF v
<1>3. /\ jobs' \in Seq(JobType) /\ Len(jobs') = Len(jobs)
      /\ \A k \in DOMAIN jobs : jobs'[k] = IF k = j THEN v ELSE jobs[k]
  BY <1>0, <1>1, <1>2, SeqExcept
<1>4. jobs'[j] = v /\ \A i \in DOMAIN jobs : i # j => jobs'[i] = jobs[i]
  BY <1>3
<1>5. \A i \in DOMAIN jobs :
        jobs[i].status \in {"failed", "gone"} => jobs'[i].status = jobs[i].status
  BY <1>4
<1> QED
  BY <1>0, <1>1, <1>3, <1>4, <1>5 DEF JobsOK, JobsMove

LEMMA JobsRecorded ==
  ASSUME JobsOK, NEW t \in ClientType, NEW asked \in SUBSET Notes,
         t.row = NoJob => Len(jobs) < MaxJobs,
         jobs' = IF t.row = NoJob
                 THEN Append(jobs, [status |-> "queued", reason |-> t.reason, notes |-> asked])
                 ELSE [jobs EXCEPT ![t.row].notes = t.notes \cup asked]
  PROVE  /\ JobsMove /\ NoneClaimed
         /\ \A j \in DOMAIN jobs : jobs'[j].status = jobs[j].status
         /\ \A j \in DOMAIN jobs' \ DOMAIN jobs : jobs'[j].status = "queued"
<1>1. CASE t.row = NoJob
  <2> DEFINE v == [status |-> "queued", reason |-> t.reason, notes |-> asked]
  <2>1. v \in JobType /\ v.status = "queued"
    BY ClientFields DEF JobType
  <2>2. jobs' = Append(jobs, v)
    BY <1>1
  <2> HIDE DEF v
  <2> QED
    BY <1>1, <2>1, <2>2, BoundsAssumption DEF JobsOK, JobsMove, NoneClaimed
<1>2. CASE t.row # NoJob
  <2> DEFINE v == [jobs[t.row] EXCEPT !.notes = t.notes \cup asked]
  <2>0. jobs \in Seq(JobType) /\ t.notes \cup asked \in SUBSET Notes
    BY ClientFields DEF JobsOK
  <2>1. ASSUME t.row \in DOMAIN jobs PROVE v \in JobType /\ v.status = jobs[t.row].status
    <3>1. jobs[t.row] \in JobType
      BY <2>0, <2>1
    <3> QED
      BY <2>0, <3>1, JobNotes
  <2>2. jobs' = [jobs EXCEPT ![t.row] = v]
    BY <1>2
  <2> HIDE DEF v
  <2>3. /\ jobs' \in Seq(JobType) /\ Len(jobs') = Len(jobs)
        /\ \A k \in DOMAIN jobs : jobs'[k] = IF k = t.row THEN v ELSE jobs[k]
    <3>1. t.row \in DOMAIN jobs => v \in JobType
      BY <2>1
    <3> DEFINE i == t.row
    <3>2. jobs' = [jobs EXCEPT ![i] = v] /\ (i \in DOMAIN jobs => v \in JobType)
      BY <2>2, <3>1
    <3> HIDE DEF i
    <3>3. /\ jobs' \in Seq(JobType) /\ Len(jobs') = Len(jobs)
          /\ \A k \in DOMAIN jobs : jobs'[k] = IF k = i THEN v ELSE jobs[k]
      BY <2>0, <3>2, SeqExcept
    <3> QED
      BY <3>3 DEF i
  <2> QED
    BY <2>0, <2>1, <2>3 DEF JobsOK, JobsMove, NoneClaimed
<1> QED
  BY <1>1, <1>2

-----------------------------------------------------------------------------
(* The invariants.                                                          *)

Locked == {"locked", "syncing", "restore", "verify"}

\* A run that has the profile's lock has it until its last step.
LockHeld == \A d \in Daemons : daemon[d].at \in Locked => lock = d

\* One daemon serves at a time, and a worker at rest is that daemon's.
OneServes ==
  /\ \A d, e \in Daemons : daemon[d].serving /\ daemon[e].serving => d = e
  /\ \A d \in Daemons : daemon[d].at \in {"boot", "idle", "dead"} => daemon[d].serving

Inv == TypeInv /\ LockHeld /\ ExclusiveProfile /\ OneServes /\ RunningIsWorked

LEMMA InvInit == Init => Inv
<1> SUFFICES ASSUME Init PROVE Inv
  OBVIOUS
<1>1. \A d \in Daemons : daemon[d].at = "off" /\ ~daemon[d].serving
  BY Values DEF Init
<1>2. Serving = {}
  BY <1>1 DEF Serving
<1> QED
  BY <1>1, <1>2, TypeInit
     DEF Inv, LockHeld, Locked, ExclusiveProfile, OneServes, RunningIsWorked

\* The failures stay failed jobs.
LEMMA FailuresStay == ASSUME JobsOK, JobsMove, UNCHANGED failures PROVE JobsOK'
  BY DEF JobsOK, JobsMove

\* A step that leaves the daemons alone.
LEMMA QueueKeeps ==
  ASSUME Inv, JobsMove, NoneClaimed, UNCHANGED <<managed, server, failures, lock, daemon>>
  PROVE  JobsOK' /\ DaemonsOK' /\ LockHeld' /\ ExclusiveProfile' /\ OneServes'
         /\ RunningIsWorked'
<1>1. JobsOK'
  BY FailuresStay DEF Inv, TypeInv
<1>2. DaemonsOK'
  BY DEF Inv, TypeInv, DaemonsOK, JobsOK, JobsMove
<1>3. Serving' = Serving
  BY DEF Serving
<1>4. RunningIsWorked'
  BY <1>3 DEF Inv, RunningIsWorked, Workerless, Status, NoneClaimed
<1> QED
  BY <1>1, <1>2, <1>4 DEF Inv, LockHeld, ExclusiveProfile, OneServes

\* A request: the notes it asks a sync for, what it reads, and what it records.
LEMMA RequestKeeps == ASSUME Inv, NEW c \in Clients, Requests(c) PROVE Inv'
<1>0. /\ JobsOK /\ client[c] \in ClientType /\ client \in [Clients -> ClientType]
      /\ Idle \in ClientType /\ owed \in [Rows -> SUBSET Notes]
      /\ faults \in 0..MaxFaults /\ writes \in 0..MaxWrites
  BY Values DEF Inv, TypeInv
<1>1. ASSUME NEW t \in ClientType, client' = [client EXCEPT ![c] = t],
             writes' \in 0..MaxWrites,
             UNCHANGED <<managed, server, queue, lock, daemon, faults>>
      PROVE  Inv'
  <2>1. JobsMove /\ NoneClaimed
    BY <1>0, <1>1, JobsStay DEF queue
  <2>2. /\ JobsOK' /\ DaemonsOK' /\ LockHeld' /\ ExclusiveProfile' /\ OneServes'
        /\ RunningIsWorked'
    BY <1>1, <2>1, QueueKeeps DEF queue
  <2> QED
    BY <1>0, <1>1, <2>2 DEF Inv, TypeInv, queue
<1>2. writes < MaxWrites => writes + 1 \in 0..MaxWrites
  BY <1>0, BoundsAssumption
<1>3. ASSUME NEW n \in Notes, WriteNote(c, n) PROVE Inv'
  <2>1. [Idle EXCEPT !.at = "read", !.reason = "write", !.todo = {n}, !.fresh = {n}]
          \in ClientType
    BY <1>0 DEF ClientType, Reasons
  <2> QED
    BY <1>1, <1>2, <1>3, <2>1 DEF WriteNote
<1>4. CASE RequestSync(c)
  <2>1. [Idle EXCEPT !.at = "read"] \in ClientType
    BY <1>0 DEF ClientType
  <2> QED
    BY <1>1, <1>2, <1>4, <2>1 DEF RequestSync
<1>5. CASE RetryWrite(c)
  <2>1. PICK i \in DOMAIN failures :
          client' = [client EXCEPT ![c] = [Idle EXCEPT !.at = "read",
                       !.reason = jobs[failures[i]].reason, !.todo = jobs[failures[i]].notes]]
    BY <1>5 DEF RetryWrite, FailedWrites
  <2>2. jobs[failures[i]] \in JobType
    BY <1>0 DEF JobsOK
  <2>3. [Idle EXCEPT !.at = "read", !.reason = jobs[failures[i]].reason,
                     !.todo = jobs[failures[i]].notes] \in ClientType
    BY <1>0, <2>2, JobFields DEF ClientType
  <2>4. /\ writes' \in 0..MaxWrites
        /\ UNCHANGED <<managed, server, queue, lock, daemon, faults>>
    BY <1>2, <1>5 DEF RetryWrite
  <2> QED
    BY <1>1, <2>1, <2>3, <2>4
<1>6. CASE EnqueueRead(c)
  <2> DEFINE S == {j \in Status({"queued"}) : jobs[j].reason = client[c].reason}
             row == Oldest(S)
             ns == IF row = NoJob THEN {} ELSE jobs[row].notes
  <2>1. S \in SUBSET Nat /\ S \subseteq DOMAIN jobs
    BY <1>0, StatusRows
  <2>2. row # NoJob => row \in DOMAIN jobs
    BY <2>1, OldestRow
  <2>3. row \in 0..MaxJobs
    BY <1>0, <2>2, BoundsAssumption DEF JobsOK, NoJob
  <2>4. row # NoJob => jobs[row] \in JobType
    BY <1>0, <2>2 DEF JobsOK
  <2>5. ns \subseteq Notes
    BY <2>4, JobFields
  <2>6. client' = [client EXCEPT ![c] = [client[c] EXCEPT !.at = "record", !.row = row,
                                                          !.notes = ns]]
    BY <1>0, <1>6 DEF EnqueueRead
  <2> HIDE DEF row, ns
  <2>7. [client[c] EXCEPT !.at = "record", !.row = row, !.notes = ns] \in ClientType
    BY <1>0, <2>3, <2>5 DEF ClientType
  <2> QED
    BY <1>0, <1>1, <1>6, <2>6, <2>7 DEF EnqueueRead
<1>7. CASE EnqueueWrite(c)
  <2> DEFINE t == client[c]
             row == IF t.row = NoJob THEN Len(jobs) + 1 ELSE t.row
  <2>0. t.todo \subseteq Notes /\ t.fresh \subseteq Notes
    BY <1>0, ClientFields
  <2>1. PICK asked \in {{n} : n \in t.todo} \cup (IF t.todo = {} THEN {{}} ELSE {}) :
          /\ jobs' = Recorded(c, asked)
          /\ owed' = [owed EXCEPT ![row] = @ \cup (asked \cap t.fresh)]
          /\ client' = [client EXCEPT ![c] =
               IF t.todo \ asked = {} THEN Idle
               ELSE [t EXCEPT !.at = "read", !.todo = t.todo \ asked, !.row = NoJob,
                              !.notes = {}]]
    BY <1>7 DEF EnqueueWrite
  <2>b. asked \in SUBSET Notes /\ t.todo \ asked \in SUBSET Notes
    BY <2>0
  <2>2. t.row = NoJob => Len(jobs) < MaxJobs
    BY <1>7 DEF EnqueueWrite
  <2>3. JobsMove /\ NoneClaimed
    BY <1>0, <2>1, <2>2, <2>b, JobsRecorded DEF Recorded
  <2>4. [t EXCEPT !.at = "read", !.todo = t.todo \ asked, !.row = NoJob, !.notes = {}]
          \in ClientType
    BY <1>0, <2>b, ClientNext
  <2>5. client' \in [Clients -> ClientType]
    BY <1>0, <2>1, <2>4
  <2>6. owed' \in [Rows -> SUBSET Notes]
    BY <1>0, <2>0, <2>1
  <2>7. UNCHANGED <<managed, server, failures, lock, daemon, writes, faults>>
    BY <1>7 DEF EnqueueWrite
  <2>8. /\ JobsOK' /\ DaemonsOK' /\ LockHeld' /\ ExclusiveProfile' /\ OneServes'
        /\ RunningIsWorked'
    BY <2>3, <2>7, QueueKeeps
  <2> QED
    BY <2>5, <2>6, <2>7, <2>8 DEF Inv, TypeInv
<1>8. CASE EnqueueFails(c)
  <2>1. /\ client' = [client EXCEPT ![c] = Idle] /\ (Sound \/ Faulty)
        /\ UNCHANGED <<managed, server, queue, lock, daemon, writes>>
    BY <1>8 DEF EnqueueFails
  <2>2. JobsMove /\ NoneClaimed
    BY <1>0, <2>1, JobsStay DEF queue
  <2>3. /\ JobsOK' /\ DaemonsOK' /\ LockHeld' /\ ExclusiveProfile' /\ OneServes'
        /\ RunningIsWorked'
    BY <2>1, <2>2, QueueKeeps DEF queue
  <2>4. faults' \in 0..MaxFaults
    BY <1>0, <2>1, BoundsAssumption DEF Sound, Faulty
  <2> QED
    BY <1>0, <2>1, <2>3, <2>4 DEF Inv, TypeInv, queue
<1> QED
  BY <1>3, <1>4, <1>5, <1>6, <1>7, <1>8 DEF Requests

\* The purge of an agent's rows.
LEMMA PurgeKeeps == Inv /\ PurgeAgent => Inv'
<1> SUFFICES ASSUME Inv, PurgeAgent PROVE Inv'
  OBVIOUS
<1>1. UNCHANGED <<managed, server, failures, owed, lock, client, daemon, writes, faults>>
  BY DEF PurgeAgent
<1>2. JobsMove /\ NoneClaimed
  BY JobsPurged DEF Inv, TypeInv
<1>3. /\ JobsOK' /\ DaemonsOK' /\ LockHeld' /\ ExclusiveProfile' /\ OneServes'
      /\ RunningIsWorked'
  BY <1>1, <1>2, QueueKeeps
<1> QED
  BY <1>1, <1>3 DEF Inv, TypeInv

-----------------------------------------------------------------------------
(* The steps of a run.                                                      *)

\* What every step of a run leaves: its job, whether its daemon serves, and the
\* queue; the lock only with the last step.
Runs(d, v) ==
  /\ v \in DaemonType /\ daemon' = [daemon EXCEPT ![d] = v]
  /\ v.serving = daemon[d].serving /\ v.job = daemon[d].job
  /\ v.at \notin Resting /\ daemon[d].at \notin Resting

LEMMA GoesRuns ==
  ASSUME Inv, NEW d \in Daemons, NEW step \in Steps \ Resting, NEW ok \in BOOLEAN,
         Goes(d, step, ok), daemon[d].at \notin Resting
  PROVE  \E v \in DaemonType : Runs(d, v) /\ v.at = step
<1> DEFINE v == [[daemon[d] EXCEPT !.at = step] EXCEPT !.ok = ok]
<1>1. daemon[d] \in DaemonType
  BY DEF Inv, TypeInv, DaemonsOK
<1>2. /\ v \in DaemonType /\ v.at = step
      /\ v.serving = daemon[d].serving /\ v.job = daemon[d].job
  BY <1>1, DaemonGoes
<1>3. daemon' = [daemon EXCEPT ![d] = v]
  BY DEF Goes, Inv, TypeInv, DaemonsOK
<1> HIDE DEF v
<1> QED
  BY <1>2, <1>3 DEF Runs

\* The parts of the invariant that no step of a run can disturb.
LEMMA RunsKeep ==
  ASSUME Inv, NEW d \in Daemons, NEW v, Runs(d, v), UNCHANGED <<jobs, failures>>
  PROVE  /\ JobsOK' /\ DaemonsOK' /\ OneServes' /\ RunningIsWorked'
         /\ daemon'[d].at = v.at
         /\ \A e \in Daemons : e # d => daemon'[e] = daemon[e]
<1>1. /\ daemon \in [Daemons -> DaemonType] /\ daemon' \in [Daemons -> DaemonType]
      /\ daemon'[d] = v /\ \A e \in Daemons : e # d => daemon'[e] = daemon[e]
  BY DEF Inv, TypeInv, DaemonsOK, Runs
<1>2. JobsOK'
  BY DEF Inv, TypeInv, JobsOK
<1>3. DaemonsOK'
  BY <1>1 DEF Inv, TypeInv, DaemonsOK, Runs
<1>4. \A e \in Daemons : /\ daemon'[e].serving = daemon[e].serving
                         /\ daemon'[e].job = daemon[e].job
  BY <1>1 DEF Runs
<1>5. OneServes'
  BY <1>1, <1>4 DEF Inv, OneServes, Runs, Resting
<1>6. Serving' = Serving /\ Status({"running"})' = Status({"running"})
  BY <1>4 DEF Serving, Status
<1>7. RunningIsWorked'
  <2>1. Workerless' <=> Workerless
    BY <1>1 DEF Workerless, Runs, Resting
  <2> QED
    BY <1>4, <1>6, <2>1 DEF Inv, RunningIsWorked, Serving
<1> QED
  BY <1>1, <1>2, <1>3, <1>5, <1>7

\* The lock of the others: a step gives the lock to d when it is free, takes it
\* from d, or leaves it.
LEMMA LockKeeps ==
  ASSUME Inv, NEW d \in Daemons, NEW at, daemon'[d].at = at,
         \A e \in Daemons : e # d => daemon'[e] = daemon[e],
         \/ lock' = lock
         \/ lock = None /\ lock' = d
         \/ lock = d /\ lock' = None,
         at \in Locked => lock' = d
  PROVE  LockHeld'
<1>1. ASSUME NEW e \in Daemons, e # d, daemon[e].at \in Locked PROVE lock' = e
  BY <1>1, NoneAssumption DEF Inv, LockHeld
<1> QED
  BY <1>1 DEF LockHeld

LEMMA FaultsOK ==
  ASSUME Inv, Sound \/ Faulty
  PROVE  faults' \in 0..MaxFaults
  BY BoundsAssumption DEF Sound, Faulty, Inv, TypeInv

LEMMA TakeLockKeeps == ASSUME Inv, NEW d \in Daemons, TakeLock(d) PROVE Inv'
<1>0. /\ daemon[d] \in DaemonType /\ daemon[d].at = "claimed" /\ daemon[d].at \notin Resting
      /\ UNCHANGED <<managed, server, jobs, failures, owed, client, writes, faults>>
  BY DEF TakeLock, Inv, TypeInv, DaemonsOK, Resting, queue
<1>1. \/ \E v \in DaemonType : /\ Runs(d, v) /\ v.at = "locked"
                               /\ lock = None /\ lock' = d
      \/ \E v \in DaemonType : /\ Runs(d, v) /\ v.at = "failed" /\ lock # None
                               /\ lock' = IF lock = d THEN None ELSE lock
  <2>1. CASE lock = None
    <3> DEFINE v == [daemon[d] EXCEPT !.at = "locked"]
    <3>1. /\ v \in DaemonType /\ v.at = "locked"
          /\ v.serving = daemon[d].serving /\ v.job = daemon[d].job
      BY <1>0, DaemonAt DEF Steps
    <3>2. daemon' = [daemon EXCEPT ![d] = v] /\ lock' = d
      BY <2>1 DEF TakeLock, Inv, TypeInv, DaemonsOK
    <3> HIDE DEF v
    <3> QED
      BY <1>0, <2>1, <3>1, <3>2 DEF Runs, Resting
  <2>2. CASE lock # None
    <3>1. Goes(d, "failed", FALSE)
      BY <2>2 DEF TakeLock
    <3>2. \E v \in DaemonType : Runs(d, v) /\ v.at = "failed"
      BY <1>0, <3>1, GoesRuns DEF Steps, Resting
    <3> QED
      BY <2>2, <3>1, <3>2 DEF Goes
  <2> QED
    BY <2>1, <2>2
<1>2. PICK v \in DaemonType :
        /\ Runs(d, v)
        /\ \/ v.at = "locked" /\ lock = None /\ lock' = d
           \/ v.at = "failed" /\ lock' = IF lock = d THEN None ELSE lock
  BY <1>1
<1>3. /\ JobsOK' /\ DaemonsOK' /\ OneServes' /\ RunningIsWorked'
      /\ daemon'[d].at = v.at
      /\ \A e \in Daemons : e # d => daemon'[e] = daemon[e]
  BY <1>0, <1>2, RunsKeep
<1>4. LockHeld'
  BY <1>2, <1>3, LockKeeps DEF Locked
<1>5. ExclusiveProfile'
  BY <1>0, <1>2, <1>3 DEF Inv, ExclusiveProfile
<1>6. TypeInv'
  BY <1>0, <1>2, <1>3 DEF Inv, TypeInv
<1> QED
  BY <1>3, <1>4, <1>5, <1>6 DEF Inv

\* A step of the run that has the lock: no other run has it, so none is syncing,
\* and the Data API may start again unless this one syncs.
LEMMA GoesKeep ==
  ASSUME Inv, NEW d \in Daemons, NEW step \in Locked \cup {"succeeded", "failed"},
         NEW ok \in BOOLEAN, Goes(d, step, ok), daemon[d].at \in Locked,
         managed /\ step = "syncing" => ~server',
         server' \in BOOLEAN, client' \in [Clients -> ClientType],
         owed' \in [Rows -> SUBSET Notes], Sound \/ Faulty,
         UNCHANGED <<managed, jobs, failures, writes>>
  PROVE  Inv'
<1>0. lock = d /\ step \in Steps \ Resting /\ daemon[d].at \notin Resting
  BY DEF Inv, LockHeld, Locked, Resting, Steps
<1>1. PICK v \in DaemonType : Runs(d, v) /\ v.at = step
  BY <1>0, GoesRuns
<1>2. /\ JobsOK' /\ DaemonsOK' /\ OneServes' /\ RunningIsWorked'
      /\ daemon'[d].at = step
      /\ \A e \in Daemons : e # d => daemon'[e] = daemon[e]
  BY <1>1, RunsKeep
<1>3. /\ lock' = lock \/ (lock = d /\ lock' = None)
      /\ step \in Locked => lock' = d
  BY <1>0 DEF Goes, Locked
<1>4. LockHeld'
  BY <1>2, <1>3, LockKeeps
<1>5. \A e \in Daemons : daemon'[e].at = "syncing" => e = d /\ step = "syncing"
  BY <1>0, <1>2 DEF Inv, LockHeld, Locked
<1>6. ExclusiveProfile'
  BY <1>5 DEF ExclusiveProfile
<1>7. TypeInv'
  BY <1>2, <1>3, FaultsOK DEF Inv, TypeInv
<1> QED
  BY <1>2, <1>4, <1>6, <1>7 DEF Inv

LEMMA RunStepKeeps ==
  ASSUME Inv, NEW d \in Daemons,
         StopServer(d) \/ SyncProfile(d) \/ StartServer(d) \/ Verify(d)
  PROVE  Inv'
<1>0. /\ daemon[d] \in DaemonType /\ daemon[d].ok \in BOOLEAN
      /\ managed \in BOOLEAN /\ server \in BOOLEAN
      /\ client \in [Clients -> ClientType] /\ owed \in [Rows -> SUBSET Notes]
  BY DaemonFields DEF Inv, TypeInv, DaemonsOK
<1>1. CASE StopServer(d)
  <2>0. /\ daemon[d].at \in Locked
        /\ UNCHANGED <<managed, jobs, failures, owed, client, writes>>
    BY <1>1 DEF StopServer, Locked, queue
  <2>1. CASE Sound /\ Goes(d, "syncing", TRUE) /\ server' = (server /\ ~managed)
    BY <1>0, <2>0, <2>1, GoesKeep DEF Locked
  <2>2. CASE Faulty /\ Goes(d, "failed", FALSE) /\ server' \in {server, FALSE}
    BY <1>0, <2>0, <2>2, GoesKeep
  <2> QED
    BY <1>1, <2>1, <2>2 DEF StopServer
<1>2. CASE SyncProfile(d)
  <2>0. /\ daemon[d].at \in Locked
        /\ UNCHANGED <<managed, server, jobs, failures, writes>>
    BY <1>2 DEF SyncProfile, Locked
  <2>1. CASE Sound /\ Goes(d, "restore", TRUE) /\ owed' = [j \in Rows |-> {}]
             /\ client' = [c \in Clients |-> [client[c] EXCEPT !.fresh = {}]]
    <3>1. \A t \in ClientType : [t EXCEPT !.fresh = {}] \in ClientType
      BY DEF ClientType
    <3>2. client' \in [Clients -> ClientType]
      BY <1>0, <2>1, <3>1
    <3>3. owed' \in [Rows -> SUBSET Notes]
      BY <2>1
    <3> QED
      BY <1>0, <2>0, <2>1, <3>2, <3>3, GoesKeep DEF Locked
  <2>2. CASE Faulty /\ Goes(d, "restore", FALSE) /\ UNCHANGED <<owed, client>>
    BY <1>0, <2>0, <2>2, GoesKeep DEF Locked
  <2> QED
    BY <1>2, <2>1, <2>2 DEF SyncProfile
<1>3. CASE StartServer(d)
  <2>0. /\ daemon[d].at \in Locked
        /\ UNCHANGED <<managed, jobs, failures, owed, client, writes>>
    BY <1>3 DEF StartServer, Locked, queue
  <2>1. CASE /\ Sound /\ server' = TRUE
             /\ Goes(d, IF daemon[d].ok THEN "verify" ELSE "failed", daemon[d].ok)
    <3>1. CASE daemon[d].ok
      <4>1. Goes(d, "verify", TRUE)
        BY <1>0, <2>1, <3>1
      <4> QED
        BY <1>0, <2>0, <2>1, <4>1, GoesKeep DEF Locked
    <3>2. CASE ~daemon[d].ok
      <4>1. Goes(d, "failed", FALSE)
        BY <1>0, <2>1, <3>2
      <4> QED
        BY <1>0, <2>0, <2>1, <4>1, GoesKeep
    <3> QED
      BY <3>1, <3>2
  <2>2. CASE Faulty /\ Goes(d, "failed", FALSE) /\ UNCHANGED server
    BY <1>0, <2>0, <2>2, GoesKeep
  <2> QED
    BY <1>3, <2>1, <2>2 DEF StartServer
<1>4. CASE Verify(d)
  <2>0. /\ daemon[d].at \in Locked
        /\ UNCHANGED <<managed, server, jobs, failures, owed, client, writes>>
    BY <1>4 DEF Verify, Locked, queue
  <2>1. CASE Sound /\ Goes(d, "succeeded", TRUE)
    BY <1>0, <2>0, <2>1, GoesKeep
  <2>2. CASE (Sound \/ Faulty) /\ Goes(d, "failed", FALSE)
    BY <1>0, <2>0, <2>2, GoesKeep
  <2> QED
    BY <1>4, <2>1, <2>2 DEF Verify
<1> QED
  BY <1>1, <1>2, <1>3, <1>4

-----------------------------------------------------------------------------
(* The worker between runs, and the processes.                              *)

\* While the serving daemon has no job, or its job is not running, none is, unless
\* its worker has ended.
LEMMA NoneRunning ==
  ASSUME Inv, NEW d \in Daemons, daemon[d].serving, daemon[d].at # "dead",
         daemon[d].at \in Resting \/ jobs[daemon[d].job].status # "running"
  PROVE  Status({"running"}) = {}
<1> SUFFICES ASSUME NEW j \in Status({"running"}) PROVE FALSE
  OBVIOUS
<1>1. d \in Serving /\ \A e \in Serving : e = d
  BY DEF Serving, Inv, OneServes
<1>2. daemon[d].job = j
  <2>1. ~Workerless
    BY <1>1 DEF Workerless, Serving, Inv, OneServes
  <2> QED
    BY <1>1, <2>1 DEF Inv, RunningIsWorked
<1>3. j \in DOMAIN jobs /\ jobs[j].status = "running" /\ j # NoJob
  BY DEF Status, NoJob, Inv, TypeInv, JobsOK
<1> QED
  BY <1>2, <1>3 DEF Inv, TypeInv, DaemonsOK

\* Daemon d goes on as v, which has no lock unless d had it.
Turns(d, v) ==
  /\ v \in DaemonType /\ daemon' = [daemon EXCEPT ![d] = v]
  /\ v.at \in Locked => v.at = daemon[d].at
  /\ v.at \in {"boot", "idle", "dead"} => v.serving
  /\ \/ lock' = lock
     \/ lock = d /\ lock' = None /\ v.at \notin Locked

LEMMA TurnsKeep ==
  ASSUME Inv, NEW d \in Daemons, NEW v, Turns(d, v),
         managed' = managed, server' => server \/ (managed /\ lock = None)
  PROVE  /\ LockHeld' /\ ExclusiveProfile' /\ lock' \in Daemons \cup {None}
         /\ daemon' \in [Daemons -> DaemonType] /\ daemon'[d] = v
         /\ \A e \in Daemons : e # d => daemon'[e] = daemon[e]
<1>1. /\ daemon \in [Daemons -> DaemonType] /\ daemon' \in [Daemons -> DaemonType]
      /\ daemon'[d] = v /\ \A e \in Daemons : e # d => daemon'[e] = daemon[e]
      /\ lock' \in Daemons \cup {None}
  BY DEF Inv, TypeInv, DaemonsOK, Turns
<1>2. LockHeld'
  BY <1>1 DEF Inv, LockHeld, Turns
<1>3. ASSUME managed, NEW e \in Daemons, daemon'[e].at = "syncing" PROVE ~server'
  <2>1. daemon[e].at = "syncing"
    BY <1>1, <1>3 DEF Turns, Locked
  <2>2. ~server /\ lock # None
    BY <1>3, <2>1, NoneAssumption DEF Inv, ExclusiveProfile, LockHeld, Locked
  <2> QED
    BY <2>2
<1> QED
  BY <1>1, <1>2, <1>3 DEF ExclusiveProfile

\* The job that is next is a queued one.
LEMMA JobNext ==
  ASSUME Inv, NextJob # NoJob
  PROVE  NextJob \in DOMAIN jobs /\ jobs[NextJob].status = "queued"
<1>1. Status({"queued"}) \in SUBSET Nat
  BY StatusRows DEF Inv, TypeInv
<1>2. NextJob \in Status({"queued"})
  BY <1>1, OldestRow DEF NextJob
<1> QED
  BY <1>2 DEF Status

LEMMA ClaimKeeps == ASSUME Inv, NEW d \in Daemons, Claim(d) PROVE Inv'
<1> DEFINE j == NextJob
           v == [daemon[d] EXCEPT !.at = "claimed", !.job = j]
<1>0. /\ daemon[d].at = "idle" /\ daemon[d] \in DaemonType /\ daemon[d].serving /\ JobsOK
      /\ UNCHANGED <<managed, server, failures, owed, lock, client, writes, faults>>
  BY DEF Claim, Inv, TypeInv, DaemonsOK, OneServes
<1>1. j \in DOMAIN jobs /\ jobs[j].status = "queued"
  BY JobNext DEF Claim
<1>2. jobs' = [jobs EXCEPT ![j].status = "running"] /\ daemon' = [daemon EXCEPT ![d] = v]
  BY DEF Claim, Inv, TypeInv, DaemonsOK
<1>3. v \in DaemonType /\ v.at = "claimed" /\ v.job = j /\ v.serving
  <2>1. j \in 0..MaxJobs
    BY <1>0, <1>1, BoundsAssumption DEF JobsOK
  <2> HIDE DEF j
  <2> QED
    BY <1>0, <2>1 DEF DaemonType, Steps
<1>4. /\ JobsMove /\ Len(jobs') = Len(jobs)
      /\ \A i \in DOMAIN jobs : i # j => jobs'[i].status = jobs[i].status
  <2> HIDE DEF j
  <2> QED
    BY <1>0, <1>1, <1>2, JobsMarked
<1> HIDE DEF j, v
<1>5. Turns(d, v)
  BY <1>0, <1>2, <1>3 DEF Turns, Locked
<1>6. /\ LockHeld' /\ ExclusiveProfile' /\ daemon' \in [Daemons -> DaemonType]
      /\ daemon'[d] = v /\ \A e \in Daemons : e # d => daemon'[e] = daemon[e]
  BY <1>0, <1>5, TurnsKeep
<1>7. JobsOK'
  BY <1>0, <1>4, FailuresStay
<1>8. DaemonsOK'
  <2>1. DOMAIN jobs' = DOMAIN jobs
    BY <1>0, <1>4 DEF JobsOK, JobsMove
  <2> QED
    BY <1>1, <1>3, <1>6, <2>1 DEF Inv, TypeInv, DaemonsOK, Resting
<1>9. OneServes'
  BY <1>0, <1>3, <1>6 DEF Inv, OneServes
<1>10. RunningIsWorked'
  <2>1. Status({"running"}) = {}
    BY <1>0, NoneRunning DEF Resting
  <2>2. DOMAIN jobs' = DOMAIN jobs
    BY <1>0, <1>4 DEF JobsOK, JobsMove
  <2>3. Status({"running"})' \subseteq {j}
    BY <1>4, <2>1, <2>2 DEF Status
  <2>4. d \in Serving' /\ daemon'[d].job = j
    BY <1>3, <1>6 DEF Serving
  <2> QED
    BY <2>3, <2>4 DEF RunningIsWorked
<1>11. TypeInv'
  BY <1>0, <1>7, <1>8 DEF Inv, TypeInv
<1> QED
  BY <1>6, <1>9, <1>10, <1>11 DEF Inv

\* Steps that come to rest with nothing running, whoever served.
LEMMA RestKeeps ==
  ASSUME Inv, NEW d \in Daemons, NEW v, Turns(d, v),
         managed' = managed, server' \in BOOLEAN, server' => server \/ (managed /\ lock = None),
         JobsOK', Len(jobs) <= Len(jobs'),
         v.job = IF v.at \in Resting THEN NoJob ELSE daemon[d].job,
         v.at \notin Resting => daemon[d].at \notin Resting,
         v.serving => daemon[d].serving \/ Serving = {},
         RunningIsWorked',
         client' \in [Clients -> ClientType], owed' \in [Rows -> SUBSET Notes],
         writes' = writes, faults' \in 0..MaxFaults
  PROVE  Inv'
<1>1. /\ LockHeld' /\ ExclusiveProfile' /\ lock' \in Daemons \cup {None}
      /\ daemon' \in [Daemons -> DaemonType] /\ daemon'[d] = v
      /\ \A e \in Daemons : e # d => daemon'[e] = daemon[e]
  BY TurnsKeep
<1>2. DOMAIN jobs \subseteq DOMAIN jobs'
  BY DEF JobsOK, Inv, TypeInv
<1>3. DaemonsOK'
  BY <1>1, <1>2 DEF Inv, TypeInv, DaemonsOK
<1>4. OneServes'
  BY <1>1 DEF Inv, OneServes, Serving, Turns
<1>5. TypeInv'
  BY <1>1, <1>3 DEF Inv, TypeInv
<1> QED
  BY <1>1, <1>4, <1>5 DEF Inv

\* A step that leaves the data of requests and queue alone.
LEMMA ProcessData ==
  ASSUME Inv
  PROVE  /\ JobsOK /\ client \in [Clients -> ClientType] /\ owed \in [Rows -> SUBSET Notes]
         /\ daemon \in [Daemons -> DaemonType] /\ server \in BOOLEAN
         /\ faults \in 0..MaxFaults
  BY DEF Inv, TypeInv, DaemonsOK

\* What the outcome of a run does to the queue: no job is running after it.
LEMMA OutcomeQueue ==
  ASSUME Inv, NEW d \in Daemons, daemon[d].at \in {"succeeded", "failed"},
         daemon[d].serving, Outcome(d)
  PROVE  JobsOK' /\ Len(jobs) <= Len(jobs') /\ Status({"running"})' = {}
<1> DEFINE j == daemon[d].job
           st == daemon[d].at
<1>0. j \in DOMAIN jobs /\ st \in {"succeeded", "failed"} /\ JobsOK
  BY DEF Inv, TypeInv, DaemonsOK, Resting
<1>1. CASE Ends(d)
  <2>1. jobs' = [jobs EXCEPT ![j].status = st] /\ jobs[j].status = "running"
    BY <1>1 DEF Outcome, Ends
  <2>2. failures' = IF st = "failed" THEN Append(failures, j) ELSE failures
    BY <1>1 DEF Outcome
  <2>3. jobs[j].status \notin {"failed", "gone"}
    BY <2>1
  <2> HIDE DEF j, st
  <2>4. /\ JobsMove /\ Len(jobs') = Len(jobs) /\ jobs'[j].status = st
        /\ \A i \in DOMAIN jobs : i # j => jobs'[i].status = jobs[i].status
    BY <1>0, <2>1, <2>3, JobsMarked
  <2>5. DOMAIN jobs' = DOMAIN jobs /\ j \in Nat
    BY <1>0, <2>4 DEF JobsOK, JobsMove
  <2>6. ASSUME st = "failed" PROVE JobsOK'
    <3>1. failures' = Append(failures, j)
      BY <2>2, <2>6
    <3>2. failures' \in Seq(Nat) /\ Len(failures') = Len(failures) + 1
      BY <1>0, <2>5, <3>1 DEF JobsOK
    <3>3. ASSUME NEW i \in DOMAIN failures'
          PROVE  /\ failures'[i] \in DOMAIN jobs'
                 /\ jobs'[failures'[i]].status \in {"failed", "gone"}
      <4>1. CASE i \in DOMAIN failures
        <5>1. failures'[i] = failures[i]
          BY <1>0, <3>1, <4>1 DEF JobsOK
        <5> QED
          BY <1>0, <2>4, <2>5, <4>1, <5>1 DEF JobsOK, JobsMove
      <4>2. CASE i \notin DOMAIN failures
        <5>1. failures'[i] = j
          BY <1>0, <3>1, <3>2, <4>2 DEF JobsOK
        <5> QED
          BY <1>0, <2>4, <2>5, <2>6, <5>1
      <4> QED
        BY <4>1, <4>2
    <3> QED
      BY <2>4, <3>2, <3>3 DEF JobsOK, JobsMove
  <2>7. ASSUME st # "failed" PROVE JobsOK'
    BY <1>0, <2>2, <2>4, <2>7, FailuresStay
  <2>8. Status({"running"})' = {}
    <3> SUFFICES ASSUME NEW i \in DOMAIN jobs, jobs'[i].status = "running" PROVE FALSE
      BY <2>5 DEF Status
    <3>1. i # j /\ jobs[i].status = "running"
      BY <1>0, <2>4
    <3>2. /\ d \in Serving /\ \A e \in Serving : e = d
          /\ ~Workerless
      BY <1>0 DEF Serving, Workerless, Inv, OneServes, st
    <3>3. daemon[d].job = i
      BY <3>1, <3>2 DEF Inv, RunningIsWorked, Status
    <3> QED
      BY <3>1, <3>3 DEF j
  <2> QED
    BY <2>4, <2>6, <2>7, <2>8 DEF JobsMove
<1>2. CASE ~Ends(d)
  <2>1. UNCHANGED <<jobs, failures>>
    BY <1>2 DEF Outcome
  <2>2. Status({"running"}) = {}
    BY <1>2, NoneRunning DEF Ends
  <2> QED
    BY <1>0, <2>1, <2>2 DEF JobsOK, Status
<1> QED
  BY <1>1, <1>2

LEMMA CompleteKeeps == ASSUME Inv, NEW d \in Daemons, Complete(d) PROVE Inv'
<1> DEFINE v == IF daemon[d].serving THEN AtRest("idle") ELSE Off
<1>0. /\ daemon[d].at \in {"succeeded", "failed"} /\ daemon[d] \in DaemonType
      /\ UNCHANGED <<managed, server, owed, lock, client, writes, faults>>
  BY ProcessData DEF Complete
<1>1. /\ v \in DaemonType /\ v.job = NoJob /\ v.at \in {"off", "idle"}
      /\ v.at = "idle" => v.serving
      /\ v.serving <=> daemon[d].serving
  BY <1>0, Values, AtRestValue, DaemonFields DEF Steps
<1>2. daemon' = [daemon EXCEPT ![d] = v]
  BY DEF Complete
<1> HIDE DEF v
<1>3. Turns(d, v)
  BY <1>0, <1>1, <1>2 DEF Turns, Locked
<1>4. daemon'[d] = v /\ \A e \in Daemons : e # d => daemon'[e] = daemon[e]
  BY <1>0, <1>3, TurnsKeep
<1>5. JobsOK' /\ Len(jobs) <= Len(jobs') /\ RunningIsWorked'
  <2>1. CASE daemon[d].serving
    BY <1>0, <2>1, OutcomeQueue DEF Complete, RunningIsWorked
  <2>2. CASE ~daemon[d].serving
    <3>1. UNCHANGED <<jobs, failures>>
      BY <2>2 DEF Complete
    <3>2. Serving' = Serving /\ \A e \in Serving : daemon'[e] = daemon[e]
      BY <1>1, <1>4, <2>2 DEF Serving
    <3>3. Workerless' <=> Workerless
      BY <1>0, <1>1, <1>4 DEF Workerless
    <3>4. RunningIsWorked'
      BY <3>1, <3>2, <3>3 DEF Inv, RunningIsWorked, Status
    <3> QED
      BY <3>1, <3>4, ProcessData DEF JobsOK
  <2> QED
    BY <2>1, <2>2
<1> QED
  BY <1>0, <1>1, <1>3, <1>5, ProcessData, RestKeeps DEF Resting

LEMMA ClaimGoneKeeps == ASSUME Inv, NEW d \in Daemons, ClaimGone(d) PROVE Inv'
<1> DEFINE v == AtRest("idle")
<1>0. /\ daemon[d].at = "claimed" /\ daemon[d].serving
      /\ jobs[daemon[d].job].status # "running"
      /\ daemon' = [daemon EXCEPT ![d] = v]
      /\ UNCHANGED <<managed, server, jobs, failures, owed, lock, client, writes, faults>>
  BY DEF ClaimGone, queue
<1>1. v \in DaemonType /\ v.at = "idle" /\ v.serving /\ v.job = NoJob
  BY AtRestValue DEF Steps
<1> HIDE DEF v
<1>2. Turns(d, v)
  BY <1>0, <1>1 DEF Turns, Locked
<1>3. RunningIsWorked'
  <2>1. Status({"running"}) = {}
    BY <1>0, NoneRunning
  <2> QED
    BY <1>0, <2>1 DEF Status, RunningIsWorked
<1>4. JobsOK' /\ Len(jobs) <= Len(jobs')
  BY <1>0, ProcessData DEF JobsOK
<1> QED
  BY <1>0, <1>1, <1>2, <1>3, <1>4, ProcessData, RestKeeps DEF Resting

LEMMA WorkerDiesKeeps == ASSUME Inv, NEW d \in Daemons, WorkerDies(d) PROVE Inv'
<1> DEFINE v == AtRest("dead")
<1>0. /\ daemon[d].serving /\ daemon[d].at \in {"idle", "succeeded", "failed"} /\ Faulty
      /\ daemon' = [daemon EXCEPT ![d] = v] /\ JobsOK
      /\ UNCHANGED <<managed, server, owed, lock, client, writes>>
  BY ProcessData DEF WorkerDies
<1>1. v \in DaemonType /\ v.at = "dead" /\ v.serving /\ v.job = NoJob
  BY AtRestValue DEF Steps
<1> HIDE DEF v
<1>2. Turns(d, v)
  BY <1>0, <1>1 DEF Turns, Locked
<1>3. daemon'[d] = v
  BY <1>0, <1>2, TurnsKeep
<1>4. RunningIsWorked'
  BY <1>1, <1>3 DEF RunningIsWorked, Workerless
<1>5. JobsOK' /\ Len(jobs) <= Len(jobs')
  <2>1. CASE UNCHANGED <<jobs, failures>>
    BY <1>0, <2>1 DEF JobsOK
  <2>2. CASE /\ NextJob # NoJob /\ UNCHANGED failures
             /\ jobs' = [jobs EXCEPT ![NextJob].status = "running"]
    <3>1. JobsMove
      BY <1>0, <2>2, JobNext, JobsMarked
    <3> QED
      BY <1>0, <2>2, <3>1, FailuresStay DEF JobsMove
  <2>3. CASE daemon[d].at \in {"succeeded", "failed"} /\ Outcome(d)
    BY <1>0, <2>3, OutcomeQueue
  <2> QED
    BY <2>1, <2>2, <2>3 DEF WorkerDies
<1>6. faults' \in 0..MaxFaults
  BY <1>0, FaultsOK
<1> QED
  BY <1>0, <1>1, <1>2, <1>4, <1>5, <1>6, ProcessData, RestKeeps DEF Resting

\* Every process that opens the database: running jobs are queued again.
LEMMA OpenStoreKeeps == Inv /\ OpenStore => Inv'
<1> SUFFICES ASSUME Inv, OpenStore PROVE Inv'
  OBVIOUS
<1>0. /\ jobs' = Requeued /\ Faulty
      /\ UNCHANGED <<managed, server, failures, owed, lock, client, daemon, writes>>
  BY DEF OpenStore
<1>1. /\ JobsMove /\ \A j \in DOMAIN jobs' : jobs'[j].status # "running"
  BY <1>0, JobsRequeued, ProcessData
<1>2. NoneClaimed
  BY <1>1 DEF NoneClaimed
<1>3. /\ JobsOK' /\ DaemonsOK' /\ LockHeld' /\ ExclusiveProfile' /\ OneServes'
      /\ RunningIsWorked'
  BY <1>0, <1>1, <1>2, QueueKeeps
<1> QED
  BY <1>0, <1>3, FaultsOK DEF Inv, TypeInv

LEMMA StartKeeps == ASSUME Inv, NEW d \in Daemons, Start(d) PROVE Inv'
<1> DEFINE v == [Off EXCEPT !.at = "boot", !.serving = TRUE]
<1>0. /\ daemon[d] = Off /\ Serving = {} /\ jobs' = Requeued
      /\ UNCHANGED <<managed, server, failures, owed, lock, client, writes, faults>>
  BY DEF Start
<1>1. v \in DaemonType /\ v.at = "boot" /\ v.serving /\ v.job = NoJob
  BY Values DEF DaemonType, Steps
<1>2. daemon' = [daemon EXCEPT ![d] = v]
  BY <1>0, ProcessData DEF Start
<1> HIDE DEF v
<1>3. Turns(d, v)
  BY <1>0, <1>1, <1>2 DEF Turns, Locked
<1>4. /\ JobsMove /\ \A j \in DOMAIN jobs' : jobs'[j].status # "running"
  BY <1>0, JobsRequeued, ProcessData
<1>5. JobsOK' /\ Len(jobs) <= Len(jobs')
  BY <1>0, <1>4, FailuresStay, ProcessData DEF JobsMove
<1>6. RunningIsWorked'
  BY <1>4 DEF RunningIsWorked, Status
<1> QED
  BY <1>0, <1>1, <1>3, <1>5, <1>6, ProcessData, RestKeeps DEF Resting

\* A daemon starts the server of a free profile only.
LEMMA BootstrapKeeps == ASSUME Inv, NEW d \in Daemons, Bootstrap(d) PROVE Inv'
<1> DEFINE v == [daemon[d] EXCEPT !.at = "idle"]
<1>0. /\ daemon[d].at = "boot" /\ daemon[d] \in DaemonType /\ daemon[d].serving
      /\ daemon[d].job = NoJob
      /\ UNCHANGED <<managed, jobs, failures, owed, lock, client, writes>>
      /\ Sound \/ Faulty
  BY DEF Bootstrap, queue, Inv, TypeInv, DaemonsOK, OneServes, Resting
<1>1. v \in DaemonType /\ v.at = "idle" /\ v.serving /\ v.job = NoJob
  <2>1. /\ v \in DaemonType /\ v.at = "idle"
        /\ v.serving = daemon[d].serving /\ v.job = daemon[d].job
    BY <1>0, DaemonAt DEF Steps
  <2> HIDE DEF v
  <2> QED
    BY <1>0, <2>1
<1>2. daemon' = [daemon EXCEPT ![d] = v]
  BY ProcessData DEF Bootstrap
<1>3. server' \in BOOLEAN /\ (server' => server \/ (managed /\ lock = None))
  BY ProcessData DEF Bootstrap, Boots, Inv, TypeInv
<1> HIDE DEF v
<1>4. Turns(d, v)
  BY <1>0, <1>1, <1>2 DEF Turns, Locked
<1>5. daemon'[d] = v /\ \A e \in Daemons : e # d => daemon'[e] = daemon[e]
  BY <1>0, <1>3, <1>4, TurnsKeep
<1>6. RunningIsWorked'
  <2>1. Status({"running"}) = {}
    BY <1>0, NoneRunning DEF Resting
  <2> QED
    BY <1>0, <2>1 DEF Status, RunningIsWorked
<1>7. JobsOK' /\ Len(jobs) <= Len(jobs')
  BY <1>0, ProcessData DEF JobsOK
<1> QED
  BY <1>0, <1>1, <1>3, <1>4, <1>6, <1>7, ProcessData, FaultsOK, RestKeeps DEF Resting

\* A daemon that ends, with the thread of its run behind it or without.
LEMMA EndKeeps ==
  ASSUME Inv, NEW d \in Daemons, NEW v, Turns(d, v), ~v.serving, Faulty,
         v.job = IF v.at \in Resting THEN NoJob ELSE daemon[d].job,
         v.at \notin Resting => daemon[d].at \notin Resting,
         client' \in [Clients -> ClientType],
         UNCHANGED <<managed, server, jobs, failures, owed, writes>>
  PROVE  Inv'
<1>1. daemon'[d] = v /\ \A e \in Daemons : e # d => daemon'[e] = daemon[e]
  BY TurnsKeep
<1>2. Serving' = Serving \ {d}
  BY <1>1 DEF Serving
<1>3. RunningIsWorked'
  <2>1. CASE d \in Serving
    <3>1. Serving' = {}
      BY <1>2, <2>1 DEF Serving, Inv, OneServes
    <3> QED
      BY <3>1 DEF RunningIsWorked
  <2>2. CASE d \notin Serving
    <3>1. Serving' = Serving /\ \A e \in Serving : daemon'[e] = daemon[e]
      BY <1>1, <1>2, <2>2 DEF Serving
    <3>2. Workerless => Workerless'
      BY <3>1 DEF Workerless, Serving, Inv, OneServes
    <3> QED
      BY <3>1, <3>2 DEF Inv, RunningIsWorked, Status
  <2> QED
    BY <2>1, <2>2
<1>4. JobsOK' /\ Len(jobs) <= Len(jobs')
  BY ProcessData DEF JobsOK
<1>5. faults' \in 0..MaxFaults
  BY FaultsOK
<1> QED
  BY <1>3, <1>4, <1>5, ProcessData, RestKeeps

LEMMA StopKeeps == ASSUME Inv, NEW d \in Daemons, Stop(d) PROVE Inv'
<1>0. /\ daemon[d] \in DaemonType /\ daemon[d].at # "boot" /\ Faulty
      /\ UNCHANGED <<managed, server, jobs, failures, owed, lock, client, writes>>
      /\ daemon[d].serving /\ client' \in [Clients -> ClientType]
  BY ProcessData DEF Stop, queue
<1>1. CASE daemon[d].at \in {"idle", "dead"}
  <2>1. daemon' = [daemon EXCEPT ![d] = Off]
    BY <1>1 DEF Stop
  <2>2. Turns(d, Off)
    BY <1>0, <2>1, Values DEF Turns, Locked
  <2> QED
    BY <1>0, <2>2, Values, EndKeeps DEF Resting
<1>2. CASE daemon[d].at \notin {"idle", "dead"}
  <2> DEFINE v == [daemon[d] EXCEPT !.serving = FALSE]
  <2>1. /\ v \in DaemonType /\ v.at = daemon[d].at /\ ~v.serving /\ v.job = daemon[d].job
    BY <1>0 DEF DaemonType
  <2>2. daemon' = [daemon EXCEPT ![d] = v]
    BY <1>2 DEF Stop
  <2> HIDE DEF v
  <2>3. v.job = IF v.at \in Resting THEN NoJob ELSE daemon[d].job
    BY <2>1 DEF Inv, TypeInv, DaemonsOK
  <2>4. Turns(d, v)
    BY <1>0, <1>2, <2>1, <2>2 DEF Turns
  <2> QED
    BY <1>0, <2>1, <2>3, <2>4, EndKeeps
<1> QED
  BY <1>1, <1>2

LEMMA KillKeeps == ASSUME Inv, NEW d \in Daemons, Kill(d) PROVE Inv'
<1>0. /\ daemon' = [daemon EXCEPT ![d] = Off] /\ Faulty
      /\ UNCHANGED <<managed, server, jobs, failures, owed, writes>>
      /\ lock' = IF lock = d THEN None ELSE lock
  BY DEF Kill, queue
<1>1. client' \in [Clients -> ClientType]
  BY Values, ProcessData DEF Kill
<1>2. Turns(d, Off)
  BY <1>0, Values DEF Turns, Locked
<1> QED
  BY <1>0, <1>1, <1>2, Values, EndKeeps DEF Resting

LEMMA InvStep == Inv /\ [Next]_vars => Inv'
<1> SUFFICES ASSUME Inv, [Next]_vars PROVE Inv'
  OBVIOUS
<1>1. CASE UNCHANGED vars
  <2>1. JobsMove /\ NoneClaimed
    BY <1>1, JobsStay, ProcessData DEF vars, queue
  <2>2. /\ JobsOK' /\ DaemonsOK' /\ LockHeld' /\ ExclusiveProfile' /\ OneServes'
        /\ RunningIsWorked'
    BY <1>1, <2>1, QueueKeeps DEF vars, queue
  <2> QED
    BY <1>1, <2>2 DEF vars, queue, Inv, TypeInv
<1>2. ASSUME NEW d \in Daemons, Works(d) PROVE Inv'
  BY <1>2, BootstrapKeeps, ClaimKeeps, ClaimGoneKeeps, TakeLockKeeps, RunStepKeeps,
     CompleteKeeps DEF Works
<1> QED
  BY <1>1, <1>2, RequestKeeps, WorkerDiesKeeps, StopKeeps, KillKeeps, StartKeeps,
     OpenStoreKeeps, PurgeKeeps DEF Next, Starts

-----------------------------------------------------------------------------
(* What follows.                                                            *)

\* Every variable keeps its type: a failed job stays failed until it is deleted, and
\* a run's job is one of the queue.
THEOREM TypesHold == Spec => []TypeOK
<1>1. Inv => TypeOK
  <2> SUFFICES ASSUME Inv PROVE TypeOK
    OBVIOUS
  <2>1. \A j \in DOMAIN jobs : jobs[j] \in JobType
    BY ProcessData DEF JobsOK
  <2> QED
    BY <2>1 DEF Inv, TypeInv, TypeOK, JobsOK, DaemonsOK, JobType, ClientType, DaemonType,
                Resting
<1> QED
  BY InvInit, InvStep, <1>1, PTL DEF Spec

\* The Data API of a managed profile never runs while the CLI syncs it.
THEOREM ExclusiveProfileHolds == Spec => []ExclusiveProfile
<1>1. Inv => ExclusiveProfile
  BY DEF Inv
<1> QED
  BY InvInit, InvStep, <1>1, PTL DEF Spec

\* A running job is the serving daemon's, or no daemon serves with a worker.
THEOREM RunningIsWorkedHolds == Spec => []RunningIsWorked
<1>1. Inv => RunningIsWorked
  BY DEF Inv
<1> QED
  BY InvInit, InvStep, <1>1, PTL DEF Spec

-----------------------------------------------------------------------------
(* A job that succeeded owes nothing.                                       *)

\* Nothing is owed to a job, and no request that read it has a note that no sync
\* has covered.
Settled(j) ==
  /\ owed[j] = {}
  /\ \A c \in Clients : client[c].at = "record" /\ client[c].row = j => client[c].fresh = {}

\* The serving daemon's run has synced, and its job may take the outcome.
Synced(d) ==
  /\ daemon[d].serving /\ jobs[daemon[d].job].status = "running"
  /\ \/ daemon[d].at \in {"verify", "succeeded"}
     \/ daemon[d].at = "restore" /\ daemon[d].ok

Succeeded == {j \in DOMAIN jobs : jobs[j].status = "succeeded"}

\* SuccessOwesNothing is inductive with this: jobs are settled from their sync on.
Owes ==
  /\ \A j \in Succeeded : Settled(j)
  /\ \A d \in Daemons : Synced(d) => Settled(daemon[d].job)

LEMMA SyncedRow ==
  ASSUME Inv, NEW d \in Daemons, Synced(d)
  PROVE  /\ daemon[d].job \in DOMAIN jobs /\ daemon[d].job \in Rows
         /\ jobs[daemon[d].job].status = "running"
<1>1. daemon[d].at \notin Resting
  BY DEF Synced, Resting
<1>2. daemon[d].job \in DOMAIN jobs
  BY <1>1 DEF Inv, TypeInv, DaemonsOK
<1>3. DOMAIN jobs \subseteq Rows
  BY BoundsAssumption DEF Rows, Inv, TypeInv, JobsOK
<1> QED
  BY <1>2, <1>3 DEF Synced

LEMMA SucceededRows == ASSUME Inv PROVE Succeeded \subseteq Rows
  BY BoundsAssumption DEF Succeeded, Rows, Inv, TypeInv, JobsOK

\* What most steps do: no run gets past its sync, no job succeeds, and a settled
\* job stays so.
LEMMA OwesStay ==
  ASSUME Owes, Succeeded' \subseteq Succeeded,
         \A j \in Rows : Settled(j) => Settled(j)',
         \A d \in Daemons : Synced(d)' => Synced(d) /\ daemon'[d].job = daemon[d].job,
         Inv
  PROVE  Owes'
<1>1. Succeeded \subseteq Rows
  BY SucceededRows
<1>2. ASSUME NEW d \in Daemons, Synced(d) PROVE daemon[d].job \in Rows
  BY <1>2, SyncedRow
<1>3. ASSUME NEW j \in Succeeded' PROVE Settled(j)'
  BY <1>1, <1>3 DEF Owes
<1>4. ASSUME NEW d \in Daemons, Synced(d)' PROVE Settled(daemon[d].job)'
  <2>1. PICK j \in Rows : j = daemon[d].job
    BY <1>2, <1>4
  <2>2. Settled(j)' /\ daemon'[d].job = j
    BY <1>4, <2>1 DEF Owes
  <2> QED
    BY <2>2 DEF Settled
<1> QED
  BY <1>3, <1>4 DEF Owes

LEMMA OwesInit == Init => Owes
<1> SUFFICES ASSUME Init PROVE Owes
  OBVIOUS
<1>1. Succeeded = {}
  BY DEF Init, Succeeded
<1>2. \A d \in Daemons : ~daemon[d].serving
  BY Values DEF Init
<1> QED
  BY <1>1, <1>2 DEF Owes, Synced

\* A request that does not record leaves the statuses, and reads a queued job.
LEMMA OwesReads ==
  ASSUME Inv, Owes, NEW c \in Clients, NEW t \in ClientType,
         client' = [client EXCEPT ![c] = t], UNCHANGED <<queue, daemon>>,
         t.at = "record" => t.row \in {NoJob} \cup Status({"queued"})
  PROVE  Owes'
<1>1. UNCHANGED <<jobs, failures, owed, daemon>>
  BY DEF queue
<1>2. \A e \in Clients : client'[e] = IF e = c THEN t ELSE client[e]
  BY ProcessData
<1>3. ASSUME NEW j \in Rows, Settled(j), jobs[j].status # "queued" PROVE Settled(j)'
  BY <1>1, <1>2, <1>3 DEF Settled, Status, Rows, NoJob
<1>4. \A j \in Succeeded : j \in Rows /\ jobs[j].status # "queued"
  BY SucceededRows DEF Succeeded
<1>5. ASSUME NEW d \in Daemons, Synced(d) PROVE Settled(daemon[d].job)'
  <2>1. daemon[d].job \in Rows /\ jobs[daemon[d].job].status # "queued"
    BY <1>5, SyncedRow
  <2>2. PICK j \in Rows : j = daemon[d].job
    BY <2>1
  <2>3. Settled(j)'
    BY <1>3, <1>5, <2>1, <2>2 DEF Owes
  <2> QED
    BY <1>1, <2>2, <2>3 DEF Settled
<1>6. \A d \in Daemons : Synced(d)' => Synced(d)
  BY <1>1 DEF Synced
<1>7. Succeeded' = Succeeded
  BY <1>1 DEF Succeeded
<1> QED
  BY <1>3, <1>4, <1>5, <1>6, <1>7 DEF Owes

LEMMA OwesRecord == ASSUME Inv, Owes, NEW c \in Clients, EnqueueWrite(c) PROVE Owes'
<1> DEFINE t == client[c]
           row == IF t.row = NoJob THEN Len(jobs) + 1 ELSE t.row
<1>0. /\ t \in ClientType /\ t.todo \subseteq Notes /\ t.at = "record"
      /\ UNCHANGED <<daemon, failures>> /\ JobsOK
      /\ t.row = NoJob => Len(jobs) < MaxJobs
  BY ProcessData, ClientFields DEF EnqueueWrite
<1>1. PICK asked \in {{n} : n \in t.todo} \cup (IF t.todo = {} THEN {{}} ELSE {}) :
        /\ jobs' = Recorded(c, asked)
        /\ owed' = [owed EXCEPT ![row] = @ \cup (asked \cap t.fresh)]
        /\ client' = [client EXCEPT ![c] =
             IF t.todo \ asked = {} THEN Idle
             ELSE [t EXCEPT !.at = "read", !.todo = t.todo \ asked, !.row = NoJob,
                            !.notes = {}]]
  BY DEF EnqueueWrite
<1>2. asked \in SUBSET Notes
  BY <1>0
<1>3. /\ JobsMove
      /\ \A j \in DOMAIN jobs : jobs'[j].status = jobs[j].status
      /\ \A j \in DOMAIN jobs' \ DOMAIN jobs : jobs'[j].status = "queued"
  BY <1>0, <1>1, <1>2, JobsRecorded DEF Recorded
<1>4. client'[c].at # "record" /\ \A e \in Clients : e # c => client'[e] = client[e]
  <2>1. Idle.at # "record"
    BY DEF Idle
  <2>2. [t EXCEPT !.at = "read", !.todo = t.todo \ asked, !.row = NoJob, !.notes = {}].at
          = "read"
    BY <1>0 DEF ClientType
  <2> QED
    BY <1>1, <2>1, <2>2, ProcessData
<1>5. ASSUME NEW j \in DOMAIN jobs, Settled(j) PROVE Settled(j)'
  <2>1. j \in Rows
    BY <1>0, BoundsAssumption DEF JobsOK, Rows
  <2>2. owed'[j] = {}
    <3>1. CASE j # row
      BY <1>1, <1>5, <2>1, <3>1, ProcessData DEF Settled
    <3>2. CASE j = row
      <4>1. t.row = j
        BY <1>0, <3>2 DEF JobsOK
      <4>2. t.fresh = {} /\ owed[j] = {}
        BY <1>0, <1>5, <4>1 DEF Settled
      <4> QED
        BY <1>1, <2>1, <3>2, <4>2, ProcessData
    <3> QED
      BY <3>1, <3>2
  <2> QED
    BY <1>4, <1>5, <2>2 DEF Settled
<1>6. ASSUME NEW j \in Succeeded' PROVE Settled(j)'
  <2>1. j \in Succeeded
    BY <1>3, <1>6 DEF Succeeded
  <2> QED
    BY <1>5, <2>1 DEF Owes, Succeeded
<1>7. ASSUME NEW d \in Daemons, Synced(d)' PROVE Settled(daemon[d].job)'
  <2>1. daemon[d].at \notin Resting
    BY <1>0, <1>7 DEF Synced, Resting
  <2>2. PICK j \in DOMAIN jobs : j = daemon[d].job
    BY <2>1 DEF Inv, TypeInv, DaemonsOK
  <2>3. Synced(d)
    BY <1>0, <1>3, <1>7, <2>2 DEF Synced
  <2>4. Settled(j)'
    BY <1>5, <2>2, <2>3 DEF Owes
  <2> QED
    BY <1>0, <2>2, <2>4 DEF Settled
<1> QED
  BY <1>6, <1>7 DEF Owes

LEMMA OwesRequest == ASSUME Inv, Owes, NEW c \in Clients, Requests(c) PROVE Owes'
<1>0. Idle \in ClientType /\ client[c] \in ClientType /\ JobsOK
  BY Values, ProcessData
<1>1. ASSUME NEW n \in Notes, WriteNote(c, n) PROVE Owes'
  <2> DEFINE t == [Idle EXCEPT !.at = "read", !.reason = "write", !.todo = {n}, !.fresh = {n}]
  <2>1. t \in ClientType /\ t.at = "read"
    BY <1>0 DEF ClientType, Reasons
  <2>2. client' = [client EXCEPT ![c] = t] /\ UNCHANGED <<queue, daemon>>
    BY <1>1 DEF WriteNote
  <2> HIDE DEF t
  <2> QED
    BY <2>1, <2>2, OwesReads
<1>2. CASE RequestSync(c)
  <2> DEFINE t == [Idle EXCEPT !.at = "read"]
  <2>1. t \in ClientType /\ t.at = "read"
    BY <1>0 DEF ClientType
  <2>2. client' = [client EXCEPT ![c] = t] /\ UNCHANGED <<queue, daemon>>
    BY <1>2 DEF RequestSync
  <2> HIDE DEF t
  <2> QED
    BY <2>1, <2>2, OwesReads
<1>3. CASE RetryWrite(c)
  <2>1. PICK i \in DOMAIN failures :
          client' = [client EXCEPT ![c] = [Idle EXCEPT !.at = "read",
                       !.reason = jobs[failures[i]].reason, !.todo = jobs[failures[i]].notes]]
    BY <1>3 DEF RetryWrite, FailedWrites
  <2> DEFINE t == [Idle EXCEPT !.at = "read", !.reason = jobs[failures[i]].reason,
                               !.todo = jobs[failures[i]].notes]
  <2>2. jobs[failures[i]] \in JobType
    BY <1>0 DEF JobsOK
  <2>3. t \in ClientType /\ t.at = "read"
    BY <1>0, <2>2, JobFields DEF ClientType
  <2>4. UNCHANGED <<queue, daemon>>
    BY <1>3 DEF RetryWrite
  <2> HIDE DEF t
  <2>5. client' = [client EXCEPT ![c] = t]
    BY <2>1 DEF t
  <2> QED
    BY <2>3, <2>4, <2>5, OwesReads
<1>4. CASE EnqueueRead(c)
  <2> DEFINE S == {j \in Status({"queued"}) : jobs[j].reason = client[c].reason}
             row == Oldest(S)
             t == [client[c] EXCEPT !.at = "record", !.row = row,
                                    !.notes = IF row = NoJob THEN {} ELSE jobs[row].notes]
  <2>1. S \in SUBSET Nat /\ S \subseteq Status({"queued"})
    BY <1>0, StatusRows
  <2>2. row # NoJob => row \in Status({"queued"})
    BY <2>1, OldestRow
  <2>3. client' = [client EXCEPT ![c] = t] /\ UNCHANGED <<queue, daemon>>
    BY <1>4, ProcessData DEF EnqueueRead
  <2>4. t.row = row
    BY <1>0 DEF ClientType
  <2>5. t \in ClientType
    <3>1. client' \in [Clients -> ClientType]
      BY <1>4, RequestKeeps DEF Inv, TypeInv, Requests
    <3>2. client'[c] = t
      BY <2>3, ProcessData
    <3> QED
      BY <3>1, <3>2
  <2> HIDE DEF t, row
  <2> QED
    BY <2>2, <2>3, <2>4, <2>5, OwesReads
<1>5. CASE EnqueueFails(c)
  <2>1. client' = [client EXCEPT ![c] = Idle] /\ UNCHANGED <<queue, daemon>>
    BY <1>5 DEF EnqueueFails
  <2>2. Idle.at # "record"
    BY DEF Idle
  <2> QED
    BY <1>0, <2>1, <2>2, OwesReads
<1> QED
  BY <1>1, <1>2, <1>3, <1>4, <1>5, OwesRecord DEF Requests

\* A daemon's step that neither gets its run past the sync nor ends a job.
LEMMA OwesDaemon ==
  ASSUME Inv, Owes, NEW d \in Daemons, UNCHANGED jobs,
         \A e \in Daemons : e # d => daemon'[e] = daemon[e],
         Synced(d)' => Synced(d) /\ daemon'[d].job = daemon[d].job,
         \A j \in Rows : Settled(j) => Settled(j)'
  PROVE  Owes'
<1>1. Succeeded' = Succeeded
  BY DEF Succeeded
<1>2. \A e \in Daemons : Synced(e)' => Synced(e) /\ daemon'[e].job = daemon[e].job
  BY DEF Synced
<1> QED
  BY <1>1, <1>2, OwesStay

LEMMA SettledStays ==
  ASSUME UNCHANGED <<owed, client>>
  PROVE  \A j \in Rows : Settled(j) => Settled(j)'
  BY DEF Settled

LEMMA OwesRun ==
  ASSUME Inv, Owes, NEW d \in Daemons,
         TakeLock(d) \/ StopServer(d) \/ SyncProfile(d) \/ StartServer(d) \/ Verify(d)
  PROVE  Owes'
<1>0. /\ daemon \in [Daemons -> DaemonType] /\ daemon[d] \in DaemonType
      /\ daemon[d].ok \in BOOLEAN
  BY ProcessData, DaemonFields
<1>1. ASSUME NEW step \in Steps \ Resting, NEW ok \in BOOLEAN, Goes(d, step, ok),
             daemon[d].at \notin Resting
      PROVE  /\ daemon'[d].at = step /\ daemon'[d].ok = ok
             /\ daemon'[d].serving = daemon[d].serving /\ daemon'[d].job = daemon[d].job
             /\ \A e \in Daemons : e # d => daemon'[e] = daemon[e]
  <2>1. PICK v \in DaemonType : Runs(d, v) /\ v.at = step
    BY <1>1, GoesRuns
  <2>2. daemon'[d].ok = ok
    <3> DEFINE v2 == [[daemon[d] EXCEPT !.at = step] EXCEPT !.ok = ok]
    <3>1. v2.ok = ok
      BY <1>0, DaemonOk DEF Resting
    <3>2. daemon'[d] = v2
      BY <1>0, <1>1 DEF Goes
    <3> QED
      BY <3>1, <3>2
  <2> QED
    BY <1>0, <2>1, <2>2 DEF Runs
<1>2. ASSUME TakeLock(d) \/ StopServer(d) PROVE Owes'
  <2>1. /\ daemon'[d].at \in {"locked", "syncing", "failed"}
        /\ \A e \in Daemons : e # d => daemon'[e] = daemon[e]
    <3>1. CASE TakeLock(d) /\ lock = None
      <4>1. daemon' = [daemon EXCEPT ![d] = [daemon[d] EXCEPT !.at = "locked"]]
        BY <1>0, <3>1 DEF TakeLock
      <4>2. [daemon[d] EXCEPT !.at = "locked"].at = "locked"
        BY <1>0, DaemonAt DEF Steps
      <4> QED
        BY <1>0, <4>1, <4>2
    <3>2. CASE TakeLock(d) /\ lock # None
      <4>1. Goes(d, "failed", FALSE) /\ daemon[d].at \notin Resting
        BY <3>2 DEF TakeLock, Resting
      <4> QED
        BY <1>1, <4>1 DEF Steps, Resting
    <3>3. CASE StopServer(d)
      <4>1. Goes(d, "syncing", TRUE) \/ Goes(d, "failed", FALSE)
        BY <3>3 DEF StopServer
      <4>2. daemon[d].at \notin Resting
        BY <3>3 DEF StopServer, Resting
      <4> QED
        BY <1>1, <4>1, <4>2 DEF Steps, Resting
    <3> QED
      BY <1>2, <3>1, <3>2, <3>3
  <2>2. ~Synced(d)'
    BY <2>1 DEF Synced
  <2>3. UNCHANGED <<jobs, owed, client>>
    BY <1>2 DEF TakeLock, StopServer, queue
  <2> QED
    BY <2>1, <2>2, <2>3, SettledStays, OwesDaemon
<1>3. CASE SyncProfile(d)
  <2>0. daemon[d].at \notin Resting /\ UNCHANGED jobs
    BY <1>3 DEF SyncProfile, Resting
  <2>1. CASE Goes(d, "restore", TRUE) /\ owed' = [j \in Rows |-> {}]
             /\ client' = [c \in Clients |-> [client[c] EXCEPT !.fresh = {}]]
    <3>1. \A c \in Clients : client'[c].fresh = {}
      <4>1. \A t \in ClientType : [t EXCEPT !.fresh = {}].fresh = {}
        BY DEF ClientType
      <4> QED
        BY <2>1, <4>1, ProcessData
    <3>2. \A j \in Rows : Settled(j)'
      BY <2>1, <3>1 DEF Settled
    <3>3. Succeeded' \subseteq Rows
      BY <2>0, SucceededRows DEF Succeeded
    <3>4. ASSUME NEW e \in Daemons, Synced(e)' PROVE Settled(daemon[e].job)'
      <4>1. daemon'[e].job = daemon[e].job /\ daemon[e].at \notin Resting
        BY <1>1, <2>0, <2>1, <3>4 DEF Synced, Steps, Resting
      <4>2. daemon[e].job \in Rows
        BY <4>1, BoundsAssumption DEF Rows, Inv, TypeInv, JobsOK, DaemonsOK
      <4>3. PICK j \in Rows : j = daemon[e].job
        BY <4>2
      <4>4. Settled(j)'
        BY <3>2
      <4> QED
        BY <4>1, <4>3, <4>4 DEF Settled
    <3> QED
      BY <3>2, <3>3, <3>4 DEF Owes
  <2>2. CASE Goes(d, "restore", FALSE) /\ UNCHANGED <<owed, client>>
    <3>1. /\ daemon'[d].at = "restore" /\ ~daemon'[d].ok
          /\ \A e \in Daemons : e # d => daemon'[e] = daemon[e]
      BY <1>1, <2>0, <2>2 DEF Steps, Resting
    <3>2. ~Synced(d)'
      BY <3>1 DEF Synced
    <3> QED
      BY <2>0, <2>2, <3>1, <3>2, SettledStays, OwesDaemon
  <2> QED
    BY <1>3, <2>1, <2>2 DEF SyncProfile
<1>4. CASE StartServer(d)
  <2>0. /\ daemon[d].at = "restore" /\ daemon[d].at \notin Resting
        /\ UNCHANGED <<jobs, owed, client>>
    BY <1>4 DEF StartServer, Resting, queue
  <2>1. /\ daemon'[d].at = "failed" \/ (daemon'[d].at = "verify" /\ daemon[d].ok)
        /\ daemon'[d].serving = daemon[d].serving /\ daemon'[d].job = daemon[d].job
        /\ \A e \in Daemons : e # d => daemon'[e] = daemon[e]
    <3>1. \/ Goes(d, "verify", TRUE) /\ daemon[d].ok
          \/ Goes(d, "failed", FALSE)
      BY <1>0, <1>4 DEF StartServer
    <3> QED
      BY <1>1, <2>0, <3>1 DEF Steps, Resting
  <2>2. Synced(d)' => Synced(d) /\ daemon'[d].job = daemon[d].job
    BY <2>0, <2>1 DEF Synced
  <2> QED
    BY <2>0, <2>1, <2>2, SettledStays, OwesDaemon
<1>5. CASE Verify(d)
  <2>0. /\ daemon[d].at = "verify" /\ daemon[d].at \notin Resting
        /\ UNCHANGED <<jobs, owed, client>>
    BY <1>5 DEF Verify, Resting, queue
  <2>1. /\ daemon'[d].serving = daemon[d].serving /\ daemon'[d].job = daemon[d].job
        /\ \A e \in Daemons : e # d => daemon'[e] = daemon[e]
    <3>1. Goes(d, "succeeded", TRUE) \/ Goes(d, "failed", FALSE)
      BY <1>5 DEF Verify
    <3> QED
      BY <1>1, <2>0, <3>1 DEF Steps, Resting
  <2>2. Synced(d)' => Synced(d) /\ daemon'[d].job = daemon[d].job
    BY <2>0, <2>1 DEF Synced
  <2> QED
    BY <2>0, <2>1, <2>2, SettledStays, OwesDaemon
<1> QED
  BY <1>2, <1>3, <1>4, <1>5

\* While one daemon serves, no other's run counts.
LEMMA OthersNotSynced ==
  ASSUME Inv, NEW d \in Daemons, daemon[d].serving, NEW e \in Daemons, e # d,
         daemon'[e] = daemon[e]
  PROVE  ~Synced(e)'
  BY DEF Inv, OneServes, Synced

LEMMA OwesClaim == ASSUME Inv, Owes, NEW d \in Daemons, Claim(d) PROVE Owes'
<1> DEFINE j == NextJob
           v == [daemon[d] EXCEPT !.at = "claimed", !.job = j]
<1>0. /\ daemon[d].serving /\ JobsOK /\ daemon[d] \in DaemonType
      /\ UNCHANGED <<owed, client>>
  BY ProcessData DEF Claim, Inv, OneServes
<1>1. j \in DOMAIN jobs /\ jobs[j].status = "queued"
  BY JobNext DEF Claim
<1>2. jobs' = [jobs EXCEPT ![j].status = "running"] /\ daemon' = [daemon EXCEPT ![d] = v]
  BY ProcessData DEF Claim
<1>3. v.at = "claimed"
  BY <1>0 DEF DaemonType
<1> HIDE DEF j, v
<1>4. /\ JobsMove /\ Len(jobs') = Len(jobs) /\ jobs'[j].status = "running"
      /\ \A i \in DOMAIN jobs : i # j => jobs'[i].status = jobs[i].status
  BY <1>0, <1>1, <1>2, JobsMarked
<1>5. DOMAIN jobs' = DOMAIN jobs
  BY <1>0, <1>4 DEF JobsOK, JobsMove
<1>6. Succeeded' \subseteq Succeeded
  BY <1>4, <1>5 DEF Succeeded
<1>7. daemon'[d].at = "claimed" /\ \A e \in Daemons : e # d => daemon'[e] = daemon[e]
  BY <1>2, <1>3, ProcessData
<1>8. \A e \in Daemons : ~Synced(e)'
  <2>1. ~Synced(d)'
    BY <1>7 DEF Synced
  <2> QED
    BY <1>0, <1>7, <2>1, OthersNotSynced
<1> QED
  BY <1>0, <1>6, <1>8, SettledStays, OwesStay

\* A job succeeds after the sync that settled it, and its daemon is at rest then.
ComesToRest(d, v) ==
  v.at \in {"off", "idle", "dead"} /\ daemon' = [daemon EXCEPT ![d] = v]

LEMMA OwesOutcome ==
  ASSUME Inv, Owes, NEW d \in Daemons, NEW v, ComesToRest(d, v), UNCHANGED <<owed, client>>,
         \/ UNCHANGED jobs
         \/ /\ daemon[d].at \in {"succeeded", "failed"} /\ daemon[d].serving
            /\ Outcome(d)
  PROVE  Owes'
<1>1. ~Synced(d)' /\ \A e \in Daemons : e # d => daemon'[e] = daemon[e]
  BY ProcessData DEF Synced, ComesToRest
<1>2. CASE UNCHANGED jobs
  BY <1>1, <1>2, SettledStays, OwesDaemon
<1>3. CASE /\ daemon[d].at \in {"succeeded", "failed"} /\ daemon[d].serving
           /\ Outcome(d) /\ Ends(d)
  <2> DEFINE j == daemon[d].job
             st == daemon[d].at
  <2>1. /\ jobs' = [jobs EXCEPT ![j].status = st] /\ jobs[j].status = "running"
        /\ st \in {"succeeded", "failed"} /\ JobsOK
    BY <1>3, ProcessData DEF Outcome, Ends
  <2>2. j \in DOMAIN jobs
    BY <1>3 DEF Inv, TypeInv, DaemonsOK, Resting
  <2>3. st = "succeeded" => Settled(j)
    BY <1>3, <2>1 DEF Owes, Synced
  <2> HIDE DEF j, st
  <2>4. /\ JobsMove /\ Len(jobs') = Len(jobs) /\ jobs'[j].status = st
        /\ \A i \in DOMAIN jobs : i # j => jobs'[i].status = jobs[i].status
    BY <2>1, <2>2, JobsMarked
  <2>5. DOMAIN jobs' = DOMAIN jobs
    BY <2>1, <2>4 DEF JobsOK, JobsMove
  <2>6. ASSUME NEW i \in Succeeded' PROVE Settled(i)
    <3>1. CASE i = j
      BY <2>3, <2>4, <2>6, <3>1 DEF Succeeded
    <3>2. CASE i # j
      BY <2>4, <2>5, <2>6, <3>2 DEF Succeeded, Owes
    <3> QED
      BY <3>1, <3>2
  <2>7. \A i \in Succeeded' : Settled(i)'
    BY <2>6 DEF Settled
  <2>8. \A e \in Daemons : ~Synced(e)'
    BY <1>1, <1>3, OthersNotSynced
  <2> QED
    BY <2>7, <2>8 DEF Owes
<1> QED
  BY <1>2, <1>3 DEF Outcome

LEMMA OwesComplete == ASSUME Inv, Owes, NEW d \in Daemons, Complete(d) PROVE Owes'
<1>1. \A step \in Steps : AtRest(step).at = step
  BY AtRestValue
<1>2. PICK v \in {AtRest("idle"), Off} : daemon' = [daemon EXCEPT ![d] = v]
  BY DEF Complete
<1>3. v.at \in {"off", "idle"}
  BY <1>1, Values DEF Steps
<1>4. UNCHANGED <<owed, client>> /\ \/ UNCHANGED jobs
                                    \/ /\ daemon[d].at \in {"succeeded", "failed"}
                                       /\ daemon[d].serving /\ Outcome(d)
  BY DEF Complete
<1> QED
  BY <1>2, <1>3, <1>4, OwesOutcome DEF ComesToRest

LEMMA OwesClaimGone == ASSUME Inv, Owes, NEW d \in Daemons, ClaimGone(d) PROVE Owes'
<1>1. PICK v : v = AtRest("idle") /\ v.at = "idle"
  BY AtRestValue DEF Steps
<1>2. /\ daemon' = [daemon EXCEPT ![d] = v]
      /\ UNCHANGED <<jobs, owed, client>>
  BY <1>1 DEF ClaimGone, queue
<1> QED
  BY <1>1, <1>2, OwesOutcome DEF ComesToRest

LEMMA OwesDies == ASSUME Inv, Owes, NEW d \in Daemons, WorkerDies(d) PROVE Owes'
<1>1. PICK v : v = AtRest("dead") /\ v.at = "dead"
  BY AtRestValue DEF Steps
<1>2. /\ daemon' = [daemon EXCEPT ![d] = v] /\ daemon[d].serving
      /\ UNCHANGED <<owed, client>>
  BY <1>1 DEF WorkerDies
<1>3. CASE NextJob # NoJob /\ jobs' = [jobs EXCEPT ![NextJob].status = "running"]
  <2> DEFINE j == NextJob
  <2>1. j \in DOMAIN jobs /\ jobs[j].status = "queued" /\ JobsOK
    BY <1>3, JobNext, ProcessData
  <2>2. jobs' = [jobs EXCEPT ![j].status = "running"]
    BY <1>3
  <2> HIDE DEF j
  <2>3. /\ JobsMove /\ Len(jobs') = Len(jobs) /\ jobs'[j].status = "running"
        /\ \A i \in DOMAIN jobs : i # j => jobs'[i].status = jobs[i].status
    BY <2>1, <2>2, JobsMarked
  <2>4. Succeeded' \subseteq Succeeded
    BY <2>1, <2>3 DEF Succeeded, JobsOK, JobsMove
  <2>5. ~Synced(d)' /\ \A e \in Daemons : e # d => daemon'[e] = daemon[e]
    BY <1>1, <1>2, ProcessData DEF Synced
  <2>6. \A e \in Daemons : ~Synced(e)'
    BY <1>2, <2>5, OthersNotSynced
  <2> QED
    BY <1>2, <2>4, <2>6, SettledStays, OwesStay
<1>4. CASE UNCHANGED jobs
  BY <1>1, <1>2, <1>4, OwesOutcome DEF ComesToRest
<1>5. CASE daemon[d].at \in {"succeeded", "failed"} /\ Outcome(d)
  BY <1>1, <1>2, <1>5, OwesOutcome DEF ComesToRest
<1> QED
  BY <1>3, <1>4, <1>5 DEF WorkerDies

\* A purge deletes rows, and no run of theirs counts any more.
LEMMA OwesPurge == Inv /\ Owes /\ PurgeAgent => Owes'
<1> SUFFICES ASSUME Inv, Owes, PurgeAgent PROVE Owes'
  OBVIOUS
<1>1. /\ Len(jobs') = Len(jobs) /\ JobsMove /\ JobsOK
      /\ \A j \in DOMAIN jobs' : jobs'[j].status \in {jobs[j].status, "gone"}
  BY JobsPurged, ProcessData
<1>2. DOMAIN jobs' = DOMAIN jobs /\ UNCHANGED <<owed, client, daemon>>
  BY <1>1 DEF JobsOK, JobsMove, PurgeAgent
<1>3. Succeeded' \subseteq Succeeded
  BY <1>1, <1>2 DEF Succeeded
<1>4. ASSUME NEW d \in Daemons, Synced(d)' PROVE Synced(d)
  <2>1. daemon[d].at \notin Resting
    BY <1>2, <1>4 DEF Synced, Resting
  <2>2. PICK j \in DOMAIN jobs : j = daemon[d].job
    BY <2>1 DEF Inv, TypeInv, DaemonsOK
  <2>3. jobs[j].status = "running"
    BY <1>1, <1>2, <1>4, <2>2 DEF Synced
  <2> QED
    BY <1>2, <1>4, <2>2, <2>3 DEF Synced
<1> QED
  BY <1>2, <1>3, <1>4, SettledStays, OwesStay

\* No job is running any more, so no run counts.
LEMMA OwesRequeued ==
  ASSUME Inv, Owes, jobs' = Requeued, UNCHANGED <<owed, client>>,
         \A d \in Daemons : daemon'[d].at \notin Resting => daemon'[d].job \in DOMAIN jobs
  PROVE  Owes'
<1>1. /\ \A j \in DOMAIN jobs' : jobs'[j].status # "running"
      /\ \A j \in DOMAIN jobs' : jobs'[j].status = "succeeded" => jobs[j].status = "succeeded"
      /\ DOMAIN jobs' = DOMAIN jobs
  BY ProcessData, JobsRequeued DEF JobsMove, JobsOK
<1>2. Succeeded' \subseteq Succeeded
  BY <1>1 DEF Succeeded
<1>3. \A d \in Daemons : ~Synced(d)'
  BY <1>1 DEF Synced, Resting
<1> QED
  BY <1>2, <1>3, SettledStays, OwesStay

\* The processes: one that starts or ends has no run that counts.
LEMMA OwesProcess ==
  ASSUME Inv, Owes,
         \/ OpenStore
         \/ \E d \in Daemons : Start(d) \/ Bootstrap(d) \/ Stop(d) \/ Kill(d)
  PROVE  Owes'
<1>1. CASE OpenStore
  <2>1. jobs' = Requeued /\ UNCHANGED <<owed, client, daemon>>
    BY <1>1 DEF OpenStore
  <2>2. \A d \in Daemons : daemon'[d].at \notin Resting => daemon'[d].job \in DOMAIN jobs
    BY <2>1 DEF Inv, TypeInv, DaemonsOK
  <2> QED
    BY <2>1, <2>2, OwesRequeued
<1>2. ASSUME NEW d \in Daemons, Start(d) PROVE Owes'
  <2> DEFINE v == [Off EXCEPT !.at = "boot", !.serving = TRUE]
  <2>1. /\ jobs' = Requeued /\ UNCHANGED <<owed, client>>
        /\ daemon' = [daemon EXCEPT ![d] = v]
    BY <1>2, ProcessData DEF Start
  <2>2. v.at = "boot"
    BY DEF Off
  <2> HIDE DEF v
  <2>3. ASSUME NEW e \in Daemons, daemon'[e].at \notin Resting
        PROVE  daemon'[e].job \in DOMAIN jobs
    <3>1. e # d /\ daemon'[e] = daemon[e]
      BY <2>1, <2>2, <2>3, ProcessData DEF Resting
    <3> QED
      BY <2>3, <3>1 DEF Inv, TypeInv, DaemonsOK
  <2> QED
    BY <2>1, <2>3, OwesRequeued
<1>3. ASSUME NEW d \in Daemons, Bootstrap(d) PROVE Owes'
  <2> DEFINE v == [daemon[d] EXCEPT !.at = "idle"]
  <2>1. UNCHANGED <<jobs, owed, client>> /\ daemon' = [daemon EXCEPT ![d] = v]
    BY <1>3, ProcessData DEF Bootstrap, queue
  <2>2. v.at = "idle"
    BY ProcessData DEF DaemonType
  <2> HIDE DEF v
  <2>3. ~Synced(d)' /\ \A e \in Daemons : e # d => daemon'[e] = daemon[e]
    BY <2>1, <2>2, ProcessData DEF Synced
  <2> QED
    BY <2>1, <2>3, SettledStays, OwesDaemon
<1>4. ASSUME NEW d \in Daemons, Stop(d) PROVE Owes'
  <2> DEFINE v == IF daemon[d].at \in {"idle", "dead"} THEN Off ELSE [daemon[d] EXCEPT !.serving = FALSE]
  <2>1. UNCHANGED <<jobs, owed, client>> /\ daemon' = [daemon EXCEPT ![d] = v]
    BY <1>4 DEF Stop, queue
  <2>2. ~v.serving
    BY ProcessData, Values DEF DaemonType
  <2> HIDE DEF v
  <2>3. ~Synced(d)' /\ \A e \in Daemons : e # d => daemon'[e] = daemon[e]
    BY <2>1, <2>2, ProcessData DEF Synced
  <2> QED
    BY <2>1, <2>3, SettledStays, OwesDaemon
<1>5. ASSUME NEW d \in Daemons, Kill(d) PROVE Owes'
  <2>1. UNCHANGED <<jobs, owed>> /\ daemon' = [daemon EXCEPT ![d] = Off]
    BY <1>5 DEF Kill, queue
  <2>2. ~Synced(d)' /\ \A e \in Daemons : e # d => daemon'[e] = daemon[e]
    BY <2>1, Values, ProcessData DEF Synced
  <2>3. ASSUME NEW c \in Clients, client'[c].at = "record" PROVE client'[c] = client[c]
    <3>1. Idle.at # "record"
      BY DEF Idle
    <3> QED
      BY <1>5, <2>3, <3>1 DEF Kill
  <2>4. \A j \in Rows : Settled(j) => Settled(j)'
    BY <2>1, <2>3 DEF Settled
  <2> QED
    BY <2>1, <2>2, <2>4, OwesDaemon
<1> QED
  BY <1>1, <1>2, <1>3, <1>4, <1>5

LEMMA OwesStep == Inv /\ Owes /\ [Next]_vars => Owes'
<1> SUFFICES ASSUME Inv, Owes, [Next]_vars PROVE Owes'
  OBVIOUS
<1>1. CASE UNCHANGED vars
  BY <1>1 DEF vars, queue, Owes, Settled, Synced, Succeeded
<1>2. ASSUME NEW d \in Daemons, Works(d) PROVE Owes'
  BY <1>2, OwesProcess, OwesClaim, OwesClaimGone, OwesRun, OwesComplete DEF Works
<1> QED
  BY <1>1, <1>2, OwesRequest, OwesDies, OwesProcess, OwesPurge DEF Next, Starts

\* A job that succeeded left none of its notes without a sync that followed its
\* write.
THEOREM SuccessOwesNothingHolds == Spec => []SuccessOwesNothing
<1>1. Owes => SuccessOwesNothing
  BY DEF Owes, Succeeded, Settled, SuccessOwesNothing
<1> QED
  BY InvInit, InvStep, OwesInit, OwesStep, <1>1, PTL DEF Spec
=============================================================================
