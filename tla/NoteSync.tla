------------------------------ MODULE NoteSync ------------------------------
(***************************************************************************)
(* The synchronisation of Joplin notes.  A note is written through the     *)
(* local Data API, and a durable job then asks for a sync of the profile:  *)
(* a request joins the oldest queued job of its reason or adds one, after  *)
(* reading the queue in a transaction of its own.  A daemon's worker       *)
(* claims the oldest job, takes the profile's lock, stops the Data API if  *)
(* it owns the profile, runs the CLI over the whole profile, starts the    *)
(* Data API again and verifies the job's notes.  Every process that opens  *)
(* the database puts running jobs back in the queue; a daemon that stops   *)
(* leaves the thread of its run behind; a worker whose database call       *)
(* raises is gone until its daemon is; and the purge of an agent deletes   *)
(* its jobs, whatever they are at.                                         *)
(***************************************************************************)
EXTENDS Naturals, FiniteSets, Sequences

CONSTANTS Notes,      \* notes that are written
          Clients,    \* requests being handled
          Daemons,    \* daemon processes, one of which serves at a time
          MaxJobs,    \* bound on jobs
          MaxWrites,  \* bound on requests
          MaxFaults   \* bound on failing steps, kills and stops of a daemon, and
                      \* databases opened by other processes

None == "none"

ASSUME NoneAssumption   == None \notin Daemons
ASSUME BoundsAssumption == MaxJobs \in Nat /\ MaxWrites \in Nat /\ MaxFaults \in Nat

VARIABLES
  managed,  \* profile_owner_mode: managed_cli, or no profile of its own
  server,   \* whether the Data API answers
  jobs,     \* joplin_sync_jobs, oldest first; "gone" is a row deleted
  failures, \* the failed jobs, in the order they failed
  lock,     \* who holds the profile's lock file
  client,   \* each request: the notes to ask a sync for, and what it read
  daemon,   \* each daemon's worker and the job it runs
  owed,     \* notes recorded in a job that no sync has covered since they were written
  writes, faults

queue == <<jobs, failures, owed>>
vars  == <<managed, server, queue, lock, client, daemon, writes, faults>>

Rows == 1..MaxJobs
NoJob == 0

\* Writes are for notes of an agent; a manual sync is nobody's and names no note.
Reasons == {"write", "manual"}
Steps   == {"off", "boot", "idle", "claimed", "locked", "syncing", "restore", "verify",
            "succeeded", "failed", "dead"}

Idle   == [at |-> "none", reason |-> "manual", todo |-> {}, row |-> NoJob, notes |-> {},
           fresh |-> {}]
Off    == [at |-> "off", serving |-> FALSE, job |-> NoJob, ok |-> TRUE]

TypeOK ==
  /\ managed \in BOOLEAN /\ server \in BOOLEAN
  /\ Len(jobs) <= MaxJobs
  /\ \A j \in DOMAIN jobs :
       jobs[j] \in [status : {"queued", "running", "succeeded", "failed", "gone"},
                    reason : Reasons, notes : SUBSET Notes]
  /\ \A i \in DOMAIN failures :
       failures[i] \in DOMAIN jobs /\ jobs[failures[i]].status \in {"failed", "gone"}
  /\ lock \in Daemons \cup {None}
  /\ client \in [Clients -> [at : {"none", "read", "record"}, reason : Reasons,
                             todo : SUBSET Notes, row : 0..MaxJobs, notes : SUBSET Notes,
                             fresh : SUBSET Notes]]
  /\ \A d \in Daemons :
       /\ daemon[d] \in [at : Steps, serving : BOOLEAN, job : 0..MaxJobs, ok : BOOLEAN]
       /\ daemon[d].job \in IF daemon[d].at \in {"off", "boot", "idle", "dead"}
                            THEN {NoJob} ELSE DOMAIN jobs
  /\ owed \in [Rows -> SUBSET Notes]
  /\ writes \in 0..MaxWrites /\ faults \in 0..MaxFaults

Init ==
  /\ managed \in BOOLEAN /\ server = TRUE
  /\ jobs = <<>> /\ failures = <<>> /\ lock = None
  /\ client = [c \in Clients |-> Idle]
  /\ daemon = [d \in Daemons |-> Off]
  /\ owed = [j \in Rows |-> {}]
  /\ writes = 0 /\ faults = 0

Serving == {d \in Daemons : daemon[d].serving}

-----------------------------------------------------------------------------
(* Requests.                                                                *)

Status(s)    == {j \in DOMAIN jobs : jobs[j].status \in s}
Oldest(rows) == IF rows = {} THEN NoJob ELSE CHOOSE j \in rows : \A i \in rows : j <= i

\* A note is written through the Data API; its sync is asked for afterwards.
WriteNote(c, n) ==
  /\ client[c] = Idle /\ Serving # {} /\ server /\ writes < MaxWrites
  /\ client' = [client EXCEPT ![c] = [Idle EXCEPT !.at = "read", !.reason = "write",
                                                  !.todo = {n}, !.fresh = {n}]]
  /\ writes' = writes + 1
  /\ UNCHANGED <<managed, server, queue, lock, daemon, faults>>

\* A sync of the whole profile, which names no note.
RequestSync(c) ==
  /\ client[c] = Idle /\ Serving # {} /\ writes < MaxWrites
  /\ client' = [client EXCEPT ![c] = [Idle EXCEPT !.at = "read"]]
  /\ writes' = writes + 1
  /\ UNCHANGED <<managed, server, queue, lock, daemon, faults>>

\* The failed write that a retry repeats, unless an active job has its notes.
FailedWrites == {i \in DOMAIN failures :
                  jobs[failures[i]].status = "failed" /\ jobs[failures[i]].notes # {}}

RetryWrite(c) ==
  /\ client[c] = Idle /\ Serving # {} /\ writes < MaxWrites
  /\ \E i \in FailedWrites :
       LET failed == jobs[failures[i]]
       IN  /\ \A k \in FailedWrites : k <= i
           /\ \A j \in Status({"queued", "running"}) :
                jobs[j].reason = failed.reason => ~ failed.notes \subseteq jobs[j].notes
           /\ client' = [client EXCEPT ![c] = [Idle EXCEPT !.at = "read",
                                               !.reason = failed.reason, !.todo = failed.notes]]
  /\ writes' = writes + 1
  /\ UNCHANGED <<managed, server, queue, lock, daemon, faults>>

\* enqueue_joplin_sync reads the oldest queued job of the reason ...
EnqueueRead(c) ==
  /\ client[c].at = "read"
  /\ LET row == Oldest({j \in Status({"queued"}) : jobs[j].reason = client[c].reason})
     IN  client' = [client EXCEPT ![c].at = "record", ![c].row = row,
                                  ![c].notes = IF row = NoJob THEN {} ELSE jobs[row].notes]
  /\ UNCHANGED <<managed, server, queue, lock, daemon, writes, faults>>

\* ... and writes what it read back with one note more, whatever the job is by now.
Recorded(c, asked) ==
  IF client[c].row = NoJob
  THEN Append(jobs, [status |-> "queued", reason |-> client[c].reason, notes |-> asked])
  ELSE [jobs EXCEPT ![client[c].row].notes = client[c].notes \cup asked]

EnqueueWrite(c) ==
  /\ client[c].at = "record"
  /\ client[c].row = NoJob => Len(jobs) < MaxJobs
  /\ client[c].row # NoJob => jobs[client[c].row].status # "gone"
  /\ \E asked \in {{n} : n \in client[c].todo} \cup (IF client[c].todo = {} THEN {{}} ELSE {}) :
       LET row  == IF client[c].row = NoJob THEN Len(jobs) + 1 ELSE client[c].row
           rest == client[c].todo \ asked
       IN  /\ jobs' = Recorded(c, asked)
           /\ owed' = [owed EXCEPT ![row] = @ \cup (asked \cap client[c].fresh)]
           /\ client' = [client EXCEPT ![c] = IF rest = {} THEN Idle
                                              ELSE [@ EXCEPT !.at = "read", !.todo = rest,
                                                             !.row = NoJob, !.notes = {}]]
  /\ UNCHANGED <<managed, server, failures, lock, daemon, writes, faults>>

Faulty == faults < MaxFaults /\ faults' = faults + 1
Sound  == UNCHANGED faults

\* The job is gone, before its row is written or before it is read again, or the
\* database fails: the request raises, and the notes that are left are not asked.
EnqueueFails(c) ==
  /\ \/ /\ Sound /\ client[c].at = "record" /\ client[c].row # NoJob
        /\ jobs[client[c].row].status = "gone"
     \/ Faulty /\ client[c].at \in {"read", "record"}
  /\ client' = [client EXCEPT ![c] = Idle]
  /\ UNCHANGED <<managed, server, queue, lock, daemon, writes>>

-----------------------------------------------------------------------------
(* The worker of a daemon.                                                  *)

\* The step of a run, which goes on in its thread when the daemon is stopping;
\* the lock is released with the run's last step.
Goes(d, step, ok) ==
  /\ daemon' = [daemon EXCEPT ![d].at = step, ![d].ok = ok]
  /\ lock' = IF step \in {"succeeded", "failed"} /\ lock = d THEN None ELSE lock

NextJob == Oldest(Status({"queued"}))

Claim(d) ==
  /\ daemon[d].at = "idle" /\ NextJob # NoJob
  /\ jobs' = [jobs EXCEPT ![NextJob].status = "running"]
  /\ daemon' = [daemon EXCEPT ![d].at = "claimed", ![d].job = NextJob]
  /\ UNCHANGED <<managed, server, failures, owed, lock, client, writes, faults>>

\* A worker between two jobs, and one that an exception ended.
AtRest(step) == [at |-> step, serving |-> TRUE, job |-> NoJob, ok |-> TRUE]

\* The claimed job is gone when it is read again: the worker goes on.
ClaimGone(d) ==
  /\ daemon[d].at = "claimed" /\ daemon[d].serving
  /\ jobs[daemon[d].job].status = "gone"
  /\ daemon' = [daemon EXCEPT ![d] = AtRest("idle")]
  /\ UNCHANGED <<managed, server, queue, lock, client, writes, faults>>

TakeLock(d) ==
  /\ daemon[d].at = "claimed"
  /\ IF lock = None
     THEN /\ lock' = d /\ daemon' = [daemon EXCEPT ![d].at = "locked"]
     ELSE Goes(d, "failed", FALSE)
  /\ UNCHANGED <<managed, server, queue, client, writes, faults>>

\* The server of a managed profile is stopped; it may not stop, and when it does
\* and its listener does not, the run fails without starting it again.
StopServer(d) ==
  /\ daemon[d].at = "locked"
  /\ \/ /\ Sound /\ Goes(d, "syncing", TRUE)
        /\ server' = (server /\ ~managed)
     \/ /\ managed /\ Faulty /\ Goes(d, "failed", FALSE)
        /\ server' \in {server, FALSE}
  /\ UNCHANGED <<managed, queue, client, writes>>

\* The CLI syncs the whole profile, notes of other jobs too.
SyncProfile(d) ==
  /\ daemon[d].at = "syncing"
  /\ \/ /\ Sound /\ Goes(d, "restore", TRUE)
        /\ owed' = [j \in Rows |-> {}]
        /\ client' = [c \in Clients |-> [client[c] EXCEPT !.fresh = {}]]
     \/ /\ Faulty /\ Goes(d, "restore", FALSE) /\ UNCHANGED <<owed, client>>
  /\ UNCHANGED <<managed, server, jobs, failures, writes>>

StartServer(d) ==
  /\ daemon[d].at = "restore"
  /\ \/ /\ Sound /\ server' = TRUE
        /\ Goes(d, IF daemon[d].ok THEN "verify" ELSE "failed", daemon[d].ok)
     \/ /\ managed /\ Faulty /\ Goes(d, "failed", FALSE) /\ UNCHANGED server
  /\ UNCHANGED <<managed, queue, client, writes>>

\* wait_for_sync_targets, or wait_for_decryption when the job names no note.
Verify(d) ==
  /\ daemon[d].at = "verify"
  /\ \/ Sound /\ server /\ Goes(d, "succeeded", TRUE)
     \/ Sound /\ ~server /\ Goes(d, "failed", FALSE)
     \/ Faulty /\ Goes(d, "failed", FALSE)
  /\ UNCHANGED <<managed, server, queue, client, writes>>

\* The job takes the outcome of the run only while it is running.
EndsAnyway(d) == TRUE                                             \* mutant
EndsOnSuccess(d) == jobs[daemon[d].job].status = "running" /\ daemon[d].ok    \* mutant
Ends(d) == jobs[daemon[d].job].status = "running"

Outcome(d) ==
  IF Ends(d)
  THEN /\ jobs' = [jobs EXCEPT ![daemon[d].job].status = daemon[d].at]
       /\ failures' = IF daemon[d].at = "failed" THEN Append(failures, daemon[d].job)
                      ELSE failures
  ELSE UNCHANGED <<jobs, failures>>

Complete(d) ==
  /\ daemon[d].at \in {"succeeded", "failed"}
  /\ IF daemon[d].serving
     THEN Outcome(d) /\ daemon' = [daemon EXCEPT ![d] = AtRest("idle")]
     ELSE UNCHANGED <<jobs, failures>> /\ daemon' = [daemon EXCEPT ![d] = Off]
  /\ UNCHANGED <<managed, server, owed, lock, client, writes, faults>>

\* An exception of the claim, of the completion or of the event that follows it
\* ends the worker, before its write or after it; its daemon serves on.
WorkerDies(d) ==
  /\ Faulty /\ daemon[d].serving
  /\ \/ daemon[d].at \in {"idle", "succeeded", "failed"} /\ UNCHANGED <<jobs, failures>>
     \/ /\ daemon[d].at = "idle" /\ NextJob # NoJob
        /\ jobs' = [jobs EXCEPT ![NextJob].status = "running"] /\ UNCHANGED failures
     \/ daemon[d].at \in {"succeeded", "failed"} /\ Outcome(d)
  /\ daemon' = [daemon EXCEPT ![d] = AtRest("dead")]
  /\ UNCHANGED <<managed, server, owed, lock, client, writes>>

-----------------------------------------------------------------------------
(* Processes.                                                               *)

\* Store.init, in every process that opens the database.
KeepsRunning == jobs                                              \* mutant
RequeuesFailed ==                                                 \* mutant
  [j \in DOMAIN jobs |->
    IF jobs[j].status \in {"running", "failed"} THEN [jobs[j] EXCEPT !.status = "queued"]
    ELSE jobs[j]]
Requeued == [j \in DOMAIN jobs |->
              IF jobs[j].status = "running" THEN [jobs[j] EXCEPT !.status = "queued"]
              ELSE jobs[j]]

OpenStore ==
  /\ Faulty /\ jobs' = Requeued
  /\ UNCHANGED <<managed, server, failures, owed, lock, client, daemon, writes>>

Start(d) ==
  /\ daemon[d] = Off /\ Serving = {}
  /\ jobs' = Requeued
  /\ daemon' = [daemon EXCEPT ![d].at = "boot", ![d].serving = TRUE]
  /\ UNCHANGED <<managed, server, failures, owed, lock, client, writes, faults>>

\* bootstrap_server: a managed server is started unless a sync has the profile.
BootsAlways == TRUE                                               \* mutant
Boots == lock = None

Bootstrap(d) ==
  /\ daemon[d].at = "boot"
  /\ daemon' = [daemon EXCEPT ![d].at = "idle"]
  /\ \/ Sound /\ server' = (server \/ (managed /\ Boots))
     \/ managed /\ ~server /\ Faulty /\ UNCHANGED server
  /\ UNCHANGED <<managed, queue, lock, client, writes>>

\* The worker's task is cancelled once the requests in hand have been answered.
Stop(d) ==
  /\ Faulty /\ daemon[d].serving /\ daemon[d].at # "boot"
  /\ \A c \in Clients : client[c] = Idle
  /\ daemon' = [daemon EXCEPT ![d] = IF daemon[d].at \in {"idle", "dead"} THEN Off
                                     ELSE [daemon[d] EXCEPT !.serving = FALSE]]
  /\ UNCHANGED <<managed, server, queue, lock, client, writes>>

\* The CLI dies with its daemon, the Data API does not.
Kill(d) ==
  /\ Faulty /\ daemon[d] # Off
  /\ daemon' = [daemon EXCEPT ![d] = Off]
  /\ lock' = IF lock = d THEN None ELSE lock
  /\ client' = IF daemon[d].serving THEN [c \in Clients |-> Idle] ELSE client
  /\ UNCHANGED <<managed, server, queue, writes>>

\* dismiss_agent with delete_thread: the rows of the agent, in any status.
PurgeAgent ==
  /\ jobs' = [j \in DOMAIN jobs |-> IF jobs[j].reason = "write"
                                    THEN [jobs[j] EXCEPT !.status = "gone"] ELSE jobs[j]]
  /\ UNCHANGED <<managed, server, failures, owed, lock, client, daemon, writes, faults>>

Requests(c) ==
  \/ \E n \in Notes : WriteNote(c, n)
  \/ RequestSync(c) \/ RetryWrite(c) \/ EnqueueRead(c) \/ EnqueueWrite(c) \/ EnqueueFails(c)

Works(d) ==
  \/ Bootstrap(d) \/ Claim(d) \/ ClaimGone(d) \/ TakeLock(d) \/ StopServer(d) \/ SyncProfile(d)
  \/ StartServer(d) \/ Verify(d) \/ Complete(d)

Starts == \E d \in Daemons : Start(d)

Next ==
  \/ \E c \in Clients : Requests(c)
  \/ \E d \in Daemons : Works(d) \/ WorkerDies(d) \/ Stop(d) \/ Kill(d)
  \/ Starts
  \/ OpenStore \/ PurgeAgent

\* A run's steps and the loop of a worker that lives go on by themselves; a daemon
\* that has ended is started again by somebody.
Spec == Init /\ [][Next]_vars /\ (\A d \in Daemons : WF_vars(Works(d))) /\ WF_vars(Starts)

-----------------------------------------------------------------------------
(* Properties.                                                              *)

\* run_sync_job and bootstrap_server: the Data API of a managed profile does not
\* run while the CLI syncs it, whichever daemon starts, stops or dies meanwhile.
ExclusiveProfile ==
  managed => \A d \in Daemons : daemon[d].at = "syncing" => ~server

\* complete_joplin_sync_job and enqueue_joplin_sync: a job that succeeded left no
\* note behind that was recorded in it: every one was covered by a sync that
\* followed its write, though requests read the queue before they write it and
\* running jobs are put back in the queue.
SuccessOwesNothing ==
  \A j \in DOMAIN jobs : jobs[j].status = "succeeded" => owed[j] = {}

\* The daemon serves on without a worker.
Workerless == \E d \in Daemons : daemon[d].at = "dead"

\* claim_next_joplin_sync_job, Store.init: a queued job gets an outcome, whatever
\* is killed, stopped or opened while it runs, unless its agent is purged or the
\* worker of the daemon that serves has died and nobody restarts that daemon.
JobsEnd ==
  \A j \in Rows :
    (j \in DOMAIN jobs /\ jobs[j].status = "queued")
      ~> \/ j \in DOMAIN jobs /\ jobs[j].status \in {"succeeded", "failed", "gone"}
         \/ []Workerless

\* Store.init: a job is marked running only while a worker has it, or while there
\* is none that could claim it.
RunningIsWorked ==
  \A j \in Status({"running"}) :
    Serving = {} \/ Workerless \/ \E d \in Serving : daemon[d].job = j
=============================================================================
