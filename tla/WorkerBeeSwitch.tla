-------------------------- MODULE WorkerBeeSwitch --------------------------
(***************************************************************************)
(* The WorkerBee backend switcher, the registry of the selected runtime    *)
(* and the gateway calls that a switch must not cross.  The switch helper  *)
(* holds the live backend; the switcher's lock serialises preview, apply   *)
(* and rollback, each step of which is written to a receipt; the registry  *)
(* numbers what it is told with a generation, by the switcher after a      *)
(* verified switch and by every status request, which reads the helper     *)
(* outside that lock.  A session's lease is for one generation, and its    *)
(* calls are validated, counted, checked and forwarded in separate steps.  *)
(***************************************************************************)
EXTENDS Naturals, FiniteSets

CONSTANTS Backends, NoBackend,  \* backends of the switch helper
          Start,                \* the backend it is started with
          MaxTxs,               \* bound on switch transactions, numbered as previewed
          Sessions,             \* sessions with a gateway lease
          MaxFaults             \* bound on switches by hand, rollback commands that
                                \* fail and restarts of the daemon

ASSUME NoBackendAssumption == NoBackend \notin Backends /\ Start \in Backends
ASSUME BoundsAssumption    == MaxFaults \in Nat /\ MaxTxs \in Nat

VARIABLES
  active,    \* the backend the switch helper reports
  selected,  \* selected-runtime.json: backend and generation
  receipts,  \* the transaction receipts
  last,      \* last-transaction.json
  job,       \* the apply that holds the lock, and what it saw
  look,      \* what a status request read and has yet to observe
  call,      \* each session's gateway call
  faults,    \* how many there were
  disturbed  \* the backend may have moved behind the last receipt

switching == <<receipts, last, job, disturbed>>
vars == <<active, selected, switching, look, call, faults>>

Txs  == 1..MaxTxs
NoTx == 0

Phases == {"none", "previewed", "verified", "verified_noop", "apply_failed_unchanged",
           "failed_rolled_back", "failed_rollback_failed", "rolled_back",
           "rollback_failed"}

NoReceipt == [phase |-> "none", target |-> NoBackend, before |-> NoBackend]
NoJob     == [at |-> "idle", tx |-> NoTx, seen |-> NoBackend]
NoCall    == [at |-> "none", mutating |-> FALSE, gen |-> 0, late |-> FALSE, astray |-> FALSE]

TypeOK ==
  /\ active \in Backends
  /\ selected \in [backend : Backends, gen : Nat \ {0}]
  /\ receipts \in [Txs -> [phase : Phases, target : Backends \cup {NoBackend},
                           before : Backends \cup {NoBackend}]]
  /\ last \in Txs \cup {NoTx}
  /\ job \in [at : {"idle", "count", "run", "verify", "restore", "noop", "record"},
              tx : Txs \cup {NoTx}, seen : Backends \cup {NoBackend}]
  /\ look \in Backends \cup {NoBackend}
  /\ call \in [Sessions -> [at : {"none", "accepted", "entered", "checked", "forwarded"},
                            mutating : BOOLEAN, gen : 0..selected.gen, late : BOOLEAN,
                            astray : BOOLEAN]]
  /\ faults \in 0..MaxFaults
  /\ disturbed \in BOOLEAN

Init ==
  /\ active = Start
  /\ selected = [backend |-> active, gen |-> 1]
  /\ receipts = [t \in Txs |-> NoReceipt] /\ last = NoTx /\ job = NoJob
  /\ look = NoBackend
  /\ call = [s \in Sessions |-> NoCall]
  /\ faults = 0 /\ disturbed = FALSE

-----------------------------------------------------------------------------
(* The registry.                                                            *)

\* The generation follows every change of what is selected.
ObservedAfresh(b, force) ==                                       \* mutant
  [backend |-> b, gen |-> IF force THEN selected.gen + 1
                          ELSE IF b # selected.backend THEN 1 ELSE selected.gen]
Observed(b, force) ==
  [backend |-> b,
   gen |-> IF b # selected.backend \/ force THEN selected.gen + 1 ELSE selected.gen]

\* A status request reads the helper in one step and the registry in another.
LookRead ==
  /\ look = NoBackend /\ look' = active
  /\ UNCHANGED <<active, selected, switching, call, faults>>

Remembers(b) == selected                                          \* mutant
Notes(b) == Observed(b, FALSE)

LookWrite ==
  /\ look # NoBackend /\ look' = NoBackend
  /\ selected' = Notes(look)
  /\ UNCHANGED <<active, switching, call, faults>>

-----------------------------------------------------------------------------
(* The gateway's calls.                                                     *)

\* The mutating calls that impact() counts.
CountsChecked(s) == call[s].at \in {"checked", "forwarded"}       \* mutant
Counts(s) == call[s].at \in {"entered", "checked", "forwarded"}

InFlight == {s \in Sessions : call[s].mutating /\ Counts(s)}

\* The middleware: the lease of the request is of the selected generation.
Validate(s, mutating) ==
  /\ call[s] = NoCall
  /\ call' = [call EXCEPT ![s] = [NoCall EXCEPT !.at = "accepted", !.mutating = mutating,
                                                !.gen = selected.gen]]
  /\ UNCHANGED <<active, selected, switching, look, faults>>

\* Past the lease's lock: a mutating call is counted.  "late" notes that the
\* apply under way had read its count before.
Enter(s) ==
  /\ call[s].at = "accepted" /\ call[s].mutating
  /\ call' = [call EXCEPT ![s].at = "entered",
                          ![s].late = job.at \notin {"idle", "count"}]
  /\ UNCHANGED <<active, selected, switching, look, faults>>

\* require_current_workspace, or the transition of a session start.
Check(s) ==
  /\ call[s].at = "entered"
  /\ call' = [call EXCEPT ![s] = IF call[s].gen = selected.gen
                                 THEN [call[s] EXCEPT !.at = "checked"] ELSE NoCall]
  /\ UNCHANGED <<active, selected, switching, look, faults>>

\* The runtime is read again, and its generation is not compared.
Forward(s) ==
  /\ call[s].at = IF call[s].mutating THEN "checked" ELSE "accepted"
  /\ call' = [call EXCEPT ![s].at = "forwarded", ![s].gen = 0,
                          ![s].astray = call[s].gen # selected.gen]
  /\ UNCHANGED <<active, selected, switching, look, faults>>

Return(s) ==
  /\ call[s].at = "forwarded"
  /\ call' = [call EXCEPT ![s] = NoCall]
  /\ UNCHANGED <<active, selected, switching, look, faults>>

-----------------------------------------------------------------------------
(* The switcher, under its lock.                                            *)

Idle == job = NoJob

Saves(t, phase) ==
  /\ receipts' = [receipts EXCEPT ![t].phase = phase]
  /\ last' = t

Preview(t, b) ==
  /\ Idle /\ InFlight = {}
  /\ \A x \in Txs : receipts[x].phase = "none" <=> x >= t
  /\ receipts' = [receipts EXCEPT ![t] = [phase |-> "previewed", target |-> b,
                                          before |-> active]]
  /\ last' = t /\ disturbed' = FALSE
  /\ UNCHANGED <<active, selected, job, look, call, faults>>

ApplyRead(t) ==
  /\ Idle /\ receipts[t].phase = "previewed"
  /\ job' = [at |-> "count", tx |-> t, seen |-> active]
  /\ UNCHANGED <<active, selected, receipts, last, disturbed, look, call,
                 faults>>

\* The apply goes on only with no call in flight and the previewed backend.
ApplyCount ==
  LET r == receipts[job.tx] IN
  /\ job.at = "count"
  /\ \/ /\ InFlight # {} \/ job.seen # r.before
        /\ job' = NoJob
        /\ UNCHANGED <<receipts, last, disturbed>>
     \/ /\ InFlight = {} /\ job.seen = r.before /\ job.seen = r.target
        /\ job' = [job EXCEPT !.at = "noop"]
        /\ Saves(job.tx, "verified_noop") /\ UNCHANGED disturbed
     \/ /\ InFlight = {} /\ job.seen = r.before /\ job.seen # r.target
        /\ job' = [job EXCEPT !.at = "run"]
        /\ UNCHANGED <<receipts, last, disturbed>>
  /\ UNCHANGED <<active, selected, look, call, faults>>

\* The command may fail, before or after it had its effect.
ApplyRun ==
  LET r == receipts[job.tx] IN
  /\ job.at = "run"
  /\ \/ /\ active' = r.target /\ job' = [job EXCEPT !.at = "verify"]
        /\ UNCHANGED <<receipts, last, disturbed>>
     \/ /\ active' \in {active, r.target}
        /\ IF active' = r.before
           THEN /\ Saves(job.tx, "apply_failed_unchanged")
                /\ job' = NoJob /\ disturbed' = FALSE
           ELSE /\ job' = [job EXCEPT !.at = "restore"]
                /\ UNCHANGED <<receipts, last, disturbed>>
  /\ UNCHANGED <<selected, look, call, faults>>

\* Backend and posture must match and the capability probe must answer.
ApplyVerify(probe) ==
  LET verified == probe /\ active = receipts[job.tx].target IN
  /\ job.at = "verify"
  /\ job' = [job EXCEPT !.at = IF verified THEN "record" ELSE "restore",
                        !.seen = active]
  /\ IF verified THEN Saves(job.tx, "verified") /\ disturbed' = FALSE
                 ELSE UNCHANGED <<receipts, last, disturbed>>
  /\ UNCHANGED <<active, selected, look, call, faults>>

\* _safe_restore_backend: what it achieved is in the receipt.
OutcomeHoped(done) == "failed_rolled_back"                        \* mutant
RestoreOutcome(done) ==
  IF done THEN "failed_rolled_back" ELSE "failed_rollback_failed"

Restore(done) ==
  LET r == receipts[job.tx] IN
  /\ job.at = "restore"
  /\ active' \in IF done THEN {r.before} ELSE {active, r.before}
  /\ Saves(job.tx, RestoreOutcome(done))
  /\ job' = NoJob /\ disturbed' = FALSE
  /\ UNCHANGED <<selected, look, call, faults>>

\* Only a verified switch, or none, is told to the registry.
Record ==
  /\ job.at \in {"noop", "record"}
  /\ selected' = Observed(job.seen, job.at = "record")
  /\ job' = NoJob
  /\ UNCHANGED <<active, receipts, last, disturbed, look, call, faults>>

\* A rollback looks neither at the calls in flight nor at the live backend.
\* If its command fails the receipt stays as it was.
RollbackFails(t) ==
  /\ Idle /\ receipts[t].phase \in {"verified", "verified_noop"}
  /\ faults < MaxFaults /\ faults' = faults + 1
  /\ active' = receipts[t].before /\ disturbed' = TRUE
  /\ UNCHANGED <<selected, receipts, last, job, look, call>>

Rollback(t, probe) ==
  /\ Idle /\ receipts[t].phase \in {"verified", "verified_noop"}
  /\ active' = receipts[t].before
  /\ Saves(t, IF probe THEN "rolled_back" ELSE "rollback_failed")
  /\ disturbed' = FALSE
  /\ job' = IF probe THEN [at |-> "record", tx |-> t, seen |-> active'] ELSE NoJob
  /\ UNCHANGED <<selected, look, call, faults>>

-----------------------------------------------------------------------------
(* The surroundings.                                                        *)

\* Somebody runs the switch helper by hand.
Outside(b) ==
  /\ faults < MaxFaults /\ faults' = faults + 1
  /\ active' = b /\ disturbed' = TRUE
  /\ UNCHANGED <<selected, receipts, last, job, look, call>>

\* The daemon dies between any two steps and is started again.
Crash ==
  /\ faults < MaxFaults /\ faults' = faults + 1
  /\ job' = NoJob /\ look' = NoBackend /\ call' = [s \in Sessions |-> NoCall]
  /\ disturbed' = TRUE
  /\ UNCHANGED <<active, selected, receipts, last>>

Switcher ==
  \/ \E t \in Txs : ApplyRead(t) \/ RollbackFails(t)
  \/ \E t \in Txs, b \in Backends : Preview(t, b)
  \/ \E t \in Txs, probe \in BOOLEAN : Rollback(t, probe)

JobStep == ApplyCount \/ ApplyRun \/ Record
             \/ \E ok \in BOOLEAN : ApplyVerify(ok) \/ Restore(ok)

Calls ==
  \E s \in Sessions :
    \/ Enter(s) \/ Check(s) \/ Forward(s) \/ Return(s)
    \/ \E mutating \in BOOLEAN : Validate(s, mutating)

Next == LookRead \/ LookWrite \/ Switcher \/ JobStep \/ Calls \/ Crash
          \/ \E b \in Backends : Outside(b)

\* Threads finish, and somebody keeps asking for the status.
Fairness == WF_vars(LookRead) /\ WF_vars(LookWrite) /\ WF_vars(JobStep)

Spec == Init /\ [][Next]_vars /\ Fairness

-----------------------------------------------------------------------------
(* Properties.                                                              *)

\* A backend is switched by an apply only with no mutating call in flight
\* that had been counted before the apply took its count: the calls it may
\* cross are those that came in after it, and no others.
CallsBlockApply ==
  job.at \in {"run", "verify"} =>
    \A s \in Sessions : call[s].mutating /\ call[s].at \in {"entered", "checked", "forwarded"}
                          => call[s].late

\* The last receipt is right about the live backend, after failed commands,
\* failed probes and restorations, unless the daemon died, the command of a
\* rollback failed or somebody switched by hand since it was written.
ReceiptTellsBackend ==
  job = NoJob /\ last # NoTx /\ ~disturbed =>
    LET r == receipts[last] IN
    /\ r.phase \in {"previewed", "apply_failed_unchanged", "failed_rolled_back", "rolled_back"}
         => active = r.before
    /\ r.phase \in {"verified", "verified_noop"} => active = r.target

\* A crash before the registry was told, a failed restoration, a stale status
\* request and a switch by hand are all made up for: once the backend rests,
\* it is the selected one.
SelectionCatchesUp == <>[](selected.backend = active)

\* "Agent PBX never silently retargets a running session to the new backend":
\* a call reaches the generation its lease is for.
NoCallRetargeted == \A s \in Sessions : ~call[s].astray
=============================================================================
