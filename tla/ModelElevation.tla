--------------------------- MODULE ModelElevation ---------------------------
(***************************************************************************)
(* The bounded elevation of one agent's Codex runtime to a costly model    *)
(* profile: the lease table of the Store and its HTTP handlers, and the    *)
(* TUI clients that ask for a lease, restart the runtime under it, watch   *)
(* the runtime and bring it back.  A handler runs on the daemon's event    *)
(* loop without awaiting, so it is one action; a client awaits every       *)
(* request and every tmux command, so each of those is an action of its    *)
(* own, and a client runs its restart task and its reconcile task at once. *)
(***************************************************************************)
EXTENDS Naturals, FiniteSets

CONSTANTS Leases,      \* the lease ids uuid4 may produce
          NoLease,
          Clients,     \* TUI processes
          PriorKnown,  \* whether the lease names the profile to return to
          MaxTurns,    \* bound on the turns the runtime starts
          MaxCrashes   \* bound on TUI processes that die

ASSUME NoLeaseAssumption    == NoLease \notin Leases
ASSUME PriorKnownAssumption == PriorKnown \in BOOLEAN
ASSUME BoundsAssumption     == MaxTurns \in Nat /\ MaxCrashes \in Nat

VARIABLES
  status,     \* model_elevation_leases.status
  overdue,    \* leases whose expires_at has passed
  approver,   \* approved_by
  activated,  \* leases whose activated_at is set
  started,    \* the turn of a transition's elevated_turn_started_at, or 0
  restarted,  \* leases whose transition has revert_restart_completed_at
  profile,    \* the profile the runtime runs
  work,       \* its state: ready, in a turn, or complete
  turns,      \* the turns it has started
  after,      \* leases activated before that state was observed
  task,       \* each client's request-and-restart task
  rec,        \* each client's reconcile task and its snapshot
  cached,     \* each client's model_elevation_by_agent entry
  crashes

table   == <<status, overdue, approver, activated, started, restarted>>
runtime == <<profile, work, turns, after>>
vars    == <<table, runtime, task, rec, cached, crashes>>

Open     == {"pending", "approved", "active", "revert_pending"}
Terminal == {"rejected", "expired", "failed", "reverted"}
People   == {"user", "agent"}

\* What a client keeps of a lease row: reconciling looks at no other status.
Row(l, st) ==
  [lease |-> l, status |-> st, started |-> IF st = "active" THEN started[l] ELSE 0,
   restarted |-> l \in restarted]
NoRow == [lease |-> NoLease, status |-> "none", started |-> 0, restarted |-> FALSE]
CachedRow(l, st) == IF st[l] \in {"active", "revert_pending"} THEN Row(l, st[l]) ELSE NoRow
\* fetch_model_elevations: the newest open row.
OpenOf(st) == {l \in Leases : st[l] \in Open}
OpenRow(st) == IF OpenOf(st) = {} THEN NoRow
               ELSE CachedRow(CHOOSE l \in OpenOf(st) : TRUE, st)

NoSnap  == [profile |-> "prior", work |-> "ready", turn |-> 0, after |-> {}]
Snap    == [profile |-> profile, work |-> work, turn |-> turns, after |-> after]
Idle    == [pc |-> "idle", lease |-> NoLease]
RecIdle == [pc |-> "idle", lease |-> NoLease, snap |-> NoSnap]

Snaps == [profile : {"prior", "elevated"}, work : {"ready", "turn", "complete"},
          turn : 0..MaxTurns, after : SUBSET Leases]
Tasks == [pc : {"idle", "modal", "asked", "activate", "restart", "associate", "fail"},
          lease : Leases \cup {NoLease}]
Recs  == [pc : {"idle", "seen", "note", "revert", "finish", "restart", "record"},
          lease : Leases \cup {NoLease}, snap : Snaps]
RowsKept == [lease : Leases \cup {NoLease}, status : {"none", "active", "revert_pending"},
             started : 0..MaxTurns, restarted : BOOLEAN]

TypeOK ==
  /\ status \in [Leases -> Open \cup Terminal \cup {"none"}]
  /\ overdue \subseteq Leases /\ activated \subseteq Leases
  /\ restarted \subseteq Leases /\ started \in [Leases -> 0..MaxTurns]
  /\ approver \in [Leases -> People \cup {"none"}]
  /\ profile \in {"prior", "elevated"}
  /\ work \in {"ready", "turn", "complete"}
  /\ turns \in 0..MaxTurns /\ after \subseteq activated
  /\ task \in [Clients -> Tasks] /\ rec \in [Clients -> Recs]
  /\ cached \in [Clients -> RowsKept]
  /\ crashes \in 0..MaxCrashes

Init ==
  /\ status    = [l \in Leases |-> "none"]
  /\ overdue   = {} /\ activated = {} /\ restarted = {}
  /\ started   = [l \in Leases |-> 0]
  /\ approver  = [l \in Leases |-> "none"]
  /\ profile   = "prior" /\ work = "ready" /\ turns = 0 /\ after = {}
  /\ task      = [c \in Clients |-> Idle]
  /\ rec       = [c \in Clients |-> RecIdle]
  /\ cached    = [c \in Clients |-> NoRow]
  /\ crashes   = 0

-----------------------------------------------------------------------------
(* Conditions of the handlers on the table.                                 *)

\* expire_model_elevations, which every request and every listing runs first.
NeverExpired == status                                            \* mutant
Expired ==
  [l \in Leases |-> IF l \notin overdue THEN status[l]
                    ELSE IF status[l] = "approved" THEN "expired"
                    ELSE IF status[l] = "active" THEN "revert_pending"
                    ELSE status[l]]

\* The open lease request_or_reuse_model_elevation returns instead of inserting.
ReusableLive(st) == {l \in Leases : st[l] \in {"pending", "approved", "active"}}  \* mutant
Reusable(st) == OpenOf(st)

\* The handler's 409 for an agent that approves its own elevation.
AnyoneApproves(who) == TRUE                                       \* mutant
MayApprove(who) == who # "agent"

ActivatesOpen(l) == status[l] \in Open /\ l \notin overdue        \* mutant
Activates(l) == status[l] = "approved" /\ l \notin overdue

RevertsAny(l) == TRUE                                             \* mutant
Reverts(l) == status[l] \in {"active", "revert_pending"}

\* finish_model_elevation: no condition on the status it overwrites.
Finish(l, to) == status' = [status EXCEPT ![l] = to]

-----------------------------------------------------------------------------
(* A client's way up: preflight, modal, request, decide, activate, restart. *)

Goto(c, pc, l) == task' = [task EXCEPT ![c] = [pc |-> pc, lease |-> l]]
Stop(c) == Goto(c, "idle", NoLease)

\* prepare_model_elevation reads the runtime and the leases; then it opens the
\* modal, resumes an approved lease, or refuses.
Prepare(c) ==
  /\ task[c].pc = "idle"
  /\ status' = Expired
  /\ cached' = [cached EXCEPT ![c] = OpenRow(status')]
  /\ \/ OpenOf(status') = {} /\ profile # "elevated" /\ Goto(c, "modal", NoLease)
     \/ \E l \in Leases : /\ status'[l] = "approved" /\ profile # "elevated"
                          /\ Goto(c, "activate", l)
     \/ /\ profile = "elevated" \/ \E l \in OpenOf(status') : status'[l] # "approved"
        /\ UNCHANGED task
  /\ UNCHANGED <<overdue, approver, activated, started, restarted, runtime, rec,
                 crashes>>

Cancel(c) ==
  /\ task[c].pc = "modal" /\ Stop(c)
  /\ UNCHANGED <<table, runtime, rec, cached, crashes>>

\* POST /v2/codex/elevations: the row returned tells the client how to go on.
Request(c) ==
  /\ task[c].pc = "modal"
  /\ \E l \in Leases :
       /\ \/ l \in Reusable(Expired) /\ status' = Expired
          \/ /\ Reusable(Expired) = {} /\ status[l] = "none"
             /\ status' = [Expired EXCEPT ![l] = "pending"]
       /\ CASE status'[l] = "pending"  -> Goto(c, "asked", l)
            [] status'[l] = "approved" -> Goto(c, "activate", l)
            [] OTHER                   -> Stop(c)
       /\ cached' = IF status'[l] = "active"
                    THEN [cached EXCEPT ![c] = CachedRow(l, status')] ELSE cached
  /\ UNCHANGED <<overdue, approver, activated, started, restarted, runtime, rec,
                 crashes>>

\* POST .../decision approves a pending lease.
Decide(l, who) ==
  /\ MayApprove(who) /\ status[l] = "pending"
  /\ status'   = [status EXCEPT ![l] = "approved"]
  /\ approver' = [approver EXCEPT ![l] = who]

\* The client approves; its user's earlier approval is returned as it is.
Approve(c) ==
  LET l == task[c].lease IN
  /\ task[c].pc = "asked"
  /\ \/ Decide(l, "user") /\ Goto(c, "activate", l)
     \/ /\ status[l] # "pending" /\ UNCHANGED <<status, approver>>
        /\ IF status[l] = "approved" /\ approver[l] = "user"
           THEN Goto(c, "activate", l) ELSE Stop(c)
  /\ UNCHANGED <<overdue, activated, started, restarted, runtime, rec, cached,
                 crashes>>

\* The same endpoint called by somebody else, to approve or to reject.
DecideElsewhere(l) ==
  /\ \/ \E who \in People : Decide(l, who)
     \/ /\ status[l] = "pending"
        /\ status'   = [status EXCEPT ![l] = "rejected"]
        /\ approver' = [approver EXCEPT ![l] = "user"]
  /\ UNCHANGED <<overdue, activated, started, restarted, runtime, task, rec,
                 cached, crashes>>

\* POST .../activate: an active lease is returned, an overdue one expired.
Activate(c) ==
  LET l == task[c].lease
      reused == status[l] = "active" /\ l \notin overdue
  IN
  /\ task[c].pc = "activate"
  /\ \/ /\ Activates(l)
        /\ status'    = [status EXCEPT ![l] = "active"]
        /\ activated' = activated \cup {l}
     \/ ~Activates(l) /\ reused /\ UNCHANGED <<status, activated>>
     \/ /\ ~Activates(l) /\ ~reused /\ UNCHANGED activated
        /\ status' = IF status[l] \in {"approved", "active"} THEN Expired ELSE status
  /\ IF Activates(l) \/ reused
     THEN /\ cached' = [cached EXCEPT ![c] = CachedRow(l, status')]
          /\ Goto(c, "restart", l)
     ELSE Stop(c) /\ UNCHANGED cached
  /\ UNCHANGED <<overdue, approver, started, restarted, runtime, rec, crashes>>

\* A respawned pane reports itself ready; whatever turn it ran is gone.
RespawnedAsTurn(p) ==                                             \* mutant
  profile' = p /\ work' = "ready" /\ after' = activated /\ turns' = turns + 1
Respawned(p) == profile' = p /\ work' = "ready" /\ after' = activated /\ UNCHANGED turns

\* A restart that respawns the pane leaves it with the preset, or with what it ran:
\* a replacement that dies is rolled back, and a managed resume that finds the
\* mapping ready after all restarts without the preset.
Relaunched(p) == Respawned(p) \/ Respawned(profile)

\* restart_tmux_codex_session under an active lease fails without a pane, mapping or
\* session, with a rolled back replacement, or when the mapping is not refreshed.
Restart(c) ==
  LET l == task[c].lease IN
  /\ task[c].pc = "restart"
  /\ \/ Relaunched("elevated") /\ \E pc \in {"associate", "fail"} : Goto(c, pc, l)
     \/ Goto(c, "fail", l) /\ UNCHANGED runtime
  /\ UNCHANGED <<table, rec, cached, crashes>>

Fail(c) ==
  /\ task[c].pc = "fail"
  /\ Finish(task[c].lease, "failed")
  /\ cached' = [cached EXCEPT ![c] = NoRow]
  /\ Stop(c)
  /\ UNCHANGED <<overdue, approver, activated, started, restarted, runtime, rec,
                 crashes>>

\* associate_model_elevation_runtime: a terminal lease refuses the update, and
\* the client keeps the active row it had.
Associate(c) ==
  LET l == task[c].lease IN
  /\ task[c].pc = "associate"
  /\ cached' = [cached EXCEPT ![c] =
       IF status[l] \in Open THEN CachedRow(l, status) ELSE Row(l, "active")]
  /\ Stop(c)
  /\ UNCHANGED <<table, runtime, rec, crashes>>

\* A preset that is not elevated is applied whatever lease is open.
RestartPlain ==
  /\ Relaunched("prior")
  /\ UNCHANGED <<table, task, rec, cached, crashes>>

-----------------------------------------------------------------------------
(* A client's way down: reconcile_model_elevation on a runtime snapshot.    *)

\* verified_model_revert_boundary, of a completed task or of any safe point
SafeWhenever(row, snap, completed) == snap.work # "turn"          \* mutant
SafePoint(row, snap, completed) ==
  /\ row.lease \in snap.after
  /\ \/ snap.work = "complete"
     \/ snap.work = "ready" /\ (completed => row.started \in 1..snap.turn)

VerifiedComplete(snap) == snap.profile = "prior" /\ snap.work = "complete"  \* mutant
Verified(snap) == snap.profile = "prior"

\* What comes next, given the row the client has and its snapshot.
StepOfPending(row, snap) ==
  CASE Verified(snap)                                     -> "finish"
    [] ~Verified(snap) /\ SafePoint(row, snap, FALSE) /\ ~row.restarted
                                                          -> "restart"
    [] OTHER                                              -> "idle"
StepOf(row, snap) ==
  IF ~PriorKnown THEN "idle"
  ELSE CASE row.status = "active" /\ snap.work = "turn" ->
              IF row.lease \in snap.after /\ row.started = 0 THEN "note" ELSE "idle"
         [] row.status = "active" /\ snap.work # "turn" ->
              IF SafePoint(row, snap, TRUE) THEN "revert" ELSE "idle"
         [] row.status = "revert_pending" -> StepOfPending(row, snap)
         [] OTHER -> "idle"

Continue(c, step, l) ==
  rec' = [rec EXCEPT ![c] =
    IF step = "idle" THEN RecIdle
    ELSE [pc |-> step, lease |-> l,
          snap |-> IF step \in {"note", "revert"} THEN rec[c].snap ELSE NoSnap]]
Quit(c) == Continue(c, "idle", NoLease)

\* The snapshot of a codex_runtime_observed event or of the runtime endpoint.
Observe(c) ==
  /\ rec[c].pc = "idle"
  /\ rec' = [rec EXCEPT ![c] = [pc |-> "seen", lease |-> NoLease, snap |-> Snap]]
  /\ UNCHANGED <<table, runtime, task, cached, crashes>>

\* An event is reconciled with the cached row.
ReconcileEvent(c) ==
  /\ rec[c].pc = "seen"
  /\ Continue(c, StepOf(cached[c], rec[c].snap), cached[c].lease)
  /\ UNCHANGED <<table, runtime, task, cached, crashes>>

\* load_codex_runtime_status lists the leases after it has the snapshot.
ReconcileStatus(c) ==
  LET row == OpenRow(Expired) IN
  /\ rec[c].pc = "seen"
  /\ status' = Expired
  /\ cached' = [cached EXCEPT ![c] = row]
  /\ Continue(c, StepOf(row, rec[c].snap), row.lease)
  /\ UNCHANGED <<overdue, approver, activated, started, restarted, runtime, task,
                 crashes>>

\* The first turn after the activation is recorded while the lease is open.
NoteTurn(c) ==
  LET l == rec[c].lease IN
  /\ rec[c].pc = "note"
  /\ IF status[l] \in Open
     THEN /\ started' = [started EXCEPT ![l] = rec[c].snap.turn]
          /\ cached'  = [cached EXCEPT ![c] =
                           [CachedRow(l, status) EXCEPT !.started =
                              IF status[l] = "active" THEN rec[c].snap.turn ELSE 0]]
     ELSE UNCHANGED <<started, cached>>
  /\ Quit(c)
  /\ UNCHANGED <<status, overdue, approver, activated, restarted, runtime, task,
                 crashes>>

\* POST .../revert, after which the same snapshot decides again.
Revert(c) ==
  LET l == rec[c].lease  row == Row(l, "revert_pending") IN
  /\ rec[c].pc = "revert"
  /\ IF Reverts(l)
     THEN /\ status' = [status EXCEPT ![l] = "revert_pending"]
          /\ cached' = [cached EXCEPT ![c] = row]
          /\ Continue(c, StepOfPending(row, rec[c].snap), l)
     ELSE Quit(c) /\ UNCHANGED <<status, cached>>
  /\ UNCHANGED <<overdue, approver, activated, started, restarted, runtime, task,
                 crashes>>

FinishReverted(c) ==
  /\ rec[c].pc = "finish"
  /\ Finish(rec[c].lease, "reverted")
  /\ cached' = [cached EXCEPT ![c] = NoRow]
  /\ Quit(c)
  /\ UNCHANGED <<overdue, approver, activated, started, restarted, runtime, task,
                 crashes>>

\* The restart under the prior preset; it has no lease to fail with.
RestartPrior(c) ==
  /\ rec[c].pc = "restart"
  /\ \/ Relaunched("prior") /\ (Continue(c, "record", rec[c].lease) \/ Quit(c))
     \/ Quit(c) /\ UNCHANGED runtime
  /\ UNCHANGED <<table, task, cached, crashes>>

RecordRestart(c) ==
  LET l == rec[c].lease IN
  /\ rec[c].pc = "record"
  /\ IF status[l] \in Open
     THEN /\ restarted' = restarted \cup {l}
          /\ cached'    = [cached EXCEPT ![c] =
                             [Row(l, status[l]) EXCEPT !.restarted = TRUE]]
     ELSE UNCHANGED <<restarted, cached>>
  /\ Quit(c)
  /\ UNCHANGED <<status, overdue, approver, activated, started, runtime, task,
                 crashes>>

-----------------------------------------------------------------------------
(* The rest of the world.                                                   *)

\* A client reads the model_elevation_* events some time after their writes: it
\* is left with the row, with an earlier active one, or with none.
EventRows(l) ==
  {NoRow, CachedRow(l, status)}
    \cup (IF l \in activated THEN {Row(l, "active")} ELSE {})

Sync(c) ==
  /\ \E l \in Leases : \E row \in EventRows(l) : cached' = [cached EXCEPT ![c] = row]
  /\ UNCHANGED <<table, runtime, task, rec, crashes>>

Elapse(l) ==
  /\ status[l] \in {"approved", "active"}
  /\ overdue' = overdue \cup {l}
  /\ UNCHANGED <<status, approver, activated, started, restarted, runtime, task,
                 rec, cached, crashes>>

Observed(w) == work' = w /\ after' = activated /\ UNCHANGED profile

StartTurn ==
  /\ work # "turn" /\ turns < MaxTurns
  /\ turns' = turns + 1 /\ Observed("turn")
  /\ UNCHANGED <<table, task, rec, cached, crashes>>

EndTurn ==
  /\ work = "turn"
  /\ \E w \in {"ready", "complete"} : Observed(w)
  /\ UNCHANGED <<table, turns, task, rec, cached, crashes>>

Crash(c) ==
  /\ crashes < MaxCrashes /\ crashes' = crashes + 1
  /\ task'   = [task EXCEPT ![c] = Idle]
  /\ rec'    = [rec EXCEPT ![c] = RecIdle]
  /\ cached' = [cached EXCEPT ![c] = NoRow]
  /\ UNCHANGED <<table, runtime>>

ElevationTask(c) ==
  \/ Prepare(c) \/ Cancel(c) \/ Request(c) \/ Approve(c) \/ Activate(c)
  \/ Restart(c) \/ Fail(c) \/ Associate(c)

ReconcileTask(c) ==
  \/ Observe(c) \/ ReconcileEvent(c) \/ ReconcileStatus(c) \/ NoteTurn(c)
  \/ Revert(c) \/ FinishReverted(c) \/ RestartPrior(c) \/ RecordRestart(c)

Next ==
  \/ \E c \in Clients : ElevationTask(c) \/ ReconcileTask(c) \/ Sync(c) \/ Crash(c)
  \/ \E l \in Leases : DecideElsewhere(l) \/ Elapse(l)
  \/ RestartPlain \/ StartTurn \/ EndTurn

Spec == Init /\ [][Next]_vars

(* What the code schedules by itself: a running client reads the events,     *)
(* reconciles with them and takes that task to its end.  Nobody has to       *)
(* elevate, and nobody has to die.                                           *)
Fairness ==
  \A c \in Clients :
    /\ WF_vars(Sync(c)) /\ WF_vars(Observe(c))
    /\ WF_vars(ReconcileEvent(c) \/ ReconcileStatus(c))
    /\ WF_vars(NoteTurn(c)) /\ WF_vars(Revert(c)) /\ WF_vars(FinishReverted(c))
    /\ WF_vars(RestartPrior(c)) /\ WF_vars(RecordRestart(c))
    /\ WF_vars(Activate(c)) /\ WF_vars(Restart(c)) /\ WF_vars(Fail(c))
    /\ WF_vars(Associate(c))

FairSpec == Spec /\ Fairness

\* The leases are listed only when an operator selects the agent, so this is
\* an assumption about the operator, who keeps coming back to the agent.
OperatorReturns == \A c \in Clients : SF_vars(ReconcileStatus(c))

AttendedSpec == FairSpec /\ OperatorReturns

-----------------------------------------------------------------------------
\* One agent never has two open leases, whatever clients ask at the same time
\* and whatever expires between a client's preflight and its request.
OneOpenLease == Cardinality(OpenOf(status)) <= 1

\* No lease is approved, used or given back that its own agent approved.
ApprovedByPerson ==
  \A l \in Leases :
    status[l] \in {"approved", "active", "revert_pending"} \/ l \in activated
      => approver[l] = "user"

Rank(s) == CASE s = "none" -> 0 [] s = "pending" -> 1 [] s = "approved" -> 2
             [] s = "active" -> 3 [] s = "revert_pending" -> 4
             [] s \in Terminal -> 5

\* A lease only moves forward: a slow client's decision, activation or revert
\* reopens no closed lease and reactivates none that is to be given back.
LeaseMovesForward ==
  [][\A l \in Leases :
       status'[l] # status[l] => Rank(status[l]) <= Rank(status'[l])]_vars

\* A client that closes a lease or restarts the runtime to bring it back does
\* so only once the lease is no longer active, however old the row it acts on.
DownOnlyWhenPending ==
  \A c \in Clients :
    rec[c].pc \in {"finish", "restart", "record"} =>
      status[rec[c].lease] \in {"revert_pending"} \cup Terminal

\* An elevation that has not expired is not given back before the runtime was
\* observed under it and worked: an idle respawned runtime, or the completion
\* of an earlier task seen late, does not use it up.
NotReturnedUnused ==
  [][\A l \in Leases :
       status[l] = "active" /\ status'[l] = "revert_pending" =>
         l \in overdue \/ (l \in after /\ turns > 0)]_vars

-----------------------------------------------------------------------------
(* What a client kept of the table or of the runtime may be old, but it is  *)
(* never ahead: NeverAhead is the inductive invariant behind the properties *)
(* above.                                                                   *)
GivenBack(l) == l \in Leases /\ status[l] \in {"revert_pending"} \cup Terminal

NeverAheadOfTable ==
  /\ \A l \in Leases : status[l] = "active" => l \in activated
  /\ \A c \in Clients :
       /\ cached[c].status = "revert_pending" => GivenBack(cached[c].lease)
       /\ rec[c].pc \in {"finish", "restart", "record"} => GivenBack(rec[c].lease)
       /\ task[c].pc \notin {"idle", "modal"} => task[c].lease \in Leases
       /\ task[c].pc \in {"restart", "associate", "fail"} => task[c].lease \in activated

NeverAheadOfRuntime ==
  /\ work # "ready" => turns > 0
  /\ \A c \in Clients :
       /\ rec[c].snap.after \subseteq after
       /\ rec[c].snap.turn <= turns
       /\ rec[c].snap.work = "complete" => turns > 0
       /\ rec[c].pc \in {"note", "revert"} => rec[c].lease \in after
       /\ rec[c].pc = "revert" => turns > 0

\* A client only closes a lease it may close, restarts for a lease that was
\* activated, and gives back one the runtime was seen to work under.
NeverAhead == NeverAheadOfTable /\ NeverAheadOfRuntime

-----------------------------------------------------------------------------
\* A lease whose time is over does not stay approved or active as long as an
\* operator keeps coming back to the agent: every listing expires it.
OverdueEnds ==
  \A l \in Leases : l \in overdue ~> status[l] \notin {"approved", "active"}

\* docs/wiki/Models-Profiles-and-Codex.md, "One-task completion and lease expiry
\* move an active lease to revert_pending": expiry does, with nobody's help.
ExpiryReturns ==
  \A l \in Leases : status[l] = "active" /\ l \in overdue ~> status[l] # "active"

\* A lease to be given back is closed once the runtime stays on the prior
\* profile, whichever client, event or restart brought it there.
ReturnedCloses ==
  \A l \in Leases : []<>~(status[l] = "revert_pending" /\ profile = "prior")

\* docs/wiki/Models-Profiles-and-Codex.md, "An elevated Sol max profile
\* requires a human-approved justification and a bounded lease".
ElevatedIsCovered == profile = "elevated" => OpenOf(status) # {}

\* The same page, "repeated input cannot open a second approval or restart an
\* already elevated runtime".
NoSecondRestart ==
  [][\A c \in Clients :
       task[c].pc = "restart" /\ task'[c].pc = "associate" => profile # "elevated"]_vars

\* The same page, "One-task completion and lease expiry move an active lease to
\* revert_pending; they do not interrupt a running turn".
NoTurnInterrupted ==
  [][\A c \in Clients :
       rec[c].pc = "restart" /\ rec'[c].pc = "record" => work # "turn"]_vars
=============================================================================
