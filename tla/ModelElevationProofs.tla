----------------------- MODULE ModelElevationProofs -----------------------
(***************************************************************************)
(* Safety of ModelElevation, for every set of leases and TUI processes and *)
(* all bounds.  LeaseStep says how one step may move a lease, in terms of  *)
(* the table alone; every action is shown to be such a step, to be given   *)
(* good values by its client, and so to keep the invariant.                *)
(***************************************************************************)
EXTENDS ModelElevation, FiniteSetTheorems, TLAPS

Statuses   == Open \cup Terminal \cup {"none"}
BackOf(st) == {l \in Leases : st[l] \in {"revert_pending"} \cup Terminal}

TableOK ==
  /\ status \in [Leases -> Statuses]
  /\ overdue \subseteq Leases /\ activated \subseteq Leases
  /\ restarted \subseteq Leases /\ started \in [Leases -> 0..MaxTurns]
  /\ approver \in [Leases -> People \cup {"none"}]
  /\ \A l \in Leases : status[l] = "active" => l \in activated

RuntimeOK ==
  /\ profile \in {"prior", "elevated"} /\ work \in {"ready", "turn", "complete"}
  /\ turns \in 0..MaxTurns /\ after \subseteq activated
  /\ work # "ready" => turns > 0

GoodRow(r, st) ==
  r \in RowsKept /\ (r.status = "revert_pending" => r.lease \in BackOf(st))

GoodTask(t, act) ==
  /\ t \in Tasks
  /\ t.pc \notin {"idle", "modal"} => t.lease \in Leases
  /\ t.pc \in {"restart", "associate", "fail"} => t.lease \in act

GoodRec(r, st, aft, n) ==
  /\ r \in Recs
  /\ r.pc \in {"finish", "restart", "record"} => r.lease \in BackOf(st)
  /\ r.snap.after \subseteq aft
  /\ r.snap.turn <= n
  /\ r.snap.work = "complete" => n > 0
  /\ r.pc \in {"note", "revert"} => r.lease \in aft
  /\ r.pc = "revert" => n > 0

ClientsOK ==
  /\ task \in [Clients -> Tasks] /\ rec \in [Clients -> Recs]
  /\ cached \in [Clients -> RowsKept]
  /\ \A c \in Clients :
       /\ GoodTask(task[c], activated) /\ GoodRow(cached[c], status)
       /\ GoodRec(rec[c], status, after, turns)

IInv == TypeOK /\ ApprovedByPerson /\ NeverAhead

-----------------------------------------------------------------------------
(* What one step may do to a lease.                                         *)

MovesTo(l, s) ==
  \/ s = status[l]
  \/ status[l] = "none" /\ s = "pending"
  \/ status[l] = "pending" /\ s \in {"approved", "rejected"}
  \/ status[l] = "approved" /\ s \in {"active", "expired"}
  \/ /\ status[l] = "active" /\ s = "revert_pending"
     /\ l \in overdue \/ (l \in after /\ turns > 0)
  \/ s \in {"failed", "reverted"}

LeaseStep ==
  \A l \in Leases :
    /\ MovesTo(l, status'[l])
    /\ status[l] = "pending" /\ status'[l] = "approved" => approver'[l] = "user"
    /\ status[l] = "none" /\ status'[l] = "pending" =>
         \A k \in Leases : status'[k] \in Open => k = l
    /\ approver'[l] = approver[l] \/ approver'[l] = "user"
    /\ l \in activated' => l \in activated \/ status[l] = "approved"

Advance ==
  /\ TableOK' /\ RuntimeOK' /\ LeaseStep
  /\ after \subseteq after' /\ activated \subseteq activated' /\ turns <= turns'
  /\ crashes' \in 0..MaxCrashes

TaskSet == \E c \in Clients : \E t \in Tasks :
             GoodTask(t, activated') /\ task' = [task EXCEPT ![c] = t]
RowSet  == \E c \in Clients : \E r \in RowsKept :
             GoodRow(r, status') /\ cached' = [cached EXCEPT ![c] = r]
RecSet  == \E c \in Clients : \E r \in Recs :
             GoodRec(r, status', after', turns') /\ rec' = [rec EXCEPT ![c] = r]

-----------------------------------------------------------------------------
LEMMA Parts ==
  IInv <=> /\ TableOK /\ RuntimeOK /\ ClientsOK /\ crashes \in 0..MaxCrashes
           /\ ApprovedByPerson
  BY DEF IInv, TypeOK, Statuses, NeverAhead, NeverAheadOfTable, NeverAheadOfRuntime,
     GivenBack, BackOf, TableOK, RuntimeOK, ClientsOK, GoodRow, GoodTask, GoodRec

LEMMA BackStays ==
  ASSUME TableOK, LeaseStep
  PROVE  BackOf(status) \subseteq BackOf(status')
  BY DEF LeaseStep, MovesTo, BackOf, TableOK, Statuses, Terminal, Open

LEMMA PersonStays ==
  ASSUME TableOK, LeaseStep, ApprovedByPerson
  PROVE  ApprovedByPerson'
  BY DEF LeaseStep, MovesTo, ApprovedByPerson, TableOK, Statuses, Terminal, Open

LEMMA Assemble ==
  ASSUME IInv, Advance, task' = task \/ TaskSet, cached' = cached \/ RowSet,
         rec' = rec \/ RecSet
  PROVE  IInv'
<1>1. /\ TableOK /\ RuntimeOK /\ ClientsOK /\ ApprovedByPerson
  BY Parts
<1>2. BackOf(status) \subseteq BackOf(status') /\ ApprovedByPerson'
  BY <1>1, BackStays, PersonStays DEF Advance
<1>3. /\ task' \in [Clients -> Tasks]
      /\ \A c \in Clients : GoodTask(task'[c], activated')
  <2>1. \A c \in Clients : GoodTask(task[c], activated')
    BY <1>1 DEF ClientsOK, GoodTask, Advance
  <2>2. CASE task' = task
    BY <1>1, <2>1, <2>2 DEF ClientsOK
  <2>3. CASE TaskSet
    BY <1>1, <2>1, <2>3 DEF ClientsOK, TaskSet
  <2> QED BY <2>2, <2>3
<1>4. /\ cached' \in [Clients -> RowsKept]
      /\ \A c \in Clients : GoodRow(cached'[c], status')
  <2>1. \A c \in Clients : GoodRow(cached[c], status')
    BY <1>1, <1>2 DEF ClientsOK, GoodRow
  <2>2. CASE cached' = cached
    BY <1>1, <2>1, <2>2 DEF ClientsOK
  <2>3. CASE RowSet
    BY <1>1, <2>1, <2>3 DEF ClientsOK, RowSet
  <2> QED BY <2>2, <2>3
<1>5. /\ rec' \in [Clients -> Recs]
      /\ \A c \in Clients : GoodRec(rec'[c], status', after', turns')
  <2>1. \A c \in Clients : GoodRec(rec[c], status', after', turns')
    <3> SUFFICES ASSUME NEW c \in Clients
                 PROVE  GoodRec(rec[c], status', after', turns')
      OBVIOUS
    <3>1. GoodRec(rec[c], status, after, turns) /\ rec[c].snap.turn \in Nat
      BY <1>1 DEF ClientsOK, GoodRec, Recs, Snaps
    <3>2. turns \in Nat /\ turns' \in Nat /\ turns <= turns' /\ after \subseteq after'
      BY <1>1 DEF Advance, RuntimeOK
    <3> QED BY <1>2, <3>1, <3>2 DEF GoodRec
  <2>2. CASE rec' = rec
    BY <1>1, <2>1, <2>2 DEF ClientsOK
  <2>3. CASE RecSet
    BY <1>1, <2>1, <2>3 DEF ClientsOK, RecSet
  <2> QED BY <2>2, <2>3
<1>6. ClientsOK'
  BY <1>3, <1>4, <1>5 DEF ClientsOK
<1> QED
  <2>1. TableOK' /\ RuntimeOK' /\ (crashes \in 0..MaxCrashes)'
    BY DEF Advance
  <2> QED BY <1>2, <1>6, <2>1, Parts, PTL

-----------------------------------------------------------------------------
(* What the model's operators return.                                       *)

LEMMA RowValue ==
  ASSUME TableOK, NEW l \in Leases,
         NEW s \in {"none", "active", "revert_pending"}
  PROVE  /\ Row(l, s) \in RowsKept
         /\ Row(l, s).lease = l /\ Row(l, s).status = s
<1>1. started[l] \in 0..MaxTurns /\ 0 \in 0..MaxTurns
  BY BoundsAssumption DEF TableOK
<1> QED BY <1>1 DEF Row, RowsKept

LEMMA NoRowValue == NoRow \in RowsKept /\ NoRow.status = "none"
  BY BoundsAssumption DEF NoRow, RowsKept

LEMMA CachedRowValue ==
  ASSUME TableOK, NEW l \in Leases, NEW st \in [Leases -> Statuses]
  PROVE  GoodRow(CachedRow(l, st), st)
<1>1. CASE st[l] \in {"active", "revert_pending"}
  <2>1. CachedRow(l, st) = Row(l, st[l])
    BY <1>1 DEF CachedRow
  <2> QED BY <1>1, <2>1, RowValue DEF GoodRow, BackOf
<1>2. CASE st[l] \notin {"active", "revert_pending"}
  <2>1. CachedRow(l, st) = NoRow
    BY <1>2 DEF CachedRow
  <2> QED BY <2>1, NoRowValue DEF GoodRow
<1> QED BY <1>1, <1>2

LEMMA OpenRowValue ==
  ASSUME TableOK, NEW st \in [Leases -> Statuses]
  PROVE  GoodRow(OpenRow(st), st)
<1>1. CASE OpenOf(st) = {}
  BY <1>1, NoRowValue DEF OpenRow, GoodRow
<1>2. CASE OpenOf(st) # {}
  <2>1. (CHOOSE l \in OpenOf(st) : TRUE) \in Leases
    BY <1>2 DEF OpenOf
  <2>2. OpenRow(st) = CachedRow(CHOOSE l \in OpenOf(st) : TRUE, st)
    BY <1>2 DEF OpenRow
  <2> QED BY <2>1, <2>2, CachedRowValue
<1> QED BY <1>1, <1>2

LEMMA ExpiredValue ==
  ASSUME TableOK
  PROVE  /\ Expired \in [Leases -> Statuses]
         /\ \A l \in Leases :
              \/ Expired[l] = status[l]
              \/ status[l] = "approved" /\ Expired[l] = "expired"
              \/ status[l] = "active" /\ Expired[l] = "revert_pending" /\ l \in overdue
  BY DEF TableOK, Expired, Statuses, Open, Terminal

LEMMA StepOfPendingValue ==
  ASSUME NEW row, NEW snap
  PROVE  StepOfPending(row, snap) \in {"finish", "restart", "idle"}
  BY DEF StepOfPending

\* A client goes down only on a row that is to be given back, and asks for that
\* only on a snapshot of work under the lease.
LEMMA StepOfValue ==
  ASSUME NEW row \in RowsKept, NEW snap \in Snaps
  PROVE  /\ StepOf(row, snap) \in {"idle", "note", "revert", "finish", "restart"}
         /\ StepOf(row, snap) \in {"finish", "restart"} => row.status = "revert_pending"
         /\ StepOf(row, snap) \in {"note", "revert"} => row.lease \in snap.after
         /\ StepOf(row, snap) = "revert" => snap.work = "complete" \/ snap.turn > 0
<1>1. snap.turn \in Nat
  BY DEF Snaps
<1>2. row.started \in Nat
  BY DEF RowsKept
<1>3. CASE ~PriorKnown
  BY <1>3, PriorKnownAssumption DEF StepOf
<1>4. CASE PriorKnown /\ row.status = "active" /\ snap.work = "turn"
  BY <1>4, PriorKnownAssumption DEF StepOf
<1>5. CASE PriorKnown /\ row.status = "active" /\ snap.work # "turn"
  BY <1>1, <1>2, <1>5 DEF StepOf, SafePoint
<1>6. CASE PriorKnown /\ row.status = "revert_pending"
  BY <1>6, StepOfPendingValue DEF StepOf
<1>7. CASE PriorKnown /\ row.status \notin {"active", "revert_pending"}
  BY <1>7 DEF StepOf
<1> QED BY <1>3, <1>4, <1>5, <1>6, <1>7

-----------------------------------------------------------------------------
(* What a client is left with after a step.                                 *)

LEMMA GotoGood ==
  ASSUME NEW c \in Clients,
         NEW pc \in {"idle", "modal", "asked", "activate", "restart", "associate", "fail"},
         NEW l \in Leases \cup {NoLease}, Goto(c, pc, l),
         pc \notin {"idle", "modal"} => l \in Leases,
         pc \in {"restart", "associate", "fail"} => l \in activated'
  PROVE  TaskSet
<1> DEFINE t == [pc |-> pc, lease |-> l]
<1>1. t \in Tasks /\ t.pc = pc /\ t.lease = l
  BY DEF Tasks
<1>2. GoodTask(t, activated')
  BY <1>1 DEF GoodTask
<1> QED BY <1>1, <1>2 DEF Goto, TaskSet

LEMMA StopGood == ASSUME NEW c \in Clients, Stop(c) PROVE TaskSet
<1>1. Goto(c, "idle", NoLease)
  BY DEF Stop
<1> QED BY <1>1, GotoGood

LEMMA RowGood ==
  ASSUME NEW c \in Clients, NEW r, GoodRow(r, status'),
         cached' = [cached EXCEPT ![c] = r]
  PROVE  RowSet
  BY DEF RowSet, GoodRow

LEMMA ContinueGood ==
  ASSUME IInv, Advance, NEW c \in Clients, NEW l \in Leases \cup {NoLease},
         NEW step \in {"idle", "note", "revert", "finish", "restart", "record"},
         step \in {"finish", "restart", "record"} => l \in BackOf(status'),
         step \in {"note", "revert"} => l \in after', step = "revert" => turns' > 0,
         Continue(c, step, l)
  PROVE  RecSet
<1> DEFINE s == IF step \in {"note", "revert"} THEN rec[c].snap ELSE NoSnap
           r == IF step = "idle" THEN RecIdle ELSE [pc |-> step, lease |-> l, snap |-> s]
<1>1. /\ NoSnap \in Snaps /\ NoSnap.after = {} /\ NoSnap.turn = 0
      /\ NoSnap.work = "ready"
  BY BoundsAssumption DEF NoSnap, Snaps
<1>2. /\ rec[c].snap \in Snaps /\ rec[c].snap.after \subseteq after
      /\ rec[c].snap.turn <= turns /\ (rec[c].snap.work = "complete" => turns > 0)
  BY Parts DEF ClientsOK, GoodRec, Recs
<1>3. rec[c].snap.turn \in Nat
  BY <1>2 DEF Snaps
<1>4. turns \in Nat /\ turns' \in Nat /\ turns <= turns' /\ after \subseteq after'
  BY Parts DEF Advance, RuntimeOK
<1>5. /\ s \in Snaps /\ s.after \subseteq after' /\ s.turn <= turns'
      /\ s.work = "complete" => turns' > 0
  BY <1>1, <1>2, <1>3, <1>4
<1>6. r \in Recs /\ GoodRec(r, status', after', turns')
  <2>1. CASE step = "idle"
    BY <1>1, <1>4, <2>1 DEF RecIdle, Recs, GoodRec
  <2>2. CASE step # "idle"
    <3>1. r = [pc |-> step, lease |-> l, snap |-> s]
      BY <2>2
    <3>2. r.pc = step /\ r.lease = l /\ r.snap = s /\ r \in Recs
      BY <1>5, <2>2, <3>1 DEF Recs
    <3> HIDE DEF r, s
    <3> QED BY <1>5, <3>2 DEF GoodRec
  <2> QED BY <2>1, <2>2
<1>7. rec' = [rec EXCEPT ![c] = r]
  BY DEF Continue
<1> HIDE DEF r
<1> QED BY <1>6, <1>7 DEF RecSet

LEMMA QuitGood ==
  ASSUME IInv, Advance, NEW c \in Clients, Quit(c) PROVE RecSet
<1>1. Continue(c, "idle", NoLease)
  BY DEF Quit
<1> QED BY <1>1, ContinueGood

-----------------------------------------------------------------------------
(* The ways to advance the table and the runtime.                           *)

LEMMA LeaseStepStill ==
  ASSUME UNCHANGED table PROVE LeaseStep
  BY DEF table, LeaseStep, MovesTo

LEMMA TableStill ==
  ASSUME TableOK, UNCHANGED table PROVE TableOK'
  BY DEF table, TableOK

LEMMA AdvanceTable ==
  ASSUME IInv, TableOK', LeaseStep, activated \subseteq activated',
         UNCHANGED <<runtime, crashes>>
  PROVE  Advance
<1>1. RuntimeOK /\ crashes \in 0..MaxCrashes
  BY Parts
<1>2. /\ profile' = profile /\ work' = work /\ turns' = turns /\ after' = after
      /\ crashes' = crashes
  BY DEF runtime
<1>3. RuntimeOK' /\ turns <= turns'
  BY <1>1, <1>2 DEF RuntimeOK
<1> QED BY <1>1, <1>2, <1>3 DEF Advance

LEMMA AdvanceRuntime ==
  ASSUME IInv, UNCHANGED table, RuntimeOK', after \subseteq after', turns <= turns',
         crashes' \in 0..MaxCrashes
  PROVE  Advance
<1>1. TableOK' /\ LeaseStep /\ activated' = activated
  BY Parts, LeaseStepStill, TableStill DEF table
<1> QED BY <1>1 DEF Advance

LEMMA AdvanceStill ==
  ASSUME IInv, UNCHANGED <<table, runtime, crashes>>
  PROVE  Advance
<1>1. TableOK' /\ LeaseStep /\ activated' = activated
  BY Parts, LeaseStepStill, TableStill DEF table
<1> QED BY <1>1, AdvanceTable

LEMMA RespawnedAdvances ==
  ASSUME IInv, NEW p \in {"prior", "elevated"}, Respawned(p), UNCHANGED <<table, crashes>>
  PROVE  Advance
<1>1. RuntimeOK /\ crashes' \in 0..MaxCrashes /\ activated' = activated
  BY Parts DEF table
<1>2. RuntimeOK' /\ after \subseteq after' /\ turns <= turns'
  BY <1>1 DEF RuntimeOK, Respawned
<1> QED BY <1>1, <1>2, AdvanceRuntime

LEMMA RelaunchedAdvances ==
  ASSUME IInv, NEW p \in {"prior", "elevated"}, Relaunched(p), UNCHANGED <<table, crashes>>
  PROVE  Advance
<1>1. profile \in {"prior", "elevated"}
  BY Parts DEF RuntimeOK
<1> QED BY <1>1, RespawnedAdvances DEF Relaunched

LEMMA ExpiredAdvances ==
  ASSUME IInv, status' = Expired,
         UNCHANGED <<overdue, approver, activated, started, restarted, runtime, crashes>>
  PROVE  Advance
<1>1. TableOK
  BY Parts
<1>2. TableOK' /\ LeaseStep
  BY <1>1, ExpiredValue DEF TableOK, LeaseStep, MovesTo
<1> QED BY <1>2, AdvanceTable

\* finish_model_elevation closes a lease whatever its status is.
LEMMA FinishAdvances ==
  ASSUME IInv, NEW l, NEW s \in {"failed", "reverted"}, Finish(l, s),
         UNCHANGED <<overdue, approver, activated, started, restarted, runtime, crashes>>
  PROVE  Advance
<1>1. TableOK
  BY Parts
<1>2. status' = [status EXCEPT ![l] = s]
  BY DEF Finish
<1>3. TableOK'
  BY <1>1, <1>2 DEF TableOK, Statuses, Terminal
<1>4. \A k \in Leases : status'[k] \in {status[k], s}
  BY <1>1, <1>2 DEF TableOK
<1>5. LeaseStep
  BY <1>4 DEF LeaseStep, MovesTo
<1> QED BY <1>3, <1>5, AdvanceTable

LEMMA DecideAdvances ==
  ASSUME IInv, NEW l \in Leases, NEW who \in People, Decide(l, who),
         UNCHANGED <<overdue, activated, started, restarted, runtime, crashes>>
  PROVE  Advance
<1>1. TableOK
  BY Parts
<1>2. who = "user" /\ status[l] = "pending"
  BY DEF Decide, MayApprove, People
<1>3. TableOK' /\ LeaseStep
  BY <1>1, <1>2 DEF Decide, TableOK, Statuses, Open, People, LeaseStep, MovesTo
<1> QED BY <1>3, AdvanceTable

-----------------------------------------------------------------------------
(* A client's way up.                                                       *)

LEMMA PrepareKeeps ==
  ASSUME IInv, NEW c \in Clients, Prepare(c) PROVE Advance /\ IInv'
<1>1. Advance
  BY ExpiredAdvances DEF Prepare
<1>2. RowSet
  <2>1. status' \in [Leases -> Statuses]
    BY <1>1 DEF Advance, TableOK
  <2>2. GoodRow(OpenRow(status'), status')
    BY <2>1, Parts, OpenRowValue
  <2> QED BY <2>2, RowGood DEF Prepare
<1>3. task' = task \/ TaskSet
  BY GotoGood DEF Prepare
<1> QED BY <1>1, <1>2, <1>3, Assemble DEF Prepare

LEMMA CancelKeeps ==
  ASSUME IInv, NEW c \in Clients, Cancel(c) PROVE Advance /\ IInv'
<1>1. Advance
  BY AdvanceStill DEF Cancel
<1> QED BY <1>1, StopGood, Assemble DEF Cancel

\* A new lease is inserted only where the table has no open one.
LEMMA RequestKeeps ==
  ASSUME IInv, NEW c \in Clients, Request(c) PROVE Advance /\ IInv'
<1>1. TableOK
  BY Parts
<1>2. PICK l \in Leases :
        /\ \/ l \in Reusable(Expired) /\ status' = Expired
           \/ /\ Reusable(Expired) = {} /\ status[l] = "none"
              /\ status' = [Expired EXCEPT ![l] = "pending"]
        /\ CASE status'[l] = "pending"  -> Goto(c, "asked", l)
             [] status'[l] = "approved" -> Goto(c, "activate", l)
             [] OTHER                   -> Stop(c)
        /\ cached' = IF status'[l] = "active"
                     THEN [cached EXCEPT ![c] = CachedRow(l, status')] ELSE cached
  BY DEF Request
<1>3. Advance
  <2>1. CASE status' = Expired
    BY <2>1, ExpiredAdvances DEF Request
  <2>2. CASE /\ Reusable(Expired) = {} /\ status[l] = "none"
             /\ status' = [Expired EXCEPT ![l] = "pending"]
    <3>1. status' \in [Leases -> Statuses]
      BY <1>1, <2>2, ExpiredValue DEF Statuses, Open
    <3>2. TableOK'
      <4>1. \A k \in Leases : status'[k] = "active" => status[k] = "active"
        BY <1>1, <2>2, ExpiredValue
      <4> QED BY <1>1, <3>1, <4>1 DEF TableOK, Request
    <3>3. \A k \in Leases : status'[k] \in Open => k = l
      BY <1>1, <2>2, ExpiredValue DEF Reusable, OpenOf
    <3>4. \A k \in Leases : MovesTo(k, status'[k])
      BY <1>1, <2>2, ExpiredValue DEF MovesTo
    <3>5. \A k \in Leases : k # l /\ status[k] = "none" => status'[k] = "none"
      BY <1>1, <2>2, ExpiredValue
    <3>6. \A k \in Leases : status[k] = "pending" => status'[k] = "pending"
      BY <1>1, <2>2, ExpiredValue
    <3>7. LeaseStep
      BY <3>3, <3>4, <3>5, <3>6 DEF LeaseStep, Request
    <3> QED BY <3>2, <3>7, AdvanceTable DEF Request
  <2> QED BY <1>2, <2>1, <2>2
<1>4. TaskSet
  BY <1>2, GotoGood, StopGood
<1>5. cached' = cached \/ RowSet
  <2>1. GoodRow(CachedRow(l, status'), status')
    BY <1>1, <1>3, CachedRowValue DEF Advance, TableOK
  <2> QED BY <1>2, <2>1, RowGood
<1> QED BY <1>3, <1>4, <1>5, Assemble DEF Request

LEMMA ApproveKeeps ==
  ASSUME IInv, NEW c \in Clients, Approve(c) PROVE Advance /\ IInv'
<1> DEFINE l == task[c].lease
<1>1. l \in Leases
  BY Parts DEF ClientsOK, GoodTask, Approve
<1>2. CASE Decide(l, "user") /\ Goto(c, "activate", l)
  <2>1. Advance
    BY <1>1, <1>2, DecideAdvances DEF Approve, People
  <2>2. TaskSet
    BY <1>1, <1>2, GotoGood
  <2> QED BY <2>1, <2>2, Assemble DEF Approve
<1>3. CASE /\ UNCHANGED <<status, approver>>
           /\ Goto(c, "activate", l) \/ Stop(c)
  <2>1. Advance
    BY <1>3, AdvanceStill DEF Approve, table
  <2>2. TaskSet
    BY <1>1, <1>3, GotoGood, StopGood
  <2> QED BY <2>1, <2>2, Assemble DEF Approve
<1> QED BY <1>2, <1>3 DEF Approve

LEMMA DecideElsewhereKeeps ==
  ASSUME IInv, NEW l \in Leases, DecideElsewhere(l) PROVE Advance /\ IInv'
<1>0. /\ UNCHANGED <<overdue, activated, started, restarted, runtime, crashes>>
      /\ UNCHANGED <<task, rec, cached>>
  BY DEF DecideElsewhere
<1>1. ASSUME \E who \in People : Decide(l, who) PROVE Advance
  BY <1>0, <1>1, DecideAdvances
<1>2. ASSUME status[l] = "pending", status' = [status EXCEPT ![l] = "rejected"],
             approver' = [approver EXCEPT ![l] = "user"]
      PROVE  Advance
  <2>1. TableOK
    BY Parts
  <2>2. TableOK' /\ LeaseStep
    BY <1>0, <1>2, <2>1 DEF TableOK, Statuses, Terminal, People, LeaseStep, MovesTo
  <2> QED BY <1>0, <2>2, AdvanceTable
<1>3. Advance
  BY <1>1, <1>2 DEF DecideElsewhere
<1> QED BY <1>0, <1>3, Assemble

LEMMA ActivateKeeps ==
  ASSUME IInv, NEW c \in Clients, Activate(c) PROVE Advance /\ IInv'
<1> DEFINE l == task[c].lease
           reused == status[l] = "active" /\ l \notin overdue
<1>1. l \in Leases /\ TableOK
  BY Parts DEF ClientsOK, GoodTask, Activate
<1>0. /\ UNCHANGED <<overdue, approver, started, restarted, runtime, crashes>>
      /\ UNCHANGED rec
  BY DEF Activate
<1>2. ASSUME Activates(l) PROVE Advance
  <2>1. /\ status' = [status EXCEPT ![l] = "active"] /\ activated' = activated \cup {l}
        /\ status[l] = "approved"
    BY <1>2 DEF Activate, Activates
  <2>2. TableOK' /\ LeaseStep
    BY <1>0, <1>1, <2>1 DEF TableOK, Statuses, Open, LeaseStep, MovesTo
  <2> QED BY <1>0, <2>1, <2>2, AdvanceTable
<1>3. ASSUME UNCHANGED <<status, activated>> PROVE Advance
  BY <1>0, <1>3, AdvanceStill DEF table
<1>4. ASSUME UNCHANGED activated, status' = Expired PROVE Advance
  BY <1>0, <1>4, ExpiredAdvances
<1>5. Advance
  BY <1>2, <1>3, <1>4 DEF Activate
<1>6. CASE Activates(l) \/ reused
  <2>1. cached' = [cached EXCEPT ![c] = CachedRow(l, status')] /\ Goto(c, "restart", l)
    BY <1>6 DEF Activate
  <2>2. l \in activated'
    <3>1. CASE Activates(l)
      BY <3>1 DEF Activate
    <3>2. CASE reused
      BY <1>1, <1>5, <3>2 DEF Advance, TableOK
    <3> QED BY <1>6, <3>1, <3>2
  <2>3. GoodRow(CachedRow(l, status'), status')
    BY <1>1, <1>5, CachedRowValue DEF Advance, TableOK
  <2> QED BY <1>1, <1>5, <2>1, <2>2, <2>3, GotoGood, RowGood, Assemble, <1>0
<1>7. CASE ~(Activates(l) \/ reused)
  <2>1. Stop(c) /\ UNCHANGED cached
    BY <1>7 DEF Activate
  <2> QED BY <1>5, <2>1, StopGood, Assemble, <1>0
<1> QED BY <1>6, <1>7

LEMMA RestartKeeps ==
  ASSUME IInv, NEW c \in Clients, Restart(c) PROVE Advance /\ IInv'
<1> DEFINE l == task[c].lease
<1>1. /\ l \in Leases /\ l \in activated
      /\ UNCHANGED <<table, rec, cached, crashes>>
  BY Parts DEF ClientsOK, GoodTask, Restart
<1>2. PICK pc \in {"associate", "fail"} : Goto(c, pc, l)
  BY DEF Restart
<1>3. Advance
  <2>1. ASSUME Relaunched("elevated") PROVE Advance
    BY <1>1, <2>1, RelaunchedAdvances
  <2>2. ASSUME UNCHANGED runtime PROVE Advance
    BY <1>1, <2>2, AdvanceStill
  <2> QED BY <2>1, <2>2 DEF Restart
<1>4. TaskSet
  BY <1>1, <1>2, GotoGood DEF table
<1> QED BY <1>1, <1>3, <1>4, Assemble

LEMMA FailKeeps ==
  ASSUME IInv, NEW c \in Clients, Fail(c) PROVE Advance /\ IInv'
<1>1. Advance
  BY FinishAdvances DEF Fail
<1>2. RowSet
  BY RowGood, NoRowValue DEF Fail, GoodRow
<1>3. TaskSet /\ rec' = rec
  BY StopGood DEF Fail
<1> QED BY <1>1, <1>2, <1>3, Assemble

LEMMA AssociateKeeps ==
  ASSUME IInv, NEW c \in Clients, Associate(c) PROVE Advance /\ IInv'
<1> DEFINE l == task[c].lease
           r == IF status[l] \in Open THEN CachedRow(l, status) ELSE Row(l, "active")
<1>1. /\ l \in Leases /\ TableOK
      /\ UNCHANGED <<table, runtime, rec, crashes>>
  BY Parts DEF ClientsOK, GoodTask, Associate
<1>2. Advance /\ status' = status /\ rec' = rec
  BY <1>1, AdvanceStill DEF table
<1>3. GoodRow(r, status')
  <2>1. GoodRow(CachedRow(l, status), status)
    BY <1>1, CachedRowValue DEF TableOK
  <2>2. GoodRow(Row(l, "active"), status)
    BY <1>1, RowValue DEF GoodRow
  <2> QED BY <1>2, <2>1, <2>2
<1>4. cached' = [cached EXCEPT ![c] = r] /\ Stop(c)
  BY DEF Associate
<1> HIDE DEF r
<1>5. RowSet /\ TaskSet
  BY <1>3, <1>4, RowGood, StopGood
<1> QED BY <1>2, <1>5, Assemble

LEMMA RestartPlainKeeps ==
  ASSUME IInv, RestartPlain PROVE Advance /\ IInv'
<1>1. Advance
  BY RelaunchedAdvances DEF RestartPlain
<1> QED BY <1>1, Assemble DEF RestartPlain

-----------------------------------------------------------------------------
(* A client's way down.                                                     *)

LEMMA ObserveKeeps ==
  ASSUME IInv, NEW c \in Clients, Observe(c) PROVE Advance /\ IInv'
<1> DEFINE r == [pc |-> "seen", lease |-> NoLease, snap |-> Snap]
<1>1. Advance
  BY AdvanceStill DEF Observe
<1>2. RuntimeOK /\ activated \subseteq Leases
  BY Parts DEF TableOK
<1>3. /\ Snap \in Snaps /\ Snap.after = after /\ Snap.turn = turns
      /\ Snap.work = work
  BY <1>2 DEF RuntimeOK, Snap, Snaps
<1>4. /\ r \in Recs /\ r.pc = "seen" /\ r.snap = Snap
  BY <1>3 DEF Recs
<1>5. after' = after /\ turns' = turns /\ turns \in Nat
  BY <1>2 DEF Observe, runtime, RuntimeOK
<1>6. GoodRec(r, status', after', turns')
  BY <1>2, <1>3, <1>4, <1>5 DEF GoodRec, RuntimeOK
<1>7. rec' = [rec EXCEPT ![c] = r]
  BY DEF Observe
<1> HIDE DEF r
<1>8. RecSet
  BY <1>4, <1>6, <1>7 DEF RecSet
<1> QED BY <1>1, <1>8, Assemble DEF Observe

\* What a client decides on a row and a snapshot it may have.
LEMMA DecidedGood ==
  ASSUME IInv, Advance, NEW c \in Clients, NEW row \in RowsKept, GoodRow(row, status'),
         Continue(c, StepOf(row, rec[c].snap), row.lease)
  PROVE  RecSet
<1> DEFINE snap == rec[c].snap  step == StepOf(row, snap)
<1>1. /\ snap \in Snaps /\ snap.after \subseteq after /\ snap.turn <= turns
      /\ snap.work = "complete" => turns > 0
  BY Parts DEF ClientsOK, GoodRec, Recs
<1>2. /\ snap.turn \in Nat /\ turns \in Nat /\ turns' \in Nat /\ turns <= turns'
      /\ after \subseteq after'
  BY <1>1, Parts DEF Advance, RuntimeOK, Snaps
<1>3. /\ step \in {"idle", "note", "revert", "finish", "restart"}
      /\ step \in {"finish", "restart"} => row.lease \in BackOf(status')
      /\ step \in {"note", "revert"} => row.lease \in after'
      /\ step = "revert" => turns' > 0
  BY <1>1, <1>2, StepOfValue DEF GoodRow
<1>4. row.lease \in Leases \cup {NoLease}
  BY DEF RowsKept
<1>5. Continue(c, step, row.lease)
  OBVIOUS
<1> HIDE DEF step
<1> QED BY <1>3, <1>4, <1>5, ContinueGood

LEMMA ReconcileEventKeeps ==
  ASSUME IInv, NEW c \in Clients, ReconcileEvent(c) PROVE Advance /\ IInv'
<1>1. Advance /\ status' = status
  BY AdvanceStill DEF ReconcileEvent, table
<1>2. cached[c] \in RowsKept /\ GoodRow(cached[c], status')
  BY <1>1, Parts DEF ClientsOK
<1>3. RecSet
  BY <1>1, <1>2, DecidedGood DEF ReconcileEvent
<1> QED BY <1>1, <1>3, Assemble DEF ReconcileEvent

LEMMA ReconcileStatusKeeps ==
  ASSUME IInv, NEW c \in Clients, ReconcileStatus(c) PROVE Advance /\ IInv'
<1>1. /\ status' = Expired /\ cached' = [cached EXCEPT ![c] = OpenRow(Expired)]
      /\ Continue(c, StepOf(OpenRow(Expired), rec[c].snap), OpenRow(Expired).lease)
      /\ UNCHANGED <<overdue, approver, activated, started, restarted, runtime, task,
                     crashes>>
  BY DEF ReconcileStatus
<1>2. Advance
  BY <1>1, ExpiredAdvances
<1>3. OpenRow(Expired) \in RowsKept /\ GoodRow(OpenRow(Expired), status')
  BY <1>1, Parts, ExpiredValue, OpenRowValue DEF GoodRow
<1>4. RowSet /\ RecSet
  BY <1>1, <1>2, <1>3, RowGood, DecidedGood
<1> QED BY <1>1, <1>2, <1>4, Assemble

LEMMA NoteTurnKeeps ==
  ASSUME IInv, NEW c \in Clients, NoteTurn(c) PROVE Advance /\ IInv'
<1> DEFINE l == rec[c].lease  n == rec[c].snap.turn
           r == [CachedRow(l, status) EXCEPT !.started = IF status[l] = "active" THEN n ELSE 0]
<1>0. /\ UNCHANGED <<status, overdue, approver, activated, restarted, runtime, task,
                     crashes>>
      /\ Quit(c)
      /\ \/ started' = [started EXCEPT ![l] = n] /\ cached' = [cached EXCEPT ![c] = r]
         \/ UNCHANGED <<started, cached>>
  BY DEF NoteTurn
<1>1. /\ TableOK /\ after \subseteq activated
      /\ l \in after /\ n \in 0..MaxTurns
  BY Parts DEF ClientsOK, GoodRec, Recs, Snaps, RuntimeOK, NoteTurn
<1>2. l \in Leases
  BY <1>1 DEF TableOK
<1>3. Advance
  <2>1. TableOK'
    BY <1>0, <1>1 DEF TableOK
  <2>2. LeaseStep
    BY <1>0 DEF LeaseStep, MovesTo
  <2> QED BY <1>0, <2>1, <2>2, AdvanceTable
<1>4. GoodRow(r, status')
  <2>1. CachedRow(l, status) \in RowsKept /\ GoodRow(CachedRow(l, status), status)
    BY <1>1, <1>2, CachedRowValue DEF TableOK, GoodRow
  <2>2. /\ r \in RowsKept /\ r.status = CachedRow(l, status).status
        /\ r.lease = CachedRow(l, status).lease
    BY <1>1, <2>1, BoundsAssumption DEF RowsKept
  <2> HIDE DEF r
  <2> QED BY <1>0, <2>1, <2>2 DEF GoodRow
<1> HIDE DEF r
<1>5. cached' = cached \/ RowSet
  BY <1>0, <1>4, RowGood
<1> QED BY <1>0, <1>3, <1>5, QuitGood, Assemble

\* The revert of an active lease: the runtime was seen to work under it.
LEMMA RevertKeeps ==
  ASSUME IInv, NEW c \in Clients, Revert(c) PROVE Advance /\ IInv'
<1> DEFINE l == rec[c].lease  row == Row(l, "revert_pending")
<1>0. UNCHANGED <<overdue, approver, activated, started, restarted, runtime, task,
                  crashes>>
  BY DEF Revert
<1>1. /\ TableOK /\ RuntimeOK /\ l \in after /\ turns > 0
  BY Parts DEF ClientsOK, GoodRec, Revert
<1>2. l \in Leases
  BY <1>1 DEF TableOK, RuntimeOK
<1>3. ASSUME Reverts(l) PROVE Advance /\ IInv'
  <2>1. /\ status' = [status EXCEPT ![l] = "revert_pending"]
        /\ cached' = [cached EXCEPT ![c] = row]
        /\ Continue(c, StepOfPending(row, rec[c].snap), l)
    BY <1>3 DEF Revert
  <2>2. TableOK'
    BY <1>0, <1>1, <2>1 DEF TableOK, Statuses, Open
  <2>3. \A k \in Leases : k # l => status'[k] = status[k]
    BY <1>1, <2>1 DEF TableOK
  <2>4. status'[l] = "revert_pending" /\ status[l] \in {"active", "revert_pending"}
    BY <1>1, <1>2, <1>3, <2>1 DEF TableOK, Reverts
  <2>5. LeaseStep
    BY <1>0, <1>1, <2>3, <2>4 DEF LeaseStep, MovesTo
  <2>6. Advance
    BY <1>0, <2>2, <2>5, AdvanceTable
  <2>7. GoodRow(row, status') /\ l \in BackOf(status')
    <3>1. row \in RowsKept /\ row.lease = l
      BY <1>1, <1>2, RowValue
    <3>2. l \in BackOf(status')
      BY <1>2, <2>4 DEF BackOf
    <3> QED BY <3>1, <3>2 DEF GoodRow
  <2> HIDE DEF row
  <2>8. RowSet
    BY <2>1, <2>7, RowGood
  <2>9. RecSet
    BY <1>2, <2>1, <2>6, <2>7, StepOfPendingValue, ContinueGood
  <2> QED BY <1>0, <2>6, <2>8, <2>9, Assemble
<1>4. ASSUME ~Reverts(l) PROVE Advance /\ IInv'
  <2>1. Quit(c) /\ UNCHANGED <<status, cached>>
    BY <1>4 DEF Revert
  <2>2. Advance
    BY <1>0, <2>1, AdvanceStill DEF table
  <2> QED BY <1>0, <2>1, <2>2, QuitGood, Assemble
<1> QED BY <1>3, <1>4

LEMMA FinishRevertedKeeps ==
  ASSUME IInv, NEW c \in Clients, FinishReverted(c) PROVE Advance /\ IInv'
<1>1. Advance
  BY FinishAdvances DEF FinishReverted
<1>2. RowSet
  BY RowGood, NoRowValue DEF FinishReverted, GoodRow
<1>3. RecSet /\ task' = task
  BY <1>1, QuitGood DEF FinishReverted
<1> QED BY <1>1, <1>2, <1>3, Assemble

LEMMA RestartPriorKeeps ==
  ASSUME IInv, NEW c \in Clients, RestartPrior(c) PROVE Advance /\ IInv'
<1> DEFINE l == rec[c].lease
<1>0. UNCHANGED <<table, task, cached, crashes>>
  BY DEF RestartPrior
<1>1. l \in BackOf(status) /\ l \in Leases
  BY Parts DEF ClientsOK, GoodRec, BackOf, RestartPrior
<1>2. ASSUME Relaunched("prior"), Continue(c, "record", l) \/ Quit(c)
      PROVE  Advance /\ IInv'
  <2>1. Advance /\ l \in BackOf(status')
    BY <1>0, <1>1, <1>2, RelaunchedAdvances DEF table
  <2>2. RecSet
    BY <1>1, <1>2, <2>1, ContinueGood, QuitGood
  <2> QED BY <1>0, <2>1, <2>2, Assemble
<1>3. ASSUME Quit(c), UNCHANGED runtime PROVE Advance /\ IInv'
  <2>1. Advance
    BY <1>0, <1>3, AdvanceStill
  <2> QED BY <1>0, <1>3, <2>1, QuitGood, Assemble
<1> QED BY <1>2, <1>3 DEF RestartPrior

LEMMA RecordRestartKeeps ==
  ASSUME IInv, NEW c \in Clients, RecordRestart(c) PROVE Advance /\ IInv'
<1> DEFINE l == rec[c].lease
           r == [Row(l, status[l]) EXCEPT !.restarted = TRUE]
<1>0. UNCHANGED <<status, overdue, approver, activated, started, runtime, task,
                  crashes>> /\ Quit(c)
  BY DEF RecordRestart
<1>1. l \in Leases /\ l \in BackOf(status) /\ TableOK
  BY Parts DEF ClientsOK, GoodRec, BackOf, RecordRestart
<1>2. Advance
  <2>1. TableOK'
    BY <1>0, <1>1 DEF TableOK, RecordRestart
  <2>2. LeaseStep
    BY <1>0 DEF LeaseStep, MovesTo
  <2> QED BY <1>0, <2>1, <2>2, AdvanceTable
<1>3. ASSUME status[l] \in Open PROVE RowSet
  <2>1. status[l] = "revert_pending"
    BY <1>1, <1>3 DEF BackOf, Open, Terminal
  <2>2. Row(l, status[l]) \in RowsKept /\ Row(l, status[l]).lease = l
    BY <1>1, <2>1, RowValue
  <2>3. r \in RowsKept /\ r.lease = l
    BY <2>2 DEF RowsKept
  <2>4. cached' = [cached EXCEPT ![c] = r]
    BY <1>3 DEF RecordRestart
  <2> HIDE DEF r
  <2> QED BY <1>0, <1>1, <2>3, <2>4, RowGood DEF GoodRow
<1>4. ASSUME status[l] \notin Open PROVE cached' = cached
  BY <1>4 DEF RecordRestart
<1> QED BY <1>0, <1>2, <1>3, <1>4, QuitGood, Assemble

-----------------------------------------------------------------------------
(* The rest of the world.                                                   *)

LEMMA SyncKeeps ==
  ASSUME IInv, NEW c \in Clients, Sync(c) PROVE Advance /\ IInv'
<1>1. Advance /\ status' = status
  BY AdvanceStill DEF Sync, table
<1>2. PICK l \in Leases : \E r \in EventRows(l) : cached' = [cached EXCEPT ![c] = r]
  BY DEF Sync
<1>3. PICK r \in EventRows(l) : cached' = [cached EXCEPT ![c] = r]
  BY <1>2
<1>4. GoodRow(NoRow, status) /\ GoodRow(CachedRow(l, status), status)
      /\ GoodRow(Row(l, "active"), status)
  BY Parts, NoRowValue, CachedRowValue, RowValue DEF GoodRow, TableOK
<1>5. RowSet
  BY <1>1, <1>3, <1>4, RowGood DEF EventRows
<1> QED BY <1>1, <1>5, Assemble DEF Sync

LEMMA ElapseKeeps ==
  ASSUME IInv, NEW l \in Leases, Elapse(l) PROVE Advance /\ IInv'
<1>1. TableOK' /\ LeaseStep
  BY Parts DEF Elapse, TableOK, LeaseStep, MovesTo
<1>2. Advance
  BY <1>1, AdvanceTable DEF Elapse
<1> QED BY <1>2, Assemble DEF Elapse

LEMMA StartTurnKeeps ==
  ASSUME IInv, StartTurn PROVE Advance /\ IInv'
<1>1. RuntimeOK /\ crashes \in 0..MaxCrashes /\ activated' = activated
  BY Parts DEF StartTurn, table
<1>2. RuntimeOK' /\ after \subseteq after' /\ turns <= turns'
  BY <1>1, BoundsAssumption DEF RuntimeOK, StartTurn, Observed
<1>3. Advance
  BY <1>1, <1>2, AdvanceRuntime DEF StartTurn
<1> QED BY <1>3, Assemble DEF StartTurn

LEMMA EndTurnKeeps ==
  ASSUME IInv, EndTurn PROVE Advance /\ IInv'
<1>1. RuntimeOK /\ crashes \in 0..MaxCrashes /\ activated' = activated
  BY Parts DEF EndTurn, table
<1>2. RuntimeOK' /\ after \subseteq after' /\ turns <= turns'
  BY <1>1 DEF RuntimeOK, EndTurn, Observed
<1>3. Advance
  BY <1>1, <1>2, AdvanceRuntime DEF EndTurn
<1> QED BY <1>3, Assemble DEF EndTurn

LEMMA CrashKeeps ==
  ASSUME IInv, NEW c \in Clients, Crash(c) PROVE Advance /\ IInv'
<1>1. Advance
  <2>1. RuntimeOK /\ turns \in Nat /\ crashes' \in 0..MaxCrashes
    BY Parts, BoundsAssumption DEF Crash, RuntimeOK
  <2>2. RuntimeOK' /\ after' = after /\ turns' = turns
    BY <2>1 DEF Crash, runtime, table, RuntimeOK
  <2> QED BY <2>1, <2>2, AdvanceRuntime DEF Crash
<1>2. TaskSet
  BY StopGood DEF Crash, Stop, Goto, Idle
<1>3. RowSet
  BY RowGood, NoRowValue DEF Crash, GoodRow
<1>4. RecSet
  BY <1>1, QuitGood DEF Crash, Quit, Continue
<1> QED BY <1>1, <1>2, <1>3, <1>4, Assemble

-----------------------------------------------------------------------------
LEMMA InitHolds == Init => IInv
<1> SUFFICES ASSUME Init PROVE IInv
  OBVIOUS
<1>1. TableOK /\ RuntimeOK /\ crashes \in 0..MaxCrashes /\ ApprovedByPerson
  BY BoundsAssumption DEF Init, TableOK, RuntimeOK, Statuses, ApprovedByPerson
<1>2. Idle \in Tasks /\ Idle.pc = "idle"
  BY DEF Idle, Tasks
<1>3. /\ NoSnap \in Snaps /\ NoSnap.after = {} /\ NoSnap.turn = 0
      /\ NoSnap.work = "ready"
  BY BoundsAssumption DEF NoSnap, Snaps
<1>4. RecIdle \in Recs /\ RecIdle.pc = "idle" /\ RecIdle.snap = NoSnap
  BY <1>3 DEF RecIdle, Recs
<1>5. /\ GoodTask(Idle, activated) /\ GoodRow(NoRow, status)
      /\ GoodRec(RecIdle, status, after, turns)
  BY <1>1, <1>2, <1>3, <1>4, NoRowValue DEF GoodTask, GoodRow, GoodRec, RuntimeOK
<1>6. ClientsOK
  BY <1>2, <1>4, <1>5, NoRowValue DEF Init, ClientsOK
<1> QED BY <1>1, <1>6, Parts

LEMMA StillKeeps ==
  ASSUME IInv, UNCHANGED vars PROVE Advance /\ IInv'
<1>1. Advance
  BY AdvanceStill DEF vars
<1> QED BY <1>1, Assemble DEF vars

\* Every step of the system moves every lease as LeaseStep allows.
LEMMA NextKeeps ==
  ASSUME IInv, [Next]_vars PROVE Advance /\ IInv'
<1>1. ASSUME NEW c \in Clients, ElevationTask(c) PROVE Advance /\ IInv'
  BY <1>1, PrepareKeeps, CancelKeeps, RequestKeeps, ApproveKeeps, ActivateKeeps,
     RestartKeeps, FailKeeps, AssociateKeeps DEF ElevationTask
<1>2. ASSUME NEW c \in Clients, ReconcileTask(c) PROVE Advance /\ IInv'
  BY <1>2, ObserveKeeps, ReconcileEventKeeps, ReconcileStatusKeeps, NoteTurnKeeps,
     RevertKeeps, FinishRevertedKeeps, RestartPriorKeeps, RecordRestartKeeps
     DEF ReconcileTask
<1> QED BY <1>1, <1>2, SyncKeeps, CrashKeeps, DecideElsewhereKeeps, ElapseKeeps,
           RestartPlainKeeps, StartTurnKeeps, EndTurnKeeps, StillKeeps DEF Next

\* The values a client holds of the table and the runtime may be old, never
\* ahead of them, whatever its tasks, other clients and the handlers do.
THEOREM InvariantHolds == Spec => []IInv
<1>1. IInv /\ [Next]_vars => IInv'
  BY NextKeeps
<1> QED BY <1>1, InitHolds, PTL DEF Spec

\* The store, the clients and the runtime only hold values of their types.
THEOREM TypeCorrect == Spec => []TypeOK
<1>1. IInv => TypeOK
  BY DEF IInv
<1> QED BY <1>1, InvariantHolds, PTL

\* A client is never ahead: Spec keeps the invariant the elevation run checks.
THEOREM ClientsNeverAhead == Spec => []NeverAhead
<1>1. IInv => NeverAhead
  BY DEF IInv
<1> QED BY <1>1, InvariantHolds, PTL

\* decide_model_elevation: only a person's approval lets a lease be used.
THEOREM PersonApproves == Spec => []ApprovedByPerson
<1>1. IInv => ApprovedByPerson
  BY DEF IInv
<1> QED BY <1>1, InvariantHolds, PTL

\* reconcile_model_elevation: no client closes an active lease as reverted or
\* restarts the runtime to bring one back.
THEOREM DownWhenPending == Spec => []DownOnlyWhenPending
<1>1. IInv => DownOnlyWhenPending
  BY DEF IInv, NeverAhead, NeverAheadOfTable, GivenBack, DownOnlyWhenPending
<1> QED BY <1>1, InvariantHolds, PTL

\* No handler of the lease table moves a lease back, whichever order the
\* requests of slow clients arrive in.
THEOREM MovesForward == Spec => LeaseMovesForward
<1>1. ASSUME IInv, [Next]_vars
      PROVE  [\A l \in Leases :
                status'[l] # status[l] => Rank(status[l]) <= Rank(status'[l])]_vars
  <2>1. LeaseStep /\ TableOK
    BY <1>1, NextKeeps, Parts DEF Advance
  <2> QED BY <2>1 DEF LeaseStep, MovesTo, TableOK, Rank, Statuses, Open, Terminal
<1> QED BY <1>1, InvariantHolds, PTL DEF Spec, LeaseMovesForward

\* mark_model_elevation_revert_pending and expire_model_elevations: an active
\* lease is given back because its time is over or the runtime worked under it.
THEOREM ReturnedForCause == Spec => NotReturnedUnused
<1>1. ASSUME IInv, [Next]_vars
      PROVE  [\A l \in Leases :
                status[l] = "active" /\ status'[l] = "revert_pending" =>
                  l \in overdue \/ (l \in after /\ turns > 0)]_vars
  <2>1. LeaseStep
    BY <1>1, NextKeeps DEF Advance
  <2> QED BY <2>1 DEF LeaseStep, MovesTo
<1> QED BY <1>1, InvariantHolds, PTL DEF Spec, NotReturnedUnused

-----------------------------------------------------------------------------
OneOpen == \A k, l \in OpenOf(status) : k = l

LEMMA OneOpenInvariant == Spec => []OneOpen
<1>1. Init => OneOpen
  BY DEF Init, OneOpen, OpenOf, Open
<1>2. ASSUME IInv, OneOpen, [Next]_vars PROVE OneOpen'
  <2>1. LeaseStep /\ TableOK
    BY <1>2, NextKeeps, Parts DEF Advance
  <2>2. \A l \in Leases : status'[l] \in Open =>
          status[l] \in Open \/ (status[l] = "none" /\ status'[l] = "pending")
    BY <2>1 DEF LeaseStep, MovesTo, TableOK, Statuses, Open, Terminal
  <2>3. \A l \in Leases : status[l] = "none" /\ status'[l] = "pending" =>
          \A k \in Leases : status'[k] \in Open => k = l
    BY <2>1 DEF LeaseStep
  <2> QED BY <1>2, <2>2, <2>3 DEF OneOpen, OpenOf
<1> QED BY <1>1, <1>2, InvariantHolds, PTL DEF Spec

\* request_or_reuse_model_elevation: one agent never has two open leases.
THEOREM OneOpenLeaseHolds == Spec => []OneOpenLease
<1>1. ASSUME OneOpen PROVE OneOpenLease
  <2>1. CASE OpenOf(status) = {}
    BY <2>1, FS_EmptySet DEF OneOpenLease
  <2>2. CASE OpenOf(status) # {}
    <3>1. PICK l \in OpenOf(status) : OpenOf(status) = {l}
      BY <1>1, <2>2 DEF OneOpen
    <3>2. Cardinality({l}) = 1
      BY FS_Singleton
    <3> QED BY <3>1, <3>2 DEF OneOpenLease
  <2> QED BY <2>1, <2>2
<1> QED BY <1>1, OneOpenInvariant, PTL

=============================================================================
