------------------------ MODULE WorkspaceTransition ------------------------
(***************************************************************************)
(* The workspace of one WorkerBee gateway lease.  The lease file names the *)
(* binding, the snapshot of a checkout, that the session works in; the     *)
(* agent's metadata repeats it.  The agent moves by a session start, which *)
(* the lease's lock makes one at a time; controllers bind, approve, deny,  *)
(* revert and revoke from threads that do not take that lock.  A move      *)
(* loads the lease, stages the checkout, writes the file, reconciles the   *)
(* metadata, or puts the file back as it was loaded, and marks its row.    *)
(***************************************************************************)
EXTENDS Naturals

CONSTANTS Dirs, Home,            \* checkouts, and the one of the first binding
          Agent, Controllers,    \* the session's calls and the controllers' threads
          MaxRows,               \* bound on transition rows, numbered as created
          MaxEdits,              \* bound on edits of checkouts
          MaxFaults              \* bound on restarts of the daemon and switches

ASSUME HomeAssumption   == Home \in Dirs
ASSUME AgentAssumption  == Agent \notin Controllers
ASSUME BoundsAssumption == MaxRows \in Nat /\ MaxEdits \in Nat /\ MaxFaults \in Nat

VARIABLES
  gen,      \* the selected generation, the lease being for the first
  content,  \* what each checkout holds
  edits,    \* how often checkouts were edited
  lease,    \* the lease file
  mapping,  \* the binding in the agent's metadata
  rows,     \* workerbee_workspace_transitions
  thr,      \* what each thread is at, with what it loaded
  torn,     \* two moves overlapped, or the daemon died
  faults    \* how many there were

vars == <<gen, content, edits, lease, mapping, rows, thr, torn, faults>>

Threads == {Agent} \cup Controllers
Rows    == 1..MaxRows
Modes   == {"approval", "automatic", "disabled"}

Bindings  == [dir : Dirs, ver : 0..MaxEdits, gen : 1..MaxFaults + 1]
Leases    == [active : BOOLEAN, bind : Bindings]
First     == [dir |-> Home, ver |-> 0, gen |-> 1]
NoRow     == [status |-> "none", dir |-> Home, from |-> First, to |-> First, by |-> "nobody"]
Free      == [at |-> "idle", op |-> "none", row |-> 0,
              cur |-> [active |-> FALSE, bind |-> First], next |-> First]

TypeOK ==
  /\ gen \in 1..MaxFaults + 1
  /\ content \in [Dirs -> 0..MaxEdits]
  /\ lease \in Leases /\ mapping \in Bindings
  /\ rows \in [Rows -> [status : {"none", "pending", "approved", "applied", "failed",
                                  "denied", "reverted"},
                        dir : Dirs, from : Bindings, to : Bindings,
                        by : {"nobody", "policy", "controller"}]]
  /\ thr \in [Threads -> [at : {"idle", "accepted", "approved", "stage", "write",
                                "reconcile", "mark", "deny", "revoke"},
                          op : {"none", "move", "refresh", "revert"},
                          row : Rows \cup {0}, cur : Leases, next : Bindings]]
  /\ torn \in BOOLEAN /\ faults \in 0..MaxFaults /\ edits \in 0..MaxEdits

Init ==
  /\ gen = 1 /\ content = [d \in Dirs |-> 0] /\ edits = 0
  /\ lease = [active |-> TRUE, bind |-> First] /\ mapping = First
  /\ rows = [r \in Rows |-> NoRow] /\ thr = [x \in Threads |-> Free]
  /\ torn = FALSE /\ faults = 0

Moving == {x \in Threads : thr[x].at \in {"stage", "write", "reconcile", "mark"}}

-----------------------------------------------------------------------------
(* How a move begins.                                                       *)

\* _refresh_context: the lease and its binding are of the selected generation.
Current == lease.bind.gen = gen /\ gen = 1

\* The row of a move, when one has to be created.
Creates(r, d, status, by) ==
  /\ \A x \in Rows : rows[x].status = "none" <=> x >= r
  /\ rows' = [rows EXCEPT ![r] = [status |-> status, dir |-> d, from |-> lease.bind,
                                  to |-> First, by |-> by]]

Begins(x, op, r, d) ==
  /\ thr' = [thr EXCEPT ![x] = [at |-> "stage", op |-> op, row |-> r, cur |-> lease,
                                next |-> [dir |-> d, gen |-> gen,
                                           ver |-> IF op = "refresh" THEN content[d] ELSE 0]]]
  /\ torn' = (torn \/ Moving # {})

Ends(x) == thr' = [thr EXCEPT ![x] = Free]

\* Nothing to move: only a changed checkout is staged again.
Refreshes(x) ==
  /\ UNCHANGED rows
  /\ IF content[lease.bind.dir] = lease.bind.ver
     THEN Ends(x) /\ UNCHANGED torn
     ELSE Begins(x, "refresh", 0, lease.bind.dir)

\* The newest open row for the checkout, 0 for none.
Open(d) ==
  LET open == {r \in Rows : rows[r].status \in {"pending", "approved"} /\ rows[r].dir = d}
  IN IF open = {} THEN 0 ELSE CHOOSE r \in open : \A x \in open : x <= r

UsableOpen(r) == rows[r].status \in {"pending", "approved"}       \* mutant
Usable(r) == rows[r].status = "approved"

\* The agent's session start: what the request mode, which controllers set at
\* any time, lets it do.
AgentMoves(d, mode) ==
  \/ /\ mode = "approval" /\ Open(d) = 0
     /\ \E r \in Rows : Creates(r, d, "pending", "nobody")
     /\ Ends(Agent) /\ UNCHANGED torn
  \/ /\ mode = "approval" /\ Open(d) # 0
     /\ UNCHANGED rows
     /\ IF Usable(Open(d)) THEN Begins(Agent, "move", Open(d), d)
                           ELSE Ends(Agent) /\ UNCHANGED torn
  \/ /\ mode = "automatic"
     /\ \E r \in Rows : Creates(r, d, "approved", "policy") /\ Begins(Agent, "move", r, d)
  \/ /\ mode = "disabled" /\ Ends(Agent) /\ UNCHANGED <<rows, torn>>

\* The call passed the middleware and waits for the lease's lock ...
AgentCalls ==
  /\ thr[Agent] = Free /\ lease.active /\ Current
  /\ thr' = [thr EXCEPT ![Agent].at = "accepted"]
  /\ UNCHANGED <<gen, content, edits, lease, mapping, rows, torn, faults>>

\* ... and then loads the lease, whose status is not looked at again.
AgentStart(d) ==
  /\ thr[Agent].at = "accepted"
  /\ \/ ~Current /\ Ends(Agent) /\ UNCHANGED <<rows, torn>>
     \/ Current /\ d = lease.bind.dir /\ Refreshes(Agent)
     \/ Current /\ d # lease.bind.dir /\ \E mode \in Modes : AgentMoves(d, mode)
  /\ UNCHANGED <<gen, content, edits, lease, mapping, faults>>

-----------------------------------------------------------------------------
(* The controllers.                                                         *)

Bind(c, d) ==
  /\ thr[c] = Free /\ Current
  /\ \/ d = lease.bind.dir /\ Refreshes(c)
     \/ /\ d # lease.bind.dir
        /\ \E r \in Rows : Creates(r, d, "approved", "controller") /\ Begins(c, "move", r, d)
  /\ UNCHANGED <<gen, content, edits, lease, mapping, faults>>

Approve(c, r) ==
  /\ thr[c] = Free /\ rows[r].status \in {"pending", "approved"}
  /\ rows' = [rows EXCEPT ![r].status = "approved",
                          ![r].by = IF rows[r].status = "pending" THEN "controller" ELSE @]
  /\ thr' = [thr EXCEPT ![c].at = "approved", ![c].row = r]
  /\ UNCHANGED <<gen, content, edits, lease, mapping, torn, faults>>

\* The policy may refuse the target after the row was approved.
ApplyApproved(c) ==
  LET d == rows[thr[c].row].dir IN
  /\ thr[c].at = "approved"
  /\ \/ Ends(c) /\ UNCHANGED <<rows, torn>>
     \/ Current /\ d = lease.bind.dir /\ Refreshes(c)
     \/ /\ Current /\ d # lease.bind.dir
        /\ Begins(c, "move", thr[c].row, d) /\ UNCHANGED rows
  /\ UNCHANGED <<gen, content, edits, lease, mapping, faults>>

DenyRead(c, r) ==
  /\ thr[c] = Free /\ rows[r].status = "pending"
  /\ thr' = [thr EXCEPT ![c].at = "deny", ![c].row = r]
  /\ UNCHANGED <<gen, content, edits, lease, mapping, rows, torn, faults>>

\* update_transition does not look at the status again.
DenyWrite(c) ==
  /\ thr[c].at = "deny" /\ Ends(c)
  /\ rows' = [rows EXCEPT ![thr[c].row].status = "denied"]
  /\ UNCHANGED <<gen, content, edits, lease, mapping, torn, faults>>

Revert(c, r) ==
  /\ thr[c] = Free /\ rows[r].status = "applied"
  /\ lease.bind = rows[r].to /\ Current
  /\ thr' = [thr EXCEPT ![c] = [at |-> "write", op |-> "revert", row |-> r, cur |-> lease,
                                next |-> rows[r].from]]
  /\ torn' = (torn \/ Moving # {})
  /\ UNCHANGED <<gen, content, edits, lease, mapping, rows, faults>>

RevokeRead(c) ==
  /\ thr[c] = Free /\ lease.active
  /\ thr' = [thr EXCEPT ![c].at = "revoke", ![c].cur = lease]
  /\ torn' = (torn \/ Moving # {})
  /\ UNCHANGED <<gen, content, edits, lease, mapping, rows, faults>>

RevokeWrite(c) ==
  /\ thr[c].at = "revoke" /\ Ends(c)
  /\ lease' = [thr[c].cur EXCEPT !.active = FALSE]
  /\ torn' = (torn \/ lease # thr[c].cur)
  /\ UNCHANGED <<gen, content, edits, mapping, rows, faults>>

-----------------------------------------------------------------------------
(* The steps of a move, on what it loaded.                                  *)

MarksRow(x, status) ==
  rows' = IF thr[x].op = "refresh" THEN rows
          ELSE [rows EXCEPT ![thr[x].row].status = status]

\* prepare: the snapshot is of what the checkout holds by now.  A refresh
\* whose checkout changed under it is refused.
StagedNow(x) == [thr[x].next EXCEPT !.gen = gen, !.ver = content[thr[x].next.dir]] \* mutant
Staged(x) == [thr[x].next EXCEPT !.ver = content[thr[x].next.dir]]

Stage(x) ==
  /\ thr[x].at = "stage"
  /\ thr[x].op = "refresh" => Staged(x) = thr[x].next
  /\ thr' = [thr EXCEPT ![x].at = "write", ![x].next = Staged(x)]
  /\ UNCHANGED <<gen, content, edits, lease, mapping, rows, torn, faults>>

StageFails(x) ==
  /\ thr[x].at = "stage"
  /\ MarksRow(x, "failed") /\ Ends(x)
  /\ UNCHANGED <<gen, content, edits, lease, mapping, torn, faults>>

\* The file is written from the lease that was loaded when the move began.
BindingOnly(x) == [bind |-> thr[x].next]                          \* mutant
AsActive(x) == [active |-> TRUE, bind |-> thr[x].next]            \* mutant
Updated(x) == [thr[x].cur EXCEPT !.bind = thr[x].next]

Write(x) ==
  /\ thr[x].at = "write"
  /\ lease' = Updated(x)
  /\ thr' = [thr EXCEPT ![x].at = "reconcile"]
  /\ UNCHANGED <<gen, content, edits, mapping, rows, torn, faults>>

Reconcile(x) ==
  /\ thr[x].at = "reconcile"
  /\ mapping' = thr[x].next
  /\ thr' = [thr EXCEPT ![x] = IF thr[x].op = "refresh" THEN Free
                               ELSE [thr[x] EXCEPT !.at = "mark", !.cur = Free.cur]]
  /\ UNCHANGED <<gen, content, edits, lease, rows, torn, faults>>

\* The callback failed: the file as it was loaded, and a failed row.
LeavesLease(x) == lease                                           \* mutant
Restored(x) == thr[x].cur

ReconcileFails(x) ==
  /\ thr[x].at = "reconcile"
  /\ lease' = Restored(x)
  /\ IF thr[x].op = "revert" THEN UNCHANGED rows ELSE MarksRow(x, "failed")
  /\ Ends(x)
  /\ UNCHANGED <<gen, content, edits, mapping, torn, faults>>

Mark(x) ==
  /\ thr[x].at = "mark"
  /\ rows' = [rows EXCEPT ![thr[x].row] =
       IF thr[x].op = "revert" THEN [@ EXCEPT !.status = "reverted"]
                               ELSE [@ EXCEPT !.status = "applied", !.to = thr[x].next]]
  /\ Ends(x)
  /\ UNCHANGED <<gen, content, edits, lease, mapping, torn, faults>>

-----------------------------------------------------------------------------
(* The surroundings.                                                        *)

Edit(d) ==
  /\ edits < MaxEdits /\ edits' = edits + 1
  /\ content' = [content EXCEPT ![d] = @ + 1]
  /\ UNCHANGED <<gen, lease, mapping, rows, thr, torn, faults>>

SwitchBackend ==
  /\ faults < MaxFaults /\ faults' = faults + 1
  /\ gen' = gen + 1
  /\ UNCHANGED <<content, edits, lease, mapping, rows, thr, torn>>

Crash ==
  /\ faults < MaxFaults /\ faults' = faults + 1
  /\ thr' = [x \in Threads |-> Free]
  /\ torn' = (torn \/ Moving # {})
  /\ UNCHANGED <<gen, content, edits, lease, mapping, rows>>

Controls(c) ==
  \/ \E d \in Dirs : Bind(c, d)
  \/ \E r \in Rows : Approve(c, r) \/ DenyRead(c, r) \/ Revert(c, r)
  \/ ApplyApproved(c) \/ DenyWrite(c) \/ RevokeRead(c) \/ RevokeWrite(c)

MoveStep(x) ==
  Stage(x) \/ StageFails(x) \/ Write(x) \/ Reconcile(x) \/ ReconcileFails(x) \/ Mark(x)

Next ==
  \/ AgentCalls \/ \E d \in Dirs : AgentStart(d) \/ Edit(d)
  \/ \E c \in Controllers : Controls(c)
  \/ \E x \in Threads : MoveStep(x)
  \/ SwitchBackend \/ Crash

Spec == Init /\ [][Next]_vars

-----------------------------------------------------------------------------
(* Properties.                                                              *)

\* Whatever is switched while a move stages, the lease is only ever bound to
\* a snapshot of the generation it was issued for.
LeaseKeepsGeneration == lease.bind.gen = 1

\* No checkout is staged or written for a row that neither the automatic
\* policy nor a controller approved, however the mode changes, approvals
\* overlap with the agent's retries and old rows are left open.
MovesAreApproved ==
  \A x \in Moving : thr[x].op = "move" => rows[thr[x].row].by # "nobody"

\* Where moves did not overlap and the daemon lived, the metadata names the
\* lease's binding after every outcome: applied, failed at any step, reverted.
MappingFollowsLease ==
  ~torn /\ (\A x \in Threads : thr[x].at # "reconcile") => mapping = lease.bind

\* A revoked lease comes back only from a move that had loaded it before it
\* was revoked: a move that begins later leaves it revoked.
RevokedStaysForLaterMoves ==
  [][~lease.active /\ lease'.active =>
       \E x \in Threads : thr[x].at \in {"write", "reconcile"} /\ thr[x].cur.active]_lease

\* "Revert is allowed only when that transition still owns the active binding".
RevertOwnsBinding ==
  [][\A x \in Threads : thr[x].at = "write" /\ thr[x].op = "revert" /\ thr'[x].at = "reconcile"
       => lease.bind = rows[thr[x].row].to]_vars
=============================================================================
