--------------------- MODULE WorkspaceTransitionProofs ---------------------
(* Proofs about WorkspaceTransition, for every value of its constants.      *)
EXTENDS WorkspaceTransition, WellFoundedInduction, TLAPS

-----------------------------------------------------------------------------
(* The types, with the generation the lease was issued for in every binding. *)

Steps  == {"idle", "accepted", "approved", "stage", "write", "reconcile", "mark",
           "deny", "revoke"}
Moves  == {"stage", "write", "reconcile", "mark"}
Status == {"none", "pending", "approved", "applied", "failed", "denied", "reverted"}

Versions == 0..MaxEdits

BindType  == [dir : Dirs, ver : Versions, gen : {1}]
LeaseType == [active : BOOLEAN, bind : BindType]
RowType   == [status : Status, dir : Dirs, from : BindType, to : BindType,
              by : {"nobody", "policy", "controller"}]
ThreadType == [at : Steps, op : {"none", "move", "refresh", "revert"},
               row : Rows \cup {0}, cur : LeaseType, next : BindType]

TypeInv ==
  /\ content \in [Dirs -> Versions]
  /\ lease \in LeaseType /\ mapping \in BindType
  /\ rows \in [Rows -> RowType] /\ thr \in [Threads -> ThreadType]
  /\ torn \in BOOLEAN

\* What is read of a thread, a lease and a row is of its type.
LEMMA ThreadFields ==
  ASSUME NEW t \in ThreadType
  PROVE  /\ t.at \in Steps /\ t.op \in {"none", "move", "refresh", "revert"}
         /\ t.row \in Rows \cup {0} /\ t.cur \in LeaseType /\ t.next \in BindType
  BY DEF ThreadType

LEMMA LeaseFields ==
  ASSUME NEW l \in LeaseType
  PROVE  /\ l.active \in BOOLEAN /\ l.bind \in BindType
         /\ l.bind.gen = 1 /\ l.bind.dir \in Dirs
  BY DEF LeaseType, BindType

\* A thread that changes its step, or its step and its row, keeps the rest.
LEMMA AtStep ==
  ASSUME NEW t \in ThreadType, NEW at \in Steps
  PROVE  /\ [t EXCEPT !.at = at] \in ThreadType
         /\ [t EXCEPT !.at = at].at = at /\ [t EXCEPT !.at = at].op = t.op
         /\ [t EXCEPT !.at = at].row = t.row /\ [t EXCEPT !.at = at].cur = t.cur
         /\ [t EXCEPT !.at = at].next = t.next
  BY DEF ThreadType

LEMMA AtRow ==
  ASSUME NEW t \in ThreadType, NEW at \in Steps, NEW r \in Rows
  PROVE  /\ [t EXCEPT !.at = at, !.row = r] \in ThreadType
         /\ [t EXCEPT !.at = at, !.row = r].at = at
         /\ [t EXCEPT !.at = at, !.row = r].row = r
  BY DEF ThreadType

\* A new status leaves who approved the row.
LEMMA NewStatus ==
  ASSUME NEW r \in RowType, NEW s \in Status
  PROVE  /\ [r EXCEPT !.status = s] \in RowType
         /\ [r EXCEPT !.status = s].status = s /\ [r EXCEPT !.status = s].by = r.by
  BY DEF RowType

LEMMA NoVersion == 0 \in Versions
  BY BoundsAssumption DEF Versions

LEMMA FreeType ==
  /\ First \in BindType /\ Free \in ThreadType /\ NoRow \in RowType
  /\ Free.at = "idle" /\ Free.cur \in LeaseType
<1>1. First \in BindType
  BY HomeAssumption, NoVersion DEF First, BindType
<1> QED
  BY <1>1, HomeAssumption DEF Free, ThreadType, LeaseType, NoRow, RowType, Steps, Status

LEMMA TypeInit == Init => TypeInv
<1> SUFFICES ASSUME Init PROVE TypeInv
  OBVIOUS
<1>1. [active |-> TRUE, bind |-> First] \in LeaseType
  BY FreeType DEF LeaseType
<1>2. content \in [Dirs -> Versions]
  BY NoVersion DEF Init
<1> QED
  BY <1>1, <1>2, FreeType DEF Init, TypeInv

-----------------------------------------------------------------------------
(* What the actions are built from does to a thread and to the rows.        *)

\* Thread x goes on as v, and no other thread does anything.
Becomes(x, v) == v \in ThreadType /\ thr' = [thr EXCEPT ![x] = v]

LEMMA EndsThread ==
  ASSUME NEW x \in Threads, Ends(x)
  PROVE  Becomes(x, Free)
  BY FreeType DEF Ends, Becomes

\* A move begins with the lease as it is, of the generation it was issued for.
LEMMA BeginsThread ==
  ASSUME TypeInv, gen = 1, NEW x \in Threads, NEW op \in {"move", "refresh"},
         NEW r \in Rows \cup {0}, NEW d \in Dirs, Begins(x, op, r, d)
  PROVE  /\ \E v \in ThreadType : /\ Becomes(x, v) /\ v.at = "stage" /\ v.op = op
                                  /\ v.row = r /\ v.cur = lease
         /\ torn' = (torn \/ Moving # {})
<1> DEFINE n == [dir |-> d, gen |-> gen, ver |-> IF op = "refresh" THEN content[d] ELSE 0]
           v == [at |-> "stage", op |-> op, row |-> r, cur |-> lease, next |-> n]
<1>1. n \in BindType
  BY NoVersion DEF TypeInv, BindType
<1>2. v \in ThreadType
  BY <1>1 DEF TypeInv, ThreadType, Steps
<1>3. thr' = [thr EXCEPT ![x] = v]
  BY DEF Begins
<1> HIDE DEF n
<1> QED
  BY <1>2, <1>3 DEF Becomes, Begins

\* A row that is created had no status, and the other rows stay.
LEMMA CreatesRow ==
  ASSUME TypeInv, NEW r \in Rows, NEW d \in Dirs, NEW s \in Status,
         NEW by \in {"nobody", "policy", "controller"}, Creates(r, d, s, by)
  PROVE  /\ rows[r].status = "none" /\ rows' \in [Rows -> RowType]
         /\ rows'[r].status = s /\ rows'[r].by = by
         /\ \A q \in Rows : q # r => rows'[q] = rows[q]
<1> DEFINE v == [status |-> s, dir |-> d, from |-> lease.bind, to |-> First, by |-> by]
<1>1. v \in RowType
  BY FreeType, LeaseFields DEF TypeInv, RowType
<1>2. rows[r].status = "none"
  BY DEF Creates, Rows
<1>3. rows' = [rows EXCEPT ![r] = v]
  BY DEF Creates
<1> QED
  BY <1>1, <1>2, <1>3 DEF TypeInv

\* A row that gets a new status keeps the rest, and the other rows stay.
LEMMA MarkedRows ==
  ASSUME TypeInv, NEW q, NEW s \in Status, rows' = [rows EXCEPT ![q].status = s]
  PROVE  /\ rows' \in [Rows -> RowType]
         /\ \A r \in Rows : rows'[r].by = rows[r].by /\ rows'[r].status \in {rows[r].status, s}
<1>1. \A r \in Rows : rows'[r] = IF r = q THEN [rows[r] EXCEPT !.status = s] ELSE rows[r]
  BY DEF TypeInv
<1>2. DOMAIN rows' = Rows /\ rows' = [r \in Rows |-> rows'[r]]
  BY DEF TypeInv
<1>3. ASSUME NEW r \in Rows
      PROVE  /\ rows'[r] \in RowType /\ rows'[r].by = rows[r].by
             /\ rows'[r].status \in {rows[r].status, s}
  <2> DEFINE v == [rows[r] EXCEPT !.status = s]
  <2>1. rows[r] \in RowType
    BY DEF TypeInv
  <2>2. v \in RowType /\ v.by = rows[r].by /\ v.status = s
    BY <2>1, NewStatus
  <2>3. rows'[r] = IF r = q THEN v ELSE rows[r]
    BY <1>1
  <2> HIDE DEF v
  <2> QED
    BY <2>1, <2>2, <2>3
<1> QED
  BY <1>2, <1>3

\* The newest open row is a row: a non-empty set of row numbers has a largest.
LEMMA OpenRow ==
  ASSUME NEW d \in Dirs, Open(d) # 0
  PROVE  Open(d) \in Rows
<1> DEFINE open == {r \in Rows : rows[r].status \in {"pending", "approved"} /\ rows[r].dir = d}
           below == {MaxRows - r : r \in open}
<1>1. open # {} /\ Open(d) = CHOOSE r \in open : \A x \in open : x <= r
  BY DEF Open
<1>2. below \subseteq Nat /\ below # {}
  BY <1>1, BoundsAssumption DEF Rows
<1>3. PICK m \in below : \A n \in below : ~ (<<n, m>> \in OpToRel(<, Nat))
  BY <1>2, WFMin, NatLessThanWellFounded
<1>4. ASSUME NEW n \in below PROVE m <= n
  <2>1. n \in Nat /\ m \in Nat
    BY <1>2
  <2>2. n < m => <<n, m>> \in OpToRel(<, Nat)
    BY <2>1 DEF OpToRel
  <2>3. ~ (n < m)
    BY <1>3, <2>2
  <2> QED
    BY <2>1, <2>3
<1>5. PICK r \in open : m = MaxRows - r
  OBVIOUS
<1>6. \A x \in open : x <= r
  <2> TAKE x \in open
  <2>1. MaxRows - r <= MaxRows - x
    BY <1>4, <1>5
  <2> QED
    BY <2>1, BoundsAssumption DEF Rows
<1>7. Open(d) \in open
  BY <1>1, <1>6
<1> QED
  BY <1>7

-----------------------------------------------------------------------------
(* The invariants.                                                          *)

\* A row that exists and has an approver keeps both.
Approved(r) == r \in Rows /\ rows[r].status # "none" /\ rows[r].by # "nobody"

Committed(t) == t.at = "approved" \/ (t.at \in Moves /\ t.op = "move")

Approvals ==
  /\ \A r \in Rows : rows[r].status = "approved" => Approved(r)
  /\ \A x \in Threads : Committed(thr[x]) => Approved(thr[x].row)

\* While moves do not overlap, one thread at most is in a move; until it writes,
\* the lease has the binding it loaded, and until it has reconciled, the metadata
\* has it.
InStep ==
  ~torn =>
    /\ \A x, y \in Threads : thr[x].at \in Moves /\ thr[y].at \in Moves => x = y
    /\ \A x \in Threads :
         thr[x].at \in {"stage", "write"} => thr[x].cur.bind = lease.bind
    /\ \A x \in Threads :
         thr[x].at = "reconcile" => thr[x].cur.bind = mapping /\ thr[x].next = lease.bind
    /\ (\A x \in Threads : thr[x].at # "reconcile") => mapping = lease.bind

Inv == TypeInv /\ Approvals /\ InStep

\* What a step may do to the rows: none loses its approver, and none is approved
\* without one.
RowsMove ==
  /\ rows' \in [Rows -> RowType]
  /\ \A r \in Rows : Approved(r) => Approved(r)'
  /\ \A r \in Rows : rows'[r].status = "approved" => Approved(r)'

LEMMA RowsStay == ASSUME Inv, UNCHANGED rows PROVE RowsMove
  BY DEF Inv, TypeInv, Approvals, Approved, RowsMove

LEMMA RowsMarked ==
  ASSUME Inv, NEW q, NEW s \in Status \ {"none", "approved"},
         rows' = [rows EXCEPT ![q].status = s]
  PROVE  RowsMove
<1>1. /\ rows' \in [Rows -> RowType]
      /\ \A r \in Rows : rows'[r].by = rows[r].by /\ rows'[r].status \in {rows[r].status, s}
  BY MarkedRows DEF Inv
<1> QED
  BY <1>1 DEF Inv, Approvals, Approved, RowsMove

LEMMA RowsFailed == ASSUME Inv, NEW x \in Threads, MarksRow(x, "failed") PROVE RowsMove
<1>1. CASE thr[x].op = "refresh"
  BY <1>1, RowsStay DEF MarksRow
<1>2. CASE thr[x].op # "refresh"
  BY <1>2, RowsMarked DEF MarksRow, Status
<1> QED
  BY <1>1, <1>2

LEMMA RowsCreated ==
  ASSUME Inv, NEW r \in Rows, NEW d \in Dirs, NEW s \in {"pending", "approved"},
         NEW by \in {"nobody", "policy", "controller"}, Creates(r, d, s, by),
         s = "approved" => by # "nobody"
  PROVE  RowsMove /\ (by # "nobody" => Approved(r)')
<1>1. /\ rows[r].status = "none" /\ rows' \in [Rows -> RowType]
      /\ rows'[r].status = s /\ rows'[r].by = by
      /\ \A q \in Rows : q # r => rows'[q] = rows[q]
  BY CreatesRow DEF Inv, Status
<1> QED
  BY <1>1 DEF Inv, Approvals, Approved, RowsMove

-----------------------------------------------------------------------------
(* The counters, which the rest of the state does not move.                 *)

\* A checkout has no more versions than there were edits, and the generation is
\* not above the switches.
Bounds ==
  /\ edits \in 0..MaxEdits /\ faults \in 0..MaxFaults
  /\ gen \in 1..faults + 1
  /\ content \in [Dirs -> Nat] /\ \A d \in Dirs : content[d] <= edits

LEMMA BoundsInit == Init => Bounds
  BY BoundsAssumption DEF Init, Bounds

LEMMA BoundsStep == Bounds /\ [Next]_vars => Bounds'
<1> SUFFICES ASSUME Bounds, [Next]_vars PROVE Bounds'
  OBVIOUS
<1>1. CASE UNCHANGED <<gen, content, edits, faults>>
  BY <1>1 DEF Bounds
<1>2. ASSUME NEW d \in Dirs, Edit(d) PROVE Bounds'
  <2>1. /\ content' = [content EXCEPT ![d] = content[d] + 1]
        /\ edits' = edits + 1 /\ edits < MaxEdits /\ UNCHANGED <<gen, faults>>
    BY <1>2 DEF Edit
  <2>2. content' \in [Dirs -> Nat] /\ \A e \in Dirs : content'[e] <= edits'
    BY <2>1 DEF Bounds
  <2>3. edits' \in 0..MaxEdits
    BY <2>1, BoundsAssumption DEF Bounds
  <2> QED
    BY <2>1, <2>2, <2>3 DEF Bounds
<1>3. CASE SwitchBackend
  BY <1>3, BoundsAssumption DEF SwitchBackend, Bounds
<1>4. CASE Crash
  BY <1>4, BoundsAssumption DEF Crash, Bounds
<1>5. ASSUME NEW c \in Controllers, Controls(c) PROVE UNCHANGED <<gen, content, edits, faults>>
  BY <1>5 DEF Controls, Bind, Approve, ApplyApproved, DenyRead, DenyWrite, Revert,
     RevokeRead, RevokeWrite
<1>6. ASSUME NEW x \in Threads, MoveStep(x) PROVE UNCHANGED <<gen, content, edits, faults>>
  BY <1>6 DEF MoveStep, Stage, StageFails, Write, Reconcile, ReconcileFails, Mark
<1>7. ASSUME AgentCalls \/ (\E d \in Dirs : AgentStart(d)) \/ UNCHANGED vars
      PROVE  UNCHANGED <<gen, content, edits, faults>>
  BY <1>7 DEF AgentCalls, AgentStart, vars
<1> QED
  BY <1>1, <1>2, <1>3, <1>4, <1>5, <1>6, <1>7 DEF Next

-----------------------------------------------------------------------------
(* The kinds of steps, and that each keeps the invariants.                  *)

\* What a step leaves alone: the checkouts, the lease file and the metadata.
Frame == UNCHANGED <<content, lease, mapping>>

\* A thread comes to rest, or rests on.
Rests(x) ==
  /\ \E v \in ThreadType : /\ Becomes(x, v)
                            /\ v.at \in {"idle", "accepted", "deny", "revoke"}
  /\ thr[x].at # "reconcile" /\ torn' \in {torn, TRUE}
  /\ RowsMove /\ Frame

LEMMA RestsKeeps == ASSUME Inv, NEW x \in Threads, Rests(x) PROVE Inv'
<1>1. PICK v \in ThreadType : /\ Becomes(x, v)
                             /\ v.at \in {"idle", "accepted", "deny", "revoke"}
  BY DEF Rests
<1>2. thr' \in [Threads -> ThreadType] /\ \A y \in Threads : y # x => thr'[y] = thr[y]
  BY <1>1 DEF Becomes, Inv, TypeInv
<1>3. thr'[x] = v
  BY <1>1 DEF Becomes, Inv, TypeInv
<1>4. TypeInv'
  BY <1>2 DEF Rests, RowsMove, Frame, Inv, TypeInv
<1>5. Approvals'
  BY <1>1, <1>2, <1>3 DEF Rests, RowsMove, Inv, Approvals, Approved, Committed, Moves
<1>6. InStep'
  <2> SUFFICES ASSUME ~torn' PROVE InStep'
    BY DEF InStep
  <2>1. ~torn
    BY DEF Rests
  <2>2. /\ lease' = lease /\ mapping' = mapping /\ thr[x].at # "reconcile"
        /\ thr'[x].at \notin Moves
    BY <1>1, <1>3 DEF Rests, Frame, Moves
  <2> QED
    BY <1>2, <2>1, <2>2 DEF Inv, InStep, Moves
<1> QED
  BY <1>4, <1>5, <1>6 DEF Inv

\* A controller's thread is about to apply a row that is approved.
Accepts(x) ==
  /\ \E v \in ThreadType : Becomes(x, v) /\ v.at = "approved" /\ Approved(v.row)'
  /\ thr[x].at = "idle" /\ UNCHANGED torn
  /\ RowsMove /\ Frame

LEMMA AcceptsKeeps == ASSUME Inv, NEW x \in Threads, Accepts(x) PROVE Inv'
<1>1. PICK v \in ThreadType : Becomes(x, v) /\ v.at = "approved" /\ Approved(v.row)'
  BY DEF Accepts
<1>2. thr' \in [Threads -> ThreadType] /\ \A y \in Threads : y # x => thr'[y] = thr[y]
  BY <1>1 DEF Becomes, Inv, TypeInv
<1>3. thr'[x] = v
  BY <1>1 DEF Becomes, Inv, TypeInv
<1>4. TypeInv'
  BY <1>2 DEF Accepts, RowsMove, Frame, Inv, TypeInv
<1>5. Approvals'
  BY <1>1, <1>2, <1>3 DEF Accepts, RowsMove, Inv, Approvals, Approved, Committed, Moves
<1>6. InStep'
  BY <1>1, <1>2, <1>3 DEF Accepts, Frame, Inv, InStep, Moves
<1> QED
  BY <1>4, <1>5, <1>6 DEF Inv

\* A move begins with the lease as it is.
Sets(x) ==
  /\ \E v \in ThreadType : /\ Becomes(x, v) /\ v.at \in {"stage", "write"}
                            /\ v.cur = lease /\ (v.op = "move" => Approved(v.row)')
  /\ thr[x].at \notin Moves /\ torn' = (torn \/ Moving # {})
  /\ RowsMove /\ Frame

LEMMA SetsKeeps == ASSUME Inv, NEW x \in Threads, Sets(x) PROVE Inv'
<1>1. PICK v \in ThreadType : /\ Becomes(x, v) /\ v.at \in {"stage", "write"}
                             /\ v.cur = lease /\ (v.op = "move" => Approved(v.row)')
  BY DEF Sets
<1>2. thr' \in [Threads -> ThreadType] /\ \A y \in Threads : y # x => thr'[y] = thr[y]
  BY <1>1 DEF Becomes, Inv, TypeInv
<1>3. thr'[x] = v
  BY <1>1 DEF Becomes, Inv, TypeInv
<1>4. TypeInv'
  BY <1>2 DEF Sets, RowsMove, Frame, Inv, TypeInv
<1>5. Approvals'
  BY <1>1, <1>2, <1>3 DEF Sets, RowsMove, Inv, Approvals, Approved, Committed, Moves
<1>6. InStep'
  <2> SUFFICES ASSUME ~torn' PROVE InStep'
    BY DEF InStep
  <2>1. ~torn /\ \A y \in Threads : thr[y].at \notin Moves
    BY DEF Sets, Moving, Moves
  <2> QED
    BY <1>1, <1>2, <1>3, <2>1 DEF Sets, Frame, Inv, InStep, Moves
<1> QED
  BY <1>4, <1>5, <1>6 DEF Inv

\* The steps of a move itself.
LEMMA StageKeeps == ASSUME Inv, NEW x \in Threads, Stage(x) PROVE Inv'
<1> DEFINE t == thr[x]
           v == [[t EXCEPT !.at = "write"] EXCEPT !.next = Staged(x)]
<1>1. t \in ThreadType /\ t.at = "stage" /\ t.cur \in LeaseType /\ t.next \in BindType
  BY ThreadFields DEF Inv, TypeInv, Stage
<1>2. Staged(x) \in BindType
  <2>1. content[t.next.dir] \in Versions
    BY <1>1 DEF Inv, TypeInv, BindType
  <2> QED
    BY <1>1, <2>1 DEF Staged, BindType
<1>3. v \in ThreadType /\ v.at = "write" /\ v.op = t.op /\ v.row = t.row /\ v.cur = t.cur
  BY <1>1, <1>2 DEF ThreadType, Steps
<1>4. /\ UNCHANGED <<content, lease, mapping, rows, torn>>
      /\ thr' \in [Threads -> ThreadType] /\ thr'[x] = v
      /\ \A y \in Threads : y # x => thr'[y] = thr[y]
  <2>1. thr' = [thr EXCEPT ![x] = v]
    BY DEF Stage, Inv, TypeInv
  <2> QED
    BY <1>3, <2>1 DEF Stage, Inv, TypeInv
<1> HIDE DEF v
<1>5. TypeInv'
  BY <1>4 DEF Inv, TypeInv
<1>6. Approvals'
  BY <1>1, <1>3, <1>4 DEF Inv, Approvals, Approved, Committed, Moves
<1>7. InStep'
  BY <1>1, <1>3, <1>4 DEF Inv, InStep, Moves
<1> QED
  BY <1>5, <1>6, <1>7 DEF Inv

LEMMA WriteKeeps == ASSUME Inv, NEW x \in Threads, Write(x) PROVE Inv'
<1> DEFINE t == thr[x]
           v == [t EXCEPT !.at = "reconcile"]
<1>1. t \in ThreadType /\ t.at = "write" /\ t.cur \in LeaseType /\ t.next \in BindType
  BY ThreadFields DEF Inv, TypeInv, Write
<1>2. lease' \in LeaseType /\ lease'.bind = t.next
  BY <1>1 DEF Write, Updated, LeaseType
<1>3. /\ v \in ThreadType /\ v.at = "reconcile" /\ v.op = t.op /\ v.row = t.row
      /\ v.cur = t.cur /\ v.next = t.next
  BY <1>1, AtStep DEF Steps
<1>4. /\ UNCHANGED <<content, mapping, rows, torn>>
      /\ thr' \in [Threads -> ThreadType] /\ thr'[x] = v
      /\ \A y \in Threads : y # x => thr'[y] = thr[y]
  <2>1. thr' = [thr EXCEPT ![x] = v]
    BY DEF Write, Inv, TypeInv
  <2> QED
    BY <1>3, <2>1 DEF Write, Inv, TypeInv
<1> HIDE DEF v
<1>5. TypeInv'
  BY <1>2, <1>4 DEF Inv, TypeInv
<1>6. Approvals'
  BY <1>1, <1>3, <1>4 DEF Inv, Approvals, Approved, Committed, Moves
<1>7. InStep'
  <2> SUFFICES ASSUME ~torn PROVE InStep'
    BY <1>4 DEF InStep
  <2>1. \A y \in Threads : thr[y].at \in Moves => y = x
    BY <1>1 DEF Inv, InStep, Moves
  <2>2. t.cur.bind = mapping
    BY <1>1, <2>1 DEF Inv, InStep, Moves
  <2> QED
    BY <1>2, <1>3, <1>4, <2>1, <2>2 DEF InStep, Moves
<1> QED
  BY <1>5, <1>6, <1>7 DEF Inv

LEMMA ReconcileKeeps == ASSUME Inv, NEW x \in Threads, Reconcile(x) PROVE Inv'
<1> DEFINE t == thr[x]
           m == [[t EXCEPT !.at = "mark"] EXCEPT !.cur = Free.cur]
           v == IF t.op = "refresh" THEN Free ELSE m
<1>1. /\ t \in ThreadType /\ t.at = "reconcile" /\ t.cur \in LeaseType
      /\ t.next \in BindType
  BY ThreadFields DEF Inv, TypeInv, Reconcile
<1>2. m \in ThreadType /\ m.at = "mark" /\ m.op = t.op /\ m.row = t.row
  BY <1>1, FreeType DEF ThreadType, Steps
<1>3. /\ v \in ThreadType /\ v.at \in {"idle", "mark"}
      /\ v.at = "mark" => v.op = t.op /\ v.row = t.row
  BY <1>2, FreeType
<1>4. /\ UNCHANGED <<content, lease, rows, torn>> /\ mapping' = t.next
      /\ thr' \in [Threads -> ThreadType] /\ thr'[x] = v
      /\ \A y \in Threads : y # x => thr'[y] = thr[y]
  <2>1. thr' = [thr EXCEPT ![x] = v]
    BY DEF Reconcile
  <2> HIDE DEF v
  <2> QED
    BY <1>3, <2>1 DEF Reconcile, Inv, TypeInv
<1> HIDE DEF v
<1>5. TypeInv'
  BY <1>1, <1>4 DEF Inv, TypeInv
<1>6. Approvals'
  BY <1>1, <1>3, <1>4 DEF Inv, Approvals, Approved, Committed, Moves
<1>7. InStep'
  <2> SUFFICES ASSUME ~torn PROVE InStep'
    BY <1>4 DEF InStep
  <2>1. \A y \in Threads : thr[y].at \in Moves => y = x
    BY <1>1 DEF Inv, InStep, Moves
  <2>2. t.next = lease.bind
    BY <1>1 DEF Inv, InStep
  <2> QED
    BY <1>3, <1>4, <2>1, <2>2 DEF InStep, Moves
<1> QED
  BY <1>5, <1>6, <1>7 DEF Inv

LEMMA ReconcileFailsKeeps ==
  ASSUME Inv, NEW x \in Threads, ReconcileFails(x)
  PROVE  Inv'
<1>1. thr[x].at = "reconcile" /\ thr[x].cur \in LeaseType
  BY ThreadFields DEF Inv, TypeInv, ReconcileFails
<1>2. RowsMove
  BY RowsStay, RowsFailed DEF ReconcileFails
<1>3. /\ UNCHANGED <<content, mapping, torn>> /\ lease' = thr[x].cur
      /\ thr' \in [Threads -> ThreadType] /\ thr'[x] = Free
      /\ \A y \in Threads : y # x => thr'[y] = thr[y]
  BY EndsThread DEF ReconcileFails, Restored, Becomes, Inv, TypeInv
<1>4. Free.at = "idle"
  BY FreeType
<1>5. TypeInv'
  BY <1>1, <1>2, <1>3 DEF RowsMove, Inv, TypeInv
<1>6. Approvals'
  BY <1>2, <1>3, <1>4 DEF RowsMove, Inv, Approvals, Approved, Committed, Moves
<1>7. InStep'
  <2> SUFFICES ASSUME ~torn PROVE InStep'
    BY <1>3 DEF InStep
  <2>1. \A y \in Threads : thr[y].at \in Moves => y = x
    BY <1>1 DEF Inv, InStep, Moves
  <2>2. thr[x].cur.bind = mapping
    BY <1>1 DEF Inv, InStep
  <2> QED
    BY <1>3, <1>4, <2>1, <2>2 DEF InStep, Moves
<1> QED
  BY <1>5, <1>6, <1>7 DEF Inv

\* A revocation writes the lease it loaded; where no move wrote in between, the
\* binding stays.
LEMMA RevokeKeeps == ASSUME Inv, NEW x \in Threads, RevokeWrite(x) PROVE Inv'
<1>1. thr[x].at = "revoke" /\ thr[x].cur \in LeaseType
  BY ThreadFields DEF Inv, TypeInv, RevokeWrite
<1>2. lease' \in LeaseType /\ lease'.bind = thr[x].cur.bind
  BY <1>1 DEF RevokeWrite, LeaseType
<1>3. /\ UNCHANGED <<content, mapping, rows>> /\ torn' = (torn \/ lease # thr[x].cur)
      /\ thr' \in [Threads -> ThreadType] /\ thr'[x] = Free
      /\ \A y \in Threads : y # x => thr'[y] = thr[y]
  BY EndsThread DEF RevokeWrite, Becomes, Inv, TypeInv
<1>4. Free.at = "idle"
  BY FreeType
<1>5. TypeInv'
  BY <1>2, <1>3 DEF Inv, TypeInv
<1>6. Approvals'
  BY <1>3, <1>4 DEF Inv, Approvals, Approved, Committed, Moves
<1>7. InStep'
  <2> SUFFICES ASSUME ~torn' PROVE InStep'
    BY DEF InStep
  <2>1. ~torn /\ lease'.bind = lease.bind
    BY <1>2, <1>3
  <2> QED
    BY <1>1, <1>3, <1>4, <2>1 DEF Inv, InStep, Moves
<1> QED
  BY <1>5, <1>6, <1>7 DEF Inv

LEMMA CrashKeeps == Inv /\ Crash => Inv'
<1> SUFFICES ASSUME Inv, Crash PROVE Inv'
  OBVIOUS
<1>1. /\ UNCHANGED <<content, lease, mapping, rows>> /\ torn' = (torn \/ Moving # {})
      /\ thr' = [x \in Threads |-> Free]
  BY DEF Crash
<1>2. Free \in ThreadType /\ Free.at = "idle"
  BY FreeType
<1>3. TypeInv'
  BY <1>1, <1>2 DEF Inv, TypeInv
<1>4. Approvals'
  BY <1>1, <1>2 DEF Inv, Approvals, Approved, Committed, Moves
<1>5. InStep'
  <2> SUFFICES ASSUME ~torn' PROVE InStep'
    BY DEF InStep
  <2>1. ~torn /\ \A y \in Threads : thr[y].at \notin Moves
    BY <1>1 DEF Moving, Moves
  <2> QED
    BY <1>1, <1>2, <2>1 DEF Inv, InStep, Moves
<1> QED
  BY <1>3, <1>4, <1>5 DEF Inv

-----------------------------------------------------------------------------
(* Every action is a step of one of these kinds.                            *)

\* A thread that ends, or begins a move of an approved row or none.
LEMMA EndsRests ==
  ASSUME Inv, NEW x \in Threads, Ends(x), UNCHANGED torn, thr[x].at # "reconcile",
         RowsMove, Frame
  PROVE  Inv'
<1>1. Becomes(x, Free) /\ Free \in ThreadType /\ Free.at = "idle"
  BY EndsThread, FreeType
<1> QED
  BY <1>1, RestsKeeps DEF Rests

LEMMA BeginsSets ==
  ASSUME Inv, Current, NEW x \in Threads, NEW op \in {"move", "refresh"},
         NEW r \in Rows \cup {0}, NEW d \in Dirs, Begins(x, op, r, d),
         op = "move" => Approved(r)', thr[x].at \notin Moves, RowsMove, Frame
  PROVE  Inv'
<1>1. PICK v \in ThreadType : Becomes(x, v) /\ v.at = "stage" /\ v.op = op
                             /\ v.row = r /\ v.cur = lease
  BY BeginsThread DEF Inv, Current
<1>2. torn' = (torn \/ Moving # {})
  BY DEF Begins
<1> QED
  BY <1>1, <1>2, SetsKeeps DEF Sets

\* Nothing to move: the thread ends, or stages the same checkout again.
LEMMA RefreshKeeps ==
  ASSUME Inv, Current, NEW x \in Threads, Refreshes(x), thr[x].at \notin Moves, Frame
  PROVE  Inv'
<1>1. RowsMove /\ lease.bind.dir \in Dirs
  BY RowsStay, LeaseFields DEF Refreshes, Inv, TypeInv
<1>2. CASE Ends(x) /\ UNCHANGED torn
  BY <1>1, <1>2, EndsRests DEF Moves
<1>3. CASE Begins(x, "refresh", 0, lease.bind.dir)
  BY <1>1, <1>3, BeginsSets
<1> QED
  BY <1>2, <1>3 DEF Refreshes

LEMMA AgentKeeps ==
  ASSUME Inv, AgentCalls \/ \E d \in Dirs : AgentStart(d)
  PROVE  Inv'
<1>0. Agent \in Threads
  BY DEF Threads
<1>1. CASE AgentCalls
  <2>1. thr[Agent] \in ThreadType /\ thr[Agent].at = "idle"
    BY <1>0, <1>1, FreeType DEF AgentCalls, Inv, TypeInv
  <2>2. Becomes(Agent, [thr[Agent] EXCEPT !.at = "accepted"])
    BY <1>0, <1>1, <2>1, AtStep DEF AgentCalls, Becomes, Steps
  <2>3. [thr[Agent] EXCEPT !.at = "accepted"].at = "accepted"
    BY <2>1, AtStep DEF Steps
  <2>4. RowsMove /\ Frame /\ UNCHANGED torn
    BY <1>1, RowsStay DEF AgentCalls, Frame
  <2>5. Rests(Agent)
    BY <2>1, <2>2, <2>3, <2>4 DEF Rests, Becomes
  <2> QED
    BY <1>0, <2>5, RestsKeeps
<1>2. ASSUME NEW d \in Dirs, AgentStart(d) PROVE Inv'
  <2>0. thr[Agent].at = "accepted" /\ thr[Agent].at \notin Moves /\ Frame
    BY <1>2 DEF AgentStart, Frame, Moves
  <2>1. ASSUME Ends(Agent), UNCHANGED torn, RowsMove PROVE Inv'
    BY <1>0, <2>0, <2>1, EndsRests
  <2>2. ASSUME NEW r \in Rows, Current, Begins(Agent, "move", r, d), RowsMove, Approved(r)'
        PROVE  Inv'
    BY <1>0, <2>0, <2>2, BeginsSets
  <2>3. CASE ~Current /\ Ends(Agent) /\ UNCHANGED <<rows, torn>>
    BY <2>1, <2>3, RowsStay
  <2>4. CASE Current /\ Refreshes(Agent)
    BY <1>0, <2>0, <2>4, RefreshKeeps
  <2>5. ASSUME Current, NEW mode \in Modes, AgentMoves(d, mode) PROVE Inv'
    <3>1. ASSUME NEW r \in Rows, Creates(r, d, "pending", "nobody"),
                 Ends(Agent), UNCHANGED torn
          PROVE  Inv'
      BY <2>1, <3>1, RowsCreated
    <3>2. CASE Open(d) # 0 /\ UNCHANGED rows /\ Usable(Open(d))
               /\ Begins(Agent, "move", Open(d), d)
      <4>1. Open(d) \in Rows /\ RowsMove
        BY <3>2, OpenRow, RowsStay
      <4>2. PICK r \in Rows : r = Open(d)
        BY <4>1
      <4>3. Approved(r)'
        BY <3>2, <4>1, <4>2 DEF Usable, Inv, Approvals, Approved
      <4> QED
        BY <2>2, <2>5, <3>2, <4>1, <4>2, <4>3
    <3>3. CASE UNCHANGED rows /\ Ends(Agent) /\ UNCHANGED torn
      BY <2>1, <3>3, RowsStay
    <3>4. ASSUME NEW r \in Rows, Creates(r, d, "approved", "policy"),
                 Begins(Agent, "move", r, d)
          PROVE  Inv'
      BY <2>2, <2>5, <3>4, RowsCreated
    <3> QED
      BY <2>5, <3>1, <3>2, <3>3, <3>4 DEF AgentMoves
  <2> QED
    BY <1>2, <2>3, <2>4, <2>5 DEF AgentStart
<1> QED
  BY <1>1, <1>2

LEMMA BindKeeps ==
  ASSUME Inv, NEW c \in Controllers, NEW d \in Dirs, Bind(c, d)
  PROVE  Inv'
<1>0. c \in Threads /\ thr[c].at \notin Moves /\ Current /\ Frame
  BY FreeType DEF Threads, Bind, Moves, Frame
<1>1. CASE Refreshes(c)
  BY <1>0, <1>1, RefreshKeeps
<1>2. ASSUME NEW r \in Rows, Creates(r, d, "approved", "controller"),
             Begins(c, "move", r, d)
      PROVE  Inv'
  BY <1>0, <1>2, RowsCreated, BeginsSets
<1> QED
  BY <1>1, <1>2 DEF Bind

\* An approval of an open row, which the policy had approved or the controller does.
LEMMA ApproveKeeps ==
  ASSUME Inv, NEW c \in Controllers, NEW r \in Rows, Approve(c, r)
  PROVE  Inv'
<1> DEFINE w == [[rows[r] EXCEPT !.status = "approved"] EXCEPT
                  !.by = IF rows[r].status = "pending" THEN "controller" ELSE rows[r].by]
           v == [thr[c] EXCEPT !.at = "approved", !.row = r]
<1>0. c \in Threads /\ rows[r] \in RowType /\ thr[c] \in ThreadType /\ thr[c].at = "idle"
  BY FreeType DEF Threads, Approve, Inv, TypeInv
<1>1. w \in RowType /\ w.status = "approved" /\ w.by # "nobody"
  <2>1. \/ rows[r].status = "pending"
        \/ rows[r].status = "approved" /\ rows[r].by # "nobody"
    BY DEF Approve, Inv, Approvals, Approved
  <2> QED
    BY <1>0, <2>1 DEF RowType, Status
<1>2. rows' = [rows EXCEPT ![r] = w]
  BY DEF Approve, Inv, TypeInv
<1>3. v \in ThreadType /\ v.at = "approved" /\ v.row = r
  BY <1>0, AtRow DEF Steps
<1>4. thr' = [thr EXCEPT ![c] = v]
  BY DEF Approve, Inv, TypeInv
<1>5. UNCHANGED torn /\ Frame
  BY DEF Approve, Frame
<1> HIDE DEF w, v
<1>6. RowsMove /\ Approved(r)'
  BY <1>1, <1>2 DEF Inv, TypeInv, Approvals, Approved, RowsMove
<1>7. PICK u \in ThreadType : u = v
  BY <1>3
<1>8. Accepts(c)
  <2>1. Approved(u.row)' /\ u.at = "approved"
    BY <1>3, <1>6, <1>7
  <2> QED
    BY <1>0, <1>4, <1>5, <1>6, <1>7, <2>1 DEF Accepts, Becomes
<1> QED
  BY <1>0, <1>8, AcceptsKeeps

LEMMA ApplyKeeps == ASSUME Inv, NEW c \in Controllers, ApplyApproved(c) PROVE Inv'
<1> DEFINE r == thr[c].row
           d == rows[r].dir
<1>0. c \in Threads /\ thr[c].at = "approved" /\ thr[c].at \notin Moves /\ Frame
  BY DEF Threads, ApplyApproved, Moves, Frame
<1>1. Approved(r) /\ r \in Rows /\ d \in Dirs
  <2>1. Approved(r) /\ r \in Rows
    BY <1>0 DEF Inv, Approvals, Committed, Approved
  <2>2. rows[r] \in RowType
    BY <2>1 DEF Inv, TypeInv
  <2> QED
    BY <2>1, <2>2 DEF RowType
<1>2. CASE Ends(c) /\ UNCHANGED <<rows, torn>>
  BY <1>0, <1>2, RowsStay, EndsRests DEF Moves
<1>3. CASE Current /\ Refreshes(c)
  BY <1>0, <1>3, RefreshKeeps
<1>4. CASE Current /\ Begins(c, "move", r, d) /\ UNCHANGED rows
  <2>1. PICK q \in Rows : q = r
    BY <1>1
  <2>2. Approved(q)'
    BY <1>1, <1>4, <2>1 DEF Approved
  <2> QED
    BY <1>0, <1>1, <1>4, <2>1, <2>2, RowsStay, BeginsSets
<1> QED
  BY <1>2, <1>3, <1>4 DEF ApplyApproved

\* Reads of a row to deny, and of the lease to revoke.
LEMMA DenyReadKeeps ==
  ASSUME Inv, NEW c \in Controllers, NEW r \in Rows, DenyRead(c, r)
  PROVE  Inv'
<1> DEFINE v == [thr[c] EXCEPT !.at = "deny", !.row = r]
<1>0. c \in Threads /\ thr[c] \in ThreadType /\ thr[c].at = "idle" /\ RowsMove /\ Frame
  BY RowsStay, FreeType DEF Threads, DenyRead, Frame, Inv, TypeInv
<1>1. v \in ThreadType /\ v.at = "deny"
  BY <1>0, AtRow DEF Steps
<1>2. thr' = [thr EXCEPT ![c] = v] /\ UNCHANGED torn
  BY DEF DenyRead, Inv, TypeInv
<1> HIDE DEF v
<1> QED
  BY <1>0, <1>1, <1>2, RestsKeeps DEF Rests, Becomes

LEMMA RevokeReadKeeps == ASSUME Inv, NEW c \in Controllers, RevokeRead(c) PROVE Inv'
<1> DEFINE v == [thr[c] EXCEPT !.at = "revoke", !.cur = lease]
<1>0. c \in Threads /\ thr[c] \in ThreadType /\ thr[c].at = "idle" /\ RowsMove /\ Frame
  BY RowsStay, FreeType DEF Threads, RevokeRead, Frame, Inv, TypeInv
<1>1. v \in ThreadType /\ v.at = "revoke"
  BY <1>0 DEF ThreadType, Steps, Inv, TypeInv
<1>2. thr' = [thr EXCEPT ![c] = v] /\ torn' \in {torn, TRUE}
  BY DEF RevokeRead, Inv, TypeInv
<1> HIDE DEF v
<1> QED
  BY <1>0, <1>1, <1>2, RestsKeeps DEF Rests, Becomes

LEMMA DenyKeeps == ASSUME Inv, NEW c \in Controllers, DenyWrite(c) PROVE Inv'
<1>0. c \in Threads /\ thr[c].at = "deny" /\ Frame
  BY DEF Threads, DenyWrite, Frame
<1>1. RowsMove
  BY RowsMarked DEF DenyWrite, Status
<1> QED
  BY <1>0, <1>1, EndsRests DEF DenyWrite

\* A revert begins with the lease as it is, and the row's first binding to write.
LEMMA RevertKeeps ==
  ASSUME Inv, NEW c \in Controllers, NEW r \in Rows, Revert(c, r)
  PROVE  Inv'
<1> DEFINE v == [at |-> "write", op |-> "revert", row |-> r, cur |-> lease,
                 next |-> rows[r].from]
<1>0. c \in Threads /\ thr[c].at \notin Moves /\ rows[r] \in RowType
  BY FreeType DEF Threads, Revert, Moves, Inv, TypeInv
<1>1. v \in ThreadType /\ v.at = "write" /\ v.cur = lease /\ v.op = "revert"
  BY <1>0 DEF RowType, ThreadType, Steps, Inv, TypeInv
<1>2. /\ thr' = [thr EXCEPT ![c] = v] /\ torn' = (torn \/ Moving # {})
      /\ RowsMove /\ Frame
  BY RowsStay DEF Revert, Frame
<1> HIDE DEF v
<1> QED
  BY <1>0, <1>1, <1>2, SetsKeeps DEF Sets, Becomes

\* The ends of a move that leave the lease file alone.
LEMMA StageFailsKeeps == ASSUME Inv, NEW x \in Threads, StageFails(x) PROVE Inv'
<1>1. thr[x].at = "stage" /\ Frame
  BY DEF StageFails, Frame
<1>2. RowsMove
  BY RowsFailed DEF StageFails
<1> QED
  BY <1>1, <1>2, EndsRests DEF StageFails

LEMMA MarkKeeps == ASSUME Inv, NEW x \in Threads, Mark(x) PROVE Inv'
<1> DEFINE q == thr[x].row
           s == IF thr[x].op = "revert" THEN "reverted" ELSE "applied"
<1>0. thr[x].at = "mark" /\ Frame /\ thr[x].next \in BindType
  BY ThreadFields DEF Mark, Frame, Inv, TypeInv
<1>1. RowsMove
  <2>1. CASE thr[x].op = "revert"
    <3>1. rows' = [rows EXCEPT ![q].status = "reverted"]
      BY <2>1 DEF Mark
    <3> QED
      BY <3>1, RowsMarked DEF Status
  <2>2. CASE thr[x].op # "revert"
    <3>1. \A r \in Rows : rows[r] \in RowType
      BY DEF Inv, TypeInv
    <3>2. ASSUME NEW r \in Rows
          PROVE  LET w == [[rows[r] EXCEPT !.status = "applied"] EXCEPT !.to = thr[x].next]
                 IN  w \in RowType /\ w.status = "applied" /\ w.by = rows[r].by
      BY <1>0, <3>1 DEF RowType, Status
    <3>3. rows' = [rows EXCEPT ![q] = [[rows[q] EXCEPT !.status = "applied"] EXCEPT
                                         !.to = thr[x].next]]
      BY <2>2 DEF Mark
    <3>4. /\ rows' \in [Rows -> RowType]
          /\ \A r \in Rows : /\ rows'[r].by = rows[r].by
                             /\ rows'[r].status \in {rows[r].status, "applied"}
      BY <3>2, <3>3 DEF Inv, TypeInv
    <3> QED
      BY <3>4 DEF Inv, Approvals, Approved, RowsMove
  <2> QED
    BY <2>1, <2>2
<1> QED
  BY <1>0, <1>1, EndsRests DEF Mark

\* Edits of a checkout and switches of the backend change none of the rest; an
\* edit makes a version that is not above the number of edits.
LEMMA SurroundingsKeep ==
  ASSUME Inv, Bounds, SwitchBackend \/ (\E d \in Dirs : Edit(d)) \/ UNCHANGED vars
  PROVE  Inv'
<1>1. content' \in [Dirs -> Versions]
  <2>1. ASSUME NEW d \in Dirs, Edit(d) PROVE content' \in [Dirs -> Versions]
    <3>1. content' = [content EXCEPT ![d] = content[d] + 1]
      BY <2>1 DEF Edit
    <3>2. content[d] + 1 \in Versions
      BY <2>1, BoundsAssumption DEF Edit, Bounds, Versions
    <3> QED
      BY <3>1, <3>2 DEF Inv, TypeInv
  <2> QED
    BY <2>1 DEF SwitchBackend, vars, Inv, TypeInv
<1>2. UNCHANGED <<lease, mapping, rows, thr, torn>>
  BY DEF SwitchBackend, Edit, vars
<1> QED
  BY <1>1, <1>2 DEF Inv, TypeInv, Approvals, Approved, Committed, InStep

LEMMA InvInit == Init => Inv
<1> SUFFICES ASSUME Init PROVE Inv
  OBVIOUS
<1>1. \A x \in Threads : thr[x].at = "idle"
  BY FreeType DEF Init
<1>2. \A r \in Rows : rows[r].status = "none"
  BY DEF Init, NoRow
<1>3. mapping = lease.bind
  BY DEF Init
<1> QED
  BY <1>1, <1>2, <1>3, TypeInit DEF Inv, Approvals, Committed, InStep, Moves

LEMMA InvStep == Inv /\ Bounds /\ [Next]_vars => Inv'
<1> SUFFICES ASSUME Inv, Bounds, [Next]_vars PROVE Inv'
  OBVIOUS
<1>1. ASSUME NEW c \in Controllers, Controls(c) PROVE Inv'
  <2>1. CASE \E d \in Dirs : Bind(c, d)
    BY <2>1, BindKeeps
  <2>2. ASSUME NEW r \in Rows, Approve(c, r) \/ DenyRead(c, r) \/ Revert(c, r) PROVE Inv'
    BY <2>2, ApproveKeeps, DenyReadKeeps, RevertKeeps
  <2>3. CASE ApplyApproved(c) \/ DenyWrite(c)
    BY <2>3, ApplyKeeps, DenyKeeps
  <2>4. CASE RevokeRead(c)
    BY <2>4, RevokeReadKeeps
  <2>5. CASE RevokeWrite(c)
    BY <2>5, RevokeKeeps DEF Threads
  <2> QED
    BY <1>1, <2>1, <2>2, <2>3, <2>4, <2>5 DEF Controls
<1>2. ASSUME NEW x \in Threads, MoveStep(x) PROVE Inv'
  BY <1>2, StageKeeps, StageFailsKeeps, WriteKeeps, ReconcileKeeps, ReconcileFailsKeeps,
     MarkKeeps DEF MoveStep
<1> QED
  BY <1>1, <1>2, AgentKeeps, SurroundingsKeep, CrashKeeps DEF Next

-----------------------------------------------------------------------------
(* What follows.                                                            *)

\* Every variable keeps its type: no binding is of a generation or a version
\* that does not exist, and no thread holds a row or a step that is none.
THEOREM TypesHold == Spec => []TypeOK
<1>1. BindType \subseteq Bindings
  BY BoundsAssumption DEF BindType, Bindings, Versions
<1>2. LeaseType \subseteq Leases
  BY <1>1 DEF LeaseType, Leases
<1>3. Inv /\ Bounds => TypeOK
  <2> SUFFICES ASSUME Inv, Bounds PROVE TypeOK
    OBVIOUS
  <2>1. gen \in 1..MaxFaults + 1
    BY BoundsAssumption DEF Bounds
  <2>2. rows \in [Rows -> [status : {"none", "pending", "approved", "applied", "failed",
                                   "denied", "reverted"},
                         dir : Dirs, from : Bindings, to : Bindings,
                         by : {"nobody", "policy", "controller"}]]
    BY <1>1 DEF Inv, TypeInv, RowType, Status
  <2>3. thr \in [Threads -> [at : {"idle", "accepted", "approved", "stage", "write",
                                 "reconcile", "mark", "deny", "revoke"},
                           op : {"none", "move", "refresh", "revert"},
                           row : Rows \cup {0}, cur : Leases, next : Bindings]]
    BY <1>1, <1>2 DEF Inv, TypeInv, ThreadType, Steps
  <2>4. lease \in Leases /\ mapping \in Bindings
    BY <1>1, <1>2 DEF Inv, TypeInv
  <2>5. content \in [Dirs -> 0..MaxEdits] /\ torn \in BOOLEAN
    BY DEF Inv, TypeInv, Versions
  <2>6. faults \in 0..MaxFaults /\ edits \in 0..MaxEdits
    BY DEF Bounds
  <2> QED
    BY <2>1, <2>2, <2>3, <2>4, <2>5, <2>6 DEF TypeOK
<1> QED
  BY InvInit, InvStep, BoundsInit, BoundsStep, <1>3, PTL DEF Spec

\* The lease is only ever bound to snapshots of its own generation: the binding
\* a move writes is made from the generation that its lease had when it began.
THEOREM LeaseKeepsGenerationHolds == Spec => []LeaseKeepsGeneration
<1>1. Inv => LeaseKeepsGeneration
  BY LeaseFields DEF Inv, TypeInv, LeaseKeepsGeneration
<1> QED
  BY InvInit, InvStep, BoundsInit, BoundsStep, <1>1, PTL DEF Spec

\* No move is staged or written for a row that nobody approved.
THEOREM MovesAreApprovedHolds == Spec => []MovesAreApproved
<1>1. Inv => MovesAreApproved
  BY DEF Inv, Approvals, Approved, Committed, Moves, Moving, MovesAreApproved
<1> QED
  BY InvInit, InvStep, BoundsInit, BoundsStep, <1>1, PTL DEF Spec

\* While moves do not overlap and the daemon lives, the metadata names the
\* lease's binding whenever no move is between its write and its reconcile.
THEOREM MappingFollowsLeaseHolds == Spec => []MappingFollowsLease
<1>1. Inv => MappingFollowsLease
  BY DEF Inv, InStep, MappingFollowsLease
<1> QED
  BY InvInit, InvStep, BoundsInit, BoundsStep, <1>1, PTL DEF Spec

\* A revoked lease comes back only from a move that had loaded it before.
LEMMA RevokedStep ==
  Inv /\ [Next]_vars =>
    \/ lease' = lease
    \/ ~(~lease.active /\ lease'.active)
    \/ \E x \in Threads : thr[x].at \in {"write", "reconcile"} /\ thr[x].cur.active
<1> SUFFICES ASSUME Inv, [Next]_vars, lease' # lease, lease'.active
             PROVE  \E x \in Threads :
                      thr[x].at \in {"write", "reconcile"} /\ thr[x].cur.active
  OBVIOUS
<1>1. ASSUME NEW x \in Threads, Write(x) \/ ReconcileFails(x)
      PROVE  thr[x].at \in {"write", "reconcile"} /\ thr[x].cur.active
  <2>1. thr[x].cur \in LeaseType
    BY ThreadFields DEF Inv, TypeInv
  <2>2. lease'.active = thr[x].cur.active
    BY <1>1, <2>1 DEF Write, Updated, ReconcileFails, Restored, LeaseType
  <2> QED
    BY <1>1, <2>2 DEF Write, ReconcileFails
<1>2. ASSUME NEW c \in Controllers, RevokeWrite(c) PROVE FALSE
  <2>1. thr[c].cur \in LeaseType
    BY ThreadFields DEF Threads, Inv, TypeInv
  <2> QED
    BY <1>2, <2>1 DEF RevokeWrite, LeaseType
<1>3. ASSUME NEW x \in Threads, MoveStep(x), ~Write(x), ~ReconcileFails(x)
      PROVE  UNCHANGED lease
  BY <1>3 DEF MoveStep, Stage, StageFails, Reconcile, Mark
<1>4. ASSUME NEW c \in Controllers, Controls(c), ~RevokeWrite(c) PROVE UNCHANGED lease
  BY <1>4 DEF Controls, Bind, Approve, ApplyApproved, DenyRead, DenyWrite, Revert, RevokeRead
<1>5. ASSUME AgentCalls \/ (\E d \in Dirs : AgentStart(d) \/ Edit(d)) \/ SwitchBackend
               \/ Crash \/ UNCHANGED vars
      PROVE  UNCHANGED lease
  BY <1>5 DEF AgentCalls, AgentStart, Edit, SwitchBackend, Crash, vars
<1> QED
  BY <1>1, <1>2, <1>3, <1>4, <1>5 DEF Next

\* A move that begins after the revocation leaves the lease revoked.
THEOREM RevokedStaysForLaterMovesHolds == Spec => RevokedStaysForLaterMoves
<1>1. Inv /\ [Next]_vars =>
        [~lease.active /\ lease'.active =>
           \E x \in Threads : thr[x].at \in {"write", "reconcile"} /\ thr[x].cur.active]_lease
  BY RevokedStep
<1> QED
  BY InvInit, InvStep, BoundsInit, BoundsStep, <1>1, PTL DEF Spec, RevokedStaysForLaterMoves
=============================================================================
