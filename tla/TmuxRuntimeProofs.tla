------------------------- MODULE TmuxRuntimeProofs -------------------------
(* Proofs about TmuxRuntime, for every value of its constants.              *)
EXTENDS TmuxRuntime, TLAPS

-----------------------------------------------------------------------------
(* The types, and what a step may do to the row.                            *)

RowType   == [pane : Panes \cup {NoPane}, proc : Procs, state : States,
              writer : Clients \cup {NoClient}, leased : BOOLEAN]
RegType   == [pane : Panes \cup {NoPane}, proc : Procs]
CheckType == [phase : {"idle", "read", "assessed"}, always : BOOLEAN,
              seen : Sights, safe : BOOLEAN]
ReqType   == [phase : {"idle", "read", "assessed", "granted", "refused"},
              renews : BOOLEAN, seen : Sights, safe : BOOLEAN]

\* What makes a row one that the Store can hold.
RowOK(r) ==
  /\ r \in RowType
  /\ r.pane = NoPane => r = NoRow
  /\ r.leased => r.writer # NoClient

\* TypeOK is inductive with this: a registration in flight looked at a pane.
RegHasPane == reg.pane = NoPane => reg = NoReg

TypeInv == TypeOK /\ RegHasPane

\* The values the handlers write are of their types.
LEMMA Constants ==
  /\ RowOK(NoRow) /\ NoReg \in RegType /\ NoCheck \in CheckType /\ NoReq \in ReqType
  /\ NoSight \in Sights /\ 0 \in Procs
<1>1. 0 \in Procs
  BY MaxProcsAssumption DEF Procs
<1>2. NoSight \in Sights
  BY <1>1 DEF NoSight, Sights, States
<1>3. RowOK(NoRow)
  BY <1>1 DEF RowOK, RowType, NoRow, States
<1> QED
  BY <1>1, <1>2, <1>3 DEF NoReg, RegType, NoCheck, CheckType, NoReq, ReqType

LEMMA SightType == ASSUME RowOK(row) PROVE Sight \in Sights
  BY DEF RowOK, RowType, Sight, Sights

LEMMA TypeFrame ==
  TypeOK <=> /\ panes \in [Panes -> Procs] /\ procs \in Procs
             /\ RowOK(row) /\ reg \in RegType /\ check \in CheckType
             /\ req \in [Clients -> ReqType]
             /\ attached \subseteq Clients /\ leaving \subseteq Clients
  BY DEF TypeOK, RowOK, RowType, RegType, CheckType, ReqType

\* set_tmux_runtime_state keeps the pane, and a lease only where it was safe.
LEMMA AssessedRow ==
  ASSUME RowOK(row), NEW safe \in BOOLEAN
  PROVE  /\ RowOK(Assessed(safe)) /\ Assessed(safe).pane = row.pane
         /\ Assessed(safe).writer \in {row.writer, NoClient}
         /\ \/ Assessed(safe).writer = row.writer
            \/ row.pane # NoPane /\ Assessed(safe).state = "unsafe"
<1>1. CASE ~HasRow
  BY <1>1 DEF Assessed
<1>2. CASE HasRow
  BY <1>2 DEF Assessed, RowOK, RowType, HasRow, States
<1> QED
  BY <1>1, <1>2

-----------------------------------------------------------------------------
(* Every step keeps every variable within its type.                         *)

LEMMA TypeInit == Init => TypeInv
  BY Constants, TypeFrame DEF Init, TypeInv, RegHasPane, NoReg

LEMMA TypeServer ==
  ASSUME TypeInv, NEW p \in Panes, StartPane(p) \/ ClosePane(p) \/ RegisterLook(p)
  PROVE  TypeInv'
<1> USE DEF TypeInv
<1>1. CASE StartPane(p)
  <2>1. procs' \in Procs /\ panes' \in [Panes -> Procs]
    BY <1>1, TypeFrame, MaxProcsAssumption DEF StartPane, Procs
  <2> QED
    BY <1>1, <2>1 DEF StartPane, TypeOK, RegHasPane, NoReg
<1>2. CASE ClosePane(p)
  BY <1>2, Constants DEF ClosePane, TypeOK, RegHasPane, NoReg
<1>3. CASE RegisterLook(p)
  <2>1. reg' \in RegType /\ reg'.pane # NoPane
    BY <1>3, TypeFrame, NoPaneAssumption DEF RegisterLook, RegType
  <2> QED
    BY <1>3, <2>1 DEF RegisterLook, TypeOK, RegType, RegHasPane
<1> QED
  BY <1>1, <1>2, <1>3

\* What a registration writes.
LEMMA RegisteredRow ==
  ASSUME TypeInv, RegisterWrite
  PROVE  /\ RowOK(row') /\ row'.pane = reg.pane /\ row'.pane # NoPane
         /\ row'.pane = row.pane => row'.writer = row.writer
         /\ row'.pane # row.pane => row'.writer = NoClient
<1>1. reg \in RegType /\ reg.pane # NoPane /\ RowOK(row)
  BY TypeFrame DEF RegisterWrite, TypeInv, RegHasPane
<1>2. CASE row.pane = reg.pane
  <2>1. row' = [pane |-> reg.pane, proc |-> reg.proc, state |-> "ready",
                writer |-> row.writer, leased |-> row.leased]
    BY <1>1, <1>2 DEF RegisterWrite, KeepsWriter, RowOK, RowType
  <2> QED
    BY <1>1, <1>2, <2>1 DEF RowOK, RowType, RegType, States
<1>3. CASE row.pane # reg.pane
  <2>1. row' = [pane |-> reg.pane, proc |-> reg.proc, state |-> "ready",
                writer |-> NoClient, leased |-> FALSE]
    BY <1>3 DEF RegisterWrite, KeepsWriter
  <2> QED
    BY <1>1, <1>3, <2>1 DEF RowOK, RowType, RegType, States
<1> QED
  BY <1>2, <1>3

\* A step that only changes the row keeps the types when the row it writes is one.
LEMMA TypeMapping ==
  ASSUME TypeInv,
         RegisterWrite \/ DeleteMapping \/ ExpireLease \/ CheckInspect \/ CheckWrite
           \/ \E always \in BOOLEAN : CheckRead(always)
  PROVE  TypeInv'
<1>0. /\ RowOK(row) /\ check \in CheckType /\ check.seen \in Sights
      /\ check.safe \in BOOLEAN /\ check.always \in BOOLEAN
  BY TypeFrame DEF TypeInv, CheckType
<1>1. CASE RegisterWrite
  BY <1>1, RegisteredRow, Constants DEF RegisterWrite, TypeInv, TypeOK, RowOK, RowType,
       RegType, RegHasPane
<1>2. CASE DeleteMapping
  BY <1>2, Constants DEF DeleteMapping, TypeInv, TypeOK, RowOK, RowType, RegHasPane, NoReg
<1>3. CASE ExpireLease
  <2>1. row.leased /\ row.pane # NoPane
    BY <1>0, <1>3 DEF ExpireLease, RowOK, NoRow
  <2>2. row' = [row EXCEPT !.leased = FALSE]
    BY <1>3 DEF ExpireLease
  <2>3. row' \in RowType /\ row'.pane = row.pane /\ ~row'.leased
    BY <1>0, <2>2 DEF RowOK, RowType
  <2>4. RowOK(row')
    BY <2>1, <2>3 DEF RowOK
  <2> QED
    BY <1>3, <2>4 DEF ExpireLease, TypeInv, TypeOK, RowOK, RowType, RegHasPane, NoReg
<1>4. CASE CheckInspect
  <2>1. check' \in CheckType
    BY <1>0, <1>4 DEF CheckInspect, CheckType, Matches
  <2> QED
    BY <1>4, <2>1 DEF CheckInspect, TypeInv, TypeOK, CheckType, RegHasPane, NoReg
<1>5. CASE CheckWrite
  <2>1. RowOK(row')
    BY <1>0, <1>5, AssessedRow DEF CheckWrite
  <2> QED
    BY <1>5, <2>1, Constants DEF CheckWrite, TypeInv, TypeOK, RowOK, RowType, CheckType,
         RegHasPane, NoReg
<1>6. ASSUME NEW always \in BOOLEAN, CheckRead(always) PROVE TypeInv'
  <2>1. check' \in CheckType
    BY <1>0, <1>6, SightType DEF CheckRead, CheckType
  <2> QED
    BY <1>6, <2>1 DEF CheckRead, TypeInv, TypeOK, CheckType, RegHasPane, NoReg
<1> QED
  BY <1>1, <1>2, <1>3, <1>4, <1>5, <1>6

\* What a grant writes: the lease of the client, on the pane the row names.
LEMMA GrantedRow ==
  ASSUME TypeInv, NEW c \in Clients, AcquireGrant(c)
  PROVE  RowOK(row') /\ row'.pane = row.pane /\ row'.writer = c
<1>1. RowOK(row) /\ row.pane # NoPane
  BY TypeFrame DEF TypeInv, AcquireGrant, FreeTo, HasRow
<1>2. PICK s \in States : row' = [row EXCEPT !.writer = c, !.leased = TRUE, !.state = s]
  BY <1>1 DEF AcquireGrant, RowOK, RowType, States
<1>3. row' \in RowType /\ row'.pane = row.pane /\ row'.writer = c
  BY <1>1, <1>2 DEF RowOK, RowType
<1> QED
  BY <1>1, <1>3, NoClientAssumption DEF RowOK

\* What a release leaves.
LEMMA ReleasedRow ==
  ASSUME TypeInv, NEW c \in Clients, Release(c)
  PROVE  /\ RowOK(row') /\ row'.pane = row.pane
         /\ \/ row'.writer = row.writer
            \/ row'.writer = NoClient /\ row.writer \in {c, NoClient}
<1>1. RowOK(row)
  BY TypeFrame DEF TypeInv
<1>2. CASE Releases(c)
  <2>1. row' = [row EXCEPT !.writer = NoClient, !.leased = FALSE] /\ row.pane # NoPane
    BY <1>2 DEF Release, Releases, HasRow
  <2>2. row' \in RowType /\ row'.pane = row.pane /\ row'.writer = NoClient /\ ~row'.leased
    BY <1>1, <2>1 DEF RowOK, RowType
  <2> QED
    BY <1>2, <2>1, <2>2 DEF RowOK, Releases
<1>3. CASE ~Releases(c)
  BY <1>1, <1>3 DEF Release
<1> QED
  BY <1>2, <1>3

\* What a refusal leaves: the row as it was, or as it was assessed.
LEMMA RefusedRow ==
  ASSUME TypeInv, NEW c \in Clients, AcquireRefuse(c)
  PROVE  /\ RowOK(row') /\ row'.pane = row.pane /\ row'.writer \in {row.writer, NoClient}
         /\ \/ row'.writer = row.writer
            \/ row.pane # NoPane /\ row'.state = "unsafe"
<1>1. RowOK(row) /\ req[c].safe \in BOOLEAN
  BY TypeFrame DEF TypeInv, ReqType
<1>2. row' = row \/ row' = Assessed(req[c].safe)
  BY DEF AcquireRefuse
<1> QED
  BY <1>1, <1>2, AssessedRow

\* A client's step keeps the types: it writes requests of the right shape.
LEMMA TypeClient == ASSUME TypeInv, NEW c \in Clients, Client(c) PROVE TypeInv'
<1>0. /\ RowOK(row) /\ req \in [Clients -> ReqType]
      /\ req[c].seen \in Sights /\ req[c].safe \in BOOLEAN /\ req[c].renews \in BOOLEAN
      /\ attached \subseteq Clients /\ leaving \subseteq Clients
  BY TypeFrame DEF TypeInv, ReqType
<1>1. ASSUME NEW r \in ReqType, req' = [req EXCEPT ![c] = r]
      PROVE  req' \in [Clients -> ReqType]
  BY <1>0, <1>1
<1>2. NoReq \in ReqType
  BY Constants
<1>3. ASSUME RowOK(row'), req' \in [Clients -> ReqType],
             attached' \subseteq Clients, leaving' \subseteq Clients,
             UNCHANGED <<panes, procs, reg, check>>
      PROVE  TypeInv'
  BY <1>3 DEF TypeInv, TypeOK, RowOK, RowType, ReqType, RegHasPane, NoReg
<1>4. ASSUME NEW phase \in {"granted", "refused"}, Answer(c, phase)
      PROVE  req' \in [Clients -> ReqType]
  <2>1. [NoReq EXCEPT !.phase = phase, !.renews = req[c].renews] \in ReqType
    BY <1>0, <1>2 DEF ReqType
  <2> QED
    BY <1>1, <1>4, <2>1 DEF Answer
<1>a. CASE AcquireRead(c)
  <2>1. PICK r \in ReqType : req' = [req EXCEPT ![c] = r]
    <3>1. [phase |-> IF HasRow THEN "read" ELSE "refused", renews |-> c \in attached,
           seen |-> IF HasRow THEN Sight ELSE NoSight, safe |-> FALSE] \in ReqType
      BY <1>0, SightType, Constants DEF ReqType
    <3> QED
      BY <1>a, <3>1 DEF AcquireRead
  <2> QED
    BY <1>0, <1>1, <1>3, <1>a, <2>1 DEF AcquireRead
<1>b. CASE AcquireInspect(c)
  <2>1. req' \in [Clients -> ReqType]
    BY <1>0, <1>b DEF AcquireInspect, ReqType, Matches
  <2> QED
    BY <1>0, <1>3, <1>b, <2>1 DEF AcquireInspect
<1>c. CASE AcquireRefuse(c)
  BY <1>0, <1>3, <1>4, <1>c, RefusedRow DEF AcquireRefuse
<1>d. CASE AcquireGrant(c)
  BY <1>0, <1>3, <1>4, <1>d, GrantedRow DEF AcquireGrant
<1>e. CASE Attach(c)
  BY <1>0, <1>1, <1>2, <1>3, <1>e DEF Attach
<1>f. CASE GiveUp(c)
  BY <1>0, <1>1, <1>2, <1>3, <1>f DEF GiveUp
<1>g. CASE Detach(c)
  BY <1>0, <1>3, <1>g DEF Detach, Detached
<1>h. CASE Renewed(c)
  <2>1. attached' \subseteq Clients /\ leaving' \subseteq Clients
    BY <1>0, <1>h DEF Renewed, Detached
  <2> QED
    BY <1>0, <1>1, <1>2, <1>3, <1>h, <2>1 DEF Renewed
<1>i. CASE Release(c)
  BY <1>0, <1>3, <1>i, ReleasedRow DEF Release
<1>j. CASE Kill(c)
  <2>1. req' \in [Clients -> ReqType]
    BY <1>0, <1>j DEF Kill, ReqType
  <2> QED
    BY <1>0, <1>3, <1>j, <2>1 DEF Kill
<1> QED
  BY <1>a, <1>b, <1>c, <1>d, <1>e, <1>f, <1>g, <1>h, <1>i, <1>j DEF Client, AcquireHandler

LEMMA TypeStep == TypeInv /\ [Next]_vars => TypeInv'
<1> SUFFICES ASSUME TypeInv, [Next]_vars PROVE TypeInv'
  OBVIOUS
<1>1. CASE UNCHANGED vars
  BY <1>1 DEF vars, TypeInv, TypeOK, RegHasPane, NoReg
<1>2. CASE Next
  BY <1>2, TypeServer, TypeMapping, TypeClient DEF Next
<1> QED
  BY <1>1, <1>2

\* Every variable keeps its type and the row is one the Store can hold: without
\* a pane it is empty, and a lease has a writer.
THEOREM TypesHold == Spec => []TypeOK
<1>1. TypeInv => TypeOK
  BY DEF TypeInv
<1> QED
  BY TypeInit, TypeStep, <1>1, PTL DEF Spec

-----------------------------------------------------------------------------
(* The writer lease.                                                        *)

\* The two properties of a step, together.
EndsForCause ==
  \A c \in Clients : row.writer = c /\ row.leased =>
    \/ row'.writer = c
    \/ c \in leaving \ leaving'
    \/ row'.pane # NoPane /\ (row'.state = "unsafe" \/ row'.pane # row.pane)

StaysOnPane == row'.pane # row.pane => row'.writer = NoClient

LEMMA LeaseMapping ==
  ASSUME TypeInv, RegisterWrite \/ DeleteMapping \/ ExpireLease \/ CheckWrite
  PROVE  EndsForCause /\ StaysOnPane
<1>0. RowOK(row) /\ check.safe \in BOOLEAN
  BY TypeFrame DEF TypeInv, CheckType
<1>1. CASE RegisterWrite
  BY <1>1, RegisteredRow DEF EndsForCause, StaysOnPane
<1>2. CASE DeleteMapping
  BY <1>2, NoClientAssumption DEF DeleteMapping, Deletes, NoRow, EndsForCause, StaysOnPane
<1>3. CASE ExpireLease
  <2>1. row'.pane = row.pane /\ row'.writer = row.writer
    BY <1>0, <1>3 DEF ExpireLease, RowOK, RowType
  <2> QED
    BY <2>1 DEF EndsForCause, StaysOnPane
<1>4. CASE CheckWrite
  <2>1. row' = row \/ row' = Assessed(check.safe)
    BY <1>4 DEF CheckWrite
  <2> QED
    BY <1>0, <2>1, AssessedRow DEF EndsForCause, StaysOnPane
<1> QED
  BY <1>1, <1>2, <1>3, <1>4

LEMMA LeaseClient ==
  ASSUME TypeInv, NEW c \in Clients, AcquireRefuse(c) \/ AcquireGrant(c) \/ Release(c)
  PROVE  EndsForCause /\ StaysOnPane
<1>1. CASE AcquireRefuse(c)
  BY <1>1, RefusedRow DEF EndsForCause, StaysOnPane
<1>2. CASE AcquireGrant(c)
  <2>1. row.leased => row.writer \in {c, NoClient}
    BY <1>2 DEF AcquireGrant, FreeTo
  <2> QED
    BY <1>2, <2>1, GrantedRow, NoClientAssumption DEF EndsForCause, StaysOnPane
<1>3. CASE Release(c)
  <2>1. c \in leaving \ leaving'
    BY <1>3 DEF Release
  <2> QED
    BY <1>3, <2>1, ReleasedRow, NoClientAssumption DEF EndsForCause, StaysOnPane
<1> QED
  BY <1>1, <1>2, <1>3

\* All other steps leave the row as it is.
LEMMA LeaseStep == TypeInv /\ [Next]_vars => EndsForCause /\ StaysOnPane
<1> SUFFICES ASSUME TypeInv, [Next]_vars PROVE EndsForCause /\ StaysOnPane
  OBVIOUS
<1>1. ASSUME UNCHANGED row PROVE EndsForCause /\ StaysOnPane
  BY <1>1 DEF EndsForCause, StaysOnPane
<1>2. CASE UNCHANGED vars
  BY <1>1, <1>2 DEF vars
<1>3. ASSUME NEW p \in Panes, StartPane(p) \/ ClosePane(p) \/ RegisterLook(p)
      PROVE  UNCHANGED row
  BY <1>3 DEF StartPane, ClosePane, RegisterLook
<1>4. ASSUME CheckInspect \/ \E always \in BOOLEAN : CheckRead(always) PROVE UNCHANGED row
  BY <1>4 DEF CheckInspect, CheckRead
<1>5. ASSUME NEW c \in Clients, Client(c), ~AcquireRefuse(c), ~AcquireGrant(c), ~Release(c)
      PROVE  UNCHANGED row
  BY <1>5 DEF Client, AcquireHandler, AcquireRead, AcquireInspect, Attach, GiveUp, Detach,
       Renewed, Kill
<1> QED
  BY <1>1, <1>2, <1>3, <1>4, <1>5, LeaseMapping, LeaseClient DEF Next

\* An unexpired writer lease ends only with its client's release, an unsafe
\* inspection or a mapping that moved, whatever the handlers that read the row
\* before write now.
THEOREM LeaseEndsForCauseHolds == Spec => LeaseEndsForCause
  BY TypeInit, TypeStep, LeaseStep, PTL DEF Spec, LeaseEndsForCause, EndsForCause

\* A mapping that is registered on another pane has no writer.
THEOREM LeaseStaysOnPaneHolds == Spec => LeaseStaysOnPane
  BY TypeInit, TypeStep, LeaseStep, PTL DEF Spec, LeaseStaysOnPane, StaysOnPane
=============================================================================
