---------------------------- MODULE TmuxRuntime ----------------------------
(***************************************************************************)
(* The tmux runtime mapping of one agent and its writer lease: the row of  *)
(* the Store, the daemon's handlers, which await the inspection of the     *)
(* live tmux server between reading the row and writing it, the panes of   *)
(* that server, and the TUI clients that attach an embedded terminal,      *)
(* renew the lease on a timer and detach at any time.  What a handler does *)
(* between two awaits is one action.                                       *)
(***************************************************************************)
EXTENDS Naturals, FiniteSets

CONSTANTS Panes, NoPane,      \* pane ids of the tmux server
          Clients, NoClient,  \* TUI processes
          MaxProcs,           \* bound on the processes that panes ever run
          ClientsDie          \* whether TUI processes may die

ASSUME NoPaneAssumption   == NoPane \notin Panes
ASSUME NoClientAssumption == NoClient \notin Clients
ASSUME MaxProcsAssumption == MaxProcs \in Nat \ {0}
ASSUME ClientsDieAssumption == ClientsDie \in BOOLEAN

VARIABLES
  panes,    \* the start evidence of each pane's process, 0 for no pane
  procs,    \* the evidence given last
  row,      \* the mapping: pane, process evidence, state and writer lease
  reg,      \* the register handler past its look at the panes
  check,    \* the get or reconcile handler
  req,      \* each client's acquire request, handler included
  attached, \* clients whose embedded terminal is attached
  leaving   \* clients whose detach still has to release the lease

vars == <<panes, procs, row, reg, check, req, attached, leaving>>

\* "unsafe" stands for moved, missing, foreign, reused and server_lost.
States == {"ready", "unsafe"}
Procs  == 0..MaxProcs

NoRow   == [pane |-> NoPane, proc |-> 0, state |-> "unsafe", writer |-> NoClient,
            leased |-> FALSE]
NoSight == [pane |-> NoPane, proc |-> 0, state |-> "unsafe"]
Sight   == [pane |-> row.pane, proc |-> row.proc, state |-> row.state]
NoReg   == [pane |-> NoPane, proc |-> 0]
NoCheck == [phase |-> "idle", always |-> FALSE, seen |-> NoSight, safe |-> FALSE]
NoReq   == [phase |-> "idle", renews |-> FALSE, seen |-> NoSight, safe |-> FALSE]

Sights == [pane : Panes \cup {NoPane}, proc : Procs, state : States]

TypeOK ==
  /\ panes \in [Panes -> Procs] /\ procs \in Procs
  /\ row \in [pane : Panes \cup {NoPane}, proc : Procs, state : States,
              writer : Clients \cup {NoClient}, leased : BOOLEAN]
  /\ row.pane = NoPane => row = NoRow
  /\ row.leased => row.writer # NoClient
  /\ reg \in [pane : Panes \cup {NoPane}, proc : Procs]
  /\ check \in [phase : {"idle", "read", "assessed"}, always : BOOLEAN,
                seen : Sights, safe : BOOLEAN]
  /\ req \in [Clients -> [phase : {"idle", "read", "assessed", "granted", "refused"},
                          renews : BOOLEAN, seen : Sights, safe : BOOLEAN]]
  /\ attached \subseteq Clients /\ leaving \subseteq Clients

Init ==
  /\ panes = [p \in Panes |-> 0] /\ procs = 0
  /\ row = NoRow /\ reg = NoReg /\ check = NoCheck
  /\ req  = [c \in Clients |-> NoReq]
  /\ attached = {} /\ leaving = {}

HasRow == row.pane # NoPane

-----------------------------------------------------------------------------
(* The tmux server.                                                         *)

StartPane(p) ==
  /\ procs < MaxProcs /\ procs' = procs + 1
  /\ panes' = [panes EXCEPT ![p] = procs + 1]
  /\ UNCHANGED <<row, reg, check, req, attached, leaving>>

ClosePane(p) ==
  /\ panes[p] # 0
  /\ panes' = [panes EXCEPT ![p] = 0]
  /\ UNCHANGED <<procs, row, reg, check, req, attached, leaving>>

\* assess_runtime_mapping against what the panes run now
Matches(seen) == panes[seen.pane] # 0 /\ panes[seen.pane] = seen.proc

-----------------------------------------------------------------------------
(* The mapping: register, delete, get and reconcile.                        *)

RegisterLook(p) ==
  /\ reg = NoReg /\ panes[p] # 0
  /\ reg' = [pane |-> p, proc |-> panes[p]]
  /\ UNCHANGED <<panes, procs, row, check, req, attached, leaving>>

\* The upsert keeps the writer lease of the same pane on the same server.
KeepsAnyWriter(p) == TRUE                                         \* mutant
KeepsWriter(p) == row.pane = p

RegisterWrite ==
  /\ reg # NoReg /\ reg' = NoReg
  /\ row' = [pane |-> reg.pane, proc |-> reg.proc, state |-> "ready",
             writer |-> IF KeepsWriter(reg.pane) THEN row.writer ELSE NoClient,
             leased |-> KeepsWriter(reg.pane) /\ row.leased]
  /\ UNCHANGED <<panes, procs, check, req, attached, leaving>>

Deletes == HasRow /\ ~(row.writer # NoClient /\ row.leased)

DeleteMapping ==
  /\ Deletes /\ row' = NoRow
  /\ UNCHANGED <<panes, procs, reg, check, req, attached, leaving>>

\* set_tmux_runtime_state of the row that is there now; with none it raises.
Assessed(safe) ==
  IF ~HasRow THEN row
  ELSE IF safe THEN [row EXCEPT !.state = "ready"]
  ELSE [row EXCEPT !.state = "unsafe", !.writer = NoClient, !.leased = FALSE]

\* GET of the mapping, or the reconcile of all mappings, which always writes.
CheckRead(always) ==
  /\ check.phase = "idle" /\ HasRow
  /\ check' = [phase |-> "read", always |-> always, seen |-> Sight, safe |-> FALSE]
  /\ UNCHANGED <<panes, procs, row, reg, req, attached, leaving>>

CheckInspect ==
  /\ check.phase = "read"
  /\ check' = [check EXCEPT !.phase = "assessed", !.safe = Matches(check.seen)]
  /\ UNCHANGED <<panes, procs, row, reg, req, attached, leaving>>

CheckWrites == check.always \/ ~check.safe \/ check.seen.state # "ready"

CheckWrite ==
  /\ check.phase = "assessed" /\ check' = NoCheck
  /\ row' = IF CheckWrites THEN Assessed(check.safe) ELSE row
  /\ UNCHANGED <<panes, procs, reg, req, attached, leaving>>

-----------------------------------------------------------------------------
(* The writer lease: acquire, renew, release, expiry.                       *)

\* A client asks to attach, or its timer renews while a terminal is attached.
\* The handler reads the row, or refuses with 404.
AcquireRead(c) ==
  /\ req[c].phase = "idle" /\ c \notin leaving
  /\ req' = [req EXCEPT ![c] =
       [phase |-> IF HasRow THEN "read" ELSE "refused", renews |-> c \in attached,
        seen |-> IF HasRow THEN Sight ELSE NoSight, safe |-> FALSE]]
  /\ UNCHANGED <<panes, procs, row, reg, check, attached, leaving>>

AcquireInspect(c) ==
  /\ req[c].phase = "read"
  /\ req' = [req EXCEPT ![c].phase = "assessed", ![c].safe = Matches(req[c].seen)]
  /\ UNCHANGED <<panes, procs, row, reg, check, attached, leaving>>

Answer(c, phase) == req' = [req EXCEPT ![c] = [NoReq EXCEPT !.phase = phase,
                                                !.renews = req[c].renews]]

\* The row may be leased to c: its own, nobody's or an expired lease.
FreeToAnyone(c) == row.writer \in {c, NoClient} \/ ~row.leased   \* mutant
FreeTo(c) == HasRow /\ (row.writer \in {c, NoClient} \/ ~row.leased)

AcquireRefuse(c) ==
  /\ req[c].phase = "assessed"
  /\ ~req[c].safe \/ ~FreeTo(c)
  /\ row' = IF ~req[c].safe \/ req[c].seen.state # "ready"
            THEN Assessed(req[c].safe) ELSE row
  /\ Answer(c, "refused")
  /\ UNCHANGED <<panes, procs, reg, check, attached, leaving>>

AcquireGrant(c) ==
  /\ req[c].phase = "assessed" /\ req[c].safe /\ FreeTo(c)
  /\ row' = [row EXCEPT !.writer = c, !.leased = TRUE,
               !.state = IF req[c].seen.state # "ready" THEN "ready" ELSE row.state]
  /\ Answer(c, "granted")
  /\ UNCHANGED <<panes, procs, reg, check, attached, leaving>>

\* The lease's seconds are over.
ExpireLease ==
  /\ row.leased /\ row' = [row EXCEPT !.leased = FALSE]
  /\ UNCHANGED <<panes, procs, reg, check, req, attached, leaving>>

\* POST .../writer/release, which a client sends once and forgets: another
\* owner's lease is not released.
ReleasesAny(c) == HasRow                                          \* mutant
Releases(c) == HasRow /\ row.writer \in {c, NoClient}

Release(c) ==
  /\ c \in leaving /\ leaving' = leaving \ {c}
  /\ row' = IF Releases(c) THEN [row EXCEPT !.writer = NoClient, !.leased = FALSE]
            ELSE row
  /\ UNCHANGED <<panes, procs, reg, check, req, attached>>

-----------------------------------------------------------------------------
(* The embedded terminal of a client.                                       *)

\* attach_embedded_tmux_terminal with the lease: the terminal is attached
\* to the pane, or the selection changed meanwhile and the lease goes back.
Attach(c) ==
  /\ req[c].phase = "granted" /\ ~req[c].renews
  /\ req' = [req EXCEPT ![c] = NoReq]
  /\ \/ attached' = attached \cup {c} /\ UNCHANGED leaving
     \/ leaving' = leaving \cup {c} /\ UNCHANGED attached
  /\ UNCHANGED <<panes, procs, row, reg, check>>

GiveUp(c) ==
  /\ req[c].phase = "refused" /\ ~req[c].renews
  /\ req' = [req EXCEPT ![c] = NoReq]
  /\ UNCHANGED <<panes, procs, row, reg, check, attached, leaving>>

\* detach_embedded_tmux_terminal: the terminal goes first, then the release,
\* and that only if there was a terminal.
Detached(c) ==
  /\ attached' = attached \ {c}
  /\ leaving' = IF c \in attached THEN leaving \cup {c} ELSE leaving

Detach(c) ==
  /\ c \in attached /\ Detached(c)
  /\ UNCHANGED <<panes, procs, row, reg, check, req>>

\* A renewal that is refused detaches; so does one whose terminal is gone.
StaysAttached(c) == req[c].phase = "granted" /\ c \in attached

Renewed(c) ==
  /\ req[c].phase \in {"granted", "refused"} /\ req[c].renews
  /\ req' = [req EXCEPT ![c] = NoReq]
  /\ IF StaysAttached(c) THEN UNCHANGED <<attached, leaving>> ELSE Detached(c)
  /\ UNCHANGED <<panes, procs, row, reg, check>>

\* A TUI process dies; the daemon goes on with its request.
Kill(c) ==
  /\ ClientsDie
  /\ attached' = attached \ {c} /\ leaving' = leaving \ {c}
  /\ req' = IF req[c].phase = "idle" THEN req ELSE [req EXCEPT ![c].renews = TRUE]
  /\ UNCHANGED <<panes, procs, row, reg, check>>

-----------------------------------------------------------------------------
AcquireHandler(c) == AcquireInspect(c) \/ AcquireRefuse(c) \/ AcquireGrant(c)

Client(c) == \/ AcquireRead(c) \/ AcquireHandler(c) \/ Attach(c) \/ GiveUp(c)
             \/ Detach(c) \/ Renewed(c) \/ Release(c) \/ Kill(c)

Next ==
  \/ \E p \in Panes : StartPane(p) \/ ClosePane(p) \/ RegisterLook(p)
  \/ RegisterWrite \/ DeleteMapping \/ ExpireLease
  \/ \E always \in BOOLEAN : CheckRead(always)
  \/ CheckInspect \/ CheckWrite
  \/ \E c \in Clients : Client(c)

Spec == Init /\ [][Next]_vars

-----------------------------------------------------------------------------
\* An unexpired writer lease ends for one of three reasons: its client released
\* it, an inspection found the runtime unsafe, or the mapping moved to another
\* pane.  No other client's acquire, release, registration or delete ends it.
LeaseEndsForCause ==
  [][\A c \in Clients : row.writer = c /\ row.leased =>
       \/ row'.writer = c
       \/ c \in leaving \ leaving'
       \/ row'.pane # NoPane /\ (row'.state = "unsafe" \/ row'.pane # row.pane)]_vars

\* A lease never reaches over to another pane: a mapping that is registered
\* again elsewhere starts without a writer.
LeaseStaysOnPane ==
  [][row'.pane # row.pane => row'.writer = NoClient]_vars

\* docs/wiki/Runtime-and-Tmux-Operations.md, "disabling native mode detaches
\* that client and releases the lease": a client that is out, with nothing of it
\* on the way, holds none.
DetachedHoldsNoLease ==
  \A c \in Clients :
    c \notin attached \cup leaving /\ req[c].phase = "idle"
      => ~(row.writer = c /\ row.leased)
=============================================================================
