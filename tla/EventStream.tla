---------------------------- MODULE EventStream ----------------------------
(* The event log and its v2 stream: events.py (the envelope), the WebSocket *)
(* loop of api.py, and the TUI that reads it (tui.py: stream_events_v2,     *)
(* apply_event_stream_v2_envelope, refresh_events).                         *)
(*                                                                          *)
(* An envelope reads the events and then the state in transactions of their *)
(* own, as the log grows while it is put together in a thread; the bounds   *)
(* it reads before only tell which events were removed, and none is while   *)
(* a connection is open.  An event is its id and the agent it is about; a   *)
(* state is how much of the log was written when it was read, since a       *)
(* change commits before its event does.  One TUI with its one client id.   *)
EXTENDS Integers, Sequences, FiniteSetsExt

CONSTANTS Agents,     \* the agents events are about
          Allowed,    \* those the client's token may see
          Limit,      \* events of one envelope (100)
          MaxEvents,  \* bound: events ever appended
          MaxTrims,   \* bound: removals of old events
          MaxFaults   \* bound: lost connections, restarts

ASSUME ScopeAssumption == Allowed \subseteq Agents
ASSUME BoundAssumption == /\ Limit \in Nat \ {0} /\ MaxEvents \in Nat
                          /\ MaxTrims \in Nat /\ MaxFaults \in Nat

VARIABLES log,      \* the agent of each event ever appended, by event id
          first,    \* the oldest id that is still in the table
          conn,     \* the server's side of the client's connection
          wire,     \* envelopes sent and not yet read
          online,   \* the TUI holds a connection
          running,  \* the TUI runs
          seen,     \* last_seen_event_id, kept in the settings file
          fetch,    \* the last id of a tail refresh_events is waiting for
          handled,  \* history: ids given to handle_event
          fetched,  \* history: the last id a tail contained
          covered,  \* history: ids up to here are in a snapshot's state
          trims, faults

server == <<conn, wire>>
past   == <<handled, fetched, covered>>
bounds == <<trims, faults>>
vars   == <<log, first, server, online, running, seen, fetch, past, bounds>>

Ids == 1..MaxEvents
Closed == [phase |-> "closed"]

\* The events in the table with their ids.
Latest == Len(log)
Retained == first..Latest
Seeable(ids) == {i \in ids : log[i] \in Allowed}

(* ---------------------------- the envelope ------------------------------ *)

\* mutant: a gap of one event goes unnoticed.
ResetLate(after, low) == after > 0 /\ low <= Latest /\ after < low - 2

\* The client asks for events that are no longer in the table.
ResetRequired(after, low) == after > 0 /\ low <= Latest /\ after < low - 1

\* The newest Limit events, and the first Limit after the cursor.
Newest == {i \in Retained : i > Latest - Limit}
After(c) == {i \in Retained : i > c /\ Cardinality({j \in Retained : c < j /\ j <= i}) <= Limit}

\* mutant: the cursor advances by the page, whatever was read.
CursorByPage(rows, after) == after + Limit

\* The cursor follows the rows that were read, before they are filtered, or the
\* bounds if there is none.
SourceCursor(rows, after) ==
  IF rows # {} THEN Max(rows) ELSE IF Retained = {} THEN 0 ELSE after

ReadEvents ==
  /\ conn.phase = "events"
  /\ LET reset == ResetRequired(conn.cursor, first)
         snap  == conn.cursor = 0 \/ reset
         rows  == IF snap THEN Newest ELSE After(conn.cursor)
     IN conn' = [conn EXCEPT !.phase = IF conn.initial \/ snap THEN "state" ELSE "send",
                             !.rows = rows, !.snap = snap, !.reset = reset,
                             !.next = SourceCursor(rows, conn.cursor)]
  /\ UNCHANGED <<log, first, wire, online, running, seen, fetch, past, bounds>>

ReadState ==
  /\ conn.phase = "state"
  /\ conn' = [conn EXCEPT !.phase = "send", !.upto = Latest]
  /\ UNCHANGED <<log, first, wire, online, running, seen, fetch, past, bounds>>

(* --------------------------- the connection ----------------------------- *)

Opened(after) ==
  [phase |-> "events", cursor |-> after, initial |-> TRUE,
   rows |-> {}, snap |-> FALSE, reset |-> FALSE, next |-> 0, upto |-> 0]

\* The registry takes a client id once: a connection the server has not seen
\* end keeps the next one out, and the TUI tries again.
Connect ==
  /\ running /\ ~online /\ conn = Closed
  /\ online' = TRUE
  /\ conn' = Opened(seen)
  /\ UNCHANGED <<log, first, wire, running, seen, fetch, past, bounds>>

Worth(c) == c.initial \/ Seeable(c.rows) # {} \/ c.reset

\* What the client is told, and the ids only a snapshot's state tells it of.
Envelope(c) ==
  [ids |-> Seeable(c.rows),
   told |-> IF ~c.snap THEN 0
            ELSE Min({c.upto, IF c.rows = {} THEN c.next ELSE Min(c.rows) - 1})]

\* The first envelope is always sent; a later one only if something is left of
\* it after the filter.  The cursor moves only with what is sent.
Send ==
  /\ conn.phase = "send" /\ online
  /\ conn' = [Opened(IF Worth(conn) THEN conn.next ELSE conn.cursor)
                EXCEPT !.phase = "idle", !.initial = FALSE]
  /\ wire' = IF Worth(conn) THEN Append(wire, Envelope(conn)) ELSE wire
  /\ UNCHANGED <<log, first, online, running, seen, fetch, past, bounds>>

\* Half a second without a message, and the next envelope.
Poll ==
  /\ conn.phase = "idle" /\ online
  /\ conn' = [conn EXCEPT !.phase = "events"]
  /\ UNCHANGED <<log, first, wire, online, running, seen, fetch, past, bounds>>

\* mutant: the client id stays registered after the connection ended.
NoticeKeepsId ==
  /\ conn.phase \in {"idle", "send"} /\ ~online
  /\ conn' = [conn EXCEPT !.phase = "idle"]
  /\ UNCHANGED <<log, first, wire, online, running, seen, fetch, past, bounds>>

\* The server meets the end of the connection where it reads or writes it.
NoticeEnd ==
  /\ conn.phase \in {"idle", "send"} /\ ~online
  /\ conn' = Closed
  /\ UNCHANGED <<log, first, wire, online, running, seen, fetch, past, bounds>>

(* ------------------------------- the TUI -------------------------------- *)

\* apply_event_stream_v2_envelope, events the TUI has seen skipped.
Receive ==
  /\ online /\ wire # <<>>
  /\ LET e == Head(wire)
         fresh == {i \in e.ids : i > seen}
     IN /\ handled' = handled \cup fresh
        /\ seen' = Max(fresh \cup {seen})
        /\ covered' = Max({covered, e.told})
  /\ wire' = Tail(wire)
  /\ UNCHANGED <<log, first, conn, online, running, fetch, fetched, bounds>>

\* refresh_events, after what an operator does: it asks for the newest events
\* and takes over the last id, without handling one of them.
RefreshAsks ==
  /\ running /\ fetch = 0 /\ Seeable(Newest) # {}
  /\ fetch' = Max(Seeable(Newest))
  /\ UNCHANGED <<log, first, server, online, running, seen, past, bounds>>

RefreshEvents ==
  /\ fetch > 0
  /\ seen' = fetch /\ fetched' = Max({fetched, fetch}) /\ fetch' = 0
  /\ UNCHANGED <<log, first, server, online, running, handled, covered, bounds>>

\* The TUI starts with its saved id and a refresh, which the daemon may fail.
Start ==
  /\ ~running /\ running' = TRUE
  /\ \E ids \in {Seeable(Newest), {}} :
       /\ seen' = IF ids = {} THEN seen ELSE Max(ids)
       /\ fetched' = Max(ids \cup {fetched})
  /\ UNCHANGED <<log, first, server, online, fetch, handled, covered, bounds>>

(* ------------------------ the log and failures -------------------------- *)

LogEvent(a) ==
  /\ Latest < MaxEvents
  /\ log' = Append(log, a)
  /\ UNCHANGED <<first, server, online, running, seen, fetch, past, bounds>>

\* Old events are removed by hand, with no connection open.
Trim ==
  /\ trims < MaxTrims /\ trims' = trims + 1
  /\ conn.phase \in {"closed", "stranded"}
  /\ \E k \in (first + 1)..(Latest + 1) : first' = k
  /\ UNCHANGED <<log, server, online, running, seen, fetch, past, faults>>

Fault == faults < MaxFaults /\ faults' = faults + 1 /\ UNCHANGED trims

LoseConnection ==
  /\ online /\ Fault
  /\ online' = FALSE /\ wire' = <<>>
  /\ UNCHANGED <<log, first, conn, running, seen, fetch, past>>

\* The id is registered, and then the daemon's database fails before the loop is
\* entered that gives the id up at its end: no connection has the id, and none gets
\* it until the daemon starts again.
ConnectFails ==
  /\ running /\ ~online /\ conn = Closed /\ Fault
  /\ conn' = [Opened(0) EXCEPT !.phase = "stranded"]
  /\ UNCHANGED <<log, first, wire, online, running, seen, fetch, past>>

Stranded == conn.phase = "stranded"

\* A restart that ends a stranding is no fault of its own.
RestartDaemon ==
  /\ conn # Closed /\ (Fault \/ (Stranded /\ UNCHANGED bounds))
  /\ online' = FALSE /\ wire' = <<>> /\ conn' = Closed /\ fetch' = 0
  /\ UNCHANGED <<log, first, running, seen, past>>

Quit ==
  /\ running /\ Fault
  /\ running' = FALSE /\ online' = FALSE /\ wire' = <<>> /\ fetch' = 0
  /\ UNCHANGED <<log, first, conn, seen, past>>

Init ==
  /\ log = <<>> /\ first = 1
  /\ conn = Closed /\ wire = <<>>
  /\ online = FALSE /\ running = FALSE
  /\ seen = 0 /\ fetch = 0
  /\ handled = {} /\ fetched = 0 /\ covered = 0
  /\ trims = 0 /\ faults = 0

Serves == ReadEvents \/ ReadState \/ Send \/ Poll \/ NoticeEnd

Next ==
  \/ Serves
  \/ Connect \/ Receive \/ RefreshAsks \/ RefreshEvents \/ Start
  \/ \E a \in Agents : LogEvent(a)
  \/ Trim \/ LoseConnection \/ ConnectFails \/ RestartDaemon \/ Quit

\* The loop of a connection runs on, and a running TUI connects and reads.
Spec == Init /\ [][Next]_vars /\ WF_vars(Serves) /\ WF_vars(Connect) /\ WF_vars(Receive)

(* ----------------------------- properties ------------------------------- *)

TypeOK ==
  /\ log \in Seq(Agents) /\ Latest <= MaxEvents /\ first \in 1..(MaxEvents + 1)
  /\ conn = Closed \/ conn \in
       [phase : {"events", "state", "send", "idle", "stranded"}, cursor : 0..Latest, initial : BOOLEAN,
        rows : SUBSET (1..Latest), snap : BOOLEAN, reset : BOOLEAN,
        next : 0..Latest, upto : 0..Latest]
  /\ wire \in Seq([ids : SUBSET (1..Latest), told : 0..Latest])
  /\ online \in BOOLEAN /\ running \in BOOLEAN
  /\ seen \in 0..Latest /\ fetch \in 0..Latest
  /\ handled \subseteq 1..Latest
  /\ fetched \in 0..Latest /\ covered \in 0..Latest
  /\ trims \in 0..MaxTrims /\ faults \in 0..MaxFaults

\* No event the client may see is passed over in silence: what lies at or below
\* its last seen id was handled, was older than a snapshot whose state has it,
\* or was in or before a tail that refresh_events took over, through lost
\* connections, restarts, and events removed while it was away.
Reached(i) == i \in handled \/ i <= covered \/ i <= fetched
NothingSkipped == \A i \in Seeable(1..seen) : Reached(i)

\* A whole envelope's worth of events in a row that the client may not see.
Starved == \E c \in 0..(Latest - Limit) : Seeable((c + 1)..(c + Limit)) = {}

\* An event the client may see reaches it while it is in the table, if the TUI
\* keeps running, the filter empties no full envelope (the server would ask for the
\* same hidden events again for ever), and its client id is not stranded for good.
StreamCatchesUp ==
  \A i \in Ids :
    (i <= Latest /\ log[i] \in Allowed)
      ~> (~running \/ Reached(i) \/ i < first \/ Starved) \/ []Stranded

\* The alerts of README.md:1305-1306: a TUI that runs sees no event without
\* handling it, unless a snapshot covers it.
AlertsFire ==
  [][running => \A i \in Seeable((seen + 1)..seen') : i \in handled' \/ i <= covered']_vars
=============================================================================
