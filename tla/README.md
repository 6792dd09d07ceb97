# A verification project for Agent PBX

Agent PBX is a switchboard for coding agents. A daemon (`src/src/agent_pbx/api.py`,
FastAPI over HTTP, with MCP servers beside it) keeps everything in one SQLite
database (`store.py`). Agents report and poll for commands, operators use a
terminal UI (`tui.py`) that attaches to the agents' tmux panes, and the daemon
watches the Codex runtimes in those panes. This directory models the parts of
it where two actors meet: it states what must hold, lets TLC check it on small
instances and TLAPS prove most of the safety properties for every instance.

Source paths below are relative to `src/src/agent_pbx/` unless they start with
`src/`.

## 1. How the system runs

*The daemon* is one asyncio loop. Its handlers are `async def` over a
synchronous `Store`, so whatever a handler does between two `await`s happens at
once, as far as other handlers are concerned. Handlers interleave with each
other where they await: the sleep of a long poll, a tmux inspection in a thread.

*Other processes* (the stdio MCP servers, the CLI, `doctor`) open the same
database with a `Store` of their own. Between processes only SQLite
transactions are atomic, and only some methods start with `BEGIN IMMEDIATE`; a
method of several transactions can be interrupted between any two of them.

*Clients* (TUIs, agents) await every request. A TUI runs several tasks at once
and may go away at any moment, while the daemon finishes its request.

*Threads.* The WorkerBee gateway, the switcher, the Joplin sync and the event
envelope run in threads, so between their file writes, subprocesses and
transactions everything else goes on. Some take a lock, and never the same one.

So there are four grains of atomicity, and each module says which one it uses:
a transaction (CommandQueue, NoteSync, EventStream), a stretch between two awaits
(TmuxRuntime), a whole handler between the requests of clients (ModelElevation),
and a write to a file or a subprocess in a thread (WorkerBeeSwitch,
WorkspaceTransition, NoteSync).

## 2. Inventory

For each component: its state, its operations, with whom it interacts, what is
hard, and what would make it correct. **M** is modelled, **P** partly, the
others are not (section 9 says why, section 8 when).

- **M Command queue** (`store.py:8292-8406`, `api.py:5300-5463`, `polling.py`,
  `sim_agent.py`, `mcp_tools.py`). State: `commands` rows (queued, delivered,
  acked, or gone), the events, each agent's loop. Operations: create, delete
  while queued, claim by long poll, ack, hide, unhide, purge. Hard: overlapping
  polls, a client that gives up a poll the daemon keeps, lost replies, events
  appended after the write they report. Correct if no command is done twice or
  by a stranger, a deleted one is never delivered, and none waits for ever.
- **M Model elevation leases** (`store.py:2074-2420`, `api.py:1000-1160`, TUI
  `7300-8143`, `19838-20106`, `35521-35612`). State: one row per lease (pending,
  approved, active, revert_pending, or ended), each TUI's copy of it, the
  runtime's profile and turn. Operations: request, decide, activate, transition,
  revert, finish, expire; restart of the pane under a preset; reconciling with
  what the runtime was seen doing. Hard: two TUIs at once, rows and snapshots
  that are old when used, expiry without a timer, restarts that half succeed.
- **M tmux runtime mapping and writer lease** (`store.py:2561-2770`,
  `api.py:310-357, 1171-1425`, `runtime_tmux.py`, TUI `16409-16813`). State: the
  mapping row (pane, process evidence, state, writer and its expiry), the panes,
  each TUI's terminal. Operations: register, delete, get, reconcile, acquire,
  renew, release. Hard: each handler inspects the live server between reading
  the row and writing it; clients detach while a renewal is in flight.
- **P Event log and stream** (`store.py:1919-2072`, `events.py`, `api.py:5760-5932`,
  TUI `14223-14251, 35402-35487`). State: an append-only table, a cursor per
  connection, the TUI's last seen id. Operations: append, envelope (snapshot or
  replay, state, filter), connect, poll, disconnect; `refresh_events` in the TUI.
  Hard: the log grows while an envelope is put together, connections end and
  come back, a refresh moves the id the stream goes by. Correct if no event is
  passed over without a snapshot, and each one arrives.
- **P Agent registry** (`store.py:2933-3900`). Agents, their identity, hide,
  purge, prune batches and their undo. Hard: identity collisions, an undo of a
  batch whose agents changed since.
- **Tokens, pairing, remote sessions** (`store.py:1528-1920`, `auth.py`,
  `remote.py`). A code is used once, a revoked token ends its session.
- **Reports, alerts, threads** (`store.py:3899-4200, 5094-5160`).
- **Operator campaigns** (`store.py:5164-5575`), **forks, edges, handoffs**
  (`store.py:5576-6222, 8038-8290`), **knowledge base** (`store.py:6224-8036`),
  driven by `operator.py`. Status machines; edges must stay acyclic; a handoff
  has one owner; an index job is done once.
- **P Joplin notes** (`joplin.py`, `store.py:4202-5090`). State: the rows of
  `joplin_sync_jobs`, the profile and its lock file, the Data API server, the
  worker of each daemon. Operations: write a note and ask for a sync, retry,
  claim, run (stop the server, sync, start it, verify), complete, boot. Hard:
  requests join queued jobs in two transactions, every process that opens the
  database puts running jobs back, daemons stop or die in a run. Correct if
  every recorded note is covered by a sync that began after its write, the
  server never runs under the CLI, and each job ends. Edit drafts with a base
  version and their conflicts are not modelled.
- **Agent files** (`files.py`, `store.py:4543-4718`). Versioned writes, trash,
  restore, prune, undo. Nothing is lost that an operator did not confirm.
- **P WorkerBee gateway and workspace** (`workerbee_gateway.py`,
  `workerbee_workspace.py`, `workerbee_policy.py`, `api.py`). State: lease files
  (binding, backend generation), transition rows, the mapping in the agent's
  metadata. Operations: session start, bind, approve, deny, apply, revert,
  revoke, refresh. Hard: each move loads the lease, stages for long, writes
  three places, and only the session's own calls take the lease's lock. Correct
  if nothing unapproved is staged, the places agree in the end, and a revoked
  lease stays revoked.
- **M WorkerBee switcher** (`workerbee_switcher.py`, `workerbee_runtime.py`). State:
  receipts, the last one, the selected runtime with its generation; the live
  backend belongs to the helper. Operations: preview, apply with verification
  and restoration, rollback, status. Hard: calls in flight, a status request
  that read before the switch, crashes between the command and its receipt.
  Correct if no counted call is crossed, the last receipt is right about the
  backend, and the registry ends at it.
- **P Codex runtime evidence** (`codex/`). Notifications of the app server,
  deduplicated, ordered by time and reduced to a runtime state.
- **Lifecycle, managed launch, runtime migration, pane adoption**
  (`lifecycle.py`, `managed_runtime.py`, `agent_adoption.py`,
  `store.py:2771-2930`). Preview, compare, apply, compensate, roll back.
- **Database migration and backup** (`migration.py`, `doctor.py`).
- **MCP daemon supervisor** (`mcp_daemon.py`). Start, stop and restart by a
  metadata file and a pid.
- **P TUI** (`tui.py`, `ui/`), **terminal widget and PTY** (`terminal/`), **setup
  and configuration**, **command line, demo and release tools**.

## 3. Modules

| module | what it is |
|---|---|
| `CommandDelivery` | abstract: what a command queue promises |
| `CommandQueue` | the table, the handlers, the agents, their failures |
| `MCCommandQueue` | its instances, and the mapping to `CommandDelivery` |
| `ModelElevation`, `MCModelElevation` | leases, the TUIs' tasks, the runtime |
| `TmuxRuntime`, `MCTmuxRuntime` | mapping, writer lease, terminals, panes |
| `WorkerBeeSwitch`, `MCWorkerBeeSwitch` | switcher, runtime registry, gateway calls |
| `WorkspaceTransition`, `MCWorkspaceTransition` | one lease and its transitions |
| `NoteSync`, `MCNoteSync` | sync jobs, worker, profile lock, Data API server |
| `EventStream`, `MCEventStream` | log, envelopes, a connection, the TUI's reader |
| `CommandQueueProofs`, `ModelElevationProofs`, `TmuxRuntimeProofs`, `WorkerBeeSwitchProofs`, `WorkspaceTransitionProofs`, `NoteSyncProofs`, `EventStreamProofs` | the theorems about these modules |
| `CommandRefinementProofs` | the proof that CommandQueue implements CommandDelivery |

A definition marked *mutant* in a module is a plausible mistake in the code it
stands next to; no specification uses it. `PROJECT.json` names, for every
property, a mutant under which it fails.

### CommandQueue

One action is one transaction, because stdio MCP servers share the database.
`status`, `owner`, `created` are columns of `commands`; a deleted or purged row
keeps its id with the status "deleted" or "purged". `created_at` is read before the
insert takes the write lock (`store.py:8299`), by any process and on its own clock,
which may be set back: a new row is stamped with *any* of `Times`, older than,
equal to or newer than those of the rows that are there. `before` is history, the
rows inserted before a row, and `Older` is what can be said of the order: inserted
first *and* stamped earlier. A poll handler goes *waiting* (the loop of
`poll_commands` in `polling.py`), *claimed* (the UPDATE is committed), *logging*
(rows re-read, `command_delivered` events one by one) and replies. `deleting`,
`acking` and `owed` hold handlers between the check, the write and the event.
`live`, `todo`, `doing` are the agent's side: what it waits for, what it
received, what it is at. `handled` is history. A row that was purged between
the claim and the re-read is `None`, and reading it fails the request
(`ReplyError`); a row that is gone when create or ack read it again fails these
(`RowGone`). Failures (`LosePoll`, `LoseDelete`, `LoseAck`, `LoseEvent`,
`StopAgent`) share the bound `MaxFaults`.

The agents are those of `sim_agent.py`: poll, then handle and ack each command
in the order of the reply. Every request that fails raises there
(`raise_for_status`, the timeout of httpx) and ends the loop: a refused ack, a
failed or timed-out poll and a lost reply take the agent out of `up` with all it
had in hand (`Ends`), and it is back only if somebody starts it (`Start`, which
registers it). A poll it had open goes on in the daemon. An agent of another kind
may handle commands otherwise; `HandledInOrder` is a statement about this loop.

### ModelElevation

A daemon handler is one action, since it runs without an await; every request
and tmux command of a client is one. `task` is a client's way up
(`prepare_model_elevation`, the modal, request, decision, activation, restart,
association or failure), `rec` its way down (`reconcile_model_elevation` from a
snapshot), and the two run at the same time. `cached` is
`model_elevation_by_agent`. The runtime is what a snapshot tells of it: profile,
ready / in a turn / complete, which turn, and which leases were activated
before the observation (`after` stands for comparing `observed_at` with
`activated_at`). `Expired` is `expire_model_elevations`, called by requests and
listings. Events are read late: `Sync` leaves a client with the lease's row, an
earlier active one, or none. This is coarser than the real stream,
which keeps the order of events and snapshots, so it is used for what must
hold; the counterexamples of section 5 do without an old event.

A restart (`Relaunched`) leaves the pane with the preset, or with the profile it
had: a replacement that dies is rolled back, and a managed resume that finds the
mapping ready restarts without the preset. Either may be followed by success or by
failure, as the mapping may not be refreshed after a respawn that worked.

Folded: `interrupted` counts as ready; a profile that is neither prior nor
elevated is left out; `Prepare` reads snapshot and leases in one step; only
`one_task` leases exist; one agent.

### TmuxRuntime

What a handler does between two awaits is one action, so get, reconcile and
acquire are each *read*, *inspect*, *write*. The inspection compares process
evidence with what the pane runs then. All unsafe states (moved, missing,
foreign, reused, server_lost) are "unsafe", as all of them drop the lease.
`reg`, `check` and `req` are the handlers under way; one register and one check
at a time, one acquire per client, which a TUI's exclusive worker group ensures
for renewals. `attached` and `leaving` are the embedded terminal and the release
that its detach still owes. The lease's expiry is the action `ExpireLease`.
The tmux server (panes, processes) is external.

### WorkerBeeSwitch

An action is what happens between two steps another thread can see: the switch
command, the verification, the restoration, the registry's observation and each
write of a receipt. `job` is the apply under the switcher's lock; preview and
rollback hold the lock throughout and are one action where nothing else can
meet them half done. `look` is a status request between reading the helper and
telling the registry. A call of a session is validated, entered (counted),
checked and forwarded; `late` is history, set when it entered after the apply
took its count. `Outside` is a switch by hand, `Crash` a restart of the daemon.

### WorkspaceTransition

One lease of one agent. A thread of `thr` is a move: it has loaded the lease
(`cur`), stages the checkout, writes the lease file, reconciles the metadata or
puts the file back, and marks its row. The agent's session start is one at a
time under the lease's lock; controllers' requests are not under it. A binding
is a checkout, its content when staged and the generation; `by` is history, who
approved a row; `torn` is history, whether two moves overlapped or the daemon
died. Modes (approval, automatic, disabled) are what a policy says of a move.

### NoteSync

`jobs` is the table, oldest first. A request writes its note, reads the queue,
and then joins the row it read or adds one: three actions, as the gateway's
reads and writes are separate transactions. `daemon` is each process's worker:
claimed, locked, syncing, restore, verify, and the outcome it has yet to record.
A stopped daemon leaves the thread of its run behind (`serving` is false, the
run goes on); `Kill` ends it. An exception of claim, complete or append_event
ends the worker's task before or after its write, while the daemon serves on
(`WorkerDies`, step *dead*). `PurgeAgent` deletes the agent's jobs in any status
(`store.py:3566`; the status "gone"): a request that has read such a row fails
(`EnqueueFails`), a worker that has claimed it finds nothing to run
(`ClaimGone`) or no running row to complete. The writes are those of one agent;
a manual sync is nobody's. At most one daemon serves, because they listen on one
port. `owed` is history: notes recorded in a row that no sync covered since
their write.

### EventStream

Events are ids with the agent they are about. The server side of a connection
goes *events*, *state* (first envelopes and snapshots only), *send*, *idle*; the
bounds an envelope reads first only tell which events were removed, and none are
while a connection is open, so reading them is part of *events*. Nothing in the
code removes events: `Trim` is external. A state is the length of the log when
it was read; changes commit before their events, so it shows at least those.
`wire` is what was sent and not read. The client id is registered before the
loop whose end gives it up; a request that fails in between (`api.py:5796-5837`)
leaves the id *stranded*: no connection has it, and none gets it until the
daemon restarts (`ConnectFails`). `fetch` is a tail that `refresh_events` asked
for and has not taken over. A TUI that restarts goes on from its saved id.

## 4. Properties and runs that pass

| run | instance | shows |
|---|---|---|
| `command_queue` | 2 agents, 2 commands with 2 times, 2 polls, batches of 1 and 2, 1 failure | `HandledOnce`, `DeletedNeverDelivered`, `HolderOwnsCommand`, `AckedWasHandled`, `EventsInOrder`, `HandledInOrder`, the inductive `Custody`, and `ImplementsDelivery` |
| `command_live` | 1 agent, 2 commands, 1 poll, batches of 2, 1 failure, fairness | `QueuedIsTaken`, `DeliveredIsSettled` |
| `elevation` | 1 lease, 2 TUIs, 1 turn | `ApprovedByPerson`, `DownOnlyWhenPending`, `LeaseMovesForward`, `NotReturnedUnused`, the inductive `NeverAhead` |
| `elevation_one` | 2 leases, 2 TUIs, no prior profile | `OneOpenLease` |
| `elevation_live` | 1 lease, 1 TUI, 1 turn, 1 crash, fairness | `OverdueEnds`, `ReturnedCloses` |
| `tmux` | 2 TUIs, 2 panes, 2 processes | `LeaseEndsForCause`, `LeaseStaysOnPane` |
| `switch` | 2 backends, 2 transactions, 1 session, 1 fault, fairness | `CallsBlockApply`, `ReceiptTellsBackend`, `SelectionCatchesUp` |
| `workspace` | 2 checkouts, 2 rows, the agent and a controller, 1 edit, 1 fault | `LeaseKeepsGeneration`, `MovesAreApproved`, `MappingFollowsLease`, `RevokedStaysForLaterMoves` |
| `note_sync` | 2 notes, 2 requests, 2 daemons, 2 jobs, 2 writes, 3 faults, fairness | `ExclusiveProfile`, `SuccessOwesNothing`, `RunningIsWorked`, `JobsEnd` |
| `events` | 2 agents of which 1 is visible, 4 events, 2 per envelope, 1 removal, 1 fault, fairness | `NothingSkipped`, `StreamCatchesUp` |

The first run of each module also checks its `TypeOK`.

`command_queue` asks whether overlapping polls, deletes, purges and one failure
can ever break custody of a command. Two polls, two agents, one command more
than the smaller batch holds and lists of two are what a race over a claim
needs; one failure is what makes the second poll of an agent overlap. Two times
let the second row be stamped before, with or after the first.
`ImplementsDelivery` is a refinement: under the mapping in `MCCommandQueue`
every step of the code is a submit, withdraw, take, lose or do of
`CommandDelivery`, or changes nothing it sees. It adds what the invariants do
not say: oldest first. What older means is settled at the submission, by the
stamps and the insertions (`Older`): of two rows of which the one was written
first and the other stamped earlier, either may come first.

`command_live` has batches of two, so that a list is handled one by one while
commands come in. `QueuedIsTaken` excepts commands that nobody is left to take,
as every agent they are for has ended and is not started again;
`DeliveredIsSettled` excepts a failure. `elevation` has one lease because two
TUIs over one lease is where stale rows meet; `elevation_one` has two ids, so
that a second lease can be inserted at all, and an agent whose prior profile is
unknown, which also keeps every `revert_pending` lease open. `tmux` has a pane
to move to and a process to replace the first.

`switch` has two transactions, so that a rollback can meet a later apply's
receipt, and one fault, which is a crash, a switch by hand or a rollback command
that fails. `ReceiptTellsBackend` excepts exactly these, by `disturbed`;
`SelectionCatchesUp` does not. `CallsBlockApply` says what the count is worth:
an apply crosses only calls that came in after it was taken. They do exist, and
a rollback looks at neither the count nor the live backend.

`workspace` has a row for the agent and one for the controller, an edit of a
checkout between two stages, and a fault that is a crash or a backend switch.
`MappingFollowsLease` excepts overlapping moves and crashes, because after them
the mapping may name an older binding until the next move; an applied row may
likewise be overwritten as failed or denied. `RevokedStaysForLaterMoves` is
what is left of a revocation: a move that had loaded the lease before brings it
back. In both components deadlock is no error where everybody may rest
(`workspace`, `note_sync`).

`note_sync` has two jobs of different reasons or one joined by both requests,
and three faults among a failing sync or request, a server that does not stop or
start, a worker that dies, a stop, a kill and a process that opens the database, so
that a job can be put back while it runs and its daemon then die. The agent may be
purged at any time. `JobsEnd` says that a queued job ends or is deleted, unless a
daemon serves on for ever without its worker: nothing in the code starts the worker
again, nor tells anybody that it is gone. `SuccessOwesNothing` is about what a
row records: two requests that read the same row can lose a note id from it,
and a kill between the note's write and its request leaves it without a job.

`events` has four events and two per envelope, so that a client falls behind by
more than an envelope, and one removal, so that its id falls out of the log. The
client sees one agent of two. `StreamCatchesUp` has the condition that hidden
events do not fill a whole envelope: the cursor moves only with an envelope that
is sent, and one that the filter empties is not sent, so the server would read
the same 100 hidden events for ever (`api.py:5909`). Without the condition TLC
finds that behaviour. A client that may see all agents is not affected. It also
excepts a client id that stays stranded, as nobody has to restart the daemon.

Bounds: `Limits` are the limits polls ask for, which the code clamps to 1..50,
and `Limit` stands for the 100 events of an envelope; they are 1 or 2.
`MaxFaults`, `MaxCrashes`, `MaxTurns`, `MaxProcs` bound what could repeat for
ever. Symmetry is used over agents, polls and commands, clients and leases or
panes, in runs without liveness properties only. `command_queue` has a VIEW
(`Seen`) without the agents that are hidden and the events that tell of a
creation: no property of the run speaks of them and no action looks at them, but
to write them. Deadlock is checked but in the two runs named above.

## 5. Where the code and its documentation disagree

Two runs check one sentence of the repository each, and TLC refutes it.

- `switch_retarget`: a call that was validated, and has waited for its lease's
  lock, reads the selected runtime again and goes to its endpoint without
  comparing generations, though Agent PBX "never silently retargets a running
  session to the new backend" (`src/README.md:853-855`).
- `events_alert`: `refresh_events`, awaited after most operator actions, takes
  over the id of the newest event without handling any, and the stream then
  skips what it had not brought yet (`tui.py:14248`), though "alerts fire for
  new agent registrations, new reports, and command acknowledgements".

The modules state more such sentences, next to their properties. They have no
run of their own here; TLC refutes each as a PROPERTY or INVARIANT on the
instance given (with the constants of the passing run otherwise, no symmetry).

- `CommandQueue!HiddenUntilRegistered` (1 agent, 1 command, 1 poll): every claim,
  also one that finds nothing, sets `dismissed_at` to NULL (`store.py:8349`), so a
  poll that is open when an agent is hidden brings it back.
  `src/README.md:1682-1684` names registration and unhide as the only ways.
- `ModelElevation!ElevatedIsCovered` (1 lease, 1 TUI): if the pane is restarted
  elevated and the refresh of its mapping then fails, the lease is finished as
  failed and the runtime stays elevated (`tui.py:20086`), though elevation
  "requires a human-approved justification and a bounded lease".
- `ModelElevation!NoSecondRestart` (1 lease, 2 TUIs): activation returns an active
  lease to every caller, so two TUIs that resume the same approved lease both
  restart the runtime, though repeated input "cannot ... restart an already
  elevated runtime".
- `ModelElevation!NoTurnInterrupted` (1 lease, 1 TUI, 2 turns): the restart back
  follows the snapshot it was decided on by two awaits (`tui.py:8124`); a turn that
  starts in between is killed, though completion and expiry "do not interrupt a
  running turn".
- `ModelElevation!ExpiryReturns` (1 lease, 1 TUI, under `FairSpec`): nothing expires
  a lease by itself, and without an operator who selects the agent an overdue
  lease stays active for ever, though expiry is said to move it to
  `revert_pending`.
- `TmuxRuntime!DetachedHoldsNoLease` (1 TUI, 1 pane): a renewal granted after the
  detach released the lease leaves the lease with a client that is out
  (`tui.py:16813`): the clean-up there calls a detach that no longer knows the
  agent, contrary to the comment above it.
- `WorkspaceTransition!RevertOwnsBinding` (2 rows, no edit, no fault): a revert
  compares the binding and writes later, in a thread without the lease's lock, so
  a session start in between is overwritten; a revert "is allowed only when that
  transition still owns the active binding"
  (`src/docs/wiki/WorkerBee-Integration.md:235-236`).

Read off the code, not modelled: if `_stop_server` raises after the process
stopped, because something else still listens, the Data API is not started
again, though `src/README.md:965-967` restores it "after success or failure";
the write that records a stream connection as ended can land after the next
connection's, so a connected client may show as disconnected; after a database
rollback the ids of events start again below a running TUI's last seen id, which
skips them until its next refresh; `review_merge` of a note conflict rebases the
edit onto the note as it is then, with a text merged against an older one, and
so overwrites what was saved in between; a lease without a prior profile is
never reverted, as reconciling returns before it looks at the status
(`tui.py:8010`), and a `revert_pending` one then refuses every later request.

## 6. Fairness

`CommandQueue!Fairness`: a handler in a living process runs on, the appends that
are owed happen, and an agent keeps polling, handling and acking. These are
weak: none of the actions can be disabled and enabled for ever by others, save by
failures, which are bounded. The agents this holds of are those that are up: an
agent that ended is started by an operator (`Start`), and nothing is assumed of
operators or failures.

`ModelElevation!Fairness`: a running TUI reads its events, observes the runtime
(the daemon's bridge polls) and finishes the task it has begun. `AttendedSpec`
adds `OperatorReturns`, that an operator keeps coming back to the agent, which
makes the TUI list the leases. It is an assumption about a person, not
about the code; `ExpiryReturns` (section 5) is what is lost without it.

`WorkerBeeSwitch`: threads finish, and status requests keep coming (each TUI
sends them on a timer). Operators, calls and faults are not fair.

`NoteSync`: the worker of a daemon and the run it started go on (the worker's
loop, a thread) as long as the worker lives, which nothing assumes, and somebody
starts a daemon again after the last one ended. Requests and faults are not
fair, and faults are bounded: a job that is put back for ever never ends.

`EventStream`: the loop of a connection runs on (it wakes every half second), a
running TUI connects again (it retries after two seconds) and reads what came. No
restart of the daemon is fair, so a stranded id may stay so.

## 7. What is proved

`CommandQueueProofs` proves, for every set of agents, commands and polls, every
batch limit and every number of failures, that `TypeOK`, `HandledOnce`,
`DeletedNeverDelivered`, `HolderOwnsCommand`, `AckedWasHandled` and
`EventsInOrder` are invariants of `Spec`. The assumptions are those the module
declares: the NULL values are no agents, commands or polls, and the two bounds
are numbers.

None of them but `TypeOK` is inductive: `HandledOnce` alone does not say that a
command in a poll's reply is not already handled. `Custody` does. It says where
every claimed command is (with one poll handler, in one agent's list, or
handled), that its row and owner agree, and that its delivery event was appended
before it left the handler. It has a part for the polls, one for the agents and
one for the events, and the proof that a step keeps it has a lemma per action.
Steps that change none of the variables it speaks of share a frame lemma; steps
that only move a row forward share another.

`HandledInOrder` rests on `Order`. `Before` says of two sets that nothing in the
second is older, inserted first and stamped earlier, than something in the
first. It holds of what an agent was ever handed and the queued rows it may
still be given, of what it handled and its list, and, while it waits for a poll,
of what it handled and what that poll has for it, its list being empty. The
stamps may be anything: a batch leaves no row behind that is stamped earlier
than one of its own, and a new row is not inserted before any other
(`Inserted`), so it is older than none. The first part alone is not enough: it
compares what was handed out with what is left, not two hands with each other.
The batch of a poll that was given up may well be older than commands handled
since; it is only the poll the agent waits on whose reply becomes its list.
`Order` uses `Custody`, for a command is never in two of these places.

`CommandRefinementProofs` proves, again for all values of the constants, that
`Spec` implies `CommandDelivery`'s specification under the mapping of
`MCCommandQueue`: waiting is `Pending`, the queued rows; taken is `InHand`, an
agent's list and the replies on their way to it. `CreateCommand` is a
submission, which settles which of the earlier rows are older; the write of a
delete and a purge are withdrawals; `Claim` is the step that takes; a lost poll,
a reply nobody waits for, a reply that fails and the end of an agent lose what
they had; `Handle` is the step that does. A reply the agent waits for changes no
hand, and checks, acks, events, hiding and registration are steps of nobody's.
`Order` gives the oldest-first part of the taking and the order of the doing,
`Custody` that nothing is taken twice. `PromiseKept` then proves of
`CommandDelivery` itself that it says what it is for (what waits is with nobody,
nothing is done twice or by a stranger, nothing after one that it is older
than), and `AddressedCorrect` brings one of its consequences back along the
refinement: whoever has or did a command is the owner its row names.

`ModelElevationProofs` proves, for every set of leases and TUIs and all bounds,
that `TypeOK`, `ApprovedByPerson`, `DownOnlyWhenPending`, `OneOpenLease` and
`NeverAhead` are invariants and that `LeaseMovesForward` and `NotReturnedUnused`
hold of every step. The assumptions are that the NULL lease is no lease,
`PriorKnown` is a Boolean and the bounds are numbers.

The argument has two halves. `LeaseStep` lists the moves a step may make with a
lease, with the cause where one is needed (an expiry, or a turn seen under the
lease; no other open lease, for an insertion); every action is shown to make
only these. `NeverAhead` says that what a client kept is at most old: a row it
believes returned is returned, a lease it restarts for was activated, and the
snapshot a revert is decided on saw work under the lease. It is needed because
`finish_model_elevation` has no condition on the status it overwrites: only the
client's own knowledge keeps an active lease from being closed as reverted. The
invariant is stable because returned and closed leases stay so, activations are
never undone, and observations only get later. The other properties follow from
the two halves without looking at an action again.

`TmuxRuntimeProofs` proves, for every set of TUIs, panes and processes, that
`TypeOK` is an invariant and that `LeaseEndsForCause` and `LeaseStaysOnPane` hold
of every step. The invariant adds to the types that a registration in flight
has looked at a pane, so that what it writes is a mapping; the two action
properties then follow from what each writer of the row leaves in it, one lemma
for each.

`WorkspaceTransitionProofs` proves, for every set of checkouts, controllers and
rows, that `LeaseKeepsGeneration`, `MovesAreApproved` and `MappingFollowsLease`
are invariants and that `RevokedStaysForLaterMoves` holds of every step. The
inductive invariant has three parts: the types; `Approvals`, that a row an
operation has under way was approved, also while it is between approval and
application; and `InStep`, that while moves do not overlap one thread at most is
in a move, that the file has the binding it loaded until it writes, and that the
metadata has that binding until it reconciles, with the new one on file.
`TypeOK` is an invariant too. It needs `Bounds`, which counts: a checkout has no
more versions than there were edits (`edits` counts them for the bound), and the
generation is not above the switches.

`WorkerBeeSwitchProofs` proves, for every set of backends, sessions and
transactions and every number of failures, that `TypeOK`, `CallsBlockApply` and
`ReceiptTellsBackend` are invariants. `CallsBlockApply` is inductive once the
types are known. `ReceiptTellsBackend` speaks of the switcher at rest only, and
a step that comes to rest has to find it true already: `LastTells` says that the
receipt is right also while an apply has only read the backend and after its
outcome was written, and that what an apply saw before its count is still the
live backend. With the types go two facts on names: a receipt that was written
names two backends, and a job is for such a receipt.

`NoteSyncProofs` proves, for every set of notes, requests and daemons and every
bound, that `TypeOK`, `ExclusiveProfile`, `RunningIsWorked` and
`SuccessOwesNothing` are invariants, assuming that the value for no holder of
the lock is no daemon. `Inv` says that a run past its lock has it (`LockHeld`),
that one daemon serves and a worker at rest is the serving one's (`OneServes`),
and the two properties themselves. `SuccessOwesNothing` needs `Owes` on top of
it: a job is settled from the sync of the serving daemon's run on, while it is
running and when it has succeeded. Settled means that nothing is owed to it
*and* that no request which has read it brings a note that no sync has covered;
the second half is what a late write of `enqueue_joplin_sync` would otherwise
break. It holds because a request reads queued jobs only, and a job that was put
back in the queue, or deleted, no longer takes the outcome of the run that had
it. `RunningIsWorked` and `OneServes` know the dead worker: it is at rest, its
daemon still the one that serves.

`EventStreamProofs` proves, for every size of an envelope, every scope of the
token and every number of events, removals and failures, that `TypeOK` and
`NothingSkipped` are invariants. `NothingSkipped` is about the client's last seen
id; the invariant carries the same statement back along the line. `ReadSafe` is
about the page a connection has read: between its cursor and the next one every
retained event is in the page or, for a snapshot, older than all of it and in
the state read afterwards. `CursorSafe` says that what the server's cursor has
passed was reached or is on the wire, `WireSafe` that what lies below an id on
the wire was reached or is told of earlier on it, and `LineInv` that a line that
is down carries nothing. A page is the first `Limit` events after the cursor, so
the lemma that none of them is left out below another (`AfterClosed`) counts.

Every invariant and every action property of the passing runs is stated by a
theorem. Only model-checked are the liveness properties (`QueuedIsTaken`,
`DeliveredIsSettled`, `OverdueEnds`, `ReturnedCloses`, `SelectionCatchesUp`,
`JobsEnd`, `StreamCatchesUp`), which are out of the prover's reach, and the
counterexamples.

## 8. Plan

1. *(done)* CommandQueue with CommandDelivery, ModelElevation, TmuxRuntime.
2. *(done)* WorkerBee: WorkerBeeSwitch and WorkspaceTransition. They meet in the
   selected generation, which each has as much of as its properties need;
   composed in one instance they are too large for TLC.
3. *(done)* NoteSync, the one job queue of the system whose steps can interleave:
   an index batch of the knowledge base is one transaction.
4. *(done)* EventStream.
5. **NoteEdits**: drafts, base versions, conflicts and `review_merge`.
   **AgentRegistry** (identity, prune and undo, pairing) and **OperatorWork**
   (campaigns, forks, acyclic edges, handoffs).
6. **Lifecycle** (launch, migration, adoption with their compensation),
   **FileTrash**, **RuntimeEvidence**, **DaemonSupervisor**, **UiState**.
7. *(done)* Proofs: the safety properties of all six systems and the refinement
   of `CommandDelivery`.

## 9. What is not modelled

Everything marked neither M nor P in section 2 is planned above, except where it
is pure input and output or data: search and ranking, rendering and widgets, the
PTY, HTTP proxies, one-shot tools (release, demo, smoke tests), and offline
database migration, which runs alone. Within the modelled parts: the text of
commands, results and reports; the mirror of the lease in an
agent's metadata; `scope` values other than `one_task`; the loss of the whole
tmux server as distinct from its panes; and the pane a terminal shows after its
entity moved. `PROJECT.json` lists under "hazards" what this leaves uncovered.
