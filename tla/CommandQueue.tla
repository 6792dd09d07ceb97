---------------------------- MODULE CommandQueue ----------------------------
(***************************************************************************)
(* The operator's command queue: the `commands` table of the Store, the    *)
(* long-poll, ack and delete handlers in front of it, and the agents that  *)
(* poll.  The HTTP daemon and the stdio MCP servers open the same          *)
(* database, so a handler is split at its transactions: what is one        *)
(* transaction of the code is one action here, and the steps of two        *)
(* handlers interleave.  A handler may die between any two of its          *)
(* transactions, a reply may be lost, and an agent may end while a handler *)
(* still works for it.  An agent is a process of sim_agent.py: any request *)
(* that fails ends it, and it is for its operator to start it again.       *)
(***************************************************************************)
EXTENDS Integers, FiniteSets, Sequences

CONSTANTS Agents,       \* registered agent ids
          NoAgent,      \* the NULL agent_id of a broadcast command
          Commands,     \* the command ids uuid4 may produce
          Polls,        \* request slots for GET /v1/agents/{id}/commands
          NoCommand, NoPoll,
          Limits,       \* the limits polls ask for (code: clamped to 1..50)
          Times,        \* the readings of the wall clocks, now_ts()
          MaxFaults     \* bound on lost replies, dead handlers, stopped agents

ASSUME NoAgentAssumption   == NoAgent \notin Agents
ASSUME NoPollAssumption    == NoPoll \notin Polls
ASSUME NoCommandAssumption == NoCommand \notin Commands
ASSUME LimitsAssumption    == Limits \subseteq 1..50
ASSUME TimesAssumption     == Times \subseteq Nat
ASSUME MaxFaultsAssumption == MaxFaults \in Nat

VARIABLES status,     \* commands.status; "deleted" and "purged" are rows gone
          owner,      \* commands.agent_id
          created,    \* commands.created_at
          before,     \* history: the rows that were inserted before a row
          dismissed,  \* agents whose dismissed_at is set
          poll,       \* the poll handlers
          deleting,   \* DELETE handlers past their status check
          acking,     \* <<agent, command>>: ack handlers past their checks
          owed,       \* <<kind, command>>: events handlers have yet to append
          events,     \* <<kind, command>>: the command events of the log
          up,         \* the agents that are running
          live,       \* the poll an agent is waiting on
          todo,       \* commands an agent received and has not handled yet
          doing,      \* the command an agent handled and has not seen acked
          handled,    \* history: the commands an agent handled, in order
          faults

table   == <<status, owner, created, before>>
clients == <<up, live, todo, doing, handled>>
vars    == <<table, dismissed, poll, deleting, acking, owed, events, clients,
             faults>>

Rows     == {c \in Commands : status[c] \in {"queued", "delivered", "acked"}}

PollAt(phase, a, got, missing) ==
  [phase |-> phase, agent |-> a, got |-> got, missing |-> missing]
IdlePoll == PollAt("idle", NoAgent, {}, {})

PollState == [phase : {"idle", "waiting", "claimed", "logging"},
              agent : Agents \cup {NoAgent},
              got : SUBSET Commands, missing : SUBSET Commands]

TypeOK ==
  /\ status \in [Commands -> {"new", "queued", "delivered", "acked",
                              "deleted", "purged"}]
  /\ owner \in [Commands -> Agents \cup {NoAgent}]
  /\ created \in [Commands -> Times \cup {0}]
  /\ before \in [Commands -> SUBSET Commands]
  /\ dismissed \subseteq Agents
  /\ poll \in [Polls -> PollState]
  /\ deleting \subseteq Commands
  /\ acking \subseteq Agents \X Commands
  /\ owed \subseteq {"queued", "deleted", "acked"} \X Commands
  /\ events \subseteq {"queued", "delivered", "deleted", "acked"} \X Commands
  /\ up \subseteq Agents
  /\ live \in [Agents -> Polls \cup {NoPoll}]
  /\ todo \in [Agents -> SUBSET Commands]
  /\ doing \in [Agents -> Commands \cup {NoCommand}]
  /\ handled \in [Agents -> Seq(Commands)]
  /\ faults \in 0..MaxFaults

Init ==
  /\ status    = [c \in Commands |-> "new"]
  /\ owner     = [c \in Commands |-> NoAgent]
  /\ created   = [c \in Commands |-> 0]
  /\ before    = [c \in Commands |-> {}]
  /\ dismissed = {}
  /\ poll      = [p \in Polls |-> IdlePoll]
  /\ deleting  = {} /\ acking = {} /\ owed = {} /\ events = {}
  /\ up        = Agents
  /\ live      = [a \in Agents |-> NoPoll]
  /\ todo      = [a \in Agents |-> {}]
  /\ doing     = [a \in Agents |-> NoCommand]
  /\ handled   = [a \in Agents |-> <<>>]
  /\ faults    = 0

-----------------------------------------------------------------------------
(* The operator: POST and DELETE /v1/commands, hide, unhide, purge.         *)

\* created_at is read before the INSERT takes the write lock, on the clock of
\* whichever process creates the command, and clocks may be set back: it is any
\* time, older or newer than those of the rows that are there.
CreateCommand(c, o, t) ==
  /\ status[c] = "new"
  /\ status'  = [status EXCEPT ![c] = "queued"]
  /\ owner'   = [owner EXCEPT ![c] = o]
  /\ created' = [created EXCEPT ![c] = t]
  /\ before'  = [before EXCEPT ![c] = {d \in Commands : status[d] # "new"}]
  /\ owed'    = owed \cup {<<"queued", c>>}
  /\ UNCHANGED <<dismissed, poll, deleting, acking, events, clients, faults>>

DeleteCheck(c) ==
  /\ status[c] = "queued"
  /\ deleting' = deleting \cup {c}
  /\ UNCHANGED <<table, dismissed, poll, acking, owed, events, clients, faults>>

\* DELETE ... WHERE command_id = ? AND status = 'queued'
DeleteUnguarded(c) == TRUE                                        \* mutant
DeleteGuard(c) == status[c] = "queued"

DeleteWrite(c) ==
  /\ c \in deleting
  /\ deleting' = deleting \ {c}
  /\ \/ /\ DeleteGuard(c)
        /\ status' = [status EXCEPT ![c] = "deleted"]
        /\ owed'   = owed \cup {<<"deleted", c>>}
     \/ ~DeleteGuard(c) /\ UNCHANGED <<status, owed>>
  /\ UNCHANGED <<owner, created, before, dismissed, poll, acking, events,
                 clients, faults>>

HideAgent(a) ==
  /\ dismissed' = dismissed \cup {a}
  /\ UNCHANGED <<table, poll, deleting, acking, owed, events, clients, faults>>

PurgeAgent(a) ==
  /\ status' = [c \in Commands |->
                  IF c \in Rows /\ owner[c] = a THEN "purged" ELSE status[c]]
  /\ dismissed' = dismissed \cup {a}
  /\ UNCHANGED <<owner, created, before, poll, deleting, acking, owed, events,
                 clients, faults>>

UnhideAgent(a) ==
  /\ dismissed' = dismissed \ {a}
  /\ UNCHANGED <<table, poll, deleting, acking, owed, events, clients, faults>>

-----------------------------------------------------------------------------
(* The poll handler: claim, re-read, append the delivery events, reply.     *)

EligibleDirect(a) ==                                              \* mutant
  {c \in Commands : status[c] = "queued" /\ owner[c] = a}
EligibleAgain(a) ==                                               \* mutant
  {c \in Commands : status[c] \in {"queued", "delivered"} /\ owner[c] \in {NoAgent, a}}
Eligible(a) == {c \in Commands : status[c] = "queued" /\ owner[c] \in {NoAgent, a}}

\* B is what SELECT ... ORDER BY created_at LIMIT picks from S.
IsUnorderedBatch(B, S) ==                                         \* mutant
  /\ B \subseteq S
  /\ \E n \in Limits : Cardinality(B) <= n /\ (B # S => Cardinality(B) = n)
IsBatch(B, S) ==
  /\ B \subseteq S
  /\ \E n \in Limits : Cardinality(B) <= n /\ (B # S => Cardinality(B) = n)
  /\ \A c \in B, d \in S \ B : created[c] <= created[d]

\* agent_id = COALESCE(agent_id, ?)
OwnerKept(c, a) == owner[c]                                       \* mutant
OwnerSwapped(c, a) ==     \* mutant: the parameters of the UPDATE in wrong order
  IF owner[c] = NoAgent THEN created[c] ELSE owner[c]
ClaimedOwner(c, a) == IF owner[c] = NoAgent THEN a ELSE owner[c]

\* One transaction: the agents row is written first, which takes the write
\* lock, so no other claim comes between the SELECT and the UPDATE.
Claim(p) ==
  LET a == poll[p].agent IN
  /\ poll[p].phase = "waiting"
  /\ dismissed' = dismissed \ {a}
  /\ \E B \in SUBSET Eligible(a) :
       /\ B # {} /\ IsBatch(B, Eligible(a))
       /\ status' = [c \in Commands |-> IF c \in B THEN "delivered" ELSE status[c]]
       /\ owner'  = [c \in Commands |-> IF c \in B THEN ClaimedOwner(c, a)
                                        ELSE owner[c]]
       /\ poll'   = [poll EXCEPT ![p] = PollAt("claimed", a, B, {})]
  /\ UNCHANGED <<created, before, deleting, acking, owed, events, clients, faults>>

ClaimNothing(p) ==
  /\ poll[p].phase = "waiting"
  /\ Eligible(poll[p].agent) = {}
  /\ dismissed' = dismissed \ {poll[p].agent}
  /\ UNCHANGED <<table, poll, deleting, acking, owed, events, clients, faults>>

\* These agents end: a request of theirs failed, which raises, or they were
\* stopped.  What they had in hand goes with them.
Ends(E) ==
  /\ up'    = up \ E
  /\ live'  = [a \in Agents |-> IF a \in E THEN NoPoll ELSE live[a]]
  /\ todo'  = [a \in Agents |-> IF a \in E THEN {} ELSE todo[a]]
  /\ doing' = [a \in Agents |-> IF a \in E THEN NoCommand ELSE doing[a]]
  /\ UNCHANGED handled

WaitingOn(p) == {a \in Agents : live[a] = p}

\* The deadline passed: [] is returned right after a claim that found nothing.
TimeOut(p) ==
  /\ poll[p].phase = "waiting"
  /\ Eligible(poll[p].agent) = {}
  /\ dismissed' = dismissed \ {poll[p].agent}
  /\ poll' = [poll EXCEPT ![p] = IdlePoll]
  /\ live' = [a \in Agents |-> IF live[a] = p THEN NoPoll ELSE live[a]]
  /\ UNCHANGED <<table, deleting, acking, owed, events, up, todo, doing,
                 handled, faults>>

\* get_command of every claimed id; a purge may have come in between.
Reread(p) ==
  /\ poll[p].phase = "claimed"
  /\ poll' = [poll EXCEPT ![p] = PollAt("logging", poll[p].agent, poll[p].got,
                                    poll[p].got \ Rows)]
  /\ UNCHANGED <<table, dismissed, deleting, acking, owed, events, clients, faults>>

Unlogged(p) == {c \in poll[p].got : <<"delivered", c>> \notin events}

IsAnyOf(c, S) == c \in S                                         \* mutant
IsOldest(c, S) == c \in S /\ \A d \in S : created[c] <= created[d]

LogDelivered(p, c) ==
  /\ poll[p].phase = "logging"
  /\ IsOldest(c, Unlogged(p)) /\ c \notin poll[p].missing
  /\ events' = events \cup {<<"delivered", c>>}
  /\ UNCHANGED <<table, dismissed, poll, deleting, acking, owed, clients, faults>>

\* The reply, a list in the order of created_at, reaches the agent if it still
\* waits for this request; the list of an abandoned request is lost.
ReadyUnlogged(p) == poll[p].phase = "logging"                     \* mutant
ReadyToReply(p) == poll[p].phase = "logging" /\ Unlogged(p) = {}

Reply(p) ==
  /\ ReadyToReply(p)
  /\ poll' = [poll EXCEPT ![p] = IdlePoll]
  /\ todo' = [a \in Agents |-> IF live[a] = p THEN poll[p].got ELSE todo[a]]
  /\ live' = [a \in Agents |-> IF live[a] = p THEN NoPoll ELSE live[a]]
  /\ UNCHANGED <<table, dismissed, deleting, acking, owed, events, up, doing,
                 handled, faults>>

\* A missing row is None, and reading its id raises: the request fails, and
\* with it the agent that made it.
ReplyError(p, c) ==
  /\ poll[p].phase = "logging"
  /\ IsOldest(c, Unlogged(p)) /\ c \in poll[p].missing
  /\ poll' = [poll EXCEPT ![p] = IdlePoll]
  /\ Ends(WaitingOn(p))
  /\ UNCHANGED <<table, dismissed, deleting, acking, owed, events, faults>>

-----------------------------------------------------------------------------
(* The agent loop: poll, then handle and ack each command of the reply.     *)

\* The operator starts the agent, which registers first.
Start(a) ==
  /\ a \notin up /\ up' = up \cup {a}
  /\ dismissed' = dismissed \ {a}
  /\ UNCHANGED <<table, poll, deleting, acking, owed, events, live, todo, doing,
                 handled, faults>>

OpenPoll(a, p) ==
  /\ a \in up /\ live[a] = NoPoll /\ todo[a] = {} /\ doing[a] = NoCommand
  /\ poll[p].phase = "idle"
  /\ poll' = [poll EXCEPT ![p] = PollAt("waiting", a, {}, {})]
  /\ live' = [live EXCEPT ![a] = p]
  /\ UNCHANGED <<table, dismissed, deleting, acking, owed, events, up, todo, doing,
                 handled, faults>>

Handle(a, c) ==
  /\ doing[a] = NoCommand
  /\ IsOldest(c, todo[a])
  /\ todo'    = [todo EXCEPT ![a] = @ \ {c}]
  /\ doing'   = [doing EXCEPT ![a] = c]
  /\ handled' = [handled EXCEPT ![a] = Append(@, c)]
  /\ UNCHANGED <<table, dismissed, poll, deleting, acking, owed, events, up,
                 live, faults>>

\* What both the ack handler and its UPDATE require.
AckGuard(a, c) == status[c] = "delivered" /\ owner[c] = a

AckPending(a, c) == <<a, c>> \in acking \/ <<"acked", c>> \in owed

AckOnReceipt(a, c) ==                                             \* mutant
  /\ c \in todo[a] \cup {doing[a]} /\ ~AckPending(a, c)
  /\ AckGuard(a, c)
  /\ acking' = acking \cup {<<a, c>>}
  /\ UNCHANGED <<table, dismissed, poll, deleting, owed, events, clients, faults>>
AckCheck(a, c) ==
  /\ doing[a] = c /\ ~AckPending(a, c)
  /\ AckGuard(a, c)
  /\ acking' = acking \cup {<<a, c>>}
  /\ UNCHANGED <<table, dismissed, poll, deleting, owed, events, clients, faults>>

\* 404 or 409: raise_for_status raises, and the agent ends.
AckRefused(a, c) ==
  /\ doing[a] = c /\ ~AckPending(a, c)
  /\ ~AckGuard(a, c)
  /\ Ends({a})
  /\ UNCHANGED <<table, dismissed, poll, deleting, acking, owed, events, faults>>

AckWrite(a, c) ==
  /\ <<a, c>> \in acking
  /\ acking' = acking \ {<<a, c>>}
  /\ \/ /\ AckGuard(a, c)
        /\ status' = [status EXCEPT ![c] = "acked"]
        /\ owed'   = owed \cup {<<"acked", c>>}
     \/ ~AckGuard(a, c) /\ UNCHANGED <<status, owed>>
  /\ UNCHANGED <<owner, created, before, dismissed, poll, deleting, events,
                 clients, faults>>

\* append_event after the write, and for an ack the reply to its agent.
LogOwed(kind, c) ==
  /\ <<kind, c>> \in owed
  /\ owed'   = owed \ {<<kind, c>>}
  /\ events' = events \cup {<<kind, c>>}
  /\ doing'  = [a \in Agents |->
                 IF kind = "acked" /\ owner[c] = a /\ doing[a] = c
                 THEN NoCommand ELSE doing[a]]
  /\ UNCHANGED <<table, dismissed, poll, deleting, acking, up, live, todo,
                 handled, faults>>

\* The event is not appended, and an ack fails.
NotAppended(kind, c) ==
  /\ <<kind, c>> \in owed /\ owed' = owed \ {<<kind, c>>}
  /\ Ends({a \in Agents : kind = "acked" /\ owner[c] = a /\ doing[a] = c})
  /\ UNCHANGED <<table, dismissed, poll, deleting, acking, events>>

\* Create and ack read their row again before the event: it may be gone.
RowGone(kind, c) ==
  /\ kind \in {"queued", "acked"} /\ c \notin Rows
  /\ NotAppended(kind, c) /\ UNCHANGED faults

-----------------------------------------------------------------------------
(* Failures: at most MaxFaults of them.                                     *)

Fault == faults < MaxFaults /\ faults' = faults + 1

\* The process of a poll handler dies, or its reply is lost on the way.
LosePoll(p) ==
  /\ Fault /\ poll[p].phase # "idle"
  /\ poll' = [poll EXCEPT ![p] = IdlePoll]
  /\ Ends(WaitingOn(p))
  /\ UNCHANGED <<table, dismissed, deleting, acking, owed, events>>

\* The process of a handler dies between two of its transactions.
LoseDelete(c) ==
  /\ Fault /\ c \in deleting /\ deleting' = deleting \ {c}
  /\ UNCHANGED <<table, dismissed, poll, acking, owed, events, clients>>
LoseAck(a, c) ==
  /\ Fault /\ <<a, c>> \in acking /\ acking' = acking \ {<<a, c>>}
  /\ Ends(IF doing[a] = c THEN {a} ELSE {})
  /\ UNCHANGED <<table, dismissed, poll, deleting, owed, events>>
LoseEvent(kind, c) == Fault /\ NotAppended(kind, c)

\* The agent is stopped, or its HTTP timeout raises: the daemon goes on with
\* what it was asked for.
StopAgent(a) ==
  /\ Fault /\ a \in up
  /\ Ends({a})
  /\ UNCHANGED <<table, dismissed, poll, deleting, acking, owed, events>>

-----------------------------------------------------------------------------
Operator ==
  \/ \E c \in Commands : \/ \E o \in Agents \cup {NoAgent}, t \in Times :
                              CreateCommand(c, o, t)
                         \/ DeleteCheck(c) \/ DeleteWrite(c)
  \/ \E a \in Agents : HideAgent(a) \/ PurgeAgent(a) \/ UnhideAgent(a) \/ Start(a)

PollHandler(p) ==
  \/ Claim(p) \/ ClaimNothing(p) \/ TimeOut(p) \/ Reread(p) \/ Reply(p)
  \/ \E c \in Commands : LogDelivered(p, c) \/ ReplyError(p, c)

AckHandler(a, c) == AckCheck(a, c) \/ AckRefused(a, c) \/ AckWrite(a, c)

Agent(a) == \/ \E p \in Polls : OpenPoll(a, p)
            \/ \E c \in Commands : Handle(a, c)

AppendOwed == \E kind \in {"queued", "deleted", "acked"}, c \in Commands :
                LogOwed(kind, c) \/ RowGone(kind, c)

Failure ==
  \/ \E p \in Polls : LosePoll(p)
  \/ \E c \in Commands : LoseDelete(c) \/ \E a \in Agents : LoseAck(a, c)
  \/ \E kind \in {"queued", "deleted", "acked"}, c \in Commands : LoseEvent(kind, c)
  \/ \E a \in Agents : StopAgent(a)

Next == \/ Operator
        \/ \E p \in Polls : PollHandler(p)
        \/ \E a \in Agents : Agent(a) \/ \E c \in Commands : AckHandler(a, c)
        \/ AppendOwed
        \/ Failure

Spec == Init /\ [][Next]_vars

(* A process that lives runs its handlers to their end, and an agent that   *)
(* is up keeps polling, handling and acking.  Nothing is fair that the      *)
(* operator does, starting an agent included, nor a failure.                *)
Fairness ==
  /\ \A p \in Polls : /\ WF_vars(Claim(p)) /\ WF_vars(TimeOut(p))
                      /\ WF_vars(Reread(p)) /\ WF_vars(Reply(p))
                      /\ WF_vars(\E c \in Commands : LogDelivered(p, c))
                      /\ WF_vars(\E c \in Commands : ReplyError(p, c))
  /\ \A a \in Agents : /\ WF_vars(Agent(a))
                       /\ \A c \in Commands : WF_vars(AckHandler(a, c))
  /\ WF_vars(AppendOwed)

FairSpec == Spec /\ Fairness

-----------------------------------------------------------------------------
HandledBy(a) == {handled[a][i] : i \in DOMAIN handled[a]}

\* No command is handled twice, by one agent or by two: the claim is the only
\* hand-over, whatever polls overlap, replies get lost and agents restart.
HandledOnce ==
  \A a, b \in Agents : \A i \in DOMAIN handled[a], j \in DOMAIN handled[b] :
    handled[a][i] = handled[b][j] => a = b /\ i = j

\* A command whose DELETE succeeded is never in the hands of an agent: the
\* delete that races a claim either removes the row or answers 409.
DeletedNeverDelivered ==
  \A c \in Commands : status[c] = "deleted" =>
    /\ \A p \in Polls : c \notin poll[p].got
    /\ \A a \in Agents : c \notin todo[a] \cup HandledBy(a)

\* Whoever holds a claimed command owns its row, also a broadcast one, so an
\* ack is never refused for want of ownership.
HolderOwnsCommand ==
  \A c \in Commands :
    /\ \A p \in Polls : c \in poll[p].got => owner[c] = poll[p].agent
    /\ \A a \in Agents : c \in todo[a] \cup HandledBy(a) => owner[c] = a

\* "acked" is only ever written for a command its owner has handled.
AckedWasHandled ==
  \A c \in Commands : status[c] = "acked" =>
    owner[c] \in Agents /\ c \in HandledBy(owner[c])

\* One command comes before another: its row was inserted first and is stamped
\* with an earlier time.  Two rows of which only one holds have no order, as the
\* clock is read before the row is written.
Older(c, d) == c \in before[d] /\ created[c] < created[d]

\* An agent never handles a command before an older one of its own, across lost
\* replies, polls nobody waits for any more and agents started again.
HandledInOrder ==
  \A a \in Agents : \A i, j \in DOMAIN handled[a] :
    i < j => ~Older(handled[a][j], handled[a][i])

\* Readers of the event log see a delivery before its ack and none of a
\* deleted command, although every event is appended after its write.
EventsInOrder ==
  \A c \in Commands :
    /\ <<"acked", c>> \in events => <<"delivered", c>> \in events
    /\ <<"deleted", c>> \in events => <<"delivered", c>> \notin events

\* A queued command does not wait for ever: the next polls of an agent it is for
\* reach it, unless all of those have ended and nobody starts one again.
NobodyToTake(c) == \A a \in Agents : owner[c] \in {NoAgent, a} => a \notin up
QueuedIsTaken ==
  \A c \in Commands :
    status[c] = "queued" ~> status[c] # "queued" \/ []NobodyToTake(c)

\* A delivered command ends acked or its row is purged, unless something fails.
DeliveredIsSettled ==
  \A c \in Commands :
    status[c] = "delivered" ~> status[c] \in {"acked", "purged"} \/ faults > 0

\* README.md, "Hidden agents reappear when they register again, or when you
\* enable Show Hidden and use Unhide": nothing else brings one back.
HiddenUntilRegistered ==
  [][\A a \in Agents : a \in dismissed /\ a \notin dismissed' =>
       UnhideAgent(a) \/ Start(a)]_vars

-----------------------------------------------------------------------------
(* Where a claimed command is: with one poll handler, in one agent's list,  *)
(* or handled.  Custody is the inductive invariant behind the safety        *)
(* properties above.                                                        *)
Taken(c) == status[c] \in {"delivered", "acked", "purged"}

CustodyOfPolls ==
  \A p \in Polls :
    /\ poll[p].phase \in {"idle", "waiting"} => poll[p].got = {}
    /\ poll[p].phase # "idle" => poll[p].agent \in Agents
    /\ \A c \in poll[p].got : Taken(c) /\ owner[c] = poll[p].agent
    /\ \A q \in Polls \ {p} : poll[p].got \cap poll[q].got = {}
    /\ \A a \in Agents :
         /\ live[a] = p => poll[p].phase # "idle" /\ poll[p].agent = a
         /\ poll[p].got \cap (todo[a] \cup HandledBy(a)) = {}

CustodyOfAgents ==
  \A a \in Agents :
    /\ \A c \in todo[a] \cup HandledBy(a) :
         Taken(c) /\ owner[c] = a /\ <<"delivered", c>> \in events
    /\ todo[a] \cap HandledBy(a) = {}
    /\ \A i, j \in DOMAIN handled[a] : handled[a][i] = handled[a][j] => i = j
    /\ doing[a] # NoCommand => doing[a] \in HandledBy(a)
    /\ \A c \in Commands : <<a, c>> \in acking => c \in HandledBy(a)

CustodyOfEvents ==
  \A c \in Commands :
    /\ <<"acked", c>> \in owed \cup events => <<"delivered", c>> \in events
    /\ <<"deleted", c>> \in owed \cup events => status[c] = "deleted"
    /\ <<"delivered", c>> \in events => Taken(c)
    /\ status[c] = "acked" => owner[c] \in Agents /\ c \in HandledBy(owner[c])

\* A claimed command is in exactly one place, and its row, its owner and its
\* events agree with that place.
Custody == CustodyOfPolls /\ CustodyOfAgents /\ CustodyOfEvents
=============================================================================
