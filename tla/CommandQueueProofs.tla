------------------------- MODULE CommandQueueProofs -------------------------
(* Proofs about CommandQueue, for every value of its constants.             *)
EXTENDS CommandQueue, TLAPS

-----------------------------------------------------------------------------
(* Every step keeps every variable within its type.                         *)
LEMMA PollFields ==
  ASSUME NEW r \in PollState
  PROVE  /\ r.phase \in {"idle", "waiting", "claimed", "logging"}
         /\ r.agent \in Agents \cup {NoAgent}
         /\ r.got \in SUBSET Commands /\ r.missing \in SUBSET Commands
  BY DEF PollState

LEMMA PollAtType ==
  /\ IdlePoll \in PollState
  /\ \A ph \in {"idle", "waiting", "claimed", "logging"},
       a \in Agents \cup {NoAgent}, got, missing \in SUBSET Commands :
       PollAt(ph, a, got, missing) \in PollState
  BY DEF PollAt, PollState, IdlePoll

LEMMA TypeInit == Init => TypeOK
  BY PollAtType, MaxFaultsAssumption DEF Init, TypeOK

LEMMA TypeOperator == TypeOK /\ Operator => TypeOK'
<1> SUFFICES ASSUME TypeOK, Operator PROVE TypeOK'
  OBVIOUS
<1>1. ASSUME NEW c \in Commands, NEW o \in Agents \cup {NoAgent},
             NEW t \in Times, CreateCommand(c, o, t)
      PROVE  TypeOK'
  BY <1>1 DEF CreateCommand, TypeOK, clients
<1>2. ASSUME NEW c \in Commands, DeleteCheck(c) PROVE TypeOK'
  BY <1>2 DEF DeleteCheck, TypeOK, table, clients
<1>3. ASSUME NEW c \in Commands, DeleteWrite(c) PROVE TypeOK'
  <2>1. status' \in [Commands -> {"new", "queued", "delivered", "acked",
                                  "deleted", "purged"}]
    BY <1>3 DEF DeleteWrite, TypeOK
  <2>2. owed' \subseteq {"queued", "deleted", "acked"} \X Commands
    BY <1>3 DEF DeleteWrite, TypeOK
  <2> QED
    BY <1>3, <2>1, <2>2 DEF DeleteWrite, TypeOK, clients
<1>4. ASSUME NEW a \in Agents, HideAgent(a) PROVE TypeOK'
  BY <1>4 DEF HideAgent, TypeOK, table, clients
<1>5. ASSUME NEW a \in Agents, PurgeAgent(a) PROVE TypeOK'
  BY <1>5 DEF PurgeAgent, TypeOK, clients
<1>6. ASSUME NEW a \in Agents, UnhideAgent(a) PROVE TypeOK'
  BY <1>6 DEF UnhideAgent, TypeOK, table, clients
<1>7. ASSUME NEW a \in Agents, Start(a) PROVE TypeOK'
  BY <1>7 DEF Start, TypeOK, table
<1> QED
  BY <1>1, <1>2, <1>3, <1>4, <1>5, <1>6, <1>7 DEF Operator

\* Agents that end leave the variables of agents within their types.
LEMMA EndsType ==
  ASSUME TypeOK, NEW E, Ends(E)
  PROVE  /\ up' \subseteq Agents /\ live' \in [Agents -> Polls \cup {NoPoll}]
         /\ todo' \in [Agents -> SUBSET Commands]
         /\ doing' \in [Agents -> Commands \cup {NoCommand}]
         /\ handled' \in [Agents -> Seq(Commands)]
  BY DEF Ends, TypeOK

LEMMA TypePoll == ASSUME TypeOK, NEW p \in Polls, PollHandler(p) PROVE TypeOK'
<1>1. CASE Claim(p)
  <2> DEFINE a == poll[p].agent
  <2>1. PICK B \in SUBSET Eligible(a) :
          /\ status' = [c \in Commands |-> IF c \in B THEN "delivered" ELSE status[c]]
          /\ owner'  = [c \in Commands |-> IF c \in B THEN ClaimedOwner(c, a)
                                           ELSE owner[c]]
          /\ poll'   = [poll EXCEPT ![p] = PollAt("claimed", a, B, {})]
    BY <1>1 DEF Claim
  <2>2. B \subseteq Commands
    BY DEF Eligible
  <2>3. \A c \in Commands : ClaimedOwner(c, a) \in Agents \cup {NoAgent}
    BY PollFields DEF ClaimedOwner, TypeOK
  <2>4. dismissed' \subseteq Agents
    BY <1>1 DEF Claim, TypeOK
  <2>5. UNCHANGED <<created, before, deleting, acking, owed, events, clients, faults>>
    BY <1>1 DEF Claim
  <2>6. poll' \in [Polls -> PollState]
    <3>1. PollAt("claimed", a, B, {}) \in PollState
      BY <2>2, PollAtType, PollFields DEF TypeOK
    <3> QED
      BY <2>1, <3>1 DEF TypeOK
  <2>7. /\ status' \in [Commands -> {"new", "queued", "delivered", "acked",
                                     "deleted", "purged"}]
        /\ owner' \in [Commands -> Agents \cup {NoAgent}]
    BY <2>1, <2>3 DEF TypeOK
  <2> QED
    BY <2>4, <2>5, <2>6, <2>7 DEF TypeOK, clients
<1>2. CASE ClaimNothing(p)
  BY <1>2 DEF ClaimNothing, TypeOK, table, clients
<1>3. CASE TimeOut(p)
  BY <1>3, PollAtType DEF TimeOut, TypeOK, table
<1>4. CASE Reread(p)
  <2>1. poll' \in [Polls -> PollState]
    <3>1. PollAt("logging", poll[p].agent, poll[p].got, poll[p].got \ Rows)
            \in PollState
      BY PollAtType, PollFields DEF TypeOK
    <3> QED
      BY <1>4, <3>1 DEF Reread, TypeOK
  <2> QED
    BY <1>4, <2>1 DEF Reread, TypeOK, table, clients
<1>5. CASE Reply(p)
  BY <1>5, PollAtType, PollFields DEF Reply, TypeOK, table
<1>6. ASSUME NEW c \in Commands, LogDelivered(p, c) PROVE TypeOK'
  BY <1>6 DEF LogDelivered, TypeOK, table, clients
<1>7. ASSUME NEW c \in Commands, ReplyError(p, c) PROVE TypeOK'
  BY <1>7, PollAtType, EndsType DEF ReplyError, TypeOK, table
<1> QED
  BY <1>1, <1>2, <1>3, <1>4, <1>5, <1>6, <1>7 DEF PollHandler

LEMMA TypeAgent ==
  ASSUME TypeOK, NEW a \in Agents,
         Agent(a) \/ \E c \in Commands : AckHandler(a, c)
  PROVE  TypeOK'
<1>1. ASSUME NEW p \in Polls, OpenPoll(a, p) PROVE TypeOK'
  BY <1>1, PollAtType DEF OpenPoll, TypeOK, table
<1>2. ASSUME NEW c \in Commands, Handle(a, c) PROVE TypeOK'
  BY <1>2 DEF Handle, TypeOK, table
<1>3. ASSUME NEW c \in Commands, AckCheck(a, c) PROVE TypeOK'
  BY <1>3 DEF AckCheck, TypeOK, table, clients
<1>4. ASSUME NEW c \in Commands, AckRefused(a, c) PROVE TypeOK'
  BY <1>4, EndsType DEF AckRefused, TypeOK, table
<1>5. ASSUME NEW c \in Commands, AckWrite(a, c) PROVE TypeOK'
  <2>1. status' \in [Commands -> {"new", "queued", "delivered", "acked",
                                  "deleted", "purged"}]
    BY <1>5 DEF AckWrite, TypeOK
  <2>2. /\ owed' \subseteq {"queued", "deleted", "acked"} \X Commands
        /\ acking' \subseteq Agents \X Commands
    BY <1>5 DEF AckWrite, TypeOK
  <2> QED
    BY <1>5, <2>1, <2>2 DEF AckWrite, TypeOK, clients
<1> QED
  BY <1>1, <1>2, <1>3, <1>4, <1>5 DEF Agent, AckHandler

LEMMA TypeAppend == TypeOK /\ AppendOwed => TypeOK'
<1> SUFFICES ASSUME TypeOK, NEW kind \in {"queued", "deleted", "acked"},
                    NEW c \in Commands, LogOwed(kind, c) \/ RowGone(kind, c)
             PROVE  TypeOK'
  BY DEF AppendOwed
<1>1. CASE LogOwed(kind, c)
  BY <1>1 DEF LogOwed, TypeOK, table
<1>2. CASE RowGone(kind, c)
  BY <1>2, EndsType DEF RowGone, NotAppended, TypeOK, table
<1> QED
  BY <1>1, <1>2

LEMMA TypeFailure == TypeOK /\ Failure => TypeOK'
<1> SUFFICES ASSUME TypeOK, Failure PROVE TypeOK'
  OBVIOUS
<1> Fault => faults' \in 0..MaxFaults
  BY MaxFaultsAssumption DEF Fault, TypeOK
<1>1. ASSUME NEW p \in Polls, LosePoll(p) PROVE TypeOK'
  BY <1>1, PollAtType, EndsType DEF LosePoll, TypeOK, table
<1>2. ASSUME NEW c \in Commands, LoseDelete(c) PROVE TypeOK'
  BY <1>2 DEF LoseDelete, TypeOK, table, clients
<1>3. ASSUME NEW a \in Agents, NEW c \in Commands, LoseAck(a, c) PROVE TypeOK'
  <2>1. PICK E \in SUBSET Agents : Ends(E)
    BY <1>3 DEF LoseAck
  <2> QED
    BY <1>3, <2>1, EndsType DEF LoseAck, TypeOK, table
<1>4. ASSUME NEW kind \in {"queued", "deleted", "acked"}, NEW c \in Commands,
             LoseEvent(kind, c)
      PROVE  TypeOK'
  BY <1>4, EndsType DEF LoseEvent, NotAppended, TypeOK, table
<1>5. ASSUME NEW a \in Agents, StopAgent(a) PROVE TypeOK'
  BY <1>5, EndsType DEF StopAgent, TypeOK, table
<1> QED
  BY <1>1, <1>2, <1>3, <1>4, <1>5 DEF Failure

LEMMA TypeNext == TypeOK /\ [Next]_vars => TypeOK'
<1> SUFFICES ASSUME TypeOK, [Next]_vars PROVE TypeOK'
  OBVIOUS
<1>1. CASE UNCHANGED vars
  BY <1>1 DEF vars, table, clients, TypeOK
<1> QED
  BY <1>1, TypeOperator, TypePoll, TypeAgent, TypeAppend, TypeFailure DEF Next

\* The tables, the handlers and the agents stay within their types: statuses,
\* phases and events take the values the code writes and no other.
THEOREM TypeCorrect == Spec => []TypeOK
  BY TypeInit, TypeNext, PTL DEF Spec

-----------------------------------------------------------------------------
(* Custody is inductive: one lemma for each group of actions.               *)
LEMMA CustodyInit == Init => Custody
<1> SUFFICES ASSUME Init PROVE Custody
  OBVIOUS
<1>1. \A p \in Polls : poll[p].phase = "idle" /\ poll[p].got = {}
  BY DEF Init, IdlePoll, PollAt
<1>2. \A a \in Agents : live[a] = NoPoll /\ todo[a] = {} /\ HandledBy(a) = {}
  BY DEF Init, HandledBy
<1>3. CustodyOfPolls
  BY <1>1, <1>2, NoPollAssumption DEF CustodyOfPolls
<1>4. CustodyOfAgents
  BY <1>2 DEF CustodyOfAgents, Init
<1>5. CustodyOfEvents
  BY DEF CustodyOfEvents, Init
<1> QED
  BY <1>3, <1>4, <1>5 DEF Custody

\* A step that moves no command and takes nothing away from one that is taken
\* keeps two thirds of Custody.
LEMMA HeldFrame ==
  ASSUME Custody, UNCHANGED <<poll, live, todo, handled>>,
         \A c \in Commands : Taken(c) => Taken(c)' /\ owner'[c] = owner[c],
         \A a \in Agents : doing'[a] \in {doing[a], NoCommand},
         TypeOK, acking' \subseteq acking, events \subseteq events'
  PROVE  CustodyOfPolls' /\ CustodyOfAgents'
<1>1. \A p \in Polls : poll[p].got \subseteq Commands
  BY PollFields DEF TypeOK
<1>2. \A a \in Agents : todo[a] \cup HandledBy(a) \subseteq Commands
  BY DEF TypeOK, HandledBy
<1>3. \A a \in Agents : HandledBy(a)' = HandledBy(a)
  BY DEF HandledBy
<1>4. CustodyOfPolls'
  BY <1>1, <1>3 DEF Custody, CustodyOfPolls
<1>5. CustodyOfAgents'
  BY <1>2, <1>3 DEF Custody, CustodyOfAgents
<1> QED
  BY <1>4, <1>5

LEMMA CustodyOperator == TypeOK /\ Custody /\ Operator => Custody'
<1> SUFFICES ASSUME TypeOK, Custody, Operator PROVE Custody'
  OBVIOUS
<1>1. ASSUME NEW c \in Commands, NEW o \in Agents \cup {NoAgent},
             NEW t \in Times, CreateCommand(c, o, t)
      PROVE  Custody'
  <2>1. CustodyOfPolls' /\ CustodyOfAgents'
    BY <1>1, HeldFrame DEF CreateCommand, Taken, TypeOK, clients
  <2>2. CustodyOfEvents'
    <3>1. /\ status[c] = "new" /\ status'[c] = "queued"
          /\ \A d \in Commands \ {c} : status'[d] = status[d] /\ owner'[d] = owner[d]
          /\ owed' = owed \cup {<<"queued", c>>} /\ UNCHANGED <<events, handled>>
      BY <1>1 DEF CreateCommand, TypeOK, clients
    <3>2. \A d \in Commands :
            /\ <<"acked", d>> \in owed' => <<"acked", d>> \in owed
            /\ <<"deleted", d>> \in owed' => <<"deleted", d>> \in owed
      BY <3>1
    <3> QED
      BY <3>1, <3>2 DEF Custody, CustodyOfEvents, Taken, HandledBy
  <2> QED
    BY <2>1, <2>2 DEF Custody
<1>2. ASSUME NEW c \in Commands, DeleteCheck(c) PROVE Custody'
  BY <1>2 DEF DeleteCheck, table, clients, Custody, CustodyOfPolls,
              CustodyOfAgents, CustodyOfEvents, Taken, HandledBy
<1>3. ASSUME NEW c \in Commands, DeleteWrite(c) PROVE Custody'
  <2>1. CustodyOfPolls' /\ CustodyOfAgents'
    BY <1>3, HeldFrame DEF DeleteWrite, DeleteGuard, Taken, TypeOK, clients
  <2>2. \A d \in Commands : status[d] # "queued" => status'[d] = status[d]
    BY <1>3 DEF DeleteWrite, DeleteGuard, TypeOK
  <2>3. \A d \in Commands : <<"deleted", d>> \in owed' \cup events' =>
          <<"deleted", d>> \in owed \cup events \/ status'[d] = "deleted"
    BY <1>3 DEF DeleteWrite, DeleteGuard, TypeOK
  <2>4. \A d \in Commands :
          /\ status'[d] = "acked" => status[d] = "acked"
          /\ <<"acked", d>> \in owed' => <<"acked", d>> \in owed
    BY <1>3 DEF DeleteWrite, DeleteGuard, TypeOK
  <2>5. UNCHANGED <<owner, events, handled>>
    BY <1>3 DEF DeleteWrite, clients
  <2>6. CustodyOfEvents'
    BY <2>2, <2>3, <2>4, <2>5
       DEF Custody, CustodyOfEvents, Taken, HandledBy
  <2> QED
    BY <2>1, <2>6 DEF Custody
<1>4. ASSUME NEW a \in Agents, HideAgent(a) \/ UnhideAgent(a) PROVE Custody'
  BY <1>4 DEF HideAgent, UnhideAgent, table, clients, Custody, CustodyOfPolls,
              CustodyOfAgents, CustodyOfEvents, Taken, HandledBy
<1>5. ASSUME NEW a \in Agents, PurgeAgent(a) PROVE Custody'
  <2>1. CustodyOfPolls' /\ CustodyOfAgents'
    BY <1>5, HeldFrame DEF PurgeAgent, Rows, Taken, TypeOK, clients
  <2>2. CustodyOfEvents'
    BY <1>5 DEF PurgeAgent, Rows, Custody, CustodyOfEvents, Taken, TypeOK,
                clients, HandledBy
  <2> QED
    BY <2>1, <2>2 DEF Custody
<1>6. ASSUME NEW a \in Agents, Start(a) PROVE Custody'
  BY <1>6 DEF Start, table, Custody, CustodyOfPolls, CustodyOfAgents,
              CustodyOfEvents, Taken, HandledBy
<1> QED
  BY <1>1, <1>2, <1>3, <1>4, <1>5, <1>6 DEF Operator

\* Agents that end only drop what they had.
LEMMA CustodyEnds ==
  ASSUME TypeOK, Custody, NEW E, Ends(E), UNCHANGED <<status, owner, poll, events>>,
         acking' \subseteq acking, owed' \subseteq owed
  PROVE  Custody'
<1>1. \A a \in Agents : /\ live'[a] \in {live[a], NoPoll} /\ todo'[a] \in {todo[a], {}}
                        /\ doing'[a] \in {doing[a], NoCommand}
                        /\ handled'[a] = handled[a] /\ HandledBy(a)' = HandledBy(a)
  BY DEF Ends, HandledBy
<1>2. CustodyOfPolls'
  BY <1>1, NoPollAssumption DEF Custody, CustodyOfPolls, Taken
<1>3. CustodyOfAgents'
  BY <1>1 DEF Custody, CustodyOfAgents, Taken
<1>4. CustodyOfEvents'
  BY <1>1 DEF Custody, CustodyOfEvents, Taken
<1> QED
  BY <1>2, <1>3, <1>4 DEF Custody

\* The steps that end a poll, and perhaps the agent that waits for it.
PollEnds(p) ==
  /\ poll' = [poll EXCEPT ![p] = IdlePoll]
  /\ \A a \in Agents : /\ live'[a] = IF live[a] = p THEN NoPoll ELSE live[a]
                       /\ todo'[a] \in {todo[a], {}}
                       /\ doing'[a] \in {doing[a], NoCommand}
  /\ UNCHANGED <<status, owner, acking, owed, events, handled>>

LEMMA WaitersEnd ==
  ASSUME NEW p \in Polls, poll' = [poll EXCEPT ![p] = IdlePoll], Ends(WaitingOn(p)),
         UNCHANGED <<table, acking, owed, events>>
  PROVE  PollEnds(p)
  BY DEF PollEnds, Ends, WaitingOn, table

LEMMA CustodyPollEnds ==
  ASSUME TypeOK, Custody, NEW p \in Polls, PollEnds(p) PROVE Custody'
<1>1. /\ IdlePoll.phase = "idle" /\ IdlePoll.got = {}
      /\ \A q \in Polls \ {p} : poll'[q] = poll[q]
      /\ poll'[p] = IdlePoll
  BY DEF IdlePoll, PollAt, PollEnds, TypeOK
<1>2. \A a \in Agents : /\ HandledBy(a)' = HandledBy(a) /\ todo'[a] \in {todo[a], {}}
                        /\ doing'[a] \in {doing[a], NoCommand} /\ live'[a] # p
                        /\ live'[a] = live[a] \/ live'[a] = NoPoll
  BY NoPollAssumption DEF PollEnds, HandledBy
<1>3. CustodyOfPolls'
  BY <1>1, <1>2, NoPollAssumption DEF PollEnds, Custody, CustodyOfPolls, Taken
<1>4. CustodyOfAgents' /\ CustodyOfEvents'
  BY <1>2 DEF PollEnds, Custody, CustodyOfAgents, CustodyOfEvents, Taken, HandledBy
<1> QED
  BY <1>3, <1>4 DEF Custody

LEMMA CustodyPoll ==
  ASSUME TypeOK, Custody, NEW p \in Polls, PollHandler(p) PROVE Custody'
<1>1. CASE Claim(p)
  <2> DEFINE a == poll[p].agent
  <2>1. PICK B \in SUBSET Eligible(a) :
          /\ status' = [c \in Commands |-> IF c \in B THEN "delivered" ELSE status[c]]
          /\ owner'  = [c \in Commands |-> IF c \in B THEN ClaimedOwner(c, a)
                                           ELSE owner[c]]
          /\ poll'   = [poll EXCEPT ![p] = PollAt("claimed", a, B, {})]
    BY <1>1 DEF Claim
  <2>2. /\ UNCHANGED <<acking, owed, events, clients>>
        /\ poll[p].phase = "waiting"
    BY <1>1 DEF Claim
  <2>3. a \in Agents /\ poll[p].got = {}
    BY <2>2 DEF Custody, CustodyOfPolls
  <2>4. /\ poll'[p].phase = "claimed" /\ poll'[p].agent = a /\ poll'[p].got = B
        /\ \A q \in Polls \ {p} : poll'[q] = poll[q]
    BY <2>1 DEF TypeOK, PollAt
  <2>5. \A c \in B : /\ c \in Commands /\ status[c] = "queued"
                     /\ status'[c] = "delivered" /\ owner'[c] = a
    BY <2>1, <2>3 DEF Eligible, ClaimedOwner
  <2>6. \A c \in Commands \ B : status'[c] = status[c] /\ owner'[c] = owner[c]
    BY <2>1
  <2>7. \A b \in Agents : HandledBy(b)' = HandledBy(b)
    BY <2>2 DEF HandledBy, clients
  <2>8. /\ \A q \in Polls : poll[q].got \subseteq Commands
        /\ \A b \in Agents : todo[b] \cup HandledBy(b) \subseteq Commands
    BY PollFields DEF TypeOK, HandledBy
  <2>9. CustodyOfPolls'
    <3>1. /\ \A q \in Polls : B \cap poll[q].got = {}
          /\ \A b \in Agents : B \cap (todo[b] \cup HandledBy(b)) = {}
      BY <2>5 DEF Custody, CustodyOfPolls, CustodyOfAgents, Taken
    <3>2. \A q \in Polls : \A c \in poll'[q].got :
            Taken(c)' /\ owner'[c] = poll'[q].agent
      BY <2>3, <2>4, <2>5, <2>6, <2>8 DEF Custody, CustodyOfPolls, Taken
    <3>3. \A q, r \in Polls : q # r => poll'[q].got \cap poll'[r].got = {}
      BY <2>4, <3>1 DEF Custody, CustodyOfPolls
    <3>4. \A q \in Polls, b \in Agents :
            /\ live'[b] = q => poll'[q].phase # "idle" /\ poll'[q].agent = b
            /\ poll'[q].got \cap (todo'[b] \cup HandledBy(b)') = {}
      BY <2>2, <2>4, <2>7, <3>1 DEF Custody, CustodyOfPolls, clients
    <3>5. \A q \in Polls :
            /\ poll'[q].phase \in {"idle", "waiting"} => poll'[q].got = {}
            /\ poll'[q].phase # "idle" => poll'[q].agent \in Agents
      BY <2>3, <2>4 DEF Custody, CustodyOfPolls
    <3> QED
      BY <3>2, <3>3, <3>4, <3>5 DEF CustodyOfPolls
  <2>10. CustodyOfAgents'
    BY <2>2, <2>5, <2>6, <2>7, <2>8
       DEF Custody, CustodyOfAgents, Taken, clients
  <2>11. CustodyOfEvents'
    BY <2>2, <2>5, <2>6, <2>7 DEF Custody, CustodyOfEvents, Taken, clients
  <2> QED
    BY <2>9, <2>10, <2>11 DEF Custody
<1>2. CASE ClaimNothing(p)
  BY <1>2 DEF ClaimNothing, table, clients, Custody, CustodyOfPolls,
              CustodyOfAgents, CustodyOfEvents, Taken, HandledBy
<1>3. CASE TimeOut(p)
  BY <1>3, CustodyPollEnds DEF TimeOut, table, PollEnds
<1>4. CASE Reread(p)
  <2>1. /\ UNCHANGED <<status, owner, acking, owed, events, clients>>
        /\ poll[p].phase = "claimed" /\ poll'[p].phase = "logging"
        /\ poll'[p].agent = poll[p].agent /\ poll'[p].got = poll[p].got
        /\ \A q \in Polls \ {p} : poll'[q] = poll[q]
    BY <1>4 DEF Reread, TypeOK, table, PollAt
  <2>2. \A q \in Polls : /\ poll'[q].agent = poll[q].agent
                         /\ poll'[q].got = poll[q].got
                         /\ poll'[q].phase = poll[q].phase \/ q = p
    BY <2>1
  <2>3. \A b \in Agents : HandledBy(b)' = HandledBy(b)
    BY <2>1 DEF HandledBy, clients
  <2>4. CustodyOfPolls'
    BY <2>1, <2>2, <2>3 DEF Custody, CustodyOfPolls, Taken, clients
  <2>5. CustodyOfAgents' /\ CustodyOfEvents'
    BY <2>1, <2>3 DEF Custody, CustodyOfAgents, CustodyOfEvents, Taken, clients
  <2> QED
    BY <2>4, <2>5 DEF Custody
<1>5. CASE Reply(p)
  <2>1. /\ poll' = [poll EXCEPT ![p] = IdlePoll]
        /\ todo' = [b \in Agents |-> IF live[b] = p THEN poll[p].got ELSE todo[b]]
        /\ live' = [b \in Agents |-> IF live[b] = p THEN NoPoll ELSE live[b]]
        /\ UNCHANGED <<status, owner, acking, owed, events, doing, handled>>
        /\ \A c \in poll[p].got : <<"delivered", c>> \in events
    BY <1>5 DEF Reply, ReadyToReply, Unlogged, table
  <2>2. /\ IdlePoll.phase = "idle" /\ IdlePoll.got = {}
        /\ \A q \in Polls \ {p} : poll'[q] = poll[q]
        /\ poll'[p] = IdlePoll
    BY <2>1 DEF IdlePoll, PollAt, TypeOK
  <2>3. \A b \in Agents :
          /\ HandledBy(b)' = HandledBy(b)
          /\ live'[b] # p /\ (live'[b] = live[b] \/ live'[b] = NoPoll)
          /\ (live[b] = p /\ todo'[b] = poll[p].got) \/ todo'[b] = todo[b]
          /\ live[b] = p => poll[p].agent = b
    BY <2>1, NoPollAssumption DEF HandledBy, Custody, CustodyOfPolls
  <2>4. CustodyOfPolls'
    BY <2>1, <2>2, <2>3, NoPollAssumption DEF Custody, CustodyOfPolls, Taken
  <2>5. CustodyOfAgents'
    BY <2>1, <2>3 DEF Custody, CustodyOfPolls, CustodyOfAgents, Taken
  <2>6. CustodyOfEvents'
    BY <2>1, <2>3 DEF Custody, CustodyOfEvents, Taken
  <2> QED
    BY <2>4, <2>5, <2>6 DEF Custody
<1>6. ASSUME NEW c \in Commands, LogDelivered(p, c) PROVE Custody'
  <2>1. /\ UNCHANGED <<status, owner, poll, acking, owed, clients>>
        /\ events' = events \cup {<<"delivered", c>>} /\ c \in poll[p].got
    BY <1>6 DEF LogDelivered, table, IsOldest, Unlogged
  <2>2. CustodyOfPolls' /\ CustodyOfAgents'
    BY <2>1, HeldFrame DEF Taken, clients
  <2>3. CustodyOfEvents'
    <3>1. Taken(c)
      BY <2>1 DEF Custody, CustodyOfPolls
    <3>2. \A d \in Commands :
            /\ <<"delivered", d>> \in events' => <<"delivered", d>> \in events \/ d = c
            /\ <<"deleted", d>> \in events' => <<"deleted", d>> \in events
            /\ <<"acked", d>> \in events' => <<"acked", d>> \in events
      BY <2>1
    <3> QED
      BY <2>1, <3>1, <3>2
         DEF Custody, CustodyOfEvents, Taken, HandledBy, clients
  <2> QED
    BY <2>2, <2>3 DEF Custody
<1>7. ASSUME NEW c \in Commands, ReplyError(p, c) PROVE Custody'
  BY <1>7, CustodyPollEnds, WaitersEnd DEF ReplyError
<1> QED
  BY <1>1, <1>2, <1>3, <1>4, <1>5, <1>6, <1>7 DEF PollHandler

LEMMA HandledByAppend ==
  ASSUME NEW a \in Agents, NEW c \in Commands, TypeOK, Handle(a, c)
  PROVE  /\ HandledBy(a)' = HandledBy(a) \cup {c}
         /\ \A b \in Agents \ {a} : HandledBy(b)' = HandledBy(b)
<1>1. /\ handled' = [handled EXCEPT ![a] = Append(@, c)]
      /\ handled[a] \in Seq(Commands)
  BY DEF Handle, TypeOK
<1>2. handled'[a] = Append(handled[a], c)
  BY <1>1 DEF TypeOK
<1>3. /\ DOMAIN handled'[a] = DOMAIN handled[a] \cup {Len(handled[a]) + 1}
      /\ \A i \in DOMAIN handled[a] : handled'[a][i] = handled[a][i]
      /\ handled'[a][Len(handled[a]) + 1] = c
  BY <1>1, <1>2
<1>4. \A b \in Agents \ {a} : handled'[b] = handled[b]
  BY <1>1 DEF TypeOK
<1> QED
  BY <1>3, <1>4 DEF HandledBy

LEMMA CustodyAgent ==
  ASSUME TypeOK, Custody, NEW a \in Agents,
         Agent(a) \/ \E c \in Commands : AckHandler(a, c)
  PROVE  Custody'
<1>1. ASSUME NEW p \in Polls, OpenPoll(a, p) PROVE Custody'
  <2>1. /\ UNCHANGED <<status, owner, acking, owed, events, todo, doing, handled>>
        /\ poll[p].phase = "idle" /\ poll'[p].phase = "waiting"
        /\ poll'[p].agent = a /\ poll'[p].got = {}
        /\ \A q \in Polls \ {p} : poll'[q] = poll[q]
        /\ live'[a] = p /\ \A b \in Agents \ {a} : live'[b] = live[b]
    BY <1>1 DEF OpenPoll, TypeOK, table, PollAt
  <2>2. \A b \in Agents : HandledBy(b)' = HandledBy(b)
    BY <2>1 DEF HandledBy
  <2>3. CustodyOfPolls'
    BY <2>1, <2>2 DEF Custody, CustodyOfPolls, Taken
  <2>4. CustodyOfAgents' /\ CustodyOfEvents'
    BY <2>1, <2>2 DEF Custody, CustodyOfAgents, CustodyOfEvents, Taken
  <2> QED
    BY <2>3, <2>4 DEF Custody
<1>2. ASSUME NEW c \in Commands, Handle(a, c) PROVE Custody'
  <2>1. /\ UNCHANGED <<status, owner, poll, acking, owed, events, live>>
        /\ c \in todo[a] /\ todo'[a] = todo[a] \ {c} /\ doing'[a] = c
        /\ \A b \in Agents \ {a} : /\ todo'[b] = todo[b] /\ doing'[b] = doing[b]
                                   /\ handled'[b] = handled[b]
        /\ handled'[a] = Append(handled[a], c)
    BY <1>2 DEF Handle, IsOldest, TypeOK, table
  <2>2. /\ HandledBy(a)' = HandledBy(a) \cup {c}
        /\ \A b \in Agents \ {a} : HandledBy(b)' = HandledBy(b)
    BY <1>2, HandledByAppend
  <2>3. \A b \in Agents : /\ todo'[b] \cup HandledBy(b)' = todo[b] \cup HandledBy(b)
                          /\ HandledBy(b) \subseteq HandledBy(b)'
    BY <2>1, <2>2
  <2>4. CustodyOfPolls'
    BY <2>1, <2>3 DEF Custody, CustodyOfPolls, Taken
  <2>5. CustodyOfEvents'
    BY <2>1, <2>3 DEF Custody, CustodyOfEvents, Taken
  <2>6. \A i, j \in DOMAIN handled'[a] : handled'[a][i] = handled'[a][j] => i = j
    <3>1. c \notin HandledBy(a) /\ handled[a] \in Seq(Commands)
      BY <2>1 DEF Custody, CustodyOfAgents, TypeOK
    <3>2. \A i \in DOMAIN handled[a] : handled[a][i] # c
      BY <3>1 DEF HandledBy
    <3>3. \A i, j \in DOMAIN handled[a] : handled[a][i] = handled[a][j] => i = j
      BY DEF Custody, CustodyOfAgents
    <3> QED
      BY <2>1, <3>1, <3>2, <3>3
  <2>7. \A b \in Agents :
          /\ \A d \in todo'[b] \cup HandledBy(b)' :
               Taken(d)' /\ owner'[d] = b /\ <<"delivered", d>> \in events'
          /\ todo'[b] \cap HandledBy(b)' = {}
          /\ doing'[b] # NoCommand => doing'[b] \in HandledBy(b)'
          /\ \A d \in Commands : <<b, d>> \in acking' => d \in HandledBy(b)'
    BY <2>1, <2>2, <2>3 DEF Custody, CustodyOfAgents, Taken
  <2>8. CustodyOfAgents'
    <3>1. \A b \in Agents : \A i, j \in DOMAIN handled'[b] :
            handled'[b][i] = handled'[b][j] => i = j
      <4>1. \A b \in Agents \ {a} : \A i, j \in DOMAIN handled[b] :
              handled[b][i] = handled[b][j] => i = j
        BY DEF Custody, CustodyOfAgents
      <4>2. \A b \in Agents \ {a} : handled'[b] = handled[b]
        BY <2>1
      <4> QED
        BY <2>6, <4>1, <4>2
    <3> QED
      BY <2>7, <3>1 DEF CustodyOfAgents
  <2> QED
    BY <2>4, <2>5, <2>8 DEF Custody
<1>3. ASSUME NEW c \in Commands, AckCheck(a, c) PROVE Custody'
  <2>1. /\ UNCHANGED <<status, owner, poll, owed, events, clients>>
        /\ acking' = acking \cup {<<a, c>>} /\ doing[a] = c
    BY <1>3 DEF AckCheck, table
  <2>2. c \in HandledBy(a)
    BY <2>1, NoCommandAssumption DEF Custody, CustodyOfAgents
  <2>3. \A b \in Agents, d \in Commands : <<b, d>> \in acking' => d \in HandledBy(b)
    BY <2>1, <2>2 DEF Custody, CustodyOfAgents
  <2>4. CustodyOfPolls' /\ CustodyOfEvents'
    BY <2>1 DEF Custody, CustodyOfPolls, CustodyOfEvents, Taken, HandledBy, clients
  <2>5. CustodyOfAgents'
    BY <2>1, <2>3 DEF Custody, CustodyOfAgents, Taken, HandledBy, clients
  <2> QED
    BY <2>4, <2>5 DEF Custody
<1>4. ASSUME NEW c \in Commands, AckRefused(a, c) PROVE Custody'
  BY <1>4, CustodyEnds DEF AckRefused, table
<1>5. ASSUME NEW c \in Commands, AckWrite(a, c) PROVE Custody'
  <2>1. /\ UNCHANGED <<owner, poll, events, clients>>
        /\ acking' \subseteq acking /\ <<a, c>> \in acking
    BY <1>5 DEF AckWrite
  <2>2. /\ \A d \in Commands \ {c} : status'[d] = status[d]
        /\ \/ status'[c] = status[c]
           \/ status[c] = "delivered" /\ owner[c] = a /\ status'[c] = "acked"
    <3>1. CASE UNCHANGED <<status, owed>>
      BY <3>1
    <3>2. CASE AckGuard(a, c) /\ status' = [status EXCEPT ![c] = "acked"]
      BY <3>2 DEF AckGuard, TypeOK
    <3> QED
      BY <1>5, <3>1, <3>2 DEF AckWrite
  <2>3. owed' \subseteq owed \cup {<<"acked", c>>}
    BY <1>5 DEF AckWrite
  <2>4. c \in HandledBy(a) /\ <<"delivered", c>> \in events
    BY <2>1 DEF Custody, CustodyOfAgents
  <2>5. CustodyOfPolls' /\ CustodyOfAgents'
    BY <2>1, <2>2, HeldFrame DEF Taken, clients
  <2>6. CustodyOfEvents'
    <3>1. \A d \in Commands :
            /\ <<"acked", d>> \in owed' => <<"acked", d>> \in owed \/ d = c
            /\ <<"deleted", d>> \in owed' => <<"deleted", d>> \in owed
      BY <2>3
    <3>2. owner' = owner /\ handled' = handled /\ events' = events
      BY <2>1 DEF clients
    <3>3. \A d \in Commands : status'[d] = "acked" =>
            owner'[d] \in Agents /\ d \in HandledBy(owner[d])
      BY <2>2, <2>4, <3>2 DEF Custody, CustodyOfEvents
    <3>4. \A d \in Commands :
            /\ <<"acked", d>> \in owed' \cup events' => <<"delivered", d>> \in events'
            /\ <<"deleted", d>> \in owed' \cup events' => status'[d] = "deleted"
            /\ <<"delivered", d>> \in events' => Taken(d)'
      BY <2>2, <2>4, <3>1, <3>2 DEF Custody, CustodyOfEvents, Taken
    <3> QED
      BY <3>2, <3>3, <3>4 DEF CustodyOfEvents, HandledBy
  <2> QED
    BY <2>5, <2>6 DEF Custody
<1> QED
  BY <1>1, <1>2, <1>3, <1>4, <1>5 DEF Agent, AckHandler

LEMMA CustodyAppend == TypeOK /\ Custody /\ AppendOwed => Custody'
<1> SUFFICES ASSUME TypeOK, Custody,
                    NEW kind \in {"queued", "deleted", "acked"},
                    NEW c \in Commands, LogOwed(kind, c) \/ RowGone(kind, c)
             PROVE  Custody'
  BY DEF AppendOwed
<1>0. CASE RowGone(kind, c)
  BY <1>0, CustodyEnds DEF RowGone, NotAppended, table
<1> SUFFICES ASSUME LogOwed(kind, c) PROVE Custody'
  BY <1>0
<1>1. /\ UNCHANGED <<status, owner, poll, acking, live, todo, handled>>
      /\ owed' \cup events' = owed \cup events
      /\ events' = events \cup {<<kind, c>>}
      /\ \A a \in Agents : doing'[a] \in {doing[a], NoCommand}
  BY DEF LogOwed, table
<1>2. CustodyOfPolls' /\ CustodyOfAgents'
  BY <1>1, HeldFrame DEF Taken
<1>3. \A d \in Commands : <<"delivered", d>> \in events' <=>
                          <<"delivered", d>> \in events
  BY <1>1
<1>4. CustodyOfEvents'
  BY <1>1, <1>3 DEF Custody, CustodyOfEvents, Taken, HandledBy
<1> QED
  BY <1>2, <1>4 DEF Custody

LEMMA CustodyFailure == TypeOK /\ Custody /\ Failure => Custody'
<1> SUFFICES ASSUME TypeOK, Custody, Failure PROVE Custody'
  OBVIOUS
<1>1. ASSUME NEW p \in Polls, LosePoll(p) PROVE Custody'
  BY <1>1, CustodyPollEnds, WaitersEnd DEF LosePoll
<1>2. ASSUME NEW c \in Commands, LoseDelete(c) PROVE Custody'
  BY <1>2 DEF LoseDelete, table, clients, Custody, CustodyOfPolls,
              CustodyOfAgents, CustodyOfEvents, Taken, HandledBy
<1>3. ASSUME NEW a \in Agents, NEW c \in Commands, LoseAck(a, c) PROVE Custody'
  BY <1>3, CustodyEnds DEF LoseAck, table
<1>4. ASSUME NEW kind \in {"queued", "deleted", "acked"}, NEW c \in Commands,
             LoseEvent(kind, c)
      PROVE  Custody'
  BY <1>4, CustodyEnds DEF LoseEvent, NotAppended, table
<1>5. ASSUME NEW a \in Agents, StopAgent(a) PROVE Custody'
  BY <1>5, CustodyEnds DEF StopAgent, table
<1> QED
  BY <1>1, <1>2, <1>3, <1>4, <1>5 DEF Failure

LEMMA CustodyNext == TypeOK /\ Custody /\ [Next]_vars => Custody'
<1> SUFFICES ASSUME TypeOK, Custody, [Next]_vars PROVE Custody'
  OBVIOUS
<1>1. CASE UNCHANGED vars
  BY <1>1 DEF vars, table, clients, Custody, CustodyOfPolls, CustodyOfAgents,
              CustodyOfEvents, Taken, HandledBy
<1> QED
  BY <1>1, CustodyOperator, CustodyPoll, CustodyAgent, CustodyAppend,
     CustodyFailure DEF Next

\* A claimed command is with one poll handler, in one agent's list or handled,
\* never in two places, and its row, owner and events agree with the place.
THEOREM CustodyCorrect == Spec => []Custody
  BY CustodyInit, CustodyNext, TypeCorrect, PTL DEF Spec

LEMMA CustodyImplies ==
  TypeOK /\ Custody => /\ HandledOnce /\ DeletedNeverDelivered
                       /\ HolderOwnsCommand /\ AckedWasHandled /\ EventsInOrder
<1> SUFFICES ASSUME TypeOK, Custody
             PROVE  /\ HandledOnce /\ DeletedNeverDelivered
                    /\ HolderOwnsCommand /\ AckedWasHandled /\ EventsInOrder
  OBVIOUS
<1>1. HandledOnce
  <2> SUFFICES ASSUME NEW a \in Agents, NEW b \in Agents,
                      NEW i \in DOMAIN handled[a], NEW j \in DOMAIN handled[b],
                      handled[a][i] = handled[b][j]
               PROVE  a = b /\ i = j
    BY DEF HandledOnce
  <2>1. handled[a][i] \in HandledBy(a) /\ handled[b][j] \in HandledBy(b)
    BY DEF HandledBy
  <2>2. a = b
    BY <2>1 DEF Custody, CustodyOfAgents
  <2> QED
    BY <2>2 DEF Custody, CustodyOfAgents
<1>2. DeletedNeverDelivered /\ HolderOwnsCommand
  BY DEF DeletedNeverDelivered, HolderOwnsCommand, Custody, CustodyOfPolls,
         CustodyOfAgents, Taken
<1>3. AckedWasHandled /\ EventsInOrder
  BY DEF AckedWasHandled, EventsInOrder, Custody, CustodyOfEvents, Taken
<1> QED
  BY <1>1, <1>2, <1>3

\* No command is handled twice, whatever polls overlap, replies are lost or
\* agents restart.
THEOREM HandledOnceCorrect == Spec => []HandledOnce
  BY TypeCorrect, CustodyCorrect, CustodyImplies, PTL

\* A command the operator deleted is never delivered.
THEOREM DeletedNeverDeliveredCorrect == Spec => []DeletedNeverDelivered
  BY TypeCorrect, CustodyCorrect, CustodyImplies, PTL

\* Every holder of a command owns its row, so its ack is not refused for that.
THEOREM HolderOwnsCommandCorrect == Spec => []HolderOwnsCommand
  BY TypeCorrect, CustodyCorrect, CustodyImplies, PTL

\* Only a command its owner handled is ever acked.
THEOREM AckedWasHandledCorrect == Spec => []AckedWasHandled
  BY TypeCorrect, CustodyCorrect, CustodyImplies, PTL

\* The log shows a delivery before its ack, and none of a deleted command.
THEOREM EventsInOrderCorrect == Spec => []EventsInOrder
  BY TypeCorrect, CustodyCorrect, CustodyImplies, PTL

-----------------------------------------------------------------------------
(* The order of the commands.                                               *)

\* What an agent has, is waiting for or will never get: its list, and what its
\* polls claimed, also those it gave up.
Got(a)  == UNION {poll[p].got : p \in {q \in Polls : poll[q].agent = a}}
Held(a) == todo[a] \cup Got(a)

\* S may come before T: nothing in T is older than something in S.
Before(S, T) == \A c \in S, d \in T : ~Older(d, c)

\* The rows inserted before a row are there, or were.
Inserted == \A c \in Commands : \A d \in before[c] : d \in Commands /\ status[d] # "new"

\* What was ever handed to an agent may come before what is left for it; what it
\* handled may come before its list and before what a poll it waits on has for
\* it, and while it waits its list is empty.
OrderOf(a) ==
  /\ Before(HandledBy(a) \cup Held(a), Eligible(a))
  /\ Before(HandledBy(a), todo[a])
  /\ live[a] # NoPoll => todo[a] = {} /\ Before(HandledBy(a), poll[live[a]].got)

Order == Inserted /\ HandledInOrder /\ \A a \in Agents : OrderOf(a)

LEMMA OrderInit == Init => Order
<1> SUFFICES ASSUME Init PROVE Order
  OBVIOUS
<1>1. Inserted /\ HandledInOrder
  BY DEF Init, Inserted, HandledInOrder, Older
<1>2. ASSUME NEW a \in Agents PROVE OrderOf(a)
  <2>1. Eligible(a) = {} /\ HandledBy(a) = {} /\ todo[a] = {} /\ live[a] = NoPoll
    BY DEF Init, Eligible, HandledBy
  <2> QED
    BY <2>1 DEF OrderOf, Before, Older
<1> QED
  BY <1>1, <1>2 DEF Order

\* What an agent handled or holds is taken.
LEMMA HeldTaken ==
  ASSUME TypeOK, Custody, NEW a \in Agents
  PROVE  /\ \A c \in HandledBy(a) \cup Held(a) : c \in Commands /\ Taken(c)
         /\ Eligible(a) \subseteq Commands
         /\ \A p \in Polls : \A c \in poll[p].got : c \in Commands /\ Taken(c)
<1>1. \A p \in Polls : \A c \in poll[p].got : c \in Commands /\ Taken(c)
  BY PollFields DEF TypeOK, Custody, CustodyOfPolls
<1>2. \A c \in HandledBy(a) \cup todo[a] : c \in Commands /\ Taken(c)
  <2>1. HandledBy(a) \subseteq Commands /\ todo[a] \subseteq Commands
    BY DEF TypeOK, HandledBy
  <2>2. \A c \in todo[a] \cup HandledBy(a) : Taken(c)
    BY DEF Custody, CustodyOfAgents
  <2> QED
    BY <2>1, <2>2
<1> QED
  BY <1>1, <1>2 DEF Got, Held, Eligible

LEMMA InsertedKeeps ==
  ASSUME Order, UNCHANGED before,
         \A c \in Commands : status'[c] = "new" <=> status[c] = "new"
  PROVE  Inserted'
  BY DEF Order, Inserted

\* Most steps hand out nothing: they leave the rows that are queued, the lists
\* and the polls as they are, or less of them.
Shrinks ==
  /\ UNCHANGED <<created, before, handled>>
  /\ \A c \in Commands : status'[c] = "new" <=> status[c] = "new"
  /\ \A a \in Agents : /\ Eligible(a)' \subseteq Eligible(a)
                       /\ todo'[a] \subseteq todo[a]
                       /\ live'[a] = live[a] \/ live'[a] = NoPoll
  /\ \A p \in Polls : /\ poll'[p].got \subseteq poll[p].got
                      /\ poll'[p].agent = poll[p].agent \/ poll'[p].got = {}

LEMMA OrderShrinks == ASSUME TypeOK, Order, Shrinks PROVE Order'
<1>1. Inserted'
  BY InsertedKeeps DEF Shrinks
<1>2. HandledInOrder'
  BY DEF Order, Shrinks, HandledInOrder, Older
<1>3. ASSUME NEW a \in Agents PROVE OrderOf(a)'
  <2>0. /\ created' = created /\ before' = before /\ HandledBy(a)' = HandledBy(a)
        /\ Eligible(a)' \subseteq Eligible(a) /\ todo'[a] \subseteq todo[a]
        /\ live'[a] = live[a] \/ live'[a] = NoPoll
        /\ OrderOf(a)
    BY DEF Shrinks, HandledBy, Order
  <2>1. Got(a)' \subseteq Got(a)
    BY DEF Shrinks, Got
  <2>2. Before(HandledBy(a) \cup Held(a), Eligible(a))'
    BY <2>0, <2>1 DEF OrderOf, Before, Older, Held
  <2>3. Before(HandledBy(a), todo[a])'
    BY <2>0 DEF OrderOf, Before, Older
  <2>4. ASSUME live'[a] # NoPoll
        PROVE  todo'[a] = {} /\ Before(HandledBy(a), poll[live[a]].got)'
    <3>1. live'[a] = live[a] /\ live[a] \in Polls
      BY <2>0, <2>4 DEF TypeOK
    <3>2. poll'[live'[a]].got \subseteq poll[live[a]].got
      BY <3>1 DEF Shrinks
    <3>3. todo[a] = {} /\ Before(HandledBy(a), poll[live[a]].got)
      BY <2>0, <2>4, <3>1 DEF OrderOf
    <3> QED
      BY <2>0, <3>2, <3>3 DEF Before, Older
  <2> QED
    BY <2>2, <2>3, <2>4 DEF OrderOf
<1> QED
  BY <1>1, <1>2, <1>3 DEF Order

\* A new row was inserted last, whatever its time: it is older than no other.
LEMMA OrderCreate ==
  ASSUME TypeOK, Custody, Order, NEW c \in Commands, NEW o \in Agents \cup {NoAgent},
         NEW t \in Times, CreateCommand(c, o, t)
  PROVE  Order'
<1>0. /\ status[c] = "new" /\ status' = [status EXCEPT ![c] = "queued"]
      /\ created' = [created EXCEPT ![c] = t]
      /\ before' = [before EXCEPT ![c] = {d \in Commands : status[d] # "new"}]
      /\ owner' = [owner EXCEPT ![c] = o]
      /\ UNCHANGED <<poll, live, todo, handled>>
  BY DEF CreateCommand, clients
<1>1. /\ status'[c] = "queued" /\ before'[c] = {d \in Commands : status[d] # "new"}
      /\ \A d \in Commands \ {c} : /\ created'[d] = created[d] /\ status'[d] = status[d]
                                   /\ owner'[d] = owner[d] /\ before'[d] = before[d]
  BY <1>0 DEF TypeOK
<1>2. \A d \in Commands \ {c} : c \notin before[d]
  BY <1>0 DEF Order, Inserted
<1>o. \A x, y \in Commands \ {c} : ~Older(y, x) => ~Older(y, x)'
  BY <1>1 DEF Older
<1>n. \A x \in Commands \ {c} : ~Older(c, x)'
  BY <1>1, <1>2 DEF Older
<1>3. Inserted'
  BY <1>0, <1>1 DEF Order, Inserted
<1>4. ASSUME NEW a \in Agents
      PROVE  /\ \A d \in HandledBy(a) \cup Held(a) : d \in Commands \ {c}
             /\ HandledBy(a)' = HandledBy(a) /\ Held(a)' = Held(a)
             /\ Eligible(a)' \subseteq Eligible(a) \cup {c}
  <2>1. \A d \in HandledBy(a) \cup Held(a) : d \in Commands \ {c}
    BY <1>0, HeldTaken DEF Taken
  <2>2. Eligible(a)' \subseteq Eligible(a) \cup {c}
    BY <1>1 DEF Eligible
  <2> QED
    BY <1>0, <2>1, <2>2 DEF HandledBy, Held, Got
<1>5. HandledInOrder'
  <2>1. ASSUME NEW a \in Agents, NEW i \in DOMAIN handled[a]
        PROVE  handled[a][i] \in Commands \ {c}
    BY <1>4 DEF HandledBy
  <2>2. ASSUME NEW a \in Agents, NEW i \in DOMAIN handled[a], NEW j \in DOMAIN handled[a], i < j
        PROVE  ~Older(handled[a][j], handled[a][i])'
    <3>1. ~Older(handled[a][j], handled[a][i])
      BY <2>2 DEF Order, HandledInOrder, Older
    <3>2. PICK x \in Commands \ {c}, y \in Commands \ {c} : x = handled[a][i] /\ y = handled[a][j]
      BY <2>1
    <3>3. ~Older(y, x)'
      BY <1>o, <3>1, <3>2
    <3>4. handled'[a][i] = x /\ handled'[a][j] = y
      BY <1>0, <3>2
    <3> QED
      BY <3>3, <3>4 DEF Older
  <2> QED
    BY <1>0, <2>2 DEF HandledInOrder, Older
<1>6. ASSUME NEW a \in Agents PROVE OrderOf(a)'
  <2>1. Before(HandledBy(a) \cup Held(a), Eligible(a))'
    <3>1. ASSUME NEW x \in HandledBy(a) \cup Held(a), NEW y \in Eligible(a)'
          PROVE  ~Older(y, x)'
      <4>1. x \in Commands \ {c}
        BY <1>4
      <4>2. CASE y = c
        BY <1>n, <4>1, <4>2 DEF Older
      <4>3. CASE y # c
        <5>1. y \in Eligible(a) /\ y \in Commands
          BY <1>4, <4>3 DEF Eligible
        <5>2. ~Older(y, x)
          BY <5>1 DEF Order, OrderOf, Before, Older
        <5>3. PICK z \in Commands \ {c} : z = y
          BY <4>3, <5>1
        <5>4. PICK v \in Commands \ {c} : v = x
          BY <4>1
        <5>5. ~Older(z, v)'
          BY <1>o, <5>2, <5>3, <5>4
        <5> QED
          BY <5>3, <5>4, <5>5 DEF Older
      <4> QED
        BY <4>2, <4>3
    <3> QED
      BY <1>4, <3>1 DEF Before, Older
  <2>2. Before(HandledBy(a), todo[a])'
    <3>1. todo[a] \subseteq Held(a)
      BY DEF Held
    <3> QED
      BY <1>0, <1>1, <1>4, <3>1 DEF Order, OrderOf, Before, Older
  <2>3. ASSUME live'[a] # NoPoll
        PROVE  todo'[a] = {} /\ Before(HandledBy(a), poll[live[a]].got)'
    <3>1. live[a] \in Polls /\ live[a] # NoPoll
      BY <1>0, <2>3 DEF TypeOK
    <3>2. \A d \in poll[live[a]].got : d \in Commands \ {c}
      BY <1>0, <3>1, HeldTaken DEF Taken
    <3> QED
      BY <1>0, <1>1, <1>4, <3>1, <3>2 DEF Order, OrderOf, Before, Older
  <2> QED
    BY <2>1, <2>2, <2>3 DEF OrderOf
<1> QED
  BY <1>3, <1>5, <1>6 DEF Order

LEMMA CreatedNat == TypeOK => \A c \in Commands : created[c] \in Nat
<1> SUFFICES ASSUME TypeOK, NEW c \in Commands PROVE created[c] \in Nat
  OBVIOUS
<1>1. created[c] \in Times \/ created[c] = 0
  BY DEF TypeOK
<1>2. \A t \in Times : t \in Nat
  BY TimesAssumption
<1> QED
  BY <1>1, <1>2

\* A claim takes the oldest of what is left for its agent.
LEMMA OrderClaim ==
  ASSUME TypeOK, Custody, Order, NEW p \in Polls, Claim(p) PROVE Order'
<1> DEFINE a == poll[p].agent
<1>1. PICK B \in SUBSET Eligible(a) :
        /\ IsBatch(B, Eligible(a))
        /\ status' = [c \in Commands |-> IF c \in B THEN "delivered" ELSE status[c]]
        /\ owner'  = [c \in Commands |-> IF c \in B THEN ClaimedOwner(c, a) ELSE owner[c]]
        /\ poll'   = [poll EXCEPT ![p] = PollAt("claimed", a, B, {})]
  BY DEF Claim
<1>2. /\ UNCHANGED <<created, before, live, todo, handled>>
      /\ poll[p].phase = "waiting"
      /\ a \in Agents /\ poll[p].got = {}
  BY DEF Claim, clients, Custody, CustodyOfPolls
<1>3. /\ poll'[p].agent = a /\ poll'[p].got = B
      /\ \A q \in Polls \ {p} : poll'[q] = poll[q]
  BY <1>1 DEF TypeOK, PollAt
<1>4. \A c \in B : c \in Commands /\ status[c] = "queued"
  BY DEF Eligible
<1>5. Inserted' /\ HandledInOrder'
  <2>1. \A c \in Commands : status'[c] = "new" <=> status[c] = "new"
    BY <1>1, <1>4
  <2> QED
    BY <1>2, <2>1, InsertedKeeps DEF Order, HandledInOrder, Older
<1>6. ASSUME NEW b \in Agents PROVE OrderOf(b)'
  <2>1. Eligible(b)' \subseteq Eligible(b) \ B
    BY <1>1 DEF Eligible
  <2>2. HandledBy(b)' = HandledBy(b) /\ OrderOf(b)
    BY <1>2 DEF HandledBy, Order
  <2>3. Held(b)' \subseteq Held(b) \cup B /\ (b # a => Held(b)' \subseteq Held(b))
    BY <1>2, <1>3 DEF Held, Got
  <2>4. Before(HandledBy(b) \cup Held(b), Eligible(b))'
    <3>1. \A c \in HandledBy(b) \cup Held(b), d \in Eligible(b)' : ~Older(d, c)
      BY <2>1, <2>2 DEF OrderOf, Before, Older
    <3>2. ASSUME b = a, NEW c \in B, NEW d \in Eligible(b)' PROVE ~Older(d, c)
      <4>1. created[c] <= created[d]
        BY <1>1, <2>1, <3>2 DEF IsBatch
      <4>2. created[c] \in Nat /\ created[d] \in Nat
        <5>1. c \in Commands /\ d \in Commands
          BY <1>4, <2>1, <3>2 DEF Eligible
        <5> QED
          BY <5>1, CreatedNat
      <4> QED
        BY <4>1, <4>2 DEF Older
    <3> QED
      BY <1>2, <2>2, <2>3, <3>1, <3>2 DEF Before, Older
  <2>5. Before(HandledBy(b), todo[b])'
    BY <1>2, <2>2 DEF OrderOf, Before, Older
  <2>6. ASSUME live'[b] # NoPoll
        PROVE  todo'[b] = {} /\ Before(HandledBy(b), poll[live[b]].got)'
    <3>1. /\ live[b] \in Polls /\ live'[b] = live[b]
          /\ todo[b] = {} /\ Before(HandledBy(b), poll[live[b]].got)
      BY <1>2, <2>2, <2>6 DEF TypeOK, OrderOf
    <3>2. CASE live[b] = p
      <4>1. b = a
        BY <3>2 DEF Custody, CustodyOfPolls
      <4>2. Before(HandledBy(b), B)
        BY <2>2, <4>1 DEF OrderOf, Before, Older
      <4> QED
        BY <1>2, <1>3, <2>2, <3>1, <3>2, <4>2 DEF Before, Older
    <3>3. CASE live[b] # p
      BY <1>2, <1>3, <2>2, <3>1, <3>3 DEF Before, Older
    <3> QED
      BY <3>2, <3>3
  <2> QED
    BY <2>4, <2>5, <2>6 DEF OrderOf
<1> QED
  BY <1>5, <1>6 DEF Order

LEMMA OrderReply ==
  ASSUME TypeOK, Custody, Order, NEW p \in Polls, Reply(p) PROVE Order'
<1>1. /\ poll' = [poll EXCEPT ![p] = IdlePoll]
      /\ todo' = [b \in Agents |-> IF live[b] = p THEN poll[p].got ELSE todo[b]]
      /\ live' = [b \in Agents |-> IF live[b] = p THEN NoPoll ELSE live[b]]
      /\ UNCHANGED <<status, owner, created, before, handled>>
  BY DEF Reply, table
<1>2. /\ poll'[p].got = {} /\ \A q \in Polls \ {p} : poll'[q] = poll[q]
      /\ \A b \in Agents : live[b] = p => poll[p].agent = b
  BY <1>1 DEF IdlePoll, PollAt, TypeOK, Custody, CustodyOfPolls
<1>3. Inserted' /\ HandledInOrder'
  BY <1>1, InsertedKeeps DEF Order, HandledInOrder, Older
<1>4. ASSUME NEW b \in Agents PROVE OrderOf(b)'
  <2>1. /\ HandledBy(b)' = HandledBy(b) /\ Eligible(b)' = Eligible(b) /\ OrderOf(b)
    BY <1>1 DEF HandledBy, Eligible, Order
  <2>2. Got(b)' \subseteq Got(b)
    BY <1>2 DEF Got
  <2>3. CASE live[b] = p
    <3>1. todo'[b] = poll[p].got /\ poll[p].got \subseteq Got(b) /\ live'[b] = NoPoll
      BY <1>1, <1>2, <2>3 DEF Got
    <3>2. Before(HandledBy(b), poll[p].got)
      BY <2>1, <2>3, NoPollAssumption DEF OrderOf
    <3> QED
      BY <1>1, <2>1, <2>2, <3>1, <3>2 DEF OrderOf, Before, Older, Held
  <2>4. CASE live[b] # p
    <3>1. todo'[b] = todo[b] /\ live'[b] = live[b]
      BY <1>1, <2>4
    <3>2. live[b] # NoPoll => poll'[live[b]] = poll[live[b]]
      BY <1>2, <2>4 DEF TypeOK
    <3> QED
      BY <1>1, <2>1, <2>2, <3>1, <3>2 DEF OrderOf, Before, Older, Held
  <2> QED
    BY <2>3, <2>4
<1> QED
  BY <1>3, <1>4 DEF Order

LEMMA OrderOpen ==
  ASSUME TypeOK, Custody, Order, NEW a \in Agents, NEW p \in Polls, OpenPoll(a, p)
  PROVE  Order'
<1>1. /\ todo[a] = {} /\ poll[p].got = {} /\ poll[p].phase = "idle"
      /\ poll'[p].got = {} /\ \A q \in Polls \ {p} : poll'[q] = poll[q]
      /\ live'[a] = p /\ \A b \in Agents \ {a} : live'[b] = live[b]
      /\ UNCHANGED <<status, owner, created, before, handled, todo>>
  BY DEF OpenPoll, table, TypeOK, PollAt, Custody, CustodyOfPolls
<1>2. Inserted' /\ HandledInOrder'
  BY <1>1, InsertedKeeps DEF Order, HandledInOrder, Older
<1>3. ASSUME NEW b \in Agents PROVE OrderOf(b)'
  <2>1. /\ HandledBy(b)' = HandledBy(b) /\ Eligible(b)' = Eligible(b) /\ OrderOf(b)
    BY <1>1 DEF HandledBy, Eligible, Order
  <2>2. Got(b)' \subseteq Got(b)
    BY <1>1 DEF Got
  <2>3. live'[b] # NoPoll =>
          todo'[b] = {} /\ \A c \in HandledBy(b), d \in poll'[live'[b]].got : ~Older(d, c)
    <3>1. CASE b = a
      BY <1>1, <3>1
    <3>2. CASE b # a
      <4>1. live[b] # p
        BY <1>1 DEF Custody, CustodyOfPolls
      <4>2. live'[b] = live[b] /\ (live[b] # NoPoll => live[b] \in Polls)
        BY <1>1, <3>2 DEF TypeOK
      <4> QED
        BY <1>1, <2>1, <4>1, <4>2 DEF OrderOf, Before, Older
    <3> QED
      BY <3>1, <3>2
  <2> QED
    BY <1>1, <2>1, <2>2, <2>3 DEF OrderOf, Before, Older, Held
<1> QED
  BY <1>2, <1>3 DEF Order

\* An agent handles the oldest of its list.
LEMMA OldestBefore ==
  ASSUME TypeOK, Custody, Order, NEW a \in Agents, NEW c, IsOldest(c, todo[a])
  PROVE  /\ c \in Commands /\ Before(HandledBy(a), {c}) /\ Before({c}, todo[a] \ {c})
         /\ live[a] = NoPoll
<1>1. c \in todo[a] /\ c \in Commands /\ \A d \in todo[a] : created[c] <= created[d]
  BY DEF IsOldest, TypeOK
<1>2. \A d \in todo[a] : created[d] \in Nat
  BY CreatedNat DEF TypeOK
<1>3. \A d \in todo[a] \ {c} : ~Older(d, c)
  BY <1>1, <1>2 DEF Older
<1>4. Before(HandledBy(a), {c}) /\ live[a] = NoPoll
  BY <1>1 DEF Order, OrderOf, Before, Older
<1> QED
  BY <1>1, <1>3, <1>4 DEF Before, Older

LEMMA OrderHandle ==
  ASSUME TypeOK, Custody, Order, NEW a \in Agents, NEW c \in Commands, Handle(a, c)
  PROVE  Order'
<1>1. /\ UNCHANGED <<status, owner, created, before, poll, live>>
      /\ IsOldest(c, todo[a]) /\ c \in todo[a] /\ todo'[a] = todo[a] \ {c}
      /\ \A b \in Agents \ {a} : todo'[b] = todo[b] /\ handled'[b] = handled[b]
      /\ handled'[a] = Append(handled[a], c) /\ handled[a] \in Seq(Commands)
  BY DEF Handle, IsOldest, TypeOK, table
<1>2. /\ HandledBy(a)' = HandledBy(a) \cup {c}
      /\ \A b \in Agents \ {a} : HandledBy(b)' = HandledBy(b)
  BY HandledByAppend
<1>3. /\ Before(HandledBy(a), {c}) /\ Before({c}, todo[a] \ {c}) /\ live[a] = NoPoll
  BY <1>1, OldestBefore
<1>4. Inserted'
  BY <1>1, InsertedKeeps
<1>5. HandledInOrder'
  <2>1. ASSUME NEW i \in DOMAIN handled'[a], NEW j \in DOMAIN handled'[a], i < j
        PROVE  ~Older(handled'[a][j], handled'[a][i])
    <3>1. /\ i \in 1..Len(handled[a]) /\ handled'[a][i] = handled[a][i]
          /\ j \in 1..(Len(handled[a]) + 1)
      BY <1>1, <2>1
    <3>2. CASE j \in 1..Len(handled[a])
      <4>1. handled'[a][j] = handled[a][j]
        BY <1>1, <3>2
      <4>2. i \in DOMAIN handled[a] /\ j \in DOMAIN handled[a]
        BY <1>1, <3>1, <3>2
      <4> QED
        BY <2>1, <3>1, <4>1, <4>2 DEF Order, HandledInOrder, Older
    <3>3. CASE j = Len(handled[a]) + 1
      <4>1. handled'[a][j] = c
        BY <1>1, <3>3
      <4>2. handled[a][i] \in HandledBy(a)
        BY <1>1, <3>1 DEF HandledBy
      <4> QED
        BY <1>3, <3>1, <4>1, <4>2 DEF Before, Older
    <3> QED
      BY <3>1, <3>2, <3>3
  <2>2. ASSUME NEW b \in Agents \ {a}, NEW i \in DOMAIN handled'[b], NEW j \in DOMAIN handled'[b],
               i < j
        PROVE  ~Older(handled'[b][j], handled'[b][i])
    BY <1>1, <2>2 DEF Order, HandledInOrder, Older
  <2> QED
    BY <1>1, <2>1, <2>2 DEF HandledInOrder, Older
<1>6. ASSUME NEW b \in Agents PROVE OrderOf(b)'
  <2>1. Got(b)' = Got(b) /\ Eligible(b)' = Eligible(b) /\ OrderOf(b)
    BY <1>1 DEF Got, Eligible, Order
  <2>2. CASE b = a
    <3>1. (HandledBy(a) \cup Held(a))' = HandledBy(a) \cup Held(a)
      BY <1>1, <1>2, <2>1, <2>2 DEF Held
    <3>2. Before(HandledBy(a), todo[a])'
      BY <1>1, <1>2, <1>3, <2>1, <2>2 DEF OrderOf, Before, Older
    <3> QED
      BY <1>1, <1>3, <2>1, <2>2, <3>1, <3>2 DEF OrderOf, Before, Older
  <2>3. CASE b # a
    <3>1. HandledBy(b)' = HandledBy(b) /\ Held(b)' = Held(b) /\ todo'[b] = todo[b]
      BY <1>1, <1>2, <2>1, <2>3 DEF Held
    <3>2. /\ Before(HandledBy(b) \cup Held(b), Eligible(b))'
          /\ Before(HandledBy(b), todo[b])'
      BY <1>1, <2>1, <3>1 DEF OrderOf, Before, Older
    <3>3. live'[b] = live[b] /\ poll' = poll /\ created' = created /\ before' = before
      BY <1>1
    <3>4. live'[b] # NoPoll => todo'[b] = {} /\ Before(HandledBy(b), poll[live[b]].got)'
      BY <2>1, <3>1, <3>3 DEF OrderOf, Before, Older
    <3> QED
      BY <3>2, <3>4 DEF OrderOf
  <2> QED
    BY <2>2, <2>3
<1> QED
  BY <1>4, <1>5, <1>6 DEF Order

LEMMA OrderNext == TypeOK /\ Custody /\ Order /\ [Next]_vars => Order'
<1> SUFFICES ASSUME TypeOK, Custody, Order, [Next]_vars PROVE Order'
  OBVIOUS
\* Steps that leave the lists, the polls and the waiting agents alone.
<1>0. ASSUME UNCHANGED <<created, before, poll, clients>>,
             \A c \in Commands : /\ status'[c] = "new" <=> status[c] = "new"
                                 /\ status'[c] = "queued" => status[c] = "queued",
             owner' = owner
      PROVE  Order'
  <2>1. \A a \in Agents : Eligible(a)' \subseteq Eligible(a)
    BY <1>0 DEF Eligible
  <2>2. Shrinks
    BY <1>0, <2>1 DEF Shrinks, clients
  <2> QED
    BY <2>2, OrderShrinks
\* Steps that leave the rows alone and take from the lists, the polls and the
\* waiting agents.
<1>s. ASSUME UNCHANGED <<table, handled>>,
             \A a \in Agents : todo'[a] \subseteq todo[a] /\ live'[a] \in {live[a], NoPoll},
             \A p \in Polls : poll'[p].got \subseteq poll[p].got
                                /\ (poll'[p].agent = poll[p].agent \/ poll'[p].got = {})
      PROVE  Order'
  <2>1. \A a \in Agents : Eligible(a)' = Eligible(a)
    BY <1>s DEF Eligible, table
  <2>2. Shrinks
    BY <1>s, <2>1 DEF Shrinks, table
  <2> QED
    BY <2>2, OrderShrinks
<1>e. ASSUME NEW p \in Polls, poll' = [poll EXCEPT ![p] = IdlePoll],
             \A a \in Agents : todo'[a] \subseteq todo[a] /\ live'[a] \in {live[a], NoPoll},
             UNCHANGED <<table, handled>>
      PROVE  Order'
  <2>1. poll'[p].got = {} /\ \A q \in Polls \ {p} : poll'[q] = poll[q]
    BY <1>e DEF TypeOK, IdlePoll, PollAt
  <2> QED
    BY <1>e, <1>s, <2>1
\* Agents end.
<1>d. ASSUME NEW E, Ends(E)
      PROVE  \A a \in Agents : todo'[a] \subseteq todo[a] /\ live'[a] \in {live[a], NoPoll}
  BY <1>d DEF Ends
<1>1. CASE UNCHANGED vars
  BY <1>0, <1>1 DEF vars, table
<1>2. CASE Operator
  <2>1. ASSUME NEW c \in Commands, DeleteWrite(c) PROVE Order'
    <3>1. \A d \in Commands : /\ status'[d] = "new" <=> status[d] = "new"
                              /\ status'[d] = "queued" => status[d] = "queued"
      BY <2>1 DEF DeleteWrite, DeleteGuard, TypeOK
    <3> QED
      BY <1>0, <2>1, <3>1 DEF DeleteWrite
  <2>2. ASSUME NEW a \in Agents, PurgeAgent(a) PROVE Order'
    <3>1. \A d \in Commands : /\ status'[d] = "new" <=> status[d] = "new"
                              /\ status'[d] = "queued" => status[d] = "queued"
      BY <2>2 DEF PurgeAgent, Rows
    <3> QED
      BY <1>0, <2>2, <3>1 DEF PurgeAgent
  <2>4. ASSUME NEW c \in Commands, DeleteCheck(c) PROVE Order'
    BY <1>0, <2>4 DEF DeleteCheck, table
  <2>5. ASSUME NEW a \in Agents, HideAgent(a) \/ UnhideAgent(a) PROVE Order'
    BY <1>0, <2>5 DEF HideAgent, UnhideAgent, table
  <2>6. ASSUME NEW a \in Agents, Start(a) PROVE Order'
    BY <1>s, <2>6 DEF Start
  <2> QED
    BY <1>2, <2>1, <2>2, <2>4, <2>5, <2>6, OrderCreate DEF Operator
<1>3. ASSUME NEW p \in Polls, PollHandler(p) PROVE Order'
  <2>1. CASE ClaimNothing(p)
    BY <1>0, <2>1 DEF ClaimNothing, table
  <2>2. CASE TimeOut(p)
    BY <1>e, <2>2 DEF TimeOut
  <2>3. CASE Reread(p)
    <3>1. \A q \in Polls : poll'[q].got = poll[q].got /\ poll'[q].agent = poll[q].agent
      BY <2>3 DEF Reread, TypeOK, PollAt
    <3> QED
      BY <1>s, <2>3, <3>1 DEF Reread, clients
  <2>4. ASSUME NEW c \in Commands, LogDelivered(p, c) PROVE Order'
    BY <1>0, <2>4 DEF LogDelivered, table
  <2>5. ASSUME NEW c \in Commands, ReplyError(p, c) PROVE Order'
    BY <1>d, <1>e, <2>5 DEF ReplyError, Ends
  <2> QED
    BY <1>3, <2>1, <2>2, <2>3, <2>4, <2>5, OrderClaim, OrderReply DEF PollHandler
<1>4. ASSUME NEW a \in Agents, Agent(a) PROVE Order'
  BY <1>4, OrderOpen, OrderHandle DEF Agent
<1>5. ASSUME NEW a \in Agents, NEW c \in Commands, AckHandler(a, c) PROVE Order'
  <2>1. CASE AckCheck(a, c)
    BY <1>0, <2>1 DEF AckCheck, table
  <2>2. CASE AckRefused(a, c)
    BY <1>d, <1>s, <2>2 DEF AckRefused, Ends
  <2>3. CASE AckWrite(a, c)
    <3>1. \A d \in Commands : /\ status'[d] = "new" <=> status[d] = "new"
                              /\ status'[d] = "queued" => status[d] = "queued"
      BY <2>3 DEF AckWrite, AckGuard, TypeOK
    <3> QED
      BY <1>0, <2>3, <3>1 DEF AckWrite
  <2> QED
    BY <1>5, <2>1, <2>2, <2>3 DEF AckHandler
<1>6. ASSUME NEW kind \in {"queued", "deleted", "acked"}, NEW c \in Commands,
             LogOwed(kind, c) \/ RowGone(kind, c)
      PROVE  Order'
  <2>1. CASE LogOwed(kind, c)
    BY <1>s, <2>1 DEF LogOwed
  <2>2. CASE RowGone(kind, c)
    BY <1>d, <1>s, <2>2 DEF RowGone, NotAppended, Ends
  <2> QED
    BY <1>6, <2>1, <2>2
<1>7. CASE Failure
  <2>1. ASSUME NEW p \in Polls, LosePoll(p) PROVE Order'
    BY <1>d, <1>e, <2>1 DEF LosePoll, Ends
  <2>2. ASSUME NEW c \in Commands, LoseDelete(c) PROVE Order'
    BY <1>0, <2>2 DEF LoseDelete, table
  <2>3. ASSUME NEW a \in Agents, NEW c \in Commands, LoseAck(a, c) PROVE Order'
    BY <1>d, <1>s, <2>3 DEF LoseAck, Ends
  <2>4. ASSUME NEW kind \in {"queued", "deleted", "acked"}, NEW c \in Commands,
               LoseEvent(kind, c)
        PROVE  Order'
    BY <1>d, <1>s, <2>4 DEF LoseEvent, NotAppended, Ends
  <2>5. ASSUME NEW a \in Agents, StopAgent(a) PROVE Order'
    BY <1>d, <1>s, <2>5 DEF StopAgent, Ends
  <2> QED
    BY <1>7, <2>1, <2>2, <2>3, <2>4, <2>5 DEF Failure
<1> QED
  BY <1>1, <1>2, <1>3, <1>4, <1>5, <1>6, <1>7 DEF Next, AppendOwed

\* Whatever times the rows are stamped with, nothing that an agent was handed
\* comes after an older command still queued for it, and nothing it handled after
\* an older one of its list, or of the poll it waits on.
THEOREM OrderCorrect == Spec => []Order
  BY OrderInit, OrderNext, TypeCorrect, CustodyCorrect, PTL DEF Spec

\* An agent never handles a command before an older one of its own, whatever polls
\* overlap or are given up, and however often it ends and is started again.
THEOREM HandledInOrderCorrect == Spec => []HandledInOrder
<1>1. Order => HandledInOrder
  BY DEF Order
<1> QED
  BY <1>1, OrderCorrect, PTL
=============================================================================
