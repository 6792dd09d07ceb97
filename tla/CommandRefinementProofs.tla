---------------------- MODULE CommandRefinementProofs ----------------------
(* CommandQueue implements CommandDelivery, for every value of the           *)
(* constants: each step of the handlers, agents and failures is a step of    *)
(* the promise, or none.                                                     *)
EXTENDS MCCommandQueue, CommandQueueProofs

-----------------------------------------------------------------------------
(* The refinement mapping.                                                  *)

LEMMA InHandIsHeld ==
  InHand = [a \in Agents |-> Held(a)] /\ InHand' = [a \in Agents |-> Held(a)']
  BY DEF InHand, Held, Got

LEMMA SameOlder == UNCHANGED <<created, before>> => OlderThan' = OlderThan
  BY DEF OlderThan, Older

LEMMA SameKnown ==
  ASSUME \A c \in Commands : status'[c] = "new" <=> status[c] = "new"
  PROVE  Known' = Known
  BY DEF Known

\* What a step that writes no new row leaves.
LEMMA SameRows ==
  ASSUME UNCHANGED table
  PROVE  UNCHANGED <<created, before, owner>> /\ Known' = Known /\ Pending' = Pending
  BY DEF table, Known, Pending

\* A step that changes neither rows nor hands is one of nobody's.
LEMMA Stays ==
  ASSUME UNCHANGED <<created, before, owner, handled>>, Known' = Known,
         Pending' = Pending, \A a \in Agents : Held(a)' = Held(a)
  PROVE  UNCHANGED Promise!vars
<1>1. InHand' = InHand
  BY InHandIsHeld
<1> QED
  BY <1>1, SameOlder DEF Promise!vars

LEMMA SamePending ==
  ASSUME \A c \in Commands : status'[c] = "queued" <=> status[c] = "queued"
  PROVE  Pending' = Pending
  BY DEF Pending

\* What the polls of an agent have does not depend on those that have nothing.
LEMMA SameHeld ==
  ASSUME todo' = todo,
         \A p \in Polls : /\ poll'[p].got = poll[p].got
                          /\ poll'[p].agent = poll[p].agent \/ poll[p].got = {},
         NEW a \in Agents
  PROVE  Held(a)' = Held(a)
  BY DEF Held, Got

LEMMA RefinesInit == Init => Promise!Init
<1> SUFFICES ASSUME Init PROVE Promise!Init
  OBVIOUS
<1>1. Pending = {}
  BY DEF Init, Pending
<1>2. \A p \in Polls : poll[p].got = {}
  BY DEF Init, IdlePoll, PollAt
<1>3. \A a \in Agents : Held(a) = {}
  BY <1>2 DEF Init, Held, Got
<1>4. InHand = [a \in Agents |-> {}]
  BY <1>3, InHandIsHeld
<1>5. Known = {} /\ OlderThan = [c \in Commands |-> {}]
  BY DEF Init, Known, OlderThan, Older
<1> QED
  BY <1>1, <1>4, <1>5 DEF Init, Promise!Init

-----------------------------------------------------------------------------
(* The operator.                                                            *)

LEMMA CreateSubmits ==
  ASSUME TypeOK, Custody, Order, NEW c \in Commands, NEW o \in Agents \cup {NoAgent},
         NEW t \in Times, CreateCommand(c, o, t)
  PROVE  Promise!Submit(c, o)
<1>0. /\ status[c] = "new" /\ status' = [status EXCEPT ![c] = "queued"]
      /\ created' = [created EXCEPT ![c] = t]
      /\ before' = [before EXCEPT ![c] = {d \in Commands : status[d] # "new"}]
      /\ owner' = [owner EXCEPT ![c] = o]
      /\ UNCHANGED <<poll, todo, handled>>
  BY DEF CreateCommand, clients
<1>1. c \notin Known /\ Known' = Known \cup {c}
  BY <1>0 DEF Known, TypeOK
<1>2. PICK S \in SUBSET Known : S = {d \in Known : created'[d] < created'[c]}
  OBVIOUS
<1>3. \A x, y \in Commands : Older(y, x)' <=> IF x = c THEN y \in S ELSE Older(y, x)
  <2>1. ASSUME NEW y \in Commands PROVE Older(y, c)' <=> y \in S
    <3>1. before'[c] = Known
      BY <1>0 DEF TypeOK, Known
    <3> QED
      BY <1>2, <3>1 DEF Older
  <2>2. ASSUME NEW x \in Commands \ {c}, NEW y \in Commands PROVE Older(y, x)' <=> Older(y, x)
    <3>1. before'[x] = before[x] /\ created'[x] = created[x] /\ c \notin before[x]
      BY <1>0 DEF TypeOK, Order, Inserted
    <3>2. y \in before[x] => created'[y] = created[y]
      BY <1>0, <3>1 DEF TypeOK
    <3> QED
      BY <3>1, <3>2 DEF Older
  <2> QED
    BY <2>1, <2>2
<1>4. OlderThan' = [OlderThan EXCEPT ![c] = S]
  <2>1. S \subseteq Commands
    BY <1>2 DEF Known
  <2>2. \A x \in Commands : {y \in Commands : Older(y, x)'}
                             = IF x = c THEN S ELSE {y \in Commands : Older(y, x)}
    BY <1>3, <2>1
  <2> QED
    BY <2>2 DEF OlderThan
<1>5. Pending' = Pending \cup {c}
  BY <1>0 DEF Pending, TypeOK
<1>6. InHand' = InHand
  BY <1>0, InHandIsHeld DEF Held, Got
<1> QED
  BY <1>0, <1>1, <1>2, <1>4, <1>5, <1>6 DEF Promise!Submit

\* Rows that are no longer queued, with nobody having taken them.
LEMMA Withdrawn ==
  ASSUME UNCHANGED <<owner, created, before, poll, todo, handled>>,
         \A c \in Commands : /\ status'[c] = "queued" => status[c] = "queued"
                             /\ status'[c] = "new" <=> status[c] = "new"
  PROVE  Promise!Withdraw(Pending \ Pending') /\ Pending \ Pending' \in SUBSET Pending
<1>1. Pending' = Pending \ (Pending \ Pending')
  BY DEF Pending
<1>2. InHand' = InHand
  BY InHandIsHeld DEF Held, Got
<1> QED
  BY <1>1, <1>2, SameOlder, SameKnown DEF Promise!Withdraw

LEMMA OperatorRefines ==
  ASSUME TypeOK, Custody, Order, Operator PROVE [Promise!Next]_(Promise!vars)
<1>1. ASSUME NEW c \in Commands, NEW o \in Agents \cup {NoAgent}, NEW t \in Times,
             CreateCommand(c, o, t)
      PROVE  Promise!Next
  BY <1>1, CreateSubmits DEF Promise!Next
<1>2. ASSUME NEW c \in Commands, DeleteWrite(c) PROVE Promise!Next
  <2>1. \A d \in Commands : /\ status'[d] = "queued" => status[d] = "queued"
                            /\ status'[d] = "new" <=> status[d] = "new"
    BY <1>2 DEF DeleteWrite, DeleteGuard, TypeOK
  <2>2. Promise!Withdraw(Pending \ Pending') /\ Pending \ Pending' \in SUBSET Pending
    BY <1>2, <2>1, Withdrawn DEF DeleteWrite, clients
  <2> QED
    BY <2>2 DEF Promise!Next
<1>3. ASSUME NEW a \in Agents, PurgeAgent(a) PROVE Promise!Next
  <2>1. \A d \in Commands : /\ status'[d] = "queued" => status[d] = "queued"
                            /\ status'[d] = "new" <=> status[d] = "new"
    BY <1>3 DEF PurgeAgent, Rows
  <2>2. Promise!Withdraw(Pending \ Pending') /\ Pending \ Pending' \in SUBSET Pending
    BY <1>3, <2>1, Withdrawn DEF PurgeAgent, clients
  <2> QED
    BY <2>2 DEF Promise!Next
<1>4. ASSUME UNCHANGED <<table, poll, clients>> PROVE UNCHANGED Promise!vars
  <2>1. \A a \in Agents : Held(a)' = Held(a)
    BY <1>4 DEF Held, Got, clients
  <2> QED
    BY <1>4, <2>1, SameRows, Stays DEF clients
<1>5. ASSUME NEW c \in Commands, DeleteCheck(c) PROVE UNCHANGED Promise!vars
  BY <1>4, <1>5 DEF DeleteCheck
<1>6. ASSUME NEW a \in Agents, HideAgent(a) \/ UnhideAgent(a) PROVE UNCHANGED Promise!vars
  BY <1>4, <1>6 DEF HideAgent, UnhideAgent
<1>7. ASSUME NEW a \in Agents, Start(a) PROVE UNCHANGED Promise!vars
  <2>1. UNCHANGED <<table, poll, todo, handled>>
    BY <1>7 DEF Start
  <2>2. \A b \in Agents : Held(b)' = Held(b)
    BY <2>1 DEF Held, Got
  <2> QED
    BY <2>1, <2>2, SameRows, Stays
<1> QED
  BY <1>1, <1>2, <1>3, <1>5, <1>6, <1>7 DEF Operator

-----------------------------------------------------------------------------
(* The polls and the agents.                                                *)

\* A poll that ends without its list reaching the agent loses it.
LEMMA PollLoses ==
  ASSUME TypeOK, Custody, NEW p \in Polls, poll[p].phase # "idle",
         poll' = [poll EXCEPT ![p] = IdlePoll], UNCHANGED <<table, todo, handled>>
  PROVE  Promise!Next
<1>0. PICK a \in Agents : a = poll[p].agent
  BY DEF Custody, CustodyOfPolls
<1> DEFINE B == poll[p].got
<1>1. B \subseteq Got(a) /\ B \subseteq Held(a)
  BY <1>0 DEF Got, Held
<1>2. poll'[p].got = {} /\ \A q \in Polls \ {p} : poll'[q] = poll[q]
  BY DEF IdlePoll, PollAt, TypeOK
<1>3. ASSUME NEW b \in Agents \ {a} PROVE Held(b)' = Held(b)
  BY <1>0, <1>2 DEF Held, Got
<1>4. Held(a)' = Held(a) \ B
  <2>1. \A q \in Polls \ {p} : poll[q].got \cap B = {}
    BY DEF Custody, CustodyOfPolls
  <2>2. todo[a] \cap B = {}
    BY DEF Custody, CustodyOfPolls
  <2>3. Got(a)' = UNION {poll[q].got : q \in {x \in Polls \ {p} : poll[x].agent = a}}
    BY <1>2 DEF Got
  <2>4. Got(a) = Got(a)' \cup B
    BY <1>0, <2>3 DEF Got
  <2>5. Got(a)' \cap B = {}
    BY <2>1, <2>3
  <2> HIDE DEF B
  <2> QED
    BY <2>2, <2>4, <2>5 DEF Held
<1> HIDE DEF B
<1>5. InHand' = [InHand EXCEPT ![a] = @ \ B] /\ B \in SUBSET InHand[a]
  BY <1>1, <1>3, <1>4, InHandIsHeld
<1>6. UNCHANGED <<Known, OlderThan, owner, handled>> /\ Pending' = Pending
  BY SameRows, SameOlder
<1>7. Promise!Lose(a, B)
  BY <1>5, <1>6 DEF Promise!Lose
<1> QED
  BY <1>5, <1>7 DEF Promise!Next

LEMMA ClaimTakes ==
  ASSUME TypeOK, Custody, NEW p \in Polls, Claim(p) PROVE Promise!Next
<1> DEFINE a == poll[p].agent
<1>1. PICK B \in SUBSET Eligible(a) :
        /\ IsBatch(B, Eligible(a))
        /\ status' = [c \in Commands |-> IF c \in B THEN "delivered" ELSE status[c]]
        /\ owner'  = [c \in Commands |-> IF c \in B THEN ClaimedOwner(c, a) ELSE owner[c]]
        /\ poll'   = [poll EXCEPT ![p] = PollAt("claimed", a, B, {})]
  BY DEF Claim
<1>2. /\ UNCHANGED <<created, before, todo, handled>>
      /\ a \in Agents /\ poll[p].got = {}
  BY DEF Claim, clients, Custody, CustodyOfPolls
<1>3. /\ poll'[p].agent = a /\ poll'[p].got = B
      /\ \A q \in Polls \ {p} : poll'[q] = poll[q]
  BY <1>1 DEF TypeOK, PollAt
<1>4. Eligible(a) = {c \in Pending : owner[c] \in {NoAgent, a}}
  BY DEF Eligible, Pending
<1>5. Pending' = Pending \ B /\ B \in SUBSET Pending
  BY <1>1, <1>4 DEF Pending
<1>6. owner' = [c \in Commands |-> IF c \in B THEN a ELSE owner[c]]
  <2>1. \A c \in B : ClaimedOwner(c, a) = a
    BY <1>1 DEF ClaimedOwner, Eligible
  <2> QED
    BY <1>1, <2>1
<1>7. \A b \in Agents : Held(b)' = IF b = a THEN Held(b) \cup B ELSE Held(b)
  BY <1>2, <1>3 DEF Held, Got
<1>8. InHand' = [InHand EXCEPT ![a] = @ \cup B]
  <2> HIDE DEF a
  <2> QED
    BY <1>2, <1>7, InHandIsHeld
<1>9. OlderThan' = OlderThan /\ Known' = Known
  <2>1. \A c \in Commands : status'[c] = "new" <=> status[c] = "new"
    BY <1>1, <1>5 DEF Pending
  <2> QED
    BY <1>2, <2>1, SameOlder, SameKnown
<1>10. \A c \in B, d \in Eligible(a) \ B : d \notin OlderThan[c]
  <2> SUFFICES ASSUME NEW c \in B, NEW d \in Eligible(a) \ B PROVE ~Older(d, c)
    BY <1>4, <1>5 DEF OlderThan, Pending
  <2>1. created[c] <= created[d]
    BY <1>1 DEF IsBatch
  <2>2. c \in Commands /\ d \in Commands
    BY <1>1 DEF Eligible
  <2> QED
    BY <2>1, <2>2, CreatedNat DEF Older
<1>11. Promise!Take(a, B)
  <2> HIDE DEF a
  <2> QED
    BY <1>1, <1>2, <1>4, <1>5, <1>6, <1>8, <1>9, <1>10 DEF Promise!Take
<1> QED
  BY <1>2, <1>5, <1>11 DEF Promise!Next

\* A reply that reaches its agent moves a list from the poll to the agent, whose
\* own was empty: nothing gets lost and nothing is taken twice.
LEMMA ReplyRefines ==
  ASSUME TypeOK, Custody, Order, NEW p \in Polls, Reply(p)
  PROVE  [Promise!Next]_(Promise!vars)
<1>1. /\ poll[p].phase # "idle"
      /\ poll' = [poll EXCEPT ![p] = IdlePoll]
      /\ todo' = [b \in Agents |-> IF live[b] = p THEN poll[p].got ELSE todo[b]]
      /\ UNCHANGED <<table, handled>>
  BY DEF Reply, ReadyToReply
<1>2. /\ poll'[p].got = {} /\ \A q \in Polls \ {p} : poll'[q] = poll[q]
      /\ \A b \in Agents : live[b] = p => poll[p].agent = b
  BY <1>1 DEF IdlePoll, PollAt, TypeOK, Custody, CustodyOfPolls
<1>3. ASSUME NEW a \in Agents, live[a] = p PROVE UNCHANGED Promise!vars
  <2>1. todo[a] = {} /\ poll[p].agent = a
    BY <1>2, <1>3, NoPollAssumption DEF Order, OrderOf
  <2>2. ASSUME NEW b \in Agents PROVE Held(b)' = Held(b)
    <3>1. CASE b = a
      BY <1>1, <1>2, <1>3, <2>1, <3>1 DEF Held, Got
    <3>2. CASE b # a
      <4>1. todo'[b] = todo[b] /\ Got(b)' = Got(b)
        BY <1>1, <1>2, <2>1, <3>2 DEF Got
      <4> QED
        BY <4>1 DEF Held
    <3> QED
      BY <3>1, <3>2
  <2> QED
    BY <1>1, <2>2, SameRows, Stays
<1>4. CASE \A a \in Agents : live[a] # p
  <2>1. todo' = todo
    BY <1>1, <1>4 DEF TypeOK
  <2> QED
    BY <1>1, <2>1, PollLoses
<1> QED
  BY <1>3, <1>4

\* The other steps of a poll move nothing.
LEMMA PollStays ==
  ASSUME TypeOK, Custody, UNCHANGED <<table, todo, handled>>,
         \A p \in Polls : /\ poll'[p].got = poll[p].got
                          /\ poll'[p].agent = poll[p].agent \/ poll[p].got = {}
  PROVE  UNCHANGED Promise!vars
<1>1. \A a \in Agents : Held(a)' = Held(a)
  BY SameHeld
<1> QED
  BY <1>1, SameRows, Stays

\* An agent that waits for a reply has nothing in its list.
LEMMA WaitersHold ==
  ASSUME TypeOK, Order, NEW p \in Polls, Ends(WaitingOn(p))
  PROVE  UNCHANGED <<todo, handled>>
<1>1. \A a \in WaitingOn(p) : todo[a] = {}
  BY NoPollAssumption DEF WaitingOn, Order, OrderOf
<1> QED
  BY <1>1 DEF Ends, TypeOK

LEMMA PollRefines ==
  ASSUME TypeOK, Custody, Order, NEW p \in Polls, PollHandler(p)
  PROVE  [Promise!Next]_(Promise!vars)
<1>1. CASE ClaimNothing(p)
  BY <1>1, PollStays DEF ClaimNothing, clients
<1>2. CASE TimeOut(p)
  <2>1. poll[p].got = {} /\ poll'[p].got = {} /\ \A q \in Polls \ {p} : poll'[q] = poll[q]
    BY <1>2 DEF TimeOut, TypeOK, IdlePoll, PollAt, Custody, CustodyOfPolls
  <2> QED
    BY <1>2, <2>1, PollStays DEF TimeOut
<1>3. CASE Reread(p)
  <2>1. \A q \in Polls : poll'[q].got = poll[q].got /\ poll'[q].agent = poll[q].agent
    BY <1>3 DEF Reread, TypeOK, PollAt
  <2> QED
    BY <1>3, <2>1, PollStays DEF Reread, clients
<1>4. ASSUME NEW c \in Commands, LogDelivered(p, c) PROVE UNCHANGED Promise!vars
  BY <1>4, PollStays DEF LogDelivered, clients
<1>5. ASSUME NEW c \in Commands, ReplyError(p, c) PROVE Promise!Next
  <2>1. UNCHANGED <<todo, handled>>
    BY <1>5, WaitersHold DEF ReplyError
  <2> QED
    BY <1>5, <2>1, PollLoses DEF ReplyError
<1> QED
  BY <1>1, <1>2, <1>3, <1>4, <1>5, ClaimTakes, ReplyRefines DEF PollHandler

LEMMA HandleDoes ==
  ASSUME TypeOK, Custody, Order, NEW a \in Agents, NEW c \in Commands, Handle(a, c)
  PROVE  Promise!Next
<1>1. /\ UNCHANGED <<table, poll>> /\ IsOldest(c, todo[a]) /\ c \in todo[a]
      /\ todo' = [todo EXCEPT ![a] = @ \ {c}]
      /\ handled' = [handled EXCEPT ![a] = Append(@, c)]
  BY DEF Handle, IsOldest
<1>2. Before(HandledBy(a), {c})
  BY <1>1, OldestBefore
<1>3. \A i \in DOMAIN handled[a] : c \notin OlderThan[handled[a][i]]
  <2>1. \A d \in HandledBy(a) : d \in Commands /\ ~Older(c, d)
    BY <1>2, HeldTaken DEF Before
  <2> QED
    BY <2>1 DEF HandledBy, OlderThan
<1>4. c \notin Got(a)
  BY <1>1 DEF Got, Custody, CustodyOfPolls
<1>5. ASSUME NEW b \in Agents PROVE Held(b)' = IF b = a THEN Held(b) \ {c} ELSE Held(b)
  <2>1. Got(b)' = Got(b)
    BY <1>1 DEF Got
  <2>2. todo'[b] = IF b = a THEN todo[b] \ {c} ELSE todo[b]
    BY <1>1 DEF TypeOK
  <2> QED
    BY <1>4, <2>1, <2>2 DEF Held
<1>6. InHand' = [InHand EXCEPT ![a] = @ \ {c}] /\ c \in InHand[a]
  BY <1>1, <1>5, InHandIsHeld DEF Held
<1>7. UNCHANGED <<Known, OlderThan, owner>> /\ Pending' = Pending
  BY <1>1, SameRows, SameOlder
<1>8. Promise!Do(a, c)
  BY <1>1, <1>3, <1>6, <1>7 DEF Promise!Do
<1> QED
  BY <1>8 DEF Promise!Next

\* An agent that ends loses what it received and did not handle.
LEMMA EndLoses ==
  ASSUME TypeOK, Custody, NEW E \in SUBSET Agents, \A b, d \in E : b = d, Ends(E),
         UNCHANGED <<table, poll>>
  PROVE  [Promise!Next]_(Promise!vars)
<1>0. todo' = [b \in Agents |-> IF b \in E THEN {} ELSE todo[b]] /\ UNCHANGED handled
  BY DEF Ends
<1>1. CASE E = {}
  <2>1. todo' = todo
    BY <1>0, <1>1 DEF TypeOK
  <2> QED
    BY <1>0, <2>1, PollStays
<1>2. ASSUME NEW a \in E PROVE Promise!Next
  <2>1. todo[a] \cap Got(a) = {}
    BY DEF Got, Custody, CustodyOfPolls
  <2>2. ASSUME NEW b \in Agents PROVE Held(b)' = IF b = a THEN Held(b) \ todo[a] ELSE Held(b)
    <3>1. Got(b)' = Got(b) /\ todo'[b] = IF b = a THEN {} ELSE todo[b]
      BY <1>0 DEF Got
    <3> QED
      BY <2>1, <3>1 DEF Held
  <2>3. InHand' = [InHand EXCEPT ![a] = @ \ todo[a]] /\ todo[a] \in SUBSET InHand[a]
    BY <2>2, InHandIsHeld DEF Held
  <2>4. UNCHANGED <<Known, OlderThan, owner, handled>> /\ Pending' = Pending
    BY <1>0, SameRows, SameOlder
  <2>5. Promise!Lose(a, todo[a])
    BY <2>3, <2>4 DEF Promise!Lose
  <2> QED
    BY <2>3, <2>5 DEF Promise!Next
<1> QED
  BY <1>1, <1>2

LEMMA AgentRefines ==
  ASSUME TypeOK, Custody, Order, NEW a \in Agents,
         Agent(a) \/ \E c \in Commands : AckHandler(a, c)
  PROVE  [Promise!Next]_(Promise!vars)
<1>1. ASSUME NEW p \in Polls, OpenPoll(a, p) PROVE UNCHANGED Promise!vars
  <2>1. /\ poll[p].got = {} /\ poll'[p].got = {}
        /\ \A q \in Polls \ {p} : poll'[q] = poll[q]
    BY <1>1 DEF OpenPoll, TypeOK, PollAt, Custody, CustodyOfPolls
  <2> QED
    BY <1>1, <2>1, PollStays DEF OpenPoll
<1>2. ASSUME NEW c \in Commands, AckCheck(a, c) PROVE UNCHANGED Promise!vars
  BY <1>2, PollStays DEF AckCheck, clients
<1>4. ASSUME NEW c \in Commands, AckRefused(a, c) PROVE [Promise!Next]_(Promise!vars)
  BY <1>4, EndLoses DEF AckRefused
<1>3. ASSUME NEW c \in Commands, AckWrite(a, c) PROVE UNCHANGED Promise!vars
  <2>1. \A d \in Commands : /\ status'[d] = "queued" <=> status[d] = "queued"
                            /\ status'[d] = "new" <=> status[d] = "new"
    BY <1>3 DEF AckWrite, AckGuard, TypeOK
  <2>2. UNCHANGED <<owner, created, before, poll, todo, handled>>
    BY <1>3 DEF AckWrite, clients
  <2>3. \A b \in Agents : Held(b)' = Held(b)
    BY <2>2, SameHeld
  <2> QED
    BY <2>1, <2>2, <2>3, SamePending, SameKnown, Stays
<1> QED
  BY <1>1, <1>2, <1>3, <1>4, HandleDoes DEF Agent, AckHandler

\* The event of a handler is not appended: at most one agent ends with it.
LEMMA AppendRefines ==
  ASSUME TypeOK, Custody, NEW kind, NEW c \in Commands, NotAppended(kind, c)
  PROVE  [Promise!Next]_(Promise!vars)
<1>1. PICK E \in SUBSET Agents :
        E = {a \in Agents : kind = "acked" /\ owner[c] = a /\ doing[a] = c}
  OBVIOUS
<1>2. Ends(E) /\ \A b, d \in E : b = d
  BY <1>1 DEF NotAppended
<1> QED
  BY <1>2, EndLoses DEF NotAppended

LEMMA FailureRefines ==
  ASSUME TypeOK, Custody, Order, Failure PROVE [Promise!Next]_(Promise!vars)
<1>1. ASSUME NEW p \in Polls, LosePoll(p) PROVE Promise!Next
  <2>1. UNCHANGED <<todo, handled>>
    BY <1>1, WaitersHold DEF LosePoll
  <2> QED
    BY <1>1, <2>1, PollLoses DEF LosePoll
<1>2. ASSUME NEW c \in Commands, LoseDelete(c) PROVE UNCHANGED Promise!vars
  BY <1>2, PollStays DEF LoseDelete, clients
<1>3. ASSUME NEW a \in Agents, NEW c \in Commands, LoseAck(a, c)
      PROVE  [Promise!Next]_(Promise!vars)
  <2>1. PICK E \in SUBSET Agents : E = IF doing[a] = c THEN {a} ELSE {}
    OBVIOUS
  <2>2. Ends(E) /\ \A b, d \in E : b = d
    BY <1>3, <2>1 DEF LoseAck
  <2> QED
    BY <1>3, <2>2, EndLoses DEF LoseAck
<1>4. ASSUME NEW kind, NEW c \in Commands, LoseEvent(kind, c)
      PROVE  [Promise!Next]_(Promise!vars)
  BY <1>4, AppendRefines DEF LoseEvent
<1>5. ASSUME NEW a \in Agents, StopAgent(a) PROVE [Promise!Next]_(Promise!vars)
  BY <1>5, EndLoses DEF StopAgent
<1> QED
  BY <1>1, <1>2, <1>3, <1>4, <1>5 DEF Failure

-----------------------------------------------------------------------------
(* The refinement.                                                          *)

LEMMA RefinesNext ==
  TypeOK /\ Custody /\ Order /\ [Next]_vars => [Promise!Next]_(Promise!vars)
<1> SUFFICES ASSUME TypeOK, Custody, Order, [Next]_vars
             PROVE  [Promise!Next]_(Promise!vars)
  OBVIOUS
<1>1. CASE UNCHANGED vars
  BY <1>1, PollStays DEF vars, clients
<1>2. ASSUME NEW kind, NEW c \in Commands, LogOwed(kind, c) PROVE UNCHANGED Promise!vars
  BY <1>2, PollStays DEF LogOwed
<1>3. ASSUME NEW kind, NEW c \in Commands, RowGone(kind, c)
      PROVE  [Promise!Next]_(Promise!vars)
  BY <1>3, AppendRefines DEF RowGone
<1>4. CASE AppendOwed
  BY <1>2, <1>3, <1>4 DEF AppendOwed
<1> QED
  BY <1>1, <1>4, OperatorRefines, PollRefines, AgentRefines, FailureRefines DEF Next

\* The tables, handlers and agent loops deliver each command at most once, to
\* its addressee, and never before one that was created and stamped earlier,
\* whatever handlers die, replies are lost or agents end and start again.
THEOREM Refinement == Spec => ImplementsDelivery
<1>1. Spec => Promise!Spec
  BY RefinesInit, RefinesNext, TypeCorrect, CustodyCorrect, OrderCorrect, PTL
     DEF Spec, Promise!Spec
<1> QED
  BY <1>1 DEF ImplementsDelivery

-----------------------------------------------------------------------------
(* What the promise itself amounts to, and so what the queue gives.         *)

LEMMA KeptInit == Promise!Init => Promise!Kept
<1> SUFFICES ASSUME Promise!Init PROVE Promise!Kept
  OBVIOUS
<1>1. \A a \in Agents : Promise!Did(a) = {} /\ InHand[a] = {} /\ DOMAIN handled[a] = {}
  BY DEF Promise!Init, Promise!Did
<1> QED
  BY <1>1 DEF Promise!Init, Promise!Kept, Promise!TypeOK, Promise!Apart,
              Promise!Addressed, Promise!Once, Promise!InOrder

LEMMA SubmitKeeps ==
  ASSUME Promise!Kept, NEW c \in Commands, NEW o \in Agents \cup {NoAgent},
         Promise!Submit(c, o)
  PROVE  Promise!Kept'
<1>1. \A a \in Agents : Promise!Did(a)' = Promise!Did(a) /\ Promise!Did(a) \subseteq Commands
  BY DEF Promise!Submit, Promise!Did, Promise!Kept, Promise!TypeOK
<1>2. PICK S \in SUBSET Known : OlderThan' = [OlderThan EXCEPT ![c] = S]
  BY DEF Promise!Submit
<1>3. /\ c \notin Known /\ Known' = Known \cup {c}
      /\ owner' = [owner EXCEPT ![c] = o] /\ Pending' = Pending \cup {c}
      /\ UNCHANGED <<InHand, handled>>
  BY DEF Promise!Submit
<1>4. \A a \in Agents : InHand[a] \subseteq Commands /\ c \notin InHand[a] \cup Promise!Did(a)
  BY <1>3 DEF Promise!Kept, Promise!TypeOK, Promise!Apart
<1>5. Promise!TypeOK'
  BY <1>2, <1>3 DEF Promise!Kept, Promise!TypeOK
<1>6. Promise!Apart'
  BY <1>1, <1>3, <1>4 DEF Promise!Kept, Promise!TypeOK, Promise!Apart
<1>7. Promise!Addressed'
  BY <1>1, <1>3, <1>4 DEF Promise!Kept, Promise!TypeOK, Promise!Addressed
<1>8. Promise!InOrder'
  <2> SUFFICES ASSUME NEW a \in Agents, NEW i \in DOMAIN handled[a], NEW j \in DOMAIN handled[a],
                      i < j
               PROVE  handled[a][j] \notin OlderThan'[handled[a][i]]
    BY <1>3 DEF Promise!InOrder
  <2>1. handled[a][i] \in Commands \ {c}
    BY <1>1, <1>4 DEF Promise!Did
  <2>2. OlderThan'[handled[a][i]] = OlderThan[handled[a][i]]
    BY <1>2, <2>1 DEF Promise!Kept, Promise!TypeOK
  <2> QED
    BY <2>2 DEF Promise!Kept, Promise!InOrder
<1>9. Promise!Once'
  BY <1>1, <1>3 DEF Promise!Kept, Promise!Once
<1> QED
  BY <1>5, <1>6, <1>7, <1>8, <1>9 DEF Promise!Kept

\* Commands that are withdrawn or lost are only missing.
LEMMA FewerKeeps ==
  ASSUME Promise!Kept, UNCHANGED <<Known, OlderThan, owner, handled>>,
         Pending' \subseteq Pending, InHand' \in [Agents -> SUBSET Commands],
         \A a \in Agents : InHand'[a] \subseteq InHand[a]
  PROVE  Promise!Kept'
<1>1. \A a \in Agents : Promise!Did(a)' = Promise!Did(a)
  BY DEF Promise!Did
<1>2. Promise!TypeOK' /\ Promise!Apart' /\ Promise!Addressed'
  BY <1>1 DEF Promise!Kept, Promise!TypeOK, Promise!Apart, Promise!Addressed
<1>3. Promise!Once' /\ Promise!InOrder'
  BY <1>1 DEF Promise!Kept, Promise!Once, Promise!InOrder
<1> QED
  BY <1>2, <1>3 DEF Promise!Kept

LEMMA TakeKeeps ==
  ASSUME Promise!Kept, NEW a \in Agents, NEW B \in SUBSET Pending, Promise!Take(a, B)
  PROVE  Promise!Kept'
<1>1. \A b \in Agents : Promise!Did(b)' = Promise!Did(b) /\ Promise!Did(b) \subseteq Commands
  BY DEF Promise!Take, Promise!Did, Promise!Kept, Promise!TypeOK
<1>2. /\ Pending' = Pending \ B /\ B \subseteq Commands
      /\ InHand' = [InHand EXCEPT ![a] = InHand[a] \cup B]
      /\ owner' = [c \in Commands |-> IF c \in B THEN a ELSE owner[c]]
      /\ UNCHANGED <<Known, OlderThan, handled>>
  BY DEF Promise!Take, Promise!Kept, Promise!TypeOK
<1>3. \A b \in Agents : /\ InHand[b] \subseteq Commands
                        /\ (InHand[b] \cup Promise!Did(b)) \cap B = {}
  BY <1>2 DEF Promise!Kept, Promise!TypeOK, Promise!Apart
<1>4. Promise!TypeOK'
  BY <1>2 DEF Promise!Kept, Promise!TypeOK
<1>5. Promise!Apart'
  BY <1>1, <1>2, <1>3 DEF Promise!Kept, Promise!TypeOK, Promise!Apart
<1>6. Promise!Addressed'
  BY <1>1, <1>2, <1>3 DEF Promise!Kept, Promise!TypeOK, Promise!Addressed
<1>7. Promise!Once' /\ Promise!InOrder'
  <2>1. \A b \in Agents : InHand'[b] \cap Promise!Did(b) = {}
    BY <1>2, <1>3 DEF Promise!Kept, Promise!TypeOK, Promise!Once
  <2> QED
    BY <1>1, <1>2, <2>1 DEF Promise!Kept, Promise!Once, Promise!InOrder
<1> QED
  BY <1>4, <1>5, <1>6, <1>7 DEF Promise!Kept

LEMMA DoKeeps ==
  ASSUME Promise!Kept, NEW a \in Agents, NEW c \in Commands, Promise!Do(a, c)
  PROVE  Promise!Kept'
<1>1. /\ c \in InHand[a] /\ \A i \in DOMAIN handled[a] : c \notin OlderThan[handled[a][i]]
      /\ InHand' = [InHand EXCEPT ![a] = InHand[a] \ {c}]
      /\ handled' = [handled EXCEPT ![a] = Append(handled[a], c)]
      /\ UNCHANGED <<Known, OlderThan, owner, Pending>>
  BY DEF Promise!Do
<1>2. PICK n \in Nat : n = Len(handled[a])
  BY DEF Promise!Kept, Promise!TypeOK
<1>3. /\ handled'[a] \in Seq(Commands) /\ DOMAIN handled'[a] = 1..n + 1
      /\ handled'[a][n + 1] = c /\ DOMAIN handled[a] = 1..n
      /\ \A i \in 1..n : handled'[a][i] = handled[a][i]
  BY <1>1, <1>2 DEF Promise!Kept, Promise!TypeOK
<1>4. \A b \in Agents : b # a => handled'[b] = handled[b] /\ InHand'[b] = InHand[b]
  BY <1>1 DEF Promise!Kept, Promise!TypeOK
<1>5. Promise!Did(a)' \subseteq Promise!Did(a) \cup {c}
  BY <1>2, <1>3 DEF Promise!Did
<1>6. \A b \in Agents : b # a => Promise!Did(b)' = Promise!Did(b)
  BY <1>4 DEF Promise!Did
<1>7. \A b \in Agents : InHand'[b] \cup Promise!Did(b)' \subseteq InHand[b] \cup Promise!Did(b)
  BY <1>1, <1>5, <1>6 DEF Promise!Kept, Promise!TypeOK
<1>8. Promise!TypeOK'
  BY <1>1, <1>3, <1>4 DEF Promise!Kept, Promise!TypeOK
<1>9. Promise!Apart' /\ Promise!Addressed'
  BY <1>1, <1>7 DEF Promise!Kept, Promise!Apart, Promise!Addressed
<1>10. Promise!InOrder'
  <2> SUFFICES ASSUME NEW b \in Agents, NEW i \in DOMAIN handled'[b],
                      NEW j \in DOMAIN handled'[b], i < j
               PROVE  handled'[b][j] \notin OlderThan[handled'[b][i]]
    BY <1>1 DEF Promise!InOrder
  <2>1. CASE b # a
    BY <1>4, <2>1 DEF Promise!Kept, Promise!InOrder
  <2>2. CASE b = a /\ j = n + 1
    <3>1. i \in 1..n
      BY <1>2, <1>3, <2>2
    <3> QED
      BY <1>1, <1>3, <2>2, <3>1
  <2>3. CASE b = a /\ j # n + 1
    <3>1. i \in 1..n /\ j \in 1..n
      BY <1>2, <1>3, <2>3
    <3> QED
      BY <1>3, <2>3, <3>1 DEF Promise!Kept, Promise!InOrder
  <2> QED
    BY <2>1, <2>2, <2>3
<1>11. Promise!Once'
  <2>1. c \notin Promise!Did(a)
    BY <1>1 DEF Promise!Kept, Promise!Once
  <2>2. \A i \in 1..n : handled[a][i] # c
    BY <1>3, <2>1 DEF Promise!Did
  <2>3. \A i, j \in 1..n + 1 : handled'[a][i] = handled'[a][j] => i = j
    <3> SUFFICES ASSUME NEW i \in 1..n + 1, NEW j \in 1..n + 1,
                        handled'[a][i] = handled'[a][j]
                 PROVE  i = j
      OBVIOUS
    <3>1. \A k \in 1..n + 1 : k = n + 1 \/ k \in 1..n
      BY <1>2
    <3>2. \A k, l \in 1..n : handled[a][k] = handled[a][l] => k = l
      BY <1>3 DEF Promise!Kept, Promise!Once
    <3> QED
      BY <1>3, <2>2, <3>1, <3>2
  <2>4. InHand'[a] \cap Promise!Did(a)' = {}
    BY <1>1, <1>5 DEF Promise!Kept, Promise!TypeOK, Promise!Once
  <2>5. ASSUME NEW b \in Agents, b # a
        PROVE  /\ InHand'[b] \cap Promise!Did(b)' = {}
               /\ \A i, j \in DOMAIN handled'[b] : handled'[b][i] = handled'[b][j] => i = j
    BY <1>4, <1>6, <2>5 DEF Promise!Kept, Promise!Once
  <2> QED
    BY <1>3, <2>3, <2>4, <2>5 DEF Promise!Once
<1> QED
  BY <1>8, <1>9, <1>10, <1>11 DEF Promise!Kept

LEMMA KeptStep == Promise!Kept /\ [Promise!Next]_(Promise!vars) => Promise!Kept'
<1> SUFFICES ASSUME Promise!Kept, [Promise!Next]_(Promise!vars) PROVE Promise!Kept'
  OBVIOUS
<1>0. InHand \in [Agents -> SUBSET Commands]
  BY DEF Promise!Kept, Promise!TypeOK
<1>1. CASE UNCHANGED Promise!vars
  BY <1>0, <1>1, FewerKeeps DEF Promise!vars
<1>2. ASSUME NEW B \in SUBSET Pending, Promise!Withdraw(B) PROVE Promise!Kept'
  BY <1>0, <1>2, FewerKeeps DEF Promise!Withdraw
<1>3. ASSUME NEW a \in Agents, NEW B \in SUBSET InHand[a], Promise!Lose(a, B)
      PROVE  Promise!Kept'
  <2>1. InHand' = [InHand EXCEPT ![a] = InHand[a] \ B]
    BY <1>3 DEF Promise!Lose
  <2>2. /\ InHand' \in [Agents -> SUBSET Commands]
        /\ \A b \in Agents : InHand'[b] \subseteq InHand[b]
    BY <1>0, <2>1
  <2> QED
    BY <1>3, <2>2, FewerKeeps DEF Promise!Lose
<1> QED
  BY <1>1, <1>2, <1>3, SubmitKeeps, TakeKeeps, DoKeeps DEF Promise!Next

\* The promise is worth something: whatever keeps it never hands out what it
\* still keeps, gives a command to its addressee alone, has no agent do a command
\* twice, and none after one that it is older than.
THEOREM PromiseKept == Promise!Spec => []Promise!Kept
<1> QED
  BY KeptInit, KeptStep, PTL DEF Promise!Spec

\* So does the queue: an agent has in hand, or did, only commands whose row
\* names it.
THEOREM AddressedCorrect == Spec => []Promise!Addressed
<1>1. Promise!Kept => Promise!Addressed
  BY DEF Promise!Kept
<1> QED
  BY <1>1, PromiseKept, Refinement, PTL DEF ImplementsDelivery
=============================================================================
