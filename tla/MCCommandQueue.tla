--------------------------- MODULE MCCommandQueue ---------------------------
(* Small instances of CommandQueue for TLC.                                 *)
EXTENDS CommandQueue, TLC

\* Agents and polls are interchangeable; commands are too, as only their times and
\* the order of their creation tell them apart.
Symmetry == Permutations(Agents) \cup Permutations(Polls) \cup Permutations(Commands)

\* What the properties speak of: nothing else depends on who is hidden, nor on
\* the events that tell of a creation.
Seen == <<table, poll, deleting, acking, {e \in owed : e[1] # "queued"},
          {e \in events : e[1] # "queued"}, clients, faults>>

\* The queue as its users see it: what waits, and what an agent has in hand, with
\* the replies on their way to it.
Pending == {c \in Commands : status[c] = "queued"}
InHand  == [a \in Agents |-> todo[a] \cup
             UNION {poll[p].got : p \in {q \in Polls : poll[q].agent = a}}]

Known     == {c \in Commands : status[c] # "new"}
OlderThan == [c \in Commands |-> {d \in Commands : Older(d, c)}]

Promise == INSTANCE CommandDelivery WITH
  Anyone    <- NoAgent,
  known     <- Known,
  older     <- OlderThan,
  addressee <- owner,
  pending   <- Pending,
  taken     <- InHand,
  done      <- handled

\* The tables, handlers and agent loops together deliver each command at most
\* once, to its addressee, and never before an older one of the same agent.
ImplementsDelivery == Promise!Spec
=============================================================================
