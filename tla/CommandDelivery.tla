--------------------------- MODULE CommandDelivery ---------------------------
(***************************************************************************)
(* What the command queue promises: a command goes to one agent at most,   *)
(* to its addressee if it has one; an agent never takes or does a command  *)
(* while it leaves an older one waiting, and does none twice; a command    *)
(* may be withdrawn until it is taken, and one that was taken may get      *)
(* lost.  Which of the earlier commands are older is settled when a        *)
(* command is submitted.                                                   *)
(***************************************************************************)
EXTENDS Naturals, Sequences

CONSTANTS Agents, Commands, Anyone

VARIABLES known,      \* the commands that were submitted
          older,      \* the commands that are older than a command
          addressee,  \* the agent a command is for, or Anyone
          pending,    \* submitted, and neither taken nor withdrawn
          taken,      \* taken by an agent that has not done it
          done        \* what each agent did, in order

vars == <<known, older, addressee, pending, taken, done>>

Init ==
  /\ known     = {}
  /\ older     = [c \in Commands |-> {}]
  /\ addressee = [c \in Commands |-> Anyone]
  /\ pending   = {}
  /\ taken     = [a \in Agents |-> {}]
  /\ done      = [a \in Agents |-> <<>>]

Submit(c, o) ==
  /\ c \notin known /\ known' = known \cup {c}
  /\ \E S \in SUBSET known : older' = [older EXCEPT ![c] = S]
  /\ addressee' = [addressee EXCEPT ![c] = o]
  /\ pending'   = pending \cup {c}
  /\ UNCHANGED <<taken, done>>

Withdraw(B) ==
  /\ pending' = pending \ B
  /\ UNCHANGED <<known, older, addressee, taken, done>>

Take(a, B) ==
  LET mine == {c \in pending : addressee[c] \in {Anyone, a}} IN
  /\ B \subseteq mine
  /\ \A c \in B, d \in mine \ B : d \notin older[c]
  /\ pending'   = pending \ B
  /\ taken'     = [taken EXCEPT ![a] = @ \cup B]
  /\ addressee' = [c \in Commands |-> IF c \in B THEN a ELSE addressee[c]]
  /\ UNCHANGED <<known, older, done>>

Lose(a, B) ==
  /\ taken' = [taken EXCEPT ![a] = @ \ B]
  /\ UNCHANGED <<known, older, addressee, pending, done>>

Do(a, c) ==
  /\ c \in taken[a]
  /\ \A i \in DOMAIN done[a] : c \notin older[done[a][i]]
  /\ taken' = [taken EXCEPT ![a] = @ \ {c}]
  /\ done'  = [done EXCEPT ![a] = Append(@, c)]
  /\ UNCHANGED <<known, older, addressee, pending>>

Next ==
  \/ \E c \in Commands, o \in Agents \cup {Anyone} : Submit(c, o)
  \/ \E B \in SUBSET pending : Withdraw(B)
  \/ \E a \in Agents : \/ \E B \in SUBSET pending : Take(a, B)
                       \/ \E B \in SUBSET taken[a] : Lose(a, B)
                       \/ \E c \in Commands : Do(a, c)

Spec == Init /\ [][Next]_vars

-----------------------------------------------------------------------------
(* What the promise amounts to.                                             *)

\* What an agent did.
Did(a) == {done[a][i] : i \in DOMAIN done[a]}

\* Every variable keeps its type.
TypeOK ==
  /\ known \subseteq Commands /\ older \in [Commands -> SUBSET Commands]
  /\ addressee \in [Commands -> Agents \cup {Anyone}] /\ pending \subseteq Commands
  /\ taken \in [Agents -> SUBSET Commands] /\ done \in [Agents -> Seq(Commands)]

\* What waits is with nobody, and nothing moves before it was submitted.
Apart ==
  /\ pending \subseteq known
  /\ \A a \in Agents : /\ taken[a] \cup Did(a) \subseteq known
                       /\ (taken[a] \cup Did(a)) \cap pending = {}

\* What an agent has, or did, was for it; so no two agents did the same.
Addressed == \A a \in Agents : \A c \in taken[a] \cup Did(a) : addressee[c] = a

\* No agent does a command twice, nor has in hand what it did.
Once ==
  \A a \in Agents :
    /\ taken[a] \cap Did(a) = {}
    /\ \A i, j \in DOMAIN done[a] : done[a][i] = done[a][j] => i = j

\* No agent does a command after one that it is older than.
InOrder ==
  \A a \in Agents : \A i, j \in DOMAIN done[a] :
    i < j => done[a][j] \notin older[done[a][i]]

\* All of it: an inductive invariant of the promise.
Kept == TypeOK /\ Apart /\ Addressed /\ Once /\ InOrder
=============================================================================
