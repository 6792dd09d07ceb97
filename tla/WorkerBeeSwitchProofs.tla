----------------------- MODULE WorkerBeeSwitchProofs -----------------------
(* Proofs about WorkerBeeSwitch, for every value of its constants.          *)
EXTENDS WorkerBeeSwitch, TLAPS

-----------------------------------------------------------------------------
(* The types.                                                               *)

Maybe       == Backends \cup {NoBackend}
ReceiptType == [phase : Phases, target : Maybe, before : Maybe]
JobType     == [at : {"idle", "count", "run", "verify", "restore", "noop", "record"},
                tx : Txs \cup {NoTx}, seen : Maybe]
CallType(g) == [at : {"none", "accepted", "entered", "checked", "forwarded"},
                mutating : BOOLEAN, gen : 0..g, late : BOOLEAN, astray : BOOLEAN]

\* A receipt that was written names two backends; a job is for such a receipt
\* and has seen a backend, or it is no job.
Named(t) == receipts[t].phase # "none" =>
              receipts[t].target \in Backends /\ receipts[t].before \in Backends

JobNamed ==
  /\ job.at = "idle" => job = NoJob
  /\ job.at # "idle" => /\ job.tx \in Txs /\ job.seen \in Backends
                        /\ receipts[job.tx].phase # "none"

TypeInv == TypeOK /\ JobNamed /\ \A t \in Txs : Named(t)

LEMMA ReceiptFields ==
  ASSUME NEW r \in ReceiptType
  PROVE  r.phase \in Phases /\ r.target \in Maybe /\ r.before \in Maybe
  BY DEF ReceiptType

LEMMA ReceiptPhase ==
  ASSUME NEW r \in ReceiptType, NEW p \in Phases
  PROVE  LET q == [r EXCEPT !.phase = p]
         IN  /\ q \in ReceiptType /\ q.phase = p
             /\ q.target = r.target /\ q.before = r.before
  BY DEF ReceiptType

LEMMA JobFields ==
  ASSUME NEW j \in JobType
  PROVE  /\ j.at \in {"idle", "count", "run", "verify", "restore", "noop", "record"}
         /\ j.tx \in Txs \cup {NoTx} /\ j.seen \in Maybe
  BY DEF JobType

LEMMA JobAt ==
  ASSUME NEW j \in JobType, NEW s \in {"noop", "run", "verify", "restore"}
  PROVE  LET k == [j EXCEPT !.at = s]
         IN  k \in JobType /\ k.at = s /\ k.tx = j.tx /\ k.seen = j.seen
  BY DEF JobType

LEMMA JobSeen ==
  ASSUME NEW j \in JobType, NEW s \in {"record", "restore"}, NEW b \in Backends
  PROVE  LET k == [j EXCEPT !.at = s, !.seen = b]
         IN  k \in JobType /\ k.at = s /\ k.tx = j.tx /\ k.seen = b
  BY DEF JobType, Maybe

LEMMA JobNew ==
  ASSUME NEW s \in {"count", "record"}, NEW t \in Txs, NEW b \in Backends
  PROVE  LET k == [at |-> s, tx |-> t, seen |-> b]
         IN  k \in JobType /\ k.at = s /\ k.tx = t /\ k.seen = b
  BY DEF JobType, Maybe

LEMMA NoValues ==
  /\ NoJob \in JobType /\ NoJob.at = "idle"
  /\ NoReceipt \in ReceiptType /\ NoReceipt.phase = "none"
  /\ \A g \in Nat : NoCall \in CallType(g)
  /\ NoCall.at = "none"
  BY DEF NoJob, JobType, NoReceipt, ReceiptType, Phases, Maybe, NoCall, CallType

\* The steps of a call.
LEMMA CallNew ==
  ASSUME NEW g \in Nat, NEW c \in CallType(g), NEW m \in BOOLEAN, NEW n \in 0..g
  PROVE  LET d == [c EXCEPT !.at = "accepted", !.mutating = m, !.gen = n]
         IN  d \in CallType(g) /\ d.at = "accepted"
  BY DEF CallType

LEMMA CallEnters ==
  ASSUME NEW g \in Nat, NEW c \in CallType(g), NEW l \in BOOLEAN
  PROVE  LET d == [c EXCEPT !.at = "entered", !.late = l]
         IN  d \in CallType(g) /\ d.at = "entered" /\ (l => d.late)
  BY DEF CallType

LEMMA CallChecked ==
  ASSUME NEW g \in Nat, NEW c \in CallType(g)
  PROVE  LET d == [c EXCEPT !.at = "checked"]
         IN  /\ d \in CallType(g)
             /\ (c.late => d.late) /\ (d.mutating => c.mutating)
  BY DEF CallType

LEMMA CallForwarded ==
  ASSUME NEW g \in Nat, NEW c \in CallType(g), NEW a \in BOOLEAN, NEW n \in 0..g
  PROVE  LET d == [c EXCEPT !.at = "forwarded", !.gen = n, !.astray = a]
         IN  /\ d \in CallType(g)
             /\ (c.late => d.late) /\ (d.mutating => c.mutating)
  BY DEF CallType

\* A call stays one when the generation grows.
LEMMA CallGrows ==
  ASSUME NEW g \in Nat, NEW h \in Nat, g <= h, NEW c \in CallType(g)
  PROVE  c \in CallType(h)
  BY DEF CallType

LEMMA TypeParts ==
  ASSUME TypeOK
  PROVE  /\ active \in Backends /\ selected.gen \in Nat \ {0} /\ selected.backend \in Backends
         /\ selected \in [backend : Backends, gen : Nat \ {0}]
         /\ receipts \in [Txs -> ReceiptType] /\ last \in Txs \cup {NoTx}
         /\ job \in JobType /\ look \in Maybe
         /\ call \in [Sessions -> CallType(selected.gen)]
         /\ faults \in 0..MaxFaults /\ disturbed \in BOOLEAN
  BY DEF TypeOK, ReceiptType, JobType, CallType, Maybe

LEMMA TypeFromParts ==
  ASSUME active' \in Backends, selected' \in [backend : Backends, gen : Nat \ {0}],
         receipts' \in [Txs -> ReceiptType], last' \in Txs \cup {NoTx},
         job' \in JobType, look' \in Maybe,
         call' \in [Sessions -> CallType(selected'.gen)],
         faults' \in 0..MaxFaults, disturbed' \in BOOLEAN
  PROVE  TypeOK'
  BY DEF TypeOK, ReceiptType, JobType, CallType, Maybe

LEMMA TypeInit == Init => TypeInv
<1> SUFFICES ASSUME Init PROVE TypeInv
  OBVIOUS
<1>1. /\ active \in Backends /\ selected \in [backend : Backends, gen : Nat \ {0}]
      /\ selected.gen \in Nat
  BY NoBackendAssumption DEF Init
<1>2. /\ receipts \in [Txs -> ReceiptType] /\ job \in JobType
      /\ call \in [Sessions -> CallType(selected.gen)]
  BY <1>1, NoValues DEF Init
<1>3. TypeOK
  <2>1. faults \in 0..MaxFaults
    BY BoundsAssumption DEF Init
  <2>2. last \in Txs \cup {NoTx} /\ look \in Backends \cup {NoBackend} /\ disturbed \in BOOLEAN
    BY DEF Init
  <2> QED
    BY <1>1, <1>2, <2>1, <2>2 DEF TypeOK, ReceiptType, JobType, CallType, Maybe
<1> QED
  BY <1>3, NoValues DEF Init, TypeInv, JobNamed, Named

-----------------------------------------------------------------------------
(* The helpers of the actions.                                              *)

\* The registry counts on with every observation.
LEMMA ObservedGrows ==
  ASSUME TypeOK, NEW b \in Backends, NEW force \in BOOLEAN, selected' = Observed(b, force)
  PROVE  /\ selected' \in [backend : Backends, gen : Nat \ {0}]
         /\ selected.gen \in Nat /\ selected'.gen \in Nat /\ selected.gen <= selected'.gen
<1> DEFINE g == IF b # selected.backend \/ force THEN selected.gen + 1 ELSE selected.gen
<1>1. selected.gen \in Nat \ {0} /\ g \in Nat \ {0} /\ selected.gen <= g
  BY TypeParts
<1> HIDE DEF g
<1>2. selected' = [backend |-> b, gen |-> g]
  BY DEF Observed, g
<1> QED
  BY <1>1, <1>2

\* One receipt gets a phase.
LEMMA SavesReceipt ==
  ASSUME TypeInv, NEW t \in Txs, receipts[t].phase # "none",
         NEW p \in Phases \ {"none"}, Saves(t, p)
  PROVE  /\ receipts' \in [Txs -> ReceiptType] /\ last' = t
         /\ receipts'[t].phase = p
         /\ receipts'[t].target = receipts[t].target
         /\ receipts'[t].before = receipts[t].before
         /\ \A x \in Txs : Named(x)' /\ (receipts[x].phase # "none" => receipts'[x].phase # "none")
<1> DEFINE q == [receipts[t] EXCEPT !.phase = p]
<1>1. /\ receipts \in [Txs -> ReceiptType] /\ receipts[t] \in ReceiptType
  BY TypeParts DEF TypeInv
<1>2. q \in ReceiptType /\ q.phase = p /\ q.target = receipts[t].target
      /\ q.before = receipts[t].before
  BY <1>1, ReceiptPhase
<1>3. receipts' = [receipts EXCEPT ![t] = q] /\ last' = t
  BY DEF Saves
<1> HIDE DEF q
<1>4. receipts' \in [Txs -> ReceiptType] /\ receipts'[t] = q
      /\ \A x \in Txs : x # t => receipts'[x] = receipts[x]
  BY <1>1, <1>2, <1>3
<1>5. \A x \in Txs : Named(x)'
  BY <1>2, <1>4 DEF TypeInv, Named
<1> QED
  BY <1>2, <1>3, <1>4, <1>5

-----------------------------------------------------------------------------
(* The invariant.                                                           *)

\* What the phase of the last receipt says of the live backend.
Tells ==
  LET r == receipts[last] IN
  /\ r.phase \in {"previewed", "apply_failed_unchanged", "failed_rolled_back", "rolled_back"}
       => active = r.before
  /\ r.phase \in {"verified", "verified_noop"} => active = r.target

\* The last receipt is right not only at rest: also while an apply has only read
\* the backend, when what it saw is the live one, and after its outcome was
\* written.
LastTells ==
  ~disturbed =>
    /\ last # NoTx /\ job.at \in {"idle", "count", "noop", "record"} => Tells
    /\ job.at = "count" => job.seen = active

Inv == TypeInv /\ CallsBlockApply /\ LastTells

LEMMA InvInit == Init => Inv
<1> SUFFICES ASSUME Init PROVE Inv
  OBVIOUS
<1>1. job.at = "idle" /\ last = NoTx
  BY NoValues DEF Init
<1> QED
  BY <1>1, TypeInit DEF Inv, CallsBlockApply, LastTells

-----------------------------------------------------------------------------
(* Requests, calls and the surroundings: the switcher stays as it is.       *)

\* Whatever leaves the receipts and the job alone leaves them named.
LEMMA JobStays ==
  ASSUME Inv, UNCHANGED switching
  PROVE  /\ JobNamed' /\ \A t \in Txs : Named(t)'
         /\ receipts' \in [Txs -> ReceiptType] /\ last' \in Txs \cup {NoTx}
         /\ job' \in JobType /\ disturbed' \in BOOLEAN
         /\ UNCHANGED <<receipts, last, job, disturbed>>
<1>1. UNCHANGED <<receipts, last, job, disturbed>>
  BY DEF switching
<1>2. TypeOK
  BY DEF Inv, TypeInv
<1>3. /\ receipts \in [Txs -> ReceiptType] /\ last \in Txs \cup {NoTx}
      /\ job \in JobType /\ disturbed \in BOOLEAN
  BY <1>2, TypeParts
<1> QED
  BY <1>1, <1>3 DEF Inv, TypeInv, JobNamed, Named

\* Calls that are at the gateway are late already, or counted before.
LEMMA CallsKeep ==
  ASSUME Inv, UNCHANGED <<active, selected, switching, look, faults>>,
         NEW s \in Sessions, NEW c \in CallType(selected.gen), call' = [call EXCEPT ![s] = c],
         \/ c.at \in {"none", "accepted"} \/ job.at \in {"idle", "count"} \/ c.late
         \/ /\ call[s].at \in {"entered", "checked", "forwarded"} \/ ~call[s].mutating
            /\ call[s].late => c.late
            /\ c.mutating => call[s].mutating
  PROVE  Inv'
<1>0. TypeOK /\ call \in [Sessions -> CallType(selected.gen)]
  BY TypeParts DEF Inv, TypeInv
<1>1. /\ JobNamed' /\ \A t \in Txs : Named(t)'
      /\ receipts' \in [Txs -> ReceiptType] /\ last' \in Txs \cup {NoTx}
      /\ job' \in JobType /\ disturbed' \in BOOLEAN
      /\ UNCHANGED <<receipts, last, job, disturbed>>
  BY JobStays
<1>2. call' \in [Sessions -> CallType(selected'.gen)] /\ call'[s] = c
      /\ \A x \in Sessions : x # s => call'[x] = call[x]
  BY <1>0
<1>3. TypeOK'
  BY <1>0, <1>1, <1>2, TypeParts, TypeFromParts
<1>4. CallsBlockApply'
  BY <1>1, <1>2 DEF Inv, CallsBlockApply
<1>5. LastTells'
  BY <1>1 DEF Inv, LastTells, Tells
<1> QED
  BY <1>1, <1>3, <1>4, <1>5 DEF Inv, TypeInv

LEMMA CallStep == ASSUME Inv, Calls PROVE Inv'
<1>0. /\ TypeOK /\ call \in [Sessions -> CallType(selected.gen)] /\ selected.gen \in Nat
      /\ NoCall \in CallType(selected.gen) /\ NoCall.at = "none"
  BY TypeParts, NoValues DEF Inv, TypeInv
<1>1. ASSUME NEW s \in Sessions, NEW mutating \in BOOLEAN, Validate(s, mutating) PROVE Inv'
  <2> DEFINE c == [NoCall EXCEPT !.at = "accepted", !.mutating = mutating, !.gen = selected.gen]
  <2>1. c \in CallType(selected.gen) /\ c.at = "accepted"
    <3>1. selected.gen \in 0..selected.gen
      BY <1>0
    <3>2. \A n \in 0..selected.gen :
            LET d == [NoCall EXCEPT !.at = "accepted", !.mutating = mutating, !.gen = n]
            IN  d \in CallType(selected.gen) /\ d.at = "accepted"
      BY <1>0, CallNew
    <3> QED
      BY <3>1, <3>2
  <2>2. /\ call' = [call EXCEPT ![s] = c]
        /\ UNCHANGED <<active, selected, switching, look, faults>>
    BY <1>1 DEF Validate
  <2> HIDE DEF c
  <2> QED
    BY <2>1, <2>2, CallsKeep
<1>2. ASSUME NEW s \in Sessions, Enter(s) PROVE Inv'
  <2> DEFINE late == job.at \notin {"idle", "count"}
             c == [call[s] EXCEPT !.at = "entered", !.late = late]
  <2>1. c \in CallType(selected.gen) /\ (late => c.late)
    <3>1. call[s] \in CallType(selected.gen) /\ late \in BOOLEAN
      BY <1>0
    <3> HIDE DEF late
    <3> QED
      BY <1>0, <3>1, CallEnters
  <2>2. /\ call' = [call EXCEPT ![s] = c]
        /\ UNCHANGED <<active, selected, switching, look, faults>>
    BY <1>0, <1>2 DEF Enter
  <2> HIDE DEF c
  <2> QED
    BY <2>1, <2>2, CallsKeep
<1>3. ASSUME NEW s \in Sessions, Check(s) PROVE Inv'
  <2> DEFINE c == [call[s] EXCEPT !.at = "checked"]
  <2>1. /\ c \in CallType(selected.gen)
        /\ (call[s].late => c.late) /\ (c.mutating => call[s].mutating)
    BY <1>0, CallChecked
  <2>2. /\ \/ call' = [call EXCEPT ![s] = c]
           \/ call' = [call EXCEPT ![s] = NoCall]
        /\ UNCHANGED <<active, selected, switching, look, faults>>
        /\ call[s].at = "entered"
    BY <1>3 DEF Check
  <2> HIDE DEF c
  <2>3. CASE call' = [call EXCEPT ![s] = NoCall]
    BY <1>0, <2>2, <2>3, CallsKeep
  <2>4. CASE call' = [call EXCEPT ![s] = c]
    BY <2>1, <2>2, <2>4, CallsKeep
  <2> QED
    BY <2>2, <2>3, <2>4
<1>4. ASSUME NEW s \in Sessions, Forward(s) PROVE Inv'
  <2> DEFINE a == call[s].gen # selected.gen
             c == [call[s] EXCEPT !.at = "forwarded", !.gen = 0, !.astray = a]
  <2>1. /\ c \in CallType(selected.gen)
        /\ (call[s].late => c.late) /\ (c.mutating => call[s].mutating)
    <3>1. a \in BOOLEAN /\ 0 \in 0..selected.gen
      BY <1>0
    <3> HIDE DEF a
    <3> QED
      BY <1>0, <3>1, CallForwarded
  <2>2. /\ call' = [call EXCEPT ![s] = c]
        /\ UNCHANGED <<active, selected, switching, look, faults>>
        /\ call[s].at = "checked" \/ ~call[s].mutating
    BY <1>4 DEF Forward
  <2> HIDE DEF c
  <2> QED
    BY <2>1, <2>2, CallsKeep
<1>5. ASSUME NEW s \in Sessions, Return(s) PROVE Inv'
  BY <1>0, <1>5, CallsKeep DEF Return
<1> QED
  BY <1>1, <1>2, <1>3, <1>4, <1>5 DEF Calls

\* What the registry is told, by a status request or after a verified switch.
LEMMA SelectionGrows ==
  ASSUME TypeOK, selected.gen \in Nat, selected'.gen \in Nat, selected.gen <= selected'.gen,
         UNCHANGED call
  PROVE  call' \in [Sessions -> CallType(selected'.gen)]
<1>1. call \in [Sessions -> CallType(selected.gen)]
  BY TypeParts
<1>2. \A c \in CallType(selected.gen) : c \in CallType(selected'.gen)
  BY CallGrows
<1> QED
  BY <1>1, <1>2

LEMMA LookStep == ASSUME Inv, LookRead \/ LookWrite PROVE Inv'
<1>0. TypeOK /\ UNCHANGED <<active, switching, call, faults>>
  BY DEF Inv, TypeInv, LookRead, LookWrite
<1>1. /\ JobNamed' /\ \A t \in Txs : Named(t)'
      /\ receipts' \in [Txs -> ReceiptType] /\ last' \in Txs \cup {NoTx}
      /\ job' \in JobType /\ disturbed' \in BOOLEAN
      /\ UNCHANGED <<receipts, last, job, disturbed>>
  BY <1>0, JobStays
<1>2. /\ look' \in Maybe /\ selected' \in [backend : Backends, gen : Nat \ {0}]
      /\ call' \in [Sessions -> CallType(selected'.gen)]
  <2>1. CASE LookRead
    BY <1>0, <2>1, TypeParts DEF LookRead, Maybe
  <2>2. CASE LookWrite
    <3>1. look \in Backends /\ selected' = Observed(look, FALSE) /\ look' = NoBackend
      BY <1>0, <2>2, TypeParts DEF LookWrite, Notes, Maybe
    <3>2. /\ selected' \in [backend : Backends, gen : Nat \ {0}]
          /\ selected.gen \in Nat /\ selected'.gen \in Nat /\ selected.gen <= selected'.gen
      BY <1>0, <3>1, ObservedGrows
    <3> QED
      BY <1>0, <3>1, <3>2, SelectionGrows DEF Maybe
  <2> QED
    BY <2>1, <2>2
<1>3. TypeOK'
  BY <1>0, <1>1, <1>2, TypeParts, TypeFromParts
<1> QED
  BY <1>0, <1>1, <1>3 DEF Inv, TypeInv, CallsBlockApply, LastTells, Tells

-----------------------------------------------------------------------------
(* The switcher.                                                            *)

\* A step of the switcher: an apply goes to its command only when no mutating
\* call is counted.
LEMMA SwitchKeeps ==
  ASSUME Inv, UNCHANGED <<selected, look, call>>, active' \in Backends,
         receipts' \in [Txs -> ReceiptType], \A t \in Txs : Named(t)',
         last' \in Txs \cup {NoTx}, job' \in JobType, JobNamed', disturbed' \in BOOLEAN,
         faults' \in 0..MaxFaults,
         job'.at \in {"run", "verify"} => job.at \in {"run", "verify"} \/ InFlight = {},
         LastTells'
  PROVE  Inv'
<1>0. TypeOK
  BY DEF Inv, TypeInv
<1>1. TypeOK'
  BY <1>0, TypeParts, TypeFromParts
<1>2. CallsBlockApply'
  BY DEF Inv, CallsBlockApply, InFlight, Counts
<1> QED
  BY <1>1, <1>2 DEF Inv, TypeInv

LEMMA SwitchParts ==
  ASSUME Inv
  PROVE  /\ active \in Backends /\ receipts \in [Txs -> ReceiptType]
         /\ \A t \in Txs : Named(t)
         /\ last \in Txs \cup {NoTx} /\ job \in JobType /\ JobNamed /\ disturbed \in BOOLEAN
         /\ faults \in 0..MaxFaults /\ TypeOK
  BY TypeParts DEF Inv, TypeInv

LEMMA PreviewKeeps ==
  ASSUME Inv, NEW t \in Txs, NEW b \in Backends, Preview(t, b) PROVE Inv'
<1> DEFINE r == [phase |-> "previewed", target |-> b, before |-> active]
<1>0. /\ job = NoJob /\ UNCHANGED <<selected, look, call, faults, active, job>>
      /\ receipts' = [receipts EXCEPT ![t] = r] /\ last' = t /\ disturbed' = FALSE
  BY DEF Preview, Idle
<1>1. /\ r \in ReceiptType /\ r.phase = "previewed"
      /\ r.target = b /\ r.before = active
  BY SwitchParts DEF ReceiptType, Phases, Maybe
<1> HIDE DEF r
<1>2. /\ receipts' \in [Txs -> ReceiptType] /\ receipts'[t] = r
      /\ \A x \in Txs : x # t => receipts'[x] = receipts[x]
  BY <1>0, <1>1, SwitchParts
<1>3. \A x \in Txs : Named(x)'
  BY <1>1, <1>2, SwitchParts DEF Named
<1>4. JobNamed' /\ job'.at = "idle"
  BY <1>0, NoValues DEF JobNamed
<1>5. LastTells'
  BY <1>0, <1>1, <1>2, <1>4 DEF LastTells, Tells
<1> QED
  BY <1>0, <1>2, <1>3, <1>4, <1>5, SwitchParts, SwitchKeeps

LEMMA ApplyReadKeeps == ASSUME Inv, NEW t \in Txs, ApplyRead(t) PROVE Inv'
<1> DEFINE k == [at |-> "count", tx |-> t, seen |-> active]
<1>0. /\ job = NoJob /\ receipts[t].phase = "previewed" /\ job' = k
      /\ UNCHANGED <<selected, look, call, faults, active, receipts, last, disturbed>>
  BY DEF ApplyRead, Idle
<1>1. k \in JobType /\ k.at = "count" /\ k.tx = t /\ k.seen = active
  BY SwitchParts, JobNew
<1> HIDE DEF k
<1>2. \A x \in Txs : Named(x)'
  BY <1>0, SwitchParts DEF Named
<1>3. JobNamed'
  BY <1>0, <1>1, SwitchParts DEF JobNamed
<1>4. LastTells'
  BY <1>0, <1>1, NoValues DEF Inv, LastTells, Tells
<1> QED
  BY <1>0, <1>1, <1>2, <1>3, <1>4, SwitchParts, SwitchKeeps

\* A job under way: the receipt it is for was written.
LEMMA JobGoesOn ==
  ASSUME Inv, job.at # "idle"
  PROVE  /\ job.tx \in Txs /\ job.seen \in Backends
         /\ receipts[job.tx] \in ReceiptType /\ receipts[job.tx].phase # "none"
         /\ receipts[job.tx].target \in Backends /\ receipts[job.tx].before \in Backends
  BY SwitchParts DEF JobNamed, Named

\* A step of the job that writes no receipt.
LEMMA JobOn ==
  ASSUME Inv, job.at # "idle", NEW k \in JobType, job' = k,
         k = NoJob \/ (k.at # "idle" /\ k.tx = job.tx /\ k.seen \in Backends),
         UNCHANGED receipts
  PROVE  /\ JobNamed' /\ \A t \in Txs : Named(t)'
         /\ receipts' \in [Txs -> ReceiptType]
<1>1. \A x \in Txs : Named(x)'
  BY SwitchParts DEF Named
<1>2. JobNamed'
  BY JobGoesOn, NoValues DEF JobNamed
<1> QED
  BY <1>1, <1>2, SwitchParts

\* A step of the job that writes one.
LEMMA JobWrites ==
  ASSUME Inv, job.at # "idle", NEW k \in JobType, job' = k,
         k = NoJob \/ (k.at # "idle" /\ k.tx = job.tx /\ k.seen \in Backends),
         NEW p \in Phases \ {"none"}, Saves(job.tx, p)
  PROVE  /\ JobNamed' /\ \A t \in Txs : Named(t)'
         /\ receipts' \in [Txs -> ReceiptType] /\ last' \in Txs \cup {NoTx}
         /\ last' = job.tx /\ receipts'[last'].phase = p
         /\ receipts'[last'].target = receipts[job.tx].target
         /\ receipts'[last'].before = receipts[job.tx].before
<1>1. TypeInv /\ job.tx \in Txs /\ receipts[job.tx].phase # "none"
  BY JobGoesOn DEF Inv
<1>2. /\ receipts' \in [Txs -> ReceiptType] /\ last' = job.tx
      /\ receipts'[job.tx].phase = p
      /\ receipts'[job.tx].target = receipts[job.tx].target
      /\ receipts'[job.tx].before = receipts[job.tx].before
      /\ \A x \in Txs : Named(x)' /\ (receipts[x].phase # "none" => receipts'[x].phase # "none")
  BY <1>1, SavesReceipt
<1>3. JobNamed'
  BY <1>1, <1>2, NoValues DEF JobNamed
<1> QED
  BY <1>1, <1>2, <1>3

LEMMA ApplyCountKeeps == ASSUME Inv, ApplyCount PROVE Inv'
<1> DEFINE r == receipts[job.tx]
<1>0. job.at = "count" /\ UNCHANGED <<active, selected, look, call, faults>>
  BY DEF ApplyCount
<1>1. CASE job' = NoJob /\ UNCHANGED <<receipts, last, disturbed>>
  <2>1. JobNamed' /\ (\A t \in Txs : Named(t)') /\ receipts' \in [Txs -> ReceiptType]
    BY <1>0, <1>1, JobOn, NoValues
  <2>2. LastTells'
    BY <1>0, <1>1 DEF Inv, LastTells, Tells, NoJob
  <2>3. job' \in JobType /\ job'.at = "idle"
    BY <1>1, NoValues
  <2> QED
    BY <1>0, <1>1, <2>1, <2>2, <2>3, SwitchParts, SwitchKeeps
<1>2. CASE /\ InFlight = {} /\ job.seen = r.before /\ job.seen = r.target
           /\ job' = [job EXCEPT !.at = "noop"]
           /\ Saves(job.tx, "verified_noop") /\ UNCHANGED disturbed
  <2>1. job' \in JobType /\ job'.at = "noop" /\ job'.tx = job.tx /\ job'.seen = job.seen
    BY <1>2, SwitchParts, JobAt
  <2>2. /\ JobNamed' /\ (\A t \in Txs : Named(t)')
        /\ receipts' \in [Txs -> ReceiptType] /\ last' \in Txs \cup {NoTx}
        /\ last' = job.tx /\ receipts'[last'].phase = "verified_noop"
        /\ receipts'[last'].target = receipts[job.tx].target
    BY <1>0, <1>2, <2>1, JobWrites, JobGoesOn DEF Phases
  <2>3. LastTells'
    BY <1>0, <1>2, <2>1, <2>2 DEF Inv, LastTells, Tells
  <2> QED
    BY <1>0, <1>2, <2>1, <2>2, <2>3, SwitchParts, SwitchKeeps
<1>3. CASE /\ InFlight = {} /\ job' = [job EXCEPT !.at = "run"]
           /\ UNCHANGED <<receipts, last, disturbed>>
  <2>1. job' \in JobType /\ job'.at = "run" /\ job'.tx = job.tx /\ job'.seen = job.seen
    BY <1>3, SwitchParts, JobAt
  <2>2. JobNamed' /\ (\A t \in Txs : Named(t)') /\ receipts' \in [Txs -> ReceiptType]
    BY <1>0, <1>3, <2>1, JobOn, JobGoesOn
  <2>3. LastTells'
    BY <2>1 DEF LastTells
  <2> QED
    BY <1>0, <1>3, <2>1, <2>2, <2>3, SwitchParts, SwitchKeeps
<1> QED
  BY <1>1, <1>2, <1>3 DEF ApplyCount

LEMMA ApplyRunKeeps == ASSUME Inv, ApplyRun PROVE Inv'
<1> DEFINE r == receipts[job.tx]
<1>0. job.at = "run" /\ UNCHANGED <<selected, look, call, faults>>
  BY DEF ApplyRun
<1>1. active' \in Backends
  BY <1>0, SwitchParts, JobGoesOn DEF ApplyRun
<1>2. ASSUME NEW s \in {"verify", "restore"}, job' = [job EXCEPT !.at = s],
             UNCHANGED <<receipts, last, disturbed>>
      PROVE  Inv'
  <2>1. job' \in JobType /\ job'.at = s /\ job'.tx = job.tx /\ job'.seen = job.seen
    <3>1. s \in {"noop", "run", "verify", "restore"} /\ job \in JobType
      BY SwitchParts
    <3> QED
      BY <1>2, <3>1, JobAt
  <2>2. JobNamed' /\ (\A t \in Txs : Named(t)') /\ receipts' \in [Txs -> ReceiptType]
    BY <1>0, <1>2, <2>1, JobOn, JobGoesOn
  <2>3. LastTells'
    BY <2>1 DEF LastTells
  <2> QED
    BY <1>0, <1>1, <1>2, <2>1, <2>2, <2>3, SwitchParts, SwitchKeeps
<1>3. ASSUME active' = r.before, Saves(job.tx, "apply_failed_unchanged"),
             job' = NoJob, disturbed' = FALSE
      PROVE  Inv'
  <2>1. job' \in JobType /\ job'.at = "idle"
    BY <1>3, NoValues
  <2>2. /\ JobNamed' /\ (\A t \in Txs : Named(t)')
        /\ receipts' \in [Txs -> ReceiptType] /\ last' \in Txs \cup {NoTx}
        /\ last' = job.tx /\ receipts'[last'].phase = "apply_failed_unchanged"
        /\ receipts'[last'].before = receipts[job.tx].before
    BY <1>0, <1>3, <2>1, JobWrites DEF Phases
  <2>3. LastTells'
    BY <1>3, <2>1, <2>2 DEF LastTells, Tells
  <2> QED
    BY <1>0, <1>1, <1>3, <2>1, <2>2, <2>3, SwitchParts, SwitchKeeps
<1> QED
  BY <1>2, <1>3 DEF ApplyRun

LEMMA ApplyVerifyKeeps == ASSUME Inv, NEW probe \in BOOLEAN, ApplyVerify(probe) PROVE Inv'
<1> DEFINE verified == probe /\ active = receipts[job.tx].target
<1>0. job.at = "verify" /\ UNCHANGED <<active, selected, look, call, faults>>
  BY DEF ApplyVerify
<1>1. CASE verified
  <2>0. /\ job' = [job EXCEPT !.at = "record", !.seen = active]
        /\ Saves(job.tx, "verified") /\ disturbed' = FALSE
    BY <1>1 DEF ApplyVerify
  <2>1. job' \in JobType /\ job'.at = "record" /\ job'.tx = job.tx /\ job'.seen = active
    BY <2>0, SwitchParts, JobSeen
  <2>2. /\ JobNamed' /\ (\A t \in Txs : Named(t)')
        /\ receipts' \in [Txs -> ReceiptType] /\ last' \in Txs \cup {NoTx}
        /\ last' = job.tx /\ receipts'[last'].phase = "verified"
        /\ receipts'[last'].target = receipts[job.tx].target
    BY <1>0, <2>0, <2>1, JobWrites, SwitchParts DEF Phases
  <2>3. LastTells'
    BY <1>0, <1>1, <2>1, <2>2 DEF LastTells, Tells
  <2> QED
    BY <1>0, <2>0, <2>1, <2>2, <2>3, SwitchParts, SwitchKeeps
<1>2. CASE ~verified
  <2>0. /\ job' = [job EXCEPT !.at = "restore", !.seen = active]
        /\ UNCHANGED <<receipts, last, disturbed>>
    BY <1>2 DEF ApplyVerify
  <2>1. job' \in JobType /\ job'.at = "restore" /\ job'.tx = job.tx /\ job'.seen = active
    BY <2>0, SwitchParts, JobSeen
  <2>2. JobNamed' /\ (\A t \in Txs : Named(t)') /\ receipts' \in [Txs -> ReceiptType]
    BY <1>0, <2>0, <2>1, JobOn, SwitchParts
  <2>3. LastTells'
    BY <2>1 DEF LastTells
  <2> QED
    BY <1>0, <2>0, <2>1, <2>2, <2>3, SwitchParts, SwitchKeeps
<1> QED
  BY <1>1, <1>2

LEMMA OutcomePhase ==
  ASSUME NEW done \in BOOLEAN
  PROVE  /\ RestoreOutcome(done) \in {"failed_rolled_back", "failed_rollback_failed"}
         /\ RestoreOutcome(done) = "failed_rolled_back" => done
  BY DEF RestoreOutcome

LEMMA RestoreKeeps == ASSUME Inv, NEW done \in BOOLEAN, Restore(done) PROVE Inv'
<1> DEFINE r == receipts[job.tx]
           p == RestoreOutcome(done)
<1>0. /\ job.at = "restore" /\ Saves(job.tx, p) /\ job' = NoJob /\ disturbed' = FALSE
      /\ UNCHANGED <<selected, look, call, faults>>
      /\ active' \in {active, r.before} /\ (done => active' = r.before)
  BY DEF Restore
<1>1. active' \in Backends /\ job' \in JobType /\ job'.at = "idle"
  BY <1>0, SwitchParts, JobGoesOn, NoValues
<1>2. /\ p \in {"failed_rolled_back", "failed_rollback_failed"}
      /\ p = "failed_rolled_back" => active' = r.before
  BY <1>0, OutcomePhase
<1> HIDE DEF p
<1>3. p \in Phases \ {"none"}
  BY <1>2 DEF Phases
<1>4. /\ JobNamed' /\ (\A t \in Txs : Named(t)')
      /\ receipts' \in [Txs -> ReceiptType] /\ last' \in Txs \cup {NoTx}
      /\ last' = job.tx /\ receipts'[last'].phase = p
      /\ receipts'[last'].before = receipts[job.tx].before
  BY <1>0, <1>1, <1>3, JobWrites
<1>5. LastTells'
  BY <1>1, <1>2, <1>4 DEF LastTells, Tells
<1> QED
  BY <1>0, <1>1, <1>4, <1>5, SwitchParts, SwitchKeeps

LEMMA RecordKeeps == ASSUME Inv, Record PROVE Inv'
<1> DEFINE force == job.at = "record"
<1>0. /\ job.at \in {"noop", "record"} /\ job' = NoJob /\ selected' = Observed(job.seen, force)
      /\ UNCHANGED <<active, receipts, last, disturbed, look, call, faults>>
  BY DEF Record
<1>1. force \in BOOLEAN /\ job.seen \in Backends /\ TypeOK
  BY <1>0, JobGoesOn, SwitchParts
<1> HIDE DEF force
<1>2. /\ selected' \in [backend : Backends, gen : Nat \ {0}]
      /\ selected.gen \in Nat /\ selected'.gen \in Nat /\ selected.gen <= selected'.gen
  BY <1>0, <1>1, ObservedGrows
<1>3. call' \in [Sessions -> CallType(selected'.gen)]
  BY <1>0, <1>1, <1>2, SelectionGrows
<1>4. /\ JobNamed' /\ (\A t \in Txs : Named(t)') /\ receipts' \in [Txs -> ReceiptType]
      /\ job' \in JobType /\ job'.at = "idle"
  BY <1>0, JobOn, NoValues
<1>5. TypeOK'
  BY <1>0, <1>1, <1>2, <1>3, <1>4, TypeParts, TypeFromParts
<1>6. LastTells'
  BY <1>0 DEF Inv, LastTells, Tells, NoJob
<1> QED
  BY <1>4, <1>5, <1>6 DEF Inv, TypeInv, CallsBlockApply

\* A rollback may be of any switch that was verified.
LEMMA RollbackTarget ==
  ASSUME Inv, NEW t \in Txs, receipts[t].phase \in {"verified", "verified_noop"}
  PROVE  receipts[t].phase # "none" /\ receipts[t].before \in Backends
  BY SwitchParts DEF Named

LEMMA RollbackKeeps ==
  ASSUME Inv, NEW t \in Txs, NEW probe \in BOOLEAN, Rollback(t, probe) PROVE Inv'
<1> DEFINE k == [at |-> "record", tx |-> t, seen |-> active']
           p == IF probe THEN "rolled_back" ELSE "rollback_failed"
<1>0. /\ job = NoJob /\ active' = receipts[t].before /\ disturbed' = FALSE /\ Saves(t, p)
      /\ job' = NoJob \/ job' = k
      /\ UNCHANGED <<selected, look, call, faults>>
      /\ receipts[t].phase # "none" /\ active' \in Backends
  BY RollbackTarget DEF Rollback, Idle
<1>1. p \in Phases \ {"none"} /\ p \in {"rolled_back", "rollback_failed"}
  BY DEF Phases
<1>2. k \in JobType /\ k.at = "record" /\ k.tx = t /\ k.seen = active'
  <2>1. \A b \in Backends :
          LET j == [at |-> "record", tx |-> t, seen |-> b]
          IN  j \in JobType /\ j.at = "record" /\ j.tx = t /\ j.seen = b
    BY JobNew
  <2> QED
    BY <1>0, <2>1
<1> HIDE DEF p, k
<1>3. TypeInv
  BY DEF Inv
<1>4. /\ receipts' \in [Txs -> ReceiptType] /\ last' = t
      /\ receipts'[t].phase = p
      /\ receipts'[t].before = receipts[t].before
      /\ \A x \in Txs : Named(x)'
  BY <1>0, <1>1, <1>3, SavesReceipt
<1>5. job' \in JobType /\ JobNamed' /\ job'.at \in {"idle", "record"}
  BY <1>0, <1>1, <1>2, <1>4, NoValues DEF JobNamed
<1>6. LastTells'
  BY <1>0, <1>1, <1>4, <1>5 DEF LastTells, Tells
<1> QED
  BY <1>0, <1>4, <1>5, <1>6, SwitchParts, SwitchKeeps

\* Behind the switcher's back: the last receipt is no longer said to tell.
LEMMA Disturbs ==
  ASSUME Inv, active' \in Backends, disturbed' = TRUE, faults < MaxFaults, faults' = faults + 1,
         UNCHANGED <<selected, receipts, last, job, look, call>>
  PROVE  Inv'
<1>1. faults' \in 0..MaxFaults
  BY SwitchParts, BoundsAssumption
<1>2. JobNamed' /\ \A t \in Txs : Named(t)'
  BY SwitchParts DEF JobNamed, Named
<1>3. LastTells'
  BY DEF LastTells
<1> QED
  BY <1>1, <1>2, <1>3, SwitchParts, SwitchKeeps

LEMMA CrashKeeps == ASSUME Inv, Crash PROVE Inv'
<1>0. /\ job' = NoJob /\ look' = NoBackend /\ call' = [s \in Sessions |-> NoCall]
      /\ faults < MaxFaults /\ faults' = faults + 1 /\ disturbed' = TRUE
      /\ UNCHANGED <<active, selected, receipts, last>>
  BY DEF Crash
<1>1. faults' \in 0..MaxFaults
  BY <1>0, SwitchParts, BoundsAssumption
<1>2. call' \in [Sessions -> CallType(selected'.gen)] /\ look' \in Maybe
  BY <1>0, SwitchParts, TypeParts, NoValues DEF Maybe
<1>3. job' \in JobType /\ job'.at = "idle" /\ JobNamed' /\ \A t \in Txs : Named(t)'
  BY <1>0, SwitchParts, NoValues DEF JobNamed, Named
<1>4. TypeOK'
  BY <1>0, <1>1, <1>2, <1>3, SwitchParts, TypeParts, TypeFromParts
<1> QED
  BY <1>0, <1>3, <1>4 DEF Inv, TypeInv, CallsBlockApply, LastTells

LEMMA StutterKeeps == ASSUME Inv, UNCHANGED vars PROVE Inv'
<1>1. UNCHANGED <<active, selected, receipts, last, job, disturbed, look, call, faults>>
  BY DEF vars, switching
<1>2. JobNamed' /\ (\A t \in Txs : Named(t)') /\ LastTells'
  BY <1>1, SwitchParts DEF Inv, JobNamed, Named, LastTells, Tells
<1>3. (job'.at \in {"run", "verify"}) => (job.at \in {"run", "verify"})
  BY <1>1
<1> QED
  BY <1>1, <1>2, <1>3, SwitchParts, SwitchKeeps

LEMMA InvStep == Inv /\ [Next]_vars => Inv'
<1> SUFFICES ASSUME Inv, [Next]_vars PROVE Inv'
  OBVIOUS
<1>1. ASSUME NEW t \in Txs, RollbackFails(t) PROVE Inv'
  BY <1>1, RollbackTarget, Disturbs DEF RollbackFails
<1>2. ASSUME NEW b \in Backends, Outside(b) PROVE Inv'
  BY <1>2, Disturbs DEF Outside
<1>3. CASE Switcher
  BY <1>1, <1>3, ApplyReadKeeps, PreviewKeeps, RollbackKeeps DEF Switcher
<1>4. CASE JobStep
  BY <1>4, ApplyCountKeeps, ApplyRunKeeps, RecordKeeps, ApplyVerifyKeeps, RestoreKeeps
     DEF JobStep
<1> QED
  BY <1>2, <1>3, <1>4, LookStep, CallStep, CrashKeeps, StutterKeeps DEF Next

-----------------------------------------------------------------------------
(* The theorems.                                                            *)

\* The types, what a receipt and a job name, and the two properties are inductive.
THEOREM Invariance == Spec => []Inv
  BY InvInit, InvStep, PTL DEF Spec

\* Every variable has its type: in particular no call's lease is for a
\* generation that the registry has yet to reach, whatever was observed, told,
\* restored or crashed in between.
THEOREM TypesHold == Spec => []TypeOK
<1>1. Inv => TypeOK
  BY DEF Inv, TypeInv
<1> QED
  BY <1>1, Invariance, PTL

\* An apply runs its command and verifies it only past calls that were counted
\* after it had found none in flight.
THEOREM CallsBlockApplyHolds == Spec => []CallsBlockApply
<1>1. Inv => CallsBlockApply
  BY DEF Inv
<1> QED
  BY <1>1, Invariance, PTL

\* While no apply holds the lock, the last receipt is right about the live
\* backend, unless something moved it behind the receipt.
THEOREM ReceiptTellsBackendHolds == Spec => []ReceiptTellsBackend
<1>1. Inv => ReceiptTellsBackend
  BY NoValues DEF Inv, LastTells, Tells, ReceiptTellsBackend
<1> QED
  BY <1>1, Invariance, PTL
=============================================================================
