------------------------- MODULE EventStreamProofs -------------------------
(* Proofs about EventStream, for every value of its constants.              *)
EXTENDS EventStream, FiniteSetTheorems, WellFoundedInduction, TLAPS

-----------------------------------------------------------------------------
(* The greatest and the least of a bounded set of numbers.                  *)

LEMMA LeastIsOne ==
  ASSUME NEW S \in SUBSET Nat, S # {}
  PROVE  \E m \in S : \A i \in S : m <= i
<1>1. PICK m \in S : \A i \in S : ~ (<<i, m>> \in OpToRel(<, Nat))
  BY WFMin, NatLessThanWellFounded
<1>2. ASSUME NEW i \in S PROVE m <= i
  <2>1. i < m => <<i, m>> \in OpToRel(<, Nat)
    BY DEF OpToRel
  <2>2. ~ (i < m)
    BY <1>1, <2>1
  <2> QED
    BY <2>2
<1> QED
  BY <1>2

LEMMA MinBounds ==
  ASSUME NEW S \in SUBSET Nat, S # {}
  PROVE  Min(S) \in S /\ \A i \in S : Min(S) <= i
  BY LeastIsOne DEF Min

LEMMA MaxBounds ==
  ASSUME NEW n \in Nat, NEW S \in SUBSET (0..n), S # {}
  PROVE  Max(S) \in S /\ \A i \in S : i <= Max(S)
<1> DEFINE U == {u \in Nat : \A i \in S : i <= u}
<1>1. n \in U /\ U \in SUBSET Nat
  OBVIOUS
<1>2. PICK u \in U : \A v \in U : u <= v
  BY <1>1, LeastIsOne
<1>3. u \in S
  <2>1. SUFFICES ASSUME u \notin S PROVE FALSE
    OBVIOUS
  <2>2. PICK i \in S : TRUE
    OBVIOUS
  <2>3. \A j \in S : j <= u - 1
    BY <1>2, <2>1
  <2>4. u - 1 \in U
    BY <1>2, <2>2, <2>3
  <2> QED
    BY <1>2, <2>4
<1>4. \A i \in S : i <= u
  BY <1>2
<1>5. \E x \in S : \A y \in S : x >= y
  BY <1>2, <1>3, <1>4
<1>6. Max(S) \in S /\ \A y \in S : Max(S) >= y
  BY <1>5 DEF Max
<1> QED
  BY <1>6

-----------------------------------------------------------------------------
(* The types.                                                               *)

ConnType(n) == [phase : {"events", "state", "send", "idle", "stranded"}, cursor : 0..n, initial : BOOLEAN,
                rows : SUBSET (1..n), snap : BOOLEAN, reset : BOOLEAN,
                next : 0..n, upto : 0..n]
EnvType(n)  == [ids : SUBSET (1..n), told : 0..n]

LEMMA ConnFields ==
  ASSUME NEW n \in Nat, NEW c \in ConnType(n)
  PROVE  /\ c.phase \in {"events", "state", "send", "idle", "stranded"} /\ c # Closed
         /\ c.cursor \in 0..n /\ c.next \in 0..n /\ c.upto \in 0..n
         /\ c.rows \in SUBSET (1..n)
         /\ c.initial \in BOOLEAN /\ c.snap \in BOOLEAN /\ c.reset \in BOOLEAN
<1>1. /\ c.phase \in {"events", "state", "send", "idle", "stranded"}
      /\ c.cursor \in 0..n /\ c.next \in 0..n /\ c.upto \in 0..n
      /\ c.rows \in SUBSET (1..n)
      /\ c.initial \in BOOLEAN /\ c.snap \in BOOLEAN /\ c.reset \in BOOLEAN
  BY DEF ConnType
<1>2. Closed.phase = "closed"
  BY DEF Closed
<1> QED
  BY <1>1, <1>2

LEMMA ConnGrows ==
  ASSUME NEW n \in Nat, NEW c \in ConnType(n)
  PROVE  c \in ConnType(n + 1)
<1>1. 0..n \subseteq 0..(n + 1) /\ 1..n \subseteq 1..(n + 1)
  OBVIOUS
<1> DEFINE A == 0..n
           B == 0..(n + 1)
           C == 1..n
           D == 1..(n + 1)
<1>2. c \in [phase : {"events", "state", "send", "idle", "stranded"}, cursor : A, initial : BOOLEAN,
                rows : SUBSET C, snap : BOOLEAN, reset : BOOLEAN, next : A, upto : A]
  BY DEF ConnType
<1>3. A \subseteq B /\ C \subseteq D
  BY <1>1
<1> HIDE DEF A, B, C, D
<1>4. c \in [phase : {"events", "state", "send", "idle", "stranded"}, cursor : B, initial : BOOLEAN,
                rows : SUBSET D, snap : BOOLEAN, reset : BOOLEAN, next : B, upto : B]
  BY <1>2, <1>3
<1> QED
  BY <1>4 DEF ConnType, B, D

LEMMA EnvGrows ==
  ASSUME NEW n \in Nat, NEW e \in EnvType(n)
  PROVE  e \in EnvType(n + 1)
  BY DEF EnvType

LEMMA EnvFields ==
  ASSUME NEW n \in Nat, NEW e \in EnvType(n)
  PROVE  e.ids \in SUBSET (1..n) /\ e.told \in 0..n
  BY DEF EnvType

\* The steps of a connection.
LEMMA ConnPolls ==
  ASSUME NEW n \in Nat, NEW c \in ConnType(n)
  PROVE  LET d == [c EXCEPT !.phase = "events"]
         IN  d \in ConnType(n) /\ d.phase = "events" /\ d.cursor = c.cursor
  BY DEF ConnType

LEMMA ConnOpens ==
  ASSUME NEW n \in Nat, NEW x \in 0..n
  PROVE  /\ Opened(x) \in ConnType(n) /\ Opened(x).phase = "events" /\ Opened(x).cursor = x
         /\ LET d == [Opened(x) EXCEPT !.phase = "idle", !.initial = FALSE]
            IN  d \in ConnType(n) /\ d.phase = "idle" /\ d.cursor = x
<1> DEFINE A == 0..n
           R == 1..n
           T == [phase : {"events", "state", "send", "idle", "stranded"}, cursor : A, initial : BOOLEAN,
                 rows : SUBSET R, snap : BOOLEAN, reset : BOOLEAN, next : A, upto : A]
<1>1. 0 \in A /\ x \in A
  OBVIOUS
<1>2. ConnType(n) = T
  BY DEF ConnType
<1> HIDE DEF A, R
<1>3. Opened(x) \in T /\ Opened(x).phase = "events" /\ Opened(x).cursor = x
  BY <1>1 DEF Opened
<1>4. ASSUME NEW c \in T, c.cursor = x
      PROVE  LET d == [c EXCEPT !.phase = "idle", !.initial = FALSE]
             IN  d \in T /\ d.phase = "idle" /\ d.cursor = x
  BY <1>4
<1> HIDE DEF T
<1> QED
  BY <1>2, <1>3, <1>4

LEMMA TypeParts ==
  ASSUME TypeOK
  PROVE  /\ log \in Seq(Agents) /\ Latest \in Nat /\ Latest <= MaxEvents
         /\ first \in Nat /\ 1 <= first
         /\ conn = Closed \/ conn \in ConnType(Latest)
         /\ wire \in Seq(EnvType(Latest))
         /\ online \in BOOLEAN /\ running \in BOOLEAN
         /\ seen \in 0..Latest /\ fetch \in 0..Latest
         /\ handled \subseteq 1..Latest
         /\ fetched \in 0..Latest /\ covered \in 0..Latest
         /\ trims \in 0..MaxTrims /\ faults \in 0..MaxFaults
<1>1. Latest \in Nat /\ Latest <= MaxEvents /\ first \in Nat /\ 1 <= first
  BY BoundAssumption DEF TypeOK, Latest
<1> QED
  BY <1>1 DEF TypeOK, ConnType, EnvType

\* What a step that appends no event has to keep.
LEMMA TypeFromParts ==
  ASSUME TypeOK, log' = log, first' \in 1..(MaxEvents + 1),
         conn' = Closed \/ conn' \in ConnType(Latest),
         wire' \in Seq(EnvType(Latest)),
         online' \in BOOLEAN, running' \in BOOLEAN,
         seen' \in 0..Latest, fetch' \in 0..Latest, handled' \subseteq 1..Latest,
         fetched' \in 0..Latest, covered' \in 0..Latest,
         trims' \in 0..MaxTrims, faults' \in 0..MaxFaults
  PROVE  TypeOK'
<1>1. Latest' = Latest
  BY DEF Latest
<1>2. log' \in Seq(Agents) /\ Latest' <= MaxEvents
  BY <1>1 DEF TypeOK
<1>3. conn' = Closed \/ conn' \in ConnType(Latest')
  BY <1>1
<1>4. /\ wire' \in Seq(EnvType(Latest')) /\ seen' \in 0..Latest' /\ fetch' \in 0..Latest'
      /\ handled' \subseteq 1..Latest' /\ fetched' \in 0..Latest' /\ covered' \in 0..Latest'
  BY <1>1
<1> QED
  BY <1>2, <1>3, <1>4 DEF TypeOK, ConnType, EnvType

-----------------------------------------------------------------------------
(* The envelope.                                                            *)

\* What was read leaves no gap: an id up to the next cursor was behind the old
\* one, is among the rows, or is older than all of them in a snapshot.
Page(c) ==
  /\ \A m \in c.rows : m <= c.next
  /\ \A i \in 1..c.next : \/ i <= c.cursor \/ i \in c.rows
                          \/ c.snap /\ c.rows # {} /\ \A m \in c.rows : i < m
  /\ c.phase = "send" /\ c.snap => c.next <= c.upto

\* Of the first Limit events after a cursor none is left out below another.
LEMMA AfterClosed ==
  ASSUME TypeOK, NEW c \in Nat, NEW m \in After(c), NEW i \in Retained, c < i, i <= m
  PROVE  i \in After(c)
<1> DEFINE S(x) == {j \in Retained : c < j /\ j <= x}
<1>0. Latest \in Nat /\ first \in Nat
  BY TypeParts
<1>1. m \in Retained /\ Cardinality(S(m)) <= Limit
  BY DEF After
<1>2. IsFiniteSet(Retained)
  BY <1>0, FS_Interval DEF Retained
<1>3. S(i) \subseteq S(m) /\ IsFiniteSet(S(m))
  <2>1. Retained \subseteq Nat
    BY <1>0 DEF Retained
  <2>2. S(m) \subseteq Retained
    OBVIOUS
  <2>3. ASSUME NEW j \in Retained, c < j, j <= i PROVE j <= m
    <3>1. j \in Nat /\ i \in Nat /\ m \in Nat
      BY <1>1, <2>1
    <3> QED
      BY <2>3, <3>1
  <2>4. S(i) \subseteq S(m)
    BY <2>3
  <2> QED
    BY <1>2, <2>2, <2>4, FS_Subset
<1>4. /\ Cardinality(S(i)) <= Cardinality(S(m))
      /\ Cardinality(S(i)) \in Nat /\ Cardinality(S(m)) \in Nat
  BY <1>3, FS_Subset, FS_CardinalityType
<1>5. Cardinality(S(i)) <= Limit
  BY <1>1, <1>4, BoundAssumption
<1> QED
  BY <1>5 DEF After

LEMMA RowsInLog ==
  ASSUME TypeOK
  PROVE  /\ Newest \in SUBSET (1..Latest) /\ \A c : After(c) \in SUBSET (1..Latest)
         /\ Retained \in SUBSET (1..Latest)
<1>1. Retained \in SUBSET (1..Latest)
  BY TypeParts DEF Retained
<1> QED
  BY <1>1 DEF Newest, After

LEMMA PageRead ==
  ASSUME TypeOK, NEW c \in ConnType(Latest)
  PROVE  LET reset == ResetRequired(c.cursor, first)
             snap  == c.cursor = 0 \/ reset
             rows  == IF snap THEN Newest ELSE After(c.cursor)
             next  == SourceCursor(rows, c.cursor)
         IN  /\ rows \in SUBSET (1..Latest) /\ next \in 0..Latest
             /\ \A m \in rows : m <= next
             /\ \A i \in 1..next : \/ i <= c.cursor \/ i \in rows
                                   \/ snap /\ rows # {} /\ \A m \in rows : i < m
<1> DEFINE reset == ResetRequired(c.cursor, first)
           snap  == c.cursor = 0 \/ reset
           rows  == IF snap THEN Newest ELSE After(c.cursor)
           next  == SourceCursor(rows, c.cursor)
           Goal  == /\ rows \in SUBSET (1..Latest) /\ next \in 0..Latest
                    /\ \A m \in rows : m <= next
                    /\ \A i \in 1..next : \/ i <= c.cursor \/ i \in rows
                                          \/ snap /\ rows # {} /\ \A m \in rows : i < m
<1>0. /\ Latest \in Nat /\ first \in Nat /\ 1 <= first /\ c.cursor \in 0..Latest
      /\ Limit \in Nat \ {0}
  BY TypeParts, ConnFields, BoundAssumption
<1>1. rows \in SUBSET (1..Latest) /\ rows \subseteq Retained
  BY RowsInLog DEF Newest, After
<1>2. ASSUME rows = {} PROVE Goal
  <2>1. next = IF Retained = {} THEN 0 ELSE c.cursor
    BY <1>2 DEF SourceCursor
  <2>2. next <= c.cursor /\ next \in 0..Latest
    BY <1>0, <2>1
  <2> HIDE DEF next, rows, snap
  <2> QED
    BY <1>0, <1>1, <1>2, <2>2
<1>3. ASSUME rows # {} PROVE Goal
  <2>1. next = Max(rows)
    BY <1>3 DEF SourceCursor
  <2>2. next \in rows /\ \A m \in rows : m <= next
    <3> HIDE DEF rows
    <3>1. rows \in SUBSET (0..Latest)
      BY <1>1, <1>0
    <3> QED
      BY <1>0, <1>3, <2>1, <3>1, MaxBounds
  <2>3. next \in Retained /\ next \in 1..Latest /\ first <= Latest
    BY <1>0, <1>1, <2>2 DEF Retained
  <2>4. ASSUME NEW i \in 1..next, ~ (i <= c.cursor), i \notin rows
        PROVE  snap /\ rows # {} /\ \A m \in rows : i < m
    <3>1. CASE snap
      <4>1. rows = Newest
        BY <3>1
      <4>2. ASSUME NEW m \in rows PROVE i < m
        <5>1. m \in Retained /\ m > Latest - Limit /\ m \in 1..Latest
          BY <1>0, <1>1, <4>1 DEF Newest
        <5>2. ~ (i \in Retained /\ i > Latest - Limit)
          BY <2>4, <4>1 DEF Newest
        <5>3. i \in Nat /\ i <= Latest /\ first <= m
          BY <1>0, <2>3, <5>1 DEF Retained
        <5>4. ~ (first <= i /\ i > Latest - Limit)
          BY <1>0, <5>2, <5>3 DEF Retained
        <5> QED
          BY <1>0, <5>1, <5>3, <5>4
      <4> QED
        BY <1>3, <3>1, <4>2
    <3>2. CASE ~snap
      <4>1. rows = After(c.cursor) /\ c.cursor # 0 /\ ~ResetRequired(c.cursor, first)
        BY <3>2
      <4>2. first - 1 <= c.cursor
        BY <1>0, <2>3, <4>1 DEF ResetRequired
      <4>3. i \in Retained /\ c.cursor < i /\ i <= next
        BY <1>0, <2>3, <2>4, <4>2 DEF Retained
      <4>4. i \in After(c.cursor)
        BY <1>0, <2>2, <4>1, <4>3, AfterClosed
      <4> QED
        BY <2>4, <4>1, <4>4
    <3> QED
      BY <3>1, <3>2
  <2> HIDE DEF next, rows, snap
  <2> QED
    BY <1>0, <1>1, <2>2, <2>3, <2>4
<1> QED
  BY <1>2, <1>3

-----------------------------------------------------------------------------
(* The invariant.                                                           *)

\* An envelope tells the client of an event, or its state has what it was about.
Covers(e, i) == i \in e.ids \/ i <= e.told
InWire(i, k) == \E j \in 1..k : Covers(wire[j], i)

\* The line between the two sides: it is empty without a connection.
LineInv == (online => conn # Closed) /\ (~online => wire = <<>>)

\* What lies below an id on the wire was reached or is told of earlier on it.
WireSafe ==
  \A k \in 1..Len(wire) : \A m \in wire[k].ids :
    \A i \in Seeable(1..m) : Reached(i) \/ InWire(i, k)

\* The server's cursor has passed what was reached or what is on its way.
CursorSafe ==
  online => \A i \in Seeable(1..conn.cursor) : Reached(i) \/ InWire(i, Len(wire))

ReadSafe == conn.phase \in {"state", "send"} => Page(conn)

Inv == TypeOK /\ NothingSkipped /\ LineInv /\ WireSafe /\ CursorSafe /\ ReadSafe

\* What was reached stays so.
Grows ==
  /\ handled \subseteq handled'
  /\ covered' \in Nat /\ covered <= covered'
  /\ fetched' \in Nat /\ fetched <= fetched'

LEMMA EmptyLog ==
  Init => /\ TypeOK /\ Latest = 0 /\ seen = 0 /\ wire = <<>> /\ ~online /\ conn = Closed
<1> SUFFICES ASSUME Init
             PROVE  /\ TypeOK /\ Latest = 0 /\ seen = 0 /\ wire = <<>> /\ ~online
                    /\ conn = Closed
  OBVIOUS
<1>1. Latest = 0 /\ log = <<>>
  BY DEF Init, Latest
<1>2. log \in Seq(Agents) /\ Latest <= MaxEvents /\ first \in 1..(MaxEvents + 1)
  BY <1>1, BoundAssumption DEF Init
<1>3. 0 \in 0..Latest /\ 0 \in 0..MaxTrims /\ 0 \in 0..MaxFaults /\ {} \subseteq 1..Latest
  BY <1>1, BoundAssumption
<1>4. TypeOK
  <2>1. conn = Closed /\ wire \in Seq([ids : SUBSET (1..Latest), told : 0..Latest])
    BY DEF Init
  <2>2. /\ online \in BOOLEAN /\ running \in BOOLEAN
        /\ seen \in 0..Latest /\ fetch \in 0..Latest /\ handled \subseteq 1..Latest
        /\ fetched \in 0..Latest /\ covered \in 0..Latest
        /\ trims \in 0..MaxTrims /\ faults \in 0..MaxFaults
    BY <1>3 DEF Init
  <2> QED
    BY <1>2, <2>1, <2>2 DEF TypeOK
<1> QED
  BY <1>1, <1>4 DEF Init

LEMMA InvInit == Init => Inv
<1> SUFFICES ASSUME Init PROVE Inv
  OBVIOUS
<1>1. TypeOK /\ seen = 0 /\ wire = <<>> /\ ~online /\ conn = Closed
  BY EmptyLog
<1>2. NothingSkipped /\ WireSafe
  BY <1>1 DEF NothingSkipped, WireSafe, Seeable
<1> QED
  BY <1>1, <1>2 DEF Inv, LineInv, CursorSafe, ReadSafe, Closed

LEMMA PastKeeps == ASSUME TypeOK, UNCHANGED past PROVE Grows
  BY TypeParts DEF past, Grows

LEMMA ReachedGrows ==
  ASSUME TypeOK, Grows, NEW i \in Nat, Reached(i)
  PROVE  Reached(i)'
  BY TypeParts DEF Grows, Reached

LEMMA SkipKeeps ==
  ASSUME Inv, log' = log, seen' = seen, Grows
  PROVE  NothingSkipped'
<1>1. TypeOK /\ \A i \in Seeable(1..seen) : Reached(i) /\ i \in Nat
  BY TypeParts DEF Inv, NothingSkipped, Seeable
<1>2. \A i \in Seeable(1..seen) : Reached(i)'
  BY <1>1, ReachedGrows
<1> QED
  BY <1>2 DEF NothingSkipped, Seeable

LEMMA WireKeeps ==
  ASSUME Inv, log' = log, wire' = wire, Grows
  PROVE  WireSafe'
<1> SUFFICES ASSUME NEW k \in 1..Len(wire), NEW m \in wire[k].ids, NEW i \in Seeable(1..m)
             PROVE  Reached(i)' \/ InWire(i, k)'
  BY DEF WireSafe, Seeable
<1>1. TypeOK /\ i \in Nat /\ (Reached(i) \/ InWire(i, k))
  BY DEF Inv, WireSafe, Seeable
<1> QED
  BY <1>1, ReachedGrows DEF InWire

LEMMA CursorKeeps ==
  ASSUME Inv, log' = log, wire' = wire, Grows, online' => online /\ conn'.cursor = conn.cursor
  PROVE  CursorSafe'
<1> SUFFICES ASSUME online, conn'.cursor = conn.cursor, NEW i \in Seeable(1..conn.cursor)
             PROVE  Reached(i)' \/ InWire(i, Len(wire))'
  BY DEF CursorSafe, Seeable
<1>1. TypeOK /\ i \in Nat /\ (Reached(i) \/ InWire(i, Len(wire)))
  BY DEF Inv, CursorSafe, Seeable
<1> QED
  BY <1>1, ReachedGrows DEF InWire

-----------------------------------------------------------------------------
(* The server's steps.                                                      *)

\* A step of the server that sends nothing and leaves its cursor where it is.
LEMMA ServerKeeps ==
  ASSUME Inv, UNCHANGED <<log, first, wire, online, running, seen, fetch, past, bounds>>,
         \/ conn' \in ConnType(Latest) /\ conn'.cursor = conn.cursor
         \/ conn' = Closed /\ ~online,
         conn'.phase \in {"state", "send"} => Page(conn')
  PROVE  Inv'
<1>0. TypeOK /\ Latest \in Nat
  BY TypeParts DEF Inv
<1>1. TypeOK'
  BY <1>0, TypeParts, TypeFromParts DEF past, bounds, TypeOK
<1>2. Grows
  BY <1>0, PastKeeps
<1>3. NothingSkipped' /\ WireSafe' /\ CursorSafe'
  BY <1>2, SkipKeeps, WireKeeps, CursorKeeps
<1>4. LineInv'
  BY <1>0, ConnFields DEF Inv, LineInv
<1>5. ReadSafe'
  BY DEF ReadSafe
<1> QED
  BY <1>1, <1>3, <1>4, <1>5 DEF Inv

LEMMA OpenConn ==
  ASSUME Inv, conn.phase \in {"events", "state", "send", "idle"}
  PROVE  conn \in ConnType(Latest) /\ Latest \in Nat /\ TypeOK
  BY TypeParts DEF Inv, Closed

LEMMA ReadEventsKeeps == ASSUME Inv, ReadEvents PROVE Inv'
<1> DEFINE reset == ResetRequired(conn.cursor, first)
           snap  == conn.cursor = 0 \/ reset
           rows  == IF snap THEN Newest ELSE After(conn.cursor)
           next  == SourceCursor(rows, conn.cursor)
           p     == IF conn.initial \/ snap THEN "state" ELSE "send"
           d     == [conn EXCEPT !.phase = p, !.rows = rows, !.snap = snap, !.reset = reset,
                                 !.next = next]
<1>0. /\ conn.phase = "events" /\ conn' = d
      /\ UNCHANGED <<log, first, wire, online, running, seen, fetch, past, bounds>>
  BY DEF ReadEvents
<1>1. conn \in ConnType(Latest) /\ Latest \in Nat /\ TypeOK
  BY <1>0, OpenConn
<1>2. /\ rows \in SUBSET (1..Latest) /\ next \in 0..Latest
      /\ \A m \in rows : m <= next
      /\ \A i \in 1..next : \/ i <= conn.cursor \/ i \in rows
                            \/ snap /\ rows # {} /\ \A m \in rows : i < m
  BY <1>1, PageRead
<1>3. reset \in BOOLEAN /\ snap \in BOOLEAN /\ p \in {"state", "send"} /\ (p = "send" => ~snap)
  BY DEF ResetRequired
<1> HIDE DEF reset, snap, rows, next, p
<1>4. /\ d \in ConnType(Latest) /\ d.phase = p /\ d.rows = rows /\ d.snap = snap
      /\ d.next = next /\ d.cursor = conn.cursor
  BY <1>1, <1>2, <1>3 DEF ConnType
<1> HIDE DEF d
<1>5. Page(conn')
  BY <1>0, <1>2, <1>3, <1>4 DEF Page
<1> QED
  BY <1>0, <1>4, <1>5, ServerKeeps

LEMMA ReadStateKeeps == ASSUME Inv, ReadState PROVE Inv'
<1> DEFINE d == [conn EXCEPT !.phase = "send", !.upto = Latest]
<1>0. /\ conn.phase = "state" /\ conn' = d
      /\ UNCHANGED <<log, first, wire, online, running, seen, fetch, past, bounds>>
  BY DEF ReadState
<1>1. conn \in ConnType(Latest) /\ Latest \in Nat /\ TypeOK
  BY <1>0, OpenConn
<1>2. /\ d \in ConnType(Latest) /\ d.phase = "send" /\ d.upto = Latest
      /\ d.rows = conn.rows /\ d.snap = conn.snap /\ d.next = conn.next /\ d.cursor = conn.cursor
  <2>1. Latest \in 0..Latest
    BY <1>1
  <2> QED
    BY <1>1, <2>1 DEF ConnType
<1> HIDE DEF d
<1>3. Page(conn) /\ conn.next <= Latest
  BY <1>0, <1>1, ConnFields DEF Inv, ReadSafe
<1>4. Page(conn')
  BY <1>0, <1>2, <1>3 DEF Page
<1> QED
  BY <1>0, <1>2, <1>4, ServerKeeps

LEMMA PollKeeps == ASSUME Inv, Poll \/ NoticeEnd PROVE Inv'
<1>1. CASE Poll
  <2>1. conn \in ConnType(Latest) /\ Latest \in Nat
    BY <1>1, OpenConn DEF Poll
  <2>2. conn' \in ConnType(Latest) /\ conn'.phase = "events" /\ conn'.cursor = conn.cursor
    BY <1>1, <2>1, ConnPolls DEF Poll
  <2> QED
    BY <1>1, <2>2, ServerKeeps DEF Poll
<1>2. CASE NoticeEnd
  BY <1>2, ServerKeeps DEF NoticeEnd, Closed
<1> QED
  BY <1>1, <1>2

\* The envelope of what was read.
LEMMA EnvelopeTells ==
  ASSUME NEW n \in Nat, NEW c \in ConnType(n), Page(c), c.phase = "send"
  PROVE  /\ Envelope(c) \in EnvType(n)
         /\ \A i \in Seeable(1..c.next) : i <= c.cursor \/ Covers(Envelope(c), i)
         /\ \A m \in Envelope(c).ids : m \in 1..c.next
<1> DEFINE low == IF c.rows = {} THEN c.next ELSE Min(c.rows) - 1
           told == IF ~c.snap THEN 0 ELSE Min({c.upto, low})
<1>0. /\ c.cursor \in 0..n /\ c.next \in 0..n /\ c.upto \in 0..n /\ c.rows \in SUBSET (1..n)
      /\ c.snap \in BOOLEAN
  BY ConnFields
<1>1. Envelope(c) = [ids |-> Seeable(c.rows), told |-> told]
  BY DEF Envelope
<1>2. /\ low \in 0..n
      /\ c.rows # {} => \A i \in Nat : (\A m \in c.rows : i < m) => i <= low
  <2>1. CASE c.rows = {}
    BY <1>0, <2>1
  <2>2. CASE c.rows # {}
    <3>1. c.rows \in SUBSET Nat
      BY <1>0
    <3>2. Min(c.rows) \in c.rows
      BY <2>2, <3>1, MinBounds
    <3> QED
      BY <1>0, <2>2, <3>2
  <2> QED
    BY <2>1, <2>2
<1>3. /\ told \in 0..n
      /\ c.snap => \A i \in Nat : i <= c.upto /\ i <= low => i <= told
  <2> HIDE DEF low
  <2>1. {c.upto, low} \in SUBSET Nat /\ {c.upto, low} # {}
    BY <1>0, <1>2
  <2>2. Min({c.upto, low}) \in {c.upto, low}
    BY <2>1, MinBounds
  <2>3. Min({c.upto, low}) \in 0..n
    BY <1>0, <1>2, <2>2
  <2>4. \A i \in Nat : i <= c.upto /\ i <= low => i <= Min({c.upto, low})
    BY <2>2
  <2> QED
    BY <1>0, <2>3, <2>4
<1> HIDE DEF low, told
<1>4. Seeable(c.rows) \in SUBSET (1..n)
  BY <1>0 DEF Seeable
<1>5. Envelope(c) \in EnvType(n) /\ Envelope(c).ids = Seeable(c.rows) /\ Envelope(c).told = told
  BY <1>1, <1>3, <1>4 DEF EnvType
<1>6. ASSUME NEW i \in Seeable(1..c.next), ~ (i <= c.cursor)
      PROVE  Covers(Envelope(c), i)
  <2>1. i \in 1..c.next /\ log[i] \in Allowed
    BY DEF Seeable
  <2>2. i \in c.rows \/ (c.snap /\ c.rows # {} /\ \A m \in c.rows : i < m)
    BY <1>6, <2>1 DEF Page
  <2>3. CASE i \in c.rows
    BY <1>5, <2>1, <2>3 DEF Covers, Seeable
  <2>4. CASE c.snap /\ c.rows # {} /\ \A m \in c.rows : i < m
    <3>1. i \in Nat /\ i <= low /\ i <= c.upto
      <4>1. c.next <= c.upto
        BY <2>4 DEF Page
      <4> QED
        BY <1>0, <1>2, <2>1, <2>4, <4>1
    <3> QED
      BY <1>3, <1>5, <2>4, <3>1 DEF Covers
  <2> QED
    BY <2>2, <2>3, <2>4
<1>7. \A m \in Envelope(c).ids : m \in 1..c.next
  BY <1>0, <1>5 DEF Page, Seeable
<1> QED
  BY <1>5, <1>6, <1>7

LEMMA SendKeeps == ASSUME Inv, Send PROVE Inv'
<1> DEFINE x == IF Worth(conn) THEN conn.next ELSE conn.cursor
           e == Envelope(conn)
<1>0. /\ conn.phase = "send" /\ online
      /\ conn' = [Opened(x) EXCEPT !.phase = "idle", !.initial = FALSE]
      /\ UNCHANGED <<log, first, online, running, seen, fetch, past, bounds>>
  BY DEF Send
<1>1. conn \in ConnType(Latest) /\ Latest \in Nat /\ TypeOK
  BY <1>0, OpenConn
<1>2. x \in 0..Latest
  BY <1>1, ConnFields
<1>3. conn' \in ConnType(Latest) /\ conn'.phase = "idle" /\ conn'.cursor = x
  <2> HIDE DEF x
  <2> QED
    BY <1>0, <1>1, <1>2, ConnOpens
<1>4. CASE ~Worth(conn)
  <2>1. x = conn.cursor /\ wire' = wire
    BY <1>4 DEF Send
  <2> HIDE DEF x
  <2> QED
    BY <1>0, <1>3, <2>1, ServerKeeps
<1>5. CASE Worth(conn)
  <2>0. x = conn.next /\ wire' = Append(wire, e)
    BY <1>5 DEF Send
  <2>1. /\ e \in EnvType(Latest)
        /\ \A i \in Seeable(1..conn.next) : i <= conn.cursor \/ Covers(e, i)
        /\ \A m \in e.ids : m \in 1..conn.next
    BY <1>0, <1>1, EnvelopeTells DEF Inv, ReadSafe
  <2> HIDE DEF e, x
  <2>2. /\ wire \in Seq(EnvType(Latest)) /\ wire' \in Seq(EnvType(Latest))
        /\ Len(wire) \in Nat /\ Len(wire') = Len(wire) + 1 /\ wire'[Len(wire) + 1] = e
        /\ \A j \in 1..Len(wire) : wire'[j] = wire[j]
    BY <1>1, <2>0, <2>1, TypeParts
  <2>3. TypeOK'
    BY <1>0, <1>1, <1>3, <2>2, TypeParts, TypeFromParts DEF past, bounds, TypeOK
  <2>4. Grows /\ NothingSkipped'
    BY <1>0, <1>1, PastKeeps, SkipKeeps
  <2>n. PICK n \in Nat : n = Len(wire)
    BY <2>2
  <2>5. ASSUME NEW i \in Seeable(1..conn.next)
        PROVE  Reached(i)' \/ InWire(i, n + 1)'
    <3>1. i \in Nat /\ log[i] \in Allowed /\ i \in 1..conn.next
      BY DEF Seeable
    <3>2. CASE Covers(e, i)
      BY <2>2, <2>n, <3>2 DEF InWire
    <3>3. CASE i <= conn.cursor
      <4>1. i \in Seeable(1..conn.cursor)
        BY <1>1, <3>1, <3>3, ConnFields DEF Seeable
      <4>2. Reached(i) \/ InWire(i, n)
        BY <1>0, <2>n, <4>1 DEF Inv, CursorSafe
      <4>3. InWire(i, n) => InWire(i, n + 1)'
        BY <2>2, <2>n DEF InWire
      <4> QED
        BY <1>1, <2>4, <3>1, <4>2, <4>3, ReachedGrows
    <3> QED
      BY <2>1, <3>2, <3>3
  <2>6. CursorSafe'
    BY <1>0, <1>3, <2>0, <2>2, <2>n, <2>5 DEF CursorSafe, Seeable
  <2>7. ASSUME NEW k \in 1..Len(wire'), NEW m \in wire'[k].ids, NEW i \in Seeable(1..m)
        PROVE  Reached(i)' \/ InWire(i, k)'
    <3>1. CASE k = Len(wire) + 1
      <4>1. m \in 1..conn.next
        BY <2>1, <2>2, <3>1
      <4>2. i \in Seeable(1..conn.next)
        BY <1>1, <4>1, ConnFields DEF Seeable
      <4> QED
        BY <2>n, <2>5, <3>1, <4>2
    <3>2. CASE k \in 1..Len(wire)
      <4>1. m \in wire[k].ids
        BY <2>2, <3>2
      <4>2. i \in Nat /\ (Reached(i) \/ InWire(i, k))
        BY <3>2, <4>1 DEF Inv, WireSafe, Seeable
      <4>3. InWire(i, k) => InWire(i, k)'
        BY <2>2, <3>2 DEF InWire
      <4> QED
        BY <1>1, <2>4, <4>2, <4>3, ReachedGrows
    <3> QED
      BY <2>2, <3>1, <3>2
  <2>8. WireSafe'
    BY <1>0, <2>7 DEF WireSafe, Seeable
  <2>9. LineInv' /\ ReadSafe'
    BY <1>0, <1>1, <1>3, ConnFields DEF LineInv, ReadSafe
  <2> QED
    BY <2>3, <2>4, <2>6, <2>8, <2>9 DEF Inv
<1> QED
  BY <1>4, <1>5

-----------------------------------------------------------------------------
(* The client's steps.                                                      *)

LEMMA ConnectKeeps == ASSUME Inv, Connect PROVE Inv'
<1>0. /\ ~online /\ online' = TRUE /\ conn' = Opened(seen)
      /\ UNCHANGED <<log, first, wire, running, seen, fetch, past, bounds>>
      /\ TypeOK /\ Latest \in Nat /\ seen \in 0..Latest
  BY TypeParts DEF Connect, Inv
<1>1. conn' \in ConnType(Latest) /\ conn'.phase = "events" /\ conn'.cursor = seen
  BY <1>0, ConnOpens
<1>2. TypeOK'
  BY <1>0, <1>1, TypeParts, TypeFromParts DEF past, bounds, TypeOK
<1>3. Grows /\ NothingSkipped' /\ WireSafe'
  BY <1>0, PastKeeps, SkipKeeps, WireKeeps
<1>4. CursorSafe'
  BY <1>0, <1>1, <1>3 DEF CursorSafe, NothingSkipped, Seeable
<1>5. LineInv' /\ ReadSafe'
  BY <1>0, <1>1, ConnFields DEF LineInv, ReadSafe
<1> QED
  BY <1>2, <1>3, <1>4, <1>5 DEF Inv

LEMMA ReceiveKeeps == ASSUME Inv, Receive PROVE Inv'
<1> DEFINE e == Head(wire)
           fresh == {i \in e.ids : i > seen}
<1>0. /\ online /\ wire # <<>> /\ wire' = Tail(wire)
      /\ handled' = handled \cup fresh /\ seen' = Max(fresh \cup {seen})
      /\ covered' = Max({covered, e.told})
      /\ UNCHANGED <<log, first, conn, online, running, fetch, fetched, bounds>>
  BY DEF Receive
<1>1. /\ TypeOK /\ Latest \in Nat /\ seen \in 0..Latest /\ covered \in 0..Latest
      /\ handled \subseteq 1..Latest /\ fetched \in 0..Latest
      /\ wire \in Seq(EnvType(Latest))
  BY TypeParts DEF Inv
<1>n. PICK n \in Nat : n = Len(wire) /\ n > 0
  BY <1>0, <1>1
<1>2. /\ e \in EnvType(Latest) /\ e = wire[1]
      /\ wire' \in Seq(EnvType(Latest)) /\ Len(wire') = n - 1
      /\ \A j \in 1..(n - 1) : wire'[j] = wire[j + 1]
  BY <1>0, <1>1, <1>n
<1> HIDE DEF e
<1>3. /\ fresh \cup {seen} \in SUBSET (0..Latest) /\ {covered, e.told} \in SUBSET (0..Latest)
      /\ fresh \subseteq 1..Latest
  BY <1>1, <1>2, EnvFields
<1>4. /\ seen' \in fresh \cup {seen}
      /\ covered' \in {covered, e.told} /\ covered <= covered' /\ e.told <= covered'
  <2> HIDE DEF fresh
  <2>1. fresh \cup {seen} # {} /\ {covered, e.told} # {}
    OBVIOUS
  <2> QED
    BY <1>0, <1>1, <1>3, <2>1, MaxBounds
<1>5. TypeOK'
  <2>1. seen' \in 0..Latest /\ covered' \in 0..Latest /\ handled' \subseteq 1..Latest
    BY <1>0, <1>1, <1>3, <1>4
  <2> QED
    BY <1>0, <1>1, <1>2, <2>1, TypeParts, TypeFromParts DEF bounds, TypeOK
<1>6. Grows
  BY <1>0, <1>1, <1>3, <1>4 DEF Grows
\* Whatever the envelope tells of has been reached by now.
<1>7. ASSUME NEW i \in Nat, i >= 1, log[i] \in Allowed, Covers(e, i) PROVE Reached(i)'
  <2>1. CASE i \in fresh
    BY <1>0, <2>1 DEF Reached
  <2>2. CASE i <= e.told
    <3>1. e.told \in Nat /\ covered' \in Nat /\ e.told <= covered'
      BY <1>1, <1>2, <1>4, <1>6, EnvFields DEF Grows
    <3>2. i <= covered'
      BY <1>7, <2>2, <3>1
    <3> QED
      BY <3>2 DEF Reached
  <2>3. CASE i <= seen
    <3>1. i \in Seeable(1..seen)
      BY <1>1, <1>7, <2>3 DEF Seeable
    <3>2. Reached(i)
      BY <3>1 DEF Inv, NothingSkipped
    <3> QED
      BY <1>1, <1>6, <3>2, ReachedGrows
  <2> QED
    BY <1>1, <1>7, <2>1, <2>2, <2>3 DEF Covers
<1>8. ASSUME NEW i \in Nat, i >= 1, log[i] \in Allowed, NEW k \in 1..n,
             Reached(i) \/ InWire(i, k)
      PROVE  Reached(i)' \/ InWire(i, k - 1)'
  <2>1. CASE Reached(i)
    BY <1>1, <1>6, <2>1, ReachedGrows
  <2>2. CASE InWire(i, k)
    <3>1. PICK j \in 1..k : Covers(wire[j], i)
      BY <2>2 DEF InWire
    <3>2. CASE j = 1
      BY <1>2, <1>7, <1>8, <3>1, <3>2
    <3>3. CASE j # 1
      <4>1. j - 1 \in 1..(k - 1) /\ j - 1 \in 1..(n - 1) /\ (j - 1) + 1 = j
        BY <3>3
      <4>2. wire'[j - 1] = wire[j]
        BY <1>2, <4>1
      <4> QED
        BY <3>1, <4>1, <4>2 DEF InWire
    <3> QED
      BY <3>2, <3>3
  <2> QED
    BY <1>8, <2>1, <2>2
<1>9. WireSafe'
  <2>1. ASSUME NEW k \in 1..(n - 1), NEW m \in wire'[k].ids, NEW i \in Seeable(1..m)
        PROVE  Reached(i)' \/ InWire(i, k)'
    <3>1. k + 1 \in 1..n /\ m \in wire[k + 1].ids /\ (k + 1) - 1 = k
      BY <1>2
    <3>2. i \in Nat /\ i >= 1 /\ log[i] \in Allowed /\ (Reached(i) \/ InWire(i, k + 1))
      BY <1>n, <3>1 DEF Inv, WireSafe, Seeable
    <3>3. Reached(i)' \/ InWire(i, (k + 1) - 1)'
      BY <1>8, <3>1, <3>2
    <3> QED
      BY <3>1, <3>3
  <2> QED
    BY <1>0, <1>2, <2>1 DEF WireSafe, Seeable
<1>10. CursorSafe'
  <2>1. ASSUME NEW i \in Seeable(1..conn.cursor)
        PROVE  Reached(i)' \/ InWire(i, n - 1)'
    <3>1. i \in Nat /\ i >= 1 /\ log[i] \in Allowed /\ (Reached(i) \/ InWire(i, n))
      BY <1>0, <1>n DEF Inv, CursorSafe, Seeable
    <3>2. n \in 1..n
      BY <1>n
    <3> QED
      BY <1>8, <3>1, <3>2
  <2> QED
    BY <1>0, <1>2, <2>1 DEF CursorSafe, Seeable
<1>11. NothingSkipped'
  <2>1. ASSUME NEW i \in Seeable(1..seen') PROVE Reached(i)'
    <3>1. i \in Nat /\ i >= 1 /\ log[i] \in Allowed /\ i <= seen'
      BY <1>1, <1>3, <1>4 DEF Seeable
    <3>2. CASE i <= seen
      BY <1>1, <1>7, <3>1, <3>2, <1>6, ReachedGrows DEF Inv, NothingSkipped, Seeable
    <3>3. CASE ~ (i <= seen)
      <4>1. seen' \in e.ids
        BY <1>1, <1>4, <3>1, <3>3
      <4>2. 1 \in 1..Len(wire) /\ seen' \in wire[1].ids /\ i \in Seeable(1..seen')
        BY <1>n, <1>2, <4>1
      <4>3. Reached(i) \/ InWire(i, 1)
        BY <4>2 DEF Inv, WireSafe
      <4>4. InWire(i, 1) => Covers(e, i)
        BY <1>2 DEF InWire
      <4> QED
        BY <1>1, <1>6, <1>7, <3>1, <4>3, <4>4, ReachedGrows
    <3> QED
      BY <3>2, <3>3
  <2> QED
    BY <1>0, <2>1 DEF NothingSkipped, Seeable
<1>12. LineInv' /\ ReadSafe'
  BY <1>0 DEF Inv, LineInv, ReadSafe
<1> QED
  BY <1>5, <1>9, <1>10, <1>11, <1>12 DEF Inv

\* A tail of the log: what lies in or before it counts as reached.
LEMMA TailKeeps ==
  ASSUME Inv, UNCHANGED <<log, first, server, online, handled, covered, bounds>>,
         running' \in BOOLEAN, fetch' \in 0..Latest, fetched' \in 0..Latest,
         fetched <= fetched', seen' = seen \/ (seen' \in 0..Latest /\ seen' <= fetched')
  PROVE  Inv'
<1>0. /\ TypeOK /\ Latest \in Nat /\ seen \in 0..Latest
      /\ UNCHANGED <<conn, wire, trims, faults>>
  BY TypeParts DEF Inv, server, bounds
<1>1. TypeOK'
  BY <1>0, TypeParts, TypeFromParts DEF TypeOK
<1>2. Grows
  BY <1>0, TypeParts DEF Grows
<1>3. WireSafe' /\ CursorSafe'
  BY <1>0, <1>2, WireKeeps, CursorKeeps
<1>4. NothingSkipped'
  <2>1. CASE seen' = seen
    BY <1>2, <2>1, SkipKeeps
  <2>2. CASE seen' \in 0..Latest /\ seen' <= fetched'
    <3>1. \A i \in 1..seen' : i <= fetched'
      BY <1>0, <2>2
    <3> QED
      BY <3>1 DEF NothingSkipped, Seeable, Reached
  <2> QED
    BY <2>1, <2>2
<1>5. LineInv' /\ ReadSafe'
  BY <1>0 DEF Inv, LineInv, ReadSafe
<1> QED
  BY <1>1, <1>3, <1>4, <1>5 DEF Inv

LEMMA NewestBound ==
  ASSUME TypeOK, Seeable(Newest) # {}
  PROVE  Max(Seeable(Newest)) \in 0..Latest
<1>1. Latest \in Nat /\ Seeable(Newest) \in SUBSET (0..Latest)
  BY TypeParts, RowsInLog DEF Seeable
<1> QED
  BY <1>1, MaxBounds

LEMMA RefreshKeeps == ASSUME Inv, RefreshAsks \/ RefreshEvents \/ Start PROVE Inv'
<1>0. /\ TypeOK /\ Latest \in Nat /\ seen \in 0..Latest /\ fetch \in 0..Latest
      /\ fetched \in 0..Latest /\ running \in BOOLEAN
  BY TypeParts DEF Inv
<1>1. CASE RefreshAsks
  <2>1. fetch' \in 0..Latest
    BY <1>0, <1>1, NewestBound DEF RefreshAsks
  <2> QED
    BY <1>0, <1>1, <2>1, TailKeeps DEF RefreshAsks, past
<1>2. CASE RefreshEvents
  <2>1. {fetched, fetch} \in SUBSET (0..Latest) /\ {fetched, fetch} # {}
    BY <1>0
  <2>2. fetched' \in {fetched, fetch} /\ fetched <= fetched' /\ fetch <= fetched'
    BY <1>0, <1>2, <2>1, MaxBounds DEF RefreshEvents
  <2>3. 0 \in 0..Latest
    BY <1>0
  <2> QED
    BY <1>0, <1>2, <2>2, <2>3, TailKeeps DEF RefreshEvents
<1>3. CASE Start
  <2>1. PICK ids \in {Seeable(Newest), {}} :
          /\ seen' = IF ids = {} THEN seen ELSE Max(ids)
          /\ fetched' = Max(ids \cup {fetched})
    BY <1>3 DEF Start
  <2>2. ids \in SUBSET (0..Latest)
    BY <1>0, RowsInLog DEF Seeable
  <2>3. /\ fetched' \in 0..Latest /\ fetched <= fetched'
        /\ \A i \in ids : i <= fetched'
    <3>1. ids \cup {fetched} \in SUBSET (0..Latest) /\ ids \cup {fetched} # {}
      BY <1>0, <2>2
    <3>2. fetched' \in ids \cup {fetched} /\ \A i \in ids \cup {fetched} : i <= fetched'
      BY <1>0, <2>1, <3>1, MaxBounds
    <3> QED
      BY <3>1, <3>2
  <2>4. seen' = seen \/ (seen' \in 0..Latest /\ seen' <= fetched')
    <3>1. CASE ids # {}
      BY <1>0, <2>1, <2>2, <2>3, <3>1, MaxBounds
    <3> QED
      BY <2>1, <3>1
  <2>5. /\ UNCHANGED <<log, first, server, online, handled, covered, bounds>>
        /\ fetch' = fetch /\ running' \in BOOLEAN
    BY <1>3 DEF Start
  <2> QED
    BY <1>0, <2>3, <2>4, <2>5, TailKeeps
<1> QED
  BY <1>1, <1>2, <1>3

-----------------------------------------------------------------------------
(* The log and the failures.                                                *)

LEMMA LogGrows ==
  ASSUME Inv, NEW a \in Agents, LogEvent(a) PROVE Inv'
<1>0. /\ Latest < MaxEvents /\ log' = Append(log, a)
      /\ UNCHANGED <<first, server, online, running, seen, fetch, past, bounds>>
      /\ UNCHANGED <<conn, wire, handled, fetched, covered, trims, faults>>
  BY DEF LogEvent, server, past, bounds
<1>1. TypeOK
  BY DEF Inv
<1>n. PICK n \in Nat : n = Latest
  BY <1>1, TypeParts
<1>2. /\ log' \in Seq(Agents) /\ Latest' = n + 1 /\ Latest' <= MaxEvents
      /\ \A i \in 1..n : log'[i] = log[i]
  BY <1>0, <1>1, <1>n, TypeParts, BoundAssumption DEF Latest
<1>3. conn = Closed \/ conn \in ConnType(n + 1)
  BY <1>1, <1>n, TypeParts, ConnGrows
<1>4. wire \in Seq(EnvType(n + 1))
  <2>1. wire \in Seq(EnvType(n)) /\ \A e \in EnvType(n) : e \in EnvType(n + 1)
    BY <1>1, <1>n, TypeParts, EnvGrows
  <2> QED
    BY <2>1
<1>5. TypeOK'
  <2>1. /\ conn' = Closed \/ conn' \in ConnType(Latest')
        /\ wire' \in Seq(EnvType(Latest'))
    BY <1>0, <1>2, <1>3, <1>4
  <2>2. /\ seen' \in 0..Latest' /\ fetch' \in 0..Latest' /\ handled' \subseteq 1..Latest'
        /\ fetched' \in 0..Latest' /\ covered' \in 0..Latest'
    <3>1. /\ seen \in 0..n /\ fetch \in 0..n /\ handled \subseteq 1..n
          /\ fetched \in 0..n /\ covered \in 0..n
      BY <1>1, <1>n, TypeParts
    <3>2. 0..n \subseteq 0..(n + 1) /\ 1..n \subseteq 1..(n + 1)
      OBVIOUS
    <3> QED
      BY <1>0, <1>2, <3>1, <3>2
  <2>3. /\ online' \in BOOLEAN /\ running' \in BOOLEAN /\ first' \in 1..(MaxEvents + 1)
        /\ trims' \in 0..MaxTrims /\ faults' \in 0..MaxFaults
    BY <1>0, <1>1 DEF TypeOK
  <2> QED
    BY <1>2, <2>1, <2>2, <2>3 DEF TypeOK, ConnType, EnvType
\* No event that was there is another now.
<1>6. \A x \in 0..n : Seeable(1..x)' = Seeable(1..x)
  BY <1>2 DEF Seeable
<1>7. \A i : Reached(i)' <=> Reached(i)
  BY <1>0 DEF Reached
<1>8. \A i, k : InWire(i, k)' <=> InWire(i, k)
  BY <1>0 DEF InWire
<1>9. NothingSkipped'
  <2>1. seen \in 0..n
    BY <1>1, <1>n, TypeParts
  <2>2. \A i \in Seeable(1..seen) : Reached(i)
    BY DEF Inv, NothingSkipped
  <2> QED
    BY <1>0, <1>6, <1>7, <2>1, <2>2 DEF NothingSkipped
<1>10. WireSafe'
  <2>1. ASSUME NEW k \in 1..Len(wire), NEW m \in wire[k].ids, NEW i \in Seeable(1..m)'
        PROVE  Reached(i)' \/ InWire(i, k)'
    <3>1. m \in 0..n
      <4>1. wire[k] \in EnvType(n)
        BY <1>1, <1>n, TypeParts
      <4> QED
        BY <4>1, EnvFields
    <3>2. i \in Seeable(1..m)
      BY <1>6, <3>1
    <3> QED
      BY <1>7, <1>8, <3>2 DEF Inv, WireSafe
  <2> QED
    BY <1>0, <2>1 DEF WireSafe
<1>11. CursorSafe'
  <2>1. ASSUME online, NEW i \in Seeable(1..conn.cursor)'
        PROVE  Reached(i)' \/ InWire(i, Len(wire))'
    <3>1. conn.cursor \in 0..n
      <4>1. conn \in ConnType(n)
        BY <1>1, <1>n, <2>1, TypeParts DEF Inv, LineInv
      <4> QED
        BY <4>1, ConnFields
    <3>2. i \in Seeable(1..conn.cursor)
      BY <1>0, <1>6, <3>1, <2>1
    <3> QED
      BY <1>0, <1>7, <1>8, <2>1, <3>2 DEF Inv, CursorSafe
  <2> QED
    BY <1>0, <2>1 DEF CursorSafe
<1>12. LineInv' /\ ReadSafe'
  BY <1>0 DEF Inv, LineInv, ReadSafe, Page
<1> QED
  BY <1>5, <1>9, <1>10, <1>11, <1>12 DEF Inv

\* A connection that ends takes what is on the wire with it.
LEMMA LossKeeps ==
  ASSUME Inv, UNCHANGED <<log, first, seen, past>>, running' \in BOOLEAN,
         conn' = conn \/ conn' = Closed,
         online' = FALSE, wire' = <<>>, fetch' = fetch \/ fetch' = 0,
         Fault \/ UNCHANGED bounds
  PROVE  Inv'
<1>0. /\ TypeOK /\ Latest \in Nat /\ trims' = trims
      /\ UNCHANGED <<handled, fetched, covered>>
  BY TypeParts DEF Inv, Fault, past, bounds
<1>1. faults' \in 0..MaxFaults /\ 0 \in 0..Latest /\ fetch \in 0..Latest
  BY <1>0, TypeParts, BoundAssumption DEF Fault, bounds
<1>2. TypeOK'
  <2>1. /\ wire' \in Seq(EnvType(Latest)) /\ fetch' \in 0..Latest
        /\ conn' = Closed \/ conn' \in ConnType(Latest)
    BY <1>0, <1>1, TypeParts
  <2>2. first' \in 1..(MaxEvents + 1)
    BY <1>0 DEF TypeOK
  <2> QED
    BY <1>0, <1>1, <2>1, <2>2, TypeParts, TypeFromParts
<1>3. NothingSkipped'
  BY <1>0, PastKeeps, SkipKeeps
<1>4. WireSafe' /\ CursorSafe' /\ LineInv'
  BY DEF WireSafe, CursorSafe, LineInv
<1>5. ReadSafe'
  BY DEF Inv, ReadSafe, Closed
<1> QED
  BY <1>2, <1>3, <1>4, <1>5 DEF Inv

\* An id that is stranded has no connection, and nothing was read for it.
LEMMA ConnectFailsKeeps == ASSUME Inv, ConnectFails PROVE Inv'
<1> DEFINE s == [Opened(0) EXCEPT !.phase = "stranded"]
<1>0. /\ ~online /\ conn' = s /\ faults < MaxFaults /\ faults' = faults + 1 /\ trims' = trims
      /\ UNCHANGED <<log, first, wire, online, running, seen, fetch, past>>
      /\ UNCHANGED <<handled, fetched, covered>>
      /\ TypeOK /\ Latest \in Nat
  BY TypeParts DEF ConnectFails, Fault, past, Inv
<1>1. s \in ConnType(Latest) /\ s.phase = "stranded"
  <2>1. 0 \in 0..Latest
    BY <1>0
  <2> QED
    BY <2>1 DEF Opened, ConnType
<1> HIDE DEF s
<1>2. faults' \in 0..MaxFaults
  BY <1>0, TypeParts, BoundAssumption
<1>3. TypeOK'
  <2>1. conn' \in ConnType(Latest) /\ first' \in 1..(MaxEvents + 1)
    BY <1>0, <1>1 DEF TypeOK
  <2> QED
    BY <1>0, <1>2, <2>1, TypeParts, TypeFromParts
<1>4. NothingSkipped' /\ WireSafe'
  BY <1>0, PastKeeps, SkipKeeps, WireKeeps
<1>5. CursorSafe' /\ LineInv' /\ ReadSafe'
  BY <1>0, <1>1 DEF Inv, CursorSafe, LineInv, ReadSafe
<1> QED
  BY <1>3, <1>4, <1>5 DEF Inv

LEMMA TrimKeeps == ASSUME Inv, Trim PROVE Inv'
<1>0. /\ TypeOK /\ Latest \in Nat /\ first \in Nat /\ 1 <= first /\ Latest <= MaxEvents
      /\ UNCHANGED <<log, conn, wire, online, running, seen, fetch, past, faults>>
      /\ UNCHANGED <<handled, fetched, covered>>
      /\ trims < MaxTrims /\ trims' = trims + 1
  BY TypeParts DEF Inv, Trim, server, past
<1>1. first' \in 1..(MaxEvents + 1) /\ trims' \in 0..MaxTrims
  BY <1>0, TypeParts, BoundAssumption DEF Trim
<1>2. TypeOK'
  BY <1>0, <1>1, TypeParts, TypeFromParts
<1>3. Grows
  BY <1>0, PastKeeps
<1>4. NothingSkipped' /\ WireSafe' /\ CursorSafe'
  BY <1>0, <1>3, SkipKeeps, WireKeeps, CursorKeeps
<1>5. LineInv' /\ ReadSafe'
  BY <1>0 DEF Inv, LineInv, ReadSafe
<1> QED
  BY <1>2, <1>4, <1>5 DEF Inv

LEMMA StutterKeeps == ASSUME Inv, UNCHANGED vars PROVE Inv'
<1>1. /\ UNCHANGED <<log, first, server, online, running, seen, fetch, past, bounds>>
      /\ UNCHANGED <<handled, covered, fetched>> /\ TypeOK
  BY DEF vars, past, Inv
<1>2. fetched' \in 0..Latest /\ fetched <= fetched' /\ fetch' \in 0..Latest /\ running' \in BOOLEAN
  BY <1>1, TypeParts
<1> QED
  BY <1>1, <1>2, TailKeeps

LEMMA InvStep == Inv /\ [Next]_vars => Inv'
<1> SUFFICES ASSUME Inv, [Next]_vars PROVE Inv'
  OBVIOUS
<1>1. CASE Serves
  BY <1>1, ReadEventsKeeps, ReadStateKeeps, SendKeeps, PollKeeps DEF Serves
<1>2. CASE LoseConnection \/ RestartDaemon \/ Quit
  <2>1. running \in BOOLEAN
    BY TypeParts DEF Inv
  <2> QED
    BY <1>2, <2>1, LossKeeps DEF LoseConnection, RestartDaemon, Quit
<1> QED
  BY <1>1, <1>2, ConnectKeeps, ReceiveKeeps, RefreshKeeps, LogGrows, TrimKeeps, ConnectFailsKeeps,
     StutterKeeps
     DEF Next

-----------------------------------------------------------------------------
(* The theorems.                                                            *)

THEOREM Invariance == Spec => []Inv
  BY InvInit, InvStep, PTL DEF Spec

\* Every variable has its type: no cursor, snapshot, envelope or id of the
\* client is beyond the log.
THEOREM TypesHold == Spec => []TypeOK
<1>1. Inv => TypeOK
  BY DEF Inv
<1> QED
  BY <1>1, Invariance, PTL

\* Nothing the client may see is passed over in silence, for any size of an
\* envelope, any token's scope and any number of removals, lost connections and
\* restarts.
THEOREM NothingSkippedHolds == Spec => []NothingSkipped
<1>1. Inv => NothingSkipped
  BY DEF Inv
<1> QED
  BY <1>1, Invariance, PTL
=============================================================================
