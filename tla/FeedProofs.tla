----------------------------- MODULE FeedProofs -----------------------------
(***************************************************************************)
(* The table shows the state and every batch update fits, for any thoughts. *)
(***************************************************************************)
EXTENDS Feed, TLAPS, SequenceTheorems, FiniteSetTheorems

-----------------------------------------------------------------------------
(* Lists.                                                                  *)

LEMMA Inserted ==
    ASSUME NEW s \in Seq(Thoughts), NEW i \in 1..(Len(s) + 1), NEW t \in Thoughts
    PROVE  /\ InsertAt(s, i, t) \in Seq(Thoughts)
           /\ Len(InsertAt(s, i, t)) = Len(s) + 1
           /\ InsertAt(s, i, t)[i] = t
           /\ \A k \in 1..(i - 1) : InsertAt(s, i, t)[k] = s[k]
           /\ \A k \in (i + 1)..(Len(s) + 1) : InsertAt(s, i, t)[k] = s[k - 1]
<1> DEFINE a == SubSeq(s, 1, i - 1)
           b == SubSeq(s, i, Len(s))
<1>1. a \in Seq(Thoughts) /\ Len(a) = i - 1 /\ \A k \in 1..(i - 1) : a[k] = s[k]
  OBVIOUS
<1>2. b \in Seq(Thoughts) /\ Len(b) = Len(s) + 1 - i
      /\ \A k \in 1..(Len(s) + 1 - i) : b[k] = s[k + i - 1]
  OBVIOUS
<1>3. InsertAt(s, i, t) = a \o <<t>> \o b
  BY DEF InsertAt
<1> HIDE DEF a, b
<1> DEFINE c == a \o <<t>>
<1>4. c \in Seq(Thoughts) /\ Len(c) = i /\ c[i] = t /\ \A k \in 1..(i - 1) : c[k] = s[k]
  BY <1>1
<1> HIDE DEF c
<1> DEFINE r == c \o b
<1>5. r = InsertAt(s, i, t)
  BY <1>3 DEF c
<1>0. Len(s) \in Nat /\ i \in Nat
  OBVIOUS
<1>6. r \in Seq(Thoughts) /\ Len(r) = Len(s) + 1
  <2>0. c \in Seq(Thoughts) /\ b \in Seq(Thoughts)
    BY <1>2, <1>4
  <2>1. r \in Seq(Thoughts) /\ Len(r) = Len(c) + Len(b)
    BY <2>0, ConcatProperties
  <2> QED
    BY <2>1, <1>0, <1>2, <1>4
<1>7. \A k \in 1..i : r[k] = c[k]
  BY <1>2, <1>4
<1>8. \A k \in (i + 1)..(Len(s) + 1) : r[k] = b[k - i]
  BY <1>2, <1>4
<1> HIDE DEF r
<1>9. ASSUME NEW k \in (i + 1)..(Len(s) + 1)
      PROVE  r[k] = s[k - 1]
  <2>1. k - i \in 1..(Len(s) + 1 - i) /\ (k - i) + i - 1 = k - 1
    BY <1>0
  <2> QED
    BY <1>2, <1>8, <2>1
<1> QED
  BY <1>4, <1>5, <1>6, <1>7, <1>9

LEMMA InsertedAs ==
    ASSUME NEW s \in Seq(Thoughts), NEW i \in 1..(Len(s) + 1), NEW t \in Thoughts,
           NEW d, d = InsertAt(s, i, t)
    PROVE  /\ d \in Seq(Thoughts) /\ Len(d) = Len(s) + 1 /\ d[i] = t /\ Len(s) \in Nat
           /\ \A k \in 1..(i - 1) : d[k] = s[k]
           /\ \A k \in (i + 1)..(Len(s) + 1) : d[k] = s[k - 1]
<1>1. Len(s) \in Nat
  OBVIOUS
<1> DEFINE e == InsertAt(s, i, t)
<1>2. /\ e \in Seq(Thoughts) /\ Len(e) = Len(s) + 1 /\ e[i] = t
      /\ \A k \in 1..(i - 1) : e[k] = s[k]
      /\ \A k \in (i + 1)..(Len(s) + 1) : e[k] = s[k - 1]
  BY Inserted
<1> HIDE DEF e
<1>3. d = e
  BY DEF e
<1> QED
  BY <1>1, <1>2, <1>3

LEMMA Sets ==
    ASSUME NEW s \in Seq(Thoughts)
    PROVE  /\ ToSet(s) = {s[k] : k \in 1..Len(s)}
           /\ \A t : Contains(s, t) <=> \E k \in 1..Len(s) : s[k] = t
           /\ \A t : Contains(s, t) <=> t \in ToSet(s)
  BY DEF ToSet, Contains

\* What Update makes of one inserted object.
LEMMA InsertUpdate ==
    ASSUME NEW s \in Seq(Thoughts), NEW i \in 1..(Len(s) + 1), NEW t \in Thoughts,
           t \notin ToSet(s), NEW d, d = InsertAt(s, i, t)
    PROVE  /\ Update(s, d).del = {} /\ Update(s, d).ins = {i}
           /\ Update(s, d).list = d /\ Update(s, d).kind = "update"
<1>0. d \in Seq(Thoughts) /\ Len(d) = Len(s) + 1 /\ d[i] = t /\ Len(s) \in Nat
      /\ (\A k \in 1..(i - 1) : d[k] = s[k])
      /\ (\A k \in (i + 1)..(Len(s) + 1) : d[k] = s[k - 1])
  BY InsertedAs, SMTT(60)
<1>1. ASSUME NEW k \in DOMAIN s
      PROVE  Contains(d, s[k])
  <2>1. CASE k < i
    <3>1. k \in 1..Len(d) /\ d[k] = s[k]
      BY <1>0, <2>1
    <3> QED
      BY <1>0, <3>1, Sets
  <2>2. CASE k >= i
    <3>1. k + 1 \in 1..Len(d) /\ k + 1 \in (i + 1)..(Len(s) + 1) /\ (k + 1) - 1 = k
      BY <1>0, <2>2
    <3>2. d[k + 1] = s[k]
      BY <1>0, <3>1
    <3> QED
      BY <1>0, <3>1, <3>2, Sets
  <2> QED
    BY <2>1, <2>2
<1>2. ASSUME NEW k \in DOMAIN d
      PROVE  ~Contains(s, d[k]) <=> k = i
  <2>1. CASE k = i
    BY <1>0, <2>1, Sets
  <2>2. CASE k < i
    <3>1. k \in 1..Len(s) /\ d[k] = s[k]
      BY <1>0, <2>2
    <3> QED
      BY <2>2, <3>1, Sets
  <2>3. CASE k > i
    <3>1. k - 1 \in 1..Len(s) /\ d[k] = s[k - 1]
      BY <1>0, <2>3
    <3> QED
      BY <2>3, <3>1, Sets
  <2> QED
    BY <1>0, <2>1, <2>2, <2>3
<1>3. i \in DOMAIN d
  BY <1>0
<1> QED
  BY <1>1, <1>2, <1>3 DEF Update

\* What Update makes of the database being emptied.
LEMMA ClearUpdate ==
    ASSUME NEW s \in Seq(Thoughts)
    PROVE  /\ Update(s, <<>>).del = DOMAIN s /\ Update(s, <<>>).ins = {}
           /\ Update(s, <<>>).list = <<>> /\ Update(s, <<>>).kind = "update"
<1>1. \A x : ~Contains(<<>>, x)
  BY DEF Contains
<1>2. {k \in DOMAIN s : ~Contains(<<>>, s[k])} = DOMAIN s
  BY <1>1
<1>3. {k \in DOMAIN <<>> : ~Contains(s, <<>>[k])} = {}
  OBVIOUS
<1> QED
  BY <1>2, <1>3 DEF Update

LEMMA Counted ==
    ASSUME NEW n \in Nat
    PROVE  IsFiniteSet(1..n) /\ Cardinality(1..n) = n
  BY FS_Interval

\* A batch update of one insertion, in whatever table it is applied to.
LEMMA InsertIntoTable ==
    ASSUME NEW s \in Seq(Thoughts), NEW i \in 1..(Len(s) + 1), NEW t \in Thoughts,
           NEW p, p.del = {}, p.ins = {i}, p.list[i] = t
    PROVE  batch(s, p) = InsertAt(s, i, t)
<1>1. PICK d : d = InsertAt(s, i, t)
  OBVIOUS
<1>2. Cardinality(p.del) = 0 /\ Cardinality(p.ins) = 1
  BY FS_EmptySet, FS_Singleton
<1>3. /\ d \in Seq(Thoughts) /\ Len(d) = Len(s) + 1 /\ d[i] = t /\ Len(s) \in Nat
      /\ \A k \in 1..(i - 1) : d[k] = s[k]
      /\ \A k \in (i + 1)..(Len(s) + 1) : d[k] = s[k - 1]
  BY ONLY <1>1, InsertedAs, SMTT(60)
<1> DEFINE rank(j) == Cardinality({k \in DOMAIN s \ p.del : k <= j})
           at(j) == CHOOSE m \in DOMAIN s \ p.del : rank(m) = j
           kept == [j \in 1..(Len(s) - Cardinality(p.del)) |-> s[at(j)]]
           before(j) == Cardinality({k \in p.ins : k < j})
<1>5. \A j \in DOMAIN s : rank(j) = j
  <2> SUFFICES ASSUME NEW j \in DOMAIN s PROVE rank(j) = j
    OBVIOUS
  <2>1. {k \in DOMAIN s \ p.del : k <= j} = 1..j
    OBVIOUS
  <2>2. j \in Nat
    OBVIOUS
  <2> QED
    BY <2>1, <2>2, Counted
<1> HIDE DEF rank
<1>6. \A j \in DOMAIN s : at(j) = j
  BY <1>5
<1> HIDE DEF at
<1>7. kept = s
  BY <1>2, <1>6
<1>8. \A j \in 1..(Len(s) + 1) : before(j) = IF i < j THEN 1 ELSE 0
  <2> SUFFICES ASSUME NEW j \in 1..(Len(s) + 1)
               PROVE  before(j) = IF i < j THEN 1 ELSE 0
    OBVIOUS
  <2>1. {k \in p.ins : k < j} = IF i < j THEN {i} ELSE {}
    OBVIOUS
  <2> QED
    BY <2>1, FS_EmptySet, FS_Singleton
<1> HIDE DEF before
<1> DEFINE b == [j \in 1..(Len(kept) + Cardinality(p.ins)) |->
                    IF j \in p.ins THEN p.list[j] ELSE kept[j - before(j)]]
<1>9. batch(s, p) = b
  BY DEF batch, rank, at, before
<1> HIDE DEF kept
<1>10. ASSUME NEW j \in 1..(Len(s) + 1)
       PROVE  b[j] = d[j]
  <2>1. b[j] = IF j = i THEN d[i] ELSE s[j - before(j)]
    BY <1>2, <1>3, <1>7
  <2>2. CASE j = i
    BY <2>1, <2>2
  <2>3. CASE j < i
    BY <1>3, <1>8, <2>1, <2>3
  <2>4. CASE j > i
    BY <1>3, <1>8, <2>1, <2>4
  <2> QED
    BY <2>2, <2>3, <2>4
<1>11. DOMAIN b = 1..(Len(s) + 1) /\ DOMAIN d = 1..(Len(s) + 1)
  BY <1>2, <1>3, <1>7
<1>12. b = d
  <2>1. d = [j \in DOMAIN d |-> d[j]]
    BY <1>3
  <2>2. b = [j \in DOMAIN b |-> b[j]]
    OBVIOUS
  <2> HIDE DEF b
  <2> QED
    BY <1>10, <1>11, <2>1, <2>2
<1> QED
  BY <1>1, <1>9, <1>12

\* It fits the tables of one length.
LEMMA InsertBatch ==
    ASSUME NEW s \in Seq(Thoughts), NEW i \in 1..(Len(s) + 1), NEW t \in Thoughts,
           t \notin ToSet(s), NEW d, d = InsertAt(s, i, t)
    PROVE  /\ batchIsValid(s, Update(s, d))
           /\ ~batchIsValid(d, Update(s, d))
           /\ \A table \in Seq(Thoughts) :
                batchIsValid(table, Update(s, d)) => /\ Len(table) = Len(s)
                                                    /\ batch(table, Update(s, d)) = InsertAt(table, i, t)
<1>1. PICK p : p = Update(s, d)
  OBVIOUS
<1>2. p.del = {} /\ p.ins = {i} /\ p.list = d
  BY <1>1, InsertUpdate
<1>3. Cardinality(p.del) = 0 /\ Cardinality(p.ins) = 1
  BY <1>2, FS_EmptySet, FS_Singleton
<1>4. d \in Seq(Thoughts) /\ Len(d) = Len(s) + 1 /\ d[i] = t /\ Len(s) \in Nat
  BY InsertedAs
<1>5. batchIsValid(s, p) /\ ~batchIsValid(d, p)
  BY <1>2, <1>3, <1>4 DEF batchIsValid
<1>6. ASSUME NEW table \in Seq(Thoughts), batchIsValid(table, p)
      PROVE  Len(table) = Len(s) /\ batch(table, p) = InsertAt(table, i, t)
  <2>1. PICK n \in Nat : n = Len(table)
    OBVIOUS
  <2>2. n = Len(s)
    BY <1>2, <1>3, <1>4, <1>6, <2>1 DEF batchIsValid
  <2>3. batch(table, p) = InsertAt(table, i, t)
    BY <1>2, <1>4, <2>1, <2>2, InsertIntoTable
  <2> QED
    BY <2>1, <2>2, <2>3
<1> QED
  BY <1>1, <1>5, <1>6

LEMMA ClearBatch ==
    ASSUME NEW s \in Seq(Thoughts), s # <<>>
    PROVE  /\ batchIsValid(s, Update(s, <<>>))
           /\ ~batchIsValid(<<>>, Update(s, <<>>))
           /\ \A table \in Seq(Thoughts) :
                batchIsValid(table, Update(s, <<>>)) => batch(table, Update(s, <<>>)) = <<>>
<1>0. PICK p : p = Update(s, <<>>)
  OBVIOUS
<1>1. p.del = 1..Len(s) /\ p.ins = {} /\ p.list = <<>> /\ Len(s) # 0
  BY <1>0, ClearUpdate
<1>2. Cardinality(p.del) = Len(s) /\ Cardinality(p.ins) = 0
  BY <1>1, Counted, FS_EmptySet
<1>3. batchIsValid(s, p) /\ ~batchIsValid(<<>>, p)
  BY <1>1, <1>2 DEF batchIsValid
<1>4. ASSUME NEW table \in Seq(Thoughts), batchIsValid(table, p)
      PROVE  batch(table, p) = <<>>
  <2> DEFINE kept == [j \in 1..(Len(table) - Cardinality(p.del)) |->
                        table[CHOOSE m \in DOMAIN table \ p.del :
                                Cardinality({k \in DOMAIN table \ p.del : k <= m}) = j]]
             b == [j \in 1..(Len(kept) + Cardinality(p.ins)) |->
                    IF j \in p.ins THEN p.list[j] ELSE kept[j - Cardinality({k \in p.ins : k < j})]]
  <2>1. Len(table) - Cardinality(p.del) = 0
    BY <1>1, <1>2, <1>4 DEF batchIsValid
  <2>2. kept = <<>>
    BY <2>1
  <2>3. batch(table, p) = b
    BY DEF batch
  <2> HIDE DEF kept
  <2>4. b = <<>>
    BY <1>2, <2>2
  <2> QED
    BY <2>3, <2>4
<1> QED
  BY <1>0, <1>3, <1>4

-----------------------------------------------------------------------------
(* The inductive invariant.                                                *)

\* The database is at most one write ahead of what the observer was told: every
\* write delivers first what is due.
OneWriteAhead(old, new) ==
    \/ new = old
    \/ new = <<>>
    \/ \E i \in 1..(Len(old) + 1), t \in Thoughts :
        t \notin ToSet(old) /\ new = InsertAt(old, i, t)

\* A change in the state does not fit a table that has just loaded its rows from
\* the same state.
IsPayload(p) ==
    \/ p = Nil
    \/ p = Error
    \/ \E l \in Seq(Thoughts) : p = Initial(l)
    \/ \E old, l \in Seq(Thoughts) : p = Update(old, l) /\ ~batchIsValid(l, p)

isUpdate(p) == p # Nil /\ p.kind = "update"

Shape ==
    /\ db \in Seq(Thoughts)
    /\ session \in BOOLEAN /\ observing \in BOOLEAN /\ late \in BOOLEAN
    /\ screen \in {"auth", "presenting", "feed", "leaving", "crashed"}
    /\ IsPayload(payload)
    /\ seen = Nil \/ seen \in Seq(Thoughts)
    /\ screen = "feed" \/ (screen = "leaving" /\ ~late) => rows \in Seq(Thoughts)

\* Who observes, and who is logged in, on which screen.
Screens ==
    /\ observing => screen \in {"feed", "leaving", "crashed"}
    /\ screen \in {"presenting", "feed"} => session
    /\ screen = "leaving" /\ ~late => ~session
    /\ screen \in {"auth", "presenting", "leaving"} /\ ~late => ~isUpdate(payload)

Ahead == observing /\ seen # Nil => OneWriteAhead(seen, db)

ToldIsNoError == screen = "feed" /\ observing /\ seen # Nil => payload # Error

FeedInv ==
    /\ Shape /\ Screens /\ Ahead /\ ToldIsNoError
    /\ TableShowsState /\ StateHoldsStoredThoughts /\ ObserverMatchesState /\ BatchUpdatesFit

-----------------------------------------------------------------------------
(* Payloads and the table.                                                 *)

LEMMA Payload ==
    ASSUME NEW l \in Seq(Thoughts), NEW old \in Seq(Thoughts)
    PROVE  /\ Initial(l) # Nil /\ Initial(l).kind = "initial" /\ Initial(l).list = l
           /\ Update(old, l) # Nil /\ Update(old, l).kind = "update" /\ Update(old, l).list = l
           /\ Error # Nil /\ Error.kind = "error" /\ Error.list = <<>>
<1>1. Initial(l) \in [kind: {"initial", "update", "error"}, list: Seq(Thoughts),
                      del: SUBSET Nat, ins: SUBSET Nat]
  BY DEF Initial
<1>2. Update(old, l) \in [kind: {"initial", "update", "error"}, list: Seq(Thoughts),
                          del: SUBSET Nat, ins: SUBSET Nat]
  BY DEF Update
<1>3. Error \in [kind: {"initial", "update", "error"}, list: Seq(Thoughts),
                 del: SUBSET Nat, ins: SUBSET Nat]
  BY DEF Error
<1> QED
  BY <1>1, <1>2, <1>3, NilAssumption DEF Initial, Update, Error

LEMMA Table ==
    ASSUME NEW l \in Seq(Thoughts), NEW old \in Seq(Thoughts), NEW table
    PROVE  /\ newState(table, Initial(l)) = l
           /\ newState(table, Nil) = table /\ newState(table, Error) = table
           /\ newState(table, Update(old, l)) =
                IF batchIsValid(table, Update(old, l)) THEN batch(table, Update(old, l)) ELSE Nil
           /\ thoughts(Initial(l)) = l /\ thoughts(Update(old, l)) = l
           /\ thoughts(Nil) = <<>> /\ thoughts(Error) = <<>>
  BY Payload DEF newState, thoughts

\* The change from what the observer was told to one write ahead of it.
LEMMA OneWriteUpdate ==
    ASSUME NEW old \in Seq(Thoughts), NEW new \in Seq(Thoughts), OneWriteAhead(old, new),
           new # old
    PROVE  /\ batchIsValid(old, Update(old, new)) /\ ~batchIsValid(new, Update(old, new))
           /\ batch(old, Update(old, new)) = new
<1>1. CASE new = <<>>
  <2>1. old # <<>>
    BY <1>1
  <2> QED
    BY <1>1, <2>1, ClearBatch
<1>2. CASE \E i \in 1..(Len(old) + 1), t \in Thoughts :
                t \notin ToSet(old) /\ new = InsertAt(old, i, t)
  BY <1>2, InsertBatch
<1> QED
  BY <1>1, <1>2 DEF OneWriteAhead

LEMMA PayloadList ==
    ASSUME NEW p, IsPayload(p)
    PROVE  thoughts(p) \in Seq(Thoughts)
<1>1. <<>> \in Seq(Thoughts)
  OBVIOUS
<1>2. CASE p = Nil \/ p = Error
  BY <1>1, <1>2, Table
<1>3. CASE \E l \in Seq(Thoughts) : p = Initial(l)
  BY <1>3, Table
<1>4. CASE \E old, l \in Seq(Thoughts) : p = Update(old, l) /\ ~batchIsValid(l, p)
  BY <1>4, Table
<1> QED
  BY <1>2, <1>3, <1>4 DEF IsPayload

\* What is told is a list the state can hold, and no more than what is stored.
LEMMA Observed ==
    ASSUME FeedInv, due, running
    PROVE  /\ IsPayload(observed)
           /\ observed = payload \/ (thoughts(observed) = db /\ observed # Error)
           /\ ~session => observed = payload \/ ~isUpdate(observed)
<1> USE DEF FeedInv, Shape
<1>1. CASE seen = Nil
  BY <1>1, Table, Payload DEF observed, IsPayload, isUpdate
<1>2. CASE seen # Nil /\ session
  <2>1. observed = Update(seen, db)
    BY <1>2 DEF observed
  <2>2. ~batchIsValid(db, Update(seen, db))
    BY <1>2, OneWriteUpdate DEF due, Ahead
  <2> QED
    BY <1>2, <2>1, <2>2, Table, Payload DEF IsPayload
<1>3. CASE seen # Nil /\ ~session
  BY <1>3 DEF observed
<1> QED
  BY <1>1, <1>2, <1>3

\* On the feed the notification fits: the table shows the database after it.
LEMMA ShownOnFeed ==
    ASSUME FeedInv, due, screen = "feed"
    PROVE  /\ shown = db /\ shown # Nil
           /\ thoughts(observed) = db /\ observed # Error
<1> USE DEF FeedInv, Shape
<1>1. session
  BY DEF Screens
<1>2. db # Nil /\ db \in Seq(Thoughts)
  BY NilAssumption
<1>3. CASE seen = Nil
  <2>1. observed = Initial(db)
    BY <1>3 DEF observed
  <2>2. thoughts(observed) = db /\ observed # Error
    BY <1>2, <2>1, Table, Payload
  <2>3. observed = payload => rows = db
    BY <2>2 DEF TableShowsState
  <2>4. newState(rows, observed) = db
    BY <1>2, <2>1, Table
  <2> QED
    BY <1>2, <2>2, <2>3, <2>4 DEF shown
<1>4. CASE seen # Nil
  <2>1. observed = Update(seen, db) /\ seen \in Seq(Thoughts)
    BY <1>1, <1>4 DEF observed
  <2>2. thoughts(observed) = db /\ observed # Error
    BY <1>2, <2>1, Table, Payload
  <2>3. observing /\ seen # db
    BY DEF due
  <2>4. payload # Error /\ seen = thoughts(payload)
    BY <1>4, <2>3 DEF ToldIsNoError, ObserverMatchesState
  <2>5. rows = seen
    BY <2>4 DEF TableShowsState
  <2>6. batchIsValid(rows, observed) /\ batch(rows, observed) = db
    BY <1>2, <1>4, <2>1, <2>3, <2>5, OneWriteUpdate DEF Ahead
  <2>7. newState(rows, observed) = db
    BY <1>2, <2>1, <2>6, Table
  <2>8. observed # payload
    BY <2>2, <2>3, <2>4
  <2> QED
    BY <1>2, <2>2, <2>7, <2>8 DEF shown
<1> QED
  BY <1>3, <1>4

\* While the feed is dismissed, and nobody has signed in, the table may be
\* reloaded but gets no batch update.
LEMMA ShownWhileLeaving ==
    ASSUME FeedInv, due, screen = "leaving", ~late
    PROVE  shown \in Seq(Thoughts) /\ shown # Nil
<1> USE DEF FeedInv, Shape
<1>1. ~session /\ rows \in Seq(Thoughts)
  BY DEF Screens
<1>2. observed = payload \/ observed = Initial(db)
  BY <1>1 DEF observed
<1>3. shown \in {rows, db}
  BY <1>2, Table DEF shown
<1> QED
  BY <1>1, <1>3, NilAssumption
-----------------------------------------------------------------------------
(* Steps.                                                                  *)

LEMMA LastPayload ==
    ASSUME FeedInv, running
    PROVE  /\ IsPayload(lastPayload)
           /\ ToSet(thoughts(lastPayload)) \subseteq ToSet(db)
           /\ screen \in {"auth", "presenting", "leaving"} /\ ~late => ~isUpdate(lastPayload)
<1> USE DEF FeedInv, Shape
<1>1. ToSet(thoughts(payload)) \subseteq ToSet(db)
  BY DEF StateHoldsStoredThoughts
<1>2. CASE due
  <2>1. lastPayload = observed
    BY <1>2 DEF lastPayload
  <2>2. screen \in {"auth", "presenting", "leaving"} /\ ~late => ~session
    BY <1>2 DEF due, Screens
  <2> QED
    BY <1>1, <1>2, <2>1, <2>2, Observed DEF Screens
<1>3. CASE ~due
  BY <1>1, <1>3 DEF lastPayload, Screens
<1> QED
  BY <1>2, <1>3

\* A callback that first delivers what is due: it ends the process only after a
\* late sign-in; otherwise the observer is up to date with the database before
\* the callback's own change.
Crashes ==
    /\ late /\ screen = "leaving"
    /\ screen' = "crashed" /\ payload' = observed /\ due
    /\ UNCHANGED <<db, session, observing, seen, rows>>

Delivers(d, l, p, s) ==
    /\ db' = d /\ session' = l /\ payload' = p /\ screen' = s
    /\ observing' = observing
    /\ observing => seen' = db
    /\ seen' = Nil \/ seen' \in Seq(Thoughts)
    /\ screen = "feed" =>
        /\ rows' \in Seq(Thoughts)
        /\ lastPayload # Error => rows' = thoughts(lastPayload)
        /\ observing => lastPayload # Error /\ thoughts(lastPayload) = db
    /\ screen = "leaving" /\ ~late => rows' \in Seq(Thoughts)

LEMMA NotifyThen ==
    ASSUME FeedInv, running, NEW d, NEW l, NEW p, NEW s, notifyThen(d, l, p, s)
    PROVE  Crashes \/ Delivers(d, l, p, s)
<1> USE DEF FeedInv, Shape
<1>1. CASE due /\ shown = Nil
  <2>1. screen = "leaving" /\ late
    BY <1>1, ShownOnFeed, ShownWhileLeaving DEF due, Screens, running
  <2> QED
    BY <1>1, <2>1 DEF notifyThen, Crashes
<1>2. CASE due /\ shown # Nil
  <2>1. /\ db' = d /\ session' = l /\ payload' = p /\ screen' = s
        /\ observing' = observing /\ seen' = db /\ rows' = shown /\ lastPayload = observed
    BY <1>2 DEF notifyThen, lastPayload
  <2> QED
    BY <1>2, <2>1, ShownOnFeed, ShownWhileLeaving DEF Delivers
<1>3. CASE ~due
  <2>1. /\ db' = d /\ session' = l /\ payload' = p /\ screen' = s
        /\ observing' = observing /\ seen' = seen /\ rows' = rows /\ lastPayload = payload
    BY <1>3 DEF notifyThen, lastPayload
  <2>2. observing => seen = db
    BY <1>3 DEF due
  <2>3. observing => seen # Nil
    BY <2>2, NilAssumption
  <2> QED
    BY <2>1, <2>2, <2>3
       DEF Delivers, TableShowsState, ToldIsNoError, ObserverMatchesState
<1> QED
  BY <1>1, <1>2, <1>3

LEMMA CrashPreserves ==
    ASSUME FeedInv, Crashes, late' \in BOOLEAN, late'
    PROVE  FeedInv'
<1> USE DEF FeedInv, Crashes
<1>1. running /\ IsPayload(observed)
  BY Observed DEF running
<1>2. Shape'
  BY <1>1 DEF Shape
<1>3. Screens' /\ Ahead' /\ ToldIsNoError'
  BY DEF Screens, Ahead, ToldIsNoError
<1>4. TableShowsState' /\ StateHoldsStoredThoughts' /\ ObserverMatchesState' /\ BatchUpdatesFit'
  BY DEF TableShowsState, StateHoldsStoredThoughts, ObserverMatchesState, BatchUpdatesFit, running
<1> QED
  BY <1>2, <1>3, <1>4

LEMMA notifyPreserves ==
    ASSUME FeedInv, notify
    PROVE  FeedInv'
<1> USE DEF FeedInv, Shape
<1>1. running /\ late' = late
  BY DEF notify
<1>2. Crashes \/ Delivers(db, session, lastPayload, screen)
  BY <1>1, NotifyThen DEF notify
<1>3. CASE Crashes
  BY <1>1, <1>3, CrashPreserves DEF Crashes
<1>4. CASE Delivers(db, session, lastPayload, screen)
  <2> USE <1>4 DEF Delivers
  <2>1. Shape'
    BY <1>1, LastPayload
  <2>2. Screens'
    BY <1>1, LastPayload DEF Screens
  <2>3. Ahead' /\ ToldIsNoError' /\ ObserverMatchesState'
    BY DEF Ahead, OneWriteAhead, ToldIsNoError, ObserverMatchesState
  <2>4. TableShowsState' /\ StateHoldsStoredThoughts' /\ BatchUpdatesFit'
    BY <1>1, LastPayload DEF TableShowsState, StateHoldsStoredThoughts, BatchUpdatesFit, running
  <2> QED
    BY <2>1, <2>2, <2>3, <2>4
<1> QED
  BY <1>2, <1>3, <1>4

LEMMA notifyErrorPreserves ==
    ASSUME FeedInv, notifyError
    PROVE  FeedInv'
<1> USE DEF FeedInv, notifyError
<1>1. Error # Nil /\ Error.kind = "error" /\ thoughts(Error) = <<>> /\ ToSet(<<>>) = {}
  <2>1. <<>> \in Seq(Thoughts)
    OBVIOUS
  <2>2. Error # Nil /\ Error.kind = "error" /\ Error.list = <<>>
    BY <2>1, Payload
  <2>3. ToSet(<<>>) = {}
    BY DEF ToSet
  <2> QED
    BY <2>2, <2>3 DEF thoughts
<1>2. Shape'
  BY DEF Shape, IsPayload
<1>3. Screens'
  BY <1>1 DEF Screens, isUpdate
<1>4. Ahead' /\ ToldIsNoError' /\ ObserverMatchesState'
  BY DEF Ahead, ToldIsNoError, ObserverMatchesState
<1>5. TableShowsState' /\ StateHoldsStoredThoughts' /\ BatchUpdatesFit'
  BY <1>1 DEF TableShowsState, StateHoldsStoredThoughts, BatchUpdatesFit, running
<1> QED
  BY <1>2, <1>3, <1>4, <1>5

LEMMA saveThoughtPreserves ==
    ASSUME FeedInv, NEW t \in Thoughts, NEW i \in 1..(Len(db) + 1), saveThought(t, i)
    PROVE  FeedInv'
<1> USE DEF FeedInv, Shape
<1> DEFINE more == InsertAt(db, i, t)
<1>1. running /\ late' = late /\ t \notin ToSet(db)
  BY DEF saveThought, isNew
<1>2. Crashes \/ Delivers(more, session, lastPayload, screen)
  BY <1>1, NotifyThen DEF saveThought
<1>3. more \in Seq(Thoughts) /\ ToSet(db) \subseteq ToSet(more) /\ OneWriteAhead(db, more)
  <2>1. more \in Seq(Thoughts)
    BY Inserted
  <2>2. \A k \in DOMAIN db : Contains(more, db[k])
    <3>1. Update(db, more).del = {}
      BY <1>1, InsertUpdate
    <3> HIDE DEF more
    <3> QED
      BY <3>1 DEF Update
  <2>3. OneWriteAhead(db, more)
    BY <1>1 DEF OneWriteAhead
  <2> HIDE DEF more
  <2> QED
    BY <2>1, <2>2, <2>3, Sets
<1> HIDE DEF more
<1>4. CASE Crashes
  BY <1>1, <1>4, CrashPreserves DEF Crashes
<1>5. CASE Delivers(more, session, lastPayload, screen)
  <2> USE <1>5 DEF Delivers
  <2>1. Shape'
    BY <1>1, <1>3, LastPayload
  <2>2. Screens'
    BY <1>1, LastPayload DEF Screens
  <2>3. Ahead' /\ ToldIsNoError' /\ ObserverMatchesState'
    BY <1>3 DEF Ahead, ToldIsNoError, ObserverMatchesState
  <2>4. TableShowsState' /\ StateHoldsStoredThoughts' /\ BatchUpdatesFit'
    BY <1>1, <1>3, LastPayload DEF TableShowsState, StateHoldsStoredThoughts, BatchUpdatesFit, running
  <2> QED
    BY <2>1, <2>2, <2>3, <2>4
<1> QED
  BY <1>2, <1>4, <1>5

LEMMA logoutActionPreserves ==
    ASSUME FeedInv, logoutAction
    PROVE  FeedInv'
<1> USE DEF FeedInv, Shape
<1>1. running /\ late' = late /\ screen = "feed" /\ Delivers(<<>>, FALSE, Nil, "leaving")
  BY NotifyThen DEF logoutAction, running, Crashes
<1>2. thoughts(Nil) = <<>> /\ ToSet(<<>>) = {} /\ <<>> \in Seq(Thoughts)
  BY DEF thoughts, ToSet
<1> USE <1>1 DEF Delivers
<1>3. Shape'
  BY <1>2 DEF IsPayload
<1>4. Screens'
  BY DEF Screens, isUpdate
<1>5. Ahead' /\ ToldIsNoError' /\ ObserverMatchesState'
  BY DEF Ahead, OneWriteAhead, ToldIsNoError, ObserverMatchesState
<1>6. TableShowsState' /\ StateHoldsStoredThoughts' /\ BatchUpdatesFit'
  BY <1>2 DEF TableShowsState, StateHoldsStoredThoughts, BatchUpdatesFit, running
<1> QED
  BY <1>3, <1>4, <1>5, <1>6

LEMMA authSuccessPreserves ==
    ASSUME FeedInv, authSuccess
    PROVE  FeedInv'
<1> USE DEF FeedInv, Shape
<1>1. running /\ late' = late /\ screen = "auth"
      /\ Delivers(db, TRUE, lastPayload, "presenting")
  BY NotifyThen DEF authSuccess, running, Crashes
<1> USE <1>1 DEF Delivers
<1>2. Shape'
  BY LastPayload
<1>3. Screens'
  BY LastPayload DEF Screens
<1>4. Ahead' /\ ToldIsNoError' /\ ObserverMatchesState'
  BY DEF Ahead, OneWriteAhead, ToldIsNoError, ObserverMatchesState, Screens
<1>5. TableShowsState' /\ StateHoldsStoredThoughts' /\ BatchUpdatesFit'
  BY LastPayload DEF TableShowsState, StateHoldsStoredThoughts, BatchUpdatesFit, running
<1> QED
  BY <1>2, <1>3, <1>4, <1>5

LEMMA lateAuthSuccessPreserves ==
    ASSUME FeedInv, lateAuthSuccess
    PROVE  FeedInv'
<1> USE DEF FeedInv, Shape
<1>1. running /\ late' = TRUE /\ screen = "leaving"
  BY DEF lateAuthSuccess, running
<1>2. Crashes \/ Delivers(db, TRUE, lastPayload, "leaving")
  BY <1>1, NotifyThen DEF lateAuthSuccess
<1>3. CASE Crashes
  BY <1>1, <1>3, CrashPreserves
<1>4. CASE Delivers(db, TRUE, lastPayload, "leaving")
  <2> USE <1>1, <1>4 DEF Delivers
  <2>1. Shape'
    BY LastPayload
  <2>2. Screens'
    BY DEF Screens
  <2>3. Ahead' /\ ToldIsNoError' /\ ObserverMatchesState'
    BY DEF Ahead, OneWriteAhead, ToldIsNoError, ObserverMatchesState
  <2>4. TableShowsState' /\ StateHoldsStoredThoughts' /\ BatchUpdatesFit'
    BY LastPayload DEF TableShowsState, StateHoldsStoredThoughts, BatchUpdatesFit, running
  <2> QED
    BY <2>1, <2>2, <2>3, <2>4
<1> QED
  BY <1>2, <1>3, <1>4

LEMMA viewDidAppearPreserves ==
    ASSUME FeedInv, viewDidAppear
    PROVE  FeedInv'
<1> USE DEF FeedInv, Shape
<1> DEFINE table == newState(thoughts(payload), payload)
<1>1. screen = "presenting" /\ UNCHANGED <<db, session, payload, late>> /\ session
  BY DEF viewDidAppear, Screens
<1>2. thoughts(payload) \in Seq(Thoughts)
  BY PayloadList
<1>3. ~isUpdate(payload) => table = thoughts(payload)
  BY <1>2, Table, Payload DEF IsPayload, isUpdate
<1>4. isUpdate(payload) => table = Nil
  <2> SUFFICES ASSUME isUpdate(payload) PROVE table = Nil
    OBVIOUS
  <2>1. PICK old \in Seq(Thoughts), l \in Seq(Thoughts) :
            payload = Update(old, l) /\ ~batchIsValid(l, payload)
    BY Payload DEF IsPayload, isUpdate
  <2> QED
    BY <2>1, Table
<1> HIDE DEF table
<1>5. CASE table = Nil
  <2>1. screen' = "crashed" /\ UNCHANGED <<rows, observing, seen>>
    BY <1>5 DEF viewDidAppear, table
  <2>2. late
    BY <1>1, <1>2, <1>3, <1>5, NilAssumption DEF Screens
  <2>3. Shape' /\ Screens' /\ Ahead' /\ ToldIsNoError'
    BY <1>1, <2>1, <2>2 DEF Screens, Ahead, ToldIsNoError
  <2>4. TableShowsState' /\ StateHoldsStoredThoughts' /\ ObserverMatchesState' /\ BatchUpdatesFit'
    BY <1>1, <2>1, <2>2
       DEF TableShowsState, StateHoldsStoredThoughts, ObserverMatchesState, BatchUpdatesFit, running
  <2> QED
    BY <2>3, <2>4
<1>6. CASE table # Nil
  <2>1. screen' = "feed" /\ rows' = table /\ observing' = TRUE /\ seen' = Nil
    BY <1>6 DEF viewDidAppear, table
  <2>2. table = thoughts(payload)
    BY <1>3, <1>4, <1>6
  <2>3. Shape' /\ Screens' /\ Ahead' /\ ToldIsNoError'
    BY <1>1, <1>2, <2>1, <2>2 DEF Screens, Ahead, ToldIsNoError
  <2>4. TableShowsState' /\ StateHoldsStoredThoughts' /\ ObserverMatchesState' /\ BatchUpdatesFit'
    BY <1>1, <2>1, <2>2
       DEF TableShowsState, StateHoldsStoredThoughts, ObserverMatchesState, BatchUpdatesFit, running
  <2> QED
    BY <2>3, <2>4
<1> QED
  BY <1>5, <1>6

LEMMA viewDidDisappearPreserves ==
    ASSUME FeedInv, viewDidDisappear
    PROVE  FeedInv'
<1> USE DEF FeedInv, Shape, viewDidDisappear
<1>1. Shape' /\ Screens' /\ Ahead' /\ ToldIsNoError'
  BY DEF Screens, Ahead, ToldIsNoError
<1>2. TableShowsState' /\ StateHoldsStoredThoughts' /\ ObserverMatchesState' /\ BatchUpdatesFit'
  BY DEF TableShowsState, StateHoldsStoredThoughts, ObserverMatchesState, BatchUpdatesFit, running
<1> QED
  BY <1>1, <1>2

LEMMA relaunchPreserves ==
    ASSUME FeedInv, relaunch
    PROVE  FeedInv'
<1> USE DEF FeedInv, Shape, relaunch
<1>1. thoughts(Nil) = <<>> /\ ToSet(<<>>) = {}
  BY DEF thoughts, ToSet
<1>2. Shape' /\ Screens' /\ Ahead' /\ ToldIsNoError'
  BY DEF IsPayload, Screens, Ahead, ToldIsNoError, isUpdate
<1>3. TableShowsState' /\ StateHoldsStoredThoughts' /\ ObserverMatchesState' /\ BatchUpdatesFit'
  BY <1>1 DEF TableShowsState, StateHoldsStoredThoughts, ObserverMatchesState, BatchUpdatesFit, running
<1> QED
  BY <1>2, <1>3

LEMMA FeedInvInductive == Spec => []FeedInv
<1>1. Init => FeedInv
  <2> SUFFICES ASSUME Init PROVE FeedInv
    OBVIOUS
  <2> USE DEF Init
  <2>1. thoughts(Nil) = <<>> /\ ToSet(<<>>) = {}
    BY DEF thoughts, ToSet
  <2>5. IsPayload(payload)
    BY DEF IsPayload
  <2>6. <<>> \in Seq(Thoughts)
    OBVIOUS
  <2>2. Shape
    BY <2>5, <2>6 DEF Shape
  <2>4. Screens /\ Ahead /\ ToldIsNoError
    BY DEF Screens, Ahead, ToldIsNoError, isUpdate
  <2>3. TableShowsState /\ StateHoldsStoredThoughts /\ ObserverMatchesState /\ BatchUpdatesFit
    BY <2>1 DEF TableShowsState, StateHoldsStoredThoughts, ObserverMatchesState, BatchUpdatesFit, running
  <2> QED
    BY <2>2, <2>3, <2>4 DEF FeedInv
<1>2. FeedInv /\ [Next]_vars => FeedInv'
  <2>1. CASE UNCHANGED vars
    BY <2>1 DEF vars, FeedInv, Shape, Screens, Ahead, ToldIsNoError, TableShowsState,
                StateHoldsStoredThoughts, ObserverMatchesState, BatchUpdatesFit, running
  <2>2. CASE Next
    BY <2>2, notifyPreserves, notifyErrorPreserves, saveThoughtPreserves, logoutActionPreserves,
       authSuccessPreserves, lateAuthSuccessPreserves, viewDidAppearPreserves,
       viewDidDisappearPreserves, relaunchPreserves DEF Next
  <2> QED
    BY <2>1, <2>2
<1> QED
  BY <1>1, <1>2, PTL DEF Spec

\* While the feed is on screen the table has exactly the rows of the state, for
\* any thoughts and any order of saves, logouts, notifications and relaunches,
\* unless an error stopped the observer (ThoughtsViewController.newState).
THEOREM TableIsState == Spec => []TableShowsState
  BY FeedInvInductive, PTL DEF FeedInv

\* No batch update of the table raises, but after a sign-in that was answered
\* while the feed was being dismissed.
THEOREM UpdatesFit == Spec => []BatchUpdatesFit
  BY FeedInvInductive, PTL DEF FeedInv

\* The state never lists an object that was deleted.
THEOREM StateIsStored == Spec => []StateHoldsStoredThoughts
  BY FeedInvInductive, PTL DEF FeedInv

\* What the observer was told is what the state holds, so that the indexes of
\* the next change count from it.
THEOREM ObserverIsState == Spec => []ObserverMatchesState
  BY FeedInvInductive, PTL DEF FeedInv

-----------------------------------------------------------------------------
(* No list has an object twice.                                            *)

LEMMA ListsAre ==
    ASSUME NEW l
    PROVE  l \in Lists <=> l \in Seq(Thoughts) /\ IsInjective(l)
<1>1. ASSUME l \in Seq(Thoughts), IsInjective(l)
      PROVE  l \in Lists
  <2>1. PICK k \in Nat : k = Len(l) /\ DOMAIN l = 1..k /\ l \in [1..k -> Thoughts]
    BY <1>1
  <2>2. l \in Injection(1..k, Thoughts)
    BY <1>1, <2>1 DEF Injection
  <2>3. IsFiniteSet(1..k) /\ Cardinality(1..k) = k
    BY FS_Interval
  <2>4. Cardinality(Thoughts) \in Nat /\ k <= Cardinality(Thoughts)
    BY <2>2, <2>3, ThoughtsAssumption, FS_Injection, FS_CardinalityType
  <2>5. l \in SeqOf(Thoughts, Cardinality(Thoughts))
    BY <2>1, <2>4 DEF SeqOf
  <2> QED
    BY <1>1, <2>5 DEF Lists
<1>2. ASSUME l \in Lists
      PROVE  l \in Seq(Thoughts) /\ IsInjective(l)
  <2>1. PICK k \in Nat : l \in [1..k -> Thoughts]
    BY <1>2 DEF Lists, SeqOf
  <2> QED
    BY <1>2, <2>1 DEF Lists
<1> QED
  BY <1>1, <1>2

LEMMA InsertedList ==
    ASSUME NEW s \in Lists, NEW i \in 1..(Len(s) + 1), NEW t \in Thoughts, t \notin ToSet(s)
    PROVE  InsertAt(s, i, t) \in Lists /\ ToSet(InsertAt(s, i, t)) \subseteq ToSet(s) \cup {t}
<1>1. s \in Seq(Thoughts) /\ IsInjective(s)
  BY ListsAre
<1>2. PICK n \in Nat : n = Len(s) /\ DOMAIN s = 1..n
  BY <1>1
<1>3. PICK d : d = InsertAt(s, i, t)
  OBVIOUS
<1>4. /\ d \in Seq(Thoughts) /\ Len(d) = Len(s) + 1 /\ d[i] = t /\ Len(s) \in Nat
      /\ \A k \in 1..(i - 1) : d[k] = s[k]
      /\ \A k \in (i + 1)..(Len(s) + 1) : d[k] = s[k - 1]
  BY ONLY <1>1, <1>3, InsertedAs, SMTT(60)
<1> DEFINE from(k) == IF k < i THEN k ELSE k - 1
<1>5. ASSUME NEW k \in 1..(n + 1), k # i
      PROVE  from(k) \in 1..n /\ d[k] = s[from(k)]
  BY <1>2, <1>4, <1>5
<1>6. \A k \in 1..n : s[k] # t /\ s[k] \in ToSet(s)
  BY <1>1, <1>2, Sets
<1>7. ASSUME NEW j \in 1..(n + 1), NEW k \in 1..(n + 1), d[j] = d[k]
      PROVE  j = k
  <2>1. CASE j = i /\ k # i
    BY <1>4, <1>5, <1>6, <1>7, <2>1
  <2>2. CASE j # i /\ k = i
    BY <1>4, <1>5, <1>6, <1>7, <2>2
  <2>3. CASE j # i /\ k # i
    <3>1. from(j) \in 1..n /\ from(k) \in 1..n /\ s[from(j)] = s[from(k)]
      BY <1>5, <1>7, <2>3
    <3>2. from(j) = from(k)
      BY <1>1, <1>2, <3>1 DEF IsInjective
    <3> QED
      BY <2>3, <3>2
  <2> QED
    BY <2>1, <2>2, <2>3
<1>8. DOMAIN d = 1..(n + 1)
  BY <1>2, <1>4
<1>9. IsInjective(d)
  BY <1>7, <1>8 DEF IsInjective
<1>10. ToSet(d) \subseteq ToSet(s) \cup {t}
  <2>1. \A k \in 1..(n + 1) : d[k] \in ToSet(s) \cup {t}
    BY <1>4, <1>5, <1>6
  <2> QED
    BY <1>8, <2>1 DEF ToSet
<1> QED
  BY <1>3, <1>4, <1>9, <1>10, ListsAre

\* What the table shows of the database the observer has been told of: nothing
\* that was saved since.
RowsAreOlder == observing /\ seen # Nil => ToSet(db) \cap ToSet(rows) \subseteq ToSet(seen)

ListInv == TypeOK /\ RowsAreOlder

LEMMA PayloadLists ==
    ASSUME NEW p \in Payloads \cup {Nil}
    PROVE  thoughts(p) \in Lists
<1>1. <<>> \in Lists
  <2>1. <<>> \in Seq(Thoughts) /\ IsInjective(<<>>)
    BY DEF IsInjective
  <2> QED
    BY <2>1, ListsAre
<1>2. \A k, l \in Lists : Initial(l).list = l /\ Update(k, l).list = l
  BY DEF Initial, Update
<1> QED
  BY <1>1, <1>2 DEF Payloads, thoughts, Error

\* A notification leaves lists, and shows nothing that is neither stored nor shown.
LEMMA ShownLists ==
    ASSUME FeedInv, ListInv, due
    PROVE  /\ observed \in Payloads \cup {Nil}
           /\ shown = Nil \/ (shown \in Lists /\ ToSet(shown) \subseteq ToSet(rows) \cup ToSet(db))
<1>1. db \in Lists /\ rows \in Lists /\ seen \in Lists \cup {Nil} /\ payload \in Payloads \cup {Nil}
  BY DEF ListInv, TypeOK
<1>2. db \in Seq(Thoughts) /\ rows \in Seq(Thoughts) /\ (seen # Nil => seen \in Seq(Thoughts))
  BY <1>1, ListsAre
<1>3. CASE observed = payload
  BY <1>1, <1>3 DEF shown
<1>4. CASE observed # payload /\ observed = Initial(db)
  <2>1. shown = db
    BY <1>2, <1>4, Table DEF shown
  <2> QED
    BY <1>1, <1>4, <2>1 DEF Payloads
<1>5. CASE observed # payload /\ seen # Nil /\ observed = Update(seen, db)
  <2>1. observed \in Payloads
    BY <1>1, <1>5 DEF Payloads
  <2>2. PICK p : p = Update(seen, db)
    OBVIOUS
  <2>3. shown = IF batchIsValid(rows, p) THEN batch(rows, p) ELSE Nil
    BY <1>2, <1>5, <2>2, Table DEF shown
  <2>4. ASSUME batchIsValid(rows, p)
        PROVE  batch(rows, p) \in Lists /\ ToSet(batch(rows, p)) \subseteq ToSet(rows) \cup ToSet(db)
    <3>1. observing /\ seen # db /\ OneWriteAhead(seen, db)
      BY <1>5 DEF due, FeedInv, Ahead
    <3>2. CASE db = <<>>
      <4>1. seen # <<>> /\ seen \in Seq(Thoughts)
        BY <1>2, <1>5, <3>1, <3>2
      <4>2. batch(rows, p) = <<>>
        BY <1>2, <2>2, <2>4, <3>2, <4>1, ClearBatch
      <4> QED
        BY <1>1, <3>2, <4>2
    <3>3. ASSUME NEW i \in 1..(Len(seen) + 1), NEW t \in Thoughts, t \notin ToSet(seen), db = InsertAt(seen, i, t)
          PROVE  batch(rows, p) \in Lists /\ ToSet(batch(rows, p)) \subseteq ToSet(rows) \cup ToSet(db)
      <4>1. Len(rows) = Len(seen) /\ batch(rows, p) = InsertAt(rows, i, t)
        BY <1>2, <1>5, <2>2, <2>4, <3>3, InsertBatch
      <4>2. t \in ToSet(db)
        <5>1. i \in 1..Len(db) /\ db[i] = t
          BY <1>2, <1>5, <3>3, InsertedAs
        <5> QED
          BY <1>2, <5>1, Sets
      <4>3. t \notin ToSet(rows)
        BY <1>5, <3>1, <3>3, <4>2 DEF ListInv, RowsAreOlder
      <4> QED
        BY <1>1, <3>3, <4>1, <4>2, <4>3, InsertedList
    <3> QED
      BY <3>1, <3>2, <3>3 DEF OneWriteAhead
  <2> QED
    BY <1>5, <2>1, <2>2, <2>3, <2>4
<1> QED
  BY <1>3, <1>4, <1>5 DEF observed

\* A callback that delivers what is due, and then stores what nobody shows.
LEMMA NotifyThenLists ==
    ASSUME FeedInv, ListInv, NEW d \in Lists, NEW l \in BOOLEAN, NEW p \in Payloads \cup {Nil},
           NEW s \in {"auth", "presenting", "feed", "leaving", "crashed"}, notifyThen(d, l, p, s),
           late' \in BOOLEAN, ToSet(d) \cap ToSet(rows) \subseteq ToSet(db)
    PROVE  ListInv'
<1> USE DEF ListInv
<1>1. CASE due /\ shown = Nil
  <2>1. observed \in Payloads \cup {Nil}
    BY <1>1, ShownLists
  <2>2. screen' = "crashed" /\ payload' = observed /\ UNCHANGED <<db, session, observing, seen, rows>>
    BY <1>1 DEF notifyThen
  <2> QED
    BY <2>1, <2>2 DEF TypeOK, RowsAreOlder
<1>2. CASE ~(due /\ shown = Nil)
  <2>1. /\ db' = d /\ session' = l /\ payload' = p /\ screen' = s /\ UNCHANGED observing
        /\ seen' = IF due THEN db ELSE seen
        /\ rows' = IF due THEN shown ELSE rows
    BY <1>2 DEF notifyThen
  <2>2. rows' \in Lists /\ ToSet(rows') \subseteq ToSet(rows) \cup ToSet(db)
    BY <1>2, <2>1, ShownLists DEF TypeOK
  <2>3. observing => seen' = db
    BY <2>1 DEF due
  <2>4. TypeOK'
    BY <2>1, <2>2 DEF TypeOK
  <2>5. RowsAreOlder'
    BY <2>1, <2>2, <2>3 DEF RowsAreOlder
  <2> QED
    BY <2>4, <2>5
<1> QED
  BY <1>1, <1>2

LEMMA NextLists ==
    ASSUME FeedInv, ListInv, [Next]_vars
    PROVE  ListInv'
<1> USE DEF ListInv
<1>1. /\ db \in Lists /\ session \in BOOLEAN /\ late \in BOOLEAN /\ payload \in Payloads \cup {Nil}
      /\ screen \in {"auth", "presenting", "feed", "leaving", "crashed"}
  BY DEF TypeOK
<1>2. lastPayload \in Payloads \cup {Nil}
  BY <1>1, ShownLists DEF lastPayload
<1>3. <<>> \in Lists /\ ToSet(<<>>) = {} /\ thoughts(Nil) = <<>>
  <2>1. thoughts(Nil) = <<>> /\ ToSet(<<>>) = {}
    BY DEF thoughts, ToSet
  <2> QED
    BY <2>1, PayloadLists
<1>4. CASE notify
  BY <1>1, <1>2, <1>4, NotifyThenLists DEF notify
<1>5. CASE notifyError
  <2>1. Error \in Payloads
    BY DEF Payloads
  <2> QED
    BY <1>5, <2>1 DEF notifyError, TypeOK, RowsAreOlder
<1>6. ASSUME NEW t \in Thoughts, NEW i \in 1..(Len(db) + 1), saveThought(t, i)
      PROVE  ListInv'
  <2>1. PICK d : d = InsertAt(db, i, t)
    OBVIOUS
  <2>2. t \notin ToSet(db) /\ t \notin ToSet(rows) /\ late' = late
    BY <1>6 DEF saveThought, isNew
  <2>3. d \in Lists /\ ToSet(d) \subseteq ToSet(db) \cup {t}
    BY <1>1, <2>1, <2>2, InsertedList
  <2>4. notifyThen(d, session, lastPayload, screen)
    BY <1>6, <2>1 DEF saveThought
  <2> QED
    BY <1>1, <1>2, <2>2, <2>3, <2>4, NotifyThenLists
<1>7. CASE logoutAction
  BY <1>1, <1>3, <1>7, NotifyThenLists DEF logoutAction
<1>8. CASE authSuccess
  BY <1>1, <1>2, <1>8, NotifyThenLists DEF authSuccess
<1>9. CASE lateAuthSuccess
  BY <1>1, <1>2, <1>9, NotifyThenLists DEF lateAuthSuccess
<1>10. CASE viewDidAppear
  <2>1. PICK table : table = newState(thoughts(payload), payload)
    OBVIOUS
  <2>2. CASE table = Nil
    BY <1>10, <2>1, <2>2 DEF viewDidAppear, TypeOK, RowsAreOlder
  <2>3. CASE table # Nil
    <3>1. table = thoughts(payload)
      <4>1. IsPayload(payload) /\ thoughts(payload) \in Seq(Thoughts)
        BY PayloadList DEF FeedInv, Shape
      <4> QED
        BY <2>1, <2>3, <4>1, Table DEF IsPayload
    <3>2. table \in Lists
      BY <1>1, <3>1, PayloadLists
    <3>3. /\ screen' = "feed" /\ rows' = table /\ observing' = TRUE /\ seen' = Nil
          /\ UNCHANGED <<db, session, payload, late>>
      BY <1>10, <2>1, <2>3 DEF viewDidAppear
    <3> QED
      BY <3>2, <3>3 DEF TypeOK, RowsAreOlder
  <2> QED
    BY <2>2, <2>3
<1>11. CASE viewDidDisappear
  BY <1>3, <1>11 DEF viewDidDisappear, TypeOK, RowsAreOlder
<1>12. CASE relaunch
  BY <1>3, <1>12 DEF relaunch, TypeOK, RowsAreOlder
<1>13. CASE UNCHANGED vars
  BY <1>13 DEF vars, TypeOK, RowsAreOlder
<1> QED
  BY <1>4, <1>5, <1>6, <1>7, <1>8, <1>9, <1>10, <1>11, <1>12, <1>13 DEF Next

\* No object is listed twice, by the database, by what the observer was told, by
\* the state or by the table: whatever batch update is applied to whatever rows,
\* it brings in no object that the table already shows.
THEOREM ListsHaveNoDuplicates == Spec => []TypeOK
<1>1. Init => ListInv
  <2>1. <<>> \in Lists
    BY PayloadLists DEF thoughts
  <2> QED
    BY <2>1 DEF Init, ListInv, TypeOK, RowsAreOlder
<1>2. FeedInv /\ ListInv /\ [Next]_vars => ListInv'
  BY NextLists
<1>3. ListInv => TypeOK
  BY DEF ListInv
<1> QED
  BY <1>1, <1>2, <1>3, FeedInvInductive, PTL DEF Spec
=============================================================================
