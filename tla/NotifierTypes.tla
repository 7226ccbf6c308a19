---------------------------- MODULE NotifierTypes ----------------------------
(***************************************************************************)
(* Type correctness of the change notifications, and that the callbacks     *)
(* being called are the ones there are.                                    *)
(***************************************************************************)
EXTENDS NotifierProofs, FiniteSetTheorems

Stages == {"none", "new", "live", "gone"}

\* What TypeOK says of a notifier, as a set of records.
CollectionNotifier ==
    [stage: Stages, alive: BOOLEAN, has_run: BOOLEAN, version: 0..MaxVersion, rows: 0..MaxVersion,
     changes: SUBSET Versions, handover: BOOLEAN, delivered: BOOLEAN, wanted: BOOLEAN,
     callbacks: Seq(Callback), index: {npos} \cup 0..Cardinality(Tokens), count: 0..SizeMax]

\* No two callbacks of a notifier have one token.
Distinct(cbs) == \A i, j \in DOMAIN cbs : cbs[i].token = cbs[j].token => i = j

\* A notifier has as many callbacks as there are tokens, and no more.
LEMMA FewCallbacks ==
    ASSUME NEW cbs \in Seq(Callback), Distinct(cbs)
    PROVE  Len(cbs) \in Nat /\ Len(cbs) <= Cardinality(Tokens) /\ Len(cbs) < SizeMax
<1>1. PICK k \in Nat : k = Len(cbs) /\ DOMAIN cbs = 1..k
  OBVIOUS
<1>2. PICK f : f = [i \in 1..k |-> cbs[i].token]
  OBVIOUS
<1>3. \A i \in 1..k : cbs[i].token \in Tokens
  <2>1. \A i \in 1..k : cbs[i] \in Callback
    BY <1>1
  <2> QED
    BY <2>1 DEF Callback
<1>4. f \in [1..k -> Tokens] /\ \A i, j \in 1..k : f[i] = f[j] => i = j
  BY <1>1, <1>2, <1>3 DEF Distinct
<1>5. f \in Injection(1..k, Tokens)
  BY <1>4 DEF Injection, IsInjective
<1>6. IsFiniteSet(1..k) /\ Cardinality(1..k) = k
  BY FS_Interval
<1>7. Cardinality(1..k) <= Cardinality(Tokens)
  BY <1>5, TokensAssumption, FS_Injection
<1> QED
  BY <1>1, <1>6, <1>7, SizeMaxAssumption, TokensAssumption, FS_CardinalityType

-----------------------------------------------------------------------------
(* The operators on one notifier: what they change and what they keep.     *)

\* Two notifiers with the same history of runs, and the same deliveries.
SameRuns(c, d) ==
    /\ d.stage = c.stage /\ d.alive = c.alive /\ d.has_run = c.has_run
    /\ d.version = c.version /\ d.rows = c.rows /\ d.changes = c.changes

SamePlace(c, d) == d.callbacks = c.callbacks /\ d.index = c.index /\ d.count = c.count

LEMMA MappedCallbacks ==
    ASSUME NEW cbs \in Seq(Callback), NEW ds, ds = [i \in DOMAIN cbs |-> ds[i]],
           \A i \in DOMAIN cbs : ds[i] \in Callback /\ ds[i].token = cbs[i].token
    PROVE  /\ ds \in Seq(Callback) /\ Len(ds) = Len(cbs) /\ DOMAIN ds = DOMAIN cbs
           /\ Distinct(cbs) => Distinct(ds)
<1>1. PICK k \in Nat : k = Len(cbs) /\ DOMAIN cbs = 1..k
  OBVIOUS
<1>2. ds = [i \in 1..k |-> ds[i]] /\ \A i \in 1..k : ds[i] \in Callback
  BY <1>1
<1>3. ds \in Seq(Callback) /\ Len(ds) = k /\ DOMAIN ds = 1..k
  BY <1>2
<1> QED
  BY <1>1, <1>3 DEF Distinct

RanAs(c, d, v) ==
    /\ d \in CollectionNotifier /\ SamePlace(c, d)
    /\ d.stage = c.stage /\ d.alive = c.alive /\ d.has_run = c.has_run
    /\ d.version = c.version /\ d.wanted = c.wanted
    /\ IF need_to_run(c, v)
       THEN d.rows = v /\ d.changes = IF c.has_run /\ have_callbacks(c) THEN (c.rows + 1)..v ELSE {}
       ELSE d.rows = c.rows /\ d.changes = c.changes

LEMMA RunIs ==
    ASSUME NEW c \in CollectionNotifier, NEW v \in Versions
    PROVE  RanAs(c, run(c, v), v)
<1>1. PICK x : x = IF c.has_run /\ have_callbacks(c) THEN (c.rows + 1)..v ELSE {}
  OBVIOUS
<1>2. x \in SUBSET Versions
  BY <1>1, MaxVersionAssumption DEF CollectionNotifier, Versions
<1>3. PICK d : d = [c EXCEPT !.changes = x, !.rows = v, !.handover = TRUE]
  OBVIOUS
<1>4. /\ d \in CollectionNotifier /\ SamePlace(c, d)
      /\ d.stage = c.stage /\ d.alive = c.alive /\ d.has_run = c.has_run
      /\ d.version = c.version /\ d.wanted = c.wanted /\ d.rows = v /\ d.changes = x
  <2>1. v \in 0..MaxVersion
    BY MaxVersionAssumption DEF Versions
  <2>2. d \in CollectionNotifier
    BY <1>2, <1>3, <2>1 DEF CollectionNotifier
  <2>3. SamePlace(c, d)
    BY <1>3 DEF CollectionNotifier, SamePlace
  <2>4. d.rows = v /\ d.changes = x
    BY <1>3 DEF CollectionNotifier
  <2> QED
    BY <1>3, <2>2, <2>3, <2>4 DEF CollectionNotifier
<1>5. run(c, v) = IF need_to_run(c, v) THEN d ELSE c
  BY <1>1, <1>3 DEF run
<1> QED
  BY <1>1, <1>4, <1>5 DEF RanAs, SamePlace

\* A notifier given other callbacks, as many as it has.
LEMMA CallbacksReplaced ==
    ASSUME NEW c \in CollectionNotifier, NEW ds \in Seq(Callback)
    PROVE  LET d == [c EXCEPT !.callbacks = ds] IN
           /\ d \in CollectionNotifier /\ SameRuns(c, d) /\ d.wanted = c.wanted
           /\ d.callbacks = ds /\ d.index = c.index /\ d.count = c.count
<1>1. PICK d : d = [c EXCEPT !.callbacks = ds]
  OBVIOUS
<1>2. d \in CollectionNotifier
  BY <1>1 DEF CollectionNotifier
<1>3. SameRuns(c, d) /\ d.wanted = c.wanted /\ d.callbacks = ds /\ d.index = c.index /\ d.count = c.count
  BY <1>1 DEF CollectionNotifier, SameRuns
<1> QED
  BY <1>1, <1>2, <1>3

LEMMA AddedIs ==
    ASSUME NEW cb \in Callback, NEW changes \in SUBSET Versions
    PROVE  LET d == add_changes(cb, changes) IN
           /\ d \in Callback /\ d.token = cb.token /\ d.out = cb.out
           /\ d.initial_delivered = cb.initial_delivered /\ d.skip_next = FALSE
           /\ d.acc = IF cb.skip_next THEN cb.acc ELSE cb.acc \cup changes
  BY DEF add_changes, Callback

\* Every callback accumulates the changes, but the ones that skip them.
HandedOverAs(c, d, v) ==
    /\ d \in CollectionNotifier
    /\ d.stage = c.stage /\ d.alive = c.alive /\ d.has_run = TRUE /\ d.version = v
    /\ d.rows = c.rows /\ d.changes = {} /\ d.wanted = c.wanted
    /\ d.index = c.index /\ d.count = c.count
    /\ Len(d.callbacks) = Len(c.callbacks) /\ DOMAIN d.callbacks = DOMAIN c.callbacks
    /\ Distinct(d.callbacks)
    /\ \A i \in DOMAIN c.callbacks : d.callbacks[i] = add_changes(c.callbacks[i], c.changes)

LEMMA HandoverIs ==
    ASSUME NEW c \in CollectionNotifier, Distinct(c.callbacks), NEW v \in Versions
    PROVE  HandedOverAs(c, prepare_handover(c, v), v)
<1>1. PICK ds : ds = [i \in DOMAIN c.callbacks |-> add_changes(c.callbacks[i], c.changes)]
  OBVIOUS
<1>2. c.callbacks \in Seq(Callback) /\ c.changes \in SUBSET Versions
  BY DEF CollectionNotifier
<1>3. \A i \in DOMAIN c.callbacks : c.callbacks[i] \in Callback
  BY <1>2
<1>4. \A i \in DOMAIN c.callbacks : ds[i] \in Callback /\ ds[i].token = c.callbacks[i].token
  BY <1>1, <1>2, <1>3, AddedIs
<1>5. /\ ds \in Seq(Callback) /\ Len(ds) = Len(c.callbacks) /\ DOMAIN ds = DOMAIN c.callbacks
      /\ Distinct(ds)
  <2>1. PICK cbs \in Seq(Callback) : cbs = c.callbacks
    BY <1>2
  <2>2. ds = [i \in DOMAIN cbs |-> ds[i]]
    BY <1>1, <2>1
  <2> QED
    BY <1>4, <2>1, <2>2, MappedCallbacks
<1>6. PICK d : d = [c EXCEPT !.version = v, !.has_run = TRUE, !.changes = {}, !.callbacks = ds]
  OBVIOUS
<1>7. prepare_handover(c, v) = d
  BY <1>1, <1>6 DEF prepare_handover
<1>8. v \in 0..MaxVersion
  BY MaxVersionAssumption DEF Versions
<1>9. d \in CollectionNotifier
  BY <1>5, <1>6, <1>8 DEF CollectionNotifier
<1>10. /\ d.stage = c.stage /\ d.alive = c.alive /\ d.has_run = TRUE /\ d.version = v
       /\ d.rows = c.rows /\ d.changes = {} /\ d.wanted = c.wanted
       /\ d.index = c.index /\ d.count = c.count /\ d.callbacks = ds
  BY <1>6 DEF CollectionNotifier
<1> QED
  BY <1>1, <1>5, <1>7, <1>9, <1>10 DEF HandedOverAs

\* A callback with what it accumulated waiting to be delivered.
PackagedCallback(a, b) ==
    /\ b.token = a.token /\ b.acc = {} /\ b.out = a.acc
    /\ b.initial_delivered = a.initial_delivered /\ b.skip_next = a.skip_next

\* What was accumulated waits to be delivered.
PackagedAs(c, d) ==
    /\ d \in CollectionNotifier /\ SameRuns(c, d)
    /\ d.index = c.index /\ d.count = Len(c.callbacks)
    /\ Len(d.callbacks) = Len(c.callbacks) /\ DOMAIN d.callbacks = DOMAIN c.callbacks
    /\ Distinct(d.callbacks)
    /\ \A i \in DOMAIN c.callbacks : PackagedCallback(c.callbacks[i], d.callbacks[i])

LEMMA PackageIs ==
    ASSUME NEW c \in CollectionNotifier, Distinct(c.callbacks)
    PROVE  PackagedAs(c, package_for_delivery(c))
<1>1. PICK ds : ds = [i \in DOMAIN c.callbacks |->
                        [c.callbacks[i] EXCEPT !.out = c.callbacks[i].acc, !.acc = {}]]
  OBVIOUS
<1>2. c.callbacks \in Seq(Callback)
  BY DEF CollectionNotifier
<1>3. \A i \in DOMAIN c.callbacks : c.callbacks[i] \in Callback
  BY <1>2
<1>4. ASSUME NEW cb \in Callback
      PROVE  LET x == [cb EXCEPT !.out = cb.acc, !.acc = {}] IN x \in Callback /\ PackagedCallback(cb, x)
  BY DEF Callback, PackagedCallback
<1>5. \A i \in DOMAIN c.callbacks : ds[i] \in Callback /\ PackagedCallback(c.callbacks[i], ds[i])
  BY <1>1, <1>3, <1>4
<1>6. /\ ds \in Seq(Callback) /\ Len(ds) = Len(c.callbacks) /\ DOMAIN ds = DOMAIN c.callbacks
      /\ Distinct(ds)
  <2>1. PICK cbs \in Seq(Callback) : cbs = c.callbacks
    BY <1>2
  <2>2. ds = [i \in DOMAIN cbs |-> ds[i]]
    BY <1>1, <2>1
  <2> QED
    BY <1>5, <2>1, <2>2, MappedCallbacks DEF PackagedCallback
<1>7. PICK d : d = [c EXCEPT !.callbacks = ds, !.count = Len(c.callbacks), !.handover = FALSE]
  OBVIOUS
<1>8. package_for_delivery(c) = d
  BY <1>1, <1>7 DEF package_for_delivery
<1>9. Len(c.callbacks) \in 0..SizeMax
  BY <1>2, FewCallbacks, SizeMaxAssumption
<1>10. d \in CollectionNotifier
  BY <1>6, <1>7, <1>9 DEF CollectionNotifier
<1>11. SameRuns(c, d) /\ d.index = c.index /\ d.count = Len(c.callbacks) /\ d.callbacks = ds
  BY <1>7 DEF CollectionNotifier, SameRuns
<1> QED
  BY <1>5, <1>6, <1>8, <1>10, <1>11 DEF PackagedAs

LEMMA DeliveredIs ==
    ASSUME NEW c \in CollectionNotifier, Distinct(c.callbacks), NEW used \in BOOLEAN
    PROVE  PackagedAs(c, delivered_with(c, used))
<1>1. PICK p : p = package_for_delivery(c) /\ PackagedAs(c, p)
  BY PackageIs
<1>2. PICK w \in BOOLEAN : w = IF c.delivered THEN used ELSE p.wanted
  BY <1>1 DEF PackagedAs, CollectionNotifier
<1>3. PICK d : d = [p EXCEPT !.wanted = w, !.delivered = TRUE]
  OBVIOUS
<1>4. d \in CollectionNotifier /\ SameRuns(p, d) /\ SamePlace(p, d)
  BY <1>1, <1>3 DEF PackagedAs, CollectionNotifier, SameRuns, SamePlace
<1>5. delivered_with(c, used) = IF ~c.handover THEN p ELSE d
  BY <1>1, <1>2, <1>3 DEF delivered_with
<1>6. PackagedAs(c, d)
  <2>1. SameRuns(c, d)
    BY <1>1, <1>4 DEF PackagedAs, SameRuns
  <2>2. d.callbacks = p.callbacks /\ d.index = p.index /\ d.count = p.count
    BY <1>4 DEF SamePlace
  <2> QED
    BY <1>1, <1>4, <2>1, <2>2 DEF PackagedAs
<1> QED
  BY <1>1, <1>5, <1>6

\* suppress_next_notification marks the callbacks of the tokens ts.
MarkedCallback(a, b, ts) ==
    /\ b.token = a.token /\ b.acc = a.acc /\ b.out = a.out
    /\ b.initial_delivered = a.initial_delivered
    /\ IF a.token \in ts THEN b.skip_next = TRUE ELSE b.skip_next = a.skip_next

SuppressedAs(c, d, ts) ==
    /\ d \in CollectionNotifier /\ SameRuns(c, d) /\ d.wanted = c.wanted
    /\ d.index = c.index /\ d.count = c.count
    /\ Len(d.callbacks) = Len(c.callbacks) /\ DOMAIN d.callbacks = DOMAIN c.callbacks
    /\ Distinct(d.callbacks)
    /\ \A i \in DOMAIN c.callbacks : MarkedCallback(c.callbacks[i], d.callbacks[i], ts)

LEMMA SuppressedIs ==
    ASSUME NEW c \in CollectionNotifier, Distinct(c.callbacks), NEW ts
    PROVE  SuppressedAs(c, [c EXCEPT !.callbacks =
                        [i \in DOMAIN c.callbacks |->
                            IF c.callbacks[i].token \in ts THEN [c.callbacks[i] EXCEPT !.skip_next = TRUE]
                            ELSE c.callbacks[i]]], ts)
<1>1. PICK ds : ds = [i \in DOMAIN c.callbacks |->
                        IF c.callbacks[i].token \in ts THEN [c.callbacks[i] EXCEPT !.skip_next = TRUE]
                        ELSE c.callbacks[i]]
  OBVIOUS
<1>2. PICK cbs \in Seq(Callback) : cbs = c.callbacks
  BY DEF CollectionNotifier
<1>3. \A i \in DOMAIN cbs : cbs[i] \in Callback
  BY <1>2
<1>4. ASSUME NEW cb \in Callback
      PROVE  LET x == IF cb.token \in ts THEN [cb EXCEPT !.skip_next = TRUE] ELSE cb
             IN  x \in Callback /\ MarkedCallback(cb, x, ts)
  BY DEF Callback, MarkedCallback
<1>5. \A i \in DOMAIN cbs : ds[i] \in Callback /\ MarkedCallback(cbs[i], ds[i], ts)
  BY <1>1, <1>2, <1>3, <1>4
<1>6. ds = [i \in DOMAIN cbs |-> ds[i]]
  BY <1>1, <1>2
<1>7. /\ ds \in Seq(Callback) /\ Len(ds) = Len(cbs) /\ DOMAIN ds = DOMAIN cbs
      /\ Distinct(ds)
  BY <1>2, <1>5, <1>6, MappedCallbacks DEF MarkedCallback
<1>8. PICK d : d = [c EXCEPT !.callbacks = ds]
  OBVIOUS
<1>9. /\ d \in CollectionNotifier /\ SameRuns(c, d) /\ d.wanted = c.wanted
      /\ d.callbacks = ds /\ d.index = c.index /\ d.count = c.count
  BY <1>7, <1>8, CallbacksReplaced
<1>10. SuppressedAs(c, d, ts)
  BY <1>2, <1>5, <1>7, <1>9 DEF SuppressedAs
<1> QED
  BY <1>1, <1>8, <1>10

-----------------------------------------------------------------------------
(* Type correctness.                                                       *)

\* A table of notifiers; the ones that have run are at a version.
Typed(ns) ==
    /\ ns \in [Notifiers -> CollectionNotifier]
    /\ \A n \in Notifiers : Distinct(ns[n].callbacks) /\ (ns[n].has_run => ns[n].version # 0)

RealmState ==
    [version: Versions,
     at: {"idle", "refresh", "begin", "deliver", "deliver in write", "write", "write in callback"},
     target: Versions, package: SUBSET Notifiers, now: Notifiers \cup {None}, calling: BOOLEAN]

WorkerState ==
    [at: {"idle", "skip", "skipped", "run", "ran", "signal"}, version: 0..MaxVersion, skip: 0..MaxVersion,
     old: SUBSET Notifiers, new: SUBSET Notifiers]

\* The worker runs the notifiers at versions.
WorkerTyped ==
    /\ worker \in WorkerState
    /\ worker.at \in {"skip", "skipped", "run", "ran"} => worker.version # 0
    /\ worker.at \in {"skip", "skipped"} => worker.skip # 0

HeardState == [base: 0..MaxVersion, told: 0..MaxVersion,
               got: SUBSET Versions, own: SUBSET Versions, overtaken: SUBSET Versions]

TypeInv ==
    /\ latest \in Versions /\ writer \in Realms \cup {None}
    /\ realm \in [Realms -> RealmState]
    /\ signal \in [Realms -> BOOLEAN]
    /\ Typed(nt)
    /\ pipe \in BOOLEAN
    /\ WorkerTyped
    /\ skipVersion \in 0..MaxVersion
    /\ heard \in [Tokens -> HeardState]

LEMMA TypeInvIsTypeOK ==
    ASSUME TypeInv
    PROVE  TypeOK
<1>1. \A n \in Notifiers : nt[n] \in CollectionNotifier
  BY DEF TypeInv, Typed
<1>2. ASSUME NEW c \in CollectionNotifier
      PROVE  /\ c.stage \in {"none", "new", "live", "gone"}
             /\ c.alive \in BOOLEAN /\ c.has_run \in BOOLEAN
             /\ c.version \in 0..MaxVersion /\ c.rows \in 0..MaxVersion
             /\ c.changes \subseteq Versions
             /\ c.handover \in BOOLEAN /\ c.delivered \in BOOLEAN /\ c.wanted \in BOOLEAN
             /\ c.callbacks \in Seq(Callback)
             /\ c.index \in {npos} \cup 0..Cardinality(Tokens)
             /\ c.count \in 0..SizeMax
  BY DEF CollectionNotifier, Stages
<1> QED
  BY <1>1, <1>2 DEF TypeInv, TypeOK, RealmState, WorkerTyped, WorkerState, HeardState

\* What is packaged, and perhaps delivered.
Packages(ns) == \A n \in Notifiers : IF n \in ns THEN PackagedAs(nt[n], nt'[n]) ELSE nt'[n] = nt[n]

LEMMA PackagedIs ==
    ASSUME Typed(nt), NEW ns, nt' = packaged(ns)
    PROVE  Typed(nt') /\ Packages(ns)
<1>1. nt' = [n \in Notifiers |-> IF n \in ns THEN package_for_delivery(nt[n]) ELSE nt[n]]
  BY DEF packaged
<1>2. \A n \in Notifiers : nt[n] \in CollectionNotifier /\ Distinct(nt[n].callbacks)
  BY DEF Typed
<1>3. Packages(ns)
  BY <1>1, <1>2, PackageIs DEF Packages
<1>4. ASSUME NEW n \in Notifiers
      PROVE  /\ nt'[n] \in CollectionNotifier /\ Distinct(nt'[n].callbacks)
             /\ nt'[n].has_run => nt'[n].version # 0
  BY <1>3 DEF Typed, SameRuns, Packages, PackagedAs
<1> QED
  BY <1>1, <1>3, <1>4 DEF Typed

LEMMA PackagedAndDeliveredIs ==
    ASSUME Typed(nt), NEW ns, packagedAndDelivered(ns)
    PROVE  Typed(nt') /\ Packages(ns)
<1>1. PICK used \in BOOLEAN :
        nt' = [n \in Notifiers |-> IF n \in ns THEN delivered_with(nt[n], used) ELSE nt[n]]
  BY DEF packagedAndDelivered
<1>2. \A n \in Notifiers : nt[n] \in CollectionNotifier /\ Distinct(nt[n].callbacks)
  BY DEF Typed
<1>3. Packages(ns)
  BY <1>1, <1>2, DeliveredIs DEF Packages
<1>4. ASSUME NEW n \in Notifiers
      PROVE  /\ nt'[n] \in CollectionNotifier /\ Distinct(nt'[n].callbacks)
             /\ nt'[n].has_run => nt'[n].version # 0
  BY <1>3 DEF Typed, SameRuns, Packages, PackagedAs
<1> QED
  BY <1>1, <1>3, <1>4 DEF Typed

\* A step of one notifier.
OnlyOf(n) == \A m \in Notifiers : m # n => nt'[m] = nt[m]

LEMMA OneTyped ==
    ASSUME Typed(nt), NEW n \in Notifiers, NEW d \in CollectionNotifier,
           Distinct(d.callbacks), d.has_run => d.version # 0, nt' = [nt EXCEPT ![n] = d]
    PROVE  Typed(nt') /\ OnlyOf(n) /\ nt'[n] = d
<1>1. nt \in [Notifiers -> CollectionNotifier] /\ nt' \in [Notifiers -> CollectionNotifier]
  BY DEF Typed
<1>2. OnlyOf(n) /\ nt'[n] = d
  BY <1>1 DEF OnlyOf
<1>3. \A m \in Notifiers : Distinct(nt'[m].callbacks) /\ (nt'[m].has_run => nt'[m].version # 0)
  BY <1>2 DEF Typed, OnlyOf
<1> QED
  BY <1>1, <1>2, <1>3 DEF Typed

\* register_notifier
RegisteredAs(c, d, v) ==
    /\ d \in CollectionNotifier /\ SamePlace(c, d) /\ d.wanted = c.wanted
    /\ d.stage = "new" /\ d.alive = TRUE /\ d.has_run = c.has_run /\ d.version = v
    /\ d.rows = c.rows /\ d.changes = c.changes

LEMMA RegisteredIs ==
    ASSUME TypeInv, NEW n \in Notifiers, register_notifier(n)
    PROVE  /\ Typed(nt') /\ OnlyOf(n)
           /\ RegisteredAs(nt[n], nt'[n], realm[RealmOf[n]].version)
<1>1. PICK v \in Versions : v = realm[RealmOf[n]].version
  BY RealmOfAssumption DEF TypeInv, RealmState
<1>2. PICK c \in CollectionNotifier : c = nt[n]
  BY DEF TypeInv, Typed
<1>3. PICK d : d = [c EXCEPT !.stage = "new", !.alive = TRUE, !.version = v]
  OBVIOUS
<1>4. v \in 0..MaxVersion /\ v # 0
  BY MaxVersionAssumption DEF Versions
<1>5. RegisteredAs(c, d, v)
  BY <1>3, <1>4 DEF CollectionNotifier, RegisteredAs, SamePlace, Stages
<1>6. nt' = [nt EXCEPT ![n] = d]
  BY <1>1, <1>2, <1>3 DEF register_notifier, TypeInv, Typed
<1>7. Distinct(d.callbacks)
  BY <1>2, <1>5 DEF TypeInv, Typed, RegisteredAs, SamePlace
<1>8. d.version # 0 /\ d \in CollectionNotifier
  BY <1>4, <1>5 DEF RegisteredAs
<1> QED
  BY <1>1, <1>2, <1>5, <1>6, <1>7, <1>8, OneTyped DEF TypeInv

\* add_callback
AddedTo(c, d, t) ==
    /\ d \in CollectionNotifier /\ SameRuns(c, d) /\ d.wanted = c.wanted
    /\ d.index = c.index /\ d.count = c.count
    /\ Len(c.callbacks) \in Nat /\ DOMAIN c.callbacks = 1..Len(c.callbacks)
    /\ Len(d.callbacks) = Len(c.callbacks) + 1 /\ DOMAIN d.callbacks = 1..(Len(c.callbacks) + 1)
    /\ \A i \in DOMAIN c.callbacks : d.callbacks[i] = c.callbacks[i]
    /\ d.callbacks[Len(c.callbacks) + 1] = newCallback(t)

LEMMA AddedCallback ==
    ASSUME TypeInv, NEW t \in Tokens, add_callback(t)
    PROVE  LET n == NotifierOf[t] IN
           n \in Notifiers /\ Typed(nt') /\ OnlyOf(n) /\ AddedTo(nt[n], nt'[n], t)
<1>1. PICK n \in Notifiers : n = NotifierOf[t]
  BY NotifierOfAssumption
<1>2. PICK c \in CollectionNotifier : c = nt[n]
  BY DEF TypeInv, Typed
<1>3. PICK cbs \in Seq(Callback) : cbs = c.callbacks
  BY DEF CollectionNotifier
<1>4. PICK cb \in Callback : cb = newCallback(t) /\ cb.token = t
  <2>1. newCallback(t) \in Callback /\ newCallback(t).token = t
    BY DEF newCallback, Callback
  <2> QED
    BY <2>1
<1>5. PICK k \in Nat : k = Len(cbs) /\ DOMAIN cbs = 1..k
  OBVIOUS
<1>6. PICK ds : ds = Append(cbs, cb)
  OBVIOUS
<1>7. /\ ds \in Seq(Callback) /\ Len(ds) = k + 1 /\ DOMAIN ds = 1..(k + 1)
      /\ \A i \in 1..k : ds[i] = cbs[i]
      /\ ds[k + 1] = cb
  BY <1>5, <1>6
<1>8. \A i \in 1..k : cbs[i].token # t
  BY <1>1, <1>2, <1>3, <1>5 DEF add_callback, tokensUsed
<1>9. Distinct(cbs)
  BY <1>2, <1>3 DEF TypeInv, Typed
<1>10. Distinct(ds)
  BY <1>4, <1>5, <1>7, <1>8, <1>9 DEF Distinct
<1>11. PICK d : d = [c EXCEPT !.callbacks = ds]
  OBVIOUS
<1>12. /\ d \in CollectionNotifier /\ SameRuns(c, d) /\ d.wanted = c.wanted
       /\ d.callbacks = ds /\ d.index = c.index /\ d.count = c.count
  BY <1>7, <1>11, CallbacksReplaced
<1>13. AddedTo(c, d, t)
  BY <1>3, <1>4, <1>5, <1>7, <1>12 DEF AddedTo
<1>14. nt' = [nt EXCEPT ![n] = d]
  BY <1>1, <1>2, <1>3, <1>4, <1>6, <1>11 DEF add_callback, TypeInv, Typed
<1>15. d.has_run => d.version # 0
  BY <1>2, <1>12 DEF TypeInv, Typed, SameRuns
<1> QED
  BY <1>1, <1>2, <1>10, <1>12, <1>13, <1>14, <1>15, OneTyped DEF TypeInv

\* remove_callback
RemovedFrom(c, d, idx) ==
    /\ d \in CollectionNotifier /\ SameRuns(c, d) /\ d.wanted = c.wanted
    /\ d.index = indexAfterRemoval(c, idx)
    /\ Len(c.callbacks) \in Nat /\ DOMAIN c.callbacks = 1..Len(c.callbacks)
    /\ Len(d.callbacks) = Len(c.callbacks) - 1 /\ DOMAIN d.callbacks = 1..(Len(c.callbacks) - 1)
    /\ \A i \in DOMAIN d.callbacks :
         d.callbacks[i] = IF i <= idx THEN c.callbacks[i] ELSE c.callbacks[i + 1]

LEMMA RemovedCallback ==
    ASSUME TypeInv, NEW n \in Notifiers, NEW p \in DOMAIN nt[n].callbacks, remove_callback(n, p - 1)
    PROVE  /\ Typed(nt') /\ OnlyOf(n) /\ RemovedFrom(nt[n], nt'[n], p - 1)
           /\ nt'[n].count = countAfterRemoval(n)
<1>1. PICK c \in CollectionNotifier : c = nt[n]
  BY DEF TypeInv, Typed
<1>2. PICK cbs \in Seq(Callback) : cbs = c.callbacks
  BY DEF CollectionNotifier
<1>3. PICK k \in Nat : k = Len(cbs) /\ DOMAIN cbs = 1..k
  OBVIOUS
<1>4. p \in 1..k
  BY <1>1, <1>2, <1>3
<1>5. PICK ds : ds = RemoveAt(cbs, p)
  OBVIOUS
<1>6. ds = [i \in 1..(k - 1) |-> IF i < p THEN cbs[i] ELSE cbs[i + 1]]
  <2>1. PICK a, b : a = SubSeq(cbs, 1, p - 1) /\ b = SubSeq(cbs, p + 1, k)
    OBVIOUS
  <2>2. ds = a \o b
    BY <1>3, <1>5, <2>1 DEF RemoveAt
  <2>3. a \in Seq(Callback) /\ Len(a) = p - 1 /\ \A i \in 1..(p - 1) : a[i] = cbs[i]
    BY <1>3, <1>4, <2>1
  <2>4. b \in Seq(Callback) /\ Len(b) = k - p /\ \A i \in 1..(k - p) : b[i] = cbs[p + i]
    BY <1>3, <1>4, <2>1
  <2>5. /\ DOMAIN ds = 1..(k - 1) /\ ds \in Seq(Callback)
        /\ \A i \in 1..(k - 1) : ds[i] = IF i < p THEN a[i] ELSE b[i - (p - 1)]
    <3>1. PICK u \in Nat, w \in Nat : u = p - 1 /\ w = k - p /\ u + w = k - 1
      <4>1. p - 1 \in Nat /\ k - p \in Nat /\ (p - 1) + (k - p) = k - 1
        BY <1>3, <1>4
      <4> QED
        BY <4>1
    <3>2. Len(a) = u /\ Len(b) = w
      BY <2>3, <2>4, <3>1
    <3>3. ds \in Seq(Callback) /\ Len(ds) = u + w
      <4>1. a \in Seq(Callback) /\ b \in Seq(Callback)
        BY <2>3, <2>4
      <4>2. Len(ds) = Len(a) + Len(b) /\ ds \in Seq(Callback)
        BY <2>2, <4>1
      <4> QED
        BY <3>2, <4>2
    <3>4. \A i \in 1..(u + w) : ds[i] = IF i <= u THEN a[i] ELSE b[i - u]
      BY <2>2, <2>3, <2>4, <3>2
    <3>5. \A i \in 1..(k - 1) : i < p <=> i <= u
      BY <1>3, <1>4, <3>1
    <3>6. DOMAIN ds = 1..(k - 1)
      BY <3>1, <3>3
    <3> QED
      BY <3>1, <3>3, <3>4, <3>5, <3>6
  <2>6. \A i \in 1..(k - 1) : ~(i < p) => i - (p - 1) \in 1..(k - p) /\ p + (i - (p - 1)) = i + 1
    BY <1>3, <1>4
  <2>7. \A i \in 1..(k - 1) : ds[i] = IF i < p THEN cbs[i] ELSE cbs[i + 1]
    <3>1. ASSUME NEW i \in 1..(k - 1), i < p PROVE ds[i] = cbs[i]
      <4>1. i \in 1..(p - 1)
        BY <1>3, <1>4, <3>1
      <4> QED
        BY <2>3, <2>5, <3>1, <4>1
    <3>2. ASSUME NEW i \in 1..(k - 1), ~(i < p) PROVE ds[i] = cbs[i + 1]
      BY <2>4, <2>5, <2>6, <3>2
    <3> QED
      BY <3>1, <3>2
  <2> QED
    BY <2>5, <2>7
<1>7. /\ ds \in Seq(Callback) /\ Len(ds) = k - 1 /\ DOMAIN ds = 1..(k - 1)
      /\ \A i \in 1..(k - 1) : ds[i] = IF i < p THEN cbs[i] ELSE cbs[i + 1]
  <2>1. \A i \in 1..(k - 1) : i \in 1..k /\ i + 1 \in 1..k
    BY <1>3
  <2>2. \A i \in 1..k : cbs[i] \in Callback
    BY <1>3
  <2>3. ds \in [1..(k - 1) -> Callback]
    BY <1>6, <2>1, <2>2
  <2>4. k - 1 \in Nat
    BY <1>3, <1>4
  <2> QED
    BY <1>6, <2>3, <2>4
<1>8. Distinct(cbs)
  BY <1>1, <1>2 DEF TypeInv, Typed
<1>9. Distinct(ds)
  <2>1. ASSUME NEW i \in 1..(k - 1), NEW j \in 1..(k - 1), ds[i].token = ds[j].token
        PROVE  i = j
    <3>1. PICK a \in 1..k : a = IF i < p THEN i ELSE i + 1
      BY <1>3, <1>4
    <3>2. PICK b \in 1..k : b = IF j < p THEN j ELSE j + 1
      BY <1>3, <1>4
    <3>3. ds[i] = cbs[a] /\ ds[j] = cbs[b]
      BY <1>7, <3>1, <3>2
    <3>4. a = b
      BY <1>3, <1>8, <2>1, <3>3 DEF Distinct
    <3> QED
      BY <1>4, <3>1, <3>2, <3>4
  <2> QED
    BY <1>7, <2>1 DEF Distinct
<1>10. PICK x : x = indexAfterRemoval(c, p - 1)
  OBVIOUS
<1>11. x \in {npos} \cup 0..Cardinality(Tokens)
  <2>1. Cardinality(Tokens) \in Nat
    BY TokensAssumption, FS_CardinalityType
  <2>2. c.index \in {npos} \cup 0..Cardinality(Tokens)
    BY DEF CollectionNotifier
  <2> QED
    BY <1>3, <1>4, <1>10, <2>1, <2>2 DEF indexAfterRemoval, npos
<1>12. PICK y : y = countAfterRemoval(n)
  OBVIOUS
<1>13. y \in 0..SizeMax
  BY <1>1, <1>12, SizeMaxAssumption DEF countAfterRemoval, CollectionNotifier
<1>14. PICK d : d = [c EXCEPT !.callbacks = ds, !.index = x, !.count = y]
  OBVIOUS
<1>15. d \in CollectionNotifier
  BY <1>7, <1>11, <1>13, <1>14 DEF CollectionNotifier
<1>16. SameRuns(c, d) /\ d.wanted = c.wanted /\ d.callbacks = ds /\ d.index = x /\ d.count = y
  BY <1>14 DEF CollectionNotifier, SameRuns
<1>17. RemovedFrom(c, d, p - 1)
  BY <1>2, <1>3, <1>4, <1>7, <1>10, <1>15, <1>16 DEF RemovedFrom
<1>18. nt' = [nt EXCEPT ![n] = d]
  <2>1. p - 1 + 1 = p
    BY <1>4
  <2> QED
    BY <1>1, <1>2, <1>5, <1>10, <1>12, <1>14, <2>1 DEF remove_callback, TypeInv, Typed
<1>19. d.has_run => d.version # 0
  BY <1>1, <1>16 DEF TypeInv, Typed, SameRuns
<1> QED
  BY <1>1, <1>9, <1>12, <1>15, <1>16, <1>17, <1>18, <1>19, OneTyped DEF TypeInv

\* unregister
UnregisteredAs(c, d) ==
    /\ d \in CollectionNotifier /\ SamePlace(c, d) /\ d.wanted = c.wanted
    /\ d.stage = c.stage /\ d.alive = FALSE /\ d.has_run = c.has_run /\ d.version = c.version
    /\ d.rows = c.rows /\ d.changes = c.changes

LEMMA UnregisteredIs ==
    ASSUME TypeInv, NEW n \in Notifiers, unregister(n)
    PROVE  Typed(nt') /\ OnlyOf(n) /\ UnregisteredAs(nt[n], nt'[n])
<1>1. PICK c \in CollectionNotifier : c = nt[n]
  BY DEF TypeInv, Typed
<1>2. PICK d : d = [c EXCEPT !.alive = FALSE]
  OBVIOUS
<1>3. d \in CollectionNotifier
  BY <1>2 DEF CollectionNotifier
<1>4. UnregisteredAs(c, d)
  BY <1>2, <1>3 DEF CollectionNotifier, UnregisteredAs, SamePlace
<1>5. nt' = [nt EXCEPT ![n] = d]
  BY <1>1, <1>2 DEF unregister, TypeInv, Typed
<1>6. Distinct(d.callbacks) /\ (d.has_run => d.version # 0)
  BY <1>1, <1>4 DEF TypeInv, Typed, UnregisteredAs, SamePlace
<1> QED
  BY <1>1, <1>3, <1>4, <1>5, <1>6, OneTyped DEF TypeInv

\* after_advance, for the callback at place p (from 1): it is told, or not.
CalledCallback(a, b) ==
    /\ b.token = a.token /\ b.acc = a.acc /\ b.out = {}
    /\ b.initial_delivered = TRUE /\ b.skip_next = a.skip_next

CalledAt(c, d, p) ==
    /\ d \in CollectionNotifier /\ SameRuns(c, d) /\ d.wanted = c.wanted
    /\ d.index = p - 1 /\ d.count = c.count
    /\ Len(d.callbacks) = Len(c.callbacks) /\ DOMAIN d.callbacks = DOMAIN c.callbacks
    /\ p \in DOMAIN c.callbacks
    /\ \A i \in DOMAIN c.callbacks :
         IF i = p THEN CalledCallback(c.callbacks[i], d.callbacks[i]) ELSE d.callbacks[i] = c.callbacks[i]

\* after_advance, when all the callbacks of a notifier have been called.
CallsEnded(c, d) ==
    /\ d \in CollectionNotifier /\ SameRuns(c, d) /\ d.wanted = c.wanted
    /\ d.callbacks = c.callbacks /\ d.index = npos /\ d.count = 0

LEMMA CalledIs ==
    ASSUME TypeInv, NEW r \in Realms, NEW n \in Notifiers, after_advance(r, n),
           nt[n].index + 1 < nt[n].count
    PROVE  Typed(nt') /\ OnlyOf(n) /\ CalledAt(nt[n], nt'[n], nt[n].index + 2)
<1>1. PICK c \in CollectionNotifier : c = nt[n]
  BY DEF TypeInv, Typed
<1>2. PICK cbs \in Seq(Callback) : cbs = c.callbacks
  BY DEF CollectionNotifier
<1>3. PICK k \in Nat : k = Len(cbs) /\ DOMAIN cbs = 1..k
  OBVIOUS
<1>4. PICK i \in 0..Cardinality(Tokens) + 1 : i = c.index + 1
  BY TokensAssumption, FS_CardinalityType DEF CollectionNotifier, npos
<1>5. i < k
  BY <1>1, <1>2, <1>3, <1>4 DEF after_advance
<1>6. i \in Nat /\ i + 1 \in 1..k
  BY <1>3, <1>4, <1>5, TokensAssumption, FS_CardinalityType
<1>7. PICK cb \in Callback : cb = cbs[i + 1]
  BY <1>3, <1>6
<1>8. PICK cc \in Callback : cc = [cb EXCEPT !.initial_delivered = TRUE, !.out = {}] /\ CalledCallback(cb, cc)
  <2>1. PICK cc : cc = [cb EXCEPT !.initial_delivered = TRUE, !.out = {}]
    OBVIOUS
  <2>2. cc \in Callback /\ CalledCallback(cb, cc)
    BY <2>1 DEF Callback, CalledCallback
  <2> QED
    BY <2>1, <2>2
<1>9. PICK ds : ds = [cbs EXCEPT ![i + 1] = cc]
  OBVIOUS
<1>10. /\ ds \in Seq(Callback) /\ Len(ds) = k /\ DOMAIN ds = 1..k
       /\ \A j \in 1..k : ds[j] = IF j = i + 1 THEN cc ELSE cbs[j]
  BY <1>3, <1>6, <1>9
<1>11. Distinct(ds)
  <2>1. \A j \in 1..k : ds[j].token = cbs[j].token
    BY <1>7, <1>8, <1>10 DEF CalledCallback
  <2>2. Distinct(cbs)
    BY <1>1, <1>2 DEF TypeInv, Typed
  <2> QED
    BY <1>3, <1>10, <2>1, <2>2 DEF Distinct
<1>12. PICK d : d = [c EXCEPT !.index = i, !.callbacks = ds]
  OBVIOUS
<1>13. i \in {npos} \cup 0..Cardinality(Tokens)
  <2>1. k <= Cardinality(Tokens)
    BY <1>1, <1>2, <1>3, FewCallbacks DEF TypeInv, Typed
  <2> QED
    BY <1>3, <1>5, <1>6, <2>1, TokensAssumption, FS_CardinalityType
<1>14. d \in CollectionNotifier
  BY <1>10, <1>12, <1>13 DEF CollectionNotifier
<1>15. SameRuns(c, d) /\ d.wanted = c.wanted /\ d.callbacks = ds /\ d.index = i /\ d.count = c.count
  BY <1>12 DEF CollectionNotifier, SameRuns
<1>16. PICK p : p = c.index + 2 /\ p = i + 1 /\ p - 1 = i
  BY <1>4, <1>6 DEF CollectionNotifier, npos
<1>17. CalledAt(c, d, p)
  BY <1>2, <1>3, <1>6, <1>7, <1>8, <1>10, <1>14, <1>15, <1>16 DEF CalledAt
<1>18. nt' = [nt EXCEPT ![n] = d]
  <2>1. nt' = [nt EXCEPT ![n].index = i,
                         ![n].callbacks[i + 1].initial_delivered = TRUE,
                         ![n].callbacks[i + 1].out = {}]
    BY <1>1, <1>4 DEF after_advance
  <2>2. PICK f : f = [nt EXCEPT ![n].index = i]
    OBVIOUS
  <2>3. PICK g : g = [f EXCEPT ![n].callbacks[i + 1].initial_delivered = TRUE]
    OBVIOUS
  <2>4. PICK h : h = [g EXCEPT ![n].callbacks[i + 1].out = {}]
    OBVIOUS
  <2>5. nt' = h
    BY <2>1, <2>2, <2>3, <2>4
  <2>6. PICK c1 \in CollectionNotifier : c1 = [c EXCEPT !.index = i] /\ c1.callbacks = cbs
    <3>1. PICK c1 : c1 = [c EXCEPT !.index = i]
      OBVIOUS
    <3>2. c1 \in CollectionNotifier
      BY <1>13, <3>1 DEF CollectionNotifier
    <3>3. c1.callbacks = cbs
      BY <1>2, <3>1 DEF CollectionNotifier
    <3> QED
      BY <3>1, <3>2, <3>3
  <2>7. f = [nt EXCEPT ![n] = c1]
    BY <1>1, <2>2, <2>6
  <2>8. PICK cb1 : cb1 = [cb EXCEPT !.initial_delivered = TRUE]
    OBVIOUS
  <2>9. PICK s1 : s1 = [cbs EXCEPT ![i + 1] = cb1]
    OBVIOUS
  <2>10. PICK c2 : c2 = [c1 EXCEPT !.callbacks = s1]
    OBVIOUS
  <2>11. g = [nt EXCEPT ![n] = c2]
    BY <1>7, <2>3, <2>6, <2>7, <2>8, <2>9, <2>10 DEF TypeInv, Typed
  <2>12. cc = [cb1 EXCEPT !.out = {}]
    BY <1>8, <2>8
  <2>13. ds = [s1 EXCEPT ![i + 1] = cc] /\ s1[i + 1] = cb1
    BY <1>3, <1>6, <1>9, <2>9
  <2>14. c2.callbacks = s1 /\ d = [c2 EXCEPT !.callbacks = ds]
    BY <1>12, <2>6, <2>10 DEF CollectionNotifier
  <2>15. h = [nt EXCEPT ![n] = d]
    BY <2>4, <2>11, <2>12, <2>13, <2>14 DEF TypeInv, Typed
  <2> QED
    BY <2>5, <2>15
<1>19. Distinct(d.callbacks) /\ (d.has_run => d.version # 0)
  BY <1>1, <1>11, <1>15 DEF TypeInv, Typed, SameRuns
<1> QED
  BY <1>1, <1>14, <1>16, <1>17, <1>18, <1>19, OneTyped DEF TypeInv

LEMMA CallsEndedIs ==
    ASSUME TypeInv, NEW r \in Realms, NEW n \in Notifiers, after_advance(r, n),
           ~(nt[n].index + 1 < nt[n].count)
    PROVE  Typed(nt') /\ OnlyOf(n) /\ CallsEnded(nt[n], nt'[n])
<1>1. PICK c \in CollectionNotifier : c = nt[n]
  BY DEF TypeInv, Typed
<1>2. PICK d : d = [c EXCEPT !.index = npos, !.count = 0]
  OBVIOUS
<1>3. d \in CollectionNotifier
  <2>1. 0 \in 0..SizeMax /\ npos \in {npos} \cup 0..Cardinality(Tokens)
    BY SizeMaxAssumption
  <2> QED
    BY <1>2, <2>1 DEF CollectionNotifier
<1>4. CallsEnded(c, d)
  BY <1>2, <1>3 DEF CollectionNotifier, CallsEnded, SameRuns
<1>5. nt' = [nt EXCEPT ![n] = d]
  BY <1>1, <1>2 DEF after_advance, TypeInv, Typed
<1>6. Distinct(d.callbacks) /\ (d.has_run => d.version # 0)
  BY <1>1, <1>4 DEF TypeInv, Typed, CallsEnded, SameRuns
<1> QED
  BY <1>1, <1>3, <1>4, <1>5, <1>6, OneTyped DEF TypeInv

\* Only the stage changes: a dead notifier is gone, a new one becomes live.
StagedAs(c, d) ==
    /\ d \in CollectionNotifier /\ SamePlace(c, d) /\ d.wanted = c.wanted
    /\ d.alive = c.alive /\ d.has_run = c.has_run /\ d.version = c.version
    /\ d.rows = c.rows /\ d.changes = c.changes

LEMMA StagedIs ==
    ASSUME NEW c \in CollectionNotifier, NEW s \in Stages
    PROVE  StagedAs(c, [c EXCEPT !.stage = s]) /\ [c EXCEPT !.stage = s].stage = s /\ StagedAs(c, c)
  BY DEF CollectionNotifier, StagedAs, SamePlace

CleanedAs(c, d) ==
    /\ StagedAs(c, d)
    /\ d.stage = IF c.stage \in {"new", "live"} /\ ~c.alive THEN "gone" ELSE c.stage

LEMMA CleanedIs ==
    ASSUME NEW ns, Typed(ns)
    PROVE  /\ Typed(clean_up_dead(ns))
           /\ \A n \in Notifiers : CleanedAs(ns[n], clean_up_dead(ns)[n])
<1>1. PICK ms : ms = clean_up_dead(ns)
  OBVIOUS
<1>2. ASSUME NEW n \in Notifiers
      PROVE  CleanedAs(ns[n], ms[n])
  <2>1. PICK c \in CollectionNotifier : c = ns[n]
    BY DEF Typed
  <2>2. PICK d : d = [c EXCEPT !.stage = "gone"]
    OBVIOUS
  <2>3. StagedAs(c, d) /\ d.stage = "gone" /\ StagedAs(c, c)
    BY <2>2, StagedIs DEF Stages
  <2>4. ms[n] = IF c.stage \in {"new", "live"} /\ ~c.alive THEN d ELSE c
    BY <1>1, <2>1, <2>2 DEF clean_up_dead
  <2> QED
    BY <2>1, <2>3, <2>4 DEF CleanedAs
<1>3. ASSUME NEW n \in Notifiers
      PROVE  /\ ms[n] \in CollectionNotifier /\ Distinct(ms[n].callbacks)
             /\ ms[n].has_run => ms[n].version # 0
  BY <1>2 DEF Typed, CleanedAs, StagedAs, SamePlace
<1>4. ms = [n \in Notifiers |-> ms[n]]
  BY <1>1 DEF clean_up_dead
<1>5. Typed(ms)
  BY <1>3, <1>4 DEF Typed
<1> QED
  BY <1>1, <1>2, <1>5

\* The lists as the worker takes them.
TakenAs(c, d) ==
    /\ StagedAs(c, d)
    /\ d.stage = IF c.stage \in {"new", "live"} THEN IF c.alive THEN "live" ELSE "gone" ELSE c.stage

LEMMA TakenIs ==
    ASSUME TypeInv, workerTake
    PROVE  Typed(nt') /\ \A n \in Notifiers : TakenAs(nt[n], nt'[n])
<1>1. PICK ns : ns = clean_up_dead(nt)
  OBVIOUS
<1>2. Typed(ns) /\ \A n \in Notifiers : CleanedAs(nt[n], ns[n])
  BY <1>1, CleanedIs DEF TypeInv
<1>3. nt' = [n \in Notifiers |-> IF ns[n].stage = "new" THEN [ns[n] EXCEPT !.stage = "live"] ELSE ns[n]]
  BY <1>1 DEF workerTake
<1>4. ASSUME NEW n \in Notifiers
      PROVE  TakenAs(nt[n], nt'[n])
  <2>1. PICK b \in CollectionNotifier, c \in CollectionNotifier : b = nt[n] /\ c = ns[n]
    BY <1>2 DEF TypeInv, Typed
  <2>2. PICK d : d = [c EXCEPT !.stage = "live"]
    OBVIOUS
  <2>3. StagedAs(c, d) /\ d.stage = "live" /\ StagedAs(c, c)
    BY <2>2, StagedIs DEF Stages
  <2>4. nt'[n] = IF c.stage = "new" THEN d ELSE c
    BY <1>3, <2>1, <2>2
  <2>5. CleanedAs(b, c)
    BY <1>2, <2>1
  <2>6. StagedAs(b, d) /\ StagedAs(b, c)
    BY <2>3, <2>5 DEF CleanedAs, StagedAs, SamePlace
  <2>7. c.stage = IF b.stage \in {"new", "live"} /\ ~b.alive THEN "gone" ELSE b.stage
    BY <2>5 DEF CleanedAs
  <2> QED
    BY <2>1, <2>3, <2>4, <2>6, <2>7 DEF TakenAs
<1>5. ASSUME NEW n \in Notifiers
      PROVE  /\ nt'[n] \in CollectionNotifier /\ Distinct(nt'[n].callbacks)
             /\ nt'[n].has_run => nt'[n].version # 0
  BY <1>4 DEF TypeInv, Typed, TakenAs, StagedAs, SamePlace
<1> QED
  BY <1>3, <1>4, <1>5 DEF Typed

\* A run, of the notifiers ns at the version v.
Runs(ns, v) == \A n \in Notifiers : IF n \in ns THEN RanAs(nt[n], nt'[n], v) ELSE nt'[n] = nt[n]

LEMMA RunAllIs ==
    ASSUME TypeInv, NEW ns, NEW v \in Versions, NEW next, runAll(ns, v, next)
    PROVE  Typed(nt') /\ Runs(ns, v)
<1>1. nt' = [n \in Notifiers |-> IF n \in ns THEN run(nt[n], v) ELSE nt[n]]
  BY DEF runAll
<1>2. Runs(ns, v)
  BY <1>1, RunIs DEF TypeInv, Typed, Runs
<1>3. ASSUME NEW n \in Notifiers
      PROVE  /\ nt'[n] \in CollectionNotifier /\ Distinct(nt'[n].callbacks)
             /\ nt'[n].has_run => nt'[n].version # 0
  BY <1>2 DEF TypeInv, Typed, Runs, RanAs, SamePlace
<1> QED
  BY <1>1, <1>2, <1>3 DEF Typed

HandsOver(ms, ns, v) ==
    \A n \in Notifiers : IF n \in ns THEN HandedOverAs(nt[n], ms[n], v) ELSE ms[n] = nt[n]

LEMMA HandedOverIs ==
    ASSUME TypeInv, NEW ns, NEW v \in Versions
    PROVE  Typed(handedOver(ns, v)) /\ HandsOver(handedOver(ns, v), ns, v)
<1>1. PICK ms : ms = handedOver(ns, v)
  OBVIOUS
<1>2. ms = [n \in Notifiers |-> IF n \in ns THEN prepare_handover(nt[n], v) ELSE nt[n]]
  BY <1>1 DEF handedOver
<1>3. HandsOver(ms, ns, v)
  BY <1>2, HandoverIs DEF TypeInv, Typed, HandsOver
<1>4. v # 0
  BY DEF Versions
<1>5. ASSUME NEW n \in Notifiers
      PROVE  /\ ms[n] \in CollectionNotifier /\ Distinct(ms[n].callbacks)
             /\ ms[n].has_run => ms[n].version # 0
  BY <1>3, <1>4 DEF TypeInv, Typed, HandsOver, HandedOverAs
<1> QED
  BY <1>1, <1>2, <1>3, <1>5 DEF Typed

\* The last section of the worker under the lock: what is handed over, cleaned up.
HandedAndCleaned(ns, v) ==
    \A n \in Notifiers : \E c \in CollectionNotifier :
        /\ IF n \in ns THEN HandedOverAs(nt[n], c, v) ELSE c = nt[n]
        /\ CleanedAs(c, nt'[n])

LEMMA WorkerHandoverIs ==
    ASSUME TypeInv, workerHandover
    PROVE  Typed(nt') /\ HandedAndCleaned(worker.old \cup worker.new, worker.version)
<1>1. PICK ns, v : ns = worker.old \cup worker.new /\ v = worker.version
  OBVIOUS
<1>2. v \in Versions
  BY <1>1, MaxVersionAssumption DEF workerHandover, TypeInv, WorkerTyped, WorkerState, Versions
<1>3. PICK ms : ms = handedOver(ns, v)
  OBVIOUS
<1>4. Typed(ms) /\ HandsOver(ms, ns, v)
  BY <1>2, <1>3, HandedOverIs
<1>5. nt' = clean_up_dead(ms)
  BY <1>1, <1>3 DEF workerHandover
<1>6. Typed(nt') /\ \A n \in Notifiers : CleanedAs(ms[n], nt'[n])
  BY <1>4, <1>5, CleanedIs
<1>7. \A n \in Notifiers : ms[n] \in CollectionNotifier
  BY <1>4 DEF Typed
<1> QED
  BY <1>1, <1>4, <1>6, <1>7 DEF HandedAndCleaned, HandsOver

\* A commit, of which the callbacks of the tokens ts are not to hear.
Suppresses(ts) == \A n \in Notifiers : SuppressedAs(nt[n], nt'[n], ts)

LEMMA SuppressIs ==
    ASSUME TypeInv, NEW ts, nt' = suppressed(ts)
    PROVE  Typed(nt') /\ Suppresses(ts)
<1>1. \A n \in Notifiers : nt[n] \in CollectionNotifier /\ Distinct(nt[n].callbacks)
  BY DEF TypeInv, Typed
<1>2. Suppresses(ts)
  BY <1>1, SuppressedIs DEF Suppresses, suppressed
<1>3. ASSUME NEW n \in Notifiers
      PROVE  /\ nt'[n] \in CollectionNotifier /\ Distinct(nt'[n].callbacks)
             /\ nt'[n].has_run => nt'[n].version # 0
  BY <1>2 DEF TypeInv, Typed, Suppresses, SuppressedAs, SameRuns
<1> QED
  BY <1>2, <1>3 DEF Typed, suppressed

-----------------------------------------------------------------------------
(* Every step keeps the types.                                             *)

LEMMA InitTyped ==
    ASSUME Init
    PROVE  TypeInv
<1>1. 1 \in Versions /\ 0 \in 0..MaxVersion /\ 0 \in 0..SizeMax
  BY MaxVersionAssumption, SizeMaxAssumption DEF Versions
<1>2. PICK c : c = [stage |-> "none", alive |-> FALSE, has_run |-> FALSE,
                    version |-> 0, rows |-> 0, changes |-> {},
                    handover |-> FALSE, delivered |-> FALSE, wanted |-> TRUE,
                    callbacks |-> <<>>, index |-> npos, count |-> 0]
  OBVIOUS
<1>3. c \in CollectionNotifier /\ Distinct(c.callbacks) /\ ~c.has_run
  <2>1. <<>> \in Seq(Callback) /\ Distinct(<<>>) /\ npos \in {npos} \cup 0..Cardinality(Tokens)
    BY DEF Distinct
  <2> QED
    BY <1>1, <1>2, <2>1 DEF CollectionNotifier, Stages
<1>4. nt = [n \in Notifiers |-> c]
  BY <1>2 DEF Init
<1>5. Typed(nt)
  BY <1>3, <1>4 DEF Typed
<1>6. WorkerTyped
  BY <1>1 DEF Init, WorkerTyped, WorkerState
<1>7. realm \in [Realms -> RealmState]
  BY <1>1 DEF Init, RealmState
<1>8. heard \in [Tokens -> HeardState]
  BY <1>1 DEF Init, HeardState
<1> QED
  BY <1>1, <1>5, <1>6, <1>7, <1>8 DEF Init, TypeInv

LEMMA NotifierStepsTyped ==
    ASSUME TypeInv,
           \/ \E n \in Notifiers : register_notifier(n) \/ unregister(n)
           \/ \E t \in Tokens : add_callback(t)
           \/ \E n \in Notifiers : \E i \in DOMAIN nt[n].callbacks : remove_callback(n, i - 1)
    PROVE  TypeInv'
<1>1. Typed(nt')
  BY RegisteredIs, UnregisteredIs, AddedCallback, RemovedCallback
<1>2. UNCHANGED <<latest, writer, realm, signal, worker, skipVersion, heard>>
  BY DEF register_notifier, unregister, add_callback, remove_callback
<1>3. pipe' \in BOOLEAN
  BY DEF register_notifier, unregister, add_callback, remove_callback, TypeInv
<1> QED
  BY <1>1, <1>2, <1>3 DEF TypeInv, WorkerTyped

LEMMA WorkerStepsTyped ==
    ASSUME TypeInv, workerStep
    PROVE  TypeInv'
<1>1. CASE workerTake
  <2>1. Typed(nt')
    BY <1>1, TakenIs
  <2>2. WorkerTyped' /\ skipVersion' = 0
    <3>1. PICK old, new, s : /\ old = listed(clean_up_dead(nt), "live")
                             /\ new = listed(clean_up_dead(nt), "new")
                             /\ s = IF old = {} THEN 0 ELSE skipVersion
      OBVIOUS
    <3>2. old \in SUBSET Notifiers /\ new \in SUBSET Notifiers /\ s \in 0..MaxVersion
      BY <3>1, MaxVersionAssumption DEF listed, TypeInv
    <3>3. latest \in 0..MaxVersion /\ latest # 0
      BY MaxVersionAssumption DEF TypeInv, Versions
    <3>4. worker' = IF old \cup new = {} THEN [worker EXCEPT !.at = "signal"]
                    ELSE [at |-> IF s # 0 THEN "skip" ELSE "run", version |-> latest, skip |-> s,
                          old |-> old, new |-> new]
      BY <1>1, <3>1 DEF workerTake
    <3> QED
      BY <1>1, <3>2, <3>3, <3>4 DEF workerTake, TypeInv, WorkerTyped, WorkerState
  <2> QED
    <3>1. 0 \in 0..MaxVersion
      BY MaxVersionAssumption
    <3>2. UNCHANGED <<latest, writer, realm, signal, heard>> /\ pipe' = FALSE
      BY <1>1 DEF workerTake
    <3> QED
      BY <2>1, <2>2, <3>1, <3>2 DEF TypeInv
<1>2. CASE workerRunSkip
  <2>1. worker.skip \in Versions
    BY <1>2, MaxVersionAssumption DEF workerRunSkip, TypeInv, WorkerTyped, WorkerState, Versions
  <2>2. Typed(nt')
    BY <1>2, <2>1, RunAllIs DEF workerRunSkip
  <2>3. WorkerTyped'
    BY <1>2 DEF workerRunSkip, runAll, TypeInv, WorkerTyped, WorkerState
  <2> QED
    BY <1>2, <2>2, <2>3 DEF workerRunSkip, runAll, TypeInv
<1>3. CASE workerRun
  <2>1. worker.version \in Versions
    BY <1>3, MaxVersionAssumption DEF workerRun, TypeInv, WorkerTyped, WorkerState, Versions
  <2>2. Typed(nt')
    BY <1>3, <2>1, RunAllIs DEF workerRun
  <2>3. WorkerTyped'
    BY <1>3 DEF workerRun, runAll, TypeInv, WorkerTyped, WorkerState
  <2> QED
    BY <1>3, <2>2, <2>3 DEF workerRun, runAll, TypeInv
<1>4. CASE workerHandoverSkip
  <2>1. worker.skip \in Versions
    BY <1>4, MaxVersionAssumption DEF workerHandoverSkip, TypeInv, WorkerTyped, WorkerState, Versions
  <2>2. Typed(nt')
    BY <1>4, <2>1, HandedOverIs DEF workerHandoverSkip
  <2>3. WorkerTyped'
    BY <1>4 DEF workerHandoverSkip, TypeInv, WorkerTyped, WorkerState
  <2> QED
    BY <1>4, <2>2, <2>3 DEF workerHandoverSkip, TypeInv
<1>5. CASE workerHandover
  <2>1. Typed(nt')
    BY <1>5, WorkerHandoverIs
  <2>2. WorkerTyped'
    BY <1>5 DEF workerHandover, TypeInv, WorkerTyped, WorkerState
  <2> QED
    BY <1>5, <2>1, <2>2 DEF workerHandover, TypeInv
<1>6. CASE workerSignal
  <2>1. WorkerTyped'
    BY <1>6, MaxVersionAssumption DEF workerSignal, WorkerTyped, WorkerState
  <2> QED
    BY <1>6, <2>1 DEF workerSignal, TypeInv
<1> QED
  BY <1>1, <1>2, <1>3, <1>4, <1>5, <1>6 DEF workerStep

\* The Realm's thread goes on to call callbacks.
LEMMA DeliveringTyped ==
    ASSUME TypeInv, NEW r \in Realms, NEW v \in Versions, NEW at \in {"deliver", "deliver in write"},
           NEW ns \in SUBSET Notifiers, delivering(r, v, at, ns)
    PROVE  realm' \in [Realms -> RealmState]
  BY DEF delivering, TypeInv, RealmState

\* Nothing is ahead of the file.
Behind ==
    /\ \A r \in Realms : realm[r].version <= latest /\ realm[r].target <= latest
    /\ \A n \in Notifiers : nt[n].version <= latest
    /\ worker.version <= latest /\ worker.skip <= latest
    /\ skipVersion <= latest

\* What Realm::notify packages, and the version it goes to.
packable(r) == {n \in notifiers_for_realm(r) : can_package(nt[n])}
packableNow(r) == {n \in packable(r) : nt[n].version = realm[r].version}
versionOf(ns) == CHOOSE w \in {nt[n].version : n \in ns} : TRUE

\* The branches of Realm::notify.
NotifyBranches(r) ==
    \/ UNCHANGED <<nt, realm>>
    \/ /\ realm[r].at = "idle"
       /\ packagedAndDelivered(packableNow(r))
       /\ delivering(r, realm[r].version, "deliver", packableNow(r))
    \/ /\ realm[r].at = "idle" /\ packable(r) = {}
       /\ UNCHANGED nt /\ delivering(r, latest, "deliver", {})
    \/ /\ realm[r].at = "idle" /\ packable(r) # {}
       /\ versionOf(packable(r)) < realm[r].version
       /\ nt' = packaged(packable(r)) /\ UNCHANGED realm
    \/ /\ realm[r].at = "idle" /\ packable(r) # {}
       /\ versionOf(packable(r)) >= realm[r].version
       /\ packagedAndDelivered(packable(r))
       /\ delivering(r, versionOf(packable(r)), "deliver", packable(r))

LEMMA NotifyIs ==
    ASSUME NEW r \in Realms, notify(r), latest \in Int, realm[r].version \in Int,
           realm[r].version <= latest,
           packable(r) # {} => versionOf(packable(r)) \in Int
    PROVE  NotifyBranches(r)
<1>1. CASE realm[r].at = "write"
  BY <1>1 DEF notify, NotifyBranches
<1>2. CASE realm[r].at = "idle" /\ latest = realm[r].version
  BY <1>2 DEF notify, packable, packableNow, NotifyBranches
<1>3. CASE realm[r].at = "idle" /\ latest # realm[r].version
  BY <1>3 DEF notify, packable, versionOf, NotifyBranches
<1> QED
  BY <1>1, <1>2, <1>3 DEF notify

LEMMA versionOfIs ==
    ASSUME TypeInv, NEW ns \in SUBSET Notifiers, ns # {}, \A n \in ns : can_package(nt[n])
    PROVE  versionOf(ns) \in Versions /\ \E n \in ns : versionOf(ns) = nt[n].version
<1>1. \A n \in ns : nt[n].version \in Versions
  BY MaxVersionAssumption DEF can_package, TypeInv, Typed, CollectionNotifier, Versions
<1>2. versionOf(ns) \in {nt[n].version : n \in ns}
  BY DEF versionOf
<1> QED
  BY <1>1, <1>2

LEMMA NotifyCases ==
    ASSUME TypeInv, Behind, NEW r \in Realms, notify(r)
    PROVE  /\ NotifyBranches(r)
           /\ packable(r) \in SUBSET Notifiers /\ \A n \in packable(r) : can_package(nt[n])
           /\ packable(r) # {} => versionOf(packable(r)) \in Versions
           /\ packable(r) # {} => \E n \in packable(r) : versionOf(packable(r)) = nt[n].version
<1>1. packable(r) \in SUBSET Notifiers /\ \A n \in packable(r) : can_package(nt[n])
  BY DEF packable, notifiers_for_realm
<1>2. packable(r) # {} => /\ versionOf(packable(r)) \in Versions
                          /\ \E n \in packable(r) : versionOf(packable(r)) = nt[n].version
  BY <1>1, versionOfIs
<1>3. latest \in Int /\ realm[r].version \in Int /\ realm[r].version <= latest
  <2>1. latest \in Versions /\ realm[r].version \in Versions
    BY DEF TypeInv, RealmState
  <2> QED
    BY <2>1 DEF Behind, Versions
<1>4. packable(r) # {} => versionOf(packable(r)) \in Int
  BY <1>2 DEF Versions
<1> QED
  BY <1>1, <1>2, <1>3, <1>4, NotifyIs

LEMMA PackagesBehind ==
    ASSUME NEW ns, Packages(ns)
    PROVE  \A n \in Notifiers : nt'[n].version = nt[n].version
  BY DEF Packages, PackagedAs, SameRuns

LEMMA DeliveringBehind ==
    ASSUME TypeInv, Behind, NEW r \in Realms, NEW v \in Versions, v <= latest, NEW at, NEW ns,
           delivering(r, v, at, ns), \A n \in Notifiers : nt'[n].version = nt[n].version,
           UNCHANGED <<latest, worker, skipVersion>>
    PROVE  Behind'
<1>1. realm'[r].version = v /\ realm'[r].target = v
  BY DEF delivering, TypeInv
<1>2. \A s \in Realms : s # r => realm'[s] = realm[s]
  BY DEF delivering, TypeInv
<1> QED
  BY <1>1, <1>2 DEF Behind

LEMMA notifyTyped ==
    ASSUME TypeInv, Behind, NEW r \in Realms, notify(r)
    PROVE  TypeInv' /\ Behind'
<1>1. /\ signal' = [signal EXCEPT ![r] = FALSE]
      /\ UNCHANGED <<latest, writer, pipe, worker, skipVersion, heard>>
  BY DEF notify
<1>2. signal' \in [Realms -> BOOLEAN]
  BY <1>1 DEF TypeInv
<1>3. SUFFICES Typed(nt') /\ realm' \in [Realms -> RealmState] /\ Behind'
  BY <1>1, <1>2 DEF TypeInv, WorkerTyped
<1>4. PICK v \in Versions, ns \in SUBSET Notifiers :
        v = realm[r].version /\ v <= latest /\ ns = packableNow(r)
  <2>1. realm[r].version \in Versions /\ realm[r].version <= latest
    BY DEF TypeInv, RealmState, Behind
  <2>2. packableNow(r) \in SUBSET Notifiers
    BY NotifyCases DEF packableNow
  <2> QED
    BY <2>1, <2>2
<1>5. latest \in Versions /\ latest <= latest
  BY DEF TypeInv, Versions
<1>6. CASE UNCHANGED <<nt, realm>>
  BY <1>1, <1>6 DEF TypeInv, Behind
<1>7. CASE packagedAndDelivered(ns) /\ delivering(r, v, "deliver", ns)
  BY <1>1, <1>4, <1>7, PackagedAndDeliveredIs, PackagesBehind, DeliveringTyped, DeliveringBehind DEF TypeInv
<1>8. CASE UNCHANGED nt /\ delivering(r, latest, "deliver", {})
  <2>1. Typed(nt') /\ \A n \in Notifiers : nt'[n].version = nt[n].version
    BY <1>8 DEF TypeInv
  <2>2. realm' \in [Realms -> RealmState]
    <3>1. {} \in SUBSET Notifiers /\ "deliver" \in {"deliver", "deliver in write"}
      OBVIOUS
    <3> QED
      BY <1>5, <1>8, <3>1, DeliveringTyped
  <2> QED
    BY <1>1, <1>5, <1>8, <2>1, <2>2, DeliveringBehind
<1>9. CASE nt' = packaged(packable(r)) /\ UNCHANGED realm
  <2>1. Typed(nt') /\ \A n \in Notifiers : nt'[n].version = nt[n].version
    BY <1>9, PackagedIs, PackagesBehind DEF TypeInv
  <2> QED
    BY <1>1, <1>9, <2>1 DEF TypeInv, Behind
<1>10. CASE /\ packable(r) # {} /\ packagedAndDelivered(packable(r))
            /\ delivering(r, versionOf(packable(r)), "deliver", packable(r))
  <2>1. PICK w \in Versions, all \in SUBSET Notifiers : w = versionOf(packable(r)) /\ all = packable(r)
    BY <1>10, NotifyCases
  <2>2. w <= latest
    BY <1>10, <2>1, NotifyCases DEF Behind
  <2>3. packagedAndDelivered(all) /\ delivering(r, w, "deliver", all)
    BY <1>10, <2>1
  <2> QED
    BY <1>1, <2>2, <2>3, PackagedAndDeliveredIs, PackagesBehind, DeliveringTyped, DeliveringBehind DEF TypeInv
<1> QED
  BY <1>4, <1>6, <1>7, <1>8, <1>9, <1>10, NotifyCases DEF NotifyBranches

\* A Realm does something else, at the version it has or at the latest.
LEMMA OtherwiseTyped ==
    ASSUME TypeInv, Behind, NEW r \in Realms, NEW x \in RealmState,
           x.version <= latest, x.target <= latest, realm' = [realm EXCEPT ![r] = x], UNCHANGED latest
    PROVE  /\ realm' \in [Realms -> RealmState]
           /\ \A s \in Realms : realm'[s].version <= latest' /\ realm'[s].target <= latest'
<1>1. realm' \in [Realms -> RealmState] /\ realm'[r] = x /\ \A s \in Realms : s # r => realm'[s] = realm[s]
  BY DEF TypeInv
<1> QED
  BY <1>1 DEF Behind

LEMMA after_advanceTyped ==
    ASSUME TypeInv, Behind, NEW r \in Realms, NEW n \in Notifiers, after_advance(r, n)
    PROVE  TypeInv' /\ Behind'
<1>1. UNCHANGED <<latest, writer, signal, pipe, worker, skipVersion>>
  BY DEF after_advance
<1>2. Typed(nt') /\ \A m \in Notifiers : nt'[m].version = nt[m].version
  <2>1. Typed(nt') /\ OnlyOf(n) /\ nt'[n].version = nt[n].version
    <3>1. CASE nt[n].index + 1 < nt[n].count
      BY <3>1, CalledIs DEF CalledAt, SameRuns
    <3>2. CASE ~(nt[n].index + 1 < nt[n].count)
      BY <3>2, CallsEndedIs DEF CallsEnded, SameRuns
    <3> QED
      BY <3>1, <3>2
  <2> QED
    BY <2>1 DEF OnlyOf
<1>3. PICK y \in RealmState : y = realm[r] /\ y.version <= latest /\ y.target <= latest
  BY DEF TypeInv, Behind
<1>4. PICK x \in RealmState : /\ realm' = [realm EXCEPT ![r] = x]
                              /\ x.version = y.version /\ x.target = y.target
  <2>1. PICK hears \in BOOLEAN : hears = ~(/\ nt[n].callbacks[nt[n].index + 1 + 1].initial_delivered
                                           /\ nt[n].callbacks[nt[n].index + 1 + 1].out = {})
    OBVIOUS
  <2>2. PICK z1, z2 : /\ z1 = [y EXCEPT !.now = n, !.calling = hears]
                      /\ z2 = [y EXCEPT !.package = @ \ {n}, !.now = None, !.calling = FALSE]
    OBVIOUS
  <2>3. realm' = [realm EXCEPT ![r] = z1] \/ realm' = [realm EXCEPT ![r] = z2]
    <3>1. CASE nt[n].index + 1 < nt[n].count
      BY <1>3, <2>1, <2>2, <3>1 DEF after_advance, TypeInv
    <3>2. CASE ~(nt[n].index + 1 < nt[n].count)
      BY <1>3, <2>2, <3>2 DEF after_advance, TypeInv
    <3> QED
      BY <3>1, <3>2
  <2>4. z1 \in RealmState /\ z1.version = y.version /\ z1.target = y.target
    BY <2>2 DEF RealmState
  <2>5. z2 \in RealmState /\ z2.version = y.version /\ z2.target = y.target
    BY <2>2 DEF RealmState
  <2> QED
    BY <2>3, <2>4, <2>5
<1>5. heard' \in [Tokens -> HeardState]
  <2>1. CASE UNCHANGED heard
    BY <2>1 DEF TypeInv
  <2>2. CASE heard' # heard
    <3>1. PICK p, cb : p = nt[n].index + 2 /\ cb = nt[n].callbacks[p]
      OBVIOUS
    <3>2. heard' = callbackHeard(cb.token, y.version, cb.out) /\ nt[n].index + 1 < nt[n].count
      <4>1. nt[n].index + 1 + 1 = nt[n].index + 2
        BY DEF TypeInv, Typed, CollectionNotifier, npos
      <4> QED
        BY <1>3, <2>2, <3>1, <4>1 DEF after_advance
    <3>3. p \in DOMAIN nt[n].callbacks
      BY <3>1, <3>2, CalledIs DEF CalledAt
    <3>4. cb \in Callback
      BY <3>1, <3>3 DEF TypeInv, Typed, CollectionNotifier
    <3>5. PICK t \in Tokens, out \in SUBSET Versions, v \in 0..MaxVersion :
            t = cb.token /\ out = cb.out /\ v = y.version
      <4>1. cb.token \in Tokens /\ cb.out \in SUBSET Versions
        BY <3>4 DEF Callback
      <4>2. y.version \in 0..MaxVersion
        <5>1. y.version \in Versions
          BY DEF RealmState
        <5> QED
          BY <5>1, MaxVersionAssumption DEF Versions
      <4> QED
        BY <4>1, <4>2
    <3>6. PICK h \in HeardState : h = heard[t]
      BY DEF TypeInv
    <3>7. PICK g : g = IF h.told = 0 THEN [h EXCEPT !.base = v, !.told = v]
                       ELSE [h EXCEPT !.told = v, !.got = h.got \cup out]
      OBVIOUS
    <3>8. g \in HeardState
      BY <3>7 DEF HeardState
    <3>9. heard' = [heard EXCEPT ![t] = g]
      <4>1. callbackHeard(t, v, out) = [heard EXCEPT ![t] = g]
        BY <3>6, <3>7 DEF callbackHeard
      <4> QED
        BY <3>2, <3>5, <4>1
    <3> QED
      BY <3>8, <3>9 DEF TypeInv
  <2> QED
    BY <2>1, <2>2
<1>6. TypeInv'
  BY <1>1, <1>2, <1>4, <1>5 DEF TypeInv, WorkerTyped
<1>7. \A s \in Realms : realm'[s].version <= latest' /\ realm'[s].target <= latest'
  BY <1>1, <1>3, <1>4, OtherwiseTyped
<1>8. Behind'
  BY <1>1, <1>2, <1>7 DEF Behind
<1> QED
  BY <1>6, <1>8

LEMMA deliveredTyped ==
    ASSUME TypeInv, Behind, NEW r \in Realms, delivered(r)
    PROVE  TypeInv' /\ Behind'
<1>1. PICK y \in RealmState : y = realm[r] /\ y.version <= latest /\ y.target <= latest
  BY DEF TypeInv, Behind
<1>2. PICK x : x = [y EXCEPT !.at = IF y.at = "deliver" THEN "idle" ELSE "write"]
  OBVIOUS
<1>3. x \in RealmState /\ x.version = y.version /\ x.target = y.target
  BY <1>2 DEF RealmState
<1>4. realm' = [realm EXCEPT ![r] = x] /\ UNCHANGED <<latest, writer, signal, nt, pipe, worker, skipVersion, heard>>
  BY <1>1, <1>2 DEF delivered, TypeInv
<1>5. /\ realm' \in [Realms -> RealmState]
      /\ \A s \in Realms : realm'[s].version <= latest' /\ realm'[s].target <= latest'
  BY <1>1, <1>3, <1>4, OtherwiseTyped
<1> QED
  BY <1>4, <1>5 DEF TypeInv, WorkerTyped, Behind

\* Starting to wait, for refresh and begin_transaction.
LEMMA startWaitingTyped ==
    ASSUME TypeInv, Behind, NEW r \in Realms, NEW at \in {"refresh", "begin"}, startWaiting(r, at),
           writer' \in Realms \cup {None}, UNCHANGED <<latest, signal, nt, worker, skipVersion, heard>>
    PROVE  TypeInv' /\ Behind'
<1>1. PICK y \in RealmState : y = realm[r] /\ y.version <= latest
  BY DEF TypeInv, Behind
<1>2. latest \in Versions /\ latest <= latest
  BY DEF TypeInv, Versions
<1>3. PICK ns \in SUBSET Notifiers : ns = notifiers_for_realm(r)
  BY DEF notifiers_for_realm
<1>4. PICK x : x = [y EXCEPT !.at = at, !.target = latest, !.package = ns]
  OBVIOUS
<1>5. x \in RealmState /\ x.version = y.version /\ x.target = latest
  BY <1>2, <1>4 DEF RealmState
<1>6. realm' = [realm EXCEPT ![r] = x]
  BY <1>1, <1>3, <1>4 DEF startWaiting, TypeInv
<1>7. /\ realm' \in [Realms -> RealmState]
      /\ \A s \in Realms : realm'[s].version <= latest' /\ realm'[s].target <= latest'
  BY <1>1, <1>2, <1>5, <1>6, OtherwiseTyped
<1>8. pipe' \in BOOLEAN
  BY DEF startWaiting, TypeInv
<1> QED
  BY <1>7, <1>8 DEF TypeInv, WorkerTyped, Behind

\* What is packaged once the wait is over has a version, or none is needed.
LEMMA waitedForIs ==
    ASSUME TypeInv, Behind, NEW r \in Realms
    PROVE  /\ waitedFor(r) \in SUBSET Notifiers /\ waitedFor(r) \subseteq realm[r].package
           /\ \A n \in waitedFor(r) : /\ can_package(nt[n]) /\ ~(nt[n].version < realm[r].target)
                                      /\ nt[n].version \in Versions /\ nt[n].version <= latest
<1>1. realm[r].package \in SUBSET Notifiers
  BY DEF TypeInv, RealmState
<1>2. /\ waitedFor(r) \subseteq realm[r].package
      /\ \A n \in waitedFor(r) : can_package(nt[n]) /\ ~(nt[n].version < realm[r].target)
  BY DEF waitedFor
<1>3. \A n \in Notifiers : can_package(nt[n]) => nt[n].version \in Versions
  BY MaxVersionAssumption DEF can_package, TypeInv, Typed, CollectionNotifier, Versions
<1> QED
  BY <1>1, <1>2, <1>3 DEF Behind

LEMMA refreshedTyped ==
    ASSUME TypeInv, Behind, NEW r \in Realms, refreshed(r)
    PROVE  TypeInv' /\ Behind'
<1>1. PICK ns \in SUBSET Notifiers : ns = waitedFor(r)
  BY waitedForIs
<1>2. packagedAndDelivered(ns) /\ UNCHANGED <<latest, writer, signal, pipe, worker, skipVersion, heard>>
  BY <1>1 DEF refreshed
<1>3. PICK v : /\ v \in (IF ns = {} THEN {latest} ELSE {nt[n].version : n \in ns})
               /\ delivering(r, v, "deliver", ns)
  BY <1>1 DEF refreshed
<1>4. v \in Versions /\ v <= latest
  BY <1>1, <1>3, waitedForIs DEF TypeInv, Versions
<1>5. Typed(nt') /\ \A n \in Notifiers : nt'[n].version = nt[n].version
  BY <1>2, PackagedAndDeliveredIs, PackagesBehind DEF TypeInv
<1>6. realm' \in [Realms -> RealmState] /\ Behind'
  BY <1>2, <1>3, <1>4, <1>5, DeliveringTyped, DeliveringBehind
<1> QED
  BY <1>2, <1>5, <1>6 DEF TypeInv, WorkerTyped

LEMMA begunTyped ==
    ASSUME TypeInv, Behind, NEW r \in Realms, begun(r)
    PROVE  TypeInv' /\ Behind'
<1>1. PICK ns \in SUBSET Notifiers : ns = waitedFor(r)
  BY waitedForIs
<1>2. delivering(r, latest, "deliver in write", ns)
      /\ UNCHANGED <<latest, writer, signal, pipe, worker, skipVersion, heard>>
  BY <1>1 DEF begun
<1>3. latest \in Versions /\ latest <= latest
  BY DEF TypeInv, Versions
<1>4. Typed(nt') /\ \A n \in Notifiers : nt'[n].version = nt[n].version
  BY PackagedIs, PackagesBehind DEF begun, TypeInv
<1>5. realm' \in [Realms -> RealmState] /\ Behind'
  <2>1. "deliver in write" \in {"deliver", "deliver in write"}
    OBVIOUS
  <2> QED
    BY <1>2, <1>3, <1>4, <2>1, DeliveringTyped, DeliveringBehind
<1> QED
  BY <1>2, <1>4, <1>5 DEF TypeInv, WorkerTyped

LEMMA begin_in_callbackTyped ==
    ASSUME TypeInv, Behind, NEW r \in Realms, begin_in_callback(r)
    PROVE  TypeInv' /\ Behind'
<1>1. PICK y \in RealmState : y = realm[r] /\ y.target <= latest
  BY DEF TypeInv, Behind
<1>2. latest \in Versions /\ latest <= latest
  BY DEF TypeInv, Versions
<1>3. PICK x : x = [y EXCEPT !.at = "write in callback", !.version = latest]
  OBVIOUS
<1>4. x \in RealmState /\ x.version = latest /\ x.target = y.target
  BY <1>2, <1>3 DEF RealmState
<1>5. realm' = [realm EXCEPT ![r] = x] /\ writer' = r
      /\ UNCHANGED <<latest, signal, nt, pipe, worker, skipVersion>>
  BY <1>1, <1>3 DEF begin_in_callback, TypeInv
<1>6. /\ realm' \in [Realms -> RealmState]
      /\ \A s \in Realms : realm'[s].version <= latest' /\ realm'[s].target <= latest'
  BY <1>1, <1>2, <1>4, <1>5, OtherwiseTyped
<1>7. heard' \in [Tokens -> HeardState]
  <2>1. PICK vs \in SUBSET Versions : vs = (realm[r].version..(latest + 1)) \cap Versions
    OBVIOUS
  <2>2. heard' = [t \in Tokens |-> IF RealmOf[NotifierOf[t]] # r THEN heard[t]
                                   ELSE [heard[t] EXCEPT !.overtaken = @ \cup vs]]
    BY <2>1 DEF begin_in_callback
  <2>3. ASSUME NEW h \in HeardState
        PROVE  [h EXCEPT !.overtaken = @ \cup vs] \in HeardState
    BY DEF HeardState
  <2> QED
    BY <2>2, <2>3 DEF TypeInv
<1> QED
  BY <1>5, <1>6, <1>7 DEF TypeInv, WorkerTyped, Behind

LEMMA cancel_transactionTyped ==
    ASSUME TypeInv, Behind, NEW r \in Realms, cancel_transaction(r)
    PROVE  TypeInv' /\ Behind'
<1>1. PICK y \in RealmState : y = realm[r] /\ y.version <= latest /\ y.target <= latest
  BY DEF TypeInv, Behind
<1>2. PICK x : x = [y EXCEPT !.at = leftWrite(r)]
  OBVIOUS
<1>3. x \in RealmState /\ x.version = y.version /\ x.target = y.target
  BY <1>2 DEF RealmState, leftWrite
<1>4. realm' = [realm EXCEPT ![r] = x] /\ writer' = None
      /\ UNCHANGED <<latest, signal, nt, pipe, worker, skipVersion, heard>>
  BY <1>1, <1>2 DEF cancel_transaction, TypeInv
<1>5. /\ realm' \in [Realms -> RealmState]
      /\ \A s \in Realms : realm'[s].version <= latest' /\ realm'[s].target <= latest'
  BY <1>1, <1>3, <1>4, OtherwiseTyped
<1> QED
  BY <1>4, <1>5 DEF TypeInv, WorkerTyped, Behind

\* A commit: everything was at the version before it, or at an earlier one.
LEMMA LaterBehind ==
    ASSUME TypeInv, Behind, latest < MaxVersion, latest' = latest + 1
    PROVE  /\ latest' \in Versions
           /\ \A r \in Realms : realm[r].version <= latest' /\ realm[r].target <= latest'
           /\ \A n \in Notifiers : nt[n].version <= latest'
           /\ worker.version <= latest' /\ worker.skip <= latest' /\ skipVersion <= latest'
<1>1. latest \in 1..MaxVersion /\ MaxVersion \in Nat
  BY MaxVersionAssumption DEF TypeInv, Versions
<1>2. latest' \in Versions
  BY <1>1 DEF Versions
<1>3. \A x \in Int : x <= latest => x <= latest'
  BY <1>1
<1>4. \A r \in Realms : realm[r].version \in Int /\ realm[r].target \in Int
  <2>1. \A r \in Realms : realm[r].version \in Versions /\ realm[r].target \in Versions
    BY DEF TypeInv, RealmState
  <2> QED
    BY <2>1 DEF Versions
<1>5. \A n \in Notifiers : nt[n].version \in Int
  BY DEF TypeInv, Typed, CollectionNotifier
<1>6. worker.version \in Int /\ worker.skip \in Int /\ skipVersion \in Int
  BY DEF TypeInv, WorkerTyped, WorkerState
<1> QED
  BY <1>2, <1>3, <1>4, <1>5, <1>6 DEF Behind

LEMMA commit_transactionTyped ==
    ASSUME TypeInv, Behind, NEW r \in Realms, NEW ts, commit_transaction(r, ts)
    PROVE  TypeInv' /\ Behind'
<1>1. /\ latest < MaxVersion /\ latest' = latest + 1 /\ writer' = None /\ pipe' = TRUE
      /\ nt' = suppressed(ts) /\ UNCHANGED <<signal, worker>>
      /\ skipVersion' = skipAfter(r)
  BY DEF commit_transaction
<1>2. /\ latest' \in Versions
      /\ \A s \in Realms : realm[s].version <= latest' /\ realm[s].target <= latest'
      /\ \A n \in Notifiers : nt[n].version <= latest'
      /\ worker.version <= latest' /\ worker.skip <= latest' /\ skipVersion <= latest'
  BY <1>1, LaterBehind
<1>3. PICK y \in RealmState : y = realm[r] /\ y.target <= latest'
  BY <1>2 DEF TypeInv
<1>4. PICK x : x = [y EXCEPT !.at = leftWrite(r), !.version = latest']
  OBVIOUS
<1>5. x \in RealmState /\ x.version = latest' /\ x.target = y.target
  BY <1>2, <1>4 DEF RealmState, leftWrite
<1>6. realm' = [realm EXCEPT ![r] = x]
  BY <1>1, <1>3, <1>4 DEF commit_transaction, TypeInv
<1>7. /\ realm' \in [Realms -> RealmState] /\ realm'[r] = x
      /\ \A s \in Realms : s # r => realm'[s] = realm[s]
  BY <1>5, <1>6 DEF TypeInv
<1>8. latest' \in 0..MaxVersion /\ latest' <= latest'
  BY <1>2, MaxVersionAssumption DEF Versions
<1>9. skipVersion' \in 0..MaxVersion /\ skipVersion' <= latest'
  BY <1>1, <1>2, <1>8 DEF skipAfter, TypeInv
<1>10. heard' \in [Tokens -> HeardState]
  <2>1. heard' = [t \in Tokens |-> IF t \in ts THEN [heard[t] EXCEPT !.own = @ \cup {latest'}] ELSE heard[t]]
    BY <1>1 DEF commit_transaction
  <2>2. ASSUME NEW h \in HeardState
        PROVE  [h EXCEPT !.own = @ \cup {latest'}] \in HeardState
    BY <1>2 DEF HeardState
  <2> QED
    BY <2>1, <2>2 DEF TypeInv
<1>11. Typed(nt') /\ \A n \in Notifiers : nt'[n].version = nt[n].version
  BY <1>1, SuppressIs DEF Suppresses, SuppressedAs, SameRuns
<1>12. TypeInv'
  BY <1>1, <1>2, <1>7, <1>9, <1>10, <1>11 DEF TypeInv, WorkerTyped
<1>13. Behind'
  BY <1>1, <1>2, <1>3, <1>5, <1>7, <1>8, <1>9, <1>11 DEF Behind
<1> QED
  BY <1>12, <1>13

LEMMA commit_failsTyped ==
    ASSUME TypeInv, Behind, NEW r \in Realms, NEW ts, commit_fails(r, ts)
    PROVE  TypeInv' /\ Behind'
<1>1. nt' = suppressed(ts) /\ UNCHANGED <<latest, writer, realm, signal, pipe, worker, skipVersion, heard>>
  BY DEF commit_fails
<1>2. Typed(nt') /\ \A n \in Notifiers : nt'[n].version = nt[n].version
  BY <1>1, SuppressIs DEF Suppresses, SuppressedAs, SameRuns
<1> QED
  BY <1>1, <1>2 DEF TypeInv, WorkerTyped, Behind

LEMMA otherProcessCommitsTyped ==
    ASSUME TypeInv, Behind, otherProcessCommits
    PROVE  TypeInv' /\ Behind'
<1>1. /\ latest < MaxVersion /\ latest' = latest + 1 /\ pipe' = TRUE
      /\ UNCHANGED <<writer, realm, signal, nt, worker, skipVersion, heard>>
  BY DEF otherProcessCommits
<1>2. /\ latest' \in Versions
      /\ \A s \in Realms : realm[s].version <= latest' /\ realm[s].target <= latest'
      /\ \A n \in Notifiers : nt[n].version <= latest'
      /\ worker.version <= latest' /\ worker.skip <= latest' /\ skipVersion <= latest'
  BY <1>1, LaterBehind
<1> QED
  BY <1>1, <1>2 DEF TypeInv, WorkerTyped, Behind

LEMMA NotifierStepsBehind ==
    ASSUME TypeInv, Behind,
           \/ \E n \in Notifiers : register_notifier(n) \/ unregister(n)
           \/ \E t \in Tokens : add_callback(t)
           \/ \E n \in Notifiers : \E i \in DOMAIN nt[n].callbacks : remove_callback(n, i - 1)
    PROVE  Behind'
<1>1. UNCHANGED <<latest, realm, worker, skipVersion>>
  BY DEF register_notifier, unregister, add_callback, remove_callback
<1>2. \A r \in Realms : realm[r].version <= latest
  BY DEF Behind
<1>3. ASSUME NEW n \in Notifiers, OnlyOf(n), nt'[n].version <= latest
      PROVE  \A m \in Notifiers : nt'[m].version <= latest
  BY <1>3 DEF OnlyOf, Behind
<1>4. ASSUME NEW n \in Notifiers, OnlyOf(n), nt'[n].version = nt[n].version
      PROVE  \A m \in Notifiers : nt'[m].version <= latest
  BY <1>4 DEF OnlyOf, Behind
<1>5. ASSUME NEW n \in Notifiers, register_notifier(n)
      PROVE  \A m \in Notifiers : nt'[m].version <= latest
  BY <1>2, <1>3, <1>5, RegisteredIs, RealmOfAssumption DEF RegisteredAs
<1>6. ASSUME NEW n \in Notifiers, unregister(n)
      PROVE  \A m \in Notifiers : nt'[m].version <= latest
  BY <1>4, <1>6, UnregisteredIs DEF UnregisteredAs
<1>7. ASSUME NEW t \in Tokens, add_callback(t)
      PROVE  \A m \in Notifiers : nt'[m].version <= latest
  BY <1>4, <1>7, AddedCallback DEF AddedTo, SameRuns
<1>8. ASSUME NEW n \in Notifiers, NEW i \in DOMAIN nt[n].callbacks, remove_callback(n, i - 1)
      PROVE  \A m \in Notifiers : nt'[m].version <= latest
  BY <1>4, <1>8, RemovedCallback DEF RemovedFrom, SameRuns
<1>9. \A m \in Notifiers : nt'[m].version <= latest
  BY <1>5, <1>6, <1>7, <1>8
<1> QED
  BY <1>1, <1>9 DEF Behind

LEMMA WorkerStepsBehind ==
    ASSUME TypeInv, Behind, workerStep
    PROVE  Behind'
<1>1. UNCHANGED <<latest, realm>> /\ latest \in Nat /\ latest <= latest
  BY DEF workerStep, workerTake, workerRunSkip, workerRun, workerHandoverSkip, workerHandover,
         workerSignal, runAll, TypeInv, Versions
<1>2. CASE workerTake
  <2>1. \A n \in Notifiers : nt'[n].version = nt[n].version
    BY <1>2, TakenIs DEF TakenAs, StagedAs
  <2>2. worker'.version \in {worker.version, latest} /\ worker'.skip \in {worker.skip, 0, skipVersion}
    BY <1>2 DEF workerTake, TypeInv, WorkerTyped, WorkerState
  <2> QED
    BY <1>1, <1>2, <2>1, <2>2 DEF workerTake, Behind
<1>3. ASSUME NEW ns, NEW v \in Versions, NEW at, runAll(ns, v, at)
      PROVE  Behind'
  <2>1. \A n \in Notifiers : nt'[n].version = nt[n].version
    BY <1>3, RunAllIs DEF Runs, RanAs
  <2>2. worker'.version = worker.version /\ worker'.skip = worker.skip
    BY <1>3 DEF runAll, TypeInv, WorkerTyped, WorkerState
  <2> QED
    BY <1>1, <1>3, <2>1, <2>2 DEF runAll, Behind
<1>4. worker.at \in {"skip", "skipped"} => worker.skip \in Versions
  BY MaxVersionAssumption DEF TypeInv, WorkerTyped, WorkerState, Versions
<1>5. worker.at \in {"run", "ran"} => worker.version \in Versions
  BY MaxVersionAssumption DEF TypeInv, WorkerTyped, WorkerState, Versions
<1>6. CASE workerRunSkip
  BY <1>3, <1>4, <1>6 DEF workerRunSkip
<1>7. CASE workerRun
  BY <1>3, <1>5, <1>7 DEF workerRun
<1>8. CASE workerHandoverSkip
  <2>1. HandsOver(nt', worker.old, worker.skip)
    BY <1>4, <1>8, HandedOverIs DEF workerHandoverSkip
  <2>2. \A n \in Notifiers : nt'[n].version \in {nt[n].version, worker.skip}
    BY <2>1 DEF HandsOver, HandedOverAs
  <2>3. worker'.version = worker.version /\ worker'.skip = worker.skip
    BY <1>8 DEF workerHandoverSkip, TypeInv, WorkerTyped, WorkerState
  <2> QED
    BY <1>1, <1>8, <2>2, <2>3 DEF workerHandoverSkip, Behind
<1>9. CASE workerHandover
  <2>1. \A n \in Notifiers : nt'[n].version \in {nt[n].version, worker.version}
    BY <1>9, WorkerHandoverIs DEF HandedAndCleaned, HandedOverAs, CleanedAs, StagedAs
  <2>2. worker'.version = worker.version /\ worker'.skip = worker.skip
    BY <1>9 DEF workerHandover, TypeInv, WorkerTyped, WorkerState
  <2> QED
    BY <1>1, <1>9, <2>1, <2>2 DEF workerHandover, Behind
<1>10. CASE workerSignal
  BY <1>1, <1>10 DEF workerSignal, Behind
<1> QED
  BY <1>2, <1>6, <1>7, <1>8, <1>9, <1>10 DEF workerStep

LEMMA NextTyped ==
    ASSUME TypeInv, Behind, [Next]_vars
    PROVE  TypeInv' /\ Behind'
<1>1. CASE \/ \E n \in Notifiers : register_notifier(n) \/ unregister(n)
           \/ \E t \in Tokens : add_callback(t)
           \/ \E n \in Notifiers : \E i \in DOMAIN nt[n].callbacks : remove_callback(n, i - 1)
  BY <1>1, NotifierStepsTyped, NotifierStepsBehind
<1>2. CASE workerStep
  BY <1>2, WorkerStepsTyped, WorkerStepsBehind
<1>3. CASE otherProcessCommits
  BY <1>3, otherProcessCommitsTyped
<1>4. ASSUME NEW r \in Realms, realmStep(r)
      PROVE  TypeInv' /\ Behind'
  BY <1>4, notifyTyped, refreshedTyped, begunTyped, deliveredTyped, after_advanceTyped DEF realmStep
<1>5. ASSUME NEW r \in Realms, refresh(r)
      PROVE  TypeInv' /\ Behind'
  <2>1. writer' \in Realms \cup {None}
    BY <1>5 DEF refresh, TypeInv
  <2> QED
    BY <1>5, <2>1, startWaitingTyped DEF refresh
<1>6. ASSUME NEW r \in Realms, begin_transaction(r)
      PROVE  TypeInv' /\ Behind'
  BY <1>6, startWaitingTyped DEF begin_transaction
<1>7. ASSUME NEW r \in Realms,
             begin_in_callback(r) \/ cancel_transaction(r)
             \/ \E ts \in SUBSET suppressible(r) : commit_transaction(r, ts) \/ commit_fails(r, ts)
      PROVE  TypeInv' /\ Behind'
  BY <1>7, begin_in_callbackTyped, cancel_transactionTyped, commit_transactionTyped, commit_failsTyped
<1>8. CASE UNCHANGED vars
  BY <1>8 DEF vars, TypeInv, WorkerTyped, Behind
<1> QED
  BY <1>1, <1>2, <1>3, <1>4, <1>5, <1>6, <1>7, <1>8 DEF Next

LEMMA InitBehind ==
    ASSUME Init
    PROVE  Behind
  BY DEF Init, Behind

LEMMA TypedAlways == Spec => [](TypeInv /\ Behind)
<1>1. Init => TypeInv /\ Behind
  BY InitTyped, InitBehind
<1>2. TypeInv /\ Behind /\ [Next]_vars => TypeInv' /\ Behind'
  BY NextTyped
<1> QED
  BY <1>1, <1>2, PTL DEF Spec

\* The type invariant: the number of callbacks stays within the width of
\* m_callback_count, and a Realm goes to no version but one of the file.
THEOREM NotifierTypeCorrect == Spec => []TypeOK
<1>1. TypeInv => TypeOK
  BY TypeInvIsTypeOK
<1> QED
  BY <1>1, TypedAlways, PTL

-----------------------------------------------------------------------------
(* The index and the count of the callbacks that are called.               *)

Calls == {"deliver", "deliver in write", "write in callback"}

\* The callbacks of the notifier are being called.
Delivering(n) == n \in realm[RealmOf[n]].package /\ realm[RealmOf[n]].at \in Calls

\* A package is of one Realm, and gone once it is delivered.
PackageOf(r, x) ==
    /\ \A n \in x.package : RealmOf[n] = r
    /\ x.at \in {"idle", "write"} => x.package = {}
    /\ x.calling => x.at \in Calls /\ x.package # {}
    /\ x.at = "write in callback" => x.calling

OwnPackages == \A r \in Realms : PackageOf(r, realm[r])

CountInv ==
    \A n \in Notifiers :
        IF Delivering(n)
        THEN nt[n].count = Len(nt[n].callbacks) /\ nt[n].index < Len(nt[n].callbacks)
        ELSE nt[n].index = npos

\* A step of one Realm.
OnlyOfRealm(r) == \A s \in Realms : s # r => realm'[s] = realm[s]

LEMMA DeliveringIs ==
    ASSUME TypeInv, NEW r \in Realms, NEW v, NEW at, NEW ns, delivering(r, v, at, ns)
    PROVE  /\ OnlyOfRealm(r) /\ realm'[r].version = v /\ realm'[r].at = at
           /\ realm'[r].package = ns /\ realm'[r].calling = FALSE
  BY DEF delivering, OnlyOfRealm, TypeInv

\* A notifier of another Realm.
LEMMA ElsewhereDelivering ==
    ASSUME NEW r \in Realms, OnlyOfRealm(r), NEW n \in Notifiers, RealmOf[n] # r
    PROVE  Delivering(n)' <=> Delivering(n)
<1>1. realm'[RealmOf[n]] = realm[RealmOf[n]]
  BY RealmOfAssumption DEF OnlyOfRealm
<1> QED
  BY <1>1 DEF Delivering

LEMMA OwnPackagesOne ==
    ASSUME OwnPackages, NEW r \in Realms, OnlyOfRealm(r), PackageOf(r, realm'[r])
    PROVE  OwnPackages'
  BY DEF OwnPackages, OnlyOfRealm

LEMMA DeliveringOwn ==
    ASSUME TypeInv, OwnPackages, NEW r \in Realms, NEW v, NEW at \in {"deliver", "deliver in write"}, NEW ns,
           \A n \in ns : RealmOf[n] = r, delivering(r, v, at, ns)
    PROVE  OwnPackages'
<1>1. PackageOf(r, realm'[r])
  <2>1. realm'[r].at = at /\ realm'[r].package = ns /\ realm'[r].calling = FALSE
    BY DeliveringIs
  <2> QED
    BY <2>1 DEF PackageOf
<1> QED
  BY <1>1, DeliveringIs, OwnPackagesOne

LEMMA NextOwn ==
    ASSUME TypeInv, Behind, OwnPackages, [Next]_vars
    PROVE  OwnPackages'
<1>1. CASE UNCHANGED realm
  BY <1>1 DEF OwnPackages
<1>2. ASSUME NEW r \in Realms, notify(r)
      PROVE  OwnPackages'
  <2>1. \A n \in packable(r) : RealmOf[n] = r
    BY DEF packable, notifiers_for_realm
  <2>2. \A n \in packableNow(r) : RealmOf[n] = r
    BY <2>1 DEF packableNow
  <2>3. "deliver" \in {"deliver", "deliver in write"}
    OBVIOUS
  <2> QED
    BY <1>1, <1>2, <2>1, <2>2, <2>3, NotifyCases, DeliveringOwn DEF NotifyBranches
<1>3. ASSUME NEW r \in Realms
      PROVE  \A n \in waitedFor(r) : RealmOf[n] = r
  BY <1>3 DEF waitedFor, OwnPackages, PackageOf
<1>4. ASSUME NEW r \in Realms, refreshed(r)
      PROVE  OwnPackages'
  <2>1. PICK v : delivering(r, v, "deliver", waitedFor(r))
    BY <1>4 DEF refreshed
  <2>2. "deliver" \in {"deliver", "deliver in write"}
    OBVIOUS
  <2> QED
    BY <1>3, <2>1, <2>2, DeliveringOwn
<1>5. ASSUME NEW r \in Realms, begun(r)
      PROVE  OwnPackages'
  <2>1. delivering(r, latest, "deliver in write", waitedFor(r))
    BY <1>5 DEF begun
  <2>2. "deliver in write" \in {"deliver", "deliver in write"}
    OBVIOUS
  <2> QED
    BY <1>3, <2>1, <2>2, DeliveringOwn
<1>6. ASSUME NEW r \in Realms, NEW x, realm' = [realm EXCEPT ![r] = x], PackageOf(r, x)
      PROVE  OwnPackages'
  <2>1. OnlyOfRealm(r) /\ realm'[r] = x
    BY <1>6 DEF OnlyOfRealm, TypeInv
  <2> QED
    BY <1>6, <2>1, OwnPackagesOne
<1>7. ASSUME NEW r \in Realms
      PROVE  realm[r] \in RealmState /\ PackageOf(r, realm[r])
  BY <1>7 DEF TypeInv, OwnPackages
<1>8. ASSUME NEW r \in Realms, NEW n \in Notifiers, after_advance(r, n)
      PROVE  OwnPackages'
  <2>1. PICK y \in RealmState : y = realm[r] /\ PackageOf(r, y)
    BY <1>7
  <2>2. y.at \in {"deliver", "deliver in write"} /\ n \in y.package
    BY <1>8, <2>1 DEF after_advance
  <2>3. PICK hears \in BOOLEAN : hears = ~(/\ nt[n].callbacks[nt[n].index + 1 + 1].initial_delivered
                                           /\ nt[n].callbacks[nt[n].index + 1 + 1].out = {})
    OBVIOUS
  <2>4. \/ realm' = [realm EXCEPT ![r] = [y EXCEPT !.now = n, !.calling = hears]]
        \/ realm' = [realm EXCEPT ![r] = [y EXCEPT !.package = @ \ {n}, !.now = None, !.calling = FALSE]]
    <3>1. CASE nt[n].index + 1 < nt[n].count
      BY <1>8, <2>1, <2>3, <3>1 DEF after_advance, TypeInv
    <3>2. CASE ~(nt[n].index + 1 < nt[n].count)
      BY <1>8, <2>1, <2>3, <3>2 DEF after_advance, TypeInv
    <3> QED
      BY <3>1, <3>2
  <2>5. PackageOf(r, [y EXCEPT !.now = n, !.calling = hears])
    BY <2>1, <2>2 DEF PackageOf, RealmState, Calls
  <2>6. PackageOf(r, [y EXCEPT !.package = @ \ {n}, !.now = None, !.calling = FALSE])
    BY <2>1, <2>2 DEF PackageOf, RealmState
  <2> QED
    BY <1>6, <2>4, <2>5, <2>6
<1>9. ASSUME NEW r \in Realms, delivered(r)
      PROVE  OwnPackages'
  <2>1. PICK y \in RealmState : y = realm[r] /\ PackageOf(r, y)
    BY <1>7
  <2>2. PICK x : x = [y EXCEPT !.at = IF y.at = "deliver" THEN "idle" ELSE "write"]
    OBVIOUS
  <2>3. y.package = {} /\ realm' = [realm EXCEPT ![r] = x]
    BY <1>9, <2>1, <2>2 DEF delivered, TypeInv
  <2>4. PackageOf(r, x)
    BY <2>1, <2>2, <2>3 DEF PackageOf, RealmState
  <2> QED
    BY <1>6, <2>3, <2>4
<1>10. ASSUME NEW r \in Realms, NEW at \in {"refresh", "begin"}, startWaiting(r, at), realm[r].at = "idle"
       PROVE  OwnPackages'
  <2>1. PICK y \in RealmState : y = realm[r] /\ PackageOf(r, y)
    BY <1>7
  <2>2. PICK ns : ns = notifiers_for_realm(r) /\ \A n \in ns : RealmOf[n] = r
    <3>1. \A n \in notifiers_for_realm(r) : RealmOf[n] = r
      BY DEF notifiers_for_realm
    <3> QED
      BY <3>1
  <2>3. PICK x : x = [y EXCEPT !.at = at, !.target = latest, !.package = ns]
    OBVIOUS
  <2>4. PackageOf(r, x)
    BY <1>10, <2>1, <2>2, <2>3 DEF PackageOf, RealmState, Calls
  <2>5. realm' = [realm EXCEPT ![r] = x]
    BY <1>10, <2>1, <2>2, <2>3 DEF startWaiting, TypeInv
  <2> QED
    BY <1>6, <2>4, <2>5
<1>11. ASSUME NEW r \in Realms, begin_in_callback(r)
       PROVE  OwnPackages'
  <2>1. PICK y \in RealmState : y = realm[r] /\ PackageOf(r, y)
    BY <1>7
  <2>2. PICK x : x = [y EXCEPT !.at = "write in callback", !.version = latest]
    OBVIOUS
  <2>3. y.calling /\ y.at = "deliver" /\ realm' = [realm EXCEPT ![r] = x]
    BY <1>11, <2>1, <2>2 DEF begin_in_callback, TypeInv
  <2>4. PackageOf(r, x)
    BY <2>1, <2>2, <2>3 DEF PackageOf, RealmState, Calls
  <2> QED
    BY <1>6, <2>3, <2>4
<1>12. ASSUME NEW r \in Realms, NEW v, NEW at, at = leftWrite(r), realm[r].at \in {"write", "write in callback"}
       PROVE  LET y == realm[r] IN
              /\ PackageOf(r, [y EXCEPT !.at = at, !.version = v])
              /\ PackageOf(r, [y EXCEPT !.at = at])
  <2>1. PICK y \in RealmState : y = realm[r] /\ PackageOf(r, y)
    BY <1>7
  <2>2. at = IF y.at = "write" THEN "idle" ELSE "deliver"
    BY <1>12, <2>1 DEF leftWrite
  <2>3. PackageOf(r, [y EXCEPT !.at = at, !.version = v]) /\ PackageOf(r, [y EXCEPT !.at = at])
    BY <1>12, <2>1, <2>2 DEF PackageOf, RealmState, Calls
  <2> QED
    BY <2>1, <2>3
<1>13. ASSUME NEW r \in Realms, NEW ts, commit_transaction(r, ts)
       PROVE  OwnPackages'
  <2>1. PICK v, at, x : /\ v = latest + 1 /\ at = leftWrite(r)
                        /\ x = [realm[r] EXCEPT !.at = at, !.version = v]
    OBVIOUS
  <2>2. realm' = [realm EXCEPT ![r] = x] /\ realm[r].at \in {"write", "write in callback"}
    BY <1>13, <2>1 DEF commit_transaction, TypeInv
  <2>3. PackageOf(r, x)
    BY <1>12, <2>1, <2>2
  <2> QED
    BY <1>6, <2>2, <2>3
<1>14. ASSUME NEW r \in Realms, cancel_transaction(r)
       PROVE  OwnPackages'
  <2>1. PICK at, x : at = leftWrite(r) /\ x = [realm[r] EXCEPT !.at = at]
    OBVIOUS
  <2>2. realm' = [realm EXCEPT ![r] = x] /\ realm[r].at \in {"write", "write in callback"}
    BY <1>14, <2>1 DEF cancel_transaction, TypeInv
  <2>3. PackageOf(r, x)
    BY <1>12, <2>1, <2>2
  <2> QED
    BY <1>6, <2>2, <2>3
<1>15. CASE workerStep
  BY <1>1, <1>15 DEF workerStep, workerTake, workerRunSkip, workerRun, workerHandoverSkip, workerHandover,
     workerSignal, runAll
<1>16. CASE \/ \E n \in Notifiers : register_notifier(n) \/ unregister(n)
            \/ \E t \in Tokens : add_callback(t)
            \/ \E n \in Notifiers : \E i \in DOMAIN nt[n].callbacks : remove_callback(n, i - 1)
            \/ otherProcessCommits \/ UNCHANGED vars
  BY <1>1, <1>16 DEF register_notifier, unregister, add_callback, remove_callback, otherProcessCommits, vars
<1>17. ASSUME NEW r \in Realms, refresh(r) \/ begin_transaction(r)
       PROVE  OwnPackages'
  BY <1>10, <1>17 DEF refresh, begin_transaction
<1>18. ASSUME NEW r \in Realms, NEW ts, commit_fails(r, ts)
       PROVE  OwnPackages'
  BY <1>1, <1>18 DEF commit_fails
<1> QED
  BY <1>2, <1>4, <1>5, <1>8, <1>9, <1>11, <1>13, <1>14, <1>15, <1>16, <1>17, <1>18 DEF Next, realmStep

\* What each step of a Realm does to it.
LEMMA OneRealm ==
    ASSUME TypeInv, NEW r \in Realms, NEW x, realm' = [realm EXCEPT ![r] = x]
    PROVE  OnlyOfRealm(r) /\ realm'[r] = x
  BY DEF TypeInv, OnlyOfRealm

hears(n) ==
    ~(/\ nt[n].callbacks[nt[n].index + 1 + 1].initial_delivered
      /\ nt[n].callbacks[nt[n].index + 1 + 1].out = {})

LEMMA after_advanceRealm ==
    ASSUME TypeInv, OwnPackages, NEW r \in Realms, NEW n \in Notifiers, after_advance(r, n)
    PROVE  /\ OnlyOfRealm(r) /\ RealmOf[n] = r /\ Delivering(n)
           /\ realm[r].at \in {"deliver", "deliver in write"}
           /\ realm'[r].version = realm[r].version /\ realm'[r].at = realm[r].at
           /\ realm'[r].target = realm[r].target
           /\ IF nt[n].index + 1 < nt[n].count
              THEN realm'[r].package = realm[r].package /\ realm'[r].calling = hears(n)
              ELSE realm'[r].package = realm[r].package \ {n} /\ realm'[r].calling = FALSE
<1>1. PICK y \in RealmState : y = realm[r]
  BY DEF TypeInv
<1>2. PICK h : h = hears(n)
  OBVIOUS
<1>3. /\ realm[r].at \in {"deliver", "deliver in write"} /\ n \in realm[r].package
      /\ RealmOf[n] = r /\ Delivering(n)
  BY DEF after_advance, OwnPackages, PackageOf, Delivering, Calls
<1>4. CASE nt[n].index + 1 < nt[n].count
  <2>1. PICK x : x = [y EXCEPT !.now = n, !.calling = h]
    OBVIOUS
  <2>2. realm' = [realm EXCEPT ![r] = x]
    BY <1>1, <1>2, <1>4, <2>1 DEF after_advance, TypeInv, hears
  <2>3. x.version = y.version /\ x.at = y.at /\ x.target = y.target /\ x.package = y.package /\ x.calling = h
    BY <2>1 DEF RealmState
  <2> QED
    BY <1>1, <1>2, <1>3, <1>4, <2>2, <2>3, OneRealm
<1>5. CASE ~(nt[n].index + 1 < nt[n].count)
  <2>1. PICK x : x = [y EXCEPT !.package = @ \ {n}, !.now = None, !.calling = FALSE]
    OBVIOUS
  <2>2. realm' = [realm EXCEPT ![r] = x]
    BY <1>1, <1>5, <2>1 DEF after_advance, TypeInv
  <2>3. /\ x.version = y.version /\ x.at = y.at /\ x.target = y.target
        /\ x.package = y.package \ {n} /\ x.calling = FALSE
    BY <2>1 DEF RealmState
  <2> QED
    BY <1>1, <1>3, <1>5, <2>2, <2>3, OneRealm
<1> QED
  BY <1>4, <1>5

LEMMA deliveredRealm ==
    ASSUME TypeInv, NEW r \in Realms, delivered(r)
    PROVE  /\ OnlyOfRealm(r)
           /\ realm'[r].version = realm[r].version
           /\ realm'[r].target = realm[r].target /\ realm'[r].calling = realm[r].calling
           /\ realm[r].package = {} /\ realm'[r].package = {}
           /\ \/ realm[r].at = "deliver" /\ realm'[r].at = "idle"
              \/ realm[r].at = "deliver in write" /\ realm'[r].at = "write"
<1>1. PICK y \in RealmState : y = realm[r]
  BY DEF TypeInv
<1>2. PICK x : x = [y EXCEPT !.at = IF y.at = "deliver" THEN "idle" ELSE "write"]
  OBVIOUS
<1>3. /\ y.package = {} /\ y.at \in {"deliver", "deliver in write"}
      /\ realm' = [realm EXCEPT ![r] = x]
  BY <1>1, <1>2 DEF delivered, TypeInv
<1>4. /\ x.version = y.version /\ x.target = y.target /\ x.package = y.package /\ x.calling = y.calling
      /\ x.at = IF y.at = "deliver" THEN "idle" ELSE "write"
  BY <1>2 DEF RealmState
<1> QED
  BY <1>1, <1>3, <1>4, OneRealm

LEMMA startWaitingRealm ==
    ASSUME TypeInv, NEW r \in Realms, NEW at, startWaiting(r, at)
    PROVE  /\ OnlyOfRealm(r)
           /\ realm'[r].version = realm[r].version /\ realm'[r].at = at /\ realm'[r].target = latest
           /\ realm'[r].package = notifiers_for_realm(r) /\ realm'[r].calling = realm[r].calling
<1>1. PICK y \in RealmState : y = realm[r]
  BY DEF TypeInv
<1>2. PICK ns : ns = notifiers_for_realm(r)
  OBVIOUS
<1>3. PICK x : x = [y EXCEPT !.at = at, !.target = latest, !.package = ns]
  OBVIOUS
<1>4. realm' = [realm EXCEPT ![r] = x]
  BY <1>1, <1>2, <1>3 DEF startWaiting, TypeInv
<1>5. x.version = y.version /\ x.target = latest /\ x.package = ns /\ x.calling = y.calling /\ x.at = at
  BY <1>3 DEF RealmState
<1> QED
  BY <1>1, <1>2, <1>4, <1>5, OneRealm

LEMMA begin_in_callbackRealm ==
    ASSUME TypeInv, NEW r \in Realms, begin_in_callback(r)
    PROVE  /\ OnlyOfRealm(r) /\ realm[r].at = "deliver" /\ realm[r].calling
           /\ realm'[r].version = latest /\ realm'[r].at = "write in callback"
           /\ realm'[r].target = realm[r].target
           /\ realm'[r].package = realm[r].package /\ realm'[r].calling = realm[r].calling
<1>1. PICK y \in RealmState : y = realm[r]
  BY DEF TypeInv
<1>2. PICK x : x = [y EXCEPT !.at = "write in callback", !.version = latest]
  OBVIOUS
<1>3. realm' = [realm EXCEPT ![r] = x] /\ y.at = "deliver" /\ y.calling
  BY <1>1, <1>2 DEF begin_in_callback, TypeInv
<1>4. /\ x.version = latest /\ x.at = "write in callback" /\ x.target = y.target
      /\ x.package = y.package /\ x.calling = y.calling
  BY <1>2 DEF RealmState
<1> QED
  BY <1>1, <1>3, <1>4, OneRealm

\* The end of a transaction, committed or cancelled.
LEMMA commit_transactionRealm ==
    ASSUME TypeInv, NEW r \in Realms, NEW ts, commit_transaction(r, ts)
    PROVE  /\ OnlyOfRealm(r)
           /\ realm'[r].version = latest + 1 /\ realm'[r].target = realm[r].target
           /\ realm'[r].package = realm[r].package /\ realm'[r].calling = realm[r].calling
           /\ \/ realm[r].at = "write" /\ realm'[r].at = "idle"
              \/ realm[r].at = "write in callback" /\ realm'[r].at = "deliver"
<1>1. PICK y \in RealmState : y = realm[r]
  BY DEF TypeInv
<1>2. PICK at, v : at = leftWrite(r) /\ v = latest + 1
  OBVIOUS
<1>3. /\ y.at \in {"write", "write in callback"}
      /\ at = IF y.at = "write" THEN "idle" ELSE "deliver"
  BY <1>1, <1>2 DEF leftWrite, commit_transaction
<1>4. PICK x : x = [y EXCEPT !.at = at, !.version = v]
  OBVIOUS
<1>5. realm' = [realm EXCEPT ![r] = x]
  BY <1>1, <1>2, <1>4 DEF commit_transaction, TypeInv
<1>6. /\ x.version = v /\ x.at = at /\ x.target = y.target
      /\ x.package = y.package /\ x.calling = y.calling
  BY <1>4 DEF RealmState
<1> QED
  BY <1>1, <1>2, <1>3, <1>5, <1>6, OneRealm

LEMMA cancel_transactionRealm ==
    ASSUME TypeInv, NEW r \in Realms, cancel_transaction(r)
    PROVE  /\ OnlyOfRealm(r)
           /\ realm'[r].version = realm[r].version /\ realm'[r].target = realm[r].target
           /\ realm'[r].package = realm[r].package /\ realm'[r].calling = realm[r].calling
           /\ \/ realm[r].at = "write" /\ realm'[r].at = "idle"
              \/ realm[r].at = "write in callback" /\ realm'[r].at = "deliver"
<1>1. PICK y \in RealmState : y = realm[r]
  BY DEF TypeInv
<1>2. PICK at, v : at = leftWrite(r) /\ v = realm[r].version
  OBVIOUS
<1>3. /\ y.at \in {"write", "write in callback"}
      /\ at = IF y.at = "write" THEN "idle" ELSE "deliver"
  BY <1>1, <1>2 DEF leftWrite, cancel_transaction
<1>4. PICK x : x = [y EXCEPT !.at = at]
  OBVIOUS
<1>5. realm' = [realm EXCEPT ![r] = x]
  BY <1>1, <1>2, <1>4 DEF cancel_transaction, TypeInv
<1>6. /\ x.version = v /\ x.at = at /\ x.target = y.target
      /\ x.package = y.package /\ x.calling = y.calling
  BY <1>1, <1>2, <1>4 DEF RealmState
<1> QED
  BY <1>1, <1>2, <1>3, <1>5, <1>6, OneRealm

\* A step of the notifiers' rows, versions and stages.
LEMMA SamePlacesCount ==
    ASSUME CountInv, UNCHANGED realm,
           \A n \in Notifiers : /\ nt'[n].index = nt[n].index /\ nt'[n].count = nt[n].count
                                /\ Len(nt'[n].callbacks) = Len(nt[n].callbacks)
    PROVE  CountInv'
  BY DEF CountInv, Delivering

LEMMA PackagedCount ==
    ASSUME NEW c \in CollectionNotifier, NEW d, PackagedAs(c, d)
    PROVE  d.index = c.index /\ d.count = Len(d.callbacks) /\ npos < Len(d.callbacks)
<1>1. c.callbacks \in Seq(Callback)
  BY DEF CollectionNotifier
<1>2. npos < Len(c.callbacks)
  BY <1>1 DEF npos
<1>3. d.index = c.index /\ d.count = Len(c.callbacks) /\ Len(d.callbacks) = Len(c.callbacks)
  BY DEF PackagedAs
<1> QED
  BY <1>2, <1>3

\* Callbacks begin to be called: of the notifiers ns, all packaged.
LEMMA DeliveringCount ==
    ASSUME TypeInv, CountInv, NEW r \in Realms, NEW ms, NEW ns, ns \subseteq ms, Packages(ms),
           \A n \in Notifiers : n \in ms => RealmOf[n] = r, \A n \in Notifiers : RealmOf[n] = r => ~Delivering(n),
           NEW v, NEW at \in {"deliver", "deliver in write"}, delivering(r, v, at, ns)
    PROVE  CountInv'
<1>1. /\ OnlyOfRealm(r) /\ realm'[r].at \in Calls /\ realm'[r].package = ns
  BY DeliveringIs DEF Calls
<1>2. ASSUME NEW n \in Notifiers
      PROVE  IF Delivering(n)'
             THEN nt'[n].count = Len(nt'[n].callbacks) /\ nt'[n].index < Len(nt'[n].callbacks)
             ELSE nt'[n].index = npos
  <2>1. PICK c, d : c \in CollectionNotifier /\ c = nt[n] /\ d = nt'[n]
    BY DEF TypeInv, Typed
  <2>2. IF n \in ms THEN PackagedAs(c, d) ELSE d = c
    BY <2>1 DEF Packages
  <2>3. CASE RealmOf[n] # r
    <3>1. n \notin ms
      BY <2>3
    <3>2. Delivering(n)' <=> Delivering(n)
      BY <1>1, <2>3, ElsewhereDelivering
    <3> QED
      BY <2>1, <2>2, <3>1, <3>2 DEF CountInv
  <2>4. CASE RealmOf[n] = r
    <3>1. c.index = npos
      BY <2>1, <2>4 DEF CountInv
    <3>2. Delivering(n)' <=> n \in ns
      BY <1>1, <2>4 DEF Delivering
    <3>3. CASE n \in ms
      <4>1. d.index = npos /\ d.count = Len(d.callbacks) /\ npos < Len(d.callbacks)
        BY <2>1, <2>2, <3>1, <3>3, PackagedCount
      <4> QED
        BY <2>1, <4>1
    <3>4. CASE n \notin ms
      BY <2>1, <2>2, <3>1, <3>2, <3>4
    <3> QED
      BY <3>3, <3>4
  <2> QED
    BY <2>3, <2>4
<1> QED
  BY <1>2 DEF CountInv

LEMMA remove_callbackCount ==
    ASSUME TypeInv, CountInv, NEW n \in Notifiers, NEW p \in DOMAIN nt[n].callbacks, remove_callback(n, p - 1)
    PROVE  CountInv'
<1>0. ASSUME OnlyOf(n),
             IF Delivering(n) THEN nt'[n].count = Len(nt'[n].callbacks) /\ nt'[n].index < Len(nt'[n].callbacks)
             ELSE nt'[n].index = npos
      PROVE  CountInv'
  <2>1. \A m \in Notifiers : Delivering(m)' <=> Delivering(m)
    BY DEF Delivering, remove_callback
  <2> QED
    BY <1>0, <2>1 DEF CountInv, OnlyOf
<1>1. OnlyOf(n) /\ RemovedFrom(nt[n], nt'[n], p - 1) /\ nt'[n].count = countAfterRemoval(n)
  BY RemovedCallback
<1>2. PICK k \in Nat : k = Len(nt[n].callbacks) /\ p \in 1..k /\ Len(nt'[n].callbacks) = k - 1
  BY <1>1 DEF RemovedFrom
<1>3. k <= SizeMax
  <2>1. nt[n].callbacks \in Seq(Callback) /\ Distinct(nt[n].callbacks)
    BY DEF TypeInv, Typed, CollectionNotifier
  <2>2. k < SizeMax
    BY <1>2, <2>1, FewCallbacks
  <2> QED
    BY <1>2, <2>2, SizeMaxAssumption
<1>4. PICK i \in Int : i = nt[n].index /\ i >= npos
  <2>1. nt[n].index \in {npos} \cup 0..Cardinality(Tokens)
    BY DEF TypeInv, Typed, CollectionNotifier
  <2> QED
    BY <2>1 DEF npos
<1>5. nt'[n].index = IF i # npos /\ i >= p - 1 THEN i - 1 ELSE i
  BY <1>1, <1>4 DEF RemovedFrom, indexAfterRemoval
<1>6. CASE Delivering(n)
  <2>1. nt[n].count = k /\ i < k
    BY <1>2, <1>4, <1>6 DEF CountInv
  <2>2. nt'[n].count = (k - 1) % (SizeMax + 1)
    <3>1. RealmOf[n] \in Realms
      BY RealmOfAssumption
    <3> QED
      BY <1>1, <1>6, <2>1, <3>1 DEF countAfterRemoval, Delivering, Calls
  <2>3. (k - 1) % (SizeMax + 1) = k - 1
    <3>1. k - 1 \in Nat /\ SizeMax + 1 \in Nat /\ k - 1 < SizeMax + 1
      BY <1>2, <1>3, SizeMaxAssumption
    <3>2. \A a, b \in Nat : a < b => a % b = a
      OBVIOUS
    <3> QED
      BY <3>1, <3>2
  <2>4. nt'[n].index < k - 1
    <3>1. PICK j : j = nt'[n].index /\ j = IF i # -1 /\ i >= p - 1 THEN i - 1 ELSE i
      BY <1>5 DEF npos
    <3>2. p \in Int /\ 1 <= p /\ p <= k /\ i < k
      BY <1>2, <2>1
    <3> QED
      BY <3>1, <3>2
  <2> QED
    BY <1>0, <1>1, <1>2, <1>6, <2>2, <2>3, <2>4
<1>7. CASE ~Delivering(n)
  BY <1>0, <1>1, <1>4, <1>5, <1>7 DEF CountInv
<1> QED
  BY <1>6, <1>7

LEMMA NotifierStepsCount ==
    ASSUME "add in callback" \notin Features, TypeInv, OwnPackages, CountInv,
           \/ \E n \in Notifiers : register_notifier(n) \/ unregister(n)
           \/ \E t \in Tokens : add_callback(t)
           \/ \E n \in Notifiers : \E i \in DOMAIN nt[n].callbacks : remove_callback(n, i - 1)
    PROVE  CountInv'
<1>1. UNCHANGED realm
  BY DEF register_notifier, unregister, add_callback, remove_callback
<1>2. \A n \in Notifiers : Delivering(n)' <=> Delivering(n)
  BY <1>1 DEF Delivering
<1>3. ASSUME NEW n \in Notifiers, OnlyOf(n),
             IF Delivering(n) THEN nt'[n].count = Len(nt'[n].callbacks) /\ nt'[n].index < Len(nt'[n].callbacks)
             ELSE nt'[n].index = npos
      PROVE  CountInv'
  BY <1>2, <1>3 DEF CountInv, OnlyOf
<1>4. ASSUME NEW n \in Notifiers, OnlyOf(n), SamePlace(nt[n], nt'[n])
      PROVE  CountInv'
  BY <1>3, <1>4 DEF CountInv, SamePlace
<1>5. ASSUME NEW n \in Notifiers, register_notifier(n)
      PROVE  CountInv'
  BY <1>4, <1>5, RegisteredIs DEF RegisteredAs
<1>6. ASSUME NEW n \in Notifiers, unregister(n)
      PROVE  CountInv'
  BY <1>4, <1>6, UnregisteredIs DEF UnregisteredAs
<1>7. ASSUME NEW t \in Tokens, add_callback(t)
      PROVE  CountInv'
  <2>1. PICK n \in Notifiers : n = NotifierOf[t]
    BY NotifierOfAssumption
  <2>2. OnlyOf(n) /\ nt'[n].index = nt[n].index
    BY <1>7, <2>1, AddedCallback DEF AddedTo
  <2>3. realm[RealmOf[n]].at = "idle"
    BY <1>7, <2>1 DEF add_callback
  <2>4. ~Delivering(n)
    BY <2>3 DEF Delivering, Calls
  <2> QED
    BY <1>3, <2>2, <2>4 DEF CountInv
<1>8. ASSUME NEW n \in Notifiers, NEW p \in DOMAIN nt[n].callbacks, remove_callback(n, p - 1)
      PROVE  CountInv'
  BY <1>8, remove_callbackCount
<1> QED
  BY <1>5, <1>6, <1>7, <1>8

\* What a Realm does while the same callbacks are being called.
LEMMA OneRealmCount ==
    ASSUME CountInv, NEW r \in Realms, OnlyOfRealm(r),
           \A n \in Notifiers : /\ nt'[n].index = nt[n].index /\ nt'[n].count = nt[n].count
                                /\ Len(nt'[n].callbacks) = Len(nt[n].callbacks),
           \A n \in Notifiers : RealmOf[n] = r => (Delivering(n)' <=> Delivering(n))
    PROVE  CountInv'
<1>1. \A n \in Notifiers : Delivering(n)' <=> Delivering(n)
  BY ElsewhereDelivering
<1> QED
  BY <1>1 DEF CountInv

LEMMA SuppressesCount ==
    ASSUME NEW ts, Suppresses(ts)
    PROVE  \A n \in Notifiers : /\ nt'[n].index = nt[n].index /\ nt'[n].count = nt[n].count
                                /\ Len(nt'[n].callbacks) = Len(nt[n].callbacks)
  BY DEF Suppresses, SuppressedAs

LEMMA WorkerStepsCount ==
    ASSUME TypeInv, CountInv, workerStep
    PROVE  CountInv'
<1>1. UNCHANGED realm
  BY DEF workerStep, workerTake, workerRunSkip, workerRun, workerHandoverSkip, workerHandover,
         workerSignal, runAll
<1>2. worker.at \in {"skip", "skipped"} => worker.skip \in Versions
  BY MaxVersionAssumption DEF TypeInv, WorkerTyped, WorkerState, Versions
<1>3. worker.at \in {"run", "ran"} => worker.version \in Versions
  BY MaxVersionAssumption DEF TypeInv, WorkerTyped, WorkerState, Versions
<1>4. CASE workerTake
  BY <1>1, <1>4, TakenIs, SamePlacesCount DEF TakenAs, StagedAs, SamePlace
<1>5. ASSUME NEW ns, NEW v \in Versions, NEW at, runAll(ns, v, at)
      PROVE  CountInv'
  BY <1>1, <1>5, RunAllIs, SamePlacesCount DEF Runs, RanAs, SamePlace
<1>6. CASE workerRunSkip
  BY <1>2, <1>5, <1>6 DEF workerRunSkip
<1>7. CASE workerRun
  BY <1>3, <1>5, <1>7 DEF workerRun
<1>8. CASE workerHandoverSkip
  <2>1. HandsOver(nt', worker.old, worker.skip)
    BY <1>2, <1>8, HandedOverIs DEF workerHandoverSkip
  <2> QED
    BY <1>1, <2>1, SamePlacesCount DEF HandsOver, HandedOverAs
<1>9. CASE workerHandover
  <2>1. HandedAndCleaned(worker.old \cup worker.new, worker.version)
    BY <1>9, WorkerHandoverIs
  <2>2. ASSUME NEW n \in Notifiers
        PROVE  /\ nt'[n].index = nt[n].index /\ nt'[n].count = nt[n].count
               /\ Len(nt'[n].callbacks) = Len(nt[n].callbacks)
    BY <2>1 DEF HandedAndCleaned, HandedOverAs, CleanedAs, StagedAs, SamePlace
  <2> QED
    BY <1>1, <2>2, SamePlacesCount
<1>10. CASE workerSignal
  BY <1>1, <1>10, SamePlacesCount DEF workerSignal
<1> QED
  BY <1>4, <1>6, <1>7, <1>8, <1>9, <1>10 DEF workerStep

LEMMA CalledPlace ==
    ASSUME NEW c \in CollectionNotifier, NEW d, CalledAt(c, d, c.index + 2)
    PROVE  /\ d.count = c.count /\ Len(d.callbacks) = Len(c.callbacks)
           /\ c.index \in Int /\ d.index = c.index + 1
<1>1. PICK i \in Int : i = c.index
  <2>1. c.index \in Int
    BY TokensAssumption, FS_CardinalityType DEF CollectionNotifier, npos
  <2> QED
    BY <2>1
<1>2. PICK p \in Int : p = i + 2 /\ p - 1 = i + 1
  <2>1. i + 2 \in Int /\ i + 2 - 1 = i + 1
    OBVIOUS
  <2> QED
    BY <2>1
<1>3. CalledAt(c, d, p)
  BY <1>1, <1>2
<1>4. d.index = p - 1 /\ d.count = c.count /\ Len(d.callbacks) = Len(c.callbacks)
  BY <1>3 DEF CalledAt
<1> QED
  BY <1>1, <1>2, <1>4

LEMMA after_advanceCount ==
    ASSUME TypeInv, OwnPackages, CountInv, NEW r \in Realms, NEW n \in Notifiers, after_advance(r, n)
    PROVE  CountInv'
<1>1. /\ OnlyOfRealm(r) /\ RealmOf[n] = r /\ Delivering(n)
      /\ realm[r].at \in Calls /\ realm'[r].at = realm[r].at
  BY after_advanceRealm DEF Calls
<1>2. OnlyOf(n)
  BY CalledIs, CallsEndedIs
<1>3. ASSUME NEW m \in Notifiers, m # n, realm'[r].package \in {realm[r].package, realm[r].package \ {n}}
      PROVE  Delivering(m)' <=> Delivering(m)
  <2>1. CASE RealmOf[m] # r
    BY <1>1, <2>1, ElsewhereDelivering
  <2>2. CASE RealmOf[m] = r
    BY <1>1, <1>3, <2>2 DEF Delivering
  <2> QED
    BY <2>1, <2>2
<1>4. ASSUME realm'[r].package \in {realm[r].package, realm[r].package \ {n}},
             IF Delivering(n)' THEN nt'[n].count = Len(nt'[n].callbacks) /\ nt'[n].index < Len(nt'[n].callbacks)
             ELSE nt'[n].index = npos
      PROVE  CountInv'
  BY <1>2, <1>3, <1>4 DEF CountInv, OnlyOf
<1>5. CASE nt[n].index + 1 < nt[n].count
  <2>1. realm'[r].package = realm[r].package
    BY <1>5, after_advanceRealm
  <2>2. Delivering(n)'
    BY <1>1, <2>1 DEF Delivering
  <2>3. PICK c, d : c \in CollectionNotifier /\ c = nt[n] /\ d = nt'[n] /\ CalledAt(c, d, c.index + 2)
    BY <1>5, CalledIs DEF TypeInv, Typed
  <2>4. c.count = Len(c.callbacks) /\ c.index + 1 < c.count
    BY <1>1, <1>5, <2>3 DEF CountInv
  <2>5. d.count = c.count /\ Len(d.callbacks) = Len(c.callbacks) /\ d.index = c.index + 1
    BY <2>3, CalledPlace
  <2> QED
    BY <1>4, <2>1, <2>2, <2>3, <2>4, <2>5
<1>6. CASE ~(nt[n].index + 1 < nt[n].count)
  <2>1. realm'[r].package = realm[r].package \ {n}
    BY <1>6, after_advanceRealm
  <2>2. ~Delivering(n)'
    BY <1>1, <2>1 DEF Delivering
  <2>3. nt'[n].index = npos
    BY <1>6, CallsEndedIs DEF CallsEnded
  <2> QED
    BY <1>4, <2>1, <2>2, <2>3
<1> QED
  BY <1>5, <1>6

LEMMA notifyCount ==
    ASSUME TypeInv, Behind, OwnPackages, CountInv, NEW r \in Realms, notify(r)
    PROVE  CountInv'
<1>1. \A n \in packable(r) : RealmOf[n] = r
  BY DEF packable, notifiers_for_realm
<1>2. packableNow(r) \subseteq packable(r) /\ packable(r) \subseteq Notifiers
  BY DEF packableNow, packable, notifiers_for_realm
<1>3. ASSUME realm[r].at = "idle"
      PROVE  \A n \in Notifiers : RealmOf[n] = r => ~Delivering(n)
  BY <1>3 DEF Delivering, Calls
<1>4. PICK all, now : all = packable(r) /\ now = packableNow(r)
  OBVIOUS
<1>5. "deliver" \in {"deliver", "deliver in write"}
  OBVIOUS
<1>6. CASE UNCHANGED <<nt, realm>>
  BY <1>6, SamePlacesCount
<1>7. CASE /\ realm[r].at = "idle" /\ packagedAndDelivered(now)
           /\ delivering(r, realm[r].version, "deliver", now)
  <2>1. Packages(now)
    BY <1>7, PackagedAndDeliveredIs DEF TypeInv
  <2>2. \A n \in Notifiers : n \in now => RealmOf[n] = r
    BY <1>1, <1>2, <1>4
  <2>3. PICK v : delivering(r, v, "deliver", now)
    BY <1>7
  <2> QED
    BY <1>3, <1>5, <1>7, <2>1, <2>2, <2>3, DeliveringCount
<1>8. CASE realm[r].at = "idle" /\ UNCHANGED nt /\ delivering(r, latest, "deliver", {})
  <2>1. Packages({})
    BY <1>8 DEF Packages
  <2>2. \A n \in Notifiers : n \in {} => RealmOf[n] = r
    OBVIOUS
  <2>3. PICK v, ns : ns = {} /\ delivering(r, v, "deliver", ns)
    BY <1>8
  <2> QED
    BY <1>3, <1>5, <1>8, <2>1, <2>2, <2>3, DeliveringCount
<1>9. CASE realm[r].at = "idle" /\ nt' = packaged(all) /\ UNCHANGED realm
  <2>1. Packages(all)
    BY <1>9, PackagedIs DEF TypeInv
  <2>2. ASSUME NEW n \in Notifiers
        PROVE  IF Delivering(n)'
               THEN nt'[n].count = Len(nt'[n].callbacks) /\ nt'[n].index < Len(nt'[n].callbacks)
               ELSE nt'[n].index = npos
    <3>1. Delivering(n)' <=> Delivering(n)
      BY <1>9 DEF Delivering
    <3>2. CASE n \in all
      <4>1. ~Delivering(n)
        BY <1>1, <1>3, <1>4, <1>9, <3>2
      <4>2. nt[n].index = npos
        BY <4>1 DEF CountInv
      <4>3. nt'[n].index = nt[n].index
        BY <2>1, <3>2 DEF Packages, PackagedAs
      <4> QED
        BY <3>1, <4>1, <4>2, <4>3
    <3>3. CASE n \notin all
      <4>1. nt'[n] = nt[n]
        BY <2>1, <3>3 DEF Packages
      <4> QED
        BY <3>1, <4>1 DEF CountInv
    <3> QED
      BY <3>2, <3>3
  <2> QED
    BY <2>2 DEF CountInv
<1>10. CASE /\ realm[r].at = "idle" /\ packagedAndDelivered(all)
            /\ delivering(r, versionOf(all), "deliver", all)
  <2>1. Packages(all)
    BY <1>10, PackagedAndDeliveredIs DEF TypeInv
  <2>2. \A n \in Notifiers : n \in all => RealmOf[n] = r
    BY <1>1, <1>4
  <2>3. PICK v : delivering(r, v, "deliver", all)
    BY <1>10
  <2> QED
    BY <1>3, <1>5, <1>10, <2>1, <2>2, <2>3, DeliveringCount
<1> QED
  BY <1>4, <1>6, <1>7, <1>8, <1>9, <1>10, NotifyCases DEF NotifyBranches

\* The wait is over.
LEMMA WaitedCount ==
    ASSUME TypeInv, OwnPackages, CountInv, NEW r \in Realms, refreshed(r) \/ begun(r)
    PROVE  CountInv'
<1>1. \A n \in Notifiers : RealmOf[n] = r => ~Delivering(n)
  BY DEF Delivering, Calls, refreshed, begun
<1>2. PICK ms, ns : ms = {n \in realm[r].package : can_package(nt[n])} /\ ns = waitedFor(r)
  OBVIOUS
<1>3. ns \subseteq ms /\ \A n \in Notifiers : n \in ms => RealmOf[n] = r
  BY <1>2 DEF waitedFor, OwnPackages, PackageOf
<1>4. ASSUME NEW mp, ns \subseteq mp, mp \subseteq ms, Packages(mp),
             NEW v, NEW at \in {"deliver", "deliver in write"}, delivering(r, v, at, ns)
      PROVE  CountInv'
  <2>1. \A n \in Notifiers : n \in mp => RealmOf[n] = r
    BY <1>3, <1>4
  <2> QED
    BY <1>1, <1>4, <2>1, DeliveringCount
<1>5. "deliver" \in {"deliver", "deliver in write"} /\ "deliver in write" \in {"deliver", "deliver in write"}
  OBVIOUS
<1>6. CASE refreshed(r)
  <2>1. Packages(ns)
    BY <1>2, <1>6, PackagedAndDeliveredIs DEF refreshed, TypeInv
  <2>2. PICK v : delivering(r, v, "deliver", ns)
    BY <1>2, <1>6 DEF refreshed
  <2> QED
    BY <1>3, <1>4, <1>5, <2>1, <2>2
<1>7. CASE begun(r)
  <2>1. nt' = packaged(ms) /\ delivering(r, latest, "deliver in write", ns)
    BY <1>2, <1>7 DEF begun
  <2>2. Packages(ms)
    BY <2>1, PackagedIs DEF TypeInv
  <2> QED
    BY <1>3, <1>4, <1>5, <2>1, <2>2
<1> QED
  BY <1>6, <1>7

\* A Realm waits, has delivered, or begins or ends a transaction.
LEMMA TransactionsCount ==
    ASSUME TypeInv, OwnPackages, CountInv, NEW r \in Realms, NEW ts,
           refresh(r) \/ begin_transaction(r) \/ delivered(r) \/ begin_in_callback(r)
           \/ cancel_transaction(r) \/ commit_transaction(r, ts)
    PROVE  CountInv'
<1>1. \A n \in Notifiers : /\ nt'[n].index = nt[n].index /\ nt'[n].count = nt[n].count
                           /\ Len(nt'[n].callbacks) = Len(nt[n].callbacks)
  <2>1. CASE UNCHANGED nt
    BY <2>1
  <2>2. CASE commit_transaction(r, ts)
    BY <2>2, SuppressIs, SuppressesCount DEF commit_transaction
  <2> QED
    BY <2>1, <2>2 DEF refresh, begin_transaction, delivered, begin_in_callback, cancel_transaction
<1>2. PackageOf(r, realm[r])
  BY DEF OwnPackages
<1>3. ASSUME OnlyOfRealm(r), realm[r].package = {} \/ realm[r].at \notin Calls,
             realm'[r].package = {} \/ realm'[r].at \notin Calls
      PROVE  CountInv'
  <2>1. \A n \in Notifiers : RealmOf[n] = r => (Delivering(n)' <=> Delivering(n))
    BY <1>3 DEF Delivering
  <2> QED
    BY <1>1, <1>3, <2>1, OneRealmCount
<1>4. ASSUME OnlyOfRealm(r), realm[r].package = realm'[r].package,
             realm[r].at \in Calls, realm'[r].at \in Calls
      PROVE  CountInv'
  <2>1. \A n \in Notifiers : RealmOf[n] = r => (Delivering(n)' <=> Delivering(n))
    BY <1>4 DEF Delivering
  <2> QED
    BY <1>1, <1>4, <2>1, OneRealmCount
<1>5. CASE refresh(r)
  <2>1. OnlyOfRealm(r) /\ realm[r].at = "idle" /\ realm'[r].at = "refresh"
    BY <1>5, startWaitingRealm DEF refresh
  <2> QED
    BY <1>3, <2>1 DEF Calls
<1>6. CASE begin_transaction(r)
  <2>1. OnlyOfRealm(r) /\ realm[r].at = "idle" /\ realm'[r].at = "begin"
    BY <1>6, startWaitingRealm DEF begin_transaction
  <2> QED
    BY <1>3, <2>1 DEF Calls
<1>7. CASE delivered(r)
  BY <1>3, <1>7, deliveredRealm
<1>8. CASE begin_in_callback(r)
  BY <1>4, <1>8, begin_in_callbackRealm DEF Calls
<1>9. ASSUME OnlyOfRealm(r), realm'[r].package = realm[r].package,
             \/ realm[r].at = "write" /\ realm'[r].at = "idle"
             \/ realm[r].at = "write in callback" /\ realm'[r].at = "deliver"
      PROVE  CountInv'
  <2>1. CASE realm[r].at = "write"
    BY <1>2, <1>3, <1>9, <2>1 DEF PackageOf
  <2>2. CASE realm[r].at = "write in callback"
    BY <1>4, <1>9, <2>2 DEF Calls
  <2> QED
    BY <1>9, <2>1, <2>2
<1>10. CASE cancel_transaction(r)
  BY <1>9, <1>10, cancel_transactionRealm
<1>11. CASE commit_transaction(r, ts)
  BY <1>9, <1>11, commit_transactionRealm
<1> QED
  BY <1>5, <1>6, <1>7, <1>8, <1>10, <1>11

LEMMA NextCount ==
    ASSUME "add in callback" \notin Features, TypeInv, Behind, OwnPackages, CountInv, [Next]_vars
    PROVE  CountInv'
<1>1. CASE \/ \E n \in Notifiers : register_notifier(n) \/ unregister(n)
           \/ \E t \in Tokens : add_callback(t)
           \/ \E n \in Notifiers : \E i \in DOMAIN nt[n].callbacks : remove_callback(n, i - 1)
  BY <1>1, NotifierStepsCount
<1>2. CASE workerStep
  BY <1>2, WorkerStepsCount
<1>3. CASE otherProcessCommits \/ UNCHANGED vars
  BY <1>3, SamePlacesCount DEF otherProcessCommits, vars
<1>4. ASSUME NEW r \in Realms, realmStep(r)
      PROVE  CountInv'
  BY <1>4, notifyCount, WaitedCount, TransactionsCount, after_advanceCount DEF realmStep
<1>5. ASSUME NEW r \in Realms, NEW ts,
             refresh(r) \/ begin_transaction(r) \/ begin_in_callback(r) \/ cancel_transaction(r)
             \/ commit_transaction(r, ts)
      PROVE  CountInv'
  BY <1>5, TransactionsCount
<1>6. ASSUME NEW r \in Realms, NEW ts, commit_fails(r, ts)
      PROVE  CountInv'
  BY <1>6, SuppressIs, SuppressesCount, SamePlacesCount DEF commit_fails
<1> QED
  BY <1>1, <1>2, <1>3, <1>4, <1>5, <1>6 DEF Next

LEMMA InitOwnAndCount ==
    ASSUME Init
    PROVE  OwnPackages /\ CountInv
<1>1. \A r \in Realms : realm[r].package = {} /\ realm[r].at = "idle" /\ realm[r].calling = FALSE
  BY DEF Init
<1>2. \A n \in Notifiers : nt[n].index = npos
  BY DEF Init
<1>3. \A n \in Notifiers : ~Delivering(n)
  BY <1>1, RealmOfAssumption DEF Delivering
<1> QED
  BY <1>1, <1>2, <1>3 DEF OwnPackages, PackageOf, CountInv

LEMMA CountAlways ==
    ASSUME "add in callback" \notin Features
    PROVE  Spec => [](TypeInv /\ Behind /\ OwnPackages /\ CountInv)
<1>1. Init => OwnPackages /\ CountInv
  BY InitOwnAndCount
<1>2. TypeInv /\ Behind /\ OwnPackages /\ CountInv /\ [Next]_vars => OwnPackages' /\ CountInv'
  BY NextOwn, NextCount
<1> QED
  BY <1>1, <1>2, TypedAlways, PTL DEF Spec

LEMMA FullCount ==
    ASSUME NEW c \in CollectionNotifier, c.count = Len(c.callbacks)
    PROVE  c.count <= Len(c.callbacks)
<1>1. c.count \in Nat
  BY SizeMaxAssumption DEF CollectionNotifier
<1> QED
  BY <1>1

\* While callbacks are called, whichever of them are removed meanwhile, the index
\* and the count stay inside the callbacks there are (the assertion of
\* for_each_callback), in applications that add no callback to a collection from
\* within its callbacks.
THEOREM CallbackIndexInside ==
    ASSUME "add in callback" \notin Features
    PROVE  Spec => []CountIsInside
<1>1. ASSUME TypeInv, OwnPackages, CountInv, NEW r \in Realms, NEW n \in realm[r].package,
             realm[r].at \in {"deliver", "deliver in write", "write in callback"}
      PROVE  nt[n].index < Len(nt[n].callbacks) /\ nt[n].count <= Len(nt[n].callbacks)
  <2>1. n \in Notifiers
    BY <1>1 DEF TypeInv, RealmState
  <2>2. RealmOf[n] = r
    BY <1>1 DEF OwnPackages, PackageOf
  <2>3. Delivering(n)
    BY <1>1, <2>2 DEF Delivering, Calls
  <2>4. PICK c \in CollectionNotifier : c = nt[n]
    BY <1>1, <2>1 DEF TypeInv, Typed
  <2>5. c.count = Len(c.callbacks) /\ c.index < Len(c.callbacks)
    BY <1>1, <2>1, <2>3, <2>4 DEF CountInv
  <2>6. c.count <= Len(c.callbacks)
    BY <2>5, FullCount
  <2> QED
    BY <2>4, <2>5, <2>6
<1>2. TypeInv /\ OwnPackages /\ CountInv => CountIsInside
  BY <1>1 DEF CountIsInside
<1> QED
  BY <1>2, CountAlways, PTL
=============================================================================
