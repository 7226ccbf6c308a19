------------------------------ MODULE Notifier ------------------------------
(***************************************************************************)
(* How Realm tells an application that a collection has changed: the        *)
(* RealmCoordinator of one file, its background worker, the notifiers of    *)
(* the collections (CollectionNotifier, ResultsNotifier) and the Realms of  *)
(* several threads, which deliver what the worker has prepared.             *)
(*                                                                         *)
(* A transaction is known by the version it makes; what a notification says *)
(* has changed is the set of versions it accounts for, so that merging two   *)
(* change sets is a union.  Every commit changes every collection.          *)
(*                                                                         *)
(* One action is one section under m_notifier_mutex, one stretch of the     *)
(* worker outside it, or one call of a callback.  Realms refresh             *)
(* automatically.                                                          *)
(***************************************************************************)
EXTENDS Integers, Sequences, SequencesExt, FiniteSets

CONSTANTS
    Realms,     \* the Realm instances, each with a thread of its own
    Notifiers,  \* the notifiers collections may register
    Tokens,     \* the tokens of the callbacks that may be added
    RealmOf,    \* the Realm of each notifier
    NotifierOf, \* the notifier of each token
    Features,   \* what the application does: see the actions
    MaxVersion, \* bound: the last version
    SizeMax,    \* stands for SIZE_MAX, the largest of the counts
    None        \* no Realm

ASSUME RealmOfAssumption == RealmOf \in [Notifiers -> Realms]
ASSUME NotifierOfAssumption == NotifierOf \in [Tokens -> Notifiers]
ASSUME FeaturesAssumption ==
    Features \subseteq {"suppress", "commit fails", "add in callback", "write in callback",
                        "leave unused", "add later"}
ASSUME MaxVersionAssumption == MaxVersion \in Nat \ {0}
ASSUME TokensAssumption == IsFiniteSet(Tokens)
ASSUME NoneAssumption == None \notin Realms
ASSUME SizeMaxAssumption == SizeMax \in Nat /\ SizeMax > Cardinality(Tokens)

VARIABLES
    latest,  \* version of the latest snapshot in the file
    writer,  \* the Realm that holds the write lock
    realm,   \* per Realm: read version, what its thread does, what it delivers
    signal,  \* per Realm: its run-loop source is signalled
    nt,      \* per notifier: the state it and the coordinator keep of it
    pipe,    \* there is unread news in the pipe the worker listens to
    worker,  \* the worker: where it is and what it took under the lock
    skipVersion, \* m_notifier_skip_version, 0 if there is none
    heard    \* history, per token: what its callback has been told

vars == <<latest, writer, realm, signal, nt, pipe, worker, skipVersion, heard>>

-----------------------------------------------------------------------------
(* The shape of the state.                                                 *)

Versions == 1..MaxVersion
npos == -1

Callback == [token: Tokens, acc: SUBSET Versions, out: SUBSET Versions,
             initial_delivered: BOOLEAN, skip_next: BOOLEAN]

TypeOK ==
    /\ latest \in Versions
    /\ writer \in Realms \cup {None}
    /\ realm \in [Realms -> [version: Versions,
                             at: {"idle", "refresh", "begin", "deliver", "deliver in write",
                                  "write", "write in callback"},
                             target: Versions, package: SUBSET Notifiers,
                             now: Notifiers \cup {None}, calling: BOOLEAN]]
    /\ signal \in [Realms -> BOOLEAN]
    /\ \A n \in Notifiers :
        /\ nt[n].stage \in {"none", "new", "live", "gone"}
        /\ nt[n].alive \in BOOLEAN /\ nt[n].has_run \in BOOLEAN
        /\ nt[n].version \in 0..MaxVersion /\ nt[n].rows \in 0..MaxVersion
        /\ nt[n].changes \subseteq Versions
        /\ nt[n].handover \in BOOLEAN /\ nt[n].delivered \in BOOLEAN /\ nt[n].wanted \in BOOLEAN
        /\ nt[n].callbacks \in Seq(Callback)
        /\ nt[n].index \in {npos} \cup 0..Cardinality(Tokens)
        /\ nt[n].count \in 0..SizeMax
    /\ pipe \in BOOLEAN
    /\ worker \in [at: {"idle", "skip", "skipped", "run", "ran", "signal"},
                   version: 0..MaxVersion, skip: 0..MaxVersion,
                   old: SUBSET Notifiers, new: SUBSET Notifiers]
    /\ skipVersion \in 0..MaxVersion
    /\ heard \in [Tokens -> [base: 0..MaxVersion, told: 0..MaxVersion,
                             got: SUBSET Versions, own: SUBSET Versions,
                           overtaken: SUBSET Versions]]

-----------------------------------------------------------------------------
(* Notifiers.                                                              *)

have_callbacks(c) == c.callbacks # <<>>

newCallback(t) == [token |-> t, acc |-> {}, out |-> {}, initial_delivered |-> FALSE,
                   skip_next |-> FALSE]

\* need_to_run: not for a collection that is gone or unused, nor for rows that
\* have not changed.
need_to_run(c, version) ==
    /\ c.alive /\ (have_callbacks(c) \/ c.wanted)
    /\ c.has_run => c.rows # version

\* ResultsNotifier::run at a version: what changed since the rows it saw before.
run(c, version) ==
    IF ~need_to_run(c, version) THEN c
    ELSE [c EXCEPT !.changes = IF c.has_run /\ have_callbacks(c) THEN (c.rows + 1)..version ELSE {},
                   !.rows = version,
                   !.handover = TRUE]

\* Fault: the changes replace the ones not delivered yet.
add_changes_replaces(cb, changes) ==
    IF cb.skip_next THEN [cb EXCEPT !.skip_next = FALSE] ELSE [cb EXCEPT !.acc = changes]

\* CollectionNotifier::add_changes, for one callback.
add_changes(cb, changes) ==
    IF cb.skip_next THEN [cb EXCEPT !.skip_next = FALSE] ELSE [cb EXCEPT !.acc = @ \cup changes]

\* CollectionNotifier::prepare_handover, after run at the same version.
prepare_handover(c, version) ==
    [c EXCEPT !.version = version, !.has_run = TRUE, !.changes = {},
              !.callbacks = [i \in DOMAIN c.callbacks |-> add_changes(c.callbacks[i], c.changes)]]

can_package(c) == c.has_run /\ c.alive

\* Fault: the accumulated changes are delivered but kept.
package_for_delivery_keeps(c) ==
    [c EXCEPT !.callbacks = [i \in DOMAIN c.callbacks |->
                                [c.callbacks[i] EXCEPT !.out = c.callbacks[i].acc]],
              !.count = Len(c.callbacks)]

\* CollectionNotifier::package_for_delivery
package_for_delivery(c) ==
    [c EXCEPT !.callbacks = [i \in DOMAIN c.callbacks |->
                                [c.callbacks[i] EXCEPT !.out = c.callbacks[i].acc, !.acc = {}]],
              !.count = Len(c.callbacks),
              !.handover = FALSE]

packaged(ns) == [n \in Notifiers |-> IF n \in ns THEN package_for_delivery(nt[n]) ELSE nt[n]]

\* deliver and set_table_view, with what is packaged: if the view delivered
\* before was not used, the collection wants no more of them.
delivered_with(c, used) ==
    IF ~c.handover THEN package_for_delivery(c)
    ELSE [package_for_delivery(c) EXCEPT !.wanted = IF c.delivered THEN used ELSE @, !.delivered = TRUE]

packagedAndDelivered(ns) ==
    \E used \in {TRUE} \cup (IF "leave unused" \in Features THEN {FALSE} ELSE {}) :
        nt' = [n \in Notifiers |-> IF n \in ns THEN delivered_with(nt[n], used) ELSE nt[n]]

\* RealmCoordinator::notifiers_for_realm
notifiers_for_realm(r) ==
    {n \in Notifiers : nt[n].stage \in {"new", "live"} /\ nt[n].alive /\ RealmOf[n] = r}

\* What package_and_wait waits for.
ready(n, target) ==
    \/ ~have_callbacks(nt[n])
    \/ nt[n].has_run /\ nt[n].version >= target

-----------------------------------------------------------------------------
(* Registering and unregistering, from the thread of the Realm; removing,   *)
(* from any thread.                                                         *)

userCode(r) == realm[r].at = "idle" \/ realm[r].calling

\* Results::prepare_async and register_notifier: the notifier starts at the
\* version its Realm reads.
register_notifier(n) ==
    /\ nt[n].stage = "none" /\ userCode(RealmOf[n]) /\ realm[RealmOf[n]].at # "deliver in write"
    /\ nt' = [nt EXCEPT ![n].stage = "new", ![n].alive = TRUE,
                        ![n].version = realm[RealmOf[n]].version]
    /\ UNCHANGED <<latest, writer, realm, signal, pipe, worker, skipVersion, heard>>

tokensUsed(n) == {t \in Tokens : heard[t].told > 0} \cup {nt[n].callbacks[i].token : i \in DOMAIN nt[n].callbacks}

\* Fault: the worker waits for the next commit.
wakes_never(n) == FALSE

wakes(n) == nt[n].index = npos

\* add_callback: the worker is woken unless the notifier is delivering.  (The
\* application observes each Results once, so its notifiers have not run.)
add_callback(t) ==
    LET n == NotifierOf[t] IN
    /\ nt[n].alive /\ userCode(RealmOf[n]) /\ t \notin tokensUsed(n)
    /\ realm[RealmOf[n]].at = "idle" \/ "add in callback" \in Features
    /\ ~nt[n].has_run \/ {"add in callback", "add later"} \cap Features # {}
    /\ nt' = [nt EXCEPT ![n].callbacks = Append(@, newCallback(t))]
    /\ pipe' = (pipe \/ wakes(n))
    /\ UNCHANGED <<latest, writer, realm, signal, worker, skipVersion, heard>>

\* Fault: there may be no callback being called.
indexAfterRemoval_npos(c, idx) == IF c.index = npos \/ c.index >= idx THEN c.index - 1 ELSE c.index

indexAfterRemoval(c, idx) == IF c.index # npos /\ c.index >= idx THEN c.index - 1 ELSE c.index

\* Fault: the count is not changed.
countAfterRemoval_stays(n) == nt[n].count

\* An unsigned count of packaged callbacks, one less for any callback removed.
\* (It is read only while they are called; here it is 0 otherwise.)
countAfterRemoval(n) ==
    IF \E r \in Realms : n \in realm[r].package /\ realm[r].at \notin {"refresh", "begin"}
    THEN (nt[n].count - 1) % (SizeMax + 1) ELSE 0

\* remove_callback of the callback at place idx (from 0).
remove_callback(n, idx) ==
    /\ nt' = [nt EXCEPT ![n].callbacks = RemoveAt(@, idx + 1),
                        ![n].index = indexAfterRemoval(nt[n], idx),
                        ![n].count = countAfterRemoval(n)]
    /\ UNCHANGED <<latest, writer, realm, signal, pipe, worker, skipVersion, heard>>

\* The collection is destroyed, by any thread; its callbacks hold a reference to
\* it, so they are gone.
unregister(n) ==
    /\ nt[n].alive /\ ~have_callbacks(nt[n])
    /\ nt' = [nt EXCEPT ![n].alive = FALSE]
    /\ UNCHANGED <<latest, writer, realm, signal, pipe, worker, skipVersion, heard>>

-----------------------------------------------------------------------------
(* The worker: ExternalCommitHelper::listen, RealmCoordinator::on_change and *)
(* run_async_notifiers.                                                     *)

clean_up_dead(ns) == [n \in Notifiers |->
    IF ns[n].stage \in {"new", "live"} /\ ~ns[n].alive THEN [ns[n] EXCEPT !.stage = "gone"] ELSE ns[n]]

listed(ns, stage) == {n \in Notifiers : ns[n].stage = stage}

\* The first section under the lock.
workerTake ==
    LET ns == clean_up_dead(nt)
        skip == IF listed(ns, "live") = {} THEN 0 ELSE skipVersion
    IN  /\ worker.at = "idle" /\ pipe
        /\ pipe' = FALSE
        /\ nt' = [n \in Notifiers |->
                    IF ns[n].stage = "new" THEN [ns[n] EXCEPT !.stage = "live"] ELSE ns[n]]
        /\ skipVersion' = 0
        /\ worker' = IF listed(ns, "live") \cup listed(ns, "new") = {}
                     THEN [worker EXCEPT !.at = "signal"]
                     ELSE [at |-> IF skip # 0 THEN "skip" ELSE "run",
                           version |-> latest, skip |-> skip,
                           old |-> listed(ns, "live"), new |-> listed(ns, "new")]
        /\ UNCHANGED <<latest, writer, realm, signal, heard>>

\* The notifiers run at a version, outside the lock.
runAll(ns, version, next) ==
    /\ nt' = [n \in Notifiers |-> IF n \in ns THEN run(nt[n], version) ELSE nt[n]]
    /\ worker' = [worker EXCEPT !.at = next]
    /\ UNCHANGED <<latest, writer, realm, signal, pipe, skipVersion, heard>>

workerRunSkip == worker.at = "skip" /\ runAll(worker.old, worker.skip, "skipped")

workerRun == worker.at = "run" /\ runAll(worker.old \cup worker.new, worker.version, "ran")

\* Fault: nothing is handed over to a notifier without callbacks.
handedOver_called(ns, version) ==
    [n \in Notifiers |-> IF n \in ns /\ have_callbacks(nt[n]) THEN prepare_handover(nt[n], version) ELSE nt[n]]

handedOver(ns, version) ==
    [n \in Notifiers |-> IF n \in ns THEN prepare_handover(nt[n], version) ELSE nt[n]]

\* Up to the transaction to be skipped ...
workerHandoverSkip ==
    /\ worker.at = "skipped"
    /\ nt' = handedOver(worker.old, worker.skip)
    /\ worker' = [worker EXCEPT !.at = "run"]
    /\ UNCHANGED <<latest, writer, realm, signal, pipe, skipVersion, heard>>

\* ... and up to the version chosen; whoever waits for the notifiers is woken.
workerHandover ==
    /\ worker.at = "ran"
    /\ nt' = clean_up_dead(handedOver(worker.old \cup worker.new, worker.version))
    /\ worker' = [worker EXCEPT !.at = "signal"]
    /\ UNCHANGED <<latest, writer, realm, signal, pipe, skipVersion, heard>>

\* WeakRealmNotifier::notify for every Realm.
workerSignal ==
    /\ worker.at = "signal"
    /\ signal' = [r \in Realms |-> TRUE]
    /\ worker' = [at |-> "idle", version |-> 0, skip |-> 0, old |-> {}, new |-> {}]
    /\ UNCHANGED <<latest, writer, realm, nt, pipe, skipVersion, heard>>

-----------------------------------------------------------------------------
(* Delivering.                                                             *)

\* The Realm's thread goes on to call the callbacks of the notifiers ns.
delivering(r, version, at, ns) ==
    realm' = [realm EXCEPT ![r] = [version |-> version, at |-> at, target |-> version,
                                   package |-> ns, now |-> None, calling |-> FALSE]]

\* Realm::notify, called by the run loop.
notify(r) ==
    LET v == realm[r].version
        all == {n \in notifiers_for_realm(r) : can_package(nt[n])}
        now == {n \in all : nt[n].version = v}
        at == CHOOSE w \in {nt[n].version : n \in all} : TRUE
    IN  /\ signal[r] /\ realm[r].at \in {"idle", "write"}
        /\ signal' = [signal EXCEPT ![r] = FALSE]
        /\ CASE realm[r].at = "write" -> UNCHANGED <<nt, realm>>
             [] realm[r].at = "idle" /\ latest = v ->            \* process_available_async
                    packagedAndDelivered(now) /\ delivering(r, v, "deliver", now)
             [] realm[r].at = "idle" /\ latest > v /\ all = {} -> \* advance_to_ready
                    UNCHANGED nt /\ delivering(r, latest, "deliver", {})
             [] realm[r].at = "idle" /\ latest > v /\ all # {} /\ at < v -> \* out of date
                    nt' = packaged(all) /\ UNCHANGED realm
             [] OTHER ->
                    packagedAndDelivered(all) /\ delivering(r, at, "deliver", all)
        /\ UNCHANGED <<latest, writer, pipe, worker, skipVersion, heard>>

callbackHeard(t, version, changes) ==
    LET h == heard[t] IN
    [heard EXCEPT ![t] = IF h.told = 0 THEN [h EXCEPT !.base = version, !.told = version]
                         ELSE [h EXCEPT !.told = version, !.got = h.got \cup changes]]

\* for_each_callback of after_advance: the next callback, if it has something to
\* hear, or the next notifier when there is none left.  (A count past the
\* callbacks ends the program.)
after_advance(r, n) ==
    LET c == nt[n]
        i == c.index + 1
        cb == c.callbacks[i + 1]
        hears == ~(cb.initial_delivered /\ cb.out = {})
    IN  /\ realm[r].at \in {"deliver", "deliver in write"} /\ n \in realm[r].package
        /\ realm[r].now \in {None, n}
        /\ IF i < c.count
           THEN /\ i < Len(c.callbacks)
                /\ nt' = [nt EXCEPT ![n].index = i,
                                    ![n].callbacks[i + 1].initial_delivered = TRUE,
                                    ![n].callbacks[i + 1].out = {}]
                /\ heard' = IF hears THEN callbackHeard(cb.token, realm[r].version, cb.out) ELSE heard
                /\ realm' = [realm EXCEPT ![r].now = n, ![r].calling = hears]
           ELSE /\ nt' = [nt EXCEPT ![n].index = npos, ![n].count = 0]
                /\ realm' = [realm EXCEPT ![r].package = @ \ {n}, ![r].now = None, ![r].calling = FALSE]
                /\ UNCHANGED heard
        /\ UNCHANGED <<latest, writer, signal, pipe, worker, skipVersion>>

\* All callbacks have been called.
delivered(r) ==
    /\ realm[r].at \in {"deliver", "deliver in write"} /\ realm[r].package = {}
    /\ realm' = [realm EXCEPT ![r].at = IF @ = "deliver" THEN "idle" ELSE "write"]
    /\ UNCHANGED <<latest, writer, signal, nt, pipe, worker, skipVersion, heard>>

-----------------------------------------------------------------------------
(* Refreshing and writing.                                                 *)

\* What package_and_wait does before it waits: wake the worker if need be.
startWaiting(r, at) ==
    LET ns == notifiers_for_realm(r) IN
    /\ realm' = [realm EXCEPT ![r].at = at, ![r].target = latest, ![r].package = ns]
    /\ pipe' = (pipe \/ \E n \in ns : ~ready(n, latest))

\* Realm::refresh up to the wait in advance_to_latest.
refresh(r) ==
    /\ realm[r].at = "idle"
    /\ startWaiting(r, "refresh")
    /\ UNCHANGED <<latest, writer, signal, nt, worker, skipVersion, heard>>

\* The notifiers of a package once it has waited: the ones with something to
\* deliver, unless they are behind the version wanted.
waitedFor(r) ==
    LET ns == {n \in realm[r].package : can_package(nt[n])}
    IN  IF \E n \in ns : nt[n].version < realm[r].target THEN {} ELSE ns

waitIsOver(r) == \A n \in realm[r].package : ready(n, realm[r].target)

refreshed(r) ==
    LET ns == waitedFor(r) IN
    /\ realm[r].at = "refresh" /\ waitIsOver(r)
    /\ packagedAndDelivered(ns)
    /\ \E v \in (IF ns = {} THEN {latest} ELSE {nt[n].version : n \in ns}) :
        delivering(r, v, "deliver", ns)
    /\ UNCHANGED <<latest, writer, signal, pipe, worker, skipVersion, heard>>

\* Realm::begin_transaction up to the wait: it holds the write lock.
begin_transaction(r) ==
    /\ realm[r].at = "idle" /\ writer = None
    /\ writer' = r
    /\ startWaiting(r, "begin")
    /\ UNCHANGED <<latest, signal, nt, worker, skipVersion, heard>>

\* The Realm is advanced and the callbacks are called inside the transaction.
begun(r) ==
    /\ realm[r].at = "begin" /\ waitIsOver(r)
    /\ nt' = packaged({n \in realm[r].package : can_package(nt[n])})
    /\ delivering(r, latest, "deliver in write", waitedFor(r))
    /\ UNCHANGED <<latest, writer, signal, pipe, worker, skipVersion, heard>>

\* A callback begins a write transaction: no notifications, no waiting.
begin_in_callback(r) ==
    /\ "write in callback" \in Features
    /\ realm[r].at = "deliver" /\ realm[r].calling /\ writer = None
    /\ writer' = r
    /\ realm' = [realm EXCEPT ![r].at = "write in callback", ![r].version = latest]
    /\ heard' = [t \in Tokens |->
                    IF RealmOf[NotifierOf[t]] # r THEN heard[t]
                    ELSE [heard[t] EXCEPT !.overtaken = @ \cup ((realm[r].version..(latest + 1)) \cap Versions)]]
    /\ UNCHANGED <<latest, signal, nt, pipe, worker, skipVersion>>

\* suppress_next_notification for the tokens ts.
suppressed(ts) ==
    [n \in Notifiers |-> [nt[n] EXCEPT !.callbacks =
        [i \in DOMAIN nt[n].callbacks |->
            IF nt[n].callbacks[i].token \in ts THEN [nt[n].callbacks[i] EXCEPT !.skip_next = TRUE]
            ELSE nt[n].callbacks[i]]]]

suppressible(r) ==
    {t \in Tokens : RealmOf[NotifierOf[t]] = r /\ "suppress" \in Features
                    /\ \E i \in DOMAIN nt[NotifierOf[t]].callbacks : nt[NotifierOf[t]].callbacks[i].token = t}

leftWrite(r) == IF realm[r].at = "write" THEN "idle" ELSE "deliver"

skipAfter(r) ==
    IF \E n \in Notifiers : nt[n].stage = "live" /\ nt[n].alive /\ RealmOf[n] = r
    THEN latest + 1 ELSE skipVersion

\* commit_transaction, and commitWriteTransactionWithoutNotifying the tokens ts.
commit_transaction(r, ts) ==
    /\ realm[r].at \in {"write", "write in callback"} /\ latest < MaxVersion
    /\ latest' = latest + 1
    /\ writer' = None
    /\ realm' = [realm EXCEPT ![r].at = leftWrite(r), ![r].version = latest + 1]
    /\ nt' = suppressed(ts)
    /\ skipVersion' = skipAfter(r)
    /\ heard' = [t \in Tokens |-> IF t \in ts THEN [heard[t] EXCEPT !.own = @ \cup {latest + 1}]
                                  ELSE heard[t]]
    /\ pipe' = TRUE
    /\ UNCHANGED <<signal, worker>>

\* The file cannot grow: the transaction stays open, the callbacks marked.
commit_fails(r, ts) ==
    /\ ts = {} \/ "commit fails" \in Features
    /\ realm[r].at \in {"write", "write in callback"}
    /\ nt' = suppressed(ts)
    /\ UNCHANGED <<latest, writer, realm, signal, pipe, worker, skipVersion, heard>>

\* Another process writes: this one sees a new version, and news in the pipe.
otherProcessCommits ==
    /\ writer = None /\ latest < MaxVersion
    /\ latest' = latest + 1
    /\ pipe' = TRUE
    /\ UNCHANGED <<writer, realm, signal, nt, worker, skipVersion, heard>>

cancel_transaction(r) ==
    /\ realm[r].at \in {"write", "write in callback"}
    /\ writer' = None
    /\ realm' = [realm EXCEPT ![r].at = leftWrite(r)]
    /\ UNCHANGED <<latest, signal, nt, pipe, worker, skipVersion, heard>>

-----------------------------------------------------------------------------
(* The specification.                                                      *)

Init ==
    /\ latest = 1
    /\ writer = None
    /\ realm = [r \in Realms |-> [version |-> 1, at |-> "idle", target |-> 1, package |-> {},
                                now |-> None, calling |-> FALSE]]
    /\ signal = [r \in Realms |-> FALSE]
    /\ nt = [n \in Notifiers |-> [stage |-> "none", alive |-> FALSE, has_run |-> FALSE,
                                  version |-> 0, rows |-> 0, changes |-> {},
                                  handover |-> FALSE, delivered |-> FALSE, wanted |-> TRUE,
                                  callbacks |-> <<>>, index |-> npos, count |-> 0]]
    /\ pipe = FALSE
    /\ worker = [at |-> "idle", version |-> 0, skip |-> 0, old |-> {}, new |-> {}]
    /\ skipVersion = 0
    /\ heard = [t \in Tokens |-> [base |-> 0, told |-> 0, got |-> {}, own |-> {}, overtaken |-> {}]]

workerStep == workerTake \/ workerRunSkip \/ workerHandoverSkip \/ workerRun \/ workerHandover
              \/ workerSignal

\* What the thread of a Realm does by itself once it has begun something.
realmStep(r) == notify(r) \/ refreshed(r) \/ begun(r) \/ delivered(r)
                \/ \E n \in Notifiers : after_advance(r, n)

Next ==
    \/ \E n \in Notifiers : register_notifier(n) \/ unregister(n)
    \/ \E t \in Tokens : add_callback(t)
    \/ \E n \in Notifiers : \E i \in DOMAIN nt[n].callbacks : remove_callback(n, i - 1)
    \/ workerStep
    \/ otherProcessCommits
    \/ \E r \in Realms :
        \/ realmStep(r)
        \/ refresh(r) \/ begin_transaction(r) \/ begin_in_callback(r) \/ cancel_transaction(r)
        \/ \E ts \in SUBSET suppressible(r) : commit_transaction(r, ts) \/ commit_fails(r, ts)

Spec == Init /\ [][Next]_vars

\* The worker listens, run loops turn, transactions end, and a callback returns,
\* whatever transactions it begins.
Fairness ==
    /\ WF_vars(workerStep)
    /\ \A r \in Realms :
        /\ WF_vars(realmStep(r)) /\ WF_vars(cancel_transaction(r))
        /\ SF_vars(\E n \in Notifiers : after_advance(r, n))

FairSpec == Spec /\ Fairness

-----------------------------------------------------------------------------
(* Properties.                                                             *)

\* A callback that was told of a version was told of, or had itself skipped,
\* every version since its first call: no change set is lost between the worker,
\* packages that are put together, discarded or overtaken, and the run loop.
\* Except what its Realm overtook, or wrote, by a write begun inside a callback,
\* which "could leave the user in an inconsistent state"
\* (Realm::begin_transaction).
NothingMissed ==
    \A t \in Tokens : heard[t].told > 0 =>
        (heard[t].base + 1)..heard[t].told \subseteq heard[t].got \cup heard[t].own \cup heard[t].overtaken

\* What waits to be delivered to a callback is news: no change is told twice.
PendingIsNews ==
    \A n \in Notifiers : \A i \in DOMAIN nt[n].callbacks :
        LET cb == nt[n].callbacks[i] IN
        cb.initial_delivered => \A v \in cb.acc \cup cb.out : v > heard[cb.token].told

\* The notifiers that have run are at one version, so a package has one version
\* (NotifierPackage takes it from the last notifier it packages).
NotifiersAgree ==
    \A m, n \in {k \in Notifiers : nt[k].stage = "live" /\ can_package(nt[k])} :
        nt[m].version = nt[n].version

\* While callbacks are called, the index and the count stay inside the callbacks
\* of the notifier, whichever are removed meanwhile: "m_callback_count <=
\* m_callbacks.size()" (for_each_callback).
CountIsInside ==
    \A r \in Realms : \A n \in realm[r].package :
        realm[r].at \in {"deliver", "deliver in write", "write in callback"} =>
            nt[n].index < Len(nt[n].callbacks) /\ nt[n].count <= Len(nt[n].callbacks)

toldOf(t, v) ==
    heard[t].told >= v \/ v \in heard[t].own \cup heard[t].overtaken

listening(t) == \E i \in DOMAIN nt[NotifierOf[t]].callbacks : nt[NotifierOf[t]].callbacks[i].token = t

\* A callback is called a first time, and about every version, with the same
\* exception, or it is removed.
EveryCallbackHears ==
    \A t \in Tokens : \A v \in Versions :
        latest = v /\ listening(t) ~> toldOf(t, v) \/ ~listening(t)
=============================================================================
