---------------------------- MODULE NotifierNews ----------------------------
(***************************************************************************)
(* What waits to be delivered to a callback is news to it, and nothing is   *)
(* missed.                                                                 *)
(***************************************************************************)
EXTENDS NotifierTypes

-----------------------------------------------------------------------------
(* The write lock, and the snapshots of the Realms that hold it.           *)

Writes == {"begin", "deliver in write", "write", "write in callback"}

\* A Realm that writes holds the lock, and reads the latest snapshot.
LockOf(r, x, w, last) ==
    /\ x.at \in Writes => w = r
    /\ x.at = "begin" => x.target = last
    /\ x.at \in {"deliver in write", "write", "write in callback"} => x.version = last
    /\ x.at = "write in callback" => "write in callback" \in Features

Locked == \A r \in Realms : LockOf(r, realm[r], writer, latest)

LEMMA LockedOne ==
    ASSUME Locked, NEW r \in Realms, OnlyOfRealm(r), LockOf(r, realm'[r], writer', latest'),
           \/ UNCHANGED <<writer, latest>>
           \/ writer \in {r, None}
    PROVE  Locked'
<1>1. ASSUME NEW s \in Realms, s # r
      PROVE  LockOf(s, realm'[s], writer', latest')
  <2>1. realm'[s] = realm[s] /\ LockOf(s, realm[s], writer, latest)
    BY <1>1 DEF OnlyOfRealm, Locked
  <2>2. CASE UNCHANGED <<writer, latest>>
    BY <2>1, <2>2
  <2>3. CASE writer \in {r, None}
    <3>1. realm[s].at \notin Writes
      BY <1>1, <2>1, <2>3, NoneAssumption DEF LockOf
    <3> QED
      BY <2>1, <3>1 DEF LockOf, Writes
  <2> QED
    BY <2>2, <2>3
<1> QED
  BY <1>1 DEF Locked

\* A Realm that goes on to call callbacks, at a version of its own choice.
LEMMA DeliveringLocked ==
    ASSUME TypeInv, Locked, NEW r \in Realms, NEW v, NEW ns, delivering(r, v, "deliver", ns),
           UNCHANGED <<writer, latest>>
    PROVE  Locked'
<1>1. OnlyOfRealm(r) /\ realm'[r].at = "deliver"
  BY DeliveringIs
<1>2. LockOf(r, realm'[r], writer', latest')
  BY <1>1 DEF LockOf, Writes
<1> QED
  BY <1>1, <1>2, LockedOne

LEMMA NextLocked ==
    ASSUME TypeInv, Behind, OwnPackages, Locked, [Next]_vars
    PROVE  Locked'
<1>1. CASE UNCHANGED <<latest, writer, realm>>
  BY <1>1 DEF Locked
<1>2. ASSUME NEW r \in Realms, notify(r)
      PROVE  Locked'
  <2>1. UNCHANGED <<writer, latest>>
    BY <1>2 DEF notify
  <2> QED
    BY <1>1, <1>2, <2>1, NotifyCases, DeliveringLocked DEF NotifyBranches
<1>3. ASSUME NEW r \in Realms, refreshed(r)
      PROVE  Locked'
  BY <1>3, DeliveringLocked DEF refreshed
<1>4. ASSUME NEW r \in Realms
      PROVE  LockOf(r, realm[r], writer, latest)
  BY <1>4 DEF Locked
<1>5. ASSUME NEW r \in Realms, begun(r)
      PROVE  Locked'
  <2>1. delivering(r, latest, "deliver in write", waitedFor(r)) /\ realm[r].at = "begin"
        /\ UNCHANGED <<writer, latest>>
    BY <1>5 DEF begun
  <2>2. OnlyOfRealm(r) /\ realm'[r].at = "deliver in write" /\ realm'[r].version = latest
    BY <2>1, DeliveringIs
  <2>3. LockOf(r, realm'[r], writer', latest')
    BY <1>4, <2>1, <2>2 DEF LockOf, Writes
  <2> QED
    BY <2>1, <2>2, <2>3, LockedOne
<1>6. ASSUME NEW r \in Realms, NEW n \in Notifiers, after_advance(r, n)
      PROVE  Locked'
  <2>1. OnlyOfRealm(r) /\ realm'[r].version = realm[r].version /\ realm'[r].at = realm[r].at
        /\ realm'[r].target = realm[r].target /\ UNCHANGED <<writer, latest>>
    BY <1>6, after_advanceRealm DEF after_advance
  <2>2. LockOf(r, realm'[r], writer', latest')
    BY <1>4, <2>1 DEF LockOf
  <2> QED
    BY <2>1, <2>2, LockedOne
<1>7. ASSUME NEW r \in Realms, delivered(r)
      PROVE  Locked'
  <2>1. OnlyOfRealm(r) /\ realm'[r].version = realm[r].version
        /\ (\/ realm[r].at = "deliver" /\ realm'[r].at = "idle"
            \/ realm[r].at = "deliver in write" /\ realm'[r].at = "write")
        /\ UNCHANGED <<writer, latest>>
    BY <1>7, deliveredRealm DEF delivered
  <2>2. LockOf(r, realm'[r], writer', latest')
    BY <1>4, <2>1 DEF LockOf, Writes
  <2> QED
    BY <2>1, <2>2, LockedOne
<1>8. ASSUME NEW r \in Realms, refresh(r)
      PROVE  Locked'
  <2>1. OnlyOfRealm(r) /\ realm'[r].at = "refresh" /\ UNCHANGED <<writer, latest>>
    BY <1>8, startWaitingRealm DEF refresh
  <2>2. LockOf(r, realm'[r], writer', latest')
    BY <2>1 DEF LockOf, Writes
  <2> QED
    BY <2>1, <2>2, LockedOne
<1>9. ASSUME NEW r \in Realms, begin_transaction(r)
      PROVE  Locked'
  <2>1. OnlyOfRealm(r) /\ realm'[r].at = "begin" /\ realm'[r].target = latest
        /\ writer = None /\ writer' = r /\ latest' = latest
    BY <1>9, startWaitingRealm DEF begin_transaction
  <2>2. LockOf(r, realm'[r], writer', latest')
    BY <2>1 DEF LockOf, Writes
  <2> QED
    BY <2>1, <2>2, LockedOne
<1>10. ASSUME NEW r \in Realms, begin_in_callback(r)
       PROVE  Locked'
  <2>1. OnlyOfRealm(r) /\ realm'[r].at = "write in callback" /\ realm'[r].version = latest
        /\ writer = None /\ writer' = r /\ latest' = latest /\ "write in callback" \in Features
    BY <1>10, begin_in_callbackRealm DEF begin_in_callback
  <2>2. LockOf(r, realm'[r], writer', latest')
    BY <2>1 DEF LockOf, Writes
  <2> QED
    BY <2>1, <2>2, LockedOne
<1>11. ASSUME NEW r \in Realms, realm[r].at \in {"write", "write in callback"}
       PROVE  writer = r
  BY <1>4, <1>11 DEF LockOf, Writes
<1>12. ASSUME NEW r \in Realms, OnlyOfRealm(r), realm[r].at \in {"write", "write in callback"},
              realm'[r].at \in {"idle", "deliver"}
       PROVE  Locked'
  <2>1. LockOf(r, realm'[r], writer', latest')
    BY <1>12 DEF LockOf, Writes
  <2> QED
    BY <1>11, <1>12, <2>1, LockedOne
<1>13. ASSUME NEW r \in Realms, cancel_transaction(r)
       PROVE  Locked'
  BY <1>12, <1>13, cancel_transactionRealm
<1>14. ASSUME NEW r \in Realms, NEW ts, commit_transaction(r, ts)
       PROVE  Locked'
  BY <1>12, <1>14, commit_transactionRealm
<1>15. CASE otherProcessCommits
  <2>1. \A r \in Realms : realm[r].at \notin Writes
    BY <1>4, <1>15, NoneAssumption DEF otherProcessCommits, LockOf
  <2>2. \A r \in Realms : realm'[r] = realm[r]
    BY <1>15 DEF otherProcessCommits
  <2> QED
    BY <2>1, <2>2 DEF Locked, LockOf, Writes
<1>16. CASE workerStep
  BY <1>1, <1>16 DEF workerStep, workerTake, workerRunSkip, workerRun, workerHandoverSkip, workerHandover,
     workerSignal, runAll
<1>17. CASE \/ \E n \in Notifiers : register_notifier(n) \/ unregister(n)
            \/ \E t \in Tokens : add_callback(t)
            \/ \E n \in Notifiers : \E i \in DOMAIN nt[n].callbacks : remove_callback(n, i - 1)
            \/ \E r \in Realms : \E ts \in SUBSET suppressible(r) : commit_fails(r, ts)
            \/ UNCHANGED vars
  BY <1>1, <1>17 DEF register_notifier, unregister, add_callback, remove_callback, commit_fails, vars
<1> QED
  BY <1>2, <1>3, <1>5, <1>6, <1>7, <1>8, <1>9, <1>10, <1>13, <1>14, <1>15, <1>16, <1>17
     DEF Next, realmStep

-----------------------------------------------------------------------------
(* What the steps of the application and of its Realms leave to a notifier. *)

HasFew(c) == have_callbacks(c) <=> Len(c.callbacks) # 0

LEMMA CallbacksCounted ==
    ASSUME NEW c \in CollectionNotifier
    PROVE  HasFew(c) /\ Len(c.callbacks) \in Nat /\ DOMAIN c.callbacks = 1..Len(c.callbacks)
<1>1. PICK cbs \in Seq(Callback) : cbs = c.callbacks
  BY DEF CollectionNotifier
<1>2. cbs # <<>> <=> Len(cbs) # 0
  OBVIOUS
<1> QED
  BY <1>1, <1>2 DEF HasFew, have_callbacks

\* A notifier keeps its history of runs; it may die, it gets no first callback
\* once it has run, and is asked to run unless it has run.
KeptAs(c, d) ==
    /\ d.stage = c.stage /\ (d.alive => c.alive) /\ d.has_run = c.has_run
    /\ d.version = c.version /\ d.rows = c.rows /\ d.changes = c.changes
    /\ c.has_run \/ d.wanted = c.wanted
    /\ have_callbacks(d) => have_callbacks(c) \/ ~c.has_run
    /\ (have_callbacks(c) => c.alive) => (have_callbacks(d) => d.alive)

Kept == \A n \in Notifiers : KeptAs(nt[n], nt'[n])

LEMMA SelfKept == ASSUME NEW c PROVE KeptAs(c, c)
  BY DEF KeptAs

LEMMA PackagedKept ==
    ASSUME NEW c \in CollectionNotifier, c.has_run, NEW d, PackagedAs(c, d)
    PROVE  KeptAs(c, d)
<1>1. d \in CollectionNotifier /\ SameRuns(c, d) /\ Len(d.callbacks) = Len(c.callbacks)
  BY DEF PackagedAs
<1> QED
  BY <1>1, CallbacksCounted DEF KeptAs, SameRuns, HasFew

LEMMA SuppressedKept ==
    ASSUME NEW c \in CollectionNotifier, NEW ts, NEW d, SuppressedAs(c, d, ts)
    PROVE  KeptAs(c, d)
<1>1. /\ d \in CollectionNotifier /\ SameRuns(c, d) /\ d.wanted = c.wanted
      /\ Len(d.callbacks) = Len(c.callbacks)
  BY DEF SuppressedAs
<1> QED
  BY <1>1, CallbacksCounted DEF KeptAs, SameRuns, HasFew

LEMMA CalledKept ==
    ASSUME NEW c \in CollectionNotifier, NEW p, NEW d, CalledAt(c, d, p)
    PROVE  KeptAs(c, d)
<1>1. /\ d \in CollectionNotifier /\ SameRuns(c, d) /\ d.wanted = c.wanted
      /\ Len(d.callbacks) = Len(c.callbacks)
  BY DEF CalledAt
<1> QED
  BY <1>1, CallbacksCounted DEF KeptAs, SameRuns, HasFew

LEMMA CallsEndedKept ==
    ASSUME NEW c, NEW d, CallsEnded(c, d)
    PROVE  KeptAs(c, d)
  BY DEF KeptAs, CallsEnded, SameRuns, have_callbacks

LEMMA RemovedKept ==
    ASSUME NEW c \in CollectionNotifier, NEW p \in DOMAIN c.callbacks, NEW d, RemovedFrom(c, d, p - 1)
    PROVE  KeptAs(c, d)
<1>1. Len(c.callbacks) # 0
  <2>1. DOMAIN c.callbacks = 1..Len(c.callbacks) /\ Len(c.callbacks) \in Nat
    BY CallbacksCounted
  <2> QED
    BY <2>1
<1>2. d \in CollectionNotifier /\ SameRuns(c, d) /\ d.wanted = c.wanted
  BY DEF RemovedFrom
<1> QED
  BY <1>1, <1>2, CallbacksCounted DEF KeptAs, SameRuns, HasFew

LEMMA AddedKept ==
    ASSUME NEW c, ~c.has_run, c.alive, NEW t, NEW d, AddedTo(c, d, t)
    PROVE  KeptAs(c, d)
  BY DEF KeptAs, AddedTo, SameRuns

LEMMA UnregisteredKept ==
    ASSUME NEW c, ~have_callbacks(c), NEW d, UnregisteredAs(c, d)
    PROVE  KeptAs(c, d)
  BY DEF KeptAs, UnregisteredAs, SamePlace, have_callbacks

LEMMA OneKept ==
    ASSUME NEW n \in Notifiers, OnlyOf(n), KeptAs(nt[n], nt'[n])
    PROVE  Kept
  BY SelfKept DEF OnlyOf, Kept

LEMMA PackagesKept ==
    ASSUME TypeInv, NEW ns, \A n \in ns : can_package(nt[n]), Packages(ns)
    PROVE  Kept
<1>1. ASSUME NEW n \in Notifiers
      PROVE  KeptAs(nt[n], nt'[n])
  <2>1. PICK c \in CollectionNotifier : c = nt[n]
    BY DEF TypeInv, Typed
  <2>2. CASE n \in ns
    <3>1. c.has_run /\ PackagedAs(c, nt'[n])
      BY <2>1, <2>2 DEF can_package, Packages
    <3> QED
      BY <2>1, <3>1, PackagedKept
  <2>3. CASE n \notin ns
    BY <2>3, SelfKept DEF Packages
  <2> QED
    BY <2>2, <2>3
<1> QED
  BY <1>1 DEF Kept

\* No callback is added to a collection that has run.
NoneAdded == {"add in callback", "add later"} \cap Features = {}

\* The steps of the application, but the registering of a notifier, and of its Realms.
LEMMA StepsKeep ==
    ASSUME NoneAdded, TypeInv, Behind, OwnPackages, Next, ~workerStep,
           ~\E n \in Notifiers : register_notifier(n)
    PROVE  Kept /\ UNCHANGED worker
<1>1. CASE UNCHANGED nt /\ UNCHANGED worker
  BY <1>1, SelfKept DEF Kept
<1>2. ASSUME NEW n \in Notifiers, unregister(n)
      PROVE  Kept /\ UNCHANGED worker
  BY <1>2, UnregisteredIs, UnregisteredKept, OneKept DEF unregister
<1>3. ASSUME NEW t \in Tokens, add_callback(t)
      PROVE  Kept /\ UNCHANGED worker
  <2>1. PICK n \in Notifiers : n = NotifierOf[t] /\ OnlyOf(n) /\ AddedTo(nt[n], nt'[n], t)
    BY <1>3, AddedCallback
  <2>2. ~nt[n].has_run /\ nt[n].alive /\ UNCHANGED worker
    BY <1>3, <2>1 DEF add_callback, NoneAdded
  <2> QED
    BY <2>1, <2>2, AddedKept, OneKept
<1>4. ASSUME NEW n \in Notifiers, NEW p \in DOMAIN nt[n].callbacks, remove_callback(n, p - 1)
      PROVE  Kept /\ UNCHANGED worker
  <2>1. OnlyOf(n) /\ RemovedFrom(nt[n], nt'[n], p - 1) /\ UNCHANGED worker
    BY <1>4, RemovedCallback DEF remove_callback
  <2>2. PICK c \in CollectionNotifier : c = nt[n] /\ p \in DOMAIN c.callbacks
    BY DEF TypeInv, Typed
  <2> QED
    BY <2>1, <2>2, RemovedKept, OneKept
<1>5. ASSUME NEW r \in Realms, notify(r)
      PROVE  Kept /\ UNCHANGED worker
  <2>1. UNCHANGED worker
    BY <1>5 DEF notify
  <2>2. NotifyBranches(r) /\ \A n \in packable(r) : can_package(nt[n])
    BY <1>5, NotifyCases
  <2>3. PICK all, now : /\ all = packable(r) /\ now = packableNow(r)
                        /\ \A n \in all : can_package(nt[n])
                        /\ \A n \in now : can_package(nt[n])
    BY <2>2 DEF packableNow
  <2>4. UNCHANGED nt \/ packagedAndDelivered(now) \/ nt' = packaged(all) \/ packagedAndDelivered(all)
    BY <2>2, <2>3 DEF NotifyBranches
  <2>5. UNCHANGED nt \/ Packages(now) \/ Packages(all)
    BY <2>4, PackagedIs, PackagedAndDeliveredIs DEF TypeInv
  <2> QED
    BY <1>1, <2>1, <2>3, <2>5, PackagesKept
<1>6. ASSUME NEW r \in Realms, refreshed(r)
      PROVE  Kept /\ UNCHANGED worker
  <2>1. PICK ns : ns = waitedFor(r) /\ \A n \in ns : can_package(nt[n])
    BY waitedForIs
  <2>2. packagedAndDelivered(ns) /\ UNCHANGED worker
    BY <1>6, <2>1 DEF refreshed
  <2>3. Packages(ns)
    BY <2>2, PackagedAndDeliveredIs DEF TypeInv
  <2> QED
    BY <2>1, <2>2, <2>3, PackagesKept
<1>7. ASSUME NEW r \in Realms, begun(r)
      PROVE  Kept /\ UNCHANGED worker
  <2>1. PICK ns : ns = {n \in realm[r].package : can_package(nt[n])}
    OBVIOUS
  <2>2. nt' = packaged(ns) /\ UNCHANGED worker
    BY <1>7, <2>1 DEF begun
  <2>3. Packages(ns)
    BY <2>2, PackagedIs DEF TypeInv
  <2> QED
    BY <2>1, <2>2, <2>3, PackagesKept
<1>8. ASSUME NEW r \in Realms, NEW n \in Notifiers, after_advance(r, n)
      PROVE  Kept /\ UNCHANGED worker
  <2>1. UNCHANGED worker
    BY <1>8 DEF after_advance
  <2>2. PICK c \in CollectionNotifier : c = nt[n]
    BY DEF TypeInv, Typed
  <2>3. OnlyOf(n) /\ (CalledAt(c, nt'[n], c.index + 2) \/ CallsEnded(c, nt'[n]))
    BY <1>8, <2>2, CalledIs, CallsEndedIs
  <2>4. KeptAs(c, nt'[n])
    BY <2>3, CalledKept, CallsEndedKept
  <2> QED
    BY <2>1, <2>2, <2>3, <2>4, OneKept
<1>9. ASSUME NEW r \in Realms, NEW ts, commit_transaction(r, ts) \/ commit_fails(r, ts)
      PROVE  Kept /\ UNCHANGED worker
  <2>1. Suppresses(ts) /\ UNCHANGED worker
    BY <1>9, SuppressIs DEF commit_transaction, commit_fails
  <2> QED
    BY <2>1, SuppressedKept DEF Suppresses, Kept, TypeInv, Typed
<1>10. CASE \/ otherProcessCommits
            \/ \E r \in Realms : \/ delivered(r) \/ refresh(r) \/ begin_transaction(r)
                                 \/ begin_in_callback(r) \/ cancel_transaction(r)
  BY <1>1, <1>10 DEF otherProcessCommits, delivered, refresh, begin_transaction, begin_in_callback,
     cancel_transaction
<1> QED
  BY <1>2, <1>3, <1>4, <1>5, <1>6, <1>7, <1>8, <1>9, <1>10 DEF Next, realmStep

\* A notifier has run once it has run, and before its callbacks are called.
LEMMA NextHasRun ==
    ASSUME NoneAdded, TypeInv, Behind, OwnPackages, [Next]_vars
    PROVE  \A n \in Notifiers : nt[n].has_run => nt'[n].has_run
<1>1. CASE UNCHANGED nt
  BY <1>1
<1>2. ASSUME NEW n \in Notifiers, register_notifier(n)
      PROVE  \A m \in Notifiers : nt[m].has_run => nt'[m].has_run
  BY <1>2, RegisteredIs DEF RegisteredAs, OnlyOf
<1>3. CASE workerTake
  BY <1>3, TakenIs DEF TakenAs, StagedAs
<1>4. ASSUME NEW ns, NEW v \in Versions, NEW at, runAll(ns, v, at)
      PROVE  \A m \in Notifiers : nt[m].has_run => nt'[m].has_run
  BY <1>4, RunAllIs DEF Runs, RanAs
<1>5. worker.at \in {"skip", "skipped"} => worker.skip \in Versions
  BY MaxVersionAssumption DEF TypeInv, WorkerTyped, WorkerState, Versions
<1>6. worker.at \in {"run", "ran"} => worker.version \in Versions
  BY MaxVersionAssumption DEF TypeInv, WorkerTyped, WorkerState, Versions
<1>7. CASE workerRunSkip
  BY <1>4, <1>5, <1>7 DEF workerRunSkip
<1>8. CASE workerRun
  BY <1>4, <1>6, <1>8 DEF workerRun
<1>9. CASE workerHandoverSkip
  <2>1. HandsOver(nt', worker.old, worker.skip)
    BY <1>5, <1>9, HandedOverIs DEF workerHandoverSkip
  <2> QED
    BY <2>1 DEF HandsOver, HandedOverAs
<1>10. CASE workerHandover
  BY <1>10, WorkerHandoverIs DEF HandedAndCleaned, HandedOverAs, CleanedAs, StagedAs
<1>11. CASE workerSignal
  BY <1>1, <1>11 DEF workerSignal
<1>12. CASE Next /\ ~workerStep /\ ~\E n \in Notifiers : register_notifier(n)
  BY <1>12, StepsKeep DEF Kept, KeptAs
<1> QED
  BY <1>1, <1>2, <1>3, <1>7, <1>8, <1>9, <1>10, <1>11, <1>12 DEF workerStep, vars

RunBeforeCalls == \A n \in Notifiers : Delivering(n) => nt[n].has_run

LEMMA DeliveringRun ==
    ASSUME TypeInv, NEW r \in Realms, NEW ns, \A n \in ns : can_package(nt[n]),
           NEW v, NEW at, delivering(r, v, at, ns)
    PROVE  \A n \in Notifiers : Delivering(n)' => Delivering(n) \/ nt[n].has_run
<1>1. OnlyOfRealm(r) /\ realm'[r].package = ns
  BY DeliveringIs
<1>2. ASSUME NEW n \in Notifiers, Delivering(n)'
      PROVE  Delivering(n) \/ nt[n].has_run
  <2>1. CASE RealmOf[n] # r
    BY <1>1, <1>2, <2>1, ElsewhereDelivering
  <2>2. CASE RealmOf[n] = r
    <3>1. n \in ns
      BY <1>1, <1>2, <2>2 DEF Delivering
    <3> QED
      BY <3>1 DEF can_package
  <2> QED
    BY <2>1, <2>2
<1> QED
  BY <1>2

LEMMA NextDelivering ==
    ASSUME TypeInv, Behind, OwnPackages, [Next]_vars
    PROVE  \A n \in Notifiers : Delivering(n)' => Delivering(n) \/ nt[n].has_run
<1>1. CASE UNCHANGED realm
  BY <1>1 DEF Delivering
<1>2. ASSUME NEW r \in Realms, OnlyOfRealm(r), realm'[r].package \subseteq realm[r].package,
             realm'[r].at \in Calls => realm[r].at \in Calls
      PROVE  \A n \in Notifiers : Delivering(n)' => Delivering(n)
  <2>1. ASSUME NEW n \in Notifiers, Delivering(n)'
        PROVE  Delivering(n)
    <3>1. CASE RealmOf[n] # r
      BY <1>2, <2>1, <3>1, ElsewhereDelivering
    <3>2. CASE RealmOf[n] = r
      BY <1>2, <2>1, <3>2 DEF Delivering
    <3> QED
      BY <3>1, <3>2
  <2> QED
    BY <2>1
<1>3. ASSUME NEW r \in Realms, OnlyOfRealm(r), realm'[r].at \notin Calls
      PROVE  \A n \in Notifiers : Delivering(n)' => Delivering(n)
  <2>1. ASSUME NEW n \in Notifiers, Delivering(n)'
        PROVE  Delivering(n)
    <3>1. CASE RealmOf[n] # r
      BY <1>3, <2>1, <3>1, ElsewhereDelivering
    <3>2. CASE RealmOf[n] = r
      BY <1>3, <2>1, <3>2 DEF Delivering
    <3> QED
      BY <3>1, <3>2
  <2> QED
    BY <2>1
<1>4. ASSUME NEW r \in Realms, notify(r)
      PROVE  \A n \in Notifiers : Delivering(n)' => Delivering(n) \/ nt[n].has_run
  <2>1. NotifyBranches(r) /\ \A n \in packable(r) : can_package(nt[n])
    BY <1>4, NotifyCases
  <2>2. \A n \in packableNow(r) : can_package(nt[n])
    BY <2>1 DEF packableNow
  <2>3. \A n \in {} : can_package(nt[n])
    OBVIOUS
  <2> QED
    BY <1>1, <2>1, <2>2, <2>3, DeliveringRun DEF NotifyBranches
<1>5. ASSUME NEW r \in Realms, refreshed(r) \/ begun(r)
      PROVE  \A n \in Notifiers : Delivering(n)' => Delivering(n) \/ nt[n].has_run
  <2>1. PICK v, at : delivering(r, v, at, waitedFor(r))
    BY <1>5 DEF refreshed, begun
  <2> QED
    BY <2>1, DeliveringRun, waitedForIs
<1>6. ASSUME NEW r \in Realms, NEW n \in Notifiers, after_advance(r, n)
      PROVE  \A m \in Notifiers : Delivering(m)' => Delivering(m)
  BY <1>2, <1>6, after_advanceRealm
<1>7. ASSUME NEW r \in Realms, delivered(r)
      PROVE  \A m \in Notifiers : Delivering(m)' => Delivering(m)
  BY <1>2, <1>7, deliveredRealm DEF Calls
<1>8. ASSUME NEW r \in Realms, refresh(r) \/ begin_transaction(r)
      PROVE  \A m \in Notifiers : Delivering(m)' => Delivering(m)
  <2>1. OnlyOfRealm(r) /\ realm'[r].at \in {"refresh", "begin"}
    BY <1>8, startWaitingRealm DEF refresh, begin_transaction
  <2> QED
    BY <1>3, <2>1 DEF Calls
<1>9. ASSUME NEW r \in Realms, begin_in_callback(r)
      PROVE  \A m \in Notifiers : Delivering(m)' => Delivering(m)
  BY <1>2, <1>9, begin_in_callbackRealm DEF Calls
<1>10. ASSUME NEW r \in Realms, OnlyOfRealm(r), realm'[r].package = realm[r].package,
             \/ realm[r].at = "write" /\ realm'[r].at = "idle"
             \/ realm[r].at = "write in callback" /\ realm'[r].at = "deliver"
      PROVE  \A m \in Notifiers : Delivering(m)' => Delivering(m)
  BY <1>2, <1>3, <1>10 DEF Calls
<1>11. ASSUME NEW r \in Realms, NEW ts, cancel_transaction(r) \/ commit_transaction(r, ts)
      PROVE  \A m \in Notifiers : Delivering(m)' => Delivering(m)
  BY <1>10, <1>11, cancel_transactionRealm, commit_transactionRealm
<1>12. CASE workerStep
  BY <1>1, <1>12 DEF workerStep, workerTake, workerRunSkip, workerRun, workerHandoverSkip, workerHandover,
     workerSignal, runAll
<1>13. CASE \/ \E n \in Notifiers : register_notifier(n) \/ unregister(n)
            \/ \E t \in Tokens : add_callback(t)
            \/ \E n \in Notifiers : \E i \in DOMAIN nt[n].callbacks : remove_callback(n, i - 1)
            \/ \E r \in Realms : \E ts \in SUBSET suppressible(r) : commit_fails(r, ts)
            \/ otherProcessCommits \/ UNCHANGED vars
  BY <1>1, <1>13 DEF register_notifier, unregister, add_callback, remove_callback, commit_fails,
     otherProcessCommits, vars
<1> QED
  BY <1>4, <1>5, <1>6, <1>7, <1>8, <1>9, <1>11, <1>12, <1>13 DEF Next, realmStep

LEMMA NextRunBeforeCalls ==
    ASSUME NoneAdded, TypeInv, Behind, OwnPackages, RunBeforeCalls, [Next]_vars
    PROVE  RunBeforeCalls'
  BY NextHasRun, NextDelivering DEF RunBeforeCalls

-----------------------------------------------------------------------------
(* Whose callbacks they are, and which notifiers may have some.             *)

\* Callbacks hold a reference to the collection they are added to, which is
\* registered as long as it lives.
AliveOf(c) ==
    /\ have_callbacks(c) => c.alive
    /\ c.alive => c.stage \in {"new", "live"}

LEMMA KeptAlive ==
    ASSUME NEW c, AliveOf(c), NEW d, KeptAs(c, d)
    PROVE  AliveOf(d)
  BY DEF AliveOf, KeptAs

LEMMA StagedAlive ==
    ASSUME NEW c, AliveOf(c), NEW d, StagedAs(c, d), d.alive => d.stage \in {"new", "live"}
    PROVE  AliveOf(d)
  BY DEF AliveOf, StagedAs, SamePlace, have_callbacks

LEMMA HandedOverAlive ==
    ASSUME NEW c \in CollectionNotifier, AliveOf(c), NEW v, NEW d, HandedOverAs(c, d, v)
    PROVE  AliveOf(d)
<1>1. /\ d \in CollectionNotifier /\ Len(d.callbacks) = Len(c.callbacks)
      /\ d.stage = c.stage /\ d.alive = c.alive
  BY DEF HandedOverAs
<1>2. have_callbacks(d) <=> have_callbacks(c)
  BY <1>1, CallbacksCounted DEF HasFew
<1> QED
  BY <1>1, <1>2 DEF AliveOf

AliveInv == \A n \in Notifiers : AliveOf(nt[n])

LEMMA NextAlive ==
    ASSUME NoneAdded, TypeInv, Behind, OwnPackages, AliveInv, [Next]_vars
    PROVE  AliveInv'
<1>1. CASE UNCHANGED nt
  BY <1>1 DEF AliveInv
<1>2. ASSUME NEW n \in Notifiers, register_notifier(n)
      PROVE  AliveInv'
  <2>1. OnlyOf(n) /\ RegisteredAs(nt[n], nt'[n], realm[RealmOf[n]].version)
    BY <1>2, RegisteredIs
  <2>2. AliveOf(nt'[n])
    BY <2>1 DEF RegisteredAs, AliveOf
  <2> QED
    BY <2>1, <2>2 DEF AliveInv, OnlyOf
<1>3. CASE workerTake
  <2>1. ASSUME NEW n \in Notifiers
        PROVE  AliveOf(nt'[n])
    <3>1. TakenAs(nt[n], nt'[n]) /\ AliveOf(nt[n])
      BY <1>3, TakenIs DEF AliveInv
    <3>2. StagedAs(nt[n], nt'[n]) /\ (nt'[n].alive => nt'[n].stage \in {"new", "live"})
      BY <3>1 DEF TakenAs, StagedAs, AliveOf
    <3> QED
      BY <3>1, <3>2, StagedAlive
  <2> QED
    BY <2>1 DEF AliveInv
<1>4. ASSUME NEW ns, NEW v \in Versions, NEW at, runAll(ns, v, at)
      PROVE  AliveInv'
  <2>1. ASSUME NEW c, AliveOf(c), NEW d, RanAs(c, d, v)
        PROVE  AliveOf(d)
    BY <2>1 DEF AliveOf, RanAs, SamePlace, have_callbacks
  <2> QED
    BY <1>4, <2>1, RunAllIs DEF Runs, AliveInv
<1>5. worker.at \in {"skip", "skipped"} => worker.skip \in Versions
  BY MaxVersionAssumption DEF TypeInv, WorkerTyped, WorkerState, Versions
<1>6. worker.at \in {"run", "ran"} => worker.version \in Versions
  BY MaxVersionAssumption DEF TypeInv, WorkerTyped, WorkerState, Versions
<1>7. CASE workerRunSkip
  BY <1>4, <1>5, <1>7 DEF workerRunSkip
<1>8. CASE workerRun
  BY <1>4, <1>6, <1>8 DEF workerRun
<1>9. CASE workerHandoverSkip
  <2>1. HandsOver(nt', worker.old, worker.skip)
    BY <1>5, <1>9, HandedOverIs DEF workerHandoverSkip
  <2> QED
    BY <2>1, HandedOverAlive DEF HandsOver, AliveInv, TypeInv, Typed
<1>10. CASE workerHandover
  <2>1. PICK ns, v : HandedAndCleaned(ns, v)
    BY <1>10, WorkerHandoverIs
  <2>2. ASSUME NEW n \in Notifiers
        PROVE  AliveOf(nt'[n])
    <3>1. PICK b \in CollectionNotifier : b = nt[n] /\ AliveOf(b)
      BY DEF AliveInv, TypeInv, Typed
    <3>2. PICK c \in CollectionNotifier : /\ IF n \in ns THEN HandedOverAs(b, c, v) ELSE c = b
                                          /\ CleanedAs(c, nt'[n])
      BY <2>1, <3>1 DEF HandedAndCleaned
    <3>3. AliveOf(c)
      BY <3>1, <3>2, HandedOverAlive
    <3>4. StagedAs(c, nt'[n]) /\ (nt'[n].alive => nt'[n].stage \in {"new", "live"})
      BY <3>2, <3>3 DEF CleanedAs, StagedAs, AliveOf
    <3> QED
      BY <3>3, <3>4, StagedAlive
  <2> QED
    BY <2>2 DEF AliveInv
<1>11. CASE workerSignal
  BY <1>1, <1>11 DEF workerSignal
<1>12. CASE Next /\ ~workerStep /\ ~\E n \in Notifiers : register_notifier(n)
  BY <1>12, StepsKeep, KeptAlive DEF Kept, AliveInv
<1> QED
  BY <1>1, <1>2, <1>3, <1>7, <1>8, <1>9, <1>10, <1>11, <1>12 DEF workerStep, vars

\* Its callbacks are its own, and were called first after it has run.
OwnTokensOf(n, c) ==
    \A i \in DOMAIN c.callbacks :
        NotifierOf[c.callbacks[i].token] = n /\ (c.callbacks[i].initial_delivered => c.has_run)

OwnTokens == \A n \in Notifiers : OwnTokensOf(n, nt[n])

LEMMA SameTokens ==
    ASSUME NEW n, NEW c, OwnTokensOf(n, c), NEW d, c.has_run => d.has_run,
           DOMAIN d.callbacks = DOMAIN c.callbacks,
           \A i \in DOMAIN c.callbacks :
               /\ d.callbacks[i].token = c.callbacks[i].token
               /\ d.callbacks[i].initial_delivered => c.callbacks[i].initial_delivered \/ c.has_run
    PROVE  OwnTokensOf(n, d)
  BY DEF OwnTokensOf

LEMMA RemovedTokens ==
    ASSUME NEW n, NEW c, OwnTokensOf(n, c), NEW d, NEW idx, RemovedFrom(c, d, idx)
    PROVE  OwnTokensOf(n, d)
<1>1. ASSUME NEW j \in DOMAIN d.callbacks
      PROVE  \E i \in DOMAIN c.callbacks : d.callbacks[j] = c.callbacks[i]
  <2>1. PICK k \in Nat : /\ k = Len(c.callbacks) /\ DOMAIN c.callbacks = 1..k
                         /\ DOMAIN d.callbacks = 1..(k - 1)
    BY DEF RemovedFrom
  <2>2. j \in 1..k /\ j + 1 \in 1..k
    BY <2>1
  <2>3. d.callbacks[j] = IF j <= idx THEN c.callbacks[j] ELSE c.callbacks[j + 1]
    BY DEF RemovedFrom
  <2> QED
    BY <2>1, <2>2, <2>3
<1>2. d.has_run = c.has_run
  BY DEF RemovedFrom, SameRuns
<1> QED
  BY <1>1, <1>2 DEF OwnTokensOf

LEMMA AddedTokens ==
    ASSUME NEW n, NEW c, OwnTokensOf(n, c), NEW t, NotifierOf[t] = n, NEW d, AddedTo(c, d, t)
    PROVE  OwnTokensOf(n, d)
<1>1. PICK k \in Nat : /\ k = Len(c.callbacks) /\ DOMAIN c.callbacks = 1..k
                       /\ DOMAIN d.callbacks = 1..(k + 1)
                       /\ d.callbacks[k + 1] = newCallback(t)
                       /\ \A i \in 1..k : d.callbacks[i] = c.callbacks[i]
  BY DEF AddedTo
<1>2. d.has_run = c.has_run
  BY DEF AddedTo, SameRuns
<1>3. newCallback(t).token = t /\ newCallback(t).initial_delivered = FALSE
  BY DEF newCallback
<1>4. \A i \in 1..(k + 1) : i = k + 1 \/ i \in 1..k
  BY <1>1
<1> QED
  BY <1>1, <1>2, <1>3, <1>4 DEF OwnTokensOf

\* Steps that leave the callbacks, or say how they change.
LEMMA PackagesTokens ==
    ASSUME OwnTokens, NEW ns, Packages(ns)
    PROVE  OwnTokens'
<1>1. ASSUME NEW n \in Notifiers, NEW c, OwnTokensOf(n, c), NEW d, PackagedAs(c, d)
      PROVE  OwnTokensOf(n, d)
  <2>1. c.has_run = d.has_run /\ DOMAIN d.callbacks = DOMAIN c.callbacks
        /\ \A i \in DOMAIN c.callbacks : PackagedCallback(c.callbacks[i], d.callbacks[i])
    BY <1>1 DEF PackagedAs, SameRuns
  <2> QED
    BY <1>1, <2>1, SameTokens DEF PackagedCallback
<1> QED
  BY <1>1 DEF OwnTokens, Packages

LEMMA HandedOverTokens ==
    ASSUME NEW n, NEW c \in CollectionNotifier, OwnTokensOf(n, c), NEW v, NEW d, HandedOverAs(c, d, v)
    PROVE  OwnTokensOf(n, d)
<1>1. c.callbacks \in Seq(Callback) /\ c.changes \in SUBSET Versions
  BY DEF CollectionNotifier
<1>2. \A i \in DOMAIN c.callbacks : c.callbacks[i] \in Callback
  BY <1>1
<1>3. DOMAIN d.callbacks = DOMAIN c.callbacks /\ d.has_run = TRUE
      /\ \A i \in DOMAIN c.callbacks : d.callbacks[i] = add_changes(c.callbacks[i], c.changes)
  BY DEF HandedOverAs
<1>4. ASSUME NEW i \in DOMAIN c.callbacks
      PROVE  /\ d.callbacks[i].token = c.callbacks[i].token
             /\ d.callbacks[i].initial_delivered => c.callbacks[i].initial_delivered
  <2>1. PICK a \in Callback, changes \in SUBSET Versions : a = c.callbacks[i] /\ changes = c.changes
    BY <1>1, <1>2
  <2>2. PICK b : b = add_changes(a, changes)
    OBVIOUS
  <2>3. b.token = a.token /\ (b.initial_delivered => a.initial_delivered)
    BY <2>2, AddedIs
  <2> QED
    BY <1>3, <2>1, <2>2, <2>3
<1> QED
  BY <1>3, <1>4, SameTokens

LEMMA StagedTokens ==
    ASSUME NEW n, NEW c, OwnTokensOf(n, c), NEW d, StagedAs(c, d)
    PROVE  OwnTokensOf(n, d)
  BY DEF OwnTokensOf, StagedAs, SamePlace

LEMMA after_advanceTokens ==
    ASSUME TypeInv, OwnPackages, RunBeforeCalls, OwnTokens,
           NEW r \in Realms, NEW n \in Notifiers, after_advance(r, n)
    PROVE  OwnTokens'
<1>1. nt[n].has_run
  BY after_advanceRealm DEF RunBeforeCalls
<1>2. PICK c, d : c = nt[n] /\ d = nt'[n] /\ OwnTokensOf(n, c)
  BY DEF OwnTokens
<1>3. OnlyOf(n) /\ (CalledAt(c, d, c.index + 2) \/ CallsEnded(c, d))
  BY <1>2, CalledIs, CallsEndedIs
<1>4. OwnTokensOf(n, d)
  <2>1. CASE CallsEnded(c, d)
    BY <1>2, <2>1 DEF CallsEnded, SameRuns, OwnTokensOf
  <2>2. CASE CalledAt(c, d, c.index + 2)
    <3>1. PICK p : CalledAt(c, d, p)
      BY <2>2
    <3>2. d.has_run = c.has_run /\ DOMAIN d.callbacks = DOMAIN c.callbacks
          /\ \A i \in DOMAIN c.callbacks :
               CalledCallback(c.callbacks[i], d.callbacks[i]) \/ d.callbacks[i] = c.callbacks[i]
      BY <3>1 DEF CalledAt, SameRuns
    <3>3. \A i \in DOMAIN c.callbacks : d.callbacks[i].token = c.callbacks[i].token
      BY <3>2 DEF CalledCallback
    <3> QED
      BY <1>1, <1>2, <3>2, <3>3, SameTokens
  <2> QED
    BY <1>3, <2>1, <2>2
<1> QED
  BY <1>2, <1>3, <1>4 DEF OwnTokens, OnlyOf

LEMMA WorkerTokens ==
    ASSUME TypeInv, OwnTokens, workerStep
    PROVE  OwnTokens'
<1>1. worker.at \in {"skip", "skipped"} => worker.skip \in Versions
  BY MaxVersionAssumption DEF TypeInv, WorkerTyped, WorkerState, Versions
<1>2. worker.at \in {"run", "ran"} => worker.version \in Versions
  BY MaxVersionAssumption DEF TypeInv, WorkerTyped, WorkerState, Versions
<1>3. CASE workerTake
  BY <1>3, TakenIs, StagedTokens DEF TakenAs, OwnTokens
<1>4. ASSUME NEW ns, NEW v \in Versions, NEW at, runAll(ns, v, at)
      PROVE  OwnTokens'
  <2>1. ASSUME NEW n, NEW c, OwnTokensOf(n, c), NEW d, RanAs(c, d, v)
        PROVE  OwnTokensOf(n, d)
    BY <2>1 DEF OwnTokensOf, RanAs, SamePlace
  <2> QED
    BY <1>4, <2>1, RunAllIs DEF Runs, OwnTokens
<1>5. CASE workerRunSkip
  BY <1>1, <1>4, <1>5 DEF workerRunSkip
<1>6. CASE workerRun
  BY <1>2, <1>4, <1>6 DEF workerRun
<1>7. CASE workerHandoverSkip
  <2>1. HandsOver(nt', worker.old, worker.skip)
    BY <1>1, <1>7, HandedOverIs DEF workerHandoverSkip
  <2> QED
    BY <2>1, HandedOverTokens DEF HandsOver, OwnTokens, TypeInv, Typed
<1>8. CASE workerHandover
  <2>1. PICK ns, v : HandedAndCleaned(ns, v)
    BY <1>8, WorkerHandoverIs
  <2>2. ASSUME NEW n \in Notifiers
        PROVE  OwnTokensOf(n, nt'[n])
    <3>1. PICK b \in CollectionNotifier : b = nt[n] /\ OwnTokensOf(n, b)
      BY DEF OwnTokens, TypeInv, Typed
    <3>2. PICK c \in CollectionNotifier : /\ IF n \in ns THEN HandedOverAs(b, c, v) ELSE c = b
                                          /\ CleanedAs(c, nt'[n])
      BY <2>1, <3>1 DEF HandedAndCleaned
    <3>3. OwnTokensOf(n, c)
      BY <3>1, <3>2, HandedOverTokens
    <3> QED
      BY <3>2, <3>3, StagedTokens DEF CleanedAs
  <2> QED
    BY <2>2 DEF OwnTokens
<1>9. CASE workerSignal
  BY <1>9 DEF workerSignal, OwnTokens
<1> QED
  BY <1>3, <1>5, <1>6, <1>7, <1>8, <1>9 DEF workerStep

LEMMA NextTokens ==
    ASSUME TypeInv, Behind, OwnPackages, RunBeforeCalls, OwnTokens, [Next]_vars
    PROVE  OwnTokens'
<1>1. CASE UNCHANGED nt
  BY <1>1 DEF OwnTokens
<1>2. ASSUME NEW n \in Notifiers, OnlyOf(n), OwnTokensOf(n, nt'[n])
      PROVE  OwnTokens'
  BY <1>2 DEF OwnTokens, OnlyOf
<1>3. \A n \in Notifiers : OwnTokensOf(n, nt[n])
  BY DEF OwnTokens
<1>4. ASSUME NEW n \in Notifiers, register_notifier(n)
      PROVE  OwnTokens'
  <2>1. OnlyOf(n) /\ RegisteredAs(nt[n], nt'[n], realm[RealmOf[n]].version)
    BY <1>4, RegisteredIs
  <2>2. OwnTokensOf(n, nt'[n])
    BY <1>3, <2>1 DEF RegisteredAs, SamePlace, OwnTokensOf
  <2> QED
    BY <1>2, <2>1, <2>2
<1>5. ASSUME NEW n \in Notifiers, unregister(n)
      PROVE  OwnTokens'
  <2>1. OnlyOf(n) /\ UnregisteredAs(nt[n], nt'[n])
    BY <1>5, UnregisteredIs
  <2>2. OwnTokensOf(n, nt'[n])
    BY <1>3, <2>1 DEF UnregisteredAs, SamePlace, OwnTokensOf
  <2> QED
    BY <1>2, <2>1, <2>2
<1>6. ASSUME NEW t \in Tokens, add_callback(t)
      PROVE  OwnTokens'
  <2>1. PICK n \in Notifiers : n = NotifierOf[t] /\ OnlyOf(n) /\ AddedTo(nt[n], nt'[n], t)
    BY <1>6, AddedCallback
  <2> QED
    BY <1>2, <1>3, <2>1, AddedTokens
<1>7. ASSUME NEW n \in Notifiers, NEW p \in DOMAIN nt[n].callbacks, remove_callback(n, p - 1)
      PROVE  OwnTokens'
  BY <1>2, <1>3, <1>7, RemovedCallback, RemovedTokens
<1>8. ASSUME NEW r \in Realms, notify(r)
      PROVE  OwnTokens'
  BY <1>1, <1>8, NotifyCases, PackagedIs, PackagedAndDeliveredIs, PackagesTokens DEF NotifyBranches, TypeInv
<1>9. ASSUME NEW r \in Realms, refreshed(r)
      PROVE  OwnTokens'
  BY <1>9, PackagedAndDeliveredIs, PackagesTokens DEF refreshed, TypeInv
<1>10. ASSUME NEW r \in Realms, begun(r)
       PROVE  OwnTokens'
  BY <1>10, PackagedIs, PackagesTokens DEF begun, TypeInv
<1>11. ASSUME NEW r \in Realms, NEW n \in Notifiers, after_advance(r, n)
       PROVE  OwnTokens'
  BY <1>11, after_advanceTokens
<1>12. ASSUME NEW r \in Realms, NEW ts, commit_transaction(r, ts) \/ commit_fails(r, ts)
       PROVE  OwnTokens'
  <2>1. Suppresses(ts)
    BY <1>12, SuppressIs DEF commit_transaction, commit_fails
  <2>2. ASSUME NEW n, NEW c, OwnTokensOf(n, c), NEW d, SuppressedAs(c, d, ts)
        PROVE  OwnTokensOf(n, d)
    <3>1. d.has_run = c.has_run /\ DOMAIN d.callbacks = DOMAIN c.callbacks
          /\ \A i \in DOMAIN c.callbacks : MarkedCallback(c.callbacks[i], d.callbacks[i], ts)
      BY <2>2 DEF SuppressedAs, SameRuns
    <3> QED
      BY <2>2, <3>1, SameTokens DEF MarkedCallback
  <2> QED
    BY <2>1, <2>2 DEF Suppresses, OwnTokens
<1>13. CASE \/ otherProcessCommits \/ UNCHANGED vars
            \/ \E r \in Realms : \/ delivered(r) \/ refresh(r) \/ begin_transaction(r)
                                 \/ begin_in_callback(r) \/ cancel_transaction(r)
  BY <1>1, <1>13 DEF otherProcessCommits, delivered, refresh, begin_transaction, begin_in_callback,
     cancel_transaction, vars
<1>14. CASE workerStep
  BY <1>14, WorkerTokens
<1> QED
  BY <1>4, <1>5, <1>6, <1>7, <1>8, <1>9, <1>10, <1>11, <1>12, <1>13, <1>14 DEF Next, realmStep

-----------------------------------------------------------------------------
(* The version of a notifier only rises.                                   *)

Busy == {"skip", "skipped", "run", "ran"}

\* The worker takes the notifiers no further back than they are, and a
\* transaction to be skipped is ahead of them.
Rising ==
    /\ worker.at \in Busy =>
         \A n \in worker.old \cup worker.new : nt[n].has_run => nt[n].version <= worker.version
    /\ worker.at \in {"skip", "skipped"} =>
         /\ worker.skip <= worker.version
         /\ \A n \in worker.old : nt[n].has_run => nt[n].version <= worker.skip
    /\ skipVersion # 0 =>
         /\ worker.at \in Busy => worker.version <= skipVersion
         /\ \A n \in Notifiers : nt[n].stage = "live" /\ nt[n].has_run => nt[n].version <= skipVersion

LEMMA Numbers ==
    ASSUME TypeInv
    PROVE  /\ latest \in Int /\ skipVersion \in Int /\ worker.version \in Int /\ worker.skip \in Int
           /\ \A n \in Notifiers : nt[n].version \in Int
           /\ \A r \in Realms : realm[r].version \in Int /\ realm[r].target \in Int
           /\ worker.old \subseteq Notifiers /\ worker.new \subseteq Notifiers
<1>1. \A r \in Realms : realm[r].version \in Versions /\ realm[r].target \in Versions
  BY DEF TypeInv, RealmState
<1>2. \A n \in Notifiers : nt[n].version \in 0..MaxVersion
  BY DEF TypeInv, Typed, CollectionNotifier
<1>3. worker.version \in 0..MaxVersion /\ worker.skip \in 0..MaxVersion
      /\ worker.old \subseteq Notifiers /\ worker.new \subseteq Notifiers
  BY DEF TypeInv, WorkerTyped, WorkerState
<1>4. latest \in Versions /\ skipVersion \in 0..MaxVersion
  BY DEF TypeInv
<1> QED
  BY <1>1, <1>2, <1>3, <1>4 DEF Versions

\* The notifiers stay where they are; a commit may be the next one to be skipped.
LEMMA StayingRises ==
    ASSUME TypeInv, Behind, Rising, UNCHANGED worker, skipVersion' = skipVersion \/ skipVersion' = latest + 1,
           \A n \in Notifiers : nt'[n].has_run => nt[n].has_run /\ nt'[n].version = nt[n].version,
           \A n \in Notifiers : nt'[n].has_run /\ nt'[n].stage = "live" => nt[n].stage = "live"
    PROVE  Rising'
<1>1. \A n \in Notifiers : nt[n].version <= latest + 1
  BY Numbers DEF Behind
<1>2. worker.version <= latest + 1
  BY Numbers DEF Behind
<1>3. worker.old \subseteq Notifiers /\ worker.new \subseteq Notifiers
  BY Numbers
<1>4. /\ worker.at \in Busy =>
           \A n \in worker.old \cup worker.new : nt'[n].has_run => nt'[n].version <= worker.version
      /\ worker.at \in {"skip", "skipped"} =>
           /\ worker.skip <= worker.version
           /\ \A n \in worker.old : nt'[n].has_run => nt'[n].version <= worker.skip
  BY <1>3 DEF Rising
<1>5. CASE skipVersion' = skipVersion
  <2>1. skipVersion # 0 =>
         /\ worker.at \in Busy => worker.version <= skipVersion
         /\ \A n \in Notifiers : nt'[n].stage = "live" /\ nt'[n].has_run => nt'[n].version <= skipVersion
    BY DEF Rising
  <2> QED
    BY <1>4, <1>5, <2>1 DEF Rising
<1>6. CASE skipVersion' = latest + 1
  <2>1. \A n \in Notifiers : nt'[n].has_run => nt'[n].version <= latest + 1
    BY <1>1
  <2> QED
    BY <1>2, <1>4, <1>6, <2>1 DEF Rising
<1> QED
  BY <1>5, <1>6

LEMMA workerTakeRises ==
    ASSUME TypeInv, Behind, Rising, workerTake
    PROVE  Rising'
<1>1. PICK old, new, s : /\ old = listed(clean_up_dead(nt), "live")
                         /\ new = listed(clean_up_dead(nt), "new")
                         /\ s = IF old = {} THEN 0 ELSE skipVersion
  OBVIOUS
<1>2. worker' = IF old \cup new = {} THEN [worker EXCEPT !.at = "signal"]
                ELSE [at |-> IF s # 0 THEN "skip" ELSE "run", version |-> latest, skip |-> s,
                      old |-> old, new |-> new]
  BY <1>1 DEF workerTake
<1>3. skipVersion' = 0
  BY DEF workerTake
<1>4. ASSUME NEW n \in Notifiers
      PROVE  /\ nt'[n].version = nt[n].version /\ nt'[n].has_run = nt[n].has_run
             /\ nt[n].version <= latest
  BY TakenIs DEF TakenAs, StagedAs, Behind
<1>5. \A n \in old : n \in Notifiers /\ nt[n].stage = "live"
  <2>1. ASSUME NEW n \in Notifiers, clean_up_dead(nt)[n].stage = "live"
        PROVE  nt[n].stage = "live"
    BY <2>1, CleanedIs DEF TypeInv, CleanedAs
  <2> QED
    BY <1>1, <2>1 DEF listed
<1>6. \A n \in new : n \in Notifiers
  BY <1>1 DEF listed
<1>7. CASE old \cup new = {}
  <2>1. worker'.at = "signal"
    BY <1>2, <1>7 DEF TypeInv, WorkerTyped, WorkerState
  <2> QED
    BY <1>3, <2>1 DEF Rising, Busy
<1>8. CASE old \cup new # {}
  <2>1. /\ worker'.at = (IF s # 0 THEN "skip" ELSE "run") /\ worker'.version = latest
        /\ worker'.skip = s /\ worker'.old = old /\ worker'.new = new
    BY <1>2, <1>8
  <2>2. \A n \in old \cup new : nt'[n].has_run => nt'[n].version <= latest
    BY <1>4, <1>5, <1>6
  <2>3. CASE s = 0
    BY <1>3, <2>1, <2>2, <2>3 DEF Rising, Busy
  <2>4. CASE s # 0
    <3>1. s = skipVersion /\ skipVersion # 0 /\ s <= latest
      BY <1>1, <2>4 DEF Behind
    <3>2. \A n \in old : nt'[n].has_run => nt'[n].version <= s
      BY <1>4, <1>5, <3>1 DEF Rising
    <3> QED
      BY <1>3, <2>1, <2>2, <2>4, <3>1, <3>2 DEF Rising
  <2> QED
    BY <2>3, <2>4
<1> QED
  BY <1>7, <1>8

LEMMA HandoverRises ==
    ASSUME TypeInv, Behind, AgreeInv, Rising, workerHandoverSkip \/ workerHandover
    PROVE  Rising'
<1>1. worker.at \in {"skip", "skipped"} => worker.skip \in Versions
  BY MaxVersionAssumption DEF TypeInv, WorkerTyped, WorkerState, Versions
<1>2. /\ skipVersion \in Int /\ worker.version \in Int /\ worker.skip \in Int
      /\ worker.old \subseteq Notifiers /\ worker.new \subseteq Notifiers
  BY Numbers
<1>3. CASE workerHandoverSkip
  <2>1. HandsOver(nt', worker.old, worker.skip) /\ worker.at = "skipped"
    BY <1>1, <1>3, HandedOverIs DEF workerHandoverSkip
  <2>2. \A n \in Notifiers : IF n \in worker.old THEN nt'[n].version = worker.skip /\ nt'[n].stage = nt[n].stage
                             ELSE nt'[n] = nt[n]
    BY <2>1 DEF HandsOver, HandedOverAs
  <2>3. /\ worker'.at = "run" /\ worker'.version = worker.version
        /\ worker'.old = worker.old /\ worker'.new = worker.new /\ skipVersion' = skipVersion
    BY <1>3 DEF workerHandoverSkip, TypeInv, WorkerTyped, WorkerState
  <2>4. worker.skip <= worker.version
    BY <2>1 DEF Rising
  <2>5. \A n \in worker.old \cup worker.new : nt'[n].has_run => nt'[n].version <= worker.version
    BY <1>2, <2>1, <2>2, <2>4 DEF Rising, Busy
  <2>6. ASSUME skipVersion # 0
        PROVE  /\ worker.version <= skipVersion
               /\ \A n \in Notifiers : nt'[n].stage = "live" /\ nt'[n].has_run => nt'[n].version <= skipVersion
    <3>1. worker.version <= skipVersion
      BY <2>1, <2>6 DEF Rising, Busy
    <3>2. worker.skip <= skipVersion
      BY <1>2, <2>4, <3>1
    <3> QED
      BY <2>2, <2>6, <3>1, <3>2 DEF Rising
  <2> QED
    BY <2>3, <2>5, <2>6 DEF Rising
<1>4. CASE workerHandover
  <2>1. HandedAndCleaned(worker.old \cup worker.new, worker.version) /\ worker.at = "ran"
    BY <1>4, WorkerHandoverIs DEF workerHandover
  <2>2. ASSUME NEW n \in Notifiers
        PROVE  /\ IF n \in worker.old \cup worker.new THEN nt'[n].version = worker.version
                  ELSE nt'[n].version = nt[n].version /\ nt'[n].has_run = nt[n].has_run
               /\ nt'[n].stage = "live" => nt[n].stage = "live"
    BY <2>1 DEF HandedAndCleaned, HandedOverAs, CleanedAs, StagedAs
  <2>3. worker'.at = "signal" /\ skipVersion' = skipVersion
    BY <1>4 DEF workerHandover, TypeInv, WorkerTyped, WorkerState
  <2>4. ASSUME skipVersion # 0
        PROVE  \A n \in Notifiers : nt'[n].stage = "live" /\ nt'[n].has_run => nt'[n].version <= skipVersion
    BY <2>1, <2>2, <2>4 DEF Rising, Busy
  <2> QED
    BY <2>3, <2>4 DEF Rising, Busy
<1> QED
  BY <1>3, <1>4

LEMMA NextRising ==
    ASSUME NoneAdded, TypeInv, Behind, OwnPackages, AgreeInv, Rising, [Next]_vars
    PROVE  Rising'
<1>1. CASE UNCHANGED nt /\ UNCHANGED <<worker, skipVersion>>
  BY <1>1, StayingRises
<1>2. ASSUME NEW n \in Notifiers, register_notifier(n)
      PROVE  Rising'
  <2>1. OnlyOf(n) /\ RegisteredAs(nt[n], nt'[n], realm[RealmOf[n]].version)
    BY <1>2, RegisteredIs
  <2>2. ~nt'[n].has_run
    BY <1>2, <2>1 DEF register_notifier, RegisteredAs, AgreeInv, NewHaveNotRun
  <2>3. UNCHANGED <<worker, skipVersion>>
    BY <1>2 DEF register_notifier
  <2> QED
    BY <2>1, <2>2, <2>3, StayingRises DEF OnlyOf
<1>3. CASE Next /\ ~workerStep /\ ~\E n \in Notifiers : register_notifier(n)
  <2>1. Kept /\ UNCHANGED worker
    BY <1>3, StepsKeep
  <2>2. skipVersion' = skipVersion \/ skipVersion' = latest + 1
    <3>1. ASSUME NEW r \in Realms, realmStep(r)
          PROVE  skipVersion' = skipVersion
      <4>1. CASE notify(r)
        BY <4>1 DEF notify
      <4>2. CASE refreshed(r) \/ begun(r) \/ delivered(r)
        BY <4>2 DEF refreshed, begun, delivered
      <4>3. ASSUME NEW n \in Notifiers, after_advance(r, n)
            PROVE  skipVersion' = skipVersion
        BY <4>3 DEF after_advance
      <4> QED
        BY <3>1, <4>1, <4>2, <4>3 DEF realmStep
    <3>2. ASSUME NEW r \in Realms,
                 refresh(r) \/ begin_transaction(r) \/ begin_in_callback(r) \/ cancel_transaction(r)
          PROVE  skipVersion' = skipVersion
      BY <3>2 DEF refresh, begin_transaction, begin_in_callback, cancel_transaction
    <3>3. ASSUME NEW r \in Realms, NEW ts, commit_transaction(r, ts) \/ commit_fails(r, ts)
          PROVE  skipVersion' = skipVersion \/ skipVersion' = latest + 1
      BY <3>3 DEF commit_transaction, commit_fails, skipAfter
    <3>4. CASE \/ \E n \in Notifiers : unregister(n)
               \/ \E t \in Tokens : add_callback(t)
               \/ \E n \in Notifiers : \E i \in DOMAIN nt[n].callbacks : remove_callback(n, i - 1)
               \/ otherProcessCommits
      BY <3>4 DEF unregister, add_callback, remove_callback, otherProcessCommits
    <3> QED
      BY <1>3, <3>1, <3>2, <3>3, <3>4 DEF Next
  <2> QED
    BY <2>1, <2>2, StayingRises DEF Kept, KeptAs
<1>4. ASSUME NEW ns, NEW v \in Versions, NEW at, runAll(ns, v, at), at \notin {"skip"},
             at = "skipped" => worker.at = "skip", worker.at \in Busy
      PROVE  Rising'
  <2>1. \A n \in Notifiers : /\ nt'[n].has_run = nt[n].has_run /\ nt'[n].version = nt[n].version
                             /\ nt'[n].stage = nt[n].stage
    BY <1>4, RunAllIs DEF Runs, RanAs
  <2>2. /\ worker'.at = at /\ worker'.version = worker.version /\ worker'.skip = worker.skip
        /\ worker'.old = worker.old /\ worker'.new = worker.new /\ skipVersion' = skipVersion
    BY <1>4 DEF runAll, TypeInv, WorkerTyped, WorkerState
  <2>3. worker.old \subseteq Notifiers /\ worker.new \subseteq Notifiers
    BY Numbers
  <2> QED
    BY <1>4, <2>1, <2>2, <2>3 DEF Rising
<1>5. worker.at \in {"skip", "skipped"} => worker.skip \in Versions
  BY MaxVersionAssumption DEF TypeInv, WorkerTyped, WorkerState, Versions
<1>6. worker.at \in {"run", "ran"} => worker.version \in Versions
  BY MaxVersionAssumption DEF TypeInv, WorkerTyped, WorkerState, Versions
<1>7. CASE workerRunSkip
  BY <1>4, <1>5, <1>7 DEF workerRunSkip, Busy
<1>8. CASE workerRun
  BY <1>4, <1>6, <1>8 DEF workerRun, Busy
<1>9. CASE workerSignal
  <2>1. worker'.at = "idle" /\ UNCHANGED <<nt, skipVersion>>
    BY <1>9 DEF workerSignal
  <2> QED
    BY <2>1 DEF Rising, Busy
<1> QED
  BY <1>1, <1>2, <1>3, <1>7, <1>8, <1>9, workerTakeRises, HandoverRises DEF workerStep, vars

-----------------------------------------------------------------------------
(* The rows a notifier has seen, and what has changed since.                *)

\* The notifier has run for the section to come, up to the version ranTo.
Window(n) ==
    \/ worker.at = "skipped" /\ n \in worker.old
    \/ worker.at = "ran" /\ n \in worker.old \cup worker.new

ranTo == IF worker.at = "skipped" THEN worker.skip ELSE worker.version

\* A notifier whose changes are accumulated has seen the rows of its version; once
\* run up to v its changes are all those in between.
RowsOf(c, w, v) ==
    /\ ~c.has_run => c.wanted /\ c.changes = {}
    /\ ~w => c.changes = {} /\ (c.has_run /\ have_callbacks(c) => c.rows = c.version)
    /\ w /\ c.alive /\ (c.has_run => have_callbacks(c)) => c.rows = v
    /\ w /\ c.has_run /\ have_callbacks(c) => c.changes = (c.version + 1)..v

RowsInv == \A n \in Notifiers : RowsOf(nt[n], Window(n), ranTo)

LEMMA KeptRows ==
    ASSUME NEW c, NEW w \in BOOLEAN, NEW v, RowsOf(c, w, v), NEW d, KeptAs(c, d)
    PROVE  RowsOf(d, w, v)
  BY DEF RowsOf, KeptAs

LEMMA StagedRows ==
    ASSUME NEW c, NEW v, RowsOf(c, FALSE, v), NEW d, StagedAs(c, d), NEW u
    PROVE  RowsOf(d, FALSE, u)
  BY DEF RowsOf, StagedAs, SamePlace, have_callbacks

LEMMA RanRows ==
    ASSUME NEW c \in CollectionNotifier, AliveOf(c), NEW u, RowsOf(c, FALSE, u), NEW v \in Versions,
           NEW d, RanAs(c, d, v)
    PROVE  RowsOf(d, TRUE, v)
<1>1. PICK h \in BOOLEAN : h <=> have_callbacks(c)
  BY DEF have_callbacks
<1>2. have_callbacks(d) <=> have_callbacks(c)
  BY DEF RanAs, SamePlace, have_callbacks
<1>3. d.has_run = c.has_run /\ d.alive = c.alive /\ d.wanted = c.wanted /\ d.version = c.version
  BY DEF RanAs
<1>4. /\ ~c.has_run => c.wanted
      /\ c.changes = {}
      /\ c.has_run /\ have_callbacks(c) => c.rows = c.version /\ c.alive
  BY DEF RowsOf, AliveOf
<1>5. CASE need_to_run(c, v)
  <2>1. d.rows = v /\ d.changes = IF c.has_run /\ have_callbacks(c) THEN (c.rows + 1)..v ELSE {}
    BY <1>5 DEF RanAs
  <2> QED
    BY <1>2, <1>3, <1>4, <2>1 DEF RowsOf
<1>6. CASE ~need_to_run(c, v)
  <2>1. d.rows = c.rows /\ d.changes = {}
    BY <1>4, <1>6 DEF RanAs
  <2>2. c.alive /\ (c.has_run => have_callbacks(c)) => c.has_run /\ c.rows = v
    BY <1>4, <1>6 DEF need_to_run
  <2>3. c.has_run /\ have_callbacks(c) => (c.version + 1)..v = {}
    <3>1. v \in Int /\ (v + 1)..v = {}
      BY DEF Versions
    <3>2. c.has_run /\ have_callbacks(c) => c.version = v
      BY <1>4, <2>2
    <3> QED
      BY <3>1, <3>2
  <2> QED
    BY <1>2, <1>3, <1>4, <2>1, <2>2, <2>3 DEF RowsOf
<1> QED
  BY <1>5, <1>6

LEMMA HandedOverRows ==
    ASSUME NEW c \in CollectionNotifier, AliveOf(c), NEW v, RowsOf(c, TRUE, v), NEW d, HandedOverAs(c, d, v), NEW u
    PROVE  RowsOf(d, FALSE, u)
<1>1. /\ d \in CollectionNotifier /\ Len(d.callbacks) = Len(c.callbacks)
      /\ d.has_run = TRUE /\ d.version = v /\ d.rows = c.rows /\ d.changes = {}
  BY DEF HandedOverAs
<1>2. have_callbacks(d) <=> have_callbacks(c)
  BY <1>1, CallbacksCounted DEF HasFew
<1> QED
  BY <1>1, <1>2 DEF RowsOf, AliveOf

LEMMA NextRows ==
    ASSUME NoneAdded, TypeInv, Behind, OwnPackages, AgreeInv, AliveInv, RowsInv, [Next]_vars
    PROVE  RowsInv'
<1>1. CASE UNCHANGED <<nt, worker>>
  BY <1>1 DEF RowsInv, Window, ranTo
<1>2. \A n \in Notifiers : RowsOf(nt[n], Window(n), ranTo) /\ AliveOf(nt[n]) /\ nt[n] \in CollectionNotifier
  BY DEF RowsInv, AliveInv, TypeInv, Typed
<1>3. \A n \in Notifiers : Window(n) \in BOOLEAN
  BY DEF Window
<1>4. ASSUME UNCHANGED worker
      PROVE  ranTo' = ranTo /\ \A n \in Notifiers : Window(n)' = Window(n)
  BY <1>4 DEF ranTo, Window
<1>5. CASE Next /\ ~workerStep /\ ~\E n \in Notifiers : register_notifier(n)
  <2>1. Kept /\ UNCHANGED worker
    BY <1>5, StepsKeep
  <2>2. ASSUME NEW n \in Notifiers
        PROVE  RowsOf(nt'[n], Window(n)', ranTo')
    <3>0. PICK w \in BOOLEAN : w = Window(n)
      BY <1>3
    <3>1. PICK c, d, v : c = nt[n] /\ d = nt'[n] /\ v = ranTo
      OBVIOUS
    <3>2. RowsOf(c, w, v) /\ KeptAs(c, d)
      BY <1>2, <2>1, <3>0, <3>1 DEF Kept
    <3>3. RowsOf(d, w, v)
      BY <3>2, KeptRows
    <3> QED
      BY <1>4, <2>1, <3>0, <3>1, <3>3
  <2> QED
    BY <2>2 DEF RowsInv
<1>6. ASSUME NEW n \in Notifiers, register_notifier(n)
      PROVE  RowsInv'
  <2>1. OnlyOf(n) /\ RegisteredAs(nt[n], nt'[n], realm[RealmOf[n]].version) /\ UNCHANGED worker
    BY <1>6, RegisteredIs DEF register_notifier
  <2>2. ~Window(n) /\ ~nt[n].has_run
    BY <1>6 DEF register_notifier, AgreeInv, NewHaveNotRun, WorkerTook, Window
  <2>3. RowsOf(nt'[n], Window(n)', ranTo')
    BY <1>2, <1>4, <2>1, <2>2 DEF RegisteredAs, RowsOf
  <2>4. \A m \in Notifiers : m # n => RowsOf(nt'[m], Window(m)', ranTo')
    BY <1>2, <1>4, <2>1 DEF OnlyOf
  <2> QED
    BY <2>3, <2>4 DEF RowsInv
<1>7. ASSUME \A n \in Notifiers : ~Window(n) /\ ~Window(n)', \A n \in Notifiers : StagedAs(nt[n], nt'[n])
      PROVE  RowsInv'
  <2>1. ASSUME NEW n \in Notifiers
        PROVE  RowsOf(nt'[n], Window(n)', ranTo')
    <3>1. PICK v, u : v = ranTo /\ u = ranTo'
      OBVIOUS
    <3>2. RowsOf(nt[n], FALSE, v)
      BY <1>2, <1>7, <3>1 DEF RowsOf
    <3>3. RowsOf(nt'[n], FALSE, u)
      BY <1>7, <3>2, StagedRows
    <3> QED
      BY <1>7, <3>1, <3>3 DEF RowsOf
  <2> QED
    BY <2>1 DEF RowsInv
<1>8. CASE workerTake
  <2>1. worker.at = "idle" /\ worker'.at \in {"skip", "run", "signal"}
    BY <1>8 DEF workerTake, TypeInv, WorkerTyped, WorkerState
  <2>2. \A n \in Notifiers : StagedAs(nt[n], nt'[n])
    BY <1>8, TakenIs DEF TakenAs
  <2> QED
    BY <1>7, <2>1, <2>2 DEF Window
<1>9. ASSUME NEW ns, NEW v \in Versions, NEW at, runAll(ns, v, at), \A n \in Notifiers : ~Window(n),
             \A n \in Notifiers : Window(n)' <=> n \in ns, ranTo' = v
      PROVE  RowsInv'
  <2>1. Runs(ns, v)
    BY <1>9, RunAllIs
  <2>2. ASSUME NEW n \in Notifiers
        PROVE  RowsOf(nt'[n], Window(n)', ranTo')
    <3>1. PICK c, d : c \in CollectionNotifier /\ c = nt[n] /\ d = nt'[n] /\ AliveOf(c)
      BY <1>2
    <3>2. PICK u : RowsOf(c, FALSE, u)
      BY <1>2, <1>9, <3>1 DEF RowsOf
    <3>3. CASE n \in ns
      <4>1. RanAs(c, d, v)
        BY <2>1, <3>1, <3>3 DEF Runs
      <4>2. RowsOf(d, TRUE, v)
        BY <3>1, <3>2, <4>1, RanRows
      <4> QED
        BY <1>9, <3>1, <3>3, <4>2 DEF RowsOf
    <3>4. CASE n \notin ns
      <4>1. d = c
        BY <2>1, <3>1, <3>4 DEF Runs
      <4> QED
        BY <1>9, <3>1, <3>2, <3>4, <4>1 DEF RowsOf
    <3> QED
      BY <3>3, <3>4
  <2> QED
    BY <2>2 DEF RowsInv
<1>10. CASE workerRunSkip
  <2>1. worker.skip \in Versions /\ worker.at = "skip"
    BY <1>10, MaxVersionAssumption DEF workerRunSkip, TypeInv, WorkerTyped, WorkerState, Versions
  <2>2. runAll(worker.old, worker.skip, "skipped")
    BY <1>10 DEF workerRunSkip
  <2>3. worker'.at = "skipped" /\ worker'.skip = worker.skip /\ worker'.old = worker.old
    BY <2>2 DEF runAll, TypeInv, WorkerTyped, WorkerState
  <2> QED
    BY <1>9, <2>1, <2>2, <2>3 DEF Window, ranTo
<1>11. CASE workerRun
  <2>1. worker.version \in Versions /\ worker.at = "run"
    BY <1>11, MaxVersionAssumption DEF workerRun, TypeInv, WorkerTyped, WorkerState, Versions
  <2>2. PICK ns : ns = worker.old \cup worker.new /\ runAll(ns, worker.version, "ran")
    BY <1>11 DEF workerRun
  <2>3. /\ worker'.at = "ran" /\ worker'.version = worker.version
        /\ worker'.old = worker.old /\ worker'.new = worker.new
    BY <2>2 DEF runAll, TypeInv, WorkerTyped, WorkerState
  <2> QED
    BY <1>9, <2>1, <2>2, <2>3 DEF Window, ranTo
<1>12. CASE workerHandoverSkip
  <2>1. worker.at = "skipped" /\ worker'.at = "run"
    BY <1>12 DEF workerHandoverSkip, TypeInv, WorkerTyped, WorkerState
  <2>2. PICK v, ns : v \in Versions /\ v = worker.skip /\ ns = worker.old
    BY <2>1, MaxVersionAssumption DEF TypeInv, WorkerTyped, WorkerState, Versions
  <2>3. HandsOver(nt', ns, v)
    BY <1>12, <2>2, HandedOverIs DEF workerHandoverSkip
  <2>4. (\A n \in Notifiers : (Window(n) <=> n \in ns) /\ ~Window(n)') /\ ranTo = v
    BY <2>1, <2>2 DEF Window, ranTo
  <2>5. ASSUME NEW n \in Notifiers
        PROVE  RowsOf(nt'[n], Window(n)', ranTo')
    <3>1. PICK c, d, u : c \in CollectionNotifier /\ c = nt[n] /\ d = nt'[n] /\ AliveOf(c) /\ u = ranTo'
      BY <1>2
    <3>2. CASE n \in ns
      <4>1. RowsOf(c, TRUE, v)
        BY <1>2, <2>4, <3>1, <3>2 DEF RowsOf
      <4>2. HandedOverAs(c, d, v)
        BY <2>3, <3>1, <3>2 DEF HandsOver
      <4>3. RowsOf(d, FALSE, u)
        BY <3>1, <4>1, <4>2, HandedOverRows
      <4> QED
        BY <2>4, <3>1, <4>3 DEF RowsOf
    <3>3. CASE n \notin ns
      <4>1. d = c
        BY <2>3, <3>1, <3>3 DEF HandsOver
      <4> QED
        BY <1>2, <2>4, <3>1, <3>3, <4>1 DEF RowsOf
    <3> QED
      BY <3>2, <3>3
  <2> QED
    BY <2>5 DEF RowsInv
<1>13. CASE workerHandover
  <2>1. worker.at = "ran" /\ worker'.at = "signal"
    BY <1>13 DEF workerHandover, TypeInv, WorkerTyped, WorkerState
  <2>2. PICK v, ns : v = worker.version /\ ns = worker.old \cup worker.new
    OBVIOUS
  <2>3. HandedAndCleaned(ns, v)
    BY <1>13, <2>2, WorkerHandoverIs
  <2>4. (\A n \in Notifiers : (Window(n) <=> n \in ns) /\ ~Window(n)') /\ ranTo = v
    BY <2>1, <2>2 DEF Window, ranTo
  <2>5. ASSUME NEW n \in Notifiers
        PROVE  RowsOf(nt'[n], Window(n)', ranTo')
    <3>1. PICK b, d, u : b \in CollectionNotifier /\ b = nt[n] /\ d = nt'[n] /\ AliveOf(b) /\ u = ranTo'
      BY <1>2
    <3>2. PICK c \in CollectionNotifier : /\ IF n \in ns THEN HandedOverAs(b, c, v) ELSE c = b
                                          /\ StagedAs(c, d)
      BY <2>3, <3>1 DEF HandedAndCleaned, CleanedAs
    <3>3. RowsOf(c, FALSE, u)
      <4>1. CASE n \in ns
        <5>1. RowsOf(b, TRUE, v)
          BY <1>2, <2>4, <3>1, <4>1 DEF RowsOf
        <5> QED
          BY <3>1, <3>2, <4>1, <5>1, HandedOverRows
      <4>2. CASE n \notin ns
        BY <1>2, <2>4, <3>1, <3>2, <4>2 DEF RowsOf
      <4> QED
        BY <4>1, <4>2
    <3>4. RowsOf(d, FALSE, u)
      BY <3>2, <3>3, StagedRows
    <3> QED
      BY <2>4, <3>1, <3>4 DEF RowsOf
  <2> QED
    BY <2>5 DEF RowsInv
<1>14. CASE workerSignal
  <2>1. worker.at = "signal" /\ worker'.at = "idle" /\ nt' = nt
    BY <1>14 DEF workerSignal
  <2> QED
    BY <1>2, <2>1 DEF RowsInv, RowsOf, Window
<1> QED
  BY <1>1, <1>5, <1>6, <1>8, <1>10, <1>11, <1>12, <1>13, <1>14 DEF workerStep, vars

-----------------------------------------------------------------------------
(* Callbacks with news.                                                    *)

\* The callback has not been called yet, in the delivery going on.
Left(n, i) == Delivering(n) /\ i > nt[n].index + 1

readVersion(n) == realm[RealmOf[n]].version

\* What is kept for a callback is later than what it was told; what is kept for
\* one that is left is later than what it will be told.
NewsAt(cb, told, version, left, v) ==
    /\ cb.initial_delivered => told <= version /\ \A x \in cb.acc \cup cb.out : x > told
    /\ left => version >= v /\ \A x \in cb.acc : x > v

NewsOf(n) ==
    \A i \in DOMAIN nt[n].callbacks :
        NewsAt(nt[n].callbacks[i], heard[nt[n].callbacks[i].token].told, nt[n].version,
               Left(n, i), readVersion(n))

News == \A n \in Notifiers : NewsOf(n)

\* A callback that may write is the last to be called.
NoneLeft ==
    "write in callback" \in Features =>
        \A n \in Notifiers : \A i \in DOMAIN nt[n].callbacks : realm[RealmOf[n]].calling => ~Left(n, i)

\* A callback stays as it is; its place may shift.
SameCallback(a, b) ==
    b.token = a.token /\ b.acc = a.acc /\ b.out = a.out /\ b.initial_delivered = a.initial_delivered

CalmAs(c, d) ==
    \A j \in DOMAIN d.callbacks :
        /\ d.version = c.version
        /\ \E i \in DOMAIN c.callbacks :
            /\ SameCallback(c.callbacks[i], d.callbacks[j])
            /\ j > d.index + 1 => i > c.index + 1

Calm == \A n \in Notifiers : CalmAs(nt[n], nt'[n])

LEMMA SelfCalm == ASSUME NEW c PROVE CalmAs(c, c)
  BY DEF CalmAs, SameCallback

LEMMA SamePlaceCalm ==
    ASSUME NEW c, NEW d, SamePlace(c, d), d.version = c.version
    PROVE  CalmAs(c, d)
  BY DEF CalmAs, SamePlace, SameCallback

LEMMA SuppressedCalm ==
    ASSUME NEW c, NEW d, NEW ts, SuppressedAs(c, d, ts)
    PROVE  CalmAs(c, d)
<1>1. d.version = c.version /\ d.index = c.index /\ DOMAIN d.callbacks = DOMAIN c.callbacks
  BY DEF SuppressedAs, SameRuns
<1>2. \A i \in DOMAIN c.callbacks : SameCallback(c.callbacks[i], d.callbacks[i])
  BY DEF SuppressedAs, MarkedCallback, SameCallback
<1> QED
  BY <1>1, <1>2 DEF CalmAs

LEMMA RemovedCalm ==
    ASSUME NEW c \in CollectionNotifier, NEW d, NEW p \in DOMAIN c.callbacks, RemovedFrom(c, d, p - 1)
    PROVE  CalmAs(c, d)
<1>1. PICK k \in Nat : k = Len(c.callbacks) /\ DOMAIN c.callbacks = 1..k /\ DOMAIN d.callbacks = 1..(k - 1)
  BY DEF RemovedFrom
<1>2. PICK x \in Int : x = c.index /\ x >= -1
  <2>1. c.index \in {-1} \cup 0..Cardinality(Tokens)
    BY DEF CollectionNotifier, npos
  <2>2. Cardinality(Tokens) \in Nat
    BY TokensAssumption, FS_CardinalityType
  <2> QED
    BY <2>1, <2>2
<1>3. p \in Int /\ d.index = IF x # -1 /\ x >= p - 1 THEN x - 1 ELSE x
  BY <1>1, <1>2 DEF RemovedFrom, indexAfterRemoval, npos
<1>4. d.version = c.version
  BY DEF RemovedFrom, SameRuns
<1>5. ASSUME NEW j \in DOMAIN d.callbacks
      PROVE  \E i \in DOMAIN c.callbacks : /\ SameCallback(c.callbacks[i], d.callbacks[j])
                                           /\ j > d.index + 1 => i > c.index + 1
  <2>1. j \in Int /\ 1 <= j /\ j <= k - 1
    BY <1>1
  <2>2. d.callbacks[j] = IF j <= p - 1 THEN c.callbacks[j] ELSE c.callbacks[j + 1]
    BY DEF RemovedFrom
  <2>3. j \in DOMAIN c.callbacks /\ j + 1 \in DOMAIN c.callbacks
    BY <1>1, <2>1
  <2>4. CASE j <= p - 1
    <3>1. d.callbacks[j] = c.callbacks[j]
      BY <2>2, <2>4
    <3>2. j > d.index + 1 => j > x + 1
      BY <1>2, <1>3, <2>1, <2>4
    <3> QED
      BY <1>2, <2>3, <3>1, <3>2 DEF SameCallback
  <2>5. CASE ~(j <= p - 1)
    <3>1. d.callbacks[j] = c.callbacks[j + 1]
      BY <2>2, <2>5
    <3>2. j > d.index + 1 => j + 1 > x + 1
      BY <1>2, <1>3, <2>1, <2>5
    <3> QED
      BY <1>2, <2>3, <3>1, <3>2 DEF SameCallback
  <2> QED
    BY <2>4, <2>5
<1> QED
  BY <1>4, <1>5 DEF CalmAs

\* What the callbacks have been told stays as it is.
ToldKept ==
    \A n \in Notifiers : \A i \in DOMAIN nt[n].callbacks :
        heard'[nt[n].callbacks[i].token].told = heard[nt[n].callbacks[i].token].told

LEMMA CallbackTyped ==
    ASSUME TypeInv, NEW n \in Notifiers, NEW i \in DOMAIN nt[n].callbacks
    PROVE  /\ nt[n].callbacks[i] \in Callback /\ nt[n].callbacks[i].token \in Tokens
           /\ i \in Int /\ nt[n].index \in Int
<1>1. PICK cbs \in Seq(Callback) : cbs = nt[n].callbacks
  BY DEF TypeInv, Typed, CollectionNotifier
<1>2. cbs[i] \in Callback /\ i \in Int
  BY <1>1
<1>3. nt[n].index \in {-1} \cup 0..Cardinality(Tokens)
  BY DEF TypeInv, Typed, CollectionNotifier, npos
<1> QED
  BY <1>1, <1>2, <1>3 DEF Callback

\* Nothing is accumulated, delivered or told in such a step.
LEMMA CalmSteps ==
    ASSUME News, NoneLeft, Calm, ToldKept,
           \A n \in Notifiers : Delivering(n)' => Delivering(n),
           \A n \in Notifiers : \A i \in DOMAIN nt[n].callbacks : Left(n, i) => readVersion(n)' = readVersion(n),
           \A r \in Realms : realm'[r].calling => realm[r].calling
    PROVE  News' /\ NoneLeft'
<1>1. ASSUME NEW n \in Notifiers, NEW j \in DOMAIN nt'[n].callbacks
      PROVE  /\ NewsAt(nt'[n].callbacks[j], heard'[nt'[n].callbacks[j].token].told, nt'[n].version,
                       Left(n, j)', readVersion(n)')
             /\ "write in callback" \in Features /\ realm'[RealmOf[n]].calling => ~Left(n, j)'
  <2>1. PICK i \in DOMAIN nt[n].callbacks :
          /\ nt'[n].version = nt[n].version
          /\ SameCallback(nt[n].callbacks[i], nt'[n].callbacks[j])
          /\ j > nt'[n].index + 1 => i > nt[n].index + 1
    BY DEF Calm, CalmAs
  <2>2. Left(n, j)' => Left(n, i)
    BY <2>1 DEF Left
  <2>3. NewsAt(nt[n].callbacks[i], heard[nt[n].callbacks[i].token].told, nt[n].version, Left(n, i), readVersion(n))
    BY DEF News, NewsOf
  <2>4. heard'[nt[n].callbacks[i].token].told = heard[nt[n].callbacks[i].token].told
    BY DEF ToldKept
  <2>5. RealmOf[n] \in Realms
    BY RealmOfAssumption
  <2>6. "write in callback" \in Features /\ realm'[RealmOf[n]].calling => ~Left(n, j)'
    BY <2>2, <2>5 DEF NoneLeft
  <2> QED
    BY <2>1, <2>2, <2>3, <2>4, <2>6 DEF NewsAt, SameCallback
<1>2. News'
  BY <1>1 DEF News, NewsOf
<1>3. NoneLeft'
  BY <1>1 DEF NoneLeft
<1> QED
  BY <1>2, <1>3

\* A step that concerns the notifiers only.
LEMMA CalmNotifiers ==
    ASSUME News, NoneLeft, Calm, UNCHANGED <<realm, heard>>
    PROVE  News' /\ NoneLeft'
<1>1. ToldKept
  BY DEF ToldKept
<1>2. \A n \in Notifiers : (Delivering(n)' => Delivering(n)) /\ readVersion(n)' = readVersion(n)
  BY DEF Delivering, readVersion
<1>3. \A r \in Realms : realm'[r].calling => realm[r].calling
  OBVIOUS
<1> QED
  BY <1>1, <1>2, <1>3, CalmSteps

\* A step of a Realm that leaves its snapshot, or calls no callback any more.
LEMMA CalmRealm ==
    ASSUME TypeInv, News, NoneLeft, Calm, ToldKept, NEW r \in Realms, OnlyOfRealm(r),
           \/ realm'[r].at \notin Calls
           \/ realm'[r].package \subseteq realm[r].package /\ realm[r].at \in Calls,
           realm'[r].calling => realm[r].calling,
           \/ realm'[r].version = realm[r].version
           \/ \A n \in Notifiers : RealmOf[n] = r => \A i \in DOMAIN nt[n].callbacks : ~Left(n, i)
    PROVE  News' /\ NoneLeft'
<1>1. ASSUME NEW n \in Notifiers
      PROVE  /\ Delivering(n)' => Delivering(n)
             /\ \A i \in DOMAIN nt[n].callbacks : Left(n, i) => readVersion(n)' = readVersion(n)
  <2>1. CASE RealmOf[n] = r
    BY <2>1 DEF Delivering, readVersion
  <2>2. CASE RealmOf[n] # r
    <3>1. realm'[RealmOf[n]] = realm[RealmOf[n]]
      BY <2>2, RealmOfAssumption DEF OnlyOfRealm
    <3> QED
      BY <3>1 DEF Delivering, readVersion
  <2> QED
    BY <2>1, <2>2
<1>2. \A s \in Realms : realm'[s].calling => realm[s].calling
  BY DEF OnlyOfRealm
<1> QED
  BY <1>1, <1>2, CalmSteps

LEMMA OneCalm ==
    ASSUME NEW n \in Notifiers, OnlyOf(n), CalmAs(nt[n], nt'[n])
    PROVE  Calm
  BY SelfCalm DEF OnlyOf, Calm

LEMMA add_callbackNews ==
    ASSUME NoneAdded, TypeInv, OwnPackages, News, NoneLeft, NEW t \in Tokens, add_callback(t)
    PROVE  News' /\ NoneLeft'
<1>1. PICK n \in Notifiers : n = NotifierOf[t] /\ OnlyOf(n) /\ AddedTo(nt[n], nt'[n], t)
  BY AddedCallback
<1>2. UNCHANGED <<realm, heard>>
  BY DEF add_callback
<1>3. ~Delivering(n) /\ ~Delivering(n)'
  <2>1. realm[RealmOf[n]].at = "idle"
    BY <1>1 DEF add_callback, NoneAdded
  <2> QED
    BY <1>2, <2>1 DEF Delivering, Calls
<1>4. PICK k \in Nat : /\ DOMAIN nt[n].callbacks = 1..k /\ DOMAIN nt'[n].callbacks = 1..(k + 1)
                       /\ \A i \in 1..k : nt'[n].callbacks[i] = nt[n].callbacks[i]
                       /\ nt'[n].callbacks[k + 1] = newCallback(t)
  BY <1>1 DEF AddedTo
<1>5. nt'[n].version = nt[n].version
  BY <1>1 DEF AddedTo, SameRuns
<1>6. ASSUME NEW j \in DOMAIN nt'[n].callbacks
      PROVE  NewsAt(nt'[n].callbacks[j], heard'[nt'[n].callbacks[j].token].told, nt'[n].version,
                    Left(n, j)', readVersion(n)')
  <2>1. ~Left(n, j)'
    BY <1>3 DEF Left
  <2>2. CASE j \in 1..k
    <3>1. NewsAt(nt[n].callbacks[j], heard[nt[n].callbacks[j].token].told, nt[n].version, Left(n, j), readVersion(n))
      BY <1>4, <2>2 DEF News, NewsOf
    <3> QED
      BY <1>2, <1>4, <1>5, <2>1, <2>2, <3>1 DEF NewsAt
  <2>3. CASE j = k + 1
    <3>1. nt'[n].callbacks[j].initial_delivered = FALSE
      BY <1>4, <2>3 DEF newCallback
    <3> QED
      BY <2>1, <3>1 DEF NewsAt
  <2> QED
    BY <1>4, <2>2, <2>3
<1>7. \A m \in Notifiers : m # n => NewsOf(m)'
  BY <1>1, <1>2 DEF OnlyOf, News, NewsOf, NewsAt, Left, Delivering, readVersion
<1>8. News'
  BY <1>6, <1>7 DEF News, NewsOf
<1>9. \A i : ~Left(n, i)'
  BY <1>3 DEF Left
<1>10. NoneLeft'
  BY <1>1, <1>2, <1>9 DEF OnlyOf, NoneLeft, Left, Delivering
<1> QED
  BY <1>8, <1>10

\* The steps of the application on its notifiers.
LEMMA NotifierStepsNews ==
    ASSUME TypeInv, AliveInv, News, NoneLeft, NEW n \in Notifiers,
           \/ register_notifier(n) \/ unregister(n)
           \/ \E i \in DOMAIN nt[n].callbacks : remove_callback(n, i - 1)
    PROVE  News' /\ NoneLeft'
<1>1. CASE register_notifier(n)
  <2>1. OnlyOf(n) /\ RegisteredAs(nt[n], nt'[n], realm[RealmOf[n]].version)
    BY <1>1, RegisteredIs
  <2>2. DOMAIN nt[n].callbacks = {}
    <3>1. nt[n].stage = "none"
      BY <1>1 DEF register_notifier
    <3>2. ~have_callbacks(nt[n])
      BY <3>1 DEF AliveInv, AliveOf
    <3>3. PICK c \in CollectionNotifier : c = nt[n]
      BY DEF TypeInv, Typed
    <3>4. Len(c.callbacks) = 0 /\ DOMAIN c.callbacks = 1..Len(c.callbacks)
      BY <3>2, <3>3, CallbacksCounted DEF HasFew
    <3> QED
      BY <3>3, <3>4
  <2>3. CalmAs(nt[n], nt'[n])
    BY <2>1, <2>2 DEF RegisteredAs, SamePlace, CalmAs
  <2>4. UNCHANGED <<realm, heard>>
    BY <1>1 DEF register_notifier
  <2> QED
    BY <2>1, <2>3, <2>4, OneCalm, CalmNotifiers
<1>2. CASE unregister(n)
  <2>1. OnlyOf(n) /\ UnregisteredAs(nt[n], nt'[n])
    BY <1>2, UnregisteredIs
  <2>2. CalmAs(nt[n], nt'[n])
    BY <2>1, SamePlaceCalm DEF UnregisteredAs
  <2>3. UNCHANGED <<realm, heard>>
    BY <1>2 DEF unregister
  <2> QED
    BY <2>1, <2>2, <2>3, OneCalm, CalmNotifiers
<1>3. ASSUME NEW p \in DOMAIN nt[n].callbacks, remove_callback(n, p - 1)
      PROVE  News' /\ NoneLeft'
  <2>1. OnlyOf(n) /\ RemovedFrom(nt[n], nt'[n], p - 1)
    BY <1>3, RemovedCallback
  <2>2. PICK c \in CollectionNotifier : c = nt[n]
    BY DEF TypeInv, Typed
  <2>3. CalmAs(nt[n], nt'[n])
    BY <1>3, <2>1, <2>2, RemovedCalm
  <2>4. UNCHANGED <<realm, heard>>
    BY <1>3 DEF remove_callback
  <2> QED
    BY <2>1, <2>3, <2>4, OneCalm, CalmNotifiers
<1> QED
  BY <1>1, <1>2, <1>3

\* The worker takes the lists, runs the notifiers, signals.
LEMMA WorkerCalm ==
    ASSUME TypeInv, workerTake \/ workerRunSkip \/ workerRun \/ workerSignal
    PROVE  Calm /\ UNCHANGED <<realm, heard>>
<1>1. CASE workerTake
  <2>1. \A n \in Notifiers : SamePlace(nt[n], nt'[n]) /\ nt'[n].version = nt[n].version
    BY <1>1, TakenIs DEF TakenAs, StagedAs
  <2> QED
    BY <1>1, <2>1, SamePlaceCalm DEF Calm, workerTake
<1>2. ASSUME NEW ns, NEW v \in Versions, NEW at, runAll(ns, v, at)
      PROVE  Calm /\ UNCHANGED <<realm, heard>>
  <2>1. ASSUME NEW c, NEW d, RanAs(c, d, v)
        PROVE  CalmAs(c, d)
    BY <2>1, SamePlaceCalm DEF RanAs
  <2> QED
    BY <1>2, <2>1, RunAllIs, SelfCalm DEF Runs, Calm, runAll
<1>3. worker.at = "skip" => worker.skip \in Versions
  BY MaxVersionAssumption DEF TypeInv, WorkerTyped, WorkerState, Versions
<1>4. worker.at = "run" => worker.version \in Versions
  BY MaxVersionAssumption DEF TypeInv, WorkerTyped, WorkerState, Versions
<1>5. CASE workerRunSkip
  BY <1>2, <1>3, <1>5 DEF workerRunSkip
<1>6. CASE workerRun
  BY <1>2, <1>4, <1>6 DEF workerRun
<1>7. CASE workerSignal
  BY <1>7, SelfCalm DEF workerSignal, Calm
<1> QED
  BY <1>1, <1>5, <1>6, <1>7

\* What is handed over is later than the version the notifier had.
LEMMA AddedNews ==
    ASSUME NEW a \in Callback, NEW changes \in SUBSET Versions, NEW told \in Int, NEW version \in Int,
           NEW u \in Int, NEW left \in BOOLEAN, NewsAt(a, told, version, left, u), NEW v \in Int,
           a.initial_delivered \/ left => version <= v /\ changes = (version + 1)..v
    PROVE  NewsAt(add_changes(a, changes), told, v, left, u)
<1>1. PICK b : b = add_changes(a, changes)
  OBVIOUS
<1>2. /\ b.out = a.out /\ b.initial_delivered = a.initial_delivered
      /\ b.acc = IF a.skip_next THEN a.acc ELSE a.acc \cup changes
  BY <1>1, AddedIs
<1>3. \A x \in b.acc : x \in a.acc \/ x \in changes
  BY <1>2
<1>4. a.acc \subseteq Int /\ a.out \subseteq Int
  BY DEF Callback, Versions
<1>5. b.initial_delivered => told <= v /\ \A x \in b.acc \cup b.out : x > told
  <2>1. ASSUME b.initial_delivered
        PROVE  told <= v /\ \A x \in b.acc \cup b.out : x > told
    <3>1. told <= version /\ version <= v /\ changes = (version + 1)..v
          /\ \A x \in a.acc \cup a.out : x > told
      BY <1>2, <2>1 DEF NewsAt
    <3>2. \A x \in changes : x > told
      BY <3>1
    <3> QED
      BY <1>2, <1>3, <3>1, <3>2
  <2> QED
    BY <2>1
<1>6. left => v >= u /\ \A x \in b.acc : x > u
  <2>1. ASSUME left
        PROVE  v >= u /\ \A x \in b.acc : x > u
    <3>1. version >= u /\ version <= v /\ changes = (version + 1)..v /\ \A x \in a.acc : x > u
      BY <2>1 DEF NewsAt
    <3>2. \A x \in changes : x > u
      BY <3>1
    <3> QED
      BY <1>3, <3>1, <3>2
  <2> QED
    BY <2>1
<1> QED
  BY <1>1, <1>5, <1>6 DEF NewsAt

LEMMA HandedOverNews ==
    ASSUME TypeInv, RunBeforeCalls, OwnTokens, News, UNCHANGED <<realm, heard>>,
           NEW n \in Notifiers, NEW v \in Int, RowsOf(nt[n], TRUE, v), nt[n].has_run => nt[n].version <= v,
           NEW d, HandedOverAs(nt[n], d, v), SamePlace(d, nt'[n]), nt'[n].version = d.version
    PROVE  /\ NewsOf(n)'
           /\ nt'[n].index = nt[n].index /\ DOMAIN nt'[n].callbacks = DOMAIN nt[n].callbacks
<1>1. PICK c \in CollectionNotifier : c = nt[n] /\ HandedOverAs(c, d, v) /\ RowsOf(c, TRUE, v)
  BY DEF TypeInv, Typed
<1>2. /\ d.version = v /\ d.index = c.index /\ DOMAIN d.callbacks = DOMAIN c.callbacks
      /\ \A i \in DOMAIN c.callbacks : d.callbacks[i] = add_changes(c.callbacks[i], c.changes)
  BY <1>1 DEF HandedOverAs
<1>3. nt'[n].callbacks = d.callbacks /\ nt'[n].index = c.index /\ nt'[n].version = v
  BY <1>2 DEF SamePlace
<1>4. ASSUME NEW i \in DOMAIN c.callbacks
      PROVE  NewsAt(nt'[n].callbacks[i], heard'[nt'[n].callbacks[i].token].told, nt'[n].version,
                    Left(n, i)', readVersion(n)')
  <2>1. PICK a \in Callback : a = c.callbacks[i] /\ a.token \in Tokens
    BY <1>1, CallbackTyped
  <2>2. PICK changes \in SUBSET Versions : changes = c.changes
    BY DEF CollectionNotifier
  <2>3. PICK told \in Int : told = heard[a.token].told
    <3>1. heard[a.token].told \in 0..MaxVersion
      BY <2>1 DEF TypeInv, HeardState
    <3> QED
      BY <3>1
  <2>4. PICK version \in Int, u \in Int : version = c.version /\ u = readVersion(n)
    <3>1. c.version \in Int /\ readVersion(n) \in Int
      BY <1>1, Numbers, RealmOfAssumption DEF readVersion
    <3> QED
      BY <3>1
  <2>5. PICK left \in BOOLEAN : left = Left(n, i)
    BY DEF Left
  <2>6. NewsAt(a, told, version, left, u)
    BY <1>1, <2>1, <2>3, <2>4, <2>5 DEF News, NewsOf
  <2>7. a.initial_delivered \/ left => c.has_run
    BY <1>1, <2>1, <2>5 DEF OwnTokens, OwnTokensOf, RunBeforeCalls, Left
  <2>8. have_callbacks(c)
    <3>1. DOMAIN c.callbacks = 1..Len(c.callbacks) /\ Len(c.callbacks) \in Nat /\ HasFew(c)
      BY CallbacksCounted
    <3>2. Len(c.callbacks) # 0
      BY <3>1
    <3> QED
      BY <3>1, <3>2 DEF HasFew
  <2>9. a.initial_delivered \/ left => version <= v /\ changes = (version + 1)..v
    BY <1>1, <2>2, <2>4, <2>7, <2>8 DEF RowsOf
  <2>10. PICK b : b = add_changes(a, changes)
    OBVIOUS
  <2>11. NewsAt(b, told, v, left, u) /\ b.token = a.token
    <3>1. NewsAt(add_changes(a, changes), told, v, left, u)
      BY <2>6, <2>9, AddedNews
    <3>2. add_changes(a, changes).token = a.token
      BY AddedIs
    <3> QED
      BY <2>10, <3>1, <3>2
  <2>12. Left(n, i)' = left /\ readVersion(n)' = u
    BY <1>1, <1>3, <2>4, <2>5 DEF Left, readVersion, Delivering
  <2>13. nt'[n].callbacks[i] = b
    BY <1>2, <1>3, <2>1, <2>2, <2>10
  <2> QED
    BY <1>3, <2>3, <2>11, <2>12, <2>13
<1> QED
  BY <1>1, <1>2, <1>3, <1>4 DEF NewsOf

LEMMA HandoverNews ==
    ASSUME TypeInv, RunBeforeCalls, OwnTokens, Rising, RowsInv, News, NoneLeft,
           workerHandoverSkip \/ workerHandover
    PROVE  News' /\ NoneLeft'
<1>1. UNCHANGED <<realm, heard>>
  BY DEF workerHandoverSkip, workerHandover
<1>2. worker.skip \in Int /\ worker.version \in Int
  BY Numbers
<1>3. ASSUME NEW n \in Notifiers, nt'[n].version = nt[n].version, SamePlace(nt[n], nt'[n])
      PROVE  /\ NewsOf(n)'
             /\ nt'[n].index = nt[n].index /\ DOMAIN nt'[n].callbacks = DOMAIN nt[n].callbacks
  BY <1>1, <1>3 DEF SamePlace, News, NewsOf, Left, readVersion, Delivering
<1>4. ASSUME \A n \in Notifiers :
               /\ NewsOf(n)'
               /\ nt'[n].index = nt[n].index /\ DOMAIN nt'[n].callbacks = DOMAIN nt[n].callbacks
      PROVE  News' /\ NoneLeft'
  <2>1. News'
    BY <1>4 DEF News
  <2>2. NoneLeft'
    BY <1>1, <1>4 DEF NoneLeft, Left, Delivering
  <2> QED
    BY <2>1, <2>2
<1>5. CASE workerHandoverSkip
  <2>1. worker.at = "skipped"
    BY <1>5 DEF workerHandoverSkip
  <2>2. PICK v, ns : v \in Int /\ v = worker.skip /\ ns = worker.old
    BY <1>2
  <2>3. HandsOver(nt', ns, v)
    <3>1. worker.skip \in Versions
      BY <2>1, MaxVersionAssumption DEF TypeInv, WorkerTyped, WorkerState, Versions
    <3> QED
      BY <1>5, <2>2, <3>1, HandedOverIs DEF workerHandoverSkip
  <2>4. ASSUME NEW n \in Notifiers, n \in ns
        PROVE  RowsOf(nt[n], TRUE, v) /\ (nt[n].has_run => nt[n].version <= v)
    <3>1. Window(n) = TRUE /\ ranTo = v
      BY <2>1, <2>2, <2>4 DEF Window, ranTo
    <3> QED
      BY <2>1, <2>2, <2>4, <3>1 DEF RowsInv, RowsOf, Rising
  <2>5. ASSUME NEW n \in Notifiers
        PROVE  /\ NewsOf(n)'
               /\ nt'[n].index = nt[n].index /\ DOMAIN nt'[n].callbacks = DOMAIN nt[n].callbacks
    <3>1. CASE n \in ns
      <4>1. HandedOverAs(nt[n], nt'[n], v)
        BY <2>3, <3>1 DEF HandsOver
      <4>2. SamePlace(nt'[n], nt'[n])
        BY DEF SamePlace
      <4> QED
        BY <1>1, <2>2, <2>4, <3>1, <4>1, <4>2, HandedOverNews
    <3>2. CASE n \notin ns
      BY <1>3, <2>3, <3>2 DEF HandsOver, SamePlace
    <3> QED
      BY <3>1, <3>2
  <2> QED
    BY <1>4, <2>5
<1>6. CASE workerHandover
  <2>1. worker.at = "ran"
    BY <1>6 DEF workerHandover
  <2>2. PICK v, ns : v \in Int /\ v = worker.version /\ ns = worker.old \cup worker.new
    BY <1>2
  <2>3. HandedAndCleaned(ns, v)
    BY <1>6, <2>2, WorkerHandoverIs
  <2>4. ASSUME NEW n \in Notifiers, n \in ns
        PROVE  RowsOf(nt[n], TRUE, v) /\ (nt[n].has_run => nt[n].version <= v)
    <3>1. Window(n) = TRUE /\ ranTo = v
      BY <2>1, <2>2, <2>4 DEF Window, ranTo
    <3>2. nt[n].has_run => nt[n].version <= v
      BY <2>1, <2>2, <2>4 DEF Rising, Busy
    <3>3. RowsOf(nt[n], TRUE, v)
      <4>1. RowsOf(nt[n], Window(n), ranTo)
        BY DEF RowsInv
      <4> QED
        BY <3>1, <4>1
    <3> QED
      BY <3>2, <3>3
  <2>5. ASSUME NEW n \in Notifiers
        PROVE  /\ NewsOf(n)'
               /\ nt'[n].index = nt[n].index /\ DOMAIN nt'[n].callbacks = DOMAIN nt[n].callbacks
    <3>1. PICK d \in CollectionNotifier : /\ IF n \in ns THEN HandedOverAs(nt[n], d, v) ELSE d = nt[n]
                                          /\ CleanedAs(d, nt'[n])
      BY <2>3 DEF HandedAndCleaned
    <3>2. SamePlace(d, nt'[n]) /\ nt'[n].version = d.version
      BY <3>1 DEF CleanedAs, StagedAs, SamePlace
    <3>3. CASE n \in ns
      BY <1>1, <2>2, <2>4, <3>1, <3>2, <3>3, HandedOverNews
    <3>4. CASE n \notin ns
      BY <1>3, <3>1, <3>2, <3>4
    <3> QED
      BY <3>3, <3>4
  <2> QED
    BY <1>4, <2>5
<1> QED
  BY <1>5, <1>6

\* What is packaged was accumulated, and nothing more has been.
LEMMA PackagedNews ==
    ASSUME News, NEW n \in Notifiers, PackagedAs(nt[n], nt'[n]), UNCHANGED heard,
           Delivering(n)' => nt[n].version >= readVersion(n)'
    PROVE  NewsOf(n)'
<1>1. /\ DOMAIN nt'[n].callbacks = DOMAIN nt[n].callbacks /\ nt'[n].version = nt[n].version
      /\ \A i \in DOMAIN nt[n].callbacks : PackagedCallback(nt[n].callbacks[i], nt'[n].callbacks[i])
  BY DEF PackagedAs, SameRuns
<1>2. ASSUME NEW i \in DOMAIN nt[n].callbacks
      PROVE  NewsAt(nt'[n].callbacks[i], heard'[nt'[n].callbacks[i].token].told, nt'[n].version,
                    Left(n, i)', readVersion(n)')
  <2>1. NewsAt(nt[n].callbacks[i], heard[nt[n].callbacks[i].token].told, nt[n].version, Left(n, i), readVersion(n))
    BY DEF News, NewsOf
  <2>2. PackagedCallback(nt[n].callbacks[i], nt'[n].callbacks[i])
    BY <1>1
  <2>3. Left(n, i)' => Delivering(n)'
    BY DEF Left
  <2> QED
    BY <1>1, <2>1, <2>2, <2>3 DEF NewsAt, PackagedCallback
<1> QED
  BY <1>1, <1>2 DEF NewsOf

\* A Realm goes on to call callbacks, of notifiers that are no further back than
\* the snapshot it goes to.
LEMMA DeliveringNews ==
    ASSUME TypeInv, News, NoneLeft, NEW r \in Realms, NEW ms, NEW ns, ns \subseteq ms, Packages(ms),
           \A n \in Notifiers : n \in ms => RealmOf[n] = r,
           NEW v, NEW at, delivering(r, v, at, ns), \A n \in Notifiers : n \in ns => nt[n].version >= v,
           UNCHANGED heard
    PROVE  News' /\ NoneLeft'
<1>1. OnlyOfRealm(r) /\ realm'[r].version = v /\ realm'[r].package = ns /\ realm'[r].calling = FALSE
  BY DeliveringIs
<1>2. ASSUME NEW n \in Notifiers, RealmOf[n] # r
      PROVE  /\ nt'[n] = nt[n] /\ realm'[RealmOf[n]] = realm[RealmOf[n]]
  BY <1>1, <1>2, RealmOfAssumption DEF OnlyOfRealm, Packages
<1>3. ASSUME NEW n \in Notifiers
      PROVE  NewsOf(n)'
  <2>1. CASE RealmOf[n] # r
    BY <1>2, <2>1 DEF News, NewsOf, Left, Delivering, readVersion
  <2>2. CASE RealmOf[n] = r
    <3>1. Delivering(n)' => n \in ns
      BY <1>1, <2>2 DEF Delivering
    <3>2. readVersion(n)' = v
      BY <1>1, <2>2 DEF readVersion
    <3>3. CASE n \in ms
      <4>1. PackagedAs(nt[n], nt'[n])
        BY <3>3 DEF Packages
      <4> QED
        BY <3>1, <3>2, <4>1, PackagedNews
    <3>4. CASE n \notin ms
      <4>1. nt'[n] = nt[n] /\ ~Delivering(n)'
        BY <3>1, <3>4 DEF Packages
      <4> QED
        BY <4>1 DEF News, NewsOf, NewsAt, Left
    <3> QED
      BY <3>3, <3>4
  <2> QED
    BY <2>1, <2>2
<1>4. NoneLeft'
  BY <1>1, <1>2 DEF NoneLeft, Left, Delivering
<1> QED
  BY <1>3, <1>4 DEF News

LEMMA LiveWhenPackable ==
    ASSUME AgreeInv, AliveInv, NEW n \in Notifiers, can_package(nt[n])
    PROVE  nt[n].stage = "live"
  BY DEF AgreeInv, NewHaveNotRun, AliveInv, AliveOf, can_package

LEMMA notifyNews ==
    ASSUME TypeInv, Behind, AgreeInv, AliveInv, News, NoneLeft, NEW r \in Realms, notify(r)
    PROVE  News' /\ NoneLeft'
<1>1. UNCHANGED heard
  BY DEF notify
<1>2. PICK all, now : all = packable(r) /\ now = packableNow(r)
  OBVIOUS
<1>3. /\ all \subseteq Notifiers /\ \A n \in all : can_package(nt[n]) /\ RealmOf[n] = r
      /\ now \subseteq all /\ \A n \in now : nt[n].version = realm[r].version
  BY <1>2 DEF packable, packableNow, notifiers_for_realm
<1>4. \A m, n \in all : nt[m].version = nt[n].version
  BY <1>3, LiveWhenPackable DEF AgreeInv, NotifiersAgree
<1>5. \A n \in Notifiers : nt[n].version \in Int
  BY Numbers
<1>6. CASE UNCHANGED <<nt, realm>>
  BY <1>1, <1>6, SelfCalm, CalmNotifiers DEF Calm
<1>7. CASE packagedAndDelivered(now) /\ delivering(r, realm[r].version, "deliver", now)
  <2>1. Packages(now)
    BY <1>7, PackagedAndDeliveredIs DEF TypeInv
  <2>2. PICK v : v = realm[r].version /\ delivering(r, v, "deliver", now)
    BY <1>7
  <2>3. \A n \in Notifiers : n \in now => nt[n].version >= v
    BY <1>3, <1>5, <2>2
  <2>4. \A n \in Notifiers : n \in now => RealmOf[n] = r
    BY <1>3
  <2> QED
    BY <1>1, <2>1, <2>2, <2>3, <2>4, DeliveringNews
<1>8. CASE UNCHANGED nt /\ delivering(r, latest, "deliver", {})
  <2>1. Packages({})
    BY <1>8 DEF Packages
  <2> QED
    BY <1>1, <1>8, <2>1, DeliveringNews
<1>9. CASE realm[r].at = "idle" /\ nt' = packaged(all) /\ UNCHANGED realm
  <2>1. Packages(all)
    BY <1>9, PackagedIs DEF TypeInv
  <2>2. ASSUME NEW n \in Notifiers
        PROVE  NewsOf(n)'
    <3>1. CASE n \in all
      <4>1. PackagedAs(nt[n], nt'[n])
        BY <2>1, <3>1 DEF Packages
      <4>2. ~Delivering(n)'
        BY <1>3, <1>9, <3>1 DEF Delivering, Calls
      <4> QED
        BY <1>1, <4>1, <4>2, PackagedNews
    <3>2. CASE n \notin all
      <4>1. nt'[n] = nt[n]
        BY <2>1, <3>2 DEF Packages
      <4> QED
        BY <1>1, <1>9, <4>1 DEF News, NewsOf, Left, Delivering, readVersion
    <3> QED
      BY <3>1, <3>2
  <2>3. NoneLeft'
    <3>1. ASSUME NEW n \in Notifiers
          PROVE  /\ nt'[n].index = nt[n].index
                 /\ DOMAIN nt'[n].callbacks = DOMAIN nt[n].callbacks
      BY <2>1 DEF Packages, PackagedAs
    <3> QED
      BY <1>9, <3>1 DEF NoneLeft, Left, Delivering
  <2> QED
    BY <2>2, <2>3 DEF News
<1>10. CASE /\ all # {} /\ packagedAndDelivered(all)
            /\ delivering(r, versionOf(all), "deliver", all)
  <2>1. Packages(all)
    BY <1>10, PackagedAndDeliveredIs DEF TypeInv
  <2>2. PICK v : v = versionOf(all) /\ delivering(r, v, "deliver", all)
    BY <1>10
  <2>3. \E n \in all : v = nt[n].version
    BY <1>2, <1>10, <2>2, NotifyCases
  <2>4. \A n \in Notifiers : n \in all => nt[n].version >= v
    BY <1>3, <1>4, <1>5, <2>3
  <2>5. \A n \in Notifiers : n \in all => RealmOf[n] = r
    BY <1>3
  <2> QED
    BY <1>1, <2>1, <2>2, <2>4, <2>5, DeliveringNews
<1> QED
  BY <1>2, <1>6, <1>7, <1>8, <1>9, <1>10, NotifyCases DEF NotifyBranches

\* The wait is over.
LEMMA WaitedNews ==
    ASSUME TypeInv, Behind, OwnPackages, Locked, AgreeInv, AliveInv, News, NoneLeft,
           NEW r \in Realms, refreshed(r) \/ begun(r)
    PROVE  News' /\ NoneLeft'
<1>1. UNCHANGED heard
  BY DEF refreshed, begun
<1>2. PICK ms, ns : ms = {n \in realm[r].package : can_package(nt[n])} /\ ns = waitedFor(r)
  OBVIOUS
<1>3. /\ ns \subseteq ms /\ \A n \in Notifiers : n \in ms => RealmOf[n] = r
      /\ ns \subseteq Notifiers /\ \A n \in ns : can_package(nt[n]) /\ ~(nt[n].version < realm[r].target)
  BY <1>2, waitedForIs DEF waitedFor, OwnPackages, PackageOf
<1>4. \A m, n \in ns : nt[m].version = nt[n].version
  BY <1>3, LiveWhenPackable DEF AgreeInv, NotifiersAgree
<1>5. (\A n \in Notifiers : nt[n].version \in Int) /\ realm[r].target \in Int
  BY Numbers
<1>6. CASE refreshed(r)
  <2>1. Packages(ns)
    BY <1>2, <1>6, PackagedAndDeliveredIs DEF refreshed, TypeInv
  <2>2. PICK v : /\ v \in (IF ns = {} THEN {latest} ELSE {nt[n].version : n \in ns})
                 /\ delivering(r, v, "deliver", ns)
    BY <1>2, <1>6 DEF refreshed
  <2>3. \A n \in Notifiers : n \in ns => nt[n].version >= v
    BY <1>3, <1>4, <1>5, <2>2
  <2>4. \A n \in Notifiers : n \in ns => RealmOf[n] = r
    BY <1>3
  <2> QED
    BY <1>1, <2>1, <2>2, <2>3, <2>4, DeliveringNews
<1>7. CASE begun(r)
  <2>1. nt' = packaged(ms) /\ delivering(r, latest, "deliver in write", ns)
    BY <1>2, <1>7 DEF begun
  <2>2. Packages(ms)
    BY <2>1, PackagedIs DEF TypeInv
  <2>3. realm[r].target = latest
    BY <1>7 DEF begun, Locked, LockOf
  <2>4. \A n \in Notifiers : n \in ns => nt[n].version >= latest
    BY <1>3, <1>5, <2>3
  <2> QED
    BY <1>1, <1>3, <2>1, <2>2, <2>4, DeliveringNews
<1> QED
  BY <1>6, <1>7

-----------------------------------------------------------------------------
(* A callback is called.                                                   *)

\* Callbacks that write are each the only one of their Realm: a write overtakes
\* the callbacks of its Realm that are left.
OneEach ==
    "write in callback" \in Features =>
        \A t, u \in Tokens : RealmOf[NotifierOf[t]] = RealmOf[NotifierOf[u]] => t = u

LEMMA callbackHeardIs ==
    ASSUME TypeInv, NEW t \in Tokens, NEW version, NEW changes, heard' = callbackHeard(t, version, changes)
    PROVE  /\ heard'[t].told = version
           /\ \A u \in Tokens : u # t => heard'[u] = heard[u]
<1>1. PICK h \in HeardState : h = heard[t]
  BY DEF TypeInv
<1>2. PICK g : g = IF h.told = 0 THEN [h EXCEPT !.base = version, !.told = version]
                   ELSE [h EXCEPT !.told = version, !.got = h.got \cup changes]
  OBVIOUS
<1>3. g.told = version
  BY <1>2 DEF HeardState
<1>4. heard' = [heard EXCEPT ![t] = g]
  BY <1>1, <1>2 DEF callbackHeard
<1> QED
  BY <1>3, <1>4 DEF TypeInv

\* What the call of one callback tells.
LEMMA CalledHeard ==
    ASSUME TypeInv, NEW r \in Realms, NEW n \in Notifiers, after_advance(r, n),
           nt[n].index + 1 < nt[n].count, NEW p, p = nt[n].index + 2, p \in DOMAIN nt[n].callbacks
    PROVE  LET t == nt[n].callbacks[p].token IN
           /\ t \in Tokens
           /\ hears(n) <=> ~(nt[n].callbacks[p].initial_delivered /\ nt[n].callbacks[p].out = {})
           /\ IF hears(n) THEN heard'[t].told = realm[r].version ELSE heard'[t] = heard[t]
           /\ \A u \in Tokens : u # t => heard'[u] = heard[u]
<1>1. PICK t \in Tokens : t = nt[n].callbacks[p].token
  BY CallbackTyped
<1>2. p = nt[n].index + 1 + 1
  BY CallbackTyped
<1>3. PICK out, v : out = nt[n].callbacks[p].out /\ v = realm[r].version
  OBVIOUS
<1>4. heard' = IF hears(n) THEN callbackHeard(t, v, out) ELSE heard
  BY <1>1, <1>2, <1>3 DEF after_advance, hears
<1>5. hears(n) <=> ~(nt[n].callbacks[p].initial_delivered /\ nt[n].callbacks[p].out = {})
  BY <1>2 DEF hears
<1> QED
  BY <1>1, <1>3, <1>4, <1>5, callbackHeardIs

\* The notifiers whose turn it is not.
LEMMA OthersNews ==
    ASSUME News, NEW r \in Realms, NEW n \in Notifiers, OnlyOf(n), OnlyOfRealm(r), RealmOf[n] = r,
           realm'[r].version = realm[r].version, realm'[r].at = realm[r].at,
           realm'[r].package \subseteq realm[r].package,
           NEW m \in Notifiers, m # n,
           \A i \in DOMAIN nt[m].callbacks :
               heard'[nt[m].callbacks[i].token].told = heard[nt[m].callbacks[i].token].told
    PROVE  NewsOf(m)' /\ \A i \in DOMAIN nt'[m].callbacks : Left(m, i)' => Left(m, i)
<1>1. nt'[m] = nt[m]
  BY DEF OnlyOf
<1>2. readVersion(m)' = readVersion(m) /\ (Delivering(m)' => Delivering(m))
  <2>1. CASE RealmOf[m] = r
    BY <2>1 DEF readVersion, Delivering
  <2>2. CASE RealmOf[m] # r
    <3>1. realm'[RealmOf[m]] = realm[RealmOf[m]]
      BY <2>2, RealmOfAssumption DEF OnlyOfRealm
    <3> QED
      BY <3>1 DEF readVersion, Delivering
  <2> QED
    BY <2>1, <2>2
<1>3. \A i \in DOMAIN nt[m].callbacks :
        NewsAt(nt[m].callbacks[i], heard[nt[m].callbacks[i].token].told, nt[m].version, Left(m, i), readVersion(m))
  BY DEF News, NewsOf
<1>4. \A i \in DOMAIN nt[m].callbacks : Left(m, i)' => Left(m, i)
  BY <1>1, <1>2 DEF Left
<1> QED
  BY <1>1, <1>2, <1>3, <1>4 DEF NewsOf, NewsAt

\* The places of the callbacks that have been called, and have not.
LEMMA CalledLeft ==
    ASSUME NEW index \in Int, NEW p, p = index + 2, NEW index2, index2 = p - 1
    PROVE  p > index + 1 /\ ~(p > index2 + 1) /\ \A j \in Int : j > index2 + 1 => j > index + 1
  OBVIOUS

LEMMA CalledNews ==
    ASSUME TypeInv, OwnPackages, OwnTokens, OneEach, News, NoneLeft,
           NEW r \in Realms, NEW n \in Notifiers, after_advance(r, n), nt[n].index + 1 < nt[n].count
    PROVE  News' /\ NoneLeft'
<1>1. /\ OnlyOfRealm(r) /\ RealmOf[n] = r /\ Delivering(n)
      /\ realm'[r].version = realm[r].version /\ realm'[r].at = realm[r].at
      /\ realm'[r].package = realm[r].package
  BY after_advanceRealm
<1>2. PICK p : p = nt[n].index + 2 /\ OnlyOf(n) /\ CalledAt(nt[n], nt'[n], p)
  BY CalledIs
<1>3. /\ p \in DOMAIN nt[n].callbacks /\ nt'[n].index = p - 1 /\ nt'[n].version = nt[n].version
      /\ DOMAIN nt'[n].callbacks = DOMAIN nt[n].callbacks
      /\ \A i \in DOMAIN nt[n].callbacks :
           IF i = p THEN CalledCallback(nt[n].callbacks[i], nt'[n].callbacks[i])
           ELSE nt'[n].callbacks[i] = nt[n].callbacks[i]
  BY <1>2 DEF CalledAt, SameRuns
<1>4. PICK t \in Tokens : t = nt[n].callbacks[p].token
  BY <1>3, CallbackTyped
<1>5. /\ hears(n) <=> ~(nt[n].callbacks[p].initial_delivered /\ nt[n].callbacks[p].out = {})
      /\ IF hears(n) THEN heard'[t].told = realm[r].version ELSE heard'[t] = heard[t]
      /\ \A u \in Tokens : u # t => heard'[u] = heard[u]
  BY <1>2, <1>3, <1>4, CalledHeard
<1>6. p > nt[n].index + 1 /\ ~(p > nt'[n].index + 1)
      /\ \A j \in Int : j > nt'[n].index + 1 => j > nt[n].index + 1
  <2>1. nt[n].index \in Int
    BY <1>3, CallbackTyped
  <2> QED
    BY <1>2, <1>3, <2>1, CalledLeft
<1>7. ASSUME NEW m \in Notifiers, NEW i \in DOMAIN nt[m].callbacks, nt[m].callbacks[i].token = t
      PROVE  m = n /\ i = p
  <2>1. m = n
    BY <1>3, <1>4, <1>7 DEF OwnTokens, OwnTokensOf
  <2> QED
    BY <1>3, <1>4, <1>7, <2>1 DEF TypeInv, Typed, Distinct
<1>8. \A m \in Notifiers : \A i \in DOMAIN nt[m].callbacks :
        m # n \/ i # p => heard'[nt[m].callbacks[i].token] = heard[nt[m].callbacks[i].token]
  BY <1>5, <1>7, CallbackTyped
<1>9. ASSUME NEW m \in Notifiers, m # n
      PROVE  NewsOf(m)' /\ \A i \in DOMAIN nt'[m].callbacks : Left(m, i)' => Left(m, i)
  <2>1. \A i \in DOMAIN nt[m].callbacks :
          heard'[nt[m].callbacks[i].token].told = heard[nt[m].callbacks[i].token].told
    BY <1>8, <1>9
  <2> QED
    BY <1>1, <1>2, <1>9, <2>1, OthersNews
<1>10. NewsOf(n)'
  <2>1. readVersion(n)' = readVersion(n) /\ readVersion(n) = realm[r].version
    BY <1>1 DEF readVersion
  <2>2. Left(n, p) /\ ~Left(n, p)'
    BY <1>1, <1>6 DEF Left
  <2>3. NewsAt(nt'[n].callbacks[p], heard'[nt'[n].callbacks[p].token].told, nt'[n].version,
               Left(n, p)', readVersion(n)')
    <3>1. NewsAt(nt[n].callbacks[p], heard[t].told, nt[n].version, TRUE, realm[r].version)
      BY <1>3, <1>4, <2>1, <2>2 DEF News, NewsOf
    <3>2. CalledCallback(nt[n].callbacks[p], nt'[n].callbacks[p])
      BY <1>3
    <3>3. realm[r].version <= nt[n].version
      <4>1. nt[n].version >= realm[r].version
        BY <3>1 DEF NewsAt
      <4> QED
        BY <4>1, Numbers
    <3>4. CASE hears(n)
      BY <1>3, <1>4, <1>5, <2>2, <3>1, <3>2, <3>3, <3>4 DEF NewsAt, CalledCallback
    <3>5. CASE ~hears(n)
      BY <1>3, <1>4, <1>5, <2>2, <3>1, <3>2, <3>5 DEF NewsAt, CalledCallback
    <3> QED
      BY <3>4, <3>5
  <2>4. ASSUME NEW j \in DOMAIN nt[n].callbacks, j # p
        PROVE  NewsAt(nt'[n].callbacks[j], heard'[nt'[n].callbacks[j].token].told, nt'[n].version,
                      Left(n, j)', readVersion(n)')
    <3>1. NewsAt(nt[n].callbacks[j], heard[nt[n].callbacks[j].token].told, nt[n].version,
                 Left(n, j), readVersion(n))
      BY DEF News, NewsOf
    <3>2. Left(n, j)' => Left(n, j)
      <4>1. j \in Int
        BY CallbackTyped
      <4> QED
        BY <1>1, <1>6, <4>1 DEF Left
    <3>3. nt'[n].callbacks[j] = nt[n].callbacks[j]
      BY <1>3, <2>4
    <3> QED
      BY <1>3, <1>8, <2>1, <2>4, <3>1, <3>2, <3>3 DEF NewsAt
  <2> QED
    BY <1>3, <2>3, <2>4 DEF NewsOf
<1>11. News'
  BY <1>9, <1>10 DEF News
<1>12. ASSUME "write in callback" \in Features, NEW m \in Notifiers, NEW i \in DOMAIN nt'[m].callbacks,
              realm'[RealmOf[m]].calling, Left(m, i)'
       PROVE  FALSE
  <2>1. CASE RealmOf[m] = r
    <3>1. i \in DOMAIN nt[m].callbacks
      BY <1>2, <1>3 DEF OnlyOf
    <3>2. nt[m].callbacks[i].token \in Tokens /\ NotifierOf[nt[m].callbacks[i].token] = m /\ NotifierOf[t] = n
      BY <1>3, <1>4, <3>1, CallbackTyped DEF OwnTokens, OwnTokensOf
    <3>3. nt[m].callbacks[i].token = t
      BY <1>1, <1>12, <2>1, <3>2 DEF OneEach
    <3>4. m = n /\ i = p
      BY <1>7, <3>1, <3>3
    <3> QED
      BY <1>6, <1>12, <3>4 DEF Left
  <2>2. CASE RealmOf[m] # r
    <3>1. m # n /\ realm'[RealmOf[m]] = realm[RealmOf[m]]
      BY <1>1, <2>2, RealmOfAssumption DEF OnlyOfRealm
    <3>2. nt'[m] = nt[m] /\ Left(m, i)
      BY <1>2, <1>9, <1>12, <3>1 DEF OnlyOf
    <3> QED
      BY <1>12, <3>1, <3>2 DEF NoneLeft
  <2> QED
    BY <2>1, <2>2
<1>13. NoneLeft'
  BY <1>12 DEF NoneLeft
<1> QED
  BY <1>11, <1>13

LEMMA CallsEndedNews ==
    ASSUME TypeInv, OwnPackages, News, NoneLeft,
           NEW r \in Realms, NEW n \in Notifiers, after_advance(r, n), ~(nt[n].index + 1 < nt[n].count)
    PROVE  News' /\ NoneLeft'
<1>1. /\ OnlyOfRealm(r) /\ RealmOf[n] = r
      /\ realm'[r].version = realm[r].version /\ realm'[r].at = realm[r].at
      /\ realm'[r].package = realm[r].package \ {n} /\ realm'[r].calling = FALSE
  BY after_advanceRealm
<1>2. OnlyOf(n) /\ CallsEnded(nt[n], nt'[n])
  BY CallsEndedIs
<1>3. UNCHANGED heard
  BY DEF after_advance
<1>4. ASSUME NEW m \in Notifiers, m # n
      PROVE  NewsOf(m)' /\ \A i \in DOMAIN nt'[m].callbacks : Left(m, i)' => Left(m, i)
  BY <1>1, <1>2, <1>3, <1>4, OthersNews
<1>5. NewsOf(n)'
  <2>1. nt'[n].callbacks = nt[n].callbacks /\ nt'[n].version = nt[n].version
    BY <1>2 DEF CallsEnded, SameRuns
  <2>2. ~Delivering(n)'
    BY <1>1 DEF Delivering
  <2> QED
    BY <1>3, <2>1, <2>2 DEF News, NewsOf, NewsAt, Left
<1>6. NoneLeft'
  <2>1. ASSUME NEW m \in Notifiers, realm'[RealmOf[m]].calling
        PROVE  m # n /\ nt'[m] = nt[m] /\ realm[RealmOf[m]].calling
    BY <1>1, <1>2, <2>1, RealmOfAssumption DEF OnlyOf, OnlyOfRealm
  <2> QED
    BY <1>4, <2>1 DEF NoneLeft
<1> QED
  BY <1>4, <1>5, <1>6 DEF News

-----------------------------------------------------------------------------
(* Transactions, and every step.                                           *)

LEMMA TransactionsNews ==
    ASSUME TypeInv, OwnPackages, Locked, News, NoneLeft, NEW r \in Realms, NEW ts,
           refresh(r) \/ begin_transaction(r) \/ delivered(r) \/ begin_in_callback(r)
           \/ cancel_transaction(r) \/ commit_transaction(r, ts)
    PROVE  News' /\ NoneLeft'
<1>1. Calm
  <2>1. CASE UNCHANGED nt
    BY <2>1, SelfCalm DEF Calm
  <2>2. CASE commit_transaction(r, ts)
    BY <2>2, SuppressIs, SuppressedCalm DEF commit_transaction, Suppresses, Calm
  <2> QED
    BY <2>1, <2>2 DEF refresh, begin_transaction, delivered, begin_in_callback, cancel_transaction
<1>2. ToldKept
  <2>1. \A t \in Tokens : heard'[t].told = heard[t].told
    <3>1. CASE UNCHANGED heard
      BY <3>1
    <3>2. ASSUME NEW h \in HeardState, NEW x
          PROVE  [h EXCEPT !.overtaken = x].told = h.told /\ [h EXCEPT !.own = x].told = h.told
      BY DEF HeardState
    <3>3. \A t \in Tokens : heard[t] \in HeardState
      BY DEF TypeInv
    <3>4. CASE begin_in_callback(r)
      BY <3>2, <3>3, <3>4 DEF begin_in_callback
    <3>5. CASE commit_transaction(r, ts)
      BY <3>2, <3>3, <3>5 DEF commit_transaction
    <3> QED
      BY <3>1, <3>4, <3>5 DEF refresh, begin_transaction, delivered, cancel_transaction
  <2> QED
    BY <2>1, CallbackTyped DEF ToldKept
<1>3. PackageOf(r, realm[r]) /\ LockOf(r, realm[r], writer, latest)
  BY DEF OwnPackages, Locked
<1>4. ASSUME realm[r].calling, "write in callback" \in Features
      PROVE  \A n \in Notifiers : RealmOf[n] = r => \A i \in DOMAIN nt[n].callbacks : ~Left(n, i)
  BY <1>4 DEF NoneLeft
<1>5. ASSUME OnlyOfRealm(r), realm'[r].at \notin Calls, realm'[r].calling = realm[r].calling,
             realm'[r].version = realm[r].version
      PROVE  News' /\ NoneLeft'
  BY <1>1, <1>2, <1>5, CalmRealm
<1>6. CASE refresh(r)
  <2>1. /\ OnlyOfRealm(r) /\ realm'[r].at = "refresh" /\ realm'[r].calling = realm[r].calling
        /\ realm'[r].version = realm[r].version
    BY <1>6, startWaitingRealm DEF refresh
  <2> QED
    BY <1>5, <2>1 DEF Calls
<1>7. CASE begin_transaction(r)
  <2>1. /\ OnlyOfRealm(r) /\ realm'[r].at = "begin" /\ realm'[r].calling = realm[r].calling
        /\ realm'[r].version = realm[r].version
    BY <1>7, startWaitingRealm DEF begin_transaction
  <2> QED
    BY <1>5, <2>1 DEF Calls
<1>8. CASE delivered(r)
  BY <1>5, <1>8, deliveredRealm DEF Calls
<1>9. CASE begin_in_callback(r)
  <2>1. /\ OnlyOfRealm(r) /\ realm[r].at \in Calls /\ realm[r].calling
        /\ realm'[r].package = realm[r].package /\ realm'[r].calling = realm[r].calling
    BY <1>9, begin_in_callbackRealm DEF Calls
  <2>2. "write in callback" \in Features
    BY <1>9 DEF begin_in_callback
  <2> QED
    BY <1>1, <1>2, <1>4, <2>1, <2>2, CalmRealm
<1>10. CASE cancel_transaction(r)
  <2>1. /\ OnlyOfRealm(r) /\ realm'[r].version = realm[r].version
        /\ realm'[r].package = realm[r].package /\ realm'[r].calling = realm[r].calling
        /\ \/ realm'[r].at = "idle"
           \/ realm[r].at = "write in callback"
    BY <1>10, cancel_transactionRealm
  <2>2. realm'[r].at \notin Calls \/ realm[r].at \in Calls
    BY <2>1 DEF Calls
  <2> QED
    BY <1>1, <1>2, <2>1, <2>2, CalmRealm
<1>11. CASE commit_transaction(r, ts)
  <2>1. /\ OnlyOfRealm(r)
        /\ realm'[r].package = realm[r].package /\ realm'[r].calling = realm[r].calling
        /\ \/ realm[r].at = "write" /\ realm'[r].at = "idle"
           \/ realm[r].at = "write in callback" /\ realm'[r].at = "deliver"
    BY <1>11, commit_transactionRealm
  <2>2. CASE realm[r].at = "write"
    <3>1. realm[r].package = {}
      BY <1>3, <2>2 DEF PackageOf
    <3>2. \A n \in Notifiers : RealmOf[n] = r => \A i \in DOMAIN nt[n].callbacks : ~Left(n, i)
      BY <3>1 DEF Left, Delivering
    <3>3. realm'[r].at \notin Calls
      BY <2>1, <2>2 DEF Calls
    <3> QED
      BY <1>1, <1>2, <2>1, <3>2, <3>3, CalmRealm
  <2>3. CASE realm[r].at = "write in callback"
    <3>1. realm[r].calling /\ "write in callback" \in Features /\ realm[r].at \in Calls
      BY <1>3, <2>3 DEF PackageOf, LockOf, Calls
    <3> QED
      BY <1>1, <1>2, <1>4, <2>1, <3>1, CalmRealm
  <2> QED
    BY <2>1, <2>2, <2>3
<1> QED
  BY <1>6, <1>7, <1>8, <1>9, <1>10, <1>11

\* What holds of the notifiers, the worker and the Realms whatever is heard.
NotifierInv ==
    /\ TypeInv /\ Behind /\ OwnPackages /\ AgreeInv
    /\ Locked /\ RunBeforeCalls /\ AliveInv /\ OwnTokens /\ Rising /\ RowsInv

\* What the News of a callback rests on.
NewsInv == NotifierInv /\ News /\ NoneLeft

LEMMA NextNews ==
    ASSUME NoneAdded, OneEach, NewsInv, [Next]_vars
    PROVE  News' /\ NoneLeft'
<1> USE DEF NewsInv, NotifierInv
<1>1. ASSUME NEW n \in Notifiers,
             \/ register_notifier(n) \/ unregister(n)
             \/ \E i \in DOMAIN nt[n].callbacks : remove_callback(n, i - 1)
      PROVE  News' /\ NoneLeft'
  BY <1>1, NotifierStepsNews
<1>2. ASSUME NEW t \in Tokens, add_callback(t)
      PROVE  News' /\ NoneLeft'
  BY <1>2, add_callbackNews
<1>3. CASE workerStep
  BY <1>3, WorkerCalm, CalmNotifiers, HandoverNews DEF workerStep
<1>4. CASE otherProcessCommits \/ UNCHANGED vars
  BY <1>4, SelfCalm, CalmNotifiers DEF otherProcessCommits, vars, Calm
<1>5. ASSUME NEW r \in Realms, NEW n \in Notifiers, after_advance(r, n)
      PROVE  News' /\ NoneLeft'
  BY <1>5, CalledNews, CallsEndedNews
<1>6. ASSUME NEW r \in Realms, notify(r) \/ refreshed(r) \/ begun(r)
      PROVE  News' /\ NoneLeft'
  BY <1>6, notifyNews, WaitedNews
<1>7. ASSUME NEW r \in Realms, NEW ts,
             refresh(r) \/ begin_transaction(r) \/ delivered(r) \/ begin_in_callback(r)
             \/ cancel_transaction(r) \/ commit_transaction(r, ts)
      PROVE  News' /\ NoneLeft'
  BY <1>7, TransactionsNews
<1>8. ASSUME NEW r \in Realms, NEW ts, commit_fails(r, ts)
      PROVE  News' /\ NoneLeft'
  BY <1>8, SuppressIs, SuppressedCalm, CalmNotifiers DEF commit_fails, Suppresses, Calm
<1> QED
  BY <1>1, <1>2, <1>3, <1>4, <1>5, <1>6, <1>7, <1>8 DEF Next, realmStep

LEMMA InitNews ==
    ASSUME Init
    PROVE  /\ Locked /\ RunBeforeCalls /\ AliveInv /\ OwnTokens /\ Rising /\ RowsInv
           /\ News /\ NoneLeft
<1>1. \A r \in Realms : realm[r].at = "idle" /\ realm[r].package = {} /\ realm[r].calling = FALSE
  BY DEF Init
<1>2. \A n \in Notifiers : /\ nt[n].callbacks = <<>> /\ nt[n].alive = FALSE /\ nt[n].has_run = FALSE
                           /\ nt[n].wanted = TRUE /\ nt[n].changes = {}
  BY DEF Init
<1>3. worker.at = "idle" /\ skipVersion = 0
  BY DEF Init
<1>4. DOMAIN <<>> = {}
  OBVIOUS
<1>5. Locked
  BY <1>1 DEF Locked, LockOf, Writes
<1>6. RunBeforeCalls
  BY <1>1, RealmOfAssumption DEF RunBeforeCalls, Delivering
<1>7. AliveInv
  BY <1>2 DEF AliveInv, AliveOf, have_callbacks
<1>8. OwnTokens
  BY <1>2, <1>4 DEF OwnTokens, OwnTokensOf
<1>9. Rising
  BY <1>3 DEF Rising, Busy
<1>10. RowsInv
  BY <1>2, <1>3 DEF RowsInv, RowsOf, Window
<1>11. News /\ NoneLeft
  BY <1>2, <1>4 DEF News, NewsOf, NoneLeft
<1> QED
  BY <1>5, <1>6, <1>7, <1>8, <1>9, <1>10, <1>11

LEMMA NotifierAlways ==
    ASSUME NoneAdded
    PROVE  Spec => []NotifierInv
<1> DEFINE Rest == /\ OwnPackages /\ AgreeInv /\ Locked /\ RunBeforeCalls /\ AliveInv /\ OwnTokens
                   /\ Rising /\ RowsInv
<1>1. Init => Rest
  BY InitOwnAndCount, InitAgrees, InitNews
<1>2. TypeInv /\ Behind /\ Rest /\ [Next]_vars => Rest'
  <2> SUFFICES ASSUME TypeInv, Behind, Rest, [Next]_vars
               PROVE  Rest'
    OBVIOUS
  <2>1. OwnPackages' /\ AgreeInv'
    BY NextOwn, NextAgrees
  <2>2. Locked' /\ RunBeforeCalls'
    BY NextLocked, NextRunBeforeCalls
  <2>3. AliveInv' /\ OwnTokens'
    BY NextAlive, NextTokens
  <2>4. Rising' /\ RowsInv'
    BY NextRising, NextRows
  <2> QED
    BY <2>1, <2>2, <2>3, <2>4
<1>3. TypeInv /\ Behind /\ Rest => NotifierInv
  BY DEF NotifierInv
<1> HIDE DEF Rest
<1> QED
  BY <1>1, <1>2, <1>3, TypedAlways, PTL DEF Spec

LEMMA NewsAlways ==
    ASSUME NoneAdded, OneEach
    PROVE  Spec => []NewsInv
<1>1. Init => News /\ NoneLeft
  BY InitNews
<1>2. NotifierInv /\ News /\ NoneLeft /\ [Next]_vars => News' /\ NoneLeft'
  BY NextNews DEF NewsInv
<1>3. NotifierInv /\ News /\ NoneLeft => NewsInv
  BY DEF NewsInv
<1> QED
  BY <1>1, <1>2, <1>3, NotifierAlways, PTL DEF Spec

\* What waits to be delivered to a callback is news: none of the changes that were
\* told are told again, by whatever runs, packages, refreshes and transactions of
\* however many Realms.  In applications that add their callbacks before the
\* collection first runs, and that write in a callback only if it is the only one
\* of its Realm (a write overtakes the ones that are left).
THEOREM WaitingIsNews ==
    ASSUME NoneAdded, OneEach
    PROVE  Spec => []PendingIsNews
<1>1. ASSUME NewsInv, NEW n \in Notifiers, NEW i \in DOMAIN nt[n].callbacks,
             nt[n].callbacks[i].initial_delivered
      PROVE  \A v \in nt[n].callbacks[i].acc \cup nt[n].callbacks[i].out :
               v > heard[nt[n].callbacks[i].token].told
  BY <1>1 DEF NewsInv, News, NewsOf, NewsAt
<1>2. NewsInv => PendingIsNews
  BY <1>1 DEF PendingIsNews
<1> QED
  BY <1>2, NewsAlways, PTL

-----------------------------------------------------------------------------
(* What a callback has been told, or need not be.                          *)

covered(h) == h.got \cup h.own \cup h.overtaken

\* The versions up to x are accounted for, once those in more are told.
ToldUpTo(h, x, more) ==
    h.told > 0 => \A y \in Versions : h.base < y /\ y <= x => y \in covered(h) \cup more

\* What a callback is about to be told, if its notifier is delivering.
Pending(cb, delivers) == IF delivers THEN cb.out ELSE {}

\* The callback has been told, or holds, every version up to the one of its
\* notifier, and those up to the one its Realm has reached without what it has
\* accumulated, which a package that is out of date throws away.
Accounted(cb, h, version, delivers, reach, v) ==
    /\ cb.initial_delivered <=> h.told > 0
    /\ ToldUpTo(h, version, cb.acc \cup Pending(cb, delivers))
    /\ ToldUpTo(h, reach, Pending(cb, delivers))
    /\ delivers /\ h.told = 0 => \A y \in Versions : v < y /\ y <= version => y \in cb.acc

\* Its Realm may have written the version "to": the handover that skips it comes,
\* and takes the notifier no further.
Skipping(cb, h, version, delivers, v, to, comes) ==
    /\ comes /\ version < to /\ to <= v
    /\ ToldUpTo(h, to, Pending(cb, delivers))

LEMMA MoreTold ==
    ASSUME NEW h, NEW x \in Int, NEW more, ToldUpTo(h, x, more), NEW g, g.told > 0 => h.told > 0, g.base = h.base,
           NEW z \in Int, z <= x, NEW less, covered(h) \cup more \subseteq covered(g) \cup less
    PROVE  ToldUpTo(g, z, less)
<1>1. \A y \in Versions : y \in Int
  BY DEF Versions
<1> QED
  BY <1>1 DEF ToldUpTo

LEMMA ToldFurther ==
    ASSUME NEW h, NEW x \in Int, NEW more, ToldUpTo(h, x, more), NEW g, g.told > 0 => h.told > 0, g.base = h.base,
           NEW z \in Int, NEW less, covered(h) \cup more \subseteq covered(g) \cup less,
           \A y \in Versions : x < y /\ y <= z => y \in covered(g) \cup less
    PROVE  ToldUpTo(g, z, less)
<1>1. \A y \in Versions : y \in Int
  BY DEF Versions
<1> QED
  BY <1>1 DEF ToldUpTo

-----------------------------------------------------------------------------
(* The handover in which the worker skips a transaction.                   *)

skipTo == IF skipVersion # 0 THEN skipVersion ELSE worker.skip

SkipComes(n) == (skipVersion # 0) \/ (worker.at \in {"skip", "skipped"} /\ n \in worker.old)

\* It still comes, for the same version.
SkipStays(n) ==
    "suppress" \in Features /\ nt[n].has_run /\ have_callbacks(nt[n]) /\ SkipComes(n) =>
        SkipComes(n)' /\ skipTo' = skipTo

\* Up to where a callback of the notifier hears without what it has accumulated.
reached(n) ==
    IF Delivering(n) \/ realm[RealmOf[n]].at \in {"deliver in write", "write", "write in callback"}
    THEN readVersion(n) ELSE readVersion(n) - 1

\* A callback misses nothing.  A collection of a Realm that writes is at the
\* version it writes upon, unless a callback writes, which overtakes it.
MissedAt(n, i) ==
    LET c == nt[n]
        cb == c.callbacks[i]
        h == heard[cb.token]
    IN  /\ Accounted(cb, h, c.version, Delivering(n), reached(n), readVersion(n))
        /\ cb.skip_next => "suppress" \in Features
        /\ c.has_run /\ cb.skip_next =>
             Skipping(cb, h, c.version, Delivering(n), readVersion(n), skipTo, SkipComes(n))
        /\ realm[RealmOf[n]].at \in {"deliver in write", "write"} => c.has_run /\ c.version = latest
        /\ realm[RealmOf[n]].at = "write in callback" => {latest + 1} \cap Versions \subseteq h.overtaken
        /\ Delivering(n) /\ i <= c.index + 1 => cb.out = {}

MissedOf(n) == \A i \in DOMAIN nt[n].callbacks : MissedAt(n, i)

\* What the callbacks have been told leaves no gap.
ToldAll == \A t \in Tokens : ToldUpTo(heard[t], heard[t].told, {})

\* A Realm waits for all its collections, and no less than for what it reads.
WaitOf(r, x) ==
    x.at \in {"refresh", "begin"} =>
        /\ x.version <= x.target
        /\ \A n \in Notifiers : RealmOf[n] = r /\ nt[n].alive => n \in x.package

Waits == \A r \in Realms : WaitOf(r, realm[r])

\* A Realm that goes on in a transaction, which nobody else ends.
WritesOn(n) ==
    LET x == realm[RealmOf[n]]
        y == realm'[RealmOf[n]]
    IN  y.at \in {"deliver in write", "write", "write in callback"} =>
            /\ latest' = latest /\ x.at \in {"deliver in write", "write", "write in callback"}
            /\ y.at = "write in callback" <=> x.at = "write in callback"

-----------------------------------------------------------------------------
(* Steps that leave what a callback holds.                                 *)

StaysAs(c, d) ==
    \A j \in DOMAIN d.callbacks :
        /\ d.version = c.version /\ d.has_run = c.has_run
        /\ \E i \in DOMAIN c.callbacks :
            /\ SameCallback(c.callbacks[i], d.callbacks[j])
            /\ d.callbacks[j].skip_next = c.callbacks[i].skip_next
            /\ j <= d.index + 1 => i <= c.index + 1

LEMMA SelfStays == ASSUME NEW c PROVE StaysAs(c, c)
  BY DEF StaysAs, SameCallback

LEMMA SamePlaceStays ==
    ASSUME NEW c, NEW d, SamePlace(c, d), d.version = c.version, d.has_run = c.has_run
    PROVE  StaysAs(c, d)
  BY DEF StaysAs, SamePlace, SameCallback

LEMMA CallsEndedStays ==
    ASSUME NEW c \in CollectionNotifier, NEW d, CallsEnded(c, d)
    PROVE  d.callbacks = c.callbacks /\ d.version = c.version /\ d.has_run = c.has_run
  BY DEF CallsEnded, SameRuns

LEMMA RemovedStays ==
    ASSUME NEW c \in CollectionNotifier, NEW d, NEW p \in DOMAIN c.callbacks, RemovedFrom(c, d, p - 1)
    PROVE  StaysAs(c, d)
<1>1. PICK k \in Nat : k = Len(c.callbacks) /\ DOMAIN c.callbacks = 1..k /\ DOMAIN d.callbacks = 1..(k - 1)
  BY DEF RemovedFrom
<1>2. PICK x \in Int : x = c.index /\ x >= -1
  <2>1. c.index \in {-1} \cup 0..Cardinality(Tokens)
    BY DEF CollectionNotifier, npos
  <2>2. Cardinality(Tokens) \in Nat
    BY TokensAssumption, FS_CardinalityType
  <2> QED
    BY <2>1, <2>2
<1>3. p \in Int /\ 1 <= p /\ d.index = IF x # -1 /\ x >= p - 1 THEN x - 1 ELSE x
  BY <1>1, <1>2 DEF RemovedFrom, indexAfterRemoval, npos
<1>4. d.version = c.version /\ d.has_run = c.has_run
  BY DEF RemovedFrom, SameRuns
<1>5. ASSUME NEW j \in DOMAIN d.callbacks
      PROVE  \E i \in DOMAIN c.callbacks : /\ c.callbacks[i] = d.callbacks[j]
                                           /\ j <= d.index + 1 => i <= c.index + 1
  <2>1. j \in Int /\ 1 <= j /\ j <= k - 1
    BY <1>1
  <2>2. d.callbacks[j] = IF j <= p - 1 THEN c.callbacks[j] ELSE c.callbacks[j + 1]
    BY DEF RemovedFrom
  <2>3. j \in DOMAIN c.callbacks /\ j + 1 \in DOMAIN c.callbacks
    BY <1>1, <2>1
  <2>4. CASE j <= p - 1
    <3>1. d.callbacks[j] = c.callbacks[j]
      BY <2>2, <2>4
    <3>2. j <= d.index + 1 => j <= x + 1
      BY <1>2, <1>3, <2>1, <2>4
    <3> QED
      BY <1>2, <2>3, <3>1, <3>2
  <2>5. CASE ~(j <= p - 1)
    <3>1. d.callbacks[j] = c.callbacks[j + 1]
      BY <2>2, <2>5
    <3>2. j <= d.index + 1 => j + 1 <= x + 1
      BY <1>2, <1>3, <2>1, <2>5
    <3> QED
      BY <1>2, <2>3, <3>1, <3>2
  <2> QED
    BY <2>4, <2>5
<1> QED
  BY <1>4, <1>5 DEF StaysAs, SameCallback

LEMMA AccountedStays ==
    ASSUME NEW a, NEW b, SameCallback(a, b), NEW h, NEW version, NEW delivers, NEW x \in Int, NEW v,
           Accounted(a, h, version, delivers, x, v), NEW z \in Int, z <= x
    PROVE  Accounted(b, h, version, delivers, z, v)
<1>1. b.acc = a.acc /\ b.out = a.out /\ b.initial_delivered = a.initial_delivered
  BY DEF SameCallback
<1>2. Pending(b, delivers) = Pending(a, delivers)
  BY <1>1 DEF Pending
<1>3. ToldUpTo(h, z, Pending(b, delivers))
  BY <1>2, MoreTold DEF Accounted
<1> QED
  BY <1>1, <1>2, <1>3 DEF Accounted

LEMMA reachedIs ==
    ASSUME TypeInv, NEW n \in Notifiers
    PROVE  readVersion(n) \in Int /\ reached(n) \in Int
<1>1. realm[RealmOf[n]].version \in Int
  BY RealmOfAssumption, Numbers
<1>2. PICK v \in Int : v = readVersion(n)
  BY <1>1 DEF readVersion
<1>3. reached(n) = v \/ reached(n) = v - 1
  BY <1>2 DEF reached
<1> QED
  BY <1>2, <1>3

LEMMA reachedAfter ==
    ASSUME TypeInv, NEW n \in Notifiers, readVersion(n)' = readVersion(n)
    PROVE  reached(n)' \in Int
<1>1. PICK v \in Int : v = readVersion(n) /\ v = readVersion(n)'
  BY reachedIs
<1>2. PICK w \in Int : w = v - 1
  BY <1>1
<1>3. reached(n)' = v \/ reached(n)' = w
  BY <1>1, <1>2 DEF reached
<1> QED
  BY <1>1, <1>2, <1>3

LEMMA HasCallbacks ==
    ASSUME TypeInv, NEW n \in Notifiers
    PROVE  have_callbacks(nt[n]) <=> DOMAIN nt[n].callbacks # {}
<1>1. PICK c \in CollectionNotifier : c = nt[n]
  BY DEF TypeInv, Typed
<1>2. HasFew(c) /\ Len(c.callbacks) \in Nat /\ DOMAIN c.callbacks = 1..Len(c.callbacks)
  BY CallbacksCounted
<1>3. DOMAIN c.callbacks = {} <=> Len(c.callbacks) = 0
  BY <1>2
<1> QED
  BY <1>1, <1>2, <1>3 DEF HasFew

TellsNothing(n) ==
    \A i \in DOMAIN nt[n].callbacks : heard'[nt[n].callbacks[i].token] = heard[nt[n].callbacks[i].token]

\* Nothing is accumulated, packaged or told in such a step.
LEMMA ToldNothingMissed ==
    ASSUME TypeInv, NEW n \in Notifiers, MissedOf(n), StaysAs(nt[n], nt'[n]), TellsNothing(n),
           Delivering(n)' = Delivering(n), readVersion(n)' = readVersion(n), reached(n)' <= reached(n),
           SkipStays(n), WritesOn(n)
    PROVE  MissedOf(n)'
<1>1. ASSUME NEW j \in DOMAIN nt'[n].callbacks
      PROVE  MissedAt(n, j)'
  <2>1. PICK i \in DOMAIN nt[n].callbacks :
          /\ SameCallback(nt[n].callbacks[i], nt'[n].callbacks[j])
          /\ nt'[n].callbacks[j].skip_next = nt[n].callbacks[i].skip_next
          /\ j <= nt'[n].index + 1 => i <= nt[n].index + 1
          /\ nt'[n].version = nt[n].version /\ nt'[n].has_run = nt[n].has_run
    BY <1>1 DEF StaysAs
  <2>2. PICK a, b, h : /\ a = nt[n].callbacks[i] /\ b = nt'[n].callbacks[j] /\ SameCallback(a, b)
                       /\ b.skip_next = a.skip_next /\ h = heard[a.token] /\ h = heard'[b.token]
    BY <2>1 DEF SameCallback, TellsNothing
  <2>3. PICK x \in Int, z \in Int : x = reached(n) /\ z = reached(n)' /\ z <= x
    BY reachedIs, reachedAfter
  <2>4. PICK version, delivers, v : /\ version = nt[n].version /\ version = nt'[n].version
                                    /\ delivers = Delivering(n) /\ delivers = Delivering(n)'
                                    /\ v = readVersion(n) /\ v = readVersion(n)'
    BY <2>1
  <2>5. MissedAt(n, i)
    BY DEF MissedOf
  <2>6. Accounted(b, h, version, delivers, z, v)
    <3>1. Accounted(a, h, version, delivers, x, v)
      BY <2>2, <2>3, <2>4, <2>5 DEF MissedAt
    <3>2. SameCallback(a, b) /\ z <= x
      BY <2>2, <2>3
    <3> QED
      BY <3>1, <3>2, AccountedStays
  <2>7. ASSUME nt'[n].has_run, b.skip_next
        PROVE  Skipping(b, h, version, delivers, v, skipTo', SkipComes(n)')
    <3>1. Skipping(a, h, version, delivers, v, skipTo, SkipComes(n))
      BY <2>1, <2>2, <2>4, <2>5, <2>7 DEF MissedAt
    <3>2. have_callbacks(nt[n])
      BY HasCallbacks
    <3>3. SkipComes(n)' /\ skipTo' = skipTo
      BY <2>1, <2>2, <2>5, <2>7, <3>1, <3>2 DEF SkipStays, Skipping, MissedAt
    <3> QED
      BY <2>2, <3>1, <3>3 DEF Skipping, SameCallback, Pending
  <2>8. b.skip_next => "suppress" \in Features
    BY <2>2, <2>5 DEF MissedAt
  <2>9. realm'[RealmOf[n]].at = "write in callback" => {latest' + 1} \cap Versions \subseteq h.overtaken
    BY <2>2, <2>5 DEF MissedAt, WritesOn
  <2>10. delivers /\ j <= nt'[n].index + 1 => b.out = {}
    BY <2>1, <2>2, <2>4, <2>5 DEF MissedAt, SameCallback
  <2>11. realm'[RealmOf[n]].at \in {"deliver in write", "write"} => nt'[n].has_run /\ nt'[n].version = latest'
    BY <2>1, <2>5 DEF MissedAt, WritesOn
  <2> QED
    BY <2>2, <2>3, <2>4, <2>6, <2>7, <2>8, <2>9, <2>10, <2>11 DEF MissedAt
<1> QED
  BY <1>1 DEF MissedOf

LEMMA StaysMissed ==
    ASSUME TypeInv, NEW n \in Notifiers, MissedOf(n), StaysAs(nt[n], nt'[n]), UNCHANGED heard,
           Delivering(n)' = Delivering(n), readVersion(n)' = readVersion(n), reached(n)' <= reached(n),
           SkipStays(n), WritesOn(n)
    PROVE  MissedOf(n)'
<1>1. TellsNothing(n)
  BY DEF TellsNothing
<1> QED
  BY <1>1, ToldNothingMissed

-----------------------------------------------------------------------------
(* What a Realm waits for.                                                 *)

LEMMA WaitingRealm ==
    ASSUME TypeInv, Behind, OwnPackages, AliveInv, [Next]_vars, NEW s \in Realms
    PROVE  \/ realm'[s] = realm[s]
           \/ realm'[s].at \notin {"refresh", "begin"}
           \/ /\ realm'[s].version <= realm'[s].target
              /\ \A n \in Notifiers : RealmOf[n] = s /\ nt[n].alive => n \in realm'[s].package
<1> DEFINE Fine(r) == \/ realm'[r] = realm[r]
                      \/ realm'[r].at \notin {"refresh", "begin"}
                      \/ /\ realm'[r].version <= realm'[r].target
                         /\ \A n \in Notifiers : RealmOf[n] = r /\ nt[n].alive => n \in realm'[r].package
<1> SUFFICES Fine(s)
  OBVIOUS
<1>1. CASE UNCHANGED realm
  BY <1>1
<1>2. ASSUME NEW r \in Realms, OnlyOfRealm(r), Fine(r)
      PROVE  Fine(s)
  BY <1>2 DEF OnlyOfRealm
<1>3. ASSUME NEW r \in Realms, NEW v, NEW at, at \notin {"refresh", "begin"}, NEW ns, delivering(r, v, at, ns)
      PROVE  Fine(s)
  <2>1. OnlyOfRealm(r) /\ realm'[r].at = at
    BY <1>3, DeliveringIs
  <2> QED
    BY <1>2, <1>3, <2>1
<1>4. ASSUME NEW r \in Realms, notify(r)
      PROVE  Fine(s)
  <2>1. UNCHANGED realm \/ \E v, ns : delivering(r, v, "deliver", ns)
    BY <1>4, NotifyCases DEF NotifyBranches
  <2> QED
    BY <1>1, <1>3, <2>1
<1>5. ASSUME NEW r \in Realms, refreshed(r) \/ begun(r)
      PROVE  Fine(s)
  <2>1. \E v, ns : delivering(r, v, "deliver", ns) \/ delivering(r, v, "deliver in write", ns)
    BY <1>5 DEF refreshed, begun
  <2> QED
    BY <1>3, <2>1
<1>6. ASSUME NEW r \in Realms, NEW n \in Notifiers, after_advance(r, n)
      PROVE  Fine(s)
  <2>1. OnlyOfRealm(r) /\ realm'[r].at \in {"deliver", "deliver in write"}
    BY <1>6, after_advanceRealm
  <2> QED
    BY <1>2, <2>1
<1>7. ASSUME NEW r \in Realms, delivered(r)
      PROVE  Fine(s)
  <2>1. OnlyOfRealm(r) /\ realm'[r].at \in {"idle", "write"}
    BY <1>7, deliveredRealm
  <2> QED
    BY <1>2, <2>1
<1>8. ASSUME NEW r \in Realms, refresh(r) \/ begin_transaction(r)
      PROVE  Fine(s)
  <2>1. \E at : startWaiting(r, at)
    BY <1>8 DEF refresh, begin_transaction
  <2>2. /\ OnlyOfRealm(r) /\ realm'[r].version = realm[r].version /\ realm'[r].target = latest
        /\ realm'[r].package = notifiers_for_realm(r)
    BY <2>1, startWaitingRealm
  <2>3. realm'[r].version <= realm'[r].target
    BY <2>2 DEF Behind
  <2>4. \A n \in Notifiers : RealmOf[n] = r /\ nt[n].alive => n \in realm'[r].package
    BY <2>2 DEF notifiers_for_realm, AliveInv, AliveOf
  <2> QED
    BY <1>2, <2>2, <2>3, <2>4
<1>9. ASSUME NEW r \in Realms, NEW ts,
             begin_in_callback(r) \/ cancel_transaction(r) \/ commit_transaction(r, ts)
      PROVE  Fine(s)
  <2>1. OnlyOfRealm(r) /\ realm'[r].at \in {"write in callback", "idle", "deliver"}
    BY <1>9, begin_in_callbackRealm, cancel_transactionRealm, commit_transactionRealm
  <2> QED
    BY <1>2, <2>1
<1>10. CASE workerStep
  BY <1>1, <1>10 DEF workerStep, workerTake, workerRunSkip, workerRun, workerHandoverSkip, workerHandover,
     workerSignal, runAll
<1>11. CASE \/ \E n \in Notifiers : register_notifier(n) \/ unregister(n)
            \/ \E t \in Tokens : add_callback(t)
            \/ \E n \in Notifiers : \E i \in DOMAIN nt[n].callbacks : remove_callback(n, i - 1)
            \/ \E r \in Realms : \E ts \in SUBSET suppressible(r) : commit_fails(r, ts)
            \/ otherProcessCommits \/ UNCHANGED vars
  BY <1>1, <1>11 DEF register_notifier, unregister, add_callback, remove_callback, commit_fails,
     otherProcessCommits, vars
<1> QED
  BY <1>4, <1>5, <1>6, <1>7, <1>8, <1>9, <1>10, <1>11 DEF Next, realmStep

\* Collections live on only if they did, but the one that is registered.
LEMMA NextLiving ==
    ASSUME NoneAdded, TypeInv, Behind, OwnPackages, [Next]_vars, ~\E n \in Notifiers : register_notifier(n)
    PROVE  \A n \in Notifiers : nt'[n].alive => nt[n].alive
<1>1. CASE UNCHANGED nt
  BY <1>1
<1>2. CASE Next /\ ~workerStep
  BY <1>2, StepsKeep DEF Kept, KeptAs
<1>3. CASE workerTake
  BY <1>3, TakenIs DEF TakenAs, StagedAs
<1>4. ASSUME NEW ns, NEW v \in Versions, NEW at, runAll(ns, v, at)
      PROVE  \A n \in Notifiers : nt'[n].alive => nt[n].alive
  BY <1>4, RunAllIs DEF Runs, RanAs
<1>5. worker.at \in {"skip", "skipped"} => worker.skip \in Versions
  BY MaxVersionAssumption DEF TypeInv, WorkerTyped, WorkerState, Versions
<1>6. worker.at \in {"run", "ran"} => worker.version \in Versions
  BY MaxVersionAssumption DEF TypeInv, WorkerTyped, WorkerState, Versions
<1>7. CASE workerRunSkip
  BY <1>4, <1>5, <1>7 DEF workerRunSkip
<1>8. CASE workerRun
  BY <1>4, <1>6, <1>8 DEF workerRun
<1>9. CASE workerHandoverSkip
  <2>1. HandsOver(nt', worker.old, worker.skip)
    BY <1>5, <1>9, HandedOverIs DEF workerHandoverSkip
  <2> QED
    BY <2>1 DEF HandsOver, HandedOverAs
<1>10. CASE workerHandover
  BY <1>10, WorkerHandoverIs DEF HandedAndCleaned, HandedOverAs, CleanedAs, StagedAs
<1>11. CASE workerSignal
  BY <1>1, <1>11 DEF workerSignal
<1> QED
  BY <1>1, <1>2, <1>3, <1>7, <1>8, <1>9, <1>10, <1>11 DEF workerStep, vars

LEMMA NextWaits ==
    ASSUME NoneAdded, TypeInv, Behind, OwnPackages, AliveInv, Waits, [Next]_vars
    PROVE  Waits'
<1>1. CASE ~\E n \in Notifiers : register_notifier(n)
  <2>1. ASSUME NEW s \in Realms
        PROVE  WaitOf(s, realm[s])'
    <3>1. WaitOf(s, realm[s])
      BY DEF Waits
    <3> QED
      BY <1>1, <3>1, WaitingRealm, NextLiving DEF WaitOf
  <2> QED
    BY <2>1 DEF Waits
<1>2. ASSUME NEW n \in Notifiers, register_notifier(n)
      PROVE  Waits'
  <2>1. UNCHANGED realm /\ OnlyOf(n)
    BY <1>2, RegisteredIs DEF register_notifier
  <2>2. realm[RealmOf[n]].at \notin {"refresh", "begin"}
    <3>1. realm[RealmOf[n]].at = "idle" \/ realm[RealmOf[n]].calling
      BY <1>2 DEF register_notifier, userCode
    <3> QED
      BY <3>1, RealmOfAssumption DEF OwnPackages, PackageOf, Calls
  <2>3. ASSUME NEW s \in Realms
        PROVE  WaitOf(s, realm[s])'
    BY <2>1, <2>2 DEF Waits, WaitOf, OnlyOf
  <2> QED
    BY <2>3 DEF Waits
<1> QED
  BY <1>1, <1>2

\* Once the wait is over the collections with callbacks are all packaged and
\* delivered, at one version.
LEMMA WaitedAll ==
    ASSUME TypeInv, AgreeInv, AliveInv, Waits, OwnPackages, NEW r \in Realms,
           realm[r].at \in {"refresh", "begin"}, waitIsOver(r),
           NEW n \in Notifiers, RealmOf[n] = r, have_callbacks(nt[n])
    PROVE  /\ n \in waitedFor(r) /\ can_package(nt[n]) /\ n \in realm[r].package
           /\ nt[n].version >= realm[r].target
           /\ \A m \in waitedFor(r) : nt[m].version = nt[n].version
<1>1. PICK ns : ns = {m \in realm[r].package : can_package(nt[m])}
  OBVIOUS
<1>2. n \in realm[r].package
  BY DEF AliveInv, AliveOf, Waits, WaitOf
<1>3. nt[n].has_run /\ nt[n].version >= realm[r].target
  BY <1>2 DEF waitIsOver, ready
<1>4. can_package(nt[n]) /\ n \in ns
  BY <1>1, <1>2, <1>3 DEF can_package, AliveInv, AliveOf
<1>5. ns \subseteq Notifiers
  BY <1>1 DEF TypeInv, RealmState
<1>6. \A m \in ns : nt[m].version = nt[n].version
  BY <1>1, <1>4, <1>5, LiveWhenPackable DEF AgreeInv, NotifiersAgree
<1>7. ~\E m \in ns : nt[m].version < realm[r].target
  <2>1. nt[n].version \in Int /\ realm[r].target \in Int
    BY Numbers
  <2> QED
    BY <1>3, <1>6, <2>1
<1>8. waitedFor(r) = ns
  BY <1>1, <1>7 DEF waitedFor
<1> QED
  BY <1>2, <1>3, <1>4, <1>6, <1>8

-----------------------------------------------------------------------------
(* Steps in which nothing is accumulated, packaged or told.                *)

MissedAll == \A n \in Notifiers : MissedOf(n)

LEMMA SkipKept ==
    ASSUME UNCHANGED <<worker, skipVersion>>
    PROVE  \A n \in Notifiers : SkipStays(n)
  BY DEF SkipStays, SkipComes, skipTo

\* A step that concerns the notifiers only.
LEMMA StaysEverywhere ==
    ASSUME TypeInv, MissedAll, UNCHANGED <<realm, heard, latest>>,
           \A n \in Notifiers : StaysAs(nt[n], nt'[n]) /\ SkipStays(n)
    PROVE  MissedAll'
<1>1. ASSUME NEW n \in Notifiers
      PROVE  MissedOf(n)'
  <2>1. Delivering(n)' = Delivering(n) /\ readVersion(n)' = readVersion(n)
    BY DEF Delivering, readVersion
  <2>2. reached(n)' = reached(n)
    BY <2>1 DEF reached
  <2>3. reached(n)' <= reached(n)
    BY <2>2, reachedIs
  <2>4. WritesOn(n)
    BY DEF WritesOn
  <2> QED
    BY <2>1, <2>3, <2>4, StaysMissed DEF MissedAll
<1> QED
  BY <1>1 DEF MissedAll

LEMMA OneStays ==
    ASSUME TypeInv, MissedAll, UNCHANGED <<realm, heard, latest, worker, skipVersion>>,
           NEW n \in Notifiers, OnlyOf(n), StaysAs(nt[n], nt'[n])
    PROVE  MissedAll'
<1>1. \A m \in Notifiers : StaysAs(nt[m], nt'[m])
  BY SelfStays DEF OnlyOf
<1> QED
  BY <1>1, SkipKept, StaysEverywhere

LEMMA NotifierStepsMissed ==
    ASSUME TypeInv, AliveInv, MissedAll, NEW n \in Notifiers,
           \/ register_notifier(n) \/ unregister(n)
           \/ \E i \in DOMAIN nt[n].callbacks : remove_callback(n, i - 1)
    PROVE  MissedAll'
<1>1. CASE register_notifier(n)
  <2>1. /\ OnlyOf(n) /\ RegisteredAs(nt[n], nt'[n], realm[RealmOf[n]].version)
        /\ UNCHANGED <<realm, heard, latest, worker, skipVersion>>
    BY <1>1, RegisteredIs DEF register_notifier
  <2>2. ~have_callbacks(nt[n])
    BY <1>1 DEF register_notifier, AliveInv, AliveOf
  <2>3. DOMAIN nt'[n].callbacks = {}
    BY <2>1, <2>2, HasCallbacks DEF RegisteredAs, SamePlace
  <2>4. StaysAs(nt[n], nt'[n])
    BY <2>3 DEF StaysAs
  <2> QED
    BY <2>1, <2>4, OneStays
<1>2. CASE unregister(n)
  <2>1. /\ OnlyOf(n) /\ UnregisteredAs(nt[n], nt'[n])
        /\ UNCHANGED <<realm, heard, latest, worker, skipVersion>>
    BY <1>2, UnregisteredIs DEF unregister
  <2>2. StaysAs(nt[n], nt'[n])
    BY <2>1, SamePlaceStays DEF UnregisteredAs
  <2> QED
    BY <2>1, <2>2, OneStays
<1>3. ASSUME NEW p \in DOMAIN nt[n].callbacks, remove_callback(n, p - 1)
      PROVE  MissedAll'
  <2>1. /\ OnlyOf(n) /\ RemovedFrom(nt[n], nt'[n], p - 1)
        /\ UNCHANGED <<realm, heard, latest, worker, skipVersion>>
    BY <1>3, RemovedCallback DEF remove_callback
  <2>2. PICK c \in CollectionNotifier : c = nt[n]
    BY DEF TypeInv, Typed
  <2>3. StaysAs(nt[n], nt'[n])
    BY <2>1, <2>2, RemovedStays
  <2> QED
    BY <2>1, <2>3, OneStays
<1> QED
  BY <1>1, <1>2, <1>3

LEMMA add_callbackMissed ==
    ASSUME NoneAdded, TypeInv, MissedAll, NEW t \in Tokens, add_callback(t)
    PROVE  MissedAll'
<1>1. PICK n \in Notifiers : n = NotifierOf[t] /\ OnlyOf(n) /\ AddedTo(nt[n], nt'[n], t)
  BY AddedCallback
<1>2. UNCHANGED <<realm, heard, latest, worker, skipVersion>>
  BY DEF add_callback
<1>3. realm[RealmOf[n]].at = "idle" /\ heard[t].told = 0
  <2>1. heard[t].told \in Nat
    BY DEF TypeInv, HeardState
  <2>2. realm[RealmOf[n]].at = "idle" /\ t \notin tokensUsed(n)
    BY <1>1 DEF add_callback, NoneAdded
  <2>3. ~(heard[t].told > 0)
    BY <2>2 DEF tokensUsed
  <2> QED
    BY <2>1, <2>2, <2>3
<1>4. PICK k \in Nat : /\ DOMAIN nt[n].callbacks = 1..k /\ DOMAIN nt'[n].callbacks = 1..(k + 1)
                       /\ \A i \in 1..k : nt'[n].callbacks[i] = nt[n].callbacks[i]
                       /\ nt'[n].callbacks[k + 1] = newCallback(t)
  BY <1>1 DEF AddedTo
<1>5. nt'[n].version = nt[n].version /\ nt'[n].has_run = nt[n].has_run /\ nt'[n].index = nt[n].index
  BY <1>1 DEF AddedTo, SameRuns
<1>6. ASSUME NEW m \in Notifiers
      PROVE  /\ Delivering(m)' = Delivering(m) /\ readVersion(m)' = readVersion(m) /\ reached(m)' = reached(m)
             /\ skipTo' = skipTo /\ SkipComes(m)' = SkipComes(m)
  BY <1>2 DEF Delivering, readVersion, reached, skipTo, SkipComes
<1>7. ASSUME NEW j \in DOMAIN nt'[n].callbacks
      PROVE  MissedAt(n, j)'
  <2>1. CASE j \in 1..k
    <3>1. MissedAt(n, j)
      BY <1>4, <2>1 DEF MissedAll, MissedOf
    <3> QED
      BY <1>2, <1>4, <1>5, <1>6, <2>1, <3>1 DEF MissedAt
  <2>2. CASE j = k + 1
    <3>1. ~Delivering(n)'
      BY <1>2, <1>3 DEF Delivering, Calls
    <3>2. nt'[n].callbacks[j] = newCallback(t)
      BY <1>4, <2>2
    <3>3. newCallback(t).initial_delivered = FALSE /\ newCallback(t).skip_next = FALSE
          /\ newCallback(t).token = t
      BY DEF newCallback
    <3>4. heard'[t].told = 0
      BY <1>2, <1>3
    <3>5. Accounted(newCallback(t), heard'[t], nt'[n].version, Delivering(n)', reached(n)', readVersion(n)')
      BY <3>1, <3>3, <3>4 DEF Accounted, ToldUpTo
    <3> QED
      BY <1>2, <1>3, <3>1, <3>2, <3>3, <3>5 DEF MissedAt
  <2> QED
    BY <1>4, <2>1, <2>2
<1>8. ASSUME NEW m \in Notifiers, m # n
      PROVE  MissedOf(m)'
  <2>1. nt'[m] = nt[m]
    BY <1>1, <1>8 DEF OnlyOf
  <2>2. reached(m)' <= reached(m)
    BY <1>6, reachedIs
  <2>3. StaysAs(nt[m], nt'[m])
    BY <2>1, SelfStays
  <2>4. WritesOn(m) /\ SkipStays(m)
    BY <1>2, SkipKept DEF WritesOn
  <2> QED
    BY <1>2, <1>6, <2>2, <2>3, <2>4, StaysMissed DEF MissedAll
<1> QED
  BY <1>7, <1>8 DEF MissedAll, MissedOf

\* The transaction to be skipped passes from the coordinator to the worker, whose
\* first list holds all that have run.
LEMMA workerTakeSkips ==
    ASSUME TypeInv, AgreeInv, AliveInv, workerTake
    PROVE  \A n \in Notifiers : SkipStays(n)
<1>1. PICK old, new, s : /\ old = listed(clean_up_dead(nt), "live")
                         /\ new = listed(clean_up_dead(nt), "new")
                         /\ s = IF old = {} THEN 0 ELSE skipVersion
  OBVIOUS
<1>2. worker' = IF old \cup new = {} THEN [worker EXCEPT !.at = "signal"]
                ELSE [at |-> IF s # 0 THEN "skip" ELSE "run", version |-> latest, skip |-> s,
                      old |-> old, new |-> new]
  BY <1>1 DEF workerTake
<1>3. skipVersion' = 0 /\ worker.at = "idle"
  BY DEF workerTake
<1>4. ASSUME NEW n \in Notifiers, nt[n].has_run, have_callbacks(nt[n]), SkipComes(n)
      PROVE  SkipComes(n)' /\ skipTo' = skipTo
  <2>1. skipVersion # 0
    BY <1>3, <1>4 DEF SkipComes
  <2>2. nt[n].alive /\ nt[n].stage = "live"
    BY <1>4 DEF AliveInv, AliveOf, AgreeInv, NewHaveNotRun
  <2>3. n \in old
    BY <1>1, <2>2, CleanedIs DEF TypeInv, CleanedAs, listed
  <2>4. /\ worker'.at = "skip" /\ worker'.skip = skipVersion /\ worker'.old = old
    BY <1>1, <1>2, <2>1, <2>3
  <2> QED
    BY <1>3, <2>1, <2>3, <2>4 DEF SkipComes, skipTo
<1> QED
  BY <1>4 DEF SkipStays

\* The worker takes the lists, runs the notifiers, signals.
LEMMA WorkerStays ==
    ASSUME TypeInv, AgreeInv, AliveInv, MissedAll, workerTake \/ workerRunSkip \/ workerRun \/ workerSignal
    PROVE  MissedAll'
<1>1. CASE workerTake
  <2>1. \A n \in Notifiers : /\ SamePlace(nt[n], nt'[n]) /\ nt'[n].version = nt[n].version
                             /\ nt'[n].has_run = nt[n].has_run
    BY <1>1, TakenIs DEF TakenAs, StagedAs
  <2>2. UNCHANGED <<realm, heard, latest>>
    BY <1>1 DEF workerTake
  <2>3. \A n \in Notifiers : StaysAs(nt[n], nt'[n]) /\ SkipStays(n)
    BY <1>1, <2>1, SamePlaceStays, workerTakeSkips
  <2> QED
    BY <2>2, <2>3, StaysEverywhere
<1>2. ASSUME NEW ns, NEW v \in Versions, NEW at, runAll(ns, v, at),
             (worker.at = "skip" /\ at = "skipped") \/ (worker.at = "run" /\ at = "ran")
      PROVE  MissedAll'
  <2>1. ASSUME NEW c, NEW d, RanAs(c, d, v)
        PROVE  StaysAs(c, d)
    BY <2>1, SamePlaceStays DEF RanAs
  <2>2. \A n \in Notifiers : StaysAs(nt[n], nt'[n])
    BY <1>2, <2>1, RunAllIs, SelfStays DEF Runs
  <2>3. /\ UNCHANGED <<realm, heard, latest, skipVersion>>
        /\ worker'.at = at /\ worker'.old = worker.old /\ worker'.skip = worker.skip
    BY <1>2 DEF runAll, TypeInv, WorkerTyped, WorkerState
  <2>4. \A n \in Notifiers : SkipStays(n)
    BY <1>2, <2>3 DEF SkipStays, SkipComes, skipTo
  <2> QED
    BY <2>2, <2>3, <2>4, StaysEverywhere
<1>3. worker.at = "skip" => worker.skip \in Versions
  BY MaxVersionAssumption DEF TypeInv, WorkerTyped, WorkerState, Versions
<1>4. worker.at = "run" => worker.version \in Versions
  BY MaxVersionAssumption DEF TypeInv, WorkerTyped, WorkerState, Versions
<1>5. CASE workerRunSkip
  BY <1>2, <1>3, <1>5 DEF workerRunSkip
<1>6. CASE workerRun
  BY <1>2, <1>4, <1>6 DEF workerRun
<1>7. CASE workerSignal
  <2>1. UNCHANGED <<realm, heard, latest, nt>>
    BY <1>7 DEF workerSignal
  <2>2. \A n \in Notifiers : SkipStays(n)
    BY <1>7 DEF workerSignal, SkipStays, SkipComes, skipTo
  <2> QED
    BY <2>1, <2>2, SelfStays, StaysEverywhere
<1> QED
  BY <1>1, <1>5, <1>6, <1>7

\* What a step of another Realm leaves.
LEMMA ElsewhereSame ==
    ASSUME TypeInv, NEW r \in Realms, OnlyOfRealm(r), NEW n \in Notifiers, RealmOf[n] # r
    PROVE  /\ Delivering(n)' = Delivering(n) /\ readVersion(n)' = readVersion(n) /\ reached(n)' <= reached(n)
           /\ realm'[RealmOf[n]] = realm[RealmOf[n]]
<1>1. realm'[RealmOf[n]] = realm[RealmOf[n]]
  BY RealmOfAssumption DEF OnlyOfRealm
<1>2. Delivering(n)' = Delivering(n) /\ readVersion(n)' = readVersion(n)
  BY <1>1 DEF Delivering, readVersion
<1>3. reached(n)' = reached(n)
  BY <1>1, <1>2 DEF reached
<1>4. reached(n)' <= reached(n)
  BY <1>3, reachedIs
<1> QED
  BY <1>1, <1>2, <1>4

\* A Realm does something else, with the same callbacks to call.
LEMMA RealmStays ==
    ASSUME TypeInv, MissedAll, NEW r \in Realms, OnlyOfRealm(r),
           UNCHANGED <<nt, heard, latest, worker, skipVersion>>,
           \A n \in Notifiers : RealmOf[n] = r => /\ Delivering(n)' = Delivering(n)
                                                  /\ readVersion(n)' = readVersion(n)
                                                  /\ reached(n)' <= reached(n) /\ WritesOn(n)
    PROVE  MissedAll'
<1>1. ASSUME NEW n \in Notifiers
      PROVE  MissedOf(n)'
  <2>1. StaysAs(nt[n], nt'[n]) /\ SkipStays(n)
    BY SelfStays, SkipKept
  <2>2. /\ Delivering(n)' = Delivering(n) /\ readVersion(n)' = readVersion(n) /\ reached(n)' <= reached(n)
        /\ WritesOn(n)
    <3>1. CASE RealmOf[n] = r
      BY <3>1
    <3>2. CASE RealmOf[n] # r
      BY <3>2, ElsewhereSame DEF WritesOn
    <3> QED
      BY <3>1, <3>2
  <2> QED
    BY <2>1, <2>2, StaysMissed DEF MissedAll
<1> QED
  BY <1>1 DEF MissedAll

\* The last version that is reached is the one before, or the same.
LEMMA ReachedLess ==
    ASSUME TypeInv, NEW n \in Notifiers, readVersion(n)' = readVersion(n),
           \/ reached(n)' = readVersion(n)' - 1
           \/ reached(n) = readVersion(n)
    PROVE  reached(n)' <= reached(n)
<1>1. PICK v \in Int : v = readVersion(n) /\ v = readVersion(n)'
  BY reachedIs
<1>2. reached(n) = v \/ reached(n) = v - 1
  BY <1>1 DEF reached
<1>3. reached(n)' = v \/ reached(n)' = v - 1
  BY <1>1 DEF reached
<1> QED
  BY <1>1, <1>2, <1>3

LEMMA WaitingMissed ==
    ASSUME TypeInv, OwnPackages, MissedAll, NEW r \in Realms,
           refresh(r) \/ begin_transaction(r) \/ delivered(r) \/ cancel_transaction(r)
    PROVE  MissedAll'
<1>1. UNCHANGED <<nt, heard, latest, worker, skipVersion>>
  BY DEF refresh, begin_transaction, delivered, cancel_transaction
<1>2. PackageOf(r, realm[r])
  BY DEF OwnPackages
<1>3. CASE refresh(r) \/ begin_transaction(r)
  <2>1. \E at \in {"refresh", "begin"} : startWaiting(r, at)
    BY <1>3 DEF refresh, begin_transaction
  <2>2. /\ OnlyOfRealm(r) /\ realm'[r].at \in {"refresh", "begin"} /\ realm'[r].version = realm[r].version
        /\ realm[r].at = "idle"
    BY <1>3, <2>1, startWaitingRealm DEF refresh, begin_transaction
  <2>3. ASSUME NEW n \in Notifiers, RealmOf[n] = r
        PROVE  /\ Delivering(n)' = Delivering(n) /\ readVersion(n)' = readVersion(n)
               /\ reached(n)' <= reached(n) /\ WritesOn(n)
    <3>1. ~Delivering(n) /\ ~Delivering(n)' /\ readVersion(n)' = readVersion(n)
      BY <2>2, <2>3 DEF Delivering, Calls, readVersion
    <3>2. reached(n)' = readVersion(n)' - 1
      BY <2>2, <2>3, <3>1 DEF reached
    <3>3. WritesOn(n)
      BY <2>2, <2>3 DEF WritesOn
    <3>4. Delivering(n)' = Delivering(n)
      BY <3>1 DEF Delivering
    <3> QED
      BY <3>1, <3>2, <3>3, <3>4, ReachedLess
  <2> QED
    BY <1>1, <2>2, <2>3, RealmStays
<1>4. CASE delivered(r)
  <2>1. /\ OnlyOfRealm(r) /\ realm'[r].version = realm[r].version
        /\ realm[r].package = {} /\ realm'[r].package = {}
        /\ \/ realm[r].at = "deliver" /\ realm'[r].at = "idle"
           \/ realm[r].at = "deliver in write" /\ realm'[r].at = "write"
    BY <1>4, deliveredRealm
  <2>2. ASSUME NEW n \in Notifiers, RealmOf[n] = r
        PROVE  /\ Delivering(n)' = Delivering(n) /\ readVersion(n)' = readVersion(n)
               /\ reached(n)' <= reached(n) /\ WritesOn(n)
    <3>1. ~Delivering(n) /\ ~Delivering(n)' /\ readVersion(n)' = readVersion(n)
      BY <2>1, <2>2 DEF Delivering, readVersion
    <3>2. reached(n)' = readVersion(n)' - 1 \/ reached(n) = readVersion(n)
      BY <2>1, <2>2, <3>1 DEF reached
    <3>3. WritesOn(n)
      BY <1>1, <2>1, <2>2 DEF WritesOn
    <3>4. Delivering(n)' = Delivering(n)
      BY <3>1 DEF Delivering
    <3> QED
      BY <3>1, <3>2, <3>3, <3>4, ReachedLess
  <2> QED
    BY <1>1, <2>1, <2>2, RealmStays
<1>5. CASE cancel_transaction(r)
  <2>1. /\ OnlyOfRealm(r) /\ realm'[r].version = realm[r].version /\ realm'[r].package = realm[r].package
        /\ \/ realm[r].at = "write" /\ realm'[r].at = "idle"
           \/ realm[r].at = "write in callback" /\ realm'[r].at = "deliver"
    BY <1>5, cancel_transactionRealm
  <2>2. ASSUME NEW n \in Notifiers, RealmOf[n] = r
        PROVE  /\ Delivering(n)' = Delivering(n) /\ readVersion(n)' = readVersion(n)
               /\ reached(n)' <= reached(n) /\ WritesOn(n)
    <3>1. (Delivering(n)' <=> Delivering(n)) /\ readVersion(n)' = readVersion(n)
      BY <1>2, <2>1, <2>2 DEF Delivering, Calls, readVersion, PackageOf
    <3>2. reached(n) = readVersion(n)
      BY <2>1, <2>2 DEF reached
    <3>3. WritesOn(n)
      BY <2>1, <2>2 DEF WritesOn
    <3>4. Delivering(n)' = Delivering(n)
      BY <3>1 DEF Delivering
    <3> QED
      BY <3>1, <3>2, <3>3, <3>4, ReachedLess
  <2> QED
    BY <1>1, <2>1, <2>2, RealmStays
<1> QED
  BY <1>3, <1>4, <1>5

\* Another process writes only if no Realm does.
LEMMA otherProcessCommitsMissed ==
    ASSUME TypeInv, Locked, MissedAll, otherProcessCommits
    PROVE  MissedAll'
<1>1. UNCHANGED <<realm, nt, heard, worker, skipVersion>> /\ writer = None
  BY DEF otherProcessCommits
<1>2. ASSUME NEW n \in Notifiers
      PROVE  MissedOf(n)'
  <2>1. Delivering(n)' = Delivering(n) /\ readVersion(n)' = readVersion(n)
    BY <1>1 DEF Delivering, readVersion
  <2>2. reached(n)' = reached(n)
    BY <1>1, <2>1 DEF reached
  <2>3. reached(n)' <= reached(n)
    BY <2>2, reachedIs
  <2>4. RealmOf[n] \in Realms
    BY RealmOfAssumption
  <2>5. realm[RealmOf[n]].at \notin Writes
    BY <1>1, <2>4, NoneAssumption DEF Locked, LockOf
  <2>6. WritesOn(n)
    BY <1>1, <2>5 DEF WritesOn, Writes
  <2>7. StaysAs(nt[n], nt'[n]) /\ SkipStays(n)
    BY <1>1, SelfStays, SkipKept
  <2> QED
    BY <1>1, <2>1, <2>3, <2>6, <2>7, StaysMissed DEF MissedAll
<1> QED
  BY <1>2 DEF MissedAll

\* Nothing is suppressed when the commit fails.
LEMMA commit_failsMissed ==
    ASSUME "commit fails" \notin Features, TypeInv, MissedAll, NEW r \in Realms, NEW ts, commit_fails(r, ts)
    PROVE  MissedAll'
<1>1. Suppresses({}) /\ UNCHANGED <<realm, heard, latest, worker, skipVersion>>
  BY SuppressIs DEF commit_fails
<1>2. ASSUME NEW c, NEW d, SuppressedAs(c, d, {})
      PROVE  StaysAs(c, d)
  <2>1. /\ d.version = c.version /\ d.has_run = c.has_run /\ d.index = c.index
        /\ DOMAIN d.callbacks = DOMAIN c.callbacks
    BY <1>2 DEF SuppressedAs, SameRuns
  <2>2. \A i \in DOMAIN c.callbacks : /\ SameCallback(c.callbacks[i], d.callbacks[i])
                                      /\ d.callbacks[i].skip_next = c.callbacks[i].skip_next
    BY <1>2 DEF SuppressedAs, MarkedCallback, SameCallback
  <2> QED
    BY <2>1, <2>2 DEF StaysAs
<1>3. \A n \in Notifiers : StaysAs(nt[n], nt'[n]) /\ SkipStays(n)
  BY <1>1, <1>2, SkipKept DEF Suppresses
<1> QED
  BY <1>1, <1>3, StaysEverywhere

-----------------------------------------------------------------------------
(* What is handed over.                                                    *)

\* A callback accumulates what is later than the version its notifier had, or
\* skips it: its Realm has written it.
LEMMA AddedAccounted ==
    ASSUME NEW a \in Callback, NEW changes \in SUBSET Versions, NEW h, NEW version \in Int,
           NEW delivers, NEW reach, NEW u \in Int, NEW v \in Int, NEW to \in Int, NEW comes,
           Accounted(a, h, version, delivers, reach, u), version <= v, changes = (version + 1)..v,
           a.skip_next => v <= to /\ Skipping(a, h, version, delivers, u, to, comes)
    PROVE  Accounted(add_changes(a, changes), h, v, delivers, reach, u)
<1>1. PICK b : b = add_changes(a, changes)
  OBVIOUS
<1>2. /\ b.out = a.out /\ b.initial_delivered = a.initial_delivered
      /\ b.acc = IF a.skip_next THEN a.acc ELSE a.acc \cup changes
  BY <1>1, AddedIs
<1>3. Pending(b, delivers) = Pending(a, delivers)
  BY <1>2 DEF Pending
<1>4. ToldUpTo(h, reach, Pending(b, delivers)) /\ (b.initial_delivered <=> h.told > 0)
  BY <1>2, <1>3 DEF Accounted
<1>5. ASSUME ToldUpTo(h, v, b.acc \cup Pending(b, delivers)),
             delivers /\ h.told = 0 => \A y \in Versions : u < y /\ y <= v => y \in b.acc
      PROVE  Accounted(b, h, v, delivers, reach, u)
  BY <1>4, <1>5 DEF Accounted
<1>6. \A y \in Versions : y \in Int
  BY DEF Versions
<1>7. CASE a.skip_next
  <2>1. /\ b.acc = a.acc /\ v <= to /\ version < to /\ to <= u /\ ToldUpTo(h, to, Pending(b, delivers))
    BY <1>2, <1>3, <1>7 DEF Skipping
  <2>2. ToldUpTo(h, v, b.acc \cup Pending(b, delivers))
    BY <2>1, MoreTold
  <2>3. \A y \in Versions : ~(u < y /\ y <= v)
    BY <1>6, <2>1
  <2> QED
    BY <1>1, <1>5, <2>2, <2>3
<1>8. CASE ~a.skip_next
  <2>1. b.acc = a.acc \cup changes
    BY <1>2, <1>8
  <2>2. \A y \in Versions : version < y /\ y <= v => y \in b.acc
    BY <1>6, <2>1
  <2>3. ToldUpTo(h, version, a.acc \cup Pending(b, delivers))
    BY <1>3 DEF Accounted
  <2>4. covered(h) \cup (a.acc \cup Pending(b, delivers)) \subseteq covered(h) \cup (b.acc \cup Pending(b, delivers))
    BY <2>1
  <2>5. ToldUpTo(h, v, b.acc \cup Pending(b, delivers))
    BY <2>2, <2>3, <2>4, ToldFurther
  <2>6. delivers /\ h.told = 0 => \A y \in Versions : u < y /\ y <= v => y \in b.acc
    <3>1. delivers /\ h.told = 0 => \A y \in Versions : u < y /\ y <= version => y \in a.acc
      BY DEF Accounted
    <3>2. \A y \in Versions : y <= version \/ version < y
      BY <1>6
    <3> QED
      BY <2>1, <2>2, <3>1, <3>2
  <2> QED
    BY <1>1, <1>5, <2>5, <2>6
<1> QED
  BY <1>7, <1>8

\* The first handover: nobody has been told anything yet.
LEMMA FirstAccounted ==
    ASSUME NEW a \in Callback, NEW changes \in SUBSET Versions, NEW h, NEW version, NEW delivers, NEW reach,
           NEW u, NEW v, Accounted(a, h, version, delivers, reach, u), ~a.initial_delivered, ~delivers
    PROVE  Accounted(add_changes(a, changes), h, v, delivers, reach, u)
<1>1. add_changes(a, changes).initial_delivered = a.initial_delivered
  BY AddedIs
<1> QED
  BY <1>1 DEF Accounted, ToldUpTo

LEMMA HandedOverMissed ==
    ASSUME TypeInv, Behind, RunBeforeCalls, OwnTokens, MissedAll, UNCHANGED <<realm, heard, latest>>,
           NEW n \in Notifiers, NEW v \in Int, v <= latest, RowsOf(nt[n], TRUE, v),
           nt[n].has_run => nt[n].version <= v,
           nt[n].has_run /\ have_callbacks(nt[n]) /\ SkipComes(n) => v <= skipTo,
           NEW d, HandedOverAs(nt[n], d, v), SamePlace(d, nt'[n]), nt'[n].version = d.version,
           nt'[n].has_run = d.has_run
    PROVE  MissedOf(n)'
<1>1. PICK c \in CollectionNotifier : c = nt[n] /\ HandedOverAs(c, d, v) /\ RowsOf(c, TRUE, v)
  BY DEF TypeInv, Typed
<1>2. /\ d.version = v /\ d.index = c.index /\ DOMAIN d.callbacks = DOMAIN c.callbacks /\ d.has_run = TRUE
      /\ \A i \in DOMAIN c.callbacks : d.callbacks[i] = add_changes(c.callbacks[i], c.changes)
  BY <1>1 DEF HandedOverAs
<1>3. /\ nt'[n].callbacks = d.callbacks /\ nt'[n].index = c.index /\ nt'[n].version = v
      /\ nt'[n].has_run = TRUE
  BY <1>2 DEF SamePlace
<1>4. /\ Delivering(n)' = Delivering(n) /\ readVersion(n)' = readVersion(n)
  BY DEF Delivering, readVersion
<1>5. reached(n)' = reached(n)
  BY <1>4 DEF reached
<1>6. ASSUME NEW i \in DOMAIN c.callbacks
      PROVE  MissedAt(n, i)'
  <2>1. PICK a \in Callback : a = c.callbacks[i] /\ a.token \in Tokens
    BY <1>1, CallbackTyped
  <2>2. PICK changes \in SUBSET Versions : changes = c.changes
    BY DEF CollectionNotifier
  <2>3. PICK h : h = heard[a.token] /\ h = heard'[a.token]
    OBVIOUS
  <2>4. PICK version \in Int, u \in Int, reach \in Int : version = c.version /\ u = readVersion(n) /\ reach = reached(n)
    BY <1>1, Numbers, reachedIs
  <2>5. PICK delivers \in BOOLEAN, ran \in BOOLEAN : delivers = Delivering(n) /\ ran = c.has_run
    <3>1. c.has_run \in BOOLEAN /\ Delivering(n) \in BOOLEAN
      BY DEF CollectionNotifier, Delivering
    <3> QED
      BY <3>1
  <2>6. PICK to \in Int : to = skipTo
    BY Numbers DEF skipTo
  <2>7. MissedAt(n, i)
    BY <1>1 DEF MissedAll, MissedOf
  <2>8. Accounted(a, h, version, delivers, reach, u)
    BY <1>1, <2>1, <2>3, <2>4, <2>5, <2>7 DEF MissedAt
  <2>9. ~ran => ~a.initial_delivered /\ ~delivers
    BY <1>1, <2>1, <2>5 DEF OwnTokens, OwnTokensOf, RunBeforeCalls
  <2>10. have_callbacks(c)
    BY <1>1, HasCallbacks
  <2>11. ran => version <= v /\ changes = (version + 1)..v
    BY <1>1, <2>2, <2>4, <2>5, <2>10 DEF RowsOf
  <2>12. ran /\ a.skip_next => Skipping(a, h, version, delivers, u, to, SkipComes(n))
    BY <1>1, <2>1, <2>3, <2>4, <2>5, <2>6, <2>7 DEF MissedAt
  <2>13. ran /\ a.skip_next => v <= to
    BY <1>1, <2>5, <2>6, <2>10, <2>12 DEF Skipping
  <2>14. PICK b : b = add_changes(a, changes)
    OBVIOUS
  <2>15. Accounted(b, h, v, delivers, reach, u)
    <3>1. CASE ~ran
      BY <2>8, <2>9, <2>14, <3>1, FirstAccounted
    <3>2. CASE ran
      <4>1. version <= v /\ changes = (version + 1)..v
        BY <2>11, <3>2
      <4>2. a.skip_next => v <= to /\ Skipping(a, h, version, delivers, u, to, SkipComes(n))
        BY <2>12, <2>13, <3>2
      <4> QED
        BY <2>1, <2>2, <2>4, <2>6, <2>8, <2>14, <4>1, <4>2, AddedAccounted
    <3> QED
      BY <3>1, <3>2
  <2>16. b.token = a.token /\ b.skip_next = FALSE /\ b.out = a.out
    BY <2>14, AddedIs
  <2>17. nt'[n].callbacks[i] = b
    BY <1>2, <1>3, <2>1, <2>2, <2>14
  <2>18. realm'[RealmOf[n]].at \in {"deliver in write", "write"} => nt'[n].version = latest'
    <3>1. realm[RealmOf[n]].at \in {"deliver in write", "write"} => ran /\ version = latest
      BY <1>1, <2>4, <2>5, <2>7 DEF MissedAt
    <3>2. PICK last \in Int : last = latest /\ last = latest' /\ v <= last
      BY Numbers
    <3>3. ran /\ version = last => v = last
      BY <2>4, <2>11, <3>2
    <3>4. realm[RealmOf[n]].at \in {"deliver in write", "write"} => v = last
      BY <3>1, <3>2, <3>3
    <3> QED
      BY <1>3, <3>2, <3>4
  <2>19. realm'[RealmOf[n]].at = "write in callback" => {latest' + 1} \cap Versions \subseteq h.overtaken
    BY <1>1, <2>1, <2>3, <2>7 DEF MissedAt
  <2>20. Delivering(n)' /\ i <= nt'[n].index + 1 => b.out = {}
    BY <1>1, <1>3, <1>4, <2>1, <2>7, <2>16 DEF MissedAt
  <2>21. Accounted(b, heard'[b.token], nt'[n].version, Delivering(n)', reached(n)', readVersion(n)')
    BY <1>3, <1>4, <1>5, <2>3, <2>4, <2>5, <2>15, <2>16
  <2> QED
    BY <1>3, <2>3, <2>16, <2>17, <2>18, <2>19, <2>20, <2>21 DEF MissedAt
<1> QED
  BY <1>1, <1>2, <1>3, <1>6 DEF MissedOf

\* The worker hands over no more than the version to be skipped, if it comes.
LEMMA HandoverMissed ==
    ASSUME TypeInv, Behind, RunBeforeCalls, OwnTokens, Rising, RowsInv, MissedAll,
           workerHandoverSkip \/ workerHandover
    PROVE  MissedAll'
<1>1. UNCHANGED <<realm, heard, latest, skipVersion>>
  BY DEF workerHandoverSkip, workerHandover
<1>2. worker.skip \in Int /\ worker.version \in Int /\ skipVersion \in Int /\ latest \in Int
  BY Numbers
<1>3. worker.skip <= latest /\ worker.version <= latest
  BY DEF Behind
<1>4. ASSUME NEW n \in Notifiers, StaysAs(nt[n], nt'[n]), SkipStays(n)
      PROVE  MissedOf(n)'
  <2>1. Delivering(n)' = Delivering(n) /\ readVersion(n)' = readVersion(n)
    BY <1>1 DEF Delivering, readVersion
  <2>2. reached(n)' = reached(n)
    BY <1>1, <2>1 DEF reached
  <2>3. reached(n)' <= reached(n)
    BY <2>2, reachedIs
  <2>4. WritesOn(n)
    BY <1>1 DEF WritesOn
  <2> QED
    BY <1>1, <1>4, <2>1, <2>3, <2>4, StaysMissed DEF MissedAll
<1>5. CASE workerHandoverSkip
  <2>1. worker.at = "skipped" /\ worker'.at = "run" /\ worker'.skip = worker.skip
    BY <1>5 DEF workerHandoverSkip, TypeInv, WorkerTyped, WorkerState
  <2>2. PICK v \in Int : v = worker.skip
    BY <1>2
  <2> DEFINE ns == worker.old
  <2>3. HandsOver(nt', ns, v)
    <3>1. worker.skip \in Versions
      BY <2>1, MaxVersionAssumption DEF TypeInv, WorkerTyped, WorkerState, Versions
    <3> QED
      BY <1>5, <2>2, <3>1, HandedOverIs DEF workerHandoverSkip
  <2>4. ASSUME NEW n \in Notifiers, n \in ns
        PROVE  RowsOf(nt[n], TRUE, v) /\ (nt[n].has_run => nt[n].version <= v)
    <3>1. Window(n) = TRUE /\ ranTo = v
      BY <2>1, <2>2, <2>4 DEF Window, ranTo
    <3> QED
      BY <2>1, <2>2, <2>4, <3>1 DEF RowsInv, RowsOf, Rising
  <2>5. v <= skipTo
    <3>1. skipVersion # 0 => worker.skip <= worker.version /\ worker.version <= skipVersion
      BY <2>1 DEF Rising, Busy
    <3> QED
      BY <1>2, <2>2, <3>1 DEF skipTo
  <2>6. ASSUME NEW n \in Notifiers
        PROVE  MissedOf(n)'
    <3>1. CASE n \in ns
      <4>1. HandedOverAs(nt[n], nt'[n], v)
        BY <2>3, <3>1 DEF HandsOver
      <4>2. SamePlace(nt'[n], nt'[n])
        BY DEF SamePlace
      <4> QED
        BY <1>1, <1>3, <2>2, <2>4, <2>5, <3>1, <4>1, <4>2, HandedOverMissed
    <3>2. CASE n \notin ns
      <4>1. StaysAs(nt[n], nt'[n])
        BY <2>3, <3>2, SelfStays DEF HandsOver
      <4>2. SkipStays(n)
        BY <1>1, <2>1, <2>2, <3>2 DEF SkipStays, SkipComes, skipTo
      <4> QED
        BY <1>4, <4>1, <4>2
    <3> QED
      BY <3>1, <3>2
  <2> QED
    BY <2>6 DEF MissedAll
<1>6. CASE workerHandover
  <2>1. worker.at = "ran" /\ worker'.at = "signal"
    BY <1>6 DEF workerHandover, TypeInv, WorkerTyped, WorkerState
  <2>2. PICK v \in Int : v = worker.version
    BY <1>2
  <2> DEFINE ns == worker.old \cup worker.new
  <2>3. HandedAndCleaned(ns, v)
    BY <1>6, <2>2, WorkerHandoverIs
  <2>4. ASSUME NEW n \in Notifiers, n \in ns
        PROVE  RowsOf(nt[n], TRUE, v) /\ (nt[n].has_run => nt[n].version <= v)
    <3>1. Window(n) = TRUE /\ ranTo = v
      BY <2>1, <2>2, <2>4 DEF Window, ranTo
    <3>2. nt[n].has_run => nt[n].version <= v
      BY <2>1, <2>2, <2>4 DEF Rising, Busy
    <3>3. RowsOf(nt[n], TRUE, v)
      <4>1. RowsOf(nt[n], Window(n), ranTo)
        BY DEF RowsInv
      <4> QED
        BY <3>1, <4>1
    <3> QED
      BY <3>2, <3>3
  <2>5. ASSUME NEW n \in Notifiers, SkipComes(n)
        PROVE  v <= skipTo
    <3>1. skipVersion # 0
      BY <2>1, <2>5 DEF SkipComes
    <3>2. worker.version <= skipVersion
      BY <2>1, <3>1 DEF Rising, Busy
    <3> QED
      BY <2>2, <3>1, <3>2 DEF skipTo
  <2>6. ASSUME NEW n \in Notifiers
        PROVE  MissedOf(n)'
    <3>1. PICK d \in CollectionNotifier : /\ IF n \in ns THEN HandedOverAs(nt[n], d, v) ELSE d = nt[n]
                                          /\ CleanedAs(d, nt'[n])
      BY <2>3 DEF HandedAndCleaned
    <3>2. SamePlace(d, nt'[n]) /\ nt'[n].version = d.version /\ nt'[n].has_run = d.has_run
      BY <3>1 DEF CleanedAs, StagedAs, SamePlace
    <3>3. CASE n \in ns
      <4>1. v <= latest /\ HandedOverAs(nt[n], d, v)
        BY <1>3, <2>2, <3>1, <3>3
      <4> QED
        BY <1>1, <2>2, <2>4, <2>5, <3>2, <3>3, <4>1, HandedOverMissed
    <3>4. CASE n \notin ns
      <4>1. StaysAs(nt[n], nt'[n])
        BY <3>1, <3>2, <3>4, SamePlaceStays
      <4>2. SkipStays(n)
        BY <1>1, <2>1 DEF SkipStays, SkipComes, skipTo
      <4> QED
        BY <1>4, <4>1, <4>2
    <3> QED
      BY <3>3, <3>4
  <2> QED
    BY <2>6 DEF MissedAll
<1> QED
  BY <1>5, <1>6

-----------------------------------------------------------------------------
(* What is packaged.                                                       *)

\* It is about to be told, ...
LEMMA PackagedAccounted ==
    ASSUME NEW a, NEW b, PackagedCallback(a, b), NEW h, NEW v \in Int, NEW reach, NEW u,
           Accounted(a, h, v, FALSE, reach, u)
    PROVE  Accounted(b, h, v, TRUE, v, v)
<1>1. b.out = a.acc /\ b.acc = {} /\ b.initial_delivered = a.initial_delivered
  BY DEF PackagedCallback
<1>2. a.acc \cup Pending(a, FALSE) = a.acc /\ b.acc \cup Pending(b, TRUE) = a.acc /\ Pending(b, TRUE) = a.acc
  BY <1>1 DEF Pending
<1>3. ToldUpTo(h, v, a.acc)
  BY <1>2 DEF Accounted
<1>4. \A y \in Versions : ~(v < y /\ y <= v)
  BY DEF Versions
<1>5. b.initial_delivered <=> h.told > 0
  BY <1>1 DEF Accounted
<1> QED
  BY <1>2, <1>3, <1>4, <1>5 DEF Accounted

\* ... or thrown away: the Realm is past it.
LEMMA DiscardedAccounted ==
    ASSUME NEW a, NEW b, PackagedCallback(a, b), NEW h, NEW version, NEW reach, NEW u,
           Accounted(a, h, version, FALSE, reach, u), ToldUpTo(h, version, {})
    PROVE  Accounted(b, h, version, FALSE, reach, u)
<1>1. b.initial_delivered = a.initial_delivered /\ Pending(a, FALSE) = {} /\ Pending(b, FALSE) = {}
  BY DEF PackagedCallback, Pending
<1>2. b.acc \cup Pending(b, FALSE) = {}
  BY <1>1 DEF PackagedCallback
<1> QED
  BY <1>1, <1>2 DEF Accounted

\* A callback that has not been called misses nothing while its notifier does not
\* deliver.
LEMMA UntoldAccounted ==
    ASSUME NEW cb, NEW h, ~cb.initial_delivered, ~(h.told > 0), NEW version, NEW delivers, ~delivers,
           NEW reach, NEW u
    PROVE  Accounted(cb, h, version, delivers, reach, u)
  BY DEF Accounted, ToldUpTo

LEMMA NoCycle == \A x, y, z \in Int : ~(x < y /\ y <= z /\ z <= x)
  OBVIOUS

LEMMA SameNumber == \A x, y \in Int : x <= y /\ x >= y => x = y
  OBVIOUS

LEMMA AfterNone == \A k \in Nat : \A i \in 1..k : ~(i <= -1 + 1)
  OBVIOUS

LEMMA PackagedMissed ==
    ASSUME TypeInv, CountInv, MissedAll, NEW n \in Notifiers, ~Delivering(n), PackagedAs(nt[n], nt'[n]),
           nt[n].has_run, NEW v \in Int, nt[n].version = v, readVersion(n) <= v,
           Delivering(n)', readVersion(n)' = v,
           realm'[RealmOf[n]].at \in {"deliver", "deliver in write"},
           realm'[RealmOf[n]].at = "deliver in write" => v = latest, UNCHANGED <<heard, latest>>
    PROVE  MissedOf(n)'
<1>1. /\ DOMAIN nt'[n].callbacks = DOMAIN nt[n].callbacks /\ nt'[n].version = v /\ nt'[n].has_run
      /\ nt'[n].index = nt[n].index
      /\ \A i \in DOMAIN nt[n].callbacks : PackagedCallback(nt[n].callbacks[i], nt'[n].callbacks[i])
  BY DEF PackagedAs, SameRuns
<1>2. Delivering(n) = FALSE /\ Delivering(n)' = TRUE
  BY DEF Delivering
<1>3. reached(n)' = v
  BY DEF reached
<1>4. nt[n].index = -1
  BY DEF CountInv, npos
<1>5. ASSUME NEW i \in DOMAIN nt[n].callbacks
      PROVE  MissedAt(n, i)'
  <2>1. PICK a, b, h : /\ a = nt[n].callbacks[i] /\ b = nt'[n].callbacks[i] /\ PackagedCallback(a, b)
                       /\ h = heard[a.token] /\ h = heard'[b.token]
    BY <1>1 DEF PackagedCallback
  <2>2. MissedAt(n, i)
    BY DEF MissedAll, MissedOf
  <2>3. PICK reach, u \in Int : reach = reached(n) /\ u = readVersion(n) /\ u <= v
    BY reachedIs
  <2>4. Accounted(a, h, v, FALSE, reach, u)
    BY <1>2, <2>1, <2>2, <2>3 DEF MissedAt
  <2>5. Accounted(b, h, v, TRUE, v, v)
    BY <2>1, <2>4, PackagedAccounted
  <2>6. ~a.skip_next
    <3>1. PICK to \in Int : to = skipTo
      BY Numbers DEF skipTo
    <3>2. a.skip_next => Skipping(a, h, v, FALSE, u, to, SkipComes(n))
      BY <1>2, <2>1, <2>2, <2>3, <3>1 DEF MissedAt
    <3>3. a.skip_next => v < to /\ to <= u
      BY <3>2 DEF Skipping
    <3> QED
      BY <2>3, <3>1, <3>3, NoCycle
  <2>7. ~b.skip_next
    BY <2>1, <2>6 DEF PackagedCallback
  <2>8. ~(i <= nt'[n].index + 1)
    <3>1. PICK k \in Nat : i \in 1..k
      <4>1. nt[n] \in CollectionNotifier
        BY DEF TypeInv, Typed
      <4> QED
        BY <4>1, CallbacksCounted
    <3>2. ~(i <= -1 + 1)
      BY <3>1, AfterNone
    <3> QED
      BY <1>1, <1>4, <3>2
  <2>9. Accounted(b, heard'[b.token], nt'[n].version, Delivering(n)', reached(n)', readVersion(n)')
    BY <1>1, <1>2, <1>3, <2>1, <2>5
  <2> QED
    BY <1>1, <2>1, <2>7, <2>8, <2>9 DEF MissedAt
<1> QED
  BY <1>1, <1>5 DEF MissedOf

LEMMA UntoldMissed ==
    ASSUME OwnTokens, MissedAll, NEW n \in Notifiers, UNCHANGED heard, nt'[n] = nt[n], ~nt[n].has_run,
           ~Delivering(n)', realm'[RealmOf[n]].at = "deliver"
    PROVE  MissedOf(n)'
<1>1. ASSUME NEW i \in DOMAIN nt[n].callbacks
      PROVE  MissedAt(n, i)'
  <2>1. PICK a, h : a = nt[n].callbacks[i] /\ h = heard[a.token]
    OBVIOUS
  <2>2. MissedAt(n, i)
    BY DEF MissedAll, MissedOf
  <2>3. ~a.initial_delivered
    BY <2>1 DEF OwnTokens, OwnTokensOf
  <2>4. ~(h.told > 0)
    BY <2>1, <2>2, <2>3 DEF MissedAt, Accounted
  <2>5. Accounted(a, h, nt'[n].version, Delivering(n)', reached(n)', readVersion(n)')
    BY <2>3, <2>4, UntoldAccounted
  <2>6. a.skip_next => "suppress" \in Features
    BY <2>1, <2>2 DEF MissedAt
  <2> QED
    BY <2>1, <2>5, <2>6 DEF MissedAt
<1> QED
  BY <1>1 DEF MissedOf

\* A Realm goes on to call callbacks: a notifier that has some is packaged, at the
\* version it goes to, or has not run, or is where the Realm is not.
GoesOn(r, ms, ns, v, at) ==
    /\ ns \subseteq ms /\ Packages(ms) /\ \A n \in Notifiers : n \in ms => RealmOf[n] = r
    /\ v \in Int /\ realm[r].version <= v
    /\ \/ at = "deliver"
       \/ at = "deliver in write" /\ v = latest
    /\ delivering(r, v, at, ns)
    /\ \A n \in Notifiers : RealmOf[n] = r /\ have_callbacks(nt[n]) =>
           \/ n \in ns /\ nt[n].has_run /\ nt[n].version = v
           \/ n \notin ms /\ at = "deliver" /\ (~nt[n].has_run \/ v = realm[r].version)

LEMMA DeliveriesMissed ==
    ASSUME TypeInv, CountInv, OwnTokens, MissedAll, NEW r \in Realms, realm[r].at \in {"idle", "refresh", "begin"},
           UNCHANGED <<heard, latest, worker, skipVersion>>,
           NEW ms, NEW ns, NEW v, NEW at, GoesOn(r, ms, ns, v, at)
    PROVE  MissedAll'
<1>0. /\ ns \subseteq ms /\ Packages(ms) /\ \A n \in Notifiers : n \in ms => RealmOf[n] = r
      /\ v \in Int /\ realm[r].version <= v
      /\ at \in {"deliver", "deliver in write"} /\ (at = "deliver in write" => v = latest)
      /\ delivering(r, v, at, ns)
  BY DEF GoesOn
<1>1. OnlyOfRealm(r) /\ realm'[r].version = v /\ realm'[r].at = at /\ realm'[r].package = ns
  BY <1>0, DeliveringIs
<1>2. ASSUME NEW n \in Notifiers, RealmOf[n] # r
      PROVE  MissedOf(n)'
  <2>1. StaysAs(nt[n], nt'[n])
    BY <1>0, <1>2, SelfStays DEF Packages
  <2>2. SkipStays(n)
    BY SkipKept
  <2>3. WritesOn(n)
    BY <1>1, <1>2, ElsewhereSame DEF WritesOn
  <2> QED
    BY <1>1, <1>2, <2>1, <2>2, <2>3, ElsewhereSame, StaysMissed DEF MissedAll
<1>3. ASSUME NEW n \in Notifiers, RealmOf[n] = r, ~have_callbacks(nt[n])
      PROVE  MissedOf(n)'
  <2>1. DOMAIN nt'[n].callbacks = {}
    BY <1>0, <1>3, HasCallbacks DEF Packages, PackagedAs
  <2> QED
    BY <2>1 DEF MissedOf
<1>4. ASSUME NEW n \in Notifiers, RealmOf[n] = r
      PROVE  ~Delivering(n) /\ (Delivering(n)' <=> n \in ns) /\ readVersion(n)' = v /\ readVersion(n) = realm[r].version
  BY <1>0, <1>1, <1>4 DEF Delivering, Calls, readVersion
<1>5. ASSUME NEW n \in Notifiers, RealmOf[n] = r, n \in ns, nt[n].has_run, nt[n].version = v
      PROVE  MissedOf(n)'
  <2>1. PackagedAs(nt[n], nt'[n])
    BY <1>0, <1>5 DEF Packages
  <2> QED
    BY <1>0, <1>1, <1>4, <1>5, <2>1, PackagedMissed
<1>6. ASSUME NEW n \in Notifiers, RealmOf[n] = r, n \notin ms, at = "deliver"
      PROVE  nt'[n] = nt[n] /\ ~Delivering(n)' /\ realm'[RealmOf[n]].at = "deliver"
  BY <1>0, <1>1, <1>4, <1>6 DEF Packages
<1>7. ASSUME NEW n \in Notifiers, RealmOf[n] = r, n \notin ms, at = "deliver", ~nt[n].has_run
      PROVE  MissedOf(n)'
  BY <1>6, <1>7, UntoldMissed
<1>8. ASSUME NEW n \in Notifiers, RealmOf[n] = r, n \notin ms, at = "deliver", v = realm[r].version
      PROVE  MissedOf(n)'
  <2>1. readVersion(n)' = readVersion(n)
    BY <1>4, <1>8
  <2>2. Delivering(n)' = Delivering(n)
    <3>1. ~Delivering(n) /\ ~Delivering(n)'
      BY <1>4, <1>6, <1>8
    <3> QED
      BY <3>1 DEF Delivering
  <2>3. reached(n)' = readVersion(n)' - 1
    BY <1>6, <1>8 DEF reached
  <2>4. reached(n)' <= reached(n)
    BY <2>1, <2>3, ReachedLess
  <2>5. StaysAs(nt[n], nt'[n]) /\ SkipStays(n)
    BY <1>6, <1>8, SelfStays, SkipKept
  <2>6. WritesOn(n)
    BY <1>6, <1>8 DEF WritesOn
  <2> QED
    BY <2>1, <2>2, <2>4, <2>5, <2>6, StaysMissed DEF MissedAll
<1>9. ASSUME NEW n \in Notifiers, RealmOf[n] = r, have_callbacks(nt[n])
      PROVE  MissedOf(n)'
  <2>1. \/ n \in ns /\ nt[n].has_run /\ nt[n].version = v
        \/ n \notin ms /\ at = "deliver" /\ (~nt[n].has_run \/ v = realm[r].version)
    BY <1>9 DEF GoesOn
  <2> QED
    BY <1>5, <1>7, <1>8, <1>9, <2>1
<1> QED
  BY <1>2, <1>3, <1>9 DEF MissedAll

\* A package that is out of date is thrown away.
LEMMA DiscardedMissed ==
    ASSUME TypeInv, MissedAll, UNCHANGED <<realm, heard, latest, worker, skipVersion>>,
           NEW n \in Notifiers, PackagedAs(nt[n], nt'[n]), realm[RealmOf[n]].at = "idle",
           nt[n].version < readVersion(n)
    PROVE  MissedOf(n)'
<1>1. /\ DOMAIN nt'[n].callbacks = DOMAIN nt[n].callbacks /\ nt'[n].version = nt[n].version
      /\ nt'[n].has_run = nt[n].has_run
      /\ \A i \in DOMAIN nt[n].callbacks : PackagedCallback(nt[n].callbacks[i], nt'[n].callbacks[i])
  BY DEF PackagedAs, SameRuns
<1>2. Delivering(n) = FALSE /\ Delivering(n)' = FALSE /\ readVersion(n)' = readVersion(n)
  BY DEF Delivering, Calls, readVersion
<1>3. reached(n) = readVersion(n) - 1 /\ reached(n)' = reached(n)
  BY <1>2 DEF reached
<1>4. skipTo' = skipTo /\ SkipComes(n)' = SkipComes(n)
  BY DEF skipTo, SkipComes
<1>5. PICK version \in Int, u \in Int, reach \in Int :
        version = nt[n].version /\ u = readVersion(n) /\ reach = reached(n) /\ version <= reach
  BY <1>3, reachedIs, Numbers
<1>6. ASSUME NEW i \in DOMAIN nt[n].callbacks
      PROVE  MissedAt(n, i)'
  <2>1. PICK a, b, h : /\ a = nt[n].callbacks[i] /\ b = nt'[n].callbacks[i] /\ PackagedCallback(a, b)
                       /\ h = heard[a.token] /\ h = heard'[b.token]
    BY <1>1 DEF PackagedCallback
  <2>2. MissedAt(n, i)
    BY DEF MissedAll, MissedOf
  <2>3. Accounted(a, h, version, FALSE, reach, u)
    BY <1>2, <1>5, <2>1, <2>2 DEF MissedAt
  <2>4. Accounted(b, h, version, FALSE, reach, u)
    <3>1. ToldUpTo(h, reach, {})
      BY <2>3 DEF Accounted, Pending
    <3>2. ToldUpTo(h, version, {})
      BY <1>5, <3>1, MoreTold
    <3> QED
      BY <2>1, <2>3, <3>2, DiscardedAccounted
  <2>5. b.skip_next = a.skip_next
    BY <2>1 DEF PackagedCallback
  <2>6. ASSUME nt[n].has_run, a.skip_next
        PROVE  Skipping(b, h, version, FALSE, u, skipTo, SkipComes(n))
    <3>1. Skipping(a, h, version, FALSE, u, skipTo, SkipComes(n))
      BY <1>2, <1>5, <2>1, <2>2, <2>6 DEF MissedAt
    <3> QED
      BY <3>1 DEF Skipping, Pending
  <2>7. a.skip_next => "suppress" \in Features
    BY <2>1, <2>2 DEF MissedAt
  <2>8. Accounted(b, heard'[b.token], nt'[n].version, Delivering(n)', reached(n)', readVersion(n)')
    BY <1>1, <1>2, <1>3, <1>5, <2>1, <2>4
  <2>9. nt'[n].has_run /\ b.skip_next =>
          Skipping(b, heard'[b.token], nt'[n].version, Delivering(n)', readVersion(n)', skipTo', SkipComes(n)')
    BY <1>1, <1>2, <1>4, <1>5, <2>1, <2>5, <2>6
  <2> QED
    BY <1>2, <2>1, <2>5, <2>7, <2>8, <2>9 DEF MissedAt
<1> QED
  BY <1>1, <1>6 DEF MissedOf

LEMMA RunIsPackable ==
    ASSUME AliveInv, NEW r \in Realms, NEW n \in Notifiers, RealmOf[n] = r, have_callbacks(nt[n]), nt[n].has_run
    PROVE  n \in packable(r)
  BY DEF packable, notifiers_for_realm, can_package, AliveInv, AliveOf

LEMMA notifyMissed ==
    ASSUME TypeInv, Behind, AgreeInv, AliveInv, CountInv, OwnTokens, MissedAll, NEW r \in Realms, notify(r)
    PROVE  MissedAll'
<1>1. UNCHANGED <<heard, latest, worker, skipVersion>>
  BY DEF notify
<1>2. PICK all, now : all = packable(r) /\ now = packableNow(r)
  OBVIOUS
<1>3. /\ all \subseteq Notifiers /\ \A n \in all : nt[n].has_run /\ can_package(nt[n]) /\ RealmOf[n] = r
      /\ now \subseteq all /\ \A n \in now : nt[n].version = realm[r].version
  BY <1>2 DEF packable, packableNow, notifiers_for_realm, can_package
<1>4. \A m, n \in all : nt[m].version = nt[n].version
  BY <1>3, LiveWhenPackable DEF AgreeInv, NotifiersAgree
<1>5. /\ \A n \in Notifiers : nt[n].version \in Int
      /\ latest \in Int /\ realm[r].version \in Int /\ realm[r].version <= latest
      /\ realm[r].version <= realm[r].version
  BY Numbers DEF Behind
<1>7. CASE UNCHANGED <<nt, realm>>
  BY <1>1, <1>7, SelfStays, SkipKept, StaysEverywhere
<1>8. CASE /\ realm[r].at = "idle" /\ packagedAndDelivered(now)
           /\ delivering(r, realm[r].version, "deliver", now)
  <2>1. Packages(now)
    BY <1>8, PackagedAndDeliveredIs DEF TypeInv
  <2>2. PICK v \in Int : v = realm[r].version /\ realm[r].version <= v /\ delivering(r, v, "deliver", now)
    BY <1>5, <1>8
  <2>3. \A n \in Notifiers : n \in now => RealmOf[n] = r
    BY <1>3
  <2>4. \A n \in Notifiers : n \in now => nt[n].has_run /\ nt[n].version = v
    BY <1>3, <2>2
  <2>5. GoesOn(r, now, now, v, "deliver")
    BY <2>1, <2>2, <2>3, <2>4 DEF GoesOn
  <2> QED
    BY <1>1, <1>8, <2>5, DeliveriesMissed
<1>9. CASE realm[r].at = "idle" /\ all = {} /\ UNCHANGED nt /\ delivering(r, latest, "deliver", {})
  <2>1. Packages({})
    BY <1>9 DEF Packages
  <2>2. PICK v \in Int : realm[r].version <= v /\ delivering(r, v, "deliver", {})
    BY <1>5, <1>9
  <2>3. \A n \in Notifiers : RealmOf[n] = r /\ have_callbacks(nt[n]) => ~nt[n].has_run
    BY <1>2, <1>9, RunIsPackable
  <2>4. GoesOn(r, {}, {}, v, "deliver")
    BY <2>1, <2>2, <2>3 DEF GoesOn
  <2> QED
    BY <1>1, <1>9, <2>4, DeliveriesMissed
<1>10. CASE /\ realm[r].at = "idle" /\ all # {} /\ versionOf(all) < realm[r].version
            /\ nt' = packaged(all) /\ UNCHANGED realm
  <2>1. Packages(all)
    BY <1>10, PackagedIs DEF TypeInv
  <2>2. \E n \in all : versionOf(all) = nt[n].version
    BY <1>2, <1>10, NotifyCases
  <2>3. ASSUME NEW n \in Notifiers
        PROVE  MissedOf(n)'
    <3>1. CASE n \in all
      <4>1. PackagedAs(nt[n], nt'[n])
        BY <2>1, <3>1 DEF Packages
      <4>2. nt[n].version < readVersion(n) /\ realm[RealmOf[n]].at = "idle"
        BY <1>3, <1>4, <1>10, <2>2, <3>1 DEF readVersion
      <4> QED
        BY <1>1, <1>10, <4>1, <4>2, DiscardedMissed
    <3>2. CASE n \notin all
      <4>1. StaysAs(nt[n], nt'[n])
        BY <2>1, <3>2, SelfStays DEF Packages
      <4>2. Delivering(n)' = Delivering(n) /\ readVersion(n)' = readVersion(n)
        BY <1>10 DEF Delivering, readVersion
      <4>3. reached(n)' = reached(n)
        BY <1>10, <4>2 DEF reached
      <4>4. reached(n)' <= reached(n)
        BY <4>3, reachedIs
      <4>5. SkipStays(n) /\ WritesOn(n)
        BY <1>1, <1>10, SkipKept DEF WritesOn
      <4> QED
        BY <1>1, <4>1, <4>2, <4>4, <4>5, StaysMissed DEF MissedAll
    <3> QED
      BY <3>1, <3>2
  <2> QED
    BY <2>3 DEF MissedAll
<1>11. CASE /\ realm[r].at = "idle" /\ all # {} /\ versionOf(all) >= realm[r].version
            /\ packagedAndDelivered(all)
            /\ delivering(r, versionOf(all), "deliver", all)
  <2>1. Packages(all)
    BY <1>11, PackagedAndDeliveredIs DEF TypeInv
  <2>2. \E n \in all : versionOf(all) = nt[n].version
    BY <1>2, <1>11, NotifyCases
  <2>3. PICK v \in Int : v = versionOf(all) /\ realm[r].version <= v /\ delivering(r, v, "deliver", all)
    <3>1. versionOf(all) \in Int
      BY <1>3, <1>5, <2>2
    <3>2. realm[r].version <= versionOf(all)
      BY <1>5, <1>11, <3>1
    <3> QED
      BY <1>11, <3>1, <3>2
  <2>4. \A n \in Notifiers : n \in all => nt[n].has_run /\ nt[n].version = v
    BY <1>3, <1>4, <2>2, <2>3
  <2>5. \A n \in Notifiers : n \in all => RealmOf[n] = r
    BY <1>3
  <2>6. \A n \in Notifiers : RealmOf[n] = r /\ have_callbacks(nt[n]) /\ nt[n].has_run => n \in all
    BY <1>2, RunIsPackable
  <2>7. GoesOn(r, all, all, v, "deliver")
    BY <2>1, <2>3, <2>4, <2>5, <2>6 DEF GoesOn
  <2> QED
    BY <1>1, <1>11, <2>7, DeliveriesMissed
<1> QED
  BY <1>2, <1>7, <1>8, <1>9, <1>10, <1>11, NotifyCases DEF NotifyBranches

\* The wait is over, for all that have callbacks.
LEMMA WaitedMissed ==
    ASSUME TypeInv, Behind, OwnPackages, Locked, AgreeInv, AliveInv, CountInv, OwnTokens, Waits, MissedAll,
           NEW r \in Realms, refreshed(r) \/ begun(r)
    PROVE  MissedAll'
<1>1. UNCHANGED <<heard, latest, worker, skipVersion>> /\ waitIsOver(r) /\ realm[r].at \in {"refresh", "begin"}
  BY DEF refreshed, begun
<1>2. PICK ms, ns : ms = {n \in realm[r].package : can_package(nt[n])} /\ ns = waitedFor(r)
  OBVIOUS
<1>3. /\ ns \subseteq ms /\ \A n \in Notifiers : n \in ms => RealmOf[n] = r
      /\ ns \subseteq Notifiers /\ \A n \in ns : nt[n].has_run /\ ~(nt[n].version < realm[r].target)
  BY <1>2, waitedForIs DEF waitedFor, OwnPackages, PackageOf, can_package
<1>4. ASSUME NEW n \in Notifiers, RealmOf[n] = r, have_callbacks(nt[n])
      PROVE  /\ n \in ns /\ nt[n].version >= realm[r].target
             /\ \A m \in ns : nt[m].version = nt[n].version
  BY <1>1, <1>2, <1>4, WaitedAll
<1>5. /\ \A n \in Notifiers : nt[n].version \in Int /\ nt[n].version <= latest
      /\ realm[r].target \in Int /\ realm[r].version \in Int /\ latest \in Int
      /\ realm[r].version <= realm[r].target /\ realm[r].target <= latest
  BY <1>1, Numbers DEF Behind, Waits, WaitOf
<1>7. CASE refreshed(r)
  <2>1. Packages(ns)
    BY <1>2, <1>7, PackagedAndDeliveredIs DEF refreshed, TypeInv
  <2>2. PICK v : /\ v \in (IF ns = {} THEN {latest} ELSE {nt[n].version : n \in ns})
                 /\ delivering(r, v, "deliver", ns)
    BY <1>2, <1>7 DEF refreshed
  <2>3. v \in Int /\ realm[r].version <= v
    <3>1. CASE ns = {}
      BY <1>5, <2>2, <3>1
    <3>2. CASE ns # {}
      <4>1. PICK n \in ns : v = nt[n].version
        BY <2>2, <3>2
      <4>2. nt[n].version \in Int /\ ~(nt[n].version < realm[r].target)
        BY <1>3, <1>5
      <4> QED
        BY <1>5, <4>1, <4>2
    <3> QED
      BY <3>1, <3>2
  <2>4. \A n \in Notifiers : RealmOf[n] = r /\ have_callbacks(nt[n]) =>
          n \in ns /\ nt[n].has_run /\ nt[n].version = v
    BY <1>3, <1>4, <2>2
  <2>5. \A n \in Notifiers : n \in ns => RealmOf[n] = r
    BY <1>3
  <2>6. GoesOn(r, ns, ns, v, "deliver")
    BY <2>1, <2>2, <2>3, <2>4, <2>5 DEF GoesOn
  <2> QED
    BY <1>1, <2>6, DeliveriesMissed
<1>8. CASE begun(r)
  <2>1. nt' = packaged(ms) /\ delivering(r, latest, "deliver in write", ns)
    BY <1>2, <1>8 DEF begun
  <2>2. Packages(ms)
    BY <2>1, PackagedIs DEF TypeInv
  <2>3. realm[r].target = latest
    BY <1>8 DEF begun, Locked, LockOf
  <2>4. PICK v \in Int : v = latest /\ realm[r].version <= v /\ delivering(r, v, "deliver in write", ns)
    BY <1>5, <2>1, <2>3
  <2>5. ASSUME NEW n \in Notifiers, RealmOf[n] = r, have_callbacks(nt[n])
        PROVE  n \in ns /\ nt[n].has_run /\ nt[n].version = v
    <3>1. n \in ns /\ nt[n].version >= realm[r].target
      BY <1>4, <2>5
    <3>2. PICK w \in Int : w = nt[n].version /\ w <= v /\ w >= v
      BY <1>5, <2>3, <2>4, <3>1
    <3>3. w = v
      BY <2>4, <3>2, SameNumber
    <3> QED
      BY <1>3, <3>1, <3>2, <3>3
  <2>6. GoesOn(r, ms, ns, v, "deliver in write")
    BY <1>3, <2>2, <2>4, <2>5 DEF GoesOn
  <2> QED
    BY <1>1, <2>6, DeliveriesMissed
<1> QED
  BY <1>7, <1>8

-----------------------------------------------------------------------------
(* A callback is called.                                                   *)

\* What it is told: the version, and the changes since the call before.
CalledWith(h, g, v, out) ==
    /\ g.own = h.own /\ g.overtaken = h.overtaken /\ g.told = v
    /\ IF h.told = 0 THEN g.base = v /\ g.got = h.got ELSE g.base = h.base /\ g.got = h.got \cup out

LEMMA callbackHeardTold ==
    ASSUME TypeInv, NEW t \in Tokens, NEW version, NEW changes, heard' = callbackHeard(t, version, changes)
    PROVE  CalledWith(heard[t], heard'[t], version, changes)
<1>1. PICK h \in HeardState : h = heard[t]
  BY DEF TypeInv
<1>2. PICK g : g = IF h.told = 0 THEN [h EXCEPT !.base = version, !.told = version]
                   ELSE [h EXCEPT !.told = version, !.got = h.got \cup changes]
  OBVIOUS
<1>3. CalledWith(h, g, version, changes)
  BY <1>2 DEF HeardState, CalledWith
<1>4. heard' = [heard EXCEPT ![t] = g]
  BY <1>1, <1>2 DEF callbackHeard
<1>5. heard'[t] = g
  BY <1>4 DEF TypeInv
<1> QED
  BY <1>1, <1>3, <1>5

\* It holds what it has accumulated since.
CalledAccountedAs(a, b, h, g, version, v) ==
    /\ Accounted(b, g, version, TRUE, v, v) /\ ToldUpTo(g, g.told, {})
    /\ \A to \in Int : to <= v /\ ToldUpTo(h, to, Pending(a, TRUE)) => ToldUpTo(g, to, Pending(b, TRUE))

LEMMA FirstCallAccounted ==
    ASSUME NEW a, NEW b, CalledCallback(a, b), NEW h, NEW g, h.told \in Nat, NEW version \in Int,
           NEW v \in Versions, Accounted(a, h, version, TRUE, v, v), CalledWith(h, g, v, a.out), h.told = 0
    PROVE  CalledAccountedAs(a, b, h, g, version, v)
<1>1. b.acc = a.acc /\ b.initial_delivered = TRUE /\ Pending(b, TRUE) = {}
  BY DEF CalledCallback, Pending
<1>2. g.base = v /\ g.told = v /\ v \in Int /\ v > 0
  BY DEF CalledWith, Versions
<1>3. \A y \in Versions : v < y /\ y <= version => y \in a.acc
  BY DEF Accounted
<1>4. ToldUpTo(g, version, b.acc \cup Pending(b, TRUE))
  BY <1>1, <1>2, <1>3 DEF ToldUpTo
<1>5. ASSUME NEW x \in Int, x <= v
      PROVE  ToldUpTo(g, x, {})
  <2>1. \A y \in Versions : ~(v < y /\ y <= x)
    BY <1>2, <1>5 DEF Versions
  <2> QED
    BY <1>2, <2>1 DEF ToldUpTo
<1>6. v <= v
  BY <1>2
<1>7. Accounted(b, g, version, TRUE, v, v)
  BY <1>1, <1>2, <1>4, <1>5, <1>6 DEF Accounted
<1> QED
  BY <1>1, <1>2, <1>5, <1>6, <1>7 DEF CalledAccountedAs

LEMMA NextCallAccounted ==
    ASSUME NEW a, NEW b, CalledCallback(a, b), NEW h, NEW g, h.told \in Nat, NEW version \in Int,
           NEW v \in Versions, Accounted(a, h, version, TRUE, v, v), CalledWith(h, g, v, a.out), h.told # 0
    PROVE  CalledAccountedAs(a, b, h, g, version, v)
<1>1. /\ b.acc = a.acc /\ b.initial_delivered = TRUE /\ Pending(b, TRUE) = {} /\ Pending(a, TRUE) = a.out
  BY DEF CalledCallback, Pending
<1>2. g.base = h.base /\ g.told = v /\ v \in Int /\ v > 0 /\ h.told > 0 /\ covered(g) = covered(h) \cup a.out
  BY DEF CalledWith, Versions, covered
<1>3. ASSUME NEW x \in Int, ToldUpTo(h, x, a.out)
      PROVE  ToldUpTo(g, x, {})
  <2>1. covered(h) \cup a.out \subseteq covered(g) \cup {} /\ x <= x
    BY <1>2, <1>3
  <2> QED
    BY <1>2, <1>3, <2>1, MoreTold
<1>4. ToldUpTo(g, version, b.acc \cup Pending(b, TRUE))
  <2>1. ToldUpTo(h, version, a.acc \cup a.out)
    BY <1>1 DEF Accounted
  <2>2. PICK acc, out : acc = a.acc /\ out = a.out
    OBVIOUS
  <2>3. covered(h) \cup (acc \cup out) \subseteq covered(g) \cup acc
    BY <1>2, <2>2
  <2>4. version <= version /\ (g.told > 0 => h.told > 0) /\ g.base = h.base
    BY <1>2
  <2>5. ToldUpTo(g, version, acc)
    BY <2>1, <2>2, <2>3, <2>4, MoreTold
  <2>6. b.acc \cup Pending(b, TRUE) = acc
    BY <1>1, <2>2
  <2> QED
    BY <2>5, <2>6
<1>5. ToldUpTo(g, v, {})
  BY <1>1, <1>2, <1>3 DEF Accounted
<1>6. Accounted(b, g, version, TRUE, v, v)
  <2>1. b.initial_delivered /\ g.told > 0 /\ ~(g.told = 0)
    BY <1>1, <1>2
  <2>2. ToldUpTo(g, v, Pending(b, TRUE))
    BY <1>1, <1>5
  <2> QED
    BY <1>4, <2>1, <2>2 DEF Accounted
<1> QED
  BY <1>1, <1>2, <1>3, <1>5, <1>6 DEF CalledAccountedAs

\* It has nothing to hear.
LEMMA NoCallAccounted ==
    ASSUME NEW a, NEW b, CalledCallback(a, b), NEW h, NEW version, NEW v,
           Accounted(a, h, version, TRUE, v, v), a.initial_delivered, a.out = {}, ToldUpTo(h, h.told, {})
    PROVE  CalledAccountedAs(a, b, h, h, version, v)
<1>1. b.acc = a.acc /\ b.initial_delivered = TRUE /\ Pending(b, TRUE) = {} /\ Pending(a, TRUE) = {}
  BY DEF CalledCallback, Pending
<1>2. Accounted(b, h, version, TRUE, v, v)
  BY <1>1 DEF Accounted
<1> QED
  BY <1>1, <1>2 DEF CalledAccountedAs

LEMMA CalledTold ==
    ASSUME TypeInv, NEW r \in Realms, NEW n \in Notifiers, after_advance(r, n),
           nt[n].index + 1 < nt[n].count, NEW p, p = nt[n].index + 2, p \in DOMAIN nt[n].callbacks
    PROVE  LET cb == nt[n].callbacks[p] IN
           IF cb.initial_delivered /\ cb.out = {} THEN heard'[cb.token] = heard[cb.token]
           ELSE CalledWith(heard[cb.token], heard'[cb.token], realm[r].version, cb.out)
<1>1. PICK t \in Tokens : t = nt[n].callbacks[p].token
  BY CallbackTyped
<1>2. p = nt[n].index + 1 + 1
  BY CallbackTyped
<1>3. PICK out, v : out = nt[n].callbacks[p].out /\ v = realm[r].version
  OBVIOUS
<1>4. heard' = IF hears(n) THEN callbackHeard(t, v, out) ELSE heard
  BY <1>1, <1>2, <1>3 DEF after_advance, hears
<1>5. hears(n) <=> ~(nt[n].callbacks[p].initial_delivered /\ nt[n].callbacks[p].out = {})
  BY <1>2 DEF hears
<1>6. CASE hears(n)
  <2>1. CalledWith(heard[t], heard'[t], v, out)
    BY <1>4, <1>6, callbackHeardTold
  <2> QED
    BY <1>1, <1>3, <1>5, <1>6, <2>1
<1>7. CASE ~hears(n)
  BY <1>4, <1>5, <1>7
<1> QED
  BY <1>6, <1>7

\* The notifiers whose turn it is not.
LEMMA OthersMissed ==
    ASSUME TypeInv, MissedAll, NEW r \in Realms, NEW n \in Notifiers, OnlyOf(n), OnlyOfRealm(r), RealmOf[n] = r,
           realm'[r].version = realm[r].version, realm'[r].at = realm[r].at,
           realm'[r].package \in {realm[r].package, realm[r].package \ {n}},
           UNCHANGED <<latest, worker, skipVersion>>,
           NEW m \in Notifiers, m # n, TellsNothing(m)
    PROVE  MissedOf(m)'
<1>1. StaysAs(nt[m], nt'[m]) /\ SkipStays(m)
  BY SelfStays, SkipKept DEF OnlyOf
<1>2. /\ Delivering(m)' = Delivering(m) /\ readVersion(m)' = readVersion(m) /\ reached(m)' <= reached(m)
      /\ WritesOn(m)
  <2>1. CASE RealmOf[m] # r
    BY <2>1, ElsewhereSame DEF WritesOn
  <2>2. CASE RealmOf[m] = r
    <3>1. m \in realm'[r].package <=> m \in realm[r].package
      OBVIOUS
    <3>2. Delivering(m)' = Delivering(m) /\ readVersion(m)' = readVersion(m)
      BY <2>2, <3>1 DEF Delivering, readVersion
    <3>3. reached(m)' = reached(m)
      BY <2>2, <3>2 DEF reached
    <3>4. reached(m)' <= reached(m)
      BY <3>3, reachedIs
    <3>5. WritesOn(m)
      BY <2>2 DEF WritesOn
    <3> QED
      BY <3>2, <3>4, <3>5
  <2> QED
    BY <2>1, <2>2
<1> QED
  BY <1>1, <1>2, ToldNothingMissed DEF MissedAll

LEMMA ToldNumber == ASSUME TypeInv PROVE \A t \in Tokens : heard[t].told \in Nat
<1>1. \A t \in Tokens : heard[t] \in HeardState
  BY DEF TypeInv
<1>2. \A h \in HeardState : h.told \in 0..MaxVersion
  BY DEF HeardState
<1> QED
  BY <1>1, <1>2

\* The callback whose turn it is.
LEMMA TurnMissed ==
    ASSUME TypeInv, ToldAll, MissedAll, NEW n \in Notifiers, Delivering(n), Delivering(n)',
           readVersion(n)' = readVersion(n), realm'[RealmOf[n]].at = realm[RealmOf[n]].at,
           realm[RealmOf[n]].at \in {"deliver", "deliver in write"},
           UNCHANGED <<latest, worker, skipVersion>>,
           nt'[n].version = nt[n].version, nt'[n].has_run = nt[n].has_run,
           NEW p \in DOMAIN nt[n].callbacks, CalledCallback(nt[n].callbacks[p], nt'[n].callbacks[p]),
           NEW h, h = heard[nt[n].callbacks[p].token], NEW g, g = heard'[nt[n].callbacks[p].token],
           IF nt[n].callbacks[p].initial_delivered /\ nt[n].callbacks[p].out = {} THEN g = h
           ELSE CalledWith(h, g, readVersion(n), nt[n].callbacks[p].out)
    PROVE  MissedAt(n, p)' /\ ToldUpTo(g, g.told, {})
<1>1. PICK a \in Callback, b \in {nt'[n].callbacks[p]} : /\ a = nt[n].callbacks[p] /\ b = nt'[n].callbacks[p] /\ CalledCallback(a, b)
                               /\ a.token \in Tokens /\ b.token = a.token /\ b.skip_next = a.skip_next
                               /\ b.out = {}
  BY CallbackTyped DEF CalledCallback
<1>2. PICK v \in Versions : v = readVersion(n)
  BY RealmOfAssumption DEF readVersion, TypeInv, RealmState
<1>3. PICK version \in Int : version = nt[n].version
  BY Numbers
<1>4. Delivering(n) = TRUE /\ Delivering(n)' = TRUE
  BY DEF Delivering
<1>5. reached(n) = v /\ reached(n)' = v
  BY <1>2 DEF reached
<1>6. MissedAt(n, p)
  BY DEF MissedAll, MissedOf
<1>7. Accounted(a, h, version, TRUE, v, v)
  BY <1>1, <1>2, <1>3, <1>4, <1>5, <1>6 DEF MissedAt
<1>8. h.told \in Nat /\ ToldUpTo(h, h.told, {})
  <2>1. PICK t \in Tokens : t = nt[n].callbacks[p].token /\ h = heard[t]
    BY <1>1
  <2>3. heard[t].told \in Nat
    BY ToldNumber
  <2> QED
    BY <2>1, <2>3 DEF ToldAll
<1>9. CalledAccountedAs(a, b, h, g, version, v)
  <2>1. CASE a.initial_delivered /\ a.out = {}
    BY <1>1, <1>7, <1>8, <2>1, NoCallAccounted
  <2>2. CASE ~(a.initial_delivered /\ a.out = {}) /\ h.told = 0
    BY <1>1, <1>2, <1>3, <1>7, <1>8, <2>2, FirstCallAccounted
  <2>3. CASE ~(a.initial_delivered /\ a.out = {}) /\ h.told # 0
    BY <1>1, <1>2, <1>3, <1>7, <1>8, <2>3, NextCallAccounted
  <2> QED
    BY <2>1, <2>2, <2>3
<1>10. Accounted(b, g, version, TRUE, v, v) /\ ToldUpTo(g, g.told, {})
  BY <1>9 DEF CalledAccountedAs
<1>11. PICK to \in Int : to = skipTo
  BY Numbers DEF skipTo
<1>12. skipTo' = skipTo /\ SkipComes(n)' = SkipComes(n)
  BY DEF skipTo, SkipComes
<1>13. ASSUME nt[n].has_run, a.skip_next
       PROVE  Skipping(b, g, version, TRUE, v, to, SkipComes(n))
  <2>1. Skipping(a, h, version, TRUE, v, to, SkipComes(n))
    BY <1>1, <1>2, <1>3, <1>4, <1>6, <1>11, <1>13 DEF MissedAt
  <2> QED
    BY <1>9, <1>11, <2>1 DEF Skipping, CalledAccountedAs
<1>14. /\ a.skip_next => "suppress" \in Features
       /\ realm[RealmOf[n]].at = "deliver in write" => nt[n].has_run /\ version = latest
  BY <1>1, <1>3, <1>6 DEF MissedAt
<1>15. Accounted(b, heard'[b.token], nt'[n].version, Delivering(n)', reached(n)', readVersion(n)')
  BY <1>1, <1>2, <1>3, <1>4, <1>5, <1>10
<1>16. nt'[n].has_run /\ b.skip_next =>
         Skipping(b, heard'[b.token], nt'[n].version, Delivering(n)', readVersion(n)', skipTo', SkipComes(n)')
  BY <1>1, <1>2, <1>3, <1>4, <1>11, <1>12, <1>13
<1> QED
  BY <1>1, <1>3, <1>10, <1>14, <1>15, <1>16 DEF MissedAt

LEMMA CalledMissed ==
    ASSUME TypeInv, OwnPackages, OwnTokens, ToldAll, MissedAll,
           NEW r \in Realms, NEW n \in Notifiers, after_advance(r, n), nt[n].index + 1 < nt[n].count
    PROVE  ToldAll' /\ MissedAll'
<1>1. /\ OnlyOfRealm(r) /\ RealmOf[n] = r /\ Delivering(n)
      /\ realm'[r].version = realm[r].version /\ realm'[r].at = realm[r].at
      /\ realm[r].at \in {"deliver", "deliver in write"} /\ realm'[r].package = realm[r].package
  BY after_advanceRealm
<1>2. PICK p : p = nt[n].index + 2 /\ OnlyOf(n) /\ CalledAt(nt[n], nt'[n], p)
  BY CalledIs
<1>3. /\ p \in DOMAIN nt[n].callbacks /\ nt'[n].index = p - 1 /\ nt'[n].version = nt[n].version
      /\ nt'[n].has_run = nt[n].has_run
      /\ DOMAIN nt'[n].callbacks = DOMAIN nt[n].callbacks
      /\ \A i \in DOMAIN nt[n].callbacks :
           IF i = p THEN CalledCallback(nt[n].callbacks[i], nt'[n].callbacks[i])
           ELSE nt'[n].callbacks[i] = nt[n].callbacks[i]
  BY <1>2 DEF CalledAt, SameRuns
<1>4. PICK t \in Tokens : t = nt[n].callbacks[p].token
  BY <1>3, CallbackTyped
<1>5. \A u \in Tokens : u # t => heard'[u] = heard[u]
  BY <1>2, <1>3, <1>4, CalledHeard
<1>6. IF nt[n].callbacks[p].initial_delivered /\ nt[n].callbacks[p].out = {} THEN heard'[t] = heard[t]
      ELSE CalledWith(heard[t], heard'[t], realm[r].version, nt[n].callbacks[p].out)
  BY <1>2, <1>3, <1>4, CalledTold
<1>7. ASSUME NEW m \in Notifiers, NEW i \in DOMAIN nt[m].callbacks, nt[m].callbacks[i].token = t
      PROVE  m = n /\ i = p
  <2>1. m = n
    BY <1>3, <1>4, <1>7 DEF OwnTokens, OwnTokensOf
  <2> QED
    BY <1>3, <1>4, <1>7, <2>1 DEF TypeInv, Typed, Distinct
<1>8. \A m \in Notifiers : \A i \in DOMAIN nt[m].callbacks :
        m # n \/ i # p => heard'[nt[m].callbacks[i].token] = heard[nt[m].callbacks[i].token]
  BY <1>5, <1>7, CallbackTyped
<1>9. UNCHANGED <<latest, worker, skipVersion>>
  BY DEF after_advance
<1>10. ASSUME NEW m \in Notifiers, m # n
       PROVE  MissedOf(m)'
  <2>1. TellsNothing(m)
    BY <1>8, <1>10 DEF TellsNothing
  <2> QED
    BY <1>1, <1>2, <1>9, <1>10, <2>1, OthersMissed
<1>11. /\ Delivering(n)' /\ readVersion(n)' = readVersion(n) /\ readVersion(n) = realm[r].version
       /\ Delivering(n)' = Delivering(n)
  BY <1>1 DEF Delivering, readVersion
<1>12. MissedAt(n, p)' /\ ToldUpTo(heard'[t], heard'[t].told, {})
  BY <1>1, <1>3, <1>4, <1>6, <1>9, <1>11, TurnMissed
<1>13. ASSUME NEW j \in DOMAIN nt[n].callbacks, j # p
       PROVE  MissedAt(n, j)'
  <2>1. MissedAt(n, j)
    BY DEF MissedAll, MissedOf
  <2>2. nt'[n].callbacks[j] = nt[n].callbacks[j] /\ heard'[nt[n].callbacks[j].token] = heard[nt[n].callbacks[j].token]
    BY <1>3, <1>8, <1>13
  <2>3. reached(n)' = reached(n) /\ skipTo' = skipTo /\ SkipComes(n)' = SkipComes(n)
    BY <1>1, <1>9, <1>11 DEF reached, skipTo, SkipComes
  <2>4. j <= nt'[n].index + 1 => j <= nt[n].index + 1
    <3>1. PICK x \in Int, y \in Int : x = nt[n].index /\ y = j /\ p = x + 2
      BY <1>2, CallbackTyped
    <3>2. nt'[n].index = x + 2 - 1
      BY <1>3, <3>1
    <3> QED
      BY <1>13, <3>1, <3>2
  <2> QED
    BY <1>1, <1>3, <1>9, <1>11, <2>1, <2>2, <2>3, <2>4 DEF MissedAt
<1>14. MissedAll'
  BY <1>3, <1>10, <1>12, <1>13 DEF MissedAll, MissedOf
<1>15. ToldAll'
  BY <1>5, <1>12 DEF ToldAll
<1> QED
  BY <1>14, <1>15

\* All callbacks of the notifier have been called: none waits to be told more.
LEMMA CallsEndedMissed ==
    ASSUME TypeInv, OwnPackages, CountInv, ToldAll, MissedAll,
           NEW r \in Realms, NEW n \in Notifiers, after_advance(r, n), ~(nt[n].index + 1 < nt[n].count)
    PROVE  ToldAll' /\ MissedAll'
<1>1. /\ OnlyOfRealm(r) /\ RealmOf[n] = r /\ Delivering(n)
      /\ realm'[r].version = realm[r].version /\ realm'[r].at = realm[r].at
      /\ realm[r].at \in {"deliver", "deliver in write"}
      /\ realm'[r].package = realm[r].package \ {n}
  BY after_advanceRealm
<1>2. /\ OnlyOf(n) /\ nt'[n].callbacks = nt[n].callbacks /\ nt'[n].version = nt[n].version
      /\ nt'[n].has_run = nt[n].has_run
  BY CallsEndedIs, CallsEndedStays DEF TypeInv, Typed
<1>3. UNCHANGED <<heard, latest, worker, skipVersion>>
  BY DEF after_advance
<1>4. ASSUME NEW m \in Notifiers, m # n
      PROVE  MissedOf(m)'
  <2>1. TellsNothing(m)
    BY <1>3 DEF TellsNothing
  <2> QED
    BY <1>1, <1>2, <1>3, <1>4, <2>1, OthersMissed
<1>5. /\ Delivering(n) = TRUE /\ Delivering(n)' = FALSE /\ readVersion(n)' = readVersion(n)
      /\ reached(n) = readVersion(n)
  BY <1>1 DEF Delivering, readVersion, reached
<1>6. PICK v \in Int, x \in Int, z \in Int :
        v = readVersion(n) /\ x = reached(n) /\ z = reached(n)' /\ z <= x /\ x = v
  <2>1. reached(n)' <= reached(n)
    BY <1>5, ReachedLess
  <2> QED
    BY <1>5, <2>1, reachedIs, reachedAfter
<1>7. skipTo' = skipTo /\ SkipComes(n)' = SkipComes(n)
  BY <1>3 DEF skipTo, SkipComes
<1>8. ASSUME NEW i \in DOMAIN nt[n].callbacks
      PROVE  MissedAt(n, i)'
  <2>1. PICK a, h : a = nt[n].callbacks[i] /\ h = heard[a.token]
    OBVIOUS
  <2>2. MissedAt(n, i)
    BY DEF MissedAll, MissedOf
  <2>3. i <= nt[n].index + 1
    <3>1. PICK k \in Nat : k = Len(nt[n].callbacks) /\ i \in 1..k
      <4>1. nt[n] \in CollectionNotifier
        BY DEF TypeInv, Typed
      <4> QED
        BY <4>1, CallbacksCounted
    <3>2. nt[n].count = k /\ nt[n].index \in Int
      BY <1>1, <3>1, CallbackTyped DEF CountInv
    <3> QED
      BY <3>1, <3>2
  <2>4. a.out = {}
    BY <1>5, <2>1, <2>2, <2>3 DEF MissedAt
  <2>5. Pending(a, TRUE) = {} /\ Pending(a, FALSE) = {}
    BY <2>4 DEF Pending
  <2>6. Accounted(a, h, nt[n].version, TRUE, x, v)
    BY <1>5, <1>6, <2>1, <2>2 DEF MissedAt
  <2>7. Accounted(a, h, nt[n].version, FALSE, z, v)
    <3>1. ToldUpTo(h, x, {})
      BY <2>5, <2>6 DEF Accounted
    <3>2. ToldUpTo(h, z, {})
      BY <1>6, <3>1, MoreTold
    <3> QED
      BY <2>5, <2>6, <3>2 DEF Accounted
  <2>8. ASSUME nt[n].has_run, a.skip_next
        PROVE  Skipping(a, h, nt[n].version, FALSE, v, skipTo, SkipComes(n))
    <3>1. Skipping(a, h, nt[n].version, TRUE, v, skipTo, SkipComes(n))
      BY <1>5, <1>6, <2>1, <2>2, <2>8 DEF MissedAt
    <3> QED
      BY <2>5, <3>1 DEF Skipping
  <2>9. Accounted(a, h, nt'[n].version, Delivering(n)', reached(n)', readVersion(n)')
    BY <1>2, <1>5, <1>6, <2>7
  <2>10. nt'[n].has_run /\ a.skip_next =>
           Skipping(a, h, nt'[n].version, Delivering(n)', readVersion(n)', skipTo', SkipComes(n)')
    BY <1>2, <1>5, <1>6, <1>7, <2>8
  <2>11. /\ a.skip_next => "suppress" \in Features
         /\ realm[RealmOf[n]].at = "deliver in write" => nt[n].has_run /\ nt[n].version = latest
    BY <2>1, <2>2 DEF MissedAt
  <2> QED
    BY <1>1, <1>2, <1>3, <1>5, <2>1, <2>9, <2>10, <2>11 DEF MissedAt
<1>9. MissedAll'
  BY <1>2, <1>4, <1>8 DEF MissedAll, MissedOf
<1>10. ToldAll'
  BY <1>3 DEF ToldAll
<1> QED
  BY <1>9, <1>10

-----------------------------------------------------------------------------
(* A callback writes, or a Realm commits.                                  *)

\* More is accounted for, and nothing is told.
Grows(h, g) == g.told = h.told /\ g.base = h.base /\ covered(h) \subseteq covered(g)

LEMMA ToldGrows ==
    ASSUME NEW h, NEW g, Grows(h, g), NEW x, NEW more, ToldUpTo(h, x, more)
    PROVE  ToldUpTo(g, x, more)
  BY DEF ToldUpTo, Grows

LEMMA AllGrows ==
    ASSUME ToldAll, \A t \in Tokens : Grows(heard[t], heard'[t])
    PROVE  ToldAll'
<1>1. ASSUME NEW t \in Tokens
      PROVE  ToldUpTo(heard'[t], heard'[t].told, {})
  <2>1. ToldUpTo(heard[t], heard[t].told, {}) /\ Grows(heard[t], heard'[t])
    BY DEF ToldAll
  <2>2. heard'[t].told = heard[t].told
    BY <2>1 DEF Grows
  <2>3. ToldUpTo(heard'[t], heard[t].told, {})
    BY <2>1, ToldGrows
  <2> QED
    BY <2>2, <2>3
<1> QED
  BY <1>1 DEF ToldAll

\* The Realm goes on to a version w: what it has not reached is accounted for.
LEMMA FurtherAccounted ==
    ASSUME NEW a, NEW b, b.acc = a.acc, b.out = a.out, b.initial_delivered = a.initial_delivered,
           NEW h, NEW g, Grows(h, g), NEW version, NEW delivers, NEW x \in Int, NEW z \in Int,
           NEW v \in Int, NEW w \in Int, v <= w, Accounted(a, h, version, delivers, x, v),
           \A y \in Versions : x < y /\ y <= z => y \in covered(g)
    PROVE  Accounted(b, g, version, delivers, z, w)
<1>1. Pending(b, delivers) = Pending(a, delivers)
  BY DEF Pending
<1>2. PICK more : more = Pending(a, delivers)
  OBVIOUS
<1>3. (b.initial_delivered <=> g.told > 0) /\ (g.told = 0 <=> h.told = 0)
  BY DEF Accounted, Grows
<1>4. ToldUpTo(g, version, b.acc \cup Pending(b, delivers))
  BY <1>1, ToldGrows DEF Accounted
<1>5. ToldUpTo(g, z, Pending(b, delivers))
  <2>1. ToldUpTo(h, x, more)
    BY <1>2 DEF Accounted
  <2>2. (g.told > 0 => h.told > 0) /\ g.base = h.base /\ covered(h) \cup more \subseteq covered(g) \cup more
    BY DEF Grows
  <2>3. \A y \in Versions : x < y /\ y <= z => y \in covered(g) \cup more
    OBVIOUS
  <2>4. ToldUpTo(g, z, more)
    BY <2>1, <2>2, <2>3, ToldFurther
  <2> QED
    BY <1>1, <1>2, <2>4
<1>6. delivers /\ g.told = 0 => \A y \in Versions : w < y /\ y <= version => y \in b.acc
  <2>1. delivers /\ h.told = 0 => \A y \in Versions : v < y /\ y <= version => y \in a.acc
    BY DEF Accounted
  <2>2. \A y \in Versions : w < y => v < y
    BY DEF Versions
  <2> QED
    BY <1>3, <2>1, <2>2
<1> QED
  BY <1>3, <1>4, <1>5, <1>6 DEF Accounted

\* What the write overtakes.
LEMMA OvertakenIs ==
    ASSUME TypeInv, Behind, NEW r \in Realms, begin_in_callback(r), NEW t \in Tokens
    PROVE  /\ Grows(heard[t], heard'[t])
           /\ IF RealmOf[NotifierOf[t]] = r
              THEN (realm[r].version..(latest + 1)) \cap Versions \subseteq covered(heard'[t])
                   /\ {latest + 1} \cap Versions \subseteq heard'[t].overtaken
              ELSE heard'[t] = heard[t]
<1>1. PICK h \in HeardState : h = heard[t]
  BY DEF TypeInv
<1>2. PICK ys : ys = (realm[r].version..(latest + 1)) \cap Versions
  OBVIOUS
<1>3. PICK g : g = [h EXCEPT !.overtaken = @ \cup ys]
  OBVIOUS
<1>4. heard'[t] = IF RealmOf[NotifierOf[t]] # r THEN h ELSE g
  BY <1>1, <1>2, <1>3 DEF begin_in_callback
<1>5. g.told = h.told /\ g.base = h.base /\ g.got = h.got /\ g.own = h.own /\ g.overtaken = h.overtaken \cup ys
  BY <1>3 DEF HeardState
<1>6. Grows(h, g) /\ Grows(h, h) /\ ys \subseteq covered(g) /\ ys \subseteq g.overtaken
  BY <1>5 DEF Grows, covered
<1>7. {latest + 1} \cap Versions \subseteq ys
  <2>1. PICK v \in Int, last \in Int : v = realm[r].version /\ last = latest /\ v <= last
    BY Numbers DEF Behind
  <2>2. last + 1 \in v..(last + 1)
    BY <2>1
  <2> QED
    BY <1>2, <2>1, <2>2
<1> QED
  BY <1>1, <1>2, <1>4, <1>6, <1>7

LEMMA begin_in_callbackMissed ==
    ASSUME TypeInv, Behind, OwnTokens, ToldAll, MissedAll, NEW r \in Realms, begin_in_callback(r)
    PROVE  ToldAll' /\ MissedAll'
<1>1. /\ OnlyOfRealm(r) /\ realm[r].at = "deliver" /\ realm'[r].at = "write in callback"
      /\ realm'[r].version = latest /\ realm'[r].package = realm[r].package
  BY begin_in_callbackRealm
<1>2. UNCHANGED <<nt, latest, worker, skipVersion>>
  BY DEF begin_in_callback
<1>3. \A t \in Tokens : Grows(heard[t], heard'[t])
  BY OvertakenIs
<1>4. ASSUME NEW n \in Notifiers, NEW i \in DOMAIN nt[n].callbacks
      PROVE  nt[n].callbacks[i].token \in Tokens /\ NotifierOf[nt[n].callbacks[i].token] = n
  BY CallbackTyped DEF OwnTokens, OwnTokensOf
<1>5. ASSUME NEW n \in Notifiers, RealmOf[n] # r
      PROVE  MissedOf(n)'
  <2>1. TellsNothing(n)
    BY <1>4, <1>5, OvertakenIs DEF TellsNothing
  <2>2. StaysAs(nt[n], nt'[n]) /\ SkipStays(n)
    BY <1>2, SelfStays, SkipKept
  <2>3. WritesOn(n)
    BY <1>1, <1>2, <1>5, ElsewhereSame DEF WritesOn
  <2> QED
    BY <1>1, <1>5, <2>1, <2>2, <2>3, ElsewhereSame, ToldNothingMissed DEF MissedAll
<1>6. ASSUME NEW n \in Notifiers, RealmOf[n] = r
      PROVE  MissedOf(n)'
  <2>1. Delivering(n)' = Delivering(n) /\ readVersion(n) = realm[r].version /\ readVersion(n)' = latest
    BY <1>1, <1>6 DEF Delivering, Calls, readVersion
  <2>2. PICK v \in Int, last \in Int : v = readVersion(n) /\ last = latest /\ v <= last
    BY <2>1, Numbers DEF Behind
  <2>3. PICK x \in Int : x = reached(n) /\ (x = v \/ x = v - 1)
    BY <2>2, reachedIs DEF reached
  <2>4. reached(n)' = last
    BY <1>1, <1>6, <2>1, <2>2 DEF reached
  <2>5. skipTo' = skipTo /\ SkipComes(n)' = SkipComes(n)
    BY <1>2 DEF skipTo, SkipComes
  <2>6. ASSUME NEW i \in DOMAIN nt[n].callbacks
        PROVE  MissedAt(n, i)'
    <3>1. PICK t \in Tokens : t = nt[n].callbacks[i].token /\ RealmOf[NotifierOf[t]] = r
      BY <1>4, <1>6
    <3>2. PICK a, h, g, delivers : /\ a = nt[n].callbacks[i] /\ h = heard[t] /\ g = heard'[t] /\ Grows(h, g)
                                   /\ delivers = Delivering(n)
      BY <1>3
    <3>3. MissedAt(n, i)
      BY DEF MissedAll, MissedOf
    <3>4. /\ (v..(last + 1)) \cap Versions \subseteq covered(g)
          /\ {latest + 1} \cap Versions \subseteq g.overtaken
      BY <2>1, <2>2, <3>1, <3>2, OvertakenIs
    <3>5. Accounted(a, h, nt[n].version, delivers, x, v)
      BY <2>2, <2>3, <3>1, <3>2, <3>3 DEF MissedAt
    <3>6. \A y \in Versions : x < y /\ y <= last => y \in covered(g)
      <4>1. \A y \in Versions : x < y /\ y <= last => y \in v..(last + 1)
        BY <2>2, <2>3 DEF Versions
      <4> QED
        BY <3>4, <4>1
    <3>7. Accounted(a, g, nt[n].version, delivers, last, last)
      BY <2>2, <2>3, <3>2, <3>5, <3>6, FurtherAccounted
    <3>8. ASSUME nt[n].has_run, a.skip_next
          PROVE  Skipping(a, g, nt[n].version, delivers, last, skipTo, SkipComes(n))
      <4>1. Skipping(a, h, nt[n].version, delivers, v, skipTo, SkipComes(n))
        BY <2>2, <3>1, <3>2, <3>3, <3>8 DEF MissedAt
      <4>2. skipTo \in Int
        BY Numbers DEF skipTo
      <4>3. skipTo <= last
        BY <2>2, <4>1, <4>2 DEF Skipping
      <4> QED
        BY <3>2, <4>1, <4>3, ToldGrows DEF Skipping
    <3>9. /\ a.skip_next => "suppress" \in Features
          /\ delivers /\ i <= nt[n].index + 1 => a.out = {}
      BY <3>2, <3>3 DEF MissedAt
    <3>10. Accounted(a, g, nt'[n].version, Delivering(n)', reached(n)', readVersion(n)')
      BY <1>2, <2>1, <2>2, <2>4, <3>2, <3>7
    <3>11. nt'[n].has_run /\ a.skip_next =>
             Skipping(a, g, nt'[n].version, Delivering(n)', readVersion(n)', skipTo', SkipComes(n)')
      BY <1>2, <2>1, <2>2, <2>5, <3>2, <3>8
    <3> QED
      BY <1>1, <1>2, <1>6, <2>1, <3>1, <3>2, <3>4, <3>9, <3>10, <3>11 DEF MissedAt
  <2> QED
    BY <1>2, <2>6 DEF MissedOf
<1>7. MissedAll'
  BY <1>5, <1>6 DEF MissedAll
<1> QED
  BY <1>3, <1>7, AllGrows

-----------------------------------------------------------------------------
(* A transaction ends.                                                     *)

\* A callback of the Realm that commits the version w, upon v, and then hears up to z.
CommitsUpon(a, h, g, version, delivers, v, w, z) ==
    /\ Grows(h, g) /\ w = v + 1 /\ version <= v
    /\ Accounted(a, h, version, delivers, v, v)
    /\ z = v \/ (z = w /\ w \in covered(g))

LEMMA CommittedAccounted ==
    ASSUME NEW a, NEW b, NEW ts, MarkedCallback(a, b, ts), NEW h, NEW g, NEW version \in Int,
           NEW delivers, NEW v \in Int, NEW w \in Int, NEW z \in Int,
           CommitsUpon(a, h, g, version, delivers, v, w, z)
    PROVE  /\ Accounted(b, g, version, delivers, z, w)
           /\ w \in covered(g) => Skipping(b, g, version, delivers, w, w, TRUE)
<1> USE DEF CommitsUpon
<1>1. b.acc = a.acc /\ b.out = a.out /\ b.initial_delivered = a.initial_delivered
  BY DEF MarkedCallback
<1>2. \A y \in Versions : v < y /\ y <= w => y = w
  BY DEF Versions
<1>3. v <= w /\ version < w /\ w <= w /\ ~(v < v)
  OBVIOUS
<1>4. \A y \in Versions : v < y /\ y <= z => y \in covered(g)
  <2>1. CASE z = v
    <3>1. \A y \in Versions : ~(v < y /\ y <= v)
      BY DEF Versions
    <3> QED
      BY <2>1, <3>1
  <2>2. CASE z = w /\ w \in covered(g)
    BY <1>2, <2>2
  <2> QED
    BY <2>1, <2>2
<1>5. Accounted(b, g, version, delivers, z, w)
  BY <1>1, <1>3, <1>4, FurtherAccounted
<1>6. ASSUME w \in covered(g)
      PROVE  Skipping(b, g, version, delivers, w, w, TRUE)
  <2>1. \A y \in Versions : v < y /\ y <= w => y \in covered(g)
    BY <1>2, <1>6
  <2>2. Accounted(b, g, version, delivers, w, w)
    BY <1>1, <1>3, <2>1, FurtherAccounted
  <2> QED
    BY <1>3, <2>2 DEF Accounted, Skipping
<1> QED
  BY <1>5, <1>6

\* The callbacks of the tokens ts hear of their own transaction from nobody.
LEMMA OwnedIs ==
    ASSUME TypeInv, NEW r \in Realms, NEW ts, commit_transaction(r, ts), NEW t \in Tokens
    PROVE  /\ Grows(heard[t], heard'[t]) /\ heard'[t].overtaken = heard[t].overtaken
           /\ IF t \in ts THEN latest + 1 \in covered(heard'[t]) ELSE heard'[t] = heard[t]
<1>1. PICK h \in HeardState : h = heard[t]
  BY DEF TypeInv
<1>2. PICK w : w = latest + 1
  OBVIOUS
<1>3. PICK g : g = [h EXCEPT !.own = @ \cup {w}]
  OBVIOUS
<1>4. heard'[t] = IF t \in ts THEN g ELSE h
  BY <1>1, <1>2, <1>3 DEF commit_transaction
<1>5. g.told = h.told /\ g.base = h.base /\ g.got = h.got /\ g.overtaken = h.overtaken /\ g.own = h.own \cup {w}
  BY <1>3 DEF HeardState
<1>6. Grows(h, g) /\ Grows(h, h) /\ w \in covered(g)
  BY <1>5 DEF Grows, covered
<1> QED
  BY <1>1, <1>2, <1>4, <1>5, <1>6

\* Callbacks that are to be skipped are all of one Realm: there is one version to
\* skip, which the next commit of any Realm with a live notifier replaces.
OneRealmSuppresses ==
    "suppress" \in Features => \A m, n \in Notifiers : RealmOf[m] = RealmOf[n]

\* A notifier of another Realm.
LEMMA CommitElsewhereMissed ==
    ASSUME OneRealmSuppresses, TypeInv, Locked, OwnTokens, MissedAll, NEW r \in Realms,
           NEW ts \in SUBSET suppressible(r), commit_transaction(r, ts), NEW n \in Notifiers, RealmOf[n] # r
    PROVE  MissedOf(n)'
<1>1. OnlyOfRealm(r) /\ realm[r].at \in {"write", "write in callback"}
  BY commit_transactionRealm
<1>2. SuppressedAs(nt[n], nt'[n], ts)
  BY SuppressIs DEF commit_transaction, Suppresses
<1>3. ASSUME NEW i \in DOMAIN nt[n].callbacks
      PROVE  nt[n].callbacks[i].token \in Tokens /\ nt[n].callbacks[i].token \notin ts
  <2>1. nt[n].callbacks[i].token \in Tokens /\ NotifierOf[nt[n].callbacks[i].token] = n
    BY CallbackTyped DEF OwnTokens, OwnTokensOf
  <2> QED
    BY <2>1 DEF suppressible
<1>4. StaysAs(nt[n], nt'[n])
  BY <1>2, <1>3 DEF SuppressedAs, SameRuns, MarkedCallback, StaysAs, SameCallback
<1>5. TellsNothing(n)
  BY <1>3, OwnedIs DEF TellsNothing
<1>6. SkipStays(n)
  <2>1. CASE "suppress" \in Features
    <3>1. \A m \in Notifiers : RealmOf[m] # r
      BY <2>1 DEF OneRealmSuppresses
    <3>2. skipVersion' = skipVersion /\ worker' = worker
      BY <3>1 DEF commit_transaction, skipAfter
    <3> QED
      BY <3>2 DEF SkipStays, SkipComes, skipTo
  <2> QED
    BY <2>1 DEF SkipStays
<1>7. WritesOn(n)
  <2>1. RealmOf[n] \in Realms /\ realm'[RealmOf[n]] = realm[RealmOf[n]]
    BY <1>1, RealmOfAssumption DEF OnlyOfRealm
  <2>2. writer = r
    BY <1>1 DEF Locked, LockOf, Writes
  <2>3. realm[RealmOf[n]].at \notin Writes
    BY <2>1, <2>2 DEF Locked, LockOf
  <2> QED
    BY <2>1, <2>3 DEF WritesOn, Writes
<1> QED
  BY <1>1, <1>4, <1>5, <1>6, <1>7, ElsewhereSame, ToldNothingMissed DEF MissedAll

\* A notifier of the Realm that commits: it has run, and waits for nothing.
LEMMA CommitOwnMissed ==
    ASSUME TypeInv, Behind, OwnPackages, Locked, AgreeInv, AliveInv, OwnTokens, MissedAll, NEW r \in Realms,
           NEW ts \in SUBSET suppressible(r), commit_transaction(r, ts), NEW n \in Notifiers, RealmOf[n] = r
    PROVE  MissedOf(n)'
<1>1. PICK v \in Int, w \in Int : v = latest /\ w = v + 1 /\ w \in Versions /\ latest' = w
  <2>1. latest \in Versions /\ latest < MaxVersion /\ latest' = latest + 1
    BY DEF TypeInv, commit_transaction
  <2> QED
    BY <2>1, MaxVersionAssumption DEF Versions
<1>2. /\ OnlyOfRealm(r) /\ realm'[r].version = w /\ realm'[r].package = realm[r].package
      /\ \/ realm[r].at = "write" /\ realm'[r].at = "idle"
         \/ realm[r].at = "write in callback" /\ realm'[r].at = "deliver"
  BY <1>1, commit_transactionRealm
<1>3. realm[r].version = v
  BY <1>1, <1>2 DEF Locked, LockOf
<1>4. readVersion(n) = v /\ readVersion(n)' = w
  BY <1>2, <1>3 DEF readVersion
<1>5. Delivering(n)' = Delivering(n)
  <2>1. realm[r].at = "write" => realm[r].package = {}
    BY DEF OwnPackages, PackageOf
  <2> QED
    BY <1>2, <2>1 DEF Delivering, Calls
<1>6. PICK delivers : delivers = Delivering(n)
  OBVIOUS
<1>7. reached(n) = v
  BY <1>2, <1>4 DEF reached
<1>8. reached(n)' = IF delivers THEN w ELSE v
  <2>1. realm'[RealmOf[n]].at \notin {"deliver in write", "write", "write in callback"}
    BY <1>2
  <2>2. v = w - 1
    BY <1>1
  <2> QED
    BY <1>4, <1>5, <1>6, <2>1, <2>2 DEF reached
<1>9. realm[r].at = "write" => ~delivers
  BY <1>6 DEF OwnPackages, PackageOf, Delivering
<1>10. PICK c, d : c \in CollectionNotifier /\ c = nt[n] /\ d = nt'[n] /\ SuppressedAs(c, d, ts)
  BY SuppressIs DEF commit_transaction, Suppresses, TypeInv, Typed
<1>11. PICK version \in Int : version = c.version /\ version <= v
  BY <1>1, <1>10, Numbers DEF Behind
<1>12. d.version = version /\ d.has_run = c.has_run /\ d.index = c.index
       /\ DOMAIN d.callbacks = DOMAIN c.callbacks
  BY <1>10, <1>11 DEF SuppressedAs, SameRuns
<1>13. w # 0
  BY <1>1 DEF Versions
<1>14. ASSUME NEW i \in DOMAIN c.callbacks, c.has_run
       PROVE  skipTo' = w /\ SkipComes(n)'
  <2>1. have_callbacks(c)
    BY <1>10, <1>14, HasCallbacks
  <2>2. c.alive
    BY <1>10, <2>1 DEF AliveInv, AliveOf
  <2>3. c.stage = "live"
    BY <1>10, <1>14, <2>2, LiveWhenPackable DEF can_package
  <2>4. skipVersion' = w
    BY <1>1, <1>10, <2>2, <2>3 DEF commit_transaction, skipAfter
  <2> QED
    BY <1>13, <2>4 DEF skipTo, SkipComes
<1>15. ASSUME NEW i \in DOMAIN d.callbacks
       PROVE  MissedAt(n, i)'
  <2>1. PICK t \in Tokens : t = c.callbacks[i].token
    BY <1>10, <1>12, <1>15, CallbackTyped
  <2>2. PICK a, b, h, g : /\ a = c.callbacks[i] /\ b = d.callbacks[i] /\ h = heard[t] /\ g = heard'[t]
                          /\ MarkedCallback(a, b, ts) /\ a.token = t /\ b.token = t
    BY <1>10, <1>12, <1>15, <2>1 DEF SuppressedAs, MarkedCallback
  <2>3. MissedAt(n, i)
    BY <1>10, <1>12, <1>15 DEF MissedAll, MissedOf
  <2>4. /\ Accounted(a, h, version, delivers, v, v)
        /\ a.skip_next => "suppress" \in Features
        /\ c.has_run /\ a.skip_next => Skipping(a, h, version, delivers, v, skipTo, SkipComes(n))
        /\ realm[r].at = "write" => version = v
        /\ realm[r].at = "write in callback" => {w} \cap Versions \subseteq h.overtaken
        /\ delivers /\ i <= c.index + 1 => a.out = {}
    BY <1>1, <1>4, <1>6, <1>7, <1>10, <1>11, <2>1, <2>2, <2>3 DEF MissedAt
  <2>5. /\ Grows(h, g) /\ g.overtaken = h.overtaken
        /\ t \in ts => w \in covered(g)
    BY <1>1, <2>2, OwnedIs
  <2>6. realm[r].at = "write in callback" => w \in covered(g)
    BY <1>1, <2>4, <2>5 DEF covered
  <2>7. PICK z \in Int : z = (IF delivers THEN w ELSE v) /\ (z = v \/ (z = w /\ w \in covered(g)))
    BY <1>1, <1>2, <1>9, <2>6
  <2>8. /\ Accounted(b, g, version, delivers, z, w)
        /\ w \in covered(g) => Skipping(b, g, version, delivers, w, w, TRUE)
    <3>1. CommitsUpon(a, h, g, version, delivers, v, w, z)
      BY <1>1, <1>11, <2>4, <2>5, <2>7 DEF CommitsUpon
    <3> QED
      BY <2>2, <3>1, CommittedAccounted
  <2>9. b.skip_next => "suppress" \in Features
    <3>1. a.token \in ts => "suppress" \in Features
      BY DEF suppressible
    <3> QED
      BY <2>2, <2>4, <3>1 DEF MarkedCallback
  <2>10. ASSUME c.has_run, b.skip_next
         PROVE  Skipping(b, g, version, delivers, w, skipTo', SkipComes(n)')
    <3>1. CASE realm[r].at = "write" /\ t \notin ts
      <4>1. a.skip_next
        BY <2>2, <2>10, <3>1 DEF MarkedCallback
      <4>2. version < skipTo /\ skipTo <= v /\ version = v
        BY <2>4, <2>10, <3>1, <4>1 DEF Skipping
      <4>3. skipTo \in Int
        BY Numbers DEF skipTo
      <4> QED
        BY <4>2, <4>3
    <3>2. CASE ~(realm[r].at = "write" /\ t \notin ts)
      <4>1. w \in covered(g)
        BY <1>2, <2>5, <2>6, <3>2
      <4>2. Skipping(b, g, version, delivers, w, w, TRUE)
        BY <2>8, <4>1
      <4>3. skipTo' = w /\ SkipComes(n)'
        BY <1>12, <1>14, <1>15, <2>10
      <4> QED
        BY <4>2, <4>3 DEF Skipping
    <3> QED
      BY <3>1, <3>2
  <2>11. delivers /\ i <= d.index + 1 => b.out = {}
    BY <1>12, <2>2, <2>4 DEF MarkedCallback
  <2>12. Accounted(b, g, nt'[n].version, Delivering(n)', reached(n)', readVersion(n)')
    BY <1>4, <1>5, <1>6, <1>8, <1>10, <1>12, <2>7, <2>8
  <2>13. nt'[n].has_run /\ b.skip_next =>
           Skipping(b, g, nt'[n].version, Delivering(n)', readVersion(n)', skipTo', SkipComes(n)')
    BY <1>4, <1>5, <1>6, <1>10, <1>12, <2>10
  <2> QED
    BY <1>2, <1>5, <1>6, <1>10, <2>2, <2>9, <2>11, <2>12, <2>13 DEF MissedAt
<1> QED
  BY <1>10, <1>15 DEF MissedOf

LEMMA commit_transactionMissed ==
    ASSUME OneRealmSuppresses, TypeInv, Behind, OwnPackages, Locked, AgreeInv, AliveInv, OwnTokens, ToldAll,
           MissedAll, NEW r \in Realms, NEW ts \in SUBSET suppressible(r), commit_transaction(r, ts)
    PROVE  ToldAll' /\ MissedAll'
<1>1. MissedAll'
  BY CommitElsewhereMissed, CommitOwnMissed DEF MissedAll
<1>2. ToldAll'
  BY OwnedIs, AllGrows
<1> QED
  BY <1>1, <1>2

-----------------------------------------------------------------------------
(* Nothing is missed.                                                      *)

\* What a callback is told rests on what waits for it, and on what is waited for.
MissedInv == NotifierInv /\ CountInv /\ Waits /\ ToldAll /\ MissedAll

LEMMA InBetween ==
    ASSUME NEW base \in 0..MaxVersion, NEW told \in 0..MaxVersion, NEW y \in (base + 1)..told
    PROVE  y \in Versions /\ base < y /\ y <= told
  BY MaxVersionAssumption DEF Versions

LEMMA NextMissed ==
    ASSUME NoneAdded, "commit fails" \notin Features, OneRealmSuppresses, MissedInv, [Next]_vars
    PROVE  ToldAll' /\ MissedAll'
<1> USE DEF MissedInv, NotifierInv
<1>1. ASSUME UNCHANGED heard
      PROVE  ToldAll'
  BY <1>1 DEF ToldAll
<1>2. ASSUME NEW n \in Notifiers,
             \/ register_notifier(n) \/ unregister(n)
             \/ \E i \in DOMAIN nt[n].callbacks : remove_callback(n, i - 1)
      PROVE  ToldAll' /\ MissedAll'
  <2>1. UNCHANGED heard
    BY <1>2 DEF register_notifier, unregister, remove_callback
  <2> QED
    BY <1>1, <1>2, <2>1, NotifierStepsMissed
<1>3. ASSUME NEW t \in Tokens, add_callback(t)
      PROVE  ToldAll' /\ MissedAll'
  <2>1. UNCHANGED heard
    BY <1>3 DEF add_callback
  <2> QED
    BY <1>1, <1>3, <2>1, add_callbackMissed
<1>4. CASE workerStep
  <2>1. UNCHANGED heard
    BY <1>4 DEF workerStep, workerTake, workerRunSkip, workerRun, workerHandoverSkip, workerHandover,
                workerSignal, runAll
  <2> QED
    BY <1>1, <1>4, <2>1, WorkerStays, HandoverMissed DEF workerStep
<1>5. CASE otherProcessCommits
  <2>1. UNCHANGED heard
    BY <1>5 DEF otherProcessCommits
  <2> QED
    BY <1>1, <1>5, <2>1, otherProcessCommitsMissed
<1>6. CASE UNCHANGED vars
  <2>1. UNCHANGED heard /\ MissedAll'
    BY <1>6, SelfStays, SkipKept, StaysEverywhere DEF vars
  <2> QED
    BY <1>1, <2>1
<1>7. ASSUME NEW r \in Realms, NEW n \in Notifiers, after_advance(r, n)
      PROVE  ToldAll' /\ MissedAll'
  BY <1>7, CalledMissed, CallsEndedMissed
<1>8. ASSUME NEW r \in Realms, notify(r) \/ refreshed(r) \/ begun(r)
      PROVE  ToldAll' /\ MissedAll'
  <2>1. UNCHANGED heard
    BY <1>8 DEF notify, refreshed, begun
  <2> QED
    BY <1>1, <1>8, <2>1, notifyMissed, WaitedMissed
<1>9. ASSUME NEW r \in Realms, refresh(r) \/ begin_transaction(r) \/ delivered(r) \/ cancel_transaction(r)
      PROVE  ToldAll' /\ MissedAll'
  <2>1. UNCHANGED heard
    BY <1>9 DEF refresh, begin_transaction, delivered, cancel_transaction
  <2> QED
    BY <1>1, <1>9, <2>1, WaitingMissed
<1>10. ASSUME NEW r \in Realms, begin_in_callback(r)
       PROVE  ToldAll' /\ MissedAll'
  BY <1>10, begin_in_callbackMissed
<1>11. ASSUME NEW r \in Realms, NEW ts \in SUBSET suppressible(r), commit_transaction(r, ts)
       PROVE  ToldAll' /\ MissedAll'
  BY <1>11, commit_transactionMissed
<1>12. ASSUME NEW r \in Realms, NEW ts \in SUBSET suppressible(r), commit_fails(r, ts)
       PROVE  ToldAll' /\ MissedAll'
  <2>1. UNCHANGED heard
    BY <1>12 DEF commit_fails
  <2> QED
    BY <1>1, <1>12, <2>1, commit_failsMissed
<1> QED
  BY <1>2, <1>3, <1>4, <1>5, <1>6, <1>7, <1>8, <1>9, <1>10, <1>11, <1>12 DEF Next, realmStep

LEMMA InitMissed ==
    ASSUME Init
    PROVE  Waits /\ ToldAll /\ MissedAll
<1>1. \A r \in Realms : realm[r].at = "idle"
  BY DEF Init
<1>2. \A n \in Notifiers : nt[n].callbacks = <<>>
  BY DEF Init
<1>3. \A t \in Tokens : heard[t].told = 0
  BY DEF Init
<1>4. DOMAIN <<>> = {}
  OBVIOUS
<1>5. Waits
  BY <1>1 DEF Waits, WaitOf
<1>6. ToldAll
  BY <1>3 DEF ToldAll, ToldUpTo
<1>7. MissedAll
  BY <1>2, <1>4 DEF MissedAll, MissedOf
<1> QED
  BY <1>5, <1>6, <1>7

LEMMA MissedAlways ==
    ASSUME NoneAdded, "commit fails" \notin Features, OneRealmSuppresses
    PROVE  Spec => []MissedInv
<1> DEFINE Rest == CountInv /\ Waits /\ ToldAll /\ MissedAll
<1>1. Init => Rest
  BY InitOwnAndCount, InitMissed
<1>2. NotifierInv /\ Rest /\ [Next]_vars => Rest'
  <2> SUFFICES ASSUME MissedInv, [Next]_vars
               PROVE  Rest'
    BY DEF MissedInv
  <2>1. "add in callback" \notin Features
    BY DEF NoneAdded
  <2>2. CountInv'
    BY <2>1, NextCount DEF MissedInv, NotifierInv
  <2>3. Waits'
    BY NextWaits DEF MissedInv, NotifierInv
  <2> QED
    BY <2>2, <2>3, NextMissed
<1>3. NotifierInv /\ Rest => MissedInv
  BY DEF MissedInv
<1> HIDE DEF Rest
<1> QED
  BY <1>1, <1>2, <1>3, NotifierAlways, PTL DEF Spec

\* A callback that was told of a version was told of, or itself skipped, every
\* version since its first call, but for those its Realm overtook by a write begun
\* inside a callback: the worker, packages that are put together, thrown away as
\* out of date or waited for, suppressed and cancelled transactions, lose nothing,
\* in applications that add their callbacks before the collection first runs,
\* whose commits do not fail, and that suppress from one Realm.
THEOREM NothingIsMissed ==
    ASSUME NoneAdded, "commit fails" \notin Features, OneRealmSuppresses
    PROVE  Spec => []NothingMissed
<1>1. ASSUME TypeInv, ToldAll, NEW t \in Tokens, heard[t].told > 0, NEW y \in (heard[t].base + 1)..heard[t].told
      PROVE  y \in heard[t].got \cup heard[t].own \cup heard[t].overtaken
  <2>1. PICK base \in 0..MaxVersion, told \in 0..MaxVersion : base = heard[t].base /\ told = heard[t].told
    <3>1. PICK h \in HeardState : h = heard[t]
      BY <1>1 DEF TypeInv
    <3> QED
      BY <3>1 DEF HeardState
  <2>2. y \in Versions /\ base < y /\ y <= told
    BY <1>1, <2>1, InBetween
  <2>3. ToldUpTo(heard[t], heard[t].told, {})
    BY <1>1 DEF ToldAll
  <2>4. y \in covered(heard[t])
    BY <1>1, <2>1, <2>2, <2>3 DEF ToldUpTo
  <2> QED
    BY <2>4 DEF covered
<1>2. MissedInv => NothingMissed
  BY <1>1 DEF NothingMissed, MissedInv, NotifierInv
<1> QED
  BY <1>2, MissedAlways, PTL
=============================================================================
