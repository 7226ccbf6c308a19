--------------------------- MODULE NotifierProofs ---------------------------
(***************************************************************************)
(* The notifiers a package is made of are at one version, for any number of *)
(* Realms, notifiers, callbacks and writers.                               *)
(***************************************************************************)
EXTENDS Notifier, TLAPS

Fields == {"stage", "alive", "has_run", "version", "rows", "changes", "handover", "delivered",
           "wanted", "callbacks", "index", "count"}

IsNotifier(c) == c = [f \in Fields |-> c[f]]

IsTable(ns) == ns = [n \in Notifiers |-> ns[n]] /\ \A n \in Notifiers : IsNotifier(ns[n])

\* What the agreement depends on is left alone.
Alike(c, d) ==
    /\ IsNotifier(d)
    /\ d.stage = c.stage /\ (d.alive => c.alive) /\ d.has_run = c.has_run /\ d.version = c.version

AllAlike(ns) == IsTable(ns) /\ \A n \in Notifiers : Alike(nt[n], ns[n])

\* While the worker runs, the registered notifiers are the ones it took.
WorkerTook ==
    /\ worker.at \in {"idle", "skip", "skipped", "run", "ran", "signal"}
    /\ worker.at \in {"skip", "skipped", "run", "ran"} =>
        \A n \in Notifiers :
            /\ nt[n].stage = "live" => n \in worker.old \cup worker.new
            /\ n \in worker.old \cup worker.new => nt[n].stage \notin {"none", "new"}
    /\ worker.at \in {"skip", "skipped"} =>
        \A n \in Notifiers : n \in worker.new => ~nt[n].has_run

\* A notifier has not run before the worker first takes it.
NewHaveNotRun == \A n \in Notifiers : nt[n].stage \in {"none", "new"} => ~nt[n].has_run

IsWorker == worker = [f \in {"at", "version", "skip", "old", "new"} |-> worker[f]]

AgreeInv == IsTable(nt) /\ IsWorker /\ WorkerTook /\ NewHaveNotRun /\ NotifiersAgree

-----------------------------------------------------------------------------
(* The operators on one notifier.                                          *)

LEMMA RunAlike ==
    ASSUME NEW c, IsNotifier(c), NEW v
    PROVE  Alike(c, run(c, v))
  BY DEF IsNotifier, Alike, run, Fields

LEMMA PackageAlike ==
    ASSUME NEW c, IsNotifier(c)
    PROVE  Alike(c, package_for_delivery(c))
  BY DEF IsNotifier, Alike, package_for_delivery, Fields

LEMMA HandedOver ==
    ASSUME NEW c, IsNotifier(c), NEW v
    PROVE  LET d == prepare_handover(c, v)
           IN  /\ IsNotifier(d) /\ d.stage = c.stage /\ d.alive = c.alive
               /\ d.has_run = TRUE /\ d.version = v
  BY DEF IsNotifier, prepare_handover, Fields

LEMMA DeliveredAlike ==
    ASSUME NEW c, IsNotifier(c), NEW used
    PROVE  Alike(c, delivered_with(c, used))
<1>1. Alike(c, package_for_delivery(c))
  BY PackageAlike
<1> DEFINE p == package_for_delivery(c)
<1> HIDE DEF p
<1>2. ASSUME NEW w
      PROVE  Alike(c, [p EXCEPT !.wanted = w, !.delivered = TRUE])
  BY <1>1 DEF Alike, IsNotifier, Fields, p
<1> QED
  BY <1>1, <1>2 DEF delivered_with, p

-----------------------------------------------------------------------------
(* Steps that leave the agreement alone.                                   *)

LEMMA AlikeAgree ==
    ASSUME AgreeInv, AllAlike(nt'), UNCHANGED worker
    PROVE  AgreeInv'
<1> USE DEF AgreeInv, IsWorker, AllAlike, Alike
<1>1. WorkerTook'
  BY DEF WorkerTook
<1>2. NewHaveNotRun'
  BY DEF NewHaveNotRun
<1>3. NotifiersAgree'
  BY DEF NotifiersAgree, can_package
<1> QED
  BY <1>1, <1>2, <1>3

LEMMA Unchanged ==
    ASSUME IsTable(nt), nt' = nt
    PROVE  AllAlike(nt')
  BY DEF AllAlike, Alike, IsTable

\* The notifiers after a function is applied to some of them.
LEMMA Mapped ==
    ASSUME IsTable(nt), NEW ms, ms = [n \in Notifiers |-> ms[n]],
           \A n \in Notifiers : Alike(nt[n], ms[n])
    PROVE  AllAlike(ms)
  BY DEF AllAlike, Alike, IsTable

LEMMA PackagedAlike ==
    ASSUME IsTable(nt), NEW ns
    PROVE  AllAlike(packaged(ns))
<1>1. \A n \in Notifiers : Alike(nt[n], nt[n])
  BY DEF IsTable, Alike
<1>2. \A n \in Notifiers : Alike(nt[n], packaged(ns)[n])
  BY <1>1, PackageAlike DEF IsTable, packaged
<1> QED
  BY <1>2, Mapped DEF packaged

LEMMA PackagedAndDeliveredAlike ==
    ASSUME IsTable(nt), NEW ns, packagedAndDelivered(ns)
    PROVE  AllAlike(nt')
<1>1. \A n \in Notifiers : Alike(nt[n], nt[n])
  BY DEF IsTable, Alike
<1>2. PICK used : nt' = [n \in Notifiers |-> IF n \in ns THEN delivered_with(nt[n], used) ELSE nt[n]]
  BY DEF packagedAndDelivered
<1>3. \A n \in Notifiers : Alike(nt[n], nt'[n])
  BY <1>1, <1>2, DeliveredAlike DEF IsTable
<1> QED
  BY <1>2, <1>3, Mapped

LEMMA SuppressedAlike ==
    ASSUME IsTable(nt), NEW ts
    PROVE  AllAlike(suppressed(ts))
<1>1. ASSUME NEW n \in Notifiers, NEW cbs
      PROVE  Alike(nt[n], [nt[n] EXCEPT !.callbacks = cbs])
  BY DEF IsTable, IsNotifier, Alike, Fields
<1>2. \A n \in Notifiers : Alike(nt[n], suppressed(ts)[n])
  BY <1>1 DEF suppressed
<1> QED
  BY <1>2, Mapped DEF suppressed

\* One notifier is replaced.
LEMMA OneReplaced ==
    ASSUME IsTable(nt), NEW n \in Notifiers, NEW c, Alike(nt[n], c)
    PROVE  AllAlike([nt EXCEPT ![n] = c])
<1>1. \A m \in Notifiers : Alike(nt[m], nt[m])
  BY DEF IsTable, Alike
<1> QED
  BY <1>1 DEF IsTable, AllAlike, Alike

LEMMA add_callbackAlike ==
    ASSUME IsTable(nt), NEW t \in Tokens, add_callback(t)
    PROVE  AllAlike(nt')
<1>1. PICK n \in Notifiers : n = NotifierOf[t]
  BY NotifierOfAssumption
<1>2. PICK cbs : nt' = [nt EXCEPT ![n].callbacks = cbs]
  BY <1>1 DEF add_callback
<1>3. Alike(nt[n], [nt[n] EXCEPT !.callbacks = cbs])
  BY DEF IsTable, IsNotifier, Alike, Fields
<1> QED
  BY <1>2, <1>3, OneReplaced

LEMMA remove_callbackAlike ==
    ASSUME IsTable(nt), NEW n \in Notifiers, NEW idx, remove_callback(n, idx)
    PROVE  AllAlike(nt')
<1>1. PICK cbs, i, k :
        nt' = [nt EXCEPT ![n] = [nt[n] EXCEPT !.callbacks = cbs, !.index = i, !.count = k]]
  BY DEF remove_callback, IsTable
<1>2. Alike(nt[n], [nt[n] EXCEPT !.callbacks = cbs, !.index = i, !.count = k])
  BY DEF IsTable, IsNotifier, Alike, Fields
<1> QED
  BY <1>1, <1>2, OneReplaced

LEMMA unregisterAlike ==
    ASSUME IsTable(nt), NEW n \in Notifiers, unregister(n)
    PROVE  AllAlike(nt')
<1>1. Alike(nt[n], [nt[n] EXCEPT !.alive = FALSE])
  BY DEF IsTable, IsNotifier, Alike, Fields
<1> QED
  BY <1>1, OneReplaced DEF unregister

LEMMA FieldsAlike ==
    ASSUME NEW f, AllAlike(f), NEW n \in Notifiers, NEW k, NEW x
    PROVE  /\ AllAlike([f EXCEPT ![n].index = x])
           /\ AllAlike([f EXCEPT ![n].count = x])
           /\ AllAlike([f EXCEPT ![n].callbacks[k].initial_delivered = x])
           /\ AllAlike([f EXCEPT ![n].callbacks[k].out = x])
<1>1. ASSUME NEW c, Alike(nt[n], c)
      PROVE  AllAlike([f EXCEPT ![n] = c])
  BY <1>1 DEF AllAlike, IsTable, Alike
<1>2. Alike(nt[n], [f[n] EXCEPT !.index = x]) /\ Alike(nt[n], [f[n] EXCEPT !.count = x])
  BY DEF AllAlike, IsTable, Alike, IsNotifier, Fields
<1>3. ASSUME NEW cbs
      PROVE  Alike(nt[n], [f[n] EXCEPT !.callbacks = cbs])
  BY DEF AllAlike, IsTable, Alike, IsNotifier, Fields
<1>4. AllAlike([f EXCEPT ![n] = [f[n] EXCEPT !.index = x]])
      /\ AllAlike([f EXCEPT ![n] = [f[n] EXCEPT !.count = x]])
  BY <1>1, <1>2
<1>5. ASSUME NEW cbs
      PROVE  AllAlike([f EXCEPT ![n] = [f[n] EXCEPT !.callbacks = cbs]])
  BY <1>1, <1>3
<1>6. PICK c1, c2 : /\ c1 = [f[n].callbacks EXCEPT ![k].initial_delivered = x]
                    /\ c2 = [f[n].callbacks EXCEPT ![k].out = x]
  OBVIOUS
<1>7. /\ [f EXCEPT ![n] = [f[n] EXCEPT !.callbacks = c1]]
             = [f EXCEPT ![n].callbacks[k].initial_delivered = x]
      /\ [f EXCEPT ![n] = [f[n] EXCEPT !.callbacks = c2]]
             = [f EXCEPT ![n].callbacks[k].out = x]
  BY <1>6
<1> QED
  BY <1>4, <1>5, <1>7

LEMMA after_advanceAlike ==
    ASSUME IsTable(nt), NEW r \in Realms, NEW n \in Notifiers, after_advance(r, n)
    PROVE  AllAlike(nt')
<1>1. AllAlike(nt)
  BY DEF AllAlike, IsTable, Alike
<1>2. PICK i : i = nt[n].index + 1
  OBVIOUS
<1>3. CASE i < nt[n].count
  <2>1. nt' = [nt EXCEPT ![n].index = i,
                         ![n].callbacks[i + 1].initial_delivered = TRUE,
                         ![n].callbacks[i + 1].out = {}]
    BY <1>2, <1>3 DEF after_advance
  <2>2. PICK f : f = [nt EXCEPT ![n].index = i]
    OBVIOUS
  <2>3. PICK g : g = [f EXCEPT ![n].callbacks[i + 1].initial_delivered = TRUE]
    OBVIOUS
  <2>4. PICK h : h = [g EXCEPT ![n].callbacks[i + 1].out = {}]
    OBVIOUS
  <2>5. AllAlike(f)
    BY <1>1, <2>2, FieldsAlike
  <2>6. AllAlike(g)
    BY <2>3, <2>5, FieldsAlike
  <2>7. AllAlike(h)
    BY <2>4, <2>6, FieldsAlike
  <2>8. nt' = h
    BY <2>1, <2>2, <2>3, <2>4
  <2> QED
    BY <2>7, <2>8
<1>4. CASE ~(i < nt[n].count)
  <2>1. nt' = [nt EXCEPT ![n].index = npos, ![n].count = 0]
    BY <1>2, <1>4 DEF after_advance
  <2>2. PICK f : f = [nt EXCEPT ![n].index = npos]
    OBVIOUS
  <2>3. PICK g : g = [f EXCEPT ![n].count = 0]
    OBVIOUS
  <2>4. AllAlike(f)
    BY <1>1, <2>2, FieldsAlike
  <2>5. AllAlike(g)
    BY <2>3, <2>4, FieldsAlike
  <2>6. nt' = g
    BY <2>1, <2>2, <2>3
  <2> QED
    BY <2>5, <2>6
<1> QED
  BY <1>3, <1>4

-----------------------------------------------------------------------------
(* Registering, and the worker.                                            *)

LEMMA register_notifierAgrees ==
    ASSUME AgreeInv, NEW n \in Notifiers, register_notifier(n)
    PROVE  AgreeInv'
<1>1. PICK v : nt' = [nt EXCEPT ![n] = [nt[n] EXCEPT !.stage = "new", !.alive = TRUE, !.version = v]]
  BY DEF register_notifier, AgreeInv, IsTable
<1>2. PICK c : c = [nt[n] EXCEPT !.stage = "new", !.alive = TRUE, !.version = v]
  OBVIOUS
<1>3. IsNotifier(c) /\ c.stage = "new" /\ c.has_run = nt[n].has_run
  BY <1>2 DEF AgreeInv, IsTable, IsNotifier, Fields
<1>4. nt' = [nt EXCEPT ![n] = c] /\ nt[n].stage = "none" /\ ~c.has_run /\ UNCHANGED worker
  BY <1>1, <1>2, <1>3 DEF register_notifier, AgreeInv, NewHaveNotRun
<1>5. IsTable(nt')
  BY <1>3, <1>4 DEF AgreeInv, IsTable
<1>6. NewHaveNotRun'
  BY <1>3, <1>4 DEF AgreeInv, IsTable, NewHaveNotRun
<1>7. WorkerTook'
  BY <1>3, <1>4 DEF AgreeInv, IsTable, WorkerTook
<1>8. NotifiersAgree'
  BY <1>3, <1>4 DEF AgreeInv, IsTable, NotifiersAgree, can_package
<1> QED
  BY <1>4, <1>5, <1>6, <1>7, <1>8 DEF AgreeInv, IsWorker

\* Those that are dead are gone; nothing else changes.
LEMMA CleanedUp ==
    ASSUME NEW ns, IsTable(ns)
    PROVE  /\ IsTable(clean_up_dead(ns))
           /\ \A n \in Notifiers :
                LET c == clean_up_dead(ns)[n] IN
                /\ c.stage = ns[n].stage \/ (ns[n].stage \in {"new", "live"} /\ c.stage = "gone")
                /\ c.alive = ns[n].alive /\ c.has_run = ns[n].has_run /\ c.version = ns[n].version
<1>1. ASSUME NEW n \in Notifiers
      PROVE  LET d == [ns[n] EXCEPT !.stage = "gone"]
             IN  /\ IsNotifier(d) /\ d.stage = "gone" /\ d.alive = ns[n].alive
                 /\ d.has_run = ns[n].has_run /\ d.version = ns[n].version
  BY DEF IsTable, IsNotifier, Fields
<1> QED
  BY <1>1 DEF IsTable, clean_up_dead

\* The notifiers of the first stage join the others, which have not changed.
LEMMA workerTakeAgrees ==
    ASSUME AgreeInv, workerTake
    PROVE  AgreeInv'
<1>1. PICK ns : ns = clean_up_dead(nt)
  OBVIOUS
<1>2. IsTable(ns)
  BY <1>1, CleanedUp DEF AgreeInv
<1>3. \A n \in Notifiers :
        /\ ns[n].stage = nt[n].stage \/ (nt[n].stage \in {"new", "live"} /\ ns[n].stage = "gone")
        /\ ns[n].alive = nt[n].alive /\ ns[n].has_run = nt[n].has_run /\ ns[n].version = nt[n].version
  BY <1>1, CleanedUp DEF AgreeInv
<1>4. nt' = [n \in Notifiers |-> IF ns[n].stage = "new" THEN [ns[n] EXCEPT !.stage = "live"] ELSE ns[n]]
  BY <1>1 DEF workerTake
<1>5. ASSUME NEW n \in Notifiers
      PROVE  LET d == [ns[n] EXCEPT !.stage = "live"]
             IN  /\ IsNotifier(d) /\ d.stage = "live" /\ d.alive = ns[n].alive
                 /\ d.has_run = ns[n].has_run /\ d.version = ns[n].version
  BY <1>2 DEF IsTable, IsNotifier, Fields
<1>6. IsTable(nt')
  BY <1>2, <1>4, <1>5 DEF IsTable
<1>7. \A n \in Notifiers :
        /\ nt'[n].stage = IF ns[n].stage = "new" THEN "live" ELSE ns[n].stage
        /\ nt'[n].alive = nt[n].alive /\ nt'[n].has_run = nt[n].has_run
        /\ nt'[n].version = nt[n].version
  BY <1>3, <1>4, <1>5
<1>8. NewHaveNotRun'
  BY <1>3, <1>7 DEF AgreeInv, NewHaveNotRun
<1>9. NotifiersAgree'
  BY <1>3, <1>7 DEF AgreeInv, NewHaveNotRun, NotifiersAgree, can_package
<1>10. WorkerTook' /\ IsWorker'
  <2>1. PICK old, new : old = listed(ns, "live") /\ new = listed(ns, "new")
    OBVIOUS
  <2>2. CASE old \cup new = {}
    <3>1. worker' = [worker EXCEPT !.at = "signal"]
      BY <1>1, <2>1, <2>2 DEF workerTake
    <3> QED
      BY <3>1 DEF WorkerTook, AgreeInv, IsWorker
  <2>3. CASE old \cup new # {}
    <3>1. PICK at, v, s : /\ worker' = [at |-> at, version |-> v, skip |-> s, old |-> old, new |-> new]
                          /\ at \in {"skip", "run"}
      BY <1>1, <2>1, <2>3 DEF workerTake
    <3>2. \A n \in Notifiers : nt'[n].stage = "live" => n \in old \cup new
      BY <1>7, <2>1 DEF listed
    <3>3. \A n \in Notifiers : n \in old \cup new => nt'[n].stage = "live"
      BY <1>7, <2>1 DEF listed
    <3>4. \A n \in Notifiers : n \in new => ~nt'[n].has_run
      BY <1>3, <1>7, <2>1 DEF listed, AgreeInv, NewHaveNotRun
    <3> QED
      BY <3>1, <3>2, <3>3, <3>4 DEF WorkerTook, IsWorker
  <2> QED
    BY <2>2, <2>3
<1> QED
  BY <1>6, <1>8, <1>9, <1>10 DEF AgreeInv

\* A step of the worker that leaves the notifiers alike.
LEMMA WorkerAlike ==
    ASSUME AgreeInv, AllAlike(nt'), NEW at, worker' = [worker EXCEPT !.at = at],
           \/ worker.at = "skip" /\ at = "skipped"
           \/ worker.at = "run" /\ at = "ran"
    PROVE  AgreeInv'
<1>1. /\ worker'.old = worker.old /\ worker'.new = worker.new /\ worker'.at = at
      /\ IsWorker'
  BY DEF AgreeInv, IsWorker
<1> USE DEF AgreeInv, AllAlike, Alike
<1>2. WorkerTook'
  BY <1>1 DEF WorkerTook
<1>3. NewHaveNotRun'
  BY DEF NewHaveNotRun
<1>4. NotifiersAgree'
  BY DEF NotifiersAgree, can_package
<1> QED
  BY <1>1, <1>2, <1>3, <1>4

LEMMA runAllAgrees ==
    ASSUME AgreeInv, NEW ns, NEW v, NEW at, runAll(ns, v, at),
           \/ worker.at = "skip" /\ at = "skipped"
           \/ worker.at = "run" /\ at = "ran"
    PROVE  AgreeInv'
<1>1. nt' = [n \in Notifiers |-> IF n \in ns THEN run(nt[n], v) ELSE nt[n]]
  BY DEF runAll
<1>2. \A n \in Notifiers : Alike(nt[n], nt[n])
  BY DEF AgreeInv, IsTable, Alike
<1>3. \A n \in Notifiers : Alike(nt[n], nt'[n])
  BY <1>1, <1>2, RunAlike DEF AgreeInv, IsTable
<1>4. AllAlike(nt')
  BY <1>1, <1>3, Mapped DEF AgreeInv
<1> QED
  BY <1>4, WorkerAlike DEF runAll

LEMMA workerHandoverSkipAgrees ==
    ASSUME AgreeInv, workerHandoverSkip
    PROVE  AgreeInv'
<1>1. nt' = [n \in Notifiers |-> IF n \in worker.old THEN prepare_handover(nt[n], worker.skip) ELSE nt[n]]
  BY DEF workerHandoverSkip, handedOver
<1>2. \A n \in Notifiers :
        /\ IsNotifier(nt'[n]) /\ nt'[n].stage = nt[n].stage /\ nt'[n].alive = nt[n].alive
        /\ IF n \in worker.old THEN nt'[n].has_run /\ nt'[n].version = worker.skip
           ELSE nt'[n].has_run = nt[n].has_run /\ nt'[n].version = nt[n].version
  BY <1>1, HandedOver DEF AgreeInv, IsTable
<1>3. IsTable(nt')
  BY <1>1, <1>2 DEF IsTable
<1>4. /\ worker.at = "skipped"
      /\ worker'.old = worker.old /\ worker'.new = worker.new /\ worker'.at = "run"
      /\ IsWorker'
  BY DEF workerHandoverSkip, AgreeInv, IsWorker
<1>5. NewHaveNotRun'
  BY <1>2, <1>4 DEF AgreeInv, WorkerTook, NewHaveNotRun
<1>6. WorkerTook'
  BY <1>2, <1>4 DEF AgreeInv, WorkerTook
<1>7. NotifiersAgree'
  BY <1>2, <1>4 DEF AgreeInv, WorkerTook, NotifiersAgree, can_package
<1> QED
  BY <1>3, <1>4, <1>5, <1>6, <1>7 DEF AgreeInv

\* All the worker took, hence all that are listed, end at one version.
LEMMA workerHandoverAgrees ==
    ASSUME AgreeInv, workerHandover
    PROVE  AgreeInv'
<1>1. PICK took : took = worker.old \cup worker.new
  OBVIOUS
<1>2. PICK v : v = worker.version
  OBVIOUS
<1>3. PICK ns : ns = [n \in Notifiers |-> IF n \in took THEN prepare_handover(nt[n], v) ELSE nt[n]]
  OBVIOUS
<1>4. \A n \in Notifiers :
        /\ IsNotifier(ns[n]) /\ ns[n].stage = nt[n].stage /\ ns[n].alive = nt[n].alive
        /\ IF n \in took THEN ns[n].has_run /\ ns[n].version = v
           ELSE ns[n].has_run = nt[n].has_run /\ ns[n].version = nt[n].version
  BY <1>3, HandedOver DEF AgreeInv, IsTable
<1>5. IsTable(ns)
  BY <1>3, <1>4 DEF IsTable
<1>6. nt' = clean_up_dead(ns)
  BY <1>1, <1>2, <1>3 DEF workerHandover, handedOver
<1>7. IsTable(nt')
      /\ \A n \in Notifiers :
            /\ nt'[n].stage = ns[n].stage \/ (ns[n].stage \in {"new", "live"} /\ nt'[n].stage = "gone")
            /\ nt'[n].alive = ns[n].alive /\ nt'[n].has_run = ns[n].has_run
            /\ nt'[n].version = ns[n].version
  BY <1>5, <1>6, CleanedUp
<1>8. /\ \A n \in Notifiers : nt[n].stage = "live" => n \in took
      /\ \A n \in Notifiers : n \in took => nt[n].stage \notin {"none", "new"}
  BY <1>1 DEF AgreeInv, WorkerTook, workerHandover
<1>9. WorkerTook' /\ IsWorker'
  BY DEF workerHandover, AgreeInv, IsWorker, WorkerTook
<1>10. NewHaveNotRun'
  BY <1>4, <1>7, <1>8 DEF AgreeInv, NewHaveNotRun
<1>11. NotifiersAgree'
  BY <1>4, <1>7, <1>8 DEF NotifiersAgree, can_package
<1> QED
  BY <1>7, <1>9, <1>10, <1>11 DEF AgreeInv

LEMMA workerSignalAgrees ==
    ASSUME AgreeInv, workerSignal
    PROVE  AgreeInv'
  BY DEF AgreeInv, workerSignal, IsTable, IsNotifier, IsWorker, WorkerTook, NewHaveNotRun,
         NotifiersAgree, can_package

LEMMA WorkerAgrees ==
    ASSUME AgreeInv, workerStep
    PROVE  AgreeInv'
  BY workerTakeAgrees, runAllAgrees, workerHandoverSkipAgrees, workerHandoverAgrees,
     workerSignalAgrees
     DEF workerStep, workerRunSkip, workerRun

-----------------------------------------------------------------------------
(* Realms, and the specification.                                          *)

LEMMA notifyAlike ==
    ASSUME IsTable(nt), NEW r \in Realms, notify(r)
    PROVE  AllAlike(nt')
  BY Unchanged, PackagedAlike, PackagedAndDeliveredAlike DEF notify

LEMMA RealmAgrees ==
    ASSUME AgreeInv, NEW r \in Realms, realmStep(r)
    PROVE  AgreeInv'
<1>1. CASE notify(r)
  BY <1>1, notifyAlike, AlikeAgree DEF notify, AgreeInv
<1>2. CASE refreshed(r)
  BY <1>2, PackagedAndDeliveredAlike, AlikeAgree DEF refreshed, AgreeInv
<1>3. CASE begun(r)
  BY <1>3, PackagedAlike, AlikeAgree DEF begun, AgreeInv
<1>4. CASE delivered(r)
  BY <1>4, Unchanged, AlikeAgree DEF delivered, AgreeInv
<1>5. CASE \E n \in Notifiers : after_advance(r, n)
  BY <1>5, after_advanceAlike, AlikeAgree DEF after_advance, AgreeInv
<1> QED
  BY <1>1, <1>2, <1>3, <1>4, <1>5 DEF realmStep

LEMMA WritingAgrees ==
    ASSUME AgreeInv, NEW r \in Realms,
           \/ refresh(r) \/ begin_transaction(r) \/ begin_in_callback(r) \/ cancel_transaction(r)
           \/ \E ts \in SUBSET suppressible(r) : commit_transaction(r, ts) \/ commit_fails(r, ts)
    PROVE  AgreeInv'
<1>1. CASE refresh(r) \/ begin_transaction(r) \/ begin_in_callback(r) \/ cancel_transaction(r)
  BY <1>1, Unchanged, AlikeAgree
     DEF refresh, begin_transaction, begin_in_callback, cancel_transaction, AgreeInv
<1>2. CASE \E ts \in SUBSET suppressible(r) : commit_transaction(r, ts) \/ commit_fails(r, ts)
  BY <1>2, SuppressedAlike, AlikeAgree DEF commit_transaction, commit_fails, AgreeInv
<1> QED
  BY <1>1, <1>2

LEMMA InitAgrees ==
    ASSUME Init
    PROVE  AgreeInv
<1>1. IsTable(nt) /\ IsWorker
  BY DEF Init, IsTable, IsNotifier, Fields, IsWorker
<1> QED
  BY <1>1 DEF Init, AgreeInv, WorkerTook, NewHaveNotRun, NotifiersAgree, can_package

LEMMA NextAgrees ==
    ASSUME AgreeInv, [Next]_vars
    PROVE  AgreeInv'
<1>1. CASE \E n \in Notifiers : register_notifier(n)
  BY <1>1, register_notifierAgrees
<1>2. CASE \E n \in Notifiers : unregister(n)
  BY <1>2, unregisterAlike, AlikeAgree DEF unregister, AgreeInv
<1>3. CASE \E t \in Tokens : add_callback(t)
  BY <1>3, add_callbackAlike, AlikeAgree DEF add_callback, AgreeInv
<1>4. CASE \E n \in Notifiers : \E i \in DOMAIN nt[n].callbacks : remove_callback(n, i - 1)
  BY <1>4, remove_callbackAlike, AlikeAgree DEF remove_callback, AgreeInv
<1>5. CASE workerStep
  BY <1>5, WorkerAgrees
<1>6. CASE otherProcessCommits
  BY <1>6, Unchanged, AlikeAgree DEF otherProcessCommits, AgreeInv
<1>7. CASE \E r \in Realms : realmStep(r)
  BY <1>7, RealmAgrees
<1>8. CASE \E r \in Realms :
              \/ refresh(r) \/ begin_transaction(r) \/ begin_in_callback(r) \/ cancel_transaction(r)
              \/ \E ts \in SUBSET suppressible(r) : commit_transaction(r, ts) \/ commit_fails(r, ts)
  BY <1>8, WritingAgrees
<1>9. CASE UNCHANGED vars
  BY <1>9, Unchanged, AlikeAgree DEF vars, AgreeInv
<1> QED
  BY <1>1, <1>2, <1>3, <1>4, <1>5, <1>6, <1>7, <1>8, <1>9 DEF Next

\* A package has one version whichever of its notifiers it is read from, as
\* NotifierPackage::package_and_wait reads it from the last.
THEOREM OneVersionPerPackage == Spec => []NotifiersAgree
<1>1. Init => AgreeInv
  BY InitAgrees
<1>2. AgreeInv /\ [Next]_vars => AgreeInv'
  BY NextAgrees
<1>3. AgreeInv => NotifiersAgree
  BY DEF AgreeInv
<1> QED
  BY <1>1, <1>2, <1>3, PTL DEF Spec
=============================================================================
