# Verification of reactive-mobile-demo

reactive-mobile-demo is an iOS application in which people post short
*thoughts* and see those of others, and the Rails server behind it. The
application (`src/reactive-mobile-demo/reactive-mobile-demo/`, Swift) keeps its
state in a ReSwift store and in a local Realm database, and talks to the server
(`src/server/`) through Siesta. This directory holds TLA+ specifications of
both, TLC configurations that check them on small instances, and TLAPS proofs
for instances of any size.

## 1. The system and its parts

| Part | State | Operations | Talks to |
|---|---|---|---|
| Session: `AuthActions`, `AuthReducer`, `MainReducer`, `AuthState`, `Store` | `loading`, `authError`, `currentUserId`; Realm's `User` table | sign in, sign up, their two outcomes, log out, load at launch | server by `API.auth`; subscribers of the store |
| Thought thunks: `ThoughtActions` | Realm's `Thought` table; requests and retries in flight | fetch and store the answer, create, retry after 5 s | server by `API`; session for token and user |
| Models: `AppModel`, `User`, `Thought` | the two tables | `save` (insert or update by primary key), `find` | Realm |
| Polling: `ThoughtsSyncService`, `AppDelegate` | the timer | start, fire, invalidate | store (subscriber), fetch thunk |
| Sign-in screen: `AuthViewController` | subscription, alert, segue | buttons, `newState`, `viewDidAppear`, unwind | store (subscriber), UIKit |
| Feed: `ThoughtsObserver`, `ThoughtsReducer`, `ThoughtsState`, `ThoughtsViewController` | notification token, `loadedThoughtsPayload`, rows of the table view | notification, batch update, post | Realm notifications, store |
| Server users: `UsersController`, `AuthenticateUser`, `User`, schema | `users` table with a unique index | create, authenticate | PostgreSQL |
| Server tokens: `JsonWebToken`, `AuthorizeApiRequest`, `ApplicationController` | none: tokens are signed and expire | encode, decode, authenticate_request | `users` table |
| Server thoughts: `ThoughtsController`, `Thought` | `thoughts` table | create, index with filter and limit | PostgreSQL |
| Realm's change notifications (vendored): `RealmCoordinator`, `CollectionNotifier`, `ResultsNotifier`, `Realm` | per notifier: version, callbacks with what waits for each; the pipe; what the worker took | register, add and remove a callback, worker run and hand-over, deliver, refresh, write | the threads of the Realms, the worker, other processes |
| ReSwift, ReSwiftThunk, Siesta, the rest of Realm | vendored under `Pods/` | | |

What is hard about it:

* **Order of answers.** Nothing prevents a second sign-in while one is under
  way, a logout while a fetch is, or a new session while a retry waits. Every
  callback works on the state it finds when it runs.
* **Crashes.** Only Realm survives a kill. Retries do not; a fetched list may be
  stored in part; the session is rebuilt from the first `User` row.
* **Presentation.** UIKit drops a segue or an alert when the controller is not
  on screen or is already presenting, and the store does not repeat a state.
* **Threads of the server.** Puma runs five. A sign-up looks a name up and
  inserts it in two statements, a sign-in looks it up twice.
* **Unreliable delivery.** A create whose answer is lost is posted again, a
  request may be served after the device gave it up, and nothing identifies two
  posts as one. A poll sees only the newest ten rows.
* **Incremental updates.** The table applies the indexes of each change to the
  rows it has, and UIKit raises if they do not lead to the new count. They fit
  only if no change is dropped between two notifications and the table is the one
  the first of them was applied to.
* **Notifications across threads.** Realm computes changes on a background worker
  at versions of its own choosing, hands them over under a lock, and delivers them
  on the thread of each Realm, where callbacks may remove callbacks and write.
* **Uniqueness without a key.** A stored thought gets a fresh uuid, so that
  "once per author and text" rests on look-up-then-save alone.

`PROJECT.json` lists these hazards at their lines, with the properties that
cover each.

What makes each part correct: session and database agree on who is logged in;
polling runs exactly during a session; a thought is stored once; a spinner has a
request behind it; the feed is shown to a logged-in user only; sessions begin
and end only as they should; a post stays its author's; names are unique and
tokens earned on the server; concurrent requests have no effect that requests
one at a time would not have; whatever is begun is answered; a typed thought is
never forgotten, has no more rows than it was typed and failures account for, and
reaches the other devices; the table shows the state, and every batch update fits
it; no change set is lost or told twice, and every callback hears.

## 2. Modules

| Module | What it is |
|---|---|
| `Client` | the application: session, thunks, models, polling, sign-in screen |
| `ClientProofs` | its inductive invariant and theorems |
| `MCClient` | its instances (`MCClient*.cfg`) |
| `Accounts` | abstract: what the server promises about accounts, requests one at a time |
| `Server` | the Rails server, with threads; the mapping to `Accounts` |
| `ServerProofs` | the server's inductive invariant and theorems |
| `AccountsProofs` | the proof that `Server` implements `Accounts` |
| `MCServer` | the server's instances (`MCServer*.cfg`) |
| `System` | devices, network and server together: how a thought gets from one device to another |
| `SystemProofs` | its inductive invariants and theorems |
| `MCSystem` | its instances (`MCSystem*.cfg`) |
| `Feed` | from a row of the local database to a row of the table |
| `FeedProofs` | its inductive invariant and theorems |
| `MCFeed` | its instance |
| `Notifier` | Realm's change notifications: coordinator, worker, notifiers, Realms |
| `NotifierProofs` | the proof that a package has one version |
| `NotifierTypes` | its types, and the index and count of the callbacks being called |
| `NotifierNews` | the proofs that nothing is told twice and nothing is missed |
| `MCNotifier` | its instance |

`Client` and `Server` look inside the two programs, one at a time, with any answer
and any request from outside. `System` joins them with one step per handler.
`Feed` starts where `Client` stops, at the write of a thought, and `Notifier` is
what `Feed` takes for granted: that an observer is told of every change, once and
relative to what it was told before.

Names of actions and operators are those of the source where TLA+ allows it.
Operators such as `find_caseSensitive` and `insertUser_noIndex`, marked *Fault*,
are variants with a bug in them; no specification uses them. They show that each
property can fail (`PROJECT.json`, `mutants`).

### Client

All application code runs on the main thread, so that an action is one run-loop
callback, with everything it dispatches: ReSwift calls reducers and subscribers
synchronously. The exception is the loop over a fetched list. It commits once
per element, the process can die between two commits, and it is therefore one
step per element (`storeNext`); `mainIdle` keeps every other callback out
meanwhile, except that the process may be killed.

| Variable | Code |
|---|---|
| `users`, `thoughts` | Realm's tables: `users` in table order, because `loadAppState` takes the first; of `thoughts`, the number of rows per author and text |
| `auth` | `store.state.authState` |
| `reqs` | what is outstanding: sign-ins, fetches, posts, delayed retries, one per slot |
| `merging` | what the running fetch callback has still to store |
| `timer` | `fetchNewThoughtsTimer` is valid |
| `screen`, `alert` | which controller is on screen or on its way; whether an alert is presented |

A user id stands for the id, the username and the token of a user: the server
gives out ids one to one with lower-cased names. Texts are compared through
`Fold`, which stands for the `[c]` modifier of `Thought.find(by:text:)`.
`dispatchAuth` is `store.dispatch` of an `AuthProgress` with what its two
subscribers then do; a subscriber hears of a state only if it differs from the
one before. (They hear of changes of `thoughtsState` too; the timer then already
is as it should be, and the sign-in screen is not subscribed while the observer
of the feed runs, but for a dismissal under way, when it can present nothing.)
`author` and `fresh` in a request are history: who typed a text, and
whether the session in which it was typed has not been replaced since.

`launch` is a kill at any moment followed by a launch. `canPresent` is UIKit,
modelled from its use: `present` and `performSegue` work only from a controller
that has appeared and presents nothing else.

### Server

A thread is interrupted only at a database statement, so an action is what a
thread does up to and including its next one. The look-up of a sign-up
(`createUser`) and its INSERT (`insertUser`) are separate steps, as are the two
look-ups of a sign-in (`authenticate`, `verify`). Rows are never updated or
deleted by any route, so a repeated look-up that cannot find anything new is
merged with the step it follows. The INSERT succeeds exactly if the unique index
has no such name; an exception nobody rescues becomes 500, a failed validation
422, a missing parameter 400, as Rails answers in production.

A thread's job records where it stands, the request, the user it found and the
answer. `issued` holds the tokens made so far; a request comes with one of
those, expired or not, or with none. `restart` loses the threads and keeps the
tables.

The salt is part of the password. Rows of equal `updated_at` come in any order.
A search is ordered by pg_search's rank, which is modelled as any choice of
matching rows up to the limit.

### Accounts

A set of accounts and the last verdict for each caller. Signing up adds an
account under a name nobody has; signing in needs name and password; a refusal
needs a reason; answers may be lost. `Server` maps its `users` table to the set
of accounts, and a thread to a verdict that is fixed by the thread's *last step on
the users table*: the INSERT for a sign-up, the second look-up for a sign-in, a
look-up that turns the request away. That choice of commit points is the
argument that requests are atomic.

### System

`posts[d][s]` is one `createThoughtAction` with all its retries: *sent* until the
server handles it, then *accepted* or *refused* until the answer arrives, and
*retry* while `asyncAfter` waits. `createThought` is what the button and the retry
have in common: store if absent, send with the token of the moment, or do
nothing without a session. `poll[d]` is the fetch of the timer; the loop that
stores an answer is one step here and several in `Client`. `serveCreate`,
`serveIndex` and `serveLate` are `ThoughtsController#create` and `#index` behind
`authenticate_request`; `newest` is the limit of the query.

`late` holds requests whose device no longer waits for them. `createFails` is any
connection error, before or after the server has acted, and `kill` loses
everything but the database and the saved session. `expire` is the passing of a
token's 24 hours. `typed`, `failed` and `dropped` are history.

### Feed

Everything runs on the main thread; an action is one run-loop callback. `seen` is
the list the notification token was last told of, so that a notification is due
when it differs from the database (`due`). A write transaction first brings its
Realm up to date, which delivers what is due before the write (`notifyThen`): the
notification can come in the middle of an action of the store. `payload` is
`loadedThoughtsPayload`, with the indexes of a change; `batch` is what UIKit makes
of `deleteRows` and `insertRows`, and `batchIsValid` the check in `endUpdates`,
modelled from its use. An invalid update raises: `screen` becomes `"crashed"`.
A subscriber hears of a state only if it differs from the one before (`shown`).

`lateAuthSuccess` is a second sign-in answered while the feed is being dismissed
after a logout. `late` records that it happened.

### Notifier

An action is one section under `m_notifier_mutex`, one stretch of the worker
outside it, or one call of a callback. A change set is the set of the versions
it accounts for; merging two is a union (`add_changes`), and every commit changes
every collection. `nt[n]` holds the fields of a `ResultsNotifier` and its place in
the coordinator's lists (`new`, `live`); of a callback, `acc` is
`accumulated_changes`, `out` is `changes_to_deliver`.

The worker takes the lists (`workerTake`), runs the notifiers up to the transaction
to be skipped, if there is one, and then up to the version it chose (`workerRun`),
handing over after each (`workerHandover`). `run` and `prepare_handover` are apart
because callbacks are added, removed and suppressed between them. `notify` is the
run loop's call, with its branches: a change already read, no notifiers, a
package that is out of date, an advance. `refresh`, `begin_transaction` and what
they wait for are two steps each. `after_advance` is one turn of
`for_each_callback`, so that anything can happen while a callback runs.

`Features` is what the application does, one switch each:

| Feature | Effect |
|---|---|
| `suppress` | commits with `commitWriteTransactionWithoutNotifying` |
| `write in callback` | begins a write inside a callback |
| `leave unused` | does not read a collection after its view was delivered |
| `add in callback` | adds a callback while callbacks are called |
| `add later` | adds a callback to a notifier that has run |
| `commit fails` | a commit with suppressed tokens fails |

The run sets the first three. The others are kept in the model because the code
admits them; with them properties fail in ways the code, or its users, accept:

* `add in callback`: `add_callback` does not wake the worker while callbacks are
  called (`collection_notifier.cpp:190`), so the new one may wait for the next
  commit (`EveryCallbackHears`), and a callback removed after it was added is
  subtracted from a count it was not in (`:212`, `CountIsInside`).
* `add later`: `have_callbacks` is read in `run` and used at the hand-over; a
  callback added between misses a version (`NothingMissed`).
* `commit fails`: the tokens stay marked after the failure and skip another
  version (`RLMRealm.mm:599`, `NothingMissed`).

The application does none of the three. A suppressed write may also be told after
all, when the worker, still busy with an older version, spends the mark
(`collection_notifier.cpp:411`); `NothingMissed` and `PendingIsNews` are unaffected.

## 3. Runs

| Run | Checks | Result |
|---|---|---|
| `client` | the type invariant, six safety invariants and `SessionChangesOnlyByAuth` | hold, about 70,000 states |
| `client_live` | `SpinnerStops`, `EveryPostSettles` | hold, about 1,200 states |
| `client_relaunch` | `RelaunchRestoresUser` | violated: two overlapping sign-ins leave two rows, and a relaunch takes the first |
| `client_flush` | `LoggedOutDatabaseIsEmpty` | violated: a fetch answered after logout stores its thoughts |
| `client_author` | `SentByItsAuthor` | violated: a retry is sent with the next user's token |
| `client_stuck` | `SessionReachesFeed` | violated: the segue is dropped while an alert is shown, and nothing repeats it |
| `server` | `UsernamesUnique`, `TokensAreEarned`, `SignUpsMakeUsers`, `ReferencesResolve`, `RequestsAreAnswered`, refinement of `Accounts` | hold, about 75,000 states |
| `server_duplicate` | `DuplicateGets400` | violated: the loser of a race gets 500 |
| `feed` | `BatchUpdatesFit`, `TableShowsState`, `StateHoldsStoredThoughts`, `ObserverMatchesState`, `StoredThoughtsAreShown` | hold, about 2,200 states |
| `system` | `NothingForgotten`, `RowsAreAccountedFor`, `TypedThoughtIsSeen` | hold, about 440,000 states |
| `system_duplicate` | `OneRowPerThought` | violated: a create whose answer was lost is posted again |
| `notifier` | `NothingMissed`, `PendingIsNews`, `CountIsInside`, `EveryCallbackHears` | hold, about 470,000 states |

The six violations are disagreements between the code and a comment or a test,
quoted in `PROJECT.json` under `findings`. None of them contradicts a property
that holds: `FreshPostIsConsistent` is what remains true of retries within one
session, and `RowsAreAccountedFor` what remains of one row per thought.

Three properties hold with an exception that is written into them, because the
code breaks them there:

* `BatchUpdatesFit`: after a sign-in answered while the feed is being dismissed,
  the state has been cleared and the table has not, and the next notification is
  no longer dropped. Its indexes do not fit, and the application ends. If it
  survives, the change left in the state is applied again by the next
  `viewDidAppear`.
* `TypedThoughtIsSeen`: a thought is not seen if newer rows fill the window between
  two polls, or if a token expires (nothing renews it, and the retry goes on for
  as long as the session does).
* `NothingMissed` and `EveryCallbackHears`: not the versions a write inside a
  callback overtakes, of which `Realm::begin_transaction` says that it "could leave
  the user in an inconsistent state, but that's unavoidable".

**Bounds.** Client: two users, because the interesting orders need one user
taking the place of another; two texts equal but for case; two slots, because
two answers can then come in either order, and a third adds no kind of
interference, since requests influence each other only through the state; answers
of at most two thoughts, so that a kill can fall inside one and an answer can
hold both spellings. The liveness instance has one user and answers of one
thought. Server: two threads, since a race here has two parties; two names that
are spellings of one; three passwords, one of them too long; one thought and
`MaxTime` 1 with `TokenLife` 1, enough for a token to expire. System: one device
that types and one that reads; two texts, so that one thought can push the other
out of a window of one; one fault, which is enough to lose an answer, to delay a
request past its retry or to kill a process; each thought typed once. What more faults
do is covered by the proofs. Feed: three thoughts, enough for a list with an
insertion between two others and for old and new objects side by side. Notifier:
one Realm, one notifier, one callback and three versions, one of which may be the
suppressed one, one overtaken and one of another process; more of each are
covered by the proofs. No state constraint is used. The counts per
kind of thought in `Client` are bounded by the code itself (`ThoughtsUnique`), and
the User table by the number of users.

**Fairness.** Client: the main queue is first in, first out, hence a callback
that is ready again and again runs (strong fairness per callback); Siesta calls
one hook of each request because URLSession times out; UIKit ends animations;
GCD fires timers. Nothing is assumed of users, polling or crashes. `EveryPostSettles`
also assumes that a create tried for ever succeeds in the end
(`ReachableServer`), which excludes what the server refuses each time: an empty
text, an expired token. `SessionReachesFeed` fails even for a user who dismisses
every alert (`AttentiveSpec`). Server: a thread that has begun a request goes on
(weak fairness of its steps); arrival of requests, restarts and the clock have
none. System: timers and delayed blocks fire, the server handles what it has, and an
exchange that does not fail is answered; faults, logouts, expiry and typing have no
fairness. Feed: the run loop delivers what is due, UIKit ends its transitions.
Notifier: the worker listens, run loops turn, and a transaction that is open is
closed; a callback returns however many transactions it begins, for which its
return needs strong fairness. Deadlock is checked in all runs; no system here can
stop.

## 4. Proofs

All theorems hold for every value of the constants that satisfies the named
assumptions: `Nil` is not a user, text or message, folding maps texts to texts
and `FetchLimit` is a natural number (Client); lower-casing is idempotent, a
blank is no name, password or text, limits are natural numbers and tokens live
for a positive time (Server); a device has finitely many creates under way and the
bounds are numbers (System); the objects are finitely many and `Nil` is no list and no
payload (Feed); notifiers and tokens belong to Realms and notifiers, tokens are finitely many, fewer than the
largest `size_t`, and no Realm is `None` (Notifier). What a theorem assumes of the
application besides is in its own hypotheses.

**ClientProofs.** The conjunction of the safety properties is inductive as it
stands, because they were stated about state that is related:
`PollingMatchesSession` and `FeedNeedsSession` need `SessionIsSaved` at logout and
launch, `FreshPostIsConsistent` needs the history bit to fall whenever the current
user changes. Theorems: `Typed`, `SessionSaved`, `PollingFollowsSession`,
`NoDuplicateThoughts`, `SpinnerJustified`, `FreshPostsConsistent`, `FeedSession`,
and the action property `SessionChanges`.

**ServerProofs.** The properties speak of answered requests only, so the
invariant extends them to requests under way: a thread that has inserted a user
holds one with its own name and password (`HeldUsersMatch`), no two sign-ups hold
the same one (`HeldSignUpsDiffer`), a thought about to be stored has an existing
author (`PendingAuthorsExist`), and a thread past its parameters has a name and a
password (`WellFormed`). `JobChange` states once what a step that leaves the tables
alone must preserve; only the two INSERTs are argued separately. Theorems:
`Typed`, `UniqueNames`, `EarnedTokens`, `SeparateSignUps`, `ResolvedReferences`.

**AccountsProofs.** `Refinement`: `Spec => A!Spec`. Each action is shown to be a
sign-up, a sign-in, a refusal with its reason, a loss of answers, or no step. The
refusal of a wrong password is where uniqueness of names is needed: the row
compared is the only one of that name.

**SystemProofs.** `TypeCorrect` needs that an exchange under way carries a body
(`PostsFilled`, `PollsFilled`). `NothingIsForgotten` needs one fact more, that an
accepted create has its row (`AcceptedIsStored`): that is what lets the device
forget the text. `RowsAccounted` is not inductive, because a failure comes before the
row it may cause. The invariant `Accounted` counts for each thought the rows it
has, the creates that may still insert one and the requests the network still
holds, and bounds their sum by the number of times it was typed and failed. Each
step moves one unit between the three, except typing and failing, which add one on
both sides; the lemmas on cardinalities carry this for any number of each.

**FeedProofs.** `FeedInv` adds to the four properties what makes the indexes fit: the
database is at most one write ahead of what the observer was told (`Ahead`: every
write first delivers what is due), nobody is logged in and no change is left in the
state while the feed is dismissed, unless a late sign-in was answered (`Screens`),
and the payload is one that a notification built (`IsPayload`). The heart is then
that deleting and inserting at the indexes of `Update(old, new)` turns `old` into `new`, for lists that
differ by an insertion or a flush. Theorems: `TableIsState`, `UpdatesFit`,
`StateIsStored`, `ObserverIsState`. `ListsHaveNoDuplicates` states `TypeOK`, in which it is the
lists without duplicates that take an argument: after a late sign-in a batch update may
be applied to rows it was not made for, and where it fits it brings in no object that they
already show, because the table shows nothing of the database that the observer has not
been told of (`RowsAreOlder`).

**NotifierProofs.** `OneVersionPerPackage`: registered notifiers that have run are at
one version, for any number of Realms, notifiers and callbacks and with every
feature. `NotifierPackage` relies on it when it reads the version of its package from
the last of its notifiers. The invariant says that the worker, from taking the lists to
handing over, holds every registered notifier (`WorkerTook`), and that a notifier
of the first list has not run (`NewHaveNotRun`), so that handing the others over
alone, up to the skipped transaction, leaves no two behind each other. All steps of
the Realms leave stage, version and `has_run` alone (`Alike`). No run checks
`NotifiersAgree`: the instance has one notifier.

**NotifierTypes.** `NotifierTypeCorrect`: `TypeOK`, with `Behind` (no Realm, notifier or
worker is ahead of the file), which is what keeps versions in their range, and with
the tokens of a notifier distinct, which bounds its callbacks (`FewCallbacks`).
Each operation on a notifier has a lemma that says what it changes and what it leaves
(`RunIs`, `HandoverIs`, `PackageIs`, `CalledIs`, `RemovedCallback`, ...); the proofs
below cite these and open no definition again. `CallbackIndexInside`: `CountIsInside`, if
no callback is added from within a callback. The invariant `CountInv` is exact: while a
notifier delivers, its count *is* the number of its callbacks, and otherwise its index is
`npos`; a removal lowers both. With a callback added meanwhile the count is too
small, and the removal of one more than it counts takes the unsigned count below zero.

**NotifierNews**, first part. `WaitingIsNews`: `PendingIsNews`, for any number of Realms and collections.
What waits is later than what was told because it is later than the version of
the notifier when it last ran, and the worker never takes a notifier back (`Rising`,
which must also place a transaction to be skipped ahead of every notifier).
`RowsInv` says what the changes of a run are, between the run and the handover, and
`Locked` that who writes reads the latest version and that nobody else does. A callback that
is still to be called, of a notifier that delivers, is told the version its Realm has now:
what was accumulated for it since must be later than that (`News`). Here the two
hypotheses come in. A callback added to a collection that has run starts with changes
made before it (`NoneAdded`: the application adds its one before the query runs). And
a write begun in a callback moves the Realm past its notifiers, so that the
callbacks left are told a version whose changes may still wait for them (`OneEach`:
such a callback is the only one of its Realm).

**NotifierNews**, second part. `NothingIsMissed`: `NothingMissed`. For each callback,
`MissedAt` says up to where it is accounted for: with what it has accumulated, up to the
version of its notifier; without it, up to the version its Realm has reached. It is the
second part that lets `Realm::notify` throw away a package that is out of date, and a
Realm overtake its notifiers. The others are about waiting and skipping: a Realm that waits,
waits for all its collections (`Waits`), so that one that writes has them at the
version it writes upon; and a callback that is to skip a version is accounted for up to
that version, the handover in which it skips is still to come, and takes its
notifier no further (`Skipping`). `NoneAdded` is as above. A commit that fails
leaves its callbacks marked, and they skip the next handover, whatever it brings
(hypothesis `"commit fails" \notin Features`). `OneRealmSuppresses` is needed because there is one
`m_notifier_skip_version`: if a second Realm, with a notifier that has no callbacks
and so waits for nothing, commits before the worker takes the version, it
overwrites it (`realm_coordinator.cpp:414`), and a callback of the first skips the
transaction of the second. (TLC replays the schedule, 34 steps with two Realms, two
notifiers and one token; it is too deep for a run.) The application has one thread
and suppresses nothing. The
instance that TLC checks satisfies the hypotheses of all these theorems.

Model-checked only: the liveness properties, since the prover does not handle
fairness, and the violations.

## 5. Not modelled

* **ReSwift, Siesta**: third-party. Of ReSwift, `Client` and `Feed` model what a
  dispatch does; of Siesta, `Client` takes that a request calls one of its hooks once.
* **Realm's storage engine**, sync client and query engine: by far the largest part of
  the repository (some 97,000 lines of C++, most of them headers of a binary
  library). What the headers define (arrays, columns, templates of the query
  engine) works on memory and files whose handling is in the binary, without source
  here, and no behaviour of the application turns on it; the application uses atomic
  write transactions, primary keys and change notifications. The last are written in source that is here and are
  modelled. The application opens no synced Realm, so `SyncSession` never runs.
* Of the notifications: errors delivered asynchronously, closing a Realm or changing its
  schema under a notifier, notifiers of lists and objects, Realms that do not
  refresh automatically.
* Timestamps and colours, the logger, text fields, layouts, configuration and
  deployment: no property depends on them. A negative `limit` is not an input.
* Backgrounding: `AppDelegate`'s handlers are empty; iOS may suspend the process,
  which is a pause between two callbacks, or kill it, which is `launch`.

## 6. What could follow

* `SiestaRequest` (exactly one hook, also when cancelled) and `Store` (subscriptions
  changed while notifying), with the assumptions of `Client` as their properties.
* The notifier theorems for callbacks added to a collection that has run: what such a
  callback may be told twice, or miss, of the versions around its registration.
* A refinement from `Feed` to an abstract observer that `Notifier` is shown to
  implement, which would join the two.
