------------------------------- MODULE Client -------------------------------
(***************************************************************************)
(* The iOS application between its screen, its local Realm database and   *)
(* the network: the session (AuthActions, AuthReducer, AuthState), the     *)
(* thunks that fetch and create thoughts (ThoughtActions), the polling     *)
(* service (ThoughtsSyncService), the sign-in screen's subscription to the *)
(* store (AuthViewController) and what a restart rebuilds (Store.swift).   *)
(*                                                                         *)
(* Every piece of application code runs on the main thread, so one action  *)
(* is one run-loop callback.  The loop that stores a fetched list is split *)
(* at its database commits, because the process can be killed between two *)
(* of them; no other callback runs until it is over (mainIdle).            *)
(*                                                                         *)
(* The server hands out user ids one to one with lower-cased usernames and *)
(* a token encodes the id it was issued for, so a user id stands for the   *)
(* id, the username and the token of a User row.                           *)
(***************************************************************************)
EXTENDS Integers, Sequences, Functions

CONSTANTS
    Users,      \* user ids
    Texts,      \* texts a thought can have
    Fold,       \* what the [c] modifier of the query compares: text, case folded
    Messages,   \* error messages shown to the user
    Slots,      \* bound: requests and delayed retries outstanding at once
    FetchLimit, \* bound: thoughts in one answer of GET /thoughts
    Nil         \* Swift's nil

ASSUME NilAssumption == Nil \notin Users /\ Nil \notin Texts /\ Nil \notin Messages
ASSUME FoldAssumption == Fold \in [Texts -> Texts]
ASSUME FetchLimitAssumption == FetchLimit \in Nat

VARIABLES
    users,    \* Realm's User table, in table order
    thoughts, \* Realm's Thought table: how many rows there are of each kind
    auth,     \* store.state.authState
    reqs,     \* what each slot holds: a request in flight or a delayed retry
    merging,  \* answer of a fetch still to be stored by the running callback
    timer,    \* fetchNewThoughtsTimer exists and is valid
    screen,   \* which view controller is on screen, or on its way
    alert     \* the sign-in screen presents an error alert

vars == <<users, thoughts, auth, reqs, merging, timer, screen, alert>>

-----------------------------------------------------------------------------
(* The shape of the state.                                                 *)

Thought == [by: Users, text: Texts]

AuthState == [loading: BOOLEAN, authError: Messages \cup {Nil}, currentUserId: Users \cup {Nil}]

\* What a slot can hold.  user is the one a request authenticates, or whose
\* token it carries.  author and fresh are history: who typed the text of a
\* post, and whether the session it was typed in is still the current one.
Idle == [kind |-> "idle", user |-> Nil, text |-> Nil, author |-> Nil, fresh |-> FALSE]
Auth(u) == [kind |-> "auth", user |-> u, text |-> Nil, author |-> Nil, fresh |-> FALSE]
Fetch(u) == [kind |-> "fetch", user |-> u, text |-> Nil, author |-> Nil, fresh |-> FALSE]
Post == [kind: {"create"}, user: Users, text: Texts, author: Users, fresh: BOOLEAN]
Retry == [kind: {"retry"}, user: {Nil}, text: Texts, author: Users, fresh: BOOLEAN]

Request == {Idle} \cup {Auth(u) : u \in Users} \cup {Fetch(u) : u \in Users} \cup Post \cup Retry

Answers == UNION {[1..n -> Thought] : n \in 0..FetchLimit}

TypeOK ==
    /\ users \in Seq(Users)
    /\ thoughts \in [Thought -> Nat]
    /\ auth \in AuthState
    /\ reqs \in [Slots -> Request]
    /\ merging \in Seq(Thought)
    /\ timer \in BOOLEAN
    /\ screen \in {"appearing", "auth", "presenting", "thoughts"}
    /\ alert \in BOOLEAN

-----------------------------------------------------------------------------
(* Operators of the code that read or build state.                         *)

emptyAuthState == [loading |-> FALSE, authError |-> Nil, currentUserId |-> Nil]

noThoughts == [th \in Thought |-> 0]

\* loggedIn(): there is a token, that is, the current user's row exists.
loggedIn(a, us) == a.currentUserId # Nil /\ a.currentUserId \in Range(us)

\* save() of a User: the id is the primary key, an existing row is updated.
saveUser(us, u) == IF u \in Range(us) THEN us ELSE Append(us, u)

\* Fault: the query lacks the [c] modifier.
find_caseSensitive(ths, by, text) == ths[[by |-> by, text |-> text]] > 0

\* find(by:text:): some row with that author and, case folded, that text.
find(ths, by, text) ==
    \E t \in Texts : Fold[t] = Fold[text] /\ ths[[by |-> by, text |-> t]] > 0

\* "if find == nil then save()": a new row, under a fresh uuid.
saveIfAbsent(ths, th) ==
    IF find(ths, th.by, th.text) THEN ths ELSE [ths EXCEPT ![th] = @ + 1]

\* Fault: the error case does not reset loading.
authFailed_keepsLoading(a, msg) == [a EXCEPT !.authError = msg]

\* Fault: the success case stores the default id of a User, -1.
authSucceeded_defaultId(u) == [loading |-> FALSE, authError |-> Nil, currentUserId |-> 0 - 1]

\* authProgressReducer for loading, error and success.
authLoading(a) == [a EXCEPT !.loading = TRUE, !.authError = Nil]
authFailed(a, msg) == [a EXCEPT !.loading = FALSE, !.authError = msg]
authSucceeded(u) == [loading |-> FALSE, authError |-> Nil, currentUserId |-> u]

mainIdle == merging = <<>>

\* The state that loadAppState() rebuilds from the database.
loadAppState(us) ==
    [emptyAuthState EXCEPT !.currentUserId = IF us = <<>> THEN Nil ELSE Head(us)]

-----------------------------------------------------------------------------
(* store.dispatch of an AuthProgress action.  ReSwift tells subscribers     *)
(* about a state only when it differs from the one before (skipRepeats).    *)
(* The polling service is always subscribed; the sign-in screen is from     *)
(* viewWillAppear to viewWillDisappear.                                     *)

\* UIKit presents a view controller, alert or next screen, only from one
\* that has appeared and presents nothing else; otherwise the call is lost.
canPresent == screen = "auth" /\ ~alert

\* Fault: the timer is never invalidated.
pollingAfter_neverStops(a, us) == timer \/ loggedIn(a, us)

\* ThoughtsSyncService.newState: poll exactly while logged in.
pollingAfter(a, us) == IF a # auth THEN loggedIn(a, us) ELSE timer

\* AuthViewController.newState: an error is shown, else a session moves on.
dispatchAuth(a, us) ==
    /\ auth' = a
    /\ timer' = pollingAfter(a, us)
    /\ alert' = (alert \/ (a # auth /\ canPresent /\ a.authError # Nil))
    /\ screen' = IF a # auth /\ canPresent /\ a.authError = Nil /\ loggedIn(a, us)
                 THEN "presenting" ELSE screen

\* A new polling timer is fired at once: fetchThoughtsAction with the token
\* of the user in the new state.
firstPoll(a, us) ==
    IF ~timer /\ pollingAfter(a, us) THEN Fetch(a.currentUserId) ELSE Idle

\* History: the session the request was made in is over.
Stale(r) == IF r.fresh THEN [r EXCEPT !.fresh = FALSE] ELSE r

-----------------------------------------------------------------------------
(* Signing in, up and out.                                                 *)

\* The common body of loginAction and createUserAction.  (A poll never starts
\* here: the timer already runs exactly while somebody is logged in.)
startAuth(s, u) ==
    /\ mainIdle /\ canPresent /\ reqs[s] = Idle
    /\ dispatchAuth(authLoading(auth), users)
    /\ reqs' = [reqs EXCEPT ![s] = Auth(u)]
    /\ UNCHANGED <<users, thoughts, merging>>

loginAction(s, u) == startAuth(s, u)

createUserAction(s, u) == startAuth(s, u)

\* onSuccess with a token and a user id: the User row is saved, then the
\* success is dispatched.
authSuccess(s) ==
    LET u == reqs[s].user
        us == saveUser(users, u)
        a == authSucceeded(u)
    IN  /\ mainIdle /\ reqs[s].kind = "auth"
        /\ users' = us
        /\ dispatchAuth(a, us)
        /\ reqs' = [t \in Slots |->
                        IF t = s THEN firstPoll(a, us)
                        ELSE IF u # auth.currentUserId THEN Stale(reqs[t]) ELSE reqs[t]]
        /\ UNCHANGED <<thoughts, merging>>

\* onFailure, or an answer without a token or without a user id.
authFailure(s, msg) ==
    /\ mainIdle /\ reqs[s].kind = "auth"
    /\ dispatchAuth(authFailed(auth, msg), users)
    /\ reqs' = [reqs EXCEPT ![s] = firstPoll(authFailed(auth, msg), users)]
    /\ UNCHANGED <<users, thoughts, merging>>

\* Fault: only the thoughts are deleted.
logoutAction_keepsUsers ==
    /\ mainIdle /\ screen = "thoughts"
    /\ thoughts' = noThoughts
    /\ auth' = emptyAuthState
    /\ timer' = pollingAfter(emptyAuthState, users)
    /\ screen' = "appearing"
    /\ reqs' = [s \in Slots |-> Stale(reqs[s])]
    /\ UNCHANGED <<users, merging, alert>>

\* The unwind segue of the Logout button: flush the database, clear the state.
logoutAction ==
    /\ mainIdle /\ screen = "thoughts"
    /\ users' = <<>>
    /\ thoughts' = noThoughts
    /\ auth' = emptyAuthState
    /\ timer' = pollingAfter(emptyAuthState, <<>>)
    /\ screen' = "appearing"
    /\ reqs' = [s \in Slots |-> Stale(reqs[s])]
    /\ UNCHANGED <<merging, alert>>

-----------------------------------------------------------------------------
(* Fetching thoughts.                                                      *)

\* The timer's block, every ten seconds while it is valid.
pollTick(s) ==
    /\ mainIdle /\ timer /\ reqs[s] = Idle
    /\ loggedIn(auth, users)
    /\ reqs' = [reqs EXCEPT ![s] = Fetch(auth.currentUserId)]
    /\ UNCHANGED <<users, thoughts, auth, merging, timer, screen, alert>>

\* onSuccess begins to store the answer ...
fetchSuccess(s) ==
    /\ mainIdle /\ reqs[s].kind = "fetch"
    /\ merging' \in Answers
    /\ reqs' = [reqs EXCEPT ![s] = Idle]
    /\ UNCHANGED <<users, thoughts, auth, timer, screen, alert>>

\* ... one element of the array at a time, each in its own transaction.
storeNext ==
    /\ ~mainIdle
    /\ thoughts' = saveIfAbsent(thoughts, Head(merging))
    /\ merging' = Tail(merging)
    /\ UNCHANGED <<users, auth, reqs, timer, screen, alert>>

\* onFailure: a FetchThoughts error, which the reducer only logs.
fetchFailure(s) ==
    /\ mainIdle /\ reqs[s].kind = "fetch"
    /\ reqs' = [reqs EXCEPT ![s] = Idle]
    /\ UNCHANGED <<users, thoughts, auth, merging, timer, screen, alert>>

-----------------------------------------------------------------------------
(* Creating a thought.                                                     *)

\* Fault: the thought is sent without being persisted locally.
createThought_notPersisted(s, text, author, fresh) ==
    /\ reqs' = [reqs EXCEPT ![s] =
                    IF loggedIn(auth, users)
                    THEN [kind |-> "create", user |-> auth.currentUserId, text |-> text,
                          author |-> author, fresh |-> fresh]
                    ELSE Idle]
    /\ UNCHANGED <<users, thoughts, auth, merging, timer, screen, alert>>

\* Fault: the retry waits on while nobody is logged in.
createThought_retriesLoggedOut(s, text, author, fresh) ==
    LET u == auth.currentUserId
        in == loggedIn(auth, users)
    IN  /\ thoughts' = IF in THEN saveIfAbsent(thoughts, [by |-> u, text |-> text]) ELSE thoughts
        /\ reqs' = [reqs EXCEPT ![s] = [kind |-> IF in THEN "create" ELSE "retry", user |-> u,
                                        text |-> text, author |-> author, fresh |-> fresh]]
        /\ UNCHANGED <<users, auth, merging, timer, screen, alert>>

\* The thunk of createThoughtAction, run from the button or from a retry: it
\* takes token and user from the state of the moment.
createThought(s, text, author, fresh) ==
    LET u == auth.currentUserId IN
    /\ IF loggedIn(auth, users)
       THEN /\ thoughts' = saveIfAbsent(thoughts, [by |-> u, text |-> text])
            /\ reqs' = [reqs EXCEPT ![s] =
                            [kind |-> "create", user |-> u, text |-> text,
                             author |-> author, fresh |-> fresh]]
       ELSE /\ reqs' = [reqs EXCEPT ![s] = Idle]
            /\ UNCHANGED thoughts
    /\ UNCHANGED <<users, auth, merging, timer, screen, alert>>

postThoughtPressed(s, text) ==
    /\ mainIdle /\ screen = "thoughts" /\ reqs[s] = Idle
    /\ createThought(s, text, auth.currentUserId, TRUE)

createSuccess(s) ==
    /\ mainIdle /\ reqs[s].kind = "create"
    /\ reqs' = [reqs EXCEPT ![s] = Idle]
    /\ UNCHANGED <<users, thoughts, auth, merging, timer, screen, alert>>

\* onFailure: the same text again in five seconds; the token is forgotten.
createFailure(s) ==
    /\ mainIdle /\ reqs[s].kind = "create"
    /\ reqs' = [reqs EXCEPT ![s].kind = "retry", ![s].user = Nil]
    /\ UNCHANGED <<users, thoughts, auth, merging, timer, screen, alert>>

retryCreate(s) ==
    /\ mainIdle /\ reqs[s].kind = "retry"
    /\ createThought(s, reqs[s].text, reqs[s].author, reqs[s].fresh)

-----------------------------------------------------------------------------
(* Screens and the life of the process.                                    *)

\* Fault: the segue is performed without asking loggedIn().
authDidAppear_always ==
    /\ mainIdle /\ screen = "appearing"
    /\ screen' = "presenting"
    /\ UNCHANGED <<users, thoughts, auth, reqs, merging, timer, alert>>

\* AuthViewController.viewDidAppear.
authDidAppear ==
    /\ mainIdle /\ screen = "appearing"
    /\ screen' = IF loggedIn(auth, users) THEN "presenting" ELSE "auth"
    /\ UNCHANGED <<users, thoughts, auth, reqs, merging, timer, alert>>

\* The segue's animation ends.
thoughtsDidAppear ==
    /\ mainIdle /\ screen = "presenting"
    /\ screen' = "thoughts"
    /\ UNCHANGED <<users, thoughts, auth, reqs, merging, timer, alert>>

\* The alert's Ok button, which has no handler.
dismissAlert ==
    /\ mainIdle /\ alert
    /\ alert' = FALSE
    /\ UNCHANGED <<users, thoughts, auth, reqs, merging, timer, screen>>

\* Fault: the database is recreated at launch (deleteRealmIfMigrationNeeded).
launch_wipesDatabase(s) ==
    /\ users' = <<>>
    /\ thoughts' = noThoughts
    /\ auth' = emptyAuthState
    /\ timer' = FALSE
    /\ reqs' = [t \in Slots |-> Idle]
    /\ merging' = <<>>
    /\ screen' = "appearing"
    /\ alert' = FALSE

\* The process is killed at any moment and launched again: only Realm is
\* left.  Subscribing the polling service polls at once if a user is saved.
launch(s) ==
    LET a == loadAppState(users) IN
    /\ auth' = a
    /\ timer' = loggedIn(a, users)
    /\ reqs' = [[t \in Slots |-> Idle] EXCEPT ![s] =
                    IF loggedIn(a, users) THEN Fetch(a.currentUserId) ELSE Idle]
    /\ merging' = <<>>
    /\ screen' = "appearing"
    /\ alert' = FALSE
    /\ UNCHANGED <<users, thoughts>>

-----------------------------------------------------------------------------
\* First launch after installation.
Init ==
    /\ users = <<>>
    /\ thoughts = noThoughts
    /\ auth = loadAppState(users)
    /\ reqs = [s \in Slots |-> Idle]
    /\ merging = <<>>
    /\ timer = FALSE
    /\ screen = "appearing"
    /\ alert = FALSE

SlotStep(s) ==
    \/ \E u \in Users : loginAction(s, u) \/ createUserAction(s, u)
    \/ authSuccess(s)
    \/ \E msg \in Messages : authFailure(s, msg)
    \/ pollTick(s)
    \/ fetchSuccess(s)
    \/ fetchFailure(s)
    \/ \E text \in Texts : postThoughtPressed(s, text)
    \/ createSuccess(s)
    \/ createFailure(s)
    \/ retryCreate(s)
    \/ launch(s)

Next ==
    \/ \E s \in Slots : SlotStep(s)
    \/ storeNext
    \/ logoutAction
    \/ authDidAppear
    \/ thoughtsDidAppear
    \/ dismissAlert

Spec == Init /\ [][Next]_vars

(***************************************************************************)
(* Fairness.  The main queue is first in, first out, so a callback that is *)
(* ready again and again is run: strong fairness per callback.  Siesta     *)
(* calls one hook of every request (URLSession times out), UIKit ends its  *)
(* animations and GCD fires its timers.  Nothing is assumed of the user or *)
(* of crashes.                                                             *)
(***************************************************************************)
Fairness ==
    /\ WF_vars(storeNext)
    /\ SF_vars(authDidAppear) /\ SF_vars(thoughtsDidAppear)
    /\ \A s \in Slots :
        /\ SF_vars(authSuccess(s) \/ \E msg \in Messages : authFailure(s, msg))
        /\ SF_vars(fetchSuccess(s) \/ fetchFailure(s))
        /\ SF_vars(createSuccess(s) \/ createFailure(s))
        /\ SF_vars(retryCreate(s))

FairSpec == Spec /\ Fairness

\* The server is reached again and again: a create tried for ever succeeds.
ReachableServer == \A s \in Slots : SF_vars(createSuccess(s))

ReachableSpec == FairSpec /\ ReachableServer

\* The user does not leave an alert on the screen for ever.
AttentiveSpec == FairSpec /\ SF_vars(dismissAlert)

-----------------------------------------------------------------------------
(* Properties.                                                             *)

LoggedIn == loggedIn(auth, users)

\* The store and the database agree on whether there is a session: a current
\* user has a row, and a row is left only while there is a current user.  A
\* relaunch relies on it (Store.swift, loadAppState), and so does logout.
SessionIsSaved ==
    /\ auth.currentUserId # Nil => auth.currentUserId \in Range(users)
    /\ auth.currentUserId = Nil => users = <<>>

\* The polling timer runs exactly while somebody is logged in, whatever the
\* order of sign-ins, failures, logouts and relaunches
\* (ThoughtsSyncWorker.swift, newState and startPollingForThoughts).
PollingMatchesSession == timer <=> LoggedIn

\* The check-then-save of the fetch loop and of createThoughtAction never
\* leaves two rows of one author whose texts differ at most in case.
ThoughtsUnique ==
    \A th1, th2 \in Thought :
        /\ thoughts[th1] <= 1
        /\ /\ th1.by = th2.by /\ Fold[th1.text] = Fold[th2.text]
           /\ thoughts[th1] > 0 /\ thoughts[th2] > 0
           => th1 = th2

\* The spinner never turns without a sign-in or sign-up request that will
\* stop it (AuthReducer.swift, AuthViewController.newState).
SpinnerHasRequest == auth.loading => \E s \in Slots : reqs[s].kind = "auth"

\* Within the session in which it was typed, a thought being sent or waiting
\* to be sent again is in the local database under its author and goes out
\* with its author's token (ThoughtActions.swift, createThoughtAction).
FreshPostIsConsistent ==
    \A s \in Slots : reqs[s].fresh =>
        /\ reqs[s].author = auth.currentUserId
        /\ find(thoughts, reqs[s].author, reqs[s].text)
        /\ reqs[s].kind = "create" => reqs[s].user = reqs[s].author

\* The list of thoughts is on screen, or being brought there, only for a
\* logged-in user (AuthViewController.newState and viewDidAppear).
FeedNeedsSession == screen \in {"presenting", "thoughts"} => LoggedIn

\* A session ends only by logout and starts only by the answer to a sign-in:
\* no failed second sign-in and no relaunch ends or starts one.
SessionChangesOnlyByAuth ==
    [][ /\ LoggedIn /\ ~LoggedIn' => logoutAction
        /\ ~LoggedIn /\ LoggedIn' => \E s \in Slots : authSuccess(s) ]_vars

\* Every spinner stops.
SpinnerStops == auth.loading ~> ~auth.loading

\* Every posted thought is settled, delivered or given up because nobody is
\* logged in, if the server is reached again and again: the retry of
\* createThoughtAction does not go on for ever.
EveryPostSettles ==
    \A s \in Slots : (reqs[s].kind \in {"create", "retry"}) ~> (reqs[s].kind \notin {"create", "retry"})

(* What comments and tests say and the code does not do.                   *)

\* Store.swift:14, "We can derive all the relevant app state by just checking
\* if there is a saved user": a relaunch comes back to the same user.
RelaunchRestoresUser ==
    [][ (\E s \in Slots : launch(s)) => auth'.currentUserId = auth.currentUserId ]_vars

\* AuthActions.swift:28, "Crude way to logout - flush the whole database":
\* while nobody is logged in the database holds no thoughts.
LoggedOutDatabaseIsEmpty == auth.currentUserId = Nil => thoughts = noThoughts

\* thoughts_controller_spec.rb:59, "expect(Thought.first.user).to eq(user)": a
\* thought is sent with the token of the user who wrote it.
SentByItsAuthor ==
    \A s \in Slots : reqs[s].kind = "create" => reqs[s].user = reqs[s].author

\* AuthViewController.swift:51, "// Auth Success" before goToThoughtsList(): who
\* is logged in gets to the list of thoughts.
SessionReachesFeed == LoggedIn ~> (screen = "thoughts" \/ ~LoggedIn)
=============================================================================
