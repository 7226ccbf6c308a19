---------------------------- MODULE ClientProofs ----------------------------
(***************************************************************************)
(* The safety properties of Client, for any users, texts, case folding and *)
(* any number of outstanding requests.                                     *)
(***************************************************************************)
EXTENDS Client, TLAPS, SequenceTheorems

\* The inductive invariant.
Inv ==
    /\ TypeOK
    /\ SessionIsSaved
    /\ PollingMatchesSession
    /\ ThoughtsUnique
    /\ SpinnerHasRequest
    /\ FreshPostIsConsistent
    /\ FeedNeedsSession

-----------------------------------------------------------------------------
(* The operators of the code.                                              *)

\* An empty User table has no ids.
LEMMA RangeEmpty == Range(<<>>) = {}
  BY DEF Range

\* users.first, if there is one, is a saved user.
LEMMA HeadInRange ==
    ASSUME NEW us \in Seq(Users), us # <<>>
    PROVE  Head(us) \in Users /\ Head(us) \in Range(us)
  <1>1. Len(us) \in Nat /\ Len(us) > 0 /\ DOMAIN us = 1..Len(us)
    BY EmptySeq
  <1>2. Head(us) = us[1] /\ 1 \in DOMAIN us
    BY <1>1
  <1> QED
    BY <1>2 DEF Range

\* save() of a User keeps the rows there are and adds the one saved.
LEMMA SaveUser ==
    ASSUME NEW us \in Seq(Users), NEW u \in Users
    PROVE  /\ saveUser(us, u) \in Seq(Users)
           /\ saveUser(us, u) # <<>>
           /\ Range(saveUser(us, u)) = Range(us) \cup {u}
  <1>1. CASE u \in Range(us)
    BY <1>1, RangeEmpty DEF saveUser
  <1>2. CASE u \notin Range(us)
    <2>1. saveUser(us, u) = Append(us, u)
      BY <1>2 DEF saveUser
    <2>2. /\ Append(us, u) \in Seq(Users)
          /\ Len(Append(us, u)) = Len(us) + 1
          /\ Len(us) \in Nat
          /\ DOMAIN us = 1..Len(us)
          /\ DOMAIN Append(us, u) = 1..(Len(us) + 1)
          /\ \A i \in 1..Len(us) : Append(us, u)[i] = us[i]
          /\ Append(us, u)[Len(us) + 1] = u
      OBVIOUS
    <2>3. Append(us, u) # <<>>
      BY <2>2
    <2>4. Range(Append(us, u)) = Range(us) \cup {u}
      BY <2>2 DEF Range
    <2> QED
      BY <2>1, <2>2, <2>3, <2>4
  <1> QED
    BY <1>1, <1>2

\* Storing a thought keeps the rows there are, leaves one that find() finds,
\* and keeps the table free of case-insensitive duplicates.
Unique(ths) ==
    \A th1, th2 \in Thought :
        /\ ths[th1] <= 1
        /\ /\ th1.by = th2.by /\ Fold[th1.text] = Fold[th2.text]
           /\ ths[th1] > 0 /\ ths[th2] > 0
           => th1 = th2

LEMMA SaveThought ==
    ASSUME NEW ths \in [Thought -> Nat], NEW th \in Thought, Unique(ths)
    PROVE  /\ saveIfAbsent(ths, th) \in [Thought -> Nat]
           /\ Unique(saveIfAbsent(ths, th))
           /\ find(saveIfAbsent(ths, th), th.by, th.text)
           /\ \A by \in Users, text \in Texts :
                find(ths, by, text) => find(saveIfAbsent(ths, th), by, text)
  <1> DEFINE new == saveIfAbsent(ths, th)
  <1>1. CASE find(ths, th.by, th.text)
    BY <1>1 DEF saveIfAbsent
  <1>2. CASE ~find(ths, th.by, th.text)
    <2>1. new = [ths EXCEPT ![th] = @ + 1]
      BY <1>2 DEF saveIfAbsent
    <2>2. th.by \in Users /\ th.text \in Texts /\ th = [by |-> th.by, text |-> th.text]
      BY DEF Thought
    <2>3. \A t \in Texts : /\ [by |-> th.by, text |-> t] \in Thought
                           /\ Fold[t] = Fold[th.text] => ths[[by |-> th.by, text |-> t]] = 0
      <3>1. \A t \in Texts : [by |-> th.by, text |-> t] \in Thought
        BY <2>2 DEF Thought
      <3>2. \A t \in Texts : Fold[t] = Fold[th.text] => ~(ths[[by |-> th.by, text |-> t]] > 0)
        BY <1>2 DEF find
      <3> QED
        BY <3>1, <3>2
    <2>4. new \in [Thought -> Nat] /\ new[th] = 1 /\ \A x \in Thought : x # th => new[x] = ths[x]
      BY <2>1, <2>2, <2>3
    <2>5. \A x \in Thought : new[x] >= ths[x] /\ new[x] \in Nat /\ ths[x] \in Nat
      BY <2>1
    <2>6. \A x \in Thought : x.by = th.by /\ Fold[x.text] = Fold[th.text] => ths[x] = 0
      <3> SUFFICES ASSUME NEW x \in Thought, x.by = th.by, Fold[x.text] = Fold[th.text]
                   PROVE  ths[x] = 0
        OBVIOUS
      <3>1. x = [by |-> th.by, text |-> x.text] /\ x.text \in Texts
        BY DEF Thought
      <3> QED
        BY <3>1, <2>3
    <2>7. Unique(new)
      <3> SUFFICES ASSUME NEW x \in Thought, NEW y \in Thought
                   PROVE  /\ new[x] <= 1
                          /\ /\ x.by = y.by /\ Fold[x.text] = Fold[y.text]
                             /\ new[x] > 0 /\ new[y] > 0
                             => x = y
        BY DEF Unique
      <3>1. ths[x] <= 1 /\ (x.by = y.by /\ Fold[x.text] = Fold[y.text]
                             /\ ths[x] > 0 /\ ths[y] > 0 => x = y)
        BY DEF Unique
      <3>2. CASE x # th /\ y # th
        BY <3>1, <3>2, <2>4
      <3>3. CASE x = th /\ y # th
        BY <3>3, <2>4, <2>6
      <3>4. CASE x # th /\ y = th
        BY <3>1, <3>4, <2>4, <2>6
      <3>5. CASE x = th /\ y = th
        BY <3>5, <2>4
      <3> QED
        BY <3>2, <3>3, <3>4, <3>5
    <2>8. find(new, th.by, th.text)
      BY <2>2, <2>4 DEF find
    <2>9. \A by \in Users, text \in Texts : find(ths, by, text) => find(new, by, text)
      <3> SUFFICES ASSUME NEW by \in Users, NEW text \in Texts, find(ths, by, text)
                   PROVE  find(new, by, text)
        OBVIOUS
      <3>1. PICK t \in Texts : Fold[t] = Fold[text] /\ ths[[by |-> by, text |-> t]] > 0
        BY DEF find
      <3>2. [by |-> by, text |-> t] \in Thought
        BY DEF Thought
      <3>3. new[[by |-> by, text |-> t]] > 0
        BY <3>1, <3>2, <2>5
      <3> QED
        BY <3>1, <3>3 DEF find
    <2> QED
      BY <2>4, <2>7, <2>8, <2>9
  <1> QED
    BY <1>1, <1>2
-----------------------------------------------------------------------------
(* Facts about the steps that several actions share.                       *)


\* What dispatching a new AuthState does to the subscribers, when it neither
\* ends a session nor forgets a saved user.
LEMMA DispatchAuth ==
    ASSUME Inv, NEW a \in AuthState, NEW us \in Seq(Users),
           dispatchAuth(a, us), users' = us,
           LoggedIn => loggedIn(a, us),
           a = auth => us = users
    PROVE  /\ auth' \in AuthState /\ timer' \in BOOLEAN /\ alert' \in BOOLEAN
           /\ screen' \in {"appearing", "auth", "presenting", "thoughts"}
           /\ PollingMatchesSession'
           /\ FeedNeedsSession'
  <1>1. auth' = a /\ users' = us /\ (LoggedIn' <=> loggedIn(a, us))
    BY DEF dispatchAuth, LoggedIn
  <1>2. timer' = IF a # auth THEN loggedIn(a, us) ELSE timer
    BY DEF dispatchAuth, pollingAfter
  <1>3. loggedIn(a, us) \in BOOLEAN /\ timer \in BOOLEAN /\ alert \in BOOLEAN
    BY DEF Inv, TypeOK, loggedIn
  <1>4. timer' \in BOOLEAN
    BY <1>2, <1>3
  <1>5. PollingMatchesSession'
    <2>1. timer' <=> loggedIn(a, us)
      <3>1. CASE a # auth
        BY <1>2, <3>1
      <3>2. CASE a = auth
        BY <1>2, <3>2 DEF Inv, PollingMatchesSession, LoggedIn
      <3> QED
        BY <3>1, <3>2
    <2> QED
      BY <1>1, <2>1 DEF PollingMatchesSession
  <1>6. alert' \in BOOLEAN
    BY <1>3 DEF dispatchAuth
  <1>7. /\ screen' \in {"appearing", "auth", "presenting", "thoughts"}
        /\ screen' \in {"presenting", "thoughts"} => loggedIn(a, us)
    BY DEF dispatchAuth, Inv, TypeOK, FeedNeedsSession
  <1> QED
    BY <1>1, <1>4, <1>5, <1>6, <1>7 DEF FeedNeedsSession

\* A step that leaves the database, the session and the screen alone and
\* changes one slot keeps the invariant, if the slot did not hold a sign-in
\* that a spinner waits for and holds no inconsistent post afterwards.
LEMMA SlotChange ==
    ASSUME Inv, NEW s \in Slots, NEW r \in Request,
           reqs' = [reqs EXCEPT ![s] = r],
           reqs[s].kind # "auth" \/ r.kind = "auth",
           r.fresh => /\ r.author = auth.currentUserId
                      /\ find(thoughts, r.author, r.text)
                      /\ r.kind = "create" => r.user = r.author,
           merging' \in Seq(Thought),
           UNCHANGED <<users, thoughts, auth, timer, screen, alert>>
    PROVE  Inv'
  <1>1. reqs' \in [Slots -> Request]
    BY DEF Inv, TypeOK
  <1>2. /\ reqs \in [Slots -> Request]
        /\ reqs'[s] = r
        /\ \A t \in Slots : t # s => reqs'[t] = reqs[t]
    BY DEF Inv, TypeOK
  <1>3. TypeOK'
    BY <1>1 DEF Inv, TypeOK
  <1>4. SpinnerHasRequest'
    BY <1>2 DEF Inv, SpinnerHasRequest
  <1>5. FreshPostIsConsistent'
    <2> SUFFICES ASSUME NEW t \in Slots, reqs'[t].fresh
                 PROVE  /\ reqs'[t].author = auth.currentUserId
                        /\ find(thoughts, reqs'[t].author, reqs'[t].text)
                        /\ reqs'[t].kind = "create" => reqs'[t].user = reqs'[t].author
      BY DEF FreshPostIsConsistent, find
    <2> QED
      BY <1>2 DEF Inv, FreshPostIsConsistent
  <1>6. /\ SessionIsSaved' /\ PollingMatchesSession'
        /\ ThoughtsUnique' /\ FeedNeedsSession'
    BY DEF Inv, SessionIsSaved, PollingMatchesSession, ThoughtsUnique, FeedNeedsSession,
           LoggedIn, loggedIn
  <1> QED
    BY <1>3, <1>4, <1>5, <1>6 DEF Inv

\* What the slots can hold.
LEMMA RequestTypes ==
    /\ Idle \in Request /\ Idle.kind = "idle" /\ Idle.fresh = FALSE
    /\ \A u \in Users : /\ Auth(u) \in Request /\ Auth(u).kind = "auth" /\ Auth(u).fresh = FALSE
                        /\ Fetch(u) \in Request /\ Fetch(u).kind = "fetch" /\ Fetch(u).fresh = FALSE
    /\ \A r \in Request : /\ r.kind = "auth" => r.user \in Users /\ r.fresh = FALSE
                          /\ r.kind = "create" => r \in Post
                          /\ r.kind = "retry" => r \in Retry
                          /\ r.fresh => r \in Post \cup Retry
                          /\ r.fresh \in BOOLEAN
                          /\ Stale(r) \in Request
                          /\ Stale(r).fresh = FALSE /\ Stale(r).kind = r.kind
  <1>1. /\ Idle \in Request /\ Idle.kind = "idle" /\ Idle.fresh = FALSE
    BY DEF Request, Idle
  <1>2. ASSUME NEW u \in Users
        PROVE  /\ Auth(u) \in Request /\ Auth(u).kind = "auth" /\ Auth(u).fresh = FALSE
               /\ Auth(u).user = u
               /\ Fetch(u) \in Request /\ Fetch(u).kind = "fetch" /\ Fetch(u).fresh = FALSE
    BY DEF Request, Auth, Fetch, Idle
  <1>3. ASSUME NEW r \in Request
        PROVE  /\ r.kind = "auth" => r.user \in Users /\ r.fresh = FALSE
               /\ r.kind = "create" => r \in Post
               /\ r.kind = "retry" => r \in Retry
               /\ r.fresh => r \in Post \cup Retry
               /\ r.fresh \in BOOLEAN
               /\ Stale(r) \in Request
               /\ Stale(r).fresh = FALSE /\ Stale(r).kind = r.kind
    <2>1. CASE r = Idle
      <3>1. r.fresh = FALSE /\ r.kind = "idle" /\ Stale(r) = r
        BY <2>1, <1>1 DEF Stale
      <3> QED
        BY <3>1
    <2>2. CASE r \in {Auth(u) : u \in Users} \cup {Fetch(u) : u \in Users}
      <3>1. PICK u \in Users : r = Auth(u) \/ r = Fetch(u)
        BY <2>2
      <3>2. r.fresh = FALSE /\ r.kind \in {"auth", "fetch"} /\ (r.kind = "auth" => r.user = u)
        BY <3>1 DEF Auth, Fetch
      <3>3. Stale(r) = r
        BY <3>2 DEF Stale
      <3> QED
        BY <3>2, <3>3
    <2>3. CASE r \in Post
      <3>1. Stale(r) \in Post /\ r.kind = "create" /\ Stale(r).fresh = FALSE
            /\ Stale(r).kind = "create" /\ r.fresh \in BOOLEAN
        BY <2>3 DEF Post, Stale
      <3> QED
        BY <3>1, <2>3 DEF Request
    <2>4. CASE r \in Retry
      <3>1. Stale(r) \in Retry /\ r.kind = "retry" /\ Stale(r).fresh = FALSE
            /\ Stale(r).kind = "retry" /\ r.fresh \in BOOLEAN
        BY <2>4 DEF Retry, Stale
      <3> QED
        BY <3>1, <2>4 DEF Request
    <2> QED
      BY <2>1, <2>2, <2>3, <2>4 DEF Request
  <1> QED
    BY <1>1, <1>2, <1>3
-----------------------------------------------------------------------------
(* The invariant is inductive: one lemma per action that does more than    *)
(* change a slot.                                                          *)

LEMMA InitInv == Init => Inv
  <1> SUFFICES ASSUME Init PROVE Inv
    OBVIOUS
  <1>1. auth = emptyAuthState
    <2>1. emptyAuthState \in [loading: BOOLEAN, authError: {Nil}, currentUserId: {Nil}]
      BY DEF emptyAuthState
    <2> QED
      BY <2>1 DEF Init, loadAppState, emptyAuthState
  <1>2. auth \in AuthState /\ auth.currentUserId = Nil /\ auth.loading = FALSE
    BY <1>1 DEF emptyAuthState, AuthState
  <1>3. thoughts \in [Thought -> Nat] /\ \A th \in Thought : thoughts[th] = 0
    BY DEF Init, noThoughts
  <1>4. reqs \in [Slots -> Request] /\ \A s \in Slots : reqs[s].fresh = FALSE
    BY RequestTypes DEF Init
  <1>5. TypeOK
    <2>1. users \in Seq(Users) /\ merging \in Seq(Thought)
      BY DEF Init
    <2>2. timer \in BOOLEAN /\ alert \in BOOLEAN /\ screen = "appearing"
      BY DEF Init
    <2> QED
      BY <1>2, <1>3, <1>4, <2>1, <2>2 DEF TypeOK
  <1>6. SessionIsSaved /\ FeedNeedsSession /\ PollingMatchesSession
    BY <1>2 DEF Init, SessionIsSaved, FeedNeedsSession, PollingMatchesSession, LoggedIn, loggedIn
  <1>7. ThoughtsUnique
    BY <1>3 DEF ThoughtsUnique
  <1>8. SpinnerHasRequest /\ FreshPostIsConsistent
    BY <1>2, <1>4 DEF SpinnerHasRequest, FreshPostIsConsistent
  <1> QED
    BY <1>5, <1>6, <1>7, <1>8 DEF Inv

\* The AuthStates the reducer makes.
LEMMA AuthStates ==
    ASSUME NEW a \in AuthState
    PROVE  /\ authLoading(a) \in AuthState
           /\ authLoading(a).currentUserId = a.currentUserId
           /\ \A m \in Messages : /\ authFailed(a, m) \in AuthState
                                  /\ authFailed(a, m).currentUserId = a.currentUserId
                                  /\ authFailed(a, m).loading = FALSE
           /\ \A u \in Users : /\ authSucceeded(u) \in AuthState
                               /\ authSucceeded(u).currentUserId = u
                               /\ authSucceeded(u).loading = FALSE
           /\ emptyAuthState \in AuthState
           /\ emptyAuthState.currentUserId = Nil
           /\ emptyAuthState.loading = FALSE
  BY DEF AuthState, authLoading, authFailed, authSucceeded, emptyAuthState

LEMMA StartAuthInv ==
    ASSUME Inv, NEW s \in Slots, NEW u \in Users, startAuth(s, u)
    PROVE  Inv'
  <1> DEFINE a == authLoading(auth)
  <1>1. auth \in AuthState /\ users \in Seq(Users) /\ reqs \in [Slots -> Request]
    BY DEF Inv, TypeOK
  <1>2. a \in AuthState /\ a.currentUserId = auth.currentUserId
    BY <1>1, AuthStates
  <1>3. /\ dispatchAuth(a, users)
        /\ reqs[s] = Idle
        /\ reqs' = [reqs EXCEPT ![s] = Auth(u)]
        /\ UNCHANGED <<users, thoughts, merging>>
    BY DEF startAuth
  <1>4. auth' = a /\ (LoggedIn => loggedIn(a, users))
    BY <1>2, <1>3 DEF dispatchAuth, LoggedIn, loggedIn
  <1>5. /\ auth' \in AuthState /\ timer' \in BOOLEAN /\ alert' \in BOOLEAN
        /\ screen' \in {"appearing", "auth", "presenting", "thoughts"}
        /\ PollingMatchesSession'
        /\ FeedNeedsSession'
    BY <1>1, <1>2, <1>3, <1>4, DispatchAuth
  <1>6. /\ reqs' \in [Slots -> Request]
        /\ reqs'[s].kind = "auth" /\ reqs'[s].fresh = FALSE
        /\ \A t \in Slots : t # s => reqs'[t] = reqs[t]
    BY <1>1, <1>3, RequestTypes
  <1>7. TypeOK'
    BY <1>3, <1>5, <1>6 DEF Inv, TypeOK
  <1>8. SessionIsSaved'
    BY <1>2, <1>3, <1>4 DEF Inv, SessionIsSaved
  <1>9. ThoughtsUnique'
    BY <1>3 DEF Inv, ThoughtsUnique
  <1>10. SpinnerHasRequest'
    BY <1>6 DEF SpinnerHasRequest
  <1>11. FreshPostIsConsistent'
    BY <1>2, <1>3, <1>4, <1>6 DEF Inv, FreshPostIsConsistent, find
  <1> QED
    BY <1>5, <1>7, <1>8, <1>9, <1>10, <1>11 DEF Inv

LEMMA AuthSuccessInv ==
    ASSUME Inv, NEW s \in Slots, authSuccess(s)
    PROVE  Inv'
  <1> DEFINE u == reqs[s].user
             us == saveUser(users, u)
             a == authSucceeded(u)
  <1>1. auth \in AuthState /\ users \in Seq(Users) /\ reqs \in [Slots -> Request]
    BY DEF Inv, TypeOK
  <1>2. /\ reqs[s].kind = "auth"
        /\ users' = us
        /\ dispatchAuth(a, us)
        /\ reqs' = [t \in Slots |->
                        IF t = s THEN firstPoll(a, us)
                        ELSE IF u # auth.currentUserId THEN Stale(reqs[t]) ELSE reqs[t]]
        /\ UNCHANGED <<thoughts, merging>>
    BY DEF authSuccess
  <1>3. u \in Users
    BY <1>1, <1>2, RequestTypes
  <1>4. us \in Seq(Users) /\ us # <<>> /\ Range(us) = Range(users) \cup {u}
    BY <1>1, <1>3, SaveUser
  <1>5. a \in AuthState /\ a.currentUserId = u /\ a.loading = FALSE
    BY <1>1, <1>3, AuthStates
  <1> HIDE DEF u, us, a
  <1>6. auth' = a /\ loggedIn(a, us)
    BY <1>2, <1>3, <1>4, <1>5, NilAssumption DEF dispatchAuth, loggedIn
  <1>7. a = auth => us = users
    <2> SUFFICES ASSUME a = auth PROVE us = users
      OBVIOUS
    <2>1. u \in Range(users)
      BY <1>3, <1>5, NilAssumption DEF Inv, SessionIsSaved
    <2> QED
      BY <2>1 DEF us, saveUser
  <1>8. /\ auth' \in AuthState /\ timer' \in BOOLEAN /\ alert' \in BOOLEAN
        /\ screen' \in {"appearing", "auth", "presenting", "thoughts"}
        /\ PollingMatchesSession'
        /\ FeedNeedsSession'
    BY <1>2, <1>4, <1>5, <1>6, <1>7, DispatchAuth
  <1>9. firstPoll(a, us) \in Request /\ firstPoll(a, us).fresh = FALSE
    BY <1>3, <1>5, RequestTypes DEF firstPoll
  <1>10. reqs' \in [Slots -> Request]
    BY <1>1, <1>2, <1>9, RequestTypes
  <1>11. TypeOK'
    BY <1>2, <1>4, <1>8, <1>10 DEF Inv, TypeOK
  <1>12. SessionIsSaved'
    BY <1>2, <1>3, <1>4, <1>5, <1>6, NilAssumption DEF SessionIsSaved
  <1>13. ThoughtsUnique'
    BY <1>2 DEF Inv, ThoughtsUnique
  <1>14. SpinnerHasRequest'
    BY <1>5, <1>6 DEF SpinnerHasRequest
  <1>15. FreshPostIsConsistent'
    <2> SUFFICES ASSUME NEW t \in Slots, reqs'[t].fresh
                 PROVE  /\ reqs'[t].author = auth'.currentUserId
                        /\ find(thoughts', reqs'[t].author, reqs'[t].text)
                        /\ reqs'[t].kind = "create" => reqs'[t].user = reqs'[t].author
      BY DEF FreshPostIsConsistent
    <2>1. t # s /\ u = auth.currentUserId /\ reqs'[t] = reqs[t]
      <3>1. CASE t = s
        BY <3>1, <1>2, <1>9
      <3>2. CASE t # s /\ u # auth.currentUserId
        BY <3>2, <1>1, <1>2, RequestTypes
      <3>3. CASE t # s /\ u = auth.currentUserId
        BY <3>3, <1>2
      <3> QED
        BY <3>1, <3>2, <3>3
    <2> QED
      BY <2>1, <1>2, <1>5, <1>6 DEF Inv, FreshPostIsConsistent, find
  <1> QED
    BY <1>8, <1>11, <1>12, <1>13, <1>14, <1>15 DEF Inv

LEMMA AuthFailureInv ==
    ASSUME Inv, NEW s \in Slots, NEW msg \in Messages, authFailure(s, msg)
    PROVE  Inv'
  <1> DEFINE a == authFailed(auth, msg)
  <1>1. auth \in AuthState /\ users \in Seq(Users) /\ reqs \in [Slots -> Request]
    BY DEF Inv, TypeOK
  <1>2. /\ reqs[s].kind = "auth"
        /\ dispatchAuth(a, users)
        /\ reqs' = [reqs EXCEPT ![s] = firstPoll(a, users)]
        /\ UNCHANGED <<users, thoughts, merging>>
    BY DEF authFailure
  <1>3. a \in AuthState /\ a.currentUserId = auth.currentUserId /\ a.loading = FALSE
    BY <1>1, AuthStates
  <1> HIDE DEF a
  <1>4. auth' = a /\ (LoggedIn <=> loggedIn(a, users))
    BY <1>2, <1>3 DEF dispatchAuth, LoggedIn, loggedIn
  <1>5. /\ auth' \in AuthState /\ timer' \in BOOLEAN /\ alert' \in BOOLEAN
        /\ screen' \in {"appearing", "auth", "presenting", "thoughts"}
        /\ PollingMatchesSession'
        /\ FeedNeedsSession'
    BY <1>1, <1>2, <1>3, <1>4, DispatchAuth
  <1>6. firstPoll(a, users) = Idle
    BY <1>4 DEF firstPoll, pollingAfter, Inv, PollingMatchesSession
  <1>7. /\ reqs' \in [Slots -> Request]
        /\ reqs'[s].fresh = FALSE
        /\ \A t \in Slots : t # s => reqs'[t] = reqs[t]
    BY <1>1, <1>2, <1>6, RequestTypes
  <1>8. TypeOK'
    BY <1>2, <1>5, <1>7 DEF Inv, TypeOK
  <1>9. SessionIsSaved' /\ ThoughtsUnique'
    BY <1>2, <1>3, <1>4 DEF Inv, SessionIsSaved, ThoughtsUnique
  <1>10. SpinnerHasRequest'
    BY <1>3, <1>4 DEF SpinnerHasRequest
  <1>11. FreshPostIsConsistent'
    BY <1>2, <1>3, <1>4, <1>7 DEF Inv, FreshPostIsConsistent, find
  <1> QED
    BY <1>5, <1>8, <1>9, <1>10, <1>11 DEF Inv

LEMMA LogoutInv ==
    ASSUME Inv, logoutAction
    PROVE  Inv'
  <1>1. /\ users' = <<>> /\ thoughts' = noThoughts /\ auth' = emptyAuthState
        /\ timer' = pollingAfter(emptyAuthState, <<>>)
        /\ screen' = "appearing"
        /\ reqs' = [s \in Slots |-> Stale(reqs[s])]
        /\ UNCHANGED <<merging, alert>>
    BY DEF logoutAction
  <1>2. /\ auth \in AuthState /\ reqs \in [Slots -> Request]
        /\ screen = "thoughts"
    BY DEF Inv, TypeOK, logoutAction
  <1>3. /\ emptyAuthState \in AuthState
        /\ emptyAuthState.currentUserId = Nil
        /\ emptyAuthState.loading = FALSE
    BY <1>2, AuthStates
  <1>4. timer' = FALSE
    <2>1. auth # emptyAuthState
      BY <1>2, <1>3 DEF Inv, FeedNeedsSession, LoggedIn, loggedIn
    <2> QED
      BY <1>1, <1>3, <2>1 DEF pollingAfter, loggedIn
  <1>5. reqs' \in [Slots -> Request] /\ \A s \in Slots : reqs'[s].fresh = FALSE
    BY <1>1, <1>2, RequestTypes
  <1>6. thoughts' \in [Thought -> Nat] /\ \A th \in Thought : thoughts'[th] = 0
    BY <1>1 DEF noThoughts
  <1>7. TypeOK'
    <2>1. users' \in Seq(Users)
      BY <1>1
    <2>2. timer' \in BOOLEAN
      BY <1>4
    <2> QED
      BY <1>1, <1>3, <1>5, <1>6, <2>1, <2>2 DEF Inv, TypeOK
  <1>8. SessionIsSaved' /\ FeedNeedsSession' /\ PollingMatchesSession'
    BY <1>1, <1>3, <1>4 DEF SessionIsSaved, FeedNeedsSession, PollingMatchesSession,
                            LoggedIn, loggedIn
  <1>9. ThoughtsUnique'
    BY <1>6 DEF ThoughtsUnique
  <1>10. SpinnerHasRequest' /\ FreshPostIsConsistent'
    BY <1>1, <1>3, <1>5 DEF SpinnerHasRequest, FreshPostIsConsistent
  <1> QED
    BY <1>7, <1>8, <1>9, <1>10 DEF Inv

\* Storing one thought and filling one slot, as the loop of fetchThoughtsAction
\* and the logged-in branch of createThoughtAction do.
LEMMA StoreThoughtInv ==
    ASSUME Inv, NEW th \in Thought,
           thoughts' = saveIfAbsent(thoughts, th),
           merging' \in Seq(Thought),
           reqs' \in [Slots -> Request],
           \A s \in Slots :
             \/ reqs'[s] = reqs[s]
             \/ /\ reqs[s].kind # "auth"
                /\ reqs'[s].fresh => /\ reqs'[s].author = auth.currentUserId
                                     /\ reqs'[s].author = th.by /\ reqs'[s].text = th.text
                                     /\ reqs'[s].kind = "create" => reqs'[s].user = reqs'[s].author,
           UNCHANGED <<users, auth, timer, screen, alert>>
    PROVE  Inv'
  <1>1. thoughts \in [Thought -> Nat] /\ Unique(thoughts) /\ reqs \in [Slots -> Request]
    BY DEF Inv, TypeOK, ThoughtsUnique, Unique
  <1>2. /\ thoughts' \in [Thought -> Nat]
        /\ Unique(thoughts')
        /\ find(thoughts', th.by, th.text)
        /\ \A by \in Users, text \in Texts : find(thoughts, by, text) => find(thoughts', by, text)
    BY <1>1, SaveThought
  <1>3. TypeOK'
    BY <1>2 DEF Inv, TypeOK
  <1>4. ThoughtsUnique'
    BY <1>2 DEF ThoughtsUnique, Unique
  <1>5. SpinnerHasRequest'
    BY DEF Inv, SpinnerHasRequest
  <1>6. FreshPostIsConsistent'
    <2> SUFFICES ASSUME NEW t \in Slots, reqs'[t].fresh
                 PROVE  /\ reqs'[t].author = auth.currentUserId
                        /\ find(thoughts', reqs'[t].author, reqs'[t].text)
                        /\ reqs'[t].kind = "create" => reqs'[t].user = reqs'[t].author
      BY DEF FreshPostIsConsistent
    <2>1. CASE reqs'[t] = reqs[t]
      <3>1. reqs[t].fresh /\ reqs[t] \in Post \cup Retry
        BY <2>1, <1>1, RequestTypes
      <3>2. reqs[t].author \in Users /\ reqs[t].text \in Texts
        BY <3>1 DEF Post, Retry
      <3> QED
        BY <2>1, <3>1, <3>2, <1>2 DEF Inv, FreshPostIsConsistent
    <2>2. CASE reqs'[t] # reqs[t]
      BY <2>2, <1>2
    <2> QED
      BY <2>1, <2>2
  <1>7. SessionIsSaved' /\ PollingMatchesSession' /\ FeedNeedsSession'
    BY DEF Inv, SessionIsSaved, PollingMatchesSession, FeedNeedsSession, LoggedIn, loggedIn
  <1> QED
    BY <1>3, <1>4, <1>5, <1>6, <1>7 DEF Inv

LEMMA StoreNextInv ==
    ASSUME Inv, storeNext
    PROVE  Inv'
  <1>1. merging \in Seq(Thought) /\ merging # <<>> /\ reqs \in [Slots -> Request]
    BY DEF Inv, TypeOK, storeNext, mainIdle
  <1>2. Head(merging) \in Thought /\ Tail(merging) \in Seq(Thought)
    BY <1>1
  <1> QED
    BY <1>1, <1>2, StoreThoughtInv DEF storeNext

LEMMA CreateThoughtInv ==
    ASSUME Inv, NEW s \in Slots, NEW text \in Texts, NEW author \in Users \cup {Nil},
           NEW fresh \in BOOLEAN,
           reqs[s].kind # "auth",
           LoggedIn => author \in Users,
           fresh => author = auth.currentUserId,
           createThought(s, text, author, fresh)
    PROVE  Inv'
  <1> DEFINE u == auth.currentUserId
             r == [kind |-> "create", user |-> u, text |-> text, author |-> author, fresh |-> fresh]
  <1>1. /\ reqs \in [Slots -> Request] /\ auth \in AuthState /\ merging \in Seq(Thought)
        /\ UNCHANGED <<users, auth, merging, timer, screen, alert>>
    BY DEF Inv, TypeOK, createThought
  <1>2. CASE LoggedIn
    <2>1. /\ thoughts' = saveIfAbsent(thoughts, [by |-> u, text |-> text])
          /\ reqs' = [reqs EXCEPT ![s] = r]
      BY <1>2 DEF createThought, LoggedIn
    <2>2. u \in Users /\ author \in Users
      BY <1>1, <1>2 DEF LoggedIn, loggedIn, AuthState
    <2>3. [by |-> u, text |-> text] \in Thought
      BY <2>2 DEF Thought
    <2>4. r \in Post
      BY <2>2 DEF Post
    <2>5. reqs' \in [Slots -> Request] /\ reqs'[s] = r /\ \A t \in Slots : t # s => reqs'[t] = reqs[t]
      BY <1>1, <2>1, <2>4 DEF Request
    <2>6. \A t \in Slots :
             \/ reqs'[t] = reqs[t]
             \/ /\ reqs[t].kind # "auth"
                /\ reqs'[t].fresh => /\ reqs'[t].author = auth.currentUserId
                                     /\ reqs'[t].author = u /\ reqs'[t].text = text
                                     /\ reqs'[t].kind = "create" => reqs'[t].user = reqs'[t].author
      BY <2>5
    <2>7. [by |-> u, text |-> text].by = u /\ [by |-> u, text |-> text].text = text
      OBVIOUS
    <2> HIDE DEF u, r
    <2> QED
      BY <1>1, <2>1, <2>3, <2>5, <2>6, <2>7, StoreThoughtInv
  <1>3. CASE ~LoggedIn
    <2>1. reqs' = [reqs EXCEPT ![s] = Idle] /\ UNCHANGED thoughts
      BY <1>3 DEF createThought, LoggedIn
    <2> QED
      BY <1>1, <2>1, RequestTypes, SlotChange
  <1> QED
    BY <1>2, <1>3

LEMMA LaunchInv ==
    ASSUME Inv, NEW s \in Slots, launch(s)
    PROVE  Inv'
  <1> DEFINE a == loadAppState(users)
             r == IF loggedIn(a, users) THEN Fetch(a.currentUserId) ELSE Idle
  <1>1. /\ auth' = a /\ timer' = loggedIn(a, users)
        /\ reqs' = [[t \in Slots |-> Idle] EXCEPT ![s] = r]
        /\ merging' = <<>> /\ screen' = "appearing" /\ alert' = FALSE
        /\ UNCHANGED <<users, thoughts>>
    BY DEF launch
  <1>2. users \in Seq(Users)
    BY DEF Inv, TypeOK
  <1>3. /\ a \in AuthState /\ a.loading = FALSE
        /\ users = <<>> => a.currentUserId = Nil
        /\ users # <<>> => a.currentUserId = Head(users)
    <2>1. users # <<>> => Head(users) \in Users
      BY <1>2, HeadInRange
    <2> QED
      BY <2>1 DEF loadAppState, emptyAuthState, AuthState
  <1>4. a.currentUserId # Nil => a.currentUserId \in Users /\ a.currentUserId \in Range(users)
    BY <1>2, <1>3, HeadInRange
  <1>5. users # <<>> => a.currentUserId # Nil
    BY <1>2, <1>3, HeadInRange, NilAssumption
  <1> HIDE DEF a
  <1>6. r \in Request /\ r.fresh = FALSE
    BY <1>4, RequestTypes DEF loggedIn
  <1> HIDE DEF r
  <1>7. reqs' \in [Slots -> Request] /\ \A t \in Slots : reqs'[t].fresh = FALSE
    BY <1>1, <1>6, RequestTypes
  <1>8. TypeOK'
    <2>1. timer' \in BOOLEAN /\ alert' \in BOOLEAN
      BY <1>1 DEF loggedIn
    <2>2. merging' \in Seq(Thought)
      BY <1>1
    <2> QED
      BY <1>1, <1>3, <1>7, <2>1, <2>2 DEF Inv, TypeOK
  <1>9. SessionIsSaved' /\ PollingMatchesSession' /\ FeedNeedsSession' /\ ThoughtsUnique'
    BY <1>1, <1>4, <1>5 DEF Inv, SessionIsSaved, PollingMatchesSession, FeedNeedsSession,
                            ThoughtsUnique, LoggedIn, loggedIn
  <1>10. SpinnerHasRequest' /\ FreshPostIsConsistent'
    BY <1>1, <1>3, <1>7 DEF SpinnerHasRequest, FreshPostIsConsistent
  <1> QED
    BY <1>8, <1>9, <1>10 DEF Inv

\* Screen changes touch neither the database, nor the session, nor a request.
LEMMA ScreenInv ==
    ASSUME Inv, authDidAppear \/ thoughtsDidAppear \/ dismissAlert \/ UNCHANGED vars
    PROVE  Inv'
  <1>1. UNCHANGED <<users, thoughts, auth, reqs, merging, timer>>
    BY DEF authDidAppear, thoughtsDidAppear, dismissAlert, vars
  <1>2. /\ screen' \in {"appearing", "auth", "presenting", "thoughts"}
        /\ screen' \in {"presenting", "thoughts"} => LoggedIn
    BY DEF Inv, TypeOK, FeedNeedsSession, LoggedIn,
           authDidAppear, thoughtsDidAppear, dismissAlert, vars
  <1>3. alert' \in BOOLEAN
    BY DEF Inv, TypeOK, authDidAppear, thoughtsDidAppear, dismissAlert, vars
  <1>4. TypeOK'
    BY <1>1, <1>2, <1>3 DEF Inv, TypeOK
  <1>5. FeedNeedsSession' /\ PollingMatchesSession' /\ SessionIsSaved'
    BY <1>1, <1>2 DEF Inv, FeedNeedsSession, PollingMatchesSession, SessionIsSaved,
                      LoggedIn, loggedIn
  <1>6. ThoughtsUnique' /\ SpinnerHasRequest' /\ FreshPostIsConsistent'
    BY <1>1 DEF Inv, ThoughtsUnique, SpinnerHasRequest, FreshPostIsConsistent, find
  <1> QED
    BY <1>4, <1>5, <1>6 DEF Inv

LEMMA NextInv ==
    ASSUME Inv, [Next]_vars
    PROVE  Inv'
  <1>1. reqs \in [Slots -> Request] /\ auth \in AuthState /\ merging \in Seq(Thought)
    BY DEF Inv, TypeOK
  <1>2. ASSUME NEW s \in Slots, NEW u \in Users, loginAction(s, u) \/ createUserAction(s, u)
        PROVE  Inv'
    BY <1>2, StartAuthInv DEF loginAction, createUserAction
  <1>3. ASSUME NEW s \in Slots, pollTick(s)
        PROVE  Inv'
    <2>1. auth.currentUserId \in Users
      BY <1>1, <1>3 DEF pollTick, loggedIn, AuthState
    <2> QED
      BY <1>1, <1>3, <2>1, RequestTypes, SlotChange DEF pollTick
  <1>4. ASSUME NEW s \in Slots, fetchSuccess(s)
        PROVE  Inv'
    <2>1. merging' \in Seq(Thought)
      BY <1>4 DEF fetchSuccess, Answers
    <2> QED
      BY <1>4, <2>1, RequestTypes, SlotChange DEF fetchSuccess
  <1>5. ASSUME NEW s \in Slots, fetchFailure(s) \/ createSuccess(s)
        PROVE  Inv'
    BY <1>1, <1>5, RequestTypes, SlotChange DEF fetchFailure, createSuccess
  <1>6. ASSUME NEW s \in Slots, NEW text \in Texts, postThoughtPressed(s, text)
        PROVE  Inv'
    <2>1. reqs[s].kind # "auth" /\ createThought(s, text, auth.currentUserId, TRUE)
      BY <1>6, RequestTypes DEF postThoughtPressed
    <2>2. /\ auth.currentUserId \in Users \cup {Nil}
          /\ LoggedIn => auth.currentUserId \in Users
      BY <1>1 DEF AuthState, LoggedIn, loggedIn
    <2> QED
      BY <2>1, <2>2, CreateThoughtInv
  <1>7. ASSUME NEW s \in Slots, createFailure(s)
        PROVE  Inv'
    <2> DEFINE r == [reqs[s] EXCEPT !.kind = "retry", !.user = Nil]
    <2>1. reqs[s] \in Post /\ reqs[s].kind = "create"
      BY <1>1, <1>7, RequestTypes DEF createFailure
    <2>2. r \in Retry /\ r.fresh = reqs[s].fresh /\ r.author = reqs[s].author
          /\ r.text = reqs[s].text /\ r.kind = "retry"
      BY <2>1 DEF Post, Retry
    <2>3. reqs' = [reqs EXCEPT ![s] = r]
      BY <1>1, <1>7 DEF createFailure
    <2>4. r.fresh => r.author = auth.currentUserId /\ find(thoughts, r.author, r.text)
      BY <2>2 DEF Inv, FreshPostIsConsistent
    <2>5. r \in Request
      BY <2>2 DEF Request
    <2> HIDE DEF r
    <2> QED
      BY <1>1, <1>7, <2>1, <2>2, <2>3, <2>4, <2>5, SlotChange DEF createFailure
  <1>8. ASSUME NEW s \in Slots, retryCreate(s)
        PROVE  Inv'
    <2>1. reqs[s] \in Retry /\ reqs[s].kind = "retry"
      BY <1>1, <1>8, RequestTypes DEF retryCreate
    <2>2. /\ reqs[s].text \in Texts /\ reqs[s].author \in Users /\ reqs[s].fresh \in BOOLEAN
          /\ reqs[s].fresh => reqs[s].author = auth.currentUserId
      BY <2>1 DEF Retry, Inv, FreshPostIsConsistent
    <2> QED
      BY <1>8, <2>1, <2>2, CreateThoughtInv DEF retryCreate
  <1> QED
    BY <1>2, <1>3, <1>4, <1>5, <1>6, <1>7, <1>8, AuthSuccessInv, AuthFailureInv, LogoutInv,
       StoreNextInv, LaunchInv, ScreenInv DEF Next, SlotStep
-----------------------------------------------------------------------------
(* The theorems.                                                           *)

\* The inductive invariant holds throughout, relaunches included.
THEOREM Invariant == Spec => []Inv
  <1>1. Init => Inv
    BY InitInv
  <1>2. Inv /\ [Next]_vars => Inv'
    BY NextInv
  <1> QED
    BY <1>1, <1>2, PTL DEF Spec

\* Type correctness of the store, the database and the outstanding requests.
THEOREM Typed == Spec => []TypeOK
  <1>1. Inv => TypeOK
    BY DEF Inv
  <1> QED
    BY <1>1, Invariant, PTL

\* The store and the database agree on whether there is a session, whatever
\* answers arrive late: a relaunch never loses or invents one.
THEOREM SessionSaved == Spec => []SessionIsSaved
  <1>1. Inv => SessionIsSaved
    BY DEF Inv
  <1> QED
    BY <1>1, Invariant, PTL

\* The polling timer of ThoughtsSyncService is valid exactly while somebody is
\* logged in.
THEOREM PollingFollowsSession == Spec => []PollingMatchesSession
  <1>1. Inv => PollingMatchesSession
    BY DEF Inv
  <1> QED
    BY <1>1, Invariant, PTL

\* Thought.find followed by save() never leaves two rows of one author whose
\* texts differ at most in case, even if the process dies between two saves.
THEOREM NoDuplicateThoughts == Spec => []ThoughtsUnique
  <1>1. Inv => ThoughtsUnique
    BY DEF Inv
  <1> QED
    BY <1>1, Invariant, PTL

\* The spinner turns only while a sign-in or sign-up is in flight.
THEOREM SpinnerJustified == Spec => []SpinnerHasRequest
  <1>1. Inv => SpinnerHasRequest
    BY DEF Inv
  <1> QED
    BY <1>1, Invariant, PTL

\* In the session it was typed in, a thought that is being sent is in the
\* database and goes out with its author's token.
THEOREM FreshPostsConsistent == Spec => []FreshPostIsConsistent
  <1>1. Inv => FreshPostIsConsistent
    BY DEF Inv
  <1> QED
    BY <1>1, Invariant, PTL

\* The list of thoughts is shown to a logged-in user only.
THEOREM FeedSession == Spec => []FeedNeedsSession
  <1>1. Inv => FeedNeedsSession
    BY DEF Inv
  <1> QED
    BY <1>1, Invariant, PTL

\* A step of the action property, from the invariant.
LEMMA SessionStep ==
    ASSUME Inv, Inv', [Next]_vars
    PROVE  /\ LoggedIn /\ ~LoggedIn' => logoutAction
           /\ ~LoggedIn /\ LoggedIn' => \E s \in Slots : authSuccess(s)
  <1>1. CASE logoutAction
    <2>1. LoggedIn
      BY <1>1 DEF logoutAction, Inv, FeedNeedsSession
    <2> QED
      BY <1>1, <2>1
  <1>2. CASE \E s \in Slots : authSuccess(s)
    <2>1. PICK s \in Slots : authSuccess(s)
      BY <1>2
    <2>2. reqs[s].user \in Users
      BY <2>1, RequestTypes DEF Inv, TypeOK, authSuccess
    <2>3. auth' = authSucceeded(reqs[s].user)
      BY <2>1 DEF authSuccess, dispatchAuth
    <2>4. auth'.currentUserId # Nil
      BY <2>2, <2>3, NilAssumption DEF authSucceeded
    <2>5. LoggedIn'
      BY <2>4 DEF Inv, SessionIsSaved, LoggedIn, loggedIn
    <2> QED
      BY <1>2, <2>5
  <1>3. CASE \E s \in Slots : launch(s)
    <2>1. PICK s \in Slots : launch(s)
      BY <1>3
    <2>2. users' = users
      BY <2>1 DEF launch
    <2>3. LoggedIn <=> users # <<>>
      BY RangeEmpty DEF Inv, SessionIsSaved, LoggedIn, loggedIn
    <2>4. LoggedIn' <=> users' # <<>>
      BY RangeEmpty DEF Inv, SessionIsSaved, LoggedIn, loggedIn
    <2> QED
      BY <2>2, <2>3, <2>4
  <1>4. ASSUME auth'.currentUserId = auth.currentUserId, users' = users
        PROVE  LoggedIn' <=> LoggedIn
    BY <1>4 DEF LoggedIn, loggedIn
  <1>5. auth \in AuthState
    BY DEF Inv, TypeOK
  <1>6. CASE \E s \in Slots, u \in Users : loginAction(s, u) \/ createUserAction(s, u)
    <2>1. users' = users /\ auth' = authLoading(auth)
      BY <1>6 DEF loginAction, createUserAction, startAuth, dispatchAuth
    <2> QED
      BY <2>1, <1>4, <1>5, AuthStates
  <1>7. CASE \E s \in Slots, msg \in Messages : authFailure(s, msg)
    <2>1. PICK s \in Slots, msg \in Messages : authFailure(s, msg)
      BY <1>7
    <2>2. users' = users /\ auth' = authFailed(auth, msg)
      BY <2>1 DEF authFailure, dispatchAuth
    <2> QED
      BY <2>2, <1>4, <1>5, AuthStates
  <1>8. CASE UNCHANGED <<users, auth>>
    BY <1>8, <1>4
  <1>9. ASSUME NEW s \in Slots,
               \/ pollTick(s) \/ fetchSuccess(s) \/ fetchFailure(s)
               \/ createSuccess(s) \/ createFailure(s) \/ retryCreate(s)
               \/ \E text \in Texts : postThoughtPressed(s, text)
        PROVE  UNCHANGED <<users, auth>>
    BY <1>9 DEF pollTick, fetchSuccess, fetchFailure, createSuccess, createFailure,
                retryCreate, postThoughtPressed, createThought
  <1>10. ASSUME storeNext \/ authDidAppear \/ thoughtsDidAppear \/ dismissAlert \/ UNCHANGED vars
         PROVE  UNCHANGED <<users, auth>>
    BY <1>10 DEF storeNext, authDidAppear, thoughtsDidAppear, dismissAlert, vars
  <1> QED
    BY <1>1, <1>2, <1>3, <1>6, <1>7, <1>8, <1>9, <1>10 DEF Next, SlotStep

\* Sessions start by the answer to a sign-in and end by logout, never by a
\* failed second sign-in or by a relaunch.
THEOREM SessionChanges == Spec => SessionChangesOnlyByAuth
  <1>1. Inv /\ Inv' /\ [Next]_vars =>
          [ /\ LoggedIn /\ ~LoggedIn' => logoutAction
            /\ ~LoggedIn /\ LoggedIn' => \E s \in Slots : authSuccess(s) ]_vars
    BY SessionStep
  <1> QED
    BY <1>1, Invariant, PTL DEF Spec, SessionChangesOnlyByAuth
=============================================================================
