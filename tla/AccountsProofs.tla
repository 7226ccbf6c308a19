--------------------------- MODULE AccountsProofs ---------------------------
(***************************************************************************)
(* The server implements Accounts: with the tables read as a set of        *)
(* accounts, every step of a thread is a whole sign-up or sign-in, the     *)
(* delivery of an answer, or no step at all.                               *)
(***************************************************************************)
EXTENDS ServerProofs

\* The set of accounts, in terms of rows.
LEMMA AccountRows ==
    /\ \A n, p : [name |-> n, password |-> p] \in accountSet
                   <=> \E i \in DOMAIN users : users[i].username = n /\ users[i].password = p
    /\ \A n : (\E a \in accountSet : a.name = n) <=> rowsNamed(n) # {}
  <1>1. ASSUME NEW n, NEW p
        PROVE  [name |-> n, password |-> p] \in accountSet
                 <=> \E i \in DOMAIN users : users[i].username = n /\ users[i].password = p
    <2>1. \A i : [name |-> n, password |-> p] =
                 [name |-> users[i].username, password |-> users[i].password]
                 <=> users[i].username = n /\ users[i].password = p
      OBVIOUS
    <2> QED
      BY <2>1 DEF accountSet
  <1>2. ASSUME NEW n PROVE (\E a \in accountSet : a.name = n) <=> rowsNamed(n) # {}
    <2>1. ASSUME NEW a \in accountSet, a.name = n PROVE rowsNamed(n) # {}
      <3>1. PICK i \in DOMAIN users :
                a = [name |-> users[i].username, password |-> users[i].password]
        BY DEF accountSet
      <3>2. i \in rowsNamed(n)
        BY <2>1, <3>1 DEF rowsNamed
      <3> QED
        BY <3>2
    <2>2. ASSUME rowsNamed(n) # {} PROVE \E a \in accountSet : a.name = n
      <3>1. PICK i : i \in DOMAIN users /\ users[i].username = n
        BY <2>2 DEF rowsNamed
      <3> DEFINE a == [name |-> users[i].username, password |-> users[i].password]
      <3>2. a \in accountSet
        BY <3>1 DEF accountSet
      <3>3. a.name = n
        BY <3>1
      <3> QED
        BY <3>2, <3>3
    <2> QED
      BY <2>1, <2>2
  <1> QED
    BY <1>1, <1>2

\* A step that changes one thread changes that thread's verdict.
LEMMA VerdictChange ==
    ASSUME Inv, NEW t \in Threads, NEW j, goto(t, j)
    PROVE  /\ verdicts' = [verdicts EXCEPT ![t] = verdictOf(j)]
           /\ verdicts[t] = verdictOf(threads[t])
           /\ verdictOf(j) = verdictOf(threads[t]) => verdicts' = verdicts
  <1>1. threads \in [Threads -> Job]
    BY DEF Inv, TypeOK
  <1>2. \A x \in Threads : threads'[x] = IF x = t THEN j ELSE threads[x]
    BY <1>1 DEF goto
  <1> QED
    BY <1>2 DEF verdicts

\* What the verdict on a request is.
LEMMA Unasked ==
    ASSUME NEW job, job.op \notin {"users#create", "users#authenticate"}
    PROVE  verdictOf(job) = A!None
  BY DEF verdictOf, A!None

LEMMA Undecided ==
    ASSUME NEW job, job.pc \notin {"issue_token", "answered"}
    PROVE  verdictOf(job) = A!None
  BY DEF verdictOf, A!None

LEMMA Unnamed ==
    ASSUME NEW job, job.username = Blank \/ job.password = Blank
    PROVE  verdictOf(job) = A!None
  BY DEF verdictOf, named, A!None

LEMMA RefusedJob ==
    ASSUME NEW job, job.op \in {"users#create", "users#authenticate"},
           job.username # Blank, job.password # Blank,
           job.pc = "answered", job.status \notin {200, 201}
    PROVE  verdictOf(job) = A!Refused
  BY DEF verdictOf, named, A!Refused

LEMMA GrantedJob ==
    ASSUME NEW job, Holds(job), job.username # Blank, job.password # Blank
    PROVE  verdictOf(job) = A!Granted(Lower[job.username])
  BY DEF verdictOf, named, Holds, A!Granted

\* The accounts are those of the users table.
LEMMA AccountsKept == UNCHANGED users => UNCHANGED accountSet
  BY DEF accountSet

-----------------------------------------------------------------------------
(* One lemma per action.                                                   *)

AbstractStep == A!Next \/ UNCHANGED <<accountSet, verdicts>>

\* Blank is neither a name nor a password, and lower-case names are names.
LEMMA NamesAndBlank ==
    /\ Blank \notin Names /\ Blank \notin Passwords
    /\ \A n \in Names : Lower[n] \in Names
  BY BlankAssumption, LowerAssumption

\* An action of Accounts by one thread is a step of Accounts.
LEMMA AbstractAction ==
    ASSUME NEW t \in Threads, NEW n \in Names, NEW p \in Passwords,
           \/ A!SignUp(t, n, p) \/ A!SignIn(t, n, p)
           \/ A!RefuseSignUp(t, n, p) \/ A!RefuseSignIn(t, n, p)
    PROVE  AbstractStep
  BY DEF AbstractStep, A!Next

\* There is a reason to refuse a request.
Refusable(job) ==
    \/ /\ job.op = "users#create"
       /\ rowsNamed(Lower[job.username]) # {} \/ job.password \in TooLong
    \/ /\ job.op = "users#authenticate"
       /\ [name |-> Lower[job.username], password |-> job.password] \notin accountSet

\* A thread that had no verdict refuses, for a reason.
LEMMA RefusalStep ==
    ASSUME Inv, NEW t \in Threads, NEW job \in Job, NEW status \in Statuses \ {200, 201},
           job.username \in Names, job.password \in Passwords,
           verdictOf(threads[t]) = A!None,
           Refusable(job), render(t, job, status), UNCHANGED users
    PROVE  AbstractStep
  <1> DEFINE new == answered(job, status)
  <1>1. goto(t, new)
    BY DEF render
  <1>2. /\ new.pc = "answered" /\ new.status = status /\ new.op = job.op
        /\ new.username = job.username /\ new.password = job.password
    BY AnsweredJob
  <1> HIDE DEF new
  <1>3. verdictOf(new) = A!Refused
    BY <1>2, RefusedJob, NamesAndBlank DEF Refusable
  <1>4. verdicts[t] = A!None /\ verdicts' = [verdicts EXCEPT ![t] = A!Refused]
    BY <1>1, <1>3, VerdictChange
  <1>5. Lower[job.username] \in Names /\ UNCHANGED accountSet
    BY NamesAndBlank, AccountsKept
  <1>6. \/ A!RefuseSignUp(t, Lower[job.username], job.password)
        \/ A!RefuseSignIn(t, Lower[job.username], job.password)
    BY <1>4, <1>5, AccountRows DEF Refusable, A!RefuseSignUp, A!RefuseSignIn, A!taken
  <1> QED
    BY <1>5, <1>6, AbstractAction

\* A step of a thread that leaves the users alone and its verdict as it was.
LEMMA SilentStep ==
    ASSUME Inv, NEW t \in Threads, NEW j, goto(t, j), verdictOf(j) = verdictOf(threads[t]),
           UNCHANGED users
    PROVE  AbstractStep
  BY VerdictChange, AccountsKept DEF AbstractStep

\* A free thread has no verdict.
LEMMA FreeThread ==
    ASSUME NEW t \in Threads, threads[t].pc = "free"
    PROVE  verdictOf(threads[t]) = A!None
  BY Undecided

LEMMA CreateUserStep ==
    ASSUME Inv, NEW t \in Threads, NEW username \in Names \cup {Blank},
           NEW password \in Passwords \cup {Blank}, createUser(t, username, password)
    PROVE  AbstractStep
  <1> DEFINE job == asked("users#create", username, password)
  <1>1. /\ job \in Job /\ job.op = "users#create"
        /\ job.username = username /\ job.password = password
    <2>1. "users#create" \in Routes
      BY DEF Routes
    <2> QED
      BY <2>1, Asked
  <1>2. threads[t].pc = "free" /\ UNCHANGED users
    BY DEF createUser
  <1>3. 400 \in Statuses \ {200, 201} /\ "create_user" \in Phases
    BY DEF Statuses, Phases
  <1>4. CASE (username = Blank \/ password = Blank) /\ render(t, job, 400)
    <2>1. /\ answered(job, 400).username = username /\ answered(job, 400).password = password
      BY <1>1, <1>3, AnsweredJob
    <2>2. verdictOf(answered(job, 400)) = A!None
      BY <1>4, <2>1, Unnamed
    <2> QED
      BY <1>2, <1>4, <2>2, FreeThread, SilentStep DEF render
  <1>5. CASE /\ username # Blank /\ password # Blank /\ rowsNamed(Lower[username]) # {}
             /\ render(t, job, 400)
    <2>1. job.username \in Names /\ job.password \in Passwords
      BY <1>1, <1>5
    <2>2. verdictOf(threads[t]) = A!None
      BY <1>2, FreeThread
    <2> HIDE DEF job
    <2>3. Refusable(job)
      BY <1>1, <1>5, <2>1 DEF Refusable
    <2> QED
      BY <1>1, <1>2, <1>3, <1>5, <2>1, <2>2, <2>3, RefusalStep
  <1>6. CASE goto(t, at(job, "create_user"))
    <2>1. at(job, "create_user").pc = "create_user"
      BY <1>1, <1>3, At
    <2>2. verdictOf(at(job, "create_user")) = A!None
      BY <2>1, Undecided
    <2> QED
      BY <1>2, <1>6, <2>2, FreeThread, SilentStep
  <1> QED
    BY <1>4, <1>5, <1>6 DEF createUser

LEMMA AuthenticateStep ==
    ASSUME Inv, NEW t \in Threads, NEW username \in Names \cup {Blank},
           NEW password \in Passwords \cup {Blank}, authenticate(t, username, password)
    PROVE  AbstractStep
  <1> DEFINE job == asked("users#authenticate", username, password)
  <1>1. /\ job \in Job /\ job.op = "users#authenticate"
        /\ job.username = username /\ job.password = password
    <2>1. "users#authenticate" \in Routes
      BY DEF Routes
    <2> QED
      BY <2>1, Asked
  <1>2. threads[t].pc = "free" /\ UNCHANGED users
    BY DEF authenticate
  <1>3. {400, 401} \subseteq Statuses \ {200, 201} /\ "verify" \in Phases
    BY DEF Statuses, Phases
  <1>4. CASE (username = Blank \/ password = Blank) /\ render(t, job, 400)
    <2>1. /\ answered(job, 400).username = username /\ answered(job, 400).password = password
      BY <1>1, <1>3, AnsweredJob
    <2>2. verdictOf(answered(job, 400)) = A!None
      BY <1>4, <2>1, Unnamed
    <2> QED
      BY <1>2, <1>4, <2>2, FreeThread, SilentStep DEF render
  <1>5. CASE /\ username # Blank /\ password # Blank /\ rowsNamed(Lower[username]) = {}
             /\ render(t, job, 401)
    <2>1. /\ [name |-> Lower[job.username], password |-> job.password] \notin accountSet
          /\ job.username \in Names /\ job.password \in Passwords
      BY <1>1, <1>5, AccountRows DEF rowsNamed
    <2>2. verdictOf(threads[t]) = A!None
      BY <1>2, FreeThread
    <2> HIDE DEF job
    <2>3. Refusable(job)
      BY <1>1, <1>5, <2>1 DEF Refusable
    <2> QED
      BY <1>1, <1>2, <1>3, <1>5, <2>1, <2>2, <2>3, RefusalStep
  <1>6. CASE goto(t, at(job, "verify"))
    <2>1. at(job, "verify").pc = "verify"
      BY <1>1, <1>3, At
    <2>2. verdictOf(at(job, "verify")) = A!None
      BY <2>1, Undecided
    <2> QED
      BY <1>2, <1>6, <2>2, FreeThread, SilentStep
  <1> QED
    BY <1>4, <1>5, <1>6 DEF authenticate

LEMMA InsertUserStep ==
    ASSUME Inv, NEW t \in Threads, insertUser(t)
    PROVE  AbstractStep
  <1> DEFINE job == threads[t]
             name == Lower[job.username]
             row == [username |-> name, password |-> job.password]
             account == [name |-> name, password |-> job.password]
             new == created(job, Len(users) + 1)
  <1>1. WellFormed(job) /\ job.pc = "create_user" /\ job \in Job
    BY DEF Inv, TypeOK, insertUser
  <1>2. job.op = "users#create" /\ job.username \in Names /\ job.password \in Passwords
    BY <1>1 DEF WellFormed
  <1>3. verdictOf(job) = A!None
    BY <1>1, Undecided
  <1>4. CASE /\ job.password \in TooLong \/ rowsNamed(name) # {}
             /\ \E status \in {422, 500} : render(t, job, status)
             /\ UNCHANGED users
    <2>1. {422, 500} \subseteq Statuses \ {200, 201}
      BY DEF Statuses
    <2>2. PICK status \in {422, 500} : render(t, job, status)
      BY <1>4
    <2>3. status \in Statuses \ {200, 201}
      BY <2>1
    <2>4. Refusable(job)
      BY <1>2, <1>4 DEF Refusable
    <2> QED
      BY <1>1, <1>2, <1>3, <1>4, <2>2, <2>3, <2>4, RefusalStep
  <1>5. CASE /\ job.password \notin TooLong /\ rowsNamed(name) = {}
             /\ users' = Append(users, row) /\ goto(t, new)
    <2>1. row \in User
      BY <1>2, <1>5, NamesAndBlank DEF User
    <2>2. users \in Seq(User)
      BY DEF Inv, TypeOK
    <2>3. /\ DOMAIN users' = DOMAIN users \cup {Len(users) + 1} /\ Len(users) + 1 \in Nat
          /\ \A i \in DOMAIN users : users'[i] = users[i]
          /\ users'[Len(users) + 1] = row
      BY <1>5, <2>1, <2>2, Grows
    <2>4. accountSet' = accountSet \cup {account}
      BY <2>3 DEF accountSet
    <2>5. /\ new.pc = "issue_token" /\ new.op = "users#create"
          /\ new.username = job.username /\ new.password = job.password
      BY <1>1, <1>2, <2>3, Created
    <2> HIDE DEF new
    <2>6. verdictOf(new) = A!Granted(name)
      BY <1>2, <2>5, GrantedJob, NamesAndBlank DEF Holds
    <2>7. verdicts[t] = A!None /\ verdicts' = [verdicts EXCEPT ![t] = A!Granted(name)]
      BY <1>3, <1>5, <2>6, VerdictChange
    <2>8. ~(\E a \in accountSet : a.name = name) /\ job.password \in Passwords \ TooLong
      BY <1>2, <1>5, AccountRows
    <2>9. A!SignUp(t, name, job.password)
      BY <2>4, <2>7, <2>8 DEF A!SignUp, A!taken
    <2> QED
      BY <1>2, <2>9, NamesAndBlank, AbstractAction
  <1> QED
    BY <1>4, <1>5 DEF insertUser

LEMMA IssueTokenStep ==
    ASSUME Inv, NEW t \in Threads, issueToken(t)
    PROVE  AbstractStep
  <1> DEFINE job == threads[t]
             new == signedIn(job, 201, encode(job.user))
  <1>1. WellFormed(job) /\ job.pc = "issue_token" /\ job \in Job
    BY DEF Inv, TypeOK, issueToken
  <1>2. /\ job.op = "users#create" /\ job.username \in Names /\ job.password \in Passwords
        /\ Holds(job)
    BY <1>1 DEF WellFormed, Holds
  <1>3. job.user \in DOMAIN users /\ 201 \in Statuses
    BY <1>2 DEF Inv, HeldUsersMatch, Statuses
  <1>4. /\ new.pc = "answered" /\ new.status = 201 /\ new.op = job.op
        /\ new.username = job.username /\ new.password = job.password
    BY <1>1, <1>3, Encode, SignedIn
  <1>5. goto(t, new) /\ UNCHANGED users
    BY DEF issueToken, renderToken
  <1> HIDE DEF new
  <1>6. Holds(new)
    BY <1>2, <1>4 DEF Holds
  <1>7. verdictOf(new) = verdictOf(job)
    BY <1>2, <1>4, <1>6, GrantedJob, NamesAndBlank
  <1> QED
    BY <1>5, <1>7, SilentStep

LEMMA VerifyStep ==
    ASSUME Inv, NEW t \in Threads, verify(t)
    PROVE  AbstractStep
  <1> DEFINE job == threads[t]
             name == Lower[job.username]
             account == [name |-> name, password |-> job.password]
  <1>1. WellFormed(job) /\ job.pc = "verify" /\ job \in Job
    BY DEF Inv, TypeOK, verify
  <1>2. /\ job.op = "users#authenticate" /\ job.username \in Names /\ job.password \in Passwords
    BY <1>1 DEF WellFormed
  <1>3. verdictOf(job) = A!None
    BY <1>1, Undecided
  <1>4. PICK i \in rowsNamed(name) :
            IF users[i].password = job.password
            THEN renderToken(t, job, i, 200)
            ELSE render(t, job, 401) /\ UNCHANGED issued
    BY DEF verify
  <1>5. i \in DOMAIN users /\ users[i].username = name /\ UNCHANGED users
    BY DEF rowsNamed, verify
  <1>6. CASE users[i].password = job.password
    <2> DEFINE new == signedIn(job, 200, encode(i))
    <2>1. goto(t, new) /\ 200 \in Statuses
      BY <1>4, <1>6 DEF renderToken, Statuses
    <2>2. /\ new.pc = "answered" /\ new.status = 200 /\ new.op = job.op
          /\ new.username = job.username /\ new.password = job.password
      BY <1>1, <1>5, <2>1, Encode, SignedIn
    <2> HIDE DEF new
    <2>3. Holds(new)
      BY <1>2, <2>2 DEF Holds
    <2>4. verdictOf(new) = A!Granted(name)
      BY <1>2, <2>2, <2>3, GrantedJob, NamesAndBlank
    <2>5. verdicts[t] = A!None /\ verdicts' = [verdicts EXCEPT ![t] = A!Granted(name)]
      BY <1>3, <2>1, <2>4, VerdictChange
    <2>6. account \in accountSet /\ UNCHANGED accountSet
      BY <1>5, <1>6, AccountRows, AccountsKept
    <2>7. A!SignIn(t, name, job.password)
      BY <2>5, <2>6 DEF A!SignIn
    <2> QED
      BY <1>2, <2>7, NamesAndBlank, AbstractAction
  <1>7. CASE users[i].password # job.password
    <2>1. account \notin accountSet
      <3>1. \A k \in DOMAIN users : users[k].username = name => k = i
        BY <1>5 DEF Inv, UsernamesUnique
      <3> QED
        BY <1>7, <3>1, AccountRows
    <2>2. 401 \in Statuses \ {200, 201} /\ render(t, job, 401)
      BY <1>4, <1>7 DEF Statuses
    <2>3. Refusable(job)
      BY <1>2, <2>1 DEF Refusable
    <2> QED
      BY <1>1, <1>2, <1>3, <1>5, <2>2, <2>3, RefusalStep
  <1> QED
    BY <1>6, <1>7

LEMMA CreateThoughtStep ==
    ASSUME Inv, NEW t \in Threads, NEW token \in issued \cup {Nil},
           NEW text \in Texts \cup {Blank}, createThought(t, token, text)
    PROVE  AbstractStep
  <1>1. posted(text) \in Job /\ posted(text).op = "thoughts#create"
    BY Posted
  <1>2. verdictOf(threads[t]) = A!None /\ UNCHANGED users
    BY FreeThread DEF createThought
  <1>3. CASE \E status \in {400, 401} : render(t, posted(text), status)
    <2>1. PICK status \in {400, 401} : goto(t, answered(posted(text), status))
      BY <1>3 DEF render
    <2>2. status \in Statuses
      BY DEF Statuses
    <2>3. answered(posted(text), status).op = "thoughts#create"
      BY <1>1, <2>2, AnsweredJob
    <2>4. verdictOf(answered(posted(text), status)) = A!None
      BY <2>3, Unasked
    <2> QED
      BY <1>2, <2>1, <2>4, SilentStep
  <1>4. CASE token # Nil /\ goto(t, accepted(posted(text), token.user_id))
    <2>1. token.user_id \in Nat /\ clock \in Nat
      BY <1>4 DEF Inv, TypeOK, Token
    <2>2. accepted(posted(text), token.user_id).op = "thoughts#create"
      BY <1>1, <2>1, Accepted
    <2>3. verdictOf(accepted(posted(text), token.user_id)) = A!None
      BY <2>2, Unasked
    <2> QED
      BY <1>2, <1>4, <2>3, SilentStep
  <1> QED
    BY <1>3, <1>4 DEF createThought, authorized

LEMMA InsertThoughtStep ==
    ASSUME Inv, NEW t \in Threads, insertThought(t)
    PROVE  AbstractStep
  <1>1. WellFormed(threads[t]) /\ threads[t].pc = "create_thought" /\ threads[t] \in Job
    BY DEF Inv, TypeOK, insertThought
  <1>2. threads[t].op = "thoughts#create"
    BY <1>1 DEF WellFormed
  <1>3. answered(threads[t], 201).op = "thoughts#create"
    BY <1>1, <1>2, AnsweredJob DEF Statuses
  <1>4. verdictOf(threads[t]) = A!None /\ verdictOf(answered(threads[t], 201)) = A!None
    BY <1>2, <1>3, Unasked
  <1> QED
    BY <1>4, SilentStep DEF insertThought, render

LEMMA IndexStep ==
    ASSUME Inv, NEW t \in Threads, NEW token, NEW filter, NEW limit, index(t, token, filter, limit)
    PROVE  AbstractStep
  <1>1. verdictOf(threads[t]) = A!None /\ UNCHANGED users
    BY FreeThread DEF index
  <1>2. PICK rows \in SUBSET Nat, status \in {200, 401} : render(t, listed(rows), status)
    <2>1. DOMAIN thoughts \subseteq Nat
      BY DEF Inv, TypeOK
    <2>2. newest(limit) \subseteq SUBSET Nat /\ matching(filter, limit) \subseteq SUBSET Nat
      BY <2>1 DEF newest, matching
    <2> QED
      BY <2>2 DEF index
  <1>3. status \in Statuses
    BY DEF Statuses
  <1>4. answered(listed(rows), status).op = "thoughts#index"
    BY <1>3, Listed, AnsweredJob
  <1>5. verdictOf(answered(listed(rows), status)) = A!None
    BY <1>4, Unasked
  <1> QED
    BY <1>1, <1>2, <1>5, SilentStep DEF render

\* Threads that become free have delivered, or lost, their answers.
LEMMA ForgetStep ==
    ASSUME NEW C \in SUBSET Threads, UNCHANGED users,
           \A t \in Threads : threads'[t] = IF t \in C THEN Free ELSE threads[t]
    PROVE  AbstractStep
  <1>1. verdictOf(Free) = A!None
    BY FreeJob, Undecided
  <1>2. verdicts' = [t \in Threads |-> IF t \in C THEN A!None ELSE verdicts[t]]
    BY <1>1 DEF verdicts
  <1>3. A!Forget
    BY <1>2, AccountsKept DEF A!Forget
  <1> QED
    BY <1>3 DEF AbstractStep, A!Next

-----------------------------------------------------------------------------
LEMMA InitAccounts == Init => A!Init
  <1> SUFFICES ASSUME Init PROVE A!Init
    OBVIOUS
  <1>1. verdictOf(Free) = A!None
    BY FreeJob, Undecided
  <1>2. verdicts = [t \in Threads |-> A!None]
    BY <1>1 DEF Init, verdicts
  <1>3. accountSet = {}
    BY DEF Init, accountSet
  <1> QED
    BY <1>2, <1>3 DEF A!Init

LEMMA NextAccounts == Inv /\ [Next]_vars => AbstractStep
  <1> SUFFICES ASSUME Inv, [Next]_vars PROVE AbstractStep
    OBVIOUS
  <1>1. ASSUME NEW t \in Threads, Request(t) PROVE AbstractStep
    BY <1>1, CreateUserStep, AuthenticateStep, CreateThoughtStep, IndexStep DEF Request
  <1>2. ASSUME NEW t \in Threads, Work(t) PROVE AbstractStep
    BY <1>2, InsertUserStep, IssueTokenStep, VerifyStep, InsertThoughtStep DEF Work
  <1>3. ASSUME NEW t \in Threads, finish(t) PROVE AbstractStep
    <2>1. /\ UNCHANGED users
          /\ \A x \in Threads : threads'[x] = IF x \in {t} THEN Free ELSE threads[x]
      BY <1>3 DEF finish, goto, Inv, TypeOK
    <2> QED
      BY <2>1, ForgetStep
  <1>4. CASE restart
    <2>1. /\ UNCHANGED users
          /\ \A x \in Threads : threads'[x] = IF x \in Threads THEN Free ELSE threads[x]
      BY <1>4 DEF restart
    <2> QED
      BY <2>1, ForgetStep
  <1>5. CASE UNCHANGED <<users, threads>>
    BY <1>5, AccountsKept DEF AbstractStep, verdicts
  <1> QED
    BY <1>1, <1>2, <1>3, <1>4, <1>5 DEF Next, tick, vars

\* Signing up and signing in are atomic, for any number of threads: each
\* request's effect on the accounts and its verdict are one step of Accounts.
THEOREM Refinement == Spec => AccountsAreAtomic
  <1>1. Inv /\ [Next]_vars => [A!Next]_<<accountSet, verdicts>>
    BY NextAccounts DEF AbstractStep
  <1> QED
    BY <1>1, InitAccounts, Invariant, PTL DEF Spec, AccountsAreAtomic, A!Spec
=============================================================================
