---------------------------- MODULE ServerProofs ----------------------------
(***************************************************************************)
(* The safety properties of Server, and that it implements Accounts, for   *)
(* any number of threads, users and thoughts.                              *)
(***************************************************************************)
EXTENDS Server, TLAPS, SequenceTheorems

\* A sign-up or sign-in has looked like one since it passed params.require.
WellFormed(job) ==
    /\ job.pc = "free" => job = Free
    /\ job.pc \in {"create_user", "issue_token"} => job.op = "users#create"
    /\ job.pc = "verify" => job.op = "users#authenticate"
    /\ job.pc = "create_thought" => job.op = "thoughts#create" /\ job.text \in Texts
    /\ \/ job.pc \in {"create_user", "issue_token", "verify"}
       \/ /\ job.pc = "answered" /\ job.op \in {"users#create", "users#authenticate"}
          /\ job.status \in {200, 201}
       => job.username \in Names /\ job.password \in Passwords

\* A thread holds a user it may answer with: made for the request, or with the
\* request's name and password.
Holds(job) ==
    /\ job.op \in {"users#create", "users#authenticate"}
    /\ job.pc = "issue_token" \/ (job.pc = "answered" /\ job.status \in {200, 201})

HeldUsersMatch ==
    \A t \in Threads : Holds(threads[t]) =>
        /\ threads[t].user \in DOMAIN users
        /\ users[threads[t].user] =
              [username |-> Lower[threads[t].username], password |-> threads[t].password]

TokensAreSent ==
    \A t \in Threads : Holds(threads[t]) /\ threads[t].pc = "answered" =>
        [user_id |-> threads[t].user, exp |-> threads[t].time] \in issued

HeldSignUpsDiffer ==
    \A t1, t2 \in Threads :
        /\ Holds(threads[t1]) /\ threads[t1].op = "users#create"
        /\ Holds(threads[t2]) /\ threads[t2].op = "users#create"
        /\ t1 # t2
        => threads[t1].user # threads[t2].user

\* A thought about to be stored is by an existing user.
PendingAuthorsExist ==
    \A t \in Threads : threads[t].pc = "create_thought" => threads[t].user \in DOMAIN users

\* The inductive invariant.
Inv ==
    /\ TypeOK
    /\ UsernamesUnique
    /\ ReferencesResolve
    /\ \A t \in Threads : WellFormed(threads[t])
    /\ HeldUsersMatch
    /\ TokensAreSent
    /\ HeldSignUpsDiffer
    /\ PendingAuthorsExist

-----------------------------------------------------------------------------
(* The job records.                                                        *)

LEMMA FreeJob ==
    /\ Free \in Job /\ Free.pc = "free" /\ Free.op = ""
    /\ Free.username = Blank /\ Free.password = Blank
    /\ WellFormed(Free) /\ ~Holds(Free)
  BY DEF Free, Job, Phases, Routes, Statuses, WellFormed, Holds

\* What the constructors of jobs make.
LEMMA Asked ==
    ASSUME NEW op \in Routes, NEW username \in Names \cup {Blank},
           NEW password \in Passwords \cup {Blank}
    PROVE  /\ asked(op, username, password) \in Job
           /\ asked(op, username, password).op = op
           /\ asked(op, username, password).username = username
           /\ asked(op, username, password).password = password
  BY FreeJob DEF Job, asked

LEMMA At ==
    ASSUME NEW job \in Job, NEW pc \in Phases
    PROVE  /\ at(job, pc) \in Job /\ at(job, pc).pc = pc /\ at(job, pc).op = job.op
           /\ at(job, pc).username = job.username /\ at(job, pc).password = job.password
  BY DEF Job, at

LEMMA Created ==
    ASSUME NEW job \in Job, NEW id \in Nat
    PROVE  /\ created(job, id) \in Job /\ created(job, id).pc = "issue_token"
           /\ created(job, id).op = job.op /\ created(job, id).user = id
           /\ created(job, id).username = job.username /\ created(job, id).password = job.password
  <1>1. "issue_token" \in Phases
    BY DEF Phases
  <1> QED
    BY <1>1 DEF Job, created

LEMMA AnsweredJob ==
    ASSUME NEW job \in Job, NEW status \in Statuses
    PROVE  /\ answered(job, status) \in Job /\ answered(job, status).pc = "answered"
           /\ answered(job, status).status = status /\ answered(job, status).op = job.op
           /\ answered(job, status).username = job.username
           /\ answered(job, status).password = job.password
  <1>1. "answered" \in Phases
    BY DEF Phases
  <1> QED
    BY <1>1 DEF Job, answered

LEMMA SignedIn ==
    ASSUME NEW job \in Job, NEW status \in Statuses, NEW token \in Token
    PROVE  LET new == signedIn(job, status, token) IN
           /\ new \in Job /\ new.pc = "answered" /\ new.status = status /\ new.op = job.op
           /\ new.username = job.username /\ new.password = job.password
           /\ new.user = token.user_id /\ new.time = token.exp
  <1>1. "answered" \in Phases
    BY DEF Phases
  <1>2. token.user_id \in Nat /\ token.exp \in Nat
    BY DEF Token
  <1> QED
    BY <1>1, <1>2 DEF Job, signedIn

LEMMA Posted ==
    ASSUME NEW text \in Texts \cup {Blank}
    PROVE  posted(text) \in Job /\ posted(text).op = "thoughts#create" /\ posted(text).text = text
  <1>1. "thoughts#create" \in Routes
    BY DEF Routes
  <1> QED
    BY <1>1, FreeJob DEF Job, posted

LEMMA Accepted ==
    ASSUME NEW job \in Job, NEW id \in Nat, clock \in Nat
    PROVE  /\ accepted(job, id) \in Job /\ accepted(job, id).pc = "create_thought"
           /\ accepted(job, id).op = job.op /\ accepted(job, id).user = id
           /\ accepted(job, id).text = job.text
  <1>1. "create_thought" \in Phases
    BY DEF Phases
  <1> QED
    BY <1>1 DEF Job, accepted

LEMMA Listed ==
    ASSUME NEW rows \in SUBSET Nat
    PROVE  listed(rows) \in Job /\ listed(rows).op = "thoughts#index"
  <1>1. "thoughts#index" \in Routes
    BY DEF Routes
  <1> QED
    BY <1>1, FreeJob DEF Job, listed

\* A thread changes and the tables do not.
LEMMA JobChange ==
    ASSUME Inv, NEW t \in Threads, NEW j \in Job,
           threads' = [threads EXCEPT ![t] = j],
           WellFormed(j),
           Holds(j) =>
             /\ j.user \in DOMAIN users
             /\ users[j.user] = [username |-> Lower[j.username], password |-> j.password]
             /\ j.pc = "answered" => [user_id |-> j.user, exp |-> j.time] \in issued'
             /\ j.op = "users#create" =>
                    Holds(threads[t]) /\ threads[t].op = "users#create" /\ threads[t].user = j.user,
           j.pc = "create_thought" => j.user \in DOMAIN users,
           issued \subseteq issued', issued' \subseteq Token,
           \A token \in issued' : token.user_id \in DOMAIN users,
           UNCHANGED <<users, thoughts, clock>>
    PROVE  Inv'
  <1>1. /\ threads \in [Threads -> Job] /\ threads' \in [Threads -> Job]
        /\ threads'[t] = j
        /\ \A x \in Threads : x # t => threads'[x] = threads[x]
    BY DEF Inv, TypeOK
  <1>2. TypeOK'
    BY <1>1 DEF Inv, TypeOK
  <1>3. UsernamesUnique' /\ ReferencesResolve'
    BY DEF Inv, UsernamesUnique, ReferencesResolve
  <1>4. \A x \in Threads : WellFormed(threads'[x])
    BY <1>1 DEF Inv
  <1>5. HeldUsersMatch'
    BY <1>1 DEF Inv, HeldUsersMatch
  <1>6. TokensAreSent'
    BY <1>1 DEF Inv, TokensAreSent
  <1>7. HeldSignUpsDiffer'
    BY <1>1 DEF Inv, HeldSignUpsDiffer
  <1>8. PendingAuthorsExist'
    BY <1>1 DEF Inv, PendingAuthorsExist
  <1> QED
    BY <1>2, <1>3, <1>4, <1>5, <1>6, <1>7, <1>8 DEF Inv, WellFormed
-----------------------------------------------------------------------------
(* The invariant is inductive.                                             *)

LEMMA InitInv == Init => Inv
  <1> SUFFICES ASSUME Init PROVE Inv
    OBVIOUS
  <1>1. threads \in [Threads -> Job] /\ \A t \in Threads : threads[t] = Free
    BY FreeJob DEF Init
  <1>2. DOMAIN users = {} /\ DOMAIN thoughts = {} /\ issued = {}
    BY DEF Init
  <1>3. users \in Seq(User) /\ thoughts \in Seq(Thought)
    BY DEF Init
  <1>4. TypeOK
    BY <1>1, <1>2, <1>3 DEF Init, TypeOK
  <1>5. UsernamesUnique /\ ReferencesResolve
    BY <1>2 DEF UsernamesUnique, ReferencesResolve
  <1>6. \A t \in Threads : WellFormed(threads[t])
    BY <1>1, FreeJob
  <1>7. HeldUsersMatch /\ TokensAreSent /\ HeldSignUpsDiffer /\ PendingAuthorsExist
    BY <1>1, FreeJob DEF HeldUsersMatch, TokensAreSent, HeldSignUpsDiffer, PendingAuthorsExist
  <1> QED
    BY <1>4, <1>5, <1>6, <1>7 DEF Inv

\* A thread turns a request away, or answers it without a token.
LEMMA RenderInv ==
    ASSUME Inv, NEW t \in Threads, NEW job \in Job, NEW status \in Statuses,
           status \in {200, 201} => job.op \in {"thoughts#create", "thoughts#index"},
           render(t, job, status), UNCHANGED <<users, thoughts, issued, clock>>
    PROVE  Inv'
  <1>1. threads' = [threads EXCEPT ![t] = answered(job, status)]
    BY DEF render, goto
  <1>2. /\ answered(job, status) \in Job /\ answered(job, status).pc = "answered"
        /\ answered(job, status).status = status /\ answered(job, status).op = job.op
    BY AnsweredJob
  <1>3. WellFormed(answered(job, status)) /\ ~Holds(answered(job, status))
    BY <1>2 DEF WellFormed, Holds
  <1>4. issued' \subseteq Token /\ \A token \in issued' : token.user_id \in DOMAIN users
    BY DEF Inv, TypeOK, ReferencesResolve
  <1> QED
    BY <1>1, <1>2, <1>3, <1>4, JobChange

\* A sign-up or sign-in passes its lookup.
LEMMA PassInv ==
    ASSUME Inv, NEW t \in Threads, NEW username \in Names, NEW password \in Passwords,
           NEW op \in Routes, NEW pc \in Phases,
           <<op, pc>> \in {<<"users#create", "create_user">>, <<"users#authenticate", "verify">>},
           goto(t, at(asked(op, username, password), pc)),
           UNCHANGED <<users, thoughts, issued, clock>>
    PROVE  Inv'
  <1> DEFINE new == at(asked(op, username, password), pc)
  <1>1. /\ new \in Job /\ new.pc = pc /\ new.op = op
        /\ new.username = username /\ new.password = password
    BY Asked, At
  <1>2. threads' = [threads EXCEPT ![t] = new]
    BY DEF goto
  <1> HIDE DEF new
  <1>3. WellFormed(new) /\ ~Holds(new) /\ new.pc # "create_thought"
    BY <1>1 DEF WellFormed, Holds
  <1>4. issued' \subseteq Token /\ \A token \in issued' : token.user_id \in DOMAIN users
    BY DEF Inv, TypeOK, ReferencesResolve
  <1> QED
    BY <1>1, <1>2, <1>3, <1>4, JobChange

LEMMA CreateUserInv ==
    ASSUME Inv, NEW t \in Threads, NEW username \in Names \cup {Blank},
           NEW password \in Passwords \cup {Blank}, createUser(t, username, password)
    PROVE  Inv'
  <1>1. asked("users#create", username, password) \in Job
    BY Asked DEF Routes
  <1>2. CASE render(t, asked("users#create", username, password), 400)
    BY <1>1, <1>2, RenderInv DEF createUser, Statuses
  <1>3. CASE /\ username # Blank /\ password # Blank
             /\ goto(t, at(asked("users#create", username, password), "create_user"))
    <2>1. "users#create" \in Routes /\ "create_user" \in Phases
      BY DEF Routes, Phases
    <2> QED
      BY <1>3, <2>1, PassInv DEF createUser
  <1> QED
    BY <1>2, <1>3 DEF createUser

LEMMA AuthenticateInv ==
    ASSUME Inv, NEW t \in Threads, NEW username \in Names \cup {Blank},
           NEW password \in Passwords \cup {Blank}, authenticate(t, username, password)
    PROVE  Inv'
  <1>1. asked("users#authenticate", username, password) \in Job
    BY Asked DEF Routes
  <1>2. CASE \E status \in {400, 401} :
                render(t, asked("users#authenticate", username, password), status)
    BY <1>1, <1>2, RenderInv DEF authenticate, Statuses
  <1>3. CASE /\ username # Blank /\ password # Blank
             /\ goto(t, at(asked("users#authenticate", username, password), "verify"))
    <2>1. "users#authenticate" \in Routes /\ "verify" \in Phases
      BY DEF Routes, Phases
    <2> QED
      BY <1>3, <2>1, PassInv DEF authenticate
  <1> QED
    BY <1>2, <1>3 DEF authenticate

\* What a token for an existing user is.
LEMMA Encode ==
    ASSUME Inv, NEW id \in DOMAIN users
    PROVE  encode(id) \in Token /\ encode(id).user_id = id
  <1>1. id \in Nat
    BY DEF Inv, TypeOK
  <1>2. clock + TokenLife \in Nat
    BY TimeAssumption DEF Inv, TypeOK
  <1> QED
    BY <1>1, <1>2 DEF encode, Token

\* Answering with a token for the user a request is entitled to.
LEMMA RenderTokenInv ==
    ASSUME Inv, NEW t \in Threads, NEW id \in DOMAIN users, NEW status \in {200, 201},
           threads[t].op \in {"users#create", "users#authenticate"},
           threads[t].username \in Names, threads[t].password \in Passwords,
           users[id] = [username |-> Lower[threads[t].username], password |-> threads[t].password],
           threads[t].op = "users#create" => Holds(threads[t]) /\ threads[t].user = id,
           renderToken(t, threads[t], id, status),
           UNCHANGED <<users, thoughts, clock>>
    PROVE  Inv'
  <1> DEFINE new == signedIn(threads[t], status, encode(id))
  <1>1. threads[t] \in Job /\ status \in Statuses
    BY DEF Inv, TypeOK, Statuses
  <1>2. threads' = [threads EXCEPT ![t] = new] /\ issued' = issued \cup {encode(id)}
    BY DEF renderToken, goto
  <1>3. /\ new \in Job /\ new.pc = "answered" /\ new.status = status /\ new.op = threads[t].op
        /\ new.username = threads[t].username /\ new.password = threads[t].password
        /\ new.user = id /\ new.time = encode(id).exp
    BY <1>1, Encode, SignedIn
  <1>4. [user_id |-> id, exp |-> encode(id).exp] = encode(id)
    BY Encode DEF Token
  <1>5. /\ issued \subseteq issued' /\ issued' \subseteq Token
        /\ \A token \in issued' : token.user_id \in DOMAIN users
        /\ [user_id |-> id, exp |-> encode(id).exp] \in issued'
    BY <1>2, <1>4, Encode DEF Inv, TypeOK, ReferencesResolve
  <1> HIDE DEF new
  <1>6. WellFormed(new)
    BY <1>3 DEF WellFormed
  <1>7. /\ new.user \in DOMAIN users
        /\ users[new.user] = [username |-> Lower[new.username], password |-> new.password]
        /\ [user_id |-> new.user, exp |-> new.time] \in issued'
        /\ new.op = "users#create" =>
              Holds(threads[t]) /\ threads[t].op = "users#create" /\ threads[t].user = new.user
    BY <1>3, <1>5
  <1> QED
    BY <1>2, <1>3, <1>5, <1>6, <1>7, JobChange

LEMMA IssueTokenInv ==
    ASSUME Inv, NEW t \in Threads, issueToken(t)
    PROVE  Inv'
  <1>1. WellFormed(threads[t]) /\ threads[t].pc = "issue_token"
    BY DEF Inv, issueToken
  <1>2. /\ threads[t].op = "users#create"
        /\ threads[t].username \in Names /\ threads[t].password \in Passwords
        /\ Holds(threads[t])
    BY <1>1 DEF WellFormed, Holds
  <1>3. /\ threads[t].user \in DOMAIN users
        /\ users[threads[t].user] =
              [username |-> Lower[threads[t].username], password |-> threads[t].password]
    BY <1>2 DEF Inv, HeldUsersMatch
  <1> QED
    BY <1>2, <1>3, RenderTokenInv DEF issueToken

LEMMA VerifyInv ==
    ASSUME Inv, NEW t \in Threads, verify(t)
    PROVE  Inv'
  <1>1. WellFormed(threads[t]) /\ threads[t].pc = "verify" /\ threads[t] \in Job
    BY DEF Inv, TypeOK, verify
  <1>2. /\ threads[t].op = "users#authenticate"
        /\ threads[t].username \in Names /\ threads[t].password \in Passwords
    BY <1>1 DEF WellFormed
  <1>3. PICK i \in rowsNamed(Lower[threads[t].username]) :
            IF users[i].password = threads[t].password
            THEN renderToken(t, threads[t], i, 200)
            ELSE render(t, threads[t], 401) /\ UNCHANGED issued
    BY DEF verify
  <1>4. /\ i \in DOMAIN users /\ users[i].username = Lower[threads[t].username] /\ users[i] \in User
        /\ UNCHANGED <<users, thoughts, clock>>
    BY DEF rowsNamed, Inv, TypeOK, verify
  <1>5. CASE users[i].password = threads[t].password
    <2>1. users[i] = [username |-> Lower[threads[t].username], password |-> threads[t].password]
      BY <1>4, <1>5 DEF User
    <2> QED
      BY <1>2, <1>3, <1>4, <1>5, <2>1, RenderTokenInv
  <1>6. CASE users[i].password # threads[t].password
    BY <1>1, <1>3, <1>4, <1>6, RenderInv DEF Statuses
  <1> QED
    BY <1>5, <1>6

\* A row is added to a table: what is there stays, under its id.
LEMMA Grows ==
    ASSUME NEW S, NEW table \in Seq(S), NEW row \in S
    PROVE  /\ Append(table, row) \in Seq(S)
           /\ DOMAIN Append(table, row) = DOMAIN table \cup {Len(table) + 1}
           /\ Len(table) + 1 \in Nat /\ Len(table) + 1 \notin DOMAIN table
           /\ \A i \in DOMAIN table : Append(table, row)[i] = table[i]
           /\ Append(table, row)[Len(table) + 1] = row
  OBVIOUS

LEMMA InsertUserInv ==
    ASSUME Inv, NEW t \in Threads, insertUser(t)
    PROVE  Inv'
  <1> DEFINE job == threads[t]
             name == Lower[job.username]
             row == [username |-> name, password |-> job.password]
             id == Len(users) + 1
             new == created(job, id)
  <1>1. WellFormed(job) /\ job.pc = "create_user" /\ job \in Job
    BY DEF Inv, TypeOK, insertUser
  <1>2. job.op = "users#create" /\ job.username \in Names /\ job.password \in Passwords
    BY <1>1 DEF WellFormed
  <1>3. CASE \E status \in {422, 500} : render(t, job, status) /\ UNCHANGED users
    BY <1>1, <1>2, <1>3, RenderInv DEF insertUser, Statuses
  <1>4. CASE /\ job.password \notin TooLong /\ rowsNamed(name) = {}
             /\ users' = Append(users, row) /\ goto(t, new)
    <2>1. name \in Names /\ Lower[name] = name
      BY <1>2, LowerAssumption
    <2>2. row \in User /\ row.username = name
      BY <1>2, <1>4, <2>1 DEF User
    <2>3. users \in Seq(User) /\ threads \in [Threads -> Job]
      BY DEF Inv, TypeOK
    <2>4. /\ users' \in Seq(User) /\ DOMAIN users' = DOMAIN users \cup {id}
          /\ id \in Nat /\ id \notin DOMAIN users
          /\ \A i \in DOMAIN users : users'[i] = users[i]
          /\ users'[id] = row
      BY <1>4, <2>2, <2>3, Grows
    <2>5. /\ new \in Job /\ new.pc = "issue_token" /\ new.op = "users#create" /\ new.user = id
          /\ new.username = job.username /\ new.password = job.password
      BY <1>1, <1>2, <2>4, Created
    <2>6. \A i \in DOMAIN users : users[i].username # name
      BY <1>4 DEF rowsNamed
    <2>7. UNCHANGED <<thoughts, issued, clock>>
      BY DEF insertUser
    <2> HIDE DEF new, id
    <2>8. /\ threads' \in [Threads -> Job] /\ threads'[t] = new
          /\ \A x \in Threads : x # t => threads'[x] = threads[x]
      BY <1>4, <2>3, <2>5 DEF goto
    <2>9. TypeOK'
      BY <2>4, <2>7, <2>8 DEF Inv, TypeOK
    <2>10. UsernamesUnique'
      BY <2>1, <2>2, <2>4, <2>6 DEF Inv, UsernamesUnique
    <2>11. ReferencesResolve'
      BY <2>4, <2>7 DEF Inv, ReferencesResolve
    <2>12. WellFormed(new) /\ Holds(new)
      BY <1>2, <2>5 DEF WellFormed, Holds
    <2>13. \A x \in Threads : WellFormed(threads'[x])
      BY <2>8, <2>12 DEF Inv
    <2>14. HeldUsersMatch'
      <3>1. ASSUME NEW x \in Threads, x # t, Holds(threads[x])
            PROVE  /\ threads[x].user \in DOMAIN users
                   /\ users[threads[x].user] =
                         [username |-> Lower[threads[x].username], password |-> threads[x].password]
        BY <3>1 DEF Inv, HeldUsersMatch
      <3>2. users'[new.user] = [username |-> Lower[new.username], password |-> new.password]
        BY <2>4, <2>5
      <3> HIDE DEF row, name
      <3> QED
        BY <2>4, <2>5, <2>8, <3>1, <3>2 DEF HeldUsersMatch
    <2>15. TokensAreSent'
      BY <2>5, <2>7, <2>8 DEF Inv, TokensAreSent
    <2>16. HeldSignUpsDiffer'
      <3>1. \A x \in Threads : Holds(threads[x]) => threads[x].user # id
        BY <2>4 DEF Inv, HeldUsersMatch
      <3> QED
        BY <2>5, <2>8, <3>1 DEF Inv, HeldSignUpsDiffer
    <2>17. PendingAuthorsExist'
      BY <2>4, <2>5, <2>8 DEF Inv, PendingAuthorsExist
    <2> QED
      BY <2>9, <2>10, <2>11, <2>13, <2>14, <2>15, <2>16, <2>17 DEF Inv, WellFormed
  <1> QED
    BY <1>3, <1>4 DEF insertUser

LEMMA CreateThoughtInv ==
    ASSUME Inv, NEW t \in Threads, NEW token \in issued \cup {Nil},
           NEW text \in Texts \cup {Blank}, createThought(t, token, text)
    PROVE  Inv'
  <1>1. posted(text) \in Job /\ posted(text).op = "thoughts#create" /\ posted(text).text = text
    BY Posted
  <1>2. UNCHANGED <<users, thoughts, issued, clock>>
    BY DEF createThought
  <1>3. CASE \E status \in {400, 401} : render(t, posted(text), status)
    BY <1>1, <1>2, <1>3, RenderInv DEF Statuses
  <1>4. CASE token # Nil /\ text # Blank /\ goto(t, accepted(posted(text), token.user_id))
    <2> DEFINE new == accepted(posted(text), token.user_id)
    <2>1. token.user_id \in DOMAIN users /\ token.user_id \in Nat /\ clock \in Nat
      BY <1>4 DEF Inv, TypeOK, Token, ReferencesResolve
    <2>2. /\ new \in Job /\ new.pc = "create_thought" /\ new.op = "thoughts#create"
          /\ new.user = token.user_id /\ new.text = text
      BY <1>1, <2>1, Accepted
    <2>3. threads' = [threads EXCEPT ![t] = new]
      BY <1>4 DEF goto
    <2> HIDE DEF new
    <2>4. WellFormed(new) /\ ~Holds(new)
      BY <1>4, <2>2 DEF WellFormed, Holds
    <2>5. issued' \subseteq Token /\ \A x \in issued' : x.user_id \in DOMAIN users
      BY <1>2 DEF Inv, TypeOK, ReferencesResolve
    <2> QED
      BY <1>2, <2>1, <2>2, <2>3, <2>4, <2>5, JobChange
  <1> QED
    BY <1>3, <1>4 DEF createThought, authorized

LEMMA InsertThoughtInv ==
    ASSUME Inv, NEW t \in Threads, insertThought(t)
    PROVE  Inv'
  <1> DEFINE row == [user |-> threads[t].user, text |-> threads[t].text, updated_at |-> threads[t].time]
             new == answered(threads[t], 201)
  <1>1. WellFormed(threads[t]) /\ threads[t].pc = "create_thought" /\ threads[t] \in Job
    BY DEF Inv, TypeOK, insertThought
  <1>2. threads[t].op = "thoughts#create" /\ threads[t].text \in Texts
    BY <1>1 DEF WellFormed
  <1>3. threads[t].user \in DOMAIN users
    BY <1>1 DEF Inv, PendingAuthorsExist
  <1>4. row \in Thought /\ row.user \in DOMAIN users
    BY <1>1, <1>2, <1>3 DEF Thought, Job
  <1>5. thoughts \in Seq(Thought) /\ threads \in [Threads -> Job]
    BY DEF Inv, TypeOK
  <1>6. thoughts' = Append(thoughts, row) /\ goto(t, new) /\ UNCHANGED <<users, issued, clock>>
    BY DEF insertThought, render
  <1> HIDE DEF row
  <1>7. /\ thoughts' \in Seq(Thought)
        /\ DOMAIN thoughts' = DOMAIN thoughts \cup {Len(thoughts) + 1}
        /\ \A i \in DOMAIN thoughts : thoughts'[i] = thoughts[i]
        /\ thoughts'[Len(thoughts) + 1] = row
    BY <1>4, <1>5, <1>6, Grows
  <1>8. /\ new \in Job /\ new.pc = "answered" /\ new.op = "thoughts#create"
    BY <1>1, <1>2, AnsweredJob DEF Statuses
  <1> HIDE DEF new
  <1>9. WellFormed(new) /\ ~Holds(new)
    BY <1>8 DEF WellFormed, Holds
  <1>10. /\ threads' \in [Threads -> Job] /\ threads'[t] = new
         /\ \A x \in Threads : x # t => threads'[x] = threads[x]
    BY <1>5, <1>6, <1>8 DEF goto
  <1>11. TypeOK'
    BY <1>6, <1>7, <1>10 DEF Inv, TypeOK
  <1>12. UsernamesUnique'
    BY <1>6 DEF Inv, UsernamesUnique
  <1>13. ReferencesResolve'
    BY <1>4, <1>6, <1>7 DEF Inv, ReferencesResolve
  <1>14. \A x \in Threads : WellFormed(threads'[x])
    BY <1>9, <1>10 DEF Inv
  <1>15. HeldUsersMatch' /\ TokensAreSent'
    BY <1>6, <1>9, <1>10 DEF Inv, HeldUsersMatch, TokensAreSent
  <1>16. HeldSignUpsDiffer'
    BY <1>9, <1>10 DEF Inv, HeldSignUpsDiffer
  <1>17. PendingAuthorsExist'
    BY <1>6, <1>8, <1>10 DEF Inv, PendingAuthorsExist
  <1> QED
    BY <1>11, <1>12, <1>13, <1>14, <1>15, <1>16, <1>17 DEF Inv, WellFormed

LEMMA IndexInv ==
    ASSUME Inv, NEW t \in Threads, NEW token, NEW filter, NEW limit, index(t, token, filter, limit)
    PROVE  Inv'
  <1>1. DOMAIN thoughts \subseteq Nat
    BY DEF Inv, TypeOK
  <1>2. UNCHANGED <<users, thoughts, issued, clock>>
    BY DEF index
  <1>3. PICK rows \in SUBSET Nat, status \in {200, 401} : render(t, listed(rows), status)
    <2>1. newest(limit) \subseteq SUBSET Nat /\ matching(filter, limit) \subseteq SUBSET Nat
      BY <1>1 DEF newest, matching
    <2> QED
      BY <2>1 DEF index
  <1>4. listed(rows) \in Job /\ listed(rows).op = "thoughts#index"
    BY Listed
  <1> QED
    BY <1>2, <1>3, <1>4, RenderInv DEF Statuses

LEMMA FinishInv ==
    ASSUME Inv, NEW t \in Threads, finish(t)
    PROVE  Inv'
  <1>1. threads' = [threads EXCEPT ![t] = Free] /\ UNCHANGED <<users, thoughts, issued, clock>>
    BY DEF finish, goto
  <1>2. issued' \subseteq Token /\ \A x \in issued' : x.user_id \in DOMAIN users
    BY <1>1 DEF Inv, TypeOK, ReferencesResolve
  <1> QED
    BY <1>1, <1>2, FreeJob, JobChange

LEMMA RestartInv ==
    ASSUME Inv, restart
    PROVE  Inv'
  <1>1. threads' \in [Threads -> Job] /\ \A t \in Threads : threads'[t] = Free
    BY FreeJob DEF restart
  <1>2. UNCHANGED <<users, thoughts, issued, clock>>
    BY DEF restart
  <1>3. TypeOK'
    BY <1>1, <1>2 DEF Inv, TypeOK
  <1>4. UsernamesUnique' /\ ReferencesResolve'
    BY <1>2 DEF Inv, UsernamesUnique, ReferencesResolve
  <1>5. \A t \in Threads : WellFormed(threads'[t])
    BY <1>1, FreeJob
  <1>6. HeldUsersMatch' /\ TokensAreSent' /\ HeldSignUpsDiffer' /\ PendingAuthorsExist'
    BY <1>1, FreeJob DEF HeldUsersMatch, TokensAreSent, HeldSignUpsDiffer, PendingAuthorsExist
  <1> QED
    BY <1>3, <1>4, <1>5, <1>6 DEF Inv, WellFormed

\* Steps that leave everything but the clock alone.
LEMMA TickInv ==
    ASSUME Inv, clock' \in Nat, UNCHANGED <<users, thoughts, threads, issued>>
    PROVE  Inv'
  <1>1. TypeOK'
    BY DEF Inv, TypeOK
  <1>2. UsernamesUnique' /\ ReferencesResolve'
    BY DEF Inv, UsernamesUnique, ReferencesResolve
  <1>3. \A t \in Threads : WellFormed(threads'[t])
    BY DEF Inv
  <1>4. HeldUsersMatch' /\ TokensAreSent' /\ HeldSignUpsDiffer' /\ PendingAuthorsExist'
    BY DEF Inv, HeldUsersMatch, TokensAreSent, HeldSignUpsDiffer, PendingAuthorsExist
  <1> QED
    BY <1>1, <1>2, <1>3, <1>4 DEF Inv, WellFormed

LEMMA NextInv == Inv /\ [Next]_vars => Inv'
  <1> SUFFICES ASSUME Inv, [Next]_vars PROVE Inv'
    OBVIOUS
  <1>1. ASSUME NEW t \in Threads, Request(t) PROVE Inv'
    BY <1>1, CreateUserInv, AuthenticateInv, CreateThoughtInv, IndexInv DEF Request
  <1>2. ASSUME NEW t \in Threads, Work(t) PROVE Inv'
    BY <1>2, InsertUserInv, IssueTokenInv, VerifyInv, InsertThoughtInv DEF Work
  <1>3. ASSUME NEW t \in Threads, finish(t) PROVE Inv'
    BY <1>3, FinishInv
  <1>4. CASE restart
    BY <1>4, RestartInv
  <1>5. CASE tick
    <2>1. clock' \in Nat
      BY <1>5 DEF tick, Inv, TypeOK
    <2> QED
      BY <1>5, <2>1, TickInv DEF tick
  <1>6. CASE UNCHANGED vars
    <2>1. clock' \in Nat /\ UNCHANGED <<users, thoughts, threads, issued>>
      BY <1>6 DEF vars, Inv, TypeOK
    <2> QED
      BY <2>1, TickInv
  <1> QED
    BY <1>1, <1>2, <1>3, <1>4, <1>5, <1>6 DEF Next

-----------------------------------------------------------------------------
(* The properties.                                                         *)

\* The inductive invariant holds in every behaviour of the server.
THEOREM Invariant == Spec => []Inv
  BY InitInv, NextInv, PTL DEF Spec

\* The tables, the threads and the tokens keep their types: no row is stored
\* with a password User's validation refuses.
THEOREM Typed == Spec => []TypeOK
  <1>1. Inv => TypeOK
    BY DEF Inv
  <1> QED
    BY <1>1, Invariant, PTL

\* No interleaving of the look-up and the INSERT of UsersController#create
\* makes two users of one name, whatever the case it is typed in.
THEOREM UniqueNames == Spec => []UsernamesUnique
  <1>1. Inv => UsernamesUnique
    BY DEF Inv
  <1> QED
    BY <1>1, Invariant, PTL

\* A sign-up or sign-in answered with a token gave the password of the user
\* the token is for.
THEOREM EarnedTokens == Spec => []TokensAreEarned
  <1>1. Inv => TokensAreEarned
    BY DEF Inv, TokensAreEarned, HeldUsersMatch, TokensAreSent, Holds, Answered
  <1> QED
    BY <1>1, Invariant, PTL

\* Two sign-ups that both get 201 made two users.
THEOREM SeparateSignUps == Spec => []SignUpsMakeUsers
  <1>1. Inv => SignUpsMakeUsers
    BY DEF Inv, SignUpsMakeUsers, HeldSignUpsDiffer, Holds, Answered
  <1> QED
    BY <1>1, Invariant, PTL

\* Tokens and thoughts name users that exist, with no foreign key to say so.
THEOREM ResolvedReferences == Spec => []ReferencesResolve
  <1>1. Inv => ReferencesResolve
    BY DEF Inv
  <1> QED
    BY <1>1, Invariant, PTL
=============================================================================
