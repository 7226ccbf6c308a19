------------------------------- MODULE Server -------------------------------
(***************************************************************************)
(* The Rails server: UsersController, ThoughtsController, the commands     *)
(* AuthenticateUser and AuthorizeApiRequest, JsonWebToken and the two      *)
(* tables.  Puma serves requests in several threads; a thread is           *)
(* interrupted only at a database statement, so an action is what a thread *)
(* does up to and including its next one.  Rows are never updated or       *)
(* deleted by any route, which makes two lookups in a row one step where   *)
(* the code does no more than repeat a lookup that succeeded.              *)
(*                                                                         *)
(* The salt is part of the password.  Ids are positions in the table.      *)
(***************************************************************************)
EXTENDS Integers, Sequences, FiniteSets

CONSTANTS
    Threads,    \* Puma's threads
    Names,      \* usernames as they are typed
    Lower,      \* String#downcase
    Passwords,
    TooLong,    \* passwords that has_secure_password does not validate
    Texts,
    Filters,    \* sets of texts a search can match
    Limits,     \* values of the limit parameter, the default 10 among them
    Blank,      \* a parameter that params.require refuses
    TokenLife,  \* 24 hours
    MaxTime,    \* bound: the clock stops there
    MaxThoughts,\* bound: rows of the thoughts table when a thought is accepted
    Nil

ASSUME LowerAssumption == Lower \in [Names -> Names] /\ \A n \in Names : Lower[Lower[n]] = Lower[n]
ASSUME BlankAssumption == Blank \notin Names \cup Passwords \cup Texts
ASSUME LimitAssumption == Limits \subseteq Nat
ASSUME TimeAssumption == TokenLife \in Nat \ {0} /\ MaxTime \in Nat /\ MaxThoughts \in Nat

VARIABLES
    users,    \* the users table, in id order
    thoughts, \* the thoughts table, in id order
    threads,  \* what each thread is doing
    issued,   \* tokens that were made, and may have been sent
    clock

vars == <<users, thoughts, threads, issued, clock>>

-----------------------------------------------------------------------------
(* The shape of the state.                                                 *)

User == [username: Names, password: Passwords \ TooLong]
Thought == [user: Nat, text: Texts, updated_at: Nat]
Token == [user_id: Nat, exp: Nat]

Phases == {"free", "create_user", "issue_token", "verify", "create_thought", "answered"}
Routes == {"", "users#create", "users#authenticate", "thoughts#create", "thoughts#index"}
Statuses == {0, 200, 201, 400, 401, 422, 500}

\* A thread: where it stands, the request it serves, the user it found (0 for
\* none), a time it noted (a timestamp, or the expiry of the token in the
\* answer), and the status and rows of the answer.
Job == [pc: Phases, op: Routes,
        username: Names \cup {Blank}, password: Passwords \cup {Blank}, text: Texts \cup {Blank},
        user: Nat, time: Nat, status: Statuses, rows: SUBSET Nat]

Free == [pc |-> "free", op |-> "", username |-> Blank, password |-> Blank, text |-> Blank,
         user |-> 0, time |-> 0, status |-> 0, rows |-> {}]

TypeOK ==
    /\ users \in Seq(User)
    /\ thoughts \in Seq(Thought)
    /\ threads \in [Threads -> Job]
    /\ issued \subseteq Token
    /\ clock \in Nat

-----------------------------------------------------------------------------
(* Queries and tokens.                                                     *)

\* User.find_by_username: at most one row, by the unique index.
rowsNamed(name) == {i \in DOMAIN users : users[i].username = name}

\* JsonWebToken.encode, and what decode accepts.
encode(id) == [user_id |-> id, exp |-> clock + TokenLife]
current(token) == token.exp > clock

\* AuthorizeApiRequest: the token is there and decodes.  Tokens are signed, so
\* only those the server made decode, and their users exist (ReferencesResolve).
authorized(token) == token # Nil /\ current(token)

\* The rows SELECT returns, newest first, up to the limit; rows with one
\* timestamp come in any order.  A search is ordered by rank instead, which
\* is pg_search's business: any rows that match, up to the limit.
newest(limit) ==
    {S \in SUBSET (DOMAIN thoughts) :
        /\ Cardinality(S) <= limit
        /\ Cardinality(S) < limit => S = DOMAIN thoughts
        /\ \A i \in S, j \in DOMAIN thoughts \ S : thoughts[i].updated_at >= thoughts[j].updated_at}
matching(filter, limit) ==
    LET found == {i \in DOMAIN thoughts : thoughts[i].text \in filter}
    IN  {S \in SUBSET found : Cardinality(S) <= limit /\ (Cardinality(S) < limit => S = found)}

-----------------------------------------------------------------------------
(* Steps of a thread.                                                      *)

goto(t, job) == threads' = [threads EXCEPT ![t] = job]

\* A request to UsersController, where a request goes on, and how it ends.
asked(op, username, password) ==
    [Free EXCEPT !.op = op, !.username = username, !.password = password]
at(job, pc) == [job EXCEPT !.pc = pc]
created(job, id) == [job EXCEPT !.pc = "issue_token", !.user = id]
answered(job, status) == [job EXCEPT !.pc = "answered", !.status = status]
signedIn(job, status, token) ==
    [job EXCEPT !.pc = "answered", !.status = status, !.user = token.user_id, !.time = token.exp]

render(t, job, status) == goto(t, answered(job, status))

renderToken(t, job, id, status) ==
    /\ goto(t, signedIn(job, status, encode(id)))
    /\ issued' = issued \cup {encode(id)}

\* UsersController#create, up to the lookup.
createUser(t, username, password) ==
    LET job == asked("users#create", username, password) IN
    /\ threads[t].pc = "free"
    /\ IF username = Blank \/ password = Blank \/ rowsNamed(Lower[username]) # {}
       THEN render(t, job, 400)
       ELSE goto(t, at(job, "create_user"))
    /\ UNCHANGED <<users, thoughts, issued, clock>>

\* Fault: User does not use has_secure_password's validation.
insertUser_noValidation(t) ==
    LET job == threads[t]
        name == Lower[job.username]
    IN  /\ job.pc = "create_user"
        /\ \/ rowsNamed(name) # {} /\ render(t, job, 500) /\ UNCHANGED users
           \/ /\ rowsNamed(name) = {}
              /\ users' = Append(users, [username |-> name, password |-> job.password])
              /\ goto(t, created(job, Len(users) + 1))
        /\ UNCHANGED <<thoughts, issued, clock>>

\* Fault: the table has no unique index.
insertUser_noIndex(t) ==
    LET job == threads[t] IN
    /\ job.pc = "create_user"
    /\ \/ job.password \in TooLong /\ render(t, job, 422) /\ UNCHANGED users
       \/ /\ job.password \notin TooLong
          /\ users' = Append(users, [username |-> Lower[job.username], password |-> job.password])
          /\ goto(t, created(job, Len(users) + 1))
    /\ UNCHANGED <<thoughts, issued, clock>>

\* Fault: a refused INSERT goes on with the row that is there
\* (create_or_find_by!).
insertUser_takesRow(t) ==
    LET job == threads[t]
        name == Lower[job.username]
    IN  /\ job.pc = "create_user"
        /\ \/ job.password \in TooLong /\ render(t, job, 422) /\ UNCHANGED users
           \/ /\ job.password \notin TooLong
              /\ \E i \in rowsNamed(name) : goto(t, created(job, i))
              /\ UNCHANGED users
           \/ /\ job.password \notin TooLong /\ rowsNamed(name) = {}
              /\ users' = Append(users, [username |-> name, password |-> job.password])
              /\ goto(t, created(job, Len(users) + 1))
        /\ UNCHANGED <<thoughts, issued, clock>>

\* Fault: a refused INSERT is ignored and its id used.
insertUser_ignoresError(t) ==
    LET job == threads[t]
        name == Lower[job.username]
        row == [username |-> name, password |-> job.password]
    IN  /\ job.pc = "create_user"
        /\ \/ job.password \in TooLong /\ render(t, job, 422) /\ UNCHANGED users
           \/ /\ job.password \notin TooLong
              /\ users' = IF rowsNamed(name) = {} THEN Append(users, row) ELSE users
              /\ goto(t, created(job, Len(users) + 1))
        /\ UNCHANGED <<thoughts, issued, clock>>

\* Fault: a refused INSERT is tried again and again.
insertUser_retries(t) ==
    LET job == threads[t]
        name == Lower[job.username]
    IN  /\ job.pc = "create_user"
        /\ \/ job.password \in TooLong /\ render(t, job, 422) /\ UNCHANGED users
           \/ /\ job.password \notin TooLong /\ rowsNamed(name) # {}
              /\ UNCHANGED <<users, threads>>
           \/ /\ job.password \notin TooLong /\ rowsNamed(name) = {}
              /\ users' = Append(users, [username |-> name, password |-> job.password])
              /\ goto(t, created(job, Len(users) + 1))
        /\ UNCHANGED <<thoughts, issued, clock>>

\* User.create!: the validation, then the INSERT under the unique index, whose
\* refusal nobody rescues.
insertUser(t) ==
    LET job == threads[t]
        name == Lower[job.username]
    IN  /\ job.pc = "create_user"
        /\ \/ job.password \in TooLong /\ render(t, job, 422) /\ UNCHANGED users
           \/ job.password \notin TooLong /\ rowsNamed(name) # {} /\ render(t, job, 500) /\ UNCHANGED users
           \/ /\ job.password \notin TooLong /\ rowsNamed(name) = {}
              /\ users' = Append(users, [username |-> name, password |-> job.password])
              /\ goto(t, created(job, Len(users) + 1))
        /\ UNCHANGED <<thoughts, issued, clock>>

\* AuthenticateUser for the new user, and the answer of UsersController#create.
issueToken(t) ==
    LET job == threads[t] IN
    /\ job.pc = "issue_token"
    /\ renderToken(t, job, job.user, 201)
    /\ UNCHANGED <<users, thoughts, clock>>

\* UsersController#authenticate, up to the lookup.
authenticate(t, username, password) ==
    LET job == asked("users#authenticate", username, password) IN
    /\ threads[t].pc = "free"
    /\ IF username = Blank \/ password = Blank THEN render(t, job, 400)
       ELSE IF rowsNamed(Lower[username]) = {} THEN render(t, job, 401)
       ELSE goto(t, at(job, "verify"))
    /\ UNCHANGED <<users, thoughts, issued, clock>>

\* AuthenticateUser looks the user up again and compares the password.
verify(t) ==
    LET job == threads[t] IN
    /\ job.pc = "verify"
    /\ \E i \in rowsNamed(Lower[job.username]) :
        IF users[i].password = job.password
        THEN renderToken(t, job, i, 200)
        ELSE render(t, job, 401) /\ UNCHANGED issued
    /\ UNCHANGED <<users, thoughts, clock>>

\* Requests to ThoughtsController.
posted(text) == [Free EXCEPT !.op = "thoughts#create", !.text = text]
accepted(job, id) == [job EXCEPT !.pc = "create_thought", !.user = id, !.time = clock]
listed(rows) == [Free EXCEPT !.op = "thoughts#index", !.rows = rows]

\* ThoughtsController#create: authenticate_request, then the parameter, then
\* the timestamps of the new row.
createThought(t, token, text) ==
    /\ threads[t].pc = "free" /\ Len(thoughts) < MaxThoughts
    /\ IF ~authorized(token) THEN render(t, posted(text), 401)
       ELSE IF text = Blank THEN render(t, posted(text), 400)
       ELSE goto(t, accepted(posted(text), token.user_id))
    /\ UNCHANGED <<users, thoughts, issued, clock>>

\* The INSERT commits.
insertThought(t) ==
    LET job == threads[t] IN
    /\ job.pc = "create_thought"
    /\ thoughts' = Append(thoughts, [user |-> job.user, text |-> job.text, updated_at |-> job.time])
    /\ render(t, job, 201)
    /\ UNCHANGED <<users, issued, clock>>

\* ThoughtsController#index: authenticate_request and one SELECT.
index(t, token, filter, limit) ==
    /\ threads[t].pc = "free"
    /\ IF ~authorized(token) THEN render(t, listed({}), 401)
       ELSE \E S \in IF filter = Nil THEN newest(limit) ELSE matching(filter, limit) :
                render(t, listed(S), 200)
    /\ UNCHANGED <<users, thoughts, issued, clock>>

\* The answer leaves, the thread is free for another request.
finish(t) ==
    /\ threads[t].pc = "answered"
    /\ goto(t, Free)
    /\ UNCHANGED <<users, thoughts, issued, clock>>

\* The process dies and is started again; what was committed stays.
restart ==
    /\ threads' = [t \in Threads |-> Free]
    /\ UNCHANGED <<users, thoughts, issued, clock>>

tick ==
    /\ clock < MaxTime
    /\ clock' = clock + 1
    /\ UNCHANGED <<users, thoughts, threads, issued>>

-----------------------------------------------------------------------------
Init ==
    /\ users = <<>>
    /\ thoughts = <<>>
    /\ threads = [t \in Threads |-> Free]
    /\ issued = {}
    /\ clock = 0

Work(t) == insertUser(t) \/ issueToken(t) \/ verify(t) \/ insertThought(t)

Request(t) ==
    \/ \E username \in Names \cup {Blank}, password \in Passwords \cup {Blank} :
            createUser(t, username, password) \/ authenticate(t, username, password)
    \/ \E token \in issued \cup {Nil} :
            \/ \E text \in Texts \cup {Blank} : createThought(t, token, text)
            \/ \E filter \in Filters \cup {Nil}, limit \in Limits : index(t, token, filter, limit)

Next ==
    \/ \E t \in Threads : Request(t) \/ Work(t) \/ finish(t)
    \/ restart
    \/ tick

Spec == Init /\ [][Next]_vars

\* A thread that has begun to serve a request goes on.
FairSpec == Spec /\ \A t \in Threads : WF_vars(Work(t))

-----------------------------------------------------------------------------
(* The accounts, as if requests were served one at a time.                 *)

named(job) == job.username # Blank /\ job.password # Blank

\* The verdict on a request is fixed by its last step on the users table.
verdictOf(job) ==
    IF job.op \notin {"users#create", "users#authenticate"} \/ ~named(job) THEN [answer |-> "none"]
    ELSE IF job.pc = "issue_token" \/ (job.pc = "answered" /\ job.status \in {200, 201})
    THEN [answer |-> "granted", name |-> Lower[job.username]]
    ELSE IF job.pc = "answered" THEN [answer |-> "refused"]
    ELSE [answer |-> "none"]

accountSet == {[name |-> users[i].username, password |-> users[i].password] : i \in DOMAIN users}
verdicts == [t \in Threads |-> verdictOf(threads[t])]

A == INSTANCE Accounts WITH
        Callers <- Threads, Acceptable <- Passwords \ TooLong,
        accounts <- accountSet, verdict <- verdicts

-----------------------------------------------------------------------------
(* Properties.                                                             *)

\* No two users have one name, though UsersController#create looks and inserts
\* in two statements; the names stored are in lower case, so that case does
\* not tell users apart either (schema.rb, the unique index).
UsernamesUnique ==
    /\ \A i, j \in DOMAIN users : users[i].username = users[j].username => i = j
    /\ \A i \in DOMAIN users : users[i].username = Lower[users[i].username]

Answered(t) == threads[t].pc = "answered"

\* A token goes only to a request that gave the password of the user it is
\* for (UsersController, AuthenticateUser), whatever other requests do between
\* the lookup, the insert and the comparison.
TokensAreEarned ==
    \A t \in Threads :
        /\ Answered(t)
        /\ threads[t].op \in {"users#create", "users#authenticate"}
        /\ threads[t].status \in {200, 201}
        => LET job == threads[t] IN
           /\ job.user \in DOMAIN users
           /\ users[job.user] = [username |-> Lower[job.username], password |-> job.password]
           /\ [user_id |-> job.user, exp |-> job.time] \in issued

\* Two sign-ups that both succeed made two users.
SignUpsMakeUsers ==
    \A t1, t2 \in Threads :
        /\ Answered(t1) /\ threads[t1].op = "users#create" /\ threads[t1].status = 201
        /\ Answered(t2) /\ threads[t2].op = "users#create" /\ threads[t2].status = 201
        /\ t1 # t2
        => threads[t1].user # threads[t2].user

\* Every token that was made and every thought names a user that exists,
\* also after a restart in the middle of a sign-up: User.find in
\* AuthorizeApiRequest does not raise and api_response_json finds its user,
\* although the schema has no foreign key.
ReferencesResolve ==
    /\ \A token \in issued : token.user_id \in DOMAIN users
    /\ \A i \in DOMAIN thoughts : thoughts[i].user \in DOMAIN users

\* Signing up and signing in are atomic: the statements of concurrent requests
\* interleave without any effect one-at-a-time requests could not have.
AccountsAreAtomic == A!Spec

\* Every request under way is answered, unless the server restarts.
RequestsAreAnswered ==
    \A t \in Threads :
        (threads[t].pc \notin {"free", "answered"}) ~> (threads[t].pc \in {"free", "answered"})

(* What a test says and the code does not do.                              *)

\* users_controller_spec.rb:18, "expect(response.status).to eq(400)": a sign-up
\* under a name that is taken gets 400.
DuplicateGets400 ==
    \A t \in Threads :
        /\ Answered(t) /\ threads[t].op = "users#create" /\ threads[t].status # 201
        /\ named(threads[t]) /\ threads[t].password \notin TooLong
        => threads[t].status = 400
=============================================================================
