------------------------------ MODULE Accounts ------------------------------
(***************************************************************************)
(* What the server promises about accounts: signing up and signing in are  *)
(* single steps on a set of accounts, as if requests came one at a time.   *)
(* A sign-up is granted by adding an account under a name nobody has, a    *)
(* sign-in by an account with that name and password; a request is refused *)
(* only for a reason.  An answer may be lost.                              *)
(***************************************************************************)
CONSTANTS
    Callers,    \* who can have a request under way
    Names,      \* account names, lower case
    Passwords,
    Acceptable  \* the passwords an account can have

VARIABLES
    accounts,   \* set of [name, password]
    verdict     \* for each caller: no answer, or the last one

Account == [name: Names, password: Acceptable]

None == [answer |-> "none"]
Granted(name) == [answer |-> "granted", name |-> name]
Refused == [answer |-> "refused"]

taken(name) == \E a \in accounts : a.name = name

Init ==
    /\ accounts = {}
    /\ verdict = [c \in Callers |-> None]

SignUp(c, name, password) ==
    /\ verdict[c] = None
    /\ password \in Acceptable /\ ~taken(name)
    /\ accounts' = accounts \cup {[name |-> name, password |-> password]}
    /\ verdict' = [verdict EXCEPT ![c] = Granted(name)]

SignIn(c, name, password) ==
    /\ verdict[c] = None
    /\ [name |-> name, password |-> password] \in accounts
    /\ verdict' = [verdict EXCEPT ![c] = Granted(name)]
    /\ UNCHANGED accounts

RefuseSignUp(c, name, password) ==
    /\ verdict[c] = None
    /\ taken(name) \/ password \notin Acceptable
    /\ verdict' = [verdict EXCEPT ![c] = Refused]
    /\ UNCHANGED accounts

RefuseSignIn(c, name, password) ==
    /\ verdict[c] = None
    /\ [name |-> name, password |-> password] \notin accounts
    /\ verdict' = [verdict EXCEPT ![c] = Refused]
    /\ UNCHANGED accounts

\* The answers to any of the callers are delivered, or lost.
Forget ==
    /\ \E C \in SUBSET Callers :
            verdict' = [c \in Callers |-> IF c \in C THEN None ELSE verdict[c]]
    /\ UNCHANGED accounts

Next ==
    \/ \E c \in Callers, name \in Names, password \in Passwords :
            \/ SignUp(c, name, password)
            \/ SignIn(c, name, password)
            \/ RefuseSignUp(c, name, password)
            \/ RefuseSignIn(c, name, password)
    \/ Forget

Spec == Init /\ [][Next]_<<accounts, verdict>>
=============================================================================
