------------------------------- MODULE System -------------------------------
(***************************************************************************)
(* Several devices, the network and the server: how a thought typed on one *)
(* device reaches the thoughts table and the feeds of the others.  A device *)
(* keeps a create going by retrying it (ThoughtActions), polls for the      *)
(* newest thoughts (ThoughtsSyncService) and stores what it does not have;  *)
(* the server inserts a row for every create it accepts and answers a poll  *)
(* with a window of the newest rows (ThoughtsController).                   *)
(*                                                                         *)
(* The network may lose a request or its answer, and may deliver a request  *)
(* after the device has given it up.  A token expires, and only signing in  *)
(* again replaces it.  What happens inside the client or inside the server  *)
(* while it handles one request is the subject of Client and Server; here   *)
(* each handler is one step.  Every device has its own user.                *)
(***************************************************************************)
EXTENDS Integers, Sequences, FiniteSets

CONSTANTS
    Devices,   \* the devices, each with its own user
    Typists,   \* bound: the devices on which thoughts are typed
    Texts,     \* texts that can be typed
    Blank,     \* the empty text, which the button accepts and the server refuses
    Window,    \* the limit of a poll that names none (10 in the code)
    Slots,     \* bound: creates of one device under way at once
    MaxPosts,  \* bound: how often one thought is typed
    MaxFaults, \* bound: exchanges that fail on the network, and kills
    Nil        \* no text, no body

ASSUME WindowAssumption == Window \in Nat \ {0}
ASSUME TypistsAssumption == Typists \subseteq Devices
ASSUME SlotsAssumption == IsFiniteSet(Slots)
ASSUME BoundsAssumption == MaxPosts \in Nat /\ MaxFaults \in Nat

VARIABLES
    rows,    \* the server's thoughts table, oldest first
    local,   \* the Thought table of each device
    session, \* whether somebody is logged in on the device
    expired, \* whether the token of the device's session has expired
    posts,   \* the creates of each device: sent, answered or waiting to be retried
    poll,    \* the poll of each device
    late,    \* requests the network still holds and nobody waits for
    typed,   \* history: how often a thought was typed
    failed,  \* history: how many attempts to send a thought failed on the network
    dropped, \* history: thoughts whose retry was given up by a kill or a logout
    faults   \* how many faults there have been

vars == <<rows, local, session, expired, posts, poll, late, typed, failed, dropped, faults>>

-----------------------------------------------------------------------------
(* The shape of the state.                                                 *)

Thought == [by: Devices, text: Texts]

\* An exchange: idle, on its way to the server, answered (accepted or refused),
\* or, for a create, waiting for its retry.  stale: the token it carries has
\* expired.  body is the text of a create, the answer of a poll.
Idle == [stage |-> "idle", body |-> Nil, stale |-> FALSE]
Sent(body, stale) == [stage |-> "sent", body |-> body, stale |-> stale]
Waiting(text) == [stage |-> "retry", body |-> text, stale |-> FALSE]

Stages == {"idle", "sent", "accepted", "refused", "retry"}

TypeOK ==
    /\ rows \in Seq(Thought)
    /\ local \in [Devices -> SUBSET Thought]
    /\ session \in [Devices -> BOOLEAN]
    /\ expired \in [Devices -> BOOLEAN]
    /\ posts \in [Devices -> [Slots -> [stage: Stages, body: Texts \cup {Nil}, stale: BOOLEAN]]]
    /\ poll \in [Devices -> [stage: Stages \ {"retry"}, body: {Nil} \cup SUBSET Thought, stale: BOOLEAN]]
    /\ late \subseteq [by: Devices, text: Texts, stale: BOOLEAN]
    /\ typed \in [Thought -> Nat]
    /\ failed \in [Thought -> Nat]
    /\ dropped \subseteq Thought
    /\ faults \in 0..MaxFaults

-----------------------------------------------------------------------------
(* Operators of the code.                                                  *)

th(d, text) == [by |-> d, text |-> text]

\* params.require(:text) refuses a blank text, authenticate_request an expired
\* token.
accepts(text, stale) == ~stale /\ text # Blank

\* Thought.order(updated_at: :desc).limit(limit)
newest(table) == {table[i] : i \in {j \in DOMAIN table : j > Len(table) - Window}}

\* The rows that hold a thought.
copies(t) == {i \in DOMAIN rows : rows[i] = t}

\* A device gives up what it was doing (the process is killed).
inFlight(d) == {p \in Texts : \E s \in Slots : posts[d][s].stage # "idle" /\ posts[d][s].body = p}

-----------------------------------------------------------------------------
(* A device.                                                               *)

\* createThoughtAction, from the button or from a retry: store the thought if
\* it is absent and send it with the token of the session; without a session
\* nothing is sent and nothing is tried again.
createThought(d, s, text) ==
    IF session[d]
    THEN /\ local' = [local EXCEPT ![d] = @ \cup {th(d, text)}]
         /\ posts' = [posts EXCEPT ![d][s] = Sent(text, expired[d])]
         /\ UNCHANGED dropped
    ELSE /\ posts' = [posts EXCEPT ![d][s] = Idle]
         /\ dropped' = dropped \cup {th(d, text)}
         /\ UNCHANGED local

postThoughtPressed(d, s, text) ==
    /\ session[d] /\ posts[d][s] = Idle
    /\ typed[th(d, text)] < MaxPosts
    /\ typed' = [typed EXCEPT ![th(d, text)] = @ + 1]
    /\ createThought(d, s, text)
    /\ UNCHANGED <<rows, session, expired, poll, late, failed, faults>>

retryCreate(d, s) ==
    /\ posts[d][s].stage = "retry"
    /\ createThought(d, s, posts[d][s].body)
    /\ UNCHANGED <<rows, session, expired, poll, late, typed, failed, faults>>

\* Fault: an answer that refuses the create is not retried.
afterRefusal_givesUp(text) == Idle

\* onFailure of a create: the text waits for its retry.
afterRefusal(text) == Waiting(text)

\* Fault: a create that succeeded is sent again.
createAnswered_sendsAgain(d, s) ==
    /\ posts[d][s].stage \in {"accepted", "refused"}
    /\ posts' = [posts EXCEPT ![d][s] = afterRefusal(@.body)]
    /\ UNCHANGED <<rows, local, session, expired, poll, late, typed, failed, dropped, faults>>

\* The answer to a create arrives.
createAnswered(d, s) ==
    /\ posts[d][s].stage \in {"accepted", "refused"}
    /\ posts' = [posts EXCEPT ![d][s] =
                    IF @.stage = "accepted" THEN Idle ELSE afterRefusal(@.body)]
    /\ UNCHANGED <<rows, local, session, expired, poll, late, typed, failed, dropped, faults>>

\* Fault: the timer does not repeat once something was fetched.
pollTick_untilFirst(d) ==
    /\ session[d] /\ poll[d] = Idle /\ local[d] = {}
    /\ poll' = [poll EXCEPT ![d] = Sent(Nil, expired[d])]
    /\ UNCHANGED <<rows, local, session, expired, posts, late, typed, failed, dropped, faults>>

\* The timer fires while somebody is logged in.
pollTick(d) ==
    /\ session[d] /\ poll[d] = Idle
    /\ poll' = [poll EXCEPT ![d] = Sent(Nil, expired[d])]
    /\ UNCHANGED <<rows, local, session, expired, posts, late, typed, failed, dropped, faults>>

\* Fault: a poll that is refused is retried like a create.
fetchAnswered_retries(d) ==
    /\ poll[d].stage \in {"accepted", "refused"}
    /\ local' = [local EXCEPT ![d] = IF poll[d].stage = "accepted" THEN @ \cup poll[d].body ELSE @]
    /\ poll' = [poll EXCEPT ![d] = IF @.stage = "accepted" THEN Idle ELSE Waiting(Nil)]
    /\ UNCHANGED <<rows, session, expired, posts, late, typed, failed, dropped, faults>>

\* The answer to a poll arrives: what is absent is stored, whoever is logged in
\* by now; a refusal is only logged.
fetchAnswered(d) ==
    /\ poll[d].stage \in {"accepted", "refused"}
    /\ local' = [local EXCEPT ![d] = IF poll[d].stage = "accepted" THEN @ \cup poll[d].body ELSE @]
    /\ poll' = [poll EXCEPT ![d] = Idle]
    /\ UNCHANGED <<rows, session, expired, posts, late, typed, failed, dropped, faults>>

logoutAction(d) ==
    /\ session[d]
    /\ local' = [local EXCEPT ![d] = {}]
    /\ session' = [session EXCEPT ![d] = FALSE]
    /\ UNCHANGED <<rows, expired, posts, poll, late, typed, failed, dropped, faults>>

\* Signing in gives the device a new token.
authSuccess(d) ==
    /\ ~session[d]
    /\ session' = [session EXCEPT ![d] = TRUE]
    /\ expired' = [expired EXCEPT ![d] = FALSE]
    /\ UNCHANGED <<rows, local, posts, poll, late, typed, failed, dropped, faults>>

-----------------------------------------------------------------------------
(* The server.                                                             *)

serveCreate(d, s) ==
    /\ posts[d][s].stage = "sent"
    /\ IF accepts(posts[d][s].body, posts[d][s].stale)
       THEN /\ rows' = Append(rows, th(d, posts[d][s].body))
            /\ posts' = [posts EXCEPT ![d][s].stage = "accepted"]
       ELSE /\ posts' = [posts EXCEPT ![d][s].stage = "refused"]
            /\ UNCHANGED rows
    /\ UNCHANGED <<local, session, expired, poll, late, typed, failed, dropped, faults>>

serveIndex(d) ==
    /\ poll[d].stage = "sent"
    /\ poll' = [poll EXCEPT ![d] = IF @.stale THEN [@ EXCEPT !.stage = "refused"]
                                   ELSE [@ EXCEPT !.stage = "accepted", !.body = newest(rows)]]
    /\ UNCHANGED <<rows, local, session, expired, posts, late, typed, failed, dropped, faults>>

\* A request nobody waits for any more is served all the same.
serveLate(r) ==
    /\ late' = late \ {r}
    /\ rows' = IF accepts(r.text, r.stale) THEN Append(rows, th(r.by, r.text)) ELSE rows
    /\ UNCHANGED <<local, session, expired, posts, poll, typed, failed, dropped, faults>>

\* 24 hours pass: every request that carries the token carries an expired one.
expire(d) ==
    /\ session[d] /\ ~expired[d]
    /\ expired' = [expired EXCEPT ![d] = TRUE]
    /\ posts' = [posts EXCEPT ![d] = [s \in Slots |->
                    IF posts[d][s].stage = "sent" THEN [posts[d][s] EXCEPT !.stale = TRUE]
                    ELSE posts[d][s]]]
    /\ poll' = [poll EXCEPT ![d].stale = (@ \/ poll[d].stage = "sent")]
    /\ late' = {[r EXCEPT !.stale = (@ \/ r.by = d)] : r \in late}
    /\ UNCHANGED <<rows, local, session, typed, failed, dropped, faults>>

-----------------------------------------------------------------------------
(* The network and the operating system.                                   *)

\* The requests of ps that have left the device: the network may keep them.
stillOut(d, ps) ==
    {[by |-> d, text |-> posts[d][s].body, stale |-> posts[d][s].stale] :
        s \in {t \in ps : posts[d][t].stage = "sent"}}

\* The connection fails before or after the server has handled the create; the
\* device retries.  The request is lost, or it is served later.
createFails(d, s) ==
    /\ faults < MaxFaults
    /\ posts[d][s].stage \in {"sent", "accepted", "refused"}
    /\ \E kept \in SUBSET stillOut(d, {s}) : late' = late \cup kept
    /\ posts' = [posts EXCEPT ![d][s] = afterRefusal(@.body)]
    /\ failed' = [failed EXCEPT ![th(d, posts[d][s].body)] = @ + 1]
    /\ faults' = faults + 1
    /\ UNCHANGED <<rows, local, session, expired, poll, typed, dropped>>

fetchFails(d) ==
    /\ faults < MaxFaults
    /\ poll[d] # Idle
    /\ poll' = [poll EXCEPT ![d] = Idle]
    /\ faults' = faults + 1
    /\ UNCHANGED <<rows, local, session, expired, posts, late, typed, failed, dropped>>

\* The process is killed and started again; the database is left.
kill(d) ==
    /\ faults < MaxFaults
    /\ \E kept \in SUBSET stillOut(d, Slots) : late' = late \cup kept
    /\ dropped' = dropped \cup {th(d, p) : p \in inFlight(d)}
    /\ posts' = [posts EXCEPT ![d] = [s \in Slots |-> Idle]]
    /\ poll' = [poll EXCEPT ![d] = Idle]
    /\ faults' = faults + 1
    /\ UNCHANGED <<rows, local, session, expired, typed, failed>>

-----------------------------------------------------------------------------
(* The specification.                                                      *)

Init ==
    /\ rows = <<>>
    /\ local = [d \in Devices |-> {}]
    /\ session = [d \in Devices |-> FALSE]
    /\ expired = [d \in Devices |-> FALSE]
    /\ posts = [d \in Devices |-> [s \in Slots |-> Idle]]
    /\ poll = [d \in Devices |-> Idle]
    /\ late = {}
    /\ typed = [t \in Thought |-> 0]
    /\ failed = [t \in Thought |-> 0]
    /\ dropped = {}
    /\ faults = 0

Next ==
    \/ \E d \in Typists, s \in Slots, text \in Texts : postThoughtPressed(d, s, text)
    \/ \E d \in Devices :
        \/ \E s \in Slots : retryCreate(d, s) \/ createAnswered(d, s)
                            \/ serveCreate(d, s) \/ createFails(d, s)
        \/ pollTick(d) \/ fetchAnswered(d) \/ serveIndex(d) \/ fetchFails(d)
        \/ logoutAction(d) \/ authSuccess(d) \/ expire(d) \/ kill(d)
    \/ \E r \in late : serveLate(r)

Spec == Init /\ [][Next]_vars

\* Timers and delayed blocks fire, the server handles what it gets and an
\* exchange that does not fail is answered.
Fairness ==
    \A d \in Devices :
        /\ \A s \in Slots : /\ WF_vars(retryCreate(d, s))
                            /\ WF_vars(createAnswered(d, s))
                            /\ WF_vars(serveCreate(d, s))
        /\ WF_vars(pollTick(d)) /\ WF_vars(fetchAnswered(d)) /\ WF_vars(serveIndex(d))

FairSpec == Spec /\ Fairness

-----------------------------------------------------------------------------
(* Properties.                                                             *)

\* A thought that was typed is in the server's table or is still being sent,
\* unless its retry was given up: whatever is lost, refused or delayed, the
\* retry of createThoughtAction forgets nothing while the process lives and
\* somebody is logged in.
NothingForgotten ==
    \A t \in Thought :
        typed[t] > 0 => \/ copies(t) # {}
                        \/ t.text \in inFlight(t.by)
                        \/ t \in dropped

\* A thought has more rows than it was typed only if an attempt to send it
\* failed on the network, and one more at most for each such failure.
RowsAreAccountedFor ==
    \A t \in Thought : Cardinality(copies(t)) <= typed[t] + failed[t]

\* A typed thought has one row, as the spec of ThoughtsController#create says
\* of one create (Thought.count is 1): the answer of the server is what the
\* device goes by.
OneRowPerThought ==
    \A t \in Thought : Cardinality(copies(t)) <= typed[t]

\* A thought typed on one device reaches the feed of every other, through every
\* loss, retry and poll, unless it is blank or given up, the token of either
\* device expires, the other is logged out, or newer rows fill the window first.
TypedThoughtIsSeen ==
    \A d \in Devices : \A t \in {x \in Thought : x.by # d /\ x.text # Blank} :
        (t.text \in inFlight(t.by)) ~>
            \/ t \in local[d]
            \/ copies(t) # {} /\ t \notin newest(rows)
            \/ t \in dropped
            \/ expired[t.by]
            \/ expired[d]
            \/ ~session[d]
=============================================================================
