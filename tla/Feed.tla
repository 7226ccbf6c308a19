-------------------------------- MODULE Feed --------------------------------
(***************************************************************************)
(* The feed: how a thought stored in the local Realm database reaches a row *)
(* of the table.  ThoughtsObserver observes the query "all thoughts, newest *)
(* first" while the feed is on screen and dispatches what it is told;       *)
(* ThoughtsReducer keeps the last payload, which holds the list and, for a  *)
(* change, the indexes that were deleted and inserted; the view controller  *)
(* reloads its table or applies the indexes as one batch update.            *)
(*                                                                         *)
(* UIKit keeps its own idea of how many rows a table has: a batch update    *)
(* that does not lead from that number to numberOfRowsInSection raises an   *)
(* exception, which ends the process (screen = "crashed").                  *)
(*                                                                         *)
(* Everything runs on the main thread; one action is one run-loop callback. *)
(* A Realm write first brings the Realm up to date, so it delivers a        *)
(* notification that is due before it changes anything (write).             *)
(***************************************************************************)
EXTENDS Integers, Sequences, SequencesExt, FiniteSetsExt

CONSTANTS
    Thoughts, \* bound: the Thought objects that can exist at once
    Nil       \* Swift's nil

ASSUME ThoughtsAssumption == IsFiniteSet(Thoughts)
ASSUME NilAssumption ==
    /\ Nil \notin Seq(Thoughts)
    /\ Nil \notin [kind: {"initial", "update", "error"}, list: Seq(Thoughts),
                  del: SUBSET Nat, ins: SUBSET Nat]

VARIABLES
    db,      \* the Thought objects of the database, in the order of the query
    session, \* store.state.authState.loggedIn()
    observing, \* the observer's notification token is valid
    seen,    \* the list the observer was last told of, Nil before the first time
    payload, \* store.state.thoughtsState.loadedThoughtsPayload
    rows,    \* the cells of the table
    screen,  \* which view controller is on screen, or on its way
    late     \* history: a sign-in was answered while the feed was dismissed

vars == <<db, session, observing, seen, payload, rows, screen, late>>

-----------------------------------------------------------------------------
(* The shape of the state.                                                 *)

Lists == {l \in SeqOf(Thoughts, Cardinality(Thoughts)) : IsInjective(l)}

Initial(list) == [kind |-> "initial", list |-> list, del |-> {}, ins |-> {}]
Update(old, list) ==
    [kind |-> "update", list |-> list,
     del |-> {i \in DOMAIN old : ~Contains(list, old[i])},
     ins |-> {i \in DOMAIN list : ~Contains(old, list[i])}]
Error == [kind |-> "error", list |-> <<>>, del |-> {}, ins |-> {}]

Payloads == {Error} \cup {Initial(l) : l \in Lists} \cup {Update(k, l) : k, l \in Lists}

TypeOK ==
    /\ db \in Lists
    /\ session \in BOOLEAN
    /\ observing \in BOOLEAN
    /\ seen \in Lists \cup {Nil}
    /\ payload \in Payloads \cup {Nil}
    /\ rows \in Lists
    /\ screen \in {"auth", "presenting", "feed", "leaving", "crashed"}
    /\ late \in BOOLEAN

-----------------------------------------------------------------------------
(* Operators of the code that read or build state.                         *)

\* ThoughtsState.thoughts()
thoughts(p) == IF p = Nil THEN <<>> ELSE p.list

\* Fault: every object of the list is inserted, not only the new ones.
batch_insertsAll(table, p) == table \o p.list

\* Fault: the new objects are inserted at the top, wherever they belong.
batch_atTop(table, p) == SelectSeq(p.list, LAMBDA t : ~Contains(table, t)) \o table

\* insertRows and deleteRows between beginUpdates and endUpdates: deletions
\* count in the table as it was, insertions in the table as it will be.
batch(table, p) ==
    LET kept == [i \in 1..(Len(table) - Cardinality(p.del)) |->
                    table[CHOOSE j \in DOMAIN table \ p.del :
                            Cardinality({k \in DOMAIN table \ p.del : k <= j}) = i]]
    IN  [i \in 1..(Len(kept) + Cardinality(p.ins)) |->
            IF i \in p.ins THEN p.list[i]
            ELSE kept[i - Cardinality({k \in p.ins : k < i})]]

\* endUpdates compares the rows it has with numberOfRowsInSection.
batchIsValid(table, p) ==
    /\ p.del \subseteq DOMAIN table
    /\ Len(table) - Cardinality(p.del) + Cardinality(p.ins) = Len(p.list)

\* Fault: the initial payload does not reload the table.
newState_noReload(table, p) ==
    IF p # Nil /\ p.kind = "update"
    THEN IF batchIsValid(table, p) THEN batch(table, p) ELSE Nil
    ELSE table

\* newState(state:): the table after it, or Nil if the batch update raises.
newState(table, p) ==
    IF p = Nil \/ p.kind = "error" THEN table
    ELSE IF p.kind = "initial" THEN p.list
    ELSE IF batchIsValid(table, p) THEN batch(table, p) ELSE Nil

\* A notification is due: the first one always, a later one after a change.
due == observing /\ seen # db

\* Fault: an update is dropped while the table is empty.
observed_needsRows ==
    IF seen = Nil THEN Initial(db)
    ELSE IF session /\ rows # <<>> THEN Update(seen, db) ELSE payload

\* The callback of ThoughtsObserver: the payload of the state after it.  An
\* update is dropped while nobody is logged in.
observed ==
    IF seen = Nil THEN Initial(db)
    ELSE IF session THEN Update(seen, db) ELSE payload

\* The table after the notification; subscribers hear of a changed state only.
shown == IF observed # payload THEN newState(rows, observed) ELSE rows

\* The payload when nothing but a notification changes it.
lastPayload == IF due THEN observed ELSE payload

-----------------------------------------------------------------------------
(* Steps.                                                                  *)

running == screen # "crashed"

\* A callback that delivers the notification that is due, if one is, and then
\* leaves the database d, the session l, the payload p and the screen s.
notifyThen(d, l, p, s) ==
    IF due /\ shown = Nil
    THEN /\ screen' = "crashed"
         /\ payload' = observed
         /\ UNCHANGED <<db, session, observing, seen, rows>>
    ELSE /\ db' = d
         /\ session' = l
         /\ seen' = IF due THEN db ELSE seen
         /\ payload' = p
         /\ rows' = IF due THEN shown ELSE rows
         /\ screen' = s
         /\ UNCHANGED observing

\* The run loop delivers the notification.
notify ==
    /\ running /\ due
    /\ notifyThen(db, session, lastPayload, screen)
    /\ UNCHANGED late

\* The observer cannot be served any more: an error is its last notification.
notifyError ==
    /\ running /\ observing
    /\ observing' = FALSE
    /\ payload' = Error
    /\ UNCHANGED <<db, session, seen, rows, screen, late>>

\* A thought no list refers to any more, for a new object to be.
isNew(t) == t \notin ToSet(db) \cup ToSet(rows) \cup ToSet(thoughts(payload))
                        \cup (IF seen = Nil THEN {} ELSE ToSet(seen))

\* save() of a new Thought, one that was typed or one that was fetched; its
\* timestamp decides where it comes in the query.
saveThought(t, i) ==
    /\ running /\ isNew(t)
    /\ notifyThen(InsertAt(db, i, t), session, lastPayload, screen)
    /\ UNCHANGED late

\* Fault: the reducer does not replace the state when the user logs out.
logoutAction_keepsState ==
    /\ screen = "feed"
    /\ notifyThen(<<>>, FALSE, lastPayload, "leaving")
    /\ UNCHANGED late

\* Logout: the write that empties the database, then the cleared state, for
\* which newState returns early: the table keeps its rows.
logoutAction ==
    /\ screen = "feed"
    /\ notifyThen(<<>>, FALSE, Nil, "leaving")
    /\ UNCHANGED late

\* authSuccess: the write of the User row, then the sign-in screen presents
\* the feed.
authSuccess ==
    /\ screen = "auth"
    /\ notifyThen(db, TRUE, lastPayload, "presenting")
    /\ UNCHANGED late

\* A second sign-in, answered while the feed is being dismissed.
lateAuthSuccess ==
    /\ screen = "leaving"
    /\ notifyThen(db, TRUE, lastPayload, screen)
    /\ late' = TRUE

\* Fault: subscribing does not start the observer.
viewDidAppear_noObserver ==
    /\ screen = "presenting"
    /\ screen' = "feed"
    /\ rows' = newState(thoughts(payload), payload)
    /\ UNCHANGED <<db, session, observing, seen, payload, late>>

\* The table of a new view controller has loaded its rows from the state;
\* subscribing calls newState with the state there is; the observer starts.
viewDidAppear ==
    /\ screen = "presenting"
    /\ LET table == newState(thoughts(payload), payload) IN
        IF table = Nil
        THEN screen' = "crashed" /\ UNCHANGED <<rows, observing, seen>>
        ELSE screen' = "feed" /\ rows' = table /\ observing' = TRUE /\ seen' = Nil
    /\ UNCHANGED <<db, session, payload, late>>

\* The feed is gone, and its table with it; the observer is stopped.
viewDidDisappear ==
    /\ screen = "leaving"
    /\ screen' = "auth"
    /\ observing' = FALSE
    /\ seen' = Nil
    /\ rows' = <<>>
    /\ UNCHANGED <<db, session, payload, late>>

\* The process ends and is started again: the database and the User row in it
\* stay, and with a user the sign-in screen presents the feed.
relaunch ==
    /\ observing' = FALSE
    /\ seen' = Nil
    /\ payload' = Nil
    /\ rows' = <<>>
    /\ screen' = IF session THEN "presenting" ELSE "auth"
    /\ late' = FALSE
    /\ UNCHANGED <<db, session>>

Init ==
    /\ db = <<>>
    /\ session = FALSE
    /\ observing = FALSE
    /\ seen = Nil
    /\ payload = Nil
    /\ rows = <<>>
    /\ screen = "auth"
    /\ late = FALSE

Next ==
    \/ notify
    \/ notifyError
    \/ \E t \in Thoughts : \E i \in 1..(Len(db) + 1) : saveThought(t, i)
    \/ logoutAction
    \/ authSuccess
    \/ lateAuthSuccess
    \/ viewDidAppear
    \/ viewDidDisappear
    \/ relaunch

Spec == Init /\ [][Next]_vars

\* The run loop delivers what is due and UIKit finishes its transitions.
FairSpec == Spec /\ WF_vars(notify) /\ WF_vars(viewDidAppear) /\ WF_vars(viewDidDisappear)

-----------------------------------------------------------------------------
(* Properties.                                                             *)

\* The change indexes a notification carries fit the table they are applied
\* to: no batch update in newState raises (ThoughtsViewController applies the
\* indexes of ThoughtsObserver as they are).  The one exception is a sign-in
\* answered while the feed is being dismissed: the state was cleared, the table
\* was not, and the next notification is not dropped any more; nor is the
\* change it leaves in the state cleared before the next feed applies it again.
BatchUpdatesFit == running \/ late

\* While the feed is on screen the table shows exactly the list of the state,
\* in its order, however saves, flushes, notifications and relaunches
\* interleave; so cellForRowAt never indexes past the list it reads.  Only an
\* error notification breaks the tie: the state then has no thoughts while the
\* table keeps its rows.
TableShowsState ==
    screen = "feed" /\ payload # Error => rows = thoughts(payload)

\* The list in the state never holds an object that was deleted: whatever
\* flushes the database clears the state in the same callback.  (Reading a
\* property of a deleted Realm object ends the process.)
StateHoldsStoredThoughts == running => ToSet(thoughts(payload)) \subseteq ToSet(db)

\* What the observer has been told of is what the state holds, while somebody is
\* logged in: no change between two notifications is skipped, so the indexes of
\* the next one count from the list in the state.
ObserverMatchesState ==
    screen = "feed" /\ observing /\ seen # Nil => seen = thoughts(payload)

\* A stored thought is shown in the table unless the feed is left, or the
\* observer was stopped by an error.
StoredThoughtsAreShown ==
    \A t \in Thoughts :
        (screen = "feed" /\ t \in ToSet(db)) ~>
            (t \in ToSet(rows) \/ screen # "feed" \/ payload = Error)
=============================================================================
