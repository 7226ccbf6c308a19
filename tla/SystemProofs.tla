---------------------------- MODULE SystemProofs ----------------------------
(***************************************************************************)
(* The safety properties of System, for any number of devices, texts,      *)
(* creates under way and faults.                                           *)
(***************************************************************************)
EXTENDS System, TLAPS, FiniteSetTheorems

\* The exchanges, named so that the provers need not look at their fields.
Posts == [stage: Stages, body: Texts \cup {Nil}, stale: BOOLEAN]
Polls == [stage: Stages \ {"retry"}, body: {Nil} \cup SUBSET Thought, stale: BOOLEAN]
Requests == [by: Devices, text: Texts, stale: BOOLEAN]

\* An exchange that is not idle has a body that fits.
PostsFilled ==
    \A d \in Devices, s \in Slots : posts[d][s].stage # "idle" => posts[d][s].body \in Texts

PollsFilled ==
    \A d \in Devices : poll[d].stage = "accepted" => poll[d].body \in SUBSET Thought

\* The server says it accepted a create only after it inserted the row.
AcceptedIsStored ==
    \A d \in Devices, s \in Slots :
        posts[d][s].stage = "accepted" => copies(th(d, posts[d][s].body)) # {}

\* The inductive invariant of type correctness.
TypeInv == TypeOK /\ PostsFilled /\ PollsFilled

-----------------------------------------------------------------------------
(* Records and rows.                                                       *)

LEMMA ThoughtFields ==
    ASSUME NEW d \in Devices, NEW text \in Texts
    PROVE  th(d, text) \in Thought /\ th(d, text).by = d /\ th(d, text).text = text
  BY DEF th, Thought

LEMMA ThoughtIsTh ==
    ASSUME NEW t \in Thought
    PROVE  t.by \in Devices /\ t.text \in Texts /\ t = th(t.by, t.text)
  BY DEF th, Thought

LEMMA IdlePost == Idle \in Posts /\ Idle \in Polls /\ Idle.stage = "idle"
  BY DEF Idle, Posts, Polls, Stages

LEMMA SentPost ==
    ASSUME NEW body \in Texts, NEW stale \in BOOLEAN
    PROVE  /\ Sent(body, stale) \in Posts /\ Sent(body, stale).stage = "sent"
           /\ Sent(body, stale).body = body /\ Sent(body, stale).stale = stale
  BY DEF Sent, Posts, Stages

LEMMA SentPoll ==
    ASSUME NEW stale \in BOOLEAN
    PROVE  Sent(Nil, stale) \in Polls /\ Sent(Nil, stale).stage = "sent"
  BY DEF Sent, Polls, Stages

LEMMA WaitingPost ==
    ASSUME NEW body \in Texts
    PROVE  /\ afterRefusal(body) \in Posts /\ afterRefusal(body).stage = "retry"
           /\ afterRefusal(body).body = body
  BY DEF afterRefusal, Waiting, Posts, Stages

LEMMA PostFields ==
    ASSUME NEW p \in Posts
    PROVE  p.stage \in Stages /\ p.body \in Texts \cup {Nil} /\ p.stale \in BOOLEAN
  BY DEF Posts

LEMMA PostWithStage ==
    ASSUME NEW p \in Posts, NEW stage \in Stages
    PROVE  LET q == [p EXCEPT !.stage = stage]
           IN  q \in Posts /\ q.stage = stage /\ q.body = p.body /\ q.stale = p.stale
  BY DEF Posts

LEMMA PostStale ==
    ASSUME NEW p \in Posts
    PROVE  LET q == [p EXCEPT !.stale = TRUE]
           IN  q \in Posts /\ q.stage = p.stage /\ q.body = p.body
  BY DEF Posts

LEMMA PollFields ==
    ASSUME NEW p \in Polls
    PROVE  p.stage \in Stages \ {"retry"} /\ p.body \in {Nil} \cup SUBSET Thought /\ p.stale \in BOOLEAN
  BY DEF Polls

LEMMA PollRefused ==
    ASSUME NEW p \in Polls
    PROVE  LET q == [p EXCEPT !.stage = "refused"] IN q \in Polls /\ q.stage = "refused"
  BY DEF Polls, Stages

LEMMA PollAccepted ==
    ASSUME NEW p \in Polls, NEW answer \in SUBSET Thought
    PROVE  LET q == [p EXCEPT !.stage = "accepted", !.body = answer]
           IN  q \in Polls /\ q.stage = "accepted" /\ q.body = answer
  BY DEF Polls, Stages

LEMMA PollStale ==
    ASSUME NEW p \in Polls, NEW stale \in BOOLEAN
    PROVE  LET q == [p EXCEPT !.stale = stale]
           IN  q \in Polls /\ q.stage = p.stage /\ q.body = p.body
  BY DEF Polls

LEMMA NewestAreThoughts ==
    ASSUME rows \in Seq(Thought)
    PROVE  newest(rows) \in SUBSET Thought
  BY DEF newest

\* One exchange of a device is replaced.
LEMMA PostReplaced ==
    ASSUME NEW ps \in [Devices -> [Slots -> Posts]], NEW d \in Devices, NEW s \in Slots,
           NEW p \in Posts
    PROVE  LET qs == [ps EXCEPT ![d][s] = p]
           IN  /\ qs \in [Devices -> [Slots -> Posts]]
               /\ qs[d][s] = p
               /\ \A e \in Devices, z \in Slots : e # d \/ z # s => qs[e][z] = ps[e][z]
<1> DEFINE qs == [ps EXCEPT ![d][s] = p]
<1>1. qs = [ps EXCEPT ![d] = [ps[d] EXCEPT ![s] = p]]
  OBVIOUS
<1>2. [ps[d] EXCEPT ![s] = p] \in [Slots -> Posts]
  OBVIOUS
<1>3. qs \in [Devices -> [Slots -> Posts]]
  BY <1>1, <1>2
<1> QED
  BY <1>3

LEMMA DeviceReplaced ==
    ASSUME NEW ps \in [Devices -> [Slots -> Posts]], NEW d \in Devices,
           NEW f \in [Slots -> Posts]
    PROVE  LET qs == [ps EXCEPT ![d] = f]
           IN  /\ qs \in [Devices -> [Slots -> Posts]]
               /\ qs[d] = f
               /\ \A e \in Devices : e # d => qs[e] = ps[e]
  OBVIOUS

-----------------------------------------------------------------------------
(* Type correctness.                                                       *)

LEMMA TypeShape ==
    TypeOK <=>
        /\ rows \in Seq(Thought)
        /\ local \in [Devices -> SUBSET Thought]
        /\ session \in [Devices -> BOOLEAN]
        /\ expired \in [Devices -> BOOLEAN]
        /\ posts \in [Devices -> [Slots -> Posts]]
        /\ poll \in [Devices -> Polls]
        /\ late \subseteq Requests
        /\ typed \in [Thought -> Nat]
        /\ failed \in [Thought -> Nat]
        /\ dropped \subseteq Thought
        /\ faults \in 0..MaxFaults
  BY DEF TypeOK, Posts, Polls, Requests

LEMMA TypeShapePrime ==
    TypeOK' <=>
        /\ rows' \in Seq(Thought)
        /\ local' \in [Devices -> SUBSET Thought]
        /\ session' \in [Devices -> BOOLEAN]
        /\ expired' \in [Devices -> BOOLEAN]
        /\ posts' \in [Devices -> [Slots -> Posts]]
        /\ poll' \in [Devices -> Polls]
        /\ late' \subseteq Requests
        /\ typed' \in [Thought -> Nat]
        /\ failed' \in [Thought -> Nat]
        /\ dropped' \subseteq Thought
        /\ faults' \in 0..MaxFaults
  BY DEF TypeOK, Posts, Polls, Requests

LEMMA InitTypeInv == Init => TypeInv
<1> SUFFICES ASSUME Init PROVE TypeInv
  OBVIOUS
<1>1. TypeOK
  BY IdlePost, BoundsAssumption, TypeShape DEF Init
<1>2. PostsFilled /\ PollsFilled
  BY IdlePost DEF Init, PostsFilled, PollsFilled
<1> QED
  BY <1>1, <1>2 DEF TypeInv

\* A create is replaced, and nothing else but the histories changes.
LEMMA PostStepFilled ==
    ASSUME TypeInv, TypeOK', UNCHANGED poll,
           NEW d \in Devices, NEW s \in Slots, NEW p \in Posts,
           posts' = [posts EXCEPT ![d][s] = p],
           p.stage # "idle" => p.body \in Texts
    PROVE  TypeInv'
<1>1. PostsFilled'
  BY PostReplaced, TypeShape DEF TypeInv, PostsFilled
<1>2. PollsFilled'
  BY DEF TypeInv, PollsFilled
<1> QED
  BY <1>1, <1>2 DEF TypeInv

LEMMA PollStepFilled ==
    ASSUME TypeInv, TypeOK', UNCHANGED posts,
           NEW d \in Devices, NEW p \in Polls,
           poll' = [poll EXCEPT ![d] = p],
           p.stage = "accepted" => p.body \in SUBSET Thought
    PROVE  TypeInv'
<1>1. PollsFilled'
  BY TypeShape DEF TypeInv, PollsFilled
<1>2. PostsFilled'
  BY DEF TypeInv, PostsFilled
<1> QED
  BY <1>1, <1>2 DEF TypeInv

LEMMA createThoughtTypeInv ==
    ASSUME TypeInv, NEW d \in Devices, NEW s \in Slots, NEW text \in Texts,
           createThought(d, s, text),
           UNCHANGED <<rows, session, expired, poll, late, failed, faults>>,
           typed' \in [Thought -> Nat]
    PROVE  TypeInv'
<1>1. CASE session[d]
  <2>1. expired[d] \in BOOLEAN
    BY TypeShape DEF TypeInv
  <2>2. Sent(text, expired[d]) \in Posts /\ Sent(text, expired[d]).body = text
    BY <2>1, SentPost
  <2>3. posts' = [posts EXCEPT ![d][s] = Sent(text, expired[d])] /\ UNCHANGED dropped
        /\ local' = [local EXCEPT ![d] = @ \cup {th(d, text)}]
    BY <1>1 DEF createThought
  <2>4. posts' \in [Devices -> [Slots -> Posts]]
    BY <2>2, <2>3, PostReplaced, TypeShape DEF TypeInv
  <2>5. local' \in [Devices -> SUBSET Thought]
    BY <2>3, ThoughtFields, TypeShape DEF TypeInv
  <2>6. TypeOK'
    BY <2>3, <2>4, <2>5, TypeShape, TypeShapePrime DEF TypeInv
  <2> QED
    BY <2>2, <2>3, <2>6, PostStepFilled
<1>2. CASE ~session[d]
  <2>1. posts' = [posts EXCEPT ![d][s] = Idle] /\ UNCHANGED local
        /\ dropped' = dropped \cup {th(d, text)}
    BY <1>2 DEF createThought
  <2>2. posts' \in [Devices -> [Slots -> Posts]]
    BY <2>1, IdlePost, PostReplaced, TypeShape DEF TypeInv
  <2>3. dropped' \subseteq Thought
    BY <2>1, ThoughtFields, TypeShape DEF TypeInv
  <2>4. TypeOK'
    BY <2>1, <2>2, <2>3, TypeShape, TypeShapePrime DEF TypeInv
  <2> QED
    BY <2>1, <2>4, IdlePost, PostStepFilled
<1> QED
  BY <1>1, <1>2

LEMMA postThoughtPressedTypeInv ==
    ASSUME TypeInv, NEW d \in Devices, NEW s \in Slots, NEW text \in Texts,
           postThoughtPressed(d, s, text)
    PROVE  TypeInv'
<1>1. typed' \in [Thought -> Nat]
  BY ThoughtFields, TypeShape DEF TypeInv, postThoughtPressed
<1> QED
  BY <1>1, createThoughtTypeInv DEF postThoughtPressed

LEMMA retryCreateTypeInv ==
    ASSUME TypeInv, NEW d \in Devices, NEW s \in Slots, retryCreate(d, s)
    PROVE  TypeInv'
<1>1. posts[d][s].body \in Texts
  BY DEF TypeInv, PostsFilled, retryCreate
<1>2. typed' \in [Thought -> Nat]
  BY TypeShape DEF TypeInv, retryCreate
<1> QED
  BY <1>1, <1>2, createThoughtTypeInv DEF retryCreate

LEMMA createAnsweredTypeInv ==
    ASSUME TypeInv, NEW d \in Devices, NEW s \in Slots, createAnswered(d, s)
    PROVE  TypeInv'
<1> DEFINE p == IF posts[d][s].stage = "accepted" THEN Idle ELSE afterRefusal(posts[d][s].body)
<1>1. posts[d][s].body \in Texts
  BY DEF TypeInv, PostsFilled, createAnswered
<1>2. p \in Posts /\ (p.stage # "idle" => p.body \in Texts)
  BY <1>1, IdlePost, WaitingPost
<1>3. posts' = [posts EXCEPT ![d][s] = p]
  BY TypeShape DEF TypeInv, createAnswered
<1> HIDE DEF p
<1>4. posts' \in [Devices -> [Slots -> Posts]]
  BY <1>2, <1>3, PostReplaced, TypeShape DEF TypeInv
<1>5. TypeOK'
  BY <1>4, TypeShape, TypeShapePrime DEF TypeInv, createAnswered
<1> QED
  BY <1>2, <1>3, <1>5, PostStepFilled DEF createAnswered

LEMMA pollTickTypeInv ==
    ASSUME TypeInv, NEW d \in Devices, pollTick(d)
    PROVE  TypeInv'
<1>1. Sent(Nil, expired[d]) \in Polls /\ Sent(Nil, expired[d]).stage = "sent"
  BY SentPoll, TypeShape DEF TypeInv
<1>2. poll' = [poll EXCEPT ![d] = Sent(Nil, expired[d])]
  BY DEF pollTick
<1>3. TypeOK'
  BY <1>1, <1>2, TypeShape, TypeShapePrime DEF TypeInv, pollTick
<1> QED
  BY <1>1, <1>2, <1>3, PollStepFilled DEF pollTick

LEMMA fetchAnsweredTypeInv ==
    ASSUME TypeInv, NEW d \in Devices, fetchAnswered(d)
    PROVE  TypeInv'
<1>1. local' \in [Devices -> SUBSET Thought]
  BY TypeShape DEF TypeInv, PollsFilled, fetchAnswered
<1>2. poll' = [poll EXCEPT ![d] = Idle]
  BY DEF fetchAnswered
<1>3. TypeOK'
  BY <1>1, <1>2, IdlePost, TypeShape, TypeShapePrime DEF TypeInv, fetchAnswered
<1> QED
  BY <1>2, <1>3, IdlePost, PollStepFilled DEF fetchAnswered

LEMMA logoutActionTypeInv ==
    ASSUME TypeInv, NEW d \in Devices, logoutAction(d)
    PROVE  TypeInv'
<1>1. TypeOK'
  BY TypeShape, TypeShapePrime DEF TypeInv, logoutAction
<1> QED
  BY <1>1 DEF TypeInv, logoutAction, PostsFilled, PollsFilled

LEMMA authSuccessTypeInv ==
    ASSUME TypeInv, NEW d \in Devices, authSuccess(d)
    PROVE  TypeInv'
<1>1. TypeOK'
  BY TypeShape, TypeShapePrime DEF TypeInv, authSuccess
<1> QED
  BY <1>1 DEF TypeInv, authSuccess, PostsFilled, PollsFilled

LEMMA serveCreateTypeInv ==
    ASSUME TypeInv, NEW d \in Devices, NEW s \in Slots, serveCreate(d, s)
    PROVE  TypeInv'
<1>1. posts[d][s].body \in Texts /\ posts[d][s] \in Posts
  BY TypeShape DEF TypeInv, PostsFilled, serveCreate
<1>2. PICK stage \in {"accepted", "refused"} :
        posts' = [posts EXCEPT ![d][s].stage = stage]
  BY DEF serveCreate
<1> DEFINE p == [posts[d][s] EXCEPT !.stage = stage]
<1>a. stage \in Stages
  BY DEF Stages
<1>3. p \in Posts /\ p.body \in Texts
  BY <1>1, <1>a, PostWithStage
<1>4. posts' = [posts EXCEPT ![d][s] = p]
  BY <1>2
<1> HIDE DEF p
<1>5. posts' \in [Devices -> [Slots -> Posts]]
  BY <1>3, <1>4, PostReplaced, TypeShape DEF TypeInv
<1>b. th(d, posts[d][s].body) \in Thought /\ rows \in Seq(Thought)
  BY <1>1, ThoughtFields, TypeShape DEF TypeInv
<1>6. rows' \in Seq(Thought)
  BY <1>b DEF serveCreate
<1>7. TypeOK'
  BY <1>5, <1>6, TypeShape, TypeShapePrime DEF TypeInv, serveCreate
<1> QED
  BY <1>3, <1>4, <1>7, PostStepFilled DEF serveCreate

LEMMA serveIndexTypeInv ==
    ASSUME TypeInv, NEW d \in Devices, serveIndex(d)
    PROVE  TypeInv'
<1> DEFINE p == IF poll[d].stale THEN [poll[d] EXCEPT !.stage = "refused"]
                ELSE [poll[d] EXCEPT !.stage = "accepted", !.body = newest(rows)]
<1>1. poll[d] \in Polls /\ newest(rows) \in SUBSET Thought
  BY NewestAreThoughts, TypeShape DEF TypeInv
<1>2. p \in Polls /\ (p.stage = "accepted" => p.body \in SUBSET Thought)
  BY <1>1, PollRefused, PollAccepted
<1>3. poll' = [poll EXCEPT ![d] = p]
  BY DEF serveIndex
<1> HIDE DEF p
<1>4. TypeOK'
  BY <1>2, <1>3, TypeShape, TypeShapePrime DEF TypeInv, serveIndex
<1> QED
  BY <1>2, <1>3, <1>4, PollStepFilled DEF serveIndex

LEMMA serveLateTypeInv ==
    ASSUME TypeInv, NEW r \in late, serveLate(r)
    PROVE  TypeInv'
<1>1. r.by \in Devices /\ r.text \in Texts
  BY TypeShape DEF TypeInv, Requests
<1>2. rows' \in Seq(Thought)
  BY <1>1, ThoughtFields, TypeShape DEF TypeInv, serveLate
<1>3. TypeOK'
  BY <1>2, TypeShape, TypeShapePrime DEF TypeInv, serveLate
<1> QED
  BY <1>3 DEF TypeInv, serveLate, PostsFilled, PollsFilled
\* What expire makes of the creates of its device.
expiredPost(p) == IF p.stage = "sent" THEN [p EXCEPT !.stale = TRUE] ELSE p

LEMMA ExpiredPost ==
    ASSUME NEW p \in Posts
    PROVE  /\ expiredPost(p) \in Posts
           /\ expiredPost(p).stage = p.stage /\ expiredPost(p).body = p.body
  BY PostStale DEF expiredPost

LEMMA expirePosts ==
    ASSUME TypeInv, NEW d \in Devices, expire(d)
    PROVE  /\ posts' \in [Devices -> [Slots -> Posts]]
           /\ \A e \in Devices, s \in Slots :
                posts'[e][s].stage = posts[e][s].stage /\ posts'[e][s].body = posts[e][s].body
<1> DEFINE f == [s \in Slots |-> expiredPost(posts[d][s])]
<1>1. posts \in [Devices -> [Slots -> Posts]]
  BY TypeShape DEF TypeInv
<1>2. f \in [Slots -> Posts]
  BY <1>1, ExpiredPost
<1>3. posts' = [posts EXCEPT ![d] = f]
  BY DEF expire, expiredPost
<1>4. \A s \in Slots : f[s].stage = posts[d][s].stage /\ f[s].body = posts[d][s].body
  BY <1>1, ExpiredPost
<1> HIDE DEF f
<1> QED
  BY <1>1, <1>2, <1>3, <1>4, DeviceReplaced

LEMMA expireTypeInv ==
    ASSUME TypeInv, NEW d \in Devices, expire(d)
    PROVE  TypeInv'
<1> DEFINE p == [poll[d] EXCEPT !.stale = (@ \/ poll[d].stage = "sent")]
<1>1. poll[d] \in Polls /\ poll[d].stale \in BOOLEAN
  BY PollFields, TypeShape DEF TypeInv
<1>2. p \in Polls /\ p.stage = poll[d].stage /\ p.body = poll[d].body
  BY <1>1, PollStale
<1>3. poll' = [poll EXCEPT ![d] = p]
  BY TypeShape DEF TypeInv, expire
<1> HIDE DEF p
<1>4. late' \subseteq Requests
  <2>1. ASSUME NEW r \in Requests
        PROVE  [r EXCEPT !.stale = (@ \/ r.by = d)] \in Requests
    <3>1. (r.stale \/ r.by = d) \in BOOLEAN
      OBVIOUS
    <3> QED
      BY <3>1 DEF Requests
  <2> QED
    BY <2>1, TypeShape DEF TypeInv, expire
<1>5. TypeOK'
  BY <1>2, <1>3, <1>4, expirePosts, TypeShape, TypeShapePrime DEF TypeInv, expire
<1>6. PostsFilled'
  BY expirePosts DEF TypeInv, PostsFilled
<1>7. PollsFilled'
  BY <1>2, <1>3, TypeShape DEF TypeInv, PollsFilled
<1> QED
  BY <1>5, <1>6, <1>7 DEF TypeInv

LEMMA StillOutAreRequests ==
    ASSUME TypeInv, NEW d \in Devices, NEW ps \in SUBSET Slots
    PROVE  stillOut(d, ps) \subseteq Requests
<1>1. ASSUME NEW s \in ps, posts[d][s].stage = "sent"
      PROVE  [by |-> d, text |-> posts[d][s].body, stale |-> posts[d][s].stale] \in Requests
  <2>1. posts[d][s].body \in Texts /\ posts[d][s].stale \in BOOLEAN
    BY <1>1, PostFields, TypeShape DEF TypeInv, PostsFilled
  <2> QED
    BY <2>1 DEF Requests
<1> QED
  BY <1>1 DEF stillOut

LEMMA createFailsTypeInv ==
    ASSUME TypeInv, NEW d \in Devices, NEW s \in Slots, createFails(d, s)
    PROVE  TypeInv'
<1> DEFINE p == afterRefusal(posts[d][s].body)
<1>1. posts[d][s].body \in Texts
  BY DEF TypeInv, PostsFilled, createFails
<1>2. p \in Posts /\ p.body \in Texts
  BY <1>1, WaitingPost
<1>3. posts' = [posts EXCEPT ![d][s] = p]
  BY TypeShape DEF TypeInv, createFails
<1> HIDE DEF p
<1>4. posts' \in [Devices -> [Slots -> Posts]]
  BY <1>2, <1>3, PostReplaced, TypeShape DEF TypeInv
<1>5. late' \subseteq Requests
  BY StillOutAreRequests, TypeShape DEF TypeInv, createFails
<1>6. failed' \in [Thought -> Nat]
  BY <1>1, ThoughtFields, TypeShape DEF TypeInv, createFails
<1>7. faults' \in 0..MaxFaults
  BY BoundsAssumption, TypeShape DEF TypeInv, createFails
<1>8. TypeOK'
  BY <1>4, <1>5, <1>6, <1>7, TypeShape, TypeShapePrime DEF TypeInv, createFails
<1> QED
  BY <1>2, <1>3, <1>8, PostStepFilled DEF createFails

LEMMA fetchFailsTypeInv ==
    ASSUME TypeInv, NEW d \in Devices, fetchFails(d)
    PROVE  TypeInv'
<1>1. poll' = [poll EXCEPT ![d] = Idle]
  BY DEF fetchFails
<1>2. faults' \in 0..MaxFaults
  BY BoundsAssumption, TypeShape DEF TypeInv, fetchFails
<1>3. TypeOK'
  BY <1>1, <1>2, IdlePost, TypeShape, TypeShapePrime DEF TypeInv, fetchFails
<1> QED
  BY <1>1, <1>3, IdlePost, PollStepFilled DEF fetchFails

\* The device after a kill, and the requests it leaves behind.
LEMMA killPosts ==
    ASSUME TypeInv, NEW d \in Devices, kill(d)
    PROVE  /\ posts' \in [Devices -> [Slots -> Posts]]
           /\ \A s \in Slots : posts'[d][s] = Idle
           /\ \A e \in Devices : e # d => posts'[e] = posts[e]
           /\ late' \subseteq Requests
<1>1. [s \in Slots |-> Idle] \in [Slots -> Posts]
  BY IdlePost
<1>2. posts' = [posts EXCEPT ![d] = [s \in Slots |-> Idle]]
  BY DEF kill
<1>3. late' \subseteq Requests
  BY StillOutAreRequests, TypeShape DEF TypeInv, kill
<1> QED
  BY <1>1, <1>2, <1>3, DeviceReplaced, TypeShape DEF TypeInv

LEMMA killTypeInv ==
    ASSUME TypeInv, NEW d \in Devices, kill(d)
    PROVE  TypeInv'
<1>1. dropped' \subseteq Thought
  BY ThoughtFields, TypeShape DEF TypeInv, kill, inFlight
<1>2. poll' = [poll EXCEPT ![d] = Idle] /\ faults' \in 0..MaxFaults
  BY BoundsAssumption, TypeShape DEF TypeInv, kill
<1>3. TypeOK'
  BY <1>1, <1>2, killPosts, IdlePost, TypeShape, TypeShapePrime DEF TypeInv, kill
<1>4. PostsFilled'
  BY killPosts, IdlePost DEF TypeInv, PostsFilled
<1>5. PollsFilled'
  BY <1>2, IdlePost, TypeShape DEF TypeInv, PollsFilled
<1> QED
  BY <1>3, <1>4, <1>5 DEF TypeInv

LEMMA TypeInvPreserved ==
    ASSUME TypeInv, [Next]_vars
    PROVE  TypeInv'
<1>1. CASE UNCHANGED vars
  BY <1>1 DEF vars, TypeInv, TypeOK, PostsFilled, PollsFilled
<1>2. ASSUME NEW d \in Typists, NEW s \in Slots, NEW text \in Texts, postThoughtPressed(d, s, text)
      PROVE  TypeInv'
  BY <1>2, TypistsAssumption, postThoughtPressedTypeInv
<1>3. ASSUME NEW d \in Devices, NEW s \in Slots,
             retryCreate(d, s) \/ createAnswered(d, s) \/ serveCreate(d, s) \/ createFails(d, s)
      PROVE  TypeInv'
  BY <1>3, retryCreateTypeInv, createAnsweredTypeInv, serveCreateTypeInv, createFailsTypeInv
<1>4. ASSUME NEW d \in Devices,
             pollTick(d) \/ fetchAnswered(d) \/ serveIndex(d) \/ fetchFails(d)
      PROVE  TypeInv'
  BY <1>4, pollTickTypeInv, fetchAnsweredTypeInv, serveIndexTypeInv, fetchFailsTypeInv
<1>5. ASSUME NEW d \in Devices, logoutAction(d) \/ authSuccess(d) \/ expire(d) \/ kill(d)
      PROVE  TypeInv'
  BY <1>5, logoutActionTypeInv, authSuccessTypeInv, expireTypeInv, killTypeInv
<1>6. ASSUME NEW r \in late, serveLate(r)
      PROVE  TypeInv'
  BY <1>6, serveLateTypeInv
<1> QED
  BY <1>1, <1>2, <1>3, <1>4, <1>5, <1>6 DEF Next

\* Every state is well typed: an exchange always carries the text or the answer
\* its next step needs (retryCreate, createAnswered and fetchAnswered read it).
THEOREM TypeCorrect == Spec => []TypeOK
<1>1. Spec => []TypeInv
  BY InitTypeInv, TypeInvPreserved, PTL DEF Spec
<1> QED
  BY <1>1, PTL DEF TypeInv
-----------------------------------------------------------------------------
(* Nothing is forgotten.                                                   *)

\* Rows are only added: a thought that has a row keeps it.
LEMMA RowsGrow ==
    ASSUME TypeInv, [Next]_vars
    PROVE  \A t \in Thought : copies(t) # {} => copies(t)' # {}
<1>1. rows \in Seq(Thought)
  BY TypeShape DEF TypeInv
<1>2. UNCHANGED rows \/ \E t \in Thought : rows' = Append(rows, t)
  <2>1. ASSUME NEW d \in Devices, NEW s \in Slots, serveCreate(d, s)
        PROVE  UNCHANGED rows \/ \E t \in Thought : rows' = Append(rows, t)
    BY <2>1, ThoughtFields DEF serveCreate, TypeInv, PostsFilled
  <2>2. ASSUME NEW r \in late, serveLate(r)
        PROVE  UNCHANGED rows \/ \E t \in Thought : rows' = Append(rows, t)
    <3>1. r.by \in Devices /\ r.text \in Texts
      BY TypeShape DEF TypeInv, Requests
    <3> QED
      BY <2>2, <3>1, ThoughtFields DEF serveLate
  <2>3. \/ UNCHANGED rows
        \/ \E d \in Devices, s \in Slots : serveCreate(d, s)
        \/ \E r \in late : serveLate(r)
    BY DEF Next, vars, postThoughtPressed, retryCreate, createAnswered, createFails, pollTick,
           fetchAnswered, serveIndex, fetchFails, logoutAction, authSuccess, expire, kill
  <2> QED
    BY <2>1, <2>2, <2>3
<1>3. \A i \in DOMAIN rows : i \in DOMAIN rows' /\ rows'[i] = rows[i]
  BY <1>1, <1>2
<1> QED
  BY <1>3 DEF copies

\* The thought a create carries is in flight.
LEMMA InFlight ==
    ASSUME TypeInv, NEW d \in Devices, NEW text \in Texts
    PROVE  text \in inFlight(d) <=>
                \E s \in Slots : posts[d][s].stage # "idle" /\ posts[d][s].body = text
  BY DEF inFlight

\* The inductive invariant.
Kept == TypeInv /\ NothingForgotten /\ AcceptedIsStored

\* One create moves on: what it carried stays in flight, has a row or is
\* dropped, and only what it now carries may have been typed.
LEMMA PostMoves ==
    ASSUME Kept, TypeInv', [Next]_vars,
           NEW d \in Devices, NEW s \in Slots, NEW p \in Posts,
           NEW text, text = posts[d][s].body,
           posts' = [posts EXCEPT ![d][s] = p],
           dropped \subseteq dropped',
           \/ posts[d][s].stage = "idle"
           \/ p.stage # "idle" /\ p.body = text
           \/ copies(th(d, text))' # {}
           \/ th(d, text) \in dropped',
           p.stage = "accepted" => copies(th(d, p.body))' # {},
           \A t \in Thought : typed'[t] > 0 =>
                typed[t] > 0 \/ (p.stage # "idle" /\ t.by = d /\ p.body = t.text)
    PROVE  Kept'
<1> USE DEF Kept
<1>1. /\ posts'[d][s] = p
      /\ \A e \in Devices, z \in Slots : e # d \/ z # s => posts'[e][z] = posts[e][z]
  BY PostReplaced, TypeShape DEF TypeInv
<1>2. \A t \in Thought : copies(t) # {} => copies(t)' # {}
  BY RowsGrow
<1>3. NothingForgotten'
  <2> SUFFICES ASSUME NEW t \in Thought, typed'[t] > 0
               PROVE  copies(t)' # {} \/ t.text \in inFlight(t.by)' \/ t \in dropped'
    BY DEF NothingForgotten
  <2>1. t.by \in Devices /\ t.text \in Texts /\ t = th(t.by, t.text)
    BY ThoughtIsTh
  <2>2. CASE p.stage # "idle" /\ t.by = d /\ p.body = t.text
    BY <1>1, <2>1, <2>2 DEF inFlight
  <2>3. CASE copies(t) # {} \/ t \in dropped
    BY <1>2, <2>3
  <2>4. ASSUME t.text \in inFlight(t.by), t \notin dropped'
        PROVE  copies(t)' # {} \/ t.text \in inFlight(t.by)'
    <3>1. PICK z \in Slots : posts[t.by][z].stage # "idle" /\ posts[t.by][z].body = t.text
      BY <2>4 DEF inFlight
    <3>2. CASE t.by # d \/ z # s
      <4>1. posts'[t.by][z] = posts[t.by][z]
        BY <1>1, <2>1, <3>2
      <4> QED
        BY <2>1, <3>1, <4>1 DEF inFlight
    <3>3. CASE t.by = d /\ z = s
      <4>1. text = t.text /\ posts[d][s].stage # "idle"
        BY <3>1, <3>3
      <4>2. t = th(d, text)
        BY <2>1, <3>3, <4>1
      <4>3. CASE p.stage # "idle" /\ p.body = text
        BY <1>1, <2>1, <3>3, <4>1, <4>3 DEF inFlight
      <4>4. CASE copies(th(d, text))' # {}
        BY <4>2, <4>4
      <4> QED
        BY <2>4, <4>1, <4>2, <4>3, <4>4
    <3> QED
      BY <3>2, <3>3
  <2> QED
    BY <2>2, <2>3, <2>4 DEF NothingForgotten
<1>4. AcceptedIsStored'
  <2> SUFFICES ASSUME NEW e \in Devices, NEW z \in Slots, posts'[e][z].stage = "accepted"
               PROVE  copies(th(e, posts[e][z].body))' # {}
    BY DEF AcceptedIsStored
  <2>1. CASE e = d /\ z = s
    BY <1>1, <2>1
  <2>2. CASE e # d \/ z # s
    <3>1. posts'[e][z] = posts[e][z]
      BY <1>1, <2>2
    <3>2. PICK t \in Thought : t = th(e, posts[e][z].body)
      BY <3>1, ThoughtFields DEF TypeInv, PostsFilled
    <3>3. copies(t) # {}
      BY <3>1, <3>2 DEF AcceptedIsStored
    <3>4. copies(t)' # {} /\ t = th(e, posts'[e][z].body)
      BY <1>2, <3>1, <3>2, <3>3
    <3> QED
      BY <3>4 DEF copies
  <2> QED
    BY <2>1, <2>2
<1> QED
  BY <1>3, <1>4

\* Creates, and what was typed or dropped, are left alone.
LEMMA PostsStay ==
    ASSUME Kept, TypeInv', [Next]_vars, UNCHANGED <<typed, dropped>>,
           \A e \in Devices, s \in Slots :
                posts'[e][s].stage = posts[e][s].stage /\ posts'[e][s].body = posts[e][s].body
    PROVE  Kept'
<1> USE DEF Kept
<1>1. \A t \in Thought : copies(t) # {} => copies(t)' # {}
  BY RowsGrow
<1>2. \A e \in Devices : inFlight(e)' = inFlight(e)
  BY DEF inFlight
<1>3. NothingForgotten'
  BY <1>1, <1>2, ThoughtIsTh DEF NothingForgotten
<1>4. AcceptedIsStored'
  BY <1>1, ThoughtFields DEF AcceptedIsStored, TypeInv, PostsFilled
<1> QED
  BY <1>3, <1>4

LEMMA createThoughtKept ==
    ASSUME Kept, TypeInv', [Next]_vars,
           NEW d \in Devices, NEW s \in Slots, NEW text \in Texts,
           createThought(d, s, text),
           posts[d][s].stage = "idle" \/ posts[d][s].body = text,
           session[d] \/ UNCHANGED typed,
           \A t \in Thought : typed'[t] > 0 => typed[t] > 0 \/ t = th(d, text)
    PROVE  Kept'
<1>1. CASE session[d]
  <2>1. expired[d] \in BOOLEAN
    BY TypeShape DEF Kept, TypeInv
  <2>2. PICK p \in Posts : p.stage = "sent" /\ p.body = text /\ p = Sent(text, expired[d])
    BY <2>1, SentPost
  <2>3. posts' = [posts EXCEPT ![d][s] = p] /\ dropped' = dropped
    BY <1>1, <2>2 DEF createThought
  <2>4. \A t \in Thought : typed'[t] > 0 =>
            typed[t] > 0 \/ (p.stage # "idle" /\ t.by = d /\ p.body = t.text)
    BY <2>2, ThoughtFields
  <2>5. PICK old : old = posts[d][s].body
    OBVIOUS
  <2>6. posts[d][s].stage = "idle" \/ (p.stage # "idle" /\ p.body = old)
    BY <2>2, <2>5
  <2>7. p.stage # "accepted"
    BY <2>2
  <2> QED
    BY <2>3, <2>4, <2>5, <2>6, <2>7, PostMoves
<1>2. CASE ~session[d]
  <2>1. posts' = [posts EXCEPT ![d][s] = Idle] /\ dropped' = dropped \cup {th(d, text)}
    BY <1>2 DEF createThought
  <2>2. Idle.stage # "accepted"
    BY IdlePost
  <2> QED
    BY <1>2, <2>1, <2>2, IdlePost, PostMoves
<1> QED
  BY <1>1, <1>2

LEMMA createAnsweredKept ==
    ASSUME Kept, TypeInv', [Next]_vars, NEW d \in Devices, NEW s \in Slots, createAnswered(d, s)
    PROVE  Kept'
<1>1. PICK text \in Texts : text = posts[d][s].body
  BY DEF Kept, TypeInv, PostsFilled, createAnswered
<1>2. posts' = [posts EXCEPT ![d][s] = IF posts[d][s].stage = "accepted" THEN Idle ELSE afterRefusal(text)]
      /\ UNCHANGED <<typed, dropped>>
  BY <1>1, TypeShape DEF Kept, TypeInv, createAnswered
<1>3. CASE posts[d][s].stage = "accepted"
  <2>1. copies(th(d, text))' # {}
    BY <1>1, <1>3, RowsGrow, ThoughtFields DEF Kept, AcceptedIsStored
  <2> QED
    BY <1>1, <1>2, <1>3, <2>1, IdlePost, PostMoves
<1>4. CASE posts[d][s].stage # "accepted"
  BY <1>1, <1>2, <1>4, WaitingPost, PostMoves
<1> QED
  BY <1>3, <1>4

LEMMA serveCreateKept ==
    ASSUME Kept, TypeInv', [Next]_vars, NEW d \in Devices, NEW s \in Slots, serveCreate(d, s)
    PROVE  Kept'
<1>1. PICK text \in Texts : text = posts[d][s].body
  BY DEF Kept, TypeInv, PostsFilled, serveCreate
<1>2. posts[d][s] \in Posts /\ rows \in Seq(Thought) /\ th(d, text) \in Thought
  BY TypeShape, ThoughtFields DEF Kept, TypeInv
<1>3. PICK stage \in {"accepted", "refused"} :
        /\ posts' = [posts EXCEPT ![d][s].stage = stage]
        /\ stage = "accepted" => rows' = Append(rows, th(d, text))
  BY <1>1 DEF serveCreate
<1>4. stage \in Stages
  BY DEF Stages
<1>5. PICK p \in Posts : p.stage = stage /\ p.body = text /\ p = [posts[d][s] EXCEPT !.stage = stage]
  BY <1>1, <1>2, <1>4, PostWithStage
<1>6. posts' = [posts EXCEPT ![d][s] = p]
  BY <1>3, <1>5
<1>7. p.stage = "accepted" => copies(th(d, p.body))' # {}
  <2> SUFFICES ASSUME p.stage = "accepted" PROVE copies(th(d, text))' # {}
    BY <1>5
  <2>1. rows' = Append(rows, th(d, text))
    BY <1>3, <1>5
  <2>2. Len(rows) + 1 \in DOMAIN rows' /\ rows'[Len(rows) + 1] = th(d, text)
    BY <1>2, <2>1
  <2> QED
    BY <2>2 DEF copies
<1>8. UNCHANGED <<typed, dropped>> /\ p.stage # "idle"
  BY <1>5 DEF serveCreate
<1> QED
  BY <1>1, <1>5, <1>6, <1>7, <1>8, PostMoves

LEMMA createFailsKept ==
    ASSUME Kept, TypeInv', [Next]_vars, NEW d \in Devices, NEW s \in Slots, createFails(d, s)
    PROVE  Kept'
<1>1. PICK text \in Texts : text = posts[d][s].body
  BY DEF Kept, TypeInv, PostsFilled, createFails
<1>2. posts' = [posts EXCEPT ![d][s] = afterRefusal(text)] /\ UNCHANGED <<typed, dropped>>
  BY <1>1, TypeShape DEF Kept, TypeInv, createFails
<1> QED
  BY <1>1, <1>2, WaitingPost, PostMoves

LEMMA killKept ==
    ASSUME Kept, TypeInv', [Next]_vars, NEW d \in Devices, kill(d)
    PROVE  Kept'
<1> USE DEF Kept
<1>1. \A t \in Thought : copies(t) # {} => copies(t)' # {}
  BY RowsGrow
<1>2. /\ dropped' = dropped \cup {th(d, p) : p \in inFlight(d)}
      /\ UNCHANGED typed
  BY DEF kill
<1>3. \A e \in Devices : e # d => inFlight(e)' = inFlight(e)
  BY killPosts DEF inFlight
<1>4. NothingForgotten'
  <2> SUFFICES ASSUME NEW t \in Thought, typed'[t] > 0
               PROVE  copies(t)' # {} \/ t.text \in inFlight(t.by)' \/ t \in dropped'
    BY DEF NothingForgotten
  <2>1. t.by \in Devices /\ t.text \in Texts /\ t = th(t.by, t.text)
    BY ThoughtIsTh
  <2>2. copies(t) # {} \/ t.text \in inFlight(t.by) \/ t \in dropped
    BY <1>2 DEF NothingForgotten
  <2> QED
    BY <1>1, <1>2, <1>3, <2>1, <2>2
<1>5. AcceptedIsStored'
  <2> SUFFICES ASSUME NEW e \in Devices, NEW z \in Slots, posts'[e][z].stage = "accepted"
               PROVE  copies(th(e, posts[e][z].body))' # {}
    BY DEF AcceptedIsStored
  <2>1. e # d /\ posts'[e][z] = posts[e][z]
    BY killPosts, IdlePost
  <2>2. PICK t \in Thought : t = th(e, posts[e][z].body)
    BY <2>1, ThoughtFields DEF TypeInv, PostsFilled
  <2>3. copies(t)' # {} /\ t = th(e, posts'[e][z].body)
    BY <1>1, <2>1, <2>2 DEF AcceptedIsStored
  <2> QED
    BY <2>3 DEF copies
<1> QED
  BY <1>4, <1>5

LEMMA KeptPreserved ==
    ASSUME Kept, [Next]_vars
    PROVE  Kept'
<1>1. TypeInv'
  BY TypeInvPreserved DEF Kept
<1>2. CASE UNCHANGED vars
  BY <1>1, <1>2, PostsStay DEF vars
<1>3. ASSUME NEW d \in Typists, NEW s \in Slots, NEW text \in Texts, postThoughtPressed(d, s, text)
      PROVE  Kept'
  <2>1. d \in Devices /\ posts[d][s].stage = "idle" /\ session[d]
    BY <1>3, TypistsAssumption, IdlePost DEF postThoughtPressed
  <2>2. \A t \in Thought : typed'[t] > 0 => typed[t] > 0 \/ t = th(d, text)
    BY <1>3, <2>1, ThoughtFields, TypeShape DEF postThoughtPressed, Kept, TypeInv
  <2> QED
    BY <1>1, <1>3, <2>1, <2>2, createThoughtKept DEF postThoughtPressed
<1>4. ASSUME NEW d \in Devices, NEW s \in Slots, retryCreate(d, s)
      PROVE  Kept'
  <2>1. posts[d][s].body \in Texts /\ UNCHANGED typed
    BY <1>4 DEF retryCreate, Kept, TypeInv, PostsFilled
  <2> QED
    BY <1>1, <1>4, <2>1, createThoughtKept DEF retryCreate
<1>5. ASSUME NEW d \in Devices, NEW s \in Slots,
             createAnswered(d, s) \/ serveCreate(d, s) \/ createFails(d, s)
      PROVE  Kept'
  BY <1>1, <1>5, createAnsweredKept, serveCreateKept, createFailsKept
<1>6. ASSUME NEW d \in Devices,
             pollTick(d) \/ fetchAnswered(d) \/ serveIndex(d) \/ fetchFails(d)
             \/ logoutAction(d) \/ authSuccess(d)
      PROVE  Kept'
  BY <1>1, <1>6, PostsStay
     DEF pollTick, fetchAnswered, serveIndex, fetchFails, logoutAction, authSuccess
<1>7. ASSUME NEW d \in Devices, expire(d)
      PROVE  Kept'
  BY <1>1, <1>7, PostsStay, expirePosts DEF expire, Kept
<1>8. ASSUME NEW d \in Devices, kill(d)
      PROVE  Kept'
  BY <1>1, <1>8, killKept
<1>9. ASSUME NEW r \in late, serveLate(r)
      PROVE  Kept'
  BY <1>1, <1>9, PostsStay DEF serveLate
<1> QED
  BY <1>2, <1>3, <1>4, <1>5, <1>6, <1>7, <1>8, <1>9 DEF Next

\* A thought that was typed has a row, is being sent or waits for its retry, or
\* was given up: neither a lost exchange nor a refusal nor an expired token ever
\* ends the retries of createThoughtAction.
THEOREM NothingIsForgotten == Spec => []NothingForgotten
<1>1. Init => Kept
  <2> SUFFICES ASSUME Init PROVE Kept
    OBVIOUS
  <2>1. TypeInv
    BY InitTypeInv
  <2>2. \A t \in Thought : ~(typed[t] > 0)
    BY DEF Init
  <2>3. \A d \in Devices, s \in Slots : posts[d][s].stage # "accepted"
    BY IdlePost DEF Init
  <2> QED
    BY <2>1, <2>2, <2>3 DEF Kept, NothingForgotten, AcceptedIsStored
<1>2. Spec => []Kept
  BY <1>1, KeptPreserved, PTL DEF Spec
<1> QED
  BY <1>2, PTL DEF Kept
-----------------------------------------------------------------------------
(* Rows are accounted for: what a thought may still get rows from is counted *)
(* with the rows it has.                                                   *)

\* A create the server has not accepted yet, and may accept.
owes(p, t) == p.stage \in {"sent", "refused", "retry"} /\ p.body = t.text

copiesIn(table, t) == {i \in DOMAIN table : table[i] = t}
owing(ps, t) == {s \in Slots : owes(ps[t.by][s], t)}
lateOf(net, t) == {r \in net : r.by = t.by /\ r.text = t.text}

\* The load of a thought never exceeds how often it was typed or failed.
Accounted ==
    \A t \in Thought :
        Cardinality(copiesIn(rows, t)) + Cardinality(owing(posts, t)) + Cardinality(lateOf(late, t))
            <= typed[t] + failed[t]

LEMMA CopiesFinite ==
    ASSUME NEW table \in Seq(Thought), NEW t
    PROVE  IsFiniteSet(copiesIn(table, t)) /\ Cardinality(copiesIn(table, t)) \in Nat
<1>1. copiesIn(table, t) \in SUBSET (1..Len(table))
  BY DEF copiesIn
<1>2. IsFiniteSet(1..Len(table))
  BY FS_Interval
<1> QED
  BY <1>1, <1>2, FS_Subset, FS_CardinalityType

LEMMA OwingFinite ==
    ASSUME NEW ps, NEW t
    PROVE  IsFiniteSet(owing(ps, t)) /\ Cardinality(owing(ps, t)) \in Nat
<1>1. owing(ps, t) \in SUBSET Slots
  BY DEF owing
<1> QED
  BY <1>1, SlotsAssumption, FS_Subset, FS_CardinalityType

LEMMA PairFinite ==
    ASSUME NEW x, NEW y
    PROVE  IsFiniteSet({x} \cup {y})
  BY FS_Singleton, FS_AddElement

LEMMA LateFinite ==
    ASSUME NEW net \in SUBSET Requests, NEW t \in Thought
    PROVE  IsFiniteSet(lateOf(net, t)) /\ Cardinality(lateOf(net, t)) \in Nat
<1> DEFINE both == {[by |-> t.by, text |-> t.text, stale |-> TRUE]}
                     \cup {[by |-> t.by, text |-> t.text, stale |-> FALSE]}
<1>1. IsFiniteSet(both)
  BY PairFinite
<1>2. lateOf(net, t) \in SUBSET both
  BY DEF lateOf, Requests
<1> HIDE DEF both
<1> QED
  BY <1>1, <1>2, FS_Subset, FS_CardinalityType

\* A row is inserted.
insertsRow(x) == rows' = Append(rows, x)

LEMMA RowInserted ==
    ASSUME rows \in Seq(Thought), NEW x \in Thought, NEW t \in Thought, insertsRow(x)
    PROVE  Cardinality(copiesIn(rows', t)) =
                IF t = x THEN Cardinality(copiesIn(rows, t)) + 1
                ELSE Cardinality(copiesIn(rows, t))
<1>1. t = x => copiesIn(rows', t) = copiesIn(rows, t) \cup {Len(rows) + 1}
  BY DEF copiesIn, insertsRow
<1>2. t # x => copiesIn(rows', t) = copiesIn(rows, t)
  BY DEF copiesIn, insertsRow
<1>3. Len(rows) + 1 \notin copiesIn(rows, t)
  BY DEF copiesIn
<1> QED
  BY <1>1, <1>2, <1>3, CopiesFinite, FS_AddElement

\* A create is replaced by p.
replacesPost(d, s, p) == posts' = [posts EXCEPT ![d][s] = p]

LEMMA OwingReplaced ==
    ASSUME posts \in [Devices -> [Slots -> Posts]], NEW d \in Devices, NEW s \in Slots,
           NEW p \in Posts, NEW t \in Thought,
           replacesPost(d, s, p)
    PROVE  /\ t.by = d /\ owes(p, t) /\ ~owes(posts[d][s], t) =>
                Cardinality(owing(posts', t)) = Cardinality(owing(posts, t)) + 1
           /\ t.by = d /\ ~owes(p, t) /\ owes(posts[d][s], t) =>
                Cardinality(owing(posts', t)) = Cardinality(owing(posts, t)) - 1
           /\ \/ t.by # d
              \/ owes(p, t) /\ owes(posts[d][s], t)
              \/ ~owes(p, t) /\ ~owes(posts[d][s], t)
              => Cardinality(owing(posts', t)) = Cardinality(owing(posts, t))
<1>1. /\ posts'[d][s] = p
      /\ \A e \in Devices, z \in Slots : e # d \/ z # s => posts'[e][z] = posts[e][z]
  BY PostReplaced DEF replacesPost
<1>2. t.by \in Devices
  BY ThoughtIsTh
<1>3. CASE t.by # d
  <2>1. owing(posts', t) = owing(posts, t)
    BY <1>1, <1>2, <1>3 DEF owing
  <2> QED
    BY <1>3, <2>1
<1>4. CASE t.by = d
  <2>1. owes(p, t) => owing(posts', t) = owing(posts, t) \cup {s}
    BY <1>1, <1>2, <1>4 DEF owing
  <2>2. ~owes(p, t) => owing(posts', t) = owing(posts, t) \ {s}
    BY <1>1, <1>2, <1>4 DEF owing
  <2>3. s \in owing(posts, t) <=> owes(posts[d][s], t)
    BY <1>4 DEF owing
  <2>4. /\ Cardinality(owing(posts, t) \cup {s}) =
                IF s \in owing(posts, t) THEN Cardinality(owing(posts, t)) ELSE Cardinality(owing(posts, t)) + 1
        /\ Cardinality(owing(posts, t) \ {s}) =
                IF s \in owing(posts, t) THEN Cardinality(owing(posts, t)) - 1 ELSE Cardinality(owing(posts, t))
    BY OwingFinite, FS_AddElement, FS_RemoveElement
  <2> QED
    BY <1>4, <2>1, <2>2, <2>3, <2>4
<1> QED
  BY <1>3, <1>4

LEMMA LateAdded ==
    ASSUME NEW net \in SUBSET Requests, NEW r \in Requests, NEW t \in Thought
    PROVE  Cardinality(lateOf(net \cup {r}, t)) <=
                IF r.by = t.by /\ r.text = t.text THEN Cardinality(lateOf(net, t)) + 1
                ELSE Cardinality(lateOf(net, t))
<1>1. lateOf(net \cup {r}, t) =
        IF r.by = t.by /\ r.text = t.text THEN lateOf(net, t) \cup {r} ELSE lateOf(net, t)
  BY DEF lateOf
<1> QED
  BY <1>1, LateFinite, FS_AddElement

LEMMA LateTaken ==
    ASSUME NEW net \in SUBSET Requests, NEW r \in net, NEW t \in Thought
    PROVE  Cardinality(lateOf(net \ {r}, t)) =
                IF r.by = t.by /\ r.text = t.text THEN Cardinality(lateOf(net, t)) - 1
                ELSE Cardinality(lateOf(net, t))
<1>1. lateOf(net \ {r}, t) = lateOf(net, t) \ {r}
  BY DEF lateOf
<1>2. r \in lateOf(net, t) <=> r.by = t.by /\ r.text = t.text
  BY DEF lateOf
<1>3. IsFiniteSet(lateOf(net, t))
  BY LateFinite
<1>4. Cardinality(lateOf(net, t) \ {r}) =
        IF r \in lateOf(net, t) THEN Cardinality(lateOf(net, t)) - 1 ELSE Cardinality(lateOf(net, t))
  BY <1>3, FS_RemoveElement
<1> QED
  BY <1>1, <1>2, <1>4

LEMMA LateExpired ==
    ASSUME NEW net \in SUBSET Requests, NEW d, NEW t \in Thought
    PROVE  Cardinality(lateOf({[r EXCEPT !.stale = (@ \/ r.by = d)] : r \in net}, t)) <=
                Cardinality(lateOf(net, t))
<1> DEFINE S == lateOf(net, t)
           T == lateOf({[r EXCEPT !.stale = (@ \/ r.by = d)] : r \in net}, t)
           f == [r \in S |-> [r EXCEPT !.stale = (@ \/ r.by = d)]]
<1>1. \A r \in net : LET q == [r EXCEPT !.stale = (@ \/ r.by = d)] IN q.by = r.by /\ q.text = r.text
  BY DEF Requests
<1>2. f \in [S -> T]
  BY <1>1 DEF lateOf
<1>3. ASSUME NEW q \in T
      PROVE  \E r \in S : f[r] = q
  <2>1. q.by = t.by /\ q.text = t.text
    BY DEF lateOf
  <2>2. PICK r \in net : q = [r EXCEPT !.stale = (@ \/ r.by = d)]
    BY DEF lateOf
  <2>3. r \in S
    BY <1>1, <2>1, <2>2 DEF lateOf
  <2> QED
    BY <2>2, <2>3
<1>4. IsFiniteSet(S)
  BY LateFinite
<1> HIDE DEF f, S, T
<1>5. f \in Surjection(S, T)
  BY <1>2, <1>3 DEF Surjection
<1>6. Cardinality(T) <= Cardinality(S)
  BY <1>4, <1>5, FS_Surjection
<1> QED
  BY <1>6 DEF S, T
\* The requests a kill leaves behind are no more than the creates it ends.
LEMMA KilledRequests ==
    ASSUME TypeInv, NEW d \in Devices, NEW kept \in SUBSET stillOut(d, Slots),
           NEW t \in Thought, t.by = d
    PROVE  Cardinality(lateOf(late \cup kept, t)) <=
                Cardinality(lateOf(late, t)) + Cardinality(owing(posts, t))
<1> DEFINE req(s) == [by |-> d, text |-> posts[d][s].body, stale |-> posts[d][s].stale]
           S == {s \in owing(posts, t) : posts[d][s].stage = "sent"}
           T == {req(s) : s \in S}
           f == [s \in S |-> req(s)]
<1>1. IsFiniteSet(S) /\ Cardinality(S) <= Cardinality(owing(posts, t)) /\ Cardinality(S) \in Nat
  <2>1. S \in SUBSET owing(posts, t)
    OBVIOUS
  <2> QED
    BY <2>1, OwingFinite, FS_Subset, FS_CardinalityType
<1>2. f \in Surjection(S, T)
  BY DEF Surjection
<1>3. IsFiniteSet(T) /\ Cardinality(T) <= Cardinality(S) /\ Cardinality(T) \in Nat
  <2> HIDE DEF S, T, f
  <2> QED
    BY <1>1, <1>2, FS_Surjection, FS_CardinalityType
<1>4. lateOf(late \cup kept, t) \in SUBSET (lateOf(late, t) \cup T)
  BY DEF lateOf, stillOut, owing, owes
<1>5. late \in SUBSET Requests
  BY TypeShape DEF TypeInv
<1>6. IsFiniteSet(lateOf(late, t)) /\ Cardinality(lateOf(late, t)) \in Nat
  BY <1>5, LateFinite
<1> HIDE DEF S, T, f
<1>7. /\ IsFiniteSet(lateOf(late, t) \cup T)
      /\ Cardinality(lateOf(late, t) \cup T) <= Cardinality(lateOf(late, t)) + Cardinality(T)
  <2>1. IsFiniteSet(lateOf(late, t) \cap T)
    BY <1>6, FS_Subset
  <2>2. Cardinality(lateOf(late, t) \cap T) \in Nat
    BY <2>1, FS_CardinalityType
  <2>3. /\ IsFiniteSet(lateOf(late, t) \cup T)
        /\ Cardinality(lateOf(late, t) \cup T) =
                Cardinality(lateOf(late, t)) + Cardinality(T) - Cardinality(lateOf(late, t) \cap T)
    BY <1>3, <1>6, FS_Union
  <2> QED
    BY <1>3, <1>6, <2>2, <2>3
<1>8. /\ Cardinality(lateOf(late \cup kept, t)) <= Cardinality(lateOf(late, t) \cup T)
      /\ Cardinality(lateOf(late \cup kept, t)) \in Nat
      /\ Cardinality(lateOf(late, t) \cup T) \in Nat
  BY <1>4, <1>7, FS_Subset, FS_CardinalityType
<1> QED
  BY <1>1, <1>3, <1>6, <1>7, <1>8, OwingFinite

\* The three counts, as numbers.
LEMMA Counts ==
    ASSUME TypeInv, NEW t \in Thought
    PROVE  /\ Cardinality(copiesIn(rows, t)) \in Nat
           /\ Cardinality(owing(posts, t)) \in Nat
           /\ Cardinality(lateOf(late, t)) \in Nat
           /\ typed[t] \in Nat /\ failed[t] \in Nat
  BY CopiesFinite, OwingFinite, LateFinite, TypeShape DEF TypeInv

\* A create is replaced by one that owes no more than the one before, or by one
\* typed or failed on top.
LEMMA AccountedReplaced ==
    ASSUME TypeInv, TypeInv', Accounted,
           NEW d \in Devices, NEW s \in Slots, NEW p \in Posts,
           replacesPost(d, s, p),
           UNCHANGED <<rows, late>>,
           \A t \in Thought :
                typed[t] + failed[t]
                    + (IF t.by = d /\ owes(p, t) /\ ~owes(posts[d][s], t) THEN 1 ELSE 0)
                    <= typed'[t] + failed'[t]
    PROVE  Accounted'
<1> SUFFICES ASSUME NEW t \in Thought
             PROVE  Cardinality(copiesIn(rows', t)) + Cardinality(owing(posts', t))
                        + Cardinality(lateOf(late', t)) <= typed'[t] + failed'[t]
  BY DEF Accounted
<1>1. posts \in [Devices -> [Slots -> Posts]]
  BY TypeShape DEF TypeInv
<1>a. Cardinality(owing(posts, t)) \in Nat
  BY OwingFinite
<1>2. Cardinality(owing(posts', t)) <=
        Cardinality(owing(posts, t))
            + (IF t.by = d /\ owes(p, t) /\ ~owes(posts[d][s], t) THEN 1 ELSE 0)
  <2>1. CASE t.by = d /\ owes(p, t) /\ ~owes(posts[d][s], t)
    BY <1>1, <1>a, <2>1, OwingReplaced
  <2>2. CASE t.by = d /\ ~owes(p, t) /\ owes(posts[d][s], t)
    BY <1>1, <1>a, <2>2, OwingReplaced
  <2>3. CASE \/ t.by # d
             \/ owes(p, t) /\ owes(posts[d][s], t)
             \/ ~owes(p, t) /\ ~owes(posts[d][s], t)
    BY <1>1, <1>a, <2>3, OwingReplaced
  <2> QED
    BY <2>1, <2>2, <2>3
<1>3. /\ Cardinality(copiesIn(rows', t)) = Cardinality(copiesIn(rows, t))
      /\ Cardinality(lateOf(late', t)) = Cardinality(lateOf(late, t))
  OBVIOUS
<1>4. typed'[t] \in Nat /\ failed'[t] \in Nat /\ Cardinality(owing(posts', t)) \in Nat
  BY TypeShapePrime, OwingFinite DEF TypeInv
<1> QED
  BY <1>2, <1>3, <1>4, Counts DEF Accounted

LEMMA createThoughtAccounted ==
    ASSUME TypeInv, TypeInv', Accounted,
           NEW d \in Devices, NEW s \in Slots, NEW text \in Texts,
           createThought(d, s, text), UNCHANGED <<rows, late, failed>>,
           \/ UNCHANGED typed /\ posts[d][s].stage = "retry" /\ posts[d][s].body = text
           \/ typed' = [typed EXCEPT ![th(d, text)] = @ + 1]
    PROVE  Accounted'
<1>1. \A t \in Thought : typed[t] \in Nat /\ failed[t] \in Nat
  BY Counts
<1>2. PICK p \in Posts :
        /\ posts' = [posts EXCEPT ![d][s] = p]
        /\ p.stage = "idle" \/ (p.stage = "sent" /\ p.body = text)
  <2>1. expired[d] \in BOOLEAN
    BY TypeShape DEF TypeInv
  <2> QED
    BY <2>1, SentPost, IdlePost DEF createThought
<1>3. \A t \in Thought :
        typed[t] + failed[t]
            + (IF t.by = d /\ owes(p, t) /\ ~owes(posts[d][s], t) THEN 1 ELSE 0)
            <= typed'[t] + failed'[t]
  <2> SUFFICES ASSUME NEW t \in Thought
               PROVE  typed[t] + failed[t]
                        + (IF t.by = d /\ owes(p, t) /\ ~owes(posts[d][s], t) THEN 1 ELSE 0)
                        <= typed'[t] + failed'[t]
    OBVIOUS
  <2>1. t.by = d /\ owes(p, t) => t = th(d, text)
    BY <1>2, ThoughtIsTh DEF owes
  <2>2. CASE UNCHANGED typed /\ posts[d][s].stage = "retry" /\ posts[d][s].body = text
    <3>1. t.by = d /\ owes(p, t) => owes(posts[d][s], t)
      BY <1>2, <2>2 DEF owes
    <3> QED
      BY <1>1, <2>2, <3>1
  <2>3. CASE typed' = [typed EXCEPT ![th(d, text)] = @ + 1]
    <3>1. typed \in [Thought -> Nat] /\ th(d, text) \in Thought
      BY ThoughtFields, TypeShape DEF TypeInv
    <3>2. typed'[t] = IF t = th(d, text) THEN typed[t] + 1 ELSE typed[t]
      BY <2>3, <3>1
    <3> QED
      BY <1>1, <2>1, <3>2
  <2> QED
    BY <2>2, <2>3
<1> QED
  BY <1>2, <1>3, AccountedReplaced DEF replacesPost

LEMMA createAnsweredAccounted ==
    ASSUME TypeInv, TypeInv', Accounted, NEW d \in Devices, NEW s \in Slots, createAnswered(d, s)
    PROVE  Accounted'
<1>1. posts[d][s].body \in Texts
  BY DEF TypeInv, PostsFilled, createAnswered
<1>2. PICK p \in Posts :
        /\ posts' = [posts EXCEPT ![d][s] = p]
        /\ \/ p.stage = "idle"
           \/ p.stage = "retry" /\ p.body = posts[d][s].body /\ posts[d][s].stage = "refused"
  BY <1>1, IdlePost, WaitingPost, TypeShape DEF TypeInv, createAnswered
<1>3. \A t \in Thought : owes(p, t) => owes(posts[d][s], t)
  BY <1>2 DEF owes
<1>4. \A t \in Thought : typed[t] \in Nat /\ failed[t] \in Nat
  BY Counts
<1>5. UNCHANGED <<rows, late, typed, failed>>
  BY DEF createAnswered
<1>6. \A t \in Thought :
        typed[t] + failed[t]
            + (IF t.by = d /\ owes(p, t) /\ ~owes(posts[d][s], t) THEN 1 ELSE 0)
            <= typed'[t] + failed'[t]
  BY <1>3, <1>4, <1>5
<1> QED
  BY <1>2, <1>5, <1>6, AccountedReplaced DEF replacesPost

LEMMA serveCreateAccounted ==
    ASSUME TypeInv, TypeInv', Accounted, NEW d \in Devices, NEW s \in Slots, serveCreate(d, s)
    PROVE  Accounted'
<1>1. posts[d][s].body \in Texts /\ posts[d][s] \in Posts /\ rows \in Seq(Thought)
      /\ posts \in [Devices -> [Slots -> Posts]]
  BY TypeShape DEF TypeInv, PostsFilled, serveCreate
<1>2. PICK stage \in {"accepted", "refused"} :
        /\ posts' = [posts EXCEPT ![d][s].stage = stage]
        /\ IF stage = "accepted" THEN rows' = Append(rows, th(d, posts[d][s].body)) ELSE UNCHANGED rows
  BY DEF serveCreate
<1>3. stage \in Stages
  BY DEF Stages
<1>4. PICK p \in Posts : /\ p.stage = stage /\ p.body = posts[d][s].body
                         /\ p = [posts[d][s] EXCEPT !.stage = stage]
  BY <1>1, <1>3, PostWithStage
<1>5. posts' = [posts EXCEPT ![d][s] = p] /\ UNCHANGED <<late, typed, failed>>
  BY <1>2, <1>4 DEF serveCreate
<1>6. \A t \in Thought : typed[t] \in Nat /\ failed[t] \in Nat
  BY Counts
<1>7. CASE stage = "refused"
  <2>1. \A t \in Thought : owes(p, t) => owes(posts[d][s], t)
    BY <1>4, <1>7 DEF owes, serveCreate
  <2>2. \A t \in Thought :
            typed[t] + failed[t]
                + (IF t.by = d /\ owes(p, t) /\ ~owes(posts[d][s], t) THEN 1 ELSE 0)
                <= typed'[t] + failed'[t]
    BY <1>5, <1>6, <2>1
  <2>3. UNCHANGED rows
    BY <1>2, <1>7
  <2> QED
    BY <1>5, <2>2, <2>3, AccountedReplaced DEF replacesPost
<1>8. CASE stage = "accepted"
  <2> SUFFICES ASSUME NEW t \in Thought
               PROVE  Cardinality(copiesIn(rows', t)) + Cardinality(owing(posts', t))
                        + Cardinality(lateOf(late', t)) <= typed'[t] + failed'[t]
    BY DEF Accounted
  <2>1. ~owes(p, t)
    BY <1>4, <1>8 DEF owes
  <2>2. (t.by = d /\ owes(posts[d][s], t)) <=> t = th(d, posts[d][s].body)
    BY <1>1, ThoughtIsTh, ThoughtFields DEF owes, serveCreate
  <2>3. Cardinality(owing(posts', t)) =
            IF t = th(d, posts[d][s].body) THEN Cardinality(owing(posts, t)) - 1
            ELSE Cardinality(owing(posts, t))
    <3>1. replacesPost(d, s, p)
      BY <1>5 DEF replacesPost
    <3>2. CASE t = th(d, posts[d][s].body)
      BY <1>1, <2>1, <2>2, <3>1, <3>2, OwingReplaced
    <3>3. CASE t # th(d, posts[d][s].body)
      <4>1. t.by # d \/ ~owes(posts[d][s], t)
        BY <2>2, <3>3
      <4> QED
        BY <1>1, <2>1, <3>1, <3>3, <4>1, OwingReplaced
    <3> QED
      BY <3>2, <3>3
  <2>4. Cardinality(copiesIn(rows', t)) =
            IF t = th(d, posts[d][s].body) THEN Cardinality(copiesIn(rows, t)) + 1
            ELSE Cardinality(copiesIn(rows, t))
    <3>1. PICK x \in Thought : x = th(d, posts[d][s].body)
      BY <1>1, ThoughtFields
    <3>2. insertsRow(x)
      BY <1>2, <1>8, <3>1 DEF insertsRow
    <3> QED
      BY <1>1, <3>1, <3>2, RowInserted
  <2> QED
    BY <1>5, <2>3, <2>4, Counts DEF Accounted
<1> QED
  BY <1>7, <1>8

LEMMA serveLateAccounted ==
    ASSUME TypeInv, Accounted, NEW r \in late, serveLate(r)
    PROVE  Accounted'
<1> SUFFICES ASSUME NEW t \in Thought
             PROVE  Cardinality(copiesIn(rows', t)) + Cardinality(owing(posts', t))
                        + Cardinality(lateOf(late', t)) <= typed'[t] + failed'[t]
  BY DEF Accounted
<1>1. late \in SUBSET Requests /\ rows \in Seq(Thought) /\ r.by \in Devices /\ r.text \in Texts
  BY TypeShape DEF TypeInv, Requests
<1>2. th(r.by, r.text) \in Thought /\ (t = th(r.by, r.text) <=> r.by = t.by /\ r.text = t.text)
  BY <1>1, ThoughtFields, ThoughtIsTh
<1>3. late' = late \ {r} /\ UNCHANGED <<posts, typed, failed>>
      /\ (rows' = rows \/ rows' = Append(rows, th(r.by, r.text)))
  BY DEF serveLate
<1>4. Cardinality(lateOf(late', t)) =
        IF t = th(r.by, r.text) THEN Cardinality(lateOf(late, t)) - 1
        ELSE Cardinality(lateOf(late, t))
  BY <1>1, <1>2, <1>3, LateTaken
<1>5. \/ Cardinality(copiesIn(rows', t)) = Cardinality(copiesIn(rows, t))
      \/ /\ t = th(r.by, r.text)
         /\ Cardinality(copiesIn(rows', t)) = Cardinality(copiesIn(rows, t)) + 1
  <2>1. CASE rows' = rows
    BY <2>1
  <2>2. CASE rows' = Append(rows, th(r.by, r.text))
    <3>1. PICK x \in Thought : x = th(r.by, r.text)
      BY <1>2
    <3>2. insertsRow(x)
      BY <2>2, <3>1 DEF insertsRow
    <3>3. rows \in Seq(Thought)
      BY <1>1
    <3>4. Cardinality(copiesIn(rows', t)) =
            IF t = x THEN Cardinality(copiesIn(rows, t)) + 1 ELSE Cardinality(copiesIn(rows, t))
      BY <3>2, <3>3, RowInserted
    <3> QED
      BY <3>1, <3>4
  <2> QED
    BY <1>3, <2>1, <2>2
<1>6. Cardinality(owing(posts', t)) = Cardinality(owing(posts, t))
  BY <1>3
<1> QED
  BY <1>3, <1>4, <1>5, <1>6, Counts DEF Accounted

LEMMA expireAccounted ==
    ASSUME TypeInv, Accounted, NEW d \in Devices, expire(d)
    PROVE  Accounted'
<1> SUFFICES ASSUME NEW t \in Thought
             PROVE  Cardinality(copiesIn(rows', t)) + Cardinality(owing(posts', t))
                        + Cardinality(lateOf(late', t)) <= typed'[t] + failed'[t]
  BY DEF Accounted
<1>1. late \in SUBSET Requests
  BY TypeShape DEF TypeInv
<1>2. late' \in SUBSET Requests
  BY expireTypeInv, TypeShapePrime DEF TypeInv
<1>3. late' = {[r EXCEPT !.stale = (@ \/ r.by = d)] : r \in late}
  BY DEF expire
<1>4. Cardinality(lateOf(late', t)) <= Cardinality(lateOf(late, t))
  BY <1>1, <1>3, LateExpired
<1>5. owing(posts', t) = owing(posts, t)
  BY expirePosts, ThoughtIsTh DEF owing, owes
<1>6. UNCHANGED <<rows, typed, failed>>
  BY DEF expire
<1>7. /\ Cardinality(owing(posts', t)) = Cardinality(owing(posts, t))
      /\ Cardinality(copiesIn(rows', t)) = Cardinality(copiesIn(rows, t))
      /\ Cardinality(lateOf(late', t)) \in Nat
  BY <1>2, <1>5, <1>6, LateFinite
<1> QED
  BY <1>4, <1>6, <1>7, Counts DEF Accounted

LEMMA createFailsAccounted ==
    ASSUME TypeInv, TypeInv', Accounted, NEW d \in Devices, NEW s \in Slots, createFails(d, s)
    PROVE  Accounted'
<1> SUFFICES ASSUME NEW t \in Thought
             PROVE  Cardinality(copiesIn(rows', t)) + Cardinality(owing(posts', t))
                        + Cardinality(lateOf(late', t)) <= typed'[t] + failed'[t]
  BY DEF Accounted
<1>1. posts[d][s].body \in Texts /\ posts[d][s] \in Posts /\ late \in SUBSET Requests
      /\ posts \in [Devices -> [Slots -> Posts]] /\ failed \in [Thought -> Nat]
      /\ posts[d][s].stage \in {"sent", "accepted", "refused"}
  BY TypeShape DEF TypeInv, PostsFilled, createFails
<1>2. PICK text \in Texts : text = posts[d][s].body
  BY <1>1
<1>3. PICK p \in Posts : p.stage = "retry" /\ p.body = text /\ p = afterRefusal(posts[d][s].body)
  BY <1>2, WaitingPost
<1>4. replacesPost(d, s, p) /\ UNCHANGED <<rows, typed>>
  BY <1>1, <1>3 DEF createFails, replacesPost
<1>5. failed'[t] = IF t = th(d, text) THEN failed[t] + 1 ELSE failed[t]
  BY <1>1, <1>2, ThoughtFields DEF createFails
<1>6. owes(p, t) <=> text = t.text
  BY <1>3 DEF owes
<1>7. t = th(d, text) <=> t.by = d /\ t.text = text
  BY <1>2, ThoughtFields, ThoughtIsTh
<1>8. /\ Cardinality(owing(posts', t)) <=
            IF t = th(d, text) /\ posts[d][s].stage = "accepted"
            THEN Cardinality(owing(posts, t)) + 1 ELSE Cardinality(owing(posts, t))
      /\ Cardinality(owing(posts', t)) \in Nat
  <2>1. Cardinality(owing(posts, t)) \in Nat /\ Cardinality(owing(posts', t)) \in Nat
    BY OwingFinite
  <2>2. CASE t = th(d, text) /\ posts[d][s].stage = "accepted"
    <3>1. owes(p, t) /\ ~owes(posts[d][s], t) /\ t.by = d
      BY <1>6, <1>7, <2>2 DEF owes
    <3> QED
      BY <1>1, <1>4, <2>1, <2>2, <3>1, OwingReplaced
  <2>3. CASE t = th(d, text) /\ posts[d][s].stage # "accepted"
    <3>1. owes(p, t) /\ owes(posts[d][s], t)
      BY <1>1, <1>2, <1>6, <1>7, <2>3 DEF owes
    <3> QED
      BY <1>1, <1>4, <2>1, <2>3, <3>1, OwingReplaced
  <2>4. CASE t # th(d, text)
    <3>1. t.by # d \/ (~owes(p, t) /\ ~owes(posts[d][s], t))
      BY <1>2, <1>6, <1>7, <2>4 DEF owes
    <3> QED
      BY <1>1, <1>4, <2>1, <2>4, <3>1, OwingReplaced
  <2> QED
    BY <2>2, <2>3, <2>4, <2>1
<1>9. /\ Cardinality(lateOf(late', t)) <=
            IF t = th(d, text) /\ posts[d][s].stage = "sent"
            THEN Cardinality(lateOf(late, t)) + 1 ELSE Cardinality(lateOf(late, t))
      /\ Cardinality(lateOf(late', t)) \in Nat
  <2>1. Cardinality(lateOf(late, t)) \in Nat /\ Cardinality(lateOf(late', t)) \in Nat
    BY <1>1, LateFinite, TypeShapePrime DEF TypeInv
  <2>2. PICK r \in Requests : r.by = d /\ r.text = text /\ r.stale = posts[d][s].stale
            /\ r = [by |-> d, text |-> posts[d][s].body, stale |-> posts[d][s].stale]
    BY <1>1, <1>2, PostFields DEF Requests
  <2>3. late' = late \/ (late' = late \cup {r} /\ posts[d][s].stage = "sent")
    BY <2>2 DEF createFails, stillOut
  <2>4. CASE late' = late
    BY <2>1, <2>4
  <2>5. CASE late' = late \cup {r} /\ posts[d][s].stage = "sent"
    BY <1>1, <1>7, <2>1, <2>2, <2>5, LateAdded
  <2> QED
    BY <2>1, <2>3, <2>4, <2>5
<1>a. Cardinality(copiesIn(rows', t)) = Cardinality(copiesIn(rows, t)) /\ typed'[t] = typed[t]
  BY <1>4
<1> QED
  BY <1>5, <1>8, <1>9, <1>a, Counts DEF Accounted

LEMMA killAccounted ==
    ASSUME TypeInv, Accounted, NEW d \in Devices, kill(d)
    PROVE  Accounted'
<1> SUFFICES ASSUME NEW t \in Thought
             PROVE  Cardinality(copiesIn(rows', t)) + Cardinality(owing(posts', t))
                        + Cardinality(lateOf(late', t)) <= typed'[t] + failed'[t]
  BY DEF Accounted
<1>1. PICK kept \in SUBSET stillOut(d, Slots) : late' = late \cup kept
  BY DEF kill
<1>2. UNCHANGED <<rows, typed, failed>>
  BY DEF kill
<1>3. late' \in SUBSET Requests
  BY killPosts
<1>4. Cardinality(lateOf(late', t)) \in Nat
  BY <1>3, LateFinite
<1>5. Cardinality(copiesIn(rows', t)) = Cardinality(copiesIn(rows, t))
  BY <1>2
<1>6. CASE t.by = d
  <2>1. owing(posts', t) = {}
    BY <1>6, killPosts, IdlePost DEF owing, owes
  <2>2. Cardinality(owing(posts', t)) = 0
    BY <2>1, FS_EmptySet
  <2>3. Cardinality(lateOf(late', t)) <=
            Cardinality(lateOf(late, t)) + Cardinality(owing(posts, t))
    BY <1>1, <1>6, KilledRequests
  <2> QED
    BY <1>2, <1>4, <1>5, <2>2, <2>3, Counts DEF Accounted
<1>7. CASE t.by # d
  <2>1. owing(posts', t) = owing(posts, t)
    BY <1>7, killPosts, ThoughtIsTh DEF owing
  <2>2. lateOf(late', t) = lateOf(late, t)
    BY <1>1, <1>7 DEF lateOf, stillOut
  <2>3. /\ Cardinality(owing(posts', t)) = Cardinality(owing(posts, t))
        /\ Cardinality(lateOf(late', t)) = Cardinality(lateOf(late, t))
    BY <2>1, <2>2
  <2> QED
    BY <1>2, <1>5, <2>3, Counts DEF Accounted
<1> QED
  BY <1>6, <1>7

LEMMA AccountedPreserved ==
    ASSUME TypeInv, Accounted, [Next]_vars
    PROVE  Accounted'
<1>1. TypeInv'
  BY TypeInvPreserved
<1>2. ASSUME UNCHANGED <<rows, posts, late, typed, failed>>
      PROVE  Accounted'
  BY <1>2 DEF Accounted
<1>3. ASSUME NEW d \in Typists, NEW s \in Slots, NEW text \in Texts, postThoughtPressed(d, s, text)
      PROVE  Accounted'
  BY <1>1, <1>3, TypistsAssumption, createThoughtAccounted DEF postThoughtPressed
<1>4. ASSUME NEW d \in Devices, NEW s \in Slots, retryCreate(d, s)
      PROVE  Accounted'
  <2>1. posts[d][s].body \in Texts
    BY <1>4 DEF retryCreate, TypeInv, PostsFilled
  <2> QED
    BY <1>1, <1>4, <2>1, createThoughtAccounted DEF retryCreate
<1>5. ASSUME NEW d \in Devices, NEW s \in Slots,
             createAnswered(d, s) \/ serveCreate(d, s) \/ createFails(d, s)
      PROVE  Accounted'
  BY <1>1, <1>5, createAnsweredAccounted, serveCreateAccounted, createFailsAccounted
<1>6. ASSUME NEW d \in Devices,
             pollTick(d) \/ fetchAnswered(d) \/ serveIndex(d) \/ fetchFails(d)
             \/ logoutAction(d) \/ authSuccess(d)
      PROVE  Accounted'
  BY <1>2, <1>6 DEF pollTick, fetchAnswered, serveIndex, fetchFails, logoutAction, authSuccess
<1>7. ASSUME NEW d \in Devices, expire(d) \/ kill(d)
      PROVE  Accounted'
  BY <1>7, expireAccounted, killAccounted
<1>8. ASSUME NEW r \in late, serveLate(r)
      PROVE  Accounted'
  BY <1>8, serveLateAccounted
<1> QED
  BY <1>2, <1>3, <1>4, <1>5, <1>6, <1>7, <1>8 DEF Next, vars

LEMMA InitAccounted == Init => Accounted
<1> SUFFICES ASSUME Init, NEW t \in Thought
             PROVE  Cardinality(copiesIn(rows, t)) + Cardinality(owing(posts, t))
                        + Cardinality(lateOf(late, t)) <= typed[t] + failed[t]
  BY DEF Accounted
<1>1. copiesIn(rows, t) = {} /\ lateOf(late, t) = {}
  BY DEF Init, copiesIn, lateOf
<1>2. owing(posts, t) = {}
  BY IdlePost, ThoughtIsTh DEF Init, owing, owes
<1>3. /\ Cardinality(copiesIn(rows, t)) = 0 /\ Cardinality(owing(posts, t)) = 0
      /\ Cardinality(lateOf(late, t)) = 0
  BY <1>1, <1>2, FS_EmptySet
<1> QED
  BY <1>3 DEF Init

\* A thought never has more rows than it was typed and than attempts to send it
\* failed on the network, together: retries and requests served late make at
\* most one row for each failure.
THEOREM RowsAccounted == Spec => []RowsAreAccountedFor
<1>1. Spec => [](TypeInv /\ Accounted)
  BY InitTypeInv, InitAccounted, TypeInvPreserved, AccountedPreserved, PTL DEF Spec
<1>2. TypeInv /\ Accounted => RowsAreAccountedFor
  <2> SUFFICES ASSUME TypeInv, Accounted, NEW t \in Thought
               PROVE  Cardinality(copies(t)) <= typed[t] + failed[t]
    BY DEF RowsAreAccountedFor
  <2>1. copies(t) = copiesIn(rows, t)
    BY DEF copies, copiesIn
  <2> QED
    BY <2>1, Counts DEF Accounted
<1> QED
  BY <1>1, <1>2, PTL
=============================================================================
