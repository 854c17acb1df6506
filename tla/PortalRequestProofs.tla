------------------------ MODULE PortalRequestProofs -------------------------
(***************************************************************************)
(* Answers of the portal are heard and taken only for what they answer,    *)
(* and the saved token is current: proofs about PortalRequest for any      *)
(* number of screen casts and of requests.                                 *)
(***************************************************************************)
EXTENDS PortalRequest, TLAPS

-----------------------------------------------------------------------------
(* The inductive invariant *)

\* The tokens a flow has used so far.
Issued(f) == {f} \X (1..asked[f])
Tokens == {None} \cup UNION {Issued(f) : f \in Cast}

\* Every request, subscription and session is named with a token of its own flow, and
\* so is every request at the portal; restore tokens come from screen casts.
IdsAreOwn ==
    /\ \A f \in Flow :
          /\ request[f] \in Issued(f) \cup {None}
          /\ session[f] \in Issued(f) \cup {None}
          /\ using[f] \in Tokens
          /\ f \in Input => using[f] = None
    /\ \A r \in posed : r.id \in Issued(r.flow)
    /\ file \in Tokens

\* Where a flow is: it listens to the request it made last, and took an answer to that
\* one only; past the first request it has a session, past the last one a started one.
FlowInOrder(f) ==
    /\ phase[f] # "new" => Asking(f) /\ request[f] # None
    /\ path[f] = IF phase[f] \in {"subscribed", "waiting"} THEN request[f] ELSE None
    /\ signal[f] # NoSignal => phase[f] = "waiting" /\ signal[f].id = request[f]
    /\ at[f] \in {"open", "save"} => f \in Cast
    /\ at[f] \in {"select", "start", "open", "save", "ready"} => session[f] # None
    /\ at[f] = "start" /\ signal[f].ok => session[f] \in approved
    /\ at[f] \in {"open", "save", "ready"} => session[f] \in approved

FlowsInOrder == \A f \in Flow : FlowInOrder(f)

\* What the portal has of a flow: the request the flow waits for, and of the input
\* backend also those it gave up.
PosedInOrder ==
    /\ \A r \in posed :
          /\ r.id = request[r.flow] =>
                /\ r.step = at[r.flow] /\ r.session = session[r.flow]
                /\ signal[r.flow] = NoSignal /\ phase[r.flow] \in {"called", "waiting"}
          /\ r.flow \in Cast =>
                r.id = request[r.flow] /\ path[r.flow] = r.id /\ r.token = using[r.flow]
          /\ r.flow \in Input => r.token = None
    /\ \A r, s \in posed : r.id = s.id => r = s

\* A screen cast whose session was started and whose new token is not on file yet.
Renewing(g) == (at[g] = "start" /\ signal[g].ok) \/ at[g] \in {"open", "save"}

\* Until a screen cast has saved its token, nobody else knows it.
Unpublished ==
    \A g \in Cast : at[g] # "ready" =>
        /\ request[g] # None => request[g] # file /\ \A h \in Flow : request[g] # using[h]
        /\ session[g] # None => session[g] # file /\ \A h \in Flow : session[g] # using[h]

\* A token that is about to be saved can be used, and the one on file can be, or is
\* about to be replaced.
TokensInOrder ==
    /\ Unpublished
    /\ \A g \in Cast : Renewing(g) => session[g] \in valid
    /\ ~lost /\ file # None => file \in valid \/ \E g \in Cast : Renewing(g)

PortalInv ==
    /\ TypeOK
    /\ IdsAreOwn /\ FlowsInOrder /\ PosedInOrder /\ TokensInOrder
    /\ CastHearsEveryAnswer

-----------------------------------------------------------------------------
(* Tokens *)

\* No pair is None.
LEMMA PairsAreTokens == \A x, y : <<x, y>> # None
  BY DEF None

\* Tokens of different flows differ, and none of them is None.
LEMMA IssuedApart ==
    ASSUME NEW f \in Flow
    PROVE  /\ None \notin Issued(f)
           /\ \A g \in Flow : f # g => Issued(f) \cap Issued(g) = {}
<1>1. \A id \in Issued(f) : id = <<id[1], id[2]>> /\ id[1] = f
  BY DEF Issued
<1>2. None \notin Issued(f)
  BY <1>1, PairsAreTokens
<1>3. ASSUME NEW g \in Flow, f # g
      PROVE  Issued(f) \cap Issued(g) = {}
  BY <1>1, <1>3 DEF Issued
<1>4. QED BY <1>2, <1>3

\* A flow and the other flows, screen casts and input.
LEMMA Flows ==
    /\ \A f \in Flow : f \in Cast \/ f \in Input
    /\ \A f \in Cast : f \notin Input /\ f \in Flow
    /\ \A f \in Input : f \notin Cast /\ f \in Flow
    /\ MaxAsked \in Nat
  BY PortalAssumption DEF Flow

\* portal_token and unique_token return what nobody has.
LEMMA FreshToken ==
    ASSUME NEW f \in Flow, TypeOK, NewToken(f)
    PROVE  /\ asked' \in [Flow -> 0..MaxAsked]
           /\ request' = [request EXCEPT ![f] = request'[f]]
           /\ request'[f] \in Ids /\ request'[f] \in Issued(f)' /\ request'[f] # None
           /\ \A g \in Flow : Issued(g) \subseteq Issued(g)' /\ request'[f] \notin Issued(g)
           /\ request'[f] \notin Tokens /\ Tokens \subseteq Tokens'
<1> DEFINE new == <<f, asked[f] + 1>>
<1>1. /\ asked[f] \in 0..MaxAsked /\ asked[f] < MaxAsked
      /\ asked' = [asked EXCEPT ![f] = asked[f] + 1]
  BY DEF TypeOK, NewToken
<1>2. asked'[f] = asked[f] + 1 /\ asked[f] + 1 \in 1..MaxAsked
  BY <1>1, Flows DEF TypeOK
<1>3. asked' \in [Flow -> 0..MaxAsked]
  BY <1>1, <1>2 DEF TypeOK
<1>4. request' = [request EXCEPT ![f] = new] /\ request'[f] = new
  BY <1>2 DEF NewToken, Set, TypeOK
<1>5. new \in Ids
  BY <1>2 DEF Ids
<1>6. new \in Issued(f)'
  BY <1>2, <1>1, Flows DEF Issued
<1>7. new # None
  BY PairsAreTokens
<1>8. ASSUME NEW g \in Flow
      PROVE  Issued(g) \subseteq Issued(g)' /\ new \notin Issued(g)
  <2>1. asked[g] \in Nat /\ asked'[g] \in Nat /\ asked[g] <= asked'[g]
    BY <1>1, <1>2, <1>3, Flows DEF TypeOK
  <2>2. Issued(g) \subseteq Issued(g)'
    BY <2>1 DEF Issued
  <2>3. new \notin Issued(g)
    BY <1>1, <2>1 DEF Issued
  <2>4. QED BY <2>2, <2>3
<1>9. new \notin Tokens /\ Tokens \subseteq Tokens'
  <2>1. \A g \in Cast : Issued(g) \subseteq Issued(g)' /\ new \notin Issued(g)
    BY <1>8, Flows
  <2>2. QED BY <1>7, <2>1 DEF Tokens
<1>10. QED BY <1>3, <1>4, <1>5, <1>6, <1>7, <1>8, <1>9

-----------------------------------------------------------------------------
(* A flow begins anew, or ends *)

\* Whatever ends an attempt leaves nothing of it but what the portal may still answer.
Restarted(f) ==
    /\ at' = [at EXCEPT ![f] = at'[f]] /\ at'[f] \in {"idle", "create"}
    /\ phase' = [phase EXCEPT ![f] = "new"]
    /\ request' = [request EXCEPT ![f] = None] /\ path' = [path EXCEPT ![f] = None]
    /\ signal' = [signal EXCEPT ![f] = NoSignal] /\ session' = [session EXCEPT ![f] = None]
    /\ using' = [using EXCEPT ![f] = using'[f]]
    /\ using'[f] = None \/ (f \in Cast /\ using'[f] = file)
    /\ again' \in [Flow -> BOOLEAN]
    /\ posed' \subseteq posed /\ (f \in Cast => \A r \in posed' : r.flow # f)
    /\ lost' \in BOOLEAN /\ (lost => lost') /\ (f \in Cast /\ Renewing(f) => lost')
    /\ UNCHANGED <<running, file, asked, approved, valid, missed>>

\* A screen cast that is not asking has nothing at the portal.
LEMMA NothingPosed ==
    ASSUME NEW f \in Cast, PortalInv, ~Asking(f) \/ signal[f] # NoSignal \/ phase[f] \in {"new", "subscribed"}
    PROVE  \A r \in posed : r.flow # f
<1> SUFFICES ASSUME NEW r \in posed, r.flow = f PROVE FALSE
  OBVIOUS
<1>1. r.step \in Steps
  BY DEF PortalInv, TypeOK, Requests
<1>2. r.id = request[f] /\ r.step = at[f] /\ signal[f] = NoSignal /\ phase[f] \in {"called", "waiting"}
  BY DEF PortalInv, PosedInOrder
<1>3. QED BY <1>1, <1>2 DEF Asking

\* The invariant survives it.
LEMMA RestartedInv ==
    ASSUME NEW f \in Flow, PortalInv, Restarted(f)
    PROVE  PortalInv'
<1>1. /\ TypeOK /\ IdsAreOwn /\ FlowsInOrder /\ PosedInOrder /\ TokensInOrder
      /\ CastHearsEveryAnswer
  BY DEF PortalInv
<1>2. None \in Ids /\ None \in Tokens /\ using'[f] \in Tokens /\ using'[f] \in Ids
  BY <1>1 DEF Ids, Tokens, Restarted, IdsAreOwn, TypeOK
<1>3. TypeOK'
  <2>1. NoSignal \in [id : Ids, ok : BOOLEAN]
    BY <1>2 DEF NoSignal
  <2>2. /\ at' \in [Flow -> Steps \cup {"idle", "open", "save", "ready"}]
        /\ phase' \in [Flow -> {"new", "subscribed", "called", "waiting"}]
        /\ posed' \subseteq Requests
    BY <1>1 DEF TypeOK, Restarted, Steps
  <2>3. /\ request' \in [Flow -> Ids] /\ path' \in [Flow -> Ids] /\ session' \in [Flow -> Ids]
        /\ signal' \in [Flow -> [id : Ids, ok : BOOLEAN]] /\ using' \in [Flow -> Ids]
    BY <1>1, <1>2, <2>1 DEF TypeOK, Restarted
  <2>4. QED BY <1>1, <2>2, <2>3 DEF TypeOK, Restarted
<1>4. /\ \A g \in Flow : g # f =>
            /\ at'[g] = at[g] /\ phase'[g] = phase[g] /\ request'[g] = request[g]
            /\ path'[g] = path[g] /\ signal'[g] = signal[g] /\ session'[g] = session[g]
            /\ using'[g] = using[g]
      /\ at'[f] \in {"idle", "create"} /\ phase'[f] = "new" /\ request'[f] = None
      /\ path'[f] = None /\ signal'[f] = NoSignal /\ session'[f] = None
  BY <1>1 DEF TypeOK, Restarted
<1>5. Tokens' = Tokens /\ \A g \in Flow : Issued(g)' = Issued(g)
  BY DEF Restarted, Tokens, Issued
<1>6. IdsAreOwn'
  <2>1. \A g \in Flow :
           /\ request'[g] \in Issued(g)' \cup {None} /\ session'[g] \in Issued(g)' \cup {None}
           /\ using'[g] \in Tokens' /\ (g \in Input => using'[g] = None)
    BY <1>1, <1>2, <1>4, <1>5, Flows DEF IdsAreOwn, Restarted
  <2>2. (\A r \in posed' : r.id \in Issued(r.flow)') /\ file' \in Tokens'
    BY <1>1, <1>5 DEF IdsAreOwn, Restarted, TypeOK, Requests
  <2>3. QED BY <2>1, <2>2 DEF IdsAreOwn
<1>7. FlowsInOrder'
  <2>1. ASSUME NEW g \in Flow
        PROVE  FlowInOrder(g)'
    <3>1. CASE g = f
      BY <1>4, <3>1 DEF FlowInOrder, Asking, NoSignal, Steps
    <3>2. CASE g # f
      BY <1>1, <1>4, <3>2 DEF FlowsInOrder, FlowInOrder, Asking, Restarted
    <3>3. QED BY <3>1, <3>2
  <2>2. QED BY <2>1 DEF FlowsInOrder
<1>8. PosedInOrder'
  <2>1. ASSUME NEW r \in posed'
        PROVE  /\ r.id = request'[r.flow] =>
                     /\ r.step = at'[r.flow] /\ r.session = session'[r.flow]
                     /\ signal'[r.flow] = NoSignal /\ phase'[r.flow] \in {"called", "waiting"}
               /\ r.flow \in Cast =>
                     r.id = request'[r.flow] /\ path'[r.flow] = r.id /\ r.token = using'[r.flow]
               /\ r.flow \in Input => r.token = None
    <3>1. r \in posed /\ r.flow \in Flow /\ r.id \in Issued(r.flow)
      BY <1>1 DEF Restarted, TypeOK, Requests, IdsAreOwn
    <3>2. CASE r.flow = f
      BY <1>1, <1>4, <3>1, <3>2, IssuedApart, Flows DEF Restarted, PosedInOrder
    <3>3. CASE r.flow # f
      BY <1>1, <1>4, <3>1, <3>3 DEF PosedInOrder
    <3>4. QED BY <3>2, <3>3
  <2>2. \A r, s \in posed' : r.id = s.id => r = s
    BY <1>1 DEF Restarted, PosedInOrder
  <2>3. QED BY <2>1, <2>2 DEF PosedInOrder
<1>9. TokensInOrder'
  <2>1. Unpublished'
    <3>1. ASSUME NEW g \in Cast, at'[g] # "ready", NEW t, t = request'[g] \/ t = session'[g], t # None
          PROVE  t # file' /\ \A h \in Flow : t # using'[h]
      <4>1. g # f /\ g \in Flow
        BY <1>4, <3>1, Flows
      <4>2. t # file /\ \A h \in Flow : t # using[h]
        BY <1>1, <1>4, <3>1, <4>1 DEF TokensInOrder, Unpublished
      <4>3. QED BY <1>4, <3>1, <4>2 DEF Restarted
    <3>2. QED BY <3>1 DEF Unpublished
  <2>2. ~Renewing(f)'
    BY <1>4 DEF Renewing, NoSignal
  <2>3. \A g \in Flow : g # f => (Renewing(g)' <=> Renewing(g)) /\ session'[g] = session[g]
    BY <1>4 DEF Renewing
  <2>4. \A g \in Cast : Renewing(g)' => session'[g] \in valid'
    BY <1>1, <2>2, <2>3, Flows DEF TokensInOrder, Restarted
  <2>5. ~lost' /\ file' # None => file' \in valid' \/ \E g \in Cast : Renewing(g)'
    BY <1>1, <2>2, <2>3, Flows DEF TokensInOrder, Restarted
  <2>6. QED BY <2>1, <2>4, <2>5 DEF TokensInOrder
<1>10. QED
  BY <1>1, <1>3, <1>6, <1>7, <1>8, <1>9 DEF PortalInv, Restarted, CastHearsEveryAnswer

\* Every way in and out of an attempt is one.
LEMMA Restarts ==
    ASSUME NEW f \in Flow, PortalInv,
           \/ StartCast(f) \/ Prepare(f) \/ EndCast(f) \/ CallFails(f) \/ Refused(f)
           \/ TimesOut(f) \/ Unusable(f) \/ OpenRemoteFails(f)
    PROVE  Restarted(f)
<1>1. TypeOK /\ FlowInOrder(f) /\ (f \in Cast => \A r \in posed : r.flow = f => Asking(f))
  BY NothingPosed DEF PortalInv, FlowsInOrder
<1>2. CASE StartCast(f)
  BY <1>1, <1>2, Flows DEF StartCast, Begin, Quiet, Next, Set, Restarted, TypeOK, Asking,
     Steps, Renewing, portal
<1>3. CASE Prepare(f)
  BY <1>1, <1>3, Flows DEF Prepare, Begin, Quiet, Next, Set, Restarted, TypeOK, Renewing, portal
<1>4. CASE EndCast(f)
  BY <1>1, <1>4, Flows DEF EndCast, Quiet, Next, Set, Restarted, TypeOK, Asking,
     Steps, Renewing, portal
<1>5. ASSUME Fail(f), lost' \in BOOLEAN, lost => lost', f \in Cast /\ Renewing(f) => lost'
      PROVE  Restarted(f)
  <2>1. /\ posed' \subseteq posed /\ (f \in Cast => \A r \in posed' : r.flow # f)
    BY <1>5, Flows DEF Fail, FailCast, FailInput, Forget
  <2>2. again' \in [Flow -> BOOLEAN]
    BY <1>1, <1>5 DEF Fail, FailCast, FailInput, GiveUp, Begin, Set, TypeOK
  <2>3. /\ at' = [at EXCEPT ![f] = at'[f]] /\ at'[f] \in {"idle", "create"}
        /\ phase' = [phase EXCEPT ![f] = "new"] /\ session' = [session EXCEPT ![f] = None]
        /\ using' = [using EXCEPT ![f] = using'[f]] /\ using'[f] = None
    BY <1>1, <1>5 DEF Fail, FailCast, FailInput, GiveUp, Begin, Next, Set, TypeOK
  <2>4. QED BY <1>5, <2>1, <2>2, <2>3 DEF Fail, Quiet, Set, Restarted
<1>6. CASE CallFails(f)
  <2>1. ~Renewing(f)
    BY <1>1, <1>6 DEF CallFails, EarlyFlows, FlowInOrder, Asking, Steps, Renewing, NoSignal
  <2>2. QED BY <1>1, <1>5, <1>6, <2>1 DEF CallFails, TypeOK
<1>7. CASE Refused(f)
  <2>1. ~Renewing(f)
    BY <1>7 DEF Refused, Asking, Steps, Renewing
  <2>2. QED BY <1>1, <1>5, <1>7, <2>1 DEF Refused, TypeOK
<1>8. CASE TimesOut(f)
  <2>1. ~Renewing(f)
    BY <1>8 DEF TimesOut, Asking, Steps, Renewing, NoSignal
  <2>2. QED BY <1>1, <1>5, <1>8, <2>1 DEF TimesOut, TypeOK
<1>9. CASE Unusable(f)
  <2>1. lost' \in BOOLEAN /\ (lost => lost') /\ (f \in Cast => lost')
    BY <1>9 DEF Unusable
  <2>2. QED BY <1>5, <1>9, <2>1 DEF Unusable
<1>10. CASE OpenRemoteFails(f)
  <2>1. lost' = TRUE
    BY <1>10 DEF OpenRemoteFails
  <2>2. QED BY <1>5, <1>10, <2>1 DEF OpenRemoteFails
<1>11. QED BY <1>2, <1>3, <1>4, <1>6, <1>7, <1>8, <1>9, <1>10

-----------------------------------------------------------------------------
(* A flow makes a request *)

\* What the portal is asked by a flow.
Question(f) == [flow |-> f, id |-> request[f], step |-> at[f], session |-> session[f],
                token |-> using[f]]

\* A request gets a new token, is sent, or is listened for.
Asked(f) ==
    /\ Asking(f) /\ signal[f] = NoSignal
    /\ Tokens \subseteq Tokens' /\ \A g \in Flow : Issued(g) \subseteq Issued(g)'
    /\ asked' \in [Flow -> 0..MaxAsked]
    /\ request' = [request EXCEPT ![f] = request'[f]]
    /\ request'[f] \in Ids /\ request'[f] \in Issued(f)'
    /\ request'[f] = request[f] \/ request'[f] \notin Tokens
    /\ phase' = [phase EXCEPT ![f] = phase'[f]]
    /\ phase'[f] \in {"subscribed", "called", "waiting"} /\ (f \in Cast => phase'[f] # "called")
    /\ signal' = [signal EXCEPT ![f] = NoSignal]
    /\ path' = [path EXCEPT ![f] = IF phase'[f] = "called" THEN None ELSE request'[f]]
    /\ \A r \in posed : r.flow = f => f \in Input
    /\ \/ /\ posed' = posed \cup {Question(f)'} /\ phase'[f] # "subscribed"
          /\ \A r \in posed : r.id # request'[f]
       \/ /\ posed' = posed
          /\ \A r \in posed : r.id = request'[f] => r.id = request[f] /\ phase'[f] = "waiting"
    /\ UNCHANGED <<running, at, session, using, again, file, approved, valid, missed, lost>>

\* The invariant survives it.
LEMMA AskedInv ==
    ASSUME NEW f \in Flow, PortalInv, Asked(f)
    PROVE  PortalInv'
<1> DEFINE q == Question(f)'
<1>1. /\ TypeOK /\ IdsAreOwn /\ FlowsInOrder /\ PosedInOrder /\ TokensInOrder
      /\ CastHearsEveryAnswer
  BY DEF PortalInv
<1>2. /\ \A g \in Flow : g # f =>
            phase'[g] = phase[g] /\ request'[g] = request[g] /\ path'[g] = path[g] /\ signal'[g] = signal[g]
      /\ phase'[f] \in {"subscribed", "called", "waiting"} /\ signal'[f] = NoSignal
      /\ path'[f] = IF phase'[f] = "called" THEN None ELSE request'[f]
      /\ request'[f] # None
      /\ at' = at /\ session' = session /\ using' = using
  <2>1. None \notin Issued(f)'
    BY PairsAreTokens DEF Issued
  <2>2. QED BY <1>1, <2>1 DEF TypeOK, Asked
<1>3. q = [flow |-> f, id |-> request'[f], step |-> at[f], session |-> session[f], token |-> using[f]]
  BY <1>2 DEF Question
<1>4. posed' \subseteq posed \cup {q}
  BY DEF Asked
<1>5. TypeOK'
  <2>1. None \in Ids /\ NoSignal \in [id : Ids, ok : BOOLEAN]
    BY DEF NoSignal, Ids
  <2>2. q \in Requests
    BY <1>1, <1>3 DEF TypeOK, Requests, Asked, Asking
  <2>3. /\ phase' \in [Flow -> {"new", "subscribed", "called", "waiting"}]
        /\ request' \in [Flow -> Ids] /\ path' \in [Flow -> Ids]
        /\ signal' \in [Flow -> [id : Ids, ok : BOOLEAN]]
    BY <1>1, <2>1 DEF TypeOK, Asked
  <2>4. posed' \subseteq Requests
    BY <1>1, <1>4, <2>2 DEF TypeOK
  <2>5. QED BY <1>1, <2>3, <2>4 DEF TypeOK, Asked
<1>6. IdsAreOwn'
  <2>1. \A g \in Flow :
           /\ request'[g] \in Issued(g)' \cup {None} /\ session'[g] \in Issued(g)' \cup {None}
           /\ using'[g] \in Tokens' /\ (g \in Input => using'[g] = None)
    BY <1>1, <1>2 DEF IdsAreOwn, Asked
  <2>2. \A r \in posed' : r.id \in Issued(r.flow)'
    BY <1>1, <1>3, <1>4 DEF IdsAreOwn, Asked, TypeOK, Requests
  <2>3. file' \in Tokens'
    BY <1>1 DEF IdsAreOwn, Asked
  <2>4. QED BY <2>1, <2>2, <2>3 DEF IdsAreOwn
<1>7. FlowsInOrder'
  <2>1. ASSUME NEW g \in Flow
        PROVE  FlowInOrder(g)'
    <3>1. approved' = approved /\ FlowInOrder(g)
      BY <1>1 DEF FlowsInOrder, Asked
    <3>2. CASE g = f
      BY <1>2, <3>1, <3>2 DEF FlowInOrder, Asking, Asked, NoSignal
    <3>3. CASE g # f
      BY <1>2, <3>1, <3>3 DEF FlowInOrder, Asking
    <3>4. QED BY <3>2, <3>3
  <2>2. QED BY <2>1 DEF FlowsInOrder
<1>8. PosedInOrder'
  <2>1. ASSUME NEW r \in posed'
        PROVE  /\ r.id = request'[r.flow] =>
                     /\ r.step = at'[r.flow] /\ r.session = session'[r.flow]
                     /\ signal'[r.flow] = NoSignal /\ phase'[r.flow] \in {"called", "waiting"}
               /\ r.flow \in Cast =>
                     r.id = request'[r.flow] /\ path'[r.flow] = r.id /\ r.token = using'[r.flow]
               /\ r.flow \in Input => r.token = None
    <3>1. CASE r \in posed /\ r.flow # f
      <4>1. r.flow \in Flow
        BY <1>1, <3>1 DEF TypeOK, Requests
      <4>2. QED BY <1>1, <1>2, <3>1, <4>1 DEF PosedInOrder
    <3>2. CASE r \in posed /\ r.flow = f
      <4>1. f \in Input /\ f \notin Cast
        BY <3>2, Flows DEF Asked
      <4>2. r.id = request'[f] => r.id = request[f] /\ phase'[f] = "waiting"
        BY <3>2 DEF Asked
      <4>3. QED BY <1>1, <1>2, <3>2, <4>1, <4>2 DEF PosedInOrder
    <3>3. CASE r \notin posed
      <4>1. r = q /\ phase'[f] # "subscribed"
        BY <1>4, <3>3 DEF Asked
      <4>2. r.flow = f /\ r.id = request'[f] /\ r.step = at[f] /\ r.session = session[f] /\ r.token = using[f]
        BY <1>3, <4>1
      <4>3. (f \in Cast => phase'[f] # "called") /\ (f \in Input => using[f] = None)
        BY <1>1 DEF Asked, IdsAreOwn
      <4>4. QED BY <1>2, <4>1, <4>2, <4>3
    <3>4. QED BY <3>1, <3>2, <3>3
  <2>2. ASSUME NEW r \in posed', NEW s \in posed', r.id = s.id
        PROVE  r = s
    <3>1. q.id = request'[f]
      BY <1>3
    <3>2. QED BY <1>1, <2>2, <3>1 DEF Asked, PosedInOrder
  <2>3. QED BY <2>1, <2>2 DEF PosedInOrder
<1>9. TokensInOrder'
  <2>1. Unpublished'
    <3>1. ASSUME NEW g \in Cast, at[g] # "ready"
          PROVE  /\ request'[g] # None => request'[g] # file /\ \A h \in Flow : request'[g] # using[h]
                 /\ session[g] # None => session[g] # file /\ \A h \in Flow : session[g] # using[h]
      <4>1. CASE g = f /\ request'[f] \notin Tokens
        BY <1>1, <3>1, <4>1 DEF TokensInOrder, Unpublished, IdsAreOwn
      <4>2. CASE g # f \/ request'[f] = request[f]
        BY <1>1, <1>2, <3>1, <4>2, Flows DEF TokensInOrder, Unpublished
      <4>3. QED BY <4>1, <4>2 DEF Asked
    <3>2. QED BY <1>2, <3>1 DEF Unpublished, Asked
  <2>2. ~Renewing(f) /\ ~Renewing(f)'
    <3>1. at[f] \notin {"open", "save"}
      BY DEF Asked, Asking, Steps
    <3>2. ~Renewing(f)'
      BY <1>2, <3>1 DEF Renewing, NoSignal
    <3>3. ~Renewing(f)
      BY <3>1 DEF Asked, Renewing, NoSignal
    <3>4. QED BY <3>2, <3>3
  <2>3. \A g \in Cast : Renewing(g)' <=> Renewing(g)
    BY <1>2, <2>2, Flows DEF Renewing
  <2>4. \A g \in Cast : Renewing(g)' => session'[g] \in valid'
    BY <1>1, <1>2, <2>3 DEF TokensInOrder, Asked
  <2>5. ~lost' /\ file' # None => file' \in valid' \/ \E g \in Cast : Renewing(g)'
    BY <1>1, <2>3 DEF TokensInOrder, Asked
  <2>6. QED BY <2>1, <2>4, <2>5 DEF TokensInOrder
<1>10. QED
  BY <1>1, <1>5, <1>6, <1>7, <1>8, <1>9 DEF PortalInv, Asked, CastHearsEveryAnswer

\* The steps of a request up to its answer.
Asks(f) == SubscribeFirst(f) \/ CallSubscribed(f) \/ CallFirst(f) \/ WaitRequest(f)

\* Each of them takes a new token, sends the request, or listens for its answer.
LEMMA AsksAreAsked ==
    ASSUME NEW f \in Flow, PortalInv, Asks(f)
    PROVE  Asked(f)
<1>1. TypeOK /\ FlowInOrder(f) /\ PosedInOrder /\ IdsAreOwn
  BY DEF PortalInv, FlowsInOrder
<1>2. \A r \in posed : r.id = request[f] => r.flow = f
  <2>1. ASSUME NEW r \in posed, r.id = request[f]
        PROVE  r.flow = f
    <3>1. r.flow \in Flow /\ r.id \in Issued(r.flow)
      BY <1>1 DEF TypeOK, Requests, IdsAreOwn
    <3>2. request[f] \in Issued(f) \cup {None}
      BY <1>1 DEF IdsAreOwn
    <3>3. QED BY <2>1, <3>1, <3>2, IssuedApart
  <2>2. QED BY <2>1
<1>3. f \in Cast /\ phase[f] \in {"new", "subscribed"} => \A r \in posed : r.flow # f
  BY NothingPosed DEF PortalInv
<1>4. ASSUME UNCHANGED asked
      PROVE  Tokens \subseteq Tokens' /\ \A g \in Flow : Issued(g) \subseteq Issued(g)'
  BY <1>4 DEF Tokens, Issued
<1>5. request[f] # None => request[f] \in Ids /\ request[f] \in Issued(f)
  BY <1>1 DEF IdsAreOwn, TypeOK
<1>6. CASE SubscribeFirst(f)
  <2>1. NewToken(f) /\ f \in Cast /\ phase[f] = "new" /\ signal[f] = NoSignal
    BY <1>1, <1>6 DEF SubscribeFirst, EarlyFlows, FlowInOrder
  <2>2. \A r \in posed : r.flow # f
    BY <1>3, <2>1
  <2>3. \A r \in posed : r.id # request'[f]
    BY <1>1, <2>1, FreshToken DEF IdsAreOwn, TypeOK, Requests
  <2>4. phase' = [phase EXCEPT ![f] = "subscribed"] /\ phase'[f] = "subscribed"
    BY <1>1, <1>6 DEF SubscribeFirst, Set, TypeOK
  <2>5. QED
    BY <1>1, <1>6, <2>1, <2>2, <2>3, <2>4, FreshToken DEF SubscribeFirst, Set, Asked
<1>7. CASE CallFirst(f)
  <2>1. NewToken(f) /\ f \in Input /\ f \notin Cast /\ phase[f] = "new" /\ signal[f] = NoSignal
        /\ path[f] = None
    BY <1>1, <1>7, Flows DEF CallFirst, EarlyFlows, FlowInOrder
  <2>2. \A r \in posed : r.id # request'[f]
    BY <1>1, <2>1, FreshToken DEF IdsAreOwn, TypeOK, Requests
  <2>3. phase' = [phase EXCEPT ![f] = "called"] /\ phase'[f] = "called"
    BY <1>1, <1>7 DEF CallFirst, Set, TypeOK
  <2>4. posed' = posed \cup {Question(f)'}
    BY <1>7 DEF CallFirst, Pose, Question
  <2>5. signal' = [signal EXCEPT ![f] = NoSignal] /\ path' = [path EXCEPT ![f] = None]
    BY <1>1, <1>7, <2>1 DEF CallFirst, TypeOK
  <2>6. QED
    BY <1>1, <1>7, <2>1, <2>2, <2>3, <2>4, <2>5, FreshToken DEF CallFirst, Asked
<1>8. CASE CallSubscribed(f)
  <2>1. f \in Cast /\ phase[f] = "subscribed" /\ signal[f] = NoSignal /\ path[f] = request[f]
        /\ request[f] # None
    BY <1>1, <1>8 DEF CallSubscribed, EarlyFlows, FlowInOrder
  <2>2. \A r \in posed : r.flow # f /\ r.id # request[f]
    BY <1>2, <1>3, <2>1
  <2>3. phase' = [phase EXCEPT ![f] = "waiting"] /\ phase'[f] = "waiting"
    BY <1>1, <1>8 DEF CallSubscribed, Set, TypeOK
  <2>4. posed' = posed \cup {Question(f)'}
    BY <1>8 DEF CallSubscribed, Pose, Question
  <2>5. /\ signal' = [signal EXCEPT ![f] = NoSignal] /\ path' = [path EXCEPT ![f] = request[f]]
        /\ request' = [request EXCEPT ![f] = request'[f]] /\ request'[f] = request[f]
    BY <1>1, <1>8, <2>1 DEF CallSubscribed, TypeOK
  <2>6. QED
    BY <1>1, <1>4, <1>5, <1>8, <2>1, <2>2, <2>3, <2>4, <2>5 DEF CallSubscribed, Asked, TypeOK
<1>9. CASE WaitRequest(f)
  <2>1. f \in Input /\ f \notin Cast /\ phase[f] = "called" /\ signal[f] = NoSignal
        /\ request[f] # None
    BY <1>1, <1>9, Flows DEF WaitRequest, EarlyFlows, FlowInOrder
  <2>2. phase' = [phase EXCEPT ![f] = "waiting"] /\ phase'[f] = "waiting"
    BY <1>1, <1>9 DEF WaitRequest, Set, TypeOK
  <2>3. /\ signal' = [signal EXCEPT ![f] = NoSignal] /\ path' = [path EXCEPT ![f] = request[f]]
        /\ request' = [request EXCEPT ![f] = request'[f]] /\ request'[f] = request[f]
    BY <1>1, <1>9, <2>1 DEF WaitRequest, Set, TypeOK
  <2>4. QED
    BY <1>1, <1>4, <1>5, <1>9, <2>1, <2>2, <2>3 DEF WaitRequest, Asked, TypeOK, portal
<1>10. QED BY <1>6, <1>7, <1>8, <1>9 DEF Asks

-----------------------------------------------------------------------------
(* A flow takes an answer, and a screen cast saves its token *)

\* The answer to a request leads to the next, and the last one to the stream.
LEMMA AdvanceInv ==
    ASSUME NEW f \in Flow, PortalInv, Advance(f)
    PROVE  PortalInv'
<1>1. /\ TypeOK /\ IdsAreOwn /\ FlowsInOrder /\ PosedInOrder /\ TokensInOrder
      /\ CastHearsEveryAnswer
  BY DEF PortalInv
<1>2. /\ at[f] \in Steps /\ phase[f] = "waiting" /\ signal[f].ok /\ signal[f] # NoSignal
      /\ signal[f].id = request[f] /\ request[f] # None /\ path[f] = request[f]
      /\ request[f] \in Issued(f)
  BY <1>1 DEF Advance, Asking, NoSignal, FlowsInOrder, FlowInOrder, IdsAreOwn
<1>3. /\ \A g \in Flow : g # f =>
            at'[g] = at[g] /\ phase'[g] = phase[g] /\ path'[g] = path[g]
            /\ signal'[g] = signal[g] /\ session'[g] = session[g]
      /\ at'[f] = CASE at[f] = "create" -> "select"
                    [] at[f] = "select" -> "start"
                    [] at[f] = "start" -> IF f \in Cast THEN "open" ELSE "ready"
      /\ session'[f] = IF at[f] = "create" THEN request[f] ELSE session[f]
      /\ phase'[f] = "new" /\ path'[f] = None /\ signal'[f] = NoSignal
      /\ UNCHANGED <<running, request, using, again, file, portal, missed, lost>>
  BY <1>1, <1>2 DEF TypeOK, Advance, Next, Set
<1>4. \A r \in posed : r.flow = f => r.flow \in Input /\ r.id # request[f]
  BY <1>1, <1>2, Flows DEF PosedInOrder
<1>5. Tokens' = Tokens /\ \A g \in Flow : Issued(g)' = Issued(g)
  BY <1>3 DEF Tokens, Issued, portal
<1>6. TypeOK'
  <2>1. None \in Ids /\ NoSignal \in [id : Ids, ok : BOOLEAN] /\ request[f] \in Ids
    BY <1>1 DEF NoSignal, Ids, TypeOK
  <2>2. /\ at' \in [Flow -> Steps \cup {"idle", "open", "save", "ready"}]
        /\ phase' \in [Flow -> {"new", "subscribed", "called", "waiting"}]
    BY <1>1, <1>2 DEF TypeOK, Advance, Next, Set, Steps
  <2>3. session' \in [Flow -> Ids] /\ path' \in [Flow -> Ids]
        /\ signal' \in [Flow -> [id : Ids, ok : BOOLEAN]]
    BY <1>1, <1>2, <2>1 DEF TypeOK, Advance, Set
  <2>4. QED BY <1>1, <1>3, <2>2, <2>3 DEF TypeOK, portal
<1>7. IdsAreOwn'
  BY <1>1, <1>2, <1>3, <1>5 DEF IdsAreOwn, portal, TypeOK, Requests
<1>8. FlowsInOrder'
  <2>1. ASSUME NEW g \in Flow
        PROVE  FlowInOrder(g)'
    <3>1. approved' = approved /\ FlowInOrder(g) /\ request' = request
      BY <1>1, <1>3 DEF FlowsInOrder, portal
    <3>2. CASE g = f
      BY <1>2, <1>3, <3>1, <3>2 DEF FlowInOrder, Asking, NoSignal, Steps
    <3>3. CASE g # f
      BY <1>3, <3>1, <3>3 DEF FlowInOrder, Asking
    <3>4. QED BY <3>2, <3>3
  <2>2. QED BY <2>1 DEF FlowsInOrder
<1>9. PosedInOrder'
  <2>1. posed' = posed /\ request' = request /\ using' = using
    BY <1>3 DEF portal
  <2>2. \A r \in posed : r.flow \in Flow
    BY <1>1 DEF TypeOK, Requests
  <2>3. QED BY <1>1, <1>3, <1>4, <2>1, <2>2, Flows DEF PosedInOrder
<1>10. TokensInOrder'
  <2>1. request' = request /\ using' = using /\ file' = file /\ valid' = valid /\ lost' = lost
    BY <1>3 DEF portal
  <2>2. Unpublished'
    <3>1. ASSUME NEW g \in Cast, at'[g] # "ready"
          PROVE  /\ request[g] # None => request[g] # file /\ \A h \in Flow : request[g] # using[h]
                 /\ session'[g] # None => session'[g] # file /\ \A h \in Flow : session'[g] # using[h]
      <4>1. at[g] # "ready"
        BY <1>2, <1>3, <3>1, Flows DEF Steps
      <4>2. session'[g] = session[g] \/ session'[g] = request[g]
        BY <1>3, Flows
      <4>3. QED BY <1>1, <4>1, <4>2 DEF TokensInOrder, Unpublished
    <3>2. QED BY <2>1, <3>1 DEF Unpublished
  <2>3. ASSUME NEW g \in Cast
        PROVE  (Renewing(g)' <=> Renewing(g)) /\ (Renewing(g) => session'[g] = session[g])
    <3>1. CASE g = f
      BY <1>2, <1>3, <3>1 DEF Renewing, NoSignal, Steps
    <3>2. CASE g # f
      BY <1>3, <3>2, Flows DEF Renewing
    <3>3. QED BY <3>1, <3>2
  <2>4. QED BY <1>1, <2>1, <2>2, <2>3 DEF TokensInOrder
<1>11. QED
  BY <1>1, <1>3, <1>6, <1>7, <1>8, <1>9, <1>10 DEF PortalInv, CastHearsEveryAnswer

\* The token that is saved is the one of the session that was just started.
LEMMA SaveInv ==
    ASSUME NEW f \in Flow, PortalInv, OpenRemote(f) \/ SaveToken(f)
    PROVE  PortalInv'
<1>1. /\ TypeOK /\ IdsAreOwn /\ FlowsInOrder /\ PosedInOrder /\ TokensInOrder
      /\ CastHearsEveryAnswer
  BY DEF PortalInv
<1>2. /\ at[f] \in {"open", "save"} /\ f \in Cast /\ ~Asking(f) /\ phase[f] = "new"
      /\ session[f] # None /\ session[f] \in approved /\ Renewing(f)
  BY <1>1 DEF OpenRemote, SaveToken, FlowsInOrder, FlowInOrder, Asking, Steps, Renewing
<1>3. /\ at' = [at EXCEPT ![f] = at'[f]] /\ phase' = phase
      /\ \/ at'[f] = "save" /\ file' = file /\ lost' = lost
         \/ at'[f] = "ready" /\ file' = session[f] /\ lost' = lost
         \/ at'[f] = "ready" /\ file' \in {file, None} /\ lost'
      /\ lost' \in BOOLEAN
      /\ UNCHANGED <<running, request, path, signal, session, using, again, portal, missed>>
  <2>1. phase' = phase
    BY <1>1, <1>2 DEF OpenRemote, SaveToken, Next, Set, TypeOK
  <2>2. QED
    BY <1>1, <2>1 DEF OpenRemote, SaveToken, Next, Set, Saved, TypeOK
<1>4. at'[f] \in {"save", "ready"} /\ \A g \in Flow : g # f => at'[g] = at[g]
  BY <1>1, <1>3 DEF TypeOK
<1>5. Tokens' = Tokens /\ \A g \in Flow : Issued(g)' = Issued(g)
  BY <1>3 DEF Tokens, Issued, portal
<1>6. session[f] \in Ids /\ session[f] \in Issued(f) /\ session[f] \in Tokens /\ None \in Ids
      /\ None \in Tokens
  BY <1>1, <1>2 DEF TypeOK, IdsAreOwn, Tokens, Ids
<1>7. TypeOK'
  <2>1. at' \in [Flow -> Steps \cup {"idle", "open", "save", "ready"}]
    BY <1>1, <1>3, <1>4 DEF TypeOK
  <2>2. QED BY <1>1, <1>3, <1>6, <2>1 DEF TypeOK, portal
<1>8. IdsAreOwn'
  BY <1>1, <1>3, <1>5, <1>6 DEF IdsAreOwn, portal, TypeOK, Requests
<1>9. FlowsInOrder'
  <2>1. ASSUME NEW g \in Flow
        PROVE  FlowInOrder(g)'
    <3>1. FlowInOrder(g) /\ approved' = approved
      BY <1>1, <1>3 DEF FlowsInOrder, portal
    <3>2. CASE g = f
      BY <1>2, <1>3, <1>4, <3>1, <3>2 DEF FlowInOrder, Asking, Steps
    <3>3. CASE g # f
      BY <1>3, <1>4, <3>1, <3>3 DEF FlowInOrder, Asking
    <3>4. QED BY <3>2, <3>3
  <2>2. QED BY <2>1 DEF FlowsInOrder
<1>10. PosedInOrder'
  <2>1. \A r \in posed : r.flow # f /\ r.flow \in Flow
    BY <1>1, <1>2, NothingPosed DEF TypeOK, Requests
  <2>2. QED BY <1>1, <1>3, <1>4, <2>1 DEF PosedInOrder, portal
<1>11. TokensInOrder'
  <2>1. request' = request /\ session' = session /\ using' = using /\ valid' = valid
    BY <1>3 DEF portal
  <2>2. Unpublished'
    <3>1. ASSUME NEW g \in Cast, at'[g] # "ready"
          PROVE  /\ request[g] # None => request[g] # file' /\ \A h \in Flow : request[g] # using[h]
                 /\ session[g] # None => session[g] # file' /\ \A h \in Flow : session[g] # using[h]
      <4>1. at[g] # "ready" /\ g \in Flow
        BY <1>2, <1>4, <3>1, Flows
      <4>2. g # f => request[g] # session[f] /\ session[g] # session[f]
        <5>1. request[g] \in Issued(g) \cup {None} /\ session[g] \in Issued(g) \cup {None}
          BY <1>1, <4>1 DEF IdsAreOwn
        <5>2. QED BY <1>6, <1>2, <4>1, <5>1, IssuedApart
      <4>3. g = f => file' = file
        BY <1>3, <3>1
      <4>4. QED BY <1>1, <1>3, <4>1, <4>2, <4>3 DEF TokensInOrder, Unpublished
    <3>2. QED BY <2>1, <3>1 DEF Unpublished
  <2>3. \A g \in Cast : (g # f => (Renewing(g)' <=> Renewing(g))) /\ (Renewing(g)' => Renewing(g))
    BY <1>2, <1>3, <1>4, Flows DEF Renewing
  <2>4. at'[f] = "save" => Renewing(f)'
    BY DEF Renewing
  <2>5. session[f] \in valid
    BY <1>1, <1>2 DEF TokensInOrder
  <2>6. ~lost' /\ file' # None => file' \in valid' \/ \E g \in Cast : Renewing(g)'
    BY <1>2, <1>3, <2>1, <2>4, <2>5
  <2>7. \A g \in Cast : Renewing(g)' => session'[g] \in valid'
    BY <1>1, <2>1, <2>3 DEF TokensInOrder
  <2>8. QED BY <2>2, <2>6, <2>7 DEF TokensInOrder
<1>12. QED
  BY <1>1, <1>3, <1>7, <1>8, <1>9, <1>10, <1>11 DEF PortalInv, CastHearsEveryAnswer

-----------------------------------------------------------------------------
(* The portal answers *)

\* An answer reaches the flow that asked, if it listens, and nobody else.
LEMMA AnswerInv ==
    ASSUME NEW r \in posed, PortalInv, Answer(r)
    PROVE  PortalInv'
<1> DEFINE k == r.flow
<1>1. /\ TypeOK /\ IdsAreOwn /\ FlowsInOrder /\ PosedInOrder /\ TokensInOrder
      /\ CastHearsEveryAnswer
  BY DEF PortalInv
<1>2. /\ r \in Requests /\ k \in Flow /\ r.id \in Issued(k) /\ r.id \in Ids /\ r.id # None
      /\ r.session \in Ids /\ r.step \in Steps
  <2>1. r \in Requests /\ k \in Flow /\ r.id \in Issued(k)
    BY <1>1 DEF TypeOK, Requests, IdsAreOwn
  <2>2. QED BY <2>1, IssuedApart DEF Requests
<1>3. /\ \A f \in Flow : path[f] = r.id => f = k
      /\ path[k] = r.id => request[k] = r.id /\ phase[k] = "waiting"
  <2>1. ASSUME NEW f \in Flow, path[f] = r.id
        PROVE  f = k /\ request[f] = r.id /\ phase[f] = "waiting"
    <3>1. request[f] = r.id /\ phase[f] \in {"subscribed", "waiting"}
      BY <1>1, <1>2, <2>1 DEF FlowsInOrder, FlowInOrder
    <3>2. f = k
      <4>1. request[f] \in Issued(f)
        BY <1>1, <1>2, <3>1 DEF IdsAreOwn
      <4>2. QED BY <1>2, <3>1, <4>1, IssuedApart
    <3>3. QED BY <1>1, <3>1, <3>2 DEF PosedInOrder
  <2>2. QED BY <1>2, <2>1
<1>4. PICK ok \in BOOLEAN :
        /\ signal' = [f \in Flow |-> IF Listens(f, r) THEN [id |-> r.id, ok |-> ok] ELSE signal[f]]
        /\ IF ok /\ r.step = "start"
           THEN /\ approved' = approved \cup {r.session}
                /\ valid' = (valid \ {r.token}) \cup {r.session}
           ELSE UNCHANGED <<approved, valid>>
  BY DEF Answer
<1>5. /\ posed' = posed \ {r} /\ approved \subseteq approved'
      /\ UNCHANGED <<running, at, phase, request, path, session, using, again, file, asked, lost>>
  BY <1>4 DEF Answer
<1>6. /\ \A f \in Flow : f # k => signal'[f] = signal[f]
      /\ path[k] = r.id => signal'[k].id = r.id /\ signal'[k].ok = ok
      /\ path[k] # r.id => signal'[k] = signal[k]
  BY <1>2, <1>3, <1>4 DEF Listens
<1>7. Tokens' = Tokens /\ \A g \in Flow : Issued(g)' = Issued(g)
  BY <1>5 DEF Tokens, Issued
<1>8. k \in Cast => missed' = missed /\ path[k] = r.id /\ r.token = using[k] /\ ~Renewing(k)
  <2>1. ASSUME k \in Cast
        PROVE  /\ r.id = request[k] /\ path[k] = r.id /\ r.token = using[k]
               /\ r.step = at[k] /\ signal[k] = NoSignal
    BY <1>1, <2>1 DEF PosedInOrder
  <2>2. k \in Cast => missed' = missed
    BY <2>1 DEF Answer, Listens
  <2>3. k \in Cast => ~Renewing(k)
    BY <1>2, <2>1 DEF Renewing, NoSignal, Steps
  <2>4. QED BY <2>1, <2>2, <2>3
<1>9. TypeOK'
  <2>1. signal' \in [Flow -> [id : Ids, ok : BOOLEAN]]
    BY <1>1, <1>2, <1>4 DEF TypeOK
  <2>2. approved' \subseteq Ids /\ valid' \subseteq Ids
    BY <1>1, <1>2, <1>4 DEF TypeOK
  <2>3. missed' \subseteq Flow
    BY <1>1, <1>2 DEF Answer, TypeOK
  <2>4. QED BY <1>1, <1>5, <2>1, <2>2, <2>3 DEF TypeOK
<1>10. IdsAreOwn'
  BY <1>1, <1>5, <1>7 DEF IdsAreOwn, TypeOK, Requests
<1>11. FlowsInOrder'
  <2>1. ASSUME NEW f \in Flow
        PROVE  FlowInOrder(f)'
    <3>1. FlowInOrder(f)
      BY <1>1 DEF FlowsInOrder
    <3>2. CASE f = k /\ path[k] = r.id
      <4>1. r.step = at[k] /\ r.session = session[k] /\ r.id = request[k] /\ phase[k] = "waiting"
        BY <1>1, <1>3, <3>2 DEF PosedInOrder
      <4>2. at[f] = "start" /\ ok => session[f] \in approved'
        BY <1>4, <3>2, <4>1
      <4>3. at[f] \notin {"open", "save", "ready"}
        BY <1>2, <3>2, <4>1 DEF Steps
      <4>4. QED BY <1>5, <1>6, <3>1, <3>2, <4>1, <4>2, <4>3 DEF FlowInOrder, Asking
    <3>3. CASE ~(f = k /\ path[k] = r.id)
      BY <1>5, <1>6, <3>1, <3>3 DEF FlowInOrder, Asking
    <3>4. QED BY <3>2, <3>3
  <2>2. QED BY <2>1 DEF FlowsInOrder
<1>12. PosedInOrder'
  <2>1. ASSUME NEW s \in posed'
        PROVE  s.id = request[s.flow] => signal'[s.flow] = NoSignal
    <3>1. s \in posed /\ s # r /\ s.flow \in Flow
      BY <1>1, <1>5 DEF TypeOK, Requests
    <3>2. s.id # r.id
      BY <1>1, <3>1 DEF PosedInOrder
    <3>3. s.id = request[s.flow] => signal[s.flow] = NoSignal
      BY <1>1, <3>1 DEF PosedInOrder
    <3>4. QED BY <1>3, <1>6, <3>1, <3>2, <3>3
  <2>2. QED BY <1>1, <1>5, <2>1 DEF PosedInOrder
<1>13. TokensInOrder'
  <2>1. Unpublished'
    BY <1>1, <1>5 DEF TokensInOrder, Unpublished
  <2>2. \A g \in Cast : g # k => (Renewing(g)' <=> Renewing(g))
    BY <1>5, <1>6, Flows DEF Renewing
  <2>3. ok /\ r.step = "start" /\ k \in Cast => Renewing(k)'
    BY <1>1, <1>5, <1>6, <1>8 DEF PosedInOrder, Renewing
  <2>4. ASSUME NEW g \in Cast, Renewing(g)'
        PROVE  session[g] \in valid'
    <3>1. CASE g = k
      <4>1. r.step = at[k] /\ r.session = session[k] /\ signal'[k].ok = ok
        BY <1>1, <1>6, <1>8, <3>1 DEF PosedInOrder
      <4>2. ok /\ r.step = "start"
        BY <1>2, <1>5, <2>4, <3>1, <4>1 DEF Renewing, Steps
      <4>3. QED BY <1>4, <3>1, <4>1, <4>2
    <3>2. CASE g # k
      <4>1. Renewing(g) /\ at[g] \in {"start", "open", "save"}
        BY <1>5, <2>2, <2>4, <3>2 DEF Renewing
      <4>2. session[g] \in valid /\ session[g] # None
        BY <1>1, <4>1, Flows DEF TokensInOrder, FlowsInOrder, FlowInOrder
      <4>3. session[g] # r.token
        <5>1. CASE k \in Cast
          BY <1>1, <1>2, <1>8, <4>1, <4>2, <5>1 DEF TokensInOrder, Unpublished
        <5>2. CASE k \in Input
          BY <1>1, <4>2, <5>2 DEF PosedInOrder
        <5>3. QED BY <1>2, <5>1, <5>2, Flows
      <4>4. QED BY <1>4, <4>2, <4>3
    <3>3. QED BY <3>1, <3>2
  <2>5. ASSUME ~lost, file # None
        PROVE  file \in valid' \/ \E g \in Cast : Renewing(g)'
    <3>1. CASE file \in valid
      <4>1. CASE ok /\ r.step = "start" /\ r.token = file
        <5>1. k \in Cast
          BY <1>1, <1>2, <2>5, <4>1, Flows DEF PosedInOrder
        <5>2. QED BY <2>3, <4>1, <5>1
      <4>2. CASE ~(ok /\ r.step = "start" /\ r.token = file)
        BY <1>4, <3>1, <4>2
      <4>3. QED BY <4>1, <4>2
    <3>2. CASE \E g \in Cast : Renewing(g)
      <4>1. PICK g \in Cast : Renewing(g)
        BY <3>2
      <4>2. QED BY <1>8, <2>2, <4>1
    <3>3. QED BY <1>1, <2>5, <3>1, <3>2 DEF TokensInOrder
  <2>6. QED BY <1>5, <2>1, <2>4, <2>5 DEF TokensInOrder
<1>14. QED
  <2>1. CastHearsEveryAnswer'
    BY <1>1, <1>8 DEF CastHearsEveryAnswer, Answer
  <2>2. QED BY <1>9, <1>10, <1>11, <1>12, <1>13, <2>1 DEF PortalInv

-----------------------------------------------------------------------------
(* The specification *)

\* Before the first conversation there is nothing to keep apart.
LEMMA InitInv == Init => PortalInv
<1> SUFFICES ASSUME Init PROVE PortalInv
  OBVIOUS
<1>1. None \in Ids /\ None \in Tokens /\ NoSignal \in [id : Ids, ok : BOOLEAN]
  BY DEF Ids, Tokens, NoSignal
<1>2. TypeOK
  <2>1. /\ at \in [Flow -> Steps \cup {"idle", "open", "save", "ready"}]
        /\ phase \in [Flow -> {"new", "subscribed", "called", "waiting"}]
        /\ request \in [Flow -> Ids] /\ path \in [Flow -> Ids] /\ session \in [Flow -> Ids]
    BY <1>1 DEF Init
  <2>2. /\ signal \in [Flow -> [id : Ids, ok : BOOLEAN]]
        /\ using \in [Flow -> Ids] /\ again \in [Flow -> BOOLEAN]
        /\ asked \in [Flow -> 0..MaxAsked]
    BY <1>1, Flows DEF Init
  <2>3. QED BY <1>1, <2>1, <2>2 DEF Init, TypeOK
<1>3. IdsAreOwn
  BY <1>1 DEF Init, IdsAreOwn
<1>4. FlowsInOrder
  BY DEF Init, FlowsInOrder, FlowInOrder, NoSignal
<1>5. PosedInOrder /\ TokensInOrder /\ CastHearsEveryAnswer
  BY Flows DEF Init, PosedInOrder, TokensInOrder, Unpublished, Renewing, CastHearsEveryAnswer
<1>6. QED BY <1>2, <1>3, <1>4, <1>5 DEF PortalInv

\* Every step of a flow or of the portal keeps the invariant.
LEMMA NextInv == PortalInv /\ [NextStep]_vars => PortalInv'
<1> SUFFICES ASSUME PortalInv, [NextStep]_vars PROVE PortalInv'
  OBVIOUS
<1>1. running \subseteq Flow
  BY PortalAssumption DEF PortalInv, TypeOK, Flow
<1>2. ASSUME NEW f \in running, StartCast(f) \/ Prepare(f) \/ FlowStep(f) \/ EndCast(f)
      PROVE  PortalInv'
  <2>1. f \in Flow
    BY <1>1
  <2>2. CASE Asks(f)
    BY <2>1, <2>2, AsksAreAsked, AskedInv
  <2>3. CASE Advance(f)
    BY <2>1, <2>3, AdvanceInv
  <2>4. CASE OpenRemote(f) \/ SaveToken(f)
    BY <2>1, <2>4, SaveInv
  <2>5. CASE \/ StartCast(f) \/ Prepare(f) \/ EndCast(f) \/ CallFails(f) \/ Refused(f)
             \/ TimesOut(f) \/ Unusable(f) \/ OpenRemoteFails(f)
    BY <2>1, <2>5, Restarts, RestartedInv
  <2>6. QED BY <1>2, <2>2, <2>3, <2>4, <2>5 DEF FlowStep, CallReturns, GoesOn, Asks
<1>3. ASSUME NEW r \in posed, Answer(r)
      PROVE  PortalInv'
  BY <1>3, AnswerInv
<1>4. CASE UNCHANGED vars
  BY <1>4 DEF vars, flows, portal, PortalInv, TypeOK, IdsAreOwn, FlowsInOrder, FlowInOrder,
     PosedInOrder, TokensInOrder, Unpublished, Renewing, CastHearsEveryAnswer, Issued, Tokens,
     Asking
<1>5. QED BY <1>2, <1>3, <1>4 DEF NextStep

\* The invariant holds of every reachable state.
THEOREM Invariance == Spec => []PortalInv
  BY InitInv, NextInv, PTL DEF Spec

-----------------------------------------------------------------------------
(* What the invariant gives *)

\* An answer of the portal to a screen cast is received, also when it comes before the
\* call has returned: subscribe_portal_request runs before the call (screen.rs).
THEOREM Heard == Spec => []CastHearsEveryAnswer
<1>1. PortalInv => CastHearsEveryAnswer
  BY DEF PortalInv
<1>2. QED BY <1>1, Invariance, PTL

\* A flow takes only the answer to its own last request, and ends with a session that
\* the portal started; late answers to requests it gave up do not count.
THEOREM Own == Spec => []AnswersAreOwn
<1>1. PortalInv => AnswersAreOwn
  BY DEF PortalInv, FlowsInOrder, FlowInOrder, AnswersAreOwn
<1>2. QED BY <1>1, Invariance, PTL

\* Once no screen cast is being set up, the restore token on file was not used yet, in
\* whatever order any number of them loaded, used and saved theirs, unless one was lost.
THEOREM Current == Spec => []SavedTokenIsCurrent
<1>1. PortalInv => SavedTokenIsCurrent
  BY DEF PortalInv, TokensInOrder, Renewing, SavedTokenIsCurrent
<1>2. QED BY <1>1, Invariance, PTL
=============================================================================
