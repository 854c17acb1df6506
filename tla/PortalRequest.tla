---------------------------- MODULE PortalRequest ---------------------------
(***************************************************************************)
(* Conversations with the desktop portal: PortalScreenCastSession::start   *)
(* with the retry and the restore token of run_portal_stream               *)
(* (src/screen.rs), and prepare of the RemoteDesktop backend with          *)
(* wait_request (src/input.rs).  Each is three requests, whose answers     *)
(* come as signals, perhaps before the call that asked has returned, after *)
(* somebody answered a dialog, or never.  The portal is external.          *)
(***************************************************************************)
EXTENDS Naturals, FiniteSets

CONSTANTS
    Cast,       \* screen cast producers
    Input,      \* the RemoteDesktop backend, if it is the one in use
    Together,   \* bound: groups of flows to look at; different groups share nothing
    MaxAsked    \* bound: requests of a flow

ASSUME PortalAssumption == Cast \cap Input = {} /\ Together \subseteq SUBSET (Cast \cup Input) /\ MaxAsked \in Nat

VARIABLES
    running,   \* the flows of this behaviour
    at,        \* the request a flow is at, or where it ended
    phase,     \* how far it got with this request
    request,   \* the token of the request, unique
    path,      \* the request path it is subscribed to, or None
    signal,    \* the Response received on this subscription
    session,   \* the session the portal created, named after the request, or None
    using,     \* the restore token passed to SelectSources, or None
    again,     \* this is the attempt after a failed one
    file,      \* portal_restore_token.json, or None
    asked,     \* requests each flow made
    posed,     \* the portal: requests without an answer
    approved,  \* the portal: sessions that were started
    valid,     \* the portal: restore tokens that were not used
    missed,    \* history: flows whose answer was sent while nobody listened
    lost       \* history: a token that the portal gave did not reach the file

flows == <<at, phase, request, path, signal, session, using, again>>
portal == <<asked, posed, approved, valid>>
vars == <<running, flows, file, portal, missed, lost>>

Flow == Cast \cup Input
None == <<>>
Ids == (Flow \X (1..MaxAsked)) \cup {None}
Steps == {"create", "select", "start"}
Requests == [flow : Flow, id : Ids, step : Steps, session : Ids, token : Ids]
NoSignal == [id |-> None, ok |-> FALSE]

TypeOK ==
    /\ at \in [Flow -> Steps \cup {"idle", "open", "save", "ready"}]
    /\ phase \in [Flow -> {"new", "subscribed", "called", "waiting"}]
    /\ request \in [Flow -> Ids] /\ path \in [Flow -> Ids] /\ session \in [Flow -> Ids]
    /\ signal \in [Flow -> [id : Ids, ok : BOOLEAN]]
    /\ using \in [Flow -> Ids] /\ again \in [Flow -> BOOLEAN]
    /\ running \in Together /\ file \in Ids /\ asked \in [Flow -> 0..MaxAsked]
    /\ posed \subseteq Requests /\ approved \subseteq Ids /\ valid \subseteq Ids
    /\ missed \subseteq Flow /\ lost \in BOOLEAN

Init ==
    /\ at = [f \in Flow |-> "idle"] /\ phase = [f \in Flow |-> "new"]
    /\ request = [f \in Flow |-> None] /\ path = [f \in Flow |-> None]
    /\ signal = [f \in Flow |-> NoSignal] /\ session = [f \in Flow |-> None]
    /\ using = [f \in Flow |-> None] /\ again = [f \in Flow |-> FALSE]
    /\ running \in Together /\ file = None /\ asked = [f \in Flow |-> 0]
    /\ posed = {} /\ approved = {} /\ valid = {}
    /\ missed = {} /\ lost = FALSE

Set(g, f, value) == [g EXCEPT ![f] = value]

-----------------------------------------------------------------------------
(* One request: a token, the call, the subscription, the answer *)

\* The next request; its token is new.
Next(f, step) == at' = Set(at, f, step) /\ phase' = Set(phase, f, "new")

Asking(f) == at[f] \in Steps

\* portal_token, unique_token.
NewToken(f) ==
    /\ asked[f] < MaxAsked /\ asked' = [asked EXCEPT ![f] = @ + 1]
    /\ request' = Set(request, f, <<f, asked'[f]>>)

\* Mutant of EarlyFlows: nobody subscribes before the call.
EarlyNobody == {}

\* subscribe_portal_request before the call; wait_request subscribes after it.
EarlyFlows == Cast

\* Mutant of Listens: the path is the same for every request of a step.
ListensToStep(f, r) == path[f] # None /\ r.flow = f /\ r.step = at[f]

\* The signal of a request reaches the one subscription to its path.
Listens(f, r) == path[f] = r.id

\* subscribe_portal_request, to the path of a request that is yet to be made.
SubscribeFirst(f) ==
    /\ Asking(f) /\ f \in EarlyFlows /\ phase[f] = "new"
    /\ NewToken(f)
    /\ path' = Set(path, f, request'[f]) /\ signal' = Set(signal, f, NoSignal)
    /\ phase' = Set(phase, f, "subscribed")
    /\ UNCHANGED <<running, at, session, using, again, file, posed, approved, valid, missed, lost>>

\* SelectSources passes the restore token; the portal uses it when the session starts.
Pose(f, id) ==
    posed' = posed \cup {[flow |-> f, id |-> id, step |-> at[f], session |-> session[f],
                          token |-> using[f]]}

CallSubscribed(f) ==
    /\ Asking(f) /\ f \in EarlyFlows /\ phase[f] = "subscribed"
    /\ Pose(f, request[f]) /\ phase' = Set(phase, f, "waiting")
    /\ UNCHANGED <<running, at, request, path, signal, session, using, again, file,
                   asked, approved, valid, missed, lost>>

\* prepare: the portal has the request before wait_request runs.
CallFirst(f) ==
    /\ Asking(f) /\ f \notin EarlyFlows /\ phase[f] = "new"
    /\ NewToken(f)
    /\ Pose(f, request'[f]) /\ phase' = Set(phase, f, "called")
    /\ UNCHANGED <<running, at, path, signal, session, using, again, file, approved, valid, missed, lost>>

\* wait_request, with the path that the call returned.
WaitRequest(f) ==
    /\ Asking(f) /\ f \notin EarlyFlows /\ phase[f] = "called"
    /\ path' = Set(path, f, request[f]) /\ signal' = Set(signal, f, NoSignal)
    /\ phase' = Set(phase, f, "waiting")
    /\ UNCHANGED <<running, at, request, session, using, again, file, portal, missed, lost>>

\* The Response of a request with result 0: on to the next request.
Advance(f) ==
    /\ Asking(f) /\ phase[f] = "waiting" /\ signal[f].ok
    /\ session' = IF at[f] = "create" THEN Set(session, f, signal[f].id) ELSE session
    /\ Next(f, CASE at[f] = "create" -> "select"
                 [] at[f] = "select" -> "start"
                 [] at[f] = "start" -> IF f \in Cast THEN "open" ELSE "ready")
    /\ path' = Set(path, f, None) /\ signal' = Set(signal, f, NoSignal)
    /\ UNCHANGED <<running, request, using, again, file, portal, missed, lost>>

-----------------------------------------------------------------------------
(* Beginning and end of a conversation *)

\* A flow begins with what is on file; `?` of the flow's first lines has no effect.
Begin(f, token, retry) ==
    /\ Next(f, "create")
    /\ using' = Set(using, f, token) /\ again' = Set(again, f, retry)
    /\ session' = Set(session, f, None)

Quiet(f) ==
    /\ path' = Set(path, f, None) /\ signal' = Set(signal, f, NoSignal)
    /\ request' = Set(request, f, None)

\* run_portal_stream begins, or prepare without a session.
StartCast(f) ==
    /\ f \in Cast /\ at[f] = "idle"
    /\ Begin(f, file, FALSE) /\ Quiet(f)
    /\ UNCHANGED <<running, file, portal, missed, lost>>

Prepare(f) ==
    /\ f \in Input /\ at[f] = "idle"
    /\ Begin(f, None, FALSE) /\ Quiet(f)
    /\ UNCHANGED <<running, file, portal, missed, lost>>

\* The connection to the bus goes with the failed attempt, and the portal forgets it.
Forget(f) == posed' = {r \in posed : r.flow # f}

\* The error is returned, and the flow may be begun anew.
GiveUp(f) ==
    /\ Next(f, "idle") /\ session' = Set(session, f, None)
    /\ using' = Set(using, f, None) /\ again' = Set(again, f, FALSE)

\* Once more without a token, if there is one on file now.
FailCast(f) ==
    /\ f \in Cast /\ Forget(f)
    /\ IF again[f] \/ file = None THEN GiveUp(f) ELSE Begin(f, None, TRUE)

\* Once more with a backend made anew from the capabilities, which may be another one;
\* after that the backend stays, and with it its connection.
FailInput(f) ==
    /\ f \in Input
    /\ \/ again[f] /\ GiveUp(f) /\ UNCHANGED posed
       \/ ~again[f] /\ (GiveUp(f) \/ Begin(f, None, TRUE)) /\ Forget(f)

Fail(f) ==
    /\ FailCast(f) \/ FailInput(f)
    /\ Quiet(f)
    /\ UNCHANGED <<running, file, asked, approved, valid, missed>>

\* The call, or the subscription before it, returns an error.
CallFails(f) ==
    /\ Asking(f) /\ phase[f] = IF f \in EarlyFlows THEN "subscribed" ELSE "new"
    /\ Fail(f)
    /\ UNCHANGED lost

\* Denied or cancelled.
Refused(f) ==
    /\ Asking(f) /\ phase[f] = "waiting" /\ signal[f] # NoSignal /\ ~signal[f].ok
    /\ Fail(f)
    /\ UNCHANGED lost

\* Mutant of TimesOut: no deadline.
WaitsForEver(f) == FALSE /\ UNCHANGED vars

\* 60 seconds for the screen cast, 120 for the input backend.
TimesOut(f) ==
    /\ Asking(f) /\ phase[f] = "waiting" /\ signal[f] = NoSignal
    /\ Fail(f)
    /\ UNCHANGED lost

\* Approved, but without a stream, or without a keyboard or a pointer.
Unusable(f) ==
    /\ at[f] = "start" /\ phase[f] = "waiting" /\ signal[f].ok
    /\ Fail(f)
    /\ lost' = (lost \/ f \in Cast)

\* Mutant of Saved: the token that was presented is written again.
SavedAgain(f) == IF using[f] # None THEN using[f] ELSE session[f]

\* The token in the response of Start, here named after its session.
Saved(f) == session[f]

\* OpenPipeWireRemote.
OpenRemote(f) ==
    /\ at[f] = "open"
    /\ Next(f, "save")
    /\ UNCHANGED <<running, request, path, signal, session, using, again, file, portal, missed, lost>>

\* It fails: the new token is dropped with the error.
OpenRemoteFails(f) ==
    /\ at[f] = "open"
    /\ Fail(f)
    /\ lost' = TRUE

\* save_portal_restore_token, which truncates the file and writes it; it may fail, or
\* the portal gave no token, and the stream goes on.
SaveToken(f) ==
    /\ at[f] = "save"
    /\ Next(f, "ready")
    /\ \/ file' = Saved(f) /\ UNCHANGED lost
       \/ file' \in {file, None} /\ lost' = TRUE
    /\ UNCHANGED <<running, request, path, signal, session, using, again, portal, missed>>

\* The stream ends: Drop closes the session.
EndCast(f) ==
    /\ f \in Cast /\ at[f] = "ready"
    /\ Next(f, "idle") /\ Quiet(f)
    /\ session' = Set(session, f, None) /\ using' = Set(using, f, None)
    /\ again' = Set(again, f, FALSE)
    /\ UNCHANGED <<running, file, portal, missed, lost>>

-----------------------------------------------------------------------------
(* The portal (external) *)

\* A request is answered once; a signal without a subscription is lost.  Starting a
\* session with a restore token uses it up, and yields a new one.
Answer(r) ==
    /\ posed' = posed \ {r}
    /\ \E ok \in BOOLEAN :
        /\ signal' = [f \in Flow |-> IF Listens(f, r) THEN [id |-> r.id, ok |-> ok] ELSE signal[f]]
        /\ IF ok /\ r.step = "start"
           THEN /\ approved' = approved \cup {r.session}
                /\ valid' = (valid \ {r.token}) \cup {r.session}
           ELSE UNCHANGED <<approved, valid>>
    /\ missed' = IF request[r.flow] = r.id /\ ~Listens(r.flow, r) THEN missed \cup {r.flow}
                 ELSE missed
    /\ UNCHANGED <<running, at, phase, request, path, session, using, again, file, asked, lost>>

-----------------------------------------------------------------------------
\* The flow awaits a method call of the portal, which has no timeout.
InCall(f) == \/ Asking(f) /\ phase[f] = IF f \in EarlyFlows THEN "subscribed" ELSE "new"
             \/ at[f] = "open"

\* The call returns.
CallReturns(f) == \/ CallSubscribed(f) \/ CallFirst(f) \/ OpenRemote(f)
                  \/ CallFails(f) \/ OpenRemoteFails(f)

\* What the flow does itself, and its deadline for the Response.
GoesOn(f) == \/ SubscribeFirst(f) \/ WaitRequest(f) \/ Advance(f)
             \/ Refused(f) \/ Unusable(f) \/ TimesOut(f) \/ SaveToken(f)

FlowStep(f) == CallReturns(f) \/ GoesOn(f)

NextStep ==
    \/ \E f \in running : StartCast(f) \/ Prepare(f) \/ FlowStep(f) \/ EndCast(f)
    \/ \E r \in posed : Answer(r)

\* The flow goes on and its deadlines pass; the bus answers a subscription.  Nothing is
\* assumed of the portal, not even that a method call returns.
Spec == Init /\ [][NextStep]_vars /\ \A f \in Flow : WF_vars(GoesOn(f))

-----------------------------------------------------------------------------
(* Properties *)

\* An answer that the portal sends is received, also when it comes before the call
\* has returned: the screen cast does not wait out its minute for something that
\* already happened.
CastHearsEveryAnswer == missed \cap Cast = {}

\* The same of the input backend.  TLC finds it violated: it subscribes after the call.
InputHearsEveryAnswer == missed \cap Input = {}

\* A flow goes on only with a session that the portal created for this very attempt
\* and, in the end, started: the late answer to an abandoned request is not taken for
\* the answer to a later one.  (And the state is well typed.)
AnswersAreOwn ==
    TypeOK /\ \A f \in Flow :
        /\ signal[f] # NoSignal => signal[f].id = request[f]
        /\ at[f] \in {"open", "save", "ready"} => session[f] \in approved

\* Once a session was approved the token on file can be used: when no screen cast is
\* being set up, the portal has not seen it, however two of them overlapped.  (Unless
\* a token was lost: then the one on file is used up, and the next start fails once.)
SavedTokenIsCurrent ==
    (\A f \in Cast : at[f] \in {"idle", "ready"}) /\ ~lost /\ file # None => file \in valid

\* Every attempt comes to an end, whatever the user answers and whichever Response never
\* comes; only a method call that does not return holds one for good (proxy.call has no
\* deadline, await_portal_response and wait_request have).
AttemptsEnd ==
    \A f \in Flow : (at[f] \notin {"idle", "ready"})
                        ~> (at[f] \in {"idle", "ready"} \/ asked[f] = MaxAsked \/ []InCall(f))
=============================================================================
