---------------------------- MODULE SignalClient ----------------------------
(***************************************************************************)
(* The client of the rendezvous server (src/signal.rs): a handle with two  *)
(* unbounded queues and a task that registers, relays, and registers again *)
(* after every drop.  The server and the network are external: the server  *)
(* follows its protocol, except for MaxFaults refusals, broken messages,   *)
(* closed or half-open connections and late answers.                       *)
(***************************************************************************)
EXTENDS Naturals, Sequences, FiniteSets

CONSTANTS
    Session,        \* sessions that phones open; an id is never used again
    ReconnectMin,   \* RECONNECT_MIN, in seconds
    ReconnectMax,   \* RECONNECT_MAX
    MaxSends,       \* bound: messages the application hands over
    MaxPending,     \* bound: server messages and events not yet read
    MaxFaults       \* bound: faults of the server and of the network

ASSUME BackoffAssumption ==
    /\ ReconnectMin \in Nat \ {0} /\ ReconnectMax \in Nat
    /\ ReconnectMin <= ReconnectMax
    /\ MaxSends \in Nat /\ MaxPending \in Nat /\ MaxFaults \in Nat

VARIABLES
    handle,       \* the application still has its SignalClient
    outbound,     \* messages handed over and not taken
    handed,       \* messages handed over so far, numbered from 1
    events,       \* events sent and not read
    view,         \* what the application concludes from the events it read
    pc,           \* where the task is
    backoff,      \* seconds until the next attempt
    link,         \* the connection: a dead one is half open, nobody was told
    inbox,        \* server messages that arrived and were not read
    served,       \* the server: sessions open with this registration
    opened,       \* the server: sessions opened so far
    delivered,    \* messages that reached the server
    disconnects,  \* history: Disconnected events
    faults        \* faults so far

app == <<handle, outbound, handed, events, view>>
task == <<pc, backoff, disconnects>>
server == <<link, inbox, served, opened, delivered>>
vars == <<app, task, server, faults>>

PcState == {"connecting", "challenge", "proof", "relaying", "sleeping"}

Messages == [n : 1..MaxSends, session : Session]

\* ServerMessage as the client tells them apart; an unreadable one, a closed connection.
Plain(type) == [type |-> type]
About(type, s) == [type |-> type, session |-> s]
ServerMessages ==
    [type : {"welcome", "challenge", "registered", "error", "pong", "garbage", "close"}]
        \cup [type : {"peer_joined", "signal", "peer_left"}, session : Session]

SignalEvents ==
    [type : {"registered", "disconnected"}]
        \cup [type : {"peer_joined", "signal", "peer_left"}, session : Session]

View == [registered : BOOLEAN, sessions : SUBSET Session]

\* Well typed; the wait before an attempt stays within its limits, and the task has a
\* connection exactly while it registers or relays.
TypeOK ==
    /\ handle \in BOOLEAN
    /\ outbound \in Seq(Messages)
    /\ handed \in 0..MaxSends
    /\ events \in Seq(SignalEvents)
    /\ view \in View
    /\ pc \in PcState
    /\ backoff \in ReconnectMin..ReconnectMax
    /\ link \in {"down", "up", "dead"} /\ (link = "down" <=> pc \in {"connecting", "sleeping"})
    /\ inbox \in Seq(ServerMessages)
    /\ served \subseteq opened /\ opened \subseteq Session
    /\ delivered \in Seq(Messages)
    /\ disconnects \in Nat /\ faults \in 0..MaxFaults

Init ==
    /\ handle = TRUE /\ outbound = <<>> /\ handed = 0 /\ events = <<>>
    /\ view = [registered |-> FALSE, sessions |-> {}]
    /\ pc = "connecting" /\ backoff = ReconnectMin /\ disconnects = 0
    /\ link = "down" /\ inbox = <<>> /\ served = {} /\ opened = {} /\ delivered = <<>>
    /\ faults = 0

-----------------------------------------------------------------------------
(* The application and its handle *)

\* What an event changes in the application's view.
Apply(v, e) ==
    CASE e.type = "registered" -> [v EXCEPT !.registered = TRUE]
      [] e.type = "disconnected" -> [registered |-> FALSE, sessions |-> {}]
      [] e.type = "peer_joined" -> [v EXCEPT !.sessions = @ \cup {e.session}]
      [] e.type = "peer_left" -> [v EXCEPT !.sessions = @ \ {e.session}]
      [] e.type = "signal" -> v

\* send_signal and leave: queued whether or not there is a connection.
SendSignal(s) ==
    /\ handle /\ handed < MaxSends /\ s \in view.sessions
    /\ handed' = handed + 1
    /\ outbound' = Append(outbound, [n |-> handed', session |-> s])
    /\ UNCHANGED <<handle, events, view, task, server, faults>>

NextEvent ==
    /\ events # <<>>
    /\ view' = Apply(view, Head(events))
    /\ events' = Tail(events)
    /\ UNCHANGED <<handle, outbound, handed, task, server, faults>>

\* Both ends that the application holds go away; what is queued stays.
DropClient ==
    /\ handle
    /\ handle' = FALSE
    /\ events' = <<>>
    /\ UNCHANGED <<outbound, handed, view, task, server, faults>>

-----------------------------------------------------------------------------
(* run_forever *)

\* `let _ = events.send(..)`: nobody listens once the handle is gone.
Event(e) == events' = IF handle THEN Append(events, e) ELSE events

CloseLink == link' = "down" /\ inbox' = <<>> /\ served' = {}

\* run_session returned an error.
Fail ==
    /\ pc' = "sleeping"
    /\ disconnects' = disconnects + 1
    /\ Event(Plain("disconnected"))
    /\ CloseLink
    /\ UNCHANGED <<handle, handed, view, backoff, opened>>

NextBackoff(b) == IF 2 * b < ReconnectMax THEN 2 * b ELSE ReconnectMax

\* sleep(backoff), and the next attempt waits longer, whatever ended this one.
Wake ==
    /\ pc = "sleeping"
    /\ pc' = "connecting"
    /\ backoff' = NextBackoff(backoff)
    /\ UNCHANGED <<app, disconnects, server, faults>>

-----------------------------------------------------------------------------
(* run_session and register *)

Fault == faults < MaxFaults /\ faults' = faults + 1

\* connect_async, then Register is sent.
Connect ==
    /\ pc = "connecting"
    /\ pc' = "challenge" /\ link' = "up"
    /\ UNCHANGED <<app, backoff, disconnects, inbox, served, opened, delivered, faults>>

ConnectFails ==
    /\ pc = "connecting"
    /\ Fault /\ Fail
    /\ UNCHANGED <<outbound, delivered>>

\* Mutant of RegisterTimesOut: no deadline while registering.
RegisterForEver == FALSE /\ UNCHANGED vars

\* HANDSHAKE_TIMEOUT around register; an answer may also just be late.
RegisterTimesOut ==
    /\ pc \in {"challenge", "proof"}
    /\ \/ link = "dead" /\ UNCHANGED faults
       \/ link = "up" /\ Fault
    /\ Fail
    /\ UNCHANGED <<outbound, delivered>>

\* What each message means in the two loops of register.
Registering(type) ==
    CASE pc = "challenge" /\ type = "welcome" -> "challenge"
      [] pc = "challenge" /\ type = "challenge" -> "proof"
      [] pc = "proof" /\ type \in {"welcome", "pong"} -> "proof"
      [] pc = "proof" /\ type = "registered" -> "relaying"
      [] OTHER -> "failed"

\* Mutant of Registered: the event is sent with the proof.
RegisteredEarly(next) ==
    IF pc = "challenge" /\ next = "proof" THEN Event(Plain("registered")) ELSE UNCHANGED events

\* The event is sent once the server confirmed.
Registered(next) ==
    IF next = "relaying" THEN Event(Plain("registered")) ELSE UNCHANGED events

ExpectMessage ==
    /\ pc \in {"challenge", "proof"} /\ inbox # <<>>
    /\ LET next == Registering(Head(inbox).type)
       IN  \/ /\ next = "failed" /\ Fail
              /\ UNCHANGED <<outbound, delivered, faults>>
           \/ /\ next # "failed"
              /\ pc' = next /\ inbox' = Tail(inbox) /\ Registered(next)
              /\ UNCHANGED <<handle, outbound, handed, view, backoff, disconnects,
                             link, served, opened, delivered, faults>>

-----------------------------------------------------------------------------
(* run_session: the select loop *)

\* Mutant of Ends: an error reported for one request ends the registration.
EndsOnError(type) == type \in {"garbage", "close", "error"}

\* Text that cannot be parsed, or the end of the connection.
Ends(type) == type \in {"garbage", "close"}

\* Mutant of Decoded: the end of a session is taken for a transport message.
DecodedNoLeave(type) == type \in {"peer_joined", "signal"}

\* decode_event: the messages that become events.
Decoded(type) == type \in {"peer_joined", "signal", "peer_left"}

Receive ==
    /\ pc = "relaying" /\ inbox # <<>>
    /\ LET m == Head(inbox)
       IN  \/ /\ Ends(m.type) /\ Fail
              /\ UNCHANGED <<outbound, delivered, faults>>
           \/ /\ ~Ends(m.type)
              /\ inbox' = Tail(inbox)
              /\ IF Decoded(m.type) THEN Event(m) ELSE UNCHANGED events
              /\ UNCHANGED <<handle, outbound, handed, view, task,
                             link, served, opened, delivered, faults>>

\* The server knows the session or answers that it does not.
Deliver(m) ==
    /\ delivered' = Append(delivered, m)
    /\ inbox' = IF m.session \in served THEN inbox ELSE Append(inbox, Plain("error"))

\* outbound.recv() and a send that the socket takes: on a half-open one it is lost.
Relay ==
    /\ pc = "relaying" /\ outbound # <<>>
    /\ outbound' = Tail(outbound)
    /\ \/ link = "up" /\ Deliver(Head(outbound))
       \/ link = "dead" /\ UNCHANGED <<inbox, delivered>>
    /\ UNCHANGED <<handle, handed, events, view, task, link, served, opened, faults>>

\* Mutant of RelayFails: the message is put back, behind the others.
RelayFailsRequeued ==
    /\ pc = "relaying" /\ outbound # <<>> /\ link = "dead"
    /\ outbound' = Append(Tail(outbound), Head(outbound))
    /\ Fail
    /\ UNCHANGED <<delivered, faults>>

\* The message was taken from the queue before the send failed.
RelayFails ==
    /\ pc = "relaying" /\ outbound # <<>> /\ link = "dead"
    /\ outbound' = Tail(outbound)
    /\ Fail
    /\ UNCHANGED <<delivered, faults>>

\* Mutant of KeepaliveFails: no Ping on an idle connection.
NoKeepalive == FALSE /\ UNCHANGED vars

\* A Ping on a half-open connection: the network gives up on it at last.  A Ping
\* that is written changes nothing: the Pong is not waited for.
KeepaliveFails ==
    /\ pc = "relaying" /\ link = "dead"
    /\ Fail
    /\ UNCHANGED <<outbound, delivered, faults>>

\* outbound.recv() is None: the handle is gone and the queue empty.  The loop goes on.
HandleGone ==
    /\ pc = "relaying" /\ ~handle /\ outbound = <<>>
    /\ pc' = "sleeping" /\ backoff' = ReconnectMin
    /\ CloseLink
    /\ UNCHANGED <<app, disconnects, opened, delivered, faults>>

-----------------------------------------------------------------------------
(* The server and the network (external) *)

ServerSays(msgs) ==
    /\ link = "up" /\ Len(inbox) + Len(events) + Len(msgs) <= MaxPending
    /\ inbox' = inbox \o msgs
    /\ UNCHANGED <<app, task, link, delivered>>

\* Nothing is in flight that would close the connection.
Open == \A i \in 1..Len(inbox) : ~Ends(inbox[i].type)

\* The server confirmed this registration.
Published == pc = "relaying" \/ \E i \in 1..Len(inbox) : inbox[i].type = "registered"

AnswersRegister ==
    /\ pc = "challenge" /\ inbox = <<>>
    /\ \E msgs \in {<<Plain("challenge")>>, <<Plain("welcome"), Plain("challenge")>>} :
           ServerSays(msgs)
    /\ UNCHANGED <<served, opened, faults>>

AnswersProof ==
    /\ pc = "proof" /\ inbox = <<>>
    /\ \E msgs \in {<<Plain("registered")>>, <<Plain("pong"), Plain("registered")>>} :
           ServerSays(msgs)
    /\ UNCHANGED <<served, opened, faults>>

PeerJoins(s) ==
    /\ Open /\ Published /\ s \notin opened
    /\ ServerSays(<<About("peer_joined", s)>>)
    /\ served' = served \cup {s} /\ opened' = opened \cup {s}
    /\ UNCHANGED faults

PeerSignals(s) ==
    /\ Open /\ s \in served
    /\ ServerSays(<<About("signal", s)>>)
    /\ UNCHANGED <<served, opened, faults>>

PeerLeaves(s) ==
    /\ Open /\ s \in served
    /\ ServerSays(<<About("peer_left", s)>>)
    /\ served' = served \ {s}
    /\ UNCHANGED <<opened, faults>>

\* A rejection, a message out of place, an unreadable one, a closed connection.
ServerFails ==
    /\ Open /\ Fault
    /\ \/ \E type \in {"garbage", "close"} : ServerSays(<<Plain(type)>>)
       \/ /\ pc \in {"challenge", "proof"} /\ inbox = <<>>
          /\ \E m \in {Plain("error")} \cup {About("peer_joined", s) : s \in Session} :
                 ServerSays(<<m>>)
    /\ UNCHANGED <<served, opened>>

LinkDies ==
    /\ link = "up" /\ Open /\ Fault
    /\ link' = "dead"
    /\ UNCHANGED <<app, task, inbox, served, opened, delivered>>

-----------------------------------------------------------------------------
ApplicationStep == \/ \E s \in Session : SendSignal(s)
                   \/ NextEvent \/ DropClient

ServerStep == \/ AnswersRegister \/ AnswersProof
              \/ \E s \in Session : PeerJoins(s) \/ PeerSignals(s) \/ PeerLeaves(s)
              \/ ServerFails \/ LinkDies

Next == \/ Wake \/ Connect \/ ConnectFails \/ RegisterTimesOut \/ ExpectMessage
        \/ Receive \/ Relay \/ RelayFails \/ KeepaliveFails \/ HandleGone
        \/ ApplicationStep \/ ServerStep

\* The task goes on and its deadlines pass; a server that is there answers; a Ping
\* on a half-open connection fails some day.  Nothing is assumed of phones.
Fairness == /\ WF_vars(Wake) /\ WF_vars(Connect) /\ WF_vars(RegisterTimesOut)
            /\ WF_vars(ExpectMessage) /\ WF_vars(Receive) /\ SF_vars(Relay)
            /\ WF_vars(KeepaliveFails) /\ WF_vars(HandleGone) /\ WF_vars(NextEvent)
            /\ WF_vars(AnswersRegister) /\ WF_vars(AnswersProof)

Spec == Init /\ [][Next]_vars /\ Fairness

-----------------------------------------------------------------------------
(* Properties *)

\* The sessions that are known after some events, or messages that become events: of
\* what they say about a session, the last counts.
Opens(e, s) == e.type = "peer_joined" /\ e.session = s
Closes(e, s) == e.type = "disconnected" \/ (e.type = "peer_left" /\ e.session = s)
KnownAfter(sessions, es) ==
    {s \in Session :
        \/ s \in sessions /\ \A i \in 1..Len(es) : ~Closes(es[i], s)
        \/ \E i \in 1..Len(es) : Opens(es[i], s) /\ \A j \in i + 1..Len(es) : ~Closes(es[j], s)}

\* Whether the client is registered, likewise.
RegisteredAfter(registered, es) ==
    \/ registered /\ \A i \in 1..Len(es) : es[i].type # "disconnected"
    \/ \E i \in 1..Len(es) : /\ es[i].type = "registered"
                             /\ \A j \in i + 1..Len(es) : es[j].type # "disconnected"

\* What the application would know after reading every event sent so far.
SessionsWhenRead == KnownAfter(view.sessions, events)
RegisteredWhenRead == RegisteredAfter(view.registered, events)

\* The events tell a listening application the truth: it is Registered exactly while
\* the task relays, however often it reconnected in between, and the sessions it knows
\* of are those the server has open, once what is in flight has been read: no peer is
\* lost, none outlives a drop of the link.  (And the state is well typed.)
EventsTellTheTruth ==
    /\ TypeOK
    /\ handle => (RegisteredWhenRead <=> pc = "relaying")
    /\ handle /\ pc = "relaying" /\ Open => KnownAfter(SessionsWhenRead, inbox) = served

\* Messages reach the server in the order of the calls and at most once, also
\* across reconnects; a failed send may lose one.
RelayedInOrder ==
    \A i, j \in DOMAIN delivered : i < j => delivered[i].n < delivered[j].n

\* The registration is given up for a fault of the server or the network and for
\* nothing else; one that concerns a single request does not end it.
DropsNeedFaults == disconnects <= faults

\* The daemon does not stay unpublished: a dead connection is noticed, also when nobody
\* sends anything, and after every drop it registers again.
LinkComesBack ==
    (handle /\ link # "up") ~> (~handle \/ (pc = "relaying" /\ link = "up"))

\* "keeps it alive until the returned client is dropped": no attempt after that.  TLC
\* finds it violated: HandleGone ends the session, and the loop registers again.
DropEndsTheClient == [][~handle /\ pc = "sleeping" => pc' = "sleeping"]_vars

\* A message is sent only while its session is open.  TLC finds it violated: what was
\* queued for a session waits for the next registration, which does not know it.
NoStaleSignal ==
    [][delivered' # delivered => delivered'[Len(delivered')].session \in served]_vars
=============================================================================
