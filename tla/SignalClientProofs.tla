------------------------- MODULE SignalClientProofs -------------------------
(***************************************************************************)
(* The registration is given up for faults only, messages are relayed in   *)
(* order, and the events tell the application the truth: proofs about      *)
(* SignalClient for any number of sessions, messages and faults.           *)
(***************************************************************************)
EXTENDS SignalClient, SequenceTheorems, TLAPS

-----------------------------------------------------------------------------
(* The inductive invariant *)

\* What was handed over is numbered upwards: first what reached the server, then what
\* waits in the queue.
Rising(s) == \A i, j \in DOMAIN s : i < j => s[i].n < s[j].n

QueueInOrder ==
    /\ Rising(delivered) /\ Rising(outbound)
    /\ \A i \in DOMAIN delivered, j \in DOMAIN outbound : delivered[i].n < outbound[j].n
    /\ \A j \in DOMAIN outbound : outbound[j].n <= handed
    /\ \A i \in DOMAIN delivered : delivered[i].n <= handed

\* The connection cannot last: it is half open, or will end when what is in the inbox
\* has been read.
Misplaced == pc \in {"challenge", "proof"} /\ inbox # <<>> /\ inbox[1].type \in {"error", "peer_joined"}
Doomed == link = "dead" \/ ~Open \/ Misplaced

\* What the server sends in answer to Register and to the proof, as far as it was not read.
Confirms(s) == Len(s) > 0 /\ s[1].type = "registered"
Scripted ==
    /\ pc = "challenge" /\ inbox # <<>> =>
          \/ Len(inbox) = 1 /\ inbox[1].type = "challenge"
          \/ Len(inbox) = 2 /\ inbox[1].type = "welcome" /\ inbox[2].type = "challenge"
    /\ pc = "proof" /\ inbox # <<>> =>
          Confirms(inbox) \/ (inbox[1].type = "pong" /\ Confirms(Tail(inbox)))

\* Sessions are open only with a registration that the server confirmed.
Registrations ==
    /\ link = "down" => inbox = <<>> /\ served = {}
    /\ pc = "challenge" => \A i \in 1..Len(inbox) : inbox[i].type # "registered"
    /\ served # {} => Published

\* A registration that will be given up was hit by a fault that no drop accounts for.
FaultsAccountForDrops ==
    /\ disconnects <= faults
    /\ Doomed => disconnects < faults
    /\ Doomed \/ Scripted

ClientInv == TypeOK /\ QueueInOrder /\ Registrations /\ FaultsAccountForDrops

-----------------------------------------------------------------------------
(* Sequences *)

\* What taking the first element leaves.
LEMMA Rest ==
    ASSUME NEW S, NEW s \in Seq(S), s # <<>>
    PROVE  /\ Tail(s) \in Seq(S) /\ Head(s) \in S /\ Head(s) = s[1] /\ 1 \in DOMAIN s
           /\ Len(s) \in Nat \ {0} /\ Len(Tail(s)) = Len(s) - 1
           /\ \A i \in 1..Len(s) - 1 : Tail(s)[i] = s[i + 1]
           /\ DOMAIN s = 1..Len(s) /\ DOMAIN Tail(s) = 1..Len(s) - 1
  BY HeadTailProperties, LenProperties, EmptySeq

\* What a new last element adds.
LEMMA Longer ==
    ASSUME NEW S, NEW s \in Seq(S), NEW x \in S
    PROVE  /\ Append(s, x) \in Seq(S) /\ s \o <<x>> = Append(s, x)
           /\ Len(s) \in Nat /\ Len(Append(s, x)) = Len(s) + 1
           /\ \A i \in 1..Len(s) : Append(s, x)[i] = s[i]
           /\ Append(s, x)[Len(s) + 1] = x
           /\ DOMAIN s = 1..Len(s) /\ DOMAIN Append(s, x) = 1..Len(s) + 1
  BY AppendProperties, AppendIsConcat, LenProperties

-----------------------------------------------------------------------------
(* The queue *)

\* A queue without its first message.
LEMMA RisingRest ==
    ASSUME NEW s \in Seq(Messages), s # <<>>, Rising(s)
    PROVE  /\ Rising(Tail(s))
           /\ \A j \in DOMAIN Tail(s) : Head(s).n < Tail(s)[j].n
  BY Rest DEF Rising

\* A queue with one more message.
LEMMA RisingLonger ==
    ASSUME NEW s \in Seq(Messages), Rising(s), NEW m \in Messages,
           \A i \in DOMAIN s : s[i].n < m.n
    PROVE  Rising(Append(s, m))
  BY Longer DEF Rising

\* Messages keep their order on the way, and none is taken twice.
LEMMA QueueNext == TypeOK /\ QueueInOrder /\ [Next]_vars => QueueInOrder'
<1> SUFFICES ASSUME TypeOK, QueueInOrder, [Next]_vars PROVE QueueInOrder'
  OBVIOUS
<1>1. /\ outbound \in Seq(Messages) /\ delivered \in Seq(Messages) /\ handed \in Nat
      /\ \A m \in Messages : m.n \in Nat
  BY BackoffAssumption DEF TypeOK, Messages
<1>2. ASSUME NEW s \in Session, SendSignal(s)
      PROVE  QueueInOrder'
  <2> DEFINE m == [n |-> handed + 1, session |-> s]
  <2>1. m \in Messages /\ m.n = handed + 1 /\ outbound' = Append(outbound, m)
        /\ handed' = handed + 1 /\ delivered' = delivered
    BY <1>1, <1>2, BackoffAssumption DEF SendSignal, server, Messages
  <2>2. \A i \in DOMAIN outbound : outbound[i].n \in Nat /\ outbound[i].n < m.n
    BY <1>1, <2>1 DEF QueueInOrder
  <2>3. \A i \in DOMAIN delivered : delivered[i].n \in Nat /\ delivered[i].n < m.n
    BY <1>1, <2>1 DEF QueueInOrder
  <2>4. Rising(outbound')
    BY <1>1, <2>1, <2>2, RisingLonger DEF QueueInOrder
  <2>5. /\ DOMAIN outbound' = 1..Len(outbound) + 1 /\ outbound'[Len(outbound) + 1] = m
        /\ \A j \in DOMAIN outbound : outbound'[j] = outbound[j]
        /\ DOMAIN outbound = 1..Len(outbound) /\ Len(outbound) \in Nat
    BY <1>1, <2>1, Longer
  <2> HIDE DEF m
  <2>6. QED BY <2>1, <2>2, <2>3, <2>4, <2>5 DEF QueueInOrder
<1>3. ASSUME outbound # <<>>, outbound' = Tail(outbound), handed' = handed,
             delivered' = delivered \/ delivered' = Append(delivered, Head(outbound))
      PROVE  QueueInOrder'
  <2> DEFINE m == Head(outbound)
  <2>1. /\ m \in Messages /\ m = outbound[1] /\ 1 \in DOMAIN outbound
        /\ DOMAIN outbound = 1..Len(outbound) /\ DOMAIN outbound' = 1..Len(outbound) - 1
        /\ Len(outbound) \in Nat /\ \A j \in DOMAIN outbound' : outbound'[j] = outbound[j + 1]
    BY <1>1, <1>3, Rest
  <2>2. Rising(outbound') /\ \A j \in DOMAIN outbound' : m.n < outbound'[j].n
    BY <1>1, <1>3, RisingRest DEF QueueInOrder
  <2>3. \A i \in DOMAIN delivered : delivered[i].n < m.n
    BY <2>1 DEF QueueInOrder
  <2>4. \A j \in DOMAIN outbound' : j + 1 \in DOMAIN outbound
    BY <2>1
  <2>5. m.n <= handed /\ m.n \in Nat
    BY <1>1, <2>1 DEF QueueInOrder
  <2> HIDE DEF m
  <2>6. /\ \A j \in DOMAIN outbound' : outbound'[j].n <= handed'
        /\ \A i \in DOMAIN delivered, j \in DOMAIN outbound' : delivered[i].n < outbound'[j].n
    BY <1>3, <2>1, <2>4 DEF QueueInOrder
  <2>7. CASE delivered' = delivered
    BY <1>3, <2>2, <2>6, <2>7 DEF QueueInOrder
  <2>8. CASE delivered' = Append(delivered, m)
    <3>1. Rising(delivered')
      BY <1>1, <2>1, <2>3, <2>8, RisingLonger DEF QueueInOrder
    <3>2. \A i \in DOMAIN delivered' : delivered'[i] = m \/ (i \in DOMAIN delivered /\ delivered'[i] = delivered[i])
      BY <1>1, <2>1, <2>8, Longer
    <3>3. QED BY <1>3, <2>2, <2>5, <2>6, <3>1, <3>2 DEF QueueInOrder
  <2>9. QED BY <1>3, <2>7, <2>8 DEF m
<1>4. CASE Relay \/ RelayFails
  BY <1>3, <1>4 DEF Relay, RelayFails, Deliver, Fail
<1>5. CASE UNCHANGED <<outbound, delivered, handed>>
  BY <1>5 DEF QueueInOrder, Rising
<1>6. CASE UNCHANGED vars
  BY <1>5, <1>6 DEF vars, app, server
<1>7. CASE \/ Wake \/ Connect \/ ConnectFails \/ RegisterTimesOut \/ ExpectMessage
           \/ Receive \/ KeepaliveFails \/ HandleGone \/ NextEvent \/ DropClient
  BY <1>5, <1>7 DEF Wake, Connect, ConnectFails, RegisterTimesOut, ExpectMessage, Receive,
     KeepaliveFails, HandleGone, NextEvent, DropClient, Fail, app, server
<1>8. CASE ServerStep
  BY <1>5, <1>8 DEF ServerStep, AnswersRegister, AnswersProof, PeerJoins, PeerSignals,
     PeerLeaves, ServerFails, LinkDies, ServerSays, app
<1>9. QED BY <1>2, <1>4, <1>6, <1>7, <1>8 DEF Next, ApplicationStep

-----------------------------------------------------------------------------
(* Types *)

\* The messages and events that the actions name.
LEMMA MessageTypes ==
    /\ \A t \in {"welcome", "challenge", "registered", "error", "pong", "garbage", "close"} :
          Plain(t) \in ServerMessages
    /\ \A t \in {"registered", "disconnected"} : Plain(t) \in SignalEvents
    /\ \A t \in {"peer_joined", "signal", "peer_left"}, s \in Session :
          About(t, s) \in ServerMessages
    /\ \A m \in ServerMessages : Decoded(m.type) => m \in SignalEvents
  BY DEF Plain, About, ServerMessages, SignalEvents, Decoded

\* What the server sends to a client that registers.
LEMMA ShortAnswers ==
    /\ <<Plain("challenge")>> \in Seq(ServerMessages)
    /\ <<Plain("welcome"), Plain("challenge")>> \in Seq(ServerMessages)
    /\ <<Plain("registered")>> \in Seq(ServerMessages)
    /\ <<Plain("pong"), Plain("registered")>> \in Seq(ServerMessages)
<1>1. \A m \in ServerMessages : <<m>> \in Seq(ServerMessages)
  OBVIOUS
<1>2. \A l, m \in ServerMessages : <<l, m>> \in Seq(ServerMessages)
  OBVIOUS
<1>3. /\ Plain("challenge") \in ServerMessages /\ Plain("welcome") \in ServerMessages
      /\ Plain("registered") \in ServerMessages /\ Plain("pong") \in ServerMessages
  BY MessageTypes
<1>4. QED BY <1>1, <1>2, <1>3

\* An event changes the view into a view.
LEMMA ViewTypes ==
    ASSUME NEW v \in View, NEW e \in SignalEvents
    PROVE  Apply(v, e) \in View
<1>1. CASE e.type = "registered"
  BY <1>1 DEF View, Apply
<1>2. CASE e.type = "disconnected"
  BY <1>2 DEF View, Apply
<1>3. CASE e.type = "peer_joined"
  BY <1>3 DEF View, Apply, SignalEvents
<1>4. CASE e.type = "peer_left"
  BY <1>4 DEF View, Apply, SignalEvents
<1>5. CASE e.type = "signal"
  BY <1>5 DEF View, Apply
<1>6. QED BY <1>1, <1>2, <1>3, <1>4, <1>5 DEF SignalEvents

\* An event is sent as long as somebody may listen.
LEMMA EventTypes ==
    ASSUME TypeOK, NEW e \in SignalEvents, Event(e)
    PROVE  events' \in Seq(SignalEvents)
  BY Longer DEF TypeOK, Event

\* A session that failed.
LEMMA FailTypes ==
    ASSUME TypeOK, Fail, faults' \in 0..MaxFaults,
           outbound' \in Seq(Messages), delivered' \in Seq(Messages)
    PROVE  TypeOK'
<1>1. events' \in Seq(SignalEvents)
  BY EventTypes, MessageTypes DEF Fail
<1>2. inbox' \in Seq(ServerMessages) /\ served' \subseteq opened' /\ disconnects' \in Nat
  BY EmptySeq DEF TypeOK, Fail, CloseLink
<1>3. pc' \in PcState /\ link' \in {"down", "up", "dead"}
      /\ (link' = "down" <=> pc' \in {"connecting", "sleeping"})
  BY DEF Fail, CloseLink, PcState
<1>4. QED BY <1>1, <1>2, <1>3 DEF TypeOK, Fail

\* Steps of the application keep the state well typed.
LEMMA ApplicationTypes == TypeOK /\ ApplicationStep => TypeOK'
<1> SUFFICES ASSUME TypeOK, ApplicationStep PROVE TypeOK'
  OBVIOUS
<1>1. ASSUME NEW s \in Session, SendSignal(s)
      PROVE  TypeOK'
  <2>1. handed' \in 0..MaxSends /\ handed' = handed + 1
    BY <1>1, BackoffAssumption DEF SendSignal, TypeOK
  <2>2. [n |-> handed', session |-> s] \in Messages
    BY <2>1, BackoffAssumption DEF Messages, TypeOK
  <2>3. outbound' \in Seq(Messages)
    BY <1>1, <2>2, Longer DEF SendSignal, TypeOK
  <2>4. QED BY <1>1, <2>1, <2>3 DEF SendSignal, TypeOK, task, server
<1>2. CASE NextEvent
  <2>1. events' \in Seq(SignalEvents) /\ Head(events) \in SignalEvents
    BY <1>2, Rest DEF NextEvent, TypeOK
  <2>2. view' \in View
    BY <1>2, <2>1, ViewTypes DEF NextEvent, TypeOK
  <2>3. QED BY <1>2, <2>1, <2>2 DEF NextEvent, TypeOK, task, server
<1>3. CASE DropClient
  BY <1>3, EmptySeq DEF DropClient, TypeOK, task, server
<1>4. QED BY <1>1, <1>2, <1>3 DEF ApplicationStep

\* A fault is counted up to its bound.
LEMMA FaultTypes == TypeOK /\ Fault => faults' \in 0..MaxFaults /\ faults' = faults + 1
  BY BackoffAssumption DEF TypeOK, Fault

\* Steps of the server and of the network do.
LEMMA ServerTypes == TypeOK /\ ServerStep => TypeOK'
<1> SUFFICES ASSUME TypeOK, ServerStep PROVE TypeOK'
  OBVIOUS
<1>1. ASSUME NEW msgs \in Seq(ServerMessages), ServerSays(msgs),
             served' \subseteq opened', opened' \subseteq Session, faults' \in 0..MaxFaults
      PROVE  TypeOK'
  <2>1. inbox' \in Seq(ServerMessages)
    BY <1>1, ConcatProperties DEF ServerSays, TypeOK
  <2>2. QED BY <1>1, <2>1 DEF ServerSays, TypeOK, app, task
<1>2. CASE AnswersRegister
  <2>1. PICK msgs \in {<<Plain("challenge")>>, <<Plain("welcome"), Plain("challenge")>>} :
           ServerSays(msgs)
    BY <1>2 DEF AnswersRegister
  <2>2. msgs \in Seq(ServerMessages)
    BY ShortAnswers
  <2>3. QED BY <1>1, <1>2, <2>1, <2>2 DEF AnswersRegister, TypeOK
<1>3. CASE AnswersProof
  <2>1. PICK msgs \in {<<Plain("registered")>>, <<Plain("pong"), Plain("registered")>>} :
           ServerSays(msgs)
    BY <1>3 DEF AnswersProof
  <2>2. msgs \in Seq(ServerMessages)
    BY ShortAnswers
  <2>3. QED BY <1>1, <1>3, <2>1, <2>2 DEF AnswersProof, TypeOK
<1>4. ASSUME NEW s \in Session, PeerJoins(s) \/ PeerSignals(s) \/ PeerLeaves(s)
      PROVE  TypeOK'
  <2>1. \A t \in {"peer_joined", "signal", "peer_left"} : <<About(t, s)>> \in Seq(ServerMessages)
    BY MessageTypes
  <2>2. served' \subseteq opened' /\ opened' \subseteq Session /\ faults' = faults
    BY <1>4 DEF PeerJoins, PeerSignals, PeerLeaves, TypeOK
  <2>3. QED BY <1>1, <1>4, <2>1, <2>2 DEF PeerJoins, PeerSignals, PeerLeaves, TypeOK
<1>5. CASE ServerFails
  <2>1. PICK m \in ServerMessages : ServerSays(<<m>>)
    BY <1>5, MessageTypes DEF ServerFails
  <2>2. <<m>> \in Seq(ServerMessages)
    OBVIOUS
  <2>3. faults' \in 0..MaxFaults /\ served' = served /\ opened' = opened
    BY <1>5, FaultTypes DEF ServerFails
  <2>4. QED BY <1>1, <2>1, <2>2, <2>3 DEF TypeOK
<1>6. CASE LinkDies
  BY <1>6, FaultTypes DEF LinkDies, TypeOK, app, task
<1>7. QED BY <1>2, <1>3, <1>4, <1>5, <1>6 DEF ServerStep

\* Steps of the task do.
LEMMA TaskTypes ==
    TypeOK /\ (\/ Wake \/ Connect \/ ConnectFails \/ RegisterTimesOut \/ ExpectMessage
               \/ Receive \/ Relay \/ RelayFails \/ KeepaliveFails \/ HandleGone) => TypeOK'
<1> SUFFICES ASSUME TypeOK,
                    \/ Wake \/ Connect \/ ConnectFails \/ RegisterTimesOut \/ ExpectMessage
                    \/ Receive \/ Relay \/ RelayFails \/ KeepaliveFails \/ HandleGone
             PROVE  TypeOK'
  OBVIOUS
<1>1. CASE Wake
  <2>1. NextBackoff(backoff) \in ReconnectMin..ReconnectMax
    BY BackoffAssumption DEF NextBackoff, TypeOK
  <2>2. QED BY <1>1, <2>1 DEF Wake, TypeOK, PcState, app, server
<1>2. CASE Connect
  BY <1>2 DEF Connect, TypeOK, PcState, app
<1>3. CASE ConnectFails \/ RegisterTimesOut
  <2>1. faults' \in 0..MaxFaults /\ Fail /\ outbound' = outbound /\ delivered' = delivered
    BY <1>3, FaultTypes DEF ConnectFails, RegisterTimesOut, TypeOK
  <2>2. QED BY <2>1, FailTypes DEF TypeOK
<1>4. CASE ExpectMessage
  <2>1. CASE Fail
    BY <1>4, <2>1, FailTypes DEF ExpectMessage, TypeOK
  <2>2. CASE ~Fail
    <3> DEFINE next == Registering(Head(inbox).type)
    <3>1. /\ pc \in {"challenge", "proof"} /\ inbox # <<>> /\ next # "failed"
          /\ pc' = next /\ inbox' = Tail(inbox) /\ Registered(next)
          /\ UNCHANGED <<handle, outbound, handed, view, backoff, disconnects,
                         link, served, opened, delivered, faults>>
      BY <1>4, <2>2 DEF ExpectMessage
    <3>2. next \in {"challenge", "proof", "relaying"}
      BY <3>1 DEF Registering
    <3>3. inbox' \in Seq(ServerMessages)
      BY <3>1, Rest DEF TypeOK
    <3>4. events' \in Seq(SignalEvents)
      BY <3>1, EventTypes, MessageTypes DEF Registered, TypeOK
    <3> HIDE DEF next
    <3>5. QED BY <3>1, <3>2, <3>3, <3>4 DEF TypeOK, PcState
  <2>3. QED BY <2>1, <2>2
<1>5. CASE Receive
  <2>1. CASE Ends(Head(inbox).type)
    <3>1. Fail /\ UNCHANGED <<outbound, delivered, faults>>
      BY <1>5, <2>1 DEF Receive
    <3>2. QED BY <3>1, FailTypes DEF TypeOK
  <2>2. CASE ~Ends(Head(inbox).type)
    <3> DEFINE m == Head(inbox)
    <3>1. /\ inbox # <<>> /\ inbox' = Tail(inbox)
          /\ IF Decoded(m.type) THEN Event(m) ELSE UNCHANGED events
          /\ UNCHANGED <<handle, outbound, handed, view, task,
                         link, served, opened, delivered, faults>>
      BY <1>5, <2>2 DEF Receive
    <3>2. m \in ServerMessages /\ inbox' \in Seq(ServerMessages)
      BY <3>1, Rest DEF TypeOK
    <3> HIDE DEF m
    <3>3. events' \in Seq(SignalEvents)
      BY <3>1, <3>2, EventTypes, MessageTypes DEF TypeOK
    <3>4. QED BY <3>1, <3>2, <3>3 DEF TypeOK, task
  <2>3. QED BY <2>1, <2>2
<1>6. CASE Relay \/ RelayFails
  <2>1. outbound # <<>> /\ outbound' = Tail(outbound) /\ faults' = faults
    BY <1>6 DEF Relay, RelayFails
  <2>2. outbound' \in Seq(Messages) /\ Head(outbound) \in Messages
    BY <2>1, Rest DEF TypeOK
  <2>3. CASE RelayFails
    BY <2>2, <2>3, FailTypes DEF RelayFails, TypeOK
  <2>4. CASE Relay
    <3>1. delivered' \in Seq(Messages)
      <4>1. delivered' = delivered \/ delivered' = Append(delivered, Head(outbound))
        BY <2>4 DEF Relay, Deliver
      <4>2. delivered \in Seq(Messages)
        BY DEF TypeOK
      <4>3. QED BY <2>2, <4>1, <4>2, Longer
    <3>2. inbox' \in Seq(ServerMessages)
      <4>1. inbox' = inbox \/ inbox' = Append(inbox, Plain("error"))
        BY <2>4 DEF Relay, Deliver
      <4>2. inbox \in Seq(ServerMessages) /\ Plain("error") \in ServerMessages
        BY MessageTypes DEF TypeOK
      <4>3. QED BY <4>1, <4>2, Longer
    <3>3. QED BY <2>2, <2>4, <3>1, <3>2 DEF Relay, TypeOK, task
  <2>5. QED BY <1>6, <2>3, <2>4
<1>7. CASE KeepaliveFails
  BY <1>7, FailTypes DEF KeepaliveFails, TypeOK
<1>8. CASE HandleGone
  <2>1. ReconnectMin \in ReconnectMin..ReconnectMax
    BY BackoffAssumption
  <2>2. QED BY <1>8, <2>1, EmptySeq DEF HandleGone, CloseLink, TypeOK, PcState, app
<1>9. QED BY <1>1, <1>2, <1>3, <1>4, <1>5, <1>6, <1>7, <1>8

-----------------------------------------------------------------------------
(* Registrations and faults *)

\* What the two halves of the invariant say of a state in which no connection is open.
LEMMA ClosedInv ==
    ASSUME link' = "down", inbox' = <<>>, served' = {}, pc' \in {"sleeping", "connecting"},
           disconnects' <= faults'
    PROVE  Registrations' /\ FaultsAccountForDrops'
<1>1. ~Doomed' /\ Scripted'
  BY DEF Doomed, Open, Misplaced, Scripted
<1>2. QED BY <1>1 DEF Registrations, FaultsAccountForDrops

\* A session fails that was doomed, or by a fault.
LEMMA FailInv ==
    ASSUME ClientInv, Fail, (Doomed /\ faults' = faults) \/ Fault
    PROVE  Registrations' /\ FaultsAccountForDrops'
<1>1. disconnects \in Nat /\ faults \in Nat /\ disconnects <= faults /\ (Doomed => disconnects < faults)
  BY BackoffAssumption DEF ClientInv, TypeOK, FaultsAccountForDrops
<1>2. disconnects' <= faults'
  BY <1>1 DEF Fail, Fault
<1>3. QED BY <1>2, ClosedInv DEF Fail, CloseLink

\* What a message that was read leaves: the rest of the inbox.
LEMMA ReadInv ==
    ASSUME ClientInv, inbox # <<>>, inbox' = Tail(inbox), ~Ends(inbox[1].type),
           pc \in {"challenge", "proof"} => inbox[1].type \notin {"error", "peer_joined"},
           link' = link, link # "down", pc' \in {"challenge", "proof", "relaying"},
           pc' = "challenge" => pc = "challenge",
           served' # {} => Published',
           faults' = faults, disconnects' = disconnects,
           Scripted => Scripted' /\ ~Misplaced'
    PROVE  Registrations' /\ FaultsAccountForDrops'
<1>1. /\ inbox \in Seq(ServerMessages) /\ Len(inbox) \in Nat \ {0} /\ Len(inbox') = Len(inbox) - 1
      /\ \A i \in 1..Len(inbox') : inbox'[i] = inbox[i + 1] /\ i + 1 \in 1..Len(inbox)
  BY Rest DEF ClientInv, TypeOK
<1>2. Open' <=> Open
  <2>1. Open => Open'
    BY <1>1 DEF Open, Ends
  <2>2. ASSUME Open', NEW i \in 1..Len(inbox)
        PROVE  ~Ends(inbox[i].type)
    <3>1. CASE i = 1
      BY <3>1
    <3>2. CASE i # 1
      <4>1. i - 1 \in 1..Len(inbox') /\ inbox'[i - 1] = inbox[i]
        BY <1>1, <3>2
      <4>2. QED BY <2>2, <4>1 DEF Open, Ends
    <3>3. QED BY <3>1, <3>2
  <2>3. QED BY <2>1, <2>2 DEF Open
<1>3. ~Misplaced
  BY DEF Misplaced
<1>4. Registrations'
  BY <1>1 DEF ClientInv, Registrations
<1>5. FaultsAccountForDrops'
  <2>1. Doomed => Doomed'
    BY <1>2, <1>3 DEF Doomed
  <2>2. ~Doomed => ~Doomed' /\ Scripted'
    BY <1>2 DEF Doomed, ClientInv, FaultsAccountForDrops
  <2>3. QED BY <2>1, <2>2 DEF ClientInv, FaultsAccountForDrops
<1>6. QED BY <1>4, <1>5

\* The two loops of register.
LEMMA RegisterCases ==
    ASSUME NEW t
    PROVE  /\ Registering(t) = "challenge" => pc = "challenge" /\ t = "welcome"
           /\ Registering(t) = "proof" =>
                 \/ pc = "challenge" /\ t = "challenge"
                 \/ pc = "proof" /\ t \in {"welcome", "pong"}
           /\ Registering(t) = "relaying" => pc = "proof" /\ t = "registered"
           /\ Registering(t) = "failed" =>
                 /\ pc = "challenge" => t \notin {"welcome", "challenge"}
                 /\ pc = "proof" => t \notin {"welcome", "pong", "registered"}
           /\ Registering(t) \in {"challenge", "proof", "relaying", "failed"}
  BY DEF Registering

\* A message is read while the client registers: only a doomed registration fails on it.
LEMMA ExpectInv ==
    ASSUME ClientInv, ExpectMessage
    PROVE  Registrations' /\ FaultsAccountForDrops'
<1> DEFINE t == inbox[1].type
           next == Registering(t)
<1>1. /\ pc \in {"challenge", "proof"} /\ inbox # <<>> /\ Head(inbox) = inbox[1]
      /\ inbox \in Seq(ServerMessages) /\ Len(inbox) \in Nat \ {0} /\ 1 \in 1..Len(inbox)
      /\ Tail(inbox) \in Seq(ServerMessages) /\ Len(Tail(inbox)) = Len(inbox) - 1
      /\ \A i \in 1..Len(inbox) - 1 : Tail(inbox)[i] = inbox[i + 1]
  BY Rest DEF ExpectMessage, ClientInv, TypeOK
<1>2. Tail(inbox) = <<>> <=> Len(inbox) = 1
  <2>1. \A s \in Seq(ServerMessages) : s = <<>> <=> Len(s) = 0
    BY EmptySeq
  <2>2. Tail(inbox) = <<>> <=> Len(Tail(inbox)) = 0
    BY <1>1, <2>1
  <2>3. QED BY <1>1, <2>2
<1>3. CASE next = "failed"
  <2>1. Fail /\ faults' = faults
    BY <1>1, <1>3 DEF ExpectMessage
  <2>2. ~Scripted
    BY <1>1, <1>3, RegisterCases DEF Scripted, Confirms
  <2>3. QED BY <2>1, <2>2, FailInv DEF ClientInv, FaultsAccountForDrops
<1>4. CASE next # "failed"
  <2>1. /\ pc' = next /\ inbox' = Tail(inbox)
        /\ UNCHANGED <<link, served, faults, disconnects>>
    BY <1>1, <1>4 DEF ExpectMessage
  <2>2. link # "down"
    BY <1>1 DEF ClientInv, TypeOK
  <2>3. ~Ends(t) /\ t \notin {"error", "peer_joined"}
    BY <1>1, <1>4, RegisterCases DEF Ends
  <2>4. /\ next \in {"challenge", "proof", "relaying"} /\ (next = "challenge" => pc = "challenge")
    BY <1>4, RegisterCases
  <2>5. served' # {} => Published'
    <3>1. CASE served = {}
      BY <2>1, <3>1
    <3>2. CASE served # {}
      <4>1. PICK i \in 1..Len(inbox) : inbox[i].type = "registered"
        BY <1>1, <3>2 DEF ClientInv, Registrations, Published
      <4>2. pc = "proof"
        BY <1>1, <4>1 DEF ClientInv, Registrations
      <4>3. CASE i = 1
        BY <1>4, <2>1, <4>1, <4>2, <4>3, RegisterCases DEF Published
      <4>4. CASE i # 1
        <5>1. i - 1 \in 1..Len(inbox') /\ inbox'[i - 1].type = "registered"
          BY <1>1, <2>1, <4>1, <4>4
        <5>2. QED BY <5>1 DEF Published
      <4>5. QED BY <4>3, <4>4
    <3>3. QED BY <3>1, <3>2
  <2>6. ASSUME Scripted
        PROVE  Scripted' /\ ~Misplaced'
    <3>1. CASE next = "challenge"
      <4>1. pc = "challenge" /\ Len(inbox) = 2 /\ inbox[2].type = "challenge"
        BY <1>1, <2>6, <3>1, RegisterCases DEF Scripted
      <4>2. Len(inbox') = 1 /\ inbox'[1].type = "challenge" /\ pc' = "challenge"
        <5>1. Len(Tail(inbox)) = 1 /\ 1 \in 1..Len(inbox) - 1 /\ Tail(inbox)[1] = inbox[2]
          BY <1>1, <4>1
        <5>2. QED BY <2>1, <3>1, <4>1, <5>1
      <4>3. QED BY <4>2 DEF Scripted, Misplaced
    <3>2. CASE next = "proof" /\ pc = "challenge"
      <4>1. inbox' = <<>> /\ pc' = "proof"
        BY <1>1, <1>2, <2>1, <2>6, <3>2, RegisterCases DEF Scripted
      <4>2. QED BY <4>1 DEF Scripted, Misplaced
    <3>3. CASE next = "proof" /\ pc = "proof"
      <4>1. Confirms(Tail(inbox))
        BY <1>1, <2>6, <3>3, RegisterCases DEF Scripted, Confirms
      <4>2. QED BY <2>1, <3>3, <4>1 DEF Scripted, Misplaced, Confirms
    <3>4. CASE next = "relaying"
      BY <2>1, <3>4 DEF Scripted, Misplaced
    <3>5. QED BY <1>1, <2>4, <3>1, <3>2, <3>3, <3>4
  <2> HIDE DEF next
  <2>7. QED BY <1>1, <2>1, <2>2, <2>3, <2>4, <2>5, <2>6, ReadInv
<1>5. QED BY <1>3, <1>4

\* A message is read while the client relays.
LEMMA ReceiveInv ==
    ASSUME ClientInv, Receive
    PROVE  Registrations' /\ FaultsAccountForDrops'
<1>1. /\ pc = "relaying" /\ inbox # <<>> /\ Head(inbox) = inbox[1] /\ 1 \in 1..Len(inbox)
  BY Rest DEF Receive, ClientInv, TypeOK
<1>2. CASE Ends(inbox[1].type)
  <2>1. Fail /\ faults' = faults /\ ~Open
    BY <1>1, <1>2 DEF Receive, Open
  <2>2. QED BY <2>1, FailInv DEF Doomed
<1>3. CASE ~Ends(inbox[1].type)
  <2>1. /\ inbox' = Tail(inbox) /\ pc' = "relaying"
        /\ UNCHANGED <<link, served, faults, disconnects>>
    BY <1>1, <1>3 DEF Receive, task
  <2>2. link # "down" /\ Published' /\ Scripted' /\ ~Misplaced'
    BY <1>1, <2>1 DEF ClientInv, TypeOK, Published, Scripted, Misplaced
  <2>3. QED BY <1>1, <1>3, <2>1, <2>2, ReadInv
<1>4. QED BY <1>2, <1>3

\* More arrives, and none of it ends the connection.
LEMMA ArrivalInv ==
    ASSUME ClientInv, NEW m \in ServerMessages, inbox' = Append(inbox, m), ~Ends(m.type),
           link # "down", link' = link, pc' = pc, faults' = faults, disconnects' = disconnects,
           pc = "relaying" \/ (pc = "proof" /\ Published /\ m.type # "registered"),
           served' # {} => Published
    PROVE  Registrations' /\ FaultsAccountForDrops'
<1>1. /\ inbox \in Seq(ServerMessages) /\ Len(inbox) \in Nat /\ Len(inbox') = Len(inbox) + 1
      /\ \A i \in 1..Len(inbox) : inbox'[i] = inbox[i] /\ i \in 1..Len(inbox')
      /\ inbox'[Len(inbox) + 1] = m /\ Len(inbox) + 1 \in 1..Len(inbox')
  BY Longer DEF ClientInv, TypeOK
<1>2. \A i \in 1..Len(inbox') : i \in 1..Len(inbox) \/ inbox'[i] = m
  BY <1>1
<1>3. Open' <=> Open
  BY <1>1, <1>2 DEF Open, Ends
<1>4. Published => Published'
  BY <1>1 DEF Published
<1>5. Registrations'
  BY <1>4 DEF ClientInv, Registrations
<1>6. CASE pc = "relaying"
  <2>1. (Doomed' <=> Doomed) /\ Scripted'
    BY <1>3, <1>6 DEF Doomed, Misplaced, Scripted
  <2>2. QED BY <1>5, <2>1 DEF ClientInv, FaultsAccountForDrops
<1>7. CASE pc = "proof" /\ Published
  <2>1. inbox # <<>> /\ inbox' # <<>> /\ Len(inbox) \in Nat \ {0} /\ inbox'[1] = inbox[1]
    <3>1. Len(inbox) \in Nat \ {0} /\ inbox'[1] = inbox[1]
      BY <1>1, <1>7 DEF Published
    <3>2. QED BY <1>1, <3>1, EmptySeq
  <2>2. Doomed' <=> Doomed
    BY <1>3, <2>1 DEF Doomed, Misplaced
  <2>3. Scripted => Scripted'
    <3>1. /\ Tail(inbox) \in Seq(ServerMessages) /\ Len(Tail(inbox)) = Len(inbox) - 1
          /\ \A i \in 1..Len(inbox) - 1 : Tail(inbox)[i] = inbox[i + 1]
      BY <1>1, <2>1, Rest
    <3>2. /\ inbox' \in Seq(ServerMessages) /\ Len(Tail(inbox')) = Len(inbox)
          /\ \A i \in 1..Len(inbox) : Tail(inbox')[i] = inbox'[i + 1]
      <4>1. inbox' \in Seq(ServerMessages)
        BY <1>1, Longer
      <4>2. /\ Len(Tail(inbox')) = Len(inbox') - 1
            /\ \A i \in 1..Len(inbox') - 1 : Tail(inbox')[i] = inbox'[i + 1]
        BY <2>1, <4>1, Rest
      <4>3. QED BY <1>1, <4>1, <4>2
    <3>3. Confirms(inbox) => Confirms(inbox')
      BY <1>1, <2>1 DEF Confirms
    <3>4. ASSUME Confirms(Tail(inbox))
          PROVE  Confirms(Tail(inbox'))
      <4>1. Len(inbox) >= 2 /\ Tail(inbox)[1] = inbox[2] /\ 2 \in 1..Len(inbox)
        BY <2>1, <3>1, <3>4 DEF Confirms
      <4>2. Tail(inbox')[1] = inbox'[2] /\ inbox'[2] = inbox[2]
        BY <1>1, <3>2, <4>1
      <4>3. QED BY <3>2, <3>4, <4>1, <4>2 DEF Confirms
    <3>5. QED BY <1>7, <2>1, <3>3, <3>4 DEF Scripted
  <2>4. QED BY <1>5, <2>2, <2>3 DEF ClientInv, FaultsAccountForDrops
<1>8. QED BY <1>6, <1>7

\* The server answers a client that registers.
LEMMA AnswersInv ==
    ASSUME ClientInv, AnswersRegister \/ AnswersProof
    PROVE  Registrations' /\ FaultsAccountForDrops'
<1>1. /\ inbox = <<>> /\ link = "up" /\ pc \in {"challenge", "proof"} /\ served = {}
      /\ UNCHANGED <<pc, link, served, faults, disconnects>>
  BY DEF AnswersRegister, AnswersProof, ServerSays, ClientInv, Registrations, Published, task
<1>2. ~Doomed
  BY <1>1 DEF Doomed, Open, Misplaced
<1>3. \A s \in Seq(ServerMessages) : <<>> \o s = s
  BY ConcatEmptySeq
<1>4. CASE pc = "challenge"
  <2>1. \/ inbox' = <<Plain("challenge")>>
        \/ inbox' = <<Plain("welcome"), Plain("challenge")>>
    BY <1>1, <1>3, <1>4, ShortAnswers DEF AnswersRegister, AnswersProof, ServerSays
  <2>2. \/ Len(inbox') = 1 /\ inbox'[1].type = "challenge"
        \/ Len(inbox') = 2 /\ inbox'[1].type = "welcome" /\ inbox'[2].type = "challenge"
    BY <2>1 DEF Plain
  <2>3. Open' /\ Scripted' /\ ~Misplaced' /\ \A i \in 1..Len(inbox') : inbox'[i].type # "registered"
    BY <1>1, <1>4, <2>2 DEF Open, Ends, Scripted, Misplaced
  <2>4. QED BY <1>1, <2>3 DEF ClientInv, Registrations, FaultsAccountForDrops, Doomed
<1>5. CASE pc = "proof"
  <2>1. \/ inbox' = <<Plain("registered")>>
        \/ inbox' = <<Plain("pong"), Plain("registered")>>
    BY <1>1, <1>3, <1>5, ShortAnswers DEF AnswersRegister, AnswersProof, ServerSays
  <2>2. CASE inbox' = <<Plain("registered")>>
    <3>1. Len(inbox') = 1 /\ inbox'[1].type = "registered"
      BY <2>2 DEF Plain
    <3>2. Open' /\ Scripted' /\ ~Misplaced'
      BY <1>1, <1>5, <3>1 DEF Open, Ends, Scripted, Misplaced, Confirms
    <3>3. QED BY <1>1, <1>5, <3>2 DEF ClientInv, Registrations, FaultsAccountForDrops, Doomed
  <2>3. CASE inbox' = <<Plain("pong"), Plain("registered")>>
    <3>1. /\ Len(inbox') = 2 /\ inbox'[1].type = "pong" /\ inbox'[2].type = "registered"
          /\ Tail(inbox') = <<Plain("registered")>>
      BY <2>3 DEF Plain
    <3>2. Confirms(Tail(inbox'))
      BY <3>1 DEF Confirms, Plain
    <3>3. Open' /\ Scripted' /\ ~Misplaced'
      BY <1>1, <1>5, <3>1, <3>2 DEF Open, Ends, Scripted, Misplaced, Confirms
    <3>4. QED BY <1>1, <1>5, <3>3 DEF ClientInv, Registrations, FaultsAccountForDrops, Doomed
  <2>4. QED BY <2>1, <2>2, <2>3
<1>6. QED BY <1>1, <1>4, <1>5

\* Nothing that the two parts speak of changes.
LEMMA FrameInv ==
    ASSUME ClientInv, UNCHANGED <<pc, link, inbox, served, disconnects, faults>>
    PROVE  Registrations' /\ FaultsAccountForDrops'
  BY DEF ClientInv, Registrations, FaultsAccountForDrops, Published, Doomed, Open, Misplaced,
     Scripted, Confirms

\* A phone joins, speaks or leaves: the server says so to a client it has confirmed.
LEMMA PeerInv ==
    ASSUME ClientInv, NEW s \in Session, PeerJoins(s) \/ PeerSignals(s) \/ PeerLeaves(s)
    PROVE  Registrations' /\ FaultsAccountForDrops'
<1>1. PICK t \in {"peer_joined", "signal", "peer_left"} : ServerSays(<<About(t, s)>>)
  BY DEF PeerJoins, PeerSignals, PeerLeaves
<1>2. /\ About(t, s) \in ServerMessages /\ About(t, s).type = t /\ ~Ends(t) /\ t # "registered"
  BY MessageTypes DEF About, Ends
<1>3. inbox' = Append(inbox, About(t, s)) /\ link = "up" /\ link' = link
      /\ UNCHANGED <<pc, disconnects, faults>>
  BY <1>1, <1>2, Longer DEF ServerSays, task, ClientInv, TypeOK, PeerJoins, PeerSignals, PeerLeaves
<1>4. Published
  BY DEF PeerJoins, PeerSignals, PeerLeaves, ClientInv, Registrations
<1>5. pc \in {"proof", "relaying"}
  BY <1>3, <1>4 DEF ClientInv, Registrations, Published, TypeOK, PcState
<1>6. QED BY <1>2, <1>3, <1>4, <1>5, ArrivalInv

\* The server or the network fails: a fault that the next drop accounts for.
LEMMA FaultInv ==
    ASSUME ClientInv, ServerFails \/ LinkDies
    PROVE  Registrations' /\ FaultsAccountForDrops'
<1>1. /\ link = "up" /\ disconnects' = disconnects /\ pc' = pc /\ served' = served
      /\ disconnects' < faults' /\ disconnects' <= faults'
  <2>1. disconnects \in Nat /\ faults \in Nat /\ disconnects <= faults
    BY BackoffAssumption DEF ClientInv, TypeOK, FaultsAccountForDrops
  <2>2. link = "up" /\ UNCHANGED <<task, served>>
    BY DEF ServerFails, LinkDies, ServerSays
  <2>3. faults' = faults + 1
    BY DEF ServerFails, LinkDies, Fault
  <2>4. QED BY <2>1, <2>2, <2>3 DEF task
<1>2. CASE LinkDies
  <2>1. Doomed' /\ link' # "down" /\ inbox' = inbox
    BY <1>2 DEF LinkDies, Doomed
  <2>2. QED BY <1>1, <2>1 DEF FaultsAccountForDrops, ClientInv, Registrations, Published
<1>3. CASE ServerFails
  <2>1. PICK m \in ServerMessages :
           /\ ServerSays(<<m>>) /\ m.type # "registered"
           /\ \/ Ends(m.type)
              \/ pc \in {"challenge", "proof"} /\ inbox = <<>> /\ m.type \in {"error", "peer_joined"}
    <3>1. CASE \E type \in {"garbage", "close"} : ServerSays(<<Plain(type)>>)
      BY <3>1, MessageTypes DEF Ends, Plain
    <3>2. CASE /\ pc \in {"challenge", "proof"} /\ inbox = <<>>
               /\ \E m \in {Plain("error")} \cup {About("peer_joined", s) : s \in Session} :
                     ServerSays(<<m>>)
      <4>1. PICK m \in {Plain("error")} \cup {About("peer_joined", s) : s \in Session} :
               ServerSays(<<m>>)
        BY <3>2
      <4>2. m \in ServerMessages /\ m.type \in {"error", "peer_joined"}
        BY <4>1, MessageTypes DEF Plain, About
      <4>3. QED BY <3>2, <4>1, <4>2
    <3>3. QED BY <1>3, <3>1, <3>2 DEF ServerFails
  <2>2. /\ inbox' = Append(inbox, m) /\ link' = link
    BY <2>1, Longer DEF ServerSays, ClientInv, TypeOK
  <2>3. /\ inbox \in Seq(ServerMessages) /\ Len(inbox) \in Nat /\ Len(inbox') = Len(inbox) + 1
        /\ \A i \in 1..Len(inbox) : inbox'[i] = inbox[i] /\ i \in 1..Len(inbox')
        /\ inbox'[Len(inbox) + 1] = m /\ Len(inbox) + 1 \in 1..Len(inbox')
    BY <2>2, Longer DEF ClientInv, TypeOK
  <2>4. \A i \in 1..Len(inbox') : i \in 1..Len(inbox) \/ inbox'[i] = m
    BY <2>3
  <2>5. Doomed'
    <3>1. CASE Ends(m.type)
      BY <2>3, <3>1 DEF Doomed, Open, Ends
    <3>2. CASE pc \in {"challenge", "proof"} /\ inbox = <<>> /\ m.type \in {"error", "peer_joined"}
      <4>1. Len(inbox) = 0 /\ inbox'[1] = m /\ Len(inbox') = 1
        BY <2>3, <3>2
      <4>2. inbox' # <<>>
        BY <4>1
      <4>3. QED BY <1>1, <3>2, <4>1, <4>2 DEF Doomed, Misplaced
    <3>3. QED BY <2>1, <3>1, <3>2
  <2>6. Published => Published'
    BY <1>1, <2>3 DEF Published
  <2>7. Registrations'
    BY <1>1, <2>1, <2>2, <2>3, <2>4, <2>6 DEF ClientInv, Registrations
  <2>8. QED BY <1>1, <2>5, <2>7 DEF FaultsAccountForDrops
<1>4. QED BY <1>2, <1>3

-----------------------------------------------------------------------------
(* What the application knows *)

\* One event or message after another.
Step(sessions, e) == {s \in Session : Opens(e, s) \/ (s \in sessions /\ ~Closes(e, s))}

\* No event opens and closes a session.
LEMMA NotBoth == \A e, s : Opens(e, s) => ~Closes(e, s)
  BY DEF Opens, Closes

\* Nothing said.
LEMMA KnownNothing ==
    ASSUME NEW K, K \subseteq Session
    PROVE  KnownAfter(K, <<>>) = K
  BY DEF KnownAfter

\* The first of some events comes first.
LEMMA KnownRest ==
    ASSUME NEW S, NEW es \in Seq(S), es # <<>>, NEW K
    PROVE  KnownAfter(K, es) = KnownAfter(Step(K, Head(es)), Tail(es))
<1>1. /\ Head(es) = es[1] /\ Len(es) \in Nat \ {0} /\ Len(Tail(es)) = Len(es) - 1
      /\ \A i \in 1..Len(es) - 1 : Tail(es)[i] = es[i + 1]
  BY Rest
<1>2. ASSUME NEW s \in Session
      PROVE  s \in KnownAfter(K, es) <=> s \in KnownAfter(Step(K, Head(es)), Tail(es))
  <2>1. ASSUME s \in K, \A i \in 1..Len(es) : ~Closes(es[i], s)
        PROVE  s \in KnownAfter(Step(K, Head(es)), Tail(es))
    <3>1. s \in Step(K, Head(es))
      BY <1>1, <2>1 DEF Step
    <3>2. \A i \in 1..Len(Tail(es)) : ~Closes(Tail(es)[i], s)
      BY <1>1, <2>1
    <3>3. QED BY <3>1, <3>2 DEF KnownAfter
  <2>2. ASSUME NEW i \in 1..Len(es), Opens(es[i], s),
               \A j \in i + 1..Len(es) : ~Closes(es[j], s)
        PROVE  s \in KnownAfter(Step(K, Head(es)), Tail(es))
    <3>1. CASE i = 1
      <4>1. s \in Step(K, Head(es))
        BY <1>1, <2>2, <3>1 DEF Step
      <4>2. \A j \in 1..Len(Tail(es)) : ~Closes(Tail(es)[j], s)
        BY <1>1, <2>2, <3>1
      <4>3. QED BY <4>1, <4>2 DEF KnownAfter
    <3>2. CASE i # 1
      <4>1. i - 1 \in 1..Len(Tail(es)) /\ Opens(Tail(es)[i - 1], s)
        BY <1>1, <2>2, <3>2
      <4>2. \A j \in (i - 1) + 1..Len(Tail(es)) : ~Closes(Tail(es)[j], s)
        BY <1>1, <2>2, <3>2
      <4>3. QED BY <4>1, <4>2 DEF KnownAfter
    <3>3. QED BY <3>1, <3>2
  <2>3. ASSUME s \in Step(K, Head(es)), \A i \in 1..Len(Tail(es)) : ~Closes(Tail(es)[i], s)
        PROVE  s \in KnownAfter(K, es)
    <3>1. \A i \in 2..Len(es) : ~Closes(es[i], s)
      <4>1. ASSUME NEW i \in 2..Len(es) PROVE ~Closes(es[i], s)
        <5>1. i - 1 \in 1..Len(Tail(es)) /\ Tail(es)[i - 1] = es[i]
          BY <1>1
        <5>2. QED BY <2>3, <5>1
      <4>2. QED BY <4>1
    <3>2. CASE Opens(es[1], s)
      <4>1. 1 \in 1..Len(es) /\ 1 + 1 = 2
        BY <1>1
      <4>2. QED BY <3>1, <3>2, <4>1 DEF KnownAfter
    <3>3. CASE ~Opens(es[1], s)
      <4>1. s \in K /\ ~Closes(es[1], s)
        BY <1>1, <2>3, <3>3 DEF Step
      <4>2. \A i \in 1..Len(es) : ~Closes(es[i], s)
        BY <1>1, <3>1, <4>1
      <4>3. QED BY <4>1, <4>2 DEF KnownAfter
    <3>4. QED BY <3>2, <3>3
  <2>4. ASSUME NEW i \in 1..Len(Tail(es)), Opens(Tail(es)[i], s),
               \A j \in i + 1..Len(Tail(es)) : ~Closes(Tail(es)[j], s)
        PROVE  s \in KnownAfter(K, es)
    <3>1. i + 1 \in 1..Len(es) /\ Opens(es[i + 1], s)
      BY <1>1, <2>4
    <3>2. ASSUME NEW j \in (i + 1) + 1..Len(es) PROVE ~Closes(es[j], s)
      <4>1. j - 1 \in i + 1..Len(Tail(es)) /\ Tail(es)[j - 1] = es[j]
        BY <1>1
      <4>2. QED BY <2>4, <4>1
    <3>3. QED BY <3>1, <3>2 DEF KnownAfter
  <2>5. QED BY <2>1, <2>2, <2>3, <2>4 DEF KnownAfter
<1>3. QED BY <1>2 DEF KnownAfter

\* The last of some events comes last.
LEMMA KnownLonger ==
    ASSUME NEW S, NEW es \in Seq(S), NEW e \in S, NEW K
    PROVE  KnownAfter(K, Append(es, e)) = Step(KnownAfter(K, es), e)
<1> DEFINE more == Append(es, e)
           n == Len(es)
<1>1. /\ n \in Nat /\ Len(more) = n + 1 /\ more[n + 1] = e
      /\ \A i \in 1..n : more[i] = es[i]
  BY Longer
<1> HIDE DEF more, n
<1>2. ASSUME NEW s \in Session
      PROVE  s \in KnownAfter(K, more) <=> s \in Step(KnownAfter(K, es), e)
  <2>1. CASE Opens(e, s)
    <3>1. n + 1 \in 1..Len(more) /\ Opens(more[n + 1], s) /\ (n + 1) + 1..Len(more) = {}
      BY <1>1, <2>1
    <3>2. QED BY <2>1, <3>1 DEF KnownAfter, Step
  <2>2. CASE Closes(e, s)
    <3>1. s \notin Step(KnownAfter(K, es), e)
      BY <2>2, NotBoth DEF Step
    <3>2. Closes(more[n + 1], s) /\ n + 1 \in 1..Len(more)
      BY <1>1, <2>2
    <3>3. \A i \in 1..Len(more) : Opens(more[i], s) => n + 1 \in i + 1..Len(more)
      BY <1>1, <2>2, NotBoth
    <3>4. QED BY <3>1, <3>2, <3>3 DEF KnownAfter
  <2>3. CASE ~Opens(e, s) /\ ~Closes(e, s)
    <3>1. (\A i \in 1..Len(more) : ~Closes(more[i], s)) <=> \A i \in 1..n : ~Closes(es[i], s)
      BY <1>1, <2>3
    <3>2. ASSUME NEW i \in 1..n
          PROVE  (\A j \in i + 1..Len(more) : ~Closes(more[j], s))
                    <=> \A j \in i + 1..n : ~Closes(es[j], s)
      BY <1>1, <2>3
    <3>3. \A i \in 1..Len(more) : Opens(more[i], s) => i \in 1..n
      BY <1>1, <2>3
    <3>4. \A i \in 1..n : i \in 1..Len(more) /\ (Opens(more[i], s) <=> Opens(es[i], s))
      BY <1>1
    <3>5. s \in Step(KnownAfter(K, es), e) <=> s \in KnownAfter(K, es)
      BY <2>3 DEF Step
    <3>6. QED BY <3>1, <3>2, <3>3, <3>4, <3>5 DEF KnownAfter, n
  <2>4. QED BY <2>1, <2>2, <2>3
<1>3. QED BY <1>2 DEF KnownAfter, Step, more

\* Nothing but a registration or the end of one counts.
LEMMA RegisteredRest ==
    ASSUME NEW S, NEW es \in Seq(S), es # <<>>, NEW r \in BOOLEAN
    PROVE  RegisteredAfter(r, es) =
              RegisteredAfter(Head(es).type = "registered" \/ (r /\ Head(es).type # "disconnected"),
                              Tail(es))
<1>1. /\ Head(es) = es[1] /\ Len(es) \in Nat \ {0} /\ Len(Tail(es)) = Len(es) - 1
      /\ \A i \in 1..Len(es) - 1 : Tail(es)[i] = es[i + 1]
  BY Rest
<1> DEFINE first == Head(es).type = "registered" \/ (r /\ Head(es).type # "disconnected")
<1>2. \A i \in 2..Len(es) : i - 1 \in 1..Len(Tail(es)) /\ Tail(es)[i - 1] = es[i]
  BY <1>1
<1>3. (\A i \in 1..Len(Tail(es)) : Tail(es)[i].type # "disconnected")
         <=> \A i \in 2..Len(es) : es[i].type # "disconnected"
  BY <1>1, <1>2
<1>4. ASSUME NEW i \in 1..Len(Tail(es))
      PROVE  /\ i + 1 \in 2..Len(es) /\ Tail(es)[i] = es[i + 1]
             /\ (\A j \in i + 1..Len(Tail(es)) : Tail(es)[j].type # "disconnected")
                   <=> \A j \in (i + 1) + 1..Len(es) : es[j].type # "disconnected"
  <2>1. \A j \in (i + 1) + 1..Len(es) :
           j - 1 \in i + 1..Len(Tail(es)) /\ Tail(es)[j - 1] = es[j]
    BY <1>1, <1>2
  <2>2. \A j \in i + 1..Len(Tail(es)) :
           j + 1 \in (i + 1) + 1..Len(es) /\ Tail(es)[j] = es[j + 1]
    BY <1>1
  <2>3. QED BY <1>1, <2>1, <2>2
<1>5. ASSUME RegisteredAfter(r, es)
      PROVE  RegisteredAfter(first, Tail(es))
  <2>1. CASE r /\ \A i \in 1..Len(es) : es[i].type # "disconnected"
    <3>1. first /\ \A i \in 1..Len(Tail(es)) : Tail(es)[i].type # "disconnected"
      BY <1>1, <1>3, <2>1
    <3>2. QED BY <3>1 DEF RegisteredAfter
  <2>2. ASSUME NEW i \in 1..Len(es), es[i].type = "registered",
               \A j \in i + 1..Len(es) : es[j].type # "disconnected"
        PROVE  RegisteredAfter(first, Tail(es))
    <3>1. CASE i = 1
      <4>1. first /\ \A j \in 1..Len(Tail(es)) : Tail(es)[j].type # "disconnected"
        BY <1>1, <1>3, <2>2, <3>1
      <4>2. QED BY <4>1 DEF RegisteredAfter
    <3>2. CASE i # 1
      <4>1. /\ i - 1 \in 1..Len(Tail(es)) /\ Tail(es)[i - 1].type = "registered"
            /\ (i - 1) + 1 = i
        BY <1>1, <1>2, <2>2, <3>2
      <4>2. \A j \in (i - 1) + 1..Len(Tail(es)) : Tail(es)[j].type # "disconnected"
        BY <1>4, <2>2, <4>1
      <4>3. QED BY <4>1, <4>2 DEF RegisteredAfter
    <3>3. QED BY <3>1, <3>2
  <2>3. QED BY <1>5, <2>1, <2>2 DEF RegisteredAfter
<1>6. ASSUME RegisteredAfter(first, Tail(es))
      PROVE  RegisteredAfter(r, es)
  <2>1. CASE first /\ \A i \in 1..Len(Tail(es)) : Tail(es)[i].type # "disconnected"
    <3>1. \A i \in 2..Len(es) : es[i].type # "disconnected"
      BY <1>3, <2>1
    <3>2. CASE Head(es).type = "registered"
      <4>1. 1 \in 1..Len(es) /\ es[1].type = "registered" /\ 1 + 1 = 2
        BY <1>1, <3>2
      <4>2. QED BY <3>1, <4>1 DEF RegisteredAfter
    <3>3. CASE r /\ Head(es).type # "disconnected"
      <4>1. \A i \in 1..Len(es) : es[i].type # "disconnected"
        BY <1>1, <3>1, <3>3
      <4>2. QED BY <3>3, <4>1 DEF RegisteredAfter
    <3>4. QED BY <2>1, <3>2, <3>3
  <2>2. ASSUME NEW i \in 1..Len(Tail(es)), Tail(es)[i].type = "registered",
               \A j \in i + 1..Len(Tail(es)) : Tail(es)[j].type # "disconnected"
        PROVE  RegisteredAfter(r, es)
    <3>1. i + 1 \in 1..Len(es) /\ es[i + 1].type = "registered"
      BY <1>1, <1>4, <2>2
    <3>2. \A j \in (i + 1) + 1..Len(es) : es[j].type # "disconnected"
      BY <1>4, <2>2
    <3>3. QED BY <3>1, <3>2 DEF RegisteredAfter
  <2>3. QED BY <1>6, <2>1, <2>2 DEF RegisteredAfter
<1>7. RegisteredAfter(r, es) \in BOOLEAN /\ RegisteredAfter(first, Tail(es)) \in BOOLEAN
  BY DEF RegisteredAfter
<1> HIDE DEF first
<1>8. RegisteredAfter(r, es) = RegisteredAfter(first, Tail(es))
  BY <1>5, <1>6, <1>7
<1>9. QED BY <1>8 DEF first

\* The last registration or end of one decides.
LEMMA RegisteredLonger ==
    ASSUME NEW S, NEW es \in Seq(S), NEW e \in S, NEW r \in BOOLEAN
    PROVE  RegisteredAfter(r, Append(es, e)) <=>
              e.type = "registered" \/ (RegisteredAfter(r, es) /\ e.type # "disconnected")
<1> DEFINE more == Append(es, e)
           n == Len(es)
<1>1. /\ n \in Nat /\ Len(more) = n + 1 /\ more[n + 1] = e
      /\ \A i \in 1..n : more[i] = es[i]
  BY Longer
<1> HIDE DEF more, n
<1>2. CASE e.type = "registered"
  <2>1. n + 1 \in 1..Len(more) /\ more[n + 1].type = "registered"
        /\ (n + 1) + 1..Len(more) = {}
    BY <1>1, <1>2
  <2>2. RegisteredAfter(r, more)
    BY <2>1 DEF RegisteredAfter
  <2>3. QED BY <1>2, <2>2 DEF more
<1>3. CASE e.type = "disconnected"
  <2>1. n + 1 \in 1..Len(more) /\ more[n + 1].type = "disconnected"
    BY <1>1, <1>3
  <2>2. \A i \in 1..Len(more) : more[i].type = "registered" => n + 1 \in i + 1..Len(more)
    BY <1>1, <1>3
  <2>3. ~RegisteredAfter(r, more)
    BY <2>1, <2>2 DEF RegisteredAfter
  <2>4. QED BY <1>3, <2>3 DEF more
<1>4. CASE e.type \notin {"registered", "disconnected"}
  <2>1. (\A i \in 1..Len(more) : more[i].type # "disconnected")
           <=> \A i \in 1..n : es[i].type # "disconnected"
    BY <1>1, <1>4
  <2>2. ASSUME NEW i \in 1..n
        PROVE  (\A j \in i + 1..Len(more) : more[j].type # "disconnected")
                  <=> \A j \in i + 1..n : es[j].type # "disconnected"
    BY <1>1, <1>4
  <2>3. \A i \in 1..Len(more) : more[i].type = "registered" => i \in 1..n
    BY <1>1, <1>4
  <2>4. \A i \in 1..n : i \in 1..Len(more) /\ more[i] = es[i]
    BY <1>1
  <2>5. RegisteredAfter(r, more) <=> RegisteredAfter(r, es)
    BY <2>1, <2>2, <2>3, <2>4 DEF RegisteredAfter, n
  <2>6. QED BY <1>4, <2>5 DEF more
<1>5. QED BY <1>2, <1>3, <1>4

\* What the application does with an event it reads.
LEMMA ApplyKnown ==
    ASSUME NEW v \in View, NEW e \in SignalEvents
    PROVE  /\ Apply(v, e).sessions = Step(v.sessions, e)
           /\ Apply(v, e).registered <=> e.type = "registered" \/ (v.registered /\ e.type # "disconnected")
<1>1. v.sessions \subseteq Session /\ v.registered \in BOOLEAN
  BY DEF View
<1>2. CASE e.type \in {"registered", "signal"}
  BY <1>1, <1>2 DEF View, Apply, Step, Opens, Closes
<1>3. CASE e.type = "disconnected"
  BY <1>3 DEF Apply, Step, Opens, Closes
<1>4. CASE e.type = "peer_joined"
  <2>1. e.session \in Session
    BY <1>4 DEF SignalEvents
  <2>2. Apply(v, e) = [v EXCEPT !.sessions = @ \cup {e.session}]
    BY <1>4 DEF Apply
  <2>3. Step(v.sessions, e) = v.sessions \cup {e.session}
    BY <1>1, <1>4, <2>1 DEF Step, Opens, Closes
  <2>4. QED BY <1>4, <2>2, <2>3 DEF View
<1>5. CASE e.type = "peer_left"
  <2>1. Apply(v, e) = [v EXCEPT !.sessions = @ \ {e.session}]
    BY <1>5 DEF Apply
  <2>2. Step(v.sessions, e) = v.sessions \ {e.session}
    BY <1>1, <1>5 DEF Step, Opens, Closes
  <2>3. QED BY <1>5, <2>1, <2>2 DEF View
<1>6. QED BY <1>2, <1>3, <1>4, <1>5 DEF SignalEvents

\* What a listening application will know: whether it is registered; no session before
\* that; and from the server's confirmation on, once everything in flight was read, the
\* sessions that the server has open.
Truth ==
    handle =>
       /\ RegisteredWhenRead <=> pc = "relaying"
       /\ pc # "relaying" => SessionsWhenRead = {}
       /\ Published /\ Open => KnownAfter(SessionsWhenRead, inbox) = served

\* What is known is a set of sessions.
LEMMA KnownIsSessions == \A K, es : KnownAfter(K, es) \subseteq Session
  BY DEF KnownAfter

\* A message that says nothing of a session.
LEMMA StepSame ==
    ASSUME NEW K, K \subseteq Session, NEW e,
           e.type \notin {"peer_joined", "peer_left", "disconnected"}
    PROVE  Step(K, e) = K
  BY DEF Step, Opens, Closes

\* An event is sent to a listening application.
LEMMA SentEvent ==
    ASSUME TypeOK, NEW e \in SignalEvents, Event(e), handle, view' = view
    PROVE  /\ SessionsWhenRead' = Step(SessionsWhenRead, e)
           /\ RegisteredWhenRead' <=>
                 e.type = "registered" \/ (RegisteredWhenRead /\ e.type # "disconnected")
<1>1. /\ events' = Append(events, e) /\ events \in Seq(SignalEvents)
      /\ view.registered \in BOOLEAN
  BY DEF TypeOK, Event, View
<1>2. QED
  BY <1>1, KnownLonger, RegisteredLonger DEF SessionsWhenRead, RegisteredWhenRead

\* A session fails: everything it knew is gone with it.
LEMMA FailTruth == TypeOK /\ Fail => Truth'
<1> SUFFICES ASSUME TypeOK, Fail, handle' PROVE Truth'
  BY DEF Truth
<1>1. handle /\ view' = view /\ Event(Plain("disconnected")) /\ pc' = "sleeping" /\ inbox' = <<>>
  BY DEF Fail, CloseLink
<1>2. Plain("disconnected") \in SignalEvents /\ Plain("disconnected").type = "disconnected"
  BY MessageTypes DEF Plain
<1>3. SessionsWhenRead' = {} /\ ~RegisteredWhenRead'
  BY <1>1, <1>2, SentEvent DEF Step, Opens, Closes
<1>4. ~Published'
  BY <1>1 DEF Published
<1>5. QED BY <1>1, <1>3, <1>4 DEF Truth

\* A message was read; whether the client is registered and what it knows is seen to
\* elsewhere.
LEMMA ReadTruth ==
    ASSUME TypeOK, Truth, handle, inbox # <<>>, inbox' = Tail(inbox), ~Ends(inbox[1].type),
           Published, served' = served,
           SessionsWhenRead' = Step(SessionsWhenRead, inbox[1])
    PROVE  Open' => KnownAfter(SessionsWhenRead', inbox') = served'
<1>1. /\ inbox \in Seq(ServerMessages) /\ Head(inbox) = inbox[1]
      /\ Len(inbox) \in Nat \ {0} /\ Len(inbox') = Len(inbox) - 1
      /\ \A i \in 1..Len(inbox) - 1 : inbox'[i] = inbox[i + 1]
  BY Rest DEF TypeOK
<1>2. Open' => Open
  <2>1. SUFFICES ASSUME Open', NEW i \in 1..Len(inbox) PROVE ~Ends(inbox[i].type)
    BY DEF Open, Ends
  <2>2. CASE i = 1
    BY <2>2
  <2>3. CASE i # 1
    <3>1. i - 1 \in 1..Len(inbox') /\ inbox'[i - 1] = inbox[i]
      BY <1>1, <2>3
    <3>2. QED BY <2>1, <3>1 DEF Open, Ends
  <2>4. QED BY <2>2, <2>3
<1>3. KnownAfter(SessionsWhenRead, inbox) = KnownAfter(SessionsWhenRead', inbox')
  BY <1>1, KnownRest
<1>4. QED BY <1>2, <1>3 DEF Truth

\* A message while registering.
LEMMA ExpectTruth == ClientInv /\ Truth /\ ExpectMessage => Truth'
<1> SUFFICES ASSUME ClientInv, Truth, ExpectMessage PROVE Truth'
  OBVIOUS
<1>0. TypeOK
  BY DEF ClientInv
<1> DEFINE next == Registering(Head(inbox).type)
<1>1. CASE Fail
  BY <1>0, <1>1, FailTruth
<1>2. CASE ~Fail
  <2>1. SUFFICES ASSUME handle' PROVE Truth'
    BY DEF Truth
  <2>2. /\ pc \in {"challenge", "proof"} /\ inbox # <<>> /\ next # "failed"
        /\ pc' = next /\ inbox' = Tail(inbox) /\ Registered(next)
        /\ handle' = handle /\ view' = view /\ served' = served
    BY <1>2 DEF ExpectMessage
  <2>3. /\ inbox \in Seq(ServerMessages) /\ Head(inbox) = inbox[1] /\ 1 \in 1..Len(inbox)
        /\ Len(inbox) \in Nat \ {0} /\ Len(inbox') = Len(inbox) - 1
        /\ \A i \in 1..Len(inbox) - 1 : inbox'[i] = inbox[i + 1]
    BY <1>0, <2>2, Rest DEF TypeOK
  <2>4. /\ ~Ends(inbox[1].type) /\ inbox[1].type \notin {"peer_joined", "peer_left", "disconnected"}
        /\ next \in {"challenge", "proof", "relaying"}
        /\ next = "relaying" => inbox[1].type = "registered"
        /\ inbox[1].type = "registered" => next = "relaying"
    BY <2>2, <2>3 DEF Registering, Ends
  <2>5. SessionsWhenRead = {} /\ ~RegisteredWhenRead
    BY <2>1, <2>2 DEF Truth
  <2> HIDE DEF next
  <2>6. SessionsWhenRead' = {} /\ (RegisteredWhenRead' <=> next = "relaying")
    <3>1. CASE next = "relaying"
      <4>1. Plain("registered") \in SignalEvents /\ Plain("registered").type = "registered"
        BY MessageTypes DEF Plain
      <4>2. Event(Plain("registered"))
        BY <2>2, <3>1 DEF Registered
      <4>3. QED BY <1>0, <2>1, <2>2, <2>5, <3>1, <4>1, <4>2, SentEvent, StepSame
    <3>2. CASE next # "relaying"
      <4>1. events' = events
        BY <2>2, <3>2 DEF Registered
      <4>2. QED BY <2>2, <2>5, <3>2, <4>1 DEF SessionsWhenRead, RegisteredWhenRead
    <3>3. QED BY <3>1, <3>2
  <2>7. Published' => Published
    <3>1. CASE next = "relaying"
      BY <2>3, <2>4, <3>1 DEF Published
    <3>2. CASE next # "relaying"
      <4>1. \A i \in 1..Len(inbox') : i + 1 \in 1..Len(inbox) /\ inbox'[i] = inbox[i + 1]
        BY <2>3
      <4>2. QED BY <2>2, <3>2, <4>1 DEF Published
    <3>3. QED BY <3>1, <3>2
  <2>8. SessionsWhenRead' = Step(SessionsWhenRead, inbox[1])
    BY <2>4, <2>5, <2>6, StepSame
  <2>9. Published' /\ Open' => KnownAfter(SessionsWhenRead', inbox') = served'
    BY <1>0, <2>1, <2>2, <2>4, <2>7, <2>8, ReadTruth
  <2>10. QED BY <2>2, <2>6, <2>9 DEF Truth
<1>3. QED BY <1>1, <1>2

\* A message while relaying.
LEMMA ReceiveTruth == ClientInv /\ Truth /\ Receive => Truth'
<1> SUFFICES ASSUME ClientInv, Truth, Receive PROVE Truth'
  OBVIOUS
<1>0. TypeOK
  BY DEF ClientInv
<1>1. CASE Fail
  BY <1>0, <1>1, FailTruth
<1>2. CASE ~Fail
  <2> DEFINE m == Head(inbox)
  <2>1. SUFFICES ASSUME handle' PROVE Truth'
    BY DEF Truth
  <2>2. /\ pc = "relaying" /\ inbox # <<>> /\ ~Ends(m.type)
        /\ inbox' = Tail(inbox) /\ pc' = pc /\ handle' = handle /\ view' = view /\ served' = served
        /\ IF Decoded(m.type) THEN Event(m) ELSE UNCHANGED events
    BY <1>2 DEF Receive, task
  <2>3. m \in ServerMessages /\ m = inbox[1]
    BY <1>0, <2>2, Rest DEF TypeOK
  <2>4. m.type \notin {"registered", "disconnected"} \/ ~Decoded(m.type)
    BY DEF Decoded
  <2>5. RegisteredWhenRead
    BY <2>1, <2>2 DEF Truth
  <2>6. SessionsWhenRead' = Step(SessionsWhenRead, m) /\ RegisteredWhenRead'
    <3>1. CASE Decoded(m.type)
      BY <1>0, <2>1, <2>2, <2>3, <2>4, <2>5, <3>1, MessageTypes, SentEvent
    <3>2. CASE ~Decoded(m.type)
      <4>1. UNCHANGED <<SessionsWhenRead, RegisteredWhenRead>>
        BY <2>2, <3>2 DEF SessionsWhenRead, RegisteredWhenRead
      <4>2. m.type \notin {"peer_joined", "peer_left", "disconnected"}
        BY <2>3, <3>2 DEF Decoded, ServerMessages
      <4>3. QED BY <2>5, <4>1, <4>2, StepSame, KnownIsSessions DEF SessionsWhenRead
    <3>3. QED BY <3>1, <3>2
  <2>7. Published
    BY <2>2 DEF Published
  <2> HIDE DEF m
  <2>8. Open' => KnownAfter(SessionsWhenRead', inbox') = served'
    BY <1>0, <2>1, <2>2, <2>3, <2>6, <2>7, ReadTruth
  <2>9. QED BY <2>2, <2>6, <2>8 DEF Truth
<1>3. QED BY <1>1, <1>2

\* One more message arrives: what it says, the server did.
LEMMA ArrivalTruth ==
    ASSUME TypeOK, Truth, NEW m \in ServerMessages, inbox' = Append(inbox, m),
           UNCHANGED <<handle, events, view, pc>>,
           Published' => Published,
           Published /\ ~Ends(m.type) => served' = Step(served, m)
    PROVE  Truth'
<1> SUFFICES ASSUME handle PROVE Truth'
  BY DEF Truth
<1>1. /\ inbox \in Seq(ServerMessages) /\ Len(inbox) \in Nat /\ Len(inbox') = Len(inbox) + 1
      /\ \A i \in 1..Len(inbox) : inbox'[i] = inbox[i] /\ i \in 1..Len(inbox')
      /\ inbox'[Len(inbox) + 1] = m /\ Len(inbox) + 1 \in 1..Len(inbox')
  BY Longer DEF TypeOK
<1>2. Open' => Open /\ ~Ends(m.type)
  BY <1>1 DEF Open, Ends
<1>3. UNCHANGED <<SessionsWhenRead, RegisteredWhenRead>>
  BY DEF SessionsWhenRead, RegisteredWhenRead
<1>4. KnownAfter(SessionsWhenRead, inbox') = Step(KnownAfter(SessionsWhenRead, inbox), m)
  BY <1>1, KnownLonger
<1>5. QED BY <1>2, <1>3, <1>4 DEF Truth

\* The server answers a client that registers: no session is open.
LEMMA AnswersTruth ==
    ASSUME ClientInv, Truth, AnswersRegister \/ AnswersProof
    PROVE  Truth'
<1> SUFFICES ASSUME handle PROVE Truth'
  BY DEF Truth, AnswersRegister, AnswersProof, ServerSays, app
<1>1. /\ inbox = <<>> /\ pc \in {"challenge", "proof"} /\ served = {} /\ served' = served
      /\ UNCHANGED <<handle, events, view, pc>>
  <2>1. /\ inbox = <<>> /\ pc \in {"challenge", "proof"} /\ served' = served
        /\ UNCHANGED <<handle, events, view, pc>>
    BY DEF AnswersRegister, AnswersProof, ServerSays, app, task
  <2>2. ~Published
    BY <2>1 DEF Published
  <2>3. QED BY <2>1, <2>2 DEF ClientInv, Registrations
<1>2. UNCHANGED <<SessionsWhenRead, RegisteredWhenRead>> /\ SessionsWhenRead = {}
  BY <1>1 DEF SessionsWhenRead, RegisteredWhenRead, Truth
<1>3. \A s \in Seq(ServerMessages) : <<>> \o s = s
  BY ConcatEmptySeq
<1>4. \/ inbox' = <<Plain("challenge")>>
      \/ inbox' = <<Plain("welcome"), Plain("challenge")>>
      \/ inbox' = <<Plain("registered")>>
      \/ inbox' = <<Plain("pong"), Plain("registered")>>
  BY <1>1, <1>3, ShortAnswers DEF AnswersRegister, AnswersProof, ServerSays
<1>5. \A i \in 1..Len(inbox') : inbox'[i].type \notin {"peer_joined", "peer_left", "disconnected"}
  BY <1>4 DEF Plain
<1>6. KnownAfter({}, inbox') = {}
  BY <1>5 DEF KnownAfter, Opens
<1>7. QED BY <1>1, <1>2, <1>6 DEF Truth

\* A phone joins, speaks or leaves, and the server says so.
LEMMA PeerTruth ==
    ASSUME ClientInv, Truth, NEW s \in Session, PeerJoins(s) \/ PeerSignals(s) \/ PeerLeaves(s)
    PROVE  Truth'
<1>1. TypeOK /\ served \subseteq Session
  BY DEF ClientInv, TypeOK
<1>2. \A t \in {"peer_joined", "signal", "peer_left"} :
         /\ About(t, s) \in ServerMessages /\ About(t, s).type = t /\ About(t, s).session = s
  BY MessageTypes DEF About
<1>3. Published
  BY DEF PeerJoins, PeerSignals, PeerLeaves, ClientInv, Registrations
<1>4. ASSUME NEW t \in {"peer_joined", "signal", "peer_left"}, ServerSays(<<About(t, s)>>),
             served' = Step(served, About(t, s))
      PROVE  Truth'
  <2>1. inbox' = Append(inbox, About(t, s)) /\ UNCHANGED <<handle, events, view, pc>>
    BY <1>1, <1>2, <1>4, Longer DEF ServerSays, TypeOK, app, task
  <2>2. QED BY <1>1, <1>2, <1>3, <1>4, <2>1, ArrivalTruth
<1>5. CASE PeerJoins(s)
  <2>1. Step(served, About("peer_joined", s)) = served \cup {s}
    BY <1>1, <1>2 DEF Step, Opens, Closes
  <2>2. QED BY <1>4, <1>5, <2>1 DEF PeerJoins
<1>6. CASE PeerSignals(s)
  <2>1. Step(served, About("signal", s)) = served
    BY <1>1, <1>2, StepSame
  <2>2. QED BY <1>4, <1>6, <2>1 DEF PeerSignals
<1>7. CASE PeerLeaves(s)
  <2>1. Step(served, About("peer_left", s)) = served \ {s}
    BY <1>1, <1>2 DEF Step, Opens, Closes
  <2>2. QED BY <1>4, <1>7, <2>1 DEF PeerLeaves
<1>8. QED BY <1>5, <1>6, <1>7

\* The server fails: with a message that ends the connection, or in place of its answer.
LEMMA FaultTruth ==
    ASSUME ClientInv, Truth, ServerFails
    PROVE  Truth'
<1>1. TypeOK
  BY DEF ClientInv
<1>2. PICK m \in ServerMessages :
         /\ ServerSays(<<m>>)
         /\ \/ Ends(m.type)
            \/ pc \in {"challenge", "proof"} /\ inbox = <<>> /\ m.type \in {"error", "peer_joined"}
  <2>1. CASE \E type \in {"garbage", "close"} : ServerSays(<<Plain(type)>>)
    BY <2>1, MessageTypes DEF Ends, Plain
  <2>2. CASE /\ pc \in {"challenge", "proof"} /\ inbox = <<>>
             /\ \E m \in {Plain("error")} \cup {About("peer_joined", s) : s \in Session} :
                   ServerSays(<<m>>)
    <3>1. PICK m \in {Plain("error")} \cup {About("peer_joined", s) : s \in Session} :
             ServerSays(<<m>>)
      BY <2>2
    <3>2. m \in ServerMessages /\ m.type \in {"error", "peer_joined"}
      BY <3>1, MessageTypes DEF Plain, About
    <3>3. QED BY <2>2, <3>1, <3>2
  <2>3. QED BY <2>1, <2>2 DEF ServerFails
<1>3. inbox' = Append(inbox, m) /\ UNCHANGED <<handle, events, view, pc>>
  BY <1>1, <1>2, Longer DEF ServerSays, TypeOK, app, task
<1>4. /\ Len(inbox) \in Nat /\ Len(inbox') = Len(inbox) + 1
      /\ \A i \in 1..Len(inbox) : inbox'[i] = inbox[i] /\ i \in 1..Len(inbox')
      /\ inbox'[Len(inbox) + 1] = m
  BY <1>1, <1>3, Longer DEF TypeOK
<1>5. CASE Ends(m.type)
  <2>1. Published' => Published
    <3>1. m.type # "registered"
      BY <1>5 DEF Ends
    <3>2. \A i \in 1..Len(inbox') : i \in 1..Len(inbox) \/ inbox'[i] = m
      BY <1>4
    <3>3. QED BY <1>3, <1>4, <3>1, <3>2 DEF Published
  <2>2. QED BY <1>1, <1>3, <1>5, <2>1, ArrivalTruth
<1>6. CASE pc \in {"challenge", "proof"} /\ inbox = <<>> /\ m.type \in {"error", "peer_joined"}
  <2>1. Len(inbox) = 0
    BY <1>6
  <2>2. \A i \in 1..Len(inbox') : inbox'[i] = m
    BY <1>4, <2>1
  <2>3. ~Published /\ ~Published'
    BY <1>3, <1>6, <2>1, <2>2 DEF Published
  <2>4. QED BY <1>1, <1>3, <2>3, ArrivalTruth
<1>7. QED BY <1>2, <1>5, <1>6

\* The application reads an event.
LEMMA NextEventTruth == TypeOK /\ Truth /\ NextEvent => Truth'
<1> SUFFICES ASSUME TypeOK, Truth, NextEvent PROVE Truth'
  OBVIOUS
<1>1. /\ events # <<>> /\ view' = Apply(view, Head(events)) /\ events' = Tail(events)
      /\ UNCHANGED <<handle, pc, inbox, served>>
  BY DEF NextEvent, task, server
<1>2. /\ events \in Seq(SignalEvents) /\ Head(events) \in SignalEvents /\ view \in View
      /\ view.registered \in BOOLEAN
  BY <1>1, Rest DEF TypeOK, View
<1>3. SessionsWhenRead' = SessionsWhenRead
  <2>1. KnownAfter(view.sessions, events) = KnownAfter(Step(view.sessions, Head(events)), Tail(events))
    BY <1>1, <1>2, KnownRest
  <2>2. view'.sessions = Step(view.sessions, Head(events))
    BY <1>1, <1>2, ApplyKnown
  <2>3. QED BY <1>1, <2>1, <2>2 DEF SessionsWhenRead
<1>4. RegisteredWhenRead' <=> RegisteredWhenRead
  <2>1. RegisteredAfter(view.registered, events) =
           RegisteredAfter(Head(events).type = "registered"
                              \/ (view.registered /\ Head(events).type # "disconnected"),
                           Tail(events))
    BY <1>1, <1>2, RegisteredRest
  <2>2. view'.registered <=> Head(events).type = "registered"
                                \/ (view.registered /\ Head(events).type # "disconnected")
    BY <1>1, <1>2, ApplyKnown
  <2>3. view'.registered \in BOOLEAN
    BY <1>1, <1>2, ViewTypes DEF View
  <2>4. QED BY <1>1, <2>1, <2>2, <2>3 DEF RegisteredWhenRead, RegisteredAfter
<1>5. QED BY <1>1, <1>3, <1>4 DEF Truth, Published, Open

\* Nothing that the invariant speaks of changes, or nobody listens any more.
LEMMA FrameTruth ==
    ASSUME Truth, ~handle' \/ UNCHANGED <<handle, events, view, pc, inbox, served>>
    PROVE  Truth'
  BY DEF Truth, SessionsWhenRead, RegisteredWhenRead, Published, Open

\* Every step keeps the events true.
LEMMA TruthNext == ClientInv /\ Truth /\ [Next]_vars => Truth'
<1> SUFFICES ASSUME ClientInv, Truth, [Next]_vars PROVE Truth'
  OBVIOUS
<1>1. TypeOK
  BY DEF ClientInv
<1>2. CASE Wake \/ Connect
  <2>1. /\ inbox = <<>> /\ pc \notin {"relaying"} /\ pc' # "relaying"
        /\ UNCHANGED <<handle, events, view, inbox>>
    BY <1>2 DEF Wake, Connect, app, server, ClientInv, TypeOK, Registrations
  <2>2. ~Published'
    BY <2>1 DEF Published
  <2>3. UNCHANGED <<SessionsWhenRead, RegisteredWhenRead>>
    BY <2>1 DEF SessionsWhenRead, RegisteredWhenRead
  <2>4. QED BY <2>1, <2>2, <2>3 DEF Truth
<1>3. CASE ConnectFails \/ RegisterTimesOut \/ RelayFails \/ KeepaliveFails
  BY <1>1, <1>3, FailTruth DEF ConnectFails, RegisterTimesOut, RelayFails, KeepaliveFails
<1>4. CASE ExpectMessage \/ Receive
  BY <1>4, ExpectTruth, ReceiveTruth
<1>5. CASE Relay
  <2>1. UNCHANGED <<handle, events, view, pc, served>>
    BY <1>5 DEF Relay, task
  <2>2. CASE inbox' = Append(inbox, Plain("error"))
    <3>1. Plain("error") \in ServerMessages /\ Plain("error").type = "error"
      BY MessageTypes DEF Plain
    <3>2. served' = Step(served, Plain("error"))
      BY <1>1, <2>1, <3>1, StepSame DEF TypeOK
    <3>3. Published
      BY <1>5 DEF Relay, Published
    <3>4. QED BY <1>1, <2>1, <2>2, <3>1, <3>2, <3>3, ArrivalTruth
  <2>3. CASE inbox' = inbox
    BY <2>1, <2>3, FrameTruth
  <2>4. QED BY <1>5, <2>2, <2>3 DEF Relay, Deliver
<1>6. CASE HandleGone \/ DropClient
  BY <1>6, FrameTruth DEF HandleGone, DropClient, app
<1>7. CASE (\E s \in Session : SendSignal(s)) \/ LinkDies \/ UNCHANGED vars
  BY <1>7, FrameTruth DEF SendSignal, LinkDies, vars, app, task, server
<1>8. CASE NextEvent
  BY <1>1, <1>8, NextEventTruth
<1>9. CASE AnswersRegister \/ AnswersProof
  BY <1>9, AnswersTruth
<1>10. CASE \E s \in Session : PeerJoins(s) \/ PeerSignals(s) \/ PeerLeaves(s)
  BY <1>10, PeerTruth
<1>11. CASE ServerFails
  BY <1>11, FaultTruth
<1>12. QED
  BY <1>2, <1>3, <1>4, <1>5, <1>6, <1>7, <1>8, <1>9, <1>10, <1>11
     DEF Next, ApplicationStep, ServerStep

\* At first nothing is known and nothing was said.
LEMMA InitTruth == Init => Truth
  BY KnownNothing DEF Init, Truth, SessionsWhenRead, RegisteredWhenRead, RegisteredAfter, Published

-----------------------------------------------------------------------------
(* The specification *)

\* The client starts without a connection.
LEMMA InitInv == Init => ClientInv
<1> SUFFICES ASSUME Init PROVE ClientInv
  OBVIOUS
<1>1. TypeOK
  BY BackoffAssumption, EmptySeq DEF Init, TypeOK, View, PcState
<1>2. QueueInOrder
  BY <1>1, EmptySeq DEF Init, QueueInOrder, Rising
<1>3. Registrations /\ FaultsAccountForDrops
  BY DEF Init, Registrations, FaultsAccountForDrops, Doomed, Open, Misplaced, Scripted
<1>4. QED BY <1>1, <1>2, <1>3 DEF ClientInv

\* Every step of the task, the application, the server or the network keeps the invariant.
LEMMA NextInv == ClientInv /\ [Next]_vars => ClientInv'
<1> SUFFICES ASSUME ClientInv, [Next]_vars PROVE ClientInv'
  OBVIOUS
<1>1. TypeOK'
  BY ApplicationTypes, ServerTypes, TaskTypes
     DEF ClientInv, Next, vars, app, task, server, TypeOK
<1>2. QueueInOrder'
  BY QueueNext DEF ClientInv
<1>3. Registrations' /\ FaultsAccountForDrops'
  <2>1. CASE Wake
    <3>1. /\ link' = "down" /\ inbox' = <<>> /\ served' = {} /\ pc' = "connecting"
          /\ disconnects' <= faults'
      BY <2>1 DEF Wake, server, ClientInv, TypeOK, Registrations, FaultsAccountForDrops
    <3>2. QED BY <3>1, ClosedInv
  <2>2. CASE Connect
    <3>1. inbox' = <<>> /\ served' = {} /\ pc' = "challenge" /\ link' = "up"
          /\ disconnects' <= faults'
      BY <2>2 DEF Connect, ClientInv, TypeOK, Registrations, FaultsAccountForDrops
    <3>2. ~Doomed' /\ Scripted'
      BY <3>1 DEF Doomed, Open, Misplaced, Scripted
    <3>3. QED BY <3>1, <3>2 DEF Registrations, FaultsAccountForDrops
  <2>3. CASE ConnectFails \/ RegisterTimesOut \/ RelayFails \/ KeepaliveFails
    BY <2>3, FailInv DEF ConnectFails, RegisterTimesOut, RelayFails, KeepaliveFails, Doomed
  <2>4. CASE ExpectMessage
    BY <2>4, ExpectInv
  <2>5. CASE Receive
    BY <2>5, ReceiveInv
  <2>6. CASE Relay
    <3>1. /\ pc = "relaying" /\ link # "down" /\ ~Ends(Plain("error").type)
          /\ Plain("error") \in ServerMessages
          /\ UNCHANGED <<pc, link, served, disconnects, faults>>
      BY <2>6, MessageTypes DEF Relay, task, ClientInv, TypeOK, Ends, Plain
    <3>2. inbox' = inbox \/ inbox' = Append(inbox, Plain("error"))
      BY <2>6 DEF Relay, Deliver
    <3>3. served' # {} => Published
      BY <3>1 DEF Published
    <3>4. QED BY <3>1, <3>2, <3>3, ArrivalInv, FrameInv
  <2>7. CASE HandleGone
    <3>1. /\ link' = "down" /\ inbox' = <<>> /\ served' = {} /\ pc' = "sleeping"
          /\ disconnects' <= faults'
      BY <2>7 DEF HandleGone, CloseLink, ClientInv, FaultsAccountForDrops
    <3>2. QED BY <3>1, ClosedInv
  <2>8. CASE ApplicationStep \/ UNCHANGED vars
    BY <2>8, FrameInv DEF ApplicationStep, SendSignal, NextEvent, DropClient, vars, task, server
  <2>9. CASE ServerStep
    BY <2>9, AnswersInv, PeerInv, FaultInv DEF ServerStep
  <2>10. QED BY <2>1, <2>2, <2>3, <2>4, <2>5, <2>6, <2>7, <2>8, <2>9 DEF Next
<1>4. QED BY <1>1, <1>2, <1>3 DEF ClientInv

\* The invariant holds of every reachable state.
THEOREM Invariance == Spec => []ClientInv
  BY InitInv, NextInv, PTL DEF Spec

-----------------------------------------------------------------------------
(* What the invariant gives *)

\* What the application hands over reaches the server in that order and at most once, over
\* any number of registrations (the outbound queue of run_session, signal.rs).
THEOREM InOrder == Spec => []RelayedInOrder
<1>1. ClientInv => RelayedInOrder
  BY DEF ClientInv, QueueInOrder, Rising, RelayedInOrder
<1>2. QED BY <1>1, Invariance, PTL

\* Every Disconnected event has a fault of the server or of the network of its own; what
\* the server rejects while the client relays ends nothing.
THEOREM DropsAreFaults == Spec => []DropsNeedFaults
<1>1. ClientInv => DropsNeedFaults
  BY DEF ClientInv, FaultsAccountForDrops, DropsNeedFaults
<1>2. QED BY <1>1, Invariance, PTL

\* A listening application that has read everything knows whether the client is registered
\* and which sessions the server has open, over drops, reconnects and messages in any order
\* the server may send them (run_session and decode_event, signal.rs).
THEOREM EventsAreTrue == Spec => []EventsTellTheTruth
<1>1. Spec => []Truth
  <2>1. Init => Truth
    BY InitTruth
  <2>2. ClientInv /\ Truth /\ [Next]_vars => Truth'
    BY TruthNext
  <2>3. QED BY <2>1, <2>2, Invariance, PTL DEF Spec
<1>2. ClientInv /\ Truth => EventsTellTheTruth
  BY DEF ClientInv, Truth, Published, EventsTellTheTruth
<1>3. QED BY <1>1, <1>2, Invariance, PTL
=============================================================================
