----------------------------- MODULE Connection -----------------------------
(***************************************************************************)
(* Control connections of the daemon: handle_connection, handle_pair and   *)
(* handle_auth in src/server.rs over SecureChannel in src/crypto.rs.       *)
(* Cryptography is abstracted to whether a frame is intact; what the       *)
(* handlers find in the store, or a command does, is nondeterministic      *)
(* (TrustStore and DaemonLocks have it).  Network and clients are          *)
(* external.                                                               *)
(***************************************************************************)
EXTENDS PairRateLimiter

CONSTANTS
    Conn,          \* connections
    Ip,            \* addresses
    IpOf,          \* [Conn -> Ip], peer.ip()
    Private,       \* addresses of private networks and of the host itself
    RequirePrivateLan, AllowPublicPairing,   \* the configuration
    MaxAttempts,   \* max_pair_attempts_per_minute
    Window,        \* sixty seconds, in ticks
    MaxRequests,   \* bound: [Conn -> Nat], requests of a connection
    MaxTime,       \* bound: ticks
    MaxFaults      \* bound: frames lost, repeated, swapped or damaged

ASSUME ConnectionAssumption ==
    /\ IpOf \in [Conn -> Ip] /\ Private \subseteq Ip
    /\ RequirePrivateLan \in BOOLEAN /\ AllowPublicPairing \in BOOLEAN
    /\ MaxAttempts \in Nat /\ Window \in Nat
    /\ MaxRequests \in [Conn -> Nat] /\ MaxTime \in Nat /\ MaxFaults \in Nat

VARIABLES
    phase,     \* where handle_connection is
    asked,     \* requests the client sent, numbered from 1
    toDaemon,  \* frames in flight
    nextIn,    \* next_inbound_seq
    nextOut,   \* next_outbound_seq
    auth,      \* authenticated.is_some()
    reply,     \* the response being sent
    replies,   \* frames written to the socket: their number and the request they answer
    told,      \* history: a written response said that the client is paired or authenticated
    bucket,    \* attempts of an address that count
    now,       \* Instant::now()
    compared,  \* history: times at which an address went past the limiter
    faults     \* faults so far

conns == <<phase, asked, toDaemon, nextIn, nextOut, auth, reply, replies, told>>
limiter == <<bucket, compared>>
vars == <<conns, limiter, now, faults>>

Kinds == {"pair", "auth", "command", "ping"}
Results == {"granted", "ok", "rejected", "limited", "unauthenticated", "failed"}
Frames == [seq : Nat, kind : Kinds, intact : BOOLEAN]
Answers == [about : Nat \ {0}, result : Results]
NoReply == [about |-> 0, result |-> "none"]

TypeOK ==
    /\ phase \in [Conn -> {"new", "open", "closed"}]
    /\ asked \in [Conn -> Nat]
    /\ toDaemon \in [Conn -> Seq(Frames)]
    /\ nextIn \in [Conn -> Nat] /\ nextOut \in [Conn -> Nat]
    /\ auth \in [Conn -> BOOLEAN]
    /\ reply \in [Conn -> Answers \cup {NoReply}]
    /\ replies \in [Conn -> Seq([seq : Nat, about : Nat \ {0}])]
    /\ told \in [Conn -> BOOLEAN]
    /\ bucket \in [Ip -> Seq(0..MaxTime)]
    /\ \A ip \in Ip : Len(bucket[ip]) <= MaxAttempts
    /\ compared \in [Ip -> Seq(0..MaxTime)]
    /\ now \in 0..MaxTime /\ faults \in 0..MaxFaults

Init ==
    /\ phase = [c \in Conn |-> "new"]
    /\ asked = [c \in Conn |-> 0] /\ toDaemon = [c \in Conn |-> <<>>]
    /\ nextIn = [c \in Conn |-> 0] /\ nextOut = [c \in Conn |-> 0]
    /\ auth = [c \in Conn |-> FALSE]
    /\ reply = [c \in Conn |-> NoReply] /\ replies = [c \in Conn |-> <<>>]
    /\ told = [c \in Conn |-> FALSE]
    /\ bucket = [ip \in Ip |-> <<>>] /\ compared = [ip \in Ip |-> <<>>]
    /\ now = 0 /\ faults = 0

-----------------------------------------------------------------------------
(* The beginning and the end of a connection *)

Set(f, c, value) == [f EXCEPT ![c] = value]

\* Any error returns from handle_connection and drops the socket and all its state.
Close(c) ==
    /\ phase' = Set(phase, c, "closed")
    /\ asked' = Set(asked, c, 0) /\ toDaemon' = Set(toDaemon, c, <<>>)
    /\ nextIn' = Set(nextIn, c, 0) /\ nextOut' = Set(nextOut, c, 0)
    /\ auth' = Set(auth, c, FALSE)
    /\ reply' = Set(reply, c, NoReply) /\ replies' = Set(replies, c, <<>>)
    /\ told' = Set(told, c, FALSE)

\* maybe_accept_stream_attach: the first bytes have five seconds; an attach line hands
\* the socket to the ScreenManager (ScreenSessions), and this loop never sees it again.
AcceptAttach(c) ==
    /\ phase[c] = "new"
    /\ phase' = Set(phase, c, "closed")
    /\ UNCHANGED <<asked, toDaemon, nextIn, nextOut, auth, reply, replies, told, limiter, now, faults>>

\* SecureChannel::server, which has no deadline: fresh counters, or an error.
Handshake(c) ==
    /\ phase[c] = "new"
    /\ \E next \in {"open", "closed"} : phase' = Set(phase, c, next)
    /\ UNCHANGED <<asked, toDaemon, nextIn, nextOut, auth, reply, replies, told, limiter, now, faults>>

-----------------------------------------------------------------------------
(* The loop: recv, one handler, send *)

Head1(c) == Head(toDaemon[c])

\* Mutant of Acceptable: the sequence number is only counted, not compared.
AcceptableAny(c) == Head1(c).intact

\* What recv accepts: the expected number, and a ciphertext that opens under it.
Acceptable(c) == Head1(c).seq = nextIn[c] /\ Head1(c).intact

\* The request in the frame at hand.
Request(c) == Head1(c).seq + 1

\* recv returned a request of this kind; the counter moves before the frame is opened.
Takes(c, kind) ==
    /\ phase[c] = "open" /\ reply[c] = NoReply /\ toDaemon[c] # <<>>
    /\ Acceptable(c) /\ Head1(c).kind = kind
    /\ nextIn' = [nextIn EXCEPT ![c] = @ + 1]
    /\ toDaemon' = [toDaemon EXCEPT ![c] = Tail(@)]
    /\ UNCHANGED <<phase, asked, nextOut, replies, told, now, faults>>

RecvFails(c) ==
    /\ phase[c] = "open" /\ reply[c] = NoReply /\ toDaemon[c] # <<>>
    /\ ~Acceptable(c)
    /\ Close(c)
    /\ UNCHANGED <<limiter, now, faults>>

Respond(c, result) == reply' = [reply EXCEPT ![c] = [about |-> Request(c), result |-> result]]

\* Mutant of Grant: a device that could not be saved is let in as well.
GrantAny(c, result) == auth' = [auth EXCEPT ![c] = @ \/ result \in {"granted", "failed"}]

\* `if let Some(device)`: a refusal leaves an earlier authentication alone.
Grant(c, result) == auth' = [auth EXCEPT ![c] = @ \/ result = "granted"]

\* Mutant of Bucket: attempts are counted per connection.
BucketOfConnection(c) == SelectSeq(bucket[IpOf[c]], LAMBDA t : nextIn[c] > 0)

Bucket(c) == bucket[IpOf[c]]

\* The name is checked first and costs no attempt.
PairBadName(c) ==
    /\ Takes(c, "pair")
    /\ Respond(c, "rejected")
    /\ UNCHANGED <<auth, limiter>>

\* PairRateLimiter::allow.
PairLimited(c) ==
    /\ Takes(c, "pair")
    /\ ~Allowed(Bucket(c), now, Window, MaxAttempts)
    /\ bucket' = [bucket EXCEPT ![IpOf[c]] = AfterAttempt(Bucket(c), now, Window, MaxAttempts)]
    /\ Respond(c, "limited")
    /\ UNCHANGED <<auth, compared>>

IsPrivateOrLocal(ip) == ip \in Private

CanPairPublicly(ip) == ~RequirePrivateLan \/ AllowPublicPairing \/ IsPrivateOrLocal(ip)

\* Then the address, the code, the new device and its save.
Pair(c) ==
    /\ Takes(c, "pair")
    /\ Allowed(Bucket(c), now, Window, MaxAttempts)
    /\ bucket' = [bucket EXCEPT ![IpOf[c]] = AfterAttempt(Bucket(c), now, Window, MaxAttempts)]
    /\ compared' = [compared EXCEPT ![IpOf[c]] = Append(@, now)]
    /\ \E result \in IF CanPairPublicly(IpOf[c]) THEN {"granted", "rejected", "failed"} ELSE {"rejected"} :
           Respond(c, result) /\ Grant(c, result)

Authenticate(c) ==
    /\ Takes(c, "auth")
    /\ \E result \in {"granted", "rejected", "failed"} : Respond(c, result) /\ Grant(c, result)
    /\ UNCHANGED limiter

\* Mutant of CommandRefused: `continue` without an answer.
CommandIgnored(c) ==
    /\ Takes(c, "command") /\ ~auth[c]
    /\ UNCHANGED <<auth, reply, limiter>>

CommandRefused(c) ==
    /\ Takes(c, "command") /\ ~auth[c]
    /\ Respond(c, "unauthenticated")
    /\ UNCHANGED <<auth, limiter>>

RunCommand(c) ==
    /\ Takes(c, "command") /\ auth[c]
    /\ Respond(c, "ok")
    /\ UNCHANGED <<auth, limiter>>

Ping(c) ==
    /\ Takes(c, "ping")
    /\ Respond(c, "ok")
    /\ UNCHANGED <<auth, limiter>>

\* Mutant of NextNumber: an error response does not use up its number.
NextNumberIfOk(c) == IF reply[c].result \in {"granted", "ok"} THEN nextOut[c] + 1 ELSE nextOut[c]

\* SecureChannel::send counts first: a number is used once, whatever becomes of it.
NextNumber(c) == nextOut[c] + 1

Send(c) ==
    /\ phase[c] = "open" /\ reply[c] # NoReply
    /\ nextOut' = Set(nextOut, c, NextNumber(c))
    /\ replies' = [replies EXCEPT ![c] = Append(@, [seq |-> nextOut[c], about |-> reply[c].about])]
    /\ told' = [told EXCEPT ![c] = @ \/ reply[c].result = "granted"]
    /\ reply' = Set(reply, c, NoReply)
    /\ UNCHANGED <<phase, asked, toDaemon, nextIn, auth, limiter, now, faults>>

\* A response above 256 KiB, or a client that went away.
SendFails(c) ==
    /\ phase[c] = "open" /\ reply[c] # NoReply
    /\ Close(c)
    /\ UNCHANGED <<limiter, now, faults>>

-----------------------------------------------------------------------------
(* Clients, network and time (external) *)

ClientAsks(c, kind) ==
    /\ phase[c] = "open" /\ asked[c] < MaxRequests[c]
    /\ asked' = [asked EXCEPT ![c] = @ + 1]
    /\ toDaemon' = [toDaemon EXCEPT ![c] =
                        Append(@, [seq |-> asked[c], kind |-> kind, intact |-> TRUE])]
    /\ UNCHANGED <<phase, nextIn, nextOut, auth, reply, replies, told, limiter, now, faults>>

\* read_line returns nothing: the client closed.
ClientLeaves(c) ==
    /\ phase[c] = "open" /\ reply[c] = NoReply /\ toDaemon[c] = <<>>
    /\ Close(c)
    /\ UNCHANGED <<limiter, now, faults>>

\* What may become of frames on the way: lost, repeated, swapped, damaged.
Disturbed(q) ==
    {SubSeq(q, 1, i - 1) \o SubSeq(q, i + 1, Len(q)) : i \in DOMAIN q}
        \cup {SubSeq(q, 1, i) \o SubSeq(q, i, Len(q)) : i \in DOMAIN q}
        \cup {[q EXCEPT ![i] = q[i + 1], ![i + 1] = q[i]] : i \in 1..Len(q) - 1}
        \cup {[q EXCEPT ![i].intact = FALSE] : i \in DOMAIN q}

NetworkFault(c) ==
    /\ faults < MaxFaults /\ faults' = faults + 1
    /\ \E q \in Disturbed(toDaemon[c]) : toDaemon' = [toDaemon EXCEPT ![c] = q]
    /\ UNCHANGED <<phase, asked, nextIn, nextOut, auth, reply, replies, told, limiter, now>>

Tick ==
    /\ now < MaxTime /\ now' = now + 1
    /\ UNCHANGED <<conns, limiter, faults>>

-----------------------------------------------------------------------------
Handle(c) == \/ PairBadName(c) \/ PairLimited(c) \/ Pair(c) \/ Authenticate(c)
             \/ CommandRefused(c) \/ RunCommand(c) \/ Ping(c) \/ RecvFails(c)

Daemon(c) == AcceptAttach(c) \/ Handshake(c) \/ Handle(c) \/ Send(c) \/ SendFails(c)

Next == \/ \E c \in Conn : \/ Daemon(c) \/ ClientLeaves(c) \/ NetworkFault(c)
                           \/ \E kind \in Kinds : ClientAsks(c, kind)
        \/ Tick

\* What handle_connection does without waiting for anything.
Prompt(c) == RecvFails(c) \/ PairLimited(c) \/ CommandRefused(c) \/ Ping(c)

\* The other handlers wait for locks, for the disk or for the guard of the discovery
\* task (DaemonLocks), and write_all in SecureChannel::send waits for the client to
\* read, all without a deadline: none of them needs to end.  Nothing is assumed of
\* clients, or of the handshake, which waits for one.
Spec == Init /\ [][Next]_vars /\ \A c \in Conn : WF_vars(Prompt(c))

-----------------------------------------------------------------------------
(* Properties *)

\* Requests are executed once, in the order in which the client sent them, and the
\* k-th response answers the k-th request under the k-th number, whatever happens to
\* frames on the way.  (And the state is well typed.)
OneReplyPerRequest ==
    TypeOK /\ \A c \in Conn :
        /\ \A k \in DOMAIN replies[c] : replies[c][k].about = k /\ replies[c][k].seq = k - 1
        /\ reply[c] # NoReply => reply[c].about = Len(replies[c]) + 1

\* A connection may send commands exactly if it was told that it is paired or
\* authenticated, or is about to be told: not after a save that failed, and a later
\* refusal takes nothing away.
GrantedAsTold ==
    \A c \in Conn : auth[c] <=> (told[c] \/ reply[c].result = "granted")

\* In no window of a minute, ends included, more attempts of an address than the
\* limit go past the limiter, over however many connections.
AttemptsAreLimited ==
    \A ip \in Ip : \A i \in DOMAIN compared[ip] :
        i + MaxAttempts \in DOMAIN compared[ip]
            => compared[ip][i + MaxAttempts] - compared[ip][i] > Window

\* An address is refused only for attempts of the last minute that went past the
\* limiter: refused ones do not keep it locked out.  (A limit of zero refuses all.)
RecentAttempts(ip) == {i \in DOMAIN compared[ip] : now - compared[ip][i] <= Window}

RefusedForCause ==
    [][\A c \in Conn : reply'[c].result = "limited" /\ reply[c] = NoReply
           => (MaxAttempts = 0 \/ RecentAttempts(IpOf[c]) # {}) /\ \A i \in DOMAIN compared[IpOf[c]] :
                  i > Len(compared[IpOf[c]]) - MaxAttempts => i \in RecentAttempts(IpOf[c])]_vars

\* The loop is in a handler that may wait.
InHandler(c) ==
    /\ phase[c] = "open" /\ reply[c] = NoReply /\ toDaemon[c] # <<>> /\ Acceptable(c)
    /\ \/ Head1(c).kind = "pair" /\ Allowed(Bucket(c), now, Window, MaxAttempts)
       \/ Head1(c).kind = "auth"
       \/ Head1(c).kind = "command" /\ auth[c]

\* The loop is in the write of a response.
InWrite(c) == phase[c] = "open" /\ reply[c] # NoReply

\* What arrived is taken and answered, or the connection ends, unless one handler or one
\* write never ends: the loop itself loses no request, answers each it takes, and goes
\* on to the next one.
RequestsAreAnswered ==
    \A c \in Conn : (phase[c] = "open" /\ (toDaemon[c] # <<>> \/ reply[c] # NoReply))
        ~> \/ phase[c] = "closed"
           \/ toDaemon[c] = <<>> /\ Len(replies[c]) = nextIn[c]
           \/ []InHandler(c)
           \/ []InWrite(c)
=============================================================================
