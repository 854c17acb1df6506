-------------------------- MODULE ConnectionProofs --------------------------
(***************************************************************************)
(* Proofs about Connection for every set of connections and addresses and  *)
(* every limit.                                                            *)
(***************************************************************************)
EXTENDS Connection, SequenceTheorems, FiniteSetTheorems, WellFoundedInduction, TLAPS

-----------------------------------------------------------------------------
(* The limiter *)

\* A non-empty set of positions in a sequence has a first one.
LEMMA FirstExists ==
    ASSUME NEW n \in Nat, NEW S \in SUBSET (1..n), S # {}
    PROVE  Min(S) \in S /\ \A x \in S : Min(S) <= x
<1> DEFINE Below(x) == {y \in S : y < x}
           T == {Below(x) : x \in S}
<1>1. IsFiniteSet(S)
  <2>1. IsFiniteSet(1..n)
    BY FS_Interval, 1 \in Int, n \in Int
  <2>2. QED BY <2>1, FS_Subset
<1>2. T \subseteq FiniteSubsetsOf(S) /\ T # {}
  <2>1. \A x \in S : Below(x) \in SUBSET S /\ IsFiniteSet(Below(x))
    BY <1>1, FS_Subset
  <2>2. QED BY <2>1 DEF FiniteSubsetsOf
<1>3. PICK low \in T : \A U \in T : ~(<<U, low>> \in StrictSubsetOrdering(S))
  <2> HIDE DEF T
  <2>1. QED BY <1>2, FS_StrictSubsetOrderingWellFounded, WFMin
<1>4. PICK m \in S : low = Below(m)
  BY <1>3
<1>5. \A x \in S : m <= x
  <2> SUFFICES ASSUME NEW x \in S, x < m PROVE FALSE
    OBVIOUS
  <2>1. x \in Below(m) /\ x \notin Below(x)
    OBVIOUS
  <2>2. \A y \in S : y < x => y < m
    <3>1. \A y \in S : y \in Nat
      OBVIOUS
    <3>2. QED BY <3>1
  <2>3. <<Below(x), Below(m)>> \in StrictSubsetOrdering(S)
    <3>1. Below(x) \subseteq Below(m) /\ Below(x) # Below(m)
      BY <2>1, <2>2
    <3>2. Below(x) \in SUBSET S /\ Below(m) \in SUBSET S
      OBVIOUS
    <3> HIDE DEF Below
    <3>3. QED BY <3>1, <3>2 DEF StrictSubsetOrdering
  <2>4. QED BY <1>3, <1>4, <2>3
<1>6. QED BY <1>5 DEF Min

\* b is what is left of a without its first k elements.
EndsWith(a, b, k) == Len(b) = Len(a) - k /\ \A i \in 1..Len(b) : b[i] = a[k + i]

\* What the limiter keeps is the end of what it had: all before has expired, and
\* the first of what it keeps has not.
LEMMA PrunedIsEnd ==
    ASSUME NEW S, S \subseteq Nat, NEW b \in Seq(S), NEW time \in Nat, NEW window \in Nat
    PROVE  /\ Pruned(b, time, window) \in Seq(S)
           /\ \E k \in 0..Len(b) :
                /\ EndsWith(b, Pruned(b, time, window), k)
                /\ \A i \in 1..k : Expired(b[i], time, window)
                /\ k < Len(b) => ~Expired(b[k + 1], time, window)
<1> DEFINE fresh == {i \in DOMAIN b : ~Expired(b[i], time, window)}
<1>1. Len(b) \in Nat /\ DOMAIN b = 1..Len(b) /\ \A i \in 1..Len(b) : b[i] \in S
  BY LenProperties
<1>2. CASE fresh = {}
  <2>1. Pruned(b, time, window) = <<>>
    BY <1>2 DEF Pruned
  <2>2. EndsWith(b, <<>>, Len(b))
    BY <1>1 DEF EndsWith
  <2>3. QED BY <1>1, <1>2, <2>1, <2>2
<1>3. CASE fresh # {}
  <2>1. Min(fresh) \in fresh /\ \A x \in fresh : Min(fresh) <= x
    <3> HIDE DEF fresh
    <3>1. fresh \in SUBSET (1..Len(b))
      BY <1>1 DEF fresh
    <3>2. QED BY <1>1, <1>3, <3>1, FirstExists
  <2>2. Pruned(b, time, window) = SubSeq(b, Min(fresh), Len(b))
    BY <1>3 DEF Pruned
  <2>3. PICK m \in 1..Len(b) : m = Min(fresh)
    <3>1. Min(fresh) \in 1..Len(b)
      BY <1>1, <2>1
    <3>2. QED BY <3>1
  <2>4. m - 1 \in 0..Len(b) /\ (m - 1) + 1 = m
    BY <1>1
  <2>5. \A i \in 1..m - 1 : Expired(b[i], time, window)
    <3> SUFFICES ASSUME NEW i \in 1..m - 1 PROVE i \notin fresh
      BY <1>1
    <3>1. i < m
      BY <1>1
    <3> HIDE DEF fresh
    <3>2. QED BY <1>1, <2>1, <2>3, <3>1
  <2>6. ~Expired(b[m], time, window)
    BY <2>1, <2>3
  <2>7. /\ SubSeq(b, m, Len(b)) \in Seq(S)
        /\ EndsWith(b, SubSeq(b, m, Len(b)), m - 1)
    <3>1. m \in Int /\ Len(b) \in Int /\ \A i \in m..Len(b) : b[i] \in S
      BY <1>1
    <3>2. /\ SubSeq(b, m, Len(b)) \in Seq(S)
          /\ Len(SubSeq(b, m, Len(b))) = IF m <= Len(b) THEN Len(b) - m + 1 ELSE 0
          /\ \A i \in 1..Len(b) - m + 1 : SubSeq(b, m, Len(b))[i] = b[m + i - 1]
      BY <3>1, SubSeqProperties
    <3>3. QED BY <1>1, <3>2 DEF EndsWith
  <2>8. QED BY <2>2, <2>3, <2>4, <2>5, <2>6, <2>7
<1>4. QED BY <1>2, <1>3

\* Applied to the end of a longer history, it keeps a shorter end of it.
LEMMA PrunedOfHistory ==
    ASSUME NEW S, S \subseteq Nat, NEW a \in Seq(S), NEW b \in Seq(S), NEW time \in Nat,
           NEW window \in Nat, NEW k \in 0..Len(a), EndsWith(a, b, k),
           \A i \in 1..k : Expired(a[i], time, window)
    PROVE  \E m \in 0..Len(a) :
              /\ EndsWith(a, Pruned(b, time, window), m)
              /\ \A i \in 1..m : Expired(a[i], time, window)
              /\ m < Len(a) => ~Expired(a[m + 1], time, window)
<1>1. Len(a) \in Nat /\ Len(b) \in Nat /\ Len(Pruned(b, time, window)) \in Nat
  BY PrunedIsEnd, LenProperties
<1>2. PICK j \in 0..Len(b) :
         /\ EndsWith(b, Pruned(b, time, window), j)
         /\ \A i \in 1..j : Expired(b[i], time, window)
         /\ j < Len(b) => ~Expired(b[j + 1], time, window)
  BY PrunedIsEnd
<1>3. k + j \in 0..Len(a)
  BY <1>1 DEF EndsWith
<1>4. EndsWith(a, Pruned(b, time, window), k + j)
  <2>1. Len(Pruned(b, time, window)) = Len(a) - (k + j)
    BY <1>1, <1>2 DEF EndsWith
  <2>2. \A i \in 1..Len(Pruned(b, time, window)) : Pruned(b, time, window)[i] = b[j + i]
    BY <1>2 DEF EndsWith
  <2>3. \A i \in 1..Len(Pruned(b, time, window)) : j + i \in 1..Len(b) /\ k + (j + i) = (k + j) + i
    BY <1>1, <1>2, SMTT(30) DEF EndsWith
  <2>4. \A i \in 1..Len(b) : b[i] = a[k + i]
    BY DEF EndsWith
  <2>5. \A i \in 1..Len(Pruned(b, time, window)) : Pruned(b, time, window)[i] = a[(k + j) + i]
    BY <2>2, <2>3, <2>4
  <2>6. QED BY <2>1, <2>5 DEF EndsWith
<1>5. \A i \in 1..k + j : Expired(a[i], time, window)
  <2> SUFFICES ASSUME NEW i \in 1..k + j, i > k PROVE Expired(a[i], time, window)
    BY <1>1
  <2>1. i - k \in 1..j /\ i - k \in 1..Len(b) /\ k + (i - k) = i
    BY <1>1
  <2>2. b[i - k] = a[k + (i - k)]
    BY <2>1 DEF EndsWith
  <2>3. QED BY <1>2, <2>1, <2>2
<1>6. k + j < Len(a) => ~Expired(a[(k + j) + 1], time, window)
  <2> SUFFICES ASSUME k + j < Len(a) PROVE ~Expired(a[(k + j) + 1], time, window)
    OBVIOUS
  <2>1. j < Len(b) /\ j + 1 \in 1..Len(b) /\ k + (j + 1) = (k + j) + 1
    BY <1>1 DEF EndsWith
  <2>2. b[j + 1] = a[k + (j + 1)]
    BY <2>1 DEF EndsWith
  <2>3. QED BY <1>2, <2>1, <2>2
<1>7. QED BY <1>3, <1>4, <1>5, <1>6

-----------------------------------------------------------------------------
(* Types *)

\* The variables of the connections, and those of the limiter and the clock.
ConnTypes ==
    /\ phase \in [Conn -> {"new", "open", "closed"}]
    /\ asked \in [Conn -> Nat]
    /\ toDaemon \in [Conn -> Seq(Frames)]
    /\ nextIn \in [Conn -> Nat] /\ nextOut \in [Conn -> Nat]
    /\ auth \in [Conn -> BOOLEAN]
    /\ reply \in [Conn -> Answers \cup {NoReply}]
    /\ replies \in [Conn -> Seq([seq : Nat, about : Nat \ {0}])]
    /\ told \in [Conn -> BOOLEAN]

LimiterTypes ==
    /\ bucket \in [Ip -> Seq(0..MaxTime)]
    /\ \A ip \in Ip : Len(bucket[ip]) <= MaxAttempts
    /\ compared \in [Ip -> Seq(0..MaxTime)]
    /\ now \in 0..MaxTime /\ faults \in 0..MaxFaults

\* TypeOK is the two of them.
LEMMA TypeParts == TypeOK <=> ConnTypes /\ LimiterTypes
  BY DEF TypeOK, ConnTypes, LimiterTypes

\* Taking a request off the network: the counter and the queue.
LEMMA TakesOne ==
    ASSUME ConnTypes, NEW c \in Conn, NEW kind, Takes(c, kind)
    PROVE  /\ nextIn' = [nextIn EXCEPT ![c] = @ + 1] /\ nextIn' \in [Conn -> Nat]
           /\ toDaemon' \in [Conn -> Seq(Frames)]
           /\ reply[c] = NoReply /\ Request(c) = nextIn[c] + 1 /\ Request(c) \in Nat \ {0}
           /\ UNCHANGED <<phase, asked, nextOut, replies, told, now, faults>>
<1>1. toDaemon[c] \in Seq(Frames) /\ toDaemon[c] # <<>> /\ nextIn[c] \in Nat
  BY DEF Takes, ConnTypes
<1>2. Tail(toDaemon[c]) \in Seq(Frames)
  BY <1>1, HeadTailProperties
<1>3. Request(c) = nextIn[c] + 1
  BY DEF Takes, Acceptable, Request, Head1
<1>4. QED BY <1>1, <1>2, <1>3 DEF Takes, ConnTypes

\* The answer of a handler is well formed.
LEMMA RespondTypes ==
    ASSUME ConnTypes, NEW c \in Conn, NEW result \in Results, Request(c) \in Nat \ {0},
           Respond(c, result)
    PROVE  reply' \in [Conn -> Answers \cup {NoReply}]
  BY DEF Respond, ConnTypes, Answers

\* A connection that ends leaves no state behind.
LEMMA CloseTypes == ASSUME ConnTypes, NEW c \in Conn, Close(c) PROVE ConnTypes'
  BY DEF Close, Set, ConnTypes

\* Every handler answers with one of the results and may let the client in.
LEMMA HandlerTypes ==
    ASSUME ConnTypes, NEW c \in Conn, Handle(c)
    PROVE  ConnTypes'
<1>1. ASSUME NEW kind, Takes(c, kind), NEW result \in Results, Respond(c, result),
             auth' \in [Conn -> BOOLEAN]
      PROVE  ConnTypes'
  BY <1>1, TakesOne, RespondTypes DEF ConnTypes
<1>2. \A result : Grant(c, result) => auth' \in [Conn -> BOOLEAN]
  BY DEF Grant, ConnTypes
<1>3. CASE PairBadName(c)
  BY <1>1, <1>3 DEF PairBadName, ConnTypes, Results
<1>4. CASE PairLimited(c)
  BY <1>1, <1>4 DEF PairLimited, ConnTypes, Results
<1>5. CASE Pair(c)
  <2>1. PICK result \in {"granted", "rejected", "failed"} : Respond(c, result) /\ Grant(c, result)
    BY <1>5 DEF Pair
  <2>2. QED BY <1>1, <1>2, <1>5, <2>1 DEF Pair, Results
<1>6. CASE Authenticate(c)
  <2>1. PICK result \in {"granted", "rejected", "failed"} : Respond(c, result) /\ Grant(c, result)
    BY <1>6 DEF Authenticate
  <2>2. QED BY <1>1, <1>2, <1>6, <2>1 DEF Authenticate, Results
<1>7. CASE CommandRefused(c)
  BY <1>1, <1>7 DEF CommandRefused, ConnTypes, Results
<1>8. CASE RunCommand(c)
  BY <1>1, <1>8 DEF RunCommand, ConnTypes, Results
<1>9. CASE Ping(c)
  BY <1>1, <1>9 DEF Ping, ConnTypes, Results
<1>10. CASE RecvFails(c)
  BY <1>10, CloseTypes DEF RecvFails
<1>11. QED BY <1>3, <1>4, <1>5, <1>6, <1>7, <1>8, <1>9, <1>10 DEF Handle

\* Whatever becomes of frames on the way, frames remain.
LEMMA DisturbedTypes ==
    ASSUME NEW q \in Seq(Frames)
    PROVE  Disturbed(q) \subseteq Seq(Frames)
<1>1. Len(q) \in Nat /\ DOMAIN q = 1..Len(q) /\ \A i \in 1..Len(q) : q[i] \in Frames
  BY LenProperties
<1>2. \A i \in 1..Len(q) : /\ SubSeq(q, 1, i - 1) \in Seq(Frames)
                           /\ SubSeq(q, 1, i) \in Seq(Frames)
                           /\ SubSeq(q, i, Len(q)) \in Seq(Frames)
                           /\ SubSeq(q, i + 1, Len(q)) \in Seq(Frames)
  <2>1. \A m, n \in Int : (\A i \in m..n : q[i] \in Frames) => SubSeq(q, m, n) \in Seq(Frames)
    BY SubSeqProperties
  <2>2. QED BY <1>1, <2>1
<1>3. \A i \in 1..Len(q) : /\ SubSeq(q, 1, i - 1) \o SubSeq(q, i + 1, Len(q)) \in Seq(Frames)
                           /\ SubSeq(q, 1, i) \o SubSeq(q, i, Len(q)) \in Seq(Frames)
  BY <1>2, ConcatProperties
<1>4. \A i \in 1..Len(q) - 1 : [q EXCEPT ![i] = q[i + 1], ![i + 1] = q[i]] \in Seq(Frames)
  <2> SUFFICES ASSUME NEW i \in 1..Len(q) - 1
               PROVE  [q EXCEPT ![i] = q[i + 1], ![i + 1] = q[i]] \in Seq(Frames)
    OBVIOUS
  <2>1. q \in [1..Len(q) -> Frames] /\ i \in 1..Len(q) /\ i + 1 \in 1..Len(q)
    BY <1>1, LenProperties
  <2>2. [q EXCEPT ![i] = q[i + 1], ![i + 1] = q[i]] \in [1..Len(q) -> Frames]
    BY <1>1, <2>1
  <2>3. QED BY <1>1, <2>2
<1>5. \A i \in 1..Len(q) : [q EXCEPT ![i].intact = FALSE] \in Seq(Frames)
  <2> SUFFICES ASSUME NEW i \in 1..Len(q) PROVE [q EXCEPT ![i].intact = FALSE] \in Seq(Frames)
    OBVIOUS
  <2>1. [q[i] EXCEPT !.intact = FALSE] \in Frames
    BY <1>1 DEF Frames
  <2>2. [q EXCEPT ![i].intact = FALSE] \in [1..Len(q) -> Frames]
    BY <1>1, <2>1, LenProperties
  <2>3. QED BY <1>1, <2>2
<1>6. QED BY <1>1, <1>3, <1>4, <1>5 DEF Disturbed

\* Every step keeps the variables of the connections in their sets.
LEMMA ConnTypesStep ==
    ASSUME ConnTypes, [Next]_vars
    PROVE  ConnTypes'
<1>1. ASSUME NEW c \in Conn, AcceptAttach(c) PROVE ConnTypes'
  BY <1>1 DEF AcceptAttach, Set, ConnTypes
<1>2. ASSUME NEW c \in Conn, Handshake(c) PROVE ConnTypes'
  BY <1>2 DEF Handshake, Set, ConnTypes
<1>3. ASSUME NEW c \in Conn, Handle(c) PROVE ConnTypes'
  BY <1>3, HandlerTypes
<1>4. ASSUME NEW c \in Conn, Send(c) PROVE ConnTypes'
  <2>1. nextOut[c] \in Nat /\ reply[c] \in Answers /\ replies[c] \in Seq([seq : Nat, about : Nat \ {0}])
    BY <1>4 DEF Send, ConnTypes
  <2>2. [seq |-> nextOut[c], about |-> reply[c].about] \in [seq : Nat, about : Nat \ {0}]
    BY <2>1 DEF Answers
  <2>3. Append(replies[c], [seq |-> nextOut[c], about |-> reply[c].about]) \in Seq([seq : Nat, about : Nat \ {0}])
    BY <2>1, <2>2, AppendProperties
  <2>4. replies' \in [Conn -> Seq([seq : Nat, about : Nat \ {0}])]
    BY <1>4, <2>3 DEF Send, ConnTypes
  <2>5. nextOut' \in [Conn -> Nat] /\ told' \in [Conn -> BOOLEAN]
        /\ reply' \in [Conn -> Answers \cup {NoReply}]
    BY <1>4, <2>1 DEF Send, NextNumber, Set, ConnTypes
  <2>6. QED BY <1>4, <2>4, <2>5 DEF Send, ConnTypes
<1>5. ASSUME NEW c \in Conn, SendFails(c) PROVE ConnTypes'
  BY <1>5, CloseTypes DEF SendFails
<1>6. ASSUME NEW c \in Conn, ClientLeaves(c) PROVE ConnTypes'
  BY <1>6, CloseTypes DEF ClientLeaves
<1>7. ASSUME NEW c \in Conn, NetworkFault(c) PROVE ConnTypes'
  <2>1. toDaemon' \in [Conn -> Seq(Frames)]
    BY <1>7, DisturbedTypes DEF NetworkFault, ConnTypes
  <2>2. QED BY <1>7, <2>1 DEF NetworkFault, ConnTypes
<1>8. ASSUME NEW c \in Conn, NEW kind \in Kinds, ClientAsks(c, kind) PROVE ConnTypes'
  <2>1. [seq |-> asked[c], kind |-> kind, intact |-> TRUE] \in Frames
    BY DEF Frames, ConnTypes
  <2>2. Append(toDaemon[c], [seq |-> asked[c], kind |-> kind, intact |-> TRUE]) \in Seq(Frames)
    BY <2>1, AppendProperties DEF ConnTypes
  <2>3. QED BY <1>8, <2>2 DEF ClientAsks, ConnTypes
<1>9. CASE Tick
  BY <1>9 DEF Tick, conns, ConnTypes
<1>10. CASE UNCHANGED vars
  BY <1>10 DEF vars, conns, ConnTypes
<1>11. QED BY <1>1, <1>2, <1>3, <1>4, <1>5, <1>6, <1>7, <1>8, <1>9, <1>10 DEF Next, Daemon

\* The bucket of an address never holds more than the limit, in any handler.
LEMMA LimiterTypesStep ==
    ASSUME ConnectionAssumption, ConnTypes, LimiterTypes, [Next]_vars
    PROVE  LimiterTypes'
<1>1. 0..MaxTime \subseteq Nat /\ now \in Nat /\ Window \in Nat /\ MaxAttempts \in Nat
  BY DEF LimiterTypes, ConnectionAssumption
<1>2. ASSUME NEW ip \in Ip
      PROVE  LET kept == Pruned(bucket[ip], now, Window)
             IN  /\ kept \in Seq(0..MaxTime) /\ Len(kept) \in Nat /\ Len(kept) <= MaxAttempts
                 /\ Append(kept, now) \in Seq(0..MaxTime)
                 /\ Len(Append(kept, now)) = Len(kept) + 1
  <2> DEFINE kept == Pruned(bucket[ip], now, Window)
  <2>1. bucket[ip] \in Seq(0..MaxTime) /\ Len(bucket[ip]) <= MaxAttempts /\ Len(bucket[ip]) \in Nat
    BY LenProperties DEF LimiterTypes
  <2>2. kept \in Seq(0..MaxTime) /\ \E k \in 0..Len(bucket[ip]) : EndsWith(bucket[ip], kept, k)
    BY <1>1, <2>1, PrunedIsEnd
  <2>3. Len(kept) \in Nat /\ Len(kept) <= MaxAttempts
    BY <1>1, <2>1, <2>2, LenProperties DEF EndsWith
  <2> HIDE DEF kept
  <2>4. Append(kept, now) \in Seq(0..MaxTime) /\ Len(Append(kept, now)) = Len(kept) + 1
    BY <2>2, AppendProperties DEF LimiterTypes
  <2>5. QED BY <2>2, <2>3, <2>4 DEF kept
<1>3. ASSUME NEW ip \in Ip, NEW S \in Seq(0..MaxTime), Len(S) <= MaxAttempts,
             bucket' = [bucket EXCEPT ![ip] = S]
      PROVE  bucket' \in [Ip -> Seq(0..MaxTime)] /\ \A a \in Ip : Len(bucket'[a]) <= MaxAttempts
  BY <1>3 DEF LimiterTypes
<1>4. ASSUME NEW c \in Conn, PairLimited(c) PROVE LimiterTypes'
  <2>1. IpOf[c] \in Ip
    BY DEF ConnectionAssumption
  <2>2. AfterAttempt(Bucket(c), now, Window, MaxAttempts) = Pruned(bucket[IpOf[c]], now, Window)
    BY <1>4 DEF PairLimited, AfterAttempt, Bucket
  <2>3. bucket' \in [Ip -> Seq(0..MaxTime)] /\ \A a \in Ip : Len(bucket'[a]) <= MaxAttempts
    BY <1>2, <1>3, <1>4, <2>1, <2>2 DEF PairLimited
  <2>4. QED BY <1>4, <2>3 DEF PairLimited, Takes, LimiterTypes
<1>5. ASSUME NEW c \in Conn, Pair(c) PROVE LimiterTypes'
  <2>1. IpOf[c] \in Ip
    BY DEF ConnectionAssumption
  <2>2. /\ AfterAttempt(Bucket(c), now, Window, MaxAttempts)
                = Append(Pruned(bucket[IpOf[c]], now, Window), now)
        /\ Len(Pruned(bucket[IpOf[c]], now, Window)) < MaxAttempts
    BY <1>5 DEF Pair, AfterAttempt, Bucket, Allowed
  <2>3. Len(Append(Pruned(bucket[IpOf[c]], now, Window), now)) <= MaxAttempts
    BY <1>1, <1>2, <2>1, <2>2
  <2>4. bucket' \in [Ip -> Seq(0..MaxTime)] /\ \A a \in Ip : Len(bucket'[a]) <= MaxAttempts
    BY <1>2, <1>3, <1>5, <2>1, <2>2, <2>3 DEF Pair
  <2>5. Append(compared[IpOf[c]], now) \in Seq(0..MaxTime)
    BY <2>1, AppendProperties DEF LimiterTypes
  <2>6. compared' \in [Ip -> Seq(0..MaxTime)]
    BY <1>5, <2>5 DEF Pair, LimiterTypes
  <2>7. QED BY <1>5, <2>4, <2>6 DEF Pair, Takes, LimiterTypes
<1>6. ASSUME UNCHANGED <<limiter, now>>, faults' \in 0..MaxFaults PROVE LimiterTypes'
  BY <1>6 DEF limiter, LimiterTypes
<1>7. ASSUME NEW c \in Conn, NetworkFault(c) PROVE LimiterTypes'
  <2>1. faults' \in 0..MaxFaults
    BY <1>7 DEF NetworkFault, LimiterTypes, ConnectionAssumption
  <2>2. QED BY <1>6, <1>7, <2>1 DEF NetworkFault
<1>8. CASE Tick
  BY <1>8, ConnectionAssumption DEF Tick, limiter, LimiterTypes, ConnectionAssumption
<1>9. CASE UNCHANGED <<limiter, now, faults>>
  BY <1>6, <1>9 DEF LimiterTypes
<1>10. ASSUME NEW c \in Conn, Handle(c) PROVE LimiterTypes'
  BY <1>4, <1>5, <1>9, <1>10 DEF Handle, PairBadName, Authenticate, CommandRefused, RunCommand,
       Ping, RecvFails, Takes
<1>11. QED
  BY <1>7, <1>8, <1>9, <1>10 DEF Next, Daemon, AcceptAttach, Handshake, Send, SendFails,
       ClientLeaves, ClientAsks, vars

-----------------------------------------------------------------------------
(* Responses *)

\* The counters and the responses of a connection agree, between any two steps.
Numbered(c) ==
    /\ nextOut[c] = Len(replies[c])
    /\ reply[c] = NoReply => nextIn[c] = Len(replies[c])
    /\ reply[c] # NoReply => nextIn[c] = Len(replies[c]) + 1 /\ reply[c].about = nextIn[c]
    /\ \A k \in DOMAIN replies[c] : replies[c][k].about = k /\ replies[c][k].seq = k - 1

AllNumbered == \A c \in Conn : Numbered(c)

\* Taking a request counts it, sending its answer counts that one, closing resets both:
\* they never come apart by more than the answer being sent.
LEMMA AllNumberedStep ==
    ASSUME ConnTypes, AllNumbered, [Next]_vars
    PROVE  AllNumbered'
<1> SUFFICES ASSUME NEW d \in Conn PROVE Numbered(d)'
  BY DEF AllNumbered
<1>1. Len(replies[d]) \in Nat /\ nextIn[d] \in Nat
  BY LenProperties DEF ConnTypes
<1>0. /\ nextOut[d] = Len(replies[d])
      /\ reply[d] = NoReply => nextIn[d] = Len(replies[d])
      /\ reply[d] # NoReply => nextIn[d] = Len(replies[d]) + 1 /\ reply[d].about = nextIn[d]
      /\ \A k \in DOMAIN replies[d] : replies[d][k].about = k /\ replies[d][k].seq = k - 1
  BY DEF AllNumbered, Numbered
<1>2. CASE UNCHANGED <<nextOut[d], nextIn[d], reply[d], replies[d]>>
  BY <1>2 DEF AllNumbered, Numbered
<1>3. ASSUME NEW c \in Conn, Close(c) PROVE Numbered(d)'
  <2>1. CASE c = d
    <3>1. /\ nextOut'[d] = 0 /\ nextIn'[d] = 0 /\ reply'[d] = NoReply /\ replies'[d] = <<>>
      BY <1>3, <2>1 DEF Close, Set, ConnTypes
    <3>2. Len(<<>>) = 0 /\ DOMAIN <<>> = {}
      BY EmptySeq, LenProperties
    <3>3. QED BY <3>1, <3>2 DEF Numbered
  <2>2. CASE c # d
    BY <1>2, <1>3, <2>2 DEF Close, Set, ConnTypes
  <2>3. QED BY <2>1, <2>2
<1>4. ASSUME NEW c \in Conn, NEW kind, Takes(c, kind), NEW result \in Results, Respond(c, result)
      PROVE  Numbered(d)'
  <2>1. CASE c = d
    <3>1. nextIn'[d] = nextIn[d] + 1 /\ reply[d] = NoReply /\ Request(d) = nextIn[d] + 1
          /\ UNCHANGED <<nextOut, replies>>
      BY <1>4, <2>1, TakesOne DEF ConnTypes
    <3>2. reply'[d] = [about |-> Request(d), result |-> result]
      BY <1>4, <2>1 DEF Respond, ConnTypes
    <3>3. reply'[d] # NoReply /\ reply'[d].about = nextIn'[d]
      BY <1>1, <3>1, <3>2 DEF NoReply
    <3>4. nextOut[d] = Len(replies[d]) /\ nextIn[d] = Len(replies[d])
      BY <1>0, <3>1
    <3>5. \A k \in DOMAIN replies'[d] : replies'[d][k].about = k /\ replies'[d][k].seq = k - 1
      BY <1>0, <3>1
    <3>6. QED BY <1>1, <3>1, <3>3, <3>4, <3>5 DEF Numbered
  <2>2. CASE c # d
    BY <1>2, <1>4, <2>2, TakesOne DEF Respond, ConnTypes
  <2>3. QED BY <2>1, <2>2
<1>5. ASSUME NEW c \in Conn, Handle(c) PROVE Numbered(d)'
  <2>1. CASE RecvFails(c)
    BY <1>3, <2>1 DEF RecvFails
  <2>2. CASE PairBadName(c)
    BY <1>4, <2>2 DEF PairBadName, Results
  <2>3. CASE PairLimited(c)
    BY <1>4, <2>3 DEF PairLimited, Results
  <2>4. CASE Pair(c)
    BY <1>4, <2>4 DEF Pair, Results
  <2>5. CASE Authenticate(c)
    BY <1>4, <2>5 DEF Authenticate, Results
  <2>6. CASE CommandRefused(c)
    BY <1>4, <2>6 DEF CommandRefused, Results
  <2>7. CASE RunCommand(c)
    BY <1>4, <2>7 DEF RunCommand, Results
  <2>8. CASE Ping(c)
    BY <1>4, <2>8 DEF Ping, Results
  <2>9. QED BY <1>5, <2>1, <2>2, <2>3, <2>4, <2>5, <2>6, <2>7, <2>8 DEF Handle
<1>6. ASSUME NEW c \in Conn, Send(c) PROVE Numbered(d)'
  <2>1. CASE c = d
    <3> DEFINE frame == [seq |-> nextOut[d], about |-> reply[d].about]
    <3>1. /\ nextOut'[d] = nextOut[d] + 1 /\ UNCHANGED nextIn
          /\ replies'[d] = Append(replies[d], frame) /\ reply'[d] = NoReply /\ reply[d] # NoReply
      BY <1>6, <2>1 DEF Send, Set, NextNumber, ConnTypes
    <3>2. replies[d] \in Seq([seq : Nat, about : Nat \ {0}])
      BY DEF ConnTypes
    <3>3. frame \in [seq : Nat, about : Nat \ {0}]
      BY <3>1 DEF ConnTypes, Answers
    <3>4. /\ Len(replies'[d]) = Len(replies[d]) + 1
          /\ DOMAIN replies'[d] = 1..Len(replies[d]) + 1
          /\ \A k \in 1..Len(replies[d]) : replies'[d][k] = replies[d][k]
          /\ replies'[d][Len(replies[d]) + 1] = frame
      <4> HIDE DEF frame
      <4>1. QED BY <3>1, <3>2, <3>3, AppendProperties, LenProperties
    <3>5. frame.about = Len(replies[d]) + 1 /\ frame.seq = Len(replies[d])
      BY <1>0, <3>1
    <3>6. DOMAIN replies[d] = 1..Len(replies[d])
      BY <3>2, LenProperties
    <3>7. \A k \in DOMAIN replies'[d] : replies'[d][k].about = k /\ replies'[d][k].seq = k - 1
      <4> SUFFICES ASSUME NEW k \in 1..Len(replies[d]) + 1
                   PROVE  replies'[d][k].about = k /\ replies'[d][k].seq = k - 1
        BY <3>4
      <4> HIDE DEF frame
      <4>1. CASE k = Len(replies[d]) + 1
        <5>1. replies'[d][k] = frame
          BY <3>4, <4>1
        <5>2. k - 1 = Len(replies[d])
          BY <1>1, <4>1
        <5>3. QED BY <3>5, <4>1, <5>1, <5>2
      <4>2. CASE k # Len(replies[d]) + 1
        <5>1. k \in 1..Len(replies[d])
          BY <1>1, <4>2
        <5>2. QED BY <1>0, <3>4, <3>6, <5>1
      <4>3. QED BY <4>1, <4>2
    <3>8. nextOut[d] = Len(replies[d]) /\ nextIn[d] = Len(replies[d]) + 1
      BY <1>0, <3>1
    <3> HIDE DEF frame
    <3>9. QED BY <1>1, <3>1, <3>4, <3>7, <3>8 DEF Numbered
  <2>2. CASE c # d
    BY <1>2, <1>6, <2>2 DEF Send, Set, ConnTypes
  <2>3. QED BY <2>1, <2>2
<1>7. ASSUME UNCHANGED <<nextOut, nextIn, reply, replies>> PROVE Numbered(d)'
  BY <1>2, <1>7
<1>8. CASE \E c \in Conn : SendFails(c) \/ ClientLeaves(c)
  BY <1>3, <1>8 DEF SendFails, ClientLeaves
<1>9. QED
  BY <1>5, <1>6, <1>7, <1>8 DEF Next, Daemon, AcceptAttach, Handshake, NetworkFault, ClientAsks,
       Tick, vars, conns

-----------------------------------------------------------------------------
(* Who may send commands *)

\* Only a handler that answers "granted" sets the flag, and sending that answer tells
\* the client.
LEMMA GrantedAsToldStep ==
    ASSUME ConnTypes, GrantedAsTold, [Next]_vars
    PROVE  GrantedAsTold'
<1> SUFFICES ASSUME NEW d \in Conn
             PROVE  (auth[d] <=> (told[d] \/ reply[d].result = "granted"))'
  BY DEF GrantedAsTold
<1>1. auth[d] <=> (told[d] \/ reply[d].result = "granted")
  BY DEF GrantedAsTold
<1>2. NoReply.result # "granted"
  BY DEF NoReply
<1>3. CASE UNCHANGED <<auth[d], told[d], reply[d]>>
  BY <1>1, <1>3
<1>4. ASSUME NEW c \in Conn, Close(c)
      PROVE  (auth[d] <=> (told[d] \/ reply[d].result = "granted"))'
  <2>1. CASE c = d
    <3>1. auth'[d] = FALSE /\ told'[d] = FALSE /\ reply'[d] = NoReply
      BY <1>4, <2>1 DEF Close, Set, ConnTypes
    <3>2. QED BY <1>2, <3>1
  <2>2. CASE c # d
    BY <1>3, <1>4, <2>2 DEF Close, Set, ConnTypes
  <2>3. QED BY <2>1, <2>2
\* An answer that is no grant leaves the authentication alone; a grant gives it.
<1>5. ASSUME NEW c \in Conn, NEW kind, Takes(c, kind), NEW result \in Results, Respond(c, result),
             (UNCHANGED auth /\ result # "granted") \/ Grant(c, result)
      PROVE  (auth[d] <=> (told[d] \/ reply[d].result = "granted"))'
  <2>1. CASE c = d
    <3>1. reply[d] = NoReply /\ told'[d] = told[d] /\ reply'[d].result = result
      BY <1>5, <2>1, TakesOne DEF Respond, ConnTypes
    <3>2. auth[d] <=> told[d]
      BY <1>1, <1>2, <3>1
    <3>3. auth'[d] <=> (auth[d] \/ result = "granted")
      BY <1>5, <2>1 DEF Grant, ConnTypes
    <3>4. QED BY <3>1, <3>2, <3>3
  <2>2. CASE c # d
    BY <1>3, <1>5, <2>2, TakesOne DEF Respond, Grant, ConnTypes
  <2>3. QED BY <2>1, <2>2
<1>6. ASSUME NEW c \in Conn, Handle(c)
      PROVE  (auth[d] <=> (told[d] \/ reply[d].result = "granted"))'
  <2>1. CASE RecvFails(c)
    BY <1>4, <2>1 DEF RecvFails
  <2>2. CASE PairBadName(c)
    BY <1>5, <2>2 DEF PairBadName, Results
  <2>3. CASE PairLimited(c)
    BY <1>5, <2>3 DEF PairLimited, Results
  <2>4. CASE Pair(c)
    BY <1>5, <2>4 DEF Pair, Results
  <2>5. CASE Authenticate(c)
    BY <1>5, <2>5 DEF Authenticate, Results
  <2>6. CASE CommandRefused(c)
    BY <1>5, <2>6 DEF CommandRefused, Results
  <2>7. CASE RunCommand(c)
    BY <1>5, <2>7 DEF RunCommand, Results
  <2>8. CASE Ping(c)
    BY <1>5, <2>8 DEF Ping, Results
  <2>9. QED BY <1>6, <2>1, <2>2, <2>3, <2>4, <2>5, <2>6, <2>7, <2>8 DEF Handle
<1>7. ASSUME NEW c \in Conn, Send(c)
      PROVE  (auth[d] <=> (told[d] \/ reply[d].result = "granted"))'
  <2>1. CASE c = d
    <3>1. /\ told'[d] = (told[d] \/ reply[d].result = "granted")
          /\ auth' = auth /\ reply'[d] = NoReply
      BY <1>7, <2>1 DEF Send, Set, ConnTypes
    <3>2. QED BY <1>1, <1>2, <3>1
  <2>2. CASE c # d
    BY <1>3, <1>7, <2>2 DEF Send, Set, ConnTypes
  <2>3. QED BY <2>1, <2>2
<1>8. ASSUME UNCHANGED <<auth, told, reply>>
      PROVE  (auth[d] <=> (told[d] \/ reply[d].result = "granted"))'
  BY <1>3, <1>8
<1>9. CASE \E c \in Conn : SendFails(c) \/ ClientLeaves(c)
  BY <1>4, <1>9 DEF SendFails, ClientLeaves
<1>10. QED
  BY <1>6, <1>7, <1>8, <1>9 DEF Next, Daemon, AcceptAttach, Handshake, NetworkFault, ClientAsks,
       Tick, vars, conns

-----------------------------------------------------------------------------
(* The sliding window *)

\* The bucket of an address is the end of its history, and all before it has expired.
\* The history is in the order of time.
WindowOf(ip) ==
    /\ \E k \in 0..Len(compared[ip]) :
           EndsWith(compared[ip], bucket[ip], k) /\ \A i \in 1..k : Expired(compared[ip][i], now, Window)
    /\ \A i, j \in DOMAIN compared[ip] : i <= j => compared[ip][i] <= compared[ip][j]
    /\ \A i \in DOMAIN compared[ip] : compared[ip][i] <= now

LimiterInv == AttemptsAreLimited /\ \A ip \in Ip : WindowOf(ip)

\* What the limiter keeps of the history of an address, now.
LEMMA KeptOfHistory ==
    ASSUME ConnectionAssumption, LimiterTypes, LimiterInv, NEW ip \in Ip
    PROVE  \E m \in 0..Len(compared[ip]) :
              /\ EndsWith(compared[ip], Pruned(bucket[ip], now, Window), m)
              /\ \A i \in 1..m : Expired(compared[ip][i], now, Window)
              /\ m < Len(compared[ip]) => ~Expired(compared[ip][m + 1], now, Window)
<1>1. 0..MaxTime \subseteq Nat /\ now \in Nat /\ Window \in Nat
  BY DEF LimiterTypes, ConnectionAssumption
<1>2. compared[ip] \in Seq(0..MaxTime) /\ bucket[ip] \in Seq(0..MaxTime)
  BY DEF LimiterTypes
<1>3. PICK k \in 0..Len(compared[ip]) :
         EndsWith(compared[ip], bucket[ip], k) /\ \A i \in 1..k : Expired(compared[ip][i], now, Window)
  BY DEF LimiterInv, WindowOf
<1>4. QED BY <1>1, <1>2, <1>3, PrunedOfHistory

\* Time only passes, so what has expired stays expired; an attempt that is let through
\* is appended to the history and to the bucket.
LEMMA LimiterInvStep ==
    ASSUME ConnectionAssumption, ConnTypes, LimiterTypes, LimiterInv, [Next]_vars
    PROVE  LimiterInv'
<1>1. 0..MaxTime \subseteq Nat /\ now \in Nat /\ Window \in Nat /\ MaxAttempts \in Nat
  BY DEF LimiterTypes, ConnectionAssumption
<1>2. ASSUME NEW ip \in Ip
      PROVE  /\ compared[ip] \in Seq(0..MaxTime) /\ bucket[ip] \in Seq(0..MaxTime)
             /\ Len(compared[ip]) \in Nat /\ DOMAIN compared[ip] = 1..Len(compared[ip])
             /\ \A i \in 1..Len(compared[ip]) : compared[ip][i] \in Nat
  BY <1>1, LenProperties DEF LimiterTypes
<1>3. ASSUME UNCHANGED limiter, now' \in Nat, now <= now' PROVE LimiterInv'
  <2>1. ASSUME NEW ip \in Ip PROVE WindowOf(ip)'
    <3>1. PICK k \in 0..Len(compared[ip]) :
            EndsWith(compared[ip], bucket[ip], k) /\ \A i \in 1..k : Expired(compared[ip][i], now, Window)
      BY DEF LimiterInv, WindowOf
    <3>2. \A i \in 1..k : Expired(compared[ip][i], now', Window)
      BY <1>1, <1>2, <1>3, <3>1, SMTT(30) DEF Expired
    <3>3. \A i \in DOMAIN compared[ip] : compared[ip][i] <= now'
      BY <1>1, <1>2, <1>3 DEF LimiterInv, WindowOf
    <3>4. QED BY <1>3, <3>1, <3>2, <3>3 DEF WindowOf, LimiterInv, limiter, EndsWith
  <2>2. AttemptsAreLimited'
    BY <1>3 DEF LimiterInv, AttemptsAreLimited, limiter
  <2>3. QED BY <2>1, <2>2 DEF LimiterInv
<1>4. ASSUME NEW c \in Conn, PairLimited(c) PROVE LimiterInv'
  <2> DEFINE a == IpOf[c]
  <2>1. a \in Ip
    BY DEF ConnectionAssumption
  <2>2. bucket' = [bucket EXCEPT ![a] = Pruned(bucket[a], now, Window)]
        /\ compared' = compared /\ now' = now
    BY <1>4 DEF PairLimited, AfterAttempt, Bucket, Takes
  <2> HIDE DEF a
  <2>3. ASSUME NEW ip \in Ip PROVE WindowOf(ip)'
    <3>1. \E k \in 0..Len(compared[ip]) :
            EndsWith(compared[ip], bucket'[ip], k) /\ \A i \in 1..k : Expired(compared[ip][i], now, Window)
      <4>1. CASE ip = a
        BY <2>1, <2>2, <4>1, KeptOfHistory DEF LimiterTypes
      <4>2. CASE ip # a
        BY <2>2, <4>2 DEF LimiterInv, WindowOf, LimiterTypes
      <4>3. QED BY <4>1, <4>2
    <3>2. /\ \A i, j \in DOMAIN compared[ip] : i <= j => compared[ip][i] <= compared[ip][j]
          /\ \A i \in DOMAIN compared[ip] : compared[ip][i] <= now
      BY DEF LimiterInv, WindowOf
    <3>3. /\ \A i, j \in DOMAIN compared'[ip] : i <= j => compared'[ip][i] <= compared'[ip][j]
          /\ \A i \in DOMAIN compared'[ip] : compared'[ip][i] <= now'
      BY <2>2, <3>2
    <3>4. \E k \in 0..Len(compared'[ip]) :
            EndsWith(compared'[ip], bucket'[ip], k) /\ \A i \in 1..k : Expired(compared'[ip][i], now', Window)
      BY <2>2, <3>1
    <3>5. QED BY <3>3, <3>4 DEF WindowOf
  <2>4. AttemptsAreLimited'
    BY <2>2 DEF LimiterInv, AttemptsAreLimited
  <2>5. QED BY <2>3, <2>4 DEF LimiterInv
<1>5. ASSUME NEW c \in Conn, Pair(c) PROVE LimiterInv'
  <2> DEFINE a == IpOf[c]
             kept == Pruned(bucket[a], now, Window)
             n == Len(compared[a])
  <2>1. a \in Ip
    BY DEF ConnectionAssumption
  <2>2. /\ bucket' = [bucket EXCEPT ![a] = Append(kept, now)]
        /\ compared' = [compared EXCEPT ![a] = Append(@, now)]
        /\ Len(kept) < MaxAttempts /\ now' = now
    BY <1>5 DEF Pair, AfterAttempt, Allowed, Bucket, Takes
  <2> HIDE DEF a
  <2>3. PICK m \in 0..n : /\ EndsWith(compared[a], kept, m)
                          /\ \A i \in 1..m : Expired(compared[a][i], now, Window)
    BY <2>1, KeptOfHistory
  <2>4. kept \in Seq(0..MaxTime) /\ Len(kept) \in Nat /\ n \in Nat
    BY <1>1, <1>2, <2>1, PrunedIsEnd, LenProperties
  <2> HIDE DEF kept
  <2>5. /\ Len(Append(kept, now)) = Len(kept) + 1
        /\ \A i \in 1..Len(kept) : Append(kept, now)[i] = kept[i]
        /\ Append(kept, now)[Len(kept) + 1] = now
    BY <2>4, AppendProperties DEF LimiterTypes
  <2>6. /\ compared'[a] = Append(compared[a], now)
        /\ Len(compared'[a]) = n + 1 /\ DOMAIN compared'[a] = 1..n + 1
        /\ \A i \in 1..n : compared'[a][i] = compared[a][i]
        /\ compared'[a][n + 1] = now
    <3>1. compared'[a] = Append(compared[a], now) /\ now \in 0..MaxTime
      BY <2>1, <2>2 DEF LimiterTypes
    <3>2. QED BY <1>2, <2>1, <3>1, AppendProperties, LenProperties
  <2>7. \A ip \in Ip : ip # a => compared'[ip] = compared[ip] /\ bucket'[ip] = bucket[ip]
    BY <2>2 DEF LimiterTypes
  <2>8. WindowOf(a)'
    <3>1. EndsWith(compared'[a], bucket'[a], m)
      <4>1. bucket'[a] = Append(kept, now)
        BY <2>1, <2>2 DEF LimiterTypes
      <4>2. Len(kept) = n - m /\ \A i \in 1..Len(kept) : kept[i] = compared[a][m + i] /\ m + i \in 1..n
        BY <2>3, <2>4 DEF EndsWith
      <4>3. \A i \in 1..Len(kept) : Append(kept, now)[i] = compared'[a][m + i]
        BY <2>5, <2>6, <4>2
      <4>4. m + (Len(kept) + 1) = n + 1
        BY <2>4, <4>2
      <4>5. Append(kept, now)[Len(kept) + 1] = compared'[a][m + (Len(kept) + 1)]
        BY <2>5, <2>6, <4>4
      <4>6. \A i \in 1..Len(kept) + 1 : i \in 1..Len(kept) \/ i = Len(kept) + 1
        BY <2>4
      <4>7. Len(Append(kept, now)) = Len(compared'[a]) - m
        BY <2>4, <2>5, <2>6, <4>2
      <4>8. QED BY <2>5, <4>1, <4>3, <4>5, <4>6, <4>7 DEF EndsWith
    <3>2. \A i \in 1..m : i \in 1..n /\ Expired(compared'[a][i], now', Window)
      BY <2>2, <2>3, <2>4, <2>6
    <3>3. \A i \in 1..n : compared[a][i] <= now
      BY <1>2, <2>1 DEF LimiterInv, WindowOf
    <3>4. \A i, j \in 1..n : i <= j => compared[a][i] <= compared[a][j]
      BY <1>2, <2>1 DEF LimiterInv, WindowOf
    <3>5. \A i \in DOMAIN compared'[a] : compared'[a][i] <= now'
      BY <1>1, <2>2, <2>4, <2>6, <3>3
    <3>6. \A i, j \in DOMAIN compared'[a] : i <= j => compared'[a][i] <= compared'[a][j]
      BY <1>1, <2>4, <2>6, <3>3, <3>4
    <3>7. m \in 0..Len(compared'[a])
      BY <2>4, <2>6
    <3>8. QED BY <3>1, <3>2, <3>5, <3>6, <3>7 DEF WindowOf
  <2>9. ASSUME NEW ip \in Ip PROVE WindowOf(ip)'
    <3>1. CASE ip = a
      BY <2>8, <3>1
    <3>2. CASE ip # a
      BY <2>2, <2>7, <3>2 DEF LimiterInv, WindowOf
    <3>3. QED BY <3>1, <3>2
  <2>10. AttemptsAreLimited'
    <3> SUFFICES ASSUME NEW ip \in Ip, NEW i \in DOMAIN compared'[ip], i + MaxAttempts \in DOMAIN compared'[ip]
                 PROVE  compared'[ip][i + MaxAttempts] - compared'[ip][i] > Window
      BY DEF AttemptsAreLimited
    <3>1. CASE ip # a
      BY <2>7, <3>1 DEF LimiterInv, AttemptsAreLimited
    <3>2. CASE ip = a /\ i + MaxAttempts \in 1..n
      <4>1. i \in 1..n /\ DOMAIN compared[a] = 1..n
        <5>1. DOMAIN compared[a] = 1..n /\ i \in 1..n + 1
          BY <1>2, <2>1, <2>6, <3>2
        <5> HIDE DEF n
        <5>2. QED BY <1>1, <2>4, <3>2, <5>1
      <4>2. compared[a][i + MaxAttempts] - compared[a][i] > Window
        BY <2>1, <3>2, <4>1 DEF LimiterInv, AttemptsAreLimited
      <4>3. QED BY <2>6, <3>2, <4>1, <4>2
    <3>3. CASE ip = a /\ i + MaxAttempts \notin 1..n
      <4>1. i + MaxAttempts = n + 1 /\ i \in 1..n + 1
        <5>1. i \in 1..n + 1 /\ i + MaxAttempts \in 1..n + 1
          BY <2>6, <3>3
        <5> HIDE DEF n
        <5>2. QED BY <1>1, <2>4, <3>3, <5>1
      <4>2. n - m < MaxAttempts
        BY <2>2, <2>3 DEF EndsWith
      <4>3. i \in 1..m /\ i \in 1..n
        BY <1>1, <2>4, <4>1, <4>2
      <4>4. Expired(compared'[a][i], now, Window)
        BY <2>3, <2>6, <4>3
      <4>5. QED BY <2>6, <3>3, <4>1, <4>4 DEF Expired
    <3>4. QED BY <3>1, <3>2, <3>3
  <2>11. QED BY <2>9, <2>10 DEF LimiterInv
<1>6. CASE UNCHANGED <<limiter, now>>
  BY <1>1, <1>3, <1>6
<1>7. CASE Tick
  BY <1>1, <1>3, <1>7 DEF Tick
<1>8. ASSUME NEW c \in Conn, Handle(c) PROVE LimiterInv'
  BY <1>4, <1>5, <1>6, <1>8 DEF Handle, PairBadName, Authenticate, CommandRefused, RunCommand,
       Ping, RecvFails, Takes
<1>9. QED
  BY <1>6, <1>7, <1>8 DEF Next, Daemon, AcceptAttach, Handshake, Send, SendFails, ClientLeaves,
       ClientAsks, NetworkFault, vars

\* An address that is refused has used up its attempts within the last minute.
LEMMA RefusedForCauseStep ==
    ASSUME ConnectionAssumption, ConnTypes, LimiterTypes, LimiterInv, [Next]_vars,
           NEW c \in Conn, reply'[c].result = "limited", reply[c] = NoReply
    PROVE  /\ MaxAttempts = 0 \/ RecentAttempts(IpOf[c]) # {}
           /\ \A i \in DOMAIN compared[IpOf[c]] :
                 i > Len(compared[IpOf[c]]) - MaxAttempts => i \in RecentAttempts(IpOf[c])
<1>1. PairLimited(c)
  <2>1. NoReply.result # "limited"
    BY DEF NoReply
  <2>2. reply'[c] # reply[c]
    BY <2>1
  <2>3. ASSUME NEW d \in Conn, NEW result, Respond(d, result), ~PairLimited(d)
        PROVE  d = c /\ result = "limited"
    BY <2>2, <2>3 DEF Respond, ConnTypes
  <2>4. ASSUME NEW d \in Conn, Close(d) PROVE FALSE
    BY <2>1, <2>2, <2>4 DEF Close, Set, ConnTypes
  <2>5. ASSUME NEW d \in Conn, Send(d) PROVE FALSE
    BY <2>1, <2>2, <2>5 DEF Send, Set, ConnTypes
  <2>6. ASSUME NEW d \in Conn, PairLimited(d) PROVE d = c
    BY <2>2, <2>6 DEF PairLimited, Respond, ConnTypes
  <2>7. ASSUME NEW d \in Conn, Handle(d), ~PairLimited(d) PROVE FALSE
    <3>1. CASE RecvFails(d)
      BY <2>4, <3>1 DEF RecvFails
    <3>2. CASE PairBadName(d) \/ CommandRefused(d) \/ RunCommand(d) \/ Ping(d)
      BY <2>3, <2>7, <3>2 DEF PairBadName, CommandRefused, RunCommand, Ping
    <3>3. CASE Pair(d) \/ Authenticate(d)
      BY <2>3, <2>7, <3>3 DEF Pair, Authenticate
    <3>4. QED BY <2>7, <3>1, <3>2, <3>3 DEF Handle
  <2>8. PICK d \in Conn : Handle(d)
    BY <2>2, <2>4, <2>5 DEF Next, Daemon, AcceptAttach, Handshake, SendFails, ClientLeaves,
         NetworkFault, ClientAsks, Tick, vars, conns
  <2>9. PairLimited(d)
    BY <2>7, <2>8
  <2>10. QED BY <2>6, <2>9
<1> DEFINE a == IpOf[c]
           n == Len(compared[a])
<1>2. a \in Ip /\ Window \in Nat /\ MaxAttempts \in Nat /\ now \in Nat
  BY DEF ConnectionAssumption, LimiterTypes
<1>3. /\ DOMAIN compared[a] = 1..n /\ n \in Nat
      /\ \A i \in 1..n : compared[a][i] \in Nat
  BY <1>2, LenProperties DEF LimiterTypes
<1>4. PICK m \in 0..n : /\ EndsWith(compared[a], Pruned(bucket[a], now, Window), m)
                        /\ m < n => ~Expired(compared[a][m + 1], now, Window)
  BY <1>2, KeptOfHistory
<1>5. ~(n - m < MaxAttempts)
  BY <1>1, <1>4 DEF PairLimited, Allowed, Bucket, EndsWith
<1>6. \A i, j \in 1..n : i <= j => compared[a][i] <= compared[a][j]
  BY <1>2, <1>3 DEF LimiterInv, WindowOf
<1>7. ASSUME NEW i \in 1..n, i > m PROVE i \in RecentAttempts(a)
  <2>1. m + 1 \in 1..n /\ m < n /\ m + 1 <= i
    <3> HIDE DEF n
    <3>1. QED BY <1>3, <1>7
  <2>2. compared[a][m + 1] <= compared[a][i] /\ ~(now - compared[a][m + 1] > Window)
    BY <1>4, <1>6, <2>1 DEF Expired
  <2>3. now - compared[a][i] <= Window
    BY <1>2, <1>3, <2>1, <2>2, SMTT(30)
  <2>4. QED BY <1>3, <2>3 DEF RecentAttempts
<1>8. MaxAttempts = 0 \/ RecentAttempts(a) # {}
  <2> SUFFICES ASSUME MaxAttempts # 0 PROVE RecentAttempts(a) # {}
    OBVIOUS
  <2>1. n \in 1..n /\ n > m
    <3> HIDE DEF n
    <3>1. QED BY <1>2, <1>3, <1>5
  <2>2. QED BY <1>7, <2>1
<1>9. \A i \in 1..n : i > n - MaxAttempts => i > m
  <2> HIDE DEF n
  <2>1. QED BY <1>2, <1>3, <1>5
<1>10. QED BY <1>3, <1>7, <1>8, <1>9

-----------------------------------------------------------------------------
(* The invariant *)

ConnectionInv ==
    ConnTypes /\ LimiterTypes /\ AllNumbered /\ GrantedAsTold /\ LimiterInv

\* All buckets, queues and histories are empty.
LEMMA InitInv == Init => ConnectionInv
<1> SUFFICES ASSUME Init PROVE ConnectionInv
  OBVIOUS
<1>1. /\ <<>> \in Seq(Frames) /\ <<>> \in Seq(0..MaxTime)
      /\ <<>> \in Seq([seq : Nat, about : Nat \ {0}])
      /\ Len(<<>>) = 0 /\ DOMAIN <<>> = {}
  BY EmptySeq, LenProperties
<1>2. ConnTypes
  BY <1>1 DEF Init, ConnTypes
<1>3. LimiterTypes
  BY <1>1, ConnectionAssumption DEF Init, LimiterTypes, ConnectionAssumption
<1>4. AllNumbered
  BY <1>1 DEF Init, AllNumbered, Numbered
<1>5. GrantedAsTold
  BY DEF Init, GrantedAsTold, NoReply
<1>6. LimiterInv
  <2>1. \A ip \in Ip : compared[ip] = <<>> /\ bucket[ip] = <<>>
    BY DEF Init
  <2>2. 0 \in 0..0 /\ 1..0 = {} /\ 0 - 0 = 0
    OBVIOUS
  <2>3. EndsWith(<<>>, <<>>, 0)
    BY <1>1, <2>2 DEF EndsWith
  <2>4. QED BY <1>1, <2>1, <2>2, <2>3 DEF LimiterInv, WindowOf, AttemptsAreLimited
<1>7. QED BY <1>2, <1>3, <1>4, <1>5, <1>6 DEF ConnectionInv

\* The steps of the parts, together.
LEMMA NextInv == ConnectionInv /\ [Next]_vars => ConnectionInv'
  BY ConnectionAssumption, ConnTypesStep, LimiterTypesStep, AllNumberedStep, GrantedAsToldStep,
     LimiterInvStep DEF ConnectionInv

\* Between any two steps, whatever frames are lost, repeated, swapped or damaged, and
\* however the connections interleave.
THEOREM Invariance == Spec => []ConnectionInv
<1>1. QED BY InitInv, NextInv, PTL DEF Spec

\* OneReplyPerRequest: the k-th response of a connection answers its k-th request and
\* has the number k - 1.
THEOREM Replies == Spec => []OneReplyPerRequest
<1>1. ConnectionInv => OneReplyPerRequest
  <2> SUFFICES ASSUME ConnectionInv PROVE OneReplyPerRequest
    OBVIOUS
  <2>1. TypeOK
    BY TypeParts DEF ConnectionInv
  <2>2. QED BY <2>1 DEF ConnectionInv, AllNumbered, Numbered, OneReplyPerRequest
<1>2. QED BY <1>1, Invariance, PTL

\* GrantedAsTold: who may send commands is who was told so.
THEOREM Grants == Spec => []GrantedAsTold
<1>1. ConnectionInv => GrantedAsTold
  BY DEF ConnectionInv
<1>2. QED BY <1>1, Invariance, PTL

\* AttemptsAreLimited: for every limit and every window.
THEOREM Attempts == Spec => []AttemptsAreLimited
<1>1. ConnectionInv => AttemptsAreLimited
  BY DEF ConnectionInv, LimiterInv
<1>2. QED BY <1>1, Invariance, PTL

\* RefusedForCause: refused attempts do not keep an address locked out.
THEOREM Refusals == Spec => RefusedForCause
<1>1. ConnectionInv /\ [Next]_vars =>
        [\A c \in Conn : reply'[c].result = "limited" /\ reply[c] = NoReply
           => (MaxAttempts = 0 \/ RecentAttempts(IpOf[c]) # {}) /\ \A i \in DOMAIN compared[IpOf[c]] :
                  i > Len(compared[IpOf[c]]) - MaxAttempts => i \in RecentAttempts(IpOf[c])]_vars
  BY ConnectionAssumption, RefusedForCauseStep DEF ConnectionInv
<1>2. QED BY <1>1, Invariance, PTL DEF Spec, RefusedForCause
=============================================================================
