-------------------------- MODULE DaemonLocksProofs -------------------------
(***************************************************************************)
(* The handlers do not deadlock among themselves: proofs about DaemonLocks *)
(* for any number of connections.                                          *)
(***************************************************************************)
EXTENDS DaemonLocks, SequenceTheorems, TLAPS

-----------------------------------------------------------------------------
(* The programs of the handlers *)

\* Where in its program a request holds a mutex: <<command, next operation>>.
Holding(m) ==
    CASE m = "devices" -> {"pair", "auth"} \X {2, 3}
      [] m = "input" -> ({"prepare_input", "input_event"} \X {2})
                            \cup ({"prepare_input_refresh"} \X (2..5))
                            \cup ({"pointer_move_absolute"} \X {3})
      [] m = "gamepad" -> ({"get_capabilities"} \X {3}) \cup ({"prepare_input_refresh"} \X {4})
                            \cup ({"controller_event"} \X {2})

\* A program is at most five operations on the mutexes and on the capabilities.
LEMMA Programs ==
    ASSUME NEW k \in Command
    PROVE  /\ Len(Handler(k)) \in 0..5 /\ DOMAIN Handler(k) = 1..Len(Handler(k))
           /\ \A i \in DOMAIN Handler(k) :
                 \/ Handler(k)[i] \in {Read, Write}
                 \/ \E m \in Mutex : Handler(k)[i] \in {Lock(m), Unlock(m)}
<1>1. CASE k = "get_health"
  <2>1. Handler(k) = <<>>
    BY <1>1 DEF Handler
  <2>2. Len(<<>>) = 0 /\ DOMAIN <<>> = 1..0
    BY EmptySeq, LenProperties
  <2>3. QED BY <2>1, <2>2
<1>2. CASE k \in {"pair", "auth"}
  <2>1. Handler(k) = <<Lock("devices"), Read, Unlock("devices")>>
    BY <1>2 DEF Handler
  <2>2. QED BY <2>1 DEF Lock, Unlock, Read, Write, Mutex
<1>3. CASE k = "get_capabilities"
  BY <1>3 DEF Handler, Lock, Unlock, Read, Write, Mutex
<1>4. CASE k = "prepare_input"
  BY <1>4 DEF Handler, Lock, Unlock, Read, Write, Mutex
<1>5. CASE k = "prepare_input_refresh"
  BY <1>5 DEF Handler, Lock, Unlock, Read, Write, Mutex
<1>6. CASE k = "input_event"
  BY <1>6 DEF Handler, Lock, Unlock, Read, Write, Mutex
<1>7. CASE k = "pointer_move_absolute"
  BY <1>7 DEF Handler, Lock, Unlock, Read, Write, Mutex
<1>8. CASE k = "controller_event"
  BY <1>8 DEF Handler, Lock, Unlock, Read, Write, Mutex
<1>9. CASE k = "list_screen_sources"
  BY <1>9 DEF Handler, Lock, Unlock, Read, Write, Mutex
<1>10. QED BY <1>1, <1>2, <1>3, <1>4, <1>5, <1>6, <1>7, <1>8, <1>9 DEF Command

\* Holding is what the operations make of it: a request holds a mutex from the
\* step behind its lock to its unlock, and no program ends holding one.
LEMMA Holders ==
    ASSUME NEW m \in Mutex, NEW k \in Command
    PROVE  /\ <<k, 1>> \notin Holding(m)
           /\ \A i \in Nat : <<k, i>> \in Holding(m) => i \in DOMAIN Handler(k)
           /\ \A i \in DOMAIN Handler(k) :
                 /\ Handler(k)[i] = Lock(m) =>
                        <<k, i>> \notin Holding(m) /\ <<k, i + 1>> \in Holding(m)
                 /\ Handler(k)[i] = Unlock(m) =>
                        <<k, i>> \in Holding(m) /\ <<k, i + 1>> \notin Holding(m)
                 /\ Handler(k)[i] \notin {Lock(m), Unlock(m)} =>
                        (<<k, i>> \in Holding(m) <=> <<k, i + 1>> \in Holding(m))
<1> USE DEF Handler, Lock, Unlock, Read, Write, Mutex
<1>1. CASE k = "get_health"
  <2>1. Handler(k) = <<>> /\ DOMAIN <<>> = 1..0
    BY <1>1, EmptySeq, LenProperties
  <2>2. QED BY <1>1, <2>1 DEF Holding
<1>2. CASE k \in {"pair", "auth"}
  BY <1>2 DEF Holding
<1>3. CASE k = "get_capabilities"
  BY <1>3 DEF Holding
<1>4. CASE k = "prepare_input"
  BY <1>4 DEF Holding
<1>5. CASE k = "prepare_input_refresh"
  BY <1>5 DEF Holding
<1>6. CASE k = "input_event"
  BY <1>6 DEF Holding
<1>7. CASE k = "pointer_move_absolute"
  BY <1>7 DEF Holding
<1>8. CASE k = "controller_event"
  BY <1>8 DEF Holding
<1>9. CASE k = "list_screen_sources"
  BY <1>9 DEF Holding
<1>10. QED BY <1>1, <1>2, <1>3, <1>4, <1>5, <1>6, <1>7, <1>8, <1>9 DEF Command

\* The order of the locks: who holds a mutex waits for no other one but `gamepad`,
\* and who holds `gamepad` releases it next.
LEMMA LockOrder ==
    ASSUME NEW m \in Mutex, NEW k \in Command, NEW i \in DOMAIN Handler(k),
           <<k, i>> \in Holding(m)
    PROVE  /\ \A n \in Mutex : Handler(k)[i] = Lock(n) => n = "gamepad"
           /\ m = "gamepad" => Handler(k)[i] = Unlock("gamepad")
<1> USE DEF Handler, Lock, Unlock, Read, Write, Mutex, Holding
<1>1. CASE k = "get_health"
  BY <1>1
<1>2. CASE k \in {"pair", "auth"}
  BY <1>2
<1>3. CASE k = "get_capabilities"
  BY <1>3
<1>4. CASE k \in {"prepare_input", "input_event"}
  BY <1>4
<1>5. CASE k = "prepare_input_refresh"
  BY <1>5
<1>6. CASE k = "pointer_move_absolute"
  BY <1>6
<1>7. CASE k \in {"controller_event", "list_screen_sources"}
  BY <1>7
<1>8. QED BY <1>1, <1>2, <1>3, <1>4, <1>5, <1>6, <1>7 DEF Command

-----------------------------------------------------------------------------
(* The inductive invariant *)

\* A mutex is held by exactly the request whose program says so.
OwnersHold ==
    \A m \in Mutex, t \in Task : owner[m] = t <=> <<req[t], pc[t]>> \in Holding(m)

\* Nobody waits twice for the capabilities.
WaitersOnce ==
    \A i, j \in DOMAIN queue : queue[i] = queue[j] => i = j

LockInv == TypeOK /\ OwnersHold /\ WaitersOnce

\* Operations on a mutex and on the capabilities differ.
LEMMA OpsDiffer ==
    \A m, n : /\ Lock(m) # Unlock(n) /\ Lock(m) \notin {Read, Write}
              /\ Unlock(m) \notin {Read, Write} /\ Read # Write
              /\ (Lock(m) = Lock(n) => m = n) /\ (Unlock(m) = Unlock(n) => m = n)
BY DEF Lock, Unlock, Read, Write

\* A mutex is held by commands only.
LEMMA HoldersAreCommands ==
    ASSUME NEW m \in Mutex, NEW k, NEW i, <<k, i>> \in Holding(m)
    PROVE  k \in Command /\ i \in 1..5
BY DEF Holding, Mutex, Command

\* The operation of a request that has not finished.
LEMMA OpType ==
    ASSUME TypeOK, NEW t \in Task, AtOp(t)
    PROVE  /\ req[t] \in Command /\ pc[t] \in 1..5 /\ pc[t] \in DOMAIN Handler(req[t])
           /\ \/ Op(t) \in {Read, Write}
              \/ \E m \in Mutex : Op(t) \in {Lock(m), Unlock(m)}
<1>1. req[t] \in Command /\ pc[t] \in DOMAIN Handler(req[t])
  BY DEF AtOp, TypeOK
<1>2. QED BY <1>1, Programs DEF Op

\* The handlers take their locks in one order, so in a state that satisfies the
\* invariant no cycle of requests waits: see StuckOnlyOnDiscovery.
LEMMA NoCycle ==
    ASSUME LockInv
    PROVE  StuckOnlyOnDiscovery
<1> USE DEF LockInv
<1>1. ASSUME NEW t \in Task, req[t] # None,
             \A u \in Task : req[u] # None => ~CanStep(u)
      PROVE  BehindDiscovery
  <2>1. CASE queue # <<>>
    <3> DEFINE h == Head(queue)
    <3>1. h \in Task /\ h = queue[1] /\ 1 \in DOMAIN queue
      BY <2>1, EmptySeq, LenProperties, HeadTailProperties DEF TypeOK
    <3>2. AtOp(h) /\ Op(h) \in {Read, Write}
      BY <3>1 DEF TypeOK
    <3>3. ~Grantable(Op(h))
      BY <1>1, <2>1, <3>1, <3>2 DEF CanStep, AtOp
    <3>4. QED BY <2>1, <3>2, <3>3 DEF Grantable, BehindDiscovery
  <2>2. CASE queue = <<>>
    <3>1. \A u \in Task : ~Waits(u)
      BY <2>2, EmptySeq, LenProperties DEF Waits
    <3>2. ASSUME NEW u \in Task, req[u] # None
          PROVE  AtOp(u) /\ \E m \in Mutex : Op(u) = Lock(m) /\ owner[m] \in Task
      <4>1. AtOp(u)
        BY <1>1, <3>2 DEF CanStep
      <4>2. PICK m \in Mutex : Op(u) = Lock(m) /\ owner[m] # None
        BY <1>1, <3>1, <3>2, <4>1, OpType DEF CanStep
      <4>3. QED BY <4>1, <4>2 DEF TypeOK
    <3>3. ASSUME NEW m \in Mutex, NEW u \in Task, owner[m] = u
          PROVE  /\ u \in Task /\ req[u] # None /\ m # "gamepad"
                 /\ Op(u) = Lock("gamepad") /\ owner["gamepad"] \in Task
      <4>1. <<req[u], pc[u]>> \in Holding(m)
        BY <3>3 DEF OwnersHold
      <4>2. req[u] # None
        BY <4>1, HoldersAreCommands, NoneAssumption
      <4>3. PICK n \in Mutex : AtOp(u) /\ Op(u) = Lock(n) /\ owner[n] \in Task
        BY <3>2, <4>2
      <4>4. n = "gamepad" /\ m # "gamepad"
        BY <4>1, <4>3, LockOrder, OpType, OpsDiffer DEF Op
      <4>5. QED BY <4>2, <4>3, <4>4
    <3>4. PICK m \in Mutex : owner[m] \in Task
      BY <1>1, <3>2
    <3>5. owner["gamepad"] \in Task
      BY <3>3, <3>4
    <3>6. QED BY <3>3, <3>5 DEF Mutex
  <2>3. QED BY <2>1, <2>2
<1>2. QED BY <1>1 DEF StuckOnlyOnDiscovery

\* LockInv holds initially.
LEMMA InitInv ==
    ASSUME Init
    PROVE  LockInv
<1> USE DEF Init
<1>1. <<>> \in Seq(Task) /\ DOMAIN <<>> = {}
  BY EmptySeq, LenProperties
<1>2. TypeOK
  BY <1>1 DEF TypeOK, Mutex
<1>3. OwnersHold
  <2>1. SUFFICES ASSUME NEW m \in Mutex, NEW t \in Task
                 PROVE  owner[m] = t <=> <<req[t], pc[t]>> \in Holding(m)
    BY DEF OwnersHold
  <2>2. owner[m] # t
    BY NoneAssumption
  <2>3. <<None, 1>> \notin Holding(m)
    BY HoldersAreCommands, NoneAssumption
  <2>4. QED BY <2>2, <2>3
<1>4. WaitersOnce
  BY <1>1 DEF WaitersOnce
<1>5. QED BY <1>2, <1>3, <1>4 DEF LockInv

\* A step of a request's program that leaves the queue alone: the request is not
\* in the queue, and the others stay where they are.
LEMMA AdvanceTypes ==
    ASSUME TypeOK, NEW t \in Task, AtOp(t), ~Waits(t), Advance(t), UNCHANGED <<req, queue>>
    PROVE  /\ pc' \in [Task -> 1..6]
           /\ \A i \in DOMAIN queue : AtOp(queue[i])' /\ Op(queue[i])' \in {Read, Write}
<1>1. pc' \in [Task -> 1..6]
  BY OpType DEF Advance, TypeOK
<1>2. ASSUME NEW i \in DOMAIN queue
      PROVE  AtOp(queue[i])' /\ Op(queue[i])' \in {Read, Write}
  <2>1. queue[i] # t /\ queue[i] \in Task
    BY LenProperties DEF Waits, TypeOK
  <2>2. pc'[queue[i]] = pc[queue[i]] /\ req' = req
    BY <2>1 DEF Advance, TypeOK
  <2>3. AtOp(queue[i]) /\ Op(queue[i]) \in {Read, Write}
    BY DEF TypeOK
  <2>4. QED BY <2>2, <2>3 DEF AtOp, Op
<1>3. QED BY <1>1, <1>2

\* Whoever waits is at an operation on the capabilities.
LEMMA WaitersUse ==
    ASSUME TypeOK, NEW t \in Task, Waits(t)
    PROVE  AtOp(t) /\ Op(t) \in {Read, Write}
BY DEF TypeOK, Waits

\* A request that passes an operation keeps the mutexes its program says.
LEMMA AdvanceHolding ==
    ASSUME LockInv, NEW t \in Task, AtOp(t), Advance(t), req' = req, NEW m \in Mutex
    PROVE  /\ \A u \in Task \ {t} :
                 <<req'[u], pc'[u]>> \in Holding(m) <=> owner[m] = u
           /\ Op(t) = Lock(m) => <<req'[t], pc'[t]>> \in Holding(m)
           /\ Op(t) = Unlock(m) => <<req'[t], pc'[t]>> \notin Holding(m) /\ owner[m] = t
           /\ Op(t) \notin {Lock(m), Unlock(m)} =>
                 (<<req'[t], pc'[t]>> \in Holding(m) <=> owner[m] = t)
<1>1. req[t] \in Command /\ pc[t] \in DOMAIN Handler(req[t])
  BY OpType DEF LockInv
<1>2. pc'[t] = pc[t] + 1 /\ \A u \in Task \ {t} : pc'[u] = pc[u]
  BY DEF Advance, LockInv, TypeOK
<1>3. \A u \in Task : <<req[u], pc[u]>> \in Holding(m) <=> owner[m] = u
  BY DEF LockInv, OwnersHold
<1> DEFINE k == req[t]
           i == pc[t]
<1>4. /\ Handler(k)[i] = Lock(m) => <<k, i + 1>> \in Holding(m)
      /\ Handler(k)[i] = Unlock(m) => <<k, i>> \in Holding(m) /\ <<k, i + 1>> \notin Holding(m)
      /\ Handler(k)[i] \notin {Lock(m), Unlock(m)} =>
            (<<k, i>> \in Holding(m) <=> <<k, i + 1>> \in Holding(m))
  BY <1>1, Holders
<1>5. req'[t] = k /\ pc'[t] = i + 1 /\ (<<k, i>> \in Holding(m) <=> owner[m] = t)
  BY <1>2, <1>3
<1>6. \A u \in Task \ {t} : <<req'[u], pc'[u]>> \in Holding(m) <=> owner[m] = u
  BY <1>2, <1>3
<1> HIDE DEF k, i
<1>7. Op(t) = Handler(k)[i]
  BY DEF Op, k, i
<1>8. QED BY <1>4, <1>5, <1>6, <1>7

\* Every step keeps the invariant.
LEMMA NextInv ==
    ASSUME LockInv, [Next]_vars
    PROVE  LockInv'
<1> USE DEF LockInv
<1>1. ASSUME NEW t \in Task, NEW k \in Command, Receive(t, k)
      PROVE  LockInv'
  <2>1. /\ req' = [req EXCEPT ![t] = k] /\ pc' = [pc EXCEPT ![t] = 1]
        /\ UNCHANGED <<owner, queue, discovery>> /\ req[t] = None
    BY <1>1 DEF Receive
  <2>2. \A i \in DOMAIN queue : queue[i] \in Task /\ queue[i] # t
    BY <2>1, LenProperties DEF TypeOK, AtOp
  <2>3. \A i \in DOMAIN queue' : AtOp(queue[i])' /\ Op(queue[i])' \in {Read, Write}
    BY <2>1, <2>2 DEF AtOp, Op, TypeOK
  <2>4. TypeOK'
    BY <2>1, <2>3 DEF TypeOK
  <2>5. OwnersHold'
    <3>1. SUFFICES ASSUME NEW m \in Mutex, NEW u \in Task
                   PROVE  owner[m] = u <=> <<req'[u], pc'[u]>> \in Holding(m)
      BY <2>1 DEF OwnersHold
    <3>2. CASE u = t
      <4>1. owner[m] # t
        BY <2>1, HoldersAreCommands, NoneAssumption DEF OwnersHold
      <4>2. <<req'[t], pc'[t]>> \notin Holding(m)
        BY <2>1, Holders DEF TypeOK
      <4>3. QED BY <3>2, <4>1, <4>2
    <3>3. CASE u # t
      BY <2>1, <3>3 DEF TypeOK, OwnersHold
    <3>4. QED BY <3>2, <3>3
  <2>6. WaitersOnce'
    BY <2>1 DEF WaitersOnce
  <2>7. QED BY <2>4, <2>5, <2>6
<1>2. ASSUME NEW t \in Task, NEW m \in Mutex, LockMutex(t, m)
      PROVE  LockInv'
  <2>1. /\ AtOp(t) /\ Op(t) = Lock(m) /\ owner[m] = None /\ owner' = [owner EXCEPT ![m] = t]
        /\ Advance(t) /\ UNCHANGED <<req, queue, discovery>>
    BY <1>2 DEF LockMutex
  <2>2. ~Waits(t)
    BY <2>1, WaitersUse, OpsDiffer
  <2>3. TypeOK'
    BY <2>1, <2>2, AdvanceTypes DEF TypeOK
  <2>4. OwnersHold'
    <3>1. SUFFICES ASSUME NEW n \in Mutex, NEW u \in Task
                   PROVE  owner'[n] = u <=> <<req'[u], pc'[u]>> \in Holding(n)
      BY DEF OwnersHold
    <3>2. owner'[m] = t /\ \A x \in Mutex \ {m} : owner'[x] = owner[x]
      BY <2>1 DEF TypeOK
    <3>3. n # m => Op(t) \notin {Lock(n), Unlock(n)}
      BY <2>1, OpsDiffer
    <3>4. /\ \A x \in Task \ {t} : <<req'[x], pc'[x]>> \in Holding(n) <=> owner[n] = x
          /\ Op(t) = Lock(n) => <<req'[t], pc'[t]>> \in Holding(n)
          /\ Op(t) \notin {Lock(n), Unlock(n)} =>
                (<<req'[t], pc'[t]>> \in Holding(n) <=> owner[n] = t)
      BY <2>1, AdvanceHolding
    <3>5. QED BY <2>1, <3>2, <3>3, <3>4, NoneAssumption
  <2>5. QED BY <2>1, <2>3, <2>4 DEF WaitersOnce
<1>3. ASSUME NEW t \in Task, NEW m \in Mutex, UnlockMutex(t, m)
      PROVE  LockInv'
  <2>1. /\ AtOp(t) /\ Op(t) = Unlock(m) /\ owner' = [owner EXCEPT ![m] = None]
        /\ Advance(t) /\ UNCHANGED <<req, queue, discovery>>
    BY <1>3 DEF UnlockMutex
  <2>2. ~Waits(t)
    BY <2>1, WaitersUse, OpsDiffer
  <2>3. TypeOK'
    BY <2>1, <2>2, AdvanceTypes DEF TypeOK
  <2>4. OwnersHold'
    <3>1. SUFFICES ASSUME NEW n \in Mutex, NEW u \in Task
                   PROVE  owner'[n] = u <=> <<req'[u], pc'[u]>> \in Holding(n)
      BY DEF OwnersHold
    <3>2. owner'[m] = None /\ \A x \in Mutex \ {m} : owner'[x] = owner[x]
      BY <2>1 DEF TypeOK
    <3>3. n # m => Op(t) \notin {Lock(n), Unlock(n)}
      BY <2>1, OpsDiffer
    <3>4. /\ \A x \in Task \ {t} : <<req'[x], pc'[x]>> \in Holding(n) <=> owner[n] = x
          /\ Op(t) = Unlock(n) => <<req'[t], pc'[t]>> \notin Holding(n) /\ owner[n] = t
          /\ Op(t) \notin {Lock(n), Unlock(n)} =>
                (<<req'[t], pc'[t]>> \in Holding(n) <=> owner[n] = t)
      BY <2>1, AdvanceHolding
    <3>5. QED BY <2>1, <3>2, <3>3, <3>4, NoneAssumption
  <2>5. QED BY <2>1, <2>3, <2>4 DEF WaitersOnce
<1>4. ASSUME NEW t \in Task, UseCapabilities(t)
      PROVE  LockInv'
  <2>1. AtOp(t) /\ Op(t) \in {Read, Write} /\ ~Waits(t) /\ UNCHANGED <<req, owner, discovery>>
    BY <1>4 DEF UseCapabilities
  <2>2. CASE Advance(t) /\ UNCHANGED queue
    <3>1. TypeOK'
      BY <2>1, <2>2, AdvanceTypes DEF TypeOK
    <3>2. OwnersHold'
      <4>1. SUFFICES ASSUME NEW n \in Mutex, NEW u \in Task
                     PROVE  owner[n] = u <=> <<req'[u], pc'[u]>> \in Holding(n)
        BY <2>1 DEF OwnersHold
      <4>2. Op(t) \notin {Lock(n), Unlock(n)}
        BY <2>1, OpsDiffer
      <4>3. QED BY <2>1, <2>2, <4>2, AdvanceHolding
    <3>3. QED BY <2>2, <3>1, <3>2 DEF WaitersOnce
  <2>3. CASE queue' = Append(queue, t) /\ UNCHANGED pc
    <3>1. queue \in Seq(Task)
      BY DEF TypeOK
    <3>2. /\ queue' \in Seq(Task) /\ DOMAIN queue = 1..Len(queue) /\ Len(queue) \in Nat
          /\ DOMAIN queue' = 1..(Len(queue) + 1)
          /\ \A i \in 1..Len(queue) : queue'[i] = queue[i]
          /\ queue'[Len(queue) + 1] = t
      BY <2>3, <3>1, AppendProperties, LenProperties
    <3>3. ASSUME NEW i \in DOMAIN queue'
          PROVE  AtOp(queue[i])' /\ Op(queue[i])' \in {Read, Write}
      <4>1. AtOp(queue'[i]) /\ Op(queue'[i]) \in {Read, Write}
        BY <2>1, <3>2 DEF TypeOK
      <4>2. QED BY <2>1, <2>3, <4>1 DEF AtOp, Op
    <3>4. TypeOK'
      BY <2>1, <2>3, <3>2, <3>3 DEF TypeOK
    <3>5. \A i \in 1..Len(queue) : queue[i] # t
      BY <2>1, <3>2 DEF Waits
    <3>6. WaitersOnce'
      BY <3>2, <3>5 DEF WaitersOnce
    <3>7. QED BY <2>1, <2>3, <3>4, <3>6 DEF OwnersHold
  <2>4. QED BY <1>4, <2>2, <2>3 DEF UseCapabilities
<1>5. ASSUME GrantCapabilities
      PROVE  LockInv'
  <2> DEFINE h == Head(queue)
  <2>1. /\ queue # <<>> /\ Advance(h) /\ queue' = Tail(queue)
        /\ UNCHANGED <<req, owner, discovery>>
    BY <1>5 DEF GrantCapabilities
  <2>2. queue \in Seq(Task)
    BY DEF TypeOK
  <2>3. /\ h = queue[1] /\ h \in Task /\ Len(queue) \in Nat /\ DOMAIN queue = 1..Len(queue)
        /\ 1 \in DOMAIN queue
        /\ queue' \in Seq(Task) /\ DOMAIN queue' = 1..(Len(queue) - 1)
        /\ \A i \in 1..(Len(queue) - 1) : queue'[i] = queue[i + 1]
    BY <2>1, <2>2, EmptySeq, LenProperties, HeadTailProperties
  <2> HIDE DEF h
  <2>4. AtOp(h) /\ Op(h) \in {Read, Write}
    BY <2>3 DEF TypeOK
  <2>5. ASSUME NEW i \in DOMAIN queue'
        PROVE  AtOp(queue[i])' /\ Op(queue[i])' \in {Read, Write}
    <3>1. /\ i + 1 \in DOMAIN queue /\ queue'[i] = queue[i + 1] /\ i + 1 # 1
      BY <2>3
    <3>2. queue'[i] # h /\ queue'[i] \in Task
      BY <2>2, <2>3, <3>1, ElementOfSeq DEF WaitersOnce
    <3>3. pc'[queue'[i]] = pc[queue'[i]] /\ req' = req
      BY <2>1, <3>2 DEF Advance, TypeOK
    <3>4. AtOp(queue'[i]) /\ Op(queue'[i]) \in {Read, Write}
      BY <3>1 DEF TypeOK
    <3>5. QED BY <3>3, <3>4 DEF AtOp, Op
  <2>6. pc' \in [Task -> 1..6]
    <3>1. pc[h] \in 1..5
      BY <2>3, <2>4, OpType
    <3>2. QED BY <2>1, <2>3, <3>1 DEF Advance, TypeOK
  <2>7. TypeOK'
    BY <2>1, <2>3, <2>5, <2>6 DEF TypeOK
  <2>8. OwnersHold'
    <3>1. SUFFICES ASSUME NEW n \in Mutex, NEW u \in Task
                   PROVE  owner[n] = u <=> <<req'[u], pc'[u]>> \in Holding(n)
      BY <2>1 DEF OwnersHold
    <3>2. Op(h) \notin {Lock(n), Unlock(n)}
      BY <2>4, OpsDiffer
    <3>3. AtOp(h) /\ Advance(h) /\ req' = req /\ h \in Task
      BY <2>1, <2>3, <2>4
    <3>4. CASE u = h
      BY <3>2, <3>3, <3>4, AdvanceHolding
    <3>5. CASE u # h
      BY <3>3, <3>5, AdvanceHolding
    <3>6. QED BY <3>4, <3>5
  <2>9. WaitersOnce'
    BY <2>3 DEF WaitersOnce
  <2>10. QED BY <2>7, <2>8, <2>9
<1>6. ASSUME NEW t \in Task, Answer(t)
      PROVE  LockInv'
  <2>1. /\ req[t] # None /\ ~AtOp(t) /\ req' = [req EXCEPT ![t] = None]
        /\ UNCHANGED <<pc, owner, queue, discovery>>
    BY <1>6 DEF Answer
  <2>2. \A i \in DOMAIN queue : queue[i] \in Task /\ queue[i] # t
    BY <2>1, LenProperties DEF TypeOK
  <2>3. \A i \in DOMAIN queue' : AtOp(queue[i])' /\ Op(queue[i])' \in {Read, Write}
    BY <2>1, <2>2 DEF AtOp, Op, TypeOK
  <2>4. TypeOK'
    BY <2>1, <2>3 DEF TypeOK
  <2>5. OwnersHold'
    <3>1. SUFFICES ASSUME NEW m \in Mutex, NEW u \in Task
                   PROVE  owner[m] = u <=> <<req'[u], pc'[u]>> \in Holding(m)
      BY <2>1 DEF OwnersHold
    <3>2. CASE u = t
      <4>1. <<req[t], pc[t]>> \notin Holding(m)
        <5>1. req[t] \in Command /\ pc[t] \in Nat /\ pc[t] \notin DOMAIN Handler(req[t])
          BY <2>1 DEF TypeOK, AtOp
        <5>2. QED BY <5>1, Holders
      <4>2. <<None, pc[t]>> \notin Holding(m)
        BY HoldersAreCommands, NoneAssumption
      <4>3. QED BY <2>1, <3>2, <4>1, <4>2 DEF OwnersHold, TypeOK
    <3>3. CASE u # t
      BY <2>1, <3>3 DEF TypeOK, OwnersHold
    <3>4. QED BY <3>2, <3>3
  <2>6. QED BY <2>1, <2>4, <2>5 DEF WaitersOnce
<1>7. CASE DiscoveryStart \/ DiscoveryEnd \/ UNCHANGED vars
  <2>1. UNCHANGED <<req, pc, owner, queue>> /\ discovery' \in {"starting", "serving", "failed"}
    BY <1>7 DEF DiscoveryStart, DiscoveryEnd, vars, TypeOK
  <2>2. QED BY <2>1 DEF TypeOK, OwnersHold, WaitersOnce, AtOp, Op
<1>8. QED BY <1>1, <1>2, <1>3, <1>4, <1>5, <1>6, <1>7 DEF Next, TaskStep

\* The handlers never deadlock among themselves: whenever no request can go on, a
\* writer of the capabilities stands behind the guard of the discovery task.
THEOREM HandlersDoNotDeadlock == Spec => []StuckOnlyOnDiscovery
<1>1. Init => LockInv
  BY InitInv
<1>2. LockInv /\ [Next]_vars => LockInv'
  BY NextInv
<1>3. LockInv => StuckOnlyOnDiscovery
  BY NoCycle
<1>4. QED BY <1>1, <1>2, <1>3, PTL DEF Spec
=============================================================================
