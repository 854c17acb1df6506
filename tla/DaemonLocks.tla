---------------------------- MODULE DaemonLocks ----------------------------
(***************************************************************************)
(* The locks that the requests of all connections share (AppState in       *)
(* src/server.rs): the mutexes `devices`, `input` and `gamepad`, and the   *)
(* tokio RwLock `capabilities`, which serves its waiters first come, first *)
(* served.  A request is the sequence of lock operations its handler makes *)
(* in program order; what it does in between always comes to an end.       *)
(*                                                                         *)
(* Handlers read or write `capabilities` within one statement and hold no  *)
(* guard across an await.  The discovery task does: the guard of           *)
(* `capabilities.read().await.clone()` is a temporary in the scrutinee of  *)
(* `if let Err(err) = run_discovery(..).await` and lives until the endless *)
(* discovery loop fails.                                                   *)
(***************************************************************************)
EXTENDS Naturals, Sequences

CONSTANTS
    Task,            \* connection tasks; a connection serves one request at a time
    DiscoveryFails,  \* the UDP socket of the discovery loop fails some day
    None

ASSUME FailsAssumption == DiscoveryFails \in BOOLEAN

VARIABLES
    req,        \* the request each task is in
    pc,         \* the next lock operation of it
    owner,      \* the holder of each mutex
    queue,      \* the tasks waiting for `capabilities`, oldest first
    discovery   \* "serving" holds a read guard of `capabilities`

vars == <<req, pc, owner, queue, discovery>>

Mutex == {"devices", "input", "gamepad"}

Lock(m) == <<"lock", m>>
Unlock(m) == <<"unlock", m>>
Read == <<"read", "capabilities">>
Write == <<"write", "capabilities">>

Command == {"get_health", "pair", "auth", "get_capabilities", "prepare_input",
            "prepare_input_refresh", "input_event", "pointer_move_absolute",
            "controller_event", "list_screen_sources"}

ASSUME NoneAssumption == None \notin Task \cup Command

\* Mutant of Handler: the controller path takes `input` under `gamepad`.
HandlerInverted(k) ==
    CASE k = "get_health" -> <<>>
      [] k \in {"pair", "auth"} -> <<Lock("devices"), Read, Unlock("devices")>>
      [] k = "get_capabilities" -> <<Write, Lock("gamepad"), Unlock("gamepad")>>
      [] k = "prepare_input" -> <<Lock("input"), Unlock("input")>>
      [] k = "prepare_input_refresh" ->
            <<Lock("input"), Write, Lock("gamepad"), Unlock("gamepad"), Unlock("input")>>
      [] k = "input_event" -> <<Lock("input"), Unlock("input")>>
      [] k = "pointer_move_absolute" -> <<Read, Lock("input"), Unlock("input")>>
      [] k = "controller_event" ->
            <<Lock("gamepad"), Lock("input"), Unlock("input"), Unlock("gamepad")>>
      [] k = "list_screen_sources" -> <<Read>>

\* handle_pair, handle_auth, handle_command and handle_external_input.
\* prepare_input_refresh is a prepare_input whose first attempt failed;
\* list_screen_sources stands for every command of ScreenManager that reads
\* the capabilities.
Handler(k) ==
    CASE k = "get_health" -> <<>>
      [] k \in {"pair", "auth"} -> <<Lock("devices"), Read, Unlock("devices")>>
      [] k = "get_capabilities" -> <<Write, Lock("gamepad"), Unlock("gamepad")>>
      [] k = "prepare_input" -> <<Lock("input"), Unlock("input")>>
      [] k = "prepare_input_refresh" ->
            <<Lock("input"), Write, Lock("gamepad"), Unlock("gamepad"), Unlock("input")>>
      [] k = "input_event" -> <<Lock("input"), Unlock("input")>>
      [] k = "pointer_move_absolute" -> <<Read, Lock("input"), Unlock("input")>>
      [] k = "controller_event" -> <<Lock("gamepad"), Unlock("gamepad")>>
      [] k = "list_screen_sources" -> <<Read>>

Waits(t) == \E i \in DOMAIN queue : queue[i] = t
Op(t) == Handler(req[t])[pc[t]]
AtOp(t) == req[t] # None /\ pc[t] \in DOMAIN Handler(req[t])

TypeOK ==
    /\ req \in [Task -> Command \cup {None}]
    /\ pc \in [Task -> 1..6]
    /\ owner \in [Mutex -> Task \cup {None}]
    /\ queue \in Seq(Task)
    /\ discovery \in {"starting", "serving", "failed"}
    /\ \A i \in DOMAIN queue : AtOp(queue[i]) /\ Op(queue[i]) \in {Read, Write}

Init ==
    /\ req = [t \in Task |-> None]
    /\ pc = [t \in Task |-> 1]
    /\ owner = [m \in Mutex |-> None]
    /\ queue = <<>>
    /\ discovery = "starting"

Receive(t, k) ==
    /\ req[t] = None
    /\ req' = [req EXCEPT ![t] = k]
    /\ pc' = [pc EXCEPT ![t] = 1]
    /\ UNCHANGED <<owner, queue, discovery>>

Advance(t) == pc' = [pc EXCEPT ![t] = @ + 1]

LockMutex(t, m) ==
    /\ AtOp(t)
    /\ Op(t) = Lock(m)
    /\ owner[m] = None
    /\ owner' = [owner EXCEPT ![m] = t]
    /\ Advance(t)
    /\ UNCHANGED <<req, queue, discovery>>

UnlockMutex(t, m) ==
    /\ AtOp(t)
    /\ Op(t) = Unlock(m)
    /\ owner' = [owner EXCEPT ![m] = None]
    /\ Advance(t)
    /\ UNCHANGED <<req, queue, discovery>>

\* A guard of `capabilities` is granted when the discovery guard allows it.
Grantable(op) == op = Read \/ discovery # "serving"

\* No waiter may be overtaken, so a read queues behind a waiting write.
UseCapabilities(t) ==
    /\ AtOp(t)
    /\ Op(t) \in {Read, Write}
    /\ ~Waits(t)
    /\ IF queue = <<>> /\ Grantable(Op(t))
       THEN Advance(t) /\ UNCHANGED queue
       ELSE queue' = Append(queue, t) /\ UNCHANGED pc
    /\ UNCHANGED <<req, owner, discovery>>

GrantCapabilities ==
    /\ queue # <<>>
    /\ Grantable(Op(Head(queue)))
    /\ Advance(Head(queue))
    /\ queue' = Tail(queue)
    /\ UNCHANGED <<req, owner, discovery>>

Answer(t) ==
    /\ req[t] # None
    /\ ~AtOp(t)
    /\ req' = [req EXCEPT ![t] = None]
    /\ UNCHANGED <<pc, owner, queue, discovery>>

\* run_discovery binds its socket and loops; a bind or socket error ends it.
DiscoveryStart ==
    /\ discovery = "starting"
    /\ queue = <<>>
    /\ discovery' = "serving"
    /\ UNCHANGED <<req, pc, owner, queue>>

DiscoveryEnd ==
    /\ DiscoveryFails
    /\ discovery = "serving"
    /\ discovery' = "failed"
    /\ UNCHANGED <<req, pc, owner, queue>>

TaskStep(t) ==
    \/ \E m \in Mutex : LockMutex(t, m) \/ UnlockMutex(t, m)
    \/ UseCapabilities(t)
    \/ Answer(t)

Next ==
    \/ \E t \in Task : TaskStep(t) \/ \E k \in Command : Receive(t, k)
    \/ GrantCapabilities
    \/ DiscoveryStart
    \/ DiscoveryEnd

Spec == Init /\ [][Next]_vars

(***************************************************************************)
(* The runtime polls every task that can run, and a tokio mutex is granted *)
(* in FIFO order: a task at a mutex that is free again and again gets it.  *)
(* Clients need not send anything, and the discovery loop need not end.    *)
(***************************************************************************)
Fairness ==
    /\ \A t \in Task : SF_vars(TaskStep(t))
    /\ WF_vars(GrantCapabilities)
    /\ WF_vars(DiscoveryStart)

FairSpec == Spec /\ Fairness

-----------------------------------------------------------------------------
(* Properties *)

CanStep(t) ==
    IF AtOp(t)
    THEN \/ \E m \in Mutex : Op(t) = Lock(m) /\ owner[m] = None
         \/ \E m \in Mutex : Op(t) = Unlock(m)
         \/ Op(t) \in {Read, Write} /\ ~Waits(t)
         \/ queue # <<>> /\ Head(queue) = t /\ Grantable(Op(t))
    ELSE TRUE

\* A writer of the capabilities stands behind the guard of the discovery task, and
\* whoever wants the capabilities next stands behind it.
BehindDiscovery == queue # <<>> /\ Op(Head(queue)) = Write /\ discovery = "serving"

\* The handlers take their locks in one order: when no request can go on, the
\* cause is a writer of the capabilities behind the discovery guard, never a
\* cycle of handlers.  (And the state is well typed.)
StuckOnlyOnDiscovery ==
    /\ TypeOK
    /\ \/ \A t \in Task : req[t] = None
       \/ \E t \in Task : req[t] # None /\ CanStep(t)
       \/ BehindDiscovery

\* The discovery guard is all that a request can wait for without end: each one is
\* answered or a writer stands behind the guard from some moment on for good.  And the
\* requests that need neither the capabilities nor a lock of who may wait for them are
\* answered even then.
AnsweredUnlessBehindDiscovery ==
    \A t \in Task :
       /\ req[t] # None ~> (req[t] = None \/ []BehindDiscovery)
       /\ req[t] \in {"get_health", "controller_event"} ~> req[t] = None

\* "get_capabilities: Wayland, portal, and system capability model" in the table of
\* commands of docs/PROTOCOL.md: the command has an answer.  TLC finds it violated while discovery
\* serves.
CapabilitiesAreTold == \A t \in Task : req[t] = "get_capabilities" ~> req[t] = None
=============================================================================
