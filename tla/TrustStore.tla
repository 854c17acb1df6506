----------------------------- MODULE TrustStore -----------------------------
(***************************************************************************)
(* Trusted devices, pairing codes and the host key: src/state.rs, the      *)
(* handlers handle_pair and handle_auth of src/server.rs and the commands  *)
(* pair-code, devices revoke and rotate-host-key of src/main.rs.           *)
(*                                                                         *)
(* The daemon loads the store once and then works on its own copy under    *)
(* the `devices` mutex; a command of the owner is another process working  *)
(* on the files, whether the daemon serves or not.  The daemon may die at  *)
(* every step and be started again.                                        *)
(* Hashes and tokens are reduced to who holds them: a device that received *)
(* its pairing response can authenticate, nobody else can.                 *)
(***************************************************************************)
EXTENDS Naturals, FiniteSets

CONSTANTS
    Device,     \* device ids that pair_device may generate
    Code,       \* codes that pair-code may generate
    Conn,       \* concurrent connections
    MaxKey,     \* bound: how often the host key is rotated
    Overlap,    \* a command's load and save of the store may overlap a daemon's save
    Torn,       \* a file that was truncated and not yet filled
    None

ASSUME MaxKeyAssumption == MaxKey \in Nat
ASSUME OverlapAssumption == Overlap \in BOOLEAN
ASSUME NoneAssumption == None \notin Device \cup Code \cup Conn

VARIABLES
    up,        \* the daemon process runs
    mem,       \* AppState.devices
    holder,    \* the connection holding the `devices` mutex
    req,       \* the request each connection is in
    authed,    \* the connection's `authenticated` device
    disk,      \* trusted_devices.json
    tmp,       \* trusted_devices.tmp, shared by all writers
    writer,    \* progress of write_private_json in each process
    code,      \* pairing_code.json
    expired,   \* codes whose expires_at has passed
    issued,    \* history: codes printed by pair-code
    keyDisk,   \* host_identity.json, numbered by rotation
    keyMem,    \* the identity the daemon serves with
    pin,       \* the host key a device pinned when it paired
    usedCode,  \* history: the code a device was paired with
    paired,    \* history: devices that received their token
    revoked,   \* history: devices reported as revoked
    heard,     \* history: revocations that a start of the daemon found, or that
               \* were reported while it was down
    outdated   \* history: devices whose pin a start of the daemon found too old

daemonVars == <<up, mem, holder, req, authed, keyMem>>
fileVars == <<disk, tmp, writer>>
codeVars == <<code, expired, issued>>
historyVars == <<pin, usedCode, paired, revoked, heard, outdated>>
vars == <<daemonVars, fileVars, codeVars, keyDisk, historyVars>>

Status == {"absent", "trusted", "revoked"}
Store == [Device -> Status]
EmptyStore == [d \in Device |-> "absent"]
Process == {"daemon", "cli"}

ASSUME TornAssumption == Torn \notin Store \cup {None}

IdleReq == [op |-> "idle", code |-> None, device |-> None]
IdleWriter == [pc |-> "idle", data |-> EmptyStore, at |-> "tmp", device |-> None]

TypeOK ==
    /\ up \in BOOLEAN
    /\ mem \in Store
    /\ holder \in Conn \cup {None}
    /\ req \in [Conn -> [op : {"idle", "code_read", "code_used", "pairing", "authenticating"},
                         code : Code \cup {None}, device : Device \cup {None}]]
    /\ authed \in [Conn -> Device \cup {None}]
    /\ disk \in Store \cup {Torn}
    /\ tmp \in Store \cup {Torn, None}
    /\ writer \in [Process -> [pc : {"idle", "opening", "filling", "publishing", "saved", "failed"},
                               data : Store, at : {"tmp", "disk", "unlinked"},
                               device : Device \cup {None}]]
    /\ code \in Code \cup {None}
    /\ expired \subseteq Code
    /\ issued \subseteq Code
    /\ keyDisk \in 0..MaxKey
    /\ keyMem \in 0..MaxKey
    /\ pin \in [Device -> 0..MaxKey]
    /\ usedCode \in [Device -> Code \cup {None}]
    /\ paired \subseteq Device
    /\ revoked \subseteq Device /\ heard \subseteq Device /\ outdated \subseteq Device
    /\ holder # None => req[holder].op \in {"pairing", "authenticating"}

Init ==
    /\ up = FALSE
    /\ mem = EmptyStore
    /\ holder = None
    /\ req = [c \in Conn |-> IdleReq]
    /\ authed = [c \in Conn |-> None]
    /\ disk = EmptyStore
    /\ tmp = None
    /\ writer = [p \in Process |-> IdleWriter]
    /\ code = None
    /\ expired = {}
    /\ issued = {}
    /\ keyDisk = 0
    /\ keyMem = 0
    /\ pin = [d \in Device |-> 0]
    /\ usedCode = [d \in Device |-> None]
    /\ paired = {}
    /\ revoked = {} /\ heard = {} /\ outdated = {}

\* A save of the process may begin; the other one may be in a save only with Overlap.
MaySave(p) ==
    /\ writer[p].pc = "idle"
    /\ Overlap \/ \A q \in Process : writer[q].pc = "idle"

-----------------------------------------------------------------------------
(* write_private_json: truncate and fill the shared .tmp, then rename it *)

BeginSave(p, store, d) ==
    writer' = [writer EXCEPT ![p] = [pc |-> "opening", data |-> store, at |-> "tmp", device |-> d]]

\* Mutant of OpenTmp: the store is written in place.
OpenInPlace(p) ==
    /\ writer[p].pc = "opening"
    /\ disk' = Torn
    /\ writer' = [writer EXCEPT ![p].pc = "filling", ![p].at = "disk"]
    /\ UNCHANGED <<daemonVars, tmp, codeVars, keyDisk, historyVars>>

OpenTmp(p) ==
    /\ writer[p].pc = "opening"
    /\ tmp' = Torn
    /\ writer' = [writer EXCEPT ![p].pc = "filling"]
    /\ UNCHANGED <<daemonVars, disk, codeVars, keyDisk, historyVars>>

\* Writing data over a file another writer has filled may leave its tail behind.
Written(file, data) == IF file = Torn THEN {data} ELSE {data, Torn}

\* The open file is written wherever a rename of the other process has put it.
FillTmp(p) ==
    /\ writer[p].pc = "filling"
    /\ \/ writer[p].at = "tmp" /\ tmp' \in Written(tmp, writer[p].data) /\ UNCHANGED disk
       \/ writer[p].at = "disk" /\ disk' \in Written(disk, writer[p].data) /\ UNCHANGED tmp
       \/ writer[p].at = "unlinked" /\ UNCHANGED <<disk, tmp>>
    /\ writer' = [writer EXCEPT ![p].pc = "publishing"]
    /\ UNCHANGED <<daemonVars, codeVars, keyDisk, historyVars>>

\* After a rename the other process's open file is no longer the .tmp.
Moved(q) ==
    IF writer[q].pc # "filling" THEN writer[q].at
    ELSE IF writer[q].at = "tmp" THEN "disk" ELSE "unlinked"

\* Mutant of Publish: the rename is forgotten.
PublishNothing(p) ==
    /\ writer[p].pc = "publishing"
    /\ writer' = [writer EXCEPT ![p].pc = "saved"]
    /\ UNCHANGED <<daemonVars, disk, tmp, codeVars, keyDisk, historyVars>>

\* chmod and rename fail when the other process already renamed the .tmp.
Publish(p) ==
    /\ writer[p].pc = "publishing"
    /\ tmp # None
    /\ disk' = tmp
    /\ tmp' = None
    /\ writer' = [q \in Process |-> IF q = p THEN [writer[p] EXCEPT !.pc = "saved"]
                                    ELSE [writer[q] EXCEPT !.at = Moved(q)]]
    /\ UNCHANGED <<daemonVars, codeVars, keyDisk, historyVars>>

SaveFails(p) ==
    /\ \/ writer[p].pc \in {"opening", "filling"}
       \/ writer[p].pc = "publishing" /\ tmp = None
    /\ writer' = [writer EXCEPT ![p].pc = "failed"]
    /\ UNCHANGED <<daemonVars, disk, tmp, codeVars, keyDisk, historyVars>>

-----------------------------------------------------------------------------
(* Commands of the owner *)

PairCode(k) ==
    /\ k \notin issued
    /\ code' = k
    /\ issued' = issued \cup {k}
    /\ UNCHANGED <<daemonVars, fileVars, expired, keyDisk, historyVars>>

Expire(k) ==
    /\ k \in issued \ expired
    /\ expired' = expired \cup {k}
    /\ UNCHANGED <<daemonVars, fileVars, code, issued, keyDisk, historyVars>>

RevokeDevice(d) ==
    /\ MaySave("cli")
    /\ disk # Torn
    /\ disk[d] # "absent"
    /\ BeginSave("cli", [disk EXCEPT ![d] = "revoked"], d)
    /\ UNCHANGED <<daemonVars, disk, tmp, codeVars, keyDisk, historyVars>>

RevokeReturns ==
    /\ writer["cli"].pc \in {"saved", "failed"}
    /\ IF writer["cli"].pc = "saved"
       THEN /\ revoked' = revoked \cup {writer["cli"].device}
            /\ heard' = IF up THEN heard ELSE heard \cup {writer["cli"].device}
       ELSE UNCHANGED <<revoked, heard>>
    /\ writer' = [writer EXCEPT !["cli"] = IdleWriter]
    /\ UNCHANGED <<daemonVars, disk, tmp, codeVars, keyDisk, pin, usedCode, paired, outdated>>

\* It replaces a file of its own, of which the running daemon knows nothing.
RotateIdentity ==
    /\ keyDisk < MaxKey
    /\ keyDisk' = keyDisk + 1
    /\ UNCHANGED <<daemonVars, fileVars, codeVars, historyVars>>

-----------------------------------------------------------------------------
(* The daemon *)

\* History: what a start finds on disk.
Found ==
    /\ heard' = heard \cup {d \in revoked : disk[d] = "revoked"}
    /\ outdated' = outdated \cup {d \in Device : usedCode[d] # None /\ pin[d] # keyDisk}

\* Mutant of Start: the identity of an earlier run is kept.
StartKeepsIdentity ==
    /\ ~up
    /\ disk # Torn
    /\ up' = TRUE
    /\ mem' = disk
    /\ Found
    /\ UNCHANGED <<holder, req, authed, keyMem, fileVars, codeVars, keyDisk,
                   pin, usedCode, paired, revoked>>

\* server::run loads the store before it listens; an unreadable one ends it.
Start ==
    /\ ~up
    /\ disk # Torn
    /\ up' = TRUE
    /\ mem' = disk
    /\ keyMem' = keyDisk
    /\ Found
    /\ UNCHANGED <<holder, req, authed, fileVars, codeVars, keyDisk,
                   pin, usedCode, paired, revoked>>

Crash ==
    /\ up
    /\ up' = FALSE
    /\ mem' = EmptyStore
    /\ holder' = None
    /\ req' = [c \in Conn |-> IdleReq]
    /\ authed' = [c \in Conn |-> None]
    /\ writer' = [writer EXCEPT !["daemon"] = IdleWriter]
    /\ UNCHANGED <<keyMem, disk, tmp, codeVars, keyDisk, historyVars>>

Disconnect(c) ==
    /\ authed[c] # None
    /\ req[c].op = "idle"
    /\ authed' = [authed EXCEPT ![c] = None]
    /\ UNCHANGED <<up, mem, holder, req, keyMem, fileVars, codeVars, keyDisk, historyVars>>

\* validate_pairing_code reads and compares the file without any lock ...
ReadCode(c) ==
    /\ up
    /\ req[c].op = "idle"
    /\ code # None
    /\ code \notin expired
    /\ req' = [req EXCEPT ![c] = [op |-> "code_read", code |-> code, device |-> None]]
    /\ UNCHANGED <<up, mem, holder, authed, keyMem, fileVars, codeVars, keyDisk, historyVars>>

\* ... and then removes whatever file is there, ignoring the result.
ConsumeCode(c) ==
    /\ req[c].op = "code_read"
    /\ code' = None
    /\ req' = [req EXCEPT ![c].op = "code_used"]
    /\ UNCHANGED <<up, mem, holder, authed, keyMem, fileVars, expired, issued, keyDisk, historyVars>>

\* handle_pair under the `devices` mutex: the new device enters memory first.
PairDevice(c, d) ==
    /\ req[c].op = "code_used"
    /\ holder = None
    /\ MaySave("daemon")
    /\ usedCode[d] = None
    /\ holder' = c
    /\ mem' = [mem EXCEPT ![d] = "trusted"]
    /\ BeginSave("daemon", mem', d)
    /\ usedCode' = [usedCode EXCEPT ![d] = req[c].code]
    /\ pin' = [pin EXCEPT ![d] = keyMem]
    /\ req' = [req EXCEPT ![c] = [@ EXCEPT !.op = "pairing", !.device = d]]
    /\ UNCHANGED <<up, authed, keyMem, disk, tmp, codeVars, keyDisk,
                   paired, revoked, heard, outdated>>

\* Mutant of Authenticate: the revoked flag is not looked at.
AuthenticateAny(c, d) ==
    /\ up
    /\ req[c].op = "idle"
    /\ holder = None
    /\ MaySave("daemon")
    /\ d \in paired
    /\ pin[d] = keyMem
    /\ mem[d] # "absent"
    /\ holder' = c
    /\ BeginSave("daemon", mem, d)
    /\ req' = [req EXCEPT ![c] = [op |-> "authenticating", code |-> None, device |-> d]]
    /\ UNCHANGED <<up, mem, authed, keyMem, disk, tmp, codeVars, keyDisk, historyVars>>

\* handle_auth: every success is saved.  A client whose pinned key differs from
\* the daemon's ends the handshake before it authenticates.
Authenticate(c, d) ==
    /\ up
    /\ req[c].op = "idle"
    /\ holder = None
    /\ MaySave("daemon")
    /\ d \in paired
    /\ pin[d] = keyMem
    /\ mem[d] = "trusted"
    /\ holder' = c
    /\ BeginSave("daemon", mem, d)
    /\ req' = [req EXCEPT ![c] = [op |-> "authenticating", code |-> None, device |-> d]]
    /\ UNCHANGED <<up, mem, authed, keyMem, disk, tmp, codeVars, keyDisk, historyVars>>

\* The handler answers and releases the mutex.  After a failed save the answer
\* is an error, but the device stays in memory and the next save writes it.
Answer(c) ==
    /\ holder = c
    /\ writer["daemon"].pc \in {"saved", "failed"}
    /\ IF writer["daemon"].pc = "saved"
       THEN /\ authed' = [authed EXCEPT ![c] = req[c].device]
            /\ paired' = paired \cup {req[c].device}
       ELSE UNCHANGED <<authed, paired>>
    /\ holder' = None
    /\ req' = [req EXCEPT ![c] = IdleReq]
    /\ writer' = [writer EXCEPT !["daemon"] = IdleWriter]
    /\ UNCHANGED <<up, mem, keyMem, disk, tmp, codeVars, keyDisk, pin, usedCode,
                   revoked, heard, outdated>>

OwnerNext ==
    \/ \E k \in Code : PairCode(k) \/ Expire(k)
    \/ \E d \in Device : RevokeDevice(d)
    \/ RevokeReturns
    \/ RotateIdentity

DaemonNext ==
    \/ Start
    \/ Crash
    \/ \E c \in Conn : \/ Disconnect(c) \/ ReadCode(c) \/ ConsumeCode(c) \/ Answer(c)
                       \/ \E d \in Device : PairDevice(c, d) \/ Authenticate(c, d)

FileNext == \E p \in Process : OpenTmp(p) \/ FillTmp(p) \/ Publish(p) \/ SaveFails(p)

Next == OwnerNext \/ DaemonNext \/ FileNext

Spec == Init /\ [][Next]_vars

-----------------------------------------------------------------------------
(* Properties *)

\* The rename makes a save atomic: wherever the daemon dies in a save, it finds
\* a whole trusted_devices.json when it starts again.
\* (And the state is well typed.)
StoreIsReadable == TypeOK /\ disk # Torn

\* A device that was told its token survives every crash: the pair response is
\* only sent once the store that holds the device was renamed into place, and no
\* later save of another connection writes a store without it.
PairingIsDurable == \A d \in paired : disk = Torn \/ disk[d] # "absent"

\* A revocation that the daemon can know of, because it found it when it started or
\* the command reported it while it was down, holds for good: no crash, no save of
\* any connection and no other command brings the device back, and no connection acts
\* for it.
RevocationHolds ==
    \A d \in heard : /\ disk = Torn \/ disk[d] = "revoked"
                     /\ \A c \in Conn : authed[c] # d

\* "Device Was Lost or Sold: Revoke it" (docs/TROUBLESHOOTING.md), of a daemon that
\* serves: the revocation that the command reported is still in the file later on.  TLC finds it
\* violated: the next save of the daemon writes the copy it loaded.
RevocationIsKept == \A d \in revoked : disk = Torn \/ disk[d] = "revoked"

\* From the first start after a rotation on, a device that paired before it is never
\* admitted again, also one that paired with the old key when the new one was on disk.
OldPinsAreRefused ==
    \A c \in Conn : /\ authed[c] \notin outdated
                    /\ req[c].op = "authenticating" => req[c].device \notin outdated

\* The step in which handle_auth accepts a device.
Admits(c) == req[c].op = "idle" /\ req'[c].op = "authenticating"

\* "Host key rotation invalidates existing trust" (docs/ARCHITECTURE.md), of a daemon
\* that serves: no device is admitted with a pin older than the key on disk.  TLC finds it violated.
RotationInvalidatesTrust ==
    [][\A c \in Conn : Admits(c) => pin[req'[c].device] = keyDisk]_vars

\* "Pairing codes ... are single use" (docs/TROUBLESHOOTING.md).
CodeIsSingleUse ==
    \A d, e \in Device : usedCode[d] # None /\ usedCode[d] = usedCode[e] => d = e
=============================================================================
