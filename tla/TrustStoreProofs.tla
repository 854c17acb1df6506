-------------------------- MODULE TrustStoreProofs --------------------------
(***************************************************************************)
(* Trust survives crashes and ends with a revocation or a rotation that    *)
(* the daemon has found: proofs about TrustStore for any number of devices,*)
(* codes and connections.  The owner's commands run at any time, but none  *)
(* loads and saves the store while the daemon saves it: with Overlap both  *)
(* processes write one .tmp file, and the theorems are false.              *)
(***************************************************************************)
EXTENDS TrustStore, TLAPS

\* A process is in the middle of a save.
Writing(p) == writer[p].pc # "idle"

\* The daemon writes while a handler holds the mutex, a command when it does not.
OneWriter ==
    /\ Writing("cli") => ~Writing("daemon")
    /\ Writing("daemon") <=> holder # None

\* A daemon that is down serves nobody.
DownIsQuiet ==
    ~up => holder = None /\ \A c \in Conn : req[c].op = "idle" /\ authed[c] = None

\* How far a save has come is what the files show.
FilesFollow ==
    /\ disk # Torn
    /\ \A p \in Process :
          /\ writer[p].at = "tmp"
          /\ writer[p].pc = "filling" => tmp = Torn
          /\ writer[p].pc = "publishing" => tmp = writer[p].data
          /\ writer[p].pc = "saved" => disk = writer[p].data

\* A store that loses no promise made so far.
Good(store) ==
    \A d \in Device :
       /\ d \in paired => store[d] # "absent"
       /\ d \in heard => store[d] = "revoked"
       /\ store[d] # "absent" => usedCode[d] # None

StoresAreGood ==
    /\ Good(disk)
    /\ up => Good(mem)
    /\ \A p \in Process : Writing(p) => Good(writer[p].data)

\* The store being saved is the one in memory; the device to answer is in it, and
\* pinned the key that is served.
HolderServed ==
    holder # None =>
       /\ writer["daemon"].data = mem
       /\ req[holder].device \in Device
       /\ mem[req[holder].device] = "trusted"
       /\ pin[req[holder].device] = keyMem

\* Who goes on to validate a code has read one.
CodesAreRead ==
    \A c \in Conn : req[c].op \in {"code_read", "code_used"} => req[c].code # None

\* What the owner's command saves has the device revoked, and all that are on disk.
RevokeWrites ==
    Writing("cli") =>
       /\ writer["cli"].device \in Device
       /\ writer["cli"].data[writer["cli"].device] = "revoked"
       /\ \A d \in Device : disk[d] = "revoked" => writer["cli"].data[d] = "revoked"

\* No connection acts for a device whose revocation was heard.
RevokedIsOut == \A c \in Conn : authed[c] \notin heard

\* Pins are keys of the past or the one on disk; one that a start found too old is
\* older than the key served from then on.
PinsFollow ==
    /\ keyMem <= keyDisk
    /\ \A d \in Device : usedCode[d] # None => pin[d] <= keyDisk
    /\ \A d \in outdated : usedCode[d] # None /\ pin[d] < keyMem

TrustInv ==
    /\ TypeOK
    /\ OneWriter /\ DownIsQuiet /\ FilesFollow /\ StoresAreGood
    /\ HolderServed /\ CodesAreRead /\ RevokeWrites /\ RevokedIsOut /\ PinsFollow /\ OldPinsAreRefused

-----------------------------------------------------------------------------
(* Types *)

Writers ==
    [Process -> [pc : {"idle", "opening", "filling", "publishing", "saved", "failed"},
                 data : Store, at : {"tmp", "disk", "unlinked"}, device : Device \cup {None}]]

Requests ==
    [Conn -> [op : {"idle", "code_read", "code_used", "pairing", "authenticating"},
              code : Code \cup {None}, device : Device \cup {None}]]

\* A save leaves the writers well typed.
LEMMA SaveTypes ==
    ASSUME TypeOK, NEW p \in Process, NEW store \in Store, NEW d \in Device,
           BeginSave(p, store, d)
    PROVE  writer' \in Writers
BY DEF TypeOK, BeginSave, Writers

\* A process that has no save in progress.
LEMMA IdleTypes ==
    ASSUME TypeOK, NEW p \in Process
    PROVE  [writer EXCEPT ![p] = IdleWriter] \in Writers
<1>1. IdleWriter \in [pc : {"idle", "opening", "filling", "publishing", "saved", "failed"},
                     data : Store, at : {"tmp", "disk", "unlinked"}, device : Device \cup {None}]
  BY DEF IdleWriter, EmptyStore, Store, Status
<1>2. QED BY <1>1 DEF TypeOK, Writers

\* Every step leaves the state well typed.
LEMMA TypeStep == TypeOK /\ HolderServed /\ RevokeWrites /\ [Next]_vars => TypeOK'
<1> SUFFICES ASSUME TypeOK, HolderServed, RevokeWrites, [Next]_vars PROVE TypeOK'
  OBVIOUS
<1> USE DEF TypeOK, Writers, Requests, daemonVars, fileVars, codeVars, historyVars
<1>1. ASSUME NEW k \in Code, PairCode(k) \/ Expire(k) PROVE TypeOK'
  BY <1>1 DEF PairCode, Expire
<1>2. ASSUME NEW d \in Device, RevokeDevice(d) PROVE TypeOK'
  <2>1. [disk EXCEPT ![d] = "revoked"] \in Store
    BY <1>2 DEF RevokeDevice, Store, Status
  <2>2. BeginSave("cli", [disk EXCEPT ![d] = "revoked"], d)
    BY <1>2 DEF RevokeDevice
  <2>3. writer' \in Writers
    BY <2>1, <2>2, SaveTypes DEF Process
  <2>4. QED BY <1>2, <2>3 DEF RevokeDevice
<1>3. CASE RevokeReturns
  <2>1. writer' \in Writers
    BY <1>3, IdleTypes DEF RevokeReturns, Process
  <2>2. Writing("cli")
    BY <1>3 DEF RevokeReturns, Writing
  <2>3. revoked' \subseteq Device /\ heard' \subseteq Device
    BY <1>3, <2>2 DEF RevokeReturns, RevokeWrites
  <2>4. QED BY <1>3, <2>1, <2>3 DEF RevokeReturns
<1>4. CASE RotateIdentity
  BY <1>4, MaxKeyAssumption DEF RotateIdentity
<1>5. CASE Start
  BY <1>5 DEF Start, Found
<1>6. CASE Crash
  BY <1>6 DEF Crash, IdleWriter, IdleReq, EmptyStore, Store, Status, Process
<1>7. ASSUME NEW c \in Conn, Disconnect(c) \/ ReadCode(c) \/ ConsumeCode(c) PROVE TypeOK'
  <2>1. CASE Disconnect(c)
    BY <2>1 DEF Disconnect
  <2>2. CASE ReadCode(c)
    <3>1. holder # None => holder # c
      BY <2>2 DEF ReadCode
    <3>2. req' \in Requests
      BY <2>2 DEF ReadCode
    <3>3. QED BY <2>2, <3>1, <3>2 DEF ReadCode
  <2>3. CASE ConsumeCode(c)
    <3>1. holder # None => holder # c
      BY <2>3 DEF ConsumeCode
    <3>2. req' \in Requests
      BY <2>3 DEF ConsumeCode
    <3>3. QED BY <2>3, <3>1, <3>2 DEF ConsumeCode
  <2>4. QED BY <1>7, <2>1, <2>2, <2>3
<1>8. ASSUME NEW c \in Conn, Answer(c) PROVE TypeOK'
  <2>1. writer' \in Writers
    BY <1>8, IdleTypes DEF Answer, Process
  <2>2. req' \in Requests
    BY <1>8 DEF Answer, IdleReq
  <2>3. authed' \in [Conn -> Device \cup {None}] /\ paired' \subseteq Device
    BY <1>8, NoneAssumption DEF Answer, HolderServed
  <2>4. QED BY <1>8, <2>1, <2>2, <2>3 DEF Answer
<1>9. ASSUME NEW c \in Conn, NEW d \in Device, PairDevice(c, d) PROVE TypeOK'
  <2>1. mem' \in Store /\ BeginSave("daemon", mem', d)
    BY <1>9 DEF PairDevice, Store, Status
  <2>2. writer' \in Writers
    BY <2>1, SaveTypes DEF Process
  <2>3. req' = [req EXCEPT ![c] = [req[c] EXCEPT !.op = "pairing", !.device = d]]
    BY <1>9 DEF PairDevice
  <2>4. req' \in Requests /\ req'[c].op = "pairing"
    <3> DEFINE r == [req[c] EXCEPT !.op = "pairing", !.device = d]
    <3>1. /\ r \in [op : {"idle", "code_read", "code_used", "pairing", "authenticating"},
                     code : Code \cup {None}, device : Device \cup {None}]
          /\ r.op = "pairing"
      <4>1. req[c] \in [op : {"idle", "code_read", "code_used", "pairing", "authenticating"},
                        code : Code \cup {None}, device : Device \cup {None}]
        OBVIOUS
      <4>2. QED BY <4>1
    <3> HIDE DEF r
    <3>2. req' = [req EXCEPT ![c] = r]
      BY <2>3 DEF r
    <3>3. QED BY <3>1, <3>2
  <2>5. usedCode' \in [Device -> Code \cup {None}] /\ pin' \in [Device -> 0..MaxKey]
    BY <1>9 DEF PairDevice
  <2>6. QED BY <1>9, <2>1, <2>2, <2>4, <2>5 DEF PairDevice
<1>10. ASSUME NEW c \in Conn, NEW d \in Device, Authenticate(c, d) PROVE TypeOK'
  <2>1. BeginSave("daemon", mem, d)
    BY <1>10 DEF Authenticate
  <2>2. writer' \in Writers
    BY <2>1, SaveTypes DEF Process
  <2>3. QED BY <1>10, <2>2 DEF Authenticate
<1>11. ASSUME NEW p \in Process, OpenTmp(p) \/ SaveFails(p) PROVE TypeOK'
  <2>1. CASE OpenTmp(p)
    <3>1. writer' \in Writers
      BY <2>1 DEF OpenTmp
    <3>2. QED BY <2>1, <3>1 DEF OpenTmp
  <2>2. CASE SaveFails(p)
    <3>1. writer' \in Writers
      BY <2>2 DEF SaveFails
    <3>2. QED BY <2>2, <3>1 DEF SaveFails
  <2>3. QED BY <1>11, <2>1, <2>2
<1>12. ASSUME NEW p \in Process, FillTmp(p) PROVE TypeOK'
  <2>1. writer' \in Writers
    BY <1>12 DEF FillTmp
  <2>2. disk' \in Store \cup {Torn} /\ tmp' \in Store \cup {Torn, None}
    BY <1>12 DEF FillTmp, Written
  <2>3. QED BY <1>12, <2>1, <2>2 DEF FillTmp
<1>13. ASSUME NEW p \in Process, Publish(p) PROVE TypeOK'
  <2>1. writer' \in Writers
    <3>1. \A q \in Process : Moved(q) \in {"tmp", "disk", "unlinked"}
      BY DEF Moved
    <3>2. /\ [writer[p] EXCEPT !.pc = "saved"] \in
               [pc : {"idle", "opening", "filling", "publishing", "saved", "failed"},
                data : Store, at : {"tmp", "disk", "unlinked"}, device : Device \cup {None}]
          /\ \A q \in Process : [writer[q] EXCEPT !.at = Moved(q)] \in
               [pc : {"idle", "opening", "filling", "publishing", "saved", "failed"},
                data : Store, at : {"tmp", "disk", "unlinked"}, device : Device \cup {None}]
      BY <3>1, SMTT(20)
    <3>3. QED BY <1>13, <3>2 DEF Publish
  <2>2. QED BY <1>13, <2>1 DEF Publish
<1>14. CASE UNCHANGED vars
  BY <1>14 DEF vars
<1>15. QED BY <1>1, <1>2, <1>3, <1>4, <1>5, <1>6, <1>7, <1>8, <1>9, <1>10, <1>11, <1>12, <1>13, <1>14
           DEF Next, OwnerNext, DaemonNext, FileNext

\* At any moment one process at most has a save in progress.
LEMMA OneAtATime ==
    ASSUME TrustInv, NEW p \in Process, NEW q \in Process, Writing(p), Writing(q)
    PROVE  p = q
BY DEF TrustInv, OneWriter, DownIsQuiet, Process

\* Keys and pins are numbers.
LEMMA KeysAreNumbers ==
    ASSUME TypeOK
    PROVE  /\ keyDisk \in Nat /\ keyMem \in Nat /\ outdated \subseteq Device
           /\ \A d \in Device : pin[d] \in Nat
<1>1. 0..MaxKey \subseteq Nat
  BY MaxKeyAssumption
<1>2. QED BY <1>1 DEF TypeOK

\* A device that the served key was pinned by is not outdated.
LEMMA ServedIsNotOutdated ==
    ASSUME TypeOK, PinsFollow, NEW d \in Device, pin[d] = keyMem
    PROVE  d \notin outdated
<1>1. keyMem \in Nat
  BY KeysAreNumbers
<1>2. QED BY <1>1 DEF PinsFollow

\* Every step keeps the invariant.
LEMMA NextInv ==
    ASSUME ~Overlap, TrustInv, [Next]_vars
    PROVE  TrustInv'
<1> USE DEF TrustInv
<1>0. TypeOK'
  BY TypeStep
<1> USE NoneAssumption, TornAssumption DEF Writing, Process, daemonVars, fileVars, codeVars, historyVars
<1>1. ASSUME NEW k \in Code, PairCode(k) \/ Expire(k)
      PROVE  TrustInv'
  <2>1. OneWriter' /\ DownIsQuiet' /\ FilesFollow' /\ StoresAreGood' /\ HolderServed'
        /\ CodesAreRead' /\ RevokeWrites' /\ RevokedIsOut' /\ PinsFollow' /\ OldPinsAreRefused'
    BY <1>1, <1>0 DEF OneWriter, DownIsQuiet, FilesFollow, StoresAreGood, HolderServed,
       CodesAreRead, RevokeWrites, RevokedIsOut, PinsFollow, OldPinsAreRefused, Good, PairCode, Expire,
       TypeOK
  <2>2. QED BY <1>0, <2>1
<1>2. ASSUME NEW d \in Device, RevokeDevice(d)
      PROVE  TrustInv'
  <2>1. OneWriter' /\ DownIsQuiet' /\ FilesFollow' /\ StoresAreGood' /\ HolderServed'
        /\ CodesAreRead' /\ RevokedIsOut' /\ PinsFollow' /\ OldPinsAreRefused'
    BY <1>2, <1>0 DEF OneWriter, DownIsQuiet, FilesFollow, StoresAreGood, HolderServed,
       CodesAreRead, RevokedIsOut, PinsFollow, OldPinsAreRefused, Good, RevokeDevice, MaySave, BeginSave,
       TypeOK
  <2>2. RevokeWrites'
    <3>1. writer' = [writer EXCEPT !["cli"] = [pc |-> "opening", data |-> [disk EXCEPT ![d] = "revoked"],
                                             at |-> "tmp", device |-> d]]
      BY <1>2 DEF RevokeDevice, BeginSave
    <3>2. writer'["cli"].device = d /\ writer'["cli"].data = [disk EXCEPT ![d] = "revoked"]
      BY <3>1 DEF TypeOK
    <3>3. disk \in Store
      BY DEF TypeOK, FilesFollow
    <3>4. /\ [disk EXCEPT ![d] = "revoked"][d] = "revoked"
          /\ \A e \in Device : e # d => [disk EXCEPT ![d] = "revoked"][e] = disk[e]
      BY <3>3 DEF Store
    <3>5. disk' = disk
      BY <1>2 DEF RevokeDevice
    <3>6. QED BY <3>2, <3>4, <3>5 DEF RevokeWrites
  <2>3. QED BY <1>0, <2>1, <2>2
<1>3. ASSUME RevokeReturns
      PROVE  TrustInv'
  <2>1. /\ writer' = [writer EXCEPT !["cli"] = IdleWriter] /\ Writing("cli")
        /\ UNCHANGED <<up, mem, holder, req, authed, keyMem, disk, tmp, keyDisk, pin, usedCode, paired, outdated>>
    BY <1>3 DEF RevokeReturns
  <2>2. writer'["cli"] = IdleWriter /\ writer'["daemon"] = writer["daemon"] /\ ~Writing("daemon")
    BY <2>1 DEF TypeOK, OneWriter
  <2>3. \/ heard' = heard
        \/ ~up /\ \A d \in heard' : d \in heard \/ (d \in Device /\ disk[d] = "revoked")
    <3>1. CASE writer["cli"].pc = "saved"
      <4>1. /\ writer["cli"].device \in Device /\ disk = writer["cli"].data
            /\ disk[writer["cli"].device] = "revoked"
        BY <2>1, <3>1 DEF RevokeWrites, FilesFollow
      <4>2. heard' = IF up THEN heard ELSE heard \cup {writer["cli"].device}
        BY <1>3, <3>1 DEF RevokeReturns
      <4>3. QED BY <4>1, <4>2
    <3>2. CASE writer["cli"].pc # "saved"
      BY <1>3, <3>2 DEF RevokeReturns
    <3>3. QED BY <3>1, <3>2
  <2>4. OneWriter' /\ DownIsQuiet' /\ HolderServed' /\ CodesAreRead' /\ RevokeWrites'
    BY <2>1, <2>2 DEF OneWriter, DownIsQuiet, HolderServed, CodesAreRead, RevokeWrites, IdleWriter
  <2>5. FilesFollow'
    BY <2>1, <2>2 DEF FilesFollow, IdleWriter
  <2>6. PinsFollow' /\ OldPinsAreRefused'
    BY <2>1 DEF PinsFollow, OldPinsAreRefused
  <2>7. StoresAreGood'
    <3>1. Good(disk)'
      BY <2>1, <2>3 DEF StoresAreGood, Good
    <3>2. up' => Good(mem)'
      BY <2>1, <2>3 DEF StoresAreGood, Good
    <3>3. \A p \in Process : ~Writing(p)'
      BY <2>2 DEF IdleWriter
    <3>4. QED BY <3>1, <3>2, <3>3 DEF StoresAreGood
  <2>8. RevokedIsOut'
    BY <1>0, <2>1, <2>3 DEF RevokedIsOut, DownIsQuiet, TypeOK
  <2>9. QED BY <1>0, <2>4, <2>5, <2>6, <2>7, <2>8
<1>4. ASSUME RotateIdentity
      PROVE  TrustInv'
  <2>1. OneWriter' /\ DownIsQuiet' /\ FilesFollow' /\ StoresAreGood' /\ HolderServed'
        /\ CodesAreRead' /\ RevokeWrites' /\ RevokedIsOut' /\ OldPinsAreRefused'
    BY <1>4 DEF OneWriter, DownIsQuiet, FilesFollow, StoresAreGood, HolderServed,
       CodesAreRead, RevokeWrites, RevokedIsOut, OldPinsAreRefused, Good, RotateIdentity
  <2>2. PinsFollow'
    <3>1. keyDisk' = keyDisk + 1 /\ UNCHANGED <<up, keyMem, pin, usedCode, outdated>>
      BY <1>4 DEF RotateIdentity
    <3>2. QED BY <3>1, KeysAreNumbers DEF PinsFollow
  <2>3. QED BY <1>0, <2>1, <2>2
<1>5. ASSUME Start
      PROVE  TrustInv'
  <2>1. /\ ~up /\ up' /\ mem' = disk /\ keyMem' = keyDisk
        /\ UNCHANGED <<holder, req, authed, disk, tmp, writer, keyDisk, pin, usedCode, paired>>
    BY <1>5 DEF Start
  <2>2. /\ heard' = heard \cup {d \in revoked : disk[d] = "revoked"}
        /\ outdated' = outdated \cup {d \in Device : usedCode[d] # None /\ pin[d] # keyDisk}
    BY <1>5 DEF Start, Found
  <2>3. holder = None /\ \A c \in Conn : req[c].op = "idle" /\ authed[c] = None
    BY <2>1 DEF DownIsQuiet
  <2>4. OneWriter' /\ DownIsQuiet' /\ FilesFollow' /\ HolderServed' /\ CodesAreRead' /\ RevokeWrites'
    BY <2>1, <2>3 DEF OneWriter, DownIsQuiet, FilesFollow, HolderServed, CodesAreRead, RevokeWrites
  <2>5. StoresAreGood'
    <3>1. Good(disk)' /\ Good(mem)'
      BY <2>1, <2>2 DEF StoresAreGood, Good
    <3>2. \A p \in Process : Writing(p) => p = "cli" /\ Good(writer[p].data)
      BY <2>3 DEF OneWriter, StoresAreGood
    <3>3. ASSUME Writing("cli") PROVE Good(writer["cli"].data)'
      BY <2>1, <2>2, <3>2, <3>3 DEF Good, RevokeWrites
    <3>4. QED BY <2>1, <3>1, <3>2, <3>3 DEF StoresAreGood
  <2>6. RevokedIsOut' /\ OldPinsAreRefused'
    BY <1>0, <2>1, <2>3 DEF RevokedIsOut, OldPinsAreRefused, TypeOK
  <2>7. PinsFollow'
    <3>1. \A d \in outdated' : usedCode[d] # None /\ pin[d] < keyDisk
      BY <2>2, KeysAreNumbers DEF PinsFollow
    <3>2. keyDisk <= keyDisk
      BY KeysAreNumbers
    <3>3. QED BY <2>1, <3>1, <3>2 DEF PinsFollow
  <2>8. QED BY <1>0, <2>4, <2>5, <2>6, <2>7
<1>6. ASSUME Crash
      PROVE  TrustInv'
  <2>1. OneWriter' /\ DownIsQuiet' /\ FilesFollow' /\ StoresAreGood' /\ HolderServed'
        /\ CodesAreRead' /\ RevokeWrites' /\ RevokedIsOut' /\ PinsFollow' /\ OldPinsAreRefused'
    BY <1>6, <1>0 DEF OneWriter, DownIsQuiet, FilesFollow, StoresAreGood, HolderServed,
       CodesAreRead, RevokeWrites, RevokedIsOut, PinsFollow, OldPinsAreRefused, Good, Crash, IdleWriter,
       IdleReq, TypeOK
  <2>2. QED BY <1>0, <2>1
<1>7. ASSUME NEW c \in Conn, Disconnect(c)
      PROVE  TrustInv'
  <2>1. OneWriter' /\ DownIsQuiet' /\ FilesFollow' /\ StoresAreGood' /\ HolderServed'
        /\ CodesAreRead' /\ RevokeWrites' /\ RevokedIsOut' /\ PinsFollow' /\ OldPinsAreRefused'
    BY <1>7, <1>0 DEF OneWriter, DownIsQuiet, FilesFollow, StoresAreGood, HolderServed,
       CodesAreRead, RevokeWrites, RevokedIsOut, PinsFollow, OldPinsAreRefused, Good, Disconnect, TypeOK
  <2>2. QED BY <1>0, <2>1
<1>8. ASSUME NEW c \in Conn, ReadCode(c)
      PROVE  TrustInv'
  <2>1. OneWriter' /\ DownIsQuiet' /\ FilesFollow' /\ StoresAreGood' /\ HolderServed'
        /\ CodesAreRead' /\ RevokeWrites' /\ RevokedIsOut' /\ PinsFollow' /\ OldPinsAreRefused'
    BY <1>8, <1>0 DEF OneWriter, DownIsQuiet, FilesFollow, StoresAreGood, HolderServed,
       CodesAreRead, RevokeWrites, RevokedIsOut, PinsFollow, OldPinsAreRefused, Good, ReadCode, TypeOK
  <2>2. QED BY <1>0, <2>1
<1>9. ASSUME NEW c \in Conn, ConsumeCode(c)
      PROVE  TrustInv'
  <2>1. OneWriter' /\ DownIsQuiet' /\ FilesFollow' /\ StoresAreGood' /\ HolderServed'
        /\ CodesAreRead' /\ RevokeWrites' /\ RevokedIsOut' /\ PinsFollow' /\ OldPinsAreRefused'
    BY <1>9, <1>0 DEF OneWriter, DownIsQuiet, FilesFollow, StoresAreGood, HolderServed,
       CodesAreRead, RevokeWrites, RevokedIsOut, PinsFollow, OldPinsAreRefused, Good, ConsumeCode, TypeOK
  <2>2. QED BY <1>0, <2>1
<1>10. ASSUME NEW c \in Conn, Answer(c)
      PROVE  TrustInv'
  <2>1. OneWriter' /\ DownIsQuiet' /\ FilesFollow' /\ HolderServed' /\ CodesAreRead'
        /\ RevokeWrites' /\ PinsFollow'
    BY <1>10, <1>0 DEF OneWriter, DownIsQuiet, FilesFollow, HolderServed, CodesAreRead,
       RevokeWrites, PinsFollow, Answer, IdleWriter, IdleReq, TypeOK
  <2>2. StoresAreGood'
    <3>1. /\ writer' = [writer EXCEPT !["daemon"] = IdleWriter] /\ holder = c
          /\ UNCHANGED <<up, mem, disk, usedCode, heard>>
      BY <1>10 DEF Answer
    <3>2. up /\ writer["cli"].pc = "idle" /\ \A p \in Process : writer'[p].pc = "idle"
      BY <3>1 DEF OneWriter, DownIsQuiet, IdleWriter, TypeOK
    <3>3. \A d \in paired' : mem[d] # "absent" /\ disk[d] # "absent"
      <4>1. CASE writer["daemon"].pc = "saved"
        <5>1. disk = mem /\ mem[req[c].device] = "trusted" /\ paired' = paired \cup {req[c].device}
          BY <1>10, <3>1, <4>1 DEF Answer, FilesFollow, HolderServed, TypeOK
        <5>2. QED BY <3>2, <5>1 DEF StoresAreGood, Good, TypeOK
      <4>2. CASE writer["daemon"].pc # "saved"
        <5>1. paired' = paired
          BY <1>10, <4>2 DEF Answer
        <5>2. QED BY <3>2, <5>1 DEF StoresAreGood, Good, TypeOK
      <4>3. QED BY <4>1, <4>2
    <3>4. QED BY <3>1, <3>2, <3>3 DEF StoresAreGood, Good
  <2>3. RevokedIsOut'
    <3>1. req[c].device \notin heard
      BY <1>10 DEF Answer, HolderServed, DownIsQuiet, StoresAreGood, Good, TypeOK
    <3>2. \A b \in Conn : authed'[b] = authed[b] \/ authed'[b] = req[c].device
      BY <1>10 DEF Answer, TypeOK
    <3>3. heard' = heard
      BY <1>10 DEF Answer
    <3>4. QED BY <3>1, <3>2, <3>3 DEF RevokedIsOut
  <2>4. OldPinsAreRefused'
    <3>1. req[c].device \in Device /\ pin[req[c].device] = keyMem /\ up
      BY <1>10 DEF Answer, HolderServed, DownIsQuiet
    <3>2. req[c].device \notin outdated
      BY <3>1, ServedIsNotOutdated
    <3>3. \A b \in Conn : authed'[b] = authed[b] \/ authed'[b] = req[c].device
      BY <1>10 DEF Answer, TypeOK
    <3>4. \A b \in Conn : req'[b] = req[b] \/ req'[b].op = "idle"
      BY <1>10 DEF Answer, IdleReq, TypeOK
    <3>5. outdated' = outdated
      BY <1>10 DEF Answer
    <3>6. QED BY <3>2, <3>3, <3>4, <3>5 DEF OldPinsAreRefused
  <2>5. QED BY <1>0, <2>1, <2>2, <2>3, <2>4
<1>11. ASSUME NEW c \in Conn, NEW d \in Device, PairDevice(c, d)
      PROVE  TrustInv'
  <2>0. /\ req[c].op = "code_used" /\ \A p \in Process : ~Writing(p)
        /\ holder' = c /\ usedCode[d] = None
        /\ writer' = [writer EXCEPT !["daemon"] =
                         [pc |-> "opening", data |-> mem', at |-> "tmp", device |-> d]]
        /\ req' = [req EXCEPT ![c] = [req[c] EXCEPT !.op = "pairing", !.device = d]]
        /\ pin' = [pin EXCEPT ![d] = keyMem] /\ usedCode' = [usedCode EXCEPT ![d] = req[c].code]
        /\ UNCHANGED <<up, authed, keyMem, disk, tmp, keyDisk, paired, heard, outdated>>
    BY <1>11 DEF PairDevice, MaySave, BeginSave
  <2>1. /\ OneWriter' /\ DownIsQuiet' /\ FilesFollow' /\ CodesAreRead' /\ RevokeWrites'
        /\ RevokedIsOut' /\ PinsFollow' /\ OldPinsAreRefused'
    <3>1. writer'["daemon"].pc = "opening" /\ writer'["daemon"].at = "tmp" /\ writer'["cli"] = writer["cli"]
      BY <2>0 DEF TypeOK
    <3>2. req'[c].op = "pairing" /\ \A b \in Conn \ {c} : req'[b] = req[b]
      BY <2>0 DEF TypeOK
    <3>3. up
      BY <2>0 DEF DownIsQuiet
    <3>4. OneWriter' /\ FilesFollow' /\ RevokeWrites'
      BY <2>0, <3>1 DEF OneWriter, FilesFollow, RevokeWrites
    <3>5. DownIsQuiet' /\ CodesAreRead' /\ RevokedIsOut' /\ OldPinsAreRefused'
      BY <2>0, <3>2, <3>3 DEF DownIsQuiet, CodesAreRead, RevokedIsOut, OldPinsAreRefused
    <3>6. PinsFollow'
      <4>1. d \notin outdated /\ outdated \subseteq Device
        BY <2>0 DEF PinsFollow, TypeOK
      <4>2. pin'[d] = keyMem /\ \A e \in Device \ {d} : pin'[e] = pin[e] /\ usedCode'[e] = usedCode[e]
        BY <2>0 DEF TypeOK
      <4>3. keyMem \in Nat /\ keyDisk \in Nat /\ keyMem <= keyDisk
        BY KeysAreNumbers DEF PinsFollow
      <4>4. \A e \in Device : usedCode'[e] # None => pin'[e] <= keyDisk
        BY <4>2, <4>3 DEF PinsFollow
      <4>5. \A e \in outdated : usedCode'[e] = usedCode[e] /\ pin'[e] = pin[e]
        BY <4>1, <4>2
      <4>6. QED BY <2>0, <4>3, <4>4, <4>5 DEF PinsFollow
    <3>7. QED BY <3>4, <3>5, <3>6
  <2>2. StoresAreGood'
    <3>1. /\ req[c].op = "code_used" /\ usedCode[d] = None /\ mem' = [mem EXCEPT ![d] = "trusted"]
          /\ usedCode' = [usedCode EXCEPT ![d] = req[c].code]
          /\ writer' = [writer EXCEPT !["daemon"] =
                           [pc |-> "opening", data |-> mem', at |-> "tmp", device |-> d]]
          /\ UNCHANGED <<up, disk, paired, heard>>
      BY <1>11 DEF PairDevice, BeginSave
    <3>2. up /\ req[c].code # None
      BY <3>1 DEF DownIsQuiet, CodesAreRead
    <3>3. Good(disk)'
      BY <3>1, <3>2 DEF StoresAreGood, Good, TypeOK
    <3>4. Good(mem)'
      <4>1. Good(mem)
        BY <3>2 DEF StoresAreGood
      <4>2. d \notin heard
        BY <3>1, <4>1 DEF Good
      <4>3. mem'[d] = "trusted" /\ \A e \in Device \ {d} : mem'[e] = mem[e]
        BY <3>1 DEF TypeOK, Store
      <4>4. usedCode'[d] # None /\ \A e \in Device \ {d} : usedCode'[e] = usedCode[e]
        BY <3>1, <3>2 DEF TypeOK
      <4>5. QED BY <3>1, <4>1, <4>2, <4>3, <4>4 DEF Good
    <3>5. writer'["daemon"].data = mem' /\ writer'["cli"] = writer["cli"] /\ writer["cli"].pc = "idle"
      BY <2>0 DEF TypeOK
    <3>6. Good(writer["daemon"].data)'
      BY <3>4, <3>5 DEF Good
    <3>7. QED BY <3>3, <3>4, <3>5, <3>6 DEF StoresAreGood
  <2>3. HolderServed'
    <3>1. /\ holder' = c /\ mem' = [mem EXCEPT ![d] = "trusted"]
          /\ req' = [req EXCEPT ![c] = [req[c] EXCEPT !.op = "pairing", !.device = d]]
          /\ writer' = [writer EXCEPT !["daemon"] =
                           [pc |-> "opening", data |-> mem', at |-> "tmp", device |-> d]]
      BY <1>11 DEF PairDevice, BeginSave
    <3>2. mem'[d] = "trusted" /\ writer'["daemon"].data = mem'
      BY <3>1 DEF TypeOK, Store
    <3>3. req'[c].device = d /\ pin'[d] = keyMem'
      BY <2>0 DEF TypeOK
    <3>4. QED BY <3>1, <3>2, <3>3 DEF HolderServed
  <2>4. QED BY <1>0, <2>1, <2>2, <2>3
<1>12. ASSUME NEW c \in Conn, NEW d \in Device, Authenticate(c, d)
      PROVE  TrustInv'
  <2>1. /\ up /\ \A p \in Process : ~Writing(p)
        /\ holder' = c /\ pin[d] = keyMem /\ mem[d] = "trusted"
        /\ writer' = [writer EXCEPT !["daemon"] =
                         [pc |-> "opening", data |-> mem, at |-> "tmp", device |-> d]]
        /\ req' = [req EXCEPT ![c] = [op |-> "authenticating", code |-> None, device |-> d]]
        /\ UNCHANGED <<up, mem, authed, keyMem, disk, tmp, keyDisk, pin, usedCode, paired, heard, outdated>>
    BY <1>12 DEF Authenticate, MaySave, BeginSave
  <2>2. /\ writer'["daemon"].pc = "opening" /\ writer'["daemon"].at = "tmp" /\ writer'["daemon"].data = mem
        /\ writer'["cli"] = writer["cli"]
    BY <2>1 DEF TypeOK
  <2>3. /\ req'[c].op = "authenticating" /\ req'[c].device = d
        /\ \A b \in Conn \ {c} : req'[b] = req[b]
    BY <2>1 DEF TypeOK
  <2>4. OneWriter' /\ FilesFollow' /\ RevokeWrites' /\ StoresAreGood'
    BY <2>1, <2>2 DEF OneWriter, FilesFollow, RevokeWrites, StoresAreGood, Good
  <2>5. DownIsQuiet' /\ HolderServed' /\ CodesAreRead' /\ RevokedIsOut' /\ PinsFollow'
    BY <2>1, <2>2, <2>3 DEF DownIsQuiet, HolderServed, CodesAreRead, RevokedIsOut, PinsFollow
  <2>6. OldPinsAreRefused'
    <3>1. d \notin outdated
      BY <2>1, ServedIsNotOutdated
    <3>2. QED BY <2>1, <2>3, <3>1 DEF OldPinsAreRefused
  <2>7. QED BY <1>0, <2>4, <2>5, <2>6
<1>13. ASSUME NEW p \in Process, OpenTmp(p)
      PROVE  TrustInv'
  <2>1. OneWriter' /\ DownIsQuiet' /\ StoresAreGood' /\ HolderServed' /\ CodesAreRead'
        /\ RevokeWrites' /\ RevokedIsOut' /\ PinsFollow' /\ OldPinsAreRefused'
    BY <1>13, <1>0 DEF OneWriter, DownIsQuiet, StoresAreGood, HolderServed, CodesAreRead,
       RevokeWrites, RevokedIsOut, PinsFollow, OldPinsAreRefused, Good, OpenTmp, TypeOK
  <2>2. FilesFollow'
    <3>1. Writing(p) /\ tmp' = Torn /\ disk' = disk /\ writer' = [writer EXCEPT ![p].pc = "filling"]
      BY <1>13 DEF OpenTmp
    <3>2. \A q \in Process \ {p} : ~Writing(q) /\ writer'[q] = writer[q]
      BY <3>1, OneAtATime DEF TypeOK
    <3>3. writer'[p].pc = "filling" /\ writer'[p].at = writer[p].at
      BY <3>1 DEF TypeOK
    <3>4. QED BY <3>1, <3>2, <3>3 DEF FilesFollow
  <2>3. QED BY <1>0, <2>1, <2>2
<1>14. ASSUME NEW p \in Process, FillTmp(p)
      PROVE  TrustInv'
  <2>1. OneWriter' /\ DownIsQuiet' /\ HolderServed' /\ CodesAreRead' /\ RevokeWrites'
        /\ RevokedIsOut' /\ PinsFollow' /\ OldPinsAreRefused'
    <3>1. disk' = disk
      BY <1>14 DEF FillTmp, FilesFollow
    <3>2. QED BY <1>14, <3>1 DEF OneWriter, DownIsQuiet, HolderServed, CodesAreRead, RevokeWrites,
       RevokedIsOut, PinsFollow, OldPinsAreRefused, FillTmp, TypeOK
  <2>2. FilesFollow'
    <3>1. /\ Writing(p) /\ tmp' = writer[p].data /\ disk' = disk
          /\ writer' = [writer EXCEPT ![p].pc = "publishing"]
      BY <1>14 DEF FillTmp, Written, FilesFollow
    <3>2. \A q \in Process \ {p} : ~Writing(q) /\ writer'[q] = writer[q]
      BY <3>1, OneAtATime DEF TypeOK
    <3>3. writer'[p].pc = "publishing" /\ writer'[p].at = writer[p].at /\ writer'[p].data = writer[p].data
      BY <3>1 DEF TypeOK
    <3>4. QED BY <3>1, <3>2, <3>3 DEF FilesFollow
  <2>3. StoresAreGood'
    <3>1. disk' = disk /\ UNCHANGED <<up, mem, paired, heard, usedCode>>
      BY <1>14 DEF FillTmp, FilesFollow
    <3>2. \A q \in Process : writer'[q].data = writer[q].data /\ (Writing(q)' => Writing(q))
      BY <1>14 DEF FillTmp, TypeOK
    <3>3. QED BY <3>1, <3>2 DEF StoresAreGood, Good
  <2>4. QED BY <1>0, <2>1, <2>2, <2>3
<1>15. ASSUME NEW p \in Process, Publish(p)
      PROVE  TrustInv'
  <2>1. /\ OneWriter' /\ DownIsQuiet' /\ HolderServed' /\ CodesAreRead' /\ RevokeWrites'
        /\ RevokedIsOut' /\ PinsFollow' /\ OldPinsAreRefused'
    <3>1. /\ Writing(p) /\ disk' = writer[p].data
          /\ UNCHANGED <<up, mem, holder, req, authed, keyMem, keyDisk, pin, usedCode, paired, heard, outdated>>
      BY <1>15 DEF Publish, FilesFollow
    <3>2. \A q \in Process : \/ writer'[q] = [writer[q] EXCEPT !.pc = "saved"] /\ q = p
                            \/ writer'[q] = [writer[q] EXCEPT !.at = Moved(q)]
      BY <1>15 DEF Publish
    <3>3. \A q \in Process : /\ writer'[q].data = writer[q].data /\ writer'[q].device = writer[q].device
                            /\ (writer'[q].pc = "idle") = (writer[q].pc = "idle")
      BY <3>1, <3>2 DEF TypeOK
    <3>4. OneWriter' /\ HolderServed'
      BY <3>1, <3>3 DEF OneWriter, HolderServed
    <3>5. DownIsQuiet' /\ CodesAreRead' /\ RevokedIsOut' /\ PinsFollow' /\ OldPinsAreRefused'
      BY <3>1 DEF DownIsQuiet, CodesAreRead, RevokedIsOut, PinsFollow, OldPinsAreRefused
    <3>6. RevokeWrites'
      <4>1. ASSUME Writing("cli") PROVE p = "cli"
        BY <3>1, <4>1, OneAtATime
      <4>2. QED BY <3>1, <3>3, <4>1 DEF RevokeWrites
    <3>7. QED BY <3>4, <3>5, <3>6
  <2>2. FilesFollow'
    <3>1. Writing(p) /\ disk' = writer[p].data
      BY <1>15 DEF Publish, FilesFollow
    <3>2. \A q \in Process \ {p} : writer[q].pc = "idle" /\ writer'[q] = [writer[q] EXCEPT !.at = writer[q].at]
      BY <1>15, <3>1, OneAtATime DEF Publish, Moved
    <3>3. \A q \in Process \ {p} : writer'[q].pc = "idle" /\ writer'[q].at = "tmp"
      BY <3>2 DEF FilesFollow, TypeOK
    <3>4. writer'[p] = [writer[p] EXCEPT !.pc = "saved"]
      BY <1>15 DEF Publish
    <3>5. writer'[p].pc = "saved" /\ writer'[p].at = "tmp" /\ writer'[p].data = writer[p].data
      BY <3>4 DEF FilesFollow, TypeOK
    <3>6. disk' # Torn
      BY <3>1 DEF TypeOK
    <3>7. QED BY <3>1, <3>3, <3>5, <3>6 DEF FilesFollow
  <2>3. StoresAreGood'
    <3>1. Writing(p) /\ disk' = writer[p].data /\ UNCHANGED <<up, mem, paired, heard, usedCode>>
      BY <1>15 DEF Publish, FilesFollow
    <3>2. \A q \in Process : writer'[q].data = writer[q].data /\ (Writing(q)' => Writing(q))
      <4>1. \A q \in Process : \/ writer'[q] = [writer[q] EXCEPT !.pc = "saved"] /\ q = p
                              \/ writer'[q] = [writer[q] EXCEPT !.at = Moved(q)]
        BY <1>15 DEF Publish
      <4>2. QED BY <3>1, <4>1 DEF TypeOK
    <3>3. QED BY <3>1, <3>2 DEF StoresAreGood, Good
  <2>4. QED BY <1>0, <2>1, <2>2, <2>3
<1>16. ASSUME NEW p \in Process, SaveFails(p)
      PROVE  TrustInv'
  <2>1. OneWriter' /\ DownIsQuiet' /\ FilesFollow' /\ StoresAreGood' /\ HolderServed'
        /\ CodesAreRead' /\ RevokeWrites' /\ RevokedIsOut' /\ PinsFollow' /\ OldPinsAreRefused'
    BY <1>16, <1>0 DEF OneWriter, DownIsQuiet, FilesFollow, StoresAreGood, HolderServed,
       CodesAreRead, RevokeWrites, RevokedIsOut, PinsFollow, OldPinsAreRefused, Good, SaveFails, TypeOK
  <2>2. QED BY <1>0, <2>1
<1>17. ASSUME UNCHANGED vars
      PROVE  TrustInv'
  <2>1. OneWriter' /\ DownIsQuiet' /\ FilesFollow' /\ StoresAreGood' /\ HolderServed'
        /\ CodesAreRead' /\ RevokeWrites' /\ RevokedIsOut' /\ PinsFollow' /\ OldPinsAreRefused'
    BY <1>17, <1>0 DEF OneWriter, DownIsQuiet, FilesFollow, StoresAreGood, HolderServed,
       CodesAreRead, RevokeWrites, RevokedIsOut, PinsFollow, OldPinsAreRefused, Good, vars, TypeOK
  <2>2. QED BY <1>0, <2>1
<1>18. QED BY <1>1, <1>2, <1>3, <1>4, <1>5, <1>6, <1>7, <1>8, <1>9, <1>10, <1>11, <1>12, <1>13, <1>14, <1>15, <1>16, <1>17
           DEF Next, OwnerNext, DaemonNext, FileNext

-----------------------------------------------------------------------------
(* The theorems *)

\* The invariant holds in the beginning.
LEMMA InitInv == Init => TrustInv
<1> SUFFICES ASSUME Init PROVE TrustInv
  OBVIOUS
<1> USE NoneAssumption, TornAssumption, MaxKeyAssumption DEF Init
<1>1. EmptyStore \in Store /\ \A d \in Device : EmptyStore[d] = "absent"
  BY DEF EmptyStore, Store, Status
<1>2. writer \in Writers /\ \A p \in Process : writer[p].pc = "idle" /\ writer[p].at = "tmp"
  BY <1>1 DEF IdleWriter, Writers
<1>3. req \in Requests /\ \A c \in Conn : req[c].op = "idle"
  BY DEF IdleReq, Requests
<1>4. TypeOK
  <2>1. /\ authed \in [Conn -> Device \cup {None}] /\ usedCode \in [Device -> Code \cup {None}]
        /\ pin \in [Device -> 0..MaxKey] /\ keyDisk \in 0..MaxKey /\ keyMem \in 0..MaxKey
    OBVIOUS
  <2>2. QED BY <1>1, <1>2, <1>3, <2>1 DEF TypeOK, Writers, Requests
<1>5. OneWriter /\ DownIsQuiet /\ RevokeWrites
  BY <1>2, <1>3 DEF OneWriter, DownIsQuiet, RevokeWrites, Writing, Process
<1>6. FilesFollow /\ StoresAreGood
  BY <1>1, <1>2 DEF FilesFollow, StoresAreGood, Good, Writing
<1>7. HolderServed /\ CodesAreRead /\ RevokedIsOut /\ PinsFollow /\ OldPinsAreRefused
  BY <1>3 DEF HolderServed, CodesAreRead, RevokedIsOut, PinsFollow, OldPinsAreRefused
<1>8. QED BY <1>4, <1>5, <1>6, <1>7 DEF TrustInv

\* However connections, restarts and the owner's commands interleave, and wherever
\* the daemon or a command dies in a save.
THEOREM Invariance ==
    ASSUME ~Overlap
    PROVE  Spec => []TrustInv
<1>1. Init => TrustInv
  BY InitInv
<1>2. TrustInv /\ [Next]_vars => TrustInv'
  BY NextInv
<1>3. QED BY <1>1, <1>2, PTL DEF Spec

\* StoreIsReadable: the rename makes a save atomic.
THEOREM Readable ==
    ASSUME ~Overlap
    PROVE  Spec => []StoreIsReadable
<1>1. TrustInv => StoreIsReadable
  BY DEF TrustInv, FilesFollow, StoreIsReadable
<1>2. Spec => []TrustInv
  BY Invariance
<1>3. QED BY <1>1, <1>2, PTL

\* PairingIsDurable: a device that was told its token is on disk from then on.
THEOREM Durable ==
    ASSUME ~Overlap
    PROVE  Spec => []PairingIsDurable
<1>1. TrustInv => PairingIsDurable
  BY DEF TrustInv, TypeOK, StoresAreGood, Good, PairingIsDurable
<1>2. Spec => []TrustInv
  BY Invariance
<1>3. QED BY <1>1, <1>2, PTL

\* RevocationHolds: a revocation that the daemon found or was told of holds for good.
THEOREM Revocation ==
    ASSUME ~Overlap
    PROVE  Spec => []RevocationHolds
<1>1. TrustInv => RevocationHolds
  BY DEF TrustInv, TypeOK, StoresAreGood, Good, RevokedIsOut, RevocationHolds
<1>2. Spec => []TrustInv
  BY Invariance
<1>3. QED BY <1>1, <1>2, PTL

\* OldPinsAreRefused: a pin that a start of the daemon found too old admits nobody.
THEOREM OldPins ==
    ASSUME ~Overlap
    PROVE  Spec => []OldPinsAreRefused
<1>1. TrustInv => OldPinsAreRefused
  BY DEF TrustInv
<1>2. Spec => []TrustInv
  BY Invariance
<1>3. QED BY <1>1, <1>2, PTL
=============================================================================
