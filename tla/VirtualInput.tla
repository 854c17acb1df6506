---------------------------- MODULE VirtualInput -----------------------------
(***************************************************************************)
(* The uinput devices (src/uinput.rs, src/gamepad.rs) and the handlers     *)
(* that drive them for every connection (src/server.rs, src/input.rs).     *)
(* One device of each kind serves all connections; a handler holds the     *)
(* mutex of its device to the end, so each is one step here.               *)
(***************************************************************************)
EXTENDS WheelSteps, SequencesExt

CONSTANTS
    Conn,         \* connections with an authenticated client
    WheelDelta,   \* bound: scroll motions, in pixels
    MaxFaults     \* bound: writes to a device that fail

ASSUME DeviceAssumption == WheelDelta \subseteq Int /\ MaxFaults \in Nat

VARIABLES
    connected,       \* connections being served
    ready,           \* the input manager has its uinput backend
    pressedKeys,     \* VirtualDevices
    pressedButtons,
    scrollRemainder, \* scroll_y_remainder
    padAvailable,    \* ControllerInputManager.available
    padExists,       \* it has a VirtualGamepadBackend
    padState,        \* button_state and axis_state, Unset where they have no entry
    held,            \* keys down in the kernel (external)
    down,            \* pointer buttons down in the kernel (external)
    padValue,        \* the gamepad's controls in the kernel (external)
    owed,            \* history: how far the finger is ahead of the wheel in this gesture
    slipped,         \* history: a write of the wheel failed in this gesture
    unsure,          \* history: buttons and controls whose last write failed
    faults           \* history: writes that failed

keyVars == <<pressedKeys, held>>
buttonVars == <<pressedButtons, down>>
wheelVars == <<scrollRemainder, owed, slipped>>
padVars == <<padAvailable, padExists, padState, padValue>>
viVars == <<connected, ready, keyVars, buttonVars, wheelVars, padVars, unsure, faults>>

Code == {"LEFTSHIFT", "LEFTCTRL", "SYMBOL"}
Keysym == {"shift", "ctrl", "plain", "shifted"}
Button == {"left"}
Control == <<"south", "left_x">>
Value == {0, 1}
Unset == -1
Neutral == [c \in ToSet(Control) |-> 0]
NewPad == [c \in ToSet(Control) |-> Unset]

\* keysym_to_key, char_to_key: a code, and whether shift belongs to it; plain and
\* shifted are the two symbols of one key.
Mapping(keysym) ==
    CASE keysym = "shift" -> [code |-> "LEFTSHIFT", shift |-> FALSE]
      [] keysym = "ctrl" -> [code |-> "LEFTCTRL", shift |-> FALSE]
      [] keysym = "plain" -> [code |-> "SYMBOL", shift |-> FALSE]
      [] keysym = "shifted" -> [code |-> "SYMBOL", shift |-> TRUE]

VITypeOK ==
    /\ connected \subseteq Conn
    /\ ready \in BOOLEAN /\ padAvailable \in BOOLEAN
    /\ pressedKeys \subseteq Code /\ held \subseteq Code
    /\ pressedButtons \subseteq Button /\ down \subseteq Button
    /\ scrollRemainder \in -Threshold + 1..Threshold - 1
    /\ owed \in Int /\ slipped \in BOOLEAN
    /\ padState \in [ToSet(Control) -> Value \cup {Unset}]
    /\ padValue \in [ToSet(Control) -> Value]
    /\ padExists \in BOOLEAN /\ (padExists => padAvailable)
    /\ unsure \subseteq Button \cup ToSet(Control) /\ faults \in 0..MaxFaults

\* from_capabilities may fail to create the devices.
VIInit ==
    /\ connected = {} /\ ready \in BOOLEAN
    /\ pressedKeys = {} /\ pressedButtons = {} /\ scrollRemainder = 0
    /\ padAvailable \in BOOLEAN /\ padExists = FALSE /\ padState = NewPad
    /\ held = {} /\ down = {} /\ padValue = Neutral
    /\ owed = 0 /\ slipped = FALSE /\ unsure = {} /\ faults = 0

-----------------------------------------------------------------------------
(* Connections *)

Connect(c) ==
    /\ c \notin connected
    /\ connected' = connected \cup {c}
    /\ UNCHANGED <<ready, keyVars, buttonVars, wheelVars, padVars, unsure, faults>>

\* handle_connection returns with the error of recv or send, and does nothing else.
Disconnect(c) ==
    /\ c \in connected
    /\ connected' = connected \ {c}
    /\ UNCHANGED <<ready, keyVars, buttonVars, wheelVars, padVars, unsure, faults>>

Handling == connected # {} /\ ready

Failing == faults < MaxFaults /\ faults' = faults + 1

-----------------------------------------------------------------------------
(* Keyboard *)

Event(code, value) == [code |-> code, value |-> value]

\* What is down after some events, whose places in time are given: of each code the
\* last one counts.
After(codes, events) ==
    LET Latest(e) == \A f \in events : f.code = e.code => f.at <= e.at
    IN  {e.code : e \in {f \in events : f.value = 1 /\ Latest(f)}}
            \cup (codes \ {e.code : e \in events})

Shift(mapping, value) == IF mapping.shift THEN <<Event("LEFTSHIFT", value)>> ELSE <<>>

KeyEvents(call) ==
    LET mapping == Mapping(call.keysym)
    IN  IF call.value = 1
        THEN Append(Shift(mapping, 1), Event(mapping.code, 1))
        ELSE <<Event(mapping.code, 0)>> \o Shift(mapping, 0)

\* The events of a character: shift, the key down and up, shift.
Stroke(keysym) ==
    LET mapping == Mapping(keysym)
    IN  Shift(mapping, 1) \o <<Event(mapping.code, 1), Event(mapping.code, 0)>>
            \o Shift(mapping, 0)

At(time, event) == [at |-> time, code |-> event.code, value |-> event.value]

\* The events of n batches in a row, of the last one only k; a batch has four at most.
Emitted(batches, n, k) ==
    {At(4 * p[1] + p[2], batches[p[1]][p[2]]) :
        p \in {q \in (1..n) \X (1..4) : q[2] <= IF q[1] = n THEN k ELSE Len(batches[q[1]])}}

\* The writes of a handler go on until one fails, if only that of the SYN event behind a
\* batch.  (A handler with nothing to write does nothing.)
Writes(batches, n, k) ==
    /\ n \in DOMAIN batches /\ k \in 0..Len(batches[n])
    /\ held' = After(held, Emitted(batches, n, k))
    /\ \/ n = Len(batches) /\ k = Len(batches[n]) /\ UNCHANGED faults
       \/ Failing

\* Mutant of Track: a shifted symbol is remembered as its modifier.
TrackModifier(call) ==
    LET mapping == Mapping(call.keysym)
    IN  Event(IF mapping.shift THEN "LEFTSHIFT" ELSE mapping.code, call.value)

\* What key remembers, before it writes.
Track(call) == Event(Mapping(call.keysym).code, call.value)

\* Calls of key in a row; the first that fails ends them.
Calls(calls) ==
    \E n \in 1..Len(calls), k \in 0..2 :
        /\ Writes([i \in DOMAIN calls |-> KeyEvents(calls[i])], n, k)
        /\ pressedKeys' = After(pressedKeys, {At(i, Track(calls[i])) : i \in 1..n})

Call(keysym, value) == [keysym |-> keysym, value |-> value]

Key(keysym, value) ==
    /\ Handling /\ Calls(<<Call(keysym, value)>>)
    /\ UNCHANGED <<connected, ready, buttonVars, wheelVars, padVars, unsure>>

\* All keys of the shortcut down, then up in reverse order.
Shortcut(keysyms) ==
    LET All(value, keys) == [i \in DOMAIN keys |-> Call(keys[i], value)]
    IN  /\ Handling /\ Calls(All(1, keysyms) \o All(0, Reverse(keysyms)))
        /\ UNCHANGED <<connected, ready, buttonVars, wheelVars, padVars, unsure>>

\* Text that is mapped is typed without tracking.
Type(keysyms) ==
    /\ Handling
    /\ \E n \in 1..Len(keysyms), k \in 0..4 :
          Writes([i \in DOMAIN keysyms |-> Stroke(keysyms[i])], n, k)
    /\ UNCHANGED <<connected, ready, pressedKeys, buttonVars, wheelVars, padVars, unsure>>

\* Other text goes through the clipboard: wl-copy, then ctrl and v.
Paste ==
    /\ Handling
    /\ Calls(<<Call("ctrl", 1), Call("plain", 1), Call("plain", 0), Call("ctrl", 0)>>)
    /\ UNCHANGED <<connected, ready, buttonVars, wheelVars, padVars, unsure>>

-----------------------------------------------------------------------------
(* Pointer *)

\* The one write of a handler, about x, goes through or fails.
Written(x) == unsure' = unsure \ {x} /\ UNCHANGED faults
NotWritten(x) == unsure' = unsure \cup {x} /\ Failing

\* A state the button is remembered in already is not repeated to the device, not even
\* when the write that should have brought it there failed.
PointerButton(b, value) ==
    /\ Handling
    /\ (value = 1) # (b \in pressedButtons)
    /\ pressedButtons' = IF value = 1 THEN pressedButtons \cup {b} ELSE pressedButtons \ {b}
    /\ \/ down' = After(down, {At(1, Event(b, value))}) /\ Written(b)
       \/ down' \in {down, After(down, {At(1, Event(b, value))})} /\ NotWritten(b)
    /\ UNCHANGED <<connected, ready, keyVars, wheelVars, padVars>>

\* The steps leave the remainder before they are written, and a write that fails loses
\* them (or fails after the device took them).  A finish ends the gesture: it sends one
\* step at most, whatever is left, and the next gesture is measured from there.
ScrollWheel(delta, finish) ==
    LET moved == Steps(scrollRemainder + delta, finish)
        Wheel(steps, failed) ==
            /\ owed' = IF finish THEN 0 ELSE owed + delta - steps * Threshold
            /\ slipped' = (~finish /\ (slipped \/ failed))
    IN  /\ Handling
        /\ scrollRemainder' = Left(scrollRemainder + delta, finish)
        /\ \/ Wheel(moved, FALSE) /\ UNCHANGED faults
           \/ moved # 0 /\ Failing /\ \E steps \in {0, moved} : Wheel(steps, TRUE)
        /\ UNCHANGED <<connected, ready, keyVars, buttonVars, padVars, unsure>>

-----------------------------------------------------------------------------
(* Gamepad *)

First(n) == {Control[i] : i \in 1..n}
Zeroed(f, controls) == [c \in ToSet(Control) |-> IF c \in controls THEN 0 ELSE f[c]]

\* Mutant of Reset: what is remembered of all controls is cleared ahead of the writes.
ResetForgetsFirst ==
    \E n \in 0..Len(Control) :
        /\ padState' = Zeroed(padState, ToSet(Control))
        /\ padValue' = Zeroed(padValue, First(n))
        /\ unsure' = unsure \ First(n)
        /\ \/ n = Len(Control) /\ UNCHANGED faults
           \/ Failing

\* Writes 0 to the controls in turn and remembers each, up to the first write that
\* fails, which may be that of the SYN event behind them.
Reset ==
    \E n \in 0..Len(Control) :
        /\ padState' = Zeroed(padState, First(n))
        /\ padValue' = Zeroed(padValue, First(n))
        /\ unsure' = unsure \ First(n)
        /\ \/ n = Len(Control) /\ UNCHANGED faults
           \/ Failing

\* ensure_backend creates the device if there is none.
DeviceConnected ==
    /\ connected # {} /\ padAvailable
    /\ padExists' = TRUE
    /\ Reset
    /\ UNCHANGED <<connected, ready, keyVars, buttonVars, wheelVars, padAvailable>>

DeviceDisconnected ==
    /\ connected # {} /\ padExists
    /\ Reset
    /\ UNCHANGED <<connected, ready, keyVars, buttonVars, wheelVars, padAvailable, padExists>>

ControllerEvent(c, value) ==
    /\ connected # {} /\ padAvailable
    /\ padExists' = TRUE
    /\ IF padState[c] = value
       THEN UNCHANGED <<padState, padValue, unsure, faults>>
       ELSE /\ padState' = [padState EXCEPT ![c] = value]
            /\ \/ padValue' = [padValue EXCEPT ![c] = value] /\ Written(c)
               \/ padValue' \in {padValue, [padValue EXCEPT ![c] = value]} /\ NotWritten(c)
    /\ UNCHANGED <<connected, ready, keyVars, buttonVars, wheelVars, padAvailable>>

-----------------------------------------------------------------------------
(* Detection *)

\* ControllerInputManager.refresh: an unavailable device is dropped.
RefreshPad(available) ==
    /\ padAvailable' = available
    /\ padExists' = (padExists /\ available)
    /\ padState' = IF available THEN padState ELSE NewPad
    /\ padValue' = IF available THEN padValue ELSE Neutral
    /\ unsure' = IF available THEN unsure ELSE unsure \ ToSet(Control)

GetCapabilities ==
    /\ connected # {}
    /\ \E available \in BOOLEAN : RefreshPad(available)
    /\ UNCHANGED <<connected, ready, keyVars, buttonVars, wheelVars, faults>>

\* A manager that is not prepared is made anew; one with uinput always is.
PrepareInput ==
    /\ connected # {} /\ ~ready
    /\ ready' \in BOOLEAN
    /\ \E available \in BOOLEAN : RefreshPad(available)
    /\ UNCHANGED <<connected, keyVars, buttonVars, wheelVars, faults>>

-----------------------------------------------------------------------------
VINext ==
    \/ \E c \in Conn : Connect(c) \/ Disconnect(c)
    \/ \E keysym \in Keysym, value \in Value : Key(keysym, value)
    \/ \E keysyms \in {<<"ctrl", "plain">>, <<"ctrl", "shift", "shifted">>} : Shortcut(keysyms)
    \/ Type(<<"plain", "shifted">>) \/ Paste
    \/ \E b \in Button, value \in Value : PointerButton(b, value)
    \/ \E delta \in WheelDelta, finish \in BOOLEAN : ScrollWheel(delta, finish)
    \/ DeviceConnected \/ DeviceDisconnected
    \/ \E c \in ToSet(Control), value \in Value : ControllerEvent(c, value)
    \/ GetCapabilities \/ PrepareInput

VISpec == VIInit /\ [][VINext]_viVars

-----------------------------------------------------------------------------
(* Properties *)

\* What release_all leaves down.
HeldAfterRelease == held \ (pressedKeys \cup {"LEFTSHIFT"})
DownAfterRelease == down \ pressedButtons

\* release_all knows every key and button that is down, after any mix of keys,
\* shortcuts, typed and pasted text of several clients, as long as the devices
\* take what is written.
ReleaseAllSuffices == faults = 0 => HeldAfterRelease = {} /\ DownAfterRelease = {}

\* An event is only left out when the device is in that state already, and a write that
\* fails spoils its own button or control alone, until a write about it goes through:
\* what the daemon remembers of every other one is what the kernel has, across clients,
\* resets that fail half way and devices that come and go (pointer_button, uinput.rs;
\* button, axis and reset, gamepad.rs).
NoEventIsSwallowed ==
    /\ \A b \in Button \ unsure : b \in pressedButtons <=> b \in down
    /\ \A c \in ToSet(Control) \ unsure : padState[c] # Unset => padValue[c] = padState[c]

\* Until a gesture is finished, and as long as the device takes its writes, the wheel is
\* never further from the finger than a step and what an earlier gesture may have left
\* (an eighth of a step), whatever the sizes and directions of the motions.  (And the
\* state is well typed: what is kept for the next motion is less than a step.)
WheelKeepsPace ==
    VITypeOK /\ (~slipped => Magnitude(owed) < Threshold + Threshold \div 8)

\* "Releases any key or button still held, so a dropped session cannot leave the
\* desktop with a stuck modifier or an unfinished drag" (src/input.rs).
NothingHeldWithoutClient == connected = {} => held = {} /\ down = {}
=============================================================================
