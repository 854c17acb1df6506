---------------------------- MODULE FramedStream ----------------------------
(***************************************************************************)
(* What the stream protocol promises its client (docs/PROTOCOL.md): one    *)
(* handshake line, first and only once, that names the codec of the video, *)
(* then whole envelopes, each producer numbering its own without a gap.    *)
(* What was received is a set of items that carry their place in the       *)
(* stream, `at`: an item may only be added behind all the others.          *)
(***************************************************************************)
EXTENDS Naturals, FiniteSets

CONSTANTS
    Producer,  \* who writes into the stream
    Sound,     \* those of them with a codec of their own
    Codec      \* what the handshake line may announce

VARIABLES
    lines,   \* the handshake lines received: [at, codec]
    frames   \* the envelopes received whole: [at, by, seq, codec]

Sent(p) == Cardinality({f \in frames : f.by = p})

Init == lines = {} /\ frames = {}

Open ==
    /\ lines = {} /\ frames = {}
    /\ \E l \in lines' : lines' = {l} /\ l.codec \in Codec
    /\ UNCHANGED frames

Send(p) ==
    /\ \E l \in lines, f \in frames' :
          /\ frames' = frames \cup {f}
          /\ f.by = p
          /\ f.seq = Sent(p)
          /\ f.codec = IF p \in Sound THEN "opus" ELSE l.codec
          /\ \A item \in frames \cup {l} : item.at < f.at
    /\ UNCHANGED lines

Next == Open \/ \E p \in Producer : Send(p)

Spec == Init /\ [][Next]_<<lines, frames>>
=============================================================================
