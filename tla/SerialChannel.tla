--------------------------- MODULE SerialChannel ---------------------------
(***************************************************************************)
(* What the serial layer promises to the SDB console: a reliable           *)
(* first-in first-out byte channel.  Byte n is the n-th byte the device    *)
(* transmits.  A consumer removes any prefix of what is pending, either by *)
(* reading it (spiReadData) or by discarding it (spiFlushPort); it never   *)
(* skips, repeats or reorders a byte.                                      *)
(***************************************************************************)
EXTENDS Naturals, Sequences

CONSTANT MaxBytes       \* bytes the device transmits (bounds the model)

VARIABLES sent,         \* number of bytes the device has transmitted
          pending,      \* bytes transmitted and not yet consumed, in order
          taken         \* bytes consumed so far, in order

channelVars == <<sent, pending, taken>>

Init ==
    /\ sent = 0
    /\ pending = <<>>
    /\ taken = <<>>

Send ==
    /\ sent < MaxBytes
    /\ sent' = sent + 1
    /\ pending' = Append(pending, sent')
    /\ UNCHANGED taken

Consume(n) ==
    /\ n <= Len(pending)
    /\ taken' = taken \o SubSeq(pending, 1, n)
    /\ pending' = SubSeq(pending, n + 1, Len(pending))
    /\ UNCHANGED sent

Next == Send \/ \E n \in 0..Len(pending) : Consume(n)

Spec == Init /\ [][Next]_channelVars
=============================================================================
