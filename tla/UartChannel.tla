----------------------------- MODULE UartChannel -----------------------------
(***************************************************************************)
(* What an open serial port promises its users: two bounded queues that    *)
(* lose, duplicate and reorder nothing.  A byte the line delivers is       *)
(* appended to rxq; a read takes bytes from its front into got.  A write   *)
(* appends to txq, whose front goes on the wire once the last byte left.  *)
(***************************************************************************)
EXTENDS Integers, Sequences
CONSTANTS Size, Byte
VARIABLES open, rxq, txq, got, wire

Init == ~open /\ rxq = <<>> /\ txq = <<>> /\ got = <<>> /\ wire = <<>>

\* Opening the port empties both queues; closing it drops what was not sent.
Open == ~open /\ open' = TRUE /\ rxq' = <<>> /\ txq' = <<>> /\ UNCHANGED <<got, wire>>
Close == open /\ open' = FALSE /\ UNCHANGED <<rxq, txq, got, wire>>

Arrive(c) == open /\ Len(rxq) < Size /\ rxq' = Append(rxq, c) /\ UNCHANGED <<open, txq, got, wire>>
Read == open /\ rxq # <<>> /\ got' = <<Head(rxq)>> /\ rxq' = Tail(rxq) /\ UNCHANGED <<open, txq, wire>>
Write(c) == open /\ Len(txq) < Size /\ txq' = Append(txq, c) /\ UNCHANGED <<open, rxq, got, wire>>
Send ==
    /\ open /\ wire = <<>>
    /\ txq # <<>> /\ wire' = <<Head(txq)>> /\ txq' = Tail(txq)
    /\ UNCHANGED <<open, rxq, got>>
Sent == wire # <<>> /\ wire' = <<>> /\ UNCHANGED <<open, rxq, txq, got>>

\* One interrupt may take a byte from the line and give it one.
Both(c) ==
    /\ open /\ wire = <<>>
    /\ Len(rxq) < Size /\ rxq' = Append(rxq, c)
    /\ txq # <<>> /\ wire' = <<Head(txq)>> /\ txq' = Tail(txq)
    /\ UNCHANGED <<open, got>>

Next == Open \/ Close \/ Read \/ Send \/ Sent \/ \E c \in Byte : Arrive(c) \/ Write(c) \/ Both(c)

Spec == Init /\ [][Next]_<<open, rxq, txq, got, wire>>
=============================================================================
