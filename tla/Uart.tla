-------------------------------- MODULE Uart --------------------------------
(***************************************************************************)
(* The serial port driver, uart.c: threads that read and write, a service  *)
(* routine that moves bytes between the ring buffers and the device, and   *)
(* nothing but the interrupt mask between them.                            *)
(*                                                                         *)
(* A thread in the driver keeps the CPU until it waits or returns.  The    *)
(* service routine runs between any two of its steps where interrupts are  *)
(* on, and whenever no thread is in the driver.                            *)
(*                                                                         *)
(* A definition X_Y placed before X is X with a plausible mistake.         *)
(***************************************************************************)
EXTENDS RingBuf

CONSTANTS
    Threads,
    RxBytes,        \* what the line may deliver
    TxBytes,        \* what a thread may write
    ReadSizes,      \* the bufsz a thread may read with
    WriteSizes,     \* the n a thread may write with
    NULL

ASSUME UartAssumption ==
    /\ RxBytes \subseteq Byte
    /\ TxBytes \subseteq Byte
    /\ ReadSizes \cup WriteSizes \subseteq Nat \ {0}
    /\ NULL \notin Threads

VARIABLES
    refcnt,     \* io_intf.refcnt: 1 while the port is open
    rxbuf, txbuf,
    ier,        \* the interrupts the device may raise
    rbr,        \* the received byte, <<>> unless LSR_DR
    thr,        \* the byte being sent, <<>> when thr can take one (LSR_THRE)
    cur,        \* the thread in the driver, NULL when there is none
    pc,
    n,          \* bytes the call has yet to move
    reg,        \* the byte rbuf_get has loaded, <<>> when it has none
    ierld,      \* ier as loaded by a |= in progress, {} when there is none
    got         \* the last byte stored to the reader's buffer

bufs == <<rxbuf, txbuf>>
device == <<ier, rbr, thr>>
locals == <<n, reg, ierld>>
vars == <<refcnt, bufs, device, cur, pc, locals, got>>

DREIE == "DREIE"
THREIE == "THREIE"

ReadPlace == {"r_test", "r_wait", "r_sleep", "r_loop", "r_get", "r_ier", "r_store"}
WritePlace == {"w_test", "w_wait", "w_sleep", "w_loop", "w_put", "w_ier", "w_store"}

\* The driver's data have their type and a buffer never holds more than its size.
TypeOK ==
    /\ refcnt \in {0, 1}
    /\ rxbuf \in RingBufType /\ rbuf_len(rxbuf) <= SERIAL_RBUFSZ
    /\ txbuf \in RingBufType /\ rbuf_len(txbuf) <= SERIAL_RBUFSZ
    /\ ier \subseteq {DREIE, THREIE} /\ ierld \subseteq {DREIE, THREIE}
    /\ rbr \in {<<>>} \cup {<<c>> : c \in RxBytes}
    /\ thr \in {<<>>} \cup {<<c>> : c \in Byte}
    /\ cur \in Threads \cup {NULL}
    /\ pc \in [Threads -> {"out"} \cup ReadPlace \cup WritePlace]
    /\ n \in [Threads -> Nat]
    /\ reg \in {<<>>} \cup {<<c>> : c \in Byte}

\* uart_attach leaves the port closed and the device quiet.
uart_attach ==
    \E c \in Byte :
       /\ refcnt = 0
       /\ rxbuf = [hpos |-> 0, tpos |-> 0, data |-> [i \in 0 .. (SERIAL_RBUFSZ - 1) |-> c]]
       /\ txbuf = rxbuf
       /\ ier = {} /\ ierld = {}
       /\ rbr = <<>> /\ thr = <<>>
       /\ cur = NULL
       /\ pc = [t \in Threads |-> "out"]
       /\ n = [t \in Threads |-> 0]
       /\ reg = <<>>
       /\ got = <<>>

-----------------------------------------------------------------------------
(* Open and close *)

\* A second open fails with EBUSY.
uart_open ==
    /\ cur = NULL /\ refcnt = 0
    /\ refcnt' = 1
    /\ rxbuf' = rbuf_init(rxbuf) /\ txbuf' = rbuf_init(txbuf)
    /\ rbr' = <<>>
    /\ ier' = {DREIE}
    /\ UNCHANGED <<thr, cur, pc, locals, got>>

\* ioclose calls it when the last reference goes, so no thread is in the driver.
uart_close ==
    /\ refcnt = 1 /\ \A t \in Threads : pc[t] = "out"
    /\ refcnt' = 0
    /\ ier' = {}
    /\ UNCHANGED <<bufs, rbr, thr, cur, pc, locals, got>>

-----------------------------------------------------------------------------
(* The calls of a thread *)

At(place) == cur # NULL /\ pc[cur] = place
Goto(place) == pc' = [pc EXCEPT ![cur] = place] /\ UNCHANGED cur
Leave(place) == pc' = [pc EXCEPT ![cur] = place] /\ cur' = NULL

\* Where the code has interrupts off.
Masked_Never(place) == FALSE
Masked(place) == place \in {"r_test", "r_wait", "w_test", "w_wait"}

Call(t, place, size) ==
    /\ cur = NULL /\ refcnt = 1 /\ pc[t] = "out"
    /\ cur' = t
    /\ pc' = [pc EXCEPT ![t] = place]
    /\ n' = [n EXCEPT ![t] = size]
    /\ UNCHANGED <<refcnt, bufs, device, reg, ierld, got>>

\* The thread manager lets a thread woken from its wait continue.
Dispatch(t) ==
    /\ cur = NULL /\ pc[t] \in {"r_test", "w_test"}
    /\ cur' = t
    /\ UNCHANGED <<refcnt, bufs, device, pc, locals, got>>

\* The inner while of uart_read and uart_write: test, wait, test again.
WaitLoop ==
    /\ \/ At("r_test") /\ Goto(IF rbuf_empty(rxbuf) THEN "r_wait" ELSE "r_loop")
       \/ At("w_test") /\ Goto(IF rbuf_full(txbuf) THEN "w_wait" ELSE "w_loop")
       \/ At("r_wait") /\ Leave("r_sleep")
       \/ At("w_wait") /\ Leave("w_sleep")
    /\ UNCHANGED <<refcnt, bufs, device, locals, got>>

\* The copying loop of uart_read up to the load of a byte, or its end.
ReadLoad ==
    /\ At("r_loop")
    /\ \/ /\ ~rbuf_empty(rxbuf) /\ n[cur] > 0
          /\ reg' = <<load(rxbuf)>> /\ Goto("r_get")
       \/ /\ rbuf_empty(rxbuf) \/ n[cur] = 0
          /\ Goto("r_ier") /\ UNCHANGED reg
    /\ UNCHANGED <<refcnt, bufs, device, n, ierld, got>>

ReadAdvance ==
    /\ At("r_get")
    /\ rxbuf' = advance_head(rxbuf)
    /\ got' = reg /\ reg' = <<>>
    /\ n' = [n EXCEPT ![cur] = @ - 1]
    /\ Goto("r_loop")
    /\ UNCHANGED <<refcnt, txbuf, device, ierld>>

WriteStore ==
    /\ At("w_loop")
    /\ \/ /\ ~rbuf_full(txbuf) /\ n[cur] > 0
          /\ \E c \in TxBytes : txbuf' = store(txbuf, c)
          /\ Goto("w_put")
       \/ /\ rbuf_full(txbuf) \/ n[cur] = 0
          /\ Goto("w_ier") /\ UNCHANGED txbuf
    /\ UNCHANGED <<refcnt, rxbuf, device, locals, got>>

WriteAdvance ==
    /\ At("w_put")
    /\ txbuf' = advance_tail(txbuf)
    /\ n' = [n EXCEPT ![cur] = @ - 1]
    /\ Goto("w_loop")
    /\ UNCHANGED <<refcnt, rxbuf, device, reg, ierld, got>>

\* regs->ier |= bit is a load and a store.
IerLoad ==
    /\ ierld' = ier
    /\ \/ At("r_ier") /\ Goto("r_store")
       \/ At("w_ier") /\ Goto("w_store")
    /\ UNCHANGED <<refcnt, bufs, device, n, reg, got>>

ReadEnd ==
    /\ At("r_store")
    /\ ier' = ierld \cup {DREIE}
    /\ Leave("out")
    /\ n' = [n EXCEPT ![cur] = 0]
    /\ ierld' = {}
    /\ UNCHANGED <<refcnt, bufs, rbr, thr, reg, got>>

\* uart_write goes round until all of buf is in the ring buffer.
WriteEnd_NoEnable ==
    /\ At("w_store")
    /\ ier' = ierld /\ ierld' = {}
    /\ IF n[cur] > 0 THEN Goto("w_test") ELSE Leave("out")
    /\ UNCHANGED <<refcnt, bufs, rbr, thr, n, reg, got>>

WriteEnd ==
    /\ At("w_store")
    /\ ier' = ierld \cup {THREIE} /\ ierld' = {}
    /\ IF n[cur] > 0 THEN Goto("w_test") ELSE Leave("out")
    /\ UNCHANGED <<refcnt, bufs, rbr, thr, n, reg, got>>

-----------------------------------------------------------------------------
(* The service routine *)

RxReady == rbr # <<>> /\ ~rbuf_full(rxbuf)
TxReady == thr = <<>> /\ ~rbuf_empty(txbuf)

\* The threads its broadcasts wake.
Woken_NotRx ==
    {t \in Threads : pc[t] = "w_sleep" /\ TxReady /\ rbuf_full(txbuf)}

Woken ==
    {t \in Threads : \/ pc[t] = "r_sleep" /\ RxReady /\ rbuf_empty(rxbuf)
                     \/ pc[t] = "w_sleep" /\ TxReady /\ rbuf_full(txbuf)}

\* The interrupts it turns off: a byte with no room for it, room with no byte.
Silenced ==
    {b \in ier : \/ b = DREIE /\ rbr # <<>> /\ rbuf_full(rxbuf)
                 \/ b = THREIE /\ thr = <<>> /\ rbuf_empty(txbuf)}

\* Where a thread that waited tests again.
Retest(place) == IF place = "r_sleep" THEN "r_test" ELSE "w_test"

uart_isr ==
    /\ refcnt = 1
    /\ cur # NULL => ~Masked(pc[cur])
    /\ (DREIE \in ier /\ rbr # <<>>) \/ (THREIE \in ier /\ thr = <<>>)
    /\ rxbuf' = IF RxReady THEN rbuf_put(rxbuf, rbr[1]) ELSE rxbuf
    /\ rbr' = IF RxReady THEN <<>> ELSE rbr
    /\ txbuf' = IF TxReady THEN advance_head(txbuf) ELSE txbuf
    /\ thr' = IF TxReady THEN <<load(txbuf)>> ELSE thr
    /\ ier' = ier \ Silenced
    /\ pc' = [t \in Threads |-> IF t \in Woken THEN Retest(pc[t]) ELSE pc[t]]
    /\ UNCHANGED <<refcnt, cur, locals, got>>

-----------------------------------------------------------------------------
(* The device: one byte each way, no fifo *)

\* A byte that comes while rbr is still full overruns it (LSR_OE).
LineReceive(c) ==
    /\ rbr' = <<c>>
    /\ UNCHANGED <<refcnt, bufs, ier, thr, cur, pc, locals, got>>

LineTransmit ==
    /\ thr # <<>>
    /\ thr' = <<>>
    /\ UNCHANGED <<refcnt, bufs, ier, rbr, cur, pc, locals, got>>

ThreadStep ==
    \/ WaitLoop \/ ReadLoad \/ ReadAdvance \/ WriteStore \/ WriteAdvance
    \/ IerLoad \/ ReadEnd \/ WriteEnd

Next ==
    \/ uart_open \/ uart_close
    \/ \E t \in Threads : Dispatch(t)
    \/ \E t \in Threads, k \in ReadSizes : Call(t, "r_test", k)
    \/ \E t \in Threads, k \in WriteSizes : Call(t, "w_test", k)
    \/ ThreadStep
    \/ uart_isr
    \/ LineTransmit \/ \E c \in RxBytes : LineReceive(c)

Spec == uart_attach /\ [][Next]_vars

\* The thread on the CPU goes on, a pending interrupt is taken once interrupts
\* are on, and the line takes the byte it is given.
FairSpec == Spec /\ WF_vars(ThreadStep) /\ SF_vars(uart_isr) /\ WF_vars(LineTransmit)

-----------------------------------------------------------------------------
(* Properties *)

\* A thread waits for bytes only while there are none, and for room only while
\* there is none: the byte that arrives after its test wakes it.
NoLostWakeup ==
    \A t \in Threads :
        /\ pc[t] \in {"r_wait", "r_sleep"} => rbuf_empty(rxbuf)
        /\ pc[t] \in {"w_wait", "w_sleep"} => rbuf_full(txbuf)

Inside(places) == cur # NULL /\ pc[cur] \in places

\* Receive interrupts are off only over a full buffer, or while a read that has
\* taken bytes has yet to turn them on: the line is never left unheard, and a
\* waiting reader in particular has them on.
RxNotStalled ==
    refcnt = 1 /\ ~Inside({"r_loop", "r_get", "r_ier", "r_store"}) =>
        DREIE \in ier \/ rbuf_full(rxbuf)

\* Transmit interrupts are off only when nothing is to be sent, or while a
\* write has yet to turn them on, whatever the service routine did to ier
\* between the load and the store of the driver's own update.
TxNotStalled ==
    refcnt = 1 /\ ~Inside({"w_loop", "w_put", "w_ier", "w_store"}) =>
        THREIE \in ier \/ rbuf_empty(txbuf)

\* The driver's buffers keep their bounds and neither a thread nor the line is
\* left waiting for an event that has already passed.
NothingStalls == TypeOK /\ NoLostWakeup /\ RxNotStalled /\ TxNotStalled

\* Reads return the bytes of the line and the line gets the bytes of writes, in
\* order, none lost or repeated, however the service routine cuts in.
Channel == INSTANCE UartChannel WITH
    Size <- SERIAL_RBUFSZ, open <- refcnt = 1,
    rxq <- rbuf_contents(rxbuf), txq <- rbuf_contents(txbuf), wire <- thr

ImplementsChannel == Channel!Spec

\* An open port with bytes to send and an idle transmitter gives it one, so
\* that, the transmitter always becoming idle again, all written bytes go out.
TxProgress ==
    (refcnt = 1 /\ thr = <<>> /\ ~rbuf_empty(txbuf)) ~> (thr # <<>> \/ refcnt = 0)

\* A reader that waits while the line has a byte is eventually woken.
ReaderWakes ==
    \A t \in Threads : (pc[t] = "r_sleep" /\ rbr # <<>>) ~> pc[t] # "r_sleep"
=============================================================================
