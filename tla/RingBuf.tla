------------------------------- MODULE RingBuf -------------------------------
(***************************************************************************)
(* The ring buffer of uart.c: two free-running positions of finite width   *)
(* and an array indexed by a position modulo its size.                     *)
(***************************************************************************)
EXTENDS Integers, Sequences

CONSTANTS
    SERIAL_RBUFSZ,  \* elements of data
    POSMOD,         \* number of values of a position: 2^16 for uint16_t
    Byte

\* 64 and 65536 in the code.  Full and empty are told apart because a position
\* can be more than SERIAL_RBUFSZ away, and an index survives the wrap because
\* SERIAL_RBUFSZ divides POSMOD.
ASSUME RingBufAssumption ==
    /\ SERIAL_RBUFSZ \in Nat \ {0}
    /\ POSMOD \in Nat
    /\ SERIAL_RBUFSZ < POSMOD
    /\ POSMOD % SERIAL_RBUFSZ = 0

Pos == 0 .. (POSMOD - 1)
RingBufType == [hpos : Pos, tpos : Pos, data : [0 .. (SERIAL_RBUFSZ - 1) -> Byte]]

rbuf_init(rbuf) == [rbuf EXCEPT !.hpos = 0, !.tpos = 0]

rbuf_empty(rbuf) == rbuf.hpos = rbuf.tpos

\* The conversion to uint16_t makes the difference of the positions modular.
rbuf_len(rbuf) == (rbuf.tpos - rbuf.hpos) % POSMOD

rbuf_full(rbuf) == rbuf_len(rbuf) = SERIAL_RBUFSZ

\* rbuf_put and rbuf_get touch the data and then, past a compiler barrier, the
\* position; a service routine may run between the two.
store(rbuf, c) == [rbuf EXCEPT !.data[rbuf.tpos % SERIAL_RBUFSZ] = c]
advance_tail(rbuf) == [rbuf EXCEPT !.tpos = (rbuf.tpos + 1) % POSMOD]
rbuf_put(rbuf, c) == advance_tail(store(rbuf, c))

load_Next(rbuf) == rbuf.data[(rbuf.hpos + 1) % SERIAL_RBUFSZ]
load(rbuf) == rbuf.data[rbuf.hpos % SERIAL_RBUFSZ]
advance_head(rbuf) == [rbuf EXCEPT !.hpos = (rbuf.hpos + 1) % POSMOD]

\* The queue a ring buffer stands for, oldest element first.
rbuf_contents(rbuf) ==
    [i \in 1 .. rbuf_len(rbuf) |-> rbuf.data[(rbuf.hpos + i - 1) % SERIAL_RBUFSZ]]
=============================================================================
