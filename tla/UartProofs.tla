------------------------------ MODULE UartProofs ------------------------------
(***************************************************************************)
(* Proofs about the serial port driver, for every size of the ring buffer  *)
(* that divides the number of positions, any threads and any bytes: that   *)
(* nothing stalls, and that the driver implements UartChannel.             *)
(*                                                                         *)
(* The ring buffer comes first.  Past its lemmas its definitions stay      *)
(* closed: a step of the driver is about a buffer that is empty or full,   *)
(* and about the queue it stands for.                                      *)
(***************************************************************************)
EXTENDS Uart, SequenceTheorems, TLAPS

-----------------------------------------------------------------------------
(* Arithmetic of positions *)

\* The quotient and the remainder are the only ones.
LEMMA ModUnique ==
    ASSUME NEW w \in Nat \ {0}, NEW q \in Int, NEW r \in 0 .. (w - 1)
    PROVE  (w * q + r) % w = r
<1> DEFINE a == w * q + r
           d == (a \div w) - q
<1>1. a \in Int /\ a % w \in 0 .. (w - 1) /\ a \div w \in Int /\ a = w * (a \div w) + (a % w)
    OBVIOUS
<1>2. d \in Int /\ w * d = r - (a % w)
    BY <1>1
<1> HIDE DEF a, d
<1>3. (d >= 1 => w * d >= w) /\ (d <= -1 => w * d <= -w)
    BY <1>2
<1>4. d = 0
    BY <1>1, <1>2, <1>3
<1>5. a % w = r
    BY <1>1, <1>2, <1>4
<1> QED BY Zenon, <1>5 DEF a

\* A number less than w away from the range of remainders has this remainder.
LEMMA ModSmall ==
    ASSUME NEW w \in Nat \ {0}, NEW a \in Int
    PROVE  /\ a \in 0 .. (w - 1) => a % w = a
           /\ a \in (-w) .. (-1) => a % w = a + w
           /\ a = w => a % w = 0
    OBVIOUS

\* A whole number of turns does not change the index of a position.
LEMMA ModTurn ==
    ASSUME NEW w \in Nat \ {0}, NEW m \in Nat, m % w = 0, NEW a \in Int
    PROVE  (a + m) % w = a % w
<1> DEFINE q == (m \div w) + (a \div w)
           r == a % w
<1>1. r \in 0 .. (w - 1) /\ q \in Int /\ a + m = w * q + r
    OBVIOUS
<1> HIDE DEF q, r
<1>2. (a + m) % w = r
    BY Zenon, <1>1, ModUnique
<1> QED BY Zenon, <1>2 DEF r

\* Positions less than w apart have different indices.
LEMMA ModDistinct ==
    ASSUME NEW w \in Nat \ {0}, NEW a \in Int, NEW b \in Int, a < b, b - a < w
    PROVE  a % w # b % w
<1> SUFFICES ASSUME a % w = b % w PROVE FALSE
    BY Zenon
<1> DEFINE d == (b \div w) - (a \div w)
<1>1. d \in Int /\ b - a = w * d
    OBVIOUS
<1> HIDE DEF d
<1>2. d >= 1 => w * d >= w
    BY <1>1
<1>3. d <= 0 => w * d <= 0
    BY <1>1
<1> QED BY <1>1, <1>2, <1>3

-----------------------------------------------------------------------------
(* The ring buffer *)

Ring(b) == b \in RingBufType /\ rbuf_len(b) <= SERIAL_RBUFSZ

\* The number of bytes in a buffer, without the modulus; the next position.
LEMMA RingLen ==
    ASSUME NEW b, Ring(b)
    PROVE  /\ rbuf_len(b) = IF b.hpos <= b.tpos THEN b.tpos - b.hpos
                            ELSE b.tpos - b.hpos + POSMOD
           /\ rbuf_len(b) \in 0 .. SERIAL_RBUFSZ
           /\ rbuf_empty(b) <=> rbuf_len(b) = 0
           /\ rbuf_full(b) <=> rbuf_len(b) = SERIAL_RBUFSZ
<1>1. b.hpos \in 0 .. (POSMOD - 1) /\ b.tpos \in 0 .. (POSMOD - 1)
    BY Zenon DEF Ring, RingBufType, Pos
<1>2. b.tpos - b.hpos \in 0 .. (POSMOD - 1) \/ b.tpos - b.hpos \in (-POSMOD) .. (-1)
    BY <1>1, RingBufAssumption
<1>3. rbuf_len(b) = IF b.hpos <= b.tpos THEN b.tpos - b.hpos ELSE b.tpos - b.hpos + POSMOD
    BY <1>1, <1>2, ModSmall, RingBufAssumption DEF rbuf_len
<1> QED
    BY <1>1, <1>3, RingBufAssumption DEF Ring, rbuf_empty, rbuf_full

LEMMA NextPos ==
    ASSUME NEW x \in Pos
    PROVE  /\ (x + 1) % POSMOD = IF x = POSMOD - 1 THEN 0 ELSE x + 1
           /\ (x + 1) % POSMOD \in Pos
<1>1. x + 1 = POSMOD \/ x + 1 \in 0 .. (POSMOD - 1)
    BY RingBufAssumption DEF Pos
<1> QED BY <1>1, ModSmall, RingBufAssumption DEF Pos

\* The element that a reader finds i places behind the head.
Cell(b, i) == b.data[(b.hpos + i - 1) % SERIAL_RBUFSZ]

LEMMA CellType ==
    ASSUME NEW b, Ring(b), NEW i \in Int
    PROVE  Cell(b, i) \in Byte
<1>1. b.hpos \in Int /\ b.data \in [0 .. (SERIAL_RBUFSZ - 1) -> Byte]
    BY DEF Ring, RingBufType, Pos
<1>2. (b.hpos + i - 1) % SERIAL_RBUFSZ \in 0 .. (SERIAL_RBUFSZ - 1)
    BY <1>1, RingBufAssumption
<1> QED BY Zenon, <1>1, <1>2 DEF Cell

\* The tail's index is where the element behind the last would be found.
LEMMA TailIndex ==
    ASSUME NEW b, Ring(b)
    PROVE  b.tpos % SERIAL_RBUFSZ = (b.hpos + rbuf_len(b)) % SERIAL_RBUFSZ
<1>1. b.hpos \in Int /\ b.tpos \in Int
    BY DEF Ring, RingBufType, Pos
<1>2. b.hpos + rbuf_len(b) = b.tpos \/ b.hpos + rbuf_len(b) = b.tpos + POSMOD
    BY <1>1, RingLen, RingBufAssumption
<1> QED BY ZenonT(60), <1>1, <1>2, ModTurn, RingBufAssumption

\* rbuf_init empties a buffer.
LEMMA RbufInit ==
    ASSUME NEW b, Ring(b)
    PROVE  Ring(rbuf_init(b)) /\ rbuf_empty(rbuf_init(b)) /\ ~rbuf_full(rbuf_init(b))
<1>0. 0 \in Pos
    BY RingBufAssumption DEF Pos
<1>1. rbuf_init(b) \in RingBufType /\ rbuf_init(b).hpos = 0 /\ rbuf_init(b).tpos = 0
    BY Zenon, <1>0 DEF Ring, RingBufType, rbuf_init
<1>2. rbuf_len(rbuf_init(b)) = 0
    BY <1>1, ModSmall, RingBufAssumption DEF rbuf_len
<1> QED BY <1>1, <1>2, RingBufAssumption DEF Ring, rbuf_empty, rbuf_full

\* A byte stored behind the tail is not seen until the tail moves.
LEMMA Store ==
    ASSUME NEW b, Ring(b), NEW c \in Byte
    PROVE  /\ Ring(store(b, c))
           /\ rbuf_len(store(b, c)) = rbuf_len(b)
           /\ rbuf_empty(store(b, c)) <=> rbuf_empty(b)
           /\ rbuf_full(store(b, c)) <=> rbuf_full(b)
           /\ Cell(store(b, c), rbuf_len(b) + 1) = c
           /\ ~rbuf_full(b) => \A i \in 1 .. rbuf_len(b) : Cell(store(b, c), i) = Cell(b, i)
<1> DEFINE s == store(b, c)
           tail == b.tpos % SERIAL_RBUFSZ
<1>1. /\ b.hpos \in Pos /\ b.tpos \in Pos /\ b.tpos \in Int /\ b.hpos \in Int
      /\ b.data \in [0 .. (SERIAL_RBUFSZ - 1) -> Byte]
    BY DEF Ring, RingBufType, Pos
<1>2. tail \in 0 .. (SERIAL_RBUFSZ - 1)
    BY <1>1, RingBufAssumption
<1>3. /\ s \in RingBufType /\ s.hpos = b.hpos /\ s.tpos = b.tpos
      /\ s.data = [b.data EXCEPT ![tail] = c]
    <2> HIDE DEF tail
    <2>1. s = [b EXCEPT !.data[tail] = c]
        BY Zenon DEF store, tail
    <2> QED BY ZenonT(60), <1>1, <1>2, <2>1 DEF Ring, RingBufType
<1>4. rbuf_len(s) = rbuf_len(b)
    BY Zenon, <1>3 DEF rbuf_len
<1>5. Cell(s, rbuf_len(b) + 1) = c
    <2>1. b.hpos + (rbuf_len(b) + 1) - 1 = b.hpos + rbuf_len(b)
        BY <1>1, RingLen
    <2>2. (b.hpos + (rbuf_len(b) + 1) - 1) % SERIAL_RBUFSZ = tail
        BY Zenon, <2>1, TailIndex
    <2> QED BY Zenon, <1>1, <1>2, <1>3, <2>2 DEF Cell
<1>6. ASSUME ~rbuf_full(b), NEW i \in 1 .. rbuf_len(b)
      PROVE  Cell(s, i) = Cell(b, i)
    <2> DEFINE at == b.hpos + i - 1
               end == b.hpos + rbuf_len(b)
    <2>1. at \in Int /\ end \in Int /\ at < end /\ end - at < SERIAL_RBUFSZ
        BY <1>1, <1>6, RingLen, RingBufAssumption
    <2>2. at % SERIAL_RBUFSZ # end % SERIAL_RBUFSZ
        <3> HIDE DEF at, end
        <3> QED BY Zenon, <2>1, ModDistinct, RingBufAssumption
    <2>3. at % SERIAL_RBUFSZ # tail
        BY Zenon, <2>2, TailIndex
    <2>4. at % SERIAL_RBUFSZ \in 0 .. (SERIAL_RBUFSZ - 1)
        <3> HIDE DEF at, end
        <3> QED BY <2>1, RingBufAssumption
    <2> HIDE DEF tail
    <2> QED BY <1>1, <1>3, <2>3, <2>4 DEF Cell
<1> QED BY Zenon, <1>3, <1>4, <1>5, <1>6 DEF Ring, rbuf_empty, rbuf_full

\* Moving the tail adds the byte that is stored there.
LEMMA AdvanceTail ==
    ASSUME NEW b, Ring(b), ~rbuf_full(b)
    PROVE  /\ Ring(advance_tail(b)) /\ ~rbuf_empty(advance_tail(b))
           /\ rbuf_len(advance_tail(b)) = rbuf_len(b) + 1
           /\ \A i \in Int : Cell(advance_tail(b), i) = Cell(b, i)
<1> DEFINE s == advance_tail(b)
<1>1. b.hpos \in Pos /\ b.tpos \in Pos
    BY Zenon DEF Ring, RingBufType
<1>2. s \in RingBufType /\ s.hpos = b.hpos /\ s.data = b.data
      /\ s.tpos = IF b.tpos = POSMOD - 1 THEN 0 ELSE b.tpos + 1
    BY Zenon, <1>1, NextPos DEF Ring, RingBufType, advance_tail
<1>3. rbuf_len(b) < SERIAL_RBUFSZ
    BY RingLen, RingBufAssumption
<1>4. rbuf_len(s) = rbuf_len(b) + 1
    <2>1. rbuf_len(b) + 1 \in 0 .. (POSMOD - 1) /\ rbuf_len(b) \in Int
        BY <1>3, RingLen, RingBufAssumption
    <2>2. \/ s.tpos - s.hpos = rbuf_len(b) + 1
          \/ s.tpos - s.hpos = rbuf_len(b) + 1 - POSMOD
        BY <1>1, <1>2, RingLen, RingBufAssumption DEF Pos
    <2>3. s.tpos - s.hpos \in (-POSMOD) .. (-1) \/ s.tpos - s.hpos = rbuf_len(b) + 1
        BY <2>1, <2>2, RingBufAssumption
    <2> QED BY <2>1, <2>2, <2>3, ModSmall, RingBufAssumption DEF rbuf_len
<1>5. Ring(s)
    BY <1>2, <1>3, <1>4, RingLen, RingBufAssumption DEF Ring
<1>6. ~rbuf_empty(s)
    BY <1>4, <1>5, RingLen
<1> QED BY Zenon, <1>2, <1>4, <1>5, <1>6 DEF Cell

\* Moving the head drops the oldest byte, and the others keep their order.
LEMMA AdvanceHead ==
    ASSUME NEW b, Ring(b), ~rbuf_empty(b)
    PROVE  /\ Ring(advance_head(b)) /\ ~rbuf_full(advance_head(b))
           /\ rbuf_len(advance_head(b)) = rbuf_len(b) - 1
           /\ \A i \in Int : Cell(advance_head(b), i) = Cell(b, i + 1)
<1> DEFINE s == advance_head(b)
<1>1. b.hpos \in Pos /\ b.tpos \in Pos
    BY Zenon DEF Ring, RingBufType
<1>2. s \in RingBufType /\ s.tpos = b.tpos /\ s.data = b.data
      /\ s.hpos = IF b.hpos = POSMOD - 1 THEN 0 ELSE b.hpos + 1
    BY Zenon, <1>1, NextPos DEF Ring, RingBufType, advance_head
<1>3. rbuf_len(b) > 0 /\ rbuf_len(b) \in 0 .. SERIAL_RBUFSZ
    BY RingLen
<1>4. rbuf_len(s) = rbuf_len(b) - 1
    <2>1. rbuf_len(b) - 1 \in 0 .. (POSMOD - 1)
        BY <1>3, RingBufAssumption
    <2>2. \/ s.tpos - s.hpos = rbuf_len(b) - 1
          \/ s.tpos - s.hpos = rbuf_len(b) - 1 - POSMOD
        BY <1>1, <1>2, <1>3, RingLen, RingBufAssumption DEF Pos
    <2>3. s.tpos - s.hpos \in (-POSMOD) .. (-1) \/ s.tpos - s.hpos = rbuf_len(b) - 1
        BY <2>1, <2>2, RingBufAssumption
    <2> QED BY <2>1, <2>2, <2>3, ModSmall, RingBufAssumption DEF rbuf_len
<1>5. Ring(s)
    BY <1>2, <1>3, <1>4, RingBufAssumption DEF Ring
<1>6. ~rbuf_full(s)
    BY <1>3, <1>4, <1>5, RingLen
<1>7. ASSUME NEW i \in Int PROVE Cell(s, i) = Cell(b, i + 1)
    <2>1. b.hpos + (i + 1) - 1 = s.hpos + i - 1 \/ b.hpos + (i + 1) - 1 = (s.hpos + i - 1) + POSMOD
        BY <1>1, <1>2, RingBufAssumption DEF Pos
    <2>2. (b.hpos + (i + 1) - 1) % SERIAL_RBUFSZ = (s.hpos + i - 1) % SERIAL_RBUFSZ
        <3>1. s.hpos + i - 1 \in Int
            BY <1>1, <1>2 DEF Pos
        <3> QED BY ZenonT(60), <2>1, <3>1, ModTurn, RingBufAssumption
    <2> QED BY Zenon, <1>2, <2>2 DEF Cell
<1> QED BY Zenon, <1>2, <1>4, <1>5, <1>6, <1>7

-----------------------------------------------------------------------------
(* The queue that a buffer stands for *)

LEMMA Contents ==
    ASSUME NEW b, Ring(b)
    PROVE  /\ rbuf_contents(b) \in Seq(Byte)
           /\ Len(rbuf_contents(b)) = rbuf_len(b)
           /\ \A i \in 1 .. rbuf_len(b) : rbuf_contents(b)[i] = Cell(b, i)
           /\ rbuf_empty(b) <=> rbuf_contents(b) = <<>>
           /\ load(b) = Cell(b, 1)
           /\ load(b) \in Byte
<1>1. rbuf_contents(b) = [i \in 1 .. rbuf_len(b) |-> Cell(b, i)]
    BY Zenon DEF rbuf_contents, Cell
<1>2. rbuf_len(b) \in Nat /\ \A i \in 1 .. rbuf_len(b) : Cell(b, i) \in Byte
    BY RingLen, CellType
<1>3. rbuf_contents(b) \in [1 .. rbuf_len(b) -> Byte]
    BY Zenon, <1>1, <1>2
<1>4. rbuf_contents(b) \in Seq(Byte) /\ Len(rbuf_contents(b)) = rbuf_len(b)
    BY <1>2, <1>3
<1>5. rbuf_empty(b) <=> rbuf_contents(b) = <<>>
    BY Zenon, <1>4, EmptySeq, RingLen
<1>6. load(b) = Cell(b, 1)
    <2>1. b.hpos + 1 - 1 = b.hpos
        BY DEF Ring, RingBufType, Pos
    <2> QED BY Zenon, <2>1 DEF load, Cell
<1>7. load(b) \in Byte
    BY <1>6, CellType
<1> QED BY Zenon, <1>1, <1>4, <1>5, <1>6, <1>7

LEMMA ContentsGrow ==
    ASSUME NEW b, NEW s, Ring(b), Ring(s), rbuf_len(s) = rbuf_len(b) + 1,
           \A i \in 1 .. rbuf_len(b) : Cell(s, i) = Cell(b, i)
    PROVE  rbuf_contents(s) = Append(rbuf_contents(b), Cell(s, rbuf_len(b) + 1))
<1> DEFINE c == Cell(s, rbuf_len(b) + 1)
           r == rbuf_contents(b)
           q == Append(r, c)
<1>0. /\ r \in Seq(Byte) /\ Len(r) = rbuf_len(b)
      /\ \A i \in 1 .. rbuf_len(b) : r[i] = Cell(b, i)
    BY Zenon, Contents
<1>1. rbuf_len(b) \in Nat /\ c \in Byte
    BY RingLen, CellType
<1>2. /\ q \in Seq(Byte) /\ Len(q) = rbuf_len(b) + 1
      /\ q[rbuf_len(b) + 1] = c
      /\ \A i \in 1 .. rbuf_len(b) : q[i] = Cell(b, i)
    <2> HIDE DEF r, c
    <2> QED BY <1>0, <1>1, AppendProperties
<1>3. /\ rbuf_contents(s) \in Seq(Byte) /\ Len(rbuf_contents(s)) = rbuf_len(b) + 1
      /\ \A i \in 1 .. rbuf_len(b) + 1 : rbuf_contents(s)[i] = Cell(s, i)
    BY Zenon, Contents
<1>4. ASSUME NEW i \in 1 .. rbuf_len(b) + 1
      PROVE  q[i] = rbuf_contents(s)[i]
    BY <1>1, <1>2, <1>3
<1> HIDE DEF q, r, c
<1>5. q = rbuf_contents(s)
    BY Zenon, <1>2, <1>3, <1>4, SeqEqual
<1> QED BY Zenon, <1>5 DEF q, r, c

LEMMA ContentsStore ==
    ASSUME NEW b, Ring(b), ~rbuf_full(b), NEW c \in Byte
    PROVE  /\ rbuf_contents(store(b, c)) = rbuf_contents(b)
           /\ ~rbuf_empty(b) => load(store(b, c)) = load(b)
<1>1. /\ Ring(store(b, c)) /\ rbuf_len(store(b, c)) = rbuf_len(b)
      /\ \A i \in 1 .. rbuf_len(b) : Cell(store(b, c), i) = Cell(b, i)
    BY Zenon, Store
<1>2. rbuf_contents(store(b, c)) = rbuf_contents(b)
    BY Zenon, <1>1 DEF rbuf_contents, Cell
<1>3. ~rbuf_empty(b) => 1 \in 1 .. rbuf_len(b)
    BY RingLen
<1> QED BY Zenon, <1>1, <1>2, <1>3, Contents

\* rbuf_put appends.
LEMMA ContentsPut ==
    ASSUME NEW b, Ring(b), ~rbuf_full(b), NEW c \in Byte
    PROVE  /\ Ring(rbuf_put(b, c)) /\ ~rbuf_empty(rbuf_put(b, c))
           /\ rbuf_contents(rbuf_put(b, c)) = Append(rbuf_contents(b), c)
           /\ ~rbuf_empty(b) => load(rbuf_put(b, c)) = load(b)
<1> DEFINE s == store(b, c)
           u == advance_tail(s)
<1>1. /\ Ring(s) /\ ~rbuf_full(s) /\ rbuf_len(s) = rbuf_len(b)
      /\ Cell(s, rbuf_len(b) + 1) = c
      /\ \A i \in 1 .. rbuf_len(b) : Cell(s, i) = Cell(b, i)
    BY Zenon, Store
<1>2. /\ Ring(u) /\ ~rbuf_empty(u) /\ rbuf_len(u) = rbuf_len(b) + 1
      /\ \A i \in Int : Cell(u, i) = Cell(s, i)
    <2> HIDE DEF s
    <2> QED BY Zenon, <1>1, AdvanceTail
<1>3. rbuf_len(b) \in Nat /\ (~rbuf_empty(b) => 1 \in 1 .. rbuf_len(b))
    BY RingLen
<1> HIDE DEF s, u
<1>4. rbuf_contents(u) = Append(rbuf_contents(b), c)
    BY <1>1, <1>2, <1>3, ContentsGrow
<1>5. ~rbuf_empty(b) => load(u) = load(b)
    BY <1>1, <1>2, <1>3, Contents
<1> QED BY Zenon, <1>2, <1>4, <1>5 DEF rbuf_put, s, u

\* advance_tail appends the byte that was stored.
LEMMA ContentsAdvance ==
    ASSUME NEW b, Ring(b), ~rbuf_full(b)
    PROVE  \E c \in Byte : rbuf_contents(advance_tail(b)) = Append(rbuf_contents(b), c)
<1>1. /\ Ring(advance_tail(b)) /\ rbuf_len(advance_tail(b)) = rbuf_len(b) + 1
      /\ \A i \in Int : Cell(advance_tail(b), i) = Cell(b, i)
    BY Zenon, AdvanceTail
<1>2. rbuf_len(b) + 1 \in Int
    BY RingLen
<1> QED BY <1>1, <1>2, ContentsGrow, CellType

\* advance_head removes the byte that load gives.
LEMMA ContentsGet ==
    ASSUME NEW b, Ring(b), ~rbuf_empty(b)
    PROVE  /\ rbuf_contents(b) # <<>>
           /\ Head(rbuf_contents(b)) = load(b)
           /\ rbuf_contents(advance_head(b)) = Tail(rbuf_contents(b))
<1> DEFINE s == advance_head(b)
           q == rbuf_contents(b)
           n1 == rbuf_len(b) - 1
<1>1. /\ Ring(s) /\ rbuf_len(s) = n1
      /\ \A i \in Int : Cell(s, i) = Cell(b, i + 1)
    BY Zenon, AdvanceHead
<1>2. n1 \in Nat /\ rbuf_len(b) = n1 + 1 /\ rbuf_len(b) \in Nat
    BY RingLen
<1>3. /\ q \in Seq(Byte) /\ q # <<>> /\ Len(q) = n1 + 1
      /\ \A i \in 1 .. n1 + 1 : q[i] = Cell(b, i)
    BY Zenon, <1>2, Contents
<1>4. Head(q) = load(b)
    BY <1>2, <1>3, Contents
<1>5. /\ Tail(q) \in Seq(Byte) /\ Len(Tail(q)) = n1
      /\ \A i \in 1 .. n1 : Tail(q)[i] = q[i + 1]
    BY ZenonT(60), <1>2, <1>3, HeadTailProperties
<1>6. /\ rbuf_contents(s) \in Seq(Byte) /\ Len(rbuf_contents(s)) = n1
      /\ \A i \in 1 .. n1 : rbuf_contents(s)[i] = Cell(s, i)
    <2> HIDE DEF s
    <2> QED BY Zenon, <1>1, Contents
<1>7. ASSUME NEW i \in 1 .. n1 PROVE rbuf_contents(s)[i] = Tail(q)[i]
    <2> HIDE DEF s, q, n1
    <2>1. i \in Int /\ i + 1 \in 1 .. n1 + 1
      BY ONLY <1>2, i \in 1 .. n1
    <2> QED BY Zenon, <1>1, <1>3, <1>5, <1>6, <2>1
<1>8. rbuf_contents(s) = Tail(q)
    <2> HIDE DEF s, q, n1
    <2> QED BY Zenon, <1>5, <1>6, <1>7, SeqEqual
<1> QED BY Zenon, <1>3, <1>4, <1>8

-----------------------------------------------------------------------------
(* The inductive invariant *)

\* Only the thread on the CPU is in the middle of a call, the others wait, wait
\* to go on, or are outside; a closed port has no calls.
OneInside ==
    /\ cur # NULL => pc[cur] \notin {"out", "r_sleep", "w_sleep"}
    /\ \A t \in Threads : t # cur => pc[t] \in {"out", "r_sleep", "w_sleep", "r_test", "w_test"}
    /\ refcnt = 0 => \A t \in Threads : pc[t] = "out"

\* What a call has found out before an interrupt still holds after it: the byte
\* it has loaded is the oldest, there is room for the byte it has stored, and
\* an update of ier in progress brings back no less than ier has.
StillTrue ==
    /\ At("r_get") => ~rbuf_empty(rxbuf) /\ reg = <<load(rxbuf)>> /\ n[cur] > 0
    /\ At("w_put") => ~rbuf_full(txbuf) /\ n[cur] > 0
    /\ At("r_store") \/ At("w_store") => ier \subseteq ierld

IInv == NothingStalls /\ OneInside /\ StillTrue

LEMMA InitOK == uart_attach => IInv
<1> SUFFICES ASSUME uart_attach PROVE IInv
    BY Zenon
<1>1. PICK c \in Byte :
          /\ rxbuf = [hpos |-> 0, tpos |-> 0, data |-> [i \in 0 .. (SERIAL_RBUFSZ - 1) |-> c]]
          /\ txbuf = rxbuf
    BY Zenon DEF uart_attach
<1>2. 0 \in Pos
    BY RingBufAssumption DEF Pos
<1>3. rxbuf \in RingBufType /\ rbuf_len(rxbuf) = 0 /\ rbuf_empty(rxbuf) /\ ~rbuf_full(rxbuf)
    BY <1>1, <1>2, ModSmall, RingBufAssumption DEF RingBufType, rbuf_len, rbuf_empty, rbuf_full
<1>4. refcnt = 0 /\ cur = NULL /\ ier = {} /\ ierld = {}
      /\ rbr = <<>> /\ thr = <<>> /\ reg = <<>>
      /\ pc = [t \in Threads |-> "out"] /\ n = [t \in Threads |-> 0]
    BY Zenon DEF uart_attach
<1>5. TypeOK
    BY <1>1, <1>3, <1>4, RingBufAssumption DEF TypeOK
<1> QED
    BY <1>4, <1>5
    DEF IInv, NothingStalls, NoLostWakeup, RxNotStalled, TxNotStalled, OneInside, StillTrue, At

LEMMA Rings == TypeOK => Ring(rxbuf) /\ Ring(txbuf)
    BY Zenon DEF TypeOK, Ring

\* Calls, returns and the steps of a call that leave the buffers alone.
LEMMA StepOK ==
    ASSUME IInv, Next
    PROVE  IInv'
<1> USE DEF IInv, NothingStalls, TypeOK, NoLostWakeup, RxNotStalled, TxNotStalled, OneInside,
            StillTrue, At, Inside, Goto, Leave, bufs, device, locals, ReadPlace, WritePlace, DREIE, THREIE
<1> USE UartAssumption
<1>0. Ring(rxbuf) /\ Ring(txbuf)
    BY Zenon, Rings
<1>1. CASE uart_open
    <2>1. /\ Ring(rxbuf') /\ rbuf_empty(rxbuf') /\ ~rbuf_full(rxbuf')
          /\ Ring(txbuf') /\ rbuf_empty(txbuf') /\ ~rbuf_full(txbuf')
        BY Zenon, <1>0, <1>1, RbufInit DEF uart_open
    <2> QED BY Zenon, <1>1, <2>1 DEF uart_open, Ring
<1>2. CASE uart_close
    BY <1>2 DEF uart_close
<1>3. ASSUME NEW t \in Threads, Dispatch(t) PROVE IInv'
    BY Zenon, <1>3 DEF Dispatch
<1>4. ASSUME NEW t \in Threads, NEW k \in ReadSizes, Call(t, "r_test", k) PROVE IInv'
    BY <1>4 DEF Call
<1>5. ASSUME NEW t \in Threads, NEW k \in WriteSizes, Call(t, "w_test", k) PROVE IInv'
    BY <1>5 DEF Call
<1>6. CASE WaitLoop
    BY ZenonT(60), <1>6 DEF WaitLoop
<1>7. CASE ReadLoad
    <2>1. load(rxbuf) \in Byte
        BY Zenon, <1>0, Contents
    <2> QED BY ZenonT(60), <1>7, <2>1 DEF ReadLoad
<1>8. CASE ReadAdvance
    <2>1. Ring(rxbuf') /\ ~rbuf_full(rxbuf')
        BY Zenon, <1>0, <1>8, AdvanceHead DEF ReadAdvance
    <2> QED BY <1>8, <2>1 DEF ReadAdvance, Ring
<1>9. CASE WriteStore
    <2>1. CASE UNCHANGED txbuf
        BY ZenonT(60), <1>9, <2>1 DEF WriteStore
    <2>2. ASSUME NEW c \in TxBytes, txbuf' = store(txbuf, c), ~rbuf_full(txbuf) PROVE IInv'
        <3>1. Ring(txbuf') /\ ~rbuf_full(txbuf') /\ (rbuf_empty(txbuf') <=> rbuf_empty(txbuf))
            BY Zenon, <1>0, <2>2, Store
        <3> QED BY ZenonT(60), <1>9, <2>2, <3>1 DEF WriteStore, Ring
    <2> QED BY Zenon, <1>9, <2>1, <2>2 DEF WriteStore
<1>10. CASE WriteAdvance
    <2>1. Ring(txbuf') /\ ~rbuf_empty(txbuf')
        BY Zenon, <1>0, <1>10, AdvanceTail DEF WriteAdvance
    <2> QED BY <1>10, <2>1 DEF WriteAdvance, Ring
<1>11. CASE IerLoad
    BY ZenonT(60), <1>11 DEF IerLoad
<1>12. CASE ReadEnd
    BY Zenon, <1>12 DEF ReadEnd
<1>13. CASE WriteEnd
    BY ZenonT(60), <1>13 DEF WriteEnd
<1>14. CASE uart_isr
    <2>1. /\ Ring(rxbuf')
          /\ RxReady => ~rbuf_empty(rxbuf')
          /\ ~RxReady => rxbuf' = rxbuf
          /\ ~rbuf_empty(rxbuf) => ~rbuf_empty(rxbuf') /\ load(rxbuf') = load(rxbuf)
        <3>1. CASE ~RxReady
            BY Zenon, <1>0, <1>14, <3>1 DEF uart_isr
        <3>2. CASE RxReady
            <4>1. ~rbuf_full(rxbuf) /\ rbr[1] \in Byte /\ rxbuf' = rbuf_put(rxbuf, rbr[1])
                BY <1>14, <3>2 DEF uart_isr, RxReady
            <4> QED BY Zenon, <1>0, <3>2, <4>1, ContentsPut
        <3> QED BY Zenon, <3>1, <3>2
    <2>2. /\ Ring(txbuf')
          /\ TxReady => ~rbuf_full(txbuf') /\ load(txbuf) \in Byte
          /\ ~TxReady => txbuf' = txbuf
          /\ rbuf_empty(txbuf) => rbuf_empty(txbuf')
          /\ ~rbuf_full(txbuf) => ~rbuf_full(txbuf')
        BY Zenon, <1>0, <1>14, AdvanceHead, Contents DEF uart_isr, TxReady
    <2>3. TypeOK'
        BY Zenon, <1>14, <2>1, <2>2 DEF uart_isr, Ring, Silenced, Retest, Woken, RxReady
    <2>4. NoLostWakeup'
        BY Zenon, <1>14, <2>1, <2>2 DEF uart_isr, Woken, Retest, RxReady, TxReady, Masked
    <2>5. RxNotStalled' /\ TxNotStalled'
        BY Zenon, <1>14, <2>1, <2>2 DEF uart_isr, Woken, Retest, RxReady, TxReady, Silenced
    <2>6. OneInside' /\ StillTrue'
        BY Zenon, <1>14, <2>1, <2>2 DEF uart_isr, Woken, Retest, Silenced
    <2> QED BY Zenon, <2>3, <2>4, <2>5, <2>6
<1>15. CASE LineTransmit
    BY <1>15 DEF LineTransmit
<1>16. ASSUME NEW c \in RxBytes, LineReceive(c) PROVE IInv'
    BY <1>16 DEF LineReceive
<1> QED
    BY Zenon, <1>1, <1>2, <1>3, <1>4, <1>5, <1>6, <1>7, <1>8, <1>9, <1>10, <1>11, <1>12, <1>13,
       <1>14, <1>15, <1>16 DEF Next, ThreadStep

LEMMA Invariant == Spec => []IInv
<1>1. IInv /\ [Next]_vars => IInv'
    <2> SUFFICES ASSUME IInv, [Next]_vars PROVE IInv'
        BY Zenon
    <2>1. CASE Next
        BY Zenon, <2>1, StepOK
    <2>2. CASE UNCHANGED vars
        BY SMTT(60), <2>2 DEF vars, bufs, device, locals, IInv, NothingStalls, TypeOK, NoLostWakeup,
                    RxNotStalled, TxNotStalled, OneInside, StillTrue, At, Inside
    <2> QED BY Zenon, <2>1, <2>2
<1> QED BY InitOK, <1>1, PTL DEF Spec

\* However the service routine cuts into uart_read and uart_write, and however
\* many threads call them: buffers keep their bounds, a thread waits only for
\* what has not happened yet, and interrupts are off only when they are not
\* needed.  For every ring size that divides the range of a position.
THEOREM NeverStalls == Spec => []NothingStalls
<1>1. IInv => NothingStalls
    BY Zenon DEF IInv
<1> QED BY <1>1, Invariant, PTL

-----------------------------------------------------------------------------
(* The driver implements UartChannel *)

queues == <<refcnt = 1, rbuf_contents(rxbuf), rbuf_contents(txbuf), got, thr>>

\* Every step of the driver is a step of the channel or leaves it as it is.
LEMMA StepImplements ==
    ASSUME IInv, Next
    PROVE  Channel!Next \/ UNCHANGED queues
<1> USE DEF IInv, NothingStalls, TypeOK, StillTrue, At, bufs, device, locals, queues
<1>0. Ring(rxbuf) /\ Ring(txbuf) /\ (cur # NULL => refcnt = 1)
    BY Zenon, Rings DEF OneInside
<1>00. ASSUME NEW b, Ring(b), ~rbuf_full(b) PROVE Len(rbuf_contents(b)) < SERIAL_RBUFSZ
    BY <1>00, Contents, RingLen, RingBufAssumption
<1>1. CASE uart_open
    <2>1. rbuf_contents(rxbuf') = <<>> /\ rbuf_contents(txbuf') = <<>>
        BY Zenon, <1>0, <1>1, RbufInit, Contents DEF uart_open
    <2>2. Channel!Open
        BY <1>1, <2>1 DEF uart_open, Channel!Open
    <2> QED BY Zenon, <2>2 DEF Channel!Next
<1>2. CASE uart_close
    BY Zenon, <1>2 DEF uart_close, Channel!Close, Channel!Next
<1>3. ASSUME NEW t \in Threads, Dispatch(t) PROVE UNCHANGED queues
    BY Zenon, <1>3 DEF Dispatch
<1>4. ASSUME NEW t \in Threads, NEW place, NEW k, Call(t, place, k) PROVE UNCHANGED queues
    BY Zenon, <1>4 DEF Call
<1>5. CASE WaitLoop \/ ReadLoad \/ IerLoad \/ ReadEnd \/ WriteEnd
    BY Zenon, <1>5 DEF WaitLoop, ReadLoad, IerLoad, ReadEnd, WriteEnd
<1>6. CASE ReadAdvance
    <2>1. /\ rbuf_contents(rxbuf) # <<>>
          /\ got' = <<Head(rbuf_contents(rxbuf))>>
          /\ rbuf_contents(rxbuf') = Tail(rbuf_contents(rxbuf))
        BY Zenon, <1>0, <1>6, ContentsGet DEF ReadAdvance
    <2>2. Channel!Read
        BY Zenon, <1>0, <1>6, <2>1 DEF ReadAdvance, Channel!Read
    <2> QED BY Zenon, <2>2 DEF Channel!Next
<1>7. CASE WriteStore
    <2>1. rbuf_contents(txbuf') = rbuf_contents(txbuf)
        BY Zenon, <1>0, <1>7, ContentsStore, UartAssumption DEF WriteStore
    <2> QED BY Zenon, <1>7, <2>1 DEF WriteStore
<1>8. CASE WriteAdvance
    <2>1. PICK c \in Byte : rbuf_contents(txbuf') = Append(rbuf_contents(txbuf), c)
        BY Zenon, <1>0, <1>8, ContentsAdvance DEF WriteAdvance
    <2>2. Channel!Write(c)
        BY Zenon, <1>0, <1>00, <1>8, <2>1 DEF WriteAdvance, Channel!Write
    <2> QED BY Zenon, <2>2 DEF Channel!Next
<1>9. CASE uart_isr
    <2> DEFINE rxq == rbuf_contents(rxbuf)
               txq == rbuf_contents(txbuf)
    <2>1. ASSUME RxReady
          PROVE  \E c \in Byte : Len(rxq) < SERIAL_RBUFSZ /\ rxq' = Append(rxq, c)
        <3>1. ~rbuf_full(rxbuf) /\ rbr[1] \in Byte /\ rxbuf' = rbuf_put(rxbuf, rbr[1])
            BY <1>9, <2>1, UartAssumption DEF uart_isr, RxReady
        <3> QED BY Zenon, <1>0, <1>00, <3>1, ContentsPut
    <2>2. ASSUME TxReady
          PROVE  thr = <<>> /\ txq # <<>> /\ thr' = <<Head(txq)>> /\ txq' = Tail(txq)
        BY Zenon, <1>0, <1>9, <2>2, ContentsGet DEF uart_isr, TxReady
    <2>3. /\ refcnt = 1 /\ refcnt' = 1 /\ got' = got
          /\ ~RxReady => rxq' = rxq
          /\ ~TxReady => txq' = txq /\ thr' = thr
        BY Zenon, <1>9 DEF uart_isr
    <2>4. CASE RxReady /\ TxReady
        BY Zenon, <2>1, <2>2, <2>3, <2>4 DEF Channel!Both, Channel!Next
    <2>5. CASE RxReady /\ ~TxReady
        BY Zenon, <2>1, <2>3, <2>5 DEF Channel!Arrive, Channel!Next
    <2>6. CASE ~RxReady /\ TxReady
        BY Zenon, <2>2, <2>3, <2>6 DEF Channel!Send, Channel!Next
    <2>7. CASE ~RxReady /\ ~TxReady
        BY Zenon, <2>3, <2>7
    <2> QED BY Zenon, <2>4, <2>5, <2>6, <2>7
<1>10. CASE LineTransmit
    BY Zenon, <1>10 DEF LineTransmit, Channel!Sent, Channel!Next
<1>11. ASSUME NEW c \in RxBytes, LineReceive(c) PROVE UNCHANGED queues
    BY Zenon, <1>11 DEF LineReceive
<1> QED
    BY Zenon, <1>1, <1>2, <1>3, <1>4, <1>5, <1>6, <1>7, <1>8, <1>9, <1>10, <1>11
    DEF Next, ThreadStep

\* What uart_read returns is what the line delivered and what the line is given
\* is what uart_write was given, in order, none lost and none repeated, for
\* every ring size that divides the range of a position and every interleaving
\* with the service routine: the driver implements two bounded queues.
THEOREM ChannelImplemented == Spec => ImplementsChannel
<1>1. uart_attach => Channel!Init
    <2> SUFFICES ASSUME uart_attach PROVE Channel!Init
        BY Zenon
    <2>1. Ring(rxbuf) /\ Ring(txbuf)
        BY Zenon, InitOK, Rings DEF IInv, NothingStalls
    <2>2. rbuf_empty(rxbuf) /\ rbuf_empty(txbuf)
        BY DEF uart_attach, rbuf_empty
    <2> QED BY <2>1, <2>2, Contents DEF uart_attach, Channel!Init
<1>2. IInv /\ [Next]_vars => [Channel!Next]_queues
    <2>1. CASE UNCHANGED vars
        <3>1. UNCHANGED <<refcnt, rxbuf, txbuf, got, thr>>
            BY Zenon, <2>1 DEF vars, bufs, device
        <3> QED BY Zenon, <3>1 DEF queues
    <2> QED BY Zenon, <2>1, StepImplements
<1> QED
    BY <1>1, <1>2, Invariant, PTL DEF Spec, ImplementsChannel, Channel!Spec, queues

=============================================================================
