------------------------------ MODULE Terminal ------------------------------
(***************************************************************************)
(* io_term of io.c: line endings are normalized on the way in and out of a *)
(* raw device, and ioterm_getsn edits a line.  The raw device is the       *)
(* serial port: a read gives at least one character and as many as have    *)
(* come in and are asked for, a write takes everything.                    *)
(*                                                                         *)
(* One client uses the terminal: it writes buffers, reads, or gets lines.  *)
(*                                                                         *)
(* An operator X_Y, defined before X, is X with the fault Y.               *)
(***************************************************************************)
EXTENDS Integers, SequencesExt

CONSTANTS
  CHARS,                \* bound: characters written, or typed
  BUF,                  \* bound: size of a buffer written or read
  LINE                  \* the n of ioterm_getsn

CR == "cr"
LF == "lf"
BS == "bs"
BEL == "bell"
BRACKET == "["          \* '\133', which the code calls escape
Typable == {CR, LF, BS, BRACKET, "a"}
Writable == {CR, LF, "a"}

VARIABLES
  client,               \* "writes", "reads", "lines" or "none"
  iot,                  \* cr_in and cr_out of the io_term
  given, raw,           \* characters written to the terminal, and to the device
  repeats,              \* iowrite has repeated a short write
  typed,                \* characters in the device
  seen, got,            \* characters taken from the device, and given to the reader
  len,                  \* what the pending ioterm_read asks for; 0: none is pending
  line                  \* buf (up to p) and n of the pending ioterm_getsn

tvars == <<client, iot, given, raw, repeats, typed, seen, got, len, line>>

-----------------------------------------------------------------------------
(* ioterm_write: from wp to rp the buffer is looked at and not written.    *)
(* What is left at the end is written in one piece.                        *)

emit(b, s, upto, chars) ==
  [s EXCEPT !.out = @ \o SubSeq(b, s.wp, upto) \o chars,
            !.acc = @ + upto - s.wp + 1, !.wp = upto + 1]

scan_lf_NotSkipped(b, s) == [emit(b, s, s.rp - 1, <<CR>>) EXCEPT !.cr_out = FALSE, !.rp = @ + 1]

scan_lf(b, s) ==
  IF s.cr_out THEN [s EXCEPT !.cr_out = FALSE, !.wp = @ + 1, !.rp = @ + 1]
  ELSE [emit(b, s, s.rp - 1, <<CR>>) EXCEPT !.cr_out = FALSE, !.rp = @ + 1]

scan_cr(b, s) ==
  IF s.rp < Len(b) /\ b[s.rp + 1] = LF
  THEN [s EXCEPT !.cr_out = FALSE, !.rp = @ + 2]
  ELSE [emit(b, s, s.rp, <<LF>>) EXCEPT !.cr_out = TRUE, !.rp = @ + 1]

scan(b, s) ==
  CASE b[s.rp] = CR -> scan_cr(b, s)
    [] b[s.rp] = LF -> scan_lf(b, s)
    [] OTHER        -> [s EXCEPT !.cr_out = FALSE, !.rp = @ + 1]

RECURSIVE scan_from(_, _)
scan_from(b, s) == IF s.rp > Len(b) THEN emit(b, s, Len(b), <<>>) ELSE scan_from(b, scan(b, s))

ioterm_write(b, cr_out) ==
  scan_from(b, [wp |-> 1, rp |-> 1, cr_out |-> cr_out, acc |-> 0, out |-> <<>>])

(* iowrite repeats a write that was short with what it takes for the rest; *)
(* a \n that was skipped is not counted as written.                        *)
RECURSIVE iowrite_from(_, _)
iowrite_from(b, t) ==
  LET s == ioterm_write(b, t.cr_out)
      u == [cr_out |-> s.cr_out, out |-> t.out \o s.out, again |-> t.again]
  IN  IF s.acc \in {0, Len(b)} THEN u
      ELSE iowrite_from(SubSeq(b, s.acc + 1, Len(b)), [u EXCEPT !.again = TRUE])

iowrite(b) ==
  LET t == iowrite_from(b, [cr_out |-> iot.cr_out, out |-> <<>>, again |-> repeats])
  IN  /\ client = "writes" /\ Len(given) + Len(b) <= CHARS
      /\ given' = given \o b
      /\ raw' = raw \o t.out
      /\ repeats' = t.again
      /\ iot' = [iot EXCEPT !.cr_out = t.cr_out]
      /\ UNCHANGED <<client, typed, seen, got, len, line>>

-----------------------------------------------------------------------------
(* ioterm_read: the characters read are fixed up in place. *)

fix_up(s, ch) ==
  CASE ch = CR             -> [cr_in |-> TRUE, out |-> Append(s.out, LF)]
    [] ch = LF /\ s.cr_in  -> [s EXCEPT !.cr_in = FALSE]
    [] OTHER               -> [cr_in |-> FALSE, out |-> Append(s.out, ch)]

Fixed(chars) == FoldLeft(LAMBDA s, ch : fix_up(s, ch), [cr_in |-> iot.cr_in, out |-> <<>>], chars)

(* cnt characters are taken from the device. *)
ioread(cnt) ==
  /\ cnt \in 1..Len(typed)
  /\ seen' = seen \o SubSeq(typed, 1, cnt)
  /\ typed' = SubSeq(typed, cnt + 1, Len(typed))

ioterm_read(n) ==
  /\ client = "reads" /\ len = 0
  /\ len' = n
  /\ UNCHANGED <<client, iot, given, raw, repeats, typed, seen, got, line>>

(* The loop reads again when nothing is left of what it has read. *)
ReadMore(cnt) ==
  LET s == Fixed(SubSeq(typed, 1, cnt))
  IN  /\ client = "reads" /\ cnt <= len
      /\ cnt = len \/ cnt = Len(typed)
      /\ ioread(cnt)
      /\ iot' = [iot EXCEPT !.cr_in = s.cr_in]
      /\ got' = got \o s.out
      /\ len' = IF s.out = <<>> THEN len ELSE 0
      /\ UNCHANGED <<client, given, raw, repeats, line>>

-----------------------------------------------------------------------------
(* ioterm_getsn: one normalized character after the other; what it echoes  *)
(* does not go through ioterm_write.  The next line is asked for at once.  *)

NoLine == [buf |-> <<>>, n |-> LINE]
Gets(l, echo) == line' = l /\ raw' = echo

take_char(c) ==
  IF line.n > 1 THEN Gets([buf |-> Append(line.buf, c), n |-> line.n - 1], Append(raw, c))
  ELSE Gets(line, Append(raw, BEL))

backspace_NoErase ==
  IF line.buf # <<>> THEN Gets([buf |-> Front(line.buf), n |-> line.n + 1], raw \o <<BS>>)
  ELSE Gets(line, Append(raw, BEL))

backspace ==
  IF line.buf # <<>> THEN Gets([buf |-> Front(line.buf), n |-> line.n + 1], raw \o <<BS, " ", BS>>)
  ELSE Gets(line, Append(raw, BEL))

ioterm_getsn ==
  LET s == Fixed(<<typed[1]>>)
  IN  /\ client = "lines"
      /\ ioread(1)
      /\ iot' = [iot EXCEPT !.cr_in = s.cr_in]
      /\ got' = got \o s.out
      /\ CASE s.out = <<>>            -> Gets(line, raw)
           [] s.out = <<BRACKET>>     -> Gets(line, raw)
           [] s.out = <<LF>>          -> Gets(NoLine, raw \o <<CR, LF>>)
           [] s.out = <<BS>>          -> backspace
           [] OTHER                   -> take_char(s.out[1])
      /\ UNCHANGED <<client, given, repeats, len>>

(* A key is pressed. *)
Type(ch) ==
  /\ client \in {"reads", "lines"} /\ Len(seen) + Len(typed) < CHARS
  /\ typed' = Append(typed, ch)
  /\ UNCHANGED <<client, iot, given, raw, repeats, seen, got, len, line>>

-----------------------------------------------------------------------------
ioterm_init ==
  /\ iot = [cr_in |-> FALSE, cr_out |-> FALSE]
  /\ given = <<>> /\ raw = <<>> /\ repeats = FALSE
  /\ typed = <<>> /\ seen = <<>> /\ got = <<>>
  /\ len = 0 /\ line = NoLine

TermInit == ioterm_init /\ client \in {"none", "writes", "reads", "lines"}

TermNext ==
  \/ \E ch \in Typable : Type(ch)
  \/ \E b \in SeqOf(Writable, BUF) : b # <<>> /\ iowrite(b)
  \/ \E n \in 1..BUF : ioterm_read(n) \/ ReadMore(n)
  \/ typed # <<>> /\ ioterm_getsn

-----------------------------------------------------------------------------
(* The lines of the screen that a sequence of characters leaves. *)
Print1(s, ch) ==
  CASE ch = BS  -> [s EXCEPT !.col = IF @ > 0 THEN @ - 1 ELSE 0]
    [] ch = LF  -> [col |-> 0, cells |-> <<>>]
    [] ch \in {CR, BEL} -> s
    [] OTHER    -> [col |-> s.col + 1,
                    cells |-> [i \in 1..(IF s.col < Len(s.cells) THEN Len(s.cells) ELSE s.col + 1) |->
                                 IF i = s.col + 1 THEN ch ELSE s.cells[i]]]

Shown(chars) == FoldLeft(LAMBDA s, ch : Print1(s, ch), [col |-> 0, cells |-> <<>>], chars)

(* Whether character i of s is the second half of a line ending. *)
EndsCrLf(s, i) == i > 1 /\ s[i] = LF /\ s[i - 1] = CR

(* However the client splits what it writes into buffers, the device gets  *)
(* what the comment in io.c promises: every \r, every \n and every \r\n    *)
(* comes out as one \r\n, and nothing else is changed.  (Once a buffer has  *)
(* begun with the \n of a \r\n and gone on, iowrite has repeated its end.)  *)
OutputNormalized ==
  client = "writes" /\ ~repeats =>
    raw = FlattenSeq([i \in 1..Len(given) |->
                        CASE EndsCrLf(given, i) -> <<>>
                          [] ~EndsCrLf(given, i) /\ given[i] \in {CR, LF} -> <<CR, LF>>
                          [] OTHER -> <<given[i]>>])

(* However the characters come in, and whatever the lengths of the reads,  *)
(* the reader gets one \n for every \r, \n and \r\n, and all the rest.     *)
InputNormalized ==
  got = FlattenSeq([i \in 1..Len(seen) |->
                      CASE EndsCrLf(seen, i) -> <<>>
                        [] ~EndsCrLf(seen, i) /\ seen[i] = CR -> <<LF>>
                        [] OTHER -> <<seen[i]>>])

(* Both directions agree on line endings. *)
LineEndings == OutputNormalized /\ InputNormalized

(* ioterm_getsn: what is echoed shows the line that will be returned, with *)
(* the cursor at its end, and the line with its final zero fits into n.    *)
EchoShowsLine ==
  client = "lines" =>
    LET s == Shown(raw)
    IN  /\ s.col = Len(line.buf)
        /\ \A i \in 1..Len(s.cells) : s.cells[i] = IF i <= s.col THEN line.buf[i] ELSE " "
        /\ Len(line.buf) + 1 <= LINE
=============================================================================
