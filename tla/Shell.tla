-------------------------------- MODULE Shell --------------------------------
(***************************************************************************)
(* The line editor of shell.c: every character read from the serial port   *)
(* edits the line, moves through the history or runs the line.             *)
(*                                                                         *)
(* A C string is an array of characters up to the first NUL; what is       *)
(* behind it stays in the array and may come back.  The screen is the      *)
(* current line of the terminal behind the prompt.  Of a command only      *)
(* matters whether it is exit; the output of the others ends the line.     *)
(* (What signal does to the shell itself is in Process.)                   *)
(*                                                                         *)
(* An operator X_Y, defined before X, is X with the fault Y.               *)
(***************************************************************************)
EXTENDS Integers, SequencesExt

CONSTANTS
  MAX_INPUT, MAX_HISTORY, MAX_ARGS,
  Letter,               \* the characters typed, other than the space
  ExitWord              \* the command exit, as a sequence of letters

NUL == "nul"
SPACE == "space"
ESC == "esc"
ENTER == "enter"
DEL == "del"
LEFT == "left"          \* the screen's cursor left or right; \b moves left too
RIGHT == "right"
HOME == "home"          \* "\r> ": the cursor goes behind the prompt

Index == 0..(MAX_INPUT - 1)
Char == Letter \cup {SPACE, ESC}

VARIABLES
  input, buf_size, cursor_pos,
  history, history_count, history_pos,
  esc,                  \* read after an escape: nothing, "esc", or "esc" and a character
  screen,               \* column, cells, and whether the terminal has shown no escape
  log,                  \* history: the lines entered, the last one first
  exited

svars == <<input, buf_size, cursor_pos, history, history_count, history_pos, esc, screen, log, exited>>
lvars == <<history, history_count, log, exited>>

-----------------------------------------------------------------------------
(* string.c on arrays. *)

Empty == [i \in Index |-> NUL]

strlen(s) == CHOOSE n \in 0..MAX_INPUT : /\ \A i \in 0..(n - 1) : s[i] # NUL
                                         /\ n = MAX_INPUT \/ s[n] = NUL

(* What is behind the terminating zero is left as it was. *)
strncpy(dst, src) ==
  [i \in Index |-> CASE i < strlen(src) -> src[i] [] i = strlen(src) -> NUL [] OTHER -> dst[i]]

memset(s, c, n) == [i \in Index |-> IF i < n THEN c ELSE s[i]]

String(s) == [i \in 1..strlen(s) |-> s[i - 1]]

-----------------------------------------------------------------------------
(* The terminal. *)

Blank == [col |-> 0, cells |-> [i \in Index |-> SPACE], plain |-> TRUE]

(* After a stray escape nothing is known of the screen until the line is   *)
(* printed again.                                                          *)
Garbled == [Blank EXCEPT !.plain = FALSE]

Show(s, c) ==
  CASE c = HOME                  -> [s EXCEPT !.col = 0, !.plain = TRUE]
    [] c # HOME /\ ~s.plain      -> s
    [] c = ESC /\ s.plain        -> Garbled
    [] c = LEFT /\ s.plain       -> [s EXCEPT !.col = @ - 1]
    [] c = RIGHT /\ s.plain      -> [s EXCEPT !.col = @ + 1]
    [] OTHER                     -> [s EXCEPT !.col = @ + 1, !.cells[s.col] = c]

_write(chars) == screen' = FoldLeft(LAMBDA s, c : Show(s, c), screen, chars)

Repeat(c, n) == [i \in 1..n |-> c]
Slice(s, from, n) == [i \in 1..n |-> s[from + i - 1]]

-----------------------------------------------------------------------------
(* A character is inserted at the cursor, and the rest of the line printed *)
(* again behind it; a full line ignores it.                                *)
put(c) ==
  /\ input' = [i \in Index |-> CASE i = cursor_pos -> c
                                 [] i > cursor_pos /\ i <= buf_size -> input[i - 1]
                                 [] OTHER -> input[i]]
  /\ buf_size' = buf_size + 1
  /\ cursor_pos' = cursor_pos + 1

insert_NoReturn(c) ==
  IF buf_size >= MAX_INPUT - 1 THEN UNCHANGED <<input, buf_size, cursor_pos, screen>>
  ELSE put(c) /\ _write(<<c>> \o Slice(input', cursor_pos', buf_size' - cursor_pos'))

insert(c) ==
  IF buf_size >= MAX_INPUT - 1 THEN UNCHANGED <<input, buf_size, cursor_pos, screen>>
  ELSE put(c) /\ _write(<<c>> \o Slice(input', cursor_pos', buf_size' - cursor_pos')
                          \o Repeat(LEFT, buf_size' - cursor_pos'))

handle_backspace_char ==
  IF cursor_pos = 0 \/ buf_size = 0 THEN UNCHANGED <<input, buf_size, cursor_pos, screen>>
  ELSE /\ cursor_pos' = cursor_pos - 1
       /\ buf_size' = buf_size - 1
       /\ input' = [i \in Index |-> IF i \in cursor_pos'..buf_size' THEN input[i + 1] ELSE input[i]]
       /\ _write(<<LEFT>> \o Slice(input', cursor_pos', buf_size' - cursor_pos')
                   \o <<SPACE>> \o Repeat(LEFT, buf_size' + 1 - cursor_pos'))

-----------------------------------------------------------------------------
(* Behind the newest line the down key shows an empty one; buf_size is set *)
(* before it is used to clear the array.                                   *)
clear_line ==
  /\ history_pos' = -1
  /\ buf_size' = 0
  /\ cursor_pos' = 0
  /\ input' = memset(input, NUL, buf_size')
  /\ _write(<<HOME>> \o Repeat(SPACE, MAX_INPUT) \o Repeat(LEFT, MAX_INPUT))

show_history(pos) ==
  /\ history_pos' = pos
  /\ input' = strncpy(input, history[pos])
  /\ buf_size' = strlen(input')
  /\ cursor_pos' = buf_size'
  /\ _write(<<HOME>> \o Slice(input', 0, buf_size') \o Repeat(SPACE, MAX_INPUT - buf_size')
              \o Repeat(LEFT, MAX_INPUT - buf_size'))

Stay == UNCHANGED <<input, buf_size, cursor_pos, history_pos, screen>>

fetch_history(direction) ==
  CASE direction = 1 /\ history_pos = history_count - 1  -> Stay
    [] direction = 1 /\ history_pos # history_count - 1  -> show_history(history_pos + 1)
    [] direction = -1 /\ history_pos = 0                 -> clear_line
    [] direction = -1 /\ history_pos = -1                -> Stay
    [] OTHER                                             -> show_history(history_pos - 1)

Move(by, key) ==
  /\ cursor_pos' = cursor_pos + by
  /\ _write(<<key>>)
  /\ UNCHANGED <<input, buf_size, history_pos>>

handle_arrow_keys(c) ==
  CASE c = "D" /\ cursor_pos > 0         -> Move(-1, LEFT)
    [] c = "C" /\ cursor_pos < buf_size  -> Move(1, RIGHT)
    [] c = "B"                           -> fetch_history(-1)
    [] c = "A"                           -> fetch_history(1)
    [] OTHER                             -> Stay

-----------------------------------------------------------------------------
(* The words between the spaces of a string, at most MAX_ARGS; the loop    *)
(* stops where the last of these begins, so that one takes the rest.       *)
tokenize_input(s) ==
  LET starts == {i \in 1..Len(s) : s[i] # SPACE /\ (i = 1 \/ s[i - 1] = SPACE)}
      first(k) == CHOOSE i \in starts : Cardinality({j \in starts : j < i}) = k - 1
      last(i) == CHOOSE j \in i..Len(s) : /\ \A m \in i..j : s[m] # SPACE
                                          /\ j = Len(s) \/ s[j + 1] = SPACE
      argc == IF Cardinality(starts) < MAX_ARGS THEN Cardinality(starts) ELSE MAX_ARGS
  IN  [k \in 1..argc |-> SubSeq(s, first(k), IF k = MAX_ARGS THEN Len(s) ELSE last(first(k)))]

execute_command(argv) == exited' = (argv # <<>> /\ argv[1] = ExitWord)

save_to_history_Moved ==
  IF buf_size = 0 THEN UNCHANGED <<history, history_count>>
  ELSE /\ history' = [i \in DOMAIN history |-> IF i > 0 THEN strncpy(Empty, history[i - 1])
                                               ELSE strncpy(history[0], input)]
       /\ history_count' = IF history_count < MAX_HISTORY THEN history_count + 1 ELSE history_count

save_to_history ==
  IF buf_size = 0 THEN UNCHANGED <<history, history_count>>
  ELSE /\ history' = [i \in DOMAIN history |->
                        IF i > 0 THEN strncpy(Empty, history[i - 1])
                        ELSE [strncpy(history[0], input) EXCEPT ![buf_size] = NUL]]
       /\ history_count' = IF history_count < MAX_HISTORY THEN history_count + 1 ELSE history_count

Line == Slice(input, 0, buf_size)

(* The prompt is printed on a new line. *)
handle_new_line ==
  /\ save_to_history
  /\ log' = IF buf_size = 0 THEN log
            ELSE SubSeq(<<Line>> \o log, 1, IF Len(log) < MAX_HISTORY THEN Len(log) + 1 ELSE MAX_HISTORY)
  /\ screen' = Blank

Enter ==
  /\ execute_command(tokenize_input(String(input)))
  /\ handle_new_line
  /\ history_pos' = -1 /\ buf_size' = 0 /\ cursor_pos' = 0
  /\ input' = Empty

-----------------------------------------------------------------------------
(* One character is read. *)

ReadEscape(c) ==
  /\ esc' = Append(esc, c)
  /\ UNCHANGED <<input, buf_size, cursor_pos, history_pos, screen, lvars>>

(* The third character of an escape sequence.  If the second was not a     *)
(* bracket, both are lost and the escape goes into the line.               *)
EndEscape(c) ==
  /\ esc' = <<>>
  /\ IF esc[2] = "[" THEN handle_arrow_keys(c) ELSE insert(ESC) /\ UNCHANGED history_pos
  /\ UNCHANGED lvars

Edit(c) ==
  /\ IF c = DEL THEN handle_backspace_char ELSE insert(c)
  /\ UNCHANGED <<esc, history_pos, lvars>>

main(c) ==
  /\ ~exited
  /\ CASE Len(esc) = 2 -> EndEscape(c)
       [] Len(esc) = 1 \/ (esc = <<>> /\ c = ESC) -> ReadEscape(c)
       [] esc = <<>> /\ c = ENTER -> Enter /\ UNCHANGED esc
       [] OTHER -> Edit(c)

(* Bound: a stray escape is typed when no line at hand has one. *)
Unescaped == \A s \in {Line} \cup ToSet(log) : ESC \notin ToSet(s)

(* A key is one character, or the three of an arrow key. *)
Typed ==
  CASE esc = <<>>        -> Letter \cup {SPACE, ESC, ENTER, DEL}
    [] Len(esc) = 1      -> {"["} \cup (IF Unescaped THEN Letter ELSE {})
    [] OTHER             -> IF esc[2] = "[" THEN {"A", "B", "C", "D"} ELSE Letter

ShellInit ==
  /\ input = Empty /\ buf_size = 0 /\ cursor_pos = 0
  /\ history = [i \in 0..(MAX_HISTORY - 1) |-> Empty]
  /\ history_count = 0 /\ history_pos = -1
  /\ esc = <<>> /\ screen = Blank /\ log = <<>> /\ exited = FALSE

ShellNext == \E c \in Typed : main(c)

-----------------------------------------------------------------------------
(* The screen shows the characters of the line and the cursor stands where *)
(* the next one goes, after every key, with the line never filling the     *)
(* array (until a stray escape character is sent to the terminal).         *)
ScreenShowsLine ==
  /\ 0 <= cursor_pos /\ cursor_pos <= buf_size /\ buf_size < MAX_INPUT
  /\ screen.plain => /\ screen.col = cursor_pos
                     /\ \A i \in Index : screen.cells[i] = IF i < buf_size THEN input[i] ELSE SPACE

(* The history holds the last lines entered, newest first, as they were on *)
(* the screen, whatever was left in the array behind them.                 *)
HistoryIsLog ==
  /\ history_count = Len(log)
  /\ \A i \in 1..Len(log) : String(history[i - 1]) = log[i]
  /\ history_pos \in -1..(history_count - 1)
=============================================================================
