-------------------------------- MODULE Files --------------------------------
(***************************************************************************)
(* What the file system promises its callers: files with names, of a fixed *)
(* size, and open handles with a position that processes share after a     *)
(* fork.  Every call takes effect at once and leaves its result with its   *)
(* caller.                                                                 *)
(***************************************************************************)
EXTENDS Integers, Sequences

CONSTANTS
  Process, Handle, Nobody,
  Content,              \* sequence of files, each a sequence of bytes
  Asked, Written        \* lengths and positions asked for, bytes written

VARIABLES
  files,                \* what each file holds
  handle,               \* file, position and holders of each handle
  result                \* what the last step gave the process that made the call

Closed == [file |-> 0, pos |-> 0, holders |-> {}]
None == [call |-> "none", to |-> Nobody, ok |-> TRUE, n |-> 0, bytes |-> <<>>]
Ok(p, op, n, bytes) == [call |-> op, to |-> p, ok |-> TRUE, n |-> n, bytes |-> bytes]
Error(p, op, arg) == [call |-> op, to |-> p, ok |-> FALSE, n |-> arg, bytes |-> <<>>]

Init ==
  /\ files = Content
  /\ handle = [h \in Handle |-> Closed]
  /\ result = None

Holds(p, h) == p \in handle[h].holders
Min2(a, b) == IF a < b THEN a ELSE b

Open(p, f) ==
  /\ result' = Ok(p, "open", 0, <<>>)
  /\ \E h \in Handle : /\ handle[h] = Closed
                       /\ handle' = [handle EXCEPT ![h] = [file |-> f, pos |-> 0, holders |-> {p}]]
  /\ UNCHANGED files

(* Refused: no handle is left, or no file has the name. *)
OpenFails(p, f) ==
  /\ result' = Error(p, "open", f)
  /\ f \notin DOMAIN Content \/ \A h \in Handle : handle[h] # Closed
  /\ UNCHANGED <<files, handle>>

Close(p, h) ==
  LET left == handle[h].holders \ {p}
  IN  /\ result' = None
      /\ Holds(p, h)
      /\ handle' = [handle EXCEPT ![h] = IF left = {} THEN Closed ELSE [@ EXCEPT !.holders = left]]
      /\ UNCHANGED files

Fork(p, q) ==
  /\ result' = None
  /\ handle' = [h \in Handle |-> IF Holds(p, h) THEN [handle[h] EXCEPT !.holders = @ \cup {q}]
                                 ELSE handle[h]]
  /\ UNCHANGED files

(* As many bytes as are asked for and left, from the position on. *)
Read(p, h, n) ==
  LET file == files[handle[h].file]
      m == Min2(n, Len(file) - handle[h].pos)
  IN  /\ result'.call = "read" /\ Holds(p, h)
      /\ result' = Ok(p, "read", m, SubSeq(file, handle[h].pos + 1, handle[h].pos + m))
      /\ handle' = [handle EXCEPT ![h].pos = @ + m]
      /\ UNCHANGED files

(* As many bytes as there is room for: a write never extends the file. *)
Write(p, h, bytes) ==
  LET f == handle[h].file
      pos == handle[h].pos
      m == Min2(Len(bytes), Len(files[f]) - pos)
  IN  /\ result'.call = "write" /\ Holds(p, h)
      /\ result' = Ok(p, "write", m, <<>>)
      /\ files' = [files EXCEPT ![f] = [i \in 1..Len(@) |->
                     IF i \in (pos + 1)..(pos + m) THEN bytes[i - pos] ELSE @[i]]]
      /\ handle' = [handle EXCEPT ![h].pos = @ + m]

SetPos(p, h, pos) ==
  /\ result' = Ok(p, "setpos", 0, <<>>)
  /\ Holds(p, h) /\ pos \in 0..Len(files[handle[h].file])
  /\ handle' = [handle EXCEPT ![h].pos = pos]
  /\ UNCHANGED files

SetPosFails(p, h, pos) ==
  /\ result' = Error(p, "setpos", pos)
  /\ Holds(p, h) /\ pos > Len(files[handle[h].file])
  /\ UNCHANGED <<files, handle>>

(* The caller has its result. *)
Forget ==
  /\ result' = None
  /\ UNCHANGED <<files, handle>>

Next ==
  \/ Forget
  \/ \E p \in Process :
    \/ \E f \in DOMAIN Content : Open(p, f)
    \/ \E f \in 1..(Len(Content) + 1) : OpenFails(p, f)
    \/ \E q \in Process : Fork(p, q)
    \/ \E h \in Handle :
         \/ Close(p, h)
         \/ \E n \in Asked : Read(p, h, n) \/ SetPos(p, h, n) \/ SetPosFails(p, h, n)
         \/ \E w \in Written : Write(p, h, w)

Spec == Init /\ [][Next]_<<files, handle, result>>
=============================================================================
