------------------------------- MODULE Console -------------------------------
(* A serial port has one owner (uart_open refuses a second one): the shell, *)
(* or a program that puts an io_term on it.                                *)
EXTENDS Shell, Terminal

VARIABLE owner          \* "shell" or "program"

Init ==
  /\ ShellInit /\ TermInit
  /\ owner \in {"shell", "program"}
  /\ owner = "shell" => client = "none"

Next ==
  \/ owner = "shell" /\ ShellNext /\ UNCHANGED <<tvars, owner>>
  \/ owner = "program" /\ TermNext /\ UNCHANGED <<svars, owner>>

Spec == Init /\ [][Next]_<<svars, tvars, owner>>
=============================================================================
