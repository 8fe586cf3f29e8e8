------------------------------ MODULE MCVioblk ------------------------------
(* Vioblk on a disk of two blocks of two bytes. *)
EXTENDS Vioblk

(* Any callers with a sound device and interrupts on, which may come at    *)
(* every step and so at those a system call leaves; system calls with a    *)
(* device that may fail.                                                   *)
Settings ==
  {[SIE |-> {TRUE}, InRange |-> FALSE, MayFail |-> FALSE],
   [SIE |-> {FALSE}, InRange |-> TRUE, MayFail |-> TRUE]}

(* main.c: kfs mounts and opens with interrupts on. *)
Boot == {[SIE |-> {TRUE}, InRange |-> TRUE, MayFail |-> FALSE]}
=============================================================================
