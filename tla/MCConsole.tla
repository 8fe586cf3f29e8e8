------------------------------ MODULE MCConsole ------------------------------
(* One letter and the space; two letters are the command exit.             *)
EXTENDS Console

Letters == {"a"}
Exit == <<"a", "a">>
=============================================================================
