-------------------------------- MODULE MCKfs --------------------------------
(* Two files; every byte tells where it is from.                           *)
EXTENDS Kfs, TLC

(* One and two blocks, neither filled to the end. *)
PartBlocks == << <<1>>, <<2, 3, 4>> >>
Bytes == {<<5, 6>>}

(* The first file fills its block; nothing is written. *)
FullBlock == << <<1, 2>>, <<3>> >>
NoBytes == {}

Processes == Permutations(Process)
=============================================================================
