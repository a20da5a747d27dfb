---------------------------- MODULE MCPublication ----------------------------
(***************************************************************************)
(* Small instances of Publication for TLC.                                 *)
(***************************************************************************)
EXTENDS Publication

\* One worker, two files that come out differently every time.
Alone ==
  [staff |-> {CHOOSE w \in Workers : TRUE}, files |-> 2, contents |-> Digests]

\* Every worker, one file that always comes out the same.
Together ==
  [staff |-> Workers, files |-> 1, contents |-> {CHOOSE d \in Digests : TRUE}]

AloneOrTogether == {Alone, Together}
=============================================================================
