----------------------------- MODULE MCLocalPage -----------------------------
(***************************************************************************)
(* An instance of LocalPage: a file with a request given twice, a row that *)
(* cannot be read and another request.                                     *)
(***************************************************************************)
EXTENDS LocalPage

CONSTANTS song, other

MCRows == <<song, Unreadable, song, other>>
=============================================================================
