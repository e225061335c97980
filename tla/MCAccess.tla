------------------------------ MODULE MCAccess ------------------------------
(***************************************************************************)
(* An instance of Access for TLC: command lines that name one type, and all *)
(* of them.                                                                 *)
(***************************************************************************)
EXTENDS Access

CONSTANT p

Lines == [types : {{"read"}, {"all"}}, patterns : {{p}}]
=============================================================================
