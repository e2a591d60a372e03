---------------------------- MODULE MCNonceStream ----------------------------
(***************************************************************************)
(* A small instance of NonceStream for TLC: pages of a few letters and a   *)
(* marker of three stand for the rendered page and `<app-root`.            *)
(***************************************************************************)
EXTENDS NonceStream

MCNeedle == <<"<", "a", "r">>
=============================================================================
