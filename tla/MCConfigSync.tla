---------------------------- MODULE MCConfigSync ----------------------------
(* ConfigSync on a few configurations; contents are the numbers 1..N.       *)
EXTENDS ConfigSync
=============================================================================
