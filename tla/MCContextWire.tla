---- MODULE MCContextWire ----
(***************************************************************************)
(* ContextWire for every context over the given strings and versions.      *)
(***************************************************************************)
EXTENDS ContextWire

CONSTANTS invoicesRead, invoicesWrite
====
