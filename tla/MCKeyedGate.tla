---- MODULE MCKeyedGate ----
(* Two shared and two exclusive operations. *)
EXTENDS KeyedGate
====
