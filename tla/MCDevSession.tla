----------------------------- MODULE MCDevSession -----------------------------
(* DevSession with children numbered from one.                               *)
EXTENDS DevSession
MCChild == 1..5
===============================================================================
