---- MODULE MCRequestLifetime ----
(* Two requests, two runs and two callers of close(). *)
EXTENDS RequestLifetime
====
