---- MODULE MCSandboxManager ----
(* Three turns, two reaper passes, a delete and a shutdown. *)
EXTENDS SandboxManager
====
