-------------------------- MODULE MCThreadRuntime --------------------------
(* Model checking of ThreadRuntime on small sets of requests.              *)
EXTENDS ThreadRuntime

(* An agent route and a plain one.                                         *)
MCRoute == {"agent", "graph"}
MCAgentRoute == {"agent"}
=============================================================================
