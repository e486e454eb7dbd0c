---- MODULE MCDockerSandbox ----
(* Two commands on the handles of two acquires, and a release. *)
EXTENDS DockerSandbox
====
