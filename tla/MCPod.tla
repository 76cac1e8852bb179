-------------------------------- MODULE MCPod --------------------------------
(* Small instances of PodSupervisor for TLC. *)
EXTENDS PodSupervisor

\* A supervisor that never declares a crash loop, and ones that do at the first
\* and at the second restart; and one on a host where SIGKILL may come late.
MCSupervised ==
    [policy : {"Never", "OnFailure", "Always"}, max_restarts : {20}, prompt : {TRUE}]
      \cup [policy : {"OnFailure"}, max_restarts : {0, 1}, prompt : {TRUE}]
      \cup [policy : {"Never"}, max_restarts : {20}, prompt : {FALSE}]
=============================================================================
