---------------------------- MODULE MCDirectUpload ----------------------------
(* Instances of DirectUpload for TLC: which faults a run may meet. *)
EXTENDS DirectUpload

\* what goes wrong inside one run: collection, failed pulls, failed commits
LoopFaults == {"gc", "pull", "probe", "reject", "lost", "timeout", "revert", "unnamed"}

\* what a restart has to cope with
ResumeFaults == {"crash", "gc", "lost", "timeout", "revert", "event"}

CrashOnly == {"crash"}
CollectOnly == {"gc"}
=============================================================================
