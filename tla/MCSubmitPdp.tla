----------------------------- MODULE MCSubmitPdp -----------------------------
(* Instances of SubmitPdp for TLC: which faults a run may meet. *)
EXTENDS SubmitPdp

AllFaults == {"crash", "fee", "pull", "event", "root", "lost", "reject",
              "timeout", "revert"}

TimeoutOnly == {"timeout"}
RevertOnly == {"revert"}
=============================================================================
