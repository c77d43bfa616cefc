--------------------------- MODULE MCBrowserSubmit ---------------------------
(* Instances of BrowserSubmit for TLC: which faults a run may meet, and which
   records of the old shape it may start from. *)
EXTENDS BrowserSubmit

AllFaults == {"close", "storage", "margin", "source", "pull", "refuse", "answer",
              "timeout", "revert", "elsewhere"}
CloseOnly == {"close"}
OverlapFaults == {"close", "source", "elsewhere", "overlap"}

SubmittedRecords == {"submitted", "committed"}
=============================================================================
