---------------------------- MODULE MCMigratePlan ----------------------------
(***************************************************************************)
(* MigratePlan on a small instance: CIDs 2 and 3 are two strings for one   *)
(* CID; a gateway may answer for CID 1 with its CAR cut short.             *)
(***************************************************************************)
EXTENDS MigratePlan

MCCids == 1..3
MCContents == {"a", "b", "short"}
MCContent == <<"a", "b", "b">>
MCServes == <<{"a", "short"}, {"b"}, {"b"}>>
MCRaw == [x \in MCContents |-> CASE x = "a" -> 2 [] x = "b" -> 3 [] x = "short" -> 1]
MCBudgets == {2, 8}
MCTargets == {1, 5}
=============================================================================
