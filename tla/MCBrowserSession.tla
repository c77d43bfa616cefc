--------------------------- MODULE MCBrowserSession ---------------------------
(* Two accounts and two keys; a grant lasts two ticks, the margin is one.       *)
EXTENDS BrowserSession, TLC

Symmetry == Permutations(Scopes) \cup Permutations(Keys)
================================================================================
