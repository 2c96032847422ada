-------------------------- MODULE MCBrowserSession --------------------------
EXTENDS BrowserSession, TLC

Symmetry == Permutations(Pages) \cup Permutations(Users) \cup Permutations(Jobs)
=============================================================================
