--------------------------- MODULE MCQuiesceHooks ---------------------------
(* Instances of QuiesceHooks for TLC: two hooks, two runs.                 *)
EXTENDS QuiesceHooks, TLC

CONSTANTS postgres, mysql

TwoHooks == {postgres, mysql}
NoHooks == {}
OneHook == {postgres}

HookSymmetry == Permutations(TwoHooks)
=============================================================================
