------------------------------- MODULE MCTui -------------------------------
(* The text interface with seven plugins, one more than the least box of   *)
(* the Tools menu has lines for: one that reserves what the sniffer does,  *)
(* one that reserves the example of PLUGINS.md, and five without keys.     *)
EXTENDS Tui, TLC

SevenPlugins == <<<<"f", "a", "s">>, <<"t", "q">>, <<>>, <<>>, <<>>, <<>>, <<>>>>
NoneOrTwo    == {{}, {1, 2}}
TargetSymmetry == Permutations(Target)
=============================================================================
