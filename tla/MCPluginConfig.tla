--------------------------- MODULE MCPluginConfig ---------------------------
(* Two NSR processes and one nsr-plugged; a plugin in the user's directory *)
(* and again, with another one, in that of root; instances for TLC.        *)
EXTENDS PluginConfig, TLC

CONSTANTS h1, h2, t1, pa, pb

MCHosts == {h1, h2}
MCTools == {t1}
MCDirs  == <<{pa}, {pa, pb}>>

HostsAlike == Permutations(MCHosts)
=============================================================================
