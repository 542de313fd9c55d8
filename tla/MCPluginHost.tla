---------------------------- MODULE MCPluginHost ----------------------------
(* Instances of module PluginHost for TLC.                                 *)
EXTENDS PluginHost

=============================================================================
