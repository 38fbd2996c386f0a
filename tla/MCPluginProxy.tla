---------------------------- MODULE MCPluginProxy -----------------------------
(* Instances of PluginProxy: three delayed tasks.                           *)
EXTENDS PluginProxy
=============================================================================
