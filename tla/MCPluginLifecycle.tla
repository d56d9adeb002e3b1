-------------------------- MODULE MCPluginLifecycle --------------------------
(***************************************************************************)
(* PluginLifecycle on small instances, for TLC: the bound on the trees is   *)
(* given by the configurations, and no definition is added.                *)
(***************************************************************************)
EXTENDS PluginLifecycle
==============================================================================
