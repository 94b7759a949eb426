-------------------------- MODULE MCPluginLifecycle --------------------------
(* A small instance of PluginLifecycle for TLC.                            *)
EXTENDS PluginLifecycle
=============================================================================
