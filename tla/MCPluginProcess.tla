-------------------------- MODULE MCPluginProcess --------------------------
(* PluginProcess with the values of its constants given in the cfg files.  *)
EXTENDS PluginProcess
=============================================================================
