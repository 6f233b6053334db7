---------------------------- MODULE MCHostWindow ----------------------------
(* HostWindow with a configuration Lua controls and one that it does not.   *)
EXTENDS HostWindow
=============================================================================
