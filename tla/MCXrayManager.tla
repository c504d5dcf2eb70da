---------------------------- MODULE MCXrayManager ----------------------------
(* Model-checking instances of XrayManager.                                 *)
EXTENDS XrayManager
=============================================================================
