---------------------------- MODULE MCMasterDemo ----------------------------
(* MasterDemo needs no more than numbers for its constants.                *)
EXTENDS MasterDemo
=============================================================================
