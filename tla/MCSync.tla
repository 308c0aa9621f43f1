-------------------------------- MODULE MCSync --------------------------------
(***************************************************************************)
(* Instances of ManifestSync for TLC, with one client and other requests.  *)
(***************************************************************************)
EXTENDS ManifestSync
================================================================================
