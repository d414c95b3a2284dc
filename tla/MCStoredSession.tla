--------------------------- MODULE MCStoredSession ---------------------------
(***************************************************************************)
(* Values for the constants of StoredSession.                              *)
(***************************************************************************)
EXTENDS StoredSession

NoFeatures == {}
=============================================================================
