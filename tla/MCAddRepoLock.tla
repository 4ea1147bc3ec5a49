--------------------------- MODULE MCAddRepoLock ---------------------------
(***************************************************************************)
(* Small instances of AddRepoLock for TLC.                                 *)
(***************************************************************************)
EXTENDS AddRepoLock
============================================================================
