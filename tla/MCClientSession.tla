--------------------------- MODULE MCClientSession ---------------------------
(***************************************************************************)
(* Small instances of ClientSession.  RemovedIsShutOut is temporal: no     *)
(* symmetry is used.                                                       *)
(***************************************************************************)
EXTENDS ClientSession
=============================================================================
