---------------------------- MODULE MCDsiRequests ----------------------------
(* Instances of DsiRequests for TLC. *)
EXTENDS DsiRequests

MCKinds == {"open", "close", "status", "tickle", "login", "lock", "write"}
=============================================================================
