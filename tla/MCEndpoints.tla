----------------------------- MODULE MCEndpoints -----------------------------
(***************************************************************************)
(* Instances of Endpoints for TLC.                                          *)
(***************************************************************************)
EXTENDS Endpoints

CONSTANTS t1, t2, u1, u2

AllCalls == AllOps
NoAdd == {"post", "put", "delete", "get"}
NoCall == {}
Posts == {"post"}
PostsAndAdds == {"post", "add"}
=============================================================================
