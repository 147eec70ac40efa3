------------------------------- MODULE MCBoot -------------------------------
(***************************************************************************)
(* Instances of Boot for TLC.                                               *)
(***************************************************************************)
EXTENDS Boot

CONSTANT u1

\* the endpoints the constructor registers, a family of its own that is none, and a client's url
Named == {Standard[i] : i \in 1 .. Len(Standard)} \cup {"objects"} \cup Urls
TestEndpoint == {"test"}
=============================================================================
