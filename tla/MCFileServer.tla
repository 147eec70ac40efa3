---------------------------- MODULE MCFileServer ----------------------------
(***************************************************************************)
(* Instances of FileServer for TLC.                                         *)
(***************************************************************************)
EXTENDS FileServer, TLC

CONSTANTS w1, w2

EveryKind == AllKinds

WorkerSymmetry == Permutations(Workers)
=============================================================================
