----------------------------- MODULE MCAccounts -----------------------------
(***************************************************************************)
(* Instances of Accounts for TLC.                                           *)
(***************************************************************************)
EXTENDS Accounts

CONSTANTS n1, n2, p1, p2, c1, c2

\* two passwords for one user; the name n2 is nobody's
Bodies2 == {[name |-> n1, password |-> p1], [name |-> n1, password |-> p2]}

\* and a second user
Bodies3 == Bodies2 \cup {[name |-> n2, password |-> p1]}
=============================================================================
