----------------------------- MODULE FileStream -----------------------------
(***************************************************************************)
(* What FileServerRequestHandler promises of the body of one response: a    *)
(* prefix of the file, chunk after chunk, which is the whole file if the    *)
(* message is given its regular end.                                        *)
(***************************************************************************)
EXTENDS Integers, Sequences

CONSTANT Chunks   \* length of the file

VARIABLES
    sent,    \* the chunks sent so far
    state    \* "open", "whole" or "cut"

Init == sent = <<>> /\ state = "open"

Deliver ==
    /\ state = "open"
    /\ Len(sent) < Chunks
    /\ sent' = Append(sent, Len(sent) + 1)
    /\ UNCHANGED state

Finish == state = "open" /\ Len(sent) = Chunks /\ state' = "whole" /\ UNCHANGED sent

Cut == state = "open" /\ state' = "cut" /\ UNCHANGED sent

Next == Deliver \/ Finish \/ Cut

StreamSpec == Init /\ [][Next]_<<sent, state>>
=============================================================================
