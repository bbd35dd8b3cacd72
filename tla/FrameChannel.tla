---------------------------- MODULE FrameChannel ----------------------------
(***************************************************************************)
(* What the frame broadcast of the daemon (daqd/framesend.hh,              *)
(* daqd/framerecv.hh) promises its user: the receiver gets frames the      *)
(* sender accepted, each one whole, starting anywhere and from there on    *)
(* without a gap, a repetition or a change of order.  Frames may fail to   *)
(* arrive only by the channel stopping for good.                           *)
(***************************************************************************)
EXTENDS Integers

CONSTANTS
    FirstFrame,     \* number of the first frame
    SeqMod,         \* 2^32, the modulus of the sequence numbers
    PktTotal(_),    \* packets of a frame
    NoFrame         \* nothing was received yet

VARIABLES
    accepted,       \* the next frame the sender accepts
    out             \* what the last receive returned

vars == <<accepted, out>>

\* Frame f as the receiver's user sees it: its sequence number, and for every
\* packet of it the frame the bytes are of.
Whole(f) == [sequence |-> f % SeqMod,
             data     |-> [i \in 0..(PktTotal(f) - 1) |-> f]]

Init == accepted = FirstFrame /\ out = NoFrame

Send == accepted' = accepted + 1 /\ UNCHANGED out

Deliver ==
    \E f \in FirstFrame..(accepted - 1) :
        /\ out # NoFrame => out = Whole(f - 1)
        /\ out' = Whole(f)
        /\ UNCHANGED accepted

Next == Send \/ Deliver

Spec == Init /\ [][Next]_vars
=============================================================================
