---------------------------- MODULE SliceChannel ----------------------------
(***************************************************************************)
(* What the receiver of the publish/subscribe stream promises to the       *)
(* readers of its output: slices come out one at a time, each for a later  *)
(* cycle than all before it, and a slice holds headers of its own cycle    *)
(* only.  Which cycles come out, and how complete, is left open: messages  *)
(* may be late or lost.                                                    *)
(***************************************************************************)
EXTENDS Integers, Sequences

VARIABLE delivered  \* the slices handed on, [key, models, ...], oldest first

Init == delivered = <<>>

\* A slice no older than any other, whose headers carry its own key.
Acceptable(s) ==
    /\ \A i \in 1..Len(delivered) : delivered[i].key < s.key
    /\ \A j \in 1..Len(s.models) : s.models[j].key = s.key

Deliver ==
    /\ Len(delivered') = Len(delivered) + 1
    /\ LET s == delivered'[Len(delivered')] IN
        /\ Acceptable(s)
        /\ delivered' = Append(delivered, s)

Spec == Init /\ [][Deliver]_delivered
=============================================================================
