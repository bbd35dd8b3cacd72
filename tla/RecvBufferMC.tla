---------------------------- MODULE RecvBufferMC ----------------------------
(* Instances of RecvBuffer for TLC. *)
EXTENDS RecvBuffer, TLC

CONSTANTS p1, p2, t1, t2

\* One model per publisher, and a header without a model.
OneEach == (p1 :> <<5>>) @@ (p2 :> <<0, 6>>)

\* Two models and a header without one: three copies overfill an entry of five.
TwoAndNone == (p1 :> <<5, 0, 7>>)

ThreadSymmetry == Permutations(Threads)
=============================================================================
