---------------------------- MODULE CircBufferMC ----------------------------
(* Instances of CircBuffer for TLC. *)
EXTENDS CircBuffer, TLC

CONSTANTS c1, c2

\* One block a second, the first one stamped 1.
EverySecond(n) == n + 1

\* A request for an absolute window and one for the last two seconds.
PlaybackRequests == {<<2, 2>>, <<2, 0>>}
NoRequests == {}

ClientSymmetry == Permutations({c1, c2})
=============================================================================
