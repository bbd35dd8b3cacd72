---------------------------- MODULE TestPointsMC ----------------------------
(* An instance of TestPoints for TLC. *)
EXTENDS TestPoints, TLC

CONSTANTS c1, c2, pre

\* One interface with a slot more than there are test points.
Where == [t \in TPs |-> 0]
Lengths == (0 :> 4)

\* One test point, and two with a number between that is no test point.  When
\* the second list has expired and another client has kept 1, there is a hole
\* before the slot of 1.
SomeLists == {<<1>>, <<2, 7, 1>>}
Third == <<3>>
=============================================================================
