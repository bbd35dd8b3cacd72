--------------------------- MODULE FrontEndDaqMC ----------------------------
(* An instance of FrontEndDaq for TLC. *)
EXTENDS FrontEndDaq

\* No test points; a test point and an excitation; another test point, with
\* the excitation in another slot.
None == [tp |-> <<0, 0>>, exc |-> <<0, 0>>]
SomeSelections == {None,
                   [tp |-> <<5, 0>>, exc |-> <<1, 0>>],
                   [tp |-> <<6, 0>>, exc |-> <<0, 1>>]}
=============================================================================
