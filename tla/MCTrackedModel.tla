--------------------------- MODULE MCTrackedModel ---------------------------
(***************************************************************************)
(* Instances of TrackedModel for TLC.  Caps in units of 1024: a configured *)
(* cap of 12 halves to 6 and 3 and then meets the floor of 2; the endpoint *)
(* may take it, a step of the ladder, or nothing the ladder offers.        *)
(***************************************************************************)
EXTENDS TrackedModel

CONSTANTS plan, work

TwoPhases == {plan, work}
SomeCaps == {1, 2, 5, 8, 16}

=============================================================================
