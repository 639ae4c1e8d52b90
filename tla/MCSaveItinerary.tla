-------------------------- MODULE MCSaveItinerary --------------------------
(***************************************************************************)
(* The instance of SaveItinerary that TLC checks.  Editors, places and     *)
(* users are interchangeable; the symmetry is used for safety only.        *)
(***************************************************************************)
EXTENDS SaveItinerary, TLC

Symmetry == Permutations(Editors) \cup Permutations(Places)
              \cup Permutations(Users)

=============================================================================
