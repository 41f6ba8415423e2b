---------------------------- MODULE MCSetupWizard ----------------------------
(***************************************************************************)
(* SetupWizard for TLC: two channels in one guild and one in another.      *)
(***************************************************************************)
EXTENDS SetupWizard, TLC

CONSTANTS c1, c2, c3, g1, g2, p1, p2

HomeOf == c1 :> g1 @@ c2 :> g1 @@ c3 :> g2

OverwritesOf == {[allow |-> {p1, p2}, deny |-> {}], [allow |-> {}, deny |-> {p1}]}

=============================================================================
