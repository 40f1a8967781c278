--------------------------- MODULE MCRunController ---------------------------
(* Instances of RunController: two devices of one platform, or of two.     *)
EXTENDS RunController, TLC

CONSTANTS d1, d2, android, ios

SamePlatform == (d1 :> android) @@ (d2 :> android)
TwoPlatforms == (d1 :> android) @@ (d2 :> ios)

(* Nothing tells one call of run() from another; used by invariants only.  *)
RunsAreAlike == Permutations(Runs)

=============================================================================
