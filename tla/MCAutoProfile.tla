---------------------------- MODULE MCAutoProfile ----------------------------
(* Rules like the tests': a pattern, a class of its own that matches it too, *)
(* a class listed with an asterisk as well, whose profile is refused, and    *)
(* nothing held otherwise.                                                  *)
EXTENDS AutoProfile

Exact(stem) == [stem |-> stem, star |-> FALSE]
Glob(stem)  == [stem |-> stem, star |-> TRUE]

MCRules ==
  [ default |-> None,
    classes |-> Glob(<<"steam_app_">>) :> "performance"
                  @@ Exact(<<"steam_app_", "570">>) :> "power-saver"
                  @@ Exact(<<"foot">>) :> "performance"
                  @@ Glob(<<"foot">>) :> "balanced" ]

MCClasses ==
  { << >>, <<"steam_app_", "570">>, <<"steam_app_", "2280">>, <<"foot">> }

MCHoldable == {"performance", "power-saver"}
=============================================================================
