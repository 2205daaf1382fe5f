---------------------------- MODULE MCRollout ------------------------------
(***************************************************************************)
(* Instance of Rollout: two operators, every script, clusters on the way   *)
(* between the states the promotions expect.                               *)
(***************************************************************************)
EXTENDS Rollout, TLC
CONSTANTS ann, bob

MCScripts == ScriptNames

Before == [gateway |-> {"recovery"}, stable38 |-> {"blue"}, muse |-> {"old"},
           aigatewayroute |-> {"q-direct", "q-pool", "m-direct-old"},
           httproute |-> {"m-native-old", "q-native"}, canary |-> {"pool"}, worker |-> {"running"},
           discovery |-> {}, candidate38 |-> {"old"}, manifest |-> {},
           backend38 |-> {}, backendflint |-> {}]
WithFlint == [Before EXCEPT !.gateway = {"green"}, !.stable38 = {"graph"},
                            !.aigatewayroute = @ \cup {"38_elsewhere"}, !.discovery = {"recovery"}]
WithoutDirect == [Before EXCEPT !.aigatewayroute = {"q-pool", "m-direct", "flint_elsewhere"},
                                !.muse = {"release"}, !.gateway = {"blue38"}]
Published38 == [Before EXCEPT !.gateway = {"blue38"}, !.backend38 = {"applied"},
                              !.aigatewayroute = {"q-direct", "38"}]

StartsDef ==
  {[value |-> v, up |-> Backends] : v \in {Before, WithFlint, WithoutDirect}}
    \cup {[value |-> Before, up |-> Backends \ {x}] : x \in {"q-frontend", "m-release"}}
    \cup {[value |-> Published38, up |-> Backends \ {"graph38"}]}
MCStarts == StartsDef
MCSymmetry == Permutations(Operators)
=============================================================================
