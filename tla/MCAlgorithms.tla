---------------------------- MODULE MCAlgorithms ----------------------------
(***************************************************************************)
(* The parts that share no state with any other: a behaviour calls one      *)
(* function of Algorithms, or executes one test of Canaries, or is one of   *)
(* RateLimiter, so the three are checked side by side without a product.    *)
(***************************************************************************)
EXTENDS Algorithms, Canaries, RateLimiter

\* Families of 3 and 4 address bits.
MCWidth == 4 :> 3 @@ 6 :> 4

\* Two of the default thresholds, in their order.
MCThresholds == <<30, 7>>
MCExpiries == {-1, 10, 31}

\* One DNS value of each family.
MCValues == [family : Families]

MCInit == Init /\ CanaryInit /\ LimiterInit

MCNext ==
    \/ CanaryInit /\ LimiterInit /\ Next /\ UNCHANGED <<test, limiterVars>>
    \/ Init /\ LimiterInit /\ CanaryNext /\ UNCHANGED <<call, limiterVars>>
    \/ Init /\ CanaryInit /\ LimiterNext /\ UNCHANGED <<call, test>>

MCSpec == MCInit /\ [][MCNext]_<<call, test, limiterVars>>
=============================================================================
