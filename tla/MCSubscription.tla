---------------------------- MODULE MCSubscription ----------------------------
(* One organization, three plans of rising tier, a period of one tick. *)
EXTENDS Subscription, TLC

CONSTANTS Free, Basic, Pro

MCPlans  == {Free, Basic, Pro}
MCTier   == Free :> 0 @@ Basic :> 1 @@ Pro :> 2
MCPeriod == [p \in MCPlans |-> 1]

\* Two requests of the same kind are interchangeable.
HandlerSymmetry == Permutations(Handlers)
============================================================================
