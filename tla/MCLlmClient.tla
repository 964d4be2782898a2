---------------------------- MODULE MCLlmClient ----------------------------
(***************************************************************************)
(* Instances of LlmClient for TLC: a single provider, two clouds with a     *)
(* local fallback, and plans with slots the request cannot be sent to.     *)
(***************************************************************************)
EXTENDS LlmClient

Cloud(origin) == [tier |-> 0, host |-> FALSE, origin |-> origin, fits |-> TRUE]
Local(origin) == [tier |-> 1, host |-> TRUE, origin |-> origin, fits |-> TRUE]

Unfit(slot)   == [slot EXCEPT !.fits = FALSE]

Single  == <<Cloud(1)>>
Misfit  == <<Unfit(Cloud(1))>>
Hybrid  == <<Cloud(1), Cloud(2), Local(3)>>
OneHost == <<Cloud(1), Unfit(Cloud(1)), Local(2)>>
NoLast  == <<Cloud(1), Unfit(Local(2))>>

AllPlans == {Single, Misfit, Hybrid, OneHost, NoLast}

=============================================================================
