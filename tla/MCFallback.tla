----------------------------- MODULE MCFallback -----------------------------
(* Two requests with opposite preferences, two candidates of which one has a *)
(* token bucket, and a standard backoff of two steps.                        *)
EXTENDS Fallback, TLC

CONSTANTS p, q, a, b

MCChain == [x \in Requests |-> IF x = p THEN <<a, b>> ELSE <<b, a>>]
MCBurst == (a :> 1) @@ (b :> 0)
MCStandard == <<1, 2>>
MCBilling == <<3>>

(* The backoff of the code, in minutes, satisfies what the model assumes of  *)
(* its tables, and has reached its ceiling at the fourth error.              *)
ASSUME /\ Backoff([n \in 1 .. 4 |-> StandardCooldown(n)], 1440)
       /\ Backoff([n \in 1 .. 4 |-> BillingCooldown(n)], 1440)
       /\ \A n \in 5 .. 20 : /\ StandardCooldown(n) = StandardCooldown(4)
                             /\ BillingCooldown(n) = BillingCooldown(4)
=============================================================================
