--------------------------- MODULE EndpointBudget ---------------------------
(***************************************************************************)
(* EndpointBudget of internal/platform/ratelimit.go: what one endpoint     *)
(* class may use.  One token comes back every Refill ticks, and tokens are *)
(* counted in units of 1/Refill, one unit a tick, so all is exact.         *)
(***************************************************************************)
EXTENDS Naturals

CONSTANTS
    Burst,   \* tokens of a full bucket
    Refill   \* Interval / Steady, ticks per token

\* Validate: both are positive.
ASSUME BudgetAssumption == Burst \in Nat \ {0} /\ Refill \in Nat \ {0}

Capacity == Burst * Refill
=============================================================================
