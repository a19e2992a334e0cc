------------------------------- MODULE Budget -------------------------------
(***************************************************************************)
(* The token bucket that every request to MAM draws from                   *)
(* (core/mam/budget.rs), and a clock at which requests are made at any     *)
(* time.  The clock does not go back: an event stamped earlier than one    *)
(* handled before it restores no token.                                    *)
(***************************************************************************)
EXTENDS Integers

CONSTANTS
    Burst,     \* REQUEST_BURST
    Refill     \* REQUEST_REFILL

ASSUME BudgetAssumption == Burst \in Nat \ {0} /\ Refill \in Nat \ {0}

VARIABLES
    clock,     \* the monotonic clock
    budget,    \* the core's Budget
    paid       \* history: when the requests sent so far are all paid for, at
               \* one every Refill

budgetVars == <<clock, budget, paid>>

Never == -1   \* no restoring in progress

Budget == [tokens : 0..Burst, refilledAt : Nat \cup {Never}]

(* Budget::new.                                                            *)
NewBudget == [tokens |-> Burst, refilledAt |-> Never]

(* Mutant: a token is restored at the start of its interval.               *)
RefilledRounding(b, at) ==
    LET restored == (at - b.refilledAt + Refill - 1) \div Refill
    IN  IF b.refilledAt = Never THEN b
        ELSE IF b.tokens + restored >= Burst THEN NewBudget
        ELSE [tokens |-> b.tokens + restored,
              refilledAt |-> b.refilledAt + Refill * restored]

(* Budget::refilled.                                                       *)
Refilled(b, at) ==
    LET restored == (at - b.refilledAt) \div Refill
    IN  IF b.refilledAt = Never THEN b
        ELSE IF b.tokens + restored >= Burst THEN NewBudget
        ELSE [tokens |-> b.tokens + restored,
              refilledAt |-> b.refilledAt + Refill * restored]

(* Budget::take: whether there is a token, and the budget without it.      *)
CanTake(b, at) == Refilled(b, at).tokens > 0

Take(b, at) ==
    LET full == Refilled(b, at)
    IN  [tokens |-> full.tokens - 1,
         refilledAt |-> IF full.refilledAt = Never THEN at
                        ELSE full.refilledAt]

(* A request made at this time is paid for Refill after those before it.   *)
PaidAfter(at) == Refill + IF paid > at THEN paid ELSE at

-----------------------------------------------------------------------------
BudgetInit == clock = 0 /\ budget = NewBudget /\ paid = 0

Request ==
    /\ CanTake(budget, clock)
    /\ budget' = Take(budget, clock)
    /\ paid' = PaidAfter(clock)
    /\ UNCHANGED clock

Pass == clock' = clock + 1 /\ UNCHANGED <<budget, paid>>

BudgetNext == Request \/ Pass

BudgetSpec == BudgetInit /\ [][BudgetNext]_budgetVars

-----------------------------------------------------------------------------
(* The bucket holds between none and Burst tokens, and the clock and the   *)
(* last restoring are times.                                               *)
BudgetTypeOK ==
    /\ clock \in Nat
    /\ budget \in Budget
    /\ paid \in Nat

(* Requests are never more than Burst ahead of one every Refill: any span  *)
(* of time sees at most Burst requests and one more for every Refill in    *)
(* it (docs/mam-rules.md:58, "more than ten requests at once, or more than *)
(* one every three seconds after").                                        *)
RateBound == paid <= clock + Burst * Refill

=============================================================================
