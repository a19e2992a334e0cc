-------------------------- MODULE MamSpacingProofs --------------------------
(***************************************************************************)
(* MAM's request rate, the spacing of lookups and registrations, and the   *)
(* saving of registrations, for every burst, spacing and precision of      *)
(* saved times, across any number of pauses, repairs and restarts.         *)
(*                                                                         *)
(* Every step of the core ends in DecideNow, so the invariant is of a      *)
(* core c, the save s in progress and the last registration r: an action   *)
(* keeps it for the core it hands to DecideNow, which keeps it.            *)
(***************************************************************************)
EXTENDS MamSpacing, TLAPS

-----------------------------------------------------------------------------
(* The token bucket alone, for every burst and refill interval.            *)

(* What is owed never exceeds the tokens missing from the bucket, counted  *)
(* from its last restoring.                                                *)
Covered ==
    IF budget.refilledAt = Never
    THEN budget.tokens = Burst /\ paid <= clock
    ELSE /\ budget.refilledAt <= clock
         /\ paid <= budget.refilledAt + (Burst - budget.tokens) * Refill

BudgetInv == BudgetTypeOK /\ Covered

(* Integer division rounds down.                                           *)
LEMMA Division ==
    ASSUME NEW d \in Nat, NEW r \in Nat \ {0}
    PROVE  /\ d \div r \in Nat
           /\ (d \div r) * r <= d
           /\ d < (d \div r) * r + r
  OBVIOUS

(* A product with a natural number is monotonic.                           *)
LEMMA Monotonic ==
    ASSUME NEW a \in Int, NEW b \in Int, NEW r \in Nat, a <= b
    PROVE  a * r <= b * r
  OBVIOUS

(* Restoring tokens keeps what is owed covered, and leaves no interval to  *)
(* restore.                                                                *)
LEMMA RefilledCovers ==
    ASSUME BudgetInv
    PROVE  LET b == Refilled(budget, clock)
           IN  /\ b \in Budget
               /\ IF b.refilledAt = Never
                  THEN b.tokens = Burst /\ paid <= clock
                  ELSE /\ b.tokens < Burst
                       /\ b.refilledAt <= clock
                       /\ clock < b.refilledAt + Refill
                       /\ paid <= b.refilledAt + (Burst - b.tokens) * Refill
<1>1. CASE budget.refilledAt = Never
  BY <1>1 DEF BudgetInv, BudgetTypeOK, Covered, Refilled
<1>2. CASE budget.refilledAt # Never
  <2> DEFINE at == budget.refilledAt
             t == budget.tokens
             k == (clock - at) \div Refill
  <2>1. /\ at \in Nat /\ t \in 0..Burst /\ clock \in Nat /\ paid \in Nat
        /\ at <= clock /\ paid <= at + (Burst - t) * Refill
        /\ Burst \in Nat \ {0} /\ Refill \in Nat \ {0}
    BY <1>2, BudgetAssumption
       DEF BudgetInv, BudgetTypeOK, Covered, Budget, Never
  <2>2. /\ k \in Nat
        /\ k * Refill <= clock - at
        /\ clock - at < k * Refill + Refill
    <3>1. clock - at \in Nat
      BY <2>1
    <3> HIDE DEF at
    <3> QED  BY <3>1, <2>1, Division
  <2>3. Refilled(budget, clock) =
          IF t + k >= Burst THEN NewBudget
          ELSE [tokens |-> t + k, refilledAt |-> at + Refill * k]
    BY <1>2 DEF Refilled
  <2> HIDE DEF at, t, k
  <2>4. CASE t + k >= Burst
    <3>1. (Burst - t) * Refill <= k * Refill
      BY <2>1, <2>2, <2>4, Monotonic
    <3>2. (Burst - t) * Refill \in Int /\ k * Refill \in Int
      BY <2>1, <2>2
    <3>3. paid <= clock
      BY <2>1, <2>2, <3>1, <3>2
    <3> QED  BY <2>1, <2>3, <2>4, <3>3 DEF NewBudget, Budget, Never
  <2>5. CASE t + k < Burst
    <3>1. Refilled(budget, clock) =
            [tokens |-> t + k, refilledAt |-> at + Refill * k]
      BY <2>1, <2>2, <2>3, <2>5
    <3>2. /\ t + k \in 0..Burst
          /\ Refill * k \in Nat
          /\ Refill * k = k * Refill
      BY <2>1, <2>2, <2>5
    <3>3. (Burst - t) * Refill = Refill * k + (Burst - (t + k)) * Refill
      BY <2>1, <2>2
    <3>4. /\ at + Refill * k <= clock
          /\ clock < at + Refill * k + Refill
      BY <2>1, <2>2, <3>2
    <3>5. (Burst - (t + k)) * Refill \in Int
      BY <2>1, <2>2
    <3>6. paid <= at + Refill * k + (Burst - (t + k)) * Refill
      BY <2>1, <3>2, <3>3, <3>5
    <3> QED  BY <2>1, <2>5, <3>1, <3>2, <3>4, <3>6 DEF Budget, Never
  <2> QED  BY <2>1, <2>2, <2>4, <2>5
<1> QED  BY <1>1, <1>2

(* A request that takes a token stays covered.                             *)
LEMMA RequestCovers ==
    ASSUME BudgetInv, Request
    PROVE  BudgetInv'
<1> DEFINE b == Refilled(budget, clock)
<1>1. /\ b \in Budget
      /\ IF b.refilledAt = Never
         THEN b.tokens = Burst /\ paid <= clock
         ELSE /\ b.tokens < Burst
              /\ b.refilledAt <= clock
              /\ clock < b.refilledAt + Refill
              /\ paid <= b.refilledAt + (Burst - b.tokens) * Refill
  BY RefilledCovers
<1>2. /\ b.tokens > 0
      /\ budget' = [tokens |-> b.tokens - 1,
                    refilledAt |-> IF b.refilledAt = Never THEN clock
                                   ELSE b.refilledAt]
      /\ paid' = Refill + IF paid > clock THEN paid ELSE clock
      /\ clock' = clock
  BY DEF Request, CanTake, Take, PaidAfter
<1>3. /\ clock \in Nat /\ paid \in Nat
      /\ Burst \in Nat \ {0} /\ Refill \in Nat \ {0}
  BY BudgetAssumption DEF BudgetInv, BudgetTypeOK
<1>4. /\ b.tokens \in 0..Burst /\ b.refilledAt \in Nat \cup {Never}
  BY <1>1 DEF Budget
<1> HIDE DEF b
<1>5. BudgetTypeOK'
  BY <1>2, <1>3, <1>4 DEF BudgetTypeOK, Budget, Never
<1>6. CASE b.refilledAt = Never
  <2>1. /\ budget'.tokens = Burst - 1 /\ budget'.refilledAt = clock
        /\ paid' = Refill + clock /\ clock' = clock
    BY <1>1, <1>2, <1>3, <1>6
  <2>2. (Burst - budget'.tokens) * Refill = Refill
    BY <2>1, <1>3
  <2> QED  BY <1>3, <1>5, <2>1, <2>2 DEF BudgetInv, Covered, Never
<1>7. CASE b.refilledAt # Never
  <2> DEFINE owed == (Burst - b.tokens) * Refill
  <2>1. /\ budget'.tokens = b.tokens - 1
        /\ budget'.refilledAt = b.refilledAt
        /\ b.refilledAt \in Nat
    BY <1>2, <1>4, <1>7
  <2>2. Refill <= owed
    <3>1. 1 <= Burst - b.tokens /\ Burst - b.tokens \in Int
      BY <1>1, <1>3, <1>4, <1>7
    <3>2. 1 * Refill <= (Burst - b.tokens) * Refill
      BY <1>3, <3>1, Monotonic
    <3> QED  BY <1>3, <3>2
  <2>3. (Burst - budget'.tokens) * Refill = owed + Refill
    BY <1>3, <1>4, <2>1
  <2>4. owed \in Int
    BY <1>3, <1>4
  <2>5. /\ paid <= b.refilledAt + owed
        /\ clock < b.refilledAt + Refill
        /\ b.refilledAt <= clock
    BY <1>1, <1>7
  <2> HIDE DEF owed
  <2>6. paid' <= b.refilledAt + (owed + Refill)
    BY <1>2, <1>3, <2>1, <2>2, <2>4, <2>5
  <2> QED  BY <1>2, <1>5, <1>7, <2>1, <2>3, <2>5, <2>6 DEF BudgetInv, Covered
<1> QED  BY <1>6, <1>7

(* Every state of the bucket is well-formed and covered: the inductive     *)
(* invariant behind the request rate.                                      *)
THEOREM BudgetCovered == BudgetSpec => []BudgetInv
<1>1. BudgetInit => BudgetInv
  BY BudgetAssumption
     DEF BudgetInit, BudgetInv, BudgetTypeOK, Covered, NewBudget, Budget, Never
<1>2. BudgetInv /\ [BudgetNext]_budgetVars => BudgetInv'
  <2> SUFFICES ASSUME BudgetInv, [BudgetNext]_budgetVars PROVE BudgetInv'
    OBVIOUS
  <2>1. CASE Request
    BY <2>1, RequestCovers
  <2>2. CASE Pass
    <3>1. /\ clock' = clock + 1 /\ budget' = budget /\ paid' = paid
          /\ clock \in Nat /\ paid \in Nat
      BY <2>2 DEF Pass, BudgetInv, BudgetTypeOK
    <3>2. BudgetTypeOK'
      BY <3>1 DEF BudgetInv, BudgetTypeOK
    <3>3. CASE budget.refilledAt = Never
      BY <3>1, <3>2, <3>3 DEF BudgetInv, Covered
    <3>4. CASE budget.refilledAt # Never
      <4>1. budget.refilledAt \in Nat
        BY <3>4 DEF BudgetInv, BudgetTypeOK, Budget
      <4> QED  BY <3>1, <3>2, <3>4, <4>1 DEF BudgetInv, Covered
    <3> QED  BY <3>3, <3>4
  <2>3. CASE UNCHANGED budgetVars
    BY <2>3 DEF budgetVars, BudgetInv, BudgetTypeOK, Covered
  <2> QED  BY <2>1, <2>2, <2>3 DEF BudgetNext
<1> QED  BY <1>1, <1>2, PTL DEF BudgetSpec

(* What is covered is at most a burst ahead.                               *)
LEMMA CoveredBound == BudgetInv => RateBound
<1> SUFFICES ASSUME BudgetInv PROVE RateBound
  OBVIOUS
<1>1. /\ clock \in Nat /\ paid \in Nat /\ budget.tokens \in 0..Burst
      /\ Burst \in Nat \ {0} /\ Refill \in Nat \ {0}
  BY BudgetAssumption DEF BudgetInv, BudgetTypeOK, Budget
<1>2. 0 <= Burst * Refill /\ Burst * Refill \in Int
  BY <1>1
<1>3. CASE budget.refilledAt = Never
  BY <1>1, <1>2, <1>3 DEF BudgetInv, Covered, RateBound
<1>4. CASE budget.refilledAt # Never
  <2>1. (Burst - budget.tokens) * Refill <= Burst * Refill
    BY <1>1, Monotonic
  <2>2. /\ budget.refilledAt \in Nat
        /\ (Burst - budget.tokens) * Refill \in Int
    BY <1>1, <1>4 DEF BudgetInv, BudgetTypeOK, Budget
  <2>3. /\ budget.refilledAt <= clock
        /\ paid <= budget.refilledAt + (Burst - budget.tokens) * Refill
    BY <1>4 DEF BudgetInv, Covered
  <2> QED  BY <1>1, <1>2, <2>1, <2>2, <2>3 DEF RateBound
<1> QED  BY <1>3, <1>4

(* The bucket lets through at most a burst ahead of one request every      *)
(* refill interval, for every burst and interval (Budget::take).           *)
THEOREM RequestRate == BudgetSpec => []RateBound
BY BudgetCovered, CoveredBound, PTL

-----------------------------------------------------------------------------
(* The bucket within the core that spaces its requests.                    *)

(* The bucket covers what is owed, or it is a restarted core's, which      *)
(* sends nothing until what is owed has been paid for.                     *)
Fresh(c) ==
    /\ budget = NewBudget
    /\ ~c.current
    /\ c.outstanding = "None"
    /\ paid <= (IF c.enabled THEN c.lastSent ELSE clock) + Burst * Refill

Rates(c) == Covered \/ Fresh(c)

(* A core that may send looks its address up no sooner than after the last *)
(* lookup of any run.                                                      *)
Lookups(c) ==
    /\ lookedUp <= clock
    /\ c.lastSent <= clock
    /\ c.gate => c.enabled
    /\ c.enabled => c.lastSent # NoTime /\ c.lastSent >= lookedUp

(* What the core and the database know of the last registration sent, and  *)
(* how the attempt being saved relates to it.                              *)
Registrations(c, s, r) ==
    /\ r <= clock
    /\ r # NoTime =>
          /\ attempted >= Saved(r)
          /\ c.lastAttempt # Unknown => c.lastAttempt >= Saved(r)
    /\ s # "None" =>
          /\ c.decided # NoTime /\ c.decided <= clock
          /\ r # NoTime => /\ r <= c.decided
                           /\ c.decided - r > RegistrationSpacing - Second
    /\ s = "Committed" => attempted = Saved(c.decided)

Typed(c, s, r) ==
    /\ clock \in Times /\ budget \in Budget /\ paid \in Nat
    /\ c \in Core
    /\ s \in {"None", "Running", "Committed", "Failed"}
    /\ s # "None" <=> c.outstanding = "Saving"
    /\ attempted \in SomeTime /\ lookedUp \in SomeTime
    /\ r \in SomeTime

Sound(c, s, r) ==
    /\ Typed(c, s, r)
    /\ Rates(c)
    /\ Lookups(c)
    /\ Registrations(c, s, r)

SpacingInv == Sound(core, save, registered)

(* What a step that sends a lookup keeps.                                  *)
LookupKept ==
    lookedUp' # lookedUp /\ lookedUp # NoTime
        => lookedUp' - lookedUp >= LookupSpacing

Kept == SpacingInv' /\ LookupKept

-----------------------------------------------------------------------------
(* A saved time is the second that the time lies in.                       *)
LEMMA SavedSecond ==
    ASSUME NEW at \in Nat
    PROVE  Saved(at) \in Nat /\ Saved(at) <= at /\ at < Saved(at) + Second
BY Division, MamSpacingAssumption DEF Saved

(* Saving keeps the order of times.                                        *)
LEMMA SavedMonotonic ==
    ASSUME NEW a \in Nat, NEW b \in Nat, a <= b
    PROVE  Saved(a) <= Saved(b)
<1> DEFINE i == a \div Second
           j == b \div Second
<1>0. Second \in Nat \ {0}
  BY MamSpacingAssumption
<1>1. /\ i \in Nat /\ i * Second <= a
      /\ j \in Nat /\ b < j * Second + Second
  BY <1>0, Division
<1> HIDE DEF i, j
<1>2. i <= j
  <2> SUFFICES ASSUME j + 1 <= i PROVE FALSE
    BY <1>1
  <2>1. (j + 1) * Second <= i * Second
    BY <1>0, <1>1, Monotonic
  <2>2. (j + 1) * Second = j * Second + Second
    BY <1>0, <1>1
  <2>3. i * Second \in Int /\ j * Second \in Int
    BY <1>0, <1>1
  <2> QED  BY <1>0, <1>1, <2>1, <2>2, <2>3
<1>3. i * Second <= j * Second
  BY <1>0, <1>1, <1>2, Monotonic
<1> QED  BY <1>3 DEF i, j, Saved

(* A decision that waits for the saved time of the one before it waits for *)
(* that one, less the precision of saved times.                            *)
LEMMA Apart ==
    ASSUME NEW at \in Nat, NEW last \in Int, NEW sent \in Nat,
           NEW kept \in Nat, NEW second \in Nat, NEW spacing \in Nat,
           last >= kept, sent < kept + second, last + spacing <= at
    PROVE  at - sent > spacing - second
OBVIOUS

(* A core that sends does so with everything owed covered: a restarted     *)
(* core's first request is a lookup, LookupSpacing after it was enabled    *)
(* (Mam::decide, Network::due).                                            *)
LEMMA SenderCovered ==
    ASSUME NEW c, NEW s, NEW r, Typed(c, s, r), Rates(c), Lookups(c),
           NEW request \in SendableNow(c), request # "None"
    PROVE  Covered
<1>1. /\ c.gate /\ c.outstanding = "None" /\ CanTake(budget, clock)
      /\ request \in WantedNow(c)
  BY DEF SendableNow
<1>2. CASE Covered
  BY <1>2
<1>3. CASE Fresh(c)
  <2>1. LookupDue(c)
    BY <1>1, <1>3 DEF WantedNow, Fresh
  <2>2. /\ c.enabled /\ c.lastSent # NoTime
        /\ clock - c.lastSent >= LookupSpacing
    BY <1>1, <2>1 DEF Lookups, LookupDue
  <2>3. /\ clock \in Nat /\ paid \in Nat /\ c.lastSent \in Nat
        /\ LookupSpacing \in Nat /\ Burst * Refill \in Nat
        /\ LookupSpacing >= Burst * Refill
    BY <2>2, MamSpacingAssumption, BudgetAssumption
       DEF Typed, Core, SomeTime, Times
  <2>4. paid <= clock
    BY <1>3, <2>2, <2>3 DEF Fresh
  <2> QED  BY <1>3, <2>4 DEF Fresh, Covered, NewBudget, Never
<1> QED  BY <1>2, <1>3 DEF Rates
(* The end of a step keeps what the step has established (Mam::decide).    *)
LEMMA DecideSound ==
    ASSUME NEW c, NEW s, Sound(c, s, registered'), DecideNow(c, s),
           clock' = clock, attempted' = attempted
    PROVE  Kept
<1> DEFINE r == registered'
<1>t. Typed(c, s, r) /\ Rates(c) /\ Lookups(c) /\ Registrations(c, s, r)
  BY DEF Sound
<1>1. PICK request \in SendableNow(c) :
        /\ Spend(request)
        /\ core' = CASE request = "None" -> c
                     [] request = "LookUpIp" ->
                          [c EXCEPT !.outstanding = request, !.stale = FALSE,
                                    !.lastSent = clock]
                     [] request = "Saving" ->
                          [c EXCEPT !.outstanding = request, !.stale = FALSE,
                                    !.decided = clock]
                     [] OTHER ->
                          [c EXCEPT !.outstanding = request, !.stale = FALSE]
        /\ lookedUp' = IF request = "LookUpIp" THEN clock ELSE lookedUp
        /\ save' = IF request = "Saving" THEN "Running" ELSE s
  BY DEF DecideNow
<1>2. CASE request = "None"
  <2>1. /\ core' = c /\ save' = s /\ lookedUp' = lookedUp
        /\ budget' = budget /\ paid' = paid
    BY <1>1, <1>2 DEF Spend
  <2>3. Typed(core, save, registered)'
    BY <1>t, <2>1 DEF Typed
  <2>4. Rates(core)'
    BY <1>t, <2>1 DEF Rates, Fresh, Covered
  <2>5. Lookups(core)'
    BY <1>t, <2>1 DEF Lookups
  <2>6. Registrations(core, save, registered)'
    BY <1>t, <2>1 DEF Registrations
  <2> QED
    BY <2>1, <2>3, <2>4, <2>5, <2>6 DEF Kept, LookupKept, SpacingInv, Sound
<1>3. CASE request # "None"
  <2>1. /\ c.gate /\ c.outstanding = "None" /\ CanTake(budget, clock)
        /\ request \in WantedNow(c)
    BY <1>1, <1>3 DEF SendableNow
  <2>2. s = "None"
    BY <1>t, <2>1 DEF Typed
  <2>3. BudgetInv
    <3>1. Covered
      BY <1>t, <1>1, <1>3, SenderCovered
    <3> QED  BY <1>t, <3>1 DEF Typed, Times, BudgetInv, BudgetTypeOK
  <2>4. BudgetInv'
    <3>1. Request
      BY <1>1, <1>3, <2>1 DEF Request, Spend
    <3> QED  BY <2>3, <3>1, RequestCovers
  <2>5. /\ budget' \in Budget /\ paid' \in Nat /\ Rates(core)'
    BY <2>4 DEF BudgetInv, BudgetTypeOK, Rates
  <2>6. /\ clock \in Times /\ clock \in Nat /\ c \in Core
        /\ attempted \in SomeTime /\ lookedUp \in SomeTime /\ r \in SomeTime
    BY <1>t DEF Typed, Times
  <2>7. CASE request = "LookUpIp"
    <3>1. /\ core' = [c EXCEPT !.outstanding = "LookUpIp", !.stale = FALSE,
                               !.lastSent = clock]
          /\ lookedUp' = clock /\ save' = "None"
      BY <1>1, <2>2, <2>7
    <3>2. core' \in Core /\ core'.outstanding = "LookUpIp"
          /\ core'.lastSent = clock /\ core'.gate = c.gate
          /\ core'.enabled = c.enabled /\ core'.lastAttempt = c.lastAttempt
      BY <2>6, <3>1 DEF Core, SomeTime
    <3>3. Typed(core, save, registered)'
      BY <2>5, <2>6, <3>1, <3>2 DEF Typed, SomeTime
    <3>4. Lookups(core)'
      BY <1>t, <2>6, <3>1, <3>2 DEF Lookups, NoTime
    <3>5. Registrations(core, save, registered)'
      BY <1>t, <3>1, <3>2 DEF Registrations
    <3>6. LookupKept
      <4>1. LookupDue(c)
        BY <2>1, <2>7 DEF WantedNow
      <4>2. /\ c.lastSent # NoTime /\ c.lastSent >= lookedUp
            /\ clock - c.lastSent >= LookupSpacing
        BY <1>t, <2>1, <4>1 DEF Lookups, LookupDue
      <4>3. c.lastSent \in Nat /\ lookedUp \in Int /\ LookupSpacing \in Nat
        BY <2>6, <4>2, MamSpacingAssumption
           DEF Core, SomeTime, Times, NoTime
      <4> QED  BY <2>6, <3>1, <4>2, <4>3 DEF LookupKept
    <3> QED  BY <2>5, <3>3, <3>4, <3>5, <3>6 DEF Kept, SpacingInv, Sound
  <2>8. CASE request = "Saving"
    <3>1. /\ core' = [c EXCEPT !.outstanding = "Saving", !.stale = FALSE,
                               !.decided = clock]
          /\ lookedUp' = lookedUp /\ save' = "Running"
      BY <1>1, <2>8
    <3>2. core' \in Core /\ core'.outstanding = "Saving"
          /\ core'.lastSent = c.lastSent /\ core'.gate = c.gate
          /\ core'.enabled = c.enabled /\ core'.lastAttempt = c.lastAttempt
          /\ core'.decided = clock
      BY <2>6, <3>1 DEF Core, SomeTime
    <3>3. Typed(core, save, registered)'
      BY <2>5, <2>6, <3>1, <3>2 DEF Typed
    <3>4. Lookups(core)'
      BY <1>t, <3>1, <3>2 DEF Lookups
    <3>5. /\ c.lastAttempt # Unknown
          /\ c.lastAttempt = NoTime
               \/ c.lastAttempt + RegistrationSpacing <= clock
      BY <2>1, <2>8 DEF WantedNow, RegistrationAllowed
    <3>6. ASSUME r # NoTime
          PROVE  r <= clock /\ clock - r > RegistrationSpacing - Second
      <4>1. r \in Nat /\ r <= clock /\ c.lastAttempt >= Saved(r)
        BY <1>t, <2>6, <3>5, <3>6 DEF Registrations, SomeTime, Times
      <4>2. Saved(r) \in Nat /\ r < Saved(r) + Second
        BY <4>1, SavedSecond
      <4>3. c.lastAttempt \in Int /\ c.lastAttempt # NoTime
        BY <2>6, <4>1, <4>2 DEF Core, SomeTime, Times, NoTime, Unknown
      <4>4. Second \in Nat /\ RegistrationSpacing \in Nat
        BY MamSpacingAssumption
      <4>5. clock \in Nat /\ c.lastAttempt + RegistrationSpacing <= clock
        BY <2>6, <3>5, <4>3
      <4> QED  BY <4>1, <4>2, <4>3, <4>4, <4>5, Apart
    <3>7. Registrations(core, save, registered)'
      BY <1>t, <2>6, <3>1, <3>2, <3>6 DEF Registrations, NoTime
    <3> QED
      BY <2>5, <3>1, <3>3, <3>4, <3>7 DEF Kept, LookupKept, SpacingInv, Sound
  <2>9. CASE request = "Other"
    <3>1. /\ core' = [c EXCEPT !.outstanding = "Other", !.stale = FALSE]
          /\ lookedUp' = lookedUp /\ save' = "None"
      BY <1>1, <2>2, <2>9
    <3>2. core' \in Core /\ core'.outstanding = "Other"
          /\ core'.lastSent = c.lastSent /\ core'.gate = c.gate
          /\ core'.enabled = c.enabled /\ core'.lastAttempt = c.lastAttempt
      BY <2>6, <3>1 DEF Core
    <3>3. Typed(core, save, registered)'
      BY <2>5, <2>6, <3>1, <3>2 DEF Typed
    <3>4. Lookups(core)'
      BY <1>t, <3>1, <3>2 DEF Lookups
    <3>5. Registrations(core, save, registered)'
      BY <1>t, <3>1, <3>2 DEF Registrations
    <3> QED
      BY <2>5, <3>1, <3>3, <3>4, <3>5 DEF Kept, LookupKept, SpacingInv, Sound
  <2> QED  BY <1>3, <2>1, <2>7, <2>8, <2>9 DEF WantedNow
<1> QED  BY <1>2, <1>3

(* Facts that every step of the core starts from.                          *)
LEMMA StepsFrom ==
    ASSUME SpacingInv
    PROVE  /\ core \in Core /\ clock \in Nat /\ Typed(core, save, registered)
           /\ Rates(core) /\ Lookups(core)
           /\ Registrations(core, save, registered)
BY DEF SpacingInv, Sound, Typed, Times

(* A step that changes no field the invariant is about, except that it may *)
(* close the gate or lose the observation, is sound.                       *)
LEMMA LeavesSound ==
    ASSUME NEW c \in Core, SpacingInv,
           registered' = registered,
           c.enabled = core.enabled, c.lastSent = core.lastSent,
           c.gate => core.enabled,
           c.current => core.current,
           c.outstanding = core.outstanding,
           c.lastAttempt = core.lastAttempt, c.decided = core.decided
    PROVE  Sound(c, save, registered')
<1>t. /\ Typed(core, save, registered) /\ Rates(core) /\ Lookups(core)
      /\ Registrations(core, save, registered)
  BY StepsFrom
<1>1. Typed(c, save, registered')
  BY <1>t DEF Typed
<1>2. Rates(c)
  BY <1>t DEF Rates, Fresh
<1>3. Lookups(c)
  BY <1>t DEF Lookups
<1>4. Registrations(c, save, registered')
  BY <1>t DEF Registrations
<1> QED  BY <1>1, <1>2, <1>3, <1>4 DEF Sound

(* MamEvent::Enable: lookups wait as if one had just been sent.            *)
LEMMA EnableStep == SpacingInv /\ EnableMam => Kept
<1> SUFFICES ASSUME SpacingInv, EnableMam PROVE Kept
  OBVIOUS
<1> DEFINE c == [core EXCEPT !.enabled = TRUE, !.lastSent = clock]
<1>t. /\ core \in Core /\ clock \in Nat
      /\ Typed(core, save, registered) /\ Rates(core) /\ Lookups(core)
      /\ Registrations(core, save, registered)
  BY StepsFrom
<1>0. /\ ~core.enabled /\ clock' = clock /\ attempted' = attempted
      /\ registered' = registered /\ DecideNow(c, save)
  BY DEF EnableMam
<1>1. /\ c \in Core /\ c.enabled /\ c.lastSent = clock
      /\ c.gate = core.gate /\ c.current = core.current
      /\ c.outstanding = core.outstanding
      /\ c.lastAttempt = core.lastAttempt /\ c.decided = core.decided
  BY <1>t DEF Typed, Core, SomeTime
<1> HIDE DEF c
<1>2. Typed(c, save, registered')
  BY <1>t, <1>0, <1>1 DEF Typed
<1>3. Rates(c)
  BY <1>t, <1>0, <1>1 DEF Rates, Fresh
<1>4. Lookups(c)
  BY <1>t, <1>0, <1>1 DEF Lookups, NoTime
<1>5. Registrations(c, save, registered')
  BY <1>t, <1>0, <1>1 DEF Registrations
<1> QED  BY <1>0, <1>2, <1>3, <1>4, <1>5, DecideSound DEF Sound

(* MamEvent::StateRead: the saved attempt is no earlier than the last one  *)
(* sent.                                                                   *)
LEMMA StateReadStep == SpacingInv /\ StateRead => Kept
<1> SUFFICES ASSUME SpacingInv, StateRead PROVE Kept
  OBVIOUS
<1> DEFINE c == [core EXCEPT !.lastAttempt = attempted]
<1>t. /\ core \in Core /\ clock \in Nat
      /\ Typed(core, save, registered) /\ Rates(core) /\ Lookups(core)
      /\ Registrations(core, save, registered)
  BY StepsFrom
<1>0. /\ clock' = clock /\ attempted' = attempted
      /\ registered' = registered /\ DecideNow(c, save)
  BY DEF StateRead
<1>1. /\ c \in Core /\ c.enabled = core.enabled /\ c.lastSent = core.lastSent
      /\ c.gate = core.gate /\ c.current = core.current
      /\ c.outstanding = core.outstanding
      /\ c.lastAttempt = attempted /\ c.decided = core.decided
  BY <1>t DEF Typed, Core
<1> HIDE DEF c
<1>2. Typed(c, save, registered')
  BY <1>t, <1>0, <1>1 DEF Typed
<1>3. Rates(c)
  BY <1>t, <1>1 DEF Rates, Fresh
<1>4. Lookups(c)
  BY <1>t, <1>1 DEF Lookups
<1>5. Registrations(c, save, registered')
  BY <1>t, <1>0, <1>1 DEF Registrations
<1> QED  BY <1>0, <1>2, <1>3, <1>4, <1>5, DecideSound DEF Sound

(* Pauses, repairs, a new cookie and other events (Mam::follow_gate,       *)
(* Mam::follow_connectability, Mam::follow_cookie).                        *)
LEMMA GateStep ==
    SpacingInv /\ (CloseGate \/ OpenGate \/ RepairReach \/ NewCookie \/ OtherStep)
        => Kept
<1> SUFFICES ASSUME SpacingInv,
                    CloseGate \/ OpenGate \/ RepairReach \/ NewCookie \/ OtherStep
             PROVE  Kept
  OBVIOUS
<1>t. core \in Core /\ Lookups(core)
  BY StepsFrom
<1>0. clock' = clock /\ attempted' = attempted /\ registered' = registered
  BY DEF CloseGate, OpenGate, RepairReach, NewCookie, OtherStep
<1>1. CASE CloseGate
  <2> DEFINE c == Disconnected(core)
  <2>1. /\ c \in Core /\ c.enabled = core.enabled
        /\ c.lastSent = core.lastSent /\ ~c.gate /\ ~c.current
        /\ c.outstanding = core.outstanding
        /\ c.lastAttempt = core.lastAttempt /\ c.decided = core.decided
    BY <1>t DEF Disconnected, Unconfirm, Core
  <2>2. DecideNow(c, save)
    BY <1>1 DEF CloseGate
  <2> HIDE DEF c
  <2>3. Sound(c, save, registered')
    BY <1>0, <2>1, LeavesSound
  <2> QED  BY <1>0, <2>2, <2>3, DecideSound
<1>2. CASE OpenGate
  <2> DEFINE c == [core EXCEPT !.gate = TRUE]
  <2>1. /\ c \in Core /\ c.enabled = core.enabled
        /\ c.lastSent = core.lastSent /\ c.current = core.current
        /\ c.outstanding = core.outstanding
        /\ c.lastAttempt = core.lastAttempt /\ c.decided = core.decided
    BY <1>t DEF Core
  <2>2. DecideNow(c, save) /\ core.enabled
    BY <1>2 DEF OpenGate
  <2> HIDE DEF c
  <2>3. Sound(c, save, registered')
    BY <1>0, <2>1, <2>2, LeavesSound
  <2> QED  BY <1>0, <2>2, <2>3, DecideSound
<1>3. CASE RepairReach
  <2> DEFINE c == [Unconfirm(core) EXCEPT !.seedbox = "Unconfirmed"]
  <2>1. /\ c \in Core /\ c.enabled = core.enabled
        /\ c.lastSent = core.lastSent /\ c.gate = core.gate /\ ~c.current
        /\ c.outstanding = core.outstanding
        /\ c.lastAttempt = core.lastAttempt /\ c.decided = core.decided
    BY <1>t DEF Unconfirm, Core
  <2>2. DecideNow(c, save)
    BY <1>3 DEF RepairReach
  <2> HIDE DEF c
  <2>3. Sound(c, save, registered')
    BY <1>t, <1>0, <2>1, LeavesSound DEF Lookups
  <2> QED  BY <1>0, <2>2, <2>3, DecideSound
<1>4. CASE NewCookie
  <2> DEFINE c == [core EXCEPT !.seedbox = "Unconfirmed", !.stale = TRUE]
  <2>1. /\ c \in Core /\ c.enabled = core.enabled
        /\ c.lastSent = core.lastSent /\ c.gate = core.gate
        /\ c.current = core.current /\ c.outstanding = core.outstanding
        /\ c.lastAttempt = core.lastAttempt /\ c.decided = core.decided
    BY <1>t DEF Core
  <2>2. DecideNow(c, save)
    BY <1>4 DEF NewCookie
  <2> HIDE DEF c
  <2>3. Sound(c, save, registered')
    BY <1>t, <1>0, <2>1, LeavesSound DEF Lookups
  <2> QED  BY <1>0, <2>2, <2>3, DecideSound
<1>5. CASE OtherStep
  <2>1. Sound(core, save, registered') /\ DecideNow(core, save)
    BY <1>0, <1>5 DEF OtherStep, SpacingInv
  <2> QED  BY <1>0, <2>1, DecideSound
<1> QED  BY <1>1, <1>2, <1>3, <1>4, <1>5

(* The save of an attempt, which is no earlier than the last one sent      *)
(* (save_mam_time in shell/storage.rs).                                    *)
LEMMA SaveAttemptStep == SpacingInv /\ SaveTime => Kept
<1> SUFFICES ASSUME SpacingInv, SaveTime PROVE Kept
  OBVIOUS
<1>t. /\ core \in Core /\ clock \in Nat
      /\ Typed(core, save, registered) /\ Rates(core) /\ Lookups(core)
      /\ Registrations(core, save, registered)
  BY StepsFrom
<1>0. /\ save = "Running" /\ clock' = clock /\ core' = core
      /\ budget' = budget /\ paid' = paid
      /\ lookedUp' = lookedUp /\ registered' = registered
      /\ \/ save' = "Committed" /\ attempted' = Saved(core.decided)
         \/ save' = "Failed" /\ attempted' = attempted
  BY DEF SaveTime, coreVars, sentVars
<1>1. /\ core.decided \in Nat /\ core.decided <= clock
      /\ registered # NoTime => registered <= core.decided
  BY <1>t, <1>0 DEF Registrations, Core, SomeTime, Times
<1>2. Saved(core.decided) \in Times
  <2>1. Saved(core.decided) \in Nat /\ Saved(core.decided) <= core.decided
    BY <1>1, SavedSecond
  <2> QED  BY <1>t, <1>1, <2>1, MamSpacingAssumption DEF Typed, Times
<1>3. registered # NoTime => Saved(registered) <= Saved(core.decided)
  <2>1. registered # NoTime => registered \in Nat
    BY <1>t DEF Typed, SomeTime, Times
  <2> QED  BY <1>1, <2>1, SavedMonotonic
<1>4. Typed(core, save, registered)'
  BY <1>t, <1>0, <1>2 DEF Typed, SomeTime
<1>5. Rates(core)'
  BY <1>t, <1>0 DEF Rates, Fresh, Covered
<1>6. Lookups(core)'
  BY <1>t, <1>0 DEF Lookups
<1>7. Registrations(core, save, registered)'
  BY <1>t, <1>0, <1>3 DEF Registrations
<1> QED
  BY <1>0, <1>4, <1>5, <1>6, <1>7 DEF Kept, LookupKept, SpacingInv, Sound

(* RegistrationAttemptSaved and RegistrationAttemptSaveFailed: what is     *)
(* sent is on disk, and the core remembers it.                             *)
LEMMA HandleSaveStep == SpacingInv /\ HandleSave => Kept
<1> SUFFICES ASSUME SpacingInv, HandleSave PROVE Kept
  OBVIOUS
<1> DEFINE saved == save = "Committed"
           sent == saved /\ ~core.stale
           c == [core EXCEPT !.lastAttempt = IF saved THEN core.decided ELSE @,
                             !.seedbox = IF saved THEN @ ELSE "Unconfirmed",
                             !.outstanding = IF sent THEN "RegisterSeedbox"
                                             ELSE "None"]
<1>t. /\ core \in Core /\ clock \in Nat
      /\ Typed(core, save, registered) /\ Rates(core) /\ Lookups(core)
      /\ Registrations(core, save, registered)
  BY StepsFrom
<1>0. /\ save \in {"Committed", "Failed"}
      /\ clock' = clock /\ attempted' = attempted
      /\ registered' = IF sent THEN core.decided ELSE registered
      /\ DecideNow(c, "None")
  BY DEF HandleSave
<1>1. /\ c \in Core /\ c.enabled = core.enabled /\ c.lastSent = core.lastSent
      /\ c.gate = core.gate /\ c.outstanding # "Saving"
      /\ c.lastAttempt = IF saved THEN core.decided ELSE core.lastAttempt
  BY <1>t DEF Core
<1>2. /\ core.decided \in Nat /\ core.decided <= clock
      /\ core.decided \in SomeTime
      /\ registered # NoTime => registered <= core.decided
      /\ saved => attempted = Saved(core.decided)
  BY <1>t, <1>0 DEF Registrations, Core, SomeTime, Times
<1>3. Saved(core.decided) \in Nat /\ Saved(core.decided) <= core.decided
  BY <1>2, SavedSecond
<1>4. registered # NoTime =>
         /\ registered \in Nat /\ Saved(registered) \in Nat
         /\ Saved(registered) <= registered
  <2>1. registered # NoTime => registered \in Nat
    BY <1>t DEF Typed, SomeTime, Times
  <2> QED  BY <2>1, SavedSecond
<1> HIDE DEF c
<1>5. Typed(c, "None", registered')
  BY <1>t, <1>0, <1>1, <1>2 DEF Typed
<1>6. Rates(c)
  BY <1>t, <1>0 DEF Rates, Fresh, Typed
<1>7. Lookups(c)
  BY <1>t, <1>1 DEF Lookups
<1>8. Registrations(c, "None", registered')
  <2>1. CASE sent
    BY <1>0, <1>1, <1>2, <1>3, <2>1 DEF Registrations
  <2>2. CASE ~sent /\ saved
    BY <1>t, <1>0, <1>1, <1>2, <1>4, <2>2 DEF Registrations
  <2>3. CASE ~saved
    BY <1>t, <1>0, <1>1, <2>3 DEF Registrations
  <2> QED  BY <2>1, <2>2, <2>3
<1> QED  BY <1>0, <1>5, <1>6, <1>7, <1>8, DecideSound DEF Sound

(* A core that has learned something, with the schedules it had.           *)
Learns(c, told) ==
    /\ c \in Core /\ c.outstanding = told.outstanding
    /\ c.enabled = told.enabled /\ c.lastSent = told.lastSent
    /\ c.gate = told.gate /\ c.lastAttempt = told.lastAttempt
    /\ c.decided = told.decided

(* What a core learns from an answer is neither a schedule of lookups kept *)
(* across restarts nor an attempt to register.                             *)
LEMMA AnswersTyped ==
    ASSUME NEW told \in Core, NEW answer, NEW wait \in Nat, clock \in Nat
    PROVE  /\ Learns(LookupAnswered(told, answer, wait), told)
           /\ Learns(RegistrationAnswered(told, answer, wait), told)
           /\ Learns([told EXCEPT !.reading = @ \/ answer = "Ok"], told)
<1>1. /\ told.current \in BOOLEAN /\ told.reading \in BOOLEAN
      /\ told.notBefore \in Nat \cup {NoTime}
      /\ told.seedbox \in {"Unconfirmed", "Confirmed", "Refused"}
  BY DEF Core
<1> DEFINE a == LookupAnswered(told, answer, wait)
           b == RegistrationAnswered(told, answer, wait)
           o == [told EXCEPT !.reading = @ \/ answer = "Ok"]
<1>2. Learns(a, told)
  <2> DEFINE current == told.current \/ answer \in {"Ok", "Moved"}
             next == clock + Later(ObserveEvery, wait)
             seedbox == IF answer = "Moved" /\ told.seedbox = "Confirmed"
                        THEN "Unconfirmed" ELSE told.seedbox
  <2>1. current \in BOOLEAN
    OBVIOUS
  <2>2. next \in Nat
    BY MamSpacingAssumption DEF Later
  <2>3. seedbox \in {"Unconfirmed", "Confirmed", "Refused"}
    BY <1>1
  <2>4. a = [told EXCEPT !.current = current, !.nextLookup = next,
                         !.seedbox = seedbox]
    BY DEF LookupAnswered
  <2> HIDE DEF a, current, next, seedbox
  <2> QED  BY <2>1, <2>2, <2>3, <2>4 DEF Core, Learns
<1>3. Learns(b, told)
  <2> DEFINE seedbox == CASE answer = "Ok" -> "Confirmed"
                          [] answer = "NotAllowed" -> "Refused"
                          [] OTHER -> "Unconfirmed"
             notBefore == IF answer = "Ok" THEN NoTime
                          ELSE IF wait > 0 THEN clock + wait
                          ELSE told.notBefore
  <2>1. seedbox \in {"Unconfirmed", "Confirmed", "Refused"}
    OBVIOUS
  <2>2. notBefore \in Nat \cup {NoTime}
    BY <1>1
  <2>3. b = [told EXCEPT !.seedbox = seedbox, !.notBefore = notBefore]
    BY DEF RegistrationAnswered
  <2> HIDE DEF b, seedbox, notBefore
  <2> QED  BY <2>1, <2>2, <2>3 DEF Core, Learns
<1>4. Learns(o, told)
  <2> DEFINE reading == told.reading \/ answer = "Ok"
  <2>1. reading \in BOOLEAN /\ o = [told EXCEPT !.reading = reading]
    OBVIOUS
  <2> HIDE DEF o, reading
  <2> QED  BY <2>1 DEF Core, Learns
<1> QED  BY <1>2, <1>3, <1>4

(* MamEvent::Answered, whatever MAM answers and asks to wait.              *)
LEMMA HandleAnswerStep ==
    ASSUME NEW answer, NEW wait \in Nat, SpacingInv,
           HandleReply(answer, wait)
    PROVE  Kept
<1> DEFINE told == [core EXCEPT !.outstanding = "None"]
           c == IF core.stale THEN told
                ELSE CASE core.outstanding = "LookUpIp" ->
                            LookupAnswered(told, answer, wait)
                       [] core.outstanding = "RegisterSeedbox" ->
                            RegistrationAnswered(told, answer, wait)
                       [] OTHER ->
                            [told EXCEPT !.reading = @ \/ answer = "Ok"]
<1>t. /\ core \in Core /\ clock \in Nat
      /\ Typed(core, save, registered) /\ Rates(core) /\ Lookups(core)
      /\ Registrations(core, save, registered)
  BY StepsFrom
<1>0. /\ core.outstanding \in {"LookUpIp", "RegisterSeedbox", "Other"}
      /\ clock' = clock /\ attempted' = attempted
      /\ registered' = registered /\ DecideNow(c, save)
  BY DEF HandleReply
<1>1. /\ told \in Core /\ told.outstanding = "None"
      /\ told.enabled = core.enabled /\ told.lastSent = core.lastSent
      /\ told.gate = core.gate /\ told.lastAttempt = core.lastAttempt
      /\ told.decided = core.decided
  BY <1>t DEF Core
<1> HIDE DEF told
<1>2. Learns(c, told)
  <2>1. CASE core.stale
    BY <1>1, <2>1 DEF Learns
  <2>2. CASE ~core.stale /\ core.outstanding = "LookUpIp"
    <3>1. c = LookupAnswered(told, answer, wait)
      BY <2>2
    <3> HIDE DEF c
    <3> QED  BY <1>t, <1>1, <3>1, AnswersTyped
  <2>3. CASE ~core.stale /\ core.outstanding = "RegisterSeedbox"
    <3>1. c = RegistrationAnswered(told, answer, wait)
      BY <2>3
    <3> HIDE DEF c
    <3> QED  BY <1>t, <1>1, <3>1, AnswersTyped
  <2>4. CASE ~core.stale /\ core.outstanding = "Other"
    <3>1. c = [told EXCEPT !.reading = @ \/ answer = "Ok"]
      BY <2>4
    <3> HIDE DEF c
    <3> QED  BY <1>t, <1>1, <3>1, AnswersTyped
  <2> QED  BY <1>0, <2>1, <2>2, <2>3, <2>4
<1> HIDE DEF c
<1> USE DEF Learns
<1>3. Typed(c, save, registered')
  BY <1>t, <1>0, <1>1, <1>2 DEF Typed
<1>4. Rates(c)
  BY <1>t, <1>0 DEF Rates, Fresh
<1>5. Lookups(c)
  BY <1>t, <1>1, <1>2 DEF Lookups
<1>6. Registrations(c, save, registered')
  BY <1>t, <1>0, <1>1, <1>2 DEF Registrations
<1> QED  BY <1>0, <1>3, <1>4, <1>5, <1>6, DecideSound DEF Sound

(* The request rate follows from the invariant.                            *)
LEMMA RatesBound == SpacingInv => RateBound
<1> SUFFICES ASSUME SpacingInv PROVE RateBound
  OBVIOUS
<1>t. Typed(core, save, registered) /\ Rates(core) /\ Lookups(core)
  BY StepsFrom
<1>1. CASE Covered
  BY <1>t, <1>1, CoveredBound DEF Typed, Times, BudgetInv, BudgetTypeOK
<1>2. CASE Fresh(core)
  <2>1. /\ clock \in Nat /\ paid \in Nat /\ Burst * Refill \in Nat
        /\ core.enabled => core.lastSent \in Int /\ core.lastSent <= clock
    BY <1>t, BudgetAssumption
       DEF Typed, Lookups, Core, SomeTime, Times, NoTime
  <2> QED  BY <1>2, <2>1 DEF Fresh, RateBound
<1> QED  BY <1>t, <1>1, <1>2 DEF Rates

(* Time passes.                                                            *)
LEMMA TickStep == SpacingInv /\ Tick => Kept
<1> SUFFICES ASSUME SpacingInv, Tick PROVE Kept
  OBVIOUS
<1>t. /\ core \in Core /\ clock \in Nat
      /\ Typed(core, save, registered) /\ Rates(core) /\ Lookups(core)
      /\ Registrations(core, save, registered)
  BY StepsFrom
<1>0. /\ clock < MaxTime /\ clock' = clock + 1 /\ core' = core
      /\ budget' = budget /\ paid' = paid /\ save' = save
      /\ attempted' = attempted /\ lookedUp' = lookedUp
      /\ registered' = registered
  BY DEF Tick, coreVars, sentVars
<1>1. /\ paid \in Nat /\ budget \in Budget /\ lookedUp \in Int
      /\ registered \in Int /\ core.lastSent \in Int
      /\ core.decided \in Int
  BY <1>t DEF Typed, Core, SomeTime, Times, NoTime
<1>2. Typed(core, save, registered)'
  BY <1>t, <1>0, MamSpacingAssumption DEF Typed, Times
<1>3. Rates(core)'
  <2>1. CASE Covered
    <3>1. CASE budget.refilledAt = Never
      BY <1>t, <1>0, <1>1, <2>1, <3>1 DEF Covered, Rates
    <3>2. CASE budget.refilledAt # Never
      <4>1. budget.refilledAt \in Nat
        BY <1>1, <3>2 DEF Budget
      <4> QED  BY <1>t, <1>0, <2>1, <3>2, <4>1 DEF Covered, Rates
    <3> QED  BY <3>1, <3>2
  <2>2. CASE Fresh(core)
    <3>1. Burst * Refill \in Nat
      BY BudgetAssumption
    <3> QED  BY <1>t, <1>0, <1>1, <2>2, <3>1 DEF Fresh, Rates
  <2> QED  BY <1>t, <2>1, <2>2 DEF Rates
<1>4. Lookups(core)'
  BY <1>t, <1>0, <1>1 DEF Lookups
<1>5. Registrations(core, save, registered)'
  BY <1>t, <1>0, <1>1 DEF Registrations
<1> QED
  BY <1>0, <1>2, <1>3, <1>4, <1>5 DEF Kept, LookupKept, SpacingInv, Sound

(* A restart begins with a full bucket and knows nothing, but is owed no   *)
(* more than a burst.                                                      *)
LEMMA CrashStep == SpacingInv /\ Restart => Kept
<1> SUFFICES ASSUME SpacingInv, Restart PROVE Kept
  OBVIOUS
<1>t. /\ clock \in Nat
      /\ Typed(core, save, registered) /\ Rates(core) /\ Lookups(core)
      /\ Registrations(core, save, registered)
  BY StepsFrom
<1>0. /\ clock' = clock /\ core' = NewCore /\ budget' = NewBudget
      /\ paid' = paid /\ save' = "None" /\ attempted' = attempted
      /\ lookedUp' = lookedUp /\ registered' = registered
  BY DEF Restart, sentVars
<1>1. NewCore \in Core /\ NewBudget \in Budget
  BY BudgetAssumption DEF NewCore, Core, SomeTime, NewBudget, Budget
<1>2. Typed(core, save, registered)'
  BY <1>t, <1>0, <1>1 DEF Typed, NewCore
<1>3. Rates(core)'
  <2>1. RateBound
    BY RatesBound
  <2> QED  BY <1>0, <2>1 DEF RateBound, Rates, Fresh, NewCore
<1>4. Lookups(core)'
  BY <1>t, <1>0 DEF Lookups, NewCore, NoTime
<1>5. Registrations(core, save, registered)'
  BY <1>t, <1>0 DEF Registrations, NewCore
<1> QED
  BY <1>0, <1>2, <1>3, <1>4, <1>5 DEF Kept, LookupKept, SpacingInv, Sound

(* Every step keeps the invariant.                                         *)
LEMMA SpacingStep == SpacingInv /\ [SpacingNext]_spacingVars => Kept
<1> SUFFICES ASSUME SpacingInv, [SpacingNext]_spacingVars PROVE Kept
  OBVIOUS
<1>1. CASE Event
  BY <1>1, EnableStep, StateReadStep, GateStep, SaveAttemptStep,
     HandleSaveStep, TickStep, CrashStep DEF Event
<1>2. ASSUME NEW answer \in Answers, HandleReply(answer[1], answer[2])
      PROVE  Kept
  <2>1. answer[2] \in Nat
    BY MamSpacingAssumption DEF Answers
  <2> QED  BY <1>2, <2>1, HandleAnswerStep
<1>3. CASE UNCHANGED spacingVars
  BY <1>3 DEF spacingVars, coreVars, sentVars, SpacingInv, Sound, Typed, Rates,
              Fresh, Covered, Lookups, Registrations, Kept, LookupKept
<1> QED  BY <1>1, <1>2, <1>3 DEF SpacingNext

(* The bucket, the schedules, the database and the history of requests     *)
(* agree in every state: the invariant behind the theorems below.          *)
THEOREM SpacingSound == SpacingSpec => []SpacingInv
<1>1. SpacingInit => SpacingInv
  <2> SUFFICES ASSUME SpacingInit PROVE SpacingInv
    OBVIOUS
  <2>1. /\ clock = 0 /\ budget = NewBudget /\ paid = 0 /\ core = NewCore
        /\ save = "None" /\ attempted = NoTime /\ lookedUp = NoTime
        /\ registered = NoTime
    BY DEF SpacingInit, BudgetInit
  <2>2. NewCore \in Core /\ NewBudget \in Budget
    BY BudgetAssumption DEF NewCore, Core, SomeTime, NewBudget, Budget
  <2>3. Typed(core, save, registered)
    BY <2>1, <2>2, MamSpacingAssumption DEF Typed, Times, SomeTime, NewCore
  <2>4. Rates(core)
    BY <2>1 DEF Rates, Covered, NewBudget
  <2>5. Lookups(core)
    BY <2>1 DEF Lookups, NewCore, NoTime
  <2>6. Registrations(core, save, registered)
    BY <2>1 DEF Registrations, NoTime
  <2> QED  BY <2>3, <2>4, <2>5, <2>6 DEF SpacingInv, Sound
<1>2. SpacingInv /\ [SpacingNext]_spacingVars => SpacingInv'
  BY SpacingStep DEF Kept
<1> QED  BY <1>1, <1>2, PTL DEF SpacingSpec

(* Requests stay within a burst ahead of one every refill interval across  *)
(* any number of restarts, though each begins with a full bucket: nothing  *)
(* is sent until the first lookup is due (MamEvent::Enable).               *)
THEOREM RateAcrossRestarts == SpacingSpec => []RateBound
BY SpacingSound, RatesBound, PTL

(* Lookups are LookupSpacing apart across pauses, repairs and restarts,    *)
(* though their times are not saved (Network::due, MamEvent::Enable).      *)
THEOREM LookupSpacingKept == SpacingSpec => LookupsSpaced
<1>1. SpacingInv /\ [SpacingNext]_spacingVars => [LookupKept]_spacingVars
  BY SpacingStep DEF Kept
<1> QED  BY <1>1, SpacingSound, PTL DEF SpacingSpec, LookupsSpaced, LookupKept

(* Registrations are decided RegistrationSpacing apart, less the fraction  *)
(* of a second that saving loses, through failed saves, pauses during a    *)
(* save and restarts (Seedbox::allowance, RegistrationAttemptSaved).       *)
THEOREM RegistrationSpacingKept == SpacingSpec => RegistrationsDecided
<1> DEFINE Decided == registered' # registered /\ registered # NoTime
                        => registered' - registered
                             > RegistrationSpacing - Second
<1>1. SpacingInv /\ [SpacingNext]_spacingVars => [Decided]_spacingVars
  <2> SUFFICES ASSUME SpacingInv, SpacingNext, registered' # registered,
                      registered # NoTime
               PROVE  registered' - registered > RegistrationSpacing - Second
    OBVIOUS
  <2>1. HandleSave
    BY DEF SpacingNext, Event, EnableMam, StateRead, CloseGate, OpenGate, RepairReach,
           NewCookie, OtherStep, SaveTime, Tick, Restart, HandleReply,
           sentVars
  <2>2. Registrations(core, save, registered)
    BY StepsFrom
  <2>3. registered' = core.decided /\ save # "None"
    BY <2>1 DEF HandleSave
  <2> QED  BY <2>2, <2>3 DEF Registrations
<1> QED  BY <1>1, SpacingSound, PTL DEF SpacingSpec, RegistrationsDecided

(* A registration that was sent is on disk, in every state and so after    *)
(* every crash (Action::SaveRegistrationAttempt before MamRequest).        *)
THEOREM SentIsSaved == SpacingSpec => []RegistrationSavedFirst
<1>1. SpacingInv => RegistrationSavedFirst
  BY StepsFrom DEF Registrations, RegistrationSavedFirst
<1> QED  BY <1>1, SpacingSound, PTL
=============================================================================
