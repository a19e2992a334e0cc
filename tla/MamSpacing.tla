----------------------------- MODULE MamSpacing -----------------------------
(***************************************************************************)
(* When requests reach MAM: the request budget, the spacing of IP lookups  *)
(* and of seedbox registrations, and MAM's requests to wait                *)
(* (core/mam/mod.rs, core/mam/network.rs), over pauses, repairs and        *)
(* restarts.  Who may be asked with which cookie is in MamSession; here a  *)
(* usable cookie may or may not be at hand at any time.  What reads and    *)
(* spends are due is left to account and acquisition: any, at any time.    *)
(*                                                                         *)
(* The monotonic and the wall clock advance together, and an event is      *)
(* handled when it occurs.                                                 *)
(***************************************************************************)
EXTENDS Budget

CONSTANTS
    Second,               \* ticks of a second, the precision of saved times
    LookupSpacing,        \* LOOKUP_SPACING
    ObserveEvery,         \* OBSERVE_EVERY
    RegistrationSpacing,  \* REGISTRATION_SPACING
    RetryAfters,          \* what MAM may ask to wait
    MaxTime               \* bound on the clock

ASSUME MamSpacingAssumption ==
    /\ {Second, LookupSpacing, ObserveEvery, RegistrationSpacing}
         \subseteq Nat \ {0}
    /\ RetryAfters \subseteq Nat
    /\ MaxTime \in Nat
    /\ LookupSpacing >= Burst * Refill   \* a minute against half a minute

VARIABLES
    core,          \* the core's Mam
    save,          \* the registration attempt being saved
    attempted,     \* last_registration_at in SQLite
    lookedUp,      \* history: when the last lookup was sent
    registered     \* history: when the last registration sent was decided

coreVars == <<core, budget, paid>>
sentVars == <<lookedUp, registered>>
spacingVars == <<clock, coreVars, save, attempted, sentVars>>

NoTime == -1
Unknown == -2
Times == 0..MaxTime
SomeTime == Times \cup {NoTime}

Core ==
    [enabled : BOOLEAN, gate : BOOLEAN,
     current : BOOLEAN,                       \* the observation is current
     nextLookup : Nat \cup {NoTime},
     lastSent : SomeTime,
     lastAttempt : SomeTime \cup {Unknown},   \* Unknown: unread or unreadable
     notBefore : Nat \cup {NoTime},
     seedbox : {"Unconfirmed", "Confirmed", "Refused"},
     reading : BOOLEAN,                       \* the account has been read
     outstanding : {"None", "LookUpIp", "Saving", "RegisterSeedbox", "Other"},
     decided : SomeTime,                      \* when the attempt was decided
     stale : BOOLEAN]                         \* outstanding.epoch # epoch

NewCore ==
    [enabled |-> FALSE, gate |-> FALSE, current |-> FALSE,
     nextLookup |-> NoTime, lastSent |-> NoTime, lastAttempt |-> Unknown,
     notBefore |-> NoTime, seedbox |-> "Unconfirmed", reading |-> FALSE,
     outstanding |-> "None", decided |-> NoTime, stale |-> FALSE]

(* shell/storage.rs seconds: saved times lose their fraction of a second.  *)
Saved(at) == (at \div Second) * Second

-----------------------------------------------------------------------------
(* Mutant: only the schedule of lookups is kept, not MAM's spacing.        *)
LookupDueSoon(c) == c.nextLookup = NoTime \/ c.nextLookup <= clock

(* Network::due.                                                           *)
LookupDue(c) ==
    /\ c.nextLookup = NoTime \/ c.nextLookup <= clock
    /\ c.lastSent = NoTime \/ clock - c.lastSent >= LookupSpacing

(* Network::unconfirm.                                                     *)
Unconfirm(c) == [c EXCEPT !.current = FALSE, !.nextLookup = NoTime]

(* Mutant: an attempt of an earlier run is not waited for.                 *)
RegistrationAllowedUnread(c) ==
    /\ c.lastAttempt \in {NoTime, Unknown}
         \/ c.lastAttempt + RegistrationSpacing <= clock
    /\ c.notBefore = NoTime \/ c.notBefore <= clock

(* Seedbox::allowance is Now.                                              *)
RegistrationAllowed(c) ==
    /\ c.lastAttempt # Unknown
    /\ c.lastAttempt = NoTime \/ c.lastAttempt + RegistrationSpacing <= clock
    /\ c.notBefore = NoTime \/ c.notBefore <= clock

(* Mam::wanted: a due lookup comes first, then the registration.           *)
WantedNow(c) ==
    IF LookupDue(c) THEN {"LookUpIp"}
    ELSE IF ~c.current THEN {"None"}
    ELSE IF c.seedbox = "Unconfirmed" /\ RegistrationAllowed(c)
    THEN {"None", "Saving"} ELSE {"None", "Other"}

(* Mam::decide: the gate is open and nothing is outstanding.               *)
SendableNow(c) ==
    IF c.gate /\ c.outstanding = "None" /\ CanTake(budget, clock)
    THEN WantedNow(c) ELSE {"None"}

(* Budget::take by the request that decide sends.                          *)
Spend(request) ==
    IF request = "None" THEN UNCHANGED <<budget, paid>>
    ELSE budget' = Take(budget, clock) /\ paid' = PaidAfter(clock)

(* The end of every core step; left is the save still in progress.         *)
DecideNow(c, left) ==
    \E request \in SendableNow(c) :
      /\ Spend(request)
      /\ core' = CASE request = "None" -> c
                   [] request = "LookUpIp" ->
                        [c EXCEPT !.outstanding = request, !.stale = FALSE,
                                  !.lastSent = clock]
                   [] request = "Saving" ->
                        [c EXCEPT !.outstanding = request, !.stale = FALSE,
                                  !.decided = clock]
                   [] OTHER ->
                        [c EXCEPT !.outstanding = request, !.stale = FALSE]
      /\ lookedUp' = IF request = "LookUpIp" THEN clock ELSE lookedUp
      /\ save' = IF request = "Saving" THEN "Running" ELSE left

-----------------------------------------------------------------------------
(* MamEvent::Enable.                                                       *)
EnableMam ==
    /\ ~core.enabled
    /\ UNCHANGED <<clock, attempted, registered>>
    /\ DecideNow([core EXCEPT !.enabled = TRUE, !.lastSent = clock], save)

(* MamEvent::StateRead; unreadable state stays Unknown.                    *)
StateRead ==
    /\ core.lastAttempt = Unknown
    /\ UNCHANGED <<clock, attempted, registered>>
    /\ DecideNow([core EXCEPT !.lastAttempt = attempted], save)

(* Mam::follow_gate and Mam::disconnect, on a pause or lost protection.    *)
Disconnected(c) ==
    [Unconfirm(c) EXCEPT !.gate = FALSE, !.seedbox = "Unconfirmed",
                         !.stale = TRUE]

CloseGate ==
    /\ core.gate
    /\ UNCHANGED <<clock, attempted, registered>>
    /\ DecideNow(Disconnected(core), save)

OpenGate ==
    /\ core.enabled /\ ~core.gate
    /\ UNCHANGED <<clock, attempted, registered>>
    /\ DecideNow([core EXCEPT !.gate = TRUE], save)

(* Mam::follow_connectability finds qBittorrent unreachable.               *)
RepairReach ==
    /\ core.reading
    /\ UNCHANGED <<clock, attempted, registered>>
    /\ DecideNow([Unconfirm(core) EXCEPT !.seedbox = "Unconfirmed"], save)

(* Mam::follow_cookie: the owner's new cookie starts another connection    *)
(* but leaves the observation.                                             *)
NewCookie ==
    /\ core.enabled
    /\ UNCHANGED <<clock, attempted, registered>>
    /\ DecideNow([core EXCEPT !.seedbox = "Unconfirmed", !.stale = TRUE], save)

(* Any other event, the wake-up timer's among them.                        *)
OtherStep ==
    /\ UNCHANGED <<clock, attempted, registered>>
    /\ DecideNow(core, save)

(* save_mam_time commits or is rolled back.                                *)
SaveTime ==
    /\ save = "Running"
    /\ \/ save' = "Committed" /\ attempted' = Saved(core.decided)
       \/ save' = "Failed" /\ UNCHANGED attempted
    /\ UNCHANGED <<clock, coreVars, sentVars>>

(* Mutant: a registration is sent although it was not saved.               *)
HandleSaveAnyway ==
    /\ save \in {"Committed", "Failed"}
    /\ LET sent == ~core.stale
       IN  /\ registered' = IF sent THEN core.decided ELSE registered
           /\ UNCHANGED <<clock, attempted>>
           /\ DecideNow([core EXCEPT
                        !.lastAttempt = core.decided,
                        !.outstanding = IF sent THEN "RegisterSeedbox"
                                        ELSE "None"], "None")

(* RegistrationAttemptSaved and RegistrationAttemptSaveFailed.             *)
HandleSave ==
    /\ save \in {"Committed", "Failed"}
    /\ LET saved == save = "Committed"
           sent == saved /\ ~core.stale
       IN  /\ registered' = IF sent THEN core.decided ELSE registered
           /\ UNCHANGED <<clock, attempted>>
           /\ DecideNow([core EXCEPT
                        !.lastAttempt = IF saved THEN core.decided ELSE @,
                        !.seedbox = IF saved THEN @ ELSE "Unconfirmed",
                        !.outstanding = IF sent THEN "RegisterSeedbox"
                                        ELSE "None"], "None")

Later(a, b) == IF a > b THEN a ELSE b

(* Network::observed and Network::failed; wait is MAM's Retry-After, or 0. *)
(* Another address than the confirmed one has yet to be registered.        *)
LookupAnswered(c, answer, wait) ==
    [c EXCEPT !.current = @ \/ answer \in {"Ok", "Moved"},
              !.nextLookup = clock + Later(ObserveEvery, wait),
              !.seedbox = IF answer = "Moved" /\ @ = "Confirmed"
                          THEN "Unconfirmed" ELSE @]

(* Seedbox::confirmed and Seedbox::failed.                                 *)
RegistrationAnswered(c, answer, wait) ==
    [c EXCEPT !.seedbox = CASE answer = "Ok" -> "Confirmed"
                            [] answer = "NotAllowed" -> "Refused"
                            [] OTHER -> "Unconfirmed",
              !.notBefore = IF answer = "Ok" THEN NoTime
                            ELSE IF wait > 0 THEN clock + wait ELSE @]

(* MamEvent::Answered.                                                     *)
HandleReply(answer, wait) ==
    LET told == [core EXCEPT !.outstanding = "None"]
        learned ==
            IF core.stale THEN told
            ELSE CASE core.outstanding = "LookUpIp" ->
                        LookupAnswered(told, answer, wait)
                   [] core.outstanding = "RegisterSeedbox" ->
                        RegistrationAnswered(told, answer, wait)
                   [] OTHER -> [told EXCEPT !.reading = @ \/ answer = "Ok"]
    IN  /\ core.outstanding \in {"LookUpIp", "RegisterSeedbox", "Other"}
        /\ answer = "Moved" => core.outstanding = "LookUpIp"
        /\ UNCHANGED <<clock, attempted, registered>>
        /\ DecideNow(learned, save)

Tick == clock < MaxTime /\ clock' = clock + 1
        /\ UNCHANGED <<coreVars, save, attempted, sentVars>>

Restart ==
    /\ core' = NewCore
    /\ budget' = NewBudget
    /\ save' = "None"
    /\ UNCHANGED <<clock, paid, attempted, sentVars>>

-----------------------------------------------------------------------------
SpacingInit ==
    /\ BudgetInit
    /\ core = NewCore
    /\ save = "None"
    /\ attempted = NoTime
    /\ lookedUp = NoTime
    /\ registered = NoTime

Event ==
    \/ EnableMam
    \/ StateRead
    \/ CloseGate
    \/ OpenGate
    \/ RepairReach
    \/ NewCookie
    \/ OtherStep
    \/ SaveTime
    \/ HandleSave
    \/ Tick
    \/ Restart

(* MAM's answers: a lookup may show another address than the confirmed     *)
(* one, and a refusal may say how long to wait.                            *)
Answers == {<<"Ok", 0>>, <<"Moved", 0>>, <<"NotAllowed", 0>>, <<"Failed", 0>>}
             \cup {<<"Failed", wait>> : wait \in RetryAfters}

SpacingNext ==
    Event \/ \E answer \in Answers : HandleReply(answer[1], answer[2])

SpacingSpec == SpacingInit /\ [][SpacingNext]_spacingVars

-----------------------------------------------------------------------------
(* Every variable has its type, and an attempt is being saved exactly      *)
(* while the core waits for it.                                            *)
SpacingTypeOK ==
    /\ clock \in Times /\ budget \in Budget /\ paid \in Nat
    /\ core \in Core
    /\ save \in {"None", "Running", "Committed", "Failed"}
    /\ save # "None" <=> core.outstanding = "Saving"
    /\ attempted \in SomeTime /\ lookedUp \in SomeTime
    /\ registered \in SomeTime

(* Budget's RateBound is an invariant of SpacingSpec too: the rate holds   *)
(* across restarts, each of which begins with a full bucket, because       *)
(* nothing is sent until a lookup is due (docs/mam-rules.md:61, "Never let *)
(* restarts send faster than a running Windlass"; MamEvent::Enable).       *)

(* IP lookups are LookupSpacing apart across pauses, repairs and restarts, *)
(* though neither their time is saved nor their schedule kept              *)
(* (docs/mam-rules.md:54; Network::due).                                   *)
LookupsSpaced ==
    [][lookedUp' # lookedUp /\ lookedUp # NoTime
         => lookedUp' - lookedUp >= LookupSpacing]_spacingVars

(* The decisions to register the seedbox that were carried out lie         *)
(* RegistrationSpacing apart, less the fraction of a second that saving    *)
(* loses, through failed saves, pauses during a save and restarts          *)
(* (Seedbox::allowance, RegistrationAttemptSaved).                         *)
RegistrationsDecided ==
    [][registered' # registered /\ registered # NoTime
         => registered' - registered > RegistrationSpacing - Second]_spacingVars

(* A registration that was sent is on disk, so that a restart finds it:    *)
(* it is sent only after it was saved, and no later save loses it          *)
(* (Action::SaveRegistrationAttempt before Action::MamRequest).            *)
RegistrationSavedFirst ==
    registered # NoTime => attempted >= Saved(registered)

=============================================================================
