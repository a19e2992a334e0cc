------------------------------ MODULE Account -------------------------------
(***************************************************************************)
(* What Windlass knows of the MAM account and decides from it: readings    *)
(* and purchases (core/mam/account.rs), the guard over the ratio           *)
(* (core/mam/ratio_guard.rs) and whether MAM reaches qBittorrent           *)
(* (core/mam/connectability.rs).                                           *)
(*                                                                         *)
(* Instants are kept as what the code asks of them: whether a reading is   *)
(* still fresh, whether it was taken after the last admission, whether a   *)
(* wait is over.  Time passing changes these one at a time.                *)
(***************************************************************************)
EXTENDS Integers, FiniteSets

CONSTANTS
    Uploaded,     \* the account's uploaded figure, in units of Downloaded's
    UnsatLimit,   \* MAM's unsatisfied limit for the account
    Reserve       \* the owner's points reserve

UnsatisfiedReserve == 2
RatioFloor == 2000                  \* thousandths
VipRenewWithin == 14                \* days
VipFill == 90
VipPricePerWeek == 1250

-----------------------------------------------------------------------------
(* User data: MAM's figures for the account.  vip is the days VIP still    *)
(* lasts; clients is the client list, NoList when the request omitted it.  *)
NoList == {[version |-> "NoList", refused |-> FALSE, reached |-> TRUE]}

NoData == [downloaded |-> 0, wedges |-> 0, points |-> 0, vip |-> 0,
           unsatisfied |-> 0, connectable |-> TRUE, clients |-> NoList]

NoCount == -1      \* no snatch summary

(* UserData::ratio and Account::ratio_low.  Nothing downloaded has no      *)
(* ratio.                                                                  *)
RatioLow(data) ==
    /\ data.downloaded > 0
    /\ (Uploaded * 1000) \div data.downloaded < RatioFloor

(* UnsatisfiedLimit::admits_one_more.                                      *)
AdmitsOneMore(count) == count + UnsatisfiedReserve < UnsatLimit

-----------------------------------------------------------------------------
(* A VIP renewal.                                                          *)

(* Hundredths of a week a renewal buys, 0 when it is not due.              *)
VipWeeks(vip) ==
    IF vip >= VipRenewWithin THEN 0
    ELSE LET bought == ((VipFill - vip) * 100) \div 7
         IN  IF bought > 100 THEN bought ELSE 100

(* VipWeeks::cost, rounded up.                                             *)
Cost(weeks, price) == (weeks * price + 99) \div 100

PricePerWeek(weeks, spent) == (spent * 100) \div (IF weeks > 1 THEN weeks ELSE 1)

(* The latest purchase: its outcome, and what the reading before it        *)
(* showed.                                                                 *)
NoPurchase == [outcome |-> "Never", points |-> 0, vip |-> 0]

Waiting == {"Sent", "Uncertain", "Unresolved"}

-----------------------------------------------------------------------------
(* The account.                                                            *)
NewAccount ==
    [read |-> FALSE,            \* reading is some
     data |-> NoData,
     fresh |-> FALSE,           \* taken within ACCOUNT_FRESH_FOR
     admitted |-> TRUE,         \* taken after the last admission
     bought |-> TRUE,           \* taken after the last purchase
     late |-> FALSE,            \* taken REPAIR_SETTLES_AFTER after a repair
     backoff |-> FALSE,         \* failed, and the retry is not due
     due |-> TRUE,              \* next_read is absent or over
     spaced |-> TRUE,           \* EARLY_READ_SPACING since the last request
     statsDue |-> TRUE,         \* CLIENT_STATS_EVERY since the client list
     clients |-> NoList,        \* client_list
     downloading |-> FALSE,     \* the pace
     purchase |-> NoPurchase,
     price |-> VipPricePerWeek,
     refused |-> FALSE]         \* refused within REFUSAL_BACKOFF

(* Account::fresh; since says the reading was taken after an instant.      *)
Fresh(a, since) == a.read /\ a.fresh /\ since

(* While a download runs a reading is due five minutes after the last,     *)
(* which is when it stops being fresh.                                     *)
RoutineDue(a) == a.due \/ (a.downloading /\ a.read /\ ~a.fresh)

AccountWanted(a, early) ==
    /\ ~a.backoff
    /\ RoutineDue(a) \/ (early /\ a.spaced)

(* Mutant: points spent without VIP settle nothing.                        *)
SettlePartly(purchase, data) ==
    IF purchase.outcome # "Uncertain" THEN purchase
    ELSE [purchase EXCEPT !.outcome =
            IF data.vip > purchase.vip THEN "Sold"
            ELSE IF data.points >= purchase.points THEN "NotSold"
            ELSE "Uncertain"]

(* Account::settle: VIP that ends later means MAM sold it, points not      *)
(* spent mean it did not.                                                  *)
Settle(purchase, data) ==
    IF purchase.outcome # "Uncertain" THEN purchase
    ELSE [purchase EXCEPT !.outcome =
            IF data.vip > purchase.vip THEN "Sold"
            ELSE IF data.points >= purchase.points THEN "NotSold"
            ELSE "Unresolved"]

(* Account::read.  late says whether the repair before it has settled.     *)
AccountRead(a, data, late) ==
    [a EXCEPT !.purchase = Settle(@, data),
              !.clients = IF data.clients = NoList THEN @ ELSE data.clients,
              !.statsDue = IF data.clients = NoList THEN @ ELSE FALSE,
              !.read = TRUE, !.data = [data EXCEPT !.clients = NoList],
              !.fresh = TRUE, !.admitted = TRUE, !.bought = TRUE,
              !.late = late, !.backoff = FALSE, !.due = FALSE]

AccountFailed(a) == [a EXCEPT !.backoff = TRUE, !.due = FALSE]

(* The owner says how an unresolved purchase ended.                        *)
PurchaseChecked(a, sale) ==
    IF a.purchase.outcome = "Unresolved"
    THEN [a EXCEPT !.purchase.outcome = sale]
    ELSE a

(* Mutant: a purchase whose outcome is not known does not hold the next.   *)
WantedPurchaseAgain(a) ==
    LET weeks == VipWeeks(a.data.vip)
    IN  /\ a.read /\ a.fresh
        /\ a.purchase.outcome # "Sent"
        /\ ~a.refused
        /\ weeks > 0
        /\ a.data.points >= Reserve + Cost(weeks, a.price)

(* Account::wanted_purchase.                                               *)
WantedPurchase(a) ==
    LET weeks == VipWeeks(a.data.vip)
    IN  /\ Fresh(a, a.bought)
        /\ a.purchase.outcome \notin Waiting
        /\ ~a.refused
        /\ weeks > 0
        /\ a.data.points >= Reserve + Cost(weeks, a.price)

Buying(a) ==
    [a EXCEPT !.bought = FALSE,
              !.purchase = [outcome |-> "Sent", points |-> a.data.points,
                            vip |-> a.data.vip]]

(* Account::bought, with the points a sale left.                           *)
Bought(a, outcome, points) ==
    LET before == a.purchase.points
        spent == IF before > points THEN before - points ELSE 0
        price == PricePerWeek(VipWeeks(a.purchase.vip), spent)
    IN  [a EXCEPT !.purchase.outcome = outcome,
                  !.price = IF outcome = "Made" /\ price > 0 THEN price ELSE @,
                  !.refused = @ \/ outcome = "Refused"]

-----------------------------------------------------------------------------
(* MAM's client list: entries with a version (None when it is not a        *)
(* qBittorrent Windlass understands), whether MAM refuses it, and whether  *)
(* MAM reaches it.                                                         *)
RunningClient(a, running) ==
    IF a.clients = NoList THEN {}
    ELSE {client \in a.clients : client.version = running}

ClientStanding(a, running) ==
    LET ours == RunningClient(a, running)
    IN  CASE a.clients = NoList -> "Unknown"
          [] \E client \in ours : client.refused -> "Refused"
          [] OTHER -> IF ours # {} THEN "Listed"
                      ELSE IF a.clients = {} THEN "NoneListed"
                      ELSE IF \A client \in a.clients : client.version = "None"
                      THEN "NotUnderstood"
                      ELSE "NotListed"

ClientAdmits(standing) == standing \in {"Listed", "NoneListed"}

(* Mam::unreachable.                                                       *)
Unreachable(a, running) ==
    \/ ~a.data.connectable
    \/ \E client \in RunningClient(a, running) : ~client.reached

-----------------------------------------------------------------------------
(* The ratio guard: figure is the downloaded figure watched from, or the   *)
(* one MAM reported when the guard tripped.                                *)
NoFigure == -1

Guard(kind, figure) == [kind |-> kind, figure |-> figure]

PermitsDownloads(guard) == guard.kind = "Watching"

(* Mutant: a saved trip is taken for a figure to watch from.               *)
RestoredWatching(saved) == Guard("Watching", saved.figure)

(* RatioGuard::restored; nothing saved yet watches from the first reading. *)
Restored(saved) ==
    IF saved.kind = "Unset" THEN Guard("Watching", NoFigure) ELSE saved

(* RatioGuard::observe.                                                    *)
Observe(guard, downloaded) ==
    IF guard.kind # "Watching" \/ guard.figure = downloaded THEN guard
    ELSE IF guard.figure # NoFigure /\ downloaded > guard.figure
    THEN Guard("Tripped", downloaded)
    ELSE Guard("Watching", downloaded)

(* RatioGuard::checked, with the latest reading if there is one.           *)
Checked(guard, a) ==
    Guard("Watching", IF a.read THEN a.data.downloaded ELSE guard.figure)

-----------------------------------------------------------------------------
(* Connectability::follow: the state after the latest reading, and whether *)
(* a repair is wanted.                                                     *)
FollowReach(reach, a, running) ==
    LET unreachable == Unreachable(a, running)
    IN  IF ~a.read THEN reach
        ELSE CASE reach = "Repaired" /\ a.late ->
                    IF unreachable THEN "Unresolved" ELSE "Fine"
               [] reach = "Unresolved" /\ ~unreachable -> "Fine"
               [] OTHER -> reach

RepairWanted(reach, a, running) ==
    reach = "Fine" /\ a.read /\ Unreachable(a, running)
=============================================================================
