--------------------------- MODULE Notifications ----------------------------
(***************************************************************************)
(* What the owner is told, and when (core/notifications.rs), with the      *)
(* pushes to ntfy (shell/notify.rs) and the notifications log in SQLite    *)
(* (shell/storage.rs).                                                     *)
(*                                                                         *)
(* The other components are the facts the conditions are read from; they   *)
(* change as they like within FactSets.  A notice is a condition raised or *)
(* cleared, or an event; its words are left out.  A wait is the minutes    *)
(* left of it.                                                             *)
(***************************************************************************)
EXTENDS Integers, FiniteSets, SequencesExt

CONSTANTS
    Tracked,        \* the conditions that come to hold, in the code's order
    FactSets,       \* what the other components may show
    OutboxLimit,    \* OUTBOX_LIMIT
    LogKept,        \* LOG_KEPT
    TimerIds,       \* timer identities, reused
    RetryFirst,     \* RETRY_FIRST, in minutes
    RetryMax,       \* RETRY_MAX
    Tick,           \* minutes that pass at a time
    MaxChanges,     \* bound on what other components and the owner do
    MaxFaults       \* bound on failed deliveries, failed saves and crashes

VARIABLES
    notes,          \* the core's Notifications
    facts,          \* the other components
    topic,          \* the saved ntfy topic: "Unread", "None", "Set"
    graceTimer,     \* the armed NotificationGrace: identity and minutes left
    retryTimer,     \* the armed NotificationRetry
    expired,        \* expiries queued for the core, oldest first
    sending,        \* the push a worker sends, or NoPush
    saves,          \* notices workers save
    stored,         \* the notices table
    reading,        \* the log is being read
    changes, faults \* what is left of the bounds

vars == <<notes, facts, topic, graceTimer, retryTimer, expired, sending, saves,
          stored, reading, changes, faults>>

-----------------------------------------------------------------------------
(* Condition and Condition::grace, in minutes.                             *)
Conditions ==
    {"VpnProtection", "FailoverBlocked", "ForwardedPort",
     "QbittorrentReachable", "QbittorrentVersion", "TorrentErrors",
     "FilesMissing", "TorrentsMissing", "RegistrySave", "SeedingBehind",
     "MamSession", "SeedboxRegistration", "MamIp", "Ratio",
     "UnsatisfiedLimit", "UnsatisfiedNotSeeding", "MamFlags", "MamMessages",
     "DownloadsHeld", "Wedges", "PointsReserve", "VipEnding", "MamClient",
     "PurchaseUnresolved", "Connectable", "DownloadsRefused"}

ASSUME TrackedAssumption == ToSet(Tracked) \subseteq Conditions

Grace(condition) ==
    CASE condition = "MamIp" -> 15
      [] condition \in {"UnsatisfiedNotSeeding", "DownloadsHeld"} -> 30
      [] condition = "RegistrySave" -> 2
      [] condition \in {"ForwardedPort", "QbittorrentReachable",
                        "TorrentErrors"} -> 5
      [] condition \in {"FilesMissing", "TorrentsMissing"} -> 10
      [] OTHER -> 0

(* Conditions whose end other notices announce, or no notice does.         *)
ClearsSilently ==
    {"FailoverBlocked", "MamMessages", "Wedges", "PointsReserve", "VipEnding",
     "PurchaseUnresolved", "DownloadsRefused"}

-----------------------------------------------------------------------------
(* assess: each condition's status, from the facts.                        *)
Choose(active, clear) ==
    IF active THEN "Active" ELSE IF clear THEN "Clear" ELSE "Unchanged"

(* vpn.                                                                    *)
VpnStatus(f) ==
    [VpnProtection |-> Choose(f.watched /\ f.failing, ~f.watched \/ f.protected),
     FailoverBlocked |-> Choose(/\ f.watched /\ f.failing
                                /\ f.blocked /\ ~f.switching, TRUE)]

(* forwarded_port; a switch drops the lease on purpose.                    *)
PortStatus(f) ==
    Choose(f.forwarding = "NoLease" /\ ~f.switching, f.forwarding # "NoLease")

(* qBittorrent and the registry.  Counts are only known of a listed        *)
(* session.                                                                *)
ClientStatus(f) ==
    LET connected == f.qbittorrent = "Connected"
        listed == connected /\ f.listed
        loaded == f.registry = "Loaded"
    IN  [QbittorrentReachable |-> Choose(f.qbittorrent = "Unreachable",
                                         f.qbittorrent # "Connecting"),
         QbittorrentVersion |-> Choose(connected /\ ~f.allowed, connected),
         TorrentErrors |-> Choose(listed /\ f.errors, listed),
         FilesMissing |-> Choose(listed /\ f.filesMissing, listed),
         TorrentsMissing |-> Choose(loaded /\ listed /\ f.missing,
                                    loaded /\ listed),
         RegistrySave |-> Choose(loaded /\ f.saveFailed, loaded),
         SeedingBehind |-> Choose(loaded /\ f.behind, loaded)]

(* mam: the session, the seedbox and the acquisition.                      *)
MamStatus(f) ==
    [MamSession |-> Choose(f.session = "Rejected", f.session = "Verified"),
     SeedboxRegistration |-> Choose(f.seedbox = "Failed",
                                    f.seedbox = "Confirmed"),
     MamIp |-> Choose(f.lookupsFail, f.addressKnown),
     DownloadsHeld |-> Choose(f.hold \notin {"None", "MamUnavailable"},
                              f.hold = "None"),
     Wedges |-> Choose(f.hold = "NoWedge", TRUE),
     MamClient |-> Choose(f.standing \notin {"Unknown", "NoneListed", "Listed"},
                          f.standing = "Listed"),
     PurchaseUnresolved |-> Choose(f.unresolved, TRUE),
     Connectable |-> Choose(f.reach = "Unresolved", f.reach = "Fine"),
     DownloadsRefused |-> Choose(f.refused, TRUE)]

(* The account's conditions: account is the set that MAM's figures show.   *)
AccountConditions ==
    {"Ratio", "UnsatisfiedLimit", "UnsatisfiedNotSeeding", "MamFlags",
     "MamMessages", "PointsReserve", "VipEnding"}

AccountStatus(f) ==
    [c \in AccountConditions |-> Choose(f.read /\ c \in f.account, f.read)]

Assess(f) ==
    [c \in ToSet(Tracked) |->
        CASE c \in {"VpnProtection", "FailoverBlocked"} -> VpnStatus(f)[c]
          [] c = "ForwardedPort" -> PortStatus(f)
          [] c \in AccountConditions -> AccountStatus(f)[c]
          [] c \in DOMAIN MamStatus(f) -> MamStatus(f)[c]
          [] OTHER -> ClientStatus(f)[c]]

-----------------------------------------------------------------------------
(* Notices and pushes.  An entry is a notice's place in the log, 0 when it *)
(* has none.                                                               *)
Raised(condition) == [of |-> condition, what |-> "Raised"]
Cleared(condition) == [of |-> condition, what |-> "Cleared"]
Happened(event) == [of |-> event, what |-> "Happened"]

(* Notice::reach.                                                          *)
DashboardEvents ==
    {"Started", "FailoverStarted", "FailoverSucceeded", "RatioUseChecked",
     "PurchaseMade", "WedgedMidDownload", "PurchaseSettled"}

IsPushed(notice) ==
    notice.what # "Cleared" /\ notice.of \notin DashboardEvents

Push(entry, notice) == [entry |-> entry, notice |-> notice]
NoPush == Push(0, Happened("None"))

NoTimer == [id |-> 0, left |-> 0]

(* Notifications::new.  A condition is "None", "Raised" or pending for     *)
(* some minutes; due is when grace_timer was set for.                      *)
NewNotes ==
    [conditions |-> [c \in ToSet(Tracked) |-> "None"],
     held |-> [c \in ToSet(Tracked) |-> 0],
     log |-> "Waiting", waiting |-> <<>>, next |-> 1,
     outbox |-> <<>>,
     delivery |-> "Idle", push |-> NoPush, retry |-> 0,
     failures |-> 0, dropped |-> 0,
     grace |-> NoTimer]

-----------------------------------------------------------------------------
(* Notifications::enqueue: the oldest makes room.                          *)
Enqueue(n, push) ==
    LET full == Len(n.outbox) >= OutboxLimit
    IN  [n EXCEPT !.outbox = Append(IF full THEN Tail(@) ELSE @, push),
                  !.dropped = IF full THEN @ + 1 ELSE @]

(* Notifications::record, on the state and the notices to save.            *)
Record(s, notice) ==
    LET n == s.n
        entry == IF n.log = "Ready" THEN n.next ELSE 0
        taken == IF n.log = "Ready" THEN [n EXCEPT !.next = @ + 1] ELSE n
    IN  IF n.log = "Waiting"
        THEN [s EXCEPT !.n.waiting = Append(@, notice)]
        ELSE [n |-> IF IsPushed(notice) THEN Enqueue(taken, Push(entry, notice))
                    ELSE taken,
              save |-> IF entry = 0 THEN s.save
                       ELSE s.save \cup {Push(entry, notice)}]

RecordAll(s, notices) == FoldLeft(Record, s, notices)

(* Notifications::track, for one condition; the notice given, if any.      *)
TrackedPhase(n, c, status) ==
    CASE n.conditions[c] = "None" /\ status = "Active" ->
           IF Grace(c) = 0 THEN "Raised" ELSE "Pending"
      [] n.conditions[c] = "Pending" /\ status = "Active" ->
           IF n.held[c] >= Grace(c) THEN "Raised" ELSE "Pending"
      [] status = "Clear" -> "None"
      [] OTHER -> n.conditions[c]

TrackedNotice(n, c, status) ==
    LET phase == TrackedPhase(n, c, status)
    IN  IF phase = "Raised" /\ n.conditions[c] # "Raised" THEN <<Raised(c)>>
        ELSE IF phase = "None" /\ n.conditions[c] = "Raised"
                /\ c \notin ClearsSilently
        THEN <<Cleared(c)>>
        ELSE <<>>

(* Every condition's status in turn.                                       *)
Track(n, statuses) ==
    [n EXCEPT !.conditions = [c \in DOMAIN @ |-> TrackedPhase(n, c, statuses[c])],
              !.held = [c \in DOMAIN @ |->
                           IF TrackedPhase(n, c, statuses[c]) = "Pending"
                           THEN @[c] ELSE 0]]

TrackNotices(n, statuses) ==
    FlattenSeq([i \in DOMAIN Tracked |->
                   TrackedNotice(n, Tracked[i], statuses[Tracked[i]])])

Pending(n) == {c \in DOMAIN n.conditions : n.conditions[c] = "Pending"}

(* The earliest end of a grace, in minutes from now; past ends are due.    *)
Due(n) == Min({Max({Grace(c) - n.held[c], 0}) : c \in Pending(n)})

FreshId == CHOOSE id \in TimerIds :
               id \notin ToSet(expired) \cup {graceTimer.id, retryTimer.id}

(* Mutant: a raised condition hides the ones after it.                     *)
ScheduleGraceFirst(n) ==
    LET seen == {c \in Pending(n) : \A i, j \in DOMAIN Tracked :
                    (Tracked[j] = c /\ n.conditions[Tracked[i]] = "Raised") => i > j}
    IN  IF seen = {} \/ (n.grace # NoTimer /\ n.grace.left = Due(n)) THEN n
        ELSE [n EXCEPT !.grace = [id |-> FreshId, left |-> Due(n)]]

(* Notifications::schedule_grace.                                          *)
ScheduleGrace(n) ==
    IF Pending(n) = {} \/ (n.grace # NoTimer /\ n.grace.left = Due(n)) THEN n
    ELSE [n EXCEPT !.grace = [id |-> FreshId, left |-> Due(n)]]

(* Notifications::send: one push at a time; without a topic pushes are     *)
(* discarded.                                                              *)
Send(n, to) ==
    CASE to = "Unread" -> n
      [] to = "None" ->
           [n EXCEPT !.outbox = <<>>,
                     !.delivery = IF @ = "Retrying" THEN "Idle" ELSE @]
      [] to = "Set" ->
           IF n.delivery # "Idle" \/ n.outbox = <<>> THEN n
           ELSE [n EXCEPT !.delivery = "Sending", !.push = Head(n.outbox),
                          !.outbox = Tail(@)]

(* The state, and the notices Action::SaveNotice saves.                    *)
State(n) == [n |-> n, save |-> {}]

(* Notifications::after_step, at the end of every core step, and the       *)
(* shell's part: a timer is armed, notices are saved and the push sent,    *)
(* unless the worker is still sending one.                                 *)
AfterStep(s, happened, worker, f, to) ==
    LET statuses == Assess(f)
        told == RecordAll([s EXCEPT !.n = Track(@, statuses)],
                          TrackNotices(s.n, statuses) \o happened)
        timed == ScheduleGrace(told.n)
        sent == Send(timed, to)
    IN  /\ facts' = f /\ topic' = to
        /\ notes' = sent
        /\ graceTimer' = IF sent.grace = s.n.grace THEN graceTimer ELSE sent.grace
        /\ saves' = saves \cup told.save
        /\ sending' = IF sent.delivery = "Sending" /\ worker = NoPush
                      THEN sent.push ELSE worker

Change == changes > 0 /\ changes' = changes - 1
Fault == faults > 0 /\ faults' = faults - 1

-----------------------------------------------------------------------------
(* Another component changes, or an event is worth a notice of its own     *)
(* (Notifications::reported and changed).                                  *)
FactsChange ==
    /\ Change
    /\ \E f \in FactSets \ {facts} :
          AfterStep(State(notes), <<>>, sending, f, topic)
    /\ UNCHANGED <<retryTimer, expired, stored, reading, faults>>

SendTest ==
    /\ Change
    /\ AfterStep(State(notes), <<Happened("Test")>>, sending, facts, topic)
    /\ UNCHANGED <<retryTimer, expired, stored, reading, faults>>

(* The settings are read, or the owner saves or removes the topic.         *)
SettingsRead(to) ==
    /\ topic = "Unread"
    /\ AfterStep(State(notes), <<>>, sending, facts, to)
    /\ UNCHANGED <<retryTimer, expired, stored, reading, changes, faults>>

TopicSaved(to) ==
    /\ topic \notin {"Unread", to}
    /\ Change
    /\ AfterStep(State(notes), <<>>, sending, facts, to)
    /\ UNCHANGED <<retryTimer, expired, stored, reading, faults>>

-----------------------------------------------------------------------------
(* The log's newest identity, 0 when it is empty.                          *)
Newest == Max({entry.entry : entry \in stored} \cup {0})

(* NotificationEvent::LogRead: notices that waited take their places.      *)
LogRead ==
    LET n == [notes EXCEPT !.log = "Ready", !.next = Newest + 1,
                           !.waiting = <<>>]
    IN  /\ reading /\ reading' = FALSE
        /\ AfterStep(RecordAll(State(n), notes.waiting), <<>>, sending, facts, topic)
        /\ UNCHANGED <<retryTimer, expired, stored, changes, faults>>

(* NotificationEvent::LogReadFailed: Notifications::log_unavailable.       *)
LogReadFailed ==
    LET n == [notes EXCEPT !.log = "Unavailable", !.waiting = <<>>]
    IN  /\ reading /\ reading' = FALSE
        /\ Fault
        /\ AfterStep(RecordAll(State(n), notes.waiting), <<>>, sending, facts, topic)
        /\ UNCHANGED <<retryTimer, expired, stored, changes>>

-----------------------------------------------------------------------------
(* notify::send ends.  What is not Sending ignores it.                     *)
Delivered ==
    /\ sending # NoPush
    /\ AfterStep(State([notes EXCEPT !.delivery = "Idle", !.failures = 0]),
                 <<>>, NoPush, facts, topic)
    /\ UNCHANGED <<retryTimer, expired, stored, reading, changes, faults>>

(* Waits double from the first to the longest.                             *)
RetryWait(failures) == Min({RetryFirst * 2^(failures - 1), RetryMax})

(* Mutant: a failed delivery starts no timer.                              *)
DeliveryFailedUntimed ==
    /\ sending # NoPush
    /\ Fault
    /\ UNCHANGED retryTimer
    /\ AfterStep(State([notes EXCEPT !.delivery = "Retrying",
                                     !.retry = FreshId, !.failures = @ + 1]),
                 <<>>, NoPush, facts, topic)
    /\ UNCHANGED <<expired, stored, reading, changes>>

(* The push may have reached ntfy all the same.                            *)
DeliveryFailed ==
    /\ sending # NoPush
    /\ Fault
    /\ retryTimer' = [id |-> FreshId, left |-> RetryWait(notes.failures + 1)]
    /\ AfterStep(State([notes EXCEPT !.delivery = "Retrying",
                                     !.retry = FreshId, !.failures = @ + 1]),
                 <<>>, NoPush, facts, topic)
    /\ UNCHANGED <<expired, stored, reading, changes>>

-----------------------------------------------------------------------------
(* A timer's task wakes and sends its expiry.                              *)
FireGrace ==
    /\ graceTimer # NoTimer /\ graceTimer.left = 0
    /\ graceTimer' = NoTimer
    /\ expired' = Append(expired, graceTimer.id)
    /\ UNCHANGED <<notes, facts, topic, retryTimer, sending, saves, stored,
                   reading, changes, faults>>

FireRetry ==
    /\ retryTimer # NoTimer /\ retryTimer.left = 0
    /\ retryTimer' = NoTimer
    /\ expired' = Append(expired, retryTimer.id)
    /\ UNCHANGED <<notes, facts, topic, graceTimer, sending, saves, stored,
                   reading, changes, faults>>

(* Mutant: a push sent again goes to the end.                              *)
ExpiredAtEnd(n, id) ==
    LET due == n.delivery = "Retrying" /\ n.retry = id
    IN  [n EXCEPT !.grace = IF @.id = id THEN NoTimer ELSE @,
                  !.outbox = IF due THEN Append(@, n.push) ELSE @,
                  !.delivery = IF due THEN "Idle" ELSE @]

(* Notifications::timer_expired: the push goes back to the front.          *)
Expired(n, id) ==
    LET due == n.delivery = "Retrying" /\ n.retry = id
    IN  [n EXCEPT !.grace = IF @.id = id THEN NoTimer ELSE @,
                  !.outbox = IF due THEN <<n.push>> \o @ ELSE @,
                  !.delivery = IF due THEN "Idle" ELSE @]

TimerExpired ==
    /\ expired # <<>> /\ expired' = Tail(expired)
    /\ AfterStep(State(Expired(notes, Head(expired))), <<>>, sending, facts, topic)
    /\ UNCHANGED <<retryTimer, stored, reading, changes, faults>>

Later(timer) == [timer EXCEPT !.left = Max({@ - Tick, 0})]

TimePasses ==
    /\ graceTimer' = Later(graceTimer) /\ retryTimer' = Later(retryTimer)
    /\ notes' = [notes EXCEPT
          !.grace = Later(@),
          !.held = [c \in DOMAIN @ |-> IF notes.conditions[c] = "Pending"
                                       THEN Min({@[c] + Tick, Grace(c)}) ELSE @[c]]]
    /\ UNCHANGED <<facts, topic, expired, sending, saves, stored, reading,
                   changes, faults>>

-----------------------------------------------------------------------------
(* storage::save_notice: the oldest are forgotten with it.  Only a later   *)
(* start reads the log again.                                              *)
FinishSave(entry) ==
    /\ faults > 0
    /\ saves' = saves \ {entry}
    /\ stored' = {old \in stored \cup {entry} : old.entry > entry.entry - LogKept}
    /\ UNCHANGED <<notes, facts, topic, graceTimer, retryTimer, expired, sending,
                   reading, changes, faults>>

FailSave(entry) ==
    /\ Fault
    /\ saves' = saves \ {entry}
    /\ UNCHANGED <<notes, facts, topic, graceTimer, retryTimer, expired, sending,
                   stored, reading, changes>>

(* Nothing is known of the other components at a start.                    *)
StartFacts ==
    [watched |-> FALSE, failing |-> FALSE, protected |-> FALSE,
     blocked |-> FALSE, switching |-> FALSE, forwarding |-> "Disabled",
     qbittorrent |-> "Disabled", listed |-> FALSE, allowed |-> FALSE,
     errors |-> FALSE, filesMissing |-> FALSE, registry |-> "Unread",
     missing |-> FALSE, saveFailed |-> FALSE, behind |-> FALSE,
     session |-> "Unverified", seedbox |-> "Unconfirmed",
     lookupsFail |-> FALSE, addressKnown |-> FALSE, hold |-> "None",
     standing |-> "Unknown", unresolved |-> FALSE, reach |-> "Fine",
     refused |-> FALSE, read |-> FALSE, account |-> {}]

(* Windlass stops at once and starts again: unsent pushes are gone.        *)
Crash ==
    /\ Fault
    /\ notes' = NewNotes
    /\ facts' = StartFacts /\ topic' = "Unread"
    /\ graceTimer' = NoTimer /\ retryTimer' = NoTimer /\ expired' = <<>>
    /\ sending' = NoPush /\ saves' = {} /\ reading' = TRUE
    /\ UNCHANGED <<stored, changes>>

-----------------------------------------------------------------------------
Init ==
    /\ notes = NewNotes
    /\ facts = StartFacts /\ topic = "Unread"
    /\ graceTimer = NoTimer /\ retryTimer = NoTimer /\ expired = <<>>
    /\ sending = NoPush /\ saves = {} /\ stored = {} /\ reading = TRUE
    /\ changes = MaxChanges /\ faults = MaxFaults

Next ==
    \/ FactsChange \/ SendTest
    \/ \E to \in {"None", "Set"} : SettingsRead(to) \/ TopicSaved(to)
    \/ LogRead \/ LogReadFailed
    \/ Delivered \/ DeliveryFailed
    \/ FireGrace \/ FireRetry \/ TimerExpired \/ TimePasses
    \/ \E entry \in saves : FinishSave(entry) \/ FailSave(entry)
    \/ Crash

(* Settings and log are read, sends end within SEND_TIMEOUT, due timers    *)
(* fire and are handled, and time passes.                                  *)
Fairness ==
    /\ WF_topic(topic = "Unread" /\ topic' \in {"None", "Set"})
    /\ WF_reading(reading /\ reading' = FALSE)
    /\ WF_sending(sending # NoPush /\ sending' = NoPush)
    /\ WF_expired(expired # <<>> /\ expired' = Tail(expired))
    /\ WF_vars(FireGrace) /\ WF_vars(FireRetry) /\ WF_vars(TimePasses)

Spec == Init /\ [][Next]_vars /\ Fairness

-----------------------------------------------------------------------------
(* The outbox never holds more than its limit after a step, although a     *)
(* push that failed goes back in front of a full one; and pushes go out in *)
(* the order their notices were decided: the one being sent or retried is  *)
(* older than the ones waiting, and those are in order, through failures,  *)
(* drops and retries (Notifications::timer_expired and enqueue).           *)
OutboxKept ==
    LET waiting == (IF notes.delivery = "Idle" THEN <<>> ELSE <<notes.push>>)
                   \o notes.outbox
    IN  /\ Len(notes.outbox) <= OutboxLimit
        /\ notes.log = "Ready" =>
              \A i, j \in DOMAIN waiting :
                  i < j => waiting[i].entry < waiting[j].entry

(* A condition that goes on holding is told of: its grace ends with a      *)
(* timer, whatever timers other conditions needed in between               *)
(* (Notifications::schedule_grace).                                        *)
HeldIsTold ==
    \A c \in ToSet(Tracked) :
        (Assess(facts)[c] = "Active") ~>
            (Assess(facts)[c] # "Active" \/ notes.conditions[c] = "Raised")

(* The outbox empties: every push is delivered, dropped for a newer one,   *)
(* or discarded with the topic (Notifications::send and handle).           *)
OutboxDrains == notes.outbox # <<>> ~> notes.outbox = <<>>

=============================================================================
