---------------------------- MODULE Acquisition -----------------------------
(***************************************************************************)
(* Bookmark acquisition (core/mam/acquisition.rs): what Windlass knows of  *)
(* each torrent from MAM's bookmark listing, lookups by ID and the bonus   *)
(* history, which queued torrent is fetched next and whether with a wedge, *)
(* and the watch that keeps running downloads free.                        *)
(*                                                                         *)
(* As in Account, instants are kept as the questions the code asks.        *)
(***************************************************************************)
EXTENDS Account, SequencesExt, Functions

CONSTANTS
    Ids,               \* MAM torrents, in the order their rows are made
    PageSize,          \* bookmarks on a page
    MaxBookmarkPages,  \* pages of one listing
    Downloading        \* the owner's downloading limit

Torrents == ToSet(Ids)

(* A report of a torrent: its freeleech ("Free" for everyone or through a  *)
(* wedge, "Vip", "Cost"; "Unlisted" when MAM no longer lists it), whether  *)
(* MAM reports it snatched, and how old the report is: at most             *)
(* LOOKUP_FRESH_FOR, at most WATCH_FRESH_FOR, or older.                    *)
NoReport == [flag |-> "None", age |-> "Old"]

NewAcquisition ==
    [latest |-> [id \in Torrents |-> NoReport],   \* the latest complete list
     listing |-> <<>>, inListing |-> FALSE,       \* a listing in progress
     due |-> TRUE,                                \* a listing is due
     lookups |-> [id \in Torrents |-> NoReport],
     later |-> {},           \* lookups later than the latest list
     history |-> "None",     \* "Fresh" within HISTORY_FRESH_FOR, or "Old"
     wedged |-> {},          \* the torrents it shows a wedge spent on
     after |-> {},           \* torrents whose latest lookup it follows
     afterList |-> FALSE,    \* it follows the latest list
     covers |-> {},          \* wedge attempts recorded when it was read
     attempts |-> [id \in Torrents |-> "None"],   \* "Sent" or "Recorded"
     refused |-> FALSE,
     hold |-> "None",
     reported |-> {},
     newly |-> {},
     reapproved |-> [id \in Torrents |-> "None"],
     lookupFailed |-> FALSE,    \* failed within RETRY_AFTER
     historyFailed |-> FALSE]

-----------------------------------------------------------------------------
(* Listing bookmarks.                                                      *)
BookmarksWanted(q) == q.inListing \/ q.due

BookmarksFailed(q) ==
    [q EXCEPT !.listing = <<>>, !.inListing = FALSE, !.due = FALSE]

(* Bookmarks::page, on a page of reports and the number of bookmarks MAM   *)
(* found.                                                                  *)
Page(q, page, found) ==
    LET listing == q.listing \o page
        done == \/ page = <<>>
                \/ Len(listing) >= found
                \/ Len(listing) >= MaxBookmarkPages * PageSize
        Entry(id) == {i \in DOMAIN listing : listing[i].id = id}
        Report(id) == IF Entry(id) = {} THEN NoReport
                      ELSE [flag |-> listing[Min(Entry(id))].flag,
                            age |-> "Fresh"]
    IN  IF done
        THEN [q EXCEPT !.latest = [id \in Torrents |-> Report(id)],
                       !.listing = <<>>, !.inListing = FALSE, !.due = FALSE,
                       !.later = {}, !.afterList = FALSE]
        ELSE [q EXCEPT !.listing = listing, !.inListing = TRUE]

Listed(q, id) == q.latest[id].flag # "None"

(* Acquisition::latest.                                                    *)
Latest(q, id) ==
    IF id \in q.later \/ ~Listed(q, id) THEN q.lookups[id] ELSE q.latest[id]

LookedUp(q, id, flag) ==
    [q EXCEPT !.lookups[id] = [flag |-> flag, age |-> "Fresh"],
              !.lookupFailed = FALSE,
              !.later = @ \cup {id}, !.after = @ \ {id}]

LookupFailed(q) == [q EXCEPT !.lookupFailed = TRUE]

HistoryRead(q, spent) ==
    [q EXCEPT !.history = "Fresh", !.wedged = spent,
              !.historyFailed = FALSE,
              !.after = Torrents, !.afterList = TRUE,
              !.covers = {id \in Torrents : q.attempts[id] = "Recorded"}]

HistoryFailed(q) == [q EXCEPT !.historyFailed = TRUE]

(* Whether the history was read at or after the latest report of id.       *)
HistoryFollows(q, id) ==
    /\ q.history # "None"
    /\ IF id \in q.later \/ ~Listed(q, id) THEN id \in q.after ELSE q.afterList

Covered(q, id) == q.attempts[id] = "None" \/ id \in q.covers

(* Mutant: any recent history settles whether a wedge was spent.           *)
HistorySettlesEarly(q, id) == q.history = "Fresh"

(* Acquisition::history_settles.                                           *)
HistorySettles(q, id) == q.history = "Fresh" /\ Covered(q, id)

MayAskHistory(q, id) == ~q.historyFailed /\ q.attempts[id] # "Sent"

(* free_for_owner: VIP torrents are free while the account is VIP.         *)
FreeForOwner(flag, data) == flag = "Free" \/ (flag = "Vip" /\ data.vip > 0)

-----------------------------------------------------------------------------
(* The next request admission or the watch wants.                          *)
Want(kind, id, wedge) == [kind |-> kind, id |-> id, wedge |-> wedge]
Idle == Want("Idle", "None", "None")
Hold(why) == Want("Hold", why, "None")
NeedHistory == Want("NeedHistory", "None", "None")
NeedReading == Want("NeedReading", "None", "None")
LookUp(id) == Want("LookUp", id, "None")
Fetch(id, wedge) == Want("Fetch", id, wedge)
Ask(allowed, want) == IF allowed THEN want ELSE Idle

(* Facts: gate, seedbox and ready are Booleans; standing is the client's;  *)
(* recent and downloading are counts.                                      *)

(* How an admitted torrent is fetched, from its report of at most five     *)
(* minutes ago and the bonus history.                                      *)
Admit(q, id, data) ==
    LET report == Latest(q, id)
    IN  IF report.age # "Fresh" \/ report.flag = "Unlisted"
        THEN Ask(~q.lookupFailed, LookUp(id))
        ELSE IF FreeForOwner(report.flag, data) THEN Fetch(id, "Keep")
        ELSE IF ~HistorySettles(q, id)
        THEN Ask(MayAskHistory(q, id), NeedHistory)
        ELSE IF id \in q.wedged THEN Fetch(id, "Keep")
        ELSE IF data.wedges = 0 THEN Hold("NoWedge")
        ELSE Fetch(id, "Spend")

(* Acquisition::next, for the first queued torrent still bookmarked and    *)
(* listed.                                                                 *)
AdmissionNext(q, a, queued, facts) ==
    LET open == SelectSeq(queued, LAMBDA id :
                    Listed(q, id) /\ q.lookups[id].flag # "Unlisted")
        count == a.data.unsatisfied + facts.recent
    IN  CASE queued = <<>> -> Idle
          [] OTHER ->
             IF open = <<>> THEN Hold("NotBookmarked")
             ELSE IF ~facts.gate THEN Hold("MamUnavailable")
             ELSE IF ~facts.seedbox THEN Hold("SeedboxUnconfirmed")
             ELSE IF q.refused THEN Hold("DownloadsRefused")
             ELSE IF facts.guard.kind = "Tripped" THEN Hold("RatioUsed")
             ELSE IF ~PermitsDownloads(facts.guard)
             THEN Hold("RatioGuardUnknown")
             ELSE IF ~facts.ready THEN Hold("ClientUnavailable")
             ELSE IF facts.downloading >= Downloading
             THEN Hold("DownloadingLimit")
             ELSE IF ~Fresh(a, a.admitted) THEN NeedReading
             ELSE IF ~ClientAdmits(facts.standing) THEN Hold("MamClientList")
             ELSE IF RatioLow(a.data) THEN Hold("RatioLow")
             ELSE IF a.data.unsatisfied = NoCount THEN Hold("AccountUnknown")
             ELSE IF ~AdmitsOneMore(count) THEN Hold("UnsatisfiedLimit")
             ELSE Admit(q, Head(open), a.data)

(* Acquisition::fetching.                                                  *)
Fetching(q, id, wedge) ==
    IF wedge # "Spend" THEN q
    ELSE [q EXCEPT !.attempts[id] = "Sent", !.covers = @ \ {id}]

-----------------------------------------------------------------------------
(* What Windlass knows of a running download it added.                     *)
Watch(q, a, id) ==
    LET report == Latest(q, id)
    IN  CASE q.history # "None" /\ id \in q.wedged -> "Wedged"
          [] OTHER ->
             IF q.attempts[id] # "None"
             THEN IF q.history # "None" /\ id \in q.covers THEN "WedgeMissing"
                  ELSE "NeedHistory"
             ELSE IF report.age = "Old" THEN "NeedLookup"
             ELSE IF a.read /\ FreeForOwner(report.flag, a.data)
             THEN "FreeForNow"
             ELSE IF ~HistoryFollows(q, id) THEN "NeedHistory"
             ELSE IF report.flag = "Unlisted" THEN "Unlisted"
             ELSE "NotFree"

(* Acquisition::watch_next for one download.                               *)
WatchWants(q, a, download) ==
    LET watch == Watch(q, a, download.id)
    IN  CASE watch = "NeedLookup" -> Ask(~q.lookupFailed, LookUp(download.id))
          [] watch = "NeedHistory" ->
               Ask(MayAskHistory(q, download.id), NeedHistory)
          [] watch = "NotFree" /\ ~download.complete ->
               IF ~Fresh(a, TRUE) THEN NeedReading
               ELSE IF a.data.wedges = 0 THEN Idle
               ELSE Fetch(download.id, "Spend")
          [] OTHER -> Idle

(* Acquisition::watch_next, over the watched downloads.                    *)
WatchNext(q, a, watched) ==
    LET wants == SelectSeq([i \in DOMAIN watched |->
                                WatchWants(q, a, watched[i])],
                           LAMBDA want : want # Idle)
    IN  IF wants = <<>> THEN Idle ELSE Head(wants)
=============================================================================
