------------------------------ MODULE MamWork -------------------------------
(***************************************************************************)
(* Windlass's work on MAM (core/mam/mod.rs): one request at a time, chosen *)
(* from what the account, the bookmarks and the running downloads need;    *)
(* what each answer changes; and with it MAM, qBittorrent, SQLite, lost    *)
(* answers and crashes.                                                    *)
(*                                                                         *)
(* The session, its cookie and its epochs are in MamSession, the spacing   *)
(* of requests in MamSpacing, and how qBittorrent is brought to what the   *)
(* registry wants in Torrents.  Here the session is accepted, the budget   *)
(* has a token, and qBittorrent does what the registry wants.              *)
(*                                                                         *)
(* Time that only makes knowledge older, faults, the owner's acts and      *)
(* MAM's changes share a budget, so that every behaviour ends in peace.    *)
(***************************************************************************)
EXTENDS Acquisition, MamReply

CONSTANTS
    Addresses,         \* the VPN servers' exit addresses, in the order used
    Prompt,            \* no wedge attempt comes of age during a request
    FirstSites,        \* the bookmarks, freeleech, wedges, points, days of
                       \* VIP and client lists that Windlass may find, and
                       \* the bound on the downloaded figure
    Changing,          \* torrents whose listing changes
    ClientLists,       \* client lists MAM may show
    MaxDisturbances    \* bound on what MAM, the owner, time and faults do

VARIABLES
    mam,        \* the core's Mam
    rows,       \* the registry's row of each MAM torrent
    kept,       \* the same rows in SQLite
    client,     \* each torrent in qBittorrent, as the registry observes it
    recent,     \* torrents qBittorrent added within RECENT_ADMISSION
    ready,      \* ClientReadiness
    saves,      \* SaveRatioGuard on workers
    saved,      \* the saved ratio guard
    site,       \* MAM
    answer,     \* MAM's answer on its way
    open,       \* MAM requests run and the VPN protects
    start,      \* "Reading" the saved state, within its first "Minute", "Past"
    poked,      \* the core has a timer or a report of qBittorrent to take
    accepted,   \* history: the downloaded figure the owner last accepted
    calm        \* disturbances left

coreVars == <<mam, rows, saves, poked>>
stored == <<kept, saved>>
torrentVars == <<client, recent, ready>>
vars == <<coreVars, stored, torrentVars, site, answer, open, start, accepted,
          calm>>

Running == "v"      \* the running qBittorrent's version
NoAddress == "None"

NoRequest == [op |-> "None", id |-> "None", wedge |-> "None",
              clients |-> FALSE, start |-> 0, current |-> TRUE]
Request(op) == [NoRequest EXCEPT !.op = op]

NoAnswer == [kind |-> "None", data |-> NoData, page |-> <<>>, found |-> 0,
             flag |-> "None", snatched |-> FALSE, spent |-> {},
             address |-> NoAddress]
Lost == [NoAnswer EXCEPT !.kind = "Lost"]

NewMam ==
    [gate |-> FALSE,              \* the request gate is open
     shown |-> NoAddress,         \* Network::current
     confirmed |-> NoAddress,     \* the seedbox's confirmed address
     download |-> NoAddress,      \* confirmed_download_ip
     verified |-> FALSE,          \* Session::Verified
     allowed |-> TRUE,            \* a registration is allowed now
     spaced |-> TRUE,             \* an IP lookup is allowed now
     acct |-> NewAccount,
     acq |-> NewAcquisition,
     guard |-> Guard("Reading", NoFigure),
     reach |-> "Fine", settled |-> FALSE,
     out |-> NoRequest]

Disturb == calm > 0 /\ calm' = calm - 1

-----------------------------------------------------------------------------
(* Records::downloads and Records::queued.                                 *)
Download(rws, id) ==
    [id |-> id, active |-> rws[id] = "Active",
     complete |-> client[id] = "Complete",
     recent |-> client[id] = "Absent" \/ id \in recent]

Downloads(rws) ==
    LET mine == SelectSeq(Ids, LAMBDA id : rws[id] \in {"Active", "Held"})
    IN  [i \in DOMAIN mine |-> Download(rws, mine[i])]

IsQueued(rws, id) == rws[id] \in {"Queued", "Requeued"}

Queued(rws) == SelectSeq(Ids, LAMBDA id : IsQueued(rws, id))

IsDownloading(download) == download.active /\ ~download.complete

(* Acquisition::watch_all's filter.                                        *)
Watched(rws) ==
    SelectSeq(Downloads(rws), LAMBDA d : ~d.complete \/ d.recent)

(* Mam::permits_download.                                                  *)
PermitsDownload(m, rws, id) ==
    /\ m.shown # NoAddress
    /\ m.gate /\ m.verified
    /\ PermitsDownloads(m.guard)
    /\ m.download = m.shown \/ m.acq.reapproved[id] = m.shown
    /\ \/ id \in m.acq.newly
       \/ \E i \in DOMAIN Watched(rws) :
             /\ Watched(rws)[i].id = id
             /\ Watch(m.acq, m.acct, id) \in {"Wedged", "FreeForNow"}

-----------------------------------------------------------------------------
(* Mam::follow_downloads: a download shown free runs; one that is not free *)
(* and cannot be wedged stops.                                             *)
State(m, rws) == [m |-> m, rows |-> rws]

(* Mutant: a download without a wedge to spend is only told of when it is  *)
(* complete.                                                               *)
NoticedComplete(m, download) ==
    LET watch == Watch(m.acq, m.acct, download.id)
    IN  \/ watch \in {"WedgeMissing", "Unlisted"}
        \/ watch = "NotFree" /\ download.complete

(* Why a watched download stops, or the owner is told of it.               *)
Noticed(m, download) ==
    LET watch == Watch(m.acq, m.acct, download.id)
    IN  \/ watch \in {"WedgeMissing", "Unlisted"}
        \/ /\ watch = "NotFree"
           /\ download.complete \/ (m.acct.read /\ m.acct.data.wedges = 0)

ShownFree(m, id) == Watch(m.acq, m.acct, id) \in {"Wedged", "FreeForNow"}

FollowDownloads(m, rws) ==
    LET watched == ToSet(Watched(rws))
        free == {d.id : d \in {w \in watched : ShownFree(m, w.id)}}
        told == {d.id : d \in {w \in watched : Noticed(m, w)}}
        tripped == m.guard.kind = "Tripped"
        resumed == {id \in free : rws[id] = "Held" /\ PermitsDownloads(m.guard)}
        held == {d.id : d \in {w \in watched :
                    IsDownloading(w) /\ (tripped \/ Noticed(m, w))}}
    IN  State([m EXCEPT !.acq.reapproved =
                            [id \in Torrents |->
                                IF id \in resumed /\ m.shown # NoAddress
                                THEN m.shown ELSE @[id]],
                        !.acq.reported = (@ \ free) \cup told],
              [id \in Torrents |-> IF id \in resumed THEN "Active"
                                   ELSE IF id \in held THEN "Held"
                                   ELSE rws[id]])

-----------------------------------------------------------------------------
(* Mam::decide.                                                            *)

Disconnect(m) ==
    [m EXCEPT !.verified = FALSE, !.shown = NoAddress,
              !.confirmed = NoAddress, !.download = NoAddress,
              !.acq.newly = {},
              !.acq.reapproved = [id \in Torrents |-> NoAddress],
              !.out.current = FALSE]

FollowGate(m, opened) ==
    [(IF m.gate /\ ~opened THEN Disconnect(m) ELSE m) EXCEPT !.gate = opened]

(* A repair observes and registers again.                                  *)
FollowConnectability(m) ==
    LET reach == FollowReach(m.reach, m.acct, Running)
    IN  IF RepairWanted(m.reach, m.acct, Running)
        THEN [m EXCEPT !.reach = "Repaired", !.settled = FALSE,
                       !.acct.late = FALSE,
                       !.shown = NoAddress, !.confirmed = NoAddress]
        ELSE [m EXCEPT !.reach = reach]

(* newly_fetched keeps what qBittorrent has not reported yet.              *)
WatchDownloads(m, rws) ==
    [m EXCEPT !.acq.newly = {id \in @ : /\ rws[id] = "Active"
                                        /\ client[id] = "Absent"},
              !.acct.downloading =
                  \E i \in DOMAIN Downloads(rws) : IsDownloading(Downloads(rws)[i])]

(* Mutant: downloads MAM has not counted yet do not count.                 *)
FactsUncounted(m, rws) ==
    [gate |-> m.gate,
     seedbox |-> m.shown # NoAddress /\ m.confirmed = m.shown,
     ready |-> ready,
     standing |-> ClientStanding(m.acct, Running),
     recent |-> 0,
     downloading |-> Len(SelectSeq(Downloads(rws), IsDownloading)),
     guard |-> m.guard]

Facts(m, rws) ==
    [gate |-> m.gate,
     seedbox |-> m.shown # NoAddress /\ m.confirmed = m.shown,
     ready |-> ready,
     standing |-> ClientStanding(m.acct, Running),
     recent |-> Len(SelectSeq(Downloads(rws), LAMBDA d : d.recent)),
     downloading |-> Len(SelectSeq(Downloads(rws), IsDownloading)),
     guard |-> m.guard]

(* acquisition_request.                                                    *)
AcquisitionRequest(want) ==
    CASE want.kind = "Fetch" ->
           [Request("FetchTorrent") EXCEPT !.id = want.id, !.wedge = want.wedge]
      [] want.kind = "LookUp" -> [Request("LookUpTorrent") EXCEPT !.id = want.id]
      [] want.kind = "NeedHistory" -> Request("WedgeHistory")
      [] OTHER -> NoRequest

(* Mam::wanted, for an observed address once the IP was looked up.         *)
Wanted(m, watching, next, early) ==
    LET page == [Request("ListBookmarks") EXCEPT !.start = Len(m.acq.listing)]
        listing == BookmarksWanted(m.acq)
        Single(want) == IF want.kind = "LookUp" /\ listing THEN NoRequest
                        ELSE AcquisitionRequest(want)
    IN  IF m.shown = NoAddress
        THEN IF m.spaced THEN Request("LookUpIp") ELSE NoRequest
        ELSE IF m.confirmed # m.shown /\ m.allowed
        THEN Request("RegisterSeedbox")
        ELSE IF AccountWanted(m.acct, early)
        THEN [Request("LoadUserData") EXCEPT !.clients = m.acct.statsDue]
        ELSE IF watching.kind = "LookUp" /\ listing THEN page
        ELSE IF Single(watching) # NoRequest THEN Single(watching)
        ELSE IF WantedPurchase(m.acct) THEN Request("Buy")
        ELSE IF Single(next) # NoRequest THEN Single(next)
        ELSE IF listing THEN page
        ELSE NoRequest

(* What sending the request notes.                                         *)
Sent(m, rws, request) ==
    LET noted == [m EXCEPT !.out = request]
    IN  CASE request.op = "LookUpIp" -> [noted EXCEPT !.spaced = FALSE]
          [] request.op = "RegisterSeedbox" -> [noted EXCEPT !.allowed = FALSE]
          [] request.op = "LoadUserData" -> [noted EXCEPT !.acct.spaced = FALSE]
          [] request.op = "Buy" -> [noted EXCEPT !.acct = Buying(@)]
          [] request.op = "FetchTorrent" ->
               [noted EXCEPT !.acq = Fetching(@, request.id, request.wedge),
                             !.acct.admitted = @ /\ ~IsQueued(rws, request.id)]
          [] OTHER -> noted

(* The end of a core step.                                                 *)
Decide(m0, rws, opened) ==
    LET m == WatchDownloads(FollowConnectability(FollowGate(m0, opened)), rws)
        next == AdmissionNext(m.acq, m.acct, Queued(rws), Facts(m, rws))
        watching == WatchNext(m.acq, m.acct, Watched(rws))
        early == \/ next = NeedReading \/ watching = NeedReading
                 \/ m.acct.purchase.outcome = "Uncertain"
        hold == CASE next.kind = "Hold" -> next.id
                  [] next = NeedReading /\ ~m.acct.read -> "AccountUnknown"
                  [] OTHER -> "None"
        held == [m EXCEPT !.acq.hold = hold]
        request == Wanted(m, watching, next, early)
    IN  IF m.gate /\ m.out.op = "None" /\ request # NoRequest
        THEN Sent(held, rws, request)
        ELSE held

(* A core step that leaves this state before it decides.                   *)
Step(state, opened) ==
    /\ mam' = Decide(state.m, state.rows, opened)
    /\ rows' = state.rows
    /\ poked' = FALSE

-----------------------------------------------------------------------------
(* What an answer changes: Mam::answered.                                  *)

NewGuard(m, data) == Observe(m.guard, data.downloaded)

(* Mam::purchased: MAM may have sold although the answer is lost, but not  *)
(* when it turned the request away.                                        *)
Purchased(m, ans) ==
    Bought(m.acct,
           CASE ans.kind = "Ok" -> "Made"
             [] ans.kind = "Lost" -> "Uncertain"
             [] OTHER -> "Refused",
           ans.data.points)

(* Mam::fetched.                                                           *)
Fetched(m, rws, request, ans) ==
    CASE ans.kind = "Ok" /\ IsQueued(rws, request.id) ->
           State([m EXCEPT !.acq.newly = @ \cup {request.id}],
                 [rws EXCEPT ![request.id] = "Active"])
      [] ans.kind = "Ok" /\ ~IsQueued(rws, request.id) ->
           FollowDownloads(m, rws)
      [] ans.kind = "Refused" -> State([m EXCEPT !.acq.refused = TRUE], rws)
      [] OTHER -> State(m, rws)

(* Records::snatched: only a queued bookmark waits for the owner.          *)
Snatched(rws, ids) ==
    [id \in Torrents |-> IF id \in ids /\ rws[id] = "Queued" THEN "Snatched"
                         ELSE rws[id]]

(* Mam::listed.                                                            *)
ListedPage(m, rws, ans) ==
    LET acq == Page(m.acq, ans.page, ans.found)
        entries == ToSet(m.acq.listing \o ans.page)
        before == {e.id : e \in {x \in entries : x.snatched}}
        known == Snatched(rws, before)
        new == [id \in Torrents |->
                  IF known[id] = "Unknown" /\ id \in {e.id : e \in entries}
                  THEN IF id \in before THEN "Snatched" ELSE "Queued"
                  ELSE known[id]]
    IN  IF acq.inListing THEN State([m EXCEPT !.acq = acq], rws)
        ELSE FollowDownloads([m EXCEPT !.acq = acq], new)

(* The answers that count only on the connection they were asked on.       *)
AnsweredOk(m, rws, request, ans) ==
    CASE request.op = "LookUpIp" ->
           State([m EXCEPT !.shown = ans.address], rws)
      [] request.op = "RegisterSeedbox" ->
           State([m EXCEPT !.confirmed = ans.address,
                           !.download = ans.address], rws)
      [] request.op = "LoadUserData" ->
           FollowDownloads([m EXCEPT
               !.acct = AccountRead(@, ans.data, m.settled),
               !.guard = NewGuard(m, ans.data)], rws)
      [] request.op = "WedgeHistory" ->
           FollowDownloads([m EXCEPT !.acq = HistoryRead(@, ans.spent)], rws)
      [] request.op = "LookUpTorrent" ->
           FollowDownloads([m EXCEPT !.acq = LookedUp(@, request.id, ans.flag)],
                           Snatched(rws, IF ans.snatched THEN {request.id}
                                         ELSE {}))
      [] request.op = "ListBookmarks" -> ListedPage(m, rws, ans)

AnsweredFailed(m, rws, request) ==
    State(CASE request.op = "LoadUserData" ->
                 [m EXCEPT !.acct = AccountFailed(@)]
            [] request.op = "WedgeHistory" ->
                 [m EXCEPT !.acq = HistoryFailed(@)]
            [] request.op = "LookUpTorrent" ->
                 [m EXCEPT !.acq = LookupFailed(@)]
            [] request.op = "ListBookmarks" ->
                 [m EXCEPT !.acq = BookmarksFailed(@)]
            [] OTHER -> m, rws)

(* Purchases and fetches are recorded whenever they arrive.                *)
AnsweredMam(m0, rws, request, ans) ==
    LET verified == request.current /\ request.op # "LookUpIp" /\ ans.kind = "Ok"
        m == [m0 EXCEPT !.out = NoRequest, !.verified = @ \/ verified]
    IN  CASE request.op = "Buy" ->
               State([m EXCEPT !.acct = Purchased(m, ans)], rws)
          [] request.op = "FetchTorrent" -> Fetched(m, rws, request, ans)
          [] OTHER ->
               IF ~request.current THEN State(m, rws)
               ELSE IF ans.kind = "Ok" THEN AnsweredOk(m, rws, request, ans)
               ELSE AnsweredFailed(m, rws, request)

(* Saves matter to a later start; without another crash there is none.     *)
Saving(guard) == IF calm > 0 THEN saves \cup {guard} ELSE saves

(* The guard is saved whenever a reading moved it.                         *)
SavesAfter(before, after) ==
    IF after.kind \in {"Watching", "Tripped"} /\ after # before
    THEN Saving(after) ELSE saves

Answered ==
    LET state == AnsweredMam(mam, rows, mam.out, answer)
    IN  /\ mam.out.op # "None" /\ answer.kind # "None"
        /\ Step(state, open)
        /\ saves' = SavesAfter(mam.guard, state.m.guard)
        /\ answer' = NoAnswer
        /\ UNCHANGED <<stored, torrentVars, site, open, start, accepted, calm>>

-----------------------------------------------------------------------------
(* MAM (external).  A wedged fetch spends a wedge; the bonus history shows *)
(* it once it is recorded.  spent counts the wedges spent on each torrent. *)
(* MAM counts a download as unsatisfied some time after it began, and      *)
(* anything may use ratio.  What is recorded, counted and used only shows  *)
(* when MAM is asked, so it is chosen then.                                *)
Wedged == {id \in Torrents : site.spent[id] > 0}

Begun == {id \in Torrents : client[id] # "Absent"}

(* The owner may spend points on MAM's site while a purchase is uncertain. *)
PointsLeft ==
    IF mam.acct.purchase.outcome = "Uncertain" THEN {site.points, site.points - 1}
    ELSE {site.points}

ToldData(counted, downloaded, points) ==
    [downloaded |-> downloaded, wedges |-> site.wedges,
     points |-> points, vip |-> site.vip,
     unsatisfied |-> Cardinality(counted),
     connectable |-> site.reached,
     clients |-> IF mam.out.clients THEN site.clients ELSE NoList]

ToldPage ==
    LET told == SubSeq(site.bookmarks, mam.out.start + 1,
                       Min({mam.out.start + PageSize, Len(site.bookmarks)}))
    IN  [i \in DOMAIN told |->
            [id |-> told[i], flag |-> site.flags[told[i]],
             snatched |-> told[i] \in site.snatched]]

Told(kind) == [NoAnswer EXCEPT !.kind = kind]

(* MAM takes the request and answers.                                      *)
MamTakes ==
    LET r == mam.out
        cost == Cost(VipWeeks(site.vip), VipPricePerWeek)
    IN  /\ r.op # "None" /\ answer = NoAnswer
        /\ CASE r.op \in {"LookUpIp", "RegisterSeedbox"} ->
                  /\ answer' = [Told("Ok") EXCEPT !.address = site.address]
                  /\ UNCHANGED site
             [] r.op = "LoadUserData" ->
                  \E counted \in SUBSET Begun,
                     downloaded \in site.downloaded..site.most,
                     points \in PointsLeft :
                     /\ site.counted \subseteq counted
                     /\ answer' = [Told("Ok") EXCEPT !.data =
                                     ToldData(counted, downloaded, points)]
                     /\ site' = [site EXCEPT !.counted = counted,
                                             !.downloaded = downloaded,
                                             !.points = points]
             [] r.op = "ListBookmarks" ->
                  /\ answer' = [Told("Ok") EXCEPT !.page = ToldPage,
                                   !.found = Len(site.bookmarks)]
                  /\ UNCHANGED site
             [] r.op = "LookUpTorrent" ->
                  /\ answer' = [Told("Ok") EXCEPT !.flag = site.flags[r.id],
                                   !.snatched = r.id \in site.snatched]
                  /\ UNCHANGED site
             [] r.op = "WedgeHistory" ->
                  \E recorded \in SUBSET Wedged :
                     /\ site.recorded \subseteq recorded
                     /\ answer' = [Told("Ok") EXCEPT !.spent = recorded]
                     /\ site' = [site EXCEPT !.recorded = recorded]
             [] r.op = "Buy" ->
                  IF site.points >= cost
                  THEN /\ answer' = [Told("Ok") EXCEPT
                                        !.data.points = site.points - cost]
                       /\ site' = [site EXCEPT !.points = @ - cost,
                                     !.vip = VipFill,
                                     !.oversold = @ \/ site.vip >= VipRenewWithin]
                  ELSE answer' = Told("Refused") /\ UNCHANGED site
             [] r.op = "FetchTorrent" ->
                  IF r.wedge = "Keep" THEN answer' = Told("Ok") /\ UNCHANGED site
                  ELSE IF site.wedges = 0
                  THEN /\ answer' = Told("Refused")
                       /\ site' = [site EXCEPT !.refused = TRUE]
                  ELSE /\ answer' = Told("Ok")
                       /\ site' = [site EXCEPT !.wedges = @ - 1,
                                               !.spent[r.id] = @ + 1]
        /\ UNCHANGED <<coreVars, stored, torrentVars, open, start, accepted, calm>>

(* What reaches the core of an answer: the shell's reading of it.  A       *)
(* reading without the snatch summary or the client list lacks only those. *)
Lacking(ans, field) ==
    CASE field = "snatch_summary" ->
           [ans EXCEPT !.data.unsatisfied = NoCount, !.data.connectable = TRUE]
      [] field = "clientStats" -> [ans EXCEPT !.data.clients = NoList]
      [] OTHER -> ans

(* MamFailure::uncertain tells a lost answer from a request turned away.   *)
Received(ans, kind, response) ==
    CASE kind = "Ok" -> Lacking(ans, response.damage.field)
      [] kind = "Refused" -> Told("Refused")
      [] kind \in {"TooSoon", "Session"} -> Told("TurnedAway")
      [] OTHER -> Lost

(* Before MAM took the request only the way to it can answer; a request    *)
(* that is asked to wait was not taken.                                    *)
OnTheWay(op) ==
    {r \in Damaged(op, answer.kind = "Refused") :
        /\ r.status = "Ok" => answer.kind # "None"
        /\ r.status = "TooMany" => answer.kind = "None"}

(* The answer is lost or damaged, or its torrent file cannot be kept.      *)
SpoilAnswer ==
    LET op == mam.out.op
    IN  /\ op # "None" /\ answer.kind \notin {"Lost", "TurnedAway"}
        /\ Disturb
        /\ \/ answer' \in {Received(answer, Perform(op, r, TRUE), r) :
                               r \in OnTheWay(op)}
           \/ /\ op = "FetchTorrent" /\ answer.kind = "Ok"
              /\ LET r == Response("Ok", "Answer")
                 IN  answer' = Received(answer, Perform(op, r, FALSE), r)
        /\ UNCHANGED <<coreVars, stored, torrentVars, site, open, start, accepted>>

RefuseFetch ==
    /\ mam.out.op = "FetchTorrent" /\ answer = NoAnswer
    /\ Disturb
    /\ answer' = Told("Refused")
    /\ site' = [site EXCEPT !.refused = TRUE]
    /\ UNCHANGED <<coreVars, stored, torrentVars, open, start, accepted>>

SiteOnly == <<coreVars, stored, torrentVars, answer, open, start, accepted>>

(* What MAM shows changes; it makes no difference to an answer on its way. *)
SiteChanges ==
    /\ answer = NoAnswer /\ ~poked
    /\ Disturb
    /\ \/ \E id \in Changing, flag \in {"Free", "Cost", "Unlisted"} :
             site' = [site EXCEPT !.flags[id] = flag]
       \/ \E id \in Changing :
             site' = [site EXCEPT !.snatched = @ \cup {id}]
       \/ \E id \in Changing :
             site' = [site EXCEPT !.bookmarks =
                        IF id \in ToSet(@) THEN SelectSeq(@, LAMBDA x : x # id)
                        ELSE Append(@, id)]
       \/ \E list \in ClientLists : site' = [site EXCEPT !.clients = list]
       \/ site' = [site EXCEPT !.reached = ~@]
    /\ site' # site
    /\ UNCHANGED SiteOnly

-----------------------------------------------------------------------------
(* qBittorrent, brought to what the registry wants (Torrents): a permitted *)
(* download is added or started, a held one stopped.                       *)
TorrentsOnly == <<mam, saves, stored, site, answer, open, start, accepted>>

AddOrStart(id) ==
    /\ ~poked /\ ready /\ rows[id] = "Active" /\ client[id] \in {"Absent", "Stopped"}
    /\ PermitsDownload(mam, rows, id)
    /\ client' = [client EXCEPT ![id] = "Running"]
    /\ recent' = IF client[id] = "Absent" THEN recent \cup {id} ELSE recent
    /\ poked' = TRUE
    /\ UNCHANGED <<TorrentsOnly, rows, ready, calm>>

Stop(id) ==
    /\ ~poked /\ ready /\ rows[id] = "Held" /\ client[id] = "Running"
    /\ client' = [client EXCEPT ![id] = "Stopped"]
    /\ poked' = TRUE
    /\ UNCHANGED <<TorrentsOnly, rows, recent, ready, calm>>

(* A torrent that completed while held seeds.                              *)
Complete(id) ==
    /\ ~poked /\ client[id] = "Running"
    /\ client' = [client EXCEPT ![id] = "Complete"]
    /\ rows' = [rows EXCEPT ![id] = IF @ = "Held" THEN "Active" ELSE @]
    /\ poked' = TRUE
    /\ UNCHANGED <<TorrentsOnly, recent, ready, calm>>

ReadyChanges ==
    /\ Disturb
    /\ ready' = ~ready
    /\ poked' = TRUE
    /\ UNCHANGED <<TorrentsOnly, rows, client, recent>>

-----------------------------------------------------------------------------
(* Steps of the core that no answer causes.                                *)
CoreOnly == <<stored, torrentVars, answer, start>>

Wake ==
    /\ poked
    /\ Step(State(mam, rows), open)
    /\ UNCHANGED <<saves, CoreOnly, site, open, accepted, calm>>

(* The tunnel's protection or the owner's pause opens or closes the gate.  *)
(* Nothing is sent in the first minute.                                    *)
GateOpens ==
    /\ ~open /\ start = "Past"
    /\ open' = TRUE
    /\ Step(State(mam, rows), TRUE)
    /\ UNCHANGED <<saves, CoreOnly, site, accepted, calm>>

GateCloses ==
    /\ open
    /\ Disturb
    /\ open' = FALSE
    /\ Step(State(mam, rows), FALSE)
    /\ UNCHANGED <<saves, CoreOnly, site, accepted>>

Later(address) ==
    {Addresses[i + 1] : i \in {j \in 1..Len(Addresses) - 1 : Addresses[j] = address}}

(* Mam::vpn_switched; the VPN only switches while it does not protect.     *)
VpnSwitches ==
    /\ ~open /\ start = "Past"
    /\ \E address \in Later(site.address) :
          site' = [site EXCEPT !.address = address]
    /\ Step(State([mam EXCEPT !.shown = NoAddress, !.confirmed = NoAddress,
                              !.download = NoAddress], rows), FALSE)
    /\ UNCHANGED <<saves, CoreOnly, open, accepted, calm>>

(* The owner checked what used ratio, an unresolved purchase, or wants a   *)
(* snatched torrent again.                                                 *)
RatioUseChecked ==
    LET guard == Checked(mam.guard, mam.acct)
    IN  /\ mam.guard.kind = "Tripped"
        /\ Step(FollowDownloads([mam EXCEPT !.guard = guard], rows), open)
        /\ saves' = Saving(guard)
        /\ accepted' = guard.figure
        /\ UNCHANGED <<CoreOnly, site, open, calm>>

OwnerChecksPurchase(sale) ==
    /\ mam.acct.purchase.outcome = "Unresolved"
    /\ Step(State([mam EXCEPT !.acct = PurchaseChecked(@, sale)], rows), open)
    /\ UNCHANGED <<saves, CoreOnly, site, open, accepted, calm>>

Redownload(id) ==
    /\ rows[id] = "Snatched"
    /\ Step(State(mam, [rows EXCEPT ![id] = "Requeued"]), open)
    /\ UNCHANGED <<saves, CoreOnly, site, open, accepted, calm>>

-----------------------------------------------------------------------------
(* SQLite.  Saves of the guard run on workers in any order; the registry's *)
(* batches are in Torrents.                                                *)
StoreOnly == <<mam, rows, poked, torrentVars, site, answer, open, start, accepted>>

FinishSave(guard) ==
    /\ calm > 0
    /\ saves' = saves \ {guard}
    /\ saved' = guard
    /\ UNCHANGED <<StoreOnly, kept, calm>>

FailSave(guard) ==
    /\ Disturb
    /\ saves' = saves \ {guard}
    /\ UNCHANGED <<StoreOnly, stored>>

SaveRows ==
    /\ kept # rows
    /\ calm > 0
    /\ kept' = rows
    /\ UNCHANGED <<StoreOnly, saves, saved, calm>>

(* Windlass stops at once and starts again.                                *)
Crash ==
    /\ Disturb
    /\ mam' = NewMam
    /\ rows' = kept
    /\ saves' = {}
    /\ answer' = NoAnswer
    /\ open' = FALSE /\ start' = "Reading" /\ poked' = FALSE
    /\ UNCHANGED <<stored, torrentVars, site, accepted>>

(* MamEvent::StateRead and StateReadFailed, within the first minute.       *)
StateRead ==
    /\ start = "Reading" /\ start' = "Minute"
    /\ Step(State([mam EXCEPT !.guard = Restored(saved)], rows), open)
    /\ UNCHANGED <<saves, stored, torrentVars, answer, site, open, accepted, calm>>

StateReadFailed ==
    /\ start = "Reading" /\ start' = "Minute"
    /\ Disturb
    /\ Step(State([mam EXCEPT !.guard = Guard("ReadFailed", NoFigure)], rows),
            open)
    /\ UNCHANGED <<saves, stored, torrentVars, answer, site, open, accepted>>

-----------------------------------------------------------------------------
(* Time.  MAM records a wedge within a minute of the fetch, or of the      *)
(* start that forgot it.                                                   *)
TimeOnly == <<rows, saves, stored, client, ready, answer, open, accepted>>

Passes == answer.kind = "None" /\ ~poked

FirstMinute ==
    /\ start = "Minute"
    /\ start' = "Past"
    /\ site' = [site EXCEPT !.recorded = Wedged]
    /\ UNCHANGED <<TimeOnly, mam, recent, poked, calm>>

(* A wedge attempt is old enough to show in the history.                   *)
AttemptAges(id) ==
    /\ Prompt => Passes
    /\ mam.acq.attempts[id] = "Sent"
    /\ mam.out.op # "FetchTorrent" \/ mam.out.id # id
    /\ mam' = [mam EXCEPT !.acq.attempts[id] = "Recorded"]
    /\ site' = [site EXCEPT !.recorded = @ \cup ({id} \cap Wedged)]
    /\ poked' = TRUE
    /\ UNCHANGED <<TimeOnly, recent, start, calm>>

(* A wait ends once something waits for it.  An hour ends them all.        *)
MinuteOver(m) ==
    [m EXCEPT !.acct.spaced = TRUE, !.spaced = @ \/ m.shown = NoAddress]

FiveMinutesOver(m) ==
    [MinuteOver(m) EXCEPT !.acq.lookupFailed = FALSE,
                          !.acq.historyFailed = FALSE,
                          !.acct.backoff = FALSE,
                          !.acct.due = @ \/ m.acct.backoff]

HourOver(m) ==
    [FiveMinutesOver(m) EXCEPT
        !.allowed = @ \/ m.shown \notin {NoAddress, m.confirmed},
        !.settled = m.reach = "Repaired"]

WaitEnds ==
    /\ mam.out.op = "None" /\ Passes
    /\ mam' \in {MinuteOver(mam), FiveMinutesOver(mam), HourOver(mam)}
    /\ mam' # mam
    /\ poked' = TRUE
    /\ UNCHANGED <<TimeOnly, site, recent, start, calm>>

(* Knowledge that MAM no longer bears out, or that a decision waits to     *)
(* have renewed, ages by itself; to age sooner is a disturbance.           *)
Older(report) == [report EXCEPT !.age = IF @ = "Fresh" THEN "Watch" ELSE "Old"]

Outdated(id, report) == report.flag \notin {"None", site.flags[id]}

ReadingAwaited ==
    \/ [mam.acct.data EXCEPT !.unsatisfied = 0]
         # [ToldData({}, site.downloaded, site.points) EXCEPT !.clients = NoList]
    \/ mam.settled /\ ~mam.acct.late

Aged(awaited, m) == [awaited |-> awaited, m |-> m]

Agings ==
    {Aged(FALSE, [mam EXCEPT !.acct.fresh = FALSE]),
     Aged(ReadingAwaited, [mam EXCEPT !.acct.fresh = FALSE,
                                      !.acct.due = ~mam.acct.backoff]),
     Aged(mam.acct.clients # site.clients, [mam EXCEPT !.acct.statsDue = TRUE]),
     Aged(mam.acct.refused /\ VipWeeks(mam.acct.data.vip) > 0,
          [mam EXCEPT !.acct.refused = FALSE, !.acct.fresh = FALSE,
                      !.acct.due = ~mam.acct.backoff]),
     Aged(FALSE, [mam EXCEPT !.acq.due = TRUE]),
     Aged(FALSE, [mam EXCEPT !.acq.history = IF @ = "Fresh" THEN "Old" ELSE @]),
     Aged(\E id \in Torrents : Outdated(id, mam.acq.latest[id]),
          [mam EXCEPT !.acq.latest = [id \in Torrents |-> Older(@[id])],
                      !.acq.due = TRUE])}
    \cup {Aged(Outdated(id, mam.acq.lookups[id]),
               [mam EXCEPT !.acq.lookups[id] = Older(@)]) : id \in Torrents}

KnowledgeAges ==
    /\ Passes
    /\ \E aged \in Agings :
          /\ mam' = aged.m /\ aged.m # mam
          /\ IF aged.awaited THEN UNCHANGED calm ELSE Disturb
    /\ poked' = TRUE
    /\ UNCHANGED <<TimeOnly, site, recent, start>>

(* MAM counts a download soon enough that a reading still fresh an hour    *)
(* after qBittorrent added it shows it.                                    *)
RecentEnds(id) ==
    /\ Passes
    /\ id \in recent
    /\ IF mam.acct.fresh
       THEN /\ id \in site.counted
            /\ mam.acct.data.unsatisfied = Cardinality(site.counted)
            /\ UNCHANGED site
       ELSE site' = [site EXCEPT !.counted = @ \cup {id}]
    /\ recent' = recent \ {id}
    /\ poked' = TRUE
    /\ UNCHANGED <<TimeOnly, mam, start, calm>>

-----------------------------------------------------------------------------
Init ==
    /\ mam = NewMam
    /\ rows = [id \in Torrents |-> "Unknown"]
    /\ kept = rows
    /\ client = [id \in Torrents |-> "Absent"]
    /\ recent = {} /\ ready = TRUE
    /\ saves = {}
    /\ saved = Guard("Watching", 1)
    /\ \E first \in FirstSites :
          site = [flags |-> first.flags, bookmarks |-> first.bookmarks,
                  wedges |-> first.wedges, points |-> first.points,
                  vip |-> first.vip, clients |-> first.clients, snatched |-> {},
                  spent |-> [id \in Torrents |-> 0], recorded |-> {},
                  counted |-> {}, downloaded |-> 1,
                  most |-> first.most, reached |-> TRUE,
                  oversold |-> FALSE, refused |-> FALSE,
                  address |-> Head(Addresses)]
    /\ answer = NoAnswer
    /\ open = FALSE /\ start = "Reading" /\ poked = FALSE
    /\ accepted = 1
    /\ calm = MaxDisturbances

Next ==
    \/ Answered \/ MamTakes \/ SpoilAnswer \/ RefuseFetch
    \/ SiteChanges
    \/ \E id \in Torrents :
          \/ AddOrStart(id) \/ Stop(id) \/ Complete(id) \/ Redownload(id)
          \/ RecentEnds(id) \/ AttemptAges(id)
    \/ ReadyChanges \/ Wake \/ GateOpens \/ GateCloses \/ VpnSwitches
    \/ RatioUseChecked
    \/ \E sale \in {"Sold", "NotSold"} : OwnerChecksPurchase(sale)
    \/ \E guard \in saves : FinishSave(guard) \/ FailSave(guard)
    \/ SaveRows \/ Crash \/ StateRead \/ StateReadFailed
    \/ FirstMinute \/ WaitEnds \/ KnowledgeAges

(* MAM answers and the answer is taken; the first minute passes, the gate  *)
(* opens and the core's timers fire; waits end and what is awaited falls   *)
(* due; qBittorrent stops what is held.                                    *)
Fairness ==
    /\ WF_vars(MamTakes)
    /\ WF_answer(answer.kind # "None" /\ answer' = NoAnswer)
    /\ WF_poked(poked /\ poked' = FALSE)
    /\ WF_open(~open /\ start = "Past" /\ open' = TRUE)
    /\ WF_start(start = "Reading" /\ start' = "Minute")
    /\ WF_start(start = "Minute" /\ start' = "Past")
    /\ WF_vars(WaitEnds)
    /\ WF_mam(Passes /\ mam' \in {aged.m : aged \in {a \in Agings : a.awaited}})
    /\ \A id \in Torrents :
          /\ WF_client(/\ ready /\ rows[id] = "Held" /\ client[id] = "Running"
                       /\ client' = [client EXCEPT ![id] = "Stopped"])
          /\ WF_vars(AttemptAges(id))

Spec == Init /\ [][Next]_vars /\ Fairness

-----------------------------------------------------------------------------
(* Never a second wedge on one torrent, even after a lost answer or a      *)
(* crash: a fetch whose outcome is not known is settled by a bonus history *)
(* old enough to show it (Acquisition::history_settles).                   *)
WedgeOnce == \A id \in Torrents : site.spent[id] <= 1

(* MAM never sells VIP that was not due: a purchase with a lost answer     *)
(* holds the next one until it is settled, and one MAM turned away is      *)
(* tried again on a new reading only (Account::wanted_purchase).           *)
NoSecondSale == ~site.oversold

(* What the registry has downloading or held stays within the unsatisfied  *)
(* limit less the reserve, whether MAM has counted it or not, also after a *)
(* crash (Facts::recent in Acquisition::next).                             *)
UnsatisfiedKept ==
    Cardinality({id \in Torrents : rows[id] \in {"Active", "Held"}})
        + UnsatisfiedReserve <= UnsatLimit

(* Downloads are held as refused only once MAM refused one: a body that    *)
(* could not be read is no answer (shell/mam.rs's perform, Mam::fetched).  *)
RefusedByMam == mam.acq.refused => site.refused

(* Ratio use the owner has not accepted is never taken for granted: the    *)
(* guard has tripped, or watches from a lower figure and so will trip at   *)
(* the next reading; across crashes and saves that finish in any order.    *)
UseFoundAgain ==
    site.downloaded > accepted =>
        LET guard == IF mam.guard.kind \in {"Reading", "ReadFailed"} THEN saved
                     ELSE mam.guard
        IN  guard.kind = "Tripped" \/ guard.figure < site.downloaded

Costs(id) ==
    client[id] = "Running" /\ site.flags[id] # "Free" /\ id \notin Wedged

(* A download that counts against the ratio is wedged, stopped, finished,  *)
(* or becomes free, while qBittorrent can be told (Mam::follow_downloads,  *)
(* Acquisition::watch_next).                                               *)
NotFreeSettles ==
    \A id \in Torrents : (Costs(id) /\ ready) ~> (~Costs(id) \/ ~ready)

(* A purchase with a lost answer is settled by a reading, or left to the   *)
(* owner (Account::settle).                                                *)
PurchaseSettles ==
    mam.acct.purchase.outcome = "Uncertain" ~>
        mam.acct.purchase.outcome # "Uncertain"
=============================================================================
