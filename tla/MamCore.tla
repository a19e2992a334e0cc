------------------------------- MODULE MamCore ------------------------------
(***************************************************************************)
(* What the core's part for MAM is and what an event does to it            *)
(* (core/mam/mod.rs, core/mam/network.rs and the cookie of                 *)
(* core/settings.rs): the request gate, the connection epoch, the one      *)
(* outstanding request and the addresses MAM has shown and confirmed, as   *)
(* functions of the Mam.  MamSession has the events, the workers and MAM.  *)
(*                                                                         *)
(* What account and acquisition want to send is any request here.          *)
(* Requests are of four kinds: the IP lookup, the seedbox registration,    *)
(* reads (user data, bookmarks, a torrent, the wedge history) and spends   *)
(* (a purchase, a torrent fetch).  Spacing in time is in MamSpacing.       *)
(***************************************************************************)
EXTENDS Integers, Sequences

CONSTANTS
    OwnerCookies,    \* cookies the owner pastes
    IssuedCookies,   \* cookies MAM issues
    Addresses,       \* the VPN servers' exit addresses
    MaxEpoch         \* bound on connections

NoCookie == "NoCookie"
NoAddress == "NoAddress"
Cookies == OwnerCookies \cup IssuedCookies

S == INSTANCE Setting WITH Values <- Cookies \cup {NoCookie}

NotLoaded == [persistence |-> "NotLoaded", saved |-> NoCookie,
              requested |-> NoCookie, pending |-> NoCookie]

Requests == {"LookUpIp", "RegisterSeedbox", "Read", "Spend"}

(* Outstanding; stage is None when nothing is.                             *)
Outstanding == [stage : {"None", "SavingRegistration", "Request"},
                request : Requests \cup {"None"},
                cookie : Cookies \cup {NoCookie},
                epoch : 0..MaxEpoch]
NoRequest == [stage |-> "None", request |-> "None", cookie |-> NoCookie,
              epoch |-> 0]

Mam ==
    [enabled : BOOLEAN,                        \* MamHosts::Configured
     gate : {"Open", "Closed"},
     session : {"Unverified", "Verified", "Rejected", "Mismatch"},
     seen : Addresses \cup {NoAddress},        \* Rejected's seen
     observed : Addresses \cup {NoAddress},    \* Network::current
     seedbox : Addresses \cup {NoAddress, "Refused"},  \* confirmed, if it is
     download : Addresses \cup {NoAddress},    \* confirmed_download_ip
     reading : BOOLEAN,                        \* the account has been read
     spending : BOOLEAN,                       \* a spend is being made
     inUse : Cookies \cup {NoCookie},
     issued : Cookies \cup {NoCookie},
     epoch : 0..MaxEpoch,
     outstanding : Outstanding]

NewMam ==
    [enabled |-> FALSE, gate |-> "Closed", session |-> "Unverified",
     seen |-> NoAddress, observed |-> NoAddress, seedbox |-> NoAddress,
     download |-> NoAddress, reading |-> FALSE, spending |-> FALSE,
     inUse |-> NoCookie, issued |-> NoCookie, epoch |-> 0,
     outstanding |-> NoRequest]

Operations == {"WriteApiCookie", "WriteRotatedApiCookie",
               "SaveRegistrationAttempt", "MamRequest"}

(* A job, and its answer once there is one.                                *)
Job == [op : Operations, request : Requests \cup {"None"},
        cookie : Cookies \cup {NoCookie},
        answer : {"None", "Ok", "NotAllowed", "Mismatch", "Failed"},
        address : Addresses \cup {NoAddress},
        rotated : IssuedCookies \cup {NoCookie}]
NewJob(op, request, value) ==
    [op |-> op, request |-> request, cookie |-> value, answer |-> "None",
     address |-> NoAddress, rotated |-> NoCookie]

-----------------------------------------------------------------------------
(* SettingsState and Settings::usable_api_cookie.                          *)
RequestedCookie(c) == c.requested
UsableCookie(c) == IF c.persistence = "Idle" THEN c.saved ELSE NoCookie

(* MamRequest::needs_cookie.                                               *)
NeedsCookie(request) == request # "LookUpIp"

(* Session::blocks.                                                        *)
Blocks(m) ==
    \/ m.session = "Rejected"
    \/ /\ m.session = "Mismatch"
       /\ m.observed = NoAddress \/ m.seen = m.observed

(* Mam::disconnect.                                                        *)
Disconnect(m) ==
    [m EXCEPT !.epoch = @ + 1, !.session = "Unverified", !.seen = NoAddress,
              !.observed = NoAddress, !.seedbox = NoAddress,
              !.download = NoAddress]

(* Mam::follow_gate.                                                       *)
FollowGate(m, runs, protects) ==
    LET gate == IF m.enabled /\ runs /\ protects THEN "Open" ELSE "Closed"
        left == IF m.gate = "Open" /\ gate = "Closed" THEN Disconnect(m) ELSE m
    IN  [left EXCEPT !.gate = gate]

(* Mam::follow_cookie.  No cookie asked for equals none issued, so that    *)
(* removing the cookie does not start another connection unless an issued  *)
(* one is waiting to be saved.                                             *)
FollowCookie(m, c) ==
    LET requested == RequestedCookie(c)
    IN  IF requested # m.inUse /\ requested # m.issued
        THEN [m EXCEPT !.inUse = requested, !.issued = NoCookie,
                       !.epoch = @ + 1, !.session = "Unverified",
                       !.seen = NoAddress, !.seedbox = NoAddress,
                       !.download = NoAddress]
        ELSE IF UsableCookie(c) # NoCookie /\ UsableCookie(c) = m.issued
        THEN [m EXCEPT !.inUse = m.issued, !.issued = NoCookie]
        ELSE m

(* Mam::follow_connectability, when the latest reading says that MAM       *)
(* cannot reach qBittorrent.                                               *)
Repair(m) == [m EXCEPT !.observed = NoAddress, !.seedbox = NoAddress]

(* Mutant: work with MAM does not wait for the IP lookup.                  *)
WantedUnseen(m, value) ==
    {"LookUpIp"} \cup
    IF value = NoCookie THEN {}
    ELSE {"Read", "Spend"} \cup
         IF m.seedbox \in {m.observed, "Refused"} THEN {}
         ELSE {"RegisterSeedbox"}

(* Mam::wanted, whatever account and acquisition want; value is the usable *)
(* cookie if the session does not block it.                                *)
Wanted(m, value) ==
    {"LookUpIp"} \cup
    IF value = NoCookie \/ m.observed = NoAddress THEN {}
    ELSE {"Read", "Spend"} \cup
         IF m.seedbox \in {m.observed, "Refused"} THEN {}
         ELSE {"RegisterSeedbox"}

(* What decide sends; "None" when nothing is due or the budget is spent.   *)
Sendable(m, value) ==
    {"None"} \cup IF m.gate = "Open" /\ m.outstanding.stage = "None"
                  THEN Wanted(m, value) ELSE {}

Send(m, request, value) ==
    CASE request = "None" -> m
      [] request = "RegisterSeedbox" ->
            [m EXCEPT !.outstanding =
                [stage |-> "SavingRegistration", request |-> request,
                 cookie |-> value, epoch |-> m.epoch]]
      [] OTHER ->
            [m EXCEPT !.outstanding =
                [stage |-> "Request", request |-> request,
                 cookie |-> NoCookie, epoch |-> m.epoch],
                      !.spending = @ \/ request = "Spend"]

Sent(request, value) ==
    CASE request = "None" -> <<>>
      [] request = "RegisterSeedbox" ->
            <<NewJob("SaveRegistrationAttempt", request, value)>>
      [] OTHER ->
            <<NewJob("MamRequest", request,
                     IF NeedsCookie(request) THEN value ELSE NoCookie)>>

CookieWrites(op, values) ==
    [i \in 1..Len(values) |-> NewJob(op, "None", values[i])]

-----------------------------------------------------------------------------
(* Storage results and answers.                                            *)

(* Mutant: a saved registration is sent on whatever connection there is,   *)
(* unless the gate is closed.                                              *)
AttemptSavedAnyEpoch(m, ok) ==
    LET o == m.outstanding
    IN  IF o.stage # "SavingRegistration" THEN [mam |-> m, sent |-> <<>>]
        ELSE IF ~ok
        THEN [mam |-> [m EXCEPT !.outstanding = NoRequest,
                                !.seedbox = NoAddress], sent |-> <<>>]
        ELSE IF m.gate = "Closed" \/ m.observed = NoAddress
        THEN [mam |-> [m EXCEPT !.outstanding = NoRequest], sent |-> <<>>]
        ELSE [mam |-> [m EXCEPT !.outstanding =
                          [o EXCEPT !.stage = "Request", !.cookie = NoCookie]],
              sent |-> <<NewJob("MamRequest", "RegisterSeedbox", o.cookie)>>]

(* RegistrationAttemptSaved and RegistrationAttemptSaveFailed: the mam and *)
(* the request it sends.                                                   *)
AttemptSaved(m, ok) ==
    LET o == m.outstanding
    IN  IF o.stage # "SavingRegistration" THEN [mam |-> m, sent |-> <<>>]
        ELSE IF ~ok
        THEN [mam |-> [m EXCEPT !.outstanding = NoRequest,
                                !.seedbox = NoAddress], sent |-> <<>>]
        ELSE IF o.epoch # m.epoch
        THEN [mam |-> [m EXCEPT !.outstanding = NoRequest], sent |-> <<>>]
        ELSE [mam |-> [m EXCEPT !.outstanding =
                          [o EXCEPT !.stage = "Request", !.cookie = NoCookie]],
              sent |-> <<NewJob("MamRequest", "RegisterSeedbox", o.cookie)>>]

(* Mam::follow_session.                                                    *)
FollowSession(m, request, answer) ==
    CASE answer = "Ok" -> [m EXCEPT !.session = "Verified", !.seen = NoAddress]
      [] answer = "NotAllowed" /\ request # "RegisterSeedbox" ->
            [m EXCEPT !.session = "Rejected", !.seen = m.observed]
      [] answer = "Mismatch" ->
            [m EXCEPT !.session = "Mismatch", !.seen = m.observed]
      [] OTHER -> m

(* What an answer on the present connection changes.                       *)
Learned(m, request, job) ==
    LET followed == IF NeedsCookie(request)
                    THEN FollowSession(m, request, job.answer) ELSE m
        ok == job.answer = "Ok"
    IN  CASE request = "Spend" -> [followed EXCEPT !.spending = FALSE]
          [] request = "LookUpIp" /\ ok ->
                [followed EXCEPT !.observed = job.address]
          [] request = "RegisterSeedbox" /\ ok ->
                [followed EXCEPT !.seedbox = job.address,
                                 !.download = job.address]
          [] request = "RegisterSeedbox" /\ ~ok ->
                [followed EXCEPT !.seedbox = IF job.answer = "NotAllowed"
                                             THEN "Refused" ELSE NoAddress]
          [] request = "Read" /\ ok -> [followed EXCEPT !.reading = TRUE]
          [] OTHER -> followed

(* Mutant: what an answer shows is believed on any connection.             *)
AnsweredAnyEpoch(m, request, job) == Learned(m, request, job)

(* Mam::answered: of an answer on an earlier connection, only a spend's    *)
(* outcome is recorded.                                                    *)
Answered(m, request, job) ==
    IF m.outstanding.epoch = m.epoch THEN Learned(m, request, job)
    ELSE IF request = "Spend" THEN [m EXCEPT !.spending = FALSE]
    ELSE m

(* Mutant: a cookie is kept whatever connection it came on.                *)
RotatedAnyEpoch(m, job) ==
    IF NeedsCookie(m.outstanding.request) THEN job.rotated ELSE NoCookie

(* MamEvent::Answered's cookie, kept only on the connection it came on.    *)
Rotated(m, job) ==
    IF m.outstanding.epoch = m.epoch /\ NeedsCookie(m.outstanding.request)
    THEN job.rotated ELSE NoCookie
=============================================================================
