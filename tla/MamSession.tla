----------------------------- MODULE MamSession -----------------------------
(***************************************************************************)
(* Windlass's session with MAM: the events that reach MamCore from the     *)
(* rest of the core and from the dashboard, the API cookie and its         *)
(* rotation (core/settings.rs), the workers, MAM itself and crashes.       *)
(***************************************************************************)
EXTENDS MamCore, Jobs

VARIABLES
    mam,         \* the core's Mam
    cookie,      \* the core's api_cookie setting, NotLoaded before it is read
    running,     \* the core's MAM requests status is Running (MamPause)
    protected,   \* the core's tunnel protection is Available (Tunnel)
    jobs,        \* work in flight on workers
    stored,      \* the API cookie in SQLite
    address,     \* the connected server's exit address
    exits,       \* history: the addresses since protection was last found,
                 \* or without protection the present one
    shown        \* history: MAM has shown an address since the last
                 \* disconnection, switch or start

vars == <<mam, cookie, running, protected, jobs, stored, address, exits, shown>>

(* The end of every core step: Mam::decide, on the mam and cookie the      *)
(* event left, with the jobs left and those the event started.             *)
Decide(m, c, left) ==
    \E gated \in {FollowGate(m, running', protected')} :
    \E followed \in {FollowCookie(gated, c)} :
    \E value \in {IF Blocks(followed) THEN NoCookie ELSE UsableCookie(c)},
       ready \in {followed} \cup IF followed.reading THEN {Repair(followed)} ELSE {} :
    \E request \in Sendable(ready, value) :
      /\ ready.epoch <= MaxEpoch
      /\ mam' = Send(ready, request, value)
      /\ cookie' = c
      /\ jobs' = left \o Sent(request, value)
      /\ shown' = /\ mam'.gate = "Open"
                  /\ shown \/ m.observed # NoAddress

-----------------------------------------------------------------------------
(* Events from the rest of the core and from the dashboard.                *)

Enable ==
    /\ ~mam.enabled
    /\ UNCHANGED <<running, protected, stored, address, exits>>
    /\ Decide([mam EXCEPT !.enabled = TRUE], cookie, jobs)

(* MamPause's status changes.                                              *)
PauseOrResume ==
    /\ running' = ~running
    /\ UNCHANGED <<protected, stored, address, exits>>
    /\ Decide(mam, cookie, jobs)

(* The tunnel's protection is lost or found.                               *)
ProtectionChanges ==
    /\ protected' = ~protected
    /\ exits' = IF protected' THEN exits ELSE {address}
    /\ UNCHANGED <<running, stored, address>>
    /\ Decide(mam, cookie, jobs)

(* The unit start moves the tunnel to another server.  The core switches   *)
(* without protection; the one start that outlives its process (orphan in  *)
(* Tunnel) may also come when the next process has found protection.       *)
MoveServer ==
    /\ protected => exits = {address}
    /\ address' \in Addresses \ {address}
    /\ exits' = IF protected THEN exits \cup {address'} ELSE {address'}
    /\ UNCHANGED <<mam, cookie, running, protected, jobs, stored, shown>>

(* TunnelEvent::Switched, which runs Mam::vpn_switched.                    *)
VpnSwitched ==
    /\ ~protected
    /\ UNCHANGED <<running, protected, stored, address, exits>>
    /\ Decide([mam EXCEPT !.observed = NoAddress, !.download = NoAddress],
              cookie, jobs)

(* SettingsEvent::Read.                                                    *)
SettingsRead ==
    /\ cookie = NotLoaded
    /\ UNCHANGED <<running, protected, stored, address, exits>>
    /\ Decide(mam, S!LoadedSetting(stored), jobs)

(* SetApiCookie and ClearApiCookie.                                        *)
SetApiCookie(value) ==
    LET asked == S!RequestValue(cookie, value)
    IN  /\ cookie # NotLoaded
        /\ UNCHANGED <<running, protected, stored, address, exits>>
        /\ Decide(mam, asked.setting,
                  jobs \o CookieWrites("WriteApiCookie", asked.writes))

(* Any other event: a timer, qBittorrent, the registry.                    *)
OtherEvent ==
    /\ UNCHANGED <<running, protected, stored, address, exits>>
    /\ Decide(mam, cookie, jobs)

-----------------------------------------------------------------------------
(* The workers and MAM.                                                    *)

(* storage::execute on a cookie write, which is rolled back if it fails.   *)
WriteCookie(i) ==
    /\ jobs[i].op \in {"WriteApiCookie", "WriteRotatedApiCookie"}
    /\ jobs[i].answer = "None"
    /\ \/ /\ jobs' = [jobs EXCEPT ![i].answer = "Ok"]
          /\ stored' = jobs[i].cookie
       \/ /\ jobs' = [jobs EXCEPT ![i].answer = "Failed"]
          /\ UNCHANGED stored
    /\ UNCHANGED <<mam, cookie, running, protected, address, exits, shown>>

SaveAttempt(i) ==
    /\ jobs[i].op = "SaveRegistrationAttempt"
    /\ jobs[i].answer = "None"
    /\ \E answer \in {"Ok", "Failed"} :
          jobs' = [jobs EXCEPT ![i].answer = answer]
    /\ UNCHANGED <<mam, cookie, running, protected, stored, address, exits, shown>>

(* MamReply::Ip and MamReply::Registered.                                  *)
TellsAddress(request) == request \in {"LookUpIp", "RegisterSeedbox"}

(* mam::perform: MAM tells the connected server's address when it is asked *)
(* for it or registers it, may refuse the cookie, and may issue another;   *)
(* no answer may come.                                                     *)
MamAnswers(i) ==
    /\ jobs[i].op = "MamRequest"
    /\ jobs[i].answer = "None"
    /\ \E answer \in {"Ok", "Failed"} \cup
                      IF NeedsCookie(jobs[i].request)
                      THEN {"NotAllowed", "Mismatch"} ELSE {},
          issued \in {NoCookie} \cup
                    IF NeedsCookie(jobs[i].request)
                    THEN IssuedCookies \ {jobs[i].cookie} ELSE {} :
          jobs' = [jobs EXCEPT
                     ![i].answer = answer,
                     ![i].address = IF answer = "Ok" /\ TellsAddress(jobs[i].request)
                                    THEN address ELSE NoAddress,
                     ![i].rotated = issued]
    /\ UNCHANGED <<mam, cookie, running, protected, stored, address, exits, shown>>

-----------------------------------------------------------------------------
(* Storage results and answers.                                            *)

(* ApiCookieWritten, ApiCookieWriteFailed and the two of a rotation.       *)
CookieCompleted(job) ==
    IF job.op = "WriteRotatedApiCookie" /\ job.answer = "Failed"
    THEN S!ReplacementFailed(cookie)
    ELSE S!CompleteSave(cookie, job.answer = "Ok")

HandleCookieWrite(i) ==
    LET done == CookieCompleted(jobs[i])
    IN  /\ jobs[i].op \in {"WriteApiCookie", "WriteRotatedApiCookie"}
        /\ jobs[i].answer # "None"
        /\ UNCHANGED <<running, protected, stored, address, exits>>
        /\ Decide(mam, done.setting,
                  Without(jobs, i)
                    \o CookieWrites("WriteApiCookie", done.writes))

HandleAttempt(i) ==
    LET next == AttemptSaved(mam, jobs[i].answer = "Ok")
    IN  /\ jobs[i].op = "SaveRegistrationAttempt"
        /\ jobs[i].answer # "None"
        /\ UNCHANGED <<running, protected, stored, address, exits>>
        /\ Decide(next.mam, cookie, Without(jobs, i) \o next.sent)

(* MamEvent::Answered and Core::handle_mam, with settings::rotate.  The    *)
(* event does not say which request it answers.                            *)
HandleAnswer(i) ==
    LET job == jobs[i]
        rotated == Rotated(mam, job)
        told == [Answered(mam, mam.outstanding.request, job)
                    EXCEPT !.outstanding = NoRequest,
                           !.issued = IF rotated = NoCookie THEN @ ELSE rotated]
        asked == S!RequestValue(cookie, rotated)
    IN  /\ job.op = "MamRequest"
        /\ job.answer # "None"
        /\ UNCHANGED <<running, protected, stored, address, exits>>
        /\ IF mam.outstanding.stage # "Request"
           THEN Decide(mam, cookie, Without(jobs, i))
           ELSE IF rotated = NoCookie \/ cookie = NotLoaded
           THEN Decide(told, cookie, Without(jobs, i))
           ELSE Decide(told, asked.setting,
                       Without(jobs, i)
                         \o CookieWrites("WriteRotatedApiCookie", asked.writes))

(* A crash: nothing of the core or of unanswered work survives.            *)
Crash ==
    /\ mam' = NewMam
    /\ cookie' = NotLoaded
    /\ running' = FALSE
    /\ protected' = FALSE
    /\ jobs' = <<>>
    /\ shown' = FALSE
    /\ exits' = {address}
    /\ UNCHANGED <<stored, address>>

-----------------------------------------------------------------------------
Init ==
    /\ mam = NewMam
    /\ cookie = NotLoaded
    /\ running = FALSE
    /\ protected = FALSE
    /\ jobs = <<>>
    /\ stored = NoCookie
    /\ address \in Addresses
    /\ exits = {address}
    /\ shown = FALSE

Work(i) == WriteCookie(i) \/ SaveAttempt(i) \/ MamAnswers(i)

Handle(i) == HandleCookieWrite(i) \/ HandleAttempt(i) \/ HandleAnswer(i)

Next ==
    \/ Enable
    \/ PauseOrResume
    \/ ProtectionChanges
    \/ MoveServer
    \/ VpnSwitched
    \/ SettingsRead
    \/ \E value \in OwnerCookies \cup {NoCookie} : SetApiCookie(value)
    \/ OtherEvent
    \/ \E i \in 1..Len(jobs) : Work(i) \/ Handle(i)
    \/ Crash

Spec == Init /\ [][Next]_vars

-----------------------------------------------------------------------------
(* Every variable has its type; a registration is only ever being saved    *)
(* with a cookie to send it with.                                          *)
TypeOK ==
    /\ mam \in Mam
    /\ mam.outstanding.stage = "SavingRegistration"
         => mam.outstanding.cookie # NoCookie
    /\ cookie \in S!SettingState \cup {NotLoaded}
    /\ running \in BOOLEAN
    /\ protected \in BOOLEAN
    /\ jobs \in Seq(Job)
    /\ stored \in Cookies \cup {NoCookie}
    /\ address \in Addresses
    /\ exits \in SUBSET Addresses
    /\ shown \in BOOLEAN

(* The jobs that a step starts: requests that reach MAM.                   *)
NewRequests ==
    {i \in 1..Len(jobs') : /\ jobs'[i].op = "MamRequest"
                           /\ jobs'[i].answer = "None"
                           /\ \A j \in 1..Len(jobs) : jobs[j] # jobs'[i]}

(* A cookie is used only after MAM has shown the address it sees on this   *)
(* connection, also by a registration that was saved meanwhile             *)
(* (Mam::wanted: the IP lookup comes first after a start or a switch).     *)
CookieWaitsForAddress ==
    [][(\E i \in NewRequests : jobs'[i].cookie # NoCookie) => shown']_vars

(* What the core takes for MAM's current view is the address of a server   *)
(* connected since protection was last found, and downloads run only from  *)
(* an address that MAM confirmed as the seedbox since then, though answers *)
(* arrive after pauses, lost protection and server changes.  That is the   *)
(* present server, unless a start that outlived its process has moved the  *)
(* tunnel under the core (the epoch filter of MamEvent::Answered;          *)
(* docs/mam-rules.md:47, Mam::permits_download).                           *)
AddressesAreReal == {mam.observed, mam.download} \subseteq {NoAddress} \cup exits

(* The answer, which carries no identifier, can only be the outstanding    *)
(* request's: one request or save at a time, across disconnections.        *)
AnswerMatchesRequest ==
    LET busy == {i \in 1..Len(jobs) :
                   jobs[i].op \in {"MamRequest", "SaveRegistrationAttempt"}}
    IN  IF mam.outstanding.stage = "None" THEN busy = {}
        ELSE \E i \in busy :
               /\ busy = {i}
               /\ jobs[i].request = mam.outstanding.request
               /\ (jobs[i].op = "MamRequest")
                    <=> (mam.outstanding.stage = "Request")

(* The cookie taken for saved is the one in SQLite, and a save in progress *)
(* is the only one, through owner changes, rotations and failed writes.    *)
SavedIsStored ==
    LET writes == {i \in 1..Len(jobs) :
             jobs[i].op \in {"WriteApiCookie", "WriteRotatedApiCookie"}}
    IN  /\ cookie.persistence \in {"Idle", "Failed"}
             => writes = {} /\ cookie.saved = stored
        /\ cookie.persistence = "Pending"
             => \E i \in writes : /\ writes = {i}
                                  /\ jobs[i].cookie = cookie.pending

(* MAM is never sent a cookie that the owner has asked to replace by       *)
(* another, also not by a registration that was being saved meanwhile (the *)
(* epoch check at RegistrationAttemptSaved).                               *)
ReplacedCookieUnused ==
    [][\A i \in NewRequests :
         jobs'[i].cookie # NoCookie
           => cookie'.requested \in {jobs'[i].cookie, NoCookie}]_vars

(* The answer at i makes the core ask for the cookie that MAM issued.      *)
RotatesOn(i) ==
    /\ jobs[i].op = "MamRequest"
    /\ jobs[i].rotated # NoCookie
    /\ jobs' # jobs
    /\ cookie'.requested = jobs[i].rotated
    /\ cookie'.requested # cookie.requested

(* A cookie that MAM issues replaces the one its request was sent with,    *)
(* never another that the owner pasted meanwhile, unless the owner has     *)
(* removed the cookie (settings::rotate, behind the epoch filter).         *)
PastedCookieStands ==
    [][\A i \in 1..Len(jobs) :
         RotatesOn(i) => cookie.requested \in {jobs[i].cookie, NoCookie}]_vars

(* When the core asks for a cookie that MAM issued, no change by the owner *)
(* is pending against the saved one (the comment on settings::rotate).     *)
RotationUndisputed ==
    [][\A i \in 1..Len(jobs) :
         RotatesOn(i) => cookie.persistence = "Idle"]_vars

=============================================================================
