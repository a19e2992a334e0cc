-------------------------- MODULE MamSessionProofs --------------------------
(***************************************************************************)
(* The session with MAM keeps to its addresses and cookies, for all sets   *)
(* of cookies and addresses and any number of connections: one lemma per   *)
(* action of MamSession, then the theorems.                                *)
(***************************************************************************)
EXTENDS MamSession, MamSessionLemmas

SessionInv ==
    /\ running \in BOOLEAN /\ protected \in BOOLEAN /\ shown \in BOOLEAN
    /\ stored \in Cookies \cup {NoCookie}
    /\ address \in exits /\ exits \in SUBSET Addresses
    /\ Ends(mam, cookie, running, protected)
    /\ Sound(mam, cookie, jobs, shown, stored, exits)

(* Mam::decide, which ends every step of the core.                         *)
LEMMA DecideSound ==
    ASSUME NEW m, NEW c, NEW left, NEW st, NEW ad,
           Sound(m, c, left, shown, st, ad),
           shown \in BOOLEAN, running' \in BOOLEAN, protected' \in BOOLEAN,
           Decide(m, c, left)
    PROVE  /\ Sound(mam', cookie', jobs', shown', st, ad)
           /\ Ends(mam', cookie', running', protected')
           /\ cookie' = c
           /\ shown' \in BOOLEAN
           /\ m.enabled /\ running' /\ protected' /\ shown => shown'
           /\ SentSafely(c, left, jobs', shown')
<1>1. PICK g : g = FollowGate(m, running', protected')
  BY Zenon
<1>2. PICK f : f = FollowCookie(g, c)
  BY Zenon
<1>3. PICK value : value = IF Blocks(f) THEN NoCookie ELSE UsableCookie(c)
  BY Zenon
<1>4. PICK r \in {f} \cup IF f.reading THEN {Repair(f)} ELSE {} :
        \E request \in Sendable(r, value) :
          /\ r.epoch <= MaxEpoch
          /\ mam' = Send(r, request, value)
          /\ cookie' = c
          /\ jobs' = left \o Sent(request, value)
          /\ shown' = /\ mam'.gate = "Open"
                      /\ shown \/ m.observed # NoAddress
  BY <1>1, <1>2, <1>3, Zenon DEF Decide
<1>5. r \in {f, Repair(f)}
  BY <1>4, Zenon
<1>6. PICK request \in Sendable(r, value) :
        /\ r.epoch <= MaxEpoch
        /\ mam' = Send(r, request, value)
        /\ cookie' = c
        /\ jobs' = left \o Sent(request, value)
        /\ shown' = /\ mam'.gate = "Open"
                    /\ shown \/ m.observed # NoAddress
  BY <1>4, Zenon
<1>7. /\ Sound(g, c, left, shown, st, ad)
      /\ g.observed \in {m.observed, NoAddress}
      /\ g.gate = "Open" <=> m.enabled /\ running' /\ protected'
      /\ g.enabled = m.enabled
  <2>1. Sound(g, c, left, shown, st, ad) /\ Followed(m, g, running', protected')
    <3>1. PICK runs \in BOOLEAN, protects \in BOOLEAN :
            runs = running' /\ protects = protected'
      BY Zenon
    <3>2. g = FollowGate(m, runs, protects)
      BY <1>1, <3>1, Zenon
    <3>3. Sound(g, c, left, shown, st, ad) /\ Followed(m, g, runs, protects)
      BY <3>2, GateSound
    <3> QED  BY <3>1, <3>3, Zenon
  <2> QED  BY <2>1, Zenon DEF Followed
<1>8. /\ Sound(f, c, left, shown, st, ad)
      /\ f.observed = g.observed
      /\ f.gate = g.gate /\ f.enabled = g.enabled
      /\ c.requested \in {f.inUse, f.issued}
      /\ UsableCookie(c) # NoCookie =>
           /\ c.requested = UsableCookie(c)
           /\ f.inUse = UsableCookie(c) /\ f.issued # f.inUse
  BY <1>2, <1>7, CookieSound
<1>9. /\ Sound(r, c, left, shown, st, ad)
      /\ r.observed \in {f.observed, NoAddress}
      /\ r.gate = f.gate /\ r.enabled = f.enabled
      /\ r.inUse = f.inUse /\ r.issued = f.issued
  <2>1. CASE r = Repair(f)
    BY <1>8, <2>1, RepairSound
  <2>2. CASE r = f
    BY <1>8, <2>2, Zenon
  <2> QED  BY <1>5, <2>1, <2>2, Zenon
<1>10. PICK n : n = Send(r, request, value)
  BY Zenon
<1>11. PICK sent : sent = Sent(request, value)
  BY Zenon
<1>12. PICK sh1 \in BOOLEAN :
         sh1 = (n.gate = "Open" /\ (shown \/ m.observed # NoAddress))
  BY Zenon
<1>13. n.gate = r.gate
  <2>1. r \in MamState
    BY <1>9, Zenon DEF Sound, Typed
  <2> QED  BY <1>10, <2>1, Zenon DEF Send, MamState
<1>14. r.gate = "Open" /\ (shown \/ r.observed # NoAddress) => sh1
  BY <1>7, <1>8, <1>9, <1>12, <1>13, Zenon
<1>15. value # NoCookie => value = UsableCookie(c)
  BY <1>3, Zenon
<1>16. Settled(r, c)
  BY <1>8, <1>9, Zenon DEF Settled
<1>17. /\ Sound(n, c, left \o sent, sh1, st, ad)
       /\ SameLink(r, n)
       /\ SentSafely(c, left, left \o sent, sh1)
  <2>1. Sends(r, c, left, shown, st, ad, value, request, n, sent, sh1)
    BY <1>6, <1>9, <1>10, <1>11, <1>14, <1>15, <1>16, SMTT(20) DEF Sends
  <2> QED  BY <2>1, SendSound, Zenon DEF Sending
<1>18. mam' = n /\ jobs' = left \o sent /\ shown' = sh1 /\ cookie' = c
  BY <1>6, <1>10, <1>11, <1>12, ZenonT(30)
<1>19. Ends(mam', cookie', running', protected')
  BY <1>6, <1>7, <1>8, <1>9, <1>17, <1>18, SMTT(20) DEF Ends, SameLink
<1>20. m.enabled /\ running' /\ protected' /\ shown => shown'
  BY <1>7, <1>8, <1>9, <1>12, <1>17, <1>18, Zenon DEF SameLink
<1> QED  BY <1>12, <1>17, <1>18, <1>19, <1>20, Zenon

-----------------------------------------------------------------------------
(* The steps.                                                              *)

(* A request that a step starts with a cookie.                             *)
NewSafe ==
    \A j \in Elems(jobs') :
      /\ j.op = "MamRequest" /\ j.cookie # NoCookie /\ j.answer = "None"
      /\ j \notin Elems(jobs)
      => shown' /\ cookie'.requested \in {j.cookie, NoCookie}

(* A step that MAM's rotations make safe.                                  *)
Stands ==
    \A i \in 1..Len(jobs) :
      RotatesOn(i) => cookie.requested \in {jobs[i].cookie, NoCookie}

(* An action that hands a sound state to Decide is safe.                   *)
LEMMA CoreStep ==
    ASSUME SessionInv, NEW m, NEW c, NEW left,
           Sound(m, c, left, shown, stored, exits),
           running' \in BOOLEAN, protected' \in BOOLEAN,
           UNCHANGED <<stored, address, exits>>,
           Decide(m, c, left),
           \A j \in Elems(left) :
             j.op = "MamRequest" /\ j.cookie # NoCookie =>
               \/ j \in Elems(jobs)
               \/ /\ m.enabled /\ running' /\ protected' /\ shown
                  /\ c.requested \in {j.cookie, NoCookie}
    PROVE  SessionInv' /\ NewSafe /\ cookie' = c
<1>0. shown \in BOOLEAN
  BY Zenon DEF SessionInv
<1>1. /\ Sound(mam', cookie', jobs', shown', stored, exits)
      /\ Ends(mam', cookie', running', protected')
      /\ cookie' = c
      /\ shown' \in BOOLEAN
      /\ m.enabled /\ running' /\ protected' /\ shown => shown'
      /\ SentSafely(c, left, jobs', shown')
  BY <1>0, DecideSound, Zenon
<1>2. stored' = stored /\ address' = address /\ exits' = exits
  BY Zenon
<1>3. SessionInv'
  BY <1>1, <1>2, Zenon DEF SessionInv
<1>4. NewSafe
  BY <1>1, Zenon DEF NewSafe, SentSafely
<1> QED  BY <1>1, <1>3, <1>4, Zenon

(* The jobs that stay were there before.                                   *)
LEMMA CoreStepKept ==
    ASSUME SessionInv, NEW m, NEW c, NEW left,
           Sound(m, c, left, shown, stored, exits),
           running' \in BOOLEAN, protected' \in BOOLEAN,
           UNCHANGED <<stored, address, exits>>,
           Decide(m, c, left),
           \A j \in Elems(left) : j.op = "MamRequest" => j \in Elems(jobs)
    PROVE  SessionInv' /\ NewSafe /\ cookie' = c
  BY CoreStep, Zenon


LEMMA EnableSafe ==
    ASSUME SessionInv, Enable
    PROVE  SessionInv' /\ NewSafe /\ Stands
<1>1. PICK f : f = [mam EXCEPT !.enabled = TRUE]
  BY Zenon
<1>2. mam \in MamState /\ Shut(mam) /\ mam.epoch \in Nat
  BY Zenon DEF SessionInv, Sound, Typed, MamState
<1>3. /\ f \in MamState
      /\ f.outstanding = mam.outstanding /\ f.epoch = mam.epoch
      /\ f.observed = mam.observed /\ f.download = mam.download
      /\ f.inUse = mam.inUse /\ f.issued = mam.issued /\ f.gate = mam.gate
  BY <1>1, <1>2, Zenon DEF MamState
<1>4. Shut(f) /\ f.epoch >= mam.epoch
  BY <1>2, <1>3 DEF Shut, Current
<1>5. \A k : Holds(mam, cookie, k) => Holds(f, cookie, k)
  BY <1>3, Zenon DEF Holds
<1>6. Sound(mam, cookie, jobs, shown, stored, exits)
  BY Zenon DEF SessionInv
<1>7. Sound(f, cookie, jobs, shown, stored, exits)
  BY <1>3, <1>4, <1>5, <1>6, KnowsNoMore, Zenon
<1>8. /\ Decide(f, cookie, jobs)
      /\ running' \in BOOLEAN /\ protected' \in BOOLEAN
      /\ UNCHANGED <<stored, address, exits>>
  BY <1>1, Zenon DEF Enable, SessionInv
<1>9. SessionInv' /\ NewSafe /\ cookie' = cookie
  BY <1>7, <1>8, CoreStepKept, Zenon
<1> QED  BY <1>9, Zenon DEF Stands, RotatesOn

LEMMA EventSafe ==
    ASSUME SessionInv, PauseOrResume \/ OtherEvent
    PROVE  SessionInv' /\ NewSafe /\ Stands
<1>1. Sound(mam, cookie, jobs, shown, stored, exits)
  BY Zenon DEF SessionInv
<1>2. /\ Decide(mam, cookie, jobs)
      /\ UNCHANGED <<stored, address, exits>>
  BY Zenon DEF PauseOrResume, OtherEvent
<1>3. running' \in BOOLEAN /\ protected' \in BOOLEAN
  BY Zenon DEF PauseOrResume, OtherEvent, SessionInv
<1>4. SessionInv' /\ NewSafe /\ cookie' = cookie
  BY <1>1, <1>2, <1>3, CoreStepKept, Zenon
<1> QED  BY <1>4, Zenon DEF Stands, RotatesOn

(* Behind the closed gate no address is known.                             *)
LEMMA ShutAnywhere ==
    ASSUME NEW m, NEW c, NEW js, NEW sh, NEW st, NEW ad, NEW ad1,
           Sound(m, c, js, sh, st, ad), m.gate = "Closed"
    PROVE  Sound(m, c, js, sh, st, ad1)
<1>1. Addressed(m, js, ad1)
  BY Zenon DEF Sound, Shut, Addressed
<1> QED  BY <1>1, Zenon DEF Sound

(* Without protection the gate is closed.                                  *)
LEMMA UnprotectedShut ==
    ASSUME NEW m, NEW c, NEW js, NEW sh, NEW st, NEW ad, NEW runs,
           Sound(m, c, js, sh, st, ad), Ends(m, c, runs, FALSE)
    PROVE  m.gate = "Closed"
  BY Zenon DEF Ends, Sound, Typed, MamState

LEMMA ProtectionChangesSafe ==
    ASSUME SessionInv, ProtectionChanges
    PROVE  SessionInv' /\ NewSafe /\ Stands
<1>0. /\ running' = running /\ stored' = stored /\ address' = address
      /\ exits' = IF protected' THEN exits ELSE {address}
  BY Zenon DEF ProtectionChanges
<1>a. /\ Sound(mam, cookie, jobs, shown, stored, exits)
      /\ shown \in BOOLEAN /\ running' \in BOOLEAN /\ protected' \in BOOLEAN
      /\ Decide(mam, cookie, jobs)
  BY Zenon DEF ProtectionChanges, SessionInv
<1>1. /\ Sound(mam', cookie', jobs', shown', stored, exits)
      /\ Ends(mam', cookie', running', protected')
      /\ cookie' = cookie
      /\ shown' \in BOOLEAN
      /\ mam.enabled /\ running' /\ protected' /\ shown => shown'
      /\ SentSafely(cookie, jobs, jobs', shown')
  BY <1>a, DecideSound, Zenon
<1>2. Sound(mam', cookie', jobs', shown', stored, exits')
  <2>1. CASE protected'  BY <1>0, <1>1, <2>1, Zenon
  <2>2. CASE ~protected'
    <3>1. Ends(mam', cookie', running', FALSE)
      BY <1>a, <1>1, <2>2, Zenon
    <3>2. mam'.gate = "Closed"
      BY <1>1, <3>1, UnprotectedShut, Zenon
    <3> QED  BY <1>1, <3>2, ShutAnywhere, Zenon
  <2> QED  BY <2>1, <2>2, Zenon
<1>3. address \in exits' /\ exits' \in SUBSET Addresses
  BY <1>0, Zenon DEF SessionInv
<1>4. SessionInv'
  BY <1>0, <1>a, <1>1, <1>2, <1>3, Zenon DEF SessionInv
<1>5. NewSafe
  BY <1>1, Zenon DEF NewSafe, SentSafely
<1> QED  BY <1>1, <1>4, <1>5, Zenon DEF Stands, RotatesOn

(* The tunnel moves behind the closed gate, or to one more exit.           *)
LEMMA MoveServerSafe ==
    ASSUME SessionInv, MoveServer
    PROVE  SessionInv' /\ NewSafe /\ Stands
<1>1. /\ mam' = mam /\ cookie' = cookie /\ jobs' = jobs
      /\ running' = running /\ protected' = protected /\ stored' = stored
      /\ shown' = shown /\ address' \in Addresses
      /\ exits' = IF protected THEN exits \cup {address'} ELSE {address'}
  BY Zenon DEF MoveServer
<1>2. /\ Ends(mam, cookie, running, protected) /\ protected \in BOOLEAN
      /\ Sound(mam, cookie, jobs, shown, stored, exits)
  BY Zenon DEF SessionInv
<1>3. Sound(mam, cookie, jobs, shown, stored, exits')
  <2>1. CASE protected
    <3>1. exits \subseteq exits'
      BY <1>1, <2>1, Zenon
    <3>2. Addressed(mam, jobs, exits')
      BY <1>2, <3>1, Zenon DEF Sound, Addressed
    <3> QED  BY <1>2, <3>2, Zenon DEF Sound
  <2>2. CASE ~protected
    <3>1. Ends(mam, cookie, running, FALSE)
      BY <1>2, <2>2, Zenon
    <3>2. mam.gate = "Closed"
      BY <1>2, <3>1, UnprotectedShut, Zenon
    <3> QED  BY <1>2, <3>2, ShutAnywhere, Zenon
  <2> QED  BY <2>1, <2>2, Zenon
<1>4. address' \in exits' /\ exits' \in SUBSET Addresses
  BY <1>1, Zenon DEF SessionInv
<1>5. SessionInv'
  BY <1>1, <1>2, <1>3, <1>4, Zenon DEF SessionInv
<1>6. NewSafe
  BY <1>1, Zenon DEF NewSafe
<1> QED  BY <1>1, <1>5, <1>6, Zenon DEF Stands, RotatesOn

LEMMA VpnSwitchedSafe ==
    ASSUME SessionInv, VpnSwitched
    PROVE  SessionInv' /\ NewSafe /\ Stands
<1>1. PICK f : f = [mam EXCEPT !.observed = NoAddress, !.download = NoAddress]
  BY Zenon
<1>2. mam \in MamState /\ Shut(mam) /\ mam.epoch \in Nat
  BY Zenon DEF SessionInv, Sound, Typed, MamState
<1>3. /\ f \in MamState
      /\ f.outstanding = mam.outstanding /\ f.epoch = mam.epoch
      /\ f.observed = NoAddress /\ f.download = NoAddress
      /\ f.inUse = mam.inUse /\ f.issued = mam.issued /\ f.gate = mam.gate
  BY <1>1, <1>2, Zenon DEF MamState
<1>4. Shut(f) /\ f.epoch >= mam.epoch
  BY <1>2, <1>3 DEF Shut, Current
<1>5. \A k : Holds(mam, cookie, k) => Holds(f, cookie, k)
  BY <1>3, Zenon DEF Holds
<1>6. Sound(mam, cookie, jobs, shown, stored, exits)
  BY Zenon DEF SessionInv
<1>7. Sound(f, cookie, jobs, shown, stored, exits)
  BY <1>3, <1>4, <1>5, <1>6, KnowsNoMore, Zenon
<1>8. /\ Decide(f, cookie, jobs)
      /\ running' \in BOOLEAN /\ protected' \in BOOLEAN
      /\ UNCHANGED <<stored, address, exits>>
  BY <1>1, Zenon DEF VpnSwitched, SessionInv
<1>9. SessionInv' /\ NewSafe /\ cookie' = cookie
  BY <1>7, <1>8, CoreStepKept, Zenon
<1> QED  BY <1>9, Zenon DEF Stands, RotatesOn

(* The cookie is read from SQLite once, before any was followed.           *)
LEMMA SettingsReadSafe ==
    ASSUME SessionInv, SettingsRead
    PROVE  SessionInv' /\ NewSafe /\ Stands
<1>1. PICK c : c = S!LoadedSetting(stored)
  BY Zenon
<1>2. /\ Decide(mam, c, jobs) /\ cookie = NotLoaded
      /\ running' \in BOOLEAN /\ protected' \in BOOLEAN
      /\ UNCHANGED <<stored, address, exits>>
  BY <1>1, Zenon DEF SettingsRead, SessionInv
<1>3. /\ c \in S!SettingState /\ c.persistence = "Idle"
      /\ c.saved = stored /\ c.requested = stored
  BY <1>1, Zenon DEF S!LoadedSetting, S!SettingState, SessionInv
<1>4. /\ Sound(mam, cookie, jobs, shown, stored, exits)
      /\ jobs \in Seq(Job)
  BY Zenon DEF SessionInv, Sound, Typed
<1>5. mam.inUse = NoCookie /\ Free(jobs, Writing)
  BY <1>2, <1>4, Zenon DEF Sound, Carries, Agrees, NotLoaded
<1>6. \A j \in Elems(jobs) : j \notin Writing
  BY <1>4, <1>5, NoneOf, Zenon
<1>7. Agrees(c, jobs, stored)
  BY <1>3, <1>5, <1>6, Zenon DEF Agrees
<1>8. \A k : k # NoCookie => ~Holds(mam, cookie, k)
  BY <1>5, Zenon DEF Holds
<1>9. Rest(mam, cookie, jobs, shown, exits)
  BY <1>4, Zenon DEF Sound, Rest
<1>10. Sound(mam, c, jobs, shown, stored, exits)
  <2>1. Written("WriteApiCookie", c, jobs, jobs, stored)
    BY <1>3, <1>7, Zenon DEF Written, Queued
  <2>2. "WriteApiCookie" \in Writes
    BY Zenon DEF Writes
  <2>3. Turned(mam, cookie, jobs, shown, stored, exits,
               "WriteApiCookie", c, jobs)
    BY <1>8, <1>9, <2>1, <2>2, Zenon DEF Turned
  <2> QED  BY <2>3, SettingSound, Zenon
<1>11. SessionInv' /\ NewSafe /\ cookie' = c
  BY <1>2, <1>10, CoreStepKept, Zenon
<1>12. cookie.requested = NoCookie
  BY <1>2, Zenon DEF NotLoaded
<1> QED  BY <1>11, <1>12, Zenon DEF Stands

LEMMA CrashSafe ==
    ASSUME SessionInv, Crash, MaxEpoch \in Nat
    PROVE  SessionInv' /\ NewSafe /\ Stands
<1>1. /\ mam' = NewMam /\ cookie' = NotLoaded /\ jobs' = <<>>
      /\ running' = FALSE /\ protected' = FALSE /\ shown' = FALSE
      /\ stored' = stored /\ address' = address /\ exits' = {address}
  BY Zenon DEF Crash
<1>2. Sound(NewMam, NotLoaded, <<>>, FALSE, stored, exits')
  BY NewSound, Zenon
<1>3. Ends(NewMam, NotLoaded, FALSE, FALSE)
  BY DEF Ends, NewMam, NotLoaded
<1>4. SessionInv'
  BY <1>1, <1>2, <1>3, Zenon DEF SessionInv
<1>5. NewSafe
  BY <1>1, ElemsFew, Zenon DEF NewSafe
<1>6. cookie'.requested = NoCookie
  BY <1>1, Zenon DEF NotLoaded
<1> QED  BY <1>4, <1>5, <1>6, Zenon DEF Stands, RotatesOn

(* The owner's cookie is not one that MAM has issued.                      *)
LEMMA SetApiCookieSafe ==
    ASSUME SessionInv, OwnerCookies \cap IssuedCookies = {},
           NEW value \in OwnerCookies \cup {NoCookie}, SetApiCookie(value)
    PROVE  SessionInv' /\ NewSafe /\ Stands
<1>1. PICK r : r = S!RequestValue(cookie, value)
  BY Zenon
<1>2. PICK left : left = jobs \o CookieWrites("WriteApiCookie", r.writes)
  BY Zenon
<1>3. /\ Decide(mam, r.setting, left) /\ cookie # NotLoaded
      /\ running' \in BOOLEAN /\ protected' \in BOOLEAN
      /\ UNCHANGED <<stored, address, exits>>
  BY <1>1, <1>2, Zenon DEF SetApiCookie, SessionInv
<1>4. /\ Sound(mam, cookie, jobs, shown, stored, exits)
      /\ jobs \in Seq(Job) /\ cookie \in S!SettingState
      /\ mam.issued \in IssuedCookies \cup {NoCookie}
  BY <1>3, Zenon DEF SessionInv, Sound, Typed, MamState
<1>5. Ready(cookie, jobs, stored)
  BY <1>4, Zenon DEF Ready, Sound, Agrees, AtRest, S!SettingState
<1>6. "WriteApiCookie" \in Writes /\ value \in Values
  BY Zenon DEF Writes, Values, Cookies
<1>7. /\ Written("WriteApiCookie", r.setting, jobs, left, stored)
      /\ r.setting.requested = value
  <2>1. Asked(cookie, jobs, stored, "WriteApiCookie", value, r, left)
    BY <1>1, <1>2, <1>4, <1>5, <1>6, Zenon DEF Asked
  <2> QED  BY <2>1, RequestAgrees
<1>8. \A k : k # NoCookie /\ Holds(mam, cookie, k) => Holds(mam, r.setting, k)
  BY <1>4, <1>7, Zenon DEF Holds
<1>9. Rest(mam, cookie, jobs, shown, exits)
  BY <1>4, Zenon DEF Sound, Rest
<1>10. Turned(mam, cookie, jobs, shown, stored, exits,
              "WriteApiCookie", r.setting, left)
  BY <1>6, <1>7, <1>8, <1>9, Zenon DEF Turned
<1>11. Sound(mam, r.setting, left, shown, stored, exits)
  BY <1>10, SettingSound, Zenon
<1>12. \A j \in Elems(left) : j.op = "MamRequest" => j \in Elems(jobs)
  BY <1>10, SettingSound, Zenon
<1>13. SessionInv' /\ NewSafe /\ cookie' = r.setting
  BY <1>3, <1>11, <1>12, CoreStepKept, Zenon
<1>14. Stands
  <2>1. ASSUME NEW i \in 1..Len(jobs)
        PROVE  jobs[i].rotated \in IssuedCookies \cup {NoCookie}
    <3>1. jobs[i] \in Job
      BY <1>4
    <3> QED  BY <3>1, Zenon DEF Job
  <2> QED  BY <1>7, <1>13, <2>1, Zenon DEF Stands, RotatesOn
<1> QED  BY <1>13, <1>14, Zenon

(* A worker's step tells the core nothing.                                 *)
LEMMA WorkStep ==
    ASSUME SessionInv, NEW i \in 1..Len(jobs), jobs[i].answer = "None",
           NEW x \in Job, x.op = jobs[i].op, x.request = jobs[i].request,
           x.cookie = jobs[i].cookie, x.answer # "None",
           x.op = "MamRequest" =>
             /\ x.address \in {NoAddress} \cup exits
             /\ x.request = "LookUpIp" => x.rotated = NoCookie,
           jobs' = [jobs EXCEPT ![i] = x],
           stored' = IF x \in Writing /\ x.answer = "Ok" THEN x.cookie
                     ELSE stored,
           UNCHANGED <<mam, cookie, running, protected, address, exits, shown>>
    PROVE  SessionInv' /\ NewSafe /\ Stands
<1>0. /\ Sound(mam, cookie, jobs, shown, stored, exits)
      /\ jobs \in Seq(Job)
  BY Zenon DEF SessionInv, Sound, Typed
<1>1. PICK t : t = [jobs EXCEPT ![i] = x]
  BY Zenon
<1>2. PICK st1 : st1 = IF x \in Writing /\ x.answer = "Ok" THEN x.cookie
                       ELSE stored
  BY Zenon
<1>3. Sound(mam, cookie, t, shown, st1, exits)
  BY <1>0, <1>1, <1>2, WorkSound, Zenon
<1>4. /\ jobs' = t /\ stored' = st1 /\ mam' = mam /\ cookie' = cookie
      /\ running' = running /\ protected' = protected
      /\ address' = address /\ exits' = exits /\ shown' = shown
  BY <1>1, <1>2, Zenon
<1>5. st1 \in Cookies \cup {NoCookie}
  BY <1>2, Zenon DEF Job, SessionInv
<1>6. SessionInv'
  BY <1>3, <1>4, <1>5, Zenon DEF SessionInv
<1>7. Elems(t) \subseteq Elems(jobs) \cup {x}
  <2>1. Changed(jobs, i, x, t)
    BY <1>0, <1>1, Zenon DEF Changed
  <2> QED  BY <2>1, Replaced, Zenon
<1>8. NewSafe
  BY <1>4, <1>7, Zenon DEF NewSafe
<1> QED  BY <1>4, <1>6, <1>8, Zenon DEF Stands, RotatesOn

LEMMA WorkSafe ==
    ASSUME SessionInv, NEW i \in 1..Len(jobs), Work(i)
    PROVE  SessionInv' /\ NewSafe /\ Stands
<1>0. /\ jobs \in Seq(Job) /\ jobs[i] \in Job
      /\ address \in Addresses /\ address \in exits
  <2>1. jobs \in Seq(Job) /\ address \in Addresses /\ address \in exits
    BY Zenon DEF SessionInv, Sound, Typed
  <2> QED  BY <2>1
<1>1. CASE WriteCookie(i)
  <2>1. PICK answer \in {"Ok", "Failed"} :
          /\ jobs' = [jobs EXCEPT ![i].answer = answer]
          /\ stored' = IF answer = "Ok" THEN jobs[i].cookie ELSE stored
    BY <1>1, Zenon DEF WriteCookie
  <2>2. PICK x : x = [jobs[i] EXCEPT !.answer = answer]
    BY Zenon
  <2>3. /\ x \in Job /\ x.op = jobs[i].op /\ x.request = jobs[i].request
        /\ x.cookie = jobs[i].cookie /\ x.answer = answer
    BY <1>0, <2>2, Zenon DEF Job
  <2>4. x.op # "MamRequest" /\ x \in Writing /\ jobs[i].answer = "None"
    BY <1>1, <2>3, Zenon DEF WriteCookie, Writing
  <2>5. jobs' = [jobs EXCEPT ![i] = x]
    BY <1>0, <2>1, <2>2, Zenon
  <2>6. UNCHANGED <<mam, cookie, running, protected, address, exits, shown>>
    BY <1>1, Zenon DEF WriteCookie
  <2>7. /\ x.answer # "None"
        /\ stored' = IF x \in Writing /\ x.answer = "Ok" THEN x.cookie
                     ELSE stored
    BY <2>1, <2>3, <2>4, Zenon
  <2> QED  BY <2>3, <2>4, <2>5, <2>6, <2>7, WorkStep, Zenon
<1>2. CASE SaveAttempt(i)
  <2>1. PICK answer \in {"Ok", "Failed"} :
          jobs' = [jobs EXCEPT ![i].answer = answer]
    BY <1>2, Zenon DEF SaveAttempt
  <2>2. PICK x : x = [jobs[i] EXCEPT !.answer = answer]
    BY Zenon
  <2>3. /\ x \in Job /\ x.op = jobs[i].op /\ x.request = jobs[i].request
        /\ x.cookie = jobs[i].cookie /\ x.answer = answer
    BY <1>0, <2>2, Zenon DEF Job
  <2>4. x.op # "MamRequest" /\ x \notin Writing /\ jobs[i].answer = "None"
    BY <1>2, <2>3, Zenon DEF SaveAttempt, Writing
  <2>5. jobs' = [jobs EXCEPT ![i] = x]
    BY <1>0, <2>1, <2>2, Zenon
  <2>6. UNCHANGED <<mam, cookie, running, protected, stored, address, exits, shown>>
    BY <1>2, Zenon DEF SaveAttempt
  <2>7. /\ x.answer # "None"
        /\ stored' = IF x \in Writing /\ x.answer = "Ok" THEN x.cookie
                     ELSE stored
    BY <2>3, <2>4, <2>6, Zenon
  <2> QED  BY <2>3, <2>4, <2>5, <2>6, <2>7, WorkStep, Zenon
<1>3. CASE MamAnswers(i)
  <2>1. PICK answer \in {"Ok", "Failed", "NotAllowed", "Mismatch"},
             issued \in IssuedCookies \cup {NoCookie},
             told \in {NoAddress, address} :
          /\ jobs[i].request = "LookUpIp" => issued = NoCookie
          /\ jobs' = [jobs EXCEPT ![i].answer = answer,
                                  ![i].address = told,
                                  ![i].rotated = issued]
    BY <1>3, Zenon DEF MamAnswers, NeedsCookie
  <2>2. PICK x : x = [jobs[i] EXCEPT !.answer = answer, !.address = told,
                                     !.rotated = issued]
    BY Zenon
  <2>3. /\ x \in Job /\ x.op = jobs[i].op /\ x.request = jobs[i].request
        /\ x.cookie = jobs[i].cookie /\ x.answer = answer
        /\ x.address \in {NoAddress} \cup exits /\ x.rotated = issued
    BY <1>0, <2>2, Zenon DEF Job
  <2>4. x \notin Writing /\ jobs[i].answer = "None"
    BY <1>3, <2>3, Zenon DEF MamAnswers, Writing
  <2>5. jobs' = [jobs EXCEPT ![i] = x]
    BY <1>0, <2>1, <2>2, Zenon
  <2>6. UNCHANGED <<mam, cookie, running, protected, stored, address, exits, shown>>
    BY <1>3, Zenon DEF MamAnswers
  <2>7. /\ x.answer # "None"
        /\ stored' = IF x \in Writing /\ x.answer = "Ok" THEN x.cookie
                     ELSE stored
        /\ x.request = "LookUpIp" => x.rotated = NoCookie
    BY <2>1, <2>3, <2>4, <2>6, Zenon
  <2> QED  BY <2>3, <2>4, <2>5, <2>6, <2>7, WorkStep, Zenon
<1> QED  BY <1>1, <1>2, <1>3, Zenon DEF Work

(* A write that is done: only a rotation's failed one changes what is      *)
(* asked for, and no request that could hold a cookie is out with it.      *)
LEMMA HandleCookieWriteSafe ==
    ASSUME SessionInv, NEW i \in 1..Len(jobs), HandleCookieWrite(i)
    PROVE  SessionInv' /\ NewSafe /\ Stands
<1>1. PICK r : r = CookieCompleted(jobs[i])
  BY Zenon
<1>2. PICK rest : rest = Without(jobs, i)
  BY Zenon
<1>3. PICK left : left = rest \o CookieWrites("WriteApiCookie", r.writes)
  BY Zenon
<1>4. /\ Decide(mam, r.setting, left)
      /\ jobs[i].op \in {"WriteApiCookie", "WriteRotatedApiCookie"}
      /\ running' \in BOOLEAN /\ protected' \in BOOLEAN
      /\ UNCHANGED <<stored, address, exits>>
  BY <1>1, <1>2, <1>3, Zenon DEF HandleCookieWrite, SessionInv
<1>5. /\ Sound(mam, cookie, jobs, shown, stored, exits)
      /\ jobs \in Seq(Job) /\ jobs[i] \in Job
  BY DEF SessionInv, Sound, Typed
<1>6. jobs[i] \in Writing /\ jobs[i] \in Elems(jobs)
  BY <1>4, <1>5, ElemsTyped, Zenon DEF Writing
<1>7. /\ Rest(mam, cookie, rest, shown, exits)
      /\ Free(rest, Writing)
      /\ cookie \in S!SettingState /\ cookie.persistence = "Pending"
      /\ WriteAgrees(cookie, jobs[i], stored)
  BY <1>2, <1>5, <1>6, WrittenRest, Zenon
<1>8. rest \in Seq(Job) /\ Elems(rest) \subseteq Elems(jobs)
  BY <1>2, <1>5, OneLess, Zenon
<1>9. /\ Written("WriteApiCookie", r.setting, rest, left, stored)
      /\ \/ r.setting.requested = cookie.requested
         \/ jobs[i].op = "WriteRotatedApiCookie"
  <2>1. CASE jobs[i].op = "WriteRotatedApiCookie" /\ jobs[i].answer = "Failed"
    <3>1. r = S!ReplacementFailed(cookie)
      BY <1>1, <2>1, Zenon DEF CookieCompleted
    <3>2. stored = cookie.saved
      BY <1>7, <2>1, Zenon DEF WriteAgrees
    <3> QED  BY <1>3, <1>7, <1>8, <2>1, <3>1, <3>2, ReplacementAgrees, Zenon
  <2>2. CASE ~(jobs[i].op = "WriteRotatedApiCookie"
                 /\ jobs[i].answer = "Failed")
    <3>1. PICK ok \in BOOLEAN : ok = (jobs[i].answer = "Ok")
      BY Zenon
    <3>2. r = S!CompleteSave(cookie, ok)
      BY <1>1, <2>2, <3>1, Zenon DEF CookieCompleted
    <3>3. stored = IF ok THEN cookie.pending ELSE cookie.saved
      BY <1>7, <3>1, Zenon DEF WriteAgrees
    <3> QED  BY <1>3, <1>7, <1>8, <3>2, <3>3, CompleteAgrees, Zenon
  <2> QED  BY <2>1, <2>2, Zenon
<1>10. jobs[i].op = "WriteRotatedApiCookie" =>
         \/ mam.outstanding.stage = "None"
         \/ mam.outstanding.request = "LookUpIp"
  BY <1>5, <1>6, Zenon DEF Sound, Carries
<1>11. Current(mam) /\ mam.outstanding.request # "LookUpIp" =>
         \A k : k # NoCookie /\ Holds(mam, cookie, k) => Holds(mam, r.setting, k)
  BY <1>9, <1>10, Zenon DEF Current, Holds
<1>12. Turned(mam, cookie, rest, shown, stored, exits,
              "WriteApiCookie", r.setting, left)
  BY <1>7, <1>9, <1>11, Zenon DEF Turned, Writes
<1>13. Sound(mam, r.setting, left, shown, stored, exits)
  BY <1>12, SettingSound, Zenon
<1>14. \A j \in Elems(left) : j.op = "MamRequest" => j \in Elems(jobs)
  BY <1>8, <1>12, SettingSound, Zenon
<1>15. SessionInv' /\ NewSafe /\ cookie' = r.setting
  BY <1>4, <1>13, <1>14, CoreStepKept, Zenon
<1>16. Stands
  <2> SUFFICES ASSUME NEW k \in 1..Len(jobs), RotatesOn(k)
               PROVE  FALSE
    BY Zenon DEF Stands
  <2>1. /\ jobs[k].op = "MamRequest" /\ jobs[k].rotated # NoCookie
        /\ cookie'.requested # cookie.requested
    BY Zenon DEF RotatesOn
  <2>2. jobs[k] \in Elems(jobs) /\ jobs[k] \in Asking
    BY <1>5, <2>1, ElemsTyped, KindsApart, Zenon
  <2>3. RequestHolds(mam, cookie, jobs[k]) /\ Matches(mam, jobs[k])
    BY <1>5, <2>1, <2>2, Zenon DEF Sound, Carries, OneRequest
  <2>4. /\ mam.outstanding.stage = "Request"
        /\ mam.outstanding.request # "LookUpIp"
    BY <2>1, <2>3, Zenon DEF RequestHolds, Matches
  <2> QED  BY <1>9, <1>10, <1>15, <2>1, <2>4, Zenon
<1> QED  BY <1>15, <1>16, Zenon

(* A registration's save is done: the request goes out on the connection   *)
(* it was decided on, where its cookie still holds, or not at all.         *)
LEMMA HandleAttemptSafe ==
    ASSUME SessionInv, NEW i \in 1..Len(jobs), HandleAttempt(i)
    PROVE  SessionInv' /\ NewSafe /\ Stands
<1>1. PICK next : next = AttemptSaved(mam, jobs[i].answer = "Ok")
  BY Zenon
<1>2. PICK rest : rest = Without(jobs, i)
  BY Zenon
<1>3. PICK left : left = rest \o next.sent
  BY Zenon
<1>4. /\ Decide(next.mam, cookie, left)
      /\ jobs[i].op = "SaveRegistrationAttempt"
      /\ running' = running /\ protected' = protected
      /\ running' \in BOOLEAN /\ protected' \in BOOLEAN
      /\ UNCHANGED <<stored, address, exits>>
  BY <1>1, <1>2, <1>3, Zenon DEF HandleAttempt, SessionInv
<1>5. /\ Sound(mam, cookie, jobs, shown, stored, exits)
      /\ Ends(mam, cookie, running, protected)
      /\ jobs \in Seq(Job) /\ jobs[i] \in Job /\ mam \in MamState /\ Shut(mam)
      /\ mam.outstanding \in OutstandingState
  BY DEF SessionInv, Sound, Typed, MamState
<1>6. jobs[i] \in Asking /\ jobs[i] \in Elems(jobs)
  BY <1>4, <1>5, ElemsTyped, Zenon DEF Asking
<1>7. mam.outstanding.stage = "SavingRegistration"
  BY <1>4, <1>5, <1>6, Zenon DEF Sound, OneRequest, Matches
<1>8. rest \in Seq(Job) /\ Elems(rest) \subseteq Elems(jobs)
  BY <1>2, <1>5, OneLess, Zenon
<1>9. NoRequest \in OutstandingState
  BY Zenon DEF NoRequest, OutstandingState
<1>10. ASSUME NEW n \in MamState, n.outstanding = NoRequest,
              n.observed = mam.observed, n.download = mam.download,
              n.gate = mam.gate, n.inUse = mam.inUse, n.issued = mam.issued
       PROVE  Sound(n, cookie, rest, shown, stored, exits)
  <2>1. Shut(n)
    BY <1>5, <1>10 DEF Shut, Current, NoRequest
  <2>2. /\ n.observed \in {NoAddress} \cup exits
        /\ n.download \in {NoAddress} \cup exits
        /\ cookie = NotLoaded => n.inUse = NoCookie /\ n.issued = NoCookie
    BY <1>5, <1>10, Zenon DEF Sound, Addressed, Carries
  <2> QED  BY <1>2, <1>5, <1>6, <1>10, <2>1, <2>2, DoneSound, Zenon
<1>11. CASE jobs[i].answer # "Ok" \/ mam.outstanding.epoch # mam.epoch
  <2>1. /\ next.sent = <<>>
        /\ \/ next.mam = [mam EXCEPT !.outstanding = NoRequest,
                                     !.seedbox = NoAddress]
           \/ next.mam = [mam EXCEPT !.outstanding = NoRequest]
    BY <1>1, <1>7, <1>11, Zenon DEF AttemptSaved
  <2>2. PICK n : n = next.mam
    BY Zenon
  <2>3. n \in MamState
    <3>1. PICK b : b = [mam EXCEPT !.outstanding = NoRequest]
      BY Zenon
    <3>2. b \in MamState
      BY <1>5, <1>9, <3>1, Zenon DEF MamState
    <3>3. n = b \/ n = [b EXCEPT !.seedbox = NoAddress]
      BY <1>5, <2>1, <2>2, <3>1 DEF MamState
    <3> QED  BY <3>2, <3>3 DEF MamState
  <2>4. /\ n.outstanding = NoRequest
        /\ n.observed = mam.observed /\ n.download = mam.download
        /\ n.gate = mam.gate /\ n.inUse = mam.inUse /\ n.issued = mam.issued
    BY <1>5, <2>1, <2>2, Zenon DEF MamState
  <2>5. left = rest
    BY <1>3, <1>8, <2>1
  <2>6. Sound(n, cookie, left, shown, stored, exits)
    BY <1>10, <2>3, <2>4, <2>5, Zenon
  <2>7. \A j \in Elems(left) : j.op = "MamRequest" => j \in Elems(jobs)
    BY <1>8, <2>5, Zenon
  <2>8. Decide(n, cookie, left)
    BY <1>4, <2>2, Zenon
  <2>9. SessionInv' /\ NewSafe /\ cookie' = cookie
    BY <1>4, <2>6, <2>7, <2>8, CoreStepKept, Zenon
  <2> QED  BY <2>9, Zenon DEF Stands, RotatesOn
<1>12. CASE jobs[i].answer = "Ok" /\ mam.outstanding.epoch = mam.epoch
  <2>1. PICK k : k = mam.outstanding.cookie
    BY Zenon
  <2>2. PICK o : o = [mam.outstanding EXCEPT !.stage = "Request",
                                             !.cookie = NoCookie]
    BY Zenon
  <2>3. PICK n : n = [mam EXCEPT !.outstanding = o]
    BY Zenon
  <2>4. PICK j : j = NewJob("MamRequest", "RegisterSeedbox", k)
    BY Zenon
  <2>5. next.mam = n /\ next.sent = <<j>>
    BY <1>1, <1>7, <1>12, <2>1, <2>2, <2>3, <2>4, Zenon DEF AttemptSaved
  <2>6. Current(mam) /\ mam.gate = "Open"
    BY <1>5, <1>7, <1>12, Zenon DEF Current, Shut, MamState
  <2>7. /\ mam.outstanding.request = "RegisterSeedbox"
        /\ k # NoCookie /\ shown /\ Holds(mam, cookie, k)
    BY <1>5, <1>7, <2>1, <2>6, Zenon DEF Sound, Carries, SavingHolds
  <2>8. /\ o \in OutstandingState /\ o.stage = "Request"
        /\ o.request = "RegisterSeedbox" /\ o.epoch = mam.epoch
    BY <1>5, <1>12, <2>2, <2>7, Zenon DEF OutstandingState
  <2>9. /\ n \in MamState /\ n.outstanding = o
        /\ n.observed = mam.observed /\ n.download = mam.download
        /\ n.gate = mam.gate /\ n.enabled = mam.enabled
        /\ n.inUse = mam.inUse /\ n.issued = mam.issued
        /\ n.epoch = mam.epoch
    BY <1>5, <2>3, <2>8, Zenon DEF MamState
  <2>10. PICK b : b = [mam EXCEPT !.outstanding = NoRequest]
    BY Zenon
  <2>11. /\ b \in MamState /\ b.outstanding = NoRequest
         /\ b.observed = mam.observed /\ b.download = mam.download
         /\ b.gate = mam.gate /\ b.enabled = mam.enabled
         /\ b.inUse = mam.inUse /\ b.issued = mam.issued
         /\ b.epoch = mam.epoch
    BY <1>5, <1>9, <2>10, Zenon DEF MamState
  <2>12. Sound(b, cookie, rest, shown, stored, exits)
    BY <1>10, <2>11, Zenon
  <2>13. k \in Cookies \cup {NoCookie}
    BY <1>5, <2>1, Zenon DEF OutstandingState
  <2>14. /\ j \in Job /\ j.op = "MamRequest" /\ j.cookie = k
         /\ j.request = "RegisterSeedbox" /\ j.answer = "None"
         /\ j.rotated = NoCookie
    BY <2>4, <2>13, Zenon DEF NewJob, Job, Operations, Requests
  <2>15. j \in Asking /\ Matches(n, j)
    BY <2>8, <2>9, <2>14, Zenon DEF Asking, Matches
  <2>16. SavingHolds(n, cookie, shown) /\ RequestHolds(n, cookie, j)
    BY <2>7, <2>8, <2>9, <2>14, Zenon DEF SavingHolds, RequestHolds, Holds
  <2>17. \A w \in Elems(rest) : w.op # "WriteRotatedApiCookie"
    BY <1>5, <1>7, <1>8, <2>7, Zenon DEF Sound, Carries
  <2>18. b.outstanding.stage = "None" /\ b.gate = "Open"
    BY <2>6, <2>11 DEF NoRequest
  <2>19. /\ n.gate = b.gate /\ n.observed = b.observed
         /\ n.download = b.download /\ n.inUse = b.inUse
         /\ n.issued = b.issued /\ n.epoch = b.epoch
         /\ n.outstanding.epoch = b.epoch /\ n.outstanding.stage # "None"
    BY <2>8, <2>9, <2>11, Zenon
  <2>20. Sound(n, cookie, rest \o <<j>>, shown, stored, exits)
    <3>1. Starts(b, cookie, rest, n, j, shown)
      BY <2>9, <2>14, <2>15, <2>16, <2>17, <2>18, <2>19, Zenon DEF Starts
    <3> QED  BY <2>12, <3>1, StartSound, Zenon
  <2>21. Elems(rest \o <<j>>) = Elems(rest) \cup {j}
    BY <1>8, <2>14, OneMore, Zenon
  <2>22. cookie.requested \in {k, NoCookie}
    BY <1>5, <2>7, Zenon DEF Ends, Holds
  <2>23. n.enabled /\ running' /\ protected'
    BY <1>4, <1>5, <2>6, <2>9, Zenon DEF Ends
  <2>24. Decide(n, cookie, left) /\ left = rest \o <<j>>
    BY <1>3, <1>4, <2>5, Zenon
  <2>25. \A w \in Elems(left) :
           w.op = "MamRequest" /\ w.cookie # NoCookie =>
             \/ w \in Elems(jobs)
             \/ /\ n.enabled /\ running' /\ protected' /\ shown
                /\ cookie.requested \in {w.cookie, NoCookie}
    BY <1>8, <2>7, <2>14, <2>21, <2>22, <2>23, <2>24, Zenon
  <2>26. Sound(n, cookie, left, shown, stored, exits)
    BY <2>20, <2>24, Zenon
  <2>27. SessionInv' /\ NewSafe /\ cookie' = cookie
    BY <1>4, <2>24, <2>25, <2>26, CoreStep, Zenon
  <2> QED  BY <2>27, Zenon DEF Stands, RotatesOn
<1> QED  BY <1>11, <1>12, Zenon

(* An answer: what it shows counts on its connection only, and a cookie it *)
(* brings replaces the one its request held.                               *)
LEMMA HandleAnswerSafe ==
    ASSUME SessionInv, NEW i \in 1..Len(jobs), HandleAnswer(i)
    PROVE  SessionInv' /\ NewSafe /\ Stands
<1>1. PICK job : job = jobs[i]
  BY Zenon
<1>2. PICK rest : rest = Without(jobs, i)
  BY Zenon
<1>3. PICK rotated : rotated = Rotated(mam, job)
  BY Zenon
<1>4. PICK a : a = Answered(mam, mam.outstanding.request, job)
  BY Zenon
<1>5. PICK told : told = [a EXCEPT !.outstanding = NoRequest,
                     !.issued = IF rotated = NoCookie THEN @ ELSE rotated]
  BY Zenon
<1>6. PICK r : r = S!RequestValue(cookie, rotated)
  BY Zenon
<1>7. PICK left : left = rest \o CookieWrites("WriteRotatedApiCookie", r.writes)
  BY Zenon
<1>8. /\ job.op = "MamRequest" /\ job.answer # "None"
      /\ running' \in BOOLEAN /\ protected' \in BOOLEAN
      /\ UNCHANGED <<stored, address, exits>>
  BY <1>1, Zenon DEF HandleAnswer, SessionInv
<1>9. /\ Sound(mam, cookie, jobs, shown, stored, exits)
      /\ Ends(mam, cookie, running, protected)
      /\ jobs \in Seq(Job) /\ job \in Job /\ mam \in MamState /\ Shut(mam)
  BY <1>1 DEF SessionInv, Sound, Typed
<1>10. job \in Asking /\ job \in Elems(jobs)
  BY <1>1, <1>8, <1>9, ElemsTyped, Zenon DEF Asking
<1>11. /\ mam.outstanding.stage = "Request" /\ RequestHolds(mam, cookie, job)
  BY <1>8, <1>9, <1>10, Zenon DEF Sound, OneRequest, Matches, Carries
<1>12. IF rotated = NoCookie \/ cookie = NotLoaded
       THEN Decide(told, cookie, rest)
       ELSE Decide(told, r.setting, left)
  BY <1>1, <1>2, <1>3, <1>4, <1>5, <1>6, <1>7, <1>11, Zenon DEF HandleAnswer
<1>13. rest \in Seq(Job) /\ Elems(rest) \subseteq Elems(jobs)
  BY <1>2, <1>9, OneLess, Zenon
<1>14. /\ a \in MamState
       /\ a.gate = mam.gate /\ a.epoch = mam.epoch
       /\ a.inUse = mam.inUse /\ a.issued = mam.issued
       /\ a.observed # mam.observed \/ a.download # mam.download
            => mam.outstanding.epoch = mam.epoch
       /\ a.observed \in {mam.observed, job.address}
       /\ a.download \in {mam.download, job.address}
  <2>1. a \in MamState /\ Told(mam, a, job.address)
    BY <1>4, <1>9, AnsweredTyped, Zenon
  <2> QED  BY <2>1, Zenon DEF Told
<1>15. /\ rotated \in IssuedCookies \cup {NoCookie}
       /\ rotated # NoCookie => Current(mam) /\ job.cookie # NoCookie
  <2>1. job.rotated \in IssuedCookies \cup {NoCookie}
    BY <1>9, Zenon DEF Job
  <2> QED  BY <1>3, <1>11, <2>1, Zenon DEF Rotated, RequestHolds, Current
<1>16. told \in MamState
  <2>1. NoRequest \in OutstandingState
    BY Zenon DEF NoRequest, OutstandingState
  <2>2. PICK b : b = [a EXCEPT !.outstanding = NoRequest]
    BY Zenon
  <2>3. b \in MamState /\ b.issued = a.issued
    BY <1>14, <2>1, <2>2, Zenon DEF MamState
  <2>4. PICK k : k = IF rotated = NoCookie THEN a.issued ELSE rotated
    BY Zenon
  <2>5. k \in IssuedCookies \cup {NoCookie}
    BY <1>14, <1>15, <2>4, Zenon DEF MamState
  <2>6. told = [b EXCEPT !.issued = k]
    BY <1>5, <1>14, <2>2, <2>4 DEF MamState
  <2> QED  BY <2>3, <2>5, <2>6, Zenon DEF MamState
<1>17. /\ told.outstanding = NoRequest
       /\ told.observed = a.observed /\ told.download = a.download
       /\ told.gate = mam.gate /\ told.inUse = mam.inUse
       /\ told.issued = IF rotated = NoCookie THEN mam.issued ELSE rotated
  BY <1>5, <1>14, Zenon DEF MamState
<1>18. mam.outstanding.epoch = mam.epoch =>
         Current(mam) /\ job.address \in {NoAddress} \cup exits
         /\ mam.gate = "Open"
  <2>1. mam.outstanding.epoch = mam.epoch => Current(mam)
    BY <1>11, Zenon DEF Current
  <2> QED  BY <1>8, <1>9, <1>10, <2>1, Zenon DEF Sound, Addressed, Shut, MamState
<1>19. /\ told.observed \in {NoAddress} \cup exits
       /\ told.download \in {NoAddress} \cup exits
  BY <1>9, <1>14, <1>17, <1>18, Zenon DEF Sound, Addressed
<1>20. Shut(told)
  BY <1>9, <1>14, <1>17, <1>18 DEF Shut, Current, NoRequest
<1>21. cookie = NotLoaded => told.inUse = NoCookie /\ told.issued = NoCookie
  <2>1. cookie = NotLoaded => mam.inUse = NoCookie /\ mam.issued = NoCookie
    BY <1>9, Zenon DEF Sound, Carries
  <2>2. cookie = NotLoaded => rotated = NoCookie
    BY <1>11, <1>15, <2>1, Zenon DEF RequestHolds, Holds
  <2> QED  BY <1>17, <2>1, <2>2, Zenon
<1>22. Sound(told, cookie, rest, shown, stored, exits)
  BY <1>1, <1>2, <1>9, <1>10, <1>16, <1>17, <1>19, <1>20, <1>21, DoneSound, Zenon
<1>23. CASE rotated = NoCookie \/ cookie = NotLoaded
  <2>1. Decide(told, cookie, rest)
    BY <1>12, <1>23, Zenon
  <2>2. \A j \in Elems(rest) : j.op = "MamRequest" => j \in Elems(jobs)
    BY <1>13, Zenon
  <2>3. SessionInv' /\ NewSafe /\ cookie' = cookie
    BY <1>8, <1>22, <2>1, <2>2, CoreStepKept, Zenon
  <2> QED  BY <2>3, Zenon DEF Stands, RotatesOn
<1>24. CASE ~(rotated = NoCookie \/ cookie = NotLoaded)
  <2>1. Decide(told, r.setting, left)
    BY <1>12, <1>24, Zenon
  <2>2. cookie \in S!SettingState /\ rotated \in Values
    BY <1>9, <1>15, <1>24, Zenon DEF Sound, Typed, Values, Cookies
  <2>3. Ready(cookie, rest, stored)
    BY <1>22, <2>2, Zenon DEF Ready, Sound, Agrees, AtRest, S!SettingState
  <2>4. "WriteRotatedApiCookie" \in Writes
    BY Zenon DEF Writes
  <2>5. /\ Written("WriteRotatedApiCookie", r.setting, rest, left, stored)
        /\ r.setting.requested = rotated
    <3>1. Asked(cookie, rest, stored, "WriteRotatedApiCookie", rotated, r, left)
      BY <1>6, <1>7, <1>13, <2>2, <2>3, <2>4, Zenon DEF Asked
    <3> QED  BY <3>1, RequestAgrees
  <2>6. told.outstanding.stage = "None"
    BY <1>17 DEF NoRequest
  <2>7. ~Current(told)
    BY <2>6, Zenon DEF Current
  <2>8. Rest(told, cookie, rest, shown, exits)
    BY <1>22, Zenon DEF Sound, Rest
  <2>9. Turned(told, cookie, rest, shown, stored, exits,
               "WriteRotatedApiCookie", r.setting, left)
    BY <2>4, <2>5, <2>6, <2>7, <2>8, Zenon DEF Turned
  <2>10. Sound(told, r.setting, left, shown, stored, exits)
    BY <2>9, SettingSound, Zenon
  <2>11. \A j \in Elems(left) : j.op = "MamRequest" => j \in Elems(jobs)
    BY <1>13, <2>9, SettingSound, Zenon
  <2>12. SessionInv' /\ NewSafe /\ cookie' = r.setting
    BY <1>8, <2>1, <2>10, <2>11, CoreStepKept, Zenon
  <2>13. Stands
    <3> SUFFICES ASSUME NEW k \in 1..Len(jobs), RotatesOn(k)
                 PROVE  cookie.requested \in {jobs[k].cookie, NoCookie}
      BY Zenon DEF Stands
    <3>1. jobs[k].op = "MamRequest" /\ jobs[k].rotated # NoCookie
      BY Zenon DEF RotatesOn
    <3>2. jobs[k] \in Elems(jobs)
      BY <1>9, ElemsTyped, Zenon
    <3>3. RequestHolds(mam, cookie, jobs[k]) /\ Current(mam)
      BY <1>9, <1>15, <1>24, <3>1, <3>2, Zenon DEF Sound, Carries
    <3>4. Holds(mam, cookie, jobs[k].cookie)
      BY <3>1, <3>3, Zenon DEF RequestHolds
    <3> QED  BY <1>9, <3>4, Zenon DEF Ends, Holds
  <2> QED  BY <2>12, <2>13, Zenon
<1> QED  BY <1>23, <1>24, Zenon

-----------------------------------------------------------------------------
(* Every step keeps the invariant, and starts and rotates safely.          *)
LEMMA StepSafe ==
    ASSUME SessionInv, Next, MaxEpoch \in Nat,
           OwnerCookies \cap IssuedCookies = {}
    PROVE  SessionInv' /\ NewSafe /\ Stands
<1>1. CASE Enable  BY <1>1, EnableSafe, Zenon
<1>2. CASE PauseOrResume \/ OtherEvent  BY <1>2, EventSafe, Zenon
<1>9. CASE ProtectionChanges  BY <1>9, ProtectionChangesSafe, Zenon
<1>3. CASE MoveServer  BY <1>3, MoveServerSafe, Zenon
<1>4. CASE VpnSwitched  BY <1>4, VpnSwitchedSafe, Zenon
<1>5. CASE SettingsRead  BY <1>5, SettingsReadSafe, Zenon
<1>6. CASE \E value \in OwnerCookies \cup {NoCookie} : SetApiCookie(value)
  BY <1>6, SetApiCookieSafe, Zenon
<1>7. CASE \E i \in 1..Len(jobs) : Work(i) \/ Handle(i)
  <2>1. PICK i \in 1..Len(jobs) : Work(i) \/ Handle(i)
    BY <1>7, Zenon
  <2>2. CASE Work(i)  BY <2>2, WorkSafe, Zenon
  <2>3. CASE HandleCookieWrite(i)  BY <2>3, HandleCookieWriteSafe, Zenon
  <2>4. CASE HandleAttempt(i)  BY <2>4, HandleAttemptSafe, Zenon
  <2>5. CASE HandleAnswer(i)  BY <2>5, HandleAnswerSafe, Zenon
  <2> QED  BY <2>1, <2>2, <2>3, <2>4, <2>5, Zenon DEF Handle
<1>8. CASE Crash  BY <1>8, CrashSafe, Zenon
<1> QED
  BY <1>1, <1>2, <1>3, <1>4, <1>5, <1>6, <1>7, <1>8, <1>9, Zenon DEF Next

(* The invariant of the session: the addresses, the one request, the       *)
(* cookie setting and what the requests in flight carry agree, through     *)
(* pauses, lost protection, server changes, rotations, late answers and    *)
(* crashes (Mam::handle and Mam::decide).                                  *)
THEOREM SessionSound ==
    ASSUME MaxEpoch \in Nat, OwnerCookies \cap IssuedCookies = {}
    PROVE  Spec => []SessionInv
<1>1. Init => SessionInv
  <2> SUFFICES ASSUME Init PROVE SessionInv
    BY Zenon
  <2>1. Sound(NewMam, NotLoaded, <<>>, FALSE, stored, exits)
    BY NewSound, Zenon
  <2>2. Ends(NewMam, NotLoaded, FALSE, FALSE)
    BY DEF Ends, NewMam, NotLoaded
  <2> QED  BY <2>1, <2>2, Zenon DEF Init, SessionInv
<1>2. SessionInv /\ [Next]_vars => SessionInv'
  <2> SUFFICES ASSUME SessionInv, [Next]_vars PROVE SessionInv'
    BY Zenon
  <2>1. CASE Next  BY <2>1, StepSafe, Zenon
  <2>2. CASE UNCHANGED vars  BY <2>2, Zenon DEF vars, SessionInv
  <2> QED  BY <2>1, <2>2, Zenon
<1> QED  BY <1>1, <1>2, PTL DEF Spec

(* What the core takes for MAM's view of it is the address of a server     *)
(* connected since protection was last found, and downloads run from no    *)
(* other (AddressesAreReal), for any number of servers, cookies and        *)
(* connections.                                                            *)
THEOREM AddressesKept ==
    ASSUME MaxEpoch \in Nat, OwnerCookies \cap IssuedCookies = {}
    PROVE  Spec => []AddressesAreReal
<1>1. SessionInv => AddressesAreReal
  BY Zenon DEF SessionInv, Sound, Addressed, AddressesAreReal
<1> QED  BY <1>1, SessionSound, PTL

(* The requests that a step starts are jobs it adds.                       *)
LEMMA StartedIsNew ==
    ASSUME NEW i \in NewRequests
    PROVE  /\ jobs'[i] \in Elems(jobs') /\ jobs'[i] \notin Elems(jobs)
           /\ jobs'[i].op = "MamRequest" /\ jobs'[i].answer = "None"
<1>1. /\ i \in 1..Len(jobs') /\ jobs'[i].op = "MamRequest"
      /\ jobs'[i].answer = "None" /\ \A j \in 1..Len(jobs) : jobs[j] # jobs'[i]
  BY Zenon DEF NewRequests
<1> QED  BY <1>1, Zenon DEF Elems

(* No cookie is sent before MAM has shown its view of the connection       *)
(* (CookieWaitsForAddress), also not by a registration whose attempt was   *)
(* being saved when the connection ended (Mam::wanted and the epoch check  *)
(* at RegistrationAttemptSaved).                                           *)
THEOREM CookieWaits ==
    ASSUME MaxEpoch \in Nat, OwnerCookies \cap IssuedCookies = {}
    PROVE  Spec => CookieWaitsForAddress
<1>1. SessionInv /\ [Next]_vars =>
        [(\E i \in NewRequests : jobs'[i].cookie # NoCookie) => shown']_vars
  <2> SUFFICES ASSUME SessionInv, Next,
                      NEW i \in NewRequests, jobs'[i].cookie # NoCookie
               PROVE  shown'
    BY Zenon
  <2>1. NewSafe
    BY StepSafe, Zenon
  <2> QED  BY <2>1, StartedIsNew, Zenon DEF NewSafe
<1> QED  BY <1>1, SessionSound, PTL DEF Spec, CookieWaitsForAddress

(* No cookie is sent that the owner has replaced by another                *)
(* (ReplacedCookieUnused; Mam::follow_cookie starts another connection).   *)
THEOREM ReplacedUnused ==
    ASSUME MaxEpoch \in Nat, OwnerCookies \cap IssuedCookies = {}
    PROVE  Spec => ReplacedCookieUnused
<1>1. SessionInv /\ [Next]_vars =>
        [\A i \in NewRequests :
           jobs'[i].cookie # NoCookie
             => cookie'.requested \in {jobs'[i].cookie, NoCookie}]_vars
  <2> SUFFICES ASSUME SessionInv, Next,
                      NEW i \in NewRequests, jobs'[i].cookie # NoCookie
               PROVE  cookie'.requested \in {jobs'[i].cookie, NoCookie}
    BY Zenon
  <2>1. NewSafe
    BY StepSafe, Zenon
  <2> QED  BY <2>1, StartedIsNew, Zenon DEF NewSafe
<1> QED  BY <1>1, SessionSound, PTL DEF Spec, ReplacedCookieUnused

(* A cookie that MAM issues replaces the one its request was sent with,    *)
(* never one that the owner pasted meanwhile (PastedCookieStands;          *)
(* settings::rotate behind the epoch filter of MamEvent::Answered).        *)
THEOREM PastedStands ==
    ASSUME MaxEpoch \in Nat, OwnerCookies \cap IssuedCookies = {}
    PROVE  Spec => PastedCookieStands
<1>1. SessionInv /\ [Next]_vars =>
        [\A i \in 1..Len(jobs) : RotatesOn(i)
           => cookie.requested \in {jobs[i].cookie, NoCookie}]_vars
  <2> SUFFICES ASSUME SessionInv, Next
               PROVE  Stands
    BY Zenon DEF Stands
  <2> QED  BY StepSafe, Zenon
<1> QED  BY <1>1, SessionSound, PTL DEF Spec, PastedCookieStands

(* An answer, which does not say what it answers, can only be the          *)
(* outstanding request's: one request or registration save is in flight at *)
(* a time, across disconnections (Mam::decide).                            *)
THEOREM OneRequestInFlight ==
    ASSUME MaxEpoch \in Nat, OwnerCookies \cap IssuedCookies = {}
    PROVE  Spec => []AnswerMatchesRequest
<1>1. SessionInv => AnswerMatchesRequest
  <2> SUFFICES ASSUME SessionInv PROVE AnswerMatchesRequest
    BY Zenon
  <2>1. PICK busy : busy = {i \in 1..Len(jobs) :
              jobs[i].op \in {"MamRequest", "SaveRegistrationAttempt"}}
    BY Zenon
  <2>2. jobs \in Seq(Job) /\ OneRequest(mam, jobs) /\ mam.outstanding \in OutstandingState
    BY Zenon DEF SessionInv, Sound, Typed, MamState
  <2>3. busy = {i \in 1..Len(jobs) : jobs[i] \in Asking}
    BY <2>1, <2>2 DEF Asking
  <2>4. CASE mam.outstanding.stage = "None"
    <3>1. busy = {}
      BY <2>2, <2>3, <2>4, Zenon DEF OneRequest, Free
    <3> QED  BY <2>1, <2>4, <3>1, Zenon DEF AnswerMatchesRequest
  <2>5. CASE mam.outstanding.stage # "None"
    <3>3. PICK i \in 1..Len(jobs) :
            i \in busy /\ busy = {i} /\ jobs[i] \in Asking
      BY <2>2, <2>3, <2>5, Zenon DEF OneRequest, Single
    <3>4. Matches(mam, jobs[i])
      BY <2>2, <3>3, ElemsTyped DEF OneRequest
    <3>5. /\ jobs[i].request = mam.outstanding.request
          /\ (jobs[i].op = "MamRequest") <=> (mam.outstanding.stage = "Request")
      BY <3>4, Zenon DEF Matches
    <3> QED  BY <2>1, <2>5, <3>3, <3>5, Zenon DEF AnswerMatchesRequest
  <2> QED  BY <2>4, <2>5, Zenon
<1> QED  BY <1>1, SessionSound, PTL

(* The cookie taken for saved is the one in SQLite, and one write of it is *)
(* in flight at most (Setting::request, complete and replacement_failed).  *)
THEOREM SavedCookieStored ==
    ASSUME MaxEpoch \in Nat, OwnerCookies \cap IssuedCookies = {}
    PROVE  Spec => []SavedIsStored
<1>1. SessionInv => SavedIsStored
  <2> SUFFICES ASSUME SessionInv PROVE SavedIsStored
    BY Zenon
  <2>1. PICK writes : writes = {i \in 1..Len(jobs) :
              jobs[i].op \in {"WriteApiCookie", "WriteRotatedApiCookie"}}
    BY Zenon
  <2>2. jobs \in Seq(Job) /\ Agrees(cookie, jobs, stored)
    BY Zenon DEF SessionInv, Sound, Typed
  <2>3. writes = {i \in 1..Len(jobs) : jobs[i] \in Writing}
    BY <2>1, <2>2 DEF Writing
  <2>4. cookie.persistence \in {"Idle", "Failed"}
          => writes = {} /\ cookie.saved = stored
    BY <2>2, <2>3, Zenon DEF Agrees, Free
  <2>5. ASSUME cookie.persistence = "Pending"
        PROVE  \E i \in writes : /\ writes = {i}
                                 /\ jobs[i].cookie = cookie.pending
    <3>3. PICK i \in 1..Len(jobs) :
            i \in writes /\ writes = {i} /\ jobs[i] \in Writing
      BY <2>2, <2>3, <2>5, Zenon DEF Agrees, Single
    <3>4. WriteAgrees(cookie, jobs[i], stored)
      BY <2>2, <3>3, ElemsTyped, Zenon DEF Agrees
    <3> QED  BY <3>3, <3>4, Zenon DEF WriteAgrees
  <2> QED  BY <2>1, <2>4, <2>5, Zenon DEF SavedIsStored
<1> QED  BY <1>1, SessionSound, PTL
=============================================================================
