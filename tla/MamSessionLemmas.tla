-------------------------- MODULE MamSessionLemmas --------------------------
(***************************************************************************)
(* The invariant of the session with MAM, and what the pieces its actions  *)
(* are built from do to it.                                                *)
(*                                                                         *)
(* Every step of the core ends in Decide, so the invariant is stated of a  *)
(* mam m, the cookie setting c and the jobs js: an action keeps it for     *)
(* what it hands to Decide, and Decide keeps it.                           *)
(***************************************************************************)
EXTENDS MamCore, Jobs, TLAPS

Elems(s) == {s[i] : i \in 1..Len(s)}

(* None of s is in E, and one alone is; s has as many in E as t has, when  *)
(* that is none or one.                                                    *)
Free(s, E) == \A i \in 1..Len(s) : s[i] \notin E
Single(s, E) ==
    \E i \in 1..Len(s) :
      s[i] \in E /\ \A k \in 1..Len(s) : s[k] \in E => k = i
Alike(s, t, E) ==
    (Free(s, E) <=> Free(t, E)) /\ (Single(s, E) <=> Single(t, E))

(* A mam in the middle of a step, whose epoch may be past its bound.       *)
OutstandingState ==
    [stage : {"None", "SavingRegistration", "Request"},
     request : Requests \cup {"None"},
     cookie : Cookies \cup {NoCookie},
     epoch : Nat]

MamState ==
    [enabled : BOOLEAN,
     gate : {"Open", "Closed"},
     session : {"Unverified", "Verified", "Rejected", "Mismatch"},
     seen : Addresses \cup {NoAddress},
     observed : Addresses \cup {NoAddress},
     seedbox : Addresses \cup {NoAddress, "Refused"},
     download : Addresses \cup {NoAddress},
     reading : BOOLEAN,
     spending : BOOLEAN,
     inUse : Cookies \cup {NoCookie},
     issued : IssuedCookies \cup {NoCookie},
     epoch : Nat,
     outstanding : OutstandingState]

Typed(m, c, js) ==
    /\ m \in MamState
    /\ m.outstanding.epoch <= m.epoch
    /\ c \in S!SettingState \cup {NotLoaded}
    /\ js \in Seq(Job)

(* The outstanding request was made on the present connection.             *)
Current(m) ==
    m.outstanding.stage # "None" /\ m.outstanding.epoch = m.epoch

(* Behind a closed gate there is no connection.                            *)
Shut(m) ==
    m.gate = "Closed" =>
        m.observed = NoAddress /\ m.download = NoAddress /\ ~Current(m)

(* What MAM shows on the present connection is where it has come from.     *)
Addressed(m, js, ad) ==
    /\ m.observed \in {NoAddress} \cup ad
    /\ m.download \in {NoAddress} \cup ad
    /\ Current(m) => \A j \in Elems(js) :
          j.op = "MamRequest" /\ j.answer # "None" => j.address \in {NoAddress} \cup ad

Asking == {j \in Job : j.op \in {"MamRequest", "SaveRegistrationAttempt"}}
Writing == {j \in Job : j.op \in {"WriteApiCookie", "WriteRotatedApiCookie"}}

(* The one request or save in flight is the outstanding one.               *)
Matches(m, j) ==
    /\ j.request = m.outstanding.request
    /\ m.outstanding.stage = IF j.op = "MamRequest" THEN "Request"
                             ELSE "SavingRegistration"

OneRequest(m, js) ==
    /\ IF m.outstanding.stage = "None" THEN Free(js, Asking)
       ELSE Single(js, Asking)
    /\ \A j \in Elems(js) : j \in Asking => Matches(m, j)

(* The cookie setting, the one write in flight and SQLite agree.           *)
WriteAgrees(c, j, st) ==
    /\ j.cookie = c.pending
    /\ st = IF j.answer = "Ok" THEN j.cookie ELSE c.saved

Agrees(c, js, st) ==
    /\ c.persistence = "Idle" => c.saved = c.requested
    /\ c.persistence \in {"Idle", "Failed"} => c.saved = st
    /\ IF c.persistence = "Pending" THEN Single(js, Writing)
       ELSE Free(js, Writing)
    /\ \A j \in Elems(js) : j \in Writing => WriteAgrees(c, j, st)

(* A request on the present connection carries the cookie in use, which    *)
(* the owner has not replaced, or the cookie has yet to be followed.       *)
Holds(m, c, k) ==
    /\ m.inUse = k
    /\ m.issued # k
    /\ c.requested \in {k, NoCookie} \/ c.requested \notin {m.inUse, m.issued}

(* A registration that is being saved; sh is shown.                        *)
SavingHolds(m, c, sh) ==
    m.outstanding.stage = "SavingRegistration" =>
        /\ m.outstanding.request = "RegisterSeedbox"
        /\ m.outstanding.cookie # NoCookie
        /\ Current(m) => sh /\ Holds(m, c, m.outstanding.cookie)

RequestHolds(m, c, j) ==
    /\ j.cookie = NoCookie <=> j.request = "LookUpIp"
    /\ j.cookie = NoCookie => j.rotated = NoCookie
    /\ Current(m) /\ j.cookie # NoCookie => Holds(m, c, j.cookie)

Carries(m, c, js, sh) ==
    /\ SavingHolds(m, c, sh)
    /\ \A j \in Elems(js) : j.op = "MamRequest" => RequestHolds(m, c, j)
    /\ m.outstanding.stage # "None" /\ m.outstanding.request # "LookUpIp" =>
          \A j \in Elems(js) : j.op # "WriteRotatedApiCookie"
    /\ c = NotLoaded => m.inUse = NoCookie /\ m.issued = NoCookie

Sound(m, c, js, sh, st, ad) ==
    /\ Typed(m, c, js)
    /\ Shut(m)
    /\ Addressed(m, js, ad)
    /\ OneRequest(m, js)
    /\ Agrees(c, js, st)
    /\ Carries(m, c, js, sh)

(* The gate is open only with its conditions, and the cookie is followed.  *)
Ends(m, c, runs, protects) ==
    /\ m.epoch <= MaxEpoch
    /\ m.gate = "Open" => m.enabled /\ runs /\ protects
    /\ c.requested \in {m.inUse, m.issued}

-----------------------------------------------------------------------------
(* Elements of sequences.                                                  *)

LEMMA ElemsJoined ==
    ASSUME NEW X, NEW a \in Seq(X), NEW b \in Seq(X)
    PROVE  Elems(a \o b) = Elems(a) \cup Elems(b)
<1>1. /\ Len(a \o b) = Len(a) + Len(b)
      /\ \A k \in 1..Len(a) : (a \o b)[k] = a[k]
      /\ \A k \in (Len(a) + 1)..(Len(a) + Len(b)) : (a \o b)[k] = b[k - Len(a)]
      /\ Len(a) \in Nat /\ Len(b) \in Nat
  OBVIOUS
<1>2. Elems(a \o b) \subseteq Elems(a) \cup Elems(b)
  <2> SUFFICES ASSUME NEW k \in 1..(Len(a) + Len(b))
               PROVE  (a \o b)[k] \in Elems(a) \cup Elems(b)
    BY <1>1, Zenon DEF Elems
  <2>1. CASE k \in 1..Len(a)
    BY <1>1, <2>1, Zenon DEF Elems
  <2>2. CASE k \in (Len(a) + 1)..(Len(a) + Len(b))
    <3>1. k - Len(a) \in 1..Len(b)
      BY <1>1, <2>2
    <3> QED  BY <1>1, <2>2, <3>1, Zenon DEF Elems
  <2> QED  BY <1>1, <2>1, <2>2
<1>3. \A k \in 1..Len(a) : a[k] \in Elems(a \o b)
  <2> TAKE k \in 1..Len(a)
  <2>1. k \in 1..Len(a \o b) /\ a[k] = (a \o b)[k]
    BY <1>1
  <2> QED  BY <2>1, Zenon DEF Elems
<1>4. \A k \in 1..Len(b) : b[k] \in Elems(a \o b)
  <2> TAKE k \in 1..Len(b)
  <2>1. /\ k + Len(a) \in (Len(a) + 1)..(Len(a) + Len(b))
        /\ k + Len(a) \in 1..Len(a \o b)
        /\ (k + Len(a)) - Len(a) = k
    BY <1>1
  <2>2. b[k] = (a \o b)[k + Len(a)]
    BY <1>1, <2>1, Zenon
  <2> QED  BY <2>1, <2>2, Zenon DEF Elems
<1> QED  BY <1>2, <1>3, <1>4, Zenon DEF Elems

LEMMA ElemsFew ==
    ASSUME NEW x
    PROVE  Elems(<<>>) = {} /\ Elems(<<x>>) = {x}
  BY DEF Elems

LEMMA ElemsTyped ==
    ASSUME NEW X, NEW s \in Seq(X)
    PROVE  Elems(s) \subseteq X /\ \A i \in 1..Len(s) : s[i] \in Elems(s)
  BY DEF Elems

(* Nothing of s is in E, seen by its elements.                             *)
LEMMA NoneOf ==
    ASSUME NEW s, NEW E, Free(s, E)
    PROVE  \A x \in Elems(s) : x \notin E
  BY Zenon DEF Elems, Free

(* A job that changes in its place counts where it counted.                *)
Changed(s, i, x, t) ==
    /\ s \in Seq(Job) /\ i \in 1..Len(s) /\ x \in Job
    /\ t = [s EXCEPT ![i] = x]

LEMMA Replaced ==
    ASSUME NEW s, NEW i, NEW x, NEW t, Changed(s, i, x, t)
    PROVE  /\ t \in Seq(Job) /\ Elems(t) \subseteq Elems(s) \cup {x}
           /\ t[i] = x /\ i \in 1..Len(t)
           /\ \A E : (x \in E <=> s[i] \in E) => Alike(t, s, E)
<1>1. /\ t \in Seq(Job) /\ Len(t) = Len(s) /\ i \in 1..Len(s)
      /\ \A k \in 1..Len(s) : t[k] = IF k = i THEN x ELSE s[k]
  BY DEF Changed
<1>2. Elems(t) \subseteq Elems(s) \cup {x}
  BY <1>1, Zenon DEF Elems
<1>3. ASSUME NEW E, x \in E <=> s[i] \in E
      PROVE  Alike(t, s, E)
  <2>1. \A k \in 1..Len(s) : t[k] \in E <=> s[k] \in E
    BY <1>1, <1>3, Zenon
  <2> QED  BY <1>1, <2>1, Zenon DEF Alike, Free, Single
<1>4. t[i] = x /\ i \in 1..Len(t)
  BY <1>1, Zenon
<1> QED  BY <1>1, <1>2, <1>3, <1>4, Zenon

-----------------------------------------------------------------------------
(* A mam that knows no more than before, on this connection or on another. *)
LEMMA KnowsNoMore ==
    ASSUME NEW m, NEW c, NEW js, NEW sh, NEW st, NEW ad,
           Sound(m, c, js, sh, st, ad),
           NEW f \in MamState,
           f.outstanding = m.outstanding,
           f.epoch >= m.epoch,
           f.observed \in {m.observed, NoAddress},
           f.download \in {m.download, NoAddress},
           Shut(f),
           Current(f) => \A k : k # NoCookie /\ Holds(m, c, k) => Holds(f, c, k),
           c = NotLoaded => f.inUse = m.inUse /\ f.issued = m.issued
    PROVE  Sound(f, c, js, sh, st, ad)
<1>0. /\ m.epoch \in Nat /\ f.epoch \in Nat
      /\ m.outstanding.epoch \in Nat /\ m.outstanding.epoch <= m.epoch
  BY Zenon DEF Sound, Typed, MamState, OutstandingState
<1>1. Typed(f, c, js)
  BY <1>0 DEF Sound, Typed
<1>2. Current(f) => Current(m)
  BY <1>0 DEF Current
<1>3. Addressed(f, js, ad)
  BY <1>2, Zenon DEF Sound, Addressed
<1>4. OneRequest(f, js)
  BY Zenon DEF Sound, OneRequest, Matches
<1>5. Agrees(c, js, st)
  BY Zenon DEF Sound
<1>6. Carries(f, c, js, sh)
  <2>1. SavingHolds(f, c, sh)
    BY <1>2, Zenon DEF Sound, Carries, SavingHolds
  <2>2. \A j \in Elems(js) : j.op = "MamRequest" => RequestHolds(f, c, j)
    BY <1>2, Zenon DEF Sound, Carries, RequestHolds
  <2> QED  BY <2>1, <2>2, Zenon DEF Sound, Carries
<1> QED  BY <1>1, <1>3, <1>4, <1>5, <1>6, Zenon DEF Sound

(* A mam and what follows from its fields having their types.              *)
LEMMA Disconnected ==
    ASSUME NEW m \in MamState, NEW f, f = Disconnect(m)
    PROVE  /\ f \in MamState
           /\ f.outstanding = m.outstanding /\ f.epoch = m.epoch + 1
           /\ f.observed = NoAddress /\ f.download = NoAddress
           /\ f.inUse = m.inUse /\ f.issued = m.issued
           /\ f.enabled = m.enabled /\ f.gate = m.gate
<1>1. m.epoch + 1 \in Nat
  BY DEF MamState
<1>2. f \in MamState
  BY ONLY <1>1, m \in MamState, f = Disconnect(m), Zenon DEF Disconnect, MamState
<1> QED  BY <1>2 DEF Disconnect, MamState

(* A core that has just started.                                           *)
LEMMA NewSound ==
    ASSUME NEW st, NEW ad
    PROVE  Sound(NewMam, NotLoaded, <<>>, FALSE, st, ad)
<1>1. /\ NewMam \in MamState /\ NewMam.outstanding = NoRequest
      /\ NewMam.observed = NoAddress /\ NewMam.download = NoAddress
      /\ NewMam.inUse = NoCookie /\ NewMam.issued = NoCookie
      /\ NewMam.epoch = 0
  <2>1. NoRequest \in OutstandingState
    BY Zenon DEF NoRequest, OutstandingState
  <2> QED  BY <2>1, Zenon DEF NewMam, MamState
<1>2. NoRequest.stage = "None" /\ NoRequest.epoch = 0
  BY Zenon DEF NoRequest
<1>3. Elems(<<>>) = {} /\ \A E : Free(<<>>, E)
  <2>1. ASSUME NEW E PROVE Free(<<>>, E)
    BY DEF Free
  <2> QED  BY <2>1, ElemsFew, Zenon
<1>4. Typed(NewMam, NotLoaded, <<>>)
  BY <1>1, <1>2 DEF Typed
<1>5. NotLoaded.persistence = "NotLoaded"
  BY Zenon DEF NotLoaded
<1> QED  BY <1>1, <1>2, <1>3, <1>4, <1>5, Zenon
         DEF Sound, Shut, Addressed, OneRequest, Agrees, Carries,
             SavingHolds, Current

(* What an answer changes: the addresses, and only on its own connection.  *)
Told(m, n, ad) ==
    /\ n.gate = m.gate /\ n.epoch = m.epoch
    /\ n.inUse = m.inUse /\ n.issued = m.issued
    /\ n.observed # m.observed \/ n.download # m.download
         => m.outstanding.epoch = m.epoch
    /\ n.observed \in {m.observed, ad}
    /\ n.download \in {m.download, ad}

LEMMA AnsweredTyped ==
    ASSUME NEW m \in MamState, NEW request, NEW job \in Job,
           NEW n, n = Answered(m, request, job)
    PROVE  n \in MamState /\ Told(m, n, job.address)
<1>0. /\ job.address \in Addresses \cup {NoAddress}
      /\ m.observed \in Addresses \cup {NoAddress}
  BY Zenon DEF Job, MamState
<1>1. CASE m.outstanding.epoch # m.epoch
  <2>1. n = m \/ n = [m EXCEPT !.spending = FALSE]
    BY <1>1, Zenon DEF Answered
  <2> QED  BY <1>1, <2>1, Zenon DEF MamState, Told
<1>2. CASE m.outstanding.epoch = m.epoch
  <2>1. PICK f : f = IF NeedsCookie(request)
                     THEN FollowSession(m, request, job.answer) ELSE m
    BY Zenon
  <2>2. \/ f = m
        \/ \E s \in {"Verified", "Rejected", "Mismatch"},
              a \in {m.observed, NoAddress} :
             f = [m EXCEPT !.session = s, !.seen = a]
    BY <2>1, Zenon DEF FollowSession
  <2>3. f \in MamState
    <3>1. CASE f = m
      BY <3>1, Zenon
    <3>2. CASE \E s \in {"Verified", "Rejected", "Mismatch"},
                 a \in {m.observed, NoAddress} :
                f = [m EXCEPT !.session = s, !.seen = a]
      <4>1. PICK s \in {"Verified", "Rejected", "Mismatch"},
                 a \in {m.observed, NoAddress} :
              f = [m EXCEPT !.session = s, !.seen = a]
        BY <3>2, Zenon
      <4>2. PICK b : b = [m EXCEPT !.session = s]
        BY Zenon
      <4>3. b \in MamState
        BY <4>2, Zenon DEF MamState
      <4>4. f = [b EXCEPT !.seen = a]
        BY <4>1, <4>2, Zenon DEF MamState
      <4>5. a \in Addresses \cup {NoAddress}
        BY <1>0, Zenon
      <4> QED  BY <4>3, <4>4, <4>5, Zenon DEF MamState
    <3> QED  BY <2>2, <3>1, <3>2, Zenon
  <2>4. /\ f.gate = m.gate /\ f.epoch = m.epoch
        /\ f.inUse = m.inUse /\ f.issued = m.issued
        /\ f.observed = m.observed /\ f.download = m.download
    BY <2>2, Zenon DEF MamState
  <2>5. \/ n = f
        \/ n = [f EXCEPT !.spending = FALSE]
        \/ n = [f EXCEPT !.observed = job.address]
        \/ n = [f EXCEPT !.seedbox = job.address, !.download = job.address]
        \/ n = [f EXCEPT !.seedbox = "Refused"]
        \/ n = [f EXCEPT !.seedbox = NoAddress]
        \/ n = [f EXCEPT !.reading = TRUE]
    BY <1>2, <2>1, Zenon DEF Answered, Learned
  <2>6. n \in MamState
    <3>1. CASE n = f
      BY <2>3, <3>1, Zenon
    <3>2. CASE n = [f EXCEPT !.spending = FALSE]
      BY <2>3, <3>2, Zenon DEF MamState
    <3>3. CASE n = [f EXCEPT !.observed = job.address]
      BY <1>0, <2>3, <3>3 DEF MamState
    <3>4. CASE n = [f EXCEPT !.seedbox = job.address,
                             !.download = job.address]
      BY ONLY <1>0, <2>3, <3>4, Zenon DEF MamState
    <3>5. CASE n = [f EXCEPT !.seedbox = "Refused"]
      BY <2>3, <3>5, Zenon DEF MamState
    <3>6. CASE n = [f EXCEPT !.seedbox = NoAddress]
      BY <2>3, <3>6, Zenon DEF MamState
    <3>7. CASE n = [f EXCEPT !.reading = TRUE]
      BY <2>3, <3>7, Zenon DEF MamState
    <3> QED
      BY <2>5, <3>1, <3>2, <3>3, <3>4, <3>5, <3>6, <3>7, Zenon
  <2>7. /\ n.gate = f.gate /\ n.epoch = f.epoch
        /\ n.inUse = f.inUse /\ n.issued = f.issued
        /\ n.observed \in {f.observed, job.address}
        /\ n.download \in {f.download, job.address}
    BY <2>3, <2>5, ZenonT(30) DEF MamState
  <2> QED  BY <1>2, <2>4, <2>6, <2>7, Zenon DEF Told
<1> QED  BY <1>1, <1>2, Zenon

(* Mam::follow_gate: a gate that closes ends the connection.               *)
Followed(m, f, runs, protects) ==
    /\ f.observed \in {m.observed, NoAddress}
    /\ f.gate = "Open" <=> m.enabled /\ runs /\ protects
    /\ f.enabled = m.enabled

LEMMA GateSound ==
    ASSUME NEW m, NEW c, NEW js, NEW sh, NEW st, NEW ad,
           Sound(m, c, js, sh, st, ad),
           NEW runs \in BOOLEAN, NEW protects \in BOOLEAN,
           NEW f, f = FollowGate(m, runs, protects)
    PROVE  Sound(f, c, js, sh, st, ad) /\ Followed(m, f, runs, protects)
<1> DEFINE gate == IF m.enabled /\ runs /\ protects THEN "Open" ELSE "Closed"
           left == IF m.gate = "Open" /\ gate = "Closed" THEN Disconnect(m)
                   ELSE m
<1>0. m \in MamState /\ m.outstanding.epoch <= m.epoch /\ Shut(m)
  BY Zenon DEF Sound, Typed
<1>1. f = [left EXCEPT !.gate = gate]
  BY Zenon DEF FollowGate
<1>2. gate \in {"Open", "Closed"} /\ (gate = "Open" <=> m.enabled /\ runs /\ protects)
  BY Zenon
<1>3. /\ left \in MamState
      /\ left.outstanding = m.outstanding
      /\ left.observed \in {m.observed, NoAddress}
      /\ left.download \in {m.download, NoAddress}
      /\ left.inUse = m.inUse /\ left.issued = m.issued
      /\ left.enabled = m.enabled
      /\ left.epoch = m.epoch \/ left.epoch = m.epoch + 1
      /\ gate = "Closed" => \/ left = m /\ m.gate = "Closed"
                            \/ /\ left.observed = NoAddress
                               /\ left.download = NoAddress
                               /\ left.epoch = m.epoch + 1
  <2>1. CASE m.gate = "Open" /\ gate = "Closed"
    <3>1. left = Disconnect(m)
      BY <2>1, Zenon
    <3> HIDE DEF left
    <3> QED  BY <1>0, <2>1, <3>1, Disconnected, Zenon
  <2>2. CASE ~(m.gate = "Open" /\ gate = "Closed")
    <3>1. left = m
      BY <2>2, Zenon
    <3>2. gate = "Closed" => m.gate = "Closed"
      BY <1>0, <2>2, Zenon DEF MamState
    <3> QED  BY <1>0, <3>1, <3>2, Zenon
  <2> QED  BY <2>1, <2>2, Zenon
<1> HIDE DEF left, gate
<1>4. f \in MamState
  BY <1>1, <1>2, <1>3, Zenon DEF MamState
<1>5. /\ f.gate = gate
      /\ f.outstanding = left.outstanding /\ f.epoch = left.epoch
      /\ f.observed = left.observed /\ f.download = left.download
      /\ f.inUse = left.inUse /\ f.issued = left.issued
      /\ f.enabled = left.enabled
  BY <1>1, <1>3, Zenon DEF MamState
<1>6. Shut(f)
  <2>1. m.epoch \in Nat /\ m.outstanding.epoch \in Nat
    BY <1>0, Zenon DEF MamState, OutstandingState
  <2> QED  BY <1>0, <1>3, <1>5, <2>1 DEF Shut, Current
<1>7. f.epoch >= m.epoch
  BY <1>0, <1>3, <1>5 DEF MamState
<1>8. \A k : Holds(m, c, k) => Holds(f, c, k)
  BY <1>3, <1>5, Zenon DEF Holds
<1>9. Sound(f, c, js, sh, st, ad)
  BY <1>3, <1>4, <1>5, <1>6, <1>7, <1>8, KnowsNoMore, Zenon
<1> QED  BY <1>2, <1>3, <1>5, <1>9, Zenon DEF Followed

(* Mam::follow_cookie: a cookie that is neither in use nor issued starts   *)
(* another connection.                                                     *)
LEMMA CookieSound ==
    ASSUME NEW m, NEW c, NEW js, NEW sh, NEW st, NEW ad,
           Sound(m, c, js, sh, st, ad),
           NEW f, f = FollowCookie(m, c)
    PROVE  /\ Sound(f, c, js, sh, st, ad)
           /\ f.observed = m.observed
           /\ f.gate = m.gate /\ f.enabled = m.enabled
           /\ c.requested \in {f.inUse, f.issued}
           /\ UsableCookie(c) # NoCookie =>
                /\ c.requested = UsableCookie(c)
                /\ f.inUse = UsableCookie(c) /\ f.issued # f.inUse
<1>0. /\ m \in MamState /\ m.outstanding.epoch <= m.epoch /\ Shut(m)
      /\ m.epoch \in Nat /\ m.outstanding.epoch \in Nat
  BY Zenon DEF Sound, Typed, MamState, OutstandingState
<1>1. /\ c.requested \in Cookies \cup {NoCookie}
      /\ UsableCookie(c) # NoCookie => c.requested = UsableCookie(c)
      /\ c = NotLoaded => c.requested = NoCookie /\ UsableCookie(c) = NoCookie
  BY DEF Sound, Typed, Agrees, UsableCookie, NotLoaded, S!SettingState
<1>2. CASE c.requested # m.inUse /\ c.requested # m.issued
  <2>1. f = [m EXCEPT !.inUse = c.requested, !.issued = NoCookie,
                      !.epoch = @ + 1, !.session = "Unverified",
                      !.seen = NoAddress, !.seedbox = NoAddress,
                      !.download = NoAddress]
    BY <1>2, Zenon DEF FollowCookie, RequestedCookie
  <2>2. f \in MamState
    <3>1. m.epoch + 1 \in Nat
      BY <1>0
    <3> QED  BY ONLY <1>0, <1>1, <2>1, <3>1, Zenon DEF MamState
  <2>3. /\ f.inUse = c.requested /\ f.issued = NoCookie
        /\ f.epoch = m.epoch + 1 /\ f.download = NoAddress
        /\ f.observed = m.observed /\ f.gate = m.gate
        /\ f.enabled = m.enabled /\ f.outstanding = m.outstanding
    BY <1>0, <2>1, Zenon DEF MamState
  <2>4. ~Current(f)
    BY <1>0, <2>3 DEF Current
  <2>5. Shut(f)
    BY <1>0, <2>3, <2>4, Zenon DEF Shut
  <2>6. c # NotLoaded
    BY <1>1, <1>2, Zenon DEF Sound, Carries
  <2>7. f.epoch >= m.epoch
    BY <1>0, <2>3
  <2>8. Sound(f, c, js, sh, st, ad)
    BY <2>2, <2>3, <2>4, <2>5, <2>6, <2>7, KnowsNoMore, Zenon
  <2> QED  BY <1>1, <2>3, <2>8, Zenon
<1>3. CASE /\ c.requested = m.inUse \/ c.requested = m.issued
           /\ UsableCookie(c) # NoCookie /\ UsableCookie(c) = m.issued
  <2>1. f = [m EXCEPT !.inUse = m.issued, !.issued = NoCookie]
    BY <1>3, Zenon DEF FollowCookie, RequestedCookie
  <2>2. f \in MamState
    BY <1>0, <2>1, Zenon DEF MamState, Cookies
  <2>3. /\ f.inUse = m.issued /\ f.issued = NoCookie
        /\ f.epoch = m.epoch /\ f.download = m.download
        /\ f.observed = m.observed /\ f.gate = m.gate
        /\ f.enabled = m.enabled /\ f.outstanding = m.outstanding
    BY <1>0, <2>1, Zenon DEF MamState
  <2>4. Shut(f)
    BY <1>0, <2>3, Zenon DEF Shut, Current
  <2>5. \A k : ~Holds(m, c, k)
    BY <1>1, <1>3, Zenon DEF Holds
  <2>6. c # NotLoaded
    BY <1>1, <1>3, Zenon
  <2>7. f.epoch >= m.epoch
    BY <1>0, <2>3
  <2>8. Sound(f, c, js, sh, st, ad)
    BY <2>2, <2>3, <2>4, <2>5, <2>6, <2>7, KnowsNoMore, Zenon
  <2> QED  BY <1>1, <1>3, <2>3, <2>8, Zenon
<1>4. CASE /\ c.requested = m.inUse \/ c.requested = m.issued
           /\ UsableCookie(c) = NoCookie \/ UsableCookie(c) # m.issued
  <2>1. f = m
    BY <1>4, Zenon DEF FollowCookie, RequestedCookie
  <2> QED  BY <1>1, <1>4, <2>1, Zenon
<1> QED  BY <1>2, <1>3, <1>4, Zenon

(* Mam::follow_connectability forgets the address.                         *)
LEMMA RepairSound ==
    ASSUME NEW m, NEW c, NEW js, NEW sh, NEW st, NEW ad,
           Sound(m, c, js, sh, st, ad),
           NEW f, f = Repair(m)
    PROVE  /\ Sound(f, c, js, sh, st, ad)
           /\ f.observed = NoAddress
           /\ f.gate = m.gate /\ f.enabled = m.enabled
           /\ f.inUse = m.inUse /\ f.issued = m.issued
<1>0. m \in MamState /\ m.epoch \in Nat /\ Shut(m)
  BY Zenon DEF Sound, Typed, MamState
<1>1. f \in MamState
  BY <1>0, Zenon DEF Repair, MamState
<1>2. /\ f.inUse = m.inUse /\ f.issued = m.issued
      /\ f.epoch = m.epoch /\ f.download = m.download
      /\ f.observed = NoAddress /\ f.gate = m.gate
      /\ f.enabled = m.enabled /\ f.outstanding = m.outstanding
  BY <1>0, Zenon DEF Repair, MamState
<1>3. Shut(f)
  BY <1>0, <1>2, Zenon DEF Shut, Current
<1>4. \A k : Holds(m, c, k) => Holds(f, c, k)
  BY <1>2, Zenon DEF Holds
<1>5. f.epoch >= m.epoch
  BY <1>0, <1>2
<1>6. Sound(f, c, js, sh, st, ad)
  BY <1>1, <1>2, <1>3, <1>4, <1>5, KnowsNoMore, Zenon
<1> QED  BY <1>2, <1>6, Zenon

-----------------------------------------------------------------------------
(* What is in flight.                                                      *)

(* The kinds of jobs exclude each other.                                   *)
LEMMA KindsApart ==
    ASSUME NEW j \in Job
    PROVE  /\ j \in Asking <=> j \notin Writing
           /\ j.op = "MamRequest" => j \in Asking
           /\ j.op = "WriteRotatedApiCookie" => j \in Writing
  BY Zenon DEF Asking, Writing, Job, Operations

(* One more job.                                                           *)
LEMMA OneMore ==
    ASSUME NEW js \in Seq(Job), NEW j \in Job
    PROVE  /\ js \o <<j>> \in Seq(Job)
           /\ Elems(js \o <<j>>) = Elems(js) \cup {j}
           /\ \A E : IF j \in E
                    THEN Free(js, E) => Single(js \o <<j>>, E)
                    ELSE Alike(js \o <<j>>, js, E)
<1>1. <<j>> \in Seq(Job)
  OBVIOUS
<1>2. Elems(js \o <<j>>) = Elems(js) \cup {j}
  <2>1. PICK one : one = <<j>>
    BY Zenon
  <2>2. one \in Seq(Job) /\ Elems(one) = {j}
    BY <1>1, <2>1, ElemsFew, Zenon
  <2>3. Elems(js \o one) = Elems(js) \cup Elems(one)
    BY <2>2, ElemsJoined
  <2> QED  BY <2>1, <2>2, <2>3, Zenon
<1>3. ASSUME NEW E
      PROVE  IF j \in E THEN Free(js, E) => Single(js \o <<j>>, E)
             ELSE Alike(js \o <<j>>, js, E)
  <2>1. PICK t : t = js \o <<j>>
    BY Zenon
  <2> PICK n \in Nat : n = Len(js)
    OBVIOUS
  <2>2. /\ Len(t) = n + 1 /\ t[n + 1] = j
        /\ \A k \in 1..n : t[k] = js[k]
    BY <2>1
  <2>3. ASSUME j \in E, Free(js, E) PROVE Single(t, E)
    <3>1. n + 1 \in 1..Len(t) /\ t[n + 1] \in E
      BY <2>2, <2>3
    <3>2. \A k \in 1..Len(t) : t[k] \in E => k = n + 1
      BY <2>1, <2>2, <2>3 DEF Free
    <3> QED  BY <3>1, <3>2, Zenon DEF Single
  <2>4. ASSUME j \notin E PROVE Alike(t, js, E)
    <3>1. \A k \in 1..Len(t) : t[k] \in E => k \in 1..n /\ js[k] \in E
      BY <2>2, <2>4
    <3>2. \A k \in 1..n : k \in 1..Len(t) /\ t[k] = js[k]
      BY <2>2
    <3> HIDE <2>2
    <3> QED  BY <2>1, <3>1, <3>2, Zenon DEF Alike, Free, Single
  <2> QED  BY <2>1, <2>3, <2>4, Zenon
<1> QED  BY <1>1, <1>2, <1>3

Starts(r, c, js, n, j, sh1) ==
    /\ r.outstanding.stage = "None" /\ r.gate = "Open"
    /\ n \in MamState /\ j \in Asking
    /\ n.gate = r.gate /\ n.observed = r.observed /\ n.download = r.download
    /\ n.inUse = r.inUse /\ n.issued = r.issued /\ n.epoch = r.epoch
    /\ n.outstanding.epoch = r.epoch /\ n.outstanding.stage # "None"
    /\ Matches(n, j) /\ j.answer = "None" /\ SavingHolds(n, c, sh1)
    /\ j.op = "MamRequest" => RequestHolds(n, c, j)
    /\ n.outstanding.request # "LookUpIp" =>
         \A w \in Elems(js) : w.op # "WriteRotatedApiCookie"

(* A request or save that starts when none is outstanding.                 *)
LEMMA StartSound ==
    ASSUME NEW r, NEW c, NEW js, NEW sh, NEW st, NEW ad, NEW n, NEW j, NEW sh1,
           Sound(r, c, js, sh, st, ad), Starts(r, c, js, n, j, sh1)
    PROVE  Sound(n, c, js \o <<j>>, sh1, st, ad)
<1> USE DEF Starts
<1>0. j \in Job /\ js \in Seq(Job) /\ Elems(js) \subseteq Job
  BY ElemsTyped, Zenon DEF Asking, Sound, Typed
<1>1. /\ js \o <<j>> \in Seq(Job)
      /\ Elems(js \o <<j>>) = Elems(js) \cup {j}
      /\ Single(js \o <<j>>, Asking)
      /\ Alike(js \o <<j>>, js, Writing)
      /\ j \notin Writing /\ Free(js, Asking)
  <2>1. j \notin Writing
    BY <1>0, KindsApart, Zenon
  <2>2. Free(js, Asking)
    BY Zenon DEF Sound, OneRequest
  <2> QED  BY <1>0, <2>1, <2>2, OneMore, Zenon
<1>2. \A w \in Elems(js) : w \notin Asking /\ w.op # "MamRequest"
  BY <1>0, <1>1, NoneOf, KindsApart, Zenon
<1>3. Typed(n, c, js \o <<j>>)
  <2>1. r.epoch <= r.epoch
    BY DEF Sound, Typed, MamState
  <2> QED  BY <1>1, <2>1, Zenon DEF Sound, Typed
<1>4. Shut(n)
  BY Zenon DEF Shut
<1>5. Addressed(n, js \o <<j>>, ad)
  BY <1>1, <1>2, Zenon DEF Addressed, Sound
<1>6. OneRequest(n, js \o <<j>>)
  BY <1>1, <1>2, Zenon DEF OneRequest
<1>7. Agrees(c, js \o <<j>>, st)
  BY <1>1, Zenon DEF Sound, Agrees, Alike
<1>8. Carries(n, c, js \o <<j>>, sh1)
  <2>1. j.op # "WriteRotatedApiCookie"
    BY <1>0, KindsApart, Zenon
  <2> QED  BY <1>1, <1>2, <2>1, Zenon DEF Sound, Carries
<1> QED  BY <1>3, <1>4, <1>5, <1>6, <1>7, <1>8, Zenon DEF Sound

(* Everything but the setting's agreement with its write and with SQLite.  *)
Rest(m, c, js, sh, ad) ==
    /\ Typed(m, c, js)
    /\ Shut(m)
    /\ Addressed(m, js, ad)
    /\ OneRequest(m, js)
    /\ Carries(m, c, js, sh)

(* A job that is done.                                                     *)
LEMMA OneLess ==
    ASSUME NEW js \in Seq(Job), NEW i \in 1..Len(js)
    PROVE  /\ js[i] \in Job /\ js[i] \in Elems(js)
           /\ Without(js, i) \in Seq(Job)
           /\ Elems(Without(js, i)) \subseteq Elems(js)
           /\ Elems(js) \subseteq Job
           /\ \A E : IF js[i] \in E
                    THEN /\ ~Free(js, E)
                         /\ Single(js, E) => Free(Without(js, i), E)
                    ELSE Alike(Without(js, i), js, E)
<1>1. PICK t : t = Without(js, i)
  BY Zenon
<1>2. /\ t \in Seq(Job) /\ Len(t) = Len(js) - 1
      /\ \A k \in 1..Len(t) : t[k] = IF k < i THEN js[k] ELSE js[k + 1]
  BY <1>1 DEF Without
<1>3. \A k \in 1..Len(t) : \E k1 \in 1..Len(js) : k1 # i /\ t[k] = js[k1]
                            /\ k1 = IF k < i THEN k ELSE k + 1
  BY <1>2
<1>4. \A k \in 1..Len(js) : k # i =>
        \E k1 \in 1..Len(t) : t[k1] = js[k] /\ k = IF k1 < i THEN k1 ELSE k1 + 1
  <2> TAKE k \in 1..Len(js)
  <2>1. CASE k < i
    BY <1>2, <2>1
  <2>2. CASE k > i
    <3>1. k - 1 \in 1..Len(t) /\ ~(k - 1 < i) /\ (k - 1) + 1 = k
      BY <1>2, <2>2
    <3> QED  BY <1>2, <3>1, Zenon
  <2> QED  BY <2>1, <2>2
<1>5. Elems(t) \subseteq Elems(js)
  BY <1>3 DEF Elems
<1>6. ASSUME NEW E
      PROVE  IF js[i] \in E
             THEN ~Free(js, E) /\ (Single(js, E) => Free(t, E))
             ELSE Alike(t, js, E)
  <2>1. CASE js[i] \in E
    BY <1>3, <2>1, Zenon DEF Free, Single
  <2>2. CASE js[i] \notin E
    <3>1. Free(t, E) <=> Free(js, E)
      BY <1>3, <1>4, <2>2, Zenon DEF Free
    <3>2. ASSUME Single(t, E) PROVE Single(js, E)
      <4>1. PICK k \in 1..Len(t) :
              t[k] \in E /\ \A l \in 1..Len(t) : t[l] \in E => l = k
        BY <3>2, Zenon DEF Single
      <4>2. PICK k1 \in 1..Len(js) :
              t[k] = js[k1] /\ k1 = IF k < i THEN k ELSE k + 1
        BY <1>3, Zenon
      <4>3. \A l \in 1..Len(js) : js[l] \in E => l = k1
        BY <1>4, <2>2, <4>1, <4>2, Zenon
      <4> QED  BY <4>1, <4>2, <4>3, Zenon DEF Single
    <3>3. ASSUME Single(js, E) PROVE Single(t, E)
      <4>1. PICK k \in 1..Len(js) :
              js[k] \in E /\ \A l \in 1..Len(js) : js[l] \in E => l = k
        BY <3>3, Zenon DEF Single
      <4>2. PICK k1 \in 1..Len(t) :
              t[k1] = js[k] /\ k = IF k1 < i THEN k1 ELSE k1 + 1
        BY <1>4, <2>2, <4>1, Zenon
      <4>3. \A l \in 1..Len(t) : t[l] \in E => l = k1
        BY <1>3, <4>1, <4>2
      <4> QED  BY <4>1, <4>2, <4>3, Zenon DEF Single
    <3> QED  BY <2>2, <3>1, <3>2, <3>3, Zenon DEF Alike
  <2> QED  BY <2>1, <2>2, Zenon
<1> QED  BY <1>1, <1>2, <1>5, <1>6, ElemsTyped, Zenon

(* The request or save that is done was the only one.                      *)
LEMMA DoneSound ==
    ASSUME NEW m, NEW c, NEW js, NEW sh, NEW st, NEW ad,
           Sound(m, c, js, sh, st, ad),
           NEW i \in 1..Len(js), js[i] \in Asking,
           NEW n \in MamState, n.outstanding = NoRequest,
           n.observed \in {NoAddress} \cup ad, n.download \in {NoAddress} \cup ad,
           Shut(n),
           c = NotLoaded => n.inUse = NoCookie /\ n.issued = NoCookie
    PROVE  Sound(n, c, Without(js, i), sh, st, ad)
<1> DEFINE left == Without(js, i)
<1>0. js \in Seq(Job)
  BY Zenon DEF Sound, Typed
<1>1. /\ js[i] \in Job /\ js[i] \in Elems(js)
      /\ left \in Seq(Job)
      /\ Elems(left) \subseteq Elems(js)
      /\ Elems(js) \subseteq Job
      /\ IF js[i] \in Asking
         THEN ~Free(js, Asking) /\ (Single(js, Asking) => Free(left, Asking))
         ELSE Alike(left, js, Asking)
      /\ IF js[i] \in Writing
         THEN ~Free(js, Writing) /\ (Single(js, Writing) => Free(left, Writing))
         ELSE Alike(left, js, Writing)
  BY <1>0, OneLess, Zenon
<1> HIDE DEF left
<1>2. js[i] \notin Writing
  BY <1>1, KindsApart, Zenon
<1>3. Free(left, Asking) /\ Alike(left, js, Writing)
  BY <1>1, <1>2, Zenon DEF Sound, OneRequest
<1>4. \A w \in Elems(left) : w \notin Asking /\ w.op # "MamRequest"
  BY <1>1, <1>3, NoneOf, KindsApart, Zenon
<1>5. n.outstanding.stage = "None" /\ n.outstanding.epoch = 0 /\ n.epoch \in Nat
  BY DEF NoRequest, MamState
<1>6. Typed(n, c, left)
  BY <1>1, <1>5 DEF Sound, Typed
<1>7. Addressed(n, left, ad)
  BY <1>5, Zenon DEF Addressed, Current
<1>8. OneRequest(n, left)
  BY <1>3, <1>4, <1>5, Zenon DEF OneRequest
<1>9. Agrees(c, left, st)
  BY <1>1, <1>3, Zenon DEF Sound, Agrees, Alike
<1>10. Carries(n, c, left, sh)
  BY <1>4, <1>5, Zenon DEF Carries, SavingHolds
<1> QED  BY <1>6, <1>7, <1>8, <1>9, <1>10, Zenon DEF Sound, left

(* The one that is in a set.                                               *)
LEMMA OnlyOne ==
    ASSUME NEW s, NEW E, Single(s, E), NEW i \in 1..Len(s), s[i] \in E
    PROVE  \A w \in Elems(s) : w \in E => w = s[i]
  BY Zenon DEF Single, Elems

(* A job that gets its answer, with what it did to SQLite.                 *)
LEMMA WorkSound ==
    ASSUME NEW m, NEW c, NEW js, NEW sh, NEW st, NEW ad,
           Sound(m, c, js, sh, st, ad),
           NEW i \in 1..Len(js), js[i].answer = "None",
           NEW x \in Job, x.op = js[i].op, x.request = js[i].request,
           x.cookie = js[i].cookie,
           x.op = "MamRequest" =>
             /\ x.address \in {NoAddress} \cup ad
             /\ x.request = "LookUpIp" => x.rotated = NoCookie,
           NEW st1,
           st1 = IF x \in Writing /\ x.answer = "Ok" THEN x.cookie ELSE st
    PROVE  Sound(m, c, [js EXCEPT ![i] = x], sh, st1, ad)
<1>1. PICK t : t = [js EXCEPT ![i] = x]
  BY Zenon
<1>2. js \in Seq(Job) /\ js[i] \in Job /\ js[i] \in Elems(js)
  BY ElemsTyped, Zenon DEF Sound, Typed
<1>3. /\ x \in Asking <=> js[i] \in Asking
      /\ x \in Writing <=> js[i] \in Writing
  BY <1>2, Zenon DEF Asking, Writing
<1>4. /\ t \in Seq(Job) /\ Elems(t) \subseteq Elems(js) \cup {x}
      /\ Alike(t, js, Asking) /\ Alike(t, js, Writing)
      /\ t[i] = x /\ i \in 1..Len(t)
  <2>1. Changed(js, i, x, t)
    BY <1>1, <1>2, Zenon DEF Changed
  <2> QED  BY <1>3, <2>1, Replaced
<1>5. Typed(m, c, t)
  BY <1>4, Zenon DEF Sound, Typed
<1>6. Addressed(m, t, ad)
  BY <1>4, Zenon DEF Sound, Addressed
<1>7. OneRequest(m, t)
  <2>1. x \in Asking => Matches(m, x)
    BY <1>2, <1>3, Zenon DEF Sound, OneRequest, Matches
  <2> QED  BY <1>4, <2>1, Zenon DEF Sound, OneRequest, Alike
<1>8. Agrees(c, t, st1)
  <2>1. CASE x \in Writing
    <3>1. ~Free(js, Writing)
      BY <1>2, <1>3, <2>1, NoneOf, Zenon
    <3>2. c.persistence = "Pending" /\ Single(t, Writing)
      BY <1>4, <3>1, Zenon DEF Sound, Agrees, Alike
    <3>3. \A w \in Elems(t) : w \in Writing => w = x
      BY <1>4, <2>1, <3>2, OnlyOne, Zenon
    <3>4. WriteAgrees(c, js[i], st)
      BY <1>2, <1>3, <2>1, Zenon DEF Sound, Agrees
    <3>5. WriteAgrees(c, x, st1)
      BY <2>1, <3>4, Zenon DEF WriteAgrees
    <3> QED  BY <3>2, <3>3, <3>5, Zenon DEF Agrees
  <2>2. CASE x \notin Writing
    BY <1>4, <2>2, Zenon DEF Sound, Agrees, Alike
  <2> QED  BY <2>1, <2>2, Zenon
<1>9. Carries(m, c, t, sh)
  <2>1. x.op = "MamRequest" => RequestHolds(m, c, x)
    BY <1>2, Zenon DEF Sound, Carries, RequestHolds
  <2>2. \A w \in Elems(t) : w.op = "WriteRotatedApiCookie"
          => \E v \in Elems(js) : v.op = "WriteRotatedApiCookie"
    BY <1>2, <1>4, Zenon
  <2> QED  BY <1>4, <2>1, <2>2, Zenon DEF Sound, Carries
<1> QED  BY <1>1, <1>5, <1>6, <1>7, <1>8, <1>9, Zenon DEF Sound

-----------------------------------------------------------------------------
(* What Decide sends: it carries the usable cookie, after MAM has shown an *)
(* address.                                                                *)
SentSafely(c, js, js1, sh) ==
    \A j \in Elems(js1) :
      \/ j \in Elems(js)
      \/ j.op = "MamRequest" /\ j.cookie # NoCookie
           => sh /\ c.requested = j.cookie

SameLink(r, n) ==
    /\ n.gate = r.gate /\ n.enabled = r.enabled /\ n.epoch = r.epoch
    /\ n.inUse = r.inUse /\ n.issued = r.issued

(* The usable cookie is the one asked for and the one in use.              *)
Settled(r, c) ==
    UsableCookie(c) # NoCookie =>
      /\ c.requested = UsableCookie(c)
      /\ r.inUse = UsableCookie(c) /\ r.issued # r.inUse

Sends(r, c, js, sh, st, ad, value, request, n, sent, sh1) ==
    /\ Sound(r, c, js, sh, st, ad)
    /\ Settled(r, c)
    /\ value # NoCookie => value = UsableCookie(c)
    /\ request \in Sendable(r, value)
    /\ n = Send(r, request, value)
    /\ sent = Sent(request, value)
    /\ r.gate = "Open" /\ (sh \/ r.observed # NoAddress) => sh1

Sending(r, c, js, n, js1, sh1, st, ad) ==
    /\ Sound(n, c, js1, sh1, st, ad)
    /\ SameLink(r, n)
    /\ SentSafely(c, js, js1, sh1)

LEMMA NothingSent ==
    ASSUME NEW r, NEW c, NEW js, NEW sh, NEW st, NEW ad, NEW value,
           NEW request, NEW n, NEW sent, NEW sh1,
           Sends(r, c, js, sh, st, ad, value, request, n, sent, sh1),
           request = "None"
    PROVE  Sending(r, c, js, n, js \o sent, sh1, st, ad)
<1>s. /\ Sound(r, c, js, sh, st, ad) /\ Settled(r, c)
      /\ value # NoCookie => value = UsableCookie(c)
      /\ request \in Sendable(r, value)
      /\ n = Send(r, request, value) /\ sent = Sent(request, value)
      /\ r.gate = "Open" /\ (sh \/ r.observed # NoAddress) => sh1
  BY Zenon DEF Sends
<1>0. /\ r \in MamState /\ Shut(r) /\ r.epoch \in Nat /\ js \in Seq(Job)
      /\ Elems(js) \subseteq Job
  BY <1>s, ElemsTyped, Zenon DEF Sound, Typed, MamState
<1>1. n = r /\ sent = <<>>
  BY <1>s, Zenon DEF Send, Sent
<1>2. js \o sent = js
  BY <1>0, <1>1
<1>3. SavingHolds(r, c, sh1)
  <2>1. Current(r) => r.gate = "Open"
    BY <1>0, Zenon DEF Shut, MamState
  <2> QED  BY <1>s, <2>1, Zenon DEF Sound, Carries, SavingHolds
<1>4. Sound(n, c, js \o sent, sh1, st, ad)
  BY <1>s, <1>1, <1>2, <1>3, Zenon DEF Sound, Carries
<1> QED  BY <1>1, <1>2, <1>4, Zenon DEF Sending, SameLink, SentSafely

(* What a request finds when Decide sends it.                              *)
Wants(r, c, js, value, request, sh1) ==
    /\ r \in MamState /\ r.epoch \in Nat /\ js \in Seq(Job)
    /\ r.gate = "Open" /\ r.outstanding.stage = "None"
    /\ request \in {"LookUpIp", "Read", "Spend", "RegisterSeedbox"}
    /\ value # NoCookie =>
         /\ value \in Cookies \cup {NoCookie} /\ c.requested = value
         /\ c.persistence = "Idle" /\ r.inUse = value /\ r.issued # value
    /\ request # "LookUpIp" =>
         /\ value # NoCookie /\ r.observed # NoAddress /\ sh1
         /\ \A w \in Elems(js) : w.op # "WriteRotatedApiCookie"

LEMMA WantsSafely ==
    ASSUME NEW r, NEW c, NEW js, NEW sh, NEW st, NEW ad, NEW value,
           NEW request, NEW n, NEW sent, NEW sh1,
           Sends(r, c, js, sh, st, ad, value, request, n, sent, sh1),
           request # "None"
    PROVE  Wants(r, c, js, value, request, sh1)
<1>s. /\ Sound(r, c, js, sh, st, ad) /\ Settled(r, c)
      /\ value # NoCookie => value = UsableCookie(c)
      /\ request \in Sendable(r, value)
      /\ n = Send(r, request, value) /\ sent = Sent(request, value)
      /\ r.gate = "Open" /\ (sh \/ r.observed # NoAddress) => sh1
  BY Zenon DEF Sends
<1>0. /\ r \in MamState /\ Shut(r) /\ r.epoch \in Nat /\ js \in Seq(Job)
      /\ Elems(js) \subseteq Job
  BY <1>s, ElemsTyped, Zenon DEF Sound, Typed, MamState
<1>1. /\ r.gate = "Open" /\ r.outstanding.stage = "None"
      /\ request \in Wanted(r, value)
  BY <1>s, Zenon DEF Sendable
<1>2. /\ request \in {"LookUpIp", "Read", "Spend", "RegisterSeedbox"}
      /\ request # "LookUpIp" => value # NoCookie /\ r.observed # NoAddress
  BY <1>1, Zenon DEF Wanted
<1>3. value # NoCookie =>
        /\ value \in Cookies \cup {NoCookie} /\ c.requested = value
        /\ c.persistence = "Idle" /\ r.inUse = value /\ r.issued # value
  <2>1. value # NoCookie => c \in S!SettingState /\ value = c.saved
                              /\ c.persistence = "Idle"
    BY <1>s DEF Sound, Typed, UsableCookie, NotLoaded
  <2> QED  BY <1>s, <2>1, Zenon DEF S!SettingState, Settled
<1>4. request # "LookUpIp" =>
        \A w \in Elems(js) : w.op # "WriteRotatedApiCookie"
  <2>1. value # NoCookie => Free(js, Writing)
    BY <1>s, <1>3, Zenon DEF Sound, Agrees
  <2> QED  BY <1>0, <1>2, <2>1, NoneOf, KindsApart, Zenon
<1>5. request # "LookUpIp" => sh1
  BY <1>s, <1>1, <1>2, Zenon
<1> QED  BY <1>0, <1>1, <1>2, <1>3, <1>4, <1>5, Zenon DEF Wants

LEMMA AttemptSent ==
    ASSUME NEW r, NEW c, NEW js, NEW sh, NEW st, NEW ad, NEW value,
           NEW request, NEW n, NEW sent, NEW sh1,
           Sound(r, c, js, sh, st, ad), Wants(r, c, js, value, request, sh1),
           n = Send(r, request, value), sent = Sent(request, value),
           request = "RegisterSeedbox"
    PROVE  Sending(r, c, js, n, js \o sent, sh1, st, ad)
<1>1. PICK o : o = [stage |-> "SavingRegistration", request |-> request,
                    cookie |-> value, epoch |-> r.epoch]
  BY Zenon
<1>2. PICK j : j = NewJob("SaveRegistrationAttempt", request, value)
  BY Zenon
<1>3. n = [r EXCEPT !.outstanding = o] /\ sent = <<j>>
  BY <1>1, <1>2, Zenon DEF Send, Sent, Wants
<1>4. o \in OutstandingState
  BY <1>1, Zenon DEF OutstandingState, Requests, Wants
<1>5. n \in MamState
  BY <1>3, <1>4, Zenon DEF MamState, Wants
<1>6. /\ n.outstanding = o
      /\ n.gate = r.gate /\ n.enabled = r.enabled /\ n.epoch = r.epoch
      /\ n.inUse = r.inUse /\ n.issued = r.issued
      /\ n.observed = r.observed /\ n.download = r.download
  BY <1>3, Zenon DEF MamState, Wants
<1>7. /\ j \in Job /\ j.op = "SaveRegistrationAttempt"
      /\ j.request = request /\ j.answer = "None"
  BY <1>2, Zenon DEF NewJob, Job, Operations, Requests, Wants
<1>8. j \in Asking /\ Matches(n, j)
  BY <1>1, <1>6, <1>7 DEF Asking, Matches
<1>9. SavingHolds(n, c, sh1)
  BY <1>1, <1>6 DEF SavingHolds, Holds, Wants
<1>10. /\ n.outstanding.epoch = r.epoch
       /\ n.outstanding.stage # "None"
  BY <1>1, <1>6
<1>11. Sound(n, c, js \o <<j>>, sh1, st, ad)
  <2>1. Starts(r, c, js, n, j, sh1)
    BY <1>1, <1>5, <1>6, <1>7, <1>8, <1>9, <1>10, Zenon DEF Starts, Wants
  <2> QED  BY <2>1, StartSound, Zenon
<1>12. Elems(js \o <<j>>) = Elems(js) \cup {j}
  BY <1>7, OneMore, Zenon DEF Wants
<1> QED  BY <1>3, <1>6, <1>7, <1>11, <1>12, Zenon DEF Sending, SameLink, SentSafely

LEMMA RequestSent ==
    ASSUME NEW r, NEW c, NEW js, NEW sh, NEW st, NEW ad, NEW value,
           NEW request, NEW n, NEW sent, NEW sh1,
           Sound(r, c, js, sh, st, ad), Wants(r, c, js, value, request, sh1),
           n = Send(r, request, value), sent = Sent(request, value),
           request # "RegisterSeedbox"
    PROVE  Sending(r, c, js, n, js \o sent, sh1, st, ad)
<1>1. PICK o : o = [stage |-> "Request", request |-> request,
                    cookie |-> NoCookie, epoch |-> r.epoch]
  BY Zenon
<1>2. PICK k : k = IF NeedsCookie(request) THEN value ELSE NoCookie
  BY Zenon
<1>3. PICK j : j = NewJob("MamRequest", request, k)
  BY Zenon
<1>4. /\ n = [r EXCEPT !.outstanding = o,
                       !.spending = @ \/ request = "Spend"]
      /\ sent = <<j>>
  BY <1>1, <1>2, <1>3, Zenon DEF Send, Sent, Wants
<1>5. o \in OutstandingState
  BY <1>1, Zenon DEF OutstandingState, Requests, Wants
<1>6. n \in MamState
  <2>1. PICK spends \in BOOLEAN : spends = (r.spending \/ request = "Spend")
    BY Zenon
  <2>2. PICK b : b = [r EXCEPT !.outstanding = o]
    BY Zenon
  <2>3. b \in MamState
    BY <1>5, <2>2, Zenon DEF MamState, Wants
  <2>4. n = [b EXCEPT !.spending = spends]
    BY <1>4, <2>1, <2>2, Zenon DEF MamState, Wants
  <2> QED  BY <2>3, <2>4, Zenon DEF MamState
<1>7. /\ n.outstanding = o
      /\ n.gate = r.gate /\ n.enabled = r.enabled /\ n.epoch = r.epoch
      /\ n.inUse = r.inUse /\ n.issued = r.issued
      /\ n.observed = r.observed /\ n.download = r.download
  BY <1>4, Zenon DEF MamState, Wants
<1>8. /\ k \in Cookies \cup {NoCookie}
      /\ k = NoCookie <=> request = "LookUpIp"
      /\ k # NoCookie => k = value
  BY <1>2, Zenon DEF NeedsCookie, Wants
<1>9. /\ j \in Job /\ j.op = "MamRequest" /\ j.cookie = k
      /\ j.request = request /\ j.answer = "None"
      /\ j.rotated = NoCookie
  BY <1>3, <1>8, Zenon DEF NewJob, Job, Operations, Requests, Wants
<1>10. j \in Asking /\ Matches(n, j)
  BY <1>1, <1>7, <1>9 DEF Asking, Matches
<1>11. /\ n.outstanding.epoch = r.epoch
       /\ n.outstanding.stage = "Request"
       /\ n.outstanding.request = request
  BY <1>1, <1>7
<1>12. SavingHolds(n, c, sh1)
  BY <1>11, Zenon DEF SavingHolds
<1>13. RequestHolds(n, c, j)
  BY <1>7, <1>8, <1>9, Zenon DEF RequestHolds, Holds, Wants
<1>14. Sound(n, c, js \o <<j>>, sh1, st, ad)
  <2>1. Starts(r, c, js, n, j, sh1)
    BY <1>6, <1>7, <1>9, <1>10, <1>11, <1>12, <1>13, Zenon DEF Starts, Wants
  <2> QED  BY <2>1, StartSound, Zenon
<1>15. Elems(js \o <<j>>) = Elems(js) \cup {j}
  BY <1>9, OneMore, Zenon DEF Wants
<1>16. j.cookie # NoCookie => sh1 /\ c.requested = j.cookie
  BY <1>8, <1>9, Zenon DEF Wants
<1> QED  BY <1>4, <1>7, <1>14, <1>15, <1>16, Zenon DEF Sending, SameLink, SentSafely

LEMMA SendSound ==
    ASSUME NEW r, NEW c, NEW js, NEW sh, NEW st, NEW ad, NEW value,
           NEW request, NEW n, NEW sent, NEW sh1,
           Sends(r, c, js, sh, st, ad, value, request, n, sent, sh1)
    PROVE  Sending(r, c, js, n, js \o sent, sh1, st, ad)
<1>1. CASE request = "None"
  BY <1>1, NothingSent, Zenon
<1>2. CASE request # "None"
  <2>1. Wants(r, c, js, value, request, sh1)
    BY <1>2, WantsSafely, Zenon
  <2>2. /\ Sound(r, c, js, sh, st, ad)
        /\ n = Send(r, request, value) /\ sent = Sent(request, value)
    BY Zenon DEF Sends
  <2> QED  BY <2>1, <2>2, AttemptSent, RequestSent, Zenon
<1> QED  BY <1>1, <1>2, Zenon

-----------------------------------------------------------------------------
(* The cookie setting.                                                     *)

Writes == {"WriteApiCookie", "WriteRotatedApiCookie"}
Values == Cookies \cup {NoCookie}

(* A setting that waits for nothing.                                       *)
AtRest(c, js, st) ==
    /\ c.persistence \in {"Idle", "Failed"}
    /\ c.saved = st
    /\ Free(js, Writing)

(* At rest, or waiting for its one write.                                  *)
Ready(c, js, st) ==
    IF c.persistence = "Pending" THEN Agrees(c, js, st) ELSE AtRest(c, js, st)

(* At most one write more.                                                 *)
Queued(op, js, js1) ==
    js1 = js \/ \E j \in Writing : j.op = op /\ js1 = js \o <<j>>

Written(op, c, js, js1, st) ==
    c \in S!SettingState /\ Queued(op, js, js1) /\ Agrees(c, js1, st)

LEMMA NewWrite ==
    ASSUME NEW op \in Writes, NEW v \in Values, NEW j,
           j = NewJob(op, "None", v)
    PROVE  /\ j \in Writing /\ j \in Job /\ j \notin Asking
           /\ j.op = op /\ j.cookie = v /\ j.answer = "None"
<1>1. j \in Job
  BY Zenon DEF NewJob, Job, Writes, Operations, Values, Requests
<1>2. j.op = op /\ j.cookie = v /\ j.answer = "None"
  BY Zenon DEF NewJob
<1>3. j \in Writing
  BY <1>1, <1>2, Zenon DEF Writing, Writes
<1> QED  BY <1>1, <1>2, <1>3, KindsApart, Zenon

(* The writes of a setting, as jobs.                                       *)
LEMMA WritesQueued ==
    ASSUME NEW js \in Seq(Job), NEW op, NEW v
    PROVE  /\ js \o CookieWrites(op, <<>>) = js
           /\ js \o CookieWrites(op, <<v>>) = js \o <<NewJob(op, "None", v)>>
<1>1. CookieWrites(op, <<>>) = <<>>
  BY DEF CookieWrites
<1>2. CookieWrites(op, <<v>>) = <<NewJob(op, "None", v)>>
  BY DEF CookieWrites
<1>3. js \o <<>> = js
  OBVIOUS
<1> QED  BY <1>1, <1>2, <1>3, Zenon

(* Setting::request.                                                       *)
Asked(c, js, st, op, v, r, js1) ==
    /\ c \in S!SettingState /\ js \in Seq(Job) /\ Ready(c, js, st)
    /\ op \in Writes /\ v \in Values
    /\ r = S!RequestValue(c, v)
    /\ js1 = js \o CookieWrites(op, r.writes)

LEMMA RequestAgrees ==
    ASSUME NEW c, NEW js, NEW st, NEW op, NEW v, NEW r, NEW js1,
           Asked(c, js, st, op, v, r, js1)
    PROVE  Written(op, r.setting, js, js1, st) /\ r.setting.requested = v
<1>0. /\ c \in S!SettingState /\ js \in Seq(Job)
      /\ op \in Writes /\ v \in Values
      /\ r = S!RequestValue(c, v) /\ js1 = js \o CookieWrites(op, r.writes)
      /\ c.persistence = "Pending" => Agrees(c, js, st)
      /\ c.persistence # "Pending" => AtRest(c, js, st)
  BY Zenon DEF Asked, Ready
<1>1. CASE c.persistence = "Pending"
  <2>1. /\ r.setting = [c EXCEPT !.requested = v]
        /\ r.writes = <<>>
    BY <1>0, <1>1, Zenon DEF S!RequestValue, S!Outcome
  <2>2. r.setting \in S!SettingState
    BY <1>0, <2>1, Zenon DEF S!SettingState, Values
  <2>3. /\ r.setting.requested = v /\ r.setting.saved = c.saved
        /\ r.setting.pending = c.pending
        /\ r.setting.persistence = "Pending"
    BY <1>0, <1>1, <2>1, Zenon DEF S!SettingState
  <2>4. js1 = js
    BY <1>0, <2>1, WritesQueued, Zenon
  <2>5. Agrees(r.setting, js1, st)
    BY <1>0, <1>1, <2>3, <2>4, Zenon DEF Agrees, WriteAgrees
  <2> QED  BY <1>0, <2>2, <2>3, <2>4, <2>5, Zenon DEF Written, Queued
<1>2. CASE c.persistence # "Pending" /\ v = c.saved
  <2>1. /\ r.setting = [c EXCEPT !.requested = v, !.persistence = "Idle"]
        /\ r.writes = <<>>
    BY <1>0, <1>2, Zenon DEF S!RequestValue, S!Outcome, S!SettingState
  <2>2. r.setting \in S!SettingState
    BY <1>0, <2>1, Zenon DEF S!SettingState, Values
  <2>3. /\ r.setting.requested = v /\ r.setting.saved = c.saved
        /\ r.setting.persistence = "Idle"
    BY <1>0, <2>1, Zenon DEF S!SettingState
  <2>4. js1 = js
    BY <1>0, <2>1, WritesQueued, Zenon
  <2>5. \A j \in Elems(js) : j \notin Writing
    BY <1>0, <1>2, NoneOf, Zenon DEF AtRest
  <2>6. Agrees(r.setting, js1, st)
    BY <1>0, <1>2, <2>3, <2>4, <2>5, Zenon DEF Agrees, AtRest
  <2> QED  BY <1>0, <2>2, <2>3, <2>4, <2>6, Zenon DEF Written, Queued
<1>3. CASE c.persistence # "Pending" /\ v # c.saved
  <2>1. /\ r.setting = [c EXCEPT !.requested = v, !.persistence = "Pending",
                                 !.pending = v]
        /\ r.writes = <<v>>
    BY <1>0, <1>3, Zenon DEF S!RequestValue, S!Outcome, S!SettingState
  <2>2. r.setting \in S!SettingState
    BY <1>0, <2>1, Zenon DEF S!SettingState, Values
  <2>3. /\ r.setting.requested = v /\ r.setting.saved = c.saved
        /\ r.setting.persistence = "Pending" /\ r.setting.pending = v
    BY <1>0, <2>1, Zenon DEF S!SettingState
  <2>4. PICK j : j = NewJob(op, "None", v)
    BY Zenon
  <2>5. js1 = js \o <<j>>
    BY <1>0, <2>1, <2>4, WritesQueued
  <2>6. /\ j \in Writing /\ j \in Job /\ j.op = op /\ j.cookie = v
        /\ j.answer = "None"
    BY <1>0, <2>4, NewWrite
  <2>7. \A w \in Elems(js) : w \notin Writing
    BY <1>0, <1>3, NoneOf, Zenon DEF AtRest
  <2>8. Elems(js1) = Elems(js) \cup {j} /\ Single(js1, Writing)
    BY <1>0, <1>3, <2>5, <2>6, OneMore DEF AtRest
  <2>9. Agrees(r.setting, js1, st)
    BY <1>0, <1>3, <2>3, <2>6, <2>7, <2>8, Zenon DEF Agrees, WriteAgrees, AtRest
  <2> QED  BY <1>0, <2>2, <2>3, <2>5, <2>6, <2>9, Zenon DEF Written, Queued
<1> QED  BY <1>1, <1>2, <1>3, Zenon

(* Setting::complete, for the write that was pending.                      *)
LEMMA CompleteAgrees ==
    ASSUME NEW c \in S!SettingState, NEW js \in Seq(Job), NEW st,
           c.persistence = "Pending", Free(js, Writing),
           NEW ok \in BOOLEAN, st = IF ok THEN c.pending ELSE c.saved,
           NEW r, r = S!CompleteSave(c, ok),
           NEW js1, js1 = js \o CookieWrites("WriteApiCookie", r.writes)
    PROVE  /\ Written("WriteApiCookie", r.setting, js, js1, st)
           /\ r.setting.requested = c.requested
<1>1. PICK done : done = [c EXCEPT !.saved = IF ok THEN c.pending ELSE @,
                          !.persistence = IF ok THEN "Idle" ELSE "Failed"]
  BY Zenon
<1>2. /\ done \in S!SettingState
      /\ done.saved = st /\ done.requested = c.requested
      /\ done.persistence = IF ok THEN "Idle" ELSE "Failed"
  BY <1>1, Zenon DEF S!SettingState
<1>3. AtRest(done, js, st) /\ done.persistence # "Pending"
  BY <1>2, Zenon DEF AtRest
<1>4. CASE c.pending = c.requested
  <2>1. r.setting = done /\ r.writes = <<>>
    BY <1>1, <1>4, Zenon DEF S!CompleteSave, S!Outcome
  <2>2. js1 = js
    BY <2>1, WritesQueued, Zenon
  <2>3. \A j \in Elems(js) : j \notin Writing
    BY NoneOf, Zenon
  <2>4. Agrees(r.setting, js1, st)
    BY <1>2, <1>4, <2>1, <2>2, <2>3, Zenon DEF Agrees
  <2> QED  BY <1>2, <2>1, <2>2, <2>4, Zenon DEF Written, Queued
<1>5. CASE c.pending # c.requested
  <2>1. r = S!RequestValue(done, c.requested)
    BY <1>1, <1>5, Zenon DEF S!CompleteSave
  <2>2. c.requested \in Values /\ "WriteApiCookie" \in Writes
    BY Zenon DEF S!SettingState, Values, Writes
  <2>3. Ready(done, js, st)
    BY <1>3, Zenon DEF Ready
  <2>4. Asked(done, js, st, "WriteApiCookie", c.requested, r, js1)
    BY <1>2, <2>1, <2>2, <2>3, Zenon DEF Asked
  <2> QED  BY <1>2, <2>4, RequestAgrees
<1> QED  BY <1>4, <1>5, Zenon

(* Setting::replacement_failed, for the write that was pending.            *)
LEMMA ReplacementAgrees ==
    ASSUME NEW c \in S!SettingState, NEW js \in Seq(Job), NEW st,
           c.persistence = "Pending", Free(js, Writing), st = c.saved,
           NEW r, r = S!ReplacementFailed(c),
           NEW js1, js1 = js \o CookieWrites("WriteApiCookie", r.writes)
    PROVE  Written("WriteApiCookie", r.setting, js, js1, st)
<1>1. CASE c.pending = c.requested
  <2>1. /\ r.setting = [c EXCEPT !.requested = c.saved, !.persistence = "Idle"]
        /\ r.writes = <<>>
    BY <1>1, Zenon DEF S!ReplacementFailed, S!Outcome
  <2>2. /\ r.setting \in S!SettingState
        /\ r.setting.requested = c.saved /\ r.setting.saved = c.saved
        /\ r.setting.persistence = "Idle"
    BY <2>1, Zenon DEF S!SettingState
  <2>3. js1 = js
    BY <2>1, WritesQueued, Zenon
  <2>4. \A j \in Elems(js) : j \notin Writing
    BY NoneOf, Zenon
  <2>5. Agrees(r.setting, js1, st)
    BY <2>2, <2>3, <2>4, Zenon DEF Agrees
  <2> QED  BY <2>2, <2>3, <2>5, Zenon DEF Written, Queued
<1>2. CASE c.pending # c.requested
  <2>1. PICK ok \in BOOLEAN : ok = FALSE
    BY Zenon
  <2>2. r = S!CompleteSave(c, ok) /\ st = IF ok THEN c.pending ELSE c.saved
    BY <1>2, <2>1, Zenon DEF S!ReplacementFailed
  <2> QED  BY <2>2, CompleteAgrees, Zenon
<1> QED  BY <1>1, <1>2, Zenon

(* What is queued is a write.                                              *)
LEMMA QueuedTyped ==
    ASSUME NEW js \in Seq(Job), NEW op \in Writes, NEW js1, Queued(op, js, js1)
    PROVE  /\ js1 \in Seq(Job)
           /\ Elems(js) \subseteq Elems(js1)
           /\ \A j \in Elems(js1) : j \in Elems(js) \/
                /\ j \in Writing /\ j \notin Asking /\ j.op # "MamRequest"
                /\ j.op = op
           /\ Alike(js1, js, Asking)
<1>1. CASE js1 = js
  BY <1>1, Zenon DEF Alike
<1>2. CASE \E j \in Writing : j.op = op /\ js1 = js \o <<j>>
  <2>1. PICK j \in Writing : j.op = op /\ js1 = js \o <<j>>
    BY <1>2, Zenon
  <2>2. j \in Job /\ j \notin Asking /\ j.op # "MamRequest"
    BY KindsApart, Zenon DEF Writing
  <2>3. /\ js1 \in Seq(Job) /\ Elems(js1) = Elems(js) \cup {j}
        /\ Alike(js1, js, Asking)
    BY <2>1, <2>2, OneMore, Zenon
  <2> QED  BY <2>1, <2>2, <2>3
<1> QED  BY <1>1, <1>2, Zenon DEF Queued

(* A setting that has changed, with what it writes.                        *)
Turned(m, c, js, sh, st, ad, op, c1, js1) ==
    /\ Rest(m, c, js, sh, ad)
    /\ op \in Writes /\ Written(op, c1, js, js1, st)
    /\ op = "WriteRotatedApiCookie" => m.outstanding.stage = "None"
    /\ Current(m) /\ m.outstanding.request # "LookUpIp" =>
         \A k : k # NoCookie /\ Holds(m, c, k) => Holds(m, c1, k)

LEMMA SettingSound ==
    ASSUME NEW m, NEW c, NEW js, NEW sh, NEW st, NEW ad, NEW op, NEW c1,
           NEW js1, Turned(m, c, js, sh, st, ad, op, c1, js1)
    PROVE  /\ Sound(m, c1, js1, sh, st, ad)
           /\ \A j \in Elems(js1) : j.op = "MamRequest" => j \in Elems(js)
<1>a. /\ Rest(m, c, js, sh, ad)
      /\ op \in Writes /\ Written(op, c1, js, js1, st)
      /\ op = "WriteRotatedApiCookie" => m.outstanding.stage = "None"
      /\ Current(m) /\ m.outstanding.request # "LookUpIp" =>
           \A k : k # NoCookie /\ Holds(m, c, k) => Holds(m, c1, k)
  BY Zenon DEF Turned
<1>0. js \in Seq(Job) /\ Elems(js) \subseteq Job
  BY <1>a, ElemsTyped, Zenon DEF Rest, Typed
<1>1. /\ js1 \in Seq(Job)
      /\ Elems(js) \subseteq Elems(js1)
      /\ \A j \in Elems(js1) : j \in Elems(js) \/
           /\ j \in Writing /\ j \notin Asking /\ j.op # "MamRequest"
           /\ j.op = op
      /\ Alike(js1, js, Asking)
      /\ c1 \in S!SettingState /\ Agrees(c1, js1, st)
  BY <1>a, <1>0, QueuedTyped, Zenon DEF Written
<1>2. Typed(m, c1, js1)
  BY <1>a, <1>1, Zenon DEF Rest, Typed
<1>3. Addressed(m, js1, ad)
  BY <1>a, <1>1, Zenon DEF Rest, Addressed
<1>4. OneRequest(m, js1)
  BY <1>a, <1>1, Zenon DEF Rest, OneRequest, Alike
<1>5. Carries(m, c1, js1, sh)
  <2>1. c1 # NotLoaded
    BY <1>a, <1>1 DEF NotLoaded, S!SettingState
  <2>2. SavingHolds(m, c1, sh)
    BY <1>a, Zenon DEF Rest, Carries, SavingHolds
  <2>3. ASSUME NEW j \in Elems(js1), j.op = "MamRequest"
        PROVE  RequestHolds(m, c1, j)
    <3>1. j \in Elems(js) /\ j \in Asking
      BY <1>a, <1>0, <1>1, <2>3, KindsApart, Zenon
    <3>2. RequestHolds(m, c, j) /\ Matches(m, j)
      BY <1>a, <2>3, <3>1, Zenon DEF Rest, Carries, OneRequest
    <3>3. Current(m) /\ j.cookie # NoCookie => m.outstanding.request # "LookUpIp"
      BY <1>a, <3>2, Zenon DEF RequestHolds, Matches
    <3> QED  BY <1>a, <3>2, <3>3, Zenon DEF RequestHolds
  <2> QED  BY <1>a, <1>1, <2>1, <2>2, <2>3, Zenon DEF Rest, Carries
<1> QED  BY <1>a, <1>1, <1>2, <1>3, <1>4, <1>5, Zenon DEF Rest, Sound

(* The write that is done was the only one.                                *)
LEMMA WrittenRest ==
    ASSUME NEW m, NEW c, NEW js, NEW sh, NEW st, NEW ad,
           Sound(m, c, js, sh, st, ad),
           NEW i \in 1..Len(js), js[i] \in Writing
    PROVE  /\ Rest(m, c, Without(js, i), sh, ad)
           /\ Free(Without(js, i), Writing)
           /\ c \in S!SettingState /\ c.persistence = "Pending"
           /\ WriteAgrees(c, js[i], st)
<1> DEFINE left == Without(js, i)
<1>0. js \in Seq(Job)
  BY Zenon DEF Sound, Typed
<1>1. /\ js[i] \in Job /\ js[i] \in Elems(js)
      /\ left \in Seq(Job)
      /\ Elems(left) \subseteq Elems(js)
      /\ Elems(js) \subseteq Job
      /\ IF js[i] \in Asking
         THEN ~Free(js, Asking) /\ (Single(js, Asking) => Free(left, Asking))
         ELSE Alike(left, js, Asking)
      /\ IF js[i] \in Writing
         THEN ~Free(js, Writing) /\ (Single(js, Writing) => Free(left, Writing))
         ELSE Alike(left, js, Writing)
  BY <1>0, OneLess, Zenon
<1> HIDE DEF left
<1>2. js[i] \notin Asking
  BY <1>1, KindsApart, Zenon
<1>3. /\ Free(left, Writing) /\ Alike(left, js, Asking)
      /\ c.persistence = "Pending"
  BY <1>1, <1>2, Zenon DEF Sound, Agrees
<1>4. c \in S!SettingState /\ WriteAgrees(c, js[i], st)
  BY <1>1, <1>3 DEF Sound, Typed, Agrees, NotLoaded
<1>5. Rest(m, c, left, sh, ad)
  <2>1. Typed(m, c, left)
    BY <1>1, Zenon DEF Sound, Typed
  <2>2. Addressed(m, left, ad)
    BY <1>1, Zenon DEF Sound, Addressed
  <2>3. OneRequest(m, left)
    BY <1>1, <1>3, Zenon DEF Sound, OneRequest, Alike
  <2>4. Carries(m, c, left, sh)
    BY <1>1, Zenon DEF Sound, Carries
  <2> QED  BY <2>1, <2>2, <2>3, <2>4, Zenon DEF Sound, Rest
<1> QED  BY <1>3, <1>4, <1>5, Zenon DEF left

=============================================================================
