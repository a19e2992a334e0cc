------------------------------ MODULE MamReply ------------------------------
(***************************************************************************)
(* How the shell reads MAM's answers (shell/mam.rs, shell/mam_reply.rs):   *)
(* the status and the body of a response become a reply or one of MAM's    *)
(* failures.  An answer is read whole or not at all.                       *)
(*                                                                         *)
(* A response has a status, a body that is MAM's plain "not signed in"     *)
(* text, an answer, or unreadable (the connection ended within it, or it   *)
(* is not JSON), whether MAM declines in it, and at most one damaged       *)
(* value: absent, or not of its type.                                      *)
(***************************************************************************)

NoDamage == [field |-> "None", how |-> "None"]

Response(status, body) ==
    [status |-> status, body |-> body, declined |-> FALSE, damage |-> NoDamage]

NoResponse == Response("None", "None")

-----------------------------------------------------------------------------
(* The values each answer must hold.                                       *)
AccountFields ==
    {"uploaded_bytes", "downloaded_bytes", "seedbonus", "wedges", "classname"}

SummaryFields ==
    {"unsat", "inactUnsat", "inactHnr", "duplicates", "ite", "partial",
     "connectable"}

NoticeFields ==
    {"pms", "tickets", "waiting_tickets", "requests", "topics",
     "aboutToDropClient"}

ResultFields ==
    {"id", "title", "vip", "free", "fl_vip", "personal_freeleech",
     "my_snatched", "vip_expire"}

Required(op) ==
    CASE op = "LookUpIp" -> {"ip", "ASN"}
      [] op = "RegisterSeedbox" -> {"msg", "ip"}
      [] op = "LoadUserData" -> AccountFields \cup SummaryFields \cup NoticeFields
      [] op \in {"ListBookmarks", "LookUpTorrent"} -> {"found", "data"} \cup ResultFields
      [] op = "WedgeHistory" -> {"type", "tid", "timestamp"}
      [] op = "Buy" -> {"success", "seedbonus"}
      [] op = "FetchTorrent" -> {}

(* The values that may be absent but not of another type.                  *)
Optional(op) ==
    CASE op = "LoadUserData" ->
           {"vip_until", "snatch_summary", "red", "notifs", "clientStats"}
      [] op = "LookUpIp" -> {"AS"}
      [] op \in {"ListBookmarks", "LookUpTorrent"} -> {"bookmarked"}
      [] op = "Buy" -> {"error"}
      [] OTHER -> {}

Understood(op, response) ==
    /\ response.body = "Answer"
    /\ response.damage.field \notin Required(op)
    /\ response.damage.field \in Optional(op) => response.damage.how = "Absent"

-----------------------------------------------------------------------------
(* reply::registration: a refusal may come with a body that is not JSON.   *)
ReadRegistration(response) ==
    CASE response.status = "Forbidden" -> "Session"
      [] response.status = "Error" -> "Rejected"
      [] OTHER -> IF Understood("RegisterSeedbox", response) THEN "Ok"
                  ELSE "Malformed"

(* reply::purchase: a store that declines gives no balance.                *)
ReadPurchase(response) ==
    IF response.declined /\ response.damage = [field |-> "seedbonus", how |-> "Absent"]
    THEN "Refused"
    ELSE IF ~Understood("Buy", response) THEN "Malformed"
    ELSE IF response.declined THEN "Refused" ELSE "Ok"

(* torrent_file::read: any other body is MAM's refusal.                    *)
ReadTorrentFile(response) ==
    IF response.body = "Answer" /\ ~response.declined THEN "Ok" ELSE "Refused"

(* interpret.                                                              *)
Interpret(op, response) ==
    CASE response.body = "SignedOut" -> "Session"
      [] OTHER ->
         IF response.status = "TooMany" THEN "TooSoon"
         ELSE IF op = "RegisterSeedbox" THEN ReadRegistration(response)
         ELSE IF response.status # "Ok" THEN "Rejected"
         ELSE IF op = "FetchTorrent" THEN ReadTorrentFile(response)
         ELSE IF op = "Buy" THEN ReadPurchase(response)
         ELSE IF Understood(op, response) THEN "Ok" ELSE "Malformed"

(* perform, and keep: a fetched torrent file is stored before the core is  *)
(* told of it.                                                             *)
Perform(op, response, stored) ==
    IF response = NoResponse THEN "Unreachable"
    ELSE IF op = "FetchTorrent" /\ Interpret(op, response) = "Ok" /\ ~stored
    THEN "NotKept"
    ELSE Interpret(op, response)

(* What may happen to an answer of MAM's on its way: it is lost, another   *)
(* server on the way answers, its end is lost, or a value is damaged.  An  *)
(* absent vip_until is no damage: it says that the account is not VIP.     *)
Damaged(op, declined) ==
    {NoResponse, Response("TooMany", "Answer"), Response("Error", "Answer"),
     [Response("Ok", "Unreadable") EXCEPT !.declined = declined]}
    \cup {[Response("Ok", "Answer") EXCEPT
              !.declined = declined,
              !.damage = [field |-> field, how |-> how]] :
             field \in (Required(op) \cup Optional(op)) \ {"vip_until"},
             how \in {"Absent", "Wrong"}}
=============================================================================
