------------------------------ MODULE Torrents ------------------------------
(***************************************************************************)
(* qBittorrent kept as the registry wants it: the core's view of           *)
(* qBittorrent and the registry as Core::handle joins them                 *)
(* (core/machine.rs), the workers that talk to qBittorrent and to SQLite   *)
(* (shell/qbittorrent.rs, shell/storage.rs), and qBittorrent itself, which *)
(* the owner also uses.                                                    *)
(*                                                                         *)
(* What MAM work asks of the registry is any sequence of the calls it can  *)
(* make.  Owner's acts, MAM's calls, failures and crashes share a budget,  *)
(* so that every behaviour ends in peace.                                  *)
(***************************************************************************)
EXTENDS Registry, SequencesExt

CONSTANTS
    HashOf,            \* the info hash of each MAM torrent's file
    Queues,            \* queue settings
    Stores,            \* the torrents tables an earlier run may have left
    FirstClients,      \* qBittorrent as Windlass may first find it
    MaxDisturbances    \* bound on what owner, MAM and faults do

VARIABLES
    qb,          \* the core's Qbittorrent
    registry,    \* the core's Registry
    pollTimer,   \* the armed TimerName::QbittorrentPoll
    requests,    \* requests on workers
    saves,       \* SaveTorrents batches on workers
    store,       \* the torrents table
    client,      \* qBittorrent
    wanted,      \* the settings Windlass wants in qBittorrent
    permitted,   \* MAM torrents that permits_download allows
    calm         \* disturbances left

coreVars == <<qb, registry, pollTimer, requests, saves>>
vars == <<now, queue, coreVars, store, client, wanted, permitted, calm>>

Disturb == calm > 0 /\ calm' = calm - 1

-----------------------------------------------------------------------------
(* The end of a core step, after the event's handler left this state of    *)
(* qBittorrent (a Result) and of the registry (Kept): the registry         *)
(* observes a fresh update, qBittorrent's next request is chosen, and the  *)
(* actions are dispatched.                                                 *)
EndStep(handled, kept, wants, permits) ==
    LET observed == IF /\ handled.q.link = "Connected"
                       /\ handled.q.activity = "DecidingAfterSync"
                    THEN Observe(kept.r, handled.q)
                    ELSE Kept(kept.r, NoBatch)
        command == IF AsksCommand(handled.q, wants)
                   THEN NextCommand(observed.r, handled.q, permits)
                   ELSE NoCommand
        id == Schedule("QbittorrentPoll", pollTimer)
        decided == Decide(handled.q, wants, command, id)
        followed == FollowPreferences(decided.q, wants)
        sent == SelectSeq(<<handled.request, decided.request,
                            followed.request>>,
                          LAMBDA request : request.op # "None")
        batches == SelectSeq(<<kept.batch, observed.batch>>,
                             LAMBDA batch : batch # NoBatch)
    IN  /\ qb' = followed.q
        /\ registry' = CommandSent(observed.r, command)
        /\ requests' = requests \o sent
        /\ saves' = saves \o batches
        /\ pollTimer' = StartTimer(StartTimer(pollTimer, handled.timer),
                                   decided.timer)

Keep == Kept(registry, NoBatch)

(* A step on a qBittorrent answer or on the poll timer.                    *)
TakeAnswer(event) ==
    EndStep(HandleAnswer(qb, event, Schedule("QbittorrentPoll", pollTimer)),
            Keep, wanted, permitted)

TakeExpiry(event) == EndStep(TimerExpired(qb, event.id), Keep, wanted, permitted)

(* Registry::handle.                                                       *)
TakeRegistryEvent(event) ==
    LET kept ==
          CASE event.op = "Read" /\ registry.status = "Reading" ->
                 Kept(IF event.ok THEN LoadedRecords(event.says)
                      ELSE [registry EXCEPT !.status = "ReadFailed"], NoBatch)
            [] event.op = "Save" /\ registry.saving # {} ->
                 IF event.ok THEN BatchSaved(registry) ELSE BatchFailed(registry)
            [] OTHER -> Keep
    IN  EndStep(Quiet(qb), kept, wanted, permitted)

Handle ==
    /\ queue # << >>
    /\ queue' = Tail(queue)
    /\ LET event == Head(queue)
       IN  CASE event.kind = "TimerExpired" -> TakeExpiry(event)
             [] event.kind = "Qbittorrent" -> TakeAnswer(event)
             [] event.kind = "Registry" -> TakeRegistryEvent(event)
    /\ UNCHANGED <<now, store, client, wanted, permitted, calm>>

-----------------------------------------------------------------------------
FreshClient(torrents, port, setting) ==
    [torrents |-> torrents, port |-> port, queue |-> setting, rid |-> 0,
     basis |-> NoTorrents]

(* sync/maindata: what changed since the update that is named, or the      *)
(* whole list when that is not the last one.                               *)
ChangedFields(before, after) == {f \in Fields : before[f] # after[f]}
Update(c, full) ==
    LET changes(h) ==
          IF ~full /\ h \in DOMAIN c.basis
          THEN Restrict(c.torrents[h],
                        ChangedFields(c.basis[h], c.torrents[h]))
          ELSE c.torrents[h]
    IN  [full |-> full,
         position |-> IF c.rid = 2 THEN 1 ELSE c.rid + 1,
         torrents |-> [h \in DOMAIN c.torrents |-> changes(h)],
         removed |-> IF full THEN {} ELSE DOMAIN c.basis \ DOMAIN c.torrents]

(* What a command does to one torrent it names.                            *)
Commanded(op, t) ==
    CASE op = "Start" -> [t EXCEPT !.stopped = FALSE]
      [] op = "Stop" -> [t EXCEPT !.stopped = TRUE, !.forced = FALSE]
      [] op = "ForceStart" -> [t EXCEPT !.stopped = FALSE, !.forced = TRUE]
      [] op = "EndForceStart" -> [t EXCEPT !.forced = FALSE]
      [] op = "SelectAllFiles" ->
           [t EXCEPT !.partial = FALSE,
                     !.level = IF Completed(t) THEN "Downloading" ELSE @]

(* api/v2/torrents/...: unknown hashes are ignored.                        *)
Commanding(c, command) ==
    LET named == command.hashes \cap DOMAIN c.torrents
    IN  CASE command.op = "Remove" ->
               [c EXCEPT !.torrents =
                           Restrict(@, DOMAIN @ \ command.hashes)]
          [] command.op = "Add" ->
               [c EXCEPT !.torrents =
                  @ @@ [h \in command.hashes |-> DefaultTorrent]]
          [] OTHER ->
               [c EXCEPT !.torrents =
                  [h \in DOMAIN @ |-> IF h \in named
                                      THEN Commanded(command.op, @[h])
                                      ELSE @[h]]]

(* RawPreferences: the port and the queue as qBittorrent tells them.       *)
Preferences(c) == [port |-> c.port, queue |-> c.queue]

(* A request as qBittorrent performs it: its new state and its answer.     *)
Performed(c, request) ==
    LET preferences == Preferences(c)
        update == Update(c, request.arg = 0 \/ request.arg # c.rid)
    IN  CASE request.op \in {"Connect", "ReadPreferences"} ->
               [client |-> c, says |-> preferences]
          [] request.op = "Sync" ->
               [client |-> [c EXCEPT !.rid = update.position,
                                     !.basis = c.torrents],
                says |-> update]
          [] request.op = "SetListenPort" ->
               [client |-> [c EXCEPT !.port = request.arg],
                says |-> preferences]
          [] request.op = "SetQueue" ->
               [client |-> [c EXCEPT !.queue = request.arg],
                says |-> preferences]
          [] request.op = "Command" ->
               [client |-> Commanding(c, request.arg), says |-> preferences]

Answered(op, ok, says) ==
    Append(queue, [kind |-> "Qbittorrent", op |-> op, ok |-> ok, says |-> says])

(* qbittorrent::execute: the worker performs the request and sends the     *)
(* answer.                                                                 *)
FinishRequest ==
    /\ requests # << >>
    /\ \E i \in DOMAIN requests :
          LET done == Performed(client, requests[i])
          IN  /\ client' = done.client
              /\ queue' = Answered(requests[i].op, TRUE, done.says)
              /\ requests' = RemoveAt(requests, i)
    /\ UNCHANGED <<now, qb, registry, pollTimer, saves, store, wanted,
                   permitted, calm>>

(* The request, or the answer to it, is lost, refused or not understood.   *)
FailRequest ==
    /\ Disturb
    /\ \E i \in DOMAIN requests, arrived \in BOOLEAN :
          /\ client' = IF arrived
                       THEN Performed(client, requests[i]).client
                       ELSE client
          /\ queue' = Answered(requests[i].op, FALSE, None)
          /\ requests' = RemoveAt(requests, i)
    /\ UNCHANGED <<now, qb, registry, pollTimer, saves, store, wanted,
                   permitted>>

FireTimer ==
    /\ Expire("QbittorrentPoll", pollTimer)
    /\ pollTimer' = NoTimer
    /\ UNCHANGED <<now, qb, registry, requests, saves, store, client, wanted,
                   permitted, calm>>

(* save_torrents: INSERT OR REPLACE of each row; the hash is unique, so a  *)
(* row replaces another row that has its hash.                             *)
Replaced(table, batch) ==
    LET taken == {batch[id].hash : id \in DOMAIN batch} \ {None}
        kept == {id \in DOMAIN table \ DOMAIN batch :
                   table[id].hash \notin taken}
    IN  [id \in kept \cup DOMAIN batch |->
           IF id \in DOMAIN batch THEN batch[id] ELSE table[id]]

RegistryEvent(op, ok, says) ==
    [kind |-> "Registry", op |-> op, ok |-> ok, says |-> says]

(* read_registry runs as registry starts reading; a batch is one           *)
(* transaction.                                                            *)
FinishSave ==
    /\ \E i \in DOMAIN saves :
          /\ store' = Replaced(store, saves[i])
          /\ saves' = RemoveAt(saves, i)
          /\ queue' = Append(queue, RegistryEvent("Save", TRUE, << >>))
    /\ UNCHANGED <<now, qb, registry, pollTimer, requests, client, wanted,
                   permitted, calm>>

FailSave ==
    /\ Disturb
    /\ \E i \in DOMAIN saves :
          /\ saves' = RemoveAt(saves, i)
          /\ queue' = Append(queue, RegistryEvent("Save", FALSE, << >>))
    /\ UNCHANGED <<now, qb, registry, pollTimer, requests, store, client,
                   wanted, permitted>>

-----------------------------------------------------------------------------
(* Startup: QbittorrentEvent::Enable, and the registry is read once        *)
(* storage is open.                                                        *)
Start ==
    /\ qb.link = "Disabled" /\ registry.status = "Unread"
    /\ registry' = [registry EXCEPT !.status = "Reading"]
    /\ LET enabled == Enable(qb)
       IN  qb' = enabled.q /\ requests' = Append(requests, enabled.request)
    /\ UNCHANGED <<now, queue, pollTimer, saves, store, client, wanted,
                   permitted, calm>>

Reads == \E k \in DOMAIN queue : queue[k].kind = "Registry"

FinishRead ==
    /\ registry.status = "Reading" /\ ~Reads
    /\ queue' = Append(queue, RegistryEvent("Read", TRUE, store))
    /\ UNCHANGED <<now, coreVars, store, client, wanted, permitted, calm>>

FailRead ==
    /\ Disturb
    /\ registry.status = "Reading" /\ ~Reads
    /\ queue' = Append(queue, RegistryEvent("Read", FALSE, << >>))
    /\ UNCHANGED <<now, coreVars, store, client, wanted, permitted>>

(* The process ends, with or without committing the batch it was saving.   *)
Crash ==
    /\ Disturb
    /\ qb.link # "Disabled"
    /\ \E committed \in BOOLEAN :
          store' = IF committed /\ saves # << >>
                   THEN Replaced(store, Head(saves)) ELSE store
    /\ qb' = Disabled /\ registry' = Unread /\ pollTimer' = NoTimer
    /\ requests' = << >> /\ saves' = << >> /\ queue' = << >>
    /\ permitted' = {}
    /\ UNCHANGED <<now, client, wanted>>

(* Time passes: the last command may be repeated, and counters are due.    *)
Age ==
    /\ registry.status = "Loaded"
    /\ registry' = [registry EXCEPT
                      !.recent = FALSE,
                      !.rows = [id \in DOMAIN @ |->
                                  [@[id] EXCEPT !.fresh = FALSE]]]
    /\ UNCHANGED <<now, queue, qb, pollTimer, requests, saves, store, client,
                   wanted, permitted, calm>>

-----------------------------------------------------------------------------
(* A step of the core on MAM's event, with what it asks of the registry.   *)
MamStep(kept, permits) ==
    /\ Disturb
    /\ EndStep(Quiet(qb), kept, wanted, permits)
    /\ permitted' = permits
    /\ UNCHANGED <<now, queue, store, client, wanted>>

Rows(desired) == {id \in DOMAIN registry.rows :
                    registry.rows[id].desired = desired}

(* A listing shows a new bookmark, snatched before or not.                 *)
MamBookmark ==
    \E mam \in MamIds, desired \in {"Queued", "Snatched"} :
       /\ registry.status = "Loaded" /\ registry.nextId <= MaxRows
       /\ MamStep(Bookmarked(registry, mam, desired), permitted)

(* The torrent file of a queued torrent was fetched: it may download.      *)
MamFetched ==
    \E id \in Rows("Queued") :
       MamStep(Fetched(registry, registry.rows[id].mam,
                       HashOf[registry.rows[id].mam]),
               permitted \cup {registry.rows[id].mam})

MamSnatched ==
    \E id \in Rows("Queued") :
       MamStep(Snatched(registry, registry.rows[id].mam), permitted)

MamHold ==
    \E id \in Rows("Active") :
       /\ IsLinked(registry.rows[id]) /\ registry.rows[id].origin # "Adopted"
       /\ MamStep(Hold(registry, registry.rows[id].hash), permitted)

MamResume ==
    \E id \in Rows("Held") :
       MamStep(Resume(registry, registry.rows[id].hash),
               permitted \cup {registry.rows[id].mam})

(* RegistryEvent::Redownload, from the owner.                              *)
OwnerRedownload ==
    \E id \in Rows("Snatched") : MamStep(Redownload(registry, id), permitted)

(* permits_download changes its mind.                                      *)
MamPermits ==
    \E mam \in MamIds :
       /\ registry.status = "Loaded"
       /\ MamStep(Keep, IF mam \in permitted THEN permitted \ {mam}
                        ELSE permitted \cup {mam})

(* The forwarded port or the owner's limits change.                        *)
ChangeWanted ==
    /\ Disturb
    /\ wanted' \in {[wanted EXCEPT !.port = port] : port \in Ports \cup {None}}
                   \cup {[wanted EXCEPT !.queue = setting] : setting \in Queues}
    /\ wanted' # wanted
    /\ EndStep(Quiet(qb), Keep, wanted', permitted)
    /\ UNCHANGED <<now, queue, store, client, permitted>>

-----------------------------------------------------------------------------
(* qBittorrent on its own: a running torrent gets on.                      *)
Progress ==
    /\ Disturb
    /\ \E h \in DOMAIN client.torrents :
          LET t == client.torrents[h]
          IN  /\ ~t.stopped
              /\ t.level # "Seeded"
              /\ client' = [client EXCEPT !.torrents[h].level =
                              CASE t.level = "Untouched" -> "Downloading"
                                [] t.level = "Downloading" -> "Complete"
                                [] t.level = "Complete" -> "Seeded"]
    /\ UNCHANGED <<now, queue, coreVars, store, wanted, permitted>>

(* The owner stops, starts, forces, partly deselects, removes or adds a    *)
(* torrent in qBittorrent.                                                 *)
OwnerTorrents(c) ==
    {[c EXCEPT !.torrents[h] = Commanded(op, @)] :
        h \in DOMAIN c.torrents, op \in {"Start", "Stop", "ForceStart"}}
    \cup {[c EXCEPT !.torrents[h].partial = TRUE] : h \in DOMAIN c.torrents}
    \cup {[c EXCEPT !.torrents = Restrict(@, DOMAIN @ \ {h})] :
            h \in DOMAIN c.torrents}
    \cup {[c EXCEPT !.torrents = @ @@ (h :> [DefaultTorrent EXCEPT
                                               !.stopped = stopped])] :
            h \in Hashes \ DOMAIN c.torrents, stopped \in BOOLEAN}

(* ... or changes its settings, or restarts it.                            *)
OwnerActs ==
    /\ Disturb
    /\ client' \in OwnerTorrents(client)
                   \cup {[client EXCEPT !.port = port] : port \in Ports}
                   \cup {[client EXCEPT !.queue = q] : q \in Queues}
                   \cup {FreshClient(client.torrents, client.port,
                                     client.queue)}
    /\ client' # client
    /\ UNCHANGED <<now, queue, coreVars, store, wanted, permitted>>

-----------------------------------------------------------------------------
Init ==
    /\ now = 0 /\ queue = << >>
    /\ qb = Disabled /\ registry = Unread /\ pollTimer = NoTimer
    /\ requests = << >> /\ saves = << >> /\ store \in Stores
    /\ client \in FirstClients
    /\ wanted = [port |-> None, queue |-> None]
    /\ permitted = {}
    /\ calm = MaxDisturbances

Next ==
    \/ Start \/ Handle \/ FinishRequest \/ FailRequest \/ FireTimer
    \/ FinishSave \/ FailSave \/ FinishRead \/ FailRead \/ Crash \/ Age
    \/ MamBookmark \/ MamFetched \/ MamSnatched \/ MamHold \/ MamResume
    \/ OwnerRedownload \/ MamPermits \/ ChangeWanted \/ Progress \/ OwnerActs

(* Every request to qBittorrent is answered or times out                   *)
(* (REQUEST_TIMEOUT); SQLite answers; the runner takes queued events; a    *)
(* sleeping timer wakes; time passes.  The first four are stated by what   *)
(* the step does to the one variable, so that the whole of it need not be  *)
(* evaluated again.                                                        *)
Shrinks(seq, after) == seq # << >> /\ after = Tail(seq)

Fairness ==
    /\ WF_queue(Shrinks(queue, queue'))
    /\ WF_requests(Shrinks(requests, requests'))
    /\ WF_saves(Shrinks(saves, saves'))
    /\ WF_pollTimer(pollTimer # NoTimer /\ pollTimer' = NoTimer)
    /\ WF_vars(Start) /\ WF_vars(FinishRead) /\ WF_vars(Age)

Spec == Init /\ [][Next]_vars /\ Fairness

-----------------------------------------------------------------------------
(* The copy of the torrent list is the one qBittorrent takes Windlass to   *)
(* have: merging changes onto it loses nothing, whatever restarts and      *)
(* failed requests came between.                                           *)
CopyIsShown ==
    (/\ qb.link = "Connected" /\ qb.activity # "Syncing"
     /\ qb.listed /\ qb.position = client.rid)
       => qb.torrents = client.basis

(* Once nothing is left to save, a restart reads back the registry: the    *)
(* same row for every hash and for every MAM torrent, and the same next    *)
(* identity.                                                               *)
RestartAgrees ==
    registry.status = "Loaded" /\ registry.unsaved = {} /\ registry.saving = {}
       => LET read == LoadedRecords(store)
          IN  /\ read.byHash = registry.byHash
              /\ read.byMam = registry.byMam
              /\ read.nextId = registry.nextId

Settled ==
    /\ qb.link = "Connected" /\ registry.status = "Loaded"
    /\ \A h \in DOMAIN client.torrents :
          LET t == client.torrents[h]
          IN  Completed(t) /\ ~t.partial
                 => ~t.stopped /\ (t.forced <=> ~Satisfied(t))
    /\ Reconcile(registry, client.torrents, permitted) = NoCommand
    /\ DOMAIN store = DOMAIN registry.rows
    /\ \A id \in DOMAIN store :
          \/ store[id] = StoredRow(registry.rows[id])
          \/ registry.rows[id].hash \notin DOMAIN client.torrents
             /\ registry.rows[id].counters = "Unsaved"
    /\ wanted.port \in {None, client.port}
    /\ wanted.queue \in {None, client.queue}

(* After the last disturbance, every whole torrent seeds, out of the queue *)
(* until it is satisfied; qBittorrent comes to match the registry and the  *)
(* wanted settings, and storage the registry, and they stay so.  Only      *)
(* a registry that could not be read is left alone, and so are the last    *)
(* counters of a torrent that has left qBittorrent.                        *)
Converges == <>[](registry.status = "ReadFailed" \/ Settled)
=============================================================================
