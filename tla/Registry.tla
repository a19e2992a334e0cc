------------------------------ MODULE Registry ------------------------------
(***************************************************************************)
(* The torrent registry (core/registry.rs): the torrents Windlass wants,   *)
(* what it last saw of them, the batches it saves to SQLite, and the       *)
(* commands that bring qBittorrent to match it.                            *)
(*                                                                         *)
(* Rows are never deleted.  save_path, deletion and the time of an         *)
(* observation are left out.  Elapsed time is a flag that a step of the    *)
(* environment clears: fresh (the row was saved less than                  *)
(* COUNTER_SAVE_INTERVAL ago) and recent (the last command was sent less   *)
(* than COMMAND_REPEAT_AFTER ago).                                         *)
(***************************************************************************)
EXTENDS Qbittorrent, FiniteSetsExt, TLC

CONSTANTS
    MamIds,   \* MAM torrent identities
    MaxRows   \* bound on the rows

ASSUME RegistryAssumption == MaxRows \in Nat \ {0}

Origins == {"Bookmark", "Redownload", "Adopted"}
Desires == {"Queued", "Snatched", "Active", "Held", "Removed"}

Unseen == [DefaultTorrent EXCEPT !.level = "Unseen"]

NewRow(mam, hash, origin, desired) ==
    [mam |-> mam, hash |-> hash, origin |-> origin, desired |-> desired,
     seen |-> Unseen, counters |-> "Saved", fresh |-> FALSE]

(* Identity::Linked.                                                       *)
IsLinked(row) == row.mam # None /\ row.hash # None

(* A row as storage keeps it: force_start is not saved.                    *)
StoredRow(row) ==
    [NewRow(row.mam, row.hash, row.origin, row.desired) EXCEPT
       !.seen = [row.seen EXCEPT !.forced = FALSE]]

NoCommand == [op |-> "None", hashes |-> {}, mam |-> None]

(* Registry, with Records once they are loaded.                            *)
Unread == [status |-> "Unread", rows |-> << >>, byHash |-> << >>,
           byMam |-> << >>, nextId |-> 1, unsaved |-> {}, saving |-> {},
           lastCommand |-> NoCommand, recent |-> FALSE]

-----------------------------------------------------------------------------
(* The row of a MAM torrent after a restart: live rows win.                *)
RowOf(stored, mam) ==
    LET all == {id \in DOMAIN stored : stored[id].mam = mam}
        live == {id \in all : stored[id].desired # "Removed"}
    IN  IF live # {} THEN Max(live) ELSE Max(all)

(* Records::new.                                                           *)
LoadedRecords(stored) ==
    LET hashes == {stored[id].hash : id \in DOMAIN stored} \ {None}
        mams == {stored[id].mam : id \in DOMAIN stored} \ {None}
    IN  [Unread EXCEPT
           !.status = "Loaded", !.rows = stored,
           !.byHash = [h \in hashes |->
                         Max({id \in DOMAIN stored : stored[id].hash = h})],
           !.byMam = [m \in mams |-> RowOf(stored, m)],
           !.nextId = Max(DOMAIN stored \cup {0}) + 1]

(* A registry operation's result: the registry and the rows to save.       *)
Kept(r, batch) == [r |-> r, batch |-> batch]
NoBatch == << >>

(* Records::save: every changed row in one batch, one batch at a time.     *)
Save(r) ==
    IF r.saving # {} \/ r.unsaved = {} THEN Kept(r, NoBatch)
    ELSE Kept([r EXCEPT !.unsaved = {}, !.saving = r.unsaved,
                        !.rows = [id \in DOMAIN r.rows |->
                           IF id \in r.unsaved
                           THEN [r.rows[id] EXCEPT !.fresh = TRUE,
                                                   !.counters = "Saved"]
                           ELSE r.rows[id]]],
              [id \in r.unsaved |-> StoredRow(r.rows[id])])

(* RegistryEvent::Saved and SaveFailed: failed rows wait for the next save.*)
BatchSaved(r) == Save([r EXCEPT !.saving = {}])

BatchFailed(r) ==
    Kept([r EXCEPT !.saving = {}, !.unsaved = @ \cup r.saving], NoBatch)

-----------------------------------------------------------------------------
(* Records::set_desired.                                                   *)
SetDesired(r, id, desired) ==
    [r EXCEPT !.rows[id].desired = desired, !.unsaved = @ \cup {id}]

(* A new row under the next identity.                                      *)
Allocate(r, row) ==
    [r EXCEPT !.rows = @ @@ (r.nextId :> row), !.nextId = @ + 1]

(* Records::adopt.                                                         *)
Adopt(r, hash) ==
    [Allocate(r, NewRow(None, hash, "Adopted", "Active")) EXCEPT
       !.byHash = @ @@ (hash :> r.nextId)]

(* significant: the changes that are saved at once.                        *)
Significant(before, after) ==
    \/ before.stopped # after.stopped
    \/ before.partial # after.partial
    \/ Completed(before) # Completed(after)

(* Entry::observe: the row, and whether it must be saved now.              *)
EntryObserve(row, torrent) ==
    LET seen == [row EXCEPT !.seen = torrent]
        counted == IF row.seen # torrent THEN "Unsaved" ELSE row.counters
    IN  IF row.seen = Unseen \/ Significant(row.seen, torrent)
        THEN [row |-> seen, save |-> TRUE]
        ELSE [row |-> [seen EXCEPT !.counters = counted],
              save |-> counted = "Unsaved" /\ ~row.fresh]

(* Mutant: a held torrent stays held when it completes.                    *)
ObserveHeld(r, hash, torrent) ==
    LET known == IF hash \in DOMAIN r.byHash THEN r ELSE Adopt(r, hash)
        id == known.byHash[hash]
        entry == EntryObserve(known.rows[id], torrent)
    IN  [known EXCEPT !.rows[id] = entry.row,
                      !.unsaved = IF entry.save THEN @ \cup {id} ELSE @]

(* One torrent of Records::observe: adopted if unknown; a held one that    *)
(* completed must seed.                                                    *)
ObserveTorrent(r, hash, torrent) ==
    LET known == IF hash \in DOMAIN r.byHash THEN r ELSE Adopt(r, hash)
        id == known.byHash[hash]
        entry == EntryObserve(known.rows[id], torrent)
        noted == [known EXCEPT !.rows[id] = entry.row,
                               !.unsaved = IF entry.save THEN @ \cup {id}
                                           ELSE @]
    IN  IF entry.row.desired = "Held" /\ Completed(torrent)
        THEN SetDesired(noted, id, "Active") ELSE noted

(* Registry::observe, after an update was merged.                          *)
Observe(r, q) ==
    IF r.status # "Loaded" \/ ~q.listed THEN Kept(r, NoBatch)
    ELSE Save(FoldSet(LAMBDA h, s : ObserveTorrent(s, h, q.torrents[h]),
                      r, DOMAIN q.torrents))

-----------------------------------------------------------------------------
(* What MAM work asks of the registry.                                     *)

(* Records::bookmarked, for one new bookmark.                              *)
Bookmarked(r, mam, desired) ==
    IF mam \in DOMAIN r.byMam THEN Save(r)
    ELSE Save([Allocate(r, NewRow(mam, None, "Bookmark", desired)) EXCEPT
                 !.byMam = @ @@ (mam :> r.nextId),
                 !.unsaved = @ \cup {r.nextId}])

(* Records::redownload.                                                    *)
Redownload(r, id) ==
    IF id \notin DOMAIN r.rows \/ r.rows[id].desired # "Snatched"
    THEN Kept(r, NoBatch)
    ELSE Save([SetDesired(r, id, "Queued") EXCEPT
                 !.rows[id].origin = "Redownload"])

(* Mutant: the queued row keeps the MAM identity that a torrent found in   *)
(* qBittorrent gained.                                                     *)
LinkOwnRow(r, id, mam, hash) ==
    LET target == IF hash \in DOMAIN r.byHash THEN r.byHash[hash] ELSE id
        left == IF target # id THEN SetDesired(r, id, "Removed") ELSE r
        linked == [left EXCEPT !.rows[target].mam = mam,
                               !.rows[target].hash = hash,
                               !.rows[target].origin = r.rows[id].origin]
    IN  [SetDesired(linked, target, "Active") EXCEPT
           !.byHash = [h \in DOMAIN @ \cup {hash} |->
                         IF h = hash THEN target ELSE @[h]]]

(* Records::link: a torrent already in qBittorrent keeps its row, which    *)
(* gains the MAM identity; the queued row stays as history.                *)
Link(r, id, mam, hash) ==
    LET target == IF hash \in DOMAIN r.byHash THEN r.byHash[hash] ELSE id
        left == IF target # id
                THEN [SetDesired(r, id, "Removed") EXCEPT !.byMam[mam] = target]
                ELSE r
        linked == [left EXCEPT !.rows[target].mam = mam,
                               !.rows[target].hash = hash,
                               !.rows[target].origin = r.rows[id].origin]
    IN  [SetDesired(linked, target, "Active") EXCEPT
           !.byHash = [h \in DOMAIN @ \cup {hash} |->
                         IF h = hash THEN target ELSE @[h]]]

(* Records::fetched.                                                       *)
Fetched(r, mam, hash) ==
    IF mam \notin DOMAIN r.byMam THEN Save(r)
    ELSE Save(Link(r, r.byMam[mam], mam, hash))

(* Records::snatched.                                                      *)
Snatched(r, mam) ==
    IF mam \in DOMAIN r.byMam /\ r.rows[r.byMam[mam]].desired = "Queued"
       /\ r.rows[r.byMam[mam]].origin = "Bookmark"
    THEN Save(SetDesired(r, r.byMam[mam], "Snatched")) ELSE Save(r)

(* Records::resume.                                                        *)
Resume(r, hash) ==
    IF hash \in DOMAIN r.byHash /\ r.rows[r.byHash[hash]].desired = "Held"
    THEN Save(SetDesired(r, r.byHash[hash], "Active")) ELSE Save(r)

(* Records::hold.                                                          *)
Hold(r, hash) ==
    IF hash \in DOMAIN r.byHash
    THEN Save(SetDesired(r, r.byHash[hash], "Held")) ELSE Save(r)

-----------------------------------------------------------------------------
(* removable: nothing is left unsatisfied on MAM.                          *)
Removable(t) == Satisfied(t) \/ t.level = "Untouched"

ToHashes(op, hashes) == [op |-> op, hashes |-> hashes, mam |-> None]

(* Records::reconcile: the first change qBittorrent needs, given its list  *)
(* and the MAM torrents that may download now.                             *)
Reconcile(r, torrents, permitted) ==
    LET rows == {id \in DOMAIN r.rows : r.rows[id].hash \in DOMAIN torrents}
        torrent(id) == torrents[r.rows[id].hash]
        hashesOf(ids) == {r.rows[id].hash : id \in ids}
        present(desired) == {id \in rows : r.rows[id].desired = desired}
        mayDownload(id) == r.rows[id].mam = None \/ r.rows[id].mam \in permitted
        removed == {id \in present("Removed") : Removable(torrent(id))}
        running == {id \in present("Held") :
                      ~Completed(torrent(id)) /\ ~torrent(id).stopped}
        parts == {id \in present("Active") :
                    torrent(id).partial /\ mayDownload(id)}
        missing == {id \in DOMAIN r.rows \ rows :
                      /\ IsLinked(r.rows[id])
                      /\ r.rows[id].desired = "Active"
                      /\ r.rows[id].origin # "Adopted"
                      /\ r.rows[id].mam \in permitted}
        stopped == {id \in present("Active") :
                      /\ torrent(id).stopped
                      /\ ~(/\ r.rows[id].origin = "Adopted"
                           /\ torrent(id).level = "Untouched")
                      /\ \/ Completed(torrent(id)) /\ ~torrent(id).partial
                         \/ mayDownload(id)}
        unsatisfied(id) == Completed(torrent(id)) /\ ~Satisfied(torrent(id))
        force == {id \in present("Active") : /\ unsatisfied(id)
                                             /\ ~torrent(id).partial
                                             /\ ~torrent(id).forced}
        release == {id \in present("Active") : /\ ~unsatisfied(id)
                                               /\ torrent(id).forced}
    IN  IF removed # {} THEN ToHashes("Remove", hashesOf(removed))
        ELSE IF running # {} THEN ToHashes("Stop", hashesOf(running))
        ELSE IF parts # {}
        THEN ToHashes("SelectAllFiles", {r.rows[Min(parts)].hash})
        ELSE IF missing # {}
        THEN [op |-> "Add", hashes |-> {r.rows[Min(missing)].hash},
              mam |-> r.rows[Min(missing)].mam]
        ELSE IF stopped # {} THEN ToHashes("Start", hashesOf(stopped))
        ELSE IF force # {} THEN ToHashes("ForceStart", hashesOf(force))
        ELSE IF release # {} THEN ToHashes("EndForceStart", hashesOf(release))
        ELSE NoCommand

(* Registry::command: the same command is not repeated within a minute.    *)
NextCommand(r, q, permitted) ==
    LET command == IF r.status = "Loaded" /\ q.listed
                   THEN Reconcile(r, q.torrents, permitted) ELSE NoCommand
    IN  IF command = r.lastCommand /\ r.recent THEN NoCommand ELSE command

CommandSent(r, command) ==
    IF command = NoCommand THEN r
    ELSE [r EXCEPT !.lastCommand = command, !.recent = TRUE]
=============================================================================
