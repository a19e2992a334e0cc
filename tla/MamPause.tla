------------------------------ MODULE MamPause ------------------------------
(***************************************************************************)
(* The owner's pause over MAM requests: startup, the saved preference and  *)
(* its persistence (core/startup.rs, core/mam_pause.rs), together with the *)
(* storage workers that carry out the core's actions (shell/storage.rs)    *)
(* and crashes of the process.                                             *)
(*                                                                         *)
(* The core handles one event at a time.  Each action it returns becomes a *)
(* job on a worker thread of its own; jobs finish in any order and their   *)
(* answers are handled as later events, so the owner's requests interleave *)
(* freely with them.                                                       *)
(***************************************************************************)
EXTENDS Naturals, Sequences, SequencesExt

VARIABLES
    core,   \* the core's State, with MamPreferenceState's fields in it
    jobs,   \* storage operations on worker threads, answered or not
    disk,   \* the preference stored in SQLite
    asked   \* history: the owner's latest request in this process's life

vars == <<core, jobs, disk, asked>>

Modes == {"Paused", "Enabled"}

(* A stored preference: a mode, or no row.  A MamPreferenceUpdate is named *)
(* by what it stores: Set(mode) by the mode, Delete by "Absent".           *)
Stored == Modes \cup {"Absent"}
Updates == Stored
Mode(update) == IF update = "Absent" THEN "Paused" ELSE update

NoUpdate == "NoUpdate"

States == {"NotStarted", "OpeningStorage", "ReadingMamPreference",
           "Ready", "Failed"}

Core == [state       : States,
         early       : Updates \cup {NoUpdate},  \* requested during startup
         saved       : Stored,
         requested   : Updates,
         effective   : Modes,
         persistence : {"Idle", "Pending", "Failed"},
         pending     : Updates \cup {NoUpdate}]

(* The MamPreferenceState fields mean nothing before the Ready state.      *)
NewCore == [state |-> "NotStarted", early |-> NoUpdate,
            saved |-> "Absent", requested |-> "Absent",
            effective |-> "Paused", persistence |-> "Idle",
            pending |-> NoUpdate]

Operations == {"OpenStorage", "ReadMamRequestMode",
               "WriteMamRequestMode", "DeleteMamRequestMode"}

Job == [op     : Operations,
        mode   : Stored,         \* what it writes, or what it has read
        answer : {"none", "ok", "failed"}]

NewJob(op, mode) == [op |-> op, mode |-> mode, answer |-> "none"]

Result(c, actions) == [core |-> c, actions |-> actions]

-----------------------------------------------------------------------------
(* MamPreferenceUpdate::action.                                            *)
Persist(update) ==
    IF update = "Absent" THEN NewJob("DeleteMamRequestMode", "Absent")
                         ELSE NewJob("WriteMamRequestMode", update)

(* MamPreferenceState::update_mam_preference.                              *)
UpdatePreference(c, change) ==
    LET asking == [c EXCEPT !.requested = change,
                            !.effective = IF Mode(change) = "Paused"
                                          THEN "Paused" ELSE @]
    IN  IF c.persistence = "Pending"
        THEN Result(asking, <<>>)
        ELSE IF change = c.saved
        THEN Result([asking EXCEPT !.effective = Mode(change),
                                   !.persistence = "Idle"], <<>>)
        ELSE Result([asking EXCEPT !.persistence = "Pending",
                                   !.pending = change], <<Persist(change)>>)

(* mam_pause::update_mam_preference: by the state the request meets.       *)
Request(c, change) ==
    CASE c.state \in {"OpeningStorage", "ReadingMamPreference"} ->
            Result([c EXCEPT !.early = change], <<>>)
      [] c.state = "Ready" -> UpdatePreference(c, change)
      [] c.state \in {"NotStarted", "Failed"} -> Result(c, <<>>)

(* mam_pause::loaded.                                                      *)
Loaded(c, read) ==
    LET ready == [c EXCEPT !.state = "Ready",
                           !.early = NoUpdate,
                           !.saved = read,
                           !.requested = Mode(read),
                           !.effective = IF c.early # NoUpdate THEN "Paused"
                                         ELSE Mode(read),
                           !.persistence = "Idle",
                           !.pending = NoUpdate]
    IN  IF c.state # "ReadingMamPreference" THEN Result(c, <<>>)
        ELSE IF c.early = NoUpdate THEN Result(ready, <<>>)
        ELSE UpdatePreference(ready, c.early)

(* Mutant: a failed write of the latest request takes effect.              *)
CompleteUnsaved(c, op, success) ==
    LET done == [c EXCEPT !.saved = IF success THEN c.pending ELSE @,
                          !.persistence = IF success THEN "Idle" ELSE "Failed",
                          !.effective = IF c.pending = c.requested
                                        THEN Mode(c.pending) ELSE "Paused",
                          !.pending = NoUpdate]
    IN  IF c.state # "Ready" \/ c.persistence # "Pending"
        THEN Result(c, <<>>)
        ELSE IF c.pending = c.requested THEN Result(done, <<>>)
        ELSE UpdatePreference(done, c.requested)

(* Mutant: a request made during the write is not followed up.             *)
CompleteWithoutFollowUp(c, op, success) ==
    IF c.state # "Ready" \/ c.persistence # "Pending"
    THEN Result(c, <<>>)
    ELSE Result([c EXCEPT !.saved = IF success THEN c.pending ELSE @,
                          !.persistence = IF success THEN "Idle" ELSE "Failed",
                          !.effective = IF success /\ c.pending = c.requested
                                        THEN Mode(c.pending) ELSE "Paused",
                          !.pending = NoUpdate], <<>>)

(* Mutant: a failure does not end the outstanding write.                   *)
CompleteOnlySuccess(c, op, success) ==
    IF c.state = "Ready" /\ c.persistence = "Pending" /\ success
    THEN CompleteUnsaved(c, op, success)
    ELSE Result(c, <<>>)

(* MamPreferenceState::complete: a completion of the other kind is no      *)
(* answer to the pending update.                                           *)
Complete(c, op, success) ==
    LET pending == c.pending
        done == [c EXCEPT !.saved = IF success THEN pending ELSE @,
                          !.persistence = IF success THEN "Idle" ELSE "Failed",
                          !.effective = IF success /\ pending = c.requested
                                        THEN Mode(pending) ELSE "Paused",
                          !.pending = NoUpdate]
    IN  IF \/ c.state # "Ready"
           \/ c.persistence # "Pending"
           \/ op # Persist(pending).op
        THEN Result(c, <<>>)
        ELSE IF pending = c.requested THEN Result(done, <<>>)
        ELSE UpdatePreference(done, c.requested)

(* startup::handle for the two answers to OpenStorage.                     *)
StorageOpened(c, success) ==
    IF c.state # "OpeningStorage" THEN Result(c, <<>>)
    ELSE IF success
    THEN Result([c EXCEPT !.state = "ReadingMamPreference"],
                <<NewJob("ReadMamRequestMode", "Absent")>>)
    ELSE Result([c EXCEPT !.state = "Failed"], <<>>)

(* mam_pause::handle's ReadFailed arm.                                     *)
ReadFailed(c) ==
    Result(IF c.state = "ReadingMamPreference"
           THEN [c EXCEPT !.state = "Failed"] ELSE c, <<>>)

(* The event a worker's answer becomes, handled.                           *)
HandleAnswer(c, job) ==
    LET success == job.answer = "ok"
    IN  CASE job.op = "OpenStorage" -> StorageOpened(c, success)
          [] job.op = "ReadMamRequestMode" /\ success -> Loaded(c, job.mode)
          [] job.op = "ReadMamRequestMode" /\ ~success -> ReadFailed(c)
          [] job.op \in {"WriteMamRequestMode", "DeleteMamRequestMode"} ->
                Complete(c, job.op, success)

(* MamRequestsStatus, as State::mam_requests and status() derive it.       *)
Status ==
    LET asks == Mode(core.requested)
    IN  CASE core.state = "Failed" -> "StartupFailed"
          [] core.state \notin {"Ready", "Failed"} -> "Starting"
          [] core.state = "Ready" /\ core.persistence = "Idle" ->
                IF core.effective = "Paused" THEN "Paused" ELSE "Running"
          [] core.state = "Ready" /\ core.persistence = "Pending" ->
                IF asks = "Paused" THEN "PausePending" ELSE "ResumePending"
          [] core.state = "Ready" /\ core.persistence = "Failed" ->
                IF asks = "Paused" THEN "PauseNotSaved" ELSE "ResumeNotSaved"

-----------------------------------------------------------------------------
Init ==
    /\ core = NewCore
    /\ jobs = <<>>
    /\ disk \in Stored
    /\ asked = NoUpdate

(* The serving process sends Start before it accepts any request.          *)
Start ==
    /\ core.state = "NotStarted"
    /\ core' = [core EXCEPT !.state = "OpeningStorage", !.early = NoUpdate]
    /\ jobs' = Append(jobs, NewJob("OpenStorage", "Absent"))
    /\ UNCHANGED <<disk, asked>>

(* The owner pauses, resumes or forgets, at any time after Start.          *)
Ask(update) ==
    /\ core.state # "NotStarted"
    /\ LET result == Request(core, update)
       IN  /\ core' = result.core
           /\ jobs' = jobs \o result.actions
    /\ asked' = update
    /\ UNCHANGED disk

(* storage::execute on a worker thread: SQLite commits the statement or    *)
(* rolls it back.                                                          *)
Perform(i) ==
    /\ jobs[i].answer = "none"
    /\ \/ /\ jobs' = [jobs EXCEPT ![i].answer = "ok",
                                  ![i].mode = IF jobs[i].op = "ReadMamRequestMode"
                                              THEN disk ELSE @]
          /\ disk' = IF jobs[i].op \in {"WriteMamRequestMode",
                                        "DeleteMamRequestMode"}
                     THEN jobs[i].mode ELSE disk
       \/ /\ jobs' = [jobs EXCEPT ![i].answer = "failed"]
          /\ UNCHANGED disk
    /\ UNCHANGED <<core, asked>>

(* The runner hands an answer to the core and dispatches what it returns.  *)
Handle(i) ==
    /\ jobs[i].answer # "none"
    /\ LET result == HandleAnswer(core, jobs[i])
       IN  /\ core' = result.core
           /\ jobs' = RemoveAt(jobs, i) \o result.actions
    /\ UNCHANGED <<disk, asked>>

(* The process dies and is started again.  A statement a worker had begun  *)
(* may or may not have been committed.                                     *)
Crash ==
    /\ core.state # "NotStarted"
    /\ core' = NewCore
    /\ jobs' = <<>>
    /\ asked' = NoUpdate
    /\ disk' \in {disk} \cup
          {jobs[i].mode : i \in {k \in DOMAIN jobs :
              /\ jobs[k].answer = "none"
              /\ jobs[k].op \in {"WriteMamRequestMode",
                                 "DeleteMamRequestMode"}}}

Work == \E i \in DOMAIN jobs : Perform(i) \/ Handle(i)

Next ==
    \/ Start
    \/ \E update \in Updates : Ask(update)
    \/ \E i \in DOMAIN jobs : Perform(i)
    \/ \E i \in DOMAIN jobs : Handle(i)
    \/ Crash

(* Worker threads finish (busy_timeout bounds every statement) and the     *)
(* runner takes the next input whenever there is one.                      *)
Fairness == WF_vars(Start) /\ WF_vars(Work)

Spec == Init /\ [][Next]_vars /\ Fairness

-----------------------------------------------------------------------------
(* Every variable has its type: core/mam_pause.rs's state, the jobs it     *)
(* started and the stored row.                                             *)
TypeOK ==
    /\ core \in Core
    /\ jobs \in Seq(Job)
    /\ disk \in Stored
    /\ asked \in Updates \cup {NoUpdate}

Running == core.state = "Ready" /\ core.effective = "Enabled"

(* Requests to MAM are allowed only on a durable Enabled: whatever         *)
(* interleaving of pauses, resumes and late answers led here, a process    *)
(* that died now would find Enabled in the database.  An unsaved resume    *)
(* (ResumePending, ResumeNotSaved) never lets a request out.               *)
RunningIsSaved == Running => disk = "Enabled"

(* A late answer never overrules the owner: while requests are allowed,    *)
(* the owner's latest request in this process, if any, was to enable them, *)
(* even when several requests met one outstanding write.                   *)
RunningIsAsked == Running => asked \in {NoUpdate, "Enabled"}

(* What the dashboard calls Paused ("The pause is saved and will survive a *)
(* restart") would come up paused after a crash at this moment.            *)
PausedSurvivesRestart == Status = "Paused" => disk # "Enabled"

(* The preference has one storage operation outstanding at a time, so no   *)
(* two writes race on their worker threads and the core's "saved" is the   *)
(* database's value whenever no write is outstanding.                      *)
SavedIsStored ==
    /\ Len(jobs) <= 1
    /\ core.state = "Ready" /\ jobs = <<>> => core.saved = disk

(* When the owner stops asking and the process stops crashing, the core    *)
(* comes to rest: startup has failed, or the latest request is in force    *)
(* and saved, or the dashboard says it could not be saved.                 *)
Settled ==
    CASE Status = "StartupFailed" -> TRUE
      [] Status = "Running" -> asked \in {NoUpdate, "Enabled"}
      [] Status = "Paused" -> asked # "Enabled"
      [] Status = "PauseNotSaved" -> asked \in {"Paused", "Absent"}
      [] Status = "ResumeNotSaved" -> asked = "Enabled"
      [] OTHER -> FALSE

RequestsSettle ==
    <>[][~ (Crash \/ \E update \in Updates : Ask(update))]_vars => <>[]Settled

=============================================================================
