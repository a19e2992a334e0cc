--------------------------- MODULE MamPauseProofs ---------------------------
(***************************************************************************)
(* The safety properties of MamPause, proved for every behaviour.  The     *)
(* inductive invariant says what each state of the core has outstanding    *)
(* and how the answer to come relates to the database.                     *)
(***************************************************************************)
EXTENDS MamPause, TLAPS

(* What is outstanding: nothing, or the one job whose answer the core's    *)
(* state is waiting for, and what that job has done to the database.       *)
JobsAwaited(c, js, d) ==
    /\ c.state \in {"NotStarted", "Failed"} => js = <<>>
    /\ c.state = "OpeningStorage" => Len(js) = 1 /\ js[1].op = "OpenStorage"
    /\ c.state = "ReadingMamPreference" =>
          /\ Len(js) = 1
          /\ js[1].op = "ReadMamRequestMode"
          /\ js[1].answer = "ok" => js[1].mode = d
    /\ c.state = "Ready" /\ c.persistence # "Pending" =>
          js = <<>> /\ c.saved = d
    /\ c.state = "Ready" /\ c.persistence = "Pending" =>
          /\ c.pending \in Updates
          /\ Len(js) = 1
          /\ js[1].op = Persist(c.pending).op
          /\ js[1].mode = c.pending
          /\ d = IF js[1].answer = "ok" THEN c.pending ELSE c.saved

(* How the preference's fields follow the owner's requests and the saved   *)
(* value.                                                                  *)
FollowsOwner(c, a) ==
    /\ c.state \in {"OpeningStorage", "ReadingMamPreference"} => c.early = a
    /\ c.state = "NotStarted" => a = NoUpdate
    /\ c.state = "Ready" =>
          /\ a # NoUpdate => c.requested = a
          /\ c.effective = "Enabled" => c.persistence = "Idle"
          /\ c.persistence = "Idle" => /\ c.effective = Mode(c.saved)
                                       /\ Mode(c.requested) = Mode(c.saved)

Consistent(c, js, d, a) ==
    /\ c \in Core /\ js \in Seq(Job) /\ d \in Stored
    /\ a \in Updates \cup {NoUpdate}
    /\ JobsAwaited(c, js, d)
    /\ FollowsOwner(c, a)

IInv == Consistent(core, jobs, disk, asked)

-----------------------------------------------------------------------------
(* Taking the only job off the list leaves none.                           *)
LEMMA RemoveOnly ==
    ASSUME NEW js \in Seq(Job), Len(js) = 1
    PROVE  RemoveAt(js, 1) = <<>>
BY DEF RemoveAt

(* Answering the only job keeps the list one job long.                     *)
LEMMA ReplaceOnly ==
    ASSUME NEW js \in Seq(Job), Len(js) = 1, NEW j \in Job
    PROVE  LET new == [js EXCEPT ![1] = j]
           IN  new[1] = j /\ Len(new) = 1 /\ new \in Seq(Job)
OBVIOUS

(* A request handled with nothing outstanding leaves a consistent core,    *)
(* with at most the one write it asks for (update_mam_preference).         *)
LEMMA UpdateConsistent ==
    ASSUME NEW c \in Core, NEW d \in Stored, NEW change \in Updates,
           NEW a \in {NoUpdate, change},
           c.state = "Ready", c.persistence # "Pending", c.saved = d,
           c.effective = "Enabled" => c.saved = "Enabled"
    PROVE  LET r == UpdatePreference(c, change)
           IN  Consistent(r.core, r.actions, d, a)
<1> DEFINE r == UpdatePreference(c, change)
<1>1. CASE change = c.saved
  <2>1. r.core = [c EXCEPT !.requested = change, !.effective = Mode(change),
                           !.persistence = "Idle"]
    BY <1>1 DEF UpdatePreference, Result, Mode, Core
  <2>2. r.actions = <<>>
    BY <1>1 DEF UpdatePreference, Result
  <2>3. r.core \in Core
    BY <2>1 DEF Core, Mode, Updates, Stored, Modes
  <2> QED
    BY <1>1, <2>1, <2>2, <2>3
    DEF Consistent, JobsAwaited, FollowsOwner, Core, Mode, Updates, Stored,
        Modes, NoUpdate
<1>2. CASE change # c.saved
  <2>1. r.core = [c EXCEPT !.requested = change, !.persistence = "Pending",
                           !.effective = IF Mode(change) = "Paused"
                                         THEN "Paused" ELSE c.effective,
                           !.pending = change]
    BY <1>2 DEF UpdatePreference, Result, Core
  <2>2. r.actions = <<Persist(change)>>
    BY <1>2 DEF UpdatePreference, Result
  <2>3. Persist(change) \in Job /\ Persist(change).mode = change
        /\ Persist(change).answer = "none"
    BY DEF Persist, NewJob, Job, Operations, Updates, Stored, Modes
  <2>4. r.core \in Core
    BY <2>1 DEF Core, Updates, Stored, Modes
  <2>5. r.core.effective = "Paused"
    BY <1>2, <2>1 DEF Core, Mode, Updates, Stored, Modes
  <2>6. JobsAwaited(r.core, r.actions, d)
    BY <2>1, <2>2, <2>3, <2>4 DEF JobsAwaited, Core, Updates
  <2>7. FollowsOwner(r.core, a)
    BY <2>1, <2>5 DEF FollowsOwner, Core
  <2> QED
    BY <2>2, <2>3, <2>4, <2>6, <2>7 DEF Consistent, Updates
<1> QED
  BY <1>1, <1>2

(* A process that starts on an empty database is consistent                *)
(* (State::NotStarted in core/startup.rs).                                 *)
THEOREM InitConsistent == Init => IInv
BY DEF Init, IInv, Consistent, JobsAwaited, FollowsOwner, NewCore, Core,
       States, Updates, Stored, Modes, NoUpdate

(* Event::Start, which opens storage, keeps the invariant.                 *)
LEMMA StartStep == IInv /\ Start => IInv'
<1> SUFFICES ASSUME IInv, Start PROVE IInv'
  OBVIOUS
<1> USE DEF IInv, Consistent
<1>1. /\ core' = [core EXCEPT !.state = "OpeningStorage", !.early = NoUpdate]
      /\ core.state = "NotStarted" /\ disk' = disk /\ asked' = asked
  BY DEF Start
<1>2. jobs' = <<NewJob("OpenStorage", "Absent")>>
  BY <1>1 DEF Start, JobsAwaited
<1>3. NewJob("OpenStorage", "Absent") \in Job
      /\ NewJob("OpenStorage", "Absent").op = "OpenStorage"
  BY DEF NewJob, Job, Operations, Stored
<1>4. core' \in Core /\ core'.state = "OpeningStorage"
      /\ core'.early = NoUpdate
  BY <1>1 DEF Core, States
<1>5. JobsAwaited(core', jobs', disk')
  BY <1>2, <1>3, <1>4 DEF JobsAwaited
<1>6. FollowsOwner(core', asked')
  BY <1>1, <1>4 DEF FollowsOwner
<1> QED
  BY <1>1, <1>2, <1>3, <1>4, <1>5, <1>6

(* The owner's request, in every phase of startup and with or without a    *)
(* save in flight, keeps the invariant (MamPreferenceUpdateRequested).     *)
LEMMA AskStep == ASSUME NEW update \in Updates PROVE IInv /\ Ask(update) => IInv'
<1> SUFFICES ASSUME IInv, Ask(update) PROVE IInv'
  OBVIOUS
<1> DEFINE r == Request(core, update)
<1>0. /\ core' = r.core /\ jobs' = jobs \o r.actions /\ asked' = update
      /\ disk' = disk /\ core.state # "NotStarted"
  BY DEF Ask
<1>t. core \in Core /\ jobs \in Seq(Job) /\ disk \in Stored
      /\ JobsAwaited(core, jobs, disk) /\ FollowsOwner(core, asked)
  BY DEF IInv, Consistent
<1>1. CASE core.state \in {"OpeningStorage", "ReadingMamPreference"}
  <2>1. r.core = [core EXCEPT !.early = update] /\ r.actions = <<>>
    BY <1>1 DEF Request, Result
  <2>2. jobs' = jobs
    BY <1>0, <1>t, <2>1
  <2> QED
    BY <1>0, <1>1, <1>t, <2>1, <2>2
    DEF IInv, Consistent, JobsAwaited, FollowsOwner, Core, States
<1>2. CASE core.state = "Failed"
  <2>1. r.core = core /\ r.actions = <<>>
    BY <1>2 DEF Request, Result
  <2>2. jobs' = jobs
    BY <1>0, <1>t, <2>1
  <2> QED
    BY <1>0, <1>2, <1>t, <2>1, <2>2
    DEF IInv, Consistent, JobsAwaited, FollowsOwner
<1>3. CASE core.state = "Ready"
  <2>0. r = UpdatePreference(core, update)
    BY <1>3 DEF Request
  <2>1. CASE core.persistence = "Pending"
    <3>1. r.actions = <<>>
          /\ r.core = [core EXCEPT !.requested = update,
                                   !.effective = IF Mode(update) = "Paused"
                                      THEN "Paused" ELSE core.effective]
      BY <2>0, <2>1 DEF UpdatePreference, Result, Core
    <3>2. jobs' = jobs
      BY <1>0, <1>t, <3>1
    <3>3. core.effective = "Paused"
      BY <1>3, <1>t, <2>1 DEF FollowsOwner, Core, Modes
    <3>4. core' \in Core /\ core'.state = "Ready"
          /\ core'.persistence = "Pending" /\ core'.effective = "Paused"
          /\ core'.requested = update /\ core'.pending = core.pending
          /\ core'.saved = core.saved
      BY <1>0, <1>3, <1>t, <2>1, <3>1, <3>3 DEF Core, Modes
    <3>5. JobsAwaited(core', jobs', disk')
      BY <1>0, <1>3, <1>t, <2>1, <3>2, <3>4 DEF JobsAwaited
    <3>6. FollowsOwner(core', asked')
      BY <1>0, <3>4 DEF FollowsOwner
    <3> QED
      BY <1>0, <1>t, <3>2, <3>4, <3>5, <3>6 DEF IInv, Consistent
  <2>2. CASE core.persistence # "Pending"
    <3>1. jobs = <<>> /\ core.saved = disk
      BY <1>3, <1>t, <2>2 DEF JobsAwaited
    <3>2. core.effective = "Enabled" => core.saved = "Enabled"
      BY <1>3, <1>t DEF FollowsOwner, Mode
    <3>3. Consistent(r.core, r.actions, disk, update)
      BY <1>3, <1>t, <2>0, <2>2, <3>1, <3>2, UpdateConsistent
    <3>4. jobs' = r.actions
      BY <1>0, <3>1, <3>3 DEF Consistent
    <3> QED
      BY <1>0, <3>3, <3>4 DEF IInv
  <2> QED
    BY <2>1, <2>2
<1> QED
  BY <1>0, <1>1, <1>2, <1>3, <1>t DEF Core, States

(* The invariant allows one job at most, so a worker step is about jobs[1]. *)
LEMMA OneJob ==
    ASSUME IInv, NEW i \in DOMAIN jobs
    PROVE  /\ i = 1 /\ Len(jobs) = 1 /\ jobs[1] \in Job
           /\ core.state \in {"OpeningStorage", "ReadingMamPreference", "Ready"}
           /\ core.state = "Ready" => core.persistence = "Pending"
<1>1. jobs \in Seq(Job) /\ core \in Core /\ JobsAwaited(core, jobs, disk)
  BY DEF IInv, Consistent
<1>2. jobs # <<>>
  BY <1>1
<1>3. /\ core.state \in {"OpeningStorage", "ReadingMamPreference", "Ready"}
      /\ core.state = "Ready" => core.persistence = "Pending"
  BY <1>1, <1>2 DEF JobsAwaited, Core, States
<1>4. Len(jobs) = 1
  BY <1>1, <1>3 DEF JobsAwaited
<1> QED
  BY <1>1, <1>3, <1>4

(* A worker's storage operation, committed or rolled back, keeps the       *)
(* invariant (shell/storage.rs execute).                                   *)
LEMMA PerformStep ==
    ASSUME IInv, NEW i \in DOMAIN jobs, Perform(i) PROVE IInv'
<1>1. /\ i = 1 /\ Len(jobs) = 1 /\ jobs[1] \in Job
      /\ core.state \in {"OpeningStorage", "ReadingMamPreference", "Ready"}
      /\ core.state = "Ready" => core.persistence = "Pending"
  BY OneJob
<1>2. /\ core \in Core /\ jobs \in Seq(Job) /\ disk \in Stored
      /\ asked \in Updates \cup {NoUpdate}
      /\ JobsAwaited(core, jobs, disk) /\ FollowsOwner(core, asked)
  BY DEF IInv, Consistent
<1>3. core' = core /\ asked' = asked
  BY DEF Perform
<1>4. /\ Len(jobs') = 1 /\ jobs' \in Seq(Job) /\ jobs'[1].op = jobs[1].op
      /\ disk' \in Stored
      /\ \/ /\ jobs'[1].answer = "ok"
            /\ jobs'[1].mode = IF jobs[1].op = "ReadMamRequestMode"
                               THEN disk ELSE jobs[1].mode
            /\ disk' = IF jobs[1].op \in {"WriteMamRequestMode",
                                          "DeleteMamRequestMode"}
                       THEN jobs[1].mode ELSE disk
         \/ /\ jobs'[1].answer = "failed" /\ jobs'[1].mode = jobs[1].mode
            /\ disk' = disk
  <2>1. jobs = <<jobs[1]>>
    BY <1>1, <1>2
  <2>2. CASE /\ jobs' = [jobs EXCEPT ![i].answer = "ok",
                             ![i].mode = IF jobs[i].op = "ReadMamRequestMode"
                                         THEN disk ELSE @]
             /\ disk' = IF jobs[i].op \in {"WriteMamRequestMode",
                                           "DeleteMamRequestMode"}
                        THEN jobs[i].mode ELSE disk
    <3> DEFINE j == [jobs[1] EXCEPT !.answer = "ok",
                         !.mode = IF jobs[1].op = "ReadMamRequestMode"
                                  THEN disk ELSE jobs[1].mode]
    <3>1. j \in Job /\ j.op = jobs[1].op /\ j.answer = "ok"
          /\ j.mode = IF jobs[1].op = "ReadMamRequestMode"
                      THEN disk ELSE jobs[1].mode
      BY <1>1, <1>2 DEF Job
    <3>2. jobs' = [jobs EXCEPT ![1] = j]
      BY <1>1, <1>2, <2>2 DEF Job
    <3>a. j \in Job
      BY <3>1
    <3> HIDE DEF j
    <3>3. jobs'[1] = j /\ Len(jobs') = 1 /\ jobs' \in Seq(Job)
      BY <1>1, <1>2, <3>a, <3>2, ReplaceOnly
    <3> QED
      BY <1>1, <1>2, <2>2, <3>1, <3>3 DEF Job
  <2>3. CASE jobs' = [jobs EXCEPT ![i].answer = "failed"] /\ disk' = disk
    <3> DEFINE j == [jobs[1] EXCEPT !.answer = "failed"]
    <3>1. j \in Job /\ j.op = jobs[1].op /\ j.answer = "failed"
          /\ j.mode = jobs[1].mode
      BY <1>1 DEF Job
    <3>2. jobs' = [jobs EXCEPT ![1] = j]
      BY <1>1, <2>3
    <3>3. jobs'[1] = j /\ Len(jobs') = 1 /\ jobs' \in Seq(Job)
      BY <1>1, <1>2, <3>1, <3>2
    <3> QED
      BY <1>2, <2>3, <3>1, <3>3
  <2> QED
    BY <2>2, <2>3 DEF Perform
<1>5. jobs[1].answer = "none"
  BY <1>1 DEF Perform
<1>6. core.state = "Ready" =>
         jobs[1].op \in {"WriteMamRequestMode", "DeleteMamRequestMode"}
  BY <1>1, <1>2 DEF JobsAwaited, Persist, NewJob
<1>7. JobsAwaited(core', jobs', disk')
  <2>1. CASE core.state = "Ready"
    BY <1>1, <1>2, <1>3, <1>4, <1>5, <1>6, <2>1 DEF JobsAwaited
  <2>2. CASE core.state = "OpeningStorage"
    BY <1>1, <1>2, <1>3, <1>4, <2>2 DEF JobsAwaited
  <2>3. CASE core.state = "ReadingMamPreference"
    BY <1>1, <1>2, <1>3, <1>4, <2>3 DEF JobsAwaited
  <2> QED
    BY <1>1, <2>1, <2>2, <2>3
<1> QED
  BY <1>2, <1>3, <1>4, <1>7 DEF IInv, Consistent

(* The core's handling of a storage answer keeps the invariant (loaded and *)
(* complete in core/mam_pause.rs).                                         *)
LEMMA HandleStep ==
    ASSUME IInv, NEW i \in DOMAIN jobs, Handle(i) PROVE IInv'
<1> DEFINE job == jobs[1]
           r == HandleAnswer(core, job)
<1>1. /\ i = 1 /\ Len(jobs) = 1 /\ job \in Job
      /\ core.state \in {"OpeningStorage", "ReadingMamPreference", "Ready"}
      /\ core.state = "Ready" => core.persistence = "Pending"
  BY OneJob
<1>2. /\ core \in Core /\ jobs \in Seq(Job) /\ disk \in Stored
      /\ asked \in Updates \cup {NoUpdate}
      /\ JobsAwaited(core, jobs, disk) /\ FollowsOwner(core, asked)
  BY DEF IInv, Consistent
<1>3. /\ core' = r.core /\ jobs' = <<>> \o r.actions
      /\ disk' = disk /\ asked' = asked /\ job.answer # "none"
  BY <1>1, <1>2, RemoveOnly DEF Handle
<1>s. SUFFICES Consistent(r.core, r.actions, disk, asked)
  BY <1>3 DEF IInv, Consistent
<1> HIDE DEF r, job
<1>4. CASE core.state = "OpeningStorage"
  <2>1. r = StorageOpened(core, job.answer = "ok")
    BY <1>1, <1>2, <1>4 DEF r, job, JobsAwaited, HandleAnswer
  <2>2. CASE job.answer = "ok"
    <3> DEFINE read == NewJob("ReadMamRequestMode", "Absent")
    <3>1. r.core = [core EXCEPT !.state = "ReadingMamPreference"]
          /\ r.actions = <<read>>
      BY <1>4, <2>1, <2>2 DEF StorageOpened, Result
    <3>2. read \in Job /\ read.op = "ReadMamRequestMode"
          /\ read.answer = "none"
      BY DEF NewJob, Job, Operations, Stored
    <3>3. r.core \in Core /\ r.core.state = "ReadingMamPreference"
          /\ r.core.early = core.early
      BY <1>2, <3>1 DEF Core, States
    <3> HIDE DEF read
    <3>4. JobsAwaited(r.core, r.actions, disk)
      BY <3>1, <3>2, <3>3 DEF JobsAwaited
    <3>5. FollowsOwner(r.core, asked)
      BY <1>2, <1>4, <3>3 DEF FollowsOwner
    <3> QED
      BY <1>2, <3>1, <3>2, <3>3, <3>4, <3>5 DEF Consistent
  <2>3. CASE job.answer # "ok"
    <3>1. r.core = [core EXCEPT !.state = "Failed"] /\ r.actions = <<>>
      BY <1>4, <2>1, <2>3 DEF StorageOpened, Result
    <3>2. r.core \in Core /\ r.core.state = "Failed"
      BY <1>2, <3>1 DEF Core, States
    <3> QED
      BY <1>2, <3>1, <3>2 DEF Consistent, JobsAwaited, FollowsOwner
  <2> QED
    BY <2>2, <2>3
<1>5. CASE core.state = "ReadingMamPreference"
  <2>0. job.op = "ReadMamRequestMode" /\ (job.answer = "ok" => job.mode = disk)
    BY <1>1, <1>2, <1>5 DEF job, JobsAwaited
  <2>1. CASE job.answer # "ok"
    <3>1. r.core = [core EXCEPT !.state = "Failed"] /\ r.actions = <<>>
      BY <1>5, <2>0, <2>1 DEF r, HandleAnswer, ReadFailed, Result
    <3>2. r.core \in Core /\ r.core.state = "Failed"
      BY <1>2, <3>1 DEF Core, States
    <3> QED
      BY <1>2, <3>1, <3>2 DEF Consistent, JobsAwaited, FollowsOwner
  <2>2. CASE job.answer = "ok"
    <3> DEFINE ready == [core EXCEPT !.state = "Ready", !.early = NoUpdate,
                             !.saved = disk, !.requested = Mode(disk),
                             !.effective = IF core.early # NoUpdate
                                           THEN "Paused" ELSE Mode(disk),
                             !.persistence = "Idle", !.pending = NoUpdate]
    <3>1. r = Loaded(core, disk)
      BY <2>0, <2>2 DEF r, HandleAnswer
    <3>2. /\ ready \in Core /\ ready.state = "Ready" /\ ready.saved = disk
          /\ ready.persistence = "Idle" /\ ready.requested = Mode(disk)
          /\ ready.effective = IF core.early # NoUpdate
                               THEN "Paused" ELSE Mode(disk)
      <4> DEFINE m == Mode(disk)
                 e == IF core.early # NoUpdate THEN "Paused" ELSE m
      <4>1. m \in Modes /\ e \in Modes
        BY <1>2 DEF Mode, Stored, Modes
      <4> HIDE DEF m, e
      <4>2. ready = [core EXCEPT !.state = "Ready", !.early = NoUpdate,
                         !.saved = disk, !.requested = m, !.effective = e,
                         !.persistence = "Idle", !.pending = NoUpdate]
        BY DEF m, e
      <4> HIDE DEF ready
      <4>3. /\ ready \in Core /\ ready.state = "Ready" /\ ready.saved = disk
            /\ ready.persistence = "Idle" /\ ready.requested = m
            /\ ready.effective = e
        BY <1>2, <4>1, <4>2 DEF Core, States, Updates, Stored
      <4> QED
        BY <4>3 DEF m, e
    <3>3. core.early = asked
      BY <1>2, <1>5 DEF FollowsOwner
    <3>4. CASE core.early = NoUpdate
      <4>1. r.core = ready /\ r.actions = <<>>
        BY <1>5, <3>1, <3>4 DEF Loaded, Result
      <4> HIDE DEF ready
      <4> QED
        BY <1>2, <3>2, <3>3, <3>4, <4>1
        DEF Consistent, JobsAwaited, FollowsOwner, Mode, Stored, Modes
    <3>5. CASE core.early # NoUpdate
      <4>1. r = UpdatePreference(ready, core.early)
        BY <1>5, <3>1, <3>5 DEF Loaded
      <4>2. core.early \in Updates
        BY <1>2, <3>5 DEF Core
      <4> HIDE DEF ready
      <4> QED
        BY <1>2, <3>2, <3>3, <3>5, <4>1, <4>2, UpdateConsistent
    <3> QED
      BY <3>4, <3>5
  <2> QED
    BY <2>1, <2>2
<1>6. CASE core.state = "Ready"
  <2> DEFINE success == job.answer = "ok"
             pending == core.pending
             done == [core EXCEPT
                        !.saved = IF success THEN pending ELSE core.saved,
                        !.persistence = IF success THEN "Idle" ELSE "Failed",
                        !.effective = IF success /\ pending = core.requested
                                      THEN Mode(pending) ELSE "Paused",
                        !.pending = NoUpdate]
  <2>1. /\ core.persistence = "Pending" /\ pending \in Updates
        /\ job.op = Persist(pending).op
        /\ disk = IF success THEN pending ELSE core.saved
    BY <1>1, <1>2, <1>6 DEF job, JobsAwaited
  <2>2. r = Complete(core, job.op, success)
    BY <2>1 DEF r, HandleAnswer, Persist, NewJob
  <2>3. /\ done \in Core /\ done.state = "Ready" /\ done.saved = disk
        /\ done.persistence = IF success THEN "Idle" ELSE "Failed"
        /\ done.effective = IF success /\ pending = core.requested
                            THEN Mode(pending) ELSE "Paused"
        /\ done.requested = core.requested
    <3> DEFINE p == IF success THEN "Idle" ELSE "Failed"
               e == IF success /\ pending = core.requested
                    THEN Mode(pending) ELSE "Paused"
    <3>1. p \in {"Idle", "Failed"} /\ e \in Modes
      BY <2>1 DEF Mode, Updates, Stored, Modes
    <3> HIDE DEF p, e
    <3>2. done = [core EXCEPT !.saved = disk, !.persistence = p,
                              !.effective = e, !.pending = NoUpdate]
      BY <2>1 DEF p, e
    <3> HIDE DEF done
    <3>3. /\ done \in Core /\ done.state = "Ready" /\ done.saved = disk
          /\ done.persistence = p /\ done.effective = e
          /\ done.requested = core.requested
      BY <1>2, <1>6, <3>1, <3>2 DEF Core
    <3> QED
      BY <3>3 DEF p, e
  <2>4. asked # NoUpdate => core.requested = asked
    BY <1>2, <1>6 DEF FollowsOwner
  <2>5. CASE pending = core.requested
    <3>1. r.core = done /\ r.actions = <<>>
      BY <1>6, <2>1, <2>2, <2>5 DEF Complete, Result
    <3> HIDE DEF done, success
    <3> QED
      BY <1>2, <2>1, <2>3, <2>4, <2>5, <3>1
      DEF Consistent, JobsAwaited, FollowsOwner, Mode, Stored, Modes
  <2>6. CASE pending # core.requested
    <3>1. r = UpdatePreference(done, core.requested)
      BY <1>6, <2>1, <2>2, <2>6 DEF Complete
    <3>2. core.requested \in Updates /\ asked \in {NoUpdate, core.requested}
      BY <1>2, <2>4 DEF Core
    <3>3. done.effective = "Paused" /\ done.persistence # "Pending"
      BY <2>3, <2>6
    <3> HIDE DEF done, success
    <3> QED
      BY <1>2, <2>3, <3>1, <3>2, <3>3, UpdateConsistent
  <2> QED
    BY <2>5, <2>6
<1> QED
  BY <1>1, <1>4, <1>5, <1>6

(* A crash, which loses the core and every job, keeps the invariant.       *)
LEMMA CrashStep == IInv /\ Crash => IInv'
<1> SUFFICES ASSUME IInv, Crash PROVE IInv'
  OBVIOUS
<1>1. core' = NewCore /\ jobs' = <<>> /\ asked' = NoUpdate
  BY DEF Crash
<1>2. disk' \in Stored
  <2>1. disk \in Stored /\ \A k \in DOMAIN jobs : jobs[k].mode \in Stored
    <3>1. disk \in Stored /\ jobs \in Seq(Job)
      BY DEF IInv, Consistent
    <3>2. \A k \in DOMAIN jobs : jobs[k] \in Job
      BY <3>1
    <3> QED
      BY <3>1, <3>2 DEF Job
  <2>2. disk' = disk \/ \E k \in DOMAIN jobs : disk' = jobs[k].mode
    BY DEF Crash
  <2> QED
    BY <2>1, <2>2
<1>3. NewCore \in Core /\ NewCore.state = "NotStarted"
  BY DEF NewCore, Core, States, Updates, Stored, Modes
<1> QED
  BY <1>1, <1>2, <1>3 DEF IInv, Consistent, JobsAwaited, FollowsOwner

(* Every step keeps the inductive invariant.                               *)
THEOREM NextConsistent == IInv /\ [Next]_vars => IInv'
<1> SUFFICES ASSUME IInv, [Next]_vars PROVE IInv'
  OBVIOUS
<1>1. CASE UNCHANGED vars
  BY <1>1 DEF vars, IInv
<1>2. CASE Next
  BY <1>2, StartStep, AskStep, PerformStep, HandleStep, CrashStep DEF Next
<1> QED
  BY <1>1, <1>2

(* IInv is an invariant of the preference protocol with any interleaving   *)
(* of requests, answers and crashes.                                       *)
THEOREM Invariance == Spec => []IInv
BY InitConsistent, NextConsistent, PTL DEF Spec

(* The core's preference, its outstanding operation and the stored value   *)
(* keep their types.                                                       *)
THEOREM TypeCorrect == Spec => []TypeOK
<1>1. IInv => TypeOK
  BY DEF IInv, Consistent, TypeOK
<1> QED
  BY <1>1, Invariance, PTL

(* MAM requests are allowed only on an Enabled that SQLite has committed.  *)
THEOREM RunningSaved == Spec => []RunningIsSaved
<1>1. IInv => RunningIsSaved
  BY DEF IInv, Consistent, JobsAwaited, FollowsOwner, RunningIsSaved,
         Running, Core, Stored, Modes, Mode
<1> QED
  BY <1>1, Invariance, PTL

(* No late storage answer re-enables requests after the owner paused.      *)
THEOREM RunningAsked == Spec => []RunningIsAsked
<1>1. IInv => RunningIsAsked
  BY DEF IInv, Consistent, FollowsOwner, RunningIsAsked, Running, Core,
         Mode, Updates, Stored, Modes
<1> QED
  BY <1>1, Invariance, PTL

(* A pause the dashboard shows as saved survives a restart.                *)
THEOREM PausedSurvives == Spec => []PausedSurvivesRestart
<1>1. IInv => PausedSurvivesRestart
  <2> SUFFICES ASSUME IInv, Status = "Paused" PROVE disk # "Enabled"
    BY DEF PausedSurvivesRestart
  <2>1. core \in Core /\ JobsAwaited(core, jobs, disk)
        /\ FollowsOwner(core, asked)
    BY DEF IInv, Consistent
  <2>2. core.state = "Ready" /\ core.persistence = "Idle"
        /\ core.effective = "Paused"
    BY <2>1 DEF Status, Core, States, Modes
  <2> QED
    BY <2>1, <2>2 DEF JobsAwaited, FollowsOwner, Mode
<1> QED
  BY <1>1, Invariance, PTL

(* One storage operation is outstanding at a time, and "saved" is what the *)
(* database holds whenever none is.                                        *)
THEOREM OneOperation == Spec => []SavedIsStored
<1>1. IInv => SavedIsStored
  <2> SUFFICES ASSUME IInv PROVE SavedIsStored
    OBVIOUS
  <2>1. core \in Core /\ jobs \in Seq(Job) /\ JobsAwaited(core, jobs, disk)
    BY DEF IInv, Consistent
  <2>2. jobs = <<>> \/ Len(jobs) = 1
    BY <2>1 DEF JobsAwaited, Core, States
  <2>3. core.state = "Ready" /\ jobs = <<>> => core.saved = disk
    BY <2>1 DEF JobsAwaited
  <2>4. Len(jobs) <= 1
    <3>1. CASE jobs = <<>>
      BY <3>1
    <3>2. CASE Len(jobs) = 1
      BY <3>2
    <3> QED
      BY <2>2, <3>1, <3>2
  <2> QED
    BY <2>3, <2>4 DEF SavedIsStored
<1> QED
  BY <1>1, Invariance, PTL

=============================================================================
