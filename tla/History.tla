------------------------------ MODULE History -------------------------------
(***************************************************************************)
(* History: what the core knows of it (core/history.rs), the single writer *)
(* that records every handled event (shell/history.rs) and the two         *)
(* channels between them: commands to the writer, and events from it in    *)
(* the runner's queue.  An entry is known by the step it records.  The     *)
(* step counter is not reset by a restart here; only differences within    *)
(* one process are used.                                                   *)
(***************************************************************************)
EXTENDS Integers, FiniteSets, Sequences, SequencesExt

CONSTANTS
    MaxSteps,      \* bound on the events handled
    BufferLimit,   \* BUFFER_LIMIT
    Limits         \* the history limits the owner may set

VARIABLES
    history,    \* the core's HistoryState
    step,       \* the core's step
    limit,      \* the loaded settings' history limit
    commands,   \* the writer's channel
    store,      \* the writer's Store
    buffer,     \* its entries waiting for Open
    lost,       \* its count of lost entries not reported yet
    stored,     \* the history table, oldest first
    queue,      \* the writer's events in the runner's queue
    losses      \* history variable: entries lost in this process

vars == <<history, step, limit, commands, store, buffer, lost, stored, queue,
          losses>>

NoLimit == 0
Steps == 0..MaxSteps

HistoryState ==
    [phase : {"Closed", "Opening", "Open", "Unavailable"},
     retained : Nat,
     trim : {"Idle", "Pending", "Failed"},
     requested : Steps]   \* the step of Opening or of Trim::Pending

Closed == [phase |-> "Closed", retained |-> 0, trim |-> "Idle",
           requested |-> 0]

Command == [op : {"Record", "Open", "Trim"}, step : Steps, keep : Nat]
Record(s) == [op |-> "Record", step |-> s, keep |-> 0]
OpenHistory == [op |-> "Open", step |-> 0, keep |-> 0]
TrimHistory(keep) == [op |-> "Trim", step |-> 0, keep |-> keep]

(* A HistoryEvent with its count of entries.                               *)
Event == [kind : {"Opened", "OpenFailed", "Trimmed", "TrimFailed",
                  "EntriesLost"}, count : Nat]
NewEvent(kind, count) == [kind |-> kind, count |-> count]

-----------------------------------------------------------------------------
(* HistoryLimit::trim_target.                                              *)
TrimTarget(l) == (l * 9) \div 10

(* EntryCount::minus.                                                      *)
Minus(a, b) == IF a >= b THEN a - b ELSE 0

(* Mutant: the step itself is counted twice.                               *)
StrictlyAfterInclusive(s, earlier) == Minus(s, earlier)

(* Step::strictly_after.                                                   *)
StrictlyAfter(s, earlier) == Minus(Minus(s, earlier), 1)

(* HistoryState::handle.                                                   *)
HandleEvent(h, s, event) ==
    CASE \/ h.phase = "Opening" /\ event.kind = "Opened"
         \/ /\ h.phase = "Open" /\ h.trim = "Pending"
            /\ event.kind = "Trimmed" ->
            [phase |-> "Open", trim |-> "Idle", requested |-> 0,
             retained |-> event.count + StrictlyAfter(s, h.requested)]
      [] h.phase = "Opening" /\ event.kind = "OpenFailed" ->
            [h EXCEPT !.phase = "Unavailable", !.requested = 0]
      [] /\ h.phase = "Open" /\ h.trim = "Pending"
         /\ event.kind = "TrimFailed" ->
            [h EXCEPT !.trim = "Failed", !.requested = 0]
      [] h.phase = "Open" /\ event.kind = "EntriesLost" ->
            [h EXCEPT !.retained = Minus(@, event.count)]
      [] OTHER -> h

(* HistoryState::after_step: the new state and the actions.                *)
AfterStep(h, s, l) ==
    LET counted == [h EXCEPT !.retained = @ + 1]
    IN  IF h.phase # "Open" THEN <<h, <<>>>>
        ELSE IF l # NoLimit /\ h.trim = "Idle" /\ counted.retained > l
        THEN <<[counted EXCEPT !.trim = "Pending", !.requested = s],
               <<TrimHistory(TrimTarget(l))>>>>
        ELSE <<counted, <<>>>>

(* One step of the runner: Core::handle, then the step's entry and its     *)
(* actions go to the writer, in that order.                                *)
RunnerStep(h, l, actions) ==
    LET after == AfterStep(h, step', l)
    IN  /\ step < MaxSteps
        /\ step' = step + 1
        /\ limit' = l
        /\ history' = after[1]
        /\ commands' = commands \o <<Record(step')>> \o actions \o after[2]
        /\ UNCHANGED <<store, buffer, lost, stored, losses>>

-----------------------------------------------------------------------------
(* The writer's record: what an insert that succeeds or fails makes of the *)
(* losses, the table and the events sent.                                  *)
RecordEntry(w, s, ok) ==
    IF ~ok THEN [w EXCEPT !.lost = @ + 1]
    ELSE [lost |-> 0,
          stored |-> Append(w.stored, s),
          events |-> IF w.lost = 0 THEN w.events
                     ELSE Append(w.events, NewEvent("EntriesLost", w.lost))]

Writer == [lost |-> lost, stored |-> stored, events |-> <<>>]

(* The writer's trim: all but the newest are deleted.                      *)
Newest(entries, keep) ==
    IF Len(entries) <= keep THEN entries
    ELSE SubSeq(entries, Len(entries) - keep + 1, Len(entries))

(* Command::Record.                                                        *)
WriteRecord(s) ==
    \/ /\ store = "Open"
       /\ \E ok \in BOOLEAN :
             LET w == RecordEntry(Writer, s, ok)
             IN  /\ lost' = w.lost
                 /\ stored' = w.stored
                 /\ queue' = queue \o w.events
                 /\ losses' = IF ok THEN losses ELSE losses + 1
       /\ UNCHANGED <<store, buffer>>
    \/ /\ store = "Buffering" /\ Len(buffer) < BufferLimit
       /\ buffer' = Append(buffer, s)
       /\ UNCHANGED <<store, lost, stored, queue, losses>>
    \/ /\ \/ store = "Unavailable"
          \/ store = "Buffering" /\ Len(buffer) >= BufferLimit
       /\ lost' = lost + 1
       /\ losses' = losses + 1
       /\ UNCHANGED <<store, buffer, stored, queue>>

(* Command::Open: the buffer is written, then the table is counted.        *)
WriteOpen ==
    /\ \/ \E oks \in [DOMAIN buffer -> BOOLEAN], counted \in BOOLEAN :
             LET step1(w, k) == RecordEntry(w, buffer[k], oks[k])
                 w == FoldLeft(step1, Writer, [k \in DOMAIN buffer |-> k])
                 event == IF counted THEN NewEvent("Opened", Len(w.stored))
                          ELSE NewEvent("OpenFailed", 0)
             IN  /\ lost' = w.lost
                 /\ stored' = w.stored
                 /\ queue' = Append(queue \o w.events, event)
                 /\ losses' = losses
                        + Cardinality({k \in DOMAIN buffer : ~oks[k]})
                 /\ buffer' = <<>>
                 /\ store' = IF counted THEN "Open" ELSE "Unavailable"
       \/ /\ store' = "Unavailable"
          /\ queue' = Append(queue, NewEvent("OpenFailed", 0))
          /\ UNCHANGED <<buffer, lost, stored, losses>>

(* Command::Trim; when only the count fails, the entries are gone.         *)
WriteTrim(keep) ==
    /\ \/ /\ store = "Open"
          /\ stored' = Newest(stored, keep)
          /\ queue' = Append(queue, NewEvent("Trimmed", Len(stored')))
       \/ /\ stored' \in {stored, IF store = "Open" THEN Newest(stored, keep)
                                  ELSE stored}
          /\ queue' = Append(queue, NewEvent("TrimFailed", 0))
    /\ UNCHANGED <<store, buffer, lost, losses>>

-----------------------------------------------------------------------------
Init ==
    /\ history = Closed
    /\ step = 0
    /\ limit = NoLimit
    /\ commands = <<>>
    /\ store = "Buffering"
    /\ buffer = <<>>
    /\ lost = 0
    /\ stored = <<>>
    /\ queue = <<>>
    /\ losses = 0

(* Startup's StorageOpened: Core::handle_startup opens history.            *)
StorageOpened ==
    /\ history.phase = "Closed"
    /\ RunnerStep([history EXCEPT !.phase = "Opening", !.requested = step + 1],
                  limit, <<OpenHistory>>)
    /\ UNCHANGED queue

(* An event that is not history's; settings are read or changed by some.   *)
OtherEvent ==
    /\ \E l \in Limits \cup {limit} : RunnerStep(history, l, <<>>)
    /\ UNCHANGED queue

HandleHistory ==
    /\ queue # <<>>
    /\ queue' = Tail(queue)
    /\ RunnerStep(HandleEvent(history, step + 1, Head(queue)), limit, <<>>)

(* The writer's loop takes the next command.                               *)
Write ==
    /\ commands # <<>>
    /\ commands' = Tail(commands)
    /\ LET command == Head(commands)
       IN  \/ command.op = "Record" /\ WriteRecord(command.step)
           \/ command.op = "Open" /\ WriteOpen
           \/ command.op = "Trim" /\ WriteTrim(command.keep)
    /\ UNCHANGED <<history, step, limit>>

(* The process or the machine dies: with synchronous = NORMAL a power loss *)
(* may drop the newest entries.                                            *)
Crash ==
    /\ history' = Closed
    /\ limit' = NoLimit
    /\ commands' = <<>>
    /\ store' = "Buffering"
    /\ buffer' = <<>>
    /\ lost' = 0
    /\ \E n \in 0..Len(stored) : stored' = SubSeq(stored, 1, n)
    /\ queue' = <<>>
    /\ losses' = 0
    /\ UNCHANGED step

Next == StorageOpened \/ OtherEvent \/ HandleHistory \/ Write \/ Crash

Spec == Init /\ [][Next]_vars

-----------------------------------------------------------------------------
(* Every variable has its type, and the writer's buffer never exceeds      *)
(* BUFFER_LIMIT while storage is slow to open (shell/history.rs).          *)
TypeOK ==
    /\ history \in HistoryState
    /\ step \in Steps
    /\ limit \in Limits \cup {NoLimit}
    /\ commands \in Seq(Command)
    /\ store \in {"Buffering", "Open", "Unavailable"}
    /\ buffer \in Seq(Steps) /\ Len(buffer) <= BufferLimit
    /\ lost \in Nat
    /\ stored \in Seq(Steps)
    /\ queue \in Seq(Event)
    /\ losses \in Nat

Recording == Cardinality({k \in DOMAIN commands : commands[k].op = "Record"})

(* The core's count is exact while no entry has been lost: it equals the   *)
(* stored entries and those on their way to the writer, however many steps *)
(* passed while history was opened or trimmed.                             *)
RetainedExact ==
    history.phase = "Open" /\ history.trim = "Idle" /\ losses = 0
        => history.retained = Len(stored) + Recording

=============================================================================
