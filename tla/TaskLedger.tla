----------------------------- MODULE TaskLedger -----------------------------
(***************************************************************************)
(* The durable task ledger of the extension host                           *)
(* (modules/extension/taskledger.go): tasks of one list that agents claim, *)
(* update and report, kept in memory, in an append-only journal whose      *)
(* lines hold the whole state, and in a snapshot that is replaced after    *)
(* every journal line.  The process may crash between any two steps of a   *)
(* commit, a write may fail or be cut short, and Open rebuilds the state.  *)
(*                                                                         *)
(* The mutex is held from a mutation to the end of its commit, so `stage`  *)
(* is the program counter of the one goroutine inside.                     *)
(* A journal line is the state it holds, its sequence number included.     *)
(* Replay keeps the line with the highest, so the newest whole line stands *)
(* for all of them.                                                        *)
(***************************************************************************)
EXTENDS Integers, Sequences, FiniteSets

CONSTANTS
  Task,       \* tasks of the list
  DependsOn,  \* the dependencies each task is created with
  Faults,     \* what may go wrong in an instance
  MaxCalls,   \* bound on the calls under way, notifying included
  MaxId       \* bound on the opaque event and attempt IDs drawn

ASSUME DependsAssumption == DependsOn \in [Task -> SUBSET Task]
ASSUME FaultAssumption   == Faults \subseteq {"crash", "tear", "full", "ids"}
ASSUME BoundAssumption   == MaxId \in Nat /\ MaxCalls \in Nat

\* Definitions marked "Mutant" are faulty variants of the definition that
\* follows them; no specification uses them.  See the README.

Statuses == {"absent", "pending", "in_progress", "completed", "failed"}
Outcomes == {"completed", "failed"}  \* failed: also blocked and cancelled

VARIABLES
  mem,      \* lists, tasks, events and sequence number of the open ledger
  journal,  \* the newest whole line of tasks.jsonl
  tail,     \* what follows the last newline of tasks.jsonl, see Clean
  glued,    \* a line of tasks.jsonl is two writes run together
  snapshot, \* tasks.snapshot.json
  up,       \* "open", "closed" (Close was called), "down" or "broken"
  stage,    \* how far the mutation inside the mutex is
  drawn,    \* opaque IDs drawn so far
  owed,     \* committed events whose callers have still to notify
  acked     \* events of the mutations that returned no error, and where

disk == <<journal, tail, glued, snapshot>>
vars == <<mem, disk, up, stage, drawn, owed, acked>>

NoTask == [status |-> "absent", attempt |-> 0, version |-> 0, rev |-> 0]
Empty  == [list |-> FALSE, task |-> [t \in Task |-> NoTask], events |-> <<>>,
           sequence |-> 0]

\* The unfinished last line: none, cut short, or whole but for its newline.
Clean   == [cut |-> "none", state |-> Empty]
Torn    == [cut |-> "torn", state |-> Empty]
Bare(s) == [cut |-> "bare", state |-> s]

\* An event, with the version its mutation gave the task.
Event(id, op, t, v) == [id |-> id, op |-> op, task |-> t, version |-> v]

Init ==
  /\ mem = Empty /\ journal = Empty /\ tail = Clean /\ glued = FALSE
  /\ snapshot = Empty
  /\ up = "open" /\ stage = "free"
  /\ drawn = 0 /\ owed = {} /\ acked = {}

-----------------------------------------------------------------------------
(* Mutations: the change in memory, made with the mutex held.              *)

Running == up \in {"open", "closed"}

\* The mutex is free, and the bounds allow another mutation.
CanEnter ==
  Running /\ stage = "free" /\ Cardinality(owed) < MaxCalls /\ drawn < MaxId

\* Mutant: the event is not appended.
EnterWithoutEvent(list, task, e) ==
  /\ mem' = [mem EXCEPT !.list = list, !.task = task, !.sequence = @ + 1]
  /\ drawn' = e.id
  /\ stage' = "journal"
  /\ UNCHANGED <<disk, up, owed, acked>>

\* A mutation leaves the new lists and tasks in memory, with event e appended,
\* and goes on to commit them.
Enter(list, task, e) ==
  /\ mem' = [list |-> list, task |-> task, events |-> Append(mem.events, e),
             sequence |-> mem.sequence + 1]
  /\ drawn' = e.id
  /\ stage' = "journal"
  /\ UNCHANGED <<disk, up, owed, acked>>

\* The event ID of Claim, UpdateCAS and Report is drawn once the mutation is
\* in memory: when that fails, they return the error and neither append an
\* event nor commit.
NoEventID(task) ==
  /\ "ids" \in Faults
  /\ mem' = [mem EXCEPT !.task = task, !.sequence = @ + 1]
  /\ drawn' = drawn + 1
  /\ UNCHANGED <<disk, up, stage, owed, acked>>

Change(t, rec, op) ==
  LET task == [mem.task EXCEPT ![t] = rec]
  IN \/ Enter(mem.list, task, Event(drawn + 1, op, t, rec.version))
     \/ NoEventID(task)

\* mutate refuses on a closed ledger; Claim, UpdateCAS and Report do not look.
CreateList ==
  /\ CanEnter /\ up = "open"
  /\ ~mem.list
  /\ Enter(TRUE, mem.task, Event(drawn + 1, "list_created", 0, 0))

\* The list is looked up in a critical section of its own; lists never go away.
CreateTask(t) ==
  /\ CanEnter /\ up = "open"
  /\ mem.list /\ mem.task[t].status = "absent"
  /\ LET new == [status |-> "pending", attempt |-> 0, version |-> 1,
                 rev |-> drawn + 1]
     IN Enter(mem.list, [mem.task EXCEPT ![t] = new],
              Event(drawn + 1, "task_created", t, 1))

Claimed(t) == [status |-> "in_progress", attempt |-> drawn + 1,
               version |-> mem.task[t].version + 1, rev |-> drawn + 1]

\* Mutant: the status of the task is not checked.
ClaimAnyStatus(t) ==
  /\ CanEnter
  /\ mem.task[t].status # "absent"
  /\ \A d \in DependsOn[t] : mem.task[d].status = "completed"
  /\ Change(t, Claimed(t), "task_claimed")

\* Mutant: a dependency that failed is taken for one that is done.
ClaimAfterFailure(t) ==
  /\ CanEnter
  /\ mem.task[t].status = "pending"
  /\ \A d \in DependsOn[t] : mem.task[d].status \in Outcomes
  /\ Change(t, Claimed(t), "task_claimed")

\* Claim draws a new attempt for a pending task whose dependencies completed.
Claim(t) ==
  /\ CanEnter
  /\ mem.task[t].status = "pending"
  /\ \A d \in DependsOn[t] : mem.task[d].status = "completed"
  /\ Change(t, Claimed(t), "task_claimed")

\* Mutant: the version is not bumped.
UpdateKeepsVersion(t) ==
  /\ CanEnter
  /\ mem.task[t].status # "absent"
  /\ Change(t, [mem.task[t] EXCEPT !.rev = drawn + 1], "task_updated")

\* UpdateCAS with the current version as expected version; with any other it
\* is refused.  The status of the task does not matter.
Update(t) ==
  /\ CanEnter
  /\ mem.task[t].status # "absent"
  /\ Change(t, [mem.task[t] EXCEPT !.version = @ + 1, !.rev = drawn + 1],
            "task_updated")

\* Report of an outcome with the attempt of the current claim; with any other
\* it is refused.
Report(t, outcome) ==
  /\ CanEnter
  /\ mem.task[t].status = "in_progress"
  /\ Change(t, [mem.task[t] EXCEPT !.status = outcome, !.version = @ + 1,
                                   !.rev = drawn + 1],
            "task_reported")

-----------------------------------------------------------------------------
(* commitLocked, and what can go wrong in it.                              *)

LastEvent == mem.events[Len(mem.events)]

\* What replay keeps of a state s and a line with state r: the higher sequence
\* number, and s when they are equal.
Later(s, r) == IF r.sequence > s.sequence THEN r ELSE s

\* Leave the mutex with an error: memory keeps the mutation.
Refuse ==
  /\ stage' = "free"
  /\ UNCHANGED <<mem, up, drawn, owed, acked>>

\* tasks.jsonl after a whole line, newline included, was appended: behind an
\* unfinished line the two run together.
AppendLine ==
  /\ journal' = IF tail = Clean THEN Later(journal, mem) ELSE journal
  /\ glued' = (glued \/ tail # Clean)
  /\ tail' = Clean
  /\ UNCHANGED snapshot

\* tasks.jsonl after only a part of the line was appended.
CutLine ==
  /\ "tear" \in Faults
  /\ \/ tail' = Torn
     \/ tail = Clean /\ tail' = Bare(mem)
  /\ UNCHANGED <<journal, glued, snapshot>>

WriteLine ==
  /\ stage = "journal" /\ up = "open"
  /\ AppendLine
  /\ stage' = "snapshot"
  /\ UNCHANGED <<mem, up, drawn, owed, acked>>

\* Mutant: the error of the write is dropped.
WriteFailsSilently ==
  /\ stage = "journal"
  /\ up = "closed" \/ "full" \in Faults
  /\ acked' = acked \cup {[event |-> LastEvent, at |-> Len(mem.events)]}
  /\ stage' = "free"
  /\ UNCHANGED <<mem, disk, up, drawn, owed>>

\* Mutant: the waiting agents are notified although the commit failed.
WriteFailsNotified ==
  /\ stage = "journal"
  /\ up = "closed" \/ "full" \in Faults
  /\ owed' = owed \cup {LastEvent.id}
  /\ stage' = "free"
  /\ UNCHANGED <<mem, disk, up, drawn, acked>>

\* The write or the flush fails, as the write always does once Close has
\* closed the file.
WriteFails ==
  /\ stage = "journal"
  /\ \/ up = "closed" /\ UNCHANGED disk
     \/ "full" \in Faults /\ up = "open"
        /\ (UNCHANGED disk \/ CutLine \/ AppendLine)
  /\ Refuse

\* The snapshot is renamed into place: the mutation returns no error, and its
\* caller leaves the mutex to notify.
SaveSnapshot ==
  /\ stage = "snapshot"
  /\ snapshot' = mem
  /\ acked' = acked \cup {[event |-> LastEvent, at |-> Len(mem.events)]}
  /\ owed' = owed \cup {LastEvent.id}
  /\ stage' = "free"
  /\ UNCHANGED <<mem, journal, tail, glued, up, drawn>>

SnapshotFails ==
  /\ "full" \in Faults /\ stage = "snapshot"
  /\ UNCHANGED disk
  /\ Refuse

\* The notification goes out after the mutex is released.
Notify ==
  /\ Running
  /\ \E id \in owed : owed' = owed \ {id}
  /\ UNCHANGED <<mem, disk, up, stage, drawn, acked>>

\* Close of the ledger when the host shuts down.
Close ==
  /\ up = "open" /\ stage = "free"
  /\ up' = "closed"
  /\ UNCHANGED <<mem, disk, stage, drawn, owed, acked>>

-----------------------------------------------------------------------------
(* Crash and recovery.                                                     *)

\* What a crash leaves on disk, wherever the commit was.
DiskAtCrash ==
  \/ UNCHANGED disk
  \/ stage = "journal" /\ up = "open" /\ (AppendLine \/ CutLine)
  \/ stage = "snapshot" /\ snapshot' = mem /\ UNCHANGED <<journal, tail, glued>>

Crash ==
  /\ Running
  /\ IF "crash" \in Faults THEN DiskAtCrash
     ELSE up = "closed" /\ stage = "free" /\ UNCHANGED disk
  /\ up' = "down" /\ mem' = Empty
  /\ stage' = "free"
  /\ owed' = {}
  /\ UNCHANGED <<drawn, acked>>

\* Replay goes on from the snapshot, and reads a last line without newline.
Recovered ==
  LET whole == Later(snapshot, journal)
  IN IF tail.cut = "bare" THEN Later(whole, tail.state) ELSE whole

\* An unreadable last line ends the replay; any other is reported as
\* corruption, and the ledger does not open.
Open ==
  /\ up = "down"
  /\ IF glued THEN up' = "broken" /\ UNCHANGED mem
     ELSE up' = "open" /\ mem' = Recovered
  /\ UNCHANGED <<disk, stage, drawn, owed, acked>>

-----------------------------------------------------------------------------
Call ==
  \/ CreateList
  \/ \E t \in Task :
       \/ CreateTask(t) \/ Claim(t) \/ Update(t)
       \/ \E outcome \in Outcomes : Report(t, outcome)
  \/ Notify

Commit == WriteLine \/ WriteFails \/ SaveSnapshot \/ SnapshotFails

Next == Call \/ Commit \/ Close \/ Crash \/ Open

Spec == Init /\ [][Next]_vars

-----------------------------------------------------------------------------
(* Properties.                                                             *)

TaskRec == [status : Statuses, attempt : Nat, version : Nat, rev : Nat]

\* The type invariant: the state of a list is well formed in memory, and the
\* mutex is held exactly while a commit is under way.
TypeOK ==
  /\ mem.list \in BOOLEAN /\ mem.task \in [Task -> TaskRec]
  /\ tail.cut \in {"none", "torn", "bare"} /\ glued \in BOOLEAN
  /\ up \in {"open", "closed", "down", "broken"}
  /\ stage \in {"free", "journal", "snapshot"}
  /\ drawn \in Nat /\ owed \subseteq 1 .. drawn
  /\ stage # "free" => mem.events # <<>> /\ Running

Holds(s, x) == x.at <= Len(s.events) /\ s.events[x.at] = x.event

\* A mutation that returned no error is never lost or moved: whatever crashes
\* or fails later, memory and every ledger that opens hold its event at the
\* position readers' cursors refer to.
Durable ==
  \A x \in acked :
    /\ Running => Holds(mem, x)
    /\ ~glued => Holds(Recovered, x)

\* "Claims atomically assign an opaque attempt ID, reports require that
\* attempt": over all crashes and restarts, a task is successfully claimed
\* once and successfully reported once.
OncePerTask ==
  \A x, y \in acked :
    x.event.op = y.event.op /\ x.event.task = y.event.task
      /\ x.event.op \in {"task_claimed", "task_reported"}
    => x = y

\* A task is worked on, or finished, only if its dependencies completed.
DependenciesMet ==
  \A t \in Task :
    mem.task[t].status \in {"in_progress", "completed", "failed"}
      => \A d \in DependsOn[t] : mem.task[d].status = "completed"

\* A version names one content: over all crashes and restarts, no two
\* mutations of a task return the same version, so that an expected version
\* read from an acknowledged record matches that record only.
VersionOnce ==
  \A x, y \in acked :
    x.event.task = y.event.task /\ x.event.version = y.event.version => x = y

\* "Notifications happen after commit": an agent is about to be told only of
\* an event that a restart would find.
NotifiedCommitted ==
  ~glued => \A id \in owed :
    \E i \in DOMAIN Recovered.events : Recovered.events[i].id = id

-----------------------------------------------------------------------------
(* A claim of the sources that the code does not keep (see the README).    *)

\* "An incomplete final line is recoverable" (SPECS.md): the ledger opens
\* after every crash.
Recoverable == up # "broken"

=============================================================================
