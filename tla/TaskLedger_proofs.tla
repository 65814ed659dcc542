------------------------- MODULE TaskLedger_proofs -------------------------
(***************************************************************************)
(* Theorems about TaskLedger, for any tasks and dependencies and whatever  *)
(* may go wrong.  Every state that memory and the files hold is legal, and *)
(* what the files hold is the beginning of what memory holds; everything   *)
(* that was acknowledged is in the snapshot.                               *)
(***************************************************************************)
EXTENDS TaskLedger, TLAPS

Ops == {"list_created", "task_created", "task_claimed", "task_updated",
        "task_reported"}
EventRec == [id : Nat, op : Ops, task : Task \cup {0}, version : Nat]
State == [list : BOOLEAN, task : [Task -> TaskRec], events : Seq(EventRec),
          sequence : Nat]

\* An event of s names the list, or a version some task of s has had.
EventsKnown(s) ==
  \A i \in 1..Len(s.events) :
    LET e == s.events[i]
    IN IF e.op = "list_created" THEN e.task = 0 /\ e.version = 0 /\ s.list
       ELSE e.task \in Task /\ e.version \in 1..s.task[e.task].version

\* What the status of a task says of the events of s.
StatusTold(s) ==
  /\ \A t \in Task : s.task[t].status = "absent" => s.task[t].version = 0
  /\ \A i \in 1..Len(s.events) :
       LET e == s.events[i]
       IN /\ e.op = "task_claimed" => s.task[e.task].status \notin {"absent", "pending"}
          /\ e.op = "task_reported" => s.task[e.task].status \in Outcomes

\* No two events of s give a task the same version, and it is claimed and
\* reported once.
EventsDiffer(s) ==
  \A i, j \in 1..Len(s.events) :
    LET e == s.events[i]
        f == s.events[j]
    IN i # j /\ e.task = f.task =>
         /\ e.version # f.version
         /\ e.op \in {"task_claimed", "task_reported"} => e.op # f.op

DepsMet(s) ==
  \A t \in Task : s.task[t].status \in {"in_progress", "completed", "failed"} =>
    \A d \in DependsOn[t] : s.task[d].status = "completed"

\* A state that mutations, one after the other, may have led to.
Legal(s) ==
  s \in State /\ Len(s.events) <= s.sequence /\ EventsKnown(s) /\ StatusTold(s) /\ EventsDiffer(s) /\ DepsMet(s)

\* The events of s are the first ones of r; those of r go on only if its
\* sequence number is higher.
Begins(s, r) ==
  /\ Len(s.events) <= Len(r.events) /\ s.sequence <= r.sequence
  /\ s.sequence = r.sequence => Len(s.events) = Len(r.events)
  /\ \A i \in 1..Len(s.events) : s.events[i] = r.events[i]

IdsDrawn(s) == \A i \in 1..Len(s.events) : s.events[i].id \in 1..drawn

OnDisk == {journal, snapshot, tail.state}

LedgerTypeOK ==
  /\ tail.cut \in {"none", "torn", "bare"} /\ glued \in BOOLEAN
  /\ tail.cut # "bare" => tail.state = Empty
  /\ up \in {"open", "closed", "down", "broken"}
  /\ stage \in {"free", "journal", "snapshot"}
  /\ drawn \in Nat
  /\ acked \subseteq [event : EventRec, at : Nat \ {0}]
  /\ stage # "free" => mem.events # <<>> /\ Running

StatesLegal == \A s \in OnDisk \cup {mem} : Legal(s) /\ IdsDrawn(s)

\* Whatever memory lost, the files hold states of one history.
Ordered(s, r) == Begins(s, r) \/ Begins(r, s)

DiskBehind ==
  /\ \A s, r \in OnDisk : Ordered(s, r)
  /\ Running => \A s \in OnDisk : Begins(s, mem)
  /\ \A s \in OnDisk : Begins(s, Recovered)

AckedSaved ==
  /\ \A x \in acked : Holds(snapshot, x)
  /\ \A id \in owed : \E x \in acked : x.event.id = id

LedgerInv == LedgerTypeOK /\ StatesLegal /\ DiskBehind /\ AckedSaved

-----------------------------------------------------------------------------
(* States.                                                                 *)

\* A ledger without lists is legal.
LEMMA EmptyLegal == Legal(Empty) /\ IdsDrawn(Empty)
<1>1. Empty \in State /\ Len(Empty.events) = 0
  BY DEF Empty, State, NoTask, TaskRec, Statuses
<1>s. Empty.sequence = 0
  BY DEF Empty
<1>2. \A t \in Task : Empty.task[t] = NoTask
  BY DEF Empty
<1> QED
  BY <1>1, <1>s, <1>2
     DEF Legal, EventsKnown, StatusTold, EventsDiffer, DepsMet, IdsDrawn, NoTask

\* The status of a task before and after each operation on it.
Moves(op, before, after) ==
  \/ op = "task_created" /\ before = "absent" /\ after = "pending"
  \/ op = "task_claimed" /\ before = "pending" /\ after = "in_progress"
  \/ op = "task_updated" /\ before # "absent" /\ after = before
  \/ op = "task_reported" /\ before = "in_progress" /\ after \in Outcomes

\* A mutation of a task leads from a legal state to a legal one: it bumps the
\* version, moves the status and appends one event that says so, and a claim
\* finds every dependency completed.
LEMMA MutationLegal ==
  ASSUME NEW s, Legal(s), NEW t \in Task, NEW rec \in TaskRec, NEW id \in Nat,
         NEW op \in Ops,
         rec.version = s.task[t].version + 1,
         Moves(op, s.task[t].status, rec.status),
         op = "task_claimed" => \A d \in DependsOn[t] : s.task[d].status = "completed"
  PROVE  Legal([list |-> s.list, task |-> [s.task EXCEPT ![t] = rec],
                events |-> Append(s.events, Event(id, op, t, rec.version)),
                sequence |-> s.sequence + 1])
<1> DEFINE e == Event(id, op, t, rec.version)
           n == [list |-> s.list, task |-> [s.task EXCEPT ![t] = rec],
                 events |-> Append(s.events, e), sequence |-> s.sequence + 1]
           L == Len(s.events)
<1>1. /\ s \in State /\ s.events \in Seq(EventRec) /\ s.task \in [Task -> TaskRec]
      /\ L \in Nat /\ s.sequence \in Nat /\ L <= s.sequence
  BY DEF Legal, State
<1>2. \A u \in Task : s.task[u].version \in Nat /\ s.task[u].status \in Statuses
  BY <1>1 DEF TaskRec
<1>3. /\ e.id = id /\ e.op = op /\ e.task = t /\ e.version = rec.version
      /\ e \in EventRec
  BY DEF Event, EventRec, TaskRec
<1>4. /\ n.list = s.list /\ n.events \in Seq(EventRec) /\ Len(n.events) = L + 1
      /\ \A i \in 1..L : n.events[i] = s.events[i]
      /\ n.events[L + 1] = e
      /\ n.sequence = s.sequence + 1
  BY <1>1, <1>3
<1>5. n \in State /\ n.task[t] = rec /\ \A u \in Task \ {t} : n.task[u] = s.task[u]
  BY <1>1, <1>4 DEF State
<1>6. rec.version \in Nat /\ rec.version > s.task[t].version
  BY <1>2
<1> HIDE DEF n, e, L
<1>7. \A i \in 1..Len(n.events) : i \in 1..L \/ i = L + 1
  BY <1>1, <1>4
<1>8. \A i \in 1..L :
        /\ s.events[i] \in EventRec
        /\ s.events[i].op # "list_created" => s.events[i].task \in Task
  BY <1>1 DEF Legal, EventsKnown, L
<1>9. op # "list_created"
  BY DEF Moves
<1>10. EventsKnown(n)
  <2> SUFFICES ASSUME NEW i \in 1..Len(n.events)
               PROVE  IF n.events[i].op = "list_created"
                      THEN n.events[i].task = 0 /\ n.events[i].version = 0 /\ n.list
                      ELSE /\ n.events[i].task \in Task
                           /\ n.events[i].version \in 1..n.task[n.events[i].task].version
    BY DEF EventsKnown
  <2>1. CASE i \in 1..L
    <3>1. IF s.events[i].op = "list_created"
          THEN s.events[i].task = 0 /\ s.events[i].version = 0 /\ s.list
          ELSE /\ s.events[i].task \in Task
               /\ s.events[i].version \in 1..s.task[s.events[i].task].version
      BY <2>1 DEF Legal, EventsKnown, L
    <3>2. s.events[i].op # "list_created" =>
            n.task[s.events[i].task].version >= s.task[s.events[i].task].version
      BY <1>2, <1>5, <1>6, <3>1, SMTT(60)
    <3>3. n.events[i] = s.events[i] /\ s.events[i].version \in Nat
      BY <1>4, <1>8, <2>1 DEF EventRec
    <3>4. CASE s.events[i].op # "list_created"
      <4>1. n.task[s.events[i].task].version \in Nat
        BY <1>2, <1>5, <1>6, <3>1, <3>4
      <4> QED
        BY <1>2, <3>1, <3>2, <3>3, <3>4, <4>1
    <3> QED
      BY <1>4, <3>1, <3>3, <3>4
  <2>2. CASE i = L + 1
    BY <1>2, <1>3, <1>4, <1>5, <1>6, <1>9, <2>2
  <2> QED
    BY <1>7, <2>1, <2>2
<1>11. StatusTold(n)
  <2>1. ASSUME NEW u \in Task, n.task[u].status = "absent"
        PROVE  n.task[u].version = 0
    BY <1>5, <2>1 DEF Moves, Legal, StatusTold, Outcomes
  <2>2. ASSUME NEW i \in 1..Len(n.events)
        PROVE  /\ n.events[i].op = "task_claimed" =>
                    n.task[n.events[i].task].status \notin {"absent", "pending"}
               /\ n.events[i].op = "task_reported" =>
                    n.task[n.events[i].task].status \in Outcomes
    <3>1. CASE i \in 1..L
      <4>1. /\ s.events[i].op = "task_claimed" =>
                 s.task[s.events[i].task].status \notin {"absent", "pending"}
            /\ s.events[i].op = "task_reported" =>
                 s.task[s.events[i].task].status \in Outcomes
        BY <3>1 DEF Legal, StatusTold, L
      <4> QED
        BY <1>4, <1>5, <1>8, <3>1, <4>1, SMTT(60) DEF Moves, Outcomes
    <3>2. CASE i = L + 1
      BY <1>3, <1>4, <1>5, <3>2 DEF Moves, Outcomes
    <3> QED
      BY <1>7, <3>1, <3>2
  <2> QED
    BY <2>1, <2>2 DEF StatusTold
<1>12. EventsDiffer(n)
  <2>1. ASSUME NEW i \in 1..L, s.events[i].task = t
        PROVE  /\ s.events[i].version # rec.version
               /\ op \in {"task_claimed", "task_reported"} => s.events[i].op # op
    <3>1. s.events[i].op # "list_created" => s.events[i].version \in 1..s.task[t].version
      BY <2>1 DEF Legal, EventsKnown, L
    <3>2. s.events[i].op = "list_created" => s.events[i].version = 0
      BY <2>1 DEF Legal, EventsKnown, L
    <3>3. /\ s.events[i].op = "task_claimed" =>
               s.task[t].status \notin {"absent", "pending"}
          /\ s.events[i].op = "task_reported" => s.task[t].status \in Outcomes
      BY <2>1 DEF Legal, StatusTold, L
    <3> QED
      BY <1>2, <1>6, <3>1, <3>2, <3>3 DEF Moves, Outcomes
  <2> SUFFICES ASSUME NEW i \in 1..Len(n.events), NEW j \in 1..Len(n.events),
                      i # j, n.events[i].task = n.events[j].task
               PROVE  /\ n.events[i].version # n.events[j].version
                      /\ n.events[i].op \in {"task_claimed", "task_reported"}
                           => n.events[i].op # n.events[j].op
    BY DEF EventsDiffer
  <2>2. CASE i \in 1..L /\ j \in 1..L
    BY <1>4, <2>2, SMTT(60) DEF Legal, EventsDiffer, L
  <2>3. CASE i \in 1..L /\ j = L + 1
    BY <1>3, <1>4, <2>1, <2>3
  <2>4. CASE i = L + 1 /\ j \in 1..L
    BY <1>3, <1>4, <2>1, <2>4
  <2> QED
    BY <1>7, <2>2, <2>3, <2>4
<1>13. DepsMet(n)
  <2> SUFFICES ASSUME NEW u \in Task,
                      n.task[u].status \in {"in_progress", "completed", "failed"},
                      NEW d \in DependsOn[u]
               PROVE  n.task[d].status = "completed"
    BY DEF DepsMet
  <2>1. d \in Task
    BY DependsAssumption
  <2>2. s.task[d].status = "completed"
    BY <1>5 DEF Moves, Outcomes, Legal, DepsMet
  <2> QED
    BY <1>5, <2>1, <2>2 DEF Moves, Outcomes
<1> QED
  <2>1. Len(n.events) <= n.sequence
    BY <1>1, <1>4
  <2> QED
    BY <1>5, <1>10, <1>11, <1>12, <1>13, <2>1 DEF Legal, n, e

\* So does the creation of the list, which happens once.
LEMMA CreationLegal ==
  ASSUME NEW s, Legal(s), ~s.list, NEW id \in Nat
  PROVE  Legal([list |-> TRUE, task |-> s.task,
                events |-> Append(s.events, Event(id, "list_created", 0, 0)),
                sequence |-> s.sequence + 1])
<1> DEFINE e == Event(id, "list_created", 0, 0)
           n == [list |-> TRUE, task |-> s.task, events |-> Append(s.events, e),
                 sequence |-> s.sequence + 1]
           L == Len(s.events)
<1>1. /\ s \in State /\ s.events \in Seq(EventRec) /\ s.task \in [Task -> TaskRec]
      /\ L \in Nat /\ s.sequence \in Nat /\ L <= s.sequence
  BY DEF Legal, State
<1>2. /\ e.op = "list_created" /\ e.task = 0 /\ e.version = 0 /\ e \in EventRec
  BY DEF Event, EventRec, Ops
<1>3. /\ n.list = TRUE /\ n.events \in Seq(EventRec) /\ Len(n.events) = L + 1
      /\ \A i \in 1..L : n.events[i] = s.events[i]
      /\ n.events[L + 1] = e
      /\ n.task = s.task /\ n.sequence = s.sequence + 1
  BY <1>1, <1>2
<1>4. n \in State
  BY <1>1, <1>3 DEF State
<1> HIDE DEF n, e, L
<1>5. \A i \in 1..Len(n.events) : i \in 1..L \/ i = L + 1
  BY <1>1, <1>3
<1>6. \A i \in 1..L :
        /\ s.events[i].op # "list_created"
        /\ s.events[i].task \in Task
        /\ s.events[i].version \in 1..s.task[s.events[i].task].version
  BY DEF Legal, EventsKnown, L
<1>7. EventsKnown(n)
  BY <1>2, <1>3, <1>5, <1>6 DEF EventsKnown
<1>8. StatusTold(n)
  BY <1>2, <1>3, <1>5 DEF Legal, StatusTold, L
<1>9. EventsDiffer(n)
  <2>1. \A i \in 1..L : s.events[i].version # 0
    BY <1>1, <1>6 DEF TaskRec
  <2> SUFFICES ASSUME NEW i \in 1..Len(n.events), NEW j \in 1..Len(n.events),
                      i # j, n.events[i].task = n.events[j].task
               PROVE  /\ n.events[i].version # n.events[j].version
                      /\ n.events[i].op \in {"task_claimed", "task_reported"}
                           => n.events[i].op # n.events[j].op
    BY DEF EventsDiffer
  <2>2. CASE i \in 1..L /\ j \in 1..L
    BY <1>3, <2>2, SMTT(60) DEF Legal, EventsDiffer, L
  <2>3. CASE i \in 1..L /\ j = L + 1
    BY <1>2, <1>3, <2>1, <2>3
  <2>4. CASE i = L + 1 /\ j \in 1..L
    BY <1>2, <1>3, <2>1, <2>4
  <2> QED
    BY <1>5, <2>2, <2>3, <2>4
<1>10. DepsMet(n)
  BY <1>3 DEF Legal, DepsMet
<1> QED
  <2>1. Len(n.events) <= n.sequence
    BY <1>1, <1>3
  <2> QED
    BY <1>4, <1>7, <1>8, <1>9, <1>10, <2>1 DEF Legal, n, e

\* A mutation of a task that gets no event leads to a legal state too.
LEMMA SilentLegal ==
  ASSUME NEW s, Legal(s), NEW t \in Task, NEW rec \in TaskRec, NEW op \in Ops,
         rec.version = s.task[t].version + 1,
         Moves(op, s.task[t].status, rec.status),
         op = "task_claimed" => \A d \in DependsOn[t] : s.task[d].status = "completed"
  PROVE  Legal([s EXCEPT !.task = [s.task EXCEPT ![t] = rec],
                         !.sequence = s.sequence + 1])
<1> DEFINE n == [s EXCEPT !.task = [s.task EXCEPT ![t] = rec],
                          !.sequence = s.sequence + 1]
           L == Len(s.events)
<1>1. /\ s \in State /\ s.events \in Seq(EventRec) /\ s.task \in [Task -> TaskRec]
      /\ L \in Nat /\ s.sequence \in Nat /\ L <= s.sequence
  BY DEF Legal, State
<1>2. \A u \in Task : s.task[u].version \in Nat /\ s.task[u].status \in Statuses
  BY <1>1 DEF TaskRec
<1>3. /\ n \in State /\ n.list = s.list /\ n.events = s.events
      /\ n.sequence = s.sequence + 1 /\ n.task = [s.task EXCEPT ![t] = rec]
  <2> DEFINE tk == [s.task EXCEPT ![t] = rec]
  <2>1. tk \in [Task -> TaskRec]
    BY <1>1
  <2> HIDE DEF tk
  <2> DEFINE h == [s EXCEPT !.task = tk]
  <2>2. /\ h \in State /\ h.list = s.list /\ h.events = s.events
        /\ h.sequence = s.sequence /\ h.task = tk
    BY <1>1, <2>1 DEF State
  <2> HIDE DEF h
  <2>3. /\ [h EXCEPT !.sequence = s.sequence + 1] \in State
        /\ [h EXCEPT !.sequence = s.sequence + 1].list = h.list
        /\ [h EXCEPT !.sequence = s.sequence + 1].events = h.events
        /\ [h EXCEPT !.sequence = s.sequence + 1].sequence = s.sequence + 1
        /\ [h EXCEPT !.sequence = s.sequence + 1].task = h.task
    BY <1>1, <2>2 DEF State
  <2> QED
    BY <2>2, <2>3 DEF h, tk
<1>4. n.task[t] = rec /\ \A u \in Task \ {t} : n.task[u] = s.task[u]
  BY <1>1, <1>3
<1>5. rec.version \in Nat /\ rec.version > s.task[t].version
  BY <1>2
<1> HIDE DEF n, L
<1>6. \A i \in 1..L :
        /\ s.events[i] \in EventRec
        /\ s.events[i].op # "list_created" => s.events[i].task \in Task
  BY <1>1 DEF Legal, EventsKnown, L
<1>7. \A u \in Task : n.task[u].version \in Nat /\ n.task[u].version >= s.task[u].version
  BY <1>2, <1>4, <1>5
<1>8. EventsKnown(n)
  <2> SUFFICES ASSUME NEW i \in 1..L
               PROVE  IF s.events[i].op = "list_created"
                      THEN s.events[i].task = 0 /\ s.events[i].version = 0 /\ s.list
                      ELSE /\ s.events[i].task \in Task
                           /\ s.events[i].version \in 1..n.task[s.events[i].task].version
    BY <1>3 DEF EventsKnown, L
  <2>1. IF s.events[i].op = "list_created"
        THEN s.events[i].task = 0 /\ s.events[i].version = 0 /\ s.list
        ELSE /\ s.events[i].task \in Task
             /\ s.events[i].version \in 1..s.task[s.events[i].task].version
    BY DEF Legal, EventsKnown, L
  <2>2. s.events[i].version \in Nat
    BY <1>6 DEF EventRec
  <2>3. CASE s.events[i].op = "list_created"
    BY <2>1, <2>3
  <2>4. CASE s.events[i].op # "list_created"
    <3>1. /\ s.events[i].task \in Task
          /\ s.events[i].version \in 1..s.task[s.events[i].task].version
      BY <2>1, <2>4
    <3>2. /\ n.task[s.events[i].task].version \in Nat
          /\ s.task[s.events[i].task].version \in Nat
          /\ n.task[s.events[i].task].version >= s.task[s.events[i].task].version
      BY <1>2, <1>7, <3>1
    <3> QED
      BY <2>2, <2>4, <3>1, <3>2
  <2> QED
    BY <2>3, <2>4
<1>9. StatusTold(n)
  <2>1. ASSUME NEW u \in Task, n.task[u].status = "absent"
        PROVE  n.task[u].version = 0
    BY <1>4, <2>1 DEF Moves, Legal, StatusTold, Outcomes
  <2>2. ASSUME NEW i \in 1..L
        PROVE  /\ s.events[i].op = "task_claimed" =>
                    n.task[s.events[i].task].status \notin {"absent", "pending"}
               /\ s.events[i].op = "task_reported" =>
                    n.task[s.events[i].task].status \in Outcomes
    <3>1. /\ s.events[i].op = "task_claimed" =>
               s.task[s.events[i].task].status \notin {"absent", "pending"}
          /\ s.events[i].op = "task_reported" =>
               s.task[s.events[i].task].status \in Outcomes
      BY <2>2 DEF Legal, StatusTold, L
    <3> QED
      BY <1>4, <1>6, <2>2, <3>1, SMTT(60) DEF Moves, Outcomes
  <2> QED
    BY <1>3, <2>1, <2>2 DEF StatusTold, L
<1>10. EventsDiffer(n)
  BY <1>3 DEF Legal, EventsDiffer
<1>11. DepsMet(n)
  <2> SUFFICES ASSUME NEW u \in Task,
                      n.task[u].status \in {"in_progress", "completed", "failed"},
                      NEW d \in DependsOn[u]
               PROVE  n.task[d].status = "completed"
    BY DEF DepsMet
  <2>1. d \in Task
    BY DependsAssumption
  <2>2. s.task[d].status = "completed"
    BY <1>4 DEF Moves, Outcomes, Legal, DepsMet
  <2> QED
    BY <1>4, <2>1, <2>2 DEF Moves, Outcomes
<1>12. Len(n.events) <= n.sequence
  BY <1>1, <1>3 DEF L
<1> QED
  BY <1>3, <1>8, <1>9, <1>10, <1>11, <1>12 DEF Legal, n

\* Beginning is transitive.
LEMMA BeginsTransitive ==
  ASSUME NEW s, NEW r, NEW m, s \in State, r \in State, m \in State,
         Begins(s, r), Begins(r, m)
  PROVE  Begins(s, m)
<1>1. /\ Len(s.events) \in Nat /\ Len(r.events) \in Nat /\ Len(m.events) \in Nat
      /\ s.sequence \in Nat /\ r.sequence \in Nat /\ m.sequence \in Nat
  BY DEF State
<1> QED
  BY <1>1 DEF Begins

\* Every history begins with the empty ledger.
LEMMA EmptyBegins ==
  ASSUME NEW r, Legal(r)
  PROVE  Begins(Empty, r)
<1>1. Len(r.events) \in Nat /\ r.sequence \in Nat /\ Len(r.events) <= r.sequence
  BY DEF Legal, State
<1>2. Len(Empty.events) = 0 /\ Empty.sequence = 0
  BY DEF Empty
<1> QED
  BY <1>1, <1>2 DEF Begins

\* Of two states of one history, what replay keeps has both as beginnings.
LEMMA LaterLongest ==
  ASSUME NEW s \in State, NEW r \in State, Ordered(s, r)
  PROVE  /\ Later(s, r) \in {s, r}
         /\ Begins(s, Later(s, r)) /\ Begins(r, Later(s, r))
<1>1. /\ Len(s.events) \in Nat /\ Len(r.events) \in Nat
      /\ s.sequence \in Nat /\ r.sequence \in Nat
  BY DEF State
<1>2. Begins(s, s) /\ Begins(r, r)
  BY <1>1 DEF Begins
<1>3. CASE r.sequence > s.sequence
  BY <1>1, <1>2, <1>3 DEF Begins, Ordered, Later
<1>4. CASE r.sequence <= s.sequence
  <2>1. Later(s, r) = s
    BY <1>1, <1>4 DEF Later
  <2>2. Begins(r, s)
    BY <1>1, <1>4 DEF Begins, Ordered
  <2> QED
    BY <1>2, <2>1, <2>2
<1> QED
  BY <1>1, <1>3, <1>4

\* Of the states of one history that the files hold, replay finds the longest.
LEMMA ReplayLongest ==
  ASSUME NEW sn, Legal(sn), NEW jn, Legal(jn), NEW tl, Legal(tl.state),
         tl.cut # "bare" => tl.state = Empty,
         Ordered(sn, jn), Ordered(sn, tl.state), Ordered(jn, tl.state),
         NEW rec,
         rec = LET whole == Later(sn, jn)
               IN IF tl.cut = "bare" THEN Later(whole, tl.state) ELSE whole
  PROVE  /\ rec \in {sn, jn, tl.state}
         /\ Begins(sn, rec) /\ Begins(jn, rec) /\ Begins(tl.state, rec)
<1>s. sn \in State /\ jn \in State /\ tl.state \in State
  BY DEF Legal
<1>1. /\ Later(sn, jn) \in {sn, jn}
      /\ Begins(sn, Later(sn, jn)) /\ Begins(jn, Later(sn, jn))
  BY <1>s, LaterLongest
<1>2. CASE tl.cut = "bare"
  <2>1. /\ rec = Later(Later(sn, jn), tl.state) /\ Later(sn, jn) \in State
        /\ Ordered(Later(sn, jn), tl.state)
    BY <1>s, <1>1, <1>2
  <2>2. /\ rec \in {Later(sn, jn), tl.state}
        /\ Begins(Later(sn, jn), rec) /\ Begins(tl.state, rec)
    BY <1>s, <2>1, LaterLongest
  <2>3. rec \in State
    BY <1>s, <2>1, <2>2
  <2> QED
    BY <1>s, <1>1, <2>1, <2>2, <2>3, BeginsTransitive
<1>3. CASE tl.cut # "bare"
  <2>1. rec = Later(sn, jn) /\ Legal(rec) /\ tl.state = Empty
    BY <1>1, <1>3
  <2>2. Begins(Empty, rec)
    BY <2>1, EmptyBegins
  <2> QED
    BY <1>1, <2>1, <2>2
<1> QED
  BY <1>2, <1>3

-----------------------------------------------------------------------------
(* Steps.                                                                  *)

\* What a commit may leave in the files, whole or interrupted: old states, and
\* the one in memory.
DiskMoves ==
  /\ \A s \in {journal', tail'.state} : s \in OnDisk \cup {mem, Empty}
  /\ snapshot' \in {snapshot, mem}
  /\ tail'.cut \in {"none", "torn", "bare"} /\ glued' \in BOOLEAN
  /\ tail'.cut # "bare" => tail'.state = Empty

\* Every way to write a line moves the files so.
LEMMA LineMoves ==
  ASSUME LedgerInv
  PROVE  AppendLine \/ CutLine \/ UNCHANGED disk => DiskMoves
<1>1. tail.state \in OnDisk /\ journal \in OnDisk
  BY DEF OnDisk
<1>2. AppendLine => DiskMoves
  <2> SUFFICES ASSUME AppendLine PROVE DiskMoves
    OBVIOUS
  <2>1. tail' = Clean /\ snapshot' = snapshot /\ journal' \in {journal, mem}
    BY DEF AppendLine, Later
  <2>2. glued' \in BOOLEAN
    BY DEF AppendLine, LedgerInv, LedgerTypeOK
  <2> QED
    BY <1>1, <2>1, <2>2 DEF DiskMoves, Clean
<1>3. CutLine => DiskMoves
  BY <1>1 DEF CutLine, DiskMoves, Torn, Bare, LedgerInv, LedgerTypeOK
<1>4. UNCHANGED disk => DiskMoves
  BY <1>1 DEF disk, DiskMoves, LedgerInv, LedgerTypeOK
<1> QED
  BY <1>2, <1>3, <1>4

\* When the files move so, they still hold beginnings of what was in memory,
\* replay finds the longest, and the snapshot keeps what it had.
LEMMA DiskStep ==
  ASSUME LedgerInv, Running, DiskMoves
  PROVE  /\ \A s \in OnDisk' : Legal(s) /\ IdsDrawn(s) /\ Begins(s, mem)
         /\ \A s \in OnDisk' : Begins(s, Recovered')
         /\ \A s, r \in OnDisk' : Ordered(s, r)
         /\ Begins(snapshot, snapshot')
<1>1. \A s \in OnDisk \cup {mem, Empty} : s \in State /\ Legal(s) /\ IdsDrawn(s)
  BY EmptyLegal DEF LedgerInv, StatesLegal, Legal
<1>2. Begins(mem, mem) /\ Begins(Empty, mem) /\ Begins(snapshot, snapshot)
  <2>1. /\ Len(mem.events) \in Nat /\ Len(snapshot.events) \in Nat
        /\ mem.sequence \in Nat /\ snapshot.sequence \in Nat
    BY <1>1 DEF State, OnDisk
  <2> QED
    BY <1>1, <2>1, EmptyBegins DEF Begins
<1>3. \A s \in OnDisk \cup {mem, Empty} : Begins(s, mem)
  BY <1>2 DEF LedgerInv, DiskBehind
<1>4. OnDisk' \subseteq OnDisk \cup {mem, Empty}
  BY DEF DiskMoves, OnDisk
<1>7. \A s, r \in OnDisk' : Ordered(s, r)
  <2> SUFFICES ASSUME NEW s \in OnDisk \cup {mem, Empty},
                      NEW r \in OnDisk \cup {mem, Empty}
               PROVE  Ordered(s, r)
    BY <1>4
  <2>1. CASE s = mem \/ r = mem
    BY <1>3, <2>1 DEF Ordered
  <2>2. CASE s = Empty \/ r = Empty
    BY <1>1, <2>2, EmptyBegins DEF Ordered
  <2>3. CASE s \in OnDisk /\ r \in OnDisk
    BY <2>3 DEF LedgerInv, DiskBehind
  <2> QED
    BY <2>1, <2>2, <2>3
<1>5. \A s \in OnDisk' : Begins(s, Recovered')
  <2>1. /\ snapshot' \in OnDisk' /\ journal' \in OnDisk' /\ tail'.state \in OnDisk'
    BY DEF OnDisk
  <2>2. Legal(snapshot') /\ Legal(journal') /\ Legal(tail'.state)
    BY <1>1, <1>4, <2>1
  <2>3. /\ Begins(snapshot', Recovered') /\ Begins(journal', Recovered')
        /\ Begins(tail'.state, Recovered')
    BY <1>7, <2>1, <2>2, ReplayLongest DEF DiskMoves, Recovered
  <2> QED
    BY <2>3 DEF OnDisk
<1>6. Begins(snapshot, snapshot')
  BY <1>2, <1>3 DEF DiskMoves, OnDisk
<1> QED
  BY <1>1, <1>3, <1>4, <1>5, <1>6, <1>7

\* A mutation that leads to a legal state keeps the invariant: memory goes ahead
\* of the files by one event.
LEMMA EnterStep ==
  ASSUME LedgerInv, CanEnter, NEW list, NEW task, NEW e \in EventRec,
         e.id = drawn + 1, Enter(list, task, e),
         Legal([list |-> list, task |-> task, events |-> Append(mem.events, e),
                sequence |-> mem.sequence + 1])
  PROVE  LedgerInv'
<1>1. /\ mem \in State /\ mem.events \in Seq(EventRec) /\ drawn \in Nat
      /\ drawn' = drawn + 1 /\ UNCHANGED <<disk, up, owed, acked>>
      /\ mem'.events = Append(mem.events, e) /\ Legal(mem') /\ Running
      /\ mem.sequence \in Nat /\ mem'.sequence = mem.sequence + 1
  BY DEF LedgerInv, LedgerTypeOK, StatesLegal, Legal, State, Enter, CanEnter
<1>2. /\ Len(mem'.events) = Len(mem.events) + 1 /\ Len(mem.events) \in Nat
      /\ \A i \in 1..Len(mem.events) : mem'.events[i] = mem.events[i]
      /\ mem'.events[Len(mem.events) + 1] = e
  BY <1>1
<1>3. UNCHANGED <<OnDisk, Recovered, tail, glued, snapshot>>
  BY <1>1 DEF disk, OnDisk, Recovered
<1>4. \A s \in OnDisk \cup {mem} :
        /\ s \in State /\ Len(s.events) \in Nat /\ s.sequence \in Nat
        /\ Legal(s) /\ IdsDrawn(s)
  BY DEF LedgerInv, StatesLegal, Legal, State
<1>5. LedgerTypeOK'
  BY <1>1, <1>2, <1>3 DEF LedgerInv, LedgerTypeOK, Enter, Running
<1>6. StatesLegal'
  <2>1. \A s \in OnDisk \cup {mem} : IdsDrawn(s)'
    BY <1>1, <1>4 DEF IdsDrawn
  <2>2. IdsDrawn(mem)'
    BY <1>1, <1>2, <1>4 DEF IdsDrawn
  <2> QED
    BY <1>1, <1>3, <1>4, <2>1, <2>2 DEF StatesLegal
<1>7. DiskBehind'
  <2>1. \A s \in OnDisk : Begins(s, mem')
    BY <1>1, <1>2, <1>4 DEF LedgerInv, DiskBehind, Begins
  <2> QED
    BY <1>3, <2>1 DEF LedgerInv, DiskBehind
<1>8. AckedSaved'
  BY <1>1, <1>3 DEF LedgerInv, AckedSaved, Holds
<1> QED
  BY <1>5, <1>6, <1>7, <1>8 DEF LedgerInv

\* So does a mutation of a task that gets no event ID.
LEMMA SilentStep ==
  ASSUME LedgerInv, CanEnter, NEW task, NoEventID(task),
         Legal([mem EXCEPT !.task = task, !.sequence = mem.sequence + 1])
  PROVE  LedgerInv'
<1>1. /\ mem \in State /\ drawn \in Nat /\ mem.sequence \in Nat
      /\ drawn' = drawn + 1 /\ UNCHANGED <<disk, up, stage, owed, acked>>
      /\ Legal(mem') /\ Running /\ stage = "free"
  BY DEF LedgerInv, LedgerTypeOK, StatesLegal, Legal, State, NoEventID, CanEnter
<1>2. mem'.events = mem.events /\ mem'.sequence = mem.sequence + 1
  BY <1>1 DEF State, NoEventID
<1>3. UNCHANGED <<OnDisk, Recovered, tail, glued, snapshot>>
  BY <1>1 DEF disk, OnDisk, Recovered
<1>4. \A s \in OnDisk \cup {mem} :
        /\ s \in State /\ Len(s.events) \in Nat /\ s.sequence \in Nat
        /\ Legal(s) /\ IdsDrawn(s)
  BY DEF LedgerInv, StatesLegal, Legal, State
<1>5. LedgerTypeOK'
  BY <1>1, <1>3 DEF LedgerInv, LedgerTypeOK
<1>6. StatesLegal'
  <2>1. \A s \in OnDisk \cup {mem} : IdsDrawn(s)'
    BY <1>1, <1>4 DEF IdsDrawn
  <2>2. IdsDrawn(mem)'
    BY <1>1, <1>2, <1>4 DEF IdsDrawn
  <2> QED
    BY <1>1, <1>3, <1>4, <2>1, <2>2 DEF StatesLegal
<1>7. DiskBehind'
  <2>1. \A s \in OnDisk : Begins(s, mem')
    BY <1>1, <1>2, <1>4 DEF LedgerInv, DiskBehind, Begins
  <2> QED
    BY <1>3, <2>1 DEF LedgerInv, DiskBehind
<1>8. AckedSaved'
  BY <1>1, <1>3 DEF LedgerInv, AckedSaved, Holds
<1> QED
  BY <1>5, <1>6, <1>7, <1>8 DEF LedgerInv

\* What UpdateCAS and Report assign field by field.
LEMMA RecordBumped ==
  ASSUME NEW r \in TaskRec, NEW w \in Nat
  PROVE  LET o == [r EXCEPT !.version = @ + 1, !.rev = w]
         IN o \in TaskRec /\ o.version = r.version + 1 /\ o.status = r.status
<1> DEFINE p == [r EXCEPT !.version = @ + 1]
<1>1. p \in TaskRec /\ p.version = r.version + 1 /\ p.status = r.status
  BY DEF TaskRec
<1> HIDE DEF p
<1>2. /\ [p EXCEPT !.rev = w] \in TaskRec
      /\ [p EXCEPT !.rev = w].version = p.version
      /\ [p EXCEPT !.rev = w].status = p.status
  BY <1>1 DEF TaskRec
<1> QED
  BY <1>1, <1>2 DEF p

LEMMA RecordReported ==
  ASSUME NEW r \in TaskRec, NEW st \in Statuses, NEW w \in Nat
  PROVE  LET o == [r EXCEPT !.status = st, !.version = @ + 1, !.rev = w]
         IN o \in TaskRec /\ o.version = r.version + 1 /\ o.status = st
<1> DEFINE q == [r EXCEPT !.status = st]
<1>1. q \in TaskRec /\ q.version = r.version /\ q.status = st
  BY DEF TaskRec
<1> HIDE DEF q
<1> DEFINE o == [q EXCEPT !.version = @ + 1, !.rev = w]
<1>2. o \in TaskRec /\ o.version = q.version + 1 /\ o.status = q.status
  BY <1>1, RecordBumped
<1> QED
  BY <1>1, <1>2 DEF o, q

\* Every operation on a task is such a mutation.
LEMMA CallSteps == LedgerInv /\ Call => LedgerInv'
<1> SUFFICES ASSUME LedgerInv, Call PROVE LedgerInv'
  OBVIOUS
<1>1. /\ Legal(mem) /\ mem \in State /\ drawn \in Nat
      /\ \A t \in Task : mem.task[t] \in TaskRec
  BY DEF LedgerInv, LedgerTypeOK, StatesLegal, Legal, State
<1>2. CASE CreateList
  <2> DEFINE e == Event(drawn + 1, "list_created", 0, 0)
  <2>1. e \in EventRec /\ e.id = drawn + 1
    BY <1>1 DEF Event, EventRec, Ops
  <2>2. Legal([list |-> TRUE, task |-> mem.task, events |-> Append(mem.events, e),
               sequence |-> mem.sequence + 1])
    BY <1>1, <1>2, CreationLegal DEF CreateList
  <2> QED
    BY <1>2, <2>1, <2>2, EnterStep DEF CreateList
<1>3. ASSUME NEW t \in Task, NEW rec \in TaskRec, NEW op \in Ops,
             rec.version = mem.task[t].version + 1,
             Moves(op, mem.task[t].status, rec.status),
             op = "task_claimed" =>
               \A d \in DependsOn[t] : mem.task[d].status = "completed",
             CanEnter, Change(t, rec, op)
      PROVE  LedgerInv'
  <2> DEFINE e == Event(drawn + 1, op, t, rec.version)
             task == [mem.task EXCEPT ![t] = rec]
  <2>1. e \in EventRec /\ e.id = drawn + 1
    BY <1>1, <1>3 DEF Event, EventRec, TaskRec
  <2>2. Legal([list |-> mem.list, task |-> task, events |-> Append(mem.events, e),
               sequence |-> mem.sequence + 1])
    BY <1>1, <1>3, MutationLegal
  <2>3. Legal([mem EXCEPT !.task = task, !.sequence = mem.sequence + 1])
    BY <1>1, <1>3, SilentLegal
  <2>4. Enter(mem.list, task, e) \/ NoEventID(task)
    BY <1>3 DEF Change
  <2> HIDE DEF e, task
  <2> QED
    BY <1>3, <2>1, <2>2, <2>3, <2>4, EnterStep, SilentStep
<1>4. ASSUME NEW t \in Task, CreateTask(t) PROVE LedgerInv'
  <2> DEFINE rec == [status |-> "pending", attempt |-> 0, version |-> 1, rev |-> drawn + 1]
  <2>1. mem.task[t].status = "absent" /\ mem.task[t].version = 0
    BY <1>1, <1>4 DEF CreateTask, Legal, StatusTold
  <2>2. rec \in TaskRec /\ rec.version = mem.task[t].version + 1
    BY <1>1, <2>1 DEF TaskRec, Statuses
  <2>3. Moves("task_created", mem.task[t].status, rec.status) /\ "task_created" \in Ops
    BY <2>1 DEF Moves, Ops
  <2>4. /\ CanEnter
        /\ Enter(mem.list, [mem.task EXCEPT ![t] = rec],
                 Event(drawn + 1, "task_created", t, rec.version))
    BY <1>4 DEF CreateTask
  <2>5. Change(t, rec, "task_created")
    BY <2>4 DEF Change
  <2> QED
    BY <1>3, <2>2, <2>3, <2>4, <2>5
<1>5. ASSUME NEW t \in Task, Claim(t) PROVE LedgerInv'
  <2>1. /\ Claimed(t) \in TaskRec /\ Claimed(t).version = mem.task[t].version + 1
        /\ Claimed(t).status = "in_progress"
    BY <1>1 DEF Claimed, TaskRec, Statuses
  <2>2. /\ Moves("task_claimed", mem.task[t].status, Claimed(t).status)
        /\ \A d \in DependsOn[t] : mem.task[d].status = "completed"
        /\ "task_claimed" \in Ops
    BY <1>5, <2>1 DEF Claim, Moves, Ops
  <2>3. CanEnter /\ Change(t, Claimed(t), "task_claimed")
    BY <1>5 DEF Claim
  <2> QED
    BY <1>3, <2>1, <2>2, <2>3
<1>6. ASSUME NEW t \in Task, Update(t) PROVE LedgerInv'
  <2> DEFINE rec == [mem.task[t] EXCEPT !.version = @ + 1, !.rev = drawn + 1]
  <2>1. /\ rec \in TaskRec /\ rec.version = mem.task[t].version + 1
        /\ rec.status = mem.task[t].status
    <3>1. mem.task[t] \in TaskRec /\ drawn + 1 \in Nat
      BY <1>1
    <3> QED
      BY <3>1, RecordBumped
  <2>2. Moves("task_updated", mem.task[t].status, rec.status) /\ "task_updated" \in Ops
    BY <1>6, <2>1 DEF Update, Moves, Ops
  <2>3. CanEnter /\ Change(t, rec, "task_updated")
    BY <1>6 DEF Update
  <2> HIDE DEF rec
  <2> QED
    BY <1>3, <2>1, <2>2, <2>3
<1>7. ASSUME NEW t \in Task, NEW outcome \in Outcomes, Report(t, outcome) PROVE LedgerInv'
  <2> DEFINE rec == [mem.task[t] EXCEPT !.status = outcome, !.version = @ + 1,
                                        !.rev = drawn + 1]
  <2>1. /\ rec \in TaskRec /\ rec.version = mem.task[t].version + 1
        /\ rec.status = outcome
    <3>1. mem.task[t] \in TaskRec /\ drawn + 1 \in Nat /\ outcome \in Statuses
      BY <1>1 DEF Statuses, Outcomes
    <3> QED
      BY <3>1, RecordReported, ZenonT(60)
  <2>2. Moves("task_reported", mem.task[t].status, rec.status) /\ "task_reported" \in Ops
    BY <1>7, <2>1 DEF Report, Moves, Ops
  <2>3. CanEnter /\ Change(t, rec, "task_reported")
    BY <1>7 DEF Report
  <2> HIDE DEF rec
  <2> QED
    BY <1>3, <2>1, <2>2, <2>3
<1>8. CASE Notify
  <2>1. /\ UNCHANGED <<mem, journal, tail, glued, snapshot, up, stage, drawn, acked>>
        /\ owed' \subseteq owed
    BY <1>8 DEF Notify, disk
  <2>2. LedgerTypeOK' /\ StatesLegal' /\ DiskBehind'
    BY <2>1 DEF LedgerInv, LedgerTypeOK, StatesLegal, IdsDrawn, DiskBehind,
                OnDisk, Recovered, Running
  <2>3. AckedSaved'
    BY <2>1 DEF LedgerInv, AckedSaved, Holds
  <2> QED
    BY <2>2, <2>3 DEF LedgerInv
<1> QED
  BY <1>2, <1>4, <1>5, <1>6, <1>7, <1>8 DEF Call

\* So does every way a commit ends, or fails to.
LEMMA CommitSteps == LedgerInv /\ Commit => LedgerInv'
<1> SUFFICES ASSUME LedgerInv, Commit PROVE LedgerInv'
  OBVIOUS
<1>1. /\ mem \in State /\ mem.events \in Seq(EventRec) /\ mem.events # <<>>
      /\ Legal(mem) /\ IdsDrawn(mem)
      /\ Running /\ UNCHANGED <<mem, up, drawn>>
      /\ stage' \in {"free", "snapshot"}
  BY DEF LedgerInv, LedgerTypeOK, StatesLegal, Legal, State, Commit, WriteLine,
         WriteFails, SaveSnapshot, SnapshotFails, Refuse
<1>2. DiskMoves
  <2>1. AppendLine \/ CutLine \/ UNCHANGED disk \/ SaveSnapshot
    BY DEF Commit, WriteLine, WriteFails, SnapshotFails
  <2>2. SaveSnapshot => DiskMoves
    BY DEF SaveSnapshot, DiskMoves, OnDisk, LedgerInv, LedgerTypeOK
  <2> QED
    BY <2>1, <2>2, LineMoves
<1>3. /\ \A s \in OnDisk' : Legal(s) /\ IdsDrawn(s) /\ Begins(s, mem)
      /\ \A s \in OnDisk' : Begins(s, Recovered')
      /\ \A s, r \in OnDisk' : Ordered(s, r)
      /\ Begins(snapshot, snapshot')
  BY <1>1, <1>2, DiskStep
<1>4. StatesLegal' /\ DiskBehind'
  BY <1>1, <1>3 DEF StatesLegal, DiskBehind, IdsDrawn, Running
<1>5. \A x \in acked : Holds(snapshot', x)
  <2>1. \A x \in acked : x.at \in Nat \ {0} /\ Holds(snapshot, x)
    BY DEF LedgerInv, LedgerTypeOK, AckedSaved
  <2>2. Len(snapshot.events) \in Nat /\ Len(snapshot'.events) \in Nat
    <3>1. snapshot \in State /\ snapshot' \in State
      BY <1>3 DEF LedgerInv, StatesLegal, Legal, OnDisk
    <3> QED
      BY <3>1 DEF State
  <2> QED
    BY <1>3, <2>1, <2>2 DEF Holds, Begins
<1>6. CASE SaveSnapshot
  <2> DEFINE x == [event |-> LastEvent, at |-> Len(mem.events)]
  <2>1. /\ snapshot' = mem /\ acked' = acked \cup {x} /\ owed' = owed \cup {LastEvent.id}
    BY <1>6 DEF SaveSnapshot
  <2>2. x.at \in Nat \ {0} /\ x.event = mem.events[x.at] /\ x.event \in EventRec
    BY <1>1 DEF LastEvent
  <2>3. Holds(snapshot', x)
    BY <1>1, <2>1, <2>2 DEF Holds
  <2>4. AckedSaved'
    <3>1. \A y \in acked' : Holds(snapshot, y)'
      BY <1>5, <2>1, <2>3 DEF Holds
    <3>2. \A id \in owed' : \E y \in acked' : y.event.id = id
      <4>1. x \in acked' /\ x.event.id = LastEvent.id
        BY <2>1
      <4> QED
        BY <2>1, <4>1 DEF LedgerInv, AckedSaved
    <3> QED
      BY <3>1, <3>2 DEF AckedSaved
  <2>5. LedgerTypeOK'
    BY <1>1, <1>2, <2>1, <2>2 DEF LedgerInv, LedgerTypeOK, DiskMoves, Running
  <2> QED
    BY <1>4, <2>4, <2>5 DEF LedgerInv
<1>7. CASE ~SaveSnapshot
  <2>1. UNCHANGED <<owed, acked>>
    BY <1>7 DEF Commit, WriteLine, WriteFails, SnapshotFails, Refuse
  <2>2. AckedSaved'
    BY <1>5, <2>1 DEF LedgerInv, AckedSaved, Holds
  <2>3. LedgerTypeOK'
    BY <1>1, <1>2, <2>1 DEF LedgerInv, LedgerTypeOK, DiskMoves, Running
  <2> QED
    BY <1>4, <2>2, <2>3 DEF LedgerInv
<1> QED
  BY <1>6, <1>7

\* A crash loses memory and what was owed; the files hold what they held, or
\* what the commit under way had reached.
LEMMA CrashStep == LedgerInv /\ Crash => LedgerInv'
<1> SUFFICES ASSUME LedgerInv, Crash PROVE LedgerInv'
  OBVIOUS
<1>1. /\ Running /\ up' = "down" /\ mem' = Empty /\ stage' = "free" /\ owed' = {}
      /\ UNCHANGED <<drawn, acked>>
  BY DEF Crash
<1>2. DiskMoves
  <2>1. \/ AppendLine \/ CutLine \/ UNCHANGED disk
        \/ snapshot' = mem /\ UNCHANGED <<journal, tail, glued>>
    BY DEF Crash, DiskAtCrash
  <2>2. snapshot' = mem /\ UNCHANGED <<journal, tail, glued>> => DiskMoves
    BY DEF DiskMoves, OnDisk, LedgerInv, LedgerTypeOK
  <2> QED
    BY <2>1, <2>2, LineMoves
<1>3. /\ \A s \in OnDisk' : Legal(s) /\ IdsDrawn(s) /\ Begins(s, mem)
      /\ \A s \in OnDisk' : Begins(s, Recovered')
      /\ \A s, r \in OnDisk' : Ordered(s, r)
      /\ Begins(snapshot, snapshot')
  BY <1>1, <1>2, DiskStep
<1>4. StatesLegal'
  BY <1>1, <1>3, EmptyLegal DEF StatesLegal, IdsDrawn
<1>5. DiskBehind'
  BY <1>1, <1>3 DEF DiskBehind, Running
<1>6. AckedSaved'
  <2>1. \A x \in acked : x.at \in Nat \ {0} /\ Holds(snapshot, x)
    BY DEF LedgerInv, LedgerTypeOK, AckedSaved
  <2>2. Len(snapshot.events) \in Nat /\ Len(snapshot'.events) \in Nat
    <3>1. snapshot \in State /\ snapshot' \in State
      BY <1>3 DEF LedgerInv, StatesLegal, Legal, OnDisk
    <3> QED
      BY <3>1 DEF State
  <2> QED
    BY <1>1, <1>3, <2>1, <2>2 DEF AckedSaved, Holds, Begins
<1>7. LedgerTypeOK'
  BY <1>1, <1>2 DEF LedgerInv, LedgerTypeOK, DiskMoves
<1> QED
  BY <1>4, <1>5, <1>6, <1>7 DEF LedgerInv

\* A ledger that opens has in memory what the files say.
LEMMA OpenStep == LedgerInv /\ Open => LedgerInv'
<1> SUFFICES ASSUME LedgerInv, Open PROVE LedgerInv'
  OBVIOUS
<1>1. /\ UNCHANGED <<journal, tail, glued, snapshot, stage, drawn, owed, acked>>
      /\ \/ up' = "broken" /\ mem' = mem
         \/ up' = "open" /\ mem' = Recovered
      /\ up = "down"
  BY DEF Open, disk
<1>2. Recovered \in OnDisk
  BY DEF Recovered, Later, OnDisk
<1>3. UNCHANGED <<OnDisk, Recovered>>
  BY <1>1 DEF OnDisk, Recovered
<1>4. StatesLegal' /\ DiskBehind'
  BY <1>1, <1>2, <1>3 DEF LedgerInv, StatesLegal, DiskBehind, IdsDrawn, Running
<1>5. AckedSaved'
  BY <1>1 DEF LedgerInv, AckedSaved, Holds
<1>6. LedgerTypeOK'
  BY <1>1 DEF LedgerInv, LedgerTypeOK, Running
<1> QED
  BY <1>4, <1>5, <1>6 DEF LedgerInv

\* The invariant holds in every reachable state.
LEMMA LedgerSteps == Spec => []LedgerInv
<1>1. Init => LedgerInv
  <2> SUFFICES ASSUME Init PROVE LedgerInv
    OBVIOUS
  <2>1. OnDisk = {Empty} /\ mem = Empty /\ Recovered = Empty /\ acked = {} /\ owed = {}
    BY DEF Init, OnDisk, Recovered, Later, Clean
  <2>2. Begins(Empty, Empty) /\ Ordered(Empty, Empty)
    BY EmptyLegal, EmptyBegins DEF Ordered
  <2>3. LedgerTypeOK
    BY <2>1 DEF Init, LedgerTypeOK, Clean
  <2> QED
    BY <2>1, <2>2, <2>3, EmptyLegal DEF LedgerInv, StatesLegal, DiskBehind, AckedSaved
<1>2. LedgerInv /\ [Next]_vars => LedgerInv'
  <2>1. LedgerInv /\ Close => LedgerInv'
    <3> SUFFICES ASSUME LedgerInv, Close PROVE LedgerInv'
      OBVIOUS
    <3>1. /\ UNCHANGED <<mem, journal, tail, glued, snapshot, stage, drawn, owed, acked>>
          /\ up = "open" /\ up' = "closed"
      BY DEF Close, disk
    <3>2. UNCHANGED <<OnDisk, Recovered>>
      BY <3>1 DEF OnDisk, Recovered
    <3> QED
      BY <3>1, <3>2 DEF LedgerInv, LedgerTypeOK, StatesLegal, DiskBehind, AckedSaved,
                        IdsDrawn, Running, Holds
  <2>2. LedgerInv /\ UNCHANGED vars => LedgerInv'
    BY DEF LedgerInv, LedgerTypeOK, StatesLegal, DiskBehind, AckedSaved, vars, disk,
           OnDisk, Recovered, IdsDrawn, Running, Holds
  <2> QED
    BY <2>1, <2>2, CallSteps, CommitSteps, CrashStep, OpenStep DEF Next
<1> QED
  BY <1>1, <1>2, PTL DEF Spec

-----------------------------------------------------------------------------
(* What follows.                                                           *)

\* What is in the snapshot is in memory and in what a restart would find.
LEMMA SavedIsHeld ==
  ASSUME LedgerInv, NEW x \in acked
  PROVE  /\ x.at \in 1..Len(snapshot.events) /\ snapshot.events[x.at] = x.event
         /\ Running => Holds(mem, x)
         /\ Holds(Recovered, x) /\ x.at \in 1..Len(Recovered.events)
<1>1. /\ x.at \in Nat \ {0} /\ Holds(snapshot, x)
      /\ Running => Begins(snapshot, mem)
      /\ Begins(snapshot, Recovered) /\ Recovered \in OnDisk
  BY DEF LedgerInv, LedgerTypeOK, AckedSaved, DiskBehind, OnDisk, Recovered, Later
<1>2. snapshot \in State /\ mem \in State /\ Recovered \in State
  BY <1>1 DEF LedgerInv, StatesLegal, Legal, OnDisk
<1>3. /\ Len(snapshot.events) \in Nat /\ Len(mem.events) \in Nat
      /\ Len(Recovered.events) \in Nat
  BY <1>2 DEF State
<1> QED
  BY <1>1, <1>3 DEF Holds, Begins

\* The state of a list is well formed in memory, and the mutex is held exactly
\* while a commit is under way.
THEOREM TypeCorrect == Spec => []TypeOK
<1>1. LedgerInv => TypeOK
  <2> SUFFICES ASSUME LedgerInv PROVE TypeOK
    OBVIOUS
  <2>1. mem.list \in BOOLEAN /\ mem.task \in [Task -> TaskRec]
    BY DEF LedgerInv, StatesLegal, Legal, State
  <2>2. owed \subseteq 1 .. drawn
    <3> SUFFICES ASSUME NEW id \in owed PROVE id \in 1 .. drawn
      OBVIOUS
    <3>1. PICK x \in acked : x.event.id = id
      BY DEF LedgerInv, AckedSaved
    <3> QED
      BY <3>1, SavedIsHeld DEF LedgerInv, StatesLegal, IdsDrawn, OnDisk
  <2> QED
    BY <2>1, <2>2 DEF LedgerInv, LedgerTypeOK, TypeOK
<1> QED
  BY <1>1, LedgerSteps, PTL

\* A mutation that returned no error is never lost or moved, whatever crashes,
\* fails or is cut short afterwards, any number of times.
THEOREM DurableCorrect == Spec => []Durable
<1>1. LedgerInv => Durable
  BY SavedIsHeld DEF Durable
<1> QED
  BY <1>1, LedgerSteps, PTL

\* Over all crashes and restarts, a task is successfully claimed once and
\* successfully reported once.
THEOREM OncePerTaskCorrect == Spec => []OncePerTask
<1>1. LedgerInv => OncePerTask
  <2> SUFFICES ASSUME LedgerInv, NEW x \in acked, NEW y \in acked,
                      x.event.op = y.event.op, x.event.task = y.event.task,
                      x.event.op \in {"task_claimed", "task_reported"}
               PROVE  x = y
    BY DEF OncePerTask
  <2>1. EventsDiffer(snapshot)
    BY DEF LedgerInv, StatesLegal, Legal, OnDisk
  <2>2. x.at = y.at
    BY <2>1, SavedIsHeld DEF EventsDiffer
  <2>3. x.event = y.event
    BY <2>2, SavedIsHeld
  <2> QED
    BY <2>2, <2>3 DEF LedgerInv, LedgerTypeOK
<1> QED
  BY <1>1, LedgerSteps, PTL

\* Over all crashes and restarts, no two mutations of a task return the same
\* version.
THEOREM VersionOnceCorrect == Spec => []VersionOnce
<1>1. LedgerInv => VersionOnce
  <2> SUFFICES ASSUME LedgerInv, NEW x \in acked, NEW y \in acked,
                      x.event.task = y.event.task, x.event.version = y.event.version
               PROVE  x = y
    BY DEF VersionOnce
  <2>1. EventsDiffer(snapshot)
    BY DEF LedgerInv, StatesLegal, Legal, OnDisk
  <2>2. x.at = y.at
    BY <2>1, SavedIsHeld DEF EventsDiffer
  <2>3. x.event = y.event
    BY <2>2, SavedIsHeld
  <2> QED
    BY <2>2, <2>3 DEF LedgerInv, LedgerTypeOK
<1> QED
  BY <1>1, LedgerSteps, PTL

\* A task is worked on, or finished, only if its dependencies completed, in
\* memory and in whatever a restart finds.
THEOREM DependenciesMetCorrect == Spec => []DependenciesMet
<1>1. LedgerInv => DependenciesMet
  BY DEF LedgerInv, StatesLegal, Legal, DepsMet, DependenciesMet
<1> QED
  BY <1>1, LedgerSteps, PTL

\* An agent is about to be told only of an event that a restart would find.
THEOREM NotifiedCommittedCorrect == Spec => []NotifiedCommitted
<1>1. LedgerInv => NotifiedCommitted
  <2> SUFFICES ASSUME LedgerInv, NEW id \in owed
               PROVE  \E i \in DOMAIN Recovered.events : Recovered.events[i].id = id
    BY DEF NotifiedCommitted
  <2>1. PICK x \in acked : x.event.id = id
    BY DEF LedgerInv, AckedSaved
  <2>2. Recovered \in State
    <3>1. Recovered \in OnDisk
      BY DEF Recovered, Later, OnDisk
    <3> QED
      BY <3>1 DEF LedgerInv, StatesLegal, Legal
  <2>3. DOMAIN Recovered.events = 1..Len(Recovered.events)
    BY <2>2 DEF State
  <2> QED
    BY <2>1, <2>3, SavedIsHeld DEF Holds
<1> QED
  BY <1>1, LedgerSteps, PTL
=============================================================================
