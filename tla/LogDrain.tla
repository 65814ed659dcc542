------------------------------- MODULE LogDrain -------------------------------
(***************************************************************************)
(* The way of log records to the extension that keeps them                 *)
(* (cmd/loghandler.go).  Until an extension subscribes to log events the   *)
(* records wait in a ring that drops the oldest; then the drain goroutine  *)
(* moves the ring to the sink, once, and records go through a queue that   *)
(* drops the newest.  A record logged while the drain dispatches is        *)
(* dropped, so that dispatching does not feed itself.                      *)
(***************************************************************************)
EXTENDS Integers, Sequences, SequencesExt

CONSTANTS
  Writer,    \* goroutines that log
  MaxLogs,   \* bound on the records of a goroutine
  RingSize,  \* logRingSize
  QueueSize, \* logQueueSize
  MaxBatch   \* bound on a batch

ASSUME LogAssumption ==
  MaxLogs \in Nat /\ RingSize \in Nat \ {0} /\ QueueSize \in Nat \ {0}
    /\ MaxBatch \in Nat \ {0}

VARIABLES
  sink,       \* an extension is subscribed to log events
  logs,       \* records each goroutine has made
  handling,   \* Handle: "idle", "kept", "ring" or "queue", per goroutine
  ring, queue,
  flushed, inDispatch,
  drain,      \* "select", "tick", "ring" (dispatching the ring), "flush",
              \* "batch" (dispatching the batch), "last", "lastBatch" or "ended"
  batch,      \* drain: records it has taken from the queue
  flight,     \* the records that are being dispatched
  sunk,       \* history: the records that reached the sink
  lost        \* history: the records that a full ring or queue dropped

logVars == <<sink, logs, handling, ring, queue, flushed, inDispatch, drain, batch, flight,
             sunk, lost>>

LogInit ==
  /\ sink = FALSE /\ logs = [w \in Writer |-> 0] /\ handling = [w \in Writer |-> "idle"]
  /\ ring = << >> /\ queue = << >> /\ flushed = FALSE /\ inDispatch = FALSE
  /\ drain = "select" /\ batch = << >> /\ flight = << >> /\ sunk = << >> /\ lost = {}

record(w) == <<w, logs[w]>>

-----------------------------------------------------------------------------
(* Handle and enqueue.                                                     *)

\* The guard against records of the dispatch itself.
Handle(w) ==
  /\ handling[w] = "idle" /\ logs[w] < MaxLogs
  /\ logs' = [logs EXCEPT ![w] = @ + 1]
  /\ IF inDispatch
     THEN lost' = lost \cup {<<w, logs[w] + 1>>} /\ UNCHANGED handling
     ELSE handling' = [handling EXCEPT ![w] = "kept"] /\ UNCHANGED lost
  /\ UNCHANGED <<sink, ring, queue, flushed, inDispatch, drain, batch, flight, sunk>>

Look(w) ==
  /\ handling[w] = "kept"
  /\ handling' = [handling EXCEPT ![w] = IF flushed THEN "queue" ELSE "ring"]
  /\ UNCHANGED <<sink, logs, ring, queue, flushed, inDispatch, drain, batch, flight, sunk,
                 lost>>

\* Mutant: whether the ring has been flushed is not asked again.
AppendRingUnasked(w) ==
  /\ handling[w] = "ring"
  /\ handling' = [handling EXCEPT ![w] = "idle"]
  /\ IF Len(ring) >= RingSize
     THEN ring' = Append(Tail(ring), record(w)) /\ lost' = lost \cup {Head(ring)}
     ELSE ring' = Append(ring, record(w)) /\ UNCHANGED lost
  /\ UNCHANGED <<sink, logs, queue, flushed, inDispatch, drain, batch, flight, sunk>>

\* With ringMu held it is asked again whether the ring has been flushed.
AppendRing(w) ==
  /\ handling[w] = "ring"
  /\ IF flushed
     THEN handling' = [handling EXCEPT ![w] = "queue"] /\ UNCHANGED <<ring, lost>>
     ELSE /\ handling' = [handling EXCEPT ![w] = "idle"]
          /\ IF Len(ring) >= RingSize
             THEN ring' = Append(Tail(ring), record(w)) /\ lost' = lost \cup {Head(ring)}
             ELSE ring' = Append(ring, record(w)) /\ UNCHANGED lost
  /\ UNCHANGED <<sink, logs, queue, flushed, inDispatch, drain, batch, flight, sunk>>

AppendQueue(w) ==
  /\ handling[w] = "queue"
  /\ handling' = [handling EXCEPT ![w] = "idle"]
  /\ IF Len(queue) < QueueSize
     THEN queue' = Append(queue, record(w)) /\ UNCHANGED lost
     ELSE lost' = lost \cup {record(w)} /\ UNCHANGED queue
  /\ UNCHANGED <<sink, logs, ring, flushed, inDispatch, drain, batch, flight, sunk>>

-----------------------------------------------------------------------------
(* The drain goroutine.                                                    *)

TakeRecord ==
  /\ drain = "select" /\ queue # << >> /\ Len(batch) < MaxBatch
  /\ batch' = Append(batch, Head(queue)) /\ queue' = Tail(queue)
  /\ UNCHANGED <<sink, logs, handling, ring, flushed, inDispatch, drain, flight, sunk, lost>>

\* The ticker, when an extension is subscribed.
Tick ==
  /\ drain = "select" /\ sink
  /\ drain' = IF flushed THEN "flush" ELSE "tick"
  /\ UNCHANGED <<sink, logs, handling, ring, queue, flushed, inDispatch, batch, flight, sunk,
                 lost>>

flushRing ==
  /\ drain = "tick"
  /\ ring' = << >> /\ flushed' = TRUE
  /\ flight' = ring /\ inDispatch' = (ring # << >>)
  /\ drain' = IF ring = << >> THEN "flush" ELSE "ring"
  /\ UNCHANGED <<sink, logs, handling, queue, batch, sunk, lost>>

flushBatch ==
  /\ drain \in {"flush", "last"}
  /\ IF batch = << >>
     THEN /\ drain' = IF drain = "last" THEN "ended" ELSE "select"
          /\ UNCHANGED <<batch, flight, inDispatch>>
     ELSE /\ drain' = IF drain = "last" THEN "lastBatch" ELSE "batch"
          /\ flight' = batch /\ batch' = << >> /\ inDispatch' = TRUE
  /\ UNCHANGED <<sink, logs, handling, ring, queue, flushed, sunk, lost>>

\* dispatch returns; the sink has the records, if it is still there.
Dispatched ==
  /\ drain \in {"ring", "batch", "lastBatch"}
  /\ inDispatch' = FALSE /\ flight' = << >>
  /\ IF sink THEN sunk' = sunk \o flight /\ UNCHANGED lost
     ELSE lost' = lost \cup ToSet(flight) /\ UNCHANGED sunk
  /\ drain' = CASE drain = "ring" -> "flush" [] drain = "batch" -> "select"
                [] OTHER -> "ended"
  /\ UNCHANGED <<sink, logs, handling, ring, queue, flushed, batch>>

\* The process is about to end; what the queue still holds is not taken.
Stop ==
  /\ drain = "select" /\ drain' = "last"
  /\ UNCHANGED <<sink, logs, handling, ring, queue, flushed, inDispatch, batch, flight, sunk,
                 lost>>

\* An extension subscribes, or the extensions are reloaded.
SinkComesOrGoes ==
  /\ sink' = ~sink
  /\ UNCHANGED <<logs, handling, ring, queue, flushed, inDispatch, drain, batch, flight, sunk,
                 lost>>

LogNext ==
  \/ \E w \in Writer : Handle(w) \/ Look(w) \/ AppendRing(w) \/ AppendQueue(w)
  \/ TakeRecord \/ Tick \/ flushRing \/ flushBatch \/ Dispatched \/ Stop \/ SinkComesOrGoes

LogSpec == LogInit /\ [][LogNext]_logVars

-----------------------------------------------------------------------------
(* Properties.                                                             *)

\* The type invariant.
LogTypeOK ==
  /\ sink \in BOOLEAN /\ flushed \in BOOLEAN /\ logs \in [Writer -> 0 .. MaxLogs]
  /\ handling \in [Writer -> {"idle", "kept", "ring", "queue"}]
  /\ Len(ring) <= RingSize /\ Len(queue) <= QueueSize
  /\ inDispatch <=> drain \in {"ring", "batch", "lastBatch"}
  /\ flight # << >> => inDispatch

\* The records in the order in which they will reach the sink.
Line == sunk \o flight \o ring \o batch \o queue

\* "Records emitted before any extension subscribes are held in a ring buffer
\* and flushed once a subscriber appears, so startup logs are not lost", and
\* the ring is flushed "exactly once": a record that was not dropped is on its
\* way exactly once, the records of a goroutine in their order, and none is
\* left in the ring when nobody will look at it again.
LogKeptInOrder ==
  /\ flushed => ring = << >>
  /\ \A w \in Writer :
       LET mine == {i \in DOMAIN Line : Line[i][1] = w}
           kept == {n \in 1 .. logs[w] : <<w, n>> \notin lost
                                         /\ (handling[w] # "idle" => n < logs[w])}
       IN /\ {Line[i][2] : i \in mine} = kept
          /\ \A i, j \in mine : i < j => Line[i][2] < Line[j][2]

=============================================================================
