------------------------------ MODULE McpClient ------------------------------
(***************************************************************************)
(* The JSON-RPC connection to one MCP server (modules/mcp/server.go): the  *)
(* calls of any number of goroutines, the loop that reads the answers, and *)
(* the server behind two pipes.  One mutex protects the map of pending     *)
(* calls and is also held while a request is written to a pipe that may be *)
(* full.  The server may answer late, twice, or exit.                      *)
(***************************************************************************)
EXTENDS Integers, Sequences, FiniteSets

CONSTANTS
  Request, \* requests, by their IDs
  Nobody,  \* holds no mutex
  PipeSize \* requests and answers that fit into a pipe

ASSUME McpAssumption ==
  PipeSize \in Nat \ {0} /\ Nobody \notin Request

VARIABLES
  rpc,      \* call: how far each request is
  expired,  \* requests whose context is done
  pend,     \* s.pending
  respCh,   \* answers in the channel of each request, which has room for one
  mu,       \* who holds s.mu
  stdin,    \* requests in the pipe to the server
  owed,     \* requests the server has read and may answer
  stdout,   \* answers in the pipe from the server
  reader,   \* readLoop: "scan", "find", "send" or "ended", and the answer it has
  exited    \* the server is gone

mcpVars == <<rpc, expired, pend, respCh, mu, stdin, owed, stdout, reader, exited>>

McpInit ==
  /\ rpc = [r \in Request |-> "none"] /\ expired = {} /\ pend = {}
  /\ respCh = [r \in Request |-> 0] /\ mu = Nobody
  /\ stdin = {} /\ owed = {} /\ stdout = << >>
  /\ reader = <<"scan", Nobody>> /\ exited = FALSE

-----------------------------------------------------------------------------
(* Server.call.                                                            *)

\* The channel is in the map before the request is sent.
Register(r) ==
  /\ rpc[r] = "none" /\ mu = Nobody
  /\ pend' = pend \cup {r}
  /\ rpc' = [rpc EXCEPT ![r] = "ready"]
  /\ UNCHANGED <<expired, respCh, mu, stdin, owed, stdout, reader, exited>>

LockStdin(r) ==
  /\ rpc[r] = "ready" /\ mu = Nobody
  /\ mu' = r
  /\ rpc' = [rpc EXCEPT ![r] = "writing"]
  /\ UNCHANGED <<expired, pend, respCh, stdin, owed, stdout, reader, exited>>

\* The write waits for room, whatever the context says, and fails when the
\* server is gone.
Write(r) ==
  /\ rpc[r] = "writing"
  /\ \/ exited /\ rpc' = [rpc EXCEPT ![r] = "leaving"] /\ UNCHANGED stdin
     \/ /\ ~exited /\ Cardinality(stdin) < PipeSize
        /\ rpc' = [rpc EXCEPT ![r] = "waiting"] /\ stdin' = stdin \cup {r}
  /\ mu' = Nobody
  /\ UNCHANGED <<expired, pend, respCh, owed, stdout, reader, exited>>

ContextDone(r) ==
  /\ rpc[r] \notin {"none", "done"} /\ r \notin expired
  /\ expired' = expired \cup {r}
  /\ UNCHANGED <<rpc, pend, respCh, mu, stdin, owed, stdout, reader, exited>>

\* select: the answer, or the context.
Select(r) ==
  /\ rpc[r] = "waiting"
  /\ \/ respCh[r] > 0 /\ respCh' = [respCh EXCEPT ![r] = 0]
     \/ r \in expired /\ UNCHANGED respCh
  /\ rpc' = [rpc EXCEPT ![r] = "leaving"]
  /\ UNCHANGED <<expired, pend, mu, stdin, owed, stdout, reader, exited>>

\* The deferred clean-up.
CleanUp(r) ==
  /\ rpc[r] = "leaving" /\ mu = Nobody
  /\ pend' = pend \ {r}
  /\ rpc' = [rpc EXCEPT ![r] = "done"]
  /\ UNCHANGED <<expired, respCh, mu, stdin, owed, stdout, reader, exited>>

-----------------------------------------------------------------------------
(* readLoop.                                                               *)

ReadLine ==
  /\ reader[1] = "scan" /\ stdout # << >>
  /\ reader' = <<"find", Head(stdout)>> /\ stdout' = Tail(stdout)
  /\ UNCHANGED <<rpc, expired, pend, respCh, mu, stdin, owed, exited>>

\* Mutant: the mutex is not released when the answer has a channel.
FindAndKeep ==
  /\ reader[1] = "find" /\ mu = Nobody
  /\ IF reader[2] \in pend
     THEN reader' = [reader EXCEPT ![1] = "send"] /\ mu' = reader[2]
     ELSE reader' = <<"scan", Nobody>> /\ UNCHANGED mu
  /\ UNCHANGED <<rpc, expired, pend, respCh, stdin, owed, stdout, exited>>

\* The channel of the answer is looked up; an answer nobody waits for is
\* dropped.
Find ==
  /\ reader[1] = "find" /\ mu = Nobody
  /\ reader' = IF reader[2] \in pend THEN [reader EXCEPT ![1] = "send"]
               ELSE <<"scan", Nobody>>
  /\ UNCHANGED <<rpc, expired, pend, respCh, mu, stdin, owed, stdout, exited>>

\* The channel takes the answer when it is empty; a second answer waits here
\* for ever when the call has left.
SendAnswer ==
  /\ reader[1] = "send" /\ respCh[reader[2]] = 0
  /\ respCh' = [respCh EXCEPT ![reader[2]] = 1]
  /\ reader' = <<"scan", Nobody>>
  /\ UNCHANGED <<rpc, expired, pend, mu, stdin, owed, stdout, exited>>

\* The end of the output, or a line longer than the scanner takes; pending
\* calls are not told.
EndOfOutput ==
  /\ reader[1] = "scan"
  /\ reader' = <<"ended", Nobody>>
  /\ UNCHANGED <<rpc, expired, pend, respCh, mu, stdin, owed, stdout, exited>>

-----------------------------------------------------------------------------
(* The server.                                                             *)

ServerReads(r) ==
  /\ ~exited /\ r \in stdin
  /\ stdin' = stdin \ {r} /\ owed' = owed \cup {r}
  /\ UNCHANGED <<rpc, expired, pend, respCh, mu, stdout, reader, exited>>

\* It answers a request, and may answer it again.
ServerAnswers(r) ==
  /\ ~exited /\ r \in owed /\ Len(stdout) < PipeSize
  /\ stdout' = Append(stdout, r)
  /\ owed' \in {owed, owed \ {r}}
  /\ UNCHANGED <<rpc, expired, pend, respCh, mu, stdin, reader, exited>>

ServerExits ==
  /\ ~exited /\ exited' = TRUE
  /\ UNCHANGED <<rpc, expired, pend, respCh, mu, stdin, owed, stdout, reader>>

McpNext ==
  \/ \E r \in Request :
       \/ Register(r) \/ LockStdin(r) \/ Write(r) \/ ContextDone(r) \/ Select(r)
       \/ CleanUp(r) \/ ServerReads(r) \/ ServerAnswers(r)
  \/ ReadLine \/ Find \/ SendAnswer \/ EndOfOutput \/ ServerExits

\* Goroutines that can go on do; contexts have deadlines; the server reads its
\* input, whatever becomes of its output.  A server that stops reading keeps a
\* writer inside the mutex, and every other call with it.
McpFairness ==
  \A r \in Request :
    /\ WF_mcpVars(LockStdin(r) \/ Write(r) \/ CleanUp(r)
                    \/ (rpc[r] = "waiting" /\ Select(r)))
    /\ WF_mcpVars(ContextDone(r)) /\ WF_mcpVars(ServerReads(r))

McpSpec == McpInit /\ [][McpNext]_mcpVars /\ McpFairness

-----------------------------------------------------------------------------
(* Properties.                                                             *)

\* The type invariant; the map holds exactly the calls under way.
McpTypeOK ==
  /\ rpc \in [Request -> {"none", "ready", "writing", "waiting", "leaving", "done"}]
  /\ expired \subseteq Request /\ owed \subseteq Request /\ stdin \subseteq Request
  /\ pend = {r \in Request : rpc[r] \notin {"none", "done"}}
  /\ respCh \in [Request -> {0, 1}] /\ Len(stdout) <= PipeSize
  /\ mu \in Request => rpc[mu] = "writing"
  /\ reader[1] \in {"scan", "find", "send", "ended"} /\ exited \in BOOLEAN

\* A call ends with its context at the latest, though the server answers late,
\* twice or never, stops, or answers with a line that ends the reading: the
\* read loop may be stuck for ever, but not with the mutex.
CallEnds == \A r \in Request : rpc[r] # "none" ~> rpc[r] = "done"

\* The read loop drops an answer only when its call has ended: an answer that
\* comes at once finds the channel in the map, and the end of one call does
\* not take away the channel of another.
NoAnswerDropped ==
  [][reader[1] = "find" /\ reader'[1] = "scan" => rpc[reader[2]] = "done"]_mcpVars

=============================================================================
