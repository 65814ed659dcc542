------------------------------ MODULE AgentTree ------------------------------
(***************************************************************************)
(* The pool of agents (modules/agent/pool.go), the spawner that fills it   *)
(* (spawner.go) and its teams (team.go).  The IDs of the agents form a     *)
(* tree: an agent's children are named below it, "<parent>/<name>".        *)
(*                                                                         *)
(* A spawn, a delivery, a close and a close of a team are several steps:   *)
(* each holds the mutex of the pool only for its look at the map, and acts *)
(* afterwards on the agents it found there, which others may have removed  *)
(* and replaced since.  Of a turn it tells when a cancel can reach it and  *)
(* whether messages wait for its end; the rest is in AgentTurn.            *)
(***************************************************************************)
EXTENDS Integers, FiniteSets

CONSTANTS
  AgentId,   \* IDs of agents
  Root,      \* MainAgentID
  Parent,    \* the ID above an ID
  MaxSpawns, \* bound on the agents created under each ID
  TeamIds,   \* bound: IDs that are added to the team, one at a time
  MaxHeld,   \* bound on the deliveries under way
  Addressed  \* bound: IDs that messages are sent to

ASSUME TreeAssumption ==
  /\ Root \in AgentId /\ Parent \in [AgentId \ {Root} -> AgentId]
  /\ MaxSpawns \in [AgentId -> Nat \ {0}] /\ MaxHeld \in Nat
  /\ TeamIds \subseteq AgentId /\ Addressed \subseteq AgentId

\* IDs are paths: the way up from any of them ends at the root.
ASSUME PathAssumption ==
  \A ids \in SUBSET AgentId :
    (\A id \in ids : id # Root /\ Parent[id] \in ids) => ids = {}

VARIABLES
  pool,     \* the agent in the map under each ID, by number, or 0
  spawned,  \* agents created under each ID so far
  turnOf,   \* the turn of each agent: "none", "starting" (isRunning is set, the
            \* stored cancel function is that of an earlier turn), "run", or
            \* "cancelled" (its context is done)
  waiting,  \* agents with messages in the inbox
  held,     \* agents that a delivery has looked up and not yet reached
  doomed,   \* removed agents that a close has still to cancel
  team,     \* the team: "none", "up" or "gone"
  members,  \* IDs in the team
  joining,  \* IDs that AddMember has found in the pool
  leaving,  \* IDs that the close of the team has still to close
  late,     \* history: IDs spawned while an agent above was not in the pool
  teamWas   \* history: agents of the team when its close read the members

working  == <<turnOf, waiting>>
teams    == <<team, members, joining, leaving, teamWas>>
treeVars == <<pool, spawned, working, held, doomed, teams, late>>

Agent == UNION {{id} \X (1 .. MaxSpawns[id]) : id \in AgentId}
Live(id) == pool[id] # 0
AgentOf(id) == <<id, pool[id]>>
InPool(a) == pool[a[1]] = a[2]

\* IDs above an ID: a path has as many as it has steps to the root.
Above[id \in AgentId] == IF id = Root THEN {} ELSE {Parent[id]} \cup Above[Parent[id]]

\* isDescendantID.
descendants(id) == {d \in AgentId : id \in Above[d]}

TreeInit ==
  /\ pool = [id \in AgentId |-> IF id = Root THEN 1 ELSE 0]
  /\ spawned = pool
  /\ turnOf = [a \in Agent |-> "none"] /\ waiting = {} /\ held = {} /\ doomed = {}
  /\ team = "none" /\ members = {} /\ joining = {} /\ leaving = {}
  /\ late = {} /\ teamWas = {}

-----------------------------------------------------------------------------
(* Spawner.Spawn.                                                          *)

\* AgentPool.Spawn: refused for an ID in use; nobody asks for the parent,
\* whose turn called create_agent and may have been closed since.  Callbacks
\* are installed after the pool has the agent; the initial prompt is sent by a
\* goroutine of its own, like any message to the ID.
SpawnAgent(id) ==
  /\ id # Root /\ ~Live(id)
  /\ spawned[Parent[id]] > 0 /\ spawned[id] < MaxSpawns[id]
  /\ spawned' = [spawned EXCEPT ![id] = @ + 1]
  /\ pool' = [pool EXCEPT ![id] = spawned[id] + 1]
  /\ late' = IF \A b \in Above[id] : Live(b) THEN late \ {id} ELSE late \cup {id}
  /\ UNCHANGED <<working, held, doomed, teams>>

-----------------------------------------------------------------------------
(* Turns and messages.                                                     *)

\* Mutant: the inbox is read and not drained.
StartKeeping(a) ==
  /\ turnOf' = [turnOf EXCEPT ![a] = "starting"]
  /\ UNCHANGED waiting

\* Submit on an idle agent: the inbox is drained and the flag set.
Start(a) ==
  /\ turnOf' = [turnOf EXCEPT ![a] = "starting"]
  /\ waiting' = waiting \ {a}

\* Deliver, Send: the agent is looked up in the pool, by the host, by an
\* extension or by a turn that tells its creator of its end ...
LookUp(id) ==
  /\ Live(id) /\ id \in Addressed /\ Cardinality(held) < MaxHeld
  /\ held' = held \cup {AgentOf(id)}
  /\ UNCHANGED <<pool, spawned, working, doomed, teams, late>>

\* ... and the message is appended without the mutex, and starts a turn if it
\* is to wake the agent and finds it idle.
Reach(a) ==
  /\ a \in held
  /\ held' = held \ {a}
  /\ \/ turnOf[a] = "none" /\ Start(a)
     \/ waiting' = waiting \cup {a} /\ UNCHANGED turnOf
  /\ UNCHANGED <<pool, spawned, doomed, teams, late>>

\* The turn has a context of its own, and its cancel function is stored.
StoreCancel(a) ==
  /\ turnOf[a] = "starting"
  /\ turnOf' = [turnOf EXCEPT ![a] = "run"]
  /\ UNCHANGED <<pool, spawned, waiting, held, doomed, teams, late>>

\* finishTurn: a turn that knows its context to be done leaves the inbox as it
\* is; any other, and one that was cancelled and ends without having asked,
\* hands what is in it over to a follow-up turn, in the pool or not.
TurnEnds(a) ==
  /\ turnOf[a] \in {"run", "cancelled"}
  /\ \/ turnOf' = [turnOf EXCEPT ![a] = "none"] /\ UNCHANGED waiting
     \/ a \in waiting /\ Start(a)
  /\ UNCHANGED <<pool, spawned, held, doomed, teams, late>>

-----------------------------------------------------------------------------
(* Close and Cancel.                                                       *)

\* Mutant: what is below the agent is cancelled but not removed.
RemoveOne(id) ==
  LET ids == {d \in {id} \cup descendants(id) : Live(d)}
  IN /\ pool' = [pool EXCEPT ![id] = 0]
     /\ doomed' = doomed \cup {AgentOf(d) : d \in ids}

\* What Close removes with the mutex held: the agent and what is below it.
Remove(id) ==
  LET ids == {d \in {id} \cup descendants(id) : Live(d)}
  IN /\ pool' = [d \in AgentId |-> IF d \in ids THEN 0 ELSE pool[d]]
     /\ doomed' = doomed \cup {AgentOf(d) : d \in ids}

Close(id) ==
  /\ id # Root /\ Live(id)
  /\ Remove(id)
  /\ UNCHANGED <<spawned, working, held, teams, late>>

\* Agent.Cancel calls the stored function: the turn that stored it is
\* cancelled; one that is starting has not done so.
Cancelled(agents) ==
  [a \in Agent |-> IF a \in agents /\ turnOf[a] = "run" THEN "cancelled" ELSE turnOf[a]]

\* The removed agents are cancelled one by one after the mutex is released.
CancelDoomed(a) ==
  /\ a \in doomed
  /\ doomed' = doomed \ {a}
  /\ turnOf' = Cancelled({a})
  /\ UNCHANGED <<pool, spawned, waiting, held, teams, late>>

\* Cancel of an agent and what is below it.
CancelAgent(id) ==
  /\ Live(id)
  /\ turnOf' = Cancelled({AgentOf(d) : d \in {d \in {id} \cup descendants(id) : Live(d)}})
  /\ UNCHANGED <<pool, spawned, waiting, held, doomed, teams, late>>

-----------------------------------------------------------------------------
(* Teams.                                                                  *)

CreateTeam ==
  /\ team = "none"
  /\ team' = "up"
  /\ UNCHANGED <<pool, spawned, working, held, doomed, members, joining, leaving, teamWas, late>>

\* AddMember looks for the agent in the pool ...
FindMember(id) ==
  /\ team = "up" /\ Live(id) /\ id \in TeamIds \ members /\ joining = {}
  /\ joining' = joining \cup {id}
  /\ UNCHANGED <<pool, spawned, working, held, doomed, team, members, leaving, teamWas, late>>

\* ... and adds it to the team, which may have been closed meanwhile.
AddMember(id) ==
  /\ id \in joining
  /\ joining' = joining \ {id}
  /\ members' = members \cup {id}
  /\ UNCHANGED <<pool, spawned, working, held, doomed, team, leaving, teamWas, late>>

\* RemoveMember of a team that was looked up, maybe before it was closed.
RemoveMember(id) ==
  /\ team # "none" /\ id \in members
  /\ members' = members \ {id}
  /\ UNCHANGED <<pool, spawned, working, held, doomed, team, joining, leaving, teamWas, late>>

\* CloseTeam removes the team from the pool; Team.Close reads and empties it.
CloseTeam ==
  /\ team = "up"
  /\ team' = "gone"
  /\ leaving' = members /\ members' = {}
  /\ teamWas' = {AgentOf(id) : id \in {m \in members : Live(m)}}
  /\ UNCHANGED <<pool, spawned, working, held, doomed, joining, late>>

\* Mutant: the first error ends the loop.
CloseMemberOrStop(id) ==
  /\ id \in leaving
  /\ IF id # Root /\ Live(id) THEN Remove(id) /\ leaving' = leaving \ {id}
     ELSE UNCHANGED <<pool, doomed>> /\ leaving' = {}
  /\ UNCHANGED <<spawned, working, held, team, members, joining, teamWas, late>>

\* Each member is closed by its ID; the root and an absent agent are errors
\* that do not end the loop.
CloseMember(id) ==
  /\ id \in leaving
  /\ leaving' = leaving \ {id}
  /\ IF id # Root /\ Live(id) THEN Remove(id) ELSE UNCHANGED <<pool, doomed>>
  /\ UNCHANGED <<spawned, working, held, team, members, joining, teamWas, late>>

-----------------------------------------------------------------------------
TreeNext ==
  \/ \E id \in AgentId :
       \/ SpawnAgent(id) \/ LookUp(id)
       \/ Close(id) \/ CancelAgent(id)
       \/ FindMember(id) \/ AddMember(id) \/ RemoveMember(id) \/ CloseMember(id)
  \/ \E a \in Agent : Reach(a) \/ StoreCancel(a) \/ TurnEnds(a) \/ CancelDoomed(a)
  \/ CreateTeam \/ CloseTeam

TreeSpec == TreeInit /\ [][TreeNext]_treeVars

-----------------------------------------------------------------------------
(* Properties.                                                             *)

\* The type invariant: an ID has one agent in the pool, the last created.
TreeTypeOK ==
  /\ \A id \in AgentId :
       spawned[id] \in 0 .. MaxSpawns[id] /\ pool[id] \in {0, spawned[id]}
  /\ turnOf \in [Agent -> {"none", "starting", "run", "cancelled"}]
  /\ waiting \subseteq Agent /\ held \subseteq Agent /\ doomed \subseteq Agent
  /\ team \in {"none", "up", "gone"}
  /\ members \subseteq AgentId /\ joining \subseteq AgentId /\ leaving \subseteq AgentId
  /\ late \subseteq AgentId /\ teamWas \subseteq Agent

\* "Close ... removes it and every agent beneath it": no interleaving of
\* closes, team closes and respawns leaves an agent behind without one above
\* it, but for agents spawned when the one above was already gone, which
\* Spawn does not refuse.
NoneLeftBehind ==
  \A id \in AgentId :
    Live(id) /\ (\E b \in Above[id] : ~Live(b)) => id \in late

\* An agent that was removed and that no delivery has found; the turns that it
\* can still run: the one it is in, and one for what is in its inbox.
Removed(a) == a[2] <= spawned[a[1]] /\ ~InPool(a) /\ a \notin held
TurnsLeft(a) ==
  (IF turnOf[a] = "none" THEN 0 ELSE 1) + (IF a \in waiting THEN 1 ELSE 0)

\* A removed agent winds down: nothing finds it again, though agents are created
\* under its ID and messages sent to it; it starts no turn from rest; and each
\* turn that ends leaves fewer to run, though a turn that was starting misses the
\* cancel of the close, and one with messages waiting is followed by another.
WindsDown ==
  [][\A a \in Agent : Removed(a) =>
       /\ Removed(a)' /\ TurnsLeft(a)' <= TurnsLeft(a)
       /\ turnOf[a] = "none" => turnOf'[a] = "none"
       /\ TurnEnds(a) => TurnsLeft(a)' < TurnsLeft(a)]_treeVars

\* Claim of the code: "every cancelled context interrupts in-flight turns": the
\* cancel of a close reaches the turn that an agent it removed was in.
KillInterrupts ==
  [][\A a \in doomed \ doomed' : turnOf'[a] \in {"none", "cancelled"}]_treeVars

\* "Close cancels all member agents": when the loop is through, none of the
\* agents that were in the team when it started is in the pool, the root
\* excepted, whatever was closed, cancelled and respawned meanwhile.
TeamIsClosed ==
  team = "gone" /\ leaving = {} => \A a \in teamWas : a[1] = Root \/ ~InPool(a)

=============================================================================
