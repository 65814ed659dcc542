----------------------------- MODULE Agents_proofs -----------------------------
(***************************************************************************)
(* Theorems about AgentTree, for any tree of IDs and any number of agents, *)
(* and about Conversation, for any context window and any messages.        *)
(***************************************************************************)
EXTENDS AgentTree, Conversation, WellFoundedInduction, SequenceTheorems, TLAPS

-----------------------------------------------------------------------------
(* The IDs above an ID.                                                    *)

\* What is above an ID, defined without recursion: what every set has that has
\* the parent of the ID and the parents of its own members.
ClosedAbove(id, ids) ==
  /\ id # Root => Parent[id] \in ids
  /\ \A b \in ids : b # Root => Parent[b] \in ids

Reached(id) ==
  {b \in AgentId : \A ids \in SUBSET AgentId : ClosedAbove(id, ids) => b \in ids}

\* What is reached from an ID is what is reached from its parent, and the parent.
LEMMA ReachedEquation ==
  \A id \in AgentId :
    Reached(id) = IF id = Root THEN {} ELSE {Parent[id]} \cup Reached(Parent[id])
<1> SUFFICES ASSUME NEW id \in AgentId
             PROVE  Reached(id) = IF id = Root THEN {}
                                  ELSE {Parent[id]} \cup Reached(Parent[id])
  OBVIOUS
<1>1. CASE id = Root
  <2>1. ClosedAbove(Root, {})
    BY DEF ClosedAbove
  <2> QED
    BY <1>1, <2>1 DEF Reached
<1>2. CASE id # Root
  <2> DEFINE p == Parent[id]
  <2>1. p \in AgentId /\ \A b \in AgentId \ {Root} : Parent[b] \in AgentId
    BY <1>2, TreeAssumption
  <2>2. ASSUME NEW ids \in SUBSET AgentId, ClosedAbove(id, ids)
        PROVE  p \in ids /\ ClosedAbove(p, ids)
    BY <1>2, <2>2 DEF ClosedAbove
  <2>3. {p} \cup Reached(p) \subseteq Reached(id)
    BY <2>1, <2>2 DEF Reached
  <2>4. ClosedAbove(id, {p} \cup Reached(p))
    <3>1. ASSUME NEW b \in Reached(p), b # Root PROVE Parent[b] \in Reached(p)
      BY <2>1, <3>1 DEF Reached, ClosedAbove
    <3>2. p # Root => Parent[p] \in Reached(p)
      BY <2>1 DEF Reached, ClosedAbove
    <3> QED
      BY <1>2, <3>1, <3>2 DEF ClosedAbove
  <2>5. {p} \cup Reached(p) \in SUBSET AgentId
    BY <2>1 DEF Reached
  <2>6. Reached(id) \subseteq {p} \cup Reached(p)
    BY <2>4, <2>5 DEF Reached
  <2> QED
    BY <1>2, <2>3, <2>6
<1> QED
  BY <1>1, <1>2

\* So the equation that defines Above has a solution.
LEMMA AboveEquation ==
  Above = [id \in AgentId |-> IF id = Root THEN {} ELSE {Parent[id]} \cup Above[Parent[id]]]
<1> DEFINE Solves(f) ==
             f = [id \in AgentId |-> IF id = Root THEN {}
                                     ELSE {Parent[id]} \cup f[Parent[id]]]
           r == [id \in AgentId |-> Reached(id)]
<1>1. \A id \in AgentId \ {Root} : Parent[id] \in AgentId /\ r[Parent[id]] = Reached(Parent[id])
  BY TreeAssumption
<1>2. \A id \in AgentId :
        Reached(id) = IF id = Root THEN {} ELSE {Parent[id]} \cup r[Parent[id]]
  BY <1>1, ReachedEquation
<1>3. Solves(r)
  BY <1>2
<1>4. Above = CHOOSE f : Solves(f)
  BY DEF Above
<1> HIDE DEF r
<1>5. Solves(Above)
  BY <1>3, <1>4
<1> QED
  BY <1>5

\* What is above an ID is an ID, and so is what is above that.
LEMMA AboveTransitive ==
  \A id \in AgentId : \A b \in Above[id] : b \in AgentId /\ Above[b] \subseteq Above[id]
<1> DEFINE Bad == {id \in AgentId :
                     \E b \in Above[id] : ~(b \in AgentId /\ Above[b] \subseteq Above[id])}
<1>1. /\ Above[Root] = {}
      /\ \A id \in AgentId \ {Root} : Above[id] = {Parent[id]} \cup Above[Parent[id]]
  BY AboveEquation, TreeAssumption
<1>2. ASSUME NEW id \in Bad PROVE id # Root /\ Parent[id] \in Bad
  <2>1. id # Root /\ id \in AgentId
    BY <1>1
  <2>2. Parent[id] \in AgentId /\ Above[id] = {Parent[id]} \cup Above[Parent[id]]
    BY <1>1, <2>1, TreeAssumption
  <2>3. PICK b \in Above[id] : ~(b \in AgentId /\ Above[b] \subseteq Above[id])
    OBVIOUS
  <2>4. b \in Above[Parent[id]] /\ ~(b \in AgentId /\ Above[b] \subseteq Above[Parent[id]])
    BY <2>2, <2>3
  <2> QED
    BY <2>1, <2>2, <2>4
<1>3. Bad = {}
  BY <1>2, PathAssumption
<1> QED
  BY <1>3

\* Nothing is above the root.
LEMMA AboveRoot == Above[Root] = {}
BY AboveEquation, TreeAssumption

-----------------------------------------------------------------------------
(* The inductive invariant.                                                *)

\* While the close of the team runs, an agent it found is gone or its ID is
\* still to be closed; an ID that is spawned again has another agent.
TeamLeaves ==
  \A a \in teamWas :
    /\ a[2] <= spawned[a[1]]
    /\ team = "gone" => a[1] = Root \/ ~InPool(a) \/ a[1] \in leaving

TreeInv ==
  /\ pool \in [AgentId -> Nat] /\ spawned \in [AgentId -> Nat]
  /\ TreeTypeOK
  /\ NoneLeftBehind
  /\ TeamLeaves

\* An agent is an ID with a number.
LEMMA AgentPair ==
  /\ \A a \in Agent : /\ a[1] \in AgentId /\ a[2] \in 1 .. MaxSpawns[a[1]]
                      /\ a[2] \in Nat \ {0} /\ a = <<a[1], a[2]>>
  /\ \A id \in AgentId, n \in Nat \ {0} : n <= MaxSpawns[id] => <<id, n>> \in Agent
<1>1. MaxSpawns \in [AgentId -> Nat \ {0}]
  BY TreeAssumption
<1>2. ASSUME NEW a \in Agent
      PROVE  /\ a[1] \in AgentId /\ a[2] \in 1 .. MaxSpawns[a[1]]
             /\ a[2] \in Nat \ {0} /\ a = <<a[1], a[2]>>
  <2>1. PICK id \in AgentId : a \in {id} \X (1 .. MaxSpawns[id])
    BY DEF Agent
  <2> QED
    BY <1>1, <2>1
<1>3. ASSUME NEW id \in AgentId, NEW n \in Nat \ {0}, n <= MaxSpawns[id]
      PROVE  <<id, n>> \in Agent
  <2>1. <<id, n>> \in {id} \X (1 .. MaxSpawns[id])
    BY <1>1, <1>3
  <2> QED
    BY <2>1 DEF Agent
<1> QED
  BY <1>2, <1>3

\* The agent in the pool under an ID is an agent.
LEMMA LiveAgent ==
  ASSUME TreeInv, NEW id \in AgentId, Live(id)
  PROVE  AgentOf(id) \in Agent /\ pool[id] = spawned[id]
<1>1. pool[id] = spawned[id] /\ spawned[id] \in 0 .. MaxSpawns[id] /\ pool[id] # 0
  BY DEF TreeInv, TreeTypeOK, Live
<1>2. pool[id] \in Nat \ {0} /\ pool[id] <= MaxSpawns[id]
  BY <1>1, TreeAssumption
<1> QED
  BY <1>1, <1>2, AgentPair DEF AgentOf

\* The invariant holds at the start.
LEMMA TreeInitial == TreeInit => TreeInv
<1> SUFFICES ASSUME TreeInit PROVE TreeInv
  OBVIOUS
<1>1. MaxSpawns \in [AgentId -> Nat \ {0}] /\ Root \in AgentId
  BY TreeAssumption
<1>2. /\ pool \in [AgentId -> Nat] /\ spawned \in [AgentId -> Nat]
      /\ \A id \in AgentId : pool[id] = spawned[id] /\ spawned[id] \in 0 .. MaxSpawns[id]
      /\ \A id \in AgentId : Live(id) <=> id = Root
  BY <1>1 DEF TreeInit, Live
<1>3. TreeTypeOK
  BY <1>2 DEF TreeInit, TreeTypeOK
<1>4. NoneLeftBehind
  BY <1>2, AboveRoot DEF NoneLeftBehind
<1>5. TeamLeaves
  BY DEF TreeInit, TeamLeaves
<1> QED
  BY <1>2, <1>3, <1>4, <1>5 DEF TreeInv

-----------------------------------------------------------------------------
(* Removal, which Close and the close of a team's member share.            *)

\* What is removed is closed under descent: an agent that stays has none above
\* it that goes.
LEMMA RemoveKeeps ==
  ASSUME TreeInv, NEW id \in AgentId, id # Root, Remove(id),
         spawned' = spawned, late' = late
  PROVE  /\ pool' \in [AgentId -> Nat]
         /\ \A d \in AgentId : pool'[d] \in {0, pool[d]}
         /\ pool'[id] = 0
         /\ doomed' \subseteq Agent
         /\ NoneLeftBehind'
<1> DEFINE ids == {d \in {id} \cup descendants(id) : Live(d)}
<1>1. /\ pool' = [d \in AgentId |-> IF d \in ids THEN 0 ELSE pool[d]]
      /\ doomed' = doomed \cup {AgentOf(d) : d \in ids}
  BY DEF Remove
<1>2. ids \subseteq AgentId /\ \A d \in ids : Live(d)
  BY DEF descendants
<1>3. \A d \in AgentId : Live(d) /\ (d = id \/ id \in Above[d]) => d \in ids
  BY DEF descendants
<1>4. \A d \in ids : d = id \/ id \in Above[d]
  BY DEF descendants
<1> HIDE DEF ids
<1>5. /\ pool' \in [AgentId -> Nat]
      /\ \A d \in AgentId : pool'[d] \in {0, pool[d]}
  BY <1>1 DEF TreeInv
<1>6. pool'[id] = 0
  BY <1>1, <1>3 DEF Live
<1>7. doomed' \subseteq Agent
  BY <1>1, <1>2, LiveAgent DEF TreeInv, TreeTypeOK
<1>8. NoneLeftBehind'
  <2> SUFFICES ASSUME NEW d \in AgentId, Live(d)', NEW b \in Above[d], ~Live(b)'
               PROVE  d \in late
    BY DEF NoneLeftBehind
  <2>1. d \notin ids /\ Live(d)
    BY <1>1 DEF Live
  <2>2. b \in AgentId /\ Above[b] \subseteq Above[d]
    BY AboveTransitive
  <2>3. b \notin ids
    BY <1>3, <1>4, <2>1, <2>2
  <2>4. ~Live(b)
    BY <1>1, <2>2, <2>3 DEF Live
  <2> QED
    BY <2>1, <2>4 DEF NoneLeftBehind, TreeInv
<1> QED
  BY <1>5, <1>6, <1>7, <1>8

-----------------------------------------------------------------------------
(* The steps.                                                              *)

\* A new agent has a number no agent had before it.
LEMMA SpawnStep ==
  ASSUME TreeInv, NEW id \in AgentId, SpawnAgent(id)
  PROVE  TreeInv'
<1>1. /\ pool \in [AgentId -> Nat] /\ spawned \in [AgentId -> Nat]
      /\ spawned[id] < MaxSpawns[id] /\ MaxSpawns[id] \in Nat /\ spawned[id] \in Nat
  BY TreeAssumption DEF TreeInv, SpawnAgent
<1>2. /\ pool' = [pool EXCEPT ![id] = spawned[id] + 1]
      /\ spawned' = [spawned EXCEPT ![id] = spawned[id] + 1]
      /\ pool[id] = 0
  BY DEF SpawnAgent, Live
<1>3. /\ pool' \in [AgentId -> Nat] /\ spawned' \in [AgentId -> Nat]
      /\ pool'[id] = spawned[id] + 1 /\ spawned'[id] = spawned[id] + 1
      /\ \A d \in AgentId : d # id => pool'[d] = pool[d] /\ spawned'[d] = spawned[d]
  BY <1>1, <1>2
<1>4. /\ UNCHANGED <<turnOf, waiting, held, doomed, team, members, joining, leaving,
                      teamWas>>
      /\ late' = IF \A b \in Above[id] : Live(b) THEN late \ {id} ELSE late \cup {id}
  BY DEF SpawnAgent, working, teams
<1>5. TreeTypeOK'
  <2>1. \A d \in AgentId : spawned'[d] \in 0 .. MaxSpawns[d] /\ pool'[d] \in {0, spawned'[d]}
    BY <1>1, <1>3 DEF TreeInv, TreeTypeOK
  <2>2. late' \subseteq AgentId
    BY <1>4 DEF TreeInv, TreeTypeOK
  <2> QED
    BY <1>4, <2>1, <2>2 DEF TreeInv, TreeTypeOK
<1>6. NoneLeftBehind'
  <2> SUFFICES ASSUME NEW d \in AgentId, Live(d)', NEW b \in Above[d], ~Live(b)'
               PROVE  d \in late'
    BY DEF NoneLeftBehind
  <2>1. b \in AgentId
    BY AboveTransitive
  <2>2. ~Live(b)
    BY <1>1, <1>3, <2>1 DEF Live
  <2>3. CASE d = id
    BY <1>4, <2>2, <2>3
  <2>4. CASE d # id
    BY <1>3, <1>4, <2>2, <2>4 DEF NoneLeftBehind, TreeInv, Live
  <2> QED
    BY <2>3, <2>4
<1>8. TeamLeaves'
  <2> SUFFICES ASSUME NEW a \in teamWas
               PROVE  /\ a[2] <= spawned'[a[1]]
                      /\ team = "gone" => a[1] = Root \/ ~InPool(a)' \/ a[1] \in leaving
    BY <1>4 DEF TeamLeaves
  <2>1. a[1] \in AgentId /\ a[2] \in Nat /\ a[2] <= spawned[a[1]]
    BY AgentPair DEF TreeInv, TreeTypeOK, TeamLeaves
  <2>2. a[2] <= spawned'[a[1]]
    BY <1>1, <1>3, <2>1
  <2>3. InPool(a)' => InPool(a)
    BY <1>1, <1>3, <2>1 DEF InPool
  <2> QED
    BY <2>2, <2>3 DEF TeamLeaves, TreeInv
<1> QED
  BY <1>3, <1>5, <1>6, <1>8 DEF TreeInv

\* A close of an ID.
LEMMA CloseStep ==
  ASSUME TreeInv, NEW id \in AgentId, Close(id)
  PROVE  TreeInv'
<1>1. /\ id # Root /\ Remove(id)
      /\ UNCHANGED <<spawned, turnOf, waiting, held, team, members, joining, leaving, late,
                      teamWas>>
  BY DEF Close, working, teams
<1>2. /\ pool' \in [AgentId -> Nat]
      /\ \A d \in AgentId : pool'[d] \in {0, pool[d]}
      /\ doomed' \subseteq Agent
      /\ NoneLeftBehind'
  BY <1>1, RemoveKeeps
<1>3. TreeTypeOK'
  BY <1>1, <1>2 DEF TreeInv, TreeTypeOK
<1>4. TeamLeaves'
  <2>1. \A a \in teamWas : a[1] \in AgentId /\ a[2] \in Nat \ {0}
    BY AgentPair DEF TreeInv, TreeTypeOK
  <2>2. \A a \in teamWas : InPool(a)' => InPool(a)
    BY <1>2, <2>1 DEF InPool
  <2> QED
    BY <1>1, <2>2 DEF TeamLeaves, TreeInv
<1> QED
  BY <1>1, <1>2, <1>3, <1>4 DEF TreeInv

\* The close of one member of the team.
LEMMA CloseMemberStep ==
  ASSUME TreeInv, NEW id \in AgentId, CloseMember(id)
  PROVE  TreeInv'
<1>1. /\ leaving' = leaving \ {id}
      /\ UNCHANGED <<spawned, turnOf, waiting, held, team, members, joining, late, teamWas>>
  BY DEF CloseMember, working
<1>2. /\ pool' \in [AgentId -> Nat]
      /\ \A d \in AgentId : pool'[d] \in {0, pool[d]}
      /\ id = Root \/ pool'[id] = 0
      /\ doomed' \subseteq Agent
      /\ NoneLeftBehind'
  <2>1. CASE id # Root /\ Live(id)
    BY <1>1, <2>1, RemoveKeeps DEF CloseMember
  <2>2. CASE ~(id # Root /\ Live(id))
    <3>1. pool' = pool /\ doomed' = doomed
      BY <2>2 DEF CloseMember
    <3>2. NoneLeftBehind'
      BY <1>1, <3>1 DEF TreeInv, NoneLeftBehind, Live
    <3> QED
      BY <2>2, <3>1, <3>2 DEF TreeInv, TreeTypeOK, Live
  <2> QED
    BY <2>1, <2>2
<1>3. TreeTypeOK'
  BY <1>1, <1>2 DEF TreeInv, TreeTypeOK
<1>4. TeamLeaves'
  <2> SUFFICES ASSUME NEW a \in teamWas
               PROVE  team = "gone" => a[1] = Root \/ ~InPool(a)' \/ a[1] \in leaving'
    BY <1>1 DEF TeamLeaves, TreeInv
  <2>1. a[1] \in AgentId /\ a[2] \in Nat \ {0}
    BY AgentPair DEF TreeInv, TreeTypeOK
  <2>2. InPool(a)' => InPool(a)
    BY <1>2, <2>1 DEF InPool
  <2>3. a[1] = id => id = Root \/ ~InPool(a)'
    BY <1>2, <2>1 DEF InPool
  <2> QED
    BY <1>1, <2>2, <2>3 DEF TeamLeaves, TreeInv
<1> QED
  BY <1>1, <1>2, <1>3, <1>4 DEF TreeInv

\* Steps that leave the map of the pool alone.
LEMMA PoolUntouched ==
  ASSUME TreeInv, UNCHANGED <<pool, spawned, late>>,
         TreeTypeOK', UNCHANGED <<team, leaving, teamWas>>
  PROVE  TreeInv'
<1>1. NoneLeftBehind'
  BY DEF TreeInv, NoneLeftBehind, Live
<1>2. TeamLeaves'
  BY DEF TreeInv, TeamLeaves, InPool
<1> QED
  BY <1>1, <1>2 DEF TreeInv

\* What a cancel leaves of the turns.
LEMMA CancelledType ==
  ASSUME TreeTypeOK, NEW agents
  PROVE  Cancelled(agents) \in [Agent -> {"none", "starting", "run", "cancelled"}]
BY DEF TreeTypeOK, Cancelled

\* The steps that leave the pool alone, or only a turn or the team, keep it.
LEMMA OtherSteps ==
  ASSUME TreeInv,
         \/ \E id \in AgentId : \/ LookUp(id) \/ CancelAgent(id) \/ FindMember(id)
                               \/ AddMember(id) \/ RemoveMember(id)
         \/ \E a \in Agent : Reach(a) \/ StoreCancel(a) \/ TurnEnds(a) \/ CancelDoomed(a)
         \/ CreateTeam \/ CloseTeam \/ UNCHANGED treeVars
  PROVE  TreeInv'
<1> USE DEF TreeInv, working, teams
<1>1. ASSUME NEW id \in AgentId, LookUp(id) PROVE TreeInv'
  <2>1. AgentOf(id) \in Agent
    BY <1>1, LiveAgent DEF LookUp
  <2>2. TreeTypeOK'
    BY <1>1, <2>1 DEF LookUp, TreeTypeOK
  <2> QED
    BY <1>1, <2>2, PoolUntouched DEF LookUp
<1>2. ASSUME NEW id \in AgentId, CancelAgent(id) PROVE TreeInv'
  <2>1. TreeTypeOK'
    BY <1>2, CancelledType DEF CancelAgent, TreeTypeOK
  <2> QED
    BY <1>2, <2>1, PoolUntouched DEF CancelAgent
<1>3. ASSUME NEW id \in AgentId, FindMember(id) PROVE TreeInv'
  <2>1. TreeTypeOK'
    BY <1>3 DEF FindMember, TreeTypeOK
  <2> QED
    BY <1>3, <2>1, PoolUntouched DEF FindMember
<1>4. ASSUME NEW id \in AgentId, AddMember(id) \/ RemoveMember(id) PROVE TreeInv'
  <2>1. TreeTypeOK'
    BY <1>4 DEF AddMember, RemoveMember, TreeTypeOK
  <2> QED
    BY <1>4, <2>1, PoolUntouched DEF AddMember, RemoveMember
<1>5. ASSUME NEW a \in Agent, Reach(a) \/ StoreCancel(a) \/ TurnEnds(a) PROVE TreeInv'
  <2>1. /\ turnOf' \in [Agent -> {"none", "starting", "run", "cancelled"}]
        /\ waiting' \subseteq Agent /\ held' \subseteq Agent
    BY <1>5 DEF Reach, StoreCancel, TurnEnds, Start, TreeTypeOK
  <2>2. UNCHANGED <<pool, spawned, doomed, team, members, joining, leaving, teamWas, late>>
    BY <1>5 DEF Reach, StoreCancel, TurnEnds
  <2>3. TreeTypeOK'
    BY <2>1, <2>2 DEF TreeTypeOK
  <2> QED
    BY <2>2, <2>3, PoolUntouched
<1>7. ASSUME NEW a \in Agent, CancelDoomed(a) PROVE TreeInv'
  <2>1. TreeTypeOK'
    BY <1>7, CancelledType DEF CancelDoomed, TreeTypeOK
  <2> QED
    BY <1>7, <2>1, PoolUntouched DEF CancelDoomed
<1>8. CASE CreateTeam
  <2>1. TreeTypeOK' /\ NoneLeftBehind'
    BY <1>8 DEF CreateTeam, TreeTypeOK, NoneLeftBehind, Live
  <2>2. TeamLeaves'
    BY <1>8 DEF CreateTeam, TeamLeaves, InPool
  <2> QED
    BY <1>8, <2>1, <2>2 DEF CreateTeam
<1>9. CASE CloseTeam
  <2>1. /\ leaving' = members /\ members' = {}
        /\ teamWas' = {AgentOf(id) : id \in {m \in members : Live(m)}}
        /\ UNCHANGED <<pool, spawned, turnOf, waiting, held, doomed, joining, late>>
        /\ team' = "gone"
    BY <1>9 DEF CloseTeam
  <2>2. \A a \in teamWas' : a \in Agent /\ a[1] \in members /\ a[2] <= spawned[a[1]]
    <3> SUFFICES ASSUME NEW id \in members, Live(id)
                 PROVE  /\ AgentOf(id) \in Agent /\ AgentOf(id)[1] = id
                        /\ AgentOf(id)[2] <= spawned[id]
      BY <2>1
    <3>1. id \in AgentId
      BY DEF TreeTypeOK
    <3>2. AgentOf(id) \in Agent /\ pool[id] = spawned[id] /\ spawned[id] \in Nat
      BY <3>1, LiveAgent
    <3> QED
      BY <3>2 DEF AgentOf
  <2>3. TreeTypeOK'
    BY <2>1, <2>2 DEF TreeTypeOK
  <2>4. NoneLeftBehind'
    BY <2>1 DEF NoneLeftBehind, Live
  <2>5. TeamLeaves'
    BY <2>1, <2>2 DEF TeamLeaves
  <2> QED
    BY <2>1, <2>3, <2>4, <2>5
<1>10. CASE UNCHANGED treeVars
  <2>1. TreeTypeOK'
    BY <1>10 DEF treeVars, TreeTypeOK
  <2> QED
    BY <1>10, <2>1, PoolUntouched DEF treeVars
<1> QED
  BY <1>1, <1>2, <1>3, <1>4, <1>5, <1>7, <1>8, <1>9, <1>10

\* Every step keeps the invariant.
LEMMA TreeKept == TreeInv /\ [TreeNext]_treeVars => TreeInv'
BY SpawnStep, CloseStep, CloseMemberStep, OtherSteps DEF TreeNext

\* The invariant holds.
LEMMA TreeInvariant == TreeSpec => []TreeInv
BY TreeInitial, TreeKept, PTL DEF TreeSpec

-----------------------------------------------------------------------------
(* What follows.                                                           *)

\* An ID has no agent in the pool or the last one created under it.
THEOREM TreeTypeCorrect == TreeSpec => []TreeTypeOK
<1>1. TreeInv => TreeTypeOK
  BY DEF TreeInv
<1> QED
  BY TreeInvariant, <1>1, PTL

\* However closes, closes of a team and spawns interleave, an agent without one
\* above it was spawned when that one was already gone (pool.go: Close, Spawn).
THEOREM NoneLeftBehindCorrect == TreeSpec => []NoneLeftBehind
<1>1. TreeInv => NoneLeftBehind
  BY DEF TreeInv
<1> QED
  BY TreeInvariant, <1>1, PTL

\* A removed agent that no delivery holds winds down (pool.go: Close, Spawn,
\* Deliver; agent.go: finishTurn): the number of an agent that is created is new,
\* what is looked up is in the pool, and a follow-up turn takes the inbox.
THEOREM WindsDownCorrect == TreeSpec => WindsDown
<1> DEFINE Fewer(a) == /\ Removed(a)' /\ TurnsLeft(a)' <= TurnsLeft(a)
                       /\ turnOf[a] = "none" => turnOf'[a] = "none"
                       /\ TurnEnds(a) => TurnsLeft(a)' < TurnsLeft(a)
<1>1. ASSUME TreeInv, [TreeNext]_treeVars, NEW a \in Agent, Removed(a) PROVE Fewer(a)
  <2> USE DEF working, teams
  <2>0. /\ a[1] \in AgentId /\ a[2] \in Nat \ {0} /\ a = <<a[1], a[2]>>
        /\ a[2] <= spawned[a[1]] /\ pool[a[1]] # a[2] /\ a \notin held
        /\ pool \in [AgentId -> Nat] /\ spawned \in [AgentId -> Nat]
        /\ turnOf \in [Agent -> {"none", "starting", "run", "cancelled"}]
    BY <1>1, AgentPair DEF Removed, InPool, TreeInv, TreeTypeOK
  <2>1. TurnEnds(a) => TurnsLeft(a)' < TurnsLeft(a)
    BY <2>0 DEF TurnEnds, Start, TurnsLeft
  <2>2. ASSUME Removed(a)', turnOf'[a] = "none" <=> turnOf[a] = "none",
               a \in waiting' => a \in waiting
        PROVE  Fewer(a)
    BY <2>1, <2>2 DEF TurnsLeft
  <2>3. ASSUME UNCHANGED <<pool, spawned>>, a \notin held' PROVE Removed(a)'
    BY <2>0, <2>3 DEF Removed, InPool
  <2>4. ASSUME NEW id \in AgentId, SpawnAgent(id) PROVE Fewer(a)
    <3>1. /\ spawned' = [spawned EXCEPT ![id] = @ + 1]
          /\ pool' = [pool EXCEPT ![id] = spawned[id] + 1]
          /\ UNCHANGED <<turnOf, waiting, held>>
      BY <2>4 DEF SpawnAgent
    <3>2. a[2] <= spawned'[a[1]] /\ pool'[a[1]] # a[2]
      BY <2>0, <3>1
    <3>3. Removed(a)'
      BY <2>0, <3>1, <3>2 DEF Removed, InPool
    <3> QED
      BY <2>2, <3>1, <3>3
  <2>5. ASSUME NEW id \in AgentId, LookUp(id) PROVE Fewer(a)
    <3>1. UNCHANGED <<pool, spawned, turnOf, waiting>> /\ held' = held \cup {AgentOf(id)}
      BY <2>5 DEF LookUp
    <3>2. a # AgentOf(id)
      BY <2>0 DEF AgentOf
    <3> QED
      BY <2>0, <2>2, <2>3, <3>1, <3>2
  <2>6. ASSUME NEW id \in AgentId, Close(id) \/ CloseMember(id) PROVE Fewer(a)
    <3>1. UNCHANGED <<spawned, turnOf, waiting, held>>
      BY <2>6 DEF Close, CloseMember
    <3>2. pool'[a[1]] \in {0, pool[a[1]]}
      BY <2>0, <2>6 DEF Close, CloseMember, Remove
    <3>3. Removed(a)'
      BY <2>0, <3>1, <3>2 DEF Removed, InPool
    <3> QED
      BY <2>2, <3>1, <3>3
  <2>7. ASSUME NEW b \in Agent, Reach(b) PROVE Fewer(a)
    <3>1. a # b /\ UNCHANGED <<pool, spawned>> /\ held' \subseteq held
      BY <2>0, <2>7 DEF Reach
    <3>2. turnOf'[a] = turnOf[a] /\ (a \in waiting' => a \in waiting)
      BY <2>0, <2>7, <3>1 DEF Reach, Start
    <3> QED
      BY <2>0, <2>2, <2>3, <3>1, <3>2
  <2>8. ASSUME NEW b \in Agent, StoreCancel(b) \/ CancelDoomed(b) PROVE Fewer(a)
    <3>1. UNCHANGED <<pool, spawned, waiting, held>>
      BY <2>8 DEF StoreCancel, CancelDoomed
    <3>2. turnOf'[a] = "none" <=> turnOf[a] = "none"
      BY <2>0, <2>8 DEF StoreCancel, CancelDoomed, Cancelled
    <3> QED
      BY <2>0, <2>2, <2>3, <3>1, <3>2
  <2>9. ASSUME NEW b \in Agent, TurnEnds(b) PROVE Fewer(a)
    <3>1. UNCHANGED <<pool, spawned, held>>
      BY <2>9 DEF TurnEnds
    <3>2. Removed(a)'
      BY <2>0, <2>3, <3>1
    <3>3. CASE a = b
      BY <2>0, <2>1, <2>9, <3>2, <3>3 DEF TurnEnds, TurnsLeft
    <3>4. CASE a # b
      BY <2>0, <2>2, <2>9, <3>2, <3>4 DEF TurnEnds, Start
    <3> QED
      BY <3>3, <3>4
  <2>10. ASSUME NEW id \in AgentId, CancelAgent(id) PROVE Fewer(a)
    <3>1. UNCHANGED <<pool, spawned, waiting, held>>
      BY <2>10 DEF CancelAgent
    <3>2. turnOf'[a] = "none" <=> turnOf[a] = "none"
      BY <2>0, <2>10 DEF CancelAgent, Cancelled
    <3> QED
      BY <2>0, <2>2, <2>3, <3>1, <3>2
  <2>11. ASSUME UNCHANGED <<pool, spawned, turnOf, waiting, held>> PROVE Fewer(a)
    BY <2>0, <2>2, <2>3, <2>11
  <2>12. ASSUME NEW id \in AgentId, FindMember(id) \/ AddMember(id) \/ RemoveMember(id)
         PROVE  Fewer(a)
    BY <2>11, <2>12 DEF FindMember, AddMember, RemoveMember
  <2>13. CASE CreateTeam \/ CloseTeam \/ UNCHANGED treeVars
    BY <2>11, <2>13 DEF CreateTeam, CloseTeam, treeVars
  <2> QED
    BY <1>1, <2>4, <2>5, <2>6, <2>7, <2>8, <2>9, <2>10, <2>12, <2>13 DEF TreeNext
<1>2. TreeInv /\ [TreeNext]_treeVars => [\A a \in Agent : Removed(a) => Fewer(a)]_treeVars
  BY <1>1
<1> QED
  BY TreeInvariant, <1>2, PTL DEF TreeSpec, WindsDown

\* A team that has been closed has none of its agents left in the pool, but the
\* root, though IDs are closed and spawned again under the loop (team.go: Close).
THEOREM TeamIsClosedCorrect == TreeSpec => []TeamIsClosed
<1>1. TreeInv => TeamIsClosed
  BY DEF TreeInv, TeamLeaves, TeamIsClosed
<1> QED
  BY TreeInvariant, <1>1, PTL

-----------------------------------------------------------------------------
(* Conversation: numbers and recursions over a sequence.                   *)

\* Induction, over a set of numbers: the smallest number outside it would have a
\* predecessor in it.
LEMMA SetInduction ==
  ASSUME NEW S \in SUBSET Nat, 0 \in S, \A n \in S : n + 1 \in S
  PROVE  S = Nat
<1> DEFINE T == Nat \ S
           R == OpToRel(<, Nat)
<1> SUFFICES ASSUME T # {} PROVE FALSE
  OBVIOUS
<1>1. IsWellFoundedOn(R, Nat)
  BY NatLessThanWellFounded
<1>2. \A m, n \in Nat : m < n => <<m, n>> \in R
  BY DEF OpToRel
<1> HIDE DEF R
<1>3. T \subseteq Nat
  OBVIOUS
<1> HIDE DEF T
<1>4. PICK x \in T : \A y \in T : ~ (<<y, x>> \in R)
  BY <1>1, <1>3, WFMin
<1>5. x \in Nat /\ x # 0
  BY <1>4 DEF T
<1>6. x - 1 \in Nat /\ x - 1 < x /\ (x - 1) + 1 = x
  BY <1>5
<1>7. x - 1 \notin T
  BY <1>2, <1>4, <1>5, <1>6
<1>8. x - 1 \in S
  BY <1>6, <1>7 DEF T
<1> QED
  BY <1>4, <1>6, <1>8 DEF T

\* A set of indices has a smallest member and a greatest one.
LEMMA Extremes ==
  ASSUME NEW n \in Nat, NEW S \in SUBSET (1 .. n), S # {}
  PROVE  Min(S) \in S /\ (\A x \in S : Min(S) <= x) /\ Max(S) \in S
<1>1. \E x \in S : \A y \in S : x =< y
  <2> DEFINE T == {k \in Nat : \A y \in S : k < y}
  <2> SUFFICES ASSUME ~ \E x \in S : \A y \in S : x =< y PROVE FALSE
    OBVIOUS
  <2>1. 0 \in T
    OBVIOUS
  <2>2. ASSUME NEW k \in T PROVE k + 1 \in T
    <3>1. \A y \in S : k + 1 <= y
      OBVIOUS
    <3>2. k + 1 \notin S
      BY <3>1
    <3> QED
      BY <3>1, <3>2
  <2>3. T \in SUBSET Nat
    OBVIOUS
  <2> HIDE DEF T
  <2>4. T = Nat
    BY <2>1, <2>2, <2>3, SetInduction
  <2>5. \A y \in S : n < y
    BY <2>4 DEF T
  <2>6. PICK y \in S : TRUE
    OBVIOUS
  <2>7. y \in 1 .. n /\ n < y
    BY <2>5, <2>6
  <2> QED
    BY <2>7
<1>2. \E x \in S : \A y \in S : x >= y
  <2> DEFINE T == {k \in Nat : \A y \in S : y < n + 1 - k}
  <2> SUFFICES ASSUME ~ \E x \in S : \A y \in S : x >= y PROVE FALSE
    OBVIOUS
  <2>1. 0 \in T
    OBVIOUS
  <2>2. ASSUME NEW k \in T PROVE k + 1 \in T
    <3>1. \A y \in S : y <= n + 1 - (k + 1)
      OBVIOUS
    <3>2. n + 1 - (k + 1) \notin S
      BY <3>1
    <3> QED
      BY <3>1, <3>2
  <2>3. T \in SUBSET Nat
    OBVIOUS
  <2> HIDE DEF T
  <2>4. T = Nat
    BY <2>1, <2>2, <2>3, SetInduction
  <2>5. \A y \in S : y < n + 1 - n
    BY <2>4 DEF T
  <2>6. PICK y \in S : TRUE
    OBVIOUS
  <2>7. y \in 1 .. n /\ y < n + 1 - n
    BY <2>5, <2>6
  <2> QED
    BY <2>7
<1> QED
  BY <1>1, <1>2 DEF Min, Max

\* f is what the steps make of x, index by index.
Unrolls(f, n, S, x, step) ==
  f \in [0 .. n -> S] /\ f[0] = x /\ \A i \in 1 .. n : f[i] = step[i][f[i - 1]]

\* A recursion over the indices of a sequence has a solution.
LEMMA SolutionExists ==
  ASSUME NEW n \in Nat, NEW S, NEW x \in S, NEW step,
         \A i \in 1 .. n : \A s \in S : step[i][s] \in S
  PROVE  \E f : Unrolls(f, n, S, x, step)
<1> DEFINE Part(k, f) == f[0] = x /\ \A i \in 1 .. k : f[i] = step[i][f[i - 1]]
           Starts(k) == \E f \in [0 .. k -> S] : Part(k, f)
           T == {k \in Nat : k <= n => Starts(k)}
<1>1. 0 \in T
  <2> DEFINE f == [i \in 0 .. 0 |-> x]
  <2>1. Part(0, f) /\ f \in [0 .. 0 -> S]
    OBVIOUS
  <2>2. Starts(0)
    BY <2>1
  <2> HIDE DEF Starts
  <2> QED
    BY <2>2
<1>2. ASSUME NEW k \in T PROVE k + 1 \in T
  <2>1. k \in Nat /\ k + 1 \in Nat /\ (k <= n => Starts(k))
    <3> HIDE DEF Starts
    <3> QED
      OBVIOUS
  <2>2. ASSUME k + 1 <= n PROVE Starts(k + 1)
    <3>1. PICK f \in [0 .. k -> S] : Part(k, f)
      <4>1. k <= n
        BY <2>1, <2>2
      <4>2. Starts(k)
        BY <2>1, <4>1
      <4> QED
        BY <4>2
    <3> DEFINE y == step[k + 1][f[k]]
               g == [i \in 0 .. k + 1 |-> IF i = k + 1 THEN y ELSE f[i]]
    <3>2. y \in S
      <4>1. k + 1 \in 1 .. n /\ f[k] \in S
        BY <2>1, <2>2
      <4> QED
        BY <4>1
    <3>3. g \in [0 .. k + 1 -> S]
      <4> HIDE DEF y
      <4> QED
        BY <2>1, <3>2
    <3>4. g[k + 1] = step[k + 1][f[k]] /\ \A i \in 0 .. k : g[i] = f[i]
      BY <2>1
    <3> HIDE DEF g
    <3>5. ASSUME NEW i \in 1 .. k + 1 PROVE g[i] = step[i][g[i - 1]]
      <4>1. CASE i = k + 1
        <5>1. i - 1 = k /\ k \in 0 .. k
          BY <2>1, <4>1
        <5> QED
          BY <3>4, <4>1, <5>1
      <4>2. CASE i # k + 1
        <5>1. i \in 1 .. k /\ i \in 0 .. k /\ i - 1 \in 0 .. k
          BY <2>1, <4>2
        <5> QED
          BY <3>1, <3>4, <5>1
      <4> QED
        BY <4>1, <4>2
    <3>6. g[0] = x
      BY <2>1, <3>1, <3>4
    <3> QED
      BY <3>3, <3>5, <3>6
  <2> HIDE DEF Starts
  <2> QED
    BY <2>1, <2>2
<1>3. T \in SUBSET Nat
  OBVIOUS
<1> HIDE DEF T
<1>4. n \in T
  BY <1>1, <1>2, <1>3, SetInduction
<1>5. Starts(n)
  <2> HIDE DEF Starts
  <2> QED
    BY <1>4 DEF T
<1> QED
  BY <1>5 DEF Unrolls

\* What a recursion keeps.
LEMMA SolutionType ==
  ASSUME NEW n \in Nat, NEW S, NEW u, u[0] \in S,
         \A i \in 1 .. n : u[i - 1] \in S => u[i] \in S
  PROVE  u[n] \in S
<1> DEFINE T == {k \in Nat : k <= n => u[k] \in S}
<1>1. 0 \in T /\ T \in SUBSET Nat
  OBVIOUS
<1>2. ASSUME NEW k \in T PROVE k + 1 \in T
  <2>1. CASE k + 1 <= n
    <3>1. k + 1 \in 1 .. n /\ (k + 1) - 1 = k /\ u[k] \in S
      BY <2>1
    <3>2. u[k + 1] \in S
      BY <3>1
    <3> QED
      BY <3>2
  <2>2. CASE ~(k + 1 <= n)
    BY <2>2
  <2> QED
    BY <2>1, <2>2
<1> HIDE DEF T
<1>3. n \in T
  BY <1>1, <1>2, SetInduction
<1> QED
  BY <1>3 DEF T

\* The sizes of the messages add up to a number.
LEMMA TokensType == \A h \in Seq(Message) : estimateTokens(h) \in Nat
<1> SUFFICES ASSUME NEW h \in Seq(Message) PROVE estimateTokens(h) \in Nat
  OBVIOUS
<1> DEFINE n == Len(h)
           S == Nat
           zero == 0
           Sums(u) == u = [i \in 0 .. n |-> IF i = 0 THEN 0 ELSE u[i - 1] + h[i].size]
           upTo == CHOOSE u : Sums(u)
           step == [i \in 1 .. n |-> [s \in S |-> s + h[i].size]]
<1>1. estimateTokens(h) = upTo[n]
  BY DEF estimateTokens
<1>2. n \in Nat /\ \A i \in 1 .. n : h[i].size \in Nat
  <2>1. n \in Nat /\ \A i \in 1 .. n : h[i] \in Message
    OBVIOUS
  <2> QED
    BY <2>1 DEF Message
<1> HIDE DEF n
<1>3. \A i \in 1 .. n : \A s \in S : step[i][s] = s + h[i].size
  OBVIOUS
<1>4. zero \in S /\ \A i \in 1 .. n : \A s \in S : step[i][s] \in S
  BY <1>2
<1> HIDE DEF step, S, zero, Sums, upTo
<1>5. PICK f : Unrolls(f, n, S, zero, step)
  <2>1. n \in Nat
    BY <1>2
  <2> QED
    BY <2>1, <1>4, SolutionExists
<1>6. \A i \in 1 .. n : f[i - 1] \in S /\ f[i] = f[i - 1] + h[i].size
  <2>1. \A i \in 1 .. n : f[i - 1] \in S
    BY <1>2, <1>5 DEF Unrolls
  <2> QED
    BY <1>3, <1>5, <2>1 DEF Unrolls
<1>7. Sums(f)
  <2>1. \A i \in 0 .. n : f[i] = IF i = 0 THEN 0 ELSE f[i - 1] + h[i].size
    BY <1>2, <1>5, <1>6 DEF zero, Unrolls
  <2> QED
    BY <1>5, <2>1 DEF Sums, Unrolls
<1>8. Sums(upTo)
  BY <1>7 DEF upTo
<1>9. upTo[0] = 0 /\ \A i \in 1 .. n : upTo[i] = upTo[i - 1] + h[i].size
  BY <1>2, <1>8 DEF Sums
<1>10. upTo[0] \in S /\ \A i \in 1 .. n : upTo[i - 1] \in S => upTo[i] \in S
  <2>1. \A i \in 1 .. n : upTo[i - 1] \in Nat => upTo[i - 1] + h[i].size \in Nat
    BY <1>2
  <2>2. \A i \in 1 .. n : upTo[i - 1] \in Nat => upTo[i] \in Nat
    BY <1>9, <2>1
  <2> QED
    BY <1>9, <2>2 DEF S
<1>11. upTo[n] \in S
  BY <1>2, <1>10, SolutionType
<1> QED
  BY <1>1, <1>11 DEF S

\* What is said to the model is a sequence of messages.
LEMMA SaidType == \A h \in Seq(Message) : Said(h) \in Seq(Message)
<1> SUFFICES ASSUME NEW h \in Seq(Message) PROVE Said(h) \in Seq(Message)
  OBVIOUS
<1> DEFINE n == Len(h)
           S == Seq(Message)
           none == << >>
           next(i, s) == IF Control(h[i]) THEN s ELSE Append(s, h[i])
           Takes(u) == u = [i \in 0 .. n |-> IF i = 0 THEN << >>
                                             ELSE IF Control(h[i]) THEN u[i - 1]
                                             ELSE Append(u[i - 1], h[i])]
           upTo == CHOOSE u : Takes(u)
           step == [i \in 1 .. n |-> [s \in S |-> next(i, s)]]
<1>1. Said(h) = upTo[n]
  BY DEF Said
<1>2. n \in Nat /\ none \in S /\ \A i \in 1 .. n : \A s \in S : next(i, s) \in S
  OBVIOUS
<1>3. Takes(upTo) \/ ~ \E u : Takes(u)
  <2> HIDE DEF Takes
  <2> QED
    OBVIOUS
<1> HIDE DEF n, upTo
<1>4. \A u : u = [i \in 0 .. n |-> IF i = 0 THEN none ELSE next(i, u[i - 1])] <=> Takes(u)
  OBVIOUS
<1> HIDE DEF S, none, next, Takes
<1>5. \A i \in 1 .. n : \A s \in S : step[i][s] = next(i, s)
  BY <1>2
<1> HIDE DEF step
<1>6. PICK f : Unrolls(f, n, S, none, step)
  <2>1. n \in Nat
    BY <1>2
  <2>2. none \in S
    BY <1>2
  <2>3. \A i \in 1 .. n : \A s \in S : step[i][s] \in S
    BY <1>2, <1>5
  <2> QED
    BY <2>1, <2>2, <2>3, SolutionExists
<1>7. \A i \in 1 .. n : f[i - 1] \in S /\ f[i] = next(i, f[i - 1])
  <2>1. \A i \in 1 .. n : f[i - 1] \in S
    BY <1>2, <1>6 DEF Unrolls
  <2> QED
    BY <1>5, <1>6, <2>1 DEF Unrolls
<1>8. Takes(f)
  <2>1. \A i \in 0 .. n : f[i] = IF i = 0 THEN none ELSE next(i, f[i - 1])
    BY <1>2, <1>6, <1>7 DEF Unrolls
  <2>2. f = [i \in 0 .. n |-> IF i = 0 THEN none ELSE next(i, f[i - 1])]
    BY <1>6, <2>1 DEF Unrolls
  <2> QED
    BY <1>4, <2>2
<1>9. upTo = [i \in 0 .. n |-> IF i = 0 THEN none ELSE next(i, upTo[i - 1])]
  BY <1>3, <1>4, <1>8
<1>10. upTo[0] \in S /\ \A i \in 1 .. n : upTo[i - 1] \in S => upTo[i] \in S
  <2>1. upTo[0] = none /\ \A i \in 1 .. n : upTo[i] = next(i, upTo[i - 1])
    BY <1>2, <1>9
  <2> QED
    BY <1>2, <2>1
<1>11. upTo[n] \in S
  BY <1>2, <1>10, SolutionType
<1> QED
  BY <1>1, <1>11 DEF S

-----------------------------------------------------------------------------
(* Conversation: cutting, folding and truncating.                          *)

\* The budget is made of integers.
LEMMA BudgetTypes == Budget.Safety \in Int /\ Budget.KeepRecent \in Int
<1> DEFINE reserve == IF Window \div 4 > 0 THEN Min2(Reserve, Window \div 4) ELSE Reserve
           safety  == IF Window > reserve THEN Window - reserve ELSE Window \div 2
           part    == (Window * Percent) \div 100
           trigger == IF part > 0 THEN Min2(part, safety) ELSE safety
           goal    == (trigger * 8) \div 10
           band    == IF goal - reserve < MinKeep THEN trigger \div 2 ELSE goal - reserve
           keep    == Max2(Min2(Window \div 10, band), MinKeep)
           most    == IF Window \div 4 > 0 THEN Min2(keep, Window \div 4) ELSE keep
           recent  == Max2(1, most)
<1>1. Window \in Int /\ Reserve \in Int /\ Percent \in Int /\ MinKeep \in Int
  BY ConversationAssumption
<1>2. \A a, b \in Int : Min2(a, b) \in Int /\ Max2(a, b) \in Int
  BY DEF Min2, Max2
<1>3. Window \div 4 \in Int /\ Window \div 2 \in Int /\ Window \div 10 \in Int
  BY <1>1
<1>4. Window * Percent \in Int
  BY <1>1
<1>5. part \in Int
  BY <1>4
<1>6. reserve \in Int
  BY <1>1, <1>2, <1>3
<1>7. safety \in Int
  <2> HIDE DEF reserve
  <2> QED
    BY <1>1, <1>3, <1>6
<1>8. trigger \in Int
  <2> HIDE DEF part, safety
  <2> QED
    BY <1>2, <1>5, <1>7
<1>9. goal \in Int /\ trigger \div 2 \in Int
  <2> HIDE DEF trigger
  <2> QED
    BY <1>8
<1>10. band \in Int
  <2> HIDE DEF goal, trigger, reserve
  <2> QED
    BY <1>1, <1>6, <1>9
<1>11. keep \in Int
  <2> HIDE DEF band
  <2> QED
    BY <1>1, <1>2, <1>3, <1>10
<1>12. recent \in Int
  <2>1. most \in Int
    <3> HIDE DEF keep
    <3> QED
      BY <1>2, <1>3, <1>11
  <2> HIDE DEF most
  <2> QED
    BY <1>2, <2>1
<1>13. Budget.Safety = safety /\ Budget.KeepRecent = recent
  BY DEF Budget
<1> QED
  BY <1>7, <1>12, <1>13

\* A cut behind the second message: what is kept begins with a user message.
LEMMA CutKeeps ==
  ASSUME NEW h \in Seq(Message), NEW keep
  PROVE  /\ CutOf(h, keep) \in Nat
         /\ CutOf(h, keep) > 1 => /\ CutOf(h, keep) \in 2 .. Len(h) - 1
                                  /\ UserRole(h[CutOf(h, keep) + 1])
<1> DEFINE rest == Tail(h)
           n == Len(rest)
           cut == findCutPoint(rest, keep)
           forced == Users(rest, 2)
           c == CutOf(h, keep)
<1> SUFFICES ASSUME Len(h) >= 2
             PROVE  c \in Nat /\ (c > 1 => c \in 2 .. Len(h) - 1 /\ UserRole(h[c + 1]))
  <2>1. Len(h) < 2 => c = 0
    BY DEF CutOf
  <2>2. Len(h) \in Nat
    OBVIOUS
  <2> HIDE DEF c
  <2>3. Len(h) < 2 => c \in Nat /\ ~(c > 1)
    BY <2>1
  <2> QED
    BY <2>2, <2>3 DEF c
<1>1. c = IF cut = 0 /\ forced # {} THEN Max(forced) ELSE cut
  BY DEF CutOf
<1>9. Len(h) \in Nat /\ Len(h) >= 2
  OBVIOUS
<1>2. /\ rest \in Seq(Message) /\ n = Len(h) - 1 /\ n \in Nat \ {0}
      /\ \A i \in 1 .. n : rest[i] = h[i + 1]
  <2> HIDE DEF cut, forced, c
  <2>1. h # << >>
    BY <1>9
  <2>2. /\ rest \in Seq(Message) /\ Len(rest) = Len(h) - 1
        /\ \A i \in 1 .. Len(rest) : rest[i] = h[i + 1]
    BY <2>1, HeadTailProperties
  <2>3. \A l \in Nat : l >= 2 => l - 1 \in Nat \ {0}
    OBVIOUS
  <2>4. Len(h) - 1 \in Nat \ {0}
    BY <1>9, <2>3
  <2> QED
    BY <2>2, <2>4
<1> HIDE DEF rest
<1>3. ASSUME NEW from \in Nat \ {0}
      PROVE  Users(rest, from) \in SUBSET (1 .. n) /\ \A i \in Users(rest, from) : UserRole(rest[i])
  BY <1>2 DEF Users
<1>4. cut = 0 \/ (cut \in 1 .. n /\ UserRole(rest[cut]))
  <2> DEFINE over == {i \in DOMAIN rest : estimateTokens(SubSeq(rest, i, Len(rest))) > keep}
             cuts == IF over = {} THEN {} ELSE Users(rest, Max(over))
  <2>1. cut = IF cuts = {} THEN 0 ELSE Min(cuts)
    BY DEF findCutPoint
  <2>2. over \in SUBSET (1 .. n)
    BY <1>2
  <2>3. over # {} => Max(over) \in over
    <3> HIDE DEF over
    <3> QED
      BY <1>2, <2>2, Extremes
  <2>4. over # {} => Max(over) \in Nat \ {0}
    <3> HIDE DEF over, n
    <3>1. \A i \in over : i \in Nat \ {0}
      BY <1>2, <2>2
    <3> QED
      BY <2>3, <3>1
  <2> HIDE DEF over
  <2>5. cuts \in SUBSET (1 .. n) /\ \A i \in cuts : UserRole(rest[i])
    BY <1>3, <2>4
  <2> HIDE DEF cuts
  <2>6. cuts # {} => Min(cuts) \in cuts
    BY <1>2, <2>5, Extremes
  <2> QED
    BY <2>1, <2>5, <2>6
<1>5. forced # {} => Max(forced) \in 1 .. n /\ UserRole(rest[Max(forced)])
  <2>1. forced \in SUBSET (1 .. n) /\ \A i \in forced : UserRole(rest[i])
    BY <1>3
  <2> HIDE DEF forced
  <2>2. forced # {} => Max(forced) \in forced
    BY <1>2, <2>1, Extremes
  <2> QED
    BY <2>1, <2>2
<1> HIDE DEF cut, forced, c
<1>6. c = 0 \/ (c \in 1 .. n /\ UserRole(rest[c]))
  BY <1>1, <1>4, <1>5
<1> HIDE DEF n
<1>7. c \in Nat
  BY <1>2, <1>6
<1>8. c > 1 => c \in 2 .. Len(h) - 1 /\ UserRole(h[c + 1])
  BY <1>2, <1>6
<1> QED
  BY <1>7, <1>8

\* What passes of a compaction that wrote the summary nr leave of a history: its
\* first message, the summary, and an end of it that begins with a user message.
Folded(h, c, nr) ==
  IF nr = 0 THEN c = h
  ELSE /\ Len(c) >= 2 /\ c[1] = h[1] /\ c[2].nr = nr
       /\ \E i \in 2 .. Len(h) : /\ UserRole(h[i]) /\ Len(c) - 2 = Len(h) - i + 1
                                 /\ \A k \in 3 .. Len(c) : c[k] = h[i + k - 3]

\* A pass more folds more.
LEMMA PassFolds ==
  ASSUME NEW h \in Seq(Message), NEW c \in Seq(Message), NEW nr \in Nat, Folded(h, c, nr),
         NEW cut \in 2 .. Len(c) - 1, UserRole(c[cut + 1]),
         NEW m \in Message, m.nr # 0
  PROVE  LET d == compactHistory(c, cut, m)
         IN /\ d \in Seq(Message) /\ Len(d) <= Len(c) /\ Len(d) >= 2
            /\ Folded(h, d, m.nr)
<1> DEFINE d == compactHistory(c, cut, m)
           rest == SubSeq(c, cut + 1, Len(c))
           n == Len(c)
<1>1. n \in Nat /\ c[1] \in Message /\ cut + 1 \in 3 .. n
  OBVIOUS
<1>2. /\ rest \in Seq(Message) /\ Len(rest) = n - cut
      /\ \A k \in 1 .. n - cut : rest[k] = c[cut + k]
  BY <1>1
<1> HIDE DEF rest
<1>3. /\ d \in Seq(Message) /\ Len(d) = n - cut + 2 /\ d[1] = c[1] /\ d[2] = m
      /\ \A k \in 3 .. n - cut + 2 : d[k] = rest[k - 2]
  <2>1. d = <<c[1], m>> \o rest
    BY DEF compactHistory, rest
  <2> DEFINE two == <<c[1], m>>
  <2>2. two \in Seq(Message) /\ Len(two) = 2 /\ two[1] = c[1] /\ two[2] = m
    BY <1>1
  <2> HIDE DEF two, d
  <2> DEFINE both == two \o rest
             l == n - cut
  <2>3. /\ rest \in Seq(Message) /\ Len(rest) = l /\ l \in Nat /\ l + 2 = n - cut + 2
    BY <1>1, <1>2
  <2> HIDE DEF l
  <2>4. /\ both \in Seq(Message) /\ Len(both) = l + 2 /\ both[1] = c[1] /\ both[2] = m
        /\ \A k \in 3 .. l + 2 : both[k] = rest[k - 2]
    <3>1. /\ both \in Seq(Message) /\ Len(both) = 2 + l
          /\ \A k \in 1 .. 2 : both[k] = two[k]
          /\ \A k \in 1 .. l : both[2 + k] = rest[k]
      <4>1. /\ both \in Seq(Message) /\ Len(both) = Len(two) + Len(rest)
            /\ \A k \in 1 .. Len(two) + Len(rest) :
                 both[k] = IF k <= Len(two) THEN two[k] ELSE rest[k - Len(two)]
        BY <2>2, <2>3, ConcatProperties
      <4> HIDE DEF both
      <4>2. /\ Len(both) = 2 + l
            /\ \A k \in 1 .. 2 + l : both[k] = IF k <= 2 THEN two[k] ELSE rest[k - 2]
        BY <2>2, <2>3, <4>1
      <4>3. ASSUME NEW k \in 1 .. 2 PROVE both[k] = two[k]
        <5>1. k \in 1 .. 2 + l /\ k <= 2
          BY <2>3
        <5> QED
          BY <4>2, <5>1
      <4>4. ASSUME NEW k \in 1 .. l PROVE both[2 + k] = rest[k]
        <5>1. 2 + k \in 1 .. 2 + l /\ ~(2 + k <= 2) /\ (2 + k) - 2 = k
          BY <2>3
        <5> QED
          BY <4>2, <5>1
      <4> QED
        BY <4>1, <4>2, <4>3, <4>4
    <3> HIDE DEF both
    <3>2. ASSUME NEW k \in 3 .. l + 2 PROVE both[k] = rest[k - 2]
      <4>1. k - 2 \in 1 .. l /\ 2 + (k - 2) = k
        BY <2>3
      <4> QED
        BY <3>1, <4>1
    <3> QED
      BY <2>2, <2>3, <3>1, <3>2
  <2> QED
    BY <2>1, <2>3, <2>4 DEF two
<1>4. \A k \in 3 .. n - cut + 2 : d[k] = c[cut + k - 2]
  <2> SUFFICES ASSUME NEW k \in 3 .. n - cut + 2 PROVE d[k] = c[cut + k - 2]
    OBVIOUS
  <2>1. k - 2 \in 1 .. n - cut /\ cut + (k - 2) = cut + k - 2
    BY <1>1
  <2> QED
    BY <1>2, <1>3, <2>1
<1> HIDE DEF d
<1>5. Folded(h, d, m.nr)
  <2>1. CASE nr = 0
    <3>1. c = h
      BY <2>1 DEF Folded
    <3>2. cut + 1 \in 2 .. Len(h) /\ UserRole(h[cut + 1]) /\ Len(d) - 2 = Len(h) - (cut + 1) + 1
      BY <1>1, <1>3, <3>1
    <3>3. ASSUME NEW k \in 3 .. Len(d) PROVE d[k] = h[(cut + 1) + k - 3]
      <4>1. cut + k - 2 = (cut + 1) + k - 3
        BY <1>1, <1>3
      <4> QED
        BY <1>1, <1>3, <1>4, <3>1, <4>1
    <3>4. d[1] = h[1] /\ d[2].nr = m.nr /\ Len(d) >= 2
      BY <1>1, <1>3, <3>1
    <3> QED
      BY <3>2, <3>3, <3>4 DEF Folded
  <2>2. CASE nr # 0
    <3>1. PICK i \in 2 .. Len(h) : /\ UserRole(h[i]) /\ n - 2 = Len(h) - i + 1
                                   /\ \A k \in 3 .. n : c[k] = h[i + k - 3]
      BY <2>2 DEF Folded
    <3> DEFINE e == i + cut - 2
    <3>2. c[cut + 1] = h[e] /\ e \in 2 .. Len(h)
      <4>1. i + (cut + 1) - 3 = e
        BY <1>1, <3>1
      <4>2. c[cut + 1] = h[i + (cut + 1) - 3]
        BY <1>1, <3>1
      <4> QED
        BY <1>1, <3>1, <4>1, <4>2
    <3>3. Len(d) - 2 = Len(h) - e + 1
      BY <1>1, <1>3, <3>1
    <3>4. ASSUME NEW k \in 3 .. Len(d) PROVE d[k] = h[e + k - 3]
      <4>1. cut + k - 2 \in 3 .. n /\ i + (cut + k - 2) - 3 = e + k - 3
        BY <1>1, <1>3, <3>1
      <4>2. c[cut + k - 2] = h[i + (cut + k - 2) - 3]
        BY <3>1, <4>1
      <4>3. d[k] = c[cut + k - 2]
        BY <1>3, <1>4
      <4> QED
        BY <4>1, <4>2, <4>3
    <3>5. d[1] = h[1] /\ d[2].nr = m.nr /\ Len(d) >= 2 /\ UserRole(h[e])
      BY <1>1, <1>3, <2>2, <3>2 DEF Folded
    <3> HIDE DEF e
    <3> QED
      BY <3>2, <3>3, <3>4, <3>5 DEF Folded
  <2> QED
    BY <2>1, <2>2
<1> QED
  BY <1>1, <1>3, <1>5 DEF d

\* The request of a turn has a size.
LEMMA EstimateType ==
  \A h, p \in Seq(Message) : /\ contextEstimate(h, p) \in Nat /\ estimateTokens(h) \in Nat
                             /\ contextEstimate(h, p) = estimateTokens(h) + Fixed + estimateTokens(p)
<1>1. Fixed \in Nat
  BY ConversationAssumption
<1>2. \A a, b, c \in Nat : a + b + c \in Nat
  OBVIOUS
<1> QED
  BY <1>1, <1>2, TokensType DEF contextEstimate

\* A truncated history is a sequence of messages.
LEMMA TruncatedType ==
  ASSUME NEW h \in Seq(Message), NEW p \in Seq(Message)
  PROVE  truncateHistory(h, p) \in Seq(Message)
<1> DEFINE room == Max2(1, Budget.Safety - (Fixed + estimateTokens(p)) - NoticeReserve)
           anchor == IF Len(h) > 1 /\ h[1].size <= room \div 4 THEN <<h[1]>> ELSE << >>
           avail == Max2(1, room - estimateTokens(anchor))
           last == truncateContent(h[Len(h)], avail)
           n == Len(h)
           front == SubSeq(h, 1, n - 1)
           fits == {i \in DOMAIN front :
                      last.size + estimateTokens(SubSeq(front, i, Len(front))) <= avail}
           from == Min(fits \cup {n})
<1> SUFFICES ASSUME h # << >> PROVE Shortened(h, room) \in Seq(Message)
  <2>1. << >> \in Seq(Message)
    OBVIOUS
  <2>2. \/ truncateHistory(h, p) = << >>
        \/ h # << >> /\ truncateHistory(h, p) = Shortened(h, room)
    BY DEF truncateHistory
  <2> HIDE DEF room
  <2> QED
    BY <2>1, <2>2
<1>1. \A a \in Int : Max2(1, a) \in Nat
  BY DEF Max2
<1>2. room \in Nat
  <2>1. Budget.Safety \in Int /\ Fixed \in Int /\ NoticeReserve \in Int /\ estimateTokens(p) \in Int
    BY BudgetTypes, TokensType, ConversationAssumption
  <2>2. \A a, b, c, d \in Int : a - (b + c) - d \in Int
    OBVIOUS
  <2>3. Budget.Safety - (Fixed + estimateTokens(p)) - NoticeReserve \in Int
    BY <2>1, <2>2
  <2> QED
    BY <1>1, <2>3
<1> HIDE DEF room
<1>3. n \in Nat \ {0} /\ \A i \in 1 .. n : h[i] \in Message
  OBVIOUS
<1>4. anchor \in Seq(Message)
  <2>1. h[1] \in Message
    BY <1>3
  <2>2. << >> \in Seq(Message) /\ <<h[1]>> \in Seq(Message)
    BY <2>1
  <2> QED
    BY <2>2
<1> HIDE DEF anchor
<1>5. avail \in Nat
  <2>1. room - estimateTokens(anchor) \in Int
    BY <1>2, <1>4, TokensType
  <2> QED
    BY <1>1, <2>1
<1> HIDE DEF avail
<1>6. last \in Message
  <2>1. h[n] \in Message
    BY <1>3
  <2>2. avail + Marker \in Nat
    BY <1>5, ConversationAssumption
  <2>3. ASSUME NEW m \in Message PROVE truncateContent(m, avail) \in Message
    BY <2>2 DEF truncateContent, Message
  <2> QED
    BY <2>1, <2>3
<1>7. front \in Seq(Message) /\ Len(front) = n - 1
  <2> HIDE DEF n
  <2>1. n = Len(h)
    BY DEF n
  <2> QED
    BY <1>3, <2>1
<1> HIDE DEF front, last, n
<1>8. from \in 1 .. n
  <2>1. fits \cup {n} \in SUBSET (1 .. n)
    BY <1>3, <1>7
  <2> HIDE DEF fits
  <2>2. from \in fits \cup {n}
    BY <1>3, <2>1, Extremes
  <2> QED
    BY <2>1, <2>2
<1>9. Newest(h, last, avail) = SubSeq(front, from, Len(front)) \o <<last>>
  BY DEF Newest, front, n
<1> HIDE DEF from, fits
<1>10. SubSeq(front, from, Len(front)) \in Seq(Message)
  <2>1. \A i \in from .. Len(front) : i \in 1 .. Len(front)
    BY <1>3, <1>7, <1>8
  <2> QED
    BY <1>3, <1>7, <1>8, <2>1
<1>11. Newest(h, last, avail) \in Seq(Message)
  <2>1. <<last>> \in Seq(Message)
    BY <1>6
  <2> QED
    BY <1>9, <1>10, <2>1, ConcatProperties
<1>12. <<msg("notice", 0, Notice)>> \in Seq(Message)
  <2>1. msg("notice", 0, Notice) \in Message
    BY ConversationAssumption DEF msg, Message
  <2> QED
    BY <2>1
<1>13. Shortened(h, room) = anchor \o <<msg("notice", 0, Notice)>> \o Newest(h, last, avail)
  BY DEF Shortened, anchor, avail, last, n
<1>14. anchor \o <<msg("notice", 0, Notice)>> \in Seq(Message)
  BY <1>4, <1>12, ConcatProperties
<1> QED
  BY <1>11, <1>13, <1>14, ConcatProperties

-----------------------------------------------------------------------------
(* Conversation: the invariant.                                            *)

JobType ==
  [at : {"pass", "settle"}, buf : Seq(Message), len : Nat, keep : Int, pass : Nat,
   prompt : Seq(Message), before : Nat, sum : Nat, failed : BOOLEAN]

\* A compaction under way: the history it has got so far is in its array.
JobOK(j) ==
  /\ j \in JobType /\ j.len \in 0 .. Len(j.buf) /\ j.pass \in 1 .. MaxPasses + 1
  /\ j.at = "pass" => j.pass <= MaxPasses

\* The compaction of a turn: it folds the history the turn had.
Compacts(j, t) ==
  /\ j.prompt = t.prompt /\ j.before = contextEstimate(t.hist, t.prompt)
  /\ Folded(t.hist, Current(j), j.sum)

ConvInv ==
  /\ history \in Seq(Message) /\ queued \in Seq(Message)
  /\ said \in Nat /\ asked \in 0 .. Len(Prompts)
  /\ talk \in [at : {"idle", "preflight", "stream", "reactive", "retry"},
               prompt : Seq(Message), batch : Seq(Message), hist : Seq(Message)]
  /\ job = [w \in {"turn", "manual"} |-> job[w]]
  /\ \A w \in {"turn", "manual"} : job[w] = NoJob \/ JobOK(job[w])
  /\ talk.at \in {"preflight", "reactive"} <=> job["turn"] # NoJob
  /\ job["turn"] # NoJob => Compacts(job["turn"], talk)

\* A compaction starts with the whole history.
LEMMA NewJobOK ==
  ASSUME NEW h \in Seq(Message), NEW p \in Seq(Message)
  PROVE  /\ JobOK(NewJob(h, p)) /\ NewJob(h, p) # NoJob /\ NewJob(h, p).prompt = p
         /\ NewJob(h, p).before = contextEstimate(h, p) /\ Folded(h, Current(NewJob(h, p)), 0)
         /\ NewJob(h, p).sum = 0
<1> DEFINE j == NewJob(h, p)
<1>1. /\ Len(h) \in Nat /\ contextEstimate(h, p) \in Nat /\ Budget.KeepRecent \in Int
      /\ MaxPasses \in Nat \ {0}
  BY EstimateType, BudgetTypes, ConversationAssumption
<1>2. /\ j.at = "pass" /\ j.buf = h /\ j.len = Len(h) /\ j.pass = 1 /\ j.prompt = p
      /\ j.before = contextEstimate(h, p) /\ j.sum = 0
  BY DEF NewJob
<1>3. j \in JobType
  BY <1>1 DEF NewJob, JobType
<1>4. j # NoJob
  <2>1. NoJob.at = "none"
    BY DEF NoJob
  <2> QED
    BY <1>2, <2>1
<1> HIDE DEF j
<1>5. Current(j) = h
  BY <1>1, <1>2 DEF Current
<1>6. j.len \in 0 .. Len(j.buf) /\ j.pass \in 1 .. MaxPasses + 1 /\ j.pass <= MaxPasses
  BY <1>1, <1>2
<1>7. JobOK(j)
  BY <1>3, <1>6 DEF JobOK
<1> QED
  BY <1>2, <1>4, <1>5, <1>7 DEF j, Folded

\* A new agent satisfies the invariant: nothing is compacted yet.
LEMMA ConvInitial == ConvInit => ConvInv
<1> SUFFICES ASSUME ConvInit PROVE ConvInv
  OBVIOUS
<1>1. << >> \in Seq(Message) /\ Idle.at = "idle"
  BY DEF Idle
<1>2. /\ history = << >> /\ queued = << >> /\ talk = Idle /\ said = 0 /\ asked = 0
      /\ job = [w \in {"turn", "manual"} |-> NoJob]
  BY DEF ConvInit
<1>3. asked \in 0 .. Len(Prompts)
  BY <1>2, ConversationAssumption
<1>4. /\ talk \in [at : {"idle", "preflight", "stream", "reactive", "retry"},
                   prompt : Seq(Message), batch : Seq(Message), hist : Seq(Message)]
  BY <1>1, <1>2 DEF Idle
<1>5. /\ job["turn"] = NoJob /\ job["manual"] = NoJob
      /\ job = [w \in {"turn", "manual"} |-> job[w]]
  BY <1>2
<1> QED
  BY <1>1, <1>2, <1>3, <1>4, <1>5 DEF ConvInv

TalkType ==
  [at : {"idle", "preflight", "stream", "reactive", "retry"},
   prompt : Seq(Message), batch : Seq(Message), hist : Seq(Message)]

\* One of the two compactions moves.
LEMMA OneJob ==
  ASSUME ConvInv, NEW w \in {"turn", "manual"}, NEW x, job' = [job EXCEPT ![w] = x]
  PROVE  /\ job' = [v \in {"turn", "manual"} |-> job'[v]] /\ job'[w] = x
         /\ \A v \in {"turn", "manual"} \ {w} : job'[v] = job[v]
<1>1. job = [v \in {"turn", "manual"} |-> job[v]]
  BY DEF ConvInv
<1> QED
  BY <1>1

\* What the invariant says afterwards, when history and queue are typed.
LEMMA Together ==
  ASSUME ConvInv, history' \in Seq(Message), queued' \in Seq(Message), said' \in Nat,
         asked' \in 0 .. Len(Prompts), talk' \in TalkType,
         job' = [w \in {"turn", "manual"} |-> job'[w]],
         \A w \in {"turn", "manual"} : job'[w] = NoJob \/ JobOK(job'[w]),
         talk'.at \in {"preflight", "reactive"} <=> job'["turn"] # NoJob,
         job'["turn"] # NoJob => Compacts(job'["turn"], talk')
  PROVE  ConvInv'
BY DEF ConvInv, TalkType

\* No turn and no compaction moves.
LEMMA Apart ==
  ASSUME ConvInv, history' \in Seq(Message), queued' \in Seq(Message), said' \in Nat,
         asked' \in 0 .. Len(Prompts), UNCHANGED <<talk, job>>
  PROVE  ConvInv'
BY DEF ConvInv

\* A turn starts, or ends at once.
LEMMA StartKeeps ==
  ASSUME ConvInv, NEW p \in Seq(Message), StartTurn(p), said' \in Nat,
         asked' \in 0 .. Len(Prompts)
  PROVE  ConvInv'
<1> DEFINE hist == history \o queued
           turn == [at |-> "stream", prompt |-> p, batch |-> queued, hist |-> hist]
<1>1. /\ history \in Seq(Message) /\ queued \in Seq(Message) /\ talk.at = "idle"
      /\ history' = history /\ queued' = << >> /\ job["turn"] = NoJob
      /\ job = [w \in {"turn", "manual"} |-> job[w]]
      /\ \A w \in {"turn", "manual"} : job[w] = NoJob \/ JobOK(job[w])
  BY DEF ConvInv, StartTurn
<1>2. hist \in Seq(Message) /\ << >> \in Seq(Message)
  BY <1>1, ConcatProperties
<1>3. \/ UNCHANGED <<talk, job>>
      \/ /\ talk' = [turn EXCEPT !.at = "preflight"]
         /\ job' = [job EXCEPT !["turn"] = NewJob(hist, p)]
      \/ talk' = turn /\ UNCHANGED job
  BY DEF StartTurn
<1> HIDE DEF hist
<1>4. CASE UNCHANGED <<talk, job>>
  BY <1>1, <1>2, <1>4, Apart
<1>5. CASE /\ talk' = [turn EXCEPT !.at = "preflight"]
           /\ job' = [job EXCEPT !["turn"] = NewJob(hist, p)]
  <2>1. talk' \in TalkType /\ talk'.at = "preflight" /\ talk'.prompt = p /\ talk'.hist = hist
    BY <1>1, <1>2, <1>5 DEF TalkType
  <2>2. /\ job' = [w \in {"turn", "manual"} |-> job'[w]] /\ job'["turn"] = NewJob(hist, p)
        /\ job'["manual"] = job["manual"]
    BY <1>1, <1>5
  <2>3. JobOK(job'["turn"]) /\ job'["turn"] # NoJob
    BY <1>2, <2>2, NewJobOK
  <2>4. Compacts(job'["turn"], talk')
    BY <1>2, <2>1, <2>2, NewJobOK DEF Compacts
  <2>5. \A w \in {"turn", "manual"} : job'[w] = NoJob \/ JobOK(job'[w])
    BY <1>1, <2>2, <2>3
  <2> QED
    BY <1>1, <1>2, <2>1, <2>2, <2>3, <2>4, <2>5, Together
<1>6. CASE talk' = turn /\ UNCHANGED job
  <2>1. talk' \in TalkType /\ talk'.at = "stream"
    BY <1>1, <1>2, <1>6 DEF TalkType
  <2> QED
    BY <1>1, <1>2, <1>6, <2>1, Together
<1> QED
  BY <1>3, <1>4, <1>5, <1>6

\* The array of a compaction, once the folded history is written over its front.
LEMMA Overwritten ==
  ASSUME NEW buf \in Seq(Message), NEW h \in Seq(Message)
  PROVE  /\ overwrite(buf, h) \in Seq(Message) /\ Len(h) \in 0 .. Len(overwrite(buf, h))
         /\ \A j : j.buf = overwrite(buf, h) /\ j.len = Len(h) => Current(j) = h
<1> DEFINE rest == SubSeq(buf, Len(h) + 1, Len(buf))
           all == h \o rest
           n == Len(h)
<1>1. rest \in Seq(Message)
  <2>1. n \in Nat /\ Len(buf) \in Nat /\ \A i \in n + 1 .. Len(buf) : i \in 1 .. Len(buf)
    OBVIOUS
  <2>2. \A i \in n + 1 .. Len(buf) : buf[i] \in Message
    BY <2>1
  <2> QED
    BY <2>1, <2>2, SubSeqProperties
<1> HIDE DEF rest
<1>2. /\ all \in Seq(Message) /\ Len(all) = n + Len(rest) /\ n \in Nat /\ Len(rest) \in Nat
      /\ \A i \in 1 .. n + Len(rest) : all[i] = IF i <= n THEN h[i] ELSE rest[i - n]
  BY <1>1, ConcatProperties
<1>3. overwrite(buf, h) = all
  BY DEF overwrite, rest
<1>4. h \in [1 .. n -> Message]
  OBVIOUS
<1> HIDE DEF all, n
<1>5. \A i \in 1 .. n : all[i] = h[i]
  BY <1>2
<1>6. SubSeq(all, 1, n) = h
  <2>1. SubSeq(all, 1, n) = [i \in 1 .. n |-> all[i]]
    BY <1>2
  <2>2. h = [i \in 1 .. n |-> h[i]]
    BY <1>4
  <2> QED
    BY <1>5, <2>1, <2>2
<1>7. n \in 0 .. Len(all)
  BY <1>2
<1> QED
  BY <1>2, <1>3, <1>6, <1>7 DEF Current, n

\* A pass: the job of a turn folds the history of that turn, the one of /compact
\* any history.
LEMMA PassKeeps ==
  ASSUME ConvInv, NEW w \in {"turn", "manual"}, Pass(w) PROVE ConvInv'
<1> DEFINE j == job[w]
           h == Current(j)
           cut == CutOf(h, j.keep)
<1>1. /\ j.at = "pass" /\ UNCHANGED <<history, queued, talk, asked>>
      /\ history \in Seq(Message) /\ queued \in Seq(Message) /\ said \in Nat
      /\ asked \in 0 .. Len(Prompts) /\ talk \in TalkType
      /\ \A v \in {"turn", "manual"} : job[v] = NoJob \/ JobOK(job[v])
      /\ talk.at \in {"preflight", "reactive"} <=> job["turn"] # NoJob
      /\ job["turn"] # NoJob => Compacts(job["turn"], talk)
  BY DEF ConvInv, Pass, TalkType
<1>2. JobOK(j) /\ j # NoJob
  <2>1. NoJob.at = "none"
    BY DEF NoJob
  <2>2. j # NoJob
    BY <1>1, <2>1
  <2> QED
    BY <1>1, <2>2
<1>3. j \in JobType /\ j.buf \in Seq(Message) /\ j.len \in 0 .. Len(j.buf) /\ j.pass \in 1 .. MaxPasses
  BY <1>1, <1>2, ConversationAssumption DEF JobOK, JobType
<1>4. h \in Seq(Message)
  <2>1. \A i \in 1 .. j.len : i \in 1 .. Len(j.buf)
    BY <1>3
  <2>2. \A i \in 1 .. j.len : j.buf[i] \in Message
    BY <1>3, <2>1
  <2>3. j.len \in Int /\ 1 \in Int
    BY <1>3
  <2> QED
    BY <2>2, <2>3, SubSeqProperties DEF Current
  \* The job that is left is sound, and folds what it folded.
<1>5. ASSUME NEW k, job' = [job EXCEPT ![w] = k], said' \in Nat, JobOK(k), k # NoJob,
             k.prompt = j.prompt, k.before = j.before,
             \A f \in Seq(Message) : Folded(f, h, j.sum) => Folded(f, Current(k), k.sum)
      PROVE  ConvInv'
  <2>1. /\ job' = [v \in {"turn", "manual"} |-> job'[v]] /\ job'[w] = k
        /\ \A v \in {"turn", "manual"} \ {w} : job'[v] = job[v]
    BY <1>5, OneJob
  <2>2. \A v \in {"turn", "manual"} : job'[v] = NoJob \/ JobOK(job'[v])
    BY <1>1, <1>5, <2>1
  <2>3. job'["turn"] # NoJob <=> job["turn"] # NoJob
    BY <1>2, <1>5, <2>1
  <2>4. talk.hist \in Seq(Message)
    BY <1>1 DEF TalkType
  <2>5. job'["turn"] # NoJob => Compacts(job'["turn"], talk)
    <3>1. CASE w = "turn"
      BY <1>1, <1>2, <1>5, <2>1, <2>4, <3>1 DEF Compacts
    <3>2. CASE w = "manual"
      BY <1>1, <2>1, <3>2
    <3> QED
      BY <3>1, <3>2
  <2> QED
    BY <1>1, <1>5, <2>1, <2>2, <2>3, <2>5, Together
<1>6. ASSUME NEW failed \in BOOLEAN, said' = said,
             job' = [job EXCEPT ![w] = [j EXCEPT !.at = "settle", !.failed = failed]]
      PROVE  ConvInv'
  <2> DEFINE k == [j EXCEPT !.at = "settle", !.failed = failed]
  <2> HIDE DEF j
  <2>1. /\ k \in JobType /\ k.at = "settle" /\ k.buf = j.buf /\ k.len = j.len /\ k.pass = j.pass
        /\ k.prompt = j.prompt /\ k.before = j.before /\ k.sum = j.sum
    BY <1>3 DEF JobType
  <2>2. job' = [job EXCEPT ![w] = k]
    BY <1>6 DEF j
  <2> HIDE DEF k
  <2>3. JobOK(k)
    BY <1>2, <2>1 DEF JobOK
  <2>4. k # NoJob
    BY <2>1 DEF NoJob
  <2>5. Current(k) = h
    BY <2>1 DEF Current
  <2> QED
    BY <1>1, <1>5, <1>6, <2>1, <2>2, <2>3, <2>4, <2>5 DEF j
<1>7. ASSUME NEW size \in SummarySizes, cut > 1, said' = said + 1,
             job' = [job EXCEPT ![w] =
               [j EXCEPT !.buf = overwrite(@, compactHistory(h, cut, msg("summary", said + 1, size))),
                         !.len = Len(compactHistory(h, cut, msg("summary", said + 1, size))),
                         !.sum = said + 1, !.pass = @ + 1, !.keep = Max2(@ \div 2, MinKeep),
                         !.at = IF EnoughDone(j, compactHistory(h, cut, msg("summary", said + 1, size)))
                                THEN "settle" ELSE "pass"]]
      PROVE  ConvInv'
  <2> DEFINE m == msg("summary", said + 1, size)
             short == compactHistory(h, cut, m)
             at == IF EnoughDone(j, short) THEN "settle" ELSE "pass"
             buf == overwrite(j.buf, short)
             keep == Max2(j.keep \div 2, MinKeep)
             k == [j EXCEPT !.buf = buf, !.len = Len(short), !.sum = said + 1, !.pass = j.pass + 1,
                            !.keep = keep, !.at = at]
  <2>1. m \in Message /\ m.nr = said + 1 /\ said + 1 \in Nat \ {0}
    BY <1>1, <1>7, ConversationAssumption, SMTT(60) DEF msg, Message
  <2>2. cut \in 2 .. Len(h) - 1 /\ UserRole(h[cut + 1])
    BY <1>4, <1>7, CutKeeps
  <2>3. Folded(h, h, 0)
    BY DEF Folded
  <2>4. short \in Seq(Message)
    <3> HIDE DEF h, cut, m
    <3> QED
      BY <1>4, <2>1, <2>2, <2>3, PassFolds
  <2>5. ASSUME NEW f \in Seq(Message), Folded(f, h, j.sum) PROVE Folded(f, short, said + 1)
    <3>1. j.sum \in Nat
      BY <1>3 DEF JobType
    <3> HIDE DEF h, cut, m, j
    <3> QED
      BY <1>4, <2>1, <2>2, <2>5, <3>1, PassFolds
  <2>6. keep \in Int
    <3>1. j.keep \in Int /\ MinKeep \in Int
      BY <1>3, ConversationAssumption DEF JobType
    <3>2. j.keep \div 2 \in Int
      BY <3>1
    <3> HIDE DEF j
    <3> QED
      BY <3>1, <3>2 DEF Max2
  <2>7. job' = [job EXCEPT ![w] = k]
    BY <1>7
  <2>8. /\ buf \in Seq(Message) /\ Len(short) \in 0 .. Len(buf)
        /\ \A x : x.buf = buf /\ x.len = Len(short) => Current(x) = short
    <3> HIDE DEF short, j, h
    <3> QED
      BY <1>3, <2>4, Overwritten
  <2>9. at \in {"pass", "settle"} /\ (at = "pass" => j.pass # MaxPasses)
    BY DEF EnoughDone
  <2> HIDE DEF short, buf, keep, at, j, m
  <2>10. /\ k \in JobType /\ k.at = at /\ k.buf = buf /\ k.len = Len(short) /\ k.pass = j.pass + 1
         /\ k.prompt = j.prompt /\ k.before = j.before /\ k.sum = said + 1
    <3>1. Len(short) \in Nat /\ j.pass + 1 \in Nat /\ said + 1 \in Nat
      BY <1>3, <2>1, <2>4, ConversationAssumption
    <3> DEFINE l == Len(short)
               s == said + 1
               q == j.pass + 1
    <3>2. l \in Nat /\ s \in Nat /\ q \in Nat
      BY <3>1
    <3> HIDE DEF l, s, q
    <3>3. k = [j EXCEPT !.buf = buf, !.len = l, !.sum = s, !.pass = q, !.keep = keep, !.at = at]
      BY DEF l, s, q
    <3> HIDE DEF k
    <3>4. /\ k \in JobType /\ k.at = at /\ k.buf = buf /\ k.len = l /\ k.pass = q
          /\ k.prompt = j.prompt /\ k.before = j.before /\ k.sum = s
      BY <1>3, <2>6, <2>8, <2>9, <3>2, <3>3 DEF JobType
    <3> QED
      BY <3>4 DEF l, s, q
  <2> HIDE DEF k
  <2>11. JobOK(k)
    <3>1. k.pass \in 1 .. MaxPasses + 1 /\ (k.at = "pass" => k.pass <= MaxPasses)
      BY <1>3, <2>9, <2>10, ConversationAssumption, SMTT(60)
    <3> QED
      BY <2>8, <2>10, <3>1 DEF JobOK
  <2>12. k # NoJob
    BY <2>9, <2>10 DEF NoJob
  <2>13. Current(k) = short
    BY <2>8, <2>10
  <2>14. \A f \in Seq(Message) : Folded(f, h, j.sum) => Folded(f, Current(k), k.sum)
    BY <2>5, <2>10, <2>13
  <2> QED
    BY <1>5, <1>7, <2>1, <2>7, <2>10, <2>11, <2>12, <2>14 DEF j
<1>8. \/ job' = [job EXCEPT ![w].at = "settle"] /\ said' = said
      \/ job' = [job EXCEPT ![w].at = "settle", ![w].failed = TRUE] /\ said' = said
      \/ cut > 1 /\ said' = said + 1 /\ \E size \in SummarySizes :
           job' = [job EXCEPT ![w] =
             [j EXCEPT !.buf = overwrite(@, compactHistory(h, cut, msg("summary", said + 1, size))),
                       !.len = Len(compactHistory(h, cut, msg("summary", said + 1, size))),
                       !.sum = said + 1, !.pass = @ + 1, !.keep = Max2(@ \div 2, MinKeep),
                       !.at = IF EnoughDone(j, compactHistory(h, cut, msg("summary", said + 1, size)))
                              THEN "settle" ELSE "pass"]]
  <2>1. ~(cut <= 1) => cut > 1
    BY <1>4, CutKeeps
  <2> HIDE DEF h, cut
  <2> QED
    BY <2>1 DEF Pass, h, cut
<1>9. CASE job' = [job EXCEPT ![w].at = "settle"] /\ said' = said
  <2>1. [j EXCEPT !.at = "settle"] = [j EXCEPT !.at = "settle", !.failed = j.failed] /\ j.failed \in BOOLEAN
    <3> HIDE DEF j
    <3> QED
      BY <1>3 DEF JobType
  <2>2. job' = [job EXCEPT ![w] = [j EXCEPT !.at = "settle"]]
    BY <1>9
  <2> QED
    BY <1>6, <1>9, <2>1, <2>2
<1>10. CASE job' = [job EXCEPT ![w].at = "settle", ![w].failed = TRUE] /\ said' = said
  <2>1. job' = [job EXCEPT ![w] = [j EXCEPT !.at = "settle", !.failed = TRUE]]
    <3>1. w \in DOMAIN job
      BY DEF ConvInv
    <3> QED
      BY <1>10, <3>1
  <2> QED
    BY <1>6, <1>10, <2>1
<1> QED
  BY <1>7, <1>8, <1>9, <1>10

\* The history a compaction has got so far.
LEMMA CurrentType ==
  ASSUME NEW j, JobOK(j) PROVE Current(j) \in Seq(Message) /\ j \in JobType
<1>1. j \in JobType /\ j.buf \in Seq(Message) /\ j.len \in 0 .. Len(j.buf)
  BY DEF JobOK, JobType
<1>2. \A i \in 1 .. j.len : i \in 1 .. Len(j.buf)
  BY <1>1
<1>3. \A i \in 1 .. j.len : j.buf[i] \in Message
  BY <1>1, <1>2
<1>4. j.len \in Int /\ 1 \in Int
  BY <1>1
<1> QED
  BY <1>1, <1>3, <1>4, SubSeqProperties DEF Current

\* What a compaction returns.
LEMMA ResultType ==
  ASSUME NEW w \in {"turn", "manual"}, JobOK(job[w])
  PROVE  Result(w).history \in Seq(Message)
<1> DEFINE j == job[w]
           h == Current(j)
           short == truncateHistory(h, j.prompt)
<1>1. h \in Seq(Message) /\ j.buf \in Seq(Message) /\ j.prompt \in Seq(Message)
  BY CurrentType DEF JobType
<1>2. short \in Seq(Message)
  BY <1>1, TruncatedType
<1>3. Result(w) \in {return("summary", h), return("error", h), return("none", h), Fallback(j, short)}
  <2>1. \/ Result(w) = return("summary", h)
        \/ Result(w) = return(IF j.failed THEN "error" ELSE "none", h)
        \/ Result(w) = Fallback(j, short)
    BY DEF Result
  <2>2. return(IF j.failed THEN "error" ELSE "none", h) \in {return("error", h), return("none", h)}
    OBVIOUS
  <2> HIDE DEF j, h, short
  <2> QED
    BY <2>1, <2>2
<1>4. \A how : \A what \in Seq(Message) : return(how, what).history \in Seq(Message)
  BY DEF return
<1>5. Fallback(j, short).history \in Seq(Message)
  <2> HIDE DEF short, j
  <2> QED
    BY <1>1, <1>2, <1>4 DEF Fallback
<1> HIDE DEF h, short, j
<1> QED
  BY <1>1, <1>3, <1>4, <1>5

\* A turn commits a summary only when it makes the request smaller.
LEMMA SummaryResult ==
  ASSUME Result("turn").method = "summary"
  PROVE  LET j == job["turn"]
             h == Current(j)
         IN /\ j.sum # 0 /\ Result("turn").history = h
            /\ contextEstimate(h, j.prompt) <= Budget.Safety
            /\ contextEstimate(h, j.prompt) < j.before
<1> DEFINE j == job["turn"]
           h == Current(j)
           est == contextEstimate(h, j.prompt)
           short == truncateHistory(h, j.prompt)
<1>1. Result("turn") = IF j.sum # 0 /\ est <= Budget.Safety /\ est < j.before
                       THEN return("summary", h) ELSE Fallback(j, short)
  BY DEF Result
<1>2. Fallback(j, short).method # "summary"
  BY DEF Fallback, return
<1>3. return("summary", h).history = h
  BY DEF return
<1> HIDE DEF j, h, est, short
<1>4. j.sum # 0 /\ est <= Budget.Safety /\ est < j.before /\ Result("turn").history = h
  BY <1>1, <1>2, <1>3
<1> QED
  BY <1>4 DEF j, h, est

\* The turn goes on with what its compaction returned, or ends.
LEMMA SettleKeeps ==
  ASSUME ConvInv, SettleTurn PROVE ConvInv'
<1> DEFINE r == Result("turn")
<1>1. /\ UNCHANGED <<queued, said, asked>> /\ history \in Seq(Message) /\ queued \in Seq(Message)
      /\ said \in Nat /\ asked \in 0 .. Len(Prompts) /\ talk \in TalkType
      /\ \A v \in {"turn", "manual"} : job[v] = NoJob \/ JobOK(job[v])
      /\ job["turn"].at = "settle" /\ Settle(r)
  BY DEF ConvInv, SettleTurn, TalkType
<1>2. job["turn"] # NoJob /\ JobOK(job["turn"])
  BY <1>1 DEF NoJob
<1>3. r.history \in Seq(Message)
  BY <1>2, ResultType
<1>4. talk.at \in {"preflight", "reactive"}
  BY <1>2 DEF ConvInv
<1> HIDE DEF r
<1>5. job' = [job EXCEPT !["turn"] = NoJob] /\ (history' = history \/ history' = r.history)
  BY <1>1 DEF Settle
<1>6. \/ talk' = Idle
      \/ talk' = [talk EXCEPT !.hist = r.history, !.at = IF @ = "preflight" THEN "stream" ELSE "retry"]
  BY <1>1 DEF Settle
<1>7. talk' \in TalkType /\ talk'.at \in {"idle", "stream", "retry"}
  <2>1. CASE talk' = Idle
    <3>1. << >> \in Seq(Message)
      OBVIOUS
    <3> QED
      BY <2>1, <3>1 DEF Idle, TalkType
  <2>2. CASE talk' = [talk EXCEPT !.hist = r.history,
                                  !.at = IF @ = "preflight" THEN "stream" ELSE "retry"]
    BY <1>1, <1>3, <2>2 DEF TalkType
  <2> QED
    BY <1>6, <2>1, <2>2
<1>8. /\ job' = [v \in {"turn", "manual"} |-> job'[v]] /\ job'["turn"] = NoJob
      /\ job'["manual"] = job["manual"]
  BY <1>5, OneJob
<1> QED
  BY <1>1, <1>3, <1>5, <1>7, <1>8, Together

\* /compact.
LEMMA CompactKeeps ==
  ASSUME ConvInv, Compact \/ SettleManual PROVE ConvInv'
<1>1. /\ UNCHANGED <<queued, talk, said, asked>> /\ history \in Seq(Message)
      /\ queued \in Seq(Message) /\ said \in Nat /\ asked \in 0 .. Len(Prompts)
      /\ talk \in TalkType /\ \A v \in {"turn", "manual"} : job[v] = NoJob \/ JobOK(job[v])
      /\ talk.at \in {"preflight", "reactive"} <=> job["turn"] # NoJob
      /\ job["turn"] # NoJob => Compacts(job["turn"], talk)
  BY DEF ConvInv, Compact, SettleManual, TalkType
<1>2. ASSUME NEW x, x = NoJob \/ JobOK(x), job' = [job EXCEPT !["manual"] = x],
             history' \in Seq(Message)
      PROVE  ConvInv'
  <2>1. /\ job' = [v \in {"turn", "manual"} |-> job'[v]] /\ job'["manual"] = x
        /\ job'["turn"] = job["turn"]
    BY <1>2, OneJob
  <2>2. \A v \in {"turn", "manual"} : job'[v] = NoJob \/ JobOK(job'[v])
    BY <1>1, <1>2, <2>1
  <2> QED
    BY <1>1, <1>2, <2>1, <2>2, Together
<1>3. CASE Compact
  <2>1. job' = [job EXCEPT !["manual"] = NewJob(history, << >>)] /\ history' = history
    BY <1>3 DEF Compact
  <2>2. << >> \in Seq(Message)
    OBVIOUS
  <2>3. JobOK(NewJob(history, << >>))
    BY <1>1, <2>2, NewJobOK
  <2> QED
    BY <1>1, <1>2, <2>1, <2>3
<1>4. CASE SettleManual
  <2>1. /\ job' = [job EXCEPT !["manual"] = NoJob] /\ job["manual"].at = "settle"
        /\ history' = history \/ history' = Result("manual").history
    BY <1>4 DEF SettleManual
  <2>2. JobOK(job["manual"])
    BY <1>1, <2>1 DEF NoJob
  <2>3. history' \in Seq(Message)
    BY <1>1, <2>1, <2>2, ResultType
  <2> QED
    BY <1>2, <2>1, <2>3
<1> QED
  BY <1>3, <1>4

\* The request is too long, is refused, or is answered.
LEMMA StreamKeeps ==
  ASSUME ConvInv, TooLong \/ Refuse \/ Record PROVE ConvInv'
<1>1. /\ UNCHANGED <<queued, asked>> /\ history \in Seq(Message)
      /\ queued \in Seq(Message) /\ said \in Nat /\ asked \in 0 .. Len(Prompts)
      /\ talk \in TalkType /\ \A v \in {"turn", "manual"} : job[v] = NoJob \/ JobOK(job[v])
      /\ talk.at \in {"stream", "retry"} /\ job["turn"] = NoJob
      /\ job = [v \in {"turn", "manual"} |-> job[v]]
  <2>1. talk.at \in {"stream", "retry"} /\ UNCHANGED <<queued, asked>>
    BY DEF TooLong, Refuse, Record
  <2> QED
    BY <2>1 DEF ConvInv, TalkType
<1>2. talk.prompt \in Seq(Message) /\ talk.batch \in Seq(Message) /\ talk.hist \in Seq(Message)
  BY <1>1 DEF TalkType
<1>3. Idle \in TalkType /\ Idle.at = "idle"
  <2>1. << >> \in Seq(Message)
    OBVIOUS
  <2> QED
    BY <2>1 DEF Idle, TalkType
<1>4. CASE TooLong
  <2> DEFINE x == NewJob(talk.hist, talk.prompt)
  <2>1. /\ talk' = [talk EXCEPT !.at = "reactive"] /\ job' = [job EXCEPT !["turn"] = x]
        /\ UNCHANGED <<history, said>>
    BY <1>4 DEF TooLong
  <2>2. /\ JobOK(x) /\ x # NoJob /\ x.prompt = talk.prompt
        /\ x.before = contextEstimate(talk.hist, talk.prompt)
        /\ Folded(talk.hist, Current(x), x.sum)
    BY <1>2, NewJobOK
  <2> HIDE DEF x
  <2>3. /\ talk' \in TalkType /\ talk'.at = "reactive" /\ talk'.prompt = talk.prompt
        /\ talk'.hist = talk.hist
    BY <1>1, <2>1 DEF TalkType
  <2>4. /\ job' = [v \in {"turn", "manual"} |-> job'[v]] /\ job'["turn"] = x
        /\ job'["manual"] = job["manual"]
    BY <2>1, OneJob
  <2>5. \A v \in {"turn", "manual"} : job'[v] = NoJob \/ JobOK(job'[v])
    BY <1>1, <2>2, <2>4
  <2>6. Compacts(job'["turn"], talk')
    BY <2>2, <2>3, <2>4 DEF Compacts
  <2> QED
    BY <1>1, <2>1, <2>2, <2>3, <2>4, <2>5, <2>6, Together
<1>5. CASE Refuse
  <2>1. talk' = Idle /\ UNCHANGED <<history, job, said>>
    BY <1>5 DEF Refuse
  <2> QED
    BY <1>1, <1>3, <2>1, Together
<1>6. CASE Record
  <2> DEFINE mine == IF talk.prompt # << >> THEN talk.prompt ELSE Said(talk.batch)
             reply == <<msg("assistant", said + 1, 1)>>
  <2>1. talk' = Idle /\ UNCHANGED job /\ said' = said + 1 /\ history' = history \o (mine \o reply)
    BY <1>6 DEF Record
  <2>2. mine \in Seq(Message)
    BY <1>2, SaidType
  <2>3. reply \in Seq(Message)
    <3>1. msg("assistant", said + 1, 1) \in Message
      BY <1>1 DEF msg, Message
    <3> QED
      BY <3>1
  <2> HIDE DEF mine, reply
  <2>4. mine \o reply \in Seq(Message)
    BY <2>2, <2>3, ConcatProperties
  <2>5. history' \in Seq(Message)
    BY <1>1, <2>1, <2>4, ConcatProperties
  <2> QED
    BY <1>1, <1>3, <2>1, <2>5, Together
<1> QED
  BY <1>4, <1>5, <1>6

\* Messages are queued, prompts are submitted, histories are installed.
LEMMA InputKeeps ==
  ASSUME ConvInv,
         \/ \E by \in {"user", "system"}, size \in Sizes : Queue(by, size)
         \/ Prompt \/ Drain
         \/ \E h \in Restored : SetAgentHistory(h)
  PROVE  ConvInv'
<1>1. /\ history \in Seq(Message) /\ queued \in Seq(Message) /\ said \in Nat
      /\ asked \in 0 .. Len(Prompts) /\ said + 1 \in Nat
  BY DEF ConvInv
<1>2. ASSUME NEW by \in {"user", "system"}, NEW size \in Sizes, Queue(by, size) PROVE ConvInv'
  <2>1. msg(by, said + 1, size) \in Message
    BY <1>1, ConversationAssumption DEF msg, Message
  <2>2. <<msg(by, said + 1, size)>> \in Seq(Message)
    BY <2>1
  <2>3. /\ queued' = <<msg(by, said + 1, size)>> /\ said' = said + 1
        /\ UNCHANGED <<history, talk, job, asked>>
    BY <1>2 DEF Queue
  <2> QED
    BY <1>1, <2>2, <2>3, Apart
<1>3. CASE Prompt
  <2>1. asked + 1 \in 1 .. Len(Prompts) /\ Prompts \in Seq(Nat)
    BY <1>1, <1>3, ConversationAssumption DEF Prompt
  <2>2. Prompts[asked + 1] \in Nat
    BY <2>1
  <2>3. msg("user", said + 1, Prompts[asked + 1]) \in Message
    BY <1>1, <2>2 DEF msg, Message
  <2>4. <<msg("user", said + 1, Prompts[asked + 1])>> \in Seq(Message)
    BY <2>3
  <2>5. asked' = asked + 1 /\ said' = said + 1
    BY <1>3 DEF Prompt
  <2>6. asked' \in 0 .. Len(Prompts) /\ said' \in Nat
    BY <1>1, <2>1, <2>5
  <2>7. StartTurn(<<msg("user", said + 1, Prompts[asked + 1])>>)
    BY <1>3 DEF Prompt
  <2> QED
    BY <2>4, <2>6, <2>7, StartKeeps
<1>4. CASE Drain
  <2>1. StartTurn(<< >>) /\ UNCHANGED <<said, asked>> /\ << >> \in Seq(Message)
    BY <1>4 DEF Drain
  <2> QED
    BY <1>1, <2>1, StartKeeps
<1>5. ASSUME NEW h \in Restored, SetAgentHistory(h) PROVE ConvInv'
  <2>1. h \in Seq(Message)
    BY ConversationAssumption
  <2>2. history' = h /\ UNCHANGED <<queued, talk, job, said, asked>>
    BY <1>5 DEF SetAgentHistory
  <2> QED
    BY <1>1, <2>1, <2>2, Apart
<1> QED
  BY <1>2, <1>3, <1>4, <1>5

\* The invariant is kept by every step.
LEMMA ConvKept == ConvInv /\ [ConvNext]_convVars => ConvInv'
<1> SUFFICES ASSUME ConvInv, [ConvNext]_convVars PROVE ConvInv'
  OBVIOUS
<1>1. CASE UNCHANGED convVars
  <2>1. UNCHANGED <<history, queued, talk, job, said, asked>>
    BY <1>1 DEF convVars
  <2>2. /\ history \in Seq(Message) /\ queued \in Seq(Message) /\ said \in Nat
        /\ asked \in 0 .. Len(Prompts)
    BY DEF ConvInv
  <2> QED
    BY <2>1, <2>2, Apart
<1> QED
  BY <1>1, InputKeeps, StreamKeeps, PassKeeps, SettleKeeps, CompactKeeps DEF ConvNext

\* The invariant has the types in it.
LEMMA ConvTypes == ConvInv => ConvTypeOK
<1> SUFFICES ASSUME ConvInv PROVE ConvTypeOK
  OBVIOUS
<1>1. /\ history \in Seq(Message) /\ queued \in Seq(Message) /\ asked \in 0 .. Len(Prompts)
      /\ talk \in TalkType /\ \A w \in {"turn", "manual"} : job[w] = NoJob \/ JobOK(job[w])
      /\ talk.at \in {"preflight", "reactive"} <=> job["turn"] # NoJob
  BY DEF ConvInv, TalkType
<1>2. ASSUME NEW w \in {"turn", "manual"} PROVE job[w].at # "none" <=> job[w] # NoJob
  <2>1. NoJob.at = "none"
    BY DEF NoJob
  <2>2. \A j \in JobType : j.at # "none"
    BY DEF JobType
  <2>3. job[w] = NoJob \/ job[w] \in JobType
    BY <1>1 DEF JobOK
  <2> QED
    BY <2>1, <2>2, <2>3
<1>3. \A w \in {"turn", "manual"} : job[w].at # "none" =>
        job[w].len \in 0 .. Len(job[w].buf) /\ job[w].pass \in 1 .. MaxPasses + 1
  BY <1>1, <1>2 DEF JobOK
<1>4. /\ talk.at \in {"idle", "preflight", "stream", "reactive", "retry"}
      /\ talk.hist \in Seq(Message) /\ talk.batch \in Seq(Message)
  BY <1>1 DEF TalkType
<1>5. talk.at \in {"preflight", "reactive"} <=> job["turn"].at # "none"
  BY <1>1, <1>2
<1> QED
  BY <1>1, <1>3, <1>4, <1>5 DEF ConvTypeOK

\* Type correctness, for any window, budget and number of passes.
THEOREM ConvTypeCorrect == ConvSpec => []ConvTypeOK
<1>1. ConvInv => ConvTypeOK
  BY ConvTypes
<1> QED
  BY ConvInitial, ConvKept, <1>1, PTL DEF ConvSpec

\* A turn that goes on after a compaction goes on with what it returned.
LEMMA GoesOn ==
  ASSUME ConvInv, [ConvNext]_convVars, talk.at \in {"preflight", "reactive"},
         talk'.at \in {"stream", "retry"}
  PROVE  /\ talk'.hist = Result("turn").history /\ JobOK(job["turn"])
         /\ Compacts(job["turn"], talk) /\ talk \in TalkType
<1>1. job["turn"] # NoJob /\ JobOK(job["turn"]) /\ Compacts(job["turn"], talk) /\ talk \in TalkType
  BY DEF ConvInv, TalkType
<1>2. talk' # talk
  OBVIOUS
<1>3. SettleTurn
  BY <1>2 DEF ConvNext, convVars, Queue, Prompt, Drain, StartTurn, TooLong, Refuse, Record, Pass,
              Compact, SettleManual, SetAgentHistory
<1>4. \/ talk' = Idle
      \/ talk' = [talk EXCEPT !.hist = Result("turn").history,
                              !.at = IF @ = "preflight" THEN "stream" ELSE "retry"]
  BY <1>3 DEF SettleTurn, Settle
<1>5. Idle.at = "idle"
  BY DEF Idle
<1>6. talk' = [talk EXCEPT !.hist = Result("turn").history,
                           !.at = IF @ = "preflight" THEN "stream" ELSE "retry"]
  BY <1>4, <1>5
<1>7. talk'.hist = Result("turn").history
  BY <1>1, <1>6 DEF TalkType
<1> QED
  BY <1>1, <1>7

\* A summary leaves the first message, itself and an unchanged end of the
\* conversation that begins with a user message, for any history, sizes, budget
\* and number of passes over the array they share: a pass over what a pass left
\* cuts the same history further on.
THEOREM KeepsTailCorrect == ConvSpec => KeepsTail
<1> DEFINE Kept ==
      talk.at \in {"preflight", "reactive"} /\ talk'.at \in {"stream", "retry"}
        /\ Result("turn").method = "summary" =>
      /\ talk'.hist[1] = talk.hist[1] /\ talk'.hist[2].nr = job["turn"].sum
      /\ \E i \in 2 .. Len(talk.hist) :
           /\ UserRole(talk.hist[i])
           /\ SubSeq(talk'.hist, 3, Len(talk'.hist)) = SubSeq(talk.hist, i, Len(talk.hist))
<1>1. ConvInv /\ [ConvNext]_convVars => Kept
  <2> SUFFICES ASSUME ConvInv, [ConvNext]_convVars, talk.at \in {"preflight", "reactive"},
                      talk'.at \in {"stream", "retry"}, Result("turn").method = "summary"
               PROVE  /\ talk'.hist[1] = talk.hist[1] /\ talk'.hist[2].nr = job["turn"].sum
                      /\ \E i \in 2 .. Len(talk.hist) :
                           /\ UserRole(talk.hist[i])
                           /\ SubSeq(talk'.hist, 3, Len(talk'.hist))
                                = SubSeq(talk.hist, i, Len(talk.hist))
    OBVIOUS
  <2> DEFINE c == talk'.hist
             h == talk.hist
             nr == job["turn"].sum
  <2>1. /\ c = Current(job["turn"]) /\ nr # 0 /\ JobOK(job["turn"])
        /\ Compacts(job["turn"], talk) /\ h \in Seq(Message)
    BY GoesOn, SummaryResult DEF TalkType
  <2>2. Folded(h, c, nr) /\ c \in Seq(Message)
    BY <2>1, CurrentType DEF Compacts
  <2> HIDE DEF c, h, nr
  <2>3. /\ c[1] = h[1] /\ c[2].nr = nr
        /\ \E i \in 2 .. Len(h) : /\ UserRole(h[i]) /\ Len(c) - 2 = Len(h) - i + 1
                                  /\ \A k \in 3 .. Len(c) : c[k] = h[i + k - 3]
    BY <2>1, <2>2 DEF Folded
  <2>4. PICK i \in 2 .. Len(h) : /\ UserRole(h[i]) /\ Len(c) - 2 = Len(h) - i + 1
                                 /\ \A k \in 3 .. Len(c) : c[k] = h[i + k - 3]
    BY <2>3
  <2>5. SubSeq(c, 3, Len(c)) = SubSeq(h, i, Len(h))
    <3> DEFINE s == SubSeq(c, 3, Len(c))
               u == SubSeq(h, i, Len(h))
               m == Len(c)
               n == Len(h)
    <3>1. m \in Nat /\ n \in Nat /\ i \in 2 .. n /\ m - 2 = n - i + 1
      BY <2>1, <2>2, <2>4
    <3>2. s = [k \in 1 .. m - 2 |-> c[3 + k - 1]]
      BY <2>2, <3>1
    <3>3. u = [k \in 1 .. n - i + 1 |-> h[i + k - 1]]
      BY <2>1, <3>1
    <3>4. ASSUME NEW k \in 1 .. m - 2 PROVE c[3 + k - 1] = h[i + k - 1]
      <4> HIDE DEF m
      <4>1. 3 + k - 1 \in 3 .. m /\ i + (3 + k - 1) - 3 = i + k - 1
        BY <3>1
      <4>2. c[3 + k - 1] = h[i + (3 + k - 1) - 3]
        BY <2>4, <4>1 DEF m
      <4> QED
        BY <4>1, <4>2
    <3> HIDE DEF s, u, m, n
    <3>5. s = [k \in 1 .. m - 2 |-> h[i + k - 1]]
      BY <3>2, <3>4
    <3>6. s = u
      BY <3>1, <3>3, <3>5
    <3> QED
      BY <3>6 DEF s, u
  <2> QED
    BY <2>3, <2>4, <2>5 DEF c, h, nr
<1>2. ConvInv /\ [ConvNext]_convVars => [Kept]_convVars
  BY <1>1
<1> QED
  BY ConvInitial, ConvKept, <1>1, PTL DEF ConvSpec, KeepsTail

\* What a turn commits as a summary makes its request smaller, and it then fits
\* the limit, for any sizes of messages and summaries.
THEOREM SummariesShrinkCorrect == ConvSpec => SummariesShrink
<1> DEFINE Shrinks ==
      talk.at \in {"preflight", "reactive"} /\ talk'.at \in {"stream", "retry"}
        /\ Result("turn").method = "summary" =>
      /\ estimateTokens(talk'.hist) < estimateTokens(talk.hist)
      /\ contextEstimate(talk'.hist, talk.prompt) <= Budget.Safety
<1>1. ConvInv /\ [ConvNext]_convVars => Shrinks
  <2> SUFFICES ASSUME ConvInv, [ConvNext]_convVars, talk.at \in {"preflight", "reactive"},
                      talk'.at \in {"stream", "retry"}, Result("turn").method = "summary"
               PROVE  /\ estimateTokens(talk'.hist) < estimateTokens(talk.hist)
                      /\ contextEstimate(talk'.hist, talk.prompt) <= Budget.Safety
    OBVIOUS
  <2> DEFINE c == talk'.hist
             h == talk.hist
             p == talk.prompt
             j == job["turn"]
  <2>1. /\ c = Current(j) /\ JobOK(j) /\ Compacts(j, talk) /\ h \in Seq(Message)
        /\ p \in Seq(Message)
        /\ contextEstimate(c, j.prompt) <= Budget.Safety /\ contextEstimate(c, j.prompt) < j.before
    BY GoesOn, SummaryResult DEF TalkType
  <2>2. j.prompt = p /\ j.before = contextEstimate(h, p) /\ c \in Seq(Message)
    BY <2>1, CurrentType DEF Compacts
  <2> HIDE DEF c, h, p, j
  <2>3. /\ estimateTokens(c) \in Nat /\ estimateTokens(h) \in Nat /\ estimateTokens(p) \in Nat
        /\ Fixed \in Nat /\ contextEstimate(c, p) = estimateTokens(c) + Fixed + estimateTokens(p)
        /\ contextEstimate(h, p) = estimateTokens(h) + Fixed + estimateTokens(p)
    BY <2>1, <2>2, EstimateType, ConversationAssumption
  <2>4. contextEstimate(c, p) < contextEstimate(h, p) /\ contextEstimate(c, p) <= Budget.Safety
    BY <2>1, <2>2
  <2>5. estimateTokens(c) < estimateTokens(h)
    BY <2>3, <2>4
  <2> QED
    BY <2>4, <2>5 DEF c, h, p
<1> QED
  BY ConvInitial, ConvKept, <1>1, PTL DEF ConvSpec, SummariesShrink

=============================================================================
