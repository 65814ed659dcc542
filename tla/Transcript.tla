------------------------------ MODULE Transcript ------------------------------
(***************************************************************************)
(* The transcript on the screen: the agents extension turns events of the  *)
(* agents into patches of a scene (extensions/agents/chat.go), the bridge  *)
(* applies a patch at once and tells the interface afterwards              *)
(* (modules/harness/bridges.go, scene.go), and the interface renders the   *)
(* scene anew, or at most every 75 ms only the end of a box that grew      *)
(* (model.go).                                                             *)
(*                                                                         *)
(* A box is rendered as a frame around its text, so two boxes look alike   *)
(* only when their texts are equal.  A text is a sequence of pieces, each  *)
(* of one agent.                                                           *)
(***************************************************************************)
EXTENDS Integers, Sequences

CONSTANTS
  Owner,     \* agents with a transcript; "main" is the root
  MaxPieces, \* bound: pieces of text an agent streams
  MaxTurns,  \* bound: turns of an agent
  MaxExtra   \* bound: rebuilds, notifications, resizes and clears

ASSUME TranscriptAssumption ==
  /\ "main" \in Owner /\ MaxPieces \in Nat /\ MaxTurns \in Nat /\ MaxExtra \in Nat

VARIABLES
  markdown,  \* answers are rendered as markdown
  talking,   \* turns under way: "no", "yes", per agent
  turns,     \* turns of each agent in its history
  pieces,    \* pieces each agent has streamed
  answer,    \* Model.streamContent
  endings,   \* answers whose message_end has yet to be dispatched
  focused,   \* extension: focusedAgentID
  seq,       \* extension: chatSeq
  asst, pend,\* extension: chatAsstNode, chatPendingAsstNode, or 0
  todo,      \* extension: patches its handler has still to make
  scene,     \* the boxes of the chat area
  unsent,    \* PatchUI: sceneDirtyMsg of a patch that has been applied
  dirtyMsgs, \* messages to Update
  timers,    \* ticks of chatAppendRefreshMsg under way
  append,    \* Model.chatAppend...: dirty, scheduled, ID and text
  shown,     \* ChatView.externalContent
  extras

transcriptVars == <<markdown, talking, turns, pieces, answer, endings, focused, seq,
                    asst, pend, todo, scene, unsent, dirtyMsgs, timers, append, shown, extras>>
agents    == <<talking, turns, pieces, answer, endings>>
extension == <<focused, seq, asst, pend, todo>>
interface == <<dirtyMsgs, timers, append, shown>>

box(kind, nr, text) == [id |-> <<kind, nr>>, text |-> text]
Full == [only |-> FALSE, id |-> << >>, text |-> << >>]   \* a structural change
NoAppend == [dirty |-> FALSE, scheduled |-> FALSE, id |-> << >>, text |-> << >>]

TranscriptInit ==
  /\ markdown \in BOOLEAN
  /\ talking = [o \in Owner |-> FALSE] /\ turns = [o \in Owner |-> 0]
  /\ pieces = [o \in Owner |-> 0] /\ answer = << >> /\ endings = << >>
  /\ focused = "main" /\ seq = 0 /\ asst = 0 /\ pend = 0 /\ todo = << >>
  /\ scene = << >> /\ unsent = << >> /\ dirtyMsgs = << >> /\ timers = 0
  /\ append = NoAppend /\ shown = << >> /\ extras = 0

-----------------------------------------------------------------------------
(* The extension.  It is entered by one event at a time.                   *)

Free == todo = << >> /\ unsent = << >>

insert(kind, nr, text) == [op |-> "insert", box |-> box(kind, nr, text)]
appendText(nr, text)   == [op |-> "append", box |-> box("a", nr, text)]
replaceText(nr, text)  == [op |-> "replace", box |-> box("a", nr, text)]
setRoot                == [op |-> "set_root"]

\* Mutant: the events of every agent are shown.
everyOwner(o) == o \in Owner

\* Only the events of the agent that has the focus are shown.
owner(o) == o = focused

\* A turn starts: onChatUserPrompt reserves a box for the answer.
UserPrompt(o) ==
  /\ Free /\ ~talking[o] /\ turns[o] < MaxTurns
  /\ talking' = [talking EXCEPT ![o] = TRUE]
  /\ IF owner(o)
     THEN /\ seq' = seq + 1 /\ pend' = seq + 1 /\ asst' = 0
          /\ todo' = <<insert("u", seq + 1, <<<<o, 0>>>>)>>
     ELSE UNCHANGED <<seq, pend, asst, todo>>
  /\ UNCHANGED <<markdown, turns, pieces, answer, endings, focused, scene, unsent,
                 interface, extras>>

\* onChatToken: the first piece makes the box, the others are appended.
Token(o) ==
  LET piece == <<<<o, pieces[o] + 1>>>>
      nr == IF pend = 0 THEN seq + 1 ELSE pend
  IN /\ Free /\ talking[o] /\ pieces[o] < MaxPieces
     /\ pieces' = [pieces EXCEPT ![o] = @ + 1]
     /\ answer' = IF o = "main" THEN answer \o piece ELSE answer
     /\ IF ~owner(o) THEN UNCHANGED <<seq, asst, pend, todo>>
        ELSE IF asst # 0
        THEN todo' = <<appendText(asst, piece)>> /\ UNCHANGED <<seq, asst, pend>>
        ELSE /\ seq' = IF pend = 0 THEN seq + 1 ELSE seq
             /\ asst' = nr /\ pend' = 0
             /\ todo' = <<insert("a", nr, piece)>>
     /\ UNCHANGED <<markdown, talking, turns, endings, focused, scene, unsent,
                    interface, extras>>

\* onChatMessageEnd, for answers of the root, whoever has the focus.
MessageEnd ==
  LET display == IF markdown THEN <<<<"main", 0>>>> ELSE Head(endings)
      nr == IF pend = 0 THEN seq + 1 ELSE pend
  IN /\ Free /\ endings # << >>
     /\ endings' = Tail(endings)
     /\ asst' = 0
     /\ IF asst # 0
        THEN todo' = <<replaceText(asst, display)>> /\ UNCHANGED <<seq, pend>>
        ELSE /\ seq' = IF pend = 0 THEN seq + 1 ELSE seq
             /\ pend' = 0
             /\ todo' = <<insert("a", nr, display)>>
     /\ UNCHANGED <<markdown, talking, turns, pieces, answer, focused, scene, unsent,
                    interface, extras>>

\* onChatNotify.
ChatNotify ==
  /\ Free /\ extras < MaxExtra /\ extras' = extras + 1
  /\ seq' = seq + 1
  /\ todo' = <<insert("n", seq + 1, << >>)>>
  /\ UNCHANGED <<markdown, agents, focused, asst, pend, scene, unsent, interface>>

\* The boxes of an agent's history, numbered from one.
Replay(o) ==
  [i \in 1 .. 2 * turns[o] |->
     insert(IF i % 2 = 1 THEN "u" ELSE "a", i, <<<<o, 0>>>>)]

\* RebuildTranscriptFor: the focus moves, or the history was replaced.
Rebuild(o) ==
  /\ Free /\ extras < MaxExtra /\ extras' = extras + 1
  /\ focused' = o /\ asst' = 0 /\ pend' = 0
  /\ seq' = Len(Replay(o))
  /\ todo' = <<setRoot>> \o Replay(o)
  /\ UNCHANGED <<markdown, agents, scene, unsent, interface>>

-----------------------------------------------------------------------------
(* The bridge.                                                             *)

\* ApplyPatch.  An unknown box is an error that the extension ignores.
Patch ==
  LET p == Head(todo)
      at == {i \in DOMAIN scene : scene[i].id = p.box.id}
  IN /\ todo # << >> /\ unsent = << >>
     /\ todo' = Tail(todo)
     /\ \/ p.op = "set_root" /\ scene' = << >> /\ unsent' = <<Full>>
        \/ p.op = "insert" /\ scene' = Append(scene, p.box) /\ unsent' = <<Full>>
        \/ /\ p.op = "replace" /\ at # {}
           /\ scene' = [i \in DOMAIN scene |-> IF i \in at THEN p.box ELSE scene[i]]
           /\ unsent' = <<Full>>
        \/ /\ p.op = "append" /\ at # {}
           /\ scene' = [i \in DOMAIN scene |->
                IF i \in at THEN [p.box EXCEPT !.text = scene[i].text \o @] ELSE scene[i]]
           /\ unsent' = <<[only |-> TRUE, id |-> p.box.id, text |-> p.box.text]>>
        \/ p.op \in {"append", "replace"} /\ at = {} /\ UNCHANGED <<scene, unsent>>
     /\ UNCHANGED <<markdown, agents, focused, seq, asst, pend, interface, extras>>

SendDirty ==
  /\ unsent # << >> /\ unsent' = << >>
  /\ dirtyMsgs' = dirtyMsgs \o unsent
  /\ UNCHANGED <<markdown, agents, extension, scene, timers, append, shown, extras>>

-----------------------------------------------------------------------------
(* The interface.                                                          *)

\* sceneDirtyMsg: a structural change is rendered at once; what was appended
\* to one box is kept together for the next tick.
HandleDirty ==
  LET m == Head(dirtyMsgs)
  IN /\ dirtyMsgs # << >> /\ dirtyMsgs' = Tail(dirtyMsgs)
     /\ IF m.only
        THEN /\ append' = [dirty |-> TRUE, scheduled |-> TRUE,
                           id |-> IF append.id \in {<< >>, m.id} THEN m.id ELSE << >>,
                           text |-> IF append.id \in {<< >>, m.id}
                                    THEN append.text \o m.text ELSE << >>]
             /\ timers' = IF append.scheduled THEN timers ELSE timers + 1
             /\ UNCHANGED shown
        ELSE append' = NoAppend /\ shown' = scene /\ UNCHANGED timers
     /\ UNCHANGED <<markdown, agents, extension, scene, unsent, extras>>

\* refreshWASMChatAppend: the box without what was appended is the end of
\* what is shown, and is replaced by the box as it is.
AppendFits(b) ==
  LET n == Len(b.text) - Len(append.text)
  IN /\ b.id = append.id /\ append.text # << >> /\ n >= 0
     /\ SubSeq(b.text, n + 1, Len(b.text)) = append.text
     /\ shown # << >> /\ shown[Len(shown)].text = SubSeq(b.text, 1, n)
     /\ shown[Len(shown)].id[1] = b.id[1]

\* Mutant: nothing is rendered when the end does not fit.
RefreshAppended ==
  /\ timers > 0 /\ timers' = timers - 1
  /\ append' = IF append.dirty THEN NoAppend ELSE [append EXCEPT !.scheduled = FALSE]
  /\ shown' = IF append.dirty /\ \E i \in DOMAIN scene : AppendFits(scene[i])
              THEN Append(SubSeq(shown, 1, Len(shown) - 1),
                          scene[CHOOSE i \in DOMAIN scene : AppendFits(scene[i])])
              ELSE shown
  /\ UNCHANGED <<markdown, agents, extension, scene, unsent, dirtyMsgs, extras>>

\* Mutant: what was rendered stays marked.
RefreshKeepingMark ==
  /\ timers > 0 /\ timers' = timers - 1
  /\ append' = [append EXCEPT !.scheduled = FALSE]
  /\ shown' = IF append.dirty THEN scene ELSE shown
  /\ UNCHANGED <<markdown, agents, extension, scene, unsent, dirtyMsgs, extras>>

\* chatAppendRefreshMsg: the end of the box, or everything when it does not
\* fit.
Refresh ==
  /\ timers > 0 /\ timers' = timers - 1
  /\ append' = IF append.dirty THEN NoAppend ELSE [append EXCEPT !.scheduled = FALSE]
  /\ shown' = IF ~append.dirty THEN shown
              ELSE IF \E i \in DOMAIN scene : AppendFits(scene[i])
              THEN Append(SubSeq(shown, 1, Len(shown) - 1),
                          scene[CHOOSE i \in DOMAIN scene : AppendFits(scene[i])])
              ELSE scene
  /\ UNCHANGED <<markdown, agents, extension, scene, unsent, dirtyMsgs, extras>>

\* StreamDoneMsg of the root renders everything and has message_end
\* dispatched; the end of a sub-agent's turn tells the interface nothing.
TurnDone(o) ==
  /\ talking[o]
  /\ talking' = [talking EXCEPT ![o] = FALSE]
  /\ turns' = [turns EXCEPT ![o] = @ + 1]
  /\ IF o = "main"
     THEN /\ append' = NoAppend /\ shown' = scene /\ answer' = << >>
          /\ endings' = IF answer = << >> THEN endings ELSE Append(endings, answer)
     ELSE UNCHANGED <<append, shown, answer, endings>>
  /\ UNCHANGED <<markdown, pieces, extension, scene, unsent, dirtyMsgs, timers, extras>>

Resize ==
  /\ extras < MaxExtra /\ extras' = extras + 1
  /\ shown' = scene
  /\ UNCHANGED <<markdown, agents, extension, scene, unsent, dirtyMsgs, timers, append>>

\* clearMsg empties the scene behind the extension's back.
Clear ==
  /\ extras < MaxExtra /\ extras' = extras + 1
  /\ scene' = << >> /\ shown' = << >> /\ answer' = << >>
  /\ UNCHANGED <<markdown, talking, turns, pieces, endings, extension, unsent, dirtyMsgs,
                 timers, append>>

-----------------------------------------------------------------------------
TranscriptNext ==
  \/ \E o \in Owner : UserPrompt(o) \/ Token(o) \/ Rebuild(o) \/ TurnDone(o)
  \/ MessageEnd \/ ChatNotify \/ Patch \/ SendDirty \/ HandleDirty \/ Refresh
  \/ Resize \/ Clear

TranscriptSpec == TranscriptInit /\ [][TranscriptNext]_transcriptVars

-----------------------------------------------------------------------------
(* Properties.                                                             *)

Piece == Owner \X (0 .. MaxPieces)
Box == [id : {"u", "a", "n"} \X Nat, text : Seq(Piece)]

\* The type invariant: a refresh is scheduled only while a tick is under way.
TranscriptTypeOK ==
  /\ markdown \in BOOLEAN /\ focused \in Owner /\ asst \in 0 .. seq /\ pend \in 0 .. seq
  /\ scene \in Seq(Box) /\ shown \in Seq(Box) /\ Len(unsent) <= 1
  /\ append.scheduled => timers > 0
  /\ append.dirty => append.scheduled

\* "The tail is never dropped": when no patch, message or tick is under way
\* the screen shows the scene, in whatever order pieces, rebuilds, resizes and
\* ticks came, and though patches are applied before their message is handled.
QuietShowsScene ==
  Free /\ dirtyMsgs = << >> /\ timers = 0 => shown = scene

\* "Stale text from the previous agent cannot linger": no box mixes pieces of
\* two agents, though the numbers of boxes start again with every rebuild and
\* answers go on while the focus moves.
OneVoice ==
  \A i \in DOMAIN scene :
    LET text == scene[i].text
    IN \A k \in DOMAIN text : text[k][1] = text[1][1]

=============================================================================
