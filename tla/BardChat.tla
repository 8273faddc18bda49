------------------------------- MODULE BardChat -------------------------------
(***************************************************************************)
(* yby bard (plugins/bard): the chats of a project, which share one        *)
(* history file, in the full-screen interface (a Bubble Tea program: the   *)
(* answer is worked out by a command and arrives as a message), in the     *)
(* plain one (a loop), for a single prompt, or for the lines of a pipe.    *)
(*                                                                         *)
(* A question is the number of its turn; texts are left out, except        *)
(* whether a line is too long for the scanner that reads the file.         *)
(***************************************************************************)
EXTENDS Naturals, Sequences, FiniteSets

CONSTANTS Chats,
          ToolNames,
          MaxTurns,       \* bound on the questions asked
          MaxHistory,     \* entries put into the prompt, maxHistoryEntries
          MaxLosses       \* bound on the lines that cannot be written

ASSUME BardConstants == MaxTurns \in Nat /\ MaxHistory \in Nat /\ MaxLosses \in Nat

VARIABLES history,    \* .yby/bard_history.jsonl
          chat,
          toolDefs,   \* where each tool is defined
          disturbed,  \* history: chats whose part of the file lost a line or was cleared
          losses,
          asked       \* questions asked so far

bardVars == <<history, chat, toolDefs, disturbed, losses, asked>>

Interfaces == {"tui", "legacy", "once", "batch"}
AnswerSteps == {"search", "classify", "tool", "stream"}
Turns == 1..MaxTurns
HistoryEntry == [session : Chats, role : {"user", "assistant"}, turn : Turns, long : BOOLEAN]
PendingAnswer == [turn : Turns, steps : Seq(AnswerSteps)]
ClosedChat == [ui |-> "closed", busy |-> FALSE, pending |-> {}, context |-> {}]

BardTypeOK ==
    /\ history \in Seq(HistoryEntry)
    /\ toolDefs \in [ToolNames -> SUBSET {"builtin", "home", "project"}]
    /\ disturbed \subseteq Chats /\ losses \in 0..MaxLosses /\ asked \in 0..MaxTurns
    /\ chat \in [Chats -> [ui : Interfaces \union {"closed", "left"}, busy : BOOLEAN,
                           pending : SUBSET PendingAnswer, context : SUBSET (Nat \X HistoryEntry)]]
    /\ \A c \in Chats : Cardinality(chat[c].context) <= MaxHistory

BardInit ==
    /\ history = <<>> /\ disturbed = {} /\ losses = 0 /\ asked = 0
    /\ chat = [c \in Chats |-> ClosedChat]
    /\ toolDefs \in [ToolNames -> {{"builtin", "project"}, {"home", "project"}}]

-----------------------------------------------------------------------------
(* The history file.  What is read of it are its lines with their numbers. *)

Lines(numbers) == {<<i, history[i]>> : i \in numbers}
LastOf(numbers, n) == {i \in numbers : Cardinality({j \in numbers : j > i}) < n}

(* loadAllEntries: the scanner stops, without a word, at a line of more    *)
(* than 64 KiB; the lines after it are never seen again.                   *)
LoadAllEntries == {i \in DOMAIN history : \A j \in 1..i : ~history[j].long}

LoadHistory == Lines(LastOf(LoadAllEntries, MaxHistory))
LoadSessionHistory(session) ==
    Lines(LastOf({i \in LoadAllEntries : history[i].session = session}, MaxHistory))

(* saveMessage ignores every error.                                        *)
SaveMessage(c, role, turn, long) ==
    \/ /\ history' = Append(history, [session |-> c, role |-> role, turn |-> turn, long |-> long])
       /\ UNCHANGED <<disturbed, losses>>
    \/ /\ losses < MaxLosses
       /\ losses' = losses + 1
       /\ disturbed' = disturbed \union {c}
       /\ UNCHANGED history

-----------------------------------------------------------------------------
(* Tools: the built-in ones, then those of the home directory, then those  *)
(* of the project, each only under a name not taken yet.  An external tool *)
(* is registered without its intents, and is never found by one.           *)
RegisteredFrom(n) ==
    IF "builtin" \in toolDefs[n] THEN "builtin"
    ELSE IF "home" \in toolDefs[n] THEN "home" ELSE "project"
FindByIntent(n) == RegisteredFrom(n) = "builtin"

-----------------------------------------------------------------------------
(* The session is named after the second it starts in: chats opened in     *)
(* different seconds.                                                      *)
OpenChat(c, ui) ==
    /\ chat[c].ui = "closed"
    /\ chat' = [chat EXCEPT ![c].ui = ui, ![c].context = IF ui \in {"tui", "legacy"} THEN LoadHistory ELSE {}]
    /\ UNCHANGED <<history, toolDefs, disturbed, losses, asked>>

StepsOf(ui) ==
    CASE ui \in {"tui", "legacy"} -> <<"search", "classify", "stream">>
      [] ui = "once" -> <<"classify", "search", "stream">>
      [] ui = "batch" -> <<"search", "stream">>

(* The user's line is saved before anything else is done about it.         *)
SendQuestion(c) ==
    /\ asked < MaxTurns /\ asked' = asked + 1
    /\ chat' = [chat EXCEPT ![c].busy = TRUE,
                            ![c].pending = @ \union {[turn |-> asked', steps |-> StepsOf(chat[c].ui)]}]
    /\ IF chat[c].ui \in {"tui", "legacy"}
       THEN SaveMessage(c, "user", asked', FALSE)
       ELSE UNCHANGED <<history, disturbed, losses>>
    /\ UNCHANGED toolDefs

\* mutant: Enter also works while an answer is on its way
AskAnytime(c) == chat[c].ui \in Interfaces /\ SendQuestion(c)

Ask(c) == chat[c].ui \in Interfaces /\ ~chat[c].busy /\ SendQuestion(c)

GoOn(c, r, steps) ==
    /\ chat' = [chat EXCEPT ![c].pending = (@ \ {r}) \union {[r EXCEPT !.steps = steps]}]
    /\ UNCHANGED <<history, toolDefs, disturbed, losses, asked>>

(* The documents are optional, and so is a usable intent.                  *)
SearchDocuments(c, r) == Head(r.steps) = "search" /\ GoOn(c, r, Tail(r.steps))

ClassifyIntent(c, r) ==
    /\ Head(r.steps) = "classify"
    /\ \/ GoOn(c, r, Tail(r.steps))
       \/ \E n \in ToolNames : FindByIntent(n) /\ GoOn(c, r, <<"tool">> \o Tail(r.steps))

(* A tool's error goes to the model as its result.                         *)
ExecuteTool(c, r) == Head(r.steps) = "tool" /\ GoOn(c, r, Tail(r.steps))

(* StreamCompletion; the plain interface tries again for half a minute and *)
(* does not save an empty answer.  A failure saves nothing.                *)
Answer(c, r) ==
    /\ Head(r.steps) = "stream"
    /\ chat' = [chat EXCEPT ![c].pending = @ \ {r}, ![c].busy = FALSE]
    /\ \/ UNCHANGED <<history, disturbed, losses>>
       \/ /\ chat[c].ui \in {"tui", "legacy"}
          /\ \E long \in BOOLEAN : SaveMessage(c, "assistant", r.turn, long)
    /\ UNCHANGED <<toolDefs, asked>>

(* /clear and /session of the plain interface.  What the prompt holds of   *)
(* the history stays in it.                                                *)
ClearHistory(c) ==
    /\ chat[c].ui = "legacy" /\ ~chat[c].busy
    /\ history' = <<>>
    /\ disturbed' = Chats
    /\ UNCHANGED <<chat, toolDefs, losses, asked>>

LoadSession(c, session) ==
    /\ chat[c].ui = "legacy" /\ ~chat[c].busy /\ LoadSessionHistory(session) # {}
    /\ chat' = [chat EXCEPT ![c].context = LoadSessionHistory(session)]
    /\ UNCHANGED <<history, toolDefs, disturbed, losses, asked>>

(* exit, the end of the input, or an interrupt while an answer is awaited. *)
QuitChat(c) ==
    /\ chat[c].ui \in Interfaces
    /\ chat' = [chat EXCEPT ![c] = [ClosedChat EXCEPT !.ui = "left"]]
    /\ UNCHANGED <<history, toolDefs, disturbed, losses, asked>>

BardNext ==
    \E c \in Chats :
      \/ \E ui \in Interfaces : OpenChat(c, ui)
      \/ Ask(c) \/ ClearHistory(c) \/ QuitChat(c)
      \/ \E session \in Chats : LoadSession(c, session)
      \/ \E r \in chat[c].pending : SearchDocuments(c, r) \/ ClassifyIntent(c, r) \/ ExecuteTool(c, r) \/ Answer(c, r)

BardSpec == BardInit /\ [][BardNext]_bardVars

-----------------------------------------------------------------------------
(* history.go and the interfaces that write it: however chats interleave,  *)
(* and whatever fails, an answer in the file comes right after its own     *)
(* question among the lines of its session.  Not for a session that lost a *)
(* line or whose lines /clear removed.                                     *)
AnswersFollowQuestions ==
    \A i \in DOMAIN history :
        history[i].role = "assistant" /\ history[i].session \notin disturbed =>
            LET earlier == {j \in 1..(i - 1) : history[j].session = history[i].session} IN
            \E j \in earlier :
                /\ \A k \in earlier : k <= j
                /\ history[j].role = "user" /\ history[j].turn = history[i].turn
=============================================================================
