---------------------------- MODULE EditorHistory ----------------------------
(***************************************************************************)
(* The undo history of the Markdown editor (MarkdownEditorComponent): a    *)
(* step is opened by every command and every edit in block, and by a key   *)
(* that does not go on with the keys before it; the form may write a value *)
(* at any time.  The caret is kept at the end of the text, so that a text  *)
(* is the sequence of what has been put there.                             *)
(***************************************************************************)
EXTENDS Naturals, Sequences, FiniteSets, SequencesExt

CONSTANTS
  HistoryLimit,     \* HISTORY_LIMIT
  HistoryMaxChars,  \* HISTORY_MAX_CHARS
  WrittenValues,    \* the values a form writes
  Buttons,          \* TOOLBAR, the commands in order; the first two are undo and redo
  MaxTyped          \* bound: length of a text

VARIABLES
  text,        \* value, and what the textarea holds
  past, future,
  lastKind,    \* lastTypingKind
  near,        \* the last key is less than TYPING_GROUP_MS ago
  canUndo, canRedo,
  disabled, previewing,
  focusIndex,  \* the button chosen last
  written,     \* ghost: the last value the form has written
  dropped      \* ghost: a step has been thrown away since

editorVars == <<text, past, future, lastKind, near, canUndo, canRedo, disabled, previewing, focusIndex, written, dropped>>
barVars == <<disabled, previewing, focusIndex>>

Letter == "letter"
Space == "space"
Block == "block"   \* what a command or a paste leaves
NoKind == "none"

Pieces == {Letter, Space, Block}
Keys == {Letter, Space, "delete"}

ASSUME EditorAssumption == WrittenValues \subseteq Seq(Pieces)

PreviewIndex == Len(Buttons) + 1

-----------------------------------------------------------------------------
Chars(steps) == FoldLeft(LAMBDA sum, step : sum + Len(step), 0, steps)

TooMuch(p, f) == Len(p) + Len(f) > 1 /\ (Len(p) + Len(f) > HistoryLimit \/ Chars(p) + Chars(f) > HistoryMaxChars)

\* capHistory: the steps to undo go first from the oldest, then those to redo from the
\* bottom of their stack.
CapHistory(p, f) ==
  LET cut[n \in 0..(Len(p) + Len(f))] ==
                        IF n = 0 THEN <<p, f>>
                        ELSE LET c == cut[n - 1] IN
                             IF ~TooMuch(c[1], c[2]) THEN c
                             ELSE IF c[1] # <<>> THEN <<Tail(c[1]), c[2]>> ELSE <<c[1], Tail(c[2])>>
  IN cut[Len(p) + Len(f)]

SetHistory(p, f) ==
  LET kept == CapHistory(p, f) IN
  /\ past' = kept[1] /\ future' = kept[2]
  /\ dropped' = (dropped \/ Len(kept[1]) + Len(kept[2]) < Len(p) + Len(f))
  /\ canUndo' = (kept[1] # <<>>) /\ canRedo' = (kept[2] # <<>>)

\* A space goes on with its word; a word does not go on with a space.
Grouped(kind) ==
  kind # NoKind /\ lastKind # NoKind /\ near /\ (kind = lastKind \/ (lastKind = Letter /\ kind = Space))

\* remember
Remember(kind) ==
  /\ near' = TRUE /\ lastKind' = kind
  /\ IF Grouped(kind) THEN UNCHANGED <<past, future, dropped, canUndo, canRedo>>
     ELSE SetHistory(Append(past, text), <<>>)

CommandDisabled(index) ==
  \/ disabled \/ previewing
  \/ index = 1 /\ ~canUndo
  \/ index = 2 /\ ~canRedo

Enabled == {i \in DOMAIN Buttons : ~CommandDisabled(i)} \union (IF disabled THEN {} ELSE {PreviewIndex})
First(S) == CHOOSE i \in S : \A j \in S : i <= j
TabStop == IF focusIndex \in Enabled THEN focusIndex ELSE IF Enabled # {} THEN First(Enabled) ELSE 0

-----------------------------------------------------------------------------
EditorInit ==
  /\ text = <<>> /\ past = <<>> /\ future = <<>> /\ lastKind = NoKind /\ near = FALSE
  /\ canUndo = FALSE /\ canRedo = FALSE /\ disabled = FALSE /\ previewing = FALSE
  /\ focusIndex = 1 /\ written = <<>> /\ dropped = FALSE

\* writeValue leaves the group of keys under way as it is.
WriteValue(value) ==
  /\ text' = value /\ past' = <<>> /\ future' = <<>>
  /\ canUndo' = FALSE /\ canRedo' = FALSE
  /\ written' = value /\ dropped' = FALSE
  /\ UNCHANGED <<lastKind, near, barVars>>

\* onBeforeInput and onInput of one key
PressKey(kind) ==
  /\ ~disabled /\ ~previewing
  /\ IF kind = "delete" THEN text # <<>> /\ text' = Front(text) ELSE Len(text) < MaxTyped /\ text' = Append(text, kind)
  /\ Remember(kind)
  /\ UNCHANGED <<written, barVars>>

\* A paste, a cut, a correction, or a command of the bar (apply).
EditInBlock ==
  /\ ~disabled /\ ~previewing
  /\ \/ Len(text) < MaxTyped /\ text' = Append(text, Block)
     \/ text # <<>> /\ text' = Front(text)
  /\ Remember(NoKind)
  /\ UNCHANGED <<written, barVars>>

\* stepHistory
\* A slip that forgets the text it leaves.
UndoForgets ==
  /\ ~CommandDisabled(1) /\ past # <<>>
  /\ text' = Last(past)
  /\ SetHistory(Front(past), future)
  /\ lastKind' = NoKind
  /\ UNCHANGED <<near, written, barVars>>
Undo ==
  /\ ~CommandDisabled(1) /\ past # <<>>
  /\ text' = Last(past)
  /\ SetHistory(Front(past), Append(future, text))
  /\ lastKind' = NoKind
  /\ UNCHANGED <<near, written, barVars>>

Redo ==
  /\ ~CommandDisabled(2) /\ future # <<>>
  /\ text' = Last(future)
  /\ SetHistory(Append(past, text), Front(future))
  /\ lastKind' = NoKind
  /\ UNCHANGED <<near, written, barVars>>

Pause ==
  /\ near /\ near' = FALSE
  /\ UNCHANGED <<text, past, future, lastKind, canUndo, canRedo, written, dropped, barVars>>

\* setDisabledState, togglePreview, onToolbarFocus and the arrows of onToolbarKeydown
Bar ==
  /\ \/ disabled' = ~disabled /\ UNCHANGED <<previewing, focusIndex>>
     \/ ~disabled /\ previewing' = ~previewing /\ focusIndex' = PreviewIndex /\ UNCHANGED disabled
     \/ /\ Enabled # {}
        /\ \/ focusIndex' = First({i \in Enabled : i > TabStop} \union IF \E i \in Enabled : i > TabStop THEN {} ELSE Enabled)
           \/ focusIndex' = First(Enabled)
           \/ focusIndex' = Max(Enabled)
        /\ UNCHANGED <<disabled, previewing>>
  /\ UNCHANGED <<text, past, future, lastKind, near, canUndo, canRedo, written, dropped>>

EditorNext ==
  \/ \E value \in WrittenValues : WriteValue(value)
  \/ \E kind \in Keys : PressKey(kind)
  \/ EditInBlock \/ Undo \/ Redo \/ Pause \/ Bar

EditorSpec == EditorInit /\ [][EditorNext]_editorVars

-----------------------------------------------------------------------------
(* Properties *)

\* The versions of the text from the oldest to undo to the last to redo.
Line(p, t, f) == Append(p, t) \o Reverse(f)

\* Going through the history neither loses a version nor puts two in another order:
\* capHistory takes from its ends only, the oldest first.
HistoryIsOneLine ==
  [][Undo \/ Redo =>
       LET before == Line(past, text, future)
           after == Line(past', text', future')
       IN \/ IsSuffix(after, before)
          \/ past' = <<>> /\ \E i, j \in DOMAIN before : after = SubSeq(before, i, j)]_editorVars

\* "si annulla una parola alla volta (lo spazio resta con la parola precedente)": between
\* two versions there is a block of its own, one word with its spaces, or a deletion.
Typed(s) == \E n \in 0..Len(s) : \A i \in DOMAIN s : s[i] = IF i <= n THEN Letter ELSE Space
More(from, to) == SubSeq(to, Len(from) + 1, Len(to))
OneStep(from, to) ==
  \/ IsPrefix(to, from)
  \/ IsPrefix(from, to) /\ (More(from, to) = <<Block>> \/ Typed(More(from, to)))
InSteps(line) == \A i \in 1..(Len(line) - 1) : OneStep(line[i], line[i + 1])
OneWordAtATime == InSteps(Line(past, text, future))

\* Undo and redo go through every version, each a word or a block from the next
\* (markdown-editor.component.ts, remember and capHistory).
HistorySafe == []OneWordAtATime /\ HistoryIsOneLine

\* What a group of keys has made of the text it began with.
MadeBy(kind, from, to) ==
  CASE kind = "delete" -> IsPrefix(to, from)
    [] kind = Letter   -> IsPrefix(from, to) /\ \A i \in DOMAIN More(from, to) : More(from, to)[i] = Letter
    [] kind = Space    -> IsPrefix(from, to) /\ Typed(More(from, to))

\* A group of keys that may go on is the newest step, and nothing is there to redo.
GroupIsNewest ==
  lastKind # NoKind => /\ future = <<>>
                       /\ past # <<>> => MadeBy(lastKind, Last(past), text)
EditorIInv ==
  /\ text \in Seq(Pieces) /\ past \in Seq(Seq(Pieces)) /\ future \in Seq(Seq(Pieces))
  /\ lastKind \in Keys \cup {NoKind}
  /\ GroupIsNewest /\ OneWordAtATime

\* "si annulla una parola alla volta": undoing to the end goes back to the value of the form.
UndoGoesBackToTheValue == ~dropped => Line(past, text, future)[1] = written
=============================================================================
