------------------------------ MODULE EditorText ------------------------------
(***************************************************************************)
(* The commands of the Markdown editor as functions on texts               *)
(* (markdown-editor-text.ts): bold and italic on a selection, formats of   *)
(* lines, Enter in a list, and the colouring put over the text.  A text is *)
(* a sequence of symbols: a letter, a space, or a marker; in the part on   *)
(* lists it is a sequence of lines.                                        *)
(***************************************************************************)
EXTENDS Naturals, Sequences, FiniteSets, SequencesExt

CONSTANTS
  Texts,   \* the texts bold and italic are tried on
  Drafts,  \* the lists Enter and the formats are tried on: sequences of records like LineOf
  Sources, \* the texts that are coloured, with what the lexer makes of them
  MaxText, \* bound: symbols of a text that is given a format
  MaxLines \* bound: lines of a list

VARIABLES
  doc,     \* EditorState: text and selection, the symbols from start + 1 to end
  lines,   \* the text as lines
  caret,   \* the line of the caret, which is at its end
  source   \* a text and its tokens

textVars == <<doc, lines, caret, source>>

-----------------------------------------------------------------------------
(* Bold and italic *)

MarkerLen == [bold |-> 2, italic |-> 1]
Placeholder == <<"a">>

\* runLength: how many ch there are from position pos to the right before limit, or to the
\* left after it.
RunRight(text, pos, ch, limit) ==
  CHOOSE n \in 0..(limit - pos) : /\ \A i \in 1..n : text[pos + i] = ch
                                  /\ n < limit - pos => text[pos + n + 1] # ch
RunLeft(text, pos, ch, limit) ==
  CHOOSE n \in 0..(pos - limit) : /\ \A i \in 0..(n - 1) : text[pos - i] = ch
                                  /\ n < pos - limit => text[pos - n] # ch

\* What is selected without the spaces at its ends.
Trimmed(d) ==
  LET words == {i \in (d.start + 1)..d.end : d.text[i] # " "}
  IN IF words = {} THEN <<d.end, d.end>>
     ELSE <<CHOOSE i \in 0..d.end : i + 1 \in words /\ \A j \in words : i < j,
            CHOOSE i \in words : \A j \in words : j <= i>>

\* The runs of a marker around and inside the selection; a run of two is bold, of one
\* italic, of three both.
Run(d, ch) ==
  LET a == Trimmed(d)[1]
      b == Trimmed(d)[2]
      leftIn == RunRight(d.text, a, ch, b)
      rightIn == IF leftIn >= b - a THEN 0 ELSE RunLeft(d.text, b, ch, a + leftIn)
  IN [leftOut |-> RunLeft(d.text, a, ch, 0), leftIn |-> leftIn,
      rightIn |-> rightIn, rightOut |-> RunRight(d.text, b, ch, Len(d.text))]

Wrapped(d, ch, m) == LET r == Run(d, ch) IN r.leftOut + r.leftIn \in {m, 3} /\ r.rightIn + r.rightOut \in {m, 3}

Unwrap(d, ch, m) ==
  LET r == Run(d, ch)
      from == Trimmed(d)[1] - r.leftOut
      to == Trimmed(d)[2] + r.rightOut
  IN [text |-> SubSeq(d.text, 1, from) \o SubSeq(d.text, from + m + 1, to - m) \o SubSeq(d.text, to + 1, Len(d.text)),
      start |-> Trimmed(d)[1] + r.leftIn - m, end |-> Trimmed(d)[2] - r.rightIn - m]

Wrap(d, m) ==
  LET a == Trimmed(d)[1]
      b == Trimmed(d)[2]
      inner == IF a < b THEN SubSeq(d.text, a + 1, b) ELSE Placeholder
      marker == [i \in 1..m |-> "*"]
  IN [text |-> SubSeq(d.text, 1, a) \o marker \o inner \o marker \o SubSeq(d.text, b + 1, Len(d.text)),
      start |-> a + m, end |-> a + m + Len(inner)]

\* toggleWrap: stars are looked for before underscores.
ToggleWrap(d, format) ==
  LET m == MarkerLen[format] IN
  IF Wrapped(d, "*", m) THEN Unwrap(d, "*", m)
  ELSE IF Wrapped(d, "_", m) THEN Unwrap(d, "_", m)
  ELSE Wrap(d, m)

-----------------------------------------------------------------------------
(* Lists *)

\* n is the number of an item of a numbered list, else 0.
LineOf(indent, kind, n, text) == [indent |-> indent, kind |-> kind, n |-> n, text |-> text]
Numbered(line) == line.kind = "numbered"
Item(line) == line.kind \in {"bullet", "numbered"}
BlankLine(line) == line.kind = "text" /\ ~line.text

\* nextMarker
NextItem(line) == LineOf(line.indent, line.kind, IF Numbered(line) THEN line.n + 1 ELSE 0, FALSE)

\* parentItem: the nearest item above that is less indented; text without indentation
\* ends the list.
ParentItem(ls, k) ==
  LET stop == {j \in 1..(k - 1) : ls[j].indent = 0 /\ ~Item(ls[j]) /\ ~BlankLine(ls[j])}
      up == {j \in 1..(k - 1) : Item(ls[j]) /\ ls[j].indent < ls[k].indent /\ \A s \in stop : s < j}
  IN IF up = {} THEN 0 ELSE CHOOSE j \in up : \A i \in up : i <= j

\* A slip in which sublists end the renumbering.
StopAtSublists(ls, k) ==
  LET go[i \in 0..Len(ls)] ==
        IF i <= k THEN <<ls, ls[k].n + 1, Numbered(ls[k])>>
        ELSE LET at == go[i - 1] IN
             IF ~at[3] \/ BlankLine(ls[i]) \/ ls[i].indent # ls[k].indent \/ ~Numbered(ls[i]) \/ ls[i].n = at[2]
             THEN <<at[1], at[2], FALSE>> ELSE <<[at[1] EXCEPT ![i].n = at[2]], at[2] + 1, TRUE>>
  IN go[Len(ls)][1]
\* renumberAfter: the items of the same level after the k-th line, until one that has its
\* number already; lines that are more indented are passed over.
RenumberAfter(ls, k) ==
  LET go[i \in 0..Len(ls)] ==
        IF i <= k THEN <<ls, IF Numbered(ls[k]) THEN ls[k].n + 1 ELSE 0, Numbered(ls[k])>>
        ELSE LET at == go[i - 1] IN
             IF ~at[3] \/ (~BlankLine(ls[i]) /\ ls[i].indent > ls[k].indent) THEN at
             ELSE IF BlankLine(ls[i]) \/ ls[i].indent < ls[k].indent \/ ~Numbered(ls[i]) \/ ls[i].n = at[2]
             THEN <<at[1], at[2], FALSE>> ELSE <<[at[1] EXCEPT ![i].n = at[2]], at[2] + 1, TRUE>>
  IN go[Len(ls)][1]

\* continueList: Enter at the end of an item opens the next one; in an item without text it
\* goes up a level, or closes the list.
ContinueList(ls, k) ==
  LET parent == ParentItem(ls, k) IN
  IF ls[k].text THEN
    <<RenumberAfter(InsertAt(ls, k + 1, NextItem(ls[k])), k + 1), k + 1>>
  ELSE IF parent = 0 THEN <<[ls EXCEPT ![k] = LineOf(0, "text", 0, FALSE)], k>>
  ELSE <<RenumberAfter([ls EXCEPT ![k] = NextItem(ls[parent])], k), k>>

\* toggleLineFormat on the lines from i to j: the format goes if all that is written there
\* has it; numbers start again in every level a less indented line has closed.
Counts(ls, i, k) ==
  Cardinality({j \in i..k : ls[j].indent = ls[k].indent /\ ~BlankLine(ls[j])
                            /\ \A l \in j..k : BlankLine(ls[l]) \/ ls[l].indent >= ls[k].indent})
ToggleLineFormat(ls, i, j, format) ==
  LET written == {k \in i..j : ~BlankLine(ls[k])}
      remove == written # {} /\ \A k \in written : ls[k].kind = format
  IN [k \in DOMAIN ls |->
        IF k \notin i..j \/ (BlankLine(ls[k]) /\ i < j) THEN ls[k]
        ELSE IF remove THEN LineOf(ls[k].indent, "text", 0, ls[k].text)
        ELSE LineOf(ls[k].indent, format, IF format # "numbered" THEN 0 ELSE IF i = j THEN 1 ELSE Counts(ls, i, k), ls[k].text)]

-----------------------------------------------------------------------------
(* The colouring *)

Find(text, raw, cursor) == {p \in cursor..(Len(text) - Len(raw)) : SubSeq(text, p + 1, p + Len(raw)) = raw}

\* emitTokens: the tokens looked for one after the other from where the last one ended;
\* one that the lexer has changed is looked for by its parts.  The result is what is put
\* out, symbols with the class of their token, and where it ends.
RECURSIVE EmitTokens(_, _, _)
Emit(text, tokens) ==
  LET st == EmitTokens(text, tokens, [out |-> <<>>, cursor |-> 0])
  IN st.out \o SubSeq(text, st.cursor + 1, Len(text))
EmitTokens(text, tokens, st) ==
  IF tokens = <<>> THEN st
  ELSE LET token == Head(tokens)
           found == Find(text, token.raw, st.cursor)
           at == CHOOSE p \in found : \A q \in found : p <= q
           next == IF token.raw = <<>> THEN st
                   ELSE IF found = {} THEN EmitTokens(text, token.tokens, st)
                   ELSE [out |-> st.out \o SubSeq(text, st.cursor + 1, at) \o
                                 (IF token.tokens = <<>> THEN token.raw ELSE Emit(token.raw, token.tokens)),
                         cursor |-> at + Len(token.raw)]
       IN EmitTokens(text, Tail(tokens), next)

-----------------------------------------------------------------------------
\* One part of the module at a time.
NoDraft == [text |-> <<>>, start |-> 0, end |-> 0]
NoSource == [text |-> <<>>, tokens |-> <<>>]
TextInit ==
  \/ \E t \in Texts : \E i, j \in 0..Len(t) :
       /\ i <= j /\ doc = [text |-> t, start |-> i, end |-> j]
       /\ lines = <<>> /\ caret = 0 /\ source = NoSource
  \/ lines \in Drafts /\ caret \in DOMAIN lines /\ doc = NoDraft /\ source = NoSource
  \/ source \in Sources /\ doc = NoDraft /\ lines = <<>> /\ caret = 0

Format(format) ==
  /\ doc # NoDraft /\ Len(doc.text) <= MaxText
  /\ doc' = ToggleWrap(doc, format)
  /\ UNCHANGED <<lines, caret, source>>

Enter ==
  /\ caret # 0 /\ Len(lines) < MaxLines /\ Item(lines[caret])
  /\ lines' = ContinueList(lines, caret)[1] /\ caret' = ContinueList(lines, caret)[2]
  /\ UNCHANGED <<doc, source>>

WriteAtCaret ==
  /\ caret # 0 /\ ~lines[caret].text
  /\ lines' = [lines EXCEPT ![caret].text = TRUE]
  /\ UNCHANGED <<doc, caret, source>>

FormatLines(format) ==
  /\ caret # 0
  /\ \E j \in caret..Len(lines) : lines' = ToggleLineFormat(lines, caret, j, format)
  /\ UNCHANGED <<doc, caret, source>>

TextNext ==
  \/ \E format \in DOMAIN MarkerLen : Format(format)
  \/ Enter \/ WriteAtCaret
  \/ \E format \in {"bullet", "numbered", "heading"} : FormatLines(format)

TextSpec == TextInit /\ [][TextNext]_textVars

-----------------------------------------------------------------------------
(* Properties *)

\* "Avvolge la selezione in grassetto/corsivo, o lo toglie se c'è già": the command given
\* twice leaves the text as it was.
\* if the runs of stars at the two ends of what is selected are as long, up to the three
\* stars of both formats, with a letter inside them.
WrapToggles ==
  LET star == Run(doc, "*")
      first == Trimmed(doc)[1] + star.leftIn + 1
      last == Trimmed(doc)[2] - star.rightIn
      even == /\ first <= last /\ doc.text[first] = "a" /\ doc.text[last] = "a"
              /\ star.leftOut + star.leftIn = star.rightIn + star.rightOut /\ star.leftOut + star.leftIn <= 3
              /\ Run(doc, "_").leftOut = 0
  IN even => \A format \in DOMAIN MarkerLen : ToggleWrap(ToggleWrap(doc, format), format).text = doc.text

\* Before an item, the last line of its level that no line less indented parts from it.
Before(ls, k) ==
  LET same == {j \in 1..(k - 1) : ls[j].indent = ls[k].indent
                 /\ \A l \in j..k : ls[l].indent >= ls[k].indent /\ ~BlankLine(ls[l])}
  IN IF same = {} THEN 0 ELSE CHOOSE j \in same : \A i \in same : i <= j
InOrder(ls) ==
  \A k \in DOMAIN ls : LET j == Before(ls, k) IN
    j # 0 /\ Numbered(ls[k]) /\ Numbered(ls[j]) => ls[k].n = ls[j].n + 1

\* "le voci seguenti si rinumerano": Enter leaves a list in order that was in order.
EnterKeepsTheOrder == [][Enter => (InOrder(lines) => InOrder(lines'))]_textVars

\* "Riemette TUTTO `text` in ordine (la sovrapposizione con la textarea non si sfasa)",
\* whatever the lexer has made of it.
ColoursAllTheText == Emit(source.text, source.tokens) = source.text

\* What the commands and the colouring make of a text loses and disorders none of it
\* (markdown-editor-text.ts).
TextSafe == [](WrapToggles /\ ColoursAllTheText) /\ EnterKeepsTheOrder
=============================================================================
