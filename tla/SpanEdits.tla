------------------------------- MODULE SpanEdits -------------------------------
(***************************************************************************)
(* The edits of one proven block, written into its live paragraphs as      *)
(* tracked changes.  Replacements and deletions go through the editing     *)
(* library, from the end of each paragraph to its start; then insertions   *)
(* are placed in what that left; then the document as accepted is compared *)
(* with the block's text under the edits that were applied, and withheld   *)
(* if they differ.                                                         *)
(***************************************************************************)
EXTENDS BlockTranscript
LOCAL INSTANCE SequencesExt

VARIABLES
  stage,    \* "idle", "replacing", "inserting", "written", "delivered", "withheld"
  work,     \* replacements and deletions still to be written
  inserts,  \* insertions still to be written
  doc,      \* the paragraphs, character by character
  landed,   \* the replacements and deletions written
  inserted, \* the insertions written, in their order
  failed    \* the edits that were not written

spanVars == <<transcriptVars, stage, work, inserts, doc, landed, inserted, failed>>

Unwritable == "control"              \* a character XML cannot hold
Structural(c) == c \in {Tab, Break}  \* children of a run, no text of it

-----------------------------------------------------------------------------
\* The transcript's operations, as edits.

\* An insert gives up the spaces that its neighbour in the accepted text
\* already has, unless it is nothing but spaces.
Shown(list) == {i \in DOMAIN list : list[i].op # "delete"}

DropFirst(text) ==
  LET rest == {i \in DOMAIN text : text[i] # Space}
  IN SubSeq(text, Least(rest), Len(text))
DropLast(text) ==
  LET rest == {i \in DOMAIN text : text[i] # Space}
  IN SubSeq(text, 1, Greatest(rest))

TrimInsert(list, i) ==
  LET before == {j \in Shown(list) : j < i}
      after == {j \in Shown(list) : j > i}
      text == list[i].text
      left == IF before # {} /\ Last(list[Greatest(before)].text) = Space
              THEN DropFirst(text) ELSE text
      both == IF after # {} /\ Head(list[Least(after)].text) = Space
              THEN DropLast(left) ELSE left
  IN IF list[i].op # "insert" \/ \A c \in ToSet(text) : c = Space THEN list
     ELSE [list EXCEPT ![i].text = both]

CollapseBoundarySpaces(list) == FoldLeft(TrimInsert, list, Positions(list))

\* A delete is paired with the insert of its issue beside it, the one after
\* it first.
Partner(list, taken, i) ==
  LET fits == {j \in ({i - 1, i + 1} \cap DOMAIN list) \ taken :
                 list[j].op = "insert" /\ list[j].issue = list[i].issue}
  IN IF fits = {} THEN 0 ELSE Greatest(fits)

Edit(list, i, text) ==
  [issue |-> list[i].issue, from |-> list[i].from, to |-> list[i].to,
   old |-> IF list[i].op = "delete" THEN list[i].text ELSE <<>>, new |-> text]

PairDelete(list, acc, i) ==
  LET p == Partner(list, acc.taken, i)
  IN IF list[i].op # "delete" THEN acc
     ELSE [taken |-> acc.taken \cup {i} \cup ({p} \ {0}),
           edits |-> Append(acc.edits, Edit(list, i, IF p = 0 THEN <<>> ELSE list[p].text))]

PairOpsIntoEdits(list) ==
  LET paired == FoldLeft(LAMBDA acc, i : PairDelete(list, acc, i),
                         [taken |-> {}, edits |-> <<>>], Positions(list))
      alone == SelectSeq(Positions(list),
                         LAMBDA i : list[i].op = "insert" /\ i \notin paired.taken)
  IN paired.edits \o [k \in DOMAIN alone |-> Edit(list, alone[k], list[alone[k]].text)]

Edits == PairOpsIntoEdits(CollapseBoundarySpaces(ops))

IsInsertion(e) == e.from = e.to

-----------------------------------------------------------------------------
\* Where an edit is in the live document.

SpanStart(k) == Len(Joined(SubSeq(CleanTexts, 1, k))) - Len(CleanTexts[k])
SpanEnd(k) == Len(Joined(SubSeq(CleanTexts, 1, k)))

\* The first paragraph the edit lies within, or 0.
ParagraphOf(e) ==
  LET within == {k \in DOMAIN block : SpanStart(k) <= e.from /\ e.to <= SpanEnd(k)}
  IN IF within = {} THEN 0 ELSE Least(within)

Writable(e) ==
  /\ Unwritable \notin ToSet(e.new)
  /\ ParagraphOf(e) # 0 /\ block[ParagraphOf(e)].readable

\* Mutant: the live text is taken to begin where the clean text does.
PlannedInCleanText(e) ==
  LET k == ParagraphOf(e)
  IN [edit |-> e, paragraph |-> k, at |-> e.from - SpanStart(k), old |-> e.old,
      new |-> e.new, from |-> e.from, to |-> e.to]

\* A paragraph's live text may begin with blanks that its clean text has not.
Planned(e) ==
  LET k == ParagraphOf(e)
      local == e.from - SpanStart(k) + Lead(block[k])
  IN [edit |-> e, paragraph |-> k, at |-> local, old |-> e.old, new |-> e.new,
      from |-> e.from, to |-> e.to]

\* The editing library has no position for a tab or a break.
EditorOffset(text, n) == Cardinality({i \in 1..n : ~Structural(text[i])})
EditorText(text) == SelectSeq(text, LAMBDA c : ~Structural(c))

\* Matches of a text that begin before a place; they may overlap.
OccurrenceBefore(text, part, at) ==
  Cardinality({i \in 0..at - 1 : StartsWith(text, part, i)})

-----------------------------------------------------------------------------
\* An edit across tabs or breaks is cut at them.

\* First and last positions of the runs of structural characters.
SeparatorEnds(text) ==
  LET first == SelectSeq(Positions(text), LAMBDA i :
                 Structural(text[i]) /\ (i = 1 \/ ~Structural(text[i - 1])))
      last == SelectSeq(Positions(text), LAMBDA i :
                 Structural(text[i]) /\ (i = Len(text) \/ ~Structural(text[i + 1])))
  IN [k \in DOMAIN first |-> [first |-> first[k], last |-> last[k]]]

\* The text before, between and after given places, as pieces.
PiecesAround(text, cuts) ==
  [k \in 1..Len(cuts) + 1 |->
     [from |-> IF k = 1 THEN 0 ELSE cuts[k - 1].last,
      text |-> SubSeq(text, IF k = 1 THEN 1 ELSE cuts[k - 1].last + 1,
                            IF k > Len(cuts) THEN Len(text) ELSE cuts[k].first - 1)]]

\* Every way to find the separators in the replacement, in order.
Alignments(text, separators) ==
  {cuts \in [DOMAIN separators -> [first : DOMAIN text, last : DOMAIN text]] :
     \A k \in DOMAIN separators :
       /\ SubSeq(text, cuts[k].first, cuts[k].last) = separators[k]
       /\ k > 1 => cuts[k - 1].last < cuts[k].first}

\* What is written of a planned edit, or nothing if it is refused: a
\* replacement must have each separator where only one reading puts it, and
\* text only where the span has some.
Units(e) ==
  LET ends == SeparatorEnds(e.old)
      separators == [k \in DOMAIN ends |-> SubSeq(e.old, ends[k].first, ends[k].last)]
      old == PiecesAround(e.old, ends)
      ways == Alignments(e.new, separators)
      new == IF e.new = <<>> THEN [k \in DOMAIN old |-> [text |-> <<>>]]
             ELSE PiecesAround(e.new, CHOOSE cuts \in ways : TRUE)
      changed == SelectSeq(Positions(old), LAMBDA k : old[k].text # new[k].text)
  IN IF ends = <<>> THEN <<e>>
     ELSE IF \/ \A k \in DOMAIN old : old[k].text = <<>>
             \/ e.new # <<>> /\ Cardinality(ways) # 1
             \/ \E k \in ToSet(changed) : old[k].text = <<>>
     THEN <<>>
     ELSE [j \in DOMAIN changed |->
             LET k == changed[j]
             IN [e EXCEPT !.at = @ + old[k].from, !.from = @ + old[k].from,
                          !.to = e.from + old[k].from + Len(old[k].text),
                          !.old = old[k].text, !.new = new[k].text]]

-----------------------------------------------------------------------------
\* The live paragraphs.

\* A character of the document: the run it is in, whether the run is the
\* paragraph's own (and not in someone's tracked change or a link), and
\* whether it is struck by this redline.
SourceAtoms(p) ==
  FlattenSeq([r \in DOMAIN p.runs |->
    [i \in DOMAIN p.runs[r].text |->
       [ch |-> p.runs[r].text[i], run |-> r, own |-> p.runs[r].own, cut |-> FALSE]]])

Written(text) ==
  [i \in DOMAIN text |-> [ch |-> text[i], run |-> 0, own |-> FALSE, cut |-> FALSE]]

Visible(atoms) == SelectSeq(Positions(atoms), LAMBDA i : ~atoms[i].cut)
AcceptedChars(atoms) == LET seen == Visible(atoms) IN [k \in DOMAIN seen |-> atoms[seen[k]].ch]

Put(atoms, i, text) == SubSeq(atoms, 1, i) \o Written(text) \o SubSeq(atoms, i + 1, Len(atoms))

\* The editing library strikes a match and puts the new text after it.
Strike(atoms, hit, text) ==
  LET struck == [i \in DOMAIN atoms |-> IF i \in hit THEN [atoms[i] EXCEPT !.cut = TRUE] ELSE atoms[i]]
  IN Put(struck, Greatest(hit), text)

\* The match of a text with so many matches before it, in the library's text.
Match(atoms, part, n) ==
  LET seen == SelectSeq(Visible(atoms), LAMBDA i : ~Structural(atoms[i].ch))
      text == [k \in DOMAIN seen |-> atoms[seen[k]].ch]
      starts == {i \in 0..Len(text) - 1 :
                   StartsWith(text, part, i) /\ OccurrenceBefore(text, part, i) = n}
  IN IF starts = {} THEN {} ELSE {seen[Least(starts) + j] : j \in DOMAIN part}

-----------------------------------------------------------------------------

SpanInit ==
  /\ TranscriptInit
  /\ stage = "idle"
  /\ work = {} /\ inserts = <<>> /\ doc = <<>>
  /\ landed = {} /\ inserted = <<>> /\ failed = {}

\* Every edit is planned against the document before it is touched.
Plan ==
  /\ verdict = "proven" /\ stage = "idle"
  /\ LET edits == Edits
         writable == SelectSeq(edits, Writable)
         planned == [i \in DOMAIN writable |-> Planned(writable[i])]
         spans == {e \in ToSet(planned) : ~IsInsertion(e)}
     IN /\ work' = UNION {ToSet(Units(e)) : e \in spans}
        /\ inserts' = SelectSeq(planned, IsInsertion)
        /\ failed' = {e \in ToSet(edits) : ~Writable(e)}
                       \cup {e.edit : e \in {s \in spans : Units(s) = <<>>}}
  /\ doc' = [k \in DOMAIN block |-> SourceAtoms(block[k])]
  /\ stage' = "replacing"
  /\ UNCHANGED <<transcriptVars, landed, inserted>>

\* The paragraphs in order, each from its end.
NextUnit ==
  CHOOSE u \in work : \A v \in work \ {u} :
    \/ u.paragraph < v.paragraph
    \/ u.paragraph = v.paragraph /\ u.at > v.at

\* The library is told which match is meant, counted in the source.
Hit(u) ==
  LET text == LiveText(block[u.paragraph])
      n == OccurrenceBefore(EditorText(text), u.old, EditorOffset(text, u.at))
  IN Match(doc[u.paragraph], u.old, n)

ReplaceUnit ==
  /\ stage = "replacing" /\ work # {}
  /\ LET u == NextUnit
     IN /\ Hit(u) # {}
        /\ doc' = [doc EXCEPT ![u.paragraph] = Strike(@, Hit(u), u.new)]
        /\ landed' = landed \cup {u}
        /\ work' = work \ {u}
  /\ UNCHANGED <<transcriptVars, stage, inserts, inserted, failed>>

\* The library refuses; what is left of a cut edit is not written.
RefuseUnit ==
  /\ stage = "replacing" /\ work # {}
  /\ failed' = failed \cup {NextUnit.edit}
  /\ work' = {u \in work : u.edit # NextUnit.edit}
  /\ UNCHANGED <<transcriptVars, stage, inserts, doc, landed, inserted>>

ReplacingDone ==
  /\ stage = "replacing" /\ work = {}
  /\ stage' = "inserting"
  /\ UNCHANGED <<transcriptVars, work, inserts, doc, landed, inserted, failed>>

-----------------------------------------------------------------------------
\* Insertions: each paragraph from its end, those at one place in their order.

NextInsert ==
  CHOOSE i \in DOMAIN inserts : \A j \in DOMAIN inserts \ {i} :
    LET e == inserts[i]  f == inserts[j]
    IN \/ e.paragraph < f.paragraph
       \/ e.paragraph = f.paragraph /\ e.at > f.at
       \/ e.paragraph = f.paragraph /\ e.at = f.at /\ i < j

\* What the replacements written before a place have moved it by.
Shift(e) ==
  LET moved == SetToSeq({u \in landed :
                 u.paragraph = e.paragraph /\ u.at + Len(u.old) <= e.at})
  IN FoldLeft(LAMBDA n, u : n + Len(u.new) - Len(u.old), 0, moved)

\* The piece of a run that character i is in.
Fragment(atoms, i) ==
  {j \in DOMAIN atoms :
     \A k \in Least({i, j})..Greatest({i, j}) :
       atoms[k].run = atoms[i].run /\ atoms[k].cut = atoms[i].cut}
SimpleRun(atoms, i) == \A j \in Fragment(atoms, i) : ~Structural(atoms[j].ch)

\* A place in the middle of a run's text, as against one between its children.
Inside(atoms, left, right) ==
  /\ right = left + 1 /\ atoms[left].run = atoms[right].run
  /\ ~Structural(atoms[left].ch) /\ ~Structural(atoms[right].ch)

\* The character that an insertion at an offset of the accepted text follows,
\* 0 for the first place of all; none if it would have to be written into
\* another's change or into a run that cannot be split.
InsertionPoint(atoms, offset) ==
  LET seen == Visible(atoms)
      left == IF offset = 0 THEN {} ELSE {seen[offset]}
      right == IF offset = Len(seen) THEN {} ELSE {seen[offset + 1]}
      inside == {l \in left : \E r \in right : Inside(atoms, l, r)}
  IN IF seen = <<>> THEN {Len(atoms)}
     ELSE IF inside # {} THEN {l \in inside : atoms[l].own /\ SimpleRun(atoms, l)}
     ELSE IF \E l \in left : atoms[l].own THEN left
     ELSE {r - 1 : r \in {r \in right : atoms[r].own}}

InsertOne ==
  /\ stage = "inserting" /\ inserts # <<>>
  /\ LET e == inserts[NextInsert]
         points == InsertionPoint(doc[e.paragraph], e.at + Shift(e))
     IN /\ inserts' = RemoveAt(inserts, NextInsert)
        /\ \/ /\ points = {} /\ failed' = failed \cup {e.edit}
              /\ UNCHANGED <<doc, inserted>>
           \/ \E i \in points :
                /\ doc' = [doc EXCEPT ![e.paragraph] = Put(@, i, e.new)]
                /\ inserted' = Append(inserted, e)
                /\ UNCHANGED failed
  /\ UNCHANGED <<transcriptVars, stage, work, landed>>

-----------------------------------------------------------------------------
\* The projection gate.

\* A replacement cut at separators and written whole counts as the edit it
\* was cut from; a deletion, or one of which only pieces were written, as
\* its pieces.
LandedSpecs ==
  LET whole == {u.edit : u \in {u \in landed : u.edit.new # <<>> /\ u.edit \notin failed}}
  IN {[from |-> e.from, to |-> e.to, new |-> e.new] : e \in whole}
       \cup {[from |-> u.from, to |-> u.to, new |-> u.new] :
               u \in {u \in landed : u.edit \notin whole}}

NewTextAt(p) ==
  FlattenSeq([i \in DOMAIN inserted |-> IF inserted[i].from = p THEN inserted[i].new ELSE <<>>])
    \o FlattenSeq(SetToSeq({s.new : s \in {s \in LandedSpecs : s.from = p}}))

\* The block's text with what was written, insertions before a replacement
\* at their place.
ExpectedText ==
  LET text == BlockText
      kept(p) == p < Len(text) /\ ~\E s \in LandedSpecs : s.from <= p /\ p < s.to
  IN FlattenSeq([i \in 1..Len(text) + 1 |->
       NewTextAt(i - 1) \o (IF kept(i - 1) THEN <<text[i]>> ELSE <<>>)])

AcceptedText == Joined([k \in DOMAIN doc |-> AcceptedChars(doc[k])])

\* The lines of a text without the blanks around them and the empty ones.
TextStream(text) ==
  LET split(acc, c) == IF c = Break THEN Append(acc, <<>>)
                       ELSE [acc EXCEPT ![Len(acc)] = Append(@, c)]
      lines == FoldLeft(split, <<<<>>>>, text)
  IN SelectSeq([i \in DOMAIN lines |-> Strip(lines[i])], LAMBDA l : l # <<>>)

AcceptProved == TextStream(AcceptedText) = TextStream(ExpectedText)

\* A document that nothing was written into is none.
Deliver ==
  /\ stage = "inserting" /\ inserts = <<>>
  /\ stage' = IF landed = {} /\ inserted = <<>> THEN "nothing written"
              ELSE IF AcceptProved THEN "delivered" ELSE "withheld"
  /\ UNCHANGED <<transcriptVars, work, inserts, doc, landed, inserted, failed>>

SpanNext ==
  \/ ReadTranscript /\ UNCHANGED <<stage, work, inserts, doc, landed, inserted, failed>>
  \/ Plan \/ ReplaceUnit \/ RefuseUnit \/ ReplacingDone \/ InsertOne \/ Deliver

SpanSpec == SpanInit /\ [][SpanNext]_spanVars

-----------------------------------------------------------------------------

\* Two issues insert at one place.
SharedPlace ==
  \E i, j \in DOMAIN ops :
    /\ i # j /\ ops[i].op = "insert" /\ ops[j].op = "insert"
    /\ ops[i].from = ops[j].from

\* The transcript stops at an insert, short of the block's end: the text it
\* left out is added to the keep before the insert.
InsertBeforeTail == TailOmitted /\ Last(segments).op = "insert"

\* What the model wrote, kept or inserted, and the tail it left out.
Authored ==
  FlattenSeq([i \in DOMAIN segments |->
    IF segments[i].op = "delete" THEN <<>> ELSE Fold(segments[i].text)])
  \o Trailing

Letters(text) == SelectSeq(Fold(text), LAMBDA c : c # Space)

ReadsAsAuthored == Letters(AcceptedText) = Letters(Authored)

\* Whatever combination of edits was written, and whatever the library
\* refused, the accepted document is the one the written edits promise, so
\* that the gate withholds none, except where two issues insert at one place.
\* With every edit written it reads what the model wrote, letter for letter,
\* except where a transcript stops at an insert.
AuthoredDelivered ==
  /\ stage = "withheld" => SharedPlace
  /\ stage = "delivered" /\ failed = {} => ReadsAsAuthored \/ InsertBeforeTail

\* What the module promises: no transcript is repaired.
NeverRepaired == stage = "delivered" /\ failed = {} => ReadsAsAuthored

=============================================================================
