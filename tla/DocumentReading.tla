---------------------------- MODULE DocumentReading ----------------------------
(***************************************************************************)
(* A contract as the review reads it.  Stage 1 reads the uploaded file and *)
(* gives the model blocks with ids; every tracked change is then accepted  *)
(* in the bytes, and stage 5 reads those bytes again: the edits the model  *)
(* wrote for a block of the first reading are written into the block with  *)
(* the same id in the second.  What either step resolved, or did not read, *)
(* is told in the normalization notes.                                     *)
(***************************************************************************)
EXTENDS Integers, SequencesExt, Selection

CONSTANTS
  Paragraphs,    \* what a paragraph of an upload may be
  MaxParagraphs  \* the longest document

VARIABLES
  upload,     \* the document, a sequence of paragraphs
  step,       \* "writing", "read", "accepted", "done" or "refused"
  read,       \* the first reading: its blocks and its notes
  operative,  \* the document with every change accepted
  report,     \* what accepting did, by kind
  reread      \* the second reading

readingVars == <<upload, step, read, operative, report, reread>>

\* A paragraph has a style, an outline level or none, what its style says of
\* hiding text, a revised paragraph mark, other revision markup (none of it in
\* what a deletion takes away), a bookmark or none, and the container it stands
\* in.  A run has the wrappers around it, outermost first; its text is a
\* sequence of tokens.
Containers == {"body", "control", "placeholder", "unknown", "textbox"}
Blanks == {" ", "tab", "break"}
Leads == {"1.", "7"}
Lettered == "(a)"
Capitals == "TITLE"
Sentence == "sentence"  \* more than a heading can be long
ControlCharacter == "zero width"

RunShape == [path : Seq(STRING), kind : STRING, text : Seq(STRING), bold : BOOLEAN, vanish : STRING]
ParagraphShape ==
  [style : STRING, outline : BOOLEAN, hides : BOOLEAN,
   mark : {"none", "ins", "del", "moveFrom", "moveTo"}, markup : SUBSET STRING,
   bookmark : BOOLEAN, place : Containers, runs : Seq(RunShape)]
ASSUME ParagraphsAssumption == Paragraphs \subseteq ParagraphShape /\ MaxParagraphs \in Nat

-----------------------------------------------------------------------------
\* The walk over a paragraph.

Stops == {"moveFrom", "placeholder", "unknown", "textbox"}
Around(r, wrappers) == \E k \in DOMAIN r.path : r.path[k] \in wrappers
Walked(r) == ~Around(r, Stops)

\* A field starts a reading of its own, which has no mode.
Innermost(m) == IF m = <<>> \/ Last(m) = "field" THEN "plain" ELSE Last(m)
Mode(r) == Innermost(Kept(r.path, {"ins", "del", "field"}))

\* Struck text has a tag of its own, which only the mode of struck text reads.
Legible(r) == r.text # <<>> /\ (Mode(r) = "del" <=> Around(r, {"del"}))

\* The most specific setting stated: the run's, its style's, its paragraph's.
Hidden(p, r) ==
  \/ r.vanish = "on"
  \/ r.vanish = "unsaid" /\ p.hides

Runs(p) == Kept(p.runs, {r \in ToSet(p.runs) : Walked(r) /\ Legible(r) /\ ~Hidden(p, r)})

Strip(text) ==
  LET inked == {i \in DOMAIN text : text[i] \notin Blanks}
      Least(S) == CHOOSE x \in S : \A y \in S : x <= y
      Greatest(S) == CHOOSE x \in S : \A y \in S : x >= y
  IN IF inked = {} THEN <<>> ELSE SubSeq(text, Least(inked), Greatest(inked))

TextOf(p, modes) ==
  LET runs == Kept(Runs(p), {r \in ToSet(p.runs) : Mode(r) \in modes})
  IN Strip(FlattenSeq([k \in DOMAIN runs |-> runs[k].text]))

Original(p) == TextOf(p, {"plain", "del"})
Resulting(p) == TextOf(p, {"plain", "ins"})

Revised(p) == \E k \in DOMAIN Runs(p) : Mode(Runs(p)[k]) # "plain"

WholeField(r) == Around(r, {"field"}) /\ Mode(r) = "plain"

\* The results of the fields in which nothing is revised.
FieldResults(p) ==
  LET fields == Kept(Runs(p), {r \in ToSet(p.runs) : WholeField(r)})
  IN [k \in DOMAIN fields |-> fields[k].text]

\* Containers and wrappers that carry text and that the walk does not know.
FirstStop(r) == Kept(r.path, Stops)[1]

\* Mutant: only inside a paragraph.
UnknownInParagraph(p) ==
  p.place \in {"body", "control"} /\ \E k \in DOMAIN p.runs :
    p.runs[k].text # <<>> /\ ~Walked(p.runs[k]) /\ FirstStop(p.runs[k]) = "unknown"

Unknown(p) ==
  \/ p.place = "unknown"
  \/ /\ p.place \in {"body", "control"}
     /\ \E k \in DOMAIN p.runs :
          LET r == p.runs[k]
          IN r.text # <<>> /\ ~Walked(r) /\ FirstStop(r) = "unknown"

-----------------------------------------------------------------------------
\* Whether a paragraph begins a clause.

\* A lettered marker before a tab belongs to a sub-clause, not to a heading.
WithoutTab(text) ==
  IF Len(text) > 1 /\ text[1] = Lettered /\ text[2] = "tab"
  THEN <<Lettered>> \o SubSeq(text, 3, Len(text)) ELSE text
WithoutBreaks(text) == Kept(text, ToSet(text) \ {"break"})
DecisionText(p) == WithoutTab(WithoutBreaks(Resulting(p)))

\* Every run with text is bold: of the runs that have no wrapper.
AllBold(p) ==
  LET direct == Kept(p.runs, {r \in ToSet(p.runs) : r.path = <<>> /\ r.text # <<>>})
  IN direct # <<>> /\ \A k \in DOMAIN direct : direct[k].bold

Has(text, token) == \E k \in DOMAIN text : text[k] = token

ShortHeading(p, text) ==
  /\ ~Has(text, Sentence)
  /\ \/ Len(text) > 1 /\ text[1] \in Leads \cup {Lettered} /\ text[2] \in Blanks
     \/ AllBold(p)
     \/ Has(text, Capitals) /\ ~Has(text, "word") /\ ~Has(text, Lettered)

IsBoundary(p) ==
  LET text == DecisionText(p)
  IN Resulting(p) # <<>> /\ (p.style = "heading" \/ p.outline \/ ShortHeading(p, text))

Unnumbered(text) ==
  IF Len(text) > 1 /\ text[1] \in Leads \cup {Lettered} /\ text[2] \in Blanks
  THEN SubSeq(text, 3, Len(text)) ELSE text
HeadingLabel(p) == Unnumbered(Resulting(p))

-----------------------------------------------------------------------------
\* Tables of contents.  A field that spans paragraphs is flat runs: its code,
\* a separator, its cached result, its end.  They are followed in the
\* document with every change accepted.

Accepted(r) == ~Around(r, {"del", "moveFrom"})

FieldRuns(p) ==
  Kept(p.runs, {r \in ToSet(p.runs) :
    Walked(r) /\ Accepted(r) /\ ~Hidden(p, r) /\ (r.kind # "text" \/ r.text # <<>>)})

\* Places of a document, in its order.
InOrder(d, places) == Kept([i \in DOMAIN d |-> i], places)

Readable(d) == {i \in DOMAIN d : d[i].place \in {"body", "control"}}

FieldEvents(d) ==
  LET readable == InOrder(d, Readable(d))
  IN FlattenSeq([k \in DOMAIN readable |->
       LET runs == FieldRuns(d[readable[k]])
       IN [j \in DOMAIN runs |-> [at |-> readable[k], key |-> <<readable[k], j>>,
                                   kind |-> runs[j].kind]]])

\* An end closes the innermost open field; one with none open is ignored.
FollowField(s, e) ==
  LET top == Len(s.open)
      listings == Kept(s.open, {f \in ToSet(s.open) : f.kind = "toc" /\ f.result})
  IN CASE e.kind \in {"toc", "pageref", "field"} ->
            [s EXCEPT !.open = Append(@, [kind |-> e.kind, key |-> e.key, result |-> FALSE])]
       [] e.kind = "separate" /\ top > 0 -> [s EXCEPT !.open[top].result = TRUE]
       [] e.kind = "end" /\ top > 0 ->
            [s EXCEPT !.closed = @ \cup {s.open[top].key}, !.open = SubSeq(@, 1, top - 1)]
       [] e.kind = "text" /\ listings = <<>> -> [s EXCEPT !.outside = @ \cup {e.at}]
       [] e.kind = "text" /\ listings # <<>> /\ (\A x \in s.inside : x.at # e.at) ->
            [s EXCEPT !.inside = @ \cup {[at |-> e.at, key |-> Last(listings).key]}]
       [] OTHER -> s

Followed(events) ==
  LET after[n \in 0..Len(events)] ==
        IF n = 0 THEN [open |-> <<>>, closed |-> {}, inside |-> {}, outside |-> {}]
        ELSE FollowField(after[n - 1], events[n])
  IN after[Len(events)]

\* It links to the bookmark of a heading, or has the number of its page.
LinksToHeading(p) ==
  \E k \in DOMAIN p.runs :
    LET r == p.runs[k]
    IN Walked(r) /\ Accepted(r) /\ (Around(r, {"anchor"}) \/ (r.kind = "pageref" /\ ~Hidden(p, r)))

EndsInNumber(text) == Len(text) > 1 /\ Last(text) = "7" /\ text[Len(text) - 1] = "tab"
EntryShaped(p) == p.style = "toc" \/ LinksToHeading(p) \/ EndsInNumber(Resulting(p))

\* A closed region is left out only if all of it looks generated and it has
\* not run on into the headings it lists.
LeftOut(d, s) ==  \* s is what following the fields to the end gives
  LET listed == {x \in s.inside : x.at \notin s.outside}
      Region(key) == {d[x.at] : x \in {y \in listed : y.key = key}}
  IN {x.at : x \in {y \in listed :
        LET region == Region(y.key)
        IN /\ y.key \in s.closed
           /\ \A p \in region : EntryShaped(p) /\ p.style # "heading" /\ ~p.outline
           /\ ~(\E p, q \in region : LinksToHeading(p) /\ q.bookmark)}}
Omitted(d) == LeftOut(d, Followed(FieldEvents(d)))

-----------------------------------------------------------------------------
\* A reading of a document: its blocks, and what is told of it.

Occurs(part, text) ==
  \E at \in 0..(Len(text) - Len(part)) : SubSeq(text, at + 1, at + Len(part)) = part

\* A field's result is appended to a paragraph's text that does not have it.
FoldField(text, result) ==
  IF Occurs(result, text) THEN text ELSE Strip(text \o <<" ">> \o result)

FoldFields(text, results) ==
  LET with[n \in 0..Len(results)] ==
        IF n = 0 THEN text ELSE FoldField(with[n - 1], results[n])
  IN with[Len(results)]

CleanText(p) ==
  IF Revised(p) THEN Resulting(p) ELSE FoldFields(Original(p), FieldResults(p))

Bare(p) ==  \* nothing to read, and no revision, comment, field or hidden text
  /\ Resulting(p) = <<>> /\ ~Revised(p) /\ p.mark \notin {"ins", "del"} /\ FieldResults(p) = <<>>
  /\ \A k \in DOMAIN p.runs : Walked(p.runs[k]) => ~Hidden(p, p.runs[k])

Content(d) == LET omitted == Omitted(d) IN {i \in Readable(d) \ omitted : ~Bare(d[i])}

\* The clause a paragraph belongs to: the last heading before it, or the
\* preamble, 0.
HeadOf(heads, i) ==
  LET before == {h \in heads : h <= i}
  IN IF before = {} THEN 0 ELSE CHOOSE h \in before : \A g \in before : g <= h

\* Mutant: any paragraph before the first heading opens one.
OpensAny(p) == TRUE

\* A struck paragraph before the first heading opens no preamble.
Opens(p) == Resulting(p) # <<>>

ClauseBlock(d, h, spans) ==
  [head |-> h, heading |-> IF h = 0 THEN <<>> ELSE HeadingLabel(d[h]),
   text |-> [j \in DOMAIN spans |-> CleanText(d[spans[j]])],
   spans |-> spans]

\* Block ids are positions: a clause's id is its place in this sequence.
BlocksOf(d, content, heads) ==
  LET preamble == {i \in content : HeadOf(heads, i) = 0}
      clauses == (IF \E i \in preamble : Opens(d[i]) THEN <<0>> ELSE <<>>) \o InOrder(d, heads)
      Members(h) == InOrder(d, {i \in content \ heads : HeadOf(heads, i) = h /\ CleanText(d[i]) # <<>>})
  IN [k \in DOMAIN clauses |-> ClauseBlock(d, clauses[k], Members(clauses[k]))]
Blocks(d) == LET content == Content(d) IN BlocksOf(d, content, {i \in content : IsBoundary(d[i])})

\* One paragraph that cannot be read safely refuses the document.
Unreadable(d) == \E i \in Content(d) : Has(CleanText(d[i]), ControlCharacter)

Note(i, what) == [at |-> i, what |-> what]
Notes(d) ==
  LET omitted == Omitted(d)
  IN (UNION {(IF Revised(d[i]) THEN {Note(i, "accepted")} ELSE {})
               \cup (IF Revised(d[i]) /\ Resulting(d[i]) = <<>> THEN {Note(i, "struck")} ELSE {})
               \cup (IF d[i].mark \in {"ins", "del"} THEN {Note(i, "mark")} ELSE {}) : i \in Content(d)})
       \cup {Note(0, "listing") : i \in omitted}
       \cup {Note(0, "unread") : i \in {j \in DOMAIN d \ omitted : Unknown(d[j])}}

Reading(d) == [blocks |-> Blocks(d), notes |-> Notes(d)]
NoReading == [blocks |-> <<>>, notes |-> {}]

-----------------------------------------------------------------------------
\* Accepting, everywhere in the file, also where no reading goes.

AcceptRun(r) == [r EXCEPT !.path = Kept(@, ToSet(@) \ {"ins", "moveTo"})]
AcceptParagraph(p) ==
  LET kept == Kept(p.runs, {r \in ToSet(p.runs) : Accepted(r)})
  IN [p EXCEPT !.runs = [k \in DOMAIN kept |-> AcceptRun(kept[k])],
               !.mark = "none", !.markup = @ \cap {"cell"}]
AcceptAll(d) == [i \in DOMAIN d |-> AcceptParagraph(d[i])]

\* A deletion and an old place are taken away whole: what is inside is not counted.
CountedMove(r) ==
  \E k \in DOMAIN r.path :
    r.path[k] \in {"moveFrom", "moveTo"} /\ \A j \in 1..(k - 1) : r.path[j] \notin {"del", "moveFrom"}

\* Insertions and deletions are counted and not told: the notes have them.  A
\* moved paragraph mark, and the markers around a move, are told as moves.
Report(d) ==
  LET marks(kinds) == \E i \in DOMAIN d : d[i].mark \in kinds
      marked(what) == \E i \in DOMAIN d : what \in d[i].markup
      moved == \E i \in DOMAIN d : \E k \in DOMAIN d[i].runs : CountedMove(d[i].runs[k])
  IN {what \in {"moves", "formatting", "marks", "left"} :
        CASE what = "moves" -> moved \/ marked("range") \/ marks({"moveFrom", "moveTo"})
          [] what = "formatting" -> marked("format")
          [] what = "marks" -> marks({"ins", "del"})
          [] what = "left" -> marked("cell")}

-----------------------------------------------------------------------------
ReadingInit ==
  /\ upload = <<>> /\ step = "writing"
  /\ read = NoReading /\ operative = <<>> /\ report = {} /\ reread = NoReading

\* The counterparty's document.
Write(p) ==
  /\ step = "writing" /\ Len(upload) < MaxParagraphs
  /\ upload' = Append(upload, p)
  /\ UNCHANGED <<step, read, operative, report, reread>>

Extract ==
  /\ step = "writing" /\ upload # <<>>
  /\ IF Unreadable(upload) THEN step' = "refused" /\ UNCHANGED read
     ELSE step' = "read" /\ read' = Reading(upload)
  /\ UNCHANGED <<upload, operative, report, reread>>

Accept ==
  /\ step = "read"
  /\ operative' = AcceptAll(upload) /\ report' = Report(upload)
  /\ step' = "accepted"
  /\ UNCHANGED <<upload, read, reread>>

Reread ==
  /\ step = "accepted"
  /\ IF Unreadable(operative) THEN step' = "refused" /\ UNCHANGED reread
     ELSE step' = "done" /\ reread' = Reading(operative)
  /\ UNCHANGED <<upload, read, operative, report>>

ReadingNext == (\E p \in Paragraphs : Write(p)) \/ Extract \/ Accept \/ Reread

ReadingSpec == ReadingInit /\ [][ReadingNext]_readingVars

-----------------------------------------------------------------------------
ReadingTypeOK ==
  /\ upload \in Seq(Paragraphs) /\ Len(upload) <= MaxParagraphs
  /\ \A i \in DOMAIN upload : upload[i].place \in Containers
  /\ step \in {"writing", "read", "accepted", "done", "refused"}
  /\ report \subseteq {"moves", "formatting", "marks", "left"}

\* Stage 1 and stage 5 read the same blocks, under the same ids.  It is what
\* _partition_field_result_paragraphs' docstring says of the two readings.
SameBlockMap == step = "done" => reread.blocks = read.blocks

\* Shapes in which the two readings part.  Accepting an insertion or a move
\* gives its runs to the paragraph, and they may make or break a bold line;
\* and it ends the revision of a paragraph, which then takes on the result of
\* a field, once more if that has blanks at its ends.
BoldShifts(p) == AllBold(AcceptParagraph(p)) # AllBold(p)
FieldRepeats(p) == Revised(p) /\ CleanText(AcceptParagraph(p)) # CleanText(p)

\* But for those shapes the two readings agree on the clauses, their ids, the
\* paragraphs of each and their texts, whatever was struck, moved or inserted,
\* also around a table of contents.
ReadingsAgree ==
  (\A i \in DOMAIN upload : ~BoldShifts(upload[i]) /\ ~FieldRepeats(upload[i])) => SameBlockMap

\* Nobody reads it: it is blank or hidden, or in a text box or an unfilled control.
Aside(p, r) ==
  \/ p.place \in {"placeholder", "textbox"} \/ Around(r, {"placeholder", "textbox"})
  \/ Hidden(p, r) \/ Strip(r.text) = <<>>

Told(i) == Note(i, "accepted") \in read.notes \/ i \in Omitted(upload) \/ Unknown(upload[i])

\* The block that has a paragraph has its accepted text.
InBlock(i) ==
  \E k \in DOMAIN read.blocks :
    LET b == read.blocks[k]
    IN \/ b.head = i
       \/ \E j \in DOMAIN b.spans : b.spans[j] = i /\ Occurs(Resulting(operative[i]), b.text[j])

\* Every move around it is within a deletion, which is all that is counted.
MovesDeleted(r) ==
  \E j \in DOMAIN r.path : r.path[j] = "del" /\ \A k \in DOMAIN r.path :
    r.path[k] \in {"moveFrom", "moveTo"} => j < k

\* Struck text that no mode reads and no stop tells of: the innermost change
\* around it is an insertion, or it is the old place of a move in a deletion.
Overlooked(r) ==
  \/ Around(r, {"del"}) /\ Mode(r) = "ins"
  \/ Around(r, {"moveFrom"}) /\ MovesDeleted(r)

\* Whatever a reader of the contract sees, the model read, or a note tells
\* that it was left out; and of each insertion and deletion in what the model
\* read, and of each move, a note tells that it was accepted.  Only of a field
\* inserted or deleted as a whole there is no note, of an insertion within a
\* deletion and of a move within a deletion.
NothingUnsaid ==
  step = "done" =>
    /\ \A i \in DOMAIN upload : \A k \in DOMAIN upload[i].runs :
         LET r == upload[i].runs[k]
         IN /\ Around(r, {"ins", "del"}) /\ ~Aside(upload[i], r) /\ ~WholeField(r) /\ ~Overlooked(r) =>
                 Told(i) \/ Around(r, {"moveFrom"})
            /\ Around(r, {"moveFrom", "moveTo"}) /\ ~MovesDeleted(r) => "moves" \in report
    /\ \A i \in DOMAIN operative : \A k \in DOMAIN operative[i].runs :
         ~Aside(operative[i], operative[i].runs[k]) =>
           \/ InBlock(i) /\ Walked(operative[i].runs[k])
           \/ Unknown(operative[i]) /\ Note(0, "unread") \in read.notes
           \/ i \in Omitted(upload) /\ Note(0, "listing") \in read.notes

=============================================================================
