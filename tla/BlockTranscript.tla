---------------------------- MODULE BlockTranscript ----------------------------
(***************************************************************************)
(* The transcript a model writes of one block of a document, segment by    *)
(* segment, and its proof against the block's own text.  The kept and the  *)
(* deleted segments must spell the block from its first character to its   *)
(* last; blanks and typographic punctuation are compared in a folded form. *)
(* A proven transcript has offsets into the block's text.                  *)
(***************************************************************************)
EXTENDS Integers, Sequences, FiniteSets
LOCAL INSTANCE SequencesExt

CONSTANTS
  Blocks,       \* the blocks there may be: sequences of physical paragraphs
  Issues,       \* the issues that author edits
  SourceTexts,  \* what the model may write for text of the block
  InsertTexts,  \* what the model may insert
  MaxSegments   \* the longest transcript

VARIABLES
  block,     \* the block, a sequence of physical paragraphs
  segments,  \* the transcript as far as it has been read
  placed,    \* where the kept and deleted segments are, in the folded text
  cursor,    \* how much of the folded text has been placed
  verdict,   \* "open", "rejected" or "proven"
  ops        \* the proven operations

transcriptVars == <<block, segments, placed, cursor, verdict, ops>>

Space == " "
Tab == "\t"
Break == "\n"
Blank(c) == c \in {Space, Tab, Break}

NoIssue == "none"
SegmentOps == {"keep", "delete", "insert"}
Segments ==
  [op : {"keep"}, issue : {NoIssue}, text : SourceTexts]
    \cup [op : {"delete"}, issue : Issues, text : SourceTexts]
    \cup [op : {"insert"}, issue : Issues, text : InsertTexts]

-----------------------------------------------------------------------------
\* A live paragraph is a sequence of runs; its clean text has no blanks at
\* its edges.  A block's text joins the clean texts with line breaks.

LiveText(p) == FlattenSeq([r \in DOMAIN p.runs |-> p.runs[r].text])

Positions(text) == [i \in 1..Len(text) |-> i]
Inked(text) == {i \in DOMAIN text : ~Blank(text[i])}
Least(S) == CHOOSE x \in S : \A y \in S : x <= y
Greatest(S) == CHOOSE x \in S : \A y \in S : x >= y

Strip(text) ==
  IF Inked(text) = {} THEN <<>>
  ELSE SubSeq(text, Least(Inked(text)), Greatest(Inked(text)))
Lead(p) == Least(Inked(LiveText(p))) - 1

CleanTexts == [k \in DOMAIN block |-> Strip(LiveText(block[k]))]
Joined(texts) ==
  Tail(FlattenSeq([k \in DOMAIN texts |-> <<Break>> \o texts[k]]))
BlockText == Joined(CleanTexts)

-----------------------------------------------------------------------------
\* The form texts are compared in: a run of blanks is one space.  `from` and
\* `to` are the range of the original text a folded character stands for.

FoldChar(c) ==
  CASE Blank(c) -> Space
    [] c = "curly quote" -> "straight quote"
    [] OTHER -> c

FoldMap(text) ==
  LET heads == SelectSeq(Positions(text),
                 LAMBDA i : ~Blank(text[i]) \/ i = 1 \/ ~Blank(text[i - 1]))
  IN [k \in DOMAIN heads |->
        [ch |-> FoldChar(text[heads[k]]), from |-> heads[k] - 1,
         to |-> IF k = Len(heads) THEN Len(text) ELSE heads[k + 1] - 1]]

Fold(text) == LET map == FoldMap(text) IN [k \in DOMAIN map |-> map[k].ch]

StartsWith(text, part, at) ==
  /\ at + Len(part) <= Len(text)
  /\ \A i \in DOMAIN part : text[at + i] = part[i]

FoldedBlock == Fold(BlockText)

-----------------------------------------------------------------------------
\* Two consecutive keeps, or two consecutive deletes or inserts of one issue,
\* are one segment written as two.
WellShaped(segment) ==
  segments # <<>> /\ Last(segments).op = segment.op =>
    segment.op # "keep" /\ Last(segments).issue # segment.issue

Source == SelectSeq(segments, LAMBDA s : s.op # "insert")

TranscriptInit ==
  /\ block \in Blocks
  /\ segments = <<>> /\ placed = <<>> /\ cursor = 0
  /\ verdict = "open" /\ ops = <<>>

Reading == verdict = "open" /\ Len(segments) < MaxSegments

RejectTranscript ==
  /\ verdict' = "rejected"
  /\ segments' = <<>> /\ placed' = <<>> /\ cursor' = 0
  /\ UNCHANGED <<block, ops>>

ReadInsert(segment) ==
  /\ Reading /\ segment.op = "insert" /\ WellShaped(segment)
  /\ segments' = Append(segments, segment)
  /\ UNCHANGED <<block, placed, cursor, verdict, ops>>

\* The segment stands at `at`; the text between the cursor and `at` is a gap.
PlaceAt(segment, at, length) ==
  /\ segments' = Append(segments, segment)
  /\ placed' = Append(placed, [gap |-> cursor, from |-> at, to |-> at + length])
  /\ cursor' = at + length
  /\ UNCHANGED <<block, verdict, ops>>

AtCursor(part) == StartsWith(FoldedBlock, part, cursor)
\* The previous segment has already taken the blank this one begins with.
BlankTaken(part) ==
  /\ ~AtCursor(part)
  /\ Head(part) = Space /\ cursor > 0 /\ FoldedBlock[cursor] = Space
  /\ StartsWith(FoldedBlock, Tail(part), cursor)
\* The transcript skips a blank of the block.
BlankSkipped(part) ==
  /\ ~AtCursor(part) /\ ~BlankTaken(part)
  /\ StartsWith(FoldedBlock, <<Space>>, cursor)
  /\ StartsWith(FoldedBlock, part, cursor + 1)

\* A kept or deleted segment is placed at the cursor, or nowhere.
PlaceSegment(segment) ==
  LET part == Fold(segment.text)
  IN /\ Reading /\ segment.op # "insert" /\ WellShaped(segment)
     /\ \/ AtCursor(part) /\ PlaceAt(segment, cursor, Len(part))
        \/ BlankTaken(part) /\ Len(part) > 1 /\ PlaceAt(segment, cursor, Len(part) - 1)
        \/ BlankSkipped(part) /\ PlaceAt(segment, cursor + 1, Len(part))

\* A segment of the wrong shape, one that is not the block's text, or one
\* that would stand for no character at all.
RejectSegment(segment) ==
  LET part == Fold(segment.text)
  IN /\ Reading
     /\ \/ ~WellShaped(segment)
        \/ /\ segment.op # "insert" /\ ~AtCursor(part) /\ ~BlankSkipped(part)
           /\ BlankTaken(part) => Len(part) = 1
     /\ RejectTranscript

-----------------------------------------------------------------------------
\* The end of the transcript.

Trailing == SubSeq(FoldedBlock, cursor + 1, Len(FoldedBlock))
TailOmitted == Strip(Trailing) # <<>>
EndsKept == Source # <<>> /\ Last(Source).op = "keep"

\* A blank between two segments goes to the first if both are kept or both
\* deleted; nobody knows what becomes of it otherwise.
GapUndecided ==
  \E i \in 2..Len(placed) :
    placed[i].gap < placed[i].from /\ Source[i - 1].op # Source[i].op

\* Where each source segment ends up: the first takes the block's first
\* blanks, the last what the transcript left out, each other one the gap
\* that follows it.
Folded ==
  [i \in DOMAIN placed |->
     [from |-> IF i = 1 THEN placed[i].gap ELSE placed[i].from,
      to |-> IF i = Len(placed) THEN Len(FoldedBlock) ELSE placed[i + 1].from]]

TrueSpans ==
  LET map == FoldMap(BlockText)
  IN [i \in DOMAIN placed |->
        [from |-> map[Folded[i].from + 1].from, to |-> map[Folded[i].to].to]]

SpanText(span) == SubSeq(BlockText, span.from + 1, span.to)

\* The spans, read back out of the block, are the block.
Tiled ==
  FlattenSeq([i \in DOMAIN placed |-> SpanText(TrueSpans[i])]) = BlockText

SourcesUpTo(i) == Len(SelectSeq(SubSeq(segments, 1, i), LAMBDA s : s.op # "insert"))

\* An insert stands where the source segment before it ends.
ProvenOp(i) ==
  LET s == segments[i]
      k == SourcesUpTo(i)
      at == IF k = 0 THEN 0 ELSE TrueSpans[k].to
  IN IF s.op = "insert"
     THEN [op |-> "insert", issue |-> s.issue, from |-> at, to |-> at, text |-> s.text]
     ELSE [op |-> s.op, issue |-> s.issue, from |-> TrueSpans[k].from,
           to |-> TrueSpans[k].to, text |-> SpanText(TrueSpans[k])]

Provable ==
  /\ \E i \in DOMAIN segments : segments[i].op # "keep"
  /\ TailOmitted => EndsKept
  /\ ~GapUndecided
  /\ Tiled

ProveTranscript ==
  /\ verdict = "open" /\ segments # <<>> /\ Provable
  /\ verdict' = "proven"
  /\ ops' = [i \in DOMAIN segments |-> ProvenOp(i)]
  /\ UNCHANGED <<block, segments, placed, cursor>>

RejectWhole ==
  /\ verdict = "open" /\ ~Provable
  /\ RejectTranscript

ReadTranscript ==
  \/ \E s \in Segments : ReadInsert(s) \/ PlaceSegment(s) \/ RejectSegment(s)
  \/ ProveTranscript
  \/ RejectWhole

=============================================================================
