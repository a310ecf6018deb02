------------------------------- MODULE BlockOps -------------------------------
(***************************************************************************)
(* The operations of a transcript on whole blocks: a clause is struck, or  *)
(* a new paragraph is put after one.  Each is planned against the document *)
(* on its own and may be refused; then the planned deletions are written,  *)
(* and after them the planned insertions, each at its place among the      *)
(* paragraphs; then the accepted document is compared with the one the     *)
(* planned operations promise.                                             *)
(*                                                                         *)
(* A block is the body under a heading, or what precedes the first one.    *)
(***************************************************************************)
EXTENDS Integers, SequencesExt, Selection

CONSTANTS
  Agreements,   \* the documents there may be: sequences of blocks
  NewTexts,     \* paragraphs the model may write
  MaxBlockOps   \* the most operations of one transcript

ASSUME AgreementsAssumption ==
  \A a \in Agreements :
    a \in Seq([heading : {"none", "live", "moved"},
               paragraphs : Seq([kind : {"signature", "weak", "mixed", "body"},
                                 found : BOOLEAN, cell : BOOLEAN])])

VARIABLES
  agreement,  \* the document's blocks
  patched,    \* blocks the transcript also has segments for
  asked,      \* the operations as far as they are validated
  phase,      \* "asking", "rejected", "writing", or how it ended
  planned,    \* which of them were not refused
  written,    \* which of those are written
  paper,      \* the body's paragraphs, struck ones too, in their order
  struck,     \* the paragraphs struck for good
  omitted     \* the paragraphs that read "[Intentionally omitted.]"

blockVars ==
  <<agreement, patched, asked, phase, planned, written, paper, struck, omitted>>

AnchorStart == 0
UnsafeText == "control"  \* holds a character XML cannot
Deletes == [op : {"delete_block"}, block : DOMAIN agreement, text : {""}]
Inserts ==
  [op : {"insert_block_after"}, block : DOMAIN agreement \cup {AnchorStart}, text : NewTexts]

Body(b) == agreement[b].paragraphs
Kinds(b) == [i \in DOMAIN Body(b) |-> Body(b)[i].kind]

\* A paragraph of the document, and a new one, of no block, by the operation
\* that adds it.
Own(b, i) == <<b, i>>
New(k) == <<AnchorStart, k>>
Owned(b) == [i \in DOMAIN Body(b) |-> Own(b, i)]

BlockOpsInit ==
  /\ agreement \in Agreements
  /\ patched \in SUBSET DOMAIN agreement
  /\ asked = <<>> /\ phase = "asking"
  /\ planned = {} /\ written = {}
  /\ paper = FlattenSeq([b \in DOMAIN agreement |-> Owned(b)])
  /\ struck = {} /\ omitted = {}

-----------------------------------------------------------------------------
\* Validation: one conflict rejects the whole transcript.

Conflicting(op) ==
  /\ op.op = "delete_block"
  /\ op.block \in patched \/ \E k \in DOMAIN asked : asked[k] = op

AskFor(op) ==
  /\ phase = "asking" /\ Len(asked) < MaxBlockOps
  /\ IF Conflicting(op) THEN phase' = "rejected" /\ asked' = <<>>
     ELSE asked' = Append(asked, op) /\ UNCHANGED phase
  /\ UNCHANGED <<agreement, patched, planned, written, paper, struck, omitted>>

-----------------------------------------------------------------------------
\* The trailing signature block of a clause: the longest run of paragraphs of
\* nothing but signature lines, party lines and lead-ins that reaches the end
\* of the clause, if it has a signature line.

RunStart(kinds) ==
  LET starts == {i \in 1..Len(kinds) + 1 :
                   \A j \in i..Len(kinds) : kinds[j] \in {"signature", "weak"}}
  IN CHOOSE i \in starts : \A j \in starts : i <= j

TailStart(kinds) ==
  IF \E j \in RunStart(kinds)..Len(kinds) : kinds[j] = "signature"
  THEN RunStart(kinds) ELSE Len(kinds) + 1

\* Signature lines ahead of the tail, or prose among signature lines.
Ambiguous(kinds) == \E j \in 1..TailStart(kinds) - 1 : kinds[j] \in {"signature", "mixed"}

\* What a deletion strikes of a block.
Strikes(b) == 1..TailStart(Kinds(b)) - 1

-----------------------------------------------------------------------------
\* Planning.

\* "start" stands for the place before the first block's body.
Anchor(op) == IF op.block = AnchorStart THEN 1 ELSE op.block

\* A deletion leaves the signature tail alone; an insertion is written at the
\* block's last paragraph.
Wanted(op) ==
  IF op.op = "delete_block" THEN Strikes(op.block)
  ELSE IF op.block = AnchorStart THEN {1}
  ELSE {Len(Body(op.block))}

Unplannable(op) ==
  \/ op.text = UnsafeText
  \/ Anchor(op) \notin DOMAIN agreement  \* there is no first block
  \/ Body(Anchor(op)) = <<>>
  \/ /\ op.op = "delete_block"
     /\ Ambiguous(Kinds(op.block)) \/ Strikes(op.block) = {}
  \/ \E i \in Wanted(op) : ~Body(Anchor(op))[i].found \/ Body(Anchor(op))[i].cell

PlanBlockOps ==
  /\ phase = "asking" /\ asked # <<>>
  /\ phase' = "writing"
  /\ planned' = {k \in DOMAIN asked : ~Unplannable(asked[k])}
  /\ UNCHANGED <<agreement, patched, asked, written, paper, struck, omitted>>

Deletions == {k \in planned : asked[k].op = "delete_block"}
Insertions == planned \ Deletions

StruckBlock(b) == \E k \in Deletions : asked[k].block = b

\* Mutant: an insertion that was refused counts too.
AnchoredAsAsked(b) ==
  \E k \in DOMAIN asked : asked[k].op # "delete_block" /\ Anchor(asked[k]) = b

\* An insertion that was refused leaves nothing under the heading.
Anchored(b) == \E k \in Insertions : Anchor(asked[k]) = b

\* A struck clause whose heading then has no body is marked as omitted, if
\* the heading's paragraph still reads as it was extracted.
Placeholder(b) == StruckBlock(b) /\ agreement[b].heading = "live" /\ ~Anchored(b)

\* The paragraph that takes the placeholder: the last one struck.
MarkedIn(b) ==
  {Own(b, i) : i \in {i \in Strikes(b) : Placeholder(b) /\ \A j \in Strikes(b) : j <= i}}

-----------------------------------------------------------------------------
\* Writing, each kind in the order of the transcript.

WriteNext(k, operations) ==
  /\ phase = "writing" /\ k \in operations \ written
  /\ \A j \in operations \ written : k <= j
  /\ written' = written \cup {k}
  /\ UNCHANGED <<agreement, patched, asked, phase, planned>>

StrikeBlock(k) ==
  LET b == asked[k].block
  IN /\ WriteNext(k, Deletions)
     /\ struck' = struck \cup ({Own(b, i) : i \in Strikes(b)} \ MarkedIn(b))
     /\ omitted' = omitted \cup MarkedIn(b)
     /\ UNCHANGED paper

\* Insertions at one anchor follow each other.
Place(op) ==
  LET mine == {i \in DOMAIN paper :
                 \E j \in written : paper[i] = New(j) /\ asked[j].block = op.block}
      body == {i \in DOMAIN paper : \E p \in DOMAIN Body(Anchor(op)) : paper[i] = Own(Anchor(op), p)}
      least(S) == CHOOSE x \in S : \A y \in S : x <= y
      greatest(S) == CHOOSE x \in S : \A y \in S : y <= x
  IN IF mine # {} THEN greatest(mine)
     ELSE IF op.block = AnchorStart THEN least(body) - 1
     ELSE greatest(body)

InsertParagraph(k) ==
  /\ Deletions \subseteq written
  /\ WriteNext(k, Insertions)
  /\ paper' = InsertAt(paper, Place(asked[k]) + 1, New(k))
  /\ UNCHANGED <<struck, omitted>>

-----------------------------------------------------------------------------
\* The projection gate.

AcceptedPaper == Kept(paper, ToSet(paper) \ struck)

NewAfter(b) ==
  Kept([k \in DOMAIN asked |-> New(k)], {New(k) : k \in {k \in Insertions : asked[k].block = b}})

\* A struck clause still shows the placeholder and the signature tail.
ExpectedOf(b) ==
  Kept(Owned(b), {Own(b, i) : i \in {i \in DOMAIN Body(b) :
                    StruckBlock(b) /\ i \in Strikes(b) => Own(b, i) \in MarkedIn(b)}})

ExpectedPaper ==
  NewAfter(AnchorStart)
    \o FlattenSeq([b \in DOMAIN agreement |-> ExpectedOf(b) \o NewAfter(b)])

\* A document that nothing was written into is none.
DeliverBlockOps ==
  /\ phase = "writing" /\ written = planned
  /\ phase' = IF planned = {} THEN "nothing written"
              ELSE IF AcceptedPaper = ExpectedPaper THEN "delivered" ELSE "withheld"
  /\ UNCHANGED <<agreement, patched, asked, planned, written, paper, struck, omitted>>

BlockOpsNext ==
  \/ \E op \in Deletes \cup Inserts : AskFor(op)
  \/ PlanBlockOps
  \/ \E k \in planned : StrikeBlock(k) \/ InsertParagraph(k)
  \/ DeliverBlockOps

BlockOpsSpec == BlockOpsInit /\ [][BlockOpsNext]_blockVars

-----------------------------------------------------------------------------

\* No paragraph with a signature line in it is ever struck.
SignaturesStand ==
  \A b \in DOMAIN agreement : \A i \in DOMAIN Body(b) :
    Kinds(b)[i] \in {"signature", "mixed"} => Own(b, i) \notin struck \cup omitted

\* When all is written, a heading whose clause was struck has the placeholder
\* or a new paragraph under it: a replacement that was refused does not count.
HeadingsCovered ==
  phase \in {"delivered", "withheld"} =>
    \A b \in DOMAIN agreement :
      agreement[b].heading = "live" /\ StruckBlock(b) =>
        \/ \E i \in DOMAIN Body(b) : Own(b, i) \in omitted
        \/ \E k \in DOMAIN asked : Anchor(asked[k]) = b /\ New(k) \in ToSet(paper)

\* The placeholder stands under no heading that has another body, be it a
\* part of the clause or its replacement; only a signature block follows it.
OmittedAlone ==
  \A b \in DOMAIN agreement : \A i \in DOMAIN Body(b) :
    phase = "delivered" /\ Own(b, i) \in omitted =>
      /\ \A p \in DOMAIN Body(b) \ {i} :
           Own(b, p) \in struck \/ (p > i /\ Kinds(b)[p] \in {"signature", "weak"})
      /\ \A k \in written : Anchor(asked[k]) = b => New(k) \notin ToSet(paper)

\* A clause is struck with nothing left bare and no signature lost, whichever
\* operations were refused, and the gate withholds no document over a
\* whole-block operation.
ClausesStruckCleanly ==
  SignaturesStand /\ HeadingsCovered /\ OmittedAlone /\ phase # "withheld"

=============================================================================
