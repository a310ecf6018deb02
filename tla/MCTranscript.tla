----------------------------- MODULE MCTranscript -----------------------------
(* Blocks and documents for TLC. *)
EXTENDS SpanEdits

Words(own, text) == [own |-> own, text |-> text]
Readable(runs) == [runs |-> runs, readable |-> TRUE]

\* A blank at the edge; repeated text across another author's run; two
\* paragraphs; a tab; typographic punctuation.
FiveBlocks ==
  {<<Readable(<<Words(TRUE, <<" ", "a", " ", "b">>)>>)>>,
   <<Readable(<<Words(TRUE, <<"a", "a">>), Words(FALSE, <<"a">>), Words(TRUE, <<"b">>)>>)>>,
   <<Readable(<<Words(TRUE, <<"a">>)>>), [Readable(<<Words(TRUE, <<" ", "b">>)>>) EXCEPT !.readable = FALSE]>>,
   <<Readable(<<Words(TRUE, <<"a", "\t", "b", "a">>)>>)>>,
   <<Readable(<<Words(TRUE, <<"a", "curly quote", "b">>)>>)>>}

Transcribed ==
  {<<"a">>, <<"b">>, <<"a", "a">>, <<"a", " ">>, <<" ">>, <<" ", "b">>,
   <<"a", "\t", "b">>, <<"straight quote">>}

Proposed == {<<"x">>, <<" ", "x">>, <<"x", "\t">>, <<"control">>}

=============================================================================
