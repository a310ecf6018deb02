------------------------------ MODULE MCReading ------------------------------
(* Instances of DocumentReading for TLC: documents of the paragraphs in      *)
(* which the two readings, or the notes, could go wrong.                     *)
EXTENDS DocumentReading

Run(text) == [path |-> <<>>, kind |-> "text", text |-> text, bold |-> FALSE, vanish |-> "unsaid"]
In(path, r) == [r EXCEPT !.path = path]
Bold(r) == [r EXCEPT !.bold = TRUE]
Vanished(r) == [r EXCEPT !.vanish = "on"]
Mark(kind) == [Run(<<>>) EXCEPT !.kind = kind]
P(runs) == [style |-> "plain", outline |-> FALSE, hides |-> FALSE, mark |-> "none",
            markup |-> {}, bookmark |-> FALSE, place |-> "body", runs |-> runs]

Text == Run(<<"sentence">>)
Word == Run(<<"word">>)
Entry == Run(<<"word", "tab", "7">>)

Catalogue ==
  {P(<<Text, In(<<"del", "moveFrom">>, Word)>>),             \* a move in a deletion
   [P(<<Word>>) EXCEPT !.style = "heading", !.bookmark = TRUE],
   P(<<Bold(Word)>>),
   P(<<In(<<"ins">>, Bold(Word))>>),                          \* inserted bold line
   P(<<Bold(Word), In(<<"moveTo">>, Word)>>),
   P(<<Run(<<"1.", " ", "word">>), In(<<"del">>, Text)>>),
   P(<<In(<<"del">>, Run(<<"1.", " ", "word">>))>>),          \* struck heading
   [P(<<In(<<"del">>, Word)>>) EXCEPT !.style = "heading"],
   [P(<<In(<<"moveFrom">>, Text)>>) EXCEPT !.mark = "moveFrom", !.markup = {"range"}],
   P(<<In(<<"ins">>, Text), In(<<"ins", "del">>, Word)>>),
   P(<<Word, In(<<"del", "ins">>, Text), In(<<"moveFrom", "del">>, Word)>>),
   P(<<Run(<<"(a)", "tab">>), In(<<"ins", "link">>, Word)>>),
   P(<<Text, In(<<"field", "ins">>, Run(<<"word", " ">>))>>),
   P(<<Text, In(<<"ins", "field">>, Word)>>),
   [P(<<Text>>) EXCEPT !.mark = "del", !.markup = {"format", "cell"}],
   [P(<<Text>>) EXCEPT !.place = "unknown"],
   P(<<In(<<"unknown">>, Text)>>),
   [P(<<In(<<"ins">>, Text)>>) EXCEPT !.place = "textbox"],
   P(<<In(<<"placeholder">>, Word), Vanished(Text)>>),
   P(<<Word, Run(<<"zero width">>)>>),
   \* a table of contents
   P(<<Mark("toc"), Mark("separate"), In(<<"anchor">>, Entry)>>),
   [P(<<Mark("toc"), Mark("separate"), Word>>) EXCEPT !.style = "toc"],
   P(<<Entry>>),
   P(<<Entry, Mark("end")>>),
   P(<<Entry, In(<<"del">>, Mark("end"))>>),
   P(<<In(<<"del">>, Mark("field")), In(<<"del">>, Mark("separate")), Word, Mark("end")>>),
   P(<<Mark("pageref"), Mark("separate"), Word, Mark("end"), Mark("end")>>),
   P(<<Mark("end"), Text>>)}
=============================================================================
