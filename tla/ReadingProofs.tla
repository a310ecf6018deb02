----------------------------- MODULE ReadingProofs -----------------------------
(***************************************************************************)
(* Theorems about the two readings of a contract, for documents of any     *)
(* length and paragraphs of any runs.  The lemmas on sequences are those   *)
(* of the redline's proofs.                                                *)
(***************************************************************************)
EXTENDS DocumentReading, RedlineProofs

-----------------------------------------------------------------------------
(* Induction over sequences, and what Kept does to them.                   *)

\* A set that has the empty sequence, and with a sequence each that is one
\* longer, has them all.
LEMMA SequencesGrow ==
  ASSUME NEW S, NEW G, <<>> \in G,
         \A s \in Seq(S), e \in S : s \in G => Append(s, e) \in G
  PROVE  Seq(S) \subseteq G
<1> DEFINE Bad == {n \in Nat : \E s \in Seq(S) : Len(s) = n /\ s \notin G}
<1>1. Bad \in SUBSET Nat
  OBVIOUS
<1>2. ASSUME Bad # {} PROVE FALSE
  <2>1. PICK n \in Bad : \A m \in Bad : n <= m
    <3> HIDE DEF Bad
    <3> QED
      BY <1>1, <1>2, LeastNumber
  <2>2. PICK s \in Seq(S) : Len(s) = n /\ s \notin G
    BY <2>1
  <2>3. n \in Nat /\ n # 0
    <3>1. n = 0 => s = <<>>
      BY <2>2, EmptySeq
    <3> QED
      BY <2>1, <2>2, <3>1
  <2> DEFINE front == [i \in 1 .. n - 1 |-> s[i]]
  <2>4. s[n] \in S /\ \A i \in 1 .. n : s[i] \in S
    BY <2>2, <2>3
  <2>5. front \in Seq(S) /\ Len(front) = n - 1
    <3>1. n - 1 \in Nat /\ \A i \in 1 .. n - 1 : front[i] \in S
      BY <2>3, <2>4
    <3>2. front \in [1 .. n - 1 -> S]
      BY <3>1
    <3> QED
      BY <3>1, <3>2, SeqDef
  <2>6. s = Append(front, s[n])
    <3>1. \A i \in 1 .. n - 1 : front[i] = s[i]
      OBVIOUS
    <3> HIDE DEF front
    <3>2. /\ Append(front, s[n]) \in Seq(S) /\ Len(Append(front, s[n])) = n
          /\ \A i \in 1 .. n : Append(front, s[n])[i] = s[i]
      BY <2>3, <2>4, <2>5, <3>1
    <3> QED
      BY <2>2, <3>2
  <2>7. front \in G
    <3>1. n - 1 \in Nat /\ ~(n <= n - 1)
      BY <2>3
    <3> HIDE DEF front
    <3>2. n - 1 \notin Bad
      <4> HIDE DEF Bad
      <4> QED
        BY <2>1, <3>1
    <3> QED
      BY <2>5, <3>1, <3>2
  <2> HIDE DEF front
  <2> QED
    BY <2>2, <2>4, <2>5, <2>6, <2>7
<1>3. Bad = {}
  BY <1>2
<1> QED
  <2> SUFFICES ASSUME NEW s \in Seq(S), s \notin G PROVE FALSE
    OBVIOUS
  <2>1. Len(s) \in Nat
    OBVIOUS
  <2> QED
    BY <1>3, <2>1

\* Two that keep alike have kept the same, as far as both go.
LEMMA KeepsAlike ==
  ASSUME NEW s, NEW t, NEW K, NEW L, NEW n \in Nat, NEW m \in Nat, n <= m,
         NEW h, NEW g, Keeps(h, s, K, n), Keeps(g, t, L, m),
         \A i \in 1 .. n : s[i] = t[i] /\ (s[i] \in K <=> t[i] \in L)
  PROVE  \A i \in 0 .. n : h[i] = g[i]
<1> DEFINE Wrong == {i \in 0 .. n : h[i] # g[i]}
<1>1. ASSUME Wrong # {} PROVE FALSE
  <2>1. PICK i \in Wrong : \A j \in Wrong : i <= j
    <3>1. Wrong \in SUBSET Nat
      OBVIOUS
    <3> HIDE DEF Wrong
    <3> QED
      BY <1>1, <3>1, LeastNumber
  <2>2. i \in 0 .. n /\ i \in 0 .. m /\ h[i] # g[i]
    BY <2>1
  <2>3. /\ h[i] = (IF i = 0 THEN <<>> ELSE IF s[i] \in K THEN Append(h[i - 1], s[i]) ELSE h[i - 1])
        /\ g[i] = (IF i = 0 THEN <<>> ELSE IF t[i] \in L THEN Append(g[i - 1], t[i]) ELSE g[i - 1])
    BY <2>2 DEF Keeps
  <2>4. i # 0 /\ i \in 1 .. n /\ i - 1 \in 0 .. n
    BY <2>2, <2>3
  <2>5. i - 1 \notin Wrong
    <3>1. ~(i <= i - 1)
      BY <2>4
    <3> HIDE DEF Wrong
    <3> QED
      BY <2>1, <3>1
  <2>6. h[i - 1] = g[i - 1]
    BY <2>4, <2>5
  <2> QED
    BY <2>2, <2>3, <2>4, <2>6
<1> QED
  BY <1>1

\* What Kept is, of a sequence.
LEMMA KeptIs ==
  ASSUME NEW S, NEW s \in Seq(S), NEW K
  PROVE  \E h : Keeps(h, s, K, Len(s)) /\ Kept(s, K) = h[Len(s)]
<1> DEFINE h == CHOOSE f : Keeps(f, s, K, Len(s))
<1>1. Kept(s, K) = h[Len(s)]
  BY DEF Kept, Keeps
<1>2. Keeps(h, s, K, Len(s))
  <2>1. Len(s) \in Nat
    OBVIOUS
  <2> QED
    BY <2>1, KeepsExists
<1> QED
  BY <1>1, <1>2

\* Only what a sequence has of the set matters.
LEMMA KeptSame ==
  ASSUME NEW S, NEW s \in Seq(S), NEW K, NEW L,
         \A x \in ToSet(s) : x \in K <=> x \in L
  PROVE  Kept(s, K) = Kept(s, L)
<1>1. PICK h : Keeps(h, s, K, Len(s)) /\ Kept(s, K) = h[Len(s)]
  BY KeptIs
<1>2. PICK g : Keeps(g, s, L, Len(s)) /\ Kept(s, L) = g[Len(s)]
  BY KeptIs
<1> DEFINE n == Len(s)
<1>3. n \in Nat /\ n <= n /\ \A i \in 1 .. n : s[i] = s[i] /\ (s[i] \in K <=> s[i] \in L)
  BY DEF ToSet
<1> HIDE DEF n
<1>4. \A i \in 0 .. n : h[i] = g[i]
  <2>1. Keeps(h, s, K, n) /\ Keeps(g, s, L, n)
    BY <1>1, <1>2 DEF n
  <2> QED
    BY <1>3, <2>1, KeepsAlike
<1> QED
  BY <1>1, <1>2, <1>3, <1>4 DEF n

\* Nothing is kept of nothing.
LEMMA KeptEmpty ==
  ASSUME NEW K
  PROVE  Kept(<<>>, K) = <<>>
<1>1. <<>> \in Seq({}) /\ Len(<<>>) = 0
  OBVIOUS
<1>2. PICK h : Keeps(h, <<>>, K, 0) /\ Kept(<<>>, K) = h[0]
  BY <1>1, KeptIs
<1> QED
  BY <1>2 DEF Keeps

\* What is kept of one element more.
LEMMA KeptAppend ==
  ASSUME NEW S, NEW s \in Seq(S), NEW e \in S, NEW K
  PROVE  Kept(Append(s, e), K) = IF e \in K THEN Append(Kept(s, K), e) ELSE Kept(s, K)
<1> DEFINE t == Append(s, e)
           n == Len(s)
<1>1. t \in Seq(S) /\ Len(t) = n + 1 /\ n \in Nat /\ t[n + 1] = e /\ \A i \in 1 .. n : t[i] = s[i]
  OBVIOUS
<1> HIDE DEF t
<1>2. PICK h : Keeps(h, s, K, n) /\ Kept(s, K) = h[n]
  BY KeptIs
<1>3. PICK g : Keeps(g, t, K, n + 1) /\ Kept(t, K) = g[n + 1]
  BY <1>1, KeptIs
<1> HIDE DEF n
<1>4. \A i \in 0 .. n : h[i] = g[i]
  <2>1. n + 1 \in Nat /\ n <= n + 1
    BY <1>1
  <2>2. \A i \in 1 .. n : s[i] = t[i] /\ (s[i] \in K <=> t[i] \in K)
    BY <1>1
  <2> QED
    BY <1>1, <1>2, <1>3, <2>1, <2>2, KeepsAlike
<1>5. g[n + 1] = IF t[n + 1] \in K THEN Append(g[n], t[n + 1]) ELSE g[n]
  <2>1. n + 1 \in 0 .. n + 1 /\ n + 1 # 0 /\ (n + 1) - 1 = n
    BY <1>1
  <2> QED
    BY <1>3, <2>1 DEF Keeps
<1>6. g[n] = h[n]
  BY <1>1, <1>4
<1> QED
  BY <1>1, <1>2, <1>3, <1>5, <1>6 DEF t

\* What is kept is a sequence of what was there and is in the set.
LEMMA KeptIn ==
  ASSUME NEW S, NEW s \in Seq(S), NEW K
  PROVE  Kept(s, K) \in Seq(S) /\ ToSet(Kept(s, K)) = ToSet(s) \cap K
<1> DEFINE R == S \X S
<1>1. Sorted(s, R)
  BY DEF Sorted
<1> HIDE DEF R
<1> QED
  BY <1>1, KeptHas

\* To keep twice is to keep what is in both.
LEMMA KeptTwice ==
  ASSUME NEW S, NEW s \in Seq(S), NEW K, NEW L
  PROVE  Kept(Kept(s, K), L) = Kept(s, K \cap L)
<1> DEFINE G == {t \in Seq(S) : Kept(Kept(t, K), L) = Kept(t, K \cap L)}
<1>1. <<>> \in G
  BY KeptEmpty
<1>2. ASSUME NEW t \in Seq(S), NEW e \in S, t \in G PROVE Append(t, e) \in G
  <2>1. Kept(t, K) \in Seq(S) /\ Append(t, e) \in Seq(S)
    BY KeptIn
  <2>2. Kept(Append(t, e), K \cap L) =
          IF e \in K \cap L THEN Append(Kept(t, K \cap L), e) ELSE Kept(t, K \cap L)
    BY KeptAppend
  <2>3. Kept(Append(t, e), K) = IF e \in K THEN Append(Kept(t, K), e) ELSE Kept(t, K)
    BY KeptAppend
  <2>4. Kept(Append(Kept(t, K), e), L) =
          IF e \in L THEN Append(Kept(Kept(t, K), L), e) ELSE Kept(Kept(t, K), L)
    BY <2>1, KeptAppend
  <2>5. Kept(Kept(t, K), L) = Kept(t, K \cap L)
    BY <1>2
  <2>6. Kept(Kept(Append(t, e), K), L) = Kept(Append(t, e), K \cap L)
    <3>1. CASE e \in K /\ e \in L
      BY <2>2, <2>3, <2>4, <2>5, <3>1
    <3>2. CASE e \in K /\ e \notin L
      BY <2>2, <2>3, <2>4, <2>5, <3>2
    <3>3. CASE e \notin K
      BY <2>2, <2>3, <2>5, <3>3
    <3> QED
      BY <3>1, <3>2, <3>3
  <2> QED
    BY <2>1, <2>6
<1> HIDE DEF G
<1>3. s \in G
  BY <1>1, <1>2, SequencesGrow
<1> QED
  BY <1>3 DEF G

\* f of each element.
Mapped(f, s) == [k \in DOMAIN s |-> f[s[k]]]

LEMMA MappedIn ==
  ASSUME NEW S, NEW T, NEW f \in [S -> T], NEW s \in Seq(S)
  PROVE  Mapped(f, s) \in Seq(T)
<1>1. Mapped(f, s) \in [1 .. Len(s) -> T]
  BY DEF Mapped
<1> QED
  BY <1>1, SeqDef

LEMMA MappedHas ==
  ASSUME NEW f, NEW s
  PROVE  ToSet(Mapped(f, s)) = {f[x] : x \in ToSet(s)}
BY DEF Mapped, ToSet

\* To keep of what f makes of a sequence, keep first.
LEMMA KeptMapped ==
  ASSUME NEW S, NEW T, NEW f \in [S -> T], NEW s \in Seq(S), NEW K, NEW H,
         \A x \in S : x \in H <=> f[x] \in K
  PROVE  Kept(Mapped(f, s), K) = Mapped(f, Kept(s, H))
<1>0. ASSUME NEW t \in Seq(S)
      PROVE  Mapped(f, t) \in Seq(T) /\ DOMAIN Mapped(f, t) = DOMAIN t
  BY MappedIn, SMT DEF Mapped
<1> DEFINE G == {t \in Seq(S) : Kept(Mapped(f, t), K) = Mapped(f, Kept(t, H))}
<1>1. <<>> \in G
  <2>1. Mapped(f, <<>>) = <<>> /\ <<>> \in Seq(S)
    BY DEF Mapped
  <2> QED
    BY <2>1, KeptEmpty
<1>2. ASSUME NEW t \in Seq(S), NEW e \in S, t \in G PROVE Append(t, e) \in G
  <2>1. ASSUME NEW u \in Seq(S) PROVE Mapped(f, Append(u, e)) = Append(Mapped(f, u), f[e])
    <3>1. Mapped(f, u) \in Seq(T) /\ Len(Mapped(f, u)) = Len(u)
      <4>1. Mapped(f, u) \in Seq(T) /\ DOMAIN Mapped(f, u) = DOMAIN u
        BY <1>0
      <4> QED
        BY <4>1
    <3>2. Append(u, e) \in Seq(S)
      OBVIOUS
    <3>3. /\ Mapped(f, Append(u, e)) \in Seq(T)
          /\ DOMAIN Mapped(f, Append(u, e)) = 1 .. Len(u) + 1
          /\ \A k \in 1 .. Len(u) + 1 : Mapped(f, Append(u, e))[k] = f[Append(u, e)[k]]
      <4> DEFINE v == Append(u, e)
      <4>1. DOMAIN v = 1 .. Len(u) + 1 /\ v \in Seq(S)
        OBVIOUS
      <4> HIDE DEF v
      <4>2. Mapped(f, v) \in Seq(T) /\ DOMAIN Mapped(f, v) = DOMAIN v
        BY <4>1, <1>0
      <4>3. \A k \in DOMAIN v : Mapped(f, v)[k] = f[v[k]]
        BY DEF Mapped
      <4> QED
        BY <4>1, <4>2, <4>3 DEF v
    <3>4. \A k \in 1 .. Len(u) + 1 : f[Append(u, e)[k]] = Append(Mapped(f, u), f[e])[k]
      <4>1. \A k \in 1 .. Len(u) : Mapped(f, u)[k] = f[u[k]]
        BY DEF Mapped
      <4> QED
        BY <3>1, <4>1
    <3>5. Append(Mapped(f, u), f[e]) \in Seq(T) /\ DOMAIN Append(Mapped(f, u), f[e]) = 1 .. Len(u) + 1
      BY <3>1
    <3> QED
      BY <3>3, <3>4, <3>5
  <2>2. Mapped(f, t) \in Seq(T) /\ f[e] \in T
    BY <1>0
  <2>3. Kept(Append(Mapped(f, t), f[e]), K) =
          IF f[e] \in K THEN Append(Kept(Mapped(f, t), K), f[e]) ELSE Kept(Mapped(f, t), K)
    BY <2>2, KeptAppend
  <2>4. Kept(Append(t, e), H) = IF e \in H THEN Append(Kept(t, H), e) ELSE Kept(t, H)
    BY KeptAppend
  <2>5. Kept(t, H) \in Seq(S)
    BY KeptIn
  <2>6. Mapped(f, Append(Kept(t, H), e)) = Append(Mapped(f, Kept(t, H)), f[e])
    BY <2>1, <2>5
  <2>7. Kept(Mapped(f, t), K) = Mapped(f, Kept(t, H))
    BY <1>2
  <2>8. e \in H <=> f[e] \in K
    OBVIOUS
  <2>9. Kept(Mapped(f, Append(t, e)), K) = Mapped(f, Kept(Append(t, e), H))
    <3>1. Mapped(f, Append(t, e)) = Append(Mapped(f, t), f[e])
      BY <2>1
    <3> QED
      BY <2>3, <2>4, <2>6, <2>7, <2>8, <3>1
  <2> QED
    BY <2>9
<1> HIDE DEF G
<1>3. s \in G
  BY <1>1, <1>2, SequencesGrow
<1> QED
  BY <1>3 DEF G

-----------------------------------------------------------------------------
(* A paragraph and what accepting makes of it.                             *)

AcceptRuns == [r \in RunShape |-> AcceptRun(r)]

LEMMA AroundIs ==
  ASSUME NEW r, NEW W
  PROVE  Around(r, W) <=> \E w \in ToSet(r.path) : w \in W
BY DEF Around, ToSet

\* What is kept of a run.
LEMMA RunAccepted ==
  ASSUME NEW r \in RunShape
  PROVE  /\ AcceptRun(r) \in RunShape /\ AcceptRuns[r] = AcceptRun(r)
         /\ AcceptRun(r).kind = r.kind /\ AcceptRun(r).text = r.text
         /\ AcceptRun(r).bold = r.bold /\ AcceptRun(r).vanish = r.vanish
         /\ AcceptRun(r).path = Kept(r.path, ToSet(r.path) \ {"ins", "moveTo"})
         /\ ToSet(AcceptRun(r).path) = ToSet(r.path) \ {"ins", "moveTo"}
<1> DEFINE W == ToSet(r.path) \ {"ins", "moveTo"}
           path == Kept(r.path, W)
<1>1. r.path \in Seq(STRING)
  BY DEF RunShape
<1>2. path \in Seq(STRING) /\ ToSet(path) = ToSet(r.path) \cap W
  BY <1>1, KeptIn
<1>3. ToSet(r.path) \cap W = W
  OBVIOUS
<1>4. AcceptRun(r) = [r EXCEPT !.path = path]
  BY DEF AcceptRun
<1> HIDE DEF path, W
<1>5. /\ AcceptRun(r) \in RunShape /\ AcceptRun(r).path = path
      /\ AcceptRun(r).kind = r.kind /\ AcceptRun(r).text = r.text
      /\ AcceptRun(r).bold = r.bold /\ AcceptRun(r).vanish = r.vanish
  BY <1>2, <1>4 DEF RunShape
<1>6. AcceptRuns[r] = AcceptRun(r)
  BY DEF AcceptRuns
<1> QED
  BY <1>2, <1>3, <1>5, <1>6 DEF path, W

\* Modes are of the changes around a run.
LEMMA RunModes ==
  ASSUME NEW r \in RunShape
  PROVE  /\ Mode(r) \in {"plain", "ins", "del"}
         /\ Mode(r) \in {"ins", "del"} => Mode(r) \in ToSet(r.path)
<1> DEFINE m == Kept(r.path, {"ins", "del", "field"})
<1>1. r.path \in Seq(STRING)
  BY DEF RunShape
<1>2. m \in Seq(STRING) /\ ToSet(m) = ToSet(r.path) \cap {"ins", "del", "field"}
  BY <1>1, KeptIn
<1>3. Mode(r) = IF m = <<>> \/ Last(m) = "field" THEN "plain" ELSE Last(m)
  BY DEF Mode, Innermost
<1> HIDE DEF m
<1>4. m # <<>> => Last(m) \in ToSet(m)
  <2>1. m # <<>> => Len(m) \in DOMAIN m
    BY <1>2, EmptySeq
  <2> QED
    BY <2>1 DEF Last, ToSet
<1> QED
  BY <1>2, <1>3, <1>4

\* An accepted run is read as plain text, wherever it was read.
LEMMA AcceptedRun ==
  ASSUME NEW r \in RunShape, Accepted(r)
  PROVE  /\ Walked(AcceptRun(r)) <=> Walked(r)
         /\ Accepted(AcceptRun(r))
         /\ Mode(AcceptRun(r)) = "plain"
         /\ Mode(r) # "del"
         /\ Legible(AcceptRun(r)) <=> r.text # <<>>
         /\ Legible(r) <=> r.text # <<>>
         /\ WholeField(AcceptRun(r)) <=> Around(r, {"field"})
         /\ \A W : "ins" \notin W /\ "moveTo" \notin W =>
              (Around(AcceptRun(r), W) <=> Around(r, W))
         /\ FirstStop(AcceptRun(r)) = FirstStop(r)
<1> DEFINE q == AcceptRun(r)
<1>1. q \in RunShape /\ q.text = r.text /\ q.path = Kept(r.path, ToSet(r.path) \ {"ins", "moveTo"})
      /\ ToSet(q.path) = ToSet(r.path) \ {"ins", "moveTo"}
  BY RunAccepted
<1> HIDE DEF q
<1>2. ASSUME NEW W, "ins" \notin W, "moveTo" \notin W PROVE Around(q, W) <=> Around(r, W)
  BY <1>1, <1>2, AroundIs
<1>3. Walked(q) <=> Walked(r)
  BY <1>2 DEF Walked, Stops
<1>4. ~Around(r, {"del"}) /\ ~Around(r, {"moveFrom"})
  BY AroundIs DEF Accepted
<1>5. Accepted(q)
  BY <1>2 DEF Accepted
<1>6. ~Around(q, {"del"})
  BY <1>2, <1>4
<1>7. Mode(q) = "plain"
  BY <1>1, <1>6, RunModes, AroundIs
<1>8. Mode(r) # "del"
  BY <1>4, RunModes, AroundIs
<1>9. FirstStop(q) = FirstStop(r)
  <2>1. r.path \in Seq(STRING)
    BY DEF RunShape
  <2> DEFINE B == ToSet(r.path) \ {"ins", "moveTo"}
  <2>2. Kept(q.path, Stops) = Kept(r.path, B \cap Stops)
    BY <1>1, <2>1, KeptTwice
  <2>3. \A x \in ToSet(r.path) : x \in B \cap Stops <=> x \in Stops
    BY DEF Stops
  <2> HIDE DEF B
  <2>4. Kept(r.path, B \cap Stops) = Kept(r.path, Stops)
    BY <2>1, <2>3, KeptSame
  <2> QED
    BY <2>2, <2>4 DEF FirstStop
<1>10. Legible(q) <=> r.text # <<>>
  BY <1>1, <1>6, <1>7 DEF Legible
<1>11. Legible(r) <=> r.text # <<>>
  BY <1>4, <1>8 DEF Legible
<1>12. WholeField(q) <=> Around(r, {"field"})
  BY <1>2, <1>7 DEF WholeField
<1> QED
  BY <1>2, <1>3, <1>5, <1>7, <1>8, <1>9, <1>10, <1>11, <1>12 DEF q

\* The runs of an accepted paragraph, and the rest of it.
LEMMA ParagraphAccepted ==
  ASSUME NEW p \in ParagraphShape
  PROVE  /\ AcceptParagraph(p).runs =
              Mapped(AcceptRuns, Kept(p.runs, {r \in RunShape : Accepted(r)}))
         /\ AcceptParagraph(p) \in ParagraphShape
         /\ ToSet(AcceptParagraph(p).runs) = {AcceptRun(r) : r \in {r \in ToSet(p.runs) : Accepted(r)}}
         /\ AcceptParagraph(p).style = p.style /\ AcceptParagraph(p).outline = p.outline
         /\ AcceptParagraph(p).hides = p.hides /\ AcceptParagraph(p).bookmark = p.bookmark
         /\ AcceptParagraph(p).place = p.place /\ AcceptParagraph(p).mark = "none"
<1> DEFINE A == {r \in ToSet(p.runs) : Accepted(r)}
           B == {r \in RunShape : Accepted(r)}
           kept == Kept(p.runs, A)
           now == Mapped(AcceptRuns, kept)
<1>1. p.runs \in Seq(RunShape)
  BY DEF ParagraphShape
<1>2. kept \in Seq(RunShape) /\ ToSet(kept) = A
  <2>1. kept \in Seq(RunShape) /\ ToSet(kept) = ToSet(p.runs) \cap A
    BY <1>1, KeptIn
  <2> QED
    BY <2>1
<1>3. kept = Kept(p.runs, B)
  <2>1. \A x \in ToSet(p.runs) : x \in A <=> x \in B
    BY <1>1 DEF ToSet
  <2> HIDE DEF A, B
  <2> QED
    BY <1>1, <2>1, KeptSame
<1>4. AcceptRuns \in [RunShape -> RunShape]
  BY RunAccepted DEF AcceptRuns
<1> HIDE DEF kept
<1>5. now \in Seq(RunShape) /\ ToSet(now) = {AcceptRuns[r] : r \in ToSet(kept)}
  BY <1>2, <1>4, MappedIn, MappedHas
<1>6. {AcceptRuns[r] : r \in ToSet(kept)} = {AcceptRun(r) : r \in A}
  <2>1. \A r \in A : r \in RunShape
    BY <1>1 DEF ToSet
  <2>2. ASSUME NEW r \in A PROVE AcceptRuns[r] = AcceptRun(r)
    <3>1. r \in RunShape
      BY <2>1
    <3> QED
      BY <3>1, RunAccepted
  <2> HIDE DEF A
  <2> QED
    BY <1>2, <2>2
<1>7. now = [k \in DOMAIN kept |-> AcceptRun(kept[k])]
  <2>1. ASSUME NEW k \in DOMAIN kept PROVE AcceptRuns[kept[k]] = AcceptRun(kept[k])
    <3>1. kept[k] \in RunShape
      BY <1>2
    <3> QED
      BY <3>1, RunAccepted
  <2> QED
    BY <2>1 DEF Mapped
<1>8. AcceptParagraph(p) = [p EXCEPT !.runs = now, !.mark = "none", !.markup = @ \cap {"cell"}]
  BY <1>7 DEF AcceptParagraph, kept
<1> HIDE DEF now, A, B
<1>9. AcceptParagraph(p) \in ParagraphShape /\ AcceptParagraph(p).runs = now
  <2>1. p.markup \cap {"cell"} \in SUBSET STRING
    BY DEF ParagraphShape
  <2> DEFINE cells == p.markup \cap {"cell"}
  <2>2. AcceptParagraph(p) = [p EXCEPT !.runs = now, !.mark = "none", !.markup = cells]
    BY <1>8
  <2> HIDE DEF cells
  <2>3. cells \in SUBSET STRING /\ now \in Seq(RunShape)
    BY <1>5, <2>1 DEF cells
  <2>4. AcceptParagraph(p) =
          [style |-> p.style, outline |-> p.outline, hides |-> p.hides, mark |-> "none",
           markup |-> cells, bookmark |-> p.bookmark, place |-> p.place, runs |-> now]
    BY <2>2 DEF ParagraphShape
  <2>5. /\ p.style \in STRING /\ p.outline \in BOOLEAN /\ p.hides \in BOOLEAN
        /\ p.bookmark \in BOOLEAN /\ p.place \in Containers
    BY DEF ParagraphShape
  <2> QED
    BY <2>3, <2>4, <2>5 DEF ParagraphShape
<1>10. /\ AcceptParagraph(p).style = p.style /\ AcceptParagraph(p).outline = p.outline
       /\ AcceptParagraph(p).hides = p.hides /\ AcceptParagraph(p).bookmark = p.bookmark
       /\ AcceptParagraph(p).place = p.place /\ AcceptParagraph(p).mark = "none"
  BY <1>8 DEF ParagraphShape
<1> QED
  BY <1>3, <1>5, <1>6, <1>9, <1>10 DEF now, A, B

\* To select among accepted runs is to select among the runs.
LEMMA SelectedAccepted ==
  ASSUME NEW p \in ParagraphShape, NEW K
  PROVE  Kept(AcceptParagraph(p).runs, K) =
           Mapped(AcceptRuns, Kept(p.runs, {r \in RunShape : Accepted(r) /\ AcceptRun(r) \in K}))
<1> DEFINE B == {r \in RunShape : Accepted(r)}
           H == {r \in RunShape : AcceptRuns[r] \in K}
<1>1. p.runs \in Seq(RunShape)
  BY DEF ParagraphShape
<1>2. AcceptRuns \in [RunShape -> RunShape]
  BY RunAccepted DEF AcceptRuns
<1>3. AcceptParagraph(p).runs = Mapped(AcceptRuns, Kept(p.runs, B))
  BY ParagraphAccepted
<1>4. Kept(p.runs, B) \in Seq(RunShape)
  BY <1>1, KeptIn
<1>5. B \cap H = {r \in RunShape : Accepted(r) /\ AcceptRun(r) \in K}
  BY RunAccepted
<1> HIDE DEF B
<1>6. Kept(Mapped(AcceptRuns, Kept(p.runs, B)), K) = Mapped(AcceptRuns, Kept(Kept(p.runs, B), H))
  <2> DEFINE s == Kept(p.runs, B)
             f == AcceptRuns
  <2>1. \A x \in RunShape : x \in H <=> f[x] \in K
    OBVIOUS
  <2>2. f \in [RunShape -> RunShape] /\ s \in Seq(RunShape)
    BY <1>2, <1>4
  <2> HIDE DEF H, s, f
  <2>3. Kept(Mapped(f, s), K) = Mapped(f, Kept(s, H))
    BY <2>1, <2>2, KeptMapped
  <2> QED
    BY <2>3 DEF s, f
<1> HIDE DEF H
<1>7. Kept(Kept(p.runs, B), H) = Kept(p.runs, B \cap H)
  BY <1>1, KeptTwice
<1> QED
  BY <1>3, <1>5, <1>6, <1>7

\* The runs that are read of the accepted paragraph, and their text.
Seen(p) == {r \in RunShape : Accepted(r) /\ Walked(r) /\ r.text # <<>> /\ ~Hidden(p, r)}
Texts(s) == [k \in DOMAIN s |-> s[k].text]

\* Runs that may be read, of any modes.
Reads(p, modes) ==
  {r \in RunShape : Walked(r) /\ Legible(r) /\ ~Hidden(p, r) /\ Mode(r) \in modes}

LEMMA HiddenSame ==
  ASSUME NEW p \in ParagraphShape, NEW r \in RunShape
  PROVE  Hidden(AcceptParagraph(p), AcceptRun(r)) <=> Hidden(p, r)
BY ParagraphAccepted, RunAccepted DEF Hidden

LEMMA RunsRead ==
  ASSUME NEW p \in ParagraphShape
  PROVE  /\ Runs(p) = Kept(p.runs, {r \in RunShape : Walked(r) /\ Legible(r) /\ ~Hidden(p, r)})
         /\ Runs(p) \in Seq(RunShape)
         /\ \A r : r \in ToSet(Runs(p)) <=>
                     r \in ToSet(p.runs) /\ Walked(r) /\ Legible(r) /\ ~Hidden(p, r)
<1> DEFINE K == {r \in ToSet(p.runs) : Walked(r) /\ Legible(r) /\ ~Hidden(p, r)}
           L == {r \in RunShape : Walked(r) /\ Legible(r) /\ ~Hidden(p, r)}
<1>1. p.runs \in Seq(RunShape) /\ \A r \in ToSet(p.runs) : r \in RunShape
  BY DEF ParagraphShape, ToSet
<1>2. \A r \in ToSet(p.runs) : r \in K <=> r \in L
  BY <1>1
<1>3. Runs(p) = Kept(p.runs, K)
  BY DEF Runs
<1>4. \A r : r \in ToSet(p.runs) \cap K <=>
               r \in ToSet(p.runs) /\ Walked(r) /\ Legible(r) /\ ~Hidden(p, r)
  OBVIOUS
<1> HIDE DEF K, L
<1>5. Runs(p) = Kept(p.runs, L)
  BY <1>1, <1>2, <1>3, KeptSame
<1>6. Runs(p) \in Seq(RunShape) /\ ToSet(Runs(p)) = ToSet(p.runs) \cap K
  BY <1>1, <1>3, KeptIn
<1> QED
  BY <1>4, <1>5, <1>6 DEF L

\* Of the modes that are read, what TextOf joins.
LEMMA TextOfIs ==
  ASSUME NEW p \in ParagraphShape, NEW modes
  PROVE  TextOf(p, modes) = Strip(FlattenSeq(Texts(Kept(p.runs, Reads(p, modes)))))
<1> DEFINE K == {r \in RunShape : Walked(r) /\ Legible(r) /\ ~Hidden(p, r)}
           L == {r \in ToSet(p.runs) : Mode(r) \in modes}
           runs == Kept(Runs(p), L)
<1>1. p.runs \in Seq(RunShape)
  BY DEF ParagraphShape
<1>2. Runs(p) = Kept(p.runs, K)
  BY RunsRead
<1>3. \A r \in ToSet(p.runs) : r \in K \cap L <=> r \in Reads(p, modes)
  <2>1. \A r \in ToSet(p.runs) : r \in RunShape
    BY <1>1 DEF ToSet
  <2>2. \A r : r \in ToSet(Runs(p)) <=>
                 r \in ToSet(p.runs) /\ Walked(r) /\ Legible(r) /\ ~Hidden(p, r)
    BY RunsRead
  <2> QED
    BY <2>1, <2>2 DEF Reads
<1>4. TextOf(p, modes) = Strip(FlattenSeq(Texts(runs)))
  BY DEF TextOf, Texts
<1> HIDE DEF K, L
<1>5. Kept(Kept(p.runs, K), L) = Kept(p.runs, K \cap L)
  BY <1>1, KeptTwice
<1>6. Kept(p.runs, K \cap L) = Kept(p.runs, Reads(p, modes))
  BY <1>1, <1>3, KeptSame
<1> QED
  BY <1>2, <1>4, <1>5, <1>6

\* Accepting keeps the texts.
LEMMA TextsMapped ==
  ASSUME NEW s \in Seq(RunShape)
  PROVE  Texts(Mapped(AcceptRuns, s)) = Texts(s)
<1>1. ASSUME NEW k \in DOMAIN s PROVE AcceptRuns[s[k]].text = s[k].text
  <2>1. s[k] \in RunShape
    OBVIOUS
  <2> QED
    BY <2>1, RunAccepted
<1> QED
  BY <1>1 DEF Texts, Mapped

\* The text of an accepted paragraph, plain runs and all, is what accepting
\* its changes gives.
LEMMA AcceptedText ==
  ASSUME NEW p \in ParagraphShape, NEW modes, "plain" \in modes
  PROVE  TextOf(AcceptParagraph(p), modes) = Strip(FlattenSeq(Texts(Kept(p.runs, Seen(p)))))
<1> DEFINE q == AcceptParagraph(p)
           H == {r \in RunShape : Accepted(r) /\ AcceptRun(r) \in Reads(q, modes)}
<1>1. q \in ParagraphShape /\ p.runs \in Seq(RunShape)
  BY ParagraphAccepted DEF ParagraphShape
<1>2. TextOf(q, modes) = Strip(FlattenSeq(Texts(Kept(q.runs, Reads(q, modes)))))
  BY <1>1, TextOfIs
<1>3. Kept(q.runs, Reads(q, modes)) = Mapped(AcceptRuns, Kept(p.runs, H))
  BY SelectedAccepted
<1>4. H = Seen(p)
  <2>1. ASSUME NEW r \in RunShape, Accepted(r)
        PROVE  AcceptRun(r) \in Reads(q, modes) <=> Walked(r) /\ r.text # <<>> /\ ~Hidden(p, r)
    BY <2>1, AcceptedRun, RunAccepted, HiddenSame DEF Reads
  <2> HIDE DEF q
  <2> QED
    BY <2>1 DEF Seen
<1>5. Kept(p.runs, Seen(p)) \in Seq(RunShape)
  BY <1>1, KeptIn
<1> HIDE DEF q, H
<1>6. Texts(Mapped(AcceptRuns, Kept(p.runs, Seen(p)))) = Texts(Kept(p.runs, Seen(p)))
  BY <1>5, TextsMapped
<1> QED
  BY <1>2, <1>3, <1>4, <1>6 DEF q

\* A run in no deletion or old place of a move is accepted.
LEMMA NotStruck ==
  ASSUME NEW r \in RunShape, Walked(r), Legible(r), Mode(r) # "del"
  PROVE  Accepted(r)
<1>1. ~Around(r, {"del"})
  BY DEF Legible
<1>2. ~Around(r, {"moveFrom"})
  BY AroundIs DEF Walked, Stops
<1> QED
  BY <1>1, <1>2, AroundIs DEF Accepted

\* What accepting gives is what was to result.
LEMMA ResultingIs ==
  ASSUME NEW p \in ParagraphShape
  PROVE  /\ Resulting(p) = Strip(FlattenSeq(Texts(Kept(p.runs, Seen(p)))))
         /\ Resulting(AcceptParagraph(p)) = Resulting(p)
         /\ Original(AcceptParagraph(p)) = Resulting(p)
<1>1. p.runs \in Seq(RunShape)
  BY DEF ParagraphShape
<1>2. ASSUME NEW r \in RunShape PROVE r \in Reads(p, {"plain", "ins"}) <=> r \in Seen(p)
  <2>1. r \in Reads(p, {"plain", "ins"}) => r \in Seen(p)
    BY NotStruck DEF Reads, Seen, Legible
  <2>2. r \in Seen(p) => r \in Reads(p, {"plain", "ins"})
    BY AcceptedRun, RunModes DEF Reads, Seen
  <2> QED
    BY <2>1, <2>2
<1>3. Kept(p.runs, Reads(p, {"plain", "ins"})) = Kept(p.runs, Seen(p))
  <2>1. \A r \in ToSet(p.runs) : r \in Reads(p, {"plain", "ins"}) <=> r \in Seen(p)
    BY <1>1, <1>2 DEF ToSet
  <2> QED
    BY <1>1, <2>1, KeptSame
<1>4. Resulting(p) = Strip(FlattenSeq(Texts(Kept(p.runs, Seen(p)))))
  BY <1>3, TextOfIs DEF Resulting
<1>5. Resulting(AcceptParagraph(p)) = Strip(FlattenSeq(Texts(Kept(p.runs, Seen(p)))))
  BY AcceptedText DEF Resulting
<1>6. Original(AcceptParagraph(p)) = Strip(FlattenSeq(Texts(Kept(p.runs, Seen(p)))))
  BY AcceptedText DEF Original
<1> QED
  BY <1>4, <1>5, <1>6

\* An accepted paragraph has no revision.
LEMMA NoRevision ==
  ASSUME NEW p \in ParagraphShape
  PROVE  /\ ~Revised(AcceptParagraph(p))
         /\ \A r \in ToSet(AcceptParagraph(p).runs) : r \in RunShape /\ Mode(r) = "plain"
<1> DEFINE q == AcceptParagraph(p)
<1>1. ASSUME NEW r \in ToSet(q.runs) PROVE r \in RunShape /\ Mode(r) = "plain"
  <2>1. PICK x \in ToSet(p.runs) : Accepted(x) /\ r = AcceptRun(x)
    BY ParagraphAccepted
  <2>2. x \in RunShape
    BY DEF ParagraphShape, ToSet
  <2> QED
    BY <2>1, <2>2, AcceptedRun, RunAccepted
<1>2. q \in ParagraphShape
  BY ParagraphAccepted
<1> HIDE DEF q
<1>3. \A k \in DOMAIN Runs(q) : Mode(Runs(q)[k]) = "plain"
  BY <1>1, <1>2, RunsRead DEF ToSet
<1>4. ~Revised(q)
  BY <1>3 DEF Revised
<1> QED
  BY <1>1, <1>4 DEF q

\* The fields of a paragraph without revisions stay.
LEMMA FieldsStay ==
  ASSUME NEW p \in ParagraphShape, ~Revised(p)
  PROVE  FieldResults(AcceptParagraph(p)) = FieldResults(p) /\ Original(p) = Resulting(p)
<1> DEFINE q == AcceptParagraph(p)
           W == {r \in RunShape : WholeField(r)}
           L == {r \in RunShape : Walked(r) /\ Legible(r) /\ ~Hidden(p, r)}
           M == {r \in RunShape : Walked(r) /\ Legible(r) /\ ~Hidden(q, r)}
           H == {r \in RunShape : Accepted(r) /\ AcceptRun(r) \in M \cap W}
<1>1. q \in ParagraphShape /\ p.runs \in Seq(RunShape) /\ q.runs \in Seq(RunShape)
  BY ParagraphAccepted DEF ParagraphShape
<1>2. ASSUME NEW r \in ToSet(Runs(p)) PROVE Mode(r) = "plain"
  BY <1>2 DEF Revised, ToSet
<1>3. ASSUME NEW d \in ParagraphShape
      PROVE  FieldResults(d) = Texts(Kept(d.runs, {r \in RunShape : Walked(r) /\ Legible(r) /\ ~Hidden(d, r)} \cap W))
  <2> DEFINE N == {r \in RunShape : Walked(r) /\ Legible(r) /\ ~Hidden(d, r)}
             U == {r \in ToSet(d.runs) : WholeField(r)}
  <2>1. FieldResults(d) = Texts(Kept(Runs(d), U))
    BY DEF FieldResults, Texts
  <2>2. d.runs \in Seq(RunShape) /\ Runs(d) = Kept(d.runs, N) /\ Runs(d) \in Seq(RunShape)
    BY RunsRead DEF ParagraphShape
  <2>6. \A r \in ToSet(Runs(d)) : r \in RunShape /\ r \in ToSet(d.runs)
    <3>1. \A r \in ToSet(Runs(d)) : r \in RunShape
      BY <2>2 DEF ToSet
    <3>2. \A r \in ToSet(Runs(d)) : r \in ToSet(d.runs)
      BY RunsRead
    <3> QED
      BY <3>1, <3>2
  <2>3. \A r \in ToSet(Runs(d)) : r \in U <=> r \in W
    BY <2>6
  <2> HIDE DEF N, U, W
  <2>4. Kept(Runs(d), U) = Kept(Runs(d), W)
    BY <2>2, <2>3, KeptSame
  <2>5. Kept(Kept(d.runs, N), W) = Kept(d.runs, N \cap W)
    BY <2>2, KeptTwice
  <2> QED
    BY <2>1, <2>2, <2>4, <2>5 DEF N
<1>4. FieldResults(p) = Texts(Kept(p.runs, L \cap W)) /\ FieldResults(q) = Texts(Kept(q.runs, M \cap W))
  BY <1>1, <1>3
<1>5. Kept(q.runs, M \cap W) = Mapped(AcceptRuns, Kept(p.runs, H))
  BY SelectedAccepted
<1>6. \A r \in ToSet(p.runs) : r \in RunShape
  BY <1>1 DEF ToSet
<1>7. ASSUME NEW r \in ToSet(p.runs) PROVE r \in H <=> r \in L \cap W
  <2>1. r \in RunShape
    BY <1>6
  <2>2. r \in L => Mode(r) = "plain" /\ Accepted(r)
    <3>1. r \in L => r \in ToSet(Runs(p))
      BY RunsRead
    <3> QED
      BY <1>2, <2>1, <3>1, NotStruck
  <2>3. Accepted(r) => (AcceptRun(r) \in M \cap W <=>
                          Walked(r) /\ r.text # <<>> /\ ~Hidden(p, r) /\ Around(r, {"field"}))
    BY <2>1, AcceptedRun, RunAccepted, HiddenSame
  <2>4. Accepted(r) => (Legible(r) <=> r.text # <<>>)
    BY <2>1, AcceptedRun
  <2>5. Mode(r) = "plain" => (WholeField(r) <=> Around(r, {"field"}))
    BY DEF WholeField
  <2>6. r \in H <=> Accepted(r) /\ Walked(r) /\ Legible(r) /\ ~Hidden(p, r) /\ Around(r, {"field"})
    BY <2>1, <2>3, <2>4
  <2>7. r \in L <=> Walked(r) /\ Legible(r) /\ ~Hidden(p, r)
    BY <2>1
  <2>8. r \in W <=> WholeField(r)
    BY <2>1
  <2> HIDE DEF H, L, W
  <2> QED
    BY <2>2, <2>5, <2>6, <2>7, <2>8
<1>8. Original(p) = Resulting(p)
  <2>1. ASSUME NEW r \in ToSet(p.runs)
        PROVE  r \in Reads(p, {"plain", "del"}) <=> r \in Reads(p, {"plain", "ins"})
    BY <1>2, RunsRead DEF Reads
  <2>2. Kept(p.runs, Reads(p, {"plain", "del"})) = Kept(p.runs, Reads(p, {"plain", "ins"}))
    BY <1>1, <2>1, KeptSame
  <2> QED
    BY <2>2, TextOfIs DEF Original, Resulting
<1> HIDE DEF q, W, L, M, H
<1>9. Kept(p.runs, H) = Kept(p.runs, L \cap W)
  BY <1>1, <1>7, KeptSame
<1>10. Kept(p.runs, H) \in Seq(RunShape)
  BY <1>1, KeptIn
<1>11. FieldResults(q) = FieldResults(p)
  BY <1>4, <1>5, <1>9, <1>10, TextsMapped
<1> QED
  BY <1>8, <1>11 DEF q

\* h takes the results of fields on, one by one, as FoldFields does.
Folds(h, text, results, n) ==
  h = [i \in 0 .. n |-> IF i = 0 THEN text ELSE FoldField(h[i - 1], results[i])]

LEMMA FoldsExists ==
  ASSUME NEW text, NEW results, NEW n \in Nat
  PROVE  \E h : Folds(h, text, results, n)
<1> DEFINE Without == {m \in Nat : ~\E h : Folds(h, text, results, m)}
<1>1. SUFFICES ASSUME Without # {} PROVE FALSE
  OBVIOUS
<1>2. PICK m \in Without : \A k \in Without : m <= k
  <2>1. Without \in SUBSET Nat
    OBVIOUS
  <2> HIDE DEF Without
  <2> QED
    BY <1>1, <2>1, LeastNumber
<1>3. CASE m = 0
  <2> DEFINE h == [i \in 0 .. 0 |-> text]
  <2>1. h = [i \in 0 .. 0 |-> IF i = 0 THEN text ELSE FoldField(h[i - 1], results[i])]
    OBVIOUS
  <2>2. Folds(h, text, results, 0)
    BY <2>1 DEF Folds
  <2> QED
    BY <1>2, <1>3, <2>2
<1>4. CASE m # 0
  <2>1. m - 1 \in Nat /\ m - 1 \notin Without /\ m \in Nat
    <3>1. m \in Nat
      BY <1>2
    <3> HIDE DEF Without
    <3>2. m - 1 \in Nat /\ ~(m <= m - 1)
      BY <1>4, <3>1
    <3> QED
      BY <1>2, <3>1, <3>2
  <2>2. PICK f : Folds(f, text, results, m - 1)
    BY <2>1
  <2> DEFINE next(i, g) == IF i = 0 THEN text ELSE FoldField(g[i - 1], results[i])
             h == [i \in 0 .. m |-> IF i = m THEN next(m, f) ELSE f[i]]
  <2>3. ASSUME NEW i \in 0 .. m PROVE h[i] = next(i, h)
    <3>1. CASE i = m
      <4>1. m - 1 \in 0 .. m /\ m - 1 # m
        BY <2>1
      <4>2. h[m - 1] = f[m - 1]
        BY <4>1
      <4> QED
        BY <3>1, <1>4, <4>2
    <3>2. CASE i # m
      <4>1. i \in 0 .. m - 1 /\ (i # 0 => i - 1 \in 0 .. m /\ i - 1 # m)
        BY <3>2, <2>1
      <4>2. f[i] = next(i, f)
        BY <4>1, <2>2 DEF Folds
      <4>3. i # 0 => h[i - 1] = f[i - 1]
        BY <4>1
      <4> QED
        BY <3>2, <4>1, <4>2, <4>3
    <3> QED
      BY <3>1, <3>2
  <2>4. h = [i \in 0 .. m |-> next(i, h)]
    <3>1. h = [i \in 0 .. m |-> h[i]]
      OBVIOUS
    <3> HIDE DEF h, next
    <3> QED
      BY <2>3, <3>1
  <2>5. Folds(h, text, results, m)
    <3> HIDE DEF h
    <3> QED
      BY <2>4 DEF Folds
  <2> QED
    BY <1>2, <2>5
<1> QED
  BY <1>3, <1>4

\* What FoldFields is.
LEMMA FoldFieldsIs ==
  ASSUME NEW text, NEW results, Len(results) \in Nat
  PROVE  \E h : Folds(h, text, results, Len(results)) /\ FoldFields(text, results) = h[Len(results)]
<1> DEFINE h == CHOOSE f : Folds(f, text, results, Len(results))
<1>1. FoldFields(text, results) = h[Len(results)]
  BY DEF FoldFields, Folds
<1>2. Folds(h, text, results, Len(results))
  BY FoldsExists
<1> QED
  BY <1>1, <1>2

\* h follows the fields, event by event, as Followed does.
NoFields == [open |-> <<>>, closed |-> {}, inside |-> {}, outside |-> {}]
Follows(h, events, n) ==
  h = [i \in 0 .. n |-> IF i = 0 THEN NoFields ELSE FollowField(h[i - 1], events[i])]

LEMMA FollowsExists ==
  ASSUME NEW events, NEW n \in Nat
  PROVE  \E h : Follows(h, events, n)
<1> DEFINE Without == {m \in Nat : ~\E h : Follows(h, events, m)}
<1>1. SUFFICES ASSUME Without # {} PROVE FALSE
  OBVIOUS
<1>2. PICK m \in Without : \A k \in Without : m <= k
  <2>1. Without \in SUBSET Nat
    OBVIOUS
  <2> HIDE DEF Without
  <2> QED
    BY <1>1, <2>1, LeastNumber
<1>3. CASE m = 0
  <2> DEFINE h == [i \in 0 .. 0 |-> NoFields]
  <2>1. h = [i \in 0 .. 0 |-> IF i = 0 THEN NoFields ELSE FollowField(h[i - 1], events[i])]
    OBVIOUS
  <2>2. Follows(h, events, 0)
    BY <2>1 DEF Follows
  <2> QED
    BY <1>2, <1>3, <2>2
<1>4. CASE m # 0
  <2>1. m - 1 \in Nat /\ m - 1 \notin Without /\ m \in Nat
    <3>1. m \in Nat
      BY <1>2
    <3> HIDE DEF Without
    <3>2. m - 1 \in Nat /\ ~(m <= m - 1)
      BY <1>4, <3>1
    <3> QED
      BY <1>2, <3>1, <3>2
  <2>2. PICK f : Follows(f, events, m - 1)
    BY <2>1
  <2> DEFINE next(i, g) == IF i = 0 THEN NoFields ELSE FollowField(g[i - 1], events[i])
             h == [i \in 0 .. m |-> IF i = m THEN next(m, f) ELSE f[i]]
  <2>3. ASSUME NEW i \in 0 .. m PROVE h[i] = next(i, h)
    <3>1. CASE i = m
      <4>1. m - 1 \in 0 .. m /\ m - 1 # m
        BY <2>1
      <4>2. h[m - 1] = f[m - 1]
        BY <4>1
      <4> QED
        BY <3>1, <1>4, <4>2
    <3>2. CASE i # m
      <4>1. i \in 0 .. m - 1 /\ (i # 0 => i - 1 \in 0 .. m /\ i - 1 # m)
        BY <3>2, <2>1
      <4>2. f[i] = next(i, f)
        BY <4>1, <2>2 DEF Follows
      <4>3. i # 0 => h[i - 1] = f[i - 1]
        BY <4>1
      <4> QED
        BY <3>2, <4>1, <4>2, <4>3
    <3> QED
      BY <3>1, <3>2
  <2>4. h = [i \in 0 .. m |-> next(i, h)]
    <3>1. h = [i \in 0 .. m |-> h[i]]
      OBVIOUS
    <3> HIDE DEF h, next
    <3> QED
      BY <2>3, <3>1
  <2>5. Follows(h, events, m)
    <3> HIDE DEF h
    <3> QED
      BY <2>4 DEF Follows
  <2> QED
    BY <1>2, <2>5
<1> QED
  BY <1>3, <1>4

\* What Followed is.
LEMMA FollowedIs ==
  ASSUME NEW events, Len(events) \in Nat
  PROVE  \E h : Follows(h, events, Len(events)) /\ Followed(events) = h[Len(events)]
<1> DEFINE h == CHOOSE f : Follows(f, events, Len(events))
<1>1. Followed(events) = h[Len(events)]
  BY DEF Followed, Follows, NoFields
<1>2. Follows(h, events, Len(events))
  BY FollowsExists
<1> QED
  BY <1>1, <1>2

\* A paragraph whose field is not repeated keeps its clean text.
LEMMA CleanStays ==
  ASSUME NEW p \in ParagraphShape, ~FieldRepeats(p)
  PROVE  CleanText(AcceptParagraph(p)) = CleanText(p)
<1>1. CASE Revised(p)
  BY <1>1 DEF FieldRepeats
<1>2. CASE ~Revised(p)
  BY <1>2, NoRevision, FieldsStay, ResultingIs DEF CleanText
<1> QED
  BY <1>1, <1>2

\* A paragraph whose bold line stays begins a clause, or not, as it did.
LEMMA BoundaryStays ==
  ASSUME NEW p \in ParagraphShape, ~BoldShifts(p)
  PROVE  /\ IsBoundary(AcceptParagraph(p)) <=> IsBoundary(p)
         /\ HeadingLabel(AcceptParagraph(p)) = HeadingLabel(p)
<1> DEFINE q == AcceptParagraph(p)
<1>1. /\ Resulting(q) = Resulting(p) /\ AllBold(q) = AllBold(p)
      /\ q.style = p.style /\ q.outline = p.outline
  BY ResultingIs, ParagraphAccepted DEF BoldShifts
<1> HIDE DEF q
<1>2. DecisionText(q) = DecisionText(p) /\ HeadingLabel(q) = HeadingLabel(p)
  BY <1>1 DEF DecisionText, HeadingLabel
<1>3. \A text : ShortHeading(q, text) <=> ShortHeading(p, text)
  BY <1>1 DEF ShortHeading
<1>4. IsBoundary(q) <=> IsBoundary(p)
  BY <1>1, <1>2, <1>3 DEF IsBoundary
<1> QED
  BY <1>2, <1>4 DEF q

\* What is bare stays bare; what accepting makes bare had no text to read.
LEMMA BareStays ==
  ASSUME NEW p \in ParagraphShape
  PROVE  /\ Bare(p) => Bare(AcceptParagraph(p))
         /\ Bare(AcceptParagraph(p)) /\ ~FieldRepeats(p) => Resulting(p) = <<>> /\ CleanText(p) = <<>>
<1> DEFINE q == AcceptParagraph(p)
<1>1. Resulting(q) = Resulting(p) /\ Original(q) = Resulting(p) /\ ~Revised(q) /\ q.mark = "none"
  BY ResultingIs, NoRevision, ParagraphAccepted
<1>2. ASSUME Bare(p) PROVE Bare(q)
  <2>1. FieldResults(q) = <<>>
    BY <1>2, FieldsStay DEF Bare
  <2>2. ASSUME NEW r \in ToSet(q.runs), Walked(r) PROVE ~Hidden(q, r)
    <3>1. PICK x \in ToSet(p.runs) : Accepted(x) /\ r = AcceptRun(x)
      BY ParagraphAccepted
    <3>2. x \in RunShape /\ x \in ToSet(p.runs)
      BY DEF ParagraphShape, ToSet
    <3>3. Walked(x)
      BY <2>2, <3>1, <3>2, AcceptedRun
    <3>4. ~Hidden(p, x)
      BY <1>2, <3>2, <3>3 DEF Bare, ToSet
    <3> QED
      BY <3>1, <3>2, <3>4, HiddenSame
  <2>3. \A k \in DOMAIN q.runs : Walked(q.runs[k]) => ~Hidden(q, q.runs[k])
    BY <2>2 DEF ToSet
  <2> HIDE DEF q
  <2> QED
    BY <1>1, <1>2, <2>1, <2>3 DEF Bare
<1>3. ASSUME Bare(q), ~FieldRepeats(p) PROVE Resulting(p) = <<>> /\ CleanText(p) = <<>>
  <2>1. Resulting(p) = <<>> /\ FieldResults(q) = <<>>
    BY <1>1, <1>3 DEF Bare
  <2>2. CleanText(q) = FoldFields(<<>>, <<>>)
    BY <1>1, <2>1 DEF CleanText
  <2>3. FoldFields(<<>>, <<>>) = <<>>
    <3>1. Len(<<>>) = 0 /\ 0 \in Nat
      OBVIOUS
    <3>2. PICK h : Folds(h, <<>>, <<>>, 0) /\ FoldFields(<<>>, <<>>) = h[0]
      BY <3>1, FoldFieldsIs
    <3> QED
      BY <3>2 DEF Folds
  <2> QED
    BY <1>3, <2>1, <2>2, <2>3, CleanStays
<1> QED
  BY <1>2, <1>3 DEF q

\* The runs that make up fields stay.
LEMMA FieldRunsStay ==
  ASSUME NEW p \in ParagraphShape
  PROVE  /\ FieldRuns(p) \in Seq(RunShape)
         /\ FieldRuns(AcceptParagraph(p)) = Mapped(AcceptRuns, FieldRuns(p))
<1> DEFINE q == AcceptParagraph(p)
           Part(d, r) == Walked(r) /\ Accepted(r) /\ ~Hidden(d, r) /\ (r.kind # "text" \/ r.text # <<>>)
           K == {r \in RunShape : Part(q, r)}
           H == {r \in RunShape : Accepted(r) /\ AcceptRun(r) \in K}
<1>1. q \in ParagraphShape /\ p.runs \in Seq(RunShape) /\ q.runs \in Seq(RunShape)
  BY ParagraphAccepted DEF ParagraphShape
<1>2. FieldRuns(q) = Kept(q.runs, K)
  <2>1. \A r \in ToSet(q.runs) : r \in {x \in ToSet(q.runs) : Part(q, x)} <=> r \in K
    BY <1>1 DEF ToSet
  <2>2. FieldRuns(q) = Kept(q.runs, {x \in ToSet(q.runs) : Part(q, x)})
    BY DEF FieldRuns
  <2> HIDE DEF q, K, Part
  <2> QED
    BY <1>1, <2>1, <2>2, KeptSame
<1>3. Kept(q.runs, K) = Mapped(AcceptRuns, Kept(p.runs, H))
  BY SelectedAccepted
<1>4. \A r \in ToSet(p.runs) : r \in RunShape
  BY <1>1 DEF ToSet
<1>5. ASSUME NEW r \in ToSet(p.runs) PROVE r \in H <=> r \in {x \in ToSet(p.runs) : Part(p, x)}
  <2>1. r \in RunShape
    BY <1>4
  <2>2. Accepted(r) => (AcceptRun(r) \in K <=> Part(p, r))
    BY <2>1, AcceptedRun, RunAccepted, HiddenSame
  <2> QED
    BY <2>1, <2>2
<1>6. FieldRuns(p) = Kept(p.runs, {x \in ToSet(p.runs) : Part(p, x)})
  BY DEF FieldRuns
<1> HIDE DEF q, K, H, Part
<1>7. Kept(p.runs, H) = FieldRuns(p)
  BY <1>1, <1>5, <1>6, KeptSame
<1>8. FieldRuns(p) \in Seq(RunShape)
  BY <1>1, <1>6, KeptIn
<1> QED
  BY <1>2, <1>3, <1>7, <1>8 DEF q

\* What links to a heading, or looks like an entry, does so after.
LEMMA EntryStays ==
  ASSUME NEW p \in ParagraphShape
  PROVE  /\ LinksToHeading(AcceptParagraph(p)) <=> LinksToHeading(p)
         /\ EntryShaped(AcceptParagraph(p)) <=> EntryShaped(p)
<1> DEFINE q == AcceptParagraph(p)
           Links(d, r) == Walked(r) /\ Accepted(r)
                            /\ (Around(r, {"anchor"}) \/ (r.kind = "pageref" /\ ~Hidden(d, r)))
<1>1. ASSUME NEW d PROVE LinksToHeading(d) <=> \E r \in ToSet(d.runs) : Links(d, r)
  BY DEF LinksToHeading, ToSet
<1>2. ASSUME NEW r \in ToSet(p.runs)
      PROVE  r \in RunShape /\ (Accepted(r) => (Links(q, AcceptRun(r)) <=> Links(p, r)))
  <2>1. r \in RunShape
    BY DEF ParagraphShape, ToSet
  <2> QED
    BY <2>1, AcceptedRun, RunAccepted, HiddenSame
<1>3. ToSet(q.runs) = {AcceptRun(r) : r \in {r \in ToSet(p.runs) : Accepted(r)}}
  BY ParagraphAccepted
<1>4. \A r : Links(p, r) => Accepted(r)
  OBVIOUS
<1>5. Resulting(q) = Resulting(p) /\ q.style = p.style
  BY ParagraphAccepted, ResultingIs
<1> HIDE DEF q, Links
<1>6. LinksToHeading(q) <=> LinksToHeading(p)
  BY <1>1, <1>2, <1>3, <1>4
<1>7. EntryShaped(q) <=> EntryShaped(p)
  BY <1>5, <1>6 DEF EntryShaped
<1> QED
  BY <1>6, <1>7 DEF q

-----------------------------------------------------------------------------
(* The document.                                                           *)

LEMMA AllAccepted ==
  ASSUME NEW d \in Seq(ParagraphShape)
  PROVE  /\ AcceptAll(d) \in Seq(ParagraphShape) /\ DOMAIN AcceptAll(d) = DOMAIN d
         /\ \A i \in DOMAIN d : /\ d[i] \in ParagraphShape
                                /\ AcceptAll(d)[i] = AcceptParagraph(d[i])
<1>1. /\ DOMAIN d = 1 .. Len(d) /\ Len(d) \in Nat
      /\ \A i \in DOMAIN d : d[i] \in ParagraphShape
  OBVIOUS
<1>2. \A i \in DOMAIN d : AcceptParagraph(d[i]) \in ParagraphShape
  BY <1>1, ParagraphAccepted
<1>3. AcceptAll(d) \in [1 .. Len(d) -> ParagraphShape]
  BY <1>1, <1>2 DEF AcceptAll
<1>4. AcceptAll(d) \in Seq(ParagraphShape)
  BY <1>1, <1>3, SeqDef
<1>5. DOMAIN AcceptAll(d) = DOMAIN d /\ \A i \in DOMAIN d : AcceptAll(d)[i] = AcceptParagraph(d[i])
  BY DEF AcceptAll
<1> QED
  BY <1>1, <1>4, <1>5

LEMMA Placed ==
  ASSUME NEW d \in Seq(ParagraphShape), NEW places
  PROVE  /\ InOrder(d, places) \in Seq(DOMAIN d)
         /\ ToSet(InOrder(d, places)) = DOMAIN d \cap places
         /\ InOrder(AcceptAll(d), places) = InOrder(d, places)
<1> DEFINE all == [i \in DOMAIN d |-> i]
<1>1. DOMAIN d = 1 .. Len(d) /\ Len(d) \in Nat
  OBVIOUS
<1>2. all \in Seq(DOMAIN d)
  <2>1. all \in [1 .. Len(d) -> DOMAIN d]
    BY <1>1
  <2> QED
    BY <1>1, <2>1, SeqDef
<1>3. ToSet(all) = DOMAIN d
  BY DEF ToSet
<1>4. InOrder(d, places) = Kept(all, places)
  BY DEF InOrder
<1>5. InOrder(AcceptAll(d), places) = Kept(all, places)
  <2>1. DOMAIN AcceptAll(d) = DOMAIN d
    BY AllAccepted
  <2> QED
    BY <2>1 DEF InOrder
<1> HIDE DEF all
<1> QED
  BY <1>2, <1>3, <1>4, <1>5, KeptIn

LEMMA ReadableStays ==
  ASSUME NEW d \in Seq(ParagraphShape)
  PROVE  Readable(AcceptAll(d)) = Readable(d) /\ Readable(d) \subseteq DOMAIN d
<1>1. DOMAIN AcceptAll(d) = DOMAIN d
  BY AllAccepted
<1>2. \A i \in DOMAIN d : AcceptAll(d)[i].place = d[i].place
  BY AllAccepted, ParagraphAccepted
<1> QED
  BY <1>1, <1>2 DEF Readable

\* The events of one paragraph.
EventsOf(p, i) ==
  [j \in DOMAIN FieldRuns(p) |-> [at |-> i, key |-> <<i, j>>, kind |-> FieldRuns(p)[j].kind]]
EventShape(d) == [at : DOMAIN d, key : Nat \X Nat, kind : STRING]

LEMMA EventsIn ==
  ASSUME NEW d \in Seq(ParagraphShape), NEW i \in DOMAIN d
  PROVE  /\ EventsOf(d[i], i) \in Seq(EventShape(d))
         /\ EventsOf(AcceptParagraph(d[i]), i) = EventsOf(d[i], i)
<1> DEFINE p == d[i]
           runs == FieldRuns(p)
           now == FieldRuns(AcceptParagraph(p))
<1>1. p \in ParagraphShape /\ i \in Nat
  OBVIOUS
<1>2. runs \in Seq(RunShape) /\ now = Mapped(AcceptRuns, runs)
  BY <1>1, FieldRunsStay
<1> HIDE DEF p, runs, now
<1>3. /\ DOMAIN runs = 1 .. Len(runs) /\ Len(runs) \in Nat
      /\ \A j \in DOMAIN runs : runs[j] \in RunShape
  BY <1>2
<1>4. DOMAIN now = DOMAIN runs
  BY <1>2 DEF Mapped
<1>5. \A j \in DOMAIN runs : now[j].kind = runs[j].kind
  <2>1. \A j \in DOMAIN runs : now[j] = AcceptRuns[runs[j]]
    BY <1>2 DEF Mapped
  <2>2. ASSUME NEW r \in RunShape PROVE AcceptRuns[r].kind = r.kind
    BY RunAccepted
  <2> QED
    BY <1>3, <2>1, <2>2
<1>6. EventsOf(AcceptParagraph(p), i) = EventsOf(p, i)
  BY <1>4, <1>5 DEF EventsOf, runs, now
<1>7. EventsOf(p, i) \in Seq(EventShape(d))
  <2>1. ASSUME NEW j \in DOMAIN runs
        PROVE  [at |-> i, key |-> <<i, j>>, kind |-> runs[j].kind] \in EventShape(d)
    <3>1. j \in Nat
      BY <1>3
    <3>2. runs[j].kind \in STRING
      BY <1>3 DEF RunShape
    <3> QED
      BY <1>1, <3>1, <3>2 DEF EventShape
  <2>2. EventsOf(p, i) = [j \in DOMAIN runs |-> [at |-> i, key |-> <<i, j>>, kind |-> runs[j].kind]]
    BY DEF EventsOf, runs
  <2>3. EventsOf(p, i) \in [1 .. Len(runs) -> EventShape(d)]
    BY <1>3, <2>1, <2>2
  <2> QED
    BY <1>3, <2>3, SeqDef
<1> QED
  BY <1>6, <1>7 DEF p

\* Accepting changes nothing in how the fields run through the document.
LEMMA FieldEventsStay ==
  ASSUME NEW d \in Seq(ParagraphShape)
  PROVE  FieldEvents(AcceptAll(d)) = FieldEvents(d) /\ FieldEvents(d) \in Seq(EventShape(d))
<1> DEFINE readable == InOrder(d, Readable(d))
           parts == [k \in DOMAIN readable |-> EventsOf(d[readable[k]], readable[k])]
           q == AcceptAll(d)
<1>1. readable \in Seq(DOMAIN d) /\ InOrder(q, Readable(q)) = readable
  BY Placed, ReadableStays
<1>2. FieldEvents(d) = FlattenSeq(parts)
  BY DEF FieldEvents, EventsOf
<1>3. FieldEvents(q) = FlattenSeq([k \in DOMAIN readable |-> EventsOf(q[readable[k]], readable[k])])
  <2>1. FieldEvents(q) = FlattenSeq([k \in DOMAIN InOrder(q, Readable(q)) |->
          EventsOf(q[InOrder(q, Readable(q))[k]], InOrder(q, Readable(q))[k])])
    BY DEF FieldEvents, EventsOf
  <2> HIDE DEF readable, q
  <2> QED
    BY <1>1, <2>1
<1> HIDE DEF readable
<1>4. \A k \in DOMAIN readable : readable[k] \in DOMAIN d
  BY <1>1
<1>5. ASSUME NEW k \in DOMAIN readable
      PROVE  /\ EventsOf(q[readable[k]], readable[k]) = EventsOf(d[readable[k]], readable[k])
             /\ EventsOf(d[readable[k]], readable[k]) \in Seq(EventShape(d))
  BY <1>4, AllAccepted, EventsIn
<1>6. [k \in DOMAIN readable |-> EventsOf(q[readable[k]], readable[k])] = parts
  BY <1>5
<1>7. FlattenSeq(parts) \in Seq(EventShape(d))
  <2> DEFINE S == EventShape(d)
             R == S \X S
  <2>1. parts \in Seq(Seq(S))
    <3>1. DOMAIN readable = 1 .. Len(readable) /\ Len(readable) \in Nat
      BY <1>1
    <3>2. parts \in [1 .. Len(readable) -> Seq(S)]
      BY <1>5, <3>1
    <3> QED
      BY <3>1, <3>2, SeqDef
  <2> HIDE DEF S, parts
  <2>2. \A b \in DOMAIN parts : parts[b] \in Seq(S)
    BY <2>1
  <2>3. \A b \in DOMAIN parts : Sorted(parts[b], R)
    BY <2>2 DEF Sorted
  <2>4. \A b \in DOMAIN parts : \A x \in ToSet(parts[b]) : x \in S
    BY <2>2 DEF ToSet
  <2>5. \A a, b \in DOMAIN parts : a < b =>
          \A x \in ToSet(parts[a]), y \in ToSet(parts[b]) : <<x, y>> \in R
    BY <2>4
  <2> HIDE DEF R
  <2>6. FlattenSeq(parts) \in Seq(S)
    BY <2>1, <2>3, <2>5, FlattenedHas
  <2> QED
    BY <2>6 DEF S
<1> QED
  BY <1>2, <1>3, <1>6, <1>7

\* Only events are in a listing.
LEMMA FollowedIn ==
  ASSUME NEW P, NEW events, Len(events) \in Nat,
         \A n \in 1 .. Len(events) : events[n].at \in P
  PROVE  \A x \in Followed(events).inside : x.at \in P
<1> DEFINE n == Len(events)
           Fine(s) == "inside" \in DOMAIN s /\ \A x \in s.inside : x.at \in P
<1>1. PICK h : Follows(h, events, n) /\ Followed(events) = h[n]
  BY FollowedIs
<1>2. Fine(NoFields)
  BY DEF NoFields
<1>3. ASSUME NEW s, NEW e, Fine(s), e.at \in P PROVE Fine(FollowField(s, e))
  <2> DEFINE top == Len(s.open)
             listings == Kept(s.open, {f \in ToSet(s.open) : f.kind = "toc" /\ f.result})
             opened == Append(s.open, [kind |-> e.kind, key |-> e.key, result |-> FALSE])
             nested == [s.open EXCEPT ![top].result = TRUE]
             left == SubSeq(s.open, 1, top - 1)
             ended == s.closed \cup {s.open[top].key}
             seen == s.outside \cup {e.at}
             entry == [at |-> e.at, key |-> Last(listings).key]
  <2>1. FollowField(s, e) \in {[s EXCEPT !.open = opened], [s EXCEPT !.open = nested],
          [s EXCEPT !.closed = ended, !.open = left], [s EXCEPT !.outside = seen],
          [s EXCEPT !.inside = @ \cup {entry}], s}
    BY Zenon DEF FollowField
  <2>2. entry.at \in P
    BY <1>3
  <2> HIDE DEF opened, nested, left, ended, seen, entry
  <2>3. ASSUME NEW now \in {[s EXCEPT !.open = opened], [s EXCEPT !.open = nested],
          [s EXCEPT !.closed = ended, !.open = left], [s EXCEPT !.outside = seen]}
        PROVE  "inside" \in DOMAIN now /\ now.inside = s.inside
    BY <1>3
  <2>4. /\ "inside" \in DOMAIN [s EXCEPT !.inside = @ \cup {entry}]
        /\ [s EXCEPT !.inside = @ \cup {entry}].inside = s.inside \cup {entry}
    BY <1>3
  <2>5. \A x \in s.inside \cup {entry} : x.at \in P
    BY <1>3, <2>2
  <2>6. CASE FollowField(s, e) = [s EXCEPT !.inside = @ \cup {entry}]
    BY <2>4, <2>5, <2>6
  <2>7. CASE FollowField(s, e) # [s EXCEPT !.inside = @ \cup {entry}]
    BY <1>3, <2>1, <2>3, <2>7
  <2> QED
    BY <2>6, <2>7
<1> DEFINE Bad == {i \in 0 .. n : ~Fine(h[i])}
<1>4. ASSUME Bad # {} PROVE FALSE
  <2>1. PICK i \in Bad : \A j \in Bad : i <= j
    <3>1. Bad \in SUBSET Nat
      OBVIOUS
    <3> HIDE DEF Bad
    <3> QED
      BY <1>4, <3>1, LeastNumber
  <2>2. i \in 0 .. n /\ ~Fine(h[i])
    BY <2>1
  <2> HIDE DEF Fine
  <2>3. h[i] = IF i = 0 THEN NoFields ELSE FollowField(h[i - 1], events[i])
    BY <1>1, <2>2 DEF Follows
  <2>4. i # 0 /\ i \in 1 .. n /\ i - 1 \in 0 .. n /\ ~(i <= i - 1)
    BY <1>2, <2>2, <2>3
  <2>5. Fine(h[i - 1])
    BY <2>1, <2>4
  <2> QED
    BY <1>3, <2>2, <2>3, <2>4, <2>5
<1> QED
  BY <1>1, <1>4

\* What is left out of a document, and that accepting leaves out the same.
LEMMA OmittedStays ==
  ASSUME NEW d \in Seq(ParagraphShape)
  PROVE  Omitted(AcceptAll(d)) = Omitted(d) /\ Omitted(d) \subseteq DOMAIN d
<1> DEFINE q == AcceptAll(d)
           s == Followed(FieldEvents(d))
           listed == {x \in s.inside : x.at \notin s.outside}
           Of(key) == {y \in listed : y.key = key}
           Region(c, key) == {c[x.at] : x \in Of(key)}
           Out(c, region) == /\ \A p \in region : EntryShaped(p) /\ p.style # "heading" /\ ~p.outline
                             /\ ~(\E p, r \in region : LinksToHeading(p) /\ r.bookmark)
<1>1. \A x \in listed : x.at \in DOMAIN d
  <2>1. FieldEvents(d) \in Seq(EventShape(d))
    BY FieldEventsStay
  <2>2. /\ Len(FieldEvents(d)) \in Nat
        /\ \A n \in 1 .. Len(FieldEvents(d)) : FieldEvents(d)[n].at \in DOMAIN d
    <3> DEFINE events == FieldEvents(d)
    <3>1. events \in Seq(EventShape(d))
      BY <2>1
    <3> HIDE DEF events
    <3>2. Len(events) \in Nat /\ \A n \in 1 .. Len(events) : events[n] \in EventShape(d)
      BY <3>1
    <3>3. \A e \in EventShape(d) : e.at \in DOMAIN d
      BY DEF EventShape
    <3> QED
      BY <3>2, <3>3 DEF events
  <2>3. \A x \in s.inside : x.at \in DOMAIN d
    BY <2>2, FollowedIn
  <2> QED
    BY <2>3
<1>2. Omitted(d) = {x.at : x \in {y \in listed : y.key \in s.closed /\ Out(d, Region(d, y.key))}}
  BY DEF Omitted, LeftOut
<1>3. Omitted(q) = {x.at : x \in {y \in listed : y.key \in s.closed /\ Out(q, Region(q, y.key))}}
  <2>1. FieldEvents(q) = FieldEvents(d)
    BY FieldEventsStay
  <2>2. Omitted(q) =
          LET t == Followed(FieldEvents(q))
              all == {x \in t.inside : x.at \notin t.outside}
              R(key) == {q[x.at] : x \in {y \in all : y.key = key}}
          IN {x.at : x \in {y \in all : y.key \in t.closed /\ Out(q, R(y.key))}}
    BY DEF Omitted, LeftOut
  <2> HIDE DEF q, Out
  <2> QED
    BY <2>1, <2>2
<1>4. ASSUME NEW i \in DOMAIN d
      PROVE  /\ EntryShaped(q[i]) <=> EntryShaped(d[i])
             /\ LinksToHeading(q[i]) <=> LinksToHeading(d[i])
             /\ q[i].style = d[i].style /\ q[i].outline = d[i].outline /\ q[i].bookmark = d[i].bookmark
  <2>1. d[i] \in ParagraphShape /\ q[i] = AcceptParagraph(d[i])
    BY AllAccepted
  <2> HIDE DEF q
  <2> QED
    BY <2>1, EntryStays, ParagraphAccepted
<1> HIDE DEF q, s
<1>5. ASSUME NEW key PROVE Out(q, Region(q, key)) <=> Out(d, Region(d, key))
  <2>0. \A x \in Of(key) : x.at \in DOMAIN d
    BY <1>1
  <2> HIDE DEF listed, Of
  <2>1. ASSUME NEW c
        PROVE  Out(c, Region(c, key)) <=>
                 /\ \A x \in Of(key) : EntryShaped(c[x.at]) /\ c[x.at].style # "heading" /\ ~c[x.at].outline
                 /\ ~(\E x, y \in Of(key) : LinksToHeading(c[x.at]) /\ c[y.at].bookmark)
    OBVIOUS
  <2> HIDE DEF Out, Region
  <2>2. \A x \in Of(key) : /\ EntryShaped(q[x.at]) <=> EntryShaped(d[x.at])
                           /\ LinksToHeading(q[x.at]) <=> LinksToHeading(d[x.at])
                           /\ q[x.at].style = d[x.at].style /\ q[x.at].outline = d[x.at].outline
                           /\ q[x.at].bookmark = d[x.at].bookmark
    BY <2>0, <1>4
  <2> QED
    BY <2>1, <2>2
<1> HIDE DEF Out, Region
<1>6. Omitted(q) = Omitted(d)
  BY <1>2, <1>3, <1>5
<1>7. Omitted(d) \subseteq DOMAIN d
  BY <1>1, <1>2
<1> QED
  BY <1>6, <1>7 DEF q

\* What accepting takes out of the content had no text to be read.
LEMMA ContentShrinks ==
  ASSUME NEW d \in Seq(ParagraphShape), \A i \in DOMAIN d : ~FieldRepeats(d[i])
  PROVE  /\ Content(d) \subseteq DOMAIN d
         /\ Content(AcceptAll(d)) \subseteq Content(d)
         /\ \A i \in Content(d) \ Content(AcceptAll(d)) : Resulting(d[i]) = <<>> /\ CleanText(d[i]) = <<>>
<1> DEFINE q == AcceptAll(d)
<1>1. Readable(q) = Readable(d) /\ Readable(d) \subseteq DOMAIN d /\ Omitted(q) = Omitted(d)
  BY ReadableStays, OmittedStays
<1>2. \A i \in DOMAIN d : d[i] \in ParagraphShape /\ q[i] = AcceptParagraph(d[i])
  BY AllAccepted
<1> HIDE DEF q
<1>3. /\ Content(d) = {i \in Readable(d) \ Omitted(d) : ~Bare(d[i])}
      /\ Content(q) = {i \in Readable(d) \ Omitted(d) : ~Bare(q[i])}
  BY <1>1 DEF Content
<1>4. \A i \in DOMAIN d : /\ Bare(d[i]) => Bare(q[i])
                          /\ Bare(q[i]) => Resulting(d[i]) = <<>> /\ CleanText(d[i]) = <<>>
  BY <1>2, BareStays
<1> QED
  BY <1>1, <1>3, <1>4 DEF q

\* The second reading has the blocks of the first.
LEMMA BlocksStay ==
  ASSUME NEW d \in Seq(ParagraphShape),
         \A i \in DOMAIN d : ~BoldShifts(d[i]) /\ ~FieldRepeats(d[i])
  PROVE  Blocks(AcceptAll(d)) = Blocks(d)
<1> DEFINE q == AcceptAll(d)
           Heads(c) == {i \in Content(c) : IsBoundary(c[i])}
           Preamble(c) == {i \in Content(c) : HeadOf(Heads(c), i) = 0}
           Clauses(c) == (IF \E i \in Preamble(c) : Opens(c[i]) THEN <<0>> ELSE <<>>) \o InOrder(c, Heads(c))
           Belongs(c, h) == {i \in Content(c) \ Heads(c) : HeadOf(Heads(c), i) = h /\ CleanText(c[i]) # <<>>}
           Block(c, h) ==
             LET spans == InOrder(c, Belongs(c, h))
             IN [head |-> h, heading |-> IF h = 0 THEN <<>> ELSE HeadingLabel(c[h]),
                 text |-> [j \in DOMAIN spans |-> CleanText(c[spans[j]])], spans |-> spans]
<1>1. ASSUME NEW c PROVE Blocks(c) = [k \in DOMAIN Clauses(c) |-> Block(c, Clauses(c)[k])]
  BY DEF Blocks, BlocksOf, ClauseBlock
<1>2. ASSUME NEW i \in DOMAIN d
      PROVE  /\ IsBoundary(q[i]) <=> IsBoundary(d[i])
             /\ HeadingLabel(q[i]) = HeadingLabel(d[i])
             /\ Resulting(q[i]) = Resulting(d[i]) /\ CleanText(q[i]) = CleanText(d[i])
  <2>1. d[i] \in ParagraphShape /\ q[i] = AcceptParagraph(d[i])
    BY AllAccepted
  <2> QED
    BY <2>1, BoundaryStays, ResultingIs, CleanStays
<1>3. /\ Content(d) \subseteq DOMAIN d /\ Content(q) \subseteq Content(d)
      /\ \A i \in Content(d) \ Content(q) : Resulting(d[i]) = <<>> /\ CleanText(d[i]) = <<>>
  BY ContentShrinks
<1>4. \A places : InOrder(q, places) = InOrder(d, places) /\ ToSet(InOrder(d, places)) = DOMAIN d \cap places
                    /\ InOrder(d, places) \in Seq(DOMAIN d)
  BY Placed
<1> HIDE DEF q
<1>5. Heads(q) = Heads(d)
  <2>1. \A i \in Content(d) : IsBoundary(d[i]) => Resulting(d[i]) # <<>>
    BY DEF IsBoundary
  <2> QED
    BY <1>2, <1>3, <2>1
<1>6. ASSUME NEW h PROVE Belongs(q, h) = Belongs(d, h)
  <2> HIDE DEF Heads
  <2> QED
    BY <1>2, <1>3, <1>5
<1>7. (\E i \in Preamble(q) : Opens(q[i])) <=> (\E i \in Preamble(d) : Opens(d[i]))
  <2> HIDE DEF Heads
  <2> QED
    BY <1>2, <1>3, <1>5 DEF Opens
<1> HIDE DEF Heads, Preamble, Belongs
<1>8. Clauses(q) = Clauses(d)
  BY <1>4, <1>5, <1>7
<1>9. \A k \in DOMAIN Clauses(d) : Clauses(d)[k] \in {0} \cup DOMAIN d
  <2> DEFINE front == IF \E i \in Preamble(d) : Opens(d[i]) THEN <<0>> ELSE <<>>
             rest == InOrder(d, Heads(d))
             S == {0} \cup DOMAIN d
  <2>1. front \in Seq(S)
    <3>1. <<0>> \in Seq(S) /\ <<>> \in Seq(S)
      OBVIOUS
    <3> HIDE DEF S
    <3> QED
      BY <3>1, Zenon
  <2>2. rest \in Seq(S)
    BY <1>4
  <2> HIDE DEF front, rest, S
  <2>3. front \o rest \in Seq(S)
    BY <2>1, <2>2
  <2>4. \A k \in DOMAIN (front \o rest) : (front \o rest)[k] \in S
    BY <2>3
  <2> QED
    BY <2>4 DEF front, rest, S
<1>10. ASSUME NEW h \in {0} \cup DOMAIN d PROVE Block(q, h) = Block(d, h)
  <2> DEFINE spans == InOrder(d, Belongs(d, h))
  <2>1. InOrder(q, Belongs(q, h)) = spans
    BY <1>4, <1>6
  <2>2. \A j \in DOMAIN spans : spans[j] \in DOMAIN d
    BY <1>4
  <2>3. h # 0 => HeadingLabel(q[h]) = HeadingLabel(d[h])
    BY <1>2
  <2>4. \A j \in DOMAIN spans : CleanText(q[spans[j]]) = CleanText(d[spans[j]])
    BY <1>2, <2>2
  <2> HIDE DEF spans
  <2>5. [j \in DOMAIN spans |-> CleanText(q[spans[j]])] = [j \in DOMAIN spans |-> CleanText(d[spans[j]])]
    BY <2>4
  <2>6. /\ Block(q, h) = [head |-> h, heading |-> IF h = 0 THEN <<>> ELSE HeadingLabel(q[h]),
                          text |-> [j \in DOMAIN spans |-> CleanText(q[spans[j]])], spans |-> spans]
        /\ Block(d, h) = [head |-> h, heading |-> IF h = 0 THEN <<>> ELSE HeadingLabel(d[h]),
                          text |-> [j \in DOMAIN spans |-> CleanText(d[spans[j]])], spans |-> spans]
    BY <2>1 DEF spans
  <2> QED
    BY <2>3, <2>5, <2>6
<1> HIDE DEF Clauses, Block
<1> QED
  BY <1>1, <1>8, <1>9, <1>10 DEF q

-----------------------------------------------------------------------------
(* The two readings.                                                       *)

\* The inductive invariant: what each step leaves is a function of the upload.
ReadingInv ==
  /\ upload \in Seq(Paragraphs) /\ Len(upload) <= MaxParagraphs
  /\ step \in {"writing", "read", "accepted", "done", "refused"}
  /\ report \subseteq {"moves", "formatting", "marks", "left"}
  /\ step \in {"read", "accepted", "done"} => read = Reading(upload)
  /\ step \in {"accepted", "done"} => operative = AcceptAll(upload) /\ report = Report(upload)
  /\ step = "done" => reread = Reading(operative)

\* An upload has the shapes of paragraphs.
LEMMA UploadShape ==
  ASSUME ReadingInv
  PROVE  upload \in Seq(ParagraphShape)
BY ParagraphsAssumption DEF ReadingInv

\* Each step keeps the invariant.
LEMMA ReadingSteps == ReadingSpec => []ReadingInv
<1>1. ReadingInit => ReadingInv
  <2> SUFFICES ASSUME ReadingInit PROVE ReadingInv
    OBVIOUS
  <2>1. upload \in Seq(Paragraphs) /\ Len(upload) = 0
    BY DEF ReadingInit
  <2> QED
    BY <2>1, ParagraphsAssumption DEF ReadingInit, ReadingInv
<1>2. ReadingInv /\ [ReadingNext]_readingVars => ReadingInv'
  <2> SUFFICES ASSUME ReadingInv, [ReadingNext]_readingVars PROVE ReadingInv'
    OBVIOUS
  <2>1. ASSUME NEW p \in Paragraphs, Write(p) PROVE ReadingInv'
    <3>1. /\ step = "writing" /\ Len(upload) < MaxParagraphs /\ upload' = Append(upload, p)
          /\ step' = step /\ report' = report
      BY <2>1 DEF Write
    <3>2. upload' \in Seq(Paragraphs) /\ Len(upload') <= MaxParagraphs
      BY <3>1, ParagraphsAssumption DEF ReadingInv
    <3> QED
      BY <3>1, <3>2 DEF ReadingInv
  <2>2. ASSUME Extract PROVE ReadingInv'
    BY <2>2 DEF Extract, ReadingInv
  <2>3. ASSUME Accept PROVE ReadingInv'
    <3>1. Report(upload) \subseteq {"moves", "formatting", "marks", "left"}
      BY DEF Report
    <3> QED
      BY <2>3, <3>1 DEF Accept, ReadingInv
  <2>4. ASSUME Reread PROVE ReadingInv'
    BY <2>4 DEF Reread, ReadingInv
  <2>5. ASSUME UNCHANGED readingVars PROVE ReadingInv'
    BY <2>5 DEF readingVars, ReadingInv
  <2> QED
    BY <2>1, <2>2, <2>3, <2>4, <2>5 DEF ReadingNext
<1> QED
  BY <1>1, <1>2, PTL DEF ReadingSpec

\* The document, and what is told of accepting, have their types.
THEOREM ReadingTyped == ReadingSpec => []ReadingTypeOK
<1>1. ReadingInv => ReadingTypeOK
  <2> SUFFICES ASSUME ReadingInv PROVE ReadingTypeOK
    OBVIOUS
  <2>1. \A i \in DOMAIN upload : upload[i] \in ParagraphShape
    BY UploadShape
  <2>2. \A i \in DOMAIN upload : upload[i].place \in Containers
    BY <2>1 DEF ParagraphShape
  <2> QED
    BY <2>2 DEF ReadingInv, ReadingTypeOK
<1> QED
  BY <1>1, ReadingSteps, PTL

\* Stage 5 reads the blocks of stage 1, under the same ids, but for bold lines
\* that accepting makes or breaks and fields it repeats: whatever the length
\* of the document, its runs and its tables of contents.
THEOREM ReadingsAgreeHolds == ReadingSpec => []ReadingsAgree
<1>1. ReadingInv => ReadingsAgree
  <2> SUFFICES ASSUME ReadingInv, step = "done",
                      \A i \in DOMAIN upload : ~BoldShifts(upload[i]) /\ ~FieldRepeats(upload[i])
               PROVE  reread.blocks = read.blocks
    BY DEF ReadingsAgree, SameBlockMap
  <2>1. /\ reread = Reading(operative) /\ operative = AcceptAll(upload)
        /\ read = Reading(upload)
    BY DEF ReadingInv
  <2>2. Blocks(AcceptAll(upload)) = Blocks(upload)
    BY UploadShape, BlocksStay
  <2> QED
    BY <2>1, <2>2 DEF Reading
<1> QED
  BY <1>1, ReadingSteps, PTL

-----------------------------------------------------------------------------
(* What a text keeps.                                                      *)

\* The first and the last of what is inked.
LEMMA StripIs ==
  ASSUME NEW S, NEW text \in Seq(S)
  PROVE  /\ Strip(text) \in Seq(S)
         /\ Strip(text) = <<>> <=> \A i \in DOMAIN text : text[i] \in Blanks
         /\ Strip(text) # <<>> =>
              \E a, b \in DOMAIN text : /\ a <= b /\ Strip(text) = SubSeq(text, a, b)
                                        /\ text[a] \notin Blanks /\ text[b] \notin Blanks
                                        /\ \A i \in DOMAIN text : text[i] \notin Blanks => a <= i /\ i <= b
<1> DEFINE inked == {i \in DOMAIN text : text[i] \notin Blanks}
           a == CHOOSE x \in inked : \A y \in inked : x <= y
           b == CHOOSE x \in inked : \A y \in inked : x >= y
<1>1. Strip(text) = IF inked = {} THEN <<>> ELSE SubSeq(text, a, b)
  BY DEF Strip
<1>2. CASE inked = {}
  BY <1>1, <1>2
<1>3. CASE inked # {}
  <2>1. inked \subseteq 1 .. Len(text) /\ Len(text) \in Nat
    OBVIOUS
  <2>2. \E x \in inked : \A y \in inked : x <= y
    <3>1. inked \in SUBSET Nat
      BY <2>1
    <3> HIDE DEF inked
    <3> QED
      BY <1>3, <3>1, LeastNumber
  <2>3. \E x \in inked : \A y \in inked : x >= y
    <3>1. Len(text) \in Nat /\ inked \in SUBSET (1 .. Len(text))
      BY <2>1
    <3> HIDE DEF inked
    <3>2. PICK x \in inked : \A y \in inked : y <= x
      BY <1>3, <3>1, GreatestNumber
    <3>3. \A y \in inked : x >= y
      BY <3>1, <3>2
    <3> QED
      BY <3>3
  <2>4. a \in inked /\ (\A y \in inked : a <= y) /\ b \in inked /\ (\A y \in inked : b >= y)
    <3> HIDE DEF inked
    <3> QED
      BY <2>2, <2>3
  <2> HIDE DEF a, b
  <2>5. /\ a \in 1 .. Len(text) /\ b \in 1 .. Len(text) /\ a <= b
        /\ text[a] \notin Blanks /\ text[b] \notin Blanks
        /\ \A i \in DOMAIN text : text[i] \notin Blanks => a <= i /\ i <= b
    BY <2>1, <2>4
  <2>6. Strip(text) = SubSeq(text, a, b)
    BY <1>1, <1>3
  <2>7. SubSeq(text, a, b) \in Seq(S) /\ Len(SubSeq(text, a, b)) = b - a + 1
    BY <2>1, <2>5
  <2>8. SubSeq(text, a, b) # <<>>
    BY <2>1, <2>5, <2>7
  <2>9. ~(\A i \in DOMAIN text : text[i] \in Blanks)
    BY <2>5
  <2>10. a \in DOMAIN text /\ b \in DOMAIN text
    BY <2>1, <2>5
  <2> QED
    BY <2>5, <2>6, <2>7, <2>8, <2>9, <2>10
<1> QED
  BY <1>2, <1>3

\* A text begins with another.
Begins(text, part) ==
  Len(part) <= Len(text) /\ \A i \in 1 .. Len(part) : text[i] = part[i]

\* What a text begins with stays, if it has ink at its ends, when more is
\* appended and blanks are stripped.
LEMMA SpacedKeeps ==
  ASSUME NEW S, NEW x \in S, NEW part \in Seq(S), part # <<>>, part[1] \notin Blanks, part[Len(part)] \notin Blanks,
         NEW text \in Seq(S), Begins(text, part), NEW result \in Seq(S)
  PROVE  Strip(text \o <<x>> \o result) \in Seq(S) /\ Begins(Strip(text \o <<x>> \o result), part)
<1> DEFINE whole == text \o <<x>> \o result
           n == Len(part)
<1>1. n \in Nat /\ 1 <= n
  BY EmptySeq
<1>2. /\ whole \in Seq(S) /\ n <= Len(whole)
      /\ \A i \in 1 .. n : whole[i] = part[i]
  <2>1. ASSUME NEW s \in Seq(S), NEW t \in Seq(S)
        PROVE  s \o t \in Seq(S) /\ Len(s \o t) = Len(s) + Len(t)
               /\ \A i \in 1 .. Len(s) : (s \o t)[i] = s[i]
    OBVIOUS
  <2> DEFINE space == <<x>>
             spaced == text \o space
  <2>2. space \in Seq(S) /\ Len(space) = 1
    OBVIOUS
  <2> HIDE DEF space
  <2>3. /\ spaced \in Seq(S) /\ Len(spaced) = Len(text) + 1
        /\ \A i \in 1 .. Len(text) : spaced[i] = text[i]
    <3> HIDE DEF whole, n
    <3>1. spaced \in Seq(S) /\ \A i \in 1 .. Len(text) : spaced[i] = text[i]
      BY <2>1, <2>2, Zenon
    <3>2. Len(spaced) = Len(text) + Len(space)
      BY <2>1, <2>2, Zenon
    <3> QED
      BY <2>2, <3>1, <3>2
  <2> HIDE DEF spaced
  <2>4. /\ spaced \o result \in Seq(S) /\ Len(spaced \o result) = Len(spaced) + Len(result)
        /\ \A i \in 1 .. Len(spaced) : (spaced \o result)[i] = spaced[i]
    BY <2>1, <2>3
  <2>5. whole = spaced \o result
    BY DEF spaced, space
  <2>6. n <= Len(text) /\ \A i \in 1 .. n : text[i] = part[i]
    BY DEF Begins
  <2>7. Len(text) \in Nat /\ Len(result) \in Nat
    OBVIOUS
  <2> HIDE DEF whole, n
  <2> QED
    BY <1>1, <2>3, <2>4, <2>5, <2>6, <2>7
<1> HIDE DEF whole
<1>3. Strip(whole) \in Seq(S) /\ Begins(Strip(whole), part)
  <2>1. 1 \in DOMAIN whole /\ n \in DOMAIN whole /\ whole[1] \notin Blanks /\ whole[n] \notin Blanks
    BY <1>1, <1>2
  <2>2. Strip(whole) # <<>>
    BY <1>2, <2>1, StripIs
  <2>3. PICK a, b \in DOMAIN whole : /\ a <= b /\ Strip(whole) = SubSeq(whole, a, b)
                                     /\ \A i \in DOMAIN whole : whole[i] \notin Blanks => a <= i /\ i <= b
    BY <1>2, <2>2, StripIs
  <2>4. a = 1 /\ n <= b
    BY <1>2, <2>1, <2>3
  <2>5. Len(Strip(whole)) = b /\ \A i \in 1 .. b : Strip(whole)[i] = whole[i]
    BY <1>2, <2>3, <2>4
  <2>6. Strip(whole) \in Seq(S)
    BY <1>2, StripIs
  <2>7. Len(part) <= Len(Strip(whole)) /\ \A i \in 1 .. Len(part) : Strip(whole)[i] = part[i]
    BY <1>1, <1>2, <2>3, <2>4, <2>5
  <2> QED
    BY <2>6, <2>7 DEF Begins
<1> QED
  BY <1>3 DEF whole

\* Tokens, with the blanks named: the provers take no literal for a string.
Tokens == STRING \cup Blanks

\* So to take on a field's result keeps it,
LEMMA FoldKeeps ==
  ASSUME NEW part \in Seq(Tokens), part # <<>>, part[1] \notin Blanks, part[Len(part)] \notin Blanks,
         NEW text \in Seq(Tokens), Begins(text, part), NEW result \in Seq(Tokens)
  PROVE  FoldField(text, result) \in Seq(Tokens) /\ Begins(FoldField(text, result), part)
<1> DEFINE space == " "
<1>1. space \in Tokens
  BY Zenon DEF Tokens, Blanks
<1>2. FoldField(text, result) = IF Occurs(result, text) THEN text ELSE Strip(text \o <<space>> \o result)
  BY Zenon DEF FoldField
<1> HIDE DEF space
<1>3. Strip(text \o <<space>> \o result) \in Seq(Tokens) /\ Begins(Strip(text \o <<space>> \o result), part)
  BY <1>1, SpacedKeeps
<1> QED
  BY <1>2, <1>3

\* and to take on all of them.
LEMMA FoldsKeep ==
  ASSUME NEW part \in Seq(Tokens), part # <<>>, part[1] \notin Blanks, part[Len(part)] \notin Blanks,
         NEW results \in Seq(Seq(Tokens))
  PROVE  FoldFields(part, results) \in Seq(Tokens) /\ Begins(FoldFields(part, results), part)
<1> DEFINE n == Len(results)
           Fine(t) == t \in Seq(Tokens) /\ Begins(t, part)
<1>1. n \in Nat /\ \A i \in 1 .. n : results[i] \in Seq(Tokens)
  OBVIOUS
<1>2. PICK h : Folds(h, part, results, n) /\ FoldFields(part, results) = h[n]
  BY <1>1, FoldFieldsIs
<1> HIDE DEF n
<1> DEFINE Bad == {i \in 0 .. n : ~Fine(h[i])}
<1>3. ASSUME Bad # {} PROVE FALSE
  <2>1. PICK i \in Bad : \A j \in Bad : i <= j
    <3>1. Bad \in SUBSET Nat
      OBVIOUS
    <3> HIDE DEF Bad
    <3> QED
      BY <1>3, <3>1, LeastNumber
  <2>2. i \in 0 .. n /\ ~Fine(h[i])
    BY <2>1
  <2>3. h[i] = IF i = 0 THEN part ELSE FoldField(h[i - 1], results[i])
    BY <1>2, <2>2 DEF Folds
  <2>4. Fine(part)
    BY DEF Begins
  <2> HIDE DEF Fine
  <2>5. i # 0 /\ i \in 1 .. n /\ i - 1 \in 0 .. n /\ ~(i <= i - 1)
    BY <1>1, <2>2, <2>3, <2>4
  <2>6. Fine(h[i - 1])
    BY <2>1, <2>5
  <2>7. Fine(FoldField(h[i - 1], results[i]))
    BY <1>1, <2>5, <2>6, FoldKeeps DEF Fine
  <2> QED
    BY <2>2, <2>3, <2>5, <2>7
<1>4. Fine(h[n])
  <2>1. n \in 0 .. n /\ Bad = {}
    BY <1>1, <1>3
  <2> HIDE DEF Fine
  <2> QED
    BY <2>1
<1> QED
  BY <1>2, <1>4 DEF n

\* What a text begins with occurs in it.
LEMMA BeginsOccurs ==
  ASSUME NEW S, NEW text \in Seq(S), NEW part \in Seq(S), Begins(text, part)
  PROVE  Occurs(part, text)
<1>1. 0 \in 0 .. (Len(text) - Len(part))
  BY DEF Begins
<1>2. SubSeq(text, 0 + 1, 0 + Len(part)) = part
  BY DEF Begins
<1> QED
  BY <1>1, <1>2 DEF Occurs

\* A sequence over a set is one over a larger set.
LEMMA SequencesWiden ==
  ASSUME NEW S, NEW T, S \subseteq T, NEW s \in Seq(S)
  PROVE  s \in Seq(T)
OBVIOUS

\* The accepted text of a paragraph has ink at its ends; and what a reader
\* sees of an accepted run gives it some.
LEMMA ResultingInked ==
  ASSUME NEW p \in ParagraphShape
  PROVE  /\ Resulting(p) \in Seq(STRING)
         /\ Resulting(p) # <<>> =>
              Resulting(p)[1] \notin Blanks /\ Resulting(p)[Len(Resulting(p))] \notin Blanks
         /\ \A r \in ToSet(p.runs) : Accepted(r) /\ Walked(r) /\ ~Hidden(p, r) /\ Strip(r.text) # <<>> =>
              Resulting(p) # <<>>
<1> DEFINE runs == Kept(p.runs, Seen(p))
           parts == Texts(runs)
           whole == FlattenSeq(parts)
           R == STRING \X STRING
<1>1. Resulting(p) = Strip(whole)
  BY ResultingIs
<1>2. p.runs \in Seq(RunShape)
  BY DEF ParagraphShape
<1>3. runs \in Seq(RunShape) /\ ToSet(runs) = ToSet(p.runs) \cap Seen(p)
  BY <1>2, KeptIn
<1>4. DOMAIN parts = DOMAIN runs /\ \A k \in DOMAIN runs : parts[k] = runs[k].text
  BY DEF Texts
<1> HIDE DEF runs, parts
<1>5. /\ DOMAIN runs = 1 .. Len(runs) /\ Len(runs) \in Nat
      /\ \A k \in DOMAIN runs : runs[k] \in RunShape
  BY <1>3
<1>6. \A k \in DOMAIN runs : parts[k] \in Seq(STRING)
  BY <1>4, <1>5 DEF RunShape
<1>7. parts \in Seq(Seq(STRING))
  <2>1. parts = [k \in 1 .. Len(runs) |-> parts[k]]
    BY <1>5 DEF parts, Texts
  <2>2. parts \in [1 .. Len(runs) -> Seq(STRING)]
    BY <1>5, <1>6, <2>1
  <2> QED
    BY <1>5, <2>2, SeqDef
<1>8. whole \in Seq(STRING) /\ ToSet(whole) = UNION {ToSet(parts[b]) : b \in DOMAIN parts}
  <2>1. \A b \in DOMAIN parts : parts[b] \in Seq(STRING)
    BY <1>7
  <2>2. \A b \in DOMAIN parts : Sorted(parts[b], R)
    BY <2>1 DEF Sorted
  <2>3. \A b \in DOMAIN parts : \A x \in ToSet(parts[b]) : x \in STRING
    BY <2>1 DEF ToSet
  <2>4. \A a, b \in DOMAIN parts : a < b =>
          \A x \in ToSet(parts[a]), y \in ToSet(parts[b]) : <<x, y>> \in R
    BY <2>3
  <2> HIDE DEF R
  <2> QED
    BY <1>7, <2>2, <2>4, FlattenedHas
<1> HIDE DEF whole
<1>9. Strip(whole) \in Seq(STRING)
  BY <1>8, StripIs
<1>10. ASSUME Strip(whole) # <<>>
       PROVE  Strip(whole)[1] \notin Blanks /\ Strip(whole)[Len(Strip(whole))] \notin Blanks
  <2>1. PICK a, b \in DOMAIN whole : /\ a <= b /\ Strip(whole) = SubSeq(whole, a, b)
                                     /\ whole[a] \notin Blanks /\ whole[b] \notin Blanks
    BY <1>8, <1>10, StripIs
  <2>2. /\ Len(SubSeq(whole, a, b)) = b - a + 1 /\ b - a + 1 \in 1 .. Len(whole)
        /\ \A i \in 1 .. b - a + 1 : SubSeq(whole, a, b)[i] = whole[a + i - 1]
    BY <1>8, <2>1
  <2>3. a + 1 - 1 = a /\ a + (b - a + 1) - 1 = b
    BY <1>8, <2>1
  <2>4. /\ SubSeq(whole, a, b)[1] = whole[a]
        /\ SubSeq(whole, a, b)[b - a + 1] = whole[b]
    <3> DEFINE m == b - a + 1
               sub == SubSeq(whole, a, b)
    <3>0. a \in Int /\ b \in Int /\ \A i \in 1 .. m : sub[i] = whole[a + i - 1]
      BY <1>8, <2>2
    <3>01. m \in Int /\ 1 <= m
      BY <1>8, <2>2
    <3>02. a + 1 - 1 = a /\ a + m - 1 = b
      BY <3>0
    <3> HIDE DEF m, sub
    <3>1. /\ m \in 1 .. m /\ 1 \in 1 .. m /\ a + 1 - 1 = a /\ a + m - 1 = b
          /\ \A i \in 1 .. m : sub[i] = whole[a + i - 1]
      BY <3>0, <3>01, <3>02
    <3>2. sub[1] = whole[a + 1 - 1] /\ sub[m] = whole[a + m - 1]
      BY <3>1
    <3>3. sub[1] = whole[a] /\ sub[m] = whole[b]
      BY <3>1, <3>2
    <3> QED
      BY <3>3 DEF m, sub
  <2> QED
    BY <2>1, <2>2, <2>4
<1>11. ASSUME NEW r \in ToSet(p.runs), Accepted(r), Walked(r), ~Hidden(p, r), Strip(r.text) # <<>>
       PROVE  Strip(whole) # <<>>
  <2>1. r \in RunShape
    BY <1>2 DEF ToSet
  <2>2. r.text \in Seq(STRING)
    BY <2>1 DEF RunShape
  <2>3. PICK n \in DOMAIN r.text : r.text[n] \notin Blanks
    BY <1>11, <2>2, StripIs
  <2>4. r.text # <<>>
    BY <2>2, <2>3
  <2>5. r \in ToSet(runs)
    BY <1>3, <1>11, <2>1, <2>4 DEF Seen
  <2>6. PICK k \in DOMAIN runs : runs[k] = r
    BY <2>5 DEF ToSet
  <2>7. r.text[n] \in ToSet(parts[k])
    BY <1>4, <2>3, <2>6 DEF ToSet
  <2>8. r.text[n] \in ToSet(whole)
    BY <1>4, <1>8, <2>6, <2>7
  <2>9. \E m \in DOMAIN whole : whole[m] \notin Blanks
    BY <2>3, <2>8 DEF ToSet
  <2> QED
    BY <1>8, <2>9, StripIs
<1> QED
  BY <1>1, <1>9, <1>10, <1>11

\* The text the model reads of a paragraph has all its accepted text.
LEMMA AcceptedIsRead ==
  ASSUME NEW p \in ParagraphShape, Resulting(p) # <<>>
  PROVE  CleanText(p) # <<>> /\ Occurs(Resulting(p), CleanText(p))
<1> DEFINE part == Resulting(p)
           results == FieldResults(p)
<1>1. /\ part \in Seq(STRING) /\ part # <<>>
      /\ part[1] \notin Blanks /\ part[Len(part)] \notin Blanks
  BY ResultingInked
<1>2. CASE Revised(p)
  <2>1. CleanText(p) = part
    BY <1>2 DEF CleanText
  <2> HIDE DEF part
  <2>2. Begins(part, part)
    BY <1>1 DEF Begins
  <2>3. Occurs(part, part)
    BY <1>1, <2>2, BeginsOccurs
  <2> QED
    BY <1>1, <2>1, <2>3 DEF part
<1>3. CASE ~Revised(p)
  <2>1. CleanText(p) = FoldFields(part, results)
    BY <1>3, FieldsStay DEF CleanText
  <2>2. results \in Seq(Seq(STRING))
    <3> DEFINE W == {r \in ToSet(p.runs) : WholeField(r)}
               fields == Kept(Runs(p), W)
    <3>1. Runs(p) \in Seq(RunShape)
      BY RunsRead
    <3>2. fields \in Seq(RunShape)
      BY <3>1, KeptIn
    <3>3. results = [k \in DOMAIN fields |-> fields[k].text]
      BY DEF FieldResults
    <3> HIDE DEF W, fields, results
    <3>4. /\ DOMAIN fields = 1 .. Len(fields) /\ Len(fields) \in Nat
          /\ \A k \in DOMAIN fields : fields[k] \in RunShape
      BY <3>2
    <3>5. \A k \in DOMAIN fields : fields[k].text \in Seq(STRING)
      BY <3>4 DEF RunShape
    <3>6. results \in [1 .. Len(fields) -> Seq(STRING)]
      BY <3>3, <3>4, <3>5
    <3> QED
      BY <3>4, <3>6, SeqDef
  <2> HIDE DEF part, results
  <2>3. part \in Seq(Tokens) /\ results \in Seq(Seq(Tokens))
    <3>1. STRING \subseteq Tokens
      BY DEF Tokens
    <3>2. ASSUME NEW s \in Seq(STRING) PROVE s \in Seq(Tokens)
      BY <3>1, SequencesWiden
    <3>3. /\ DOMAIN results = 1 .. Len(results) /\ Len(results) \in Nat
          /\ \A k \in DOMAIN results : results[k] \in Seq(STRING)
      BY <2>2
    <3>4. \A k \in DOMAIN results : results[k] \in Seq(Tokens)
      BY <3>2, <3>3
    <3>5. results \in Seq(Seq(Tokens))
      <4> DEFINE T == Seq(Tokens)
      <4>1. \A k \in DOMAIN results : results[k] \in T
        BY <3>4
      <4> HIDE DEF T
      <4>2. results \in Seq(T)
        BY <2>2, <4>1
      <4> QED
        BY <4>2 DEF T
    <3> QED
      BY <1>1, <3>2, <3>5
  <2>4. FoldFields(part, results) \in Seq(Tokens) /\ Begins(FoldFields(part, results), part)
    BY <1>1, <2>3, FoldsKeep
  <2> DEFINE text == FoldFields(part, results)
  <2> HIDE DEF text
  <2>5. text \in Seq(Tokens) /\ Begins(text, part)
    BY <2>4 DEF text
  <2>6. Occurs(part, text)
    BY <2>3, <2>5, BeginsOccurs
  <2>7. text # <<>>
    <3>1. Len(part) \in Nat /\ Len(part) # 0
      BY <1>1, EmptySeq
    <3>2. Len(text) \in Nat /\ Len(part) <= Len(text)
      BY <2>5 DEF Begins
    <3> QED
      BY <3>1, <3>2, EmptySeq
  <2> QED
    BY <2>1, <2>6, <2>7 DEF text, part
<1> QED
  BY <1>2, <1>3

\* A paragraph of the content that has text heads a block or is in one.
LEMMA ContentInBlock ==
  ASSUME NEW d \in Seq(ParagraphShape), NEW i \in Content(d), Resulting(d[i]) # <<>>
  PROVE  \E k \in DOMAIN Blocks(d) :
           \/ Blocks(d)[k].head = i
           \/ \E j \in DOMAIN Blocks(d)[k].spans :
                Blocks(d)[k].spans[j] = i /\ Blocks(d)[k].text[j] = CleanText(d[i])
<1> DEFINE content == Content(d)
           heads == {n \in content : IsBoundary(d[n])}
           preamble == {n \in content : HeadOf(heads, n) = 0}
           front == IF \E n \in preamble : Opens(d[n]) THEN <<0>> ELSE <<>>
           rest == InOrder(d, heads)
           clauses == front \o rest
           Belongs(h) == {n \in content \ heads : HeadOf(heads, n) = h /\ CleanText(d[n]) # <<>>}
           Members(h) == InOrder(d, Belongs(h))
           Block(h) == [head |-> h, heading |-> IF h = 0 THEN <<>> ELSE HeadingLabel(d[h]),
                        text |-> [j \in DOMAIN Members(h) |-> CleanText(d[Members(h)[j]])],
                        spans |-> Members(h)]
<1>1. Blocks(d) = [k \in DOMAIN clauses |-> Block(clauses[k])]
  BY DEF Blocks, BlocksOf, ClauseBlock
<1>2. i \in DOMAIN d /\ d[i] \in ParagraphShape /\ content \subseteq DOMAIN d
  <2>1. Content(d) \subseteq DOMAIN d
    BY DEF Content, Readable
  <2> QED
    BY <2>1
<1>3. CleanText(d[i]) # <<>>
  BY <1>2, AcceptedIsRead
<1>4. rest \in Seq(DOMAIN d) /\ ToSet(rest) = heads
  <2>1. rest \in Seq(DOMAIN d) /\ ToSet(rest) = DOMAIN d \cap heads
    BY Placed
  <2> QED
    BY <1>2, <2>1
<1>5. ASSUME NEW h, h \in heads \/ (h = 0 /\ \E n \in preamble : Opens(d[n]))
      PROVE  \E k \in DOMAIN clauses : clauses[k] = h
  <2> DEFINE S == {0} \cup DOMAIN d
             open == \E n \in preamble : Opens(d[n])
  <2> HIDE DEF open
  <2>1. front = IF open THEN <<0>> ELSE <<>>
    BY DEF open
  <2> HIDE DEF heads, preamble, front
  <2>2. front \in Seq(S) /\ (open => 1 \in DOMAIN front /\ front[1] = 0)
    <3>1. <<0>> \in Seq(S) /\ <<>> \in Seq(S) /\ 1 \in DOMAIN <<0>> /\ <<0>>[1] = 0
      OBVIOUS
    <3> HIDE DEF S
    <3> QED
      BY <2>1, <3>1
  <2>3. rest \in Seq(S)
    BY <1>4
  <2> HIDE DEF S, rest
  <2>4. \A k \in DOMAIN front : k \in DOMAIN clauses /\ clauses[k] = front[k]
    BY <2>2, <2>3
  <2>5. \A k \in DOMAIN rest : Len(front) + k \in DOMAIN clauses /\ clauses[Len(front) + k] = rest[k]
    BY <2>2, <2>3
  <2> HIDE DEF clauses
  <2>6. CASE h \in heads
    <3>1. PICK k \in DOMAIN rest : rest[k] = h
      BY <1>4, <2>6 DEF ToSet
    <3> QED
      BY <2>5, <3>1
  <2>7. CASE h = 0 /\ open
    BY <2>2, <2>4, <2>7
  <2> QED
    BY <1>5, <2>6, <2>7 DEF open
<1> HIDE DEF clauses
<1>6. CASE i \in heads
  <2>1. PICK k \in DOMAIN clauses : clauses[k] = i
    BY <1>5, <1>6
  <2> HIDE DEF Members
  <2>2. k \in DOMAIN Blocks(d) /\ Blocks(d)[k].head = i
    BY <1>1, <2>1
  <2> QED
    BY <2>2
<1>7. CASE i \notin heads
  <2> DEFINE h == HeadOf(heads, i)
  <2>1. h \in heads \/ h = 0
    <3> DEFINE before == {n \in heads : n <= i}
    <3>1. h = IF before = {} THEN 0 ELSE CHOOSE n \in before : \A g \in before : g <= n
      BY DEF HeadOf
    <3>2. before \in SUBSET (1 .. Len(d)) /\ Len(d) \in Nat
      BY <1>2
    <3>3. ASSUME before # {} PROVE h \in before
      <4> HIDE DEF before, h
      <4>1. \E n \in before : \A g \in before : g <= n
        BY <3>2, <3>3, GreatestNumber
      <4> QED
        BY <3>1, <3>3, <4>1
    <3> QED
      BY <3>1, <3>3
  <2>2. h = 0 => i \in preamble /\ Opens(d[i])
    BY DEF Opens
  <2>3. PICK k \in DOMAIN clauses : clauses[k] = h
    BY <1>5, <2>1, <2>2
  <2>4. i \in Belongs(h)
    BY <1>3, <1>7
  <2> HIDE DEF heads, h, Belongs
  <2>5. ToSet(Members(h)) = DOMAIN d \cap Belongs(h)
    BY Placed
  <2>6. PICK j \in DOMAIN Members(h) : Members(h)[j] = i
    BY <1>2, <2>4, <2>5 DEF ToSet
  <2> HIDE DEF Members
  <2>7. Blocks(d)[k] = Block(h) /\ k \in DOMAIN Blocks(d)
    BY <1>1, <2>3
  <2>8. Block(h).spans = Members(h) /\ Block(h).text[j] = CleanText(d[i])
    BY <2>6
  <2> QED
    BY <2>6, <2>7, <2>8
<1> QED
  BY <1>6, <1>7

-----------------------------------------------------------------------------
(* What is told.                                                           *)

\* A run that is not walked stops at its first stop.
LEMMA StopIs ==
  ASSUME NEW r \in RunShape, ~Walked(r)
  PROVE  FirstStop(r) \in Stops /\ FirstStop(r) \in ToSet(r.path)
<1> DEFINE stops == Kept(r.path, Stops)
<1>1. r.path \in Seq(STRING)
  BY DEF RunShape
<1>2. stops \in Seq(STRING) /\ ToSet(stops) = ToSet(r.path) \cap Stops
  BY <1>1, KeptIn
<1>3. PICK w \in ToSet(r.path) : w \in Stops
  BY AroundIs DEF Walked
<1> HIDE DEF stops
<1>4. stops # <<>>
  BY <1>2, <1>3 DEF ToSet
<1>5. 1 \in DOMAIN stops
  BY <1>2, <1>4, EmptySeq
<1>6. stops[1] \in ToSet(stops)
  BY <1>5 DEF ToSet
<1>7. FirstStop(r) = stops[1]
  BY DEF FirstStop, stops
<1> QED
  BY <1>2, <1>6, <1>7

\* A run of a plain mode, in no field, is in no insertion and no deletion.
LEMMA PlainMode ==
  ASSUME NEW r \in RunShape, Mode(r) = "plain", ~Around(r, {"field"})
  PROVE  ~Around(r, {"ins", "del"})
<1> DEFINE m == Kept(r.path, {"ins", "del", "field"})
<1>1. r.path \in Seq(STRING)
  BY DEF RunShape
<1>2. m \in Seq(STRING) /\ ToSet(m) = ToSet(r.path) \cap {"ins", "del", "field"}
  BY <1>1, KeptIn
<1>3. Mode(r) = IF m = <<>> \/ Last(m) = "field" THEN "plain" ELSE Last(m)
  BY DEF Mode, Innermost
<1> HIDE DEF m
<1>4. m # <<>> => Last(m) \in ToSet(m)
  <2>1. m # <<>> => Len(m) \in DOMAIN m
    BY <1>2, EmptySeq
  <2> QED
    BY <2>1 DEF Last, ToSet
<1>5. ~("field" \in ToSet(r.path))
  BY AroundIs
<1>6. m = <<>>
  <2> SUFFICES ASSUME m # <<>> PROVE FALSE
    OBVIOUS
  <2>1. Last(m) \in {"ins", "del"}
    BY <1>2, <1>4, <1>5
  <2> QED
    BY <1>3, <2>1
<1>7. ToSet(m) = {}
  BY <1>6 DEF ToSet
<1> QED
  BY <1>2, <1>7, AroundIs

\* What the walk does not know is unknown before accepting and after.
LEMMA StoppedUnknown ==
  ASSUME NEW p \in ParagraphShape, p.place \in {"body", "control"}, NEW r \in ToSet(p.runs),
         ~Walked(r), FirstStop(r) = "unknown", r.text # <<>>
  PROVE  Unknown(p)
<1>1. PICK k \in DOMAIN p.runs : p.runs[k] = r
  BY DEF ToSet
<1> QED
  BY <1>1 DEF Unknown

\* What is not aside has text, is not hidden, and is in a place that is read
\* or not known.
LEMMA NotAside ==
  ASSUME NEW p \in ParagraphShape, NEW r \in RunShape, ~Aside(p, r)
  PROVE  /\ p.place \in {"body", "control", "unknown"} /\ ~Hidden(p, r)
         /\ Strip(r.text) # <<>> /\ r.text # <<>>
         /\ ~Around(r, {"placeholder", "textbox"})
<1>1. p.place \in Containers
  BY DEF ParagraphShape
<1>2. p.place \in {"body", "control", "unknown"}
  BY <1>1 DEF Containers, Aside
<1>3. ~Hidden(p, r) /\ Strip(r.text) # <<>> /\ ~Around(r, {"placeholder", "textbox"})
  BY DEF Aside
<1>4. Strip(<<>>) = <<>>
  <2>1. <<>> \in Seq(STRING) /\ \A i \in DOMAIN <<>> : <<>>[i] \in Blanks
    OBVIOUS
  <2> QED
    BY <2>1, StripIs
<1> QED
  BY <1>2, <1>3, <1>4

\* What the notes of a reading tell.
LEMMA NotesHave ==
  ASSUME NEW d, NEW i
  PROVE  /\ i \in Content(d) /\ Revised(d[i]) => Note(i, "accepted") \in Notes(d)
         /\ i \in Omitted(d) => Note(0, "listing") \in Notes(d)
         /\ i \in DOMAIN d \ Omitted(d) /\ Unknown(d[i]) => Note(0, "unread") \in Notes(d)
<1> DEFINE leftOut == Omitted(d)
           accepted(n) == IF Revised(d[n]) THEN {Note(n, "accepted")} ELSE {}
           struckOut(n) == IF Revised(d[n]) /\ Resulting(d[n]) = <<>> THEN {Note(n, "struck")} ELSE {}
           marks(n) == IF d[n].mark \in {"ins", "del"} THEN {Note(n, "mark")} ELSE {}
           told(n) == accepted(n) \cup struckOut(n) \cup marks(n)
           listings == {Note(0, "listing") : n \in leftOut}
           unread == {Note(0, "unread") : n \in {j \in DOMAIN d \ leftOut : Unknown(d[j])}}
           ofContent == UNION {told(n) : n \in Content(d)}
<1>0. Notes(d) = ofContent \cup listings \cup unread
  BY Zenon DEF Notes
<1>1. ASSUME NEW x, x \in listings \/ x \in unread \/ \E n \in Content(d) : x \in accepted(n)
      PROVE  x \in Notes(d)
  <2>1. \A n : accepted(n) \subseteq told(n)
    OBVIOUS
  <2> HIDE DEF accepted, told, ofContent, listings, unread
  <2>2. CASE x \in listings \/ x \in unread
    BY <1>0, <2>2
  <2>3. ASSUME NEW n \in Content(d), x \in accepted(n) PROVE x \in Notes(d)
    <3>1. x \in told(n)
      BY <2>1, <2>3
    <3>2. x \in ofContent
      BY <3>1, Zenon DEF ofContent
    <3> QED
      BY <1>0, <3>2
  <2> QED
    BY <1>1, <2>2, <2>3
<1>2. i \in Content(d) /\ Revised(d[i]) => Note(i, "accepted") \in accepted(i)
  BY Zenon
<1>3. i \in leftOut => Note(0, "listing") \in listings
  BY Zenon
<1>4. i \in DOMAIN d \ leftOut /\ Unknown(d[i]) => Note(0, "unread") \in unread
  BY Zenon
<1> HIDE DEF accepted, listings, unread
<1> QED
  BY <1>1, <1>2, <1>3, <1>4, Zenon

\* Of each change a note tells, or it is within what is moved away.
LEMMA ChangeTold ==
  ASSUME NEW d \in Seq(ParagraphShape), NEW i \in DOMAIN d, NEW r \in ToSet(d[i].runs),
         Around(r, {"ins", "del"}), ~Aside(d[i], r), ~WholeField(r), ~Overlooked(r),
         ~Around(r, {"moveFrom"})
  PROVE  Note(i, "accepted") \in Notes(d) \/ i \in Omitted(d) \/ Unknown(d[i])
<1> DEFINE p == d[i]
<1>1. p \in ParagraphShape
  OBVIOUS
<1>2. r \in RunShape
  BY <1>1 DEF ParagraphShape, ToSet
<1> HIDE DEF p
<1>3. /\ p.place \in {"body", "control", "unknown"} /\ ~Hidden(p, r) /\ r.text # <<>>
      /\ ~Around(r, {"placeholder", "textbox"})
  <2>1. ~Aside(p, r)
    BY DEF p
  <2> QED
    BY <1>1, <1>2, <2>1, NotAside
<1>4. CASE p.place = "unknown"
  BY <1>4 DEF Unknown, p
<1>5. CASE p.place # "unknown" /\ ~Walked(r)
  <2>1. FirstStop(r) \in Stops /\ FirstStop(r) \in ToSet(r.path)
    BY <1>2, <1>5, StopIs
  <2>2. FirstStop(r) = "unknown"
    BY <1>3, <2>1, AroundIs DEF Stops
  <2>3. Unknown(p)
    BY <1>1, <1>3, <1>5, <2>2, StoppedUnknown DEF p
  <2> QED
    BY <2>3 DEF p
<1>6. CASE p.place # "unknown" /\ Walked(r)
  <2>1. Mode(r) # "plain"
    BY <1>2, PlainMode DEF WholeField
  <2>2. Legible(r)
    <3>1. Mode(r) \in {"ins", "del"} /\ Mode(r) \in ToSet(r.path)
      BY <1>2, <2>1, RunModes
    <3>2. Mode(r) = "del" => Around(r, {"del"})
      BY <3>1, AroundIs
    <3>3. Around(r, {"del"}) => Mode(r) = "del"
      BY <3>1 DEF Overlooked
    <3> QED
      BY <1>3, <3>2, <3>3 DEF Legible
  <2>3. r \in ToSet(Runs(p))
    BY <1>1, <1>3, <1>6, <2>2, RunsRead DEF p
  <2>4. Revised(p)
    BY <2>1, <2>3 DEF Revised, ToSet
  <2>5. ~Bare(p)
    BY <2>4 DEF Bare
  <2>6. i \in Omitted(d) \/ i \in Content(d)
    BY <1>3, <1>6, <2>5 DEF Content, Readable, p
  <2>7. i \in Content(d) => Note(i, "accepted") \in Notes(d)
    BY <2>4, NotesHave DEF p
  <2> QED
    BY <2>6, <2>7
<1> QED
  BY <1>4, <1>5, <1>6

\* A run of an accepted paragraph was there before.
LEMMA WasThere ==
  ASSUME NEW p \in ParagraphShape, NEW q \in ToSet(AcceptParagraph(p).runs)
  PROVE  \E r \in ToSet(p.runs) : /\ r \in RunShape /\ Accepted(r) /\ q = AcceptRun(r)
<1>1. PICK r \in ToSet(p.runs) : Accepted(r) /\ q = AcceptRun(r)
  BY ParagraphAccepted
<1>2. r \in RunShape
  BY DEF ParagraphShape, ToSet
<1> QED
  BY <1>1, <1>2

\* Of what is in the accepted document, the model read it or a note tells.
LEMMA ReadOrTold ==
  ASSUME NEW d \in Seq(ParagraphShape), NEW i \in DOMAIN d,
         NEW q \in ToSet(AcceptParagraph(d[i]).runs), ~Aside(AcceptParagraph(d[i]), q)
  PROVE  \/ Walked(q) /\ i \in Content(d) /\ Resulting(d[i]) # <<>>
         \/ Unknown(AcceptParagraph(d[i])) /\ Note(0, "unread") \in Notes(d)
         \/ i \in Omitted(d) /\ Note(0, "listing") \in Notes(d)
<1> DEFINE p == d[i]
           now == AcceptParagraph(p)
<1>1. /\ p \in ParagraphShape /\ now \in ParagraphShape /\ now.place = p.place
  <2>1. p \in ParagraphShape
    OBVIOUS
  <2> HIDE DEF p
  <2> QED
    BY <2>1, ParagraphAccepted
<1>2. PICK r \in ToSet(p.runs) : /\ r \in RunShape /\ Accepted(r) /\ q = AcceptRun(r)
  BY <1>1, WasThere
<1>3. /\ q \in RunShape /\ q.text = r.text /\ q \in ToSet(now.runs)
      /\ Hidden(now, q) <=> Hidden(p, r)
      /\ Walked(q) <=> Walked(r)
      /\ FirstStop(q) = FirstStop(r)
  BY <1>1, <1>2, RunAccepted, AcceptedRun, HiddenSame
<1>4. ~Aside(now, q)
  OBVIOUS
<1> HIDE DEF p, now
<1>5. /\ now.place \in {"body", "control", "unknown"} /\ ~Hidden(now, q)
      /\ Strip(q.text) # <<>> /\ q.text # <<>>
      /\ ~Around(q, {"placeholder", "textbox"})
  BY <1>1, <1>3, <1>4, NotAside
<1>6. i \in Omitted(d) => Note(0, "listing") \in Notes(d)
  BY NotesHave
<1>7. i \notin Omitted(d) /\ Unknown(p) => Note(0, "unread") \in Notes(d)
  BY NotesHave DEF p
<1>8. CASE p.place = "unknown"
  <2>1. Unknown(p) /\ Unknown(now)
    BY <1>1, <1>8 DEF Unknown
  <2> QED
    BY <1>6, <1>7, <2>1 DEF now, p
<1>9. CASE p.place # "unknown" /\ ~Walked(q)
  <2>1. FirstStop(q) \in Stops /\ FirstStop(q) \in ToSet(q.path)
    BY <1>3, <1>9, StopIs
  <2>2. "moveFrom" \notin ToSet(q.path)
    <3>1. Accepted(q)
      BY <1>2, AcceptedRun
    <3> QED
      BY <3>1, AroundIs DEF Accepted
  <2>3. FirstStop(q) = "unknown"
    BY <1>5, <2>1, <2>2, AroundIs DEF Stops
  <2>4. Unknown(p) /\ Unknown(now)
    BY <1>1, <1>2, <1>3, <1>5, <1>9, <2>3, StoppedUnknown
  <2> QED
    BY <1>6, <1>7, <2>4 DEF now, p
<1>10. CASE p.place # "unknown" /\ Walked(q)
  <2>1. Resulting(p) # <<>>
    BY <1>1, <1>2, <1>3, <1>5, <1>10, ResultingInked
  <2>2. ~Bare(p)
    BY <2>1 DEF Bare
  <2>3. i \in Omitted(d) \/ i \in Content(d)
    BY <1>1, <1>5, <1>10, <2>2 DEF Content, Readable, p
  <2> QED
    BY <1>6, <1>10, <2>1, <2>3 DEF p
<1> QED
  BY <1>8, <1>9, <1>10

\* A move that no deletion is around is counted when it is accepted.
LEMMA MoveCounted ==
  ASSUME NEW r \in RunShape, Around(r, {"moveFrom", "moveTo"}), ~MovesDeleted(r)
  PROVE  CountedMove(r)
<1> DEFINE Moves == {"moveFrom", "moveTo"}
           Changes == {k \in DOMAIN r.path : r.path[k] \in Moves \cup {"del"}}
<1>1. Changes \in SUBSET Nat /\ DOMAIN r.path = 1 .. Len(r.path) /\ Len(r.path) \in Nat
  BY DEF RunShape
<1>2. Changes # {}
  BY DEF Around
<1>3. PICK k \in Changes : \A j \in Changes : k <= j
  <2> HIDE DEF Changes
  <2> QED
    BY <1>1, <1>2, LeastNumber
<1>4. k \in DOMAIN r.path /\ r.path[k] \in Moves \cup {"del"}
  BY <1>3
<1>5. \A j \in 1 .. k - 1 : r.path[j] \notin {"del", "moveFrom"}
  <2>1. ASSUME NEW j \in 1 .. k - 1 PROVE j \in DOMAIN r.path /\ ~(k <= j)
    BY <1>1, <1>4
  <2> QED
    BY <1>3, <2>1
<1>6. r.path[k] # "del"
  <2>1. ASSUME NEW j \in DOMAIN r.path, r.path[j] \in Moves, r.path[k] = "del" PROVE k < j
    <3>1. k <= j /\ k # j
      BY <1>3, <2>1
    <3> QED
      BY <1>1, <1>4, <3>1
  <2> QED
    BY <1>4, <2>1 DEF MovesDeleted
<1> QED
  BY <1>4, <1>5, <1>6 DEF CountedMove

\* Nothing a reader of the contract sees is left out unsaid, and no change is
\* accepted unsaid, but for the three kinds that NothingUnsaid names: whatever
\* the length of the document, its runs, wrappers and tables of contents.
THEOREM NothingUnsaidHolds == ReadingSpec => []NothingUnsaid
<1>1. ReadingInv => NothingUnsaid
  <2> SUFFICES ASSUME ReadingInv, step = "done" PROVE NothingUnsaid
    BY DEF NothingUnsaid
  <2>1. /\ read = Reading(upload) /\ report = Report(upload) /\ operative = AcceptAll(upload)
        /\ upload \in Seq(ParagraphShape)
    BY UploadShape DEF ReadingInv
  <2>2. read.notes = Notes(upload) /\ read.blocks = Blocks(upload)
    BY <2>1 DEF Reading
  <2>3. DOMAIN operative = DOMAIN upload
        /\ \A i \in DOMAIN upload : upload[i] \in ParagraphShape /\ operative[i] = AcceptParagraph(upload[i])
    BY <2>1, AllAccepted
  <2>4. ASSUME NEW i \in DOMAIN upload, NEW k \in DOMAIN upload[i].runs,
               Around(upload[i].runs[k], {"ins", "del"}), ~Aside(upload[i], upload[i].runs[k]),
               ~WholeField(upload[i].runs[k]), ~Overlooked(upload[i].runs[k])
        PROVE  Told(i) \/ Around(upload[i].runs[k], {"moveFrom"})
    <3>1. upload[i].runs[k] \in ToSet(upload[i].runs)
      BY DEF ToSet
    <3> QED
      BY <2>1, <2>2, <2>4, <3>1, ChangeTold DEF Told
  <2>5. ASSUME NEW i \in DOMAIN upload, NEW k \in DOMAIN upload[i].runs,
               Around(upload[i].runs[k], {"moveFrom", "moveTo"}), ~MovesDeleted(upload[i].runs[k])
        PROVE  "moves" \in report
    <3>1. upload[i].runs[k] \in RunShape
      BY <2>3 DEF ParagraphShape
    <3>2. CountedMove(upload[i].runs[k])
      BY <2>5, <3>1, MoveCounted
    <3> QED
      BY <2>1, <3>2 DEF Report
  <2>6. ASSUME NEW i \in DOMAIN upload, NEW q \in ToSet(operative[i].runs), ~Aside(operative[i], q)
        PROVE  \/ InBlock(i) /\ Walked(q)
               \/ Unknown(operative[i]) /\ Note(0, "unread") \in read.notes
               \/ i \in Omitted(upload) /\ Note(0, "listing") \in read.notes
    <3>1. \/ Walked(q) /\ i \in Content(upload) /\ Resulting(upload[i]) # <<>>
          \/ Unknown(operative[i]) /\ Note(0, "unread") \in read.notes
          \/ i \in Omitted(upload) /\ Note(0, "listing") \in read.notes
      BY <2>1, <2>2, <2>3, <2>6, ReadOrTold
    <3>2. ASSUME i \in Content(upload), Resulting(upload[i]) # <<>> PROVE InBlock(i)
      <4>1. PICK k \in DOMAIN Blocks(upload) :
              \/ Blocks(upload)[k].head = i
              \/ \E j \in DOMAIN Blocks(upload)[k].spans :
                   /\ Blocks(upload)[k].spans[j] = i
                   /\ Blocks(upload)[k].text[j] = CleanText(upload[i])
        BY <2>1, <3>2, ContentInBlock
      <4>2. Occurs(Resulting(operative[i]), CleanText(upload[i]))
        BY <2>3, <3>2, AcceptedIsRead, ResultingIs
      <4> QED
        BY <2>2, <4>1, <4>2 DEF InBlock
    <3> QED
      BY <3>1, <3>2
  <2>7. ASSUME NEW i \in DOMAIN operative, NEW k \in DOMAIN operative[i].runs
        PROVE  operative[i].runs[k] \in ToSet(operative[i].runs)
    BY DEF ToSet
  <2> QED
    BY <2>3, <2>4, <2>5, <2>6, <2>7 DEF NothingUnsaid
<1> QED
  BY <1>1, ReadingSteps, PTL

=============================================================================
