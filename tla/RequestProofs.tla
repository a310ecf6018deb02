---------------------------- MODULE RequestProofs ----------------------------
(***************************************************************************)
(* Theorems about the requests of a client: the idempotency window, for any *)
(* requests, client keys, clock and bucket width; the review panel, for    *)
(* any set of reviews, any number of reloads and of requests out at once;  *)
(* and the counters their spend goes through, for any reviews, clients,    *)
(* days, prices and caps.                                                  *)
(***************************************************************************)
EXTENDS IdempotencyWindow, ReviewPanel, DailySpend, SequenceTheorems, TLAPS

-----------------------------------------------------------------------------
(* The idempotency window.                                                 *)

\* Buckets are numbered from zero, grow with the clock, and the previous
\* bucket is a function of the current one.
LEMMA Buckets ==
  /\ \A t \in Nat : Bucket(t) \in Nat
  /\ \A t, u \in Nat : t <= u => Bucket(t) <= Bucket(u)
  /\ \A t, u \in Nat : Bucket(t) = Bucket(u) => Bucket(t - Width) = Bucket(u - Width)
<1>1. ASSUME NEW t \in Nat PROVE Bucket(t) \in Nat
  BY <1>1, WidthAssumption DEF Bucket
<1>2. ASSUME NEW t \in Nat, NEW u \in Nat, t <= u PROVE Bucket(t) <= Bucket(u)
  BY <1>2, WidthAssumption DEF Bucket
<1>3. ASSUME NEW t \in Nat, NEW u \in Nat, Bucket(t) = Bucket(u)
      PROVE  Bucket(t - Width) = Bucket(u - Width)
  <2>1. ASSUME NEW x \in Int PROVE (x - Width) \div Width = (x \div Width) - 1
    BY <2>1, WidthAssumption, Z3
  <2> QED
    BY <1>3, <2>1 DEF Bucket
<1> QED
  BY <1>1, <1>2, <1>3

\* A row answers a probe at time t.
Answers(row, key, t) ==
  row.key \in {key, Derived(Bucket(t)), Derived(Bucket(t - Width))}

\* A probe that finds nothing: no row has any of the candidate keys.
LEMMA NothingFound ==
  ASSUME NEW key, Existing(key) = {}
  PROVE  \A row \in table : ~Answers(row, key, now)
<1> DEFINE keys == Candidates(key, now)
<1>1. DOMAIN keys = 1 .. 3 /\ keys[1] = key /\ keys[2] = Derived(Bucket(now))
      /\ keys[3] = Derived(Bucket(now - Width))
  BY DEF Candidates
<1>2. \A row \in table : row.key # keys[1]
  BY <1>1 DEF Existing
<1>3. Under(keys[1]) = {}
  BY <1>2 DEF Under
<1>4. \A row \in table : row.key # keys[2]
  <2> SUFFICES ASSUME NEW row \in table, row.key = keys[2] PROVE row \in Existing(key)
    OBVIOUS
  <2>1. \A j \in 1 .. 2 - 1 : Under(keys[j]) = {}
    BY <1>3
  <2> QED
    BY <1>1, <2>1 DEF Existing
<1>5. Under(keys[2]) = {}
  BY <1>4 DEF Under
<1>6. \A row \in table : row.key # keys[3]
  <2> SUFFICES ASSUME NEW row \in table, row.key = keys[3] PROVE row \in Existing(key)
    OBVIOUS
  <2>1. \A j \in 1 .. 3 - 1 : Under(keys[j]) = {}
    BY <1>3, <1>5
  <2> QED
    BY <1>1, <2>1 DEF Existing
<1> QED
  BY <1>1, <1>2, <1>4, <1>6 DEF Answers

\* What a probe finds has one of the candidate keys.
LEMMA FoundAnswers ==
  ASSUME NEW key, NEW row \in Existing(key)
  PROVE  row \in table /\ Answers(row, key, now)
<1> DEFINE keys == Candidates(key, now)
<1>1. DOMAIN keys = 1 .. 3 /\ keys[1] = key /\ keys[2] = Derived(Bucket(now))
      /\ keys[3] = Derived(Bucket(now - Width))
  BY DEF Candidates
<1>2. row \in table /\ \E i \in DOMAIN keys : row.key = keys[i]
  BY DEF Existing
<1> QED
  BY <1>1, <1>2 DEF Answers

\* A request past the start has a key, and past the route's probe a review.
Named ==
  \A q \in Requests :
    /\ req[q].pc # "new" => req[q].key \in Keys
    /\ req[q].pc \in {"submit", "create"} => req[q].review \in Requests

\* The row that gave a request another one's review still stands.
Found ==
  \A q \in Requests :
    req[q].pc = "submit" /\ req[q].review # q =>
      \E row \in table, t \in Nat :
        Bucket(t) = req[q].routed /\ Answers(row, req[q].key, t)

\* ... and submit_review missed it only in a later bucket.
Missed ==
  \A q \in Requests :
    req[q].pc = "create" /\ req[q].review # q =>
      req[q].routed < Bucket(req[q].probed)

\* The request that created a row is over.
CreatorsDone == \A row \in table : req[row.by].pc = "done"

Inv ==
  TypeOK /\ Named /\ Found /\ Missed /\ CreatorsDone /\ SharedReviewExplained

\* Before the first request the table is empty.
LEMMA InitInv == Init => Inv
<1> SUFFICES ASSUME Init PROVE Inv
  OBVIOUS
<1>1. \A q \in Requests : req[q] = Fresh
  BY DEF Init
<1>2. Fresh \in Request
  BY DEF Fresh, Request
<1>3. Bucket(0) \in Nat
  BY Buckets
<1> QED
  BY <1>1, <1>2, <1>3, WidthAssumption
  DEF Init, Inv, TypeOK, Named, Found, Missed, CreatorsDone,
      SharedReviewExplained, Fresh

\* A request that goes on without touching the table keeps the invariant if
\* what it turned into satisfies it.
LEMMA RequestStep ==
  ASSUME Inv, NEW q \in Requests, NEW new \in Request,
         req[q].pc # "done",
         req' = [req EXCEPT ![q] = new], UNCHANGED <<now, table>>,
         /\ new.at <= now /\ new.routed <= Bucket(now) /\ new.probed <= now
         /\ new.seen \subseteq table,
         new.pc # "new" => new.key \in Keys,
         new.pc \in {"submit", "create"} => new.review \in Requests,
         new.pc = "submit" /\ new.review # q =>
           \E row \in table, t \in Nat :
             Bucket(t) = new.routed /\ Answers(row, new.key, t),
         new.pc = "create" /\ new.review # q => new.routed < Bucket(new.probed)
  PROVE  Inv'
<1>1. /\ req'[q] = new /\ req' \in [Requests -> Request]
      /\ \A p \in Requests : p # q => req'[p] = req[p]
      /\ \A row \in table : row.by # q /\ row.by \in Requests
  BY DEF Inv, TypeOK, CreatorsDone, Rows
<1>2. TypeOK'
  BY <1>1 DEF Inv, TypeOK, Keys, Rows, Request, Bucket
<1>3. Named' /\ Missed'
  BY <1>1 DEF Inv, Named, Missed, Keys, Bucket
<1>4. Found'
  BY <1>1 DEF Inv, Found, Answers
<1>5. CreatorsDone' /\ SharedReviewExplained'
  BY <1>1 DEF Inv, CreatorsDone, SharedReviewExplained, Bucket
<1> QED
  BY <1>2, <1>3, <1>4, <1>5 DEF Inv

\* Every step of a request, and every tick, keeps the invariant.
LEMMA InvStep == Inv /\ [Next]_vars => Inv'
<1> SUFFICES ASSUME Inv, [Next]_vars PROVE Inv'
  OBVIOUS
<1>0. now \in Nat /\ Bucket(now) \in Nat /\ table \subseteq Rows
  BY Buckets, WidthAssumption DEF Inv, TypeOK
<1>1. CASE UNCHANGED vars
  BY <1>1
  DEF vars, Inv, TypeOK, Named, Found, Missed, CreatorsDone, SharedReviewExplained,
      Answers, Bucket, Keys, Rows, Request
<1>2. ASSUME NEW q \in Requests, Resolve(q) PROVE Inv'
  <2>1. PICK key \in {Derived(Bucket(now))} \cup {Supplied(k) : k \in ClientKeys} :
          req' = [req EXCEPT ![q].pc = "route", ![q].key = key, ![q].at = now]
    BY <1>2 DEF Resolve
  <2> DEFINE new == [req[q] EXCEPT !.pc = "route", !.key = key, !.at = now]
  <2>2. key \in Keys
    <3>1. Bucket(now) \in 0 .. Bucket(MaxTime)
      BY <1>0, Buckets, WidthAssumption DEF Inv, TypeOK
    <3> QED
      BY <3>1 DEF Keys
  <2>3. req[q] \in Request /\ req[q].pc = "new"
    BY <1>2 DEF Resolve, Inv, TypeOK
  <2>4. /\ new \in Request /\ new.pc = "route" /\ new.key = key /\ new.at = now
        /\ new.routed = req[q].routed /\ new.probed = req[q].probed
        /\ new.seen = req[q].seen
    BY <1>0, <2>2, <2>3 DEF Request
  <2>5. req' = [req EXCEPT ![q] = new] /\ UNCHANGED <<now, table>>
    BY <1>2, <2>1 DEF Resolve
  <2>6. /\ new.at <= now /\ new.routed <= Bucket(now) /\ new.probed <= now
        /\ new.seen \subseteq table
    BY <1>0, <2>4 DEF Inv, TypeOK
  <2> HIDE DEF new
  <2> QED
    BY <2>2, <2>3, <2>4, <2>5, <2>6, RequestStep
<1>3. ASSUME NEW q \in Requests, RouteProbe(q) PROVE Inv'
  <2>1. PICK review \in {row.review : row \in Existing(req[q].key)}
                       \cup (IF Existing(req[q].key) = {} THEN {q} ELSE {}) :
          req' = [req EXCEPT ![q].pc = "submit", ![q].review = review,
                             ![q].routed = Bucket(now)]
    BY <1>3 DEF RouteProbe
  <2> DEFINE new == [req[q] EXCEPT !.pc = "submit", !.review = review,
                                   !.routed = Bucket(now)]
  <2>2. review # q => \E row \in table : Answers(row, req[q].key, now)
                                         /\ review = row.review
    BY <2>1, FoundAnswers
  <2>3. review \in Requests
    BY <1>0, <2>2 DEF Rows
  <2>4. req[q] \in Request /\ req[q].pc = "route" /\ req[q].key \in Keys
    BY <1>3 DEF RouteProbe, Inv, TypeOK, Named
  <2>5. /\ new \in Request /\ new.pc = "submit" /\ new.key = req[q].key
        /\ new.review = review /\ new.routed = Bucket(now)
        /\ new.at = req[q].at /\ new.probed = req[q].probed
        /\ new.seen = req[q].seen
    BY <1>0, <2>3, <2>4 DEF Request
  <2>6. req' = [req EXCEPT ![q] = new] /\ UNCHANGED <<now, table>>
    BY <1>3, <2>1 DEF RouteProbe
  <2>7. /\ new.at <= now /\ new.routed <= Bucket(now) /\ new.probed <= now
        /\ new.seen \subseteq table
    BY <1>0, <2>5 DEF Inv, TypeOK
  <2>8. new.review # q => \E row \in table, t \in Nat :
                            Bucket(t) = new.routed /\ Answers(row, new.key, t)
    BY <1>0, <2>2, <2>5
  <2> HIDE DEF new
  <2> QED
    BY <2>3, <2>4, <2>5, <2>6, <2>7, <2>8, RequestStep
<1>4. ASSUME NEW q \in Requests, SubmitProbe(q) PROVE Inv'
  <2>1. req[q] \in Request /\ req[q].pc = "submit" /\ req[q].key \in Keys
        /\ req[q].review \in Requests
    BY <1>4 DEF SubmitProbe, Inv, TypeOK, Named
  <2>2. CASE Existing(req[q].key) # {}
    <3> DEFINE new == [req[q] EXCEPT !.pc = "done"]
    <3>1. /\ new \in Request /\ new.pc = "done" /\ new.key = req[q].key
          /\ new.at = req[q].at /\ new.routed = req[q].routed
          /\ new.probed = req[q].probed /\ new.seen = req[q].seen
      BY <2>1 DEF Request
    <3>2. req' = [req EXCEPT ![q] = new] /\ UNCHANGED <<now, table>>
      BY <1>4, <2>2 DEF SubmitProbe
    <3>3. /\ new.at <= now /\ new.routed <= Bucket(now) /\ new.probed <= now
          /\ new.seen \subseteq table
      BY <1>0, <3>1 DEF Inv, TypeOK
    <3> HIDE DEF new
    <3> QED
      BY <2>1, <3>1, <3>2, <3>3, RequestStep
  <2>3. CASE Existing(req[q].key) = {}
    <3> DEFINE new == [req[q] EXCEPT !.pc = "create", !.probed = now, !.seen = table]
    <3>1. /\ new \in Request /\ new.pc = "create" /\ new.key = req[q].key
          /\ new.at = req[q].at /\ new.routed = req[q].routed
          /\ new.review = req[q].review /\ new.probed = now /\ new.seen = table
      BY <1>0, <2>1 DEF Request
    <3>2. req' = [req EXCEPT ![q] = new] /\ UNCHANGED <<now, table>>
      BY <1>4, <2>3 DEF SubmitProbe
    <3>3. /\ new.at <= now /\ new.routed <= Bucket(now) /\ new.probed <= now
          /\ new.seen \subseteq table
      BY <1>0, <3>1 DEF Inv, TypeOK
    <3>4. new.review # q => new.routed < Bucket(new.probed)
      <4> SUFFICES ASSUME req[q].review # q PROVE req[q].routed < Bucket(now)
        BY <3>1
      <4>1. PICK row \in table, t \in Nat :
              Bucket(t) = req[q].routed /\ Answers(row, req[q].key, t)
        BY <2>1 DEF Inv, Found
      <4>2. ~Answers(row, req[q].key, now)
        BY <2>3, NothingFound
      <4>3. Bucket(t) # Bucket(now)
        <5> SUFFICES ASSUME Bucket(t) = Bucket(now) PROVE FALSE
          OBVIOUS
        <5>1. Bucket(t - Width) = Bucket(now - Width)
          BY <1>0, Buckets
        <5> QED
          BY <4>1, <4>2, <5>1 DEF Answers
      <4>4. req[q].routed <= Bucket(now) /\ req[q].routed \in Nat
        BY <2>1 DEF Inv, TypeOK, Request
      <4> QED
        BY <1>0, <4>1, <4>3, <4>4
    <3> HIDE DEF new
    <3> QED
      BY <2>1, <3>1, <3>2, <3>3, <3>4, RequestStep
  <2> QED
    BY <2>2, <2>3
<1>5. ASSUME NEW q \in Requests, CreateRefused(q) PROVE Inv'
  <2> DEFINE new == [req[q] EXCEPT !.pc = "done"]
  <2>1. req[q] \in Request /\ req[q].pc = "create" /\ req[q].key \in Keys
    BY <1>5 DEF CreateRefused, Inv, TypeOK, Named
  <2>2. /\ new \in Request /\ new.pc = "done" /\ new.key = req[q].key
        /\ new.at = req[q].at /\ new.routed = req[q].routed
        /\ new.probed = req[q].probed /\ new.seen = req[q].seen
    BY <2>1 DEF Request
  <2>3. req' = [req EXCEPT ![q] = new] /\ UNCHANGED <<now, table>>
    BY <1>5 DEF CreateRefused
  <2>4. /\ new.at <= now /\ new.routed <= Bucket(now) /\ new.probed <= now
        /\ new.seen \subseteq table
    BY <1>0, <2>2 DEF Inv, TypeOK
  <2> HIDE DEF new
  <2> QED
    BY <2>1, <2>2, <2>3, <2>4, RequestStep
<1>6. ASSUME NEW q \in Requests, CreateRow(q) PROVE Inv'
  <2> DEFINE new == [key |-> req[q].key, review |-> req[q].review, by |-> q]
  <2>1. /\ req[q] \in Request /\ req[q].pc = "create" /\ req[q].key \in Keys
        /\ req[q].review \in Requests
    BY <1>6 DEF CreateRow, Inv, TypeOK, Named
  <2>2. /\ new \in Rows /\ new.by = q /\ new.review = req[q].review
        /\ table' = table \cup {new} /\ now' = now
    BY <1>6, <2>1 DEF CreateRow, Rows
  <2>3. /\ req' \in [Requests -> Request] /\ req'[q].pc = "done"
        /\ \A p \in Requests :
             /\ p # q => req'[p] = req[p]
             /\ req'[p].key = req[p].key /\ req'[p].at = req[p].at
             /\ req'[p].routed = req[p].routed /\ req'[p].probed = req[p].probed
             /\ req'[p].seen = req[p].seen
    BY <1>6, <2>1 DEF CreateRow, Inv, TypeOK, Request
  <2> HIDE DEF new
  <2>4. TypeOK'
    <3>1. table' \subseteq Rows /\ now' \in 0 .. MaxTime
      BY <2>2 DEF Inv, TypeOK
    <3> QED
      BY <2>2, <2>3, <3>1 DEF Inv, TypeOK, Rows, Keys, Request, Bucket
  <2>5. Named' /\ Missed'
    BY <2>1, <2>2, <2>3 DEF Inv, Named, Missed, Keys, Bucket
  <2>6. Found'
    BY <2>2, <2>3 DEF Inv, Found, Answers, Bucket
  <2>7. CreatorsDone'
    BY <1>0, <2>2, <2>3 DEF Inv, CreatorsDone, Rows
  <2>8. SharedReviewExplained'
    <3>1. req[q].review # q => req[q].routed < Bucket(req[q].probed)
      BY <2>1 DEF Inv, Missed
    <3> QED
      BY <1>0, <2>2, <2>3, <3>1 DEF Inv, SharedReviewExplained, Bucket, Rows
  <2> QED
    BY <2>4, <2>5, <2>6, <2>7, <2>8 DEF Inv
<1>7. CASE Tick
  <2>1. /\ now' = now + 1 /\ now' \in 0 .. MaxTime /\ UNCHANGED <<table, req>>
    BY <1>0, <1>7, WidthAssumption DEF Tick, Inv, TypeOK
  <2>2. Bucket(now) <= Bucket(now') /\ Bucket(now') \in Nat
    BY <1>0, <2>1, Buckets
  <2>3. TypeOK'
    <3>1. \A p \in Requests : /\ req[p].at \in Nat /\ req[p].routed \in Nat
                              /\ req[p].probed \in Nat
      BY DEF Inv, TypeOK, Request
    <3>2. \A p \in Requests :
            /\ req[p].at <= now + 1 /\ req[p].routed <= Bucket(now')
            /\ req[p].probed <= now + 1 /\ req[p].seen \subseteq table
      BY <1>0, <2>2, <3>1 DEF Inv, TypeOK
    <3>3. req \in [Requests -> Request] /\ table \subseteq Rows
      BY DEF Inv, TypeOK
    <3> QED
      BY <2>1, <3>2, <3>3 DEF TypeOK, Rows, Keys, Request, Bucket
  <2>4. Named' /\ Found' /\ Missed' /\ CreatorsDone' /\ SharedReviewExplained'
    BY <2>1
    DEF Inv, Named, Found, Missed, CreatorsDone, SharedReviewExplained, Answers,
        Keys, Bucket
  <2> QED
    BY <2>3, <2>4 DEF Inv
<1> QED
  BY <1>1, <1>2, <1>3, <1>4, <1>5, <1>6, <1>7 DEF Next

\* The invariant holds throughout.
LEMMA Invariant == Spec => []Inv
  BY InitInv, InvStep, PTL DEF Spec

\* Every variable keeps its type, and no request was answered from the future.
THEOREM IdempotencyTypeCorrect == Spec => []TypeOK
<1>1. Inv => TypeOK
  BY DEF Inv
<1> QED
  BY Invariant, <1>1, PTL

\* A review gets a second submission row only from a request whose two
\* probes, the route's and submit_review's, a bucket edge divides.
THEOREM SecondRowNeedsEdge == Spec => []SharedReviewExplained
<1>1. Inv => SharedReviewExplained
  BY DEF Inv
<1> QED
  BY Invariant, <1>1, PTL

\* A derived key is that of the bucket it was resolved in, a row has its
\* creator's key, and what submit_review saw when it probed answered it not.
Probed ==
  /\ \A q \in Requests :
       /\ req[q].pc = "new" => req[q].seen = {}
       /\ req[q].pc # "new" /\ req[q].key[1] = "derived" =>
            req[q].key = Derived(Bucket(req[q].at))
       /\ \A first \in req[q].seen :
            /\ ~Answers(first, req[q].key, req[q].probed)
            /\ req[first.by].at <= req[q].probed
  /\ \A row \in table : row.key = req[row.by].key

\* Every step keeps what the probes saw.
LEMMA ProbedStep == Inv /\ Probed /\ [Next]_vars => Probed'
<1> SUFFICES ASSUME Inv, Probed, [Next]_vars PROVE Probed'
  OBVIOUS
<1>1. /\ now \in Nat /\ table \subseteq Rows /\ req \in [Requests -> Request]
      /\ \A row \in table : row.by \in Requests /\ req[row.by].pc = "done"
      /\ \A q \in Requests : req[q].seen \subseteq table /\ req[q].at <= now /\ req[q].at \in Nat
  BY WidthAssumption DEF Inv, TypeOK, CreatorsDone, Rows, Request
\* A request that goes on, with or without a row of its own.
<1>2. ASSUME NEW q \in Requests, NEW new \in Request,
             req' = [req EXCEPT ![q] = new], req[q].pc # "done", new.pc # "new",
             req[q].pc = "new" \/ (new.key = req[q].key /\ new.at = req[q].at),
             new.key[1] = "derived" => new.key = Derived(Bucket(new.at)),
             \/ new.seen = req[q].seen
                  /\ (new.seen = {} \/ (new.probed = req[q].probed /\ new.key = req[q].key))
             \/ /\ new.seen = table /\ new.probed = now
                /\ \A row \in table : ~Answers(row, new.key, now),
             \/ table' = table
             \/ \E row \in Rows : table' = table \cup {row} /\ row.by = q /\ row.key = new.key
      PROVE  Probed'
  <2>1. /\ req'[q] = new /\ \A p \in Requests : p # q => req'[p] = req[p]
        /\ \A row \in table : req'[row.by] = req[row.by]
    BY <1>1, <1>2
  <2>2. \A row \in table' : row.key = req'[row.by].key
    BY <1>2, <2>1 DEF Probed
  <2>3. \A first \in new.seen : ~Answers(first, new.key, new.probed) /\ req[first.by].at <= new.probed
    BY <1>1, <1>2 DEF Probed
  <2>4. ASSUME NEW p \in Requests
        PROVE  /\ req'[p].pc = "new" => req'[p].seen = {}
               /\ req'[p].pc # "new" /\ req'[p].key[1] = "derived" =>
                    req'[p].key = Derived(Bucket(req'[p].at))
               /\ \A first \in req'[p].seen :
                    /\ ~Answers(first, req'[p].key, req'[p].probed)
                    /\ req'[first.by].at <= req'[p].probed
    <3>1. CASE p = q
      <4>1. \A first \in new.seen : req'[first.by] = req[first.by]
        BY <1>1, <1>2, <2>1
      <4> QED
        BY <1>2, <2>1, <2>3, <3>1, <4>1
    <3>2. CASE p # q
      <4>1. req'[p] = req[p] /\ \A first \in req[p].seen : req'[first.by] = req[first.by]
        BY <1>1, <2>1, <3>2
      <4> QED
        BY <4>1 DEF Probed
    <3> QED
      BY <3>1, <3>2
  <2> QED
    BY <2>2, <2>4 DEF Probed, Bucket, Answers
<1>3. ASSUME NEW q \in Requests, Resolve(q) PROVE Probed'
  <2>1. PICK given \in {Derived(Bucket(now))} \cup {Supplied(k) : k \in ClientKeys} :
          req' = [req EXCEPT ![q] = [req[q] EXCEPT !.pc = "route", !.key = given, !.at = now]]
    BY <1>3 DEF Resolve
  <2> DEFINE new == [req[q] EXCEPT !.pc = "route", !.key = given, !.at = now]
  <2>2. given[1] = "derived" => given = Derived(Bucket(now))
    BY DEF Supplied
  <2>3. req[q] \in Request /\ req[q].pc = "new" /\ table' = table /\ req[q].seen = {}
    BY <1>1, <1>3 DEF Resolve, Probed
  <2>4. new \in Request
    <3>1. req'[q] = new /\ req'[q] \in Request
      BY <1>1, <1>3, <2>1, InvStep DEF Inv, TypeOK
    <3> QED
      BY <3>1
  <2>5. new.pc = "route" /\ new.key = given /\ new.at = now /\ new.seen = req[q].seen
    <3>1. DOMAIN req[q] = {"pc", "key", "at", "review", "routed", "probed", "seen"}
      BY <2>3 DEF Request
    <3> QED
      BY <3>1
  <2>6. req' = [req EXCEPT ![q] = new]
    BY <2>1
  <2> HIDE DEF new
  <2>7. /\ req[q].pc # "done" /\ new.pc # "new" /\ new.seen = req[q].seen /\ new.seen = {}
        /\ new.key[1] = "derived" => new.key = Derived(Bucket(new.at))
    BY <2>2, <2>3, <2>5
  <2> QED
    BY <1>2, <2>3, <2>4, <2>6, <2>7
<1>4. ASSUME NEW q \in Requests, RouteProbe(q) PROVE Probed'
  <2>1. PICK review :
          req' = [req EXCEPT ![q] = [req[q] EXCEPT !.pc = "submit", !.review = review,
                                                   !.routed = Bucket(now)]]
    BY <1>4 DEF RouteProbe
  <2> DEFINE new == [req[q] EXCEPT !.pc = "submit", !.review = review, !.routed = Bucket(now)]
  <2>2. req[q] \in Request /\ req[q].pc = "route" /\ table' = table
    BY <1>1, <1>4 DEF RouteProbe
  <2>3. new \in Request
    <3>1. req'[q] = new /\ req'[q] \in Request
      BY <1>1, <1>4, <2>1, InvStep DEF Inv, TypeOK
    <3> QED
      BY <3>1
  <2>4. /\ new.pc = "submit" /\ new.key = req[q].key /\ new.at = req[q].at
        /\ new.seen = req[q].seen /\ new.probed = req[q].probed
    BY <2>2 DEF Request
  <2>5. req' = [req EXCEPT ![q] = new]
    BY <2>1
  <2>6. req[q].key[1] = "derived" => req[q].key = Derived(Bucket(req[q].at))
    BY <2>2 DEF Probed
  <2> HIDE DEF new
  <2> QED
    BY <1>2, <2>2, <2>3, <2>4, <2>5, <2>6
<1>5. ASSUME NEW q \in Requests, SubmitProbe(q) PROVE Probed'
  <2>1. req[q] \in Request /\ req[q].pc = "submit" /\ table' = table
    BY <1>1, <1>5 DEF SubmitProbe
  <2>2. req[q].key[1] = "derived" => req[q].key = Derived(Bucket(req[q].at))
    BY <2>1 DEF Probed
  <2>3. CASE Existing(req[q].key) # {}
    <3> DEFINE new == [req[q] EXCEPT !.pc = "done"]
    <3>1. /\ new \in Request /\ new.pc = "done" /\ new.key = req[q].key /\ new.at = req[q].at
          /\ new.seen = req[q].seen /\ new.probed = req[q].probed
      BY <2>1 DEF Request
    <3>2. req' = [req EXCEPT ![q] = new]
      BY <1>5, <2>3 DEF SubmitProbe
    <3> HIDE DEF new
    <3> QED
      BY <1>2, <2>1, <2>2, <3>1, <3>2
  <2>4. CASE Existing(req[q].key) = {}
    <3> DEFINE new == [req[q] EXCEPT !.pc = "create", !.probed = now, !.seen = table]
    <3>1. /\ new \in Request /\ new.pc = "create" /\ new.key = req[q].key
          /\ new.at = req[q].at /\ new.seen = table /\ new.probed = now
      BY <1>1, <2>1 DEF Request
    <3>2. req' = [req EXCEPT ![q] = new]
      BY <1>5, <2>4 DEF SubmitProbe
    <3>3. \A row \in table : ~Answers(row, new.key, now)
      BY <2>4, <3>1, NothingFound
    <3> HIDE DEF new
    <3> QED
      BY <1>2, <2>1, <2>2, <3>1, <3>2, <3>3
  <2> QED
    BY <2>3, <2>4
<1>6. ASSUME NEW q \in Requests, CreateRow(q) \/ CreateRefused(q) PROVE Probed'
  <2> DEFINE new == [req[q] EXCEPT !.pc = "done"]
             row == [key |-> req[q].key, review |-> req[q].review, by |-> q]
  <2>1. req[q] \in Request /\ req[q].pc = "create" /\ req' = [req EXCEPT ![q] = new]
    BY <1>1, <1>6 DEF CreateRow, CreateRefused
  <2>2. req[q].key[1] = "derived" => req[q].key = Derived(Bucket(req[q].at))
    BY <2>1 DEF Probed
  <2>3. /\ new \in Request /\ new.pc = "done" /\ new.key = req[q].key /\ new.at = req[q].at
        /\ new.seen = req[q].seen /\ new.probed = req[q].probed
    BY <2>1 DEF Request
  <2>4. row \in Rows /\ row.by = q /\ row.key = req[q].key
    BY <2>1 DEF Rows, Inv, Named
  <2>5. table' = table \/ table' = table \cup {row}
    BY <1>6 DEF CreateRow, CreateRefused
  <2> HIDE DEF new, row
  <2> QED
    BY <1>2, <2>1, <2>2, <2>3, <2>4, <2>5
<1>7. CASE UNCHANGED <<table, req>>
  BY <1>7 DEF Probed, Answers, Bucket
<1> QED
  BY <1>3, <1>4, <1>5, <1>6, <1>7 DEF Next, vars, Tick

\* Two buckets on, a whole bucket's width is over.
LEMMA TwoBuckets ==
  ASSUME NEW t \in Nat, NEW u \in Nat, t <= u,
         Bucket(t) # Bucket(u), Bucket(t) # Bucket(u - Width)
  PROVE  u > t + Width
<1>1. (u - Width) \div Width = (u \div Width) - 1
  BY WidthAssumption, Z3
<1>2. Bucket(t) <= Bucket(u) /\ Bucket(t) \in Nat /\ Bucket(u) \in Nat
  BY Buckets
<1>3. Bucket(u) >= Bucket(t) + 2
  BY <1>1, <1>2 DEF Bucket
<1> DEFINE a == t \div Width
           b == u \div Width
<1>4. b \in Nat /\ a \in Nat /\ b >= a + 2
  BY <1>2, <1>3 DEF Bucket
<1>5. t < Width * (a + 1) /\ u >= Width * b
  <2>1. t = Width * a + (t % Width) /\ t % Width < Width /\ t % Width >= 0
    BY WidthAssumption, Z3
  <2>2. u = Width * b + (u % Width) /\ u % Width >= 0
    BY WidthAssumption, Z3
  <2>3. t % Width \in Int /\ u % Width \in Int
    BY WidthAssumption, Z3
  <2> HIDE DEF a, b
  <2>4. Width * (a + 1) = Width * a + Width /\ Width * a \in Int /\ Width * b \in Int
    BY <1>4, WidthAssumption, Z3
  <2> QED
    BY <2>1, <2>2, <2>3, <2>4, WidthAssumption
<1> HIDE DEF a, b
<1>6. Width * b >= Width * (a + 2) /\ Width * (a + 2) = Width * (a + 1) + Width
      /\ Width * (a + 1) \in Int /\ Width * b \in Int
  BY <1>4, WidthAssumption, Z3
<1> QED
  BY <1>5, <1>6, WidthAssumption

\* A second submission of one document under derived keys is never made by a
\* request that saw the first, unless a whole bucket had passed.
THEOREM DuplicatesHold == Spec => []DuplicatesExplained
<1>1. Init => Probed
  BY DEF Init, Probed, Fresh
<1>2. Spec => []Probed
  BY <1>1, Invariant, ProbedStep, PTL DEF Spec
<1>3. ASSUME Inv, Probed, NEW first \in table, NEW second \in table,
             IsDerived(first), first \in req[second.by].seen
      PROVE  req[second.by].probed > req[first.by].at + Width
  <2>1. /\ first.by \in Requests /\ second.by \in Requests
        /\ req[first.by].at \in Nat /\ req[second.by].probed \in Nat
        /\ req[first.by].pc = "done"
    BY <1>3 DEF Inv, TypeOK, Rows, Request, CreatorsDone
  <2>2. first.key = Derived(Bucket(req[first.by].at))
    BY <1>3, <2>1 DEF Probed, IsDerived
  <2>3. /\ ~Answers(first, req[second.by].key, req[second.by].probed)
        /\ req[first.by].at <= req[second.by].probed
    BY <1>3, <2>1 DEF Probed
  <2> QED
    BY <2>1, <2>2, <2>3, TwoBuckets DEF Answers
<1>4. Inv /\ Probed => DuplicatesExplained
  BY <1>3 DEF DuplicatesExplained
<1> QED
  BY <1>2, <1>4, Invariant, PTL

-----------------------------------------------------------------------------
(* The review panel.                                                       *)

\* Nothing was submitted on this page before its probe is over, unless the
\* probe was overtaken: until then the panel is as it was mounted.
Untouched ==
  (probe.at # "over" /\ ~probe.late) =>
    /\ ~panel.own /\ ~panel.submitting
    /\ panel.review = Null /\ panel.detail = NoDetail
    /\ panel.handed = Null /\ ~panel.saved /\ panel.draft = Null

\* While a submission is out, the screen is empty.
EmptyWhileSubmitting ==
  (panel.submitting /\ ~probe.late) =>
    /\ panel.review = Null /\ panel.detail = NoDetail
    /\ panel.handed = Null /\ ~panel.saved /\ panel.draft = Null

\* The poll loop and the held keys are about the review on screen.
Coupled ==
  /\ post.at # "none" <=> panel.submitting
  /\ following # Null => following = panel.review
  /\ panel.submitting \/ panel.review = Null => panel.pending = {}
  /\ "cancel" \in panel.pending => panel.review \in cancels
  /\ "note" \in panel.pending => panel.review \in notes

\* A detail that says done is right, and ends the poll loop.
DoneIsDone ==
  /\ panel.detail.done => panel.detail.of \in finished
  /\ (~probe.late /\ following # Null) => ~panel.detail.done

\* What is on screen is about the review shown.
OnlyThisReview ==
  ~probe.late =>
    /\ panel.detail # NoDetail => panel.detail.of = panel.review
    /\ panel.detail.stopping => panel.detail.of \in stopAsked
    /\ panel.review # Null =>
         /\ panel.handed \in {Null, panel.review}
         /\ panel.draft \in {Null, panel.review}
         /\ panel.saved => panel.handed = panel.review

PanelInv ==
  /\ PanelTypeOK
  /\ Untouched /\ EmptyWhileSubmitting /\ Coupled /\ DoneIsDone /\ OnlyThisReview
  /\ KeyBringsItBack

-----------------------------------------------------------------------------

\* A page that has just loaded satisfies it.
LEMMA PanelInvInit == PanelInit => PanelInv
<1> SUFFICES ASSUME PanelInit PROVE PanelInv
  OBVIOUS
<1> USE PanelAssumption DEF PanelInit, Blank, ProbeOf, NoPost, NoDetail
<1>1. PanelTypeOK
  <2>1. listing \in Seq(OwnReviews)
    OBVIOUS
  <2>2. panel \in PanelStates
    BY DEF PanelStates, Details
  <2>3. probe \in Probes /\ post \in Posts
    BY DEF Probes, Posts
  <2> QED
    BY <2>1, <2>2, <2>3 DEF PanelTypeOK
<1>2. Untouched /\ EmptyWhileSubmitting /\ Coupled /\ DoneIsDone /\ OnlyThisReview
  BY DEF Untouched, EmptyWhileSubmitting, Coupled, DoneIsDone, OnlyThisReview
<1>3. KeyBringsItBack
  BY DEF KeyBringsItBack
<1> QED
  BY <1>1, <1>2, <1>3 DEF PanelInv

\* The server's steps leave the page alone.
LEMMA ServerKeeps ==
  ASSUME PanelInv, NEW r \in OwnReviews,
         OtherTabSubmits(r) \/ Finishes(r) \/ CancelReaches(r)
  PROVE  PanelInv'
<1> USE DEF OtherTabSubmits, Finishes, CancelReaches, Created, requestVars
<1>1. PanelTypeOK'
  <2>1. listing \in Seq(OwnReviews) /\ <<r>> \in Seq(OwnReviews)
    BY DEF PanelInv, PanelTypeOK, PanelStates, Probes
  <2>2. listing' \in Seq(OwnReviews)
    BY <2>1, ConcatProperties
  <2>3. finished' \subseteq OwnReviews /\ stopAsked' \subseteq OwnReviews
    BY DEF PanelInv, PanelTypeOK, PanelStates, Probes
  <2> QED
    BY <2>2, <2>3 DEF PanelInv, PanelTypeOK
<1>2. UNCHANGED <<stored, panel, probe, post, following, cancels, notes>>
  OBVIOUS
<1>3. finished \subseteq finished' /\ stopAsked \subseteq stopAsked'
  OBVIOUS
<1>4. (Untouched /\ EmptyWhileSubmitting /\ Coupled /\ OnlyThisReview)'
  BY <1>2, <1>3 DEF PanelInv, Untouched, EmptyWhileSubmitting, Coupled, OnlyThisReview
<1>5. (DoneIsDone /\ KeyBringsItBack)'
  BY <1>2, <1>3 DEF PanelInv, DoneIsDone, KeyBringsItBack, InFlight
<1> QED
  BY <1>1, <1>4, <1>5 DEF PanelInv

\* Adopting a review, on a panel that shows none.
LEMMA AdoptKeeps ==
  ASSUME PanelInv, NEW r \in OwnReviews, probe.at # "over",
         Adopt(r), probe' = [probe EXCEPT !.at = "over"],
         UNCHANGED <<serverVars, stored, post, cancels, notes, saves, prefill, reloads>>
  PROVE  PanelInv'
<1> USE PanelAssumption DEF serverVars
<1>1. PanelTypeOK'
  <2>1. panel' \in PanelStates
    <3>1. panel' \in {panel, [panel EXCEPT !.review = r, !.lost = FALSE],
                      [panel EXCEPT !.review = r, !.lost = panel.lost]}
      BY DEF Adopt, Show
    <3> QED
      BY <3>1 DEF PanelInv, PanelTypeOK, PanelStates
  <2>2. following' \in {following, r} /\ polls' \in {polls, polls \cup {r}}
    BY DEF Adopt, Show
  <2>3. probe' \in Probes /\ probe'.at = "over"
    BY DEF PanelInv, PanelTypeOK, Probes
  <2> QED
    BY <2>1, <2>2, <2>3 DEF PanelInv, PanelTypeOK
<1>2. probe'.late = probe.late /\ probe'.at = "over"
  BY DEF PanelInv, PanelTypeOK, PanelStates, Probes
<1>3. CASE panel.review # Null
  <2>1. UNCHANGED <<panel, following>>
    BY <1>3 DEF Adopt
  <2>2. (Untouched /\ EmptyWhileSubmitting /\ Coupled)'
    BY <1>2, <2>1 DEF PanelInv, Untouched, EmptyWhileSubmitting, Coupled
  <2>3. (DoneIsDone /\ OnlyThisReview /\ KeyBringsItBack)'
    BY <1>2, <2>1 DEF PanelInv, DoneIsDone, OnlyThisReview, KeyBringsItBack, InFlight
  <2> QED
    BY <1>1, <2>2, <2>3 DEF PanelInv
<1>4. CASE panel.review = Null
  <2>1. panel' = [panel EXCEPT !.review = r, !.lost = FALSE] /\ following' = r
    BY <1>4 DEF Adopt, Show
  <2>2. /\ panel'.review = r /\ panel'.own = panel.own /\ panel'.detail = panel.detail
        /\ panel'.submitting = panel.submitting /\ panel'.pending = panel.pending
        /\ panel'.handed = panel.handed /\ panel'.saved = panel.saved
        /\ panel'.draft = panel.draft
    BY <2>1 DEF PanelInv, PanelTypeOK
  <2>3. (Untouched /\ EmptyWhileSubmitting)'
    BY <1>2, <2>2 DEF PanelInv, Untouched, EmptyWhileSubmitting
  <2>4. Coupled'
    BY <1>4, <2>1, <2>2 DEF PanelInv, Coupled
  <2>5. DoneIsDone'
    BY <1>2, <2>1, <2>2 DEF PanelInv, Untouched, DoneIsDone, NoDetail
  <2>6. OnlyThisReview'
    BY <1>2, <2>2 DEF PanelInv, Untouched, OnlyThisReview, NoDetail
  <2>7. KeyBringsItBack'
    BY <1>2, <2>2 DEF PanelInv, Untouched, KeyBringsItBack
  <2> QED
    BY <1>1, <2>3, <2>4, <2>5, <2>6, <2>7 DEF PanelInv
<1> QED
  BY <1>3, <1>4

\* The probe of the stored review, and the listing after it.
LEMMA ProbeKeeps ==
  ASSUME PanelInv, ProbeStored \/ ProbeListing
  PROVE  PanelInv'
<1>1. CASE ProbeStored
  <2>1. CASE Adopt(probe.of) /\ probe' = [probe EXCEPT !.at = "over"] /\ UNCHANGED stored
    <3>1. probe.of \in OwnReviews
      BY <1>1 DEF PanelInv, PanelTypeOK, Probes, ProbeStored
    <3> QED
      BY <1>1, <2>1, <3>1, AdoptKeeps DEF ProbeStored
  <2>2. CASE /\ probe' = [probe EXCEPT !.at = "listing"]
             /\ stored' \in {stored, Null}
             /\ UNCHANGED <<panel, following, polls>>
    <3> USE <1>1, <2>2 DEF ProbeStored, serverVars
    <3>1. PanelTypeOK'
      BY DEF PanelInv, PanelTypeOK, PanelStates, Probes
    <3>2. probe'.late = probe.late /\ probe.at = "stored"
      BY DEF PanelInv, PanelTypeOK, PanelStates, Probes
    <3>3. (Untouched /\ EmptyWhileSubmitting /\ Coupled)'
      BY <3>2 DEF PanelInv, Untouched, EmptyWhileSubmitting, Coupled
    <3>4. (DoneIsDone /\ OnlyThisReview)'
      BY <3>2 DEF PanelInv, DoneIsDone, OnlyThisReview
    <3>5. KeyBringsItBack'
      BY <3>2 DEF PanelInv, Untouched, KeyBringsItBack
    <3> QED
      BY <3>1, <3>3, <3>4, <3>5 DEF PanelInv
  <2> QED
    BY <1>1, <2>1, <2>2 DEF ProbeStored
<1>2. CASE ProbeListing
  <2>1. CASE listing # <<>> /\ Adopt(Head(listing))
    <3>1. Head(listing) \in OwnReviews
      BY <2>1 DEF PanelInv, PanelTypeOK
    <3> QED
      BY <1>2, <2>1, <3>1, AdoptKeeps DEF ProbeListing
  <2>2. CASE UNCHANGED <<panel, following, polls>>
    <3> USE <1>2, <2>2 DEF ProbeListing, serverVars
    <3>1. PanelTypeOK'
      BY DEF PanelInv, PanelTypeOK, PanelStates, Probes
    <3>2. probe'.late = probe.late /\ probe'.at = "over"
      BY DEF PanelInv, PanelTypeOK, PanelStates, Probes
    <3>3. (Untouched /\ EmptyWhileSubmitting /\ Coupled)'
      BY <3>2 DEF PanelInv, Untouched, EmptyWhileSubmitting, Coupled
    <3>4. (DoneIsDone /\ OnlyThisReview /\ KeyBringsItBack)'
      BY <3>2 DEF PanelInv, DoneIsDone, OnlyThisReview, KeyBringsItBack, InFlight
    <3> QED
      BY <3>1, <3>3, <3>4 DEF PanelInv
  <2> QED
    BY <1>2, <2>1, <2>2 DEF ProbeListing
<1> QED
  BY <1>1, <1>2

\* A new submission clears the screen.
LEMMA SubmitKeeps ==
  ASSUME PanelInv, Submit
  PROVE  PanelInv'
<1> USE DEF serverVars, requestVars
<1>1. panel' = [panel EXCEPT !.pending = {}, !.lost = FALSE, !.submitting = TRUE,
                  !.detail = NoDetail, !.review = Null, !.handed = Null,
                  !.saved = FALSE, !.draft = Null]
  BY DEF Submit, Cleared
<1>2. /\ panel'.pending = {} /\ panel'.submitting /\ panel'.detail = NoDetail
      /\ panel'.review = Null /\ panel'.handed = Null /\ ~panel'.saved
      /\ panel'.draft = Null
  BY <1>1 DEF PanelInv, PanelTypeOK, PanelStates
<1>3. post'.at = "sent" /\ post' \in Posts
  <2>1. Len(listing) \in Nat
    BY DEF PanelInv, PanelTypeOK
  <2> QED
    BY <2>1 DEF Submit, Posts
<1>4. /\ probe' \in Probes /\ probe'.at = probe.at /\ probe'.of = probe.of
      /\ probe'.late <=> probe.at # "over"
  BY DEF Submit, PanelInv, PanelTypeOK, Probes
<1>5. PanelTypeOK'
  <2>1. panel' \in PanelStates
    BY <1>1 DEF PanelInv, PanelTypeOK, PanelStates, Details
  <2> QED
    BY <2>1, <1>3, <1>4 DEF Submit, PanelInv, PanelTypeOK
<1>6. (Untouched /\ EmptyWhileSubmitting /\ Coupled)'
  BY <1>2, <1>3, <1>4 DEF Submit, Untouched, EmptyWhileSubmitting, Coupled
<1>7. (DoneIsDone /\ OnlyThisReview /\ KeyBringsItBack)'
  BY <1>2 DEF DoneIsDone, OnlyThisReview, KeyBringsItBack, NoDetail
<1> QED
  BY <1>5, <1>6, <1>7 DEF PanelInv

\* What the server does with the POST, and its stall, leave the screen alone.
LEMMA PostMovesKeep ==
  ASSUME PanelInv, PostStalls \/ \E r \in OwnReviews : Accepts(r)
  PROVE  PanelInv'
<1> USE DEF PostStalls, Accepts, Created, serverVars, requestVars
<1>1. /\ UNCHANGED <<finished, stopAsked, stored, panel, probe, following, cancels, notes>>
      /\ post' \in Posts /\ (post'.at = "none" <=> post.at = "none")
  BY DEF PanelInv, PanelTypeOK, Posts
<1>2. PanelTypeOK'
  <2>1. \A r \in OwnReviews : <<r>> \o listing \in Seq(OwnReviews)
    <3>1. \A r \in OwnReviews : <<r>> \in Seq(OwnReviews)
      OBVIOUS
    <3> QED
      BY <3>1, ConcatProperties DEF PanelInv, PanelTypeOK
  <2>2. listing' \in Seq(OwnReviews)
    BY <2>1 DEF PanelInv, PanelTypeOK
  <2> QED
    BY <1>1, <2>2 DEF PanelInv, PanelTypeOK
<1>3. (Untouched /\ EmptyWhileSubmitting /\ Coupled)'
  BY <1>1 DEF PanelInv, Untouched, EmptyWhileSubmitting, Coupled
<1>4. (DoneIsDone /\ OnlyThisReview /\ KeyBringsItBack)'
  BY <1>1 DEF PanelInv, DoneIsDone, OnlyThisReview, KeyBringsItBack, InFlight
<1> QED
  BY <1>2, <1>3, <1>4 DEF PanelInv

\* The submitted review lands on an empty screen, unless the probe was overtaken.
LEMMA AttachKeeps ==
  ASSUME PanelInv, NEW r \in OwnReviews, post.at # "none", Attach(r),
         UNCHANGED <<serverVars, probe, cancels, notes, saves, prefill, reloads>>
  PROVE  PanelInv'
<1> USE PanelAssumption DEF serverVars
<1>1. /\ panel'.review = r /\ panel'.own /\ ~panel'.submitting
      /\ panel'.detail = panel.detail /\ panel'.pending = panel.pending
      /\ panel'.handed = panel.handed /\ panel'.saved = panel.saved
      /\ panel'.draft = panel.draft /\ panel' \in PanelStates
  BY DEF Attach, Show, PanelInv, PanelTypeOK, PanelStates
<1>2. /\ stored' = r /\ post' = NoPost
      /\ following' \in {following, r} /\ polls' \in {polls, polls \cup {r}}
      /\ panel.review # r => following' = r
      /\ panel.review = r => following' = following
  BY DEF Attach, Show, PanelInv, PanelTypeOK, PanelStates
<1>3. PanelTypeOK'
  BY <1>1, <1>2 DEF PanelInv, PanelTypeOK, NoPost, Posts
<1>4. (Untouched /\ EmptyWhileSubmitting /\ Coupled)'
  BY <1>1, <1>2 DEF PanelInv, Untouched, EmptyWhileSubmitting, Coupled, NoPost
<1>5. (DoneIsDone /\ OnlyThisReview)'
  BY <1>1, <1>2 DEF PanelInv, EmptyWhileSubmitting, Coupled, DoneIsDone, OnlyThisReview, NoDetail
<1>6. KeyBringsItBack'
  BY <1>1, <1>2 DEF KeyBringsItBack
<1> QED
  BY <1>3, <1>4, <1>5, <1>6 DEF PanelInv

\* The answer to a submission, late or not, and the checks around it.
LEMMA LandingKeeps ==
  ASSUME PanelInv, PostLands \/ StallCheck \/ SubmitFails
  PROVE  PanelInv'
<1>1. CASE PostLands
  <2>1. post.of \in OwnReviews
    BY <1>1 DEF PostLands, PanelInv, PanelTypeOK, Posts
  <2> QED
    BY <1>1, <2>1, AttachKeeps DEF PostLands
<1>2. CASE StallCheck
  <2>1. listing \in Seq(OwnReviews) /\ Len(listing) >= 1
    <3>1. post.since \in Nat /\ Len(listing) \in Nat
      BY DEF PanelInv, PanelTypeOK, Posts
    <3> QED
      BY <1>2, <3>1 DEF StallCheck, PanelInv, PanelTypeOK
  <2>2. Head(listing) \in OwnReviews
    BY <2>1
  <2> QED
    BY <1>2, <2>2, AttachKeeps DEF StallCheck
<1>3. CASE SubmitFails
  <2> USE <1>3 DEF SubmitFails, serverVars, requestVars
  <2>1. /\ panel'.review = panel.review /\ panel'.own = panel.own /\ ~panel'.submitting
        /\ panel'.detail = panel.detail /\ panel'.pending = panel.pending
        /\ panel'.handed = panel.handed /\ panel'.saved = panel.saved
        /\ panel'.draft = panel.draft /\ panel' \in PanelStates
    BY DEF PanelInv, PanelTypeOK, PanelStates
  <2>2. PanelTypeOK'
    BY <2>1 DEF PanelInv, PanelTypeOK, NoPost, Posts
  <2>3. (Untouched /\ EmptyWhileSubmitting /\ Coupled)'
    BY <2>1 DEF PanelInv, Untouched, EmptyWhileSubmitting, Coupled, NoPost
  <2>4. (DoneIsDone /\ OnlyThisReview)'
    BY <2>1 DEF PanelInv, DoneIsDone, OnlyThisReview
  <2>5. KeyBringsItBack'
    BY <2>1 DEF PanelInv, EmptyWhileSubmitting, Coupled, KeyBringsItBack
  <2> QED
    BY <2>2, <2>3, <2>4, <2>5 DEF PanelInv
<1> QED
  BY <1>1, <1>2, <1>3

\* What a poll's answer says.
LEMMA DetailFields ==
  ASSUME NEW r \in OwnReviews, NEW done \in BOOLEAN
  PROVE  /\ Detail(r, done) \in Details
         /\ Detail(r, done).of = r /\ Detail(r, done).done = done
         /\ Detail(r, done).stopping => r \in stopAsked
<1>1. Detail(r, done).stopping = (r \in stopAsked)
  BY Zenon DEF Detail
<1>2. Detail(r, done) \in Details
  BY DEF Detail, Details
<1>3. Detail(r, done).of = r /\ Detail(r, done).done = done
  BY DEF Detail
<1> QED
  BY <1>1, <1>2, <1>3, Zenon

\* A poll paints the review its loop is about; the one that ends the review
\* ends the loop.
LEMMA PollKeeps ==
  ASSUME PanelInv, NEW r \in OwnReviews, PollAnswers(r)
  PROVE  PanelInv'
<1> USE PanelAssumption DEF PollAnswers, serverVars
<1> DEFINE paints(done) ==
      /\ panel'.detail = Detail(r, done)
      /\ panel'.review = panel.review /\ panel'.own = panel.own
      /\ panel'.submitting = panel.submitting /\ panel'.lost = panel.lost
      /\ panel'.pending = panel.pending /\ panel'.saved = panel.saved
      /\ panel'.draft = panel.draft /\ panel' \in PanelStates
<1>1. \A done \in BOOLEAN : Detail(r, done) \in Details
  BY DetailFields
<1>2. CASE Current(r) /\ (PollRunning(r) \/ PollEnded(r))
  <2>1. r = panel.review /\ r = following /\ r # Null
    BY <1>2 DEF Current, PanelInv, Coupled
  <2>2. ~probe.late => ~panel.submitting /\ probe.at = "over"
    BY <2>1 DEF PanelInv, Untouched, EmptyWhileSubmitting
  <2>3. CASE PollRunning(r)
    <3>1. paints(FALSE) /\ panel'.handed = panel.handed
      BY <1>1, <2>3 DEF PollRunning, PanelInv, PanelTypeOK, PanelStates
    <3>2. PanelTypeOK'
      BY <2>3, <3>1 DEF PollRunning, PanelInv, PanelTypeOK
    <3>3. (Untouched /\ EmptyWhileSubmitting)'
      BY <2>2, <3>1 DEF Untouched, EmptyWhileSubmitting
    <3>4. Coupled'
      BY <2>3, <3>1 DEF PollRunning, PanelInv, Coupled
    <3>5. ~panel'.detail.done /\ panel'.detail.of = r /\ (panel'.detail.stopping => r \in stopAsked)
      BY <3>1, DetailFields
    <3>6. (DoneIsDone /\ OnlyThisReview)'
      BY <2>1, <3>1, <3>5 DEF PanelInv, DoneIsDone, OnlyThisReview
    <3>7. KeyBringsItBack'
      BY <2>1, <2>3, <3>1 DEF PollRunning, PanelInv, DoneIsDone, KeyBringsItBack, InFlight
    <3> QED
      BY <3>2, <3>3, <3>4, <3>6, <3>7 DEF PanelInv
  <2>4. CASE PollEnded(r)
    <3>1. paints(TRUE) /\ panel'.handed \in {panel.handed, r}
      BY <1>1, <2>4 DEF PollEnded, PanelInv, PanelTypeOK, PanelStates
    <3>2. r \in finished
      BY <2>4 DEF PollEnded, Seen
    <3>3. saves' \subseteq OwnReviews
      BY <2>4 DEF PollEnded, HandOff, PanelInv, PanelTypeOK
    <3>4. PanelTypeOK'
      BY <2>4, <3>1, <3>3 DEF PollEnded, PanelInv, PanelTypeOK
    <3>5. (Untouched /\ EmptyWhileSubmitting)'
      BY <2>2, <3>1 DEF Untouched, EmptyWhileSubmitting
    <3>6. Coupled'
      BY <2>4, <3>1 DEF PollEnded, PanelInv, Coupled
    <3>7. panel'.detail.done /\ panel'.detail.of = r /\ (panel'.detail.stopping => r \in stopAsked)
      BY <3>1, DetailFields
    <3>8. DoneIsDone'
      BY <2>4, <3>2, <3>7 DEF PollEnded, DoneIsDone
    <3>9. OnlyThisReview'
      BY <2>1, <3>1, <3>7 DEF PanelInv, OnlyThisReview
    <3>10. KeyBringsItBack'
      BY <3>1, <3>7 DEF KeyBringsItBack, InFlight
    <3> QED
      BY <3>4, <3>5, <3>6, <3>8, <3>9, <3>10 DEF PanelInv
  <2> QED
    BY <1>2, <2>3, <2>4
<1>3. CASE PollDropped(r)
  <2> USE <1>3 DEF PollDropped
  <2>1. PanelTypeOK'
    BY DEF PanelInv, PanelTypeOK
  <2>2. (Untouched /\ EmptyWhileSubmitting /\ Coupled)'
    BY DEF PanelInv, Untouched, EmptyWhileSubmitting, Coupled
  <2>3. (DoneIsDone /\ OnlyThisReview /\ KeyBringsItBack)'
    BY DEF PanelInv, DoneIsDone, OnlyThisReview, KeyBringsItBack, InFlight
  <2> QED
    BY <2>1, <2>2, <2>3 DEF PanelInv
<1> QED
  BY <1>2, <1>3

\* A loop that gives up, and a save that lands, change a flag of the screen.
LEMMA GiveUpAndSaveKeep ==
  ASSUME PanelInv, NEW r \in OwnReviews, PollGivesUp(r) \/ SaveAnswers(r)
  PROVE  PanelInv'
<1> USE PanelAssumption DEF serverVars
<1>1. CASE PollGivesUp(r)
  <2> USE <1>1 DEF PollGivesUp
  <2>1. /\ panel'.review = panel.review /\ panel'.own = panel.own
        /\ panel'.submitting = panel.submitting /\ panel'.lost
        /\ panel'.detail = panel.detail /\ panel'.pending = panel.pending
        /\ panel'.handed = panel.handed /\ panel'.saved = panel.saved
        /\ panel'.draft = panel.draft /\ panel' \in PanelStates
    BY DEF PanelInv, PanelTypeOK, PanelStates
  <2>2. PanelTypeOK'
    BY <2>1 DEF PanelInv, PanelTypeOK
  <2>3. (Untouched /\ EmptyWhileSubmitting /\ Coupled)'
    BY <2>1 DEF PanelInv, Untouched, EmptyWhileSubmitting, Coupled
  <2>4. (DoneIsDone /\ OnlyThisReview /\ KeyBringsItBack)'
    BY <2>1 DEF PanelInv, DoneIsDone, OnlyThisReview, KeyBringsItBack, InFlight
  <2> QED
    BY <2>2, <2>3, <2>4 DEF PanelInv
<1>2. CASE SaveAnswers(r)
  <2> USE <1>2 DEF SaveAnswers
  <2>1. /\ panel'.review = panel.review /\ panel'.own = panel.own
        /\ panel'.submitting = panel.submitting /\ panel'.lost = panel.lost
        /\ panel'.detail = panel.detail /\ panel'.pending = panel.pending
        /\ panel'.handed = panel.handed /\ panel' \in PanelStates
        /\ panel'.draft = panel.draft
        /\ panel'.saved => panel.saved \/ panel.handed = r
    BY DEF PanelInv, PanelTypeOK, PanelStates
  <2>2. r # Null
    OBVIOUS
  <2>3. PanelTypeOK'
    BY <2>1 DEF PanelInv, PanelTypeOK
  <2>4. (Untouched /\ EmptyWhileSubmitting /\ Coupled)'
    BY <2>1, <2>2 DEF PanelInv, Untouched, EmptyWhileSubmitting, Coupled
  <2>5. (DoneIsDone /\ OnlyThisReview /\ KeyBringsItBack)'
    BY <2>1, <2>2 DEF PanelInv, DoneIsDone, OnlyThisReview, KeyBringsItBack, InFlight
  <2> QED
    BY <2>3, <2>4, <2>5 DEF PanelInv
<1> QED
  BY <1>1, <1>2

\* A request about the review on screen holds its key.
LEMMA PressKeeps ==
  ASSUME PanelInv, PressCancel \/ PressButter
  PROVE  PanelInv'
<1> USE PanelAssumption DEF PressCancel, PressButter, serverVars
<1>1. /\ panel'.review = panel.review /\ panel'.own = panel.own
      /\ panel'.submitting = panel.submitting /\ panel'.lost = panel.lost
      /\ panel'.detail = panel.detail /\ panel'.handed = panel.handed
      /\ panel'.saved = panel.saved /\ panel'.draft = panel.draft
      /\ panel' \in PanelStates
  BY DEF PanelInv, PanelTypeOK, PanelStates
<1>2. ~panel.submitting /\ panel.review # Null /\ panel.review \in OwnReviews
  BY DEF InFlight, PanelInv, PanelTypeOK, PanelStates
<1>3. /\ panel'.pending \subseteq panel.pending \cup {"cancel", "note"}
      /\ cancels \subseteq cancels' /\ notes \subseteq notes'
      /\ "cancel" \in panel'.pending \ panel.pending => panel.review \in cancels'
      /\ "note" \in panel'.pending \ panel.pending => panel.review \in notes'
  BY DEF PanelInv, PanelTypeOK, PanelStates
<1>4. PanelTypeOK'
  BY <1>1, <1>2 DEF PanelInv, PanelTypeOK
<1>5. (Untouched /\ EmptyWhileSubmitting)'
  BY <1>1 DEF PanelInv, Untouched, EmptyWhileSubmitting
<1>6. Coupled'
  BY <1>1, <1>2, <1>3 DEF PanelInv, Coupled
<1>7. (DoneIsDone /\ OnlyThisReview /\ KeyBringsItBack)'
  BY <1>1 DEF PanelInv, DoneIsDone, OnlyThisReview, KeyBringsItBack, InFlight
<1> QED
  BY <1>4, <1>5, <1>6, <1>7 DEF PanelInv

\* A cancel that is answered reaches its own review only.
LEMMA CancelKeeps ==
  ASSUME PanelInv, NEW r \in OwnReviews, CancelAnswers(r)
  PROVE  PanelInv'
<1> USE PanelAssumption DEF serverVars
<1>1. PICK stopped \in {FALSE, (r \in stopAsked)} :
           panel' = IF OnScreen(r)
                    THEN [panel EXCEPT !.pending = @ \ {"cancel"},
                            !.detail.stopping = @ \/ (stopped /\ panel.detail # NoDetail)]
                    ELSE panel
  BY DEF CancelAnswers
<1>2. /\ cancels' = cancels \ {r} /\ r \in cancels
      /\ UNCHANGED <<listing, finished, stopAsked, stored, probe, post, following, polls,
                     notes, saves, prefill, reloads>>
  BY DEF CancelAnswers
<1>3. stopAsked' = stopAsked
  BY <1>2
<1>4. CASE panel.review # r
  <2>1. panel' = panel
    BY <1>1, <1>4 DEF OnScreen
  <2>2. PanelTypeOK'
    BY <1>2, <1>3, <2>1 DEF PanelInv, PanelTypeOK
  <2>3. (Untouched /\ EmptyWhileSubmitting /\ Coupled)'
    BY <1>2, <1>4, <2>1 DEF PanelInv, Untouched, EmptyWhileSubmitting, Coupled
  <2>4. (DoneIsDone /\ OnlyThisReview /\ KeyBringsItBack)'
    BY <1>2, <1>3, <2>1 DEF PanelInv, DoneIsDone, OnlyThisReview, KeyBringsItBack, InFlight
  <2> QED
    BY <2>2, <2>3, <2>4 DEF PanelInv
<1>5. CASE panel.review = r
  <2> DEFINE stopping == panel.detail.stopping \/ (stopped /\ panel.detail # NoDetail)
  <2>1. panel' = [panel EXCEPT !.pending = panel.pending \ {"cancel"},
                               !.detail = [panel.detail EXCEPT !.stopping = stopping]]
    BY <1>1, <1>5 DEF OnScreen
  <2>2. panel.detail \in Details /\ panel \in PanelStates
    BY DEF PanelInv, PanelTypeOK, PanelStates
  <2>3. /\ panel'.review = panel.review /\ panel'.own = panel.own
        /\ panel'.submitting = panel.submitting /\ panel'.lost = panel.lost
        /\ panel'.pending = panel.pending \ {"cancel"} /\ panel'.saved = panel.saved
        /\ panel'.handed = panel.handed /\ panel'.draft = panel.draft
        /\ panel'.detail = [panel.detail EXCEPT !.stopping = stopping]
    BY <2>1, <2>2 DEF PanelStates
  <2>4. /\ panel'.detail.of = panel.detail.of /\ panel'.detail.done = panel.detail.done
        /\ panel'.detail.stopping = stopping
    BY <2>2, <2>3 DEF Details, NoDetail
  <2>5. stopping \in BOOLEAN
    OBVIOUS
  <2>6. panel.detail = NoDetail => panel'.detail = NoDetail
    <3> SUFFICES ASSUME panel.detail = NoDetail PROVE panel'.detail = NoDetail
      OBVIOUS
    <3>1. stopping = FALSE
      BY DEF NoDetail
    <3> DEFINE Empty == [of : {Null}, done : {FALSE}, stopping : {FALSE}]
    <3>2. [NoDetail EXCEPT !.stopping = FALSE] = NoDetail
      <4>1. NoDetail \in Empty
        BY DEF NoDetail
      <4>2. [NoDetail EXCEPT !.stopping = FALSE] \in Empty
        BY <4>1
      <4>3. ASSUME NEW x \in Empty
            PROVE  x = [of |-> Null, done |-> FALSE, stopping |-> FALSE]
        <5>1. x = [of |-> x.of, done |-> x.done, stopping |-> x.stopping]
          BY <4>3
        <5>2. x.of = Null /\ x.done = FALSE /\ x.stopping = FALSE
          BY <4>3
        <5> HIDE DEF Empty
        <5> QED
          BY <5>1, <5>2
      <4> HIDE DEF Empty
      <4> QED
        BY <4>1, <4>2, <4>3
    <3> HIDE DEF stopping
    <3> QED
      BY <2>3, <3>1, <3>2
  <2>7. panel'.detail \in Details
    <3>1. CASE panel.detail = NoDetail
      BY <2>6, <3>1 DEF Details
    <3>2. CASE panel.detail # NoDetail
      <4>1. panel.detail \in [of : OwnReviews, done : BOOLEAN, stopping : BOOLEAN]
        BY <2>2, <3>2 DEF Details
      <4>2. [panel.detail EXCEPT !.stopping = stopping]
              \in [of : OwnReviews, done : BOOLEAN, stopping : BOOLEAN]
        BY <2>5, <4>1
      <4> QED
        BY <2>3, <4>2 DEF Details
    <3> QED
      BY <3>1, <3>2
  <2>8. PanelTypeOK'
    <3>1. panel' \in PanelStates
      BY <2>1, <2>2, <2>3, <2>7 DEF PanelStates
    <3> QED
      BY <1>2, <1>3, <3>1 DEF PanelInv, PanelTypeOK
  <2>9. (Untouched /\ EmptyWhileSubmitting)'
    BY <1>2, <2>3, <2>6 DEF PanelInv, Untouched, EmptyWhileSubmitting
  <2>10. Coupled'
    BY <1>2, <2>3 DEF PanelInv, Coupled
  <2>11. DoneIsDone'
    BY <1>2, <2>4 DEF PanelInv, DoneIsDone
  <2>12. OnlyThisReview'
    <3> SUFFICES ASSUME ~probe'.late PROVE OnlyThisReview!2'
      BY DEF OnlyThisReview
    <3>1. panel'.detail # NoDetail => panel'.detail.of = panel'.review
      BY <1>2, <2>3, <2>4, <2>6 DEF PanelInv, OnlyThisReview
    <3>2. panel'.detail.stopping => panel'.detail.of \in stopAsked'
      <4>1. CASE panel.detail.stopping
        BY <1>2, <1>3, <2>4, <4>1 DEF PanelInv, OnlyThisReview
      <4>2. CASE stopped /\ panel.detail # NoDetail
        BY <1>1, <1>2, <1>5, <2>4, <4>2 DEF PanelInv, OnlyThisReview
      <4> QED
        BY <2>4, <4>1, <4>2
    <3> QED
      BY <1>2, <2>3, <3>1, <3>2 DEF PanelInv, OnlyThisReview
  <2>13. KeyBringsItBack'
    BY <1>2, <2>3, <2>4 DEF PanelInv, KeyBringsItBack, InFlight
  <2> QED
    BY <2>8, <2>9, <2>10, <2>11, <2>12, <2>13 DEF PanelInv
<1> QED
  BY <1>4, <1>5

\* The answer to a cover note request.
LEMMA ButterKeeps ==
  ASSUME PanelInv, NEW r \in OwnReviews, ButterAnswers(r)
  PROVE  PanelInv'
<1> USE PanelAssumption DEF serverVars
<1>1. /\ notes' = notes \ {r} /\ r \in notes
      /\ UNCHANGED <<listing, finished, stopAsked, stored, probe, post, following, polls,
                     cancels, saves, prefill, reloads>>
  BY DEF ButterAnswers
<1>2. CASE panel.review # r
  <2>1. panel' = panel
    BY <1>2 DEF ButterAnswers, OnScreen
  <2>2. PanelTypeOK'
    BY <1>1, <2>1 DEF PanelInv, PanelTypeOK
  <2>3. (Untouched /\ EmptyWhileSubmitting /\ Coupled)'
    BY <1>1, <1>2, <2>1 DEF PanelInv, Untouched, EmptyWhileSubmitting, Coupled
  <2>4. (DoneIsDone /\ OnlyThisReview /\ KeyBringsItBack)'
    BY <1>1, <2>1 DEF PanelInv, DoneIsDone, OnlyThisReview, KeyBringsItBack, InFlight
  <2> QED
    BY <2>2, <2>3, <2>4 DEF PanelInv
<1>3. CASE panel.review = r
  <2>1. /\ panel'.review = panel.review /\ panel'.own = panel.own
        /\ panel'.submitting = panel.submitting /\ panel'.lost = panel.lost
        /\ panel'.pending = panel.pending \ {"note"} /\ panel'.saved = panel.saved
        /\ panel'.handed = panel.handed /\ panel'.detail = panel.detail
        /\ panel'.draft \in {panel.draft, r} /\ panel' \in PanelStates
    <3>1. PICK draft \in {panel.draft, r} :
            panel' = [panel EXCEPT !.pending = panel.pending \ {"note"}, !.draft = draft]
      BY <1>3 DEF ButterAnswers, OnScreen
    <3>2. panel \in PanelStates
      BY DEF PanelInv, PanelTypeOK
    <3>3. draft \in OwnReviews \cup {Null}
      BY <3>2 DEF PanelStates
    <3> QED
      BY <3>1, <3>2, <3>3 DEF PanelStates
  <2>2. PanelTypeOK'
    BY <1>1, <2>1 DEF PanelInv, PanelTypeOK
  <2>3. (Untouched /\ EmptyWhileSubmitting)'
    BY <1>1, <1>3, <2>1 DEF PanelInv, Untouched, EmptyWhileSubmitting
  <2>4. Coupled'
    BY <1>1, <2>1 DEF PanelInv, Coupled
  <2>5. (DoneIsDone /\ OnlyThisReview /\ KeyBringsItBack)'
    BY <1>1, <1>3, <2>1 DEF PanelInv, DoneIsDone, OnlyThisReview, KeyBringsItBack, InFlight
  <2> QED
    BY <2>2, <2>3, <2>4, <2>5 DEF PanelInv
<1> QED
  BY <1>2, <1>3

\* Clearing the screen, and a page that is loaded again.
LEMMA ClearKeeps ==
  ASSUME PanelInv, PressRetry \/ PressRunAgain \/ PrefillAnswers \/ Reload
  PROVE  PanelInv'
<1> USE PanelAssumption DEF serverVars, requestVars
<1>1. CASE PressRunAgain \/ (PrefillAnswers /\ UNCHANGED <<panel, following>>)
  <2>1. /\ UNCHANGED <<listing, finished, stopAsked, stored, panel, probe, post, following,
                       polls, cancels, notes, saves, reloads>>
        /\ prefill' \in BOOLEAN
    <3>1. InFlight \in BOOLEAN
      BY DEF InFlight
    <3> QED
      BY <1>1, <3>1 DEF PressRunAgain, PrefillAnswers
  <2>2. PanelTypeOK'
    BY <2>1 DEF PanelInv, PanelTypeOK
  <2>3. (Untouched /\ EmptyWhileSubmitting /\ Coupled)'
    BY <2>1 DEF PanelInv, Untouched, EmptyWhileSubmitting, Coupled
  <2>4. (DoneIsDone /\ OnlyThisReview /\ KeyBringsItBack)'
    BY <2>1 DEF PanelInv, DoneIsDone, OnlyThisReview, KeyBringsItBack, InFlight
  <2> QED
    BY <2>2, <2>3, <2>4 DEF PanelInv
<1>2. CASE PressRetry \/ (PrefillAnswers /\ ~BusyAfterRead /\ ResetForRetry)
  <2>1. /\ panel' = [panel EXCEPT !.pending = {}, !.lost = FALSE, !.detail = NoDetail,
                       !.review = Null, !.handed = Null]
        /\ following' = Null
        /\ UNCHANGED <<listing, finished, stopAsked, stored, probe, post,
                       polls, cancels, notes, saves, reloads>>
        /\ prefill' \in BOOLEAN
    BY <1>2 DEF PressRetry, PrefillAnswers, ResetForRetry, Cleared, PanelInv, PanelTypeOK
  <2>2. /\ panel'.review = Null /\ panel'.own = panel.own
        /\ panel'.submitting = panel.submitting /\ panel'.detail = NoDetail
        /\ panel'.pending = {} /\ panel'.handed = Null
        /\ panel'.saved = panel.saved /\ panel'.draft = panel.draft
        /\ panel' \in PanelStates
    BY <2>1 DEF PanelInv, PanelTypeOK, PanelStates, Details
  <2>3. PanelTypeOK'
    BY <2>1, <2>2 DEF PanelInv, PanelTypeOK
  <2>4. (Untouched /\ EmptyWhileSubmitting /\ Coupled)'
    BY <2>1, <2>2 DEF PanelInv, Untouched, EmptyWhileSubmitting, Coupled
  <2>5. (DoneIsDone /\ OnlyThisReview /\ KeyBringsItBack)'
    BY <2>1, <2>2 DEF DoneIsDone, OnlyThisReview, KeyBringsItBack, NoDetail
  <2> QED
    BY <2>3, <2>4, <2>5 DEF PanelInv
<1>3. CASE Reload
  <2>0. /\ reloads' \in Nat /\ prefill' = FALSE /\ following' = Null
        /\ polls' = {} /\ cancels' = {} /\ notes' = {} /\ saves' = {}
        /\ UNCHANGED <<listing, finished, stopAsked, stored>>
    BY <1>3 DEF Reload, PanelInv, PanelTypeOK
  <2> USE <1>3 DEF Reload, Blank, NoPost, ProbeOf
  <2>1. panel' \in PanelStates
    BY DEF PanelStates, Details, NoDetail
  <2>2. probe' \in Probes /\ post' \in Posts /\ (probe'.at = "stored" => probe'.of # Null)
    BY DEF PanelInv, PanelTypeOK, Probes, Posts
  <2>3. PanelTypeOK'
    <3> HIDE <1>3 DEF Reload, Blank, NoPost, ProbeOf
    <3> QED
      BY <2>0, <2>1, <2>2 DEF PanelInv, PanelTypeOK
  <2>4. (Untouched /\ EmptyWhileSubmitting /\ Coupled)'
    BY DEF Untouched, EmptyWhileSubmitting, Coupled
  <2>5. (DoneIsDone /\ OnlyThisReview /\ KeyBringsItBack)'
    BY DEF DoneIsDone, OnlyThisReview, KeyBringsItBack, NoDetail
  <2> QED
    BY <2>3, <2>4, <2>5 DEF PanelInv
<1> QED
  BY <1>1, <1>2, <1>3 DEF PrefillAnswers

\* Every step keeps it.
LEMMA PanelInvNext == PanelInv /\ [PanelNext]_panelVars => PanelInv'
<1> SUFFICES ASSUME PanelInv, [PanelNext]_panelVars PROVE PanelInv'
  OBVIOUS
<1>1. CASE UNCHANGED panelVars
  <2> USE <1>1 DEF panelVars, serverVars, requestVars
  <2>1. PanelTypeOK'
    BY DEF PanelInv, PanelTypeOK
  <2>2. (Untouched /\ EmptyWhileSubmitting /\ Coupled)'
    BY DEF PanelInv, Untouched, EmptyWhileSubmitting, Coupled
  <2>3. (DoneIsDone /\ OnlyThisReview /\ KeyBringsItBack)'
    BY DEF PanelInv, DoneIsDone, OnlyThisReview, KeyBringsItBack, InFlight
  <2> QED
    BY <2>1, <2>2, <2>3 DEF PanelInv
<1>2. CASE PanelNext
  BY <1>2, ServerKeeps, ProbeKeeps, SubmitKeeps, PostMovesKeep, LandingKeeps, PollKeeps,
     GiveUpAndSaveKeep, PressKeeps, CancelKeeps, ButterKeeps, ClearKeeps
     DEF PanelNext
<1> QED
  BY <1>1, <1>2

\* Every reachable state satisfies the strengthened invariant.
THEOREM PanelInvariant == PanelSpec => []PanelInv
BY PanelInvInit, PanelInvNext, PTL DEF PanelSpec

\* The panel's state stays within its types.
THEOREM PanelTypeCorrect == PanelSpec => []PanelTypeOK
<1>1. PanelInv => PanelTypeOK
  BY DEF PanelInv
<1> QED
  BY <1>1, PanelInvariant, PTL

\* Whatever answers land and in whatever order, nothing on screen is about
\* another review, on a page whose probe was not overtaken by a submission.
THEOREM ScreenHolds == PanelSpec => []ScreenIsOneReview
<1>1. PanelInv => ScreenIsOneReview
  <2> SUFFICES ASSUME PanelInv, ~probe.late PROVE OneReviewOnScreen
    BY DEF ScreenIsOneReview
  <2> QED
    BY DEF PanelInv, OnlyThisReview, OneReviewOnScreen
<1> QED
  BY <1>1, PanelInvariant, PTL

\* "Stopping" and the held keys are about the review they were pressed for.
THEOREM AnswersHold == PanelSpec => []AnswersStayWithTheirReview
<1>1. PanelInv => AnswersStayWithTheirReview
  BY DEF PanelInv, Coupled, OnlyThisReview, AnswersStayWithTheirReview
<1> QED
  BY <1>1, PanelInvariant, PTL

\* A reload asks for the review this page submitted and still follows.
THEOREM KeyHolds == PanelSpec => []KeyBringsItBack
<1>1. PanelInv => KeyBringsItBack
  BY DEF PanelInv
<1> QED
  BY <1>1, PanelInvariant, PTL

\* No gesture and no answer takes a running review off the screen.
THEOREM NeverDetached == PanelSpec => RunningNeverDetached
<1>1. PanelInv /\ [PanelNext]_panelVars =>
        [(panel.review \in Known \ finished /\ ~panel.lost /\ ~probe.late)
           => panel'.review = panel.review \/ reloads' # reloads]_panelVars
  <2> SUFFICES ASSUME PanelInv, PanelNext,
                      panel.review \in Known \ finished, ~panel.lost, ~probe.late
               PROVE  panel'.review = panel.review \/ reloads' # reloads
    OBVIOUS
  <2> USE PanelAssumption
  <2>1. panel.review # Null
    BY DEF PanelInv, PanelTypeOK, Known
  <2>2. ~panel.submitting /\ post.at = "none"
    BY <2>1 DEF PanelInv, EmptyWhileSubmitting, Coupled
  <2>3. ~panel.detail.done
    BY DEF PanelInv, DoneIsDone, OnlyThisReview, NoDetail
  <2>4. InFlight
    BY <2>1, <2>3 DEF InFlight
  <2>5. panel \in PanelStates
    BY DEF PanelInv, PanelTypeOK
  <2>6. ASSUME NEW r \in OwnReviews, Adopt(r) PROVE panel' = panel
    BY <2>1, <2>6 DEF Adopt
  <2>7. CASE ProbeStored \/ ProbeListing
    <3>1. probe.at = "stored" => probe.of \in OwnReviews
      BY DEF PanelInv, PanelTypeOK, Probes
    <3>2. listing # <<>> => Head(listing) \in OwnReviews
      BY DEF PanelInv, PanelTypeOK
    <3> QED
      BY <2>6, <2>7, <3>1, <3>2 DEF ProbeStored, ProbeListing
  <2>8. CASE \E r \in OwnReviews : OtherTabSubmits(r) \/ Finishes(r) \/ CancelReaches(r)
                                  \/ Accepts(r)
    BY <2>8 DEF OtherTabSubmits, Finishes, CancelReaches, Accepts
  <2>9. CASE \E r \in OwnReviews : PollAnswers(r) \/ PollGivesUp(r) \/ SaveAnswers(r)
    <3>1. ASSUME NEW r \in OwnReviews, PollAnswers(r) PROVE panel'.review = panel.review
      BY <2>5, <3>1 DEF PollAnswers, PollRunning, PollEnded, PollDropped, PanelStates
    <3>2. ASSUME NEW r \in OwnReviews, PollGivesUp(r) PROVE panel'.review = panel.review
      BY <2>5, <3>2 DEF PollGivesUp, PanelStates
    <3>3. ASSUME NEW r \in OwnReviews, SaveAnswers(r) PROVE panel'.review = panel.review
      BY <2>5, <3>3 DEF SaveAnswers, PanelStates
    <3> QED
      BY <2>9, <3>1, <3>2, <3>3
  <2>10. CASE \E r \in OwnReviews : CancelAnswers(r) \/ ButterAnswers(r)
    <3>1. ASSUME NEW r \in OwnReviews, CancelAnswers(r) PROVE panel'.review = panel.review
      BY <2>5, <3>1 DEF CancelAnswers, PanelStates
    <3>2. ASSUME NEW r \in OwnReviews, ButterAnswers(r) PROVE panel'.review = panel.review
      BY <2>5, <3>2 DEF ButterAnswers, PanelStates
    <3> QED
      BY <2>10, <3>1, <3>2
  <2>11. CASE Submit \/ PostLands \/ SubmitFails \/ PostStalls \/ StallCheck
    BY <2>2, <2>4, <2>11 DEF Submit, PostLands, SubmitFails, PostStalls, StallCheck
  <2>12. CASE PressCancel \/ PressButter
    BY <2>5, <2>12 DEF PressCancel, PressButter, PanelStates
  <2>13. CASE PressRetry \/ PressRunAgain \/ PrefillAnswers
    BY <2>3, <2>4, <2>13 DEF PressRetry, PressRunAgain, PrefillAnswers, BusyAfterRead
  <2>14. CASE Reload
    BY <2>14 DEF Reload, PanelInv, PanelTypeOK
  <2> QED
    BY <2>7, <2>8, <2>9, <2>10, <2>11, <2>12, <2>13, <2>14 DEF PanelNext
<1> QED
  BY <1>1, PanelInvariant, PTL DEF PanelSpec, RunningNeverDetached

-----------------------------------------------------------------------------
(* What the gates of the daily_spend table see: no step but a settlement   *)
(* that finds another day's row takes from a counter what its day still    *)
(* owes.                                                                   *)

\* A row shows at least what its day has committed, but for the reservations
\* of other days that were credited to it.
Covers ==
  \A d \in Days : counter[d] >= owed[d] - crossed[d] /\ settled[d] >= direct[d]

FreshRows == \A d \in Days : d \notin dayRows => counter[d] = 0

PricedUnderCap ==
  \A s \in Spenders : spender[s].at = "asking" => spender[s].price <= spender[s].cap

ReadsCover ==
  \A c \in Clients : client[c].at = "read" => client[c].truth <= client[c].committed

SpendInv == SpendTypeOK /\ Covers /\ FreshRows /\ PricedUnderCap /\ ReadsCover

\* The row of a day changes by what is added to it.
LEMMA AddedAt ==
  ASSUME NEW f, NEW S, f \in [Days -> S], NEW d \in Days, NEW n
  PROVE  /\ DOMAIN Added(f, d, n) = Days
         /\ Added(f, d, n)[d] = f[d] + n
         /\ \A e \in Days : e # d => Added(f, d, n)[e] = f[e]
BY DEF Added

\* What is added keeps the type of the table.
LEMMA AddedInt ==
  ASSUME NEW f \in [Days -> Int], NEW d \in Days, NEW n \in Int
  PROVE  Added(f, d, n) \in [Days -> Int]
BY DEF Added

\* The same where nothing is subtracted.
LEMMA AddedNat ==
  ASSUME NEW f \in [Days -> Nat], NEW d \in Days, NEW n \in Nat
  PROVE  Added(f, d, n) \in [Days -> Nat]
BY DEF Added

\* There is a day to begin on.
LEMMA FirstDay == 1 \in Days
BY MoneyAssumption DEF Days

\* Prices and caps are numbers.
LEMMA Amounts ==
  /\ \A p \in Prices \cup {0} : p \in Nat
  /\ \A k \in Caps \cup {EnvCap, 0} : k \in Nat
  /\ \A k \in {0, FloorPrice} : k \in Nat
BY MoneyAssumption

\* A new review is in its type.
LEMMA NewIsState == NewSpender \in SpenderState
BY FirstDay DEF NewSpender, SpenderState, SpenderAt

\* A client that asks for nothing is in its type.
LEMMA IdleIsState == IdleClient \in ClientState
BY FirstDay DEF IdleClient, ClientState

\* The empty table satisfies the invariant.
THEOREM SpendInvInit == SpendInit => SpendInv
<1> SUFFICES ASSUME SpendInit PROVE SpendInv
  OBVIOUS
<1> USE DEF SpendInit
<1>1. SpendTypeOK
  BY NewIsState, IdleIsState, FirstDay, MoneyAssumption DEF SpendTypeOK
<1>2. Covers /\ FreshRows
  BY DEF Covers, FreshRows
<1>3. PricedUnderCap /\ ReadsCover
  BY DEF PricedUnderCap, ReadsCover, NewSpender, IdleClient
<1> QED
  BY <1>1, <1>2, <1>3 DEF SpendInv

-----------------------------------------------------------------------------

\* A review's step to a state that is not "asking" keeps the types and prices.
LEMMA SpendsState ==
  ASSUME SpendTypeOK, PricedUnderCap,
         NEW s \in Spenders, NEW z \in SpenderState,
         z.at = "asking" => z.price <= z.cap,
         Spends(s, z)
  PROVE  spender' \in [Spenders -> SpenderState] /\ PricedUnderCap'
<1>1. spender' \in [Spenders -> SpenderState]
  BY DEF SpendTypeOK, Spends
<1>2. ASSUME NEW t \in Spenders, spender'[t].at = "asking"
      PROVE  spender'[t].price <= spender'[t].cap
  BY <1>2 DEF SpendTypeOK, Spends, PricedUnderCap
<1> QED
  BY <1>1, <1>2 DEF PricedUnderCap

\* A step of a client that does not raise what it read keeps the types and reads.
LEMMA AsksState ==
  ASSUME SpendTypeOK, ReadsCover,
         NEW c \in Clients, NEW q \in ClientState,
         q.at = "read" => q.truth <= q.committed,
         Asks(c, q)
  PROVE  client' \in [Clients -> ClientState] /\ ReadsCover'
<1>1. client' \in [Clients -> ClientState]
  BY DEF SpendTypeOK, Asks
<1>2. ASSUME NEW d \in Clients, client'[d].at = "read"
      PROVE  client'[d].truth <= client'[d].committed
  BY <1>2 DEF SpendTypeOK, Asks, ReadsCover
<1> QED
  BY <1>1, <1>2 DEF ReadsCover

\* A step that touches no table keeps what the rows cover.
LEMMA TablesStay ==
  ASSUME Covers, FreshRows, UNCHANGED <<tableVars, historyVars>>
  PROVE  Covers' /\ FreshRows'
BY DEF Covers, FreshRows, tableVars, historyVars

\* A step of one review that touches no row.
LEMMA QuietSpender ==
  ASSUME SpendInv, NEW s \in Spenders, NEW z \in SpenderState,
         z.at = "asking" => z.price <= z.cap,
         Spends(s, z),
         UNCHANGED <<today, adminCap, tableVars, client, billed, historyVars>>
  PROVE  SpendInv'
<1> USE DEF SpendInv
<1>1. spender' \in [Spenders -> SpenderState] /\ PricedUnderCap'
  BY SpendsState
<1>2. SpendTypeOK'
  BY <1>1 DEF SpendTypeOK, tableVars, historyVars
<1>3. Covers' /\ FreshRows'
  BY TablesStay
<1>4. ReadsCover'
  BY DEF ReadsCover
<1> QED
  BY <1>1, <1>2, <1>3, <1>4

\* A step of one request that touches no row.
LEMMA QuietClient ==
  ASSUME SpendInv, NEW c \in Clients, NEW q \in ClientState,
         q.at = "read" => q.truth <= q.committed,
         Asks(c, q), billed' \in 0 .. MaxNotes,
         UNCHANGED <<today, adminCap, tableVars, spender, historyVars>>
  PROVE  SpendInv'
<1> USE DEF SpendInv
<1>1. client' \in [Clients -> ClientState] /\ ReadsCover'
  BY AsksState
<1>2. SpendTypeOK'
  BY <1>1 DEF SpendTypeOK, tableVars, historyVars
<1>3. Covers' /\ FreshRows'
  BY TablesStay
<1>4. PricedUnderCap'
  BY DEF PricedUnderCap
<1> QED
  BY <1>1, <1>2, <1>3, <1>4

\* Midnight, and an admin who sets the cap.
LEMMA ClockAndCap ==
  ASSUME SpendInv, Midnight \/ \E k \in Caps \cup {EnvCap} : SetCap(k)
  PROVE  SpendInv'
<1> USE DEF SpendInv
<1>1. UNCHANGED <<tableVars, spender, client, billed, historyVars>>
  BY DEF Midnight, SetCap
<1>2. today' \in Days /\ adminCap' \in Caps \cup {EnvCap}
  <2>1. CASE Midnight
    BY <2>1, MoneyAssumption DEF Midnight, SpendTypeOK, Days
  <2>2. ASSUME NEW k \in Caps \cup {EnvCap}, SetCap(k)
      PROVE  today' \in Days /\ adminCap' \in Caps \cup {EnvCap}
    BY <2>2 DEF SetCap, SpendTypeOK
  <2> QED
    BY <2>1, <2>2
<1>3. SpendTypeOK'
  BY <1>1, <1>2 DEF SpendTypeOK, tableVars, historyVars
<1>4. Covers' /\ FreshRows'
  BY <1>1, TablesStay
<1>5. PricedUnderCap' /\ ReadsCover'
  BY <1>1 DEF PricedUnderCap, ReadsCover
<1> QED
  BY <1>3, <1>4, <1>5

\* The steps of a review that touch no row.
LEMMA QuietSteps ==
  ASSUME SpendInv, NEW s \in Spenders,
         \/ ReserveBegin(s) \/ ReserveRefused(s) \/ FloorBegin(s)
         \/ FloorStamps(s) \/ SettleBegin(s) \/ SettleRaises(s)
  PROVE  SpendInv'
<1>1. spender[s] \in SpenderState /\ today \in Days
  BY DEF SpendInv, SpendTypeOK
<1> DEFINE Refused == [NewSpender EXCEPT !.at = "refused"]
<1>2. Refused \in SpenderState /\ Refused.at # "asking"
  BY NewIsState DEF SpenderState, SpenderAt, NewSpender
<1>3. CASE ReserveBegin(s)
  <2>1. PICK p \in Prices, k \in Resolved :
          Spends(s, IF p > k THEN Refused
                    ELSE [NewSpender EXCEPT !.at = "asking", !.day = today, !.price = p, !.cap = k])
    BY <1>3 DEF ReserveBegin
  <2> DEFINE Z == [NewSpender EXCEPT !.at = "asking", !.day = today, !.price = p, !.cap = k]
  <2>2. k \in Caps \cup {EnvCap}
    BY DEF Resolved, SpendInv, SpendTypeOK
  <2>3. Z \in SpenderState
    BY <1>1, <2>2, NewIsState DEF SpenderState, SpenderAt, NewSpender
  <2>4. Z.price = p /\ Z.cap = k
    BY DEF NewSpender
  <2>5. p \in Nat /\ k \in Nat
    BY <2>2, Amounts
  <2>6. CASE p > k
    BY <2>1, <2>6, <1>2, <1>3, QuietSpender DEF ReserveBegin
  <2>7. CASE ~(p > k)
    <3>1. Spends(s, Z) /\ Z.price <= Z.cap
      BY <2>1, <2>4, <2>5, <2>7
    <3> QED
      BY <3>1, <2>3, <1>3, QuietSpender DEF ReserveBegin
  <2> QED
    BY <2>6, <2>7
<1>4. CASE ReserveRefused(s)
  BY <1>4, <1>2, QuietSpender DEF ReserveRefused
<1>5. CASE FloorBegin(s)
  <2> DEFINE Z == [spender[s] EXCEPT !.at = "floor", !.floorDay = today]
  <2>1. Z \in SpenderState /\ Z.at # "asking"
    BY <1>1 DEF SpenderState, SpenderAt
  <2> QED
    BY <1>5, <2>1, QuietSpender DEF FloorBegin
<1>6. CASE FloorStamps(s)
  <2> DEFINE Z == [spender[s] EXCEPT !.at = "judged", !.floorCents = FloorPrice]
  <2>1. Z \in SpenderState /\ Z.at # "asking"
    BY <1>1 DEF SpenderState, SpenderAt
  <2> QED
    BY <1>6, <2>1, QuietSpender DEF FloorStamps
<1>7. CASE SettleBegin(s)
  <2> DEFINE Z == [spender[s] EXCEPT !.at = "settle", !.on = today]
  <2>1. Z \in SpenderState /\ Z.at # "asking"
    BY <1>1 DEF SpenderState, SpenderAt
  <2> QED
    BY <1>7, <2>1, QuietSpender DEF SettleBegin
<1>8. CASE SettleRaises(s)
  <2> DEFINE Z == [spender[s] EXCEPT !.at = "unledgered"]
  <2>1. Z \in SpenderState /\ Z.at # "asking"
    BY <1>1 DEF SpenderState, SpenderAt
  <2> QED
    BY <1>8, <2>1, QuietSpender DEF SettleRaises
<1> QED
  BY <1>3, <1>4, <1>5, <1>6, <1>7, <1>8

\* A reservation or the Floor's worst case goes on a counter and on what its
\* day owes.
LEMMA Raised ==
  ASSUME SpendInv, NEW d \in Days, NEW n \in Nat,
         dayRows' = dayRows \cup {d},
         counter' = Added(counter, d, n), owed' = Added(owed, d, n),
         UNCHANGED <<settled, direct, crossed>>
  PROVE  /\ Covers' /\ FreshRows'
         /\ dayRows' \subseteq Days
         /\ counter' \in [Days -> Int] /\ owed' \in [Days -> Int]
<1> USE DEF SpendInv
<1>1. counter' \in [Days -> Int] /\ owed' \in [Days -> Int] /\ dayRows' \subseteq Days
  <2>1. counter \in [Days -> Int] /\ owed \in [Days -> Int] /\ dayRows \subseteq Days /\ n \in Int
    BY DEF SpendTypeOK
  <2> QED
    BY <2>1, AddedInt
<1>2. ASSUME NEW e \in Days
      PROVE  /\ counter'[e] = counter[e] + (IF e = d THEN n ELSE 0)
             /\ owed'[e] = owed[e] + (IF e = d THEN n ELSE 0)
             /\ e \notin dayRows' => e # d
  BY DEF Added, SpendTypeOK
<1>3. Covers'
  <2> SUFFICES ASSUME NEW e \in Days
               PROVE  counter'[e] >= owed'[e] - crossed[e] /\ settled[e] >= direct[e]
    BY DEF Covers
  <2>1. counter[e] \in Int /\ owed[e] \in Int /\ crossed[e] \in Nat
    BY DEF SpendTypeOK
  <2>2. counter[e] >= owed[e] - crossed[e] /\ settled[e] >= direct[e]
    BY DEF Covers
  <2> QED
    BY <1>2, <2>1, <2>2
<1>4. FreshRows'
  <2> SUFFICES ASSUME NEW e \in Days, e \notin dayRows'
               PROVE  counter'[e] = 0
    BY DEF FreshRows
  <2>1. e # d /\ e \notin dayRows
    BY <1>2
  <2> QED
    BY <1>2, <2>1 DEF FreshRows
<1> QED
  BY <1>1, <1>3, <1>4

\* The reservation of a review.
LEMMA ReserveStep ==
  ASSUME SpendInv, NEW s \in Spenders, ReserveSpend(s)
  PROVE  SpendInv'
<1> DEFINE Z == [spender[s] EXCEPT !.at = "running", !.cap = 0]
<1>1. /\ Z \in SpenderState /\ Z.at # "asking"
      /\ spender[s].day \in Days /\ spender[s].price \in Nat
  BY Amounts DEF SpendInv, SpendTypeOK, SpenderState, SpenderAt
<1>2. /\ Covers' /\ FreshRows'
      /\ dayRows' \subseteq Days
      /\ counter' \in [Days -> Int] /\ owed' \in [Days -> Int]
  BY <1>1, Raised DEF ReserveSpend
<1>3. spender' \in [Spenders -> SpenderState] /\ PricedUnderCap'
  BY <1>1, SpendsState DEF ReserveSpend, SpendInv
<1>4. SpendTypeOK'
  BY <1>2, <1>3 DEF ReserveSpend, SpendInv, SpendTypeOK
<1>5. ReadsCover'
  BY DEF ReserveSpend, SpendInv, ReadsCover
<1> QED
  BY <1>2, <1>3, <1>4, <1>5 DEF SpendInv

\* The reservation raised to its floor.
LEMMA FloorRaisesStep ==
  ASSUME SpendInv, NEW s \in Spenders, FloorRaises(s)
  PROVE  SpendInv'
<1> DEFINE Z == [spender[s] EXCEPT !.at = "stamp"]
<1>1. Z \in SpenderState /\ Z.at # "asking" /\ spender[s].floorDay \in Days
  BY DEF SpendInv, SpendTypeOK, SpenderState, SpenderAt
<1>2. /\ Covers' /\ FreshRows'
      /\ dayRows' \subseteq Days
      /\ counter' \in [Days -> Int] /\ owed' \in [Days -> Int]
  BY <1>1, Raised, MoneyAssumption DEF FloorRaises
<1>3. spender' \in [Spenders -> SpenderState] /\ PricedUnderCap'
  BY <1>1, SpendsState DEF FloorRaises, SpendInv
<1>4. SpendTypeOK'
  BY <1>2, <1>3 DEF FloorRaises, SpendInv, SpendTypeOK
<1>5. ReadsCover'
  BY DEF FloorRaises, SpendInv, ReadsCover
<1> QED
  BY <1>2, <1>3, <1>4, <1>5 DEF SpendInv

\* A settlement takes from the row it finds no more than it takes from what
\* that day owes, but for what it counts as crossed.
LEMMA SettleStep ==
  ASSUME SpendInv, NEW s \in Spenders, Settle(s)
  PROVE  SpendInv'
<1> USE DEF SpendInv
<1> DEFINE z == spender[s]
<1> DEFINE Z == [NewSpender EXCEPT !.at = "over"]
<1>1. /\ z.on \in Days /\ z.day \in Days /\ z.floorDay \in Days
      /\ z.price \in Nat /\ z.floorCents \in Nat
  BY Amounts DEF SpendTypeOK, SpenderState
<1>2. Z \in SpenderState /\ Z.at # "asking"
  BY NewIsState DEF SpenderState, SpenderAt, NewSpender
<1>3. PICK actual \in 0 .. MaxActual :
        /\ counter' = Added(counter, z.on, actual - (z.price + z.floorCents))
        /\ settled' = Added(settled, z.on, actual)
        /\ owed' = Added(Added(Added(owed, z.day, - z.price), z.floorDay, - z.floorCents),
                         z.on, actual)
  BY DEF Settle
<1>4. actual \in Nat
  BY MoneyAssumption
<1>5. CrossedBy(z) \in Nat
  BY <1>1 DEF CrossedBy
<1>6. /\ crossed' = Added(crossed, z.on, CrossedBy(z))
      /\ z.on \in dayRows /\ Spends(s, Z)
      /\ UNCHANGED <<today, adminCap, dayRows, client, billed, direct>>
  BY DEF Settle
<1>7. spender' \in [Spenders -> SpenderState] /\ PricedUnderCap'
  BY <1>2, <1>6, SpendsState
<1>8. counter' \in [Days -> Int] /\ settled' \in [Days -> Nat] /\ crossed' \in [Days -> Nat]
  <2>1. actual - (z.price + z.floorCents) \in Int
    BY <1>1, <1>4
  <2>2. /\ counter \in [Days -> Int] /\ settled \in [Days -> Nat]
        /\ crossed \in [Days -> Nat]
    BY DEF SpendTypeOK
  <2>3. counter' \in [Days -> Int]
    BY <1>1, <1>3, <2>1, <2>2, AddedInt
  <2>4. settled' \in [Days -> Nat]
    BY <1>1, <1>3, <1>4, <2>2, AddedNat
  <2>5. crossed' \in [Days -> Nat]
    BY <1>1, <1>5, <1>6, <2>2, AddedNat
  <2> QED
    BY <2>3, <2>4, <2>5
<1> DEFINE O1 == Added(owed, z.day, - z.price)
<1> DEFINE O2 == Added(O1, z.floorDay, - z.floorCents)
<1>9. O1 \in [Days -> Int] /\ O2 \in [Days -> Int] /\ owed' \in [Days -> Int]
  <2>1. - z.price \in Int /\ - z.floorCents \in Int
    BY <1>1
  <2>2. O1 \in [Days -> Int]
    BY <1>1, <2>1, AddedInt DEF SpendTypeOK
  <2>3. O2 \in [Days -> Int]
    BY <1>1, <2>1, <2>2, AddedInt
  <2>4. actual \in Int
    BY <1>4
  <2>5. owed' = Added(O2, z.on, actual)
    BY <1>3
  <2> HIDE DEF O2
  <2>6. owed' \in [Days -> Int]
    BY <1>1, <2>3, <2>4, <2>5, AddedInt
  <2> QED
    BY <2>2, <2>3, <2>6
<1>10. SpendTypeOK'
  BY <1>6, <1>7, <1>8, <1>9 DEF SpendTypeOK
<1>11. Covers'
  <2> SUFFICES ASSUME NEW d \in Days
               PROVE  counter'[d] >= owed'[d] - crossed'[d] /\ settled'[d] >= direct'[d]
    BY DEF Covers
  <2>1. /\ counter[d] \in Int /\ owed[d] \in Int /\ crossed[d] \in Nat
        /\ settled[d] \in Nat /\ direct[d] \in Nat
    BY DEF SpendTypeOK
  <2>2. counter[d] >= owed[d] - crossed[d] /\ settled[d] >= direct[d]
    BY DEF Covers
  <2>3. O1[d] = owed[d] + (IF d = z.day THEN - z.price ELSE 0)
    BY <1>1, <2>1 DEF Added, SpendTypeOK
  <2>4. O2[d] = O1[d] + (IF d = z.floorDay THEN - z.floorCents ELSE 0)
    <3> HIDE DEF O1
    <3>1. O1[d] \in Int
      BY <1>9
    <3> QED
      BY <1>1, <1>9, <3>1 DEF Added
  <2>5. owed'[d] = O2[d] + (IF d = z.on THEN actual ELSE 0)
    <3>1. owed' = Added(O2, z.on, actual)
      BY <1>3
    <3> HIDE DEF O2
    <3>2. O2[d] \in Int
      BY <1>9
    <3> QED
      BY <1>1, <1>9, <3>1, <3>2 DEF Added
  <2>6. counter'[d] = counter[d] + (IF d = z.on THEN actual - (z.price + z.floorCents) ELSE 0)
    BY <1>1, <1>3, <2>1 DEF Added, SpendTypeOK
  <2>7. settled'[d] = settled[d] + (IF d = z.on THEN actual ELSE 0)
    BY <1>1, <1>3, <2>1 DEF Added, SpendTypeOK
  <2>8. crossed'[d] = crossed[d] + (IF d = z.on THEN CrossedBy(z) ELSE 0)
    BY <1>1, <1>6, <2>1 DEF Added, SpendTypeOK
  <2>9. CrossedBy(z) = (IF z.day # z.on THEN z.price ELSE 0)
                       + (IF z.floorDay # z.on THEN z.floorCents ELSE 0)
    BY DEF CrossedBy
  <2> HIDE DEF O1, O2, z
  <2>10. settled'[d] >= direct'[d]
    BY <1>4, <1>6, <2>1, <2>2, <2>7
  <2>11. owed'[d] = owed[d] + (IF d = z.day THEN - z.price ELSE 0)
                    + (IF d = z.floorDay THEN - z.floorCents ELSE 0)
                    + (IF d = z.on THEN actual ELSE 0)
    BY <2>3, <2>4, <2>5
  <2>12. counter'[d] >= owed'[d] - crossed'[d]
    BY <1>1, <1>4, <2>1, <2>2, <2>6, <2>8, <2>9, <2>11
  <2> QED
    BY <2>10, <2>12
<1>12. FreshRows'
  BY <1>1, <1>3, <1>6 DEF FreshRows, Added, SpendTypeOK
<1>13. ReadsCover'
  BY <1>6 DEF ReadsCover
<1> QED
  BY <1>7, <1>10, <1>11, <1>12, <1>13

\* A cover note is paid for.
LEMMA PaysStep ==
  ASSUME SpendInv, NEW c \in Clients, Pays(c)
  PROVE  SpendInv'
<1> USE DEF SpendInv
<1> DEFINE d == client[c].day
<1>1. d \in Days /\ NotePrice \in Nat
  BY MoneyAssumption DEF SpendTypeOK, ClientState
<1>2. /\ settled' = Added(settled, d, NotePrice) /\ direct' = Added(direct, d, NotePrice)
      /\ Asks(c, IdleClient)
      /\ UNCHANGED <<today, adminCap, dayRows, counter, spender, billed, owed, crossed>>
  BY DEF Pays
<1>3. client' \in [Clients -> ClientState] /\ ReadsCover'
  BY <1>2, IdleIsState, AsksState DEF IdleClient
<1>4. settled' \in [Days -> Nat] /\ direct' \in [Days -> Nat]
  BY <1>1, <1>2, AddedNat DEF SpendTypeOK
<1>5. SpendTypeOK'
  BY <1>2, <1>3, <1>4 DEF SpendTypeOK
<1>6. Covers'
  <2> SUFFICES ASSUME NEW e \in Days
               PROVE  counter[e] >= owed[e] - crossed[e] /\ settled'[e] >= direct'[e]
    BY <1>2 DEF Covers
  <2>1. /\ settled'[e] = settled[e] + (IF e = d THEN NotePrice ELSE 0)
        /\ direct'[e] = direct[e] + (IF e = d THEN NotePrice ELSE 0)
    BY <1>1, <1>2 DEF Added, SpendTypeOK
  <2>2. settled[e] \in Nat /\ direct[e] \in Nat
    BY DEF SpendTypeOK
  <2>3. counter[e] >= owed[e] - crossed[e] /\ settled[e] >= direct[e]
    BY DEF Covers
  <2> QED
    BY <1>1, <2>1, <2>2, <2>3
<1>7. FreshRows' /\ PricedUnderCap'
  BY <1>2 DEF FreshRows, PricedUnderCap
<1> QED
  BY <1>3, <1>5, <1>6, <1>7

\* The steps of a request that touch no row: the gate reads no less than the
\* day has committed.
LEMMA QuietRequests ==
  ASSUME SpendInv, NEW c \in Clients,
         \/ NoteReads(c) \/ NoteAdmitted(c) \/ NoteRefused(c)
         \/ NoteFails(c) \/ Answered(c)
  PROVE  SpendInv'
<1> USE DEF SpendInv
<1>1. billed \in 0 .. MaxNotes /\ billed + 1 \in Nat /\ MaxNotes \in Nat
  BY MoneyAssumption DEF SpendTypeOK
<1>2. CASE NoteReads(c)
  <2> DEFINE Q == [IdleClient EXCEPT !.at = "read",
                     !.committed = counter[today] + settled[today],
                     !.truth = owed[today] + direct[today] - crossed[today]]
  <2>1. /\ today \in Days /\ counter[today] \in Int /\ settled[today] \in Nat
        /\ owed[today] \in Int /\ direct[today] \in Nat /\ crossed[today] \in Nat
    BY DEF SpendTypeOK
  <2>2. Q \in ClientState
    <3>1. /\ counter[today] + settled[today] \in Int
          /\ owed[today] + direct[today] - crossed[today] \in Int
      BY <2>1
    <3> QED
      BY <3>1, FirstDay DEF ClientState, IdleClient
  <2>3. owed[today] + direct[today] - crossed[today] <= counter[today] + settled[today]
    BY <2>1 DEF Covers
  <2>4. Q.truth <= Q.committed
    BY <2>3 DEF IdleClient
  <2> QED
    BY <1>1, <1>2, <2>2, <2>4, QuietClient DEF NoteReads
<1>3. CASE NoteAdmitted(c)
  <2> DEFINE Q == [IdleClient EXCEPT !.at = "calling"]
  <2>1. Q \in ClientState /\ Q.at # "read"
    BY IdleIsState DEF ClientState, IdleClient
  <2> QED
    BY <1>1, <1>3, <2>1, QuietClient DEF NoteAdmitted
<1>4. CASE NoteRefused(c)
  BY <1>1, <1>4, IdleIsState, QuietClient DEF NoteRefused, IdleClient
<1>5. CASE NoteFails(c)
  BY <1>1, <1>5, IdleIsState, QuietClient DEF NoteFails, IdleClient
<1>6. CASE Answered(c)
  <2> DEFINE Q == [IdleClient EXCEPT !.at = "paying", !.day = today]
  <2>1. Q \in ClientState /\ Q.at # "read"
    BY IdleIsState DEF ClientState, IdleClient, SpendTypeOK
  <2>2. billed' \in 0 .. MaxNotes
    BY <1>1, <1>6 DEF Answered
  <2> QED
    BY <1>6, <2>1, <2>2, QuietClient DEF Answered
<1> QED
  BY <1>2, <1>3, <1>4, <1>5, <1>6

-----------------------------------------------------------------------------

\* A step that changes nothing.
LEMMA SpendInvStutter ==
  ASSUME SpendInv, UNCHANGED spendVars
  PROVE  SpendInv'
BY DEF SpendInv, SpendTypeOK, Covers, FreshRows, PricedUnderCap, ReadsCover,
       spendVars, tableVars, historyVars

\* Every step keeps the invariant.
THEOREM SpendInvInductive == SpendInv /\ [SpendNext]_spendVars => SpendInv'
<1> SUFFICES ASSUME SpendInv, [SpendNext]_spendVars PROVE SpendInv'
  OBVIOUS
<1>1. CASE Midnight \/ \E k \in Caps \cup {EnvCap} : SetCap(k)
  BY <1>1, ClockAndCap
<1>2. ASSUME NEW s \in Spenders,
             \/ ReserveBegin(s) \/ ReserveSpend(s) \/ ReserveRefused(s)
             \/ FloorBegin(s) \/ FloorRaises(s) \/ FloorStamps(s)
             \/ SettleBegin(s) \/ Settle(s) \/ SettleRaises(s)
      PROVE  SpendInv'
  BY <1>2, QuietSteps, ReserveStep, FloorRaisesStep, SettleStep
<1>3. ASSUME NEW c \in Clients,
             \/ NoteReads(c) \/ NoteAdmitted(c) \/ NoteRefused(c) \/ NoteFails(c)
             \/ Answered(c) \/ Pays(c)
      PROVE  SpendInv'
  BY <1>3, QuietRequests, PaysStep
<1>4. CASE UNCHANGED spendVars
  BY <1>4, SpendInvStutter
<1> QED
  BY <1>1, <1>2, <1>3, <1>4 DEF SpendNext

\* The rows keep their shape, and show what their day has committed, in every
\* reachable state.
THEOREM SpendInvariant == SpendSpec => []SpendInv
BY SpendInvInit, SpendInvInductive, PTL DEF SpendSpec

\* The review that is let through is the one that moves.
LEMMA SpendsOnly ==
  ASSUME SpendTypeOK, NEW s \in Spenders, Admitted(s),
         NEW t \in Spenders, NEW z, Spends(t, z)
  PROVE  t = s /\ z.at = "running"
BY DEF SpendTypeOK, Admitted, Spends

\* The client that is let through is the one that moves.
LEMMA AsksOnly ==
  ASSUME SpendTypeOK, NEW c \in Clients, Gated(c),
         NEW d \in Clients, NEW q, Asks(d, q)
  PROVE  d = c /\ q.at = "calling"
BY DEF SpendTypeOK, Gated, Asks

\* Only the conditional write admits a review.
LEMMA AdmittedReserves ==
  ASSUME SpendInv, SpendNext, NEW s \in Spenders, Admitted(s)
  PROVE  ReserveSpend(s)
<1>1. spender \in [Spenders -> SpenderState] /\ SpendTypeOK
  BY DEF SpendInv, SpendTypeOK
<1>2. spender' # spender
  BY DEF Admitted
<1>3. PICK t \in Spenders :
        \/ ReserveBegin(t) \/ ReserveSpend(t) \/ ReserveRefused(t)
        \/ FloorBegin(t) \/ FloorRaises(t) \/ FloorStamps(t)
        \/ SettleBegin(t) \/ Settle(t) \/ SettleRaises(t)
  BY <1>2 DEF SpendNext, Midnight, SetCap, NoteReads, NoteAdmitted, NoteRefused,
              NoteFails, Answered, Pays
<1>4. spender[t] \in SpenderState
  BY <1>1
<1>5. ~ReserveBegin(t)
  <2> SUFFICES ASSUME ReserveBegin(t) PROVE FALSE
    OBVIOUS
  <2>1. PICK p \in Prices, k \in Resolved :
          Spends(t, IF p > k THEN [NewSpender EXCEPT !.at = "refused"]
                    ELSE [NewSpender EXCEPT !.at = "asking", !.day = today, !.price = p, !.cap = k])
    BY DEF ReserveBegin
  <2>2. (IF p > k THEN [NewSpender EXCEPT !.at = "refused"]
         ELSE [NewSpender EXCEPT !.at = "asking", !.day = today, !.price = p, !.cap = k]).at
          # "running"
    BY DEF NewSpender
  <2> QED
    BY <1>1, <2>1, <2>2, SpendsOnly
<1>6. ~ReserveRefused(t) /\ ~Settle(t)
  <2>1. [NewSpender EXCEPT !.at = "refused"].at # "running"
    BY DEF NewSpender
  <2>2. [NewSpender EXCEPT !.at = "over"].at # "running"
    BY DEF NewSpender
  <2> QED
    BY <1>1, <2>1, <2>2, SpendsOnly DEF ReserveRefused, Settle
<1>7. ~FloorBegin(t) /\ ~FloorRaises(t) /\ ~FloorStamps(t) /\ ~SettleBegin(t) /\ ~SettleRaises(t)
  <2>1. /\ [spender[t] EXCEPT !.at = "floor", !.floorDay = today].at # "running"
        /\ [spender[t] EXCEPT !.at = "stamp"].at # "running"
        /\ [spender[t] EXCEPT !.at = "judged", !.floorCents = FloorPrice].at # "running"
        /\ [spender[t] EXCEPT !.at = "settle", !.on = today].at # "running"
        /\ [spender[t] EXCEPT !.at = "unledgered"].at # "running"
    BY <1>4 DEF SpenderState
  <2> QED
    BY <1>1, <2>1, SpendsOnly
    DEF FloorBegin, FloorRaises, FloorStamps, SettleBegin, SettleRaises
<1>8. ReserveSpend(t)
  BY <1>3, <1>5, <1>6, <1>7
<1>9. t = s
  BY <1>1, <1>8, SpendsOnly DEF ReserveSpend
<1> QED
  BY <1>8, <1>9

\* Only the gate admits a cover note.
LEMMA GatedAdmits ==
  ASSUME SpendInv, SpendNext, NEW c \in Clients, Gated(c)
  PROVE  NoteAdmitted(c)
<1>1. SpendTypeOK
  BY DEF SpendInv
<1>2. client' # client
  BY DEF Gated
<1>3. PICK d \in Clients :
        \/ NoteReads(d) \/ NoteAdmitted(d) \/ NoteRefused(d) \/ NoteFails(d)
        \/ Answered(d) \/ Pays(d)
  BY <1>2 DEF SpendNext, Midnight, SetCap, ReserveBegin, ReserveSpend, ReserveRefused,
              FloorBegin, FloorRaises, FloorStamps, SettleBegin, Settle, SettleRaises
<1>4. ~NoteReads(d) /\ ~Answered(d)
  <2>1. /\ [IdleClient EXCEPT !.at = "read",
               !.committed = counter[today] + settled[today],
               !.truth = owed[today] + direct[today] - crossed[today]].at # "calling"
        /\ [IdleClient EXCEPT !.at = "paying", !.day = today].at # "calling"
    BY DEF IdleClient
  <2> QED
    BY <1>1, <2>1, AsksOnly DEF NoteReads, Answered
<1>5. ~NoteRefused(d) /\ ~NoteFails(d) /\ ~Pays(d)
  <2>1. IdleClient.at # "calling"
    BY DEF IdleClient
  <2> QED
    BY <1>1, <2>1, AsksOnly DEF NoteRefused, NoteFails, Pays
<1>6. NoteAdmitted(d)
  BY <1>3, <1>4, <1>5
<1> QED
  BY <1>1, <1>6, AsksOnly DEF NoteAdmitted

\* No reservation and no cover note is let through over the cap it was checked
\* against, but for the money of other days credited to this one.
THEOREM AdmittedWithinCapHolds == SpendSpec => AdmittedWithinCap
<1>1. SpendInv /\ SpendNext => Fits
  <2> SUFFICES ASSUME SpendInv, SpendNext PROVE Fits
    OBVIOUS
  <2>1. ASSUME NEW s \in Spenders, Admitted(s)
        PROVE  owed'[spender[s].day] <= spender[s].cap + crossed'[spender[s].day]
    <3> DEFINE d == spender[s].day
    <3>1. ReserveSpend(s)
      BY <2>1, AdmittedReserves
    <3>2. /\ d \in Days /\ spender[s].price \in Nat /\ spender[s].cap \in Nat
          /\ owed[d] \in Int /\ crossed[d] \in Nat /\ counter[d] \in Int
      BY Amounts DEF SpendInv, SpendTypeOK, SpenderState
    <3>3. counter[d] <= spender[s].cap - spender[s].price
      <4>1. CASE d \notin dayRows
        BY <4>1, <3>2, <2>1 DEF Admitted, SpendInv, FreshRows, PricedUnderCap
      <4>2. CASE d \in dayRows
        BY <4>2, <3>1 DEF ReserveSpend, UnderBudget
      <4> QED
        BY <4>1, <4>2
    <3>4. owed[d] - crossed[d] <= counter[d]
      BY <3>2 DEF SpendInv, Covers
    <3>5. owed'[d] = owed[d] + spender[s].price /\ crossed'[d] = crossed[d]
      BY <3>1, <3>2 DEF ReserveSpend, Added, SpendInv, SpendTypeOK
    <3> QED
      BY <3>2, <3>3, <3>4, <3>5
  <2>2. ASSUME NEW c \in Clients, Gated(c)
        PROVE  \E k \in Resolved : client[c].truth < k
    <3>1. NoteAdmitted(c)
      BY <2>2, GatedAdmits
    <3>2. PICK k \in Resolved : client[c].committed < k
      BY <3>1 DEF NoteAdmitted
    <3>3. /\ client[c].truth \in Int /\ client[c].committed \in Int
          /\ client[c].truth <= client[c].committed
      BY <3>1 DEF NoteAdmitted, SpendInv, SpendTypeOK, ClientState, ReadsCover
    <3>4. k \in Nat
      BY Amounts DEF Resolved, SpendInv, SpendTypeOK
    <3> QED
      BY <3>2, <3>3, <3>4
  <2> QED
    BY <2>1, <2>2 DEF Fits
<1>2. SpendInv /\ [SpendNext]_spendVars => [Fits]_spendVars
  BY <1>1
<1> QED
  BY <1>2, SpendInvariant, PTL DEF SpendSpec, AdmittedWithinCap

=============================================================================
