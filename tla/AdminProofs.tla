----------------------------- MODULE AdminProofs -----------------------------
(***************************************************************************)
(* Theorems about what administrators do: the versions of a playbook, for  *)
(* any number of versions, contents, reviews and interrupted operations,   *)
(* and the users, for any number of requests, users and passwords.         *)
(***************************************************************************)
EXTENDS PlaybookVersions, Accounts, TLAPS, WellFoundedInduction

-----------------------------------------------------------------------------
(* The versions of a playbook.                                             *)

\* A nonempty set of versions has a first one: the table's order.
LEMMA FirstVersion ==
  ASSUME NEW S \in SUBSET Versions, S # {}
  PROVE  \E v \in S : \A w \in S : v <= w
<1> DEFINE Less == {ss \in Nat \X Nat : ss[1] < ss[2]}
<1>1. S \subseteq Nat
  BY VersionAssumption
<1>2. IsWellFoundedOn(Less, Nat)
  BY NatLessThanWellFounded, Zenon DEF OpToRel
<1>3. PICK v \in S : \A w \in S : ~(<<w, v>> \in Less)
  <2> HIDE DEF Less
  <2> QED
    BY <1>1, <1>2, WFMin, Zenon
<1>4. \A w \in S : ~(w < v)
  BY <1>1, <1>3
<1> QED
  BY <1>1, <1>4

\* The active version is a version of the table whose row is active, or 0
\* if there is none.
LEMMA ActiveVersionIs ==
  ASSUME VersionsTypeOK
  PROVE  /\ ActiveVersion \in Versions \cup {0}
         /\ ActiveVersion # 0 =>
              ActiveVersion \in Versions /\ versionRow[ActiveVersion].status = "active"
<1> DEFINE actives == {v \in Versions : versionRow[v].status = "active"}
<1>1. CASE actives = {}
  BY <1>1 DEF ActiveVersion
<1>2. CASE actives # {}
  <2>1. \E v \in actives : \A w \in actives : v <= w
    BY <1>2, FirstVersion
  <2>2. ActiveVersion = CHOOSE v \in actives : \A w \in actives : v <= w
    BY <1>2 DEF ActiveVersion
  <2>3. ActiveVersion \in actives
    BY <2>1, <2>2
  <2> QED
    BY <2>3
<1> QED
  BY <1>1, <1>2

\* An approval names a content, and a retirement another version.
OpMeant(o) ==
  /\ o.pc = "approve" => o.hash # NoBundle
  /\ o.pc = "retire" => o.prior # 0 /\ o.prior # o.v

\* While nobody writes, a verified review's bundle resolves and stays the one
\* that loads.
VersionsInv ==
  /\ VersionsTypeOK
  /\ \A p \in Processes : OpMeant(op[p])
  /\ \A r \in steady :
       /\ review[r].pc = "load" => Resolves(review[r].hash)
       /\ review[r].pc = "ran" =>
            review[r].ran = review[r].hash \/ ~Stored(ActiveVersion)

\* The empty tables satisfy the invariant.
LEMMA VersionsInitInv == VersionsInit => VersionsInv
<1> SUFFICES ASSUME VersionsInit PROVE VersionsInv
  OBVIOUS
<1>1. VersionsTypeOK
  <2>1. versionRow \in [Versions -> Row] /\ activeHash \in Hashes /\ removed \in BOOLEAN
    BY DEF VersionsInit, Hashes, Absent, Row
  <2>2. op \in [Processes -> Op] /\ stops \in 0 .. MaxStops
    BY StopsAssumption DEF VersionsInit, Op
  <2>3. /\ review \in [Runs -> [pc : {"new", "queued", "verify", "load", "ran", "quarantined"},
                                hash : Hashes, ran : Hashes]]
        /\ \A r \in Runs : review[r].pc = "new"
    BY DEF VersionsInit, NewReview, Hashes
  <2>4. approved \subseteq Bundles /\ steady \subseteq Runs
    BY DEF VersionsInit
  <2> QED
    BY <2>1, <2>2, <2>3, <2>4 DEF VersionsTypeOK
<1>2. /\ \A p \in Processes : op[p] = [pc |-> "idle"]
      /\ steady = {}
  BY DEF VersionsInit, IdleOp
<1> QED
  BY <1>1, <1>2 DEF VersionsInv, OpMeant

\* An operation that is at a call has what that call needs.
LEMMA OpShape ==
  ASSUME VersionsTypeOK, NEW p \in Processes
  PROVE  /\ op[p].pc \in {"find", "retire", "mark", "point"} => op[p] \in Change
         /\ op[p].pc = "approve" => op[p] \in [pc : {"approve"}, v : Versions, hash : Hashes]
         /\ op[p].pc \in {"delete", "clear"} =>
              op[p] \in [pc : {"delete", "clear"}, left : SUBSET Versions]
         /\ op[p].pc = "resolve" =>
              op[p] \in [pc : {"resolve"}, run : Runs, hash : Hashes]
  BY DEF VersionsTypeOK, Op, IdleOp, Change

\* The rows keep their type when one is written, and so does the pointer.
LEMMA RowsTyped ==
  ASSUME VersionsTypeOK
  PROVE  /\ Absent \in Row
         /\ \A v \in Versions :
              /\ Upsert(v) \in Row
              /\ \A row \in Row : Write(v, row) =>
                   /\ versionRow' \in [Versions -> Row]
                   /\ steady' = {} /\ UNCHANGED <<activeHash, removed>>
         /\ \A hash \in Hashes : \A gone \in BOOLEAN : Point(hash, gone) =>
              activeHash' \in Hashes /\ removed' \in BOOLEAN
<1>1. Absent \in Row
  BY DEF Absent, Row, Hashes
<1>2. \A v \in Versions : Upsert(v) \in Row
  BY DEF VersionsTypeOK, Absent, Row, Upsert, Hashes
<1> QED
  BY <1>1, <1>2 DEF VersionsTypeOK, Write, Point

\* Administrators and the deploy step keep every type.
LEMMA AdminTyped ==
  ASSUME VersionsInv, NEW p \in Processes,
         \/ Upload(p) \/ ApproveReads(p) \/ ApproveWrites(p)
         \/ BeginChange(p) \/ Seed(p) \/ FindActive(p) \/ RetirePrior(p)
         \/ MarkActive(p) \/ PointResolver(p)
         \/ RemoveBegin(p) \/ RemoveDeletes(p) \/ RemoveClears(p) \/ Stop(p)
  PROVE  /\ VersionsTypeOK'
         /\ OpMeant(op'[p])
<1>0. /\ VersionsTypeOK
      /\ versionRow \in [Versions -> Row] /\ op \in [Processes -> Op]
      /\ Absent \in Row /\ IdleOp \in Op
      /\ OpMeant(op[p]) /\ OpMeant(IdleOp)
  BY RowsTyped DEF VersionsInv, VersionsTypeOK, Op, OpMeant, IdleOp
<1>1. ASSUME NEW state \in Op, Goto(p, state), UNCHANGED review,
             versionRow' \in [Versions -> Row], activeHash' \in Hashes, removed' \in BOOLEAN,
             stops' \in 0 .. MaxStops, approved' \subseteq Bundles, steady' \subseteq Runs
      PROVE  VersionsTypeOK' /\ op'[p] = state
  BY <1>0, <1>1 DEF VersionsTypeOK, Goto
<1>2. ASSUME ReadOnly
      PROVE  /\ versionRow' \in [Versions -> Row] /\ activeHash' \in Hashes
             /\ removed' \in BOOLEAN /\ steady' \subseteq Runs
  BY <1>0, <1>2 DEF ReadOnly, VersionsTypeOK
<1>3. ASSUME NEW v \in Versions, NEW row \in Row, Write(v, row)
      PROVE  /\ versionRow' \in [Versions -> Row] /\ activeHash' \in Hashes
             /\ removed' \in BOOLEAN /\ steady' \subseteq Runs
  BY <1>0, <1>3, RowsTyped DEF VersionsTypeOK
<1>4. UNCHANGED <<stops, approved>> =>
        stops' \in 0 .. MaxStops /\ approved' \subseteq Bundles
  BY <1>0 DEF VersionsTypeOK
<1>5. CASE Upload(p)
  <2>1. PICK v \in Versions, b \in Bundles : Write(v, [Absent EXCEPT !.status = "draft", !.hash = b])
    BY <1>5 DEF Upload
  <2>2. [Absent EXCEPT !.status = "draft", !.hash = b] \in Row
    BY <1>0 DEF Absent, Row, Hashes
  <2>3. UNCHANGED <<op, review, stops, approved>>
    BY <1>5 DEF Upload
  <2> QED
    BY <1>0, <1>3, <1>4, <2>1, <2>2, <2>3 DEF VersionsTypeOK
<1>6. CASE ApproveReads(p)
  <2>1. PICK v \in Versions :
          /\ versionRow[v].hash # NoBundle
          /\ Goto(p, [pc |-> "approve", v |-> v, hash |-> versionRow[v].hash])
    BY <1>6 DEF ApproveReads
  <2>2. [pc |-> "approve", v |-> v, hash |-> versionRow[v].hash] \in Op
    BY <1>0 DEF Op, Row
  <2> QED
    BY <1>1, <1>2, <1>4, <1>6, <2>1, <2>2 DEF ApproveReads, OpMeant
<1>7. CASE ApproveWrites(p)
  <2>1. op[p] \in [pc : {"approve"}, v : Versions, hash : Hashes] /\ op[p].hash # NoBundle
    BY <1>0, <1>7, OpShape DEF ApproveWrites, OpMeant
  <2>2. [Upsert(op[p].v) EXCEPT !.approval = op[p].hash] \in Row
    BY <1>0, <2>1, RowsTyped DEF Row
  <2>3. approved' \subseteq Bundles
    BY <1>0, <1>7, <2>1 DEF ApproveWrites, VersionsTypeOK, Hashes
  <2> QED
    BY <1>0, <1>1, <1>3, <1>4, <1>7, <2>1, <2>2, <2>3 DEF ApproveWrites, VersionsTypeOK
<1>8. CASE BeginChange(p)
  <2>1. PICK kind \in {"activate", "rollback"}, v \in Versions :
          Goto(p, [kind |-> kind, v |-> v, hash |-> versionRow[v].hash,
                   prior |-> 0, pc |-> "find"])
    BY <1>8 DEF BeginChange
  <2>2. [kind |-> kind, v |-> v, hash |-> versionRow[v].hash, prior |-> 0, pc |-> "find"] \in Op
    BY <1>0 DEF Op, Row, Change
  <2> QED
    BY <1>1, <1>2, <1>4, <1>8, <2>1, <2>2 DEF BeginChange, OpMeant
<1>9. CASE Seed(p)
  <2>1. [kind |-> "seed", v |-> SeedVersion, hash |-> Shipped, prior |-> 0, pc |-> "find"] \in Op
    BY VersionAssumption DEF Op, Change, Hashes
  <2>2. [Absent EXCEPT !.status = "draft", !.hash = Shipped] \in Row
    BY <1>0 DEF Absent, Row, Hashes
  <2> QED
    BY <1>1, <1>3, <1>4, <1>9, <2>1, <2>2, VersionAssumption DEF Seed, OpMeant
<1>10. CASE FindActive(p)
  <2> DEFINE hash == IF op[p].kind = "rollback" THEN versionRow[op[p].v].hash ELSE op[p].hash
             pc == IF ActiveVersion \in {0, op[p].v} THEN "mark" ELSE "retire"
             found == [op[p] EXCEPT !.prior = ActiveVersion, !.hash = hash, !.pc = pc]
  <2>1. op[p] \in Change
    BY <1>0, <1>10, OpShape DEF FindActive
  <2>2. hash \in Hashes /\ ActiveVersion \in Versions \cup {0}
    BY <1>0, <2>1, ActiveVersionIs DEF Change, Row
  <2>3. Goto(p, IdleOp) \/ Goto(p, found)
    BY <1>10 DEF FindActive
  <2>4. found \in Change /\ OpMeant(found)
    <3> HIDE DEF hash
    <3> QED
      BY <2>1, <2>2 DEF Change, OpMeant
  <2>5. found \in Op
    BY <2>4 DEF Op
  <2> QED
    BY <1>0, <1>1, <1>2, <1>4, <1>10, <2>3, <2>4, <2>5 DEF FindActive
<1>11. CASE RetirePrior(p) \/ MarkActive(p)
  <2>1. /\ op[p] \in Change
        /\ op[p].pc = "retire" => op[p].prior \in Versions
    BY <1>0, <1>11, OpShape DEF RetirePrior, MarkActive, Change, OpMeant
  <2>2. \E v \in Versions, row \in Row, pc \in {"mark", "point"} :
          Write(v, row) /\ Goto(p, [op[p] EXCEPT !.pc = pc])
    <3>1. CASE RetirePrior(p)
      <4>1. [Upsert(op[p].prior) EXCEPT !.status = "retired"] \in Row
        BY <1>0, <2>1, <3>1, RowsTyped DEF Row, RetirePrior
      <4> QED
        BY <2>1, <3>1, <4>1 DEF RetirePrior
    <3>2. CASE MarkActive(p)
      <4>1. [Upsert(op[p].v) EXCEPT !.status = "active",
                                    !.activated = @ \/ op[p].kind # "rollback"] \in Row
        <5>1. Upsert(op[p].v) \in Row
          BY <1>0, <2>1, RowsTyped DEF Change
        <5> QED
          BY <5>1 DEF Row
      <4> QED
        BY <2>1, <3>2, <4>1 DEF MarkActive, Change
    <3> QED
      BY <1>11, <3>1, <3>2
  <2>3. PICK pc \in {"mark", "point"} : Goto(p, [op[p] EXCEPT !.pc = pc])
    BY <2>2
  <2>4. [op[p] EXCEPT !.pc = pc] \in Op /\ OpMeant([op[p] EXCEPT !.pc = pc])
    BY <2>1 DEF Change, Op, OpMeant
  <2> QED
    BY <1>1, <1>3, <1>4, <1>11, <2>2, <2>3, <2>4 DEF RetirePrior, MarkActive
<1>12. CASE PointResolver(p) \/ RemoveClears(p)
  <2>1. activeHash' \in Hashes /\ removed' \in BOOLEAN
    BY <1>0, <1>12, OpShape
    DEF PointResolver, RemoveClears, Point, VersionsTypeOK, Change, Hashes
  <2>2. /\ UNCHANGED versionRow /\ steady' = {} /\ Goto(p, IdleOp)
        /\ UNCHANGED <<review, stops, approved>>
    BY <1>12 DEF PointResolver, RemoveClears, Point
  <2> QED
    BY <1>0, <1>1, <1>4, <2>1, <2>2
<1>13. CASE RemoveBegin(p)
  <2>1. [pc |-> "delete", left |-> {v \in Versions : versionRow[v] # Absent}] \in Op
    BY DEF Op
  <2> QED
    BY <1>1, <1>2, <1>4, <1>13, <2>1 DEF RemoveBegin, OpMeant
<1>14. CASE RemoveDeletes(p)
  <2>1. op[p] \in [pc : {"delete", "clear"}, left : SUBSET Versions]
    BY <1>0, <1>14, OpShape DEF RemoveDeletes
  <2>2. CASE op[p].left = {}
    <3>1. [op[p] EXCEPT !.pc = "clear"] \in Op /\ OpMeant([op[p] EXCEPT !.pc = "clear"])
      BY <2>1 DEF Op, OpMeant
    <3> QED
      BY <1>1, <1>2, <1>4, <1>14, <2>2, <3>1 DEF RemoveDeletes
  <2>3. CASE op[p].left # {}
    <3>1. \E v \in op[p].left : \A u \in op[p].left : v <= u
      BY <2>1, <2>3, FirstVersion
    <3>2. PICK v \in op[p].left : Write(v, Absent) /\ Goto(p, [op[p] EXCEPT !.left = @ \ {v}])
      BY <1>14, <2>3, <3>1 DEF RemoveDeletes
    <3>3. /\ [op[p] EXCEPT !.left = @ \ {v}] \in Op
          /\ OpMeant([op[p] EXCEPT !.left = @ \ {v}])
      BY <1>14, <2>1 DEF Op, OpMeant, RemoveDeletes
    <3> QED
      BY <1>0, <1>1, <1>3, <1>4, <1>14, <2>1, <3>2, <3>3 DEF RemoveDeletes
  <2> QED
    BY <2>2, <2>3
<1>15. CASE Stop(p)
  <2>1. stops' \in 0 .. MaxStops
    BY <1>0, <1>15, StopsAssumption DEF Stop, VersionsTypeOK
  <2> QED
    BY <1>0, <1>1, <1>2, <1>15, <2>1 DEF Stop, VersionsTypeOK
<1> QED
  BY <1>5, <1>6, <1>7, <1>8, <1>9, <1>10, <1>11, <1>12, <1>13, <1>14, <1>15

\* What a review does to the types, and to what its verified bundle stands on.
LEMMA ReviewStep ==
  ASSUME VersionsInv, NEW r \in Runs, VerifyReads(r) \/ Verify(r) \/ Load(r)
  PROVE  VersionsInv'
<1>0. /\ VersionsTypeOK /\ versionRow \in [Versions -> Row]
      /\ review[r] \in [pc : {"new", "queued", "verify", "load", "ran", "quarantined"},
                        hash : Hashes, ran : Hashes]
      /\ UNCHANGED <<versionRow, activeHash, removed, op, stops, approved>>
  BY DEF VersionsInv, VersionsTypeOK, VerifyReads, Verify, Load, ReadOnly
<1>1. ActiveVersion' = ActiveVersion /\ (Stored(ActiveVersion))' = Stored(ActiveVersion)
      /\ \A hash : Resolves(hash)' = Resolves(hash)
  BY <1>0 DEF ActiveVersion, Stored, Resolves
<1>2. Stored(ActiveVersion) => versionRow[ActiveVersion].hash \in Hashes
  BY <1>0, ActiveVersionIs DEF Stored, Row
<1>3. /\ steady' \subseteq Runs
      /\ \A q \in Runs : q # r => review'[q] = review[q] /\ (q \in steady' <=> q \in steady)
  BY <1>0 DEF VersionsInv, VersionsTypeOK, VerifyReads, Verify, Load, ReadOnly
<1>4. /\ review' \in [Runs -> [pc : {"new", "queued", "verify", "load", "ran", "quarantined"},
                               hash : Hashes, ran : Hashes]]
      /\ review'[r].pc \notin {"new"} /\ review'[r].hash = review[r].hash
      /\ review[r].hash # NoBundle
  BY <1>0, <1>2
  DEF VersionsInv, VersionsTypeOK, VerifyReads, Verify, Load, Hashes
<1>5. VersionsTypeOK'
  BY <1>0, <1>3, <1>4 DEF VersionsTypeOK
<1>6. r \in steady' =>
        /\ review'[r].pc = "load" => Resolves(review'[r].hash)
        /\ review'[r].pc = "ran" =>
             review'[r].ran = review'[r].hash \/ ~Stored(ActiveVersion)
  <2>0. review \in [Runs -> [pc : {"new", "queued", "verify", "load", "ran", "quarantined"},
                             hash : Hashes, ran : Hashes]]
    BY <1>0 DEF VersionsTypeOK
  <2>1. CASE VerifyReads(r)
    BY <2>0, <2>1 DEF VerifyReads
  <2>2. CASE Verify(r)
    <3>1. Resolves(review[r].hash) \in BOOLEAN
      BY DEF Resolves
    <3>2. review'[r].pc = "load" => Resolves(review[r].hash)
      BY <2>0, <2>2, <3>1 DEF Verify
    <3>3. review'[r].pc # "ran"
      BY <2>0, <2>2 DEF Verify
    <3> QED
      BY <1>4, <3>2, <3>3
  <2>3. CASE Load(r)
    <3>1. r \in steady' => Resolves(review[r].hash)
      BY <2>3 DEF Load, VersionsInv, ReadOnly
    <3>2. review'[r].pc = "ran"
          /\ (Stored(ActiveVersion) => review'[r].ran = versionRow[ActiveVersion].hash)
      BY <2>0, <2>3 DEF Load
    <3> QED
      BY <1>4, <3>1, <3>2 DEF Resolves
  <2> QED
    BY <2>1, <2>2, <2>3
<1> QED
  BY <1>0, <1>1, <1>3, <1>5, <1>6 DEF VersionsInv

\* A submission keeps the types; the bundle it records is one that resolved.
LEMMA SubmitTyped ==
  ASSUME VersionsInv, NEW p \in Processes, SubmitReads(p) \/ SubmitResolves(p)
  PROVE  VersionsTypeOK' /\ OpMeant(op'[p])
<1>0. /\ VersionsTypeOK /\ op \in [Processes -> Op] /\ IdleOp \in Op /\ ReadOnly
      /\ UNCHANGED <<stops, approved>>
  BY DEF VersionsInv, VersionsTypeOK, Op, SubmitReads, SubmitResolves
<1>1. CASE SubmitReads(p)
  <2>1. PICK r \in Runs : Goto(p, [pc |-> "resolve", run |-> r, hash |-> activeHash])
    BY <1>1 DEF SubmitReads
  <2>2. [pc |-> "resolve", run |-> r, hash |-> activeHash] \in Op
    BY <1>0 DEF Op, VersionsTypeOK
  <2> QED
    BY <1>0, <1>1, <2>1, <2>2 DEF SubmitReads, Goto, ReadOnly, VersionsTypeOK, OpMeant
<1>2. CASE SubmitResolves(p)
  <2>1. op[p] \in [pc : {"resolve"}, run : Runs, hash : Hashes]
    BY <1>0, <1>2, OpShape DEF SubmitResolves
  <2>2. /\ review' \in [Runs -> [pc : {"new", "queued", "verify", "load", "ran", "quarantined"},
                                 hash : Hashes, ran : Hashes]]
        /\ \A r \in Runs : review'[r].pc # "new" => review'[r].hash # NoBundle
    <3>1. CASE review' = review
      BY <1>0, <3>1 DEF VersionsTypeOK
    <3>2. CASE /\ op[p].hash # NoBundle
               /\ review' = [review EXCEPT ![op[p].run] =
                              [@ EXCEPT !.pc = "queued", !.hash = op[p].hash]]
      BY <1>0, <2>1, <3>2 DEF VersionsTypeOK
    <3> QED
      BY <1>2, <3>1, <3>2 DEF SubmitResolves, Resolves
  <2> QED
    BY <1>0, <1>2, <2>2
    DEF SubmitResolves, Goto, ReadOnly, VersionsTypeOK, OpMeant, IdleOp
<1> QED
  BY <1>1, <1>2

\* The invariant survives every operation of any process: a write to the
\* version or playbook rows leaves no review that nobody wrote under.
LEMMA VersionsStep == VersionsInv /\ [VersionsNext]_versionVars => VersionsInv'
<1> SUFFICES ASSUME VersionsInv, [VersionsNext]_versionVars PROVE VersionsInv'
  OBVIOUS
<1>1. CASE UNCHANGED versionVars
  BY <1>1
  DEF versionVars, VersionsInv, VersionsTypeOK, ActiveVersion, Stored, Resolves
<1>2. ASSUME NEW p \in Processes, VersionsTypeOK', OpMeant(op'[p]),
             \A q \in Processes : q # p => op'[q] = op[q],
             \/ steady' = {}
             \/ /\ UNCHANGED <<versionRow, steady>>
                /\ \A r \in steady : review'[r] # review[r] => review'[r].pc = "queued"
      PROVE  VersionsInv'
  BY <1>2 DEF VersionsInv, ActiveVersion, Stored, Resolves
<1>3. ASSUME NEW p \in Processes,
             \/ Upload(p) \/ ApproveReads(p) \/ ApproveWrites(p)
             \/ BeginChange(p) \/ Seed(p) \/ FindActive(p) \/ RetirePrior(p)
             \/ MarkActive(p) \/ PointResolver(p)
             \/ RemoveBegin(p) \/ RemoveDeletes(p) \/ RemoveClears(p) \/ Stop(p)
      PROVE  VersionsInv'
  <2>1. VersionsTypeOK' /\ OpMeant(op'[p])
    BY <1>3, AdminTyped
  <2>2. op \in [Processes -> Op] /\ UNCHANGED review
    BY <1>3
    DEF VersionsInv, VersionsTypeOK, Upload, ApproveReads, ApproveWrites,
        BeginChange, Seed, FindActive, RetirePrior, MarkActive, PointResolver,
        RemoveBegin, RemoveDeletes, RemoveClears, Stop
  <2>3. \A q \in Processes : q # p => op'[q] = op[q]
    BY <1>3, <2>2
    DEF Upload, ApproveReads, ApproveWrites, BeginChange, Seed, FindActive,
        RetirePrior, MarkActive, PointResolver, RemoveBegin, RemoveDeletes,
        RemoveClears, Stop, Goto
  <2>4. steady' = {} \/ UNCHANGED <<versionRow, steady>>
    BY <1>3
    DEF Upload, ApproveReads, ApproveWrites, BeginChange, Seed, FindActive,
        RetirePrior, MarkActive, PointResolver, RemoveBegin, RemoveDeletes,
        RemoveClears, Stop, Write, Point, ReadOnly
  <2> QED
    BY <1>2, <2>1, <2>2, <2>3, <2>4
<1>4. ASSUME NEW p \in Processes, SubmitReads(p) \/ SubmitResolves(p)
      PROVE  VersionsInv'
  <2>1. /\ op \in [Processes -> Op] /\ UNCHANGED <<versionRow, steady>>
        /\ review \in [Runs -> [pc : {"new", "queued", "verify", "load", "ran", "quarantined"},
                                hash : Hashes, ran : Hashes]]
        /\ steady \subseteq Runs
    BY <1>4 DEF VersionsInv, VersionsTypeOK, SubmitReads, SubmitResolves, ReadOnly
  <2>2. \A q \in Processes : q # p => op'[q] = op[q]
    BY <1>4, <2>1 DEF SubmitReads, SubmitResolves, Goto
  <2>3. \A r \in Runs : review'[r] # review[r] => review'[r].pc = "queued"
    BY <1>4, <2>1 DEF SubmitReads, SubmitResolves
  <2> QED
    BY <1>2, <1>4, <2>1, <2>2, <2>3, SubmitTyped
<1> QED
  BY <1>1, <1>3, <1>4, ReviewStep DEF VersionsNext

\* The invariant holds for any number of processes.
THEOREM VersionsInvariant == VersionsSpec => []VersionsInv
  BY VersionsInitInv, VersionsStep, PTL DEF VersionsSpec

\* Rows, operations and reviews keep their types, an operation that upserts
\* a row removed meanwhile included.
THEOREM VersionsTypeCorrect == VersionsSpec => []VersionsTypeOK
<1>1. VersionsInv => VersionsTypeOK
  BY DEF VersionsInv
<1> QED
  BY VersionsInvariant, <1>1, PTL

\* A review nobody wrote under since it was verified runs the bundle it
\* pinned when it was submitted, or the playbook on disk when no uploaded
\* version is active, however many processes change versions.
THEOREM PinnedIsRun == VersionsSpec => []RunsItsBundle
<1>1. VersionsInv => RunsItsBundle
  BY DEF VersionsInv, RunsItsBundle
<1> QED
  BY VersionsInvariant, <1>1, PTL

\* Content an approval was recorded for, the shipped one, or none at all.
Sanctioned(hash) == hash \in approved \cup {Shipped, NoBundle}

\* A change whose target passed the gate, or was activated before.
PastGate(o) ==
  o.pc \in {"retire", "mark"} \/ (o.pc = "find" /\ o.kind # "rollback")

\* What may be served is sanctioned from the moment it may be activated: the
\* rows that are or were active, and the target of a change past its gate.
ServedInv ==
  /\ VersionsInv
  /\ \A v \in Versions :
       /\ Sanctioned(versionRow[v].approval)
       /\ versionRow[v].status = "active" \/ versionRow[v].activated =>
            Sanctioned(versionRow[v].hash)
  /\ \A p \in Processes : PastGate(op[p]) => Sanctioned(versionRow[op[p].v].hash)
  /\ ServedWasApproved

\* With one process, nobody replaces the content of a version between the
\* gate that checked it and the write that activates it.
LEMMA ServedStep ==
  ASSUME \A p, q \in Processes : p = q,
         ServedInv, [VersionsNext]_versionVars
  PROVE  ServedInv'
<1>0. /\ VersionsInv' /\ VersionsTypeOK /\ VersionsTypeOK'
      /\ versionRow \in [Versions -> Row] /\ op \in [Processes -> Op]
      /\ review \in [Runs -> [pc : {"new", "queued", "verify", "load", "ran", "quarantined"},
                              hash : Hashes, ran : Hashes]]
      /\ \A p \in Processes : OpMeant(op[p])
  BY VersionsStep DEF ServedInv, VersionsInv, VersionsTypeOK
<1>U. /\ Absent \in Row
      /\ \A v \in Versions :
           /\ Upsert(v) \in Row
           /\ Upsert(v).hash = versionRow[v].hash
           /\ Upsert(v).approval = versionRow[v].approval
           /\ Upsert(v).activated = versionRow[v].activated
           /\ Upsert(v).status = "active" => versionRow[v].status = "active"
  BY <1>0, RowsTyped DEF Upsert, Absent
\* A step that leaves the rows alone, or sanctions more.
<1>1. ASSUME UNCHANGED <<versionRow, review>>, approved \subseteq approved',
             \A p \in Processes :
               PastGate(op'[p]) => Sanctioned(versionRow[op'[p].v].hash)
      PROVE  ServedInv'
  BY <1>0, <1>1 DEF ServedInv, ServedWasApproved, Sanctioned
\* A step of a process that writes one row.
<1>2. ASSUME NEW p \in Processes, NEW v \in Versions, NEW row \in Row,
             versionRow' = [versionRow EXCEPT ![v] = row],
             UNCHANGED review, approved \subseteq approved',
             row.approval \in approved' \cup {Shipped, NoBundle},
             row.status = "active" \/ row.activated => Sanctioned(row.hash),
             PastGate(op'[p]) => Sanctioned(versionRow'[op'[p].v].hash)
      PROVE  ServedInv'
  BY <1>0, <1>2 DEF ServedInv, ServedWasApproved, Sanctioned
<1>3. ASSUME NEW p \in Processes, Upload(p)
      PROVE  ServedInv'
  <2>1. PICK v \in Versions, b \in Bundles :
          versionRow' = [versionRow EXCEPT ![v] = [Absent EXCEPT !.status = "draft", !.hash = b]]
    BY <1>3 DEF Upload, Write
  <2>2. [Absent EXCEPT !.status = "draft", !.hash = b] \in Row
    BY <1>U DEF Absent, Row, Hashes
  <2>3. op'[p].pc = "idle" /\ UNCHANGED <<review, approved>>
    BY <1>3 DEF Upload, IdleOp
  <2> QED
    <3> DEFINE row == [Absent EXCEPT !.status = "draft", !.hash = b]
    <3>1. row.approval = NoBundle /\ row.status = "draft" /\ row.activated = FALSE
      BY DEF Absent
    <3> QED
      BY <1>2, <2>1, <2>2, <2>3, <3>1 DEF Sanctioned, PastGate
<1>4. ASSUME NEW p \in Processes, ApproveWrites(p)
      PROVE  ServedInv'
  <2> DEFINE v == op[p].v
             row == [Upsert(v) EXCEPT !.approval = op[p].hash]
  <2>1. v \in Versions /\ op[p].hash \in Hashes
    BY <1>0, <1>4, OpShape DEF ApproveWrites
  <2>2. /\ versionRow' = [versionRow EXCEPT ![v] = row]
        /\ approved' = approved \cup ({op[p].hash} \ {Shipped})
        /\ op'[p].pc = "idle" /\ UNCHANGED review
    BY <1>0, <1>4 DEF ApproveWrites, Write, Goto, IdleOp
  <2>3. /\ row \in Row
        /\ row.approval = op[p].hash /\ row.status = Upsert(v).status
        /\ row.activated = Upsert(v).activated /\ row.hash = Upsert(v).hash
    BY <1>U, <2>1 DEF Row
  <2>4. /\ row.approval \in approved' \cup {Shipped, NoBundle}
        /\ row.status = "active" \/ row.activated => Sanctioned(row.hash)
    BY <1>U, <2>1, <2>2, <2>3 DEF ServedInv, Sanctioned
  <2> HIDE DEF row, v
  <2> QED
    BY <1>2, <2>1, <2>2, <2>3, <2>4 DEF PastGate
<1>5. ASSUME NEW p \in Processes, Seed(p)
      PROVE  ServedInv'
  <2> DEFINE row == [Absent EXCEPT !.status = "draft", !.hash = Shipped]
  <2>1. /\ versionRow' = [versionRow EXCEPT ![SeedVersion] = row]
        /\ op'[p].v = SeedVersion
        /\ UNCHANGED <<review, approved>>
    BY <1>0, <1>5 DEF Seed, Write, Goto
  <2>2. /\ row \in Row
        /\ row.approval = NoBundle /\ row.status = "draft" /\ row.activated = FALSE
        /\ row.hash = Shipped
    BY <1>U DEF Absent, Row, Hashes
  <2>3. versionRow'[SeedVersion] = row
    BY <1>0, <2>1, VersionAssumption
  <2> HIDE DEF row
  <2> QED
    BY <1>2, <2>1, <2>2, <2>3, VersionAssumption DEF Sanctioned
<1>6. ASSUME NEW p \in Processes, BeginChange(p) \/ FindActive(p)
      PROVE  ServedInv'
  <2>1. UNCHANGED <<versionRow, review, approved>>
    BY <1>6 DEF BeginChange, FindActive, ReadOnly
  <2>2. PastGate(op'[p]) => Sanctioned(versionRow[op'[p].v].hash)
    <3>1. CASE BeginChange(p)
      BY <1>0, <3>1 DEF BeginChange, Goto, Gate7, PastGate, ServedInv, Sanctioned
    <3>2. CASE FindActive(p)
      <4>1. op[p] \in Change /\ op[p].pc = "find"
        BY <1>0, <3>2, OpShape DEF FindActive
      <4>2. \/ op'[p].pc = "idle"
            \/ /\ op'[p].v = op[p].v
               /\ op[p].kind = "rollback" => versionRow[op[p].v].activated
        <5>1. CASE versionRow[op[p].v] = Absent
                   \/ (op[p].kind = "rollback" /\ ~versionRow[op[p].v].activated)
          BY <1>0, <3>2, <5>1 DEF FindActive, Goto, IdleOp
        <5>2. CASE ~(versionRow[op[p].v] = Absent
                   \/ (op[p].kind = "rollback" /\ ~versionRow[op[p].v].activated))
          <6> DEFINE hash == IF op[p].kind = "rollback" THEN versionRow[op[p].v].hash
                             ELSE op[p].hash
                     pc == IF ActiveVersion \in {0, op[p].v} THEN "mark" ELSE "retire"
          <6>1. op' = [op EXCEPT ![p] =
                        [op[p] EXCEPT !.prior = ActiveVersion, !.hash = hash, !.pc = pc]]
            BY <3>2, <5>2 DEF FindActive, Goto
          <6> HIDE DEF hash, pc
          <6>2. op'[p].v = op[p].v
            BY <1>0, <4>1, <6>1 DEF Change
          <6> QED
            BY <5>2, <6>2
        <5> QED
          BY <5>1, <5>2
      <4> QED
        BY <1>0, <4>1, <4>2 DEF PastGate, ServedInv, Change
    <3> QED
      BY <1>6, <3>1, <3>2
  <2> QED
    BY <1>1, <2>1, <2>2
<1>7. ASSUME NEW p \in Processes, RetirePrior(p) \/ MarkActive(p)
      PROVE  ServedInv'
  <2> DEFINE w == IF op[p].pc = "retire" THEN op[p].prior ELSE op[p].v
  <2>1. /\ op[p] \in Change /\ w \in Versions /\ op[p].v \in Versions
        /\ op[p].pc = "retire" => w # op[p].v
        /\ op[p].pc \in {"retire", "mark"}
        /\ Sanctioned(versionRow[op[p].v].hash)
    BY <1>0, <1>7, OpShape
    DEF RetirePrior, MarkActive, Change, OpMeant, ServedInv, PastGate
  <2>2. PICK status \in {"active", "retired"}, activated \in BOOLEAN :
          /\ versionRow' = [versionRow EXCEPT ![w] =
                [Upsert(w) EXCEPT !.status = status, !.activated = activated]]
          /\ status = "active" => w = op[p].v
          /\ status = "retired" => activated = Upsert(w).activated
          /\ op'[p].v = op[p].v /\ op'[p].pc \in {"mark", "point"}
          /\ op'[p].pc = "mark" => w # op[p].v
          /\ UNCHANGED <<review, approved>>
    <3>1. Upsert(w) \in Row
      BY <1>U, <2>1
    <3>2. CASE RetirePrior(p)
      <4>1. /\ w = op[p].prior
            /\ versionRow' = [versionRow EXCEPT ![w] = [Upsert(w) EXCEPT !.status = "retired"]]
        BY <3>2 DEF RetirePrior, Write
      <4>2. [Upsert(w) EXCEPT !.status = "retired"]
              = [Upsert(w) EXCEPT !.status = "retired", !.activated = Upsert(w).activated]
        BY <3>1 DEF Row
      <4>3. op'[p] = [op[p] EXCEPT !.pc = "mark"] /\ UNCHANGED <<review, approved>>
        BY <1>0, <3>2 DEF RetirePrior, Goto
      <4>4. op'[p].v = op[p].v /\ op'[p].pc = "mark"
        BY <2>1, <4>3 DEF Change
      <4>5. Upsert(w).activated \in BOOLEAN /\ w # op[p].v
        BY <2>1, <3>1, <3>2 DEF Row, RetirePrior
      <4> QED
        BY <4>1, <4>2, <4>3, <4>4, <4>5
    <3>3. CASE MarkActive(p)
      <4>1. w = op[p].v
        BY <3>3 DEF MarkActive
      <4>2. versionRow' = [versionRow EXCEPT ![w] = [Upsert(w) EXCEPT !.status = "active",
                             !.activated = Upsert(w).activated \/ op[p].kind # "rollback"]]
        BY <3>3, <4>1 DEF MarkActive, Write
      <4>3. op'[p] = [op[p] EXCEPT !.pc = "point"] /\ UNCHANGED <<review, approved>>
        BY <1>0, <3>3 DEF MarkActive, Goto
      <4>4. op'[p].v = op[p].v /\ op'[p].pc = "point"
        BY <2>1, <4>3 DEF Change
      <4>5. (Upsert(w).activated \/ op[p].kind # "rollback") \in BOOLEAN
        OBVIOUS
      <4> QED
        BY <4>1, <4>2, <4>3, <4>4, <4>5
    <3> QED
      BY <1>7, <3>2, <3>3
  <2> DEFINE row == [Upsert(w) EXCEPT !.status = status, !.activated = activated]
  <2>3. /\ row \in Row /\ row.status = status /\ row.activated = activated
        /\ row.hash = versionRow[w].hash /\ row.approval = versionRow[w].approval
        /\ versionRow' = [versionRow EXCEPT ![w] = row]
    BY <1>U, <2>1, <2>2 DEF Row
  <2>4. /\ row.approval \in approved' \cup {Shipped, NoBundle}
        /\ row.status = "active" \/ row.activated => Sanctioned(row.hash)
    BY <1>U, <2>1, <2>2, <2>3 DEF ServedInv, Sanctioned
  <2>5. op'[p].pc = "mark" => versionRow'[op'[p].v] = versionRow[op[p].v]
    BY <1>0, <2>1, <2>2
  <2> HIDE DEF row, w
  <2>6. PastGate(op'[p]) => Sanctioned(versionRow'[op'[p].v].hash)
    BY <2>1, <2>2, <2>5 DEF PastGate
  <2>7. UNCHANGED review /\ approved \subseteq approved'
    BY <2>2
  <2> QED
    BY <1>2, <2>1, <2>3, <2>4, <2>6, <2>7
<1>8. ASSUME NEW p \in Processes, RemoveDeletes(p)
      PROVE  ServedInv'
  <2>1. op[p] \in [pc : {"delete", "clear"}, left : SUBSET Versions]
    BY <1>0, <1>8, OpShape DEF RemoveDeletes
  <2>2. ~PastGate(op'[p]) /\ UNCHANGED <<review, approved>>
    BY <1>0, <1>8, <2>1 DEF RemoveDeletes, Goto, PastGate
  <2>3. CASE op[p].left = {}
    BY <1>1, <1>8, <2>2, <2>3 DEF RemoveDeletes, ReadOnly
  <2>4. CASE op[p].left # {}
    <3>1. \E v \in op[p].left : \A u \in op[p].left : v <= u
      BY <2>1, <2>4, FirstVersion
    <3>2. PICK v \in op[p].left : versionRow' = [versionRow EXCEPT ![v] = Absent]
      BY <1>8, <2>4, <3>1 DEF RemoveDeletes, Write
    <3>3. v \in Versions /\ Absent.approval = NoBundle /\ Absent.status = "absent"
          /\ Absent.activated = FALSE
      BY <2>1 DEF Absent
    <3> QED
      BY <1>U, <1>2, <2>2, <3>2, <3>3 DEF Sanctioned
  <2> QED
    BY <2>3, <2>4
<1>9. ASSUME NEW p \in Processes,
             ApproveReads(p) \/ PointResolver(p) \/ RemoveBegin(p) \/ RemoveClears(p)
               \/ Stop(p) \/ SubmitReads(p)
      PROVE  ServedInv'
  <2>1. UNCHANGED <<versionRow, review, approved>>
    BY <1>9
    DEF ApproveReads, PointResolver, RemoveBegin, RemoveClears, Stop, SubmitReads,
        ReadOnly, Point
  <2>2. op'[p].pc \in {"approve", "delete", "resolve", "idle"}
    <3>1. CASE PointResolver(p) \/ RemoveClears(p) \/ Stop(p)
      <4>1. op' = [op EXCEPT ![p] = IdleOp]
        BY <3>1 DEF PointResolver, RemoveClears, Stop, Goto
      <4> QED
        BY <1>0, <4>1 DEF IdleOp
    <3>2. CASE ApproveReads(p)
      BY <1>0, <3>2 DEF ApproveReads, Goto
    <3>3. CASE RemoveBegin(p)
      BY <1>0, <3>3 DEF RemoveBegin, Goto
    <3>4. CASE SubmitReads(p)
      BY <1>0, <3>4 DEF SubmitReads, Goto
    <3> QED
      BY <1>9, <3>1, <3>2, <3>3, <3>4
  <2>3. ~PastGate(op'[p])
    BY <2>2 DEF PastGate
  <2>4. \A q \in Processes : q = p
    OBVIOUS
  <2> QED
    BY <1>1, <2>1, <2>3, <2>4
\* What a review runs is the content of the active version, or the disk.
<1>10. ASSUME UNCHANGED <<versionRow, approved>>,
              \A p \in Processes : PastGate(op'[p]) => op'[p] = op[p],
              \A r \in Runs : Sanctioned(review'[r].ran)
       PROVE  ServedInv'
  BY <1>0, <1>10 DEF ServedInv, ServedWasApproved, Sanctioned
<1>11. ASSUME NEW p \in Processes, SubmitResolves(p)
       PROVE  ServedInv'
  <2>1. ~PastGate(op'[p]) /\ UNCHANGED <<versionRow, approved>>
    BY <1>0, <1>11 DEF SubmitResolves, Goto, PastGate, IdleOp, ReadOnly
  <2>2. \A r \in Runs : review'[r].ran = review[r].ran
    BY <1>0, <1>11 DEF SubmitResolves
  <2> QED
    BY <1>10, <2>1, <2>2 DEF ServedInv, ServedWasApproved, Sanctioned
<1>12. ASSUME NEW r \in Runs, VerifyReads(r) \/ Verify(r) \/ Load(r)
       PROVE  ServedInv'
  <2>1. UNCHANGED <<versionRow, approved, op>>
    BY <1>12 DEF VerifyReads, Verify, Load, ReadOnly
  <2>2. Stored(ActiveVersion) => Sanctioned(versionRow[ActiveVersion].hash)
    BY <1>0, ActiveVersionIs DEF ServedInv, Stored
  <2>3. \A q \in Runs : \/ review'[q].ran = review[q].ran
                       \/ Sanctioned(review'[q].ran)
    BY <1>0, <1>12, <2>2 DEF VerifyReads, Verify, Load, Sanctioned
  <2> QED
    BY <1>10, <2>1, <2>3 DEF ServedInv, ServedWasApproved, Sanctioned
<1>13. CASE UNCHANGED versionVars
  BY <1>10, <1>13 DEF versionVars, ServedInv, ServedWasApproved, Sanctioned
<1> QED
  BY <1>3, <1>4, <1>5, <1>6, <1>7, <1>8, <1>9, <1>11, <1>12, <1>13 DEF VersionsNext

\* With one backend process, as the deployments run, no review ever runs
\* uploaded content no approval was recorded for: not after a rollback, a
\* removal, a re-upload under the same version or a half-made activation.
THEOREM ServedApprovedHolds ==
  ASSUME \A p, q \in Processes : p = q
  PROVE  VersionsSpec => []ServedWasApproved
<1>1. VersionsInit => ServedInv
  <2> SUFFICES ASSUME VersionsInit PROVE ServedInv
    OBVIOUS
  <2>1. VersionsInv
    BY VersionsInitInv
  <2>2. \A v \in Versions : versionRow[v].approval = NoBundle /\ versionRow[v].activated = FALSE
                             /\ versionRow[v].status = "absent"
    BY DEF VersionsInit, Absent
  <2>3. \A p \in Processes : op[p].pc = "idle"
    BY DEF VersionsInit, IdleOp
  <2>4. \A r \in Runs : review[r].ran = NoBundle
    BY DEF VersionsInit, NewReview
  <2> QED
    BY <2>1, <2>2, <2>3, <2>4 DEF ServedInv, ServedWasApproved, Sanctioned, PastGate
<1>2. ServedInv /\ [VersionsNext]_versionVars => ServedInv'
  BY ServedStep
<1>3. ServedInv => ServedWasApproved
  BY DEF ServedInv
<1> QED
  BY <1>1, <1>2, <1>3, PTL DEF VersionsSpec

-----------------------------------------------------------------------------
(* Users and sessions.                                                     *)

\* The sessions issued and the one a sign-in is about to issue.
Sessions == tokens \cup {request[p].token : p \in {q \in Requests : request[q].pc = "touch"}}

\* Every version was handed out before it was used, a row that was put holds
\* one nobody signed out of, and a session of that version was made for the
\* row's password.
SessionsInv ==
  /\ \A e \in ended : e[2] <= made
  /\ \A u \in Users : user[u] # NoUser /\ user[u].put => <<u, user[u].version>> \notin ended
  /\ \A t \in Sessions :
       /\ t.version <= made
       /\ user[t.user] # NoUser /\ user[t.user].put /\ user[t.user].version = t.version
            => t.secret = user[t.user].secret

\* A row update_item made counts down from zero, once per write at most.
CountsDown ==
  /\ \A u \in Users : user[u] # NoUser => user[u].version >= -writes
  /\ \A t \in Sessions : t.version >= -writes

\* An admin's request during which no other one took an admin still is an
\* active admin's, and what it is about to write leaves one; but for a table
\* that was emptied, where a bootstrap may put over rows.
Undisturbed ==
  ~emptied => \A p \in Requests :
    LET q == request[p] IN
    /\ q.pc = "asked" /\ q.admin /\ ~q.disturbed => ActiveAdmin(user[q.by])
    /\ q.pc \in {"count", "patch", "delete", "put"} /\ ~q.disturbed => ActiveAdmin(user[q.by])
    /\ q.pc = "delete" => q.by # q.target
    /\ q.pc = "put" /\ ~q.disturbed => q.by # q.target
    /\ q.pc = "patch" /\ q.update \in {"suspend", "demote"} /\ ~q.disturbed =>
         Admins \ {q.target} # {}

\* A bootstrap seeds before anybody is served, unless the table was emptied.
SeedsFirst ==
  /\ ~served => (\A p \in Requests : request[p] = Idle) /\ removedUsers = {}
  /\ ~emptied =>
       /\ served \/ marker \/ boot.pc = "mark" => HasUsers
       /\ boot.pc \in {"get", "put"} =>
            /\ ~served
            /\ \A u \in Users \ boot.left : user[u] # NoUser
  /\ boot.pc = "put" => boot.left # {} /\ (~emptied => user[NextSeed(boot.left)] = NoUser)

AccountsInv ==
  /\ AccountsTypeOK
  /\ SessionsInv
  /\ CountsDown
  /\ Undisturbed
  /\ SeedsFirst

\* What a request may carry, by where it is.
LEMMA RequestShape ==
  ASSUME NEW q \in RequestState
  PROVE  /\ q.pc = "touch" => q \in [pc : {"touch"}, token : Token]
         /\ q.pc = "asked" => q \in [pc : {"asked"}, by : Users, put : BOOLEAN,
                                     admin : BOOLEAN, disturbed : BOOLEAN]
         /\ q.pc \in {"count", "patch"} =>
              q \in [pc : {"count", "patch"}, by : Users, target : Users,
                     update : Updates, disturbed : BOOLEAN]
         /\ q.pc \in {"delete", "put"} =>
              q \in [pc : {"delete", "put"}, by : Users, target : Users,
                     disturbed : BOOLEAN]
         /\ q.pc \in {"idle", "touch", "asked", "count", "patch", "delete", "put"}
         /\ q.pc = "idle" => q = Idle
  BY DEF RequestState, Idle

\* The requests past their first read can be disturbed, and are otherwise as
\* they were.
LEMMA DisturbedShape ==
  ASSUME NEW q \in RequestState
  PROVE  /\ "disturbed" \in DOMAIN q <=> q.pc \notin {"idle", "touch"}
         /\ q.pc \notin {"idle", "touch"} =>
              LET d == [q EXCEPT !.disturbed = TRUE] IN
              /\ d \in RequestState /\ d.disturbed /\ d.pc = q.pc
              /\ q.pc \in {"delete", "put"} => d.by = q.by /\ d.target = q.target
<1>1. q.pc \in {"idle", "touch"} => "disturbed" \notin DOMAIN q
  BY RequestShape DEF Idle
<1>2. q.pc \notin {"idle", "touch"} => "disturbed" \in DOMAIN q
  BY RequestShape
<1> QED
  BY <1>1, <1>2, RequestShape DEF RequestState

\* Request p writes row u and ends; the others learn of an admin less.
LEMMA EndsShape ==
  ASSUME AccountsTypeOK, NEW p \in Requests, NEW u \in Users,
         NEW r \in UserRow \cup {NoUser}, Ends(p, u, r)
  PROVE  /\ user' = [user EXCEPT ![u] = r] /\ user' \in [Users -> UserRow \cup {NoUser}]
         /\ writes' = writes + 1 /\ writes' \in 0 .. MaxWrites
         /\ emptied' \in BOOLEAN
         /\ request' \in [Requests -> RequestState] /\ request'[p] = Idle
         /\ \A q \in Requests : q # p =>
              \/ /\ request'[q] = request[q]
                 /\ Disturbs(u, r) => request[q].pc \in {"idle", "touch"}
              \/ /\ request[q].pc \notin {"idle", "touch"}
                 /\ request'[q].pc = request[q].pc /\ request'[q].disturbed
                 /\ request[q].pc \in {"delete", "put"} =>
                      request'[q].by = request[q].by /\ request'[q].target = request[q].target
<1>0. request \in [Requests -> RequestState] /\ Idle \in RequestState
  BY DEF AccountsTypeOK, RequestState
<1>1. /\ user' = [user EXCEPT ![u] = r] /\ user' \in [Users -> UserRow \cup {NoUser}]
      /\ writes' = writes + 1 /\ writes' \in 0 .. MaxWrites
      /\ emptied' \in BOOLEAN
  BY AccountsAssumption DEF Ends, Store, AccountsTypeOK
<1>2. request' = [q \in Requests |->
              IF q = p THEN Idle
              ELSE IF Disturbs(u, r) /\ "disturbed" \in DOMAIN request[q]
                   THEN [request[q] EXCEPT !.disturbed = TRUE]
              ELSE request[q]]
  BY DEF Ends
<1>3. request'[p] = Idle
  BY <1>2
<1>4. ASSUME NEW q \in Requests, q # p
      PROVE  /\ request'[q] \in RequestState
             /\ \/ /\ request'[q] = request[q]
                   /\ Disturbs(u, r) => request[q].pc \in {"idle", "touch"}
                \/ /\ request[q].pc \notin {"idle", "touch"}
                   /\ request'[q].pc = request[q].pc /\ request'[q].disturbed
                   /\ request[q].pc \in {"delete", "put"} =>
                        request'[q].by = request[q].by /\ request'[q].target = request[q].target
  <2>1. CASE Disturbs(u, r) /\ "disturbed" \in DOMAIN request[q]
    <3>1. request'[q] = [request[q] EXCEPT !.disturbed = TRUE]
      BY <1>2, <1>4, <2>1
    <3> QED
      BY <1>0, <1>4, <2>1, <3>1, DisturbedShape
  <2>2. CASE ~(Disturbs(u, r) /\ "disturbed" \in DOMAIN request[q])
    <3>1. request'[q] = request[q]
      BY <1>2, <1>4, <2>2
    <3> QED
      BY <1>0, <1>4, <2>2, <3>1, DisturbedShape
  <2> QED
    BY <2>1, <2>2
<1>5. request' \in [Requests -> RequestState]
  BY <1>0, <1>2, <1>3, <1>4
<1> QED
  BY <1>1, <1>3, <1>4, <1>5

\* The step from p's state to another one of a request.
LEMMA ProceedShape ==
  ASSUME AccountsTypeOK, NEW p \in Requests, NEW state \in RequestState, Proceed(p, state)
  PROVE  /\ request' \in [Requests -> RequestState]
         /\ request'[p] = state
         /\ \A q \in Requests : q # p => request'[q] = request[q]
  BY DEF AccountsTypeOK, Proceed

\* What update_item makes of a row: a row that was put keeps what it has.
LEMMA UpsertShape ==
  ASSUME NEW r \in UserRow \cup {NoUser}
  PROVE  /\ UpsertUser(r) \in UserRow
         /\ UpsertUser(r).put => r # NoUser
         /\ r # NoUser => UpsertUser(r) = r
         /\ r = NoUser => UpsertUser(r).version = 0 /\ ~ActiveAdmin(UpsertUser(r))
<1>1. NoUser \notin UserRow
  BY DEF NoUser, UserRow
<1>2. 0 \in VersionNumbers
  BY AccountsAssumption DEF VersionNumbers
<1> QED
  BY <1>1, <1>2 DEF UpsertUser, UserRow, NoUser, Secrets, ActiveAdmin

\* An admin's update leaves the password and the sessions alone.
LEMMA UpdatedShape ==
  ASSUME NEW r \in UserRow, NEW update \in Updates
  PROVE  /\ Updated(r, update) \in UserRow
         /\ Updated(r, update) # NoUser
         /\ Updated(r, update).put = r.put
         /\ Updated(r, update).secret = r.secret
         /\ Updated(r, update).version = r.version
         /\ update \notin {"suspend", "demote"} /\ ActiveAdmin(r) => ActiveAdmin(Updated(r, update))
<1> USE DEF Updated, UserRow, NoUser, ActiveAdmin
<1>1. CASE update = "suspend"
  BY <1>1
<1>2. CASE update = "activate"
  BY <1>2
<1>3. CASE update = "promote"
  BY <1>3
<1>4. CASE update = "demote"
  BY <1>4
<1> QED
  BY <1>1, <1>2, <1>3, <1>4 DEF Updates

\* A new password gives a row that was put a version no row ever had.
LEMMA RehashShape ==
  ASSUME NEW r \in UserRow \cup {NoUser}, NEW secret \in Chosen,
         Bumped(UpsertUser(r)) \in VersionNumbers
  PROVE  LET s == Rehash(r, secret) IN
         /\ s \in UserRow /\ s # NoUser
         /\ s.secret = secret /\ s.version = Bumped(UpsertUser(r))
         /\ s.put = UpsertUser(r).put
         /\ ActiveAdmin(r) => ActiveAdmin(s)
<1> DEFINE s == UpsertUser(r)
<1>1. s \in UserRow /\ (ActiveAdmin(r) => ActiveAdmin(s))
  BY UpsertShape DEF ActiveAdmin
<1>2. Rehash(r, secret) = [s EXCEPT !.secret = secret, !.version = Bumped(s)]
  BY DEF Rehash
<1> HIDE DEF s
<1>3. [s EXCEPT !.secret = secret, !.version = Bumped(UpsertUser(r))] \in UserRow
  BY <1>1 DEF UserRow, Secrets
<1>4. s = UpsertUser(r)
  BY DEF s
<1> QED
  BY <1>1, <1>2, <1>3, <1>4 DEF UserRow, NoUser, ActiveAdmin

\* The row u after a step: as before, gone, a row with the same password and
\* version or one that was not put, or the row of the version handed out now.
RowMoves(u) ==
  \/ user'[u] = user[u]
  \/ user'[u] = NoUser
  \/ user'[u].put => /\ user[u] # NoUser /\ user[u].put
                     /\ user'[u].version = user[u].version
                     /\ user'[u].secret = user[u].secret
  \/ user'[u].version = made + 1

\* The session t fits the row its user has after a step.
Fits(t) ==
  /\ t.version <= made' /\ t.version >= -writes'
  /\ user'[t.user] # NoUser /\ user'[t.user].put /\ user'[t.user].version = t.version
       => t.secret = user'[t.user].secret

\* What any step does to versions, rows, sessions and sign-outs.
Moves ==
  /\ made' \in made .. MaxVersions /\ writes' \in writes .. MaxWrites
  /\ \A u \in Users :
       /\ RowMoves(u)
       /\ user'[u] # NoUser => user'[u].version <= made' /\ user'[u].version >= -writes'
  /\ \A t \in Sessions' : t \in Sessions \/ Fits(t)
  /\ \A e \in ended' :
       \/ e \in ended
       \/ /\ e[2] <= made
          /\ user'[e[1]].put => user'[e[1]].version = made + 1

\* Whatever moves like that leaves the sessions what they are good for.
LEMMA MovesKeepSessions ==
  ASSUME AccountsTypeOK, AccountsTypeOK', SessionsInv, CountsDown, Moves
  PROVE  SessionsInv' /\ CountsDown'
<1> USE DEF Moves
<1>0. /\ made \in Int /\ made' \in Int /\ made <= made'
      /\ writes \in Int /\ writes' \in Int /\ writes <= writes'
  BY AccountsAssumption DEF AccountsTypeOK
<1>1. /\ \A u \in Users : user[u] # NoUser => user[u] \in UserRow /\ user[u].version \in Int
      /\ \A u \in Users : user'[u] # NoUser => user'[u] \in UserRow /\ user'[u].version \in Int
  BY AccountsAssumption DEF AccountsTypeOK, UserRow, VersionNumbers
<1>2. \A t \in Sessions \cup Sessions' : t \in Token /\ t.user \in Users /\ t.version \in Int
  <2>1. tokens \subseteq Token /\ tokens' \subseteq Token
    BY DEF AccountsTypeOK
  <2>2. \A p \in Requests : /\ request[p].pc = "touch" => request[p].token \in Token
                            /\ request'[p].pc = "touch" => request'[p].token \in Token
    BY RequestShape DEF AccountsTypeOK
  <2>3. \A t \in Token : t.user \in Users /\ t.version \in Int
    BY AccountsAssumption DEF Token, VersionNumbers
  <2> QED
    BY <2>1, <2>2, <2>3 DEF Sessions
<1>3. \A e \in ended' : e[2] \in Int /\ e[1] \in Users /\ e = <<e[1], e[2]>>
  BY AccountsAssumption DEF AccountsTypeOK, VersionNumbers
<1>3a. \A e \in ended : e[2] \in Int /\ e[2] <= made
  BY AccountsAssumption DEF AccountsTypeOK, VersionNumbers, SessionsInv
<1>4. \A e \in ended' : e[2] <= made'
  BY <1>0, <1>3, <1>3a
<1>5. ASSUME NEW u \in Users, user'[u] # NoUser, user'[u].put
      PROVE  <<u, user'[u].version>> \notin ended'
  <2>1. SUFFICES ASSUME <<u, user'[u].version>> \in ended' PROVE FALSE
    OBVIOUS
  <2>2. CASE <<u, user'[u].version>> \in ended
    <3>1. user'[u].version <= made
      BY <1>3a, <2>2
    <3>2. user[u] # NoUser /\ user[u].put /\ user'[u].version = user[u].version
      BY <1>0, <1>1, <1>5, <3>1 DEF RowMoves
    <3> QED
      BY <2>2, <3>2 DEF SessionsInv
  <2>3. CASE <<u, user'[u].version>> \notin ended
    BY <1>0, <1>1, <1>5, <2>1, <2>3
  <2> QED
    BY <2>2, <2>3
<1>6. ASSUME NEW t \in Sessions'
      PROVE  Fits(t)
  <2>1. CASE t \in Sessions
    <3>1. /\ t.version <= made /\ t.version >= -writes
          /\ user[t.user] # NoUser /\ user[t.user].put /\ user[t.user].version = t.version
               => t.secret = user[t.user].secret
      BY <2>1 DEF SessionsInv, CountsDown
    <3>2. RowMoves(t.user)
      BY <1>2, <2>1
    <3> QED
      BY <1>0, <1>1, <1>2, <2>1, <3>1, <3>2 DEF RowMoves, Fits
  <2> QED
    BY <1>6, <2>1
<1> QED
  BY <1>4, <1>5, <1>6 DEF SessionsInv, CountsDown, Fits

\* A request that writes the row u: what there is to check of its write.
LEMMA EndsMoves ==
  ASSUME AccountsTypeOK, SessionsInv, CountsDown,
         NEW p \in Requests, NEW u \in Users, NEW r \in UserRow \cup {NoUser}, Ends(p, u, r),
         r # NoUser =>
           /\ r.version <= made' /\ r.version >= -(writes + 1)
           /\ \/ r.put => /\ user[u] # NoUser /\ user[u].put
                          /\ r.version = user[u].version /\ r.secret = user[u].secret
              \/ r.version = made + 1,
         made' \in {made, made + 1}, made' <= MaxVersions,
         \A t \in tokens' : t \in Sessions \/ (t \in Token /\ Fits(t)),
         UNCHANGED <<boot, marker, served, ended>>, removedUsers' \subseteq Users
  PROVE  AccountsTypeOK' /\ Moves
<1>0. /\ made \in Nat /\ made' \in 0 .. MaxVersions /\ made <= made' /\ made' \in made .. MaxVersions
      /\ writes \in Nat /\ MaxVersions \in Nat /\ MaxWrites \in Nat
  BY AccountsAssumption DEF AccountsTypeOK
<1>1. /\ user' = [user EXCEPT ![u] = r] /\ user' \in [Users -> UserRow \cup {NoUser}]
      /\ writes' = writes + 1 /\ writes' \in 0 .. MaxWrites /\ writes' \in writes .. MaxWrites
      /\ emptied' \in BOOLEAN
      /\ request' \in [Requests -> RequestState] /\ request'[p] = Idle
  BY <1>0, EndsShape
<1>2. \A q \in Requests : request'[q].pc = "touch" => request'[q] = request[q]
  BY <1>1, EndsShape DEF Idle
<1>3. user \in [Users -> UserRow \cup {NoUser}]
  BY DEF AccountsTypeOK
<1>4. \A w \in Users : user[w] # NoUser => /\ user[w].version \in Int
                                           /\ user[w].version <= made
                                           /\ user[w].version >= -writes
  BY <1>3, AccountsAssumption DEF AccountsTypeOK, CountsDown, UserRow, VersionNumbers
<1>5. \A w \in Users : /\ RowMoves(w)
                       /\ user'[w] # NoUser => user'[w].version <= made' /\ user'[w].version >= -writes'
  <2> SUFFICES ASSUME NEW w \in Users
               PROVE  /\ RowMoves(w)
                      /\ user'[w] # NoUser => user'[w].version <= made' /\ user'[w].version >= -writes'
    OBVIOUS
  <2>1. CASE w = u
    <3>1. user'[w] = r
      BY <1>1, <1>3, <2>1
    <3>2. CASE r = NoUser
      BY <3>1, <3>2 DEF RowMoves
    <3>3. CASE r # NoUser
      BY <1>1, <2>1, <3>1, <3>3 DEF RowMoves
    <3> QED
      BY <3>2, <3>3
  <2>2. CASE w # u
    <3>1. user'[w] = user[w]
      BY <1>1, <1>3, <2>2
    <3> QED
      BY <1>0, <1>1, <1>4, <3>1 DEF RowMoves
  <2> QED
    BY <2>1, <2>2
<1>6. \A t \in Sessions : t \in Token /\ t.version \in Int /\ t.version <= made
  <2>1. \A q \in Requests : request[q].pc = "touch" => request[q].token \in Token
    BY RequestShape DEF AccountsTypeOK
  <2>2. \A t \in Token : t.version \in Int
    BY AccountsAssumption DEF Token, VersionNumbers
  <2> QED
    BY <2>1, <2>2 DEF Sessions, AccountsTypeOK, SessionsInv
<1>7. tokens' \subseteq Token /\ \A t \in tokens' : t.version <= made'
  BY <1>0, <1>6 DEF Fits
<1>8. \A t \in Sessions' : t \in Sessions \/ Fits(t)
  BY <1>2 DEF Sessions
<1>9. AccountsTypeOK'
  BY <1>0, <1>1, <1>5, <1>7 DEF AccountsTypeOK
<1> QED
  BY <1>0, <1>1, <1>5, <1>8, <1>9 DEF Moves

\* A request that reads, or gives up.
LEMMA NoWriteMoves ==
  ASSUME AccountsTypeOK, SessionsInv, CountsDown, NoWrite,
         NEW p \in Requests, NEW state \in RequestState, Proceed(p, state),
         state.pc = "touch" => Fits(state.token)
  PROVE  AccountsTypeOK' /\ Moves
<1>1. /\ request' \in [Requests -> RequestState] /\ request'[p] = state
      /\ \A q \in Requests : q # p => request'[q] = request[q]
  BY ProceedShape
<1>2. AccountsTypeOK'
  BY <1>1 DEF AccountsTypeOK, NoWrite
<1>3. \A t \in Sessions' : t \in Sessions \/ Fits(t)
  BY <1>1 DEF Sessions, NoWrite
<1>4. /\ made' \in made .. MaxVersions /\ writes' \in writes .. MaxWrites
      /\ UNCHANGED <<user, made, writes, ended>>
  BY AccountsAssumption DEF NoWrite, AccountsTypeOK
<1> QED
  BY <1>2, <1>3, <1>4 DEF Moves, RowMoves, AccountsTypeOK, CountsDown

\* Every step of a request is such a move.
LEMMA RequestMoves ==
  ASSUME AccountsTypeOK, SessionsInv, CountsDown, NEW p \in Requests,
         \/ SignInReads(p) \/ SignInIssues(p) \/ Asks(p) \/ ChangesPassword(p)
         \/ PatchReads(p) \/ PatchCounts(p) \/ PatchWrites(p)
         \/ RemoveUserReads(p) \/ RemoveUserDeletes(p) \/ AddReads(p) \/ AddPuts(p)
         \/ GivesUp(p)
  PROVE  AccountsTypeOK' /\ Moves
<1>1. /\ user \in [Users -> UserRow \cup {NoUser}] /\ request[p] \in RequestState
      /\ made \in Nat /\ writes \in Nat /\ MaxVersions \in Nat /\ MaxWrites \in Nat
      /\ made <= MaxVersions /\ removedUsers \subseteq Users
  BY AccountsAssumption DEF AccountsTypeOK
<1>2. \A u \in Users : user[u] # NoUser =>
        /\ user[u] \in UserRow /\ user[u].put \in BOOLEAN /\ user[u].secret \in Secrets
        /\ user[u].version \in VersionNumbers /\ user[u].version \in Int
        /\ user[u].version <= made /\ user[u].version >= -writes
  BY <1>1, AccountsAssumption DEF AccountsTypeOK, CountsDown, UserRow, VersionNumbers
<1>3. \A u \in Users : /\ UpsertUser(user[u]) \in UserRow
                       /\ UpsertUser(user[u]).version \in Int
                       /\ UpsertUser(user[u]).version <= made
                       /\ UpsertUser(user[u]).version >= -writes
                       /\ UpsertUser(user[u]).put => user[u] # NoUser
                       /\ user[u] # NoUser => UpsertUser(user[u]) = user[u]
                       /\ UpsertUser(user[u]) # NoUser
  BY <1>1, <1>2, UpsertShape DEF NoUser, UserRow
<1>4. \A t \in tokens : t \in Sessions
  BY DEF Sessions
<1>5. CASE SignInReads(p)
  <2>1. PICK u \in Users :
          /\ user[u] # NoUser /\ user[u].put
          /\ Proceed(p, [pc |-> "touch",
                   token |-> [user |-> u, version |-> user[u].version, secret |-> user[u].secret]])
    BY <1>5 DEF SignInReads
  <2> DEFINE t == [user |-> u, version |-> user[u].version, secret |-> user[u].secret]
  <2>2. t \in Token
    BY <1>2, <2>1 DEF Token
  <2>3. NoWrite
    BY <1>5 DEF SignInReads
  <2>4. Fits(t)
    BY <1>2, <2>1, <2>3 DEF Fits, NoWrite
  <2>5. [pc |-> "touch", token |-> t] \in RequestState
    BY <2>2 DEF RequestState
  <2> QED
    BY <2>1, <2>3, <2>4, <2>5, NoWriteMoves
<1>6. CASE SignInIssues(p)
  <2> DEFINE t == request[p].token
  <2>1. t \in Token /\ t.user \in Users /\ t \in Sessions
    BY <1>1, <1>6, RequestShape DEF SignInIssues, Token, Sessions
  <2>2. /\ Ends(p, t.user, UpsertUser(user[t.user])) /\ tokens' = tokens \cup {t}
        /\ made' = made /\ UNCHANGED <<boot, marker, served, ended, removedUsers>>
    BY <1>6 DEF SignInIssues, Rest
  <2> HIDE DEF t
  <2>3. \A s \in tokens' : s \in Sessions
    BY <1>4, <2>1, <2>2
  <2> QED
    BY <1>1, <1>3, <2>1, <2>2, <2>3, EndsMoves
<1>7. CASE Asks(p)
  <2>1. PICK t \in tokens :
          Proceed(p, [pc |-> "asked", by |-> t.user, put |-> user[t.user].put,
                      admin |-> user[t.user].admin /\ user[t.user].secret # Default,
                      disturbed |-> FALSE]) /\ Accepted(t)
    BY <1>7 DEF Asks
  <2>2. t.user \in Users /\ user[t.user] \in UserRow
    BY <1>2, <2>1 DEF AccountsTypeOK, Token, Accepted
  <2>3. [pc |-> "asked", by |-> t.user, put |-> user[t.user].put,
         admin |-> user[t.user].admin /\ user[t.user].secret # Default,
         disturbed |-> FALSE] \in RequestState
    BY <2>2 DEF RequestState, UserRow
  <2> QED
    BY <1>7, <2>1, <2>3, NoWriteMoves DEF Asks
<1>8. CASE ChangesPassword(p)
  <2> DEFINE u == request[p].by
  <2>1. u \in Users
    BY <1>1, <1>8, RequestShape DEF ChangesPassword
  <2>2. PICK secret \in Chosen :
          /\ Ends(p, u, Rehash(user[u], secret))
          /\ tokens' = tokens \cup {[user |-> u, secret |-> secret, version |-> user'[u].version]}
    BY <1>8 DEF ChangesPassword
  <2>3. /\ CanBump(user[u]) /\ Counted(user[u])
        /\ UNCHANGED <<boot, marker, served, ended, removedUsers>>
    BY <1>8 DEF ChangesPassword, Rest
  <2> HIDE DEF u
  <2>4. writes < MaxWrites
    BY <2>2 DEF Ends
  <2>5. UpsertUser(user[u]).put <=> (user[u] # NoUser /\ user[u].put)
    BY <1>3, <2>1
  <2>6. /\ made' \in {made, made + 1} /\ made' <= MaxVersions
        /\ UpsertUser(user[u]).put => made' = made + 1
    BY <1>1, <2>3, <2>5 DEF CanBump, Counted
  <2>7. /\ Bumped(UpsertUser(user[u])) \in VersionNumbers
        /\ Bumped(UpsertUser(user[u])) <= made'
        /\ Bumped(UpsertUser(user[u])) >= -(writes + 1)
        /\ UpsertUser(user[u]).put => Bumped(UpsertUser(user[u])) = made + 1
    <3>1. CASE UpsertUser(user[u]).put
      BY <1>1, <2>6, <3>1 DEF Bumped, VersionNumbers
    <3>2. CASE ~UpsertUser(user[u]).put
      BY <1>1, <1>3, <2>1, <2>4, <2>6, <3>2 DEF Bumped, VersionNumbers
    <3> QED
      BY <3>1, <3>2
  <2> DEFINE s == Rehash(user[u], secret)
  <2>8. /\ s \in UserRow /\ s # NoUser /\ s.secret = secret
        /\ s.version = Bumped(UpsertUser(user[u])) /\ s.put = UpsertUser(user[u]).put
    BY <1>1, <2>1, <2>7, RehashShape
  <2>9. user'[u] = s
    BY <1>1, <2>1, <2>2, <2>8, EndsShape
  <2>10. writes' = writes + 1
    BY <2>2 DEF Ends
  <2> HIDE DEF s
  <2> DEFINE t == [user |-> u, secret |-> secret, version |-> user'[u].version]
  <2>11. t \in Token /\ t.user = u /\ t.secret = secret /\ t.version = user'[u].version
    BY <2>1, <2>7, <2>8, <2>9 DEF Token, Secrets
  <2>12. tokens' = tokens \cup {t}
    BY <2>2
  <2> HIDE DEF t
  <2>13. Fits(t)
    BY <2>7, <2>8, <2>9, <2>10, <2>11 DEF Fits
  <2>14. \A x \in tokens' : x \in Sessions \/ (x \in Token /\ Fits(x))
    BY <1>4, <2>11, <2>12, <2>13
  <2>15. Ends(p, u, s)
    BY <2>2 DEF s
  <2> QED
    BY <1>1, <2>1, <2>3, <2>5, <2>6, <2>7, <2>8, <2>14, <2>15, EndsMoves
<1>9. CASE PatchReads(p)
  <2>1. PICK u \in Users, update \in Updates :
          Proceed(p, [pc |-> IF Strips(user[u], update) THEN "count" ELSE "patch",
                   by |-> request[p].by, target |-> u, update |-> update,
                   disturbed |-> request[p].disturbed])
    BY <1>9 DEF PatchReads
  <2>2. request[p].by \in Users /\ request[p].disturbed \in BOOLEAN
    BY <1>1, <1>9, RequestShape DEF PatchReads, AdminAsks
  <2>3. [pc |-> IF Strips(user[u], update) THEN "count" ELSE "patch",
         by |-> request[p].by, target |-> u, update |-> update,
         disturbed |-> request[p].disturbed] \in RequestState
    BY <2>2 DEF RequestState
  <2> QED
    BY <1>9, <2>1, <2>3, NoWriteMoves DEF PatchReads
<1>10. CASE PatchCounts(p)
  <2> DEFINE s == IF AdminsLeft(request[p].target) THEN [request[p] EXCEPT !.pc = "patch"] ELSE Idle
  <2>1. s \in RequestState /\ s.pc # "touch"
    BY <1>1, <1>10, RequestShape DEF PatchCounts, RequestState, Idle
  <2> QED
    BY <1>10, <2>1, NoWriteMoves DEF PatchCounts
<1>11. CASE PatchWrites(p)
  <2> DEFINE u == request[p].target
             r == Updated(UpsertUser(user[u]), request[p].update)
  <2>1. u \in Users /\ request[p].update \in Updates
    BY <1>1, <1>11, RequestShape DEF PatchWrites
  <2>2. /\ r \in UserRow /\ r.put = UpsertUser(user[u]).put
        /\ r.secret = UpsertUser(user[u]).secret /\ r.version = UpsertUser(user[u]).version
    BY <1>3, <2>1, UpdatedShape
  <2>3. Ends(p, u, r) /\ tokens' = tokens /\ made' = made
        /\ UNCHANGED <<boot, marker, served, ended, removedUsers>>
    BY <1>11 DEF PatchWrites, Rest
  <2>4. r.put => /\ user[u] # NoUser /\ user[u].put
                 /\ r.version = user[u].version /\ r.secret = user[u].secret
    BY <1>3, <2>1, <2>2
  <2> HIDE DEF r, u
  <2> QED
    BY <1>1, <1>3, <1>4, <2>1, <2>2, <2>3, <2>4, EndsMoves
<1>12. CASE RemoveUserReads(p)
  <2>1. PICK u \in Users :
          Proceed(p, [pc |-> "delete", by |-> request[p].by, target |-> u,
                   disturbed |-> request[p].disturbed])
    BY <1>12 DEF RemoveUserReads
  <2>2. [pc |-> "delete", by |-> request[p].by, target |-> u,
         disturbed |-> request[p].disturbed] \in RequestState
    BY <1>1, <1>12, RequestShape DEF RemoveUserReads, AdminAsks, RequestState
  <2> QED
    BY <1>12, <2>1, <2>2, NoWriteMoves DEF RemoveUserReads
<1>13. CASE RemoveUserDeletes(p)
  <2>1. request[p].target \in Users
    BY <1>1, <1>13, RequestShape DEF RemoveUserDeletes
  <2> QED
    BY <1>1, <1>4, <1>13, <2>1, EndsMoves DEF RemoveUserDeletes
<1>14. CASE AddReads(p)
  <2>1. PICK u \in Users :
          Proceed(p, [pc |-> "put", by |-> request[p].by, target |-> u,
                   disturbed |-> request[p].disturbed])
    BY <1>14 DEF AddReads
  <2>2. [pc |-> "put", by |-> request[p].by, target |-> u,
         disturbed |-> request[p].disturbed] \in RequestState
    BY <1>1, <1>14, RequestShape DEF AddReads, AdminAsks, RequestState
  <2> QED
    BY <1>14, <2>1, <2>2, NoWriteMoves DEF AddReads
<1>15. CASE AddPuts(p)
  <2>1. request[p].target \in Users
    BY <1>1, <1>15, RequestShape DEF AddPuts
  <2>2. PICK admin \in BOOLEAN, secret \in Chosen :
          Ends(p, request[p].target, NewUser(admin, secret))
    BY <1>15 DEF AddPuts
  <2>3. NewUser(admin, secret) \in UserRow /\ NewUser(admin, secret).version = made + 1
    BY <1>1, <1>15, AccountsAssumption DEF NewUser, UserRow, Secrets, VersionNumbers, AddPuts
  <2>4. /\ made' = made + 1 /\ made < MaxVersions /\ tokens' = tokens
        /\ removedUsers' \subseteq Users /\ UNCHANGED <<boot, marker, served, ended>>
    BY <1>1, <1>15 DEF AddPuts
  <2> QED
    BY <1>1, <1>4, <2>1, <2>2, <2>3, <2>4, EndsMoves
<1>16. CASE GivesUp(p)
  BY <1>16, NoWriteMoves DEF GivesUp, Idle, RequestState
<1> QED
  BY <1>5, <1>6, <1>7, <1>8, <1>9, <1>10, <1>11, <1>12, <1>13, <1>14, <1>15, <1>16

\* A sign-out hands out a version, or counts one down.
LEMMA SignOutMoves ==
  ASSUME AccountsTypeOK, SessionsInv, CountsDown, NEW token \in tokens, SignOut(token)
  PROVE  AccountsTypeOK' /\ Moves
<1> DEFINE u == token.user
           r == [user[u] EXCEPT !.version = Bumped(user[u])]
<1>1. /\ user \in [Users -> UserRow \cup {NoUser}] /\ made \in Nat /\ writes \in Nat
      /\ MaxVersions \in Nat /\ MaxWrites \in Nat /\ made <= MaxVersions
  BY AccountsAssumption DEF AccountsTypeOK
<1>2. /\ token \in Token /\ u \in Users /\ token.version \in VersionNumbers /\ token.version <= made
      /\ token.version \in Int
  BY AccountsAssumption DEF AccountsTypeOK, Token, VersionNumbers
<1>3. /\ user[u] # NoUser /\ user[u].version = token.version /\ CanBump(user[u])
      /\ writes < MaxWrites /\ writes' = writes + 1 /\ Counted(user[u])
      /\ ended' = ended \cup {<<u, token.version>>}
      /\ UNCHANGED <<tokens, request, boot, marker, served, removedUsers, emptied>>
  BY <1>2 DEF SignOut, Revokes
<1>4. user[u] \in UserRow /\ user[u].version >= -writes
  BY <1>1, <1>2, <1>3 DEF CountsDown
<1>5. user' = [user EXCEPT ![u] = r]
  BY DEF SignOut
<1>6. /\ made' \in {made, made + 1} /\ made' <= MaxVersions
      /\ user[u].put => made' = made + 1
  BY <1>1, <1>3 DEF CanBump, Counted
<1>7. /\ Bumped(user[u]) \in VersionNumbers /\ Bumped(user[u]) <= made'
      /\ Bumped(user[u]) >= -(writes + 1)
      /\ user[u].put => Bumped(user[u]) = made + 1
  <2>1. CASE user[u].put
    BY <1>1, <1>6, <2>1 DEF Bumped, VersionNumbers
  <2>2. CASE ~user[u].put
    BY <1>1, <1>2, <1>3, <1>4, <1>6, <2>2 DEF Bumped, VersionNumbers
  <2> QED
    BY <2>1, <2>2
<1>8. /\ r \in UserRow /\ r # NoUser /\ r.version = Bumped(user[u]) /\ r.put = user[u].put
      /\ r.status = user[u].status /\ r.admin = user[u].admin
  BY <1>4, <1>7 DEF UserRow, NoUser
<1> HIDE DEF u, r
<1>9. user' \in [Users -> UserRow \cup {NoUser}] /\ user'[u] = r
  BY <1>1, <1>2, <1>5, <1>8
<1>10. \A w \in Users : /\ RowMoves(w)
                        /\ user'[w] # NoUser => user'[w].version <= made' /\ user'[w].version >= -writes'
  <2> SUFFICES ASSUME NEW w \in Users
               PROVE  /\ RowMoves(w)
                      /\ user'[w] # NoUser => user'[w].version <= made' /\ user'[w].version >= -writes'
    OBVIOUS
  <2>1. CASE w = u
    BY <1>3, <1>7, <1>8, <1>9, <2>1 DEF RowMoves
  <2>2. CASE w # u
    <3>1. user'[w] = user[w]
      BY <1>1, <1>5, <2>2
    <3>2. user[w] # NoUser => /\ user[w].version \in Int /\ user[w].version <= made
                              /\ user[w].version >= -writes
      BY <1>1, AccountsAssumption DEF AccountsTypeOK, CountsDown, UserRow, VersionNumbers
    <3> QED
      BY <1>1, <1>3, <1>6, <3>1, <3>2 DEF RowMoves
  <2> QED
    BY <2>1, <2>2
<1>11. \A t \in tokens : t.version \in Int
  BY AccountsAssumption DEF AccountsTypeOK, Token, VersionNumbers
<1>12. AccountsTypeOK'
  BY <1>1, <1>2, <1>3, <1>6, <1>9, <1>10, <1>11 DEF AccountsTypeOK
<1>13. \A t \in Sessions' : t \in Sessions
  BY <1>3 DEF Sessions
<1>14. \A e \in ended' :
         \/ e \in ended
         \/ /\ e[2] <= made
            /\ user'[e[1]].put => user'[e[1]].version = made + 1
  BY <1>2, <1>3, <1>7, <1>8, <1>9
<1> QED
  BY <1>1, <1>3, <1>6, <1>10, <1>12, <1>13, <1>14 DEF Moves

\* The next user to seed is one of those left.
LEMMA NextSeedShape ==
  ASSUME NEW left \in SUBSET Users, left # {}
  PROVE  NextSeed(left) \in left
  BY DEF NextSeed

\* Where a bootstrap is.
LEMMA BootShape ==
  ASSUME NEW b \in Boot
  PROVE  /\ b.pc \in {"get", "put"} => b \in [pc : {"get", "put"}, left : SUBSET Users]
         /\ b.pc \in {"idle", "scan", "mark", "get", "put"}
  BY DEF Boot, Idle

\* A bootstrap moves rows as requests do: it puts them with a new version.
LEMMA BootMoves ==
  ASSUME AccountsTypeOK, SessionsInv, CountsDown, SeedsFirst,
         \/ BootBegins \/ BootScans \/ BootGets \/ BootPuts \/ BootMarks \/ BootDies
  PROVE  AccountsTypeOK' /\ Moves
<1>1. /\ user \in [Users -> UserRow \cup {NoUser}] /\ made \in Nat /\ writes \in Nat
      /\ MaxVersions \in Nat /\ MaxWrites \in Nat /\ made <= MaxVersions /\ writes <= MaxWrites
  BY AccountsAssumption DEF AccountsTypeOK
<1>2. \A u \in Users : user[u] # NoUser =>
        /\ user[u].version \in Int /\ user[u].version <= made /\ user[u].version >= -writes
  BY <1>1, AccountsAssumption DEF AccountsTypeOK, CountsDown, UserRow, VersionNumbers
<1>3. UNCHANGED <<tokens, writes, request, ended, removedUsers>>
  BY DEF BootBegins, BootScans, BootGets, BootPuts, BootMarks, BootDies, BootIdle
<1>4. \A t \in Sessions' : t \in Sessions
  BY <1>3 DEF Sessions
<1>5. CASE BootBegins \/ BootScans \/ BootGets \/ BootMarks \/ BootDies
  <2>1. UNCHANGED <<user, made, emptied>>
    BY <1>5 DEF BootBegins, BootScans, BootGets, BootMarks, BootDies
  <2>2. boot' \in Boot
    <3>1. CASE BootBegins \/ BootScans \/ BootMarks \/ BootDies
      BY <3>1 DEF BootBegins, BootScans, BootMarks, BootDies, Boot, Idle, AccountsTypeOK
    <3>2. CASE BootGets
      <4>1. boot \in [pc : {"get", "put"}, left : SUBSET Users]
        BY <3>2, BootShape DEF BootGets, AccountsTypeOK
      <4>2. \/ boot' = [pc |-> "mark"] \/ boot' = [boot EXCEPT !.pc = "put"]
            \/ boot' = [boot EXCEPT !.left = boot.left \ {NextSeed(boot.left)}]
        BY <3>2, Zenon DEF BootGets
      <4> QED
        BY <4>1, <4>2 DEF Boot
    <3> QED
      BY <1>5, <3>1, <3>2
  <2>3. marker' \in BOOLEAN /\ served' \in BOOLEAN
    BY <1>5 DEF BootBegins, BootScans, BootGets, BootMarks, BootDies, AccountsTypeOK
  <2>4. AccountsTypeOK'
    BY <1>3, <2>1, <2>2, <2>3 DEF AccountsTypeOK
  <2> QED
    BY <1>1, <1>2, <1>3, <1>4, <2>1, <2>4 DEF Moves, RowMoves
<1>6. CASE BootPuts
  <2> DEFINE u == NextSeed(boot.left)
             r == NewUser(u = SeedAdmin, Default)
  <2>1. boot.left \in SUBSET Users /\ boot.left # {} /\ u \in Users
    BY <1>6, BootShape, NextSeedShape DEF BootPuts, AccountsTypeOK, SeedsFirst
  <2>2. r \in UserRow /\ r.version = made + 1
    BY <1>1, <1>6, AccountsAssumption DEF NewUser, UserRow, Secrets, VersionNumbers, BootPuts
  <2>3. /\ user' = [user EXCEPT ![u] = r] /\ emptied' \in BOOLEAN /\ made' = made + 1
        /\ boot' = [pc |-> "get", left |-> boot.left \ {u}] /\ UNCHANGED <<marker, served>>
        /\ made < MaxVersions
    BY <1>6 DEF BootPuts, Store, AccountsTypeOK
  <2> HIDE DEF u, r
  <2>4. \A w \in Users : /\ RowMoves(w)
                         /\ user'[w] # NoUser => user'[w].version <= made' /\ user'[w].version >= -writes'
    BY <1>1, <1>2, <1>3, <2>1, <2>2, <2>3 DEF RowMoves
  <2>5. boot' \in Boot
    BY <2>1, <2>3 DEF Boot
  <2>6. \A t \in tokens : t.version \in Int
    BY AccountsAssumption DEF AccountsTypeOK, Token, VersionNumbers
  <2>7. AccountsTypeOK'
    BY <1>1, <1>3, <2>1, <2>2, <2>3, <2>4, <2>5, <2>6 DEF AccountsTypeOK
  <2> QED
    BY <1>1, <1>3, <1>4, <2>3, <2>4, <2>7 DEF Moves
<1> QED
  BY <1>5, <1>6

\* A request's write that takes an active admin, from one whom no other
\* write disturbed, leaves another one.
Leaves(p) ==
  \/ UNCHANGED <<user, emptied>> /\ \A q \in Requests : q # p => request'[q] = request[q]
  \/ \E u \in Users, r \in UserRow \cup {NoUser} :
       /\ Ends(p, u, r)
       /\ Disturbs(u, r) /\ ~request[p].disturbed /\ ~emptied => Admins \ {u} # {}

\* Every request's step is such a write, or none.
LEMMA RequestLeaves ==
  ASSUME AccountsTypeOK, AccountsTypeOK', Undisturbed, NEW p \in Requests,
         \/ SignInReads(p) \/ SignInIssues(p) \/ Asks(p) \/ ChangesPassword(p)
         \/ PatchReads(p) \/ PatchCounts(p) \/ PatchWrites(p)
         \/ RemoveUserReads(p) \/ RemoveUserDeletes(p) \/ AddReads(p) \/ AddPuts(p)
         \/ GivesUp(p)
  PROVE  Leaves(p)
<1>1. /\ user \in [Users -> UserRow \cup {NoUser}] /\ request[p] \in RequestState
      /\ user' \in [Users -> UserRow \cup {NoUser}] /\ request \in [Requests -> RequestState]
  BY DEF AccountsTypeOK
<1>2. CASE \/ SignInReads(p) \/ Asks(p) \/ PatchReads(p) \/ PatchCounts(p)
           \/ RemoveUserReads(p) \/ AddReads(p) \/ GivesUp(p)
  <2>1. NoWrite /\ \E state : Proceed(p, state)
    BY <1>2, Zenon DEF SignInReads, Asks, PatchReads, PatchCounts, RemoveUserReads, AddReads, GivesUp
  <2> QED
    BY <1>1, <2>1 DEF NoWrite, Proceed, Leaves
<1>3. ASSUME NEW u \in Users, NEW r, Ends(p, u, r)
      PROVE  r \in UserRow \cup {NoUser}
  <2>1. user'[u] = r
    BY <1>1, <1>3 DEF Ends, Store
  <2> QED
    BY <1>1, <2>1
<1>4. CASE SignInIssues(p)
  <2> DEFINE u == request[p].token.user
  <2>1. u \in Users
    BY <1>1, <1>4, RequestShape DEF SignInIssues, Token
  <2>2. Ends(p, u, UpsertUser(user[u]))
    BY <1>4 DEF SignInIssues
  <2>3. ~Disturbs(u, UpsertUser(user[u]))
    BY <1>1, <2>1, UpsertShape DEF Disturbs, ActiveAdmin
  <2> QED
    BY <1>3, <2>1, <2>2, <2>3 DEF Leaves
<1>5. CASE ChangesPassword(p)
  <2> DEFINE u == request[p].by
  <2>1. u \in Users
    BY <1>1, <1>5, RequestShape DEF ChangesPassword
  <2>2. PICK secret \in Chosen : Ends(p, u, Rehash(user[u], secret))
    BY <1>5 DEF ChangesPassword
  <2>3. ASSUME ActiveAdmin(user[u]) PROVE ActiveAdmin(Rehash(user[u], secret))
    <3> DEFINE s == user[u]
    <3>1. s \in UserRow /\ UpsertUser(user[u]) = s
      BY <1>1, <2>1, <2>3, UpsertShape DEF ActiveAdmin
    <3>2. Rehash(user[u], secret) = [s EXCEPT !.secret = secret, !.version = Bumped(s)]
      BY <3>1 DEF Rehash
    <3>3. ActiveAdmin(s)
      BY <2>3
    <3> HIDE DEF s
    <3>4. DOMAIN s = {"status", "put", "admin", "secret", "version"}
      BY <3>1 DEF UserRow
    <3> DEFINE n == [s EXCEPT !.secret = secret, !.version = Bumped(s)]
    <3>5. n.status = s.status /\ n.admin = s.admin /\ DOMAIN n = DOMAIN s
      BY <3>1 DEF UserRow
    <3>6. n # NoUser
      BY <3>4, <3>5 DEF NoUser
    <3> QED
      BY <3>2, <3>3, <3>5, <3>6 DEF ActiveAdmin
  <2> QED
    BY <1>3, <2>1, <2>2, <2>3 DEF Leaves, Disturbs
<1>6. CASE PatchWrites(p)
  <2> DEFINE u == request[p].target
             r == Updated(UpsertUser(user[u]), request[p].update)
  <2>1. u \in Users /\ request[p].update \in Updates
    BY <1>1, <1>6, RequestShape DEF PatchWrites
  <2>2. Ends(p, u, r)
    BY <1>6 DEF PatchWrites
  <2>3. ASSUME Disturbs(u, r), ~request[p].disturbed, ~emptied PROVE Admins \ {u} # {}
    <3>1. user[u] \in UserRow /\ UpsertUser(user[u]) = user[u] /\ ActiveAdmin(user[u])
      BY <1>1, <2>1, <2>3, UpsertShape DEF Disturbs, ActiveAdmin
    <3>2. request[p].update \in {"suspend", "demote"}
      BY <2>1, <2>3, <3>1, UpdatedShape DEF Disturbs
    <3> QED
      BY <1>6, <2>3, <3>2 DEF Undisturbed, PatchWrites
  <2> QED
    BY <1>3, <2>1, <2>2, <2>3 DEF Leaves
<1>7. CASE RemoveUserDeletes(p) \/ AddPuts(p)
  <2> DEFINE u == request[p].target
  <2>1. u \in Users /\ request[p].by \in Users
    BY <1>1, <1>7, RequestShape DEF RemoveUserDeletes, AddPuts
  <2>2. \E r : Ends(p, u, r)
    BY <1>7, Zenon DEF RemoveUserDeletes, AddPuts
  <2>3. ASSUME ~request[p].disturbed, ~emptied PROVE Admins \ {u} # {}
    BY <1>7, <2>1, <2>3 DEF Undisturbed, RemoveUserDeletes, AddPuts, Admins
  <2> QED
    BY <1>3, <2>1, <2>2, <2>3 DEF Leaves
<1> QED
  BY <1>2, <1>4, <1>5, <1>6, <1>7

\* After such a step: nobody lost an admin without the others hearing of it.
LEMMA LeavesKeepAdmins ==
  ASSUME AccountsTypeOK, NEW p \in Requests, Leaves(p), NEW q \in Requests, q # p,
         request'[q].pc \notin {"idle", "touch"}
  PROVE  \/ request'[q].disturbed /\ request'[q].pc = request[q].pc
            /\ (request[q].pc \in {"delete", "put"} =>
                  request'[q].by = request[q].by /\ request'[q].target = request[q].target)
         \/ request'[q] = request[q] /\ Admins \subseteq Admins'
<1>1. CASE UNCHANGED <<user, emptied>> /\ \A w \in Requests : w # p => request'[w] = request[w]
  BY <1>1 DEF Admins
<1>2. CASE \E u \in Users, r \in UserRow \cup {NoUser} : Ends(p, u, r)
  <2>1. PICK u \in Users, r \in UserRow \cup {NoUser} : Ends(p, u, r)
    BY <1>2
  <2>2. user' = [user EXCEPT ![u] = r] /\ user \in [Users -> UserRow \cup {NoUser}]
    BY <2>1, EndsShape DEF AccountsTypeOK
  <2>3. \/ /\ request'[q] = request[q]
           /\ Disturbs(u, r) => request[q].pc \in {"idle", "touch"}
        \/ /\ request[q].pc \notin {"idle", "touch"}
           /\ request'[q].pc = request[q].pc /\ request'[q].disturbed
           /\ request[q].pc \in {"delete", "put"} =>
                request'[q].by = request[q].by /\ request'[q].target = request[q].target
    BY <2>1, EndsShape
  <2>4. ~Disturbs(u, r) => Admins \subseteq Admins'
    BY <2>2 DEF Disturbs, Admins
  <2> QED
    BY <2>3, <2>4
<1> QED
  BY <1>1, <1>2 DEF Leaves

\* A request keeps the promise of the undisturbed ones, its own included.
LEMMA RequestUndisturbed ==
  ASSUME AccountsTypeOK, AccountsTypeOK', Undisturbed, NEW p \in Requests,
         \/ SignInReads(p) \/ SignInIssues(p) \/ Asks(p) \/ ChangesPassword(p)
         \/ PatchReads(p) \/ PatchCounts(p) \/ PatchWrites(p)
         \/ RemoveUserReads(p) \/ RemoveUserDeletes(p) \/ AddReads(p) \/ AddPuts(p)
         \/ GivesUp(p)
  PROVE  Undisturbed'
<1> DEFINE Keeps(q) ==
      /\ q.pc = "asked" /\ q.admin /\ ~q.disturbed => ActiveAdmin(user'[q.by])
      /\ q.pc \in {"count", "patch", "delete", "put"} /\ ~q.disturbed => ActiveAdmin(user'[q.by])
      /\ q.pc = "delete" => q.by # q.target
      /\ q.pc = "put" /\ ~q.disturbed => q.by # q.target
      /\ q.pc = "patch" /\ q.update \in {"suspend", "demote"} /\ ~q.disturbed =>
           Admins' \ {q.target} # {}
<1>0. SUFFICES ASSUME ~emptied' PROVE \A w \in Requests : Keeps(request'[w])
  BY DEF Undisturbed
<1>1. /\ user \in [Users -> UserRow \cup {NoUser}] /\ request[p] \in RequestState
      /\ user' \in [Users -> UserRow \cup {NoUser}] /\ request \in [Requests -> RequestState]
      /\ request' \in [Requests -> RequestState]
  BY DEF AccountsTypeOK
<1>2. Leaves(p)
  BY RequestLeaves
<1>3. ~emptied
  BY <1>0, <1>2 DEF Leaves, Ends, Store
<1>4. ASSUME NEW w \in Requests, w # p PROVE Keeps(request'[w])
  <2>1. CASE request'[w].pc \in {"idle", "touch"}
    BY <2>1
  <2>2. CASE request'[w].pc \notin {"idle", "touch"}
    <3>1. CASE /\ request'[w].disturbed /\ request'[w].pc = request[w].pc
               /\ (request[w].pc \in {"delete", "put"} =>
                     request'[w].by = request[w].by /\ request'[w].target = request[w].target)
      BY <1>3, <1>4, <3>1 DEF Undisturbed
    <3>2. CASE request'[w] = request[w] /\ Admins \subseteq Admins'
      <4>1. request[w].pc \in {"asked", "count", "patch", "delete", "put"} => request[w].by \in Users
        BY <1>1, <1>4, RequestShape
      <4>2. \A u \in Users : ActiveAdmin(user[u]) => ActiveAdmin(user'[u])
        BY <3>2 DEF Admins
      <4> QED
        BY <1>3, <1>4, <3>2, <4>1, <4>2 DEF Undisturbed
    <3> QED
      BY <1>2, <1>4, <2>2, <3>1, <3>2, LeavesKeepAdmins
  <2> QED
    BY <2>1, <2>2
<1>5. Keeps(request'[p])
  <2>1. CASE request'[p].pc \in {"idle", "touch"}
    BY <2>1
  <2>2. CASE Asks(p)
    <3>1. PICK t \in tokens : Accepted(t) /\
            Proceed(p, [pc |-> "asked", by |-> t.user, put |-> user[t.user].put,
                        admin |-> user[t.user].admin /\ user[t.user].secret # Default,
                        disturbed |-> FALSE])
      BY <2>2 DEF Asks
    <3>2. user' = user
      BY <2>2 DEF Asks, NoWrite
    <3>3. request'[p] = [pc |-> "asked", by |-> t.user, put |-> user[t.user].put,
                         admin |-> user[t.user].admin /\ user[t.user].secret # Default,
                         disturbed |-> FALSE]
      BY <1>1, <3>1 DEF Proceed
    <3> DEFINE admin == user[t.user].admin /\ user[t.user].secret # Default
    <3>4. /\ request'[p].pc = "asked" /\ request'[p].by = t.user
          /\ request'[p].admin = admin
      BY <3>3
    <3>5. admin => ActiveAdmin(user'[t.user])
      BY <3>1, <3>2 DEF Accepted, ActiveAdmin
    <3> HIDE DEF admin
    <3> QED
      BY <3>4, <3>5
  <2>3. CASE PatchReads(p)
    <3>1. PICK u \in Users, update \in Updates :
            Proceed(p, [pc |-> IF Strips(user[u], update) THEN "count" ELSE "patch",
                     by |-> request[p].by, target |-> u, update |-> update,
                     disturbed |-> request[p].disturbed])
      BY <2>3 DEF PatchReads
    <3>2. /\ user' = user /\ request[p].pc = "asked" /\ request[p].admin
          /\ request[p].by \in Users /\ Admins' = Admins
      BY <1>1, <2>3, RequestShape DEF PatchReads, AdminAsks, NoWrite, Admins
    <3>3. request'[p] = [pc |-> IF Strips(user[u], update) THEN "count" ELSE "patch",
                         by |-> request[p].by, target |-> u, update |-> update,
                         disturbed |-> request[p].disturbed]
      BY <1>1, <3>1 DEF Proceed
    <3>4. ~request[p].disturbed => ActiveAdmin(user[request[p].by]) /\ request[p].by \in Admins
      BY <1>3, <3>2 DEF Undisturbed, Admins
    <3>5. ~Strips(user[u], update) /\ update \in {"suspend", "demote"} => u \notin Admins
      BY DEF Strips, Admins
    <3> QED
      BY <3>2, <3>3, <3>4, <3>5
  <2>4. CASE PatchCounts(p)
    <3>1. /\ user' = user /\ request[p].pc = "count" /\ Admins' = Admins
          /\ request'[p] = IF AdminsLeft(request[p].target) THEN [request[p] EXCEPT !.pc = "patch"] ELSE Idle
      BY <1>1, <2>4 DEF PatchCounts, NoWrite, Admins, Proceed
    <3>2. request[p] \in [pc : {"count", "patch"}, by : Users, target : Users,
                          update : Updates, disturbed : BOOLEAN]
      BY <1>1, <3>1, RequestShape
    <3>3. CASE AdminsLeft(request[p].target)
      <4>1. /\ request'[p].pc = "patch" /\ request'[p].by = request[p].by
            /\ request'[p].target = request[p].target
            /\ request'[p].disturbed = request[p].disturbed
        BY <3>1, <3>2, <3>3
      <4> QED
        BY <1>3, <3>1, <3>3, <4>1 DEF Undisturbed, AdminsLeft
    <3>4. CASE ~AdminsLeft(request[p].target)
      BY <3>1, <3>4 DEF Idle
    <3> QED
      BY <3>3, <3>4
  <2>5. CASE RemoveUserReads(p)
    <3>1. PICK u \in Users \ {request[p].by} :
            Proceed(p, [pc |-> "delete", by |-> request[p].by, target |-> u,
                     disturbed |-> request[p].disturbed])
      BY <2>5 DEF RemoveUserReads
    <3>2. user' = user /\ request[p].pc = "asked" /\ request[p].admin
      BY <2>5 DEF RemoveUserReads, AdminAsks, NoWrite
    <3>3. request'[p] = [pc |-> "delete", by |-> request[p].by, target |-> u,
                         disturbed |-> request[p].disturbed]
      BY <1>1, <3>1 DEF Proceed
    <3> QED
      BY <1>3, <3>2, <3>3 DEF Undisturbed
  <2>6. CASE AddReads(p)
    <3>1. PICK u \in Users : user[u] = NoUser /\
            Proceed(p, [pc |-> "put", by |-> request[p].by, target |-> u,
                     disturbed |-> request[p].disturbed])
      BY <2>6 DEF AddReads
    <3>2. user' = user /\ request[p].pc = "asked" /\ request[p].admin
      BY <2>6 DEF AddReads, AdminAsks, NoWrite
    <3>3. request'[p] = [pc |-> "put", by |-> request[p].by, target |-> u,
                         disturbed |-> request[p].disturbed]
      BY <1>1, <3>1 DEF Proceed
    <3> QED
      BY <1>3, <3>1, <3>2, <3>3 DEF Undisturbed, ActiveAdmin
  <2>7. CASE SignInReads(p)
    <3>1. \E t : Proceed(p, [pc |-> "touch", token |-> t])
      BY <2>7, Zenon DEF SignInReads
    <3> QED
      BY <1>1, <2>1, <3>1 DEF Proceed
  <2>8. CASE GivesUp(p)
    BY <1>1, <2>1, <2>8 DEF GivesUp, Proceed, Idle
  <2>9. CASE \/ SignInIssues(p) \/ ChangesPassword(p) \/ PatchWrites(p)
             \/ RemoveUserDeletes(p) \/ AddPuts(p)
    <3>1. \E u, r : Ends(p, u, r)
      BY <2>9, Zenon DEF SignInIssues, ChangesPassword, PatchWrites, RemoveUserDeletes, AddPuts
    <3>2. request'[p] = Idle
      BY <3>1 DEF Ends
    <3> QED
      BY <3>2 DEF Idle
  <2> QED
    BY <2>2, <2>3, <2>4, <2>5, <2>6, <2>7, <2>8, <2>9
<1> QED
  BY <1>4, <1>5

\* The other steps take no active admin, unless the table was emptied.
LEMMA OthersUndisturbed ==
  ASSUME AccountsTypeOK, AccountsTypeOK', Undisturbed, SeedsFirst,
         \/ \E token \in tokens : SignOut(token)
         \/ BootBegins \/ BootScans \/ BootGets \/ BootPuts \/ BootMarks \/ BootDies
  PROVE  /\ Undisturbed'
         /\ ~emptied => Admins \subseteq Admins'
<1>1. user \in [Users -> UserRow \cup {NoUser}] /\ user' \in [Users -> UserRow \cup {NoUser}]
  BY DEF AccountsTypeOK
<1>2. request' = request /\ (~emptied' => ~emptied)
  <2>1. CASE \E token \in tokens : SignOut(token)
    BY <2>1 DEF SignOut
  <2>2. CASE BootBegins \/ BootScans \/ BootGets \/ BootMarks \/ BootDies
    BY <2>2 DEF BootBegins, BootScans, BootGets, BootMarks, BootDies, BootIdle
  <2>3. CASE BootPuts
    BY <2>3 DEF BootPuts, BootIdle, Store
  <2> QED
    BY <2>1, <2>2, <2>3
<1>3. ASSUME NEW u \in Users, ActiveAdmin(user[u]), ~emptied PROVE ActiveAdmin(user'[u])
  <2>1. CASE \E token \in tokens : SignOut(token)
    <3>1. PICK token \in tokens : SignOut(token)
      BY <2>1
    <3>2. token.user \in Users
      BY DEF AccountsTypeOK, Token
    <3>3. user' = [user EXCEPT ![token.user] =
                     [user[token.user] EXCEPT !.version = Bumped(user[token.user])]]
      BY <3>1 DEF SignOut
    <3>4. CASE token.user = u
      <4>1. user[u] \in UserRow
        BY <1>1, <1>3 DEF ActiveAdmin
      <4>2. user'[u] = [user[u] EXCEPT !.version = Bumped(user[u])]
        BY <1>1, <3>3, <3>4
      <4>3. user'[u].status = user[u].status /\ user'[u].admin = user[u].admin
        BY <4>1, <4>2 DEF UserRow
      <4>4. user'[u] # NoUser
        BY <4>1, <4>2 DEF UserRow, NoUser
      <4> QED
        BY <1>3, <4>3, <4>4 DEF ActiveAdmin
    <3>5. CASE token.user # u
      BY <1>1, <1>3, <3>3, <3>5
    <3> QED
      BY <3>4, <3>5
  <2>2. CASE BootBegins \/ BootScans \/ BootGets \/ BootMarks \/ BootDies
    BY <1>3, <2>2 DEF BootBegins, BootScans, BootGets, BootMarks, BootDies
  <2>3. CASE BootPuts
    <3>1. user[NextSeed(boot.left)] = NoUser
      BY <1>3, <2>3 DEF SeedsFirst, BootPuts
    <3>2. u # NextSeed(boot.left)
      BY <1>3, <3>1 DEF ActiveAdmin
    <3> QED
      BY <1>1, <1>3, <2>3, <3>2 DEF BootPuts, Store
  <2> QED
    BY <2>1, <2>2, <2>3
<1>4. ~emptied => Admins \subseteq Admins'
  BY <1>3 DEF Admins
<1>5. ASSUME ~emptied', NEW p \in Requests,
             request[p].pc \in {"asked", "count", "patch", "delete", "put"}
      PROVE  request[p].by \in Users
  BY <1>5, RequestShape DEF AccountsTypeOK
<1>6. Undisturbed'
  BY <1>2, <1>3, <1>4, <1>5 DEF Undisturbed
<1> QED
  BY <1>4, <1>6

\* Nothing is seeded into a table that is in use.
LEMMA SeedsFirstStep ==
  ASSUME AccountsTypeOK, AccountsTypeOK', SeedsFirst, AccountsNext
  PROVE  SeedsFirst'
<1>1. /\ user \in [Users -> UserRow \cup {NoUser}] /\ user' \in [Users -> UserRow \cup {NoUser}]
      /\ request \in [Requests -> RequestState] /\ boot \in Boot /\ SeedAdmin \in Users
      /\ NoUser \notin UserRow
  BY AccountsAssumption DEF AccountsTypeOK, NoUser, UserRow
<1>2. ASSUME NEW p \in Requests,
             \/ SignInReads(p) \/ SignInIssues(p) \/ Asks(p) \/ ChangesPassword(p)
             \/ PatchReads(p) \/ PatchCounts(p) \/ PatchWrites(p)
             \/ RemoveUserReads(p) \/ RemoveUserDeletes(p) \/ AddReads(p) \/ AddPuts(p)
             \/ GivesUp(p)
      PROVE  SeedsFirst'
  <2>1. served
    <3>1. SignInReads(p) \/ Asks(p) \/ request[p] # Idle
      BY <1>2 DEF SignInIssues, ChangesPassword, PatchReads, PatchCounts, PatchWrites,
                  RemoveUserReads, RemoveUserDeletes, AddReads, AddPuts, GivesUp, AdminAsks, Idle
    <3> QED
      BY <3>1 DEF SeedsFirst, SignInReads, Asks
  <2>2. UNCHANGED <<boot, marker, served>>
    BY <1>2 DEF SignInReads, SignInIssues, Asks, ChangesPassword, PatchReads, PatchCounts,
                PatchWrites, RemoveUserReads, RemoveUserDeletes, AddReads, AddPuts, GivesUp,
                NoWrite, Rest
  <2>3. UNCHANGED <<user, emptied>> \/ \E u, r : Store(u, r)
    BY <1>2, Zenon DEF SignInReads, SignInIssues, Asks, ChangesPassword, PatchReads, PatchCounts,
                PatchWrites, RemoveUserReads, RemoveUserDeletes, AddReads, AddPuts, GivesUp,
                NoWrite, Ends
  <2>4. ~emptied' /\ HasUsers => ~emptied /\ HasUsers'
    <3>1. CASE UNCHANGED <<user, emptied>>
      BY <3>1 DEF HasUsers
    <3>2. ASSUME NEW u, NEW r, Store(u, r) PROVE ~emptied' /\ HasUsers => ~emptied /\ HasUsers'
      <4>1. user' = [user EXCEPT ![u] = r]
        BY <3>2 DEF Store
      <4>2. ~emptied' => ~emptied /\ (r # NoUser \/ \E w \in Users \ {u} : user[w] # NoUser)
        BY <3>2 DEF Store, AccountsTypeOK
      <4> QED
        BY <1>1, <4>1, <4>2 DEF HasUsers
    <3> QED
      BY <2>3, <3>1, <3>2
  <2>5. ~emptied' => ~emptied
    BY <2>3 DEF Store, AccountsTypeOK
  <2> QED
    BY <2>1, <2>2, <2>4, <2>5 DEF SeedsFirst
<1>3. ASSUME NEW token \in tokens, SignOut(token) PROVE SeedsFirst'
  <2>1. /\ served /\ UNCHANGED <<request, boot, marker, served, removedUsers, emptied>>
        /\ user[token.user] # NoUser /\ token.user \in Users
        /\ user' = [user EXCEPT ![token.user] =
                     [user[token.user] EXCEPT !.version = Bumped(user[token.user])]]
    BY <1>3 DEF SignOut, Revokes, AccountsTypeOK, Token
  <2>2. [user[token.user] EXCEPT !.version = Bumped(user[token.user])] # NoUser
    BY <1>1, <2>1 DEF UserRow, NoUser
  <2>3. \A u \in Users : user'[u] # NoUser <=> user[u] # NoUser
    BY <1>1, <2>1, <2>2
  <2> QED
    BY <2>1, <2>3 DEF SeedsFirst, HasUsers
<1>4. CASE BootBegins \/ BootScans \/ BootMarks \/ BootDies
  BY <1>1, <1>4 DEF BootBegins, BootScans, BootMarks, BootDies, BootIdle, SeedsFirst, HasUsers, Idle
<1>5. CASE BootGets
  <2>1. boot \in [pc : {"get", "put"}, left : SUBSET Users] /\ boot.pc = "get"
    BY <1>1, <1>5, BootShape DEF BootGets
  <2>2. /\ UNCHANGED <<user, made, marker, served, emptied, request, removedUsers>>
        /\ \/ boot.left = {} /\ boot' = [pc |-> "mark"]
           \/ /\ boot.left # {} /\ user[NextSeed(boot.left)] = NoUser
              /\ boot' = [boot EXCEPT !.pc = "put"]
           \/ /\ boot.left # {} /\ user[NextSeed(boot.left)] # NoUser
              /\ boot' = [boot EXCEPT !.left = boot.left \ {NextSeed(boot.left)}]
    BY <1>5, Zenon DEF BootGets, BootIdle
  <2>3. CASE boot.left = {} /\ boot' = [pc |-> "mark"]
    BY <1>1, <2>1, <2>2, <2>3 DEF SeedsFirst, HasUsers
  <2>4. CASE /\ boot.left # {} /\ user[NextSeed(boot.left)] = NoUser
             /\ boot' = [boot EXCEPT !.pc = "put"]
    <3>1. boot'.pc = "put" /\ boot'.left = boot.left
      BY <2>1, <2>4
    <3> QED
      BY <2>1, <2>2, <2>4, <3>1 DEF SeedsFirst, HasUsers
  <2>5. CASE /\ boot.left # {} /\ user[NextSeed(boot.left)] # NoUser
             /\ boot' = [boot EXCEPT !.left = boot.left \ {NextSeed(boot.left)}]
    <3>1. boot'.pc = "get" /\ boot'.left = boot.left \ {NextSeed(boot.left)}
      BY <2>1, <2>5
    <3> QED
      BY <2>1, <2>2, <2>5, <3>1 DEF SeedsFirst, HasUsers
  <2> QED
    BY <2>2, <2>3, <2>4, <2>5
<1>6. CASE BootPuts
  <2> DEFINE u == NextSeed(boot.left)
             r == NewUser(u = SeedAdmin, Default)
  <2>1. /\ boot.left \in SUBSET Users /\ boot.left # {} /\ boot.pc = "put" /\ u \in Users
    BY <1>1, <1>6, BootShape, NextSeedShape DEF BootPuts, SeedsFirst
  <2>2. r # NoUser
    BY DEF NewUser, NoUser
  <2>3. /\ user' = [user EXCEPT ![u] = r] /\ (~emptied' => ~emptied)
        /\ boot' = [pc |-> "get", left |-> boot.left \ {u}]
        /\ UNCHANGED <<marker, served, request, removedUsers>>
    BY <1>6 DEF BootPuts, Store, BootIdle, AccountsTypeOK
  <2> HIDE DEF u, r
  <2>4. user'[u] # NoUser /\ \A w \in Users : user[w] # NoUser => user'[w] # NoUser
    BY <1>1, <2>1, <2>2, <2>3
  <2> QED
    BY <2>1, <2>3, <2>4 DEF SeedsFirst, HasUsers
<1> QED
  BY <1>2, <1>3, <1>4, <1>5, <1>6 DEF AccountsNext

\* Both the box that was never bootstrapped and the one in use start with it.
LEMMA AccountsInitInv ==
  ASSUME AccountsInit
  PROVE  AccountsInv
<1>1. /\ MaxVersions \in Nat \ {0} /\ MaxWrites \in Nat /\ SeedAdmin \in Users
      /\ 0 \in VersionNumbers /\ 1 \in VersionNumbers
  BY AccountsAssumption DEF VersionNumbers
<1>2. /\ writes = 0 /\ request = [p \in Requests |-> Idle] /\ boot = Idle
      /\ ended = {} /\ removedUsers = {} /\ emptied = FALSE
  BY DEF AccountsInit
<1>3. Sessions = tokens
  BY <1>2 DEF Sessions, Idle
<1>4. request \in [Requests -> RequestState] /\ boot \in Boot
  BY <1>2 DEF RequestState, Boot
<1>5. Undisturbed
  BY <1>2 DEF Undisturbed, Idle
<1>6. CASE /\ user = [u \in Users |-> NoUser]
           /\ tokens = {} /\ made = 0 /\ marker = FALSE /\ served = FALSE
  <2>1. AccountsTypeOK
    <3>1. user \in [Users -> UserRow \cup {NoUser}] /\ \A u \in Users : user[u] = NoUser
      BY <1>6
    <3>2. made \in 0 .. MaxVersions /\ writes \in 0 .. MaxWrites
      BY <1>1, <1>2, <1>6
    <3>3. marker \in BOOLEAN /\ served \in BOOLEAN /\ emptied \in BOOLEAN
      BY <1>2, <1>6
    <3> QED
      BY <1>2, <1>4, <1>6, <3>1, <3>2, <3>3 DEF AccountsTypeOK
  <2>2. SessionsInv /\ CountsDown
    BY <1>2, <1>3, <1>6 DEF SessionsInv, CountsDown
  <2>3. SeedsFirst
    BY <1>2, <1>6 DEF SeedsFirst, Idle
  <2> QED
    BY <1>5, <2>1, <2>2, <2>3 DEF AccountsInv
<1>7. CASE /\ \E admin \in [Users -> BOOLEAN], secret \in Chosen :
                /\ admin[SeedAdmin]
                /\ user = [u \in Users |-> [status |-> "active", put |-> TRUE, admin |-> admin[u],
                                           secret |-> secret, version |-> 1]]
                /\ tokens = [user : Users, version : {1}, secret : {secret}]
           /\ made = 1 /\ marker \in BOOLEAN /\ served = TRUE
  <2>1. PICK admin \in [Users -> BOOLEAN], secret \in Chosen :
          /\ user = [u \in Users |-> [status |-> "active", put |-> TRUE, admin |-> admin[u],
                                     secret |-> secret, version |-> 1]]
          /\ tokens = [user : Users, version : {1}, secret : {secret}]
    BY <1>7
  <2>2. \A u \in Users : /\ user[u] \in UserRow /\ user[u] # NoUser
                         /\ user[u].version = 1 /\ user[u].secret = secret
    BY <1>1, <2>1 DEF UserRow, Secrets, NoUser
  <2>3. \A t \in tokens : t \in Token /\ t.user \in Users /\ t.version = 1 /\ t.secret = secret
    BY <1>1, <2>1 DEF Token, Secrets
  <2>4. AccountsTypeOK
    <3>1. user \in [Users -> UserRow \cup {NoUser}]
      BY <2>1, <2>2
    <3>2. made \in 0 .. MaxVersions /\ writes \in 0 .. MaxWrites
      BY <1>1, <1>2, <1>7
    <3>3. marker \in BOOLEAN /\ served \in BOOLEAN /\ emptied \in BOOLEAN
      BY <1>2, <1>7
    <3>4. \A t \in tokens : t.version <= made
      BY <1>7, <2>3
    <3>5. \A u \in Users : user[u] # NoUser => user[u].version <= made
      BY <1>7, <2>2
    <3> QED
      BY <1>2, <1>4, <2>3, <3>1, <3>2, <3>3, <3>4, <3>5 DEF AccountsTypeOK
  <2>5. SessionsInv /\ CountsDown
    BY <1>2, <1>3, <1>7, <2>2, <2>3 DEF SessionsInv, CountsDown
  <2>6. SeedsFirst
    BY <1>1, <1>2, <1>7, <2>2 DEF SeedsFirst, Idle, HasUsers
  <2> QED
    BY <1>5, <2>4, <2>5, <2>6 DEF AccountsInv
<1> QED
  BY <1>6, <1>7 DEF AccountsInit

\* Every step keeps it.
LEMMA AccountsStep ==
  ASSUME AccountsInv, AccountsNext
  PROVE  AccountsInv'
<1> USE DEF AccountsInv
<1>1. AccountsTypeOK' /\ Moves
  BY RequestMoves, SignOutMoves, BootMoves DEF AccountsNext
<1>2. Undisturbed'
  BY <1>1, RequestUndisturbed, OthersUndisturbed DEF AccountsNext
<1>3. SeedsFirst'
  BY <1>1, SeedsFirstStep
<1> QED
  BY <1>1, <1>2, <1>3, MovesKeepSessions

\* The invariant of the users table and its sessions, in every state.
THEOREM AccountsInvariant == AccountsSpec => []AccountsInv
<1>1. ASSUME AccountsInv, UNCHANGED accountVars PROVE AccountsInv'
  <2>1. UNCHANGED <<user, tokens, made, writes, request, boot, marker, served, ended,
                    removedUsers, emptied>>
    BY <1>1 DEF accountVars
  <2>2. AccountsTypeOK' /\ SeedsFirst' /\ Undisturbed'
    BY <1>1, <2>1 DEF AccountsInv, AccountsTypeOK, SeedsFirst, HasUsers, Undisturbed, Admins
  <2>3. SessionsInv' /\ CountsDown'
    BY <1>1, <2>1 DEF AccountsInv, SessionsInv, CountsDown, Sessions
  <2> QED
    BY <2>2, <2>3 DEF AccountsInv
<1>2. AccountsInv /\ [AccountsNext]_accountVars => AccountsInv'
  BY <1>1, AccountsStep
<1> QED
  BY AccountsInitInv, <1>2, PTL DEF AccountsSpec

\* Rows, sessions, requests and the bootstrap have their types.
THEOREM AccountsTypeCorrect == AccountsSpec => []AccountsTypeOK
<1>1. AccountsInv => AccountsTypeOK
  BY DEF AccountsInv
<1> QED
  BY <1>1, AccountsInvariant, PTL

\* No password change, sign-out, or removal of a user leaves a session behind
\* that the routes accept, whatever was in flight.
THEOREM SessionsCurrentHolds == AccountsSpec => []SessionsCurrent
<1>1. ASSUME AccountsInv PROVE SessionsCurrent
  <2> SUFFICES ASSUME NEW t \in tokens, Accepted(t), user[t.user].put
               PROVE  t.secret = user[t.user].secret /\ <<t.user, t.version>> \notin ended
    BY DEF SessionsCurrent
  <2>1. t \in Sessions /\ t.user \in Users
    BY <1>1 DEF Sessions, AccountsInv, AccountsTypeOK, Token
  <2> QED
    BY <1>1, <2>1 DEF AccountsInv, SessionsInv, Accepted
<1> QED
  BY <1>1, AccountsInvariant, PTL

\* One request alone never takes the last active admin.
THEOREM LastAdminHolds == AccountsSpec => LastAdminNeverAlone
<1>1. ASSUME AccountsInv, AccountsInv', AccountsNext, Admins # {}, Admins' = {}, ~emptied
      PROVE  \E p \in Requests : request'[p] # request[p] /\ request[p].disturbed
  <2>1. ~(\/ \E token \in tokens : SignOut(token)
          \/ BootBegins \/ BootScans \/ BootGets \/ BootPuts \/ BootMarks \/ BootDies)
    BY <1>1, OthersUndisturbed DEF AccountsInv
  <2>2. PICK p \in Requests :
          \/ SignInReads(p) \/ SignInIssues(p) \/ Asks(p) \/ ChangesPassword(p)
          \/ PatchReads(p) \/ PatchCounts(p) \/ PatchWrites(p)
          \/ RemoveUserReads(p) \/ RemoveUserDeletes(p) \/ AddReads(p) \/ AddPuts(p)
          \/ GivesUp(p)
    BY <1>1, <2>1 DEF AccountsNext
  <2>3. Leaves(p)
    BY <1>1, <2>2, RequestLeaves DEF AccountsInv
  <2>4. user' # user
    BY <1>1 DEF Admins
  <2>5. PICK u \in Users, r \in UserRow \cup {NoUser} :
          /\ Ends(p, u, r)
          /\ Disturbs(u, r) /\ ~request[p].disturbed /\ ~emptied => Admins \ {u} # {}
    BY <2>3, <2>4 DEF Leaves
  <2>6. user \in [Users -> UserRow \cup {NoUser}] /\ user' = [user EXCEPT ![u] = r]
    BY <1>1, <2>5 DEF AccountsInv, AccountsTypeOK, Ends, Store
  <2>7. Admins \ {u} = {}
    BY <1>1, <2>6 DEF Admins
  <2>8. Disturbs(u, r)
    BY <1>1, <2>6, <2>7 DEF Admins, Disturbs
  <2>9. request[p].disturbed
    BY <1>1, <2>5, <2>7, <2>8
  <2>10. request[p] # Idle
    BY <2>4, <2>2 DEF SignInReads, SignInIssues, Asks, ChangesPassword, PatchReads, PatchCounts,
                PatchWrites, RemoveUserReads, RemoveUserDeletes, AddReads, AddPuts, GivesUp,
                NoWrite, Idle
  <2>11. request'[p] = Idle
    BY <2>5 DEF Ends
  <2> QED
    BY <2>9, <2>10, <2>11
<1>2. ASSUME AccountsInv, AccountsInv', [AccountsNext]_accountVars
      PROVE  [Admins # {} /\ Admins' = {} /\ ~emptied =>
               \E p \in Requests : request'[p] # request[p] /\ request[p].disturbed]_accountVars
  BY <1>1, <1>2
<1> QED
  BY <1>2, AccountsInvariant, PTL DEF AccountsSpec, LastAdminNeverAlone

\* A bootstrap brings no removed user back.
THEOREM RemovedStaysHolds == AccountsSpec => RemovedStaysRemoved
<1>1. ASSUME AccountsInv, AccountsInv', AccountsNext, boot' # boot, ~emptied, NEW u \in removedUsers
      PROVE  user'[u] = user[u]
  <2>1. UNCHANGED user \/ BootPuts
    BY <1>1 DEF AccountsNext, SignInReads, SignInIssues, Asks, ChangesPassword, PatchReads,
                PatchCounts, PatchWrites, RemoveUserReads, RemoveUserDeletes, AddReads, AddPuts,
                GivesUp, NoWrite, Rest, SignOut, BootBegins, BootScans, BootGets, BootMarks,
                BootDies
  <2>2. ~BootPuts
    BY <1>1 DEF AccountsInv, SeedsFirst, BootPuts
  <2> QED
    BY <2>1, <2>2
<1>2. ASSUME AccountsInv, AccountsInv', [AccountsNext]_accountVars
      PROVE  [boot' # boot /\ ~emptied => \A u \in removedUsers : user'[u] = user[u]]_accountVars
  BY <1>1, <1>2
<1> QED
  BY <1>2, AccountsInvariant, PTL DEF AccountsSpec, RemovedStaysRemoved

=============================================================================
