---------------------------- MODULE PlaybookVersions ----------------------------
(***************************************************************************)
(* The versions of one playbook, and which of them a review runs.  Admins  *)
(* upload, approve, activate, roll back and remove versions; the deploy    *)
(* step seeds the shipped one.  A submission resolves the active release   *)
(* bundle once; before the review runs, the pipeline verifies that bundle  *)
(* is still the active one and then loads what is active.                  *)
(*                                                                         *)
(* The version rows and the playbook row live in two tables and every      *)
(* change takes several calls; a process runs one handler at a time, and   *)
(* a call may raise or the process die between any two.                    *)
(***************************************************************************)
EXTENDS Naturals

CONSTANTS
  Processes,   \* backend processes
  Versions,    \* version identifiers, an initial segment of Nat
  SeedVersion, \* the one the deploy step uses
  Bundles,     \* contents of uploaded artifacts, named by their hash
  Shipped,     \* the content on disk, named by the seed's hash
  Runs,        \* reviews
  NoBundle,    \* no hash
  MaxStops     \* bound: operations that stop half-way

ASSUME BundleAssumption == Shipped \notin Bundles /\ NoBundle \notin Bundles \cup {Shipped}
ASSUME StopsAssumption == MaxStops \in Nat
ASSUME VersionAssumption == Versions \subseteq Nat \ {0} /\ SeedVersion \in Versions

VARIABLES
  versionRow,  \* the row of each version
  activeHash,  \* active_release_bundle_hash on the playbook row, or NoBundle
  removed,     \* the playbook row's tombstone
  op,          \* what each process does
  review,      \* each review: its recorded bundle and what it runs
  stops,       \* operations stopped half-way
  approved,    \* history: contents whose approval was recorded
  steady       \* history: reviews whose bundle nobody touched since they verified

versionVars == <<versionRow, activeHash, removed, op, review, stops, approved, steady>>

Hashes == Bundles \cup {Shipped, NoBundle}
Absent == [status |-> "absent", hash |-> NoBundle, approval |-> NoBundle,
           activated |-> FALSE]
Row == [status : {"absent", "none", "draft", "active", "retired"}, hash : Hashes,
        approval : Hashes, activated : BOOLEAN]

\* pc: the call the operation makes next.
IdleOp == [pc |-> "idle"]
Change == [kind : {"activate", "rollback", "seed"}, v : Versions, hash : Hashes,
           prior : Versions \cup {0}, pc : {"find", "retire", "mark", "point"}]
Op == {IdleOp} \cup Change
        \cup [pc : {"approve"}, v : Versions, hash : Hashes]
        \cup [pc : {"delete", "clear"}, left : SUBSET Versions]
        \cup [pc : {"resolve"}, run : Runs, hash : Hashes]

NewReview == [pc |-> "new", hash |-> NoBundle, ran |-> NoBundle]

VersionsTypeOK ==
  /\ versionRow \in [Versions -> Row]
  /\ activeHash \in Hashes /\ removed \in BOOLEAN
  /\ op \in [Processes -> Op]
  /\ review \in [Runs -> [pc : {"new", "queued", "verify", "load", "ran", "quarantined"},
                          hash : Hashes, ran : Hashes]]
  /\ \A r \in Runs : review[r].pc # "new" => review[r].hash # NoBundle
  /\ stops \in 0 .. MaxStops
  /\ approved \subseteq Bundles /\ steady \subseteq Runs

VersionsInit ==
  /\ versionRow = [v \in Versions |-> Absent]
  /\ activeHash = NoBundle /\ removed = FALSE
  /\ op = [p \in Processes |-> IdleOp]
  /\ review = [r \in Runs |-> NewReview]
  /\ stops = 0 /\ approved = {} /\ steady = {}

Goto(p, state) == op' = [op EXCEPT ![p] = state]

\* A write to the version rows or to the playbook row.
Write(v, row) ==
  /\ versionRow' = [versionRow EXCEPT ![v] = row]
  /\ steady' = {}
  /\ UNCHANGED <<activeHash, removed>>
Point(hash, gone) ==
  /\ activeHash' = hash /\ removed' = (removed \/ gone)
  /\ steady' = {}
  /\ UNCHANGED versionRow
ReadOnly == UNCHANGED <<versionRow, activeHash, removed, steady>>

\* update_item on a row that is gone creates it anew.
Upsert(v) == IF versionRow[v] = Absent THEN [Absent EXCEPT !.status = "none"]
             ELSE versionRow[v]

\* _find_active_item: the first active row in the table's order, 0 for none.
ActiveVersion ==
  LET actives == {v \in Versions : versionRow[v].status = "active"}
  IN  IF actives = {} THEN 0 ELSE CHOOSE v \in actives : \A w \in actives : v <= w

Stored(v) == v # 0 /\ versionRow[v].hash \in Bundles

-----------------------------------------------------------------------------
(* The administrators and the deploy step.                                 *)

\* The append-only put of a draft; an identifier in use is refused.
Upload(p) ==
  /\ op[p] = IdleOp
  /\ \E v \in Versions, b \in Bundles :
       /\ versionRow[v] = Absent
       /\ Write(v, [Absent EXCEPT !.status = "draft", !.hash = b])
  /\ UNCHANGED <<op, review, stops, approved>>

\* The approval names the hash recorded for the version it read.
ApproveReads(p) ==
  /\ op[p] = IdleOp
  /\ \E v \in Versions :
       /\ versionRow[v].hash # NoBundle
       /\ Goto(p, [pc |-> "approve", v |-> v, hash |-> versionRow[v].hash])
  /\ ReadOnly /\ UNCHANGED <<review, stops, approved>>

ApproveWrites(p) ==
  /\ op[p].pc = "approve"
  /\ Write(op[p].v, [Upsert(op[p].v) EXCEPT !.approval = op[p].hash])
  /\ approved' = approved \cup ({op[p].hash} \ {Shipped})
  /\ Goto(p, IdleOp)
  /\ UNCHANGED <<review, stops>>

\* Any recorded approval will do.
Gate7AnyHash(v) == versionRow[v].hash # NoBundle

\* Gate 7: the recorded approval is of the content being promoted.
Gate7(v) == /\ versionRow[v].hash # NoBundle
            /\ versionRow[v].approval = versionRow[v].hash

BeginChange(p) ==
  /\ op[p] = IdleOp
  /\ \E kind \in {"activate", "rollback"}, v \in Versions :
       /\ IF kind = "activate" THEN Gate7(v) ELSE versionRow[v].hash # NoBundle
       /\ Goto(p, [kind |-> kind, v |-> v, hash |-> versionRow[v].hash,
                   prior |-> 0, pc |-> "find"])
  /\ ReadOnly /\ UNCHANGED <<review, stops, approved>>

\* The deploy step puts the shipped playbook as a version where the playbook
\* has none and was not removed, and activates it ungated.
Seed(p) ==
  /\ op[p] = IdleOp /\ ~removed
  /\ \A v \in Versions : versionRow[v] = Absent
  /\ Write(SeedVersion, [Absent EXCEPT !.status = "draft", !.hash = Shipped])
  /\ Goto(p, [kind |-> "seed", v |-> SeedVersion, hash |-> Shipped,
              prior |-> 0, pc |-> "find"])
  /\ UNCHANGED <<review, stops, approved>>

\* The target is read once more, then the version that is active now; only
\* a version that was activated before can be rolled back to.
FindActive(p) ==
  /\ op[p].pc = "find"
  /\ LET v == op[p].v
         prior == ActiveVersion
     IN  IF versionRow[v] = Absent \/ (op[p].kind = "rollback" /\ ~versionRow[v].activated)
         THEN Goto(p, IdleOp)
         ELSE Goto(p, [op[p] EXCEPT
                !.prior = prior,
                !.hash = IF op[p].kind = "rollback" THEN versionRow[v].hash ELSE @,
                !.pc = IF prior \in {0, v} THEN "mark" ELSE "retire"])
  /\ ReadOnly /\ UNCHANGED <<review, stops, approved>>

RetirePrior(p) ==
  /\ op[p].pc = "retire"
  /\ Write(op[p].prior, [Upsert(op[p].prior) EXCEPT !.status = "retired"])
  /\ Goto(p, [op[p] EXCEPT !.pc = "mark"])
  /\ UNCHANGED <<review, stops, approved>>

\* Only an activation leaves the durable activated_at.
MarkActive(p) ==
  /\ op[p].pc = "mark"
  /\ Write(op[p].v, [Upsert(op[p].v) EXCEPT !.status = "active",
                                            !.activated = @ \/ op[p].kind # "rollback"])
  /\ Goto(p, [op[p] EXCEPT !.pc = "point"])
  /\ UNCHANGED <<review, stops, approved>>

\* _write_active_release_bundle_hash; the resolver reads it.
PointResolver(p) ==
  /\ op[p].pc = "point"
  /\ Point(op[p].hash, FALSE)
  /\ Goto(p, IdleOp)
  /\ UNCHANGED <<review, stops, approved>>

\* Removal deletes the rows it listed one by one, then clears the pointer.
RemoveBegin(p) ==
  /\ op[p] = IdleOp
  /\ Goto(p, [pc |-> "delete", left |-> {v \in Versions : versionRow[v] # Absent}])
  /\ ReadOnly /\ UNCHANGED <<review, stops, approved>>

RemoveDeletes(p) ==
  /\ op[p].pc = "delete"
  /\ IF op[p].left = {}
     THEN /\ Goto(p, [op[p] EXCEPT !.pc = "clear"])
          /\ ReadOnly
     ELSE LET v == CHOOSE w \in op[p].left : \A u \in op[p].left : w <= u
          IN  /\ Write(v, Absent)
              /\ Goto(p, [op[p] EXCEPT !.left = @ \ {v}])
  /\ UNCHANGED <<review, stops, approved>>

RemoveClears(p) ==
  /\ op[p].pc = "clear"
  /\ Point(NoBundle, TRUE)
  /\ Goto(p, IdleOp)
  /\ UNCHANGED <<review, stops, approved>>

\* A call raises, or the process dies: nothing is rolled back.
Stop(p) ==
  /\ op[p] # IdleOp /\ stops < MaxStops
  /\ stops' = stops + 1
  /\ Goto(p, IdleOp)
  /\ ReadOnly /\ UNCHANGED <<review, approved>>

-----------------------------------------------------------------------------
(* Reviews.                                                                *)

\* The hash read from the playbook row stands if the active version stores
\* an artifact of that hash, or if none is active or it is not an uploaded
\* artifact: then the playbook on disk, which is valid, is the one meant.
Resolves(hash) == /\ hash # NoBundle
                  /\ Stored(ActiveVersion) => versionRow[ActiveVersion].hash = hash

SubmitReads(p) ==
  /\ op[p] = IdleOp
  /\ \E r \in Runs :
       /\ review[r] = NewReview
       /\ \A q \in Processes : op[q].pc = "resolve" => op[q].run # r
       /\ Goto(p, [pc |-> "resolve", run |-> r, hash |-> activeHash])
  /\ ReadOnly /\ UNCHANGED <<review, stops, approved>>

\* A hash that does not resolve refuses the submission.
SubmitResolves(p) ==
  /\ op[p].pc = "resolve"
  /\ review' = IF Resolves(op[p].hash)
               THEN [review EXCEPT ![op[p].run] = [@ EXCEPT !.pc = "queued", !.hash = op[p].hash]]
               ELSE review
  /\ Goto(p, IdleOp)
  /\ ReadOnly /\ UNCHANGED <<stops, approved>>

\* The pipeline's verify step, in two reads; a bundle that is not the active
\* one quarantines the review.
VerifyReads(r) ==
  /\ review[r].pc = "queued"
  /\ IF activeHash = review[r].hash
     THEN /\ review' = [review EXCEPT ![r].pc = "verify"]
          /\ steady' = steady \cup {r}
     ELSE /\ review' = [review EXCEPT ![r].pc = "quarantined"]
          /\ UNCHANGED steady
  /\ UNCHANGED <<versionRow, activeHash, removed, op, stops, approved>>

Verify(r) ==
  /\ review[r].pc = "verify"
  /\ review' = [review EXCEPT ![r].pc =
                  IF Resolves(review[r].hash) THEN "load" ELSE "quarantined"]
  /\ ReadOnly /\ UNCHANGED <<op, stops, approved>>

\* Mutant: the load takes the playbook on disk, whatever was verified.
LoadFromDisk(r) ==
  /\ review[r].pc = "load"
  /\ review' = [review EXCEPT ![r].pc = "ran", ![r].ran = Shipped]
  /\ ReadOnly /\ UNCHANGED <<op, stops, approved>>

\* The load reads the active version again: its artifact, or the disk.
Load(r) ==
  /\ review[r].pc = "load"
  /\ review' = [review EXCEPT
       ![r].pc = "ran",
       ![r].ran = IF Stored(ActiveVersion) THEN versionRow[ActiveVersion].hash ELSE Shipped]
  /\ ReadOnly /\ UNCHANGED <<op, stops, approved>>

VersionsNext ==
  \/ \E p \in Processes :
       \/ Upload(p) \/ ApproveReads(p) \/ ApproveWrites(p)
       \/ BeginChange(p) \/ Seed(p) \/ FindActive(p) \/ RetirePrior(p)
       \/ MarkActive(p) \/ PointResolver(p)
       \/ RemoveBegin(p) \/ RemoveDeletes(p) \/ RemoveClears(p) \/ Stop(p)
       \/ SubmitReads(p) \/ SubmitResolves(p)
  \/ \E r \in Runs : VerifyReads(r) \/ Verify(r) \/ Load(r)

VersionsSpec == VersionsInit /\ [][VersionsNext]_versionVars

-----------------------------------------------------------------------------

\* A review runs the bundle it recorded when it was submitted, unless the
\* versions or the playbook row were written between its verify and its
\* load; or it runs the playbook on disk, because no uploaded version is
\* active, as when an activation stopped half-way.
RunsItsBundle ==
  \A r \in Runs : review[r].pc = "ran" /\ r \in steady
                    => review[r].ran = review[r].hash \/ ~Stored(ActiveVersion)

\* No review runs uploaded content that no approval was ever recorded for,
\* whatever rollbacks, removals and interrupted operations came before.
ServedWasApproved ==
  \A r \in Runs : review[r].ran \in approved \cup {Shipped, NoBundle}

=============================================================================
