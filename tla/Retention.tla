------------------------------ MODULE Retention ------------------------------
(***************************************************************************)
(* What happens to a review's documents and its confidential fields once   *)
(* they exist: the pipeline that still writes an output, admins who place  *)
(* and release legal holds, users who draft a cover note or record a       *)
(* disposition, and the purge sweep, each making one call at a time to the *)
(* reviews table or to the buckets.                                        *)
(*                                                                         *)
(* The buckets are those of AWS, whose policy denies the deletion of an    *)
(* object that carries the legal-hold tag.  The sweep's listing of its     *)
(* candidates is read at once; each is read again before it is purged.     *)
(***************************************************************************)
EXTENDS Naturals

CONSTANTS
  Reviews,
  Admins,     \* requests in flight at once that place or release holds
  Users,      \* those that draft a cover note or record a disposition
  MaxFaults   \* bound: table, bucket or audit calls that raise

ASSUME RetentionFaultAssumption == MaxFaults \in Nat

VARIABLES
  status,     \* the row's status
  held,       \* reviews whose row says legal_hold
  purged,     \* reviews whose row has a purged_at
  expired,    \* reviews past their own retention window
  substance,  \* confidential fields on each row
  stored,     \* objects of each review in the buckets
  tagged,     \* those that carry the legal-hold tag
  writer,     \* the output write of each review's pipeline
  req,        \* what each handler does
  sweep,      \* the purge sweep
  faults,     \* calls that raised
  covered     \* history: objects listed or caught up by a hold not overlapped

row == <<status, held, purged, expired, substance>>
bucket == <<stored, tagged>>
retentionVars == <<row, bucket, writer, req, sweep, faults, covered>>

Handlers == Admins \cup Users
Objects == {1, 2}                 \* the input, then the output, as listed
Output == 2
Fields == {"summary", "note", "draft"}
Terminal == {"DONE", "CANCELLED"}
First(S) == CHOOSE o \in S : \A p \in S : o <= p

IdleReq == [kind |-> "none", pc |-> "idle"]
IdleSweep == [pc |-> "idle"]
HoldPc == {"list", "tag", "row", "relist", "catch", "audit", "revert", "undo"}

SweepState == {IdleSweep} \cup [pc : {"next"}, candidates : SUBSET Reviews] \cup
              [pc : {"list", "delete"}, candidates : SUBSET Reviews,
               rev : Reviews, left : SUBSET Objects]

\* was: the row as the request read it; targets: the objects it listed; todo:
\* those still to tag or put back; done: those changed; alone: no other change
\* of this hold overlapped.
HoldReq == [kind : {"set", "release"}, rev : Reviews, pc : HoldPc, was : BOOLEAN,
            targets : SUBSET Objects, todo : SUBSET Objects,
            done : SUBSET Objects, alone : BOOLEAN]
FieldReq == [kind : {"cover"}, pc : {"write"}, rev : Reviews] \cup
            [kind : {"disposition"}, pc : {"write"}, rev : Reviews, note : BOOLEAN]

RetentionTypeOK ==
  /\ status \in [Reviews -> {"RUNNING"} \cup Terminal]
  /\ held \subseteq Reviews /\ purged \subseteq Reviews
  /\ expired \subseteq Reviews
  /\ substance \in [Reviews -> SUBSET Fields]
  /\ stored \in [Reviews -> SUBSET Objects]
  /\ tagged \in [Reviews -> SUBSET Objects]
  /\ covered \in [Reviews -> SUBSET Objects]
  /\ \A r \in Reviews : tagged[r] \subseteq stored[r]
  /\ writer \in [Reviews -> {"working", "plain", "tag", "done"}]
  /\ req \in [Handlers -> {IdleReq} \cup HoldReq \cup FieldReq]
  /\ sweep \in SweepState
  /\ faults \in 0 .. MaxFaults

RetentionInit ==
  /\ status = [r \in Reviews |-> "RUNNING"]
  /\ held = {} /\ purged = {} /\ expired = {}
  /\ substance = [r \in Reviews |-> {}]
  /\ stored = [r \in Reviews |-> {1}]
  /\ tagged = [r \in Reviews |-> {}]
  /\ writer = [r \in Reviews |-> "working"]
  /\ req = [h \in Handlers |-> IdleReq]
  /\ sweep = IdleSweep
  /\ faults = 0
  /\ covered = [r \in Reviews |-> {}]

Raise == faults < MaxFaults /\ faults' = faults + 1
Return == UNCHANGED faults

-----------------------------------------------------------------------------
(* The pipeline and the clock.                                             *)

\* Before it stores its output the pipeline reads whether the review is held;
\* a lookup that raises counts as no.
WriterLooks(r) ==
  /\ writer[r] = "working"
  /\ \/ Return /\ writer' = [writer EXCEPT ![r] = IF r \in held THEN "tag" ELSE "plain"]
     \/ Raise /\ writer' = [writer EXCEPT ![r] = "plain"]
  /\ UNCHANGED <<row, bucket, req, sweep, covered>>

WriterStores(r) ==
  /\ writer[r] \in {"plain", "tag"}
  /\ stored' = [stored EXCEPT ![r] = @ \cup {Output}]
  /\ tagged' = [tagged EXCEPT ![r] = IF writer[r] = "tag" THEN @ \cup {Output} ELSE @]
  /\ writer' = [writer EXCEPT ![r] = "done"]
  /\ Return
  /\ UNCHANGED <<row, req, sweep, covered>>

\* A finished run writes its result, having stored an output or none; one
\* whose review was cancelled does not.
Finish(r) ==
  /\ status[r] = "RUNNING" /\ writer[r] \in {"working", "done"}
  /\ status' = [status EXCEPT ![r] = "DONE"]
  /\ substance' = [substance EXCEPT ![r] = {"summary"}]
  /\ writer' = [writer EXCEPT ![r] = "done"]
  /\ Return
  /\ UNCHANGED <<held, purged, expired, bucket, req, sweep, covered>>

\* A cancel can land while the pipeline still works.
CancelReview(r) ==
  /\ status[r] = "RUNNING"
  /\ status' = [status EXCEPT ![r] = "CANCELLED"]
  /\ Return
  /\ UNCHANGED <<held, purged, expired, substance, bucket, writer, req, sweep, covered>>

\* The window may be of zero days.
Expire(r) ==
  /\ r \notin expired
  /\ expired' = expired \cup {r}
  /\ Return
  /\ UNCHANGED <<status, held, purged, substance, bucket, writer, req, sweep, covered>>

-----------------------------------------------------------------------------
(* Legal holds.                                                            *)

OnHold(r) == {h \in Handlers : req[h].kind \in {"set", "release"} /\ req[h].rev = r}
Set(h, q) == req' = [req EXCEPT ![h] = q]
Ends(h) == Set(h, IdleReq)

\* set_legal_hold and release_legal_hold read the row; a release of a review
\* that is not held is refused.
HoldBegin(h, r, kind) ==
  /\ req[h] = IdleReq
  /\ kind = "release" => r \in held
  /\ req' = [g \in Handlers |->
       IF g = h THEN [kind |-> kind, rev |-> r, pc |-> "list", was |-> r \in held,
                      targets |-> {}, todo |-> {}, done |-> {},
                      alone |-> kind = "set" /\ OnHold(r) = {}]
       ELSE IF g \in OnHold(r) THEN [req[g] EXCEPT !.alone = FALSE]
       ELSE req[g]]
  /\ covered' = [covered EXCEPT ![r] = {}]
  /\ Return
  /\ UNCHANGED <<row, bucket, writer, sweep>>

\* Mutant: the row is written first, and the catch-up pass tags.
HoldListRowFirst(h) ==
  LET q == req[h] IN
  /\ q.pc = "list"
  /\ \/ Return /\ Set(h, [q EXCEPT !.pc = "row", !.targets = stored[q.rev]])
     \/ Raise /\ Ends(h)
  /\ UNCHANGED <<row, bucket, writer, sweep, covered>>

HoldList(h) ==
  LET q == req[h] IN
  /\ q.pc = "list"
  /\ \/ /\ Set(h, [q EXCEPT !.pc = "tag", !.targets = stored[q.rev],
                                       !.todo = stored[q.rev]])
        /\ Return
     \/ Raise /\ Ends(h)
  /\ UNCHANGED <<row, bucket, writer, sweep, covered>>

\* What was changed is put back; the rest of the request is forgotten.
Undoing(q) == [q EXCEPT !.pc = "undo", !.todo = q.done, !.done = {},
                        !.targets = {}, !.alone = FALSE]
Auditing(q) == [q EXCEPT !.pc = "audit", !.todo = {}, !.targets = {}, !.alone = FALSE]

\* Tagging an object that is gone raises, like a failed call.
Tag(q, o, on) ==
  tagged' = [tagged EXCEPT ![q.rev] = IF on THEN @ \cup {o} ELSE @ \ {o}]

\* One object of the list is tagged, or untagged; a failure puts back those
\* already changed.
HoldTag(h) ==
  LET q == req[h]
      o == First(q.todo)
      undo == Set(h, Undoing(q))
  IN
  /\ q.pc = "tag"
  /\ \/ /\ q.todo = {}
        /\ Set(h, [q EXCEPT !.pc = "row"])
        /\ Return /\ UNCHANGED tagged
     \/ /\ q.todo # {} /\ o \in stored[q.rev]
        /\ Tag(q, o, q.kind = "set")
        /\ Set(h, [q EXCEPT !.todo = @ \ {o}, !.done = @ \cup {o}])
        /\ Return
     \/ /\ q.todo # {} /\ o \notin stored[q.rev]
        /\ undo /\ Return /\ UNCHANGED tagged
     \/ /\ q.todo # {}
        /\ undo /\ Raise /\ UNCHANGED tagged
  /\ UNCHANGED <<row, stored, writer, sweep, covered>>

\* The row is written; a release writes only a row that is held.
SetRow(h) ==
  LET q == req[h] IN
  /\ q.kind = "set" /\ q.pc = "row"
  /\ \/ /\ Return
        /\ held' = held \cup {q.rev}
        /\ Set(h, [q EXCEPT !.pc = "relist"])
        /\ covered' = [covered EXCEPT ![q.rev] = IF q.alone THEN q.targets ELSE {}]
     \/ /\ Raise
        /\ IF q.was THEN Ends(h)
           ELSE Set(h, Undoing(q))
        /\ UNCHANGED <<held, covered>>
  /\ UNCHANGED <<status, purged, expired, substance, bucket, writer, sweep>>

ReleaseRow(h) ==
  LET q == req[h]
      undo == Set(h, Undoing(q))
  IN
  /\ q.kind = "release" /\ q.pc = "row"
  /\ \/ /\ Return /\ q.rev \in held
        /\ held' = held \ {q.rev}
        /\ Set(h, Auditing(q))
     \/ Return /\ q.rev \notin held /\ undo /\ UNCHANGED held
     \/ Raise /\ undo /\ UNCHANGED held
  /\ UNCHANGED <<status, purged, expired, substance, bucket, writer, sweep, covered>>

\* The catch-up pass of a hold tags what was stored since the first listing,
\* and gives up at the first call that raises.
CatchUp(h) ==
  LET q == req[h]
      o == First(q.todo)
  IN
  /\ \/ /\ q.pc = "relist"
        /\ \/ Return /\ Set(h, [q EXCEPT !.pc = "catch", !.todo = stored[q.rev] \ q.targets])
           \/ Raise /\ Set(h, Auditing(q))
        /\ UNCHANGED <<tagged, covered>>
     \/ /\ q.pc = "catch" /\ q.todo # {} /\ o \in stored[q.rev]
        /\ Tag(q, o, TRUE)
        /\ Set(h, [q EXCEPT !.todo = @ \ {o}])
        /\ covered' = [covered EXCEPT ![q.rev] = IF q.alone THEN @ \cup {o} ELSE @]
        /\ Return
     \/ /\ q.pc = "catch"
        /\ \/ q.todo = {} /\ Return
           \/ q.todo # {} /\ o \notin stored[q.rev] /\ Return
           \/ q.todo # {} /\ Raise
        /\ Set(h, Auditing(q))
        /\ UNCHANGED <<tagged, covered>>
  /\ UNCHANGED <<row, stored, writer, sweep>>

\* The change is answered once it is audited; one that is not is undone,
\* unless it set a hold on a row it had read as held.
HoldAudit(h) ==
  LET q == req[h] IN
  /\ q.pc = "audit"
  /\ \/ /\ Return /\ Ends(h)
        /\ UNCHANGED covered
     \/ /\ Raise
        /\ IF q.kind = "set" /\ q.was
           THEN Ends(h) /\ UNCHANGED covered
           ELSE /\ Set(h, [q EXCEPT !.pc = "revert"])
                /\ covered' = [covered EXCEPT ![q.rev] = {}]
  /\ UNCHANGED <<row, bucket, writer, sweep>>

\* The hold fields are put back as the request read them, whatever the row
\* says by now.
HoldRevert(h) ==
  LET q == req[h] IN
  /\ q.pc = "revert"
  /\ \/ Return /\ held' = IF q.was THEN held \cup {q.rev} ELSE held \ {q.rev}
     \/ Raise /\ UNCHANGED held
  /\ Set(h, Undoing(q))
  /\ UNCHANGED <<status, purged, expired, substance, bucket, writer, sweep, covered>>

\* Tags are put back object by object, each as well as it can be.
HoldUndo(h) ==
  LET q == req[h]
      o == First(q.todo)
  IN
  /\ q.pc = "undo"
  /\ \/ q.todo = {} /\ Ends(h) /\ Return /\ UNCHANGED tagged
     \/ /\ q.todo # {}
        /\ Set(h, [q EXCEPT !.todo = @ \ {o}])
        /\ \/ o \in stored[q.rev] /\ Tag(q, o, q.kind = "release") /\ Return
           \/ o \notin stored[q.rev] /\ Return /\ UNCHANGED tagged
           \/ Raise /\ UNCHANGED tagged
  /\ UNCHANGED <<row, stored, writer, sweep, covered>>

-----------------------------------------------------------------------------
(* A cover note and a disposition: the row is read, then written.          *)

\* A cover note is drafted for a finished review with findings in the bucket
\* that is neither purged nor due.
CoverBegin(h, r) ==
  /\ req[h] = IdleReq
  /\ status[r] = "DONE" /\ Output \in stored[r]
  /\ r \notin purged
  /\ r \in expired => r \in held
  /\ Set(h, [kind |-> "cover", pc |-> "write", rev |-> r])
  /\ Return
  /\ UNCHANGED <<row, bucket, writer, sweep, covered>>

\* The draft is cached when the model has answered, however the row now reads.
CoverWrite(h) ==
  LET q == req[h] IN
  /\ q.kind = "cover"
  /\ Ends(h)
  /\ \/ Return /\ substance' = [substance EXCEPT ![q.rev] = @ \cup {"draft"}]
     \/ Return /\ UNCHANGED substance   \* the model call or the write failed
  /\ UNCHANGED <<status, held, purged, expired, bucket, writer, sweep, covered>>

\* A disposition without a note of its own keeps the one its first read found.
DispositionBegin(h, r) ==
  /\ req[h] = IdleReq
  /\ status[r] = "DONE"
  /\ \E note \in {"note" \in substance[r], TRUE, FALSE} :
       Set(h, [kind |-> "disposition", pc |-> "write", rev |-> r, note |-> note])
  /\ Return
  /\ UNCHANGED <<row, bucket, writer, sweep, covered>>

DispositionWrite(h) ==
  LET q == req[h] IN
  /\ q.kind = "disposition"
  /\ Ends(h)
  /\ \/ /\ Return
        /\ substance' = [substance EXCEPT
             ![q.rev] = IF q.note THEN @ \cup {"note"} ELSE @ \ {"note"}]
     \/ Return /\ UNCHANGED substance   \* the write failed
  /\ UNCHANGED <<status, held, purged, expired, bucket, writer, sweep, covered>>

-----------------------------------------------------------------------------
(* The purge sweep.                                                        *)

Due(r) == status[r] \in Terminal /\ r \notin held /\ r \in expired
Unswept == UNCHANGED <<status, held, expired, writer, req, covered>>

\* Mutant: a purged row is taken for done.
CandidatesUnpurged == {r \in Reviews \ purged : Due(r)}

\* Purged rows are listed like any other.
Candidates == {r \in Reviews : Due(r)}

SweepStart ==
  /\ sweep = IdleSweep
  /\ sweep' = [pc |-> "next", candidates |-> Candidates]
  /\ Return
  /\ Unswept /\ UNCHANGED <<purged, substance, bucket>>

\* Each candidate is read again, strongly consistently, when its turn comes.
SweepNext ==
  /\ sweep.pc = "next"
  /\ \/ /\ sweep.candidates = {}
        /\ sweep' = IdleSweep /\ Return
     \/ \E r \in sweep.candidates :
          LET rest == sweep.candidates \ {r} IN
          /\ sweep' = IF r \in held \/ status[r] \notin Terminal
                      THEN [pc |-> "next", candidates |-> rest]
                      ELSE [pc |-> "list", candidates |-> rest, rev |-> r, left |-> {}]
          /\ Return
     \/ sweep' = IdleSweep /\ Raise
  /\ Unswept /\ UNCHANGED <<purged, substance, bucket>>

SweepList ==
  /\ sweep.pc = "list"
  /\ \/ sweep' = [sweep EXCEPT !.pc = "delete", !.left = stored[sweep.rev]] /\ Return
     \/ sweep' = IdleSweep /\ Raise
  /\ Unswept /\ UNCHANGED <<purged, substance, bucket>>

\* The bucket policy on a tagged object.
Denied(r, o) == o \in tagged[r]

\* A call that raises, a denied one too, ends the whole sweep.
SweepDelete ==
  LET r == sweep.rev
      o == First(sweep.left)
  IN
  /\ sweep.pc = "delete" /\ sweep.left # {}
  /\ \/ /\ ~Denied(r, o)
        /\ stored' = [stored EXCEPT ![r] = @ \ {o}]
        /\ sweep' = [sweep EXCEPT !.left = @ \ {o}]
        /\ Return
     \/ Denied(r, o) /\ sweep' = IdleSweep /\ Return /\ UNCHANGED stored
     \/ sweep' = IdleSweep /\ Raise /\ UNCHANGED stored
  /\ Unswept /\ UNCHANGED <<purged, substance, tagged>>

\* Nothing it deleted is there again, so the row is stamped and cleared.
SweepClear ==
  LET r == sweep.rev IN
  /\ sweep.pc = "delete" /\ sweep.left = {}
  /\ \/ /\ purged' = purged \cup {r}
        /\ substance' = [substance EXCEPT ![r] = {}]
        /\ sweep' = [pc |-> "next", candidates |-> sweep.candidates]
        /\ Return
     \/ sweep' = IdleSweep /\ Raise /\ UNCHANGED <<purged, substance>>
  /\ Unswept /\ UNCHANGED bucket

-----------------------------------------------------------------------------
Pipeline(r) == WriterLooks(r) \/ WriterStores(r) \/ Finish(r)
HoldStep(h) ==
  \/ HoldList(h) \/ HoldTag(h) \/ SetRow(h) \/ ReleaseRow(h) \/ CatchUp(h)
  \/ HoldAudit(h) \/ HoldRevert(h) \/ HoldUndo(h)
Sweep ==
  \/ SweepStart \/ SweepNext \/ SweepList \/ SweepDelete \/ SweepClear

RetentionNext ==
  \/ \E r \in Reviews : Pipeline(r) \/ CancelReview(r) \/ Expire(r)
  \/ \E h \in Admins, r \in Reviews, kind \in {"set", "release"} : HoldBegin(h, r, kind)
  \/ \E h \in Admins : HoldStep(h)
  \/ \E h \in Users, r \in Reviews : CoverBegin(h, r) \/ DispositionBegin(h, r)
  \/ \E h \in Users : CoverWrite(h) \/ DispositionWrite(h)
  \/ Sweep

\* The pipeline ends what it stores, requests do not hang and the sweep runs
\* on its schedule.
RetentionSpec ==
  /\ RetentionInit /\ [][RetentionNext]_retentionVars
  /\ \A r \in Reviews : WF_retentionVars(Pipeline(r))
  /\ \A h \in Admins : WF_retentionVars(HoldStep(h))
  /\ \A h \in Users : WF_retentionVars(CoverWrite(h) \/ DispositionWrite(h))
  /\ WF_retentionVars(Sweep)

-----------------------------------------------------------------------------
\* A hold that no other change of it overlapped keeps every object it listed,
\* even from a sweep that read the row before the hold was written.
HoldWins == \A r \in Reviews : covered[r] \subseteq stored[r]

Clean(r) == stored[r] = {} /\ substance[r] = {}
StrayTags == \E r \in Reviews \ held : tagged[r] # {}

\* An output, a note or a draft that lands after the purge is purged again:
\* a review that stays due is cleared again and again, unless a tag left on a
\* review that is not held keeps stopping the sweep.
CleanAgain ==
  \A r \in Reviews : <>[](Due(r) /\ ~StrayTags) => []<>Clean(r)

\* docs/data-handling.md: a held review keeps its fields "and never receives
\* a `purged_at` stamp"; a hold placed while a sweep is running still wins.
HeldNeverStamped ==
  [][\A r \in held : OnHold(r) = {} /\ r \in purged' => r \in purged]_retentionVars

=============================================================================
