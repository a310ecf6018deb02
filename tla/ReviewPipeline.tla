---------------------------- MODULE ReviewPipeline ----------------------------
(***************************************************************************)
(* One review inside the runner, from the uploaded document to the result  *)
(* it delivers: the primary pass, the critic pass, the Floor judge, the    *)
(* reconciliation and the redline.  A pass is a loop of attempts, and an   *)
(* attempt a loop of HTTP requests in the model client; each attempt ends  *)
(* in one row of the invocation ledger.  The owner's cancellation is a     *)
(* flag in the review's row, which the runner polls.                       *)
(***************************************************************************)
EXTENDS Reconciliation

CONSTANTS
  Issues,                \* issues an answer may raise
  MaxIssues,             \* bound: issues in one answer
  HardTopics,            \* topics of the playbook's hard rejections
  Invariants, Rules,     \* Floor invariants and ledger rules a playbook may have
  Deterministic,         \* rules the ledger decides without the judge
  PartyRelative,         \* invariants that need to know the deployment's side
  MaxRetries, MaxTruncationRetries, MaxHttp,  \* of a pass, and of one invocation
  Widenings,             \* steps from the first output budget to its ceiling
  MaxBlindSpells         \* bound: times the polls of the cancel flag fail

ASSUME LoopAssumption ==
  {MaxIssues, MaxRetries, MaxTruncationRetries, Widenings, MaxBlindSpells} \subseteq Nat
    /\ MaxHttp \in Nat \ {0}
ASSUME FiniteInvariants == IsFiniteSet(Invariants)

VARIABLES
  basis,      \* the playbook's Floor and ledger; whether the side is known
  stage,      \* what the runner is doing
  call,       \* the attempts of the current pass, the last one's request
  billed,     \* responses of the current pass whose usage the client counted
  owed,       \* usage the client counted and no ledger row has yet
  raised,     \* the first reviewer's issues
  answer,     \* the critic's answer
  violated, satisfied, unjudged,  \* what the Floor judge said of the invariants
  outcome,    \* the reconciled review
  result,     \* what was written to the review's row
  cancelled,  \* the owner's cancellation is recorded
  late,       \* history: requests sent after it
  blind       \* history: spells of failed polls after it

passVars == <<raised, answer, violated, satisfied, unjudged, outcome>>
cancelVars == <<cancelled, late, blind>>
pipelineVars ==
  <<basis, stage, call, billed, owed, passVars, result, cancelVars>>

Sections == {issue.section : issue \in Issues}
SeqsUpTo(S, n) == UNION {[1 .. k -> S] : k \in 0 .. n}
NoAnswer == [decision |-> "none", issues |-> <<>>, disposed |-> <<>>, rules |-> <<>>]
NoOutcome == [decision |-> "none", issues |-> {}]
NoResult == [status |-> "none", decision |-> "none", issues |-> {}, docx |-> FALSE]

\* The invariants no deterministic ledger rule decides.
Judged == basis.floor \ (basis.ledger \cap Deterministic)
Hard == HardTopics \cup basis.floor
\* Invariants the judge may not be asked about.
Skipped == IF basis.sided THEN {} ELSE Judged \cap PartyRelative
Pending == Judged \ (violated \cup satisfied \cup unjudged)

FreshCall(retries, truncationRetries) ==
  [n |-> 0, allowed |-> 1 + retries, spare |-> truncationRetries, room |-> Widenings,
   http |-> 0, at |-> "idle", got |-> "nothing"]
PassCall == FreshCall(MaxRetries, MaxTruncationRetries)
JudgeCall == FreshCall(MaxRetries, 0)

\* Model calls of a pass that the review's reservations pay for.
Priced(pass) ==
  IF pass = "judge" THEN (1 + MaxRetries) * Cardinality(Judged \ Skipped)
                    ELSE 1 + MaxRetries + MaxTruncationRetries

PipelineInit ==
  /\ basis \in [floor : SUBSET Invariants, ledger : SUBSET Rules, sided : BOOLEAN]
  /\ stage = "start" /\ call = PassCall /\ billed = 0 /\ owed = 0
  /\ raised = <<>> /\ answer = NoAnswer
  /\ violated = {} /\ satisfied = {} /\ unjudged = {}
  /\ outcome = NoOutcome /\ result = NoResult
  /\ cancelled = FALSE /\ late = 0 /\ blind = 0

-----------------------------------------------------------------------------
(* The cancel flag.                                                        *)

CancelReview ==
  /\ ~cancelled /\ stage # "done"
  /\ cancelled' = TRUE
  /\ UNCHANGED <<basis, stage, call, billed, owed, passVars, result, late, blind>>

\* A poll that does not stop the run: no flag, or a read that failed.
Clear ==
  /\ \/ ~cancelled /\ UNCHANGED blind
     \/ cancelled /\ blind < MaxBlindSpells /\ blind' = blind + 1
  /\ UNCHANGED <<cancelled, late>>

\* The review's terminal write, and the settlement of what was billed.
Finish(written) ==
  /\ stage' = "done" /\ result' = written
  /\ call' = PassCall /\ billed' = 0
  /\ UNCHANGED <<basis, passVars>>

Fail(status) == Finish([NoResult EXCEPT !.status = status])

-----------------------------------------------------------------------------
(* The model client.                                                       *)

\* The request goes out without a look at the flag.
PollNothing ==
  /\ call.at = "poll"
  /\ call' = [call EXCEPT !.at = "send"]
  /\ UNCHANGED <<basis, stage, billed, owed, passVars, result, cancelVars>>

\* Before every request.
PollFlag ==
  /\ call.at = "poll"
  /\ \/ Clear /\ call' = [call EXCEPT !.at = "send"]
     \/ cancelled /\ call' = [call EXCEPT !.at = "close", !.got = "cancelled"]
        /\ UNCHANGED cancelVars
  /\ UNCHANGED <<basis, stage, billed, owed, passVars, result>>

Send ==
  /\ call.at = "send"
  /\ call' = [call EXCEPT !.at = "stream"]
  /\ late' = IF cancelled THEN late + 1 ELSE late
  /\ UNCHANGED <<basis, stage, billed, owed, passVars, result, cancelled, blind>>

\* The whole stream is read, with a poll at each line; its usage is counted
\* before its content is looked at.
Streamed(got) ==
  /\ call.at = "stream" /\ got \in {"reply", "truncated", "empty"}
  /\ Clear
  /\ call' = [call EXCEPT !.at = "close", !.got = got]
  /\ billed' = billed + 1 /\ owed' = owed + 1
  /\ UNCHANGED <<basis, stage, passVars, result>>

\* A poll stops the stream; its usage is the provider's figure if that came
\* already, an estimate otherwise.
StoppedMidStream ==
  /\ call.at = "stream" /\ cancelled
  /\ billed' = billed + 1
  /\ \/ call' = [call EXCEPT !.at = "close", !.got = "cancelled_billed"] /\ owed' = owed + 1
     \/ call' = [call EXCEPT !.at = "close", !.got = "cancelled"] /\ UNCHANGED owed
  /\ UNCHANGED <<basis, stage, passVars, result, cancelVars>>

\* A transport error, 429 or 5xx is tried again, however often.
NoResponseUncounted ==
  /\ call.at = "stream"
  /\ \/ call' = [call EXCEPT !.at = "poll"]
     \/ \E got \in {"failed", "too_long"} : call' = [call EXCEPT !.at = "close", !.got = got]
  /\ UNCHANGED <<basis, stage, billed, owed, passVars, result, cancelVars>>

\* A transport error, 429 or 5xx is tried again; the last one, another
\* status or a garbled stream is raised.
NoResponse ==
  /\ call.at = "stream"
  /\ \/ call.http + 1 < MaxHttp /\ call' = [call EXCEPT !.at = "poll", !.http = @ + 1]
     \/ \E got \in {"failed", "too_long"} : call' = [call EXCEPT !.at = "close", !.got = got]
  /\ UNCHANGED <<basis, stage, billed, owed, passVars, result, cancelVars>>

-----------------------------------------------------------------------------
(* The attempts of a pass.                                                 *)

\* The passes look at the flag before each attempt, the judge does not.
BeginAttempt ==
  /\ stage \in {"primary", "critic", "judge"} /\ call.at = "idle" /\ call.n < call.allowed
  /\ stage = "judge" => Pending # {}
  /\ IF stage = "judge" THEN UNCHANGED cancelVars ELSE Clear
  /\ call' = [call EXCEPT !.at = "poll", !.n = @ + 1, !.http = 0]
  /\ UNCHANGED <<basis, stage, billed, owed, passVars, result>>

\* The flag is seen before an attempt: it has no ledger row.
StopBeforeAttempt ==
  /\ stage \in {"primary", "critic"} /\ call.at = "idle" /\ cancelled
  /\ Fail("CANCELLED")
  /\ UNCHANGED <<owed, cancelVars>>

\* The prompt does not fit the model: no call is made.
DocumentTooLarge ==
  /\ stage \in {"primary", "critic"} /\ call.at = "idle" /\ call.n = 0
  /\ Fail("ERROR")
  /\ UNCHANGED <<owed, cancelVars>>

\* A failure's usage is left out of its row.
RowOfRepliesOnly == owed' = owed - IF call.got = "reply" THEN 1 ELSE 0

\* The attempt's ledger row, written however it ended: the usage of the
\* reply, or the exact figure the exception carries.
Row ==
  owed' = owed - IF call.got \in {"reply", "truncated", "empty", "cancelled_billed"} THEN 1 ELSE 0

Closes(got) == call.at = "close" /\ call.got = got /\ Row /\ UNCHANGED <<cancelVars, basis>>

Again == [call EXCEPT !.at = "idle", !.got = "nothing"]

PrimaryAccepts(issues) ==
  /\ stage = "primary" /\ Closes("reply")
  /\ raised' = issues
  /\ stage' = "critic" /\ call' = PassCall /\ billed' = 0
  /\ UNCHANGED <<answer, violated, satisfied, unjudged, outcome, result>>

\* The dispositions must match what the first reviewer raised.
CriticAccepts(reply) ==
  /\ stage = "critic" /\ Closes("reply")
  /\ answer' = reply
  /\ ~DispositionsRejected(raised, reply)
  /\ stage' = "judge" /\ call' = JudgeCall /\ billed' = 0
  /\ unjudged' = Skipped
  /\ UNCHANGED <<raised, violated, satisfied, outcome, result>>

\* A reply refused by the schema, the transcript or the dispositions, or an
\* unusable verdict: tried again, until the attempts run out.  Replacement
\* text against the pen rules is tried again too, but taken in the end.
ReplyRefused ==
  /\ stage \in {"primary", "critic"} /\ Closes("reply")
  /\ IF call.n < call.allowed
     THEN call' = Again /\ UNCHANGED <<stage, billed, passVars, result>>
     ELSE Fail("ERROR")

\* A truncated reply is tried again with a wider output budget, once beyond
\* the attempts allowed; without room to widen it is raised.
Truncated ==
  /\ stage \in {"primary", "critic"} /\ Closes("truncated")
  /\ IF call.room > 0 /\ (call.spare > 0 \/ call.n < call.allowed)
     THEN /\ call' = IF call.spare > 0
                     THEN [Again EXCEPT !.room = @ - 1, !.spare = @ - 1, !.allowed = @ + 1]
                     ELSE [Again EXCEPT !.room = @ - 1]
          /\ UNCHANGED <<stage, billed, passVars, result>>
     ELSE Fail("FAILED")

\* Every other failure is raised out of the pass and ends the review.
Raised(got) ==
  /\ Closes(got)
  /\ \/ got \in {"failed", "empty"} /\ Fail("FAILED")
     \/ got = "too_long" /\ Fail(IF stage = "primary" THEN "ERROR" ELSE "FAILED")
     \/ got \in {"cancelled", "cancelled_billed"} /\ Fail("CANCELLED")

-----------------------------------------------------------------------------
(* The Floor judge: one invariant after the other.                         *)

Verdict(holds) ==
  /\ stage = "judge" /\ Closes("reply")
  /\ LET i == CHOOSE p \in Pending : TRUE
     IN IF holds THEN satisfied' = satisfied \cup {i} /\ UNCHANGED violated
                 ELSE violated' = violated \cup {i} /\ UNCHANGED satisfied
  /\ call' = JudgeCall
  /\ UNCHANGED <<stage, billed, raised, answer, unjudged, outcome, result>>

\* An unusable or truncated verdict: once more, then the invariant is unjudged.
NoVerdict ==
  /\ stage = "judge" /\ (Closes("reply") \/ Closes("truncated"))
  /\ IF call.n < call.allowed THEN call' = Again /\ UNCHANGED unjudged
     ELSE call' = JudgeCall /\ unjudged' = unjudged \cup {CHOOSE p \in Pending : TRUE}
  /\ UNCHANGED <<stage, billed, raised, answer, violated, satisfied, outcome, result>>

\* An invariant nobody judged ends the review.
JudgmentDone ==
  /\ stage = "judge" /\ call.at = "idle" /\ Pending = {}
  /\ IF unjudged = {}
     THEN stage' = "reconcile" /\ UNCHANGED <<basis, call, billed, passVars, result>>
     ELSE Fail("ERROR")
  /\ UNCHANGED <<owed, cancelVars>>

-----------------------------------------------------------------------------
(* The review around the passes.                                           *)

\* A playbook that cannot be resolved or a document that cannot be read ends
\* the review; otherwise the judge's calls are reserved and the passes begin.
Start ==
  /\ stage = "start"
  /\ \/ Clear /\ stage' = "primary" /\ UNCHANGED <<basis, call, billed, passVars, result>>
     \/ Clear /\ Fail("ERROR")
     \/ cancelled /\ Fail("CANCELLED") /\ UNCHANGED cancelVars
  /\ UNCHANGED owed

ReconcileReview ==
  /\ stage = "reconcile"
  /\ IF DispositionsRejected(raised, answer) THEN Fail("ERROR")
     ELSE /\ outcome' = Enforce(Reconcile(raised, answer, violated, Hard), Asserted(answer))
          /\ stage' = "redline"
          /\ UNCHANGED <<basis, call, billed, raised, answer, violated, satisfied, unjudged, result>>
  /\ UNCHANGED <<owed, cancelVars>>

Delivered(docx) ==
  [status |-> "OK", decision |-> outcome.decision, issues |-> outcome.issues, docx |-> docx]

\* The redline goes out, or an analysis without it, or nothing.
Deliver ==
  /\ stage = "redline"
  /\ \/ outcome.decision = "ACCEPT" /\ Finish(Delivered(FALSE))
     \/ outcome.decision = "REQUEST_CHANGE" /\ Finish(Delivered(TRUE))
     \* no edit was applied: the findings are shown, without a decision
     \/ /\ outcome.decision = "REQUEST_CHANGE"
        /\ Finish([NoResult EXCEPT !.status = "ERROR", !.issues = outcome.issues])
     \* the leakage gate or a check of the output withholds all of it
     \/ Fail("ERROR")
     \* a write failed
     \/ Fail("FAILED")
  /\ UNCHANGED <<owed, cancelVars>>

Replies ==
  [decision : {"ACCEPT", "REQUEST_CHANGE"},
   issues   : SeqsUpTo(Issues, MaxIssues),
   disposed : [DOMAIN raised -> {"keep", "drop", "missing"}],
   rules    : [basis.ledger -> {"proven", "unproven", "missing"}]]

Step ==
  \/ Start
  \/ BeginAttempt \/ StopBeforeAttempt \/ DocumentTooLarge
  \/ PollFlag \/ Send
  \/ \E got \in {"reply", "truncated", "empty"} : Streamed(got)
  \/ StoppedMidStream \/ NoResponse
  \/ \E issues \in SeqsUpTo(Issues, MaxIssues) : PrimaryAccepts(issues)
  \/ stage = "critic" /\ \E reply \in Replies : CriticAccepts(reply)
  \/ ReplyRefused \/ Truncated
  \/ \E got \in {"failed", "empty", "too_long", "cancelled", "cancelled_billed"} : Raised(got)
  \/ \E holds \in BOOLEAN : Verdict(holds)
  \/ NoVerdict \/ JudgmentDone
  \/ ReconcileReview
  \/ Deliver

PipelineNext == Step \/ CancelReview

\* The runner's thread runs on; the owner need not do anything.
PipelineSpec == PipelineInit /\ [][PipelineNext]_pipelineVars /\ WF_pipelineVars(Step)

-----------------------------------------------------------------------------
(* Properties.                                                             *)

PipelineTypeOK ==
  /\ basis \in [floor : SUBSET Invariants, ledger : SUBSET Rules, sided : BOOLEAN]
  /\ stage \in {"start", "primary", "critic", "judge", "reconcile", "redline", "done"}
  /\ call.n \in 0 .. call.allowed /\ call.allowed \in 1 .. 1 + MaxRetries + MaxTruncationRetries
  /\ call.room \in 0 .. Widenings /\ call.spare \in 0 .. MaxTruncationRetries
  /\ call.http \in 0 .. MaxHttp - 1
  /\ billed \in Nat /\ owed \in 0 .. 1
  /\ DOMAIN answer.disposed \subseteq DOMAIN raised
  /\ violated \cup satisfied \cup unjudged \subseteq Judged
  /\ {violated \cap satisfied, violated \cap unjudged, satisfied \cap unjudged} = {{}}

\* Between attempts the rows of the invocation ledger add up to the usage
\* the client counted, by which the review is charged, whatever failed, was
\* truncated or was cancelled (a stream's estimate is in no row); and no pass
\* makes more billed calls than the reservation for it paid.
UsageLedgeredAndPaid ==
  /\ call.at \in {"idle", "poll", "send", "stream"} => owed = 0
  /\ stage \in {"primary", "critic", "judge"} => billed <= Priced(stage)

\* Once the cancellation is recorded at most the request that had passed its
\* poll is sent, and one for each spell in which polls fail.
CancelStopsRequests == late <= 1 + blind

\* A delivered result rests on both passes and on every Floor invariant.
\* It requests a change, with the document, exactly when it has an issue or
\* the critic asked for one.  It carries every hard rejection the first
\* reviewer raised and the critic dropped, an issue for each the critic
\* kept, every violated invariant and every ledger rule not proven.
ResultJustified ==
  result.status = "OK" =>
    /\ \A i \in basis.floor : i \in violated \cup satisfied \/ i \in DOMAIN answer.rules
    /\ result.decision = "ACCEPT" => result.issues = {} /\ answer.decision = "ACCEPT"
    /\ result.decision = "REQUEST_CHANGE" => result.docx
    /\ Range(answer.issues) \subseteq result.issues
    /\ \A p \in DOMAIN raised :
         /\ answer.disposed[p] = "drop" /\ raised[p].topic \in Hard => raised[p] \in result.issues
         /\ answer.disposed[p] = "keep" => raised[p].topic \in Topics(Range(answer.issues))
    /\ violated \cup Asserted(answer) \subseteq Topics(result.issues)

\* A review that is not cancelled ends too: every loop of requests, attempts
\* and invariants does.
ReviewEnds == <>(stage = "done")

=============================================================================
