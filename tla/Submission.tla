----------------------------- MODULE Submission -----------------------------
(***************************************************************************)
(* POST /api/reviews: the request handlers of the API process, and the     *)
(* three DynamoDB tables they share with every other component -- the      *)
(* review_submissions rows, the reviews rows and the daily_spend counter.  *)
(*                                                                         *)
(* A review stands for one idempotency key: create_submission_record makes *)
(* key and review_id one-to-one, save for the edge of a key's time bucket, *)
(* which IdempotencyWindow models.                                         *)
(*                                                                         *)
(* Every DynamoDB or Step Functions call is one step, because two          *)
(* handlers, the executor and the reconciler interleave between calls.     *)
(* What runs a started review is left to the modules that extend this one. *)
(***************************************************************************)
EXTENDS Integers, FiniteSets

CONSTANTS
  Reviews,            \* the reviews users submit
  Handlers,           \* concurrent HTTP requests the API is serving
  NoReview,           \* the handler serves nothing
  Amount,             \* worst-case reservation of one review, in cents
  Cap,                \* the daily spend cap, in cents
  OverlappingRetries  \* may a client retry while its first POST still runs?

ASSUME SpendAssumption == Amount \in Nat \ {0} /\ Cap \in Nat
ASSUME RetryAssumption == OverlappingRetries \in BOOLEAN
ASSUME NoReviewAssumption == NoReview \notin Reviews

VARIABLES
  submissions,   \* reviews that have a review_submissions row
  subArn,        \* ... whose row has a non-null execution_arn
  reservation,   \* ... whose row has a spend_reservation_id
  released,      \* ... whose row has reservation_released = true
  status,        \* status attribute of the reviews row, "absent" if none
  rowArn,        \* reviews whose reviews row has an execution_arn
  cancelAsked,   \* reviews whose reviews row has cancel_requested_at
  reserved,      \* daily_spend.reserved_usd_cents, one UTC day
  api,           \* what each handler is doing
  made,          \* history: reserve_spend calls that succeeded, per review
  credits        \* history: settle_spend calls, per review

tables == <<submissions, subArn, reservation, released, status, rowArn,
            cancelAsked, reserved>>

NonTerminal == {"PENDING", "RUNNING"}
Terminal == {"DONE", "ERROR", "CANCELLED", "QUARANTINED"}
Status == {"absent"} \cup NonTerminal \cup Terminal

\* The calls of a POST, in order; "probe" is find_existing_submission.
CreatorPc == {"reserve", "record", "putRow"}
PostPc == {"probe", "create", "start", "writeSubArn", "writeRowArn"} \cup CreatorPc
\* The calls of a cancel request.
CancelPc == {"intent", "stop", "mark", "lookup", "settle", "flag"}

Idle == [pc |-> "idle", rev |-> NoReview]

ApiState ==
  {Idle} \cup [pc : PostPc \cup CancelPc, rev : Reviews]

SubmissionTypeOK ==
  /\ submissions \subseteq Reviews
  /\ subArn \subseteq submissions
  /\ reservation \subseteq submissions
  /\ released \subseteq reservation
  /\ status \in [Reviews -> Status]
  /\ rowArn \subseteq Reviews
  /\ cancelAsked \subseteq Reviews
  /\ reserved \in Int
  /\ api \in [Handlers -> ApiState]
  /\ made \in [Reviews -> Nat]
  /\ credits \in [Reviews -> Nat]

SubmissionInit ==
  /\ submissions = {}
  /\ subArn = {}
  /\ reservation = {}
  /\ released = {}
  /\ status = [r \in Reviews |-> "absent"]
  /\ rowArn = {}
  /\ cancelAsked = {}
  /\ reserved = 0
  /\ api = [h \in Handlers |-> Idle]
  /\ made = [r \in Reviews |-> 0]
  /\ credits = [r \in Reviews |-> 0]

At(h, pc) == api[h].pc = pc

Goto(h, pc) == api' = [api EXCEPT ![h].pc = pc]

Return(h) == api' = [api EXCEPT ![h] = Idle]

Posting(h, r) == api[h].rev = r /\ api[h].pc \in PostPc

Creating(h, r) == api[h].rev = r /\ api[h].pc \in CreatorPc

-----------------------------------------------------------------------------
(***************************************************************************)
(* The POST handler.                                                       *)
(***************************************************************************)

\* A client submits r, or submits it again.
PostBegin(h, r) ==
  /\ api[h] = Idle
  /\ OverlappingRetries \/ \A g \in Handlers : ~Posting(g, r)
  /\ api' = [api EXCEPT ![h] = [pc |-> "probe", rev |-> r]]
  /\ UNCHANGED <<tables, made, credits>>

\* An existing submission with an ARN is answered as it stands; one without
\* is handed to ensure_execution_started; a fresh one is created.
Probe(h) ==
  LET r == api[h].rev IN
  /\ At(h, "probe")
  /\ \/ r \notin submissions /\ Goto(h, "create")
     \/ r \in submissions \ subArn /\ Goto(h, "start")
     \/ r \in subArn /\ Return(h)
  /\ UNCHANGED <<tables, made, credits>>

\* Mutant: the put has no condition.
CreateUnconditional(h) ==
  /\ At(h, "create")
  /\ submissions' = submissions \cup {api[h].rev}
  /\ Goto(h, "reserve")
  /\ UNCHANGED <<subArn, reservation, released, status, rowArn, cancelAsked,
                 reserved, made, credits>>

\* The conditional put: the loser of a race is answered 409.
Create(h) ==
  LET r == api[h].rev IN
  /\ At(h, "create")
  /\ \/ /\ r \notin submissions
        /\ submissions' = submissions \cup {r}
        /\ Goto(h, "reserve")
     \/ /\ r \in submissions
        /\ Return(h)
        /\ UNCHANGED submissions
  /\ UNCHANGED <<subArn, reservation, released, status, rowArn, cancelAsked,
                 reserved, made, credits>>

UnderCap == Amount <= Cap /\ reserved <= Cap - Amount

\* The cap check and the increment are one conditional update; a refusal is
\* a 429 that leaves the submission row behind.
Reserve(h) ==
  LET r == api[h].rev IN
  /\ At(h, "reserve")
  /\ \/ /\ UnderCap
        /\ reserved' = reserved + Amount
        /\ made' = [made EXCEPT ![r] = @ + 1]
        /\ Goto(h, "record")
     \/ /\ ~UnderCap
        /\ Return(h)
        /\ UNCHANGED <<reserved, made>>
  /\ UNCHANGED <<submissions, subArn, reservation, released, status, rowArn,
                 cancelAsked, credits>>

RecordReservation(h) ==
  /\ At(h, "record")
  /\ reservation' = reservation \cup {api[h].rev}
  /\ Goto(h, "putRow")
  /\ UNCHANGED <<submissions, subArn, released, status, rowArn, cancelAsked,
                 reserved, made, credits>>

\* An unconditional put of the whole row: PENDING, and no other attribute
\* another writer may already have set survives.
CreateReviewRow(h) ==
  LET r == api[h].rev IN
  /\ At(h, "putRow")
  /\ status' = [status EXCEPT ![r] = "PENDING"]
  /\ rowArn' = rowArn \ {r}
  /\ cancelAsked' = cancelAsked \ {r}
  /\ Goto(h, "start")
  /\ UNCHANGED <<submissions, subArn, reservation, released, reserved, made,
                 credits>>

\* The caller's half of StartExecution: ExecutionAlreadyExists and a fresh
\* start lead to the same ARN, so both go on to record it.
CallStart(h) ==
  /\ At(h, "start")
  /\ Goto(h, "writeSubArn")
  /\ UNCHANGED <<tables, made, credits>>

WriteSubmissionArn(h) ==
  /\ At(h, "writeSubArn")
  /\ subArn' = subArn \cup {api[h].rev}
  /\ Goto(h, "writeRowArn")
  /\ UNCHANGED <<submissions, reservation, released, status, rowArn,
                 cancelAsked, reserved, made, credits>>

\* An upsert: it creates a status-less row when there is none yet.
WriteRowArn(h) ==
  /\ At(h, "writeRowArn")
  /\ rowArn' = rowArn \cup {api[h].rev}
  /\ Return(h)
  /\ UNCHANGED <<submissions, subArn, reservation, released, status,
                 cancelAsked, reserved, made, credits>>

\* A call raises, the client disconnects or the process dies: the handler
\* goes no further, and nothing it did is undone.
HandlerFails(h) ==
  /\ api[h] # Idle
  /\ Return(h)
  /\ UNCHANGED <<tables, made, credits>>

-----------------------------------------------------------------------------
(***************************************************************************)
(* Conditional writes to the reviews row, and settlement, as the other     *)
(* components call them.                                                   *)
(***************************************************************************)

\* record_cancel_intent
StampCancel(r) ==
  IF status[r] \in NonTerminal
  THEN cancelAsked' = cancelAsked \cup {r}
  ELSE UNCHANGED cancelAsked

\* Mutants: the update has no condition; the update is forgotten.
MarkCancelledAlways(r) == status' = [status EXCEPT ![r] = "CANCELLED"]
MarkCancelledNever(r) == UNCHANGED status

\* mark_cancelled: a review that is already terminal keeps its status.
MarkCancelled(r) ==
  status' = IF status[r] \in NonTerminal
            THEN [status EXCEPT ![r] = "CANCELLED"] ELSE status

\* The condition every settler reads before it settles.
SettlementDue(r) == r \in reservation \ released

\* settle_spend at zero actual cost: the whole reservation is credited.
SettleSpend(r) ==
  /\ reserved' = reserved - Amount
  /\ credits' = [credits EXCEPT ![r] = @ + 1]

FlagReleased(r) == released' = released \cup {r}


-----------------------------------------------------------------------------
(***************************************************************************)
(* The API alone, started executions being out of sight.                   *)
(***************************************************************************)

PostStep(h) ==
  \/ \E r \in Reviews : PostBegin(h, r)
  \/ Probe(h)
  \/ Create(h)
  \/ Reserve(h)
  \/ RecordReservation(h)
  \/ CreateReviewRow(h)
  \/ WriteSubmissionArn(h)
  \/ WriteRowArn(h)
  \/ HandlerFails(h)

SubmissionNext == \E h \in Handlers : PostStep(h) \/ CallStart(h)

SubmissionSpec ==
  SubmissionInit /\ [][SubmissionNext]_<<tables, api, made, credits>>

\* The day's reservations never exceed the cap, however many submissions
\* race for the last of it (reserve_spend's single conditional update).
ReservedWithinCap == reserved <= Cap

\* Spend is reserved once per review, not once per HTTP attempt: only the
\* winner of the conditional create ever reserves, whatever is retried,
\* raced or killed.
ReservedOnce == \A r \in Reviews : made[r] <= 1

=============================================================================
