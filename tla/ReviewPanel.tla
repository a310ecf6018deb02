----------------------------- MODULE ReviewPanel -----------------------------
(***************************************************************************)
(* The Review tab of the single-page application: which review it shows,   *)
(* and what the answers of its requests do when they land.                 *)
(*                                                                         *)
(* An action is one turn of the page's event loop: a gesture, or an answer *)
(* that lands, with the effects the new render runs.  Any number of        *)
(* requests are out at once, and each lands on whatever the panel shows by *)
(* then.  The server is what the panel can learn of it; a running review   *)
(* may be reported running by an answer it sent just before it ended.      *)
(***************************************************************************)
EXTENDS Integers, Sequences, FiniteSets

CONSTANTS
  OwnReviews,   \* the caller's reviews, of this tab and of others
  Null,         \* no review
  MaxReloads,   \* bound: how often the page is loaded again
  MaxOut        \* bound: cancel, cover-note and auto-save requests out

ASSUME PanelAssumption ==
  Null \notin OwnReviews /\ MaxReloads \in Nat /\ MaxOut \in Nat

VARIABLES
  listing,    \* server: the caller's reviews, newest first
  finished,   \* ... those with a terminal status
  stopAsked,  \* ... those with cancel_requested
  stored,     \* sessionStorage: the review in flight
  panel,      \* React state of the panel
  probe,      \* the mount probe
  post,       \* the POST of submitReview, and its stall check
  following,  \* the review the current poll loop is about
  polls,      \* poll requests out, by review
  cancels, notes, saves,  \* cancel, cover-note and auto-save requests out
  prefill,    \* is the detail read of the current "Run again" out?
  reloads

serverVars == <<listing, finished, stopAsked>>
requestVars == <<polls, cancels, notes, saves>>
panelVars == <<serverVars, stored, panel, probe, post, following, requestVars, prefill, reloads>>

NoDetail == [of |-> Null, done |-> FALSE, stopping |-> FALSE]
Details == [of : OwnReviews, done : BOOLEAN, stopping : BOOLEAN] \cup {NoDetail}

\* own: the review came from a POST of this page, not from the mount probe.
\* pending: the cancel and cover-note keys held disabled.
\* handed, saved: handedOffReviewRef and autoSaved; draft: the review the
\* cover-note draft on screen was written for.
Blank ==
  [review |-> Null, own |-> FALSE, detail |-> NoDetail, submitting |-> FALSE,
   lost |-> FALSE, pending |-> {}, handed |-> Null, saved |-> FALSE,
   draft |-> Null]

ProbeOf(key) == [at |-> IF key = Null THEN "listing" ELSE "stored",
                 of |-> key, late |-> FALSE]
NoPost == [at |-> "none", of |-> Null, since |-> 0]

Known == {listing[i] : i \in DOMAIN listing}

PanelStates ==
  [review : OwnReviews \cup {Null}, own : BOOLEAN, detail : Details,
   submitting : BOOLEAN, lost : BOOLEAN, pending : SUBSET {"cancel", "note"},
   handed : OwnReviews \cup {Null}, saved : BOOLEAN, draft : OwnReviews \cup {Null}]
Probes == [at : {"stored", "listing", "over"}, of : OwnReviews \cup {Null}, late : BOOLEAN]
Posts == [at : {"none", "sent", "checking"}, of : OwnReviews \cup {Null}, since : Nat]

PanelTypeOK ==
  /\ listing \in Seq(OwnReviews)
  /\ finished \subseteq OwnReviews /\ stopAsked \subseteq OwnReviews
  /\ stored \in OwnReviews \cup {Null}
  /\ panel \in PanelStates
  /\ probe \in Probes
  /\ probe.at = "stored" => probe.of # Null
  /\ post \in Posts
  /\ following \in OwnReviews \cup {Null}
  /\ polls \subseteq OwnReviews /\ cancels \subseteq OwnReviews
  /\ notes \subseteq OwnReviews /\ saves \subseteq OwnReviews
  /\ prefill \in BOOLEAN /\ reloads \in Nat

PanelInit ==
  /\ listing = <<>> /\ finished = {} /\ stopAsked = {}
  /\ stored = Null /\ panel = Blank
  /\ probe = ProbeOf(Null) /\ post = NoPost
  /\ following = Null
  /\ polls = {} /\ cancels = {} /\ notes = {} /\ saves = {}
  /\ prefill = FALSE /\ reloads = 0

-----------------------------------------------------------------------------
(* The server. *)

Created(r) ==
  /\ r \notin Known
  /\ listing' = <<r>> \o listing
  /\ UNCHANGED <<finished, stopAsked>>

\* Another tab of the caller submits.
OtherTabSubmits(r) ==
  /\ Created(r)
  /\ UNCHANGED <<stored, panel, probe, post, following, requestVars, prefill, reloads>>

Finishes(r) ==
  /\ r \in Known \ finished
  /\ finished' = finished \cup {r}
  /\ UNCHANGED <<listing, stopAsked, stored, panel, probe, post, following, requestVars,
                 prefill, reloads>>

\* record_cancel_intent, while the page waits for the answer.
CancelReaches(r) ==
  /\ r \in cancels /\ r \notin finished
  /\ stopAsked' = stopAsked \cup {r}
  /\ UNCHANGED <<listing, finished, stored, panel, probe, post, following, requestVars,
                 prefill, reloads>>

\* What an answer about r may say: is it over?
Seen(r) == IF r \in finished THEN BOOLEAN ELSE {FALSE}

\* ReviewDetail, as the route answers it now.
Detail(r, done) == [of |-> r, done |-> done, stopping |-> r \in stopAsked]

-----------------------------------------------------------------------------
(* What the panel's state means. *)

\* reviewInFlight
InFlight ==
  \/ panel.submitting
  \/ panel.review # Null /\ ~panel.lost /\ ~panel.detail.done

\* setReviewId, and the poll effect a changed id runs.
Show(p, r) ==
  /\ panel' = [p EXCEPT !.review = r, !.lost = IF p.review = r THEN p.lost ELSE FALSE]
  /\ following' = IF p.review = r THEN following ELSE r
  /\ polls' = IF p.review = r THEN polls ELSE polls \cup {r}

\* The bound on requests out.
MayAsk == Cardinality(cancels) + Cardinality(notes) + Cardinality(saves) < MaxOut

\* clearReviewChannels
Cleared(p) == [p EXCEPT !.pending = {}, !.lost = FALSE]

-----------------------------------------------------------------------------
(* The mount probe. *)

\* setReviewId(current ?? r)
Adopt(r) ==
  IF panel.review = Null THEN Show(panel, r) ELSE UNCHANGED <<panel, following, polls>>

\* resumeStoredReview: a failed probe keeps the key, a review that is gone or
\* over loses it, a running one is shown.
ProbeStored ==
  /\ probe.at = "stored"
  /\ \/ /\ probe' = [probe EXCEPT !.at = "listing"]
        /\ stored' \in {stored, Null}
        /\ UNCHANGED <<panel, following, polls>>
     \/ /\ FALSE \in Seen(probe.of)
        /\ Adopt(probe.of)
        /\ probe' = [probe EXCEPT !.at = "over"]
        /\ UNCHANGED stored
  /\ UNCHANGED <<serverVars, post, cancels, notes, saves, prefill, reloads>>

\* reattachFromListing: the newest review, if it still runs.
ProbeListing ==
  /\ probe.at = "listing"
  /\ probe' = [probe EXCEPT !.at = "over"]
  /\ \/ UNCHANGED <<panel, following, polls>>
     \/ /\ listing # <<>>
        /\ FALSE \in Seen(Head(listing))
        /\ Adopt(Head(listing))
  /\ UNCHANGED <<serverVars, stored, post, cancels, notes, saves, prefill, reloads>>

-----------------------------------------------------------------------------
(* submitReview *)

\* The lever, not while a review is in flight.
Submit ==
  /\ ~InFlight
  /\ panel' = [Cleared(panel) EXCEPT !.submitting = TRUE, !.detail = NoDetail,
                 !.review = Null, !.handed = Null, !.saved = FALSE,
                 !.draft = Null]
  /\ following' = Null
  /\ post' = [at |-> "sent", of |-> Null, since |-> Len(listing)]
  /\ probe' = [probe EXCEPT !.late = probe.at # "over"]
  /\ UNCHANGED <<serverVars, stored, requestVars, prefill, reloads>>

\* The server creates the review, or resumes the one it has; it may do so
\* after the client stopped waiting.
Accepts(r) ==
  /\ post.at # "none" /\ post.of = Null
  /\ post' = [post EXCEPT !.of = r]
  /\ Created(r) \/ (r \in Known /\ UNCHANGED serverVars)
  /\ UNCHANGED <<stored, panel, probe, following, requestVars, prefill, reloads>>

\* Mutant: the id is not remembered across a reload.
AttachForgotten(r) ==
  /\ Show([panel EXCEPT !.own = TRUE, !.submitting = FALSE], r)
  /\ UNCHANGED stored
  /\ post' = NoPost

\* attachSubmitted, and submitReview's finally
Attach(r) ==
  /\ Show([panel EXCEPT !.own = TRUE, !.submitting = FALSE], r)
  /\ stored' = r
  /\ post' = NoPost

PostLands ==
  /\ post.at = "sent" /\ post.of # Null
  /\ Attach(post.of)
  /\ UNCHANGED <<serverVars, probe, cancels, notes, saves, prefill, reloads>>

\* The request is refused or fails, or its stall check learns nothing.
SubmitFails ==
  /\ post.at # "none"
  /\ panel' = [panel EXCEPT !.submitting = FALSE]
  /\ post' = NoPost
  /\ UNCHANGED <<serverVars, stored, probe, following, requestVars, prefill, reloads>>

PostStalls ==
  /\ post.at = "sent"
  /\ post' = [post EXCEPT !.at = "checking"]
  /\ UNCHANGED <<serverVars, stored, panel, probe, following, requestVars, prefill, reloads>>

\* checkForStalledSubmission: the one review created since the submit, or
\* within the tolerance before it.
StallCheck ==
  /\ post.at = "checking"
  /\ \E tolerated \in {0, 1} :
       /\ Len(listing) - post.since + tolerated = 1
       /\ tolerated <= post.since
  /\ Attach(Head(listing))
  /\ UNCHANGED <<serverVars, probe, cancels, notes, saves, prefill, reloads>>

-----------------------------------------------------------------------------
(* The poll loop, and what a DONE review sets off. *)

\* Mutant: an answer is taken whichever review it is about.
CurrentAny(r) == TRUE

\* The poll's "cancelled" flag, cleared by its effect's cleanup.
Current(r) == r = following

\* The completion handoff, on a DONE review: once each, with a save when the
\* download gate allows it.
HandOff(r) ==
  \/ UNCHANGED saves
  \/ MayAsk /\ panel.handed # r /\ saves' = saves \cup {r}

PollRunning(r) ==
  /\ FALSE \in Seen(r)
  /\ panel' = [panel EXCEPT !.detail = Detail(r, FALSE)]
  /\ UNCHANGED <<polls, following, stored, saves>>

PollEnded(r) ==
  /\ TRUE \in Seen(r)
  /\ polls' = polls \ {r}
  /\ following' = Null
  /\ stored' = Null
  /\ \/ /\ panel' = [panel EXCEPT !.detail = Detail(r, TRUE), !.handed = r]
        /\ HandOff(r)
     \/ /\ panel' = [panel EXCEPT !.detail = Detail(r, TRUE)]
        /\ UNCHANGED saves

PollDropped(r) ==
  /\ polls' = polls \ {r}
  /\ UNCHANGED <<panel, following, stored, saves>>

PollAnswers(r) ==
  /\ r \in polls
  /\ \/ Current(r) /\ (PollRunning(r) \/ PollEnded(r))
     \/ ~Current(r) /\ PollDropped(r)
  /\ UNCHANGED <<serverVars, probe, post, cancels, notes, prefill, reloads>>

\* A status no later poll can change: the review is lost.
PollGivesUp(r) ==
  /\ r \in polls /\ Current(r)
  /\ panel' = [panel EXCEPT !.lost = TRUE]
  /\ polls' = polls \ {r}
  /\ following' = Null
  /\ stored' = Null
  /\ UNCHANGED <<serverVars, probe, post, cancels, notes, saves, prefill, reloads>>

\* autoSaveOutput: saved, or refused.
SaveAnswers(r) ==
  /\ r \in saves
  /\ saves' = saves \ {r}
  /\ \/ panel.handed = r /\ panel' = [panel EXCEPT !.saved = TRUE]
     \/ UNCHANGED panel
  /\ UNCHANGED <<serverVars, stored, probe, post, following, polls, cancels, notes,
                 prefill, reloads>>

-----------------------------------------------------------------------------
(* Requests about the review on screen. *)

\* Mutant: an answer lands on whatever is on screen.
OnScreenAny(r) == panel.review # Null

\* stillOnScreen
OnScreen(r) == panel.review = r

\* handleCancel, on a running review not already stopping.
PressCancel ==
  /\ InFlight /\ ~panel.submitting /\ ~panel.detail.stopping
  /\ "cancel" \notin panel.pending /\ MayAsk
  /\ panel' = [panel EXCEPT !.pending = @ \cup {"cancel"}]
  /\ cancels' = cancels \cup {panel.review}
  /\ UNCHANGED <<serverVars, stored, probe, post, following, polls, notes, saves,
                 prefill, reloads>>

\* 202, or 409 for a review that is over, or a failure.
CancelAnswers(r) ==
  /\ r \in cancels
  /\ cancels' = cancels \ {r}
  /\ \E stopped \in {FALSE, (r \in stopAsked)} :
       panel' =
         IF OnScreen(r)
         THEN [panel EXCEPT !.pending = @ \ {"cancel"},
                            !.detail.stopping = @ \/ (stopped /\ panel.detail # NoDetail)]
         ELSE panel
  /\ UNCHANGED <<serverVars, stored, probe, post, following, polls, notes, saves,
                 prefill, reloads>>

\* handleButterIt, on a finished review.
PressButter ==
  /\ panel.review # Null /\ panel.detail.done /\ ~panel.submitting
  /\ "note" \notin panel.pending /\ MayAsk
  /\ panel' = [panel EXCEPT !.pending = @ \cup {"note"}]
  /\ notes' = notes \cup {panel.review}
  /\ UNCHANGED <<serverVars, stored, probe, post, following, polls, cancels, saves,
                 prefill, reloads>>

ButterAnswers(r) ==
  /\ r \in notes
  /\ notes' = notes \ {r}
  /\ \E drafted \in BOOLEAN :
       panel' = IF OnScreen(r)
                THEN [panel EXCEPT !.pending = @ \ {"note"},
                                   !.draft = IF drafted THEN r ELSE @]
                ELSE panel
  /\ UNCHANGED <<serverVars, stored, probe, post, following, polls, cancels, saves,
                 prefill, reloads>>

-----------------------------------------------------------------------------
(* Clearing the screen. *)

ResetForRetry ==
  /\ panel' = [Cleared(panel) EXCEPT !.detail = NoDetail, !.review = Null,
                                     !.handed = Null]
  /\ following' = Null

\* "Toast another slice", on a review that is over.
PressRetry ==
  /\ panel.review # Null /\ panel.detail.done /\ ~panel.lost /\ ~panel.submitting
  /\ ResetForRetry
  /\ UNCHANGED <<serverVars, stored, probe, post, requestVars, prefill, reloads>>

\* "Run again", here or in History: refused while a review is in flight,
\* which also drops an earlier press's answer.
PressRunAgain ==
  /\ prefill' = ~InFlight
  /\ UNCHANGED <<serverVars, stored, panel, probe, post, following, requestVars, reloads>>

\* Mutant: nothing is asked again after the read.
BusyBeforeReadOnly == FALSE

\* reviewInFlightRef, asked again after the read
BusyAfterRead == InFlight

PrefillAnswers ==
  /\ prefill
  /\ prefill' = FALSE
  /\ \/ UNCHANGED <<panel, following>>
     \/ ~BusyAfterRead /\ ResetForRetry
  /\ UNCHANGED <<serverVars, stored, probe, post, requestVars, reloads>>

\* The page is loaded again; sessionStorage stays.
Reload ==
  /\ reloads < MaxReloads
  /\ reloads' = reloads + 1
  /\ panel' = Blank
  /\ probe' = ProbeOf(stored)
  /\ post' = NoPost
  /\ following' = Null
  /\ polls' = {} /\ cancels' = {} /\ notes' = {} /\ saves' = {}
  /\ prefill' = FALSE
  /\ UNCHANGED <<serverVars, stored>>

PanelNext ==
  \/ \E r \in OwnReviews :
       \/ OtherTabSubmits(r) \/ Finishes(r) \/ CancelReaches(r) \/ Accepts(r)
       \/ PollAnswers(r) \/ PollGivesUp(r) \/ SaveAnswers(r)
       \/ CancelAnswers(r) \/ ButterAnswers(r)
  \/ ProbeStored \/ ProbeListing
  \/ Submit \/ PostLands \/ SubmitFails \/ PostStalls \/ StallCheck
  \/ PressCancel \/ PressButter \/ PressRetry \/ PressRunAgain \/ PrefillAnswers
  \/ Reload

PanelSpec == PanelInit /\ [][PanelNext]_panelVars

-----------------------------------------------------------------------------
(* Properties *)

\* Nothing on screen is about a review other than the one shown: its detail,
\* the cover-note draft, the line that says its redline was saved.
OneReviewOnScreen ==
  /\ panel.detail # NoDetail => panel.detail.of = panel.review
  /\ panel.review # Null =>
       /\ panel.draft # Null => panel.draft = panel.review
       /\ panel.saved => panel.handed = panel.review

\* So it is on every page whose first submission came after its mount probe.
ScreenIsOneReview == ~probe.late => OneReviewOnScreen

\* "Stopping" is shown of a review whose stop the server has recorded, and a
\* key is held only while a request about the review shown is out.
AnswersStayWithTheirReview ==
  /\ ~probe.late => (panel.detail.stopping => panel.detail.of \in stopAsked)
  /\ "cancel" \in panel.pending => panel.review \in cancels
  /\ "note" \in panel.pending => panel.review \in notes

\* A review this page submitted, and still follows, is the one a reload asks
\* for.
KeyBringsItBack ==
  (panel.own /\ panel.review # Null /\ InFlight /\ ~panel.submitting /\ ~probe.late)
    => stored = panel.review

\* A running review leaves the screen only with the page.
RunningNeverDetached ==
  [][(panel.review \in Known \ finished /\ ~panel.lost /\ ~probe.late)
       => panel'.review = panel.review \/ reloads' # reloads]_panelVars

=============================================================================
