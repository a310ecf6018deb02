---------------------------- MODULE MCComponents ----------------------------
(* Instances of the settings, versions, redline, accounts and transcript    *)
(* modules for TLC: components that share nothing, of which a behaviour     *)
(* moves one.                                                               *)
EXTENDS RetentionSettings, PlaybookVersions, RedlineChangeSets, Accounts,
        MCTranscript, BlockOps, TLC

CONSTANTS a1, a2, i1, b1, b2, shipped, none, r1, q1, q2, u1, u2, default, s1, s2

\* Requests are alike, and so are the passwords people choose.
Alike == Permutations({q1, q2}) \cup Permutations({s1, s2})

\* Clauses with and without a heading, one whose heading reads otherwise by
\* now, signature blocks of every shape, a table, and paragraphs that cannot
\* be found again.
Para(kind) == [kind |-> kind, found |-> TRUE, cell |-> FALSE]
Lost(kind) == [Para(kind) EXCEPT !.found = FALSE]
InTable(kind) == [Para(kind) EXCEPT !.cell = TRUE]
Clause(heading, paragraphs) == [heading |-> heading, paragraphs |-> paragraphs]

SixAgreements ==
  {<<>>,
   <<Clause("none", <<Para("body")>>), Clause("live", <<Para("body"), Para("signature")>>)>>,
   <<Clause("live", <<Para("body"), Para("weak")>>), Clause("live", <<Para("weak"), Para("signature")>>)>>,
   <<Clause("moved", <<Para("body")>>), Clause("live", <<Para("body"), Lost("signature")>>)>>,
   <<Clause("live", <<Para("body"), Lost("body")>>), Clause("live", <<Para("mixed"), Para("body"), Para("signature")>>)>>,
   <<Clause("live", <<InTable("body")>>), Clause("live", <<>>),
     Clause("live", <<Para("signature"), Para("body"), Para("signature")>>)>>}

VARIABLE moving

\* No redline is being made.
RedlineIdle ==
  /\ issue = [k \in Keys |-> [by |-> "model", edits |-> "none", fate |-> "lands",
                              copies |-> FALSE, refusable |-> FALSE]]
  /\ internal = FALSE /\ critical = FALSE /\ pass = 0
  /\ dropped = {} /\ refused = {} /\ document = NoDocument

\* No account is touched, and no bootstrap runs.
AccountsIdle ==
  /\ user = [u \in Users |-> NoUser]
  /\ tokens = {} /\ made = 0 /\ writes = 0
  /\ request = [p \in Requests |-> Idle] /\ boot = Idle
  /\ marker = FALSE /\ served = FALSE
  /\ ended = {} /\ removedUsers = {} /\ emptied = FALSE

\* No transcript is read.
SpansIdle ==
  /\ block = <<>> /\ segments = <<>> /\ placed = <<>> /\ cursor = 0
  /\ verdict = "rejected" /\ ops = <<>> /\ stage = "idle"
  /\ work = {} /\ inserts = <<>> /\ doc = <<>>
  /\ landed = {} /\ inserted = <<>> /\ failed = {}

BlockOpsIdle ==
  /\ agreement = <<>> /\ patched = {} /\ asked = <<>> /\ phase = "rejected"
  /\ planned = {} /\ written = {} /\ paper = <<>> /\ struck = {} /\ omitted = {}

ComponentsInit ==
  /\ moving \in {"settings", "versions", "redline", "accounts", "spans", "blocks"}
  /\ SettingsInit /\ VersionsInit
  /\ IF moving = "redline" THEN RedlineInit ELSE RedlineIdle
  /\ IF moving = "accounts" THEN AccountsInit ELSE AccountsIdle
  /\ IF moving = "spans" THEN SpanInit ELSE SpansIdle
  /\ IF moving = "blocks" THEN BlockOpsInit ELSE BlockOpsIdle

transcripts == <<spanVars, blockVars>>
others == <<settingsVars, versionVars, redlineVars, accountVars>>

ComponentsNext ==
  /\ UNCHANGED moving
  /\ \/ /\ moving = "settings" /\ SettingsNext
        /\ UNCHANGED <<versionVars, redlineVars, accountVars, transcripts>>
     \/ /\ moving = "versions" /\ VersionsNext
        /\ UNCHANGED <<settingsVars, redlineVars, accountVars, transcripts>>
     \/ /\ moving = "redline" /\ RedlineNext
        /\ UNCHANGED <<settingsVars, versionVars, accountVars, transcripts>>
     \/ /\ moving = "accounts" /\ AccountsNext
        /\ UNCHANGED <<settingsVars, versionVars, redlineVars, transcripts>>
     \/ moving = "spans" /\ SpanNext /\ UNCHANGED <<others, blockVars>>
     \/ moving = "blocks" /\ BlockOpsNext /\ UNCHANGED <<others, spanVars>>

ComponentsSpec == ComponentsInit /\ [][ComponentsNext]_<<moving, others, transcripts>>

=============================================================================
