--------------------------- MODULE RetentionSettings ---------------------------
(***************************************************************************)
(* The deployment's one retention window.  Raising it takes one admin;     *)
(* lowering it parks a reduction, which a second admin confirms, any admin *)
(* cancels, or the sweep applies once the 72-hour delay has passed.  Every *)
(* request reads the settings row and writes it in a later call, so what   *)
(* it read may be out of date.  Windows stand in order of length, the      *)
(* `forever` sentinel last.                                                *)
(***************************************************************************)
EXTENDS Naturals

CONSTANTS
  Owners,         \* the admins, each with one request in flight
  Windows,        \* lengths of a window, by rank
  DefaultWindow,  \* the length when no row says otherwise
  MaxReductions   \* bound: reductions ever requested

ASSUME WindowAssumption == Windows \subseteq Nat /\ DefaultWindow \in Windows
ASSUME ReductionBoundAssumption == MaxReductions \in Nat

VARIABLES
  hasRow,     \* the settings row exists
  window,     \* the window in effect
  pending,    \* the parked reduction, or NoReduction
  ask,        \* what each admin's request has read
  sweeper,    \* the start of the sweep
  madeIds,  \* reductions ever requested
  applied,    \* history: reductions applied
  withdrawn   \* history: reductions whose cancellation was answered

settingsVars ==
  <<hasRow, window, pending, ask, sweeper, madeIds, applied, withdrawn>>

Ids == 1 .. MaxReductions
Reduction == [id : Ids, to : Windows, by : Owners, ripe : BOOLEAN]
NoReduction == [id |-> 0]
IdleAsk == [pc |-> "idle"]

SettingsTypeOK ==
  /\ hasRow \in BOOLEAN /\ window \in Windows
  /\ pending \in Reduction \cup {NoReduction}
  /\ ask \in [Owners -> {IdleAsk}
                \cup [pc : {"raise"}, to : Windows, saw : Windows]
                \cup [pc : {"park"}, of : Reduction]
                \cup [pc : {"confirm", "cancel"}, of : Reduction]]
  /\ sweeper \in {IdleAsk} \cup [pc : {"put"}] \cup [pc : {"apply"}, of : Reduction]
  /\ madeIds \in 0 .. MaxReductions
  /\ applied \subseteq Ids /\ withdrawn \subseteq Ids
  /\ pending.id \notin applied \cup withdrawn

SettingsInit ==
  /\ hasRow = FALSE /\ window = DefaultWindow /\ pending = NoReduction
  /\ ask = [a \in Owners |-> IdleAsk]
  /\ sweeper = IdleAsk
  /\ madeIds = 0 /\ applied = {} /\ withdrawn = {}

Become(a, state) == ask' = [ask EXCEPT ![a] = state]

-----------------------------------------------------------------------------
(* A change of the window: a read, then a write.                           *)

\* The read decides: a longer window is applied, a shorter one is parked
\* under a fresh id, unless a reduction is parked already.
RequestChange(a, to) ==
  /\ ask[a] = IdleAsk
  /\ \/ /\ to >= window
        /\ Become(a, [pc |-> "raise", to |-> to, saw |-> window])
        /\ UNCHANGED madeIds
     \/ /\ to < window /\ pending = NoReduction /\ madeIds < MaxReductions
        /\ madeIds' = madeIds + 1
        /\ Become(a, [pc |-> "park", of |-> [id |-> madeIds', to |-> to, by |-> a, ripe |-> FALSE]])
  /\ UNCHANGED <<hasRow, window, pending, sweeper, applied, withdrawn>>

\* A forward change overwrites the window, and clears a parked reduction.
ApplyForward(a) ==
  /\ ask[a].pc = "raise"
  /\ window' = ask[a].to /\ pending' = NoReduction /\ hasRow' = TRUE
  /\ Become(a, IdleAsk)
  /\ UNCHANGED <<sweeper, madeIds, applied, withdrawn>>

\* A reduction is parked if none is.
ParkReduction(a) ==
  /\ ask[a].pc = "park"
  /\ IF pending = NoReduction
     THEN pending' = ask[a].of /\ hasRow' = TRUE
     ELSE UNCHANGED <<pending, hasRow>>
  /\ Become(a, IdleAsk)
  /\ UNCHANGED <<window, sweeper, madeIds, applied, withdrawn>>

-----------------------------------------------------------------------------
(* The end of a parked reduction.                                          *)

\* The requester's own confirmation counts.
OpenPendingByAnyone(a, pc) ==
  /\ ask[a] = IdleAsk /\ pending # NoReduction
  /\ Become(a, [pc |-> pc, of |-> pending])
  /\ UNCHANGED <<hasRow, window, pending, sweeper, madeIds, applied, withdrawn>>

\* _current_pending: a confirmation by another admin, a cancellation by any.
OpenPending(a, pc) ==
  /\ ask[a] = IdleAsk /\ pending # NoReduction
  /\ pc = "confirm" => pending.by # a
  /\ Become(a, [pc |-> pc, of |-> pending])
  /\ UNCHANGED <<hasRow, window, pending, sweeper, madeIds, applied, withdrawn>>

\* A reduction applied whatever became of the record.
CurrentAlways(reduction) == TRUE

Current(reduction) == pending.id = reduction.id

\* Lowers the window and clears the record, if it is still the one read.
ApplyPending(reduction) ==
  IF Current(reduction)
  THEN /\ window' = reduction.to /\ pending' = NoReduction
       /\ applied' = applied \cup {reduction.id}
  ELSE UNCHANGED <<window, pending, applied>>

Confirm(a) ==
  /\ ask[a].pc = "confirm"
  /\ ApplyPending(ask[a].of)
  /\ Become(a, IdleAsk)
  /\ UNCHANGED <<hasRow, sweeper, madeIds, withdrawn>>

Cancel(a) ==
  /\ ask[a].pc = "cancel"
  /\ IF Current(ask[a].of)
     THEN pending' = NoReduction /\ withdrawn' = withdrawn \cup {ask[a].of.id}
     ELSE UNCHANGED <<pending, withdrawn>>
  /\ Become(a, IdleAsk)
  /\ UNCHANGED <<hasRow, window, sweeper, madeIds, applied>>

\* The 72 hours of a parked reduction are over.
DelayPasses ==
  /\ pending # NoReduction /\ ~pending.ripe
  /\ pending' = [pending EXCEPT !.ripe = TRUE]
  /\ UNCHANGED <<hasRow, window, ask, sweeper, madeIds, applied, withdrawn>>

-----------------------------------------------------------------------------
(* The start of a sweep.                                                   *)

\* A missing row is about to be replaced by the defaults, on AWS; a parked
\* reduction whose delay had passed is about to be applied.
SweepReads ==
  /\ sweeper = IdleAsk
  /\ \/ ~hasRow /\ sweeper' = [pc |-> "put"]
     \/ /\ pending # NoReduction /\ pending.ripe
        /\ sweeper' = [pc |-> "apply", of |-> pending]
  /\ UNCHANGED <<hasRow, window, pending, ask, madeIds, applied, withdrawn>>

\* The default row is put whatever was written since it was found missing.
SweepPutsDefault ==
  /\ sweeper.pc = "put"
  /\ hasRow' = TRUE /\ window' = DefaultWindow /\ pending' = NoReduction
  /\ sweeper' = IdleAsk
  /\ UNCHANGED <<ask, madeIds, applied, withdrawn>>

SweepApplies ==
  /\ sweeper.pc = "apply"
  /\ ApplyPending(sweeper.of)
  /\ sweeper' = IdleAsk
  /\ UNCHANGED <<hasRow, ask, madeIds, withdrawn>>

SettingsNext ==
  \/ \E a \in Owners :
       \/ \E to \in Windows : RequestChange(a, to)
       \/ ApplyForward(a)
       \/ ParkReduction(a)
       \/ \E pc \in {"confirm", "cancel"} : OpenPending(a, pc)
       \/ Confirm(a)
       \/ Cancel(a)
  \/ DelayPasses
  \/ SweepReads
  \/ SweepPutsDefault
  \/ SweepApplies

SettingsSpec == SettingsInit /\ [][SettingsNext]_settingsVars

-----------------------------------------------------------------------------

\* A cancelled reduction is never applied, by a confirmation or a sweep
\* that had read it before.
WithdrawnNeverApplied == withdrawn \cap applied = {}

\* The window becomes shorter only by the parked reduction of that moment,
\* once its delay has passed or at the hand of an admin who did not ask for
\* it; or when what a forward change or the sweep read is out of date.
LoweredRightly ==
  \/ /\ pending # NoReduction /\ pending' = NoReduction /\ window' = pending.to
     /\ pending.ripe
          \/ \E a \in Owners \ {pending.by} : ask[a].pc = "confirm" /\ ask'[a] = IdleAsk
  \/ \E a \in Owners : /\ ask[a].pc = "raise" /\ ask'[a] = IdleAsk
                       /\ ask[a].saw < window
  \/ sweeper.pc = "put" /\ hasRow

ReductionControlled == [][window' < window => LoweredRightly]_settingsVars

=============================================================================
