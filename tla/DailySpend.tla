----------------------------- MODULE DailySpend -----------------------------
(***************************************************************************)
(* The daily_spend table over several UTC days: reviews that reserve their *)
(* worst case, add the Floor judge's and settle, cover notes and preflight *)
(* checks that are ledgered when they are over, and an admin who moves the *)
(* cap.  Every one of them finds the day's row by its own clock.           *)
(*                                                                         *)
(* A reservation is settled once: who settles it, and how often, is the    *)
(* subject of AwsReview and DtsReview.                                     *)
(***************************************************************************)
EXTENDS Integers

CONSTANTS
  Spenders,     \* the reviews that reserve
  Clients,      \* requests in flight that draft a cover note or preflight a file
  LastDay,      \* bound: the last UTC day
  Prices,       \* worst cases of a review, as the selected models price it
  FloorPrice,   \* worst case of its Floor judge
  MaxActual,    \* bound: what a review is found to have cost
  NotePrice,    \* cost of a cover note or of a preflight check
  MaxNotes,     \* bound: cover notes and preflight checks billed
  Caps,         \* caps an admin can set
  EnvCap        \* DAILY_SPEND_CAP_USD_CENTS

ASSUME MoneyAssumption ==
  /\ LastDay \in Nat \ {0}
  /\ Prices \subseteq Nat /\ FloorPrice \in Nat /\ MaxActual \in Nat
  /\ NotePrice \in Nat /\ MaxNotes \in Nat
  /\ Caps \subseteq Nat /\ EnvCap \in Nat

VARIABLES
  today,      \* the UTC day
  adminCap,   \* the cap of the Settings tab, EnvCap until one is set
  dayRows,    \* days whose row has a reserved_usd_cents
  counter,    \* reserved_usd_cents of each day's row
  settled,    \* settled_usd_cents of each day's row
  spender,    \* each review
  client,     \* each request
  billed,     \* cover notes and preflight checks billed
  owed,       \* history: reserved and not settled, or ledgered, on each day
  direct,     \* history: ledgered on each day with no reservation
  crossed     \* history: reservations of other days credited to each day

tableVars == <<dayRows, counter, settled>>
historyVars == <<owed, direct, crossed>>
spendVars == <<today, adminCap, tableVars, spender, client, billed, historyVars>>

Days == 1 .. LastDay
Added(f, d, n) == [f EXCEPT ![d] = @ + n]

\* day and price: of the reservation; cap: the one resolved for it; floorDay: the
\* day whose counter the Floor's worst case is put on; floorCents: what the
\* submission says of it; on: the day the settlement found.
NewSpender == [at |-> "new", day |-> 1, price |-> 0, cap |-> 0,
               floorDay |-> 1, floorCents |-> 0, on |-> 1]

\* "asking": before the conditional write; "floor": before the Floor's two
\* writes, "stamp" between them; "settle": before the settlement's write.
SpenderAt == {"new", "asking", "refused", "running", "floor", "stamp", "judged",
              "settle", "unledgered", "over"}

SpenderState ==
  [at : SpenderAt, day : Days, price : Prices \cup {0}, cap : Caps \cup {EnvCap, 0},
   floorDay : Days, floorCents : {0, FloorPrice}, on : Days]

\* committed: the sum of the row as the cover-note gate read it; truth: what
\* the day really had committed then.
IdleClient == [at |-> "idle", day |-> 1, committed |-> 0, truth |-> 0]
ClientState ==
  [at : {"idle", "read", "calling", "paying"}, day : Days, committed : Int, truth : Int]

SpendTypeOK ==
  /\ today \in Days
  /\ adminCap \in Caps \cup {EnvCap}
  /\ dayRows \subseteq Days
  /\ counter \in [Days -> Int]
  /\ settled \in [Days -> Nat]
  /\ spender \in [Spenders -> SpenderState]
  /\ client \in [Clients -> ClientState]
  /\ billed \in 0 .. MaxNotes
  /\ owed \in [Days -> Int]
  /\ direct \in [Days -> Nat]
  /\ crossed \in [Days -> Nat]

SpendInit ==
  /\ today = 1 /\ billed = 0
  /\ adminCap = EnvCap
  /\ dayRows = {}
  /\ spender = [s \in Spenders |-> NewSpender]
  /\ client = [c \in Clients |-> IdleClient]
  /\ counter = [d \in Days |-> 0] /\ settled = [d \in Days |-> 0]
  /\ owed = [d \in Days |-> 0] /\ direct = [d \in Days |-> 0]
  /\ crossed = [d \in Days |-> 0]

-----------------------------------------------------------------------------

Midnight ==
  /\ today < LastDay
  /\ today' = today + 1
  /\ UNCHANGED <<adminCap, tableVars, spender, client, billed, historyVars>>

\* An admin sets a cap, or removes it so that the environment's is in force.
SetCap(k) ==
  /\ k # adminCap
  /\ adminCap' = k
  /\ UNCHANGED <<today, tableVars, spender, client, billed, historyVars>>

\* The cap in force, or the environment's when the settings cannot be read.
Resolved == {adminCap, EnvCap}

Spends(s, z) == spender' = [spender EXCEPT ![s] = z]

\* The clock, the price and the cap, read before the conditional write; a cap
\* below one review is refused here.
ReserveBegin(s) ==
  /\ spender[s].at = "new"
  /\ \E p \in Prices, k \in Resolved :
       Spends(s, IF p > k THEN [NewSpender EXCEPT !.at = "refused"]
                 ELSE [NewSpender EXCEPT !.at = "asking", !.day = today, !.price = p, !.cap = k])
  /\ UNCHANGED <<today, adminCap, tableVars, client, billed, historyVars>>

\* Mutant: the budget leaves no room for this review.
UnderBudgetSoFar(z) == z.day \notin dayRows \/ counter[z.day] <= z.cap

UnderBudget(z) == z.day \notin dayRows \/ counter[z.day] <= z.cap - z.price

ReserveSpend(s) ==
  LET z == spender[s] IN
  /\ z.at = "asking"
  /\ UnderBudget(z)
  /\ Spends(s, [z EXCEPT !.at = "running", !.cap = 0])
  /\ dayRows' = dayRows \cup {z.day}
  /\ counter' = Added(counter, z.day, z.price)
  /\ owed' = Added(owed, z.day, z.price)
  /\ UNCHANGED <<today, adminCap, settled, client, billed, direct, crossed>>

\* The daily limit is reached.
ReserveRefused(s) ==
  /\ spender[s].at = "asking"
  /\ ~UnderBudget(spender[s])
  /\ Spends(s, [NewSpender EXCEPT !.at = "refused"])
  /\ UNCHANGED <<today, adminCap, tableVars, client, billed, historyVars>>

\* reserve_floor_spend, until it has read the clock.
FloorBegin(s) ==
  /\ spender[s].at = "running" /\ FloorPrice > 0
  /\ Spends(s, [spender[s] EXCEPT !.at = "floor", !.floorDay = today])
  /\ UNCHANGED <<today, adminCap, tableVars, client, billed, historyVars>>

\* Not checked against the cap: the review was admitted.
FloorRaises(s) ==
  LET z == spender[s] IN
  /\ z.at = "floor"
  /\ Spends(s, [z EXCEPT !.at = "stamp"])
  /\ dayRows' = dayRows \cup {z.floorDay}
  /\ counter' = Added(counter, z.floorDay, FloorPrice)
  /\ owed' = Added(owed, z.floorDay, FloorPrice)
  /\ UNCHANGED <<today, adminCap, settled, client, billed, direct, crossed>>

FloorStamps(s) ==
  /\ spender[s].at = "stamp"
  /\ Spends(s, [spender[s] EXCEPT !.at = "judged", !.floorCents = FloorPrice])
  /\ UNCHANGED <<today, adminCap, tableVars, client, billed, historyVars>>

\* The run, the cancel route, the restart recovery or the reconciler reads the
\* submission and the clock.  The process may have died inside the Floor's
\* writes; a settlement that raised is tried again by the reconciler only.
SettleBegin(s) ==
  /\ spender[s].at \in {"running", "floor", "stamp", "judged", "unledgered"}
  /\ Spends(s, [spender[s] EXCEPT !.at = "settle", !.on = today])
  /\ UNCHANGED <<today, adminCap, tableVars, client, billed, historyVars>>

\* Reservations of other days that this settlement takes off the row it finds.
CrossedBy(z) ==
  (IF z.day # z.on THEN z.price ELSE 0) + (IF z.floorDay # z.on THEN z.floorCents ELSE 0)

Settle(s) ==
  LET z == spender[s] IN
  /\ z.at = "settle"
  /\ z.on \in dayRows
  /\ Spends(s, [NewSpender EXCEPT !.at = "over"])
  /\ \E actual \in 0 .. MaxActual :
       /\ counter' = Added(counter, z.on, actual - (z.price + z.floorCents))
       /\ settled' = Added(settled, z.on, actual)
       /\ owed' = Added(Added(Added(owed, z.day, - z.price), z.floorDay, - z.floorCents),
                        z.on, actual)
  /\ crossed' = Added(crossed, z.on, CrossedBy(z))
  /\ UNCHANGED <<today, adminCap, dayRows, client, billed, direct>>

\* "reserved_usd_cents + :delta" on a row that has none raises.
SettleRaises(s) ==
  /\ spender[s].at = "settle"
  /\ spender[s].on \notin dayRows
  /\ Spends(s, [spender[s] EXCEPT !.at = "unledgered"])
  /\ UNCHANGED <<today, adminCap, tableVars, client, billed, historyVars>>

Asks(c, q) == client' = [client EXCEPT ![c] = q]

\* cover_note_daily_cap_reached reads the row, then resolves the cap.
NoteReads(c) ==
  /\ client[c].at = "idle" /\ billed < MaxNotes
  /\ Asks(c, [IdleClient EXCEPT !.at = "read",
                !.committed = counter[today] + settled[today],
                !.truth = owed[today] + direct[today] - crossed[today]])
  /\ UNCHANGED <<today, adminCap, tableVars, spender, billed, historyVars>>

NoteAdmitted(c) ==
  /\ client[c].at = "read"
  /\ \E k \in Resolved : client[c].committed < k
  /\ Asks(c, [IdleClient EXCEPT !.at = "calling"])
  /\ UNCHANGED <<today, adminCap, tableVars, spender, billed, historyVars>>

NoteRefused(c) ==
  /\ client[c].at = "read"
  /\ \E k \in Resolved : client[c].committed >= k
  /\ Asks(c, IdleClient)
  /\ UNCHANGED <<today, adminCap, tableVars, spender, billed, historyVars>>

\* The draft is refused by the leakage scan, or there is none: not ledgered.
NoteFails(c) ==
  /\ client[c].at = "calling"
  /\ Asks(c, IdleClient)
  /\ UNCHANGED <<today, adminCap, tableVars, spender, billed, historyVars>>

\* The model answered a cover note, or a preflight check, which has no gate;
\* the clock is read for the ledger.
Answered(c) ==
  /\ client[c].at \in {"idle", "calling"} /\ billed < MaxNotes
  /\ billed' = billed + 1
  /\ Asks(c, [IdleClient EXCEPT !.at = "paying", !.day = today])
  /\ UNCHANGED <<today, adminCap, tableVars, spender, historyVars>>

Pays(c) ==
  /\ client[c].at = "paying"
  /\ Asks(c, IdleClient)
  /\ settled' = Added(settled, client[c].day, NotePrice)
  /\ direct' = Added(direct, client[c].day, NotePrice)
  /\ UNCHANGED <<today, adminCap, dayRows, counter, spender, billed, owed, crossed>>

SpendNext ==
  \/ Midnight
  \/ \E k \in Caps \cup {EnvCap} : SetCap(k)
  \/ \E s \in Spenders :
       \/ ReserveBegin(s) \/ ReserveSpend(s) \/ ReserveRefused(s)
       \/ FloorBegin(s) \/ FloorRaises(s) \/ FloorStamps(s)
       \/ SettleBegin(s) \/ Settle(s) \/ SettleRaises(s)
  \/ \E c \in Clients :
       NoteReads(c) \/ NoteAdmitted(c) \/ NoteRefused(c) \/ NoteFails(c)
       \/ Answered(c) \/ Pays(c)

SpendSpec == SpendInit /\ [][SpendNext]_spendVars

-----------------------------------------------------------------------------

Admitted(s) == spender[s].at = "asking" /\ spender'[s].at = "running"
Gated(c) == client[c].at = "read" /\ client'[c].at = "calling"

Fits ==
  /\ \A s \in Spenders : Admitted(s) =>
       LET z == spender[s] IN owed'[z.day] <= z.cap + crossed'[z.day]
  /\ \A c \in Clients : Gated(c) => \E k \in Resolved : client[c].truth < k

\* The gates see every commitment of their day: a reservation that is placed
\* fits, with all that the day still owes and has ledgered, under the cap it was
\* checked against, and a cover note is drafted only while those and the direct
\* spend were below a cap in force.  The one gap is the money of other days that
\* settlements credited to this one.
AdmittedWithinCap == [][Fits]_spendVars

\* What reserve_spend's docstring says: concurrent submissions cannot
\* collectively overshoot the cap before settlement.
DayWithinCap ==
  [][\A s \in Spenders : Admitted(s) => owed'[spender[s].day] <= spender[s].cap]_spendVars

=============================================================================
