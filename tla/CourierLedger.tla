---------------------------- MODULE CourierLedger ----------------------------
(***************************************************************************)
(* field-ops: what couriers earn, the cash they hold, and what they are    *)
(* paid.  One courier_ledgers row per courier and ISO week carries a       *)
(* version and a running balance; courier_ledger_entries is the log.       *)
(*                                                                         *)
(* A writer (credit_courier, remit_cash, one courier's turn of run_payout) *)
(* reads the row, reads the entries, decides, and saves the row and the    *)
(* new entries in one transaction.  The reads and the save are separate    *)
(* awaits, and writers of one ledger run side by side: on the courier's    *)
(* phone, its retries, and the operator's payout button.                   *)
(*                                                                         *)
(* The log is kept as its sums by kind (`log') and, for the entries that   *)
(* name a job, as the count of rows per courier, kind and job (`entries'). *)
(* Nothing closes a ledger, so every row stays 'open'.  Amounts are i64    *)
(* cents far from the type's bound: PayBounds caps one job's pay.          *)
(***************************************************************************)
EXTENDS Integers, FiniteSets

CONSTANTS
  Courier,     \* the couriers of one tenant
  Job,         \* the products' job ids
  Request,     \* writers in flight at once: bounds concurrency
  Pay,         \* what an offer may declare: cents per kind of entry
  Amount,      \* what a courier may hand back in one remittance
  LastPeriod,  \* weeks the model lives through: bounds the clock
  Idle         \* a writer that does nothing

Kind   == {"trip_earning", "tip", "cod_collected"}  \* entries that name a job
Period == 1 .. LastPeriod
Ledger == Courier \X Period

\* mark_delivered calls credit_courier only when some amount is positive, and
\* the handler of remit refuses an amount that is not.
ASSUME PayAssumption ==
  Pay \subseteq {pay \in [Kind -> Nat] : \E k \in Kind : pay[k] > 0}
ASSUME AmountAssumption == Amount \subseteq Nat \ {0}
ASSUME LastPeriodAssumption == LastPeriod \in Nat \ {0}

Posted(pay)  == {k \in Kind : pay[k] > 0}   \* the entries a credit appends
Earned(pay)  == pay["trip_earning"] + pay["tip"]

VARIABLES
  week,     \* current_period()
  row,      \* [Ledger -> version, balance]; version 0 is a row not inserted yet
  log,      \* [Ledger -> sums of the entries, by what they did]
  entries,  \* [Courier \X Kind \X Job -> number of entries in the table]
  req       \* what each writer holds between its awaits

vars == <<week, row, log, entries, req>>

Row == [version: Nat, balance: Int]
Log == [earned: Nat, paid: Nat, collected: Nat, remitted: Nat]

Read == [ledger: Ledger, row: Row]   \* a CourierLedger in memory

Writer ==
  [op: {"credit"}, step: {"check", "save"}, in: Read, job: Job, pay: Pay]
    \cup [op: {"remit"}, step: {"entries", "save"}, in: Read, amount: Amount]
    \cup [op: {"payout"}, step: {"entries", "save"}, in: Read]

ASSUME IdleAssumption == Idle \notin Writer

TypeOK ==
  /\ week \in Period
  /\ row \in [Ledger -> Row]
  /\ log \in [Ledger -> Log]
  /\ entries \in [Courier \X Kind \X Job -> Nat]
  /\ req \in [Request -> Writer \cup {Idle}]

Init ==
  /\ week = 1
  /\ row = [l \in Ledger |-> [version |-> 0, balance |-> 0]]
  /\ log = [l \in Ledger |-> [earned |-> 0, paid |-> 0, collected |-> 0, remitted |-> 0]]
  /\ entries = [e \in Courier \X Kind \X Job |-> 0]
  /\ req = [q \in Request |-> Idle]

\* recomputed_balance_cents and cash_held_cents, over the stored entries.
Book(l) == log[l].earned - log[l].paid - log[l].collected + log[l].remitted
Held(l) ==
  LET net == log[l].collected - log[l].remitted
  IN  IF net > 0 THEN net ELSE 0

-----------------------------------------------------------------------------
(* Reads.  find_open is two SELECTs, the row and then its entries.  A      *)
(* courier with no row for the week gets a fresh ledger in memory, whose   *)
(* version and balance are 0 like those of the row not yet there.          *)

Open(l) == [ledger |-> l, row |-> row[l]]

Begin(q, writer) ==
  /\ req[q] = Idle
  /\ req' = [req EXCEPT ![q] = writer]
  /\ UNCHANGED <<week, row, log, entries>>

Continue(q) ==
  /\ req' = [req EXCEPT ![q].step = "save"]
  /\ UNCHANGED <<week, row, log, entries>>

\* The writer ends without writing: it had nothing to do, its transaction was
\* refused or failed, or the process died under it.
Drop(q) ==
  /\ req[q] # Idle
  /\ req' = [req EXCEPT ![q] = Idle]
  /\ UNCHANGED <<week, row, log, entries>>

\* credit_courier and remit_cash write to the current week, whatever week the
\* job was taken in; run_payout takes the week the operator names.  The entries
\* a credit reads are only sent back to an INSERT that ignores them, so its
\* second SELECT is not a step here.
BeginCredit(q, c, j, pay) ==
  Begin(q, [op |-> "credit", step |-> "check", in |-> Open(<<c, week>>),
            job |-> j, pay |-> pay])

BeginRemit(q, c, amount) ==
  Begin(q, [op |-> "remit", step |-> "entries", in |-> Open(<<c, week>>),
            amount |-> amount])

BeginPayout(q, l) ==
  /\ row[l].version > 0
  /\ Begin(q, [op |-> "payout", step |-> "entries", in |-> Open(l)])

\* entry_exists_for_job: over every period, in the store.
IsCredited(c, j) == \E k \in Kind : entries[<<c, k, j>>] > 0

CheckCredited(q) ==
  /\ req[q] # Idle
  /\ req[q].op = "credit" /\ req[q].step = "check"
  /\ ~IsCredited(req[q].in.ledger[1], req[q].job)
  /\ Continue(q)

\* Mutant: remit_cash before its guard, "which mints balance out of nothing".
CheckHeld_NoLimit(q) ==
  /\ req[q] # Idle
  /\ req[q].op = "remit" /\ req[q].step = "entries"
  /\ Continue(q)

\* A courier hands back no more than the entries say they hold.
CheckHeld(q) ==
  /\ req[q] # Idle
  /\ req[q].op = "remit" /\ req[q].step = "entries"
  /\ req[q].amount <= Held(req[q].in.ledger)
  /\ Continue(q)

\* Mutant: payout_disposition looks at the balance only.
CheckOwed_IgnoresCash(q) ==
  /\ req[q] # Idle
  /\ req[q].op = "payout" /\ req[q].step = "entries"
  /\ req[q].in.row.balance > 0
  /\ Continue(q)

\* payout_disposition is Pay: no cash held, and a positive balance.
CheckOwed(q) ==
  /\ req[q] # Idle
  /\ req[q].op = "payout" /\ req[q].step = "entries"
  /\ Held(req[q].in.ledger) = 0
  /\ req[q].in.row.balance > 0
  /\ Continue(q)

-----------------------------------------------------------------------------
(* Saves.  append moved the balance and added 1 to the version for every   *)
(* entry.  The upsert takes the row when its version is below the new one; *)
(* a fresh ledger has a new id, so for it an existing row is a violation   *)
(* of uq_courier_ledger_period instead.                                    *)

\* Mutant: `version <= EXCLUDED.version'.
Accepts_OrSame(in, n) ==
  IF in.row.version = 0
  THEN row[in.ledger].version = 0
  ELSE row[in.ledger].version <= in.row.version + n

Accepts(in, n) ==
  IF in.row.version = 0
  THEN row[in.ledger].version = 0
  ELSE row[in.ledger].version < in.row.version + n

Save(q, n, cents) ==
  LET in == req[q].in
  IN  /\ Accepts(in, n)
      /\ row' = [row EXCEPT ![in.ledger] =
           [version |-> in.row.version + n, balance |-> in.row.balance + cents]]
      /\ req' = [req EXCEPT ![q] = Idle]
      /\ UNCHANGED week

\* uq_courier_ledger_entry_job refuses a second entry of a kind for the job.
NewEntries(q) ==
  {<<req[q].in.ledger[1], k, req[q].job>> : k \in Posted(req[q].pay)}
Unrecorded(q) == \A e \in NewEntries(q) : entries[e] = 0

\* Mutant: entry_exists_for_job alone, without the index behind it.
SaveCredit_NoIndex(q) ==
  /\ req[q] # Idle
  /\ req[q].op = "credit" /\ req[q].step = "save"
  /\ LET pay == req[q].pay
         new == NewEntries(q)
     IN  /\ Save(q, Cardinality(Posted(pay)), Earned(pay) - pay["cod_collected"])
         /\ log' = [log EXCEPT ![req[q].in.ledger].earned = @ + Earned(pay),
                               ![req[q].in.ledger].collected = @ + pay["cod_collected"]]
         /\ entries' = [e \in DOMAIN entries |->
                          IF e \in new THEN entries[e] + 1 ELSE entries[e]]

SaveCredit(q) ==
  /\ req[q] # Idle
  /\ req[q].op = "credit" /\ req[q].step = "save"
  /\ LET pay == req[q].pay
         new == NewEntries(q)
     IN  /\ Unrecorded(q)
         /\ Save(q, Cardinality(Posted(pay)), Earned(pay) - pay["cod_collected"])
         /\ log' = [log EXCEPT ![req[q].in.ledger].earned = @ + Earned(pay),
                               ![req[q].in.ledger].collected = @ + pay["cod_collected"]]
         /\ entries' = [e \in DOMAIN entries |->
                          IF e \in new THEN entries[e] + 1 ELSE entries[e]]

SaveRemit(q) ==
  /\ req[q] # Idle
  /\ req[q].op = "remit" /\ req[q].step = "save"
  /\ Save(q, 1, req[q].amount)
  /\ log' = [log EXCEPT ![req[q].in.ledger].remitted = @ + req[q].amount]
  /\ UNCHANGED entries

\* Mutant: the payout is added to the balance, not taken from what is paid.
SavePayout_WrongSign(q) ==
  /\ req[q] # Idle
  /\ req[q].op = "payout" /\ req[q].step = "save"
  /\ Save(q, 1, req[q].in.row.balance)
  /\ log' = [log EXCEPT ![req[q].in.ledger].paid = @ - req[q].in.row.balance]
  /\ UNCHANGED entries

\* record_payout posts the whole balance that was read.
SavePayout(q) ==
  /\ req[q] # Idle
  /\ req[q].op = "payout" /\ req[q].step = "save"
  /\ Save(q, 1, -req[q].in.row.balance)
  /\ log' = [log EXCEPT ![req[q].in.ledger].paid = @ + req[q].in.row.balance]
  /\ UNCHANGED entries

NextWeek ==
  /\ week < LastPeriod
  /\ week' = week + 1
  /\ UNCHANGED <<row, log, entries, req>>

-----------------------------------------------------------------------------
Write(q) == SaveCredit(q) \/ SaveRemit(q) \/ SavePayout(q)

Next ==
  \/ \E q \in Request, c \in Courier :
       \/ \E j \in Job, pay \in Pay : BeginCredit(q, c, j, pay)
       \/ \E amount \in Amount : BeginRemit(q, c, amount)
  \/ \E q \in Request, l \in Ledger : BeginPayout(q, l)
  \/ \E q \in Request :
       \/ CheckCredited(q) \/ CheckHeld(q) \/ CheckOwed(q)
       \/ Write(q) \/ Drop(q)
  \/ NextWeek

Spec == Init /\ [][Next]_vars
-----------------------------------------------------------------------------
(* Correctness. *)

\* entry_exists_for_job is asked before the save and of a moving table, and a
\* retry may arrive in another week.  Still no job is credited twice: of every
\* kind the table holds at most one entry per courier and job, over all weeks.
CreditedOnce == \A e \in DOMAIN entries : entries[e] <= 1

\* The money rail acts on a row and on entries it read earlier.  What commits
\* is nevertheless decided on the present: a payout pays the whole balance of
\* the row as it stands, only while that is positive and the ledger holds no
\* cash, and leaves nothing for the next run to pay again.
PayoutIsCurrent ==
  [][\A l \in Ledger :
       log'[l].paid # log[l].paid =>
         /\ Held(l) = 0
         /\ row[l].balance > 0
         /\ log'[l].paid = log[l].paid + row[l].balance
         /\ row'[l].balance = 0]_vars

\* The guard of remit_cash, under double taps: no interleaving hands back more
\* cash than was collected, the "self-serve withdrawal" its comment describes.
RemittedWasCollected == \A l \in Ledger : log[l].remitted <= log[l].collected

\* "a denormalised balance that is always their sum" (ledger.rs).
BalanceIsSum == \A l \in Ledger : row[l].balance = Book(l)

\* The courier's jobs are credited by one entry each: a trip without a tip and
\* prepaid, or cash for a product that pays the trip elsewhere.
SingleEntries(c) ==
  \A j \in Job : \A k1, k2 \in Kind :
    entries[<<c, k1, j>>] > 0 /\ entries[<<c, k2, j>>] > 0 => k1 = k2

\* The version gate compares with the NEW version, so a writer that appends
\* several entries outruns it (BalanceIsSum fails).  As long as a courier's
\* credits are single entries, which is what the gate was written for, every
\* interleaving leaves their balance the sum of their log.
SinglesBalanceIsSum ==
  \A l \in Ledger : SingleEntries(l[1]) => row[l].balance = Book(l)

\* ... and no overlap of payout runs, credits and remittances pays such a
\* courier more than they earned.
SinglesNeverOverpaid ==
  \A l \in Ledger : SingleEntries(l[1]) => log[l].paid <= log[l].earned

\* The promise to the courier: CourierAccount, read off the tables.  Whatever
\* overlaps, each writer that commits did what it would have done alone.
Account == INSTANCE CourierAccount WITH balance <- [l \in Ledger |-> row[l].balance]

ImplementsAccount == Account!Spec
=============================================================================
