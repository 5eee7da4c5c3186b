---------------------------- MODULE CourierAccount ----------------------------
(***************************************************************************)
(* What field-ops promises a courier of their money: the ledgers as if     *)
(* every credit, remittance and payout ran alone, from its decision to its *)
(* last write.  Nobody reads early, waits or is refused here, and there is *)
(* no version.                                                             *)
(*                                                                         *)
(* One thing the code does not promise is not promised: after a credit of  *)
(* several entries the balance may be anything, because such a credit may  *)
(* be saved over a row it did not read (BalanceIsSum of CourierLedger).    *)
(* The log and the entries are exact even then.                            *)
(***************************************************************************)
EXTENDS Integers

CONSTANTS
  Job,      \* the products' job ids
  Kind,     \* the kinds of entry that name a job
  Ledger,   \* a courier and a week
  Pay,      \* what an offer may declare: cents per kind of entry
  Amount    \* what a courier may hand back in one remittance

VARIABLES
  balance,  \* [Ledger -> cents owed to the courier]
  log,      \* [Ledger -> sums of the entries, by what they did]
  entries   \* [<<courier, kind, job>> -> number of entries in the table]

accountVars == <<balance, log, entries>>

Init ==
  /\ balance = [l \in Ledger |-> 0]
  /\ log = [l \in Ledger |-> [earned |-> 0, paid |-> 0, collected |-> 0, remitted |-> 0]]
  /\ \A e \in DOMAIN entries : entries[e] = 0

\* cash_held_cents is never negative: no more was remitted than collected.
HoldsNoCash(l) == log[l].collected <= log[l].remitted

Posted(c, j, pay) == {<<c, k, j>> : k \in {k \in Kind : pay[k] > 0}}
Earned(pay) == pay["trip_earning"] + pay["tip"]

\* A credit is of a job that has no such entry yet, in any week.
Credit(l, j, pay) ==
  LET new == Posted(l[1], j, pay)
  IN  /\ \A e \in new : entries[e] = 0
      /\ entries' = [e \in DOMAIN entries |-> IF e \in new THEN 1 ELSE entries[e]]
      /\ log' = [log EXCEPT ![l].earned = @ + Earned(pay),
                            ![l].collected = @ + pay["cod_collected"]]
      /\ balance' = [balance EXCEPT ![l] =
           IF \E e \in new : new = {e}
           THEN @ + Earned(pay) - pay["cod_collected"]
           ELSE balance'[l]]

\* A courier hands back no more than they hold.
Remit(l, amount) ==
  /\ log[l].remitted + amount <= log[l].collected
  /\ log' = [log EXCEPT ![l].remitted = @ + amount]
  /\ balance' = [balance EXCEPT ![l] = @ + amount]
  /\ UNCHANGED entries

\* A payout pays all that is owed, once the courier holds no cash.
Payout(l) ==
  /\ HoldsNoCash(l)
  /\ balance[l] > 0
  /\ log' = [log EXCEPT ![l].paid = @ + balance[l]]
  /\ balance' = [balance EXCEPT ![l] = 0]
  /\ UNCHANGED entries

Next ==
  \E l \in Ledger :
    \/ \E j \in Job, pay \in Pay : Credit(l, j, pay)
    \/ \E amount \in Amount : Remit(l, amount)
    \/ Payout(l)

Spec == Init /\ [][Next]_accountVars
=============================================================================
