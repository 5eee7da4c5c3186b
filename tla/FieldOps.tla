------------------------------- MODULE FieldOps -------------------------------
(***************************************************************************)
(* The platform tier as its two halves meet: mark_delivered completes the  *)
(* assignment (CourierDispatch), credits the courier (CourierLedger), and  *)
(* only then publishes and answers.  The two tables are saved in separate  *)
(* transactions, so the request can stop between them; the courier's       *)
(* remittances and the operator's payouts write the same ledger meanwhile. *)
(***************************************************************************)
EXTENDS Integers, FiniteSets

CONSTANTS
  Courier, Job, Round, Request, Report, Fanout, PayingJob, Mortal, NoRow, Free,
  Pay, Amount, LastPeriod, Idle,
  Declared,   \* [PayingJob -> Pay], the amounts every offer of a job carries
  Teller      \* writers of the ledger that come from no delivery

ASSUME ReportAssumption    == Report \subseteq {"arrived", "collected"}
ASSUME PayingJobAssumption == PayingJob \subseteq Job
ASSUME DeclaredAssumption  == Declared \in [PayingJob -> Pay]
ASSUME TellerAssumption    == Teller \cap Request = {}

VARIABLES
  status, selected, pc, target, published,   \* CourierDispatch
  week, row, log, entries, req,              \* CourierLedger
  acked    \* assignments whose courier was answered 200 to "delivered"

dispatchVars == <<status, selected, pc, target, published>>
ledgerVars   == <<week, row, log, entries, req>>
vars         == <<dispatchVars, ledgerVars, acked>>

Dispatch == INSTANCE CourierDispatch
Ledger   == INSTANCE CourierLedger WITH Request <- Request \cup Teller

\* mark_delivered calls credit_courier only when some amount is positive.
ASSUME PayAssumption ==
  Pay \subseteq {pay \in [Ledger!Kind -> Nat] : \E k \in Ledger!Kind : pay[k] > 0}

Init ==
  /\ Dispatch!Init
  /\ Ledger!Init
  /\ acked = {}

-----------------------------------------------------------------------------
(* Steps that touch one half only. *)

DispatchAlone ==
  /\ \/ \E j \in Job, n \in Round, candidates \in SUBSET Courier :
          Dispatch!Offer(j, n, candidates)
     \/ \E j \in Job, n \in Round : Dispatch!AbandonOffer(j, n)
     \/ \E r \in Dispatch!Row : Dispatch!SaveOffer(r)
     \/ \E q \in Request, r \in Dispatch!Row :
          \/ Dispatch!TryClaim(q, r) \/ Dispatch!ReadDelivery(q, r)
          \/ \E m \in Report : Dispatch!ReadMilestone(q, r, m)
     \/ \E q \in Request :
          \/ Dispatch!ExpireOtherOffers(q) \/ Dispatch!ExpireFails(q)
          \/ Dispatch!AnnounceClaim(q) \/ \E m \in Report : Dispatch!PublishMilestone(q, m)
          \/ Dispatch!Complete(q)
          \/ pc[q] # "credit" /\ Dispatch!Die(q)
  /\ UNCHANGED <<ledgerVars, acked>>

LedgerAlone ==
  /\ \/ \E t \in Teller :
          \/ \E c \in Courier, amount \in Amount : Ledger!BeginRemit(t, c, amount)
          \/ \E l \in Ledger!Ledger : Ledger!BeginPayout(t, l)
          \/ Ledger!CheckHeld(t) \/ Ledger!CheckOwed(t)
          \/ Ledger!SaveRemit(t) \/ Ledger!SavePayout(t) \/ Ledger!Drop(t)
     \/ \E q \in Request : Ledger!CheckCredited(q)
     \/ Ledger!NextWeek
  /\ UNCHANGED <<dispatchVars, acked>>

-----------------------------------------------------------------------------
(* The credit inside mark_delivered. *)

StartCredit(q) ==
  LET c == Dispatch!Who(target[q])
      j == Dispatch!What(target[q])
  IN  /\ pc[q] = "credit"
      /\ Ledger!BeginCredit(q, c, j, Declared[j])
      /\ UNCHANGED <<dispatchVars, acked>>

\* credit_courier saved its entries.
CreditSaved(q) ==
  /\ Ledger!SaveCredit(q)
  /\ Dispatch!Credited(q)
  /\ UNCHANGED acked

\* entry_exists_for_job answered yes: the job was paid before, Ok.
CreditRepeated(q) ==
  /\ req[q] # Idle /\ req[q].step = "check"
  /\ Ledger!IsCredited(req[q].in.ledger[1], req[q].job)
  /\ Ledger!Drop(q)
  /\ Dispatch!Credited(q)
  /\ UNCHANGED acked

\* The save was refused, because another writer got there first: the `?' of
\* mark_delivered answers 500.  The assignment stays completed.
CreditRefused(q) ==
  /\ req[q] # Idle /\ req[q].step = "save"
  /\ \/ ~Ledger!Unrecorded(q)
     \/ ~Ledger!Accepts(req[q].in, Cardinality(Ledger!Posted(req[q].pay)))
  /\ Ledger!Drop(q)
  /\ Dispatch!Answer(q)
  /\ UNCHANGED <<status, selected, published, acked>>

\* The request dies before or inside the credit.
CreditDies(q) ==
  /\ pc[q] = "credit"
  /\ Dispatch!Die(q)
  /\ IF req[q] = Idle THEN UNCHANGED ledgerVars ELSE Ledger!Drop(q)
  /\ UNCHANGED acked

\* Published, and answered 200.
Acknowledge(q) ==
  /\ Dispatch!PublishDelivery(q)
  /\ acked' = acked \cup {target[q]}
  /\ UNCHANGED ledgerVars

\* A repeated "delivered" finds the row completed: answered 200 at once.
AckRepeat(r) ==
  /\ status[r] = "completed"
  /\ acked' = acked \cup {r}
  /\ UNCHANGED <<dispatchVars, ledgerVars>>

Next ==
  \/ DispatchAlone
  \/ LedgerAlone
  \/ \E q \in Request :
       \/ StartCredit(q) \/ CreditSaved(q) \/ CreditRepeated(q)
       \/ CreditRefused(q) \/ CreditDies(q) \/ Acknowledge(q)
  \/ \E r \in Dispatch!Row : AckRepeat(r)

Spec == Init /\ [][Next]_vars
-----------------------------------------------------------------------------
(* Correctness. *)

\* "Publishing first would tell OmniDeliv the job is done while the courier is
\* unpaid, and nothing downstream would notice": what the products hear as
\* delivered is in the courier's ledger, whoever else writes it meanwhile.
DeliveredImpliesCredited ==
  \A c \in Courier, j \in PayingJob :
    <<"delivered", c, j>> \in published => Ledger!IsCredited(c, j)

\* A courier is paid for a job, and charged with its cash, only when the job is
\* on record as completed by them; and it is on record before any pay moves.
CreditedImpliesCompleted ==
  /\ \A c \in Courier, j \in Job :
       Ledger!IsCredited(c, j) => \E n \in Round : status[<<c, j, n>>] = "completed"
  /\ \A q \in Request : req[q] # Idle => status[target[q]] = "completed"

\* mark_delivered: "A failed credit surfaces as an error the caller retries",
\* and a repeat is accepted because "the milestone already landed".  So once a
\* courier has been answered, and no request is still at work on it, they are paid.
AckedImpliesCredited ==
  \A r \in acked :
    /\ Dispatch!What(r) \in PayingJob
    /\ \A q \in Request : target[q] # r
    => Ledger!IsCredited(Dispatch!Who(r), Dispatch!What(r))

\* Each half, as the other one lets it run: a credit that is refused ends its
\* request, so to the assignments every delivery that pays may end early.
Half == INSTANCE CourierDispatch WITH Mortal <- Request

\* The delivery is nothing but a step of one half, or of both at once, so what
\* holds of the assignments and of the ledger alone holds of them together.
ImplementsHalves == Half!Spec /\ Ledger!Spec
=============================================================================
