------------------------------ MODULE OmniOrder ------------------------------
(***************************************************************************)
(* omnideliv: one delivery order from checkout to the door.  Its row and   *)
(* the rows of its legs are written by                                     *)
(*   - checkout, once;                                                     *)
(*   - the courier consumer (CourierMilestoneHandler) and the payment      *)
(*     consumer, which read the whole order, call other services, and save *)
(*     the whole order back;                                               *)
(*   - the recovery sweep, which does the same without the legs;           *)
(*   - the stores' tablets, one conditional UPDATE of one leg each.        *)
(* Between a read and its save the others run.  `job' and `intent' are the *)
(* order's share of field-ops and of payments, which do whatever their     *)
(* contracts, CourierFeed and PaymentHold, let them do.                    *)
(***************************************************************************)
EXTENDS Integers, Sequences, FiniteSets

CONSTANTS
  Vendor,       \* the stores of the basket: one leg each
  MaxCash,      \* bounds the milestones field-ops publishes of a cash order
  MaxOnline,    \* and of an order paid online
  MaxFault      \* bounds the faults: failed calls, restarts

ASSUME MilestoneAssumption == MaxCash \in Nat /\ MaxOnline \in Nat
ASSUME FaultAssumption     == MaxFault \in Nat

OrderStatus   == {"placed", "awaiting_courier", "collecting", "delivering",
                  "delivered", "cancelled"}
PaymentStatus == {"pending", "authorized", "captured", "voided", "failed"}
\* Nothing in the service moves a leg to preparing, failed or settled.
LegStatus     == {"pending", "accepted", "ready", "picked_up", "served", "rejected"}
Milestone     == [kind : {"assigned", "arrived", "delivered"}]
                   \cup [kind : {"collected"}, vendor : Vendor]
Notice        == {"authorized", "failed"}  \* payment.intent.*

VARIABLES
  method,     \* "cod" or "online"
  checkout,   \* "open", "unsaved" (side effects done), "done" or "lost"
  order,      \* [status, pay], the row in omnideliv.orders once checkout is done
  legs,       \* [Vendor -> LegStatus], omnideliv.order_vendor_legs
  credits,    \* [Vendor -> Nat], goods credits of this order's leg in the ledgers
  courier,    \* the courier consumer: what it is handling, and what it read
  payment,    \* the payment consumer, likewise
  sweep,      \* the recovery sweep: what it does next with what it read
  position,   \* how many milestones the courier consumer is past
  noticed,    \* the notices the payment consumer is past
  faults,     \* calls that failed and restarts, so far
  cut,        \* [Vendor -> Nat], credits whose order save never happened (ghost)
  job,        \* [offered, claimed, finished], field-ops' side
  milestones, \* what field-ops published about this order, in order
  intent,     \* the status of the payment intent in payments
  notices     \* what payments published about the intent

orderVars   == <<checkout, order, legs>>
serviceVars == <<courier, payment, sweep, position, noticed>>
fieldOps    == <<job, milestones>>
payments    == <<intent, notices>>
vars == <<method, orderVars, credits, serviceVars, faults, cut, fieldOps, payments>>

Feed == INSTANCE CourierFeed WITH
          offered <- job.offered, claimed <- job.claimed, finished <- job.finished,
          said <- {milestones[i].kind : i \in DOMAIN milestones}

\* Its conflicting saves are left out: `broken' is never the case.
Hold == INSTANCE PaymentHold WITH
          action <- "authorize", hold <- intent, heard <- notices, broken <- FALSE

Idle == [at |-> "idle"]
Order == [status : OrderStatus, pay : PaymentStatus]

TypeOK ==
  /\ method \in {"cod", "online"}
  /\ checkout \in {"open", "unsaved", "done", "lost"}
  /\ order \in Order
  /\ legs \in [Vendor -> LegStatus]
  /\ credits \in [Vendor -> Nat] /\ cut \in [Vendor -> Nat]
  /\ courier = Idle \/ courier \in
       [at : {"legs", "capture", "credit", "save"}, order : Order,
        legs : [Vendor -> LegStatus]]
  /\ payment = Idle \/ payment \in
       [at : {"legs", "offer", "save"}, notice : Notice, order : Order,
        legs : [Vendor -> LegStatus]]
  /\ sweep \in [at : {"idle", "offer", "void", "save"}]
  /\ milestones \in Seq(Milestone)
  /\ position \in 0 .. Len(milestones)
  /\ noticed \subseteq notices
  /\ faults \in 0 .. MaxFault
  /\ job \in [offered : BOOLEAN, claimed : BOOLEAN, finished : BOOLEAN]
  /\ intent \in {"none", "pending", "authorized", "captured", "voided", "failed"}
  /\ notices \subseteq Notice

Init ==
  /\ method \in {"cod", "online"}
  /\ checkout = "open"
  /\ order = [status |-> "placed", pay |-> "pending"]
  /\ legs = [v \in Vendor |-> "pending"]
  /\ credits = [v \in Vendor |-> 0] /\ cut = [v \in Vendor |-> 0]
  /\ courier = Idle /\ payment = Idle /\ sweep = Idle
  /\ position = 0
  /\ noticed = {}
  /\ faults = 0
  /\ job = [offered |-> FALSE, claimed |-> FALSE, finished |-> FALSE]
  /\ milestones = <<>>
  /\ intent = "none"
  /\ notices = {}

Works == UNCHANGED faults
Fails == faults < MaxFault /\ faults' = faults + 1

-----------------------------------------------------------------------------
(* Checkout.  Its side effect comes first: the offer of a cash order, the  *)
(* payment session of an online one.  The order is saved after it, and if  *)
(* that fails nothing takes the side effect back.                          *)

Place ==
  /\ checkout = "open"
  /\ checkout' = "unsaved"
  /\ IF method = "cod"
     THEN /\ job' = [job EXCEPT !.offered = TRUE]
          /\ order' = [order EXCEPT !.status = "awaiting_courier"]
          /\ UNCHANGED intent
     ELSE /\ Hold!Open
          /\ UNCHANGED <<job, order>>
  /\ UNCHANGED <<method, legs, credits, serviceVars, faults, cut, milestones, notices>>

SaveOrder ==
  /\ checkout = "unsaved"
  /\ checkout' = "done"
  /\ UNCHANGED <<method, order, legs, credits, serviceVars, faults, cut, fieldOps, payments>>

SaveOrderFails ==
  /\ Fails
  /\ checkout = "unsaved"
  /\ checkout' = "lost"
  /\ UNCHANGED <<method, order, legs, credits, serviceVars, cut, fieldOps, payments>>

-----------------------------------------------------------------------------
(* The stores' tablets: a conditional UPDATE whose predicate is the        *)
(* transition graph of the domain.  The routes do not look at the order.   *)

CanTransition(from, to) ==
  <<from, to>> \in {<<"pending", "accepted">>, <<"pending", "rejected">>,
                    <<"accepted", "ready">>, <<"ready", "picked_up">>,
                    <<"ready", "served">>}

Act(v, to) ==
  /\ checkout = "done"
  /\ to \in {"accepted", "rejected", "ready", "served"}
  /\ CanTransition(legs[v], to)
  /\ legs' = [legs EXCEPT ![v] = to]
  /\ UNCHANGED <<method, checkout, order, credits, serviceVars, faults, cut, fieldOps, payments>>

-----------------------------------------------------------------------------
(* field-ops, as far as CourierFeed tells: any courier may win the job     *)
(* once it is offered, more than one included, and a milestone may come    *)
(* late, again, out of order or never.  It is never told that an order was *)
(* cancelled.  A milestone is published here when the consumer is ready to *)
(* read it: nothing else reads the topic, so one that waited there is not  *)
(* told from one that came late.                                           *)

Claim ==
  /\ job.offered /\ ~job.claimed
  /\ job' = [job EXCEPT !.claimed = TRUE]
  /\ UNCHANGED <<method, orderVars, credits, serviceVars, faults, cut, milestones, payments>>

Complete ==
  /\ job.claimed /\ ~job.finished
  /\ job' = [job EXCEPT !.finished = TRUE]
  /\ UNCHANGED <<method, orderVars, credits, serviceVars, faults, cut, milestones, payments>>

Report(m) ==
  /\ Feed!MaySay(m.kind)
  /\ position = Len(milestones)
  /\ Len(milestones) < IF method = "cod" THEN MaxCash ELSE MaxOnline
  /\ milestones' = Append(milestones, m)
  /\ UNCHANGED <<method, orderVars, credits, serviceVars, faults, cut, job, payments>>

-----------------------------------------------------------------------------
(* payments, as far as PaymentHold tells.  The customer only has the page  *)
(* once checkout answered; a notice may come late or never.                *)

Authorized ==
  /\ checkout = "done"
  /\ Hold!Authorize
  /\ UNCHANGED <<method, orderVars, credits, serviceVars, faults, cut, fieldOps>>

Failed ==
  /\ intent = "pending"
  /\ Hold!Fail
  /\ UNCHANGED <<method, orderVars, credits, serviceVars, faults, cut, fieldOps>>

Notify(n) ==
  /\ Hold!Say(n)
  /\ UNCHANGED <<method, orderVars, credits, serviceVars, faults, cut, fieldOps>>

-----------------------------------------------------------------------------
(* The courier consumer.  One milestone at a time, in order: find_by_id    *)
(* (two SELECTs), the handler, save.  An error is logged and the message   *)
(* skipped: its offset is committed with that of any later message, of     *)
(* this order or of another one in the partition.                          *)

Current == milestones[position + 1]

Finish == /\ courier' = Idle
          /\ position' = position + 1

\* A milestone of an order that is not there is acknowledged.
UnknownOrder ==
  /\ courier = Idle
  /\ position < Len(milestones)
  /\ checkout # "done"
  /\ Finish
  /\ UNCHANGED <<method, orderVars, credits, payment, sweep, noticed, faults, cut,
                 fieldOps, payments>>

Read ==
  /\ courier = Idle
  /\ position < Len(milestones)
  /\ checkout = "done"
  /\ courier' = [at |-> "legs", order |-> order, legs |-> [v \in Vendor |-> "pending"]]
  /\ UNCHANGED <<method, orderVars, credits, payment, sweep, position, noticed,
                 faults, cut, fieldOps, payments>>

\* The leg still owes the courier something.
\* Mutant: a count of Pending legs, as it once was.
BlocksCollection_Pending(leg) == leg = "pending"

BlocksCollection(leg) == leg \in {"pending", "accepted", "ready"}

AllLegsCollected(status, l) ==
  /\ status = "collecting"
  /\ \A v \in Vendor : ~BlocksCollection(l[v])
  /\ \E v \in Vendor : l[v] = "picked_up"

Then(at, o, l) == /\ courier' = [at |-> at, order |-> o, legs |-> l]
                  /\ UNCHANGED position

\* Mutant: courier_claimed from any status.
CourierClaimed_Anywhere(o) ==
  Then(IF method = "online" /\ o.pay = "authorized" THEN "capture" ELSE "save",
       [o EXCEPT !.status = "collecting"], legs)

\* An Err of courier_claimed ends the handler, a repeat is a no-op.
CourierClaimed(o) ==
  IF o.status \in {"placed", "awaiting_courier", "collecting"}
  THEN Then(IF method = "online" /\ o.pay = "authorized" THEN "capture" ELSE "save",
            [o EXCEPT !.status = "collecting"], legs)
  ELSE Finish

\* Mutant: without the early return for a leg that is not awaiting collection.
LegCollected_Again(o, v) ==
  Then("credit", o, [legs EXCEPT ![v] = "picked_up"])

LegCollected(o, v) ==
  IF BlocksCollection(legs[v])
  THEN Then("credit", o, [legs EXCEPT ![v] = "picked_up"])
  ELSE Finish

ApplyDelivered(o) ==
  IF o.status = "delivering"
  THEN Then("save", [o EXCEPT !.status = "delivered"], legs)
  ELSE Finish

Handle ==
  /\ courier.at = "legs"
  /\ \/ Current.kind = "assigned"  /\ CourierClaimed(courier.order)
     \/ Current.kind = "arrived"   /\ Then("save", courier.order, legs)
     \/ Current.kind = "collected" /\ LegCollected(courier.order, Current.vendor)
     \/ Current.kind = "delivered" /\ ApplyDelivered(courier.order)
  /\ UNCHANGED <<method, orderVars, credits, payment, sweep, noticed, faults, cut,
                 fieldOps, payments>>

Capture ==
  /\ courier.at = "capture"
  /\ Hold!Capture
  /\ Then("save", [courier.order EXCEPT !.pay = "captured"], courier.legs)
  /\ UNCHANGED <<method, orderVars, credits, payment, sweep, noticed, faults, cut, fieldOps>>

\* Refused, for what the intent is or for the sweep's claim on it; failed; or
\* captured with the answer lost.
CaptureFails ==
  /\ courier.at = "capture"
  /\ \/ Works /\ (intent # "authorized" \/ sweep.at = "void") /\ UNCHANGED payments
     \/ Fails /\ UNCHANGED payments
     \/ Fails /\ Hold!Capture
  /\ Finish
  /\ UNCHANGED <<method, orderVars, credits, payment, sweep, noticed, cut, fieldOps>>

Collected(o, l) ==
  [o EXCEPT !.status = IF AllLegsCollected(@, l) THEN "delivering" ELSE @]

\* credit_vendor: one transaction on the vendor's ledger, before the order moves.
CreditVendor ==
  /\ courier.at = "credit"
  /\ credits' = [credits EXCEPT ![Current.vendor] = @ + 1]
  /\ Then("save", Collected(courier.order, courier.legs), courier.legs)
  /\ UNCHANGED <<method, orderVars, payment, sweep, noticed, faults, cut, fieldOps,
                 payments>>

\* Mutant: a failed credit is logged and the collection goes on.
CreditFails_Ignored ==
  /\ Fails
  /\ courier.at = "credit"
  /\ Then("save", Collected(courier.order, courier.legs), courier.legs)
  /\ UNCHANGED <<method, orderVars, credits, payment, sweep, noticed, cut,
                 fieldOps, payments>>

CreditFails ==
  /\ Fails
  /\ courier.at = "credit"
  /\ Finish
  /\ UNCHANGED <<method, orderVars, credits, payment, sweep, noticed, cut,
                 fieldOps, payments>>

Save ==
  /\ courier.at = "save"
  /\ order' = courier.order
  /\ legs' = courier.legs
  /\ Finish
  /\ UNCHANGED <<method, checkout, credits, payment, sweep, noticed, faults, cut,
                 fieldOps, payments>>

\* The ghost `cut' counts a credit whose order is not saved.
Cut == cut' = IF courier.at = "save" /\ Current.kind = "collected"
              THEN [cut EXCEPT ![Current.vendor] = @ + 1]
              ELSE cut

SaveFails ==
  /\ Fails
  /\ courier.at = "save"
  /\ Finish
  /\ Cut
  /\ UNCHANGED <<method, orderVars, credits, payment, sweep, noticed,
                 fieldOps, payments>>

-----------------------------------------------------------------------------
(* The payment consumer.  Its two topics are unordered between them.       *)

Noticed == /\ payment' = Idle
           /\ noticed' = noticed \cup {payment.notice}

PaymentThen(at, o, l) ==
  /\ payment' = [at |-> at, notice |-> payment.notice, order |-> o, legs |-> l]
  /\ UNCHANGED noticed

UnknownNotice(n) ==
  /\ payment = Idle
  /\ n \in notices \ noticed
  /\ checkout # "done"
  /\ noticed' = noticed \cup {n}
  /\ UNCHANGED <<method, orderVars, credits, courier, payment, sweep, position, faults,
                 cut, fieldOps, payments>>

ReadNotice(n) ==
  /\ payment = Idle
  /\ n \in notices \ noticed
  /\ checkout = "done"
  /\ payment' = [at |-> "legs", notice |-> n, order |-> order,
                 legs |-> [v \in Vendor |-> "pending"]]
  /\ UNCHANGED <<method, orderVars, credits, courier, sweep, position, noticed,
                 faults, cut, fieldOps, payments>>

HandleAuthorized(o) ==
  IF o.pay \in {"pending", "authorized"}
  THEN PaymentThen(IF o.status = "placed" THEN "offer" ELSE "save",
                   [o EXCEPT !.pay = "authorized"], legs)
  ELSE Noticed

HandleFailed(o) ==
  IF o.pay \in {"pending", "authorized"}
  THEN PaymentThen("save",
         [status |-> IF o.status = "delivered" THEN "delivered" ELSE "cancelled",
          pay    |-> "failed"], legs)
  ELSE Noticed

HandleNotice ==
  /\ payment.at = "legs"
  /\ \/ payment.notice = "authorized" /\ HandleAuthorized(payment.order)
     \/ payment.notice = "failed"     /\ HandleFailed(payment.order)
  /\ UNCHANGED <<method, orderVars, credits, courier, sweep, position, faults, cut,
                 fieldOps, payments>>

\* The offer reaches somebody or nobody; or it fails, with or without effect.
OfferCourier ==
  /\ payment.at = "offer"
  /\ \/ /\ job' = [job EXCEPT !.offered = TRUE]
        /\ PaymentThen("save", [payment.order EXCEPT !.status = "awaiting_courier"],
                       payment.legs)
        /\ Works
     \/ /\ UNCHANGED job
        /\ PaymentThen("save", payment.order, payment.legs)
        /\ Works
     \/ /\ Fails
        /\ Noticed
        /\ job' \in {job, [job EXCEPT !.offered = TRUE]}
  /\ UNCHANGED <<method, orderVars, credits, courier, sweep, position, cut,
                 milestones, payments>>

SaveNotice ==
  /\ payment.at = "save"
  /\ \/ Works /\ order' = payment.order /\ legs' = payment.legs
     \/ Fails /\ UNCHANGED <<order, legs>>
  /\ Noticed
  /\ UNCHANGED <<method, checkout, credits, courier, sweep, position, cut,
                 fieldOps, payments>>

-----------------------------------------------------------------------------
(* The recovery sweep.  It reads the orders no courier took, without their *)
(* legs, and then goes through them; its clocks are abstracted, so it may  *)
(* find any such order due.  A cash order is offered again, a hold voided  *)
(* and its order cancelled.                                                *)

SweepRead ==
  /\ sweep = Idle
  /\ checkout = "done"
  /\ order.status \in {"placed", "awaiting_courier"}
  /\ method = "cod" \/ order.pay = "authorized"
  /\ sweep' = [at |-> IF method = "cod" THEN "offer" ELSE "void"]
  /\ UNCHANGED <<method, orderVars, credits, courier, payment, position, noticed,
                 faults, cut, fieldOps, payments>>

SweepOffer ==
  /\ sweep.at = "offer"
  /\ sweep' = Idle
  /\ job' \in {job, [job EXCEPT !.offered = TRUE]}
  /\ UNCHANGED <<method, orderVars, credits, courier, payment, position, noticed,
                 faults, cut, milestones, payments>>

SweepVoid ==
  /\ sweep.at = "void"
  /\ Hold!Void
  /\ sweep' = [at |-> "save"]
  /\ UNCHANGED <<method, orderVars, credits, courier, payment, position, noticed,
                 faults, cut, fieldOps>>

\* Mutant: the refusal is logged and the order cancelled all the same.
SweepVoidFails_Ignored ==
  /\ sweep.at = "void"
  /\ intent # "authorized"
  /\ sweep' = [at |-> "save"]
  /\ UNCHANGED <<method, orderVars, credits, courier, payment, position, noticed,
                 faults, cut, fieldOps, payments>>

SweepVoidFails ==
  /\ sweep.at = "void"
  /\ \/ Works /\ (intent # "authorized" \/ courier.at = "capture") /\ UNCHANGED payments
     \/ Fails /\ UNCHANGED payments
     \/ Fails /\ Hold!Void
  /\ sweep' = Idle
  /\ UNCHANGED <<method, orderVars, credits, courier, payment, position, noticed,
                 cut, fieldOps>>

SweepSave ==
  /\ sweep.at = "save"
  /\ \/ Works /\ order' = [status |-> "cancelled", pay |-> "voided"]
     \/ Fails /\ UNCHANGED order
  /\ sweep' = Idle
  /\ UNCHANGED <<method, checkout, legs, credits, courier, payment, position, noticed,
                 cut, fieldOps, payments>>

-----------------------------------------------------------------------------
(* The service stops and comes back.  A consumer resumes from the offset   *)
(* committed last: commits are asynchronous, and those of other orders in  *)
(* the partition pass over what this one left behind, so that may be any   *)
(* point it has been past.                                                 *)

\* Mutant: auto-commit, of the message in hand too.
ResumeFrom_AutoCommit == 0 .. position + 1

ResumeFrom == 0 .. position

Restart ==
  /\ Fails
  /\ checkout' = IF checkout = "unsaved" THEN "lost" ELSE checkout
  /\ courier' = Idle /\ payment' = Idle /\ sweep' = Idle
  /\ position' \in ResumeFrom
  /\ noticed' \in SUBSET noticed
  /\ Cut
  /\ UNCHANGED <<method, order, legs, credits, fieldOps, payments>>

Next ==
  \/ Place \/ SaveOrder \/ SaveOrderFails
  \/ \E v \in Vendor, to \in LegStatus : Act(v, to)
  \/ Claim \/ Complete
  \/ \E m \in Milestone : Report(m)
  \/ Authorized \/ Failed
  \/ \E n \in Notice : Notify(n)
  \/ UnknownOrder \/ Read \/ Handle \/ Capture \/ CaptureFails
  \/ CreditVendor \/ CreditFails \/ Save \/ SaveFails
  \/ \E n \in Notice : UnknownNotice(n) \/ ReadNotice(n)
  \/ HandleNotice \/ OfferCourier \/ SaveNotice
  \/ SweepRead \/ SweepOffer \/ SweepVoid \/ SweepVoidFails \/ SweepSave
  \/ Restart

Spec == Init /\ [][Next]_vars

-----------------------------------------------------------------------------
(* Correctness. *)

\* "The customer must never be charged for a delivery nobody made": the sweep
\* that cancels an order races the courier's acceptance that captures its
\* payment, and whichever wins, a cancelled order was never captured.
CancelledNeverCharged ==
  checkout = "done" /\ order.status = "cancelled" => intent \in {"voided", "failed"}

\* "Advancing first would leave a delivered order whose vendor was never paid":
\* through failed credits, restarts and saves of older reads, goods recorded as
\* picked up are goods their store has been credited for.
PickedUpWasCredited ==
  \A v \in Vendor : legs[v] = "picked_up" => credits[v] > 0

\* "A redelivered event must not credit the vendor twice": for a cash order, a
\* second credit takes a first one whose save of the order did not happen.
CreditedOncePerCut ==
  method = "cod" => \A v \in Vendor : credits[v] <= 1 + cut[v]

\* Only resolved legs, one of them collected, make an order "delivering", even
\* while the stores answer: a delivered cash order left no goods on a counter.
DeliveredWasCollected ==
  method = "cod" /\ order.status \in {"delivering", "delivered"} =>
    /\ \A v \in Vendor : legs[v] \notin {"pending", "accepted", "ready"}
    /\ \E v \in Vendor : legs[v] = "picked_up"

\* A cash order only moves forward, whatever is skipped, repeated or re-offered.
CashOrderMovesForward ==
  [][method = "cod" /\ order'.status # order.status =>
       <<order.status, order'.status>> \in
         {<<"placed", "awaiting_courier">>, <<"awaiting_courier", "collecting">>,
          <<"collecting", "delivering">>, <<"delivering", "delivered">>}]_vars

\* "A captured, not merely authorized, order is required to ever reach
\* Collecting" (the sweep's reason to cancel what it read).
CollectingWasCaptured ==
  method = "online" /\ order.status \in {"collecting", "delivering", "delivered"}
    => intent = "captured"
=============================================================================
