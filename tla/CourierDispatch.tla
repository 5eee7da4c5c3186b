--------------------------- MODULE CourierDispatch ---------------------------
(***************************************************************************)
(* field-ops: offers, claims and milestones of courier assignments, one    *)
(* tenant.  The table courier_assignments is `status'; every HTTP request  *)
(* in flight is a member of Request that holds what it has already read    *)
(* (`pc', `target') while other requests run between its awaits.           *)
(*                                                                         *)
(* The identity of an assignment is the triple of the courier it is        *)
(* addressed to, the job, and the call of offer_to_nearest that made it:   *)
(* none of the three ever changes, and one call makes at most one row per  *)
(* courier.  The courier_id ownership checks of the handlers are therefore *)
(* true of every request considered here: only the addressee gets past     *)
(* them, the rest are answered 404 and change nothing.                     *)
(***************************************************************************)
EXTENDS Naturals, FiniteSets

CONSTANTS
  Courier,    \* the couriers of one tenant
  Job,        \* (product, external_ref) pairs
  Round,      \* calls of offer_to_nearest a job may see: bounds re-offers
  Request,    \* HTTP requests in flight at once: bounds concurrency
  Report,     \* the milestones that only inform: "arrived", "collected"
  Fanout,     \* the LIMIT of find_available_near
  PayingJob,  \* jobs whose offer declares trip pay, a tip or cash to collect
  Mortal,     \* requests that may die, or whose calls may fail, midway
  NoRow,      \* the target of an idle request
  Free        \* the courier carries nothing (CourierDuty)

Row == Courier \X Job \X Round

ASSUME ReportAssumption    == Report \subseteq {"arrived", "collected"}
ASSUME FanoutAssumption    == Fanout \in Nat
ASSUME PayingJobAssumption == PayingJob \subseteq Job
ASSUME MortalAssumption    == Mortal \subseteq Request
ASSUME NoRowAssumption     == NoRow \notin Row
ASSUME FreeAssumption      == Free \notin Job

Who(r)  == r[1]
What(r) == r[2]

\* "none" is a row that does not exist.  'released' exists in the column's
\* CHECK but nothing in the service ever writes it.
Status    == {"none", "offered", "claimed", "completed", "expired"}
Milestone == Report \cup {"assigned", "delivered"}

VARIABLES
  status,     \* [Row -> Status], courier_assignments.status
  selected,   \* rows an offer call has chosen but not saved yet
  pc,         \* [Request -> Step], the next await of each request
  target,     \* [Request -> Row or NoRow], the assignment it is about
  published   \* <<milestone, courier, job>> published on fieldops.courier

vars == <<status, selected, pc, target, published>>

Step == {"idle",
         "retire", "announce",              \* claim
         "arrived", "collected",            \* mark_arrived, mark_collected
         "complete", "credit", "delivered"} \* mark_delivered

TypeOK ==
  /\ status \in [Row -> Status]
  /\ selected \subseteq Row
  /\ pc \in [Request -> Step]
  /\ target \in [Request -> Row \cup {NoRow}]
  /\ \A q \in Request : (target[q] = NoRow) = (pc[q] = "idle")
  /\ published \subseteq (Milestone \X Courier \X Job)

Init ==
  /\ status = [r \in Row |-> "none"]
  /\ selected = {}
  /\ pc = [q \in Request |-> "idle"]
  /\ target = [q \in Request |-> NoRow]
  /\ published = {}

-----------------------------------------------------------------------------
(* A courier holds a live claim while a row of theirs is 'claimed'.        *)

HoldsClaim(c) == \E r \in Row : Who(r) = c /\ status[r] = "claimed"

(* Helpers of the request state machine. *)

Begin(q, r, step) ==
  /\ pc[q] = "idle"
  /\ pc' = [pc EXCEPT ![q] = step]
  /\ target' = [target EXCEPT ![q] = r]

Continue(q, from, to) ==
  /\ pc[q] = from
  /\ pc' = [pc EXCEPT ![q] = to]
  /\ UNCHANGED target

\* Mutant: the next request inherits what this one read.
Answer_KeepsTarget(q) ==
  /\ pc' = [pc EXCEPT ![q] = "idle"]
  /\ UNCHANGED target

Answer(q) ==
  /\ pc' = [pc EXCEPT ![q] = "idle"]
  /\ target' = [target EXCEPT ![q] = NoRow]

-----------------------------------------------------------------------------
(* offer_to_nearest.  The supply query picks at most Fanout couriers who   *)
(* hold no live claim; duty, suspension, compliance and distance are the   *)
(* subject of CourierRoster, so here any such couriers may be the nearest. *)
(* The rows are saved one await at a time, after the query, and the loop   *)
(* ends at the first save that fails.                                      *)

Offer(j, n, candidates) ==
  /\ \A c \in Courier : status[<<c, j, n>>] = "none" /\ <<c, j, n>> \notin selected
  /\ Cardinality(candidates) <= Fanout
  /\ \A c \in candidates : ~HoldsClaim(c)
  /\ selected' = selected \cup {<<c, j, n>> : c \in candidates}
  /\ UNCHANGED <<status, pc, target, published>>

SaveOffer(r) ==
  /\ r \in selected
  /\ status' = [status EXCEPT ![r] = "offered"]
  /\ selected' = selected \ {r}
  /\ UNCHANGED <<pc, target, published>>

AbandonOffer(j, n) ==
  /\ selected' = {r \in selected : What(r) # j \/ r[3] # n}
  /\ selected' # selected
  /\ UNCHANGED <<status, pc, target, published>>

-----------------------------------------------------------------------------
(* claim.  The compare-and-swap of try_claim is one UPDATE: it needs the   *)
(* row still 'offered', and the partial unique index on courier_id refuses *)
(* a second 'claimed' row of the courier.  A request that loses changes    *)
(* nothing.                                                                *)

\* Mutant: the compare-and-swap alone, without uq_courier_single_live_claim.
TryClaim_NoIndex(q, r) ==
  /\ status[r] = "offered"
  /\ Begin(q, r, "retire")
  /\ status' = [status EXCEPT ![r] = "claimed"]
  /\ UNCHANGED <<selected, published>>

TryClaim(q, r) ==
  /\ status[r] = "offered"
  /\ ~HoldsClaim(Who(r))
  /\ Begin(q, r, "retire")
  /\ status' = [status EXCEPT ![r] = "claimed"]
  /\ UNCHANGED <<selected, published>>

\* Mutant: the UPDATE without `status = 'offered'' in its predicate.
ExpireOtherOffers_AnyStatus(q) ==
  /\ Continue(q, "retire", "announce")
  /\ status' = [r \in Row |->
       IF status[r] # "none" /\ What(r) = What(target[q]) /\ r # target[q]
       THEN "expired"
       ELSE status[r]]
  /\ UNCHANGED <<selected, published>>

\* Mutant: the claim is answered without its event.
ExpireOtherOffers_EndsClaim(q) ==
  /\ pc[q] = "retire"
  /\ Answer(q)
  /\ UNCHANGED <<status, selected, published>>

\* expire_other_offers: every offer of the job still open, except the winner.
ExpireOtherOffers(q) ==
  /\ Continue(q, "retire", "announce")
  /\ status' = [r \in Row |->
       IF /\ status[r] = "offered"
          /\ What(r) = What(target[q])
          /\ r # target[q]
       THEN "expired"
       ELSE status[r]]
  /\ UNCHANGED <<selected, published>>

\* Best effort: its failure is logged and the claim goes on.
ExpireFails(q) ==
  /\ q \in Mortal
  /\ Continue(q, "retire", "announce")
  /\ UNCHANGED <<status, selected, published>>

-----------------------------------------------------------------------------
(* emit: fire and forget.  A broker error is logged and swallowed.         *)

Emit(q, milestone, r) ==
  \/ published' = published \cup {<<milestone, Who(r), What(r)>>}
  \/ q \in Mortal /\ UNCHANGED published

AnnounceClaim(q) ==
  /\ pc[q] = "announce"
  /\ Emit(q, "assigned", target[q])
  /\ Answer(q)
  /\ UNCHANGED <<status, selected>>

\* mark_arrived and mark_collected read the row, require 'claimed', and only
\* publish.  The vendor or stop they name is passed through unread.
ReadMilestone(q, r, milestone) ==
  /\ milestone \in Report
  /\ status[r] = "claimed"
  /\ Begin(q, r, milestone)
  /\ UNCHANGED <<status, selected, published>>

PublishMilestone(q, milestone) ==
  /\ milestone \in Report
  /\ pc[q] = milestone
  /\ Emit(q, milestone, target[q])
  /\ Answer(q)
  /\ UNCHANGED <<status, selected>>

-----------------------------------------------------------------------------
(* mark_delivered: read the row, save it completed, credit the courier,    *)
(* publish, answer.  A repeat that reads 'completed' answers at once and   *)
(* changes nothing (FieldOps says what the courier was told).              *)

\* Mutant: without the status gate a loser completes a job it never took.
ReadDelivery_NoStatusGate(q, r) ==
  /\ status[r] \in {"offered", "claimed"}
  /\ Begin(q, r, "complete")
  /\ UNCHANGED <<status, selected, published>>

ReadDelivery(q, r) ==
  /\ status[r] = "claimed"
  /\ Begin(q, r, "complete")
  /\ UNCHANGED <<status, selected, published>>

\* Mutant: published before it is credited.
Complete_PublishesFirst(q) ==
  /\ Continue(q, "complete", "delivered")
  /\ status' = [status EXCEPT ![target[q]] = "completed"]
  /\ UNCHANGED <<selected, published>>

\* Mutant: the courier is credited for a row that was never saved.
Complete_NotSaved(q) ==
  /\ Continue(q, "complete",
       IF What(target[q]) \in PayingJob THEN "credit" ELSE "delivered")
  /\ UNCHANGED <<status, selected, published>>

\* save is an unconditional upsert of the row as it was read, now completed.
Complete(q) ==
  /\ Continue(q, "complete",
       IF What(target[q]) \in PayingJob THEN "credit" ELSE "delivered")
  /\ status' = [status EXCEPT ![target[q]] = "completed"]
  /\ UNCHANGED <<selected, published>>

\* credit_courier returned Ok; CourierLedger says what it does.
Credited(q) ==
  /\ Continue(q, "credit", "delivered")
  /\ UNCHANGED <<status, selected, published>>

PublishDelivery(q) ==
  /\ pc[q] = "delivered"
  /\ Emit(q, "delivered", target[q])
  /\ Answer(q)
  /\ UNCHANGED <<status, selected>>

\* The request dies here: the process stops, the connection is dropped, or a
\* repository call returns an error the handler propagates.
Die(q) ==
  /\ q \in Mortal
  /\ pc[q] # "idle"
  /\ Answer(q)
  /\ UNCHANGED <<status, selected, published>>

-----------------------------------------------------------------------------
Serve(q) ==
  \/ ExpireOtherOffers(q) \/ ExpireFails(q) \/ AnnounceClaim(q)
  \/ \E m \in Report : PublishMilestone(q, m)
  \/ Complete(q) \/ Credited(q) \/ PublishDelivery(q)

Next ==
  \/ \E j \in Job, n \in Round, candidates \in SUBSET Courier : Offer(j, n, candidates)
  \/ \E j \in Job, n \in Round : AbandonOffer(j, n)
  \/ \E r \in Row : SaveOffer(r)
  \/ \E q \in Request, r \in Row :
       \/ TryClaim(q, r) \/ ReadDelivery(q, r)
       \/ \E m \in Report : ReadMilestone(q, r, m)
  \/ \E q \in Request : Serve(q) \/ Die(q)

Spec == Init /\ [][Next]_vars
\* Weak fairness of every request in flight: tokio polls a ready task, and an
\* await on the database or the broker returns.  The couriers and the products
\* that call owe the service nothing.
FairSpec ==
  /\ Spec
  /\ \A q \in Request : WF_vars(Serve(q))

-----------------------------------------------------------------------------
(* Correctness. *)

\* "THE INVARIANT" of migration 0002: at most one live claim per courier, over
\* every product that dispatches from the pool.
SingleLiveClaim ==
  \A r1, r2 \in Row :
    Who(r1) = Who(r2) /\ status[r1] = "claimed" /\ status[r2] = "claimed" => r1 = r2

\* A milestone is believed by the consuming product without a second look, so
\* only a courier who won the job may have caused one: an offer that lost keeps
\* a readable id (mark_collected, mark_delivered), and must stay powerless.
MilestonesFromHolder ==
  \A c \in Courier, j \in Job, m \in Milestone :
    <<m, c, j>> \in published =>
      \E n \in Round :
        /\ status[<<c, j, n>>] \in {"claimed", "completed"}
        /\ m = "delivered" => status[<<c, j, n>>] = "completed"

\* Every handler acts on a row it read one or more awaits ago.  By then the row
\* may have moved, but only from 'claimed' to 'completed'; past the save it is
\* completed for good; and an offer being saved cannot overwrite a live row.
ReadsStayValid ==
  /\ \A q \in Request :
       /\ pc[q] # "idle" => status[target[q]] \in {"claimed", "completed"}
       /\ pc[q] \in {"credit", "delivered"} => status[target[q]] = "completed"
  /\ \A r \in selected : status[r] = "none"

\* The lifecycle of a row under a blind upsert (save) and a bulk UPDATE
\* (expire_other_offers) that race each other: a row moves only forward, and
\* 'completed' and 'expired' are for good.
StatusMovesForward ==
  [][\A r \in Row :
       status'[r] # status[r] =>
         <<status[r], status'[r]>> \in
           {<<"none", "offered">>, <<"offered", "claimed">>,
            <<"offered", "expired">>, <<"claimed", "completed">>}]_vars

\* The doc of offer_to_nearest: "several couriers may hold an offer for the
\* same job; exactly one will win the claim".
OneWinnerPerJob ==
  \A r1, r2 \in Row :
    /\ What(r1) = What(r2)
    /\ status[r1] \in {"claimed", "completed"}
    /\ status[r2] \in {"claimed", "completed"}
    => Who(r1) = Who(r2)

\* A request that nothing interrupts only ends once the product was told what it
\* did: its own claim or milestone, of its own courier and job.
EndsWithEvent ==
  [][\A q \in Request \ Mortal :
       pc[q] # "idle" /\ pc'[q] = "idle" =>
         LET m == IF pc[q] = "announce" THEN "assigned" ELSE pc[q]
         IN  <<m, Who(target[q]), What(target[q])>> \in published']_vars

\* And it does end: the claim that won its race hears no competitor's failure,
\* and no other request's death costs it its event.
WinsAreAnnounced ==
  /\ \A q \in Request \ Mortal : []<>(pc[q] = "idle")
  /\ EndsWithEvent

\* The promise to the products: CourierDuty, read off the table.
Carrying ==
  [c \in Courier |->
     IF HoldsClaim(c)
     THEN What(CHOOSE r \in Row : Who(r) = c /\ status[r] = "claimed")
     ELSE Free]

Finished == {<<Who(r), What(r)>> : r \in {x \in Row : status[x] = "completed"}}

Duty == INSTANCE CourierDuty WITH carrying <- Carrying, finished <- Finished

ImplementsDuty == Duty!Spec

\* The promise to one product: CourierFeed, read off the rows of its job.
Any(j, statuses) == \E r \in Row : What(r) = j /\ status[r] \in statuses

Said(j) == {m \in Milestone : \E c \in Courier : <<m, c, j>> \in published}

Feed(j) == INSTANCE CourierFeed WITH
             offered  <- Any(j, Status \ {"none"}),
             claimed  <- Any(j, {"claimed", "completed"}),
             finished <- Any(j, {"completed"}),
             said     <- Said(j)

\* Through offers, losers, re-offers, failed saves and late events, every job's
\* product sees the feed it is promised (the specification of Feed(j), spelt out:
\* TLC takes no quantifier over one).
ImplementsFeed ==
  /\ \A j \in Job : Feed(j)!Init
  /\ [][\A j \in Job : Feed(j)!Next \/ UNCHANGED Feed(j)!feedVars]_vars
=============================================================================
