--------------------------- MODULE ShipmentIntake ---------------------------
(***************************************************************************)
(* order-intake: one booking, from its first request to its last status.   *)
(* The client may retry the booking under its idempotency key; every       *)
(* attempt mints a shipment id of its own.  A booking with a quote token   *)
(* is held back from dispatch until payments says its fee was captured,    *)
(* and is cancelled when payments gives up on it.  The row of a shipment   *)
(* has writers that know nothing of each other:                            *)
(*   - cancel, reschedule and override_status read the row and save the    *)
(*     whole of it, an await or more later; so does the payment consumer,  *)
(*     with three events published between its two saves;                  *)
(*   - the status consumer and the expiry sweep UPDATE it in one statement.*)
(*                                                                         *)
(* payments, promotions and dispatch are outside: payments says captured   *)
(* or failed of an intent and not both (PaymentHold); a quote discount is  *)
(* good for one booking; dispatch, driver-ops, pod and hub-ops report      *)
(* progress of the shipments they were told of, in any order.              *)
(***************************************************************************)
EXTENDS Naturals, FiniteSets

CONSTANTS
  Shipment,   \* the ids of the attempts at this booking
  Discounted, \* the attempts whose quote carries a discount
  Desk,       \* requests on the shipment, and sweeps, at work at once
  Consumer,   \* the payment consumer
  Mortal,     \* attempts and tasks that may stop, or whose calls may fail, midway
  Scheduled,  \* whether the booking has a slot: a whole-home move
  Override,   \* statuses a console or a rule may set: bounds the statuses
  None

Task == Desk \cup {Consumer}

ASSUME DiscountAssumption == Discounted \subseteq Shipment
ASSUME ConsumerAssumption == Consumer \notin Desk
ASSUME ScheduledAssumption == Scheduled \in BOOLEAN
ASSUME NoneAssumption     == None \notin Shipment

\* "in_transit" stands for at_hub, out_for_delivery and customs_hold as well.
Status == {"pending", "confirmed", "pickup_assigned", "picked_up", "in_transit",
           "delivery_attempted", "delivered", "failed", "cancelled", "returned"}
ASSUME OverrideAssumption == Override \subseteq Status

Payment == {"not_required", "awaiting_payment", "paid"}
Row     == [status : Status, payment : Payment, held : BOOLEAN]

NoRow == [status |-> "none", payment |-> "none", held |-> FALSE]

VARIABLES
  online,     \* the booking carries a quote token, with a discount
  row,        \* [Shipment -> Row or NoRow]; held: pending_dispatch_events
  spent,      \* the shipments the discount is spent on, at promotions
  intent,     \* the shipments with a payment intent
  verdict,    \* <<"captured" or "failed", shipment>> published by payments
  todo,       \* those the payment consumer has yet to handle
  out,        \* shipments whose AWB, creation and confirmation were all published
  gone,       \* shipments whose cancellation was published
  book,       \* [Shipment -> BookStep], the next await of each attempt
  told,       \* [Shipment -> Shipment or None], what its caller was answered
  at,         \* [Task -> Step], the next await of each task
  on,         \* [Task -> Shipment or None], the shipment it is about
  copy,       \* [Task -> Row or NoRow], the row it will save
  outdated,   \* tasks whose copy was read from a row that has moved since
  clobbered,  \* shipments an outdated copy was saved over
  overridden, \* shipments whose status a console or a rule has set
  passed      \* messages whose handler failed, and a later commit passed over

book_vars == <<spent, intent, book, told>>
task_vars == <<at, on, copy>>
ghosts    == <<outdated, clobbered, overridden, passed>>
vars      == <<online, row, verdict, todo, out, gone,
               book_vars, task_vars, ghosts>>

BookStep == {"new", "redeem", "intent", "save", "pieces", "publish", "release", "over"}
Step == {"idle",
         "pay", "hand_over", "clear",        \* handle_captured
         "look",                             \* handle_failed, before cancel
         "cancel", "announce",               \* cancel; announce for the sweep too
         "reschedule", "override"}

TypeOK ==
  /\ online \in BOOLEAN
  /\ row \in [Shipment -> Row \cup {NoRow}]
  /\ spent \subseteq Shipment /\ intent \subseteq Shipment
  /\ verdict \subseteq {"captured", "failed"} \X Shipment
  /\ todo \subseteq verdict
  /\ out \subseteq Shipment /\ gone \subseteq Shipment
  /\ book \in [Shipment -> BookStep]
  /\ told \in [Shipment -> Shipment \cup {None}]
  /\ at \in [Task -> Step]
  /\ on \in [Task -> Shipment \cup {None}]
  /\ copy \in [Task -> Row \cup {NoRow}]
  /\ \A t \in Task : at[t] # "idle" => on[t] \in Shipment
  /\ \A t \in Task : at[t] \notin {"idle", "look", "announce"} => copy[t] \in Row
  /\ outdated \subseteq Task
  /\ clobbered \subseteq Shipment /\ overridden \subseteq Shipment
  /\ passed \subseteq verdict

Init ==
  /\ online \in BOOLEAN
  /\ row = [s \in Shipment |-> NoRow]
  /\ spent = {} /\ intent = {}
  /\ verdict = {} /\ todo = {}
  /\ out = {} /\ gone = {}
  /\ book = [s \in Shipment |-> "new"]
  /\ told = [s \in Shipment |-> None]
  /\ at = [t \in Task |-> "idle"]
  /\ on = [t \in Task |-> None]
  /\ copy = [t \in Task |-> NoRow]
  /\ outdated = {} /\ clobbered = {} /\ overridden = {} /\ passed = {}

Booked(s) == row[s] # NoRow

-----------------------------------------------------------------------------
(* create.  What fails before the row and its pieces are saved gives the   *)
(* discount back; what fails after is logged.                              *)

Books(s, from, to) ==
  /\ book[s] = from
  /\ book' = [book EXCEPT ![s] = to]
  /\ UNCHANGED <<online, verdict, todo, gone, task_vars, ghosts>>

\* A replay is answered with the shipment that is there.
Replay(s, existing) ==
  /\ Books(s, "new", "over")
  /\ Booked(existing)
  /\ told' = [told EXCEPT ![s] = existing]
  /\ UNCHANGED <<row, spent, intent, out>>

CheckKey(s) ==
  /\ Books(s, "new", IF ~online THEN "save"
                     ELSE IF s \in Discounted THEN "redeem" ELSE "intent")
  /\ \A x \in Shipment : ~Booked(x)
  /\ UNCHANGED <<row, spent, intent, out, told>>

Redeem(s) ==
  /\ Books(s, "redeem", "intent")
  /\ spent = {}
  /\ spent' = {s}
  /\ UNCHANGED <<row, intent, out, told>>

\* The discount is spent already; or promotions did not answer, and may have
\* spent it all the same: nothing gives it back.
RedeemRefused(s) ==
  /\ Books(s, "redeem", "over")
  /\ \/ spent # {} /\ UNCHANGED spent
     \/ s \in Mortal /\ spent' \in {spent, spent \cup {s}}
  /\ UNCHANGED <<row, intent, out, told>>

OpenIntent(s) ==
  /\ Books(s, "intent", "save")
  /\ intent' = intent \cup {s}
  /\ UNCHANGED <<row, spent, out, told>>

\* payments may have opened the intent all the same.
IntentFails(s) ==
  /\ Books(s, "intent", "release")
  /\ s \in Mortal
  /\ intent' \in {intent, intent \cup {s}}
  /\ UNCHANGED <<row, spent, out, told>>

\* idx_shipments_idempotency: one row per key.
\* Mutant: the table without the index, relying on the check.
Unbooked_NoIndex(s) == ~Booked(s)

Unbooked(s) == \A x \in Shipment : ~Booked(x)

SaveRow(s) ==
  /\ Books(s, "save", "pieces")
  /\ Unbooked(s)
  /\ row' = [row EXCEPT ![s] =
       [status |-> "pending",
        payment |-> IF online THEN "awaiting_payment" ELSE "not_required",
        held |-> online]]
  /\ UNCHANGED <<spent, intent, out, told>>

SaveFails(s) ==
  /\ Books(s, "save", "release")
  /\ ~Unbooked(s) \/ s \in Mortal
  /\ UNCHANGED <<row, spent, intent, out, told>>

\* Mutant: every booking is published.
SavePieces_Publishes(s) ==
  /\ Books(s, "pieces", "publish")
  /\ UNCHANGED <<row, spent, intent, out, told>>

\* A booking that awaits its payment is over: nothing is published.
SavePieces(s) ==
  /\ Books(s, "pieces", IF online THEN "over" ELSE "publish")
  /\ told' = [told EXCEPT ![s] = IF online THEN s ELSE @]
  /\ UNCHANGED <<row, spent, intent, out>>

\* The row stays.
PiecesFail(s) ==
  /\ Books(s, "pieces", "release")
  /\ s \in Mortal
  /\ UNCHANGED <<row, spent, intent, out, told>>

\* Kafka's unavailability does not fail the booking.
PublishCreated(s) ==
  /\ Books(s, "publish", "over")
  /\ \/ out' = out \cup {s}
     \/ s \in Mortal /\ UNCHANGED out
  /\ told' = [told EXCEPT ![s] = s]
  /\ UNCHANGED <<row, spent, intent>>

Release(s) ==
  /\ Books(s, "release", "over")
  /\ \/ spent' = spent \ {s}
     \/ s \in Mortal /\ UNCHANGED spent
  /\ UNCHANGED <<row, intent, out, told>>

\* The process stops, or the client goes away with the connection.
Abandon(s) ==
  /\ s \in Mortal
  /\ \E from \in BookStep \ {"new", "over"} : Books(s, from, "over")
  /\ UNCHANGED <<row, spent, intent, out, told>>

-----------------------------------------------------------------------------
(* payments.  The page of an intent is only known from the answer of the   *)
(* attempt that opened it.                                                 *)

Decides(k, s) ==
  /\ s \in intent
  /\ \A x \in {"captured", "failed"} : <<x, s>> \notin verdict
  /\ verdict' = verdict \cup {<<k, s>>}
  /\ todo' = todo \cup {<<k, s>>}
  /\ UNCHANGED <<online, row, out, gone, book_vars, task_vars, ghosts>>

Pay(s)    == told[s] = s /\ Decides("captured", s)
Expire(s) == Decides("failed", s)

\* A restart of the consumer, or a rebalance, brings back what was handled.
Redeliver(m) ==
  /\ m \in verdict \ todo
  /\ todo' = todo \cup {m}
  /\ UNCHANGED <<online, row, verdict, out, gone, book_vars, task_vars, ghosts>>

-----------------------------------------------------------------------------
(* Tasks: a read, and what follows from it.                                *)

Reads(t, s, step, r) ==
  /\ at[t] = "idle"
  /\ at' = [at EXCEPT ![t] = step]
  /\ on' = [on EXCEPT ![t] = s]
  /\ copy' = [copy EXCEPT ![t] = r]

Turns(t, from, to, r) ==
  /\ at[t] = from
  /\ at' = [at EXCEPT ![t] = to]
  /\ copy' = [copy EXCEPT ![t] = r]
  /\ UNCHANGED on

Ends(t) ==
  /\ at' = [at EXCEPT ![t] = "idle"]
  /\ on' = [on EXCEPT ![t] = None]
  /\ copy' = [copy EXCEPT ![t] = NoRow]

\* The offset of the message is committed.
Commits(t) == todo' = IF t = Consumer THEN {m \in todo : m[2] # on[t]} ELSE todo

\* Who holds a copy of s falls behind when its row changes.
Behind(s, by) == (outdated \cup {x \in Task : on[x] = s}) \ {by}

Writes(s, r) == row' = [row EXCEPT ![s] = r]

\* The repository's save, by t, of its copy with the change `r' made to it.
Saves(t, r) ==
  /\ Writes(on[t], r)
  /\ outdated' = IF row[on[t]] = r THEN outdated \ {t} ELSE Behind(on[t], t)
  /\ clobbered' = IF t \in outdated /\ row[on[t]] # r THEN clobbered \cup {on[t]} ELSE clobbered

CanCancel(r) ==
  \/ r.status \in {"pending", "confirmed"}
  \/ r.status = "pickup_assigned" /\ Scheduled

-----------------------------------------------------------------------------
(* handle_captured and handle_failed.                                      *)

\* Mutant: a shipment marked as paid is taken for one that was handed over.
Unhandled_Awaiting(r) == r.payment = "awaiting_payment"

Unhandled(r) == r.payment = "awaiting_payment" \/ (r.payment = "paid" /\ r.held)

TakeCaptured(s) ==
  /\ <<"captured", s>> \in todo
  /\ Unhandled(row[s]) /\ row[s].held
  /\ Reads(Consumer, s, IF row[s].payment = "paid" THEN "hand_over" ELSE "pay", row[s])
  /\ UNCHANGED <<online, row, verdict, todo, out, gone, book_vars, ghosts>>

\* Handled before; or there is no such shipment, or no events to publish, and
\* the handler returns an error.
SkipCaptured(s) ==
  /\ <<"captured", s>> \in todo
  /\ at[Consumer] = "idle"
  /\ ~(Unhandled(row[s]) /\ row[s].held)
  /\ todo' = todo \ {<<"captured", s>>}
  /\ UNCHANGED <<online, row, verdict, out, gone, book_vars, task_vars, ghosts>>

\* Mutant: the events are dropped with the first save.
SavePaid_Clears ==
  /\ Turns(Consumer, "pay", "hand_over",
           [copy[Consumer] EXCEPT !.payment = "paid", !.held = FALSE])
  /\ Saves(Consumer, copy'[Consumer])
  /\ UNCHANGED <<online, verdict, todo, out, gone, book_vars, overridden, passed>>

SavePaid ==
  /\ Turns(Consumer, "pay", "hand_over", [copy[Consumer] EXCEPT !.payment = "paid"])
  /\ Saves(Consumer, copy'[Consumer])
  /\ UNCHANGED <<online, verdict, todo, out, gone, book_vars, overridden, passed>>

HandOver ==
  /\ Turns(Consumer, "hand_over", "clear", [copy[Consumer] EXCEPT !.held = FALSE])
  /\ out' = out \cup {on[Consumer]}
  /\ UNCHANGED <<online, row, verdict, todo, gone, book_vars, ghosts>>

ClearHeld ==
  /\ at[Consumer] = "clear"
  /\ Saves(Consumer, copy[Consumer])
  /\ Commits(Consumer)
  /\ Ends(Consumer)
  /\ UNCHANGED <<online, verdict, out, gone, book_vars, overridden, passed>>

\* A handler that failed leaves its message uncommitted.  It is handled again
\* after a restart, unless the commit of a later message passed over it first.
Fails(t) ==
  IF t = Consumer
  THEN LET m == {x \in todo : x[2] = on[t]}
       IN  \/ UNCHANGED <<todo, passed>>
           \/ todo' = todo \ m /\ passed' = passed \cup m
  ELSE UNCHANGED <<todo, passed>>

\* A save failed, or one of the three events could not be published, or the
\* consumer stopped.
CapturedFails ==
  /\ Consumer \in Mortal
  /\ at[Consumer] \in {"pay", "hand_over", "clear"}
  /\ out' \in {out, IF at[Consumer] = "hand_over" THEN out \cup {on[Consumer]} ELSE out}
  /\ Fails(Consumer)
  /\ Ends(Consumer)
  /\ outdated' = outdated \ {Consumer}
  /\ UNCHANGED <<online, row, verdict, gone, book_vars, clobbered, overridden>>

TakeFailed(s) ==
  /\ <<"failed", s>> \in todo
  /\ Booked(s) /\ CanCancel(row[s])
  /\ Reads(Consumer, s, "look", NoRow)
  /\ UNCHANGED <<online, row, verdict, todo, out, gone, book_vars, ghosts>>

\* Not cancellable any more; or no such shipment, an error.
SkipFailed(s) ==
  /\ <<"failed", s>> \in todo
  /\ at[Consumer] = "idle"
  /\ ~(Booked(s) /\ CanCancel(row[s]))
  /\ todo' = todo \ {<<"failed", s>>}
  /\ UNCHANGED <<online, row, verdict, out, gone, book_vars, task_vars, ghosts>>

-----------------------------------------------------------------------------
(* cancel, for a client or for the payment consumer; reschedule and        *)
(* override_status.                                                        *)

Cancelled(r) == [r EXCEPT !.status = "cancelled"]

ReadCancel(d, s) ==
  /\ Booked(s) /\ CanCancel(row[s])
  /\ Reads(d, s, "cancel", Cancelled(row[s]))
  /\ UNCHANGED <<online, row, verdict, todo, out, gone, book_vars, ghosts>>

\* handle_failed has looked at the row; cancel reads it again.
LookAgain ==
  /\ at[Consumer] = "look"
  /\ CanCancel(row[on[Consumer]])
  /\ Turns(Consumer, "look", "cancel", Cancelled(row[on[Consumer]]))
  /\ outdated' = outdated \ {Consumer}
  /\ UNCHANGED <<online, row, verdict, todo, out, gone, book_vars, clobbered,
                 overridden, passed>>

LookRefused ==
  /\ at[Consumer] = "look"
  /\ ~CanCancel(row[on[Consumer]])
  /\ Fails(Consumer)
  /\ Ends(Consumer)
  /\ outdated' = outdated \ {Consumer}
  /\ UNCHANGED <<online, row, verdict, out, gone, book_vars, clobbered, overridden>>

SaveCancel(t) ==
  /\ Turns(t, "cancel", "announce", copy[t])
  /\ Saves(t, copy[t])
  /\ UNCHANGED <<online, verdict, todo, out, gone, book_vars, overridden, passed>>

Announce(t) ==
  /\ at[t] = "announce"
  /\ gone' = gone \cup {on[t]}
  /\ Commits(t)
  /\ Ends(t)
  /\ outdated' = outdated \ {t}
  /\ UNCHANGED <<online, row, verdict, out, book_vars, clobbered, overridden, passed>>

\* Back to confirmed, so that dispatch can assign it again.
ReadReschedule(d, s) ==
  /\ row[s].status \in {"delivery_attempted", "failed"}
  /\ Reads(d, s, "reschedule", [row[s] EXCEPT !.status = "confirmed"])
  /\ UNCHANGED <<online, row, verdict, todo, out, gone, book_vars, ghosts>>

\* Mutant: a shipment that is not found is made up.
ReadOverride_Unfound(d, s, status) ==
  /\ Reads(d, s, "override", [row[s] EXCEPT !.status = status])
  /\ UNCHANGED <<online, row, verdict, todo, out, gone, book_vars, ghosts>>

ReadOverride(d, s, status) ==
  /\ Booked(s)
  /\ Reads(d, s, "override", [row[s] EXCEPT !.status = status])
  /\ UNCHANGED <<online, row, verdict, todo, out, gone, book_vars, ghosts>>

SaveStatus(d) ==
  /\ at[d] \in {"reschedule", "override"}
  /\ Saves(d, copy[d])
  /\ overridden' = IF at[d] = "override" THEN overridden \cup {on[d]} ELSE overridden
  /\ Ends(d)
  /\ UNCHANGED <<online, verdict, todo, out, gone, book_vars, passed>>

\* The task stops, its save fails, or its event cannot be published.
Gives(t) ==
  /\ t \in Mortal
  /\ at[t] \in {"look", "cancel", "announce", "reschedule", "override"}
  /\ Fails(t)
  /\ Ends(t)
  /\ outdated' = outdated \ {t}
  /\ UNCHANGED <<online, row, verdict, out, gone, book_vars, clobbered, overridden>>

-----------------------------------------------------------------------------
(* Single statements.                                                      *)

Updates(s, r) ==
  /\ Writes(s, r)
  /\ outdated' = outdated \cup {x \in Task : on[x] = s}

\* sweep_expired_payments: cancel_if_awaiting_payment, then the event.
SweepExpired(d, s) ==
  /\ row[s].payment = "awaiting_payment"
  /\ row[s].status \in {"pending", "confirmed"}
  /\ Reads(d, s, "announce", NoRow)
  /\ Updates(s, Cancelled(row[s]))
  /\ UNCHANGED <<online, verdict, todo, out, gone, book_vars, clobbered,
                 overridden, passed>>

\* Mutant: the transition without the terminal statuses.
Applies_Always(status, to) == status # to

\* apply_transition: what the status consumer is told, in any order and more
\* than once, of a shipment that was published.
Applies(status, to) ==
  CASE to = "picked_up" -> status \in {"pending", "confirmed", "pickup_assigned"}
    [] to = "in_transit" -> status \notin {"delivered", "cancelled", "returned", "failed"}
    [] to \in {"pickup_assigned", "delivery_attempted"} ->
         status \notin {"delivered", "cancelled", "returned"}
    [] to = "failed" -> status \notin {"delivered", "cancelled"}
    [] to = "delivered" -> TRUE

Reported == {"pickup_assigned", "picked_up", "in_transit", "delivery_attempted",
             "failed", "delivered"}

Progress(s, to) ==
  /\ s \in out /\ Booked(s)
  /\ Applies(row[s].status, to)
  /\ Updates(s, [row[s] EXCEPT !.status = to])
  /\ UNCHANGED <<online, verdict, todo, out, gone, book_vars, task_vars, clobbered,
                 overridden, passed>>

-----------------------------------------------------------------------------
Create(s) ==
  \/ \E existing \in Shipment : Replay(s, existing)
  \/ CheckKey(s) \/ Redeem(s) \/ RedeemRefused(s) \/ OpenIntent(s) \/ IntentFails(s)
  \/ SaveRow(s) \/ SaveFails(s) \/ SavePieces(s) \/ PiecesFail(s)
  \/ PublishCreated(s) \/ Release(s) \/ Abandon(s)

Payments ==
  \/ \E s \in Shipment : Pay(s) \/ Expire(s)
  \/ \E m \in verdict : Redeliver(m)

Take(s) == TakeCaptured(s) \/ SkipCaptured(s) \/ TakeFailed(s) \/ SkipFailed(s)

Consume ==
  \/ SavePaid \/ HandOver \/ ClearHeld
  \/ LookAgain \/ LookRefused \/ SaveCancel(Consumer) \/ Announce(Consumer)

Serve(d) ==
  \/ \E s \in Shipment : ReadCancel(d, s) \/ ReadReschedule(d, s) \/ SweepExpired(d, s)
  \/ \E s \in Shipment, status \in Override : ReadOverride(d, s, status)
  \/ SaveCancel(d) \/ Announce(d) \/ SaveStatus(d)

Next ==
  \/ \E s \in Shipment : Create(s) \/ Take(s) \/ (\E to \in Reported : Progress(s, to))
  \/ Payments
  \/ Consume \/ CapturedFails
  \/ \E d \in Desk : Serve(d)
  \/ \E t \in Task : Gives(t)

Spec == Init /\ [][Next]_vars

\* The consumer is served to the end of a message and takes the next; a save or
\* a publish that is tried again and again goes through.
FairSpec ==
  /\ Spec
  /\ WF_vars(Consume) /\ SF_vars(SavePaid) /\ SF_vars(HandOver)
  /\ \A s \in Shipment : SF_vars(Take(s))

-----------------------------------------------------------------------------
(* Correctness. *)

\* A client that retries with its idempotency key books once: there is one row,
\* every attempt is answered with it, and the discount is not left spent on an
\* attempt that came to nothing ("a booking that never exists must not cost the
\* customer their month's code"), unless the attempt itself was cut short.
BookedOnce ==
  /\ \A s1, s2 \in Shipment : Booked(s1) /\ Booked(s2) => s1 = s2
  /\ \A s \in Shipment : told[s] # None => Booked(told[s])
  /\ \A s \in spent \ Mortal :
       Booked(s) \/ book[s] \in {"intent", "save", "release"}

\* "dispatch, engagement, and analytics must not see this shipment until
\* payment.intent.captured", and what they see is stored: through retries,
\* late failures and redelivered messages.
UnpaidNeverDispatched ==
  \A s \in out : Booked(s) /\ (online => <<"captured", s>> \in verdict)

\* The held events are "the only record of what still needs to reach dispatch":
\* no save, of the consumer or of a stale copy, drops them before they are out.
HeldUntilOut ==
  online => \A s \in Shipment : Booked(s) => row[s].held \/ s \in out

\* Once the cancellation of a shipment was published, and with it the refund of
\* its fee and the end of its offers, no writer that read the current row and no
\* late report but the delivery itself brings the shipment back.
GoneIsCancelled ==
  \A s \in gone :
    s \notin clobbered /\ s \notin overridden => row[s].status \in {"cancelled", "delivered"}

\* A capture is never out of sight: its shipment reached dispatch, or its message
\* is still to be handled, across failed saves, partial publishes, redeliveries
\* and outdated copies, unless a later commit passed it over.
PaidInSight ==
  \A s \in Shipment :
    <<"captured", s>> \in verdict => s \in out \/ <<"captured", s>> \in todo \cup passed

\* A shipment that was paid for reaches dispatch, across failed saves, partial
\* publishes and restarts, unless its message was passed over.
PaidReachesDispatch ==
  \A s \in Shipment :
    <<"captured", s>> \in verdict ~> (s \in out \/ <<"captured", s>> \in passed)
=============================================================================
