----------------------------- MODULE DispatchQueue -----------------------------
(***************************************************************************)
(* dispatch: how a shipment of one tenant reaches a driver.  The queue row *)
(* of a shipment is read by the consumers, the dispatch sweep and the      *)
(* consoles of two replicas, which assign a driver (quick_dispatch) or     *)
(* broadcast an offer to the gig drivers; drivers claim offers, accept and *)
(* reject assignments; sweeps of both replicas escalate or expire offers;  *)
(* drops and cancellations come in from the other services.  Every         *)
(* transaction and every statement of its own is one step, and what a task *)
(* read before is kept in `item', `picked' and `seen' while others run.    *)
(*                                                                         *)
(* A route and its assignment are made by one task and carry one shipment:  *)
(* the pair is a Trip.  Where drivers are, what their vehicles carry and   *)
(* their compliance decide only who is near: any free driver may be.       *)
(* Routes with stops and whole-home moves are left out.                    *)
(***************************************************************************)
EXTENDS Naturals, FiniteSets

CONSTANTS
  Shipment,
  Driver,
  Gig,        \* the part-time drivers: only they are offered a broadcast
  Round,      \* broadcasts a shipment may see: bounds re-offers
  Attempt,    \* trips of one shipment one driver may get: bounds re-dispatch
  Desk,       \* consumers, dispatch sweeps and consoles at work at once
  Phone,      \* requests of drivers in flight at once
  Sweeper,    \* the offer sweep of each replica
  Mortal,     \* tasks and sweeps that may stop, or whose calls may fail, midway
  MaxWave,    \* OFFER_MAX_WAVES
  MaxEvent,   \* bounds the console actions, drops, cancellations and failures
  None

Offer  == Shipment \X Round
Trip   == Shipment \X Driver \X Attempt
Worker == Desk \cup Phone \cup Sweeper

ASSUME GigAssumption    == Gig \subseteq Driver
ASSUME WorkerAssumption == Desk \cap Sweeper = {} /\ Phone \cap (Desk \cup Sweeper) = {}
ASSUME MortalAssumption == Mortal \subseteq Worker
ASSUME WaveAssumption   == MaxWave \in Nat \ {0}
ASSUME EventAssumption  == MaxEvent \in Nat
ASSUME NoneAssumption   == None \notin Shipment \cup Offer \cup Trip

Of(x) == x[1]     \* the shipment of an offer or of a trip
By(t) == t[2]     \* the driver of a trip

VARIABLES
  queue,     \* [Shipment -> QueueStatus], dispatch_queue.status
  tomb,      \* dispatch.shipment_cancellations
  drops,     \* dispatch.shipment_drops: the trips whose driver dropped them
  offer,     \* [Offer -> OfferStatus], task_offers.status
  due,       \* the open offers whose expires_at has passed
  wave,      \* [Offer -> 0..MaxWave], task_offers.wave
  asked,     \* task_offer_candidates, <<offer, driver>>
  winner,    \* [Offer -> Trip or None], claimed_by and claimed_at
  won,       \* history: <<offer, trip>> of every claim answered as won
  trip,      \* [Trip -> TripStatus], driver_assignments.status
  route,     \* the trips whose route is planned or in progress
  told,      \* the trips published on task.assigned
  pc,        \* [Worker -> Step], the next await of each task
  item,      \* [Worker -> Shipment, Offer, Trip or None], what it is about
  picked,    \* [Worker -> SUBSET Gig], the candidates it selected
  seen,      \* [Worker -> 0..MaxWave], the wave it read
  events     \* console actions, drops, cancellations and failures so far

offerVars == <<offer, due, wave, asked, winner, won>>
tripVars  == <<trip, route, told>>
workVars  == <<pc, item, picked, seen>>
vars      == <<queue, tomb, drops, events, offerVars, tripVars, workVars>>

\* "none" is a row that does not exist.
QueueStatus == {"none", "pending", "dispatched", "cancelled"}
OfferStatus == {"none", "open", "claimed", "expired", "cancelled"}
TripStatus  == {"none", "pending", "accepted", "rejected", "cancelled"}

Step == {"idle",
         "enqueue",                         \* handle_shipment_created
         "pick", "save", "emit", "mark",    \* quick_dispatch
         "select", "create",                \* broadcast
         "announce",                        \* claim
         "accept", "start", "reject",       \* accept_assignment, reject_assignment
         "widen", "escalate", "expire", "reset"}  \* escalate_or_expire

About(step) ==
  CASE step = "idle" -> {None}
    [] step \in {"enqueue", "pick", "mark", "select", "create"} -> Shipment
    [] step \in {"save", "emit", "announce", "accept", "start", "reject"} -> Trip
    [] step \in {"widen", "escalate", "expire", "reset"} -> Offer

\* The rows of the database, and what driver-ops was told.
RowsOK ==
  /\ queue \in [Shipment -> QueueStatus]
  /\ tomb \subseteq Shipment
  /\ drops \subseteq Trip
  /\ offer \in [Offer -> OfferStatus]
  /\ due \subseteq Offer
  /\ wave \in [Offer -> 0..MaxWave]
  /\ asked \subseteq Offer \X Gig
  /\ winner \in [Offer -> Trip \cup {None}]
  /\ won \subseteq Offer \X Trip
  /\ trip \in [Trip -> TripStatus]
  /\ route \subseteq Trip
  /\ told \subseteq Trip

\* What the tasks keep across their awaits.
WorkOK ==
  /\ pc \in [Worker -> Step]
  /\ item \in [Worker -> Shipment \cup Offer \cup Trip \cup {None}]
  /\ \A w \in Worker : item[w] \in About(pc[w])
  /\ picked \in [Worker -> SUBSET Gig]
  /\ seen \in [Worker -> 0..MaxWave]
  /\ \A w \in Worker : pc[w] = "escalate" => seen[w] < MaxWave

TypeOK == RowsOK /\ WorkOK /\ events \in 0..MaxEvent

Init ==
  /\ queue = [s \in Shipment |-> "none"]
  /\ tomb = {}
  /\ drops = {}
  /\ events = 0
  /\ offer = [o \in Offer |-> "none"]
  /\ due = {}
  /\ wave = [o \in Offer |-> 0]
  /\ asked = {}
  /\ winner = [o \in Offer |-> None]
  /\ won = {}
  /\ trip = [t \in Trip |-> "none"]
  /\ route = {}
  /\ told = {}
  /\ pc = [w \in Worker |-> "idle"]
  /\ item = [w \in Worker |-> None]
  /\ picked = [w \in Worker |-> {}]
  /\ seen = [w \in Worker |-> 0]

-----------------------------------------------------------------------------
(* Helpers. *)

Active(t) == trip[t] \in {"pending", "accepted"}

\* uq_driver_active_assignment: the index lets a driver have one active row.
\* Mutant: the database without the index.
Free_NoIndex(d) == d \in Driver

Free(d) == \A t \in Trip : By(t) = d => ~Active(t)

\* find_available_near and dropped_drivers, as one read.
Eligible(s, d) ==
  /\ \A t \in Trip : By(t) = d => ~Active(t)
  /\ \A t \in drops : Of(t) = s => By(t) # d

\* An id nothing has been saved under yet.
Fresh(t) ==
  /\ trip[t] = "none" /\ t \notin route
  /\ \A w \in Worker : item[w] # t

Begin(w, step, about) ==
  /\ pc[w] = "idle"
  /\ pc' = [pc EXCEPT ![w] = step]
  /\ item' = [item EXCEPT ![w] = about]
  /\ UNCHANGED <<picked, seen>>

Continue(w, from, to, about) ==
  /\ pc[w] = from
  /\ pc' = [pc EXCEPT ![w] = to]
  /\ item' = [item EXCEPT ![w] = about]
  /\ UNCHANGED <<picked, seen>>

\* The task is over: what it read is gone.
Done(w) ==
  /\ pc' = [pc EXCEPT ![w] = "idle"]
  /\ item' = [item EXCEPT ![w] = None]
  /\ picked' = [picked EXCEPT ![w] = {}]
  /\ seen' = [seen EXCEPT ![w] = 0]

End(w, from) == pc[w] = from /\ Done(w)

-----------------------------------------------------------------------------
(* handle_shipment_created: the tombstone is checked, then the row inserted *)
(* if there is none.                                                        *)

CheckTomb(w, s) ==
  /\ s \notin tomb
  /\ Begin(w, "enqueue", s)
  /\ UNCHANGED <<queue, tomb, drops, offerVars, tripVars>>

Enqueue(w) ==
  /\ End(w, "enqueue")
  /\ queue' = [queue EXCEPT ![item[w]] = IF @ = "none" THEN "pending" ELSE @]
  /\ UNCHANGED <<tomb, drops, offerVars, tripVars>>

-----------------------------------------------------------------------------
(* quick_dispatch, by the consumers, the sweep or a console: the queue row  *)
(* is read, a driver picked, the assignment saved, its events published,    *)
(* and the queue row marked, whatever it says by then.                      *)

ReadQueue(w, s) ==
  /\ queue[s] = "pending"
  /\ Begin(w, "pick", s)
  /\ UNCHANGED <<queue, tomb, drops, offerVars, tripVars>>

\* A driver a dispatcher names is only checked for an active assignment.  The
\* route is saved at once, and stays whatever becomes of the assignment.
Pick(w, t, named) ==
  /\ Continue(w, "pick", "save", t)
  /\ Of(t) = item[w]
  /\ Fresh(t)
  /\ IF named THEN Free(By(t)) ELSE Eligible(Of(t), By(t))
  /\ route' = route \cup {t}
  /\ UNCHANGED <<queue, tomb, drops, offerVars, trip, told>>

PickNone(w) ==
  /\ End(w, "pick")
  /\ UNCHANGED <<queue, tomb, drops, offerVars, tripVars>>

SaveTrip(w) ==
  /\ Continue(w, "save", "emit", item[w])
  /\ Free(By(item[w]))
  /\ trip' = [trip EXCEPT ![item[w]] = "pending"]
  /\ UNCHANGED <<queue, tomb, drops, offerVars, route, told>>

\* The index refused it: the driver got another assignment meanwhile.
SaveRefused(w) ==
  /\ End(w, "save")
  /\ ~Free(By(item[w]))
  /\ UNCHANGED <<queue, tomb, drops, offerVars, tripVars>>

\* Mutant: the queue row is looked up by the assignment.
EmitAssigned_MarksTrip(w) ==
  /\ Continue(w, "emit", "mark", item[w])
  /\ told' = told \cup {item[w]}
  /\ UNCHANGED <<queue, tomb, drops, offerVars, trip, route>>

EmitAssigned(w) ==
  /\ Continue(w, "emit", "mark", Of(item[w]))
  /\ told' = told \cup {item[w]}
  /\ UNCHANGED <<queue, tomb, drops, offerVars, trip, route>>

\* The broker failed after the first leg, or before it: the `?' ends the
\* dispatch with the assignment saved and the queue row still pending.
EmitFails(w) ==
  /\ End(w, "emit")
  /\ w \in Mortal
  /\ told' \in {told, told \cup {item[w]}}
  /\ UNCHANGED <<queue, tomb, drops, offerVars, trip, route>>

MarkDispatched(w) ==
  /\ End(w, "mark")
  /\ queue' = [queue EXCEPT ![item[w]] = "dispatched"]
  /\ UNCHANGED <<tomb, drops, offerVars, tripVars>>

-----------------------------------------------------------------------------
(* broadcast: the queue row is read, candidates selected, and the offer     *)
(* created with them in one transaction, which parks the queue row.         *)

ReadForBroadcast(w, s) ==
  /\ queue[s] = "pending"
  /\ Begin(w, "select", s)
  /\ UNCHANGED <<queue, tomb, drops, offerVars, tripVars>>

SelectCandidates(w, near) ==
  /\ pc[w] = "select"
  /\ near # {}
  /\ \A d \in near : Eligible(item[w], d)
  /\ pc' = [pc EXCEPT ![w] = "create"]
  /\ picked' = [picked EXCEPT ![w] = near]
  /\ UNCHANGED <<queue, tomb, drops, offerVars, tripVars, item, seen>>

SelectNone(w) ==
  /\ End(w, "select")
  /\ UNCHANGED <<queue, tomb, drops, offerVars, tripVars>>

\* idx_offers_open_per_shipment: a shipment has one open offer.
CreateOffer(w, o) ==
  /\ End(w, "create")
  /\ Of(o) = item[w]
  /\ offer[o] = "none"
  /\ \A x \in Offer : Of(x) = Of(o) => offer[x] # "open"
  /\ offer' = [offer EXCEPT ![o] = "open"]
  /\ wave' = [wave EXCEPT ![o] = 1]
  /\ asked' = asked \cup {<<o, d>> : d \in picked[w]}
  /\ queue' = [queue EXCEPT ![Of(o)] = IF @ = "pending" THEN "dispatched" ELSE @]
  /\ UNCHANGED <<tomb, drops, due, winner, won, tripVars>>

CreateRefused(w) ==
  /\ End(w, "create")
  /\ \E x \in Offer : Of(x) = item[w] /\ offer[x] = "open"
  /\ UNCHANGED <<queue, tomb, drops, offerVars, tripVars>>

Elapse(o) ==
  /\ offer[o] = "open"
  /\ due' = due \cup {o}
  /\ o \notin due
  /\ UNCHANGED <<queue, tomb, drops, offer, wave, asked, winner, won, tripVars, workVars>>

-----------------------------------------------------------------------------
(* claim: one transaction.  The compare-and-swap needs the offer open and   *)
(* in time, and the insert of the assignment needs the driver free, or all  *)
(* of it is rolled back.  The trip is born accepted, and its events are     *)
(* published after the commit; a failure to do so is logged.                *)

\* Mutant: the UPDATE without `status = 'open'' in its predicate.
Claim_AnyStatus(w, o, t) ==
  /\ <<o, By(t)>> \in asked
  /\ o \notin due
  /\ Of(t) = Of(o)
  /\ Fresh(t)
  /\ Free(By(t))
  /\ Begin(w, "announce", t)
  /\ offer' = [offer EXCEPT ![o] = "claimed"]
  /\ winner' = [winner EXCEPT ![o] = t]
  /\ won' = won \cup {<<o, t>>}
  /\ trip' = [trip EXCEPT ![t] = "accepted"]
  /\ route' = route \cup {t}
  /\ queue' = [queue EXCEPT ![Of(o)] = "dispatched"]
  /\ UNCHANGED <<tomb, drops, due, wave, asked, told>>

Claim(w, o, t) ==
  /\ <<o, By(t)>> \in asked
  /\ offer[o] = "open" /\ o \notin due
  /\ Of(t) = Of(o)
  /\ Fresh(t)
  /\ Free(By(t))
  /\ Begin(w, "announce", t)
  /\ offer' = [offer EXCEPT ![o] = "claimed"]
  /\ winner' = [winner EXCEPT ![o] = t]
  /\ won' = won \cup {<<o, t>>}
  /\ trip' = [trip EXCEPT ![t] = "accepted"]
  /\ route' = route \cup {t}
  /\ queue' = [queue EXCEPT ![Of(o)] = "dispatched"]
  /\ UNCHANGED <<tomb, drops, due, wave, asked, told>>

AnnounceClaim(w) ==
  /\ End(w, "announce")
  /\ \/ told' = told \cup {item[w]}
     \/ w \in Mortal /\ UNCHANGED told
  /\ UNCHANGED <<queue, tomb, drops, offerVars, trip, route>>

-----------------------------------------------------------------------------
(* sweep: the offers that are due are listed, and each is escalated to the  *)
(* next wave if anyone new is near, or else expired, after which its        *)
(* shipment goes back to the queue.  Each replica sweeps.                   *)

ListDue(v, o) ==
  /\ pc[v] = "idle"
  /\ offer[o] = "open" /\ o \in due
  /\ pc' = [pc EXCEPT ![v] = "widen"]
  /\ item' = [item EXCEPT ![v] = o]
  /\ seen' = [seen EXCEPT ![v] = wave[o]]
  /\ UNCHANGED <<queue, tomb, drops, offerVars, tripVars, picked>>

Widen(v, near) ==
  /\ pc[v] = "widen"
  /\ seen[v] < MaxWave
  /\ near # {}
  /\ \A d \in near : Eligible(Of(item[v]), d) /\ <<item[v], d>> \notin asked
  /\ pc' = [pc EXCEPT ![v] = "escalate"]
  /\ picked' = [picked EXCEPT ![v] = near]
  /\ UNCHANGED <<queue, tomb, drops, offerVars, tripVars, item, seen>>

\* The last wave, or nobody new is near, or the lookup failed.
WidenNone(v) ==
  /\ Continue(v, "widen", "expire", item[v])
  /\ UNCHANGED <<queue, tomb, drops, offerVars, tripVars>>

\* Mutant: the UPDATE without `status = 'open'' in its predicate.
EscalateWave_AnyStatus(v) ==
  LET o == item[v] IN
  /\ End(v, "escalate")
  /\ wave' = [wave EXCEPT ![o] = seen[v] + 1]
  /\ due' = due \ {o}
  /\ asked' = asked \cup {<<o, d>> : d \in picked[v]}
  /\ UNCHANGED <<queue, tomb, drops, offer, winner, won, tripVars>>

EscalateWave(v) ==
  LET o == item[v] IN
  /\ End(v, "escalate")
  /\ offer[o] = "open"
  /\ wave' = [wave EXCEPT ![o] = seen[v] + 1]
  /\ due' = due \ {o}
  /\ asked' = asked \cup {<<o, d>> : d \in picked[v]}
  /\ UNCHANGED <<queue, tomb, drops, offer, winner, won, tripVars>>

\* The offer was closed meanwhile: fall through to expire.
EscalateLost(v) ==
  /\ Continue(v, "escalate", "expire", item[v])
  /\ offer[item[v]] # "open"
  /\ UNCHANGED <<queue, tomb, drops, offerVars, tripVars>>

\* Mutant: the shipment stays parked.
Expire_KeepsParked(v) ==
  LET o == item[v] IN
  /\ End(v, "expire")
  /\ offer[o] = "open"
  /\ offer' = [offer EXCEPT ![o] = "expired"]
  /\ due' = due \ {o}
  /\ UNCHANGED <<queue, tomb, drops, wave, asked, winner, won, tripVars>>

Expire(v) ==
  LET o == item[v] IN
  /\ Continue(v, "expire", "reset", o)
  /\ offer[o] = "open"
  /\ offer' = [offer EXCEPT ![o] = "expired"]
  /\ due' = due \ {o}
  /\ UNCHANGED <<queue, tomb, drops, wave, asked, winner, won, tripVars>>

ExpireLost(v) ==
  /\ End(v, "expire")
  /\ offer[item[v]] # "open"
  /\ UNCHANGED <<queue, tomb, drops, offerVars, tripVars>>

Reset(v) ==
  /\ End(v, "reset")
  /\ queue' = [queue EXCEPT ![Of(item[v])] =
                 IF @ \in {"none", "cancelled"} THEN @ ELSE "pending"]
  /\ UNCHANGED <<tomb, drops, offerVars, tripVars>>

\* A task or a sweep ends here: its process stops, or a call fails.
Stop(w) ==
  /\ w \in Mortal
  /\ pc[w] # "idle"
  /\ Done(w)
  /\ UNCHANGED <<queue, tomb, drops, offerVars, tripVars>>

-----------------------------------------------------------------------------
(* accept_assignment and reject_assignment read the row, and save all of it *)
(* later; accept saves the route after it.                                  *)

ReadAnswer(w, t, step) ==
  /\ step \in {"accept", "reject"}
  /\ trip[t] = "pending"
  /\ Begin(w, step, t)
  /\ UNCHANGED <<queue, tomb, drops, offerVars, tripVars>>

\* The upsert may revive a row cancelled meanwhile, unless the index refuses.  The
\* trigger trg_assignment_accepted starts the route of a row that was pending.
SaveAccept(w) ==
  /\ Continue(w, "accept", "start", item[w])
  /\ Active(item[w]) \/ Free(By(item[w]))
  /\ trip' = [trip EXCEPT ![item[w]] = "accepted"]
  /\ route' = IF trip[item[w]] = "pending" THEN route \cup {item[w]} ELSE route
  /\ UNCHANGED <<queue, tomb, drops, offerVars, told>>

AcceptRefused(w) ==
  /\ End(w, "accept")
  /\ ~Active(item[w]) /\ ~Free(By(item[w]))
  /\ UNCHANGED <<queue, tomb, drops, offerVars, tripVars>>

StartRoute(w) ==
  /\ End(w, "start")
  /\ route' = route \cup {item[w]}
  /\ UNCHANGED <<queue, tomb, drops, offerVars, trip, told>>

\* The queue row is left as it is.
SaveReject(w) ==
  /\ End(w, "reject")
  /\ trip' = [trip EXCEPT ![item[w]] = "rejected"]
  /\ UNCHANGED <<queue, tomb, drops, offerVars, route, told>>

-----------------------------------------------------------------------------
(* Single statements of the consoles and of the orphan cleanup.             *)

Ends(gone) == trip' = [t \in Trip |-> IF t \in gone /\ Active(t) THEN "cancelled" ELSE trip[t]]

CancelDriver(d) ==
  /\ ~Free(d)
  /\ Ends({t \in Trip : By(t) = d})
  /\ UNCHANGED <<queue, tomb, drops, offerVars, route, told, workVars>>

CancelOrphan(t) ==
  /\ trip[t] = "pending"
  /\ Ends({t})
  /\ UNCHANGED <<queue, tomb, drops, offerVars, route, told, workVars>>

CancelRoute(t) ==
  /\ t \in route
  /\ route' = route \ {t}
  /\ UNCHANGED <<queue, tomb, drops, offerVars, trip, told, workVars>>

\* cancel_dispatch of the console; reset_to_pending of requeue_shipment alike.
CancelDispatch(s) ==
  /\ queue[s] = "dispatched"
  /\ queue' = [queue EXCEPT ![s] = "pending"]
  /\ UNCHANGED <<tomb, drops, offerVars, tripVars, workVars>>

-----------------------------------------------------------------------------
(* What the other services publish.                                         *)

\* job.dropped, of a trip driver-ops was told of: one transaction.  A drop
\* already on record changes nothing.
HandleDrop(t) ==
  /\ t \in told /\ t \notin drops
  /\ drops' = drops \cup {t}
  /\ Ends({t})
  /\ route' = route \ {t}
  /\ queue' = [queue EXCEPT ![Of(t)] = IF @ = "dispatched" THEN "pending" ELSE @]
  /\ UNCHANGED <<tomb, offerVars, told, workVars>>

\* shipment.cancelled: one transaction, at any time and more than once.  A
\* route is found by a task driver-ops has written of it, or by its claim.
HandleCancelled(s, known) ==
  LET found == {t \in route : Of(t) = s /\ (t \in known \/ \E o \in Offer : winner[o] = t)}
  IN  /\ tomb' = tomb \cup {s}
      /\ queue' = [queue EXCEPT ![s] = IF @ = "none" THEN @ ELSE "cancelled"]
      /\ offer' = [o \in Offer |-> IF Of(o) = s /\ offer[o] = "open" THEN "cancelled" ELSE offer[o]]
      /\ due' = {o \in due : Of(o) # s}
      /\ Ends(found)
      /\ route' = route \ found
      /\ UNCHANGED <<drops, wave, asked, winner, won, told, workVars>>

-----------------------------------------------------------------------------
Sweep(v) ==
  \/ \E o \in Offer : ListDue(v, o)
  \/ \E near \in SUBSET Gig : Widen(v, near)
  \/ WidenNone(v) \/ EscalateWave(v) \/ EscalateLost(v)
  \/ Expire(v) \/ ExpireLost(v) \/ Reset(v)

Dispatch(w) ==
  \/ \E s \in Shipment : CheckTomb(w, s) \/ ReadQueue(w, s) \/ ReadForBroadcast(w, s)
  \/ Enqueue(w)
  \/ \E t \in Trip, named \in BOOLEAN : Pick(w, t, named)
  \/ PickNone(w) \/ SaveTrip(w) \/ SaveRefused(w)
  \/ EmitAssigned(w) \/ MarkDispatched(w)
  \/ \E near \in SUBSET Gig : SelectCandidates(w, near)
  \/ SelectNone(w) \/ CreateRefused(w)
  \/ \E o \in Offer : CreateOffer(w, o)

Answer(w) ==
  \/ \E o \in Offer, t \in Trip : Claim(w, o, t)
  \/ AnnounceClaim(w)
  \/ \E t \in Trip : ReadAnswer(w, t, "accept") \/ ReadAnswer(w, t, "reject")
  \/ SaveAccept(w) \/ AcceptRefused(w) \/ StartRoute(w) \/ SaveReject(w)

\* The consoles and the other services.
Outside ==
  \/ \E d \in Driver : CancelDriver(d)
  \/ \E t \in Trip : CancelOrphan(t) \/ CancelRoute(t) \/ HandleDrop(t)
  \/ \E s \in Shipment : CancelDispatch(s)
  \/ \E s \in Shipment, known \in SUBSET told : HandleCancelled(s, known)

\* A task is cut off, or its broker fails it.
Failure ==
  \/ \E w \in Worker : Stop(w)
  \/ \E w \in Desk : EmitFails(w)

Next ==
  \/ /\ \/ \E v \in Sweeper : Sweep(v)
        \/ \E w \in Desk : Dispatch(w)
        \/ \E w \in Phone : Answer(w)
        \/ \E o \in Offer : Elapse(o)
     /\ UNCHANGED events
  \/ events < MaxEvent /\ events' = events + 1 /\ (Outside \/ Failure)

Spec == Init /\ [][Next]_vars

-----------------------------------------------------------------------------
(* Correctness. *)

\* The grab is exclusive, whichever sweeps, cancellations and other claims ran
\* against its compare-and-swap: of all the claims that were answered as won, an
\* offer counts one if it says claimed and none if not.  That claim is by the driver
\* the row names, who was asked, and its trip was assigned with it.  And "a driver
\* tapping two offers simultaneously gets exactly one": no other offer they won is
\* theirs beside it.
ClaimIsExclusive ==
  /\ \A o \in Offer :
       Cardinality({c \in won : c[1] = o}) = IF offer[o] = "claimed" THEN 1 ELSE 0
  /\ \A c \in won :
       LET o == c[1]
           t == c[2]
       IN  /\ winner[o] = t
           /\ Of(t) = Of(o) /\ <<o, By(t)>> \in asked
           /\ trip[t] \in {"accepted", "cancelled"}
           /\ Active(t) => \A b \in won : By(b[2]) = By(t) /\ Active(b[2]) => b = c

\* "A driver can only be assigned to one active route at a time": across quick
\* dispatch, which checks long before it saves, claims, and an acceptance whose
\* save revives a row that was cancelled under it.
OneActiveTrip ==
  \A t1, t2 \in Trip : By(t1) = By(t2) /\ Active(t1) /\ Active(t2) => t1 = t2

\* Two sweeps, a claim and a cancellation meet on one offer: it is closed once,
\* and from then on nothing about it changes, neither its wave nor whom it asked.
OfferClosesOnce ==
  [][\A o \in Offer :
       /\ offer'[o] # offer[o] =>
            <<offer[o], offer'[o]>> \in
              {<<"none", "open">>} \cup ({"open"} \X {"claimed", "expired", "cancelled"})
       /\ offer[o] \notin {"none", "open"} =>
            /\ wave'[o] = wave[o] /\ winner'[o] = winner[o]
            /\ \A d \in Driver : <<o, d>> \in asked' => <<o, d>> \in asked]_vars

\* "Unclaimed offers expire back to 'pending' and the dispatch sweep then
\* 1:1-assigns them, so nothing is lost".  A shipment is out of the sweep's sight
\* only while an offer of it is open, once a driver has been assigned, or in the
\* middle of a sweep: if no sweep stops there, no offer leaves it parked.
NothingIsLost ==
  Sweeper \cap Mortal = {} =>
    \A s \in Shipment :
      queue[s] = "dispatched" =>
        \/ \E o \in Offer : Of(o) = s /\ offer[o] = "open"
        \/ \E t \in Trip : Of(t) = s /\ trip[t] # "none"
        \/ \E v \in Sweeper : pc[v] = "reset" /\ Of(item[v]) = s
=============================================================================
