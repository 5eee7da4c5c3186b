-------------------------- MODULE DispatchQueueProofs --------------------------
(***************************************************************************)
(* What holds of DispatchQueue for any number of shipments, drivers,       *)
(* broadcasts, replicas and waves, and whatever stops midway.              *)
(***************************************************************************)
EXTENDS DispatchQueue, FiniteSetTheorems, TLAPS

-----------------------------------------------------------------------------
(* What the steps are about, and how a task's own variables move.           *)

\* The parts of a trip or of an offer are of their sets.
LEMMA Parts ==
  /\ \A t \in Trip : Of(t) \in Shipment /\ By(t) \in Driver
  /\ \A o \in Offer : Of(o) \in Shipment
BY DEF Of, By, Trip, Offer

\* About, step by step.
LEMMA Abouts ==
  /\ About("idle") = {None}
  /\ \A p \in {"enqueue", "pick", "mark", "select", "create"} : About(p) = Shipment
  /\ \A p \in {"save", "emit", "announce", "accept", "start", "reject"} : About(p) = Trip
  /\ \A p \in {"widen", "escalate", "expire", "reset"} : About(p) = Offer
  /\ \A p \in Step : About(p) \subseteq Shipment \cup Offer \cup Trip \cup {None}
<1>1. ASSUME NEW p \in {"enqueue", "pick", "mark", "select", "create"}
      PROVE  About(p) = Shipment
  BY <1>1 DEF About
<1>2. ASSUME NEW p \in {"save", "emit", "announce", "accept", "start", "reject"}
      PROVE  About(p) = Trip
  BY <1>2 DEF About
<1>3. ASSUME NEW p \in {"widen", "escalate", "expire", "reset"}
      PROVE  About(p) = Offer
  BY <1>3 DEF About
<1>4. About("idle") = {None}
  BY DEF About
<1>5. QED
  BY <1>1, <1>2, <1>3, <1>4 DEF Step

LEMMA InitType == Init => TypeOK
BY WaveAssumption, EventAssumption, Abouts
   DEF Init, TypeOK, RowsOK, WorkOK, QueueStatus, OfferStatus, TripStatus, Step

\* A task that takes up, or goes on with, what its next step is about.
LEMMA MovesWork ==
  ASSUME WorkOK, NEW w \in Worker, NEW from, NEW to \in Step \ {"escalate"}, NEW about \in About(to),
         Begin(w, to, about) \/ Continue(w, from, to, about)
  PROVE  WorkOK'
BY Abouts DEF WorkOK, Begin, Continue

\* A task that ends.
LEMMA DoneWork ==
  ASSUME WorkOK, NEW w \in Worker, Done(w)
  PROVE  WorkOK'
BY Abouts, WaveAssumption DEF WorkOK, Done, Step

LEMMA SkipWork ==
  ASSUME WorkOK, UNCHANGED workVars
  PROVE  WorkOK'
BY DEF WorkOK, workVars

LEMMA SkipRows ==
  ASSUME RowsOK, UNCHANGED <<queue, tomb, drops, offerVars, tripVars>>
  PROVE  RowsOK'
BY DEF RowsOK, offerVars, tripVars

\* Ending assignments keeps the type of the table.
LEMMA EndsTrips ==
  ASSUME trip \in [Trip -> TripStatus], NEW gone, Ends(gone)
  PROVE  trip' \in [Trip -> TripStatus]
BY DEF Ends, TripStatus

-----------------------------------------------------------------------------
(* Types: each group of actions keeps the rows and the tasks well formed.   *)

LEMMA DispatchType ==
  ASSUME RowsOK, WorkOK, NEW w \in Desk, Dispatch(w) \/ EmitFails(w)
  PROVE  RowsOK' /\ WorkOK'
<1> w \in Worker
  BY DEF Worker
<1>1. ASSUME NEW s \in Shipment, CheckTomb(w, s) \/ ReadQueue(w, s) \/ ReadForBroadcast(w, s)
      PROVE  RowsOK' /\ WorkOK'
  BY <1>1, Abouts, MovesWork, SkipRows DEF CheckTomb, ReadQueue, ReadForBroadcast, Step
<1>2. CASE Enqueue(w)
  <2>1. item[w] \in Shipment
    BY <1>2, Abouts DEF Enqueue, End, WorkOK
  <2>2. RowsOK'
    BY <1>2, <2>1 DEF Enqueue, RowsOK, QueueStatus, offerVars, tripVars
  <2>3. QED
    BY <1>2, <2>2, DoneWork DEF Enqueue, End
<1>3. ASSUME NEW t \in Trip, NEW named \in BOOLEAN, Pick(w, t, named)
      PROVE  RowsOK' /\ WorkOK'
  <2>1. WorkOK'
    BY <1>3, Abouts, MovesWork DEF Pick, Step
  <2>2. RowsOK'
    BY <1>3 DEF Pick, RowsOK, offerVars
  <2>3. QED
    BY <2>1, <2>2
<1>4. CASE PickNone(w) \/ SaveRefused(w) \/ SelectNone(w) \/ CreateRefused(w)
  BY <1>4, DoneWork, SkipRows DEF PickNone, SaveRefused, SelectNone, CreateRefused, End
<1>5. CASE SaveTrip(w)
  <2>1. item[w] \in Trip
    BY <1>5, Abouts DEF SaveTrip, Continue, WorkOK
  <2>2. WorkOK'
    BY <1>5, <2>1, Abouts, MovesWork DEF SaveTrip, Step
  <2>3. RowsOK'
    BY <1>5, <2>1 DEF SaveTrip, RowsOK, TripStatus, offerVars
  <2>4. QED
    BY <2>2, <2>3
<1>6. CASE EmitAssigned(w)
  <2>1. item[w] \in Trip
    BY <1>6, Abouts DEF EmitAssigned, Continue, WorkOK
  <2>2. WorkOK'
    BY <1>6, <2>1, Parts, Abouts, MovesWork DEF EmitAssigned, Step
  <2>3. RowsOK'
    BY <1>6, <2>1 DEF EmitAssigned, RowsOK, offerVars
  <2>4. QED
    BY <2>2, <2>3
<1>7. CASE EmitFails(w)
  <2>1. item[w] \in Trip
    BY <1>7, Abouts DEF EmitFails, End, WorkOK
  <2>2. RowsOK'
    BY <1>7, <2>1 DEF EmitFails, RowsOK, offerVars
  <2>3. QED
    BY <1>7, <2>2, DoneWork DEF EmitFails, End
<1>8. CASE MarkDispatched(w)
  <2>1. item[w] \in Shipment
    BY <1>8, Abouts DEF MarkDispatched, End, WorkOK
  <2>2. RowsOK'
    BY <1>8, <2>1 DEF MarkDispatched, RowsOK, QueueStatus, offerVars, tripVars
  <2>3. QED
    BY <1>8, <2>2, DoneWork DEF MarkDispatched, End
<1>9. ASSUME NEW near \in SUBSET Gig, SelectCandidates(w, near)
      PROVE  RowsOK' /\ WorkOK'
  <2>1. WorkOK'
    BY <1>9, Abouts DEF SelectCandidates, WorkOK, Step
  <2>2. QED
    BY <1>9, <2>1, SkipRows DEF SelectCandidates
<1>10. ASSUME NEW o \in Offer, CreateOffer(w, o)
       PROVE  RowsOK' /\ WorkOK'
  <2>1. WorkOK'
    BY <1>10, DoneWork DEF CreateOffer, End
  <2>2. asked' \subseteq Offer \X Gig
    BY <1>10 DEF CreateOffer, RowsOK, WorkOK
  <2>3. RowsOK'
    BY <1>10, <2>2, Parts, WaveAssumption
       DEF CreateOffer, RowsOK, QueueStatus, OfferStatus, tripVars
  <2>4. QED
    BY <2>1, <2>3
<1>11. QED
  BY <1>1, <1>2, <1>3, <1>4, <1>5, <1>6, <1>7, <1>8, <1>9, <1>10 DEF Dispatch

LEMMA AnswerType ==
  ASSUME RowsOK, WorkOK, NEW w \in Phone, Answer(w)
  PROVE  RowsOK' /\ WorkOK'
<1> w \in Worker
  BY DEF Worker
<1>1. ASSUME NEW o \in Offer, NEW t \in Trip, Claim(w, o, t)
      PROVE  RowsOK' /\ WorkOK'
  <2>1. WorkOK'
    BY <1>1, Abouts, MovesWork DEF Claim, Step
  <2>2. RowsOK'
    BY <1>1, Parts DEF Claim, RowsOK, QueueStatus, OfferStatus, TripStatus
  <2>3. QED
    BY <2>1, <2>2
<1>2. CASE AnnounceClaim(w)
  <2>1. item[w] \in Trip
    BY <1>2, Abouts DEF AnnounceClaim, End, WorkOK
  <2>2. RowsOK'
    BY <1>2, <2>1 DEF AnnounceClaim, RowsOK, offerVars
  <2>3. QED
    BY <1>2, <2>2, DoneWork DEF AnnounceClaim, End
<1>3. ASSUME NEW t \in Trip, ReadAnswer(w, t, "accept") \/ ReadAnswer(w, t, "reject")
      PROVE  RowsOK' /\ WorkOK'
  BY <1>3, Abouts, MovesWork, SkipRows DEF ReadAnswer, Step
<1>4. CASE SaveAccept(w)
  <2>1. item[w] \in Trip
    BY <1>4, Abouts DEF SaveAccept, Continue, WorkOK
  <2>2. WorkOK'
    BY <1>4, <2>1, Abouts, MovesWork DEF SaveAccept, Step
  <2>3. RowsOK'
    BY <1>4, <2>1 DEF SaveAccept, RowsOK, TripStatus, offerVars
  <2>4. QED
    BY <2>2, <2>3
<1>5. CASE AcceptRefused(w)
  BY <1>5, DoneWork, SkipRows DEF AcceptRefused, End
<1>6. CASE StartRoute(w)
  <2>1. item[w] \in Trip
    BY <1>6, Abouts DEF StartRoute, End, WorkOK
  <2>2. RowsOK'
    BY <1>6, <2>1 DEF StartRoute, RowsOK, offerVars
  <2>3. QED
    BY <1>6, <2>2, DoneWork DEF StartRoute, End
<1>7. CASE SaveReject(w)
  <2>1. item[w] \in Trip
    BY <1>7, Abouts DEF SaveReject, End, WorkOK
  <2>2. RowsOK'
    BY <1>7, <2>1 DEF SaveReject, RowsOK, TripStatus, offerVars
  <2>3. QED
    BY <1>7, <2>2, DoneWork DEF SaveReject, End
<1>8. QED
  BY <1>1, <1>2, <1>3, <1>4, <1>5, <1>6, <1>7 DEF Answer

LEMMA SweepType ==
  ASSUME RowsOK, WorkOK, NEW v \in Sweeper, Sweep(v)
  PROVE  RowsOK' /\ WorkOK'
<1> v \in Worker
  BY DEF Worker
<1>1. ASSUME NEW o \in Offer, ListDue(v, o)
      PROVE  RowsOK' /\ WorkOK'
  <2>1. WorkOK'
    BY <1>1, Abouts DEF ListDue, WorkOK, RowsOK, Step
  <2>2. QED
    BY <1>1, <2>1, SkipRows DEF ListDue
<1>2. ASSUME NEW near \in SUBSET Gig, Widen(v, near)
      PROVE  RowsOK' /\ WorkOK'
  <2>1. WorkOK'
    BY <1>2, Abouts DEF Widen, WorkOK, Step
  <2>2. QED
    BY <1>2, <2>1, SkipRows DEF Widen
<1>3. CASE WidenNone(v)
  <2>1. item[v] \in Offer
    BY <1>3, Abouts DEF WidenNone, Continue, WorkOK
  <2>2. QED
    BY <1>3, <2>1, Abouts, MovesWork, SkipRows DEF WidenNone, Step
<1>4. CASE EscalateWave(v)
  <2>1. item[v] \in Offer
    BY <1>4, Abouts DEF EscalateWave, End, WorkOK
  <2>2. RowsOK'
    <3>1. asked' \subseteq Offer \X Gig
      BY <1>4, <2>1 DEF EscalateWave, RowsOK, WorkOK
    <3>2. seen[v] + 1 \in 0..MaxWave
      BY <1>4, WaveAssumption DEF EscalateWave, End, WorkOK
    <3>3. QED
      BY <1>4, <2>1, <3>1, <3>2 DEF EscalateWave, RowsOK, tripVars
  <2>3. QED
    BY <1>4, <2>2, DoneWork DEF EscalateWave, End
<1>5. CASE EscalateLost(v)
  <2>1. item[v] \in Offer
    BY <1>5, Abouts DEF EscalateLost, Continue, WorkOK
  <2>2. QED
    BY <1>5, <2>1, Abouts, MovesWork, SkipRows DEF EscalateLost, Step
<1>6. CASE Expire(v)
  <2>1. item[v] \in Offer
    BY <1>6, Abouts DEF Expire, Continue, WorkOK
  <2>2. WorkOK'
    BY <1>6, <2>1, Abouts, MovesWork DEF Expire, Step
  <2>3. RowsOK'
    BY <1>6, <2>1 DEF Expire, RowsOK, OfferStatus, tripVars
  <2>4. QED
    BY <2>2, <2>3
<1>7. CASE ExpireLost(v)
  BY <1>7, DoneWork, SkipRows DEF ExpireLost, End
<1>8. CASE Reset(v)
  <2>1. item[v] \in Offer
    BY <1>8, Abouts DEF Reset, End, WorkOK
  <2>2. RowsOK'
    BY <1>8, <2>1, Parts DEF Reset, RowsOK, QueueStatus, offerVars, tripVars
  <2>3. QED
    BY <1>8, <2>2, DoneWork DEF Reset, End
<1>9. QED
  BY <1>1, <1>2, <1>3, <1>4, <1>5, <1>6, <1>7, <1>8 DEF Sweep

LEMMA OutsideType ==
  ASSUME RowsOK, WorkOK, Outside
  PROVE  RowsOK' /\ WorkOK'
<1>1. WorkOK'
  BY SkipWork DEF Outside, CancelDriver, CancelOrphan, CancelRoute, HandleDrop,
                  CancelDispatch, HandleCancelled
<1>2. ASSUME NEW d \in Driver, CancelDriver(d)
      PROVE  RowsOK'
  BY <1>2, EndsTrips DEF CancelDriver, RowsOK, offerVars
<1>3. ASSUME NEW t \in Trip, CancelOrphan(t)
      PROVE  RowsOK'
  BY <1>3, EndsTrips DEF CancelOrphan, RowsOK, offerVars
<1>4. ASSUME NEW t \in Trip, CancelRoute(t)
      PROVE  RowsOK'
  BY <1>4 DEF CancelRoute, RowsOK, offerVars
<1>5. ASSUME NEW t \in Trip, HandleDrop(t)
      PROVE  RowsOK'
  BY <1>5, EndsTrips, Parts DEF HandleDrop, RowsOK, QueueStatus, offerVars
<1>6. ASSUME NEW s \in Shipment, CancelDispatch(s)
      PROVE  RowsOK'
  BY <1>6 DEF CancelDispatch, RowsOK, QueueStatus, offerVars, tripVars
<1>7. ASSUME NEW s \in Shipment, NEW known \in SUBSET told, HandleCancelled(s, known)
      PROVE  RowsOK'
  BY <1>7, EndsTrips DEF HandleCancelled, RowsOK, QueueStatus, OfferStatus
<1>8. QED
  BY <1>1, <1>2, <1>3, <1>4, <1>5, <1>6, <1>7 DEF Outside

LEMMA StopWork ==
  ASSUME RowsOK, WorkOK, NEW w \in Worker, Stop(w)
  PROVE  RowsOK' /\ WorkOK'
BY DoneWork, SkipRows DEF Stop

LEMMA ElapseType ==
  ASSUME RowsOK, WorkOK, NEW o \in Offer, Elapse(o)
  PROVE  RowsOK' /\ WorkOK'
<1>1. WorkOK'
  BY SkipWork DEF Elapse
<1>2. RowsOK'
  BY DEF Elapse, RowsOK, tripVars
<1>3. QED
  BY <1>1, <1>2

LEMMA StepType ==
  ASSUME TypeOK, [Next]_vars
  PROVE  TypeOK'
<1>1. CASE UNCHANGED vars
  BY <1>1, SkipWork, SkipRows DEF vars, TypeOK
<1>2. CASE Next
  <2>1. RowsOK' /\ WorkOK'
    BY <1>2, DispatchType, AnswerType, SweepType, OutsideType, StopWork, ElapseType
       DEF Next, Failure, TypeOK
  <2>2. events' \in 0..MaxEvent
    BY <1>2, EventAssumption DEF Next, TypeOK
  <2>3. QED
    BY <2>1, <2>2 DEF TypeOK
<1>3. QED
  BY <1>1, <1>2

\* Every step of every task, sweep, driver and console leaves the rows and the
\* tasks' own reads well formed: a task never acts on an item of another kind
\* than its step is about.
THEOREM TypeCorrect == Spec => []TypeOK
BY InitType, StepType, PTL DEF Spec

-----------------------------------------------------------------------------
(* Which steps touch the assignments, and how.                              *)

LEMMA TripMoves ==
  ASSUME Next
  PROVE  \/ UNCHANGED trip
         \/ \E w \in Desk : SaveTrip(w)
         \/ \E w \in Phone : SaveAccept(w) \/ SaveReject(w)
         \/ \E w \in Phone, o \in Offer, t \in Trip : Claim(w, o, t)
         \/ \E gone \in SUBSET Trip : Ends(gone)
<1>1. ASSUME NEW v \in Sweeper, Sweep(v)
      PROVE  UNCHANGED trip
  BY <1>1 DEF Sweep, ListDue, Widen, WidenNone, EscalateWave, EscalateLost, Expire,
              ExpireLost, Reset, tripVars
<1>2. ASSUME NEW w \in Desk, Dispatch(w) \/ EmitFails(w)
      PROVE  UNCHANGED trip \/ SaveTrip(w)
  BY <1>2 DEF Dispatch, CheckTomb, ReadQueue, ReadForBroadcast, Enqueue, Pick, PickNone,
              SaveRefused, EmitAssigned, EmitFails, MarkDispatched, SelectCandidates,
              SelectNone, CreateRefused, CreateOffer, tripVars
<1>3. ASSUME NEW w \in Phone, Answer(w)
      PROVE  \/ UNCHANGED trip
             \/ SaveAccept(w) \/ SaveReject(w)
             \/ \E o \in Offer, t \in Trip : Claim(w, o, t)
  BY <1>3 DEF Answer, AnnounceClaim, ReadAnswer, AcceptRefused, StartRoute, tripVars
<1>4. ASSUME Outside
      PROVE  UNCHANGED trip \/ \E gone \in SUBSET Trip : Ends(gone)
  <2>1. ASSUME NEW d \in Driver, CancelDriver(d)
        PROVE  \E gone \in SUBSET Trip : Ends(gone)
    <3>1. {t \in Trip : By(t) = d} \in SUBSET Trip
      OBVIOUS
    <3>2. QED
      BY <2>1, <3>1 DEF CancelDriver
  <2>2. ASSUME NEW t \in Trip, CancelOrphan(t) \/ HandleDrop(t)
        PROVE  \E gone \in SUBSET Trip : Ends(gone)
    BY <2>2 DEF CancelOrphan, HandleDrop
  <2>3. ASSUME NEW s \in Shipment, NEW known \in SUBSET told, HandleCancelled(s, known)
        PROVE  UNCHANGED trip \/ \E gone \in SUBSET Trip : Ends(gone)
    <3> DEFINE found == {t \in route : Of(t) = s /\ (t \in known \/ \E o \in Offer : winner[o] = t)}
    <3>1. Ends(found)
      BY <2>3 DEF HandleCancelled
    <3>2. Ends(found \cap Trip)
      BY <3>1 DEF Ends
    <3>3. QED
      BY <3>2
  <2>4. ASSUME NEW t \in Trip, CancelRoute(t)
        PROVE  UNCHANGED trip
    BY <2>4 DEF CancelRoute
  <2>5. ASSUME NEW s \in Shipment, CancelDispatch(s)
        PROVE  UNCHANGED trip
    BY <2>5 DEF CancelDispatch, tripVars
  <2>6. QED
    BY <1>4, <2>1, <2>2, <2>3, <2>4, <2>5 DEF Outside
<1>5. ASSUME NEW w \in Worker, Stop(w)
      PROVE  UNCHANGED trip
  BY <1>5 DEF Stop, tripVars
<1>6. ASSUME NEW o \in Offer, Elapse(o)
      PROVE  UNCHANGED trip
  BY <1>6 DEF Elapse, tripVars
<1>7. QED
  BY <1>1, <1>2, <1>3, <1>4, <1>5, <1>6 DEF Next, Failure

\* No step takes an assignment back out of the table.
LEMMA TripsStay ==
  ASSUME TypeOK, Next, NEW t \in Trip, trip[t] # "none"
  PROVE  trip'[t] # "none"
<1>1. ASSUME NEW w \in Worker, SaveTrip(w) \/ SaveAccept(w) \/ SaveReject(w)
      PROVE  trip'[t] # "none"
  BY <1>1 DEF SaveTrip, SaveAccept, SaveReject, TypeOK, RowsOK
<1>2. ASSUME NEW w \in Worker, NEW o \in Offer, NEW u \in Trip, Claim(w, o, u)
      PROVE  trip'[t] # "none"
  BY <1>2 DEF Claim, TypeOK, RowsOK
<1>3. ASSUME NEW gone, Ends(gone)
      PROVE  trip'[t] # "none"
  BY <1>3 DEF Ends
<1>4. QED
  BY <1>1, <1>2, <1>3, TripMoves DEF Worker

-----------------------------------------------------------------------------
(* One active assignment of a driver.                                       *)

LEMMA OneActiveStep ==
  ASSUME TypeOK, OneActiveTrip, [Next]_vars
  PROVE  OneActiveTrip'
<1>1. CASE UNCHANGED trip
  BY <1>1 DEF OneActiveTrip, Active
<1>2. ASSUME NEW w \in Worker, SaveTrip(w) \/ SaveAccept(w)
      PROVE  OneActiveTrip'
  <2>1. item[w] \in Trip
    BY <1>2, Abouts DEF SaveTrip, SaveAccept, Continue, TypeOK, WorkOK
  <2>2. \A t \in Trip \ {item[w]} : trip'[t] = trip[t]
    BY <1>2, <2>1 DEF SaveTrip, SaveAccept, TypeOK, RowsOK
  <2>3. Active(item[w]) \/ Free(By(item[w]))
    BY <1>2 DEF SaveTrip, SaveAccept
  <2>4. \A t \in Trip \ {item[w]} : By(t) = By(item[w]) => ~Active(t)
    BY <2>1, <2>3 DEF OneActiveTrip, Free
  <2>5. QED
    BY <2>1, <2>2, <2>4 DEF OneActiveTrip, Active
<1>3. ASSUME NEW w \in Worker, SaveReject(w)
      PROVE  OneActiveTrip'
  BY <1>3 DEF SaveReject, OneActiveTrip, Active, TypeOK, RowsOK
<1>4. ASSUME NEW w \in Worker, NEW o \in Offer, NEW t \in Trip, Claim(w, o, t)
      PROVE  OneActiveTrip'
  <2>1. Free(By(t)) /\ \A u \in Trip \ {t} : trip'[u] = trip[u]
    BY <1>4 DEF Claim, TypeOK, RowsOK
  <2>2. QED
    BY <2>1 DEF OneActiveTrip, Active, Free
<1>5. ASSUME NEW gone, Ends(gone)
      PROVE  OneActiveTrip'
  BY <1>5 DEF Ends, OneActiveTrip, Active
<1>6. QED
  BY <1>1, <1>2, <1>3, <1>4, <1>5, TripMoves DEF Worker, vars, tripVars

\* A driver never has two active assignments: the check of quick dispatch is
\* made long before its save, and the save of an acceptance may revive a row.
THEOREM OneActive == Spec => []OneActiveTrip
<1>1. Init => OneActiveTrip
  BY DEF Init, OneActiveTrip, Active
<1>2. TypeOK /\ OneActiveTrip /\ [Next]_vars => OneActiveTrip'
  BY OneActiveStep
<1>3. QED
  BY <1>1, <1>2, TypeCorrect, PTL DEF Spec

-----------------------------------------------------------------------------
(* An offer is closed once.                                                 *)

LEMMA OfferMoves ==
  ASSUME Next
  PROVE  \/ UNCHANGED <<offer, wave, asked, winner, won>>
         \/ \E w \in Desk, o \in Offer : CreateOffer(w, o)
         \/ \E w \in Phone, o \in Offer, t \in Trip : Claim(w, o, t)
         \/ \E v \in Sweeper : EscalateWave(v) \/ Expire(v)
         \/ \E s \in Shipment, known \in SUBSET told : HandleCancelled(s, known)
<1>1. ASSUME NEW v \in Sweeper, Sweep(v)
      PROVE  UNCHANGED <<offer, wave, asked, winner, won>> \/ EscalateWave(v) \/ Expire(v)
  BY <1>1 DEF Sweep, ListDue, Widen, WidenNone, EscalateLost, ExpireLost, Reset, offerVars
<1>2. ASSUME NEW w \in Desk, Dispatch(w) \/ EmitFails(w)
      PROVE  UNCHANGED <<offer, wave, asked, winner, won>> \/ \E o \in Offer : CreateOffer(w, o)
  BY <1>2 DEF Dispatch, CheckTomb, ReadQueue, ReadForBroadcast, Enqueue, Pick, PickNone,
              SaveTrip, SaveRefused, EmitAssigned, EmitFails, MarkDispatched,
              SelectCandidates, SelectNone, CreateRefused, offerVars
<1>3. ASSUME NEW w \in Phone, Answer(w)
      PROVE  \/ UNCHANGED <<offer, wave, asked, winner, won>>
             \/ \E o \in Offer, t \in Trip : Claim(w, o, t)
  BY <1>3 DEF Answer, AnnounceClaim, ReadAnswer, SaveAccept, AcceptRefused, StartRoute,
              SaveReject, offerVars
<1>4. ASSUME Outside
      PROVE  \/ UNCHANGED <<offer, wave, asked, winner, won>>
             \/ \E s \in Shipment, known \in SUBSET told : HandleCancelled(s, known)
  BY <1>4 DEF Outside, CancelDriver, CancelOrphan, CancelRoute, CancelDispatch, HandleDrop,
              offerVars
<1>5. ASSUME NEW w \in Worker, Stop(w)
      PROVE  UNCHANGED <<offer, wave, asked, winner, won>>
  BY <1>5 DEF Stop, offerVars
<1>6. ASSUME NEW o \in Offer, Elapse(o)
      PROVE  UNCHANGED <<offer, wave, asked, winner, won>>
  BY <1>6 DEF Elapse
<1>7. QED
  BY <1>1, <1>2, <1>3, <1>4, <1>5, <1>6 DEF Next, Failure

\* What OfferClosesOnce says of one offer.
ClosesOnce(o) ==
  /\ offer'[o] # offer[o] =>
       <<offer[o], offer'[o]>> \in
         {<<"none", "open">>} \cup ({"open"} \X {"claimed", "expired", "cancelled"})
  /\ offer[o] \notin {"none", "open"} =>
       /\ wave'[o] = wave[o] /\ winner'[o] = winner[o]
       /\ \A d \in Driver : <<o, d>> \in asked' => <<o, d>> \in asked

LEMMA ClosesOnceStep ==
  ASSUME TypeOK, [Next]_vars
  PROVE  \A o \in Offer : ClosesOnce(o)
<1>1. CASE UNCHANGED <<offer, wave, asked, winner, won>>
  BY <1>1 DEF ClosesOnce
<1>2. ASSUME NEW w \in Desk, NEW o \in Offer, CreateOffer(w, o)
      PROVE  \A x \in Offer : ClosesOnce(x)
  <2>1. offer[o] = "none" /\ offer'[o] = "open"
    BY <1>2 DEF CreateOffer, TypeOK, RowsOK
  <2>2. ASSUME NEW x \in Offer, x # o
        PROVE  ClosesOnce(x)
    <3>1. \A d \in Driver : <<x, d>> \in asked' => <<x, d>> \in asked
      BY <1>2, <2>2 DEF CreateOffer
    <3>2. offer'[x] = offer[x] /\ wave'[x] = wave[x] /\ winner'[x] = winner[x]
      BY <1>2, <2>2 DEF CreateOffer, TypeOK, RowsOK
    <3>3. QED
      BY <3>1, <3>2 DEF ClosesOnce
  <2>3. ClosesOnce(o)
    BY <2>1 DEF ClosesOnce
  <2>4. QED
    BY <2>2, <2>3
<1>3. ASSUME NEW w \in Phone, NEW o \in Offer, NEW t \in Trip, Claim(w, o, t)
      PROVE  \A x \in Offer : ClosesOnce(x)
  <2>1. offer[o] = "open" /\ offer'[o] = "claimed" /\ UNCHANGED <<wave, asked>>
    BY <1>3 DEF Claim, TypeOK, RowsOK
  <2>2. \A x \in Offer : x # o => offer'[x] = offer[x] /\ winner'[x] = winner[x]
    BY <1>3 DEF Claim, TypeOK, RowsOK
  <2>3. QED
    BY <2>1, <2>2 DEF ClosesOnce
<1>4. ASSUME NEW v \in Sweeper, EscalateWave(v)
      PROVE  \A x \in Offer : ClosesOnce(x)
  <2>1. offer[item[v]] = "open" /\ UNCHANGED <<offer, winner>>
    BY <1>4 DEF EscalateWave
  <2>2. ASSUME NEW x \in Offer, x # item[v]
        PROVE  /\ wave'[x] = wave[x]
               /\ \A d \in Driver : <<x, d>> \in asked' => <<x, d>> \in asked
    BY <1>4, <2>2 DEF EscalateWave, TypeOK, RowsOK
  <2>3. QED
    BY <2>1, <2>2 DEF ClosesOnce
<1>5. ASSUME NEW v \in Sweeper, Expire(v)
      PROVE  \A x \in Offer : ClosesOnce(x)
  <2>1. UNCHANGED <<wave, asked, winner>>
    BY <1>5 DEF Expire
  <2>2. \A x \in Offer : offer'[x] # offer[x] => offer[x] = "open" /\ offer'[x] = "expired"
    BY <1>5 DEF Expire, TypeOK, RowsOK
  <2>3. QED
    BY <2>1, <2>2 DEF ClosesOnce
<1>6. ASSUME NEW s \in Shipment, NEW known \in SUBSET told, HandleCancelled(s, known)
      PROVE  \A x \in Offer : ClosesOnce(x)
  <2>1. UNCHANGED <<wave, asked, winner>>
    BY <1>6 DEF HandleCancelled
  <2>2. \A x \in Offer : offer'[x] # offer[x] => offer[x] = "open" /\ offer'[x] = "cancelled"
    BY <1>6 DEF HandleCancelled, TypeOK, RowsOK
  <2>3. QED
    BY <2>1, <2>2 DEF ClosesOnce
<1>7. QED
  BY <1>1, <1>2, <1>3, <1>4, <1>5, <1>6, OfferMoves DEF vars, offerVars

\* However claims, sweeps of any number of replicas and cancellations meet, an
\* offer leaves `open' once, and is then left alone.
THEOREM ClosesOnceAlways == Spec => OfferClosesOnce
<1>1. TypeOK /\ [Next]_vars => (\A o \in Offer : ClosesOnce(o))
  BY ClosesOnceStep
<1>2. QED
  BY <1>1, TypeCorrect, PTL DEF Spec, OfferClosesOnce, ClosesOnce

-----------------------------------------------------------------------------
(* What a task still knows of the trip it is about when it acts on it.      *)

TripStep == {"save", "emit", "announce", "accept", "start", "reject"}

\* A trip picked and not saved yet is in no other task's hands.
Held ==
  \A w \in Worker : pc[w] = "save" =>
    /\ trip[item[w]] = "none"
    /\ \A v \in Worker \ {w} : pc[v] \in TripStep => item[v] # item[w]

\* A rejection is never about a trip that was claimed: it read it pending.
NoClaimRejected ==
  \A w \in Worker : pc[w] = "reject" => \A c \in won : c[2] # item[w]

\* A step moves one task.
Alone(w) == \A v \in Worker \ {w} : pc'[v] = pc[v] /\ item'[v] = item[v]

LEMMA MovesAlone ==
  ASSUME TypeOK, NEW w \in Worker, NEW from, NEW to, NEW about,
         Begin(w, to, about) \/ Continue(w, from, to, about)
  PROVE  Alone(w) /\ pc'[w] = to /\ item'[w] = about
BY DEF Begin, Continue, Alone, TypeOK, WorkOK

LEMMA DoneAlone ==
  ASSUME TypeOK, NEW w \in Worker, Done(w)
  PROVE  Alone(w) /\ pc'[w] = "idle"
BY DEF Done, Alone, TypeOK, WorkOK

\* How a task comes by a trip.
Comes(w) ==
  \/ pc'[w] \notin TripStep
  \/ pc[w] \in TripStep /\ item'[w] = item[w] /\ pc'[w] \notin {"save", "reject"}
  \/ \E t \in Trip, named \in BOOLEAN : Pick(w, t, named)
  \/ \E o \in Offer, t \in Trip : Claim(w, o, t)
  \/ \E t \in Trip, step \in {"accept", "reject"} : ReadAnswer(w, t, step)

\* What a task may do.
Acts(w) ==
  \/ w \in Sweeper /\ Sweep(w)
  \/ w \in Desk /\ (Dispatch(w) \/ EmitFails(w))
  \/ w \in Phone /\ Answer(w)
  \/ Stop(w)

LEMMA WorkMoves ==
  ASSUME TypeOK, Next
  PROVE  UNCHANGED workVars \/ \E w \in Worker : Alone(w) /\ Comes(w) /\ Acts(w)
<1> DEFINE Moved(w) == Alone(w) /\ Comes(w)
<1>1. ASSUME NEW w \in Worker, Done(w)
      PROVE  Moved(w)
  BY <1>1, DoneAlone DEF Comes, TripStep
<1>3. ASSUME NEW v \in Sweeper, Sweep(v)
      PROVE  v \in Worker /\ Moved(v)
  <2> v \in Worker
    BY DEF Worker
  <2>1. CASE WidenNone(v) \/ EscalateLost(v) \/ Expire(v)
    BY <2>1, MovesAlone DEF WidenNone, EscalateLost, Expire, Comes, TripStep
  <2>2. CASE EscalateWave(v) \/ ExpireLost(v) \/ Reset(v)
    BY <2>2, <1>1 DEF EscalateWave, ExpireLost, Reset, End
  <2>3. ASSUME NEW o \in Offer, ListDue(v, o)
        PROVE  Moved(v)
    BY <2>3 DEF ListDue, Alone, Comes, TripStep, TypeOK, WorkOK
  <2>4. ASSUME NEW near \in SUBSET Gig, Widen(v, near)
        PROVE  Moved(v)
    BY <2>4 DEF Widen, Alone, Comes, TripStep, TypeOK, WorkOK
  <2>5. QED
    BY <1>3, <2>1, <2>2, <2>3, <2>4 DEF Sweep
<1>4. ASSUME NEW w \in Desk, Dispatch(w) \/ EmitFails(w)
      PROVE  w \in Worker /\ Moved(w)
  <2> w \in Worker
    BY DEF Worker
  <2>1. ASSUME NEW s \in Shipment, CheckTomb(w, s) \/ ReadQueue(w, s) \/ ReadForBroadcast(w, s)
        PROVE  Moved(w)
    <3>1. \E p \in {"enqueue", "pick", "select"} : Begin(w, p, s)
      BY <2>1 DEF CheckTomb, ReadQueue, ReadForBroadcast
    <3>2. Alone(w) /\ pc'[w] \in {"enqueue", "pick", "select"}
      BY <3>1, MovesAlone
    <3>3. QED
      BY <3>2 DEF Comes, TripStep
  <2>2. CASE \/ Enqueue(w) \/ PickNone(w) \/ SaveRefused(w) \/ EmitFails(w)
             \/ MarkDispatched(w) \/ SelectNone(w) \/ CreateRefused(w)
             \/ \E o \in Offer : CreateOffer(w, o)
    BY <2>2, <1>1 DEF Enqueue, PickNone, SaveRefused, EmitFails, MarkDispatched, SelectNone,
                      CreateRefused, CreateOffer, End
  <2>3. CASE SaveTrip(w)
    <3>1. pc[w] = "save"
      BY <2>3 DEF SaveTrip, Continue
    <3>2. Alone(w) /\ pc'[w] = "emit" /\ item'[w] = item[w]
      BY <2>3, MovesAlone DEF SaveTrip
    <3>3. QED
      BY <3>1, <3>2 DEF Comes, TripStep
  <2>4. CASE EmitAssigned(w)
    BY <2>4, MovesAlone DEF EmitAssigned, Comes, TripStep
  <2>5. ASSUME NEW near \in SUBSET Gig, SelectCandidates(w, near)
        PROVE  Moved(w)
    BY <2>5 DEF SelectCandidates, Alone, Comes, TripStep, TypeOK, WorkOK
  <2>6. ASSUME NEW t \in Trip, NEW named \in BOOLEAN, Pick(w, t, named)
        PROVE  Moved(w)
    BY <2>6, MovesAlone DEF Pick, Comes
  <2>7. QED
    BY <1>4, <2>1, <2>2, <2>3, <2>4, <2>5, <2>6 DEF Dispatch
<1>5. ASSUME NEW w \in Phone, Answer(w)
      PROVE  w \in Worker /\ Moved(w)
  <2> w \in Worker
    BY DEF Worker
  <2>1. CASE AnnounceClaim(w) \/ AcceptRefused(w) \/ StartRoute(w) \/ SaveReject(w)
    BY <2>1, <1>1 DEF AnnounceClaim, AcceptRefused, StartRoute, SaveReject, End
  <2>2. CASE SaveAccept(w)
    <3>1. pc[w] = "accept"
      BY <2>2 DEF SaveAccept, Continue
    <3>2. Alone(w) /\ pc'[w] = "start" /\ item'[w] = item[w]
      BY <2>2, MovesAlone DEF SaveAccept
    <3>3. QED
      BY <3>1, <3>2 DEF Comes, TripStep
  <2>3. ASSUME NEW o \in Offer, NEW t \in Trip, Claim(w, o, t)
        PROVE  Moved(w)
    <3>1. Alone(w)
      BY <2>3, MovesAlone DEF Claim
    <3>2. QED
      BY <2>3, <3>1 DEF Comes
  <2>4. ASSUME NEW t \in Trip, ReadAnswer(w, t, "accept") \/ ReadAnswer(w, t, "reject")
        PROVE  Moved(w)
    <3>1. Alone(w)
      BY <2>4, MovesAlone DEF ReadAnswer
    <3>2. QED
      BY <2>4, <3>1 DEF Comes
  <2>5. QED
    BY <1>5, <2>1, <2>2, <2>3, <2>4 DEF Answer
<1>6. ASSUME NEW w \in Worker, Stop(w)
      PROVE  Moved(w)
  BY <1>6, <1>1 DEF Stop
<1>7. CASE Outside \/ \E o \in Offer : Elapse(o)
  BY <1>7 DEF Outside, CancelDriver, CancelOrphan, CancelRoute, CancelDispatch, HandleDrop,
              HandleCancelled, Elapse
<1>8. QED
  BY <1>3, <1>4, <1>5, <1>6, <1>7 DEF Next, Failure, Acts

\* A trip in another task's hands is not saved by this step.
LEMMA HeldStays ==
  ASSUME TypeOK, Held, Next, NEW w \in Worker, pc[w] = "save", ~SaveTrip(w)
  PROVE  trip'[item[w]] = "none"
<1>1. item[w] \in Trip /\ trip[item[w]] = "none"
  BY Abouts DEF TypeOK, WorkOK, Held
<1>2. ASSUME NEW v \in Worker, SaveTrip(v) \/ SaveAccept(v) \/ SaveReject(v)
      PROVE  trip'[item[w]] = "none"
  <2>1. pc[v] \in TripStep /\ v # w
    BY <1>2 DEF SaveTrip, SaveAccept, SaveReject, Continue, End, TripStep
  <2>2. item[v] # item[w]
    BY <2>1 DEF Held
  <2>3. QED
    BY <1>1, <1>2, <2>2 DEF SaveTrip, SaveAccept, SaveReject, TypeOK, RowsOK
<1>3. ASSUME NEW v \in Worker, NEW o \in Offer, NEW t \in Trip, Claim(v, o, t)
      PROVE  trip'[item[w]] = "none"
  BY <1>1, <1>3 DEF Claim, Fresh, TypeOK, RowsOK
<1>4. ASSUME NEW gone, Ends(gone)
      PROVE  trip'[item[w]] = "none"
  BY <1>1, <1>4 DEF Ends, Active
<1>5. QED
  BY <1>1, <1>2, <1>3, <1>4, TripMoves DEF Worker

LEMMA HeldStep ==
  ASSUME TypeOK, Held, [Next]_vars
  PROVE  Held'
<1>1. CASE UNCHANGED vars
  BY <1>1 DEF Held, vars, workVars, tripVars
<1>2. CASE Next
  <2>1. \A w \in Worker : pc[w] = "save" /\ pc'[w] = "save" => trip'[item[w]] = "none"
    <3>1. \A w \in Worker : SaveTrip(w) => pc'[w] # "save"
      BY DEF SaveTrip, Continue, TypeOK, WorkOK
    <3>2. QED
      BY <1>2, <3>1, HeldStays
  <2>2. CASE UNCHANGED workVars
    BY <2>1, <2>2 DEF Held, workVars
  <2>3. ASSUME NEW w \in Worker, Alone(w),
               \/ pc'[w] \notin TripStep
               \/ /\ pc[w] \in TripStep /\ item'[w] = item[w]
                  /\ pc'[w] \notin {"save", "reject"}
        PROVE  Held'
    BY <2>1, <2>3 DEF Held, Alone, TripStep
  <2>4. ASSUME NEW w \in Worker, Alone(w), NEW t \in Trip, NEW named \in BOOLEAN,
               Pick(w, t, named)
        PROVE  Held'
    <3>1. /\ trip'[t] = "none" /\ item'[w] = t
          /\ \A v \in Worker : item[v] # t
      BY <2>4 DEF Pick, Fresh, Continue, TypeOK, WorkOK
    <3>2. QED
      BY <2>1, <2>4, <3>1 DEF Held, Alone
  <2>5. ASSUME NEW w \in Worker, Alone(w), NEW o \in Offer, NEW t \in Trip, Claim(w, o, t)
        PROVE  Held'
    <3>1. /\ pc'[w] = "announce" /\ item'[w] = t
          /\ \A v \in Worker : item[v] # t
      BY <2>5 DEF Claim, Fresh, Begin, TypeOK, WorkOK
    <3>2. QED
      BY <2>1, <2>5, <3>1 DEF Held, Alone
  <2>6. ASSUME NEW w \in Worker, Alone(w), NEW t \in Trip, NEW step \in {"accept", "reject"},
               ReadAnswer(w, t, step)
        PROVE  Held'
    <3>1. pc'[w] \in {"accept", "reject"} /\ item'[w] = t /\ trip[t] = "pending"
      BY <2>6 DEF ReadAnswer, Begin, TypeOK, WorkOK
    <3>2. QED
      BY <2>1, <2>6, <3>1 DEF Held, Alone
  <2>7. QED
    BY <1>2, <2>2, <2>3, <2>4, <2>5, <2>6, WorkMoves DEF Comes
<1>3. QED
  BY <1>1, <1>2

-----------------------------------------------------------------------------
(* The grab is exclusive.                                                   *)

\* What a claim that was answered as won leaves: the offer is claimed by its trip,
\* and neither the offer nor the trip is another claim's.
WonOnce ==
  /\ \A c \in won :
       /\ offer[c[1]] = "claimed" /\ winner[c[1]] = c[2]
       /\ Of(c[2]) = Of(c[1]) /\ <<c[1], By(c[2])>> \in asked
       /\ trip[c[2]] \in {"accepted", "cancelled"}
  /\ \A o \in Offer : offer[o] = "claimed" => \E c \in won : c[1] = o
  /\ \A b, c \in won : b[2] = c[2] => b = c

LEMMA NoClaimRejectedStep ==
  ASSUME TypeOK, WonOnce, NoClaimRejected, [Next]_vars
  PROVE  NoClaimRejected'
<1>1. CASE UNCHANGED vars
  BY <1>1 DEF NoClaimRejected, vars, workVars, offerVars
<1>2. CASE Next
  <2>1. ASSUME NEW w \in Phone, NEW o \in Offer, NEW t \in Trip, Claim(w, o, t)
        PROVE  NoClaimRejected'
    <3>1. /\ won' = won \cup {<<o, t>>}
          /\ pc'[w] = "announce"
          /\ \A v \in Worker \ {w} : pc'[v] = pc[v] /\ item'[v] = item[v]
          /\ \A v \in Worker : item[v] # t
      BY <2>1 DEF Claim, Fresh, Begin, TypeOK, WorkOK, Worker
    <3>2. QED
      BY <3>1 DEF NoClaimRejected
  <2>2. CASE UNCHANGED won
    <3>1. CASE UNCHANGED workVars
      BY <2>2, <3>1 DEF NoClaimRejected, workVars
    <3>2. ASSUME NEW w \in Worker, Alone(w), pc'[w] # "reject"
          PROVE  NoClaimRejected'
      BY <2>2, <3>2 DEF NoClaimRejected, Alone
    <3>3. ASSUME NEW w \in Worker, Alone(w), NEW t \in Trip, trip[t] = "pending", item'[w] = t
          PROVE  NoClaimRejected'
      <4>1. \A c \in won : c[2] # t
        BY <3>3 DEF WonOnce
      <4>2. QED
        BY <2>2, <3>3, <4>1 DEF NoClaimRejected, Alone
    <3>4. ASSUME NEW w \in Worker, Comes(w)
          PROVE  \/ pc'[w] # "reject"
                 \/ \E t \in Trip : trip[t] = "pending" /\ item'[w] = t
      BY <3>4 DEF Comes, TripStep, Pick, Claim, ReadAnswer, Begin, Continue, TypeOK, WorkOK
    <3>5. QED
      BY <1>2, <3>1, <3>2, <3>3, <3>4, WorkMoves
  <2>3. UNCHANGED won \/ \E w \in Phone, o \in Offer, t \in Trip : Claim(w, o, t)
    BY <1>2, OfferMoves DEF CreateOffer, EscalateWave, Expire, HandleCancelled
  <2>4. QED
    BY <2>1, <2>2, <2>3
<1>3. QED
  BY <1>1, <1>2

\* The trip of a claim is only ever cancelled.
LEMMA WonTrip ==
  ASSUME TypeOK, Held, NoClaimRejected, WonOnce, Next, NEW c \in won
  PROVE  trip'[c[2]] \in {"accepted", "cancelled"}
<1>1. c[2] \in Trip /\ trip[c[2]] \in {"accepted", "cancelled"}
  BY DEF WonOnce, TypeOK, RowsOK
<1>2. ASSUME NEW w \in Worker, SaveTrip(w)
      PROVE  trip'[c[2]] \in {"accepted", "cancelled"}
  <2>1. trip[item[w]] = "none"
    BY <1>2 DEF SaveTrip, Continue, Held
  <2>2. QED
    BY <1>1, <1>2, <2>1 DEF SaveTrip, TypeOK, RowsOK
<1>3. ASSUME NEW w \in Worker, SaveAccept(w)
      PROVE  trip'[c[2]] \in {"accepted", "cancelled"}
  BY <1>1, <1>3 DEF SaveAccept, TypeOK, RowsOK
<1>4. ASSUME NEW w \in Worker, SaveReject(w)
      PROVE  trip'[c[2]] \in {"accepted", "cancelled"}
  <2>1. item[w] # c[2]
    BY <1>4 DEF SaveReject, End, NoClaimRejected
  <2>2. QED
    BY <1>1, <1>4, <2>1 DEF SaveReject, TypeOK, RowsOK
<1>5. ASSUME NEW w \in Worker, NEW o \in Offer, NEW t \in Trip, Claim(w, o, t)
      PROVE  trip'[c[2]] \in {"accepted", "cancelled"}
  BY <1>1, <1>5 DEF Claim, TypeOK, RowsOK
<1>6. ASSUME NEW gone, Ends(gone)
      PROVE  trip'[c[2]] \in {"accepted", "cancelled"}
  BY <1>1, <1>6 DEF Ends
<1>7. QED
  BY <1>1, <1>2, <1>3, <1>4, <1>5, <1>6, TripMoves DEF Worker

LEMMA WonOnceStep ==
  ASSUME TypeOK, Held, NoClaimRejected, WonOnce, [Next]_vars
  PROVE  WonOnce'
<1>1. CASE UNCHANGED vars
  BY <1>1 DEF WonOnce, vars, offerVars, tripVars
<1>2. CASE Next
  <2> DEFINE Stays == /\ UNCHANGED <<winner, won>>
                      /\ \A o \in Offer : (offer'[o] = "claimed") <=> (offer[o] = "claimed")
  <2>1. asked \subseteq asked'
    BY <1>2, OfferMoves DEF CreateOffer, Claim, EscalateWave, Expire, HandleCancelled
  <2>2. \A c \in won : c[1] \in Offer /\ trip'[c[2]] \in {"accepted", "cancelled"}
    BY <1>2, WonTrip DEF TypeOK, RowsOK
  <2>3. ASSUME NEW w \in Phone, NEW o \in Offer, NEW t \in Trip, Claim(w, o, t)
        PROVE  WonOnce'
    <3>1. /\ offer[o] = "open" /\ trip[t] = "none"
          /\ Of(t) = Of(o) /\ <<o, By(t)>> \in asked
          /\ won' = won \cup {<<o, t>>}
      BY <2>3 DEF Claim, Fresh
    <3>2. /\ \A x \in Offer \ {o} : offer'[x] = offer[x] /\ winner'[x] = winner[x]
          /\ offer'[o] = "claimed" /\ winner'[o] = t /\ trip'[t] = "accepted"
      BY <2>3 DEF Claim, TypeOK, RowsOK
    <3>3. \A c \in won : c[1] # o /\ c[2] # t
      BY <3>1 DEF WonOnce
    <3>4. ASSUME NEW c \in won
          PROVE  /\ offer'[c[1]] = "claimed" /\ winner'[c[1]] = c[2]
                 /\ Of(c[2]) = Of(c[1]) /\ <<c[1], By(c[2])>> \in asked'
                 /\ trip'[c[2]] \in {"accepted", "cancelled"}
      <4>1. c[1] \in Offer \ {o}
        BY <2>2, <3>3
      <4>2. QED
        BY <2>1, <2>2, <3>2, <4>1 DEF WonOnce
    <3>5. <<o, t>>[1] = o /\ <<o, t>>[2] = t
      OBVIOUS
    <3>6. \A c \in won' : c \in won \/ (c = <<o, t>> /\ c[1] = o /\ c[2] = t)
      BY <3>1, <3>5
    <3>7. ASSUME NEW c \in won'
          PROVE  /\ offer'[c[1]] = "claimed" /\ winner'[c[1]] = c[2]
                 /\ Of(c[2]) = Of(c[1]) /\ <<c[1], By(c[2])>> \in asked'
                 /\ trip'[c[2]] \in {"accepted", "cancelled"}
      BY <2>1, <3>1, <3>2, <3>4, <3>6
    <3>8. ASSUME NEW x \in Offer, offer'[x] = "claimed"
          PROVE  \E c \in won' : c[1] = x
      BY <3>1, <3>2, <3>5, <3>8 DEF WonOnce
    <3>9. ASSUME NEW b \in won', NEW c \in won', b[2] = c[2]
          PROVE  b = c
      BY <3>3, <3>6, <3>9 DEF WonOnce
    <3>10. QED
      BY <3>7, <3>8, <3>9 DEF WonOnce
  <2>4. CASE Stays
    BY <2>1, <2>2, <2>4 DEF WonOnce
  <2>5. ASSUME NEW w \in Desk, NEW o \in Offer, CreateOffer(w, o)
        PROVE  Stays
    BY <2>5 DEF CreateOffer, TypeOK, RowsOK
  <2>6. ASSUME NEW v \in Sweeper, Expire(v)
        PROVE  Stays
    BY <2>6 DEF Expire, TypeOK, RowsOK
  <2>7. ASSUME NEW s \in Shipment, NEW known \in SUBSET told, HandleCancelled(s, known)
        PROVE  Stays
    BY <2>7 DEF HandleCancelled
  <2>8. QED
    BY <1>2, <2>3, <2>4, <2>5, <2>6, <2>7, OfferMoves DEF EscalateWave
<1>3. QED
  BY <1>1, <1>2

LEMMA WonOnceExclusive ==
  ASSUME TypeOK, OneActiveTrip, WonOnce
  PROVE  ClaimIsExclusive
<1>1. won \subseteq Offer \X Trip
  BY DEF TypeOK, RowsOK
<1>2. \A c \in won : offer[c[1]] = "claimed" /\ winner[c[1]] = c[2]
  BY DEF WonOnce
<1>3. ASSUME NEW o \in Offer
      PROVE  Cardinality({c \in won : c[1] = o}) = IF offer[o] = "claimed" THEN 1 ELSE 0
  <2>1. CASE offer[o] = "claimed"
    <3>1. PICK c \in won : c[1] = o
      BY <2>1 DEF WonOnce
    <3>2. ASSUME NEW b \in won, b[1] = o
          PROVE  b = c
      <4>1. b[2] = winner[o] /\ c[2] = winner[o]
        BY <1>2, <3>1, <3>2
      <4>2. QED
        BY <4>1 DEF WonOnce
    <3>3. {b \in won : b[1] = o} = {c}
      BY <3>1, <3>2
    <3>4. QED
      BY <2>1, <3>3, FS_Singleton
  <2>2. CASE offer[o] # "claimed"
    <3>1. ASSUME NEW b \in won, b[1] = o
          PROVE  FALSE
      BY <1>2, <2>2, <3>1
    <3>2. {b \in won : b[1] = o} = {}
      BY <3>1
    <3>3. QED
      BY <2>2, <3>2, FS_EmptySet
  <2>3. QED
    BY <2>1, <2>2
<1>4. ASSUME NEW c \in won, Active(c[2]), NEW b \in won, By(b[2]) = By(c[2]), Active(b[2])
      PROVE  b = c
  <2>1. b[2] = c[2]
    BY <1>1, <1>4 DEF OneActiveTrip
  <2>2. QED
    BY <2>1 DEF WonOnce
<1>5. QED
  BY <1>3, <1>4 DEF ClaimIsExclusive, WonOnce

\* Of all the claims that are ever answered as won, an offer counts one if it is
\* claimed and none if not: its winner was asked and assigned, no answer that was
\* read for another trip turns that trip down, and of two offers a driver wins one
\* at most is theirs at a time.
THEOREM ClaimsExclusive == Spec => []ClaimIsExclusive
<1> DEFINE Inv == TypeOK /\ OneActiveTrip /\ Held /\ NoClaimRejected /\ WonOnce
<1>1. Init => Inv
  BY InitType DEF Init, OneActiveTrip, Active, Held, NoClaimRejected, WonOnce
<1>2. Inv /\ [Next]_vars => Inv'
  BY StepType, OneActiveStep, HeldStep, NoClaimRejectedStep, WonOnceStep
<1>3. Inv => ClaimIsExclusive
  BY WonOnceExclusive
<1>4. QED
  BY <1>1, <1>2, <1>3, PTL DEF Spec

-----------------------------------------------------------------------------
(* Nothing is lost.                                                         *)

\* Past its save, a dispatch has an assignment to show for its shipment.
Assigned ==
  \A w \in Worker :
    /\ pc[w] = "emit" => trip[item[w]] # "none"
    /\ pc[w] = "mark" => \E t \in Trip : Of(t) = item[w] /\ trip[t] # "none"

LEMMA EmitMoves ==
  ASSUME TypeOK, Next, NEW w \in Worker, pc'[w] \in {"emit", "mark"}
  PROVE  \/ pc'[w] = pc[w] /\ item'[w] = item[w]
         \/ SaveTrip(w) \/ EmitAssigned(w)
<1>1. CASE UNCHANGED workVars
  BY <1>1 DEF workVars
<1>2. ASSUME NEW v \in Worker, Alone(v), v # w
      PROVE  pc'[w] = pc[w] /\ item'[w] = item[w]
  BY <1>2 DEF Alone
<1>3. ~Done(w)
  BY DoneAlone
<1>4. ASSUME NEW from, NEW to, to \notin {"emit", "mark"}, NEW about
      PROVE  ~Begin(w, to, about) /\ ~Continue(w, from, to, about)
  BY <1>4, MovesAlone
<1>5. ~Sweep(w)
  BY <1>3, <1>4 DEF Sweep, ListDue, Widen, WidenNone, EscalateWave, EscalateLost, Expire,
                    ExpireLost, Reset, End, TypeOK, WorkOK
<1>6. Dispatch(w) \/ EmitFails(w) => SaveTrip(w) \/ EmitAssigned(w)
  BY <1>3, <1>4 DEF Dispatch, CheckTomb, ReadQueue, ReadForBroadcast, Enqueue, Pick, PickNone,
                    SaveRefused, EmitFails, MarkDispatched, SelectCandidates, SelectNone,
                    CreateRefused, CreateOffer, End, TypeOK, WorkOK
<1>7. ~Answer(w)
  BY <1>3, <1>4 DEF Answer, Claim, AnnounceClaim, ReadAnswer, SaveAccept, AcceptRefused,
                    StartRoute, SaveReject, End
<1>8. ~Stop(w)
  BY <1>3 DEF Stop
<1>9. QED
  BY <1>1, <1>2, <1>5, <1>6, <1>7, <1>8, WorkMoves DEF Acts

LEMMA AssignedStep ==
  ASSUME TypeOK, Assigned, [Next]_vars
  PROVE  Assigned'
<1>1. CASE UNCHANGED vars
  BY <1>1 DEF Assigned, vars, workVars, tripVars
<1>2. CASE Next
  <2> SUFFICES ASSUME NEW w \in Worker, pc'[w] \in {"emit", "mark"}
               PROVE  /\ pc'[w] = "emit" => trip'[item'[w]] # "none"
                      /\ pc'[w] = "mark" => \E t \in Trip : Of(t) = item'[w] /\ trip'[t] # "none"
    BY DEF Assigned
  <2>1. CASE pc'[w] = pc[w] /\ item'[w] = item[w]
    <3>1. CASE pc[w] = "emit"
      <4>1. item[w] \in Trip
        BY <3>1, Abouts DEF TypeOK, WorkOK
      <4>2. QED
        BY <1>2, <2>1, <3>1, <4>1, TripsStay DEF Assigned
    <3>2. CASE pc[w] = "mark"
      BY <1>2, <2>1, <3>2, TripsStay DEF Assigned
    <3>3. QED
      BY <2>1, <3>1, <3>2
  <2>2. CASE SaveTrip(w)
    <3>1. item[w] \in Trip
      BY <2>2, Abouts DEF SaveTrip, Continue, TypeOK, WorkOK
    <3>2. pc'[w] = "emit" /\ item'[w] = item[w] /\ trip'[item[w]] = "pending"
      BY <2>2, <3>1 DEF SaveTrip, Continue, TypeOK, WorkOK, RowsOK
    <3>3. QED
      BY <3>2
  <2>3. CASE EmitAssigned(w)
    <3>1. item[w] \in Trip /\ trip[item[w]] # "none"
      BY <2>3, Abouts DEF EmitAssigned, Continue, TypeOK, WorkOK, Assigned
    <3>2. pc'[w] = "mark" /\ item'[w] = Of(item[w])
      BY <2>3 DEF EmitAssigned, Continue, TypeOK, WorkOK
    <3>3. trip'[item[w]] # "none"
      BY <1>2, <3>1, TripsStay
    <3>4. QED
      BY <3>1, <3>2, <3>3
  <2>4. QED
    BY <1>2, <2>1, <2>2, <2>3, EmitMoves
<1>3. QED
  BY <1>1, <1>2

\* What NothingIsLost says of one shipment that is out of the sweep's sight.
Kept(s) ==
  \/ \E o \in Offer : Of(o) = s /\ offer[o] = "open"
  \/ \E t \in Trip : Of(t) = s /\ trip[t] # "none"
  \/ \E v \in Sweeper : pc[v] = "reset" /\ Of(item[v]) = s

\* A queue row becomes `dispatched' for something.
LEMMA QueueMoves ==
  ASSUME TypeOK, Next, NEW s \in Shipment, queue'[s] = "dispatched", queue[s] # "dispatched"
  PROVE  \/ \E w \in Desk : MarkDispatched(w) /\ item[w] = s
         \/ \E w \in Desk, o \in Offer : CreateOffer(w, o) /\ Of(o) = s
         \/ \E w \in Phone, o \in Offer, t \in Trip : Claim(w, o, t) /\ Of(o) = s
<1>1. ASSUME NEW v \in Sweeper, Sweep(v)
      PROVE  FALSE
  BY <1>1 DEF Sweep, ListDue, Widen, WidenNone, EscalateWave, EscalateLost, Expire,
              ExpireLost, Reset, TypeOK, RowsOK
<1>2. ASSUME NEW w \in Desk, Dispatch(w) \/ EmitFails(w)
      PROVE  \/ MarkDispatched(w) /\ item[w] = s
             \/ \E o \in Offer : CreateOffer(w, o) /\ Of(o) = s
  <2>1. CASE MarkDispatched(w)
    BY <2>1 DEF MarkDispatched, TypeOK, RowsOK
  <2>2. ASSUME NEW o \in Offer, CreateOffer(w, o)
        PROVE  Of(o) = s
    BY <2>2 DEF CreateOffer, TypeOK, RowsOK
  <2>3. ~Enqueue(w)
    BY DEF Enqueue, TypeOK, RowsOK
  <2>4. queue' # queue
    OBVIOUS
  <2>5. QED
    BY <1>2, <2>1, <2>2, <2>3, <2>4
       DEF Dispatch, CheckTomb, ReadQueue, ReadForBroadcast, Pick, PickNone, SaveTrip,
           SaveRefused, EmitAssigned, EmitFails, SelectCandidates, SelectNone, CreateRefused
<1>3. ASSUME NEW w \in Phone, Answer(w)
      PROVE  \E o \in Offer, t \in Trip : Claim(w, o, t) /\ Of(o) = s
  <2>1. ASSUME NEW o \in Offer, NEW t \in Trip, Claim(w, o, t)
        PROVE  Of(o) = s
    BY <2>1 DEF Claim, TypeOK, RowsOK
  <2>2. QED
    BY <1>3, <2>1 DEF Answer, AnnounceClaim, ReadAnswer, SaveAccept, AcceptRefused,
                      StartRoute, SaveReject
<1>4. ~Outside
  BY DEF Outside, CancelDriver, CancelOrphan, CancelRoute, CancelDispatch, HandleDrop,
         HandleCancelled, TypeOK, RowsOK
<1>5. ASSUME NEW w \in Worker, Stop(w)
      PROVE  FALSE
  BY <1>5 DEF Stop
<1>6. ASSUME NEW o \in Offer, Elapse(o)
      PROVE  FALSE
  BY <1>6 DEF Elapse
<1>7. QED
  BY <1>1, <1>2, <1>3, <1>4, <1>5, <1>6 DEF Next, Failure

\* A reset is under way until it has put the shipment back.
LEMMA ResetMoves ==
  ASSUME TypeOK, Next, NEW v \in Sweeper, v \notin Mortal, pc[v] = "reset"
  PROVE  Reset(v) \/ (pc'[v] = "reset" /\ item'[v] = item[v])
<1> v \in Worker
  BY DEF Worker
<1>1. ASSUME NEW w \in Worker \ {v}, Alone(w)
      PROVE  pc'[v] = "reset" /\ item'[v] = item[v]
  BY <1>1 DEF Alone
<1>2. CASE UNCHANGED workVars
  BY <1>2 DEF workVars
<1>3. Sweep(v) => Reset(v)
  BY DEF Sweep, ListDue, Widen, WidenNone, EscalateWave, EscalateLost, Expire, ExpireLost,
         End, Continue
<1>4. v \notin Desk /\ v \notin Phone /\ ~Stop(v)
  BY WorkerAssumption DEF Stop
<1>5. QED
  BY <1>1, <1>2, <1>3, <1>4, WorkMoves DEF Acts

\* What keeps a shipment parked, keeps it, or another reason takes over.
LEMMA KeptStep ==
  ASSUME TypeOK, Sweeper \cap Mortal = {}, Next,
         NEW s \in Shipment, queue[s] = "dispatched", queue'[s] = "dispatched", Kept(s)
  PROVE  Kept(s)'
<1>1. ASSUME NEW t \in Trip, Of(t) = s, trip[t] # "none"
      PROVE  Kept(s)'
  BY <1>1, TripsStay DEF Kept
<1>2. ASSUME NEW o \in Offer, Of(o) = s, offer[o] = "open"
      PROVE  Kept(s)'
  <2>1. CASE offer'[o] = "open"
    BY <1>2, <2>1 DEF Kept
  <2>2. ASSUME NEW w \in Phone, NEW x \in Offer, NEW t \in Trip, Claim(w, x, t), offer'[o] # "open"
        PROVE  Kept(s)'
    <3>1. x = o /\ Of(t) = s
      BY <1>2, <2>2 DEF Claim, TypeOK, RowsOK
    <3>2. trip'[t] = "accepted"
      BY <2>2 DEF Claim, TypeOK, RowsOK
    <3>3. QED
      BY <3>1, <3>2 DEF Kept
  <2>3. ASSUME NEW v \in Sweeper, Expire(v), offer'[o] # "open"
        PROVE  Kept(s)'
    <3>1. item[v] = o
      BY <1>2, <2>3 DEF Expire, TypeOK, RowsOK
    <3>2. pc'[v] = "reset" /\ item'[v] = o
      BY <2>3, <3>1, MovesAlone DEF Expire, Worker
    <3>3. QED
      BY <1>2, <3>2 DEF Kept
  <2>4. ASSUME NEW z \in Shipment, NEW known \in SUBSET told, HandleCancelled(z, known),
               offer'[o] # "open"
        PROVE  FALSE
    <3>1. z = s
      BY <1>2, <2>4 DEF HandleCancelled
    <3>2. queue'[s] # "dispatched"
      BY <2>4, <3>1 DEF HandleCancelled, TypeOK, RowsOK
    <3>3. QED
      BY <3>2
  <2>5. ASSUME NEW w \in Desk, NEW x \in Offer, CreateOffer(w, x)
        PROVE  offer'[o] = "open"
    BY <1>2, <2>5 DEF CreateOffer, TypeOK, RowsOK
  <2>6. QED
    BY <1>2, <2>1, <2>2, <2>3, <2>4, <2>5, OfferMoves DEF EscalateWave
<1>3. ASSUME NEW v \in Sweeper, pc[v] = "reset", Of(item[v]) = s
      PROVE  Kept(s)'
  <2>1. ~Reset(v)
    BY <1>3 DEF Reset, TypeOK, RowsOK
  <2>2. pc'[v] = "reset" /\ item'[v] = item[v]
    BY <1>3, <2>1, ResetMoves
  <2>3. QED
    BY <1>3, <2>2 DEF Kept
<1>4. QED
  BY <1>1, <1>2, <1>3 DEF Kept

LEMMA NothingIsLostStep ==
  ASSUME TypeOK, Assigned, Sweeper \cap Mortal = {}, [Next]_vars,
         \A s \in Shipment : queue[s] = "dispatched" => Kept(s)
  PROVE  \A s \in Shipment : queue'[s] = "dispatched" => Kept(s)'
<1>1. CASE UNCHANGED vars
  BY <1>1 DEF Kept, vars, offerVars, tripVars, workVars
<1>2. CASE Next
  <2> SUFFICES ASSUME NEW s \in Shipment, queue'[s] = "dispatched"
               PROVE  Kept(s)'
    OBVIOUS
  <2>1. CASE queue[s] = "dispatched"
    BY <1>2, <2>1, KeptStep
  <2>2. ASSUME NEW w \in Desk, MarkDispatched(w), item[w] = s
        PROVE  Kept(s)'
    BY <1>2, <2>2, TripsStay DEF MarkDispatched, End, Assigned, Kept, Worker
  <2>3. ASSUME NEW w \in Desk, NEW o \in Offer, CreateOffer(w, o), Of(o) = s
        PROVE  Kept(s)'
    BY <2>3 DEF CreateOffer, Kept, TypeOK, RowsOK
  <2>4. ASSUME NEW w \in Phone, NEW o \in Offer, NEW t \in Trip, Claim(w, o, t), Of(o) = s
        PROVE  Kept(s)'
    BY <2>4 DEF Claim, Kept, TypeOK, RowsOK
  <2>5. QED
    BY <1>2, <2>1, <2>2, <2>3, <2>4, QueueMoves
<1>3. QED
  BY <1>1, <1>2

\* If no sweep stops between its two statements, no offer leaves its shipment
\* parked: an offer is open, a driver was assigned, or the reset is on its way.
THEOREM NothingLost == Spec => []NothingIsLost
<1> DEFINE Inv == TypeOK /\ Assigned /\ NothingIsLost
<1>1. Init => Inv
  BY InitType DEF Init, Assigned, NothingIsLost
<1>2. Inv /\ [Next]_vars => Inv'
  <2> SUFFICES ASSUME Inv, [Next]_vars
               PROVE  Inv'
    OBVIOUS
  <2>1. TypeOK' /\ Assigned'
    BY StepType, AssignedStep
  <2>2. CASE Sweeper \cap Mortal = {}
    <3>1. \A s \in Shipment : queue[s] = "dispatched" => Kept(s)
      BY <2>2 DEF NothingIsLost, Kept
    <3>2. \A s \in Shipment : queue'[s] = "dispatched" => Kept(s)'
      BY <2>2, <3>1, NothingIsLostStep
    <3>3. QED
      BY <2>1, <3>2 DEF NothingIsLost, Kept
  <2>3. CASE Sweeper \cap Mortal # {}
    BY <2>1, <2>3 DEF NothingIsLost
  <2>4. QED
    BY <2>2, <2>3
<1>3. QED
  BY <1>1, <1>2, PTL DEF Spec
=============================================================================
