------------------------ MODULE CourierDispatchProofs ------------------------
(***************************************************************************)
(* For every set of couriers, jobs, offers and concurrent requests: the    *)
(* type invariant, the single live claim, the milestones, the lifecycle of *)
(* a row, and that CourierDispatch implements CourierDuty and CourierFeed. *)
(***************************************************************************)
EXTENDS CourierDispatch, TLAPS

\* The inductive invariant.  SingleLiveClaim is not inductive with the blind
\* save of Complete alone: it needs ReadsStayValid, which says that the row a
\* request is about to save was claimed and nobody reopened it.
Inv == TypeOK /\ SingleLiveClaim /\ ReadsStayValid /\ MilestonesFromHolder

USE ReportAssumption, NoRowAssumption

\* The invariant holds of an empty table.
LEMMA InitInv == Init => Inv
  BY DEF Init, Inv, TypeOK, SingleLiveClaim, ReadsStayValid, MilestonesFromHolder,
         Row, Status, Milestone, Step

\* A row is of a courier, of a job, and of a round of offers.
LEMMA RowParts ==
  ASSUME NEW r \in Row
  PROVE  /\ Who(r) \in Courier /\ What(r) \in Job /\ r[3] \in Round
         /\ r = <<Who(r), What(r), r[3]>>
  BY DEF Row, Who, What

\* Type correctness is inductive by itself.
LEMMA TypeStep == TypeOK /\ [Next]_vars => TypeOK'
<1> SUFFICES ASSUME TypeOK, [Next]_vars PROVE TypeOK'
  OBVIOUS
<1> USE DEF TypeOK
<1>1. ASSUME NEW j \in Job, NEW n \in Round, NEW cs \in SUBSET Courier, Offer(j, n, cs)
      PROVE TypeOK'
  BY <1>1 DEF Offer, Row
<1>2. ASSUME NEW j \in Job, NEW n \in Round, AbandonOffer(j, n)
      PROVE TypeOK'
  BY <1>2 DEF AbandonOffer
<1>3. ASSUME NEW r \in Row, SaveOffer(r)
      PROVE TypeOK'
  BY <1>3 DEF SaveOffer, Status
<1>4. ASSUME NEW q \in Request, NEW r \in Row, TryClaim(q, r)
      PROVE TypeOK'
  BY <1>4 DEF TryClaim, Begin, Step, Status
<1>5. ASSUME NEW q \in Request, NEW r \in Row, ReadDelivery(q, r)
      PROVE TypeOK'
  BY <1>5 DEF ReadDelivery, Begin, Step
<1>6. ASSUME NEW q \in Request, NEW r \in Row, NEW m \in Report, ReadMilestone(q, r, m)
      PROVE TypeOK'
  BY <1>6 DEF ReadMilestone, Begin, Step
<1>7. ASSUME NEW q \in Request, Serve(q)
      PROVE TypeOK'
  <2>1. CASE ExpireOtherOffers(q)
    BY <2>1 DEF ExpireOtherOffers, Continue, Step, Status
  <2>2. CASE ExpireFails(q)
    BY <2>2 DEF ExpireFails, Continue, Step
  <2>3. CASE Complete(q)
    BY <2>3 DEF Complete, Continue, Step, Status
  <2>4. CASE Credited(q)
    BY <2>4 DEF Credited, Continue, Step
  <2>5. ASSUME NEW m \in Milestone, target[q] \in Row, Emit(q, m, target[q]), Answer(q)
        PROVE  /\ published' \subseteq (Milestone \X Courier \X Job)
               /\ pc' \in [Request -> Step]
               /\ target' \in [Request -> Row \cup {NoRow}]
               /\ \A p \in Request : (target'[p] = NoRow) = (pc'[p] = "idle")
    BY <2>5, RowParts DEF Emit, Answer, Step
  <2>6. CASE AnnounceClaim(q)
    BY <2>5, <2>6 DEF AnnounceClaim, Milestone
  <2>7. CASE (\E m \in Report : PublishMilestone(q, m))
    BY <2>5, <2>7 DEF PublishMilestone, Milestone
  <2>8. CASE PublishDelivery(q)
    BY <2>5, <2>8 DEF PublishDelivery, Milestone
  <2> QED
    BY <1>7, <2>1, <2>2, <2>3, <2>4, <2>6, <2>7, <2>8 DEF Serve
<1>8. ASSUME NEW q \in Request, Die(q)
      PROVE TypeOK'
  BY <1>8 DEF Die, Answer, Step
<1>9. CASE UNCHANGED vars
  BY <1>9 DEF vars
<1> QED
  BY <1>1, <1>2, <1>3, <1>4, <1>5, <1>6, <1>7, <1>8, <1>9 DEF Next

-----------------------------------------------------------------------------
(* What one step can do to the table: every property of `status' follows    *)
(* from this case split and nothing else.                                   *)

Offered(r)   == /\ status[r] = "none"
                /\ status' = [status EXCEPT ![r] = "offered"]
Won(r)       == /\ status[r] = "offered"
                /\ ~HoldsClaim(Who(r))
                /\ status' = [status EXCEPT ![r] = "claimed"]
Done(r)      == /\ status[r] \in {"claimed", "completed"}
                /\ status' = [status EXCEPT ![r] = "completed"]
OffersRetired ==
  /\ status' \in [Row -> Status]
  /\ \A r \in Row : status'[r] # status[r] => status[r] = "offered" /\ status'[r] = "expired"

\* A step offers, wins or completes one row, retires offers, or leaves the table.
LEMMA TableStep ==
  ASSUME TypeOK, ReadsStayValid, [Next]_vars
  PROVE  \/ UNCHANGED status
         \/ \E r \in Row : Offered(r) \/ Won(r) \/ Done(r)
         \/ OffersRetired
<1> DEFINE Goal == \/ UNCHANGED status
                   \/ \E r \in Row : Offered(r) \/ Won(r) \/ Done(r)
                   \/ OffersRetired
<1>1. ASSUME NEW j \in Job, NEW n \in Round, NEW cs \in SUBSET Courier, Offer(j, n, cs)
      PROVE Goal
  BY <1>1 DEF Offer
<1>2. ASSUME NEW j \in Job, NEW n \in Round, AbandonOffer(j, n)
      PROVE Goal
  BY <1>2 DEF AbandonOffer
<1>3. ASSUME NEW r \in Row, SaveOffer(r)
      PROVE Goal
  BY <1>3 DEF SaveOffer, ReadsStayValid, Offered
<1>4. ASSUME NEW q \in Request, NEW r \in Row, TryClaim(q, r)
      PROVE Goal
  BY <1>4 DEF TryClaim, Won
<1>5. ASSUME NEW q \in Request, NEW r \in Row, ReadDelivery(q, r)
      PROVE Goal
  BY <1>5 DEF ReadDelivery
<1>6. ASSUME NEW q \in Request, NEW r \in Row, NEW m \in Report, ReadMilestone(q, r, m)
      PROVE Goal
  BY <1>6 DEF ReadMilestone
<1>7. ASSUME NEW q \in Request, Serve(q)
      PROVE Goal
  <2>1. CASE ExpireOtherOffers(q)
    <3>1. OffersRetired
      BY <2>1 DEF ExpireOtherOffers, OffersRetired, TypeOK, Status
    <3> QED
      BY <3>1
  <2>2. CASE Complete(q)
    <3>1. target[q] \in Row /\ Done(target[q])
      BY <2>2 DEF Complete, Continue, Done, ReadsStayValid, TypeOK
    <3> QED
      BY <3>1
  <2>3. CASE \/ ExpireFails(q) \/ AnnounceClaim(q) \/ (\E m \in Report : PublishMilestone(q, m))
             \/ Credited(q) \/ PublishDelivery(q)
    BY <2>3 DEF ExpireFails, AnnounceClaim, PublishMilestone, Credited, PublishDelivery
  <2> QED
    BY <1>7, <2>1, <2>2, <2>3 DEF Serve
<1>8. ASSUME NEW q \in Request, Die(q)
      PROVE Goal
  BY <1>8 DEF Die
<1>9. CASE UNCHANGED vars
  BY <1>9 DEF vars
<1> QED
  BY <1>1, <1>2, <1>3, <1>4, <1>5, <1>6, <1>7, <1>8, <1>9 DEF Next

\* No step gives a courier a second live claim.
LEMMA SingleLiveClaimStep ==
  ASSUME TypeOK, ReadsStayValid, SingleLiveClaim, [Next]_vars
  PROVE  SingleLiveClaim'
<1>1. CASE UNCHANGED status
  BY <1>1 DEF SingleLiveClaim
<1>2. ASSUME NEW r \in Row, Offered(r)
      PROVE SingleLiveClaim'
  BY <1>2 DEF Offered, SingleLiveClaim, TypeOK
<1>3. ASSUME NEW r \in Row, Won(r)
      PROVE SingleLiveClaim'
  BY <1>3 DEF Won, HoldsClaim, SingleLiveClaim, TypeOK
<1>4. ASSUME NEW r \in Row, Done(r)
      PROVE SingleLiveClaim'
  BY <1>4 DEF Done, SingleLiveClaim, TypeOK
<1>5. CASE OffersRetired
  BY <1>5 DEF OffersRetired, SingleLiveClaim
<1> QED
  BY <1>1, <1>2, <1>3, <1>4, <1>5, TableStep

\* No step moves a row backwards.
LEMMA ForwardStep ==
  ASSUME TypeOK, ReadsStayValid, [Next]_vars, NEW r \in Row, status'[r] # status[r]
  PROVE  <<status[r], status'[r]>> \in
           {<<"none", "offered">>, <<"offered", "claimed">>,
            <<"offered", "expired">>, <<"claimed", "completed">>}
<1>1. CASE OffersRetired
  BY <1>1 DEF OffersRetired
<1>2. ASSUME NEW x \in Row, Offered(x) \/ Won(x) \/ Done(x)
      PROVE /\ x = r
            /\ \/ status[r] = "none" /\ status'[r] = "offered"
               \/ status[r] = "offered" /\ status'[r] = "claimed"
               \/ status[r] = "claimed" /\ status'[r] = "completed"
  BY <1>2 DEF Offered, Won, Done, TypeOK
<1> QED
  BY <1>1, <1>2, TableStep

\* A row that was won stays won, and a completed one stays completed.
LEMMA WonStaysWon ==
  ASSUME TypeOK, ReadsStayValid, [Next]_vars, NEW r \in Row
  PROVE  /\ status[r] \in {"claimed", "completed"} => status'[r] \in {"claimed", "completed"}
         /\ status[r] = "completed" => status'[r] = "completed"
  BY ForwardStep

\* No step takes the row away under a request that is about to write it.
LEMMA ReadsStayValidStep ==
  ASSUME TypeOK, TypeOK', ReadsStayValid, [Next]_vars
  PROVE  ReadsStayValid'
<1> DEFINE Fresh(q) ==
      /\ pc[q] # "idle" => status[target[q]] \in {"claimed", "completed"}
      /\ pc[q] \in {"credit", "delivered"} => status[target[q]] = "completed"
<1>1. ASSUME NEW q \in Request
      PROVE Fresh(q)'
  <2>1. CASE pc'[q] = pc[q] /\ target'[q] = target[q]
    <3>1. pc[q] # "idle" => target[q] \in Row
      BY DEF TypeOK
    <3> QED
      BY <2>1, <3>1, WonStaysWon DEF ReadsStayValid
  <2>2. CASE pc'[q] = "idle"
    BY <2>2
  <2>3. ASSUME NEW p \in Request, Answer(p)
        PROVE Fresh(q)'
    BY <2>1, <2>2, <2>3 DEF Answer, TypeOK
  <2>4. ASSUME NEW p \in Request, NEW r \in Row, NEW s \in Step, Begin(p, r, s),
               s \notin {"idle", "credit", "delivered"},
               status'[r] \in {"claimed", "completed"}
        PROVE Fresh(q)'
    BY <2>1, <2>4 DEF Begin, TypeOK
  <2>5. ASSUME NEW p \in Request, NEW r \in Row, TryClaim(p, r)
        PROVE Fresh(q)'
    <3>1. status'[r] = "claimed" /\ Begin(p, r, "retire")
      BY <2>5 DEF TryClaim, TypeOK
    <3> QED
      BY <3>1, <2>4 DEF Step
  <2>6. ASSUME NEW p \in Request, NEW r \in Row, ReadDelivery(p, r)
        PROVE Fresh(q)'
    BY <2>6, <2>4 DEF ReadDelivery, Step
  <2>7. ASSUME NEW p \in Request, NEW r \in Row, NEW m \in Report, ReadMilestone(p, r, m)
        PROVE Fresh(q)'
    BY <2>7, <2>4 DEF ReadMilestone, Step
  <2>8. ASSUME NEW p \in Request, NEW s \in Step, NEW t \in Step, Continue(p, s, t),
               s # "idle", t \in {"credit", "delivered"} => status'[target[p]] = "completed"
        PROVE Fresh(q)'
    <3>1. CASE q = p
      <4>1. target[p] \in Row /\ target'[p] = target[p] /\ pc[p] # "idle"
        BY <2>8 DEF Continue, TypeOK
      <4>2. status'[target[p]] \in {"claimed", "completed"}
        BY <4>1, WonStaysWon DEF ReadsStayValid
      <4> QED
        BY <2>8, <3>1, <4>1, <4>2 DEF Continue, TypeOK
    <3>2. CASE q # p
      BY <2>1, <2>8, <3>2 DEF Continue, TypeOK
    <3> QED
      BY <3>1, <3>2
  <2>9. ASSUME NEW p \in Request, Serve(p)
        PROVE Fresh(q)'
    <3>1. CASE ExpireOtherOffers(p) \/ ExpireFails(p)
      BY <2>8, <3>1 DEF ExpireOtherOffers, ExpireFails, Step
    <3>2. CASE Complete(p)
      <4>1. target[p] \in Row
        BY <3>2 DEF Complete, Continue, TypeOK
      <4>2. status'[target[p]] = "completed"
        BY <3>2, <4>1 DEF Complete, TypeOK
      <4> QED
        BY <3>2, <4>2, <2>8 DEF Complete, Step
    <3>3. CASE Credited(p)
      <4>1. status'[target[p]] = "completed"
        BY <3>3 DEF Credited, Continue, ReadsStayValid
      <4> QED
        BY <3>3, <4>1, <2>8 DEF Credited, Step
    <3>4. CASE AnnounceClaim(p) \/ (\E m \in Report : PublishMilestone(p, m)) \/ PublishDelivery(p)
      BY <2>3, <3>4 DEF AnnounceClaim, PublishMilestone, PublishDelivery
    <3> QED
      BY <2>9, <3>1, <3>2, <3>3, <3>4 DEF Serve
  <2>10. ASSUME NEW p \in Request, Die(p)
         PROVE Fresh(q)'
    BY <2>3, <2>10 DEF Die
  <2>11. CASE UNCHANGED <<pc, target>>
    BY <2>1, <2>11
  <2> QED
    BY <2>5, <2>6, <2>7, <2>9, <2>10, <2>11
    DEF Next, Offer, AbandonOffer, SaveOffer, vars
<1>2. ASSUME NEW r \in selected'
      PROVE status'[r] = "none"
  <2>1. ASSUME NEW j \in Job, NEW n \in Round, NEW cs \in SUBSET Courier, Offer(j, n, cs)
        PROVE status'[r] = "none"
    BY <2>1 DEF Offer, ReadsStayValid
  <2>2. ASSUME NEW j \in Job, NEW n \in Round, AbandonOffer(j, n)
        PROVE status'[r] = "none"
    BY <2>2 DEF AbandonOffer, ReadsStayValid
  <2>3. ASSUME NEW x \in Row, SaveOffer(x)
        PROVE status'[r] = "none"
    BY <2>3 DEF SaveOffer, ReadsStayValid, TypeOK
  <2>4. CASE UNCHANGED selected
    <3>1. r \in Row /\ status[r] = "none"
      BY <2>4 DEF ReadsStayValid, TypeOK
    <3>2. ASSUME NEW q \in Request, NEW x \in Row, TryClaim(q, x)
          PROVE status'[r] = "none"
      BY <3>1, <3>2 DEF TryClaim, TypeOK
    <3>3. ASSUME NEW q \in Request, Serve(q)
          PROVE status'[r] = "none"
      <4>1. CASE Complete(q)
        <5>1. target[q] \in Row /\ status[target[q]] # "none"
          BY <4>1 DEF Complete, Continue, ReadsStayValid, TypeOK
        <5> QED
          BY <3>1, <4>1, <5>1 DEF Complete, TypeOK
      <4>2. CASE ExpireOtherOffers(q)
        BY <3>1, <4>2 DEF ExpireOtherOffers
      <4> QED
        BY <3>1, <3>3, <4>1, <4>2
        DEF Serve, ExpireFails, AnnounceClaim, PublishMilestone, Credited, PublishDelivery
    <3> QED
      BY <2>1, <2>2, <2>3, <3>1, <3>2, <3>3 DEF Next, ReadDelivery, ReadMilestone, Die, vars
  <2>5. \/ UNCHANGED selected
        \/ \E j \in Job, n \in Round, cs \in SUBSET Courier : Offer(j, n, cs)
        \/ \E j \in Job, n \in Round : AbandonOffer(j, n)
        \/ \E x \in Row : SaveOffer(x)
    BY DEF Next, vars, TryClaim, ReadDelivery, ReadMilestone, Serve, Die, ExpireOtherOffers,
           ExpireFails, AnnounceClaim, PublishMilestone, Complete, Credited, PublishDelivery
  <2> QED
    BY <2>1, <2>2, <2>3, <2>4, <2>5
<1> QED
  BY <1>1, <1>2 DEF ReadsStayValid

\* No step publishes a milestone of a courier who did not win.
LEMMA MilestonesStep ==
  ASSUME TypeOK, ReadsStayValid, MilestonesFromHolder, [Next]_vars
  PROVE  MilestonesFromHolder'
<1> DEFINE Holder(m, c, j) ==
      \E n \in Round :
        /\ status[<<c, j, n>>] \in {"claimed", "completed"}
        /\ m = "delivered" => status[<<c, j, n>>] = "completed"
<1>1. ASSUME NEW c \in Courier, NEW j \in Job, NEW m \in Milestone, Holder(m, c, j)
      PROVE Holder(m, c, j)'
  <2>1. PICK n \in Round :
          /\ status[<<c, j, n>>] \in {"claimed", "completed"}
          /\ m = "delivered" => status[<<c, j, n>>] = "completed"
    BY <1>1
  <2>2. <<c, j, n>> \in Row
    BY DEF Row
  <2> QED
    BY <2>1, <2>2, WonStaysWon
<1>2. ASSUME NEW q \in Request, NEW m \in Milestone, pc[q] # "idle",
             m = "delivered" => pc[q] = "delivered",
             UNCHANGED status, Emit(q, m, target[q])
      PROVE MilestonesFromHolder'
  <2>1. target[q] \in Row
    BY <1>2 DEF TypeOK
  <2>2. Holder(m, Who(target[q]), What(target[q]))
    BY <1>2, <2>1, RowParts DEF ReadsStayValid
  <2> QED
    BY <1>1, <1>2, <2>1, <2>2 DEF Emit, MilestonesFromHolder
<1>3. ASSUME NEW q \in Request, AnnounceClaim(q) \/ (\E m \in Report : PublishMilestone(q, m)) \/ PublishDelivery(q)
      PROVE MilestonesFromHolder'
  BY <1>2, <1>3 DEF AnnounceClaim, PublishMilestone, PublishDelivery, Milestone
<1>4. CASE UNCHANGED published
  BY <1>1, <1>4 DEF MilestonesFromHolder
<1>5. \/ UNCHANGED published
      \/ \E q \in Request : AnnounceClaim(q) \/ (\E m \in Report : PublishMilestone(q, m)) \/ PublishDelivery(q)
  BY DEF Next, vars, Offer, AbandonOffer, SaveOffer, TryClaim, ReadDelivery, ReadMilestone,
         Serve, Die, ExpireOtherOffers, ExpireFails, Complete, Credited
<1> QED
  BY <1>3, <1>4, <1>5

-----------------------------------------------------------------------------
(* The invariant, and the theorems about the specification. *)

\* The inductive invariant of every behaviour.
LEMMA InvHolds == Spec => []Inv
<1>1. Inv /\ [Next]_vars => Inv'
  BY TypeStep, SingleLiveClaimStep, ReadsStayValidStep, MilestonesStep DEF Inv
<1> QED
  BY InitInv, <1>1, PTL DEF Spec

\* Types: every variable keeps its type, and a request has a target exactly
\* while it is in flight.
THEOREM TypeCorrect == Spec => []TypeOK
  BY InvHolds, PTL DEF Inv

\* Migration 0002's index, seen from the whole service: no interleaving of
\* claims, bulk expiries and blind saves gives a courier two live claims.
THEOREM OneClaimPerCourier == Spec => []SingleLiveClaim
  BY InvHolds, PTL DEF Inv

\* A handler never acts on a row that moved away under it.
THEOREM NoStaleRow == Spec => []ReadsStayValid
  BY InvHolds, PTL DEF Inv

\* Losing offers cause no milestone.
THEOREM OnlyHoldersReport == Spec => []MilestonesFromHolder
  BY InvHolds, PTL DEF Inv

\* Rows only move forward, whatever writers race.
THEOREM Forward == Spec => StatusMovesForward
<1>1. TypeOK /\ ReadsStayValid /\ [Next]_vars =>
        [\A r \in Row :
           status'[r] # status[r] =>
             <<status[r], status'[r]>> \in
               {<<"none", "offered">>, <<"offered", "claimed">>,
                <<"offered", "expired">>, <<"claimed", "completed">>}]_vars
  BY ForwardStep
<1> QED
  BY <1>1, TypeCorrect, NoStaleRow, PTL DEF Spec, StatusMovesForward

\* A request gets to its answer through the publication of what it did: the safety
\* half of WinsAreAnnounced, for any couriers, jobs and requests.
THEOREM NoSilentAnswer == Spec => EndsWithEvent
<1>1. ASSUME TypeOK, [Next]_vars, NEW q \in Request, q \notin Mortal,
             pc[q] # "idle", pc'[q] = "idle"
      PROVE  LET m == IF pc[q] = "announce" THEN "assigned" ELSE pc[q]
             IN  <<m, Who(target[q]), What(target[q])>> \in published'
  <2> USE DEF TypeOK
  <2>1. ASSUME NEW p \in Request, NEW r, NEW step, Begin(p, r, step), step # "idle"
        PROVE  FALSE
    BY <1>1, <2>1 DEF Begin
  <2>2. ASSUME NEW p \in Request, NEW from, NEW to, Continue(p, from, to), to # "idle"
        PROVE  FALSE
    BY <1>1, <2>2 DEF Continue
  <2>3. ASSUME NEW p \in Request, Answer(p)
        PROVE  p = q
    BY <1>1, <2>3 DEF Answer
  <2>4. CASE pc' = pc
    BY <1>1, <2>4
  <2>5. ASSUME NEW p \in Request, AnnounceClaim(p)
        PROVE  <<"assigned", Who(target[q]), What(target[q])>> \in published' /\ pc[q] = "announce"
    BY <1>1, <2>3, <2>5 DEF AnnounceClaim, Emit
  <2>6. ASSUME NEW p \in Request, NEW m \in Report, PublishMilestone(p, m)
        PROVE  <<pc[q], Who(target[q]), What(target[q])>> \in published' /\ pc[q] # "announce"
    BY <1>1, <2>3, <2>6, ReportAssumption DEF PublishMilestone, Emit
  <2>7. ASSUME NEW p \in Request, PublishDelivery(p)
        PROVE  <<pc[q], Who(target[q]), What(target[q])>> \in published' /\ pc[q] # "announce"
    BY <1>1, <2>3, <2>7 DEF PublishDelivery, Emit
  <2>8. ASSUME NEW p \in Request, NEW r \in Row,
               \/ TryClaim(p, r) \/ ReadDelivery(p, r)
               \/ \E m \in Report : ReadMilestone(p, r, m)
        PROVE  FALSE
    BY <2>1, <2>8, ReportAssumption DEF TryClaim, ReadDelivery, ReadMilestone
  <2>9. ASSUME NEW p \in Request,
               ExpireOtherOffers(p) \/ ExpireFails(p) \/ Complete(p) \/ Credited(p)
        PROVE  FALSE
    BY <2>2, <2>9 DEF ExpireOtherOffers, ExpireFails, Complete, Credited
  <2>10. \A p \in Request : ~Die(p)
    BY <1>1, <2>3 DEF Die
  <2>11. \/ pc' = pc
         \/ \E p \in Request, r \in Row :
              \/ TryClaim(p, r) \/ ReadDelivery(p, r)
              \/ \E m \in Report : ReadMilestone(p, r, m)
         \/ \E p \in Request : Serve(p) \/ Die(p)
    BY <1>1 DEF Next, vars, Offer, AbandonOffer, SaveOffer
  <2> QED
    BY <2>4, <2>5, <2>6, <2>7, <2>8, <2>9, <2>10, <2>11 DEF Serve
<1>2. TypeOK /\ [Next]_vars =>
        [\A q \in Request \ Mortal :
           pc[q] # "idle" /\ pc'[q] = "idle" =>
             LET m == IF pc[q] = "announce" THEN "assigned" ELSE pc[q]
             IN  <<m, Who(target[q]), What(target[q])>> \in published']_vars
  BY <1>1
<1> QED
  BY TypeCorrect, <1>2, PTL DEF Spec, EndsWithEvent

-----------------------------------------------------------------------------
(* CourierDispatch implements CourierDuty.                                  *)

\* The mapping, as facts that need no CHOOSE: stated of a state, so that they
\* hold of the next one too.
CarryingFacts ==
  /\ Carrying = [c \in Courier |-> Carrying[c]]
  /\ \A r \in Row : status[r] = "claimed" => Carrying[Who(r)] = What(r)
  /\ \A c \in Courier : (\A r \in Row : Who(r) = c => status[r] # "claimed") => Carrying[c] = Free

\* What the refinement mapping says of each courier.
LEMMA Mapping == TypeOK /\ SingleLiveClaim => CarryingFacts
<1> SUFFICES ASSUME TypeOK, SingleLiveClaim PROVE CarryingFacts
  OBVIOUS
<1>1. Carrying = [c \in Courier |-> Carrying[c]]
  <2> DEFINE J(c) == IF HoldsClaim(c)
                     THEN What(CHOOSE r \in Row : Who(r) = c /\ status[r] = "claimed")
                     ELSE Free
  <2>1. Carrying = [c \in Courier |-> J(c)]
    BY Zenon DEF Carrying
  <2> HIDE DEF J
  <2> QED
    BY <2>1
<1>2. ASSUME NEW r \in Row, status[r] = "claimed"
      PROVE Carrying[Who(r)] = What(r)
  <2> DEFINE P(x) == Who(x) = Who(r) /\ status[x] = "claimed"
  <2>1. HoldsClaim(Who(r))
    BY <1>2 DEF HoldsClaim
  <2>2. P(CHOOSE x \in Row : P(x)) /\ (CHOOSE x \in Row : P(x)) \in Row
    BY <1>2, Zenon
  <2>3. (CHOOSE x \in Row : P(x)) = r
    BY <1>2, <2>2 DEF SingleLiveClaim
  <2> QED
    BY <2>1, <2>3, RowParts, Zenon DEF Carrying
<1>3. ASSUME NEW c \in Courier, \A r \in Row : Who(r) = c => status[r] # "claimed"
      PROVE Carrying[c] = Free
  <2>1. ~HoldsClaim(c)
    BY <1>3 DEF HoldsClaim
  <2> QED
    BY <2>1, Zenon DEF Carrying
<1> QED
  BY <1>1, <1>2, <1>3, Zenon DEF CarryingFacts

\* The same of the next state.
LEMMA MappingNext == TypeOK' /\ SingleLiveClaim' => CarryingFacts'
  BY Mapping, PTL

\* A courier whose claimed rows stay as they are carries the same job.
LEMMA SameCarrying ==
  ASSUME CarryingFacts, CarryingFacts', NEW c \in Courier,
         \A r \in Row : Who(r) = c => (status'[r] = "claimed" <=> status[r] = "claimed")
  PROVE  Carrying'[c] = Carrying[c]
<1>1. CASE \E r \in Row : Who(r) = c /\ status[r] = "claimed"
  BY <1>1 DEF CarryingFacts
<1>2. CASE \A r \in Row : Who(r) = c => status[r] # "claimed"
  BY <1>2 DEF CarryingFacts
<1> QED
  BY <1>1, <1>2

\* The empty table maps to couriers with nothing to carry.
LEMMA DutyInit == Init => Duty!Init
<1> SUFFICES ASSUME Init PROVE Duty!Init
  OBVIOUS
<1>1. \A c \in Courier : ~HoldsClaim(c)
  BY DEF Init, HoldsClaim
<1>2. Carrying = [c \in Courier |-> Free]
  BY <1>1, Zenon DEF Carrying
<1>3. Finished = {}
  BY DEF Init, Finished
<1> QED
  BY <1>2, <1>3 DEF Duty!Init

\* Every step of CourierDispatch is a step of CourierDuty or a stutter.
LEMMA DutyStep ==
  ASSUME Inv, Inv', [Next]_vars
  PROVE  [Duty!Next]_Duty!dutyVars
<1> USE DEF Inv
<1>0. CarryingFacts /\ CarryingFacts'
  BY Mapping, MappingNext
<1>1. ASSUME \A r \in Row : status'[r] = "claimed" <=> status[r] = "claimed",
             \A r \in Row : status'[r] = "completed" <=> status[r] = "completed"
      PROVE UNCHANGED <<Carrying, Finished>>
  <2>1. \A c \in Courier : Carrying'[c] = Carrying[c]
    BY <1>0, <1>1, SameCarrying
  <2>2. UNCHANGED Carrying
    BY <1>0, <2>1 DEF CarryingFacts
  <2>3. UNCHANGED Finished
    BY <1>1 DEF Finished
  <2> QED
    BY <2>2, <2>3
<1>2. CASE UNCHANGED status
  BY <1>1, <1>2 DEF Duty!dutyVars
<1>3. CASE OffersRetired
  BY <1>1, <1>3 DEF OffersRetired, Duty!dutyVars
<1>4. ASSUME NEW r \in Row, Offered(r)
      PROVE UNCHANGED <<Carrying, Finished>>
  BY <1>1, <1>4 DEF Offered, TypeOK
<1>5. ASSUME NEW r \in Row, Won(r)
      PROVE Duty!Take(Who(r), What(r))
  <2>1. Carrying[Who(r)] = Free
    BY <1>0, <1>5, RowParts DEF Won, HoldsClaim, CarryingFacts
  <2>2. status'[r] = "claimed" /\ \A x \in Row : x # r => status'[x] = status[x]
    BY <1>5 DEF Won, TypeOK
  <2>3. Carrying'[Who(r)] = What(r)
    BY <1>0, <2>2 DEF CarryingFacts
  <2>4. \A c \in Courier : c # Who(r) => Carrying'[c] = Carrying[c]
    BY <1>0, <2>2, SameCarrying
  <2>5. Carrying' = [Carrying EXCEPT ![Who(r)] = What(r)]
    BY <1>0, <2>3, <2>4, RowParts DEF CarryingFacts
  <2>6. UNCHANGED Finished
    BY <2>2, <1>5 DEF Finished, Won
  <2> QED
    BY <2>1, <2>5, <2>6 DEF Duty!Take
<1>6. ASSUME NEW r \in Row, Done(r), status[r] = "completed"
      PROVE UNCHANGED <<Carrying, Finished>>
  BY <1>1, <1>6 DEF Done, TypeOK
<1>7. ASSUME NEW r \in Row, Done(r), status[r] = "claimed"
      PROVE Duty!Finish(Who(r))
  <2>1. Carrying[Who(r)] = What(r) /\ What(r) # Free
    BY <1>0, <1>7, RowParts, FreeAssumption DEF CarryingFacts
  <2>2. status'[r] = "completed" /\ \A x \in Row : x # r => status'[x] = status[x]
    BY <1>7 DEF Done, TypeOK
  <2>3. Carrying'[Who(r)] = Free
    <3>1. \A x \in Row : Who(x) = Who(r) => status'[x] # "claimed"
      BY <1>7, <2>2 DEF SingleLiveClaim
    <3> QED
      BY <1>0, <3>1, RowParts DEF CarryingFacts
  <2>4. \A c \in Courier : c # Who(r) => Carrying'[c] = Carrying[c]
    BY <1>0, <2>2, SameCarrying
  <2>5. Carrying' = [Carrying EXCEPT ![Who(r)] = Free]
    BY <1>0, <2>3, <2>4, RowParts DEF CarryingFacts
  <2>6. Finished' = Finished \cup {<<Who(r), Carrying[Who(r)]>>}
    BY <2>1, <2>2, <1>7 DEF Finished
  <2> QED
    BY <2>1, <2>5, <2>6 DEF Duty!Finish
<1> QED
  BY <1>2, <1>3, <1>4, <1>5, <1>6, <1>7, TableStep, RowParts
  DEF Done, Duty!Next, Duty!dutyVars

\* The rows, read through Carrying and Finished, never do what CourierDuty
\* forbids: a second job before the first is done, or a job finished by a
\* courier who was not carrying it.
THEOREM Refinement == Spec => ImplementsDuty
  BY InvHolds, DutyInit, DutyStep, PTL DEF Spec, ImplementsDuty, Duty!Spec
-----------------------------------------------------------------------------
(* CourierDispatch implements CourierFeed, for every job.                   *)

Publishes(q, m) ==
  /\ m = "delivered" => pc[q] = "delivered"
  /\ UNCHANGED status
  /\ Emit(q, m, target[q])

\* A step leaves the topic alone, or leaves the table alone and publishes one
\* milestone of a row it holds.
LEMMA TopicStep ==
  ASSUME [Next]_vars
  PROVE  \/ UNCHANGED published
         \/ \E q \in Request, m \in Milestone : pc[q] # "idle" /\ Publishes(q, m)
<1>1. ASSUME NEW q \in Request, Serve(q)
      PROVE \/ UNCHANGED published
            \/ \E m \in Milestone : pc[q] # "idle" /\ Publishes(q, m)
  <2>1. CASE AnnounceClaim(q)
    BY <2>1 DEF AnnounceClaim, Publishes, Milestone
  <2>2. ASSUME NEW m \in Report, PublishMilestone(q, m)
        PROVE pc[q] # "idle" /\ Publishes(q, m) /\ m \in Milestone
    BY <2>2 DEF PublishMilestone, Publishes, Milestone
  <2>3. CASE PublishDelivery(q)
    BY <2>3 DEF PublishDelivery, Publishes, Milestone
  <2> QED
    BY <1>1, <2>1, <2>2, <2>3 DEF Serve, ExpireOtherOffers, ExpireFails, Complete, Credited
<1> QED
  BY <1>1 DEF Next, vars, Offer, AbandonOffer, SaveOffer, TryClaim, ReadDelivery, ReadMilestone, Die

\* A job whose rows keep a property keeps it.
LEMMA AnySame ==
  ASSUME NEW j \in Job, NEW s,
         \A r \in Row : What(r) = j => (status'[r] \in s <=> status[r] \in s)
  PROVE  Any(j, s)' = Any(j, s)
  BY DEF Any

\* A row that comes to have it is of one job.
LEMMA AnyNew ==
  ASSUME NEW j \in Job, NEW s, NEW x \in Row, status'[x] \in s,
         \A r \in Row : r # x => status'[r] = status[r],
         status[x] \notin s
  PROVE  Any(j, s)' = (Any(j, s) \/ What(x) = j)
  BY DEF Any

\* Every step of CourierDispatch is, for each job, a step of its feed or a stutter.
LEMMA FeedStep ==
  ASSUME Inv, [Next]_vars, NEW j \in Job
  PROVE  Feed(j)!Next \/ UNCHANGED Feed(j)!feedVars
<1> USE DEF Inv
<1> DEFINE O == Status \ {"none"}
           C == {"claimed", "completed"}
           F == {"completed"}
           Goal == Feed(j)!Next \/ UNCHANGED Feed(j)!feedVars
<1>a. ASSUME UNCHANGED <<Any(j, O), Any(j, C), Any(j, F), Said(j)>>
      PROVE Goal
  BY <1>a DEF Feed!feedVars
<1>b. ASSUME UNCHANGED status
      PROVE UNCHANGED <<Any(j, O), Any(j, C), Any(j, F)>>
  BY <1>b DEF Any
<1>c. ASSUME UNCHANGED published
      PROVE UNCHANGED Said(j)
  BY <1>c DEF Said
<1> HIDE DEF Goal
<1>1. ASSUME NEW q \in Request, NEW m \in Milestone, pc[q] # "idle", Publishes(q, m)
      PROVE Goal
  <2>1. target[q] \in Row /\ UNCHANGED status
    BY <1>1 DEF TypeOK, Publishes
  <2>2. CASE UNCHANGED published
    BY <1>a, <1>b, <1>c, <2>1, <2>2
  <2>3. CASE published' = published \cup {<<m, Who(target[q]), What(target[q])>>}
    <3>1. CASE What(target[q]) # j
      <4>1. UNCHANGED Said(j)
        BY <2>3, <3>1 DEF Said
      <4> QED
        BY <1>a, <1>b, <2>1, <4>1
    <3>2. CASE What(target[q]) = j
      <4>1. Said(j)' = Said(j) \cup {m}
        BY <2>1, <2>3, <3>2, RowParts DEF Said
      <4>2. Any(j, C) /\ (m = "delivered" => Any(j, F))
        BY <1>1, <2>1, <3>2 DEF Any, ReadsStayValid, Publishes
      <4>3. UNCHANGED <<Any(j, O), Any(j, C), Any(j, F)>>
        BY <1>b, <2>1
      <4>4. m \in {"assigned", "arrived", "collected", "delivered"}
        BY DEF Milestone
      <4>5. Feed(j)!Say(m)
        BY <4>1, <4>2, <4>3 DEF Feed!Say, Feed!MaySay
      <4> QED
        BY <4>4, <4>5 DEF Goal, Feed!Next
    <3> QED
      BY <3>1, <3>2
  <2> QED
    BY <1>1, <2>2, <2>3 DEF Publishes, Emit
<1>2. ASSUME UNCHANGED published
      PROVE Goal
  <2>0. UNCHANGED Said(j)
    BY <1>2, <1>c
  <2>1. CASE UNCHANGED status
    BY <1>a, <1>b, <2>0, <2>1
  <2>2. ASSUME NEW x \in Row, Offered(x)
        PROVE Goal
    <3>1. /\ status'[x] = "offered" /\ status[x] = "none"
          /\ \A r \in Row : r # x => status'[r] = status[r]
      BY <2>2 DEF Offered, TypeOK
    <3>2. Any(j, O)' = (Any(j, O) \/ What(x) = j)
      BY <3>1, AnyNew DEF Status
    <3>3. Any(j, C)' = Any(j, C)
      BY <3>1, AnySame
    <3>4. Any(j, F)' = Any(j, F)
      BY <3>1, AnySame
    <3>5. CASE What(x) = j
      <4>1. Feed(j)!Offer
        BY <2>0, <3>2, <3>3, <3>4, <3>5 DEF Feed!Offer
      <4> QED
        BY <4>1 DEF Goal, Feed!Next
    <3>6. CASE What(x) # j
      BY <1>a, <2>0, <3>2, <3>3, <3>4, <3>6 DEF Any
    <3> QED
      BY <3>5, <3>6
  <2>3. ASSUME NEW x \in Row, Won(x)
        PROVE Goal
    <3>1. /\ status'[x] = "claimed" /\ status[x] = "offered"
          /\ \A r \in Row : r # x => status'[r] = status[r]
      BY <2>3 DEF Won, TypeOK
    <3>2. Any(j, O)' = Any(j, O)
      BY <3>1, AnySame DEF Status
    <3>3. Any(j, C)' = (Any(j, C) \/ What(x) = j)
      BY <3>1, AnyNew
    <3>4. Any(j, F)' = Any(j, F)
      BY <3>1, AnySame
    <3>5. CASE What(x) = j
      <4>1. Any(j, O)
        BY <3>1, <3>5 DEF Any, Status
      <4>2. Feed(j)!Claim
        BY <2>0, <3>2, <3>3, <3>4, <3>5, <4>1 DEF Feed!Claim
      <4> QED
        BY <4>2 DEF Goal, Feed!Next
    <3>6. CASE What(x) # j
      BY <1>a, <2>0, <3>2, <3>3, <3>4, <3>6 DEF Any
    <3> QED
      BY <3>5, <3>6
  <2>4. ASSUME NEW x \in Row, Done(x)
        PROVE Goal
    <3>1. /\ status'[x] = "completed" /\ status[x] \in C
          /\ \A r \in Row : r # x => status'[r] = status[r]
      BY <2>4 DEF Done, TypeOK
    <3>2. Any(j, O)' = Any(j, O)
      BY <3>1, AnySame DEF Status
    <3>3. Any(j, C)' = Any(j, C)
      BY <3>1, AnySame
    <3>4. CASE status[x] = "completed"
      <4>1. Any(j, F)' = Any(j, F)
        BY <3>1, <3>4, AnySame
      <4> QED
        BY <1>a, <2>0, <3>2, <3>3, <4>1
    <3>5. CASE status[x] = "claimed"
      <4>1. Any(j, F)' = (Any(j, F) \/ What(x) = j)
        BY <3>1, <3>5, AnyNew
      <4>2. CASE What(x) = j
        <5>1. Any(j, C)
          BY <3>1, <4>2 DEF Any
        <5>2. Feed(j)!Complete
          BY <2>0, <3>2, <3>3, <4>1, <4>2, <5>1 DEF Feed!Complete
        <5> QED
          BY <5>2 DEF Goal, Feed!Next
      <4>3. CASE What(x) # j
        BY <1>a, <2>0, <3>2, <3>3, <4>1, <4>3 DEF Any
      <4> QED
        BY <4>2, <4>3
    <3> QED
      BY <3>1, <3>4, <3>5
  <2>5. CASE OffersRetired
    <3>1. \A r \in Row : /\ status'[r] \in O <=> status[r] \in O
                         /\ status'[r] \in C <=> status[r] \in C
                         /\ status'[r] \in F <=> status[r] \in F
      BY <2>5 DEF OffersRetired, Status
    <3>2. Any(j, O)' = Any(j, O)
      BY <3>1, AnySame
    <3>3. Any(j, C)' = Any(j, C)
      BY <3>1, AnySame
    <3>4. Any(j, F)' = Any(j, F)
      BY <3>1, AnySame
    <3> QED
      BY <1>a, <2>0, <3>2, <3>3, <3>4
  <2> QED
    BY <2>1, <2>2, <2>3, <2>4, <2>5, TableStep
<1> QED
  BY <1>1, <1>2, TopicStep DEF Goal

\* Whatever couriers, rounds of offers and requests there are, the product of a
\* job sees the feed CourierFeed promises: nothing reaches it of a job nobody won,
\* and no delivery of one nobody completed.
THEOREM FeedImplemented == Spec => ImplementsFeed
<1>1. Init => \A j \in Job : Feed(j)!Init
  BY DEF Init, Feed!Init, Any, Said
<1>2. Inv /\ [Next]_vars =>
        [\A j \in Job : Feed(j)!Next \/ UNCHANGED Feed(j)!feedVars]_vars
  BY FeedStep
<1> QED
  BY InvHolds, <1>1, <1>2, PTL DEF Spec, ImplementsFeed
=============================================================================
