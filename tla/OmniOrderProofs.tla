--------------------------- MODULE OmniOrderProofs ---------------------------
(***************************************************************************)
(* Theorems about OmniOrder, for any stores, milestones and faults, and    *)
(* whatever the contracts of field-ops and of payments let those two do.   *)
(* They rest on one idea: the order and its legs live in                   *)
(* several copies (the rows, and what each process read and will save),    *)
(* and what must be true of the rows has to be true of every copy that may *)
(* still be saved over them.                                               *)
(***************************************************************************)
EXTENDS OmniOrder, TLAPS

\* What a consumer holds is a message that is there.
InHand ==
  /\ courier # Idle => position < Len(milestones)
  /\ payment # Idle => payment.notice \in notices

Credited(l) == \A v \in Vendor : l[v] = "picked_up" => credits[v] > 0

\* A collected leg was credited, in every copy; the courier consumer's copy is
\* one leg ahead while that leg is being credited.
CopiesCredited ==
  /\ Credited(legs)
  /\ courier.at \in {"legs", "capture", "save"} => Credited(courier.legs)
  /\ courier.at = "credit" =>
       \A v \in Vendor :
         courier.legs[v] = "picked_up" /\ v # Current.vendor => credits[v] > 0
  /\ payment # Idle => Credited(payment.legs)

Over == intent \in {"voided", "failed"}

\* A cancelled order comes from an intent that is over, in every copy; and so
\* does the sweep's decision to save one.
CopiesOver ==
  /\ checkout = "open" => intent = "none"
  /\ "failed" \in notices => intent = "failed"
  /\ order.status = "cancelled" => Over
  /\ courier # Idle /\ courier.order.status = "cancelled" => Over
  /\ payment # Idle /\ payment.order.status = "cancelled" => Over
  /\ sweep.at = "save" => Over

Handling == [at : {"legs", "capture", "credit", "save"}, order : Order,
             legs : [Vendor -> LegStatus]]
Noticing == [at : {"legs", "offer", "save"}, notice : Notice, order : Order,
             legs : [Vendor -> LegStatus]]

\* An order with another status, or another payment status, is an order.
LEMMA OrderWith ==
  ASSUME NEW o \in Order
  PROVE  /\ \A s \in OrderStatus : [o EXCEPT !.status = s] \in Order
         /\ \A p \in PaymentStatus : [o EXCEPT !.pay = p] \in Order
  BY DEF Order

\* Adding one somewhere keeps a count per store a count per store.
LEMMA Bump ==
  ASSUME NEW f \in [Vendor -> Nat], NEW v
  PROVE  [f EXCEPT ![v] = @ + 1] \in [Vendor -> Nat]
<1> DEFINE g == [f EXCEPT ![v] = @ + 1]
<1>1. ASSUME NEW x \in Vendor PROVE g[x] \in Nat
  <2>1. CASE x = v
    BY <2>1
  <2>2. CASE x # v
    BY <2>2
  <2> QED
    BY <2>1, <2>2
<1>2. g = [x \in Vendor |-> g[x]]
  OBVIOUS
<1> QED
  BY <1>1, <1>2

\* What the courier consumer goes on with is typed when its parts are.
LEMMA Handled ==
  ASSUME NEW at \in {"legs", "capture", "credit", "save"}, NEW o \in Order,
         NEW l \in [Vendor -> LegStatus], Then(at, o, l)
  PROVE  courier' \in Handling /\ position' = position
  BY DEF Then, Handling

\* What the payment consumer goes on with is typed when its parts are.
LEMMA Answered ==
  ASSUME NEW at \in {"legs", "offer", "save"}, NEW o \in Order,
         NEW l \in [Vendor -> LegStatus], payment \in Noticing, PaymentThen(at, o, l)
  PROVE  payment' \in Noticing /\ noticed' = noticed
  BY DEF PaymentThen, Noticing

\* The order a collection leaves behind is an order.
LEMMA CollectedOrder ==
  ASSUME NEW o \in Order, NEW l
  PROVE  Collected(o, l) \in Order
<1>1. CASE AllLegsCollected(o.status, l)
  BY <1>1, OrderWith DEF Collected, OrderStatus
<1>2. CASE ~AllLegsCollected(o.status, l)
  <2>1. o.status \in OrderStatus
    BY DEF Order
  <2> QED
    BY <1>2, <2>1, OrderWith DEF Collected
<1> QED
  BY <1>1, <1>2

\* Publishing leaves what was published where it was.
LEMMA Publishes ==
  ASSUME TypeOK, InHand, NEW m \in Milestone, Report(m)
  PROVE  /\ milestones' \in Seq(Milestone)
         /\ Len(milestones) <= Len(milestones')
         /\ courier # Idle => Current' = Current
<1>1. milestones \in Seq(Milestone) /\ position \in Nat
  BY DEF TypeOK
<1>2. courier # Idle => position + 1 \in 1 .. Len(milestones)
  BY <1>1 DEF TypeOK, InHand
<1>3. milestones' = Append(milestones, m) /\ position' = position
  BY DEF Report, serviceVars
<1>4. Len(milestones) <= Len(milestones') /\ milestones' \in Seq(Milestone)
  BY <1>1, <1>3
<1>5. courier # Idle => milestones'[position + 1] = milestones[position + 1]
  BY <1>1, <1>2, <1>3
<1> QED
  BY <1>1, <1>3, <1>4, <1>5 DEF Current

\* What the product sees of payments, call by call and event by event.
LEMMA Payments ==
  /\ Hold!Open => intent = "none" /\ intent' = "pending" /\ notices' = notices
  /\ Hold!Authorize => intent = "pending" /\ intent' = "authorized" /\ notices' = notices
  /\ Hold!Fail => intent \in {"none", "pending"} /\ intent' = "failed" /\ notices' = notices
  /\ Hold!Capture => intent = "authorized" /\ intent' = "captured" /\ notices' = notices
  /\ Hold!Void => intent = "authorized" /\ intent' = "voided" /\ notices' = notices
  /\ \A n \in Notice :
       Hold!Say(n) => /\ intent' = intent /\ notices' = notices \cup {n}
                      /\ n = "failed" => intent = "failed"
                      /\ n = "authorized" => intent \in {"authorized", "captured", "voided"}
  BY DEF Hold!Open, Hold!Authorize, Hold!Fail, Hold!Capture, Hold!Void, Hold!Say, Hold!True,
     Hold!Becomes, Notice

\* Every step keeps every variable in its type.
LEMMA TypeStep ==
  ASSUME TypeOK, InHand, [Next]_vars
  PROVE  TypeOK'
<1> USE FaultAssumption
    DEF TypeOK, InHand, Idle, Handling, Noticing, orderVars, serviceVars, fieldOps, payments
<1>1. CASE Place
  <2>1. job' \in [offered : BOOLEAN, claimed : BOOLEAN, finished : BOOLEAN]
    BY <1>1 DEF Place, fieldOps
  <2>2. order' \in Order
    BY <1>1, OrderWith DEF Place, OrderStatus
  <2>3. intent' \in {intent, "pending"} /\ notices' = notices
    BY <1>1, Payments DEF Place
  <2> QED
    BY <1>1, <2>1, <2>2, <2>3 DEF Place
<1>2. CASE SaveOrder
  BY <1>2 DEF SaveOrder
<1>3. CASE SaveOrderFails
  BY <1>3 DEF SaveOrderFails, Fails
<1>4. ASSUME NEW v \in Vendor, NEW to \in LegStatus, Act(v, to) PROVE TypeOK'
  BY <1>4 DEF Act, CanTransition
<1>5. CASE Claim
  BY <1>5 DEF Claim
<1>6. CASE Complete
  BY <1>6 DEF Complete
<1>7. ASSUME NEW m \in Milestone, Report(m) PROVE TypeOK'
  <2>1. milestones' \in Seq(Milestone) /\ Len(milestones) <= Len(milestones')
    BY <1>7, Publishes
  <2> QED
    BY <1>7, <2>1 DEF Report
<1>8. CASE Authorized
  BY <1>8, Payments DEF Authorized
<1>9. CASE Failed
  BY <1>9, Payments DEF Failed
<1>10. CASE UnknownOrder
  BY <1>10 DEF UnknownOrder, Finish
<1>11. CASE Read
  <2>1. courier' \in Handling
    BY <1>11 DEF Read, LegStatus
  <2> QED
    BY <1>11, <2>1 DEF Read
<1>12. CASE Handle
  <2>0. courier \in Handling /\ position' \in {position, position + 1}
    BY <1>12 DEF Handle, CourierClaimed, LegCollected, ApplyDelivered, Then, Finish
  <2>1. CASE CourierClaimed(courier.order)
    <3>1. [courier.order EXCEPT !.status = "collecting"] \in Order
      BY <2>0, OrderWith DEF OrderStatus
    <3>2. courier' \in Handling \/ courier' = Idle
      BY <2>1, <3>1, Handled DEF CourierClaimed, Finish
    <3> QED
      BY <1>12, <2>0, <2>1, <3>2 DEF Handle, CourierClaimed, Then, Finish
  <2>2. CASE Then("save", courier.order, legs)
    BY <1>12, <2>0, <2>2 DEF Handle, Then
  <2>3. CASE LegCollected(courier.order, Current.vendor)
    <3>1. [legs EXCEPT ![Current.vendor] = "picked_up"] \in [Vendor -> LegStatus]
      BY DEF LegStatus
    <3> QED
      BY <1>12, <2>0, <2>3, <3>1 DEF Handle, LegCollected, Then, Finish
  <2>4. CASE ApplyDelivered(courier.order)
    <3>1. [courier.order EXCEPT !.status = "delivered"] \in Order
      BY <2>0, OrderWith DEF OrderStatus
    <3>2. courier' \in Handling \/ courier' = Idle
      BY <2>4, <3>1, Handled DEF ApplyDelivered, Finish
    <3> QED
      BY <1>12, <2>0, <2>4, <3>2 DEF Handle, ApplyDelivered, Then, Finish
  <2> QED
    BY <1>12, <2>1, <2>2, <2>3, <2>4 DEF Handle
<1>13. CASE Capture
  <2>1. courier \in Handling
    BY <1>13 DEF Capture
  <2>2. [courier.order EXCEPT !.pay = "captured"] \in Order
    BY <2>1, OrderWith DEF PaymentStatus
  <2> QED
    BY <1>13, <2>1, <2>2, Payments DEF Capture, Then
<1>14. CASE CaptureFails
  BY <1>14, Payments DEF CaptureFails, Works, Fails, Finish
<1>15. CASE CreditVendor
  <2>1. courier \in Handling
    BY <1>15 DEF CreditVendor
  <2>2. Collected(courier.order, courier.legs) \in Order
    BY <2>1, CollectedOrder
  <2>3. credits' \in [Vendor -> Nat]
    BY <1>15, Bump DEF CreditVendor
  <2> QED
    BY <1>15, <2>1, <2>2, <2>3 DEF CreditVendor, Then
<1>16. CASE CreditFails
  BY <1>16 DEF CreditFails, Fails, Finish
<1>17. CASE Save
  BY <1>17 DEF Save, Finish
<1>18. CASE SaveFails
  <2>1. cut' \in [Vendor -> Nat]
    BY <1>18, Bump DEF SaveFails, Cut
  <2> QED
    BY <1>18, <2>1 DEF SaveFails, Fails, Finish
<1>19. ASSUME NEW n \in Notice, UnknownNotice(n) PROVE TypeOK'
  BY <1>19 DEF UnknownNotice
<1>20. ASSUME NEW n \in Notice, ReadNotice(n) PROVE TypeOK'
  <2>1. payment' \in Noticing
    BY <1>20 DEF ReadNotice, LegStatus
  <2> QED
    BY <1>20, <2>1 DEF ReadNotice
<1>21. CASE HandleNotice
  <2>1. payment \in Noticing
    BY <1>21 DEF HandleNotice
  <2>2. [payment.order EXCEPT !.pay = "authorized"] \in Order
    BY <2>1, OrderWith DEF PaymentStatus
  <2>3. CASE payment' = Idle /\ noticed' = noticed \cup {payment.notice}
    BY <1>21, <2>3 DEF HandleNotice
  <2>4. CASE HandleAuthorized(payment.order) /\ UNCHANGED noticed
    <3>1. payment' \in Noticing \/ payment' = Idle
      BY <2>1, <2>2, <2>4, Answered DEF HandleAuthorized, Noticed
    <3> QED
      BY <1>21, <2>4, <3>1 DEF HandleNotice
  <2>5. CASE HandleFailed(payment.order) /\ UNCHANGED noticed
    BY <1>21, <2>1, <2>5 DEF HandleNotice, HandleFailed, PaymentThen, Noticed, Order,
       OrderStatus, PaymentStatus
  <2> QED
    BY <1>21, <2>3, <2>4, <2>5 DEF HandleNotice, HandleAuthorized, HandleFailed, PaymentThen,
       Noticed
<1>22. CASE OfferCourier
  <2>1. payment \in Noticing
    BY <1>22 DEF OfferCourier
  <2>2. [payment.order EXCEPT !.status = "awaiting_courier"] \in Order
    BY <2>1, OrderWith DEF OrderStatus
  <2>3. job' \in [offered : BOOLEAN, claimed : BOOLEAN, finished : BOOLEAN]
    BY <1>22 DEF OfferCourier
  <2>4. payment' = Idle \/ payment' \in Noticing
    BY <1>22, <2>1, <2>2, Answered DEF OfferCourier, Noticed
  <2>5. noticed' \subseteq notices /\ faults' \in 0 .. MaxFault
    BY <1>22, <2>1 DEF OfferCourier, PaymentThen, Noticed, Works, Fails
  <2> QED
    BY <1>22, <2>3, <2>4, <2>5 DEF OfferCourier
<1>23. CASE SaveNotice
  BY <1>23 DEF SaveNotice, Noticed, Works, Fails
<1>24. CASE SweepRead
  BY <1>24 DEF SweepRead
<1>25. CASE SweepOffer
  BY <1>25 DEF SweepOffer
<1>26. CASE SweepVoid
  BY <1>26, Payments DEF SweepVoid
<1>27. CASE SweepVoidFails
  BY <1>27, Payments DEF SweepVoidFails, Works, Fails
<1>28. CASE SweepSave
  <2>1. [status |-> "cancelled", pay |-> "voided"] \in Order
    BY DEF Order, OrderStatus, PaymentStatus
  <2> QED
    BY <1>28, <2>1 DEF SweepSave, Works, Fails
<1>29. CASE Restart
  <2>1. cut' \in [Vendor -> Nat]
    BY <1>29, Bump DEF Restart, Cut
  <2>2. position' \in 0 .. Len(milestones)
    BY <1>29 DEF Restart, ResumeFrom
  <2> QED
    BY <1>29, <2>1, <2>2 DEF Restart, Fails
<1>30. ASSUME NEW n \in Notice, Notify(n) PROVE TypeOK'
  BY <1>30, Payments DEF Notify
<1>31. CASE UNCHANGED vars
  BY <1>31 DEF vars
<1> QED
  BY <1>1, <1>2, <1>3, <1>4, <1>5, <1>6, <1>7, <1>8, <1>9, <1>10, <1>11, <1>12, <1>13, <1>14, <1>15,
     <1>16, <1>17, <1>18, <1>19, <1>20, <1>21, <1>22, <1>23, <1>24, <1>25, <1>26, <1>27, <1>28, <1>29, <1>30, <1>31 DEF Next

\* A message in hand stays published while it is handled.
LEMMA InHandStep ==
  ASSUME TypeOK, InHand, [Next]_vars
  PROVE  InHand'
<1> USE DEF TypeOK, InHand, Idle, orderVars, serviceVars, fieldOps, payments
<1>1. CASE Place
  BY <1>1, Payments DEF Place
<1>2. CASE SaveOrder
  BY <1>2 DEF SaveOrder
<1>3. CASE SaveOrderFails
  BY <1>3 DEF SaveOrderFails, Fails
<1>4. ASSUME NEW v \in Vendor, NEW to \in LegStatus, Act(v, to) PROVE InHand'
  BY <1>4 DEF Act, CanTransition
<1>5. CASE Claim
  BY <1>5 DEF Claim
<1>6. CASE Complete
  BY <1>6 DEF Complete
<1>7. ASSUME NEW m \in Milestone, Report(m) PROVE InHand'
  <2>1. Len(milestones) <= Len(milestones') /\ (courier # Idle => Current' = Current)
    BY <1>7, Publishes
  <2> QED
    BY <1>7, <2>1 DEF Report
<1>8. CASE Authorized
  BY <1>8, Payments DEF Authorized
<1>9. CASE Failed
  BY <1>9, Payments DEF Failed
<1>10. CASE UnknownOrder
  BY <1>10 DEF UnknownOrder, Finish
<1>11. CASE Read
  BY <1>11 DEF Read
<1>12. CASE Handle
  BY <1>12 DEF Handle, CourierClaimed, LegCollected, ApplyDelivered, Then, Finish
<1>13. CASE Capture
  BY <1>13, Payments DEF Capture, Then
<1>14. CASE CaptureFails
  BY <1>14, Payments DEF CaptureFails, Works, Fails, Finish
<1>15. CASE CreditVendor
  BY <1>15 DEF CreditVendor, Then, Collected
<1>16. CASE CreditFails
  BY <1>16 DEF CreditFails, Fails, Finish
<1>17. CASE Save
  BY <1>17 DEF Save, Finish
<1>18. CASE SaveFails
  BY <1>18 DEF SaveFails, Fails, Finish, Cut
<1>19. ASSUME NEW n \in Notice, UnknownNotice(n) PROVE InHand'
  BY <1>19 DEF UnknownNotice
<1>20. ASSUME NEW n \in Notice, ReadNotice(n) PROVE InHand'
  BY <1>20 DEF ReadNotice
<1>21. CASE HandleNotice
  BY <1>21 DEF HandleNotice, HandleAuthorized, HandleFailed, PaymentThen, Noticed
<1>22. CASE OfferCourier
  BY <1>22 DEF OfferCourier, PaymentThen, Noticed, Works, Fails
<1>23. CASE SaveNotice
  BY <1>23 DEF SaveNotice, Noticed, Works, Fails
<1>24. CASE SweepRead
  BY <1>24 DEF SweepRead
<1>25. CASE SweepOffer
  BY <1>25 DEF SweepOffer
<1>26. CASE SweepVoid
  BY <1>26, Payments DEF SweepVoid
<1>27. CASE SweepVoidFails
  BY <1>27, Payments DEF SweepVoidFails, Works, Fails
<1>28. CASE SweepSave
  BY <1>28 DEF SweepSave, Works, Fails
<1>29. CASE Restart
  BY <1>29 DEF Restart, Fails, Cut, ResumeFrom
<1>30. ASSUME NEW n \in Notice, Notify(n) PROVE InHand'
  BY <1>30, Payments DEF Notify
<1>31. CASE UNCHANGED vars
  BY <1>31 DEF vars
<1> QED
  BY <1>1, <1>2, <1>3, <1>4, <1>5, <1>6, <1>7, <1>8, <1>9, <1>10, <1>11, <1>12, <1>13, <1>14, <1>15,
     <1>16, <1>17, <1>18, <1>19, <1>20, <1>21, <1>22, <1>23, <1>24, <1>25, <1>26, <1>27, <1>28, <1>29, <1>30, <1>31 DEF Next

\* Every copy of the legs that may still be saved stays credited: a leg is
\* written as collected only in a copy whose credit is the next step.
LEMMA CreditedStep ==
  ASSUME TypeOK, InHand, CopiesCredited, [Next]_vars
  PROVE  CopiesCredited'
<1> USE DEF TypeOK, InHand, Idle, CopiesCredited, Credited, Current, orderVars, serviceVars, fieldOps, payments
<1>1. CASE Place
  BY <1>1, Payments DEF Place
<1>2. CASE SaveOrder
  BY <1>2 DEF SaveOrder
<1>3. CASE SaveOrderFails
  BY <1>3 DEF SaveOrderFails, Fails
<1>4. ASSUME NEW v \in Vendor, NEW to \in LegStatus, Act(v, to) PROVE CopiesCredited'
  BY <1>4 DEF Act, CanTransition
<1>5. CASE Claim
  BY <1>5 DEF Claim
<1>6. CASE Complete
  BY <1>6 DEF Complete
<1>7. ASSUME NEW m \in Milestone, Report(m) PROVE CopiesCredited'
  <2>1. Len(milestones) <= Len(milestones') /\ (courier # Idle => Current' = Current)
    BY <1>7, Publishes
  <2> QED
    BY <1>7, <2>1 DEF Report
<1>8. CASE Authorized
  BY <1>8, Payments DEF Authorized
<1>9. CASE Failed
  BY <1>9, Payments DEF Failed
<1>10. CASE UnknownOrder
  BY <1>10 DEF UnknownOrder, Finish
<1>11. CASE Read
  BY <1>11 DEF Read
<1>12. CASE Handle
  BY <1>12 DEF Handle, CourierClaimed, LegCollected, ApplyDelivered, Then, Finish
<1>13. CASE Capture
  BY <1>13, Payments DEF Capture, Then
<1>14. CASE CaptureFails
  BY <1>14, Payments DEF CaptureFails, Works, Fails, Finish
<1>15. CASE CreditVendor
  BY <1>15 DEF CreditVendor, Then, Collected
<1>16. CASE CreditFails
  BY <1>16 DEF CreditFails, Fails, Finish
<1>17. CASE Save
  BY <1>17 DEF Save, Finish
<1>18. CASE SaveFails
  BY <1>18 DEF SaveFails, Fails, Finish, Cut
<1>19. ASSUME NEW n \in Notice, UnknownNotice(n) PROVE CopiesCredited'
  BY <1>19 DEF UnknownNotice
<1>20. ASSUME NEW n \in Notice, ReadNotice(n) PROVE CopiesCredited'
  BY <1>20 DEF ReadNotice
<1>21. CASE HandleNotice
  BY <1>21 DEF HandleNotice, HandleAuthorized, HandleFailed, PaymentThen, Noticed
<1>22. CASE OfferCourier
  BY <1>22 DEF OfferCourier, PaymentThen, Noticed, Works, Fails
<1>23. CASE SaveNotice
  BY <1>23 DEF SaveNotice, Noticed, Works, Fails
<1>24. CASE SweepRead
  BY <1>24 DEF SweepRead
<1>25. CASE SweepOffer
  BY <1>25 DEF SweepOffer
<1>26. CASE SweepVoid
  BY <1>26, Payments DEF SweepVoid
<1>27. CASE SweepVoidFails
  BY <1>27, Payments DEF SweepVoidFails, Works, Fails
<1>28. CASE SweepSave
  BY <1>28 DEF SweepSave, Works, Fails
<1>29. CASE Restart
  BY <1>29 DEF Restart, Fails, Cut, ResumeFrom
<1>30. ASSUME NEW n \in Notice, Notify(n) PROVE CopiesCredited'
  BY <1>30, Payments DEF Notify
<1>31. CASE UNCHANGED vars
  BY <1>31 DEF vars
<1> QED
  BY <1>1, <1>2, <1>3, <1>4, <1>5, <1>6, <1>7, <1>8, <1>9, <1>10, <1>11, <1>12, <1>13, <1>14, <1>15,
     <1>16, <1>17, <1>18, <1>19, <1>20, <1>21, <1>22, <1>23, <1>24, <1>25, <1>26, <1>27, <1>28, <1>29, <1>30, <1>31 DEF Next

\* Every copy of the order that says cancelled stays that of a finished intent:
\* an intent that is voided or failed never becomes anything else.
LEMMA OverStep ==
  ASSUME TypeOK, InHand, CopiesOver, [Next]_vars
  PROVE  CopiesOver'
<1> USE DEF TypeOK, InHand, Idle, CopiesOver, Over, Order, orderVars, serviceVars, fieldOps, payments
<1>1. CASE Place
  BY <1>1, Payments DEF Place
<1>2. CASE SaveOrder
  BY <1>2 DEF SaveOrder
<1>3. CASE SaveOrderFails
  BY <1>3 DEF SaveOrderFails, Fails
<1>4. ASSUME NEW v \in Vendor, NEW to \in LegStatus, Act(v, to) PROVE CopiesOver'
  BY <1>4 DEF Act, CanTransition
<1>5. CASE Claim
  BY <1>5 DEF Claim
<1>6. CASE Complete
  BY <1>6 DEF Complete
<1>7. ASSUME NEW m \in Milestone, Report(m) PROVE CopiesOver'
  <2>1. Len(milestones) <= Len(milestones') /\ (courier # Idle => Current' = Current)
    BY <1>7, Publishes
  <2> QED
    BY <1>7, <2>1 DEF Report
<1>8. CASE Authorized
  BY <1>8, Payments DEF Authorized
<1>9. CASE Failed
  BY <1>9, Payments DEF Failed
<1>10. CASE UnknownOrder
  BY <1>10 DEF UnknownOrder, Finish
<1>11. CASE Read
  BY <1>11 DEF Read
<1>12. CASE Handle
  BY <1>12 DEF Handle, CourierClaimed, LegCollected, ApplyDelivered, Then, Finish
<1>13. CASE Capture
  <2>1. courier.order.status # "cancelled" /\ courier.order \in Order
    BY <1>13, Payments DEF Capture
  <2>2. [courier.order EXCEPT !.pay = "captured"].status = courier.order.status
    BY <2>1
  <2> QED
    BY <1>13, <2>1, <2>2, Payments DEF Capture, Then
<1>14. CASE CaptureFails
  BY <1>14, Payments DEF CaptureFails, Works, Fails, Finish
<1>15. CASE CreditVendor
  BY <1>15 DEF CreditVendor, Then, Collected
<1>16. CASE CreditFails
  BY <1>16 DEF CreditFails, Fails, Finish
<1>17. CASE Save
  BY <1>17 DEF Save, Finish
<1>18. CASE SaveFails
  BY <1>18 DEF SaveFails, Fails, Finish, Cut
<1>19. ASSUME NEW n \in Notice, UnknownNotice(n) PROVE CopiesOver'
  BY <1>19 DEF UnknownNotice
<1>20. ASSUME NEW n \in Notice, ReadNotice(n) PROVE CopiesOver'
  BY <1>20 DEF ReadNotice
<1>21. CASE HandleNotice
  <2>1. payment # Idle /\ payment.order \in Order /\ payment.notice \in notices
    BY <1>21 DEF HandleNotice
  <2>2. CASE HandleAuthorized(payment.order)
    <3>1. [payment.order EXCEPT !.pay = "authorized"].status = payment.order.status
      BY <2>1
    <3>2. CASE payment.order.pay \in {"pending", "authorized"}
      <4> DEFINE o == [payment.order EXCEPT !.pay = "authorized"]
      <4>1. PICK at : PaymentThen(at, o, legs)
        BY <2>2, <3>2 DEF HandleAuthorized
      <4> HIDE DEF o
      <4>2. payment'.order = o
        BY <4>1 DEF PaymentThen
      <4>3. payment'.order.status = payment.order.status
        BY <3>1, <4>2 DEF o
      <4> QED
        BY <1>21, <2>1, <4>3 DEF HandleNotice
    <3>3. CASE payment' = Idle
      BY <1>21, <3>3 DEF HandleNotice
    <3> QED
      BY <2>2, <3>2, <3>3 DEF HandleAuthorized, Noticed
  <2>3. CASE payment.notice = "failed"
    BY <1>21, <2>1, <2>3 DEF HandleNotice, HandleFailed, PaymentThen, Noticed
  <2> QED
    BY <1>21, <2>2, <2>3 DEF HandleNotice
<1>22. CASE OfferCourier
  BY <1>22 DEF OfferCourier, PaymentThen, Noticed, Works, Fails
<1>23. CASE SaveNotice
  BY <1>23 DEF SaveNotice, Noticed, Works, Fails
<1>24. CASE SweepRead
  BY <1>24 DEF SweepRead
<1>25. CASE SweepOffer
  BY <1>25 DEF SweepOffer
<1>26. CASE SweepVoid
  BY <1>26, Payments DEF SweepVoid
<1>27. CASE SweepVoidFails
  BY <1>27, Payments DEF SweepVoidFails, Works, Fails
<1>28. CASE SweepSave
  BY <1>28 DEF SweepSave, Works, Fails
<1>29. CASE Restart
  BY <1>29 DEF Restart, Fails, Cut, ResumeFrom
<1>30. ASSUME NEW n \in Notice, Notify(n) PROVE CopiesOver'
  BY <1>30, Payments DEF Notify
<1>31. CASE UNCHANGED vars
  BY <1>31 DEF vars
<1> QED
  BY <1>1, <1>2, <1>3, <1>4, <1>5, <1>6, <1>7, <1>8, <1>9, <1>10, <1>11, <1>12, <1>13, <1>14, <1>15,
     <1>16, <1>17, <1>18, <1>19, <1>20, <1>21, <1>22, <1>23, <1>24, <1>25, <1>26, <1>27, <1>28, <1>29, <1>30, <1>31 DEF Next

-----------------------------------------------------------------------------
(* Cash orders.  No payment event is ever about one, so that the courier   *)
(* consumer alone writes its row; the tablets go on writing its legs.      *)

Paid(o) == o.pay # "pending"

\* The neighbours that act on a payment have nothing to do.
NoPayment ==
  /\ intent = "none" /\ notices = {} /\ payment = Idle
  /\ sweep.at \in {"idle", "offer"}
  /\ order.pay = "pending"
  /\ courier # Idle => courier.order.pay = "pending" /\ courier.at # "capture"

Forward == {<<"placed", "awaiting_courier">>, <<"awaiting_courier", "collecting">>,
            <<"collecting", "delivering">>, <<"delivering", "delivered">>}

\* What the consumer holds is the row, or one step ahead of it.
OneAhead ==
  /\ (checkout = "open") = (order.status = "placed")
  /\ courier # Idle => checkout = "done"
  /\ courier.at \in {"legs", "credit"} => courier.order = order
  /\ courier.at = "save" /\ courier.order.status # order.status =>
       <<order.status, courier.order.status>> \in Forward

OnTheRoad(o) == o.status \in {"delivering", "delivered"}
Resolved(l)  == /\ \A v \in Vendor : ~BlocksCollection(l[v])
                /\ \E v \in Vendor : l[v] = "picked_up"

\* An order on the road has its legs resolved, in the row and in the copy.
RoadResolved ==
  /\ OnTheRoad(order) => Resolved(legs)
  /\ courier.at = "credit" => ~OnTheRoad(courier.order)
  /\ courier.at = "save" /\ OnTheRoad(courier.order) => Resolved(courier.legs)

\* The consumer is about leg v, credited or about to be.
Taking(v) == /\ courier.at \in {"credit", "save"}
             /\ Current.kind = "collected" /\ Current.vendor = v

\* A leg is credited once for the row it has been recorded in, once for the
\* record the consumer has yet to save, and once for each save that never happened.
CreditsCounted ==
  /\ courier.at = "credit" => Current.kind = "collected"
  /\ courier.at \in {"credit", "save"} =>
       \A v \in Vendor : (courier.legs[v] = "picked_up") = (legs[v] = "picked_up" \/ Taking(v))
  /\ \A v \in Vendor :
       /\ Taking(v) => legs[v] # "picked_up"
       /\ credits[v] <= 1 + cut[v]
       /\ legs[v] # "picked_up" /\ (Taking(v) => courier.at = "credit") => credits[v] <= cut[v]

Cash == method = "cod" => NoPayment /\ OneAhead /\ RoadResolved /\ CreditsCounted

\* While the money is none of its business, a step leaves the consumer's copy,
\* the rows and the counts alone, and what the consumer is handling too.
Apart ==
  /\ UNCHANGED <<order, legs, credits, cut, courier>>
  /\ checkout = "open" \/ checkout' # "open"
  /\ checkout = "done" => checkout' = "done"
  /\ courier # Idle => Current' = Current

\* The copies of a cash order do not notice a step apart from them.
LEMMA ApartKeeps ==
  ASSUME OneAhead, RoadResolved, CreditsCounted, Apart,
         checkout' # "open" => order.status # "placed"
  PROVE  OneAhead' /\ RoadResolved' /\ CreditsCounted'
<1>1. courier' = courier /\ order' = order /\ legs' = legs /\ credits' = credits /\ cut' = cut
  BY DEF Apart
<1>2. OneAhead'
  BY <1>1 DEF Apart, OneAhead
<1>3. RoadResolved'
  BY <1>1 DEF RoadResolved, OnTheRoad, Resolved
<1>4. \A v \in Vendor : Taking(v)' = Taking(v)
  BY <1>1 DEF Apart, Taking, Idle
<1>5. CreditsCounted'
  BY <1>1, <1>4 DEF Apart, CreditsCounted, Idle
<1> QED BY <1>2, <1>3, <1>5

\* The copies of a cash order survive every step of the others than the consumer
\* and the tablets; those of payments are not taken.
LEMMA OthersKeep ==
  ASSUME TypeOK, InHand, method = "cod", NoPayment, OneAhead, RoadResolved, CreditsCounted,
         \/ SaveOrder \/ SaveOrderFails \/ Claim \/ Complete
         \/ \E m \in Milestone : Report(m)
         \/ Authorized \/ Failed
         \/ \E n \in Notice : Notify(n)
         \/ \E n \in Notice : UnknownNotice(n) \/ ReadNotice(n)
         \/ HandleNotice \/ OfferCourier \/ SaveNotice
         \/ SweepRead \/ SweepOffer \/ SweepVoid \/ SweepVoidFails \/ SweepSave
         \/ UNCHANGED vars
  PROVE  (NoPayment /\ OneAhead /\ RoadResolved /\ CreditsCounted)'
<1> USE DEF orderVars, serviceVars, fieldOps, payments
<1>1. CASE SaveOrder \/ SaveOrderFails \/ SweepRead \/ SweepOffer \/ UNCHANGED vars
  <2>1. /\ UNCHANGED <<method, order, legs, credits, cut, courier, payment, position,
                       milestones, intent, notices>>
        /\ checkout' = checkout \/ (checkout = "unsaved" /\ checkout' # "open")
    BY <1>1 DEF SaveOrder, SaveOrderFails, SweepRead, SweepOffer, vars
  <2>2. sweep'.at \in {"idle", "offer"}
    BY <1>1 DEF SaveOrder, SaveOrderFails, SweepRead, SweepOffer, vars, Idle, NoPayment
  <2>3. NoPayment' /\ Apart
    BY <2>1, <2>2 DEF NoPayment, Apart, Current
  <2>4. checkout' # "open" => order.status # "placed"
    BY <2>1 DEF OneAhead
  <2> QED BY <2>3, <2>4, ApartKeeps
<1>2. CASE Claim \/ Complete
  <2>1. UNCHANGED <<method, checkout, order, legs, credits, cut, courier, payment, sweep,
                    position, milestones, intent, notices>>
    BY <1>2 DEF Claim, Complete
  <2>2. NoPayment' /\ Apart
    BY <2>1 DEF NoPayment, Apart, Current
  <2> QED BY <2>1, <2>2, ApartKeeps DEF OneAhead
<1>3. ASSUME NEW m \in Milestone, Report(m)
      PROVE  (NoPayment /\ OneAhead /\ RoadResolved /\ CreditsCounted)'
  <2>1. UNCHANGED <<method, checkout, order, legs, credits, cut, courier, payment, sweep,
                    position, intent, notices>>
    BY <1>3 DEF Report
  <2>2. courier # Idle => Current' = Current
    BY <1>3, Publishes
  <2>3. NoPayment' /\ Apart
    BY <2>1, <2>2 DEF NoPayment, Apart
  <2> QED BY <2>1, <2>3, ApartKeeps DEF OneAhead
<1>4. CASE \/ Authorized \/ Failed \/ HandleNotice \/ OfferCourier \/ SaveNotice
           \/ SweepVoid \/ SweepVoidFails \/ SweepSave
           \/ \E n \in Notice : Notify(n) \/ UnknownNotice(n) \/ ReadNotice(n)
  BY <1>4, Payments DEF NoPayment, Idle, Authorized, Failed, Notify, HandleNotice, OfferCourier,
       SaveNotice, SweepVoid, SweepVoidFails, SweepSave, UnknownNotice, ReadNotice, Notice
<1> QED BY <1>1, <1>2, <1>3, <1>4

\* The tablets answer for legs that nobody has resolved.
LEMMA ActKeeps ==
  ASSUME TypeOK, NoPayment, OneAhead, RoadResolved, CreditsCounted,
         NEW u \in Vendor, NEW to \in LegStatus, Act(u, to)
  PROVE  (NoPayment /\ OneAhead /\ RoadResolved /\ CreditsCounted)'
<1> USE DEF orderVars, serviceVars, fieldOps, payments
<1>1. /\ UNCHANGED <<method, checkout, order, credits, cut, courier, payment, sweep,
                     position, milestones, intent, notices>>
      /\ legs' = [legs EXCEPT ![u] = to] /\ legs \in [Vendor -> LegStatus]
    BY DEF Act, TypeOK
<1>2. to # "picked_up" /\ legs[u] \in {"pending", "accepted", "ready"}
  BY DEF Act, CanTransition
<1>3. \A v \in Vendor : (legs'[v] = "picked_up") = (legs[v] = "picked_up")
  BY <1>1, <1>2
<1>4. NoPayment' /\ OneAhead'
  BY <1>1 DEF NoPayment, OneAhead
<1>5. ~OnTheRoad(order)
  BY <1>2 DEF RoadResolved, Resolved, BlocksCollection
<1>6. RoadResolved'
  BY <1>1, <1>5 DEF RoadResolved, OnTheRoad, Resolved
<1>7. \A v \in Vendor : Taking(v)' = Taking(v)
  BY <1>1 DEF Taking, Current
<1>8. CreditsCounted'
  BY <1>1, <1>3, <1>7 DEF CreditsCounted, Current
<1> QED BY <1>4, <1>6, <1>8

\* What the consumer drops leaves the row as it was; a credit it made is either
\* in no copy (at "credit") or among those that were never saved.
LEMMA DropKeeps ==
  ASSUME NoPayment, OneAhead, RoadResolved, CreditsCounted, TypeOK,
         UNCHANGED <<order, legs, credits, intent, notices>>,
         checkout' = checkout \/ (checkout = "unsaved" /\ checkout' = "lost"),
         payment' = payment, sweep' \in {sweep, Idle}, courier' = Idle, Cut
  PROVE  (NoPayment /\ OneAhead /\ RoadResolved /\ CreditsCounted)'
<1>1. NoPayment' /\ OneAhead' /\ RoadResolved'
  BY DEF NoPayment, OneAhead, RoadResolved, OnTheRoad, Resolved, Idle
<1>2. ASSUME NEW v \in Vendor
      PROVE  credits'[v] <= 1 + cut'[v] /\ (legs'[v] # "picked_up" => credits'[v] <= cut'[v])
  <2>1. credits[v] \in Nat /\ cut[v] \in Nat /\ cut \in [Vendor -> Nat]
    BY DEF TypeOK
  <2>2. CASE Taking(v) /\ courier.at = "save"
    <3>1. cut' = [cut EXCEPT ![v] = @ + 1]
      BY <2>2 DEF Cut, Taking
    <3>2. cut'[v] = cut[v] + 1
      BY <2>1, <3>1
    <3> QED BY <2>1, <3>2 DEF CreditsCounted
  <2>3. CASE ~(Taking(v) /\ courier.at = "save")
    <3>1. cut'[v] = cut[v]
      BY <2>1, <2>3 DEF Cut, Taking
    <3>2. Taking(v) => courier.at = "credit"
      BY <2>3 DEF Taking
    <3> QED BY <3>1, <3>2 DEF CreditsCounted
  <2> QED BY <2>2, <2>3
<1>3. CreditsCounted'
  BY <1>2 DEF CreditsCounted, Taking, Idle
<1> QED BY <1>1, <1>3

\* What the consumer goes on to save is the row or one step ahead of it.
LEMMA HandleKeeps ==
  ASSUME TypeOK, InHand, method = "cod", NoPayment, OneAhead, RoadResolved, CreditsCounted, Handle
  PROVE  (NoPayment /\ OneAhead /\ RoadResolved /\ CreditsCounted)'
<1> USE DEF orderVars, serviceVars, fieldOps, payments
<1> DEFINE o == courier.order
<1>1. /\ UNCHANGED <<method, checkout, order, legs, credits, cut, payment, sweep,
                     milestones, intent, notices>>
      /\ courier.at = "legs" /\ courier # Idle /\ o = order /\ order \in Order
      /\ legs \in [Vendor -> LegStatus]
    BY DEF Handle, OneAhead, Idle, TypeOK
<1>2. CASE courier' = Idle
  <2>1. Cut
    BY <1>1 DEF Cut
  <2> QED BY <1>1, <1>2, <2>1, DropKeeps
<1>3. ASSUME NEW s \in OrderStatus, Then("save", [o EXCEPT !.status = s], legs),
             s = order.status \/ <<order.status, s>> \in Forward,
             s \in {"delivering", "delivered"} => OnTheRoad(order),
             Current.kind # "collected"
      PROVE  (NoPayment /\ OneAhead /\ RoadResolved /\ CreditsCounted)'
  <2>1. courier' = [at |-> "save", order |-> [o EXCEPT !.status = s], legs |-> legs]
        /\ Current' = Current
    BY <1>1, <1>3 DEF Then, Current
  <2>2. courier'.at = "save" /\ courier'.legs = legs /\ courier'.order.pay = order.pay
        /\ courier'.order.status = s
    BY <1>1, <2>1 DEF Order
  <2>3. NoPayment' /\ OneAhead'
    BY <1>1, <1>3, <2>2 DEF NoPayment, OneAhead
  <2>4. RoadResolved'
    BY <1>1, <1>3, <2>2 DEF RoadResolved, OnTheRoad, Resolved
  <2>5. \A v \in Vendor : ~Taking(v)' /\ ~Taking(v)
    BY <1>1, <1>3, <2>1 DEF Taking
  <2>6. CreditsCounted'
    BY <1>1, <2>2, <2>5 DEF CreditsCounted
  <2> QED BY <2>3, <2>4, <2>6
<1>4. CASE Current.kind = "assigned" /\ CourierClaimed(o)
  <2>1. CASE o.status \in {"placed", "awaiting_courier", "collecting"}
    <3>1. Then("save", [o EXCEPT !.status = "collecting"], legs)
      BY <1>4, <2>1 DEF CourierClaimed
    <3>2. "collecting" = order.status \/ <<order.status, "collecting">> \in Forward
      BY <1>1, <2>1 DEF OneAhead, Forward
    <3> QED BY <1>3, <1>4, <3>1, <3>2 DEF OrderStatus
  <2>2. CASE o.status \notin {"placed", "awaiting_courier", "collecting"}
    BY <1>2, <1>4, <2>2 DEF CourierClaimed, Finish
  <2> QED BY <2>1, <2>2
<1>5. CASE Current.kind = "arrived" /\ Then("save", o, legs)
  <2>1. o = [o EXCEPT !.status = order.status] /\ order.status \in OrderStatus
    BY <1>1 DEF Order
  <2>2. Then("save", [o EXCEPT !.status = order.status], legs)
    BY <1>5, <2>1
  <2> QED BY <1>3, <1>5, <2>1, <2>2 DEF OnTheRoad
<1>6. CASE Current.kind = "delivered" /\ ApplyDelivered(o)
  <2>1. CASE o.status = "delivering"
    <3>1. Then("save", [o EXCEPT !.status = "delivered"], legs)
      BY <1>6, <2>1 DEF ApplyDelivered
    <3>2. <<order.status, "delivered">> \in Forward /\ OnTheRoad(order)
      BY <1>1, <2>1 DEF Forward, OnTheRoad
    <3> QED BY <1>3, <1>6, <3>1, <3>2 DEF OrderStatus
  <2>2. CASE o.status # "delivering"
    BY <1>2, <1>6, <2>2 DEF ApplyDelivered, Finish
  <2> QED BY <2>1, <2>2
<1>7. CASE Current.kind = "collected" /\ LegCollected(o, Current.vendor)
  <2> DEFINE u == Current.vendor
  <2>1. CASE BlocksCollection(legs[u])
    <3>1. /\ courier' = [at |-> "credit", order |-> o, legs |-> [legs EXCEPT ![u] = "picked_up"]]
          /\ Current' = Current
      BY <1>1, <1>7, <2>1 DEF LegCollected, Then, Current
    <3>2. legs[u] # "picked_up" /\ (u \in Vendor => ~OnTheRoad(order))
      BY <2>1 DEF BlocksCollection, RoadResolved, Resolved
    <3>3. u \in Vendor
      <4>1. Current \in Milestone
        <5>1. milestones \in Seq(Milestone) /\ position \in Nat /\ position < Len(milestones)
          BY <1>1 DEF TypeOK, InHand
        <5> QED BY <5>1 DEF Current
      <4> QED BY <1>7, <4>1 DEF Milestone
    <3>4. NoPayment' /\ OneAhead'
      BY <1>1, <3>1 DEF NoPayment, OneAhead
    <3>5. RoadResolved'
      BY <1>1, <3>1, <3>2, <3>3 DEF RoadResolved, OnTheRoad, Resolved
    <3>6. \A v \in Vendor : (Taking(v)' = (v = u)) /\ ~Taking(v)
      BY <1>1, <1>7, <3>1 DEF Taking
    <3>7. CreditsCounted'
      BY <1>1, <1>7, <3>1, <3>2, <3>6 DEF CreditsCounted
    <3> QED BY <3>4, <3>5, <3>7
  <2>2. CASE ~BlocksCollection(legs[u])
    BY <1>2, <1>7, <2>2 DEF LegCollected, Finish
  <2> QED BY <2>1, <2>2
<1> QED BY <1>4, <1>5, <1>6, <1>7 DEF Handle

\* The credit makes the copy that will be saved, "delivering" with its last leg.
LEMMA CreditKeeps ==
  ASSUME TypeOK, InHand, NoPayment, OneAhead, RoadResolved, CreditsCounted, CreditVendor
  PROVE  (NoPayment /\ OneAhead /\ RoadResolved /\ CreditsCounted)'
<1> USE DEF orderVars, serviceVars, fieldOps, payments
<1> DEFINE u == Current.vendor
           o == Collected(order, courier.legs)
<1>1. /\ UNCHANGED <<method, checkout, order, legs, cut, payment, sweep,
                     milestones, position, intent, notices>>
      /\ courier.at = "credit" /\ courier # Idle /\ courier.order = order
      /\ order \in Order /\ credits \in [Vendor -> Nat] /\ cut \in [Vendor -> Nat]
      /\ courier' = [at |-> "save", order |-> o, legs |-> courier.legs]
      /\ credits' = [credits EXCEPT ![u] = @ + 1]
      /\ Current' = Current /\ Current.kind = "collected"
  BY DEF CreditVendor, Then, OneAhead, Idle, TypeOK, Current, CreditsCounted
<1>2. /\ o.pay = order.pay
      /\ o.status = IF AllLegsCollected(order.status, courier.legs) THEN "delivering"
                    ELSE order.status
  BY <1>1 DEF Collected, Order
<1>3. NoPayment' /\ OneAhead'
  BY <1>1, <1>2 DEF NoPayment, OneAhead, AllLegsCollected, Forward
<1>4. RoadResolved'
  <2>1. ~OnTheRoad(order)
    BY <1>1 DEF RoadResolved
  <2>2. OnTheRoad(o) => Resolved(courier.legs)
    BY <1>2, <2>1 DEF OnTheRoad, AllLegsCollected, Resolved
  <2> QED BY <1>1, <2>1, <2>2 DEF RoadResolved, OnTheRoad, Resolved
<1>5. \A v \in Vendor : Taking(v)' = Taking(v) /\ Taking(v) = (v = u)
  BY <1>1 DEF Taking
<1>6. ASSUME NEW v \in Vendor
      PROVE  /\ credits'[v] <= 1 + cut'[v]
             /\ v # u /\ legs'[v] # "picked_up" => credits'[v] <= cut'[v]
  <2>1. CASE v = u
    <3>1. legs[v] # "picked_up" /\ credits[v] <= cut[v]
      BY <1>1, <1>5, <2>1 DEF CreditsCounted
    <3>2. credits'[v] = credits[v] + 1 /\ credits[v] \in Nat /\ cut[v] \in Nat /\ cut' = cut
      BY <1>1, <2>1
    <3> QED BY <2>1, <3>1, <3>2
  <2>2. CASE v # u
    BY <1>1, <1>5, <2>2 DEF CreditsCounted
  <2> QED BY <2>1, <2>2
<1>7. CreditsCounted'
  BY <1>1, <1>5, <1>6 DEF CreditsCounted
<1> QED BY <1>3, <1>4, <1>7

\* The save makes the row the copy: a collected leg is then recorded.
LEMMA SaveKeeps ==
  ASSUME TypeOK, NoPayment, OneAhead, RoadResolved, CreditsCounted, Save
  PROVE  (NoPayment /\ OneAhead /\ RoadResolved /\ CreditsCounted)'
<1> USE DEF orderVars, serviceVars, fieldOps, payments
<1>1. /\ UNCHANGED <<method, checkout, credits, cut, payment, sweep, intent, notices>>
      /\ courier.at = "save" /\ courier # Idle
      /\ courier' = Idle /\ order' = courier.order /\ legs' = courier.legs
  BY DEF Save, Finish, Idle
<1>2. NoPayment' /\ OneAhead'
  BY <1>1 DEF NoPayment, OneAhead, Idle, Forward
<1>3. RoadResolved'
  BY <1>1 DEF RoadResolved, OnTheRoad, Resolved, Idle
<1>4. ASSUME NEW v \in Vendor
      PROVE  credits'[v] <= 1 + cut'[v] /\ (legs'[v] # "picked_up" => credits'[v] <= cut'[v])
  BY <1>1 DEF CreditsCounted
<1>5. CreditsCounted'
  BY <1>1, <1>4 DEF CreditsCounted, Taking, Idle
<1> QED BY <1>2, <1>3, <1>5

\* The offer of a cash order is made before its row is stored.
LEMMA PlaceKeeps ==
  ASSUME method = "cod", TypeOK, NoPayment, OneAhead, RoadResolved, CreditsCounted, Place
  PROVE  (NoPayment /\ OneAhead /\ RoadResolved /\ CreditsCounted)'
<1> USE DEF orderVars, serviceVars, fieldOps, payments
<1>1. /\ UNCHANGED <<legs, credits, cut, courier, payment, sweep, intent, notices>>
      /\ courier = Idle /\ order' = [order EXCEPT !.status = "awaiting_courier"]
      /\ order \in Order /\ checkout' = "unsaved"
  BY DEF Place, OneAhead, TypeOK
<1>2. order'.status = "awaiting_courier" /\ order'.pay = order.pay
  BY <1>1 DEF Order
<1>3. NoPayment' /\ OneAhead' /\ RoadResolved'
  BY <1>1, <1>2 DEF NoPayment, OneAhead, RoadResolved, OnTheRoad, Idle
<1>4. CreditsCounted'
  BY <1>1 DEF CreditsCounted, Taking, Idle
<1> QED BY <1>3, <1>4

\* Every step of a cash order.
LEMMA CashStep ==
  ASSUME TypeOK, InHand, Cash, [Next]_vars
  PROVE  Cash'
<1> USE DEF orderVars, serviceVars, fieldOps, payments
<1> SUFFICES ASSUME method = "cod", NoPayment, OneAhead, RoadResolved, CreditsCounted
             PROVE  (NoPayment /\ OneAhead /\ RoadResolved /\ CreditsCounted)'
  <2>1. method' = method
    BY DEF Next, vars, Place, SaveOrder, SaveOrderFails, Act, Claim, Complete, Report, Authorized,
       Failed, Notify, UnknownOrder, Read, Handle, Capture, CaptureFails, CreditVendor,
       CreditFails, Save, SaveFails, UnknownNotice, ReadNotice, HandleNotice, OfferCourier,
       SaveNotice, SweepRead, SweepOffer, SweepVoid, SweepVoidFails, SweepSave, Restart
  <2> QED BY <2>1 DEF Cash
<1>1. CASE UnknownOrder
  <2>1. Cut
    BY <1>1 DEF UnknownOrder, Cut, Idle
  <2> QED BY <1>1, <2>1, DropKeeps DEF UnknownOrder, Finish
<1>2. CASE Read
  <2>1. /\ UNCHANGED <<checkout, order, legs, credits, cut, payment, sweep, intent, notices>>
        /\ courier = Idle /\ courier'.at = "legs" /\ courier'.order = order /\ checkout = "done"
    BY <1>2 DEF Read
  <2>2. NoPayment' /\ OneAhead' /\ RoadResolved'
    BY <2>1 DEF NoPayment, OneAhead, RoadResolved, OnTheRoad, Resolved
  <2>3. CreditsCounted'
    BY <2>1 DEF CreditsCounted, Taking, Idle
  <2> QED BY <2>2, <2>3
<1>3. CASE Capture \/ CaptureFails
  BY <1>3 DEF Capture, CaptureFails, NoPayment, Idle
<1>4. CASE CreditFails
  <2>1. Cut
    BY <1>4 DEF CreditFails, Cut
  <2> QED BY <1>4, <2>1, DropKeeps DEF CreditFails, Finish
<1>5. CASE SaveFails
  BY <1>5, DropKeeps DEF SaveFails, Finish
<1>6. CASE Restart
  <2>1. payment' = payment /\ sweep' \in {sweep, Idle} /\ Cut /\ courier' = Idle
    BY <1>6 DEF Restart, NoPayment
  <2>2. /\ UNCHANGED <<order, legs, credits, intent, notices>>
        /\ checkout' = checkout \/ (checkout = "unsaved" /\ checkout' = "lost")
    BY <1>6 DEF Restart
  <2> QED BY <2>1, <2>2, DropKeeps
<1> QED
  BY <1>1, <1>2, <1>3, <1>4, <1>5, <1>6, PlaceKeeps, OthersKeep, ActKeeps, HandleKeeps,
     CreditKeeps, SaveKeeps DEF Next

-----------------------------------------------------------------------------
Inv == TypeOK /\ InHand /\ CopiesCredited /\ CopiesOver /\ Cash

\* The invariant holds before checkout.
LEMMA InitInv == Init => Inv
<1> SUFFICES ASSUME Init PROVE Inv
  OBVIOUS
<1>1. TypeOK /\ InHand /\ CopiesCredited /\ CopiesOver
  BY FaultAssumption
  DEF Init, TypeOK, InHand, CopiesCredited, Credited, CopiesOver, Idle, Order,
      OrderStatus, PaymentStatus, LegStatus, Milestone
<1>2. NoPayment /\ OneAhead /\ RoadResolved
  BY DEF Init, NoPayment, OneAhead, RoadResolved, OnTheRoad, Idle
<1>3. CreditsCounted
  BY DEF Init, CreditsCounted, Taking, Idle
<1> QED BY <1>1, <1>2, <1>3 DEF Inv, Cash

\* The inductive invariant of every behaviour.
LEMMA InvHolds == Spec => []Inv
<1>1. Inv /\ [Next]_vars => Inv'
  BY TypeStep, InHandStep, CreditedStep, OverStep, CashStep DEF Inv
<1> QED
  BY InitInv, <1>1, PTL DEF Spec

-----------------------------------------------------------------------------

\* Every variable keeps its type, and no consumer is past what was published.
THEOREM TypeCorrect == Spec => []TypeOK
  BY InvHolds, PTL DEF Inv

\* A cancelled order was never captured, however the recovery sweep, the payment
\* consumer and a courier's acceptance interleave, fail or restart.
THEOREM NoChargeAfterCancel == Spec => []CancelledNeverCharged
<1>1. Inv => CancelledNeverCharged
  BY DEF Inv, CopiesOver, Over, CancelledNeverCharged
<1> QED
  BY InvHolds, <1>1, PTL

\* Goods on record as collected are goods their store was credited for, through
\* failed credits, redeliveries and saves of older reads.
THEOREM CollectedIsPaid == Spec => []PickedUpWasCredited
<1>1. Inv => PickedUpWasCredited
  BY DEF Inv, CopiesCredited, Credited, PickedUpWasCredited
<1> QED
  BY InvHolds, <1>1, PTL

\* A cash order's store is credited once for each time the collection was
\* recorded or its record was lost, whatever is redelivered or restarted.
THEOREM CreditedOnce == Spec => []CreditedOncePerCut
<1>1. Inv => CreditedOncePerCut
  BY DEF Inv, Cash, CreditsCounted, CreditedOncePerCut
<1> QED
  BY InvHolds, <1>1, PTL

\* A cash order on its way to the customer left no goods waiting in a store.
THEOREM NothingLeftBehind == Spec => []DeliveredWasCollected
<1>1. Inv => DeliveredWasCollected
  BY DEF Inv, Cash, RoadResolved, OnTheRoad, Resolved, BlocksCollection, DeliveredWasCollected
<1> QED
  BY InvHolds, <1>1, PTL

\* A cash order only moves forward: what the consumer saves is one step ahead of
\* the row it is saved over, or that row.
THEOREM CashMovesForward == Spec => CashOrderMovesForward
<1>1. ASSUME Inv, Next, method = "cod", order'.status # order.status
      PROVE  <<order.status, order'.status>> \in Forward
  <2> USE DEF orderVars, serviceVars, fieldOps, payments
  <2>1. TypeOK /\ NoPayment /\ OneAhead
    BY <1>1 DEF Inv, Cash
  <2>2. order' = order \/ Place \/ Save \/ SaveNotice \/ SweepSave
    BY <1>1 DEF Next, SaveOrder, SaveOrderFails, Act, Claim, Complete, Report, Authorized,
       Failed, Notify, UnknownOrder, Read, Handle, Capture, CaptureFails, CreditVendor,
       CreditFails, SaveFails, UnknownNotice, ReadNotice, HandleNotice, OfferCourier,
       SweepRead, SweepOffer, SweepVoid, SweepVoidFails, Restart
  <2>3. CASE Place
    <3>1. order' = [order EXCEPT !.status = "awaiting_courier"] /\ order \in Order
      BY <1>1, <2>1, <2>3 DEF Place, TypeOK
    <3>2. order.status = "placed"
      BY <2>1, <2>3 DEF OneAhead, Place
    <3> QED BY <3>1, <3>2 DEF Forward, Order
  <2>4. CASE Save
    BY <1>1, <2>1, <2>4 DEF Save, OneAhead
  <2>5. CASE SaveNotice \/ SweepSave
    BY <2>1, <2>5 DEF SaveNotice, SweepSave, NoPayment, Idle
  <2> QED BY <1>1, <2>2, <2>3, <2>4, <2>5
<1>2. Inv /\ [Next]_vars =>
        [method = "cod" /\ order'.status # order.status =>
           <<order.status, order'.status>> \in
             {<<"placed", "awaiting_courier">>, <<"awaiting_courier", "collecting">>,
              <<"collecting", "delivering">>, <<"delivering", "delivered">>}]_vars
  BY <1>1 DEF Forward
<1> QED
  BY InvHolds, <1>2, PTL DEF Spec, CashOrderMovesForward

-----------------------------------------------------------------------------
(* Field-ops and payments appear here as what their contracts let them do; *)
(* these two theorems are the other half: whatever the consumers and the   *)
(* sweep retry, re-read or repeat after a restart, the order's calls are   *)
(* ones the contracts provide for, and its job and its intent behave as    *)
(* CourierFeed and PaymentHold say.                                        *)

\* The order opens its intent once, and captures or voids only a hold.
LEMMA PaymentStep ==
  ASSUME TypeOK, [Next]_vars
  PROVE  [Hold!Next]_(Hold!holdVars)
<1> USE DEF orderVars, serviceVars, fieldOps, payments
<1>1. CASE UNCHANGED payments
  BY <1>1 DEF Hold!holdVars
<1>2. CASE Place
  BY <1>1, <1>2 DEF Place, Hold!Next
<1>3. CASE Authorized \/ Failed
  BY <1>3 DEF Authorized, Failed, Hold!Next
<1>4. ASSUME NEW n \in Notice, Notify(n)
      PROVE  [Hold!Next]_(Hold!holdVars)
  BY <1>4 DEF Notify, Notice, Hold!Next
<1>5. CASE Capture \/ CaptureFails
  BY <1>1, <1>5 DEF Capture, CaptureFails, Hold!Next
<1>6. CASE SweepVoid \/ SweepVoidFails
  BY <1>1, <1>6 DEF SweepVoid, SweepVoidFails, Hold!Next
<1>7. \/ UNCHANGED payments
      \/ Place \/ Authorized \/ Failed \/ \E n \in Notice : Notify(n)
      \/ Capture \/ CaptureFails \/ SweepVoid \/ SweepVoidFails
  BY DEF Next, vars, SaveOrder, SaveOrderFails, Act, Claim, Complete, Report,
     UnknownOrder, Read, Handle, CreditVendor, CreditFails, Save, SaveFails, UnknownNotice,
     ReadNotice, HandleNotice, OfferCourier, SaveNotice, SweepRead, SweepOffer, SweepSave,
     Restart
<1> QED
  BY <1>1, <1>2, <1>3, <1>4, <1>5, <1>6, <1>7

\* A cash order's checkout, an authorized one's consumer and the sweep only offer
\* the job; they neither claim it, nor finish it, nor speak for it.
LEMMA FeedStep ==
  ASSUME TypeOK, [Next]_vars
  PROVE  [Feed!Next]_(Feed!feedVars)
<1> USE DEF orderVars, serviceVars, fieldOps, payments
<1>1. CASE UNCHANGED fieldOps
  BY <1>1 DEF Feed!feedVars
<1>2. CASE UNCHANGED milestones /\ job' = [job EXCEPT !.offered = TRUE]
  <2>1. /\ job'.offered = TRUE /\ job'.claimed = job.claimed /\ job'.finished = job.finished
    BY <1>2 DEF TypeOK
  <2> QED
    BY <1>2, <2>1 DEF Feed!Next, Feed!Offer
<1>3. CASE Claim
  <2>1. /\ job.offered /\ job'.claimed = TRUE
        /\ job'.offered = job.offered /\ job'.finished = job.finished
        /\ UNCHANGED milestones
    BY <1>3 DEF Claim, TypeOK
  <2> QED
    BY <2>1 DEF Feed!Next, Feed!Claim
<1>4. CASE Complete
  <2>1. /\ job.claimed /\ job'.finished = TRUE
        /\ job'.offered = job.offered /\ job'.claimed = job.claimed
        /\ UNCHANGED milestones
    BY <1>4 DEF Complete, TypeOK
  <2> QED
    BY <2>1 DEF Feed!Next, Feed!Complete
<1>5. ASSUME NEW m \in Milestone, Report(m)
      PROVE  [Feed!Next]_(Feed!feedVars)
  <2> DEFINE kinds == {milestones[i].kind : i \in DOMAIN milestones}
  <2>1. milestones \in Seq(Milestone) /\ milestones' = Append(milestones, m) /\ UNCHANGED job
    BY <1>5 DEF Report, TypeOK
  <2>2. /\ DOMAIN milestones' = DOMAIN milestones \cup {Len(milestones) + 1}
        /\ \A i \in DOMAIN milestones : milestones'[i] = milestones[i]
        /\ milestones'[Len(milestones) + 1] = m
    BY <2>1
  <2>3. kinds' = kinds \cup {m.kind}
    BY <2>2
  <2>4. m.kind \in {"assigned", "arrived", "collected", "delivered"}
    BY DEF Milestone
  <2>5. Feed!Say(m.kind)
    BY <1>5, <2>1, <2>3 DEF Report, Feed!Say
  <2> QED
    BY <2>4, <2>5 DEF Feed!Next
<1>6. \/ UNCHANGED fieldOps
      \/ UNCHANGED milestones /\ job' = [job EXCEPT !.offered = TRUE]
      \/ Claim \/ Complete \/ \E m \in Milestone : Report(m)
  BY DEF Next, vars, Place, SaveOrder, SaveOrderFails, Act, Authorized, Failed, Notify,
     UnknownOrder, Read, Handle, Capture, CaptureFails, CreditVendor, CreditFails, Save,
     SaveFails, UnknownNotice, ReadNotice, HandleNotice, OfferCourier, SaveNotice, SweepRead,
     SweepOffer, SweepVoid, SweepVoidFails, SweepSave, Restart
<1> QED
  BY <1>1, <1>2, <1>3, <1>4, <1>5, <1>6

\* The order deals with its payment within the contract of payments.
THEOREM PaysByContract == Spec => Hold!Spec
<1>1. Init => Hold!Init
  BY DEF Init, Hold!Init
<1>2. TypeOK /\ [Next]_vars => [Hold!Next]_(Hold!holdVars)
  BY PaymentStep
<1> QED
  BY TypeCorrect, <1>1, <1>2, PTL DEF Spec, Hold!Spec

\* The order deals with its courier within the contract of field-ops.
THEOREM CarriedByContract == Spec => Feed!Spec
<1>1. Init => Feed!Init
  BY DEF Init, Feed!Init
<1>2. TypeOK /\ [Next]_vars => [Feed!Next]_(Feed!feedVars)
  BY FeedStep
<1> QED
  BY TypeCorrect, <1>1, <1>2, PTL DEF Spec, Feed!Spec
=============================================================================
