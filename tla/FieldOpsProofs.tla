---------------------------- MODULE FieldOpsProofs ----------------------------
(***************************************************************************)
(* The two halves of mark_delivered together, for any couriers, jobs,      *)
(* requests and other writers of the ledger: what is published as          *)
(* delivered was credited, and what is credited was completed.             *)
(***************************************************************************)
EXTENDS FieldOps, TLAPS

USE ReportAssumption, PayingJobAssumption, DeclaredAssumption, TellerAssumption

Row      == Dispatch!Row
Who(r)   == Dispatch!Who(r)
What(r)  == Dispatch!What(r)
Writers  == Request \cup Teller

\* What the proof needs of the types.
Typed ==
  /\ status \in [Row -> Dispatch!Status]
  /\ selected \subseteq Row
  /\ pc \in [Request -> Dispatch!Step]
  /\ target \in [Request -> Row \cup {NoRow}]
  /\ entries \in [Courier \X Ledger!Kind \X Job -> Nat]
  /\ req = [q \in Writers |-> req[q]]

\* What a delivery at its credit holds.
Crediting(q) ==
  LET r == target[q]
  IN  /\ req[q] = [op |-> "credit", step |-> req[q].step, in |-> req[q].in,
                   job |-> What(r), pay |-> Declared[What(r)]]
      /\ req[q].in.ledger[1] = Who(r)

\* What a request knows of the row it is about, at each of its steps: whoever
\* comes to publish a paying delivery has been through its credit.
Knows(q) ==
  LET r == target[q]
  IN  /\ pc[q] # "idle" => r \in Row /\ status[r] \in {"claimed", "completed"}
      /\ pc[q] \in {"credit", "delivered"} => status[r] = "completed"
      /\ pc[q] = "credit" => What(r) \in PayingJob
      /\ pc[q] = "delivered" /\ What(r) \in PayingJob => Ledger!IsCredited(Who(r), What(r))
      /\ req[q] # Idle => pc[q] = "credit" /\ Crediting(q)

\* A row that is about to be saved as an offer does not exist yet.
Unsaved == \A r \in selected : status[r] = "none"

Inv ==
  /\ Typed
  /\ Unsaved
  /\ \A q \in Request : Knows(q)
  /\ DeliveredImpliesCredited
  /\ CreditedImpliesCompleted

\* A row is of a courier, of a job, and of a round of offers.
LEMMA RowParts ==
  ASSUME NEW r \in Row
  PROVE  /\ Who(r) \in Courier /\ What(r) \in Job /\ r[3] \in Round
         /\ r = <<Who(r), What(r), r[3]>>
  BY DEF Row, Who, What, Dispatch!Row, Dispatch!Who, Dispatch!What

-----------------------------------------------------------------------------
(* What a step must leave in place.                                        *)

\* The table keeps its types, the rows to be saved do not exist, and a row that
\* was claimed or completed is so still, a completed one completed.
RowsKept ==
  /\ status' \in [Row -> Dispatch!Status]
  /\ selected' \subseteq Row
  /\ \A r \in selected' : status'[r] = "none"
  /\ \A r \in Row :
       /\ status[r] = "completed" => status'[r] = "completed"
       /\ status[r] = "claimed" => status'[r] \in {"claimed", "completed"}

\* Entries are only ever added, and a new one is of a completed job.
EntriesKept ==
  /\ entries' \in [Courier \X Ledger!Kind \X Job -> Nat]
  /\ \A e \in Courier \X Ledger!Kind \X Job : entries[e] > 0 => entries'[e] > 0
  /\ \A c \in Courier, j \in Job :
       Ledger!IsCredited(c, j)' =>
         \/ Ledger!IsCredited(c, j)
         \/ \E n \in Round : status'[<<c, j, n>>] = "completed"

\* What is newly published as delivered has been credited.
PublishedKept ==
  \A c \in Courier, j \in PayingJob :
    <<"delivered", c, j>> \in published' =>
      <<"delivered", c, j>> \in published \/ Ledger!IsCredited(c, j)'

\* A request stays where it is, perhaps giving up its credit, or comes to a step
\* where all it should know is so.
Stays(q) ==
  /\ pc'[q] = pc[q] /\ target'[q] = target[q]
  /\ req'[q] \in {req[q], Idle}

RequestsKept ==
  /\ pc' \in [Request -> Dispatch!Step]
  /\ target' \in [Request -> Row \cup {NoRow}]
  /\ req' = [q \in Writers |-> req'[q]]
  /\ \A q \in Request : Stays(q) \/ Knows(q)'

\* A step that leaves these in place preserves the invariant.
LEMMA Preserved ==
  ASSUME Inv, RowsKept, EntriesKept, PublishedKept, RequestsKept
  PROVE  Inv'
<1>1. \A c \in Courier, j \in Job : Ledger!IsCredited(c, j) => Ledger!IsCredited(c, j)'
  BY DEF EntriesKept, Ledger!IsCredited
<1>2. Typed' /\ Unsaved'
  BY DEF Inv, Typed, Unsaved, RowsKept, EntriesKept, RequestsKept
<1>3. ASSUME NEW q \in Request, Stays(q)
      PROVE  Knows(q)'
  <2> DEFINE r == target[q]
  <2>1. Knows(q) /\ pc'[q] = pc[q] /\ target'[q] = r /\ req'[q] \in {req[q], Idle}
    BY <1>3 DEF Inv, Stays
  <2>2. pc[q] # "idle" =>
          /\ r \in Row /\ status'[r] \in {"claimed", "completed"}
          /\ pc[q] \in {"credit", "delivered"} => status'[r] = "completed"
    BY <2>1 DEF Knows, RowsKept
  <2>3. pc[q] = "delivered" /\ What(r) \in PayingJob =>
          Ledger!IsCredited(Who(r), What(r))'
    BY <2>1, <2>2, <1>1, RowParts DEF Knows
  <2>4. req'[q] # Idle => pc[q] = "credit" /\ Crediting(q)'
    BY <2>1 DEF Knows, Crediting
  <2> QED BY <2>1, <2>2, <2>3, <2>4 DEF Knows
<1>4. \A q \in Request : Knows(q)'
  BY <1>3 DEF RequestsKept
<1>5. DeliveredImpliesCredited'
  BY <1>1 DEF Inv, PublishedKept, DeliveredImpliesCredited
<1>6. CreditedImpliesCompleted'
  <2>1. ASSUME NEW c \in Courier, NEW j \in Job, Ledger!IsCredited(c, j)'
        PROVE  \E n \in Round : status'[<<c, j, n>>] = "completed"
    <3>1. \A n \in Round : <<c, j, n>> \in Row
      BY DEF Row, Dispatch!Row
    <3> QED BY <2>1, <3>1 DEF Inv, EntriesKept, RowsKept, CreditedImpliesCompleted
  <2>2. \A q \in Request : req'[q] # Idle => status'[target'[q]] = "completed"
    BY <1>4 DEF Knows
  <2> QED BY <2>1, <2>2 DEF CreditedImpliesCompleted
<1> QED BY <1>2, <1>4, <1>5, <1>6 DEF Inv

-----------------------------------------------------------------------------
(* Steps of the assignments alone.                                         *)

\* Nothing of the ledger changes.
LEMMA LedgerUntouched ==
  ASSUME Inv, UNCHANGED entries
  PROVE  EntriesKept
  BY DEF Inv, Typed, EntriesKept, Ledger!IsCredited

\* A request that waits for its first call takes up a row.
LEMMA Begins ==
  ASSUME Inv, NEW q \in Request, NEW r \in Row,
         NEW step \in {"retire", "complete", "arrived", "collected"},
         Dispatch!Begin(q, r, step), status'[r] \in {"claimed", "completed"},
         UNCHANGED req
  PROVE  RequestsKept
<1>1. \A p \in Request \ {q} : Stays(p)
  BY DEF Inv, Typed, Dispatch!Begin, Stays
<1>2. Knows(q)'
  BY DEF Inv, Typed, Knows, Dispatch!Begin
<1> QED BY <1>1, <1>2 DEF Inv, Typed, Dispatch!Begin, Dispatch!Step, RequestsKept

\* A request that is not at its credit goes on, to a step that is not one.
LEMMA GoesOn ==
  ASSUME Inv, RowsKept, NEW q \in Request, pc[q] \notin {"idle", "credit", "delivered"},
         Dispatch!Continue(q, pc[q], "announce"), UNCHANGED req
  PROVE  RequestsKept
<1>1. \A p \in Request \ {q} : Stays(p)
  BY DEF Inv, Typed, Dispatch!Continue, Stays
<1>2. Knows(q)'
  BY DEF Inv, Typed, Knows, Dispatch!Continue, RowsKept
<1> QED BY <1>1, <1>2 DEF Inv, Typed, Dispatch!Continue, Dispatch!Step, RequestsKept

\* A request is answered, and its writer of the ledger with it.
LEMMA Ends ==
  ASSUME Inv, NEW q \in Request, Dispatch!Answer(q),
         req' = [req EXCEPT ![q] = Idle]
  PROVE  RequestsKept
<1>1. \A p \in Request \ {q} : Stays(p)
  BY DEF Inv, Typed, Dispatch!Answer, Stays, Writers
<1>2. Knows(q)'
  BY DEF Inv, Typed, Knows, Dispatch!Answer, Writers
<1>3. req' = [p \in Writers |-> req'[p]]
  BY DEF Inv, Typed
<1> QED BY <1>1, <1>2, <1>3 DEF Inv, Typed, Dispatch!Answer, Dispatch!Step, RequestsKept

\* Only a request at its credit has a writer.
LEMMA IdleWriter ==
  ASSUME Inv, NEW q \in Request, pc[q] # "credit"
  PROVE  req = [req EXCEPT ![q] = Idle]
  BY DEF Inv, Typed, Knows, Writers

\* A milestone other than the delivery.
LEMMA OtherMilestone ==
  ASSUME Inv, NEW q \in Request, NEW m, m # "delivered", Dispatch!Emit(q, m, target[q])
  PROVE  PublishedKept
  BY DEF Dispatch!Emit, PublishedKept

\* The assignments' own steps preserve the invariant.
LEMMA AloneStep == Inv /\ DispatchAlone => Inv'
<1> SUFFICES ASSUME Inv, DispatchAlone PROVE Inv'
  OBVIOUS
<1>1. EntriesKept /\ UNCHANGED req
  BY LedgerUntouched DEF DispatchAlone, ledgerVars
<1>2. ASSUME UNCHANGED <<pc, target, published>>, RowsKept
      PROVE  Inv'
  <2>1. RequestsKept /\ PublishedKept
    BY <1>1, <1>2 DEF Inv, Typed, RequestsKept, Stays, PublishedKept
  <2> QED BY <1>1, <1>2, <2>1, Preserved
<1>3. ASSUME NEW j \in Job, NEW n \in Round, NEW cs \in SUBSET Courier, Dispatch!Offer(j, n, cs)
      PROVE Inv'
  <2>1. RowsKept
    BY <1>3 DEF Inv, Typed, Unsaved, RowsKept, Row, Dispatch!Row, Dispatch!Offer
  <2> QED BY <1>2, <1>3, <2>1 DEF Dispatch!Offer
<1>4. ASSUME NEW j \in Job, NEW n \in Round, Dispatch!AbandonOffer(j, n)
      PROVE Inv'
  <2>1. RowsKept
    BY <1>4 DEF Inv, Typed, Unsaved, RowsKept, Dispatch!AbandonOffer
  <2> QED BY <1>2, <1>4, <2>1 DEF Dispatch!AbandonOffer
<1>5. ASSUME NEW r \in Dispatch!Row, Dispatch!SaveOffer(r)
      PROVE Inv'
  <2>1. RowsKept
    BY <1>5 DEF Inv, Typed, Unsaved, RowsKept, Row, Dispatch!SaveOffer, Dispatch!Status
  <2> QED BY <1>2, <1>5, <2>1 DEF Dispatch!SaveOffer
<1>6. ASSUME NEW q \in Request, NEW r \in Dispatch!Row, Dispatch!TryClaim(q, r)
      PROVE Inv'
  <2>1. RowsKept /\ status'[r] = "claimed"
    BY <1>6 DEF Inv, Typed, Unsaved, RowsKept, Row, Dispatch!TryClaim, Dispatch!Status
  <2>2. RequestsKept /\ PublishedKept
    BY <1>1, <1>6, <2>1, Begins DEF Row, Dispatch!TryClaim, PublishedKept
  <2> QED BY <1>1, <2>1, <2>2, Preserved
<1>7. ASSUME NEW q \in Request, NEW r \in Dispatch!Row,
             Dispatch!ReadDelivery(q, r) \/ \E m \in Report : Dispatch!ReadMilestone(q, r, m)
      PROVE Inv'
  <2>1. RowsKept /\ status'[r] = "claimed" /\ PublishedKept
    BY <1>7 DEF Inv, Typed, Unsaved, RowsKept, PublishedKept, Row,
                Dispatch!ReadDelivery, Dispatch!ReadMilestone
  <2>2. RequestsKept
    BY <1>1, <1>7, <2>1, Begins DEF Row, Dispatch!ReadDelivery, Dispatch!ReadMilestone
  <2> QED BY <1>1, <2>1, <2>2, Preserved
<1>8. ASSUME NEW q \in Request, Dispatch!ExpireOtherOffers(q) \/ Dispatch!ExpireFails(q)
      PROVE Inv'
  <2>1. RowsKept /\ PublishedKept
    BY <1>8 DEF Inv, Typed, Unsaved, RowsKept, PublishedKept, Row, Dispatch!Status,
                Dispatch!ExpireOtherOffers, Dispatch!ExpireFails
  <2>2. RequestsKept
    BY <1>1, <1>8, <2>1, GoesOn DEF Dispatch!ExpireOtherOffers, Dispatch!ExpireFails, Dispatch!Continue
  <2> QED BY <1>1, <2>1, <2>2, Preserved
<1>9. ASSUME NEW q \in Request,
             \/ Dispatch!AnnounceClaim(q) \/ (\E m \in Report : Dispatch!PublishMilestone(q, m))
             \/ pc[q] # "credit" /\ Dispatch!Die(q)
      PROVE Inv'
  <2>1. RowsKept /\ Dispatch!Answer(q) /\ pc[q] # "credit"
    BY <1>9 DEF Inv, Typed, Unsaved, RowsKept, Row,
                Dispatch!AnnounceClaim, Dispatch!PublishMilestone, Dispatch!Die
  <2>2. RequestsKept
    BY <1>1, <2>1, Ends, IdleWriter
  <2>3. PublishedKept
    BY <1>9, OtherMilestone DEF Dispatch!AnnounceClaim, Dispatch!PublishMilestone, Dispatch!Die,
                                PublishedKept
  <2> QED BY <1>1, <2>1, <2>2, <2>3, Preserved
<1>10. ASSUME NEW q \in Request, Dispatch!Complete(q)
      PROVE Inv'
  <2> DEFINE r == target[q]
  <2>1. pc[q] = "complete" /\ Knows(q) /\ r \in Row /\ status[r] \in {"claimed", "completed"}
    BY <1>10 DEF Inv, Knows, Dispatch!Complete, Dispatch!Continue
  <2>2. RowsKept /\ status'[r] = "completed" /\ PublishedKept
    BY <1>10, <2>1 DEF Inv, Typed, Unsaved, RowsKept, PublishedKept, Dispatch!Complete, Dispatch!Status
  <2>3. \A p \in Request \ {q} : Stays(p)
    BY <1>1, <1>10 DEF Inv, Typed, Dispatch!Complete, Dispatch!Continue, Stays
  <2>4. Knows(q)'
    BY <1>1, <1>10, <2>1, <2>2 DEF Inv, Typed, Knows, Dispatch!Complete, Dispatch!Continue, What
  <2>5. RequestsKept
    BY <1>1, <1>10, <2>3, <2>4 DEF Inv, Typed, RequestsKept, Dispatch!Complete, Dispatch!Continue, Dispatch!Step
  <2> QED BY <1>1, <2>2, <2>5, Preserved
<1> QED
  BY <1>3, <1>4, <1>5, <1>6, <1>7, <1>8, <1>9, <1>10 DEF DispatchAlone

-----------------------------------------------------------------------------
(* Steps of the ledger alone.                                              *)

\* The assignments, and what was published, stay.
LEMMA AssignmentsUntouched ==
  ASSUME Inv, UNCHANGED <<status, selected, published>>
  PROVE  RowsKept /\ PublishedKept
  BY DEF Inv, Typed, Unsaved, RowsKept, PublishedKept

\* The other writers of the ledger add no entry that names a job, and leave the
\* deliveries' writers alone; a delivery's own look at the table changes nothing.
LEMMA LedgerStep == Inv /\ LedgerAlone => Inv'
<1> SUFFICES ASSUME Inv, LedgerAlone PROVE Inv'
  OBVIOUS
<1>1. RowsKept /\ PublishedKept /\ UNCHANGED <<pc, target>>
  BY AssignmentsUntouched DEF LedgerAlone, dispatchVars
<1>2. ASSUME NEW t \in Teller, req' = [req EXCEPT ![t] = req'[t]], UNCHANGED entries
      PROVE  Inv'
  <2>1. t \notin Request /\ t \in Writers
    BY DEF Writers
  <2>2. RequestsKept
    BY <1>1, <1>2, <2>1 DEF Inv, Typed, RequestsKept, Stays, Writers
  <2> QED BY <1>1, <1>2, <2>2, LedgerUntouched, Preserved
<1>3. ASSUME NEW t \in Teller,
             \/ \E c \in Courier, amount \in Amount : Ledger!BeginRemit(t, c, amount)
             \/ \E l \in Ledger!Ledger : Ledger!BeginPayout(t, l)
             \/ Ledger!CheckHeld(t) \/ Ledger!CheckOwed(t)
             \/ Ledger!SaveRemit(t) \/ Ledger!SavePayout(t) \/ Ledger!Drop(t)
      PROVE  Inv'
  <2>1. UNCHANGED entries
    BY <1>3 DEF Ledger!BeginRemit, Ledger!BeginPayout, Ledger!Begin, Ledger!CheckHeld,
                Ledger!CheckOwed, Ledger!Continue, Ledger!SaveRemit, Ledger!SavePayout, Ledger!Drop
  <2>2. req' = [req EXCEPT ![t] = req'[t]]
    <3>1. t \in Writers /\ req = [w \in Writers |-> req[w]]
      BY DEF Inv, Typed, Writers
    <3>2. CASE \/ \E c \in Courier, amount \in Amount : Ledger!BeginRemit(t, c, amount)
               \/ \E l \in Ledger!Ledger : Ledger!BeginPayout(t, l)
      BY <3>1, <3>2 DEF Ledger!BeginRemit, Ledger!BeginPayout, Ledger!Begin
    <3>3. CASE Ledger!CheckHeld(t) \/ Ledger!CheckOwed(t)
      BY <3>1, <3>3 DEF Ledger!CheckHeld, Ledger!CheckOwed, Ledger!Continue
    <3>4. CASE Ledger!SaveRemit(t) \/ Ledger!SavePayout(t) \/ Ledger!Drop(t)
      BY <3>1, <3>4 DEF Ledger!SaveRemit, Ledger!SavePayout, Ledger!Save, Ledger!Drop
    <3> QED BY <1>3, <3>2, <3>3, <3>4
  <2> QED BY <1>2, <2>1, <2>2
<1>4. ASSUME NEW q \in Request, Ledger!CheckCredited(q)
      PROVE  Inv'
  <2>1. Knows(q) /\ req[q] # Idle /\ q \in Writers /\ req = [w \in Writers |-> req[w]]
    BY <1>4 DEF Inv, Typed, Writers, Ledger!CheckCredited
  <2>2. req' = [req EXCEPT ![q].step = "save"] /\ UNCHANGED entries
    BY <1>4 DEF Ledger!CheckCredited, Ledger!Continue
  <2>3. Crediting(q)'
    BY <1>1, <2>1, <2>2 DEF Knows, Crediting
  <2>4. Knows(q)'
    BY <1>1, <2>1, <2>2, <2>3 DEF Knows, RowsKept, Ledger!IsCredited
  <2>5. \A p \in Request \ {q} : Stays(p)
    BY <1>1, <2>1, <2>2 DEF Stays, Writers
  <2>6. RequestsKept
    BY <1>1, <2>1, <2>2, <2>4, <2>5 DEF Inv, Typed, RequestsKept
  <2> QED BY <1>1, <2>2, <2>6, LedgerUntouched, Preserved
<1>5. CASE Ledger!NextWeek
  <2>1. UNCHANGED <<entries, req>>
    BY <1>5 DEF Ledger!NextWeek
  <2>2. RequestsKept
    BY <1>1, <2>1 DEF Inv, Typed, RequestsKept, Stays
  <2> QED BY <1>1, <2>1, <2>2, LedgerUntouched, Preserved
<1> QED
  BY <1>3, <1>4, <1>5 DEF LedgerAlone

-----------------------------------------------------------------------------
(* The credit inside mark_delivered.                                       *)

\* A credit adds entries of the courier and the job of its delivery, and some.
LEMMA CreditAdds ==
  ASSUME Inv, RowsKept, NEW q \in Request, Ledger!SaveCredit(q),
         NEW c \in Courier, NEW j \in Job, c = Who(target[q]), j = What(target[q])
  PROVE  /\ EntriesKept
         /\ Ledger!IsCredited(c, j)'
         /\ req' = [req EXCEPT ![q] = Idle]
<1> DEFINE r == target[q]
           new == {<<c, k, j>> : k \in Ledger!Posted(Declared[j])}
<1>1. Knows(q) /\ req[q] # Idle
  BY DEF Inv, Ledger!SaveCredit
<1>2. /\ r \in Row /\ status[r] = "completed" /\ j \in PayingJob
      /\ Crediting(q)
  BY <1>1 DEF Knows
<1>3. Declared[j] \in Pay
  BY <1>2
<1>4. \E k \in Ledger!Kind : k \in Ledger!Posted(Declared[j])
  BY <1>3, PayAssumption DEF Ledger!Posted
<1>5. Ledger!NewEntries(q) = new
  <2>1. req[q].in.ledger[1] = c /\ req[q].job = j /\ req[q].pay = Declared[j]
    BY <1>2 DEF Crediting
  <2> QED BY <2>1 DEF Ledger!NewEntries
<1>6. new \subseteq Courier \X Ledger!Kind \X Job
  BY <1>2 DEF Ledger!Posted
<1>7. entries' = [e \in Courier \X Ledger!Kind \X Job |->
                   IF e \in new THEN entries[e] + 1 ELSE entries[e]]
  BY <1>5 DEF Inv, Typed, Ledger!SaveCredit
<1>8. entries' \in [Courier \X Ledger!Kind \X Job -> Nat]
  BY <1>7 DEF Inv, Typed
<1>9. \A e \in Courier \X Ledger!Kind \X Job :
        /\ entries[e] > 0 => entries'[e] > 0
        /\ e \in new => entries'[e] > 0
        /\ e \notin new => entries'[e] = entries[e]
  BY <1>7 DEF Inv, Typed
<1>10. Ledger!IsCredited(c, j)'
  <2>1. PICK k \in Ledger!Kind : k \in Ledger!Posted(Declared[j])
    BY <1>4
  <2>2. <<c, k, j>> \in new /\ <<c, k, j>> \in Courier \X Ledger!Kind \X Job
    BY <2>1, <1>6
  <2>3. entries'[<<c, k, j>>] > 0
    BY <2>2, <1>9
  <2> QED BY <2>3 DEF Ledger!IsCredited
<1>11. ASSUME NEW d \in Courier, NEW i \in Job, Ledger!IsCredited(d, i)', ~Ledger!IsCredited(d, i)
       PROVE  \E n \in Round : status'[<<d, i, n>>] = "completed"
  <2>1. PICK k \in Ledger!Kind : entries'[<<d, k, i>>] > 0 /\ ~(entries[<<d, k, i>>] > 0)
    BY <1>11 DEF Ledger!IsCredited
  <2>2. <<d, k, i>> \in new
    BY <2>1, <1>9
  <2>3. d = c /\ i = j
    BY <2>2
  <2>4. status'[<<c, j, r[3]>>] = "completed" /\ r[3] \in Round
    BY <1>2, RowParts DEF RowsKept
  <2> QED BY <2>3, <2>4
<1>12. EntriesKept
  BY <1>8, <1>9, <1>11 DEF EntriesKept
<1>13. req' = [req EXCEPT ![q] = Idle]
  BY DEF Ledger!SaveCredit, Ledger!Save
<1> QED BY <1>10, <1>12, <1>13

\* A delivery whose job is credited goes on to publish it.
LEMMA GoesOnToPublish ==
  ASSUME Inv, RowsKept, NEW q \in Request, Dispatch!Credited(q),
         NEW c \in Courier, NEW j \in Job, c = Who(target[q]), j = What(target[q]),
         Ledger!IsCredited(c, j)', req' = [req EXCEPT ![q] = Idle]
  PROVE  RequestsKept
<1>1. \A p \in Request \ {q} : Stays(p)
  BY DEF Inv, Typed, Dispatch!Credited, Dispatch!Continue, Stays, Writers
<1>2. /\ Knows(q) /\ pc[q] = "credit" /\ pc'[q] = "delivered" /\ target'[q] = target[q]
      /\ req'[q] = Idle
  BY DEF Inv, Typed, Writers, Dispatch!Credited, Dispatch!Continue
<1>3. target[q] \in Row /\ status[target[q]] = "completed"
  BY <1>2 DEF Knows
<1>5. Knows(q)'
  BY <1>2, <1>3 DEF Knows, RowsKept
<1>6. req' = [p \in Writers |-> req'[p]]
  BY DEF Inv, Typed
<1> QED
  BY <1>1, <1>5, <1>6 DEF Inv, Typed, Dispatch!Credited, Dispatch!Continue, Dispatch!Step, RequestsKept

\* The steps of a delivery through its credit preserve the invariant.
LEMMA CreditStep ==
  ASSUME Inv, NEW q \in Request,
         \/ StartCredit(q) \/ CreditSaved(q) \/ CreditRepeated(q)
         \/ CreditRefused(q) \/ CreditDies(q) \/ Acknowledge(q)
  PROVE  Inv'
<1>c. pc[q] \in {"credit", "delivered"} =>
        \E c \in Courier, j \in Job : c = Who(target[q]) /\ j = What(target[q])
  BY RowParts DEF Inv, Knows
<1>1. CASE StartCredit(q)
  <2> DEFINE r == target[q]
  <2>1. /\ Knows(q) /\ pc[q] = "credit" /\ r \in Row /\ What(r) \in PayingJob
        /\ UNCHANGED <<status, selected, published, pc, target, entries>>
    BY <1>1 DEF Inv, Knows, StartCredit, dispatchVars, Ledger!BeginCredit, Ledger!Begin
  <2>2. req' = [req EXCEPT ![q] = [op |-> "credit", step |-> "check",
                                   in |-> Ledger!Open(<<Who(r), week>>),
                                   job |-> What(r), pay |-> Declared[What(r)]]]
    BY <1>1 DEF StartCredit, Ledger!BeginCredit, Ledger!Begin, Who, What
  <2>3. Crediting(q)'
    BY <2>1, <2>2 DEF Inv, Typed, Writers, Crediting, Ledger!Open
  <2>4. Knows(q)'
    BY <2>1, <2>3 DEF Knows, Ledger!IsCredited
  <2>5. RequestsKept
    BY <2>1, <2>2, <2>4 DEF Inv, Typed, RequestsKept, Stays, Writers
  <2> QED BY <2>1, <2>5, AssignmentsUntouched, LedgerUntouched, Preserved
<1>2. CASE CreditSaved(q)
  <2>1. RowsKept /\ PublishedKept
    BY <1>2, AssignmentsUntouched DEF CreditSaved, Dispatch!Credited
  <2>2. PICK c \in Courier, j \in Job : c = Who(target[q]) /\ j = What(target[q])
    BY <1>2, <1>c DEF CreditSaved, Dispatch!Credited, Dispatch!Continue
  <2>3. EntriesKept /\ RequestsKept
    BY <1>2, <2>1, <2>2, CreditAdds, GoesOnToPublish DEF CreditSaved
  <2> QED BY <2>1, <2>3, Preserved
<1>3. CASE CreditRepeated(q)
  <2>1. RowsKept /\ PublishedKept
    BY <1>3, AssignmentsUntouched DEF CreditRepeated, Dispatch!Credited
  <2>2. UNCHANGED entries /\ req' = [req EXCEPT ![q] = Idle]
    BY <1>3 DEF CreditRepeated, Ledger!Drop
  <2>3. PICK c \in Courier, j \in Job : c = Who(target[q]) /\ j = What(target[q])
    BY <1>3, <1>c DEF CreditRepeated, Dispatch!Credited, Dispatch!Continue
  <2>4. req[q].in.ledger[1] = c /\ req[q].job = j
    <3>1. Crediting(q)
      BY <1>3 DEF Inv, Knows, CreditRepeated
    <3> QED BY <2>3, <3>1 DEF Crediting
  <2>5. Ledger!IsCredited(c, j)
    BY <1>3, <2>4 DEF CreditRepeated
  <2>6. Ledger!IsCredited(c, j)'
    BY <2>2, <2>5 DEF Ledger!IsCredited
  <2>7. RequestsKept
    BY <1>3, <2>1, <2>2, <2>3, <2>6, GoesOnToPublish DEF CreditRepeated
  <2> QED BY <2>1, <2>2, <2>7, LedgerUntouched, Preserved
<1>4. CASE CreditRefused(q)
  <2>1. UNCHANGED entries /\ req' = [req EXCEPT ![q] = Idle] /\ Dispatch!Answer(q)
    BY <1>4 DEF CreditRefused, Ledger!Drop
  <2>2. RowsKept /\ PublishedKept
    BY <1>4, AssignmentsUntouched DEF CreditRefused
  <2> QED BY <2>1, <2>2, Ends, LedgerUntouched, Preserved
<1>5. CASE CreditDies(q)
  <2>1. UNCHANGED entries /\ Dispatch!Answer(q)
    BY <1>5 DEF CreditDies, Ledger!Drop, Dispatch!Die, ledgerVars
  <2>2. req' = [req EXCEPT ![q] = Idle]
    BY <1>5 DEF Inv, Typed, Writers, CreditDies, Ledger!Drop, ledgerVars
  <2>3. RowsKept /\ PublishedKept
    BY <1>5, AssignmentsUntouched DEF CreditDies, Dispatch!Die
  <2> QED BY <2>1, <2>2, <2>3, Ends, LedgerUntouched, Preserved
<1>6. CASE Acknowledge(q)
  <2> DEFINE r == target[q]
  <2>1. /\ Knows(q) /\ pc[q] = "delivered" /\ r \in Row
        /\ UNCHANGED <<status, selected, entries, req>>
    BY <1>6 DEF Inv, Knows, Acknowledge, Dispatch!PublishDelivery, ledgerVars
  <2>2. RequestsKept
    BY <1>6, <2>1, Ends, IdleWriter DEF Acknowledge, Dispatch!PublishDelivery
  <2>3. published' \subseteq published \cup {<<"delivered", Who(r), What(r)>>}
    BY <1>6 DEF Acknowledge, Dispatch!PublishDelivery, Dispatch!Emit, Who, What
  <2>4. ASSUME NEW c \in Courier, NEW j \in PayingJob, c = Who(r), j = What(r)
        PROVE  Ledger!IsCredited(c, j)'
    <3>1. Ledger!IsCredited(c, j)
      BY <2>1, <2>4 DEF Knows
    <3> QED BY <2>1, <3>1 DEF Ledger!IsCredited
  <2>5. PublishedKept
    BY <2>3, <2>4 DEF PublishedKept
  <2>6. RowsKept
    BY <2>1 DEF Inv, Typed, Unsaved, RowsKept
  <2> QED BY <2>1, <2>2, <2>5, <2>6, LedgerUntouched, Preserved
<1> QED BY <1>1, <1>2, <1>3, <1>4, <1>5, <1>6

-----------------------------------------------------------------------------
(* The theorems. *)

\* The inductive invariant of every behaviour.
LEMMA InvHolds == Spec => []Inv
<1>1. Init => Inv
  <2> SUFFICES ASSUME Init PROVE Inv
    OBVIOUS
  <2>1. /\ status = [r \in Row |-> "none"] /\ selected = {} /\ published = {}
        /\ pc = [q \in Request |-> "idle"] /\ target = [q \in Request |-> NoRow]
    BY DEF Init, Dispatch!Init, Row
  <2>2. /\ entries = [e \in Courier \X Ledger!Kind \X Job |-> 0]
        /\ req = [q \in Writers |-> Idle]
    BY DEF Init, Ledger!Init, Writers
  <2>3. Typed
    <3>1. "none" \in Dispatch!Status /\ "idle" \in Dispatch!Step
      BY DEF Dispatch!Status, Dispatch!Step
    <3>2. req = [q \in Writers |-> req[q]]
      BY <2>2
    <3> QED BY <2>1, <2>2, <3>1, <3>2 DEF Typed
  <2>4. \A q \in Request : Knows(q)
    <3>1. \A q \in Request : pc[q] = "idle" /\ req[q] = Idle
      BY <2>1, <2>2 DEF Writers
    <3> QED BY <3>1 DEF Knows
  <2>5. ASSUME NEW c \in Courier, NEW j \in Job
        PROVE  ~Ledger!IsCredited(c, j)
    <3>1. SUFFICES ASSUME NEW k \in Ledger!Kind, entries[<<c, k, j>>] > 0
                   PROVE  FALSE
      BY DEF Ledger!IsCredited
    <3>2. entries[<<c, k, j>>] = 0
      BY <2>2
    <3> QED BY <3>1, <3>2
  <2>6. CreditedImpliesCompleted
    BY <2>2, <2>5 DEF CreditedImpliesCompleted, Writers
  <2> QED BY <2>1, <2>3, <2>4, <2>6 DEF Inv, Unsaved, DeliveredImpliesCredited
<1>2. Inv /\ [Next]_vars => Inv'
  <2> SUFFICES ASSUME Inv, [Next]_vars PROVE Inv'
    OBVIOUS
  <2>1. ASSUME UNCHANGED <<dispatchVars, ledgerVars>>
        PROVE  Inv'
    <3>1. RequestsKept
      BY <2>1 DEF dispatchVars, ledgerVars, Inv, Typed, RequestsKept, Stays
    <3> QED
      BY <2>1, <3>1, AssignmentsUntouched, LedgerUntouched, Preserved DEF dispatchVars, ledgerVars
  <2>2. (\E r \in Dispatch!Row : AckRepeat(r)) \/ UNCHANGED vars => UNCHANGED <<dispatchVars, ledgerVars>>
    BY DEF AckRepeat, vars
  <2> QED
    BY <2>1, <2>2, AloneStep, LedgerStep, CreditStep DEF Next
<1> QED BY <1>1, <1>2, PTL DEF Spec

\* Whatever else writes the ledger, and wherever requests stop, the products
\* hear "delivered" of a paying job only when its courier has been credited.
THEOREM HeardIsPaid == Spec => []DeliveredImpliesCredited
  BY InvHolds, PTL DEF Inv

\* No courier is credited for a job that is not on record as completed by them.
THEOREM PaidIsCompleted == Spec => []CreditedImpliesCompleted
  BY InvHolds, PTL DEF Inv
-----------------------------------------------------------------------------
(* The composition implements each of its halves: the theorems of the      *)
(* assignments and of the ledger hold of the two together.                 *)

\* What the assignments do alone, they do as the assignments' own module says;
\* there any request may die, so its not being at the credit does not matter.
LEMMA AloneImplements == DispatchAlone => Half!Next
<1> SUFFICES ASSUME DispatchAlone PROVE Half!Next
  OBVIOUS
<1>1. Half!Row = Dispatch!Row
  BY DEF Half!Row, Dispatch!Row
<1>2. CASE \E j \in Job, n \in Round, candidates \in SUBSET Courier :
             Dispatch!Offer(j, n, candidates)
  <2>1. PICK j \in Job, n \in Round, candidates \in SUBSET Courier :
          Dispatch!Offer(j, n, candidates)
    BY <1>2
  <2>2. Half!Cardinality(candidates) = Dispatch!Cardinality(candidates)
    BY DEF Half!Cardinality, Dispatch!Cardinality
  <2>3. Half!Offer(j, n, candidates)
    BY <2>1, <2>2, <1>1 DEF Half!Offer, Dispatch!Offer, Half!HoldsClaim, Dispatch!HoldsClaim,
                            Half!Who, Dispatch!Who
  <2> QED BY <2>3 DEF Half!Next
<1>3. CASE \E j \in Job, n \in Round : Dispatch!AbandonOffer(j, n)
  BY <1>3 DEF Half!Next, Half!AbandonOffer, Dispatch!AbandonOffer, Half!What, Dispatch!What
<1>4. CASE \E r \in Dispatch!Row : Dispatch!SaveOffer(r)
  BY <1>4, <1>1 DEF Half!Next, Half!SaveOffer, Dispatch!SaveOffer
<1>5. CASE \E q \in Request, r \in Dispatch!Row :
             \/ Dispatch!TryClaim(q, r) \/ Dispatch!ReadDelivery(q, r)
             \/ \E m \in Report : Dispatch!ReadMilestone(q, r, m)
  <2>1. PICK q \in Request, r \in Dispatch!Row :
             \/ Dispatch!TryClaim(q, r) \/ Dispatch!ReadDelivery(q, r)
             \/ \E m \in Report : Dispatch!ReadMilestone(q, r, m)
    BY <1>5
  <2>2. \/ Half!TryClaim(q, r) \/ Half!ReadDelivery(q, r)
        \/ \E m \in Report : Half!ReadMilestone(q, r, m)
    BY <2>1, <1>1 DEF Half!TryClaim, Dispatch!TryClaim, Half!ReadDelivery, Dispatch!ReadDelivery,
       Half!ReadMilestone, Dispatch!ReadMilestone, Half!Begin, Dispatch!Begin,
       Half!HoldsClaim, Dispatch!HoldsClaim, Half!Who, Dispatch!Who
  <2> QED BY <2>2, <1>1 DEF Half!Next
<1>6. CASE \E q \in Request :
             \/ Dispatch!ExpireOtherOffers(q) \/ Dispatch!ExpireFails(q)
             \/ Dispatch!AnnounceClaim(q) \/ (\E m \in Report : Dispatch!PublishMilestone(q, m))
             \/ Dispatch!Complete(q)
             \/ pc[q] # "credit" /\ Dispatch!Die(q)
  <2>1. PICK q \in Request :
             \/ Dispatch!ExpireOtherOffers(q) \/ Dispatch!ExpireFails(q)
             \/ Dispatch!AnnounceClaim(q) \/ (\E m \in Report : Dispatch!PublishMilestone(q, m))
             \/ Dispatch!Complete(q)
             \/ pc[q] # "credit" /\ Dispatch!Die(q)
    BY <1>6
  <2>2. CASE Dispatch!ExpireOtherOffers(q) \/ Dispatch!ExpireFails(q) \/ Dispatch!Complete(q)
    <3>1. Half!ExpireOtherOffers(q) \/ Half!ExpireFails(q) \/ Half!Complete(q)
      BY <2>2, <1>1 DEF Half!ExpireOtherOffers, Dispatch!ExpireOtherOffers, Half!ExpireFails,
         Dispatch!ExpireFails, Half!Complete, Dispatch!Complete, Half!Continue, Dispatch!Continue,
         Half!What, Dispatch!What
    <3> QED BY <3>1 DEF Half!Next, Half!Serve
  <2>3. CASE Dispatch!AnnounceClaim(q) \/ \E m \in Report : Dispatch!PublishMilestone(q, m)
    <3>1. Half!AnnounceClaim(q) \/ \E m \in Report : Half!PublishMilestone(q, m)
      BY <2>3 DEF Half!AnnounceClaim, Dispatch!AnnounceClaim, Half!PublishMilestone,
         Dispatch!PublishMilestone, Half!Emit, Dispatch!Emit, Half!Answer, Dispatch!Answer,
         Half!Who, Dispatch!Who, Half!What, Dispatch!What
    <3> QED BY <3>1 DEF Half!Next, Half!Serve
  <2>4. CASE Dispatch!Die(q)
    BY <2>4 DEF Half!Next, Half!Die, Dispatch!Die, Half!Answer, Dispatch!Answer
  <2> QED BY <2>1, <2>2, <2>3, <2>4
<1> QED BY <1>2, <1>3, <1>4, <1>5, <1>6 DEF DispatchAlone

\* What the ledger does alone is its own, its writers being the deliveries and
\* the tellers.
LEMMA LedgerAloneImplements == LedgerAlone => Ledger!Next
  BY DEF LedgerAlone, Ledger!Next, Ledger!Write

\* The steps of a delivery from its credit on are steps of both halves: the
\* assignments go on when the ledger has the credit, and end when it has not.
LEMMA CreditImplements ==
  ASSUME Inv, NEW q \in Request,
         \/ StartCredit(q) \/ CreditSaved(q) \/ CreditRepeated(q)
         \/ CreditRefused(q) \/ CreditDies(q) \/ Acknowledge(q)
  PROVE  /\ Half!Next \/ UNCHANGED dispatchVars
         /\ Ledger!Next \/ UNCHANGED ledgerVars
<1>1. CASE StartCredit(q)
  <2> DEFINE r == target[q]
  <2>1. pc[q] = "credit" /\ Ledger!BeginCredit(q, Who(r), What(r), Declared[What(r)])
        /\ UNCHANGED dispatchVars
    BY <1>1 DEF StartCredit, Who, What
  <2>2. r \in Row /\ What(r) \in PayingJob
    BY <2>1 DEF Inv, Knows
  <2>3. Who(r) \in Courier /\ What(r) \in Job /\ Declared[What(r)] \in Pay
    BY <2>2, RowParts
  <2>4. Ledger!Next
    BY <2>1, <2>3 DEF Ledger!Next
  <2> QED BY <2>1, <2>4
<1>2. CASE CreditSaved(q) \/ CreditRepeated(q)
  <2>1. Half!Credited(q)
    BY <1>2 DEF CreditSaved, CreditRepeated, Half!Credited, Dispatch!Credited,
                Half!Continue, Dispatch!Continue
  <2>2. Ledger!SaveCredit(q) \/ Ledger!Drop(q)
    BY <1>2 DEF CreditSaved, CreditRepeated
  <2> QED BY <2>1, <2>2 DEF Half!Next, Half!Serve, Ledger!Next, Ledger!Write
<1>3. CASE CreditRefused(q) \/ CreditDies(q)
  <2>1. pc[q] # "idle"
    BY <1>3 DEF Inv, Knows, CreditRefused, CreditDies
  <2>2. Half!Die(q)
    BY <1>3, <2>1 DEF CreditRefused, CreditDies, Dispatch!Die, Half!Die, Half!Answer, Dispatch!Answer
  <2>3. Ledger!Drop(q) \/ UNCHANGED ledgerVars
    BY <1>3 DEF CreditRefused, CreditDies
  <2> QED BY <2>2, <2>3 DEF Half!Next, Ledger!Next
<1>4. CASE Acknowledge(q)
  <2>1. Half!PublishDelivery(q) /\ UNCHANGED ledgerVars
    BY <1>4 DEF Acknowledge, Half!PublishDelivery, Dispatch!PublishDelivery, Half!Emit, Dispatch!Emit,
       Half!Answer, Dispatch!Answer, Half!Who, Dispatch!Who, Half!What, Dispatch!What
  <2> QED BY <2>1 DEF Half!Next, Half!Serve
<1> QED BY <1>1, <1>2, <1>3, <1>4

\* Composing the halves adds nothing to either: every behaviour of the delivery
\* is one of the assignments, and one of the ledger.
THEOREM HalvesImplemented == Spec => ImplementsHalves
<1>1. Init => Half!Init /\ Ledger!Init
  BY DEF Init, Half!Init, Dispatch!Init, Half!Row, Dispatch!Row
<1>2. Inv /\ [Next]_vars => [Half!Next]_(Half!vars) /\ [Ledger!Next]_(Ledger!vars)
  <2> SUFFICES ASSUME Inv, [Next]_vars
               PROVE  /\ Half!Next \/ UNCHANGED dispatchVars
                      /\ Ledger!Next \/ UNCHANGED ledgerVars
    BY DEF Half!vars, Ledger!vars, dispatchVars, ledgerVars
  <2>1. CASE DispatchAlone
    BY <2>1, AloneImplements DEF DispatchAlone
  <2>2. CASE LedgerAlone
    BY <2>2, LedgerAloneImplements DEF LedgerAlone
  <2>3. CASE \E q \in Request :
               \/ StartCredit(q) \/ CreditSaved(q) \/ CreditRepeated(q)
               \/ CreditRefused(q) \/ CreditDies(q) \/ Acknowledge(q)
    BY <2>3, CreditImplements
  <2>4. CASE (\E r \in Dispatch!Row : AckRepeat(r)) \/ UNCHANGED vars
    BY <2>4 DEF AckRepeat, vars
  <2> QED BY <2>1, <2>2, <2>3, <2>4 DEF Next
<1> QED
  BY <1>1, <1>2, InvHolds, PTL DEF Spec, ImplementsHalves, Half!Spec, Ledger!Spec
=============================================================================
