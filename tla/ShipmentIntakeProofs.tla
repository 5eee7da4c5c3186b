------------------------ MODULE ShipmentIntakeProofs ------------------------
(***************************************************************************)
(* What TLAPS proves of ShipmentIntake, for any number of attempts at the  *)
(* booking, of requests at work, and whoever of them may fail.             *)
(***************************************************************************)
EXTENDS ShipmentIntake, TLAPS

Saving == {"pay", "hand_over", "clear", "cancel", "reschedule", "override"}

\* What the writers make of a row is a row; the absent row is none.
LEMMA RowsTyped ==
  ASSUME NEW r \in Row
  PROVE  /\ r.status \in Status /\ r.payment \in Payment /\ r.held \in BOOLEAN
         /\ \A x \in Status : [r EXCEPT !.status = x] \in Row
                              /\ [r EXCEPT !.status = x].status = x
                              /\ [r EXCEPT !.status = x].payment = r.payment
                              /\ [r EXCEPT !.status = x].held = r.held
         /\ [r EXCEPT !.payment = "paid"] \in Row
         /\ [r EXCEPT !.payment = "paid"].status = r.status
         /\ [r EXCEPT !.payment = "paid"].held = r.held
         /\ [r EXCEPT !.held = FALSE] \in Row
         /\ [r EXCEPT !.held = FALSE].status = r.status
         /\ ~[r EXCEPT !.held = FALSE].held
         /\ r # NoRow
<1>1. r.status \in Status /\ r.payment \in Payment /\ r.held \in BOOLEAN
  BY DEF Row
<1>2. r # NoRow
  BY <1>1 DEF NoRow, Status
<1>3. ASSUME NEW x \in Status
      PROVE  /\ [r EXCEPT !.status = x] \in Row
             /\ [r EXCEPT !.status = x].status = x
             /\ [r EXCEPT !.status = x].payment = r.payment
             /\ [r EXCEPT !.status = x].held = r.held
  BY DEF Row
<1>4. /\ [r EXCEPT !.payment = "paid"] \in Row
      /\ [r EXCEPT !.payment = "paid"].status = r.status
      /\ [r EXCEPT !.payment = "paid"].held = r.held
  BY DEF Row, Payment
<1>5. /\ [r EXCEPT !.held = FALSE] \in Row
      /\ [r EXCEPT !.held = FALSE].status = r.status
      /\ ~[r EXCEPT !.held = FALSE].held
  BY DEF Row
<1> QED BY <1>1, <1>2, <1>3, <1>4, <1>5

LEMMA CancelledTyped ==
  ASSUME NEW r \in Row
  PROVE  Cancelled(r) \in Row /\ Cancelled(r).status = "cancelled" /\ Cancelled(r).held = r.held
<1>1. "cancelled" \in Status
  BY DEF Status
<1> QED BY <1>1, RowsTyped DEF Cancelled

\* A step of an attempt keeps every variable in its type.
LEMMA CreateTypes ==
  ASSUME TypeOK, NEW s \in Shipment, Create(s)
  PROVE  TypeOK'
<1> USE DEF Books, book_vars, task_vars, ghosts
<1>1. ASSUME NEW existing \in Shipment, Replay(s, existing)
      PROVE  TypeOK'
  BY <1>1 DEF Replay, TypeOK, BookStep
<1>2. CASE CheckKey(s)
  BY <1>2 DEF CheckKey, TypeOK, BookStep
<1>3. CASE Redeem(s) \/ RedeemRefused(s)
  BY <1>3 DEF Redeem, RedeemRefused, TypeOK, BookStep
<1>4. CASE OpenIntent(s) \/ IntentFails(s)
  BY <1>4 DEF OpenIntent, IntentFails, TypeOK, BookStep
<1>5. CASE SaveRow(s)
  <2>1. [status |-> "pending",
         payment |-> IF online THEN "awaiting_payment" ELSE "not_required",
         held |-> online] \in Row
    BY DEF Row, Status, Payment, TypeOK
  <2> QED BY <1>5, <2>1 DEF SaveRow, TypeOK, BookStep
<1>6. CASE SaveFails(s) \/ PiecesFail(s) \/ SavePieces(s)
  BY <1>6 DEF SaveFails, PiecesFail, SavePieces, TypeOK, BookStep
<1>7. CASE PublishCreated(s)
  BY <1>7 DEF PublishCreated, TypeOK, BookStep
<1>8. CASE Release(s) \/ Abandon(s)
  BY <1>8 DEF Release, Abandon, TypeOK, BookStep
<1> QED BY <1>1, <1>2, <1>3, <1>4, <1>5, <1>6, <1>7, <1>8 DEF Create

\* The save of a copy leaves a typed row, and typed ghosts.
LEMMA SavesTyped ==
  ASSUME TypeOK, NEW t \in Task, at[t] # "idle", NEW r \in Row, Saves(t, r)
  PROVE  /\ row' \in [Shipment -> Row \cup {NoRow}]
         /\ outdated' \subseteq Task /\ clobbered' \subseteq Shipment
BY DEF TypeOK, Saves, Writes, Behind

\* What a task holds from one await to the next.
TasksTyped ==
  /\ at \in [Task -> Step]
  /\ on \in [Task -> Shipment \cup {None}]
  /\ copy \in [Task -> Row \cup {NoRow}]
  /\ \A t \in Task : at[t] # "idle" => on[t] \in Shipment
  /\ \A t \in Task : at[t] \notin {"idle", "look", "announce"} => copy[t] \in Row

LEMMA ReadsTyped ==
  ASSUME TasksTyped, NEW t \in Task, NEW s \in Shipment, NEW step \in Step,
         NEW r \in Row \cup {NoRow}, step \in {"look", "announce"} \/ r \in Row,
         Reads(t, s, step, r)
  PROVE  TasksTyped'
BY DEF TasksTyped, Reads

LEMMA TurnsTyped ==
  ASSUME TasksTyped, NEW t \in Task, NEW from \in Step \ {"idle"}, NEW to \in Step,
         NEW r \in Row, Turns(t, from, to, r)
  PROVE  TasksTyped' /\ copy'[t] = r
BY DEF TasksTyped, Turns

LEMMA EndsTyped ==
  ASSUME TasksTyped, NEW t \in Task, Ends(t)
  PROVE  TasksTyped'
BY DEF TasksTyped, Ends, Step

\* cancel's save and its event, of any task.
LEMMA CancelTypes ==
  ASSUME TypeOK, NEW t \in Task, SaveCancel(t) \/ Announce(t)
  PROVE  TypeOK'
<1> USE DEF book_vars, task_vars, ghosts
<1>0. TasksTyped
  BY DEF TypeOK, TasksTyped
<1>1. CASE SaveCancel(t)
  <2>1. at[t] = "cancel" /\ copy[t] \in Row
    BY <1>0, <1>1 DEF SaveCancel, Turns, TasksTyped
  <2>2. TasksTyped'
    BY <1>0, <1>1, <2>1, TurnsTyped DEF SaveCancel, Step
  <2>3. /\ row' \in [Shipment -> Row \cup {NoRow}]
        /\ outdated' \subseteq Task /\ clobbered' \subseteq Shipment
    BY <1>1, <2>1, SavesTyped DEF SaveCancel
  <2> QED BY <1>1, <2>2, <2>3 DEF TypeOK, TasksTyped, SaveCancel
<1>2. CASE Announce(t)
  <2>1. TasksTyped' /\ on[t] \in Shipment
    BY <1>0, <1>2, EndsTyped DEF Announce, TasksTyped
  <2> QED BY <1>2, <2>1 DEF TypeOK, TasksTyped, Announce, Commits
<1> QED BY <1>1, <1>2

\* A step of the payment consumer keeps every variable in its type.
LEMMA ConsumeTypes ==
  ASSUME TypeOK, Consume \/ CapturedFails
  PROVE  TypeOK'
<1> USE DEF book_vars, task_vars, ghosts
<1>0. Consumer \in Task /\ TasksTyped
  BY DEF Task, TypeOK, TasksTyped
<1>1. CASE SavePaid
  <2> DEFINE r == [copy[Consumer] EXCEPT !.payment = "paid"]
  <2>1. at[Consumer] = "pay" /\ r \in Row
    BY <1>0, <1>1, RowsTyped DEF SavePaid, Turns, TasksTyped
  <2> HIDE DEF r
  <2>2. TasksTyped' /\ copy'[Consumer] = r
    BY <1>0, <1>1, <2>1, TurnsTyped DEF SavePaid, Step, r
  <2>3. /\ row' \in [Shipment -> Row \cup {NoRow}]
        /\ outdated' \subseteq Task /\ clobbered' \subseteq Shipment
    BY <1>0, <1>1, <2>1, <2>2, SavesTyped DEF SavePaid
  <2> QED BY <1>1, <2>2, <2>3 DEF TypeOK, TasksTyped, SavePaid
<1>2. CASE HandOver
  <2> DEFINE r == [copy[Consumer] EXCEPT !.held = FALSE]
  <2>1. at[Consumer] = "hand_over" /\ r \in Row /\ on[Consumer] \in Shipment
    BY <1>0, <1>2, RowsTyped DEF HandOver, Turns, TasksTyped
  <2> HIDE DEF r
  <2>2. TasksTyped'
    BY <1>0, <1>2, <2>1, TurnsTyped DEF HandOver, Step, r
  <2> QED BY <1>2, <2>1, <2>2 DEF TypeOK, TasksTyped, HandOver
<1>3. CASE ClearHeld
  <2>1. at[Consumer] = "clear" /\ copy[Consumer] \in Row
    BY <1>0, <1>3 DEF ClearHeld, TasksTyped
  <2>2. /\ row' \in [Shipment -> Row \cup {NoRow}]
        /\ outdated' \subseteq Task /\ clobbered' \subseteq Shipment
    BY <1>0, <1>3, <2>1, SavesTyped DEF ClearHeld
  <2>3. TasksTyped'
    BY <1>0, <1>3, EndsTyped DEF ClearHeld
  <2> QED BY <1>3, <2>2, <2>3 DEF TypeOK, TasksTyped, ClearHeld, Commits
<1>4. CASE CapturedFails
  <2>1. TasksTyped' /\ on[Consumer] \in Shipment
    BY <1>0, <1>4, EndsTyped DEF CapturedFails, TasksTyped
  <2>2. todo' \subseteq verdict /\ passed' \subseteq verdict
    BY <1>4 DEF CapturedFails, Fails, TypeOK
  <2> QED BY <1>4, <2>1, <2>2 DEF TypeOK, TasksTyped, CapturedFails
<1>5. CASE LookAgain
  <2> DEFINE r == Cancelled(row[on[Consumer]])
  <2>1. at[Consumer] = "look" /\ on[Consumer] \in Shipment /\ row[on[Consumer]] # NoRow
    BY <1>0, <1>5 DEF LookAgain, TasksTyped, CanCancel, NoRow
  <2>2. r \in Row
    <3>1. row[on[Consumer]] \in Row
      BY <2>1 DEF TypeOK
    <3> QED BY <3>1, CancelledTyped
  <2> HIDE DEF r
  <2>3. TasksTyped'
    BY <1>0, <1>5, <2>2, TurnsTyped DEF LookAgain, Step, r
  <2> QED BY <1>5, <2>3 DEF TypeOK, TasksTyped, LookAgain
<1>6. CASE LookRefused
  <2>1. TasksTyped'
    BY <1>0, <1>6, EndsTyped DEF LookRefused
  <2> QED BY <1>6, <2>1 DEF TypeOK, TasksTyped, LookRefused, Fails
<1>7. CASE SaveCancel(Consumer) \/ Announce(Consumer)
  BY <1>0, <1>7, CancelTypes
<1> QED BY <1>1, <1>2, <1>3, <1>4, <1>5, <1>6, <1>7 DEF Consume

\* The start of a handler or of a request.
LEMMA TakeTypes ==
  ASSUME TypeOK, NEW s \in Shipment, Take(s)
  PROVE  TypeOK'
<1> USE DEF book_vars, task_vars, ghosts
<1>0. Consumer \in Task /\ TasksTyped /\ row[s] \in Row \cup {NoRow}
  BY DEF Task, TypeOK, TasksTyped
<1>1. CASE TakeCaptured(s)
  <2>1. row[s] \in Row
    BY <1>0, <1>1 DEF TakeCaptured, NoRow
  <2>2. TasksTyped'
    BY <1>0, <1>1, <2>1, ReadsTyped DEF TakeCaptured, Step
  <2> QED BY <1>1, <2>2 DEF TypeOK, TasksTyped, TakeCaptured
<1>2. CASE TakeFailed(s)
  <2>1. TasksTyped'
    BY <1>0, <1>2, ReadsTyped DEF TakeFailed, Step
  <2> QED BY <1>2, <2>1 DEF TypeOK, TasksTyped, TakeFailed
<1>3. CASE SkipCaptured(s) \/ SkipFailed(s)
  BY <1>3 DEF TypeOK, SkipCaptured, SkipFailed
<1> QED BY <1>1, <1>2, <1>3 DEF Take

LEMMA ServeTypes ==
  ASSUME TypeOK, NEW d \in Desk, Serve(d)
  PROVE  TypeOK'
<1> USE DEF book_vars, task_vars, ghosts
<1>0. d \in Task /\ TasksTyped
  BY DEF Task, TypeOK, TasksTyped
<1>1. ASSUME NEW s \in Shipment, ReadCancel(d, s)
      PROVE  TypeOK'
  <2>1. row[s] \in Row
    BY <1>1 DEF ReadCancel, Booked, TypeOK
  <2>2. Cancelled(row[s]) \in Row
    BY <2>1, CancelledTyped
  <2>3. TasksTyped'
    BY <1>0, <1>1, <2>2, ReadsTyped DEF ReadCancel, Step
  <2> QED BY <1>1, <2>3 DEF TypeOK, TasksTyped, ReadCancel
<1>2. ASSUME NEW s \in Shipment, ReadReschedule(d, s)
      PROVE  TypeOK'
  <2>1. row[s] \in Row /\ "confirmed" \in Status
    BY <1>2 DEF ReadReschedule, NoRow, TypeOK, Status
  <2>2. [row[s] EXCEPT !.status = "confirmed"] \in Row
    BY <2>1, RowsTyped
  <2>3. TasksTyped'
    BY <1>0, <1>2, <2>2, ReadsTyped DEF ReadReschedule, Step
  <2> QED BY <1>2, <2>3 DEF TypeOK, TasksTyped, ReadReschedule
<1>3. ASSUME NEW s \in Shipment, NEW status \in Override, ReadOverride(d, s, status)
      PROVE  TypeOK'
  <2>1. row[s] \in Row /\ status \in Status
    BY <1>3, OverrideAssumption DEF ReadOverride, Booked, TypeOK
  <2>2. [row[s] EXCEPT !.status = status] \in Row
    BY <2>1, RowsTyped
  <2>3. TasksTyped'
    BY <1>0, <1>3, <2>2, ReadsTyped DEF ReadOverride, Step
  <2> QED BY <1>3, <2>3 DEF TypeOK, TasksTyped, ReadOverride
<1>4. ASSUME NEW s \in Shipment, SweepExpired(d, s)
      PROVE  TypeOK'
  <2>1. row[s] \in Row
    BY <1>4 DEF SweepExpired, NoRow, TypeOK
  <2>2. Cancelled(row[s]) \in Row
    BY <2>1, CancelledTyped
  <2>3. TasksTyped'
    BY <1>0, <1>4, ReadsTyped DEF SweepExpired, Step
  <2> QED BY <1>4, <2>2, <2>3 DEF TypeOK, TasksTyped, SweepExpired, Updates, Writes
<1>5. CASE SaveCancel(d) \/ Announce(d)
  BY <1>0, <1>5, CancelTypes
<1>6. CASE SaveStatus(d)
  <2>1. at[d] # "idle" /\ copy[d] \in Row /\ on[d] \in Shipment
    BY <1>0, <1>6 DEF SaveStatus, TasksTyped
  <2>2. /\ row' \in [Shipment -> Row \cup {NoRow}]
        /\ outdated' \subseteq Task /\ clobbered' \subseteq Shipment
    BY <1>0, <1>6, <2>1, SavesTyped DEF SaveStatus
  <2>3. TasksTyped'
    BY <1>0, <1>6, EndsTyped DEF SaveStatus
  <2> QED BY <1>6, <2>1, <2>2, <2>3 DEF TypeOK, TasksTyped, SaveStatus
<1> QED BY <1>1, <1>2, <1>3, <1>4, <1>5, <1>6 DEF Serve

\* A report is of a shipment that is there.
LEMMA ProgressTypes ==
  ASSUME TypeOK, NEW s \in Shipment, NEW to \in Reported, Progress(s, to)
  PROVE  TypeOK'
<1>1. row[s] \in Row /\ to \in Status
  BY DEF Progress, Booked, TypeOK, Reported, Status
<1>2. [row[s] EXCEPT !.status = to] \in Row
  BY <1>1, RowsTyped
<1> QED BY <1>2 DEF TypeOK, Progress, Updates, Writes, book_vars, task_vars

\* Every step keeps every variable in its type.
LEMMA TypeStep ==
  ASSUME TypeOK, [Next]_vars
  PROVE  TypeOK'
<1>1. CASE UNCHANGED vars
  BY <1>1 DEF TypeOK, vars, book_vars, task_vars, ghosts
<1>2. ASSUME NEW s \in Shipment, Create(s)
      PROVE  TypeOK'
  BY <1>2, CreateTypes
<1>3. ASSUME NEW s \in Shipment, Take(s)
      PROVE  TypeOK'
  BY <1>3, TakeTypes
<1>4. ASSUME NEW s \in Shipment, NEW to \in Reported, Progress(s, to)
      PROVE  TypeOK'
  BY <1>4, ProgressTypes
<1>5. CASE Payments
  <2> USE DEF TypeOK, book_vars, task_vars, ghosts
  <2>1. ASSUME NEW k \in {"captured", "failed"}, NEW s \in Shipment, Decides(k, s)
        PROVE  TypeOK'
    <3>1. verdict' \subseteq {"captured", "failed"} \X Shipment /\ todo' \subseteq verdict'
      BY <2>1 DEF Decides
    <3>2. passed' \subseteq verdict'
      BY <2>1 DEF Decides
    <3> QED BY <2>1, <3>1, <3>2 DEF Decides
  <2>2. ASSUME NEW m \in verdict, Redeliver(m)
        PROVE  TypeOK'
    BY <2>2 DEF Redeliver
  <2> QED BY <1>5, <2>1, <2>2 DEF Payments, Pay, Expire
<1>6. CASE Consume \/ CapturedFails
  BY <1>6, ConsumeTypes
<1>7. ASSUME NEW d \in Desk, Serve(d)
      PROVE  TypeOK'
  BY <1>7, ServeTypes
<1>8. ASSUME NEW t \in Task, Gives(t)
      PROVE  TypeOK'
  <2>1. TasksTyped'
    BY <1>8, EndsTyped DEF Gives, TypeOK, TasksTyped
  <2>2. todo' \subseteq verdict /\ passed' \subseteq verdict
    BY <1>8 DEF Gives, Fails, TypeOK
  <2> QED BY <1>8, <2>1, <2>2 DEF TypeOK, TasksTyped, Gives, book_vars
<1> QED BY <1>1, <1>2, <1>3, <1>4, <1>5, <1>6, <1>7, <1>8 DEF Next

\* Every reachable state is well typed: in particular a task that is about to
\* save holds a row, never the absence of one.
THEOREM TypeCorrect == Spec => []TypeOK
<1>1. Init => TypeOK
  BY DEF Init, TypeOK, BookStep, Step
<1> QED BY <1>1, TypeStep, PTL DEF Spec

-----------------------------------------------------------------------------
(* What is booked stays, what is held stays with it.                       *)

\* A task is about a shipment that is there.
OnBooked == \A t \in Task : at[t] # "idle" => Booked(on[t])

\* So is an attempt past its save; only a booking that needs no payment gets to
\* publish.
PastSave ==
  \A s \in Shipment : /\ book[s] \in {"pieces", "publish"} => Booked(s)
                      /\ book[s] = "publish" => ~online

\* The consumer hands over what was captured, and has when it clears.
Handing ==
  /\ at[Consumer] \in {"pay", "hand_over", "clear"} => <<"captured", on[Consumer]>> \in verdict
  /\ at[Consumer] = "clear" => on[Consumer] \in out

\* No copy about to be saved lacks events that are not out.
Holding == online => \A t \in Task : at[t] \in Saving => copy[t].held \/ on[t] \in out

Kept == /\ OnBooked /\ PastSave /\ Handing /\ Holding
        /\ BookedOnce /\ UnpaidNeverDispatched /\ HeldUntilOut

\* The rows are those that were there, with what they held.
SameRows ==
  /\ \A x \in Shipment : Booked(x)' <=> Booked(x)
  /\ online => \A x \in Shipment : Booked(x) => row'[x].held \/ x \in out

LEMMA SavesKeep ==
  ASSUME TypeOK, Kept, NEW t \in Task, at[t] # "idle", NEW r \in Row, Saves(t, r),
         online => r.held \/ on[t] \in out
  PROVE  SameRows
<1>1. r # NoRow
  BY RowsTyped
<1>2. on[t] \in Shipment /\ Booked(on[t])
  BY DEF TypeOK, Kept, OnBooked
<1>3. row' = [row EXCEPT ![on[t]] = r]
  BY DEF Saves, Writes
<1> QED BY <1>1, <1>2, <1>3 DEF SameRows, Booked, TypeOK, Kept, HeldUntilOut

LEMMA UpdatesKeep ==
  ASSUME TypeOK, Kept, NEW s \in Shipment, Booked(s), NEW r \in Row, Updates(s, r),
         r.held = row[s].held
  PROVE  SameRows
<1>1. r # NoRow
  BY RowsTyped
<1>2. row' = [row EXCEPT ![s] = r]
  BY DEF Updates, Writes
<1> QED BY <1>1, <1>2 DEF SameRows, Booked, TypeOK, Kept, HeldUntilOut

LEMMA SameRowsIfUnchanged ==
  ASSUME Kept, UNCHANGED row
  PROVE  SameRows
BY DEF SameRows, Booked, Kept, HeldUntilOut

\* A step that leaves the rows as they are, but for what is written on them,
\* keeps what is said of the attempts.
LEMMA AttemptsKept ==
  ASSUME TypeOK, TypeOK', Kept, SameRows, UNCHANGED <<online, book_vars>>,
         verdict \subseteq verdict', out \subseteq out',
         \A s \in out' \ out : Booked(s) /\ <<"captured", s>> \in verdict
  PROVE  PastSave' /\ BookedOnce' /\ UnpaidNeverDispatched' /\ HeldUntilOut'
<1> USE DEF Kept, SameRows, book_vars
<1>1. \A x \in Shipment : Booked(x)' <=> Booked(x)
  OBVIOUS
<1> HIDE DEF SameRows
<1>2. PastSave'
  BY <1>1 DEF PastSave, TypeOK
<1>3. BookedOnce'
  BY <1>1 DEF BookedOnce, TypeOK
<1>4. UnpaidNeverDispatched'
  BY <1>1 DEF UnpaidNeverDispatched, TypeOK
<1>5. HeldUntilOut'
  BY <1>1 DEF HeldUntilOut, SameRows
<1> QED BY <1>2, <1>3, <1>4, <1>5

\* A task that turns or ends keeps what is said of the tasks.
LEMMA TurnKept ==
  ASSUME TypeOK, Kept, SameRows, UNCHANGED <<online, verdict>>, out \subseteq out',
         NEW t \in Task, at[t] # "idle", NEW to \in Step, NEW r, Turns(t, at[t], to, r),
         to \in Saving => (online => r.held \/ on[t] \in out'),
         to \in {"pay", "hand_over", "clear"} => at[t] \in {"pay", "hand_over"},
         to = "clear" => on[t] \in out'
  PROVE  OnBooked' /\ Handing' /\ Holding'
<1>1. \A x \in Shipment : Booked(x)' <=> Booked(x)
  BY DEF SameRows
<1>2. UNCHANGED on /\ at' = [at EXCEPT ![t] = to] /\ copy' = [copy EXCEPT ![t] = r]
  BY DEF Turns
<1>3. OnBooked'
  BY <1>1, <1>2 DEF Kept, OnBooked, TypeOK
<1>4. Handing'
  BY <1>2 DEF Kept, Handing, TypeOK, Task
<1>5. Holding'
  BY <1>2 DEF Kept, Holding, TypeOK
<1> QED BY <1>3, <1>4, <1>5

LEMMA EndKept ==
  ASSUME TypeOK, Kept, SameRows, UNCHANGED online, verdict \subseteq verdict',
         out \subseteq out', NEW t \in Task, Ends(t)
  PROVE  OnBooked' /\ Handing' /\ Holding'
<1>1. \A x \in Shipment : Booked(x)' <=> Booked(x)
  BY DEF SameRows
<1>2. /\ at' = [at EXCEPT ![t] = "idle"] /\ on' = [on EXCEPT ![t] = None]
      /\ copy' = [copy EXCEPT ![t] = NoRow]
  BY DEF Ends
<1>3. OnBooked'
  BY <1>1, <1>2 DEF Kept, OnBooked, TypeOK
<1>4. Handing'
  BY <1>2 DEF Kept, Handing, TypeOK, Task
<1>5. Holding'
  BY <1>2 DEF Kept, Holding, TypeOK, Saving
<1> QED BY <1>3, <1>4, <1>5

LEMMA ReadKept ==
  ASSUME TypeOK, Kept, SameRows, UNCHANGED <<online, verdict, out>>,
         NEW t \in Task, NEW s \in Shipment, Booked(s), NEW step \in Step, NEW r,
         Reads(t, s, step, r),
         step \in Saving => (online => r.held \/ s \in out),
         step \in {"pay", "hand_over", "clear"} => <<"captured", s>> \in verdict,
         step # "clear"
  PROVE  OnBooked' /\ Handing' /\ Holding'
<1>1. \A x \in Shipment : Booked(x)' <=> Booked(x)
  BY DEF SameRows
<1>2. /\ at' = [at EXCEPT ![t] = step] /\ on' = [on EXCEPT ![t] = s]
      /\ copy' = [copy EXCEPT ![t] = r]
  BY DEF Reads
<1>3. OnBooked'
  BY <1>1, <1>2 DEF Kept, OnBooked, TypeOK
<1>4. Handing'
  BY <1>2 DEF Kept, Handing, TypeOK, Task
<1>5. Holding'
  BY <1>2 DEF Kept, Holding, TypeOK
<1> QED BY <1>3, <1>4, <1>5

\* An attempt books, once, and publishes what it booked and what is owed no fee.
LEMMA CreateKept ==
  ASSUME TypeOK, TypeOK', Kept, NEW s \in Shipment, Create(s)
  PROVE  Kept'
<1> USE DEF Books, book_vars, task_vars, ghosts
<1>1. ASSUME UNCHANGED <<online, row, verdict, task_vars>>, out \subseteq out'
      PROVE  OnBooked' /\ Handing' /\ Holding'
  BY <1>1 DEF Kept, OnBooked, Handing, Holding, Booked
<1>2. CASE SaveRow(s)
  <2> DEFINE r == [status |-> "pending",
                   payment |-> IF online THEN "awaiting_payment" ELSE "not_required",
                   held |-> online]
  <2>1. row' = [row EXCEPT ![s] = r] /\ \A x \in Shipment : ~Booked(x)
    BY <1>2 DEF SaveRow, Unbooked
  <2>2. r # NoRow /\ (online => r.held)
    BY DEF NoRow
  <2> HIDE DEF r
  <2>3. row'[s] = r /\ \A x \in Shipment : Booked(x)' <=> x = s
    BY <2>1, <2>2 DEF Booked, TypeOK
  <2>4. \A t \in Task : at[t] = "idle"
    BY <2>1 DEF Kept, OnBooked, TypeOK
  <2>5. OnBooked' /\ Handing' /\ Holding'
    BY <1>2, <2>4 DEF SaveRow, OnBooked, Handing, Holding, Saving, Task
  <2>6. PastSave'
    BY <1>2, <2>1, <2>3 DEF SaveRow, Kept, PastSave, TypeOK
  <2>7. BookedOnce'
    BY <1>2, <2>1, <2>3 DEF SaveRow, Kept, BookedOnce, TypeOK
  <2>8. UnpaidNeverDispatched' /\ HeldUntilOut'
    BY <1>2, <2>1, <2>2, <2>3 DEF SaveRow, Kept, UnpaidNeverDispatched, HeldUntilOut, TypeOK
  <2> QED BY <2>5, <2>6, <2>7, <2>8 DEF Kept
<1>3. ASSUME UNCHANGED <<row, verdict, online>>, out \subseteq out'
      PROVE  (\A x \in Shipment : Booked(x)' <=> Booked(x)) /\ HeldUntilOut'
  BY <1>3 DEF Booked, Kept, HeldUntilOut
<1>4. ASSUME NEW existing \in Shipment, Replay(s, existing)
      PROVE  Kept'
  <2>1. OnBooked' /\ Handing' /\ Holding' /\ UnpaidNeverDispatched' /\ HeldUntilOut'
    BY <1>1, <1>3, <1>4 DEF Replay, Kept, UnpaidNeverDispatched, Booked
  <2>2. PastSave' /\ BookedOnce'
    BY <1>4 DEF Replay, Kept, PastSave, BookedOnce, Booked, TypeOK
  <2> QED BY <2>1, <2>2 DEF Kept
<1>5. CASE CheckKey(s) \/ Redeem(s) \/ RedeemRefused(s) \/ OpenIntent(s) \/ IntentFails(s)
  <2> USE DEF CheckKey, Redeem, RedeemRefused, OpenIntent, IntentFails
  <2>1. OnBooked' /\ Handing' /\ Holding' /\ UnpaidNeverDispatched' /\ HeldUntilOut'
    BY <1>1, <1>3, <1>5 DEF Kept, UnpaidNeverDispatched, Booked
  <2>2. PastSave' /\ BookedOnce'
    BY <1>5 DEF Kept, PastSave, BookedOnce, Booked, TypeOK
  <2> QED BY <2>1, <2>2 DEF Kept
<1>6. CASE SaveFails(s) \/ SavePieces(s) \/ PiecesFail(s) \/ Release(s) \/ Abandon(s)
  <2> USE DEF SaveFails, SavePieces, PiecesFail, Release, Abandon
  <2>1. OnBooked' /\ Handing' /\ Holding' /\ UnpaidNeverDispatched' /\ HeldUntilOut'
    BY <1>1, <1>3, <1>6 DEF Kept, UnpaidNeverDispatched, Booked
  <2>2. PastSave' /\ BookedOnce'
    BY <1>6 DEF Kept, PastSave, BookedOnce, Booked, TypeOK
  <2> QED BY <2>1, <2>2 DEF Kept
<1>7. CASE PublishCreated(s)
  <2>1. Booked(s) /\ ~online /\ out \subseteq out' /\ out' \subseteq out \cup {s}
    BY <1>7 DEF PublishCreated, Kept, PastSave
  <2>2. OnBooked' /\ Handing' /\ Holding' /\ HeldUntilOut'
    BY <1>1, <1>3, <1>7, <2>1 DEF PublishCreated
  <2>3. UnpaidNeverDispatched'
    BY <1>7, <2>1 DEF PublishCreated, Kept, UnpaidNeverDispatched, Booked
  <2>4. PastSave' /\ BookedOnce'
    BY <1>7, <2>1 DEF PublishCreated, Kept, PastSave, BookedOnce, Booked, TypeOK
  <2> QED BY <2>2, <2>3, <2>4 DEF Kept
<1> QED BY <1>2, <1>4, <1>5, <1>6, <1>7 DEF Create

\* Nor does a cancellation drop what is held.
LEMMA CancelKept ==
  ASSUME TypeOK, TypeOK', Kept, NEW t \in Task, SaveCancel(t) \/ Announce(t)
  PROVE  Kept'
<1> USE DEF book_vars, task_vars, ghosts
<1>1. CASE SaveCancel(t)
  <2>1. at[t] = "cancel" /\ copy[t] \in Row
    BY <1>1 DEF SaveCancel, Turns, TypeOK
  <2>2. online => copy[t].held \/ on[t] \in out
    BY <2>1 DEF Kept, Holding, Saving
  <2>3. SameRows
    BY <1>1, <2>1, <2>2, SavesKeep DEF SaveCancel
  <2>4. OnBooked' /\ Handing' /\ Holding'
    BY <1>1, <2>1, <2>3, TurnKept DEF SaveCancel, Step, Saving
  <2>5. PastSave' /\ BookedOnce' /\ UnpaidNeverDispatched' /\ HeldUntilOut'
    BY <1>1, <2>3, AttemptsKept DEF SaveCancel
  <2> QED BY <2>4, <2>5 DEF Kept
<1>2. CASE Announce(t)
  <2>1. SameRows
    BY <1>2, SameRowsIfUnchanged DEF Announce
  <2>2. OnBooked' /\ Handing' /\ Holding'
    BY <1>2, <2>1, EndKept DEF Announce
  <2>3. PastSave' /\ BookedOnce' /\ UnpaidNeverDispatched' /\ HeldUntilOut'
    BY <1>2, <2>1, AttemptsKept DEF Announce
  <2> QED BY <2>2, <2>3 DEF Kept
<1> QED BY <1>1, <1>2

\* The payment consumer hands over what was paid and drops what is out.
LEMMA ConsumeKept ==
  ASSUME TypeOK, TypeOK', Kept, Consume \/ CapturedFails
  PROVE  Kept'
<1> USE DEF book_vars, task_vars, ghosts
<1>0. Consumer \in Task
  BY DEF Task
<1>1. CASE SavePaid
  <2> DEFINE r == [copy[Consumer] EXCEPT !.payment = "paid"]
  <2>1. at[Consumer] = "pay" /\ copy[Consumer] \in Row
    BY <1>0, <1>1 DEF SavePaid, Turns, TypeOK
  <2>2. r \in Row /\ r.held = copy[Consumer].held
    BY <2>1, RowsTyped
  <2> HIDE DEF r
  <2>3. copy'[Consumer] = r /\ Turns(Consumer, at[Consumer], "hand_over", r)
    BY <1>0, <1>1, <2>1 DEF SavePaid, Turns, TypeOK, r
  <2>4. online => r.held \/ on[Consumer] \in out
    BY <1>0, <2>1, <2>2 DEF Kept, Holding, Saving
  <2>5. SameRows
    BY <1>0, <1>1, <2>1, <2>2, <2>3, <2>4, SavesKeep DEF SavePaid
  <2>6. OnBooked' /\ Handing' /\ Holding'
    BY <1>0, <1>1, <2>1, <2>3, <2>4, <2>5, TurnKept DEF SavePaid, Step
  <2>7. PastSave' /\ BookedOnce' /\ UnpaidNeverDispatched' /\ HeldUntilOut'
    BY <1>1, <2>5, AttemptsKept DEF SavePaid
  <2> QED BY <2>6, <2>7 DEF Kept
<1>2. CASE HandOver
  <2> DEFINE r == [copy[Consumer] EXCEPT !.held = FALSE]
  <2>1. at[Consumer] = "hand_over" /\ Turns(Consumer, at[Consumer], "clear", r)
    BY <1>2 DEF HandOver, Turns
  <2>2. Booked(on[Consumer]) /\ <<"captured", on[Consumer]>> \in verdict
    BY <1>0, <2>1 DEF Kept, OnBooked, Handing
  <2> HIDE DEF r
  <2>3. SameRows
    BY <1>2, SameRowsIfUnchanged DEF HandOver
  <2>4. OnBooked' /\ Handing' /\ Holding'
    BY <1>0, <1>2, <2>1, <2>3, TurnKept DEF HandOver, Step
  <2>5. PastSave' /\ BookedOnce' /\ UnpaidNeverDispatched' /\ HeldUntilOut'
    BY <1>2, <2>2, <2>3, AttemptsKept DEF HandOver
  <2> QED BY <2>4, <2>5 DEF Kept
<1>3. CASE ClearHeld
  <2>1. at[Consumer] = "clear" /\ copy[Consumer] \in Row /\ on[Consumer] \in out
    BY <1>0, <1>3 DEF ClearHeld, TypeOK, Kept, Handing
  <2>2. SameRows
    BY <1>0, <1>3, <2>1, SavesKeep DEF ClearHeld
  <2>3. OnBooked' /\ Handing' /\ Holding'
    BY <1>0, <1>3, <2>2, EndKept DEF ClearHeld
  <2>4. PastSave' /\ BookedOnce' /\ UnpaidNeverDispatched' /\ HeldUntilOut'
    BY <1>3, <2>2, AttemptsKept DEF ClearHeld
  <2> QED BY <2>3, <2>4 DEF Kept
<1>4. CASE CapturedFails
  <2>1. SameRows
    BY <1>4, SameRowsIfUnchanged DEF CapturedFails
  <2>2. \A s \in out' \ out : Booked(s) /\ <<"captured", s>> \in verdict
    BY <1>0, <1>4 DEF CapturedFails, Kept, OnBooked, Handing
  <2>3. OnBooked' /\ Handing' /\ Holding'
    BY <1>0, <1>4, <2>1, EndKept DEF CapturedFails
  <2>4. PastSave' /\ BookedOnce' /\ UnpaidNeverDispatched' /\ HeldUntilOut'
    BY <1>4, <2>1, <2>2, AttemptsKept DEF CapturedFails
  <2> QED BY <2>3, <2>4 DEF Kept
<1>5. CASE LookAgain
  <2> DEFINE s == on[Consumer]
             r == Cancelled(row[s])
  <2>1. at[Consumer] = "look" /\ s \in Shipment /\ row[s] \in Row
    BY <1>0, <1>5 DEF LookAgain, TypeOK, Kept, OnBooked, Booked
  <2>2. r.held = row[s].held
    BY <2>1, CancelledTyped
  <2>3. online => r.held \/ s \in out
    BY <1>0, <2>1, <2>2 DEF Kept, OnBooked, HeldUntilOut
  <2>4. SameRows /\ Turns(Consumer, at[Consumer], "cancel", r)
    BY <1>5, <2>1, SameRowsIfUnchanged DEF LookAgain
  <2> HIDE DEF r
  <2>5. OnBooked' /\ Handing' /\ Holding'
    BY <1>0, <1>5, <2>1, <2>3, <2>4, TurnKept DEF LookAgain, Step
  <2>6. PastSave' /\ BookedOnce' /\ UnpaidNeverDispatched' /\ HeldUntilOut'
    BY <1>5, <2>4, AttemptsKept DEF LookAgain
  <2> QED BY <2>5, <2>6 DEF Kept
<1>6. CASE LookRefused
  <2>1. SameRows
    BY <1>6, SameRowsIfUnchanged DEF LookRefused
  <2>2. OnBooked' /\ Handing' /\ Holding'
    BY <1>0, <1>6, <2>1, EndKept DEF LookRefused
  <2>3. PastSave' /\ BookedOnce' /\ UnpaidNeverDispatched' /\ HeldUntilOut'
    BY <1>6, <2>1, AttemptsKept DEF LookRefused
  <2> QED BY <2>2, <2>3 DEF Kept
<1>7. CASE SaveCancel(Consumer) \/ Announce(Consumer)
  BY <1>0, <1>7, CancelKept
<1> QED BY <1>1, <1>2, <1>3, <1>4, <1>5, <1>6, <1>7 DEF Consume

\* A copy is of a row that held what was not out.
LEMMA TakeKept ==
  ASSUME TypeOK, TypeOK', Kept, NEW s \in Shipment, Take(s)
  PROVE  Kept'
<1> USE DEF book_vars, task_vars, ghosts
<1>0. Consumer \in Task
  BY DEF Task
<1>1. CASE TakeCaptured(s)
  <2>1. SameRows /\ row[s].held /\ <<"captured", s>> \in verdict /\ Booked(s)
    BY <1>1, SameRowsIfUnchanged DEF TakeCaptured, TypeOK, Booked, NoRow
  <2>2. OnBooked' /\ Handing' /\ Holding'
    BY <1>0, <1>1, <2>1, ReadKept DEF TakeCaptured, Step
  <2>3. PastSave' /\ BookedOnce' /\ UnpaidNeverDispatched' /\ HeldUntilOut'
    BY <1>1, <2>1, AttemptsKept DEF TakeCaptured
  <2> QED BY <2>2, <2>3 DEF Kept
<1>2. CASE TakeFailed(s)
  <2>1. SameRows
    BY <1>2, SameRowsIfUnchanged DEF TakeFailed
  <2>2. OnBooked' /\ Handing' /\ Holding'
    BY <1>0, <1>2, <2>1, ReadKept DEF TakeFailed, Step, Saving
  <2>3. PastSave' /\ BookedOnce' /\ UnpaidNeverDispatched' /\ HeldUntilOut'
    BY <1>2, <2>1, AttemptsKept DEF TakeFailed
  <2> QED BY <2>2, <2>3 DEF Kept
<1>3. CASE SkipCaptured(s) \/ SkipFailed(s)
  <2>1. SameRows /\ UNCHANGED <<online, verdict, out, task_vars, book_vars>>
    BY <1>3, SameRowsIfUnchanged DEF SkipCaptured, SkipFailed
  <2>2. OnBooked' /\ Handing' /\ Holding'
    BY <2>1 DEF SameRows, Kept, OnBooked, Handing, Holding, TypeOK
  <2>3. PastSave' /\ BookedOnce' /\ UnpaidNeverDispatched' /\ HeldUntilOut'
    BY <2>1, AttemptsKept
  <2> QED BY <2>2, <2>3 DEF Kept
<1> QED BY <1>1, <1>2, <1>3 DEF Take

LEMMA ServeKept ==
  ASSUME TypeOK, TypeOK', Kept, NEW d \in Desk, Serve(d)
  PROVE  Kept'
<1> USE DEF book_vars, task_vars, ghosts
<1>0. d \in Task
  BY DEF Task
<1>1. ASSUME NEW s \in Shipment, Booked(s), NEW r \in Row, r.held = row[s].held,
             NEW step \in {"cancel", "reschedule", "override"}, Reads(d, s, step, r),
             UNCHANGED <<online, row, verdict, out, book_vars>>
      PROVE  Kept'
  <2>1. SameRows
    BY <1>1, SameRowsIfUnchanged
  <2>2. online => r.held \/ s \in out
    BY <1>1 DEF Kept, HeldUntilOut
  <2>3. OnBooked' /\ Handing' /\ Holding'
    BY <1>0, <1>1, <2>1, <2>2, ReadKept DEF Step
  <2>4. PastSave' /\ BookedOnce' /\ UnpaidNeverDispatched' /\ HeldUntilOut'
    BY <1>1, <2>1, AttemptsKept
  <2> QED BY <2>3, <2>4 DEF Kept
<1>2. ASSUME NEW s \in Shipment, ReadCancel(d, s)
      PROVE  Kept'
  <2>1. row[s] \in Row /\ Booked(s)
    BY <1>2 DEF ReadCancel, Booked, TypeOK
  <2>2. Cancelled(row[s]) \in Row /\ Cancelled(row[s]).held = row[s].held
    BY <2>1, CancelledTyped
  <2> QED BY <1>1, <1>2, <2>1, <2>2 DEF ReadCancel
<1>3. ASSUME NEW s \in Shipment, ReadReschedule(d, s)
      PROVE  Kept'
  <2> DEFINE r == [row[s] EXCEPT !.status = "confirmed"]
  <2>1. row[s] \in Row /\ "confirmed" \in Status /\ Booked(s)
    BY <1>3 DEF ReadReschedule, NoRow, TypeOK, Status, Booked
  <2>2. r \in Row /\ r.held = row[s].held
    BY <2>1, RowsTyped
  <2>3. Reads(d, s, "reschedule", r) /\ UNCHANGED <<online, row, verdict, out, book_vars>>
    BY <1>3 DEF ReadReschedule
  <2> HIDE DEF r
  <2> QED BY <1>1, <2>1, <2>2, <2>3
<1>4. ASSUME NEW s \in Shipment, NEW status \in Override, ReadOverride(d, s, status)
      PROVE  Kept'
  <2> DEFINE r == [row[s] EXCEPT !.status = status]
  <2>1. row[s] \in Row /\ status \in Status /\ Booked(s)
    BY <1>4, OverrideAssumption DEF ReadOverride, Booked, TypeOK
  <2>2. r \in Row /\ r.held = row[s].held
    BY <2>1, RowsTyped
  <2>3. Reads(d, s, "override", r) /\ UNCHANGED <<online, row, verdict, out, book_vars>>
    BY <1>4 DEF ReadOverride
  <2> HIDE DEF r
  <2> QED BY <1>1, <2>1, <2>2, <2>3
<1>5. ASSUME NEW s \in Shipment, SweepExpired(d, s)
      PROVE  Kept'
  <2>1. row[s] \in Row /\ Booked(s)
    BY <1>5 DEF SweepExpired, NoRow, TypeOK, Booked
  <2>2. Cancelled(row[s]) \in Row /\ Cancelled(row[s]).held = row[s].held
    BY <2>1, CancelledTyped
  <2>3. SameRows
    BY <1>5, <2>1, <2>2, UpdatesKeep DEF SweepExpired
  <2>4. OnBooked' /\ Handing' /\ Holding'
    BY <1>0, <1>5, <2>1, <2>3, ReadKept DEF SweepExpired, Step, Saving
  <2>5. PastSave' /\ BookedOnce' /\ UnpaidNeverDispatched' /\ HeldUntilOut'
    BY <1>5, <2>3, AttemptsKept DEF SweepExpired
  <2> QED BY <2>4, <2>5 DEF Kept
<1>6. CASE SaveCancel(d) \/ Announce(d)
  BY <1>0, <1>6, CancelKept
<1>7. CASE SaveStatus(d)
  <2>1. at[d] # "idle" /\ at[d] \in Saving /\ copy[d] \in Row
    BY <1>0, <1>7 DEF SaveStatus, TypeOK, Saving
  <2>2. online => copy[d].held \/ on[d] \in out
    BY <1>0, <2>1 DEF Kept, Holding
  <2>3. SameRows
    BY <1>0, <1>7, <2>1, <2>2, SavesKeep DEF SaveStatus
  <2>4. OnBooked' /\ Handing' /\ Holding'
    BY <1>0, <1>7, <2>3, EndKept DEF SaveStatus
  <2>5. PastSave' /\ BookedOnce' /\ UnpaidNeverDispatched' /\ HeldUntilOut'
    BY <1>7, <2>3, AttemptsKept DEF SaveStatus
  <2> QED BY <2>4, <2>5 DEF Kept
<1> QED BY <1>2, <1>3, <1>4, <1>5, <1>6, <1>7 DEF Serve

\* Every step keeps the booking whole.
LEMMA KeptStep ==
  ASSUME TypeOK, TypeOK', Kept, [Next]_vars
  PROVE  Kept'
<1> USE DEF book_vars, task_vars, ghosts
<1>1. ASSUME UNCHANGED <<online, row, out, book_vars, task_vars>>, verdict \subseteq verdict'
      PROVE  Kept'
  <2>1. SameRows
    BY <1>1, SameRowsIfUnchanged
  <2>2. OnBooked' /\ Handing' /\ Holding'
    BY <1>1, <2>1 DEF SameRows, Kept, OnBooked, Handing, Holding, TypeOK
  <2>3. PastSave' /\ BookedOnce' /\ UnpaidNeverDispatched' /\ HeldUntilOut'
    BY <1>1, <2>1, AttemptsKept
  <2> QED BY <2>2, <2>3 DEF Kept
<1>2. CASE UNCHANGED vars
  BY <1>1, <1>2 DEF vars
<1>3. ASSUME NEW s \in Shipment, Create(s)
      PROVE  Kept'
  BY <1>3, CreateKept
<1>4. ASSUME NEW s \in Shipment, Take(s)
      PROVE  Kept'
  BY <1>4, TakeKept
<1>5. ASSUME NEW s \in Shipment, NEW to \in Reported, Progress(s, to)
      PROVE  Kept'
  <2> DEFINE r == [row[s] EXCEPT !.status = to]
  <2>1. row[s] \in Row /\ to \in Status /\ Booked(s)
    BY <1>5 DEF Progress, Booked, TypeOK, Reported, Status
  <2>2. r \in Row /\ r.held = row[s].held
    BY <2>1, RowsTyped
  <2>3. Updates(s, r) /\ UNCHANGED <<online, verdict, out, book_vars, task_vars>>
    BY <1>5 DEF Progress
  <2> HIDE DEF r
  <2>4. SameRows
    BY <2>1, <2>2, <2>3, UpdatesKeep
  <2>5. OnBooked' /\ Handing' /\ Holding'
    BY <2>3, <2>4 DEF SameRows, Kept, OnBooked, Handing, Holding, TypeOK
  <2>6. PastSave' /\ BookedOnce' /\ UnpaidNeverDispatched' /\ HeldUntilOut'
    BY <2>3, <2>4, AttemptsKept
  <2> QED BY <2>5, <2>6 DEF Kept
<1>6. CASE Payments
  BY <1>1, <1>6 DEF Payments, Pay, Expire, Decides, Redeliver
<1>7. CASE Consume \/ CapturedFails
  BY <1>7, ConsumeKept
<1>8. ASSUME NEW d \in Desk, Serve(d)
      PROVE  Kept'
  BY <1>8, ServeKept
<1>9. ASSUME NEW t \in Task, Gives(t)
      PROVE  Kept'
  <2>1. SameRows
    BY <1>9, SameRowsIfUnchanged DEF Gives
  <2>2. OnBooked' /\ Handing' /\ Holding'
    BY <1>9, <2>1, EndKept DEF Gives
  <2>3. PastSave' /\ BookedOnce' /\ UnpaidNeverDispatched' /\ HeldUntilOut'
    BY <1>9, <2>1, AttemptsKept DEF Gives
  <2> QED BY <2>2, <2>3 DEF Kept
<1> QED BY <1>2, <1>3, <1>4, <1>5, <1>6, <1>7, <1>8, <1>9 DEF Next

LEMMA KeptAlways == Spec => []Kept
<1>1. Init => Kept
  BY DEF Init, Kept, OnBooked, PastSave, Handing, Holding, Saving, BookedOnce,
         UnpaidNeverDispatched, HeldUntilOut, Booked, Task
<1>2. TypeOK /\ TypeOK' /\ Kept /\ [Next]_vars => Kept'
  BY KeptStep
<1> QED BY <1>1, <1>2, TypeCorrect, PTL DEF Spec

\* However a client retries, however its attempts fail: one row, and no answer
\* without it.
THEOREM BooksOnce == Spec => []BookedOnce
<1>1. Kept => BookedOnce
  BY DEF Kept
<1> QED BY <1>1, KeptAlways, PTL

\* Nothing is dispatched before it was paid for.
THEOREM PaidBeforeDispatch == Spec => []UnpaidNeverDispatched
<1>1. Kept => UnpaidNeverDispatched
  BY DEF Kept
<1> QED BY <1>1, KeptAlways, PTL

\* No writer of the row, however stale its copy, drops events that are not out.
THEOREM EventsAreHeld == Spec => []HeldUntilOut
<1>1. Kept => HeldUntilOut
  BY DEF Kept
<1> QED BY <1>1, KeptAlways, PTL

-----------------------------------------------------------------------------
(* What was cancelled stays cancelled.                                     *)

Ended(s) ==
  s \in clobbered \/ s \in overridden \/ row[s].status \in {"cancelled", "delivered"}

\* The copy of a task that is not outdated says of the status what the row says.
UpToDate ==
  \A t \in Task \ outdated :
    /\ at[t] \in {"pay", "hand_over", "clear"} => copy[t].status = row[on[t]].status
    /\ at[t] = "reschedule" => row[on[t]].status \in {"delivery_attempted", "failed"}

Cancels ==
  \A t \in Task : /\ at[t] = "cancel" => copy[t].status = "cancelled"
                  /\ at[t] = "announce" => Ended(on[t])

GoneEnded == \A s \in gone : Ended(s)

Final == UpToDate /\ Cancels /\ GoneEnded

StaysEnded == \A x \in Shipment : Ended(x) => Ended(x)'

\* A save ends no end, unless it is counted; and leaves behind whoever read the
\* row before it.
LEMMA SavesFinal ==
  ASSUME TypeOK, Final, NEW t \in Task, at[t] \in Saving, NEW r \in Row, Saves(t, r),
         overridden \subseteq overridden',
         \/ r.status \in {"cancelled", "delivered"}
         \/ on[t] \in overridden'
         \/ t \notin outdated => (Ended(on[t]) => on[t] \in clobbered \cup overridden)
         \/ t \notin outdated => r.status = row[on[t]].status
  PROVE  /\ StaysEnded
         /\ row'[on[t]] = r
         /\ \A u \in (Task \ outdated') \ {t} :
              at[u] # "idle" => u \notin outdated /\ row'[on[u]] = row[on[u]]
<1>1. on[t] \in Shipment
  BY DEF TypeOK, Saving
<1>2. row' = [row EXCEPT ![on[t]] = r]
  BY DEF Saves, Writes
<1>3. /\ outdated' = IF row[on[t]] = r THEN outdated \ {t}
                     ELSE (outdated \cup {x \in Task : on[x] = on[t]}) \ {t}
      /\ clobbered' = IF t \in outdated /\ row[on[t]] # r THEN clobbered \cup {on[t]} ELSE clobbered
  BY DEF Saves, Behind
<1>4. row'[on[t]] = r /\ \A x \in Shipment : x # on[t] => row'[x] = row[x]
  BY <1>1, <1>2 DEF TypeOK
<1>5. ASSUME NEW x \in Shipment, Ended(x)
      PROVE  Ended(x)'
  <2>1. CASE x # on[t]
    BY <1>3, <1>4, <1>5, <2>1 DEF Ended
  <2>2. CASE x = on[t]
    BY <1>3, <1>4, <1>5, <2>2 DEF Ended
  <2> QED BY <2>1, <2>2
<1>6. ASSUME NEW u \in (Task \ outdated') \ {t}, at[u] # "idle"
      PROVE  u \notin outdated /\ row'[on[u]] = row[on[u]]
  <2>1. on[u] \in Shipment
    BY <1>6 DEF TypeOK
  <2>2. CASE row[on[t]] = r
    BY <1>3, <1>4, <1>6, <2>1, <2>2
  <2>3. CASE row[on[t]] # r
    BY <1>3, <1>4, <1>6, <2>1, <2>3
  <2> QED BY <2>2, <2>3
<1> QED BY <1>4, <1>5, <1>6 DEF StaysEnded

\* A step of t that ends no end keeps what is said of the other tasks.
LEMMA OthersFinal ==
  ASSUME TypeOK, TypeOK', Final, StaysEnded, NEW t \in Task,
         \A u \in Task \ {t} : at'[u] = at[u] /\ on'[u] = on[u] /\ copy'[u] = copy[u],
         \A u \in (Task \ outdated') \ {t} :
           at[u] # "idle" => u \notin outdated /\ row'[on[u]].status = row[on[u]].status,
         t \notin outdated' =>
           /\ at'[t] \in {"pay", "hand_over", "clear"} => copy'[t].status = row'[on'[t]].status
           /\ at'[t] = "reschedule" => row'[on'[t]].status \in {"delivery_attempted", "failed"},
         at'[t] = "cancel" => copy'[t].status = "cancelled",
         at'[t] = "announce" => Ended(on[t])' /\ on'[t] = on[t],
         \A s \in gone' \ gone : Ended(s)
  PROVE  Final'
<1>1. UpToDate'
  <2> SUFFICES ASSUME NEW u \in Task \ outdated'
               PROVE  /\ at'[u] \in {"pay", "hand_over", "clear"} =>
                           copy'[u].status = row'[on'[u]].status
                      /\ at'[u] = "reschedule" =>
                           row'[on'[u]].status \in {"delivery_attempted", "failed"}
    BY DEF UpToDate
  <2>1. CASE u = t
    BY <2>1
  <2>2. CASE u # t
    <3>1. at[u] # "idle" => u \notin outdated /\ row'[on[u]].status = row[on[u]].status
      BY <2>2
    <3> QED BY <2>2, <3>1 DEF Final, UpToDate
  <2> QED BY <2>1, <2>2
<1>2. Cancels'
  <2> SUFFICES ASSUME NEW u \in Task
               PROVE  /\ at'[u] = "cancel" => copy'[u].status = "cancelled"
                      /\ at'[u] = "announce" => Ended(on[u])'
    BY DEF Cancels
  <2>1. CASE u = t
    BY <2>1
  <2>2. CASE u # t
    <3>1. at[u] = "announce" => Ended(on[u]) /\ on[u] \in Shipment
      BY DEF Final, Cancels, TypeOK
    <3>2. at[u] = "announce" => Ended(on[u])'
      BY <2>2, <3>1 DEF StaysEnded, Ended
    <3> QED BY <2>2, <3>2 DEF Final, Cancels
  <2> QED BY <2>1, <2>2
<1>3. GoneEnded'
  BY DEF Final, GoneEnded, StaysEnded, TypeOK
<1> QED BY <1>1, <1>2, <1>3 DEF Final

\* A step that writes no row and calls no task back keeps them all.
LEMMA StillFinal ==
  ASSUME Final, UNCHANGED <<row, gone, task_vars, outdated, clobbered, overridden>>
  PROVE  Final'
BY DEF Final, UpToDate, Cancels, GoneEnded, Ended, task_vars

LEMMA SavingFinal ==
  ASSUME TypeOK, TypeOK', Kept, Final, NEW t \in Task,
         \/ SaveCancel(t)
         \/ t \in Desk /\ SaveStatus(t)
         \/ t = Consumer /\ (SavePaid \/ ClearHeld)
  PROVE  Final'
<1>0. /\ at \in [Task -> Step] /\ on \in [Task -> Shipment \cup {None}]
      /\ copy \in [Task -> Row \cup {NoRow}]
  BY DEF TypeOK
<1>1. CASE SaveCancel(t)
  <2>1. at[t] = "cancel" /\ copy[t] \in Row /\ copy[t].status = "cancelled"
    BY <1>1 DEF SaveCancel, Turns, TypeOK, Final, Cancels
  <2>2. /\ StaysEnded /\ row'[on[t]] = copy[t]
        /\ \A u \in (Task \ outdated') \ {t} :
             at[u] # "idle" => u \notin outdated /\ row'[on[u]] = row[on[u]]
    BY <1>1, <2>1, SavesFinal DEF SaveCancel, Saving
  <2>3. /\ at' = [at EXCEPT ![t] = "announce"] /\ on' = on
        /\ copy' = [copy EXCEPT ![t] = copy[t]] /\ gone' = gone
    BY <1>1 DEF SaveCancel, Turns
  <2>4. at'[t] = "announce" /\ on'[t] = on[t] /\ Ended(on[t])'
    BY <1>0, <2>1, <2>2, <2>3 DEF Ended
  <2> QED BY <1>0, <2>2, <2>3, <2>4, OthersFinal
<1>2. CASE t \in Desk /\ SaveStatus(t)
  <2>1. at[t] \in {"reschedule", "override"} /\ copy[t] \in Row /\ on[t] \in Shipment
    BY <1>2 DEF SaveStatus, TypeOK
  <2>2. \/ on[t] \in overridden'
        \/ t \notin outdated => (Ended(on[t]) => on[t] \in clobbered \cup overridden)
    BY <1>2, <2>1 DEF SaveStatus, Final, UpToDate, Ended
  <2>3. Saves(t, copy[t]) /\ overridden \subseteq overridden'
    BY <1>2 DEF SaveStatus
  <2>4. /\ StaysEnded
        /\ \A u \in (Task \ outdated') \ {t} :
             at[u] # "idle" => u \notin outdated /\ row'[on[u]] = row[on[u]]
    BY <2>1, <2>2, <2>3, SavesFinal DEF Saving
  <2>5. /\ at' = [at EXCEPT ![t] = "idle"] /\ on' = [on EXCEPT ![t] = None]
        /\ copy' = [copy EXCEPT ![t] = NoRow] /\ gone' = gone
    BY <1>2 DEF SaveStatus, Ends
  <2> QED BY <1>0, <2>4, <2>5, OthersFinal
<1>3. CASE t = Consumer /\ SavePaid
  <2> DEFINE r == [copy[t] EXCEPT !.payment = "paid"]
  <2>1. at[t] = "pay" /\ copy[t] \in Row
    BY <1>3 DEF SavePaid, Turns, TypeOK
  <2>2. r \in Row /\ r.status = copy[t].status
    BY <2>1, RowsTyped
  <2>3. /\ at' = [at EXCEPT ![t] = "hand_over"] /\ on' = on
        /\ copy' = [copy EXCEPT ![t] = r] /\ gone' = gone
    BY <1>3 DEF SavePaid, Turns
  <2> HIDE DEF r
  <2>4. copy'[t] = r /\ Saves(t, r) /\ overridden' = overridden
    BY <1>0, <1>3, <2>3 DEF SavePaid
  <2>5. t \notin outdated => r.status = row[on[t]].status
    BY <2>1, <2>2 DEF Final, UpToDate
  <2>6. /\ StaysEnded /\ row'[on[t]] = r
        /\ \A u \in (Task \ outdated') \ {t} :
             at[u] # "idle" => u \notin outdated /\ row'[on[u]] = row[on[u]]
    BY <2>1, <2>2, <2>4, <2>5, SavesFinal DEF Saving
  <2> QED BY <1>0, <2>3, <2>4, <2>6, OthersFinal
<1>4. CASE t = Consumer /\ ClearHeld
  <2>1. at[t] = "clear" /\ copy[t] \in Row
    BY <1>4 DEF ClearHeld, TypeOK
  <2>2. t \notin outdated => copy[t].status = row[on[t]].status
    BY <2>1 DEF Final, UpToDate
  <2>3. Saves(t, copy[t]) /\ overridden' = overridden
    BY <1>4 DEF ClearHeld
  <2>4. /\ StaysEnded
        /\ \A u \in (Task \ outdated') \ {t} :
             at[u] # "idle" => u \notin outdated /\ row'[on[u]] = row[on[u]]
    BY <2>1, <2>2, <2>3, SavesFinal DEF Saving
  <2>5. /\ at' = [at EXCEPT ![t] = "idle"] /\ on' = [on EXCEPT ![t] = None]
        /\ copy' = [copy EXCEPT ![t] = NoRow] /\ gone' = gone
    BY <1>4 DEF ClearHeld, Ends
  <2> QED BY <1>0, <2>4, <2>5, OthersFinal
<1> QED BY <1>1, <1>2, <1>3, <1>4

\* A read, a publish or an end, of one task.
LEMMA AwaitFinal ==
  ASSUME TypeOK, TypeOK', Final, NEW t \in Task,
         UNCHANGED <<row, clobbered, overridden>>, outdated \subseteq outdated' \cup {t},
         \A u \in Task \ {t} : at'[u] = at[u] /\ on'[u] = on[u] /\ copy'[u] = copy[u],
         t \notin outdated' =>
           /\ at'[t] \in {"pay", "hand_over", "clear"} => copy'[t].status = row[on'[t]].status
           /\ at'[t] = "reschedule" => row[on'[t]].status \in {"delivery_attempted", "failed"},
         at'[t] = "cancel" => copy'[t].status = "cancelled",
         at'[t] # "announce",
         \A s \in gone' \ gone : Ended(s)
  PROVE  Final'
<1>1. StaysEnded
  BY DEF StaysEnded, Ended
<1>2. \A u \in (Task \ outdated') \ {t} :
        at[u] # "idle" => u \notin outdated /\ row'[on[u]].status = row[on[u]].status
  OBVIOUS
<1> QED BY <1>1, <1>2, OthersFinal

LEMMA ReadingFinal ==
  ASSUME TypeOK, TypeOK', Final, NEW t \in Task, NEW s \in Shipment,
         NEW step \in Step \ {"announce"}, NEW r, Reads(t, s, step, r),
         UNCHANGED <<row, gone, outdated, clobbered, overridden>>,
         step \in {"pay", "hand_over"} => r.status = row[s].status,
         step # "clear",
         step = "reschedule" => row[s].status \in {"delivery_attempted", "failed"},
         step = "cancel" => r.status = "cancelled"
  PROVE  Final'
<1>1. /\ at' = [at EXCEPT ![t] = step] /\ on' = [on EXCEPT ![t] = s]
      /\ copy' = [copy EXCEPT ![t] = r]
  BY DEF Reads
<1>2. at'[t] = step /\ on'[t] = s /\ copy'[t] = r
  BY <1>1 DEF TypeOK
<1>3. \A u \in Task \ {t} : at'[u] = at[u] /\ on'[u] = on[u] /\ copy'[u] = copy[u]
  BY <1>1 DEF TypeOK
<1> QED BY <1>2, <1>3, AwaitFinal

LEMMA EndingFinal ==
  ASSUME TypeOK, TypeOK', Final, NEW t \in Task, Ends(t),
         UNCHANGED <<row, clobbered, overridden>>, outdated' = outdated \ {t},
         \A s \in gone' \ gone : Ended(s)
  PROVE  Final'
<1>1. /\ at' = [at EXCEPT ![t] = "idle"] /\ on' = [on EXCEPT ![t] = None]
      /\ copy' = [copy EXCEPT ![t] = NoRow]
  BY DEF Ends
<1>2. at'[t] = "idle"
  BY <1>1 DEF TypeOK
<1>3. \A u \in Task \ {t} : at'[u] = at[u] /\ on'[u] = on[u] /\ copy'[u] = copy[u]
  BY <1>1 DEF TypeOK
<1> QED BY <1>2, <1>3, AwaitFinal

\* A single statement on a row that is not ended, or that ends it.
LEMMA UpdatesFinal ==
  ASSUME TypeOK, Final, NEW s \in Shipment, NEW r \in Row, Updates(s, r),
         UNCHANGED <<clobbered, overridden>>,
         row[s].status \in {"cancelled", "delivered"} => r.status \in {"cancelled", "delivered"}
  PROVE  /\ StaysEnded /\ row'[s] = r
         /\ \A u \in Task \ outdated' : on[u] # s /\ u \notin outdated
         /\ \A u \in Task \ outdated' : at[u] # "idle" => row'[on[u]] = row[on[u]]
<1>1. row' = [row EXCEPT ![s] = r] /\ outdated' = outdated \cup {x \in Task : on[x] = s}
  BY DEF Updates, Writes
<1>2. row'[s] = r /\ \A x \in Shipment : x # s => row'[x] = row[x]
  BY <1>1 DEF TypeOK
<1>3. StaysEnded
  BY <1>2 DEF StaysEnded, Ended
<1>4. \A u \in Task \ outdated' : on[u] # s /\ u \notin outdated
  BY <1>1
<1>5. \A u \in Task : at[u] # "idle" => on[u] \in Shipment
  BY DEF TypeOK
<1> QED BY <1>2, <1>3, <1>4, <1>5

\* Every step keeps the ends that were published.
LEMMA FinalStep ==
  ASSUME TypeOK, TypeOK', Kept, Final, [Next]_vars
  PROVE  Final'
<1> USE DEF book_vars, task_vars, ghosts
<1>0. Consumer \in Task /\ Desk \subseteq Task
  BY DEF Task
<1>1. CASE UNCHANGED vars
  BY <1>1, StillFinal DEF vars
<1>2. ASSUME NEW s \in Shipment, Create(s)
      PROVE  Final'
  <2>1. CASE SaveRow(s)
    <3> DEFINE r == [status |-> "pending",
                     payment |-> IF online THEN "awaiting_payment" ELSE "not_required",
                     held |-> online]
    <3>1. row' = [row EXCEPT ![s] = r] /\ \A x \in Shipment : ~Booked(x)
      BY <2>1 DEF SaveRow, Unbooked
    <3> HIDE DEF r
    <3>2. \A x \in Shipment : row[x].status = "none"
      BY <3>1 DEF Booked, NoRow
    <3>3. \A t \in Task : at[t] = "idle"
      BY <3>1 DEF Kept, OnBooked, TypeOK
    <3>4. \A x \in gone : x \in clobbered \/ x \in overridden
      BY <3>2 DEF Final, GoneEnded, Ended, TypeOK
    <3> QED BY <2>1, <3>3, <3>4
            DEF SaveRow, Books, Final, UpToDate, Cancels, GoneEnded, Ended
  <2>2. CASE ~SaveRow(s)
    <3>1. UNCHANGED <<row, gone, task_vars, outdated, clobbered, overridden>>
      BY <1>2, <2>2 DEF Create, Books, Replay, CheckKey, Redeem, RedeemRefused, OpenIntent,
         IntentFails, SaveFails, SavePieces, PiecesFail, PublishCreated, Release, Abandon
    <3> QED BY <3>1, StillFinal
  <2> QED BY <2>1, <2>2
<1>3. ASSUME NEW s \in Shipment, Take(s)
      PROVE  Final'
  <2>1. CASE TakeCaptured(s)
    <3>1. row[s] = row[s] /\ (IF row[s].payment = "paid" THEN "hand_over" ELSE "pay")
            \in {"pay", "hand_over"}
      OBVIOUS
    <3> QED BY <1>0, <2>1, <3>1, ReadingFinal DEF TakeCaptured, Step
  <2>2. CASE TakeFailed(s)
    BY <1>0, <2>2, ReadingFinal DEF TakeFailed, Step
  <2>3. CASE SkipCaptured(s) \/ SkipFailed(s)
    BY <2>3, StillFinal DEF SkipCaptured, SkipFailed
  <2> QED BY <1>3, <2>1, <2>2, <2>3 DEF Take
<1>4. ASSUME NEW s \in Shipment, NEW to \in Reported, Progress(s, to)
      PROVE  Final'
  <2> DEFINE r == [row[s] EXCEPT !.status = to]
  <2>1. row[s] \in Row /\ to \in Status
    BY <1>4 DEF Progress, Booked, TypeOK, Reported, Status
  <2>2. r \in Row /\ r.status = to
    BY <2>1, RowsTyped
  <2>3. row[s].status \in {"cancelled", "delivered"} => to = "delivered"
    BY <1>4 DEF Progress, Applies, Reported
  <2>4. Updates(s, r) /\ UNCHANGED <<gone, task_vars, clobbered, overridden>>
    BY <1>4 DEF Progress
  <2> HIDE DEF r
  <2>5. /\ StaysEnded
        /\ \A u \in Task \ outdated' : u \notin outdated
        /\ \A u \in Task \ outdated' : at[u] # "idle" => row'[on[u]] = row[on[u]]
    BY <2>2, <2>3, <2>4, UpdatesFinal
  <2>6. UpToDate'
    BY <2>4, <2>5 DEF Final, UpToDate
  <2>7. Cancels' /\ GoneEnded'
    BY <2>4, <2>5 DEF Final, Cancels, GoneEnded, StaysEnded, TypeOK
  <2> QED BY <2>6, <2>7 DEF Final
<1>5. CASE Payments
  BY <1>5, StillFinal DEF Payments, Pay, Expire, Decides, Redeliver
<1>6. ASSUME NEW t \in Task, Announce(t)
      PROVE  Final'
  <2>1. \A x \in gone' \ gone : Ended(x)
    BY <1>6 DEF Announce, Final, Cancels
  <2> QED BY <1>6, <2>1, EndingFinal DEF Announce
<1>7. CASE Consume \/ CapturedFails
  <2>1. CASE SavePaid \/ ClearHeld \/ SaveCancel(Consumer)
    BY <1>0, <2>1, SavingFinal
  <2>2. CASE HandOver
    <3> DEFINE r == [copy[Consumer] EXCEPT !.held = FALSE]
    <3>1. at[Consumer] = "hand_over" /\ copy[Consumer] \in Row
      BY <1>0, <2>2 DEF HandOver, Turns, TypeOK
    <3>2. r.status = copy[Consumer].status
      BY <3>1, RowsTyped
    <3>3. /\ at' = [at EXCEPT ![Consumer] = "clear"] /\ on' = on
          /\ copy' = [copy EXCEPT ![Consumer] = r]
      BY <2>2 DEF HandOver, Turns
    <3> HIDE DEF r
    <3>4. /\ at'[Consumer] = "clear" /\ copy'[Consumer] = r
          /\ \A u \in Task \ {Consumer} : at'[u] = at[u] /\ on'[u] = on[u] /\ copy'[u] = copy[u]
      BY <1>0, <3>3 DEF TypeOK
    <3>5. Consumer \notin outdated => r.status = row[on[Consumer]].status
      BY <1>0, <3>1, <3>2 DEF Final, UpToDate
    <3>6. UNCHANGED <<row, gone, outdated, clobbered, overridden>>
      BY <2>2 DEF HandOver
    <3> QED BY <1>0, <3>3, <3>4, <3>5, <3>6, AwaitFinal
  <2>3. CASE LookAgain
    <3> DEFINE r == Cancelled(row[on[Consumer]])
    <3>1. row[on[Consumer]] \in Row
      BY <1>0, <2>3 DEF LookAgain, TypeOK, Kept, OnBooked, Booked
    <3>2. r.status = "cancelled"
      BY <3>1, CancelledTyped
    <3>3. /\ at' = [at EXCEPT ![Consumer] = "cancel"] /\ on' = on
          /\ copy' = [copy EXCEPT ![Consumer] = r]
      BY <2>3 DEF LookAgain, Turns
    <3> HIDE DEF r
    <3>4. /\ at'[Consumer] = "cancel" /\ copy'[Consumer] = r
          /\ \A u \in Task \ {Consumer} : at'[u] = at[u] /\ on'[u] = on[u] /\ copy'[u] = copy[u]
      BY <1>0, <3>3 DEF TypeOK
    <3>5. UNCHANGED <<row, gone, clobbered, overridden>> /\ outdated' = outdated \ {Consumer}
      BY <2>3 DEF LookAgain
    <3> QED BY <1>0, <3>2, <3>4, <3>5, AwaitFinal
  <2>4. CASE LookRefused \/ CapturedFails
    BY <1>0, <2>4, EndingFinal DEF LookRefused, CapturedFails
  <2> QED BY <1>0, <1>6, <1>7, <2>1, <2>2, <2>3, <2>4 DEF Consume
<1>8. ASSUME NEW d \in Desk, Serve(d)
      PROVE  Final'
  <2>1. ASSUME NEW s \in Shipment, ReadCancel(d, s)
        PROVE  Final'
    <3>1. Cancelled(row[s]).status = "cancelled"
      BY <2>1, CancelledTyped DEF ReadCancel, Booked, TypeOK
    <3> QED BY <1>0, <2>1, <3>1, ReadingFinal DEF ReadCancel, Step
  <2>2. ASSUME NEW s \in Shipment, ReadReschedule(d, s)
        PROVE  Final'
    BY <1>0, <2>2, ReadingFinal DEF ReadReschedule, Step
  <2>3. ASSUME NEW s \in Shipment, NEW status \in Override, ReadOverride(d, s, status)
        PROVE  Final'
    BY <1>0, <2>3, ReadingFinal DEF ReadOverride, Step
  <2>4. ASSUME NEW s \in Shipment, SweepExpired(d, s)
        PROVE  Final'
    <3> DEFINE r == Cancelled(row[s])
    <3>1. row[s] \in Row
      BY <2>4 DEF SweepExpired, NoRow, TypeOK
    <3>2. r \in Row /\ r.status = "cancelled"
      BY <3>1, CancelledTyped
    <3>3. /\ Updates(s, r) /\ UNCHANGED <<gone, clobbered, overridden>>
          /\ at[d] = "idle"
          /\ at' = [at EXCEPT ![d] = "announce"] /\ on' = [on EXCEPT ![d] = s]
          /\ copy' = [copy EXCEPT ![d] = NoRow]
      BY <2>4 DEF SweepExpired, Reads
    <3> HIDE DEF r
    <3>4. /\ StaysEnded /\ row'[s] = r
          /\ \A u \in Task \ outdated' : u \notin outdated
          /\ \A u \in Task \ outdated' : at[u] # "idle" => row'[on[u]] = row[on[u]]
      BY <3>2, <3>3, UpdatesFinal
    <3>5. /\ at'[d] = "announce" /\ on'[d] = s
          /\ \A u \in Task \ {d} : at'[u] = at[u] /\ on'[u] = on[u] /\ copy'[u] = copy[u]
      BY <1>0, <3>3 DEF TypeOK
    <3>6. Ended(s)'
      BY <3>2, <3>4 DEF Ended
    <3>7. UpToDate'
      BY <3>4, <3>5 DEF Final, UpToDate
    <3>8. Cancels'
      <4> SUFFICES ASSUME NEW u \in Task
                   PROVE  /\ at'[u] = "cancel" => copy'[u].status = "cancelled"
                          /\ at'[u] = "announce" => Ended(on[u])'
        BY DEF Cancels
      <4>1. CASE u = d
        BY <3>5, <3>6, <4>1
      <4>2. CASE u # d
        <5>1. at[u] = "announce" => Ended(on[u]) /\ on[u] \in Shipment
          BY DEF Final, Cancels, TypeOK
        <5>2. at[u] = "announce" => Ended(on[u])'
          BY <3>4, <3>5, <4>2, <5>1 DEF StaysEnded, Ended
        <5> QED BY <3>5, <4>2, <5>2 DEF Final, Cancels
      <4> QED BY <4>1, <4>2
    <3>9. GoneEnded'
      BY <3>3, <3>4 DEF Final, GoneEnded, StaysEnded, TypeOK
    <3> QED BY <3>7, <3>8, <3>9 DEF Final
  <2>5. CASE SaveCancel(d) \/ SaveStatus(d)
    BY <1>0, <2>5, SavingFinal
  <2> QED BY <1>0, <1>6, <1>8, <2>1, <2>2, <2>3, <2>4, <2>5 DEF Serve
<1>9. ASSUME NEW t \in Task, Gives(t)
      PROVE  Final'
  BY <1>9, EndingFinal DEF Gives
<1> QED BY <1>1, <1>2, <1>3, <1>4, <1>5, <1>7, <1>8, <1>9 DEF Next

\* A cancellation that was published stands, whatever reports come late: only a
\* save of an outdated copy, or an order to override the status, undoes it.
THEOREM CancellationsStand == Spec => []GoneIsCancelled
<1>1. Init => Final
  BY DEF Init, Final, UpToDate, Cancels, GoneEnded
<1>2. TypeOK /\ TypeOK' /\ Kept /\ Final /\ [Next]_vars => Final'
  BY FinalStep
<1>3. Final => GoneIsCancelled
  BY DEF Final, GoneEnded, Ended, GoneIsCancelled
<1> QED BY <1>1, <1>2, <1>3, TypeCorrect, KeptAlways, PTL DEF Spec

-----------------------------------------------------------------------------
(* What was paid for stays in sight.                                       *)

\* A booking with a fee says so, in its row and in every copy of it.
Priced ==
  online => /\ \A s \in Shipment : row[s].payment # "not_required"
            /\ \A t \in Task : copy[t].payment # "not_required"

\* Only a booking with a fee has intents, and an attempt answers once.
Answered ==
  /\ \A s \in Shipment : told[s] # None => book[s] = "over"
  /\ \A s \in Shipment : s \in intent \/ book[s] \in {"redeem", "intent"} => online

\* payments takes the fee of an attempt that was answered, and says one thing.
Told ==
  /\ \A m \in verdict : m[2] \in intent
  /\ \A s \in Shipment :
       <<"captured", s>> \in verdict => told[s] = s /\ <<"failed", s>> \notin verdict
  /\ at[Consumer] \in {"look", "cancel", "announce"} => <<"failed", on[Consumer]>> \in verdict

\* Another status is no other payment.
LEMMA SamePayment ==
  ASSUME NEW r \in Row \cup {NoRow}, NEW status
  PROVE  [r EXCEPT !.status = status].payment = r.payment
  BY DEF Row, NoRow

\* A step that reads or saves copies with their fee keeps the fee.
LEMMA MovePriced ==
  ASSUME TypeOK, Priced, online' = online,
         NEW t \in Task, NEW c, online => c.payment # "not_required",
         copy' = copy \/ copy' = [copy EXCEPT ![t] = c],
         NEW s \in Shipment, NEW r, online => r.payment # "not_required",
         row' = row \/ row' = [row EXCEPT ![s] = r]
  PROVE  Priced'
<1>1. ASSUME online, NEW x \in Shipment PROVE row'[x].payment # "not_required"
  BY <1>1 DEF TypeOK, Priced
<1>2. ASSUME online, NEW x \in Task PROVE copy'[x].payment # "not_required"
  BY <1>2 DEF TypeOK, Priced
<1> QED BY <1>1, <1>2 DEF Priced

\* What a booking owes is in its row from the first save on.
LEMMA PricedStep ==
  ASSUME TypeOK, Kept, Priced, [Next]_vars
  PROVE  Priced'
<1> USE DEF book_vars, task_vars, ghosts
<1>0. Consumer \in Task /\ Desk \subseteq Task /\ (online => NoRow.payment # "not_required")
  BY DEF Task, NoRow
<1>1. CASE UNCHANGED <<online, row, copy>>
  BY <1>1 DEF Priced
<1>2. ASSUME NEW s \in Shipment, Create(s)
      PROVE  Priced'
  <2>1. CASE UNCHANGED row
    BY <1>1, <1>2, <2>1 DEF Create, Replay, CheckKey, Redeem, RedeemRefused, OpenIntent,
       IntentFails, SaveRow, SaveFails, SavePieces, PiecesFail, PublishCreated, Release, Abandon,
       Books
  <2>2. CASE SaveRow(s)
    <3> DEFINE r == [status |-> "pending",
                     payment |-> IF online THEN "awaiting_payment" ELSE "not_required",
                     held |-> online]
    <3>1. row' = [row EXCEPT ![s] = r] /\ UNCHANGED <<online, copy>>
      BY <2>2 DEF SaveRow, Books
    <3>2. online => r.payment # "not_required"
      OBVIOUS
    <3> HIDE DEF r
    <3> QED BY <1>0, <3>1, <3>2, MovePriced
  <2> QED
    BY <1>2, <2>1, <2>2 DEF Create, Replay, CheckKey, Redeem, RedeemRefused, OpenIntent,
       IntentFails, SaveFails, SavePieces, PiecesFail, PublishCreated, Release, Abandon
\* A task reads the row, with another status or as it is.
<1>3. ASSUME NEW t \in Task, NEW s \in Shipment, NEW step, NEW r, Reads(t, s, step, r),
             online => r.payment # "not_required", UNCHANGED online,
             NEW p, online => p.payment # "not_required",
             row' = row \/ row' = [row EXCEPT ![s] = p]
      PROVE  Priced'
  BY <1>3, MovePriced DEF Reads
<1>4. ASSUME NEW s \in Shipment
      PROVE  /\ online => row[s].payment # "not_required"
             /\ online => Cancelled(row[s]).payment # "not_required"
             /\ \A status : online => [row[s] EXCEPT !.status = status].payment # "not_required"
  BY SamePayment DEF Priced, TypeOK, Cancelled
<1>5. ASSUME NEW t \in Task
      PROVE  /\ online => copy[t].payment # "not_required"
             /\ at[t] # "idle" => on[t] \in Shipment
  BY DEF Priced, TypeOK
<1>6. ASSUME NEW s \in Shipment, Take(s)
      PROVE  Priced'
  <2>1. CASE SkipCaptured(s) \/ SkipFailed(s)
    BY <1>1, <2>1 DEF SkipCaptured, SkipFailed
  <2>2. CASE TakeCaptured(s)
    BY <1>0, <1>3, <1>4, <2>2 DEF TakeCaptured
  <2>3. CASE TakeFailed(s)
    BY <1>0, <1>3, <2>3 DEF TakeFailed
  <2> QED BY <1>6, <2>1, <2>2, <2>3 DEF Take
\* A task saves its copy, or ends.
<1>7. ASSUME NEW t \in Task, UNCHANGED online, at[t] # "idle",
             NEW c, online => c.payment # "not_required",
             copy' = copy \/ copy' = [copy EXCEPT ![t] = c],
             NEW r, online => r.payment # "not_required",
             row' = row \/ row' = [row EXCEPT ![on[t]] = r]
      PROVE  Priced'
  BY <1>5, <1>7, MovePriced
<1>8. ASSUME NEW t \in Task, SaveCancel(t) \/ Announce(t) \/ Gives(t)
      PROVE  Priced'
  <2>1. CASE SaveCancel(t)
    BY <1>5, <1>7, <2>1 DEF SaveCancel, Turns, Saves, Writes
  <2>2. CASE Announce(t)
    BY <1>0, <1>7, <2>2 DEF Announce, Ends
  <2>3. CASE Gives(t)
    BY <1>0, <1>7, <2>3 DEF Gives, Ends
  <2> QED BY <1>8, <2>1, <2>2, <2>3
<1>9. CASE Consume \/ CapturedFails
  <2>1. CASE SavePaid
    <3> DEFINE c == [copy[Consumer] EXCEPT !.payment = "paid"]
    <3>1. c.payment # "not_required"
      BY <1>0, <2>1 DEF TypeOK, SavePaid, Turns, Row
    <3>2. /\ UNCHANGED online /\ at[Consumer] # "idle"
          /\ copy' = [copy EXCEPT ![Consumer] = c] /\ copy'[Consumer] = c
          /\ row' = [row EXCEPT ![on[Consumer]] = c]
      BY <1>0, <2>1 DEF SavePaid, Turns, Saves, Writes, TypeOK
    <3> HIDE DEF c
    <3> QED BY <1>0, <1>7, <3>1, <3>2
  <2>2. CASE HandOver
    <3> DEFINE c == [copy[Consumer] EXCEPT !.held = FALSE]
    <3>1. c.payment = copy[Consumer].payment
      BY <1>0, <2>2 DEF TypeOK, HandOver, Turns, Row
    <3>2. UNCHANGED <<online, row>> /\ at[Consumer] # "idle"
          /\ copy' = [copy EXCEPT ![Consumer] = c]
      BY <2>2 DEF HandOver, Turns
    <3> HIDE DEF c
    <3> QED BY <1>0, <1>5, <1>7, <3>1, <3>2
  <2>3. CASE ClearHeld
    BY <1>0, <1>5, <1>7, <2>3 DEF ClearHeld, Saves, Writes, Ends
  <2>4. CASE LookAgain
    BY <1>0, <1>4, <1>5, <1>7, <2>4 DEF LookAgain, Turns
  <2>5. CASE LookRefused
    BY <1>0, <1>7, <2>5 DEF LookRefused, Ends
  <2>6. CASE CapturedFails
    BY <1>0, <1>7, <2>6 DEF CapturedFails, Ends
  <2> QED BY <1>0, <1>8, <1>9, <2>1, <2>2, <2>3, <2>4, <2>5, <2>6 DEF Consume
<1>10. ASSUME NEW d \in Desk, Serve(d)
       PROVE  Priced'
  <2>1. ASSUME NEW s \in Shipment, ReadCancel(d, s) \/ ReadReschedule(d, s)
        PROVE  Priced'
    BY <1>0, <1>3, <1>4, <2>1 DEF ReadCancel, ReadReschedule
  <2>2. ASSUME NEW s \in Shipment, SweepExpired(d, s)
        PROVE  Priced'
    BY <1>0, <1>3, <1>4, <2>2 DEF SweepExpired, Updates, Writes
  <2>3. ASSUME NEW s \in Shipment, NEW status \in Override, ReadOverride(d, s, status)
        PROVE  Priced'
    BY <1>0, <1>3, <1>4, <2>3 DEF ReadOverride
  <2>4. CASE SaveStatus(d)
    BY <1>0, <1>5, <1>7, <2>4 DEF SaveStatus, Saves, Writes, Ends
  <2> QED BY <1>0, <1>8, <1>10, <2>1, <2>2, <2>3, <2>4 DEF Serve
<1>11. ASSUME NEW s \in Shipment, NEW to \in Reported, Progress(s, to)
       PROVE  Priced'
  BY <1>0, <1>4, <1>5, <1>11, MovePriced DEF Progress, Updates, Writes
<1>12. CASE Payments
  BY <1>1, <1>12 DEF Payments, Pay, Expire, Decides, Redeliver
<1>13. CASE UNCHANGED vars
  BY <1>1, <1>13 DEF vars
<1> QED BY <1>2, <1>6, <1>8, <1>9, <1>10, <1>11, <1>12, <1>13 DEF Next

\* An attempt answers in its last step, and opens an intent for a fee only.
LEMMA AnsweredStep ==
  ASSUME TypeOK, Answered, [Next]_vars
  PROVE  Answered'
<1> USE DEF book_vars, task_vars, ghosts
<1>1. CASE UNCHANGED <<online, book_vars>>
  BY <1>1 DEF Answered
<1>2. ASSUME NEW s \in Shipment, Create(s)
      PROVE  Answered'
  <2>0. PICK from, to \in BookStep : Books(s, from, to) /\ from # "over"
    BY <1>2 DEF Create, Replay, CheckKey, Redeem, RedeemRefused, OpenIntent, IntentFails,
       SaveRow, SaveFails, SavePieces, PiecesFail, PublishCreated, Release, Abandon, BookStep, Books
  <2>1. /\ online' = online /\ book[s] = from /\ book[s] # "over" /\ told[s] = None
        /\ \A x \in Shipment : book'[x] = IF x = s THEN to ELSE book[x]
    BY <2>0 DEF Books, TypeOK, Answered
  <2>2. ASSUME NEW x \in Shipment, told'[x] # None
        PROVE  book'[x] = "over"
    <3>1. CASE x # s
      BY <1>2, <2>1, <2>2, <3>1 DEF Create, Replay, CheckKey, Redeem, RedeemRefused, OpenIntent,
         IntentFails, SaveRow, SaveFails, SavePieces, PiecesFail, PublishCreated, Release, Abandon,
         Answered, TypeOK
    <3>2. CASE x = s
      BY <1>2, <2>1, <2>2, <3>2 DEF Create, Replay, CheckKey, Redeem, RedeemRefused, OpenIntent,
         IntentFails, SaveRow, SaveFails, SavePieces, PiecesFail, PublishCreated, Release, Abandon,
         TypeOK, Books
    <3> QED BY <3>1, <3>2
  <2>3. ASSUME NEW x \in Shipment, x \in intent' \/ book'[x] \in {"redeem", "intent"}
        PROVE  online'
    BY <1>2, <2>1, <2>3 DEF Create, Replay, CheckKey, Redeem, RedeemRefused, OpenIntent,
         IntentFails, SaveRow, SaveFails, SavePieces, PiecesFail, PublishCreated, Release, Abandon,
         Answered, Books, TypeOK
  <2> QED BY <2>2, <2>3 DEF Answered
<1>3. UNCHANGED <<online, book_vars>> \/ \E s \in Shipment : Create(s)
  BY DEF Next, vars, Take, TakeCaptured, SkipCaptured, TakeFailed, SkipFailed, Progress, Payments,
     Pay, Expire, Decides, Redeliver, Consume, SavePaid, HandOver, ClearHeld, LookAgain,
     LookRefused, SaveCancel, Announce, CapturedFails, Serve, ReadCancel, ReadReschedule,
     SweepExpired, ReadOverride, SaveStatus, Gives
<1> QED BY <1>1, <1>2, <1>3

\* What payments says of an intent stands, and the consumer cancels for a failure.
LEMMA ToldStep ==
  ASSUME TypeOK, Kept, Answered, Told, [Next]_vars
  PROVE  Told'
<1> USE DEF book_vars, task_vars, ghosts
<1>0. Consumer \in Task /\ Consumer \notin Desk
  BY ConsumerAssumption DEF Task
<1>1. ASSUME UNCHANGED <<told, intent, verdict>>,
             at'[Consumer] \in {"look", "cancel", "announce"} =>
               <<"failed", on'[Consumer]>> \in verdict
      PROVE  Told'
  BY <1>1 DEF Told
<1>2. CASE UNCHANGED <<told, intent, verdict, task_vars>>
  BY <1>1, <1>2 DEF Told
<1>3. ASSUME NEW s \in Shipment, Create(s)
      PROVE  Told'
  <2>1. UNCHANGED <<verdict, at, on>> /\ intent \subseteq intent'
        /\ book[s] # "over" /\ \A x \in Shipment \ {s} : told'[x] = told[x]
    BY <1>3 DEF Create, Replay, CheckKey, Redeem, RedeemRefused, OpenIntent, IntentFails,
       SaveRow, SaveFails, SavePieces, PiecesFail, PublishCreated, Release, Abandon, Books, TypeOK
  <2>2. <<"captured", s>> \notin verdict
    BY <2>1, NoneAssumption DEF Told, Answered
  <2> QED BY <2>1, <2>2 DEF Told
<1>4. ASSUME NEW s \in Shipment, NEW k \in {"captured", "failed"}, Decides(k, s),
             k = "captured" => told[s] = s
      PROVE  Told'
  <2>1. /\ UNCHANGED <<told, intent, at, on>> /\ verdict' = verdict \cup {<<k, s>>} /\ s \in intent
        /\ <<"captured", s>> \notin verdict /\ <<"failed", s>> \notin verdict
    BY <1>4 DEF Decides
  <2> QED BY <1>4, <2>1 DEF Told
<1>5. CASE Payments
  BY <1>2, <1>4, <1>5 DEF Payments, Pay, Expire, Redeliver
<1>6. ASSUME NEW s \in Shipment, Take(s)
      PROVE  Told'
  <2>1. CASE SkipCaptured(s) \/ SkipFailed(s)
    BY <1>2, <2>1 DEF SkipCaptured, SkipFailed
  <2>2. CASE TakeCaptured(s)
    BY <1>0, <1>1, <2>2 DEF TakeCaptured, Reads, TypeOK
  <2>3. CASE TakeFailed(s)
    BY <1>0, <1>1, <2>3 DEF TakeFailed, Reads, TypeOK
  <2> QED BY <1>6, <2>1, <2>2, <2>3 DEF Take
<1>7. ASSUME NEW t \in Task, Ends(t), UNCHANGED <<told, intent, verdict>>
      PROVE  Told'
  BY <1>0, <1>1, <1>7 DEF Ends, Told, TypeOK
<1>8. ASSUME NEW t \in Task, NEW from, NEW to, NEW c, Turns(t, from, to, c),
             UNCHANGED <<told, intent, verdict>>,
             t = Consumer /\ to \in {"look", "cancel", "announce"} =>
               from \in {"look", "cancel", "announce"}
      PROVE  Told'
  BY <1>0, <1>1, <1>8 DEF Turns, Told, TypeOK
<1>9. ASSUME NEW t \in Task, SaveCancel(t) \/ Announce(t) \/ Gives(t)
      PROVE  Told'
  BY <1>7, <1>8, <1>9 DEF SaveCancel, Announce, Gives
<1>10. CASE Consume \/ CapturedFails
  <2>1. CASE SavePaid \/ HandOver \/ LookAgain
    BY <1>0, <1>8, <2>1 DEF SavePaid, HandOver, LookAgain
  <2>2. CASE ClearHeld \/ LookRefused \/ CapturedFails
    BY <1>0, <1>7, <2>2 DEF ClearHeld, LookRefused, CapturedFails
  <2> QED BY <1>0, <1>9, <1>10, <2>1, <2>2 DEF Consume
<1>11. ASSUME NEW d \in Desk, Serve(d)
       PROVE  Told'
  <2>0. d \in Task /\ d # Consumer
    BY <1>0 DEF Task
  <2>1. ASSUME NEW s \in Shipment, NEW step, NEW r, Reads(d, s, step, r),
               UNCHANGED <<told, intent, verdict>>
        PROVE  Told'
    BY <1>0, <1>1, <2>0, <2>1 DEF Reads, Told, TypeOK
  <2>2. ASSUME NEW s \in Shipment,
               \/ ReadCancel(d, s) \/ ReadReschedule(d, s) \/ SweepExpired(d, s)
               \/ \E status \in Override : ReadOverride(d, s, status)
        PROVE  Told'
    BY <2>1, <2>2 DEF ReadCancel, ReadReschedule, SweepExpired, ReadOverride
  <2>3. CASE SaveStatus(d)
    BY <1>7, <2>0, <2>3 DEF SaveStatus
  <2> QED BY <1>9, <1>11, <2>0, <2>2, <2>3 DEF Serve
<1>12. ASSUME NEW s \in Shipment, NEW to \in Reported, Progress(s, to)
       PROVE  Told'
  BY <1>2, <1>12 DEF Progress
<1>13. CASE UNCHANGED vars
  BY <1>2, <1>13 DEF vars
<1> QED BY <1>3, <1>5, <1>6, <1>9, <1>10, <1>11, <1>12, <1>13 DEF Next

\* A captured message is only dropped once its shipment is out.
LEMMA SightStep ==
  ASSUME TypeOK, Kept, Priced, Answered, Told, PaidInSight, [Next]_vars
  PROVE  PaidInSight'
<1> USE DEF book_vars, task_vars, ghosts
<1>0. Consumer \in Task /\ Consumer \notin Desk
  BY ConsumerAssumption DEF Task
<1>1. ASSUME verdict' \subseteq verdict, todo \subseteq todo', passed \subseteq passed',
             out \subseteq out'
      PROVE  PaidInSight'
  BY <1>1 DEF PaidInSight
\* A handler that failed leaves its message, or its message was passed over.
<1>2. ASSUME NEW t \in Task, Fails(t), UNCHANGED verdict, out \subseteq out'
      PROVE  PaidInSight'
  <2>1. todo \cup passed \subseteq todo' \cup passed'
    BY <1>2 DEF Fails
  <2> QED BY <1>2, <2>1 DEF PaidInSight
\* A commit is of a shipment that is out, or of a failure.
<1>3. ASSUME NEW t \in Task, Commits(t), UNCHANGED <<verdict, passed, out>>,
             t = Consumer => on[t] \in out \/ <<"failed", on[t]>> \in verdict
      PROVE  PaidInSight'
  <2>1. ASSUME NEW x \in Shipment, <<"captured", x>> \in verdict, x \notin out
        PROVE  <<"captured", x>> \in todo' \cup passed'
    <3>1. <<"captured", x>> \in todo \cup passed
      BY <2>1 DEF PaidInSight
    <3>2. t = Consumer => x # on[t]
      BY <1>3, <2>1 DEF Told
    <3> QED BY <1>3, <3>1, <3>2 DEF Commits
  <2> QED BY <1>3, <2>1 DEF PaidInSight
<1>4. ASSUME NEW s \in Shipment, Create(s)
      PROVE  PaidInSight'
  BY <1>1, <1>4 DEF Create, Replay, CheckKey, Redeem, RedeemRefused, OpenIntent, IntentFails,
     SaveRow, SaveFails, SavePieces, PiecesFail, PublishCreated, Release, Abandon, Books
<1>5. CASE Payments
  <2>1. ASSUME NEW k, NEW s \in Shipment, Decides(k, s)
        PROVE  PaidInSight'
    BY <2>1 DEF Decides, PaidInSight
  <2> QED BY <1>1, <1>5, <2>1 DEF Payments, Pay, Expire, Redeliver
<1>6. ASSUME NEW s \in Shipment, SkipCaptured(s)
      PROVE  PaidInSight'
  <2>1. <<"captured", s>> \in verdict /\ ~(Unhandled(row[s]) /\ row[s].held)
        /\ todo' = todo \ {<<"captured", s>>} /\ UNCHANGED <<verdict, passed, out>>
    BY <1>6 DEF SkipCaptured, TypeOK
  <2>2. Booked(s) /\ online
    <3>1. told[s] = s /\ told[s] # None
      BY <2>1, NoneAssumption DEF Told
    <3>2. Booked(s)
      BY <3>1 DEF Kept, BookedOnce
    <3>3. s \in intent
      <4> DEFINE m == <<"captured", s>>
      <4>1. m[2] \in intent
        BY <2>1 DEF Told
      <4> QED BY <4>1
    <3> QED BY <3>2, <3>3 DEF Answered
  <2>3. row[s] \in Row /\ row[s].payment # "not_required"
    BY <2>2 DEF Booked, TypeOK, Priced
  <2>4. row[s].payment \in {"awaiting_payment", "paid"} /\ row[s].held \in BOOLEAN
    BY <2>3 DEF Row, Payment
  <2>5. row[s].held \/ s \in out
    BY <2>2 DEF Kept, HeldUntilOut
  <2>6. s \in out
    BY <2>1, <2>4, <2>5 DEF Unhandled
  <2> QED BY <2>1, <2>6 DEF PaidInSight
<1>7. ASSUME NEW s \in Shipment, SkipFailed(s)
      PROVE  PaidInSight'
  BY <1>7 DEF SkipFailed, PaidInSight
<1>8. ASSUME NEW s \in Shipment, TakeCaptured(s) \/ TakeFailed(s)
      PROVE  PaidInSight'
  BY <1>1, <1>8 DEF TakeCaptured, TakeFailed
<1>9. ASSUME NEW t \in Task, Announce(t)
      PROVE  PaidInSight'
  <2>1. t = Consumer => <<"failed", on[t]>> \in verdict
    BY <1>9 DEF Announce, Told
  <2> QED BY <1>3, <1>9, <2>1 DEF Announce
<1>10. ASSUME NEW t \in Task, SaveCancel(t) \/ Gives(t)
       PROVE  PaidInSight'
  BY <1>1, <1>2, <1>10 DEF SaveCancel, Gives
<1>11. CASE ClearHeld
  <2>1. on[Consumer] \in out
    BY <1>11 DEF ClearHeld, Kept, Handing
  <2> QED BY <1>0, <1>3, <1>11, <2>1 DEF ClearHeld
<1>12. CASE Consume \/ CapturedFails
  <2>1. CASE SavePaid \/ HandOver \/ LookAgain
    BY <1>1, <2>1 DEF SavePaid, HandOver, LookAgain
  <2>2. CASE LookRefused \/ CapturedFails
    BY <1>0, <1>2, <2>2 DEF LookRefused, CapturedFails
  <2> QED BY <1>0, <1>9, <1>10, <1>11, <1>12, <2>1, <2>2 DEF Consume
<1>13. ASSUME NEW d \in Desk, Serve(d)
       PROVE  PaidInSight'
  <2>1. CASE SaveCancel(d) \/ Announce(d)
    BY <1>9, <1>10, <2>1 DEF Task
  <2>2. CASE ~(SaveCancel(d) \/ Announce(d))
    BY <1>1, <1>13, <2>2 DEF Serve, ReadCancel, ReadReschedule, SweepExpired, ReadOverride,
       SaveStatus
  <2> QED BY <2>1, <2>2
<1>14. ASSUME NEW s \in Shipment, NEW to \in Reported, Progress(s, to)
       PROVE  PaidInSight'
  BY <1>1, <1>14 DEF Progress
<1>15. CASE UNCHANGED vars
  BY <1>1, <1>15 DEF vars
<1> QED BY <1>4, <1>5, <1>6, <1>7, <1>8, <1>10, <1>12, <1>13, <1>14, <1>15 DEF Next, Take

\* Nothing that was paid for is lost from sight: the safety half of
\* PaidReachesDispatch, for any attempts, requests and failures.
THEOREM NothingPaidIsLost == Spec => []PaidInSight
<1>1. Init => Priced /\ Answered /\ Told /\ PaidInSight
  BY DEF Init, Priced, Answered, Told, PaidInSight, NoRow, Task
<1>2. TypeOK /\ Kept /\ (Priced /\ Answered /\ Told /\ PaidInSight) /\ [Next]_vars
        => (Priced /\ Answered /\ Told /\ PaidInSight)'
  BY PricedStep, AnsweredStep, ToldStep, SightStep
<1> QED BY <1>1, <1>2, TypeCorrect, KeptAlways, PTL DEF Spec
=============================================================================
