------------------------ MODULE PaymentIntentProofs ------------------------
(***************************************************************************)
(* Theorems of PaymentIntent.  As long as no save goes over a row it was   *)
(* not made from, whoever holds a claim is the only one at the gateway,    *)
(* the record follows the money, and the products hear one verdict.        *)
(***************************************************************************)
EXTENDS PaymentIntent, TLAPS

ByClaim == {"refund", "capture", "void"}

\* What the claims can be made on and settled to: somebody paid.
Paid == {"authorized", "captured", "voided", "refunding", "refunded"}

Fresh == {"created", "pending"}

\* What a claim is settled to: what it was made on, or what it was made for.
Outcomes(op) == IF op = "refund" THEN {"captured", "refunded"} ELSE {"authorized", Claimed(op)}

\* The two rails: a sale is refunded, a hold is captured or voided.
Rails ==
  /\ "authorized" \in sent => action = "authorize"
  /\ "captured" \in sent => action = "sale"
  /\ row.status = "authorized" => action = "authorize"
  /\ row.owed => action = "sale"

RailsOf(q) ==
  req[q] # Idle =>
    /\ req[q].op \in {"authorized", "capture", "void"} => action = "authorize"
    /\ req[q].op = "refund" => action = "sale"
    /\ req[q].copy.status = "authorized" => action = "authorize"
    /\ req[q].copy.owed => action = "sale"

\* What each await knows of the one before it.
Stage(q) ==
  req[q] # Idle =>
    /\ req[q].op \in Verdict => req[q].op \in sent
    /\ req[q].at \in {"check", "read"} => req[q].op \in Verdict
    /\ req[q].at \in {"mark", "fetch"} => req[q].op = "refund"
    /\ req[q].at \in {"claim", "call"} =>
         /\ req[q].op \in ByClaim
         /\ req[q].copy.status = IF req[q].op = "refund" THEN "captured" ELSE "authorized"
    /\ req[q].at = "save" =>
         /\ req[q].op \in Verdict =>
              /\ CanApply(req[q].op, req[q].seen)
              /\ req[q].copy = Apply(req[q].op, req[q].seen)
         /\ req[q].op = "expire" =>
              /\ req[q].seen.status \in Fresh
              /\ req[q].copy.status = "expired" /\ req[q].copy.owed = req[q].seen.owed
         /\ req[q].op \in ByClaim => req[q].copy.status \in Outcomes(req[q].op)
    /\ req[q].at = "publish" => req[q].op \notin {"refund", "void"}
    /\ req[q].at = "publish" /\ req[q].op = "capture" => req[q].copy.status = "captured"

\* The row is what the one holder claimed.
Held ==
  ~overwritten =>
    /\ \A q \in Request : Holding(q) => row.status = Claimed(req[q].op)
    /\ \A p, q \in Request : Holding(p) /\ Holding(q) => p = q

Basics == TypeOK /\ Rails /\ (\A q \in Request : RailsOf(q) /\ Stage(q))

-----------------------------------------------------------------------------
(* Type correctness.                                                       *)

Stages == {"check", "read", "mark", "fetch", "claim", "call", "save", "publish"}

\* Rewriting a row's status or what it owes gives a row.
LEMMA RowUpdate ==
  ASSUME NEW r \in Row
  PROVE  /\ \A s \in Status : /\ [r EXCEPT !.status = s] \in Row
                              /\ [r EXCEPT !.status = s].status = s
                              /\ [r EXCEPT !.status = s].paid = r.paid
                              /\ [r EXCEPT !.status = s].owed = r.owed
         /\ [r EXCEPT !.owed = TRUE] \in Row
         /\ [r EXCEPT !.owed = TRUE].status = r.status
         /\ [r EXCEPT !.owed = TRUE].owed = TRUE
         /\ r.status \in Status
  BY DEF Row

\* What a webhook makes of a row is a row with the webhook's status.
LEMMA ApplyRow ==
  ASSUME NEW r \in Row, NEW k \in Verdict
  PROVE  /\ Apply(k, r) \in Row
         /\ Apply(k, r).status = k
         /\ Apply(k, r).owed = r.owed
  <1> k \in Status BY DEF Verdict, Status
  <1> QED BY DEF Apply, Row

\* The fields of a request.
LEMMA JobFields ==
  ASSUME NEW j \in Job
  PROVE  j.op \in Op /\ j.at \in Stages /\ j.copy \in Row /\ j.seen \in Row
  BY DEF Job, Stages

\* A request that was just begun.
LEMMA JobNew ==
  ASSUME NEW o \in Op, NEW a \in Stages, NEW c \in Row, NEW r \in Row
  PROVE  [op |-> o, at |-> a, copy |-> c, seen |-> r] \in Job
  BY DEF Job, Stages

\* A request that is served is told from an idle one by its operation.
LEMMA JobNotIdle ==
  ASSUME NEW j \in Job
  PROVE  j # Idle /\ j.op # "none"
  BY DEF Job, Idle, Op, Verdict

-----------------------------------------------------------------------------
(* What each step does to the request that takes it, field by field.       *)

Others(q) == \A p \in Request : p # q => req'[p] = req[p]

Becomes(q, o, a, c, r) ==
  /\ req'[q] \in Job
  /\ req'[q].op = o /\ req'[q].at = a /\ req'[q].copy = c /\ req'[q].seen = r
  /\ DOMAIN req' = Request /\ Others(q)

Ends(q) == req'[q] = Idle /\ DOMAIN req' = Request /\ Others(q)

\* A request that turns to something has exactly that as its fields.
LEMMA Turning ==
  ASSUME TypeOK, NEW q \in Request, NEW o \in Op, NEW a \in Stages, NEW c \in Row,
         NEW r \in Row, Turns(q, o, a, c, r)
  PROVE  Becomes(q, o, a, c, r)
  <1> DEFINE j == [op |-> o, at |-> a, copy |-> c, seen |-> r]
  <1>1. j \in Job
    BY JobNew
  <1>2. j.op = o /\ j.at = a /\ j.copy = c /\ j.seen = r
    OBVIOUS
  <1>3. req' = [req EXCEPT ![q] = j]
    BY DEF Turns
  <1> HIDE DEF j
  <1> QED BY <1>1, <1>2, <1>3 DEF Becomes, Others, TypeOK

\* Drops makes the request idle.
LEMMA Dropping ==
  ASSUME TypeOK, NEW q \in Request, Drops(q)
  PROVE  Ends(q)
  BY DEF Drops, Ends, Others, TypeOK

\* A request that is at some await is a job, with the fields of one.
LEMMA AtJob ==
  ASSUME TypeOK, NEW q \in Request, NEW a, At(q, a)
  PROVE  /\ req[q] \in Job /\ req[q].at = a /\ req[q] # Idle
         /\ req[q].op \in Op /\ req[q].copy \in Row /\ req[q].seen \in Row
  BY JobFields DEF TypeOK, At

Elsewhere == UNCHANGED <<action, row, money, returns, sent, events, faults, overwritten, cut>>

\* Steps that only read: a request begins, goes on to a later await, or ends.
Reads(q, o, a, c, r) ==
  \/ /\ req[q] = Idle /\ c = row /\ r = row
     /\ \/ o \in Verdict /\ o \in sent /\ a \in {"check", "read"}
        \/ o = "refund" /\ a = "mark" /\ action = "sale" /\ row.status = "captured"
        \/ o = "refund" /\ a = "fetch" /\ row.owed
        \/ o \in {"capture", "void"} /\ a = "claim" /\ row.status = "authorized"
  \/ /\ req[q] = Idle /\ o = "expire" /\ a = "save" /\ r = row
     /\ row.status \in Fresh /\ c.status = "expired" /\ c.owed = row.owed
  \/ At(q, "check") /\ o = req[q].op /\ a = "read" /\ c = req[q].copy /\ r = req[q].seen
  \/ /\ At(q, "read") /\ o = req[q].op /\ o \in Verdict /\ a = "save" /\ r = row
     /\ CanApply(o, row) /\ c = Apply(o, row)
  \/ /\ At(q, "fetch") /\ o = "refund" /\ a = "claim" /\ r = row
     /\ c.status = "captured" /\ c.owed = row.owed

Reading(q) ==
  /\ Elsewhere
  /\ \/ Ends(q) /\ \E a \in {"check", "read", "fetch", "claim"} : At(q, a)
     \/ \E o \in Op, a \in Stages, c \in Row, r \in Row :
          Becomes(q, o, a, c, r) /\ Reads(q, o, a, c, r)

\* A webhook delivered.
LEMMA DeliverReads ==
  ASSUME TypeOK, NEW q \in Request, NEW k \in Verdict, Deliver(q, k)
  PROVE  Reading(q)
  <1> DEFINE a == IF k = "failed" THEN "read" ELSE "check"
  <1>1. a \in {"check", "read"} /\ a \in Stages /\ k \in Op /\ row \in Row
    BY DEF Stages, Op, TypeOK
  <1>2. req[q] = Idle /\ Turns(q, k, a, row, row) /\ k \in sent /\ Elsewhere
    BY DEF Deliver, Begin, Elsewhere, gateway, ghosts
  <1> HIDE DEF a
  <1>3. Becomes(q, k, a, row, row)
    BY <1>1, <1>2, Turning
  <1> QED BY <1>1, <1>2, <1>3 DEF Reading, Reads

\* A webhook looked up by its payment.
LEMMA CheckReads ==
  ASSUME TypeOK, NEW q \in Request, Check(q)
  PROVE  Reading(q)
  <1>1. At(q, "check") /\ Elsewhere
    BY DEF Check, Elsewhere, gateway, ghosts
  <1>2. req[q].op \in Op /\ req[q].copy \in Row /\ req[q].seen \in Row /\ "read" \in Stages
    BY <1>1, AtJob DEF Stages
  <1>3. CASE Drops(q)
    BY <1>1, <1>3, Dropping DEF Reading
  <1>4. CASE Goes(q, "read")
    <2>1. Becomes(q, req[q].op, "read", req[q].copy, req[q].seen)
      BY <1>2, <1>4, Turning DEF Goes
    <2> QED BY <1>1, <1>2, <2>1 DEF Reading, Reads
  <1> QED BY <1>3, <1>4 DEF Check

\* A webhook's read of the row and its transition in memory.
LEMMA ReadReads ==
  ASSUME TypeOK, NEW q \in Request, Read(q), Stage(q)
  PROVE  Reading(q)
  <1>1. At(q, "read") /\ Elsewhere
    BY DEF Read, Elsewhere, gateway, ghosts
  <1>2. /\ req[q].op \in Op /\ req[q].op \in Verdict /\ "save" \in Stages /\ row \in Row
        /\ Apply(req[q].op, row) \in Row
    <2>1. req[q].op \in Op /\ req[q].op \in Verdict
      BY <1>1, AtJob DEF Stage
    <2> QED BY <2>1, ApplyRow DEF Stages, TypeOK
  <1>3. CASE Drops(q)
    BY <1>1, <1>3, Dropping DEF Reading
  <1>4. CASE CanApply(req[q].op, row) /\ Turns(q, req[q].op, "save", Apply(req[q].op, row), row)
    <2>1. Becomes(q, req[q].op, "save", Apply(req[q].op, row), row)
      BY <1>2, <1>4, Turning
    <2> QED BY <1>1, <1>2, <1>4, <2>1 DEF Reading, Reads
  <1> QED BY <1>3, <1>4 DEF Read

\* An intent listed as expired.
LEMMA ListExpiredReads ==
  ASSUME TypeOK, NEW q \in Request, ListExpired(q)
  PROVE  Reading(q)
  <1> DEFINE c == [row EXCEPT !.status = "expired"]
  <1>1. c \in Row /\ c.status = "expired" /\ c.owed = row.owed /\ row \in Row
    BY RowUpdate DEF TypeOK, Status
  <1>2. /\ req[q] = Idle /\ Turns(q, "expire", "save", c, row) /\ Elsewhere
        /\ row.status \in Fresh
    BY DEF ListExpired, Elsewhere, gateway, ghosts, Fresh
  <1> HIDE DEF c
  <1>3. "expire" \in Op /\ "save" \in Stages
    BY DEF Op, Stages
  <1>4. Becomes(q, "expire", "save", c, row)
    BY <1>1, <1>2, <1>3, Turning
  <1> QED BY <1>1, <1>2, <1>3, <1>4 DEF Reading, Reads

\* A refund asked for, by a cancellation or by the sweep.
LEMMA RefundReads ==
  ASSUME TypeOK, NEW q \in Request, AskRefund(q) \/ SweepRefund(q)
  PROVE  Reading(q)
  <1>1. PICK a \in {"mark", "fetch"} :
          /\ Begin(q, "refund", a)
          /\ a = "mark" => action = "sale" /\ row.status = "captured"
          /\ a = "fetch" => row.owed
    BY DEF AskRefund, SweepRefund
  <1>2. Elsewhere
    BY DEF AskRefund, SweepRefund, Elsewhere, gateway, ghosts
  <1>3. "refund" \in Op /\ a \in Stages /\ row \in Row
    BY DEF Op, Stages, TypeOK
  <1>4. req[q] = Idle /\ Turns(q, "refund", a, row, row)
    BY <1>1 DEF Begin
  <1>5. Becomes(q, "refund", a, row, row)
    BY <1>3, <1>4, Turning
  <1> QED BY <1>1, <1>2, <1>3, <1>4, <1>5 DEF Reading, Reads

\* refund's own read.
LEMMA FetchReads ==
  ASSUME TypeOK, NEW q \in Request, Fetch(q)
  PROVE  Reading(q)
  <1>1. At(q, "fetch") /\ Elsewhere
    BY DEF Fetch, Elsewhere, gateway, ghosts
  <1> DEFINE c == [row EXCEPT !.status = "captured"]
  <1>2. c \in Row /\ c.status = "captured" /\ c.owed = row.owed /\ row \in Row
    BY RowUpdate DEF TypeOK, Status
  <1>3. Drops(q) \/ Turns(q, "refund", "claim", c, row)
    BY DEF Fetch
  <1> HIDE DEF c
  <1>4. "refund" \in Op /\ "claim" \in Stages
    BY DEF Op, Stages
  <1>5. CASE Drops(q)
    BY <1>1, <1>5, Dropping DEF Reading
  <1>6. CASE Turns(q, "refund", "claim", c, row)
    <2>1. Becomes(q, "refund", "claim", c, row)
      BY <1>2, <1>4, <1>6, Turning
    <2> QED BY <1>1, <1>2, <1>4, <2>1 DEF Reading, Reads
  <1> QED BY <1>3, <1>5, <1>6

\* A capture or a void asked for.
LEMMA AskReads ==
  ASSUME TypeOK, NEW q \in Request, NEW op \in {"capture", "void"}, Ask(q, op)
  PROVE  Reading(q)
  <1>1. /\ req[q] = Idle /\ Turns(q, op, "claim", row, row) /\ Elsewhere
        /\ row.status = "authorized"
    BY DEF Ask, Begin, Elsewhere, gateway, ghosts
  <1>2. op \in Op /\ "claim" \in Stages /\ row \in Row
    BY DEF Op, Stages, TypeOK
  <1>3. Becomes(q, op, "claim", row, row)
    BY <1>1, <1>2, Turning
  <1> QED BY <1>1, <1>2, <1>3 DEF Reading, Reads

\* The steps that write, each in the terms the invariants need.
Marks(q) ==
  /\ At(q, "mark")
  /\ row' \in Row /\ row'.status = row.status /\ row'.owed /\ action = "sale"
  /\ Becomes(q, req[q].op, "fetch", req[q].copy, req[q].seen)
  /\ UNCHANGED <<action, money, returns, sent, events, faults, overwritten, cut>>

Wins(q) ==
  /\ At(q, "claim") /\ req[q].op \in ByClaim /\ Claimable(req[q].op)
  /\ row' \in Row /\ row'.status = Claimed(req[q].op) /\ row'.owed = row.owed
  /\ Becomes(q, req[q].op, "call", req[q].copy, row')
  /\ UNCHANGED <<action, money, returns, sent, events, faults, overwritten, cut>>

Calls(q) ==
  /\ At(q, "call") /\ req[q].op \in ByClaim
  /\ Effect(req[q].op)
  /\ \E c \in Row : /\ c.status = Done(req[q].op) /\ c.owed = req[q].copy.owed
                    /\ Becomes(q, req[q].op, "save", c, req[q].seen)
  /\ UNCHANGED <<action, row, sent, events, faults, overwritten, cut>>

Reverts(q) ==
  /\ At(q, "call") /\ req[q].op \in ByClaim
  /\ \/ UNCHANGED <<money, returns, cut>>
     \/ Effect(req[q].op) /\ cut' = TRUE
  /\ Becomes(q, req[q].op, "save", req[q].copy, req[q].seen)
  /\ faults' \in 0 .. MaxFault
  /\ UNCHANGED <<action, row, sent, events, overwritten>>

Settles(q) ==
  /\ At(q, "save")
  /\ row' = req[q].copy
  /\ overwritten' = (overwritten \/ row # req[q].seen)
  /\ \/ Ends(q)
     \/ /\ Says(req[q]) # {}
        /\ Becomes(q, req[q].op, "publish", req[q].copy, req[q].seen)
  /\ UNCHANGED <<action, money, returns, sent, events, faults, cut>>

Loses(q) ==
  /\ At(q, "save")
  /\ Ends(q)
  /\ cut' = (cut \/ req[q].op \in ByClaim)
  /\ faults' \in 0 .. MaxFault
  /\ UNCHANGED <<action, row, money, returns, sent, events, overwritten>>

Tells(q) ==
  /\ At(q, "publish")
  /\ events' = events \/ events' = events \cup Says(req[q])
  /\ Ends(q)
  /\ faults' \in 0 .. MaxFault
  /\ UNCHANGED <<action, row, money, returns, sent, overwritten, cut>>

Dies ==
  /\ DOMAIN req' = Request /\ \A q \in Request : req'[q] = Idle
  /\ cut' = (cut \/ \E q \in Request : Holding(q))
  /\ faults' \in 0 .. MaxFault
  /\ UNCHANGED <<action, row, money, returns, sent, events, overwritten>>

\* A fault that happens is still within the bound.
LEMMA FaultCount ==
  ASSUME TypeOK, Fails
  PROVE  faults' \in 0 .. MaxFault
  BY FaultAssumption DEF TypeOK, Fails

\* mark_refund_requested.
LEMMA MarkMarks ==
  ASSUME TypeOK, NEW q \in Request, Mark(q), Stage(q), RailsOf(q)
  PROVE  Marks(q)
  <1>1. /\ At(q, "mark") /\ Goes(q, "fetch") /\ row' = [row EXCEPT !.owed = TRUE]
        /\ UNCHANGED <<action, money, returns, sent, events, faults, overwritten, cut>>
    BY DEF Mark, gateway, ghosts
  <1>2. /\ req[q] # Idle /\ req[q].at = "mark"
        /\ req[q].op \in Op /\ req[q].copy \in Row /\ req[q].seen \in Row
        /\ "fetch" \in Stages
    BY <1>1, AtJob DEF Stages
  <1>3. action = "sale"
    BY <1>2 DEF Stage, RailsOf
  <1>4. row' \in Row /\ row'.status = row.status /\ row'.owed
    BY <1>1, RowUpdate DEF TypeOK
  <1>5. Becomes(q, req[q].op, "fetch", req[q].copy, req[q].seen)
    BY <1>1, <1>2, Turning DEF Goes
  <1> QED BY <1>1, <1>3, <1>4, <1>5 DEF Marks

\* The conditional UPDATE, won or lost.
LEMMA ClaimWins ==
  ASSUME TypeOK, NEW q \in Request, Claim(q), Stage(q)
  PROVE  Reading(q) \/ Wins(q)
  <1>1. /\ At(q, "claim")
        /\ UNCHANGED <<action, money, returns, sent, events, faults, overwritten, cut>>
    BY DEF Claim, gateway, ghosts
  <1>2. /\ req[q] # Idle /\ req[q].at = "claim" /\ req[q].op \in ByClaim
        /\ req[q].op \in Op /\ req[q].copy \in Row /\ req[q].seen \in Row
        /\ "call" \in Stages /\ row \in Row
    BY <1>1, AtJob DEF Stages, Stage, TypeOK
  <1>3. CASE Drops(q) /\ UNCHANGED row
    BY <1>1, <1>3, Dropping DEF Reading, Elsewhere
  <1>4. CASE ~(Drops(q) /\ UNCHANGED row)
    <2> DEFINE r == [row EXCEPT !.status = Claimed(req[q].op)]
    <2>1. Claimed(req[q].op) \in Status
      BY <1>2 DEF Claimed, ByClaim, Status
    <2>2. r \in Row /\ r.status = Claimed(req[q].op) /\ r.owed = row.owed
      BY <1>2, <2>1, RowUpdate
    <2>3. Claimable(req[q].op) /\ row' = r /\ Turns(q, req[q].op, "call", req[q].copy, r)
      BY <1>4 DEF Claim
    <2> HIDE DEF r
    <2>4. Becomes(q, req[q].op, "call", req[q].copy, r)
      BY <1>2, <2>2, <2>3, Turning
    <2> QED BY <1>1, <1>2, <2>2, <2>3, <2>4 DEF Wins
  <1> QED BY <1>3, <1>4

\* The gateway said Ok.
LEMMA CallCalls ==
  ASSUME TypeOK, NEW q \in Request, Call(q), Stage(q)
  PROVE  Calls(q)
  <1> DEFINE c == [req[q].copy EXCEPT !.status = Done(req[q].op)]
  <1>1. /\ At(q, "call") /\ Effect(req[q].op) /\ Saves(q, c)
        /\ UNCHANGED <<action, row, sent, events, faults, overwritten, cut>>
    BY DEF Call, ghosts
  <1>2. /\ req[q] # Idle /\ req[q].at = "call" /\ req[q].op \in ByClaim
        /\ req[q].op \in Op /\ req[q].copy \in Row /\ req[q].seen \in Row
        /\ "save" \in Stages
    BY <1>1, AtJob DEF Stages, Stage
  <1>3. Done(req[q].op) \in Status
    BY <1>2 DEF Done, Claimed, ByClaim, Status
  <1>4. c \in Row /\ c.status = Done(req[q].op) /\ c.owed = req[q].copy.owed
    BY <1>2, <1>3, RowUpdate
  <1> HIDE DEF c
  <1>5. Becomes(q, req[q].op, "save", c, req[q].seen)
    BY <1>1, <1>2, <1>4, Turning DEF Saves
  <1> QED BY <1>1, <1>2, <1>4, <1>5 DEF Calls

\* The gateway said no, or was not heard.
LEMMA CallFailsReverts ==
  ASSUME TypeOK, NEW q \in Request, CallFails(q), Stage(q)
  PROVE  Reverts(q)
  <1>1. /\ At(q, "call") /\ Goes(q, "save")
        /\ UNCHANGED <<action, row, sent, events, overwritten>>
        /\ UNCHANGED <<money, returns, cut>> \/ (Effect(req[q].op) /\ cut' = TRUE)
    BY DEF CallFails
  <1>2. /\ req[q] # Idle /\ req[q].at = "call" /\ req[q].op \in ByClaim
        /\ req[q].op \in Op /\ req[q].copy \in Row /\ req[q].seen \in Row
        /\ "save" \in Stages
    BY <1>1, AtJob DEF Stages, Stage
  <1>3. faults' \in 0 .. MaxFault
    BY FaultCount DEF CallFails, Works, TypeOK
  <1>4. Becomes(q, req[q].op, "save", req[q].copy, req[q].seen)
    BY <1>1, <1>2, Turning DEF Goes
  <1> QED BY <1>1, <1>2, <1>3, <1>4 DEF Reverts

\* The save, and the publication that may follow.
LEMMA SaveSettles ==
  ASSUME TypeOK, NEW q \in Request, Save(q)
  PROVE  Settles(q)
  <1>1. /\ At(q, "save") /\ row' = req[q].copy
        /\ overwritten' = (overwritten \/ row # req[q].seen)
        /\ (Says(req[q]) # {} /\ Goes(q, "publish")) \/ Drops(q)
        /\ UNCHANGED <<action, money, returns, sent, events, faults, cut>>
    BY DEF Save, gateway
  <1>2. /\ req[q].op \in Op /\ req[q].copy \in Row /\ req[q].seen \in Row
        /\ "publish" \in Stages
    BY <1>1, AtJob DEF Stages
  <1>3. CASE Drops(q)
    BY <1>1, <1>3, Dropping DEF Settles
  <1>4. CASE Says(req[q]) # {} /\ Goes(q, "publish")
    <2>1. Becomes(q, req[q].op, "publish", req[q].copy, req[q].seen)
      BY <1>2, <1>4, Turning DEF Goes
    <2> QED BY <1>1, <1>4, <2>1 DEF Settles
  <1> QED BY <1>1, <1>3, <1>4

\* A save that failed.
LEMMA SaveFailsLoses ==
  ASSUME TypeOK, NEW q \in Request, SaveFails(q)
  PROVE  Loses(q)
  <1>1. Drops(q)
    BY DEF SaveFails
  <1>2. Ends(q)
    BY <1>1, Dropping
  <1>3. faults' \in 0 .. MaxFault
    BY FaultCount DEF SaveFails
  <1> QED BY <1>2, <1>3 DEF SaveFails, Loses, ByClaim, gateway

\* A publication, or its failure.
LEMMA PublishTells ==
  ASSUME TypeOK, NEW q \in Request, Publish(q)
  PROVE  Tells(q)
  <1>1. Drops(q)
    BY DEF Publish
  <1>2. Ends(q)
    BY <1>1, Dropping
  <1>3. faults' \in 0 .. MaxFault
    BY FaultCount DEF Publish, Works, TypeOK
  <1> QED BY <1>2, <1>3 DEF Publish, Tells, gateway, ghosts

\* A restart.
LEMMA RestartDies ==
  ASSUME TypeOK, Restart
  PROVE  Dies
  <1>1. faults' \in 0 .. MaxFault
    BY FaultCount DEF Restart
  <1> QED BY <1>1 DEF Restart, Dies, Holding, ByClaim, gateway

\* Steps of the session and of the customer, who touch no request.
Outside == OpenSession \/ OpenFails \/ Pay \/ Decline \/ UNCHANGED vars

\* Every step is one of these.
LEMMA Cases ==
  ASSUME Basics, [Next]_vars
  PROVE  \/ Outside
         \/ \E q \in Request : Reading(q) \/ Marks(q) \/ Wins(q) \/ Calls(q) \/ Reverts(q)
                               \/ Settles(q) \/ Loses(q) \/ Tells(q)
         \/ Dies
  <1>1. CASE UNCHANGED vars \/ OpenSession \/ OpenFails \/ Pay \/ Decline
    BY <1>1 DEF Outside
  <1>2. CASE Restart
    BY <1>2, RestartDies DEF Basics
  <1>3. ASSUME NEW q \in Request,
               \/ \E k \in Verdict : Deliver(q, k)
               \/ ListExpired(q) \/ AskRefund(q) \/ SweepRefund(q)
               \/ \E op \in {"capture", "void"} : Ask(q, op)
               \/ Serve(q) \/ SaveFails(q)
        PROVE  Reading(q) \/ Marks(q) \/ Wins(q) \/ Calls(q) \/ Reverts(q)
               \/ Settles(q) \/ Loses(q) \/ Tells(q)
    <2> TypeOK /\ Stage(q) /\ RailsOf(q)
      BY DEF Basics
    <2>1. CASE \E k \in Verdict : Deliver(q, k)
      BY <2>1, DeliverReads
    <2>2. CASE ListExpired(q)
      BY <2>2, ListExpiredReads
    <2>3. CASE AskRefund(q) \/ SweepRefund(q)
      BY <2>3, RefundReads
    <2>4. CASE \E op \in {"capture", "void"} : Ask(q, op)
      BY <2>4, AskReads
    <2>5. CASE SaveFails(q)
      BY <2>5, SaveFailsLoses
    <2>6. CASE Serve(q)
      BY <2>6, CheckReads, ReadReads, MarkMarks, FetchReads, ClaimWins, CallCalls,
         CallFailsReverts, SaveSettles, PublishTells DEF Serve
    <2> QED BY <1>3, <2>1, <2>2, <2>3, <2>4, <2>5, <2>6
  <1> QED BY <1>1, <1>2, <1>3 DEF Next

-----------------------------------------------------------------------------
(* The basics: types, the two rails, and what each await knows.            *)

\* A request that turned to a job, or ended, leaves the requests well-typed.
LEMMA RequestsTyped ==
  ASSUME TypeOK, NEW q \in Request,
         Ends(q) \/ \E o, a, c, r : Becomes(q, o, a, c, r)
  PROVE  DOMAIN req' = Request /\ \A p \in Request : req'[p] = Idle \/ req'[p] \in Job
  BY DEF TypeOK, Ends, Becomes, Others

\* What a save is followed by is a verdict.
LEMMA SaysVerdicts ==
  ASSUME NEW j \in Job
  PROVE  Says(j) \subseteq Verdict
  BY DEF Says, Verdict

\* Whatever a claim is settled to, it is of an intent that was paid.
LEMMA OutcomesPaid ==
  \A op \in ByClaim : Outcomes(op) \subseteq Paid \ {"refunding"}
  BY DEF ByClaim, Outcomes, Claimed, Paid

\* What the gateway does stays within the bound on refunds.
LEMMA EffectTyped ==
  ASSUME TypeOK, NEW o, Effect(o)
  PROVE  /\ money' \in {"none", "refused", "open", "declined", "held", "taken", "released"}
         /\ returns' \in 0 .. MaxReturn
  BY ReturnAssumption DEF TypeOK, Effect, Accepted

\* Every step keeps the types.
LEMMA TypeStep ==
  ASSUME Basics, [Next]_vars
  PROVE  TypeOK'
  <1> TypeOK /\ \A q \in Request : Stage(q)
    BY DEF Basics
  <1>1. CASE Outside
    <2>1. CASE OpenSession
      BY <2>1, RowUpdate DEF TypeOK, OpenSession, ghosts, Status
    <2>2. CASE OpenFails
      BY <2>2, FaultCount DEF TypeOK, OpenFails, ghosts
    <2>3. CASE Pay
      BY <2>3 DEF TypeOK, Pay, ghosts, Verdict
    <2>4. CASE Decline
      BY <2>4 DEF TypeOK, Decline, ghosts, Verdict
    <2>5. CASE UNCHANGED vars
      BY <2>5 DEF TypeOK, vars
    <2> QED BY <1>1, <2>1, <2>2, <2>3, <2>4, <2>5 DEF Outside
  <1>2. ASSUME NEW q \in Request, Reading(q) PROVE TypeOK'
    BY <1>2, RequestsTyped DEF TypeOK, Reading, Elsewhere
  <1>3. ASSUME NEW q \in Request, Marks(q) PROVE TypeOK'
    BY <1>3, RequestsTyped DEF TypeOK, Marks
  <1>4. ASSUME NEW q \in Request, Wins(q) PROVE TypeOK'
    BY <1>4, RequestsTyped DEF TypeOK, Wins
  <1>5. ASSUME NEW q \in Request, Calls(q) PROVE TypeOK'
    BY <1>5, RequestsTyped, EffectTyped DEF TypeOK, Calls
  <1>6. ASSUME NEW q \in Request, Reverts(q) PROVE TypeOK'
    <2>1. CASE UNCHANGED <<money, returns, cut>>
      BY <1>6, <2>1, RequestsTyped DEF TypeOK, Reverts
    <2>2. CASE Effect(req[q].op) /\ cut' = TRUE
      BY <1>6, <2>2, RequestsTyped, EffectTyped DEF TypeOK, Reverts
    <2> QED BY <1>6, <2>1, <2>2 DEF Reverts
  <1>7. ASSUME NEW q \in Request, Settles(q) PROVE TypeOK'
    <2>1. req[q].copy \in Row
      BY <1>7, AtJob DEF Settles
    <2> QED BY <1>7, <2>1, RequestsTyped DEF TypeOK, Settles
  <1>8. ASSUME NEW q \in Request, Loses(q) PROVE TypeOK'
    BY <1>8, RequestsTyped DEF TypeOK, Loses
  <1>9. ASSUME NEW q \in Request, Tells(q) PROVE TypeOK'
    <2>1. Says(req[q]) \subseteq Verdict
      BY <1>9, AtJob, SaysVerdicts DEF Tells
    <2> QED BY <1>9, <2>1, RequestsTyped DEF TypeOK, Tells
  <1>10. CASE Dies
    BY <1>10 DEF TypeOK, Dies
  <1> QED BY <1>1, <1>2, <1>3, <1>4, <1>5, <1>6, <1>7, <1>8, <1>9, <1>10, Cases

\* Every step keeps to the rails.
LEMMA RailsStep ==
  ASSUME Basics, [Next]_vars
  PROVE  Rails' /\ \A q \in Request : RailsOf(q)'
  <1> TypeOK /\ Rails /\ \A q \in Request : RailsOf(q) /\ Stage(q)
    BY DEF Basics
  <1>1. CASE Outside
    <2>1. CASE OpenSession
      <3>1. row'.status = "pending" /\ row'.owed = row.owed
        BY <2>1, RowUpdate DEF OpenSession, TypeOK, Status
      <3> QED BY <2>1, <3>1 DEF OpenSession, Rails, RailsOf, ghosts
    <2>2. CASE OpenFails
      BY <2>2 DEF OpenFails, Rails, RailsOf, ghosts
    <2>3. CASE Pay
      <3>1. action \in {"sale", "authorize"}
        BY DEF TypeOK
      <3>2. UNCHANGED <<action, row, req>>
        BY <2>3 DEF Pay
      <3>3. sent' = sent \cup (IF action = "sale" THEN {"captured"} ELSE {"authorized"})
        BY <2>3 DEF Pay
      <3> QED BY <3>1, <3>2, <3>3 DEF Rails, RailsOf
    <2>4. CASE Decline
      BY <2>4 DEF Decline, Rails, RailsOf, ghosts
    <2>5. CASE UNCHANGED vars
      BY <2>5 DEF vars, Rails, RailsOf
    <2> QED BY <1>1, <2>1, <2>2, <2>3, <2>4, <2>5 DEF Outside
  <1>2. ASSUME NEW q \in Request, Reading(q)
        PROVE  Rails' /\ \A p \in Request : RailsOf(p)'
    <2>1. UNCHANGED <<action, row, sent>>
      BY <1>2 DEF Reading, Elsewhere
    <2>2. CASE Ends(q)
      BY <2>1, <2>2 DEF Ends, Others, Rails, RailsOf
    <2>3. ASSUME NEW o \in Op, NEW a \in Stages, NEW c \in Row, NEW r \in Row,
                 Becomes(q, o, a, c, r), Reads(q, o, a, c, r)
          PROVE  Rails' /\ \A p \in Request : RailsOf(p)'
      <3>1. /\ o \in {"authorized", "capture", "void"} => action = "authorize"
            /\ o = "refund" => action = "sale"
            /\ c.status = "authorized" => action = "authorize"
            /\ c.owed => action = "sale"
        <4>1. CASE At(q, "check") \/ At(q, "fetch")
          BY <2>3, <4>1 DEF Reads, Rails, RailsOf, At, Stage
        <4>2. CASE At(q, "read")
          BY <2>3, <4>2, ApplyRow DEF Reads, Rails, RailsOf, At, TypeOK, Verdict
        <4>3. CASE req[q] = Idle
          BY <2>3, <4>3 DEF Reads, Rails, At, Verdict
        <4> QED BY <2>3, <4>1, <4>2, <4>3 DEF Reads
      <3> QED BY <2>1, <2>3, <3>1 DEF Becomes, Others, Rails, RailsOf
    <2> QED BY <1>2, <2>2, <2>3 DEF Reading
  <1>3. ASSUME NEW q \in Request, Marks(q)
        PROVE  Rails' /\ \A p \in Request : RailsOf(p)'
    BY <1>3 DEF Marks, At, Becomes, Others, Rails, RailsOf
  <1>4. ASSUME NEW q \in Request, Wins(q)
        PROVE  Rails' /\ \A p \in Request : RailsOf(p)'
    <2>1. row'.status # "authorized"
      BY <1>4 DEF Wins, ByClaim, Claimed
    <2> QED BY <1>4, <2>1 DEF Wins, At, Becomes, Others, Rails, RailsOf
  <1>5. ASSUME NEW q \in Request, Calls(q)
        PROVE  Rails' /\ \A p \in Request : RailsOf(p)'
    <2>1. Done(req[q].op) # "authorized"
      BY <1>5 DEF Calls, ByClaim, Done, Claimed
    <2> QED BY <1>5, <2>1 DEF Calls, At, Becomes, Others, Rails, RailsOf
  <1>6. ASSUME NEW q \in Request, Reverts(q)
        PROVE  Rails' /\ \A p \in Request : RailsOf(p)'
    BY <1>6 DEF Reverts, At, Becomes, Others, Rails, RailsOf
  <1>7. ASSUME NEW q \in Request, Settles(q)
        PROVE  Rails' /\ \A p \in Request : RailsOf(p)'
    BY <1>7 DEF Settles, At, Becomes, Ends, Others, Rails, RailsOf
  <1>8. ASSUME NEW q \in Request, Loses(q)
        PROVE  Rails' /\ \A p \in Request : RailsOf(p)'
    BY <1>8 DEF Loses, Ends, Others, Rails, RailsOf
  <1>9. ASSUME NEW q \in Request, Tells(q)
        PROVE  Rails' /\ \A p \in Request : RailsOf(p)'
    BY <1>9 DEF Tells, Ends, Others, Rails, RailsOf
  <1>10. CASE Dies
    BY <1>10 DEF Dies, Rails, RailsOf
  <1> QED BY <1>1, <1>2, <1>3, <1>4, <1>5, <1>6, <1>7, <1>8, <1>9, <1>10, Cases

\* The copies of the requests one step on: p's own, or what the one that moved has.
LEMMA StageStep ==
  ASSUME Basics, [Next]_vars
  PROVE  \A q \in Request : Stage(q)'
  <1> TypeOK /\ Rails /\ \A q \in Request : RailsOf(q) /\ Stage(q)
    BY DEF Basics
  <1>a. ASSUME NEW q \in Request, Others(q), sent \subseteq sent', Stage(q)'
        PROVE  \A p \in Request : Stage(p)'
    BY <1>a DEF Others, Stage
  <1>b. ASSUME NEW q \in Request, Ends(q), sent \subseteq sent'
        PROVE  \A p \in Request : Stage(p)'
    <2>1. Stage(q)'
      BY <1>b DEF Ends, Stage
    <2> QED BY <1>a, <1>b, <2>1 DEF Ends
  <1>1. CASE Outside
    <2>1. UNCHANGED req /\ sent \subseteq sent'
      BY <1>1 DEF Outside, OpenSession, OpenFails, Pay, Decline, vars
    <2> QED BY <2>1 DEF Stage
  <1>2. ASSUME NEW q \in Request, Reading(q)
        PROVE  \A p \in Request : Stage(p)'
    <2>1. UNCHANGED sent
      BY <1>2 DEF Reading, Elsewhere
    <2>2. CASE Ends(q)
      BY <1>b, <2>1, <2>2
    <2>3. ASSUME NEW o \in Op, NEW a \in Stages, NEW c \in Row, NEW r \in Row,
                 Becomes(q, o, a, c, r), Reads(q, o, a, c, r)
          PROVE  Stage(q)'
      <3>1. CASE At(q, "check") \/ At(q, "fetch")
        BY <2>1, <2>3, <3>1 DEF Reads, Stage, At, Becomes, Verdict, ByClaim
      <3>2. CASE At(q, "read")
        BY <2>1, <2>3, <3>2 DEF Reads, Stage, At, Becomes, Verdict, ByClaim
      <3>3. CASE req[q] = Idle
        BY <2>1, <2>3, <3>3 DEF Reads, Stage, At, Becomes, Verdict, ByClaim
      <3> QED BY <2>3, <3>1, <3>2, <3>3 DEF Reads
    <2> QED BY <1>2, <1>a, <2>1, <2>2, <2>3 DEF Reading, Becomes
  <1>3. ASSUME NEW q \in Request, Marks(q)
        PROVE  Stage(q)' /\ Others(q) /\ UNCHANGED sent
    BY <1>3 DEF Marks, At, Becomes, Stage, Verdict, ByClaim
  <1>4. ASSUME NEW q \in Request, Wins(q)
        PROVE  Stage(q)' /\ Others(q) /\ UNCHANGED sent
    BY <1>4 DEF Wins, At, Becomes, Stage, Verdict, ByClaim
  <1>5. ASSUME NEW q \in Request, Calls(q)
        PROVE  Stage(q)' /\ Others(q) /\ UNCHANGED sent
    <2>1. Done(req[q].op) \in Outcomes(req[q].op)
      BY <1>5 DEF Calls, ByClaim, Done, Claimed, Outcomes
    <2> QED BY <1>5, <2>1 DEF Calls, At, Becomes, Stage, Verdict, ByClaim
  <1>6. ASSUME NEW q \in Request, Reverts(q)
        PROVE  Stage(q)' /\ Others(q) /\ UNCHANGED sent
    BY <1>6 DEF Reverts, At, Becomes, Stage, Verdict, ByClaim, Outcomes
  <1>7. ASSUME NEW q \in Request, Settles(q)
        PROVE  \A p \in Request : Stage(p)'
    <2>1. CASE Ends(q)
      BY <1>7, <1>b, <2>1 DEF Settles
    <2>2. CASE /\ Says(req[q]) # {}
               /\ Becomes(q, req[q].op, "publish", req[q].copy, req[q].seen)
      <3>1. /\ req[q].op \notin {"refund", "void"}
            /\ req[q].op = "capture" => req[q].copy.status = "captured"
        BY <2>2 DEF Says, Verdict
      <3>2. Stage(q)'
        BY <1>7, <2>2, <3>1 DEF Settles, Stage, At, Becomes, Verdict, ByClaim
      <3> QED BY <1>7, <1>a, <2>2, <3>2 DEF Settles, Becomes
    <2> QED BY <1>7, <2>1, <2>2 DEF Settles
  <1>8. ASSUME NEW q \in Request, Loses(q) \/ Tells(q)
        PROVE  \A p \in Request : Stage(p)'
    BY <1>8, <1>b DEF Loses, Tells
  <1>9. CASE Dies
    BY <1>9 DEF Dies, Stage
  <1> QED BY <1>a, <1>1, <1>2, <1>3, <1>4, <1>5, <1>6, <1>7, <1>8, <1>9, Cases

\* The basics hold at first, and every step keeps them.
LEMMA BasicsStart ==
  ASSUME Init
  PROVE  Basics
  <1>1. TypeOK
    <2>1. row \in Row
      BY DEF Init, Row, Status
    <2>2. 0 \in 0 .. MaxReturn /\ 0 \in 0 .. MaxFault
      BY ReturnAssumption, FaultAssumption
    <2>3. DOMAIN req = Request /\ \A q \in Request : req[q] = Idle
      BY DEF Init
    <2> QED BY <2>1, <2>2, <2>3 DEF Init, TypeOK
  <1>2. Rails /\ \A q \in Request : RailsOf(q) /\ Stage(q)
    BY DEF Init, Rails, RailsOf, Stage
  <1> QED BY <1>1, <1>2 DEF Basics

\* So the basics are inductive by themselves.
LEMMA BasicsStep ==
  ASSUME Basics, [Next]_vars
  PROVE  Basics'
  BY TypeStep, RailsStep, StageStep DEF Basics

\* Type correctness: the status that is stored is one the code can parse back
\* (PaymentIntentStatus::parse), after any calls and faults.
THEOREM TypeCorrect == Spec => []TypeOK
  <1>1. Init => Basics
    BY BasicsStart
  <1>2. Basics /\ [Next]_vars => Basics'
    BY BasicsStep
  <1>3. Basics => TypeOK
    BY DEF Basics
  <1> QED BY <1>1, <1>2, <1>3, PTL DEF Spec

-----------------------------------------------------------------------------
(* One call at a time.                                                     *)

\* A row that is not claimed has no holder.
LEMMA Unclaimed ==
  ASSUME Held, ~overwritten,
         row.status \notin {"refunding", "captured", "voided"}
  PROVE  \A q \in Request : ~Holding(q)
  <1>1. \A q \in Request : Holding(q) => row.status = Claimed(req[q].op)
    BY DEF Held
  <1>2. \A q \in Request : Holding(q) => Claimed(req[q].op) \in {"refunding", "captured", "voided"}
    BY DEF Holding, Claimed
  <1> QED BY <1>1, <1>2

\* Whoever wins a claim finds no holder: a hold is captured or voided only while
\* nobody has claimed it, a sale has no captures, and a refund is claimed again
\* only when its lease is over.
LEMMA WinsAlone ==
  ASSUME Basics, Held, ~overwritten, NEW q \in Request, Wins(q)
  PROVE  \A p \in Request : ~Holding(p)
  <1>1. /\ req[q] # Idle /\ req[q].op \in ByClaim /\ Claimable(req[q].op)
    BY DEF Wins, At
  <1>2. CASE req[q].op # "refund"
    <2>1. row.status = "authorized"
      BY <1>1, <1>2 DEF Claimable
    <2> QED BY <2>1, Unclaimed
  <1>3. CASE req[q].op = "refund"
    <2>1. action = "sale"
      BY <1>1, <1>3 DEF Basics, RailsOf
    <2>2. \A p \in Request : Holding(p) => req[p].op = "refund"
      <3>1. \A p \in Request : Holding(p) => req[p].op \in ByClaim
        BY DEF Holding, ByClaim
      <3>2. \A p \in Request : Holding(p) => req[p] # Idle
        BY DEF Holding, Idle
      <3> QED BY <2>1, <3>1, <3>2 DEF Basics, RailsOf, ByClaim
    <2>3. \A p \in Request : Holding(p) => row.status = "refunding"
      BY <2>2 DEF Held, Claimed
    <2>4. row.status = "captured" \/ LeaseOver
      BY <1>1, <1>3 DEF Claimable, Refundable
    <2> QED BY <2>2, <2>3, <2>4 DEF LeaseOver, Holding
  <1> QED BY <1>2, <1>3

\* A save by a request that holds no claim, over the row it was made from, leaves
\* the status alone, or settles a fresh intent as its webhook or its time says.
LEMMA SettlesUnclaimed ==
  ASSUME Basics, NEW q \in Request, Settles(q), ~Holding(q), row = req[q].seen
  PROVE  \/ row'.status = row.status
         \/ /\ row.status \in Fresh
            /\ \/ row'.status \in {"failed", "expired"}
               \/ row'.status \in {"authorized", "captured"} \cap sent
  <1>1. /\ At(q, "save") /\ req[q] # Idle /\ req[q].at = "save" /\ row' = req[q].copy
        /\ req[q].op \in Op /\ Stage(q) /\ row \in Row
    BY AtJob DEF Settles, Basics, TypeOK
  <1>2. req[q].op \in Verdict \cup {"expire"}
    BY <1>1 DEF Holding, Op
  <1>3. CASE req[q].op = "expire"
    BY <1>1, <1>3 DEF Stage
  <1>4. CASE req[q].op \in Verdict
    <2>1. CanApply(req[q].op, row) /\ row' = Apply(req[q].op, row) /\ req[q].op \in sent
      BY <1>1, <1>4 DEF Stage
    <2>2. row'.status = req[q].op
      BY <1>1, <1>4, <2>1, ApplyRow
    <2> QED BY <1>4, <2>1, <2>2 DEF CanApply, Fresh, Verdict
  <1> QED BY <1>2, <1>3, <1>4

\* Every step keeps the one holder.
LEMMA HeldStep ==
  ASSUME Basics, Held, [Next]_vars
  PROVE  Held'
  <1> SUFFICES ASSUME ~overwritten'
      PROVE  /\ \A p \in Request : Holding(p)' => row'.status = Claimed(req'[p].op)
             /\ \A p, r \in Request : Holding(p)' /\ Holding(r)' => p = r
    BY DEF Held
  <1> DEFINE Goal == /\ \A p \in Request : Holding(p)' => row'.status = Claimed(req'[p].op)
                     /\ \A p, r \in Request : Holding(p)' /\ Holding(r)' => p = r
  <1>0. ASSUME ~overwritten
        PROVE  /\ \A p \in Request : Holding(p) => row.status = Claimed(req[p].op)
               /\ \A p, r \in Request : Holding(p) /\ Holding(r) => p = r
    BY <1>0 DEF Held
  \* Nobody new holds a claim, and a row with a holder keeps its status.
  <1>a. ASSUME ~overwritten,
               \A p \in Request : Holding(p)' => Holding(p) /\ req'[p].op = req[p].op,
               (\A p \in Request : ~Holding(p)') \/ row'.status = row.status
        PROVE  Goal
    BY <1>0, <1>a
  <1> HIDE DEF Goal
  <1>1. ASSUME Outside PROVE Goal
    <2>1. UNCHANGED <<req, overwritten>> /\ (OpenSession \/ UNCHANGED row)
      BY <1>1 DEF Outside, OpenSession, OpenFails, Pay, Decline, vars, ghosts
    <2>2. \A p \in Request : Holding(p)' => Holding(p) /\ req'[p].op = req[p].op
      BY <2>1 DEF Holding
    <2>3. CASE OpenSession
      <3>1. \A p \in Request : ~Holding(p)
        BY <2>1, <2>3, Unclaimed DEF OpenSession
      <3> QED BY <1>a, <2>1, <2>2, <3>1
    <2>4. CASE UNCHANGED row
      BY <1>a, <2>1, <2>2, <2>4
    <2> QED BY <2>1, <2>3, <2>4
  <1>2. ASSUME NEW q \in Request, Reading(q) PROVE Goal
    <2>1. ~Holding(q)' /\ Others(q)
      BY <1>2 DEF Reading, Reads, Becomes, Ends, Holding, Idle, Verdict
    <2>2. UNCHANGED <<row, overwritten>>
      BY <1>2 DEF Reading, Elsewhere
    <2> QED BY <1>a, <2>1, <2>2 DEF Others, Holding
  <1>3. ASSUME NEW q \in Request, Marks(q) PROVE Goal
    <2>1. ~Holding(q)' /\ Others(q)
      BY <1>3 DEF Marks, Becomes, Holding
    <2>2. row'.status = row.status /\ UNCHANGED overwritten
      BY <1>3 DEF Marks
    <2> QED BY <1>a, <2>1, <2>2 DEF Others, Holding
  <1>4. ASSUME NEW q \in Request, Wins(q) PROVE Goal
    <2>1. ~overwritten
      BY <1>4 DEF Wins
    <2>2. \A p \in Request : ~Holding(p)
      BY <1>4, <2>1, WinsAlone
    <2>3. \A p \in Request : p # q => ~Holding(p)'
      BY <1>4, <2>2 DEF Wins, Becomes, Others, Holding
    <2>4. row'.status = Claimed(req'[q].op)
      BY <1>4 DEF Wins, Becomes
    <2> QED BY <2>3, <2>4 DEF Goal
  <1>5. ASSUME NEW q \in Request, Calls(q) \/ Reverts(q) PROVE Goal
    <2>1. Holding(q) /\ req'[q].op = req[q].op /\ Others(q) /\ UNCHANGED <<row, overwritten>>
      BY <1>5 DEF Calls, Reverts, Becomes, Holding, At, ByClaim
    <2> QED BY <1>a, <2>1 DEF Others, Holding
  <1>6. ASSUME NEW q \in Request, Settles(q) PROVE Goal
    <2>1. ~Holding(q)' /\ Others(q)
      BY <1>6 DEF Settles, Becomes, Ends, Holding, Idle
    <2>2. ~overwritten /\ row = req[q].seen
      BY <1>6 DEF Settles
    <2>3. \A p \in Request : Holding(p)' => Holding(p) /\ req'[p].op = req[p].op
      BY <2>1 DEF Others, Holding
    <2>4. CASE Holding(q)
      <3>1. \A p \in Request : ~Holding(p)'
        BY <1>0, <2>1, <2>2, <2>3, <2>4
      <3> QED BY <1>a, <2>2, <2>3, <3>1
    <2>5. CASE ~Holding(q)
      <3>1. CASE row.status \in Fresh
        BY <1>a, <2>2, <2>3, <3>1, Unclaimed DEF Fresh
      <3>2. CASE row'.status = row.status
        BY <1>a, <2>2, <2>3, <3>2
      <3> QED BY <1>6, <2>2, <2>5, <3>1, <3>2, SettlesUnclaimed
    <2> QED BY <2>4, <2>5
  <1>7. ASSUME NEW q \in Request, Loses(q) \/ Tells(q) PROVE Goal
    <2>1. ~Holding(q)' /\ Others(q) /\ UNCHANGED <<row, overwritten>>
      BY <1>7 DEF Loses, Tells, Ends, Holding, Idle
    <2> QED BY <1>a, <2>1 DEF Others, Holding
  <1>8. ASSUME Dies PROVE Goal
    <2>1. (\A p \in Request : ~Holding(p)') /\ UNCHANGED <<row, overwritten>>
      BY <1>8 DEF Dies, Holding, Idle
    <2> QED BY <1>a, <2>1
  <1> QED BY <1>1, <1>2, <1>3, <1>4, <1>5, <1>6, <1>7, <1>8, Cases DEF Goal

\* As long as no save has gone over a row it was not made from, a capture, a void,
\* a refund and its retries are never at the gateway together: the conditional
\* updates of payment_intent_repo.rs, the lease included, are enough.
THEOREM CallsNeverMeet == Spec => []OneCallAtATime
  <1>1. Init => Basics /\ Held
    <2>1. Init => Held
      BY DEF Init, Held, Holding, Idle
    <2> QED BY <2>1, BasicsStart
  <1>2. Basics /\ Held /\ [Next]_vars => (Basics /\ Held)'
    BY BasicsStep, HeldStep
  <1>3. Held => OneCallAtATime
    BY DEF Held, OneCallAtATime
  <1> QED BY <1>1, <1>2, <1>3, PTL DEF Spec

-----------------------------------------------------------------------------
(* One verdict.                                                            *)

\* Published, or saved and about to be.
Said(v) == v \in events \/ \E q \in Request : At(q, "publish") /\ v \in Says(req[q])

\* The row still is what was said of it.
Consistent ==
  ~overwritten =>
    /\ Said("failed") => row.status \in {"failed", "expired"}
    /\ Said("authorized") \/ Said("captured") => row.status \in Paid

\* A request that does not come to be at its publication adds nothing.
LEMMA SaidByOthers ==
  ASSUME NEW q \in Request, Others(q), ~At(q, "publish")', events' = events, NEW v, Said(v)'
  PROVE  Said(v)
  <1>1. CASE v \in events'
    BY <1>1 DEF Said
  <1>2. ASSUME NEW p \in Request, At(p, "publish")', v \in Says(req'[p])
        PROVE  Said(v)
    <2>1. p # q
      BY <1>2
    <2>2. req'[p] = req[p]
      BY <2>1 DEF Others
    <2> QED BY <1>2, <2>2 DEF Said, At
  <1> QED BY <1>1, <1>2 DEF Said

\* A save over the row it was made from either turns an intent that nobody paid
\* to its end and says so, or leaves it paid and does not say that it failed.
LEMMA SettlesVerdict ==
  ASSUME Basics, Held, ~overwritten, NEW q \in Request, Settles(q), row = req[q].seen
  PROVE  \/ /\ row.status \notin Paid /\ row'.status \in {"failed", "expired"}
            /\ Says(req[q]) \subseteq {"failed"}
         \/ /\ row.status \notin {"failed", "expired"} /\ row'.status \in Paid
            /\ "failed" \notin Says(req[q])
  <1>1. /\ At(q, "save") /\ req[q] # Idle /\ req[q].at = "save" /\ row' = req[q].copy
        /\ req[q].op \in Op /\ Stage(q) /\ row \in Row
    BY AtJob DEF Settles, Basics, TypeOK
  <1>2. CASE req[q].op \in ByClaim
    <2>1. row.status = Claimed(req[q].op)
      BY <1>1, <1>2 DEF Held, Holding, ByClaim
    <2>2. row.status \notin {"failed", "expired"}
      BY <1>2, <2>1 DEF Claimed, ByClaim
    <2>3. row'.status \in Paid
      BY <1>1, <1>2, OutcomesPaid DEF Stage
    <2>4. "failed" \notin Says(req[q])
      BY <1>2 DEF Says, ByClaim, Verdict
    <2> QED BY <2>2, <2>3, <2>4
  <1>3. CASE req[q].op = "expire"
    <2>1. row.status \in Fresh /\ row'.status = "expired"
      BY <1>1, <1>3 DEF Stage
    <2>2. Says(req[q]) \subseteq {"failed"}
      BY <1>3 DEF Says, Verdict
    <2> QED BY <2>1, <2>2 DEF Fresh, Paid
  <1>4. CASE req[q].op \in Verdict
    <2>1. CanApply(req[q].op, row) /\ row' = Apply(req[q].op, row)
      BY <1>1, <1>4 DEF Stage
    <2>2. row'.status = req[q].op
      BY <1>1, <1>4, <2>1, ApplyRow
    <2>3. Says(req[q]) = {req[q].op}
      BY <1>4 DEF Says
    <2>4. CASE req[q].op = "failed"
      BY <2>1, <2>2, <2>3, <2>4 DEF CanApply, Paid
    <2>5. CASE req[q].op # "failed"
      BY <1>4, <2>1, <2>2, <2>3, <2>5 DEF CanApply, Paid, Verdict
    <2> QED BY <2>4, <2>5
  <1> QED BY <1>1, <1>2, <1>3, <1>4 DEF Op, ByClaim

\* Every step keeps the row consistent with what is said.
LEMMA ConsistentStep ==
  ASSUME Basics, Held, Consistent, [Next]_vars
  PROVE  Consistent'
  <1> DEFINE Goal == /\ Said("failed")' => row'.status \in {"failed", "expired"}
                     /\ Said("authorized")' \/ Said("captured")' => row'.status \in Paid
  <1> SUFFICES ASSUME ~overwritten' PROVE Goal
    BY DEF Consistent
  <1>0. ASSUME ~overwritten
        PROVE  /\ Said("failed") => row.status \in {"failed", "expired"}
               /\ Said("authorized") \/ Said("captured") => row.status \in Paid
    BY <1>0 DEF Consistent
  <1>a. ASSUME ~overwritten, \A v : Said(v)' => Said(v),
               row.status \in {"failed", "expired"} => row'.status \in {"failed", "expired"},
               row.status \in Paid => row'.status \in Paid
        PROVE  Goal
    BY <1>0, <1>a
  <1> HIDE DEF Goal
  <1>1. ASSUME Outside PROVE Goal
    <2>1. UNCHANGED <<req, events, overwritten>> /\ (OpenSession \/ UNCHANGED row)
      BY <1>1 DEF Outside, OpenSession, OpenFails, Pay, Decline, vars, ghosts
    <2>2. \A v : Said(v)' => Said(v)
      BY <2>1 DEF Said, At
    <2>3. CASE OpenSession
      <3>1. row.status = "created"
        BY <2>3 DEF OpenSession
      <3> QED BY <1>a, <2>1, <2>2, <3>1 DEF Paid
    <2>4. CASE UNCHANGED row
      BY <1>a, <2>1, <2>2, <2>4
    <2> QED BY <2>1, <2>3, <2>4
  <1>2. ASSUME NEW q \in Request, Reading(q) PROVE Goal
    <2>1. ~At(q, "publish")' /\ Others(q)
      BY <1>2 DEF Reading, Reads, Becomes, Ends, At
    <2>2. UNCHANGED <<row, events, overwritten>>
      BY <1>2 DEF Reading, Elsewhere
    <2> QED BY <1>a, <2>1, <2>2, SaidByOthers
  <1>3. ASSUME NEW q \in Request, Marks(q) PROVE Goal
    <2>1. ~At(q, "publish")' /\ Others(q)
      BY <1>3 DEF Marks, Becomes, At
    <2>2. row'.status = row.status /\ UNCHANGED <<events, overwritten>>
      BY <1>3 DEF Marks
    <2> QED BY <1>a, <2>1, <2>2, SaidByOthers
  <1>4. ASSUME NEW q \in Request, Wins(q) PROVE Goal
    <2>1. ~At(q, "publish")' /\ Others(q) /\ UNCHANGED <<events, overwritten>>
      BY <1>4 DEF Wins, Becomes, At
    <2>2. row.status \in Paid /\ row.status \notin {"failed", "expired"}
      BY <1>4 DEF Wins, Claimable, Refundable, Paid
    <2>3. row'.status \in Paid
      BY <1>4 DEF Wins, Claimed, ByClaim, Paid
    <2> QED BY <1>a, <2>1, <2>2, <2>3, SaidByOthers
  <1>5. ASSUME NEW q \in Request, Calls(q) \/ Reverts(q) PROVE Goal
    <2>1. ~At(q, "publish")' /\ Others(q) /\ UNCHANGED <<row, events, overwritten>>
      BY <1>5 DEF Calls, Reverts, Becomes, At
    <2> QED BY <1>a, <2>1, SaidByOthers
  <1>6. ASSUME NEW q \in Request, Settles(q) PROVE Goal
    <2>1. ~overwritten /\ row = req[q].seen /\ events' = events
      BY <1>6 DEF Settles
    <2>2. ASSUME NEW v, Said(v)'
          PROVE  Said(v) \/ v \in Says(req[q])
      <3>1. CASE Ends(q)
        <4>1. ~At(q, "publish")' /\ Others(q)
          BY <3>1 DEF Ends, At
        <4> QED BY <2>1, <2>2, <4>1, SaidByOthers
      <3>2. CASE Becomes(q, req[q].op, "publish", req[q].copy, req[q].seen)
        <4>1. Says(req'[q]) = Says(req[q])
          BY <3>2 DEF Becomes, Says
        <4>2. \A p \in Request : p # q => req'[p] = req[p]
          BY <3>2 DEF Becomes, Others
        <4> QED BY <2>1, <2>2, <4>1, <4>2 DEF Said, At
      <3> QED BY <1>6, <3>1, <3>2 DEF Settles
    <2>3. CASE /\ row.status \notin Paid /\ row'.status \in {"failed", "expired"}
               /\ Says(req[q]) \subseteq {"failed"}
      BY <1>0, <2>1, <2>2, <2>3 DEF Goal
    <2>4. CASE /\ row.status \notin {"failed", "expired"} /\ row'.status \in Paid
               /\ "failed" \notin Says(req[q])
      BY <1>0, <2>1, <2>2, <2>4 DEF Goal
    <2> QED BY <1>6, <2>1, <2>3, <2>4, SettlesVerdict
  <1>7. ASSUME NEW q \in Request, Loses(q) PROVE Goal
    <2>1. ~At(q, "publish")' /\ Others(q) /\ UNCHANGED <<row, events, overwritten>>
      BY <1>7 DEF Loses, Ends, At
    <2> QED BY <1>a, <2>1, SaidByOthers
  <1>8. ASSUME NEW q \in Request, Tells(q) PROVE Goal
    <2>1. /\ ~At(q, "publish")' /\ Others(q) /\ UNCHANGED <<row, overwritten>>
          /\ At(q, "publish") /\ events' \subseteq events \cup Says(req[q])
      BY <1>8 DEF Tells, Ends, At
    <2>2. ASSUME NEW v, Said(v)' PROVE Said(v)
      BY <2>1, <2>2 DEF Said, At, Others
    <2> QED BY <1>a, <2>1, <2>2
  <1>9. ASSUME Dies PROVE Goal
    <2>1. UNCHANGED <<row, events, overwritten>> /\ \A p \in Request : ~At(p, "publish")'
      BY <1>9 DEF Dies, At
    <2>2. ASSUME NEW v, Said(v)' PROVE Said(v)
      BY <2>1, <2>2 DEF Said
    <2> QED BY <1>a, <2>1, <2>2
  <1> QED BY <1>1, <1>2, <1>3, <1>4, <1>5, <1>6, <1>7, <1>8, <1>9, Cases

\* As long as no save has gone over a row it was not made from, the products hear
\* one verdict, whatever the order and the number of the webhooks: fail() and
\* expire() refuse what was paid, capture() and authorize() what is over.
THEOREM VerdictIsOne == Spec => []OneVerdict
  <1>1. Init => Basics /\ Held /\ Consistent
    <2>1. Init => Held /\ Consistent
      BY DEF Init, Held, Consistent, Said, At, Holding, Idle
    <2> QED BY <2>1, BasicsStart
  <1>2. Basics /\ Held /\ Consistent /\ [Next]_vars => (Basics /\ Held /\ Consistent)'
    BY BasicsStep, HeldStep, ConsistentStep
  <1>3. Consistent => OneVerdict
    BY DEF Consistent, OneVerdict, Said, Paid
  <1> QED BY <1>1, <1>2, <1>3, PTL DEF Spec

-----------------------------------------------------------------------------
(* The record and the money.                                               *)

\* What a settled status says of the money.
Matches(s) ==
  /\ s = "authorized" => money = "held" /\ returns = 0
  /\ s = "captured"   => money = "taken" /\ returns = 0
  /\ s = "voided"     => money = "released"
  /\ s = "refunded"   => money = "taken" /\ returns = 1

\* A fresh intent is as paid as its webhooks say; a settled one matches the money;
\* of a claimed one it is the holder's copy that does, and there is a holder.
Truth ==
  ~overwritten /\ ~cut =>
    /\ row.status \in Fresh =>
         /\ returns = 0
         /\ "authorized" \in sent => money = "held"
         /\ "captured" \in sent => money = "taken"
    /\ (\A q \in Request : ~Holding(q)) => Matches(row.status) /\ row.status # "refunding"
    /\ \A q \in Request : Holding(q) => Matches(req[q].copy.status)

\* A claim that is won is won on a row that matches, with a copy of it.
LEMMA WinsMatching ==
  ASSUME Basics, Held, Truth, ~overwritten, ~cut, NEW q \in Request, Wins(q)
  PROVE  Matches(req[q].copy.status)
  <1>1. /\ req[q] # Idle /\ req[q].at = "claim" /\ req[q].op \in ByClaim
        /\ Claimable(req[q].op) /\ Stage(q)
    BY DEF Wins, At, Basics
  <1>2. req[q].copy.status = IF req[q].op = "refund" THEN "captured" ELSE "authorized"
    BY <1>1 DEF Stage
  <1>3. Matches(row.status) /\ row.status # "refunding"
    BY WinsAlone DEF Truth
  <1>4. row.status = IF req[q].op = "refund" THEN "captured" ELSE "authorized"
    BY <1>1, <1>3 DEF Claimable, Refundable
  <1> QED BY <1>2, <1>3, <1>4

\* A call that was heard of leaves the money as the new copy says.
LEMMA CallsMatching ==
  ASSUME Basics, Held, Truth, ~overwritten, ~cut, NEW q \in Request, Calls(q)
  PROVE  Matches(req[q].copy.status)'
  <1>1. /\ req[q] # Idle /\ req[q].at = "call" /\ req[q].op \in ByClaim
        /\ Effect(req[q].op) /\ Stage(q) /\ Holding(q) /\ returns \in Nat
    BY ReturnAssumption DEF Calls, At, Basics, Holding, ByClaim, TypeOK
  <1>2. req[q].copy.status = IF req[q].op = "refund" THEN "captured" ELSE "authorized"
    BY <1>1 DEF Stage
  <1>3. Matches(req[q].copy.status)
    BY <1>1 DEF Truth
  <1>4. req'[q].copy.status = Done(req[q].op)
    BY DEF Calls, Becomes
  <1>5. CASE req[q].op = "refund"
    BY <1>1, <1>2, <1>3, <1>4, <1>5 DEF Matches, Effect, Done
  <1>6. CASE req[q].op = "capture"
    BY <1>1, <1>2, <1>3, <1>4, <1>6 DEF Matches, Effect, Done, Claimed
  <1>7. CASE req[q].op = "void"
    BY <1>1, <1>2, <1>3, <1>4, <1>7 DEF Matches, Effect, Done, Claimed
  <1> QED BY <1>1, <1>5, <1>6, <1>7 DEF ByClaim

\* Every step keeps the record true to the money.
LEMMA TruthStep ==
  ASSUME Basics, Held, Truth, [Next]_vars
  PROVE  Truth'
  <1> DEFINE Goal ==
        /\ row'.status \in Fresh =>
             /\ returns' = 0
             /\ "authorized" \in sent' => money' = "held"
             /\ "captured" \in sent' => money' = "taken"
        /\ (\A q \in Request : ~Holding(q)') => Matches(row.status)' /\ row'.status # "refunding"
        /\ \A q \in Request : Holding(q)' => Matches(req[q].copy.status)'
  <1> SUFFICES ASSUME ~overwritten', ~cut' PROVE Goal
    BY DEF Truth
  <1>0. ASSUME ~overwritten, ~cut
        PROVE  /\ row.status \in Fresh =>
                    /\ returns = 0
                    /\ "authorized" \in sent => money = "held"
                    /\ "captured" \in sent => money = "taken"
               /\ (\A q \in Request : ~Holding(q)) => Matches(row.status) /\ row.status # "refunding"
               /\ \A q \in Request : Holding(q) => Matches(req[q].copy.status)
    BY <1>0 DEF Truth
  \* Steps after which the money, the status and the holders are what they were.
  <1>a. ASSUME ~overwritten, ~cut, UNCHANGED <<money, returns, sent>>,
               row'.status = row.status,
               \A p \in Request : Holding(p)' <=> Holding(p),
               \A p \in Request : Holding(p) => req'[p].copy = req[p].copy
        PROVE  Goal
    <2>1. Matches(row.status)' = Matches(row.status)
      BY <1>a DEF Matches
    <2>2. \A p \in Request : Holding(p) => Matches(req[p].copy.status)' = Matches(req[p].copy.status)
      BY <1>a DEF Matches
    <2> QED BY <1>0, <1>a, <2>1, <2>2
  <1>b. ASSUME NEW q \in Request, ~Holding(q), ~Holding(q)', Others(q)
        PROVE  /\ \A p \in Request : Holding(p)' <=> Holding(p)
               /\ \A p \in Request : Holding(p) => req'[p].copy = req[p].copy
    <2>1. \A p \in Request : p # q => req'[p] = req[p]
      BY <1>b DEF Others
    <2>2. \A p \in Request : Holding(p)' <=> Holding(p)
      BY <1>b, <2>1 DEF Holding
    <2> QED BY <1>b, <2>1, <2>2
  <1>1. ASSUME Outside PROVE Goal
    <2>1. /\ UNCHANGED <<req, returns, overwritten, cut>>
          /\ \/ UNCHANGED <<row, money, sent>>
             \/ row.status = "created" /\ row'.status \in Fresh /\ money = "none" /\ UNCHANGED sent
             \/ UNCHANGED row /\ money = "open" /\ sent' = sent \cup {"captured"} /\ money' = "taken"
             \/ UNCHANGED row /\ money = "open" /\ sent' = sent \cup {"authorized"} /\ money' = "held"
             \/ UNCHANGED row /\ money = "open" /\ sent' = sent \cup {"failed"} /\ money' = "declined"
      <3>1. CASE OpenSession
        <4>1. row'.status = "pending"
          BY <3>1, RowUpdate DEF OpenSession, Basics, TypeOK, Status
        <4> QED BY <3>1, <4>1 DEF OpenSession, ghosts, Fresh
      <3>2. CASE OpenFails
        BY <3>2 DEF OpenFails, ghosts, Fresh
      <3>3. CASE Pay
        BY <3>3 DEF Pay, ghosts
      <3>4. CASE Decline
        BY <3>4 DEF Decline, ghosts
      <3>5. CASE UNCHANGED vars
        BY <3>5 DEF vars
      <3> QED BY <1>1, <3>1, <3>2, <3>3, <3>4, <3>5 DEF Outside
    <2>2. ~overwritten /\ ~cut /\ \A p \in Request : Holding(p)' <=> Holding(p)
      BY <2>1 DEF Holding
    <2>3. CASE UNCHANGED <<row, money, sent>>
      BY <1>a, <2>1, <2>2, <2>3
    <2>4. CASE row.status = "created" /\ row'.status \in Fresh /\ money = "none" /\ UNCHANGED sent
      <3>1. \A p \in Request : ~Holding(p)'
        BY <2>2, <2>4, Unclaimed
      <3>2. Matches(row.status)' /\ row'.status # "refunding"
        BY <2>4 DEF Matches, Fresh
      <3> QED BY <1>0, <2>1, <2>2, <2>4, <3>1, <3>2 DEF Fresh, Goal
    <2>5. CASE UNCHANGED row /\ money = "open" /\ sent' # sent /\ sent' \subseteq sent \cup {"captured", "authorized", "failed"}
      <3>1. row.status \in Fresh => "authorized" \notin sent /\ "captured" \notin sent
        BY <1>0, <2>2, <2>5
      <3>2. Matches(row.status) => Matches(row.status)'
        BY <2>5 DEF Matches
      <3>3. \A p \in Request : Matches(req[p].copy.status) => Matches(req[p].copy.status)'
        BY <2>1, <2>5 DEF Matches
      <3> QED BY <1>0, <2>1, <2>2, <2>5, <3>1, <3>2, <3>3 DEF Goal
    <2>6. CASE UNCHANGED row /\ money = "open" /\ sent' = sent
      <3>2. Matches(row.status) => Matches(row.status)'
        BY <2>6 DEF Matches
      <3>3. \A p \in Request : Matches(req[p].copy.status) => Matches(req[p].copy.status)'
        BY <2>1, <2>6 DEF Matches
      <3>4. row.status \in Fresh => "authorized" \notin sent /\ "captured" \notin sent
        BY <1>0, <2>2, <2>6
      <3> QED BY <1>0, <2>1, <2>2, <2>6, <3>2, <3>3, <3>4 DEF Goal
    <2> QED BY <2>1, <2>3, <2>4, <2>5, <2>6
  <1>2. ASSUME NEW q \in Request, Reading(q) PROVE Goal
    <2>1. ~Holding(q)' /\ ~Holding(q) /\ Others(q)
      BY <1>2 DEF Reading, Reads, Becomes, Ends, Holding, Idle, Verdict, At
    <2>2. UNCHANGED <<row, money, returns, sent, overwritten, cut>>
      BY <1>2 DEF Reading, Elsewhere
    <2> QED BY <1>a, <1>b, <2>1, <2>2
  <1>3. ASSUME NEW q \in Request, Marks(q) PROVE Goal
    <2>1. ~Holding(q)' /\ ~Holding(q) /\ Others(q)
      BY <1>3 DEF Marks, Becomes, Holding, At
    <2>2. row'.status = row.status /\ UNCHANGED <<money, returns, sent, overwritten, cut>>
      BY <1>3 DEF Marks
    <2> QED BY <1>a, <1>b, <2>1, <2>2
  <1>4. ASSUME NEW q \in Request, Wins(q) PROVE Goal
    <2>1. /\ ~overwritten /\ ~cut /\ Others(q) /\ UNCHANGED <<money, returns>>
          /\ Holding(q)' /\ req'[q].copy = req[q].copy
      BY <1>4 DEF Wins, Becomes, Holding, ByClaim
    <2>2. row'.status \notin Fresh
      BY <1>4 DEF Wins, ByClaim, Claimed, Fresh
    <2>3. \A p \in Request : p # q => ~Holding(p)'
      BY <1>4, <2>1, WinsAlone DEF Others, Holding
    <2>4. Matches(req[q].copy.status)
      BY <1>4, <2>1, WinsMatching
    <2>5. Matches(req[q].copy.status)'
      BY <2>1, <2>4 DEF Matches
    <2> QED BY <2>1, <2>2, <2>3, <2>5 DEF Goal
  <1>5. ASSUME NEW q \in Request, Calls(q) PROVE Goal
    <2>1. /\ ~overwritten /\ ~cut /\ Others(q) /\ UNCHANGED row /\ Holding(q) /\ Holding(q)'
      BY <1>5 DEF Calls, Becomes, Holding, ByClaim, At
    <2>2. row'.status \notin Fresh
      BY <2>1, Unclaimed DEF Fresh
    <2>3. \A p \in Request : p # q => ~Holding(p)'
      BY <2>1 DEF Others, Holding, Held
    <2>4. Matches(req[q].copy.status)'
      BY <1>5, <2>1, CallsMatching
    <2> QED BY <2>1, <2>2, <2>3, <2>4 DEF Goal
  <1>6. ASSUME NEW q \in Request, Reverts(q) PROVE Goal
    <2>1. /\ UNCHANGED <<row, money, returns, sent, overwritten, cut>>
          /\ Others(q) /\ Holding(q) /\ Holding(q)' /\ req'[q].copy = req[q].copy
      BY <1>6 DEF Reverts, Becomes, Holding, ByClaim, At
    <2>2. \A p \in Request : Holding(p)' <=> Holding(p)
      BY <2>1 DEF Others, Holding
    <2>3. \A p \in Request : Holding(p) => req'[p].copy = req[p].copy
      BY <2>1 DEF Others
    <2> QED BY <1>a, <2>1, <2>2, <2>3
  <1>7. ASSUME NEW q \in Request, Settles(q) PROVE Goal
    <2>1. /\ ~Holding(q)' /\ Others(q) /\ UNCHANGED <<money, returns, sent>>
          /\ ~overwritten /\ ~cut /\ row = req[q].seen /\ row' = req[q].copy
      <3>1. ~Holding(q)' /\ Others(q)
        BY <1>7 DEF Settles, Becomes, Ends, Holding, Idle
      <3>2. UNCHANGED <<money, returns, sent>> /\ row' = req[q].copy
        BY <1>7 DEF Settles
      <3>3. ~overwritten /\ row = req[q].seen
        BY <1>7 DEF Settles
      <3>4. ~cut
        BY <1>7 DEF Settles
      <3> QED BY <3>1, <3>2, <3>3, <3>4
    <2>2. CASE Holding(q)
      <3>1. req[q] # Idle /\ req[q].at = "save" /\ req[q].op \in ByClaim
        BY <1>7, <2>2 DEF Settles, At, Holding, ByClaim
      <3>2. row'.status \in Paid \ {"refunding"}
        BY <2>1, <3>1, OutcomesPaid DEF Basics, Stage
      <3>3. Matches(req[q].copy.status)
        BY <1>0, <2>1, <2>2
      <3>4. Matches(row.status)'
        BY <2>1, <3>3 DEF Matches
      <3>5. \A p \in Request : ~Holding(p)'
        BY <2>1, <2>2 DEF Others, Holding, Held
      <3> QED BY <3>2, <3>4, <3>5 DEF Paid, Fresh, Goal
    <2>3. CASE ~Holding(q) /\ row'.status = row.status
      BY <1>a, <1>b, <2>1, <2>3
    <2>4. CASE /\ ~Holding(q) /\ row.status \in Fresh
               /\ \/ row'.status \in {"failed", "expired"}
                  \/ row'.status \in {"authorized", "captured"} \cap sent
      <3>1. \A p \in Request : ~Holding(p)
        BY <2>1, <2>4, Unclaimed DEF Fresh
      <3>2. \A p \in Request : ~Holding(p)'
        BY <1>b, <2>1, <2>4, <3>1
      <3>3. Matches(row.status)'
        BY <1>0, <2>1, <2>4 DEF Matches
      <3> QED BY <2>4, <3>2, <3>3 DEF Fresh, Goal
    <2> QED BY <1>7, <2>1, <2>2, <2>3, <2>4, SettlesUnclaimed
  <1>8. ASSUME NEW q \in Request, Loses(q) \/ Tells(q) PROVE Goal
    <2>1. /\ ~Holding(q)' /\ ~Holding(q) /\ Others(q)
          /\ UNCHANGED <<row, money, returns, sent>> /\ ~overwritten /\ ~cut
      <3>1. ~Holding(q)' /\ Others(q) /\ UNCHANGED <<row, money, returns, sent>>
        BY <1>8 DEF Loses, Tells, Ends, Holding, Idle
      <3>2. ~overwritten
        BY <1>8 DEF Loses, Tells
      <3>3. ~cut
        BY <1>8 DEF Loses, Tells
      <3>4. ~Holding(q)
        BY <1>8 DEF Loses, Tells, At, Holding, ByClaim
      <3> QED BY <3>1, <3>2, <3>3, <3>4
    <2> QED BY <1>a, <1>b, <2>1
  <1>9. ASSUME Dies PROVE Goal
    <2>1. UNCHANGED <<row, money, returns, sent>> /\ \A p \in Request : ~Holding(p)'
      BY <1>9 DEF Dies, Holding, Idle
    <2>2. ~overwritten /\ ~cut
      BY <1>9 DEF Dies
    <2>3. \A p \in Request : ~Holding(p)
      BY <1>9 DEF Dies
    <2>4. \A p \in Request : Holding(p)' <=> Holding(p)
      BY <2>1, <2>3
    <2> QED BY <1>a, <2>1, <2>2, <2>3, <2>4
  <1> QED BY <1>1, <1>2, <1>3, <1>4, <1>5, <1>6, <1>7, <1>8, <1>9, Cases

\* Between calls the record says what happened to the money, through refused
\* calls, reverted claims and redelivered webhooks, for any number of requests
\* and faults, if no answer was lost and no save went over another.
THEOREM RecordIsTrue == Spec => []RecordMatchesGateway
  <1>1. Init => Basics /\ Held /\ Truth
    <2>1. Init => Held /\ Truth
      BY DEF Init, Held, Truth, Matches, Fresh, Holding, Idle
    <2> QED BY <2>1, BasicsStart
  <1>2. Basics /\ Held /\ Truth /\ [Next]_vars => (Basics /\ Held /\ Truth)'
    BY BasicsStep, HeldStep, TruthStep
  <1>3. Truth => RecordMatchesGateway
    BY DEF Truth, RecordMatchesGateway, Matches
  <1> QED BY <1>1, <1>2, <1>3, PTL DEF Spec

-----------------------------------------------------------------------------
(* The promise: PaymentHold.                                               *)

\* Before its session is open nobody can pay an intent, or hear of it.
Unopened == row.status = "created" => money \in {"none", "refused"} /\ sent = {}

\* A save never takes an intent back to where nothing had happened to it.
LEMMA SavesNothingNew ==
  ASSUME Basics, NEW q \in Request, Settles(q)
  PROVE  row'.status # "created"
  <1>1. /\ At(q, "save") /\ req[q] # Idle /\ req[q].at = "save" /\ row' = req[q].copy
        /\ req[q].op \in Op /\ Stage(q) /\ req[q].seen \in Row
    BY AtJob DEF Settles, Basics
  <1>2. CASE req[q].op \in ByClaim
    BY <1>1, <1>2, OutcomesPaid DEF Stage, Paid
  <1>3. CASE req[q].op = "expire"
    BY <1>1, <1>3 DEF Stage
  <1>4. CASE req[q].op \in Verdict
    BY <1>1, <1>4, ApplyRow DEF Stage, Verdict
  <1> QED BY <1>1, <1>2, <1>3, <1>4 DEF Op, ByClaim

\* Every step keeps an unopened intent unpaid.
LEMMA UnopenedStep ==
  ASSUME Basics, Unopened, [Next]_vars
  PROVE  Unopened'
  <1>1. ASSUME Outside PROVE Unopened'
    <2>1. CASE OpenSession
      <3>1. row'.status = "pending"
        BY <2>1, RowUpdate DEF OpenSession, Basics, TypeOK, Status
      <3> QED BY <3>1 DEF Unopened
    <2> QED BY <1>1, <2>1 DEF Outside, OpenFails, Pay, Decline, vars, Unopened
  <1>2. ASSUME NEW q \in Request, Reading(q) \/ Marks(q) \/ Loses(q) \/ Tells(q)
        PROVE  Unopened'
    BY <1>2 DEF Reading, Elsewhere, Marks, Loses, Tells, Unopened
  <1>3. ASSUME NEW q \in Request, Wins(q) PROVE Unopened'
    BY <1>3 DEF Wins, Claimed, ByClaim, Unopened
  <1>4. ASSUME NEW q \in Request, Calls(q) \/ Reverts(q) PROVE Unopened'
    BY <1>4 DEF Calls, Reverts, Effect, Accepted, Unopened
  <1>5. ASSUME NEW q \in Request, Settles(q) PROVE Unopened'
    BY <1>5, SavesNothingNew DEF Unopened
  <1>6. ASSUME Dies PROVE Unopened'
    BY <1>6 DEF Dies, Unopened
  <1> QED BY <1>1, <1>2, <1>3, <1>4, <1>5, <1>6, Cases

\* With no claim at the gateway, the row says it.
LEMMA StandsByRow == (\A q \in Request : ~Holding(q)) => HoldStatus = Standing(row.status)
  BY DEF HoldStatus, Undecided

LEMMA StandsByRowNext ==
  (\A q \in Request : ~Holding(q)') => HoldStatus' = Standing(row'.status)
  BY DEF HoldStatus, Undecided, Standing

\* With one, its holder's copy does: what the row is given back to, or settled to.
LEMMA StandsByCopy ==
  Basics /\ Held /\ ~overwritten =>
    \A q \in Request : Holding(q) => HoldStatus = Standing(req[q].copy.status)
  <1> SUFFICES ASSUME Basics, Held, ~overwritten, NEW q \in Request, Holding(q)
               PROVE  HoldStatus = Standing(req[q].copy.status)
    OBVIOUS
  <1>1. /\ \A p \in Request : Holding(p) => p = q
        /\ row.status = Claimed(req[q].op)
    BY DEF Held
  <1>2. req[q].op \in ByClaim /\ req[q].at \in {"call", "save"} /\ req[q] # Idle
    BY DEF Holding, ByClaim, Idle
  <1>3. req[q].copy.status \in Outcomes(req[q].op)
    <2>1. Stage(q)
      BY DEF Basics
    <2> QED BY <1>2, <2>1 DEF Stage, Outcomes, ByClaim
  <1>4. CASE req[q].copy.status = "authorized"
    <2>1. HoldStatus = "authorized"
      BY <1>4 DEF HoldStatus, Undecided
    <2> QED BY <1>4, <2>1 DEF Standing
  <1>5. CASE req[q].copy.status # "authorized"
    <2>1. ~Undecided
      BY <1>1, <1>5 DEF Undecided
    <2>2. HoldStatus = Standing(row.status)
      BY <2>1 DEF HoldStatus
    <2> QED BY <1>1, <1>2, <1>3, <1>5, <2>2 DEF Standing, Outcomes, Claimed, ByClaim
  <1> QED BY <1>4, <1>5

LEMMA StandsByCopyNext ==
  (Basics /\ Held /\ ~overwritten =>
     \A q \in Request : Holding(q) => HoldStatus = Standing(req[q].copy.status))'
  BY StandsByCopy, PTL

\* The same holders with the same copies of a row of the same status.
LEMMA StandsStill ==
  ASSUME NEW q \in Request, Others(q), Holding(q)' <=> Holding(q),
         Holding(q) => req'[q].copy = req[q].copy, row'.status = row.status
  PROVE  HoldStatus' = HoldStatus
  <1>1. \A p \in Request : (Holding(p)' <=> Holding(p))
    BY DEF Others, Holding
  <1>2. \A p \in Request : Holding(p) => req'[p].copy = req[p].copy
    BY DEF Others
  <1>3. Undecided' <=> Undecided
    BY <1>1, <1>2 DEF Undecided
  <1> QED BY <1>3 DEF HoldStatus, Standing

\* The moves of the promise.
Moves ==
  \/ HoldStatus' = HoldStatus
  \/ HoldStatus = "none" /\ HoldStatus' = "pending"
  \/ HoldStatus \in {"none", "pending"} /\ HoldStatus' = "failed"
  \/ action = "sale" /\ HoldStatus = "pending" /\ HoldStatus' = "captured"
  \/ action = "authorize" /\ HoldStatus = "pending" /\ HoldStatus' = "authorized"
  \/ HoldStatus = "authorized" /\ HoldStatus' \in {"captured", "voided"}

\* A holder that goes and leaves the row claimed: what it knew of the call is lost.
LEMMA Abandoned ==
  ASSUME Basics, Held, ~overwritten, NEW q \in Request, Holding(q),
         \A p \in Request : ~Holding(p)', row' = row
  PROVE  Moves
  <1>1. /\ HoldStatus = Standing(req[q].copy.status)
        /\ HoldStatus' = Standing(row.status)
        /\ row.status = Claimed(req[q].op)
    BY StandsByCopy, StandsByRowNext DEF Held
  <1>2. req[q].op \in ByClaim /\ req[q].at \in {"call", "save"} /\ req[q] # Idle
    BY DEF Holding, ByClaim, Idle
  <1>3. req[q].copy.status \in Outcomes(req[q].op)
    <2>1. Stage(q)
      BY DEF Basics
    <2> QED BY <1>2, <2>1 DEF Stage, Outcomes, ByClaim
  <1> QED BY <1>1, <1>2, <1>3 DEF Moves, Standing, Outcomes, Claimed, ByClaim

\* Every step that saves over nothing but what it was made from moves as promised.
LEMMA MovesAsPromised ==
  ASSUME Basics, Held, Unopened, ~overwritten, ~overwritten', [Next]_vars
  PROVE  Moves
  <1> HIDE DEF Moves
  <1>a. ASSUME HoldStatus' = HoldStatus PROVE Moves
    BY <1>a DEF Moves
  <1>b. Basics' /\ Held'
    BY BasicsStep, HeldStep
  <1>1. ASSUME Outside PROVE Moves
    <2>1. CASE OpenSession
      <3>1. row.status = "created" /\ row'.status = "pending" /\ UNCHANGED req
        BY <2>1, RowUpdate DEF OpenSession, Basics, TypeOK, Status
      <3>2. \A p \in Request : ~Holding(p) /\ ~Holding(p)'
        BY <3>1, Unclaimed DEF Holding
      <3>3. HoldStatus = "none" /\ HoldStatus' = "pending"
        BY <3>1, <3>2, StandsByRow, StandsByRowNext DEF Standing
      <3> QED BY <3>3 DEF Moves
    <2>2. CASE UNCHANGED <<row, req>>
      BY <1>a, <2>2 DEF HoldStatus, Undecided, Holding, Standing
    <2> QED BY <1>1, <2>1, <2>2 DEF Outside, OpenFails, Pay, Decline, vars
  <1>2. ASSUME NEW q \in Request, Reading(q) PROVE Moves
    <2>1. ~Holding(q)' /\ ~Holding(q) /\ Others(q)
      BY <1>2 DEF Reading, Reads, Becomes, Ends, Holding, Idle, Verdict, At
    <2>2. UNCHANGED row
      BY <1>2 DEF Reading, Elsewhere
    <2> QED BY <1>a, <2>1, <2>2, StandsStill
  <1>3. ASSUME NEW q \in Request, Marks(q) PROVE Moves
    <2>1. ~Holding(q)' /\ ~Holding(q) /\ Others(q) /\ row'.status = row.status
      BY <1>3 DEF Marks, Becomes, Holding, At
    <2> QED BY <1>a, <2>1, StandsStill
  <1>4. ASSUME NEW q \in Request, Wins(q) PROVE Moves
    <2>1. /\ req[q] # Idle /\ req[q].at = "claim" /\ req[q].op \in ByClaim
          /\ Claimable(req[q].op) /\ Stage(q)
      BY <1>4 DEF Wins, At, Basics
    <2>2. HoldStatus = Standing(row.status)
      BY <1>4, WinsAlone, StandsByRow
    <2>3. Holding(q)' /\ req'[q].copy = req[q].copy
      BY <1>4 DEF Wins, Becomes, Holding, ByClaim
    <2>4. HoldStatus' = Standing(req[q].copy.status)
      BY <1>b, <2>3, StandsByCopyNext
    <2>5. Standing(row.status) = Standing(req[q].copy.status)
      BY <2>1 DEF Stage, Claimable, Refundable, Standing
    <2> QED BY <1>a, <2>2, <2>4, <2>5
  <1>5. ASSUME NEW q \in Request, Calls(q) PROVE Moves
    <2>1. /\ req[q] # Idle /\ req[q].at = "call" /\ req[q].op \in ByClaim /\ Stage(q)
          /\ Holding(q) /\ Holding(q)' /\ req'[q].copy.status = Done(req[q].op)
      BY <1>5 DEF Calls, At, Basics, Becomes, Holding, ByClaim
    <2>2. HoldStatus = Standing(req[q].copy.status)
      BY <2>1, StandsByCopy
    <2>3. HoldStatus' = Standing(Done(req[q].op))
      BY <1>b, <2>1, StandsByCopyNext
    <2> QED BY <2>1, <2>2, <2>3 DEF Moves, Stage, Standing, Done, Claimed, ByClaim
  <1>6. ASSUME NEW q \in Request, Reverts(q) PROVE Moves
    <2>1. /\ UNCHANGED row /\ Others(q)
          /\ Holding(q) /\ Holding(q)' /\ req'[q].copy = req[q].copy
      BY <1>6 DEF Reverts, Becomes, Holding, ByClaim, At
    <2> QED BY <1>a, <2>1, StandsStill
  <1>7. ASSUME NEW q \in Request, Settles(q) PROVE Moves
    <2>1. /\ ~Holding(q)' /\ Others(q) /\ row = req[q].seen /\ row' = req[q].copy
      <3>1. ~Holding(q)' /\ Others(q)
        BY <1>7 DEF Settles, Becomes, Ends, Holding, Idle
      <3>2. row = req[q].seen /\ row' = req[q].copy
        BY <1>7 DEF Settles
      <3> QED BY <3>1, <3>2
    <2>2. CASE Holding(q)
      <3>1. \A p \in Request : ~Holding(p)'
        BY <2>1, <2>2 DEF Others, Holding, Held
      <3> QED BY <1>a, <2>1, <2>2, <3>1, StandsByCopy, StandsByRowNext
    <2>3. CASE ~Holding(q) /\ row'.status = row.status
      BY <1>a, <2>1, <2>3, StandsStill
    <2>4. CASE /\ ~Holding(q) /\ row.status \in Fresh
               /\ \/ row'.status \in {"failed", "expired"}
                  \/ row'.status \in {"authorized", "captured"} \cap sent
      <3>1. \A p \in Request : ~Holding(p)
        BY <2>4, Unclaimed DEF Fresh
      <3>2. \A p \in Request : ~Holding(p)'
        BY <2>1, <3>1 DEF Others, Holding
      <3>3. HoldStatus = Standing(row.status) /\ HoldStatus' = Standing(row'.status)
        BY <3>1, <3>2, StandsByRow, StandsByRowNext
      <3>4. row'.status \in sent => row.status = "pending"
        BY <2>4 DEF Unopened, Fresh
      <3>5. Rails
        BY DEF Basics
      <3>6. HoldStatus \in {"none", "pending"}
        BY <2>4, <3>3 DEF Standing, Fresh
      <3>7. CASE row'.status \in {"failed", "expired"}
        <4>1. HoldStatus' = "failed"
          BY <3>3, <3>7 DEF Standing
        <4> QED BY <3>6, <4>1 DEF Moves
      <3>8. CASE row'.status \in {"authorized", "captured"} \cap sent
        <4>1. HoldStatus = "pending" /\ HoldStatus' = row'.status
          BY <3>3, <3>4, <3>8 DEF Standing
        <4> QED BY <3>5, <3>8, <4>1 DEF Moves, Rails
      <3> QED BY <2>4, <3>7, <3>8
    <2> QED BY <1>7, <2>1, <2>2, <2>3, <2>4, SettlesUnclaimed
  <1>8. ASSUME NEW q \in Request, Loses(q) \/ Tells(q) PROVE Moves
    <2>1. ~Holding(q)' /\ Others(q) /\ UNCHANGED row
      BY <1>8 DEF Loses, Tells, Ends, Holding, Idle
    <2>2. CASE ~Holding(q)
      BY <1>a, <2>1, <2>2, StandsStill
    <2>3. CASE Holding(q)
      <3>1. \A p \in Request : ~Holding(p)'
        BY <2>1, <2>3 DEF Others, Holding, Held
      <3> QED BY <2>1, <2>3, <3>1, Abandoned
    <2> QED BY <2>2, <2>3
  <1>9. ASSUME Dies PROVE Moves
    <2>1. UNCHANGED row /\ \A p \in Request : ~Holding(p)'
      BY <1>9 DEF Dies, Holding, Idle
    <2>2. CASE \A p \in Request : ~Holding(p)
      BY <1>a, <2>1, <2>2, StandsByRow, StandsByRowNext
    <2>3. ASSUME NEW p \in Request, Holding(p) PROVE Moves
      BY <2>1, <2>3, Abandoned
    <2> QED BY <2>2, <2>3
  <1> QED BY <1>1, <1>2, <1>3, <1>4, <1>5, <1>6, <1>7, <1>8, <1>9, Cases

\* The row of an intent that was paid, and never failed, stands for no failure.
LEMMA PaidStands == row.status \in Paid => HoldStatus \in {"authorized", "captured", "voided"}
  BY DEF Paid, HoldStatus, Standing

\* What was captured is said, and stays, captured: no void and no reverted claim
\* comes after the publication.
Final == ~overwritten => (Said("captured") => HoldStatus = "captured")

\* Every step keeps what was said to be captured captured.
LEMMA FinalStep ==
  ASSUME Basics, Held, Unopened, Final, [Next]_vars
  PROVE  Final'
  <1> SUFFICES ASSUME ~overwritten', Said("captured")' PROVE HoldStatus' = "captured"
    BY DEF Final
  <1>a. Basics' /\ Held'
    BY BasicsStep, HeldStep
  <1>b. ~overwritten
    <2>1. overwritten \in BOOLEAN
      BY DEF Basics, TypeOK
    <2>2. overwritten => overwritten'
      BY <2>1, Cases DEF Outside, OpenSession, OpenFails, Pay, Decline, vars, ghosts, Reading,
         Elsewhere, Marks, Wins, Calls, Reverts, Settles, Loses, Tells, Dies
    <2> QED BY <2>2
  <1>c. ASSUME Said("captured") PROVE HoldStatus' = "captured"
    <2>1. HoldStatus = "captured"
      BY <1>b, <1>c DEF Final
    <2> QED BY <1>b, <2>1, MovesAsPromised DEF Moves
  <1>1. ASSUME Outside PROVE HoldStatus' = "captured"
    <2>1. UNCHANGED <<req, events>>
      BY <1>1 DEF Outside, OpenSession, OpenFails, Pay, Decline, vars
    <2> QED BY <1>c, <2>1 DEF Said, At
  <1>2. ASSUME NEW q \in Request,
               Reading(q) \/ Marks(q) \/ Wins(q) \/ Calls(q) \/ Reverts(q) \/ Loses(q)
        PROVE  HoldStatus' = "captured"
    <2>1. ~At(q, "publish")' /\ Others(q) /\ events' = events
      BY <1>2 DEF Reading, Elsewhere, Reads, Marks, Wins, Calls, Reverts, Loses, Becomes, Ends, At
    <2> QED BY <1>c, <2>1, SaidByOthers
  <1>3. ASSUME NEW q \in Request, Settles(q) PROVE HoldStatus' = "captured"
    <2>1. events' = events /\ row' = req[q].copy
      BY <1>3 DEF Settles
    <2>2. CASE Ends(q)
      <3>1. ~At(q, "publish")' /\ Others(q)
        BY <2>2 DEF Ends, At
      <3> QED BY <1>c, <2>1, <3>1, SaidByOthers
    <2>3. CASE Becomes(q, req[q].op, "publish", req[q].copy, req[q].seen)
      <3>1. Says(req'[q]) = Says(req[q]) /\ Others(q) /\ ~Holding(q)'
        BY <2>3 DEF Becomes, Says, Holding
      <3>2. Said("captured") \/ "captured" \in Says(req[q])
        BY <2>1, <3>1 DEF Said, At, Others
      <3>3. CASE "captured" \in Says(req[q])
        <4>1. /\ req[q] # Idle /\ req[q].at = "save" /\ Stage(q) /\ RailsOf(q) /\ Rails
              /\ req[q].seen \in Row
          BY <1>3, AtJob DEF Settles, At, Basics
        <4>2. row'.status = "captured"
          BY <2>1, <3>3, <4>1, ApplyRow DEF Says, Stage, Verdict
        <4>3. \A p \in Request : ~Holding(p)' \/ req'[p].copy.status # "authorized"
          <5>1. CASE req[q].op = "capture"
            <6>1. Holding(q)
              BY <4>1, <5>1 DEF Holding
            <6> QED BY <1>b, <3>1, <6>1 DEF Held, Others, Holding
          <5>2. CASE req[q].op = "captured"
            <6>1. action = "sale" /\ action' = action
              BY <1>3, <4>1, <5>2 DEF Stage, Rails, Verdict, Settles
            <6>2. \A p \in Request : Holding(p)' => req'[p] # Idle /\ RailsOf(p)'
              BY <1>a DEF Basics, Holding, Idle
            <6> QED BY <6>1, <6>2 DEF RailsOf
          <5> QED BY <3>3, <5>1, <5>2 DEF Says, Verdict
        <4> QED BY <4>2, <4>3 DEF HoldStatus, Undecided, Standing
      <3> QED BY <1>c, <3>2, <3>3
    <2> QED BY <1>3, <2>2, <2>3 DEF Settles
  <1>4. ASSUME NEW q \in Request, Tells(q) PROVE HoldStatus' = "captured"
    <2>1. /\ ~At(q, "publish")' /\ Others(q) /\ At(q, "publish")
          /\ events' \subseteq events \cup Says(req[q])
      BY <1>4 DEF Tells, Ends, At
    <2> QED BY <1>c, <2>1 DEF Said, At, Others
  <1>5. ASSUME Dies PROVE HoldStatus' = "captured"
    <2>1. UNCHANGED events /\ \A p \in Request : ~At(p, "publish")'
      BY <1>5 DEF Dies, At
    <2> QED BY <1>c, <2>1 DEF Said
  <1> QED BY <1>1, <1>2, <1>3, <1>4, <1>5, Cases

\* What is published is so when it is published, however late.
LEMMA TellsTrue ==
  ASSUME Basics, Held, Consistent, Final, ~overwritten, NEW q \in Request, At(q, "publish"),
         NEW v \in Says(req[q])
  PROVE  Hold!True(v)
  <1>1. req[q] \in Job /\ req[q] # Idle /\ Stage(q) /\ RailsOf(q) /\ Said(v)
    BY AtJob DEF Basics, Said
  <1>2. v \in Verdict
    BY <1>1, SaysVerdicts
  <1>3. CASE v = "authorized"
    <2>1. action = "authorize"
      BY <1>1, <1>3 DEF Says, RailsOf, Verdict
    <2>2. HoldStatus \in {"authorized", "captured", "voided"}
      BY <1>1, <1>3, PaidStands DEF Consistent
    <2> QED BY <1>3, <2>1, <2>2 DEF Hold!True
  <1>4. CASE v = "captured"
    BY <1>1, <1>4 DEF Final, Hold!True
  <1>5. CASE v = "failed"
    <2>1. row.status \in {"failed", "expired"}
      BY <1>1, <1>5 DEF Consistent
    <2>2. HoldStatus = "failed"
      BY <2>1, Unclaimed, StandsByRow DEF Standing
    <2> QED BY <1>5, <2>2 DEF Hold!True
  <1> QED BY <1>2, <1>3, <1>4, <1>5 DEF Verdict

Promised == Basics /\ Held /\ Consistent /\ Unopened /\ Final

\* Every step of the row, the webhooks, the claims and the sweeps is a step of
\* the promise, or none.
LEMMA HoldStep ==
  ASSUME Promised, [Next]_vars
  PROVE  [Hold!Next]_Hold!holdVars
  <1> Basics /\ Held /\ Consistent /\ Unopened /\ Final
    BY DEF Promised
  <1>1. CASE overwritten'
    <2>1. overwritten' = TRUE
      BY <1>1, BasicsStep DEF Basics, TypeOK
    <2> QED BY <2>1 DEF Hold!Next, Hold!Break
  <1>2. CASE ~overwritten'
    <2>1. overwritten \in BOOLEAN /\ overwritten' \in BOOLEAN
      BY BasicsStep DEF Basics, TypeOK
    <2>2. (overwritten => overwritten') /\ action' = action
      BY <2>1, Cases DEF Outside, OpenSession, OpenFails, Pay, Decline, vars, ghosts, Reading,
         Elsewhere, Marks, Wins, Calls, Reverts, Settles, Loses, Tells, Dies
    <2>3. ~overwritten /\ overwritten' = overwritten
      BY <1>2, <2>1, <2>2
    <2>4. ASSUME events' = events PROVE [Hold!Next]_Hold!holdVars
      <3> USE DEF Hold!Next, Hold!Becomes, Hold!Kept
      <3>1. Moves
        BY <1>2, <2>3, MovesAsPromised
      <3>2. CASE HoldStatus' = HoldStatus
        BY <2>2, <2>3, <2>4, <3>2 DEF Hold!holdVars
      <3>3. CASE HoldStatus = "none" /\ HoldStatus' = "pending"
        BY <2>2, <2>3, <2>4, <3>3 DEF Hold!Open
      <3>4. CASE HoldStatus \in {"none", "pending"} /\ HoldStatus' = "failed"
        BY <2>2, <2>3, <2>4, <3>4 DEF Hold!Fail
      <3>5. CASE action = "sale" /\ HoldStatus = "pending" /\ HoldStatus' = "captured"
        BY <2>2, <2>3, <2>4, <3>5 DEF Hold!Take
      <3>6. CASE action = "authorize" /\ HoldStatus = "pending" /\ HoldStatus' = "authorized"
        BY <2>2, <2>3, <2>4, <3>6 DEF Hold!Authorize
      <3>7. CASE HoldStatus = "authorized" /\ HoldStatus' \in {"captured", "voided"}
        BY <2>2, <2>3, <2>4, <3>7 DEF Hold!Capture, Hold!Void
      <3> QED BY <3>1, <3>2, <3>3, <3>4, <3>5, <3>6, <3>7 DEF Moves
    <2>5. ASSUME NEW q \in Request, Tells(q) PROVE [Hold!Next]_Hold!holdVars
      <3>1. /\ ~Holding(q)' /\ ~Holding(q) /\ Others(q) /\ UNCHANGED row /\ At(q, "publish")
            /\ events' = events \/ events' = events \cup Says(req[q])
        BY <2>5 DEF Tells, Ends, Holding, Idle, At
      <3>2. HoldStatus' = HoldStatus
        BY <3>1, StandsStill
      <3>3. CASE events' # events
        <4>1. PICK v : Says(req[q]) = {v}
          BY <3>1, <3>3 DEF Says
        <4>2. v \in Verdict
          BY <3>1, <4>1, AtJob, SaysVerdicts DEF Basics
        <4>3. Hold!True(v)
          BY <2>3, <3>1, <4>1, TellsTrue
        <4>4. Hold!Say(v)
          BY <2>2, <2>3, <3>1, <3>2, <3>3, <4>1, <4>3 DEF Hold!Say, Hold!Kept
        <4> QED BY <4>2, <4>4 DEF Hold!Next, Verdict
      <3> QED BY <2>4, <3>3
    <2>6. events' = events \/ \E q \in Request : Tells(q)
      BY Cases DEF Outside, OpenSession, OpenFails, Pay, Decline, vars, Reading,
         Elsewhere, Marks, Wins, Calls, Reverts, Settles, Loses, Dies
    <2> QED BY <2>4, <2>5, <2>6
  <1> QED BY <1>1, <1>2

\* payments implements what the products rely on, for any number of requests,
\* refunds and faults: money is taken or held once, a hold is captured or voided
\* and not both, an intent that is over stays over, and what is published of it
\* is so; as long as no save goes over a row it was not made from.
THEOREM HoldImplemented == Spec => ImplementsHold
  <1>1. Init => Promised /\ Hold!Init
    <2> SUFFICES ASSUME Init PROVE Promised /\ Hold!Init
      OBVIOUS
    <2>1. /\ \A q \in Request : req[q] = Idle
          /\ row.status = "created" /\ money = "none" /\ sent = {} /\ events = {}
          /\ action \in {"sale", "authorize"} /\ overwritten = FALSE
      BY DEF Init
    <2>2. \A q \in Request : ~Holding(q) /\ ~At(q, "publish")
      BY <2>1 DEF Holding, At, Idle
    <2>3. Held /\ Consistent /\ Unopened /\ Final
      BY <2>1, <2>2 DEF Held, Consistent, Unopened, Final, Said
    <2>4. HoldStatus = "none"
      BY <2>1, <2>2, StandsByRow DEF Standing
    <2> QED BY <2>1, <2>3, <2>4, BasicsStart DEF Promised, Hold!Init
  <1>2. Promised /\ [Next]_vars => Promised'
    BY BasicsStep, HeldStep, ConsistentStep, UnopenedStep, FinalStep DEF Promised
  <1>3. Promised /\ [Next]_vars => [Hold!Next]_Hold!holdVars
    BY HoldStep
  <1> QED BY <1>1, <1>2, <1>3, PTL DEF Spec, ImplementsHold, Hold!Spec

-----------------------------------------------------------------------------
(* Refunds that are owed.                                                  *)

\* The money of the row was taken, and if it is said to be returned it is.
Refunding == \/ row.status \in {"captured", "refunding"}
             \/ row.status = "refunded" /\ returns > 0

\* What a refund knows of the row at each await: it was marked before it was
\* fetched, and nobody takes the mark back.
Pursued(q) ==
  req[q] # Idle /\ req[q].op = "refund" =>
    /\ req[q].at = "mark" => Refunding
    /\ req[q].at = "fetch" => row.owed
    /\ req[q].at \in {"claim", "call", "save"} => row.owed /\ req[q].copy.owed
    /\ req[q].at = "save" /\ req[q].copy.status = "refunded" => returns > 0

Owing ==
  ~overwritten => /\ row.owed => Refunding
                  /\ \A q \in Request : Pursued(q)

\* Requests that stay as they are know what they knew, as long as the row's money
\* and its mark are there.
LEMMA OwingByOthers ==
  ASSUME TypeOK, Owing, ~overwritten, NEW q \in Request, Others(q), Pursued(q)',
         Refunding => Refunding', row.owed => row'.owed, row'.owed => Refunding',
         returns > 0 => returns' > 0
  PROVE  Owing'
  <1>1. ASSUME NEW p \in Request, p # q PROVE Pursued(p)'
    <2>1. req'[p] = req[p] /\ Pursued(p)
      BY <1>1 DEF Owing, Others
    <2> QED BY <2>1 DEF Pursued
  <1> QED BY <1>1 DEF Owing

\* A hold is owed nothing, and neither is an intent that nobody paid; and no refund
\* of it is under way.
LEMMA NotOwed ==
  ASSUME Basics, Owing, ~overwritten, ~Refunding \/ action = "authorize"
  PROVE  ~row.owed /\ \A p \in Request : req[p] # Idle => req[p].op # "refund"
  <1> Rails /\ TypeOK /\ \A p \in Request : RailsOf(p) /\ Stage(p)
    BY DEF Basics
  <1>1. CASE action = "authorize"
    BY <1>1 DEF Rails, RailsOf
  <1>2. CASE ~Refunding
    <2>1. ~row.owed
      BY <1>2 DEF Owing
    <2>2. ASSUME NEW p \in Request, req[p] # Idle, req[p].op = "refund" PROVE FALSE
      <3>1. req[p].at \in Stages /\ req[p].at \notin {"check", "read", "publish"}
        BY <2>2, JobFields DEF TypeOK, Stage, Verdict
      <3>2. req[p].at \notin {"mark", "fetch", "claim", "call", "save"}
        BY <1>2, <2>1, <2>2 DEF Owing, Pursued
      <3> QED BY <3>1, <3>2 DEF Stages
    <2> QED BY <2>1, <2>2
  <1> QED BY <1>1, <1>2

\* What a save over the row it was made from leaves of what is owed.
LEMMA SettlesOwing ==
  ASSUME Basics, Held, Owing, ~overwritten, NEW q \in Request, Settles(q), row = req[q].seen,
         req[q].op \notin {"capture", "void"}
  PROVE  /\ row.owed => row'.owed
         /\ Refunding => Refunding'
         /\ row'.owed => Refunding'
  <1>1. /\ At(q, "save") /\ req[q] # Idle /\ req[q].at = "save" /\ row' = req[q].copy
        /\ req[q].op \in Op /\ Stage(q) /\ row \in Row /\ returns' = returns
    BY AtJob DEF Settles, Basics, TypeOK
  <1>2. CASE req[q].op = "refund"
    <2>1. Pursued(q)
      BY DEF Owing
    <2>2. row'.owed /\ row'.status \in {"captured", "refunded"}
      BY <1>1, <1>2, <2>1 DEF Pursued, Stage, Outcomes, ByClaim
    <2>3. Refunding'
      BY <1>1, <1>2, <2>1, <2>2 DEF Pursued, Refunding
    <2> QED BY <2>2, <2>3
  <1>3. CASE req[q].op = "expire"
    <2>1. row.status \in Fresh /\ row'.owed = row.owed
      BY <1>1, <1>3 DEF Stage
    <2>2. ~Refunding /\ ~row.owed
      BY <2>1 DEF Fresh, Refunding, Owing
    <2> QED BY <2>1, <2>2
  <1>4. CASE req[q].op \in Verdict
    <2>1. CanApply(req[q].op, row) /\ row' = Apply(req[q].op, row)
      BY <1>1, <1>4 DEF Stage
    <2>2. row'.status = req[q].op /\ row'.owed = row.owed
      BY <1>1, <1>4, <2>1, ApplyRow
    <2>3. Refunding => Refunding'
      BY <1>4, <2>1, <2>2 DEF CanApply, Refunding, Verdict
    <2> QED BY <2>2, <2>3 DEF Owing
  <1> QED BY <1>1, <1>2, <1>3, <1>4 DEF Op

\* What is owed stays owed, and whoever pursues it is right to, through any step.
LEMMA OwingStep ==
  ASSUME Basics, Held, Owing, [Next]_vars
  PROVE  Owing' /\ (row.owed => row'.owed \/ overwritten')
  <1> DEFINE Goal == Owing' /\ (row.owed => row'.owed \/ overwritten')
  <1>a. CASE overwritten'
    BY <1>a DEF Owing
  <1> SUFFICES ASSUME ~overwritten' PROVE Goal
    BY <1>a
  <1> TypeOK /\ Rails /\ \A p \in Request : RailsOf(p) /\ Stage(p)
    BY DEF Basics
  <1>b. returns \in Nat
    BY ReturnAssumption DEF TypeOK
  \* Where no refund is and none can begin, nothing is owed.
  <1>c. ASSUME ~overwritten, ~Refunding \/ action = "authorize", row'.owed => row.owed,
               \A p \in Request : req'[p] # Idle /\ req'[p].op = "refund" =>
                                 req[p] # Idle /\ req[p].op = "refund"
        PROVE  Goal
    BY <1>c, NotOwed DEF Owing, Pursued
  <1>d. ASSUME NEW q \in Request, ~overwritten, Others(q), Pursued(q)',
               UNCHANGED <<row, returns>>
        PROVE  Goal
    <2>1. Refunding' = Refunding
      BY <1>d DEF Refunding
    <2>2. row'.owed => Refunding'
      BY <1>d, <2>1 DEF Owing
    <2> QED BY <1>d, <2>1, <2>2, OwingByOthers
  <1> HIDE DEF Goal
  <1>1. ASSUME Outside PROVE Goal
    <2>1. UNCHANGED <<req, overwritten, returns, action>> /\ (OpenSession \/ UNCHANGED row)
      BY <1>1 DEF Outside, OpenSession, OpenFails, Pay, Decline, vars, ghosts
    <2>2. CASE OpenSession
      <3>1. ~Refunding /\ row'.owed = row.owed
        BY <2>2, RowUpdate DEF OpenSession, Refunding, TypeOK, Status
      <3> QED BY <1>c, <2>1, <3>1
    <2>3. CASE UNCHANGED row
      BY <2>1, <2>3 DEF Goal, Owing, Pursued, Refunding
    <2> QED BY <2>1, <2>2, <2>3
  <1>2. ASSUME NEW q \in Request, Reading(q) PROVE Goal
    <2>1. UNCHANGED <<row, returns, overwritten>> /\ Others(q)
      BY <1>2 DEF Reading, Elsewhere, Becomes, Ends
    <2>2. Pursued(q)
      BY <2>1 DEF Owing
    <2>3. CASE Ends(q)
      BY <1>d, <2>1, <2>3 DEF Ends, Pursued
    <2>4. ASSUME NEW o \in Op, NEW a \in Stages, NEW c \in Row, NEW r \in Row,
                 Becomes(q, o, a, c, r), Reads(q, o, a, c, r)
          PROVE  Pursued(q)'
      <3> SUFFICES ASSUME o = "refund" PROVE Pursued(q)'
        BY <2>4 DEF Becomes, Pursued
      <3>1. CASE a = "mark"
        BY <2>1, <2>4, <3>1 DEF Becomes, Reads, Pursued, Refunding, Verdict
      <3>2. CASE a = "fetch"
        BY <2>1, <2>4, <3>2 DEF Becomes, Reads, Pursued, Verdict
      <3>3. CASE a = "claim"
        <4>1. At(q, "fetch") /\ c.owed = row.owed
          BY <2>4, <3>3 DEF Reads, Verdict
        <4>2. row.owed
          BY <2>2, <4>1 DEF Pursued, At, Stage
        <4> QED BY <2>1, <2>4, <3>3, <4>1, <4>2 DEF Becomes, Pursued
      <3>4. CASE a = "read"
        BY <2>4, <3>4 DEF Becomes, Pursued
      <3> QED BY <2>4, <3>1, <3>2, <3>3, <3>4 DEF Reads, Verdict
    <2> QED BY <1>2, <1>d, <2>1, <2>3, <2>4 DEF Reading
  <1>3. ASSUME NEW q \in Request, Marks(q) PROVE Goal
    <2>1. /\ req[q] # Idle /\ req[q].at = "mark" /\ req[q].op = "refund" /\ Others(q)
          /\ row'.owed /\ row'.status = row.status /\ UNCHANGED <<returns, overwritten>>
      BY <1>3 DEF Marks, At, Stage, Becomes
    <2>2. Refunding /\ Refunding'
      BY <2>1 DEF Owing, Pursued, Refunding
    <2>3. Pursued(q)'
      BY <1>3, <2>1 DEF Marks, Becomes, Pursued
    <2> QED BY <2>1, <2>2, <2>3, OwingByOthers DEF Goal
  <1>4. ASSUME NEW q \in Request, Wins(q) PROVE Goal
    <2>1. /\ req[q] # Idle /\ req[q].at = "claim" /\ req[q].op \in ByClaim /\ Others(q)
          /\ req'[q].op = req[q].op /\ req'[q].at = "call" /\ req'[q].copy = req[q].copy
          /\ row'.owed = row.owed /\ row'.status = Claimed(req[q].op)
          /\ UNCHANGED <<returns, overwritten>>
      BY <1>4 DEF Wins, At, Becomes
    <2>2. CASE req[q].op = "refund"
      <3>1. Refunding'
        BY <2>1, <2>2 DEF Refunding, Claimed
      <3>2. Pursued(q)'
        BY <2>1, <2>2 DEF Owing, Pursued
      <3> QED BY <2>1, <3>1, <3>2, OwingByOthers DEF Goal
    <2>3. CASE req[q].op # "refund"
      BY <1>c, <2>1, <2>3 DEF RailsOf, ByClaim, Others
    <2> QED BY <2>2, <2>3
  <1>5. ASSUME NEW q \in Request, Calls(q) \/ Reverts(q) PROVE Goal
    <2>1. /\ req[q] # Idle /\ req[q].at = "call" /\ req[q].op \in ByClaim /\ Others(q)
          /\ req'[q].op = req[q].op /\ req'[q].at = "save"
          /\ req'[q].copy.owed = req[q].copy.owed
          /\ UNCHANGED <<row, overwritten>>
      BY <1>5 DEF Calls, Reverts, At, Becomes
    <2>2. CASE req[q].op = "refund"
      <3>1. returns' = returns \/ returns' = returns + 1
        BY <1>5 DEF Calls, Reverts, Effect
      <3>2. returns > 0 => returns' > 0
        BY <1>b, <3>1
      <3>3. req'[q].copy.status = "refunded" => returns' > 0
        <4>1. CASE Calls(q)
          BY <1>b, <2>2, <4>1 DEF Calls, Effect
        <4>2. CASE Reverts(q)
          BY <2>1, <2>2, <4>2 DEF Reverts, Becomes, Stage
        <4> QED BY <1>5, <4>1, <4>2
      <3>4. Refunding => Refunding'
        BY <2>1, <3>2 DEF Refunding
      <3>5. Pursued(q)'
        BY <2>1, <2>2, <3>3 DEF Owing, Pursued
      <3>6. row'.owed => Refunding'
        BY <2>1, <3>4 DEF Owing
      <3> QED BY <2>1, <3>2, <3>4, <3>5, <3>6, OwingByOthers DEF Goal
    <2>3. CASE req[q].op # "refund"
      BY <1>c, <2>1, <2>3 DEF RailsOf, ByClaim, Others
    <2> QED BY <2>2, <2>3
  <1>6. ASSUME NEW q \in Request, Settles(q) PROVE Goal
    <2>1. ~overwritten /\ row = req[q].seen /\ Others(q) /\ returns' = returns
      BY <1>6 DEF Settles, Becomes, Ends
    <2>2. Pursued(q)'
      BY <1>6 DEF Settles, Becomes, Ends, Pursued
    <2>3. CASE req[q].op \in {"capture", "void"}
      <3>1. /\ req[q] # Idle /\ action = "authorize" /\ row' = req[q].copy
            /\ req'[q] = Idle \/ req'[q].op = req[q].op
        BY <1>6, <2>3 DEF Settles, At, RailsOf, Becomes, Ends
      <3>2. ~row'.owed
        BY <3>1 DEF RailsOf
      <3> QED BY <1>c, <2>1, <2>3, <3>1, <3>2 DEF Others
    <2>4. CASE req[q].op \notin {"capture", "void"}
      BY <1>6, <2>1, <2>2, <2>4, SettlesOwing, OwingByOthers DEF Goal
    <2> QED BY <2>3, <2>4
  <1>7. ASSUME NEW q \in Request, Loses(q) \/ Tells(q) PROVE Goal
    <2>1. UNCHANGED <<row, returns, overwritten>> /\ Ends(q) /\ Others(q)
      BY <1>7 DEF Loses, Tells, Ends
    <2> QED BY <1>d, <2>1 DEF Ends, Pursued
  <1>8. ASSUME Dies PROVE Goal
    <2>1. UNCHANGED <<row, returns, overwritten>> /\ \A p \in Request : req'[p] = Idle
      BY <1>8 DEF Dies
    <2> QED BY <2>1 DEF Goal, Owing, Pursued, Refunding
  <1> QED BY <1>1, <1>2, <1>3, <1>4, <1>5, <1>6, <1>7, <1>8, Cases DEF Goal

Owed == Basics /\ Held /\ Owing

\* Nothing is owed at first, and every step keeps track of what is.
LEMMA OwedAlways == Spec => []Owed
  <1>1. Init => Owed
    <2>1. Init => Held /\ Owing
      BY DEF Init, Held, Holding, Owing, Pursued, Idle
    <2> QED BY <2>1, BasicsStart DEF Owed
  <1>2. Owed /\ [Next]_vars => Owed'
    BY BasicsStep, HeldStep, OwingStep DEF Owed
  <1> QED BY <1>1, <1>2, PTL DEF Spec

\* What is safe in "the sweep is what makes it eventually self-healing": a refund
\* that is owed and not made is in a row the sweep selects, or that is claimed by
\* whoever is making it, after any faults.
THEOREM RefundsInSight == Spec => []OwedInSight
  <1>1. Owed => OwedInSight
    BY DEF Owed, Owing, OwedInSight, Refunding
  <1> QED BY <1>1, OwedAlways, PTL

\* mark_refund_requested stands: every later save of the row, made from a copy read
\* before or after it, carries the mark, unless it goes over another's row.
THEOREM RefundsStayOwed == Spec => OwedStays
  <1>1. Owed /\ [Next]_vars => [row.owed => row'.owed \/ overwritten']_vars
    BY OwingStep DEF Owed
  <1> QED BY <1>1, OwedAlways, PTL DEF Spec, OwedStays

=============================================================================
