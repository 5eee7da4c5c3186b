--------------------------- MODULE PaymentIntent ---------------------------
(***************************************************************************)
(* payments: one payment intent, from its checkout session to its refund.  *)
(* Its row is written by                                                   *)
(*   - the gateway's webhooks, delivered at least once;                    *)
(*   - the expiry sweep;                                                   *)
(*   - refunds, for cancelled shipments and from the pending-refund sweep; *)
(*   - captures and voids of a hold, asked for by omnideliv.               *)
(* All of them read the row, and save the whole of it after other awaits.  *)
(* A call of the gateway is made by whoever won a conditional UPDATE, the  *)
(* claim, and the save after it settles the claim or reverts it.           *)
(***************************************************************************)
EXTENDS Integers, FiniteSets

CONSTANTS
  Request,   \* bounds the webhooks, sweeps and calls served at once
  MaxReturn, \* bounds the refunds the gateway makes of one payment
  MaxFault   \* bounds the faults: failed calls and saves, restarts

ASSUME ReturnAssumption == MaxReturn \in Nat
ASSUME FaultAssumption  == MaxFault \in Nat

Status == {"created", "pending", "authorized", "captured", "voided", "failed",
           "expired", "refunding", "refunded"}
Verdict == {"authorized", "captured", "failed"}  \* webhooks, and events

VARIABLES
  action,      \* "sale" takes the money at once, "authorize" holds it
  row,         \* [status, paid, owed]: its payment reference and refund are known
  money,       \* at the gateway
  returns,     \* refunds the gateway made
  sent,        \* the webhooks the gateway has to deliver, again and again
  events,      \* what was published as payment.intent.*
  req,         \* what each request does next, with the copy it read
  faults,      \* faults so far
  overwritten, \* a save replaced a row that was not the one it was made from
  cut          \* a gateway call whose outcome never reached the row

vars == <<action, row, money, returns, sent, events, req, faults, overwritten, cut>>
gateway == <<money, returns, sent>>
ghosts  == <<overwritten, cut>>

Idle == [op |-> "none"]
Row  == [status : Status, paid : BOOLEAN, owed : BOOLEAN]
Op   == Verdict \cup {"expire", "refund", "capture", "void"}

\* `seen' is the row a request takes to be there when it saves `copy'.
Job == [op : Op, at : {"check", "read", "mark", "fetch", "claim", "call", "save", "publish"},
        copy : Row, seen : Row]

TypeOK ==
  /\ action \in {"sale", "authorize"}
  /\ row \in Row
  /\ money \in {"none", "refused", "open", "declined", "held", "taken", "released"}
  /\ returns \in 0 .. MaxReturn
  /\ sent \subseteq Verdict /\ events \subseteq Verdict
  /\ \A q \in Request : req[q] = Idle \/ req[q] \in Job
  /\ DOMAIN req = Request
  /\ faults \in 0 .. MaxFault
  /\ overwritten \in BOOLEAN /\ cut \in BOOLEAN

\* create_intent has saved the row, and asks for a session.
Init ==
  /\ action \in {"sale", "authorize"}
  /\ row = [status |-> "created", paid |-> FALSE, owed |-> FALSE]
  /\ money = "none"
  /\ returns = 0
  /\ sent = {} /\ events = {}
  /\ req = [q \in Request |-> Idle]
  /\ faults = 0
  /\ overwritten = FALSE /\ cut = FALSE

Works == UNCHANGED faults
Fails == faults < MaxFault /\ faults' = faults + 1

-----------------------------------------------------------------------------
(* The session and the customer.  Nobody else has the row before the page  *)
(* of the session is answered: the sweep waits for thirty minutes.         *)

OpenSession ==
  /\ row.status = "created" /\ money = "none"
  /\ money' = "open"
  /\ row' = [row EXCEPT !.status = "pending"]
  /\ UNCHANGED <<action, returns, sent, events, req, faults, ghosts>>

OpenFails ==
  /\ Fails
  /\ row.status = "created" /\ money = "none"
  /\ money' = "refused"
  /\ UNCHANGED <<action, row, returns, sent, events, req, ghosts>>

Pay ==
  /\ money = "open"
  /\ IF action = "sale"
     THEN money' = "taken" /\ sent' = sent \cup {"captured"}
     ELSE money' = "held"  /\ sent' = sent \cup {"authorized"}
  /\ UNCHANGED <<action, row, returns, events, req, faults, ghosts>>

Decline ==
  /\ money = "open"
  /\ money' = "declined"
  /\ sent' = sent \cup {"failed"}
  /\ UNCHANGED <<action, row, returns, events, req, faults, ghosts>>

-----------------------------------------------------------------------------
(* Requests.  Serving one is a chain of awaits.                            *)

Turns(q, op, at, copy, seen) ==
  req' = [req EXCEPT ![q] = [op |-> op, at |-> at, copy |-> copy, seen |-> seen]]

Begin(q, op, at) == req[q] = Idle /\ Turns(q, op, at, row, row)

At(q, at) == req[q] # Idle /\ req[q].at = at

Goes(q, at)  == Turns(q, req[q].op, at, req[q].copy, req[q].seen)
Saves(q, r)  == Turns(q, req[q].op, "save", r, req[q].seen)
Drops(q)     == req' = [req EXCEPT ![q] = Idle]

\* A webhook, each delivery looked up by its payment first.
Deliver(q, k) ==
  /\ k \in sent
  /\ Begin(q, k, IF k = "failed" THEN "read" ELSE "check")
  /\ UNCHANGED <<action, row, gateway, events, faults, ghosts>>

Replayed(k) == IF k = "captured" THEN {"captured"} ELSE {"authorized", "captured"}

Check(q) ==
  /\ At(q, "check")
  /\ IF row.paid /\ row.status \in Replayed(req[q].op) THEN Drops(q) ELSE Goes(q, "read")
  /\ UNCHANGED <<action, row, gateway, events, faults, ghosts>>

\* Mutant: a late payment revives an expired intent.
CanApply_Revives(k, r) ==
  \/ r.status \in {"created", "pending"}
  \/ k = "failed" /\ r.status = "failed"
  \/ k # "failed" /\ (r.status = "expired" \/ (r.status = k /\ r.paid))

\* The states capture, authorize and fail take an intent in.
CanApply(k, r) ==
  \/ r.status \in {"created", "pending"}
  \/ k = "failed" /\ r.status = "failed"
  \/ k # "failed" /\ r.status = k /\ r.paid

Apply(k, r) == [r EXCEPT !.status = k, !.paid = @ \/ k # "failed"]

\* An Err is answered as a failure, and redelivered.
Read(q) ==
  /\ At(q, "read")
  /\ IF CanApply(req[q].op, row)
     THEN Turns(q, req[q].op, "save", Apply(req[q].op, row), row)
     ELSE Drops(q)
  /\ UNCHANGED <<action, row, gateway, events, faults, ghosts>>

\* An intent past its time, listed and expired in memory.
ListExpired(q) ==
  /\ row.status = "pending" \/ (row.status = "created" /\ money = "refused")
  /\ req[q] = Idle
  /\ Turns(q, "expire", "save", [row EXCEPT !.status = "expired"], row)
  /\ UNCHANGED <<action, row, gateway, events, faults, ghosts>>

-----------------------------------------------------------------------------
(* Refunds, of sales only: order-intake's cancelled shipments, each marked *)
(* as owed before it is tried, and the sweep that tries again.             *)

AskRefund(q) ==
  /\ action = "sale" /\ row.status = "captured"
  /\ Begin(q, "refund", "mark")
  /\ UNCHANGED <<action, row, gateway, events, faults, ghosts>>

Mark(q) ==
  /\ At(q, "mark")
  /\ row' = [row EXCEPT !.owed = TRUE]
  /\ Goes(q, "fetch")
  /\ UNCHANGED <<action, gateway, events, faults, ghosts>>

\* Mutant: no reclaim.
LeaseOver_Never == FALSE

\* A claim is taken over fifteen minutes after it was made; a call of the
\* gateway times out after thirty seconds, so nobody is still making it.
LeaseOver ==
  \A q \in Request : req[q].op = "refund" => req[q].at \notin {"call", "save"}

Refundable == row.status = "captured" \/ (row.status = "refunding" /\ LeaseOver)

SweepRefund(q) ==
  /\ row.owed /\ Refundable
  /\ Begin(q, "refund", "fetch")
  /\ UNCHANGED <<action, row, gateway, events, faults, ghosts>>

\* refund's own read; its copy is that of a captured intent.
Fetch(q) ==
  /\ At(q, "fetch")
  /\ IF row.status \in {"captured", "refunding"}
     THEN Turns(q, "refund", "claim", [row EXCEPT !.status = "captured"], row)
     ELSE Drops(q)
  /\ UNCHANGED <<action, row, gateway, events, faults, ghosts>>

-----------------------------------------------------------------------------
(* omnideliv captures or voids a hold.                                     *)

Ask(q, op) ==
  /\ row.status = "authorized"
  /\ Begin(q, op, "claim")
  /\ UNCHANGED <<action, row, gateway, events, faults, ghosts>>

-----------------------------------------------------------------------------
(* The claim, the call and the save.                                       *)

Claimed(op) == CASE op = "refund"  -> "refunding"
                 [] op = "capture" -> "captured"
                 [] op = "void"    -> "voided"
                 [] OTHER          -> op

\* Mutant: the predicate of the UPDATE is left to the read before it.
Claimable_AsRead(op) ==
  IF op = "refund" THEN row.status \in {"captured", "refunding"}
                   ELSE row.status \in {"authorized", "captured", "voided"}

Claimable(op) == IF op = "refund" THEN Refundable ELSE row.status = "authorized"

Claim(q) ==
  /\ At(q, "claim")
  /\ IF Claimable(req[q].op)
     THEN LET claimed == [row EXCEPT !.status = Claimed(req[q].op)]
          IN  row' = claimed /\ Turns(q, req[q].op, "call", req[q].copy, claimed)
     ELSE Drops(q) /\ UNCHANGED row
  /\ UNCHANGED <<action, gateway, events, faults, ghosts>>

\* The gateway takes or releases what it holds, returns what it took, and
\* refuses anything else.
Accepted(op) == IF op = "refund" THEN money = "taken" /\ returns < MaxReturn
                                 ELSE money = "held"

Effect(op) ==
  /\ Accepted(op)
  /\ \/ op = "refund"  /\ returns' = returns + 1 /\ UNCHANGED money
     \/ op = "capture" /\ money' = "taken"    /\ UNCHANGED returns
     \/ op = "void"    /\ money' = "released" /\ UNCHANGED returns

\* Mutant: the verb is stored for the status.
Done_Verb(op) == IF op = "refund" THEN "refunded" ELSE op

Done(op) == IF op = "refund" THEN "refunded" ELSE Claimed(op)

\* Mutant: the copy is saved as it was read.
Call_KeepsCopy(q) ==
  /\ At(q, "call")
  /\ Effect(req[q].op)
  /\ Goes(q, "save")
  /\ UNCHANGED <<action, row, sent, events, faults, ghosts>>

Call(q) ==
  /\ At(q, "call")
  /\ Effect(req[q].op)
  /\ Saves(q, [req[q].copy EXCEPT !.status = Done(req[q].op)])
  /\ UNCHANGED <<action, row, sent, events, faults, ghosts>>

\* An error, which reverts the claim: refused, failed, or done and not heard of.
CallFails(q) ==
  /\ At(q, "call")
  /\ \/ Works /\ ~Accepted(req[q].op) /\ UNCHANGED <<money, returns, cut>>
     \/ Fails /\ UNCHANGED <<money, returns, cut>>
     \/ Fails /\ Effect(req[q].op) /\ cut' = TRUE
  /\ Goes(q, "save")
  /\ UNCHANGED <<action, row, sent, events, overwritten>>

\* The event a save is followed by, if any.
Says(r) == IF r.op \in Verdict THEN {r.op}
           ELSE IF r.op = "expire" THEN {"failed"}
           ELSE IF r.op = "capture" /\ r.copy.status = "captured" THEN {"captured"}
           ELSE {}

Save(q) ==
  /\ At(q, "save")
  /\ row' = req[q].copy
  /\ overwritten' = (overwritten \/ row # req[q].seen)
  /\ IF Says(req[q]) # {} THEN Goes(q, "publish") ELSE Drops(q)
  /\ UNCHANGED <<action, gateway, events, faults, cut>>

SaveFails(q) ==
  /\ Fails
  /\ At(q, "save")
  /\ Drops(q)
  /\ cut' = (cut \/ req[q].op \in {"refund", "capture", "void"})
  /\ UNCHANGED <<action, row, gateway, events, overwritten>>

Publish(q) ==
  /\ At(q, "publish")
  /\ \/ Works /\ events' = events \cup Says(req[q])
     \/ Fails /\ UNCHANGED events
  /\ Drops(q)
  /\ UNCHANGED <<action, row, gateway, ghosts>>

Restart ==
  /\ Fails
  /\ req' = [q \in Request |-> Idle]
  /\ cut' = (cut \/ \E q \in Request : /\ req[q].op \in {"refund", "capture", "void"}
                                       /\ req[q].at \in {"call", "save"})
  /\ UNCHANGED <<action, row, gateway, events, overwritten>>

Serve(q) ==
  \/ Check(q) \/ Read(q) \/ Mark(q) \/ Fetch(q) \/ Claim(q)
  \/ Call(q) \/ CallFails(q) \/ Save(q) \/ Publish(q)

Next ==
  \/ OpenSession \/ OpenFails \/ Pay \/ Decline
  \/ \E q \in Request :
       \/ \E k \in Verdict : Deliver(q, k)
       \/ ListExpired(q) \/ AskRefund(q) \/ SweepRefund(q)
       \/ \E op \in {"capture", "void"} : Ask(q, op)
       \/ Serve(q) \/ SaveFails(q)
  \/ Restart

Spec == Init /\ [][Next]_vars

\* A request is served to its end, and the pending-refund sweep goes on ticking.
FairSpec == /\ Spec
            /\ \A q \in Request : WF_vars(Serve(q))
            /\ SF_vars(\E q \in Request : SweepRefund(q))

-----------------------------------------------------------------------------
(* Correctness.  Saves are unconditional; what the claims promise, they    *)
(* promise as long as no save has gone over a row it was not made from.    *)

Holding(q) == req[q].op \in {"refund", "capture", "void"} /\ req[q].at \in {"call", "save"}

\* "Only the caller whose claim affects a row may call the gateway": a capture,
\* a void, a refund and its retries are never at the gateway together.
OneCallAtATime ==
  ~overwritten => \A p, q \in Request : Holding(p) /\ Holding(q) => p = q

\* Between calls the row says what happened to the money, through refusals,
\* reverted claims and redelivered webhooks, unless an answer was lost.
RecordMatchesGateway ==
  ~overwritten /\ ~cut /\ (\A q \in Request : ~Holding(q)) =>
    /\ row.status = "authorized" => money = "held"
    /\ row.status = "captured"   => money = "taken" /\ returns = 0
    /\ row.status = "voided"     => money = "released"
    /\ row.status = "refunded"   => money = "taken" /\ returns = 1

\* The products hear one verdict: an intent that expired or was declined is not
\* also announced as paid, nor the other way round.
OneVerdict ==
  ~overwritten => ~("failed" \in events /\ events \cap {"authorized", "captured"} # {})

\* What a row says to its clients.  A capture or a void claims the row before it
\* is at the gateway, and gives it back if the call fails: until the call has said
\* Ok, or its outcome is lost, it is a hold yet.
Standing(s) ==
  IF s = "created" THEN "none"
  ELSE IF s \in {"failed", "expired"} THEN "failed"
  ELSE IF s \in {"refunding", "refunded"} THEN "captured"
  ELSE s

Undecided == \E q \in Request : Holding(q) /\ req[q].copy.status = "authorized"

HoldStatus == IF Undecided THEN "authorized" ELSE Standing(row.status)

Hold == INSTANCE PaymentHold WITH
          hold <- HoldStatus, heard <- events, broken <- overwritten

\* The promise to the products: PaymentHold, read off the row.  Reverted claims,
\* redelivered webhooks and late sweeps never show as a hold that was captured
\* and voided, or as an intent that was paid and failed, nor are they announced.
ImplementsHold == Hold!Spec

\* A refund that was asked for is not forgotten: until the gateway made it the row
\* is one that the pending-refund sweep takes, or is in the hands of whoever is
\* making it; and no save or reverted claim takes back that it is owed.
OwedInSight ==
  ~overwritten /\ row.owed /\ returns = 0 => row.status \in {"captured", "refunding"}

OwedStays == [][row.owed => row'.owed \/ overwritten']_vars

\* A refund that is owed is made in the end ("the sweep is what makes it
\* eventually self-healing"), whatever failed or stopped on the way.
OwedIsRefunded == row.owed ~> (returns > 0 \/ overwritten)
=============================================================================
