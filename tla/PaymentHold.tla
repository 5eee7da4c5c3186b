----------------------------- MODULE PaymentHold -----------------------------
(***************************************************************************)
(* What payments promises of one intent to whoever pays through it: money  *)
(* is taken or held once, a hold is captured or voided and not both, an    *)
(* intent that is over stays over, and what is published of it is so.      *)
(*                                                                         *)
(* This is the abstract specification between the services.  It knows no   *)
(* webhooks, claims, sweeps or retries: PaymentIntent is shown to          *)
(* implement it, and OmniOrder and ShipmentIntake rely on nothing else.    *)
(***************************************************************************)
VARIABLES
  action,  \* "sale" takes the money at once, "authorize" holds it
  hold,    \* what became of the intent
  heard,   \* what was published of it as payment.intent.*
  broken   \* payments saved a row over one it was not made from: no promise left

holdVars == <<action, hold, heard, broken>>

Init ==
  /\ action \in {"sale", "authorize"}
  /\ hold = "none"
  /\ heard = {}
  /\ broken = FALSE

\* (Not UNCHANGED: a product may know these two to be constants.)
Kept == action' = action /\ broken' = broken

Becomes(from, to) ==
  /\ ~broken
  /\ hold \in from
  /\ hold' = to
  /\ Kept /\ UNCHANGED heard

\* The customer has a page to pay on; the page is paid, or given up.
Open      == Becomes({"none"}, "pending")
Take      == action = "sale" /\ Becomes({"pending"}, "captured")
Authorize == action = "authorize" /\ Becomes({"pending"}, "authorized")
Fail      == Becomes({"none", "pending"}, "failed")

\* A hold is taken or released.
Capture == Becomes({"authorized"}, "captured")
Void    == Becomes({"authorized"}, "voided")

\* Published late, more than once or never, but only if it is so.
True(notice) ==
  \/ notice = "authorized" /\ action = "authorize" /\ hold \in {"authorized", "captured", "voided"}
  \/ notice \in {"captured", "failed"} /\ hold = notice

Say(notice) ==
  /\ ~broken
  /\ True(notice)
  /\ heard' = heard \cup {notice}
  /\ Kept /\ UNCHANGED hold

Break == broken' = TRUE

Next ==
  \/ Open \/ Take \/ Authorize \/ Fail
  \/ Capture \/ Void
  \/ \E notice \in {"authorized", "captured", "failed"} : Say(notice)
  \/ Break

Spec == Init /\ [][Next]_holdVars
=============================================================================
