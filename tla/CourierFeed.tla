----------------------------- MODULE CourierFeed -----------------------------
(***************************************************************************)
(* What field-ops promises a product of one of its jobs: a job is claimed  *)
(* once it was offered, finished once it was claimed, and every milestone  *)
(* it hears of on the courier topic is so.                                 *)
(*                                                                         *)
(* This is the abstract specification between the services.  It promises   *)
(* neither one winner, nor that a milestone comes once, in order or at     *)
(* all: CourierDispatch is shown to implement it for every job, and        *)
(* OmniOrder relies on nothing else.                                       *)
(***************************************************************************)
VARIABLES
  offered,   \* a courier was offered the job
  claimed,   \* a courier has won it
  finished,  \* a courier has completed it
  said       \* the milestones published of it

feedVars == <<offered, claimed, finished, said>>

Init ==
  /\ offered = FALSE /\ claimed = FALSE /\ finished = FALSE
  /\ said = {}

Offer ==
  /\ offered' = TRUE
  /\ UNCHANGED <<claimed, finished, said>>

Claim ==
  /\ offered
  /\ claimed' = TRUE
  /\ UNCHANGED <<offered, finished, said>>

Complete ==
  /\ claimed
  /\ finished' = TRUE
  /\ UNCHANGED <<offered, claimed, said>>

MaySay(kind) == IF kind = "delivered" THEN finished ELSE claimed

Say(kind) ==
  /\ MaySay(kind)
  /\ said' = said \cup {kind}
  /\ UNCHANGED <<offered, claimed, finished>>

Next ==
  \/ Offer \/ Claim \/ Complete
  \/ \E kind \in {"assigned", "arrived", "collected", "delivered"} : Say(kind)

Spec == Init /\ [][Next]_feedVars
=============================================================================
