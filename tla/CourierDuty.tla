----------------------------- MODULE CourierDuty -----------------------------
(***************************************************************************)
(* What field-ops promises every product that dispatches from the shared   *)
(* courier pool (ADR-0015): a courier works one job at a time, and the     *)
(* only way a job is finished is by the courier who is carrying it.        *)
(*                                                                         *)
(* This is the abstract specification.  It knows no offers, no requests    *)
(* and no rows; CourierDispatch is shown to implement it.                  *)
(***************************************************************************)
CONSTANTS
  Courier,   \* the couriers of one tenant
  Job,       \* the products' job ids (external_ref), opaque to this tier
  Free       \* "carrying nothing": no job

VARIABLES
  carrying,  \* carrying[c]: the job courier c has claimed and not completed, or Free
  finished   \* the pairs <<c, j>> such that c completed j

dutyVars == <<carrying, finished>>

Init ==
  /\ carrying = [c \in Courier |-> Free]
  /\ finished = {}

\* A free courier wins a claim.
Take(c, j) ==
  /\ carrying[c] = Free
  /\ carrying' = [carrying EXCEPT ![c] = j]
  /\ UNCHANGED finished

\* A courier completes the job they carry, and is free for the next one.
Finish(c) ==
  /\ carrying[c] # Free
  /\ finished' = finished \cup {<<c, carrying[c]>>}
  /\ carrying' = [carrying EXCEPT ![c] = Free]

Next ==
  \E c \in Courier :
    \/ \E j \in Job : Take(c, j)
    \/ Finish(c)

Spec == Init /\ [][Next]_dutyVars
=============================================================================
