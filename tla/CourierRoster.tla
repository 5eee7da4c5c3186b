---------------------------- MODULE CourierRoster ----------------------------
(***************************************************************************)
(* field-ops: who may be offered work.  The row of a courier has three     *)
(* writers that know nothing of each other: ops suspends and reinstates,   *)
(* the courier goes on and off duty and reports positions, and the         *)
(* consumer of the compliance topic records verdicts.  The first two read  *)
(* the row, change a field in memory and save the whole row back, with an  *)
(* await in between; the third updates its own columns in one statement.   *)
(*                                                                         *)
(* The position, the name and the vehicle are saved with the row and read  *)
(* by nothing here, so they are not kept; find_available_near's distance   *)
(* and freshness of the last fix only narrow Offerable further.            *)
(***************************************************************************)
EXTENDS Naturals, Sequences

CONSTANTS
  Courier,      \* users of one tenant who may sign up
  Request,      \* HTTP requests in flight at once: bounds concurrency
  MaxVerdicts,  \* compliance events on the topic: bounds the topic
  MayFail,      \* whether the consumer's UPDATE may return an error
  Enforce,      \* ENFORCE_COMPLIANCE of the deployment
  Idle          \* a request that does nothing

ASSUME MaxVerdictsAssumption == MaxVerdicts \in Nat
ASSUME FlagsAssumption == MayFail \in BOOLEAN /\ Enforce \in BOOLEAN

\* 'assigned' and 'on_break' exist in the enum; no code path writes them.
Duty    == {"offline", "available"}
Saved   == [active: BOOLEAN, status: Duty]           \* what save writes
Verdict == [courier: Courier, assignable: BOOLEAN]   \* an event's payload
Call    == [op: {"register", "activate", "duty", "position"},
            courier: Courier, copy: Saved]

ASSUME IdleAssumption == Idle \notin Call

VARIABLES
  registered, \* couriers with a row
  saved,      \* [Courier -> Saved], is_active and status of the row
  cleared,    \* [Courier -> BOOLEAN], compliance_assignable of the row
  req,        \* [Request -> Call or Idle], the row as it will be saved
  ordered,    \* [Courier -> BOOLEAN], the is_active ops last saved
  topic,      \* verdicts on the compliance topic, oldest first
  handled,    \* how many the running consumer has handled
  offset,     \* how many are committed: where a restart resumes
  lost,       \* positions on the topic whose last handling failed
  since,      \* [Courier -> Nat], verdicts on the topic when the row was made
  behind,     \* requests whose row was saved by another since they read it
  undone      \* couriers saved by such a request since ops last decided

table == <<registered, saved, cleared>>
feed  == <<topic, handled, offset, lost>>
races == <<behind, undone>>
vars  == <<table, req, ordered, feed, since, races>>

TypeOK ==
  /\ registered \subseteq Courier
  /\ saved \in [Courier -> Saved]
  /\ cleared \in [Courier -> BOOLEAN]
  /\ req \in [Request -> Call \cup {Idle}]
  /\ ordered \in [Courier -> BOOLEAN]
  /\ topic \in Seq(Verdict)
  /\ offset \in 0 .. handled /\ handled \in 0 .. Len(topic)
  /\ lost \subseteq 1 .. Len(topic)
  /\ since \in [Courier -> Nat]
  /\ behind \subseteq Request /\ undone \subseteq Courier

Fresh == [active |-> TRUE, status |-> "offline"]   \* Courier::new

Init ==
  /\ registered = {}
  /\ saved = [c \in Courier |-> Fresh]
  /\ cleared = [c \in Courier |-> TRUE]
  /\ req = [q \in Request |-> Idle]
  /\ ordered = [c \in Courier |-> TRUE]
  /\ topic = <<>> /\ handled = 0 /\ offset = 0 /\ lost = {}
  /\ since = [c \in Courier |-> 0]
  /\ behind = {} /\ undone = {}

-----------------------------------------------------------------------------
(* HTTP requests: a read, then a save of what was read with one change.    *)

Begin(q, op, c, copy) ==
  /\ req[q] = Idle
  /\ req' = [req EXCEPT ![q] = [op |-> op, courier |-> c, copy |-> copy]]
  /\ UNCHANGED <<table, ordered, feed, since, races>>

\* register_courier answers with the existing row when there is one.
Register(q, c) ==
  /\ c \notin registered
  /\ Begin(q, "register", c, Fresh)

SetCourierActive(q, c, active) ==
  /\ c \in registered
  /\ Begin(q, "activate", c, [saved[c] EXCEPT !.active = active])

\* Mutant: going on or off duty takes the courier for an active one.
SetAvailability_Activates(q, c, status) ==
  /\ c \in registered
  /\ Begin(q, "duty", c, [active |-> TRUE, status |-> status])

SetAvailability(q, c, status) ==
  /\ c \in registered
  /\ Begin(q, "duty", c, [saved[c] EXCEPT !.status = status])

RecordPosition(q, c) ==
  /\ c \in registered
  /\ Begin(q, "position", c, saved[c])

\* Whose copy the save of q leaves behind, and whose orders it may undo.
Overtakes(q) ==
  LET c == req[q].courier
  IN  /\ behind' = (behind \cup {x \in Request : req[x] # Idle /\ req[x].courier = c}) \ {q}
      /\ undone' = IF q \in behind THEN undone \cup {c}
                   ELSE IF req[q].op = "activate" THEN undone \ {c} ELSE undone

\* Mutant: save carries compliance_assignable as well.  What a request read, or
\* the default of a fresh Courier, then overwrites the consumer's column.
Save_WholeRow(q) ==
  /\ req[q] # Idle
  /\ LET c == req[q].courier
     IN  /\ registered' = registered \cup {c}
         /\ saved' = [saved EXCEPT ![c] = req[q].copy]
         /\ cleared' = [cleared EXCEPT ![c] = req[q].op = "register" \/ @]
         /\ since' = [since EXCEPT ![c] = IF c \in registered THEN @ ELSE Len(topic)]
         /\ ordered' = [ordered EXCEPT ![c] =
              IF req[q].op = "activate" THEN req[q].copy.active ELSE @]
  /\ req' = [req EXCEPT ![q] = Idle]
  /\ Overtakes(q)
  /\ UNCHANGED feed

\* save: the upsert on id.  A fresh row takes the column's DEFAULT true, a row
\* that is there keeps its compliance columns: they are not in the statement.
Save(q) ==
  /\ req[q] # Idle
  /\ LET c == req[q].courier
     IN  /\ registered' = registered \cup {c}
         /\ saved' = [saved EXCEPT ![c] = req[q].copy]
         /\ since' = [since EXCEPT ![c] = IF c \in registered THEN @ ELSE Len(topic)]
         /\ ordered' = [ordered EXCEPT ![c] =
              IF req[q].op = "activate" THEN req[q].copy.active ELSE @]
  /\ req' = [req EXCEPT ![q] = Idle]
  /\ Overtakes(q)
  /\ UNCHANGED <<cleared, feed>>

-----------------------------------------------------------------------------
(* The compliance consumer: in order, one message at a time, the offset    *)
(* committed asynchronously after the handler, whatever it returned.       *)

\* The compliance service speaks, of any user and for its own reasons.
IssueVerdict(c, assignable) ==
  /\ Len(topic) < MaxVerdicts
  /\ topic' = Append(topic, [courier |-> c, assignable |-> assignable])
  /\ UNCHANGED <<table, req, ordered, handled, offset, lost, since, races>>

\* update_compliance: an UPDATE that touches no row when there is none.
HandleVerdict ==
  /\ handled < Len(topic)
  /\ LET v == topic[handled + 1]
     IN  cleared' = [cleared EXCEPT ![v.courier] =
           IF v.courier \in registered THEN v.assignable ELSE @]
  /\ handled' = handled + 1
  /\ lost' = lost \ {handled'}
  /\ UNCHANGED <<registered, saved, req, ordered, topic, offset, since, races>>

\* The UPDATE fails: logged, and the message is committed like any other.
HandleFails ==
  /\ MayFail
  /\ handled < Len(topic)
  /\ handled' = handled + 1
  /\ lost' = lost \cup {handled'}
  /\ UNCHANGED <<table, req, ordered, topic, offset, since, races>>

\* Mutant: auto-commit, ahead of the handler.
Commit_Early ==
  /\ offset < Len(topic)
  /\ offset' = offset + 1
  /\ UNCHANGED <<table, req, ordered, topic, handled, lost, since, races>>

Commit ==
  /\ offset < handled
  /\ offset' = handled
  /\ UNCHANGED <<table, req, ordered, topic, handled, lost, since, races>>

\* The process restarts: requests in flight are gone, and the consumer resumes
\* at the committed offset.
Restart ==
  /\ req' = [q \in Request |-> Idle]
  /\ handled' = offset
  /\ behind' = {}
  /\ UNCHANGED <<table, ordered, topic, offset, lost, since, undone>>

-----------------------------------------------------------------------------
Next ==
  \/ \E q \in Request, c \in Courier :
       \/ Register(q, c)
       \/ \E active \in BOOLEAN : SetCourierActive(q, c, active)
       \/ \E status \in Duty : SetAvailability(q, c, status)
       \/ RecordPosition(q, c)
  \/ \E q \in Request : Save(q)
  \/ \E c \in Courier, assignable \in BOOLEAN : IssueVerdict(c, assignable)
  \/ HandleVerdict \/ HandleFails \/ Commit
  \/ Restart

Spec == Init /\ [][Next]_vars
-----------------------------------------------------------------------------
(* Correctness. *)

\* The row part of find_available_near's WHERE clause.
Offerable(c) ==
  /\ c \in registered
  /\ saved[c].active
  /\ saved[c].status = "available"
  /\ ~Enforce \/ cleared[c]

\* "A courier blocked while this service was down must still be blocked when it
\* comes back": once the consumer has handled the latest verdict on a courier,
\* the row says so, through restarts, repeated deliveries, and saves of rows
\* that were read before it ("neither can undo the other", update_compliance).
\* Verdicts given before the courier had a row touch nothing, and one whose
\* UPDATE failed is gone: its offset is committed all the same.
LatestVerdictRecorded ==
  \A c \in registered, i \in 1 .. handled :
    /\ topic[i].courier = c /\ i > since[c] /\ i \notin lost
    /\ \A k \in 1 .. Len(topic) : topic[k].courier = c => k <= i
    => cleared[c] = topic[i].assignable

\* set_courier_active: "a suspended courier can flip themselves on duty all day
\* and still never be offered a job": through duty toggles, positions, a second
\* registration, verdicts and restarts, until ops reinstates them.  The promise
\* has one hole, `undone': a request that read the row before the suspension was
\* saved, and saves after it, writes is_active back as it read it.
SuspensionSticks ==
  \A c \in registered \ undone : ~ordered[c] => ~Offerable(c)
=============================================================================
