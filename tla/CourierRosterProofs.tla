------------------------- MODULE CourierRosterProofs -------------------------
(***************************************************************************)
(* What TLAPS proves of CourierRoster, for any couriers, any number of     *)
(* requests in flight, and any number of verdicts.                         *)
(***************************************************************************)
EXTENDS CourierRoster, SequenceTheorems, TLAPS

\* What a request holds from its read to its save.
LEMMA BeginTypes ==
  ASSUME TypeOK, NEW q \in Request, NEW c \in Courier,
         \/ Register(q, c)
         \/ \E active \in BOOLEAN : SetCourierActive(q, c, active)
         \/ \E status \in Duty : SetAvailability(q, c, status)
         \/ RecordPosition(q, c)
  PROVE  req' \in [Request -> Call \cup {Idle}] /\ UNCHANGED <<table, ordered, feed, since, races>>
<1>1. ASSUME NEW op \in {"register", "activate", "duty", "position"},
             NEW copy \in Saved, Begin(q, op, c, copy)
      PROVE  req' \in [Request -> Call \cup {Idle}] /\ UNCHANGED <<table, ordered, feed, since, races>>
  <2>1. [op |-> op, courier |-> c, copy |-> copy] \in Call
    BY DEF Call
  <2> QED BY <1>1, <2>1 DEF Begin, TypeOK
<1>2. Fresh \in Saved
  BY DEF Fresh, Saved, Duty
<1>3. saved[c] \in Saved
  BY DEF TypeOK
<1>4. \A active \in BOOLEAN : [saved[c] EXCEPT !.active = active] \in Saved
  BY <1>3 DEF Saved
<1>5. \A status \in Duty : [saved[c] EXCEPT !.status = status] \in Saved
  BY <1>3 DEF Saved
<1> QED
  BY <1>1, <1>2, <1>3, <1>4, <1>5 DEF Register, SetCourierActive, SetAvailability, RecordPosition

\* A save of a typed copy leaves a typed row.
LEMMA SaveTypes ==
  ASSUME TypeOK, NEW q \in Request, Save(q)
  PROVE  TypeOK'
<1>1. req[q] \in Call
  BY DEF Save, TypeOK
<1>2. req[q].courier \in Courier /\ req[q].copy \in Saved /\ req[q].copy.active \in BOOLEAN
  BY <1>1 DEF Call, Saved
<1>3. topic \in Seq(Verdict) /\ Len(topic) \in Nat
  BY DEF TypeOK
<1>4. /\ registered' \subseteq Courier
      /\ saved' \in [Courier -> Saved]
      /\ since' \in [Courier -> Nat]
      /\ req' \in [Request -> Call \cup {Idle}]
  BY <1>2, <1>3 DEF Save, TypeOK
<1>5. ordered' \in [Courier -> BOOLEAN]
  <2> DEFINE c == req[q].courier
             flag == IF req[q].op = "activate" THEN req[q].copy.active ELSE ordered[c]
  <2>1. flag \in BOOLEAN
    BY <1>2 DEF TypeOK
  <2>2. ordered' = [ordered EXCEPT ![c] = flag]
    BY DEF Save
  <2> HIDE DEF flag
  <2> QED BY <2>1, <2>2 DEF TypeOK
<1>6. UNCHANGED <<cleared, feed>>
  BY DEF Save
<1>7. behind' \subseteq Request /\ undone' \subseteq Courier
  BY <1>2 DEF Save, Overtakes, TypeOK
<1> QED BY <1>3, <1>4, <1>5, <1>6, <1>7 DEF TypeOK, feed

\* Every step keeps every variable in its type.
LEMMA TypeStep ==
  ASSUME TypeOK, [Next]_vars
  PROVE  TypeOK'
<1>0. topic \in Seq(Verdict) /\ Len(topic) \in Nat
  BY DEF TypeOK
<1>1. CASE UNCHANGED vars
  BY <1>1 DEF TypeOK, vars, table, feed, races
<1>2. ASSUME NEW q \in Request, NEW c \in Courier,
             \/ Register(q, c)
             \/ \E active \in BOOLEAN : SetCourierActive(q, c, active)
             \/ \E status \in Duty : SetAvailability(q, c, status)
             \/ RecordPosition(q, c)
      PROVE  TypeOK'
  <2>1. req' \in [Request -> Call \cup {Idle}] /\ UNCHANGED <<table, ordered, feed, since, races>>
    BY <1>2, BeginTypes
  <2> QED BY <2>1 DEF TypeOK, table, feed, races
<1>3. ASSUME NEW q \in Request, Save(q)
      PROVE  TypeOK'
  BY <1>3, SaveTypes
<1>4. ASSUME NEW c \in Courier, NEW assignable \in BOOLEAN, IssueVerdict(c, assignable)
      PROVE  TypeOK'
  <2>1. [courier |-> c, assignable |-> assignable] \in Verdict
    BY DEF Verdict
  <2>2. topic' \in Seq(Verdict) /\ Len(topic') = Len(topic) + 1
    BY <1>0, <1>4, <2>1, AppendProperties DEF IssueVerdict
  <2> QED BY <1>0, <1>4, <2>2 DEF TypeOK, IssueVerdict, table, races
<1>5. CASE HandleVerdict
  <2>1. topic[handled + 1] \in Verdict
    BY <1>0, <1>5, ElementOfSeq DEF HandleVerdict, TypeOK
  <2>2. topic[handled + 1].assignable \in BOOLEAN
    BY <2>1 DEF Verdict
  <2>3. cleared' \in [Courier -> BOOLEAN]
    BY <1>5, <2>2 DEF HandleVerdict, TypeOK
  <2> QED BY <1>0, <1>5, <2>3 DEF TypeOK, HandleVerdict, races
<1>6. CASE HandleFails
  BY <1>0, <1>6 DEF TypeOK, HandleFails, table, races
<1>7. CASE Commit
  BY <1>0, <1>7 DEF TypeOK, Commit, table, races
<1>8. CASE Restart
  BY <1>0, <1>8 DEF TypeOK, Restart, table
<1> QED BY <1>1, <1>2, <1>3, <1>4, <1>5, <1>6, <1>7, <1>8 DEF Next

\* Every reachable state of the roster and of the compliance feed is well typed;
\* in particular the committed offset never passes what was handled.
THEOREM TypeCorrect == Spec => []TypeOK
<1>1. Init => TypeOK
  BY EmptySeq DEF Init, TypeOK, Fresh, Saved, Duty
<1>2. TypeOK /\ [Next]_vars => TypeOK'
  BY TypeStep
<1> QED BY <1>1, <1>2, PTL DEF Spec

-----------------------------------------------------------------------------
\* A handled verdict is what the row says, whatever saves, repeats and restarts
\* come between, unless its UPDATE failed.
THEOREM VerdictsLand == Spec => []LatestVerdictRecorded
<1>1. Init => LatestVerdictRecorded
  BY DEF Init, LatestVerdictRecorded
<1>2. TypeOK /\ TypeOK' /\ LatestVerdictRecorded /\ [Next]_vars => LatestVerdictRecorded'
  <2> SUFFICES ASSUME TypeOK, TypeOK', LatestVerdictRecorded, [Next]_vars,
                      NEW c \in registered', NEW i \in 1 .. handled',
                      topic'[i].courier = c, i > since'[c], i \notin lost',
                      \A k \in 1 .. Len(topic') : topic'[k].courier = c => k <= i
               PROVE  cleared'[c] = topic'[i].assignable
    BY DEF LatestVerdictRecorded
  <2>0. /\ topic \in Seq(Verdict) /\ Len(topic) \in Nat
        /\ offset \in Nat /\ handled \in Nat /\ offset <= handled /\ handled <= Len(topic)
        /\ c \in Courier /\ i \in Nat
        /\ handled' \in Nat /\ handled' <= Len(topic')
    BY DEF TypeOK
  <2>1. ASSUME UNCHANGED <<cleared, topic, since, registered>>, i \in 1 .. handled, i \notin lost
        PROVE  cleared'[c] = topic'[i].assignable
    BY <2>1 DEF LatestVerdictRecorded
  <2>2. CASE UNCHANGED vars
    BY <2>1, <2>2 DEF vars, table, feed
  <2>3. ASSUME NEW q \in Request, NEW d \in Courier,
               \/ Register(q, d)
               \/ \E active \in BOOLEAN : SetCourierActive(q, d, active)
               \/ \E status \in Duty : SetAvailability(q, d, status)
               \/ RecordPosition(q, d)
        PROVE  cleared'[c] = topic'[i].assignable
    <3>1. UNCHANGED <<table, ordered, feed, since, races>>
      BY <2>3, BeginTypes
    <3> QED BY <2>1, <3>1 DEF table, feed
  <2>4. ASSUME NEW q \in Request, Save(q)
        PROVE  cleared'[c] = topic'[i].assignable
    <3>1. UNCHANGED <<cleared, topic, handled, lost>>
      BY <2>4 DEF Save, feed
    <3>2. CASE c \in registered
      <4>1. since'[c] = since[c]
        BY <2>0, <2>4, <3>2 DEF Save, TypeOK
      <4> QED BY <3>1, <3>2, <4>1 DEF LatestVerdictRecorded
    <3>3. CASE c \notin registered
      <4>1. c = req[q].courier
        BY <2>4, <3>3 DEF Save
      <4>2. since'[c] = Len(topic)
        BY <2>0, <2>4, <3>3, <4>1 DEF Save, TypeOK
      <4> QED BY <2>0, <3>1, <4>2
    <3> QED BY <3>2, <3>3
  <2>5. ASSUME NEW d \in Courier, NEW assignable \in BOOLEAN, IssueVerdict(d, assignable)
        PROVE  cleared'[c] = topic'[i].assignable
    <3>1. /\ UNCHANGED <<registered, cleared, handled, lost, since>>
          /\ topic' = Append(topic, [courier |-> d, assignable |-> assignable])
      BY <2>5 DEF IssueVerdict, table
    <3>2. /\ Len(topic') = Len(topic) + 1
          /\ \A k \in 1 .. Len(topic) : topic'[k] = topic[k]
      BY <2>0, <3>1
    <3>3. i \in 1 .. Len(topic) /\ topic'[i] = topic[i]
      BY <2>0, <3>1, <3>2
    <3>4. \A k \in 1 .. Len(topic) : topic[k].courier = c => k <= i
      BY <2>0, <3>2
    <3> QED BY <3>1, <3>3, <3>4 DEF LatestVerdictRecorded
  <2>6. CASE HandleVerdict
    <3> DEFINE h == handled + 1
    <3>1. /\ UNCHANGED <<registered, topic, since>>
          /\ handled' = h /\ lost' = lost \ {h} /\ h \in 1 .. Len(topic)
          /\ cleared' = [cleared EXCEPT ![topic[h].courier] =
               IF topic[h].courier \in registered THEN topic[h].assignable ELSE @]
      BY <2>0, <2>6 DEF HandleVerdict
    <3>2. CASE i = h
      BY <2>0, <3>1, <3>2 DEF TypeOK
    <3>3. CASE i # h
      <4>1. i \in 1 .. handled /\ i \notin lost
        BY <2>0, <3>1, <3>3
      <4>2. topic[h].courier # c
        BY <2>0, <3>1, <4>1
      <4>3. cleared'[c] = cleared[c]
        BY <2>0, <3>1, <4>2 DEF TypeOK
      <4> QED BY <3>1, <4>1, <4>3 DEF LatestVerdictRecorded
    <3> QED BY <3>2, <3>3
  <2>7. CASE HandleFails
    <3>1. i \in 1 .. handled /\ i \notin lost
      BY <2>0, <2>7 DEF HandleFails
    <3> QED BY <2>1, <2>7, <3>1 DEF HandleFails, table
  <2>8. CASE Commit
    BY <2>1, <2>8 DEF Commit, table
  <2>9. CASE Restart
    <3>1. i \in 1 .. handled /\ i \notin lost
      BY <2>0, <2>9 DEF Restart
    <3> QED BY <2>1, <2>9, <3>1 DEF Restart, table
  <2> QED BY <2>2, <2>3, <2>4, <2>5, <2>6, <2>7, <2>8, <2>9 DEF Next
<1> QED BY <1>1, <1>2, TypeCorrect, PTL DEF Spec

-----------------------------------------------------------------------------
\* A request that is not behind will save what the row says now, its own change
\* apart; and outside of the hole, is_active is what ops last decided.
Current(q) ==
  LET c == req[q].courier
  IN  /\ req[q].op = "register" => c \notin registered /\ req[q].copy.active
      /\ req[q].op \in {"duty", "position"} => req[q].copy.active = saved[c].active
      /\ req[q].op # "register" => c \in registered

CopiesCurrent == \A q \in Request \ behind : req[q] # Idle => Current(q)

OrdersKept ==
  /\ \A c \in registered \ undone : saved[c].active <=> ordered[c]
  /\ \A c \in Courier \ registered : ordered[c]

\* A request begins with what it just read.
LEMMA BeginCurrent ==
  ASSUME TypeOK, CopiesCurrent, OrdersKept, NEW q \in Request, NEW c \in Courier,
         \/ Register(q, c)
         \/ \E active \in BOOLEAN : SetCourierActive(q, c, active)
         \/ \E status \in Duty : SetAvailability(q, c, status)
         \/ RecordPosition(q, c)
  PROVE  CopiesCurrent' /\ OrdersKept'
<1>1. ASSUME NEW op \in {"register", "activate", "duty", "position"}, NEW copy \in Saved,
             Begin(q, op, c, copy),
             op = "register" => c \notin registered /\ copy.active,
             op \in {"duty", "position"} => copy.active = saved[c].active,
             op # "register" => c \in registered
      PROVE  CopiesCurrent' /\ OrdersKept'
  <2>1. UNCHANGED <<registered, saved, ordered, behind, undone>>
    BY <1>1 DEF Begin, table, races
  <2>2. OrdersKept'
    BY <2>1 DEF OrdersKept
  <2>3. ASSUME NEW x \in Request \ behind, req'[x] # Idle
        PROVE  Current(x)'
    <3>1. CASE x = q
      <4>1. req'[x] = [op |-> op, courier |-> c, copy |-> copy]
        BY <1>1, <3>1 DEF Begin, TypeOK
      <4> QED BY <1>1, <2>1, <4>1 DEF Current
    <3>2. CASE x # q
      <4>1. req'[x] = req[x]
        BY <1>1, <3>2 DEF Begin, TypeOK
      <4> QED BY <2>1, <2>3, <4>1 DEF CopiesCurrent, Current
    <3> QED BY <3>1, <3>2
  <2> QED BY <2>1, <2>2, <2>3 DEF CopiesCurrent
<1>2. Fresh \in Saved /\ Fresh.active
  BY DEF Fresh, Saved, Duty
<1>3. saved[c] \in Saved
  BY DEF TypeOK
<1>4. \A active \in BOOLEAN : [saved[c] EXCEPT !.active = active] \in Saved
  BY <1>3 DEF Saved
<1>5. \A status \in Duty : /\ [saved[c] EXCEPT !.status = status] \in Saved
                           /\ [saved[c] EXCEPT !.status = status].active = saved[c].active
  BY <1>3 DEF Saved
<1> QED
  BY <1>1, <1>2, <1>3, <1>4, <1>5 DEF Register, SetCourierActive, SetAvailability, RecordPosition

\* A save leaves behind every other request on its courier, and keeps the order
\* of ops unless it was behind itself.
LEMMA SaveCurrent ==
  ASSUME TypeOK, TypeOK', CopiesCurrent, OrdersKept, NEW q \in Request, Save(q)
  PROVE  CopiesCurrent' /\ OrdersKept'
<1> DEFINE c == req[q].courier
<1>1. /\ req[q] # Idle /\ req[q] \in Call /\ c \in Courier
      /\ req[q].op \in {"register", "activate", "duty", "position"}
      /\ req[q].copy.active \in BOOLEAN
  BY DEF Save, TypeOK, Call, Saved
<1>2. /\ registered' = registered \cup {c}
      /\ saved' = [saved EXCEPT ![c] = req[q].copy]
      /\ req' = [req EXCEPT ![q] = Idle]
      /\ ordered' = [ordered EXCEPT ![c] =
           IF req[q].op = "activate" THEN req[q].copy.active ELSE @]
      /\ behind' = (behind \cup {x \in Request : req[x] # Idle /\ req[x].courier = c}) \ {q}
      /\ undone' = IF q \in behind THEN undone \cup {c}
                   ELSE IF req[q].op = "activate" THEN undone \ {c} ELSE undone
  BY DEF Save, Overtakes
<1>3. CopiesCurrent'
  <2> SUFFICES ASSUME NEW x \in Request \ behind', req'[x] # Idle
               PROVE  Current(x)'
    BY DEF CopiesCurrent
  <2>1. x # q /\ req'[x] = req[x]
    BY <1>2 DEF TypeOK
  <2>2. x \notin behind /\ req[x].courier # c /\ req[x] # Idle
    BY <1>2, <2>1
  <2>3. Current(x) /\ req[x].courier \in Courier
    BY <2>2 DEF CopiesCurrent, TypeOK, Call
  <2>4. saved'[req[x].courier] = saved[req[x].courier]
    BY <1>2, <2>2, <2>3 DEF TypeOK
  <2>5. req[x].courier \in registered' <=> req[x].courier \in registered
    BY <1>2, <2>2
  <2> QED BY <2>1, <2>3, <2>4, <2>5 DEF Current
<1>4. ASSUME NEW d \in Courier, d # c
      PROVE  /\ saved'[d] = saved[d] /\ (ordered'[d] <=> ordered[d])
             /\ d \in registered' <=> d \in registered
             /\ d \in undone' <=> d \in undone
  BY <1>2, <1>4 DEF TypeOK
<1>5. saved'[c] = req[q].copy
  BY <1>1, <1>2 DEF TypeOK
<1>6. CASE q \in behind
  <2>1. c \in undone' /\ c \in registered'
    BY <1>2, <1>6
  <2> QED BY <1>3, <1>4, <2>1 DEF OrdersKept, TypeOK
<1>7. CASE q \notin behind
  <2>1. Current(q)
    BY <1>1, <1>7 DEF CopiesCurrent
  <2>2. c \notin undone' => (saved'[c].active <=> ordered'[c])
    <3>1. CASE req[q].op = "activate"
      <4>1. ordered'[c] <=> req[q].copy.active
        BY <1>1, <1>2, <3>1 DEF TypeOK
      <4> QED BY <1>5, <4>1
    <3>2. CASE req[q].op = "register"
      <4>1. ordered'[c] <=> ordered[c]
        BY <1>1, <1>2, <3>2 DEF TypeOK
      <4>2. ordered[c] /\ req[q].copy.active
        BY <1>1, <2>1, <3>2 DEF Current, OrdersKept
      <4> QED BY <1>5, <4>1, <4>2
    <3>3. CASE req[q].op \in {"duty", "position"}
      <4>1. (ordered'[c] <=> ordered[c]) /\ undone' = undone
        BY <1>1, <1>2, <1>7, <3>3 DEF TypeOK
      <4>2. c \in registered /\ req[q].copy.active = saved[c].active
        BY <2>1, <3>3 DEF Current
      <4> QED BY <1>5, <4>1, <4>2 DEF OrdersKept
    <3> QED BY <1>1, <3>1, <3>2, <3>3
  <2>3. c \in registered'
    BY <1>2
  <2> QED BY <1>3, <1>4, <2>2, <2>3 DEF OrdersKept, TypeOK
<1> QED BY <1>6, <1>7

\* Every step keeps the copies current and the orders kept.
LEMMA OrderStep ==
  ASSUME TypeOK, TypeOK', CopiesCurrent, OrdersKept, [Next]_vars
  PROVE  CopiesCurrent' /\ OrdersKept'
<1>1. ASSUME UNCHANGED <<table, req, ordered, races>>
      PROVE  CopiesCurrent' /\ OrdersKept'
  <2>1. UNCHANGED <<registered, saved, req, ordered, behind, undone>>
    BY <1>1 DEF table, races
  <2> QED BY <2>1 DEF CopiesCurrent, Current, OrdersKept
<1>2. CASE UNCHANGED vars
  BY <1>1, <1>2 DEF vars
<1>3. ASSUME NEW q \in Request, NEW c \in Courier,
             \/ Register(q, c)
             \/ \E active \in BOOLEAN : SetCourierActive(q, c, active)
             \/ \E status \in Duty : SetAvailability(q, c, status)
             \/ RecordPosition(q, c)
      PROVE  CopiesCurrent' /\ OrdersKept'
  BY <1>3, BeginCurrent
<1>4. ASSUME NEW q \in Request, Save(q)
      PROVE  CopiesCurrent' /\ OrdersKept'
  BY <1>4, SaveCurrent
<1>5. ASSUME NEW c \in Courier, NEW assignable \in BOOLEAN, IssueVerdict(c, assignable)
      PROVE  CopiesCurrent' /\ OrdersKept'
  BY <1>1, <1>5 DEF IssueVerdict
<1>6. CASE HandleVerdict
  <2>1. UNCHANGED <<registered, saved, req, ordered, behind, undone>>
    BY <1>6 DEF HandleVerdict, races
  <2> QED BY <2>1 DEF CopiesCurrent, Current, OrdersKept
<1>7. CASE HandleFails \/ Commit
  BY <1>1, <1>7 DEF HandleFails, Commit
<1>8. CASE Restart
  <2>1. \A q \in Request : req'[q] = Idle
    BY <1>8 DEF Restart
  <2>2. UNCHANGED <<registered, saved, ordered, undone>>
    BY <1>8 DEF Restart, table
  <2> QED BY <2>1, <2>2 DEF CopiesCurrent, OrdersKept
<1> QED BY <1>2, <1>3, <1>4, <1>5, <1>6, <1>7, <1>8 DEF Next

\* A suspension lasts until ops lifts it, but for a save that was already on its
\* way when it was made.
THEOREM SuspensionLasts == Spec => []SuspensionSticks
<1>1. Init => CopiesCurrent /\ OrdersKept
  BY DEF Init, CopiesCurrent, OrdersKept
<1>2. TypeOK /\ TypeOK' /\ CopiesCurrent /\ OrdersKept /\ [Next]_vars
        => CopiesCurrent' /\ OrdersKept'
  BY OrderStep
<1>3. OrdersKept => SuspensionSticks
  BY DEF OrdersKept, SuspensionSticks, Offerable
<1> QED BY <1>1, <1>2, <1>3, TypeCorrect, PTL DEF Spec
=============================================================================
