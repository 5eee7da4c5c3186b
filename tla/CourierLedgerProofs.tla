------------------------- MODULE CourierLedgerProofs -------------------------
(***************************************************************************)
(* What TLAPS proves of CourierLedger, for any couriers, jobs, declared    *)
(* pay, number of writers and weeks.                                       *)
(***************************************************************************)
EXTENDS CourierLedger, FiniteSetTheorems, TLAPS

\* A credit that is made at all appends at least one entry.
LEMMA PostedSize ==
  ASSUME NEW pay \in Pay
  PROVE  /\ pay \in [Kind -> Nat]
         /\ Earned(pay) \in Nat
         /\ pay["cod_collected"] \in Nat
         /\ Cardinality(Posted(pay)) \in Nat \ {0}
<1>1. pay \in [Kind -> Nat] /\ \E k \in Kind : pay[k] > 0
  BY PayAssumption
<1>2. Earned(pay) \in Nat /\ pay["cod_collected"] \in Nat
  BY <1>1 DEF Earned, Kind
<1>3. IsFiniteSet(Kind)
  <2>1. IsFiniteSet({"cod_collected"})
    BY FS_Singleton
  <2>2. IsFiniteSet({"tip"} \cup {"cod_collected"})
    BY <2>1, FS_Singleton, FS_Union
  <2>3. IsFiniteSet({"trip_earning"} \cup ({"tip"} \cup {"cod_collected"}))
    BY <2>2, FS_Singleton, FS_Union
  <2>4. Kind = {"trip_earning"} \cup ({"tip"} \cup {"cod_collected"})
    BY DEF Kind
  <2> QED BY <2>3, <2>4
<1>4. IsFiniteSet(Posted(pay)) /\ Posted(pay) # {}
  BY <1>1, <1>3, FS_Subset DEF Posted
<1>5. Cardinality(Posted(pay)) \in Nat /\ Cardinality(Posted(pay)) # 0
  BY <1>4, FS_CardinalityType, FS_EmptySet
<1> QED BY <1>1, <1>2, <1>5

-----------------------------------------------------------------------------
(* What a writer knows of the ledger it read.  The version only grows, so  *)
(* a row with the version that was read is the row that was read, and so   *)
(* are its entries.                                                        *)

Known(w) ==
  LET l == w.in.ledger
      unchanged == row[l].version = w.in.row.version
  IN  /\ w.in.row.version <= row[l].version
      /\ unchanged => row[l] = w.in.row
      /\ w.op = "payout" => w.in.row.version > 0
      /\ w.op = "payout" /\ w.step = "save" =>
           /\ w.in.row.balance > 0
           /\ unchanged => Held(l) = 0
      /\ w.op = "remit" /\ w.step = "save" /\ unchanged => w.amount <= Held(l)

ReadsKnown == \A q \in Request : req[q] # Idle => Known(req[q])

Inv == TypeOK /\ ReadsKnown

\* The parts of a writer in flight.
LEMMA WriterParts ==
  ASSUME TypeOK, NEW q \in Request, req[q] # Idle
  PROVE  /\ req[q] \in Writer
         /\ req[q].in \in Read
         /\ req[q].in.ledger \in Ledger
         /\ req[q].in.row \in Row
         /\ req[q].in.row.version \in Nat
         /\ req[q].in.row.balance \in Int
         /\ row[req[q].in.ledger] \in Row
         /\ row[req[q].in.ledger].version \in Nat
         /\ row[req[q].in.ledger].balance \in Int
         /\ req[q].op = "credit" =>
              req[q] \in [op: {"credit"}, step: {"check", "save"}, in: Read, job: Job, pay: Pay]
         /\ req[q].op = "remit" =>
              req[q] \in [op: {"remit"}, step: {"entries", "save"}, in: Read, amount: Amount]
         /\ req[q].op = "payout" =>
              req[q] \in [op: {"payout"}, step: {"entries", "save"}, in: Read]
<1>1. req[q] \in Writer
  BY DEF TypeOK
<1>2. req[q].in \in Read
  BY <1>1 DEF Writer
<1>3. /\ req[q].in.ledger \in Ledger
      /\ req[q].in.row \in Row
  BY <1>2 DEF Read
<1>4. row[req[q].in.ledger] \in Row
  BY <1>3 DEF TypeOK
<1> QED BY <1>1, <1>2, <1>3, <1>4 DEF Writer, Row

\* The sums of a ledger are natural numbers.
LEMMA HeldType ==
  ASSUME TypeOK, NEW l \in Ledger
  PROVE  /\ log[l] \in Log
         /\ log[l].earned \in Nat /\ log[l].paid \in Nat
         /\ log[l].collected \in Nat /\ log[l].remitted \in Nat
         /\ Held(l) \in Nat /\ Book(l) \in Int
         /\ Held(l) = 0 => log[l].collected <= log[l].remitted
         /\ Held(l) > 0 => Held(l) = log[l].collected - log[l].remitted
<1>1. log[l] \in Log
  BY DEF TypeOK
<1>2. /\ log[l].earned \in Nat /\ log[l].paid \in Nat
      /\ log[l].collected \in Nat /\ log[l].remitted \in Nat
  BY <1>1 DEF Log
<1> QED BY <1>1, <1>2 DEF Held, Book

-----------------------------------------------------------------------------
(* What each step of Next does, in the terms the proofs need: a writer     *)
(* starts, decides to save, ends, or saves; or a new week begins.          *)

\* Writer w starts at q, with the row it has just read.
Starts(q, w) ==
  /\ req[q] = Idle
  /\ w \in Writer /\ w.step # "save"
  /\ w.in.row = row[w.in.ledger]
  /\ w.op = "payout" => w.in.row.version > 0
  /\ req' = [req EXCEPT ![q] = w]
  /\ UNCHANGED <<week, row, log, entries>>

\* The writer at q, now w, goes on to its save, by what the entries say.
Decides(q, w) ==
  /\ req[q] # Idle
  /\ w \in Writer /\ w.in = req[q].in /\ w.op = req[q].op /\ w.step = "save"
  /\ w.op = "remit" => w.amount <= Held(w.in.ledger)
  /\ w.op = "payout" => Held(w.in.ledger) = 0 /\ w.in.row.balance > 0
  /\ req' = [req EXCEPT ![q] = w]
  /\ UNCHANGED <<week, row, log, entries>>

\* A writer that begins holds what it read of one ledger.
LEMMA StartShape ==
  ASSUME TypeOK, NEW q \in Request, NEW l \in Ledger, NEW w \in Writer,
         w.in = Open(l), w.step # "save", w.op = "payout" => row[l].version > 0,
         Begin(q, w)
  PROVE  Starts(q, w)
<1>1. w.in.ledger = l /\ w.in.row = row[l]
  BY DEF Open
<1> QED BY <1>1 DEF Begin, Starts

\* The three ways to start: the ledger read is one of the courier's.
LEMMA BeginShape ==
  ASSUME TypeOK, NEW q \in Request
  PROVE  /\ \A c \in Courier, j \in Job, pay \in Pay :
              BeginCredit(q, c, j, pay) => \E w \in Writer : Starts(q, w)
         /\ \A c \in Courier, amount \in Amount :
              BeginRemit(q, c, amount) => \E w \in Writer : Starts(q, w)
         /\ \A l \in Ledger :
              BeginPayout(q, l) => \E w \in Writer : Starts(q, w)
<1>0. /\ \A l \in Ledger : Open(l) \in Read /\ Open(l).row = row[l]
      /\ \A c \in Courier : <<c, week>> \in Ledger
  BY DEF Open, Read, Ledger, TypeOK
<1>1. ASSUME NEW c \in Courier, NEW j \in Job, NEW pay \in Pay,
             BeginCredit(q, c, j, pay)
      PROVE  \E w \in Writer : Starts(q, w)
  <2> DEFINE w == [op |-> "credit", step |-> "check", in |-> Open(<<c, week>>),
                   job |-> j, pay |-> pay]
  <2>1. w \in Writer
    BY <1>0 DEF Writer
  <2>2. w.in = Open(<<c, week>>) /\ w.step # "save" /\ w.op # "payout"
    OBVIOUS
  <2>3. Begin(q, w)
    BY <1>1 DEF BeginCredit
  <2> HIDE DEF w
  <2> QED BY <1>0, <2>1, <2>2, <2>3, StartShape
<1>2. ASSUME NEW c \in Courier, NEW amount \in Amount, BeginRemit(q, c, amount)
      PROVE  \E w \in Writer : Starts(q, w)
  <2> DEFINE w == [op |-> "remit", step |-> "entries", in |-> Open(<<c, week>>),
                   amount |-> amount]
  <2>1. w \in Writer
    BY <1>0 DEF Writer
  <2>2. w.in = Open(<<c, week>>) /\ w.step # "save" /\ w.op # "payout"
    OBVIOUS
  <2>3. Begin(q, w)
    BY <1>2 DEF BeginRemit
  <2> HIDE DEF w
  <2> QED BY <1>0, <2>1, <2>2, <2>3, StartShape
<1>3. ASSUME NEW l \in Ledger, BeginPayout(q, l)
      PROVE  \E w \in Writer : Starts(q, w)
  <2> DEFINE w == [op |-> "payout", step |-> "entries", in |-> Open(l)]
  <2>1. w \in Writer
    BY <1>0 DEF Writer
  <2>2. w.in = Open(l) /\ w.step # "save"
    OBVIOUS
  <2>3. Begin(q, w) /\ row[l].version > 0
    BY <1>3 DEF BeginPayout
  <2> HIDE DEF w
  <2> QED BY <2>1, <2>2, <2>3, StartShape
<1> QED BY <1>1, <1>2, <1>3

\* A check that lets its writer go on is a decision on the entries as they are.
LEMMA ContinueShape ==
  ASSUME TypeOK, NEW q \in Request,
         CheckCredited(q) \/ CheckHeld(q) \/ CheckOwed(q)
  PROVE  \E w \in Writer : Decides(q, w)
<1> DEFINE w == [req[q] EXCEPT !.step = "save"]
<1>1. req[q] # Idle /\ Continue(q)
  BY DEF CheckCredited, CheckHeld, CheckOwed
<1>2. req' = [req EXCEPT ![q] = w] /\ UNCHANGED <<week, row, log, entries>>
  BY <1>1 DEF Continue
<1>3. /\ w \in Writer /\ w.in = req[q].in /\ w.op = req[q].op /\ w.step = "save"
      /\ w.op = "remit" => w.amount = req[q].amount
  <2>1. CASE req[q].op = "credit"
    BY <2>1, <1>1, WriterParts DEF Writer
  <2>2. CASE req[q].op = "remit"
    BY <2>2, <1>1, WriterParts DEF Writer
  <2>3. CASE req[q].op = "payout"
    BY <2>3, <1>1, WriterParts DEF Writer
  <2> QED BY <2>1, <2>2, <2>3, <1>1, WriterParts DEF Writer
<1> HIDE DEF w
<1>4. /\ w.op = "remit" => w.amount <= Held(w.in.ledger)
      /\ w.op = "payout" => Held(w.in.ledger) = 0 /\ w.in.row.balance > 0
  BY <1>3 DEF CheckCredited, CheckHeld, CheckOwed
<1> QED BY <1>1, <1>2, <1>3, <1>4 DEF Decides

\* Every step is one of these.
LEMMA StepShape ==
  ASSUME TypeOK, Next
  PROVE  \/ \E q \in Request : \/ \E w \in Writer : Starts(q, w) \/ Decides(q, w)
                               \/ Drop(q)
                               \/ SaveCredit(q) \/ SaveRemit(q) \/ SavePayout(q)
         \/ NextWeek
BY BeginShape, ContinueShape DEF Next, Write

-----------------------------------------------------------------------------
(* Type correctness. *)

\* A save that commits writes one ledger, and its version grows.
LEMMA SaveWrites ==
  ASSUME TypeOK, NEW q \in Request, req[q] # Idle,
         NEW n \in Nat \ {0}, NEW cents \in Int, Save(q, n, cents)
  PROVE  LET l == req[q].in.ledger
         IN  /\ l \in Ledger
             /\ row' \in [Ledger -> Row]
             /\ req' \in [Request -> Writer \cup {Idle}]
             /\ week' = week
             /\ row'[l].balance = req[q].in.row.balance + cents
             /\ row'[l] \in Row
             /\ row'[l].version \in Nat /\ row'[l].balance \in Int
             /\ row[l].version < row'[l].version
             /\ \A m \in Ledger : m # l => row'[m] = row[m]
             /\ req'[q] = Idle
             /\ \A u \in Request : u # q => req'[u] = req[u]
<1> DEFINE in == req[q].in
           l  == in.ledger
           new == [version |-> in.row.version + n, balance |-> in.row.balance + cents]
<1>1. /\ l \in Ledger /\ in.row.version \in Nat /\ in.row.balance \in Int
      /\ row[l].version \in Nat
  BY WriterParts
<1>2. /\ Accepts(in, n)
      /\ row' = [row EXCEPT ![l] = new]
      /\ req' = [req EXCEPT ![q] = Idle]
      /\ week' = week
  BY DEF Save
<1>3. new \in Row /\ new.version = in.row.version + n /\ new.version \in Nat
      /\ new.balance = in.row.balance + cents /\ new.balance \in Int
  BY <1>1 DEF Row
<1>4. row[l].version < new.version
  BY <1>1, <1>2, <1>3 DEF Accepts
<1> HIDE DEF new
<1>5. /\ row' \in [Ledger -> Row] /\ row'[l] = new
      /\ \A m \in Ledger : m # l => row'[m] = row[m]
  BY <1>1, <1>2, <1>3 DEF TypeOK
<1>6. /\ req' \in [Request -> Writer \cup {Idle}] /\ req'[q] = Idle
      /\ \A u \in Request : u # q => req'[u] = req[u]
  BY <1>2 DEF TypeOK
<1> QED BY <1>1, <1>2, <1>3, <1>4, <1>5, <1>6

\* Adding to the sums of a log leaves a log.
LEMMA AddTo ==
  ASSUME NEW g \in Log, NEW x \in Nat
  PROVE  /\ LET h == [g EXCEPT !.remitted = @ + x]
            IN  /\ h \in Log /\ h.remitted = g.remitted + x
                /\ h.earned = g.earned /\ h.paid = g.paid /\ h.collected = g.collected
         /\ LET h == [g EXCEPT !.paid = @ + x]
            IN  /\ h \in Log /\ h.paid = g.paid + x
                /\ h.earned = g.earned /\ h.remitted = g.remitted
                /\ h.collected = g.collected
BY DEF Log

\* The same of two sums at once.
LEMMA AddToTwo ==
  ASSUME NEW g \in Log, NEW x \in Nat, NEW y \in Nat
  PROVE  LET h == [g EXCEPT !.earned = @ + x, !.collected = @ + y]
         IN  /\ h \in Log
             /\ h.earned = g.earned + x /\ h.collected = g.collected + y
             /\ h.paid = g.paid /\ h.remitted = g.remitted
<1> DEFINE i == [g EXCEPT !.earned = @ + x]
<1>1. /\ i \in Log /\ i.earned = g.earned + x /\ i.collected = g.collected
      /\ i.paid = g.paid /\ i.remitted = g.remitted
  BY DEF Log
<1> HIDE DEF i
<1> DEFINE h == [i EXCEPT !.collected = @ + y]
<1>2. /\ h \in Log /\ h.collected = i.collected + y /\ h.earned = i.earned
      /\ h.paid = i.paid /\ h.remitted = i.remitted
  BY <1>1 DEF Log
<1>3. h = [g EXCEPT !.earned = @ + x, !.collected = @ + y]
  BY <1>1 DEF i, Log
<1> QED BY <1>1, <1>2, <1>3

\* What the three saves add to the log of their ledger.
LEMMA CreditWrites ==
  ASSUME TypeOK, NEW q \in Request, SaveCredit(q)
  PROVE  LET l == req[q].in.ledger
             pay == req[q].pay
         IN  /\ pay \in Pay
             /\ Save(q, Cardinality(Posted(pay)), Earned(pay) - pay["cod_collected"])
             /\ log' \in [Ledger -> Log]
             /\ log'[l].earned = log[l].earned + Earned(pay)
             /\ log'[l].collected = log[l].collected + pay["cod_collected"]
             /\ log'[l].paid = log[l].paid /\ log'[l].remitted = log[l].remitted
             /\ \A m \in Ledger : m # l => log'[m] = log[m]
<1> DEFINE l == req[q].in.ledger
           pay == req[q].pay
           g == log[l]
           x == Earned(pay)
           y == pay["cod_collected"]
           new == [g EXCEPT !.earned = @ + x, !.collected = @ + y]
<1>1. l \in Ledger /\ pay \in Pay
  BY WriterParts DEF SaveCredit
<1>2. g \in Log
  BY <1>1, HeldType
<1>3. x \in Nat /\ y \in Nat
  BY <1>1, PostedSize
<1>4. /\ Save(q, Cardinality(Posted(pay)), x - y)
      /\ log' = [log EXCEPT ![l].earned = @ + x, ![l].collected = @ + y]
  BY DEF SaveCredit
<1>5. log \in [Ledger -> Log]
  BY DEF TypeOK
<1>6. log' = [log EXCEPT ![l] = new]
  BY <1>1, <1>4, <1>5
<1> HIDE DEF x, y, g, l
<1>7. /\ new \in Log
      /\ new.earned = g.earned + x /\ new.collected = g.collected + y
      /\ new.paid = g.paid /\ new.remitted = g.remitted
  BY <1>2, <1>3, AddToTwo
<1> HIDE DEF new
<1>8. /\ log' \in [Ledger -> Log] /\ log'[l] = new
      /\ \A m \in Ledger : m # l => log'[m] = log[m]
  BY <1>1, <1>5, <1>6, <1>7
<1> QED BY <1>1, <1>4, <1>7, <1>8 DEF l, g, x, y

\* A remittance appends one entry and adds its amount to what was remitted.
LEMMA RemitWrites ==
  ASSUME TypeOK, NEW q \in Request, SaveRemit(q)
  PROVE  LET l == req[q].in.ledger
         IN  /\ req[q].amount \in Nat \ {0}
             /\ Save(q, 1, req[q].amount)
             /\ log' \in [Ledger -> Log]
             /\ log'[l].remitted = log[l].remitted + req[q].amount
             /\ log'[l].earned = log[l].earned /\ log'[l].paid = log[l].paid
             /\ log'[l].collected = log[l].collected
             /\ \A m \in Ledger : m # l => log'[m] = log[m]
             /\ entries' = entries
<1> DEFINE l == req[q].in.ledger
           x == req[q].amount
           g == log[l]
           new == [g EXCEPT !.remitted = @ + x]
<1>1. l \in Ledger /\ x \in Nat \ {0}
  BY WriterParts, AmountAssumption DEF SaveRemit
<1>2. g \in Log
  BY <1>1, HeldType
<1>3. log \in [Ledger -> Log]
  BY DEF TypeOK
<1>4. /\ Save(q, 1, x) /\ entries' = entries
      /\ log' = [log EXCEPT ![l].remitted = @ + x]
  BY DEF SaveRemit
<1>5. log' = [log EXCEPT ![l] = new]
  BY <1>1, <1>3, <1>4
<1> HIDE DEF x, g, l
<1>6. /\ new \in Log /\ new.remitted = g.remitted + x
      /\ new.earned = g.earned /\ new.paid = g.paid
      /\ new.collected = g.collected
  BY <1>1, <1>2, AddTo
<1> HIDE DEF new
<1>7. /\ log' \in [Ledger -> Log] /\ log'[l] = new
      /\ \A m \in Ledger : m # l => log'[m] = log[m]
  BY <1>1, <1>3, <1>5, <1>6
<1> QED BY <1>1, <1>4, <1>6, <1>7 DEF l, x, g

\* A payout posts the balance it read, of a ledger that did not change since.
LEMMA PayoutWrites ==
  ASSUME Inv, NEW q \in Request, SavePayout(q)
  PROVE  LET l == req[q].in.ledger
             cents == req[q].in.row.balance
         IN  /\ cents \in Nat \ {0}
             /\ Save(q, 1, -cents)
             /\ row[l] = req[q].in.row
             /\ Held(l) = 0
             /\ log' \in [Ledger -> Log]
             /\ log'[l].paid = log[l].paid + cents
             /\ log'[l].earned = log[l].earned
             /\ log'[l].collected = log[l].collected
             /\ log'[l].remitted = log[l].remitted
             /\ \A m \in Ledger : m # l => log'[m] = log[m]
             /\ entries' = entries
<1> USE DEF Inv
<1> DEFINE in == req[q].in
           l == in.ledger
           cents == in.row.balance
           new == [log[l] EXCEPT !.paid = @ + cents]
<1>1. /\ l \in Ledger /\ in.row.version \in Nat /\ cents \in Int
      /\ row[l].version \in Nat
  BY WriterParts DEF SavePayout
<1>2. /\ Save(q, 1, -cents) /\ entries' = entries
      /\ log' = [log EXCEPT ![l].paid = @ + cents]
  BY DEF SavePayout
<1>3. Known(req[q]) /\ req[q].op = "payout" /\ req[q].step = "save"
  BY DEF SavePayout, ReadsKnown
<1>4. Accepts(in, 1)
  BY <1>2 DEF Save
<1>5. row[l].version = in.row.version
  BY <1>1, <1>3, <1>4 DEF Known, Accepts
<1>6. row[l] = in.row /\ Held(l) = 0 /\ cents > 0
  BY <1>3, <1>5 DEF Known
<1>7. log \in [Ledger -> Log] /\ log[l] \in Log
  BY <1>1 DEF TypeOK
<1>8. log' = [log EXCEPT ![l] = new]
  BY <1>1, <1>2, <1>7
<1>9. cents \in Nat \ {0}
  BY <1>1, <1>6
<1>10. /\ new \in Log /\ new.paid = log[l].paid + cents
       /\ new.earned = log[l].earned /\ new.remitted = log[l].remitted
       /\ new.collected = log[l].collected
  BY <1>7, <1>9, AddTo
<1> HIDE DEF new
<1>11. /\ log' \in [Ledger -> Log] /\ log'[l] = new
       /\ \A m \in Ledger : m # l => log'[m] = log[m]
  BY <1>1, <1>7, <1>8, <1>10
<1> QED BY <1>2, <1>6, <1>9, <1>10, <1>11

\* Every step keeps every variable in its type.
LEMMA TypeStep ==
  ASSUME Inv, [Next]_vars
  PROVE  TypeOK'
<1> USE DEF Inv
<1>1. CASE UNCHANGED vars
  BY <1>1 DEF TypeOK, vars
<1>2. ASSUME NEW q \in Request, NEW w \in Writer, Starts(q, w) \/ Decides(q, w)
      PROVE  TypeOK'
  BY <1>2 DEF TypeOK, Starts, Decides
<1>3. ASSUME NEW q \in Request, Drop(q)
      PROVE  TypeOK'
  BY <1>3 DEF TypeOK, Drop
<1>4. ASSUME NEW q \in Request, SaveCredit(q)
      PROVE  TypeOK'
  <2> DEFINE pay == req[q].pay
  <2>1. /\ pay \in Pay /\ log' \in [Ledger -> Log] /\ req[q] # Idle
        /\ Save(q, Cardinality(Posted(pay)), Earned(pay) - pay["cod_collected"])
    BY <1>4, CreditWrites DEF SaveCredit
  <2>2. /\ Cardinality(Posted(pay)) \in Nat \ {0}
        /\ Earned(pay) - pay["cod_collected"] \in Int
    BY <2>1, PostedSize
  <2>3. row' \in [Ledger -> Row] /\ req' \in [Request -> Writer \cup {Idle}] /\ week' = week
    BY <2>1, <2>2, SaveWrites
  <2>4. entries' \in [Courier \X Kind \X Job -> Nat]
    BY <1>4 DEF SaveCredit, TypeOK
  <2> QED BY <2>1, <2>3, <2>4 DEF TypeOK
<1>5. ASSUME NEW q \in Request, SaveRemit(q)
      PROVE  TypeOK'
  <2> DEFINE n == 1
             x == req[q].amount
  <2>0. n \in Nat \ {0}
    OBVIOUS
  <2>1. /\ log' \in [Ledger -> Log] /\ req[q] # Idle /\ entries' = entries
        /\ Save(q, n, x) /\ x \in Nat \ {0}
    BY <1>5, RemitWrites, Zenon DEF SaveRemit
  <2>9. x \in Int /\ -x \in Int
    BY <2>1
  <2> HIDE DEF n, x
  <2>2. row' \in [Ledger -> Row] /\ req' \in [Request -> Writer \cup {Idle}] /\ week' = week
    BY <2>0, <2>1, <2>9, SaveWrites DEF Inv
  <2> QED BY <2>1, <2>2 DEF TypeOK
<1>6. ASSUME NEW q \in Request, SavePayout(q)
      PROVE  TypeOK'
  <2> DEFINE n == 1
             x == req[q].in.row.balance
  <2>0. n \in Nat \ {0}
    OBVIOUS
  <2>1. /\ log' \in [Ledger -> Log] /\ req[q] # Idle /\ entries' = entries
        /\ Save(q, n, -x) /\ x \in Nat \ {0}
    BY <1>6, PayoutWrites, Zenon DEF SavePayout
  <2>9. x \in Int /\ -x \in Int
    BY <2>1
  <2> HIDE DEF n, x
  <2>2. row' \in [Ledger -> Row] /\ req' \in [Request -> Writer \cup {Idle}] /\ week' = week
    BY <2>0, <2>1, <2>9, SaveWrites DEF Inv
  <2> QED BY <2>1, <2>2 DEF TypeOK
<1>7. CASE NextWeek
  BY <1>7, LastPeriodAssumption DEF TypeOK, NextWeek, Period
<1> QED BY <1>1, <1>2, <1>3, <1>4, <1>5, <1>6, <1>7, StepShape

-----------------------------------------------------------------------------
(* What writers know stays true. *)

\* A save of one ledger makes every other reader of it stale, and leaves the
\* readers of other ledgers alone.
LEMMA KnownAfterSave ==
  ASSUME Inv, TypeOK', NEW q \in Request, NEW l \in Ledger, req[q] # Idle,
         req'[q] = Idle, \A u \in Request : u # q => req'[u] = req[u],
         row[l].version < row'[l].version,
         \A m \in Ledger : m # l => row'[m] = row[m] /\ log'[m] = log[m]
  PROVE  ReadsKnown'
<1> SUFFICES ASSUME NEW u \in Request, NEW w, w = req'[u], w # Idle
             PROVE  Known(w)'
  BY DEF ReadsKnown, Known
<1>1. u # q /\ req[u] = w
  OBVIOUS
<1>2. Known(w)
  BY <1>1 DEF Inv, ReadsKnown
<1>3. /\ w.in.ledger \in Ledger /\ w.in.row.version \in Nat
      /\ row[w.in.ledger].version \in Nat
  BY <1>1, WriterParts DEF Inv
<1>4. row'[l].version \in Nat /\ row[l].version \in Nat
  BY DEF TypeOK, Row, Inv
<1>5. CASE w.in.ledger = l
  <2>1. w.in.row.version < row'[l].version
    BY <1>2, <1>3, <1>4, <1>5 DEF Known
  <2>2. w.in.row.version <= row'[l].version /\ row'[l].version # w.in.row.version
    BY <2>1, <1>3, <1>4
  <2> QED BY <1>2, <1>5, <2>2 DEF Known
<1>6. CASE w.in.ledger # l
  <2>1. row'[w.in.ledger] = row[w.in.ledger] /\ log'[w.in.ledger] = log[w.in.ledger]
    BY <1>3, <1>6
  <2> QED BY <1>2, <2>1 DEF Known, Held
<1> QED BY <1>5, <1>6

\* What a writer knows about its ledger stays true until it saves.
LEMMA KnownStep ==
  ASSUME Inv, TypeOK', [Next]_vars
  PROVE  ReadsKnown'
<1>0. TypeOK /\ ReadsKnown
  BY DEF Inv
<1>1. CASE UNCHANGED vars
  BY <1>0, <1>1 DEF ReadsKnown, Known, Held, vars
<1>2. ASSUME NEW q \in Request, NEW v \in Writer, Starts(q, v)
      PROVE  ReadsKnown'
  <2> SUFFICES ASSUME NEW u \in Request, NEW w, w = req'[u], w # Idle
               PROVE  Known(w)'
    BY DEF ReadsKnown, Known
  <2>1. row' = row /\ log' = log /\ req' = [req EXCEPT ![q] = v]
    BY <1>2 DEF Starts
  <2>2. CASE u = q
    <3>1. w = v
      BY <1>0, <2>1, <2>2 DEF TypeOK
    <3>2. w.in.row = row[w.in.ledger] /\ w.step # "save"
      BY <1>2, <3>1 DEF Starts
    <3>3. w.op = "payout" => w.in.row.version > 0
      BY <1>2, <3>1 DEF Starts
    <3>4. w.in.row.version \in Nat
      BY <3>1 DEF Writer, Read, Row
    <3>5. row'[w.in.ledger] = w.in.row
      BY <2>1, <3>2
    <3> QED BY <3>2, <3>3, <3>4, <3>5 DEF Known
  <2>3. CASE u # q
    <3>1. req[u] = w
      BY <1>0, <2>1, <2>3 DEF TypeOK
    <3>2. Known(w)
      BY <1>0, <3>1 DEF ReadsKnown
    <3> QED BY <2>1, <3>2 DEF Known, Held
  <2> QED BY <2>2, <2>3
<1>3. ASSUME NEW q \in Request, NEW v \in Writer, Decides(q, v)
      PROVE  ReadsKnown'
  <2> SUFFICES ASSUME NEW u \in Request, NEW w, w = req'[u], w # Idle
               PROVE  Known(w)'
    BY DEF ReadsKnown, Known
  <2>1. row' = row /\ log' = log /\ req' = [req EXCEPT ![q] = v]
    BY <1>3 DEF Decides
  <2>2. CASE u = q
    <3>1. w = v
      BY <1>0, <2>1, <2>2 DEF TypeOK
    <3>2. /\ w.in = req[q].in /\ w.op = req[q].op /\ w.step = "save"
          /\ w.op = "remit" => w.amount <= Held(w.in.ledger)
          /\ w.op = "payout" => Held(w.in.ledger) = 0 /\ w.in.row.balance > 0
      BY <1>3, <3>1 DEF Decides
    <3>3. Known(req[q])
      BY <1>0, <1>3 DEF ReadsKnown, Decides
    <3>4. Held(w.in.ledger)' = Held(w.in.ledger)
      BY <2>1 DEF Held
    <3> QED BY <2>1, <3>2, <3>3, <3>4 DEF Known
  <2>3. CASE u # q
    <3>1. req[u] = w
      BY <1>0, <2>1, <2>3 DEF TypeOK
    <3>2. Known(w)
      BY <1>0, <3>1 DEF ReadsKnown
    <3> QED BY <2>1, <3>2 DEF Known, Held
  <2> QED BY <2>2, <2>3
<1>4. ASSUME NEW q \in Request, Drop(q)
      PROVE  ReadsKnown'
  BY <1>0, <1>4 DEF Drop, ReadsKnown, Known, Held, TypeOK
<1>5. ASSUME NEW q \in Request, SaveCredit(q)
      PROVE  ReadsKnown'
  <2> DEFINE l == req[q].in.ledger
             n == Cardinality(Posted(req[q].pay))
             cents == Earned(req[q].pay) - req[q].pay["cod_collected"]
  <2>1. /\ req[q] # Idle /\ Save(q, n, cents) /\ req[q].pay \in Pay
        /\ \A m \in Ledger : m # l => log'[m] = log[m]
    BY <1>0, <1>5, CreditWrites DEF SaveCredit
  <2>2. n \in Nat \ {0} /\ cents \in Int
    BY <2>1, PostedSize
  <2> HIDE DEF n, cents
  <2>3. /\ l \in Ledger /\ row[l].version < row'[l].version
        /\ \A m \in Ledger : m # l => row'[m] = row[m]
        /\ req'[q] = Idle /\ \A u \in Request : u # q => req'[u] = req[u]
    BY <1>0, <2>1, <2>2, SaveWrites
  <2> QED BY <2>1, <2>3, KnownAfterSave
<1>6. ASSUME NEW q \in Request, SaveRemit(q)
      PROVE  ReadsKnown'
  <2> DEFINE l == req[q].in.ledger
             n == 1
             x == req[q].amount
  <2>1. /\ req[q] # Idle /\ Save(q, n, x) /\ x \in Nat \ {0}
        /\ \A m \in Ledger : m # l => log'[m] = log[m]
    BY <1>0, <1>6, RemitWrites, Zenon DEF SaveRemit
  <2>2. n \in Nat \ {0} /\ x \in Int
    BY <2>1
  <2> HIDE DEF n, x
  <2>3. /\ l \in Ledger /\ row[l].version < row'[l].version
        /\ \A m \in Ledger : m # l => row'[m] = row[m]
        /\ req'[q] = Idle /\ \A u \in Request : u # q => req'[u] = req[u]
    BY <1>0, <2>1, <2>2, SaveWrites
  <2> QED BY <2>1, <2>3, KnownAfterSave
<1>7. ASSUME NEW q \in Request, SavePayout(q)
      PROVE  ReadsKnown'
  <2> DEFINE l == req[q].in.ledger
             n == 1
             x == req[q].in.row.balance
  <2>1. /\ req[q] # Idle /\ Save(q, n, -x) /\ x \in Nat \ {0}
        /\ \A m \in Ledger : m # l => log'[m] = log[m]
    BY <1>7, PayoutWrites, Zenon DEF SavePayout
  <2>2. n \in Nat \ {0} /\ -x \in Int
    BY <2>1
  <2> HIDE DEF n, x
  <2>3. /\ l \in Ledger /\ row[l].version < row'[l].version
        /\ \A m \in Ledger : m # l => row'[m] = row[m]
        /\ req'[q] = Idle /\ \A u \in Request : u # q => req'[u] = req[u]
    BY <1>0, <2>1, <2>2, SaveWrites
  <2> QED BY <2>1, <2>3, KnownAfterSave
<1>8. CASE NextWeek
  BY <1>0, <1>8 DEF NextWeek, ReadsKnown, Known, Held
<1> QED BY <1>0, <1>1, <1>2, <1>3, <1>4, <1>5, <1>6, <1>7, <1>8, StepShape

\* The invariant holds of ledgers nobody has written.
LEMMA InitInv ==
  ASSUME Init
  PROVE  Inv
BY LastPeriodAssumption DEF Init, Inv, TypeOK, ReadsKnown, Row, Log, Period

\* The inductive invariant of every behaviour.
LEMMA InvHolds == Spec => []Inv
<1>1. Init => Inv
  BY InitInv
<1>2. Inv /\ [Next]_vars => Inv'
  BY TypeStep, KnownStep DEF Inv
<1> QED BY <1>1, <1>2, PTL DEF Spec

\* Which ledger a step writes, and how: at most one, by one of the saves.
LEMMA LogFrame ==
  ASSUME Inv, [Next]_vars, NEW m \in Ledger
  PROVE  \/ log'[m] = log[m] /\ row'[m] = row[m]
         \/ \E q \in Request : /\ m = req[q].in.ledger
                               /\ SaveCredit(q) \/ SaveRemit(q) \/ SavePayout(q)
<1>0. TypeOK
  BY DEF Inv
<1>1. ASSUME NEW q \in Request, SaveCredit(q), m # req[q].in.ledger
      PROVE  log'[m] = log[m] /\ row'[m] = row[m]
  <2>1. log'[m] = log[m]
    BY <1>0, <1>1, CreditWrites
  <2>2. row' = [row EXCEPT ![req[q].in.ledger] = row'[req[q].in.ledger]]
    BY <1>0, <1>1, WriterParts DEF SaveCredit, Save, TypeOK
  <2> QED BY <1>0, <1>1, <2>1, <2>2 DEF TypeOK
<1>2. ASSUME NEW q \in Request, SaveRemit(q), m # req[q].in.ledger
      PROVE  log'[m] = log[m] /\ row'[m] = row[m]
  <2>1. log'[m] = log[m]
    BY <1>0, <1>2, RemitWrites, Zenon
  <2>2. row' = [row EXCEPT ![req[q].in.ledger] = row'[req[q].in.ledger]]
    BY <1>0, <1>2, WriterParts DEF SaveRemit, Save, TypeOK
  <2> QED BY <1>0, <1>2, <2>1, <2>2 DEF TypeOK
<1>3. ASSUME NEW q \in Request, SavePayout(q), m # req[q].in.ledger
      PROVE  log'[m] = log[m] /\ row'[m] = row[m]
  <2>1. log'[m] = log[m]
    BY <1>3, PayoutWrites, Zenon
  <2>2. row' = [row EXCEPT ![req[q].in.ledger] = row'[req[q].in.ledger]]
    BY <1>0, <1>3, WriterParts DEF SavePayout, Save, TypeOK
  <2> QED BY <1>0, <1>3, <2>1, <2>2 DEF TypeOK
<1> QED BY <1>0, <1>1, <1>2, <1>3, StepShape DEF vars, Starts, Decides, Drop, NextWeek

-----------------------------------------------------------------------------
(* For a writer that appends one entry the gate is exact: it lets the save *)
(* through only on the row that was read.                                  *)

\* A save of one entry that commits was computed on the balance it replaces.
LEMMA ExactGate ==
  ASSUME Inv, NEW q \in Request, req[q] # Idle, NEW cents, Save(q, 1, cents)
  PROVE  row[req[q].in.ledger] = req[q].in.row
<1> DEFINE in == req[q].in
<1>1. /\ row[in.ledger].version \in Nat /\ in.row.version \in Nat
  BY WriterParts DEF Inv
<1>2. Accepts(in, 1) /\ Known(req[q])
  BY DEF Save, Inv, ReadsKnown
<1>3. row[in.ledger].version = in.row.version
  BY <1>1, <1>2 DEF Known, Accepts
<1> QED BY <1>2, <1>3 DEF Known

\* A remittance that commits is of cash the ledger holds now.
LEMMA RemitHeld ==
  ASSUME Inv, NEW q \in Request, SaveRemit(q)
  PROVE  LET l == req[q].in.ledger
         IN  log[l].remitted + req[q].amount <= log[l].collected
<1> DEFINE in == req[q].in
           l  == in.ledger
           x  == req[q].amount
<1>0. TypeOK
  BY DEF Inv
<1>1. x \in Nat \ {0} /\ Save(q, 1, x) /\ req[q] # Idle /\ l \in Ledger
  BY <1>0, RemitWrites, WriterParts, Zenon DEF SaveRemit
<1>2. Known(req[q]) /\ req[q].op = "remit" /\ req[q].step = "save"
  BY DEF Inv, ReadsKnown, SaveRemit
<1>3. row[l].version = in.row.version
  BY <1>1, ExactGate
<1>4. x <= Held(l)
  BY <1>2, <1>3 DEF Known
<1> HIDE DEF x, l
<1>5. log[l].collected \in Nat /\ log[l].remitted \in Nat
  BY <1>0, <1>1, HeldType
<1>6. log[l].remitted + x <= log[l].collected
  BY <1>1, <1>4, <1>5 DEF Held
<1> QED BY <1>6 DEF x, l

-----------------------------------------------------------------------------
(* The theorems. *)

\* Every reachable state of the ledgers and of their writers is well typed.
THEOREM TypeCorrect == Spec => []TypeOK
<1>1. Inv => TypeOK
  BY DEF Inv
<1> QED BY <1>1, InvHolds, PTL

\* No job is credited twice to a courier, in any week: uq_courier_ledger_entry_job.
THEOREM NoDoubleCredit == Spec => []CreditedOnce
<1>1. Init => CreditedOnce
  BY DEF Init, CreditedOnce
<1>2. Inv /\ CreditedOnce /\ [Next]_vars => CreditedOnce'
  <2> SUFFICES ASSUME Inv, CreditedOnce, [Next]_vars PROVE CreditedOnce'
    OBVIOUS
  <2>0. TypeOK
    BY DEF Inv
  <2>1. CASE entries' = entries
    BY <2>1 DEF CreditedOnce
  <2>2. ASSUME NEW q \in Request, SaveCredit(q) PROVE CreditedOnce'
    BY <2>0, <2>2 DEF SaveCredit, Unrecorded, CreditedOnce, TypeOK
  <2>3. \/ entries' = entries
        \/ \E q \in Request : SaveCredit(q)
    BY <2>0, StepShape DEF vars, Starts, Decides, Drop, SaveRemit, SavePayout, NextWeek
  <2> QED BY <2>1, <2>2, <2>3
<1> QED BY <1>1, <1>2, InvHolds, PTL DEF Spec

\* No interleaving of double taps hands back cash that was never collected.
THEOREM RemitBounded == Spec => []RemittedWasCollected
<1>1. Init => RemittedWasCollected
  BY DEF Init, RemittedWasCollected
<1>2. Inv /\ RemittedWasCollected /\ [Next]_vars => RemittedWasCollected'
  <2> SUFFICES ASSUME Inv, RemittedWasCollected, [Next]_vars,
                      NEW m \in Ledger
               PROVE  log'[m].remitted <= log'[m].collected
    BY DEF RemittedWasCollected
  <2>0. TypeOK /\ log[m].remitted <= log[m].collected
    BY DEF Inv, RemittedWasCollected
  <2>1. CASE log'[m] = log[m]
    BY <2>0, <2>1
  <2>2. ASSUME NEW q \in Request, SaveCredit(q), m = req[q].in.ledger
        PROVE  log'[m].remitted <= log'[m].collected
    <3> DEFINE y == req[q].pay["cod_collected"]
    <3>1. y \in Nat
      BY <2>0, <2>2, CreditWrites, PostedSize
    <3>2. log'[m].remitted = log[m].remitted /\ log'[m].collected = log[m].collected + y
      BY <2>0, <2>2, CreditWrites
    <3> HIDE DEF y
    <3> QED BY <2>0, <3>1, <3>2, HeldType
  <2>3. ASSUME NEW q \in Request, SaveRemit(q), m = req[q].in.ledger
        PROVE  log'[m].remitted <= log'[m].collected
    <3>1. /\ log'[m].remitted = log[m].remitted + req[q].amount
          /\ log'[m].collected = log[m].collected
      BY <2>0, <2>3, RemitWrites, Zenon
    <3>2. log[m].remitted + req[q].amount <= log[m].collected
      BY <2>3, RemitHeld
    <3> QED BY <3>1, <3>2
  <2>4. ASSUME NEW q \in Request, SavePayout(q), m = req[q].in.ledger
        PROVE  log'[m].remitted <= log'[m].collected
    BY <2>0, <2>4, PayoutWrites
  <2>5. \/ log'[m] = log[m]
        \/ \E q \in Request : /\ m = req[q].in.ledger
                              /\ SaveCredit(q) \/ SaveRemit(q) \/ SavePayout(q)
    BY LogFrame
  <2> QED BY <2>1, <2>2, <2>3, <2>4, <2>5
<1> QED BY <1>1, <1>2, InvHolds, PTL DEF Spec

\* A payout that commits was decided on the ledger as it stands: the version
\* gate, whose new version is one above the old, lets a single entry through
\* only when nothing was saved since the row was read.
THEOREM PayoutFresh == Spec => PayoutIsCurrent
<1>1. ASSUME Inv, [Next]_vars, NEW m \in Ledger, log'[m].paid # log[m].paid
      PROVE  /\ Held(m) = 0
             /\ row[m].balance > 0
             /\ log'[m].paid = log[m].paid + row[m].balance
             /\ row'[m].balance = 0
  <2>0. TypeOK
    BY <1>1 DEF Inv
  <2>1. PICK q \in Request : /\ m = req[q].in.ledger
                             /\ SaveCredit(q) \/ SaveRemit(q) \/ SavePayout(q)
    BY <1>1, LogFrame
  <2>2. ~SaveCredit(q)
    BY <1>1, <2>0, <2>1, CreditWrites
  <2>3. ~SaveRemit(q)
    BY <1>1, <2>0, <2>1, RemitWrites, Zenon
  <2>4. SavePayout(q)
    BY <2>1, <2>2, <2>3
  <2> DEFINE n == 1
             x == req[q].in.row.balance
  <2>5. /\ x \in Nat \ {0} /\ Save(q, n, -x) /\ row[m] = req[q].in.row
        /\ Held(m) = 0 /\ log'[m].paid = log[m].paid + x /\ req[q] # Idle
    BY <1>1, <2>1, <2>4, PayoutWrites, Zenon DEF SavePayout
  <2>6. n \in Nat \ {0} /\ -x \in Int
    BY <2>5
  <2>7. row[m].balance = x
    BY <2>5
  <2> DEFINE cents == -x
  <2> HIDE DEF n, cents
  <2>8. row'[m].balance = x + cents
    BY <2>0, <2>1, <2>5, <2>6, SaveWrites DEF cents
  <2> QED BY <2>5, <2>7, <2>8 DEF cents
<1>2. Inv /\ [Next]_vars =>
        [\A l \in Ledger :
           log'[l].paid # log[l].paid =>
             /\ Held(l) = 0
             /\ row[l].balance > 0
             /\ log'[l].paid = log[l].paid + row[l].balance
             /\ row'[l].balance = 0]_vars
  BY <1>1
<1> QED BY <1>2, InvHolds, PTL DEF Spec, PayoutIsCurrent

-----------------------------------------------------------------------------
(* Single entries.                                                         *)

\* Entries are only added, so what is single now was single before.
LEMMA SinglesBefore ==
  ASSUME Inv, [Next]_vars, NEW c \in Courier, SingleEntries(c)'
  PROVE  SingleEntries(c)
<1>0. TypeOK
  BY DEF Inv
<1>1. CASE entries' = entries
  BY <1>1 DEF SingleEntries
<1>2. ASSUME NEW q \in Request, SaveCredit(q)
      PROVE  \A e \in Courier \X Kind \X Job : entries[e] > 0 => entries'[e] > 0
  BY <1>0, <1>2 DEF SaveCredit, TypeOK
<1>3. CASE \E q \in Request : SaveCredit(q)
  BY <1>2, <1>3 DEF SingleEntries
<1>4. \/ entries' = entries
      \/ \E q \in Request : SaveCredit(q)
  BY <1>0, StepShape DEF vars, Starts, Decides, Drop, SaveRemit, SavePayout, NextWeek
<1> QED BY <1>1, <1>3, <1>4

\* A credit that leaves its courier's entries single is one entry.
LEMMA SingleCredit ==
  ASSUME Inv, NEW q \in Request, SaveCredit(q),
         NEW c, c = req[q].in.ledger[1], SingleEntries(c)'
  PROVE  Cardinality(Posted(req[q].pay)) = 1
<1> DEFINE pay == req[q].pay
<1>0. PICK j \in Job : j = req[q].job
  BY WriterParts DEF Inv, SaveCredit
<1>1. c \in Courier /\ pay \in Pay
  BY WriterParts DEF Inv, SaveCredit, Ledger
<1>2. \A k \in Posted(pay) : k \in Kind /\ <<c, k, j>> \in NewEntries(q)
  BY <1>0 DEF Posted, NewEntries
<1>4. \A k \in Posted(pay) : entries'[<<c, k, j>>] > 0
  BY <1>0, <1>1, <1>2 DEF SaveCredit, Inv, TypeOK
<1>5. \A k1, k2 \in Posted(pay) : k1 = k2
  BY <1>2, <1>4 DEF SingleEntries
<1>6. PICK k \in Kind : pay[k] > 0
  BY <1>1, PayAssumption
<1>7. Posted(pay) = {k}
  BY <1>5, <1>6 DEF Posted
<1> QED BY <1>7, FS_Singleton

\* Single entries keep the balance the sum of the log.
LEMMA BalanceStep ==
  ASSUME Inv, SinglesBalanceIsSum, [Next]_vars, NEW m \in Ledger, SingleEntries(m[1])'
  PROVE  row'[m].balance = Book(m)'
<1>s. m[1] \in Courier
  BY DEF Ledger
<1>0. TypeOK /\ row[m].balance = Book(m)
  BY <1>s, SinglesBefore DEF Inv, SinglesBalanceIsSum
<1> DEFINE n == 1
<1>n. n \in Nat \ {0}
  OBVIOUS
<1>t. /\ log[m].earned \in Nat /\ log[m].paid \in Nat
      /\ log[m].collected \in Nat /\ log[m].remitted \in Nat
  BY <1>0, HeldType
<1>1. CASE log'[m] = log[m] /\ row'[m] = row[m]
  BY <1>0, <1>1 DEF Book
<1>2. ASSUME NEW q \in Request, m = req[q].in.ledger, SaveCredit(q)
      PROVE  row'[m].balance = Book(m)'
  <2> DEFINE pay == req[q].pay
             x == Earned(pay)
             y == pay["cod_collected"]
             cents == x - y
  <2>1. pay \in Pay /\ req[q] # Idle /\ Save(q, Cardinality(Posted(pay)), cents)
    BY <1>0, <1>2, CreditWrites DEF SaveCredit
  <2>9. PICK c : c = req[q].in.ledger[1] /\ SingleEntries(c)'
    BY <1>2, <1>s
  <2>2. Cardinality(Posted(pay)) = n
    BY <1>2, <2>9, SingleCredit
  <2>3. x \in Nat /\ y \in Nat
    BY <2>1, PostedSize
  <2>4. /\ log'[m].earned = log[m].earned + x /\ log'[m].collected = log[m].collected + y
        /\ log'[m].paid = log[m].paid /\ log'[m].remitted = log[m].remitted
    BY <1>0, <1>2, CreditWrites
  <2>5. Save(q, n, cents) /\ cents \in Int
    BY <2>1, <2>2, <2>3
  <2>6. row[m] = req[q].in.row
    BY <1>2, <2>1, <2>5, ExactGate
  <2> HIDE DEF n, cents
  <2>7. row'[m].balance = req[q].in.row.balance + cents
    BY <1>0, <1>n, <1>2, <2>1, <2>5, SaveWrites
  <2>8. row'[m].balance = Book(m) + cents
    BY <1>0, <2>6, <2>7
  <2> HIDE DEF x, y
  <2> QED BY <1>t, <2>3, <2>4, <2>8 DEF cents, Book
<1>3. ASSUME NEW q \in Request, m = req[q].in.ledger, SaveRemit(q)
      PROVE  row'[m].balance = Book(m)'
  <2> DEFINE x == req[q].amount
  <2>1. /\ req[q] # Idle /\ Save(q, n, x) /\ x \in Nat \ {0}
        /\ log'[m].remitted = log[m].remitted + x
        /\ log'[m].earned = log[m].earned /\ log'[m].paid = log[m].paid
        /\ log'[m].collected = log[m].collected
    BY <1>0, <1>3, RemitWrites, Zenon DEF SaveRemit
  <2>2. row[m] = req[q].in.row
    BY <1>3, <2>1, ExactGate
  <2>3. x \in Int
    BY <2>1
  <2> HIDE DEF n, x
  <2>4. row'[m].balance = req[q].in.row.balance + x
    BY <1>0, <1>n, <1>3, <2>1, <2>3, SaveWrites
  <2>5. row'[m].balance = Book(m) + x
    BY <1>0, <2>2, <2>4
  <2> QED BY <1>t, <2>1, <2>5 DEF Book
<1>4. ASSUME NEW q \in Request, m = req[q].in.ledger, SavePayout(q)
      PROVE  row'[m].balance = Book(m)'
  <2> DEFINE x == req[q].in.row.balance
             cents == -x
  <2>1. /\ req[q] # Idle /\ Save(q, n, cents) /\ x \in Nat \ {0}
        /\ row[m] = req[q].in.row
        /\ log'[m].paid = log[m].paid + x
        /\ log'[m].earned = log[m].earned /\ log'[m].remitted = log[m].remitted
        /\ log'[m].collected = log[m].collected
    BY <1>4, PayoutWrites, Zenon DEF SavePayout
  <2>3. cents \in Int
    BY <2>1
  <2> HIDE DEF n, cents
  <2>4. row'[m].balance = x + cents
    BY <1>0, <1>n, <1>4, <2>1, <2>3, SaveWrites
  <2>5. row'[m].balance = Book(m) + cents
    BY <1>0, <2>1, <2>4
  <2> HIDE DEF x
  <2> QED BY <1>t, <2>1, <2>5 DEF Book, cents
<1> QED BY <1>1, <1>2, <1>3, <1>4, LogFrame

\* A courier whose credits are single entries has the balance ledger.rs
\* describes, whatever the other couriers' look like.
THEOREM BalanceExact == Spec => []SinglesBalanceIsSum
<1>1. Init => SinglesBalanceIsSum
  BY DEF Init, SinglesBalanceIsSum, Book
<1>2. Inv /\ SinglesBalanceIsSum /\ [Next]_vars => SinglesBalanceIsSum'
  BY BalanceStep DEF SinglesBalanceIsSum
<1> QED BY <1>1, <1>2, InvHolds, PTL DEF Spec

\* ... and is never paid more than they earned.
THEOREM PaidBounded == Spec => []SinglesNeverOverpaid
<1>1. Init => SinglesNeverOverpaid
  BY DEF Init, SinglesNeverOverpaid
<1>2. ASSUME Inv, SinglesBalanceIsSum, RemittedWasCollected, SinglesNeverOverpaid,
             [Next]_vars, NEW m \in Ledger, SingleEntries(m[1])'
      PROVE  log'[m].paid <= log'[m].earned
  <2>s. SingleEntries(m[1])
    BY <1>2, SinglesBefore DEF Ledger
  <2>0. TypeOK /\ log[m].paid <= log[m].earned
    BY <1>2, <2>s DEF Inv, SinglesNeverOverpaid
  <2>t. /\ log[m].earned \in Nat /\ log[m].paid \in Nat
        /\ log[m].collected \in Nat /\ log[m].remitted \in Nat
    BY <2>0, HeldType
  <2>1. CASE log'[m] = log[m] /\ row'[m] = row[m]
    BY <2>0, <2>1
  <2>2. ASSUME NEW q \in Request, m = req[q].in.ledger, SaveCredit(q)
        PROVE  log'[m].paid <= log'[m].earned
    <3> DEFINE x == Earned(req[q].pay)
    <3>1. x \in Nat
      BY <2>0, <2>2, CreditWrites, PostedSize
    <3>2. log'[m].earned = log[m].earned + x /\ log'[m].paid = log[m].paid
      BY <2>0, <2>2, CreditWrites
    <3> HIDE DEF x
    <3> QED BY <2>0, <2>t, <3>1, <3>2
  <2>3. ASSUME NEW q \in Request, m = req[q].in.ledger, SaveRemit(q)
        PROVE  log'[m].paid <= log'[m].earned
    <3>1. log'[m].earned = log[m].earned /\ log'[m].paid = log[m].paid
      BY <2>0, <2>3, RemitWrites, Zenon
    <3> QED BY <2>0, <3>1
  <2>4. ASSUME NEW q \in Request, m = req[q].in.ledger, SavePayout(q)
        PROVE  log'[m].paid <= log'[m].earned
    <3> DEFINE x == req[q].in.row.balance
    <3>1. /\ x \in Nat \ {0} /\ row[m] = req[q].in.row /\ Held(m) = 0
          /\ log'[m].paid = log[m].paid + x /\ log'[m].earned = log[m].earned
      BY <1>2, <2>4, PayoutWrites, Zenon
    <3>2. x = Book(m)
      BY <1>2, <2>s, <3>1 DEF SinglesBalanceIsSum
    <3>3. log[m].collected = log[m].remitted
      BY <1>2, <2>0, <2>t, <3>1, HeldType DEF RemittedWasCollected
    <3> HIDE DEF x
    <3>4. log[m].paid + x = log[m].earned
      BY <2>t, <3>2, <3>3 DEF Book
    <3> QED BY <2>t, <3>1, <3>4
  <2> QED BY <1>2, <2>1, <2>2, <2>3, <2>4, LogFrame
<1>3. /\ Inv /\ SinglesBalanceIsSum /\ RemittedWasCollected
      /\ SinglesNeverOverpaid /\ [Next]_vars
      => SinglesNeverOverpaid'
  BY <1>2 DEF SinglesNeverOverpaid
<1>4. Spec => []SinglesBalanceIsSum
  BY BalanceExact
<1> QED BY <1>1, <1>3, <1>4, InvHolds, RemitBounded, PTL DEF Spec

-----------------------------------------------------------------------------
(* Every writer that commits did what it would have done alone:            *)
(* CourierLedger implements CourierAccount.                                *)

Balances == [l \in Ledger |-> row[l].balance]

\* What a save does to the balances: it moves one, from what the writer read.
LEMMA BalanceWrites ==
  ASSUME TypeOK, NEW q \in Request, req[q] # Idle,
         NEW n \in Nat \ {0}, NEW cents \in Int, Save(q, n, cents)
  PROVE  /\ req[q].in.ledger \in Ledger
         /\ Balances' = [Balances EXCEPT ![req[q].in.ledger] =
                           req[q].in.row.balance + cents]
<1> DEFINE l == req[q].in.ledger
           b == req[q].in.row.balance + cents
<1>1. /\ l \in Ledger /\ row'[l].balance = b
      /\ \A m \in Ledger : m # l => row'[m] = row[m]
  BY SaveWrites
<1> HIDE DEF l, b
<1>2. \A m \in Ledger : row'[m].balance = IF m = l THEN b ELSE Balances[m]
  BY <1>1 DEF Balances
<1>3. Balances' = [Balances EXCEPT ![l] = b]
  BY <1>2 DEF Balances
<1> QED BY <1>1, <1>3 DEF l, b

\* A credit of one entry moves the balance as it stands; one of more may not.
LEMMA CreditImplements ==
  ASSUME Inv, NEW q \in Request, SaveCredit(q),
         NEW l, l = req[q].in.ledger, NEW j, j = req[q].job, NEW pay, pay = req[q].pay
  PROVE  Account!Credit(l, j, pay)
<1> DEFINE new == NewEntries(q)
           n == Cardinality(Posted(pay))
           cents == Earned(pay) - pay["cod_collected"]
<1>0. TypeOK
  BY DEF Inv
<1>1. /\ pay \in Pay /\ Save(q, n, cents) /\ req[q] # Idle
      /\ Unrecorded(q)
      /\ log' = [log EXCEPT ![l].earned = @ + Earned(pay),
                            ![l].collected = @ + pay["cod_collected"]]
      /\ entries' = [e \in DOMAIN entries |->
                       IF e \in new THEN entries[e] + 1 ELSE entries[e]]
  <2>1. pay \in Pay /\ Save(q, n, cents)
    BY <1>0, CreditWrites
  <2> QED BY <2>1, Zenon DEF SaveCredit
<1>2. new = Account!Posted(l[1], j, pay)
  BY DEF NewEntries, Posted, Account!Posted
<1>3. entries' = [e \in DOMAIN entries |-> IF e \in new THEN 1 ELSE entries[e]]
  BY <1>1 DEF Unrecorded
<1>4. n \in Nat \ {0} /\ Earned(pay) \in Nat /\ pay["cod_collected"] \in Nat /\ cents \in Int
  BY <1>1, PostedSize
<1>5. l \in Ledger /\ Balances' = [Balances EXCEPT ![l] = req[q].in.row.balance + cents]
  <2> HIDE DEF n, cents
  <2> QED BY <1>0, <1>1, <1>4, BalanceWrites
<1>6. ASSUME NEW e \in new, new = {e}
      PROVE  Balances' = [Balances EXCEPT ![l] = @ + Earned(pay) - pay["cod_collected"]]
  <2>1. PICK k \in Posted(pay) : e = <<l[1], k, j>>
    BY DEF NewEntries
  <2>2. \A k1 \in Posted(pay) : <<l[1], k1, j>> = e
    BY <1>6 DEF NewEntries
  <2>3. Posted(pay) = {k}
    BY <2>1, <2>2
  <2>4. n = 1
    BY <2>3, FS_Singleton
  <2>5. row[l] = req[q].in.row
    <3> HIDE DEF cents, n
    <3> QED BY <1>1, <2>4, ExactGate
  <2>6. req[q].in.row.balance \in Int
    BY <1>0, <1>1, WriterParts
  <2>7. Balances[l] = req[q].in.row.balance
    BY <1>5, <2>5 DEF Balances
  <2>8. req[q].in.row.balance + cents = Balances[l] + Earned(pay) - pay["cod_collected"]
    BY <1>4, <2>6, <2>7
  <2> QED BY <1>5, <2>8
<1>7. Balances' = [Balances EXCEPT ![l] =
                    IF \E e \in new : new = {e}
                    THEN @ + Earned(pay) - pay["cod_collected"]
                    ELSE Balances'[l]]
  BY <1>5, <1>6 DEF Balances
<1>8. \A e \in new : entries[e] = 0
  BY <1>1 DEF Unrecorded
<1> QED BY <1>1, <1>2, <1>3, <1>7, <1>8 DEF Account!Credit, Account!Earned, Earned, Balances

\* A remittance is one entry, of cash that is held as it is handed back.
LEMMA RemitImplements ==
  ASSUME Inv, NEW q \in Request, SaveRemit(q),
         NEW l, l = req[q].in.ledger, NEW x, x = req[q].amount
  PROVE  Account!Remit(l, x)
<1> DEFINE n == 1
<1>0. TypeOK
  BY DEF Inv
<1>1. /\ x \in Nat \ {0} /\ Save(q, n, x) /\ req[q] # Idle
      /\ log' = [log EXCEPT ![l].remitted = @ + x]
      /\ entries' = entries
  BY <1>0, RemitWrites, Zenon DEF SaveRemit
<1>2. log[l].remitted + x <= log[l].collected
  BY RemitHeld
<1>3. row[l] = req[q].in.row
  BY <1>1, ExactGate
<1>4. n \in Nat \ {0} /\ x \in Int
  BY <1>1
<1>5. l \in Ledger /\ Balances' = [Balances EXCEPT ![l] = req[q].in.row.balance + x]
  <2> HIDE DEF n
  <2> QED BY <1>0, <1>1, <1>4, BalanceWrites
<1>6. Balances' = [Balances EXCEPT ![l] = @ + x]
  BY <1>3, <1>5 DEF Balances
<1> QED BY <1>1, <1>2, <1>6 DEF Account!Remit, Balances

\* A payout is one entry, of the balance that is owed as it is paid.
LEMMA PayoutImplements ==
  ASSUME Inv, NEW q \in Request, SavePayout(q), NEW l, l = req[q].in.ledger
  PROVE  Account!Payout(l)
<1> DEFINE x == req[q].in.row.balance
           n == 1
           cents == -x
<1>0. TypeOK
  BY DEF Inv
<1>1. /\ x \in Nat \ {0} /\ Save(q, n, cents) /\ req[q] # Idle
      /\ row[l] = req[q].in.row /\ Held(l) = 0
      /\ entries' = entries
  BY PayoutWrites, Zenon DEF SavePayout
<1>2. log' = [log EXCEPT ![l].paid = @ + x]
  BY DEF SavePayout
<1>3. n \in Nat \ {0} /\ cents \in Int /\ x + cents = 0 /\ x > 0
  BY <1>1
<1>4. l \in Ledger /\ Balances' = [Balances EXCEPT ![l] = x + cents]
  <2> HIDE DEF n, cents
  <2> QED BY <1>0, <1>1, <1>3, BalanceWrites
<1>5. Balances[l] = x
  BY <1>1, <1>4 DEF Balances
<1>6. Balances' = [Balances EXCEPT ![l] = 0]
  BY <1>3, <1>4
<1>7. log[l].collected <= log[l].remitted
  BY <1>0, <1>1, <1>4, HeldType
<1>8. Balances[l] > 0 /\ log' = [log EXCEPT ![l].paid = @ + Balances[l]]
  BY <1>2, <1>3, <1>5
<1> QED BY <1>1, <1>6, <1>7, <1>8 DEF Account!Payout, Account!HoldsNoCash, Balances

\* Every step of CourierLedger is a step of CourierAccount or a stutter: the
\* save of a writer is its whole turn, and nothing before it is seen.
LEMMA AccountStep ==
  ASSUME Inv, [Next]_vars
  PROVE  Account!Next \/ UNCHANGED Account!accountVars
<1>0. TypeOK
  BY DEF Inv
<1>1. CASE UNCHANGED <<row, log, entries>>
  BY <1>1 DEF Account!accountVars
<1>2. ASSUME NEW q \in Request, SaveCredit(q)
      PROVE  Account!Next
  <2>1. PICK l \in Ledger, j \in Job, pay \in Pay :
          l = req[q].in.ledger /\ j = req[q].job /\ pay = req[q].pay
    BY <1>0, <1>2, WriterParts DEF SaveCredit
  <2>2. Account!Credit(l, j, pay)
    BY <1>2, <2>1, CreditImplements
  <2> QED BY <2>2 DEF Account!Next
<1>3. ASSUME NEW q \in Request, SaveRemit(q)
      PROVE  Account!Next
  <2>1. PICK l \in Ledger, amount \in Amount :
          l = req[q].in.ledger /\ amount = req[q].amount
    BY <1>0, <1>3, WriterParts DEF SaveRemit
  <2>2. Account!Remit(l, amount)
    BY <1>3, <2>1, RemitImplements
  <2> QED BY <2>2 DEF Account!Next
<1>4. ASSUME NEW q \in Request, SavePayout(q)
      PROVE  Account!Next
  <2>1. PICK l \in Ledger : l = req[q].in.ledger
    BY <1>0, <1>4, WriterParts DEF SavePayout
  <2>2. Account!Payout(l)
    BY <1>4, <2>1, PayoutImplements
  <2> QED BY <2>2 DEF Account!Next
<1> QED
  BY <1>0, <1>1, <1>2, <1>3, <1>4, StepShape DEF vars, Starts, Decides, Drop, NextWeek

\* However many writers overlap, over whatever reads, the courier's money moves
\* as if each ran alone: the version gate and the job index are the whole of the
\* concurrency control of the money rail, and are enough for it.
THEOREM AccountImplemented == Spec => ImplementsAccount
<1>1. Init => Account!Init
  BY DEF Init, Account!Init
<1>2. Inv /\ [Next]_vars => [Account!Next]_Account!accountVars
  BY AccountStep
<1> QED BY <1>1, <1>2, InvHolds, PTL DEF Spec, ImplementsAccount, Account!Spec
=============================================================================
