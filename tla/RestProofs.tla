----------------------------- MODULE RestProofs -----------------------------
(* The lazily decayed counter of the Kraken limiter, for every budget,      *)
(* decay period, set of costs and set of callers; and the signed calls of   *)
(* the Kraken and the Binance adapter, for every number of them.            *)
EXTENDS CounterLimiter, KrakenRest, BinanceRest, TLAPS

-----------------------------------------------------------------------------
(* Arithmetic of whole decay periods.                                       *)

\* Division with remainder, the form in which decayLocked uses it.
LEMMA DivMod ==
  ASSUME NEW e \in Nat, NEW d \in Nat \ {0}
  PROVE  /\ e \div d \in Nat
         /\ e % d \in 0..(d-1)
         /\ e = d * (e \div d) + (e % d)
  OBVIOUS

\* A quotient and a remainder in range are the quotient and the remainder.
LEMMA DivUnique ==
  ASSUME NEW d \in Nat \ {0}, NEW q \in Nat, NEW r \in 0..(d-1)
  PROVE  (d * q + r) \div d = q /\ (d * q + r) % d = r
  OBVIOUS

\* Advancing last by whole periods keeps the phase and leaves no whole period.
LEMMA AfterDecay ==
  ASSUME NEW e \in Nat, NEW d \in Nat \ {0}
  PROVE  /\ e - (e \div d) * d = e % d
         /\ (e % d) \div d = 0
         /\ (e % d) % d = e % d
<1>1. /\ e \div d \in Nat
      /\ e % d \in 0..(d-1)
      /\ e = d * (e \div d) + (e % d)
  BY DivMod
<1>2. (d * 0 + (e % d)) \div d = 0 /\ (d * 0 + (e % d)) % d = e % d
  BY <1>1, DivUnique
<1>3. d * 0 + (e % d) = e % d
  BY <1>1
<1> QED
  BY <1>1, <1>2, <1>3

\* One more tick either ends the period or moves one tick further into it.
LEMMA OneTick ==
  ASSUME NEW e \in Nat, NEW d \in Nat \ {0}
  PROVE  IF (e + 1) % d = 0
         THEN (e % d) + 1 = d /\ (e + 1) \div d = (e \div d) + 1
         ELSE (e + 1) % d = (e % d) + 1 /\ (e % d) + 1 # d
              /\ (e + 1) \div d = e \div d
<1> DEFINE q == e \div d
           r == e % d
<1>1. q \in Nat /\ r \in 0..(d-1) /\ e = d * q + r
  BY DivMod
<1> HIDE DEF q, r
<1>2. CASE r + 1 = d
  <2>1. e + 1 = d * (q + 1) + 0
    BY <1>1, <1>2
  <2>2. (d * (q + 1) + 0) \div d = q + 1 /\ (d * (q + 1) + 0) % d = 0
    BY <1>1, DivUnique
  <2> QED
    BY <1>2, <2>1, <2>2 DEF q, r
<1>3. CASE r + 1 # d
  <2>1. e + 1 = d * q + (r + 1) /\ r + 1 \in 0..(d-1)
    BY <1>1, <1>3
  <2>2. (d * q + (r + 1)) \div d = q /\ (d * q + (r + 1)) % d = r + 1
    BY <1>1, <2>1, DivUnique
  <2>3. r + 1 # 0
    BY <1>1
  <2> QED
    BY <1>3, <2>1, <2>2, <2>3 DEF q, r
<1> QED
  BY <1>2, <1>3

-----------------------------------------------------------------------------
(* What decayLocked and a tick do to the level an eager counter would show. *)

\* decayLocked writes the level back and changes neither level nor phase.
LEMMA DecayKeepsLevel ==
  ASSUME TypeOK
  PROVE  /\ Ticks \in Nat
         /\ DecayedElapsed \in Nat
         /\ DecayedElapsed \div Decay = 0
         /\ DecayedElapsed % Decay = elapsed % Decay
         /\ DecayedCurrent = Level
         /\ Level \in 0..Budget
<1>1. elapsed \in Nat /\ Decay \in Nat \ {0} /\ current \in 0..Budget /\ Budget \in Nat
  BY CounterAssumption DEF TypeOK
<1>2. Ticks \in Nat /\ elapsed % Decay \in 0..(Decay-1)
  BY <1>1, DivMod DEF Ticks
<1>3. DecayedElapsed = elapsed % Decay
  BY <1>1, AfterDecay DEF DecayedElapsed, Ticks
<1>4. DecayedCurrent = Level /\ Level \in 0..Budget
  BY <1>1, <1>2 DEF DecayedCurrent, Level
<1>5. (elapsed % Decay) \div Decay = 0 /\ (elapsed % Decay) % Decay = elapsed % Decay
  BY <1>1, AfterDecay
<1>6. DecayedElapsed \in Nat
  BY <1>2, <1>3
<1>7. DecayedElapsed \div Decay = 0 /\ DecayedElapsed % Decay = elapsed % Decay
  BY <1>3, <1>5
<1> QED
  BY <1>2, <1>4, <1>6, <1>7

\* After a Wait that decayed, the level is the counter itself.
LEMMA LevelAfterDecay ==
  ASSUME TypeOK, elapsed' = DecayedElapsed, current' \in Nat
  PROVE  Level' = current' /\ (elapsed % Decay)' = elapsed % Decay
<1>1. Ticks' = 0
  BY DecayKeepsLevel DEF Ticks
<1>2. Level' = current'
  BY <1>1 DEF Level, Ticks
<1>3. (elapsed % Decay)' = elapsed % Decay
  BY DecayKeepsLevel
<1> QED
  BY <1>2, <1>3

\* A tick lowers the level by one exactly when it ends a decay period.
LEMMA LevelAfterTick ==
  ASSUME TypeOK, Tick
  PROVE  IF PeriodEnds
         THEN /\ (elapsed % Decay) + 1 = Decay
              /\ (elapsed % Decay)' = 0
              /\ Level' = IF Level > 0 THEN Level - 1 ELSE 0
         ELSE /\ (elapsed % Decay) + 1 # Decay
              /\ (elapsed % Decay)' = (elapsed % Decay) + 1
              /\ Level' = Level
<1>1. elapsed \in Nat /\ Decay \in Nat \ {0} /\ current \in 0..Budget
  BY CounterAssumption DEF TypeOK
<1>2. elapsed' = elapsed + 1 /\ current' = current
  BY DEF Tick
<1>3. Ticks \in Nat
  BY DecayKeepsLevel
<1>4. Ticks' = IF PeriodEnds THEN Ticks + 1 ELSE Ticks
  BY <1>1, <1>2, OneTick DEF Ticks, PeriodEnds
<1>5. Level' = IF PeriodEnds THEN (IF Level > 0 THEN Level - 1 ELSE 0) ELSE Level
  BY <1>1, <1>2, <1>3, <1>4 DEF Level
<1> QED
  BY <1>1, <1>2, <1>5, OneTick DEF PeriodEnds

-----------------------------------------------------------------------------
\* The limiter keeps its types, and the counter of Wait stays in the budget.
THEOREM CounterTyping == Spec => []TypeOK
<1>1. Init => TypeOK
  BY CounterAssumption DEF Init, TypeOK
<1>2. TypeOK /\ [Next]_vars => TypeOK'
  <2> SUFFICES ASSUME TypeOK, [Next]_vars
               PROVE  TypeOK'
    OBVIOUS
  <2>0. /\ DecayedElapsed \in Nat
        /\ DecayedCurrent \in 0..Budget
    BY DecayKeepsLevel
  <2> USE CounterAssumption DEF TypeOK
  <2>1. CASE UNCHANGED vars
    BY <2>1 DEF vars
  <2>2. ASSUME NEW c \in Callers, WaitInBackoff(c)
        PROVE  TypeOK'
    BY <2>0, <2>2 DEF WaitInBackoff, DecayLocked, observer
  <2>3. ASSUME NEW c \in Callers, NEW cost \in Costs, WaitExhausted(c, cost)
        PROVE  TypeOK'
    BY <2>0, <2>3 DEF WaitExhausted, DecayLocked, observer
  <2>4. ASSUME NEW c \in Callers, NEW cost \in Costs, WaitAdmitted(c, cost)
        PROVE  TypeOK'
    <3>1. cost \in Nat
      OBVIOUS
    <3> QED
      BY <2>0, <2>4, <3>1 DEF WaitAdmitted, HasRoom
  <2>5. ASSUME NEW c \in Callers, Answered(c)
        PROVE  TypeOK'
    BY <2>5 DEF Answered, observer
  <2>6. ASSUME NEW c \in Callers, RateLimited(c)
        PROVE  TypeOK'
    BY <2>6 DEF RateLimited, observer
  <2>7. CASE Tick
    BY <2>7 DEF Tick
  <2>8. CASE StartStopwatch
    BY <2>8 DEF StartStopwatch
  <2> QED
    BY <2>1, <2>2, <2>3, <2>4, <2>5, <2>6, <2>7, <2>8 DEF Next
<1> QED
  BY <1>1, <1>2, PTL DEF Spec

-----------------------------------------------------------------------------
\* One step of Wait, do, the clock or the stopwatch keeps CostInv.
LEMMA CostInvStep ==
  ASSUME TypeOK, CostInv, [Next]_vars
  PROVE  CostInv'
<1>0. /\ DecayedElapsed \in Nat
      /\ DecayedCurrent = Level
      /\ Level \in 0..Budget
  BY DecayKeepsLevel
<1>a. /\ drips \in Nat /\ seen \in Nat /\ Horizon \in Nat /\ Budget \in Nat
      /\ Costs \subseteq Nat
  BY CounterAssumption DEF TypeOK
<1>1. ASSUME current' = current, elapsed' = elapsed
      PROVE  Level' = Level
  BY <1>1 DEF Level, Ticks
<1>2. ASSUME DecayLocked
      PROVE  Level' = Level
  <2>1. current' = Level /\ elapsed' = DecayedElapsed
    BY <1>0, <1>2 DEF DecayLocked
  <2> QED
    BY <1>0, <2>1, LevelAfterDecay
<1>3. CASE UNCHANGED vars
  BY <1>1, <1>3 DEF vars, CostInv
<1>4. ASSUME NEW c \in Callers, WaitInBackoff(c)
      PROVE  CostInv'
  BY <1>2, <1>4 DEF WaitInBackoff, CostInv, observer
<1>5. ASSUME NEW c \in Callers, NEW cost \in Costs, WaitExhausted(c, cost)
      PROVE  CostInv'
  BY <1>2, <1>5 DEF WaitExhausted, CostInv, observer
<1>6. ASSUME NEW c \in Callers, NEW cost \in Costs, WaitAdmitted(c, cost)
      PROVE  CostInv'
  <2>1. cost \in Nat
    BY <1>a
  <2>2. current' = Level + cost /\ elapsed' = DecayedElapsed
    BY <1>0, <1>6 DEF WaitAdmitted
  <2>3. Level' = Level + cost
    BY <1>0, <2>1, <2>2, LevelAfterDecay
  <2>4. drips' = drips /\ (drips < Horizon => seen' = seen + cost)
    BY <1>6 DEF WaitAdmitted
  <2> QED
    BY <1>0, <1>a, <2>1, <2>3, <2>4 DEF CostInv
<1>7. ASSUME NEW c \in Callers, Answered(c)
      PROVE  CostInv'
  BY <1>1, <1>7 DEF Answered, CostInv, observer
<1>8. ASSUME NEW c \in Callers, RateLimited(c)
      PROVE  CostInv'
  BY <1>1, <1>8 DEF RateLimited, CostInv, observer
<1>9. CASE Tick
  \* The unit that leaves the bucket is the one the ended period accounts for.
  <2>1. seen' = seen
        /\ drips' = IF PeriodEnds /\ drips < Horizon THEN drips + 1 ELSE drips
    BY <1>9 DEF Tick
  <2>2. CASE PeriodEnds
    <3>1. Level' = IF Level > 0 THEN Level - 1 ELSE 0
      BY <1>9, <2>2, LevelAfterTick
    <3> QED
      BY <1>0, <1>a, <2>1, <2>2, <3>1 DEF CostInv
  <2>3. CASE ~PeriodEnds
    <3>1. Level' = Level
      BY <1>9, <2>3, LevelAfterTick
    <3> QED
      BY <2>1, <2>3, <3>1 DEF CostInv
  <2> QED
    BY <2>2, <2>3
<1>10. CASE StartStopwatch
  <2>1. seen' = 0 /\ drips' = 0 /\ Level' = Level
    BY <1>1, <1>10 DEF StartStopwatch
  <2> QED
    BY <1>0, <2>1 DEF CostInv
<1> QED
  BY <1>3, <1>4, <1>5, <1>6, <1>7, <1>8, <1>9, <1>10 DEF Next

\* In any stretch, the cost Wait admits is at most the budget plus one unit
\* per decay period that ended in it.
THEOREM CounterCostBound == Spec => []CostBound
<1>1. Init => CostInv
  <2> SUFFICES ASSUME Init
               PROVE  CostInv
    OBVIOUS
  <2>1. TypeOK
    BY CounterAssumption DEF Init, TypeOK
  <2> QED
    BY <2>1, DecayKeepsLevel DEF Init, CostInv
<1>2. TypeOK /\ CostInv /\ [Next]_vars => CostInv'
  BY CostInvStep
<1>3. TypeOK /\ CostInv => CostBound
  <2> SUFFICES ASSUME TypeOK, CostInv
               PROVE  CostBound
    OBVIOUS
  <2>1. Level \in 0..Budget
    BY DecayKeepsLevel
  <2> QED
    BY <2>1, CounterAssumption DEF TypeOK, CostInv, CostBound
<1> QED
  BY CounterTyping, <1>1, <1>2, <1>3, PTL DEF Spec

-----------------------------------------------------------------------------
\* Every step of the lazy counter is a step of the eager bucket or a stutter.
LEMMA BucketStep ==
  ASSUME TypeOK, [Next]_vars
  PROVE  [Bucket!Next]_(Bucket!bucket)
<1>0. /\ DecayedElapsed \in Nat
      /\ DecayedCurrent = Level
      /\ Level \in 0..Budget
  BY DecayKeepsLevel
<1>1. ASSUME current' = current, elapsed' = elapsed
      PROVE  UNCHANGED Bucket!bucket
  BY <1>1 DEF Level, Ticks, Bucket!bucket
<1>2. ASSUME DecayLocked
      PROVE  UNCHANGED Bucket!bucket
  <2>1. current' = Level /\ elapsed' = DecayedElapsed
    BY <1>0, <1>2 DEF DecayLocked
  <2>2. Level' = Level /\ (elapsed % Decay)' = elapsed % Decay
    BY <1>0, <2>1, LevelAfterDecay
  <2> QED
    BY <2>2 DEF Bucket!bucket
<1>3. CASE UNCHANGED vars
  BY <1>1, <1>3 DEF vars
<1>4. ASSUME NEW c \in Callers, WaitInBackoff(c)
      PROVE  UNCHANGED Bucket!bucket
  BY <1>2, <1>4 DEF WaitInBackoff
<1>5. ASSUME NEW c \in Callers, NEW cost \in Costs, WaitExhausted(c, cost)
      PROVE  UNCHANGED Bucket!bucket
  BY <1>2, <1>5 DEF WaitExhausted
<1>6. ASSUME NEW c \in Callers, NEW cost \in Costs, WaitAdmitted(c, cost)
      PROVE  Bucket!Next
  <2>1. cost \in Nat
    BY CounterAssumption
  <2>2. current' = Level + cost /\ elapsed' = DecayedElapsed /\ Level + cost <= Budget
    BY <1>0, <1>6 DEF WaitAdmitted, HasRoom
  <2>3. Level' = Level + cost /\ (elapsed % Decay)' = elapsed % Decay
    BY <1>0, <2>1, <2>2, LevelAfterDecay
  <2>4. Bucket!Admit(cost)
    BY <2>2, <2>3 DEF Bucket!Admit
  <2> QED
    BY <2>4 DEF Bucket!Next
<1>7. ASSUME NEW c \in Callers, Answered(c)
      PROVE  UNCHANGED Bucket!bucket
  BY <1>1, <1>7 DEF Answered
<1>8. ASSUME NEW c \in Callers, RateLimited(c)
      PROVE  UNCHANGED Bucket!bucket
  BY <1>1, <1>8 DEF RateLimited
<1>9. CASE Tick
  <2>1. Bucket!Tick
    BY <1>9, LevelAfterTick DEF Bucket!Tick
  <2> QED
    BY <2>1 DEF Bucket!Next
<1>10. CASE StartStopwatch
  BY <1>1, <1>10 DEF StartStopwatch
<1> QED
  BY <1>3, <1>4, <1>5, <1>6, <1>7, <1>8, <1>9, <1>10 DEF Next

\* Lazy decay implements the leaky bucket that decays on time.
THEOREM CounterRefinesBucket == Spec => LazyDecayIsExact
<1>1. Init => Bucket!Init
  <2> SUFFICES ASSUME Init
               PROVE  Bucket!Init
    OBVIOUS
  <2>1. 0 \div Decay = 0 /\ 0 % Decay = 0
    BY CounterAssumption, DivUnique
  <2> QED
    BY <2>1 DEF Init, Level, Ticks, Bucket!Init
<1>2. TypeOK /\ [Next]_vars => [Bucket!Next]_(Bucket!bucket)
  BY BucketStep
<1> QED
  BY CounterTyping, <1>1, <1>2, PTL DEF Spec, LazyDecayIsExact, Bucket!Spec

-----------------------------------------------------------------------------
(* Signed calls, as both REST adapters make them.                           *)

OrderStates == {"open", "closed", "canceled", "expired"}
VenueOrder == [state : OrderStates, exec : 0..Volume]
VenueReply == [id : Nat, state : OrderStates \cup {"none", "error", "done"}, exec : Nat]
Ops == {"none", "place", "order", "cancel", "read"}
SignedCall == [op : Ops, id : Nat, stamp : Nat, sent : BOOLEAN, ans : VenueReply]
SignedRequest == [op : Ops, id : Nat, stamp : Nat]

SignedTypeOK ==
    /\ clock \in Nat /\ start \in Nat /\ stamp \in Nat
    /\ call \in [Clients -> SignedCall]
    /\ wire \subseteq SignedRequest
    /\ listed \in Seq(VenueOrder)

\* A query or a cancellation is about an order the venue has.
Refers(op, id) == op \in {"order", "cancel"} => id \in DOMAIN listed

\* An answer about an order: nothing executed has been undone since, and an
\* order that was over has not changed.
StillTrue(ans, o) ==
    /\ ans.state \in OrderStates /\ ans.exec \in 0..Volume
    /\ ans.exec <= listed[o].exec
    /\ ans.state # "open" => listed[o].state = ans.state /\ listed[o].exec = ans.exec

SignedInv ==
    /\ SignedTypeOK
    /\ \A c \in Clients : Refers(call[c].op, call[c].id)
    /\ \A r \in wire : Refers(r.op, r.id)
    /\ \A c \in OrderAnswers : StillTrue(call[c].ans, call[c].id)

\* The steps both adapters are made of.
SignedStep ==
    \/ \E c \in Clients, op \in Ops, id \in Nat, n \in Nat : Draw(c, op, id, n) /\ Refers(op, id)
    \/ \E c \in Clients :
          \/ Reaches(c, Request(c), ReplyTo(Request(c))) /\ Accepts(Request(c))
          \/ Reaches(c, Request(c), ErrorReply) /\ UNCHANGED listed
    \/ \E r \in wire : ReachesLate(r) /\ (Accepts(r) \/ UNCHANGED listed)
    \/ Restart
    \/ CommonStep

\* At most one request is under way, and its nonce is the largest so far.
SoleRequest ==
    /\ \A c, d \in Clients : Undecided(c) /\ Undecided(d) => c = d
    /\ \A r, s \in wire : r = s
    /\ \A c \in Clients : Undecided(c) => wire = {}
    /\ \A c \in Clients : Undecided(c) => call[c].stamp > lastNonce /\ call[c].stamp <= stamp
    /\ \A r \in wire : r.stamp > lastNonce /\ r.stamp <= stamp

SerialInv ==
    /\ lastNonce \in Nat
    /\ ~interleaved /\ ~outran => lastNonce <= stamp /\ SoleRequest /\ ~clash

\* The timestamps are the milliseconds since the start of the process, one
\* for each call it has made.
TimestampInv ==
    /\ drawn \in Nat
    /\ stamp = start + drawn
    /\ \A c \in Clients : call[c].stamp <= stamp

\* What the venue never takes back: its orders, what they have executed, and
\* that they are over.
VenueKeeps ==
    /\ listed' \in Seq(VenueOrder)
    /\ DOMAIN listed \subseteq DOMAIN listed'
    /\ \A o \in DOMAIN listed :
          /\ listed[o].exec <= listed'[o].exec
          /\ listed[o].state # "open" => listed'[o] = listed[o]

LEMMA VenueUntouched ==
  ASSUME SignedTypeOK, listed' = listed
  PROVE  VenueKeeps
<1>1. \A o \in DOMAIN listed : listed[o] \in VenueOrder
  BY DEF SignedTypeOK
<1>2. \A o \in DOMAIN listed : listed[o].exec \in 0..Volume
  BY <1>1 DEF VenueOrder
<1> QED
  BY <1>2, SignedAssumption DEF SignedTypeOK, VenueKeeps

\* One order moves on; z is what it becomes.
LEMMA OrderMoved ==
  ASSUME SignedTypeOK, NEW o \in DOMAIN listed, NEW z \in VenueOrder,
         listed[o].state = "open", listed[o].exec <= z.exec,
         listed' = [listed EXCEPT ![o] = z]
  PROVE  VenueKeeps
<1> USE SignedAssumption DEF SignedTypeOK
<1>1. listed' \in Seq(VenueOrder) /\ DOMAIN listed' = DOMAIN listed
  OBVIOUS
<1>2. listed'[o] = z /\ \A p \in DOMAIN listed : p # o => listed'[p] = listed[p]
  OBVIOUS
<1>3. \A p \in DOMAIN listed : listed[p] \in VenueOrder
  OBVIOUS
<1>4. \A p \in DOMAIN listed : listed[p].exec \in 0..Volume
  BY <1>3 DEF VenueOrder
<1> QED
  BY <1>1, <1>2, <1>4 DEF VenueKeeps

LEMMA VenueMoved ==
  ASSUME SignedTypeOK, NEW o \in DOMAIN listed, VenueMoves(o)
  PROVE  VenueKeeps
<1>1. listed[o] \in VenueOrder /\ listed[o].state = "open"
  BY DEF SignedTypeOK, VenueMoves
<1>2. listed[o].exec \in 0..Volume
  BY <1>1 DEF VenueOrder
<1>3. CASE listed[o].exec < Volume /\ listed' = [listed EXCEPT ![o].exec = @ + 1]
  <2>1. PICK z : z = [listed[o] EXCEPT !.exec = @ + 1]
    OBVIOUS
  <2>2. z \in VenueOrder /\ z.exec = listed[o].exec + 1
    BY <1>1, <1>2, <1>3, <2>1, SignedAssumption DEF VenueOrder
  <2>3. listed' = [listed EXCEPT ![o] = z]
    BY <1>3, <2>1
  <2>4. listed[o].exec <= z.exec
    BY <1>2, <2>2, SignedAssumption
  <2> QED
    BY <1>1, <2>2, <2>3, <2>4, OrderMoved
<1>4. ASSUME NEW s \in {"closed", "expired"}, listed' = [listed EXCEPT ![o].state = s]
      PROVE  VenueKeeps
  <2>1. PICK z : z = [listed[o] EXCEPT !.state = s]
    OBVIOUS
  <2>2. z \in VenueOrder /\ z.exec = listed[o].exec
    BY <1>1, <2>1 DEF VenueOrder, OrderStates
  <2>3. listed' = [listed EXCEPT ![o] = z]
    BY <1>4, <2>1
  <2>4. listed[o].exec <= z.exec
    BY <1>2, <2>2, SignedAssumption
  <2> QED
    BY <1>1, <2>2, <2>3, <2>4, OrderMoved
<1> QED
  BY <1>3, <1>4 DEF VenueMoves

LEMMA VenueAccepts ==
  ASSUME SignedTypeOK, NEW r, Refers(r.op, r.id), Accepts(r)
  PROVE  VenueKeeps /\ (r.op = "order" => listed' = listed)
<1>1. CASE r.op = "place"
  <2>1. PICK z : z = [state |-> "open", exec |-> 0]
    OBVIOUS
  <2>2. z \in VenueOrder
    BY <2>1, SignedAssumption DEF VenueOrder, OrderStates
  <2>3. listed' = Append(listed, z)
    BY <1>1, <2>1 DEF Accepts, Outcome, Cancelable
  <2>4. listed' \in Seq(VenueOrder)
    BY <2>2, <2>3 DEF SignedTypeOK
  <2>5. \A o \in DOMAIN listed : o \in DOMAIN listed' /\ listed'[o] = listed[o]
    BY <2>3 DEF SignedTypeOK
  <2>6. \A o \in DOMAIN listed : listed[o] \in VenueOrder
    BY DEF SignedTypeOK
  <2>7. \A o \in DOMAIN listed : listed[o].exec \in 0..Volume
    BY <2>6 DEF VenueOrder
  <2> QED
    BY <1>1, <2>4, <2>5, <2>7, SignedAssumption DEF VenueKeeps
<1>2. CASE r.op # "place" /\ Cancelable(r)
  <2>1. PICK o : o = r.id
    OBVIOUS
  <2>2. o \in DOMAIN listed /\ listed[o].state = "open" /\ r.op = "cancel"
    BY <1>2, <2>1 DEF Refers, Cancelable
  <2>3. listed[o] \in VenueOrder
    BY <2>2 DEF SignedTypeOK
  <2>4. PICK z : z = [listed[o] EXCEPT !.state = "canceled"]
    OBVIOUS
  <2>5. z \in VenueOrder /\ z.exec = listed[o].exec /\ z.exec \in 0..Volume
    BY <2>3, <2>4 DEF VenueOrder, OrderStates
  <2>6. listed' = [listed EXCEPT ![o].state = "canceled"]
    BY <1>2, <2>1 DEF Accepts, Outcome
  <2>7. listed' = [listed EXCEPT ![o] = z]
    BY <2>4, <2>6
  <2>8. listed[o].exec <= z.exec
    BY <2>5, SignedAssumption
  <2> QED
    BY <2>2, <2>5, <2>7, <2>8, OrderMoved
<1>3. CASE r.op # "place" /\ ~Cancelable(r)
  <2>1. listed' = listed
    BY <1>3 DEF Accepts, Outcome
  <2> QED
    BY <2>1, VenueUntouched
<1> QED
  BY <1>1, <1>2, <1>3

LEMMA ReplyTyped ==
  ASSUME SignedTypeOK, NEW r, Refers(r.op, r.id)
  PROVE  /\ ReplyTo(r) \in VenueReply
         /\ ReplyTo(r).state # "none"
         /\ r.op = "order" => ReplyTo(r) = OrderReply(r.id)
<1> USE SignedAssumption
<1>1. CASE r.op = "place"
  BY <1>1 DEF ReplyTo, VenueReply, OrderStates, SignedTypeOK
<1>2. CASE r.op = "order"
  <2>1. ReplyTo(r) = OrderReply(r.id)
    BY <1>2 DEF ReplyTo
  <2>2. r.id \in Nat /\ listed[r.id] \in VenueOrder
    BY <1>2 DEF Refers, SignedTypeOK
  <2>3. listed[r.id].state \in OrderStates /\ listed[r.id].exec \in Nat
    BY <2>2 DEF VenueOrder
  <2> QED
    BY <1>2, <2>1, <2>2, <2>3 DEF OrderReply, VenueReply, OrderStates
<1>3. CASE r.op \notin {"place", "order"}
  <2>1. ReplyTo(r) \in {ErrorReply, DoneReply}
    BY <1>3 DEF ReplyTo
  <2> QED
    BY <1>3, <2>1 DEF ErrorReply, DoneReply, VenueReply
<1> QED
  BY <1>1, <1>2, <1>3

\* What a step has to show about the calls and the wire.
LEMMA SignedKept ==
  ASSUME SignedInv, VenueKeeps, clock' \in Nat, start' \in Nat, stamp' \in Nat,
         call' \in [Clients -> SignedCall], wire' \subseteq SignedRequest,
         \A r \in wire' : Refers(r.op, r.id),
         \A c \in Clients : Refers(call'[c].op, call'[c].id),
         \A c \in OrderAnswers' :
             \/ call'[c].op = call[c].op /\ call'[c].id = call[c].id /\ call'[c].ans = call[c].ans
             \/ StillTrue(call'[c].ans, call'[c].id)
  PROVE  SignedInv'
<1>1. ASSUME NEW op, NEW id, Refers(op, id)
      PROVE  Refers(op, id)'
  BY <1>1 DEF Refers, VenueKeeps
<1>2. ASSUME NEW o \in DOMAIN listed, NEW ans, StillTrue(ans, o)
      PROVE  StillTrue(ans, o)'
  <2>1. listed[o] \in VenueOrder /\ listed'[o] \in VenueOrder
    BY DEF SignedInv, SignedTypeOK, VenueKeeps
  <2>2. listed[o].exec \in 0..Volume /\ listed'[o].exec \in 0..Volume
    BY <2>1 DEF VenueOrder
  <2> QED
    BY <1>2, <2>2, SignedAssumption DEF StillTrue, VenueKeeps
<1>3. ASSUME NEW c \in OrderAnswers'
      PROVE  StillTrue(call[c].ans, call[c].id)'
  <2>1. call'[c].op = "order" /\ call'[c].ans # NoReply /\ call'[c].ans # ErrorReply /\ c \in Clients
    BY <1>3 DEF OrderAnswers
  <2>2. call'[c].id \in DOMAIN listed
    BY <2>1 DEF Refers
  <2>3. StillTrue(call'[c].ans, call'[c].id)
    BY <1>3, <2>1 DEF OrderAnswers, SignedInv
  <2>4. PICK o, ans : o = call'[c].id /\ ans = call'[c].ans
    OBVIOUS
  <2>5. StillTrue(ans, o)'
    BY <1>2, <2>2, <2>3, <2>4
  <2> QED
    BY <2>4, <2>5 DEF StillTrue
<1>4. \A c \in Clients : Refers(call[c].op, call[c].id)'
  BY <1>1 DEF Refers, VenueKeeps
<1>5. \A r \in wire' : Refers(r.op, r.id)'
  BY <1>1
<1> QED
  BY <1>3, <1>4, <1>5 DEF SignedInv, SignedTypeOK, VenueKeeps

LEMMA NoCallTyped == NoCall \in SignedCall /\ NoReply \in VenueReply /\ ErrorReply \in VenueReply
<1>1. NoReply \in VenueReply /\ ErrorReply \in VenueReply
  BY DEF NoReply, ErrorReply, VenueReply
<1> QED
  BY <1>1 DEF NoCall, SignedCall, Ops

\* Caller c changes what it does, and nobody else does.
LEMMA OneCallMoves ==
  ASSUME SignedInv, VenueKeeps, clock' \in Nat, start' \in Nat, stamp' \in Nat,
         NEW c \in Clients, NEW x \in SignedCall, call' = [call EXCEPT ![c] = x],
         wire' \subseteq SignedRequest, \A r \in wire' : Refers(r.op, r.id),
         Refers(x.op, x.id),
         \/ x.op # "order"
         \/ x.ans \in {NoReply, ErrorReply}
         \/ x.op = call[c].op /\ x.id = call[c].id /\ x.ans = call[c].ans
         \/ StillTrue(x.ans, x.id)
  PROVE  SignedInv'
<1>1. /\ call' \in [Clients -> SignedCall] /\ call'[c] = x
      /\ \A d \in Clients : d # c => call'[d] = call[d]
  BY DEF SignedInv, SignedTypeOK
<1>2. \A d \in Clients : Refers(call'[d].op, call'[d].id)
  BY <1>1 DEF SignedInv
<1>3. \A d \in OrderAnswers' :
         \/ call'[d].op = call[d].op /\ call'[d].id = call[d].id /\ call'[d].ans = call[d].ans
         \/ StillTrue(call'[d].ans, call'[d].id)
  BY <1>1 DEF OrderAnswers
<1> QED
  BY <1>1, <1>2, <1>3, SignedKept

LEMMA WireKept ==
  ASSUME SignedInv, wire' \subseteq wire \cup {Request(c) : c \in Clients}
  PROVE  wire' \subseteq SignedRequest /\ \A r \in wire' : Refers(r.op, r.id)
<1>1. ASSUME NEW c \in Clients
      PROVE  Request(c) \in SignedRequest /\ Refers(Request(c).op, Request(c).id)
  <2>1. call[c] \in SignedCall /\ Refers(call[c].op, call[c].id)
    BY DEF SignedInv, SignedTypeOK
  <2> QED
    BY <2>1 DEF Request, SignedCall, SignedRequest
<1> QED
  BY <1>1 DEF SignedInv, SignedTypeOK

\* One step of either adapter, or of its venue, keeps SignedInv.
LEMMA SignedInvStep ==
  ASSUME SignedInv, SignedStep
  PROVE  SignedInv'
<1>0. SignedTypeOK /\ \A c \in Clients : call[c] \in SignedCall /\ Refers(call[c].op, call[c].id)
  BY DEF SignedInv, SignedTypeOK
<1>1. ASSUME NEW c \in Clients, NEW op \in Ops, NEW id \in Nat, NEW n \in Nat,
             Draw(c, op, id, n), Refers(op, id)
      PROVE  SignedInv'
  <2>1. PICK x : x = [op |-> op, id |-> id, stamp |-> n, sent |-> FALSE, ans |-> NoReply]
    OBVIOUS
  <2>2. x \in SignedCall /\ x.op = op /\ x.id = id /\ x.ans = NoReply
    BY <2>1, NoCallTyped DEF SignedCall
  <2>3. /\ call' = [call EXCEPT ![c] = x] /\ stamp' = n
        /\ clock' = clock /\ start' = start /\ wire' = wire /\ listed' = listed
    BY <1>1, <2>1 DEF Draw
  <2>4. clock' \in Nat /\ start' \in Nat /\ stamp' \in Nat
    BY <1>0, <2>3 DEF SignedTypeOK
  <2>5. VenueKeeps
    BY <1>0, <2>3, VenueUntouched
  <2>6. wire' \subseteq SignedRequest /\ \A r \in wire' : Refers(r.op, r.id)
    BY <2>3, WireKept
  <2> QED
    BY <1>1, <2>2, <2>3, <2>4, <2>5, <2>6, OneCallMoves
<1>2. ASSUME NEW c \in Clients, Reaches(c, Request(c), ReplyTo(Request(c))), Accepts(Request(c))
      PROVE  SignedInv'
  <2>1. PICK r, reply : r = Request(c) /\ reply = ReplyTo(r)
    OBVIOUS
  <2>2. r.op = call[c].op /\ r.id = call[c].id /\ Refers(r.op, r.id)
    BY <1>0, <2>1 DEF Request
  <2>3. reply \in VenueReply /\ (r.op = "order" => reply = OrderReply(r.id))
    BY <1>0, <2>1, <2>2, ReplyTyped
  <2>4. VenueKeeps
    BY <1>0, <1>2, <2>1, <2>2, VenueAccepts
  <2>5. /\ call' = [call EXCEPT ![c].ans = reply]
        /\ clock' = clock /\ start' = start /\ stamp' = stamp /\ wire' = wire
    BY <1>2, <2>1 DEF Reaches
  <2>6. PICK x : x = [call[c] EXCEPT !.ans = reply]
    OBVIOUS
  <2>7. x \in SignedCall /\ x.op = call[c].op /\ x.id = call[c].id /\ x.ans = reply
    BY <1>0, <2>3, <2>6 DEF SignedCall
  <2>8. call' = [call EXCEPT ![c] = x]
    BY <2>5, <2>6
  <2>9. x.op = "order" => StillTrue(x.ans, x.id)
    <3> SUFFICES ASSUME x.op = "order"
                 PROVE  StillTrue(x.ans, x.id)
      OBVIOUS
    <3>1. x.id \in DOMAIN listed /\ x.ans = OrderReply(x.id)
      BY <2>2, <2>3, <2>7 DEF Refers
    <3>2. listed[x.id] \in VenueOrder
      BY <1>0, <3>1 DEF SignedTypeOK
    <3>3. listed[x.id].state \in OrderStates /\ listed[x.id].exec \in 0..Volume
      BY <3>2 DEF VenueOrder
    <3> QED
      BY <3>1, <3>3, SignedAssumption DEF OrderReply, StillTrue
  <2>10. clock' \in Nat /\ start' \in Nat /\ stamp' \in Nat
    BY <1>0, <2>5 DEF SignedTypeOK
  <2>11. wire' \subseteq SignedRequest /\ \A s \in wire' : Refers(s.op, s.id)
    BY <2>5, WireKept
  <2> QED
    BY <1>0, <2>4, <2>7, <2>8, <2>9, <2>10, <2>11, OneCallMoves
<1>3. ASSUME NEW c \in Clients, Reaches(c, Request(c), ErrorReply), UNCHANGED listed
      PROVE  SignedInv'
  <2>1. /\ call' = [call EXCEPT ![c].ans = ErrorReply]
        /\ clock' = clock /\ start' = start /\ stamp' = stamp /\ wire' = wire
    BY <1>3 DEF Reaches
  <2>2. PICK x : x = [call[c] EXCEPT !.ans = ErrorReply]
    OBVIOUS
  <2>3. x \in SignedCall /\ x.op = call[c].op /\ x.id = call[c].id /\ x.ans = ErrorReply
    BY <1>0, <2>2, NoCallTyped DEF SignedCall
  <2>4. call' = [call EXCEPT ![c] = x]
    BY <2>1, <2>2
  <2>5. clock' \in Nat /\ start' \in Nat /\ stamp' \in Nat
    BY <1>0, <2>1 DEF SignedTypeOK
  <2>6. VenueKeeps
    BY <1>0, <1>3, VenueUntouched
  <2>7. wire' \subseteq SignedRequest /\ \A r \in wire' : Refers(r.op, r.id)
    BY <2>1, WireKept
  <2> QED
    BY <1>0, <2>3, <2>4, <2>5, <2>6, <2>7, OneCallMoves
<1>4. ASSUME VenueKeeps, call' = call, wire' \subseteq wire,
             clock' \in Nat, start' \in Nat, stamp' \in Nat
      PROVE  SignedInv'
  <2>1. wire' \subseteq SignedRequest /\ \A r \in wire' : Refers(r.op, r.id)
    BY <1>4, WireKept
  <2> QED
    BY <1>0, <1>4, <2>1, SignedKept DEF SignedTypeOK
<1>5. ASSUME NEW r \in wire, ReachesLate(r), Accepts(r) \/ UNCHANGED listed
      PROVE  SignedInv'
  <2>1. VenueKeeps
    BY <1>0, <1>5, VenueAccepts, VenueUntouched DEF SignedInv
  <2>2. /\ call' = call /\ wire' \subseteq wire
        /\ clock' \in Nat /\ start' \in Nat /\ stamp' \in Nat
    BY <1>0, <1>5 DEF ReachesLate, SignedTypeOK
  <2> QED
    BY <1>4, <2>1, <2>2
<1>6. CASE Restart
  <2>1. /\ clock' \in Nat /\ start' \in Nat /\ stamp' \in Nat /\ listed' = listed
        /\ call' = [c \in Clients |-> NoCall]
        /\ wire' \subseteq wire \cup {Request(c) : c \in Clients}
    BY <1>0, <1>6 DEF Restart, SignedTypeOK
  <2>2. VenueKeeps
    BY <1>0, <2>1, VenueUntouched
  <2>3. wire' \subseteq SignedRequest /\ \A r \in wire' : Refers(r.op, r.id)
    BY <2>1, WireKept
  <2>4. NoCall.op = "none" /\ OrderAnswers' = {}
    BY <2>1 DEF NoCall, OrderAnswers
  <2>5. \A c \in Clients : Refers(call'[c].op, call'[c].id)
    BY <2>1, <2>4 DEF Refers
  <2>6. call' \in [Clients -> SignedCall]
    BY <2>1, NoCallTyped
  <2> QED
    BY <2>1, <2>2, <2>3, <2>4, <2>5, <2>6, SignedKept
<1>7. ASSUME NEW c \in Clients,
             LimiterRefuses(c) \/ Abandon(c) \/ TurnedAway(c) \/ ReadReply(c)
      PROVE  SignedInv'
  <2>1. /\ call' = [call EXCEPT ![c] = NoCall] /\ listed' = listed
        /\ clock' \in Nat /\ start' \in Nat /\ stamp' \in Nat
        /\ wire' \subseteq wire \cup {Request(d) : d \in Clients}
    BY <1>0, <1>7 DEF LimiterRefuses, Abandon, TurnedAway, ReadReply, Hang, SignedTypeOK
  <2>2. VenueKeeps
    BY <1>0, <2>1, VenueUntouched
  <2>3. wire' \subseteq SignedRequest /\ \A r \in wire' : Refers(r.op, r.id)
    BY <2>1, WireKept
  <2>4. NoCall.op = "none" /\ Refers(NoCall.op, NoCall.id)
    BY DEF NoCall, Refers
  <2> QED
    BY <2>1, <2>2, <2>3, <2>4, NoCallTyped, OneCallMoves
<1>8. ASSUME NEW c \in Clients, LimiterAdmits(c)
      PROVE  SignedInv'
  <2>1. PICK x : x = [call[c] EXCEPT !.sent = TRUE]
    OBVIOUS
  <2>2. x \in SignedCall /\ x.op = call[c].op /\ x.id = call[c].id /\ x.ans = call[c].ans
    BY <1>0, <2>1 DEF SignedCall
  <2>3. /\ call' = [call EXCEPT ![c] = x] /\ listed' = listed /\ wire' = wire
        /\ clock' \in Nat /\ start' \in Nat /\ stamp' \in Nat
    BY <1>0, <1>8, <2>1 DEF LimiterAdmits, SignedTypeOK
  <2>4. VenueKeeps
    BY <1>0, <2>3, VenueUntouched
  <2>5. wire' \subseteq SignedRequest /\ \A r \in wire' : Refers(r.op, r.id)
    BY <2>3, WireKept
  <2> QED
    BY <1>0, <2>2, <2>3, <2>4, <2>5, OneCallMoves
<1>9. ASSUME NEW o \in DOMAIN listed, VenueMoves(o)
      PROVE  SignedInv'
  <2>1. VenueKeeps
    BY <1>0, <1>9, VenueMoved
  <2>2. /\ call' = call /\ wire' \subseteq wire
        /\ clock' \in Nat /\ start' \in Nat /\ stamp' \in Nat
    BY <1>0, <1>9 DEF VenueMoves, SignedTypeOK
  <2> QED
    BY <1>4, <2>1, <2>2
<1>10. CASE ClockRuns
  <2>1. VenueKeeps
    BY <1>0, <1>10, VenueUntouched DEF ClockRuns
  <2>2. /\ call' = call /\ wire' \subseteq wire
        /\ clock' \in Nat /\ start' \in Nat /\ stamp' \in Nat
    BY <1>0, <1>10 DEF ClockRuns, SignedTypeOK
  <2> QED
    BY <1>4, <2>1, <2>2
<1> QED
  BY <1>1, <1>2, <1>3, <1>5, <1>6, <1>7, <1>8, <1>9, <1>10 DEF SignedStep, CommonStep

LEMMA SignedInvInit ==
  ASSUME SignedInit
  PROVE  SignedInv
<1>1. SignedTypeOK
  BY NoCallTyped DEF SignedInit, SignedTypeOK
<1>2. NoCall.op = "none"
  BY DEF NoCall
<1> QED
  BY <1>1, <1>2 DEF SignedInit, SignedInv, Refers, OrderAnswers

-----------------------------------------------------------------------------
(* The Kraken adapter.                                                      *)

LEMMA KrakenStepIsSigned ==
  ASSUME SignedInv, KrakenNext
  PROVE  SignedStep
<1>1. stamp + 1 \in Nat /\ 0 \in Nat /\ DOMAIN listed \subseteq Nat
  BY DEF SignedInv, SignedTypeOK
<1>2. ASSUME NEW c \in Clients, NEW op \in {"place", "read"}, DoPrivate(c, op, 0)
      PROVE  SignedStep
  BY <1>1, <1>2 DEF DoPrivate, NextNonce, Refers, Ops, SignedStep
<1>3. ASSUME NEW c \in Clients, NEW o \in DOMAIN listed, NEW op \in {"order", "cancel"},
             DoPrivate(c, op, o)
      PROVE  SignedStep
  BY <1>1, <1>3 DEF DoPrivate, NextNonce, Refers, Ops, SignedStep
<1>4. ASSUME NEW c \in Clients, KrakenAnswers(c)
      PROVE  SignedStep
  BY <1>4 DEF KrakenAnswers, KrakenTakes, KrakenRefuses, SignedStep
<1>5. ASSUME NEW r \in wire, ReachesLate(r), KrakenTakes(r) \/ KrakenRefuses(r)
      PROVE  SignedStep
  BY <1>5 DEF KrakenTakes, KrakenRefuses, SignedStep
<1>6. CASE KrakenRestart
  BY <1>6 DEF KrakenRestart, SignedStep
<1>7. CASE CommonStep
  BY <1>7 DEF SignedStep
<1> QED
  BY <1>2, <1>3, <1>4, <1>5, <1>6, <1>7
     DEF KrakenNext, KrakenPlaceOrder, KrakenGetFills, KrakenGetBalances, KrakenGetOrder,
         KrakenCancelOrder

LEMMA KrakenSigned == KrakenSpec => []SignedInv
<1>1. KrakenInit => SignedInv
  BY SignedInvInit DEF KrakenInit
<1>2. SignedInv /\ [KrakenNext]_krakenVars => SignedInv'
  <2> SUFFICES ASSUME SignedInv, [KrakenNext]_krakenVars
               PROVE  SignedInv'
    OBVIOUS
  <2>1. CASE KrakenNext
    BY <2>1, KrakenStepIsSigned, SignedInvStep
  <2>2. CASE UNCHANGED krakenVars
    BY <2>2 DEF krakenVars, signedVars, SignedInv, SignedTypeOK, Refers, OrderAnswers, StillTrue
  <2> QED
    BY <2>1, <2>2
<1> QED
  BY <1>1, <1>2, PTL DEF KrakenSpec

\* What the Kraken adapter reports of an order is true when it is read.
THEOREM KrakenVerdict == KrakenSpec => []KrakenVerdictHolds
<1>1. SignedInv => KrakenVerdictHolds
  <2> SUFFICES ASSUME SignedInv, NEW c \in OrderAnswers
               PROVE  /\ KrakenStatus(call[c].ans) = "filled" => Now(c).exec = Volume
                      /\ KrakenStatus(call[c].ans) \in {"filled", "partial", "canceled"} =>
                            Now(c).state # "open"
                      /\ KrakenStatus(call[c].ans) = "partial" => Now(c).exec \in 1..(Volume - 1)
                      /\ call[c].ans.exec <= Now(c).exec
    BY DEF KrakenVerdictHolds
  <2>1. StillTrue(call[c].ans, call[c].id)
    BY DEF SignedInv
  <2>2. CASE call[c].ans.state = "closed"
    BY <2>1, <2>2, SignedAssumption DEF StillTrue, KrakenStatus, Now
  <2>3. CASE call[c].ans.state = "canceled"
    BY <2>1, <2>3, SignedAssumption DEF StillTrue, KrakenStatus, Now
  <2>4. CASE call[c].ans.state \notin {"closed", "canceled"}
    BY <2>1, <2>4, SignedAssumption DEF StillTrue, KrakenStatus, Now
  <2> QED
    BY <2>2, <2>3, <2>4
<1> QED
  BY <1>1, KrakenSigned, PTL

\* After the venue has decided on a request, nobody waits for a decision on it.
LEMMA DecidedCall ==
  ASSUME SignedInv, NEW c \in Clients, NEW r, NEW reply, reply # NoReply, Reaches(c, r, reply)
  PROVE  /\ Undecided(c) /\ r = Request(c) /\ ~Undecided(c)'
         /\ \A d \in Clients : d # c => call'[d] = call[d]
         /\ wire' = wire /\ stamp' = stamp
<1>1. call[c] \in SignedCall
  BY DEF SignedInv, SignedTypeOK
<1>2. call' = [call EXCEPT ![c].ans = reply]
  BY DEF Reaches
<1>3. call'[c].ans = reply /\ \A d \in Clients : d # c => call'[d] = call[d]
  BY <1>1, <1>2 DEF SignedInv, SignedTypeOK, SignedCall
<1> QED
  BY <1>3 DEF Reaches, Travels, Undecided

\* A reply of the venue is not the absence of one.
LEMMA RepliesDecide ==
  ASSUME SignedInv, NEW c \in Clients
  PROVE  ReplyTo(Request(c)) # NoReply /\ ErrorReply # NoReply
<1>1. PICK r : r = Request(c)
  OBVIOUS
<1>2. Refers(r.op, r.id)
  BY <1>1 DEF SignedInv, Request
<1>3. ReplyTo(r).state # "none"
  BY <1>2, ReplyTyped DEF SignedInv
<1> QED
  BY <1>1, <1>3 DEF NoReply, ErrorReply

\* One step keeps what is known while calls have not overlapped and no restart
\* has set the counter back.
LEMMA SerialInvStep ==
  ASSUME SignedInv, SerialInv, [KrakenNext]_krakenVars
  PROVE  SerialInv'
<1>0. /\ lastNonce \in Nat /\ stamp \in Nat /\ clock \in Nat
      /\ \A c \in Clients : call[c] \in SignedCall
      /\ call \in [Clients -> SignedCall]
      /\ \A c \in Clients : call[c].stamp \in Nat
      /\ wire \subseteq SignedRequest
      /\ \A r \in wire : r.stamp \in Nat
  BY DEF SerialInv, SignedInv, SignedTypeOK, SignedCall, SignedRequest
<1>1. CASE UNCHANGED krakenVars
  BY <1>1 DEF krakenVars, signedVars, krakenHistory, SerialInv, SoleRequest, Undecided
<1>2. ASSUME NEW c \in Clients, NEW op, NEW id, DoPrivate(c, op, id)
      PROVE  SerialInv'
  <2>1. lastNonce' = lastNonce /\ clash' = clash /\ outran' = outran
        /\ wire' = wire /\ stamp' = stamp + 1
    BY <1>2 DEF DoPrivate, Draw, NextNonce
  <2>2. ~interleaved' => ~interleaved /\ wire = {} /\ \A d \in Clients : ~Undecided(d)
    BY <1>2, Zenon DEF DoPrivate
  <2>3. call'[c].stamp = stamp + 1 /\ \A d \in Clients : d # c => call'[d] = call[d]
    BY <1>0, <1>2 DEF DoPrivate, Draw, NextNonce
  <2>4. \A d \in Clients : d # c => (Undecided(d)' <=> Undecided(d))
    BY <2>3 DEF Undecided
  <2>5. ASSUME ~interleaved', ~outran'
        PROVE  lastNonce' <= stamp' /\ SoleRequest' /\ ~clash'
    <3>1. lastNonce <= stamp /\ ~clash
      BY <2>1, <2>2, <2>5 DEF SerialInv
    <3>2. \A d \in Clients : Undecided(d)' => d = c
      BY <2>2, <2>4, <2>5
    <3>3. SoleRequest'
      BY <1>0, <2>1, <2>2, <2>3, <2>5, <3>1, <3>2 DEF SoleRequest
    <3> QED
      BY <1>0, <2>1, <3>1, <3>3
  <2> QED
    BY <1>0, <2>1, <2>5 DEF SerialInv
<1>3. ASSUME NEW c \in Clients, KrakenAnswers(c)
      PROVE  SerialInv'
  <2>1. PICK r : r = Request(c)
    OBVIOUS
  <2>2. /\ Undecided(c) /\ ~Undecided(c)'
        /\ \A d \in Clients : d # c => call'[d] = call[d]
        /\ wire' = wire /\ stamp' = stamp
    BY <1>3, DecidedCall, RepliesDecide DEF KrakenAnswers
  <2>3. interleaved' = interleaved /\ outran' = outran
    BY <1>3 DEF KrakenAnswers, KrakenTakes, KrakenRefuses, krakenHistory
  <2>4. r.stamp = call[c].stamp /\ r.stamp \in Nat
    BY <1>0, <2>1 DEF Request
  <2>5. KrakenTakes(r) \/ KrakenRefuses(r)
    BY <1>3, <2>1 DEF KrakenAnswers
  <2>6. lastNonce' \in Nat
    BY <1>0, <2>4, <2>5 DEF KrakenTakes, KrakenRefuses
  <2>7. ASSUME ~interleaved', ~outran'
        PROVE  lastNonce' <= stamp' /\ SoleRequest' /\ ~clash'
    <3>1. SoleRequest /\ ~clash
      BY <2>3, <2>7 DEF SerialInv
    <3>2. wire = {} /\ r.stamp > lastNonce /\ r.stamp <= stamp
      BY <2>2, <2>4, <3>1 DEF SoleRequest
    <3>3. KrakenTakes(r)
      BY <2>5, <3>2 DEF KrakenRefuses, Fresh
    <3>4. lastNonce' = r.stamp /\ clash' = clash
      BY <3>3 DEF KrakenTakes, krakenHistory
    <3>5. \A d \in Clients : ~Undecided(d)'
      BY <2>2, <3>1 DEF SoleRequest, Undecided
    <3>6. SoleRequest'
      BY <2>2, <3>2, <3>5 DEF SoleRequest
    <3> QED
      BY <2>2, <3>1, <3>2, <3>4, <3>6
  <2> QED
    BY <2>6, <2>7 DEF SerialInv
<1>4. ASSUME NEW r \in wire, ReachesLate(r), KrakenTakes(r) \/ KrakenRefuses(r)
      PROVE  SerialInv'
  <2>1. wire' = wire \ {r} /\ stamp' = stamp /\ call' = call
    BY <1>4 DEF ReachesLate
  <2>2. interleaved' = interleaved /\ outran' = outran
    BY <1>4 DEF KrakenTakes, KrakenRefuses, krakenHistory
  <2>3. lastNonce' \in Nat
    BY <1>0, <1>4 DEF KrakenTakes, KrakenRefuses
  <2>4. ASSUME ~interleaved', ~outran'
        PROVE  lastNonce' <= stamp' /\ SoleRequest' /\ ~clash'
    <3>1. SoleRequest /\ ~clash
      BY <2>2, <2>4 DEF SerialInv
    <3>2. r.stamp > lastNonce /\ r.stamp <= stamp /\ wire' = {}
      BY <2>1, <3>1 DEF SoleRequest
    <3>3. KrakenTakes(r)
      BY <1>4, <3>2 DEF KrakenRefuses, Fresh
    <3>4. lastNonce' = r.stamp /\ clash' = clash
      BY <3>3 DEF KrakenTakes, krakenHistory
    <3>5. \A d \in Clients : ~Undecided(d)'
      BY <2>1, <3>1 DEF SoleRequest, Undecided
    <3>6. SoleRequest'
      BY <3>2, <3>5 DEF SoleRequest
    <3> QED
      BY <2>1, <3>1, <3>2, <3>4, <3>6
  <2> QED
    BY <2>3, <2>4 DEF SerialInv
<1>5. CASE KrakenRestart
  <2>1. /\ lastNonce' = lastNonce /\ clash' = clash /\ interleaved' = interleaved
        /\ stamp' = clock /\ call' = [c \in Clients |-> NoCall]
        /\ wire' = wire \cup {Request(c) : c \in {d \in Clients : Travels(d)}}
    BY <1>5 DEF KrakenRestart, Restart
  <2>2. ~outran' => ~outran /\ ~(stamp > clock)
    BY <1>5, Zenon DEF KrakenRestart
  <2>3. ASSUME ~interleaved', ~outran'
        PROVE  lastNonce' <= stamp' /\ SoleRequest' /\ ~clash'
    <3>1. lastNonce <= stamp /\ SoleRequest /\ ~clash
      BY <2>1, <2>2, <2>3 DEF SerialInv
    <3>2. stamp <= clock
      BY <1>0, <2>2, <2>3
    <3>3. \A d \in Clients : ~Undecided(d)'
      BY <2>1 DEF Undecided
    \* What is on the wire now is what was there, or the one request that was
    \* under way.
    <3>4. \A c \in Clients : Travels(c) => Undecided(c)
      BY DEF Travels
    <3>5. \A c \in Clients : Request(c).stamp = call[c].stamp
      BY DEF Request
    <3>6. \A r \in wire' : r.stamp > lastNonce /\ r.stamp <= stamp
      BY <2>1, <3>1, <3>4, <3>5 DEF SoleRequest
    <3>7. \A r, s \in wire' : r = s
      BY <2>1, <3>1, <3>4 DEF SoleRequest
    <3>8. \A r \in wire' : r.stamp \in Nat
      BY <1>0, <2>1, <3>5
    <3>9. \A r \in wire' : r.stamp > lastNonce' /\ r.stamp <= stamp'
      BY <1>0, <2>1, <3>2, <3>6, <3>8
    <3>10. SoleRequest'
      BY <3>3, <3>7, <3>9 DEF SoleRequest
    <3> QED
      BY <1>0, <2>1, <3>1, <3>2, <3>10
  <2> QED
    BY <1>0, <2>1, <2>3 DEF SerialInv
<1>6. ASSUME UNCHANGED <<lastNonce, krakenHistory, stamp, wire>>,
             \A d \in Clients : Undecided(d)' => Undecided(d) /\ call'[d].stamp = call[d].stamp
      PROVE  SerialInv'
  BY <1>6 DEF krakenHistory, SerialInv, SoleRequest
<1>7. ASSUME NEW c \in Clients, UNCHANGED <<lastNonce, krakenHistory>>, Abandon(c)
      PROVE  SerialInv'
  <2>1. /\ call' = [call EXCEPT ![c] = NoCall] /\ stamp' = stamp
        /\ wire' = IF Travels(c) THEN wire \cup {Request(c)} ELSE wire
    BY <1>7 DEF Abandon, Hang
  <2>2. \A d \in Clients : Undecided(d)' => d # c /\ Undecided(d) /\ call'[d].stamp = call[d].stamp
    BY <1>0, <2>1 DEF Undecided
  <2>3. CASE ~Travels(c)
    BY <1>6, <1>7, <2>1, <2>2, <2>3
  <2>4. CASE Travels(c)
    <3>1. Undecided(c) /\ Request(c).stamp = call[c].stamp
      BY <2>4 DEF Travels, Request
    <3>2. wire' = wire \cup {Request(c)}
      BY <2>1, <2>4
    <3>3. SoleRequest => SoleRequest'
      BY <1>7, <2>1, <2>2, <3>1, <3>2 DEF SoleRequest
    <3> QED
      BY <1>7, <2>1, <3>3 DEF SerialInv, krakenHistory
  <2> QED
    BY <2>3, <2>4
<1>8. ASSUME NEW c \in Clients, UNCHANGED <<lastNonce, krakenHistory>>,
             LimiterRefuses(c) \/ TurnedAway(c) \/ ReadReply(c)
      PROVE  SerialInv'
  <2>1. call' = [call EXCEPT ![c] = NoCall] /\ stamp' = stamp /\ wire' = wire
    BY <1>8 DEF LimiterRefuses, TurnedAway, ReadReply, Hang
  <2>2. \A d \in Clients : Undecided(d)' => Undecided(d) /\ call'[d].stamp = call[d].stamp
    BY <1>0, <2>1 DEF Undecided
  <2> QED
    BY <1>6, <1>8, <2>1, <2>2
<1>9. ASSUME NEW c \in Clients, UNCHANGED <<lastNonce, krakenHistory>>, LimiterAdmits(c)
      PROVE  SerialInv'
  <2>1. call' = [call EXCEPT ![c].sent = TRUE] /\ stamp' = stamp /\ wire' = wire /\ Undecided(c)
    BY <1>9 DEF LimiterAdmits
  <2>2. call'[c].stamp = call[c].stamp /\ \A d \in Clients : d # c => call'[d] = call[d]
    BY <1>0, <2>1 DEF SignedCall
  <2>3. \A d \in Clients : Undecided(d)' => Undecided(d) /\ call'[d].stamp = call[d].stamp
    BY <2>1, <2>2 DEF Undecided
  <2> QED
    BY <1>6, <1>9, <2>1, <2>3
<1>10. ASSUME UNCHANGED <<lastNonce, krakenHistory>>,
              ClockRuns \/ \E o \in DOMAIN listed : VenueMoves(o)
       PROVE  SerialInv'
  <2>1. call' = call /\ stamp' = stamp /\ wire' = wire
    BY <1>10 DEF ClockRuns, VenueMoves
  <2>2. \A d \in Clients : Undecided(d)' => Undecided(d) /\ call'[d].stamp = call[d].stamp
    BY <2>1 DEF Undecided
  <2> QED
    BY <1>6, <1>10, <2>1, <2>2
<1>11. CASE CommonStep /\ UNCHANGED <<lastNonce, krakenHistory>>
  BY <1>7, <1>8, <1>9, <1>10, <1>11 DEF CommonStep
<1> QED
  BY <1>1, <1>2, <1>3, <1>4, <1>5, <1>11
     DEF KrakenNext, KrakenPlaceOrder, KrakenGetFills, KrakenGetBalances, KrakenGetOrder,
         KrakenCancelOrder

\* One private call after the other, also across restarts that do not set the
\* counter back, never meets "invalid nonce".
THEOREM KrakenSerialNonces == KrakenSpec => []SerialNonces
<1>1. KrakenInit => SerialInv
  <2> SUFFICES ASSUME KrakenInit
               PROVE  SerialInv
    OBVIOUS
  <2>1. \A c \in Clients : ~Undecided(c)
    BY DEF KrakenInit, SignedInit, Undecided
  <2> QED
    BY <2>1 DEF KrakenInit, SignedInit, SerialInv, SoleRequest
<1>2. SignedInv /\ SerialInv /\ [KrakenNext]_krakenVars => SerialInv'
  BY SerialInvStep
<1>3. SerialInv => SerialNonces
  BY DEF SerialInv, SerialNonces
<1> QED
  BY <1>1, <1>2, <1>3, KrakenSigned, PTL DEF KrakenSpec

-----------------------------------------------------------------------------
(* The Binance adapter.                                                     *)

LEMMA BinanceStepIsSigned ==
  ASSUME SignedInv, BinanceNext
  PROVE  SignedStep
<1>1. stamp + 1 \in Nat /\ 0 \in Nat /\ DOMAIN listed \subseteq Nat
  BY DEF SignedInv, SignedTypeOK
<1>2. ASSUME NEW c \in Clients, NEW op \in {"place", "read"}, DoSigned(c, op, 0)
      PROVE  SignedStep
  BY <1>1, <1>2 DEF DoSigned, NextTimestamp, Refers, Ops, SignedStep
<1>3. ASSUME NEW c \in Clients, NEW o \in DOMAIN listed, NEW op \in {"order", "cancel"},
             DoSigned(c, op, o)
      PROVE  SignedStep
  BY <1>1, <1>3 DEF DoSigned, NextTimestamp, Refers, Ops, SignedStep
<1>4. ASSUME NEW c \in Clients, BinanceAnswers(c)
      PROVE  SignedStep
  BY <1>4 DEF BinanceAnswers, BinanceTakes, BinanceRefuses, SignedStep
<1>5. ASSUME NEW r \in wire, ReachesLate(r), BinanceTakes(r) \/ BinanceRefuses(r)
      PROVE  SignedStep
  BY <1>5 DEF BinanceTakes, BinanceRefuses, SignedStep
<1>6. CASE BinanceRestart
  BY <1>6 DEF BinanceRestart, SignedStep
<1>7. CASE CommonStep
  BY <1>7 DEF SignedStep
<1> QED
  BY <1>2, <1>3, <1>4, <1>5, <1>6, <1>7
     DEF BinanceNext, BinancePlaceOrder, BinanceGetFills, BinanceGetBalances, BinanceGetOrder,
         BinanceCancelOrder

LEMMA BinanceSigned == BinanceSpec => []SignedInv
<1>1. BinanceInit => SignedInv
  BY SignedInvInit DEF BinanceInit
<1>2. SignedInv /\ [BinanceNext]_binanceVars => SignedInv'
  <2> SUFFICES ASSUME SignedInv, [BinanceNext]_binanceVars
               PROVE  SignedInv'
    OBVIOUS
  <2>1. CASE BinanceNext
    BY <2>1, BinanceStepIsSigned, SignedInvStep
  <2>2. CASE UNCHANGED binanceVars
    BY <2>2 DEF binanceVars, signedVars, SignedInv, SignedTypeOK, Refers, OrderAnswers, StillTrue
  <2> QED
    BY <2>1, <2>2
<1> QED
  BY <1>1, <1>2, PTL DEF BinanceSpec

\* What the Binance adapter reports of an order is true when it is read.
THEOREM BinanceVerdict == BinanceSpec => []BinanceVerdictHolds
<1>1. SignedInv => BinanceVerdictHolds
  <2> SUFFICES ASSUME SignedInv, NEW c \in OrderAnswers
               PROVE  LET order == MapOrderSimple(call[c].ans)
                          status == order.status
                      IN
                      /\ status = "filled" => Now(c).exec = Volume
                      /\ status = "canceled" <=> call[c].ans.state = "canceled"
                      /\ status = "canceled" => Now(c).state = "canceled"
                      /\ status = "partial" => order.filledQty > 0
                      /\ order.filledQty <= Now(c).exec
                      /\ Now(c).state = "open" => status \in {"new", "partial"}
    BY DEF BinanceVerdictHolds
  <2>1. StillTrue(call[c].ans, call[c].id)
    BY DEF SignedInv
  <2>2. PICK ans : ans = call[c].ans
    OBVIOUS
  <2>3. /\ MapOrderSimple(ans).status = BinanceStatus(StatusText(ans))
        /\ MapOrderSimple(ans).filledQty = ans.exec
    BY DEF MapOrderSimple
  <2>4. CASE ans.state = "open"
    <3>1. ans.exec > 0 => StatusText(ans) = "PARTIALLY_FILLED"
      BY <2>1, <2>2, <2>4 DEF StatusText, StillTrue
    <3>2. ~(ans.exec > 0) => StatusText(ans) = "NEW"
      BY <2>1, <2>2, <2>4, SignedAssumption DEF StatusText, StillTrue
    <3>3. BinanceStatus("NEW") = "new" /\ BinanceStatus("PARTIALLY_FILLED") = "partial"
      BY DEF BinanceStatus
    <3> QED
      BY <2>1, <2>2, <2>3, <2>4, <3>1, <3>2, <3>3 DEF StillTrue, Now
  <2>5. CASE ans.state = "closed" /\ ans.exec = Volume
    <3>1. StatusText(ans) = "FILLED"
      BY <2>5 DEF StatusText
    <3>2. BinanceStatus("FILLED") = "filled"
      BY DEF BinanceStatus
    <3> QED
      BY <2>1, <2>2, <2>3, <2>5, <3>1, <3>2 DEF StillTrue, Now
  <2>6. CASE ans.state = "canceled"
    <3>1. StatusText(ans) = "CANCELED"
      BY <2>6 DEF StatusText
    <3>2. BinanceStatus("CANCELED") = "canceled"
      BY DEF BinanceStatus
    <3> QED
      BY <2>1, <2>2, <2>3, <2>6, <3>1, <3>2 DEF StillTrue, Now
  <2>7. CASE ans.state \notin {"open", "canceled"} /\ ~(ans.state = "closed" /\ ans.exec = Volume)
    <3>1. StatusText(ans) = "EXPIRED"
      BY <2>7 DEF StatusText
    <3>2. BinanceStatus("EXPIRED") = "EXPIRED"
      BY DEF BinanceStatus
    <3> QED
      BY <2>1, <2>2, <2>3, <2>7, <3>1, <3>2 DEF StillTrue, Now
  <2> QED
    BY <2>2, <2>4, <2>5, <2>6, <2>7
<1> QED
  BY <1>1, BinanceSigned, PTL

\* What a step does to the timestamps.
LEMMA TimestampInvStep ==
  ASSUME SignedInv, TimestampInv, [BinanceNext]_binanceVars
  PROVE  TimestampInv'
<1>0. /\ drawn \in Nat /\ stamp \in Nat /\ start \in Nat /\ clock \in Nat
      /\ call \in [Clients -> SignedCall]
      /\ \A c \in Clients : call[c] \in SignedCall
      /\ \A c \in Clients : call[c].stamp \in Nat
  BY DEF TimestampInv, SignedInv, SignedTypeOK, SignedCall
<1>1. NoCall.stamp = 0
  BY DEF NoCall
<1>2. ASSUME UNCHANGED <<stamp, start, drawn>>,
             \A c \in Clients : call'[c].stamp = call[c].stamp \/ call'[c] = NoCall
      PROVE  TimestampInv'
  BY <1>0, <1>1, <1>2 DEF TimestampInv
<1>3. CASE UNCHANGED binanceVars
  BY <1>2, <1>3 DEF binanceVars, signedVars
<1>4. ASSUME NEW c \in Clients, NEW op, NEW id, DoSigned(c, op, id)
      PROVE  TimestampInv'
  <2>1. stamp' = stamp + 1 /\ start' = start /\ drawn' = drawn + 1
    BY <1>4 DEF DoSigned, Draw, NextTimestamp
  <2>2. call'[c].stamp = stamp + 1 /\ \A d \in Clients : d # c => call'[d] = call[d]
    BY <1>0, <1>4 DEF DoSigned, Draw, NextTimestamp
  <2>3. \A d \in Clients : call'[d].stamp <= stamp'
    BY <1>0, <2>1, <2>2 DEF TimestampInv
  <2> QED
    BY <1>0, <2>1, <2>3 DEF TimestampInv
<1>5. ASSUME NEW c \in Clients, BinanceAnswers(c)
      PROVE  TimestampInv'
  <2>1. PICK reply : call' = [call EXCEPT ![c].ans = reply]
    BY <1>5 DEF BinanceAnswers, Reaches
  <2>2. stamp' = stamp /\ start' = start /\ drawn' = drawn
    BY <1>5 DEF BinanceAnswers, Reaches
  <2>3. \A d \in Clients : call'[d].stamp = call[d].stamp
    BY <1>0, <2>1 DEF SignedCall
  <2> QED
    BY <1>2, <2>2, <2>3
<1>6. ASSUME NEW r \in wire, ReachesLate(r), UNCHANGED drawn
      PROVE  TimestampInv'
  BY <1>2, <1>6 DEF ReachesLate
<1>7. CASE BinanceRestart
  <2>1. stamp' = clock /\ start' = clock /\ drawn' = 0 /\ call' = [c \in Clients |-> NoCall]
    BY <1>7 DEF BinanceRestart, Restart
  <2> QED
    BY <1>0, <1>1, <2>1 DEF TimestampInv
<1>8. ASSUME NEW c \in Clients, UNCHANGED drawn,
             \/ LimiterRefuses(c) \/ LimiterAdmits(c) \/ Abandon(c)
             \/ TurnedAway(c) \/ ReadReply(c)
      PROVE  TimestampInv'
  <2>1. stamp' = stamp /\ start' = start
    BY <1>8 DEF LimiterRefuses, LimiterAdmits, Abandon, TurnedAway, ReadReply
  <2>2. call' = [call EXCEPT ![c] = NoCall] \/ call' = [call EXCEPT ![c].sent = TRUE]
    BY <1>8 DEF LimiterRefuses, LimiterAdmits, Abandon, TurnedAway, ReadReply, Hang
  <2>3. \A d \in Clients : call'[d].stamp = call[d].stamp \/ call'[d] = NoCall
    BY <1>0, <2>2 DEF SignedCall
  <2> QED
    BY <1>2, <1>8, <2>1, <2>3
<1>9. ASSUME UNCHANGED drawn, ClockRuns \/ \E o \in DOMAIN listed : VenueMoves(o)
      PROVE  TimestampInv'
  <2>1. stamp' = stamp /\ start' = start /\ call' = call
    BY <1>9 DEF ClockRuns, VenueMoves
  <2> QED
    BY <1>2, <1>9, <2>1
<1> QED
  BY <1>3, <1>4, <1>5, <1>6, <1>7, <1>8, <1>9
     DEF BinanceNext, CommonStep, BinancePlaceOrder, BinanceGetFills, BinanceGetBalances,
         BinanceGetOrder, BinanceCancelOrder

\* While a process has been up for longer than recvWindow plus one millisecond
\* per call it made, it is answered with errors only.
THEOREM BinanceBehindIsRefused == BinanceSpec => BehindIsRefused
<1> DEFINE Hopeless == clock - start > RecvWindow + drawn
           Unanswered == \A c \in Clients : Undecided(c) => call'[c].ans \in {NoReply, ErrorReply}
<1>1. BinanceInit => TimestampInv
  <2>1. NoCall.stamp = 0
    BY DEF NoCall
  <2> QED
    BY <2>1 DEF BinanceInit, SignedInit, TimestampInv
<1>2. SignedInv /\ TimestampInv /\ [BinanceNext]_binanceVars => TimestampInv'
  BY TimestampInvStep
<1>3. SignedInv /\ TimestampInv /\ [BinanceNext]_binanceVars
        => [Hopeless => Unanswered]_binanceVars
  <2> SUFFICES ASSUME SignedInv, TimestampInv, BinanceNext, Hopeless,
                      NEW c \in Clients, Undecided(c)
               PROVE  call'[c].ans \in {NoReply, ErrorReply}
    OBVIOUS
  <2>0. /\ drawn \in Nat /\ stamp \in Nat /\ start \in Nat /\ clock \in Nat
        /\ call \in [Clients -> SignedCall]
        /\ \A d \in Clients : call[d] \in SignedCall
        /\ \A d \in Clients : call[d].stamp \in Nat
    BY DEF TimestampInv, SignedInv, SignedTypeOK, SignedCall
  <2>1. call[c].ans = NoReply /\ call[c] # NoCall /\ NoCall.ans = NoReply
    BY DEF Undecided, NoCall
  <2>2. ASSUME NEW d \in Clients, NEW op, NEW id, DoSigned(d, op, id)
        PROVE  call'[c].ans = NoReply
    <3>1. d # c
      BY <2>1, <2>2 DEF DoSigned, Draw
    <3> QED
      BY <2>0, <2>1, <2>2, <3>1 DEF DoSigned, Draw
  <2>3. ASSUME NEW d \in Clients, BinanceAnswers(d)
        PROVE  call'[c].ans \in {NoReply, ErrorReply}
    <3>1. CASE d # c
      <4>1. PICK reply : call' = [call EXCEPT ![d].ans = reply]
        BY <2>3 DEF BinanceAnswers, Reaches
      <4> QED
        BY <2>0, <2>1, <3>1, <4>1
    <3>2. CASE d = c
      <4>1. Request(c).stamp = call[c].stamp /\ call[c].stamp <= start + drawn
        BY DEF Request, TimestampInv
      <4>2. ~InWindow(Request(c))
        <5>1. ~(clock <= call[c].stamp + RecvWindow)
          BY <2>0, <4>1, BinanceAssumption
        <5> QED
          BY <4>1, <5>1 DEF InWindow
      <4>3. call' = [call EXCEPT ![c].ans = ErrorReply]
        BY <2>3, <3>2, <4>2 DEF BinanceAnswers, BinanceTakes, Reaches
      <4> QED
        BY <2>0, <4>3 DEF SignedCall
    <3> QED
      BY <3>1, <3>2
  <2>4. ASSUME NEW r \in wire, ReachesLate(r)
        PROVE  call'[c].ans = NoReply
    BY <2>1, <2>4 DEF ReachesLate
  <2>5. CASE BinanceRestart
    BY <2>1, <2>5 DEF BinanceRestart, Restart
  <2>6. ASSUME NEW d \in Clients,
               \/ LimiterRefuses(d) \/ LimiterAdmits(d) \/ Abandon(d)
               \/ TurnedAway(d) \/ ReadReply(d)
        PROVE  call'[c].ans = NoReply
    <3>1. call' = [call EXCEPT ![d] = NoCall] \/ call' = [call EXCEPT ![d].sent = TRUE]
      BY <2>6 DEF LimiterRefuses, LimiterAdmits, Abandon, TurnedAway, ReadReply, Hang
    <3> QED
      BY <2>0, <2>1, <3>1 DEF SignedCall
  <2>7. ASSUME ClockRuns \/ \E o \in DOMAIN listed : VenueMoves(o)
        PROVE  call'[c].ans = NoReply
    BY <2>1, <2>7 DEF ClockRuns, VenueMoves
  <2> QED
    BY <2>2, <2>3, <2>4, <2>5, <2>6, <2>7
       DEF BinanceNext, CommonStep, BinancePlaceOrder, BinanceGetFills, BinanceGetBalances,
           BinanceGetOrder, BinanceCancelOrder
<1> QED
  BY <1>1, <1>2, <1>3, BinanceSigned, PTL DEF BinanceSpec, BehindIsRefused

=============================================================================
