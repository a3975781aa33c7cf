------------------------ MODULE WeightedLimiterProofs -----------------------
(* The weight limiter of the Binance adapter, for every budget, window,     *)
(* back-off and set of weights.                                             *)
EXTENDS WeightedLimiter, TLAPS

\* The limiter, its callers and the venue keep their types.
THEOREM WeightedTyping == Spec => []TypeOK
<1>1. Init => TypeOK
  <2>1. Init => overlapped \in BOOLEAN
    BY DEF Init
  <2> QED
    BY WeightedAssumption, <2>1 DEF Init, TypeOK, NoHeader
<1>2. TypeOK /\ [Next]_vars => TypeOK'
  <2> SUFFICES ASSUME TypeOK, [Next]_vars
               PROVE  TypeOK'
    OBVIOUS
  <2> USE WeightedAssumption DEF TypeOK, requests, limiter, venue
  <2>1. CASE UNCHANGED vars
    BY <2>1 DEF vars
  <2>2. ASSUME NEW c \in Callers, WaitInBackoff(c)
        PROVE  TypeOK'
    BY <2>2 DEF WaitInBackoff, ReplenishLocked, Replenished, RefillDue, NoteOverlap
  <2>3. ASSUME NEW c \in Callers, NEW w \in Weights, WaitExhausted(c, w)
        PROVE  TypeOK'
    BY <2>3 DEF WaitExhausted, ReplenishLocked, Replenished, RefillDue, NoteOverlap
  <2>4. ASSUME NEW c \in Callers, NEW w \in Weights, WaitAdmitted(c, w)
        PROVE  TypeOK'
    <3>1. w \in Nat
      OBVIOUS
    <3> QED
      BY <2>4, <3>1 DEF WaitAdmitted, Replenished, RefillDue, NoteOverlap
  <2>5. ASSUME NEW c \in Callers, VenueServes(c)
        PROVE  TypeOK'
    BY <2>5 DEF VenueServes, NoHeader
  <2>6. ASSUME NEW c \in Callers, Lost(c)
        PROVE  TypeOK'
    BY <2>6 DEF Lost, DoReturns, NoHeader
  <2>11. ASSUME NEW c \in Callers, GivenUp(c)
         PROVE  TypeOK'
    <3>1. weight[c] \in Weights
      BY <2>11 DEF GivenUp
    <3>2. adrift' \in [Weights -> Nat]
      BY <2>11, <3>1 DEF GivenUp
    <3> QED
      BY <2>11, <3>2 DEF GivenUp, DoReturns, NoHeader
  <2>12. ASSUME NEW w \in Weights, ArrivesLate(w)
         PROVE  TypeOK'
    <3>1. w \in Nat /\ adrift[w] \in Nat /\ adrift[w] > 0
      BY <2>12 DEF ArrivesLate
    <3>2. adrift' \in [Weights -> Nat]
      BY <2>12, <3>1 DEF ArrivesLate
    <3> QED
      BY <2>12, <3>1, <3>2 DEF ArrivesLate, Strays
  <2>13. CASE RefreshSnapshot
    BY <2>13 DEF RefreshSnapshot, Strays
  <2>7. ASSUME NEW c \in Callers, ReadHeader(c)
        PROVE  TypeOK'
    BY <2>7 DEF ReadHeader, UpdatedUsed, NoHeader
  <2>8. ASSUME NEW c \in Callers, ReadStatus(c)
        PROVE  TypeOK'
    BY <2>8 DEF ReadStatus, DoReturns, NoHeader
  <2>9. ASSUME NEW b \in Budgets, SetBudget(b)
        PROVE  TypeOK'
    BY <2>9 DEF SetBudget
  <2>10. CASE Tick
    BY <2>10 DEF Tick
  <2> QED
    BY <2>1, <2>2, <2>3, <2>4, <2>5, <2>6, <2>7, <2>8, <2>9, <2>10, <2>11, <2>12, <2>13 DEF Next
<1> QED
  BY <1>1, <1>2, PTL DEF Spec

\* The step of a call that starts keeps the other calls apart, or notes it.
LEMMA Alone ==
  ASSUME TypeOK, NEW c \in Callers, pc[c] = "idle", NoteOverlap, ~overlapped'
  PROVE  ~overlapped /\ \A d \in Callers : pc[d] = "idle"
  BY DEF TypeOK, NoteOverlap

\* While calls of do do not overlap, a step keeps the counter of Wait ahead of
\* the venue's.
LEMMA SequentialStep ==
  ASSUME TypeOK, SequentialInv, [Next]_vars
  PROVE  SequentialInv'
<1>. SUFFICES ASSUME ~overlapped'
              PROVE  SequentialInv'
  BY DEF SequentialInv
<1> USE WeightedAssumption DEF TypeOK, SequentialInv, requests, limiter, venue
<1>1. CASE UNCHANGED vars
  BY <1>1 DEF vars
<1>2. ASSUME NEW c \in Callers, pc[c] = "idle", ReplenishLocked, NoteOverlap,
             UNCHANGED <<budget, cooldown, requests, venue>>
      PROVE  SequentialInv'
  \* Nothing is in flight when the window is renewed, and a renewed window is
  \* not older than the venue's minute.
  <2>1. ~overlapped /\ \A d \in Callers : pc[d] = "idle" /\ pc'[d] = "idle"
    BY <1>2, Alone
  <2>2. CASE RefillDue
    <3>1. ~(age' > vage')
      BY <1>2, <2>2 DEF ReplenishLocked
    <3> QED
      BY <1>2, <2>1, <3>1
  <2>3. CASE ~RefillDue
    BY <1>2, <2>1, <2>3 DEF ReplenishLocked, Replenished
  <2> QED
    BY <2>2, <2>3
<1>3. ASSUME NEW c \in Callers, WaitInBackoff(c)
      PROVE  SequentialInv'
  BY <1>2, <1>3 DEF WaitInBackoff
<1>4. ASSUME NEW c \in Callers, NEW w \in Weights, WaitExhausted(c, w)
      PROVE  SequentialInv'
  BY <1>2, <1>4 DEF WaitExhausted
<1>5. ASSUME NEW c \in Callers, NEW w \in Weights, WaitAdmitted(c, w)
      PROVE  SequentialInv'
  <2>1. w \in Nat /\ w <= Budget
    BY <1>5 DEF WaitAdmitted, HasRoom, Replenished
  <2>2. /\ ~overlapped
        /\ pc'[c] = "sent" /\ weight'[c] = w
        /\ \A d \in Callers \ {c} : pc'[d] = "idle"
    <3>1. ~overlapped /\ \A d \in Callers : pc[d] = "idle"
      BY <1>5, Alone DEF WaitAdmitted
    <3> QED
      BY <1>5, <3>1 DEF WaitAdmitted
  <2>3. CASE RefillDue
    <3>1. ~(age' > vage') /\ used' = w
      BY <1>5, <2>1, <2>3 DEF WaitAdmitted, Replenished
    <3> QED
      BY <2>1, <2>2, <3>1
  <2>4. CASE ~RefillDue
    <3>1. used' = used + w /\ used + w <= Budget /\ age' = age
          /\ vused' = vused /\ vage' = vage
      BY <1>5, <2>1, <2>4 DEF WaitAdmitted, HasRoom, Replenished
    <3>2. age' > vage' => vused' <= used' + stray' /\ vused' <= Budget + stray'
                          /\ vused' + w <= used' + stray' /\ vused' + w <= Budget + stray'
      BY <1>5, <2>1, <2>2, <3>1 DEF WaitAdmitted
    <3> QED
      BY <2>1, <2>2, <3>1, <3>2
  <2> QED
    BY <2>3, <2>4
<1>6. ASSUME NEW c \in Callers, VenueServes(c)
      PROVE  SequentialInv'
  <2>1. /\ ~overlapped
        /\ pc'[c] = "answered"
        /\ \A d \in Callers \ {c} : pc[d] = "idle" /\ pc'[d] = "idle"
    BY <1>6 DEF VenueServes
  <2>2. vused' = vused + weight[c] /\ age' = age /\ vage' = vage /\ used' = used
        /\ stray' = stray
    BY <1>6 DEF VenueServes
  <2>3. age' > vage' => vused' <= used' + stray' /\ vused' <= Budget + stray'
    BY <1>6, <2>1, <2>2 DEF VenueServes
  <2>4. header'[c] # NoHeader => vused' <= header'[c] + stray'
    <3>1. PICK h \in {NoHeader, vused'} : header' = [header EXCEPT ![c] = h]
      BY <1>6 DEF VenueServes
    <3>2. header'[c] = h
      BY <3>1
    <3> QED
      BY <2>2, <3>1, <3>2
  <2> QED
    BY <2>1, <2>3, <2>4
<1>7. ASSUME NEW c \in Callers, Lost(c) \/ GivenUp(c)
      PROVE  SequentialInv'
  <2>1. ~overlapped /\ \A d \in Callers : pc'[d] = "idle"
    BY <1>7 DEF Lost, GivenUp, DoReturns
  <2> QED
    BY <1>7, <2>1 DEF Lost, GivenUp
<1>12. ASSUME NEW w \in Nat, Strays(w)
       PROVE  SequentialInv'
  BY <1>12 DEF Strays
<1>13. ASSUME NEW w \in Weights, ArrivesLate(w)
       PROVE  SequentialInv'
  BY <1>12, <1>13 DEF ArrivesLate
<1>14. CASE RefreshSnapshot
  BY <1>12, <1>14 DEF RefreshSnapshot
<1>8. ASSUME NEW c \in Callers, ReadHeader(c)
      PROVE  SequentialInv'
  <2>1. /\ ~overlapped
        /\ pc'[c] = "read"
        /\ \A d \in Callers \ {c} : pc'[d] = "idle"
    BY <1>8 DEF ReadHeader
  <2> QED
    BY <1>8, <2>1 DEF ReadHeader, UpdatedUsed
<1>9. ASSUME NEW c \in Callers, ReadStatus(c)
      PROVE  SequentialInv'
  <2>1. ~overlapped /\ \A d \in Callers : pc'[d] = "idle"
    BY <1>9 DEF ReadStatus, DoReturns
  <2> QED
    BY <1>9, <2>1 DEF ReadStatus
<1>10. ASSUME NEW b \in Budgets, SetBudget(b)
       PROVE  SequentialInv'
  BY <1>10 DEF SetBudget
<1>11. CASE Tick
  <2>1. CASE vage + 1 = Refill
    <3>1. vused' = 0 /\ stray' = 0 /\ vage' = 0 /\ used' = used /\ pc' = pc /\ weight' = weight
          /\ header' = header /\ ~overlapped
      BY <1>11, <2>1 DEF Tick
    <3> QED
      BY <3>1
  <2>2. CASE vage + 1 # Refill
    <3>1. vused' = vused /\ stray' = stray /\ used' = used /\ pc' = pc /\ weight' = weight
          /\ header' = header /\ ~overlapped
      BY <1>11, <2>2 DEF Tick
    <3>2. age' > vage' => age > vage
      BY <1>11, <2>2 DEF Tick
    <3> QED
      BY <3>1, <3>2
  <2> QED
    BY <2>1, <2>2
<1> QED
  BY <1>1, <1>3, <1>4, <1>5, <1>6, <1>7, <1>8, <1>9, <1>10, <1>11, <1>13, <1>14 DEF Next

\* Calls of do that do not overlap take the venue over its limit only by what
\* reaches it past the limiter, as long as the limiter's window is older than
\* the venue's minute.
THEOREM WeightedSequential == Spec => []SequentialWithinLimit
<1>1. Init => SequentialInv
  BY WeightedAssumption DEF Init, SequentialInv
<1>2. TypeOK /\ SequentialInv /\ [Next]_vars => SequentialInv'
  BY SequentialStep
<1>3. SequentialInv => SequentialWithinLimit
  BY DEF SequentialInv, SequentialWithinLimit
<1> QED
  BY WeightedTyping, <1>1, <1>2, <1>3, PTL DEF Spec

\* Wait refuses every request, whatever its weight.
Refusing == cooldown > 0 \/ ~(Replenished < budget)

\* How far the call of c is from its end.
StepsToEnd(c) ==
  IF pc[c] = "idle" THEN 0
  ELSE IF pc[c] = "read" THEN 1
  ELSE IF pc[c] = "answered" THEN 2 ELSE 3

\* While Wait refuses every request, the calls under way only come nearer to
\* their end, and a step that is none of theirs raises neither the back-off
\* nor the used weight, and makes the window younger only by renewing it.
RefusalRunsOut ==
  Refusing =>
    /\ \A c \in Callers : StepsToEnd(c)' <= StepsToEnd(c)
    /\ \/ \E c \in Callers : StepsToEnd(c)' < StepsToEnd(c)
       \/ /\ cooldown' <= cooldown
          /\ used' <= used
          /\ age' >= age \/ used' = 0

\* The safety half of BudgetRecovers: headers above the budget, 429s and
\* changes of the budget keep Wait refusing only as long as answers to requests
\* admitted before are outstanding.
THEOREM WeightedRefusalIsBounded == Spec => [][RefusalRunsOut]_vars
<1>1. TypeOK /\ [Next]_vars => [RefusalRunsOut]_vars
  <2> SUFFICES ASSUME TypeOK, [Next]_vars, Refusing
               PROVE  /\ \A c \in Callers : StepsToEnd(c)' <= StepsToEnd(c)
                      /\ \/ \E c \in Callers : StepsToEnd(c)' < StepsToEnd(c)
                         \/ /\ cooldown' <= cooldown
                            /\ used' <= used
                            /\ age' >= age \/ used' = 0
    BY DEF RefusalRunsOut
  <2>0. /\ used \in Nat /\ age \in Nat /\ cooldown \in Nat /\ budget \in Nat
        /\ Weights \subseteq Nat \ {0} /\ Refill \in Nat
        /\ pc \in [Callers -> {"idle", "sent", "answered", "read"}]
    BY WeightedAssumption DEF TypeOK
  <2>1. ASSUME pc' = pc
        PROVE  \A c \in Callers : StepsToEnd(c)' <= StepsToEnd(c)
    BY <2>0, <2>1 DEF StepsToEnd
  <2>2. ASSUME NEW c \in Callers, pc[c] # "idle", NEW to \in {"idle", "read", "answered"},
               pc' = [pc EXCEPT ![c] = to],
               pc[c] = "read" => to = "idle", pc[c] = "answered" => to # "answered"
        PROVE  /\ \A d \in Callers : StepsToEnd(d)' <= StepsToEnd(d)
               /\ \E d \in Callers : StepsToEnd(d)' < StepsToEnd(d)
    <3>1. StepsToEnd(c)' < StepsToEnd(c)
      BY <2>0, <2>2 DEF StepsToEnd
    <3>2. ASSUME NEW d \in Callers, d # c
          PROVE  StepsToEnd(d)' <= StepsToEnd(d)
      BY <2>0, <2>2, <3>2 DEF StepsToEnd
    <3>3. StepsToEnd(c)' <= StepsToEnd(c)
      BY <2>0, <2>2 DEF StepsToEnd
    <3> QED
      BY <3>1, <3>2, <3>3
  <2>3. ASSUME NEW c \in Callers, WaitInBackoff(c)
        PROVE  pc' = pc /\ cooldown' <= cooldown /\ used' <= used /\ (age' >= age \/ used' = 0)
    BY <2>0, <2>3 DEF WaitInBackoff, ReplenishLocked, Replenished, RefillDue, requests
  <2>4. ASSUME NEW c \in Callers, NEW w \in Weights, WaitExhausted(c, w)
        PROVE  pc' = pc /\ cooldown' <= cooldown /\ used' <= used /\ (age' >= age \/ used' = 0)
    BY <2>0, <2>4 DEF WaitExhausted, ReplenishLocked, Replenished, RefillDue, requests
  <2>5. ASSUME NEW c \in Callers, NEW w \in Weights, WaitAdmitted(c, w)
        PROVE  FALSE
    <3>1. ~(cooldown > 0) /\ Replenished + w <= budget
      BY <2>5 DEF WaitAdmitted, InBackoff, HasRoom
    <3>2. Replenished \in Nat /\ w \in Nat /\ w # 0
      BY <2>0 DEF Replenished
    <3>3. Replenished < budget
      BY <2>0, <3>1, <3>2
    <3> QED
      BY <3>1, <3>3 DEF Refusing
  <2>6. ASSUME NEW c \in Callers, VenueServes(c)
        PROVE  pc[c] = "sent" /\ pc' = [pc EXCEPT ![c] = "answered"]
    BY <2>6 DEF VenueServes
  <2>7. ASSUME NEW c \in Callers, Lost(c) \/ GivenUp(c)
        PROVE  pc[c] \in {"sent", "answered"} /\ pc' = [pc EXCEPT ![c] = "idle"]
    BY <2>7 DEF Lost, GivenUp, DoReturns
  <2>8. ASSUME NEW c \in Callers, ReadHeader(c)
        PROVE  pc[c] = "answered" /\ pc' = [pc EXCEPT ![c] = "read"]
    BY <2>8 DEF ReadHeader
  <2>9. ASSUME NEW c \in Callers, ReadStatus(c)
        PROVE  pc[c] = "read" /\ pc' = [pc EXCEPT ![c] = "idle"]
    BY <2>9 DEF ReadStatus, DoReturns
  <2>10. ASSUME NEW c \in Callers,
               VenueServes(c) \/ Lost(c) \/ GivenUp(c) \/ ReadHeader(c) \/ ReadStatus(c)
         PROVE  /\ \A d \in Callers : StepsToEnd(d)' <= StepsToEnd(d)
                /\ \E d \in Callers : StepsToEnd(d)' < StepsToEnd(d)
    <3>1. CASE VenueServes(c)
      BY <2>2, <2>6, <3>1
    <3>2. CASE Lost(c) \/ GivenUp(c)
      BY <2>2, <2>7, <3>2
    <3>3. CASE ReadHeader(c)
      BY <2>2, <2>8, <3>3
    <3>4. CASE ReadStatus(c)
      BY <2>2, <2>9, <3>4
    <3> QED
      BY <2>10, <3>1, <3>2, <3>3, <3>4
  <2>11. ASSUME NEW b \in Budgets, SetBudget(b)
         PROVE  pc' = pc /\ cooldown' <= cooldown /\ used' <= used /\ (age' >= age \/ used' = 0)
    BY <2>0, <2>11 DEF SetBudget, requests
  <2>14. ASSUME (\E w \in Weights : ArrivesLate(w)) \/ RefreshSnapshot
         PROVE  pc' = pc /\ cooldown' <= cooldown /\ used' <= used /\ (age' >= age \/ used' = 0)
    BY <2>0, <2>14 DEF ArrivesLate, RefreshSnapshot, Strays, limiter, requests
  <2>12. CASE Tick
    <3>1. pc' = pc /\ cooldown' <= cooldown /\ used' <= used /\ (age' >= age \/ used' = 0)
      BY <2>0, <2>12 DEF Tick, requests
    <3> QED
      BY <2>1, <3>1
  <2>13. CASE UNCHANGED vars
    <3>1. pc' = pc /\ cooldown' <= cooldown /\ used' <= used /\ (age' >= age \/ used' = 0)
      BY <2>0, <2>13 DEF vars
    <3> QED
      BY <2>1, <3>1
  <2> QED
    BY <2>1, <2>3, <2>4, <2>5, <2>10, <2>11, <2>12, <2>13, <2>14 DEF Next
<1> QED
  BY <1>1, WeightedTyping, PTL DEF Spec

=============================================================================
