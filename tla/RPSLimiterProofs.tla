-------------------------- MODULE RPSLimiterProofs --------------------------
(* The fixed window of the OTC limiter, for every limit, window, back-off   *)
(* and set of callers, and the OTC adapter that uses it.                    *)
EXTENDS OtcDesk, TLAPS

\* The limiter keeps its types, and the count of Wait never passes the limit.
THEOREM RPSTyping == Spec => []TypeOK
<1>1. Init => TypeOK
  BY RPSAssumption DEF Init, TypeOK
<1>2. TypeOK /\ [Next]_vars => TypeOK'
  <2> SUFFICES ASSUME TypeOK, [Next]_vars
               PROVE  TypeOK'
    OBVIOUS
  <2> USE RPSAssumption DEF TypeOK
  <2>1. CASE UNCHANGED vars
    BY <2>1 DEF vars
  <2>2. ASSUME NEW c \in Callers, WaitInBackoff(c)
        PROVE  TypeOK'
    BY <2>2 DEF WaitInBackoff, vars
  <2>3. ASSUME NEW c \in Callers, WaitExhausted(c)
        PROVE  TypeOK'
    BY <2>3 DEF WaitExhausted, RolledCount, RolledAge, WindowOver, observer
  <2>4. ASSUME NEW c \in Callers, WaitAdmitted(c)
        PROVE  TypeOK'
    BY <2>4 DEF WaitAdmitted, CountAdmission, HasRoom, RolledCount, RolledAge,
                WindowOver
  <2>5. ASSUME NEW c \in Callers, Answered(c)
        PROVE  TypeOK'
    BY <2>5 DEF Answered, limiter, observer
  <2>6. ASSUME NEW c \in Callers, RateLimited(c)
        PROVE  TypeOK'
    BY <2>6 DEF RateLimited, Backoff, observer
  <2>7. CASE Tick
    BY <2>7 DEF Tick, Older
  <2>8. CASE StartStopwatch
    BY <2>8 DEF StartStopwatch, limiter
  <2> QED
    BY <2>1, <2>2, <2>3, <2>4, <2>5, <2>6, <2>7, <2>8 DEF Next
<1> QED
  BY <1>1, <1>2, PTL DEF Spec

\* While Wait is in back-off no request is admitted, and only an answer to a
\* request that was in flight already can prolong the back-off.
BackoffRunsOut ==
  cooldown > 0 =>
    /\ \A c \in Callers : pc[c] = "idle" => pc'[c] = "idle"
    /\ cooldown' <= cooldown \/ \E c \in Callers : pc[c] = "sent" /\ pc'[c] = "idle"

\* The safety half of BackoffEnds, for any limit, penalty and number of
\* callers: the requests in flight are used up, and then the back-off is.
THEOREM RPSBackoffIsBounded == Spec => [][BackoffRunsOut]_vars
<1>1. TypeOK /\ [Next]_vars => [BackoffRunsOut]_vars
  <2> SUFFICES ASSUME TypeOK, [Next]_vars, cooldown > 0
               PROVE  /\ \A c \in Callers : pc[c] = "idle" => pc'[c] = "idle"
                      /\ \/ cooldown' <= cooldown
                         \/ \E c \in Callers : pc[c] = "sent" /\ pc'[c] = "idle"
    BY DEF BackoffRunsOut
  <2>0. cooldown \in Nat /\ cooldown <= cooldown /\ pc \in [Callers -> {"idle", "sent"}]
    BY RPSAssumption DEF TypeOK
  <2>1. CASE UNCHANGED vars
    BY <2>0, <2>1 DEF vars
  <2>2. ASSUME NEW c \in Callers, WaitInBackoff(c) \/ WaitExhausted(c) \/ WaitAdmitted(c)
        PROVE  UNCHANGED <<cooldown, pc>>
    BY <2>2 DEF WaitInBackoff, WaitExhausted, WaitAdmitted, InBackoff, vars
  <2>3. ASSUME NEW c \in Callers, Answered(c) \/ RateLimited(c)
        PROVE  pc[c] = "sent" /\ pc' = [pc EXCEPT ![c] = "idle"]
    BY <2>3 DEF Answered, RateLimited
  <2>4. CASE Tick
    BY <2>0, <2>4 DEF Tick
  <2>5. CASE StartStopwatch
    BY <2>0, <2>5 DEF StartStopwatch, limiter
  <2> QED
    BY <2>0, <2>1, <2>2, <2>3, <2>4, <2>5 DEF Next
<1> QED
  BY <1>1, RPSTyping, PTL DEF Spec

\* One step of Wait, do, the clock or the stopwatch keeps BurstInv.
LEMMA BurstInvStep ==
  ASSUME TypeOK, BurstInv, [Next]_vars
  PROVE  BurstInv'
<1> USE RPSAssumption DEF TypeOK, BurstInv
<1>1. CASE UNCHANGED vars
  BY <1>1 DEF vars
<1>2. ASSUME NEW c \in Callers, WaitInBackoff(c)
      PROVE  BurstInv'
  BY <1>2 DEF WaitInBackoff, vars
<1>3. ASSUME NEW c \in Callers, WaitExhausted(c)
      PROVE  BurstInv'
  BY <1>3 DEF WaitExhausted, RolledCount, RolledAge, WindowOver, observer
<1>4. ASSUME NEW c \in Callers, WaitAdmitted(c)
      PROVE  BurstInv'
  <2>1. CASE seenAge < Window
    <3>1. CASE WindowOver
      \* The stopwatch is younger than the window that ends here, so what it
      \* saw is all in the old count; the new window starts from one.
      <4>1. seen <= count
        BY <2>1, <3>1 DEF WindowOver
      <4>2. age' = 0 /\ count' = 1 /\ seen' = seen + 1 /\ seenAge' = seenAge
        BY <1>4, <2>1, <3>1 DEF WaitAdmitted, CountAdmission, RolledCount, RolledAge
      <4> QED
        BY <4>1, <4>2
    <3>2. CASE ~WindowOver
      BY <1>4, <2>1, <3>2 DEF WaitAdmitted, CountAdmission, RolledCount, RolledAge
    <3> QED
      BY <3>1, <3>2
  <2>2. CASE ~(seenAge < Window)
    BY <1>4, <2>2 DEF WaitAdmitted, CountAdmission
  <2> QED
    BY <2>1, <2>2
<1>5. ASSUME NEW c \in Callers, Answered(c)
      PROVE  BurstInv'
  BY <1>5 DEF Answered, limiter, observer
<1>6. ASSUME NEW c \in Callers, RateLimited(c)
      PROVE  BurstInv'
  BY <1>6 DEF RateLimited, observer
<1>7. CASE Tick
  BY <1>7 DEF Tick, Older
<1>8. CASE StartStopwatch
  BY <1>8 DEF StartStopwatch, limiter
<1> QED
  BY <1>1, <1>2, <1>3, <1>4, <1>5, <1>6, <1>7, <1>8 DEF Next

\* In any stretch shorter than a window, Wait admits at most twice the limit.
THEOREM RPSBurstBound == Spec => []BurstBound
<1>1. Init => BurstInv
  BY RPSAssumption DEF Init, BurstInv
<1>2. TypeOK /\ BurstInv /\ [Next]_vars => BurstInv'
  BY BurstInvStep
<1>3. TypeOK /\ BurstInv => BurstBound
  BY RPSAssumption DEF TypeOK, BurstInv, BurstBound
<1> QED
  BY RPSTyping, <1>1, <1>2, <1>3, PTL DEF Spec

\* The OTC adapter uses its limiter as RPSLimiter describes: no order of
\* RFQs, accepts, reads and give-ups reaches the desk past Wait.
THEOREM OtcRefinesLimiter == OtcSpec => Spec
<1>1. OtcInit => Init
  BY DEF OtcInit
<1>2. [OtcNext]_otcVars => [Next]_vars
  <2> SUFFICES ASSUME [OtcNext]_otcVars
               PROVE  [Next]_vars
    OBVIOUS
  <2>1. CASE UNCHANGED otcVars
    BY <2>1 DEF otcVars
  <2>2. ASSUME NEW c \in Callers, NEW k \in ClientIds, PlaceOrder(c, k)
        PROVE  [Next]_vars
    BY <2>2 DEF PlaceOrder, Begin
  <2>3. ASSUME NEW c \in Callers, NEW o \in DOMAIN desk, GetOrder(c, o) \/ CancelOrder(c, o)
        PROVE  [Next]_vars
    BY <2>3 DEF GetOrder, CancelOrder, Begin
  <2>4. ASSUME NEW c \in Callers, GetFills(c) \/ GetBalances(c)
        PROVE  [Next]_vars
    BY <2>4 DEF GetFills, GetBalances, Begin
  <2>5. ASSUME NEW c \in Callers, Refused(c) \/ Sent(c) \/ GiveUp(c) \/ TooMany(c)
        PROVE  [Next]_vars
    BY <2>5 DEF Refused, Sent, GiveUp, TooMany, Next
  <2>6. ASSUME NEW c \in Callers, QuoteRead(c) \/ AcceptRead(c) \/ OtherRead(c) \/ Declines(c)
        PROVE  [Next]_vars
    BY <2>6 DEF QuoteRead, AcceptRead, OtherRead, Declines, HasAnswer, Next
  <2>7. ASSUME NEW c \in Callers, Quotes(c) \/ Accepts(c) \/ Reports(c) \/ Cancels(c)
        PROVE  [Next]_vars
    BY <2>7 DEF Quotes, Accepts, Reports, Cancels
  <2>8. ASSUME NEW a \in strays, AcceptsStray(a)
        PROVE  [Next]_vars
    BY <2>8 DEF AcceptsStray
  <2>9. ASSUME NEW q \in DOMAIN desk, DeskMoves(q)
        PROVE  [Next]_vars
    BY <2>9 DEF DeskMoves
  <2>10. CASE Tick /\ UNCHANGED deskVars
    BY <2>10 DEF Next
  <2> QED
    BY <2>1, <2>2, <2>3, <2>4, <2>5, <2>6, <2>7, <2>8, <2>9, <2>10 DEF OtcNext
<1> QED
  BY <1>1, <1>2, PTL DEF OtcSpec, Spec

\* So the adapter never sends the desk more than twice its limit in a stretch
\* shorter than a window.
THEOREM OtcBurstBound == OtcSpec => []BurstBound
  BY OtcRefinesLimiter, RPSBurstBound, PTL

\* And a 429 from the desk holds the adapter up for as long as answers to its
\* requests in flight keep repeating it, and no longer.
THEOREM OtcBackoffIsBounded == OtcSpec => [][BackoffRunsOut]_vars
  BY OtcRefinesLimiter, RPSBackoffIsBounded, PTL

-----------------------------------------------------------------------------
(* Orders at the desk.  The invariant says what a call in progress knows:   *)
(* the quote a caller accepts was given to the client id it sends along,    *)
(* and an answer describes a trade that has not gone back on it since.      *)

Quote == [key : ClientIds, client : ClientIds \cup {NoKey},
          state : {"quoted", "lapsed", "pending", "completed", "cancelled"},
          settled : BOOLEAN]
Statuses == {"none", "rejected", "quoted", "list", "pending", "completed", "cancelled"}
Answer == [id : Nat, status : Statuses] \cup [id : Nat, status : Statuses, settled : BOOLEAN]
Call == [op : {"none", "rfq", "accept", "order", "cancel", "read"},
         id : Nat, key : ClientIds \cup {NoKey}, ans : Answer]

OtcTypeOK ==
    /\ desk \in Seq(Quote)
    /\ call \in [Callers -> Call]
    /\ strays \subseteq [id : Nat, key : ClientIds]

\* Quote q was given to client id key.
QuotedTo(q, key) == q \in DOMAIN desk /\ desk[q].key = key

\* What a status report says still holds of the trade it is about.
ReportHolds(ans, q) ==
    /\ q \in Trades
    /\ ans.status \in {"pending", "completed", "cancelled"}
    /\ ans.settled \in BOOLEAN
    /\ ans.settled => desk[q].settled
    /\ ans.status \in {"completed", "cancelled"} => desk[q].state = ans.status
    /\ ans.status = "pending" /\ ans.settled => desk[q].state # "cancelled"

CallInv(c) ==
    /\ call[c].ans # NoAnswer => pc[c] = "sent"
    /\ call[c].op = "rfq" => call[c].key \in ClientIds
    /\ call[c].op = "rfq" /\ call[c].ans # NoAnswer =>
          call[c].ans.status = "rejected" \/ QuotedTo(call[c].ans.id, call[c].key)
    /\ call[c].op = "accept" => QuotedTo(call[c].id, call[c].key)
    /\ call[c].op = "accept" /\ call[c].ans # NoAnswer =>
          call[c].ans.id \in Trades /\ QuotedTo(call[c].ans.id, call[c].key)
    /\ call[c].op = "order" /\ call[c].ans # NoAnswer => ReportHolds(call[c].ans, call[c].id)

OtcInv ==
    /\ OtcTypeOK
    /\ \A c \in Callers : CallInv(c)
    /\ \A a \in strays : QuotedTo(a.id, a.key) /\ a.key \in unsure
    /\ \A q \in Trades : desk[q].client = desk[q].key
    /\ OneTradePerOrder
    /\ TradeKnownOrUnsure

\* What no step of the desk takes back.
DeskKeeps ==
    /\ DOMAIN desk \subseteq DOMAIN desk'
    /\ \A q \in DOMAIN desk :
          /\ desk'[q].key = desk[q].key
          /\ q \in Trades => q \in Trades'
          /\ desk[q].settled => desk'[q].settled
          /\ desk[q].state \in {"completed", "cancelled"} => desk'[q].state = desk[q].state
          /\ desk[q].settled /\ desk[q].state # "cancelled" => desk'[q].state # "cancelled"

\* A desk step leaves true what a call that does not move knows.
LEMMA CallKept ==
  ASSUME NEW c \in Callers, CallInv(c), DeskKeeps,
         call'[c] = call[c], pc'[c] = pc[c]
  PROVE  CallInv(c)'
<1>1. ASSUME NEW q, NEW key, QuotedTo(q, key)
      PROVE  QuotedTo(q, key)'
  BY <1>1 DEF QuotedTo, DeskKeeps
<1>2. ASSUME NEW q \in Trades
      PROVE  q \in Trades'
  BY <1>2 DEF DeskKeeps, Trades
<1>3. ASSUME NEW ans, NEW q, ReportHolds(ans, q)
      PROVE  ReportHolds(ans, q)'
  <2>1. q \in DOMAIN desk
    BY <1>3 DEF ReportHolds, Trades
  <2> QED
    BY <1>2, <1>3, <2>1 DEF ReportHolds, DeskKeeps
<1> QED
  BY <1>1, <1>2, <1>3 DEF CallInv

\* An accept that carries the client id of its quote leaves one trade for
\* that id, the one it is answered with.
LEMMA TradeStep ==
  ASSUME OtcInv, NEW q, NEW key, QuotedTo(q, key), Trade(q, key)
  PROVE  /\ desk' \in Seq(Quote)
         /\ DeskKeeps
         /\ \A p \in Trades' : desk'[p].client = desk'[p].key
         /\ OneTradePerOrder'
         /\ Trades' \subseteq Trades \cup {q}
         /\ TradeMade(q, key) \in Trades'
         /\ q \in Trades' \ Trades => TradeMade(q, key) = q
         /\ desk'[TradeMade(q, key)].key = key
<1> USE DEF OtcInv, OtcTypeOK
<1>1. q \in 1..Len(desk) /\ DOMAIN desk = 1..Len(desk) /\ desk[q] \in Quote
  BY DEF QuotedTo
<1>2. key \in ClientIds /\ key # NoKey
  BY <1>1, OtcAssumption DEF QuotedTo, Quote
<1>3. CASE Earlier(key) = {}
  <2>1. PICK s \in {"pending", "completed"} :
              desk' = [desk EXCEPT ![q].client = key, ![q].state = s]
    BY <1>3 DEF Trade
  <2>2. desk[q].state = "quoted"
    BY <1>3 DEF Trade
  <2>3. [desk[q] EXCEPT !.client = key, !.state = s] \in Quote
    BY <1>1, <1>2 DEF Quote
  <2>4. desk' = [desk EXCEPT ![q] = [desk[q] EXCEPT !.client = key, !.state = s]]
    BY <2>1, <1>1
  <2>5. desk' \in Seq(Quote) /\ DOMAIN desk' = DOMAIN desk
    BY <2>3, <2>4, <1>1
  <2>6. /\ desk'[q].client = key /\ desk'[q].state = s
        /\ desk'[q].key = desk[q].key /\ desk'[q].settled = desk[q].settled
    BY <2>4, <1>1 DEF Quote
  <2>7. \A p \in DOMAIN desk : p # q => desk'[p] = desk[p]
    BY <2>4, <1>1
  <2>8. Trades' = Trades \cup {q}
    BY <2>2, <2>5, <2>6, <2>7, <1>1 DEF Trades, Traded
  <2>9. DeskKeeps
    BY <2>2, <2>5, <2>6, <2>7, <2>8 DEF DeskKeeps
  <2>10. desk[q].key = key
    BY DEF QuotedTo
  <2>11. \A p \in Trades : p \in DOMAIN desk /\ desk[p].key # key
    BY <1>2, <1>3 DEF Earlier, Trades
  <2>12. \A p \in Trades' : desk'[p].client = desk'[p].key
    BY <2>6, <2>7, <2>8, <2>10, <2>11
  <2>13. OneTradePerOrder'
    BY <2>6, <2>7, <2>8, <2>10, <2>11 DEF OneTradePerOrder
  <2>14. TradeMade(q, key) = q
    BY <1>3 DEF TradeMade
  <2> QED
    BY <1>1, <2>5, <2>6, <2>8, <2>9, <2>10, <2>12, <2>13, <2>14
<1>4. CASE Earlier(key) # {}
  <2>1. desk' = desk
    BY <1>4 DEF Trade
  <2>2. TradeMade(q, key) \in Earlier(key)
    BY <1>4 DEF TradeMade
  <2>3. TradeMade(q, key) \in Trades /\ desk[TradeMade(q, key)].key = key
    BY <2>2 DEF Earlier
  <2>4. Trades' = Trades
    BY <2>1 DEF Trades, Traded
  <2> QED
    BY <2>1, <2>3, <2>4 DEF DeskKeeps, OneTradePerOrder
<1> QED
  BY <1>3, <1>4

\* A step in which no trade is made: quotes come and lapse, trades move on.
NoNewTrade ==
    /\ desk' \in Seq(Quote)
    /\ DeskKeeps
    /\ Trades' = Trades
    /\ \A q \in Trades : desk'[q].client = desk[q].client

LEMMA DeskUntouched ==
  ASSUME OtcTypeOK, desk' = desk
  PROVE  NoNewTrade
BY DEF OtcTypeOK, NoNewTrade, DeskKeeps, Trades, Traded

\* A new quote is not a trade.
LEMMA QuoteAppended ==
  ASSUME OtcTypeOK, NEW z \in Quote, z.state = "quoted", desk' = Append(desk, z)
  PROVE  NoNewTrade /\ Len(desk) + 1 \in DOMAIN desk' /\ desk'[Len(desk) + 1] = z
<1> USE DEF OtcTypeOK
<1>1. desk' \in Seq(Quote) /\ Len(desk') = Len(desk) + 1 /\ Len(desk) \in Nat
  OBVIOUS
<1>2. DOMAIN desk = 1..Len(desk) /\ DOMAIN desk' = 1..Len(desk) + 1
  BY <1>1
<1>3. \A q \in DOMAIN desk : desk'[q] = desk[q]
  BY <1>2
<1>4. desk'[Len(desk) + 1] = z
  OBVIOUS
<1>5. Trades' = Trades
  BY <1>1, <1>2, <1>3, <1>4 DEF Trades, Traded
<1>6. DeskKeeps
  BY <1>1, <1>2, <1>3, <1>5 DEF DeskKeeps
<1> QED
  BY <1>1, <1>2, <1>3, <1>4, <1>5, <1>6 DEF NoNewTrade, Trades

\* One quote or trade moves on: it lapses, completes, settles or is cancelled.
LEMMA QuoteMoved ==
  ASSUME OtcTypeOK, NEW q \in DOMAIN desk, NEW z \in Quote,
         desk' = [desk EXCEPT ![q] = z],
         z.key = desk[q].key, z.client = desk[q].client,
         \/ desk[q].state = "quoted" /\ z.state = "lapsed" /\ z.settled = desk[q].settled
         \/ desk[q].state = "pending" /\ z.state = "completed" /\ z.settled = desk[q].settled
         \/ z.state = desk[q].state /\ z.settled
         \/ desk[q].state = "pending" /\ z.state = "cancelled" /\ ~desk[q].settled
  PROVE  NoNewTrade
<1> USE DEF OtcTypeOK
<1>1. desk' \in Seq(Quote) /\ DOMAIN desk' = DOMAIN desk
  OBVIOUS
<1>2. desk'[q] = z /\ \A p \in DOMAIN desk : p # q => desk'[p] = desk[p]
  OBVIOUS
<1>3. Trades' = Trades
  BY <1>1, <1>2 DEF Trades, Traded
<1>4. DeskKeeps
  BY <1>1, <1>2, <1>3 DEF DeskKeeps
<1> QED
  BY <1>1, <1>2, <1>3, <1>4 DEF NoNewTrade, Trades

\* What the step of one caller has to show when no trade is made in it.
LEMMA CallerStep ==
  ASSUME OtcInv, NoNewTrade, NEW c \in Callers, NEW x \in Call,
         call' = [call EXCEPT ![c] = x],
         \A d \in Callers : d # c => pc'[d] = pc[d],
         CallInv(c)',
         orders \subseteq orders', unsure \subseteq unsure',
         strays' \subseteq [id : Nat, key : ClientIds],
         \A a \in strays' : QuotedTo(a.id, a.key) /\ a.key \in unsure',
         \A q \in Trades : call[c].op = "accept" /\ call[c].ans.id = q =>
             q \in orders' \/ desk[q].key \in unsure' \/ (x.op = "accept" /\ x.ans.id = q)
  PROVE  OtcInv'
<1> USE DEF OtcInv
<1>1. call' \in [Callers -> Call] /\ call'[c] = x
      /\ \A d \in Callers : d # c => call'[d] = call[d]
  BY DEF OtcTypeOK
<1>2. ASSUME NEW d \in Callers
      PROVE  CallInv(d)'
  <2>1. CASE d = c
    BY <2>1
  <2>2. CASE d # c
    BY <1>1, <2>2, CallKept DEF NoNewTrade
  <2> QED
    BY <2>1, <2>2
<1>3. \A a \in strays' : QuotedTo(a.id, a.key)' /\ a.key \in unsure'
  BY DEF QuotedTo, NoNewTrade, DeskKeeps
<1>4. \A q \in Trades : desk'[q].key = desk[q].key /\ desk'[q].client = desk[q].client
  BY DEF NoNewTrade, DeskKeeps, Trades
<1>5. TradeKnownOrUnsure'
  BY <1>1, <1>4 DEF NoNewTrade, TradeKnownOrUnsure
<1>6. OneTradePerOrder' /\ \A q \in Trades' : desk'[q].client = desk'[q].key
  BY <1>4 DEF NoNewTrade, OneTradePerOrder
<1> QED
  BY <1>1, <1>2, <1>3, <1>5, <1>6 DEF OtcTypeOK, NoNewTrade

LEMMA NoAnswerTyped == NoAnswer \in Answer
<1>1. NoAnswer \in [id : Nat, status : Statuses]
  BY DEF NoAnswer, Statuses
<1> QED
  BY <1>1 DEF Answer

\* A caller that returns: to Idle, having known nothing of a trade or having
\* recorded it, or with the accept that went unanswered in unsure.
LEMMA CallerReturns ==
  ASSUME OtcInv, NEW c \in Callers, desk' = desk,
         call' = [call EXCEPT ![c] = Idle],
         \A d \in Callers : d # c => pc'[d] = pc[d],
         orders \subseteq orders', unsure \subseteq unsure',
         \/ strays' = strays
         \/ /\ strays' = strays \cup {[id |-> call[c].id, key |-> call[c].key]}
            /\ call[c].op = "accept" /\ call[c].key \in unsure',
         \/ call[c].op # "accept"
         \/ call[c].ans = NoAnswer
         \/ call[c].ans.id \in orders'
         \/ call[c].key \in unsure'
  PROVE  OtcInv'
<1>1. Idle \in Call
  BY NoAnswerTyped DEF Idle, Asking, Call
<1>2. NoNewTrade
  BY DeskUntouched DEF OtcInv
<1>3. call'[c] = Idle /\ CallInv(c)'
  BY DEF OtcInv, OtcTypeOK, CallInv, Idle, Asking
<1>4. call[c].op = "accept" => QuotedTo(call[c].id, call[c].key)
  BY DEF OtcInv, CallInv
<1>5. \A q \in DOMAIN desk : desk[q] \in Quote /\ q \in Nat \ {0}
  BY DEF OtcInv, OtcTypeOK
<1>6. strays' \subseteq [id : Nat, key : ClientIds]
  BY <1>4, <1>5 DEF OtcInv, OtcTypeOK, QuotedTo, Quote
<1>7. \A a \in strays' : QuotedTo(a.id, a.key) /\ a.key \in unsure'
  BY <1>4 DEF OtcInv
<1>8. ASSUME NEW q \in Trades, call[c].op = "accept", call[c].ans.id = q
      PROVE  q \in orders' \/ desk[q].key \in unsure'
  <2>1. call[c].ans # NoAnswer
    BY <1>5, <1>8 DEF NoAnswer, Trades
  <2>2. desk[q].key = call[c].key
    BY <1>8, <2>1 DEF OtcInv, CallInv, QuotedTo
  <2> QED
    BY <1>8, <2>1, <2>2
<1> QED
  BY <1>1, <1>2, <1>3, <1>6, <1>7, <1>8, CallerStep

\* A method of the connector begins with a call that has no answer yet.
LEMMA BeginStep ==
  ASSUME OtcInv, NEW c \in Callers,
         NEW op \in {"rfq", "order", "cancel", "read"}, NEW id \in Nat,
         NEW key \in ClientIds \cup {NoKey}, op = "rfq" => key \in ClientIds,
         Begin(c, op, id, key)
  PROVE  OtcInv'
<1> DEFINE x == Asking(op, id, key)
<1>1. x \in Call
  BY NoAnswerTyped DEF Call, Asking
<1>2. call' = [call EXCEPT ![c] = x] /\ call[c] = Idle
  BY DEF Begin
<1>3. NoNewTrade /\ pc' = pc
  BY DeskUntouched DEF OtcInv, Begin, vars
<1>4. call'[c] = x
  BY <1>2 DEF OtcInv, OtcTypeOK
<1>5. CallInv(c)'
  BY <1>4 DEF CallInv, Asking
<1>6. call[c].op # "accept"
  BY <1>2 DEF Idle, Asking
<1>7. orders' = orders /\ unsure' = unsure /\ strays' = strays
  BY DEF Begin
<1> HIDE DEF x
<1>8. strays' \subseteq [id : Nat, key : ClientIds]
  BY <1>7 DEF OtcInv, OtcTypeOK
<1>9. \A a \in strays' : QuotedTo(a.id, a.key) /\ a.key \in unsure'
  BY <1>7 DEF OtcInv
<1> QED
  BY <1>1, <1>2, <1>3, <1>5, <1>6, <1>7, <1>8, <1>9, CallerStep

\* The desk answers the request of a call.
LEMMA ReplyTyped ==
  ASSUME OtcTypeOK, NEW c \in Callers, NEW ans \in Answer, Reply(c, ans)
  PROVE  \E x \in Call : /\ call' = [call EXCEPT ![c] = x]
                         /\ x.op = call[c].op /\ x.id = call[c].id
                         /\ x.key = call[c].key /\ x.ans = ans
<1> DEFINE x == [op |-> call[c].op, id |-> call[c].id, key |-> call[c].key, ans |-> ans]
<1>1. call[c] \in Call
  BY DEF OtcTypeOK
<1>2. x \in Call
  BY <1>1 DEF Call
<1>3. [call[c] EXCEPT !.ans = ans] = x
  BY <1>1 DEF Call
<1>4. call' = [call EXCEPT ![c] = x]
  BY <1>3 DEF Reply
<1> QED
  BY <1>2, <1>4

LEMMA ReportKept ==
  ASSUME DeskKeeps, NEW ans, NEW q, ReportHolds(ans, q)
  PROVE  ReportHolds(ans, q)'
<1>1. q \in DOMAIN desk
  BY DEF ReportHolds, Trades
<1> QED
  BY <1>1 DEF ReportHolds, DeskKeeps

\* An answer to anything but an accept.
LEMMA ReplyStep ==
  ASSUME OtcInv, NoNewTrade, NEW c \in Callers, NEW ans \in Answer,
         OnTheWire(c), Reply(c, ans), UNCHANGED <<vars, strays, orders, unsure>>,
         call[c].op # "accept",
         call[c].op = "rfq" =>
             \/ ans.status = "rejected"
             \/ ans.id \in DOMAIN desk' /\ desk'[ans.id].key = call[c].key,
         call[c].op = "order" => ReportHolds(ans, call[c].id)
  PROVE  OtcInv'
<1>1. PICK x \in Call : /\ call' = [call EXCEPT ![c] = x]
                        /\ x.op = call[c].op /\ x.id = call[c].id
                        /\ x.key = call[c].key /\ x.ans = ans
  BY ReplyTyped DEF OtcInv
<1>2. call'[c] = x
  BY <1>1 DEF OtcInv, OtcTypeOK
<1>3. pc' = pc /\ pc[c] = "sent"
  BY DEF vars, OnTheWire
<1>4. x.op = "order" => ReportHolds(x.ans, x.id)'
  BY <1>1, ReportKept DEF NoNewTrade
<1>5. CallInv(c) /\ call[c].op = "rfq" => call[c].key \in ClientIds
  BY DEF CallInv
<1>6. CallInv(c)'
  BY <1>1, <1>2, <1>3, <1>4, <1>5 DEF CallInv, OtcInv, QuotedTo
<1>7. strays' \subseteq [id : Nat, key : ClientIds]
  BY DEF OtcInv, OtcTypeOK
<1>8. \A a \in strays' : QuotedTo(a.id, a.key) /\ a.key \in unsure'
  BY DEF OtcInv
<1> QED
  BY <1>1, <1>3, <1>6, <1>7, <1>8, CallerStep

\* The desk makes the trade of an accept whose caller waits for it.
LEMMA AcceptsStep ==
  ASSUME OtcInv, NEW c \in Callers, Accepts(c)
  PROVE  OtcInv'
<1> DEFINE q == call[c].id
           key == call[c].key
           t == TradeMade(q, key)
<1>1. QuotedTo(q, key) /\ call[c].op = "accept" /\ call[c].ans = NoAnswer /\ pc[c] = "sent"
  BY DEF OtcInv, CallInv, Accepts, OnTheWire
<1>2. Trade(q, key) /\ Reply(c, [id |-> t, status |-> desk'[t].state])
  BY DEF Accepts
<1>3. pc' = pc /\ strays' = strays /\ orders' = orders /\ unsure' = unsure
  BY DEF Accepts, vars
<1>4. /\ desk' \in Seq(Quote)
      /\ DeskKeeps
      /\ \A p \in Trades' : desk'[p].client = desk'[p].key
      /\ OneTradePerOrder'
      /\ Trades' \subseteq Trades \cup {q}
      /\ t \in Trades'
      /\ q \in Trades' \ Trades => t = q
      /\ desk'[t].key = key
  BY <1>1, <1>2, TradeStep
<1>5. t \in Nat \ {0} /\ t \in DOMAIN desk' /\ desk'[t].state \in Statuses
  <2> SUFFICES ASSUME NEW p \in Trades'
               PROVE  p \in Nat \ {0} /\ p \in DOMAIN desk' /\ desk'[p].state \in Statuses
    BY <1>4
  <2>1. p \in DOMAIN desk' /\ desk'[p].state \notin {"quoted", "lapsed"}
    BY DEF Trades, Traded
  <2>2. p \in Nat \ {0} /\ desk'[p] \in Quote
    BY <1>4, <2>1
  <2> QED
    BY <2>1, <2>2 DEF Quote, Statuses
<1>6. PICK ans : ans = [id |-> t, status |-> desk'[t].state]
  OBVIOUS
<1>7. ans \in Answer /\ ans.id = t
  BY <1>5, <1>6 DEF Answer
<1>8. PICK x \in Call : /\ call' = [call EXCEPT ![c] = x]
                        /\ x.op = call[c].op /\ x.id = call[c].id
                        /\ x.key = call[c].key /\ x.ans = ans
  BY <1>2, <1>6, <1>7, ReplyTyped DEF OtcInv
<1>9. call' \in [Callers -> Call] /\ call'[c] = x
      /\ \A d \in Callers : d # c => call'[d] = call[d]
  BY <1>8 DEF OtcInv, OtcTypeOK
<1> HIDE DEF q, key, t
<1>10. x.op = "accept" /\ x.id = q /\ x.key = key /\ x.ans.id = t
  BY <1>1, <1>7, <1>8 DEF q, key
<1>11. q \in DOMAIN desk' /\ desk'[q].key = key
  BY <1>1, <1>4 DEF QuotedTo, DeskKeeps
<1>12. CallInv(c)'
  BY <1>1, <1>3, <1>4, <1>5, <1>9, <1>10, <1>11 DEF CallInv, QuotedTo
<1>13. ASSUME NEW d \in Callers
       PROVE  CallInv(d)'
  BY <1>3, <1>4, <1>9, <1>12, CallKept DEF OtcInv
<1>14. \A a \in strays' : QuotedTo(a.id, a.key)' /\ a.key \in unsure'
  BY <1>3, <1>4 DEF OtcInv, QuotedTo, DeskKeeps
<1>15. TradeKnownOrUnsure'
  <2> SUFFICES ASSUME NEW p \in Trades'
               PROVE  \/ p \in orders'
                      \/ desk'[p].key \in unsure'
                      \/ \E d \in Callers : call'[d].op = "accept" /\ call'[d].ans.id = p
    BY DEF TradeKnownOrUnsure
  <2>1. CASE p = t
    BY <2>1, <1>9, <1>10
  <2>2. CASE p # t
    <3>1. p \in Trades /\ p \in DOMAIN desk /\ p # 0
      BY <2>2, <1>4 DEF Trades, OtcInv, OtcTypeOK
    <3>2. desk'[p].key = desk[p].key
      BY <3>1, <1>4 DEF DeskKeeps
    <3>3. call[c].ans.id # p
      BY <1>1, <3>1 DEF NoAnswer
    <3> QED
      BY <1>3, <1>9, <3>1, <3>2, <3>3 DEF OtcInv, TradeKnownOrUnsure
  <2> QED
    BY <2>1, <2>2
<1> QED
  BY <1>3, <1>4, <1>9, <1>13, <1>14, <1>15 DEF OtcInv, OtcTypeOK

\* A step that only the desk takes.
LEMMA DeskAloneStep ==
  ASSUME OtcInv, UNCHANGED <<vars, call, orders, unsure>>, strays' \subseteq strays,
         desk' \in Seq(Quote), DeskKeeps, OneTradePerOrder',
         \A q \in Trades' : desk'[q].client = desk'[q].key,
         \A q \in Trades' : q \in Trades \/ desk'[q].key \in unsure
  PROVE  OtcInv'
<1> USE DEF OtcInv
<1>1. pc' = pc /\ call' = call
  BY DEF vars
<1>2. \A c \in Callers : CallInv(c)'
  BY <1>1, CallKept
<1>3. \A a \in strays' : QuotedTo(a.id, a.key)' /\ a.key \in unsure'
  BY DEF QuotedTo, DeskKeeps
<1>4. \A q \in Trades : desk'[q].key = desk[q].key
  BY DEF Trades, DeskKeeps
<1>5. TradeKnownOrUnsure'
  BY <1>4 DEF TradeKnownOrUnsure
<1> QED
  BY <1>2, <1>3, <1>5 DEF OtcTypeOK

LEMMA DeskMovesStep ==
  ASSUME OtcInv, NEW q \in DOMAIN desk, DeskMoves(q)
  PROVE  OtcInv'
<1>1. desk[q] \in Quote
  BY DEF OtcInv, OtcTypeOK
<1>2. PICK z \in Quote :
         /\ desk' = [desk EXCEPT ![q] = z]
         /\ z.key = desk[q].key /\ z.client = desk[q].client
         /\ \/ desk[q].state = "quoted" /\ z.state = "lapsed" /\ z.settled = desk[q].settled
            \/ desk[q].state = "pending" /\ z.state = "completed" /\ z.settled = desk[q].settled
            \/ z.state = desk[q].state /\ z.settled
  <2>1. CASE desk[q].state = "quoted" /\ desk' = [desk EXCEPT ![q].state = "lapsed"]
    <3>1. [desk[q] EXCEPT !.state = "lapsed"] \in Quote
      BY <1>1 DEF Quote
    <3> QED
      BY <2>1, <3>1, <1>1 DEF Quote
  <2>2. CASE desk[q].state = "pending" /\ desk' = [desk EXCEPT ![q].state = "completed"]
    <3>1. [desk[q] EXCEPT !.state = "completed"] \in Quote
      BY <1>1 DEF Quote
    <3> QED
      BY <2>2, <3>1, <1>1 DEF Quote
  <2>3. CASE desk' = [desk EXCEPT ![q].settled = TRUE]
    <3>1. [desk[q] EXCEPT !.settled = TRUE] \in Quote
      BY <1>1 DEF Quote
    <3> QED
      BY <2>3, <3>1, <1>1 DEF Quote
  <2> QED
    BY <2>1, <2>2, <2>3 DEF DeskMoves
<1>3. NoNewTrade
  BY <1>2, QuoteMoved DEF OtcInv
<1>4. \A p \in Trades : desk'[p].key = desk[p].key /\ desk'[p].client = desk[p].client
  BY <1>3 DEF NoNewTrade, DeskKeeps, Trades
<1>5. OneTradePerOrder' /\ \A p \in Trades' : desk'[p].client = desk'[p].key
  BY <1>3, <1>4 DEF OtcInv, NoNewTrade, OneTradePerOrder
<1>6. UNCHANGED <<vars, call, orders, unsure>> /\ strays' = strays
  BY DEF DeskMoves
<1> QED
  BY <1>3, <1>5, <1>6, DeskAloneStep DEF NoNewTrade

LEMMA CancelsStep ==
  ASSUME OtcInv, NEW c \in Callers, Cancels(c)
  PROVE  OtcInv'
<1>1. PICK q : q = call[c].id
  OBVIOUS
<1>2. /\ q \in DOMAIN desk /\ desk[q].state = "pending" /\ ~desk[q].settled
      /\ desk' = [desk EXCEPT ![q].state = "cancelled"]
      /\ Reply(c, [id |-> q, status |-> "cancelled"])
  BY <1>1 DEF Cancels, Trades
<1>3. desk[q] \in Quote /\ q \in Nat
  BY <1>2 DEF OtcInv, OtcTypeOK
<1>4. PICK z \in Quote : z = [desk[q] EXCEPT !.state = "cancelled"]
  BY <1>3 DEF Quote
<1>5. desk' = [desk EXCEPT ![q] = z]
  BY <1>2, <1>4
<1>6. z.key = desk[q].key /\ z.client = desk[q].client /\ z.state = "cancelled"
  BY <1>3, <1>4 DEF Quote
<1>7. NoNewTrade
  BY <1>2, <1>5, <1>6, QuoteMoved DEF OtcInv
<1>8. PICK ans \in Answer : ans = [id |-> q, status |-> "cancelled"]
  BY <1>3 DEF Answer, Statuses
<1>9. OnTheWire(c) /\ call[c].op = "cancel" /\ UNCHANGED <<vars, strays, orders, unsure>>
  BY DEF Cancels
<1> QED
  BY <1>2, <1>7, <1>8, <1>9, ReplyStep

LEMMA QuotesStep ==
  ASSUME OtcInv, NEW c \in Callers, Quotes(c)
  PROVE  OtcInv'
<1>1. /\ OnTheWire(c) /\ call[c].op = "rfq" /\ call[c].key \in ClientIds
      /\ UNCHANGED <<vars, strays, orders, unsure>>
  BY DEF Quotes, OtcInv, CallInv
<1>2. CASE desk' = desk /\ Reply(c, [id |-> 0, status |-> "rejected"])
  <2>1. PICK ans \in Answer : ans = [id |-> 0, status |-> "rejected"]
    BY DEF Answer, Statuses
  <2>2. NoNewTrade
    BY <1>2, DeskUntouched DEF OtcInv
  <2> QED
    BY <1>1, <1>2, <2>1, <2>2, ReplyStep
<1>3. ASSUME desk' = Append(desk, [key |-> call[c].key, client |-> NoKey,
                                   state |-> "quoted", settled |-> FALSE]),
             Reply(c, [id |-> Len(desk) + 1, status |-> "quoted"])
      PROVE  OtcInv'
  <2>1. PICK z \in Quote : z = [key |-> call[c].key, client |-> NoKey,
                                state |-> "quoted", settled |-> FALSE]
    BY <1>1 DEF Quote
  <2>2. /\ NoNewTrade
        /\ Len(desk) + 1 \in DOMAIN desk' /\ desk'[Len(desk) + 1].key = call[c].key
    BY <1>3, <2>1, QuoteAppended DEF OtcInv
  <2>3. PICK ans \in Answer : ans = [id |-> Len(desk) + 1, status |-> "quoted"]
    <3>1. Len(desk) + 1 \in Nat
      BY DEF OtcInv, OtcTypeOK
    <3> QED
      BY <3>1 DEF Answer, Statuses
  <2> QED
    BY <1>1, <1>3, <2>2, <2>3, ReplyStep
<1> QED
  BY <1>2, <1>3 DEF Quotes

LEMMA ReportsStep ==
  ASSUME OtcInv, NEW c \in Callers, Reports(c)
  PROVE  OtcInv'
<1>1. /\ OnTheWire(c) /\ desk' = desk
      /\ UNCHANGED <<vars, strays, orders, unsure>>
  BY DEF Reports
<1>2. NoNewTrade
  BY <1>1, DeskUntouched DEF OtcInv
<1>3. ASSUME call[c].op = "order", call[c].id \in Trades, Reply(c, State(call[c].id))
      PROVE  OtcInv'
  <2>1. PICK q : q = call[c].id
    OBVIOUS
  <2>2. q \in Nat /\ desk[q] \in Quote /\ desk[q].state \notin {"quoted", "lapsed"}
    BY <1>3, <2>1 DEF Trades, Traded, OtcInv, OtcTypeOK
  <2>3. PICK ans : ans = [id |-> q, status |-> desk[q].state, settled |-> desk[q].settled]
    OBVIOUS
  <2>4. desk[q].state \in {"pending", "completed", "cancelled"} /\ desk[q].settled \in BOOLEAN
    BY <2>2 DEF Quote
  <2>5. ans \in Answer
    BY <2>2, <2>3, <2>4 DEF Answer, Statuses
  <2>6. ReportHolds(ans, q)
    BY <1>3, <2>1, <2>3, <2>4 DEF ReportHolds
  <2>7. Reply(c, ans)
    BY <1>3, <2>1, <2>3 DEF State
  <2> QED
    BY <1>1, <1>2, <1>3, <2>1, <2>5, <2>6, <2>7, ReplyStep
<1>4. ASSUME call[c].op = "read", Reply(c, [id |-> 0, status |-> "list"])
      PROVE  OtcInv'
  <2>1. PICK ans \in Answer : ans = [id |-> 0, status |-> "list"]
    BY DEF Answer, Statuses
  <2> QED
    BY <1>1, <1>2, <1>4, <2>1, ReplyStep
<1> QED
  BY <1>3, <1>4 DEF Reports

\* One step of the adapter or of the desk keeps OtcInv.
LEMMA OtcInvStep ==
  ASSUME TypeOK, OtcInv, [OtcNext]_otcVars
  PROVE  OtcInv'
<1>1. CASE UNCHANGED otcVars
  BY <1>1 DEF otcVars, deskVars, vars, OtcInv, OtcTypeOK, CallInv, QuotedTo, ReportHolds,
              OneTradePerOrder, TradeKnownOrUnsure, Trades, Traded
<1>2. ASSUME NEW c \in Callers, NEW k \in ClientIds, PlaceOrder(c, k)
      PROVE  OtcInv'
  BY <1>2, BeginStep DEF PlaceOrder
<1>3. ASSUME NEW c \in Callers, NEW o \in DOMAIN desk, GetOrder(c, o) \/ CancelOrder(c, o)
      PROVE  OtcInv'
  <2>1. o \in Nat
    BY DEF OtcInv, OtcTypeOK
  <2> QED
    BY <1>3, <2>1, BeginStep DEF GetOrder, CancelOrder
<1>4. ASSUME NEW c \in Callers, GetFills(c) \/ GetBalances(c)
      PROVE  OtcInv'
  BY <1>4, BeginStep DEF GetFills, GetBalances
<1>5. ASSUME NEW c \in Callers, Refused(c)
      PROVE  OtcInv'
  \* A caller that asks the limiter holds no answer: pc[c] is not "sent".
  <2>1. pc[c] = "idle" /\ pc' = pc /\ desk' = desk /\ strays' = strays
        /\ orders' = orders /\ unsure' = unsure /\ call' = [call EXCEPT ![c] = Idle]
    BY <1>5 DEF Refused, WaitInBackoff, WaitExhausted, vars
  <2>2. call[c].ans = NoAnswer
    BY <2>1 DEF OtcInv, CallInv
  <2> QED
    BY <2>1, <2>2, CallerReturns
<1>6. ASSUME NEW c \in Callers, Sent(c)
      PROVE  OtcInv'
  <2>1. UNCHANGED deskVars /\ pc' = [pc EXCEPT ![c] = "sent"]
    BY <1>6 DEF Sent, WaitAdmitted
  <2>2. \A d \in Callers : pc[d] = "sent" => pc'[d] = "sent"
    BY <2>1 DEF TypeOK
  <2> QED
    BY <2>1, <2>2 DEF deskVars, OtcInv, OtcTypeOK, CallInv, QuotedTo, ReportHolds,
                      OneTradePerOrder, TradeKnownOrUnsure, Trades, Traded
<1>7. ASSUME NEW c \in Callers, GiveUp(c)
      PROVE  OtcInv'
  <2>1. /\ pc' = [pc EXCEPT ![c] = "idle"] /\ desk' = desk /\ orders' = orders
        /\ call' = [call EXCEPT ![c] = Idle]
        /\ unsure' = IF call[c].op = "accept" THEN unsure \cup {call[c].key} ELSE unsure
        /\ strays' = IF call[c].op = "accept" /\ OnTheWire(c)
                     THEN strays \cup {[id |-> call[c].id, key |-> call[c].key]}
                     ELSE strays
    BY <1>7 DEF GiveUp, Answered
  <2>2. \A d \in Callers : d # c => pc'[d] = pc[d]
    BY <2>1 DEF TypeOK
  <2> QED
    BY <2>1, <2>2, CallerReturns
<1>8. ASSUME NEW c \in Callers, TooMany(c) \/ Declines(c)
      PROVE  OtcInv'
  <2>1. /\ pc' = [pc EXCEPT ![c] = "idle"] /\ desk' = desk /\ strays' = strays
        /\ orders' = orders /\ unsure' = unsure /\ call' = [call EXCEPT ![c] = Idle]
        /\ call[c].ans = NoAnswer
    BY <1>8 DEF TooMany, Declines, RateLimited, Answered, OnTheWire, Finish
  <2>2. \A d \in Callers : d # c => pc'[d] = pc[d]
    BY <2>1 DEF TypeOK
  <2> QED
    BY <2>1, <2>2, CallerReturns
<1>9. ASSUME NEW c \in Callers, AcceptRead(c) \/ OtherRead(c)
      PROVE  OtcInv'
  <2>1. /\ pc' = [pc EXCEPT ![c] = "idle"] /\ desk' = desk /\ strays' = strays
        /\ orders \subseteq orders' /\ unsure' = unsure /\ call' = [call EXCEPT ![c] = Idle]
        /\ call[c].op # "accept" \/ call[c].ans.id \in orders'
    BY <1>9 DEF AcceptRead, OtherRead, HasAnswer, Answered, Record, Finish
  <2>2. \A d \in Callers : d # c => pc'[d] = pc[d]
    BY <2>1 DEF TypeOK
  <2> QED
    BY <2>1, <2>2, CallerReturns
<1>10. ASSUME NEW c \in Callers, QuoteRead(c)
       PROVE  OtcInv'
  <2>1. /\ pc' = [pc EXCEPT ![c] = "idle"] /\ desk' = desk /\ strays' = strays
        /\ orders' = orders /\ unsure' = unsure
        /\ call[c].op = "rfq" /\ call[c].ans # NoAnswer
    BY <1>10 DEF QuoteRead, HasAnswer, Answered
  <2>2. \A d \in Callers : d # c => pc'[d] = pc[d]
    BY <2>1 DEF TypeOK
  <2>3. CASE call[c].ans.status \in {"rejected", "expired"}
    <3>1. call' = [call EXCEPT ![c] = Idle]
      BY <1>10, <2>3 DEF QuoteRead, Finish
    <3> QED
      BY <2>1, <2>2, <3>1, CallerReturns
  <2>4. CASE call[c].ans.status \notin {"rejected", "expired"}
    <3>1. PICK q, key : q = call[c].ans.id /\ key = call[c].key
      OBVIOUS
    <3>2. QuotedTo(q, key)
      BY <2>1, <2>4, <3>1 DEF OtcInv, CallInv
    <3>3. q \in Nat /\ key \in ClientIds
      <4>1. q \in Nat /\ desk[q] \in Quote /\ desk[q].key = key
        BY <3>2 DEF QuotedTo, OtcInv, OtcTypeOK
      <4> QED
        BY <4>1 DEF Quote
    <3>4. PICK x \in Call : x = Asking("accept", q, key)
      BY <3>3, NoAnswerTyped DEF Asking, Call
    <3>5. call' = [call EXCEPT ![c] = x]
      BY <1>10, <2>4, <3>1, <3>4 DEF QuoteRead, AcceptKey
    <3>6. x.op = "accept" /\ x.id = q /\ x.key = key /\ x.ans = NoAnswer
      BY <3>4 DEF Asking
    <3>7. call'[c] = x
      BY <3>5 DEF OtcInv, OtcTypeOK
    <3>8. CallInv(c)'
      BY <2>1, <3>2, <3>6, <3>7 DEF CallInv, QuotedTo
    <3>9. NoNewTrade
      BY <2>1, DeskUntouched DEF OtcInv
    <3>10. strays' \subseteq [id : Nat, key : ClientIds]
      BY <2>1 DEF OtcInv, OtcTypeOK
    <3>11. \A a \in strays' : QuotedTo(a.id, a.key) /\ a.key \in unsure'
      BY <2>1 DEF OtcInv
    <3> QED
      BY <2>1, <2>2, <3>5, <3>8, <3>9, <3>10, <3>11, CallerStep
  <2> QED
    BY <2>3, <2>4
<1>11. ASSUME NEW c \in Callers, Quotes(c) \/ Accepts(c) \/ Reports(c) \/ Cancels(c)
       PROVE  OtcInv'
  BY <1>11, QuotesStep, AcceptsStep, ReportsStep, CancelsStep
<1>12. ASSUME NEW a \in strays, AcceptsStray(a)
       PROVE  OtcInv'
  <2>1. PICK q, key : q = a.id /\ key = a.key
    OBVIOUS
  <2>2. QuotedTo(q, key) /\ key \in unsure /\ Trade(q, key)
    BY <1>12, <2>1 DEF OtcInv, AcceptsStray
  <2>3. /\ desk' \in Seq(Quote) /\ DeskKeeps /\ OneTradePerOrder'
        /\ \A p \in Trades' : desk'[p].client = desk'[p].key
        /\ Trades' \subseteq Trades \cup {q}
    BY <2>2, TradeStep
  <2>4. desk'[q].key = key
    BY <2>2, <2>3 DEF QuotedTo, DeskKeeps
  <2>5. UNCHANGED <<vars, call, orders, unsure>> /\ strays' \subseteq strays
    BY <1>12 DEF AcceptsStray
  <2> QED
    BY <2>2, <2>3, <2>4, <2>5, DeskAloneStep
<1>13. ASSUME NEW q \in DOMAIN desk, DeskMoves(q)
       PROVE  OtcInv'
  BY <1>13, DeskMovesStep
<1>14. CASE Tick /\ UNCHANGED deskVars
  BY <1>14 DEF Tick, deskVars, OtcInv, OtcTypeOK, CallInv, QuotedTo, ReportHolds,
               OneTradePerOrder, TradeKnownOrUnsure, Trades, Traded
<1> QED
  BY <1>1, <1>2, <1>3, <1>4, <1>5, <1>6, <1>7, <1>8, <1>9, <1>10, <1>11, <1>12,
     <1>13, <1>14 DEF OtcNext

LEMMA OtcInvariant == OtcSpec => []OtcInv
<1>1. OtcInit => OtcInv
  <2> SUFFICES ASSUME OtcInit
               PROVE  OtcInv
    OBVIOUS
  <2>1. desk = <<>> /\ strays = {} /\ call = [c \in Callers |-> Idle]
    BY DEF OtcInit
  <2>2. desk \in Seq(Quote) /\ Trades = {}
    BY <2>1 DEF Trades
  <2>3. Idle \in Call
    BY NoAnswerTyped DEF Idle, Asking, Call
  <2>4. \A c \in Callers : CallInv(c)
    BY <2>1 DEF CallInv, Idle, Asking
  <2> QED
    BY <2>1, <2>2, <2>3, <2>4 DEF OtcInv, OtcTypeOK, OneTradePerOrder, TradeKnownOrUnsure
<1>2. TypeOK /\ OtcInv /\ [OtcNext]_otcVars => OtcInv'
  BY OtcInvStep
<1> QED
  BY <1>1, <1>2, OtcRefinesLimiter, RPSTyping, PTL DEF OtcSpec

\* One client_order_id makes one trade, however often PlaceOrder is retried,
\* from however many goroutines, and however late its accepts arrive.
THEOREM OtcOneTrade == OtcSpec => []OneTradePerOrder
  BY OtcInvariant, PTL DEF OtcInv

\* PlaceOrder leaves no trade that its caller has not been told of: as made,
\* or as an accept whose outcome is unknown.
THEOREM OtcTradeKnown == OtcSpec => []TradeKnownOrUnsure
  BY OtcInvariant, PTL DEF OtcInv

\* What GetOrder reports as filled or canceled is final at the desk.
THEOREM OtcFinalStatus == OtcSpec => []FinalStatusHolds
<1>1. OtcInv => FinalStatusHolds
  <2> SUFFICES ASSUME OtcInv, NEW c \in Callers,
                      call[c].op = "order", call[c].ans # NoAnswer
               PROVE  /\ OrderStatus(call[c].ans) = "filled" =>
                            \/ desk[call[c].id].state = "completed"
                            \/ desk[call[c].id].state = "pending" /\ desk[call[c].id].settled
                      /\ OrderStatus(call[c].ans) = "canceled" =>
                            desk[call[c].id].state = "cancelled"
    BY DEF FinalStatusHolds
  <2>1. ReportHolds(call[c].ans, call[c].id)
    BY DEF OtcInv, CallInv
  <2>2. call[c].id \in DOMAIN desk /\ Traded(call[c].id)
    BY <2>1 DEF ReportHolds, Trades
  <2>3. desk[call[c].id] \in Quote
    BY <2>2 DEF OtcInv, OtcTypeOK
  <2>4. desk[call[c].id].state \in {"pending", "completed", "cancelled"}
    BY <2>2, <2>3 DEF Traded, Quote
  <2>5. CASE call[c].ans.status = "pending"
    BY <2>1, <2>4, <2>5 DEF ReportHolds, OrderStatus, StatusOf
  <2>6. CASE call[c].ans.status \in {"completed", "cancelled"}
    BY <2>1, <2>6 DEF ReportHolds, OrderStatus, StatusOf
  <2> QED
    BY <2>1, <2>5, <2>6 DEF ReportHolds
<1> QED
  BY <1>1, OtcInvariant, PTL

=============================================================================
