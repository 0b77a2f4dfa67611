--------------------------- MODULE RestClientProofs ---------------------------
(***************************************************************************)
(* What holds of RestClient for every number of goroutines and attempts    *)
(* and every timeout, wait, margin and token life that RestAssumption      *)
(* admits: no attempt is sent with a bearer that ran out on the way.       *)
(***************************************************************************)
EXTENDS RestClient, TLAPS

(* The longest that n rounds of a request and a wait may take.             *)
Rounds(n) == n * (Timeout + MaxWait)

(* What a caller counts agrees with where it is.                           *)
CountOK(c) ==
  /\ pc[c] \in {"token", "exchange"} => sent[c] = 0 /\ ~last[c]
  /\ pc[c] = "send" => sent[c] <= MaxAttempts /\ (~last[c] => sent[c] < MaxAttempts)
  /\ pc[c] = "flight" /\ ~last[c] => sent[c] <= MaxAttempts
  /\ pc[c] = "wait" => sent[c] < MaxAttempts /\ ~last[c]
  /\ sent[c] = MaxAttempts + 1 => last[c]

(* A dated token is never kept for longer than GitHub honours it.          *)
Dated(t) == t.guessed \/ t.real >= t.left

(* The bearer outlives whatever the request may still have before it.      *)
Budget(c) ==
  \/ bearer[c].guessed
  \/ /\ pc[c] = "send" => bearer[c].real > 0
     /\ pc[c] = "send" /\ ~last[c] =>
          bearer[c].real > Timeout + Rounds(MaxAttempts - 1 - sent[c])
     /\ pc[c] = "flight" /\ ~last[c] =>
          bearer[c].real > timer[c] + Rounds(MaxAttempts - sent[c])
     /\ pc[c] = "wait" =>
          bearer[c].real > timer[c] + Timeout + Rounds(MaxAttempts - 1 - sent[c])

IInv ==
  /\ TypeOK
  /\ Dated(cached)
  /\ \A c \in Callers : CountOK(c) /\ Budget(c)

-----------------------------------------------------------------------------
LEMMA RoundsNat == ASSUME NEW n \in Nat PROVE Rounds(n) \in Nat
<1>1. \A a, b \in Nat : a * b \in Nat
  OBVIOUS
<1> QED
  BY <1>1, RestAssumption DEF Rounds

LEMMA RoundsStep ==
  ASSUME NEW n \in Nat
  PROVE  Rounds(n + 1) = Timeout + MaxWait + Rounds(n)
<1>1. \A a, b \in Nat : (a + 1) * b = b + a * b
  OBVIOUS
<1> QED
  BY <1>1, RestAssumption DEF Rounds

(* The margin covers a request that needs every attempt and every wait.    *)
LEMMA MarginCovers == Margin >= Timeout + Rounds(MaxAttempts - 1)
<1>1. \A m, t, w \in Nat : m > 0 => m * t + (m - 1) * w = t + (m - 1) * (t + w)
  OBVIOUS
<1> QED
  BY <1>1, RestAssumption DEF Rounds

LEMMA GrantedTokens ==
  ASSUME NEW l \in Issued, NEW t \in Granted(l)
  PROVE  t \in Token /\ Dated(t) /\ (t.guessed \/ t.real > Margin)
<1>1. l \in Nat /\ l > Margin /\ l \in 0..Hour /\ Hour \in 0..Hour
  BY RestAssumption
<1>2. CASE t = [left |-> l, real |-> l, guessed |-> FALSE]
  BY <1>1, <1>2 DEF Token, Dated
<1>3. CASE t = [left |-> Hour, real |-> l, guessed |-> TRUE]
  BY <1>1, <1>3 DEF Token, Dated
<1> QED
  BY <1>2, <1>3 DEF Granted

LEMMA AgedToken ==
  ASSUME NEW t \in Token
  PROVE  /\ Aged(t) \in Token
         /\ Aged(t).guessed = t.guessed
         /\ Aged(t).real = Less(t.real)
         /\ Dated(t) => Dated(Aged(t))
<1>1. \A n \in 0..Hour : Less(n) \in 0..Hour
  BY RestAssumption DEF Less
<1>2. \A n, m \in 0..Hour : n >= m => Less(n) >= Less(m)
  BY RestAssumption DEF Less
<1>3. t.left \in 0..Hour /\ t.real \in 0..Hour /\ t.guessed \in BOOLEAN
  BY DEF Token
<1> QED
  BY <1>1, <1>2, <1>3 DEF Aged, Token, Dated

-----------------------------------------------------------------------------
LEMMA InitIInv == Init => IInv
<1> SUFFICES ASSUME Init PROVE IInv
  OBVIOUS
<1>1. NoToken \in Token
  <2>1. 0 \in 0..Hour
    BY RestAssumption
  <2> QED
    BY <2>1 DEF NoToken, Token
<1>2. TypeOK
  <2>1. 0 \in 0..MaxAttempts + 1 /\ 0 \in 0..Timeout + MaxWait
    BY RestAssumption
  <2> QED
    BY <1>1, <2>1 DEF Init, TypeOK
<1>3. Dated(cached)
  BY DEF Init, Dated, NoToken
<1>4. ASSUME NEW c \in Callers PROVE CountOK(c) /\ Budget(c)
  BY RestAssumption DEF Init, CountOK, Budget
<1> QED
  BY <1>2, <1>3, <1>4 DEF IInv

(* A step of one caller leaves the others as they are.                     *)
LEMMA OthersStay ==
  ASSUME IInv, NEW d \in Callers,
         pc'[d] = pc[d], sent'[d] = sent[d], last'[d] = last[d],
         bearer'[d] = bearer[d], timer'[d] = timer[d]
  PROVE  (CountOK(d) /\ Budget(d))'
BY DEF IInv, CountOK, Budget

-----------------------------------------------------------------------------
(* One lemma per action or per kind of action.                             *)

LEMMA CallIInv ==
  ASSUME IInv, NEW c \in Callers, Call(c)
  PROVE  IInv'
<1>1. NoToken \in Token /\ 0 \in 0..MaxAttempts + 1
  BY RestAssumption DEF NoToken, Token
<1>2. TypeOK'
  BY <1>1 DEF IInv, TypeOK, Call
<1>3. Dated(cached)'
  BY DEF IInv, Call, Dated
<1>4. ASSUME NEW d \in Callers PROVE (CountOK(d) /\ Budget(d))'
  <2>1. CASE d = c
    BY <2>1, RestAssumption DEF IInv, TypeOK, Call, CountOK, Budget
  <2>2. CASE d # c
    BY <2>2, OthersStay DEF IInv, TypeOK, Call
  <2> QED
    BY <2>1, <2>2
<1> QED
  BY <1>2, <1>3, <1>4 DEF IInv

LEMMA TakeTokenIInv ==
  ASSUME IInv, NEW c \in Callers, TakeToken(c)
  PROVE  IInv'
<1>1. TypeOK'
  <2>1. Timeout \in 0..Timeout + MaxWait
    BY RestAssumption
  <2> QED
    BY <2>1 DEF IInv, TypeOK, TakeToken
<1>2. Dated(cached)'
  BY DEF IInv, TakeToken, Dated
<1>3. ASSUME NEW d \in Callers PROVE (CountOK(d) /\ Budget(d))'
  <2>1. CASE d # c
    BY <2>1, OthersStay DEF IInv, TypeOK, TakeToken
  <2>2. CASE d = c /\ Usable
    <3>1. /\ pc'[c] = "send" /\ bearer'[c] = cached
          /\ sent'[c] = 0 /\ ~last'[c]
      BY <2>2 DEF IInv, TypeOK, TakeToken, CountOK
    <3>2. cached.guessed \/ cached.real > Margin
      BY <2>2, RestAssumption DEF IInv, TypeOK, Token, Dated, Usable
    <3>3. Rounds(MaxAttempts - 1) \in Nat
      BY RoundsNat, RestAssumption
    <3>4. cached.real \in 0..Hour
      BY DEF IInv, TypeOK, Token
    <3>5. cached.guessed \/ cached.real > Timeout + Rounds(MaxAttempts - 1)
      BY <3>2, <3>3, <3>4, MarginCovers, RestAssumption
    <3>6. cached.guessed \/ cached.real > 0
      BY <3>2, <3>4, RestAssumption
    <3>7. MaxAttempts - 1 - 0 = MaxAttempts - 1
      BY RestAssumption
    <3>8. CountOK(c)'
      BY <3>1, RestAssumption DEF CountOK
    <3>9. Budget(c)'
      BY <3>1, <3>5, <3>6, <3>7 DEF Budget, Rounds
    <3> QED
      BY <2>2, <3>8, <3>9
  <2>3. CASE d = c /\ ~Usable
    BY <2>3, RestAssumption DEF IInv, TypeOK, TakeToken, CountOK, Budget
  <2> QED
    BY <2>1, <2>2, <2>3
<1> QED
  BY <1>1, <1>2, <1>3 DEF IInv

LEMMA ExchangedIInv ==
  ASSUME IInv, NEW c \in Callers, Exchanged(c)
  PROVE  IInv'
<1>a. PICK l \in Issued :
        \E t \in Granted(l) : cached' = t /\ bearer' = [bearer EXCEPT ![c] = t]
  BY DEF Exchanged
<1>1. PICK t \in Granted(l) :
        cached' = t /\ bearer' = [bearer EXCEPT ![c] = t]
  BY <1>a
<1>2. t \in Token /\ Dated(t) /\ (t.guessed \/ t.real > Margin)
  BY <1>1, GrantedTokens
<1>3. TypeOK'
  BY <1>1, <1>2 DEF IInv, TypeOK, Exchanged
<1>4. Dated(cached)'
  BY <1>1, <1>2 DEF Dated
<1>5. ASSUME NEW d \in Callers PROVE (CountOK(d) /\ Budget(d))'
  <2>1. CASE d # c
    BY <1>1, <2>1, OthersStay DEF IInv, TypeOK, Exchanged
  <2>2. CASE d = c
    <3>1. /\ pc'[c] = "send" /\ bearer'[c] = t
          /\ sent'[c] = 0 /\ ~last'[c]
      BY <1>1 DEF IInv, TypeOK, Exchanged, CountOK
    <3>2. Rounds(MaxAttempts - 1) \in Nat
      BY RoundsNat, RestAssumption
    <3>3. t.real \in 0..Hour
      BY <1>2 DEF Token
    <3>4. t.guessed \/ (t.real > Timeout + Rounds(MaxAttempts - 1) /\ t.real > 0)
      BY <1>2, <3>2, <3>3, MarginCovers, RestAssumption
    <3>5. MaxAttempts - 1 - 0 = MaxAttempts - 1
      BY RestAssumption
    <3>6. CountOK(c)'
      BY <3>1, RestAssumption DEF CountOK
    <3>7. Budget(c)'
      BY <3>1, <3>4, <3>5 DEF Budget, Rounds
    <3> QED
      BY <2>2, <3>6, <3>7
  <2> QED
    BY <2>1, <2>2
<1> QED
  BY <1>3, <1>4, <1>5 DEF IInv

(* The actions that only end a request.                                    *)
LEMMA EndsIInv ==
  ASSUME IInv, NEW c \in Callers, NEW how \in {"answered", "failed", "spent"},
         End(c, how), mu' \in {mu, Nobody},
         UNCHANGED <<cached, req, bearer, sent, last, timer>>
  PROVE  IInv'
<1>1. TypeOK'
  BY DEF IInv, TypeOK, End
<1>2. Dated(cached)'
  BY DEF IInv, Dated
<1>3. ASSUME NEW d \in Callers PROVE (CountOK(d) /\ Budget(d))'
  <2>1. CASE d # c
    BY <2>1, OthersStay DEF IInv, TypeOK, End
  <2>2. CASE d = c
    BY <2>2 DEF IInv, TypeOK, End, CountOK, Budget
  <2> QED
    BY <2>1, <2>2
<1> QED
  BY <1>1, <1>2, <1>3 DEF IInv

LEMMA SendIInv ==
  ASSUME IInv, NEW c \in Callers, Send(c)
  PROVE  IInv'
<1>1. sent[c] \in 0..MaxAttempts /\ sent'[c] = sent[c] + 1
  BY RestAssumption DEF IInv, TypeOK, CountOK, Send
<1>2. TypeOK'
  <2>1. Timeout \in 0..Timeout + MaxWait /\ sent[c] + 1 \in 0..MaxAttempts + 1
    BY <1>1, RestAssumption
  <2> QED
    BY <2>1 DEF IInv, TypeOK, Send
<1>3. Dated(cached)'
  BY DEF IInv, Send, Dated
<1>4. ASSUME NEW d \in Callers PROVE (CountOK(d) /\ Budget(d))'
  <2>1. CASE d # c
    BY <2>1, OthersStay DEF IInv, TypeOK, Send
  <2>2. CASE d = c
    <3>1. /\ pc'[c] = "flight" /\ bearer'[c] = bearer[c]
          /\ last'[c] = last[c] /\ timer'[c] = Timeout
      BY DEF IInv, TypeOK, Send
    <3>2. CountOK(c)'
      BY <1>1, <3>1, RestAssumption DEF IInv, TypeOK, CountOK, Send
    <3>3. MaxAttempts - sent'[c] = MaxAttempts - 1 - sent[c]
      BY <1>1, RestAssumption
    <3>4. Budget(c)'
      BY <3>1, <3>3 DEF IInv, Budget, Rounds, Send
    <3> QED
      BY <2>2, <3>2, <3>4
  <2> QED
    BY <2>1, <2>2
<1> QED
  BY <1>2, <1>3, <1>4 DEF IInv

LEMMA LimitedIInv ==
  ASSUME IInv, NEW c \in Callers, Limited(c)
  PROVE  IInv'
<1>1. PICK w \in 0..MaxWait + 1 :
        IF GivesUp(c, w)
        THEN /\ last' = [last EXCEPT ![c] = TRUE]
             /\ pc' = [pc EXCEPT ![c] = "send"]
             /\ UNCHANGED timer
        ELSE /\ timer' = [timer EXCEPT ![c] = w]
             /\ pc' = [pc EXCEPT ![c] = "wait"]
             /\ UNCHANGED last
  BY DEF Limited
<1>2. sent[c] \in 0..MaxAttempts /\ pc[c] = "flight" /\ ~last[c]
  BY RestAssumption DEF IInv, TypeOK, CountOK, Limited
<1>3. TypeOK'
  <2>1. ~GivesUp(c, w) => w \in 0..Timeout + MaxWait
    BY <1>2, RestAssumption DEF GivesUp
  <2> QED
    BY <1>1, <2>1 DEF IInv, TypeOK, Limited
<1>4. Dated(cached)'
  BY DEF IInv, Limited, Dated
<1>5. ASSUME NEW d \in Callers PROVE (CountOK(d) /\ Budget(d))'
  <2>1. CASE d # c
    BY <1>1, <2>1, OthersStay DEF IInv, TypeOK, Limited
  <2>2. CASE d = c
    <3>1. sent'[c] = sent[c] /\ bearer'[c] = bearer[c]
      BY DEF Limited
    <3>2. bearer[c] \in Token /\ bearer[c].real \in 0..Hour /\ timer[c] \in Nat
      BY RestAssumption DEF IInv, TypeOK, Token
    <3>3. Rounds(MaxAttempts - sent[c]) \in Nat
      BY <1>2, RoundsNat, RestAssumption
    <3>4. bearer[c].guessed \/ bearer[c].real > timer[c] + Rounds(MaxAttempts - sent[c])
      BY <1>2 DEF IInv, Budget
    <3>5. CASE GivesUp(c, w)
      <4>1. pc'[c] = "send" /\ last'[c]
        BY <1>1, <3>5 DEF IInv, TypeOK
      <4>2. bearer[c].guessed \/ bearer[c].real > 0
        BY <3>2, <3>3, <3>4, RestAssumption
      <4>3. CountOK(c)'
        BY <1>2, <3>1, <4>1, RestAssumption DEF CountOK
      <4>4. Budget(c)'
        BY <3>1, <4>1, <4>2 DEF Budget
      <4> QED
        BY <2>2, <4>3, <4>4
    <3>6. CASE ~GivesUp(c, w)
      <4>1. pc'[c] = "wait" /\ ~last'[c] /\ timer'[c] = w
        BY <1>1, <1>2, <3>6 DEF IInv, TypeOK
      <4>2. sent[c] < MaxAttempts /\ w <= MaxWait
        BY <1>2, <3>6, RestAssumption DEF GivesUp
      <4>3. Rounds(MaxAttempts - sent[c])
              = Timeout + MaxWait + Rounds(MaxAttempts - 1 - sent[c])
        <5>1. MaxAttempts - 1 - sent[c] \in Nat
          BY <1>2, <4>2, RestAssumption
        <5>2. (MaxAttempts - 1 - sent[c]) + 1 = MaxAttempts - sent[c]
          BY <1>2, RestAssumption
        <5> QED
          BY <5>1, <5>2, RoundsStep
      <4>4. Rounds(MaxAttempts - 1 - sent[c]) \in Nat
        BY <1>2, <4>2, RoundsNat, RestAssumption
      <4>5. bearer[c].guessed
              \/ bearer[c].real > w + Timeout + Rounds(MaxAttempts - 1 - sent[c])
        BY <3>2, <3>4, <4>2, <4>3, <4>4, RestAssumption
      <4>6. CountOK(c)'
        BY <1>2, <3>1, <4>1, <4>2, RestAssumption DEF CountOK
      <4>7. Budget(c)'
        BY <3>1, <4>1, <4>5 DEF Budget, Rounds
      <4> QED
        BY <2>2, <4>6, <4>7
    <3> QED
      BY <3>5, <3>6
  <2> QED
    BY <2>1, <2>2
<1> QED
  BY <1>3, <1>4, <1>5 DEF IInv

LEMMA WaitedIInv ==
  ASSUME IInv, NEW c \in Callers, Waited(c)
  PROVE  IInv'
<1>1. TypeOK'
  BY DEF IInv, TypeOK, Waited, callVars
<1>2. Dated(cached)'
  BY DEF IInv, Waited, Dated
<1>3. ASSUME NEW d \in Callers PROVE (CountOK(d) /\ Budget(d))'
  <2>1. CASE d # c
    BY <2>1, OthersStay DEF IInv, TypeOK, Waited, callVars
  <2>2. CASE d = c
    <3>1. /\ pc'[c] = "send" /\ timer[c] = 0 /\ sent[c] < MaxAttempts /\ ~last[c]
          /\ sent'[c] = sent[c] /\ last'[c] = last[c] /\ bearer'[c] = bearer[c]
      BY DEF IInv, TypeOK, CountOK, Waited, callVars
    <3>2. Rounds(MaxAttempts - 1 - sent[c]) \in Nat
      <4>1. MaxAttempts - 1 - sent[c] \in Nat
        BY <3>1, RestAssumption DEF IInv, TypeOK
      <4> QED
        BY <4>1, RoundsNat
    <3>3. bearer[c].guessed \/
            bearer[c].real > timer[c] + Timeout + Rounds(MaxAttempts - 1 - sent[c])
      BY DEF IInv, Budget, Waited
    <3>4. bearer[c].real \in 0..Hour
      BY DEF IInv, TypeOK, Token
    <3>5. bearer[c].guessed \/
            (/\ bearer[c].real > Timeout + Rounds(MaxAttempts - 1 - sent[c])
             /\ bearer[c].real > 0)
      BY <3>1, <3>2, <3>3, <3>4, RestAssumption
    <3>6. CountOK(c)'
      BY <3>1, RestAssumption DEF IInv, TypeOK, CountOK
    <3>7. Budget(c)'
      BY <3>1, <3>5 DEF Budget, Rounds
    <3> QED
      BY <2>2, <3>6, <3>7
  <2> QED
    BY <2>1, <2>2
<1> QED
  BY <1>1, <1>2, <1>3 DEF IInv

LEMMA TickIInv ==
  ASSUME IInv, Tick
  PROVE  IInv'
<1>1. ASSUME NEW c \in Callers
      PROVE  /\ pc[c] # "send"
             /\ Pending(c) => timer[c] > 0 /\ timer'[c] = timer[c] - 1
             /\ ~Pending(c) => timer'[c] = timer[c]
             /\ timer[c] \in 0..Timeout + MaxWait
  <2>1. timer[c] \in 0..Timeout + MaxWait
    BY DEF IInv, TypeOK
  <2>2. ~Due(c) /\ timer'[c] = IF Pending(c) THEN timer[c] - 1 ELSE timer[c]
    BY DEF Tick
  <2>3. Pending(c) => timer[c] > 0
    BY <2>1, <2>2, RestAssumption DEF Due
  <2> QED
    BY <2>1, <2>2, <2>3 DEF Due
<1>2. ASSUME NEW c \in Callers
      PROVE  /\ bearer[c] \in Token /\ bearer'[c] = Aged(bearer[c])
             /\ bearer'[c] \in Token
             /\ bearer'[c].guessed = bearer[c].guessed
             /\ bearer'[c].real = Less(bearer[c].real)
  BY AgedToken DEF IInv, TypeOK, Tick
<1>3. cached' \in Token /\ Dated(cached)'
  <2>1. cached \in Token /\ Dated(cached) /\ cached' = Aged(cached)
    BY DEF IInv, TypeOK, Tick
  <2>2. Aged(cached) \in Token /\ Dated(Aged(cached))
    BY <2>1, AgedToken
  <2> QED
    BY <2>1, <2>2 DEF Dated
<1>4. TypeOK'
  <2>1. bearer' \in [Callers -> Token]
    <3>1. bearer' = [c \in Callers |-> Aged(bearer[c])]
      BY DEF Tick
    <3> QED
      BY <1>2, <3>1
  <2>2. timer' \in [Callers -> 0..Timeout + MaxWait]
    <3>1. \A c \in Callers : timer'[c] \in 0..Timeout + MaxWait
      BY <1>1, RestAssumption
    <3>2. timer' = [c \in Callers |-> IF Pending(c) THEN timer[c] - 1 ELSE timer[c]]
      BY DEF Tick
    <3> QED
      BY <3>1, <3>2
  <2> QED
    BY <1>3, <2>1, <2>2 DEF IInv, TypeOK, Tick
<1>5. ASSUME NEW c \in Callers PROVE (CountOK(c) /\ Budget(c))'
  <2>1. pc'[c] = pc[c] /\ sent'[c] = sent[c] /\ last'[c] = last[c]
    BY DEF Tick
  <2>a. /\ bearer'[c].guessed = bearer[c].guessed
        /\ bearer'[c].real = Less(bearer[c].real)
        /\ pc'[c] # "send"
    BY <1>1, <1>2, <2>1
  <2>2. CountOK(c)'
    BY <2>1 DEF IInv, CountOK
  <2>3. bearer[c].real \in 0..Hour /\ timer[c] \in Nat
    BY <1>1, <1>2, RestAssumption DEF Token
  <2>4. CASE bearer[c].guessed
    BY <2>a, <2>2, <2>4 DEF Budget
  <2>5. CASE ~bearer[c].guessed /\ pc[c] = "flight" /\ ~last[c]
    <3>1. Rounds(MaxAttempts - sent[c]) \in Nat
      <4>1. MaxAttempts - sent[c] \in Nat
        BY <2>5, RestAssumption DEF IInv, TypeOK, CountOK
      <4> QED
        BY <4>1, RoundsNat
    <3>2. bearer[c].real > timer[c] + Rounds(MaxAttempts - sent[c])
      BY <2>5 DEF IInv, Budget
    <3>3. timer[c] > 0 /\ timer'[c] = timer[c] - 1
      BY <1>1, <2>5 DEF Pending
    <3>4. Less(bearer[c].real) > timer'[c] + Rounds(MaxAttempts - sent[c])
      BY <2>3, <3>1, <3>2, <3>3, RestAssumption DEF Less
    <3> QED
      BY <2>1, <2>2, <2>a, <2>5, <3>4 DEF Budget, Rounds
  <2>6. CASE ~bearer[c].guessed /\ pc[c] = "wait"
    <3>1. Rounds(MaxAttempts - 1 - sent[c]) \in Nat
      <4>1. MaxAttempts - 1 - sent[c] \in Nat
        BY <2>6, RestAssumption DEF IInv, TypeOK, CountOK
      <4> QED
        BY <4>1, RoundsNat
    <3>2. bearer[c].real > timer[c] + Timeout + Rounds(MaxAttempts - 1 - sent[c])
      BY <2>6 DEF IInv, Budget
    <3>3. timer[c] > 0 /\ timer'[c] = timer[c] - 1
      BY <1>1, <2>6 DEF Pending
    <3>4. Less(bearer[c].real) > timer'[c] + Timeout + Rounds(MaxAttempts - 1 - sent[c])
      BY <2>3, <3>1, <3>2, <3>3, RestAssumption DEF Less
    <3> QED
      BY <2>1, <2>2, <2>a, <2>6, <3>4 DEF Budget, Rounds
  <2>7. CASE pc[c] \notin {"flight", "wait"} \/ (pc[c] = "flight" /\ last[c])
    BY <2>1, <2>2, <2>a, <2>7 DEF Budget
  <2> QED
    BY <2>4, <2>5, <2>6, <2>7
<1> QED
  BY <1>3, <1>4, <1>5 DEF IInv

-----------------------------------------------------------------------------
LEMMA NextIInv == IInv /\ [Next]_vars => IInv'
<1> SUFFICES ASSUME IInv, [Next]_vars PROVE IInv'
  OBVIOUS
<1>1. CASE UNCHANGED vars
  BY <1>1 DEF vars, callVars, IInv, TypeOK, Dated, CountOK, Budget
<1>2. CASE Tick
  BY <1>2, TickIInv
<1>3. ASSUME NEW c \in Callers, Call(c) PROVE IInv'
  BY <1>3, CallIInv
<1>4. ASSUME NEW c \in Callers, TakeToken(c) PROVE IInv'
  BY <1>4, TakeTokenIInv
<1>5. ASSUME NEW c \in Callers, Exchanged(c) PROVE IInv'
  BY <1>5, ExchangedIInv
<1>6. ASSUME NEW c \in Callers,
             ExchangeFailed(c) \/ SendSpent(c) \/ Answered(c) \/ Broken(c) \/ Cancelled(c)
      PROVE  IInv'
  BY <1>6, EndsIInv DEF ExchangeFailed, SendSpent, Answered, Broken, Cancelled
<1>7. ASSUME NEW c \in Callers, Send(c) PROVE IInv'
  BY <1>7, SendIInv
<1>8. ASSUME NEW c \in Callers, Limited(c) PROVE IInv'
  BY <1>8, LimitedIInv
<1>9. ASSUME NEW c \in Callers, Waited(c) PROVE IInv'
  BY <1>9, WaitedIInv
<1> QED
  BY <1>1, <1>2, <1>3, <1>4, <1>5, <1>6, <1>7, <1>8, <1>9 DEF Next

(* No request of doWithRetry, first, repeated or last, is sent with a      *)
(* dated token that GitHub no longer honours, whatever the number of       *)
(* callers and attempts, as long as the margin covers the longest request. *)
THEOREM NeverSentLate == Spec => []AttemptsStartInTime
<1>1. IInv => AttemptsStartInTime
  BY DEF IInv, Budget, AttemptsStartInTime
<1> QED
  BY <1>1, InitIInv, NextIInv, PTL DEF Spec

(* doWithRetry sends a request at most once more than maxAttempts times,   *)
(* and that once only when it has given up.                                *)
THEOREM RetriesBounded == Spec => []SentBounded
<1>1. IInv => SentBounded
  <2> SUFFICES ASSUME IInv, NEW c \in Callers
               PROVE  sent[c] <= MaxAttempts + 1 /\ (sent[c] = MaxAttempts + 1 => last[c])
    BY DEF SentBounded
  <2> QED
    BY RestAssumption DEF IInv, TypeOK, CountOK
<1> QED
  BY <1>1, InitIInv, NextIInv, PTL DEF Spec

(* The types hold, of the counted attempts and of the times left too.      *)
THEOREM TypeCorrect == Spec => []TypeOK
<1>1. IInv => TypeOK
  BY DEF IInv
<1> QED
  BY <1>1, InitIInv, NextIInv, PTL DEF Spec

(* Who exchanges a token holds AppAuth's mutex, so that nobody else        *)
(* replaces the one it found too old.                                      *)
Exclusive ==
  \A c \in Callers : pc[c] = "exchange" => mu = c /\ ~(cached.left > Margin)

LEMMA NextExclusive == IInv /\ Exclusive /\ [Next]_vars => Exclusive'
<1> SUFFICES ASSUME IInv, Exclusive, [Next]_vars PROVE Exclusive'
  OBVIOUS
<1>1. pc \in [Callers -> {"idle", "token", "exchange", "send", "flight", "wait"}]
  BY DEF IInv, TypeOK
<1>2. ASSUME NEW c \in Callers, TakeToken(c) PROVE Exclusive'
  <2>1. \A d \in Callers : pc[d] # "exchange"
    BY <1>2, RestAssumption DEF TakeToken, Exclusive
  <2>2. \/ /\ ~(cached.left > Margin) /\ mu' = c /\ pc' = [pc EXCEPT ![c] = "exchange"]
           /\ cached' = cached
        \/ pc' = [pc EXCEPT ![c] = "send"]
    BY <1>2 DEF TakeToken, Usable
  <2> QED BY <1>1, <2>1, <2>2 DEF Exclusive
<1>3. ASSUME NEW c \in Callers, Exchanged(c) \/ ExchangeFailed(c) PROVE Exclusive'
  <2>1. \A d \in Callers : d # c => pc[d] # "exchange"
    BY <1>3 DEF Exchanged, ExchangeFailed, Exclusive
  <2>2. pc' = [pc EXCEPT ![c] = "send"] \/ pc' = [pc EXCEPT ![c] = "idle"]
    BY <1>3 DEF Exchanged, ExchangeFailed, End
  <2> QED BY <1>1, <2>1, <2>2 DEF Exclusive
<1>4. ASSUME NEW c \in Callers,
             \/ Call(c) \/ Send(c) \/ SendSpent(c) \/ Answered(c) \/ Broken(c)
             \/ Limited(c) \/ Waited(c) \/ Cancelled(c)
      PROVE  Exclusive'
  <2>1. UNCHANGED <<cached, mu>>
    BY <1>4 DEF Call, Send, SendSpent, Answered, Broken, Limited, Waited, Cancelled
  <2>2. \E p \in {"token", "flight", "idle", "send", "wait"} : pc' = [pc EXCEPT ![c] = p]
    BY <1>4 DEF Call, Send, SendSpent, Answered, Broken, Limited, Waited, Cancelled, End
  <2> QED BY <1>1, <2>1, <2>2 DEF Exclusive
<1>5. CASE Tick
  <2>1. cached.left \in Nat
    BY RestAssumption DEF IInv, TypeOK, Token
  <2>2. cached'.left = Less(cached.left) /\ pc' = pc /\ mu' = mu
    BY <1>5 DEF Tick, Aged
  <2>3. cached'.left <= cached.left
    BY <2>1, <2>2 DEF Less
  <2>4. cached'.left \in Nat /\ Margin \in Nat
    BY <2>1, <2>2, RestAssumption DEF Less
  <2> QED BY <2>1, <2>2, <2>3, <2>4 DEF Exclusive
<1>6. CASE UNCHANGED vars
  BY <1>6 DEF vars, callVars, Exclusive
<1> QED
  BY <1>2, <1>3, <1>4, <1>5, <1>6 DEF Next

(* However many goroutines wait for AppAuth's mutex, a token is exchanged  *)
(* only while there is none to use.                                        *)
THEOREM NoNeedlessExchange == Spec => []ExchangeOnlyWhenNeeded
<1>1. Init => Exclusive
  BY DEF Init, Exclusive
<1>2. Exclusive => ExchangeOnlyWhenNeeded
  BY DEF Exclusive, ExchangeOnlyWhenNeeded
<1>3. Spec => []IInv
  BY InitIInv, NextIInv, PTL DEF Spec
<1> QED
  BY <1>1, <1>2, <1>3, NextExclusive, PTL DEF Spec

-----------------------------------------------------------------------------
LEMMA NextHeld == IInv /\ Exclusive /\ MutexHeldForExchange /\ [Next]_vars => MutexHeldForExchange'
<1> SUFFICES ASSUME IInv, Exclusive, MutexHeldForExchange, [Next]_vars
             PROVE  MutexHeldForExchange'
  OBVIOUS
<1>1. /\ pc \in [Callers -> {"idle", "token", "exchange", "send", "flight", "wait"}]
      /\ timer \in [Callers -> 0..Timeout + MaxWait]
      /\ mu \in Callers \cup {Nobody}
      /\ Timeout \in Nat
  BY RestAssumption DEF IInv, TypeOK
<1>2. ASSUME NEW c \in Callers, TakeToken(c) PROVE MutexHeldForExchange'
  <2>1. CASE Usable
    BY <1>2, <2>1 DEF TakeToken, MutexHeldForExchange
  <2>2. CASE ~Usable
    <3>1. mu' = c /\ pc'[c] = "exchange" /\ timer'[c] = Timeout
      BY <1>1, <1>2, <2>2 DEF TakeToken
    <3> QED BY <1>1, <3>1 DEF MutexHeldForExchange
  <2> QED BY <2>1, <2>2
<1>3. ASSUME NEW c \in Callers, Exchanged(c) \/ ExchangeFailed(c) PROVE MutexHeldForExchange'
  BY <1>3 DEF Exchanged, ExchangeFailed, MutexHeldForExchange
(* The others hold nothing, and are not the one that does.                 *)
<1>4. ASSUME NEW c \in Callers,
             \/ Call(c) \/ Send(c) \/ SendSpent(c) \/ Answered(c) \/ Broken(c)
             \/ Limited(c) \/ Waited(c) \/ Cancelled(c)
      PROVE  MutexHeldForExchange'
  <2>1. mu' = mu /\ pc[c] # "exchange"
    BY <1>4 DEF Call, Send, SendSpent, Answered, Broken, Limited, Waited, Cancelled
  <2>2. \A d \in Callers \ {c} : pc'[d] = pc[d] /\ timer'[d] = timer[d]
    BY <1>1, <1>4 DEF Call, Send, SendSpent, Answered, Broken, Limited, Waited, Cancelled,
                      End, callVars
  <2> QED BY <1>1, <2>1, <2>2 DEF MutexHeldForExchange
<1>5. CASE Tick
  <2>1. mu' = mu /\ pc' = pc /\ \A c \in Callers : timer'[c] <= timer[c]
    BY <1>1, <1>5 DEF Tick
  <2>2. \A c \in Callers : timer[c] \in Nat /\ timer'[c] \in Int
    BY <1>1, <1>5, RestAssumption DEF Tick
  <2> QED BY <1>1, <2>1, <2>2 DEF MutexHeldForExchange
<1>6. CASE UNCHANGED vars
  BY <1>6 DEF vars, callVars, MutexHeldForExchange
<1> QED
  BY <1>2, <1>3, <1>4, <1>5, <1>6 DEF Next

(* Nobody leaves AppAuth.Token with the mutex: it is held for an exchange  *)
(* under way and no longer than that may take, failed exchanges included.  *)
THEOREM MutexLeft == Spec => []MutexHeldForExchange
<1>1. Init => IInv /\ Exclusive /\ MutexHeldForExchange
  <2>1. Init => Exclusive /\ MutexHeldForExchange
    BY DEF Init, Exclusive, MutexHeldForExchange
  <2> QED BY <2>1, InitIInv
<1> QED
  BY <1>1, NextIInv, NextExclusive, NextHeld, PTL DEF Spec

-----------------------------------------------------------------------------
(* The promise of Lease is kept.                                           *)

(* Who is still to get a bearer has none.                                  *)
EmptyHands == \A c \in Callers : pc[c] \in {"token", "exchange"} => bearer[c] = NoToken

LEMMA NextEmptyHands == IInv /\ EmptyHands /\ [Next]_vars => EmptyHands'
<1> SUFFICES ASSUME IInv, EmptyHands, [Next]_vars PROVE EmptyHands'
  OBVIOUS
<1>1. /\ pc \in [Callers -> {"idle", "token", "exchange", "send", "flight", "wait"}]
      /\ bearer \in [Callers -> Token]
  BY DEF IInv, TypeOK
<1>2. ASSUME NEW c \in Callers, Call(c) PROVE EmptyHands'
  BY <1>1, <1>2 DEF Call, EmptyHands
<1>3. ASSUME NEW c \in Callers, TakeToken(c) PROVE EmptyHands'
  <2>1. \/ pc' = [pc EXCEPT ![c] = "send"] /\ \E t : bearer' = [bearer EXCEPT ![c] = t]
        \/ pc' = [pc EXCEPT ![c] = "exchange"] /\ bearer' = bearer /\ pc[c] = "token"
    BY <1>3 DEF TakeToken
  <2> QED BY <1>1, <2>1 DEF EmptyHands
<1>4. ASSUME NEW c \in Callers, Exchanged(c) PROVE EmptyHands'
  <2>1. pc' = [pc EXCEPT ![c] = "send"] /\ \E t : bearer' = [bearer EXCEPT ![c] = t]
    BY <1>4 DEF Exchanged
  <2> QED BY <1>1, <2>1 DEF EmptyHands
<1>5. ASSUME NEW c \in Callers,
             \/ ExchangeFailed(c) \/ Send(c) \/ SendSpent(c) \/ Answered(c)
             \/ Broken(c) \/ Limited(c) \/ Waited(c) \/ Cancelled(c)
      PROVE  EmptyHands'
  <2>1. bearer' = bearer
    BY <1>5 DEF ExchangeFailed, Send, SendSpent, Answered, Broken, Limited, Waited,
                Cancelled, callVars
  <2>2. \E p \in {"flight", "idle", "send", "wait"} : pc' = [pc EXCEPT ![c] = p]
    BY <1>5 DEF ExchangeFailed, Send, SendSpent, Answered, Broken, Limited, Waited,
                Cancelled, End
  <2> QED BY <1>1, <2>1, <2>2 DEF EmptyHands
<1>6. CASE Tick
  <2>1. Aged(NoToken) = NoToken
    BY DEF Aged, NoToken, Less
  <2> QED BY <1>6, <2>1 DEF Tick, EmptyHands
<1>7. CASE UNCHANGED vars
  BY <1>7 DEF vars, callVars, EmptyHands
<1> QED
  BY <1>2, <1>3, <1>4, <1>5, <1>6, <1>7 DEF Next

LEMMA AgedIsOlder == \A t : Aged(t) = Promise!Older(t)
BY Zenon DEF Aged, Less, Promise!Older

(* Only four kinds of step are of Lease: a call, the two ways to a bearer, *)
(* and an attempt; what brings none of them leaves its state alone.        *)
LEMMA StepLeases ==
  ASSUME IInv, Exclusive, EmptyHands, [Next]_vars
  PROVE  [Promise!LeaseNext]_<<cached, bearer, sent>>
<1>1. /\ sent \in [Callers -> 0..MaxAttempts + 1] /\ MaxAttempts \in Nat
      /\ bearer \in [Callers -> Token]
  BY RestAssumption DEF IInv, TypeOK
<1>2. ASSUME NEW c \in Callers, Call(c) PROVE Promise!LeaseNext
  <2>1. Promise!Begin(c)
    BY <1>2 DEF Call, Promise!Begin
  <2> QED BY <2>1 DEF Promise!LeaseNext
<1>3. ASSUME NEW c \in Callers, TakeToken(c)
      PROVE  Promise!LeaseNext \/ UNCHANGED <<cached, bearer, sent>>
  <2>1. CASE Usable
    <3>1. bearer[c] = NoToken /\ sent[c] = 0
      BY <1>3 DEF TakeToken, EmptyHands, IInv, CountOK
    <3>2. Promise!Borrow(c)
      BY <1>3, <2>1, <3>1 DEF TakeToken, Usable, Promise!Borrow
    <3> QED BY <3>2 DEF Promise!LeaseNext
  <2>2. CASE ~Usable
    BY <1>3, <2>2 DEF TakeToken
  <2> QED BY <2>1, <2>2
<1>4. ASSUME NEW c \in Callers, Exchanged(c) PROVE Promise!LeaseNext
  <2>1. bearer[c] = NoToken /\ sent[c] = 0 /\ ~(cached.left > Margin)
    BY <1>4 DEF Exchanged, EmptyHands, IInv, CountOK, Exclusive
  <2>2. PICK l \in Issued : \E t \in Granted(l) :
          cached' = t /\ bearer' = [bearer EXCEPT ![c] = t]
    BY <1>4 DEF Exchanged
  <2>3. cached' \in Granted(l) /\ bearer' = [bearer EXCEPT ![c] = cached'] /\ sent' = sent
    BY <1>4, <2>2 DEF Exchanged
  <2>4. cached' \in UNION {Granted(k) : k \in Issued}
    BY <2>3
  <2>5. Promise!Renew(c)
    BY <2>1, <2>3, <2>4 DEF Promise!Renew
  <2> QED BY <2>5 DEF Promise!LeaseNext
<1>5. ASSUME NEW c \in Callers, Send(c) PROVE Promise!LeaseNext
  <2>1. bearer[c].guessed \/ bearer[c].real > 0
    BY <1>5 DEF Send, IInv, Budget
  <2>2. sent[c] < MaxAttempts + 1
    BY <1>1, <1>5 DEF Send, IInv, CountOK
  <2>3. Promise!Use(c)
    BY <1>5, <2>1, <2>2 DEF Send, Promise!Use, Promise!Good
  <2> QED BY <2>3 DEF Promise!LeaseNext
<1>6. ASSUME NEW c \in Callers,
             \/ ExchangeFailed(c) \/ SendSpent(c) \/ Answered(c)
             \/ Broken(c) \/ Limited(c) \/ Waited(c) \/ Cancelled(c)
      PROVE  UNCHANGED <<cached, bearer, sent>>
  BY <1>6 DEF ExchangeFailed, SendSpent, Answered, Broken, Limited, Waited, Cancelled,
              callVars
<1>7. CASE Tick
  <2>1. cached' = Promise!Older(cached)
    BY <1>7, AgedIsOlder DEF Tick
  <2>2. bearer' = [c \in Callers |-> Promise!Older(bearer[c])]
    BY <1>7, AgedIsOlder DEF Tick
  <2>3. sent' = sent
    BY <1>7 DEF Tick
  <2> QED BY <2>1, <2>2, <2>3 DEF Promise!LeaseNext, Promise!Pass
<1>8. CASE UNCHANGED vars
  BY <1>8 DEF vars, callVars
<1> QED
  BY <1>2, <1>3, <1>4, <1>5, <1>6, <1>7, <1>8 DEF Next

(* The client with its mutex, timeouts, waits and failed exchanges is the  *)
(* shared lease of Lease, for every number of goroutines and attempts.     *)
THEOREM ClientKeepsLease == Spec => ImplementsLease
<1>1. Init => Exclusive /\ EmptyHands
  BY DEF Init, Exclusive, EmptyHands
<1>2. Init => Promise!LeaseInit
  BY DEF Init, Promise!LeaseInit
<1>3. Spec => []IInv
  BY InitIInv, NextIInv, PTL DEF Spec
<1>4. Spec => [](Exclusive /\ EmptyHands)
  BY <1>1, <1>3, NextExclusive, NextEmptyHands, PTL DEF Spec
<1>5. IInv /\ Exclusive /\ EmptyHands /\ [Next]_vars => [Promise!LeaseNext]_Promise!leaseVars
  BY StepLeases DEF Promise!leaseVars
<1> QED
  BY <1>2, <1>3, <1>4, <1>5, PTL DEF Spec, ImplementsLease, Promise!LeaseSpec
=============================================================================
