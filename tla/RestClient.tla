------------------------------- MODULE RestClient -------------------------------
(***************************************************************************)
(* ghclient.Client and its token provider AppAuth: goroutines that share   *)
(* one client send requests.  A request fetches a bearer token once, from  *)
(* a cache behind a mutex that is held while a new token is exchanged, and *)
(* is then repeated under GitHub's rate limit with that same bearer.       *)
(*                                                                         *)
(* Time is counted down: a token has so much time left, a pending exchange,*)
(* request or wait so much time at most.  What the program computes between*)
(* two of those takes no time.                                             *)
(***************************************************************************)
EXTENDS Integers

CONSTANTS
  Callers,       \* the goroutines
  Nobody,
  MaxAttempts,   \* doWithRetry's maxAttempts (4)
  Timeout,       \* of the HTTP clients (30 s)
  MaxWait,       \* the longest wait doWithRetry accepts (60 s)
  Margin,        \* appTokenRefreshMargin (5 min)
  Hour,          \* the life AppAuth assumes when the response has no date
  Issued         \* the lives GitHub gives a token

(* The code's numbers: 4 * 30 s + 3 * 60 s = 5 min.  GitHub issues tokens  *)
(* for an hour.                                                            *)
ASSUME RestAssumption ==
  /\ MaxAttempts \in Nat \ {0} /\ Timeout \in Nat /\ MaxWait \in Nat
  /\ Margin \in Nat /\ Hour \in Nat
  /\ Margin >= MaxAttempts * Timeout + (MaxAttempts - 1) * MaxWait
  /\ Issued \subseteq Nat /\ \A l \in Issued : l > Margin /\ l <= Hour
  /\ Nobody \notin Callers

VARIABLES
  cached,    \* AppAuth's token
  mu,        \* who holds AppAuth.mu
  pc,        \* where a caller is
  req,       \* whether its request has a body
  bearer,    \* the token its request carries
  sent,      \* how often its request was sent
  last,      \* its request is sent for the last time
  timer,     \* the time its exchange, request or wait still has
  outcome    \* how its latest request ended

callVars == <<req, bearer, sent, last, timer, outcome>>
vars == <<cached, mu, pc, callVars>>

(* left: until the date AppAuth keeps; real: until GitHub refuses it;      *)
(* guessed: the response had no date.  Nothing is left of no token.        *)
Token == [left: 0..Hour, real: 0..Hour, guessed: BOOLEAN]

NoToken == [left |-> 0, real |-> 0, guessed |-> FALSE]

TypeOK ==
  /\ cached \in Token
  /\ mu \in Callers \cup {Nobody}
  /\ pc \in [Callers -> {"idle", "token", "exchange", "send", "flight", "wait"}]
  /\ req \in [Callers -> {"plain", "body"}]
  /\ bearer \in [Callers -> Token]
  /\ sent \in [Callers -> 0..MaxAttempts + 1]
  /\ last \in [Callers -> BOOLEAN]
  /\ timer \in [Callers -> 0..Timeout + MaxWait]
  /\ outcome \in [Callers -> {"none", "answered", "failed", "spent"}]

Init ==
  /\ cached = NoToken
  /\ mu = Nobody
  /\ pc = [c \in Callers |-> "idle"]
  /\ req = [c \in Callers |-> "plain"]
  /\ bearer = [c \in Callers |-> NoToken]
  /\ sent = [c \in Callers |-> 0]
  /\ last = [c \in Callers |-> FALSE]
  /\ timer = [c \in Callers |-> 0]
  /\ outcome = [c \in Callers |-> "none"]

-----------------------------------------------------------------------------
(* A request begins: rest, restPaginated (a request per page) and graphql. *)
Call(c) ==
  /\ pc[c] = "idle"
  /\ \E kind \in {"plain", "body"} : req' = [req EXCEPT ![c] = kind]
  /\ pc' = [pc EXCEPT ![c] = "token"]
  /\ bearer' = [bearer EXCEPT ![c] = NoToken]
  /\ sent' = [sent EXCEPT ![c] = 0]
  /\ last' = [last EXCEPT ![c] = FALSE]
  /\ outcome' = [outcome EXCEPT ![c] = "none"]
  /\ UNCHANGED <<cached, mu, timer>>

End(c, how) ==
  /\ pc' = [pc EXCEPT ![c] = "idle"]
  /\ outcome' = [outcome EXCEPT ![c] = how]

-----------------------------------------------------------------------------
(* AppAuth.Token.                                                          *)

(* Mutant: a token is handed out until the moment it expires.              *)
UsableToTheEnd == cached.left > 0

Usable == cached.left > Margin

(* Mutant: the mutex does not cover the exchange.                          *)
TakeTokenUnlocked(c) ==
  /\ pc[c] = "token"
  /\ IF Usable
     THEN /\ bearer' = [bearer EXCEPT ![c] = cached]
          /\ pc' = [pc EXCEPT ![c] = "send"]
          /\ UNCHANGED timer
     ELSE /\ pc' = [pc EXCEPT ![c] = "exchange"]
          /\ timer' = [timer EXCEPT ![c] = Timeout]
          /\ UNCHANGED bearer
  /\ UNCHANGED <<cached, mu, req, sent, last, outcome>>

TakeToken(c) ==
  /\ pc[c] = "token" /\ mu = Nobody
  /\ IF Usable
     THEN /\ bearer' = [bearer EXCEPT ![c] = cached]
          /\ pc' = [pc EXCEPT ![c] = "send"]
          /\ UNCHANGED <<mu, timer>>
     ELSE /\ mu' = c
          /\ pc' = [pc EXCEPT ![c] = "exchange"]
          /\ timer' = [timer EXCEPT ![c] = Timeout]
          /\ UNCHANGED bearer
  /\ UNCHANGED <<cached, req, sent, last, outcome>>

(* The tokens a response of life l may amount to.                          *)
Granted(l) == {[left |-> l, real |-> l, guessed |-> FALSE],
               [left |-> Hour, real |-> l, guessed |-> TRUE]}

Exchanged(c) ==
  /\ pc[c] = "exchange"
  /\ \E l \in Issued : \E t \in Granted(l) :
       /\ cached' = t
       /\ bearer' = [bearer EXCEPT ![c] = t]
  /\ mu' = Nobody
  /\ pc' = [pc EXCEPT ![c] = "send"]
  /\ UNCHANGED <<req, sent, last, timer, outcome>>

(* Mutant: the mutex is not left on the way out with an error.             *)
ExchangeFailedLocked(c) ==
  /\ pc[c] = "exchange"
  /\ End(c, "failed")
  /\ UNCHANGED <<cached, mu, req, bearer, sent, last, timer>>

(* Refused, not found, unreadable, empty, timed out or cancelled: the old  *)
(* token stays, and the next caller tries again.                           *)
ExchangeFailed(c) ==
  /\ pc[c] = "exchange"
  /\ mu' = Nobody
  /\ End(c, "failed")
  /\ UNCHANGED <<cached, req, bearer, sent, last, timer>>

-----------------------------------------------------------------------------
(* doWithRetry.                                                            *)

Send(c) ==
  /\ pc[c] = "send"
  /\ pc' = [pc EXCEPT ![c] = "flight"]
  /\ sent' = [sent EXCEPT ![c] = @ + 1]
  /\ timer' = [timer EXCEPT ![c] = Timeout]
  /\ UNCHANGED <<cached, mu, req, bearer, last, outcome>>

(* net/http: Do reads the request's body.  The same request sent again has *)
(* a body at its end, and the transport or the server refuses it, unless   *)
(* the transport itself could rewind it.                                   *)
SendSpent(c) ==
  /\ pc[c] = "send" /\ req[c] = "body" /\ sent[c] > 0
  /\ End(c, "spent")
  /\ UNCHANGED <<cached, mu, req, bearer, sent, last, timer>>

(* Any status but 403 and 429, or whatever the last request brought.       *)
Answered(c) ==
  /\ pc[c] = "flight"
  /\ End(c, "answered")
  /\ UNCHANGED <<cached, mu, req, bearer, sent, last, timer>>

Broken(c) ==
  /\ pc[c] = "flight"
  /\ End(c, "failed")
  /\ UNCHANGED <<cached, mu, req, bearer, sent, last, timer>>

(* Mutant: the attempts are counted from zero.                             *)
GivesUpLate(c, w) == sent[c] > MaxAttempts \/ w = 0 \/ w > MaxWait

GivesUp(c, w) == sent[c] >= MaxAttempts \/ w = 0 \/ w > MaxWait

(* 403 or 429 with w to wait, 0 when no header says how long.  When it     *)
(* gives up it does not return the response but sends the request again.   *)
Limited(c) ==
  /\ pc[c] = "flight" /\ ~last[c]
  /\ \E w \in 0..MaxWait + 1 :
       IF GivesUp(c, w)
       THEN /\ last' = [last EXCEPT ![c] = TRUE]
            /\ pc' = [pc EXCEPT ![c] = "send"]
            /\ UNCHANGED timer
       ELSE /\ timer' = [timer EXCEPT ![c] = w]
            /\ pc' = [pc EXCEPT ![c] = "wait"]
            /\ UNCHANGED last
  /\ UNCHANGED <<cached, mu, req, bearer, sent, outcome>>

Waited(c) ==
  /\ pc[c] = "wait" /\ timer[c] = 0
  /\ pc' = [pc EXCEPT ![c] = "send"]
  /\ UNCHANGED <<cached, mu, callVars>>

Cancelled(c) ==
  /\ pc[c] = "wait"
  /\ End(c, "failed")
  /\ UNCHANGED <<cached, mu, req, bearer, sent, last, timer>>

-----------------------------------------------------------------------------
Pending(c) == pc[c] \in {"exchange", "flight", "wait"}

(* What must happen before time goes on.                                   *)
Due(c) ==
  \/ pc[c] = "send"
  \/ pc[c] = "token" /\ mu = Nobody
  \/ Pending(c) /\ timer[c] = 0

Less(n) == IF n = 0 THEN 0 ELSE n - 1

Aged(t) == [left |-> Less(t.left), real |-> Less(t.real), guessed |-> t.guessed]

Tick ==
  /\ \A c \in Callers : ~Due(c)
  /\ cached' = Aged(cached)
  /\ bearer' = [c \in Callers |-> Aged(bearer[c])]
  /\ timer' = [c \in Callers |-> IF Pending(c) THEN timer[c] - 1 ELSE timer[c]]
  /\ UNCHANGED <<mu, pc, req, sent, last, outcome>>

(* Nobody owes a caller that its context is cancelled.                     *)
Goes(c) ==
  \/ Exchanged(c) \/ ExchangeFailed(c) \/ Send(c) \/ SendSpent(c)
  \/ Answered(c) \/ Broken(c) \/ Limited(c) \/ Waited(c)

Next ==
  \/ \E c \in Callers :
       \/ Call(c) \/ TakeToken(c) \/ Exchanged(c) \/ ExchangeFailed(c)
       \/ Send(c) \/ SendSpent(c) \/ Answered(c) \/ Broken(c)
       \/ Limited(c) \/ Waited(c) \/ Cancelled(c)
  \/ Tick

(* Requests and exchanges end within their timeouts, time goes on however  *)
(* busy other callers are with what takes none, and Go's mutex starves     *)
(* nobody.                                                                 *)
Fairness ==
  /\ \A c \in Callers : WF_vars(Goes(c)) /\ SF_vars(TakeToken(c))
  /\ SF_vars(Tick)

Spec == Init /\ [][Next]_vars /\ Fairness

-----------------------------------------------------------------------------
(* Safety.                                                                 *)

(* A bearer is fetched once and then used for all the attempts of a        *)
(* request: none of them is sent with a token that has expired meanwhile,  *)
(* however long GitHub took and however long it made the client wait.      *)
AttemptsStartInTime ==
  \A c \in Callers : pc[c] = "send" => bearer[c].real > 0 \/ bearer[c].guessed

(* A token is exchanged only while there is none to use: goroutines that   *)
(* waited for an exchange take its token and do not repeat it.             *)
ExchangeOnlyWhenNeeded ==
  \A c \in Callers : pc[c] = "exchange" => ~(cached.left > Margin)

(* Who waits for AppAuth's mutex waits for an exchange under way, which    *)
(* the HTTP client ends within its timeout: nobody leaves with the mutex.  *)
MutexHeldForExchange ==
  mu # Nobody => pc[mu] = "exchange" /\ timer[mu] <= Timeout

(* The rate limit is not answered with an endless stream of requests.      *)
SentBounded ==
  \A c \in Callers :
    /\ sent[c] <= MaxAttempts + 1
    /\ sent[c] = MaxAttempts + 1 => last[c]

-----------------------------------------------------------------------------
(* Goroutines with a mutex, timeouts and waits keep the promise of Lease:  *)
(* the token is what is shared, and an attempt is a use of the bearer.     *)
Promise ==
  INSTANCE Lease WITH
    Holders <- Callers, Nothing <- NoToken, Fresh <- UNION {Granted(l) : l \in Issued},
    Uses <- MaxAttempts + 1, lease <- cached, held <- bearer, used <- sent

(* However the goroutines interleave, each step is one of Lease or none:   *)
(* a token is replaced only when it is nearly out, every attempt of a      *)
(* request goes out under the token its first one had, while that is good, *)
(* and there are no more of them than doWithRetry allows.                  *)
ImplementsLease == Promise!LeaseSpec

-----------------------------------------------------------------------------
(* Liveness.                                                               *)

(* Every request ends, whatever became of the exchanges of the others.     *)
CallsReturn == \A c \in Callers : pc[c] # "idle" ~> pc[c] = "idle"

-----------------------------------------------------------------------------
(* What a comment says and the code does not do.                           *)

(* "handles primary/secondary rate limits with a bounded backoff": after a *)
(* wait a request goes out as it was, with its body.                       *)
BackoffKeepsRequest == \A c \in Callers : outcome[c] = "spent" => last[c]
=============================================================================
