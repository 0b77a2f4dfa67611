---------------------------- MODULE SeatReclaimProofs ----------------------------
(***************************************************************************)
(* A session spares the users it has seen at work, and those the policy    *)
(* keeps.  What makes it true is that the reasons to reclaim a seat only   *)
(* grow with time: a seat that one of the session's rules revoked would be *)
(* reclaimed today as well, but of an active user's seats the kept one     *)
(* never is.                                                               *)
(***************************************************************************)
EXTENDS SeatReclaim, Extrema, TLAPS

-----------------------------------------------------------------------------
(* No seat of a pool was used after day n.                                 *)
UsedBy(v, n) == \A o \in Orgs, l \in Logins : v[o][l].active <= n

LEMMA SeatTypes ==
  ASSUME NEW v \in Pool, NEW l \in Logins, NEW o \in Orgs
  PROVE  /\ v[o][l] \in Seat \cup {NoSeat}
         /\ v[o][l].active \in Nat
         /\ v[o][l].created \in Nat
BY DEF Pool, Seat, NoSeat

(* Of a user's seats one is kept, and it was used last.                    *)
LEMMA KeptExists ==
  ASSUME NEW v \in Pool, NEW l \in Logins, NEW n \in Nat, UsedBy(v, n),
         NEW h \in Holds(v, l)
  PROVE  \E k \in Holds(v, l) : /\ IsKept(v, l, k)
                                /\ v[h][l].active <= v[k][l].active
<1> DEFINE best == MostActive(v, l)
           days == {v[o][l].active : o \in Holds(v, l)}
<1>1. PICK m \in Holds(v, l) : \A o \in Holds(v, l) : v[o][l].active <= v[m][l].active
  <2>1. days \in SUBSET Nat /\ days # {} /\ \A d \in days : d <= n
    <3>1. \A o \in Holds(v, l) : v[o][l].active \in Nat /\ v[o][l].active <= n
      BY SeatTypes DEF Holds, UsedBy
    <3> QED BY <3>1
  <2>2. PICK d \in days : \A e \in days : e <= d
    BY <2>1, GreatestExists
  <2> QED BY <2>2
<1>2. best # {} /\ best \subseteq Holds(v, l) /\ Holds(v, l) \subseteq Orgs
  BY <1>1 DEF MostActive, Holds
<1>3. Rivals(v, l) # {} /\ Rivals(v, l) \subseteq best
  <2>1. CASE {o \in best : v[o][l].plan = "enterprise"} # {}
    BY <2>1 DEF Rivals
  <2>2. CASE {o \in best : v[o][l].plan = "enterprise"} = {}
    <3>1. {Place[o] : o \in best} \in SUBSET Nat /\ {Place[o] : o \in best} # {}
      <4>1. \A o \in best : Place[o] \in Nat
        BY <1>2, SeatAssumption
      <4> HIDE DEF best
      <4> QED BY <4>1, <1>2
    <3>2. PICK p \in {Place[o] : o \in best} : \A q \in {Place[o] : o \in best} : p <= q
      BY <3>1, LeastExists
    <3>3. PICK f \in best : p = Place[f]
      BY <3>2
    <3>4. \A o \in best : Place[f] <= Place[o]
      BY <3>2, <3>3
    <3> QED BY <2>2, <3>4 DEF Rivals
  <2> QED BY <2>1, <2>2
<1>4. Rivals(v, l) \in SUBSET Nat
  BY <1>2, <1>3, SeatAssumption
<1>5. PICK k \in Rivals(v, l) : \A o \in Rivals(v, l) : k <= o
  BY <1>3, <1>4, LeastExists
<1>6. k \in best
  BY <1>3, <1>5
<1>7. v[h][l].active <= v[k][l].active /\ k \in Holds(v, l)
  BY <1>6 DEF MostActive
<1> QED BY <1>5, <1>7 DEF IsKept

(* What may be reclaimed on one day may be reclaimed on any later one.     *)
LEMMA ReasonsGrow ==
  ASSUME NEW v \in Pool, NEW l \in Logins, NEW o \in Orgs, NEW d \in Nat, NEW e \in Nat,
         d <= e, Reason(v, l, o, d) # "none"
  PROVE  Reason(v, l, o, e) # "none"
<1>1. v[o][l].active \in Nat /\ v[o][l].created \in Nat
  BY SeatTypes
<1>2. NeverDays \in Nat /\ DormantDays \in Nat
  BY SeatAssumption
<1> QED BY <1>1, <1>2 DEF Reason

-----------------------------------------------------------------------------
(* What the argument needs of the types.                                   *)
Types ==
  /\ now \in Nat
  /\ seats \in Pool /\ UsedBy(seats, now)
  /\ inv \in [Sessions -> Invocations]
  /\ pc \in [Sessions -> {"new", "read", "next", "revoke", "done", "crashed"}]
  /\ view \in [Sessions -> Pool]
  /\ rest \in [Sessions -> Seq(SeatRules)]
  /\ togo \in [Sessions -> SUBSET Rows]
  /\ revoked \in [Sessions -> SUBSET Rows]
  /\ \A s \in Sessions : UsedBy(view[s], now)

(* A session revokes nothing before it has read everything, and nothing    *)
(* and nobody knows what a crashed one had read.                           *)
ReadFirst ==
  \A s \in Sessions :
    /\ pc[s] \in {"new", "read"} => togo[s] = {} /\ revoked[s] = {}
    /\ pc[s] = "crashed" => togo[s] = {} /\ view[s] = Nothing

NoExempt ==
  \A s \in Sessions : \A x \in togo[s] \cup revoked[s] : x[2] \notin inv[s].keep

Reclaimable ==
  \A s \in Sessions : pc[s] # "crashed" =>
    \A x \in togo[s] \cup revoked[s] : Reason(view[s], x[2], x[1], now) # "none"

IInv == Types /\ ReadFirst /\ NoExempt /\ Reclaimable

LEMMA NothingIsPool == Nothing \in Pool /\ \A n \in Nat : UsedBy(Nothing, n)
BY DEF Nothing, Pool, NoSeat, UsedBy

LEMMA InitIInv == Init => IInv
<1> SUFFICES ASSUME Init PROVE IInv
  OBVIOUS
<1> USE SeatAssumption
<1>1. Types
  <2>1. \A i \in Invocations : i.rules \in Seq(SeatRules)
    BY DEF Invocation
  <2>2. rest \in [Sessions -> Seq(SeatRules)]
    BY <2>1 DEF Init
  <2> QED BY <2>2, NothingIsPool DEF Init, Types, UsedBy, Rows
<1>2. ReadFirst /\ NoExempt /\ Reclaimable
  BY DEF Init, ReadFirst, NoExempt, Reclaimable
<1> QED BY <1>1, <1>2 DEF IInv

-----------------------------------------------------------------------------
(* One lemma per action that does more than move a session on.             *)

LEMMA ReadKeeps ==
  ASSUME IInv, NEW s \in Sessions, ReadSeats(s)
  PROVE  IInv'
<1> USE DEF IInv
<1>1. Types'
  <2>1. PICK o \in todo[s], ok \in BOOLEAN :
          view' = [view EXCEPT ![s][o] = IF ok THEN seats[o] ELSE @]
    BY DEF ReadSeats
  <2>2. view'[s] \in Pool /\ view' \in [Sessions -> Pool]
    BY <2>1 DEF Types, Pool
  <2>3. UsedBy(view'[s], now)
    BY <2>1 DEF Types, UsedBy, Pool
  <2>4. \A t \in Sessions : UsedBy(view'[t], now)
    BY <2>1, <2>3 DEF Types
  <2>5. pc' \in [Sessions -> {"new", "read", "next", "revoke", "done", "crashed"}]
    BY DEF ReadSeats, Types
  <2> QED BY <2>2, <2>4, <2>5 DEF ReadSeats, Types
<1>2. togo[s] = {} /\ revoked[s] = {}
  BY DEF ReadSeats, ReadFirst
<1>3. \A t \in Sessions : t # s => view'[t] = view[t] /\ pc'[t] = pc[t]
  BY DEF ReadSeats, Types
<1>4. pc'[s] # "crashed" /\ UNCHANGED <<togo, revoked, inv, now>>
  BY DEF ReadSeats, Types
<1>5. ReadFirst'
  BY <1>2, <1>3, <1>4 DEF ReadFirst
<1>6. NoExempt'
  BY <1>4 DEF NoExempt
<1>7. Reclaimable'
  <2> SUFFICES ASSUME NEW t \in Sessions, pc'[t] # "crashed",
                      NEW x \in togo'[t] \cup revoked'[t]
               PROVE  Reason(view'[t], x[2], x[1], now') # "none"
    BY DEF Reclaimable
  <2>1. t # s
    BY <1>2, <1>4
  <2>2. view'[t] = view[t] /\ now' = now
    BY <1>3, <1>4, <2>1
  <2>3. Reason(view[t], x[2], x[1], now) # "none"
    BY <1>3, <1>4, <2>1 DEF Reclaimable
  <2> QED BY <2>2, <2>3
<1> QED BY <1>1, <1>5, <1>6, <1>7

LEMMA ComputeKeeps ==
  ASSUME IInv, NEW s \in Sessions, Compute(s)
  PROVE  IInv'
<1> USE DEF IInv
<1> DEFINE rows == Reclaim(view[s], now, inv[s].keep, Head(rest[s]))
<1>1. togo' \in [Sessions -> SUBSET Rows] /\ togo'[s] \subseteq rows
  BY DEF Compute, Types, Reclaim
<1>2. \A t \in Sessions : t # s => togo'[t] = togo[t] /\ pc'[t] = pc[t]
  BY DEF Compute, Types
<1>3. pc[s] = "next" /\ pc'[s] = "revoke" /\ UNCHANGED <<now, seats, inv, view, revoked>>
  BY DEF Compute, Types
<1>4. Types'
  <2>1. pc' \in [Sessions -> {"new", "read", "next", "revoke", "done", "crashed"}]
    BY DEF Compute, Types
  <2>2. rest[s] \in Seq(SeatRules) /\ rest[s] # <<>> /\ rest' = [rest EXCEPT ![s] = Tail(@)]
    BY DEF Compute, Types
  <2>3. rest' \in [Sessions -> Seq(SeatRules)]
    BY <2>2 DEF Types
  <2> QED BY <1>1, <1>3, <2>1, <2>3 DEF Types
<1>5. \A x \in rows : /\ x[2] \notin inv[s].keep
                      /\ Reason(view[s], x[2], x[1], now) # "none"
  <2>1. rest[s] \in Seq(SeatRules) /\ rest[s] # <<>>
    BY DEF Compute, Types
  <2>2. Head(rest[s]) \in SeatRules
    BY <2>1
  <2>3. Head(rest[s]) # "none"
    BY <2>2 DEF SeatRules
  <2> QED BY <2>3 DEF Reclaim
<1>6. ReadFirst'
  BY <1>2, <1>3 DEF ReadFirst
<1>7. NoExempt'
  BY <1>1, <1>2, <1>3, <1>5 DEF NoExempt
<1>8. Reclaimable'
  BY <1>1, <1>2, <1>3, <1>5 DEF Reclaimable
<1> QED BY <1>4, <1>6, <1>7, <1>8

LEMMA RevokeKeeps ==
  ASSUME IInv, NEW s \in Sessions, Revoke(s)
  PROVE  IInv'
<1> USE DEF IInv
<1>1. PICK z \in togo[s] : z[1] \in Orgs /\ z \in Rows
  BY DEF Revoke, Types, Rows
<1>2. UNCHANGED <<now, inv, pc, view, rest>> /\ pc[s] = "revoke"
  BY DEF Revoke
<1>3. /\ togo' \in [Sessions -> SUBSET Rows] /\ togo'[s] \subseteq togo[s]
      /\ \A t \in Sessions : t # s => togo'[t] = togo[t]
  BY DEF Revoke, Types
<1>4. /\ revoked' \in [Sessions -> SUBSET Rows]
      /\ revoked'[s] \subseteq revoked[s] \cup togo[s]
      /\ \A t \in Sessions : t # s => revoked'[t] = revoked[t]
  <2>1. PICK gone \in SUBSET togo[s] :
          revoked' = revoked \/ revoked' = [revoked EXCEPT ![s] = @ \cup gone]
    <3>1. PICK x \in togo[s] :
            \/ revoked' = revoked
            \/ revoked' = [revoked EXCEPT ![s] = @ \cup {y \in togo[s] : y[1] = x[1]}]
      BY DEF Revoke
    <3> QED BY <3>1
  <2>2. gone \in SUBSET Rows
    BY DEF Types
  <2> QED BY <2>1, <2>2 DEF Types
<1>5. seats' \in Pool /\ UsedBy(seats', now)
  <2>1. CASE seats' = seats
    BY <2>1 DEF Types
  <2>2. CASE seats' # seats
    <3>1. PICK x \in togo[s], logins \in SUBSET Logins :
            seats' = [seats EXCEPT ![x[1]] =
                        [l \in Logins |-> IF l \in logins THEN NoSeat ELSE @[l]]]
      <4>1. PICK x \in togo[s] :
              seats' = [seats EXCEPT ![x[1]] =
                 [l \in Logins |->
                    IF l \in {y[2] : y \in {y \in togo[s] : y[1] = x[1]}} THEN NoSeat
                    ELSE @[l]]]
        BY <2>2 DEF Revoke
      <4>2. {y[2] : y \in {y \in togo[s] : y[1] = x[1]}} \in SUBSET Logins
        BY DEF Types, Rows
      <4> QED BY <4>1, <4>2
    <3>2. x[1] \in Orgs
      BY DEF Types, Rows
    <3> QED BY <3>1, <3>2 DEF Types, Pool, UsedBy, NoSeat
  <2> QED BY <2>1, <2>2
<1>6. Types'
  BY <1>2, <1>3, <1>4, <1>5 DEF Types
<1>7. ReadFirst'
  BY <1>2, <1>3, <1>4 DEF ReadFirst
<1>8. NoExempt'
  BY <1>2, <1>3, <1>4 DEF NoExempt
<1>9. Reclaimable'
  BY <1>2, <1>3, <1>4 DEF Reclaimable
<1> QED BY <1>6, <1>7, <1>8, <1>9

LEMMA CrashKeeps ==
  ASSUME IInv, NEW s \in Sessions, Crash(s)
  PROVE  IInv'
<1> USE DEF IInv
<1>1. /\ UNCHANGED <<now, seats, inv, revoked>>
      /\ togo'[s] = {} /\ view'[s] = Nothing /\ pc'[s] = "crashed"
      /\ \A t \in Sessions :
           t # s => togo'[t] = togo[t] /\ view'[t] = view[t] /\ pc'[t] = pc[t]
  BY DEF Crash, Types
<1>2. Types'
  <2>1. /\ pc' \in [Sessions -> {"new", "read", "next", "revoke", "done", "crashed"}]
        /\ view' \in [Sessions -> Pool]
        /\ togo' \in [Sessions -> SUBSET Rows]
    BY NothingIsPool DEF Crash, Types
  <2>2. rest' \in [Sessions -> Seq(SeatRules)]
    <3>1. <<>> \in Seq(SeatRules)
      OBVIOUS
    <3> HIDE DEF IInv
    <3> QED BY <3>1 DEF Crash, Types, IInv
  <2>3. \A t \in Sessions : UsedBy(view'[t], now)
    BY <1>1, NothingIsPool DEF Types
  <2> QED BY <1>1, <2>1, <2>2, <2>3 DEF Types
<1>3. ReadFirst'
  BY <1>1 DEF ReadFirst
<1>4. NoExempt'
  BY <1>1 DEF NoExempt
<1>5. Reclaimable'
  BY <1>1 DEF Reclaimable
<1> QED BY <1>2, <1>3, <1>4, <1>5

LEMMA UseKeeps ==
  ASSUME IInv, NEW l \in Logins, NEW o \in Orgs, Use(l, o)
  PROVE  IInv'
<1> USE DEF IInv
<1>1. seats' \in Pool /\ UsedBy(seats', now)
  <2>1. seats[o][l] \in Seat
    BY SeatTypes DEF Use, Holds, Types
  <2>2. [seats[o][l] EXCEPT !.active = now] \in Seat
    BY <2>1 DEF Types, Seat
  <2>3. seats' = [seats EXCEPT ![o] = [@ EXCEPT ![l] = [seats[o][l] EXCEPT !.active = now]]]
    BY DEF Use, Types, Pool
  <2>4. seats' \in Pool
    BY <2>2, <2>3 DEF Types, Pool
  <2>5. \A p \in Orgs, m \in Logins : seats'[p][m].active \in {now, seats[p][m].active}
    BY <2>1, <2>3 DEF Types, Pool, Seat
  <2> QED BY <2>4, <2>5 DEF Types, UsedBy
<1>2. UNCHANGED <<now, inv, pc, view, rest, togo, revoked>>
  BY DEF Use
<1> QED BY <1>1, <1>2 DEF Types, ReadFirst, NoExempt, Reclaimable

LEMMA NextDayKeeps ==
  ASSUME IInv, NextDay
  PROVE  IInv'
<1> USE DEF IInv
<1>1. UNCHANGED <<seats, inv, pc, view, rest, togo, revoked>> /\ now' = now + 1 /\ now \in Nat
  BY DEF NextDay, Types
<1>2. \A v \in Pool : UsedBy(v, now) => UsedBy(v, now + 1)
  BY <1>1, SeatTypes DEF UsedBy
<1>3. Types'
  BY <1>1, <1>2 DEF Types
<1>4. ReadFirst' /\ NoExempt'
  BY <1>1 DEF ReadFirst, NoExempt
<1>5. Reclaimable'
  <2> SUFFICES ASSUME NEW s \in Sessions, pc[s] # "crashed",
                      NEW x \in togo[s] \cup revoked[s]
               PROVE  Reason(view[s], x[2], x[1], now + 1) # "none"
    BY <1>1 DEF Reclaimable
  <2>1. x[1] \in Orgs /\ x[2] \in Logins /\ view[s] \in Pool
    BY DEF Types, Rows
  <2>2. Reason(view[s], x[2], x[1], now) # "none"
    BY DEF Reclaimable
  <2> QED BY <1>1, <2>1, <2>2, ReasonsGrow
<1> QED BY <1>3, <1>4, <1>5

LEMMA StepIInv == IInv /\ [Next]_vars => IInv'
<1> SUFFICES ASSUME IInv, [Next]_vars PROVE IInv'
  OBVIOUS
<1>1. ASSUME NEW s \in Sessions, Begin(s) PROVE IInv'
  <2>1. /\ UNCHANGED <<now, seats, inv, view, rest, togo, revoked>>
        /\ pc[s] = "new" /\ pc'[s] = "read"
        /\ \A t \in Sessions : t # s => pc'[t] = pc[t]
        /\ pc' \in [Sessions -> {"new", "read", "next", "revoke", "done", "crashed"}]
    BY <1>1 DEF Begin, IInv, Types
  <2> QED BY <2>1 DEF IInv, Types, ReadFirst, NoExempt, Reclaimable
<1>2. ASSUME NEW s \in Sessions, Report(s) PROVE IInv'
  <2>1. /\ UNCHANGED <<now, seats, inv, view, rest, togo, revoked>>
        /\ pc[s] = "revoke" /\ pc'[s] \in {"next", "done"}
        /\ \A t \in Sessions : t # s => pc'[t] = pc[t]
        /\ pc' \in [Sessions -> {"new", "read", "next", "revoke", "done", "crashed"}]
    BY <1>2 DEF Report, IInv, Types
  <2> QED BY <2>1 DEF IInv, Types, ReadFirst, NoExempt, Reclaimable
<1>3. CASE UNCHANGED vars
  BY <1>3 DEF vars, IInv, Types, ReadFirst, NoExempt, Reclaimable
<1> QED BY <1>1, <1>2, <1>3, ReadKeeps, ComputeKeeps, RevokeKeeps, CrashKeeps, UseKeeps,
           NextDayKeeps DEF Next

-----------------------------------------------------------------------------
LEMMA IInvSpares == IInv => SessionSparesUsers
<1> SUFFICES ASSUME IInv, NEW s \in Sessions, NEW l \in Logins
             PROVE  LET lost == {o \in Orgs : <<o, l>> \in revoked[s]}
                    IN /\ l \in inv[s].keep => lost = {}
                       /\ (\E o \in Holds(view[s], l) : Active(view[s][o][l].active))
                            => lost # Holds(view[s], l)
  BY DEF SessionSparesUsers
<1> DEFINE lost == {o \in Orgs : <<o, l>> \in revoked[s]}
<1>1. l \in inv[s].keep => lost = {}
  BY DEF IInv, NoExempt
<1>2. ASSUME NEW h \in Holds(view[s], l), Active(view[s][h][l].active),
             lost = Holds(view[s], l)
      PROVE  FALSE
  <2>1. view[s] \in Pool /\ UsedBy(view[s], now) /\ now \in Nat
    BY DEF IInv, Types
  <2>2. PICK k \in Holds(view[s], l) : /\ IsKept(view[s], l, k)
                                       /\ view[s][h][l].active <= view[s][k][l].active
    BY <2>1, KeptExists
  <2>3. <<k, l>> \in revoked[s] /\ k \in Orgs /\ h \in Orgs
    BY <1>2, <2>2 DEF Holds
  <2>4. pc[s] # "crashed"
    BY <1>2 DEF IInv, ReadFirst, Holds, Nothing
  <2>5. Reason(view[s], l, k, now) # "none"
    BY <2>3, <2>4 DEF IInv, Reclaimable
  <2>6. /\ view[s][k][l].active \in Nat /\ view[s][h][l].active \in Nat
        /\ DormantDays \in Nat
    BY <2>1, <2>3, SeatTypes, SeatAssumption
  <2>7. /\ view[s][k][l].active # 0
        /\ DormantDays > 0 => now - view[s][k][l].active < DormantDays
    BY <1>2, <2>1, <2>2, <2>6 DEF Active
  <2>8. Reason(view[s], l, k, now) = "none"
    BY <2>1, <2>2, <2>6, <2>7 DEF Reason
  <2> QED BY <2>5, <2>8
<1> QED BY <1>1, <1>2

(* In every execution, with any number of sessions, organizations and      *)
(* users: no session takes all the seats of a user it has read an active   *)
(* one of, or any seat of an exempt user (usage.Reclaim, seats.go).        *)
THEOREM UsersSpared == Spec => []SessionSparesUsers
<1>1. Init => IInv
  BY InitIInv
<1>2. IInv /\ [Next]_vars => IInv'
  BY StepIInv
<1>3. IInv => SessionSparesUsers
  BY IInvSpares
<1> QED BY <1>1, <1>2, <1>3, PTL DEF Spec

-----------------------------------------------------------------------------
(* The types of all the variables.                                         *)

LEMMA InitTypeOK == Init => TypeOK
<1> SUFFICES ASSUME Init PROVE TypeOK
  OBVIOUS
<1>1. \A i \in Invocations : i.rules \in Seq(SeatRules)
  BY SeatAssumption DEF Invocation
<1>2. rest \in [Sessions -> Seq(SeatRules)]
  BY <1>1 DEF Init
<1>3. \A l \in Logins :
        /\ Newest(seats, l) \in {seats[o][l].active : o \in Orgs}
        /\ \A o \in Orgs : seats[o][l].active <= Newest(seats, l)
  <2> SUFFICES ASSUME NEW l \in Logins
               PROVE  /\ Newest(seats, l) \in {seats[o][l].active : o \in Orgs}
                      /\ \A o \in Orgs : seats[o][l].active <= Newest(seats, l)
    OBVIOUS
  <2> DEFINE days == {seats[o][l].active : o \in Orgs}
  <2>1. \A o \in Orgs : seats[o][l].active \in Nat /\ seats[o][l].active <= Today
    BY SeatAssumption, SeatTypes DEF Init
  <2>2. days \in SUBSET Nat /\ days # {} /\ \A d \in days : d <= Today
    <3>1. Orgs # {}
      BY SeatAssumption
    <3> QED BY <2>1, <3>1
  <2>3. \E d \in days : \A e \in days : e <= d
    BY <2>2, SeatAssumption, GreatestExists
  <2>4. \E d \in days : \A o \in Orgs : seats[o][l].active <= d
    BY <2>3
  <2> QED BY <2>4 DEF Newest
<1>4. used \in [Logins -> Nat]
  <2>1. \A l \in Logins : Newest(seats, l) \in Nat
    BY <1>3, SeatAssumption, SeatTypes DEF Init
  <2> QED BY <2>1 DEF Init
<1>5. NoResult \in Result
  BY DEF NoResult, Result
<1>6. view \in [Sessions -> Pool] /\ seats \in Pool /\ now \in Today..LastDay
  BY SeatAssumption, NothingIsPool DEF Init
<1> QED BY <1>2, <1>4, <1>5, <1>6 DEF Init, TypeOK, NoResult

LEMMA ComputeTypes ==
  ASSUME IInv, IInv', TypeOK, NEW s \in Sessions, Compute(s)
  PROVE  TypeOK'
<1>1. row' \in [Sessions -> Result]
  <2>1. Head(rest[s]) \in SeatRules
    <3>1. rest[s] \in Seq(SeatRules) /\ rest[s] # <<>>
      BY DEF Compute, TypeOK
    <3> QED BY <3>1
  <2>2. Reclaim(view[s], now, inv[s].keep, Head(rest[s])) \in SUBSET Rows
    BY DEF Reclaim
  <2>3. (readable[s] = {} \/ (~inv[s].dryRun /\ ~inv[s].writer)) \in BOOLEAN
    OBVIOUS
  <2> QED BY <2>1, <2>2, <2>3 DEF Compute, TypeOK, Result
<1>2. \A t \in Sessions : togo'[t] \subseteq row'[t].changes
  BY DEF Compute, TypeOK
<1> QED BY <1>1, <1>2 DEF Compute, TypeOK, IInv, Types

LEMMA AnswerType ==
  ASSUME NEW r \in Result, NEW answer
  PROVE  /\ Answer(r, answer) \in Result
         /\ Answer(r, answer).changes = r.changes
         /\ Answer(r, answer).rule = r.rule
         /\ Answer(r, answer).applied <=> r.applied \/ answer = "ok"
         /\ Answer(r, answer).errors <=> r.errors \/ answer # "ok"
BY DEF Answer, Result

LEMMA RevokeTypes ==
  ASSUME IInv, IInv', TypeOK, NEW s \in Sessions, Revoke(s)
  PROVE  TypeOK'
<1>1. PICK answer : row' = [row EXCEPT ![s] = Answer(row[s], answer)]
  BY DEF Revoke
<1>2. row' \in [Sessions -> Result] /\ \A t \in Sessions : row'[t].changes = row[t].changes
  BY <1>1, AnswerType DEF TypeOK
<1>3. \A t \in Sessions : togo'[t] \subseteq togo[t]
  BY DEF Revoke, TypeOK
<1> QED BY <1>2, <1>3 DEF Revoke, TypeOK, IInv, Types

LEMMA StepTypeOK ==
  ASSUME IInv, IInv', TypeOK, [Next]_vars
  PROVE  TypeOK'
<1>1. ASSUME NEW s \in Sessions, Begin(s) PROVE TypeOK'
  BY <1>1 DEF Begin, Running, TypeOK
<1>2. ASSUME NEW s \in Sessions, ReadSeats(s) PROVE TypeOK'
  <2>1. PICK o \in todo[s], ok \in BOOLEAN :
          /\ readable' = [readable EXCEPT ![s] = @ \cup {p \in {o} : ok}]
          /\ todo' = [todo EXCEPT ![s] = @ \ {o}]
    BY <1>2 DEF ReadSeats
  <2>2. todo' \in [Sessions -> SUBSET Orgs] /\ readable' \in [Sessions -> SUBSET Orgs]
    BY <2>1 DEF TypeOK
  <2> QED BY <1>2, <2>2 DEF ReadSeats, TypeOK, IInv, Types
<1>3. ASSUME NEW s \in Sessions, Report(s) PROVE TypeOK'
  BY <1>3 DEF Report, TypeOK
<1>4. ASSUME NEW s \in Sessions, Crash(s) PROVE TypeOK'
  <2>1. NoResult \in Result /\ NoResult.changes = {}
    BY DEF NoResult, Result
  <2>2. \A t \in Sessions : togo'[t] \subseteq row'[t].changes
    BY <1>4, <2>1 DEF Crash, TypeOK
  <2> QED BY <1>4, <2>1, <2>2 DEF Crash, TypeOK, IInv, Types
<1>5. ASSUME NEW l \in Logins, NEW o \in Orgs, Use(l, o) PROVE TypeOK'
  <2>1. now \in Nat
    BY DEF IInv, Types
  <2> QED BY <1>5, <2>1 DEF Use, TypeOK, IInv, Types
<1>6. CASE NextDay
  BY <1>6, SeatAssumption DEF NextDay, TypeOK
<1>7. CASE UNCHANGED vars
  BY <1>7 DEF vars, TypeOK
<1> QED BY <1>1, <1>2, <1>3, <1>4, <1>5, <1>6, <1>7, ComputeTypes, RevokeTypes DEF Next

(* Every variable keeps its type, for any organizations, users, policies   *)
(* and initial seats.                                                      *)
THEOREM TypeCorrect == Spec => []TypeOK
<1>1. Init => IInv /\ TypeOK
  BY InitIInv, InitTypeOK
<1>2. IInv /\ TypeOK /\ [Next]_vars => (IInv /\ TypeOK)'
  BY StepIInv, StepTypeOK
<1> QED BY <1>1, <1>2, PTL DEF Spec

-----------------------------------------------------------------------------
(* What a session proposes and what it tells.                              *)

(* The row a session works on was computed from the seats it has.          *)
Proposed(s) ==
  /\ pc[s] \in {"new", "read"} => row[s] = NoResult /\ results[s] = {}
  /\ row[s].rule = "SEAT-03" =>
       \A x \in row[s].changes :
         \E o \in Holds(view[s], x[2]) :
           /\ <<o, x[2]>> \notin row[s].changes
           /\ view[s][o][x[2]].active >= view[s][x[1]][x[2]].active

(* While a row is being revoked, the results and the row tell the truth    *)
(* about what was revoked so far and what is left.                         *)
Told(s) ==
  /\ pc[s] # "crashed" => \A x \in revoked[s] :
       \/ \E r \in results[s] : x \in r.changes /\ (r.applied \/ r.errors)
       \/ pc[s] = "revoke" /\ x \in row[s].changes /\ (row[s].applied \/ row[s].errors)
  /\ \A r \in results[s] :
       /\ r.applied => r.changes \cap revoked[s] # {}
       /\ ~r.errors /\ ~inv[s].dryRun => r.changes \subseteq revoked[s]
  /\ pc[s] = "revoke" =>
       /\ row[s].applied => row[s].changes \cap revoked[s] # {}
       /\ ~row[s].errors /\ ~inv[s].dryRun => row[s].changes \subseteq revoked[s] \cup togo[s]

TruthInv == IInv /\ TypeOK /\ \A s \in Sessions : Proposed(s) /\ Told(s)

LEMMA DuplicatesKeep ==
  ASSUME NEW v \in Pool, NEW d \in Nat, UsedBy(v, d), NEW keep,
         NEW x \in Reclaim(v, d, keep, "SEAT-03")
  PROVE  \E o \in Holds(v, x[2]) :
           /\ <<o, x[2]>> \notin Reclaim(v, d, keep, "SEAT-03")
           /\ v[o][x[2]].active >= v[x[1]][x[2]].active
<1>1. x[1] \in Holds(v, x[2]) /\ x[2] \in Logins /\ x[1] \in Orgs
  BY DEF Reclaim, Rows
<1>2. PICK k \in Holds(v, x[2]) : /\ IsKept(v, x[2], k)
                                  /\ v[x[1]][x[2]].active <= v[k][x[2]].active
  BY <1>1, KeptExists
<1>3. Reason(v, x[2], k, d) # "SEAT-03"
  BY <1>2 DEF Reason
<1>4. v[x[1]][x[2]].active \in Nat /\ v[k][x[2]].active \in Nat
  BY <1>1, SeatTypes DEF Holds
<1> QED BY <1>2, <1>3, <1>4 DEF Reclaim

LEMMA ComputeTells ==
  ASSUME TruthInv, NEW s \in Sessions, Compute(s)
  PROVE  \A t \in Sessions : (Proposed(t) /\ Told(t))'
<1> USE DEF TruthInv
<1> DEFINE rows == Reclaim(view[s], now, inv[s].keep, Head(rest[s]))
<1>1. /\ pc[s] = "next" /\ pc'[s] = "revoke"
      /\ row'[s] = [rule |-> Head(rest[s]), changes |-> rows, applied |-> FALSE,
                    errors |-> readable[s] = {} \/ (~inv[s].dryRun /\ ~inv[s].writer)]
      /\ togo'[s] = IF inv[s].dryRun \/ ~inv[s].writer THEN {} ELSE rows
      /\ UNCHANGED <<now, seats, inv, view, results, revoked>>
      /\ \A t \in Sessions : t # s => row'[t] = row[t] /\ pc'[t] = pc[t] /\ togo'[t] = togo[t]
  BY DEF Compute, TypeOK
<1>2. view[s] \in Pool /\ now \in Nat /\ UsedBy(view[s], now)
  BY DEF IInv, Types
<1>3. Proposed(s)'
  <2>1. ASSUME Head(rest[s]) = "SEAT-03", NEW x \in rows
        PROVE  \E o \in Holds(view[s], x[2]) :
                 /\ <<o, x[2]>> \notin rows
                 /\ view[s][o][x[2]].active >= view[s][x[1]][x[2]].active
    BY <1>2, <2>1, DuplicatesKeep
  <2> HIDE DEF rows
  <2>2. row'[s].rule = Head(rest[s]) /\ row'[s].changes = rows
    BY <1>1
  <2> QED BY <1>1, <2>1, <2>2 DEF Proposed
<1>4. Told(s)'
  <2> HIDE DEF rows
  <2>1. ~row'[s].applied /\ row'[s].changes = rows
    BY <1>1
  <2>2. row'[s].errors = (readable[s] = {} \/ (~inv[s].dryRun /\ ~inv[s].writer))
    BY <1>1
  <2>3. ~row'[s].errors /\ ~inv[s].dryRun => inv[s].writer
    BY <2>2
  <2>4. ~row'[s].errors /\ ~inv[s].dryRun => togo'[s] = rows
    BY <1>1, <2>3
  <2>5. inv'[s] = inv[s] /\ revoked'[s] = revoked[s] /\ results'[s] = results[s]
        /\ pc[s] = "next" /\ pc'[s] = "revoke"
    BY <1>1
  <2> QED BY <2>1, <2>4, <2>5 DEF Told
<1>5. ASSUME NEW t \in Sessions, t # s PROVE (Proposed(t) /\ Told(t))'
  <2>1. /\ row'[t] = row[t] /\ pc'[t] = pc[t] /\ togo'[t] = togo[t]
        /\ UNCHANGED <<inv, view, results, revoked>>
    BY <1>1, <1>5
  <2> QED BY <2>1 DEF Proposed, Told
<1> QED BY <1>3, <1>4, <1>5

LEMMA RevokeTells ==
  ASSUME TruthInv, NEW s \in Sessions, Revoke(s)
  PROVE  \A t \in Sessions : (Proposed(t) /\ Told(t))'
<1> USE DEF TruthInv
<1>1. PICK x \in togo[s], answer \in {"ok", "refused", "lost"} :
        LET gone == {y \in togo[s] : y[1] = x[1]}
        IN /\ togo' = [togo EXCEPT ![s] = @ \ gone]
           /\ row' = [row EXCEPT ![s] = Answer(@, answer)]
           /\ answer = "refused" => revoked' = revoked
           /\ answer # "refused" => revoked' = [revoked EXCEPT ![s] = @ \cup gone]
  BY DEF Revoke
<1> DEFINE gone == {y \in togo[s] : y[1] = x[1]}
<1>2. /\ pc[s] = "revoke" /\ pc' = pc /\ UNCHANGED <<inv, view, results>>
      /\ \A t \in Sessions : t # s => row'[t] = row[t] /\ togo'[t] = togo[t]
                                      /\ revoked'[t] = revoked[t]
      /\ togo'[s] = togo[s] \ gone
      /\ revoked'[s] = IF answer = "refused" THEN revoked[s] ELSE revoked[s] \cup gone
      /\ row'[s] = Answer(row[s], answer)
  BY <1>1 DEF Revoke, TypeOK
<1>3. /\ row'[s].changes = row[s].changes /\ row'[s].rule = row[s].rule
      /\ row'[s].applied <=> row[s].applied \/ answer = "ok"
      /\ row'[s].errors <=> row[s].errors \/ answer # "ok"
  BY <1>2, AnswerType DEF TypeOK
<1>4. x \in gone /\ gone \subseteq row[s].changes
  BY DEF TypeOK
<1> HIDE DEF gone
<1>5. Proposed(s)'
  BY <1>2, <1>3 DEF Proposed
<1>6. Told(s)'
  <2>1. ASSUME NEW y \in revoked'[s]
        PROVE  \/ \E r \in results'[s] : y \in r.changes /\ (r.applied \/ r.errors)
               \/ pc'[s] = "revoke" /\ y \in row'[s].changes /\ (row'[s].applied \/ row'[s].errors)
    <3>1. CASE y \in revoked[s]
      BY <1>2, <1>3, <3>1 DEF Told
    <3>2. CASE y \in gone
      BY <1>2, <1>3, <1>4, <3>2
    <3> QED BY <1>2, <2>1, <3>1, <3>2
  <2>2. revoked[s] \subseteq revoked'[s]
    BY <1>2
  <2>3. ASSUME NEW r \in results'[s]
        PROVE  /\ r.applied => r.changes \cap revoked'[s] # {}
               /\ ~r.errors /\ ~inv'[s].dryRun => r.changes \subseteq revoked'[s]
    BY <1>2, <2>2, <2>3 DEF Told
  <2>4. row'[s].applied => row'[s].changes \cap revoked'[s] # {}
    BY <1>2, <1>3, <1>4, <2>2 DEF Told
  <2>5. ~row'[s].errors /\ ~inv'[s].dryRun => row'[s].changes \subseteq revoked'[s] \cup togo'[s]
    BY <1>2, <1>3 DEF Told
  <2> QED BY <2>1, <2>3, <2>4, <2>5 DEF Told
<1>7. ASSUME NEW t \in Sessions, t # s PROVE (Proposed(t) /\ Told(t))'
  BY <1>2, <1>7 DEF Proposed, Told
<1> QED BY <1>5, <1>6, <1>7

LEMMA StepTruth ==
  ASSUME TruthInv, [Next]_vars
  PROVE  TruthInv'
<1> USE DEF TruthInv
<1>1. IInv' /\ TypeOK'
  BY StepIInv, StepTypeOK
<1>2. ASSUME NEW s \in Sessions, Begin(s), NEW t \in Sessions PROVE (Proposed(t) /\ Told(t))'
  <2>1. /\ UNCHANGED <<inv, view, row, togo, results, revoked>>
        /\ pc'[t] = pc[t] \/ (pc[t] = "new" /\ pc'[t] = "read")
    BY <1>2 DEF Begin, TypeOK
  <2> QED BY <2>1 DEF Proposed, Told
<1>3. ASSUME NEW s \in Sessions, ReadSeats(s), NEW t \in Sessions PROVE (Proposed(t) /\ Told(t))'
  <2>1. CASE t = s
    <3>1. /\ UNCHANGED <<inv, row, togo, results, revoked>> /\ pc[s] = "read"
          /\ pc'[s] \in {"read", "next"}
      BY <1>3 DEF ReadSeats, TypeOK
    <3>2. row[s] = NoResult /\ results[s] = {} /\ revoked[s] = {}
      BY <3>1 DEF Proposed, IInv, ReadFirst
    <3> QED BY <2>1, <3>1, <3>2 DEF Proposed, Told, NoResult
  <2>2. CASE t # s
    <3>1. /\ UNCHANGED <<inv, row, togo, results, revoked>>
          /\ pc'[t] = pc[t] /\ view'[t] = view[t]
      BY <1>3, <2>2 DEF ReadSeats, TypeOK
    <3> QED BY <3>1 DEF Proposed, Told
  <2> QED BY <2>1, <2>2
<1>4. ASSUME NEW s \in Sessions, Report(s), NEW t \in Sessions PROVE (Proposed(t) /\ Told(t))'
  <2>1. CASE t = s
    <3>1. /\ UNCHANGED <<inv, view, row, togo, revoked>> /\ pc[s] = "revoke" /\ togo[s] = {}
          /\ pc'[s] \in {"next", "done"} /\ results'[s] = results[s] \cup {row[s]}
      BY <1>4 DEF Report, TypeOK
    <3>2. Proposed(s)'
      BY <3>1 DEF Proposed
    <3>3. Told(s)'
      BY <3>1 DEF Told
    <3> QED BY <2>1, <3>2, <3>3
  <2>2. CASE t # s
    <3>1. /\ UNCHANGED <<inv, view, row, togo, revoked>>
          /\ pc'[t] = pc[t] /\ results'[t] = results[t]
      BY <1>4, <2>2 DEF Report, TypeOK
    <3> QED BY <3>1 DEF Proposed, Told
  <2> QED BY <2>1, <2>2
<1>5. ASSUME NEW s \in Sessions, Crash(s), NEW t \in Sessions PROVE (Proposed(t) /\ Told(t))'
  <2>1. CASE t = s
    <3>1. row'[s] = NoResult /\ results'[s] = {} /\ pc'[s] = "crashed"
      BY <1>5 DEF Crash, TypeOK
    <3> QED BY <2>1, <3>1 DEF Proposed, Told, NoResult
  <2>2. CASE t # s
    <3>1. /\ UNCHANGED <<inv, revoked>> /\ pc'[t] = pc[t] /\ view'[t] = view[t]
          /\ row'[t] = row[t] /\ togo'[t] = togo[t] /\ results'[t] = results[t]
      BY <1>5, <2>2 DEF Crash, TypeOK
    <3> QED BY <3>1 DEF Proposed, Told
  <2> QED BY <2>1, <2>2
<1>6. ASSUME UNCHANGED <<inv, pc, view, row, togo, results, revoked>>, NEW t \in Sessions
      PROVE  (Proposed(t) /\ Told(t))'
  BY <1>6 DEF Proposed, Told
<1>7. ASSUME NEW l \in Logins, NEW o \in Orgs, Use(l, o)
      PROVE  UNCHANGED <<inv, pc, view, row, togo, results, revoked>>
  BY <1>7 DEF Use
<1>8. NextDay \/ UNCHANGED vars => UNCHANGED <<inv, pc, view, row, togo, results, revoked>>
  BY DEF NextDay, vars
<1> SUFFICES ASSUME NEW t \in Sessions PROVE (Proposed(t) /\ Told(t))'
  BY <1>1
<1> QED BY <1>2, <1>3, <1>4, <1>5, <1>6, <1>7, <1>8, ComputeTells, RevokeTells DEF Next

LEMMA AlwaysTruth == Spec => []TruthInv
<1>1. Init => TruthInv
  <2> SUFFICES ASSUME Init, NEW s \in Sessions PROVE Proposed(s) /\ Told(s)
    BY InitIInv, InitTypeOK DEF TruthInv
  <2> QED BY DEF Init, Proposed, Told, NoResult
<1> QED BY <1>1, StepTruth, PTL DEF Spec

(* What SEAT-03 proposes leaves a seat it does not propose that was used   *)
(* at least as recently, for any number of seats of a user and any ties.   *)
THEOREM DuplicatesKept == Spec => []DuplicateKeepsMostActive
<1>1. TruthInv => DuplicateKeepsMostActive
  BY DEF TruthInv, Proposed, DuplicateKeepsMostActive
<1> QED BY <1>1, AlwaysTruth, PTL

(* A seat GitHub cancelled is on a result that says so or has an error.    *)
THEOREM ResultsTrue == Spec => []ResultsTellTheTruth
<1>1. TruthInv => ResultsTellTheTruth
  BY DEF TruthInv, Told, ResultsTellTheTruth
<1> QED BY <1>1, AlwaysTruth, PTL

-----------------------------------------------------------------------------
(* A working user keeps a seat.  Until a session takes one of a user it    *)
(* met another session or the user at work over, GitHub has the seat the   *)
(* user worked with last: a session that runs alone has in its cache what  *)
(* GitHub has but for what it revoked itself, so the seat it keeps of a    *)
(* user's is one of those used last.                                       *)

Spoiled(l) ==
  \E s \in Sessions : (\E o \in Orgs : <<o, l>> \in revoked[s]) /\ (s \in met \/ l \in late[s])

Lone ==
  \A s, t \in Sessions : Running(s) /\ Running(t) /\ s \notin met => s = t

Mirrors ==
  \A s \in Sessions, l \in Logins : Running(s) /\ s \notin met /\ l \notin late[s] =>
    \A o \in Holds(view[s], l) : view[s][o][l] = seats[o][l] \/ <<o, l>> \in revoked[s]

Gone == \A s \in Sessions, o \in Orgs, l \in Logins : <<o, l>> \in revoked[s] => seats[o][l] = NoSeat

Held ==
  \A s \in Sessions :
    /\ pc[s] = "new" => view[s] = Nothing
    /\ \A x \in togo[s] : x[1] \in Holds(view[s], x[2])

Dated == \A l \in Logins : used[l] <= now /\ \A o \in Orgs : seats[o][l].active <= used[l]

Working ==
  \A l \in Logins : Active(used[l]) =>
    Spoiled(l) \/ \E o \in Holds(seats, l) : seats[o][l].active = used[l]

WorkInv == IInv /\ TypeOK /\ Lone /\ Mirrors /\ Gone /\ Held /\ Dated /\ Working

LEMMA NothingHeld == \A l \in Logins : Holds(Nothing, l) = {}
BY DEF Holds, Nothing

LEMMA InitWork == Init => WorkInv
<1> SUFFICES ASSUME Init PROVE WorkInv
  OBVIOUS
<1>1. IInv /\ TypeOK
  BY InitIInv, InitTypeOK
<1>2. Lone /\ Mirrors /\ Gone /\ Held
  BY DEF Init, Running, Lone, Mirrors, Gone, Held
<1>3. \A l \in Logins :
        /\ used[l] \in {seats[o][l].active : o \in Orgs}
        /\ \A o \in Orgs : seats[o][l].active <= used[l]
  <2> SUFFICES ASSUME NEW l \in Logins
               PROVE  /\ Newest(seats, l) \in {seats[o][l].active : o \in Orgs}
                      /\ \A o \in Orgs : seats[o][l].active <= Newest(seats, l)
    BY DEF Init
  <2> DEFINE days == {seats[o][l].active : o \in Orgs}
  <2>1. \A o \in Orgs : seats[o][l].active \in Nat /\ seats[o][l].active <= Today
    BY SeatAssumption, SeatTypes DEF Init
  <2>2. days \in SUBSET Nat /\ days # {} /\ \A d \in days : d <= Today
    <3>1. Orgs # {}
      BY SeatAssumption
    <3> QED BY <2>1, <3>1
  <2>3. \E d \in days : \A e \in days : e <= d
    BY <2>2, SeatAssumption, GreatestExists
  <2>4. \E d \in days : \A o \in Orgs : seats[o][l].active <= d
    BY <2>3
  <2> QED BY <2>4 DEF Newest
<1>4. Dated
  BY <1>3, SeatAssumption DEF Init, Dated
<1>5. Working
  BY <1>3 DEF Working, Active, Holds, NoSeat
<1> QED BY <1>1, <1>2, <1>4, <1>5 DEF WorkInv

(* Steps that leave the seats, the users and what was revoked as they are. *)
LEMMA QuietWork ==
  ASSUME Dated, Working, Gone, UNCHANGED <<now, seats, revoked, used, late>>, met \subseteq met'
  PROVE  Dated' /\ Working' /\ Gone'
BY DEF Dated, Working, Spoiled, Gone, Active

LEMMA BeginWork ==
  ASSUME WorkInv, NEW s \in Sessions, Begin(s)
  PROVE  (Lone /\ Mirrors /\ Gone /\ Held /\ Dated /\ Working)'
<1> USE DEF WorkInv
<1>1. /\ pc[s] = "new" /\ pc'[s] = "read" /\ \A t \in Sessions : t # s => pc'[t] = pc[t]
      /\ UNCHANGED <<now, seats, inv, view, togo, revoked, used, late>>
      /\ met \subseteq met'
      /\ \A t \in Sessions : Running(t) => t \in met' /\ s \in met'
  BY DEF Begin, TypeOK
<1>2. Lone'
  BY <1>1 DEF Lone, Running
<1>3. Held' /\ view[s] = Nothing
  BY <1>1 DEF Held
<1>4. Mirrors'
  <2> SUFFICES ASSUME NEW t \in Sessions, NEW l \in Logins, Running(t)', t \notin met',
                      l \notin late'[t], NEW o \in Holds(view'[t], l)
               PROVE  view'[t][o][l] = seats'[o][l] \/ <<o, l>> \in revoked'[t]
    BY DEF Mirrors
  <2>1. t # s
    BY <1>1, <1>3, NothingHeld
  <2>2. Running(t) /\ t \notin met
    BY <1>1, <2>1 DEF Running
  <2> QED BY <1>1, <2>2 DEF Mirrors
<1> QED BY <1>1, <1>2, <1>3, <1>4, QuietWork

LEMMA ReadWork ==
  ASSUME WorkInv, NEW s \in Sessions, ReadSeats(s)
  PROVE  (Lone /\ Mirrors /\ Gone /\ Held /\ Dated /\ Working)'
<1> USE DEF WorkInv
<1>1. PICK o \in todo[s], ok \in BOOLEAN :
        view' = [view EXCEPT ![s][o] = IF ok THEN seats[o] ELSE @]
  BY DEF ReadSeats
<1>2. /\ pc[s] = "read" /\ pc'[s] \in {"read", "next"}
      /\ \A t \in Sessions : t # s => pc'[t] = pc[t] /\ view'[t] = view[t]
      /\ UNCHANGED <<now, seats, inv, togo, revoked, used, late, met>>
  BY DEF ReadSeats, TypeOK
<1>3. o \in Orgs /\ \A p \in Orgs : view'[s][p] = IF p = o /\ ok THEN seats[p] ELSE view[s][p]
  BY <1>1 DEF TypeOK, Pool
<1>4. togo[s] = {}
  BY <1>2 DEF IInv, ReadFirst
<1>5. Lone'
  BY <1>2 DEF Lone, Running
<1>6. Held'
  BY <1>2, <1>4 DEF Held
<1>7. Mirrors'
  <2> SUFFICES ASSUME NEW t \in Sessions, NEW l \in Logins, Running(t)', t \notin met',
                      l \notin late'[t], NEW p \in Holds(view'[t], l)
               PROVE  view'[t][p][l] = seats'[p][l] \/ <<p, l>> \in revoked'[t]
    BY DEF Mirrors
  <2>1. Running(t) /\ t \notin met /\ l \notin late[t]
    BY <1>2 DEF Running
  <2>2. CASE t = s /\ p = o /\ ok
    BY <1>2, <1>3, <2>2
  <2>3. CASE ~(t = s /\ p = o /\ ok)
    <3>1. view'[t][p] = view[t][p] /\ p \in Holds(view[t], l)
      BY <1>2, <1>3, <2>3 DEF Holds
    <3> QED BY <1>2, <2>1, <3>1 DEF Mirrors
  <2> QED BY <2>2, <2>3
<1> QED BY <1>2, <1>5, <1>6, <1>7, QuietWork

LEMMA ComputeWork ==
  ASSUME WorkInv, NEW s \in Sessions, Compute(s)
  PROVE  (Lone /\ Mirrors /\ Gone /\ Held /\ Dated /\ Working)'
<1> USE DEF WorkInv
<1>1. /\ pc[s] = "next" /\ pc'[s] = "revoke"
      /\ \A t \in Sessions : t # s => pc'[t] = pc[t] /\ togo'[t] = togo[t]
      /\ togo'[s] \subseteq Reclaim(view[s], now, inv[s].keep, Head(rest[s]))
      /\ UNCHANGED <<now, seats, inv, view, revoked, used, late, met>>
  BY DEF Compute, TypeOK
<1>2. Lone' /\ Mirrors'
  BY <1>1 DEF Lone, Mirrors, Running
<1>3. Held'
  BY <1>1 DEF Held, Reclaim
<1> QED BY <1>1, <1>2, <1>3, QuietWork

(* The heart of the matter: a session that runs alone takes the seat a     *)
(* user worked with last only if another one, used as lately, stays.       *)
LEMMA LoneSpares ==
  ASSUME WorkInv, NEW s \in Sessions, Running(s), s \notin met,
         NEW l \in Logins, l \notin late[s], Active(used[l]),
         NEW o \in Holds(seats, l), seats[o][l].active = used[l], <<o, l>> \in togo[s]
  PROVE  \E k \in Holds(seats, l) : seats[k][l].active = used[l] /\ <<k, l>> \notin togo[s]
<1> USE DEF WorkInv
<1>1. view[s] \in Pool /\ UsedBy(view[s], now) /\ now \in Nat /\ pc[s] # "crashed"
  BY DEF IInv, Types, Running
<1>2. o \in Holds(view[s], l) /\ o \in Orgs
  <2>1. <<o, l>>[1] \in Holds(view[s], <<o, l>>[2])
    BY DEF Held
  <2> QED BY <2>1 DEF Holds
<1>3. view[s][o][l] = seats[o][l]
  BY <1>2 DEF Mirrors, Gone, Holds
<1>4. PICK k \in Holds(view[s], l) : /\ IsKept(view[s], l, k)
                                     /\ view[s][o][l].active <= view[s][k][l].active
  BY <1>1, <1>2, KeptExists
<1>5. k \in Orgs /\ view[s][k][l].active \in Nat /\ used[l] \in Nat
  BY <1>1, <1>4, SeatTypes DEF Holds, TypeOK
<1>6. used[l] <= view[s][k][l].active /\ view[s][k][l].active # 0
  BY <1>3, <1>4, <1>5 DEF Active
<1>7. Reason(view[s], l, k, now) = "none"
  <2>1. DormantDays \in Nat
    BY SeatAssumption
  <2>2. DormantDays > 0 => now - view[s][k][l].active < DormantDays
    BY <1>1, <1>5, <1>6, <2>1 DEF Active
  <2> QED BY <1>1, <1>4, <1>5, <1>6, <2>1, <2>2 DEF Reason
<1>8. <<k, l>> \notin togo[s] \cup revoked[s]
  <2>1. \A x \in togo[s] \cup revoked[s] : Reason(view[s], x[2], x[1], now) # "none"
    BY <1>1 DEF IInv, Reclaimable
  <2> QED BY <1>7, <2>1
<1>9. view[s][k][l] = seats[k][l]
  BY <1>4, <1>8 DEF Mirrors
<1>10. k \in Holds(seats, l) /\ seats[k][l].active <= used[l]
  BY <1>4, <1>5, <1>9 DEF Holds, Dated
<1> QED BY <1>5, <1>6, <1>8, <1>9, <1>10

LEMMA RevokeWork ==
  ASSUME WorkInv, NEW s \in Sessions, Revoke(s)
  PROVE  (Lone /\ Mirrors /\ Gone /\ Held /\ Dated /\ Working)'
<1> USE DEF WorkInv
<1>1. PICK x \in togo[s] :
        LET gone == {y \in togo[s] : y[1] = x[1]}
            logins == {y[2] : y \in gone}
        IN /\ togo' = [togo EXCEPT ![s] = @ \ gone]
           /\ \/ UNCHANGED <<seats, revoked>>
              \/ /\ seats' = [seats EXCEPT ![x[1]] =
                                [l \in Logins |-> IF l \in logins THEN NoSeat ELSE @[l]]]
                 /\ revoked' = [revoked EXCEPT ![s] = @ \cup gone]
  BY DEF Revoke
<1>2. /\ pc[s] = "revoke" /\ UNCHANGED <<now, inv, pc, view, used, late, met>>
  BY DEF Revoke
<1>3. /\ \A t \in Sessions : togo'[t] \subseteq togo[t]
      /\ \A t \in Sessions : t # s => revoked'[t] = revoked[t]
      /\ \A t \in Sessions : revoked[t] \subseteq revoked'[t]
  BY <1>1 DEF TypeOK
<1>4. x \in Rows /\ x[1] \in Orgs /\ x[2] \in Logins
  BY DEF TypeOK, Rows
<1>5. \A o \in Orgs, l \in Logins :
        \/ seats'[o][l] = seats[o][l] /\ (<<o, l>> \in revoked'[s] => <<o, l>> \in revoked[s])
        \/ /\ seats'[o][l] = NoSeat /\ <<o, l>> \in togo[s]
           /\ <<o, l>> \in revoked'[s]
  <2> SUFFICES ASSUME NEW o \in Orgs, NEW l \in Logins
               PROVE  \/ /\ seats'[o][l] = seats[o][l]
                         /\ <<o, l>> \in revoked'[s] => <<o, l>> \in revoked[s]
                      \/ /\ seats'[o][l] = NoSeat /\ <<o, l>> \in togo[s]
                         /\ <<o, l>> \in revoked'[s]
    OBVIOUS
  <2> DEFINE gone == {y \in togo[s] : y[1] = x[1]}
             logins == {y[2] : y \in gone}
  <2>1. CASE UNCHANGED <<seats, revoked>>
    BY <2>1
  <2>2. CASE /\ seats' = [seats EXCEPT ![x[1]] =
                            [m \in Logins |-> IF m \in logins THEN NoSeat ELSE @[m]]]
             /\ revoked' = [revoked EXCEPT ![s] = @ \cup gone]
    <3>1. l \in logins <=> <<x[1], l>> \in togo[s]
      <4>1. \A y \in togo[s] : y = <<y[1], y[2]>>
        BY DEF TypeOK, Rows
      <4>2. l \in logins <=> \E y \in togo[s] : y[1] = x[1] /\ y[2] = l
        OBVIOUS
      <4> QED BY <4>1, <4>2
    <3>2. revoked'[s] = revoked[s] \cup gone
      BY <2>2 DEF TypeOK
    <3>3. <<o, l>> \in gone <=> o = x[1] /\ <<o, l>> \in togo[s]
      OBVIOUS
    <3> HIDE DEF gone, logins
    <3>4. seats'[o][l] = IF o = x[1] /\ l \in logins THEN NoSeat ELSE seats[o][l]
      BY <1>4, <2>2 DEF TypeOK, Pool, IInv, Types
    <3> QED BY <3>1, <3>2, <3>3, <3>4
  <2> QED BY <1>1, <2>1, <2>2
<1>6. Lone' /\ Held'
  BY <1>2, <1>3 DEF Lone, Held, Running
<1>7. Gone'
  BY <1>3, <1>5 DEF Gone
<1>8. Dated'
  <2>1. ASSUME NEW l \in Logins, NEW o \in Orgs PROVE seats'[o][l].active <= used[l]
    <3>1. used[l] \in Nat /\ NoSeat.active = 0 /\ seats[o][l].active <= used[l]
      BY DEF TypeOK, NoSeat, Dated
    <3>2. seats'[o][l] = seats[o][l] \/ seats'[o][l] = NoSeat
      BY <1>5
    <3> QED BY <3>1, <3>2
  <2> QED BY <1>2, <2>1 DEF Dated
<1>9. Mirrors'
  <2> SUFFICES ASSUME NEW t \in Sessions, NEW l \in Logins, Running(t), t \notin met,
                      l \notin late[t], NEW o \in Holds(view[t], l)
               PROVE  view[t][o][l] = seats'[o][l] \/ <<o, l>> \in revoked'[t]
    BY <1>2 DEF Mirrors, Running
  <2>1. t = s
    BY <1>2 DEF Lone, Running
  <2>2. view[t][o][l] = seats[o][l] \/ <<o, l>> \in revoked[t]
    BY DEF Mirrors
  <2> QED BY <1>3, <1>5, <2>1, <2>2 DEF Holds
<1>10. Working'
  <2> SUFFICES ASSUME NEW l \in Logins, Active(used[l]), ~Spoiled(l)'
               PROVE  \E o \in Holds(seats', l) : seats'[o][l].active = used[l]
    BY <1>2 DEF Working, Active
  <2>1. ~Spoiled(l)
    BY <1>2, <1>3 DEF Spoiled
  <2>2. PICK o \in Holds(seats, l) : seats[o][l].active = used[l]
    BY <2>1 DEF Working
  <2>3. o \in Orgs
    BY DEF Holds
  <2>4. CASE seats'[o][l] = seats[o][l]
    BY <2>2, <2>4 DEF Holds
  <2>5. CASE <<o, l>> \in togo[s] /\ <<o, l>> \in revoked'[s]
    <3>1. s \notin met /\ l \notin late[s]
      BY <1>2, <2>3, <2>5 DEF Spoiled
    <3>2. PICK k \in Holds(seats, l) : seats[k][l].active = used[l] /\ <<k, l>> \notin togo[s]
      BY <1>2, <2>2, <2>5, <3>1, LoneSpares DEF Running
    <3>3. seats'[k][l] = seats[k][l]
      BY <1>5, <3>2 DEF Holds
    <3> QED BY <3>2, <3>3 DEF Holds
  <2> QED BY <1>5, <2>3, <2>4, <2>5
<1> QED BY <1>6, <1>7, <1>8, <1>9, <1>10

LEMMA UseWork ==
  ASSUME WorkInv, NEW l \in Logins, NEW o \in Orgs, Use(l, o)
  PROVE  (Lone /\ Mirrors /\ Gone /\ Held /\ Dated /\ Working)'
<1> USE DEF WorkInv
<1>1. /\ o \in Holds(seats, l)
      /\ UNCHANGED <<now, inv, pc, view, togo, revoked, met>>
      /\ late' = [s \in Sessions |-> late[s] \cup {u \in {l} : Running(s)}]
      /\ used' = [used EXCEPT ![l] = now]
      /\ seats' = [seats EXCEPT ![o][l].active = now]
  BY DEF Use
<1>2. seats[o][l] \in Seat /\ now \in Nat
  BY <1>1, SeatTypes DEF Holds, IInv, Types
<1>3. /\ seats'[o][l] = [seats[o][l] EXCEPT !.active = now]
      /\ \A p \in Orgs, m \in Logins : p # o \/ m # l => seats'[p][m] = seats[p][m]
  BY <1>1 DEF IInv, Types, Pool
<1>4. seats'[o][l].active = now /\ seats'[o][l] # NoSeat
  <2>1. seats'[o][l].plan = seats[o][l].plan
    BY <1>2, <1>3 DEF Seat
  <2>2. seats[o][l].plan # "none"
    BY <1>2 DEF Seat
  <2> QED BY <1>2, <1>3, <2>1, <2>2 DEF Seat, NoSeat
<1>5. used'[l] = now /\ \A m \in Logins : m # l => used'[m] = used[m]
  BY <1>1 DEF TypeOK
<1>6. Lone' /\ Held'
  BY <1>1 DEF Lone, Held, Running
<1>7. Gone'
  BY <1>1, <1>3 DEF Gone, Holds
<1>8. Dated'
  <2> SUFFICES ASSUME NEW m \in Logins
               PROVE  used'[m] <= now /\ \A p \in Orgs : seats'[p][m].active <= used'[m]
    BY <1>1 DEF Dated
  <2>1. CASE m # l
    BY <1>3, <1>5, <2>1 DEF Dated
  <2>2. CASE m = l
    <3>1. \A p \in Orgs : seats[p][l].active \in Nat /\ seats[p][l].active <= now
      BY SeatTypes DEF IInv, Types, UsedBy
    <3>2. ASSUME NEW p \in Orgs PROVE seats'[p][l].active <= now
      <4>1. CASE p = o
        <5>1. seats'[p][l].active = now
          BY <1>4, <4>1
        <5> QED BY <1>2, <5>1
      <4>2. CASE p # o
        <5>1. seats'[p][l] = seats[p][l]
          BY <1>3, <4>2
        <5> QED BY <3>1, <5>1
      <4> QED BY <4>1, <4>2
    <3> QED BY <1>2, <1>5, <2>2, <3>2
  <2> QED BY <2>1, <2>2
<1>9. Mirrors'
  <2> SUFFICES ASSUME NEW s \in Sessions, NEW m \in Logins, Running(s), s \notin met,
                      m \notin late'[s], NEW p \in Holds(view[s], m)
               PROVE  view[s][p][m] = seats'[p][m] \/ <<p, m>> \in revoked[s]
    BY <1>1 DEF Mirrors, Running
  <2>1. m # l /\ m \notin late[s]
    BY <1>1
  <2> QED BY <1>3, <2>1 DEF Mirrors, Holds
<1>10. Working'
  <2> SUFFICES ASSUME NEW m \in Logins, Active(used[m])'
               PROVE  Spoiled(m)' \/ \E p \in Holds(seats', m) : seats'[p][m].active = used'[m]
    BY DEF Working
  <2>1. CASE m = l
    BY <1>4, <1>5, <2>1 DEF Holds
  <2>2. CASE m # l
    <3>1. Active(used[m])
      BY <1>1, <1>5, <2>2 DEF Active
    <3>2. Spoiled(m) => Spoiled(m)'
      BY <1>1 DEF Spoiled
    <3>3. \A p \in Orgs : seats'[p][m] = seats[p][m]
      BY <1>3, <2>2
    <3> QED BY <1>5, <2>2, <3>1, <3>2, <3>3 DEF Working, Holds
  <2> QED BY <2>1, <2>2
<1> QED BY <1>6, <1>7, <1>8, <1>9, <1>10

LEMMA StepWork ==
  ASSUME WorkInv, [Next]_vars
  PROVE  WorkInv'
<1>1. IInv' /\ TypeOK'
  BY StepIInv, StepTypeOK DEF WorkInv
<1> SUFFICES (Lone /\ Mirrors /\ Gone /\ Held /\ Dated /\ Working)'
  BY <1>1 DEF WorkInv
<1>2. ASSUME NEW s \in Sessions, Report(s)
      PROVE  (Lone /\ Mirrors /\ Gone /\ Held /\ Dated /\ Working)'
  <2>1. /\ pc[s] = "revoke" /\ \A t \in Sessions : t # s => pc'[t] = pc[t]
        /\ pc'[s] \in {"next", "done"}
        /\ UNCHANGED <<now, seats, inv, view, togo, revoked, used, late, met>>
    BY <1>2 DEF Report, WorkInv, TypeOK
  <2>2. Lone' /\ Mirrors' /\ Held'
    BY <2>1 DEF WorkInv, Lone, Mirrors, Held, Running
  <2> QED BY <2>1, <2>2, QuietWork DEF WorkInv
<1>3. ASSUME NEW s \in Sessions, Crash(s)
      PROVE  (Lone /\ Mirrors /\ Gone /\ Held /\ Dated /\ Working)'
  <2>1. /\ pc'[s] = "crashed" /\ togo'[s] = {}
        /\ \A t \in Sessions : t # s => pc'[t] = pc[t] /\ view'[t] = view[t] /\ togo'[t] = togo[t]
        /\ UNCHANGED <<now, seats, inv, revoked, used, late, met>>
    BY <1>3 DEF Crash, WorkInv, TypeOK
  <2>2. Lone' /\ Held'
    BY <2>1 DEF WorkInv, Lone, Held, Running
  <2>3. Mirrors'
    BY <2>1 DEF WorkInv, Mirrors, Running
  <2> QED BY <2>1, <2>2, <2>3, QuietWork DEF WorkInv
<1>4. CASE NextDay
  <2>1. /\ now' = now + 1 /\ now \in Nat
        /\ UNCHANGED <<seats, inv, pc, view, togo, revoked, used, late, met>>
    BY <1>4 DEF NextDay, WorkInv, IInv, Types
  <2>2. Lone' /\ Mirrors' /\ Gone' /\ Held'
    BY <2>1 DEF WorkInv, Lone, Mirrors, Gone, Held, Running
  <2>3. Dated'
    BY <2>1 DEF WorkInv, Dated, TypeOK
  <2>4. \A l \in Logins : Active(used[l])' => Active(used[l])
    <3>1. DormantDays \in Nat /\ \A l \in Logins : used[l] \in Nat
      BY SeatAssumption DEF WorkInv, TypeOK
    <3> QED BY <2>1, <3>1 DEF Active
  <2>5. Working'
    BY <2>1, <2>4 DEF WorkInv, Working, Spoiled
  <2> QED BY <2>2, <2>3, <2>5
<1>5. CASE UNCHANGED vars
  <2>1. UNCHANGED <<now, seats, inv, pc, view, togo, revoked, used, late, met>>
    BY <1>5 DEF vars
  <2>2. Lone' /\ Mirrors' /\ Held'
    BY <2>1 DEF WorkInv, Lone, Mirrors, Held, Running
  <2> QED BY <2>1, <2>2, QuietWork DEF WorkInv
<1> QED BY <1>2, <1>3, <1>4, <1>5, BeginWork, ReadWork, ComputeWork, RevokeWork, UseWork DEF Next

(* A user who worked within dormant_days has a seat left, unless sessions  *)
(* overlapped or the user worked while one ran; for any number of users,   *)
(* organizations and sessions one after the other.                         *)
THEOREM WorkersKeepSeat == Spec => []WorkingUsersKeepSeat
<1>1. WorkInv => WorkingUsersKeepSeat
  BY DEF WorkInv, Working, Spoiled, WorkingUsersKeepSeat
<1> QED BY <1>1, InitWork, StepWork, PTL DEF Spec
=============================================================================
