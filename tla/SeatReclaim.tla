------------------------------- MODULE SeatReclaim -------------------------------
(***************************************************************************)
(* Reclaiming Copilot seats: `apply --rules SEAT-0x --allow-destructive`.  *)
(* A session reads the seats of one organization after the other into its  *)
(* cache.  Each of its rules then computes the reclaim list anew, from the *)
(* cached seats and the time it is now, and revokes its own class of rows  *)
(* organization by organization.  Meanwhile days pass, users work, and     *)
(* other sessions do the same.                                             *)
(***************************************************************************)
EXTENDS Integers, Sequences, FiniteSets

CONSTANTS
  Orgs,          \* the organizations, by their place in the order of names
  Place,         \* Place[o]: where GitHub lists organization o
  Logins,        \* the users
  NeverDays,     \* never_activated_days of the policy, 0 to disable it
  DormantDays,   \* dormant_days of the policy, 0 to disable it
  Sessions,
  Invocations,   \* what a session may run with
  Pools,         \* the seats there may be at first
  Today,         \* the day it is at first
  LastDay        \* bound: the last day

SeatRules == {"SEAT-01", "SEAT-02", "SEAT-03"}

(* The rules of --rules in their order, --dry-run, the logins the policy   *)
(* keeps, and whether the client can write.                                *)
Invocation ==
  [rules: Seq(SeatRules), dryRun: BOOLEAN, keep: SUBSET Logins, writer: BOOLEAN]

(* Days are whole and start at 1; active = 0 is a seat that was never used.*)
Seat == [plan: {"business", "enterprise", "unknown"}, created: Nat, active: Nat]

NoSeat == [plan |-> "none", created |-> 0, active |-> 0]

(* Who holds which seat.                                                  *)
Pool == [Orgs -> [Logins -> Seat \cup {NoSeat}]]

ASSUME SeatAssumption ==
  /\ Orgs \subseteq Nat /\ Orgs # {}
  /\ Place \in [Orgs -> Nat]
  /\ \A o, p \in Orgs : Place[o] = Place[p] => o = p
  /\ NeverDays \in Nat /\ DormantDays \in Nat
  /\ Invocations \subseteq Invocation
  /\ Today \in Nat \ {0} /\ LastDay \in Nat /\ Today <= LastDay
  /\ Pools \subseteq Pool
  /\ \A p \in Pools, o \in Orgs, l \in Logins : p[o][l].active <= Today

VARIABLES
  now,       \* the day
  seats,     \* GitHub: the seat a user holds in an organization
  inv,       \* the invocation of a session
  pc,        \* where a session is
  view,      \* the seats it has read; a cache that nothing updates
  todo,      \* the organizations it still has to read
  readable,  \* those whose seats it could read
  rest,      \* the rules it still has to run
  row,       \* the result of the rule it is running
  togo,      \* the rows of it that are still to be revoked
  results,   \* the results of the rules it has run
  revoked,   \* history: the seats GitHub cancelled for a session
  used,      \* history: the day a user last used a seat
  late,      \* history: the users that used a seat after a session began to read
  met        \* history: the sessions that ran next to another one

vars == <<now, seats, inv, pc, view, todo, readable, rest, row, togo, results,
          revoked, used, late, met>>

Rows == Orgs \X Logins

Result == [rule: SeatRules \cup {"none"}, changes: SUBSET Rows, applied: BOOLEAN,
           errors: BOOLEAN]

NoResult == [rule |-> "none", changes |-> {}, applied |-> FALSE, errors |-> FALSE]

TypeOK ==
  /\ now \in Today..LastDay
  /\ seats \in Pool
  /\ inv \in [Sessions -> Invocations]
  /\ pc \in [Sessions -> {"new", "read", "next", "revoke", "done", "crashed"}]
  /\ view \in [Sessions -> Pool]
  /\ todo \in [Sessions -> SUBSET Orgs]
  /\ readable \in [Sessions -> SUBSET Orgs]
  /\ rest \in [Sessions -> Seq(SeatRules)]
  /\ row \in [Sessions -> Result]
  /\ togo \in [Sessions -> SUBSET Rows]
  /\ \A s \in Sessions : togo[s] \subseteq row[s].changes
  /\ results \in [Sessions -> SUBSET Result]
  /\ revoked \in [Sessions -> SUBSET Rows]
  /\ used \in [Logins -> Nat]
  /\ late \in [Sessions -> SUBSET Logins]
  /\ met \subseteq Sessions

-----------------------------------------------------------------------------
(* usage.Reclaim, with v the seats that were read and d the day.           *)

Holds(v, l) == {o \in Orgs : v[o][l] # NoSeat}

MostActive(v, l) ==
  {o \in Holds(v, l) : \A p \in Holds(v, l) : v[p][l].active <= v[o][l].active}

(* Between equally active seats an enterprise seat wins; without one, the  *)
(* plan of the seat that is listed first.  The name decides the rest.      *)
Rivals(v, l) ==
  LET best == MostActive(v, l)
      enterprise == {o \in best : v[o][l].plan = "enterprise"}
  IN IF enterprise # {} THEN enterprise
     ELSE {o \in best : \E f \in best : /\ \A p \in best : Place[f] <= Place[p]
                                        /\ v[o][l].plan = v[f][l].plan}

IsKept(v, l, o) == o \in Rivals(v, l) /\ \A p \in Rivals(v, l) : o <= p

(* Mutant: a seat is dormant when it was assigned long ago.                *)
ReasonByAge(v, l, o, d) ==
  LET seat == v[o][l]
      never == seat.active = 0
      dormant == ~never /\ DormantDays > 0 /\ d - seat.created >= DormantDays
  IN IF never /\ NeverDays > 0 /\ d - seat.created >= NeverDays THEN "SEAT-01"
     ELSE IF ~IsKept(v, l, o) THEN "SEAT-03"
     ELSE IF dormant THEN "SEAT-02" ELSE "none"

(* The class of a seat, by the rule that reclaims it.                      *)
Reason(v, l, o, d) ==
  LET seat == v[o][l]
      never == seat.active = 0
      dormant == ~never /\ DormantDays > 0 /\ d - seat.active >= DormantDays
  IN IF never /\ NeverDays > 0 /\ d - seat.created >= NeverDays THEN "SEAT-01"
     ELSE IF ~IsKept(v, l, o) THEN "SEAT-03"
     ELSE IF dormant THEN "SEAT-02" ELSE "none"

Reclaim(v, d, keep, rule) ==
  {x \in Rows : /\ x[1] \in Holds(v, x[2])
                /\ x[2] \notin keep
                /\ Reason(v, x[2], x[1], d) = rule}

-----------------------------------------------------------------------------
Nothing == [o \in Orgs |-> [l \in Logins |-> NoSeat]]

Newest(pool, l) ==
  CHOOSE a \in {pool[o][l].active : o \in Orgs} : \A o \in Orgs : pool[o][l].active <= a

Init ==
  /\ now = Today
  /\ seats \in Pools
  /\ inv \in [Sessions -> Invocations]
  /\ pc = [s \in Sessions |-> "new"]
  /\ view = [s \in Sessions |-> Nothing]
  /\ todo = [s \in Sessions |-> Orgs]
  /\ readable = [s \in Sessions |-> {}]
  /\ rest = [s \in Sessions |-> inv[s].rules]
  /\ row = [s \in Sessions |-> NoResult]
  /\ togo = [s \in Sessions |-> {}]
  /\ results = [s \in Sessions |-> {}]
  /\ revoked = [s \in Sessions |-> {}]
  /\ used = [l \in Logins |-> Newest(seats, l)]
  /\ late = [s \in Sessions |-> {}]
  /\ met = {}

Running(s) == pc[s] \in {"read", "next", "revoke"}

Begin(s) ==
  /\ pc[s] = "new"
  /\ pc' = [pc EXCEPT ![s] = "read"]
  /\ LET others == {t \in Sessions : Running(t)}
     IN met' = met \cup others \cup {t \in {s} : others # {}}
  /\ UNCHANGED <<now, seats, inv, view, todo, readable, rest, row, togo, results,
                 revoked, used, late>>

(* The first rule that looks reads the seats, an organization at a time;   *)
(* one that cannot be read is passed over, and stays so in the cache.      *)
ReadSeats(s) ==
  /\ pc[s] = "read"
  /\ \E o \in todo[s], ok \in BOOLEAN :
       /\ \A p \in todo[s] : Place[o] <= Place[p]
       /\ view' = [view EXCEPT ![s][o] = IF ok THEN seats[o] ELSE @]
       /\ readable' = [readable EXCEPT ![s] = @ \cup {p \in {o} : ok}]
       /\ todo' = [todo EXCEPT ![s] = @ \ {o}]
       /\ pc' = [pc EXCEPT ![s] = IF todo[s] = {o} THEN "next" ELSE "read"]
  /\ UNCHANGED <<now, seats, inv, rest, row, togo, results, revoked, used, late, met>>

(* Mutant: the rows are not filtered by the rule's class.                  *)
ComputeUnfiltered(s) ==
  /\ pc[s] = "next" /\ rest[s] # <<>>
  /\ LET i == inv[s]
         rows == Reclaim(view[s], now, i.keep, Head(rest[s]))
         all == UNION {Reclaim(view[s], now, i.keep, r) : r \in SeatRules}
     IN /\ row' = [row EXCEPT ![s] =
                     [rule |-> Head(rest[s]), changes |-> rows, applied |-> FALSE,
                      errors |-> readable[s] = {} \/ (~i.dryRun /\ ~i.writer)]]
        /\ togo' = [togo EXCEPT ![s] = IF i.dryRun \/ ~i.writer THEN {} ELSE all]
  /\ rest' = [rest EXCEPT ![s] = Tail(@)]
  /\ pc' = [pc EXCEPT ![s] = "revoke"]
  /\ UNCHANGED <<now, seats, inv, view, todo, readable, results, revoked, used, late, met>>

(* Without any readable organization there are no rows and an error, with  *)
(* a client that cannot write an error and nothing to do.                  *)
Compute(s) ==
  /\ pc[s] = "next" /\ rest[s] # <<>>
  /\ LET i == inv[s]
         rows == Reclaim(view[s], now, i.keep, Head(rest[s]))
     IN /\ row' = [row EXCEPT ![s] =
                     [rule |-> Head(rest[s]), changes |-> rows, applied |-> FALSE,
                      errors |-> readable[s] = {} \/ (~i.dryRun /\ ~i.writer)]]
        /\ togo' = [togo EXCEPT ![s] = IF i.dryRun \/ ~i.writer THEN {} ELSE rows]
  /\ rest' = [rest EXCEPT ![s] = Tail(@)]
  /\ pc' = [pc EXCEPT ![s] = "revoke"]
  /\ UNCHANGED <<now, seats, inv, view, todo, readable, results, revoked, used, late, met>>

(* Mutant: the error of a request is dropped.                              *)
AnswerDropped(r, answer) == [r EXCEPT !.applied = @ \/ answer = "ok"]

Answer(r, answer) ==
  [r EXCEPT !.applied = @ \/ answer = "ok", !.errors = @ \/ answer # "ok"]

(* One request for all the rows of an organization, in the order of names. *)
(* GitHub may cancel the seats and its answer be lost.                     *)
Revoke(s) ==
  /\ pc[s] = "revoke"
  /\ \E x \in togo[s], answer \in {"ok", "refused", "lost"} :
       LET o == x[1]
           gone == {y \in togo[s] : y[1] = o}
           logins == {y[2] : y \in gone}
       IN /\ \A y \in togo[s] : o <= y[1]
          /\ togo' = [togo EXCEPT ![s] = @ \ gone]
          /\ row' = [row EXCEPT ![s] = Answer(@, answer)]
          /\ IF answer = "refused"
             THEN UNCHANGED <<seats, revoked>>
             ELSE /\ seats' = [seats EXCEPT ![o] =
                                 [l \in Logins |-> IF l \in logins THEN NoSeat ELSE @[l]]]
                  /\ revoked' = [revoked EXCEPT ![s] = @ \cup gone]
  /\ UNCHANGED <<now, inv, pc, view, todo, readable, rest, results, used, late, met>>

Report(s) ==
  /\ pc[s] = "revoke" /\ togo[s] = {}
  /\ results' = [results EXCEPT ![s] = @ \cup {row[s]}]
  /\ pc' = [pc EXCEPT ![s] = IF rest[s] = <<>> THEN "done" ELSE "next"]
  /\ UNCHANGED <<now, seats, inv, view, todo, readable, rest, row, togo, revoked, used,
                 late, met>>

(* The process and what it knew are gone; what it revoked is revoked.      *)
Crash(s) ==
  /\ Running(s)
  /\ pc' = [pc EXCEPT ![s] = "crashed"]
  /\ view' = [view EXCEPT ![s] = Nothing]
  /\ todo' = [todo EXCEPT ![s] = {}]
  /\ readable' = [readable EXCEPT ![s] = {}]
  /\ rest' = [rest EXCEPT ![s] = <<>>]
  /\ row' = [row EXCEPT ![s] = NoResult]
  /\ togo' = [togo EXCEPT ![s] = {}]
  /\ results' = [results EXCEPT ![s] = {}]
  /\ UNCHANGED <<now, seats, inv, revoked, used, late, met>>

(* A user works with the seat of an organization.                          *)
Use(l, o) ==
  /\ o \in Holds(seats, l) /\ seats[o][l].active # now
  /\ seats' = [seats EXCEPT ![o][l].active = now]
  /\ used' = [used EXCEPT ![l] = now]
  /\ late' = [s \in Sessions |-> late[s] \cup {u \in {l} : Running(s)}]
  /\ UNCHANGED <<now, inv, pc, view, todo, readable, rest, row, togo, results, revoked, met>>

NextDay ==
  /\ now < LastDay
  /\ now' = now + 1
  /\ UNCHANGED <<seats, inv, pc, view, todo, readable, rest, row, togo, results,
                 revoked, used, late, met>>

Next ==
  \/ \E s \in Sessions : Begin(s) \/ ReadSeats(s) \/ Compute(s) \/ Revoke(s) \/ Report(s)
                         \/ Crash(s)
  \/ \E l \in Logins, o \in Orgs : Use(l, o)
  \/ NextDay

Spec == Init /\ [][Next]_vars

-----------------------------------------------------------------------------
(* Safety.                                                                 *)

(* Used within dormant_days, by the day it is.                             *)
Active(a) == a # 0 /\ (DormantDays > 0 => now - a < DormantDays)

(* A session never takes all the seats of a user of whom it has read an    *)
(* active one, whatever rules it runs one after the other and although     *)
(* each of them sorts the seats anew by the time it is then; and none of   *)
(* an exempt user.                                                         *)
SessionSparesUsers ==
  \A s \in Sessions, l \in Logins :
    LET lost == {o \in Orgs : <<o, l>> \in revoked[s]}
    IN /\ l \in inv[s].keep => lost = {}
       /\ (\E o \in Holds(view[s], l) : Active(view[s][o][l].active))
            => lost # Holds(view[s], l)

(* A user who worked within dormant_days has a seat left, unless sessions  *)
(* ran next to each other or the user worked while a session did.          *)
WorkingUsersKeepSeat ==
  \A l \in Logins :
    Holds(seats, l) = {} /\ Active(used[l])
      => \E s \in Sessions :
           (\E o \in Orgs : <<o, l>> \in revoked[s]) /\ (s \in met \/ l \in late[s])

(* "keep the most active seat": what SEAT-03 proposes leaves a seat that   *)
(* it does not propose and that was used at least as recently.             *)
DuplicateKeepsMostActive ==
  \A s \in Sessions : row[s].rule = "SEAT-03" =>
    \A x \in row[s].changes :
      \E o \in Holds(view[s], x[2]) :
        /\ <<o, x[2]>> \notin row[s].changes
        /\ view[s][o][x[2]].active >= view[s][x[1]][x[2]].active

(* A seat that GitHub cancelled is among the changes of a result that says *)
(* so or has an error, even if an answer was lost or another organization  *)
(* refused; a result without errors that was no dry run did what it lists. *)
ResultsTellTheTruth ==
  \A s \in Sessions : pc[s] \in {"next", "done"} =>
    /\ \A x \in revoked[s] :
         \E r \in results[s] : x \in r.changes /\ (r.applied \/ r.errors)
    /\ \A r \in results[s] :
         /\ r.applied => r.changes \cap revoked[s] # {}
         /\ ~r.errors /\ ~inv[s].dryRun => r.changes \subseteq revoked[s]

=============================================================================
