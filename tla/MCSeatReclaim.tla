---------------------------- MODULE MCSeatReclaim ----------------------------
(* A small instance of SeatReclaim: one user, two organizations that       *)
(* GitHub does not list by name, two sessions, two days.                   *)
EXTENDS SeatReclaim, TLC

AnySession == Permutations(Sessions)

MCPlace == [o \in Orgs |-> 3 - o]

SeatOf(plan, created, active) == [plan |-> plan, created |-> created, active |-> active]

Holding(a, b) == [o \in Orgs |-> [l \in Logins |-> IF o = 1 THEN a ELSE b]]

(* Two seats: assigned long ago or yesterday, never used, used long ago,   *)
(* lately or today.  The windows are 3 and 4 days.                         *)
MCPools ==
  LET new == SeatOf("business", 9, 0)
      idle == SeatOf("enterprise", 7, 0)
      old == SeatOf("business", 4, 6)
      recent == SeatOf("unknown", 5, 8)
      today == SeatOf("enterprise", 5, 10)
  IN {Holding(idle, new), Holding(old, today), Holding(new, recent)}

Apply(rules) == [rules |-> rules, dryRun |-> FALSE, keep |-> {}, writer |-> TRUE]

MCInvocations ==
  {Apply(<<"SEAT-03", "SEAT-01">>),
   Apply(<<"SEAT-02", "SEAT-03">>),
   [Apply(<<"SEAT-03">>) EXCEPT !.keep = Logins],
   [Apply(<<"SEAT-03">>) EXCEPT !.dryRun = TRUE],
   [Apply(<<"SEAT-03">>) EXCEPT !.writer = FALSE]}

-----------------------------------------------------------------------------
(* usage.Reclaim's loop over a user's seats, in the order they are listed. *)

Better(v, l, o, best) ==
  \/ v[o][l].active > v[best][l].active
  \/ v[o][l].active = v[best][l].active /\ v[o][l].plan = "enterprise"
                                       /\ v[best][l].plan # "enterprise"
  \/ v[o][l].active = v[best][l].active /\ v[o][l].plan = v[best][l].plan /\ o < best

RECURSIVE BestOf(_, _, _, _)
BestOf(v, l, best, left) ==
  IF left = {} THEN best
  ELSE LET o == CHOOSE o \in left : \A p \in left : Place[o] <= Place[p]
       IN BestOf(v, l, IF Better(v, l, o, best) THEN o ELSE best, left \ {o})

FirstOf(held) == CHOOSE o \in held : \A p \in held : Place[o] <= Place[p]

Listed == {SeatOf(p, 1, a) : p \in {"business", "enterprise", "unknown"}, a \in 0..1}

(* IsKept finds the one seat that the loop keeps, whatever the three plans *)
(* and activities are and whatever seats are missing.                      *)
ASSUME KeptIsBest ==
  \A v \in [Orgs -> [Logins -> Listed \cup {NoSeat}]], l \in Logins :
    LET held == Holds(v, l)
    IN held # {} => {o \in Orgs : IsKept(v, l, o)} = {BestOf(v, l, FirstOf(held), held)}
=============================================================================
