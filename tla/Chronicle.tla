------------------------------- MODULE Chronicle -------------------------------
(***************************************************************************)
(* What the history of assessments promises to whoever reads it or is told *)
(* of a change: a ledger that only grows, by one complete entry of each    *)
(* author at most, and comparisons of an author's own entry with the       *)
(* newest other one of its home.  How an assessment comes about, which     *)
(* queries find the other entry, and what may fail or crash on the way is  *)
(* left to AssessmentHistory.                                              *)
(***************************************************************************)
EXTENDS Integers, Sequences

CONSTANTS
  Authors,
  Rules      \* what an entry is about

VARIABLES
  home,      \* where an author belongs
  due,       \* the rules its entry has to account for
  ledger,    \* the entries: by whom, with what score and status of each rule
  facing,    \* the entry an author has compared its own with, 0 for none
  news       \* ... and what came of it

chronicleVars == <<home, due, ledger, facing, news>>

NoNews == [delta |-> 0, worse |-> {}, better |-> {}]

ChronicleInit ==
  /\ ledger = <<>>
  /\ facing = [a \in Authors |-> 0]
  /\ news = [a \in Authors |-> NoNews]

(* An entry is added behind the others, and it is all that was due.        *)
Enter(a) ==
  LET n == Len(ledger) + 1
  IN /\ \A k \in DOMAIN ledger : ledger[k].by # a
     /\ DOMAIN ledger' = 1..n
     /\ \A k \in DOMAIN ledger : ledger'[k] = ledger[k]
     /\ ledger'[n].by = a
     /\ {r \in Rules : ledger'[n].statuses[r] # "absent"} = due[a]
     /\ UNCHANGED <<home, due, facing, news>>

(* Of the rules that both entries know.                                    *)
Difference(old, new) ==
  [delta |-> new.score - old.score,
   worse |-> {r \in Rules : /\ new.statuses[r] = "fail"
                            /\ old.statuses[r] \notin {"fail", "absent"}},
   better |-> {r \in Rules : /\ old.statuses[r] = "fail"
                             /\ new.statuses[r] \notin {"fail", "absent"}}]

OthersAtHome(a) ==
  {k \in DOMAIN ledger : ledger[k].by # a /\ home[ledger[k].by] = home[a]}

(* Once, an author looks back.                                             *)
Consult(a) ==
  /\ facing[a] = 0
  /\ \E n \in DOMAIN ledger, p \in OthersAtHome(a) :
       /\ ledger[n].by = a
       /\ \A k \in OthersAtHome(a) : k <= p
       /\ facing' = [facing EXCEPT ![a] = p]
       /\ news' = [news EXCEPT ![a] = Difference(ledger[p], ledger[n])]
  /\ UNCHANGED <<home, due, ledger>>

ChronicleNext == \E a \in Authors : Enter(a) \/ Consult(a)

ChronicleSpec == ChronicleInit /\ [][ChronicleNext]_chronicleVars
=============================================================================
