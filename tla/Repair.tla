--------------------------------- MODULE Repair ---------------------------------
(***************************************************************************)
(* What remediation promises to whoever reads its results: sessions only   *)
(* ever take findings away, and what one of them says it has fixed is      *)
(* fixed, until somebody changes settings by hand.  How the sessions share *)
(* GitHub, what they remember of it and how a change is written is left to *)
(* ApplyPipeline, where a finding is a rule, and to SettingRules, where it *)
(* is a rule at a place.                                                   *)
(***************************************************************************)
EXTENDS Integers

CONSTANTS
  Findings,   \* what there may be to fix
  Sessions    \* who fixes

VARIABLES
  open,       \* the findings that are there
  fixed,      \* the findings a session has reported as fixed
  disturbed,  \* the sessions whose reports somebody's hands may have undone
  hands       \* how often that may have been

repairVars == <<open, fixed, disturbed, hands>>

RepairInit ==
  /\ open \subseteq Findings
  /\ fixed = [s \in Sessions |-> {}]
  /\ disturbed = {} /\ hands = 0

(* A session takes findings away, and adds to its report only what is      *)
(* gone by then.  Both may be nothing.                                     *)
Work(s) ==
  /\ fixed' = [fixed EXCEPT ![s] = fixed'[s]]
  /\ fixed[s] \subseteq fixed'[s]
  /\ open' \subseteq open
  /\ s \notin disturbed => (fixed'[s] \ fixed[s]) \cap open' = {}
  /\ UNCHANGED <<disturbed, hands>>

(* A process ends, and the report that was in it.                          *)
Forget(s) ==
  /\ fixed' = [fixed EXCEPT ![s] = {}]
  /\ UNCHANGED <<open, disturbed, hands>>

(* Somebody changes settings by hand: from now on nothing is promised to   *)
(* whoever has reported something.                                         *)
Disturb ==
  /\ hands' = hands + 1
  /\ disturbed \subseteq disturbed'
  /\ \A s \in Sessions \ disturbed' : fixed[s] = {}
  /\ open' \subseteq Findings
  /\ UNCHANGED fixed

RepairNext == (\E s \in Sessions : Work(s) \/ Forget(s)) \/ Disturb

RepairSpec == RepairInit /\ [][RepairNext]_repairVars
=============================================================================
