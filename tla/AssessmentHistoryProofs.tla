----------------------- MODULE AssessmentHistoryProofs -----------------------
(***************************************************************************)
(* What holds of AssessmentHistory for any sessions, enterprises and       *)
(* catalog: what the database says of a run, what a run is compared with,  *)
(* and what the alert and the exit code may keep silent about.             *)
(***************************************************************************)
EXTENDS AssessmentHistory, Extrema, FiniteSetTheorems, SequenceTheorems, TLAPS

-----------------------------------------------------------------------------
(* Counting.                                                               *)

LEMMA CountIsNat ==
  ASSUME NEW res, NEW st
  PROVE  Count(res, st) \in Nat
<1>1. {r \in Rules : res[r] = st} \subseteq Rules
  OBVIOUS
<1>2. IsFiniteSet({r \in Rules : res[r] = st})
  BY <1>1, RulesAssumption, FS_Subset
<1> QED BY <1>2, FS_CardinalityType DEF Count

LEMMA CountSeesOne ==
  ASSUME NEW res, NEW st, NEW r \in Rules, res[r] = st
  PROVE  Count(res, st) > 0
<1> DEFINE C == {q \in Rules : res[q] = st}
<1>1. IsFiniteSet(C)
  BY RulesAssumption, FS_Subset
<1>2. C # {}
  OBVIOUS
<1>3. Cardinality(C) # 0
  BY <1>1, <1>2, FS_EmptySet
<1>4. Count(res, st) # 0
  BY <1>3 DEF Count
<1> QED BY <1>4, CountIsNat

(* A quotient of at most a hundred times the divisor is at most a hundred. *)
LEMMA Percentage ==
  ASSUME NEW a \in Nat, NEW b \in Nat, b > 0, a <= 100 * b
  PROVE  a \div b \in 0..100
OBVIOUS

LEMMA ScoreType ==
  ASSUME NEW res
  PROVE  Score(res) \in 0..100
<1> DEFINE p == Count(res, "pass")
           w == Count(res, "warn")
           f == Count(res, "fail")
<1>1. p \in Nat /\ w \in Nat /\ f \in Nat
  BY CountIsNat
<1>2. Score(res) = IF p + w + f = 0 THEN 0 ELSE (100 * (2 * p + w)) \div (2 * (p + w + f))
  BY DEF Score
<1> HIDE DEF p, w, f
<1>3. CASE p + w + f = 0
  BY <1>2, <1>3
<1>4. CASE p + w + f # 0
  <2>1. 100 * (2 * p + w) \in Nat /\ 2 * (p + w + f) \in Nat /\ 2 * (p + w + f) > 0
    BY <1>1, <1>4
  <2>2. 100 * (2 * p + w) <= 100 * (2 * (p + w + f))
    BY <1>1
  <2>3. (100 * (2 * p + w)) \div (2 * (p + w + f)) \in 0..100
    BY <2>1, <2>2, Percentage
  <2> QED BY <1>2, <1>4, <2>3
<1> QED BY <1>3, <1>4

LEMMA SummarizeType ==
  ASSUME NEW res
  PROVE  Summarize(res) \in Summary
<1>1. Cardinality(Ran(res)) \in Nat
  <2>1. IsFiniteSet(Ran(res))
    BY RulesAssumption, FS_Subset DEF Ran
  <2> QED BY <2>1, FS_CardinalityType
<1>2. [st \in Status |-> Count(res, st)] \in [Status -> Nat]
  BY CountIsNat
<1>3. Score(res) \in 0..100
  BY ScoreType
<1> HIDE DEF Status
<1> QED BY <1>1, <1>2, <1>3 DEF Summarize, Summary

-----------------------------------------------------------------------------
(* Types.                                                                  *)

LEMMA ToRunType ==
  ASSUME NEW i \in Invocation
  PROVE  ToRun(i) \subseteq Rules
BY DEF RulesAssessed, ToRun, RulesToRun, ProfileFilter, FilterRules

LEMMA ApplyWaiversFacts ==
  ASSUME NEW pol, NEW now, NEW res \in Results
  PROVE  /\ ApplyWaivers(pol, now, res) \in Results
         /\ Ran(ApplyWaivers(pol, now, res)) = Ran(res)
BY DEF ApplyWaivers, Results, Ran, Status, Finding

LEMMA NothingType == Nothing \in Results /\ Ran(Nothing) = {}
BY DEF Nothing, Results, Ran

LEMMA CompareType ==
  ASSUME NEW k \in Run, NEW sum \in Summary, NEW res \in Results, NEW d,
         d = Compare(k, sum.score, res)
  PROVE  /\ d.scoreDelta \in -100..100
         /\ d.newlyFailing \in SUBSET Rules
         /\ d.newlyFixed \in SUBSET Rules
         /\ d.regressed \in SUBSET Rules
<1>1. sum.score \in 0..100 /\ k.summary.score \in 0..100
  BY DEF Summary, Run
<1>2. \A x, y \in 0..100 : x - y \in -100..100
  OBVIOUS
<1>3. sum.score - k.summary.score \in -100..100
  BY <1>1, <1>2
<1> QED BY <1>3 DEF Compare, Ran

Shape ==
  /\ TypeOK
  /\ runs \in Seq(Run)
  /\ summary \in [Sessions -> Summary]
  /\ drift \in [Sessions -> Drift]

LEMMA InitShape == Init => Shape
<1> SUFFICES ASSUME Init PROVE Shape
  OBVIOUS
<1>1. summary \in [Sessions -> Summary]
  BY SummarizeType DEF Init
<1>2. NoDrift \in Drift
  BY DEF NoDrift, Drift
<1>3. drift \in [Sessions -> Drift]
  BY <1>2 DEF Init
<1>4. runs \in Seq(Run) /\ DOMAIN runs = {} /\ Len(runs) = 0
  BY DEF Init
<1>5. results \in [Sessions -> Results]
  BY NothingType DEF Init
<1>6. own \in [Sessions -> 0..Len(runs)]
  BY <1>4 DEF Init
<1>7. admin \in 0..MaxAdmin
  BY MaxAdminAssumption DEF Init
<1>8. /\ \A s \in Sessions : summary[s] \in Summary
      /\ \A k \in DOMAIN runs : runs[k] \in Run
      /\ \A s \in Sessions : drift[s] \in Drift
  BY <1>1, <1>3, <1>4
<1> HIDE DEF Summary, Drift, Run
<1> QED BY <1>1, <1>3, <1>4, <1>5, <1>6, <1>7, <1>8 DEF Init, Shape, TypeOK, Final

(* The actions leave most of the variables alone, and a session changes    *)
(* its own part of the others.                                             *)
LEMMA BeginShape ==
  ASSUME Shape, NEW s \in Sessions, Begin(s)
  PROVE  Shape'
<1>1. ToRun(inv[s]) \in SUBSET Rules
  BY ToRunType, InvocationsAssumption DEF Shape, TypeOK
<1>2. todo' \in [Sessions -> SUBSET Rules]
  BY <1>1 DEF Shape, TypeOK, Begin
<1> QED BY <1>2 DEF Shape, TypeOK, Begin

LEMMA AssessRuleShape ==
  ASSUME Shape, NEW s \in Sessions, AssessRule(s)
  PROVE  Shape'
<1>1. PICK r \in todo[s], v \in View :
        /\ \E st \in Outcome(r, v) : results' = [results EXCEPT ![s][r] = st]
        /\ sawBad' = [sawBad EXCEPT ![s] = @ \cup {q \in {r} : v = "bad"}]
        /\ todo' = [todo EXCEPT ![s] = @ \ {r}]
        /\ pc' = [pc EXCEPT ![s] = IF todo[s] = {r} THEN "policy" ELSE "assess"]
  BY DEF AssessRule
<1>2. r \in Rules
  BY DEF Shape, TypeOK
<1>3. PICK st \in Outcome(r, v) : results' = [results EXCEPT ![s][r] = st]
  BY <1>1
<1>4. st \in Status \cup {"absent"}
  BY <1>2, CatalogAssumption DEF Outcome, Status, MetaType
<1>5. results' \in [Sessions -> Results]
  BY <1>2, <1>3, <1>4 DEF Shape, TypeOK, Results
<1>6. sawBad' \in [Sessions -> SUBSET Rules] /\ todo' \in [Sessions -> SUBSET Rules]
  BY <1>1, <1>2 DEF Shape, TypeOK
<1> QED BY <1>1, <1>5, <1>6 DEF Shape, TypeOK, AssessRule

LEMMA ApplyPolicyShape ==
  ASSUME Shape, NEW s \in Sessions, ApplyPolicy(s)
  PROVE  Shape'
<1>1. results' = [results EXCEPT ![s] = ApplyWaivers(inv[s].policy, inv[s].now, results[s])]
  BY DEF ApplyPolicy
<1>2. results' \in [Sessions -> Results]
  BY <1>1, ApplyWaiversFacts DEF Shape, TypeOK
<1>3. Summarize(results'[s]) \in Summary
  BY SummarizeType
<1>4. summary' \in [Sessions -> Summary]
  BY <1>3 DEF Shape, TypeOK, ApplyPolicy
<1> QED BY <1>2, <1>4 DEF Shape, TypeOK, ApplyPolicy, AfterPolicy, Final

LEMMA SaveShape ==
  ASSUME Shape, NEW s \in Sessions, Save(s)
  PROVE  Shape'
<1> DEFINE k == [by |-> s, enterprise |-> inv[s].enterprise,
                 summary |-> summary[s], statuses |-> results[s]]
<1>1. k \in Run
  <2>1. inv[s].enterprise \in Enterprises
    BY InvocationsAssumption DEF Shape, TypeOK, Invocation
  <2>2. summary[s] \in Summary /\ results[s] \in Results
    BY DEF Shape, TypeOK
  <2> HIDE DEF Summary, Results
  <2> QED BY <2>1, <2>2 DEF Run
<1>2. runs' = Append(runs, k)
  BY DEF Save
<1> HIDE DEF k
<1>3. runs \in Seq(Run)
  BY DEF Shape
<1>4. runs' \in Seq(Run) /\ Len(runs') = Len(runs) + 1 /\ Len(runs) \in Nat
  BY <1>1, <1>2, <1>3
<1>5. \A j \in DOMAIN runs' : runs'[j] \in Run
  BY <1>4
<1>6. own' \in [Sessions -> 0..Len(runs')]
  <2>1. own \in [Sessions -> 0..Len(runs)] /\ own' = [own EXCEPT ![s] = Len(runs) + 1]
    BY DEF Shape, TypeOK, Save
  <2>2. 0..Len(runs) \subseteq 0..Len(runs') /\ Len(runs) + 1 \in 0..Len(runs')
    BY <1>4
  <2> QED BY <2>1, <2>2
<1> QED BY <1>4, <1>5, <1>6 DEF Shape, TypeOK, Save, AfterSave, Final

LEMMA SaveFailsShape ==
  ASSUME Shape, NEW s \in Sessions, SaveFails(s) \/ DriftFails(s) \/ StreamStops(s)
  PROVE  Shape'
BY DEF Shape, TypeOK, SaveFails, DriftFails, StreamStops, AfterSave, Final, sessionVars

LEMMA PreviousIsRun ==
  ASSUME Shape, NEW s \in Sessions, NEW p \in PreviousOf(s)
  PROVE  /\ p \in DOMAIN runs /\ p \in Nat \ {0} /\ p # own[s]
         /\ runs[p].enterprise = inv[s].enterprise
BY DEF Shape, PreviousOf, Latest, RunsOf

LEMMA ComputeDriftShape ==
  ASSUME Shape, NEW s \in Sessions, ComputeDrift(s)
  PROVE  Shape'
<1>1. drift' \in [Sessions -> Drift]
  <2>1. CASE PreviousOf(s) = {}
    BY <2>1 DEF Shape, ComputeDrift
  <2>2. CASE PreviousOf(s) # {}
    <3>1. PICK p \in PreviousOf(s) :
            drift' = [drift EXCEPT ![s] =
                        [previous |-> p,
                         scoreDelta |-> Compare(runs[p], summary[s].score, results[s]).scoreDelta,
                         newlyFailing |-> Compare(runs[p], summary[s].score, results[s]).newlyFailing,
                         newlyFixed |-> Compare(runs[p], summary[s].score, results[s]).newlyFixed,
                         regressed |-> Compare(runs[p], summary[s].score, results[s]).regressed]]
      BY <2>2, Zenon DEF ComputeDrift
    <3>2. p \in Nat /\ runs[p] \in Run
      BY PreviousIsRun DEF Shape, TypeOK
    <3>3. summary[s] \in Summary /\ results[s] \in Results
      BY DEF Shape, TypeOK
    <3> DEFINE d == Compare(runs[p], summary[s].score, results[s])
    <3>4. /\ d.scoreDelta \in -100..100
          /\ d.newlyFailing \in SUBSET Rules
          /\ d.newlyFixed \in SUBSET Rules
          /\ d.regressed \in SUBSET Rules
      BY <3>2, <3>3, CompareType
    <3> HIDE DEF d
    <3>5. [previous |-> p, scoreDelta |-> d.scoreDelta, newlyFailing |-> d.newlyFailing,
           newlyFixed |-> d.newlyFixed, regressed |-> d.regressed] \in Drift
      BY <3>2, <3>4 DEF Drift
    <3>6. drift \in [Sessions -> Drift]
      BY DEF Shape
    <3> HIDE DEF Drift
    <3> QED BY <3>1, <3>5, <3>6 DEF d
  <2> QED BY <2>1, <2>2
<1>2. \A t \in Sessions : drift'[t] \in Drift
  BY <1>1
<1> HIDE DEF Drift
<1> QED BY <1>1, <1>2 DEF Shape, TypeOK, ComputeDrift

LEMMA NotifyShape ==
  ASSUME Shape, NEW s \in Sessions, Notify(s)
  PROVE  Shape'
<1>1. alert' \in [Sessions -> {"none", "sent", "lost"}]
  BY DEF Shape, TypeOK, Notify
<1> QED BY <1>1 DEF Shape, TypeOK, Notify

LEMMA GateShape ==
  ASSUME Shape, NEW s \in Sessions, Gate(s)
  PROVE  Shape'
<1>1. exit' \in [Sessions -> {"none", "ok", "gate", "failed"}]
  BY DEF Shape, TypeOK, Gate
<1> QED BY <1>1 DEF Shape, TypeOK, Gate, Final

LEMMA SurroundingsShape ==
  ASSUME Shape, Crash \/ AdminChange \/ \E s \in Sessions : ContextDone(s)
  PROVE  Shape'
<1>1. CASE Crash
  BY <1>1 DEF Shape, TypeOK, Crash, Final, sessionVars
<1>2. CASE AdminChange
  <2>1. gh' \in [Enterprises -> [Rules -> {"good", "bad"}]] /\ admin' \in 0..MaxAdmin
    BY <1>2, MaxAdminAssumption DEF Shape, TypeOK, AdminChange
  <2> QED BY <1>2, <2>1 DEF Shape, TypeOK, AdminChange, sessionVars
<1>3. CASE \E s \in Sessions : ContextDone(s)
  BY <1>3 DEF Shape, TypeOK, ContextDone, sessionVars
<1> QED BY <1>1, <1>2, <1>3

LEMMA StepShape == Shape /\ [Next]_vars => Shape'
<1> SUFFICES ASSUME Shape, [Next]_vars PROVE Shape'
  OBVIOUS
<1>1. CASE UNCHANGED vars
  BY <1>1 DEF Shape, TypeOK, vars, sessionVars
<1>2. CASE Next
  BY <1>2, BeginShape, AssessRuleShape, ApplyPolicyShape, SaveShape, SaveFailsShape,
     ComputeDriftShape, NotifyShape, GateShape, SurroundingsShape DEF Next
<1> QED BY <1>1, <1>2

(* The types hold, of the scores and their differences as well.            *)
THEOREM TypeCorrect == Spec => []TypeOK
<1>1. Shape => TypeOK
  BY DEF Shape
<1> QED BY <1>1, InitShape, StepShape, PTL DEF Spec

-----------------------------------------------------------------------------
(* Why the properties hold.  Of each session:                              *)

Assessed == {"policy", "save", "drift", "notify", "gate", "done"}
Summed   == Assessed \ {"policy"}
Compared == {"notify", "gate", "done"}

Bad(r) == IF Meta[r].warns THEN "warn" ELSE "fail"

(* The rules it has a result for and those it has still to assess are the  *)
(* ones it set out to assess, unless its time ran out.                     *)
Covering(s) ==
  /\ pc[s] = "new" => results[s] = Nothing /\ sawBad[s] = {}
  /\ pc[s] = "assess" =>
       /\ Ran(results[s]) \cup todo[s] = ToRun(inv[s])
       /\ Ran(results[s]) \cap todo[s] = {}
  /\ pc[s] \in Assessed /\ ctx[s] = "live" => Ran(results[s]) = ToRun(inv[s])

(* What it saw to be bad it reports, or waives, and its summary counts     *)
(* the report; it exits with success when the count is below the level.    *)
Judged(s) ==
  /\ sawBad[s] \subseteq Ran(results[s])
  /\ \A r \in sawBad[s] :
       \/ results[s][r] = Bad(r)
       \/ /\ pc[s] \notin {"new", "assess", "policy"}
          /\ ActivelyWaived(inv[s].policy, r, inv[s].now)
  /\ pc[s] \in Summed => summary[s] = Summarize(results[s])
  /\ exit[s] = "ok" => pc[s] = "done" /\ ~Breached(inv[s].failOn, summary[s].count)

(* Its run is in the database, and its only one there.                     *)
Owned(s) ==
  /\ pc[s] \in {"new", "assess", "policy", "save"} => own[s] = 0
  /\ own[s] # 0 => own[s] \in DOMAIN runs /\ runs[own[s]].by = s

(* Its drift is from a run of another session and of its own enterprise.   *)
Drifted(s) ==
  /\ pc[s] \in {"new", "assess", "policy", "save", "drift"} => drift[s] = NoDrift
  /\ drift[s].previous # 0 =>
       /\ drift[s].previous \in DOMAIN runs
       /\ runs[drift[s].previous].enterprise = inv[s].enterprise
       /\ runs[drift[s].previous].by # s

Alerted(s) ==
  pc[s] \in {"gate", "done"} /\ inv[s].notify = "alert" /\ ShouldAlert(drift[s])
    => alert[s] # "none"

(* The sessions that had ended when it began are over.                     *)
Ordered(s) == s \notin before[s] /\ \A t \in before[s] : pc[t] \in Final

NewFailures(t, s) ==
  {r \in Rules : results[s][r] = "fail"
                 /\ runs[own[t]].statuses[r] \notin {"fail", "absent"}}

(* If it ran next after another one, that is what it is compared with.     *)
Faced(s) ==
  \A t \in Sessions :
    Successive(t, s) /\ pc[s] \in Compared /\ drift[s].previous # 0
      => NewFailures(t, s) \subseteq drift[s].newlyFailing

Fit(s) == /\ Covering(s) /\ Judged(s) /\ Owned(s) /\ Drifted(s) /\ Alerted(s)
          /\ Ordered(s) /\ Faced(s)

(* Of each recorded run: it is complete, and it is its session's own.      *)
Recorded(k) ==
  /\ Ran(runs[k].statuses) = ToRun(inv[runs[k].by])
  /\ runs[k].summary = Summarize(runs[k].statuses)
  /\ runs[k].enterprise = inv[runs[k].by].enterprise
  /\ own[runs[k].by] = k

SafeInv == Shape /\ (\A s \in Sessions : Fit(s)) /\ (\A k \in DOMAIN runs : Recorded(k))

LEMMA InitSafe == Init => SafeInv
<1> SUFFICES ASSUME Init PROVE SafeInv
  OBVIOUS
<1>1. Shape /\ DOMAIN runs = {}
  BY InitShape DEF Init
<1>2. ASSUME NEW s \in Sessions PROVE Fit(s)
  <2>1. pc[s] = "new" /\ results[s] = Nothing /\ sawBad[s] = {} /\ own[s] = 0
        /\ drift[s] = NoDrift /\ exit[s] = "none" /\ before[s] = {}
    BY DEF Init
  <2>2. NoDrift.previous = 0
    BY DEF NoDrift
  <2> QED BY <2>1, <2>2 DEF Fit, Covering, Judged, Owned, Drifted, Alerted, Ordered, Faced,
        Assessed, Summed, Compared
<1> QED BY <1>1, <1>2 DEF SafeInv

-----------------------------------------------------------------------------
(* The database only grows, and a session that is over does not move.      *)
Grows ==
  /\ inv' = inv
  /\ \A k \in DOMAIN runs : k \in DOMAIN runs' /\ runs'[k] = runs[k]
  /\ \A t \in Sessions : pc[t] \in Final => pc'[t] = pc[t] /\ own'[t] = own[t]

(* Everything of a session but its place and its context.                  *)
SamePart(s) ==
  /\ todo'[s] = todo[s] /\ results'[s] = results[s] /\ summary'[s] = summary[s]
  /\ own'[s] = own[s] /\ drift'[s] = drift[s] /\ alert'[s] = alert[s]
  /\ exit'[s] = exit[s] /\ before'[s] = before[s] /\ sawBad'[s] = sawBad[s]

(* Two sessions that are successive after a step were so before it.        *)
LEMMA SuccessiveBefore ==
  ASSUME SafeInv, Grows, NEW t \in Sessions, NEW s \in Sessions,
         before'[s] = before[s], own'[s] = own[s], Successive(t, s)'
  PROVE  /\ Successive(t, s) /\ own'[t] = own[t]
         /\ own[t] \in DOMAIN runs /\ runs'[own[t]] = runs[own[t]]
<1>1. t \in before[s] /\ own'[t] # 0 /\ inv[t].enterprise = inv[s].enterprise
  BY DEF Successive, Grows
<1>2. pc[t] \in Final
  BY <1>1 DEF SafeInv, Fit, Ordered
<1>3. own'[t] = own[t]
  BY <1>2 DEF Grows
<1>4. own[t] \in DOMAIN runs
  BY <1>1, <1>3 DEF SafeInv, Fit, Owned
<1>5. \A k \in RunsOf(inv[s].enterprise) : k > own[t] => k = own[s]
  <2> SUFFICES ASSUME NEW k \in DOMAIN runs, runs[k].enterprise = inv[s].enterprise, k > own[t]
               PROVE  k = own[s]
    BY DEF RunsOf
  <2>1. k \in DOMAIN runs' /\ runs'[k].enterprise = inv'[s].enterprise
    BY DEF Grows
  <2> QED BY <1>3, <2>1 DEF Successive, RunsOf
<1> QED BY <1>1, <1>3, <1>4, <1>5 DEF Successive, Grows

LEMMA StaysFaced ==
  ASSUME SafeInv, Grows, NEW s \in Sessions,
         before'[s] = before[s], own'[s] = own[s], drift'[s] = drift[s],
         results'[s] = results[s],
         pc'[s] \in Compared /\ drift[s].previous # 0 => pc[s] \in Compared
  PROVE  Faced(s)'
<1> SUFFICES ASSUME NEW t \in Sessions, Successive(t, s)', pc'[s] \in Compared,
                    drift'[s].previous # 0
             PROVE  NewFailures(t, s)' \subseteq drift'[s].newlyFailing
  BY DEF Faced
<1>1. /\ Successive(t, s) /\ own'[t] = own[t] /\ runs'[own[t]] = runs[own[t]]
  BY SuccessiveBefore
<1>2. NewFailures(t, s) \subseteq drift[s].newlyFailing
  BY <1>1 DEF SafeInv, Fit, Faced
<1>3. NewFailures(t, s)' = NewFailures(t, s)
  BY <1>1 DEF NewFailures
<1> QED BY <1>2, <1>3

(* A drift that is not there faces nothing.                                *)
LEMMA NothingFaced ==
  ASSUME NEW s \in Sessions, drift'[s] = NoDrift
  PROVE  Faced(s)' /\ ~ShouldAlert(drift'[s])
BY DEF Faced, NoDrift, ShouldAlert

LEMMA StaysOrdered ==
  ASSUME SafeInv, Grows, NEW s \in Sessions, before'[s] = before[s]
  PROVE  Ordered(s)'
BY DEF SafeInv, Fit, Ordered, Grows, Shape, TypeOK

LEMMA StaysDrifted ==
  ASSUME SafeInv, Grows, NEW s \in Sessions, drift'[s] = drift[s],
         pc'[s] \in {"new", "assess", "policy", "save", "drift"}
           => pc[s] \in {"new", "assess", "policy", "save", "drift"}
  PROVE  Drifted(s)'
BY DEF SafeInv, Fit, Drifted, Grows

LEMMA StaysOwned ==
  ASSUME SafeInv, Grows, NEW s \in Sessions, own'[s] = own[s],
         pc'[s] \in {"new", "assess", "policy", "save"}
           => pc[s] \in {"new", "assess", "policy", "save"}
  PROVE  Owned(s)'
BY DEF SafeInv, Fit, Owned, Grows

(* A session that does not move stays as it is, or crashes, and its time   *)
(* may run out.                                                            *)
LEMMA StaysFit ==
  ASSUME SafeInv, Grows, NEW s \in Sessions, SamePart(s),
         \/ pc'[s] = pc[s]
         \/ pc'[s] = "crashed" /\ pc[s] \notin Final,
         ctx'[s] = "live" => ctx[s] = "live"
  PROVE  Fit(s)'
<1> USE DEF SamePart
<1>1. Ordered(s)' /\ Owned(s)' /\ Drifted(s)'
  BY StaysOrdered, StaysDrifted, StaysOwned
<1>2. Faced(s)'
  BY StaysFaced DEF Compared
<1>3. Fit(s) /\ inv'[s] = inv[s]
  BY DEF SafeInv, Grows
<1>4. Covering(s)'
  BY <1>3 DEF Fit, Covering, Assessed, Ran
<1>5. Judged(s)'
  BY <1>3 DEF Fit, Judged, Summed, Assessed, Ran, Final
<1>6. Alerted(s)'
  BY <1>3 DEF Fit, Alerted
<1> QED BY <1>1, <1>2, <1>4, <1>5, <1>6 DEF Fit

LEMMA StaysRecorded ==
  ASSUME SafeInv, inv' = inv, runs' = runs, own' = own, NEW k \in DOMAIN runs'
  PROVE  Recorded(k)'
BY DEF SafeInv, Recorded

LEMMA SurroundingsSafe ==
  ASSUME SafeInv, UNCHANGED vars \/ Crash \/ AdminChange \/ \E s \in Sessions : ContextDone(s)
  PROVE  SafeInv'
<1>1. inv' = inv /\ runs' = runs /\ own' = own
  BY DEF vars, sessionVars, Crash, AdminChange, ContextDone
<1>2. Shape'
  BY StepShape DEF SafeInv, Next
<1>3. \A k \in DOMAIN runs' : Recorded(k)'
  BY <1>1, StaysRecorded
<1>4. ASSUME NEW s \in Sessions
      PROVE  /\ SamePart(s)
             /\ pc'[s] = pc[s] \/ (pc'[s] = "crashed" /\ pc[s] \notin Final)
             /\ ctx'[s] = "live" => ctx[s] = "live"
  <2>1. SamePart(s)
    BY DEF SamePart, vars, sessionVars, Crash, AdminChange, ContextDone
  <2>2. ctx'[s] = "live" => ctx[s] = "live"
    BY DEF vars, Crash, AdminChange, ContextDone, SafeInv, Shape, TypeOK
  <2>3. pc'[s] = pc[s] \/ (pc'[s] = "crashed" /\ pc[s] \notin Final)
    <3>1. CASE Crash
      <4>1. \/ pc'[s] = "crashed" /\ pc[s] \notin Final \cup {"new"}
            \/ pc'[s] = pc[s]
        BY <3>1 DEF Crash
      <4> QED BY <4>1
    <3>2. CASE pc' = pc
      BY <3>2
    <3> QED BY <3>1, <3>2 DEF vars, AdminChange, ContextDone
  <2> QED BY <2>1, <2>2, <2>3
<1>5. Grows
  <2>1. \A t \in Sessions : pc[t] \in Final => pc'[t] = pc[t]
    BY <1>4
  <2> QED BY <1>1, <2>1 DEF Grows
<1>6. \A s \in Sessions : Fit(s)'
  BY <1>4, <1>5, StaysFit
<1> QED BY <1>2, <1>3, <1>6 DEF SafeInv

-----------------------------------------------------------------------------
(* A step of a session leaves the others alone.                            *)
Others(s) ==
  \A t \in Sessions : t # s => SamePart(t) /\ pc'[t] = pc[t] /\ ctx'[t] = ctx[t]

LEMMA ActorSafe ==
  ASSUME SafeInv, Next, Grows, NEW s \in Sessions, Others(s), Fit(s)',
         \A k \in DOMAIN runs' : Recorded(k)'
  PROVE  SafeInv'
<1>1. \A t \in Sessions : t # s => Fit(t)'
  BY StaysFit DEF Others
<1>2. Shape'
  BY StepShape DEF SafeInv
<1> QED BY <1>1, <1>2 DEF SafeInv

(* ... and so do the steps that record nothing.                            *)
LEMMA ReaderGrows ==
  ASSUME SafeInv, NEW s \in Sessions, pc[s] \notin Final,
         inv' = inv, runs' = runs, own' = own, Others(s)
  PROVE  Grows /\ \A k \in DOMAIN runs' : Recorded(k)'
BY StaysRecorded DEF Grows, Others

LEMMA BeginSafe ==
  ASSUME SafeInv, Next, NEW s \in Sessions, Begin(s)
  PROVE  SafeInv'
<1>1. /\ pc[s] = "new" /\ pc'[s] = "assess" /\ todo'[s] = ToRun(inv[s])
      /\ before'[s] = {t \in Sessions : pc[t] \in Final}
      /\ results'[s] = results[s] /\ summary'[s] = summary[s] /\ own' = own
      /\ drift'[s] = drift[s] /\ alert'[s] = alert[s] /\ exit'[s] = exit[s]
      /\ sawBad'[s] = sawBad[s] /\ inv' = inv /\ runs' = runs
  BY DEF Begin, SafeInv, Shape, TypeOK
<1>2. Others(s)
  BY DEF Begin, SafeInv, Shape, TypeOK, Others, SamePart
<1>3. Grows /\ \A k \in DOMAIN runs' : Recorded(k)'
  BY <1>1, <1>2, ReaderGrows DEF Final
<1>4. Fit(s)
  BY DEF SafeInv
<1>5. Owned(s)' /\ Drifted(s)'
  BY <1>1, <1>3, StaysOwned, StaysDrifted
<1>6. drift'[s] = NoDrift
  BY <1>1, <1>4 DEF Fit, Drifted
<1>7. Faced(s)' /\ Alerted(s)'
  BY <1>6, NothingFaced DEF Alerted
<1>8. Ordered(s)'
  BY <1>1, <1>2 DEF Ordered, Others, Final
<1>9. Covering(s)'
  <2>1. results'[s] = Nothing
    BY <1>1, <1>4 DEF Fit, Covering
  <2>2. Ran(results'[s]) = {}
    BY <2>1, NothingType
  <2> QED BY <1>1, <2>2 DEF Covering, Assessed
<1>10. Judged(s)'
  BY <1>1, <1>4 DEF Fit, Covering, Judged, Summed, Assessed
<1> QED BY <1>2, <1>3, <1>5, <1>7, <1>8, <1>9, <1>10, ActorSafe DEF Fit

LEMMA AssessRuleSafe ==
  ASSUME SafeInv, Next, NEW s \in Sessions, AssessRule(s)
  PROVE  SafeInv'
<1>1. /\ pc[s] = "assess" /\ summary'[s] = summary[s] /\ own' = own
      /\ drift'[s] = drift[s] /\ alert'[s] = alert[s] /\ exit'[s] = exit[s]
      /\ before'[s] = before[s] /\ inv' = inv /\ runs' = runs /\ ctx' = ctx
  BY DEF AssessRule
<1>2. PICK r \in todo[s], v \in View :
        /\ \E st \in Outcome(r, v) : results' = [results EXCEPT ![s][r] = st]
        /\ sawBad' = [sawBad EXCEPT ![s] = @ \cup {q \in {r} : v = "bad"}]
        /\ todo' = [todo EXCEPT ![s] = @ \ {r}]
        /\ pc' = [pc EXCEPT ![s] = IF todo[s] = {r} THEN "policy" ELSE "assess"]
  BY DEF AssessRule
<1>3. PICK st \in Outcome(r, v) : results' = [results EXCEPT ![s][r] = st]
  BY <1>2
<1>4. Others(s)
  BY <1>2, <1>3 DEF AssessRule, SafeInv, Shape, TypeOK, Others, SamePart
<1>5. Grows /\ \A k \in DOMAIN runs' : Recorded(k)'
  BY <1>1, <1>4, ReaderGrows DEF Final
<1>6. Fit(s)
  BY DEF SafeInv
<1>7. r \in Rules
  BY DEF SafeInv, Shape, TypeOK
<1>8. st # "absent" /\ (v = "bad" => st = Bad(r))
  BY <1>7, CatalogAssumption DEF Outcome, Bad, MetaType
<1>9. /\ pc'[s] = IF todo[s] = {r} THEN "policy" ELSE "assess"
      /\ todo'[s] = todo[s] \ {r}
      /\ sawBad'[s] = sawBad[s] \cup {q \in {r} : v = "bad"}
  BY <1>2 DEF SafeInv, Shape, TypeOK
<1>10. /\ results'[s][r] = st
       /\ \A q \in Rules : q # r => results'[s][q] = results[s][q]
  <2>1. results[s] \in [Rules -> Status \cup {"absent"}] /\ results \in [Sessions -> Results]
    BY DEF SafeInv, Shape, TypeOK, Results
  <2> QED BY <1>3, <1>7, <2>1
<1>11. Ran(results'[s]) = Ran(results[s]) \cup {r}
  BY <1>7, <1>8, <1>10 DEF Ran
<1>12. Owned(s)' /\ Drifted(s)' /\ Ordered(s)'
  BY <1>1, <1>5, StaysOwned, StaysDrifted, StaysOrdered
<1>13. drift'[s] = NoDrift
  BY <1>1, <1>6 DEF Fit, Drifted
<1>14. Faced(s)' /\ Alerted(s)'
  BY <1>13, NothingFaced DEF Alerted
<1>15. Covering(s)'
  <2>1. Ran(results'[s]) \cup todo'[s] = ToRun(inv'[s]) /\ Ran(results'[s]) \cap todo'[s] = {}
    BY <1>1, <1>6, <1>9, <1>11 DEF Fit, Covering
  <2>2. pc'[s] = "policy" => todo'[s] = {}
    BY <1>9
  <2> QED BY <1>9, <2>1, <2>2 DEF Covering, Assessed
<1>16. Judged(s)'
  <2>1. sawBad[s] \subseteq Ran(results[s]) /\ r \notin Ran(results[s])
    BY <1>1, <1>6 DEF Fit, Judged, Covering
  <2>2. sawBad'[s] \subseteq Ran(results'[s])
    BY <1>9, <1>11, <2>1
  <2>3. \A q \in sawBad'[s] : results'[s][q] = Bad(q)
    <3> SUFFICES ASSUME NEW q \in sawBad'[s] PROVE results'[s][q] = Bad(q)
      OBVIOUS
    <3>1. CASE q \in sawBad[s]
      <4>1. q # r /\ q \in Rules
        BY <2>1, <3>1 DEF Ran
      <4>2. results[s][q] = Bad(q)
        BY <1>1, <1>6, <3>1 DEF Fit, Judged
      <4> QED BY <1>10, <4>1, <4>2
    <3>2. CASE q \notin sawBad[s]
      BY <1>8, <1>9, <1>10, <3>2
    <3> QED BY <3>1, <3>2
  <2>4. pc'[s] \notin Summed /\ exit'[s] # "ok"
    BY <1>1, <1>6, <1>9 DEF Fit, Judged, Summed, Assessed
  <2> QED BY <2>2, <2>3, <2>4 DEF Judged
<1> QED BY <1>4, <1>5, <1>12, <1>14, <1>15, <1>16, ActorSafe DEF Fit

LEMMA ApplyPolicySafe ==
  ASSUME SafeInv, Next, NEW s \in Sessions, ApplyPolicy(s)
  PROVE  SafeInv'
<1>1. /\ pc[s] = "policy" /\ own' = own
      /\ drift'[s] = drift[s] /\ alert'[s] = alert[s] /\ exit'[s] = exit[s]
      /\ before'[s] = before[s] /\ sawBad'[s] = sawBad[s]
      /\ inv' = inv /\ runs' = runs /\ ctx' = ctx
  BY DEF ApplyPolicy
<1>2. Others(s)
  BY DEF ApplyPolicy, SafeInv, Shape, TypeOK, Others, SamePart
<1>3. Grows /\ \A k \in DOMAIN runs' : Recorded(k)'
  BY <1>1, <1>2, ReaderGrows DEF Final
<1>4. Fit(s)
  BY DEF SafeInv
<1>5. /\ results'[s] = ApplyWaivers(inv[s].policy, inv[s].now, results[s])
      /\ summary'[s] = Summarize(results'[s])
      /\ pc'[s] \in {"save", "notify", "done"}
      /\ pc'[s] = "notify" => Cli(inv[s])
  BY DEF ApplyPolicy, AfterPolicy, SafeInv, Shape, TypeOK
<1>6. results[s] \in Results
  BY DEF SafeInv, Shape, TypeOK
<1>7. Ran(results'[s]) = Ran(results[s])
  BY <1>5, <1>6, ApplyWaiversFacts
<1>8. Owned(s)' /\ Drifted(s)' /\ Ordered(s)'
  BY <1>1, <1>3, <1>5, StaysOwned, StaysDrifted, StaysOrdered
<1>9. drift'[s] = NoDrift
  BY <1>1, <1>4 DEF Fit, Drifted
<1>10. Faced(s)' /\ Alerted(s)'
  BY <1>9, NothingFaced DEF Alerted
<1>11. Covering(s)'
  BY <1>1, <1>4, <1>5, <1>7 DEF Fit, Covering, Assessed
<1>12. Judged(s)'
  <2>1. sawBad'[s] \subseteq Ran(results'[s])
    BY <1>1, <1>4, <1>7 DEF Fit, Judged
  <2>2. \A r \in sawBad[s] : \/ results'[s][r] = Bad(r)
                             \/ ActivelyWaived(inv[s].policy, r, inv[s].now)
    <3> SUFFICES ASSUME NEW r \in sawBad[s], ~ActivelyWaived(inv[s].policy, r, inv[s].now)
                 PROVE  results'[s][r] = Bad(r)
      OBVIOUS
    <3>1. r \in Rules /\ results[s][r] = Bad(r)
      BY <1>1, <1>4 DEF Fit, Judged, Ran
    <3> QED BY <1>5, <3>1 DEF ApplyWaivers
  <2>3. exit'[s] # "ok"
    BY <1>1, <1>4 DEF Fit, Judged
  <2> QED BY <1>1, <1>5, <2>1, <2>2, <2>3 DEF Judged
<1> QED BY <1>2, <1>3, <1>8, <1>10, <1>11, <1>12, ActorSafe DEF Fit

LEMMA SaveSafe ==
  ASSUME SafeInv, Next, NEW s \in Sessions, Save(s)
  PROVE  SafeInv'
<1> DEFINE n == Len(runs) + 1
           run == [by |-> s, enterprise |-> inv[s].enterprise,
                   summary |-> summary[s], statuses |-> results[s]]
<1>1. /\ pc[s] = "save" /\ ctx[s] = "live" /\ runs' = Append(runs, run)
      /\ inv' = inv /\ ctx' = ctx /\ todo' = todo /\ results' = results
      /\ summary' = summary /\ drift' = drift /\ alert' = alert /\ exit' = exit
      /\ before' = before /\ sawBad' = sawBad
  BY DEF Save
<1>2. own'[s] = n /\ \A t \in Sessions : t # s => own'[t] = own[t]
  BY DEF Save, SafeInv, Shape, TypeOK
<1>3. pc'[s] \in {"drift", "done"} /\ \A t \in Sessions : t # s => pc'[t] = pc[t]
  BY DEF Save, AfterSave, SafeInv, Shape, TypeOK
<1>4. runs \in Seq(Run)
  BY DEF SafeInv, Shape
<1> HIDE DEF run
<1>5. /\ DOMAIN runs' = DOMAIN runs \cup {n} /\ n \notin DOMAIN runs /\ n \in Nat /\ n # 0
      /\ runs'[n] = run /\ \A k \in DOMAIN runs : runs'[k] = runs[k]
  <2>1. DOMAIN runs = 1..Len(runs) /\ Len(runs) \in Nat
    BY <1>4
  <2>2. DOMAIN runs' = 1..(Len(runs) + 1) /\ runs'[n] = run
        /\ \A k \in 1..Len(runs) : runs'[k] = runs[k]
    BY <1>1, <1>4
  <2> QED BY <2>1, <2>2
<1> HIDE DEF n
<1>6. Others(s)
  BY <1>1, <1>2, <1>3 DEF Others, SamePart
<1>7. Grows
  BY <1>1, <1>2, <1>3, <1>5 DEF Grows, Final
<1>8. Fit(s)
  BY DEF SafeInv
<1>9. run.by = s /\ run.enterprise = inv[s].enterprise
      /\ run.summary = summary[s] /\ run.statuses = results[s]
  BY DEF run
<1>10. Ran(results[s]) = ToRun(inv[s]) /\ summary[s] = Summarize(results[s]) /\ own[s] = 0
  BY <1>1, <1>8 DEF Fit, Covering, Judged, Owned, Assessed, Summed
<1>11. ASSUME NEW k \in DOMAIN runs' PROVE Recorded(k)'
  <2>1. CASE k = n
    BY <1>1, <1>2, <1>5, <1>9, <1>10, <2>1 DEF Recorded
  <2>2. CASE k # n
    <3>1. k \in DOMAIN runs /\ runs'[k] = runs[k] /\ Recorded(k)
      BY <1>5, <2>2 DEF SafeInv
    <3>2. runs[k].by \in Sessions /\ own[runs[k].by] = k /\ k # 0
      <4>1. runs[k] \in Run /\ k \in 1..Len(runs)
        BY <1>4, <3>1
      <4> QED BY <3>1, <4>1 DEF Recorded, Run
    <3>3. own'[runs[k].by] = k
      BY <1>2, <1>10, <3>2
    <3> QED BY <1>1, <3>1, <3>3 DEF Recorded
  <2> QED BY <2>1, <2>2
<1>12. Owned(s)'
  BY <1>2, <1>3, <1>5, <1>9 DEF Owned
<1>13. drift'[s] = NoDrift
  BY <1>1, <1>8 DEF Fit, Drifted
<1>14. Faced(s)' /\ Alerted(s)'
  BY <1>13, NothingFaced DEF Alerted
<1>15. Ordered(s)' /\ Drifted(s)'
  BY <1>1, <1>7, StaysOrdered, StaysDrifted
<1>16. Covering(s)' /\ Judged(s)'
  BY <1>1, <1>3, <1>8 DEF Fit, Covering, Judged, Assessed, Summed, Ran
<1> QED BY <1>6, <1>7, <1>11, <1>12, <1>14, <1>15, <1>16, ActorSafe DEF Fit

(* The steps of a session that only moves on.                              *)
LEMMA MoveOnSafe ==
  ASSUME SafeInv, Next, NEW s \in Sessions, SaveFails(s) \/ DriftFails(s) \/ StreamStops(s)
  PROVE  SafeInv'
<1>1. /\ own' = own /\ drift' = drift /\ alert' = alert /\ exit' = exit /\ todo' = todo
      /\ results' = results /\ summary' = summary /\ before' = before
      /\ sawBad' = sawBad /\ inv' = inv /\ runs' = runs /\ ctx' = ctx
  BY DEF SaveFails, DriftFails, StreamStops, sessionVars
<1>2. \/ pc[s] = "assess" /\ pc'[s] = "policy" /\ ctx[s] = "done"
      \/ pc[s] = "save" /\ pc'[s] \in {"notify", "done"}
      \/ pc[s] = "drift" /\ pc'[s] = "notify"
  BY DEF SaveFails, DriftFails, StreamStops, AfterSave, SafeInv, Shape, TypeOK
<1>3. Others(s)
  BY DEF SaveFails, DriftFails, StreamStops, sessionVars, SafeInv, Shape, TypeOK, Others, SamePart
<1>4. Grows /\ \A k \in DOMAIN runs' : Recorded(k)'
  BY <1>1, <1>2, <1>3, ReaderGrows DEF Final
<1>5. Fit(s)
  BY DEF SafeInv
<1>6. Owned(s)' /\ Drifted(s)' /\ Ordered(s)'
  BY <1>1, <1>2, <1>4, StaysOwned, StaysDrifted, StaysOrdered
<1>7. drift'[s] = NoDrift
  BY <1>1, <1>2, <1>5 DEF Fit, Drifted
<1>8. Faced(s)' /\ Alerted(s)'
  BY <1>7, NothingFaced DEF Alerted
<1>9. Covering(s)'
  BY <1>1, <1>2, <1>5 DEF Fit, Covering, Assessed, Ran
<1>10. Judged(s)'
  BY <1>1, <1>2, <1>5 DEF Fit, Judged, Assessed, Summed, Ran
<1> QED BY <1>3, <1>4, <1>6, <1>8, <1>9, <1>10, ActorSafe DEF Fit

(* The newest run but a session's own is the run of the session that it    *)
(* followed.                                                               *)
LEMMA PreviousIsLast ==
  ASSUME SafeInv, NEW t \in Sessions, NEW s \in Sessions, Successive(t, s),
         NEW p \in PreviousOf(s)
  PROVE  p = own[t]
<1> DEFINE e == inv[s].enterprise
           newer == {j \in RunsOf(e) : j > own[t]}
<1>1. own[t] \in DOMAIN runs /\ runs[own[t]].by = t /\ own[t] # 0
  BY DEF Successive, SafeInv, Fit, Owned
<1>2. own[t] \in RunsOf(e)
  BY <1>1 DEF SafeInv, Recorded, Successive, RunsOf
<1>3. own[t] # own[s]
  <2>1. t # s
    BY DEF Successive, SafeInv, Fit, Ordered
  <2> QED BY <1>1, <2>1 DEF SafeInv, Fit, Owned
<1>4. newer \subseteq {own[s]}
  BY DEF Successive
<1>5. Cardinality(newer) < 2
  <2>1. IsFiniteSet({own[s]}) /\ Cardinality({own[s]}) = 1
    BY FS_Singleton
  <2>2. IsFiniteSet(newer) /\ Cardinality(newer) <= 1
    BY <1>4, <2>1, FS_Subset
  <2>3. Cardinality(newer) \in Nat
    BY <2>2, FS_CardinalityType
  <2> QED BY <2>2, <2>3
<1>6. own[t] \in Latest(e, 2) \ {own[s]}
  BY <1>2, <1>3, <1>5 DEF Latest
<1>7. p \in RunsOf(e) /\ p # own[s] /\ p >= own[t]
  BY <1>6 DEF PreviousOf, Latest
<1>8. p \in Nat /\ own[t] \in Nat
  BY <1>1, PreviousIsRun DEF SafeInv, Shape
<1> QED BY <1>4, <1>7, <1>8

LEMMA ComputeDriftSafe ==
  ASSUME SafeInv, Next, NEW s \in Sessions, ComputeDrift(s)
  PROVE  SafeInv'
<1>1. /\ pc[s] = "drift" /\ own' = own /\ alert' = alert /\ exit' = exit /\ todo' = todo
      /\ results' = results /\ summary' = summary /\ before' = before
      /\ sawBad' = sawBad /\ inv' = inv /\ runs' = runs /\ ctx' = ctx
  BY DEF ComputeDrift
<1>2. /\ pc'[s] = "notify" /\ \A t \in Sessions : t # s => pc'[t] = pc[t] /\ drift'[t] = drift[t]
  BY DEF ComputeDrift, SafeInv, Shape, TypeOK
<1>3. Others(s)
  BY <1>1, <1>2 DEF Others, SamePart
<1>4. Grows /\ \A k \in DOMAIN runs' : Recorded(k)'
  BY <1>1, <1>3, ReaderGrows DEF Final
<1>5. Fit(s)
  BY DEF SafeInv
<1>6. Owned(s)' /\ Ordered(s)'
  BY <1>1, <1>2, <1>4, StaysOwned, StaysOrdered
<1>7. Covering(s)' /\ Judged(s)' /\ Alerted(s)'
  BY <1>1, <1>2, <1>5 DEF Fit, Covering, Judged, Alerted, Assessed, Summed, Ran
<1>8. CASE PreviousOf(s) = {}
  <2>1. drift'[s] = NoDrift
    BY <1>1, <1>5, <1>8 DEF ComputeDrift, Fit, Drifted
  <2>2. Faced(s)' /\ Drifted(s)'
    BY <1>2, <2>1, NothingFaced DEF Drifted, NoDrift
  <2> QED BY <1>3, <1>4, <1>6, <1>7, <2>2, ActorSafe DEF Fit
<1>9. CASE PreviousOf(s) # {}
  <2>1. PICK p \in PreviousOf(s) :
          LET d == Compare(runs[p], summary[s].score, results[s])
          IN drift' = [drift EXCEPT ![s] =
                         [previous |-> p, scoreDelta |-> d.scoreDelta,
                          newlyFailing |-> d.newlyFailing,
                          newlyFixed |-> d.newlyFixed, regressed |-> d.regressed]]
    BY <1>9, Zenon DEF ComputeDrift
  <2> DEFINE failing == Compare(runs[p], summary[s].score, results[s]).newlyFailing
  <2>2. drift \in [Sessions -> Drift]
    BY DEF SafeInv, Shape
  <2>3. drift'[s].previous = p /\ drift'[s].newlyFailing = failing
    <3> HIDE DEF Drift, Compare
    <3> QED BY <2>1, <2>2
  <2>4. /\ p \in DOMAIN runs /\ p \in Nat \ {0} /\ p # own[s]
        /\ runs[p].enterprise = inv[s].enterprise
    BY PreviousIsRun DEF SafeInv
  <2>5. runs[p].by # s
    BY <2>4 DEF SafeInv, Recorded
  <2>6. Drifted(s)'
    BY <1>1, <1>2, <2>3, <2>4, <2>5 DEF Drifted
  <2>7. Faced(s)'
    <3> SUFFICES ASSUME NEW t \in Sessions, Successive(t, s)'
                 PROVE  NewFailures(t, s)' \subseteq drift'[s].newlyFailing
      BY DEF Faced
    <3>1. Successive(t, s)
      BY <1>1, <1>4, SuccessiveBefore
    <3>2. p = own[t]
      BY <3>1, PreviousIsLast
    <3>3. NewFailures(t, s)' = NewFailures(t, s)
      BY <1>1 DEF NewFailures
    <3>4. NewFailures(t, s) \subseteq failing
      BY <3>2 DEF NewFailures, Compare, Ran
    <3> QED BY <2>3, <3>3, <3>4
  <2> QED BY <1>3, <1>4, <1>6, <1>7, <2>6, <2>7, ActorSafe DEF Fit
<1> QED BY <1>8, <1>9

LEMMA NotifySafe ==
  ASSUME SafeInv, Next, NEW s \in Sessions, Notify(s)
  PROVE  SafeInv'
<1>1. /\ pc[s] = "notify" /\ own' = own /\ drift' = drift /\ exit' = exit /\ todo' = todo
      /\ results' = results /\ summary' = summary /\ before' = before
      /\ sawBad' = sawBad /\ inv' = inv /\ runs' = runs /\ ctx' = ctx
  BY DEF Notify
<1>2. /\ pc'[s] = "gate" /\ \A t \in Sessions : t # s => pc'[t] = pc[t] /\ alert'[t] = alert[t]
      /\ inv[s].notify = "alert" /\ ShouldAlert(drift[s]) => alert'[s] # "none"
  BY DEF Notify, SafeInv, Shape, TypeOK
<1>3. Others(s)
  BY <1>1, <1>2 DEF Others, SamePart
<1>4. Grows /\ \A k \in DOMAIN runs' : Recorded(k)'
  BY <1>1, <1>3, ReaderGrows DEF Final
<1>5. Fit(s)
  BY DEF SafeInv
<1>6. Owned(s)' /\ Ordered(s)' /\ Drifted(s)'
  BY <1>1, <1>2, <1>4, StaysOwned, StaysOrdered, StaysDrifted
<1>7. Covering(s)' /\ Judged(s)'
  BY <1>1, <1>2, <1>5 DEF Fit, Covering, Judged, Assessed, Summed, Ran
<1>8. Alerted(s)'
  BY <1>1, <1>2 DEF Alerted
<1>9. Faced(s)'
  BY <1>1, <1>4, StaysFaced DEF Compared
<1> QED BY <1>3, <1>4, <1>6, <1>7, <1>8, <1>9, ActorSafe DEF Fit

LEMMA GateSafe ==
  ASSUME SafeInv, Next, NEW s \in Sessions, Gate(s)
  PROVE  SafeInv'
<1>1. /\ pc[s] = "gate" /\ own' = own /\ drift' = drift /\ alert' = alert /\ todo' = todo
      /\ results' = results /\ summary' = summary /\ before' = before
      /\ sawBad' = sawBad /\ inv' = inv /\ runs' = runs /\ ctx' = ctx
  BY DEF Gate
<1>2. /\ pc'[s] = "done" /\ \A t \in Sessions : t # s => pc'[t] = pc[t] /\ exit'[t] = exit[t]
      /\ exit'[s] = "ok" => ~Breached(inv[s].failOn, summary[s].count)
  BY DEF Gate, SafeInv, Shape, TypeOK
<1>3. Others(s)
  BY <1>1, <1>2 DEF Others, SamePart
<1>4. Grows /\ \A k \in DOMAIN runs' : Recorded(k)'
  BY <1>1, <1>3, ReaderGrows DEF Final
<1>5. Fit(s)
  BY DEF SafeInv
<1>6. Owned(s)' /\ Ordered(s)' /\ Drifted(s)'
  BY <1>1, <1>2, <1>4, StaysOwned, StaysOrdered, StaysDrifted
<1>7. Covering(s)' /\ Judged(s)'
  BY <1>1, <1>2, <1>5 DEF Fit, Covering, Judged, Assessed, Summed, Ran
<1>8. Alerted(s)'
  BY <1>1, <1>2, <1>5 DEF Fit, Alerted
<1>9. Faced(s)'
  BY <1>1, <1>4, StaysFaced DEF Compared
<1> QED BY <1>3, <1>4, <1>6, <1>7, <1>8, <1>9, ActorSafe DEF Fit

LEMMA StepSafe == SafeInv /\ [Next]_vars => SafeInv'
<1> SUFFICES ASSUME SafeInv, [Next]_vars PROVE SafeInv'
  OBVIOUS
<1>1. CASE UNCHANGED vars
  BY <1>1, SurroundingsSafe
<1>2. CASE Next
  <2>1. CASE Crash \/ AdminChange \/ \E s \in Sessions : ContextDone(s)
    BY <2>1, SurroundingsSafe
  <2>2. ASSUME NEW s \in Sessions,
               \/ Begin(s) \/ AssessRule(s) \/ ApplyPolicy(s) \/ Save(s)
               \/ ComputeDrift(s) \/ Notify(s) \/ Gate(s)
               \/ SaveFails(s) \/ DriftFails(s) \/ StreamStops(s)
        PROVE  SafeInv'
    BY <1>2, <2>2, BeginSafe, AssessRuleSafe, ApplyPolicySafe, SaveSafe, MoveOnSafe,
       ComputeDriftSafe, NotifySafe, GateSafe
  <2> QED BY <1>2, <2>1, <2>2 DEF Next
<1> QED BY <1>1, <1>2

LEMMA AlwaysSafe == Spec => []SafeInv
BY InitSafe, StepSafe, PTL DEF Spec

-----------------------------------------------------------------------------
(* A run in the database has a status for every rule its session set out   *)
(* to assess (engine.AssessStream, store.SaveRun).                         *)
THEOREM RunsComplete == Spec => []RecordedRunsComplete
<1>1. SafeInv => RecordedRunsComplete
  BY DEF SafeInv, Recorded, RecordedRunsComplete
<1> QED BY <1>1, AlwaysSafe, PTL

(* The row of a run in scan_runs is the summary of its rows in results.    *)
THEOREM SummariesMatch == Spec => []RecordedSummaryMatchesRows
<1>1. SafeInv => RecordedSummaryMatchesRows
  BY DEF SafeInv, Recorded, RecordedSummaryMatchesRows
<1> QED BY <1>1, AlwaysSafe, PTL

(* DriftAgainstPrevious compares a session with a run that is not its own  *)
(* and is of its own enterprise.                                           *)
THEOREM DriftHome == Spec => []DriftStaysHome
<1>1. SafeInv => DriftStaysHome
  BY DEF SafeInv, Fit, Drifted, DriftStaysHome
<1> QED BY <1>1, AlwaysSafe, PTL

(* What the run before it did not report as failed, and it does, a run     *)
(* that was compared alerts.                                               *)
THEOREM FailuresAlert == Spec => []NewFailuresAlert
<1>1. SafeInv => NewFailuresAlert
  <2> SUFFICES ASSUME SafeInv, NEW t \in Sessions, NEW s \in Sessions, Successive(t, s),
                      inv[s].notify = "alert", drift[s].previous # 0,
                      pc[s] \in {"gate", "done"},
                      NEW r \in Rules, results[s][r] = "fail",
                      runs[own[t]].statuses[r] \notin {"fail", "absent"}
               PROVE  alert[s] # "none"
    BY DEF NewFailuresAlert
  <2>1. r \in NewFailures(t, s)
    BY DEF NewFailures
  <2>2. r \in drift[s].newlyFailing
    BY <2>1 DEF SafeInv, Fit, Faced, Compared
  <2>3. ShouldAlert(drift[s])
    BY <2>2 DEF ShouldAlert
  <2> QED BY <2>3 DEF SafeInv, Fit, Alerted
<1> QED BY <1>1, AlwaysSafe, PTL

(* A command that exits with success saw nothing bad at its level that is  *)
(* not waived (--fail-on).                                                 *)
THEOREM GateHolds == Spec => []GateStopsFindings
<1>1. SafeInv => GateStopsFindings
  <2> SUFFICES ASSUME SafeInv, NEW s \in Sessions, exit[s] = "ok", NEW r \in sawBad[s],
                      inv[s].failOn # "never",
                      ~ActivelyWaived(inv[s].policy, r, inv[s].now)
               PROVE  inv[s].failOn = "fail" /\ Meta[r].warns
    BY DEF GateStopsFindings
  <2>1. /\ results[s][r] = Bad(r) /\ r \in Rules
        /\ summary[s] = Summarize(results[s])
        /\ ~Breached(inv[s].failOn, summary[s].count)
    BY DEF SafeInv, Fit, Judged, Ran, Summed, Assessed
  <2>2. summary[s].count[Bad(r)] > 0
    <3>1. Count(results[s], Bad(r)) > 0
      BY <2>1, CountSeesOne
    <3> QED BY <2>1, <3>1 DEF Summarize, Status, Bad
  <2>3. inv[s].failOn \in {"fail", "warn"}
    BY InvocationsAssumption DEF SafeInv, Shape, TypeOK, Invocation
  <2> QED BY <2>1, <2>2, <2>3 DEF Breached, Bad
<1> QED BY <1>1, AlwaysSafe, PTL

-----------------------------------------------------------------------------
(* The promise of Chronicle.  A session that has saved a run still has the *)
(* results it saved when it looks back.                                    *)
Kept(s) ==
  /\ pc[s] = "drift" => own[s] # 0
  /\ own[s] # 0 => /\ runs[own[s]].statuses = results[s]
                   /\ runs[own[s]].summary = summary[s]

Keeps == \A s \in Sessions : Kept(s)

LEMMA InitKeeps == Init => Keeps
BY DEF Init, Keeps, Kept

LEMMA StaysKept ==
  ASSUME SafeInv, NEW t \in Sessions, Kept(t), own'[t] = own[t],
         \A k \in DOMAIN runs : runs'[k] = runs[k],
         own[t] # 0 => results'[t] = results[t] /\ summary'[t] = summary[t],
         pc'[t] = "drift" => pc[t] = "drift"
  PROVE  Kept(t)'
<1>1. own[t] # 0 => own[t] \in DOMAIN runs
  BY DEF SafeInv, Fit, Owned
<1> QED BY <1>1 DEF Kept

LEMMA SaveAppends ==
  ASSUME SafeInv, NEW s \in Sessions, Save(s)
  PROVE  /\ Len(runs) \in Nat /\ DOMAIN runs = 1..Len(runs)
         /\ DOMAIN runs' = 1..(Len(runs) + 1)
         /\ \A k \in DOMAIN runs : runs'[k] = runs[k]
         /\ runs'[Len(runs) + 1].by = s
         /\ runs'[Len(runs) + 1].summary = summary[s]
         /\ runs'[Len(runs) + 1].statuses = results[s]
         /\ own'[s] = Len(runs) + 1
         /\ \A t \in Sessions \ {s} : own'[t] = own[t] /\ pc'[t] = pc[t]
<1> DEFINE run == [by |-> s, enterprise |-> inv[s].enterprise,
                   summary |-> summary[s], statuses |-> results[s]]
<1>1. runs' = Append(runs, run)
  BY DEF Save
<1>2. runs \in Seq(Run)
  BY DEF SafeInv, Shape
<1> HIDE DEF run
<1>3. /\ Len(runs) \in Nat /\ DOMAIN runs = 1..Len(runs)
      /\ DOMAIN runs' = 1..(Len(runs) + 1)
      /\ \A k \in DOMAIN runs : runs'[k] = runs[k]
      /\ runs'[Len(runs) + 1] = run
  BY <1>1, <1>2
<1>4. own'[s] = Len(runs) + 1 /\ \A t \in Sessions \ {s} : own'[t] = own[t] /\ pc'[t] = pc[t]
  BY DEF Save, SafeInv, Shape, TypeOK
<1>5. run.by = s /\ run.summary = summary[s] /\ run.statuses = results[s]
  BY DEF run
<1> QED BY <1>3, <1>4, <1>5

LEMMA StepKeeps == SafeInv /\ Keeps /\ [Next]_vars => Keeps'
<1> SUFFICES ASSUME SafeInv, Keeps, [Next]_vars, NEW t \in Sessions PROVE Kept(t)'
  BY DEF Keeps
<1> USE DEF SafeInv
<1>1. Kept(t)
  BY DEF Keeps
<1>2. own[t] # 0 => pc[t] \notin {"new", "assess", "policy", "save"}
  BY DEF Fit, Owned
<1>3. CASE UNCHANGED vars
  BY <1>1, <1>3, StaysKept DEF vars, sessionVars
<1>4. CASE Crash \/ AdminChange
  <2>1. UNCHANGED sessionVars /\ runs' = runs /\ (pc'[t] = "drift" => pc[t] = "drift")
    BY <1>4 DEF Crash, AdminChange, Shape, TypeOK
  <2> QED BY <1>1, <2>1, StaysKept DEF sessionVars
<1>5. ASSUME NEW s \in Sessions,
             Begin(s) \/ AssessRule(s) \/ StreamStops(s) \/ ApplyPolicy(s)
      PROVE  Kept(t)'
  <2>1. own' = own /\ runs' = runs /\ pc[s] \in {"new", "assess", "policy"}
    BY <1>5 DEF Begin, AssessRule, StreamStops, ApplyPolicy, sessionVars
  <2>2. /\ t # s => pc'[t] = pc[t] /\ results'[t] = results[t] /\ summary'[t] = summary[t]
        /\ t = s => pc'[t] # "drift"
    <3>1. CASE Begin(s) \/ StreamStops(s) \/ ApplyPolicy(s)
      BY <3>1 DEF Begin, StreamStops, ApplyPolicy, AfterPolicy, sessionVars, Shape, TypeOK
    <3>2. CASE AssessRule(s)
      <4>1. pc'[s] \in {"policy", "assess"} /\ (t # s => pc'[t] = pc[t])
        BY <3>2 DEF AssessRule, Shape, TypeOK
      <4>2. t # s => results'[t] = results[t] /\ summary'[t] = summary[t]
        BY <3>2 DEF AssessRule, Shape, TypeOK
      <4> QED BY <4>1, <4>2
    <3> QED BY <1>5, <3>1, <3>2
  <2>3. t = s => own[t] = 0
    BY <1>2, <2>1
  <2> QED BY <1>1, <2>1, <2>2, <2>3, StaysKept
<1>6. ASSUME NEW s \in Sessions, Save(s)
      PROVE  Kept(t)'
  <2>1. results' = results /\ summary' = summary
    BY <1>6 DEF Save
  <2>2. CASE t = s
    <3>1. own'[s] # 0 /\ runs'[own'[s]].statuses = results[s] /\ runs'[own'[s]].summary = summary[s]
      BY <1>6, SaveAppends
    <3> QED BY <2>1, <2>2, <3>1 DEF Kept
  <2>3. CASE t # s
    <3>1. own'[t] = own[t] /\ pc'[t] = pc[t] /\ \A k \in DOMAIN runs : runs'[k] = runs[k]
      BY <1>6, <2>3, SaveAppends
    <3> QED BY <1>1, <2>1, <3>1, StaysKept
  <2> QED BY <2>2, <2>3
<1>7. ASSUME NEW s \in Sessions,
             \/ SaveFails(s) \/ ComputeDrift(s) \/ DriftFails(s) \/ Notify(s) \/ Gate(s)
             \/ ContextDone(s)
      PROVE  Kept(t)'
  <2>1. UNCHANGED <<own, runs, results, summary>>
    BY <1>7 DEF SaveFails, ComputeDrift, DriftFails, Notify, Gate, ContextDone, sessionVars
  <2>2. pc'[t] = "drift" => pc[t] = "drift"
    BY <1>7 DEF SaveFails, ComputeDrift, DriftFails, Notify, Gate, ContextDone, AfterSave,
          Shape, TypeOK
  <2> QED BY <1>1, <2>1, <2>2, StaysKept
<1> QED BY <1>3, <1>4, <1>5, <1>6, <1>7 DEF Next

LEMMA AlwaysKeeps == Spec => []Keeps
BY InitKeeps, StepKeeps, AlwaysSafe, PTL DEF Spec

(* Two runs are enough to ask for: the newest but the session's own is the *)
(* newest of all but its own, however many were recorded meanwhile.        *)
LEMMA PreviousIsNewest ==
  ASSUME SafeInv, NEW s \in Sessions, NEW p \in PreviousOf(s),
         NEW k \in RunsOf(inv[s].enterprise), k # own[s]
  PROVE  k <= p
<1> DEFINE e == inv[s].enterprise
           K == RunsOf(e) \ {own[s]}
<1>1. runs \in Seq(Run) /\ DOMAIN runs = 1..Len(runs) /\ Len(runs) \in Nat
  BY DEF SafeInv, Shape
<1>2. K \in SUBSET Nat /\ k \in K /\ \A j \in K : j <= Len(runs)
  BY <1>1 DEF RunsOf
<1>3. PICK q \in K : \A j \in K : j <= q
  <2> HIDE DEF K
  <2> QED BY <1>1, <1>2, GreatestExists
<1>4. q \in Latest(e, 2) \ {own[s]}
  <2> DEFINE newer == {j \in RunsOf(e) : j > q}
  <2>1. newer \subseteq {own[s]}
    BY <1>1, <1>3 DEF RunsOf
  <2>2. IsFiniteSet({own[s]}) /\ Cardinality({own[s]}) = 1
    BY FS_Singleton
  <2>3. IsFiniteSet(newer) /\ Cardinality(newer) <= 1
    BY <2>1, <2>2, FS_Subset
  <2>4. Cardinality(newer) \in Nat
    BY <2>3, FS_CardinalityType
  <2>5. Cardinality(newer) < 2
    BY <2>3, <2>4
  <2> QED BY <1>3, <2>5 DEF Latest
<1>5. p \in K /\ q <= p
  BY <1>4 DEF PreviousOf, Latest
<1> QED BY <1>2, <1>3, <1>5

(* The session looks back: it compares what it saved with what Chronicle   *)
(* says it faces.                                                          *)
LEMMA ComputeDriftConsults ==
  ASSUME SafeInv, Keeps, NEW s \in Sessions, ComputeDrift(s), PreviousOf(s) # {}
  PROVE  Promise!Consult(s)
<1> USE DEF SafeInv
<1> DEFINE ledger == [k \in DOMAIN runs |->
                        [by |-> runs[k].by, score |-> runs[k].summary.score,
                         statuses |-> runs[k].statuses]]
           home == [t \in Sessions |-> inv[t].enterprise]
           facing == [t \in Sessions |-> drift[t].previous]
           news == [t \in Sessions |->
                      [delta |-> drift[t].scoreDelta, worse |-> drift[t].newlyFailing,
                       better |-> drift[t].newlyFixed]]
           n == own[s]
<1>1. pc[s] = "drift" /\ inv' = inv /\ runs' = runs
  BY DEF ComputeDrift
<1>2. /\ n \in DOMAIN runs /\ runs[n].by = s
      /\ runs[n].statuses = results[s] /\ runs[n].summary = summary[s]
  BY <1>1 DEF Keeps, Kept, Fit, Owned
<1>3. drift[s] = NoDrift /\ facing[s] = 0
  BY <1>1 DEF Fit, Drifted, NoDrift
<1>4. PICK p \in PreviousOf(s) :
        LET d == Compare(runs[p], summary[s].score, results[s])
        IN drift' = [drift EXCEPT ![s] =
                       [previous |-> p, scoreDelta |-> d.scoreDelta,
                        newlyFailing |-> d.newlyFailing,
                        newlyFixed |-> d.newlyFixed, regressed |-> d.regressed]]
  BY Zenon DEF ComputeDrift
<1> DEFINE d == Compare(runs[p], summary[s].score, results[s])
<1>5. p \in DOMAIN runs /\ p # own[s] /\ runs[p].enterprise = inv[s].enterprise
  BY PreviousIsRun
<1>6. \A k \in DOMAIN runs :
        /\ runs[k].by \in Sessions
        /\ runs[k].by = s <=> k = n
        /\ home[runs[k].by] = runs[k].enterprise
  <2> TAKE k \in DOMAIN runs
  <2>1. runs[k] \in Run
    BY DEF Shape, TypeOK
  <2>2. runs[k].by \in Sessions
    BY <2>1 DEF Run
  <2> QED BY <1>2, <2>2 DEF Recorded
<1>7. Promise!OthersAtHome(s) = RunsOf(inv[s].enterprise) \ {n}
  BY <1>6 DEF Promise!OthersAtHome, RunsOf
<1>8. p \in Promise!OthersAtHome(s) /\ \A k \in Promise!OthersAtHome(s) : k <= p
  BY <1>5, <1>7, PreviousIsNewest DEF RunsOf
<1>9. Promise!Difference(ledger[p], ledger[n])
        = [delta |-> d.scoreDelta, worse |-> d.newlyFailing, better |-> d.newlyFixed]
  <2>1. /\ ledger[p].score = runs[p].summary.score /\ ledger[p].statuses = runs[p].statuses
        /\ ledger[n].score = summary[s].score /\ ledger[n].statuses = results[s]
    BY <1>2, <1>5
  <2>2. /\ d.scoreDelta = ledger[n].score - ledger[p].score
        /\ d.newlyFailing = {r \in Rules : /\ ledger[n].statuses[r] = "fail"
                                           /\ ledger[p].statuses[r] \notin {"fail", "absent"}}
        /\ d.newlyFixed = {r \in Rules : /\ ledger[p].statuses[r] = "fail"
                                         /\ ledger[n].statuses[r] \notin {"fail", "absent"}}
    <3> HIDE DEF ledger
    <3> QED BY <2>1 DEF Compare, Ran
  <2> HIDE DEF d, ledger
  <2> QED BY <2>2 DEF Promise!Difference
<1>10. /\ \A t \in Sessions \ {s} : drift'[t] = drift[t]
       /\ drift'[s].previous = p /\ drift'[s].scoreDelta = d.scoreDelta
       /\ drift'[s].newlyFailing = d.newlyFailing /\ drift'[s].newlyFixed = d.newlyFixed
  <2>1. drift \in [Sessions -> Drift]
    BY DEF Shape
  <2> HIDE DEF Drift
  <2> QED BY <1>4, <2>1, Zenon DEF d
<1> HIDE DEF d
<1>11. facing' = [facing EXCEPT ![s] = p]
  BY <1>10
<1>12. news' = [news EXCEPT ![s] = Promise!Difference(ledger[p], ledger[n])]
  <2> HIDE DEF ledger
  <2> QED BY <1>9, <1>10
<1>13. ledger' = ledger /\ home' = home /\ [t \in Sessions |-> ToRun(inv[t])]'
                                         = [t \in Sessions |-> ToRun(inv[t])]
  BY <1>1
<1>14. n \in DOMAIN ledger /\ ledger[n].by = s
  BY <1>2
<1> QED BY <1>3, <1>8, <1>11, <1>12, <1>13, <1>14 DEF Promise!Consult

LEMMA SaveEnters ==
  ASSUME SafeInv, SafeInv', NEW s \in Sessions, Save(s)
  PROVE  Promise!Enter(s)
<1> USE DEF SafeInv
<1> DEFINE entry(k) == [by |-> k.by, score |-> k.summary.score, statuses |-> k.statuses]
           ledger == [k \in DOMAIN runs |->
                        [by |-> runs[k].by, score |-> runs[k].summary.score,
                         statuses |-> runs[k].statuses]]
           n == Len(runs) + 1
<1>1. inv' = inv /\ drift' = drift /\ pc[s] = "save"
  BY DEF Save
<1>2. /\ Len(runs) \in Nat /\ DOMAIN runs = 1..Len(runs) /\ DOMAIN runs' = 1..n
      /\ \A k \in DOMAIN runs : runs'[k] = runs[k]
      /\ runs'[n].by = s /\ n \in DOMAIN runs'
  <2>1. Len(runs) \in Nat /\ DOMAIN runs' = 1..n
    BY SaveAppends
  <2>2. n \in DOMAIN runs'
    BY <2>1
  <2> QED BY <2>1, <2>2, SaveAppends
<1>3. Len(ledger) = Len(runs)
  <2>1. ledger \in Seq({ledger[k] : k \in 1..Len(runs)})
    BY <1>2, SeqDef
  <2>2. Len(ledger) \in Nat /\ DOMAIN ledger = 1..Len(ledger) /\ DOMAIN ledger = 1..Len(runs)
    BY <1>2, <2>1, LenProperties
  <2>3. \A i, j \in Nat : 1..i = 1..j => i = j
    <3> SUFFICES ASSUME NEW i \in Nat, NEW j \in Nat, 1..i = 1..j, i # j PROVE FALSE
      OBVIOUS
    <3>1. (i \in 1..i /\ i \notin 1..j) \/ (j \in 1..j /\ j \notin 1..i)
      OBVIOUS
    <3> QED BY <3>1
  <2> HIDE DEF ledger
  <2> QED BY <1>2, <2>2, <2>3
<1>4. \A k \in DOMAIN ledger : ledger[k].by # s
  <2> SUFFICES ASSUME NEW k \in DOMAIN runs PROVE runs[k].by # s
    OBVIOUS
  <2>1. own[s] = 0 /\ k # 0
    BY <1>1, <1>2 DEF Fit, Owned
  <2> QED BY <2>1 DEF Recorded
<1>5. DOMAIN ledger' = 1..n /\ \A k \in DOMAIN ledger : ledger'[k] = ledger[k]
  BY <1>2
<1>6. ledger'[n].by = s /\ ledger'[n].statuses = runs'[n].statuses
  BY <1>2
<1>7. {r \in Rules : ledger'[n].statuses[r] # "absent"} = [t \in Sessions |-> ToRun(inv[t])][s]
  <2>1. \A k \in DOMAIN runs' : Ran(runs'[k].statuses) = ToRun(inv'[runs'[k].by])
    BY DEF Recorded
  <2>2. Ran(runs'[n].statuses) = ToRun(inv[s])
    BY <1>1, <1>2, <2>1
  <2> HIDE DEF ledger, n
  <2> QED BY <1>6, <2>2 DEF Ran
<1> DEFINE home == [t \in Sessions |-> inv[t].enterprise]
           due == [t \in Sessions |-> ToRun(inv[t])]
           facing == [t \in Sessions |-> drift[t].previous]
           news == [t \in Sessions |->
                      [delta |-> drift[t].scoreDelta, worse |-> drift[t].newlyFailing,
                       better |-> drift[t].newlyFixed]]
<1>8. UNCHANGED <<home, due, facing, news>>
  BY <1>1
<1>9. n = Len(ledger) + 1
  <2> HIDE DEF ledger
  <2> QED BY <1>3
<1>10. {r \in Rules : ledger'[n].statuses[r] # "absent"} = due[s]
  BY <1>7
<1>11. /\ \A k \in DOMAIN ledger : ledger[k].by # s
       /\ DOMAIN ledger' = 1..(Len(ledger) + 1)
       /\ \A k \in DOMAIN ledger : ledger'[k] = ledger[k]
       /\ ledger'[Len(ledger) + 1].by = s
       /\ {r \in Rules : ledger'[Len(ledger) + 1].statuses[r] # "absent"} = due[s]
       /\ UNCHANGED <<home, due, facing, news>>
  <2> HIDE DEF ledger, home, due, facing, news, n
  <2> QED BY <1>4, <1>5, <1>6, <1>8, <1>9, <1>10
<1> QED BY <1>11, Zenon DEF Promise!Enter

LEMMA StepChronicles ==
  ASSUME SafeInv, SafeInv', Keeps, [Next]_vars
  PROVE  [Promise!ChronicleNext]_(Promise!chronicleVars)
<1>1. ASSUME UNCHANGED <<inv, runs, drift>> PROVE UNCHANGED Promise!chronicleVars
  BY <1>1 DEF Promise!chronicleVars
<1>2. CASE UNCHANGED vars
  BY <1>1, <1>2 DEF vars, sessionVars
<1>3. CASE Crash \/ AdminChange
  BY <1>1, <1>3 DEF Crash, AdminChange, sessionVars
<1>4. ASSUME NEW s \in Sessions,
             \/ Begin(s) \/ AssessRule(s) \/ StreamStops(s) \/ ApplyPolicy(s) \/ SaveFails(s)
             \/ DriftFails(s) \/ Notify(s) \/ Gate(s) \/ ContextDone(s)
      PROVE  UNCHANGED Promise!chronicleVars
  BY <1>1, <1>4 DEF Begin, AssessRule, StreamStops, ApplyPolicy, SaveFails, DriftFails, Notify,
     Gate, ContextDone, sessionVars
<1>5. ASSUME NEW s \in Sessions, Save(s) PROVE Promise!ChronicleNext
  BY <1>5, SaveEnters DEF Promise!ChronicleNext
<1>6. ASSUME NEW s \in Sessions, ComputeDrift(s)
      PROVE  [Promise!ChronicleNext]_(Promise!chronicleVars)
  <2>1. CASE PreviousOf(s) = {}
    BY <1>1, <1>6, <2>1 DEF ComputeDrift
  <2>2. CASE PreviousOf(s) # {}
    BY <1>6, <2>2, ComputeDriftConsults DEF Promise!ChronicleNext
  <2> QED BY <2>1, <2>2
<1> QED BY <1>2, <1>3, <1>4, <1>5, <1>6 DEF Next

(* The history database implements Chronicle: runs are only added, each is *)
(* complete and its session's only one, and a drift is what lies between a *)
(* session's own run and the newest other one of its enterprise.           *)
THEOREM HistoryIsChronicle == Spec => ImplementsChronicle
<1>1. Init => Promise!ChronicleInit
  <2> SUFFICES ASSUME Init PROVE Promise!ChronicleInit
    OBVIOUS
  <2>1. runs = <<>> /\ DOMAIN runs = {} /\ \A s \in Sessions : drift[s] = NoDrift
    BY DEF Init
  <2>2. [k \in DOMAIN runs |-> [by |-> runs[k].by, score |-> runs[k].summary.score,
                                statuses |-> runs[k].statuses]] = <<>>
    <3> DEFINE ledger == [k \in DOMAIN runs |-> [by |-> runs[k].by, score |-> runs[k].summary.score,
                                                 statuses |-> runs[k].statuses]]
    <3>1. DOMAIN ledger = 1..0
      BY <2>1
    <3>2. ledger \in Seq({})
      BY <3>1, SeqDef
    <3>3. Len(ledger) = 0
      BY <3>1, <3>2, LenProperties
    <3> HIDE DEF ledger
    <3> QED BY <3>2, <3>3, EmptySeq DEF ledger
  <2>3. [s \in Sessions |-> drift[s].previous] = [s \in Sessions |-> 0]
    BY <2>1 DEF NoDrift
  <2>4. [s \in Sessions |-> [delta |-> drift[s].scoreDelta, worse |-> drift[s].newlyFailing,
                             better |-> drift[s].newlyFixed]]
          = [s \in Sessions |-> [delta |-> 0, worse |-> {}, better |-> {}]]
    <3>1. \A s \in Sessions :
            drift[s].scoreDelta = 0 /\ drift[s].newlyFailing = {} /\ drift[s].newlyFixed = {}
      BY <2>1 DEF NoDrift
    <3> QED BY <3>1, Zenon
  <2> QED BY <2>2, <2>3, <2>4, Zenon DEF Promise!ChronicleInit, Promise!NoNews
<1>2. SafeInv /\ SafeInv' /\ Keeps /\ [Next]_vars
        => [Promise!ChronicleNext]_(Promise!chronicleVars)
  BY StepChronicles
<1> QED BY <1>1, <1>2, AlwaysSafe, AlwaysKeeps, PTL
       DEF Spec, ImplementsChronicle, Promise!ChronicleSpec
=============================================================================
