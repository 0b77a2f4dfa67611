------------------------- MODULE ApplyPipelineProofs -------------------------
(***************************************************************************)
(* What holds of ApplyPipeline for every catalog, every set of sessions    *)
(* and invocations and any number of changes made by hand.                 *)
(***************************************************************************)
EXTENDS ApplyPipeline, Extrema, TLAPS

(* What makes the properties inductive: the positions a session still has  *)
(* to remediate, and those it did, are positions its selection may choose  *)
(* from the scorecard the session has, and before the selection there are  *)
(* none.                                                                   *)
Chosen(s, p) ==
  /\ RuleAt(inv[s], p) \in Rules
  /\ results[s][RuleAt(inv[s], p)] \notin {"absent", "waived"}
  /\ Meta[RuleAt(inv[s], p)].destructive =>
       /\ inv[s].surface = "apply"
       /\ inv[s].list # <<>>
       /\ inv[s].allowDestructive

Early == {"assess", "select"}

TargetsOK ==
  \A s \in Sessions :
    /\ pc[s] \in Early => pending[s] = {} /\ written[s] = {} /\ rows[s] = {}
    /\ \A p \in pending[s] \cup written[s] : Chosen(s, p)

TypeInv == TypeOK /\ TargetsOK

-----------------------------------------------------------------------------
LEMMA RulesAssessedType ==
  ASSUME NEW i \in Invocation
  PROVE  RulesAssessed(ToRun(i)) \subseteq Rules
BY DEF RulesAssessed, ToRun, RulesToRun, ProfileFilter, FilterRules

LEMMA ApplyWaiversType ==
  ASSUME NEW pol, NEW now, NEW res \in Results
  PROVE  ApplyWaivers(pol, now, res) \in Results
BY DEF ApplyWaivers, Results, Status

(* Whatever the scorecard, a selection is made of positions that stand for *)
(* rules that ran and are not waived, and of no destructive rule but under *)
(* the three conditions.                                                   *)
LEMMA TargetsSound ==
  ASSUME NEW i \in Invocation, NEW res \in Results, NEW p \in Targets(i, res)
  PROVE  /\ p \in Nat
         /\ RuleAt(i, p) \in Rules
         /\ res[RuleAt(i, p)] \notin {"absent", "waived"}
         /\ Meta[RuleAt(i, p)].destructive =>
              i.surface = "apply" /\ i.list # <<>> /\ i.allowDestructive
<1>1. CASE i.surface = "wizard"
  BY <1>1, CatalogAssumption DEF Targets, WizardTargets, RuleAt, Bulk, Finding
<1>2. CASE i.surface # "wizard" /\ i.list = <<>>
  BY <1>2, CatalogAssumption DEF Targets, RemediableFailures, RuleAt, Bulk, Finding
<1>3. CASE i.surface # "wizard" /\ i.list # <<>>
  <2>1. p \in DOMAIN i.list /\ Eligible(i, res, i.list[p])
    BY <1>3 DEF Targets
  <2>2. i.list \in Seq(Nat)
    BY DEF Invocation
  <2>3. p \in Nat
    BY <2>1, <2>2
  <2> QED
    BY <1>3, <2>1, <2>3 DEF RuleAt, Bulk, Eligible
<1> QED
  BY <1>1, <1>2, <1>3

LEMMA RefusalsType ==
  ASSUME NEW i \in Invocation, NEW chosen
  PROVE  Refusals(i, chosen) \subseteq Row
<1>1. i.list \in Seq(Nat) /\ i.dryRun \in BOOLEAN
  BY DEF Invocation
<1> SUFFICES ASSUME NEW row \in Refusals(i, chosen) PROVE row \in Row
  OBVIOUS
<1>2. PICK p \in DOMAIN i.list :
        row = [pos |-> p, rule |-> i.list[p], applied |-> FALSE, errs |-> TRUE,
               dryRun |-> i.dryRun]
  BY DEF Refusals
<1>3. p \in Nat /\ i.list[p] \in Nat
  BY <1>1, <1>2
<1> QED
  BY <1>1, <1>2, <1>3 DEF Row

-----------------------------------------------------------------------------
LEMMA InitTypeInv == Init => TypeInv
<1> SUFFICES ASSUME Init PROVE TypeInv
  OBVIOUS
<1>1. TypeOK
  <2>1. todo \in [Sessions -> SUBSET Rules]
    BY RulesAssessedType, InvocationsAssumption DEF Init
  <2>2. admin \in 0..MaxAdmin
    BY MaxAdminAssumption DEF Init
  <2>3. /\ view \in [Sessions -> [Rules -> View]]
        /\ results \in [Sessions -> Results]
    BY DEF Init, View, InPart, Results
  <2> QED
    BY <2>1, <2>2, <2>3 DEF Init, TypeOK, Places, Final
<1>2. TargetsOK
  BY DEF Init, TargetsOK
<1> QED
  BY <1>1, <1>2 DEF TypeInv

-----------------------------------------------------------------------------
(* One lemma per action.                                                   *)

LEMMA AssessRuleTypeInv ==
  ASSUME TypeInv, NEW s \in Sessions, AssessRule(s)
  PROVE  TypeInv'
<1> USE DEF TypeInv
<1>1. PICK r \in todo[s], v \in View :
        /\ view' = [view EXCEPT ![s][r] = v]
        /\ \E st \in Outcome(r, v) : results' = [results EXCEPT ![s][r] = st]
        /\ todo' = [todo EXCEPT ![s] = @ \ {r}]
        /\ pc' = [pc EXCEPT ![s] = IF todo[s] = {r} THEN "select" ELSE "assess"]
  BY DEF AssessRule
<1>2. r \in Rules
  BY DEF TypeOK
<1>3. PICK st \in Outcome(r, v) : results' = [results EXCEPT ![s][r] = st]
  BY <1>1
<1>4. st \in Status \cup {"absent"}
  BY <1>2, CatalogAssumption DEF Outcome, Status, MetaType
<1>5. results' \in [Sessions -> Results]
  BY <1>2, <1>3, <1>4 DEF TypeOK, Results
<1>6. view' \in [Sessions -> [Rules -> View]]
  BY <1>1, <1>2 DEF TypeOK, View
<1>7. TypeOK'
  BY <1>1, <1>5, <1>6 DEF AssessRule, TypeOK, Places
<1>8. TargetsOK'
  <2> SUFFICES ASSUME NEW t \in Sessions
               PROVE  /\ pc'[t] \in Early => pending'[t] = {} /\ written'[t] = {} /\ rows'[t] = {}
                      /\ \A p \in pending'[t] \cup written'[t] : Chosen(t, p)'
    BY DEF TargetsOK
  <2>1. CASE t = s
    BY <2>1 DEF TargetsOK, AssessRule, Early
  <2>2. CASE t # s
    BY <1>1, <1>3, <2>2 DEF TargetsOK, AssessRule, Chosen, TypeOK
  <2> QED
    BY <2>1, <2>2
<1> QED
  BY <1>7, <1>8

LEMMA PrefetchTypeInv ==
  ASSUME TypeInv, NEW s \in Sessions, Prefetch(s)
  PROVE  TypeInv'
<1> USE DEF TypeInv
<1>1. PICK r \in todo[s] : \E v \in Reads(s, r) : view' = [view EXCEPT ![s][r] = v]
  BY DEF Prefetch
<1>2. r \in Rules /\ gh[r] \in {"good", "bad", "rest"}
  BY DEF TypeOK
<1>3. Reads(s, r) \subseteq View
  BY <1>2 DEF Reads, View
<1>4. view' \in [Sessions -> [Rules -> View]]
  BY <1>1, <1>2, <1>3 DEF TypeOK
<1>5. TypeOK'
  BY <1>4 DEF Prefetch, TypeOK
<1>6. TargetsOK'
  BY DEF Prefetch, TargetsOK, Chosen
<1> QED
  BY <1>5, <1>6

LEMMA SelectTypeInv ==
  ASSUME TypeInv, NEW s \in Sessions, Select(s)
  PROVE  TypeInv'
<1> USE DEF TypeInv
<1> DEFINE res == ApplyWaivers(inv[s].policy, inv[s].now, results[s])
           chosen == Targets(inv[s], res)
<1>1. inv[s] \in Invocation /\ results[s] \in Results
  BY InvocationsAssumption DEF TypeOK
<1>2. res \in Results
  BY <1>1, ApplyWaiversType
<1>3. chosen \subseteq Nat
  BY <1>1, <1>2, TargetsSound
<1>4. Refusals(inv[s], chosen) \subseteq Row
  BY <1>1, RefusalsType
<1>5. /\ results' = [results EXCEPT ![s] = res]
      /\ \/ /\ pc' = [pc EXCEPT ![s] = "aborted"]
            /\ UNCHANGED <<pending, rows>>
         \/ /\ pc' = [pc EXCEPT ![s] = AfterSelect(inv[s], chosen)]
            /\ pending' = [pending EXCEPT ![s] = chosen]
            /\ rows' = [rows EXCEPT ![s] = Refusals(inv[s], chosen)]
      /\ pc[s] = "select"
      /\ UNCHANGED <<gh, admin, inv, ctx, todo, view, agreed, written, log, fault>>
  BY DEF Select
<1>6. AfterSelect(inv[s], chosen) \in Places \ Early
  BY DEF AfterSelect, Places, Final, Early
<1> HIDE DEF res, chosen
<1>7. TypeOK'
  <2>1. results' \in [Sessions -> Results]
    BY <1>2, <1>5 DEF TypeOK
  <2>2. pc' \in [Sessions -> Places]
    BY <1>5, <1>6 DEF TypeOK, Places, Final
  <2>3. pending' \in [Sessions -> SUBSET Nat]
    <3>1. pending \in [Sessions -> SUBSET Nat]
      BY DEF TypeOK
    <3>2. pending' = pending \/ pending' = [pending EXCEPT ![s] = chosen]
      BY <1>5
    <3> QED
      BY ONLY <1>3, <3>1, <3>2
  <2>4. rows' \in [Sessions -> SUBSET Row]
    <3>1. rows \in [Sessions -> SUBSET Row]
      BY DEF TypeOK
    <3>2. rows' = rows \/ rows' = [rows EXCEPT ![s] = Refusals(inv[s], chosen)]
      BY <1>5
    <3> QED
      BY ONLY <1>4, <3>1, <3>2
  <2> QED
    BY <1>5, <2>1, <2>2, <2>3, <2>4 DEF TypeOK
<1>8. TargetsOK'
  <2> SUFFICES ASSUME NEW t \in Sessions
               PROVE  /\ pc'[t] \in Early => pending'[t] = {} /\ written'[t] = {} /\ rows'[t] = {}
                      /\ \A p \in pending'[t] \cup written'[t] : Chosen(t, p)'
    BY DEF TargetsOK
  <2>1. CASE t = s
    <3>1. pc'[s] \notin Early
      BY <1>5, <1>6 DEF TypeOK, Early
    <3>2. written'[s] = {} /\ pending[s] = {}
      BY <1>5 DEF TargetsOK, Early
    <3>3. pending'[s] \subseteq chosen /\ results'[s] = res /\ inv'[s] = inv[s]
      BY <1>5, <3>2 DEF TypeOK
    <3>4. \A p \in chosen : Chosen(s, p)'
      BY <1>1, <1>2, <3>3, TargetsSound DEF Chosen, chosen
    <3> QED
      BY <2>1, <3>1, <3>2, <3>3, <3>4
  <2>2. CASE t # s
    BY <1>5, <2>2 DEF TargetsOK, Chosen, TypeOK
  <2> QED
    BY <2>1, <2>2
<1> QED
  BY <1>7, <1>8

LEMMA AcceptTypeInv ==
  ASSUME TypeInv, NEW s \in Sessions, Accept(s)
  PROVE  TypeInv'
<1> USE DEF TypeInv
<1>1. TypeOK'
  BY DEF Accept, TypeOK, Places, IsNext
<1>2. TargetsOK'
  BY DEF Accept, TargetsOK, Chosen, TypeOK, Early
<1> QED
  BY <1>1, <1>2

LEMMA DeclineTypeInv ==
  ASSUME TypeInv, NEW s \in Sessions, Decline(s)
  PROVE  TypeInv'
<1> USE DEF TypeInv
<1>1. /\ pending' = [pending EXCEPT ![s] = pending'[s]]
      /\ pending'[s] \subseteq pending[s]
      /\ pc' = [pc EXCEPT ![s] = pc'[s]]
      /\ pc'[s] \in Places \ Early
      /\ UNCHANGED <<gh, admin, inv, ctx, todo, view, results, agreed, rows,
                     written, log, fault>>
  BY DEF Decline, TypeOK, AfterTarget, Places, Final, Early
<1>2. TypeOK'
  BY <1>1 DEF TypeOK
<1>3. TargetsOK'
  BY <1>1 DEF TargetsOK, Chosen, TypeOK
<1> QED
  BY <1>2, <1>3

(* The write of a remediation fixes a rule the selection allowed.          *)
LEMMA EffectTypeInv ==
  ASSUME TypeInv, NEW s \in Sessions, pc[s] = "remediate",
         NEW p \in pending[s],
         NEW a \in Answer,
         Effect(s, p, a)
  PROVE  TypeInv'
<1> USE DEF TypeInv
<1> DEFINE r == RuleAt(inv[s], p)
<1>1. r \in Rules /\ p \in Nat /\ r \in Nat
  BY CatalogAssumption DEF TargetsOK, Chosen, TypeOK
<1>3. inv[s].dryRun \in BOOLEAN
  BY InvocationsAssumption DEF TypeOK, Invocation
<1>4. RowOf(s, p, a) \in Row
  BY <1>1, <1>3 DEF RowOf, Row, Answer
<1>5. AfterTarget(inv[s], pending[s] \ {p}) \in Places \ Early
  BY DEF AfterTarget, Places, Early
<1>6. /\ gh' = gh \/ \E x \in Standing(r) : gh' = [gh EXCEPT ![r] = x]
      /\ written' = IF a.reached THEN [written EXCEPT ![s] = @ \cup {p}] ELSE written
      /\ rows' = [rows EXCEPT ![s] = @ \cup {RowOf(s, p, a)}]
      /\ pending' = [pending EXCEPT ![s] = @ \ {p}]
      /\ pc' = [pc EXCEPT ![s] = AfterTarget(inv[s], pending[s] \ {p})]
      /\ UNCHANGED <<admin, inv, ctx, todo, view, results, agreed, log, fault>>
  BY DEF Effect, LeftAfter
<1> HIDE DEF r
<1>7. TypeOK'
  <2>1. gh' \in [Rules -> {"good", "bad", "rest"}] /\ \A q \in Rules : gh'[q] \in Standing(q)
    BY <1>1, <1>6 DEF TypeOK, Standing
  <2>2. written' \in [Sessions -> SUBSET Nat] /\ pending' \in [Sessions -> SUBSET Nat]
    BY <1>1, <1>6 DEF TypeOK
  <2>3. rows' \in [Sessions -> SUBSET Row]
    BY <1>4, <1>6 DEF TypeOK
  <2>4. pc' \in [Sessions -> Places]
    BY <1>5, <1>6 DEF TypeOK
  <2> QED
    BY <1>6, <2>1, <2>2, <2>3, <2>4 DEF TypeOK
<1>8. TargetsOK'
  <2> SUFFICES ASSUME NEW t \in Sessions
               PROVE  /\ pc'[t] \in Early => pending'[t] = {} /\ written'[t] = {} /\ rows'[t] = {}
                      /\ \A q \in pending'[t] \cup written'[t] : Chosen(t, q)'
    BY DEF TargetsOK
  <2>1. CASE t = s
    <3>1. pc'[s] \notin Early
      BY <1>5, <1>6 DEF TypeOK
    <3>2. pending'[s] \cup written'[s] \subseteq pending[s] \cup written[s]
      BY <1>6 DEF TypeOK
    <3> QED
      BY <1>6, <2>1, <3>1, <3>2 DEF TargetsOK, Chosen
  <2>2. CASE t # s
    BY <1>6, <2>2 DEF TargetsOK, Chosen, TypeOK
  <2> QED
    BY <2>1, <2>2
<1> QED
  BY <1>7, <1>8

(* A remediation is one Effect, with an answer that is a record of flags.  *)
LEMMA RemediateIsEffect ==
  ASSUME NEW s \in Sessions, Remediate(s)
  PROVE  /\ pc[s] = "remediate"
         /\ \E p \in pending[s] :
              \E a \in Answer :
                /\ IsNext(s, p)
                /\ a \in (IF Sends(s, RuleAt(inv[s], p))
                          THEN Answers(s, RuleAt(inv[s], p))
                          ELSE Quiet(s, RuleAt(inv[s], p)))
                /\ Effect(s, p, a)
<1>1. PICK p \in pending[s] :
        /\ IsNext(s, p)
        /\ \E a \in IF Sends(s, RuleAt(inv[s], p))
                     THEN Answers(s, RuleAt(inv[s], p))
                     ELSE Quiet(s, RuleAt(inv[s], p)) : Effect(s, p, a)
  BY DEF Remediate
<1>2. PICK a \in IF Sends(s, RuleAt(inv[s], p))
                 THEN Answers(s, RuleAt(inv[s], p))
                 ELSE Quiet(s, RuleAt(inv[s], p)) : Effect(s, p, a)
  BY <1>1
<1>3. a \in Answer
  BY <1>2 DEF Answers, Quiet
<1> QED
  BY <1>1, <1>2, <1>3 DEF Remediate

LEMMA RemediateTypeInv ==
  ASSUME TypeInv, NEW s \in Sessions, Remediate(s)
  PROVE  TypeInv'
BY RemediateIsEffect, EffectTypeInv

LEMMA RecordTypeInv ==
  ASSUME TypeInv, NEW s \in Sessions, Record(s)
  PROVE  TypeInv'
<1> USE DEF TypeInv
<1>1. TypeOK'
  BY DEF Record, TypeOK, Places, Final
<1>2. TargetsOK'
  BY DEF Record, TargetsOK, Chosen, TypeOK, Early
<1> QED
  BY <1>1, <1>2

(* The surroundings touch only GitHub, the contexts and who still runs.    *)
LEMMA SurroundingsTypeInv ==
  ASSUME TypeInv,
         \/ \E s \in Sessions : ContextDone(s) \/ CrashCommand(s)
         \/ CrashServer
         \/ AdminChange
  PROVE  TypeInv'
<1> USE DEF TypeInv, sessionVars
<1>1. ASSUME NEW s \in Sessions, ContextDone(s) PROVE TypeInv'
  BY <1>1 DEF ContextDone, TypeOK, TargetsOK, Chosen
<1>2. ASSUME NEW s \in Sessions, CrashCommand(s) PROVE TypeInv'
  BY <1>2 DEF CrashCommand, TypeOK, TargetsOK, Chosen, Places, Final, Early
<1>3. CASE CrashServer
  BY <1>3 DEF CrashServer, TypeOK, TargetsOK, Chosen, Places, Final, Early
<1>4. CASE AdminChange
  <2>1. PICK r \in Rules : \E x \in Standing(r) : gh' = [gh EXCEPT ![r] = x]
    BY <1>4 DEF AdminChange
  <2>2. PICK x \in Standing(r) : gh' = [gh EXCEPT ![r] = x]
    BY <2>1
  <2>3. gh' \in [Rules -> {"good", "bad", "rest"}] /\ \A q \in Rules : gh'[q] \in Standing(q)
    BY <2>2 DEF TypeOK, Standing
  <2>4. TypeOK'
    BY <1>4, <2>3, MaxAdminAssumption DEF AdminChange, TypeOK
  <2>5. TargetsOK'
    BY <1>4 DEF AdminChange, TargetsOK, Chosen
  <2> QED BY <2>4, <2>5
<1> QED
  BY <1>1, <1>2, <1>3, <1>4

LEMMA StepTypeInv == TypeInv /\ [Next]_vars => TypeInv'
<1> SUFFICES ASSUME TypeInv, [Next]_vars PROVE TypeInv'
  OBVIOUS
<1>1. CASE UNCHANGED vars
  BY <1>1 DEF vars, sessionVars, TypeInv, TypeOK, TargetsOK, Chosen
<1>2. CASE Next
  BY <1>2, PrefetchTypeInv, AssessRuleTypeInv, SelectTypeInv, AcceptTypeInv, DeclineTypeInv,
     RemediateTypeInv, RecordTypeInv, SurroundingsTypeInv DEF Next
<1> QED
  BY <1>1, <1>2

(* Every variable keeps its type, for every catalog and every mixture of   *)
(* sessions and invocations.                                               *)
THEOREM TypeCorrect == Spec => []TypeOK
<1>1. Init => TypeInv
  BY InitTypeInv
<1>2. TypeInv /\ [Next]_vars => TypeInv'
  BY StepTypeInv
<1>3. TypeInv => TypeOK
  BY DEF TypeInv
<1> QED
  BY <1>1, <1>2, <1>3, PTL DEF Spec

(* A destructive remediation reaches GitHub only through `apply` with an   *)
(* explicit rule list and --allow-destructive: the gate of main.go and of  *)
(* web.go, whatever the profile, the policy and the other sessions.        *)
THEOREM DestructiveGate == Spec => []DestructiveOnlyByConsent
<1>1. Init => TypeInv
  BY InitTypeInv
<1>2. TypeInv /\ [Next]_vars => TypeInv'
  BY StepTypeInv
<1>3. TypeInv => DestructiveOnlyByConsent
  BY DEF TypeInv, TargetsOK, Chosen, DestructiveOnlyByConsent
<1> QED
  BY <1>1, <1>2, <1>3, PTL DEF Spec

-----------------------------------------------------------------------------
(* The other safety properties.  Each is the consequence of a part of      *)
(* Sound, which speaks of one session; Sound with TypeInv is inductive.    *)

(* What a session of the terminal may send next was agreed to.             *)
Agreeing(s) ==
  /\ Cli(inv[s]) /\ ~inv[s].yes => written[s] \subseteq agreed[s]
  /\ pc[s] = "confirm" /\ ~AsksEach(inv[s]) => written[s] = {}
  /\ pc[s] = "remediate" /\ AsksOnce(inv[s]) => pending[s] \subseteq agreed[s]
  /\ pc[s] = "remediate" /\ AsksEach(inv[s]) =>
       \A p \in pending[s] : IsNext(s, p) => p \in agreed[s]

(* A dry run writes nothing, and its rows say what they are.               *)
Rehearsing(s) ==
  /\ inv[s].dryRun => written[s] = {}
  /\ \A row \in rows[s] : row.dryRun = inv[s].dryRun

(* A finding is something that was read.                                   *)
Looked(s) ==
  \A r \in Rules :
    results[s][r] \in Finding => view[s][r] \in {"bad", "rest"} \cup InPart

(* What is chosen is no finding the waivers accept, and in bulk a finding. *)
Selected(s) ==
  \A p \in pending[s] \cup written[s] :
    LET r == RuleAt(inv[s], p)
    IN /\ WaivedThroughout(inv[s].policy, r, inv[s].now) => results[s][r] \notin Finding
       /\ Bulk(inv[s]) => /\ results[s][p] \in Finding
                          /\ inv[s].surface = "wizard" => results[s][p] = "fail"

(* Only the rules the engine was given to assess have a result.            *)
Within(s) ==
  /\ todo[s] \subseteq RulesAssessed(ToRun(inv[s]))
  /\ \A r \in Rules : results[s][r] # "absent" => r \in RulesAssessed(ToRun(inv[s]))

(* Rows and writes agree.                                                  *)
Told(s) ==
  /\ \A p \in written[s] : \E row \in rows[s] : row.pos = p /\ (row.applied \/ row.errs)
  /\ \A row \in rows[s] :
       row.applied => row.pos \in written[s] /\ row.rule = RuleAt(inv[s], row.pos)

(* Log and rows agree.                                                     *)
Logged(s) ==
  /\ log[s] \subseteq rows[s]
  /\ Cli(inv[s]) => ctx[s] = "live"
  /\ pc[s] = "done" /\ Cli(inv[s]) /\ inv[s].db /\ ~fault[s] =>
       \A p \in written[s] : \E row \in log[s] : row.pos = p

(* A bulk apply that has met no error has fixed its findings or will.      *)
(* Where it saw only what a remediation leaves alone, there was nothing    *)
(* else and nobody adds to it.                                             *)
Mending(s) ==
  /\ pc[s] \in {"confirm", "remediate", "record", "done"}
  /\ inv[s].surface # "wizard" /\ Bulk(inv[s]) /\ ~inv[s].dryRun
  /\ \A row \in rows[s] : ~row.errs

Mended(s) ==
  /\ pc[s] \in {"record", "done"} => pending[s] = {}
  /\ admin = 0 =>
       /\ \A r \in Rules : view[s][r] = "rest" => gh[r] = "rest"
       /\ \A row \in rows[s] :
            row.applied /\ ~row.errs /\ view[s][row.rule] \notin InPart
              => gh[row.rule] # "bad"
       /\ Mending(s) =>
            \A r \in Rules :
              results[s][r] \in Finding /\ Meta[r].remediable
                => \/ gh[r] # "bad" \/ Meta[r].destructive
                   \/ view[s][r] \in InPart \/ r \in pending[s]

Sound(s) ==
  /\ Agreeing(s) /\ Rehearsing(s) /\ Looked(s) /\ Selected(s)
  /\ Within(s) /\ Told(s) /\ Logged(s) /\ Mended(s)

SafeInv == TypeInv /\ \A s \in Sessions : Sound(s)

-----------------------------------------------------------------------------
(* What a step of one session leaves to the others: its own variables are  *)
(* untouched, and of GitHub only what is bad changes unless somebody else  *)
(* changed it.                                                             *)

GitHubGrows ==
  admin' = 0 => admin = 0 /\ \A r \in Rules : gh[r] # "bad" => gh'[r] = gh[r]

Same(t) ==
  /\ inv' = inv
  /\ pc'[t] = pc[t] /\ ctx'[t] = ctx[t]
  /\ todo'[t] = todo[t] /\ view'[t] = view[t] /\ results'[t] = results[t]
  /\ pending'[t] = pending[t] /\ agreed'[t] = agreed[t]
  /\ rows'[t] = rows[t] /\ written'[t] = written[t]
  /\ log'[t] = log[t] /\ fault'[t] = fault[t]

LEMMA RowRules ==
  ASSUME TypeInv, NEW t \in Sessions, Told(t), NEW row \in rows[t], row.applied
  PROVE  row.rule \in Rules
BY DEF Told, TypeInv, TargetsOK, Chosen

LEMMA SameMended ==
  ASSUME TypeInv, NEW t \in Sessions, Told(t), Mended(t), Same(t), GitHubGrows
  PROVE  Mended(t)'
<1>1. pc'[t] \in {"record", "done"} => pending'[t] = {}
  BY DEF Same, Mended
<1>2. ASSUME admin' = 0, NEW row \in rows'[t],
             row.applied /\ ~row.errs /\ view'[t][row.rule] \notin InPart
      PROVE  gh'[row.rule] # "bad"
  <2>1. row.rule \in Rules
    BY <1>2, RowRules DEF Same
  <2>2. gh[row.rule] # "bad"
    BY <1>2 DEF Same, Mended, GitHubGrows
  <2> QED BY <1>2, <2>1, <2>2 DEF GitHubGrows
<1>3. ASSUME admin' = 0, Mending(t)', NEW r \in Rules,
             results'[t][r] \in Finding /\ Meta[r].remediable
      PROVE  \/ gh'[r] # "bad" \/ Meta[r].destructive
             \/ view'[t][r] \in InPart \/ r \in pending'[t]
  <2>1. Mending(t)
    BY <1>3 DEF Same, Mending
  <2>2. \/ gh[r] # "bad" \/ Meta[r].destructive
        \/ view[t][r] \in InPart \/ r \in pending[t]
    BY <1>3, <2>1 DEF Same, Mended, GitHubGrows
  <2> QED BY <1>3, <2>2 DEF Same, GitHubGrows
<1>4. ASSUME admin' = 0, NEW r \in Rules, view'[t][r] = "rest" PROVE gh'[r] = "rest"
  BY <1>4 DEF Same, Mended, GitHubGrows
<1> QED BY <1>1, <1>2, <1>3, <1>4 DEF Mended

LEMMA SameSound ==
  ASSUME TypeInv, NEW t \in Sessions, Sound(t), Same(t), GitHubGrows
  PROVE  Sound(t)'
<1>1. Agreeing(t)'
  BY DEF Sound, Same, Agreeing, IsNext
<1>2. Rehearsing(t)'
  BY DEF Sound, Same, Rehearsing
<1>3. Looked(t)'
  BY DEF Sound, Same, Looked
<1>4. Selected(t)'
  BY DEF Sound, Same, Selected
<1>5. Within(t)'
  BY DEF Sound, Same, Within
<1>6. Told(t)'
  BY DEF Sound, Same, Told
<1>7. Logged(t)'
  BY DEF Sound, Same, Logged
<1>8. Mended(t)'
  BY SameMended DEF Sound
<1> QED BY <1>1, <1>2, <1>3, <1>4, <1>5, <1>6, <1>7, <1>8 DEF Sound

LEMMA InitSafe == Init => SafeInv
<1> SUFFICES ASSUME Init, NEW s \in Sessions PROVE Sound(s)
  BY InitTypeInv DEF SafeInv
<1>1. /\ pc[s] = "assess" /\ ctx[s] = "live" /\ todo[s] = RulesAssessed(ToRun(inv[s]))
      /\ \A r \in Rules : results[s][r] = "absent" /\ view[s][r] = "unread"
      /\ pending[s] = {} /\ rows[s] = {} /\ written[s] = {} /\ log[s] = {}
  BY DEF Init
<1> QED BY <1>1 DEF Sound, Agreeing, Rehearsing, Looked, Selected, Within, Told, Logged,
                    Mended, Mending, Finding

-----------------------------------------------------------------------------
(* One lemma per action.                                                   *)

LEMMA OutcomeFindings ==
  ASSUME NEW r \in Rules, NEW v \in View, NEW st \in Outcome(r, v), st \in Finding
  PROVE  v \in {"bad", "rest"} \cup InPart
BY CatalogAssumption DEF Outcome, Finding, MetaType, View

(* What is read while GitHub stands at the rest of a rule is that rest.    *)
LEMMA ReadsRest ==
  ASSUME NEW s \in Sessions, NEW r \in Rules, "rest" \in Reads(s, r)
  PROVE  gh[r] = "rest"
BY DEF Reads, InPart

LEMMA PrefetchSafe ==
  ASSUME SafeInv, NEW s \in Sessions, Prefetch(s)
  PROVE  SafeInv'
<1> USE DEF SafeInv
<1>1. TypeInv'
  BY PrefetchTypeInv
<1>2. PICK r \in todo[s] :
        /\ view[s][r] = "unread"
        /\ \E v \in Reads(s, r) : view' = [view EXCEPT ![s][r] = v]
  BY DEF Prefetch
<1>3. PICK v \in Reads(s, r) : view' = [view EXCEPT ![s][r] = v]
  BY <1>2
<1>4. /\ pc[s] = "assess" /\ pc' = pc
      /\ UNCHANGED <<gh, admin, inv, ctx, todo, results, pending, agreed, rows,
                     written, log, fault>>
  BY DEF Prefetch
<1>5. r \in Rules /\ view \in [Sessions -> [Rules -> View]]
  BY <1>2 DEF TypeInv, TypeOK
<1>6. /\ view'[s][r] = v
      /\ \A q \in Rules \ {r} : view'[s][q] = view[s][q]
  BY <1>3, <1>5
<1>7. GitHubGrows /\ \A t \in Sessions : t # s => Same(t)
  BY <1>3, <1>4, <1>5 DEF GitHubGrows, Same
<1>8. pending[s] = {} /\ written[s] = {} /\ rows[s] = {}
  BY <1>4 DEF TypeInv, TargetsOK, Early
<1>9. Looked(s)'
  <2>1. results[s][r] \notin Finding
    BY <1>2, <1>5 DEF Sound, Looked, InPart
  <2> QED BY <1>4, <1>6, <1>8, <2>1 DEF Sound, Looked
<1>10. Mended(s)'
  <2>1. ASSUME admin' = 0, NEW q \in Rules, view'[s][q] = "rest" PROVE gh'[q] = "rest"
    BY <1>4, <1>5, <1>6, <2>1, ReadsRest DEF Sound, Mended
  <2> QED BY <1>4, <1>8, <2>1 DEF Mended, Mending
<1>11. Agreeing(s)' /\ Rehearsing(s)' /\ Selected(s)' /\ Within(s)' /\ Told(s)' /\ Logged(s)'
  BY <1>4, <1>8 DEF Sound, Agreeing, Rehearsing, Selected, Within, Told, Logged
<1>12. Sound(s)'
  BY <1>9, <1>10, <1>11 DEF Sound
<1> QED BY <1>1, <1>7, <1>12, SameSound

LEMMA AssessRuleSafe ==
  ASSUME SafeInv, NEW s \in Sessions, AssessRule(s)
  PROVE  SafeInv'
<1> USE DEF SafeInv
<1>1. TypeInv'
  BY AssessRuleTypeInv
<1>2. PICK r \in todo[s], v \in View :
        /\ v \in Reads(s, r) \/ v = view[s][r]
        /\ view' = [view EXCEPT ![s][r] = v]
        /\ \E st \in Outcome(r, v) : results' = [results EXCEPT ![s][r] = st]
        /\ todo' = [todo EXCEPT ![s] = @ \ {r}]
        /\ pc' = [pc EXCEPT ![s] = IF todo[s] = {r} THEN "select" ELSE "assess"]
  BY DEF AssessRule
<1>3. PICK st \in Outcome(r, v) : results' = [results EXCEPT ![s][r] = st]
  BY <1>2
<1>4. /\ pc[s] = "assess"
      /\ UNCHANGED <<gh, admin, inv, ctx, pending, agreed, rows, written, log, fault>>
  BY DEF AssessRule
<1>5. r \in Rules /\ pc'[s] \in Early
  BY <1>2 DEF TypeInv, TypeOK, Early
<1>6. /\ view' \in [Sessions -> [Rules -> View]] /\ view \in [Sessions -> [Rules -> View]]
      /\ results \in [Sessions -> [Rules -> Status \cup {"absent"}]]
      /\ todo \in [Sessions -> SUBSET Rules] /\ pc \in [Sessions -> Places]
  BY <1>1 DEF TypeInv, TypeOK, Results
<1>7. GitHubGrows /\ \A t \in Sessions : t # s => Same(t)
  BY <1>2, <1>3, <1>4, <1>6 DEF GitHubGrows, Same
<1>8. pending'[s] = {} /\ written'[s] = {} /\ rows'[s] = {} /\ log'[s] = log[s]
  BY <1>4 DEF TypeInv, TargetsOK, Early
<1>9. Looked(s)'
  <2> SUFFICES ASSUME NEW q \in Rules, results'[s][q] \in Finding
               PROVE  view'[s][q] \in {"bad", "rest"} \cup InPart
    BY <1>8 DEF Looked
  <2>1. CASE q = r
    BY <1>2, <1>3, <1>5, <1>6, <2>1, OutcomeFindings
  <2>2. CASE q # r
    BY <1>2, <1>3, <1>5, <1>6, <2>2 DEF Sound, Looked
  <2> QED BY <2>1, <2>2
<1>10. Within(s)'
  BY <1>2, <1>3, <1>4, <1>5, <1>6 DEF Sound, Within
<1>11. Logged(s)'
  BY <1>4, <1>5, <1>8 DEF Sound, Logged, Early
<1>12. Mended(s)'
  <2>1. ASSUME admin' = 0, NEW q \in Rules, view'[s][q] = "rest" PROVE gh'[q] = "rest"
    BY <1>2, <1>4, <1>5, <1>6, <2>1, ReadsRest DEF Sound, Mended
  <2> QED BY <1>5, <1>8, <2>1 DEF Mended, Mending, Early
<1>13. Sound(s)'
  BY <1>5, <1>8, <1>9, <1>10, <1>11, <1>12 DEF Sound, Agreeing, Rehearsing, Selected, Told,
     Early
<1> QED BY <1>1, <1>7, <1>13, SameSound

(* A rule that the waivers of a policy cover throughout is no finding once *)
(* they are applied: of several waivers the last one counts, but each      *)
(* would do.                                                               *)
LEMMA WaivedIsNoFinding ==
  ASSUME NEW i \in Invocation, NEW res \in Results, NEW r \in Rules,
         WaivedThroughout(i.policy, r, i.now)
  PROVE  ApplyWaivers(i.policy, i.now, res)[r] \notin Finding
<1> DEFINE ws == i.policy.waivers
           At == {j \in DOMAIN ws : ws[j].rule = r}
<1>1. ws \in Seq(Waiver) /\ i.now \in Nat
  BY DEF Invocation, Policy
<1>2. DOMAIN ws = 1..Len(ws) /\ Len(ws) \in Nat
  BY <1>1
<1>3. At # {} /\ \A w \in {ws[k] : k \in At} : w.expires = 0 \/ i.now <= 24 * (w.expires + 1)
  BY DEF WaivedThroughout
<1>4. At \in SUBSET Nat /\ \A j \in At : j <= Len(ws)
  BY <1>2
<1>5. PICK k \in At : \A j \in At : j <= k
  BY <1>2, <1>3, <1>4, GreatestExists
<1>6. ws[k].expires \in Nat
  <2> HIDE DEF ws
  <2>1. k \in 1..Len(ws)
    BY <1>2, <1>5
  <2>2. ws[k] \in Waiver
    BY <1>1, <2>1
  <2> QED BY <2>2 DEF Waiver
<1>7. ws[k] \in InForce(i.policy, r)
  <2>1. \A j \in DOMAIN ws : j > k => ws[j].rule # r
    BY <1>2, <1>5
  <2> QED BY <2>1 DEF InForce
<1>8. ~Expired(ws[k], i.now)
  <2>1. ws[k].expires = 0 \/ i.now <= 24 * (ws[k].expires + 1)
    BY <1>3, <1>5
  <2> HIDE DEF ws
  <2> QED BY <1>1, <1>6, <2>1 DEF Expired
<1>9. ActivelyWaived(i.policy, r, i.now)
  BY <1>7, <1>8 DEF ActivelyWaived
<1> QED BY <1>9 DEF ApplyWaivers, Finding

(* In bulk the targets are findings, and of the wizard failures.           *)
LEMMA BulkTargets ==
  ASSUME NEW i \in Invocation, NEW res \in Results, NEW p \in Targets(i, res), Bulk(i)
  PROVE  res[p] \in Finding /\ (i.surface = "wizard" => res[p] = "fail")
<1>1. CASE i.surface = "wizard"
  BY <1>1 DEF Targets, WizardTargets, Finding
<1>2. CASE i.surface # "wizard"
  BY <1>2 DEF Bulk, Targets, RemediableFailures
<1> QED BY <1>1, <1>2

LEMMA BulkTargetsAll ==
  ASSUME NEW i \in Invocation, NEW res \in Results, NEW r \in Rules, Bulk(i),
         i.surface # "wizard", res[r] \in Finding, Meta[r].remediable, ~Meta[r].destructive
  PROVE  r \in Targets(i, res)
BY DEF Bulk, Targets, RemediableFailures

LEMMA SelectSafe ==
  ASSUME SafeInv, NEW s \in Sessions, Select(s)
  PROVE  SafeInv'
<1> USE DEF SafeInv
<1> DEFINE res == ApplyWaivers(inv[s].policy, inv[s].now, results[s])
           chosen == Targets(inv[s], res)
<1>1. TypeInv'
  BY SelectTypeInv
<1>2. /\ results' = [results EXCEPT ![s] = res]
      /\ \/ /\ pc' = [pc EXCEPT ![s] = "aborted"]
            /\ UNCHANGED <<pending, rows>>
         \/ /\ pc' = [pc EXCEPT ![s] = AfterSelect(inv[s], chosen)]
            /\ pending' = [pending EXCEPT ![s] = chosen]
            /\ rows' = [rows EXCEPT ![s] = Refusals(inv[s], chosen)]
      /\ pc[s] = "select"
      /\ UNCHANGED <<gh, admin, inv, ctx, todo, view, agreed, written, log, fault>>
  BY DEF Select
<1>3. inv[s] \in Invocation /\ results[s] \in Results /\ res \in Results
  BY InvocationsAssumption, ApplyWaiversType DEF TypeInv, TypeOK
<1>4. /\ pending[s] = {} /\ written[s] = {} /\ rows[s] = {}
      /\ written'[s] = {}
  BY <1>2 DEF TypeInv, TargetsOK, Early
<1>5. /\ pc \in [Sessions -> Places] /\ results \in [Sessions -> Results]
      /\ pending \in [Sessions -> SUBSET Nat] /\ rows \in [Sessions -> SUBSET Row]
  BY DEF TypeInv, TypeOK
<1>6. \A r \in Rules : /\ res[r] \in Finding => results[s][r] \in Finding
                       /\ res[r] # "absent" => results[s][r] # "absent"
  BY DEF ApplyWaivers, Finding
<1>7. \A p \in chosen : Bulk(inv[s]) =>
        res[p] \in Finding /\ (inv[s].surface = "wizard" => res[p] = "fail")
  BY <1>3, BulkTargets
<1>8. \A p \in chosen : /\ RuleAt(inv[s], p) \in Rules
                        /\ WaivedThroughout(inv[s].policy, RuleAt(inv[s], p), inv[s].now)
                             => res[RuleAt(inv[s], p)] \notin Finding
  BY <1>3, TargetsSound, WaivedIsNoFinding
<1>9. \A r \in Rules : /\ inv[s].surface # "wizard" /\ Bulk(inv[s])
                       /\ res[r] \in Finding /\ Meta[r].remediable /\ ~Meta[r].destructive
                       => r \in chosen
  BY <1>3, BulkTargetsAll
<1>10. \A row \in Refusals(inv[s], chosen) : ~row.applied /\ row.dryRun = inv[s].dryRun
  BY DEF Refusals
<1>11. /\ AfterSelect(inv[s], chosen) \in {"done", "record"} => chosen = {}
       /\ AfterSelect(inv[s], chosen) = "remediate" => ~AsksOnce(inv[s]) /\ ~AsksEach(inv[s])
  BY DEF AfterSelect
<1> HIDE DEF res, chosen
<1>12. /\ results'[s] = res /\ view'[s] = view[s] /\ inv' = inv /\ ctx'[s] = ctx[s]
       /\ todo'[s] = todo[s] /\ log'[s] = log[s] /\ admin' = admin /\ gh' = gh
  BY <1>2, <1>5
<1>13. \/ pc'[s] = "aborted" /\ pending'[s] = {} /\ rows'[s] = {}
       \/ /\ pc'[s] = AfterSelect(inv[s], chosen) /\ pending'[s] = chosen
          /\ rows'[s] = Refusals(inv[s], chosen)
  BY <1>2, <1>4, <1>5
<1>14. GitHubGrows /\ \A t \in Sessions : t # s => Same(t)
  BY <1>2, <1>5 DEF GitHubGrows, Same
<1>15. Agreeing(s)'
  BY <1>4, <1>11, <1>12, <1>13 DEF Agreeing
<1>16. Rehearsing(s)' /\ Told(s)'
  BY <1>4, <1>10, <1>12, <1>13 DEF Rehearsing, Told
<1>17. Looked(s)' /\ Within(s)'
  BY <1>4, <1>6, <1>12 DEF Sound, Looked, Within
<1>18. Selected(s)'
  BY <1>4, <1>7, <1>8, <1>12, <1>13 DEF Selected
<1>19. Logged(s)'
  <2>1. log[s] = {}
    BY <1>4 DEF Sound, Logged
  <2> QED BY <1>4, <1>12, <2>1 DEF Sound, Logged
<1>20. Mended(s)'
  <2>1. \A row \in rows'[s] : ~row.applied
    BY <1>10, <1>13
  <2>2. pc'[s] \in {"record", "done"} => pending'[s] = {}
    BY <1>11, <1>13
  <2>3. ASSUME Mending(s)', NEW r \in Rules, results'[s][r] \in Finding, Meta[r].remediable
        PROVE  Meta[r].destructive \/ r \in pending'[s]
    BY <1>9, <1>12, <1>13, <2>3 DEF Mending
  <2>4. ASSUME admin' = 0, NEW r \in Rules, view'[s][r] = "rest" PROVE gh'[r] = "rest"
    BY <1>12, <2>4 DEF Sound, Mended
  <2> QED BY <2>1, <2>2, <2>3, <2>4 DEF Mended
<1>21. Sound(s)'
  BY <1>15, <1>16, <1>17, <1>18, <1>19, <1>20 DEF Sound
<1> QED BY <1>1, <1>14, <1>21, SameSound

LEMMA AcceptSafe ==
  ASSUME SafeInv, NEW s \in Sessions, Accept(s)
  PROVE  SafeInv'
<1> USE DEF SafeInv
<1>1. TypeInv'
  BY AcceptTypeInv
<1>2. PICK p \in pending[s] :
        /\ IsNext(s, p)
        /\ agreed' = [agreed EXCEPT ![s] = IF AsksEach(inv[s]) THEN @ \cup {p} ELSE pending[s]]
  BY DEF Accept
<1>3. /\ pc[s] = "confirm" /\ pc' = [pc EXCEPT ![s] = "remediate"]
      /\ UNCHANGED <<gh, admin, inv, ctx, todo, view, results, pending, rows,
                     written, log, fault>>
  BY DEF Accept
<1>4. /\ pc \in [Sessions -> Places] /\ agreed \in [Sessions -> SUBSET Nat]
      /\ pending \in [Sessions -> SUBSET Nat]
  BY DEF TypeInv, TypeOK
<1>5. GitHubGrows /\ \A t \in Sessions : t # s => Same(t)
  BY <1>2, <1>3, <1>4 DEF GitHubGrows, Same
<1>6. /\ pc'[s] = "remediate" /\ inv' = inv
      /\ agreed'[s] = IF AsksEach(inv[s]) THEN agreed[s] \cup {p} ELSE pending[s]
  BY <1>2, <1>3, <1>4
<1>7. Agreeing(s)'
  <2>1. ASSUME NEW q \in pending'[s], IsNext(s, q)' PROVE q = p
    BY <1>2, <1>3, <1>4, <2>1 DEF IsNext
  <2>2. AsksOnce(inv[s]) => ~AsksEach(inv[s])
    BY DEF AsksOnce, AsksEach
  <2>3. Cli(inv[s]) /\ ~inv[s].yes => written'[s] \subseteq agreed'[s]
    BY <1>3, <1>6 DEF Sound, Agreeing
  <2> QED BY <1>3, <1>6, <2>1, <2>2, <2>3 DEF Agreeing
<1>8. Mended(s)'
  <2>1. Mending(s)' => Mending(s)
    BY <1>3 DEF Mending
  <2> QED BY <1>3, <1>6, <2>1 DEF Sound, Mended
<1>9. /\ Rehearsing(s)' /\ Looked(s)' /\ Selected(s)' /\ Within(s)' /\ Told(s)' /\ Logged(s)'
  BY <1>3, <1>6 DEF Sound, Rehearsing, Looked, Selected, Within, Told, Logged
<1>10. Sound(s)'
  BY <1>7, <1>8, <1>9 DEF Sound
<1> QED BY <1>1, <1>5, <1>10, SameSound

LEMMA DeclineSafe ==
  ASSUME SafeInv, NEW s \in Sessions, Decline(s)
  PROVE  SafeInv'
<1> USE DEF SafeInv
<1>1. TypeInv'
  BY DeclineTypeInv
<1>2. /\ pending' = [pending EXCEPT ![s] = pending'[s]]
      /\ pending'[s] \subseteq pending[s]
      /\ pc' = [pc EXCEPT ![s] = pc'[s]]
      /\ UNCHANGED <<gh, admin, inv, ctx, todo, view, results, agreed, rows,
                     written, log, fault>>
  BY DEF Decline, TypeInv, TypeOK, AfterTarget
<1>3. \/ pc'[s] = "aborted"
      \/ /\ AsksEach(inv[s])
         /\ (pc'[s] = "record" /\ pending'[s] = {}) \/ pc'[s] = "confirm"
  BY DEF Decline, AfterTarget, TypeInv, TypeOK
<1>4. /\ pc \in [Sessions -> Places] /\ pending \in [Sessions -> SUBSET Nat]
  BY DEF TypeInv, TypeOK
<1>5. GitHubGrows /\ \A t \in Sessions : t # s => Same(t)
  BY <1>2, <1>4 DEF GitHubGrows, Same
<1>6. Agreeing(s)'
  BY <1>2, <1>3 DEF Sound, Agreeing
<1>7. Mended(s)'
  <2>1. ~Mending(s)'
    BY <1>2, <1>3 DEF Mending, AsksEach
  <2> QED BY <1>2, <1>3, <2>1 DEF Sound, Mended
<1>8. Rehearsing(s)' /\ Looked(s)' /\ Within(s)' /\ Told(s)'
  BY <1>2 DEF Sound, Rehearsing, Looked, Within, Told
<1>9. Selected(s)'
  BY <1>2 DEF Sound, Selected
<1>10. Logged(s)'
  BY <1>2, <1>3 DEF Sound, Logged
<1>11. Sound(s)'
  BY <1>6, <1>7, <1>8, <1>9, <1>10 DEF Sound
<1> QED BY <1>1, <1>5, <1>11, SameSound

(* What the answers of GitHub have in common, and how little a remediation *)
(* that sends nothing does.                                                *)
LEMMA AnswerFacts ==
  ASSUME NEW s \in Sessions, NEW r,
         NEW a \in IF Sends(s, r) THEN Answers(s, r) ELSE Quiet(s, r)
  PROVE  /\ a.reached => Sends(s, r) /\ (a.applied \/ a.errs)
         /\ a.applied => a.reached
         /\ Sends(s, r) /\ ~a.errs => a.fixed \/ view[s][r] \in InPart
BY DEF Answers, Quiet, Answer

LEMMA EffectSafe ==
  ASSUME SafeInv, NEW s \in Sessions, pc[s] = "remediate",
         NEW p \in pending[s], IsNext(s, p),
         NEW a \in Answer,
         a \in IF Sends(s, RuleAt(inv[s], p))
               THEN Answers(s, RuleAt(inv[s], p)) ELSE Quiet(s, RuleAt(inv[s], p)),
         Effect(s, p, a)
  PROVE  SafeInv'
<1> USE DEF SafeInv
<1> DEFINE r == RuleAt(inv[s], p)
           new == RowOf(s, p, a)
<1>1. TypeInv'
  BY EffectTypeInv
<1>2. /\ a.reached => Sends(s, r) /\ (a.applied \/ a.errs)
      /\ a.applied => a.reached
      /\ Sends(s, r) /\ ~a.errs => a.fixed \/ view[s][r] \in InPart
  BY AnswerFacts
<1>3. /\ IF a.fixed /\ gh[r] = "bad"
         THEN \E x \in Standing(r) \ {"bad"} : gh' = [gh EXCEPT ![r] = x]
         ELSE gh' = gh
      /\ written' = IF a.reached THEN [written EXCEPT ![s] = @ \cup {p}] ELSE written
      /\ rows' = [rows EXCEPT ![s] = @ \cup {new}]
      /\ pending' = [pending EXCEPT ![s] = @ \ {p}]
      /\ pc' = [pc EXCEPT ![s] = AfterTarget(inv[s], pending[s] \ {p})]
      /\ UNCHANGED <<admin, inv, ctx, todo, view, results, agreed, log, fault>>
  BY DEF Effect, LeftAfter
<1>4. /\ new.pos = p /\ new.rule = r /\ new.applied = a.applied /\ new.errs = a.errs
      /\ new.dryRun = inv[s].dryRun
  BY DEF RowOf
<1>5. r \in Rules /\ (Bulk(inv[s]) => r = p)
  BY DEF TypeInv, TargetsOK, Chosen, RuleAt
<1>6. /\ pc \in [Sessions -> Places] /\ pending \in [Sessions -> SUBSET Nat]
      /\ rows \in [Sessions -> SUBSET Row] /\ written \in [Sessions -> SUBSET Nat]
      /\ gh \in [Rules -> {"good", "bad", "rest"}]
  BY DEF TypeInv, TypeOK
<1>7. inv[s].surface \in Surfaces
  BY InvocationsAssumption DEF TypeInv, TypeOK, Invocation
<1>8. Sends(s, r) => ~inv[s].dryRun
  BY DEF Sends
<1>9. /\ Meta[r].remediable /\ SawBad(s, r) /\ ~inv[s].dryRun => Sends(s, r)
  BY DEF Sends, Acts
<1> HIDE DEF r, new
<1>10. /\ pending'[s] = pending[s] \ {p} /\ rows'[s] = rows[s] \cup {new}
       /\ written'[s] = IF a.reached THEN written[s] \cup {p} ELSE written[s]
       /\ \/ pc'[s] = "record" /\ pending'[s] = {}
          \/ pc'[s] = "confirm" /\ AsksEach(inv[s])
          \/ pc'[s] = "remediate" /\ ~AsksEach(inv[s])
       /\ inv' = inv /\ ctx'[s] = ctx[s] /\ admin' = admin /\ view'[s] = view[s]
       /\ results'[s] = results[s] /\ agreed'[s] = agreed[s] /\ log'[s] = log[s]
       /\ todo'[s] = todo[s]
  BY <1>3, <1>6 DEF AfterTarget
<1>11. /\ \A q \in Rules : gh[q] # "bad" => gh'[q] = gh[q]
       /\ a.fixed => gh'[r] # "bad"
  BY <1>3, <1>5, <1>6
<1>12. GitHubGrows /\ \A t \in Sessions : t # s => Same(t)
  BY <1>3, <1>6, <1>11 DEF GitHubGrows, Same
<1>13. Agreeing(s)'
  <2>1. ASSUME a.reached, Cli(inv[s]), ~inv[s].yes PROVE p \in agreed[s]
    <3>1. ~inv[s].dryRun
      BY <1>2, <1>8, <2>1
    <3>2. AsksOnce(inv[s]) \/ AsksEach(inv[s])
      BY <1>7, <2>1, <3>1 DEF AsksOnce, AsksEach, Cli, Surfaces
    <3> QED BY <3>2 DEF Sound, Agreeing
  <2>2. Cli(inv[s]) /\ ~inv[s].yes => written'[s] \subseteq agreed'[s]
    BY <1>10, <2>1 DEF Sound, Agreeing
  <2>3. AsksOnce(inv[s]) => pending'[s] \subseteq agreed'[s]
    BY <1>10 DEF Sound, Agreeing
  <2> QED BY <1>10, <2>2, <2>3 DEF Agreeing
<1>14. Rehearsing(s)'
  BY <1>2, <1>4, <1>8, <1>10 DEF Sound, Rehearsing
<1>15. Looked(s)'
  BY <1>10 DEF Sound, Looked
<1>16. Selected(s)' /\ Within(s)'
  <2>1. pending'[s] \cup written'[s] \subseteq pending[s] \cup written[s]
    BY <1>10
  <2> QED BY <1>10, <2>1 DEF Sound, Selected, Within
<1>17. Told(s)'
  <2>1. ASSUME NEW q \in written'[s]
        PROVE  \E row \in rows'[s] : row.pos = q /\ (row.applied \/ row.errs)
    BY <1>2, <1>4, <1>10, <2>1 DEF Sound, Told
  <2>2. ASSUME NEW row \in rows'[s], row.applied
        PROVE  row.pos \in written'[s] /\ row.rule = RuleAt(inv'[s], row.pos)
    BY <1>2, <1>4, <1>10, <2>2 DEF Sound, Told, r
  <2> QED BY <2>1, <2>2 DEF Told
<1>18. Logged(s)'
  BY <1>10 DEF Sound, Logged
<1>19. Mended(s)'
  <2>1. pc'[s] \in {"record", "done"} => pending'[s] = {}
    BY <1>10
  <2>2. ASSUME admin' = 0, NEW row \in rows'[s], row.applied, ~row.errs,
               view'[s][row.rule] \notin InPart
        PROVE  gh'[row.rule] # "bad"
    <3>1. CASE row = new
      BY <1>2, <1>4, <1>10, <1>11, <2>2, <3>1
    <3>2. CASE row \in rows[s]
      <4>1. row.rule \in Rules
        BY <2>2, <3>2, RowRules DEF Sound
      <4>2. gh[row.rule] # "bad"
        BY <1>10, <2>2, <3>2 DEF Sound, Mended
      <4> QED BY <1>11, <4>1, <4>2
    <3> QED BY <1>10, <2>2, <3>1, <3>2
  <2>3. ASSUME admin' = 0, Mending(s)', NEW q \in Rules,
               results'[s][q] \in Finding, Meta[q].remediable
        PROVE  \/ gh'[q] # "bad" \/ Meta[q].destructive
               \/ view'[s][q] \in InPart \/ q \in pending'[s]
    <3>1. Mending(s) /\ ~a.errs /\ Bulk(inv[s]) /\ ~inv[s].dryRun
      BY <1>4, <1>10, <2>3 DEF Mending
    <3>2. \/ gh[q] # "bad" \/ Meta[q].destructive
          \/ view[s][q] \in InPart \/ q \in pending[s]
      BY <1>10, <2>3, <3>1 DEF Sound, Mended
    <3>3. CASE q = p
      <4>1. q = r
        BY <1>5, <3>1, <3>3
      <4>2. view[s][r] \in {"bad", "rest"} \cup InPart
        BY <1>10, <2>3, <4>1 DEF Sound, Looked
      <4>3. CASE view[s][r] = "rest"
        <5>1. gh[r] = "rest"
          BY <1>5, <1>10, <2>3, <4>3 DEF Sound, Mended
        <5> QED BY <1>5, <1>11, <4>1, <5>1
      <4>4. CASE view[s][r] = "bad"
        <5>1. Sends(s, r)
          BY <1>9, <2>3, <3>1, <4>1, <4>4 DEF SawBad
        <5>2. a.fixed
          BY <1>2, <3>1, <4>4, <5>1 DEF InPart
        <5> QED BY <1>11, <4>1, <5>2
      <4> QED BY <1>10, <4>1, <4>2, <4>3, <4>4
    <3>4. CASE q # p
      BY <1>10, <1>11, <3>2, <3>4
    <3> QED BY <3>3, <3>4
  <2>4. ASSUME admin' = 0, NEW q \in Rules, view'[s][q] = "rest" PROVE gh'[q] = "rest"
    <3>1. gh[q] = "rest"
      BY <1>10, <2>4 DEF Sound, Mended
    <3> QED BY <1>11, <3>1
  <2> QED BY <2>1, <2>2, <2>3, <2>4 DEF Mended
<1>20. Sound(s)'
  BY <1>13, <1>14, <1>15, <1>16, <1>17, <1>18, <1>19 DEF Sound
<1> QED BY <1>1, <1>12, <1>20, SameSound

LEMMA RemediateSafe ==
  ASSUME SafeInv, NEW s \in Sessions, Remediate(s)
  PROVE  SafeInv'
BY RemediateIsEffect, EffectSafe

LEMMA RecordSafe ==
  ASSUME SafeInv, NEW s \in Sessions, Record(s)
  PROVE  SafeInv'
<1> USE DEF SafeInv
<1>1. TypeInv'
  BY RecordTypeInv
<1>2. /\ pc[s] = "record" /\ pc' = [pc EXCEPT ![s] = "done"]
      /\ \/ /\ Persists(s) /\ ctx[s] = "live"
            /\ log' = [log EXCEPT ![s] = rows[s]]
            /\ UNCHANGED fault
         \/ /\ Persists(s)
            /\ fault' = [fault EXCEPT ![s] = TRUE]
            /\ UNCHANGED log
         \/ /\ ~Persists(s) \/ ctx[s] = "done"
            /\ UNCHANGED <<log, fault>>
      /\ UNCHANGED <<gh, admin, inv, ctx, todo, view, results, pending, agreed, rows, written>>
  BY DEF Record
<1>3. /\ pc \in [Sessions -> Places] /\ log \in [Sessions -> SUBSET Row]
      /\ fault \in [Sessions -> BOOLEAN]
  BY DEF TypeInv, TypeOK
<1>4. GitHubGrows /\ \A t \in Sessions : t # s => Same(t)
  BY <1>2, <1>3 DEF GitHubGrows, Same
<1>5. pc'[s] = "done"
  BY <1>2, <1>3
<1>6. Logged(s)'
  <2>1. Cli(inv[s]) /\ inv[s].db /\ ~Persists(s) => written[s] = {}
    BY DEF Persists, Sound, Told
  <2>2. Cli(inv[s]) => ctx[s] = "live"
    BY DEF Sound, Logged
  <2>3. log[s] \subseteq rows[s] /\ \A p \in written[s] : \E row \in rows[s] : row.pos = p
    BY DEF Sound, Logged, Told
  <2>4. CASE log' = [log EXCEPT ![s] = rows[s]]
    <3>1. log'[s] = rows[s]
      BY <1>3, <2>4
    <3> QED BY <1>2, <2>2, <2>3, <3>1 DEF Logged
  <2>5. CASE Persists(s) /\ fault' = [fault EXCEPT ![s] = TRUE] /\ UNCHANGED log
    <3>1. fault'[s]
      BY <1>3, <2>5
    <3> QED BY <1>2, <2>2, <2>3, <2>5, <3>1 DEF Logged
  <2>6. CASE (~Persists(s) \/ ctx[s] = "done") /\ UNCHANGED <<log, fault>>
    BY <1>2, <2>1, <2>2, <2>3, <2>6 DEF Logged
  <2> QED BY <1>2, <2>4, <2>5, <2>6
<1>7. Mended(s)'
  <2>1. Mending(s)' => Mending(s)
    BY <1>2 DEF Mending
  <2> QED BY <1>2, <1>5, <2>1 DEF Sound, Mended
<1>8. Agreeing(s)' /\ Rehearsing(s)' /\ Looked(s)' /\ Selected(s)' /\ Within(s)' /\ Told(s)'
  BY <1>2, <1>5 DEF Sound, Agreeing, Rehearsing, Looked, Selected, Within, Told
<1>9. Sound(s)'
  BY <1>6, <1>7, <1>8 DEF Sound
<1> QED BY <1>1, <1>4, <1>9, SameSound

(* A session that crashed, or whose context is done, does less.            *)
LEMMA SurroundingsSafe ==
  ASSUME SafeInv,
         \/ \E s \in Sessions : ContextDone(s) \/ CrashCommand(s)
         \/ CrashServer
         \/ AdminChange
  PROVE  SafeInv'
<1> USE DEF SafeInv, sessionVars
<1>1. TypeInv'
  BY SurroundingsTypeInv
<1>2. GitHubGrows
  <2>1. admin' = 0 => admin' = admin /\ gh' = gh
    BY MaxAdminAssumption DEF ContextDone, CrashCommand, CrashServer, AdminChange, TypeInv, TypeOK
  <2> QED BY <2>1 DEF GitHubGrows
<1> SUFFICES ASSUME NEW t \in Sessions PROVE Sound(t)'
  BY <1>1
<1>3. /\ UNCHANGED <<inv, todo, view, results, pending, agreed, rows, written, log, fault>>
      /\ pc'[t] = pc[t] \/ pc'[t] = "crashed"
      /\ ctx'[t] = ctx[t] \/ ~Cli(inv[t])
  BY DEF ContextDone, CrashCommand, CrashServer, AdminChange, TypeInv, TypeOK, Cli
<1>4. CASE pc'[t] = pc[t] /\ ctx'[t] = ctx[t]
  BY <1>2, <1>3, <1>4, SameSound DEF Same
<1>5. CASE pc'[t] = "crashed" \/ ~Cli(inv[t])
  <2>1. Mended(t)'
    <3>1. \A row \in rows[t] : row.applied => row.rule \in Rules
      BY RowRules DEF Sound
    <3>2. Mending(t)' => Mending(t)
      BY <1>3 DEF Mending
    <3>3. ASSUME admin' = 0, Mending(t)', NEW r \in Rules,
                 results'[t][r] \in Finding, Meta[r].remediable
          PROVE  \/ gh'[r] # "bad" \/ Meta[r].destructive
                 \/ view'[t][r] \in InPart \/ r \in pending'[t]
      BY <1>2, <1>3, <3>2, <3>3 DEF Sound, Mended, GitHubGrows
    <3>4. ASSUME admin' = 0, NEW row \in rows'[t], row.applied, ~row.errs,
                 view'[t][row.rule] \notin InPart
          PROVE  gh'[row.rule] # "bad"
      BY <1>2, <1>3, <3>1, <3>4 DEF Sound, Mended, GitHubGrows
    <3>5. ASSUME admin' = 0, NEW r \in Rules, view'[t][r] = "rest" PROVE gh'[r] = "rest"
      BY <1>2, <1>3, <3>5 DEF Sound, Mended, GitHubGrows
    <3> QED BY <1>3, <3>3, <3>4, <3>5 DEF Sound, Mended
  <2>2. Agreeing(t)'
    BY <1>3 DEF Sound, Agreeing, IsNext
  <2>3. Rehearsing(t)' /\ Looked(t)' /\ Selected(t)' /\ Within(t)' /\ Told(t)'
    BY <1>3 DEF Sound, Rehearsing, Looked, Selected, Within, Told
  <2>4. Logged(t)'
    BY <1>3 DEF Sound, Logged
  <2> QED BY <2>1, <2>2, <2>3, <2>4 DEF Sound
<1> QED BY <1>3, <1>4, <1>5

LEMMA StepSafe == SafeInv /\ [Next]_vars => SafeInv'
<1> SUFFICES ASSUME SafeInv, [Next]_vars PROVE SafeInv'
  OBVIOUS
<1>1. CASE UNCHANGED vars
  <2>1. TypeInv'
    BY StepTypeInv DEF SafeInv
  <2>2. GitHubGrows /\ \A t \in Sessions : Same(t)
    BY <1>1 DEF vars, sessionVars, GitHubGrows, Same
  <2> QED BY <2>1, <2>2, SameSound DEF SafeInv
<1>2. CASE Next
  BY <1>2, PrefetchSafe, AssessRuleSafe, SelectSafe, AcceptSafe, DeclineSafe,
     RemediateSafe, RecordSafe, SurroundingsSafe DEF Next
<1> QED
  BY <1>1, <1>2

LEMMA AlwaysSafe == Spec => []SafeInv
BY InitSafe, StepSafe, PTL DEF Spec

(* On a terminal nothing is written before the user said yes to it.        *)
THEOREM YesFirst == Spec => []NoWriteBeforeYes
<1>1. SafeInv => NoWriteBeforeYes
  BY DEF SafeInv, Sound, Agreeing, NoWriteBeforeYes
<1> QED BY <1>1, AlwaysSafe, PTL

(* No command remediates a finding that every waiver of its rule accepts,  *)
(* for any number of waivers in any order.                                 *)
THEOREM WaiversHold == Spec => []WaivedFindingsUntouched
<1>1. SafeInv => WaivedFindingsUntouched
  BY DEF SafeInv, Sound, Selected, WaivedFindingsUntouched, TypeInv, TargetsOK, Chosen
<1> QED BY <1>1, AlwaysSafe, PTL

(* Where policy and profile leave a rule to run, none outside is touched.  *)
THEOREM FiltersHold == Spec => []FilteredOutUntouched
<1>1. SafeInv => FilteredOutUntouched
  BY DEF SafeInv, Sound, Within, FilteredOutUntouched, RulesAssessed,
     TypeInv, TargetsOK, Chosen
<1> QED BY <1>1, AlwaysSafe, PTL

(* Without a list, only the findings of the session itself are touched.    *)
THEOREM BulkTouchesFindings == Spec => []BulkActsOnFindings
<1>1. SafeInv => BulkActsOnFindings
  BY DEF SafeInv, Sound, Selected, BulkActsOnFindings
<1> QED BY <1>1, AlwaysSafe, PTL

(* The rows account for every write, and claim none that was not made.     *)
THEOREM RowsTrue == Spec => []RowsTellTheTruth
<1>1. SafeInv => RowsTellTheTruth
  BY DEF SafeInv, Sound, Told, RowsTellTheTruth
<1> QED BY <1>1, AlwaysSafe, PTL

(* The log of a command that ended with a working database is complete,    *)
(* and no log claims a change that was not made, through crashes, expired  *)
(* contexts and failures of the database.                                  *)
THEOREM LogTrue == Spec => []LogTellsTheTruth
<1>1. SafeInv => LogTellsTheTruth
  <2> SUFFICES ASSUME SafeInv PROVE LogTellsTheTruth
    OBVIOUS
  <2>1. CliLogComplete
    BY DEF SafeInv, Sound, Logged, CliLogComplete
  <2>2. ASSUME NEW s \in Sessions, NEW row \in log[s], row.applied
        PROVE  row.pos \in written[s] /\ ~row.dryRun
    BY <2>2 DEF SafeInv, Sound, Logged, Told, Rehearsing
  <2> QED BY <2>1, <2>2 DEF LogTellsTheTruth, LogHasNoPhantoms
<1> QED BY <1>1, AlwaysSafe, PTL

(* Where a row says applied without an error nothing is left of what the   *)
(* rule's remediation changes, whatever the other sessions do, until       *)
(* somebody changes it by hand.                                            *)
THEOREM AppliedIsFixed == Spec => []AppliedMeansFixed
<1>1. SafeInv => AppliedMeansFixed
  BY DEF SafeInv, Sound, Mended, AppliedMeansFixed
<1> QED BY <1>1, AlwaysSafe, PTL

(* A bulk apply that ends without an error has left nothing that the       *)
(* remediation of one of its findings changes, as far as it could read.    *)
THEOREM BulkMends == Spec => []BulkFixesFindings
<1>1. SafeInv => BulkFixesFindings
  BY DEF SafeInv, Sound, Mended, Mending, BulkFixesFindings
<1> QED BY <1>1, AlwaysSafe, PTL
-----------------------------------------------------------------------------
(* The promise of Repair.  A session reports something as repaired only in *)
(* an Effect; before it has rows there is nothing to report.               *)
LEMMA InRepaired ==
  ASSUME NEW s, NEW f
  PROVE  /\ f \in Repaired(s) <=>
              \E row \in rows[s] :
                row.rule = f /\ row.applied /\ ~row.errs /\ view[s][f] \notin InPart
         /\ f \in Repaired(s)' <=>
              \E row \in rows'[s] :
                row.rule = f /\ row.applied /\ ~row.errs /\ view'[s][f] \notin InPart
BY DEF Repaired

LEMMA SameRepaired ==
  ASSUME NEW t, rows'[t] = rows[t], view'[t] = view[t]
  PROVE  FixedFindings(t)' = FixedFindings(t)
<1>1. Repaired(t)' = Repaired(t)
  BY DEF Repaired
<1> QED BY <1>1 DEF FixedFindings

(* A step of a session before its first remediation.                       *)
LEMMA EarlyRepairs ==
  ASSUME TypeInv, NEW s \in Sessions, Prefetch(s) \/ AssessRule(s) \/ Select(s)
  PROVE  \A t \in Sessions : FixedFindings(t)' = FixedFindings(t)
<1> USE DEF TypeInv
<1>1. rows[s] = {} /\ rows \in [Sessions -> SUBSET Row] /\ view \in [Sessions -> [Rules -> View]]
  BY DEF TargetsOK, Early, TypeOK, Prefetch, AssessRule, Select
<1>2. \A t \in Sessions \ {s} : rows'[t] = rows[t] /\ view'[t] = view[t]
  BY <1>1 DEF Prefetch, AssessRule, Select
<1>3. \A row \in rows'[s] : ~row.applied
  <2>1. CASE Prefetch(s) \/ AssessRule(s)
    BY <1>1, <2>1 DEF Prefetch, AssessRule
  <2>2. CASE Select(s)
    <3>1. \A i, chosen : \A row \in Refusals(i, chosen) : ~row.applied
      BY DEF Refusals
    <3>2. rows'[s] = {} \/ \E i, chosen : rows'[s] = Refusals(i, chosen)
      BY <1>1, <2>2 DEF Select
    <3> QED BY <3>1, <3>2
  <2> QED BY <2>1, <2>2
<1>4. Repaired(s) = {} /\ Repaired(s)' = {}
  BY <1>1, <1>3, InRepaired
<1>5. FixedFindings(s)' = FixedFindings(s)
  BY <1>4 DEF FixedFindings
<1> QED BY <1>2, <1>5, SameRepaired

(* One remediation is a piece of work of Repair.                           *)
LEMMA EffectRepairs ==
  ASSUME TypeInv, TypeInv', AppliedMeansFixed', NEW s \in Sessions, NEW p \in pending[s],
         NEW a, Effect(s, p, a)
  PROVE  Promise!Work(s)
<1> USE DEF TypeInv
<1> DEFINE fixed == [t \in Sessions |-> FixedFindings(t)]
<1>1. /\ \/ gh' = gh
         \/ /\ gh[RuleAt(inv[s], p)] = "bad"
            /\ \E x \in Standing(RuleAt(inv[s], p)) : gh' = [gh EXCEPT ![RuleAt(inv[s], p)] = x]
      /\ rows' = [rows EXCEPT ![s] = @ \cup {RowOf(s, p, a)}]
      /\ view' = view /\ admin' = admin
  BY DEF Effect
<1>2. OpenFindings' \subseteq OpenFindings
  <2>1. \A q \in Rules : gh'[q] = gh[q] \/ gh[q] = "bad"
    BY <1>1 DEF TypeOK
  <2> QED BY <2>1 DEF OpenFindings
<1>3. \A t \in Sessions \ {s} : FixedFindings(t)' = FixedFindings(t)
  BY <1>1, SameRepaired DEF TypeOK
<1>4. FixedFindings(s) \subseteq FixedFindings(s)'
  <2>1. rows[s] \subseteq rows'[s]
    BY <1>1 DEF TypeOK
  <2>2. Repaired(s) \subseteq Repaired(s)'
    BY <1>1, <2>1, InRepaired
  <2> QED BY <2>2 DEF FixedFindings
<1>5. ASSUME admin = 0 PROVE FixedFindings(s)' \cap OpenFindings' = {}
  <2> SUFFICES ASSUME NEW f \in FixedFindings(s)', f \in OpenFindings' PROVE FALSE
    OBVIOUS
  <2>1. /\ f[1] \in Repaired(s)' /\ f[1] \in Rules
        /\ f[2] = "reported" => ~Meta[f[1]].leaves /\ gh'[f[1]] # "good"
        /\ f[2] = "changed" => gh'[f[1]] = "bad"
        /\ f[2] \in {"reported", "changed"}
    BY DEF FixedFindings, OpenFindings
  <2>2. PICK row \in rows'[s] :
          row.rule = f[1] /\ row.applied /\ ~row.errs /\ view'[s][f[1]] \notin InPart
    BY <2>1, InRepaired
  <2>3. gh'[f[1]] # "bad"
    BY <1>1, <1>5, <2>2 DEF AppliedMeansFixed
  <2>4. gh'[f[1]] \in Standing(f[1])
    BY <2>1 DEF TypeOK
  <2> QED BY <2>1, <2>3, <2>4 DEF Standing
<1>6. fixed' = [fixed EXCEPT ![s] = fixed'[s]]
  BY <1>3
<1> QED BY <1>1, <1>2, <1>4, <1>5, <1>6 DEF Promise!Work

LEMMA StepRepairs ==
  ASSUME TypeInv, TypeInv', AppliedMeansFixed', [Next]_vars
  PROVE  [Promise!RepairNext]_(Promise!repairVars)
<1> USE DEF TypeInv
<1> DEFINE fixed == [t \in Sessions |-> FixedFindings(t)]
           disturbed == IF admin = 0 THEN {} ELSE Sessions
<1>1. ASSUME gh' = gh, admin' = admin,
             \A t \in Sessions : FixedFindings(t)' = FixedFindings(t)
      PROVE  UNCHANGED Promise!repairVars
  BY <1>1 DEF Promise!repairVars, OpenFindings
<1>2. CASE UNCHANGED vars
  <2>1. \A t \in Sessions : FixedFindings(t)' = FixedFindings(t)
    BY <1>2, SameRepaired DEF vars, sessionVars
  <2> QED BY <1>1, <1>2, <2>1 DEF vars
<1>3. ASSUME NEW s \in Sessions, Prefetch(s) \/ AssessRule(s) \/ Select(s)
      PROVE  UNCHANGED Promise!repairVars
  <2>1. gh' = gh /\ admin' = admin
    BY <1>3 DEF Prefetch, AssessRule, Select
  <2> QED BY <1>1, <1>3, <2>1, EarlyRepairs
<1>4. ASSUME NEW s \in Sessions,
             \/ Accept(s) \/ Decline(s) \/ Record(s) \/ ContextDone(s) \/ CrashCommand(s)
             \/ CrashServer
      PROVE  UNCHANGED Promise!repairVars
  <2>1. UNCHANGED <<gh, admin, view, rows>>
    BY <1>4 DEF Accept, Decline, Record, ContextDone, CrashCommand, CrashServer, sessionVars
  <2>2. \A t \in Sessions : FixedFindings(t)' = FixedFindings(t)
    BY <2>1, SameRepaired
  <2> QED BY <1>1, <2>1, <2>2
<1>5. ASSUME NEW s \in Sessions, Remediate(s)
      PROVE  Promise!RepairNext
  <2>1. PICK p \in pending[s] :
          \E a \in Answer :
            Effect(s, p, a)
    BY <1>5, RemediateIsEffect
  <2>2. Promise!Work(s)
    BY <2>1, EffectRepairs
  <2> QED BY <2>2 DEF Promise!RepairNext
<1>6. CASE AdminChange
  <2>1. view' = view /\ rows' = rows /\ admin \in Nat /\ admin' = admin + 1
    BY <1>6, MaxAdminAssumption DEF AdminChange, sessionVars, TypeOK
  <2>2. fixed' = fixed
    BY <2>1, SameRepaired
  <2>3. disturbed' = Sessions /\ disturbed \subseteq disturbed'
    BY <2>1
  <2>4. OpenFindings' \subseteq Rules \X {"reported", "changed"}
    BY DEF OpenFindings
  <2>5. Promise!Disturb
    BY <2>1, <2>2, <2>3, <2>4 DEF Promise!Disturb
  <2> QED BY <2>5 DEF Promise!RepairNext
<1>7. CASE CrashServer
  <2>1. \E s \in Sessions : TRUE
    BY <1>7 DEF CrashServer
  <2> QED BY <1>4, <1>7, <2>1
<1> QED BY <1>2, <1>3, <1>4, <1>5, <1>6, <1>7 DEF Next

(* Applying implements Repair: whatever the commands, prompts, contexts,   *)
(* crashes and other sessions, no session takes a good state away, and     *)
(* what a row without an error says was applied is gone from then on: what *)
(* the remediation changes and, unless the rule reports more than that,    *)
(* the finding.                                                            *)
THEOREM ApplyKeepsPromise == Spec => ImplementsRepair
<1>1. Init => Promise!RepairInit
  <2> SUFFICES ASSUME Init PROVE Promise!RepairInit
    OBVIOUS
  <2>1. \A s \in Sessions : FixedFindings(s) = {}
    BY InRepaired DEF Init, FixedFindings
  <2>2. admin = 0
    BY DEF Init
  <2> QED BY <2>1, <2>2 DEF Promise!RepairInit, OpenFindings
<1>2. TypeInv /\ TypeInv' /\ AppliedMeansFixed' /\ [Next]_vars
        => [Promise!RepairNext]_(Promise!repairVars)
  BY StepRepairs
<1>3. SafeInv => TypeInv
  BY DEF SafeInv
<1> QED BY <1>1, <1>2, <1>3, AlwaysSafe, AppliedIsFixed, PTL
       DEF Spec, ImplementsRepair, Promise!RepairSpec
=============================================================================
