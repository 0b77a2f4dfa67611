---------------------------- MODULE ApplyPipeline ----------------------------
(***************************************************************************)
(* The commands that change GitHub: `ghe-wizard apply`, `ghe-wizard        *)
(* wizard` and the dashboard's POST /api/apply.  Several sessions of them  *)
(* run against one enterprise at the same time, next to administrators who *)
(* change the same settings by hand.  A session assesses its rules through *)
(* a cache that lives as long as the session, applies the policy, selects  *)
(* its targets, asks (on a terminal), remediates target by target through  *)
(* the same cache, and records what it did.                                *)
(*                                                                         *)
(* A position stands for one entry of a session's target list: an index of *)
(* the list of rule IDs the caller gave, or the rule itself when the       *)
(* session targets the findings in bulk.                                   *)
(***************************************************************************)
EXTENDS Catalog

CONSTANTS
  Sessions,      \* the commands and requests that run
  Invocations,   \* the flags, policy and profile a session may run with
  MaxAdmin       \* bound: changes made to GitHub by hand

Surfaces == {"apply", "wizard", "dashboard"}

Invocation ==
  [surface: Surfaces,
   list: Seq(Nat),             \* --rules, or the request's rules; <<>> is bulk
   dryRun: BOOLEAN,
   allowDestructive: BOOLEAN,
   yes: BOOLEAN,               \* --yes
   db: BOOLEAN,                \* a history database is configured
   policy: Policy,
   profile: Profile,
   now: Nat]                   \* the hour at which Policy.Apply looks at the clock

ASSUME InvocationsAssumption == Invocations \subseteq Invocation
ASSUME MaxAdminAssumption == MaxAdmin \in Nat

VARIABLES
  gh,        \* GitHub: how its state stands by each rule
  admin,     \* how many changes were made by hand (bounded)
  inv,       \* the invocation of a session
  pc,        \* where a session is
  ctx,       \* the session's context: "live", or "done" once it expired
  todo,      \* the rules a session still has to assess
  view,      \* the session's cache: what the rule's reads returned
  results,   \* the session's scorecard
  pending,   \* the positions a session still has to remediate
  agreed,    \* the positions the user said yes to
  rows,      \* the remediation results of a session
  written,   \* history: the positions whose remediation reached GitHub
  log,       \* the rows of a session the history database holds
  fault      \* history: the database failed while a session recorded

sessionVars == <<todo, view, results, pending, agreed, rows, written, log, fault>>
vars == <<gh, admin, inv, pc, ctx, sessionVars>>

Row == [pos: Nat, rule: Nat, applied: BOOLEAN, errs: BOOLEAN, dryRun: BOOLEAN]

Final == {"done", "aborted", "crashed"}

Places == {"assess", "select", "confirm", "remediate", "record"} \cup Final

TypeOK ==
  /\ gh \in [Rules -> {"good", "bad", "rest"}]
  /\ \A r \in Rules : gh[r] \in Standing(r)
  /\ admin \in 0..MaxAdmin
  /\ inv \in [Sessions -> Invocations]
  /\ pc \in [Sessions -> Places]
  /\ ctx \in [Sessions -> {"live", "done"}]
  /\ todo \in [Sessions -> SUBSET Rules]
  /\ view \in [Sessions -> [Rules -> View]]
  /\ results \in [Sessions -> Results]
  /\ pending \in [Sessions -> SUBSET Nat]
  /\ agreed \in [Sessions -> SUBSET Nat]
  /\ rows \in [Sessions -> SUBSET Row]
  /\ written \in [Sessions -> SUBSET Nat]
  /\ log \in [Sessions -> SUBSET Row]
  /\ fault \in [Sessions -> BOOLEAN]

-----------------------------------------------------------------------------
Bulk(i) == i.list = <<>> \/ i.surface = "wizard"

RuleAt(i, p) == IF Bulk(i) THEN p ELSE i.list[p]

Cli(i) == i.surface # "dashboard"

(* Whether a session asks before position p, and before any of them.       *)
AsksEach(i) == i.surface = "wizard" /\ ~i.yes
AsksOnce(i) == i.surface = "apply" /\ ~i.yes /\ ~i.dryRun

ToRun(i) == RulesToRun(i.policy, i.profile)

Init ==
  /\ gh \in [Rules -> {"good", "bad", "rest"}]
  /\ \A r \in Rules : gh[r] \in Standing(r)
  /\ admin = 0
  /\ inv \in [Sessions -> Invocations]
  /\ pc = [s \in Sessions |-> "assess"]
  /\ ctx = [s \in Sessions |-> "live"]
  /\ todo = [s \in Sessions |-> RulesAssessed(ToRun(inv[s]))]
  /\ view = [s \in Sessions |-> [r \in Rules |-> "unread"]]
  /\ results = [s \in Sessions |-> [r \in Rules |-> "absent"]]
  /\ pending = [s \in Sessions |-> {}]
  /\ agreed = [s \in Sessions |-> {}]
  /\ rows = [s \in Sessions |-> {}]
  /\ written = [s \in Sessions |-> {}]
  /\ log = [s \in Sessions |-> {}]
  /\ fault = [s \in Sessions |-> FALSE]

-----------------------------------------------------------------------------
(* What the reads of rule r return.  One may fail while the context is     *)
(* live, and always fails afterwards.                                      *)
Reads(s, r) ==
  {"unreadable"} \cup
  (IF ctx[s] = "live"
   THEN {gh[r]} \cup
        {v \in InPart : /\ Meta[r].perOrg
                        /\ v = "partly" => gh[r] = "bad"
                        /\ v = "partlyRest" => Meta[r].leaves /\ gh[r] # "good"}
   ELSE {})

(* Before the first rule is assessed Prefetch reads what the organizations *)
(* have, for the rules that loop over them.  What is cached is what those  *)
(* rules see, however GitHub changes, and outlives the context.            *)
Prefetch(s) ==
  /\ pc[s] = "assess"
  /\ todo[s] = RulesAssessed(ToRun(inv[s]))
  /\ \E r \in todo[s] :
       /\ Meta[r].perOrg /\ view[s][r] = "unread"
       /\ \E v \in Reads(s, r) : view' = [view EXCEPT ![s][r] = v]
  /\ UNCHANGED <<gh, admin, inv, pc, ctx, todo, results, pending, agreed, rows,
                 written, log, fault>>

AssessRule(s) ==
  /\ pc[s] = "assess"
  /\ \E r \in todo[s], v \in View :
       /\ \A q \in todo[s] : r <= q
       /\ v \in IF view[s][r] = "unread" THEN Reads(s, r) ELSE {view[s][r]}
       /\ view' = [view EXCEPT ![s][r] = v]
       /\ \E st \in Outcome(r, v) : results' = [results EXCEPT ![s][r] = st]
       /\ todo' = [todo EXCEPT ![s] = @ \ {r}]
       /\ pc' = [pc EXCEPT ![s] = IF todo[s] = {r} THEN "select" ELSE "assess"]
  /\ UNCHANGED <<gh, admin, inv, ctx, pending, agreed, rows, written, log, fault>>

-----------------------------------------------------------------------------
(* Target selection over the scorecard res the policy was applied to.      *)

(* Mutant: an explicit list is enough for a destructive rule.              *)
EligibleIfNamed(i, res, r) == r \in Rules /\ res[r] \notin {"absent", "waived"}

Eligible(i, res, r) ==
  /\ r \in Rules
  /\ res[r] \notin {"absent", "waived"}
  /\ Meta[r].destructive => i.surface = "apply" /\ i.allowDestructive

Targets(i, res) ==
  CASE i.surface = "wizard" -> WizardTargets(res)
    [] i.surface # "wizard" /\ i.list = <<>> -> RemediableFailures(res)
    [] OTHER -> {p \in DOMAIN i.list : Eligible(i, res, i.list[p])}

(* Mutant: the refusal's row does not say whether it was a dry run.        *)
RefusalsUnmarked(i, chosen) ==
  IF Cli(i) \/ Bulk(i) THEN {}
  ELSE {[pos |-> p, rule |-> i.list[p], applied |-> FALSE, errs |-> TRUE]
          : p \in DOMAIN i.list \ chosen}

(* The dashboard answers a refused ID with an error row; the command line  *)
(* prints a warning.                                                       *)
Refusals(i, chosen) ==
  IF Cli(i) \/ Bulk(i) THEN {}
  ELSE {[pos |-> p, rule |-> i.list[p], applied |-> FALSE, errs |-> TRUE,
         dryRun |-> i.dryRun] : p \in DOMAIN i.list \ chosen}

UnknownRule(i) ==
  i.surface = "apply" /\ \E p \in DOMAIN i.list : i.list[p] \notin Rules

AfterSelect(i, chosen) ==
  IF chosen = {} THEN IF i.surface = "apply" THEN "done" ELSE "record"
  ELSE IF AsksOnce(i) \/ AsksEach(i) THEN "confirm" ELSE "remediate"

Select(s) ==
  LET i == inv[s]
      res == ApplyWaivers(i.policy, i.now, results[s])
      chosen == Targets(i, res)
  IN /\ pc[s] = "select"
     /\ results' = [results EXCEPT ![s] = res]
     /\ IF UnknownRule(i)
        THEN /\ pc' = [pc EXCEPT ![s] = "aborted"]
             /\ UNCHANGED <<pending, rows>>
        ELSE /\ pc' = [pc EXCEPT ![s] = AfterSelect(i, chosen)]
             /\ pending' = [pending EXCEPT ![s] = chosen]
             /\ rows' = [rows EXCEPT ![s] = Refusals(i, chosen)]
     /\ UNCHANGED <<gh, admin, inv, ctx, todo, view, agreed, written, log, fault>>

-----------------------------------------------------------------------------
(* The prompt.  `apply` asks once for all its targets, `wizard` before     *)
(* each; a no ends the first and skips one target of the second.           *)

(* Mutant: the wizard's first yes is taken for all.                        *)
AfterTargetUnasked(i, left) == IF left = {} THEN "record" ELSE "remediate"

AfterTarget(i, left) ==
  IF left = {} THEN "record"
  ELSE IF AsksEach(i) THEN "confirm" ELSE "remediate"

IsNext(s, p) == p \in pending[s] /\ \A q \in pending[s] : p <= q

Accept(s) ==
  /\ pc[s] = "confirm"
  /\ \E p \in pending[s] :
       /\ IsNext(s, p)
       /\ agreed' = [agreed EXCEPT ![s] =
                       IF AsksEach(inv[s]) THEN @ \cup {p} ELSE pending[s]]
  /\ pc' = [pc EXCEPT ![s] = "remediate"]
  /\ UNCHANGED <<gh, admin, inv, ctx, todo, view, results, pending, rows,
                 written, log, fault>>

Decline(s) ==
  /\ pc[s] = "confirm"
  /\ IF AsksEach(inv[s])
     THEN \E p \in pending[s] :
            /\ IsNext(s, p)
            /\ pending' = [pending EXCEPT ![s] = @ \ {p}]
            /\ pc' = [pc EXCEPT ![s] = AfterTarget(inv[s], pending[s] \ {p})]
     ELSE /\ pc' = [pc EXCEPT ![s] = "aborted"]
          /\ UNCHANGED pending
  /\ UNCHANGED <<gh, admin, inv, ctx, todo, view, results, agreed, rows,
                 written, log, fault>>

-----------------------------------------------------------------------------
(* One remediation.  Its reads go through the session's cache, so a rule   *)
(* that checks before it writes checks what the assessment saw.            *)

SawBad(s, r) == view[s][r] \in {"bad", "partly"}

Acts(s, r) ==
  Meta[r].remediable /\ (Meta[r].rechecks => SawBad(s, r))

(* Mutant: the dry-run flag is not looked at before the write.             *)
SendsAlways(s, r) == Acts(s, r)

Sends(s, r) == Acts(s, r) /\ ~inv[s].dryRun

(* What becomes of a remediation: whether a write reached GitHub, whether  *)
(* it left nothing the remediation would change, and what the row says.    *)
Answer == [reached: BOOLEAN, fixed: BOOLEAN, applied: BOOLEAN, errs: BOOLEAN]

(* Mutant: the error of the write is dropped and the row says applied.     *)
AnswersErrorDropped(s, r) ==
  {a \in Answer : /\ a.applied /\ ~a.errs
                  /\ a.reached => ctx[s] = "live"
                  /\ a.fixed = a.reached}

(* The answers of GitHub to the write of a rule: done; refused; done with  *)
(* the answer lost; some organizations done and some refused or lost.  An  *)
(* organization that could not be read is not written.  Nothing is sent    *)
(* once the context is done.                                               *)
Answers(s, r) ==
  {a \in Answer :
     /\ a.reached => /\ ctx[s] = "live"
                     /\ a.applied \/ a.errs
                     /\ a.applied /\ a.errs => Meta[r].perOrg
                     /\ a.fixed \/ view[s][r] \in InPart \/ (a.errs /\ Meta[r].perOrg)
     /\ ~a.reached => ~a.fixed /\ ~a.applied /\ a.errs}

(* A dry run describes, and a rule with nothing to do returns at once; the *)
(* error of a failed read, kept by the cache, may come back in the row.    *)
Quiet(s, r) ==
  {a \in Answer : /\ ~a.reached /\ ~a.fixed /\ ~a.applied
                  /\ a.errs => view[s][r] = "unreadable"}

RowOf(s, p, a) ==
  [pos |-> p, rule |-> RuleAt(inv[s], p), applied |-> a.applied, errs |-> a.errs,
   dryRun |-> inv[s].dryRun]

(* Mutant: a target that failed is tried again, for as long as it fails.   *)
LeftAfterRetry(s, p, a) == IF a.errs THEN pending[s] ELSE pending[s] \ {p}

LeftAfter(s, p, a) == pending[s] \ {p}

(* What the remediation changes is gone once it is fixed; what it leaves   *)
(* alone may have been there beside it, and stays.                         *)
Effect(s, p, a) ==
  /\ IF a.fixed /\ gh[RuleAt(inv[s], p)] = "bad"
     THEN \E x \in Standing(RuleAt(inv[s], p)) \ {"bad"} :
            gh' = [gh EXCEPT ![RuleAt(inv[s], p)] = x]
     ELSE gh' = gh
  /\ written' = IF a.reached THEN [written EXCEPT ![s] = @ \cup {p}] ELSE written
  /\ rows' = [rows EXCEPT ![s] = @ \cup {RowOf(s, p, a)}]
  /\ pending' = [pending EXCEPT ![s] = LeftAfter(s, p, a)]
  /\ pc' = [pc EXCEPT ![s] = AfterTarget(inv[s], LeftAfter(s, p, a))]
  /\ UNCHANGED <<admin, inv, ctx, todo, view, results, agreed, log, fault>>

Remediate(s) ==
  /\ pc[s] = "remediate"
  /\ \E p \in pending[s] :
       /\ IsNext(s, p)
       /\ LET r == RuleAt(inv[s], p)
          IN \E a \in IF Sends(s, r)
                      THEN Answers(s, r) ELSE Quiet(s, r) : Effect(s, p, a)

-----------------------------------------------------------------------------
(* The remediation log.  The command line writes whatever it did, dry runs *)
(* included, with a context of its own; the dashboard writes with the      *)
(* request's context and leaves dry runs out.  A failure is not fatal.     *)

Persists(s) ==
  /\ inv[s].db
  /\ IF Cli(inv[s]) THEN rows[s] # {} ELSE ~inv[s].dryRun

Record(s) ==
  /\ pc[s] = "record"
  /\ pc' = [pc EXCEPT ![s] = "done"]
  /\ \/ /\ Persists(s) /\ ctx[s] = "live"
        /\ log' = [log EXCEPT ![s] = rows[s]]
        /\ UNCHANGED fault
     \/ /\ Persists(s)
        /\ fault' = [fault EXCEPT ![s] = TRUE]
        /\ UNCHANGED log
     \/ /\ ~Persists(s) \/ ctx[s] = "done"
        /\ UNCHANGED <<log, fault>>
  /\ UNCHANGED <<gh, admin, inv, ctx, todo, view, results, pending, agreed, rows, written>>

-----------------------------------------------------------------------------
(* The surroundings: the two-minute limit of a request or a client that    *)
(* disconnects, a command that is interrupted, a server that is stopped    *)
(* with every request in it, and an administrator at work.                 *)

ContextDone(s) ==
  /\ inv[s].surface = "dashboard" /\ pc[s] \notin Final /\ ctx[s] = "live"
  /\ ctx' = [ctx EXCEPT ![s] = "done"]
  /\ UNCHANGED <<gh, admin, inv, pc, sessionVars>>

CrashCommand(s) ==
  /\ Cli(inv[s]) /\ pc[s] \notin Final
  /\ pc' = [pc EXCEPT ![s] = "crashed"]
  /\ UNCHANGED <<gh, admin, inv, ctx, sessionVars>>

CrashServer ==
  /\ \E s \in Sessions : inv[s].surface = "dashboard" /\ pc[s] \notin Final
  /\ pc' = [s \in Sessions |->
              IF inv[s].surface = "dashboard" /\ pc[s] \notin Final
              THEN "crashed" ELSE pc[s]]
  /\ UNCHANGED <<gh, admin, inv, ctx, sessionVars>>

AdminChange ==
  /\ admin < MaxAdmin
  /\ admin' = admin + 1
  /\ \E r \in Rules : \E x \in Standing(r) \ {gh[r]} : gh' = [gh EXCEPT ![r] = x]
  /\ UNCHANGED <<inv, pc, ctx, sessionVars>>

-----------------------------------------------------------------------------
Program(s) == AssessRule(s) \/ Select(s) \/ Remediate(s) \/ Record(s)

Next ==
  \/ \E s \in Sessions :
       \/ Prefetch(s) \/ AssessRule(s) \/ Select(s) \/ Accept(s) \/ Decline(s)
       \/ Remediate(s) \/ Record(s) \/ ContextDone(s) \/ CrashCommand(s)
  \/ CrashServer
  \/ AdminChange

(* A running program goes on by itself; whoever sits at the terminal may   *)
(* never answer, and nobody has to crash or to change a setting.           *)
Fairness == \A s \in Sessions : WF_vars(Program(s))

Spec == Init /\ [][Next]_vars /\ Fairness

-----------------------------------------------------------------------------
(* Safety.                                                                 *)

(* A destructive remediation (IDENT-04, POL-06, SEATs) reaches GitHub     *)
(* only from `apply` with an explicit rule list and --allow-destructive:   *)
(* never in bulk, from the wizard or from the dashboard.                   *)
DestructiveOnlyByConsent ==
  \A s \in Sessions : \A p \in written[s] :
    Meta[RuleAt(inv[s], p)].destructive =>
      /\ inv[s].surface = "apply"
      /\ inv[s].list # <<>>
      /\ inv[s].allowDestructive

(* On a terminal nothing is written before the user said yes to it: once   *)
(* for all the targets shown, or target by target in the wizard.           *)
NoWriteBeforeYes ==
  \A s \in Sessions :
    Cli(inv[s]) /\ ~inv[s].yes => written[s] \subseteq agreed[s]

(* Every waiver the policy file has for r is still valid at hour now: it   *)
(* has no date, or the date is today or later.                             *)
WaivedThroughout(pol, r, now) ==
  LET Of == {pol.waivers[k] : k \in {j \in DOMAIN pol.waivers :
                                       pol.waivers[j].rule = r}}
  IN Of # {} /\ \A w \in Of : w.expires = 0 \/ now <= 24 * (w.expires + 1)

(* A finding that a waiver accepts is not remediated by any command, named *)
(* or not, even when several files' worth of waivers cover the rule.       *)
WaivedFindingsUntouched ==
  \A s \in Sessions : \A p \in written[s] :
    LET r == RuleAt(inv[s], p)
    IN WaivedThroughout(inv[s].policy, r, inv[s].now) =>
         results[s][r] \notin Finding \cup {"waived"}

(* As long as policy and profile leave some rule to run, no rule outside   *)
(* them is remediated.                                                     *)
FilteredOutUntouched ==
  \A s \in Sessions : \A p \in written[s] :
    ToRun(inv[s]) # {} => RuleAt(inv[s], p) \in ToRun(inv[s])

(* Without an explicit list only findings of this very run are touched.    *)
BulkActsOnFindings ==
  \A s \in Sessions : Bulk(inv[s]) =>
    \A p \in written[s] :
      /\ results[s][p] \in Finding
      /\ inv[s].surface = "wizard" => results[s][p] = "fail"

(* The rows a session reports account for every write, and a row that says *)
(* "applied" stands for a write.                                           *)
RowsTellTheTruth ==
  \A s \in Sessions :
    /\ \A p \in written[s] : \E row \in rows[s] :
          row.pos = p /\ (row.applied \/ row.errs)
    /\ \A row \in rows[s] : row.applied => row.pos \in written[s]

(* A row applied without an error means that nothing the rule's            *)
(* remediation changes is left, until somebody undoes it by hand; no other *)
(* session undoes it.  The one limit is an organization the session could  *)
(* not read.  (The rule may go on reporting what its remediation leaves    *)
(* alone: REPO-03 does, where members create non-public repositories.)     *)
AppliedMeansFixed ==
  admin = 0 =>
    \A s \in Sessions : \A row \in rows[s] :
      row.applied /\ ~row.errs /\ view[s][row.rule] \notin InPart
        => gh[row.rule] # "bad"

(* A bulk `apply` that ends without an error has left nothing that the     *)
(* remediation of one of its findings changes, fail and warn alike,        *)
(* whoever else was at work but the administrators, and as far as it could *)
(* read.  A finding a remediation does not touch stays, without an error.  *)
BulkFixesFindings ==
  \A s \in Sessions :
    LET i == inv[s]
    IN /\ pc[s] = "done" /\ i.surface # "wizard" /\ Bulk(i) /\ ~i.dryRun /\ admin = 0
       /\ \A row \in rows[s] : ~row.errs
       => \A r \in Rules :
            results[s][r] \in Finding /\ Meta[r].remediable
              => gh[r] # "bad" \/ Meta[r].destructive \/ view[s][r] \in InPart

(* A command of the terminal that ran to its end with a history database   *)
(* that worked has logged every write it made.                             *)
CliLogComplete ==
  \A s \in Sessions :
    pc[s] = "done" /\ Cli(inv[s]) /\ inv[s].db /\ ~fault[s] =>
      \A p \in written[s] : \E row \in log[s] : row.pos = p

(* The log never claims a change that did not happen, through crashes,     *)
(* expired contexts and failures of the database.                          *)
LogHasNoPhantoms ==
  \A s \in Sessions : \A row \in log[s] :
    row.applied => row.pos \in written[s] /\ ~row.dryRun

(* The remediation log and GitHub agree: nothing a command did to its end  *)
(* is missing, and nothing is claimed that no session did.                 *)
LogTellsTheTruth == CliLogComplete /\ LogHasNoPhantoms

-----------------------------------------------------------------------------
(* Liveness.                                                               *)

(* A session that does not have to ask ends, whatever GitHub, the database *)
(* and the other sessions do.                                              *)
UnattendedSessionsEnd ==
  \A s \in Sessions :
    <>(pc[s] \in Final \/ AsksOnce(inv[s]) \/ AsksEach(inv[s]))

-----------------------------------------------------------------------------
(* The promise of Repair.  A rule stands for two findings: what it reports *)
(* and what its remediation changes.                                       *)

OpenFindings ==
  {f \in Rules \X {"reported", "changed"} :
     /\ f[2] = "reported" => gh[f[1]] # "good"
     /\ f[2] = "changed" => gh[f[1]] = "bad"}

(* The rules of a session's rows that were applied without an error, as    *)
(* far as the session could read the organizations, and what that row says *)
(* is gone: all the rule reports, unless it reports more than it changes.  *)
Repaired(s) ==
  {row.rule : row \in {x \in rows[s] : x.applied /\ ~x.errs /\ view[s][x.rule] \notin InPart}}

FixedFindings(s) ==
  {f \in Repaired(s) \X {"reported", "changed"} :
     f[2] = "reported" => ~Meta[f[1]].leaves}

Promise == INSTANCE Repair WITH
             Findings <- Rules \X {"reported", "changed"},
             open <- OpenFindings,
             fixed <- [s \in Sessions |-> FixedFindings(s)],
             disturbed <- IF admin = 0 THEN {} ELSE Sessions,
             hands <- admin

(* Applying keeps the promise: no session takes a good state away, and     *)
(* what a row without an error says was applied is gone from then on: the  *)
(* state its remediation changes and, unless the rule reports more than    *)
(* that, the finding.                                                      *)
ImplementsRepair == Promise!RepairSpec

-----------------------------------------------------------------------------
(* What the documents say and the code does not do.                        *)

(* "disabled rules never run" and are never remediated.                    *)
DisabledNeverRemediated ==
  \A s \in Sessions : \A p \in written[s] :
    RuleAt(inv[s], p) \notin inv[s].policy.disabled
=============================================================================
