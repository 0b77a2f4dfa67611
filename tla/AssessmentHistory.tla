-------------------------- MODULE AssessmentHistory --------------------------
(***************************************************************************)
(* The commands that only look: `ghe-wizard assess`, the GitHub Action     *)
(* that wraps it, and the dashboard's POST /api/assess and                 *)
(* /api/assess/stream.  Several sessions of them run next to each other    *)
(* and share one history database.  A session assesses its rules, applies  *)
(* the policy, summarizes, and records the run; the command then reads the *)
(* database again to compare itself with an earlier run, alerts a webhook, *)
(* writes the report and sets its exit code.                               *)
(***************************************************************************)
EXTENDS Catalog, Integers, FiniteSets

CONSTANTS
  Enterprises,
  Sessions,      \* the commands and requests that run
  Invocations,   \* the flags, policy and profile a session may run with
  MaxAdmin       \* bound: changes made to GitHub by hand

Surfaces == {"assess", "action", "post", "stream"}

Invocation ==
  [surface: Surfaces,
   enterprise: Enterprises,
   db: BOOLEAN,                            \* --db
   notify: {"never", "always", "alert"},   \* --notify-webhook, --notify-only-alert
   failOn: {"never", "fail", "warn"},      \* --fail-on
   policy: Policy,
   profile: Profile,
   now: Nat]

(* The Action's script has no --db, and the dashboard neither notifies nor *)
(* gates.                                                                  *)
ASSUME InvocationsAssumption ==
  /\ Invocations \subseteq Invocation
  /\ \A i \in Invocations :
       /\ i.surface = "action" => ~i.db
       /\ i.surface \in {"post", "stream"} => i.notify = "never" /\ i.failOn = "never"
ASSUME MaxAdminAssumption == MaxAdmin \in Nat
ASSUME RulesAssumption == IsFiniteSet(Rules)   \* the registry is a slice

VARIABLES
  gh,        \* GitHub: whether an enterprise's state is good or bad by a rule
  admin,     \* how many changes were made by hand (bounded)
  inv,       \* the invocation of a session
  pc,        \* where a session is
  ctx,       \* the session's context: "live", or "done" once it expired
  todo,      \* the rules a session still has to assess
  results,   \* the session's scorecard
  summary,   \* the scorecard's summary
  runs,      \* the database: the recorded runs; a run's ID is its index
  own,       \* the ID of a session's own run, 0 before it has one
  drift,     \* the drift a session computed
  alert,     \* what became of the session's notification
  exit,      \* the exit code
  before,    \* history: the sessions that had ended when a session began
  sawBad     \* history: the rules whose reads showed a session a bad state

sessionVars == <<todo, results, summary, own, drift, alert, exit, before, sawBad>>
vars == <<gh, admin, inv, pc, ctx, runs, sessionVars>>

Final == {"done", "crashed"}

Cli(i) == i.surface \in {"assess", "action"}

Summary == [score: 0..100, total: Nat, count: [Status -> Nat]]

Run == [by: Sessions, enterprise: Enterprises, summary: Summary, statuses: Results]

Drift == [previous: Nat, scoreDelta: -100..100, newlyFailing: SUBSET Rules,
          newlyFixed: SUBSET Rules, regressed: SUBSET Rules]

NoDrift == [previous |-> 0, scoreDelta |-> 0, newlyFailing |-> {},
            newlyFixed |-> {}, regressed |-> {}]

TypeOK ==
  /\ gh \in [Enterprises -> [Rules -> {"good", "bad"}]]
  /\ admin \in 0..MaxAdmin
  /\ inv \in [Sessions -> Invocations]
  /\ pc \in [Sessions -> {"new", "assess", "policy", "save", "drift", "notify",
                          "gate"} \cup Final]
  /\ ctx \in [Sessions -> {"live", "done"}]
  /\ todo \in [Sessions -> SUBSET Rules]
  /\ results \in [Sessions -> Results]
  /\ \A s \in Sessions : summary[s] \in Summary
  /\ \A k \in DOMAIN runs : runs[k] \in Run
  /\ own \in [Sessions -> 0..Len(runs)]
  /\ \A s \in Sessions : drift[s] \in Drift
  /\ alert \in [Sessions -> {"none", "sent", "lost"}]
  /\ exit \in [Sessions -> {"none", "ok", "gate", "failed"}]
  /\ before \in [Sessions -> SUBSET Sessions]
  /\ sawBad \in [Sessions -> SUBSET Rules]

-----------------------------------------------------------------------------
(* summarize.                                                              *)

Count(res, st) == Cardinality({r \in Rules : res[r] = st})

(* Mutant: warnings earn their half point but are not among the scored.    *)
ScoreForgettingWarnings(res) ==
  LET p == Count(res, "pass")
      w == Count(res, "warn")
      n == p + Count(res, "fail")
  IN IF n = 0 THEN 0 ELSE (100 * (2 * p + w)) \div (2 * n)

(* A pass is 1, a warning 1/2, a failure 0; no score is 0 points.          *)
Score(res) ==
  LET p == Count(res, "pass")
      w == Count(res, "warn")
      n == p + w + Count(res, "fail")
  IN IF n = 0 THEN 0 ELSE (100 * (2 * p + w)) \div (2 * n)

Summarize(res) ==
  [score |-> Score(res),
   total |-> Cardinality(Ran(res)),
   count |-> [st \in Status |-> Count(res, st)]]

Nothing == [r \in Rules |-> "absent"]

Init ==
  /\ gh \in [Enterprises -> [Rules -> {"good", "bad"}]]
  /\ admin = 0
  /\ inv \in [Sessions -> Invocations]
  /\ pc = [s \in Sessions |-> "new"]
  /\ ctx = [s \in Sessions |-> "live"]
  /\ todo = [s \in Sessions |-> {}]
  /\ results = [s \in Sessions |-> Nothing]
  /\ summary = [s \in Sessions |-> Summarize(Nothing)]
  /\ runs = <<>>
  /\ own = [s \in Sessions |-> 0]
  /\ drift = [s \in Sessions |-> NoDrift]
  /\ alert = [s \in Sessions |-> "none"]
  /\ exit = [s \in Sessions |-> "none"]
  /\ before = [s \in Sessions |-> {}]
  /\ sawBad = [s \in Sessions |-> {}]

-----------------------------------------------------------------------------
ToRun(i) == RulesAssessed(RulesToRun(i.policy, i.profile))

Begin(s) ==
  /\ pc[s] = "new"
  /\ pc' = [pc EXCEPT ![s] = "assess"]
  /\ todo' = [todo EXCEPT ![s] = ToRun(inv[s])]
  /\ before' = [before EXCEPT ![s] = {t \in Sessions : pc[t] \in Final}]
  /\ UNCHANGED <<gh, admin, inv, ctx, runs, results, summary, own, drift, alert,
                 exit, sawBad>>

(* A read may fail, and what the session's cache holds by then (Prefetch)  *)
(* can still be read once its context is done.  Nothing is remediated      *)
(* here, so "bad" stands for whatever the rule reports.                    *)
Reads(s, r) == {"unreadable", gh[inv[s].enterprise][r]}

(* Only the streamed assessment looks at the context between two rules.    *)
AssessRule(s) ==
  /\ pc[s] = "assess"
  /\ inv[s].surface = "stream" => ctx[s] = "live"
  /\ \E r \in todo[s], v \in View :
       /\ \A q \in todo[s] : r <= q
       /\ v \in Reads(s, r)
       /\ \E st \in Outcome(r, v) : results' = [results EXCEPT ![s][r] = st]
       /\ sawBad' = [sawBad EXCEPT ![s] = @ \cup {q \in {r} : v = "bad"}]
       /\ todo' = [todo EXCEPT ![s] = @ \ {r}]
       /\ pc' = [pc EXCEPT ![s] = IF todo[s] = {r} THEN "policy" ELSE "assess"]
  /\ UNCHANGED <<gh, admin, inv, ctx, runs, summary, own, drift, alert, exit, before>>

(* AssessStream breaks off and goes on with the results it has.            *)
StreamStops(s) ==
  /\ pc[s] = "assess" /\ inv[s].surface = "stream" /\ ctx[s] = "done"
  /\ pc' = [pc EXCEPT ![s] = "policy"]
  /\ UNCHANGED <<gh, admin, inv, ctx, runs, sessionVars>>

AfterPolicy(i) ==
  IF i.db THEN "save" ELSE IF Cli(i) THEN "notify" ELSE "done"

ApplyPolicy(s) ==
  /\ pc[s] = "policy"
  /\ results' = [results EXCEPT ![s] = ApplyWaivers(inv[s].policy, inv[s].now, @)]
  /\ summary' = [summary EXCEPT ![s] = Summarize(results'[s])]
  /\ pc' = [pc EXCEPT ![s] = AfterPolicy(inv[s])]
  /\ UNCHANGED <<gh, admin, inv, ctx, runs, todo, own, drift, alert, exit, before, sawBad>>

-----------------------------------------------------------------------------
(* SaveRun: one transaction, which the database refuses once the context   *)
(* is done and may refuse at any time (another process holds the lock, or  *)
(* the disk is full).  The command warns, the dashboard says nothing.      *)

AfterSave(i, saved) == IF ~Cli(i) THEN "done" ELSE IF saved THEN "drift" ELSE "notify"

(* Mutant: the run is saved in a context of its own.                       *)
SaveAlways(s) ==
  /\ pc[s] = "save"
  /\ runs' = Append(runs, [by |-> s, enterprise |-> inv[s].enterprise,
                           summary |-> summary[s], statuses |-> results[s]])
  /\ own' = [own EXCEPT ![s] = Len(runs) + 1]
  /\ pc' = [pc EXCEPT ![s] = AfterSave(inv[s], TRUE)]
  /\ UNCHANGED <<gh, admin, inv, ctx, todo, results, summary, drift, alert, exit,
                 before, sawBad>>

Save(s) ==
  /\ pc[s] = "save" /\ ctx[s] = "live"
  /\ runs' = Append(runs, [by |-> s, enterprise |-> inv[s].enterprise,
                           summary |-> summary[s], statuses |-> results[s]])
  /\ own' = [own EXCEPT ![s] = Len(runs) + 1]
  /\ pc' = [pc EXCEPT ![s] = AfterSave(inv[s], TRUE)]
  /\ UNCHANGED <<gh, admin, inv, ctx, todo, results, summary, drift, alert, exit,
                 before, sawBad>>

SaveFails(s) ==
  /\ pc[s] = "save"
  /\ pc' = [pc EXCEPT ![s] = AfterSave(inv[s], FALSE)]
  /\ UNCHANGED <<gh, admin, inv, ctx, runs, sessionVars>>

-----------------------------------------------------------------------------
(* DriftAgainstPrevious, after the save and not in its transaction.        *)

RunsOf(e) == {k \in DOMAIN runs : runs[k].enterprise = e}

(* Mutant: the newest runs of all enterprises.                             *)
LatestOfAll(e, limit) ==
  {k \in DOMAIN runs : Cardinality({j \in DOMAIN runs : j > k}) < limit}

Latest(e, limit) ==
  {k \in RunsOf(e) : Cardinality({j \in RunsOf(e) : j > k}) < limit}

(* Mutant: of the two latest runs the second is taken, as if the newest    *)
(* were always the session's own.                                          *)
PreviousSecond(s) ==
  LET found == Latest(inv[s].enterprise, 2)
  IN {k \in found : \E j \in found : j > k}

(* The newest of the two latest runs that is not the session's own.        *)
PreviousOf(s) ==
  LET found == Latest(inv[s].enterprise, 2) \ {own[s]}
  IN {k \in found : \A j \in found : k >= j}

Compare(old, score, res) ==
  LET known == {r \in Ran(res) : old.statuses[r] # "absent"}
      failing == {r \in known : old.statuses[r] # "fail" /\ res[r] = "fail"}
  IN [scoreDelta |-> score - old.summary.score,
      newlyFailing |-> failing,
      regressed |-> {r \in failing : old.statuses[r] \in {"pass", "warn"}},
      newlyFixed |-> {r \in known : old.statuses[r] = "fail" /\ res[r] # "fail"}]

ComputeDrift(s) ==
  /\ pc[s] = "drift"
  /\ IF PreviousOf(s) = {}
     THEN UNCHANGED drift
     ELSE \E p \in PreviousOf(s) :
            LET d == Compare(runs[p], summary[s].score, results[s])
            IN drift' = [drift EXCEPT ![s] =
                           [previous |-> p, scoreDelta |-> d.scoreDelta,
                            newlyFailing |-> d.newlyFailing,
                            newlyFixed |-> d.newlyFixed, regressed |-> d.regressed]]
  /\ pc' = [pc EXCEPT ![s] = "notify"]
  /\ UNCHANGED <<gh, admin, inv, ctx, runs, todo, results, summary, own, alert, exit,
                 before, sawBad>>

(* A read of the database fails: the run is recorded and not compared.     *)
DriftFails(s) ==
  /\ pc[s] = "drift"
  /\ pc' = [pc EXCEPT ![s] = "notify"]
  /\ UNCHANGED <<gh, admin, inv, ctx, runs, sessionVars>>

-----------------------------------------------------------------------------
(* Mutant: only what passed or warned before is worth an alert.            *)
ShouldAlertOnRegression(d) == d.scoreDelta < 0 \/ d.regressed # {}

(* Without a drift nothing alerts: the command's minimum score is 0.       *)
ShouldAlert(d) == d.scoreDelta < 0 \/ d.newlyFailing # {}

Notify(s) ==
  /\ pc[s] = "notify"
  /\ IF \/ inv[s].notify = "always"
        \/ inv[s].notify = "alert" /\ ShouldAlert(drift[s])
     THEN \E a \in {"sent", "lost"} : alert' = [alert EXCEPT ![s] = a]
     ELSE UNCHANGED alert
  /\ pc' = [pc EXCEPT ![s] = "gate"]
  /\ UNCHANGED <<gh, admin, inv, ctx, runs, todo, results, summary, own, drift, exit,
                 before, sawBad>>

(* Mutant: --fail-on warn looks at warnings only.                          *)
BreachedAtLevel(failOn, counts) ==
  \/ failOn = "fail" /\ counts["fail"] > 0
  \/ failOn = "warn" /\ counts["warn"] > 0

Breached(failOn, counts) ==
  \/ failOn = "fail" /\ counts["fail"] > 0
  \/ failOn = "warn" /\ (counts["fail"] > 0 \/ counts["warn"] > 0)

(* The report is written first, and a report that cannot be written ends   *)
(* the command.                                                            *)
Gate(s) ==
  /\ pc[s] = "gate"
  /\ \E written \in BOOLEAN :
       exit' = [exit EXCEPT ![s] =
                  CASE ~written -> "failed"
                    [] written /\ Breached(inv[s].failOn, summary[s].count) -> "gate"
                    [] OTHER -> "ok"]
  /\ pc' = [pc EXCEPT ![s] = "done"]
  /\ UNCHANGED <<gh, admin, inv, ctx, runs, todo, results, summary, own, drift, alert,
                 before, sawBad>>

-----------------------------------------------------------------------------
(* The client disconnects, or two minutes have passed.                     *)
ContextDone(s) ==
  /\ ~Cli(inv[s]) /\ ctx[s] = "live" /\ pc[s] \notin Final \cup {"new"}
  /\ ctx' = [ctx EXCEPT ![s] = "done"]
  /\ UNCHANGED <<gh, admin, inv, pc, runs, sessionVars>>

(* An interrupted command ends; an interrupted server ends all requests.   *)
Crash ==
  /\ \E s \in Sessions :
       /\ pc[s] \notin Final \cup {"new"}
       /\ pc' = [t \in Sessions |->
                   IF pc[t] \notin Final \cup {"new"}
                      /\ (t = s \/ (~Cli(inv[s]) /\ ~Cli(inv[t])))
                   THEN "crashed" ELSE pc[t]]
  /\ UNCHANGED <<gh, admin, inv, ctx, runs, sessionVars>>

AdminChange ==
  /\ admin < MaxAdmin
  /\ admin' = admin + 1
  /\ \E e \in Enterprises, r \in Rules :
       gh' = [gh EXCEPT ![e][r] = IF @ = "good" THEN "bad" ELSE "good"]
  /\ UNCHANGED <<inv, pc, ctx, runs, sessionVars>>

Next ==
  \/ \E s \in Sessions :
       \/ Begin(s) \/ AssessRule(s) \/ StreamStops(s) \/ ApplyPolicy(s)
       \/ Save(s) \/ SaveFails(s) \/ ComputeDrift(s) \/ DriftFails(s)
       \/ Notify(s) \/ Gate(s) \/ ContextDone(s)
  \/ Crash
  \/ AdminChange

Spec == Init /\ [][Next]_vars

-----------------------------------------------------------------------------
(* Safety.                                                                 *)

(* A scorecard that was broken off when the request's time was up never    *)
(* becomes history: a recorded run has a status for every rule its session *)
(* set out to assess (engine.AssessStream and store.SaveRun agree on the   *)
(* context).                                                               *)
RecordedRunsComplete ==
  \A k \in DOMAIN runs : Ran(runs[k].statuses) = ToRun(inv[runs[k].by])

(* What the trend, the badge and the drift read from scan_runs is the      *)
(* summary of the very rows recorded with it, waivers included.            *)
RecordedSummaryMatchesRows ==
  \A k \in DOMAIN runs : runs[k].summary = Summarize(runs[k].statuses)

(* No session is compared with another enterprise's run or with its own,   *)
(* however many sessions share the database.                               *)
DriftStaysHome ==
  \A s \in Sessions :
    drift[s].previous # 0 =>
      /\ runs[drift[s].previous].enterprise = inv[s].enterprise
      /\ runs[drift[s].previous].by # s

(* The two sessions ran one after the other, and no third recorded a run   *)
(* between them or next to the second.                                     *)
Successive(t, s) ==
  /\ t \in before[s] /\ own[t] # 0
  /\ inv[t].enterprise = inv[s].enterprise
  /\ \A k \in RunsOf(inv[s].enterprise) : k > own[t] => k = own[s]

(* A rule that passed, warned, or was waived or unknown in one run and     *)
(* fails in the next raises an alert, unless the run could not be recorded *)
(* or the database could not be read again.                                *)
NewFailuresAlert ==
  \A t, s \in Sessions :
    /\ Successive(t, s)
    /\ inv[s].notify = "alert" /\ drift[s].previous # 0 /\ pc[s] \in {"gate", "done"}
    /\ \E r \in Rules : results[s][r] = "fail"
                        /\ runs[own[t]].statuses[r] \notin {"fail", "absent"}
    => alert[s] # "none"

(* The gate lets a run pass only when everything its reads showed to be    *)
(* bad, at the level of --fail-on, is waived.                              *)
GateStopsFindings ==
  \A s \in Sessions :
    exit[s] = "ok" =>
      \A r \in sawBad[s] :
        \/ inv[s].failOn = "never"
        \/ inv[s].failOn = "fail" /\ Meta[r].warns
        \/ ActivelyWaived(inv[s].policy, r, inv[s].now)

-----------------------------------------------------------------------------
(* The promise of Chronicle.                                               *)

Promise == INSTANCE Chronicle WITH
             Authors <- Sessions,
             home <- [s \in Sessions |-> inv[s].enterprise],
             due <- [s \in Sessions |-> ToRun(inv[s])],
             ledger <- [k \in DOMAIN runs |->
                          [by |-> runs[k].by, score |-> runs[k].summary.score,
                           statuses |-> runs[k].statuses]],
             facing <- [s \in Sessions |-> drift[s].previous],
             news <- [s \in Sessions |->
                        [delta |-> drift[s].scoreDelta, worse |-> drift[s].newlyFailing,
                         better |-> drift[s].newlyFixed]]

(* The database and the drifts keep the promise, although a session saves  *)
(* and looks back in two transactions, asks for two runs and drops its own *)
(* from them, and others save in between.                                  *)
ImplementsChronicle == Promise!ChronicleSpec
=============================================================================
