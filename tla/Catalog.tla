------------------------------- MODULE Catalog -------------------------------
(***************************************************************************)
(* The decisions every command of ghe-wizard takes about rules: which of   *)
(* the registered rules run (policy, then profile, then the engine's       *)
(* default), which findings a waiver silences, and which rules a bulk      *)
(* remediation targets, and how a rule reports what it read.  They are     *)
(* pure: the state machines that use them are ApplyPipeline and            *)
(* AssessmentHistory.                                                      *)
(*                                                                         *)
(* A rule is the natural number of its ID in ID order; a severity is its   *)
(* rank (severityRank in profile.go), 0 for a name that has none.          *)
(***************************************************************************)
EXTENDS Naturals, Sequences

CONSTANTS
  Rules,     \* the registered rules (rules.registry)
  Domains,   \* the rule domains
  Meta       \* Meta[r]: what the catalog declares about rule r

MetaType ==
  [domain: Domains, severity: 0..5,
   remediable: BOOLEAN,    \* has a remediation
   destructive: BOOLEAN,   \* the remediation removes people, access or seats
   warns: BOOLEAN,         \* a bad state is reported as warn, not as fail
   unread: SUBSET {"manual", "error", "pass"},   \* reported when a read fails
   rechecks: BOOLEAN,      \* RemediateFn acts only where its read shows a bad state
   leaves: BOOLEAN,        \* reports more than its remediation changes
   perOrg: BOOLEAN]        \* the write is a loop over organizations

ASSUME CatalogAssumption ==
  /\ Rules \subseteq Nat \ {0}
  /\ Meta \in [Rules -> MetaType]
  /\ \A r \in Rules : Meta[r].destructive => Meta[r].remediable
  /\ \A r \in Rules : Meta[r].unread # {}

Status == {"pass", "fail", "warn", "manual", "error", "skipped", "waived"}

Finding == {"fail", "warn"}

(* A rule that did not run has no result; "absent" stands for that.        *)
Results == [Rules -> Status \cup {"absent"}]

Ran(results) == {r \in Rules : results[r] # "absent"}

(* How GitHub stands by a rule: "good" when there is nothing to report,    *)
(* "bad" when there is something the remediation changes.  By a rule that  *)
(* reports more than that, "rest" is what the remediation leaves alone:    *)
(* REPO-03 warns of members who create any repository and turns off the    *)
(* public ones only.                                                       *)
Standing(r) == {"good", "bad"} \cup {x \in {"rest"} : Meta[r].leaves}

(* What the reads of a rule returned: how GitHub stands, or, of a loop     *)
(* over organizations that could not read one of them, what it saw in the  *)
(* others, "partly" the bad and "partlyRest" the rest.                     *)
InPart == {"partly", "partlyRest"}

View == {"unread", "good", "bad", "rest", "unreadable"} \cup InPart

(* How the rule's AssessFn reports that.  A read that failed is reported   *)
(* differently per rule: as manual, as error, or as pass by the rules that *)
(* skip the organizations they cannot read.                                *)
Outcome(r, v) ==
  CASE v = "good" -> {"pass"}
    [] v \in {"bad", "rest"} \cup InPart -> {IF Meta[r].warns THEN "warn" ELSE "fail"}
    [] OTHER -> Meta[r].unread

-----------------------------------------------------------------------------
(* Waivers.  Days and hours are counted from a common origin; expires = 0  *)
(* stands for a waiver without a date, or with one that does not parse.    *)

Waiver == [rule: Nat, expires: Nat]

Policy == [disabled: SUBSET Nat, waivers: Seq(Waiver)]

(* Mutant: the day of expiry is already too late.                          *)
ExpiredOnTheDay(w, now) == w.expires # 0 /\ now > 24 * w.expires

(* The date is read as its midnight, and a waiver holds for 24 hours more. *)
Expired(w, now) == w.expires # 0 /\ now > 24 * w.expires + 24

(* The index keeps one waiver per rule, the last one of the file.          *)
InForce(pol, r) ==
  {pol.waivers[k] : k \in {j \in DOMAIN pol.waivers :
      /\ pol.waivers[j].rule = r
      /\ \A i \in DOMAIN pol.waivers : i > j => pol.waivers[i].rule # r}}

ActivelyWaived(pol, r, now) == \E w \in InForce(pol, r) : ~Expired(w, now)

ApplyWaivers(pol, now, results) ==
  [r \in Rules |->
     IF results[r] \in Finding /\ ActivelyWaived(pol, r, now)
     THEN "waived" ELSE results[r]]

-----------------------------------------------------------------------------
(* Which rules run.                                                        *)

Profile == [ids: SUBSET Nat, domains: SUBSET Domains, minSeverity: 0..5]

FilterRules(pol, all) == all \ pol.disabled

Matches(prof, r) ==
  /\ prof.ids # {} => r \in prof.ids
  /\ prof.domains # {} => Meta[r].domain \in prof.domains
  /\ prof.minSeverity # 0 =>
       Meta[r].severity # 0 /\ Meta[r].severity >= prof.minSeverity

ProfileFilter(prof, all) == {r \in all : Matches(prof, r)}

(* A command without a profile has the one whose three selections are      *)
(* empty, which is the built-in "baseline".                                *)
RulesToRun(pol, prof) == ProfileFilter(prof, FilterRules(pol, Rules))

(* Engine.Assess and AssessStream: an empty selection means every rule.    *)
RulesAssessed(toRun) == IF toRun = {} THEN Rules ELSE toRun

-----------------------------------------------------------------------------
(* Which rules a run may remediate when nobody named any.                  *)

(* Mutant: only failures count, warnings are left as they are.             *)
RemediableFailuresOnly(results) ==
  {r \in Rules : /\ results[r] = "fail"
                 /\ Meta[r].remediable
                 /\ ~Meta[r].destructive}

RemediableFailures(results) ==
  {r \in Rules : /\ results[r] \in Finding
                 /\ Meta[r].remediable
                 /\ ~Meta[r].destructive}

WizardTargets(results) ==
  {r \in Rules : /\ results[r] = "fail"
                 /\ Meta[r].remediable
                 /\ ~Meta[r].destructive}
=============================================================================
