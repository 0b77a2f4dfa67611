--------------------------- MODULE MCApplyPipeline ---------------------------
(* Small instances of ApplyPipeline: four rules that stand for the kinds   *)
(* of remediation of the catalog, and the invocations that tell them apart.*)
EXTENDS ApplyPipeline

MCDomains == {"organizations", "policies", "enterprise"}

Base == [domain |-> "policies", severity |-> 4, remediable |-> TRUE,
         destructive |-> FALSE, warns |-> FALSE, rechecks |-> TRUE,
         unread |-> {"error"}, leaves |-> FALSE,
         perOrg |-> FALSE]

(* 1 is like ORG-04, 2 like POL-02, 3 like POL-06, 4 like REPO-03.         *)
MCMeta ==
  [r \in 1..4 |->
     CASE r = 1 -> [Base EXCEPT !.domain = "organizations", !.perOrg = TRUE,
                                !.unread = {"pass"}]
       [] r = 2 -> [Base EXCEPT !.rechecks = FALSE, !.unread = {"manual"}]
       [] r = 3 -> [Base EXCEPT !.destructive = TRUE, !.warns = TRUE, !.severity = 3]
       [] r = 4 -> [Base EXCEPT !.warns = TRUE, !.perOrg = TRUE, !.severity = 2,
                                !.leaves = TRUE, !.unread = {"error", "pass"}]]

AllRules == [ids |-> {}, domains |-> {}, minSeverity |-> 0]

NoPolicy == [disabled |-> {}, waivers |-> <<>>]

(* Rule 1 is waived twice, until day 3 and then, further down the file,    *)
(* until day 2; the waiver of rule 4 has no date.                          *)
Waiving(disabled) ==
  [disabled |-> disabled,
   waivers |-> <<[rule |-> 1, expires |-> 3], [rule |-> 1, expires |-> 2],
                 [rule |-> 4, expires |-> 0]>>]

Plain == [surface |-> "apply", list |-> <<>>, dryRun |-> FALSE,
          allowDestructive |-> FALSE, yes |-> TRUE, db |-> TRUE,
          policy |-> NoPolicy, profile |-> AllRules, now |-> 48]

(* One session alone, with every kind of invocation.                       *)
SoloInvocations ==
  LET explicit == [Plain EXCEPT !.list = <<2, 1, 2, 3>>]
      waiving == [Plain EXCEPT !.policy = Waiving({2})]
  IN {Plain,
      [Plain EXCEPT !.yes = FALSE, !.allowDestructive = TRUE],
      [Plain EXCEPT !.dryRun = TRUE],
      explicit,
      [explicit EXCEPT !.allowDestructive = TRUE, !.yes = FALSE],
      [explicit EXCEPT !.dryRun = TRUE, !.allowDestructive = TRUE],
      [explicit EXCEPT !.list = <<1, 9>>],
      waiving,
      [waiving EXCEPT !.list = <<1, 2, 4>>],
      [waiving EXCEPT !.list = <<1>>, !.now = 72],
      [waiving EXCEPT !.list = <<1>>, !.now = 73],
      [waiving EXCEPT !.surface = "dashboard", !.list = <<1, 2, 4>>],
      [Plain EXCEPT !.profile.minSeverity = 4, !.list = <<1, 4>>],
      [Plain EXCEPT !.profile.domains = {"organizations"}],
      [Plain EXCEPT !.profile.ids = {2, 4}, !.surface = "wizard"],
      [Plain EXCEPT !.surface = "wizard"],
      [Plain EXCEPT !.surface = "wizard", !.yes = FALSE],
      [Plain EXCEPT !.surface = "wizard", !.yes = FALSE, !.dryRun = TRUE],
      [Plain EXCEPT !.surface = "wizard", !.policy = Waiving({})],
      [Plain EXCEPT !.surface = "dashboard"],
      [Plain EXCEPT !.surface = "dashboard", !.dryRun = TRUE],
      [explicit EXCEPT !.surface = "dashboard", !.allowDestructive = TRUE],
      [Plain EXCEPT !.surface = "dashboard", !.list = <<9, 2>>],
      [Plain EXCEPT !.db = FALSE]}

(* Two sessions at once, one rule that warns of more than it changes and  *)
(* one that does not check before it writes.                               *)
PairRules == 1..2
PairMeta == <<[MCMeta[4] EXCEPT !.unread = {"error"}], MCMeta[2]>>
PairInvocations ==
  LET unrecorded == [Plain EXCEPT !.db = FALSE]
  IN {unrecorded, [unrecorded EXCEPT !.list = <<1, 1>>, !.surface = "dashboard",
                                       !.profile.ids = {1}]}

(* A policy that disables every rule.                                      *)
DisablingInvocations ==
  {[Plain EXCEPT !.policy.disabled = 1..4],
   [Plain EXCEPT !.policy.disabled = {2}, !.profile.ids = {2}]}
=============================================================================
