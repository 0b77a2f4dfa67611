------------------------- MODULE MCAssessmentHistory -------------------------
(* A small instance of AssessmentHistory: two sessions of one enterprise   *)
(* or two.                                                                 *)
EXTENDS AssessmentHistory, TLC

AnySession == Permutations(Sessions)

MCDomains == {"policies", "organizations"}

Base == [domain |-> "policies", severity |-> 4, remediable |-> TRUE,
         destructive |-> FALSE, warns |-> FALSE, rechecks |-> TRUE,
         unread |-> {"manual"}, leaves |-> FALSE, perOrg |-> FALSE]

(* 1 is like POL-05, 2 like IDENT-07.                                      *)
MCMeta == <<Base, [Base EXCEPT !.warns = TRUE, !.unread = {"error"}, !.severity = 3]>>

AllRules == [ids |-> {}, domains |-> {}, minSeverity |-> 0]

Only(r) == [AllRules EXCEPT !.ids = {r}]

NoPolicy == [disabled |-> {}, waivers |-> <<>>]

WaivingOne == [disabled |-> {}, waivers |-> <<[rule |-> 1, expires |-> 2]>>]

Plain == [surface |-> "assess", enterprise |-> "acme", db |-> TRUE,
          notify |-> "alert", failOn |-> "warn", policy |-> NoPolicy,
          profile |-> Only(1), now |-> 48]

Posted == [Plain EXCEPT !.surface = "post", !.notify = "never", !.failOn = "never"]

(* The waiver of rule 1 holds until hour 72 and has expired at 73.         *)
Waived == [Plain EXCEPT !.policy = WaivingOne, !.now = 72]

(* Most assess one of the rules, so that two of them have rules in common  *)
(* or none.                                                                *)
PairInvocations ==
  {[Waived EXCEPT !.now = 73],
   [Waived EXCEPT !.failOn = "fail"],
   [Plain EXCEPT !.profile = Only(2), !.failOn = "fail"],
   [Plain EXCEPT !.surface = "action", !.db = FALSE, !.notify = "always", !.failOn = "never"],
   [Posted EXCEPT !.surface = "stream", !.profile = AllRules],
   [Posted EXCEPT !.enterprise = "beta"]}
=============================================================================
