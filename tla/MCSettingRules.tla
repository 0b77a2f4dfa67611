---------------------------- MODULE MCSettingRules ----------------------------
(* Small instances of SettingRules: two organizations and two users.       *)
EXTENDS SettingRules, TLC

Tight ==
  [basePerm |-> "none", twoFactor |-> TRUE, scanning |-> TRUE, push |-> TRUE,
   graph |-> TRUE, alerts |-> TRUE, updates |-> TRUE, createRepos |-> FALSE,
   createPublic |-> FALSE, forkPrivate |-> FALSE, signoff |-> TRUE,
   restricted |-> TRUE, outside |-> {}, security |-> TRUE, configs |-> 0]

(* Members may create repositories and write to all; partners are outside. *)
Loose ==
  [Tight EXCEPT !.basePerm = "write", !.createRepos = TRUE, !.security = FALSE,
                !.outside = Users]

Narrow ==
  [workflow |-> "read", approve |-> FALSE, actions |-> "selected", scope |-> "selected",
   verified |-> TRUE, rulesets |-> 1, property |-> TRUE]

Wide ==
  [Narrow EXCEPT !.approve = TRUE, !.actions = "all", !.verified = FALSE, !.rulesets = 0]

LooseOrgs == [o \in Orgs |-> IF o = 1 THEN Loose ELSE [Tight EXCEPT !.createRepos = TRUE]]
TightOrgs == [o \in Orgs |-> Tight]

MCOrgEdits == {Tight}
MCEntEdits == {[Narrow EXCEPT !.scope = "none"]}

MCOutages == {{}, {"settings", "outside", "actions"}}

Apply(rules) ==
  [rules |-> rules, dryRun |-> FALSE, writer |-> TRUE, maxOrgs |-> 0, maxOutside |-> 0,
   allow |-> {"contractor"}]

(* A bulk apply next to a session that cannot write or may read only one   *)
(* organization, in the demo as well; and pairs of sessions that write the *)
(* same settings.                                                          *)
MCWorlds ==
  LET bulk == Apply(<<>>)
      token == Apply(<<"POL-05">>)
      security == Apply(<<"SEC-07">>)
      actions == Apply(<<"POL-06">>)
      outside == Apply(<<"IDENT-04">>)
      One(i) == [i EXCEPT !.maxOrgs = 1]
      World2(d, o, e, a, b) ==
        [demo |-> d, org |-> o, ent |-> e, inv |-> [s \in Sessions |-> IF s = "s1" THEN a ELSE b]]
  IN {World2(FALSE, LooseOrgs, Narrow, bulk, One([security EXCEPT !.dryRun = TRUE])),
      World2(TRUE, LooseOrgs, Wide, bulk, [actions EXCEPT !.rules = <<"POL-06", "SEC-07">>]),
      World2(FALSE, TightOrgs, Wide, One(token), One([outside EXCEPT !.writer = FALSE])),
      World2(FALSE, LooseOrgs, Narrow, One(security), One(security)),
      World2(FALSE, TightOrgs, Wide, One(actions), One(actions)),
      World2(FALSE, LooseOrgs, Narrow, outside, One([outside EXCEPT !.maxOutside = 1]))}

(* One rule, one organization, an administrator that is faster.            *)
BasePermission ==
  {[demo |-> FALSE, org |-> LooseOrgs, ent |-> Narrow,
    inv |-> [s \in Sessions |-> Apply(<<"ORG-04">>)]]}
=============================================================================
