-------------------------- MODULE MCIdentityCampaign --------------------------
(* Small instances of IdentityCampaign: two organizations, three accounts, *)
(* of which the third is no member at first, and three addresses; the      *)
(* third address is at a domain that only the policy knows.                *)
EXTENDS IdentityCampaign

MCDomainOf == [a \in Addrs |-> IF a = 3 THEN "partner" ELSE "acme"]

All == [ok |-> TRUE, lines |-> Addrs]
Nothing == [ok |-> FALSE, lines |-> {}]

(* Members are to drop their addresses; both imports are there.            *)
Forbidding ==
  [rules |-> Rules, waived |-> {}, forbid |-> TRUE, allow |-> {},
   approved |-> {}, roster |-> [ok |-> TRUE, lines |-> {1}], trace |-> All, maxOrgs |-> 0,
   out |-> TRUE, known |-> TRUE, email |-> "on"]

(* Members are to have an address; the second is exempt.                    *)
Identifying ==
  [Forbidding EXCEPT !.forbid = FALSE, !.allow = {2}, !.approved = {"partner"}, !.out = FALSE]

Acme(p) ==
  [members |-> [o \in Orgs |-> IF o = 1 THEN {1, 2} ELSE {1}],
   emails |-> [l \in Logins |-> IF l = 1 THEN {} ELSE IF l = 2 THEN {1, 2} ELSE {3}],
   links |-> {<<1, None>>, <<2, 1>>, <<None, 3>>}, verified |-> {"acme"},
   signals |-> [d \in Domains |-> {1, 3}], policy |-> p]

MCWorlds ==
  {Acme(Forbidding), Acme(Identifying),
   Acme([Forbidding EXCEPT !.maxOrgs = 1, !.known = FALSE]),
   Acme([Identifying EXCEPT !.waived = {10}, !.email = "unset"]),
   [Acme([Identifying EXCEPT !.roster = Nothing, !.trace = Nothing]) EXCEPT !.verified = {}]}
=============================================================================
