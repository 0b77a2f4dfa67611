-------------------------------- MODULE MCCached --------------------------------
(* A small instance of Cached: two organizations prefetched by one worker *)
(* at a time, and perhaps a reader that meets the worker at its keys.      *)
EXTENDS Cached

CONSTANTS a, b

MCOrgs == {a, b}
MCOrgList == <<b, a>>

OrgKeys == {<<"OrgSettings", o>> : o \in Orgs} \cup {<<"OrgRepos", o>> : o \in Orgs}
MCKeys == {<<"Organizations">>, <<"CopilotSeats">>} \cup OrgKeys
MCListKey == <<"Organizations">>
MCSettings == [o \in Orgs |-> <<"OrgSettings", o>>]
MCRepos == [o \in Orgs |-> <<"OrgRepos", o>>]
MCPassKeys == {<<"CostCenters">>}
MCOffered == (MCKeys \cup MCPassKeys) \ {<<"CopilotSeats">>}

Ask1(k, all) == [key |-> k, all |-> all]

(* The rules read what Prefetch has read, and more; IS-01 wants all the    *)
(* repositories, TEAM-01 the configured number.                            *)
RulePlans ==
  {<<Ask1(<<"OrgRepos", a>>, TRUE), Ask1(<<"CostCenters">>, TRUE)>>,
   <<Ask1(<<"CopilotSeats">>, TRUE), Ask1(<<"OrgSettings", b>>, TRUE)>>}
=============================================================================
