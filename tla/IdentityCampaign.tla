--------------------------- MODULE IdentityCampaign ---------------------------
(***************************************************************************)
(* ghe-wizard identity warn: campaigns, one after the other, that assess   *)
(* the identity rules, collect from their evidence whom to warn, write the *)
(* list to a file and mail those with a known mailbox.  What a rule asks   *)
(* GitHub is kept for the rules after it; meanwhile people join, leave and *)
(* do what an earlier mail asked of them.                                  *)
(***************************************************************************)
EXTENDS Integers, FiniteSets

CONSTANTS
  Orgs,          \* the organizations, as numbers in the order they are listed
  Logins,        \* the accounts, as numbers in the order of GitHub's listings
  Addrs,         \* mail addresses, as numbers in their order
  Domains,
  DomainOf,      \* the domain of an address
  PageSize,      \* how many members a page of a listing holds
  Worlds,        \* what may hold at first, and the policy and flags of the campaigns
  MaxChanges,    \* bound: changes people make
  MaxCampaigns   \* bound: campaigns

None == 0

(* A rule is the number of its ID; IDENT-05 is 5.                          *)
Rules == {3, 5, 7, 8, 9, 10}

(* An account and one of its addresses, or an SSO identity and its name.   *)
Accounts == (Logins \cup {None}) \X (Addrs \cup {None})

(* A file of the policy: whether it is given and can be parsed.            *)
Import == [ok: BOOLEAN, lines: SUBSET Addrs]

(* The policy (rules that run, those under a waiver, the identity section, *)
(* max_orgs) and the flags --out, --format and --email with its relay.     *)
Policy ==
  [rules: SUBSET Rules, waived: SUBSET Rules, forbid: BOOLEAN, allow: SUBSET Logins,
   approved: SUBSET Domains, roster: Import, trace: Import, maxOrgs: Nat,
   out: BOOLEAN, known: BOOLEAN, email: {"off", "unset", "on"}]

World ==
  [members: [Orgs -> SUBSET Logins], emails: [Logins -> SUBSET Addrs],
   links: SUBSET Accounts, verified: SUBSET Domains,
   signals: [Domains -> SUBSET Logins], policy: Policy]

ASSUME CampaignAssumption ==
  /\ Orgs \subseteq Nat \ {0} /\ IsFiniteSet(Orgs)
  /\ Logins \subseteq Nat \ {0} /\ IsFiniteSet(Logins)
  /\ Addrs \subseteq Nat \ {0} /\ IsFiniteSet(Addrs)
  /\ DomainOf \in [Addrs -> Domains]
  /\ PageSize \in Nat \ {0} /\ MaxChanges \in Nat /\ MaxCampaigns \in Nat
  /\ Worlds \subseteq World

VARIABLES
  members,     \* the members of an organization
  emails,      \* the addresses of an account, each of one account only
  links,       \* the SSO identities: the account, if linked, and the name
  verified,    \* the domains verified on GitHub
  signals,     \* the accounts that show a domain in public
  policy,      \* of all campaigns
  changes,     \* the number of changes people have made
  campaigns,   \* the number of campaigns begun
  pc,          \* where the campaign is
  todo,        \* the rules still to be assessed
  asked,       \* the cache: of "list", "domains" and "sso", what GitHub was asked ...
  answered,    \* ... and what it answered
  listed,      \* ... the organizations
  read,        \* ... those whose members were read to the end
  unread,      \* ... those where that failed
  inventory,   \* ... the members read there, each with its addresses
  domains,     \* ... the corporate domains
  sso,         \* ... the SSO identities
  cursor,      \* the last member of the last page of a listing
  page,        \* the pages of the listing so far
  found,       \* the evidence of the rules with a finding
  targets,     \* whom to warn
  left,        \* those the mails have not come to yet
  file,        \* the targets in the file of the last campaign that wrote it
  sent, skipped, failed,   \* what the mailing counts, and whether it stopped
  mails,       \* history: the mails that were delivered
  touched,     \* history: accounts changed since the campaign began
  dropped      \* history: addresses dropped, and during or after which campaign

world == <<members, emails, links, verified, signals>>
cache == <<asked, answered, listed, read, unread, inventory, domains, sso, cursor, page>>
mailing == <<targets, left, file, sent, skipped, failed, mails>>
vars == <<world, policy, changes, campaigns, pc, todo, cache, found, mailing, touched, dropped>>

(* The rule gives the population.                                          *)
Target == [rule: {7, 8, 9, 10}, login: Logins \cup {None}, addrs: SUBSET Addrs]

TypeOK ==
  /\ members \in [Orgs -> SUBSET Logins] /\ emails \in [Logins -> SUBSET Addrs]
  /\ links \subseteq Accounts /\ verified \subseteq Domains
  /\ signals \in [Domains -> SUBSET Logins]
  /\ policy \in Policy /\ changes \in 0..MaxChanges /\ campaigns \in 0..MaxCampaigns
  /\ pc \in {"idle", "list", "assess", "write", "mail", "hung"}
  /\ todo \subseteq Rules
  /\ asked \subseteq {"list", "domains", "sso"} /\ answered \subseteq asked
  /\ listed \subseteq Orgs /\ read \subseteq listed /\ unread \subseteq listed \ read
  /\ inventory \subseteq Accounts /\ page \subseteq Accounts /\ sso \subseteq Accounts
  /\ domains \subseteq Domains
  /\ cursor \in Logins \cup {None}
  /\ found \in [Rules -> SUBSET Accounts]
  /\ targets \subseteq Target /\ left \subseteq targets /\ file \subseteq Target
  /\ sent \in Nat /\ skipped \in Nat /\ failed \in BOOLEAN
  /\ mails \subseteq [campaign: 1..MaxCampaigns, target: Target, to: Addrs]
  /\ touched \subseteq Logins
  /\ dropped \subseteq Logins \X Addrs \X (0..MaxCampaigns)

-----------------------------------------------------------------------------
(* What the rules make of what was read.                                   *)

Members == {x[1] : x \in inventory}

(* The inventory holds the accounts' addresses, None for an account        *)
(* without one.                                                            *)
Carried == {x \in inventory : x[2] # None}

Known == {x[2] : x \in Carried}

(* The members are unknown without the list of organizations, and where    *)
(* nobody was read and an organization was not.                            *)
InventoryKnown == "list" \in answered /\ (inventory # {} \/ unread = {})

Exempt(l) == l \in policy.allow

(* Members without a corporate address in any organization.                *)
Without ==
  {<<l, None>> : l \in {m \in Members : ~Exempt(m) /\ \A x \in Carried : x[1] # m}}

Unlinked ==
  {<<l, None>> : l \in {m \in Members : ~Exempt(m) /\ \A i \in sso : i[1] # m}}

Carriers == {x \in Carried : ~Exempt(x[1])}

(* Of the accounts the two searches for each domain show, those that are   *)
(* no members (nobody is, if the organizations cannot be listed).          *)
Suspects(shown) ==
  {<<l, None>> : l \in {m \in UNION {signals[d] : d \in shown} : ~Exempt(m) /\ m \notin Members}}

Departed ==
  {i \in sso : i[2] # None /\ i[2] \notin policy.roster.lines /\ ~Exempt(i[1])}

Unknown ==
  {<<None, a>> : a \in {b \in policy.trace.lines : DomainOf[b] \in domains /\ b \notin Known}}

(* The evidence of a finding; {} for a pass and for "manual", "error" and  *)
(* "skipped".  Searches may be refused, domain by domain.                  *)
Evidence(r, shown) ==
  CASE r = 3 /\ ~policy.forbid /\ domains # {} /\ InventoryKnown -> Without
    [] r = 5 /\ {"sso", "list"} \subseteq answered -> Unlinked
    [] r = 7 /\ policy.forbid /\ domains # {} /\ InventoryKnown -> Carriers
    [] r = 8 /\ domains # {} -> Suspects(shown)
    [] r = 9 /\ policy.roster.ok /\ "sso" \in answered -> Departed
    [] r = 10 /\ policy.trace.ok /\ domains # {} /\ InventoryKnown -> Unknown
    [] OTHER -> {}

(* What a rule asks for before it decides, each only if what comes before  *)
(* it gave it a reason to go on.                                           *)
WantsDomains(r) ==
  r \in {7, 8} \/ (r = 3 /\ ~policy.forbid) \/ (r = 10 /\ policy.trace.ok)

WantsSSO(r) == r = 5 \/ (r = 9 /\ policy.roster.ok)

WantsMembers(r) ==
  \/ WantsDomains(r) /\ "domains" \in asked /\ domains # {}
  \/ r = 5 /\ "sso" \in answered

-----------------------------------------------------------------------------
Init ==
  /\ \E w \in Worlds : /\ members = w.members /\ emails = w.emails /\ links = w.links
                       /\ verified = w.verified /\ signals = w.signals /\ policy = w.policy
  /\ changes = 0 /\ campaigns = 0 /\ pc = "idle" /\ todo = {}
  /\ asked = {} /\ answered = {} /\ listed = {} /\ read = {} /\ unread = {}
  /\ inventory = {} /\ domains = {} /\ sso = {} /\ cursor = None /\ page = {}
  /\ found = [r \in Rules |-> {}]
  /\ targets = {} /\ left = {} /\ file = {} /\ sent = 0 /\ skipped = 0 /\ failed = FALSE
  /\ mails = {} /\ touched = {} /\ dropped = {}

(* Mutant: the cache outlives the campaign.                                *)
NewCacheKept == UNCHANGED <<asked, answered, listed, read, unread, inventory, domains, sso>>

NewCache ==
  /\ asked' = {} /\ answered' = {} /\ listed' = {} /\ read' = {} /\ unread' = {}
  /\ inventory' = {} /\ domains' = {} /\ sso' = {}

(* A campaign with an engine and a cache of its own; without an identity   *)
(* rule to run there is none.                                              *)
Begin ==
  /\ pc = "idle" /\ campaigns < MaxCampaigns /\ policy.rules # {}
  /\ campaigns' = campaigns + 1
  /\ pc' = "list" /\ todo' = policy.rules
  /\ NewCache /\ cursor' = None /\ page' = {}
  /\ found' = [r \in Rules |-> {}]
  /\ targets' = {} /\ left' = {} /\ sent' = 0 /\ skipped' = 0 /\ failed' = FALSE
  /\ touched' = {}
  /\ UNCHANGED <<world, policy, changes, file, mails, dropped>>

(* Prefetch lists the first organizations that max_orgs admits.            *)
List ==
  /\ pc = "list" /\ pc' = "assess"
  /\ \E ok \in BOOLEAN :
       /\ asked' = asked \cup {"list"}
       /\ answered' = IF ok THEN answered \cup {"list"} ELSE answered
       /\ listed' = IF ~ok THEN listed
                    ELSE {o \in Orgs : \/ policy.maxOrgs = 0
                                       \/ Cardinality({p \in Orgs : p <= o}) <= policy.maxOrgs}
  /\ UNCHANGED <<world, policy, changes, campaigns, todo, read, unread, inventory, domains,
                 sso, cursor, page, found, mailing, touched, dropped>>

Current(r) == pc = "assess" /\ r \in todo /\ \A q \in todo : r <= q

(* Without an answer the corporate domains are those of the policy.        *)
ReadDomains(r) ==
  /\ Current(r) /\ WantsDomains(r) /\ "domains" \notin asked
  /\ asked' = asked \cup {"domains"}
  /\ \/ /\ domains' = policy.approved \cup verified
        /\ answered' = answered \cup {"domains"}
     \/ domains' = policy.approved /\ UNCHANGED answered
  /\ UNCHANGED <<world, policy, changes, campaigns, pc, todo, listed, read, unread, inventory,
                 sso, cursor, page, found, mailing, touched, dropped>>

ReadSSO(r) ==
  /\ Current(r) /\ WantsSSO(r) /\ "sso" \notin asked
  /\ asked' = asked \cup {"sso"}
  /\ \/ sso' = links /\ answered' = answered \cup {"sso"}
     \/ UNCHANGED <<sso, answered>>
  /\ UNCHANGED <<world, policy, changes, campaigns, pc, todo, listed, read, unread, inventory,
                 domains, cursor, page, found, mailing, touched, dropped>>

(* GitHub shows a member's addresses at verified domains only.             *)
Shown(l) ==
  LET own == {a \in emails[l] : DomainOf[a] \in verified}
  IN {<<l, a>> : a \in IF own = {} THEN {None} ELSE own}

(* The members of o that are listed after the cursor; the next page has    *)
(* the first of them.                                                      *)
Ahead(o) == {l \in members[o] : l > cursor}

NextPage(o) == {l \in Ahead(o) : Cardinality({m \in Ahead(o) : m <= l}) <= PageSize}

(* Mutant: a listing ends with its first page.                             *)
MoreNever(o) == FALSE

More(o) == Ahead(o) # NextPage(o)

(* Mutant: a listing that fails is started again.                          *)
UnreadableAgain(o) == unread

Unreadable(o) == unread \cup {o}

(* A page of an organization's members.  If it fails, so does the whole    *)
(* organization, whatever pages came before it.                            *)
ReadPage(r) ==
  /\ Current(r) /\ WantsMembers(r)
  /\ \E o \in listed \ (read \cup unread) :
       LET pages == page \cup UNION {Shown(l) : l \in NextPage(o)}
       IN /\ \A p \in listed \ (read \cup unread) : o <= p
          /\ \/ /\ unread' = Unreadable(o) /\ cursor' = None /\ page' = {}
                /\ UNCHANGED <<read, inventory>>
             \/ /\ ~More(o)
                /\ read' = read \cup {o} /\ cursor' = None /\ page' = {}
                /\ inventory' = inventory \cup pages
                /\ UNCHANGED unread
             \/ /\ More(o) /\ page' = pages
                /\ cursor' \in NextPage(o) /\ \A l \in NextPage(o) : l <= cursor'
                /\ UNCHANGED <<read, unread, inventory>>
  /\ UNCHANGED <<world, policy, changes, campaigns, pc, todo, asked, answered, listed, domains,
                 sso, found, mailing, touched, dropped>>

(* Mutant: every rule asks anew.                                           *)
KeepListOnly ==
  /\ asked' = asked \cap {"list"} /\ answered' = answered \cap {"list"}
  /\ read' = {} /\ unread' = {} /\ inventory' = {} /\ domains' = {} /\ sso' = {}
  /\ UNCHANGED <<listed, cursor, page>>

KeepCache == UNCHANGED cache

(* A rule that has what it asks for decides.                               *)
Assess(r) ==
  /\ Current(r)
  /\ WantsDomains(r) => "domains" \in asked
  /\ WantsSSO(r) => "sso" \in asked
  /\ WantsMembers(r) => listed = read \cup unread
  /\ \E shown \in SUBSET domains : found' = [found EXCEPT ![r] = Evidence(r, shown)]
  /\ todo' = todo \ {r}
  /\ KeepCache
  /\ UNCHANGED <<world, policy, changes, campaigns, pc, mailing, touched, dropped>>

(* The rows of a rule's evidence: for IDENT-07 one for each account.       *)
Rows(r) ==
  IF r = 7
  THEN {[rule |-> 7, login |-> l, addrs |-> {x[2] : x \in {y \in found[7] : y[1] = l}}] :
          l \in {x[1] : x \in found[7]}}
  ELSE {[rule |-> r, login |-> x[1], addrs |-> {x[2]} \ {None}] : x \in found[r]}

(* Nobody to warn ends the campaign, and so does an unknown format.        *)
Collect ==
  /\ pc = "assess" /\ todo = {}
  /\ targets' = UNION {Rows(r) : r \in {7, 8, 9, 10} \ policy.waived}
  /\ left' = targets'
  /\ pc' = IF targets' = {} \/ ~policy.known THEN "idle" ELSE "write"
  /\ UNCHANGED <<world, policy, changes, campaigns, todo, cache, found, file, sent, skipped,
                 failed, mails, touched, dropped>>

(* Mutant: a file that cannot be written is a warning, as a webhook is.    *)
AfterFileAnyway(ok) == IF policy.email = "on" THEN "mail" ELSE "idle"

AfterFile(ok) == IF ok /\ policy.email = "on" THEN "mail" ELSE "idle"

(* The list goes to the file, or to the terminal, and a summary to a       *)
(* webhook, whose failure is a warning.  A write that fails may have       *)
(* emptied the file.                                                       *)
WriteFile ==
  /\ pc = "write"
  /\ \E ok \in BOOLEAN :
       /\ ~policy.out => ok
       /\ file' \in IF ~policy.out THEN {file} ELSE IF ok THEN {targets} ELSE {file, {}}
       /\ pc' = AfterFile(ok)
  /\ UNCHANGED <<world, policy, changes, campaigns, todo, cache, found, targets, left, sent,
                 skipped, failed, mails, touched, dropped>>

(* Members, public signals, confirmed signups, departed; in order of their *)
(* names, which leaves open the one of departed identities.                *)
Place(r) == CASE r = 7 -> 1 [] r = 8 -> 2 [] r = 10 -> 3 [] OTHER -> 4

Precedes(t, u) ==
  \/ Place(t.rule) < Place(u.rule)
  \/ /\ t.rule = u.rule
     /\ t.rule \in {7, 8} => t.login <= u.login
     /\ t.rule = 10 => \A a \in t.addrs, b \in u.addrs : a <= b

(* Mutant: without a mailbox the mail goes to an empty address.            *)
MailboxOrNone(t) == IF t.addrs = {} THEN {None} ELSE t.addrs

(* The first address of a member, in an order of GitHub's; a departed      *)
(* identity's name only if it stands alone in its label.                   *)
Mailbox(t) == IF t.rule = 9 /\ t.login # None THEN {} ELSE t.addrs

(* Mutant: a mail that fails does not stop the others.                     *)
AfterMailNext(outcome) == IF outcome = "silent" THEN "hung" ELSE "mail"

AfterMail(outcome) ==
  CASE outcome = "sent" -> "mail" [] outcome = "error" -> "idle" [] outcome = "silent" -> "hung"

(* One mail, or none without a mailbox.  The relay may have taken a mail   *)
(* although it answers with an error, or never: nothing limits the time    *)
(* the campaign waits, so that only a kill ends it then.                   *)
Mail ==
  /\ pc = "mail"
  /\ \E t \in left :
       /\ \A u \in left : Precedes(t, u)
       /\ left' = left \ {t}
       /\ \/ /\ Mailbox(t) = {} /\ skipped' = skipped + 1
             /\ UNCHANGED <<pc, sent, failed, mails>>
          \/ \E a \in Mailbox(t), outcome \in {"sent", "error", "silent"}, taken \in BOOLEAN :
               /\ outcome = "sent" => taken
               /\ sent' = IF outcome = "sent" THEN sent + 1 ELSE sent
               /\ failed' = (outcome = "error")
               /\ mails' = IF taken
                           THEN mails \cup {[campaign |-> campaigns, target |-> t, to |-> a]}
                           ELSE mails
               /\ pc' = AfterMail(outcome)
               /\ UNCHANGED skipped
  /\ UNCHANGED <<world, policy, changes, campaigns, todo, cache, found, targets, file, touched,
                 dropped>>

Finish ==
  /\ pc = "mail" /\ left = {} /\ pc' = "idle"
  /\ UNCHANGED <<world, policy, changes, campaigns, todo, cache, found, mailing, touched, dropped>>

(* The process and what it counted are gone; the file and the mails stay.  *)
Crash ==
  /\ pc # "idle" /\ pc' = "idle"
  /\ targets' = {} /\ left' = {} /\ sent' = 0 /\ skipped' = 0 /\ failed' = FALSE
  /\ found' = [r \in Rules |-> {}] /\ todo' = {}
  /\ UNCHANGED <<world, policy, changes, campaigns, cache, file, mails, touched, dropped>>

(* People: one drops an address, leaves or joins an organization, or an    *)
(* identity of the provider is linked or unlinked.                         *)
Change ==
  /\ changes < MaxChanges /\ changes' = changes + 1
  /\ \E l \in Logins :
       /\ touched' = touched \cup {l}
       /\ \/ \E a \in emails[l] :
               /\ emails' = [emails EXCEPT ![l] = @ \ {a}]
               /\ dropped' = dropped \cup {<<l, a, campaigns>>}
               /\ UNCHANGED <<members, links>>
          \/ \E o \in Orgs :
               /\ members' = [members EXCEPT ![o] = IF l \in @ THEN @ \ {l} ELSE @ \cup {l}]
               /\ UNCHANGED <<emails, links, dropped>>
          \/ \E i \in links :
               /\ i[1] \in {l, None}
               /\ links' = (links \ {i}) \cup {<<IF i[1] = l THEN None ELSE l, i[2]>>}
               /\ UNCHANGED <<members, emails, dropped>>
  /\ UNCHANGED <<verified, signals, policy, campaigns, pc, todo, cache, found, mailing>>

Step ==
  \/ List
  \/ \E r \in Rules : ReadDomains(r) \/ ReadSSO(r) \/ ReadPage(r) \/ Assess(r)
  \/ Collect \/ WriteFile \/ Mail \/ Finish

Next == Begin \/ Step \/ Crash \/ Change

(* A campaign goes on: its requests end (RestClient), and so does a write  *)
(* to a file.  An exchange with the relay need not: Mail may leave the     *)
(* campaign hung, where no step is left to it.                             *)
Spec == Init /\ [][Next]_vars /\ WF_vars(Step)

-----------------------------------------------------------------------------
(* Safety.                                                                 *)

(* The campaign stops at the first mail that cannot be sent: whoever was   *)
(* mailed comes before everyone the mailing did not come to, the mails are *)
(* those counted as sent and at most the one that stopped it, with an      *)
(* error or by no answer at all, and sent, skipped and stopped account for *)
(* everyone else.                                                          *)
CountsTellTheTruth ==
  LET mine == {m \in mails : m.campaign = campaigns}
      stop == IF failed \/ pc = "hung" THEN 1 ELSE 0
  IN (pc # "idle" \/ targets # {}) =>
       /\ sent + skipped + stop + Cardinality(left) = Cardinality(targets)
       /\ Cardinality(mine) \in sent..(sent + stop)
       /\ \A m \in mine : \A t \in left : Precedes(m.target, t)

(* Whoever a campaign with --out has mailed is on its list, even if it was *)
(* killed half way or the file could not be written.                       *)
MailedAreOnRecord ==
  policy.out => \A m \in mails : m.campaign = campaigns => m.target \in file

(* The rules of one assessment agree, whatever people do between two of    *)
(* them: no address is a member's and an unknown one, no account is        *)
(* unlinked and linked to a departed identity, and no member is suspected  *)
(* to be a stranger.                                                       *)
RulesAgree ==
  /\ \A x \in found[7], y \in found[10] : x[2] # y[2]
  /\ \A x \in found[5], y \in found[9] : x[1] # y[1]
  /\ \A x \in found[3] \cup found[5] \cup found[7], y \in found[8] : x[1] # y[1]

(* A confirmed signup is nobody's that was a member throughout, exempt or  *)
(* not, if every organization was read and the domain is verified.         *)
StrangersWhenAllRead ==
  read = Orgs =>
    \A t \in targets : t.rule = 10 =>
      \A l \in Logins \ touched, a \in t.addrs :
        ~(a \in emails[l] /\ DomainOf[a] \in verified /\ \E o \in Orgs : l \in members[o])

(* Who has dropped an address before a campaign began is not mailed there  *)
(* by it as a member.                                                      *)
CompliedNotWarnedAgain ==
  \A m \in mails : m.target.rule = 7 =>
    \A d \in dropped : d[1] = m.target.login /\ d[2] = m.to => d[3] >= m.campaign

(* How far a campaign is.                                                  *)
Stage == CASE pc = "list" -> 1 [] pc = "assess" -> 2 [] pc = "write" -> 3
           [] pc = "mail" -> 4 [] pc = "hung" -> 5 [] OTHER -> 6

Tried == read \cup unread

(* What a campaign has asked, read, assessed or mailed it does not ask,    *)
(* read, assess or mail again, and each step does one of these, turns a    *)
(* page or goes on to what comes next, even if that is to wait for a relay *)
(* that never answers: pages that fail, members who join or leave between  *)
(* two pages and mails that are lost keep it from nothing.                 *)
CampaignsGoForward ==
  [][Step =>
       \/ Stage' > Stage
       \/ /\ Stage' = Stage
          /\ todo' \subseteq todo /\ asked \subseteq asked'
          /\ Tried \subseteq Tried' /\ left' \subseteq left
          /\ \/ todo' # todo \/ asked' # asked \/ Tried' # Tried \/ left' # left
             \/ cursor' > cursor]_vars

-----------------------------------------------------------------------------
(* Campaigns keep the promise of Outbox, whatever is read for them.        *)

Phase ==
  CASE pc = "idle" -> "over"
    [] pc \in {"list", "assess"} -> "filling"
    [] pc = "write" -> "sealed"
    [] pc \in {"mail", "hung"} -> "mailing"

Delivered == {<<m.campaign, m.target>> : m \in mails}

Promise ==
  INSTANCE Outbox WITH
    Items <- Target, Before <- Precedes, keeps <- policy.out, round <- campaigns,
    phase <- Phase, batch <- targets, waiting <- left, shelf <- file, fault <- failed,
    delivered <- Delivered

(* However a campaign's listings, its file and its relay fail, wherever it *)
(* is killed and whoever changes what meanwhile, its steps are those of    *)
(* Outbox: nobody is mailed before the list is complete and on record, no  *)
(* entry of it is mailed twice by one campaign (who is on it twice, under  *)
(* two findings, may get two mails), and none after one whose mail failed. *)
ImplementsOutbox == Promise!OutboxSpec

-----------------------------------------------------------------------------
(* Liveness.                                                               *)

(* Whatever fails, a campaign ends, or waits for the answer of a relay     *)
(* that never gives it; nothing else can hold it up, and who is left then  *)
(* is not mailed.                                                          *)
CampaignsEndOrHang == (pc # "idle") ~> (pc \in {"idle", "hung"})
=============================================================================
