------------------------ MODULE IdentityCampaignProofs ------------------------
(***************************************************************************)
(* Campaigns, for any organizations, accounts, addresses, domains, page    *)
(* size, policy and changes by people: the rules of a campaign agree, who  *)
(* was mailed is on record and counted, who complied is not warned again,  *)
(* and a confirmed stranger is none of those that were read.               *)
(***************************************************************************)
EXTENDS IdentityCampaign, FiniteSetTheorems, TLAPS

LEMMA NoneIsNobody ==
  /\ None \notin Logins /\ None \notin Addrs /\ Orgs \subseteq Nat
  /\ Logins \subseteq Nat /\ Addrs \subseteq Nat
BY CampaignAssumption DEF None

(* What is read of an account, and what the rules make of it, is of its    *)
(* kind.                                                                   *)
LEMMA ShownType ==
  ASSUME TypeOK, NEW l \in Logins
  PROVE  Shown(l) \subseteq Accounts
<1>1. emails[l] \subseteq Addrs
  BY DEF TypeOK
<1>2. \A S \in SUBSET (Addrs \cup {None}) : {<<l, a>> : a \in S} \subseteq Accounts
  BY DEF Accounts
<1> DEFINE own == {a \in emails[l] : DomainOf[a] \in verified}
           S == IF own = {} THEN {None} ELSE own
<1>3. S \in SUBSET (Addrs \cup {None})
  BY <1>1
<1>4. Shown(l) = {<<l, a>> : a \in S}
  BY DEF Shown
<1> HIDE DEF S
<1> QED BY <1>2, <1>3, <1>4

LEMMA EvidenceType ==
  ASSUME TypeOK, NEW r \in Rules, NEW shown \in SUBSET domains
  PROVE  Evidence(r, shown) \in SUBSET Accounts
<1>1. \A S \in SUBSET Logins : {<<l, None>> : l \in S} \subseteq Accounts
  BY DEF Accounts
<1>2. \A S \in SUBSET Addrs : {<<None, a>> : a \in S} \subseteq Accounts
  BY DEF Accounts
<1>3. Members \subseteq Logins \cup {None}
  BY DEF Members, TypeOK, Accounts
<1>4. \A S \in SUBSET (Logins \cup {None}) : {<<l, None>> : l \in S} \subseteq Accounts
  BY DEF Accounts
<1>5. Without \subseteq Accounts
  <2> DEFINE S == {m \in Members : ~Exempt(m) /\ \A x \in Carried : x[1] # m}
  <2>1. S \in SUBSET (Logins \cup {None}) /\ Without = {<<l, None>> : l \in S}
    BY <1>3 DEF Without
  <2> QED BY <1>4, <2>1
<1>6. Unlinked \subseteq Accounts
  <2> DEFINE S == {m \in Members : ~Exempt(m) /\ \A i \in sso : i[1] # m}
  <2>1. S \in SUBSET (Logins \cup {None}) /\ Unlinked = {<<l, None>> : l \in S}
    BY <1>3 DEF Unlinked
  <2> QED BY <1>4, <2>1
<1>7. Carriers \subseteq Accounts /\ Departed \subseteq Accounts
  BY DEF Carriers, Carried, Departed, TypeOK
<1>8. Suspects(shown) \subseteq Accounts
  <2> DEFINE S == {m \in UNION {signals[d] : d \in shown} : ~Exempt(m) /\ m \notin Members}
  <2>1. \A d \in shown : signals[d] \subseteq Logins
    BY DEF TypeOK
  <2>2. S \in SUBSET Logins /\ Suspects(shown) = {<<l, None>> : l \in S}
    BY <2>1 DEF Suspects
  <2> QED BY <1>1, <2>2
<1>9. Unknown \subseteq Accounts
  <2> DEFINE S == {b \in policy.trace.lines : DomainOf[b] \in domains /\ b \notin Known}
  <2>1. policy.trace.lines \subseteq Addrs
    BY DEF TypeOK, Policy, Import
  <2>2. S \in SUBSET Addrs /\ Unknown = {<<None, a>> : a \in S}
    BY <2>1 DEF Unknown
  <2> QED BY <1>2, <2>2
<1> QED BY <1>5, <1>6, <1>7, <1>8, <1>9 DEF Evidence

(* The carriers' addresses are addresses.                                  *)
LEMMA CarriersCarry ==
  ASSUME NEW r \in Rules, NEW shown, NEW x \in Evidence(r, shown), r = 7
  PROVE  x \in Carried /\ x[2] # None
BY DEF Evidence, Carriers, Carried

-----------------------------------------------------------------------------
(* Types, and where a campaign is.                                         *)
Addressed == \A x \in found[7] : x[2] # None

Phases ==
  /\ pc # "idle" => campaigns >= 1
  /\ pc = "list" => /\ read = {} /\ unread = {} /\ cursor = None /\ asked = {}
                    /\ \A r \in Rules : found[r] = {}
  /\ pc \in {"list", "assess"} => targets = {}
  /\ pc \in {"list", "assess", "write"} => sent = 0 /\ skipped = 0 /\ left = targets
  /\ pc # "idle" => ~failed
  /\ pc = "mail" /\ policy.out => file = targets
  /\ \A m \in mails :
       /\ m.campaign <= campaigns
       /\ pc \in {"list", "assess", "write"} => m.campaign # campaigns

Types == TypeOK /\ Addressed /\ Phases

(* A row of a rule is of its evidence.                                     *)
LEMMA RowsAreEvidence ==
  ASSUME NEW r, NEW t \in Rows(r)
  PROVE  /\ t.rule = r
         /\ \A a \in t.addrs : \E x \in found[r] : x[1] = t.login /\ x[2] = a
<1>1. CASE r = 7
  BY <1>1 DEF Rows
<1>2. CASE r # 7
  BY <1>2 DEF Rows
<1> QED BY <1>1, <1>2

LEMMA RowsType ==
  ASSUME TypeOK, Addressed, NEW r \in {7, 8, 9, 10}
  PROVE  Rows(r) \subseteq Target
<1>1. found[r] \subseteq Accounts
  BY DEF TypeOK, Rules
<1>2. \A x \in found[r] : x[1] \in Logins \cup {None} /\ x[2] \in Addrs \cup {None}
  BY <1>1 DEF Accounts
<1>3. CASE r = 7
  <2>1. \A x \in found[7] : x[2] \in Addrs
    BY <1>2, <1>3 DEF Addressed
  <2>2. \A l \in {x[1] : x \in found[7]} :
          l \in Logins \cup {None} /\ {x[2] : x \in {y \in found[7] : y[1] = l}} \subseteq Addrs
    BY <1>2, <1>3, <2>1
  <2> QED BY <1>3, <2>2 DEF Rows, Target
<1>4. CASE r # 7
  <2>1. \A x \in found[r] : {x[2]} \ {None} \subseteq Addrs
    BY <1>2
  <2> QED BY <1>2, <1>4, <2>1 DEF Rows, Target
<1> QED BY <1>3, <1>4

LEMMA InitTypes == Init => Types
<1> SUFFICES ASSUME Init PROVE Types
  OBVIOUS
<1>1. PICK w \in Worlds :
        /\ members = w.members /\ emails = w.emails /\ links = w.links
        /\ verified = w.verified /\ signals = w.signals /\ policy = w.policy
  BY DEF Init
<1>2. w \in World
  BY CampaignAssumption
<1>3. /\ members \in [Orgs -> SUBSET Logins] /\ emails \in [Logins -> SUBSET Addrs]
      /\ links \subseteq Accounts /\ verified \subseteq Domains
      /\ signals \in [Domains -> SUBSET Logins] /\ policy \in Policy
  BY <1>1, <1>2 DEF World
<1>4. changes \in 0..MaxChanges /\ campaigns \in 0..MaxCampaigns
  <2>1. MaxChanges \in Nat /\ MaxCampaigns \in Nat
    BY CampaignAssumption
  <2>2. changes = 0 /\ campaigns = 0
    BY DEF Init
  <2> QED BY <2>1, <2>2
<1>5. found \in [Rules -> SUBSET Accounts] /\ found[7] = {}
  BY DEF Init, Rules
<1>6. sent \in Nat /\ skipped \in Nat /\ failed \in BOOLEAN /\ cursor \in Logins \cup {None}
  BY DEF Init
<1>7. TypeOK
  BY <1>3, <1>4, <1>5, <1>6 DEF Init, TypeOK
<1>8. Phases
  BY DEF Init, Phases
<1> QED BY <1>5, <1>7, <1>8 DEF Types, Addressed

LEMMA BeginTypes ==
  ASSUME Types, Begin
  PROVE  Types'
<1>1. campaigns \in 0..MaxCampaigns /\ MaxCampaigns \in Nat /\ campaigns < MaxCampaigns
      /\ campaigns' = campaigns + 1
  BY CampaignAssumption DEF Begin, Types, TypeOK
<1>2. campaigns' \in 0..MaxCampaigns /\ campaigns' >= 1
  BY <1>1
<1>3. policy.rules \subseteq Rules
  BY DEF Types, TypeOK, Policy
<1>4. found' = [r \in Rules |-> {}] /\ 7 \in Rules
  BY DEF Begin, Rules
<1>5. TypeOK'
  BY <1>2, <1>3, <1>4 DEF Begin, NewCache, world, Types, TypeOK
<1>6. \A m \in mails' : m.campaign <= campaigns' /\ m.campaign # campaigns'
  <2>1. \A m \in mails : m.campaign \in 1..MaxCampaigns /\ m.campaign <= campaigns
    BY DEF Types, TypeOK, Phases
  <2>2. mails' = mails
    BY DEF Begin
  <2> QED BY <1>1, <2>1, <2>2
<1>7. Phases'
  BY <1>2, <1>4, <1>6 DEF Begin, NewCache, Phases
<1> QED BY <1>4, <1>5, <1>7 DEF Types, Addressed

LEMMA ListTypes ==
  ASSUME Types, List
  PROVE  Types'
<1>1. PICK ok \in BOOLEAN :
        /\ asked' = asked \cup {"list"}
        /\ answered' = IF ok THEN answered \cup {"list"} ELSE answered
        /\ listed' = IF ~ok THEN listed
                     ELSE {o \in Orgs : \/ policy.maxOrgs = 0
                                        \/ Cardinality({p \in Orgs : p <= o}) <= policy.maxOrgs}
  BY DEF List
<1>2. /\ asked' \subseteq {"list", "domains", "sso"} /\ answered' \subseteq asked'
      /\ listed' \subseteq Orgs
  BY <1>1 DEF Types, TypeOK
<1>3. read = {} /\ unread = {} /\ UNCHANGED <<read, unread>>
  BY DEF List, Types, Phases
<1>4. TypeOK'
  BY <1>2, <1>3 DEF List, world, mailing, Types, TypeOK
<1>5. Phases'
  BY DEF List, mailing, Types, Phases
<1> QED BY <1>4, <1>5 DEF List, Types, Addressed

LEMMA ReadTypes ==
  ASSUME Types, NEW r \in Rules, ReadDomains(r) \/ ReadSSO(r)
  PROVE  Types'
<1>1. pc = "assess"
  BY DEF ReadDomains, ReadSSO, Current
<1>2. CASE ReadDomains(r)
  <2>1. domains' \subseteq Domains
    BY <1>2 DEF ReadDomains, Types, TypeOK, Policy
  <2>2. /\ asked' \subseteq {"list", "domains", "sso"} /\ answered' \subseteq asked'
        /\ UNCHANGED <<world, policy, changes, campaigns, pc, todo, listed, read, unread,
                       inventory, sso, cursor, page, found, mailing, touched, dropped>>
    BY <1>2 DEF ReadDomains, Types, TypeOK
  <2> QED BY <1>1, <2>1, <2>2 DEF world, mailing, Types, TypeOK, Phases, Addressed
<1>3. CASE ReadSSO(r)
  <2>1. sso' \subseteq Accounts
    BY <1>3 DEF ReadSSO, Types, TypeOK
  <2>2. /\ asked' \subseteq {"list", "domains", "sso"} /\ answered' \subseteq asked'
        /\ UNCHANGED <<world, policy, changes, campaigns, pc, todo, listed, read, unread,
                       inventory, domains, cursor, page, found, mailing, touched, dropped>>
    BY <1>3 DEF ReadSSO, Types, TypeOK
  <2> QED BY <1>1, <2>1, <2>2 DEF world, mailing, Types, TypeOK, Phases, Addressed
<1> QED BY <1>2, <1>3

(* A page of organization o, which is the first one not read yet.          *)
FirstUnread(o) ==
  o \in listed \ (read \cup unread) /\ \A p \in listed \ (read \cup unread) : o <= p

PagesOf(o) == page \cup UNION {Shown(l) : l \in NextPage(o)}

ReadsPage(o) ==
  \/ /\ unread' = Unreadable(o) /\ cursor' = None /\ page' = {}
     /\ UNCHANGED <<read, inventory>>
  \/ /\ ~More(o)
     /\ read' = read \cup {o} /\ cursor' = None /\ page' = {}
     /\ inventory' = inventory \cup PagesOf(o)
     /\ UNCHANGED unread
  \/ /\ More(o) /\ page' = PagesOf(o)
     /\ cursor' \in NextPage(o) /\ \A l \in NextPage(o) : l <= cursor'
     /\ UNCHANGED <<read, unread, inventory>>

LEMMA PageStep ==
  ASSUME Types, NEW r \in Rules, ReadPage(r)
  PROVE  \E o \in Orgs :
           /\ FirstUnread(o) /\ ReadsPage(o)
           /\ NextPage(o) \subseteq members[o] /\ members[o] \subseteq Logins
           /\ PagesOf(o) \subseteq Accounts
<1>1. PICK o \in listed \ (read \cup unread) : FirstUnread(o) /\ ReadsPage(o)
  BY DEF ReadPage, FirstUnread, ReadsPage, PagesOf
<1>2. o \in Orgs
  BY DEF Types, TypeOK
<1>3. NextPage(o) \subseteq members[o] /\ members[o] \subseteq Logins
  BY <1>2 DEF NextPage, Ahead, Types, TypeOK
<1>4. \A l \in NextPage(o) : Shown(l) \subseteq Accounts
  BY <1>3, ShownType DEF Types
<1>5. PagesOf(o) \subseteq Accounts
  BY <1>4 DEF PagesOf, Types, TypeOK
<1> QED BY <1>1, <1>2, <1>3, <1>5

LEMMA PageTypes ==
  ASSUME Types, NEW r \in Rules, ReadPage(r)
  PROVE  Types'
<1>1. PICK o \in Orgs :
        /\ FirstUnread(o) /\ ReadsPage(o)
        /\ NextPage(o) \subseteq members[o] /\ members[o] \subseteq Logins
        /\ PagesOf(o) \subseteq Accounts
  BY PageStep
<1>2. /\ pc = "assess"
      /\ UNCHANGED <<world, policy, changes, campaigns, pc, todo, asked, answered, listed,
                     domains, sso, found, mailing, touched, dropped>>
  BY DEF ReadPage, Current
<1>3. read' \subseteq listed /\ unread' \subseteq listed \ read'
  BY <1>1 DEF FirstUnread, ReadsPage, Unreadable, Types, TypeOK
<1>4. inventory' \subseteq Accounts /\ page' \subseteq Accounts /\ cursor' \in Logins \cup {None}
  BY <1>1 DEF ReadsPage, Types, TypeOK
<1> QED BY <1>2, <1>3, <1>4 DEF world, mailing, Types, TypeOK, Phases, Addressed

LEMMA AssessTypes ==
  ASSUME Types, NEW r \in Rules, Assess(r)
  PROVE  Types'
<1>1. PICK shown \in SUBSET domains : found' = [found EXCEPT ![r] = Evidence(r, shown)]
  BY DEF Assess
<1>2. /\ pc = "assess" /\ todo' = todo \ {r}
      /\ UNCHANGED <<world, policy, changes, campaigns, pc, cache, mailing, touched, dropped>>
  BY DEF Assess, Current, KeepCache
<1>3. found' \in [Rules -> SUBSET Accounts]
  BY <1>1, EvidenceType DEF Types, TypeOK
<1>4. Addressed'
  <2>1. found'[7] = IF r = 7 THEN Evidence(r, shown) ELSE found[7]
    BY <1>1 DEF Types, TypeOK, Rules
  <2> QED BY <2>1, CarriersCarry DEF Types, Addressed
<1> QED BY <1>2, <1>3, <1>4 DEF world, cache, mailing, Types, TypeOK, Phases

LEMMA CollectTypes ==
  ASSUME Types, Collect
  PROVE  Types'
<1>1. targets' \subseteq Target
  BY RowsType DEF Collect, Types
<1>2. /\ pc = "assess" /\ pc' \in {"idle", "write"} /\ left' = targets'
      /\ UNCHANGED <<world, policy, changes, campaigns, todo, cache, found, file, sent, skipped,
                     failed, mails, touched, dropped>>
  BY DEF Collect
<1> QED BY <1>1, <1>2 DEF world, cache, Types, TypeOK, Phases, Addressed

LEMMA WriteFileTypes ==
  ASSUME Types, WriteFile
  PROVE  Types'
<1>1. PICK ok \in BOOLEAN :
        /\ ~policy.out => ok
        /\ file' \in IF ~policy.out THEN {file} ELSE IF ok THEN {targets} ELSE {file, {}}
        /\ pc' = AfterFile(ok)
  BY DEF WriteFile
<1>2. file' \subseteq Target /\ pc' \in {"idle", "mail"}
  BY <1>1 DEF AfterFile, Types, TypeOK
<1>3. pc' = "mail" /\ policy.out => file' = targets
  BY <1>1 DEF AfterFile
<1>4. /\ pc = "write"
      /\ UNCHANGED <<world, policy, changes, campaigns, todo, cache, found, targets, left, sent,
                     skipped, failed, mails, touched, dropped>>
  BY DEF WriteFile
<1> QED BY <1>2, <1>3, <1>4 DEF world, cache, Types, TypeOK, Phases, Addressed

(* A mail to one of the first that are left, or none without a mailbox.    *)
MailsTo(t) ==
  \/ Mailbox(t) = {} /\ skipped' = skipped + 1 /\ UNCHANGED <<pc, sent, failed, mails>>
  \/ \E a \in Mailbox(t), outcome \in {"sent", "error", "silent"}, taken \in BOOLEAN :
       /\ outcome = "sent" => taken
       /\ sent' = IF outcome = "sent" THEN sent + 1 ELSE sent
       /\ failed' = (outcome = "error")
       /\ mails' = IF taken
                   THEN mails \cup {[campaign |-> campaigns, target |-> t, to |-> a]}
                   ELSE mails
       /\ pc' = AfterMail(outcome)
       /\ UNCHANGED skipped

LEMMA MailStep ==
  ASSUME Types, Mail
  PROVE  /\ pc = "mail" /\ campaigns \in 1..MaxCampaigns
         /\ UNCHANGED <<world, policy, changes, campaigns, todo, cache, found, targets, file,
                        touched, dropped>>
         /\ \E t \in left : /\ \A u \in left : Precedes(t, u)
                            /\ left' = left \ {t} /\ MailsTo(t)
                            /\ t \in Target /\ t \in targets /\ Mailbox(t) \subseteq Addrs
                            /\ Mailbox(t) \subseteq t.addrs
<1>1. PICK t \in left : /\ \A u \in left : Precedes(t, u)
                        /\ left' = left \ {t} /\ MailsTo(t)
  BY DEF Mail, MailsTo
<1>2. t \in Target /\ t \in targets
  BY DEF Types, TypeOK
<1>3. Mailbox(t) \subseteq t.addrs /\ Mailbox(t) \subseteq Addrs
  BY <1>2 DEF Mailbox, Target
<1>4. pc = "mail" /\ campaigns \in 1..MaxCampaigns
  <2>1. pc = "mail" /\ campaigns \in 0..MaxCampaigns /\ campaigns >= 1
    BY DEF Mail, Types, TypeOK, Phases
  <2>2. MaxCampaigns \in Nat
    BY CampaignAssumption
  <2> QED BY <2>1, <2>2
<1> QED BY <1>1, <1>2, <1>3, <1>4 DEF Mail

LEMMA MailTypes ==
  ASSUME Types, Mail
  PROVE  Types'
<1>1. PICK t \in left :
        /\ left' = left \ {t} /\ MailsTo(t)
        /\ t \in Target /\ Mailbox(t) \subseteq Addrs
  BY MailStep
<1>2. /\ pc = "mail" /\ campaigns \in 1..MaxCampaigns
      /\ UNCHANGED <<world, policy, changes, campaigns, todo, cache, found, targets, file,
                     touched, dropped>>
  BY MailStep
<1>3. pc' \in {"mail", "idle", "hung"} /\ (pc' # "idle" => ~failed')
  <2>1. CASE UNCHANGED <<pc, failed>>
    BY <1>2, <2>1 DEF Types, Phases
  <2>2. CASE \E outcome \in {"sent", "error", "silent"} :
               pc' = AfterMail(outcome) /\ failed' = (outcome = "error")
    BY <2>2 DEF AfterMail
  <2> QED BY <1>1, <2>1, <2>2 DEF MailsTo
<1>4. sent' \in Nat /\ skipped' \in Nat /\ failed' \in BOOLEAN
  <2>1. sent \in Nat /\ skipped \in Nat /\ failed \in BOOLEAN
    BY DEF Types, TypeOK
  <2>2. sent' \in {sent, sent + 1} /\ skipped' \in {skipped, skipped + 1}
    BY <1>1 DEF MailsTo
  <2>3. failed' \in BOOLEAN
    BY <1>1, <2>1 DEF MailsTo
  <2> QED BY <2>1, <2>2, <2>3
<1>5. ASSUME NEW m \in mails'
      PROVE  /\ m \in [campaign: 1..MaxCampaigns, target: Target, to: Addrs]
             /\ m.campaign <= campaigns
  <2>1. m \in mails \/ \E a \in Addrs : m = [campaign |-> campaigns, target |-> t, to |-> a]
    BY <1>1, <1>5 DEF MailsTo
  <2>2. CASE m \in mails
    BY <2>2 DEF Types, TypeOK, Phases
  <2>3. CASE \E a \in Addrs : m = [campaign |-> campaigns, target |-> t, to |-> a]
    <3>1. m \in [campaign: 1..MaxCampaigns, target: Target, to: Addrs] /\ m.campaign = campaigns
      BY <1>1, <1>2, <2>3
    <3>2. campaigns <= campaigns
      BY <1>2
    <3> QED BY <3>1, <3>2
  <2> QED BY <2>1, <2>2, <2>3
<1>6. TypeOK'
  <2>1. left' \subseteq targets'
    BY <1>1, <1>2 DEF Types, TypeOK
  <2> QED BY <1>2, <1>3, <1>4, <1>5, <2>1 DEF world, cache, Types, TypeOK
<1>7. Phases'
  BY <1>2, <1>3, <1>5 DEF world, cache, Types, Phases
<1> QED BY <1>2, <1>6, <1>7 DEF Types, Addressed

LEMMA EndTypes ==
  ASSUME Types, Finish \/ Crash
  PROVE  Types'
<1>1. CASE Finish
  BY <1>1 DEF Finish, world, cache, mailing, Types, TypeOK, Phases, Addressed
<1>2. CASE Crash
  <2>1. found' = [r \in Rules |-> {}] /\ 7 \in Rules
    BY <1>2 DEF Crash, Rules
  <2>2. TypeOK'
    BY <1>2, <2>1 DEF Crash, world, cache, Types, TypeOK
  <2>3. Phases'
    BY <1>2 DEF Crash, Types, Phases
  <2> QED BY <2>1, <2>2, <2>3 DEF Types, Addressed
<1> QED BY <1>1, <1>2

(* What people change.                                                     *)
Changes(l) ==
  \/ \E a \in emails[l] :
       /\ emails' = [emails EXCEPT ![l] = @ \ {a}]
       /\ dropped' = dropped \cup {<<l, a, campaigns>>}
       /\ UNCHANGED <<members, links>>
  \/ \E o \in Orgs :
       /\ members' = [members EXCEPT ![o] = IF l \in @ THEN @ \ {l} ELSE @ \cup {l}]
       /\ UNCHANGED <<emails, links, dropped>>
  \/ \E i \in links :
       /\ i[1] \in {l, None}
       /\ links' = (links \ {i}) \cup {<<IF i[1] = l THEN None ELSE l, i[2]>>}
       /\ UNCHANGED <<members, emails, dropped>>

LEMMA ChangeTypes ==
  ASSUME Types, Change
  PROVE  Types'
<1>1. PICK l \in Logins : touched' = touched \cup {l} /\ Changes(l)
  BY DEF Change, Changes
<1>2. UNCHANGED <<verified, signals, policy, campaigns, pc, todo, cache, found, mailing>>
  BY DEF Change
<1>3. changes' \in 0..MaxChanges
  <2>1. changes \in 0..MaxChanges /\ MaxChanges \in Nat /\ changes < MaxChanges
        /\ changes' = changes + 1
    BY CampaignAssumption DEF Change, Types, TypeOK
  <2> QED BY <2>1
<1>4. campaigns \in 0..MaxCampaigns
  BY DEF Types, TypeOK
<1>5. /\ members' \in [Orgs -> SUBSET Logins] /\ emails' \in [Logins -> SUBSET Addrs]
      /\ links' \subseteq Accounts /\ dropped' \subseteq Logins \X Addrs \X (0..MaxCampaigns)
  <2>1. /\ members \in [Orgs -> SUBSET Logins] /\ emails \in [Logins -> SUBSET Addrs]
        /\ links \subseteq Accounts /\ dropped \subseteq Logins \X Addrs \X (0..MaxCampaigns)
    BY DEF Types, TypeOK
  <2>2. CASE \E a \in emails[l] : /\ emails' = [emails EXCEPT ![l] = @ \ {a}]
                                  /\ dropped' = dropped \cup {<<l, a, campaigns>>}
                                  /\ UNCHANGED <<members, links>>
    BY <1>4, <2>1, <2>2
  <2>3. CASE \E o \in Orgs :
               /\ members' = [members EXCEPT ![o] = IF l \in @ THEN @ \ {l} ELSE @ \cup {l}]
               /\ UNCHANGED <<emails, links, dropped>>
    BY <2>1, <2>3
  <2>4. CASE \E i \in links :
               /\ i[1] \in {l, None}
               /\ links' = (links \ {i}) \cup {<<IF i[1] = l THEN None ELSE l, i[2]>>}
               /\ UNCHANGED <<members, emails, dropped>>
    <3>1. PICK i \in links : links' = (links \ {i}) \cup {<<IF i[1] = l THEN None ELSE l, i[2]>>}
      BY <2>4
    <3>2. i \in Accounts
      BY <2>1
    <3>3. i[2] \in Addrs \cup {None}
      BY <3>2 DEF Accounts
    <3>4. <<IF i[1] = l THEN None ELSE l, i[2]>> \in Accounts
      BY <3>3 DEF Accounts
    <3> QED BY <2>1, <2>4, <3>1, <3>4
  <2> QED BY <1>1, <2>2, <2>3, <2>4 DEF Changes
<1>6. touched' \subseteq Logins
  BY <1>1 DEF Types, TypeOK
<1> QED BY <1>2, <1>3, <1>5, <1>6 DEF cache, mailing, Types, TypeOK, Phases, Addressed

LEMMA NextTypes == Types /\ [Next]_vars => Types'
<1> SUFFICES ASSUME Types, [Next]_vars PROVE Types'
  OBVIOUS
<1>1. CASE UNCHANGED vars
  BY <1>1 DEF vars, world, cache, mailing, Types, TypeOK, Phases, Addressed
<1>2. CASE Next
  BY <1>2, BeginTypes, ListTypes, ReadTypes, PageTypes, AssessTypes, CollectTypes,
     WriteFileTypes, MailTypes, EndTypes, ChangeTypes DEF Next, Step
<1> QED BY <1>1, <1>2

LEMMA AlwaysTypes == Spec => []Types
BY InitTypes, NextTypes, PTL DEF Spec

(* Type correctness: readings, evidence, targets and mails are of their    *)
(* kind in every campaign.                                                 *)
THEOREM TypeCorrect == Spec => []TypeOK
<1>1. Types => TypeOK
  BY DEF Types
<1> QED BY AlwaysTypes, <1>1, PTL

-----------------------------------------------------------------------------
(* The mailing.  Whoever was mailed is in the file already: the file is    *)
(* written between the last mail of one campaign and the first of another. *)

(* What a campaign with --out has mailed is on its list, whenever it is    *)
(* killed and whatever of its writing fails.                               *)
THEOREM MailedOnRecord == Spec => []MailedAreOnRecord
<1>1. Init => MailedAreOnRecord
  BY DEF Init, MailedAreOnRecord
<1>2. Types /\ MailedAreOnRecord /\ [Next]_vars => MailedAreOnRecord'
  <2> SUFFICES ASSUME Types, MailedAreOnRecord, [Next]_vars PROVE MailedAreOnRecord'
    OBVIOUS
  <2>1. CASE UNCHANGED <<policy, mails, campaigns, file>>
    BY <2>1 DEF MailedAreOnRecord
  <2>2. CASE Begin
    <3>1. campaigns' = campaigns + 1 /\ mails' = mails /\ campaigns \in Nat
      BY <2>2, CampaignAssumption DEF Begin, Types, TypeOK
    <3>2. \A m \in mails : m.campaign \in Nat /\ m.campaign <= campaigns
      BY DEF Types, TypeOK, Phases
    <3>3. \A m \in mails' : m.campaign # campaigns'
      BY <3>1, <3>2
    <3> QED BY <3>3 DEF MailedAreOnRecord
  <2>3. CASE WriteFile
    <3>1. \A m \in mails : m.campaign # campaigns
      BY <2>3 DEF WriteFile, Types, Phases
    <3>2. UNCHANGED <<mails, campaigns>>
      BY <2>3 DEF WriteFile
    <3> QED BY <3>1, <3>2 DEF MailedAreOnRecord
  <2>4. CASE Mail
    <3>1. PICK t \in left : MailsTo(t) /\ t \in targets
      BY <2>4, MailStep
    <3>2. pc = "mail" /\ UNCHANGED <<policy, file, campaigns>>
      BY <2>4, MailStep
    <3>3. policy.out => t \in file
      BY <3>1, <3>2 DEF Types, Phases
    <3>4. \A m \in mails' : m \in mails \/ m.target = t
      BY <3>1 DEF MailsTo
    <3> QED BY <3>2, <3>3, <3>4 DEF MailedAreOnRecord
  <2>5. CASE List \/ Collect \/ Finish \/ Crash \/ Change
    BY <2>1, <2>5 DEF List, Collect, Finish, Crash, Change, mailing
  <2>6. CASE \E r \in Rules : ReadDomains(r) \/ ReadSSO(r) \/ ReadPage(r) \/ Assess(r)
    BY <2>1, <2>6 DEF ReadDomains, ReadSSO, ReadPage, Assess, mailing
  <2>7. CASE UNCHANGED vars
    BY <2>1, <2>7 DEF vars, mailing
  <2> QED BY <2>2, <2>3, <2>4, <2>5, <2>6, <2>7 DEF Next, Step
<1> QED BY <1>1, <1>2, AlwaysTypes, PTL DEF Spec

LEMMA TargetFinite == IsFiniteSet(Target)
<1> DEFINE P == ({7, 8, 9, 10} \X (Logins \cup {None})) \X SUBSET Addrs
           f == [x \in P |-> [rule |-> x[1][1], login |-> x[1][2], addrs |-> x[2]]]
<1>1. IsFiniteSet(P)
  <2>1. IsFiniteSet({7, 8, 9, 10})
    <3>1. IsFiniteSet({7}) /\ IsFiniteSet({8}) /\ IsFiniteSet({9}) /\ IsFiniteSet({10})
      BY FS_Singleton
    <3>2. IsFiniteSet({7} \cup {8}) /\ IsFiniteSet({9} \cup {10})
      BY <3>1, FS_Union
    <3>3. IsFiniteSet(({7} \cup {8}) \cup ({9} \cup {10}))
      BY <3>2, FS_Union
    <3>4. {7, 8, 9, 10} = ({7} \cup {8}) \cup ({9} \cup {10})
      OBVIOUS
    <3> QED BY <3>3, <3>4
  <2>2. IsFiniteSet(Logins \cup {None})
    BY CampaignAssumption, FS_Singleton, FS_Union
  <2>3. IsFiniteSet(SUBSET Addrs)
    BY CampaignAssumption, FS_SUBSET
  <2>4. IsFiniteSet({7, 8, 9, 10} \X (Logins \cup {None}))
    BY <2>1, <2>2, FS_Product
  <2> QED BY <2>3, <2>4, FS_Product
<1>2. \A x \in P : f[x] \in Target
  BY DEF Target
<1>3. \A t \in Target : \E x \in P : f[x] = t
  <2> TAKE t \in Target
  <2>1. t = [rule |-> t.rule, login |-> t.login, addrs |-> t.addrs]
        /\ t.rule \in {7, 8, 9, 10} /\ t.login \in Logins \cup {None} /\ t.addrs \in SUBSET Addrs
    BY DEF Target
  <2>2. <<<<t.rule, t.login>>, t.addrs>> \in P
    BY <2>1
  <2>3. f[<<<<t.rule, t.login>>, t.addrs>>] = t
    BY <2>1, <2>2
  <2> QED BY <2>2, <2>3
<1>4. f \in [P -> Target]
  BY <1>2
<1> HIDE DEF P, f
<1>5. f \in Surjection(P, Target)
  BY <1>3, <1>4 DEF Surjection
<1> QED BY <1>1, <1>5, FS_Surjection

(* The mails of the campaign go to targets that are not left.              *)
Mine == {m \in mails : m.campaign = campaigns}

Stop == IF failed \/ pc = "hung" THEN 1 ELSE 0

Counts ==
  pc # "idle" \/ targets # {} =>
    /\ sent + skipped + Stop + Cardinality(left) = Cardinality(targets)
    /\ IsFiniteSet(Mine) /\ Cardinality(Mine) \in sent..(sent + Stop)
    /\ \A m \in Mine : m.target \notin left /\ \A t \in left : Precedes(m.target, t)

LEMMA FiniteTargets ==
  ASSUME Types
  PROVE  /\ IsFiniteSet(targets) /\ Cardinality(targets) \in Nat
         /\ IsFiniteSet(left) /\ Cardinality(left) \in Nat
<1>1. targets \in SUBSET Target /\ left \in SUBSET targets
  BY DEF Types, TypeOK
<1>2. IsFiniteSet(targets)
  BY <1>1, TargetFinite, FS_Subset
<1>3. IsFiniteSet(left)
  BY <1>1, <1>2, FS_Subset
<1> QED BY <1>2, <1>3, FS_CardinalityType

(* A campaign that has mailed nobody.                                      *)
LEMMA FreshCounts ==
  ASSUME Types', left' = targets', sent' = 0, skipped' = 0, ~failed', pc' # "hung", Mine' = {}
  PROVE  Counts'
<1>1. Cardinality(targets') \in Nat
  <2>1. targets' \in SUBSET Target
    BY DEF Types, TypeOK
  <2>2. IsFiniteSet(targets')
    BY <2>1, TargetFinite, FS_Subset
  <2> QED BY <2>2, FS_CardinalityType
<1>2. Stop' = 0
  BY DEF Stop
<1>3. IsFiniteSet(Mine') /\ Cardinality(Mine') = 0
  BY FS_EmptySet
<1>4. sent' + skipped' + Stop' + Cardinality(left') = Cardinality(targets')
  BY <1>1, <1>2
<1>5. Cardinality(Mine') \in sent'..(sent' + Stop')
  BY <1>2, <1>3
<1> QED BY <1>3, <1>4, <1>5 DEF Counts

LEMMA SameCounts ==
  ASSUME Counts, UNCHANGED <<targets, left, sent, skipped, failed, mails, campaigns>>,
         pc' # "idle" => pc # "idle", pc' = "hung" <=> pc = "hung"
  PROVE  Counts'
<1>1. UNCHANGED <<Mine, Stop>>
  BY DEF Mine, Stop
<1> QED BY <1>1 DEF Counts

LEMMA MailCounts ==
  ASSUME Types, Counts, Mail
  PROVE  Counts'
<1>1. PICK t \in left : /\ \A u \in left : Precedes(t, u)
                        /\ left' = left \ {t} /\ MailsTo(t)
  BY MailStep
<1>2. pc = "mail" /\ UNCHANGED <<campaigns, targets>> /\ ~failed
  BY MailStep DEF Types, Phases
<1>3. /\ sent \in Nat /\ skipped \in Nat
      /\ Cardinality(left) \in Nat /\ Cardinality(targets) \in Nat
      /\ Cardinality(left') = Cardinality(left) - 1
  <2>1. IsFiniteSet(left) /\ Cardinality(left) \in Nat /\ Cardinality(targets) \in Nat
    BY FiniteTargets
  <2>2. Cardinality(left \ {t}) = Cardinality(left) - 1
    BY <2>1, FS_RemoveElement
  <2> QED BY <1>1, <2>1, <2>2 DEF Types, TypeOK
<1>4. /\ sent + skipped + Cardinality(left) = Cardinality(targets)
      /\ IsFiniteSet(Mine) /\ Cardinality(Mine) = sent
      /\ \A m \in Mine : m.target \notin left /\ \A u \in left : Precedes(m.target, u)
  <2>1. Stop = 0
    BY <1>2 DEF Stop
  <2>2. /\ sent + skipped + Stop + Cardinality(left) = Cardinality(targets)
        /\ IsFiniteSet(Mine) /\ Cardinality(Mine) \in sent..(sent + Stop)
        /\ \A m \in Mine : m.target \notin left /\ \A u \in left : Precedes(m.target, u)
    BY <1>2 DEF Counts
  <2> QED BY <1>3, <2>1, <2>2
<1>5. CASE Mailbox(t) = {} /\ skipped' = skipped + 1 /\ UNCHANGED <<pc, sent, failed, mails>>
  <2>1. Mine' = Mine /\ Stop' = 0
    BY <1>2, <1>5 DEF Mine, Stop
  <2>2. sent' + skipped' + Stop' + Cardinality(left') = Cardinality(targets')
    BY <1>2, <1>3, <1>4, <1>5, <2>1
  <2>3. Cardinality(Mine') \in sent'..(sent' + Stop')
    BY <1>3, <1>4, <1>5, <2>1
  <2>4. \A m \in Mine' : m.target \notin left' /\ \A u \in left' : Precedes(m.target, u)
    BY <1>1, <1>4, <2>1
  <2> QED BY <1>4, <2>1, <2>2, <2>3, <2>4 DEF Counts
<1>6. ASSUME NEW a \in Mailbox(t), NEW outcome \in {"sent", "error", "silent"},
             NEW taken \in BOOLEAN, outcome = "sent" => taken,
             sent' = IF outcome = "sent" THEN sent + 1 ELSE sent,
             failed' = (outcome = "error"),
             mails' = IF taken
                      THEN mails \cup {[campaign |-> campaigns, target |-> t, to |-> a]}
                      ELSE mails,
             pc' = AfterMail(outcome), UNCHANGED skipped
      PROVE  Counts'
  <2>1. PICK m0 : m0 = [campaign |-> campaigns, target |-> t, to |-> a]
    OBVIOUS
  <2>2. m0.campaign = campaigns /\ m0.target = t /\ m0 \notin Mine
    BY <1>1, <1>4, <2>1
  <2>3. Mine' = IF taken THEN Mine \cup {m0} ELSE Mine
    BY <1>2, <1>6, <2>1, <2>2 DEF Mine
  <2>4. /\ IsFiniteSet(Mine')
        /\ Cardinality(Mine') = IF taken THEN sent + 1 ELSE sent
    BY <1>4, <2>2, <2>3, FS_AddElement
  <2>5. Stop' = IF outcome = "sent" THEN 0 ELSE 1
    BY <1>6 DEF Stop, AfterMail
  <2>6. Cardinality(Mine') \in sent'..(sent' + Stop')
    BY <1>3, <1>6, <2>4, <2>5
  <2>7. sent' + skipped' + Stop' + Cardinality(left') = Cardinality(targets')
    BY <1>2, <1>3, <1>4, <1>6, <2>5
  <2>8. \A m \in Mine' : m.target \notin left' /\ \A u \in left' : Precedes(m.target, u)
    BY <1>1, <1>4, <2>2, <2>3
  <2> QED BY <2>4, <2>6, <2>7, <2>8 DEF Counts
<1> QED BY <1>1, <1>5, <1>6 DEF MailsTo

LEMMA AlwaysCounts == Spec => []Counts
<1>1. Init => Counts
  BY DEF Init, Counts
<1>2. Types /\ Types' /\ Counts /\ [Next]_vars => Counts'
  <2> SUFFICES ASSUME Types, Types', Counts, [Next]_vars PROVE Counts'
    OBVIOUS
  <2>1. CASE Begin
    <3>1. campaigns' = campaigns + 1 /\ mails' = mails /\ campaigns \in Nat
      BY <2>1, CampaignAssumption DEF Begin, Types, TypeOK
    <3>2. \A m \in mails : m.campaign \in Nat /\ m.campaign <= campaigns
      BY DEF Types, TypeOK, Phases
    <3>3. Mine' = {}
      BY <3>1, <3>2 DEF Mine
    <3>4. left' = targets' /\ sent' = 0 /\ skipped' = 0 /\ ~failed' /\ pc' # "hung"
      BY <2>1 DEF Begin
    <3> QED BY <3>3, <3>4, FreshCounts
  <2>2. CASE Collect
    <3>1. pc = "assess" /\ left' = targets' /\ UNCHANGED <<campaigns, sent, skipped, failed, mails>>
      BY <2>2 DEF Collect
    <3>2. sent' = 0 /\ skipped' = 0 /\ ~failed' /\ \A m \in mails : m.campaign # campaigns
      BY <3>1 DEF Types, Phases
    <3>3. Mine' = {}
      BY <3>1, <3>2 DEF Mine
    <3>4. pc' # "hung"
      BY <2>2 DEF Collect
    <3> QED BY <3>1, <3>2, <3>3, <3>4, FreshCounts
  <2>3. CASE Crash
    BY <2>3 DEF Crash, Counts
  <2>4. CASE List \/ WriteFile \/ Finish \/ Change
    <3>1. /\ UNCHANGED <<targets, left, sent, skipped, failed, mails, campaigns>>
          /\ pc' # "idle" => pc # "idle"
          /\ pc' = "hung" <=> pc = "hung"
      BY <2>4 DEF List, WriteFile, AfterFile, Finish, Change, mailing
    <3> QED BY <3>1, SameCounts
  <2>5. CASE \E r \in Rules : ReadDomains(r) \/ ReadSSO(r) \/ ReadPage(r) \/ Assess(r)
    <3>1. UNCHANGED <<targets, left, sent, skipped, failed, mails, campaigns, pc>>
      BY <2>5 DEF ReadDomains, ReadSSO, ReadPage, Assess, mailing
    <3> QED BY <3>1, SameCounts
  <2>6. CASE UNCHANGED vars
    BY <2>6, SameCounts DEF vars, mailing
  <2> QED BY <2>1, <2>2, <2>3, <2>4, <2>5, <2>6, MailCounts DEF Next, Step
<1> QED BY <1>1, <1>2, AlwaysTypes, PTL DEF Spec

(* Sent, skipped, stopped and left add up to everyone to warn, the mails   *)
(* are those counted as sent and at most the one that stopped the          *)
(* campaign, and whoever was mailed comes before whoever was not.          *)
THEOREM CountsTrue == Spec => []CountsTellTheTruth
<1>1. Counts => CountsTellTheTruth
  BY DEF Counts, CountsTellTheTruth, Mine, Stop
<1> QED BY <1>1, AlwaysCounts, PTL

-----------------------------------------------------------------------------
(* The rules of one assessment agree because they judge by the same        *)
(* reading: once a rule has found something that depends on the members or *)
(* on the SSO identities, these are not read again.                        *)
Judged ==
  /\ \A r \in Rules \ {9} : found[r] # {} => listed = read \cup unread
  /\ found[5] # {} \/ found[9] # {} => "sso" \in asked
  /\ found[7] \subseteq Carried
  /\ \A y \in found[10] : y[2] \notin Known
  /\ \A x \in found[5] : \A i \in sso : i[1] # x[1]
  /\ found[9] \subseteq sso
  /\ \A x \in found[3] \cup found[5] \cup found[7] : x[1] \in Members
  /\ \A x \in found[8] : x[1] \notin Members

(* What a finding says about the account or the address it names.          *)
LEMMA EvidenceMeans ==
  ASSUME NEW r \in Rules, NEW shown, NEW x \in Evidence(r, shown)
  PROVE  /\ r \in {3, 7, 8, 10} => WantsDomains(r) /\ domains # {}
         /\ r = 5 => "sso" \in answered /\ \A i \in sso : i[1] # x[1]
         /\ r = 9 => WantsSSO(r) /\ x \in sso
         /\ r \in {3, 5, 7} => x[1] \in Members
         /\ r = 7 => x \in Carried
         /\ r = 8 => x[1] \notin Members
         /\ r = 10 => x[2] \notin Known
<1>1. CASE r = 3
  BY <1>1 DEF Evidence, WantsDomains, Without
<1>2. CASE r = 5
  BY <1>2 DEF Evidence, Unlinked
<1>3. CASE r = 7
  BY <1>3 DEF Evidence, WantsDomains, Carriers, Carried, Members
<1>4. CASE r = 8
  BY <1>4 DEF Evidence, WantsDomains, Suspects
<1>5. CASE r = 9
  BY <1>5 DEF Evidence, WantsSSO, Departed
<1>6. CASE r = 10
  BY <1>6 DEF Evidence, WantsDomains, Unknown
<1> QED BY <1>1, <1>2, <1>3, <1>4, <1>5, <1>6 DEF Rules

LEMMA NoneJudged ==
  ASSUME \A r \in Rules : found[r] = {}
  PROVE  Judged
BY DEF Judged, Rules

LEMMA SameJudged ==
  ASSUME Judged, "sso" \in asked => "sso" \in asked',
         UNCHANGED <<found, listed, read, unread, inventory>>,
         found[5] # {} \/ found[9] # {} => sso' = sso
  PROVE  Judged'
<1>1. UNCHANGED <<Members, Known, Carried>>
  BY DEF Members, Known, Carried
<1>2. \A x \in found'[5] : \A i \in sso' : i[1] # x[1]
  BY DEF Judged
<1>3. found'[9] \subseteq sso'
  BY DEF Judged
<1> QED BY <1>1, <1>2, <1>3 DEF Judged

LEMMA PageJudged ==
  ASSUME Types, Judged, NEW r \in Rules, ReadPage(r)
  PROVE  Judged'
<1>1. PICK o \in Orgs : FirstUnread(o)
  BY PageStep
<1>2. \A q \in Rules \ {9} : found[q] = {}
  BY <1>1 DEF FirstUnread, Judged
<1>3. UNCHANGED <<found, asked, sso>>
  BY DEF ReadPage
<1>4. /\ found[3] = {} /\ found[5] = {} /\ found[7] = {} /\ found[8] = {} /\ found[10] = {}
  BY <1>2 DEF Rules
<1> QED BY <1>2, <1>3, <1>4 DEF Judged

LEMMA AssessJudged ==
  ASSUME Types, Judged, NEW r \in Rules, Assess(r)
  PROVE  Judged'
<1>1. PICK shown \in SUBSET domains : found' = [found EXCEPT ![r] = Evidence(r, shown)]
  BY DEF Assess
<1>2. /\ UNCHANGED <<asked, answered, listed, read, unread, inventory, domains, sso>>
      /\ WantsDomains(r) => "domains" \in asked
      /\ WantsSSO(r) => "sso" \in asked
      /\ WantsMembers(r) => listed = read \cup unread
      /\ answered \subseteq asked
  BY DEF Assess, KeepCache, cache, Types, TypeOK
<1>3. UNCHANGED <<Members, Known, Carried>>
  BY <1>2 DEF Members, Known, Carried
<1>4. \A q \in Rules : found'[q] = IF q = r THEN Evidence(r, shown) ELSE found[q]
  BY <1>1 DEF Types, TypeOK
<1>5. \A q \in Rules \ {9} : found'[q] # {} => listed' = read' \cup unread'
  <2> SUFFICES ASSUME NEW q \in Rules \ {9}, found'[q] # {} PROVE listed = read \cup unread
    BY <1>2
  <2>1. CASE q # r
    BY <1>4, <2>1 DEF Judged
  <2>2. CASE q = r
    <3>1. PICK x : x \in Evidence(r, shown)
      BY <1>4, <2>2
    <3>2. WantsMembers(r)
      BY <1>2, <2>2, <3>1, EvidenceMeans DEF WantsMembers, Rules
    <3> QED BY <1>2, <3>2
  <2> QED BY <2>1, <2>2
<1>6. found'[5] # {} \/ found'[9] # {} => "sso" \in asked'
  <2>1. r \in {5, 9} => "sso" \in asked \/ Evidence(r, shown) = {}
    <3>1. r = 5 => WantsSSO(r)
      BY DEF WantsSSO
    <3> QED BY <1>2, <3>1, EvidenceMeans
  <2> QED BY <1>2, <1>4, <2>1 DEF Judged, Rules
<1>7. 3 \in Rules /\ 5 \in Rules /\ 7 \in Rules /\ 8 \in Rules /\ 9 \in Rules /\ 10 \in Rules
  BY DEF Rules
<1>8. found'[7] \subseteq Carried /\ \A y \in found'[10] : y[2] \notin Known
  BY <1>4, <1>7, EvidenceMeans DEF Judged
<1>9. (\A x \in found'[5] : \A i \in sso : i[1] # x[1]) /\ found'[9] \subseteq sso
  BY <1>4, <1>7, EvidenceMeans DEF Judged
<1>10. /\ \A x \in found'[3] \cup found'[5] \cup found'[7] : x[1] \in Members
       /\ \A x \in found'[8] : x[1] \notin Members
  BY <1>4, <1>7, EvidenceMeans DEF Judged
<1> QED BY <1>2, <1>3, <1>5, <1>6, <1>8, <1>9, <1>10 DEF Judged

LEMMA NextJudged ==
  ASSUME Types, Judged, [Next]_vars
  PROVE  Judged'
<1>1. CASE Begin \/ Crash
  BY <1>1, NoneJudged DEF Begin, Crash, Judged, Rules
<1>2. CASE List
  <2>1. \A r \in Rules : found'[r] = {}
    BY <1>2 DEF List, Types, Phases
  <2> QED BY <2>1 DEF Judged, Rules
<1>3. CASE \E r \in Rules : ReadDomains(r) \/ ReadSSO(r)
  BY <1>3, SameJudged DEF ReadDomains, ReadSSO, Judged
<1>4. CASE \E r \in Rules : ReadPage(r) \/ Assess(r)
  BY <1>4, PageJudged, AssessJudged
<1>5. CASE Collect \/ WriteFile \/ Mail \/ Finish \/ Change \/ UNCHANGED vars
  <2>1. UNCHANGED <<cache, found>>
    BY <1>5 DEF Collect, WriteFile, Mail, Finish, Change, vars
  <2> QED BY <2>1, SameJudged DEF cache
<1> QED BY <1>1, <1>2, <1>3, <1>4, <1>5 DEF Next, Step

(* The rules of one assessment agree, whatever people do between two of    *)
(* them: no address is a member's and unknown, no account is unlinked and  *)
(* departed, and no member with a finding is a suspected stranger.         *)
THEOREM Agree == Spec => []RulesAgree
<1>1. Init => Judged
  BY DEF Init, Judged, Rules
<1>2. Judged => RulesAgree
  <2> SUFFICES ASSUME Judged PROVE RulesAgree
    OBVIOUS
  <2>1. \A x \in found[7], y \in found[10] : x[2] # y[2]
    BY DEF Judged, Known
  <2>2. \A x \in found[5], y \in found[9] : x[1] # y[1]
    BY DEF Judged
  <2>3. \A x \in found[3] \cup found[5] \cup found[7], y \in found[8] : x[1] # y[1]
    BY DEF Judged
  <2> QED BY <2>1, <2>2, <2>3 DEF RulesAgree
<1>3. Types /\ Judged /\ [Next]_vars => Judged'
  BY NextJudged
<1> QED BY <1>1, <1>2, <1>3, AlwaysTypes, PTL DEF Spec

-----------------------------------------------------------------------------
(* Who was read.  Of those nobody touched, a listing that was read to the  *)
(* end has everyone with the addresses GitHub shows, and the one under way *)
(* everyone up to the cursor; a confirmed signup is none of them.          *)
ReadInFull ==
  \A o \in read : \A l \in Logins \ touched :
    l \in members[o] => Shown(l) \subseteq inventory

ReadSoFar ==
  \A o \in Orgs : FirstUnread(o) =>
    \A l \in Logins \ touched : l \in members[o] /\ l <= cursor => Shown(l) \subseteq page

SignupsUnknown == \A t \in targets : t.rule = 10 => \A a \in t.addrs : a \notin Known

Strangers == ReadInFull /\ ReadSoFar /\ SignupsUnknown

(* Members up to one of a page are on this page or an earlier one.         *)
LEMMA PageIsPrefix ==
  ASSUME Types, NEW o \in Orgs, NEW k \in NextPage(o), NEW l \in Ahead(o), l <= k
  PROVE  l \in NextPage(o)
<1>1. Ahead(o) \subseteq Logins /\ Ahead(o) \subseteq Nat /\ k \in Ahead(o) /\ k \in Nat
      /\ Cardinality({m \in Ahead(o) : m <= k}) <= PageSize
  BY NoneIsNobody DEF NextPage, Ahead, Types, TypeOK
<1>2. IsFiniteSet(Ahead(o))
  BY <1>1, CampaignAssumption, FS_Subset
<1>3. IsFiniteSet({m \in Ahead(o) : m <= k})
  BY <1>2, FS_Subset
<1>4. {m \in Ahead(o) : m <= l} \subseteq {m \in Ahead(o) : m <= k}
  BY <1>1
<1>5. /\ IsFiniteSet({m \in Ahead(o) : m <= l})
      /\ Cardinality({m \in Ahead(o) : m <= l}) <= Cardinality({m \in Ahead(o) : m <= k})
  BY <1>3, <1>4, FS_Subset
<1>6. /\ Cardinality({m \in Ahead(o) : m <= l}) \in Nat
      /\ Cardinality({m \in Ahead(o) : m <= k}) \in Nat
  BY <1>3, <1>5, FS_CardinalityType
<1>7. Cardinality({m \in Ahead(o) : m <= l}) <= PageSize
  BY <1>1, <1>5, <1>6, CampaignAssumption
<1> QED BY <1>7 DEF NextPage

LEMMA FirstIsOne ==
  ASSUME NEW o \in Orgs, NEW p \in Orgs, FirstUnread(o), FirstUnread(p)
  PROVE  o = p
<1>1. o <= p /\ p <= o /\ o \in Nat /\ p \in Nat
  BY NoneIsNobody DEF FirstUnread
<1> QED BY <1>1

LEMMA PageStrangers ==
  ASSUME Types, Strangers, NEW r \in Rules, ReadPage(r)
  PROVE  Strangers'
<1>1. PICK o \in Orgs :
        /\ FirstUnread(o) /\ ReadsPage(o)
        /\ NextPage(o) \subseteq members[o] /\ members[o] \subseteq Logins
        /\ PagesOf(o) \subseteq Accounts
  BY PageStep
<1>2. /\ pc = "assess" /\ targets = {}
      /\ UNCHANGED <<members, emails, verified, listed, touched, targets>>
  BY DEF ReadPage, Current, world, mailing, Types, Phases
<1>3. SignupsUnknown'
  BY <1>2 DEF SignupsUnknown
<1>4. \A l : Shown(l)' = Shown(l)
  BY <1>2 DEF Shown
<1>5. cursor \in Nat /\ Logins \subseteq Nat /\ \A l \in Logins : ~(l <= None)
  <2>1. \A l \in Logins : l \in Nat /\ l # 0
    BY CampaignAssumption
  <2> QED BY <2>1, NoneIsNobody DEF Types, TypeOK, None
<1>6. \A l \in members[o] : l <= cursor \/ l \in Ahead(o)
  <2> TAKE l \in members[o]
  <2>1. l \in Nat
    BY <1>1, <1>5
  <2>2. l <= cursor \/ l > cursor
    BY <1>5, <2>1
  <2> QED BY <2>2 DEF Ahead
<1>7. \A l \in NextPage(o) : Shown(l) \subseteq PagesOf(o)
  BY DEF PagesOf
<1>8. \A l \in Logins \ touched : l \in members[o] /\ l <= cursor => Shown(l) \subseteq PagesOf(o)
  BY <1>1 DEF Strangers, ReadSoFar, PagesOf
<1>9. CASE unread' = Unreadable(o) /\ cursor' = None /\ UNCHANGED <<read, inventory>>
  <2>1. ReadInFull'
    BY <1>2, <1>4, <1>9 DEF Strangers, ReadInFull
  <2>2. ReadSoFar'
    BY <1>5, <1>9 DEF ReadSoFar
  <2> QED BY <1>3, <2>1, <2>2 DEF Strangers
<1>10. CASE /\ ~More(o)
            /\ read' = read \cup {o} /\ cursor' = None
            /\ inventory' = inventory \cup PagesOf(o)
  <2>1. \A l \in Logins \ touched : l \in members[o] => Shown(l) \subseteq PagesOf(o)
    BY <1>6, <1>7, <1>8, <1>10 DEF More
  <2>2. ReadInFull'
    BY <1>2, <1>4, <1>10, <2>1 DEF Strangers, ReadInFull
  <2>3. ReadSoFar'
    BY <1>5, <1>10 DEF ReadSoFar
  <2> QED BY <1>3, <2>2, <2>3 DEF Strangers
<1>11. CASE /\ page' = PagesOf(o) /\ cursor' \in NextPage(o)
            /\ UNCHANGED <<read, unread, inventory>>
  <2>1. \A l \in members[o] : l <= cursor' => l <= cursor \/ l \in NextPage(o)
    BY <1>6, <1>11, PageIsPrefix
  <2>2. \A l \in Logins \ touched : l \in members[o] /\ l <= cursor' => Shown(l) \subseteq page'
    BY <1>7, <1>8, <1>11, <2>1
  <2>3. \A p \in Orgs : FirstUnread(p)' => p = o
    BY <1>1, <1>2, <1>11, FirstIsOne DEF FirstUnread
  <2>4. ReadSoFar'
    BY <1>2, <1>4, <2>2, <2>3 DEF ReadSoFar
  <2>5. ReadInFull'
    BY <1>2, <1>4, <1>11 DEF Strangers, ReadInFull
  <2> QED BY <1>3, <2>4, <2>5 DEF Strangers
<1> QED BY <1>1, <1>9, <1>10, <1>11 DEF ReadsPage

LEMMA ChangeStrangers ==
  ASSUME Types, Strangers, Change
  PROVE  Strangers'
<1>1. PICK l0 \in Logins : touched' = touched \cup {l0} /\ Changes(l0)
  BY DEF Change, Changes
<1>2. UNCHANGED <<listed, read, unread, inventory, cursor, page, verified, targets>>
  BY DEF Change, cache, mailing
<1>3. \A l \in Logins \ touched' : emails'[l] = emails[l]
  BY <1>1 DEF Changes, Types, TypeOK
<1>4. \A l \in Logins \ touched' : \A o \in Orgs : l \in members'[o] <=> l \in members[o]
  <2>1. CASE members' = members
    BY <2>1
  <2>2. CASE \E o \in Orgs : members' = [members EXCEPT ![o] = IF l0 \in @ THEN @ \ {l0} ELSE @ \cup {l0}]
    BY <1>1, <2>2 DEF Types, TypeOK
  <2> QED BY <1>1, <2>1, <2>2 DEF Changes
<1>5. \A l \in Logins \ touched' : Shown(l)' = Shown(l)
  BY <1>2, <1>3 DEF Shown
<1>6. read \subseteq Orgs
  BY DEF Types, TypeOK
<1>7. ReadInFull'
  BY <1>1, <1>2, <1>4, <1>5, <1>6 DEF Strangers, ReadInFull
<1>8. ReadSoFar'
  BY <1>1, <1>2, <1>4, <1>5 DEF Strangers, ReadSoFar, FirstUnread
<1>9. SignupsUnknown'
  BY <1>2 DEF Strangers, SignupsUnknown, Known, Carried
<1> QED BY <1>7, <1>8, <1>9 DEF Strangers

(* Nothing is read.                                                        *)
NothingRead ==
  /\ UNCHANGED <<world, read, unread, inventory, cursor, page, touched>>
  /\ listed' = listed \/ cursor = None
  /\ targets' = targets \/ targets' = {}

LEMMA SameStrangers ==
  ASSUME Strangers, NothingRead
  PROVE  Strangers'
<1> USE DEF NothingRead
<1>1. \A l : Shown(l)' = Shown(l)
  BY DEF Shown, world
<1>2. UNCHANGED <<members, Known>>
  BY DEF Known, Carried, world
<1>3. ReadInFull'
  BY <1>1, <1>2 DEF Strangers, ReadInFull
<1>4. SignupsUnknown'
  BY <1>2 DEF Strangers, SignupsUnknown
<1>5. ReadSoFar'
  <2>1. CASE listed' = listed
    BY <1>1, <1>2, <2>1 DEF Strangers, ReadSoFar, FirstUnread
  <2>2. CASE cursor = None
    <3>1. \A l \in Logins : ~(l <= None)
      BY CampaignAssumption DEF None
    <3> QED BY <2>2, <3>1 DEF ReadSoFar
  <2> QED BY <2>1, <2>2
<1> QED BY <1>3, <1>4, <1>5 DEF Strangers

LEMMA NextStrangers ==
  ASSUME Types, Judged, Strangers, [Next]_vars
  PROVE  Strangers'
<1>1. CASE Begin
  <2>1. \A l \in Logins : ~(l <= None)
    BY CampaignAssumption DEF None
  <2>2. read' = {} /\ cursor' = None /\ targets' = {}
    BY <1>1 DEF Begin, NewCache
  <2> QED BY <2>1, <2>2 DEF Strangers, ReadInFull, ReadSoFar, SignupsUnknown
<1>2. CASE List
  <2>1. cursor = None
    BY <1>2 DEF List, Types, Phases
  <2>2. NothingRead
    BY <1>2, <2>1 DEF List, mailing, NothingRead
  <2> QED BY <2>2, SameStrangers
<1>3. CASE \E r \in Rules : ReadDomains(r) \/ ReadSSO(r) \/ Assess(r)
  <2>1. NothingRead
    BY <1>3 DEF ReadDomains, ReadSSO, Assess, KeepCache, cache, mailing, NothingRead
  <2> QED BY <2>1, SameStrangers
<1>4. CASE Collect
  <2>1. UNCHANGED <<world, read, unread, inventory, cursor, page, touched, listed>>
    BY <1>4 DEF Collect, cache
  <2>2. \A t \in targets' : \E r \in {7, 8, 9, 10} : t \in Rows(r)
    BY <1>4 DEF Collect
  <2>3. \A t \in targets' : t.rule = 10 => t \in Rows(10)
    BY <2>2, RowsAreEvidence
  <2>4. \A t \in targets' : t.rule = 10 => \A a \in t.addrs : a \notin Known
    BY <2>3, RowsAreEvidence DEF Judged
  <2>5. SignupsUnknown'
    BY <2>1, <2>4 DEF SignupsUnknown, Known, Carried
  <2>6. ReadInFull' /\ ReadSoFar'
    <3>1. (\A l : Shown(l)' = Shown(l)) /\ members' = members
      BY <2>1 DEF Shown, world
    <3> QED BY <2>1, <3>1 DEF Strangers, ReadInFull, ReadSoFar, FirstUnread
  <2> QED BY <2>5, <2>6 DEF Strangers
<1>5. CASE WriteFile \/ Mail \/ Finish \/ Crash \/ UNCHANGED vars
  <2>1. NothingRead
    BY <1>5 DEF WriteFile, Mail, Finish, Crash, vars, cache, mailing, NothingRead
  <2> QED BY <2>1, SameStrangers
<1> QED BY <1>1, <1>2, <1>3, <1>4, <1>5, PageStrangers, ChangeStrangers DEF Next, Step

(* A confirmed signup is nobody's that was a member throughout, exempt or  *)
(* not, if every organization was read and the domain is verified.         *)
THEOREM StrangersAreStrangers == Spec => []StrangersWhenAllRead
<1>1. Init => Strangers
  BY DEF Init, Strangers, ReadInFull, ReadSoFar, SignupsUnknown, FirstUnread
<1>2. Types /\ Judged /\ Strangers /\ [Next]_vars => Strangers'
  BY NextStrangers
<1>3. Types /\ Strangers => StrangersWhenAllRead
  <2> SUFFICES ASSUME Types, Strangers, read = Orgs, NEW t \in targets, t.rule = 10,
                      NEW l \in Logins \ touched, NEW a \in t.addrs,
                      a \in emails[l], DomainOf[a] \in verified,
                      NEW o \in Orgs, l \in members[o]
               PROVE  FALSE
    BY DEF StrangersWhenAllRead
  <2>1. <<l, a>> \in Shown(l)
    BY DEF Shown
  <2>2. <<l, a>> \in inventory
    BY <2>1 DEF Strangers, ReadInFull
  <2>3. a # None
    BY NoneIsNobody DEF Types, TypeOK
  <2>4. a \in Known
    BY <2>2, <2>3 DEF Known, Carried
  <2> QED BY <2>4 DEF Strangers, SignupsUnknown
<1>4. Init => Judged
  BY DEF Init, Judged, Rules
<1>5. Types /\ Judged /\ [Next]_vars => Judged'
  BY NextJudged
<1> QED BY <1>1, <1>2, <1>3, <1>4, <1>5, AlwaysTypes, PTL DEF Spec

-----------------------------------------------------------------------------
(* Who complied.  A dropped address is not shown again, so whatever a      *)
(* campaign has read of it was read before it was dropped.                 *)
Fresh(l, a) == \A d \in dropped : d[1] = l /\ d[2] = a => d[3] >= campaigns

Gone == \A d \in dropped : d[2] \notin emails[d[1]]

ReadFresh == \A x \in page \cup inventory : Fresh(x[1], x[2])

TargetsFresh == \A t \in targets : t.rule = 7 => \A a \in t.addrs : Fresh(t.login, a)

Complied == Gone /\ ReadFresh /\ TargetsFresh /\ CompliedNotWarnedAgain

LEMMA SameComplied ==
  ASSUME Complied, UNCHANGED <<emails, page, inventory, dropped, campaigns, mails>>,
         targets' = targets \/ targets' = {}
  PROVE  Complied'
<1>1. \A l, a : Fresh(l, a) <=> Fresh(l, a)'
  BY DEF Fresh
<1>2. Gone' /\ CompliedNotWarnedAgain'
  BY DEF Complied, Gone, CompliedNotWarnedAgain
<1>3. ReadFresh'
  BY <1>1 DEF Complied, ReadFresh
<1>4. TargetsFresh'
  BY <1>1 DEF Complied, TargetsFresh
<1> QED BY <1>2, <1>3, <1>4 DEF Complied

LEMMA PageComplied ==
  ASSUME Types, Complied, NEW r \in Rules, ReadPage(r)
  PROVE  Complied'
<1>1. PICK o \in Orgs :
        /\ FirstUnread(o) /\ ReadsPage(o)
        /\ NextPage(o) \subseteq members[o] /\ members[o] \subseteq Logins
        /\ PagesOf(o) \subseteq Accounts
  BY PageStep
<1>2. UNCHANGED <<emails, dropped, campaigns, mails, targets>>
  BY DEF ReadPage, world, mailing
<1>3. \A l, a : Fresh(l, a) <=> Fresh(l, a)'
  BY <1>2 DEF Fresh
<1>4. \A d \in dropped : d[2] # None
  BY NoneIsNobody DEF Types, TypeOK
<1>5. \A l \in NextPage(o) : \A x \in Shown(l) : Fresh(x[1], x[2])
  <2> SUFFICES ASSUME NEW l \in NextPage(o), NEW x \in Shown(l) PROVE Fresh(x[1], x[2])
    OBVIOUS
  <2>1. x[1] = l /\ x[2] \in emails[l] \cup {None}
    BY DEF Shown
  <2>2. \A d \in dropped : ~(d[1] = l /\ d[2] = x[2])
    BY <1>4, <2>1 DEF Complied, Gone
  <2> QED BY <2>1, <2>2 DEF Fresh
<1>6. \A x \in PagesOf(o) : Fresh(x[1], x[2])
  BY <1>5 DEF PagesOf, Complied, ReadFresh
<1>7. page' \cup inventory' \subseteq inventory \cup PagesOf(o)
  BY <1>1 DEF ReadsPage
<1>8. ReadFresh'
  BY <1>3, <1>6, <1>7 DEF Complied, ReadFresh
<1>9. TargetsFresh'
  BY <1>2, <1>3 DEF Complied, TargetsFresh
<1> QED BY <1>2, <1>8, <1>9 DEF Complied, Gone, CompliedNotWarnedAgain

LEMMA MailComplied ==
  ASSUME Types, Complied, Mail
  PROVE  Complied'
<1>1. PICK t \in left : /\ MailsTo(t) /\ t \in targets
                        /\ Mailbox(t) \subseteq t.addrs
  BY MailStep
<1>2. UNCHANGED <<emails, page, inventory, dropped, campaigns, targets>>
  BY MailStep DEF world, cache
<1>3. \A l, a : Fresh(l, a) <=> Fresh(l, a)'
  BY <1>2 DEF Fresh
<1>4. \A m \in mails' : \/ m \in mails
                        \/ /\ m.campaign = campaigns /\ m.target = t
                           /\ m.to \in t.addrs
  BY <1>1 DEF MailsTo
<1>5. CompliedNotWarnedAgain'
  <2> SUFFICES ASSUME NEW m \in mails', m.target.rule = 7,
                      NEW d \in dropped, d[1] = m.target.login, d[2] = m.to
               PROVE  d[3] >= m.campaign
    BY <1>2 DEF CompliedNotWarnedAgain
  <2>1. CASE m \in mails
    BY <2>1 DEF Complied, CompliedNotWarnedAgain
  <2>2. CASE m.campaign = campaigns /\ m.target = t /\ m.to \in t.addrs
    <3>1. Fresh(t.login, m.to)
      BY <1>1, <2>2 DEF Complied, TargetsFresh
    <3> QED BY <2>2, <3>1 DEF Fresh
  <2> QED BY <1>4, <2>1, <2>2
<1>6. ReadFresh' /\ TargetsFresh' /\ Gone'
  BY <1>2, <1>3 DEF Complied, ReadFresh, TargetsFresh, Gone
<1> QED BY <1>5, <1>6 DEF Complied

LEMMA ChangeComplied ==
  ASSUME Types, Complied, Change
  PROVE  Complied'
<1>1. PICK l \in Logins : Changes(l)
  BY DEF Change, Changes
<1>2. UNCHANGED <<page, inventory, campaigns, targets, mails>>
  BY DEF Change, cache, mailing
<1>3. campaigns \in Nat
  BY CampaignAssumption DEF Types, TypeOK
<1>4. \A d \in dropped' : d \in dropped \/ d[3] = campaigns
  BY <1>1 DEF Changes
<1>5. \A k, a : Fresh(k, a) => Fresh(k, a)'
  BY <1>2, <1>3, <1>4 DEF Fresh
<1>6. ReadFresh' /\ TargetsFresh'
  BY <1>2, <1>5 DEF Complied, ReadFresh, TargetsFresh
<1>7. Gone'
  <2>1. dropped \subseteq Logins \X Addrs \X (0..MaxCampaigns)
    BY DEF Types, TypeOK
  <2>2. CASE UNCHANGED <<emails, dropped>>
    BY <2>2 DEF Complied, Gone
  <2>3. ASSUME NEW a \in emails[l],
               emails' = [emails EXCEPT ![l] = @ \ {a}],
               dropped' = dropped \cup {<<l, a, campaigns>>}
        PROVE  Gone'
    <3>1. \A k \in Logins : emails'[k] \subseteq emails[k]
      BY <2>3 DEF Types, TypeOK
    <3>2. a \notin emails'[l]
      BY <2>3 DEF Types, TypeOK
    <3>3. \A d \in dropped : d[1] \in Logins
      BY <2>1
    <3> QED BY <2>3, <3>1, <3>2, <3>3 DEF Complied, Gone
  <2> QED BY <1>1, <2>2, <2>3 DEF Changes
<1>8. CompliedNotWarnedAgain'
  <2>1. \A m \in mails : m.campaign \in Nat /\ m.campaign <= campaigns
    BY DEF Types, TypeOK, Phases
  <2>2. \A m \in mails : \A d \in dropped' : d \in dropped \/ d[3] >= m.campaign
    BY <1>3, <1>4, <2>1
  <2> QED BY <1>2, <2>2 DEF Complied, CompliedNotWarnedAgain
<1> QED BY <1>6, <1>7, <1>8 DEF Complied

LEMMA NextComplied ==
  ASSUME Types, Judged, Complied, [Next]_vars
  PROVE  Complied'
<1>1. CASE Begin
  <2>1. page' = {} /\ inventory' = {} /\ targets' = {} /\ UNCHANGED <<emails, dropped, mails>>
    BY <1>1 DEF Begin, NewCache, world
  <2> QED BY <2>1 DEF Complied, Gone, ReadFresh, TargetsFresh, CompliedNotWarnedAgain
<1>2. CASE Collect
  <2>1. UNCHANGED <<emails, page, inventory, dropped, campaigns, mails>>
    BY <1>2 DEF Collect, world, cache
  <2>2. \A l, a : Fresh(l, a) <=> Fresh(l, a)'
    BY <2>1 DEF Fresh
  <2>3. \A t \in targets' : t.rule = 7 => t \in Rows(7)
    <3>1. \A t \in targets' : \E r \in {7, 8, 9, 10} : t \in Rows(r)
      BY <1>2 DEF Collect
    <3> QED BY <3>1, RowsAreEvidence
  <2>4. \A x \in found[7] : Fresh(x[1], x[2])
    BY DEF Judged, Carried, Complied, ReadFresh
  <2>5. \A t \in targets' : t.rule = 7 => \A a \in t.addrs : Fresh(t.login, a)
    BY <2>3, <2>4, RowsAreEvidence
  <2>6. TargetsFresh'
    BY <2>2, <2>5 DEF TargetsFresh
  <2>7. ReadFresh'
    BY <2>1, <2>2 DEF Complied, ReadFresh
  <2> QED BY <2>1, <2>6, <2>7 DEF Complied, Gone, CompliedNotWarnedAgain
<1>3. CASE \E r \in Rules : ReadDomains(r) \/ ReadSSO(r) \/ Assess(r)
  <2>1. UNCHANGED <<emails, page, inventory, dropped, campaigns, mails, targets>>
    BY <1>3 DEF ReadDomains, ReadSSO, Assess, KeepCache, cache, world, mailing
  <2> QED BY <2>1, SameComplied
<1>4. CASE List \/ WriteFile \/ Finish \/ Crash \/ UNCHANGED vars
  <2>1. /\ UNCHANGED <<emails, page, inventory, dropped, campaigns, mails>>
        /\ targets' = targets \/ targets' = {}
    BY <1>4 DEF List, WriteFile, Finish, Crash, vars, cache, world, mailing
  <2> QED BY <2>1, SameComplied
<1> QED BY <1>1, <1>2, <1>3, <1>4, PageComplied, MailComplied, ChangeComplied DEF Next, Step

(* Who has dropped an address before a campaign began is not mailed there  *)
(* by it as a member: what a campaign goes by it has read itself.          *)
THEOREM CompliedSpared == Spec => []CompliedNotWarnedAgain
<1>1. Init => Complied /\ Judged
  BY DEF Init, Complied, Gone, ReadFresh, TargetsFresh, CompliedNotWarnedAgain, Judged, Rules
<1>2. Types /\ Judged /\ Complied /\ [Next]_vars => Complied' /\ Judged'
  BY NextComplied, NextJudged
<1>3. Complied => CompliedNotWarnedAgain
  BY DEF Complied
<1> QED BY <1>1, <1>2, <1>3, AlwaysTypes, PTL DEF Spec

-----------------------------------------------------------------------------
(* A campaign only goes forward.                                           *)

LEMMA StageRises ==
  /\ pc = "list" => Stage = 1
  /\ pc = "assess" => Stage = 2
  /\ pc = "write" => Stage = 3
  /\ pc = "mail" => Stage = 4
  /\ pc = "hung" => Stage = 5
  /\ pc = "idle" => Stage = 6
BY DEF Stage

LEMMA NextStageRises ==
  /\ pc' = "assess" => Stage' = 2
  /\ pc' = "write" => Stage' = 3
  /\ pc' = "mail" => Stage' = 4
  /\ pc' = "hung" => Stage' = 5
  /\ pc' = "idle" => Stage' = 6
  /\ pc' = pc => Stage' = Stage
BY DEF Stage

(* The next page is of those after the cursor, so that its last member is  *)
(* after it too, and an organization that was tried is not tried again.    *)
LEMMA PageGoesForward ==
  ASSUME TypeOK, NEW r \in Rules, ReadPage(r)
  PROVE  Tried \subseteq Tried' /\ (Tried' # Tried \/ cursor' > cursor)
<1>1. PICK o \in listed \ (read \cup unread) :
        \/ unread' = unread \cup {o} /\ read' = read
        \/ read' = read \cup {o} /\ unread' = unread
        \/ read' = read /\ unread' = unread /\ cursor' \in NextPage(o)
  BY DEF ReadPage, Unreadable
<1>2. CASE Tried' = Tried \cup {o}
  BY <1>1, <1>2 DEF Tried
<1>3. CASE read' = read /\ unread' = unread /\ cursor' \in NextPage(o)
  BY <1>3 DEF Tried, NextPage, Ahead
<1> QED BY <1>1, <1>2, <1>3 DEF Tried

(* Each step of a campaign brings it forward and undoes nothing.           *)
THEOREM AlwaysForward == Spec => CampaignsGoForward
<1> DEFINE Forward ==
      \/ Stage' > Stage
      \/ /\ Stage' = Stage
         /\ todo' \subseteq todo /\ asked \subseteq asked'
         /\ Tried \subseteq Tried' /\ left' \subseteq left
         /\ \/ todo' # todo \/ asked' # asked \/ Tried' # Tried \/ left' # left
            \/ cursor' > cursor
<1>1. ASSUME TypeOK, Step PROVE Forward
  <2>1. CASE List
    <3>1. Stage = 1 /\ Stage' = 2
      BY <2>1, StageRises, NextStageRises DEF List
    <3> QED BY <3>1
  <2>2. ASSUME NEW r \in Rules, ReadDomains(r) \/ ReadSSO(r) PROVE Forward
    <3>1. /\ asked \subseteq asked' /\ asked' # asked
          /\ pc' = pc /\ todo' = todo /\ left' = left /\ read' = read /\ unread' = unread
      BY <2>2 DEF ReadDomains, ReadSSO, mailing
    <3> QED BY <3>1, NextStageRises DEF Tried
  <2>3. ASSUME NEW r \in Rules, ReadPage(r) PROVE Forward
    <3>1. pc' = pc /\ todo' = todo /\ left' = left /\ asked' = asked
      BY <2>3 DEF ReadPage, mailing
    <3> QED BY <1>1, <2>3, <3>1, PageGoesForward, NextStageRises
  <2>4. ASSUME NEW r \in Rules, Assess(r) PROVE Forward
    <3>1. /\ todo' \subseteq todo /\ todo' # todo
          /\ pc' = pc /\ left' = left /\ asked' = asked /\ read' = read /\ unread' = unread
      BY <2>4 DEF Assess, Current, KeepCache, cache, mailing
    <3> QED BY <3>1, NextStageRises DEF Tried
  <2>5. CASE Collect
    <3>1. Stage = 2 /\ Stage' \in {3, 6}
      BY <2>5, StageRises, NextStageRises DEF Collect
    <3> QED BY <3>1
  <2>6. CASE WriteFile
    <3>1. Stage = 3 /\ Stage' \in {4, 6}
      BY <2>6, StageRises, NextStageRises DEF WriteFile, AfterFile
    <3> QED BY <3>1
  <2>7. CASE Mail
    <3>1. /\ Stage = 4 /\ Stage' \in {4, 5, 6} /\ left' \subseteq left /\ left' # left
          /\ todo' = todo /\ asked' = asked /\ read' = read /\ unread' = unread
      BY <2>7, StageRises, NextStageRises DEF Mail, AfterMail, cache
    <3> QED BY <3>1 DEF Tried
  <2>8. CASE Finish
    <3>1. Stage = 4 /\ Stage' = 6
      BY <2>8, StageRises, NextStageRises DEF Finish
    <3> QED BY <3>1
  <2> QED BY <1>1, <2>1, <2>2, <2>3, <2>4, <2>5, <2>6, <2>7, <2>8 DEF Step
<1>2. TypeOK /\ [Next]_vars => [Step => Forward]_vars
  BY <1>1
<1> QED
  BY <1>2, TypeCorrect, PTL DEF Spec, CampaignsGoForward

-----------------------------------------------------------------------------
(* The promise of Outbox is kept.                                          *)

LEMMA PhaseOfPlace ==
  /\ pc = "idle" => Phase = "over"
  /\ pc \in {"list", "assess"} => Phase = "filling"
  /\ pc = "write" => Phase = "sealed"
  /\ pc \in {"mail", "hung"} => Phase = "mailing"
BY Zenon DEF Phase

LEMMA PhaseOfNextPlace ==
  /\ pc' = "idle" => Phase' = "over"
  /\ pc' \in {"list", "assess"} => Phase' = "filling"
  /\ pc' = "write" => Phase' = "sealed"
  /\ pc' \in {"mail", "hung"} => Phase' = "mailing"
BY Zenon DEF Phase

(* What steps of a campaign leave alone that read, assess or are not its.  *)
LEMMA SameOutbox ==
  ASSUME UNCHANGED <<policy, campaigns, targets, left, file, failed, mails>>, Phase' = Phase
  PROVE  UNCHANGED Promise!outboxVars
<1>1. Delivered' = Delivered
  BY DEF Delivered
<1>2. policy.out' = policy.out
  OBVIOUS
<1> QED BY <1>1, <1>2 DEF Promise!outboxVars

LEMMA MailDelivers ==
  ASSUME Types, Counts, Mail
  PROVE  Promise!Deliver
<1>1. PICK t \in left : /\ \A u \in left : Precedes(t, u)
                        /\ left' = left \ {t} /\ MailsTo(t) /\ t \in targets
  BY MailStep
<1>2. pc = "mail" /\ UNCHANGED <<policy, campaigns, targets, file>>
  BY MailStep
<1>3. policy.out => t \in file
  BY <1>1, <1>2 DEF Types, Phases
<1>4. \A m \in mails : m.campaign = campaigns => m.target # t /\ Precedes(m.target, t)
  BY <1>1, <1>2 DEF Counts, Mine
<1>5. <<campaigns, t>> \notin Delivered
  BY <1>4 DEF Delivered
<1>6. \A d \in Delivered : d[1] = campaigns => Precedes(d[2], t)
  BY <1>4 DEF Delivered
<1>7. /\ Delivered' \in {Delivered, Delivered \cup {<<campaigns, t>>}}
      /\ failed' \in BOOLEAN /\ Phase' = IF failed' THEN "over" ELSE "mailing"
  <2>1. CASE Mailbox(t) = {} /\ skipped' = skipped + 1 /\ UNCHANGED <<pc, sent, failed, mails>>
    <3>1. Delivered' = Delivered
      BY <2>1 DEF Delivered
    <3>2. failed' \in BOOLEAN /\ ~failed'
      BY <1>2, <2>1 DEF Types, TypeOK, Phases
    <3>3. Phase' = "mailing"
      BY <1>2, <2>1, PhaseOfNextPlace
    <3> QED BY <3>1, <3>2, <3>3
  <2>2. ASSUME NEW a \in Mailbox(t), NEW outcome \in {"sent", "error", "silent"},
               NEW taken \in BOOLEAN,
               failed' = (outcome = "error"),
               mails' = IF taken
                        THEN mails \cup {[campaign |-> campaigns, target |-> t, to |-> a]}
                        ELSE mails,
               pc' = AfterMail(outcome)
        PROVE  /\ Delivered' \in {Delivered, Delivered \cup {<<campaigns, t>>}}
               /\ failed' \in BOOLEAN /\ Phase' = IF failed' THEN "over" ELSE "mailing"
    <3>1. PICK m0 : m0 = [campaign |-> campaigns, target |-> t, to |-> a]
      OBVIOUS
    <3>2. m0.campaign = campaigns /\ m0.target = t
      BY <3>1
    <3>3. mails' = mails \/ mails' = mails \cup {m0}
      BY <2>2, <3>1
    <3>4. Delivered' = Delivered \/ Delivered' = Delivered \cup {<<campaigns, t>>}
      BY <3>2, <3>3 DEF Delivered
    <3>5. failed' => pc' = "idle"
      BY <2>2 DEF AfterMail
    <3>6. ~failed' => pc' \in {"mail", "hung"}
      BY <2>2 DEF AfterMail
    <3>7. failed' \in BOOLEAN
      BY <2>2
    <3> QED BY <3>4, <3>5, <3>6, <3>7, PhaseOfNextPlace
  <2> QED BY <1>1, <2>1, <2>2 DEF MailsTo
<1>8. Phase = "mailing" /\ policy.out' = policy.out
  BY <1>2, PhaseOfPlace
<1> QED BY <1>1, <1>2, <1>3, <1>5, <1>6, <1>7, <1>8 DEF Promise!Deliver

(* What is mailed to whom is decided by steps that are none of Outbox.     *)
LEMMA StepMails ==
  ASSUME Types, Types', Counts, [Next]_vars
  PROVE  [Promise!OutboxNext]_Promise!outboxVars
<1>1. CASE Begin
  <2>1. /\ pc = "idle" /\ pc' = "list" /\ campaigns' = campaigns + 1
        /\ targets' = {} /\ left' = {} /\ ~failed'
        /\ UNCHANGED <<policy, file, mails>>
    BY <1>1 DEF Begin
  <2>2. Phase = "over" /\ Phase' = "filling"
    BY <2>1, PhaseOfPlace, PhaseOfNextPlace
  <2>3. UNCHANGED <<policy.out, file, Delivered>>
    BY <2>1 DEF Delivered
  <2>4. Promise!NewRound
    BY <2>1, <2>2, <2>3 DEF Promise!NewRound
  <2> QED BY <2>4 DEF Promise!OutboxNext
<1>2. CASE Collect
  <2>1. /\ pc = "assess" /\ pc' \in {"idle", "write"} /\ left' = targets'
        /\ UNCHANGED <<policy, campaigns, file, failed, mails>>
    BY <1>2 DEF Collect
  <2>2. Phase = "filling" /\ Phase' \in {"sealed", "over"}
    BY <2>1, PhaseOfPlace, PhaseOfNextPlace
  <2>3. UNCHANGED <<policy.out, Delivered>>
    BY <2>1 DEF Delivered
  <2>4. targets' \subseteq Target
    BY DEF Types, TypeOK
  <2>5. Promise!Seal
    BY <2>1, <2>2, <2>3, <2>4 DEF Promise!Seal
  <2> QED BY <2>5 DEF Promise!OutboxNext
<1>3. CASE WriteFile
  <2>1. /\ pc = "write"
        /\ UNCHANGED <<policy, campaigns, targets, left, failed, mails>>
    BY <1>3 DEF WriteFile
  <2>2. PICK ok \in BOOLEAN :
          /\ ~policy.out => ok
          /\ file' \in IF ~policy.out THEN {file} ELSE IF ok THEN {targets} ELSE {file, {}}
          /\ pc' = AfterFile(ok)
    BY <1>3 DEF WriteFile
  <2>3. pc' \in {"mail", "idle"} /\ (pc' = "mail" => ok)
    BY <2>2 DEF AfterFile
  <2>4. Phase = "sealed" /\ Phase' \in {"mailing", "over"} /\ (Phase' = "mailing" => ok)
    BY <2>1, <2>3, PhaseOfPlace, PhaseOfNextPlace
  <2>5. UNCHANGED <<policy.out, Delivered>>
    BY <2>1 DEF Delivered
  <2>6. IF policy.out THEN file' \in {targets, file, {}} ELSE file' = file
    BY <2>2
  <2>7. Phase' = "mailing" /\ policy.out => file' = targets
    BY <2>2, <2>4
  <2>8. Promise!Shelve
    BY <2>1, <2>4, <2>5, <2>6, <2>7 DEF Promise!Shelve
  <2> QED BY <2>8 DEF Promise!OutboxNext
<1>4. CASE Mail
  BY <1>4, MailDelivers DEF Promise!OutboxNext
<1>5. CASE Finish
  <2>1. /\ pc = "mail" /\ left = {} /\ pc' = "idle"
        /\ UNCHANGED <<policy, campaigns, targets, left, file, failed, mails>>
    BY <1>5 DEF Finish, mailing
  <2>2. Phase = "mailing" /\ Phase' = "over"
    BY <2>1, PhaseOfPlace, PhaseOfNextPlace
  <2>3. UNCHANGED <<policy.out, Delivered>>
    BY <2>1 DEF Delivered
  <2>4. Promise!Close
    BY <2>1, <2>2, <2>3 DEF Promise!Close
  <2> QED BY <2>4 DEF Promise!OutboxNext
<1>6. CASE Crash
  <2>1. /\ pc # "idle" /\ pc' = "idle" /\ targets' = {} /\ left' = {} /\ ~failed'
        /\ UNCHANGED <<policy, campaigns, file, mails>>
    BY <1>6 DEF Crash
  <2>2. pc \in {"list", "assess", "write", "mail", "hung"}
    BY <2>1 DEF Types, TypeOK
  <2>3. Phase # "over" /\ Phase' = "over"
    BY <2>1, <2>2, PhaseOfPlace, PhaseOfNextPlace
  <2>4. UNCHANGED <<policy.out, Delivered>>
    BY <2>1 DEF Delivered
  <2>5. Promise!Crash
    BY <2>1, <2>3, <2>4 DEF Promise!Crash
  <2> QED BY <2>5 DEF Promise!OutboxNext
<1>7. CASE List
  <2>1. /\ pc = "list" /\ pc' = "assess"
        /\ UNCHANGED <<policy, campaigns, targets, left, file, failed, mails>>
    BY <1>7 DEF List, mailing
  <2>2. Phase' = Phase
    BY <2>1, PhaseOfPlace, PhaseOfNextPlace
  <2> QED BY <2>1, <2>2, SameOutbox
<1>8. CASE \/ \E r \in Rules : ReadDomains(r) \/ ReadSSO(r) \/ ReadPage(r) \/ Assess(r)
           \/ Change \/ UNCHANGED vars
  <2>1. UNCHANGED <<pc, policy, campaigns, targets, left, file, failed, mails>>
    BY <1>8 DEF ReadDomains, ReadSSO, ReadPage, Assess, Change, vars, mailing
  <2>2. Phase' = Phase
    BY <2>1 DEF Phase
  <2> QED BY <2>1, <2>2, SameOutbox
<1> QED BY <1>1, <1>2, <1>3, <1>4, <1>5, <1>6, <1>7, <1>8 DEF Next, Step

(* A campaign is a mailing of Outbox, wherever it is killed and whatever   *)
(* people do meanwhile: recorded first, in order, no entry of the list     *)
(* twice, and none after a failure.                                        *)
THEOREM CampaignsKeepPromise == Spec => ImplementsOutbox
<1>1. Init => Promise!OutboxInit
  <2> SUFFICES ASSUME Init PROVE Promise!OutboxInit
    OBVIOUS
  <2>1. policy.out \in BOOLEAN
    BY InitTypes DEF Types, TypeOK, Policy
  <2>2. Phase = "over"
    BY PhaseOfPlace DEF Init
  <2>3. Delivered = {}
    BY DEF Init, Delivered
  <2> QED BY <2>1, <2>2, <2>3 DEF Init, Promise!OutboxInit
<1>2. Types /\ Types' /\ Counts /\ [Next]_vars => [Promise!OutboxNext]_Promise!outboxVars
  BY StepMails
<1> QED
  BY <1>1, <1>2, AlwaysTypes, AlwaysCounts, PTL
  DEF Spec, ImplementsOutbox, Promise!OutboxSpec
=============================================================================
