----------------------------- MODULE SettingRules -----------------------------
(***************************************************************************)
(* The fourteen rules that remediate settings of an organization or of the *)
(* enterprise.  A session reads every setting once, into its cache; it     *)
(* assesses from the cache and remediates from the cache, rule by rule,    *)
(* place by place and, where a setting takes two requests, request by      *)
(* request.  Meanwhile other sessions do the same and people change        *)
(* settings by hand.  What a session is allowed to run is ApplyPipeline's  *)
(* subject; here is what its remediations do to the settings.              *)
(***************************************************************************)
EXTENDS Integers, Sequences, FiniteSets

CONSTANTS
  Orgs,          \* the organizations, as numbers in the order they are listed
  Users,         \* the users that may be outside collaborators
  NoUser,        \* no user
  Sessions,
  Worlds,        \* what GitHub, or the demo's memory, may hold at first, and what the
                 \* sessions may run with there
  Outages,       \* the sets of parts of a place that may be unreadable at once
  OrgEdits,      \* what people may set an organization to by hand
  EntEdits,      \* what people may set the enterprise to by hand
  MaxEdits       \* bound: changes made by hand

Ent == 0
Places == Orgs \cup {Ent}

SettingsOfOrg == {"ORG-04", "ORG-05", "ORG-06", "REPO-03", "SEC-03", "SEC-05", "SEC-06"}
OrgRules == SettingsOfOrg \cup {"IDENT-02", "IDENT-04", "SEC-07"}
EntRules == {"POL-02", "POL-05", "POL-06", "REPO-02"}
Rules == OrgRules \cup EntRules

(* In the order of their IDs, which is the order of a scorecard.           *)
InOrder == <<"IDENT-02", "IDENT-04", "ORG-04", "ORG-05", "ORG-06", "POL-02", "POL-05",
             "POL-06", "REPO-02", "REPO-03", "SEC-03", "SEC-05", "SEC-06", "SEC-07">>

Destructive == {"IDENT-04", "POL-06"}

(* What can be read of a place on its own.                                 *)
OrgParts == {"settings", "restricted", "outside", "security"}
EntParts == {"workflow", "actions", "rulesets", "properties"}
Parts == OrgParts \cup EntParts \cup {"list"}

Part(r) ==
  CASE r \in SettingsOfOrg -> "settings"
    [] r = "IDENT-02" -> "restricted" [] r = "IDENT-04" -> "outside"
    [] r = "SEC-07" -> "security"     [] r = "POL-02" -> "rulesets"
    [] r = "POL-05" -> "workflow"     [] r = "POL-06" -> "actions"
    [] OTHER -> "properties"

(* The settings of an organization; security is whether a code security    *)
(* configuration is the default, configs how many the wizard has created.  *)
OrgSettings ==
  [basePerm: {"", "none", "read", "write", "admin"}, twoFactor: BOOLEAN,
   scanning: BOOLEAN, push: BOOLEAN, graph: BOOLEAN, alerts: BOOLEAN, updates: BOOLEAN,
   createRepos: BOOLEAN, createPublic: BOOLEAN, forkPrivate: BOOLEAN, signoff: BOOLEAN,
   restricted: BOOLEAN, outside: SUBSET Users, security: BOOLEAN, configs: Nat]

(* Those of the enterprise; scope is the organizations that may use        *)
(* Actions at all, verified whether verified creators' actions may run.    *)
EntSettings ==
  [workflow: {"", "read", "write"}, approve: BOOLEAN,
   actions: {"", "all", "local_only", "selected"}, scope: {"", "all", "none", "selected"},
   verified: BOOLEAN, rulesets: Nat, property: BOOLEAN]

(* Go's zero values: what a field holds that was not read.                 *)
BlankOrg ==
  [basePerm |-> "", twoFactor |-> FALSE, scanning |-> FALSE, push |-> FALSE,
   graph |-> FALSE, alerts |-> FALSE, updates |-> FALSE, createRepos |-> FALSE,
   createPublic |-> FALSE, forkPrivate |-> FALSE, signoff |-> FALSE,
   restricted |-> FALSE, outside |-> {}, security |-> FALSE, configs |-> 0]

BlankEnt ==
  [workflow |-> "", approve |-> FALSE, actions |-> "", scope |-> "",
   verified |-> FALSE, rulesets |-> 0, property |-> FALSE]

(* --rules in their order (none: bulk), --dry-run, whether the client can  *)
(* write, max_orgs (0: all), and the identity policy: how many outside     *)
(* collaborators an organization may have (-1: any number), and who is     *)
(* exempt.                                                                 *)
Invocation ==
  [rules: Seq(Rules), dryRun: BOOLEAN, writer: BOOLEAN, maxOrgs: Nat,
   maxOutside: Int, allow: SUBSET Users]

World ==
  [demo: BOOLEAN, org: [Orgs -> OrgSettings], ent: EntSettings,
   inv: [Sessions -> Invocation]]

ASSUME SettingAssumption ==
  /\ Orgs \subseteq Nat \ {0} /\ IsFiniteSet(Orgs)
  /\ IsFiniteSet(Users) /\ NoUser \notin Users
  /\ Worlds \subseteq World
  /\ \A w \in Worlds :
       /\ \A o \in Orgs : w.org[o].basePerm # ""
       /\ w.ent.workflow # "" /\ w.ent.actions # "" /\ w.ent.scope # ""
  /\ Outages \subseteq SUBSET Parts /\ {} \in Outages
  /\ OrgEdits \subseteq {v \in OrgSettings : v.basePerm # ""}
  /\ EntEdits \subseteq {e \in EntSettings : e.workflow # "" /\ e.actions # "" /\ e.scope # ""}
  /\ MaxEdits \in Nat

VARIABLES
  demo,      \* the settings are the demo's, in the memory of the process
  org,       \* the settings of the organizations
  ent,       \* the settings of the enterprise
  edits,     \* the number of changes made by hand
  inv,       \* the invocation of a session
  pc,        \* where a session is
  seenOrg,   \* the cache: what a session has read of the organizations
  seenEnt,   \* ... and of the enterprise
  listed,    \* the organizations it goes through
  unread,    \* what it could not read
  todo,      \* the places it still has to read
  rest,      \* the rules it still has to look at
  row,       \* the result of the rule it is running
  togo,      \* the changes of it that are still to be written
  half,      \* the first of two requests for a change was answered
  results,   \* the results of the rules it has run
  did,       \* history: the requests of a session that took effect
  edited     \* history: the sessions in whose time, or after it, hands changed a setting

vars == <<demo, org, ent, edits, inv, pc, seenOrg, seenEnt, listed, unread, todo, rest,
          row, togo, half, results, did, edited>>

(* A change is to a place or, if it removes a user, to a place and a user. *)
Items == Places \X (Users \cup {NoUser})

Result == [rule: Rules \cup {"none"}, changes: SUBSET Items, applied: BOOLEAN,
           errors: BOOLEAN]

NoResult == [rule |-> "none", changes |-> {}, applied |-> FALSE, errors |-> FALSE]

TypeOK ==
  /\ demo \in BOOLEAN
  /\ org \in [Orgs -> OrgSettings] /\ ent \in EntSettings
  /\ \A o \in Orgs : org[o].basePerm # ""
  /\ ent.workflow # "" /\ ent.actions # "" /\ ent.scope # ""
  /\ edits \in 0..MaxEdits
  /\ inv \in [Sessions -> Invocation]
  /\ pc \in [Sessions -> {"new", "read", "next", "write", "done", "crashed"}]
  /\ seenOrg \in [Sessions -> [Orgs -> OrgSettings]]
  /\ seenEnt \in [Sessions -> EntSettings]
  /\ listed \in [Sessions -> SUBSET Orgs]
  /\ unread \in [Sessions -> SUBSET (Places \X Parts)]
  /\ todo \in [Sessions -> SUBSET Places]
  /\ rest \in [Sessions -> Seq(Rules)]
  /\ row \in [Sessions -> Result]
  /\ togo \in [Sessions -> SUBSET Items]
  /\ \A s \in Sessions : togo[s] \subseteq row[s].changes
  /\ half \in [Sessions -> BOOLEAN]
  /\ results \in [Sessions -> SUBSET Result]
  /\ did \in [Sessions -> SUBSET (Rules \X Items \X {1, 2})]
  /\ edited \subseteq Sessions

-----------------------------------------------------------------------------
(* What each rule objects to, in the settings v of an organization ...     *)

Permissive(v) == v.basePerm \in {"write", "admin"}

NoSignoff(v) == ~v.signoff
ForksPrivate(v) == v.forkPrivate
OpenCreation(v) == v.createPublic \/ v.createRepos
NoTwoFactor(v) == ~v.twoFactor
Unscanned(v) == ~v.scanning \/ ~v.push
Unalerted(v) == ~v.graph \/ ~v.alerts
NoDefaultConfig(v) == ~v.security
Unrestricted(v) == ~v.restricted
TooManyOutside(i, v) ==
  i.maxOutside >= 0 /\ Cardinality(v.outside \ i.allow) > i.maxOutside

(* ... and e of the enterprise.                                            *)
NoRuleset(e) == e.rulesets = 0
WritableToken(e) == e.workflow = "write" \/ (e.workflow = "read" /\ e.approve)
AnyAction(e) == e.actions = "all"
NoProperty(e) == ~e.property

OrgBad(i, r, v) ==
  CASE r = "ORG-04" -> Permissive(v)    [] r = "ORG-05" -> NoSignoff(v)
    [] r = "ORG-06" -> ForksPrivate(v)  [] r = "REPO-03" -> OpenCreation(v)
    [] r = "SEC-03" -> NoTwoFactor(v)   [] r = "SEC-05" -> Unscanned(v)
    [] r = "SEC-06" -> Unalerted(v)     [] r = "SEC-07" -> NoDefaultConfig(v)
    [] r = "IDENT-02" -> Unrestricted(v)
    [] OTHER -> TooManyOutside(i, v)

EntBad(r, e) ==
  CASE r = "POL-02" -> NoRuleset(e)   [] r = "POL-05" -> WritableToken(e)
    [] r = "POL-06" -> AnyAction(e)   [] OTHER -> NoProperty(e)

(* What its remediation changes: of open creation only the public part ... *)
OrgNeeds(i, r, v) == IF r = "REPO-03" THEN v.createPublic ELSE OrgBad(i, r, v)

(* ... and a ruleset and a property are created without a look.            *)
EntNeeds(r, e) == r \in {"POL-02", "REPO-02"} \/ EntBad(r, e)

-----------------------------------------------------------------------------
(* What the requests of a change set.  SEC-07 creates a configuration and  *)
(* then makes it the default; POL-06 restricts the actions, writing the    *)
(* scope it has read along, and then lets verified creators' run.          *)

OrgPatch(r, n, u, v) ==
  CASE r = "ORG-04" -> [v EXCEPT !.basePerm = "read"]
    [] r = "ORG-05" -> [v EXCEPT !.signoff = TRUE]
    [] r = "ORG-06" -> [v EXCEPT !.forkPrivate = FALSE]
    [] r = "REPO-03" -> [v EXCEPT !.createPublic = FALSE]
    [] r = "SEC-03" -> [v EXCEPT !.twoFactor = TRUE]
    [] r = "SEC-05" -> [v EXCEPT !.scanning = TRUE, !.push = TRUE]
    [] r = "SEC-06" -> [v EXCEPT !.graph = TRUE, !.alerts = TRUE, !.updates = TRUE]
    [] r = "IDENT-02" -> [v EXCEPT !.restricted = TRUE]
    [] r = "IDENT-04" -> [v EXCEPT !.outside = @ \ {u}]
    [] r = "SEC-07" /\ n = 1 -> [v EXCEPT !.configs = @ + 1]
    [] OTHER -> [v EXCEPT !.security = TRUE]

EntPatch(r, n, scope, e) ==
  CASE r = "POL-02" -> [e EXCEPT !.rulesets = @ + 1]
    [] r = "POL-05" -> [e EXCEPT !.workflow = "read", !.approve = FALSE]
    [] r = "REPO-02" -> [e EXCEPT !.property = TRUE]
    [] r = "POL-06" /\ n = 1 -> [e EXCEPT !.actions = "selected", !.scope = scope]
    [] OTHER -> [e EXCEPT !.verified = TRUE]

(* The demo has one call for each change: for SEC-07 it only sets the      *)
(* default, for POL-06 only the restriction.                               *)
FirstRequest(r) == IF demo /\ r = "SEC-07" THEN 2 ELSE 1

(* Mutant: the second request is forgotten.                                *)
LastRequestFirst(r) == IF demo /\ r = "SEC-07" THEN 2 ELSE 1

(* The request with which a change is complete.                            *)
LastRequest(r) ==
  IF r = "SEC-07" \/ (r = "POL-06" /\ ~demo) THEN 2 ELSE 1

(* Mutant: the settings are sent as a whole, as they were read.            *)
OrgWriteWhole(s, r, n, x) == OrgPatch(r, n, x[2], seenOrg[s][x[1]])

OrgWrite(s, r, n, x) == OrgPatch(r, n, x[2], org[x[1]])

EntWrite(s, r, n) ==
  LET scope == IF demo THEN ent.scope
               ELSE IF seenEnt[s].scope = "" THEN "all" ELSE seenEnt[s].scope
  IN EntPatch(r, n, scope, ent)

-----------------------------------------------------------------------------
Init ==
  /\ \E w \in Worlds : demo = w.demo /\ org = w.org /\ ent = w.ent /\ inv = w.inv
  /\ edits = 0
  /\ pc = [s \in Sessions |-> "new"]
  /\ seenOrg = [s \in Sessions |-> [o \in Orgs |-> BlankOrg]]
  /\ seenEnt = [s \in Sessions |-> BlankEnt]
  /\ listed = [s \in Sessions |-> {}]
  /\ unread = [s \in Sessions |-> {}]
  /\ todo = [s \in Sessions |-> {}]
  /\ rest = [s \in Sessions |-> IF inv[s].rules = <<>> THEN InOrder ELSE inv[s].rules]
  /\ row = [s \in Sessions |-> NoResult]
  /\ togo = [s \in Sessions |-> {}]
  /\ half = [s \in Sessions |-> FALSE]
  /\ results = [s \in Sessions |-> {}]
  /\ did = [s \in Sessions |-> {}]
  /\ edited = {}

Running(s) == pc[s] \in {"read", "next", "write"}

(* The first organizations that max_orgs admits.                           *)
Scanned(i) ==
  {o \in Orgs : i.maxOrgs = 0 \/ Cardinality({p \in Orgs : p <= o}) <= i.maxOrgs}

(* The organizations are listed first; without the list none is read.      *)
Begin(s) ==
  /\ pc[s] = "new"
  /\ \E ok \in BOOLEAN :
       LET scanned == IF ok THEN Scanned(inv[s]) ELSE {}
       IN /\ demo => ok
          /\ listed' = [listed EXCEPT ![s] = scanned]
          /\ todo' = [todo EXCEPT ![s] = scanned \cup {Ent}]
          /\ unread' = [unread EXCEPT ![s] = IF ok THEN {} ELSE {<<Ent, "list">>}]
  /\ pc' = [pc EXCEPT ![s] = "read"]
  /\ UNCHANGED <<demo, org, ent, edits, inv, seenOrg, seenEnt, rest, row, togo, half,
                 results, did, edited>>

(* What is not readable stays blank.  Parts that nothing relates, read     *)
(* shortly after each other: one step.                                     *)
OrgAsRead(lost, v) ==
  LET flags == IF "settings" \in lost THEN BlankOrg ELSE v
  IN [flags EXCEPT !.restricted = v.restricted /\ "restricted" \notin lost,
                   !.outside = IF "outside" \in lost THEN {} ELSE v.outside,
                   !.security = v.security /\ "security" \notin lost,
                   !.configs = 0]

EntAsRead(lost, e) ==
  [workflow |-> IF "workflow" \in lost THEN "" ELSE e.workflow,
   approve |-> e.approve /\ "workflow" \notin lost,
   actions |-> IF "actions" \in lost THEN "" ELSE e.actions,
   scope |-> IF "actions" \in lost THEN "" ELSE e.scope,
   verified |-> FALSE,
   rulesets |-> IF "rulesets" \in lost THEN 0 ELSE e.rulesets,
   property |-> e.property /\ "properties" \notin lost]

Read(s) ==
  /\ pc[s] = "read"
  /\ \E p \in todo[s], lost \in Outages :
       /\ demo => lost = {}
       /\ IF p = Ent
          THEN /\ seenEnt' = [seenEnt EXCEPT ![s] = EntAsRead(lost, ent)]
               /\ UNCHANGED seenOrg
          ELSE /\ seenOrg' = [seenOrg EXCEPT ![s][p] = OrgAsRead(lost, org[p])]
               /\ UNCHANGED seenEnt
       /\ unread' = [unread EXCEPT ![s] = @ \cup ({p} \X (lost \cap IF p = Ent THEN EntParts ELSE OrgParts))]
       /\ todo' = [todo EXCEPT ![s] = @ \ {p}]
       /\ pc' = [pc EXCEPT ![s] = IF todo[s] = {p} THEN "next" ELSE "read"]
  /\ UNCHANGED <<demo, org, ent, edits, inv, listed, rest, row, togo, half, results, did,
                 edited>>

(* The organizations for which a session knows what rule r looks at.       *)
Readable(s, r) == {o \in listed[s] : <<o, Part(r)>> \notin unread[s]}

(* The rule's status in the session's scorecard is fail or warn, and not   *)
(* manual, error or pass.                                                  *)
Finding(s, r) ==
  IF r \in EntRules
  THEN <<Ent, Part(r)>> \notin unread[s] /\ EntBad(r, seenEnt[s])
  ELSE \E o \in Readable(s, r) : OrgBad(inv[s], r, seenOrg[s][o])

(* A bulk apply takes the findings whose remediation is not destructive.   *)
Target(s, r) == inv[s].rules # <<>> \/ (Finding(s, r) /\ r \notin Destructive)

(* What rule r is to change.  Outside collaborators are removed where none *)
(* is allowed, and then all but the exempt ones.                           *)
Changes(s, r) ==
  CASE r \in EntRules -> {x \in {<<Ent, NoUser>>} : EntNeeds(r, seenEnt[s])}
    [] r = "IDENT-04" ->
         {x \in Orgs \X Users : /\ inv[s].maxOutside = 0
                                /\ x[1] \in Readable(s, r)
                                /\ x[2] \in seenOrg[s][x[1]].outside \ inv[s].allow}
    [] OTHER -> {o \in Readable(s, r) : OrgNeeds(inv[s], r, seenOrg[s][o])} \X {NoUser}

(* Where in the rest of its rules a session's targets are.                 *)
Targets(s) == {k \in DOMAIN rest[s] : Target(s, rest[s][k])}

(* A remediation lists its changes.  It has an error at once if there is   *)
(* no list of organizations, if a number of outside collaborators is       *)
(* allowed, or if it cannot write (an enterprise rule only if it would).   *)
Start(s) ==
  /\ pc[s] = "next"
  /\ \E k \in Targets(s) :
       LET i == inv[s]
           r == rest[s][k]
           changes == Changes(s, r)
           stuck == \/ r \in OrgRules /\ <<Ent, "list">> \in unread[s]
                    \/ r = "IDENT-04" /\ i.maxOutside # 0
                    \/ ~i.dryRun /\ ~i.writer /\ (r \in OrgRules \/ changes # {})
       IN /\ \A j \in Targets(s) : k <= j
          /\ row' = [row EXCEPT ![s] = [rule |-> r, changes |-> changes, applied |-> FALSE,
                                        errors |-> stuck]]
          /\ togo' = [togo EXCEPT ![s] = IF i.dryRun \/ ~i.writer THEN {} ELSE changes]
          /\ rest' = [rest EXCEPT ![s] = SubSeq(@, k + 1, Len(@))]
  /\ pc' = [pc EXCEPT ![s] = "write"]
  /\ UNCHANGED <<demo, org, ent, edits, inv, seenOrg, seenEnt, listed, unread, todo, half,
                 results, did, edited>>

(* Mutant: a request without an answer is taken for one that was refused   *)
(* before it was sent.                                                     *)
AnswerLost(r, answer) ==
  [r EXCEPT !.applied = @ \/ answer = "ok", !.errors = @ \/ answer = "refused"]

Answer(r, answer) ==
  [r EXCEPT !.applied = @ \/ answer = "ok", !.errors = @ \/ answer # "ok"]

(* One request of the next change.  GitHub may do it and the answer be     *)
(* lost.  A change of two requests goes on after the first one's answer;   *)
(* what comes before an error stays as it is.                              *)
Write(s) ==
  /\ pc[s] = "write"
  /\ \E x \in togo[s], answer \in {"ok", "refused", "lost"} :
       LET r == row[s].rule
           n == IF half[s] THEN 2 ELSE FirstRequest(r)
           more == answer = "ok" /\ n < LastRequest(r)
       IN /\ \A y \in togo[s] : x[1] <= y[1]
          /\ demo => answer = "ok"
          /\ IF answer = "refused"
             THEN UNCHANGED <<org, ent, did>>
             ELSE /\ IF r \in EntRules
                     THEN ent' = EntWrite(s, r, n) /\ UNCHANGED org
                     ELSE org' = [org EXCEPT ![x[1]] = OrgWrite(s, r, n, x)] /\ UNCHANGED ent
                  /\ did' = [did EXCEPT ![s] = @ \cup {<<r, x, n>>}]
          /\ half' = [half EXCEPT ![s] = more]
          /\ IF more
             THEN UNCHANGED <<row, togo>>
             ELSE /\ row' = [row EXCEPT ![s] = Answer(@, answer)]
                  /\ togo' = [togo EXCEPT ![s] = @ \ {x}]
  /\ UNCHANGED <<demo, edits, inv, pc, seenOrg, seenEnt, listed, unread, todo, rest,
                 results, edited>>

Report(s) ==
  /\ pc[s] = "write" /\ togo[s] = {}
  /\ results' = [results EXCEPT ![s] = @ \cup {row[s]}]
  /\ pc' = [pc EXCEPT ![s] = "next"]
  /\ UNCHANGED <<demo, org, ent, edits, inv, seenOrg, seenEnt, listed, unread, todo, rest,
                 row, togo, half, did, edited>>

Finish(s) ==
  /\ pc[s] = "next" /\ Targets(s) = {}
  /\ pc' = [pc EXCEPT ![s] = "done"]
  /\ UNCHANGED <<demo, org, ent, edits, inv, seenOrg, seenEnt, listed, unread, todo, rest,
                 row, togo, half, results, did, edited>>

(* The process and what it knew are gone; what it wrote to GitHub is       *)
(* written (with the demo's process its settings would be gone too).       *)
Crash(s) ==
  /\ Running(s) /\ ~demo
  /\ pc' = [pc EXCEPT ![s] = "crashed"]
  /\ seenOrg' = [seenOrg EXCEPT ![s] = [o \in Orgs |-> BlankOrg]]
  /\ seenEnt' = [seenEnt EXCEPT ![s] = BlankEnt]
  /\ listed' = [listed EXCEPT ![s] = {}]
  /\ unread' = [unread EXCEPT ![s] = {}]
  /\ todo' = [todo EXCEPT ![s] = {}]
  /\ rest' = [rest EXCEPT ![s] = <<>>]
  /\ row' = [row EXCEPT ![s] = NoResult]
  /\ togo' = [togo EXCEPT ![s] = {}]
  /\ half' = [half EXCEPT ![s] = FALSE]
  /\ results' = [results EXCEPT ![s] = {}]
  /\ UNCHANGED <<demo, org, ent, edits, inv, did, edited>>

(* Somebody changes settings by hand (nobody can in the demo).             *)
Edit ==
  /\ ~demo /\ edits < MaxEdits
  /\ \/ \E o \in Orgs, v \in OrgEdits : org' = [org EXCEPT ![o] = v] /\ UNCHANGED ent
     \/ ent' \in EntEdits /\ UNCHANGED org
  /\ edits' = edits + 1
  /\ edited' = edited \cup {s \in Sessions : pc[s] # "new"}
  /\ UNCHANGED <<demo, inv, pc, seenOrg, seenEnt, listed, unread, todo, rest, row, togo,
                 half, results, did>>

Next ==
  \/ \E s \in Sessions : Begin(s) \/ Read(s) \/ Start(s) \/ Write(s) \/ Report(s)
                         \/ Finish(s) \/ Crash(s)
  \/ Edit

Spec == Init /\ [][Next]_vars

-----------------------------------------------------------------------------
(* Safety.                                                                 *)

(* No step of a session turns a setting that one of the rules, whichever,  *)
(* accepts into one it objects to: not a write on a reading that is out of *)
(* date, not the first of two requests, and not two sessions together.     *)
NeverWorsens ==
  [][edits' = edits =>
       /\ \A s \in Sessions, r \in OrgRules, o \in Orgs :
            OrgBad(inv[s], r, org'[o]) => OrgBad(inv[s], r, org[o])
       /\ \A r \in EntRules : EntBad(r, ent') => EntBad(r, ent)]_vars

(* A rule that was run without an error and not dry has nothing left to    *)
(* change wherever the session could read, during the session and after    *)
(* it, until somebody changes settings by hand: not even where the second  *)
(* request follows a lost answer or another session writes in between.     *)
CleanApplyFixes ==
  \A s \in Sessions : ~inv[s].dryRun /\ s \notin edited =>
    \A q \in results[s] : ~q.errors =>
      IF q.rule \in EntRules
      THEN <<Ent, Part(q.rule)>> \notin unread[s] => ~EntBad(q.rule, ent)
      ELSE \A o \in Readable(s, q.rule) : ~OrgNeeds(inv[s], q.rule, org[o])

(* What a bulk apply found is what it changes, organization by             *)
(* organization; only REPO-03 leaves some of its finding alone.            *)
BulkChangesFindings ==
  \A s \in Sessions : inv[s].rules = <<>> =>
    \A q \in results[s] :
      LET places == {x[1] : x \in q.changes}
          found == IF q.rule \in EntRules THEN {Ent}
                   ELSE {o \in listed[s] : /\ <<o, Part(q.rule)>> \notin unread[s]
                                           /\ OrgBad(inv[s], q.rule, seenOrg[s][o])}
      IN /\ q.changes # {} \/ q.rule = "REPO-03"
         /\ places \subseteq found
         /\ q.rule # "REPO-03" => places = found

(* Whatever took effect, be it half of a change or behind a lost answer,   *)
(* is among the changes of a result that says applied or has an error; a   *)
(* result that says applied has done a change to its end; and one without  *)
(* errors that was not dry has done all of its changes so.                 *)
ResultsTellTheTruth ==
  \A s \in Sessions : pc[s] \in {"next", "done"} =>
    LET Done(r, x) == <<r, x, LastRequest(r)>> \in did[s]
    IN /\ \A d \in did[s] :
            \E q \in results[s] : q.rule = d[1] /\ d[2] \in q.changes /\ (q.applied \/ q.errors)
       /\ \A q \in results[s] :
            /\ q.applied => \E x \in q.changes : Done(q.rule, x)
            /\ ~q.errors /\ ~inv[s].dryRun => \A x \in q.changes : Done(q.rule, x)

(* A session removes an outside collaborator only where none is allowed,   *)
(* by name of the rule, not dry, and never an exempt one.                  *)
RemovalsAreAsked ==
  \A s \in Sessions : \A d \in did[s] :
    d[1] = "IDENT-04" => /\ "IDENT-04" \in {inv[s].rules[k] : k \in DOMAIN inv[s].rules}
                         /\ inv[s].maxOutside = 0 /\ ~inv[s].dryRun /\ inv[s].writer
                         /\ d[2][2] \notin inv[s].allow

-----------------------------------------------------------------------------
(* The promise of Repair, with a rule at a place, under the policy of a    *)
(* session, as a finding.                                                  *)
ToFix == Sessions \X ((OrgRules \X Orgs) \cup (EntRules \X {Ent}))

NeedsRepair(s, r, p) ==
  IF r \in EntRules THEN EntBad(r, ent) ELSE OrgNeeds(inv[s], r, org[p])

(* What a session knows of rule r's places: those it went through and      *)
(* could read.                                                             *)
Known(s, r) ==
  IF r \in EntRules THEN {p \in {Ent} : <<Ent, Part(r)>> \notin unread[s]} ELSE Readable(s, r)

(* What the results without an error speak for.                            *)
Repaired(s) ==
  {s} \X UNION {{q.rule} \X Known(s, q.rule)
                  : q \in {x \in results[s] : ~x.errors /\ ~inv[s].dryRun}}

Promise == INSTANCE Repair WITH
             Findings <- ToFix,
             open <- {f \in ToFix : NeedsRepair(f[1], f[2][1], f[2][2])},
             fixed <- [s \in Sessions |-> Repaired(s)],
             disturbed <- edited, hands <- edits

(* The remediations keep the promise, request by request: whatever of a    *)
(* change has been sent, refused or lost, no session takes away what       *)
(* another has repaired, and a clean result is true from then on.          *)
ImplementsRepair == Promise!RepairSpec

-----------------------------------------------------------------------------
(* What a document says and the code does not do.                          *)

(* "Remediations are idempotent (they re-check current state before        *)
(* acting)": a change is begun only where the setting, as it is then,      *)
(* still needs it.                                                         *)
RemediationsRecheck ==
  [][\A s \in Sessions : \A d \in did'[s] \ did[s] :
       (d[1] \in SettingsOfOrg /\ d[3] = 1) => OrgNeeds(inv[s], d[1], org[d[2][1]])]_vars
=============================================================================
