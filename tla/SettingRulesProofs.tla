-------------------------- MODULE SettingRulesProofs --------------------------
(***************************************************************************)
(* What a session does to the settings, for any organizations, users,      *)
(* sessions, invocations, outages and edits: it writes no setting from     *)
(* good to bad, it removes nobody without being asked to, its results tell *)
(* what it sent, in bulk it changes what it found, and what it ran without *)
(* an error is fixed until somebody changes settings by hand.              *)
(***************************************************************************)
EXTENDS SettingRules, FiniteSetTheorems, SequenceTheorems, TLAPS

(* Settings that GitHub or the demo may hold: nothing is left blank.       *)
FullOrg(v) == v \in OrgSettings /\ v.basePerm # ""
FullEnt(e) == e \in EntSettings /\ e.workflow # "" /\ e.actions # "" /\ e.scope # ""

LEMMA OrgPatchFull ==
  ASSUME NEW v, FullOrg(v), NEW r, NEW n, NEW u
  PROVE  FullOrg(OrgPatch(r, n, u, v))
<1>1. CASE r = "ORG-04"
  BY <1>1 DEF OrgPatch, FullOrg, OrgSettings
<1>2. CASE r \in {"ORG-05", "ORG-06", "REPO-03", "SEC-03", "SEC-05"}
  BY <1>2 DEF OrgPatch, FullOrg, OrgSettings
<1>3. CASE r \in {"SEC-06", "IDENT-02"}
  BY <1>3 DEF OrgPatch, FullOrg, OrgSettings
<1>4. CASE r = "IDENT-04"
  <2>1. v.outside \ {u} \in SUBSET Users
    BY DEF FullOrg, OrgSettings
  <2> QED BY <1>4, <2>1 DEF OrgPatch, FullOrg, OrgSettings
<1>5. CASE r = "SEC-07" /\ n = 1
  <2>1. v.configs + 1 \in Nat
    <3>1. v.configs \in Nat
      BY DEF FullOrg, OrgSettings
    <3> QED BY <3>1
  <2>2. OrgPatch(r, n, u, v) = [v EXCEPT !.configs = v.configs + 1]
    BY <1>5, Zenon DEF OrgPatch
  <2> HIDE DEF OrgPatch
  <2>3. \A m \in Nat : [v EXCEPT !.configs = m] \in OrgSettings
    BY DEF FullOrg, OrgSettings
  <2>4. [v EXCEPT !.configs = v.configs + 1].basePerm = v.basePerm
    BY DEF FullOrg, OrgSettings
  <2> QED BY <2>1, <2>2, <2>3, <2>4 DEF FullOrg
<1>6. CASE /\ r \notin {"ORG-04", "ORG-05", "ORG-06", "REPO-03", "SEC-03", "SEC-05", "SEC-06",
                        "IDENT-02", "IDENT-04"}
           /\ ~(r = "SEC-07" /\ n = 1)
  BY <1>6 DEF OrgPatch, FullOrg, OrgSettings
<1> QED BY <1>1, <1>2, <1>3, <1>4, <1>5, <1>6

LEMMA EntPatchFull ==
  ASSUME NEW e, FullEnt(e), NEW r, NEW n, NEW scope \in {"all", "none", "selected"}
  PROVE  FullEnt(EntPatch(r, n, scope, e))
<1>1. CASE r = "POL-02"
  <2>1. e.rulesets \in Nat
    BY DEF FullEnt, EntSettings
  <2>2. EntPatch(r, n, scope, e) = [e EXCEPT !.rulesets = e.rulesets + 1]
    BY <1>1, Zenon DEF EntPatch
  <2>3. \A m \in Nat : FullEnt([e EXCEPT !.rulesets = m])
    BY DEF FullEnt, EntSettings
  <2> QED BY <2>1, <2>2, <2>3
<1>2. CASE r # "POL-02"
  BY <1>2 DEF EntPatch, FullEnt, EntSettings
<1> QED BY <1>1, <1>2

LEMMA BlankTypes == BlankOrg \in OrgSettings /\ BlankEnt \in EntSettings
BY DEF BlankOrg, BlankEnt, OrgSettings, EntSettings

LEMMA AsReadTypes ==
  ASSUME NEW lost
  PROVE  /\ \A v \in OrgSettings : OrgAsRead(lost, v) \in OrgSettings
         /\ \A e \in EntSettings : EntAsRead(lost, e) \in EntSettings
<1>1. ASSUME NEW v \in OrgSettings PROVE OrgAsRead(lost, v) \in OrgSettings
  <2> DEFINE flags == IF "settings" \in lost THEN BlankOrg ELSE v
  <2>1. flags \in OrgSettings /\ v.outside \in SUBSET Users
    <3>1. v.outside \in SUBSET Users
      BY DEF OrgSettings
    <3>2. flags \in OrgSettings
      BY BlankTypes
    <3> QED BY <3>1, <3>2
  <2>2. PICK o \in SUBSET Users : o = IF "outside" \in lost THEN {} ELSE v.outside
    BY <2>1
  <2>3. \A a, b \in BOOLEAN, m \in Nat :
          [flags EXCEPT !.restricted = a, !.outside = o, !.security = b, !.configs = m]
            \in OrgSettings
    <3> HIDE DEF flags
    <3> QED BY <2>1 DEF OrgSettings
  <2>4. 0 \in Nat
    OBVIOUS
  <2>5. OrgAsRead(lost, v) =
          [flags EXCEPT !.restricted = v.restricted /\ "restricted" \notin lost, !.outside = o,
                        !.security = v.security /\ "security" \notin lost, !.configs = 0]
    BY <2>2, Zenon DEF OrgAsRead
  <2> QED BY <2>3, <2>4, <2>5, Zenon
<1>2. ASSUME NEW e \in EntSettings PROVE EntAsRead(lost, e) \in EntSettings
  BY DEF EntAsRead, EntSettings
<1> QED BY <1>1, <1>2

(* What a rule lists as its changes are changes.                           *)
LEMMA ChangesAreItems ==
  ASSUME NEW s \in Sessions, NEW r, listed[s] \subseteq Orgs
  PROVE  Changes(s, r) \subseteq Items
<1>1. CASE r \in EntRules
  BY <1>1 DEF Changes, Items, Places
<1>2. CASE r = "IDENT-04"
  BY <1>2 DEF Changes, Items, Places, EntRules
<1>3. CASE r \notin EntRules /\ r # "IDENT-04"
  BY <1>3 DEF Changes, Items, Places, Readable
<1> QED BY <1>1, <1>2, <1>3

LEMMA InOrderType == InOrder \in Seq(Rules)
BY DEF InOrder, Rules, OrgRules, EntRules, SettingsOfOrg

-----------------------------------------------------------------------------
(* Types.  A session without a row has no changes either.                  *)
Types == TypeOK /\ \A s \in Sessions : row[s].rule = "none" => row[s].changes = {}

LEMMA InitTypes == Init => Types
<1> SUFFICES ASSUME Init PROVE Types
  OBVIOUS
<1>1. PICK w \in Worlds : demo = w.demo /\ org = w.org /\ ent = w.ent /\ inv = w.inv
  BY DEF Init
<1>2. w \in World
  BY SettingAssumption
<1>3. /\ demo \in BOOLEAN /\ org \in [Orgs -> OrgSettings] /\ ent \in EntSettings
      /\ inv \in [Sessions -> Invocation]
  BY <1>1, <1>2 DEF World
<1>4. /\ \A o \in Orgs : org[o].basePerm # ""
      /\ ent.workflow # "" /\ ent.actions # "" /\ ent.scope # ""
  BY <1>1, SettingAssumption
<1>5. rest \in [Sessions -> Seq(Rules)]
  <2>1. \A s \in Sessions : inv[s].rules \in Seq(Rules)
    BY <1>3 DEF Invocation
  <2> QED BY <2>1, InOrderType DEF Init
<1>6. /\ seenOrg \in [Sessions -> [Orgs -> OrgSettings]]
      /\ seenEnt \in [Sessions -> EntSettings]
  BY BlankTypes DEF Init
<1>7. NoResult \in Result /\ NoResult.changes = {} /\ NoResult.rule = "none"
  BY DEF NoResult, Result
<1>8. row \in [Sessions -> Result] /\ \A s \in Sessions : row[s] = NoResult
  BY <1>7 DEF Init
<1>9. /\ pc \in [Sessions -> {"new", "read", "next", "write", "done", "crashed"}]
      /\ listed \in [Sessions -> SUBSET Orgs]
      /\ unread \in [Sessions -> SUBSET (Places \X Parts)]
      /\ todo \in [Sessions -> SUBSET Places]
      /\ togo \in [Sessions -> SUBSET Items]
      /\ half \in [Sessions -> BOOLEAN]
      /\ results \in [Sessions -> SUBSET Result]
      /\ did \in [Sessions -> SUBSET (Rules \X Items \X {1, 2})]
      /\ \A s \in Sessions : togo[s] = {}
  BY DEF Init
<1>10. edits \in 0..MaxEdits /\ edited \subseteq Sessions
  <2>1. MaxEdits \in Nat
    BY SettingAssumption
  <2>2. edits = 0 /\ edited = {}
    BY DEF Init
  <2> QED BY <2>1, <2>2
<1> QED BY <1>3, <1>4, <1>5, <1>6, <1>7, <1>8, <1>9, <1>10 DEF Types, TypeOK

LEMMA BeginTypes ==
  ASSUME Types, NEW s \in Sessions, Begin(s)
  PROVE  Types'
<1>1. PICK ok \in BOOLEAN :
        LET scanned == IF ok THEN Scanned(inv[s]) ELSE {}
        IN /\ listed' = [listed EXCEPT ![s] = scanned]
           /\ todo' = [todo EXCEPT ![s] = scanned \cup {Ent}]
           /\ unread' = [unread EXCEPT ![s] = IF ok THEN {} ELSE {<<Ent, "list">>}]
  BY DEF Begin
<1>2. Scanned(inv[s]) \subseteq Orgs /\ Orgs \subseteq Places /\ Ent \in Places
  BY DEF Scanned, Places
<1>3. /\ listed' \in [Sessions -> SUBSET Orgs] /\ todo' \in [Sessions -> SUBSET Places]
      /\ unread' \in [Sessions -> SUBSET (Places \X Parts)]
  <2>1. <<Ent, "list">> \in Places \X Parts
    BY <1>2 DEF Parts
  <2> QED BY <1>1, <1>2, <2>1 DEF Types, TypeOK
<1>4. pc' \in [Sessions -> {"new", "read", "next", "write", "done", "crashed"}]
  BY DEF Begin, Types, TypeOK
<1> QED BY <1>3, <1>4 DEF Begin, Types, TypeOK

LEMMA ReadTypes ==
  ASSUME Types, NEW s \in Sessions, Read(s)
  PROVE  Types'
<1>1. PICK p \in todo[s], lost \in Outages :
        /\ IF p = Ent
           THEN /\ seenEnt' = [seenEnt EXCEPT ![s] = EntAsRead(lost, ent)]
                /\ UNCHANGED seenOrg
           ELSE /\ seenOrg' = [seenOrg EXCEPT ![s][p] = OrgAsRead(lost, org[p])]
                /\ UNCHANGED seenEnt
        /\ unread' = [unread EXCEPT ![s] = @ \cup ({p} \X (lost \cap IF p = Ent THEN EntParts ELSE OrgParts))]
        /\ todo' = [todo EXCEPT ![s] = @ \ {p}]
        /\ pc' = [pc EXCEPT ![s] = IF todo[s] = {p} THEN "next" ELSE "read"]
  BY DEF Read
<1>2. p \in Places
  BY DEF Types, TypeOK
<1>3. seenEnt' \in [Sessions -> EntSettings] /\ seenOrg' \in [Sessions -> [Orgs -> OrgSettings]]
  <2>1. CASE p = Ent
    <3>1. EntAsRead(lost, ent) \in EntSettings
      BY AsReadTypes DEF Types, TypeOK
    <3> QED BY <1>1, <2>1, <3>1 DEF Types, TypeOK
  <2>2. CASE p # Ent
    <3>1. OrgAsRead(lost, org[p]) \in OrgSettings
      BY <1>2, <2>2, AsReadTypes DEF Types, TypeOK, Places
    <3>2. [seenOrg[s] EXCEPT ![p] = OrgAsRead(lost, org[p])] \in [Orgs -> OrgSettings]
      BY <3>1 DEF Types, TypeOK
    <3>3. seenOrg' = [seenOrg EXCEPT ![s] = [seenOrg[s] EXCEPT ![p] = OrgAsRead(lost, org[p])]]
      BY <1>1, <2>2
    <3> QED BY <1>1, <2>2, <3>2, <3>3 DEF Types, TypeOK
  <2> QED BY <2>1, <2>2
<1>4. unread' \in [Sessions -> SUBSET (Places \X Parts)]
  <2>1. {p} \X (lost \cap IF p = Ent THEN EntParts ELSE OrgParts) \subseteq Places \X Parts
    BY <1>2, SettingAssumption
  <2> QED BY <1>1, <2>1 DEF Types, TypeOK
<1>5. todo' \in [Sessions -> SUBSET Places]
  BY <1>1 DEF Types, TypeOK
<1>6. pc' \in [Sessions -> {"new", "read", "next", "write", "done", "crashed"}]
  BY <1>1 DEF Types, TypeOK
<1> QED BY <1>3, <1>4, <1>5, <1>6 DEF Read, Types, TypeOK

(* A session starts the first of its targets.                              *)
StartsAt(s, k) ==
  LET i == inv[s]
      r == rest[s][k]
      changes == Changes(s, r)
      stuck == \/ r \in OrgRules /\ <<Ent, "list">> \in unread[s]
               \/ r = "IDENT-04" /\ i.maxOutside # 0
               \/ ~i.dryRun /\ ~i.writer /\ (r \in OrgRules \/ changes # {})
  IN /\ row' = [row EXCEPT ![s] = [rule |-> r, changes |-> changes, applied |-> FALSE,
                                  errors |-> stuck]]
     /\ togo' = [togo EXCEPT ![s] = IF i.dryRun \/ ~i.writer THEN {} ELSE changes]
     /\ rest' = [rest EXCEPT ![s] = SubSeq(@, k + 1, Len(@))]

LEMMA StartStep ==
  ASSUME Types, NEW s \in Sessions, Start(s)
  PROVE  \E k \in DOMAIN rest[s] :
           /\ k \in Nat /\ rest[s][k] \in Rules /\ Target(s, rest[s][k]) /\ StartsAt(s, k)
<1>1. PICK k \in Targets(s) : StartsAt(s, k)
  BY DEF Start, StartsAt
<1>2. rest[s] \in Seq(Rules)
  BY DEF Types, TypeOK
<1> QED BY <1>1, <1>2 DEF Targets

LEMMA StartTypes ==
  ASSUME Types, NEW s \in Sessions, Start(s)
  PROVE  Types'
<1>1. PICK k \in DOMAIN rest[s] :
        k \in Nat /\ rest[s][k] \in Rules /\ Target(s, rest[s][k]) /\ StartsAt(s, k)
  BY StartStep
<1> DEFINE r == rest[s][k]
<1>2. Changes(s, r) \in SUBSET Items
  BY ChangesAreItems DEF Types, TypeOK
<1>3. row'[s] \in Result /\ row'[s].changes = Changes(s, r) /\ row'[s].rule = r
  BY <1>1, <1>2 DEF StartsAt, Result, Types, TypeOK
<1>4. row' \in [Sessions -> Result] /\ \A q \in Sessions \ {s} : row'[q] = row[q]
  BY <1>1, <1>3 DEF StartsAt, Types, TypeOK
<1>5. togo' \in [Sessions -> SUBSET Items] /\ togo'[s] \subseteq Changes(s, r)
      /\ \A q \in Sessions \ {s} : togo'[q] = togo[q]
  BY <1>1, <1>2 DEF StartsAt, Types, TypeOK
<1>6. SubSeq(rest[s], k + 1, Len(rest[s])) \in Seq(Rules)
  <2>1. rest[s] \in Seq(Rules)
    BY DEF Types, TypeOK
  <2>2. k + 1 \in Int /\ Len(rest[s]) \in Int
    BY <1>1, <2>1
  <2>3. \A j \in k + 1 .. Len(rest[s]) : rest[s][j] \in Rules
    BY <1>1, <2>1
  <2> QED BY <2>2, <2>3, SubSeqProperties
<1>7. rest' \in [Sessions -> Seq(Rules)]
  BY <1>1, <1>6 DEF StartsAt, Types, TypeOK
<1>8. pc' \in [Sessions -> {"new", "read", "next", "write", "done", "crashed"}]
  BY DEF Start, Types, TypeOK
<1>9. \A q \in Sessions : /\ togo'[q] \subseteq row'[q].changes
                          /\ row'[q].rule = "none" => row'[q].changes = {}
  <2>1. "none" \notin Rules
    BY DEF Rules, OrgRules, EntRules, SettingsOfOrg
  <2>2. togo'[s] \subseteq row'[s].changes /\ row'[s].rule # "none"
    BY <1>1, <1>3, <1>5, <2>1
  <2>3. \A q \in Sessions \ {s} : /\ togo'[q] \subseteq row'[q].changes
                                  /\ row'[q].rule = "none" => row'[q].changes = {}
    BY <1>4, <1>5 DEF Types, TypeOK
  <2> QED BY <2>2, <2>3
<1>10. UNCHANGED <<demo, org, ent, edits, inv, seenOrg, seenEnt, listed, unread, todo, half,
                   results, did, edited>>
  BY DEF Start
<1>11. /\ togo' \in [Sessions -> SUBSET Items]
       /\ \A q \in Sessions : togo'[q] \subseteq row'[q].changes
  BY <1>5, <1>9
<1> HIDE DEF r
<1> QED BY <1>4, <1>7, <1>8, <1>9, <1>10, <1>11 DEF Types, TypeOK

(* One request n of the next change x, with its answer.                    *)
WritesAt(s, x, n, answer) ==
  LET r == row[s].rule
      more == answer = "ok" /\ n < LastRequest(r)
  IN /\ IF answer = "refused"
        THEN UNCHANGED <<org, ent, did>>
        ELSE /\ IF r \in EntRules
                THEN ent' = EntWrite(s, r, n) /\ UNCHANGED org
                ELSE org' = [org EXCEPT ![x[1]] = OrgWrite(s, r, n, x)] /\ UNCHANGED ent
             /\ did' = [did EXCEPT ![s] = @ \cup {<<r, x, n>>}]
     /\ half' = [half EXCEPT ![s] = more]
     /\ IF more
        THEN UNCHANGED <<row, togo>>
        ELSE /\ row' = [row EXCEPT ![s] = Answer(@, answer)]
             /\ togo' = [togo EXCEPT ![s] = @ \ {x}]

LEMMA WriteStep ==
  ASSUME Types, NEW s \in Sessions, Write(s)
  PROVE  \E x \in togo[s], answer \in {"ok", "refused", "lost"}, n \in {1, 2} :
           /\ n = IF half[s] THEN 2 ELSE FirstRequest(row[s].rule)
           /\ WritesAt(s, x, n, answer)
           /\ x \in Items /\ x \in row[s].changes /\ row[s].rule \in Rules
           /\ x[1] \in Places
<1>1. PICK x \in togo[s], answer \in {"ok", "refused", "lost"} :
        WritesAt(s, x, IF half[s] THEN 2 ELSE FirstRequest(row[s].rule), answer)
  BY DEF Write, WritesAt
<1>2. (IF half[s] THEN 2 ELSE FirstRequest(row[s].rule)) \in {1, 2}
  BY DEF FirstRequest
<1>3. x \in Items /\ x \in row[s].changes
  BY DEF Types, TypeOK
<1>4. row[s].rule \in Rules
  BY <1>3 DEF Types, TypeOK, Result
<1>5. x[1] \in Places
  BY <1>3 DEF Items
<1> QED BY <1>1, <1>2, <1>3, <1>4, <1>5

LEMMA AnswerType ==
  ASSUME NEW q \in Result, NEW answer
  PROVE  /\ Answer(q, answer) \in Result
         /\ Answer(q, answer).changes = q.changes
         /\ Answer(q, answer).rule = q.rule
         /\ Answer(q, answer).applied = (q.applied \/ answer = "ok")
         /\ Answer(q, answer).errors = (q.errors \/ answer # "ok")
<1>1. \A a, b \in BOOLEAN :
        LET p == [q EXCEPT !.applied = a, !.errors = b]
        IN /\ p \in Result /\ p.changes = q.changes /\ p.rule = q.rule
           /\ p.applied = a /\ p.errors = b
  BY DEF Result
<1>2. q.applied \in BOOLEAN /\ q.errors \in BOOLEAN
  BY DEF Result
<1>3. (q.applied \/ answer = "ok") \in BOOLEAN /\ (q.errors \/ answer # "ok") \in BOOLEAN
  BY <1>2
<1> DEFINE a0 == q.applied \/ answer = "ok"
<1> DEFINE b0 == q.errors \/ answer # "ok"
<1>4. Answer(q, answer) = [q EXCEPT !.applied = a0, !.errors = b0]
  BY Zenon DEF Answer
<1> QED BY <1>1, <1>3, <1>4, Zenon

LEMMA WriteTypes ==
  ASSUME Types, NEW s \in Sessions, Write(s)
  PROVE  Types'
<1>1. PICK x \in togo[s], answer \in {"ok", "refused", "lost"}, n \in {1, 2} :
        /\ WritesAt(s, x, n, answer)
        /\ x \in Items /\ x \in row[s].changes /\ row[s].rule \in Rules
  BY WriteStep
<1> DEFINE r == row[s].rule
<1>2. org' \in [Orgs -> OrgSettings] /\ \A o \in Orgs : org'[o].basePerm # ""
  <2>1. CASE answer # "refused" /\ r \notin EntRules
    <3>1. ASSUME NEW o \in Orgs, o = x[1] PROVE FullOrg(OrgWrite(s, r, n, x))
      <4>1. FullOrg(org[o])
        BY DEF FullOrg, Types, TypeOK
      <4>2. FullOrg(OrgPatch(r, n, x[2], org[o]))
        BY <4>1, OrgPatchFull
      <4> QED BY <3>1, <4>2, Zenon DEF OrgWrite
    <3>2. org' = [org EXCEPT ![x[1]] = OrgWrite(s, r, n, x)]
      BY <1>1, <2>1 DEF WritesAt
    <3>3. \A o \in Orgs : org'[o] = IF o = x[1] THEN OrgWrite(s, r, n, x) ELSE org[o]
      BY <3>2 DEF Types, TypeOK
    <3>4. \A o \in Orgs : FullOrg(org'[o])
      BY <3>1, <3>3 DEF FullOrg, Types, TypeOK
    <3>5. org' = [o \in Orgs |-> org'[o]]
      BY <3>2 DEF Types, TypeOK
    <3> QED BY <3>4, <3>5 DEF FullOrg
  <2>2. CASE ~(answer # "refused" /\ r \notin EntRules)
    BY <1>1, <2>2 DEF WritesAt, Types, TypeOK
  <2> QED BY <2>1, <2>2
<1>3. ent' \in EntSettings /\ ent'.workflow # "" /\ ent'.actions # "" /\ ent'.scope # ""
  <2>1. CASE answer # "refused" /\ r \in EntRules
    <3> DEFINE scope == IF demo THEN ent.scope
                        ELSE IF seenEnt[s].scope = "" THEN "all" ELSE seenEnt[s].scope
    <3>1. scope \in {"all", "none", "selected"}
      BY DEF Types, TypeOK, EntSettings
    <3>2. ent' = EntPatch(r, n, scope, ent)
      BY <1>1, <2>1 DEF WritesAt, EntWrite
    <3>3. FullEnt(ent)
      BY DEF FullEnt, Types, TypeOK
    <3> HIDE DEF scope
    <3> QED BY <3>1, <3>2, <3>3, EntPatchFull DEF FullEnt
  <2>2. CASE ~(answer # "refused" /\ r \in EntRules)
    BY <1>1, <2>2 DEF WritesAt, Types, TypeOK
  <2> QED BY <2>1, <2>2
<1>4. did' \in [Sessions -> SUBSET (Rules \X Items \X {1, 2})]
  <2>1. <<r, x, n>> \in Rules \X Items \X {1, 2}
    BY <1>1
  <2>2. did' = did \/ did' = [did EXCEPT ![s] = @ \cup {<<r, x, n>>}]
    BY <1>1 DEF WritesAt
  <2>3. did[s] \cup {<<r, x, n>>} \in SUBSET (Rules \X Items \X {1, 2})
    BY <2>1 DEF Types, TypeOK
  <2>4. did \in [Sessions -> SUBSET (Rules \X Items \X {1, 2})]
    BY DEF Types, TypeOK
  <2> QED BY <2>2, <2>3, <2>4
<1>5. half' \in [Sessions -> BOOLEAN]
  BY <1>1 DEF WritesAt, Types, TypeOK
<1>6. /\ row' \in [Sessions -> Result]
      /\ \A q \in Sessions : row'[q].changes = row[q].changes /\ row'[q].rule = row[q].rule
  <2>1. CASE row' = row
    BY <2>1 DEF Types, TypeOK
  <2>2. CASE row' = [row EXCEPT ![s] = Answer(@, answer)]
    <3>1. /\ Answer(row[s], answer) \in Result
          /\ Answer(row[s], answer).changes = row[s].changes
          /\ Answer(row[s], answer).rule = row[s].rule
      <4>1. row[s] \in Result
        BY DEF Types, TypeOK
      <4> QED BY <4>1, AnswerType
    <3> QED BY <2>2, <3>1 DEF Types, TypeOK
  <2> QED BY <1>1, <2>1, <2>2 DEF WritesAt
<1>7. togo' \in [Sessions -> SUBSET Items] /\ \A q \in Sessions : togo'[q] \subseteq togo[q]
  <2>1. togo' = togo \/ togo' = [togo EXCEPT ![s] = @ \ {x}]
    BY <1>1 DEF WritesAt
  <2>2. togo \in [Sessions -> SUBSET Items]
    BY DEF Types, TypeOK
  <2>3. togo[s] \ {x} \in SUBSET Items
    BY <2>2
  <2> QED BY <2>1, <2>2, <2>3
<1>8. \A q \in Sessions : /\ togo'[q] \subseteq row'[q].changes
                          /\ row'[q].rule = "none" => row'[q].changes = {}
  BY <1>6, <1>7 DEF Types, TypeOK
<1> QED BY <1>2, <1>3, <1>4, <1>5, <1>6, <1>7, <1>8 DEF Write, Types, TypeOK

LEMMA OtherTypes ==
  ASSUME Types, NEW s \in Sessions, Report(s) \/ Finish(s) \/ Crash(s)
  PROVE  Types'
<1>1. CASE Report(s)
  <2>1. results' \in [Sessions -> SUBSET Result]
    <3>1. results[s] \cup {row[s]} \in SUBSET Result /\ results \in [Sessions -> SUBSET Result]
      BY DEF Types, TypeOK
    <3>2. results' = [results EXCEPT ![s] = results[s] \cup {row[s]}]
      BY <1>1 DEF Report
    <3> QED BY <3>1, <3>2
  <2>2. pc' \in [Sessions -> {"new", "read", "next", "write", "done", "crashed"}]
    BY <1>1 DEF Report, Types, TypeOK
  <2> QED BY <1>1, <2>1, <2>2 DEF Report, Types, TypeOK
<1>2. CASE Finish(s)
  <2>1. pc' \in [Sessions -> {"new", "read", "next", "write", "done", "crashed"}]
    BY <1>2 DEF Finish, Types, TypeOK
  <2> QED BY <1>2, <2>1 DEF Finish, Types, TypeOK
<1>3. CASE Crash(s)
  <2>1. /\ seenOrg' \in [Sessions -> [Orgs -> OrgSettings]]
        /\ seenEnt' \in [Sessions -> EntSettings]
    BY <1>3, BlankTypes DEF Crash, Types, TypeOK
  <2>2. /\ pc' \in [Sessions -> {"new", "read", "next", "write", "done", "crashed"}]
        /\ listed' \in [Sessions -> SUBSET Orgs]
        /\ unread' \in [Sessions -> SUBSET (Places \X Parts)]
        /\ todo' \in [Sessions -> SUBSET Places]
        /\ togo' \in [Sessions -> SUBSET Items]
        /\ half' \in [Sessions -> BOOLEAN]
        /\ results' \in [Sessions -> SUBSET Result]
    BY <1>3 DEF Crash, Types, TypeOK
  <2>5. rest' \in [Sessions -> Seq(Rules)]
    <3>1. <<>> \in Seq(Rules)
      OBVIOUS
    <3> QED BY <1>3, <3>1 DEF Crash, Types, TypeOK
  <2>3. /\ row' \in [Sessions -> Result]
        /\ \A q \in Sessions : row'[q] = IF q = s THEN NoResult ELSE row[q]
    <3>1. NoResult \in Result
      BY DEF NoResult, Result
    <3>2. row' = [row EXCEPT ![s] = NoResult]
      BY <1>3 DEF Crash
    <3>3. row \in [Sessions -> Result]
      BY DEF Types, TypeOK
    <3> QED BY <3>1, <3>2, <3>3
  <2>4. \A q \in Sessions : /\ togo'[q] \subseteq row'[q].changes
                            /\ row'[q].rule = "none" => row'[q].changes = {}
    <3>1. NoResult.changes = {} /\ togo'[s] = {}
      BY <1>3 DEF NoResult, Crash, Types, TypeOK
    <3>2. \A q \in Sessions \ {s} : togo'[q] = togo[q]
      BY <1>3 DEF Crash, Types, TypeOK
    <3> QED BY <2>3, <3>1, <3>2 DEF Types, TypeOK
  <2> QED BY <1>3, <2>1, <2>2, <2>3, <2>4, <2>5 DEF Crash, Types, TypeOK
<1> QED BY <1>1, <1>2, <1>3

LEMMA EditTypes ==
  ASSUME Types, Edit
  PROVE  Types'
<1>1. /\ org' \in [Orgs -> OrgSettings] /\ ent' \in EntSettings
      /\ \A o \in Orgs : org'[o].basePerm # ""
      /\ ent'.workflow # "" /\ ent'.actions # "" /\ ent'.scope # ""
  <2>1. CASE \E o \in Orgs, v \in OrgEdits : org' = [org EXCEPT ![o] = v] /\ UNCHANGED ent
    <3>1. PICK o \in Orgs, v \in OrgEdits : org' = [org EXCEPT ![o] = v] /\ UNCHANGED ent
      BY <2>1
    <3>2. v \in OrgSettings /\ v.basePerm # ""
      BY SettingAssumption
    <3> QED BY <3>1, <3>2 DEF Types, TypeOK
  <2>2. CASE ent' \in EntEdits /\ UNCHANGED org
    <3>1. ent' \in EntSettings /\ ent'.workflow # "" /\ ent'.actions # "" /\ ent'.scope # ""
      BY <2>2, SettingAssumption
    <3> QED BY <2>2, <3>1 DEF Types, TypeOK
  <2> QED BY <2>1, <2>2 DEF Edit
<1>2. edits' \in 0..MaxEdits
  <2>1. MaxEdits \in Nat
    BY SettingAssumption
  <2>2. edits \in 0..MaxEdits /\ edits < MaxEdits /\ edits' = edits + 1
    BY DEF Edit, Types, TypeOK
  <2> QED BY <2>1, <2>2
<1>3. edited' \subseteq Sessions
  BY DEF Edit, Types, TypeOK
<1> QED BY <1>1, <1>2, <1>3 DEF Edit, Types, TypeOK

LEMMA NextTypes == Types /\ [Next]_vars => Types'
<1> SUFFICES ASSUME Types, [Next]_vars PROVE Types'
  OBVIOUS
<1>1. CASE UNCHANGED vars
  BY <1>1 DEF vars, Types, TypeOK
<1>2. CASE Next
  BY <1>2, BeginTypes, ReadTypes, StartTypes, WriteTypes, OtherTypes, EditTypes DEF Next
<1> QED BY <1>1, <1>2

LEMMA AlwaysTypes == Spec => []Types
BY InitTypes, NextTypes, PTL DEF Spec

(* Type correctness: every setting, reading, result and request is of its  *)
(* kind, whatever the sessions run and people edit.                        *)
THEOREM TypeCorrect == Spec => []TypeOK
<1>1. Types => TypeOK
  BY DEF Types
<1> QED BY AlwaysTypes, <1>1, PTL

-----------------------------------------------------------------------------
(* Writes do not worsen a setting: what a request makes of the settings    *)
(* keeps each of them or makes it what the rules ask for.                  *)
LEMMA OrgPatchImproves ==
  ASSUME NEW v \in OrgSettings, NEW r, NEW n, NEW u
  PROVE  LET p == OrgPatch(r, n, u, v)
         IN /\ p.basePerm \in {v.basePerm, "read"}
            /\ v.signoff => p.signoff
            /\ p.forkPrivate => v.forkPrivate
            /\ p.createPublic => v.createPublic
            /\ p.createRepos = v.createRepos
            /\ v.twoFactor => p.twoFactor
            /\ v.scanning /\ v.push => p.scanning /\ p.push
            /\ v.graph /\ v.alerts => p.graph /\ p.alerts
            /\ v.security => p.security
            /\ v.restricted => p.restricted
            /\ p.outside \subseteq v.outside
<1>1. CASE r = "ORG-04"
  <2>1. OrgPatch(r, n, u, v) = [v EXCEPT !.basePerm = "read"]
    BY <1>1, Zenon DEF OrgPatch
  <2> QED BY <2>1 DEF OrgSettings
<1>2. CASE r = "ORG-05"
  <2>1. OrgPatch(r, n, u, v) = [v EXCEPT !.signoff = TRUE]
    BY <1>2, Zenon DEF OrgPatch
  <2> QED BY <2>1 DEF OrgSettings
<1>3. CASE r = "ORG-06"
  <2>1. OrgPatch(r, n, u, v) = [v EXCEPT !.forkPrivate = FALSE]
    BY <1>3, Zenon DEF OrgPatch
  <2> QED BY <2>1 DEF OrgSettings
<1>4. CASE r = "REPO-03"
  <2>1. OrgPatch(r, n, u, v) = [v EXCEPT !.createPublic = FALSE]
    BY <1>4, Zenon DEF OrgPatch
  <2> QED BY <2>1 DEF OrgSettings
<1>5. CASE r = "SEC-03"
  <2>1. OrgPatch(r, n, u, v) = [v EXCEPT !.twoFactor = TRUE]
    BY <1>5, Zenon DEF OrgPatch
  <2> QED BY <2>1 DEF OrgSettings
<1>6. CASE r = "SEC-05"
  <2>1. OrgPatch(r, n, u, v) = [v EXCEPT !.scanning = TRUE, !.push = TRUE]
    BY <1>6, Zenon DEF OrgPatch
  <2> QED BY <2>1 DEF OrgSettings
<1>7. CASE r = "SEC-06"
  <2>1. OrgPatch(r, n, u, v) = [v EXCEPT !.graph = TRUE, !.alerts = TRUE, !.updates = TRUE]
    BY <1>7, Zenon DEF OrgPatch
  <2> QED BY <2>1 DEF OrgSettings
<1>8. CASE r = "IDENT-02"
  <2>1. OrgPatch(r, n, u, v) = [v EXCEPT !.restricted = TRUE]
    BY <1>8, Zenon DEF OrgPatch
  <2> QED BY <2>1 DEF OrgSettings
<1>9. CASE r = "IDENT-04"
  <2>1. OrgPatch(r, n, u, v) = [v EXCEPT !.outside = v.outside \ {u}]
    BY <1>9, Zenon DEF OrgPatch
  <2> QED BY <2>1 DEF OrgSettings
<1>10. CASE r = "SEC-07" /\ n = 1
  <2>1. OrgPatch(r, n, u, v) = [v EXCEPT !.configs = v.configs + 1]
    BY <1>10, Zenon DEF OrgPatch
  <2> DEFINE m == v.configs + 1
  <2>2. LET p == [v EXCEPT !.configs = m]
        IN /\ p.basePerm = v.basePerm /\ p.signoff = v.signoff
           /\ p.forkPrivate = v.forkPrivate /\ p.createPublic = v.createPublic
           /\ p.createRepos = v.createRepos /\ p.twoFactor = v.twoFactor
           /\ p.scanning = v.scanning /\ p.push = v.push
           /\ p.graph = v.graph /\ p.alerts = v.alerts /\ p.security = v.security
           /\ p.restricted = v.restricted /\ p.outside = v.outside
    <3> HIDE DEF m
    <3> QED BY DEF OrgSettings
  <2>3. OrgPatch(r, n, u, v) = [v EXCEPT !.configs = m]
    BY <2>1
  <2> HIDE DEF m
  <2> QED BY <2>2, <2>3
<1>11. CASE /\ r \notin {"ORG-04", "ORG-05", "ORG-06", "REPO-03", "SEC-03", "SEC-05", "SEC-06",
                        "IDENT-02", "IDENT-04"}
           /\ ~(r = "SEC-07" /\ n = 1)
  <2>1. OrgPatch(r, n, u, v) = [v EXCEPT !.security = TRUE]
    BY <1>11, Zenon DEF OrgPatch
  <2> QED BY <2>1 DEF OrgSettings
<1> QED BY <1>1, <1>2, <1>3, <1>4, <1>5, <1>6, <1>7, <1>8, <1>9, <1>10, <1>11

LEMMA OrgPatchNotWorse ==
  ASSUME NEW i \in Invocation, NEW v \in OrgSettings, NEW r, NEW n, NEW u,
         NEW r0 \in OrgRules, OrgBad(i, r0, OrgPatch(r, n, u, v))
  PROVE  OrgBad(i, r0, v)
<1> DEFINE p == OrgPatch(r, n, u, v)
<1>1. /\ p.basePerm \in {v.basePerm, "read"}
      /\ v.signoff => p.signoff
      /\ p.forkPrivate => v.forkPrivate
      /\ p.createPublic => v.createPublic
      /\ p.createRepos = v.createRepos
      /\ v.twoFactor => p.twoFactor
      /\ v.scanning /\ v.push => p.scanning /\ p.push
      /\ v.graph /\ v.alerts => p.graph /\ p.alerts
      /\ v.security => p.security
      /\ v.restricted => p.restricted
      /\ p.outside \subseteq v.outside
  BY OrgPatchImproves
<1>2. OrgBad(i, r0, p)
  OBVIOUS
<1>3. TooManyOutside(i, p) => TooManyOutside(i, v)
  <2>1. IsFiniteSet(v.outside \ i.allow)
    <3>1. v.outside \ i.allow \subseteq Users
      BY DEF OrgSettings
    <3> QED BY <3>1, SettingAssumption, FS_Subset
  <2>2. p.outside \ i.allow \subseteq v.outside \ i.allow
    BY <1>1
  <2>3. /\ Cardinality(p.outside \ i.allow) <= Cardinality(v.outside \ i.allow)
        /\ IsFiniteSet(p.outside \ i.allow)
    BY <2>1, <2>2, FS_Subset
  <2>4. /\ Cardinality(p.outside \ i.allow) \in Int /\ Cardinality(v.outside \ i.allow) \in Int
        /\ i.maxOutside \in Int
    BY <2>1, <2>3, FS_CardinalityType DEF Invocation
  <2> HIDE DEF p
  <2> QED BY <2>3, <2>4 DEF TooManyOutside
<1> HIDE DEF p
<1>4. CASE r0 \in {"ORG-04", "ORG-05", "ORG-06", "REPO-03", "SEC-03"}
  BY <1>1, <1>2, <1>4
     DEF OrgBad, Permissive, NoSignoff, ForksPrivate, OpenCreation, NoTwoFactor
<1>5. CASE r0 \in {"SEC-05", "SEC-06", "SEC-07", "IDENT-02"}
  BY <1>1, <1>2, <1>5 DEF OrgBad, Unscanned, Unalerted, NoDefaultConfig, Unrestricted
<1>6. CASE r0 = "IDENT-04"
  BY <1>2, <1>3, <1>6 DEF OrgBad
<1> QED BY <1>4, <1>5, <1>6 DEF OrgRules, SettingsOfOrg

LEMMA EntPatchNotWorse ==
  ASSUME NEW e \in EntSettings, NEW r, NEW n, NEW scope, NEW r0 \in EntRules,
         EntBad(r0, EntPatch(r, n, scope, e))
  PROVE  EntBad(r0, e)
<1> DEFINE p == EntPatch(r, n, scope, e)
<1>1. /\ e.rulesets # 0 => p.rulesets # 0
      /\ WritableToken(p) => WritableToken(e)
      /\ p.actions = "all" => e.actions = "all"
      /\ e.property => p.property
  <2>1. CASE r = "POL-02"
    <3>1. e.rulesets \in Nat
      BY DEF EntSettings
    <3>2. e.rulesets + 1 # 0
      BY <3>1
    <3>3. p = [e EXCEPT !.rulesets = e.rulesets + 1]
      BY <2>1, Zenon DEF EntPatch
    <3> DEFINE m == e.rulesets + 1
    <3>4. LET q == [e EXCEPT !.rulesets = m]
          IN /\ q.rulesets = m /\ q.workflow = e.workflow /\ q.approve = e.approve
             /\ q.actions = e.actions /\ q.property = e.property
      <4> HIDE DEF m
      <4> QED BY DEF EntSettings
    <3>5. p = [e EXCEPT !.rulesets = m] /\ m # 0
      BY <3>2, <3>3
    <3> HIDE DEF p, m
    <3> QED BY <3>4, <3>5 DEF WritableToken
  <2>2. CASE r # "POL-02"
    BY <2>2 DEF EntPatch, EntSettings, WritableToken
  <2> QED BY <2>1, <2>2
<1>2. EntBad(r0, p)
  OBVIOUS
<1> HIDE DEF p
<1> QED BY <1>1, <1>2 DEF EntBad, EntRules, NoRuleset, AnyAction, NoProperty

(* No request worsens a setting, whatever the session had read, however    *)
(* many sessions run and whatever they run.                                *)
THEOREM WritesNeverWorsen == Spec => NeverWorsens
<1> DEFINE Kept == /\ \A s \in Sessions, r \in OrgRules, o \in Orgs :
                        OrgBad(inv[s], r, org'[o]) => OrgBad(inv[s], r, org[o])
                   /\ \A r \in EntRules : EntBad(r, ent') => EntBad(r, ent)
<1>1. ASSUME Types, NEW s \in Sessions, Write(s) PROVE Kept
  <2>1. PICK x \in togo[s], answer \in {"ok", "refused", "lost"}, n \in {1, 2} :
          WritesAt(s, x, n, answer)
    BY <1>1, WriteStep
  <2> DEFINE r0 == row[s].rule
  <2>2. \/ UNCHANGED <<org, ent>>
        \/ ent' = EntWrite(s, r0, n) /\ UNCHANGED org
        \/ org' = [org EXCEPT ![x[1]] = OrgWrite(s, r0, n, x)] /\ UNCHANGED ent
    BY <2>1 DEF WritesAt
  <2>3. CASE UNCHANGED <<org, ent>>
    BY <2>3
  <2>4. CASE ent' = EntWrite(s, r0, n) /\ UNCHANGED org
    <3>1. PICK scope : ent' = EntPatch(r0, n, scope, ent)
      BY <2>4 DEF EntWrite
    <3>2. ent \in EntSettings
      BY <1>1 DEF Types, TypeOK
    <3>3. \A r \in EntRules : EntBad(r, ent') => EntBad(r, ent)
      BY <3>1, <3>2, EntPatchNotWorse
    <3> QED BY <2>4, <3>3
  <2>5. CASE org' = [org EXCEPT ![x[1]] = OrgWrite(s, r0, n, x)] /\ UNCHANGED ent
    <3>1. ASSUME NEW q \in Sessions, NEW r \in OrgRules, NEW o \in Orgs,
                 OrgBad(inv[q], r, org'[o])
          PROVE  OrgBad(inv[q], r, org[o])
      <4>1. CASE o = x[1]
        <5>1. org'[o] = OrgPatch(r0, n, x[2], org[o])
          BY <1>1, <2>5, <4>1 DEF OrgWrite, Types, TypeOK
        <5>2. inv[q] \in Invocation /\ org[o] \in OrgSettings
          BY <1>1 DEF Types, TypeOK
        <5>3. OrgBad(inv[q], r, OrgPatch(r0, n, x[2], org[o]))
          BY <3>1, <5>1
        <5> QED BY <5>2, <5>3, OrgPatchNotWorse
      <4>2. CASE o # x[1]
        <5>1. org'[o] = org[o]
          BY <1>1, <2>5, <4>2 DEF Types, TypeOK
        <5> QED BY <3>1, <5>1
      <4> QED BY <4>1, <4>2
    <3> QED BY <2>5, <3>1
  <2> QED BY <2>2, <2>3, <2>4, <2>5
<1>2. Types /\ [Next]_vars => [edits' = edits => Kept]_vars
  <2> SUFFICES ASSUME Types, Next, edits' = edits PROVE Kept
    OBVIOUS
  <2>1. CASE \E s \in Sessions : Write(s)
    BY <1>1, <2>1
  <2>2. CASE \E s \in Sessions : \/ Begin(s) \/ Read(s) \/ Start(s) \/ Report(s) \/ Finish(s)
                                 \/ Crash(s)
    <3>1. UNCHANGED <<org, ent>>
      BY <2>2 DEF Begin, Read, Start, Report, Finish, Crash
    <3> QED BY <3>1
  <2>3. CASE Edit
    <3>1. edits \in 0..MaxEdits /\ MaxEdits \in Nat
      BY SettingAssumption DEF Types, TypeOK
    <3>2. edits + 1 # edits
      BY <3>1
    <3> QED BY <2>3, <3>2 DEF Edit
  <2> QED BY <2>1, <2>2, <2>3 DEF Next
<1> QED BY <1>2, AlwaysTypes, PTL DEF Spec, NeverWorsens

-----------------------------------------------------------------------------
(* Removals are asked for: a session that names rules has no others left   *)
(* to run, and removals it is about to make are allowed to it.             *)
Named(s) == {inv[s].rules[k] : k \in DOMAIN inv[s].rules}

Granted(s) ==
  "IDENT-04" \in Named(s) /\ inv[s].maxOutside = 0 /\ ~inv[s].dryRun /\ inv[s].writer

AskedFor(s) ==
  /\ inv[s].rules # <<>> => \A k \in DOMAIN rest[s] : rest[s][k] \in Named(s)
  /\ row[s].rule = "IDENT-04" /\ togo[s] # {} =>
       Granted(s) /\ \A x \in togo[s] : x[2] \notin inv[s].allow
  /\ \A d \in did[s] : d[1] = "IDENT-04" => Granted(s) /\ d[2][2] \notin inv[s].allow

Asked == \A s \in Sessions : AskedFor(s)

LEMMA InitAsked == Init => Asked
<1> SUFFICES ASSUME Init, NEW s \in Sessions PROVE AskedFor(s)
  BY DEF Asked
<1>1. inv[s].rules # <<>> => rest[s] = inv[s].rules
  BY DEF Init
<1>2. togo[s] = {} /\ did[s] = {}
  BY DEF Init
<1> QED BY <1>1, <1>2 DEF AskedFor, Named

LEMMA StartAsked ==
  ASSUME Types, Asked, NEW s \in Sessions, Start(s)
  PROVE  AskedFor(s)'
<1>1. PICK k \in DOMAIN rest[s] :
        k \in Nat /\ rest[s][k] \in Rules /\ Target(s, rest[s][k]) /\ StartsAt(s, k)
  BY StartStep
<1> DEFINE r == rest[s][k]
<1>2. UNCHANGED <<inv, did>>
  BY DEF Start
<1>3. rest'[s] = SubSeq(rest[s], k + 1, Len(rest[s])) /\ rest[s] \in Seq(Rules)
  BY <1>1 DEF StartsAt, Types, TypeOK
<1>4. \A j \in DOMAIN rest'[s] : \E m \in DOMAIN rest[s] : rest'[s][j] = rest[s][m]
  <2>1. k + 1 \in Int /\ Len(rest[s]) \in Nat /\ k \in 1..Len(rest[s])
    BY <1>1, <1>3
  <2>2. \A j \in k + 1 .. Len(rest[s]) : rest[s][j] \in Rules
    BY <1>3, <2>1
  <2>3. /\ DOMAIN rest'[s] = 1 .. (Len(rest[s]) - k)
        /\ \A j \in 1 .. (Len(rest[s]) - k) : rest'[s][j] = rest[s][k + j]
    BY <1>3, <2>1
  <2>4. \A j \in 1 .. (Len(rest[s]) - k) : k + j \in DOMAIN rest[s]
    BY <1>3, <2>1
  <2> QED BY <2>3, <2>4
<1>5. inv[s].rules # <<>> => \A j \in DOMAIN rest'[s] : rest'[s][j] \in Named(s)
  BY <1>4 DEF Asked, AskedFor
<1>6. row'[s].rule = r /\ togo'[s] = IF inv[s].dryRun \/ ~inv[s].writer THEN {} ELSE Changes(s, r)
  BY <1>1 DEF StartsAt, Types, TypeOK
<1>7. ASSUME r = "IDENT-04", togo'[s] # {}
      PROVE  Granted(s) /\ \A x \in togo'[s] : x[2] \notin inv[s].allow
  <2>1. togo'[s] = Changes(s, r) /\ ~inv[s].dryRun /\ inv[s].writer
    BY <1>6, <1>7
  <2>2. Changes(s, r) = {x \in Orgs \X Users : /\ inv[s].maxOutside = 0
                                               /\ x[1] \in Readable(s, r)
                                               /\ x[2] \in seenOrg[s][x[1]].outside \ inv[s].allow}
    BY <1>7 DEF Changes, EntRules
  <2>3. inv[s].maxOutside = 0 /\ \A x \in togo'[s] : x[2] \notin inv[s].allow
    BY <1>7, <2>1, <2>2
  <2>4. inv[s].rules # <<>>
    BY <1>1, <1>7 DEF Target, Destructive
  <2>5. "IDENT-04" \in Named(s)
    BY <1>7, <2>4 DEF Asked, AskedFor
  <2> QED BY <2>1, <2>3, <2>5 DEF Granted
<1>8. \A d \in did'[s] : d[1] = "IDENT-04" => Granted(s) /\ d[2][2] \notin inv[s].allow
  BY <1>2 DEF Asked, AskedFor
<1>9. Granted(s)' = Granted(s) /\ Named(s)' = Named(s) /\ inv' = inv
  BY <1>2 DEF Granted, Named
<1> QED BY <1>5, <1>6, <1>7, <1>8, <1>9 DEF AskedFor

LEMMA WriteAsked ==
  ASSUME Types, Asked, NEW s \in Sessions, Write(s)
  PROVE  AskedFor(s)'
<1>1. PICK x \in togo[s], answer \in {"ok", "refused", "lost"}, n \in {1, 2} :
        WritesAt(s, x, n, answer)
  BY WriteStep
<1>2. UNCHANGED <<inv, rest>> /\ Granted(s)' = Granted(s) /\ Named(s)' = Named(s)
  BY DEF Write, Granted, Named
<1>3. row'[s].rule = row[s].rule /\ togo'[s] \subseteq togo[s]
  <2>1. row[s] \in Result
    BY DEF Types, TypeOK
  <2>2. row' = row \/ row' = [row EXCEPT ![s] = Answer(row[s], answer)]
    BY <1>1 DEF WritesAt
  <2>3. togo' = togo \/ togo' = [togo EXCEPT ![s] = togo[s] \ {x}]
    BY <1>1 DEF WritesAt
  <2>4. Answer(row[s], answer).rule = row[s].rule
    BY <2>1, AnswerType
  <2>5. row \in [Sessions -> Result] /\ togo \in [Sessions -> SUBSET Items]
    BY DEF Types, TypeOK
  <2> QED BY <2>2, <2>3, <2>4, <2>5
<1>4. did'[s] \subseteq did[s] \cup {<<row[s].rule, x, n>>}
  BY <1>1 DEF WritesAt, Types, TypeOK
<1>5. row[s].rule = "IDENT-04" => Granted(s) /\ x[2] \notin inv[s].allow
  BY DEF Asked, AskedFor
<1>6. \A d \in did'[s] : d[1] = "IDENT-04" => Granted(s) /\ d[2][2] \notin inv[s].allow
  <2>1. \A d \in did[s] : d[1] = "IDENT-04" => Granted(s) /\ d[2][2] \notin inv[s].allow
    BY DEF Asked, AskedFor
  <2> QED BY <1>4, <1>5, <2>1
<1>7. row[s].rule = "IDENT-04" /\ togo[s] # {} =>
        Granted(s) /\ \A y \in togo[s] : y[2] \notin inv[s].allow
  BY DEF Asked, AskedFor
<1>8. inv[s].rules # <<>> => \A k \in DOMAIN rest[s] : rest[s][k] \in Named(s)
  BY DEF Asked, AskedFor
<1> QED BY <1>2, <1>3, <1>6, <1>7, <1>8 DEF AskedFor

LEMMA OtherAsked ==
  ASSUME Types, Asked, NEW s \in Sessions,
         \/ /\ rest'[s] = rest[s] /\ row'[s] = row[s] /\ togo'[s] = togo[s]
         \/ rest'[s] = <<>> /\ togo'[s] = {},
         inv' = inv, did'[s] = did[s]
  PROVE  AskedFor(s)'
<1>1. Granted(s)' = Granted(s) /\ Named(s)' = Named(s)
  BY DEF Granted, Named
<1>2. AskedFor(s)
  BY DEF Asked
<1>3. CASE rest'[s] = rest[s] /\ row'[s] = row[s] /\ togo'[s] = togo[s]
  BY <1>1, <1>2, <1>3 DEF AskedFor
<1>4. CASE rest'[s] = <<>> /\ togo'[s] = {}
  BY <1>1, <1>2, <1>4 DEF AskedFor
<1> QED BY <1>3, <1>4

(* A session's step leaves what the others are about alone.                *)
LEMMA OthersAlone ==
  ASSUME Types, NEW s \in Sessions,
         \/ Begin(s) \/ Read(s) \/ Start(s) \/ Write(s) \/ Report(s) \/ Finish(s) \/ Crash(s),
         NEW q \in Sessions \ {s}
  PROVE  /\ pc'[q] = pc[q] /\ seenOrg'[q] = seenOrg[q] /\ seenEnt'[q] = seenEnt[q]
         /\ listed'[q] = listed[q] /\ unread'[q] = unread[q] /\ rest'[q] = rest[q]
         /\ row'[q] = row[q] /\ togo'[q] = togo[q] /\ half'[q] = half[q]
         /\ results'[q] = results[q] /\ did'[q] = did[q] /\ todo'[q] = todo[q]
         /\ inv' = inv /\ demo' = demo /\ edited' = edited
<1>1. CASE Begin(s)
  BY <1>1 DEF Begin, Types, TypeOK
<1>2. CASE Read(s)
  <2>1. PICK p \in todo[s], lost \in Outages :
          /\ IF p = Ent
             THEN /\ seenEnt' = [seenEnt EXCEPT ![s] = EntAsRead(lost, ent)]
                  /\ UNCHANGED seenOrg
             ELSE /\ seenOrg' = [seenOrg EXCEPT ![s][p] = OrgAsRead(lost, org[p])]
                  /\ UNCHANGED seenEnt
          /\ unread' = [unread EXCEPT ![s] = @ \cup ({p} \X (lost \cap IF p = Ent THEN EntParts ELSE OrgParts))]
          /\ todo' = [todo EXCEPT ![s] = @ \ {p}]
          /\ pc' = [pc EXCEPT ![s] = IF todo[s] = {p} THEN "next" ELSE "read"]
    BY <1>2 DEF Read
  <2>2. seenEnt'[q] = seenEnt[q] /\ seenOrg'[q] = seenOrg[q]
    BY <2>1 DEF Types, TypeOK
  <2>3. unread'[q] = unread[q] /\ pc'[q] = pc[q] /\ todo'[q] = todo[q]
    BY <2>1 DEF Types, TypeOK
  <2> QED BY <1>2, <2>2, <2>3 DEF Read
<1>3. CASE Start(s)
  <2>1. PICK k \in DOMAIN rest[s] : StartsAt(s, k)
    BY <1>3, StartStep
  <2>2. row'[q] = row[q] /\ togo'[q] = togo[q] /\ rest'[q] = rest[q]
    BY <2>1 DEF StartsAt, Types, TypeOK
  <2>3. pc'[q] = pc[q]
    BY <1>3 DEF Start, Types, TypeOK
  <2> QED BY <1>3, <2>2, <2>3 DEF Start
<1>4. CASE Write(s)
  <2>1. PICK x \in togo[s], answer \in {"ok", "refused", "lost"}, n \in {1, 2} :
          WritesAt(s, x, n, answer)
    BY <1>4, WriteStep
  <2>2. row' = row \/ row' = [row EXCEPT ![s] = Answer(row[s], answer)]
    BY <2>1 DEF WritesAt
  <2>3. row'[q] = row[q]
    BY <2>2 DEF Types, TypeOK
  <2>4. togo'[q] = togo[q] /\ half'[q] = half[q] /\ did'[q] = did[q]
    BY <2>1 DEF WritesAt, Types, TypeOK
  <2> QED BY <1>4, <2>3, <2>4 DEF Write
<1>5. CASE Report(s) \/ Finish(s)
  BY <1>5 DEF Report, Finish, Types, TypeOK
<1>6. CASE Crash(s)
  BY <1>6 DEF Crash, Types, TypeOK
<1> QED BY <1>1, <1>2, <1>3, <1>4, <1>5, <1>6

LEMMA NextAsked == Types /\ Asked /\ [Next]_vars => Asked'
<1> SUFFICES ASSUME Types, Asked, [Next]_vars PROVE Asked'
  OBVIOUS
<1>1. CASE UNCHANGED vars \/ Edit
  BY <1>1, OtherAsked DEF Asked, Edit, vars
<1>2. ASSUME NEW s \in Sessions,
             \/ Begin(s) \/ Read(s) \/ Start(s) \/ Write(s) \/ Report(s) \/ Finish(s) \/ Crash(s)
      PROVE  Asked'
  <2>1. \A q \in Sessions \ {s} : AskedFor(q)'
    <3> TAKE q \in Sessions \ {s}
    <3>1. /\ rest'[q] = rest[q] /\ row'[q] = row[q] /\ togo'[q] = togo[q]
          /\ did'[q] = did[q] /\ inv' = inv
      BY <1>2, OthersAlone
    <3> QED BY <3>1, OtherAsked
  <2>2. AskedFor(s)'
    <3>1. CASE Begin(s) \/ Read(s) \/ Report(s) \/ Finish(s)
      <4>1. UNCHANGED <<inv, rest, row, togo, did>>
        BY <3>1 DEF Begin, Read, Report, Finish
      <4> QED BY <4>1, OtherAsked
    <3>2. CASE Crash(s)
      <4>1. inv' = inv /\ did' = did /\ rest'[s] = <<>> /\ togo'[s] = {}
        BY <3>2 DEF Crash, Types, TypeOK
      <4> QED BY <4>1, OtherAsked
    <3> QED BY <1>2, <3>1, <3>2, StartAsked, WriteAsked
  <2> QED BY <2>1, <2>2 DEF Asked
<1> QED BY <1>1, <1>2 DEF Next

(* An outside collaborator is removed only by a session that names the     *)
(* rule, may write, is not dry and allows none, and never an exempt one.   *)
THEOREM RemovalsAsked == Spec => []RemovalsAreAsked
<1>1. Asked => RemovalsAreAsked
  BY DEF Asked, AskedFor, Granted, Named, RemovalsAreAsked
<1> QED BY InitAsked, NextAsked, AlwaysTypes, <1>1, PTL DEF Spec

-----------------------------------------------------------------------------
(* Results tell the truth, and so does the row of a remediation under way, *)
(* where the changes that are left, and the half of one, are not yet told. *)
Done(s, r, x) == <<r, x, LastRequest(r)>> \in did[s]

Covers(q, d) == q.rule = d[1] /\ d[2] \in q.changes

True(s, q, left) ==
  /\ q.applied => \E x \in q.changes : Done(s, q.rule, x)
  /\ ~q.errors /\ ~inv[s].dryRun => \A x \in q.changes \ left : Done(s, q.rule, x)

Told(s, d) == \E q \in results[s] : Covers(q, d) /\ (q.applied \/ q.errors)

TruthOf(s) ==
  /\ pc[s] \in {"new", "read"} => did[s] = {} /\ togo[s] = {}
  /\ half[s] => pc[s] = "write" /\ togo[s] # {} /\ LastRequest(row[s].rule) = 2
  /\ pc[s] \in {"next", "done"} => \A d \in did[s] : Told(s, d)
  /\ pc[s] = "write" =>
       /\ True(s, row[s], togo[s])
       /\ \A d \in did[s] :
            Told(s, d) \/ (Covers(row[s], d) /\ (row[s].applied \/ row[s].errors \/ half[s]))
  /\ \A q \in results[s] : True(s, q, {})

Truth == \A s \in Sessions : TruthOf(s)

LEMMA InitTruth == Init => Truth
<1> SUFFICES ASSUME Init, NEW s \in Sessions PROVE TruthOf(s)
  BY DEF Truth
<1>1. did[s] = {} /\ togo[s] = {} /\ ~half[s] /\ pc[s] = "new" /\ results[s] = {}
  BY DEF Init
<1> QED BY <1>1 DEF TruthOf

LEMMA StartTruth ==
  ASSUME Types, Truth, NEW s \in Sessions, Start(s)
  PROVE  TruthOf(s)'
<1>1. PICK k \in DOMAIN rest[s] :
        k \in Nat /\ rest[s][k] \in Rules /\ Target(s, rest[s][k]) /\ StartsAt(s, k)
  BY StartStep
<1> DEFINE r == rest[s][k]
           changes == Changes(s, r)
<1>2. /\ UNCHANGED <<demo, inv, did, half, results>>
      /\ pc[s] = "next" /\ pc'[s] = "write"
  BY DEF Start, Types, TypeOK
<1>3. TruthOf(s)
  BY DEF Truth
<1>4. /\ row'[s].changes = changes /\ ~row'[s].applied
      /\ ~inv[s].dryRun /\ ~inv[s].writer /\ (r \in OrgRules \/ changes # {}) => row'[s].errors
      /\ togo'[s] = IF inv[s].dryRun \/ ~inv[s].writer THEN {} ELSE changes
  BY <1>1 DEF StartsAt, Types, TypeOK
<1> HIDE DEF changes
<1>5. True(s, row[s], togo[s])'
  <2>1. ASSUME ~row'[s].errors, ~inv'[s].dryRun PROVE row'[s].changes \ togo'[s] = {}
    BY <1>2, <1>4, <2>1
  <2> QED BY <1>4, <2>1 DEF True
<1>6. ~half[s] /\ (\A d \in did[s] : Told(s, d)) /\ (\A q \in results[s] : True(s, q, {}))
  BY <1>2, <1>3 DEF TruthOf
<1>7. /\ \A d \in did[s] : Told(s, d)' = Told(s, d)
      /\ \A q \in results[s] : True(s, q, {})' = True(s, q, {})
  BY <1>2 DEF Told, True, Done, LastRequest
<1> QED BY <1>2, <1>5, <1>6, <1>7 DEF TruthOf

LEMMA WriteTruth ==
  ASSUME Types, Truth, NEW s \in Sessions, Write(s)
  PROVE  TruthOf(s)'
<1>1. PICK x \in togo[s], answer \in {"ok", "refused", "lost"}, n \in {1, 2} :
        /\ n = IF half[s] THEN 2 ELSE FirstRequest(row[s].rule)
        /\ WritesAt(s, x, n, answer)
        /\ x \in row[s].changes
  BY WriteStep
<1>15. PICK r, last : r = row[s].rule /\ last = LastRequest(r)
  OBVIOUS
<1> DEFINE more == answer = "ok" /\ n < last
<1>2. /\ UNCHANGED <<demo, inv, results>>
      /\ pc[s] = "write" /\ pc'[s] = "write"
  BY DEF Write, Types, TypeOK
<1>3. TruthOf(s)
  BY DEF Truth
<1>4. /\ did'[s] = IF answer = "refused" THEN did[s] ELSE did[s] \cup {<<r, x, n>>}
      /\ half'[s] = more
  BY <1>1, <1>15 DEF WritesAt, Types, TypeOK
<1>5. /\ row'[s].rule = r /\ row'[s].changes = row[s].changes
      /\ row'[s].applied = (row[s].applied \/ (answer = "ok" /\ ~more))
      /\ row'[s].errors = (row[s].errors \/ answer # "ok")
  <2>1. row[s] \in Result /\ row \in [Sessions -> Result]
    BY DEF Types, TypeOK
  <2>2. row' = IF more THEN row ELSE [row EXCEPT ![s] = Answer(row[s], answer)]
    BY <1>1, <1>15 DEF WritesAt
  <2>3. CASE more
    <3>1. row'[s] = row[s]
      BY <2>2, <2>3
    <3>2. row[s].applied \in BOOLEAN /\ row[s].errors \in BOOLEAN
      BY <2>1 DEF Result
    <3>3. answer = "ok"
      BY <2>3
    <3> QED BY <1>15, <2>3, <3>1, <3>2, <3>3
  <2>4. CASE ~more
    <3>1. row'[s] = Answer(row[s], answer)
      BY <2>1, <2>2, <2>4
    <3>2. /\ row'[s].rule = row[s].rule /\ row'[s].changes = row[s].changes
          /\ row'[s].applied = (row[s].applied \/ answer = "ok")
          /\ row'[s].errors = (row[s].errors \/ answer # "ok")
      <4> DEFINE a == Answer(row[s], answer)
      <4>1. /\ a.rule = row[s].rule /\ a.changes = row[s].changes
            /\ a.applied = (row[s].applied \/ answer = "ok")
            /\ a.errors = (row[s].errors \/ answer # "ok")
        BY <2>1, AnswerType, Zenon
      <4>2. row'[s] = a
        BY <3>1
      <4> HIDE DEF a
      <4> QED BY <4>1, <4>2, Zenon
    <3>3. (row[s].applied \/ (answer = "ok" /\ ~more)) = (row[s].applied \/ answer = "ok")
      BY <2>4, Zenon
    <3> QED BY <1>15, <3>2, <3>3
  <2> QED BY <2>3, <2>4
<1>6. togo'[s] = IF more THEN togo[s] ELSE togo[s] \ {x}
  BY <1>1, <1>15 DEF WritesAt, Types, TypeOK
<1>7. last \in {1, 2} /\ n <= last
  BY <1>1, <1>3, <1>15 DEF TruthOf, LastRequest, FirstRequest
<1>8. answer = "ok" /\ ~more => <<r, x, last>> \in did'[s]
  BY <1>4, <1>7
<1>9. did[s] \subseteq did'[s]
  BY <1>4
<1>10. True(s, row[s], togo[s])
  BY <1>2, <1>3 DEF TruthOf
<1>11. True(s, row[s], togo[s])'
  <2>1. ASSUME row'[s].applied PROVE \E y \in row[s].changes : <<r, y, last>> \in did'[s]
    <3>1. CASE row[s].applied
      BY <1>9, <1>10, <1>15, <3>1 DEF True, Done
    <3>2. CASE answer = "ok" /\ ~more
      BY <1>1, <1>8, <3>2
    <3> QED BY <1>5, <2>1, <3>1, <3>2
  <2>2. ASSUME ~row'[s].errors, ~inv[s].dryRun, NEW y \in row[s].changes \ togo'[s]
        PROVE  <<r, y, last>> \in did'[s]
    <3>1. answer = "ok" /\ ~row[s].errors
      BY <1>5, <2>2
    <3>2. CASE y \in togo[s]
      BY <1>6, <1>8, <2>2, <3>1, <3>2
    <3>3. CASE y \notin togo[s]
      <4>1. Done(s, row[s].rule, y)
        BY <1>10, <2>2, <3>1, <3>3 DEF True
      <4> QED BY <1>9, <1>15, <4>1 DEF Done
    <3> QED BY <3>2, <3>3
  <2>3. LastRequest(row[s].rule)' = last
    BY <1>2, <1>5, <1>15 DEF LastRequest
  <2> QED BY <1>2, <1>5, <2>1, <2>2, <2>3 DEF True, Done
<1>12. \A q \in results'[s] : True(s, q, {})'
  <2>1. \A q \in results[s] : True(s, q, {})
    BY <1>3 DEF TruthOf
  <2>2. ASSUME NEW q \in results[s] PROVE True(s, q, {})'
    <3>1. True(s, q, {})
      BY <2>1
    <3>2. \A y : Done(s, q.rule, y) => Done(s, q.rule, y)'
      BY <1>2, <1>9 DEF Done, LastRequest
    <3> QED BY <1>2, <3>1, <3>2 DEF True
  <2> QED BY <1>2, <2>2
<1>13. ASSUME NEW d \in did'[s]
       PROVE  \/ Told(s, d)'
              \/ (Covers(row[s], d) /\ (row[s].applied \/ row[s].errors \/ half[s]))'
  <2>1. Told(s, d)' = Told(s, d)
    BY <1>2 DEF Told
  <2>2. Covers(row[s], d)' = Covers(row[s], d)
    BY <1>5, <1>15 DEF Covers
  <2>3. (row[s].applied \/ row[s].errors \/ half[s])'
    BY <1>4, <1>5
  <2>4. CASE d \in did[s]
    BY <1>2, <1>3, <2>1, <2>2, <2>3, <2>4 DEF TruthOf
  <2>5. CASE d \notin did[s]
    <3>1. d = <<r, x, n>>
      BY <1>4, <1>13, <2>5
    <3>2. Covers(row[s], d)
      BY <1>1, <1>15, <3>1 DEF Covers
    <3> QED BY <2>2, <2>3, <3>2
  <2> QED BY <2>4, <2>5
<1>14. half'[s] => togo'[s] # {} /\ LastRequest(row[s].rule)' = 2
  <2>1. more => togo'[s] # {} /\ last = 2
    BY <1>1, <1>6, <1>7
  <2>2. LastRequest(row[s].rule)' = last
    BY <1>2, <1>5, <1>15 DEF LastRequest
  <2> QED BY <1>4, <2>1, <2>2
<1> QED BY <1>2, <1>11, <1>12, <1>13, <1>14 DEF TruthOf

(* A step that changes no request and no result but Report's ...           *)
LEMMA ReportTruth ==
  ASSUME Types, Truth, NEW s \in Sessions, Report(s)
  PROVE  TruthOf(s)'
<1>1. /\ UNCHANGED <<demo, inv, did, half, row, togo>>
      /\ pc[s] = "write" /\ pc'[s] = "next" /\ togo[s] = {}
      /\ results'[s] = results[s] \cup {row[s]}
  BY DEF Report, Types, TypeOK
<1>2. TruthOf(s)
  BY DEF Truth
<1>3. ~half[s] /\ True(s, row[s], {})
  BY <1>1, <1>2 DEF TruthOf
<1>4. \A q, left : True(s, q, left)' = True(s, q, left)
  BY <1>1 DEF True, Done, LastRequest
<1>5. \A q \in results'[s] : True(s, q, {})'
  BY <1>1, <1>2, <1>3, <1>4 DEF TruthOf
<1>6. ASSUME NEW d \in did'[s] PROVE Told(s, d)'
  <2>1. Told(s, d) \/ (Covers(row[s], d) /\ (row[s].applied \/ row[s].errors))
    BY <1>1, <1>2, <1>3, <1>6 DEF TruthOf
  <2> QED BY <1>1, <2>1 DEF Told
<1> QED BY <1>1, <1>3, <1>5, <1>6 DEF TruthOf

(* ... keeps what is told.                                                 *)
LEMMA OtherTruth ==
  ASSUME Types, Truth, NEW s \in Sessions, demo' = demo, inv' = inv, did'[s] = did[s],
         \/ /\ half'[s] = half[s] /\ togo'[s] = togo[s] /\ row'[s] = row[s]
            /\ results'[s] = results[s]
            /\ \/ pc'[s] = pc[s]
               \/ pc[s] \in {"new", "read"} /\ pc'[s] \in {"read", "next"}
               \/ pc[s] = "next" /\ pc'[s] = "done"
         \/ /\ ~half'[s] /\ results'[s] = {} /\ pc'[s] = "crashed"
  PROVE  TruthOf(s)'
<1>1. TruthOf(s)
  BY DEF Truth
<1>2. \A q, left : True(s, q, left)' = True(s, q, left)
  BY DEF True, Done, LastRequest
<1>3. CASE ~half'[s] /\ results'[s] = {} /\ pc'[s] = "crashed"
  BY <1>3 DEF TruthOf
<1>4. CASE /\ half'[s] = half[s] /\ togo'[s] = togo[s] /\ row'[s] = row[s]
           /\ results'[s] = results[s]
           /\ \/ pc'[s] = pc[s]
              \/ pc[s] \in {"new", "read"} /\ pc'[s] \in {"read", "next"}
              \/ pc[s] = "next" /\ pc'[s] = "done"
  <2>1. \A d : Told(s, d)' = Told(s, d)
    BY <1>4 DEF Told
  <2>2. LastRequest(row[s].rule)' = LastRequest(row[s].rule)
    BY <1>4 DEF LastRequest
  <2>3. True(s, row[s], togo[s])' = True(s, row[s], togo[s])
    BY <1>4 DEF True, Done, LastRequest
  <2>4. \A d : Covers(row[s], d)' = Covers(row[s], d)
    BY <1>4 DEF Covers
  <2>5. CASE pc'[s] = pc[s]
    BY <1>1, <1>2, <1>4, <2>1, <2>2, <2>3, <2>4, <2>5 DEF TruthOf
  <2>6. CASE pc[s] \in {"new", "read"} /\ pc'[s] \in {"read", "next"}
    BY <1>1, <1>2, <1>4, <2>6 DEF TruthOf
  <2>7. CASE pc[s] = "next" /\ pc'[s] = "done"
    BY <1>1, <1>2, <1>4, <2>1, <2>7 DEF TruthOf
  <2> QED BY <1>4, <2>5, <2>6, <2>7
<1> QED BY <1>3, <1>4

LEMMA NextTruth == Types /\ Truth /\ [Next]_vars => Truth'
<1> SUFFICES ASSUME Types, Truth, [Next]_vars PROVE Truth'
  OBVIOUS
<1>1. CASE UNCHANGED vars \/ Edit
  BY <1>1, OtherTruth DEF Truth, Edit, vars
<1>2. ASSUME NEW s \in Sessions,
             \/ Begin(s) \/ Read(s) \/ Start(s) \/ Write(s) \/ Report(s) \/ Finish(s) \/ Crash(s)
      PROVE  Truth'
  <2>1. \A q \in Sessions \ {s} : TruthOf(q)'
    <3> TAKE q \in Sessions \ {s}
    <3>1. /\ pc'[q] = pc[q] /\ row'[q] = row[q] /\ togo'[q] = togo[q] /\ half'[q] = half[q]
          /\ results'[q] = results[q] /\ did'[q] = did[q] /\ inv' = inv /\ demo' = demo
      BY <1>2, OthersAlone
    <3> QED BY <3>1, OtherTruth
  <2>2. TruthOf(s)'
    <3>1. CASE Begin(s)
      <4>1. /\ UNCHANGED <<demo, inv, did, half, togo, row, results>>
            /\ pc[s] = "new" /\ pc'[s] = "read"
        BY <3>1 DEF Begin, Types, TypeOK
      <4> QED BY <4>1, OtherTruth
    <3>2. CASE Read(s)
      <4>1. UNCHANGED <<demo, inv, did, half, togo, row, results>> /\ pc[s] = "read"
        BY <3>2 DEF Read
      <4>2. pc'[s] \in {"read", "next"}
        <5>1. PICK p : pc' = [pc EXCEPT ![s] = IF todo[s] = {p} THEN "next" ELSE "read"]
          BY <3>2 DEF Read
        <5> QED BY <5>1 DEF Types, TypeOK
      <4> QED BY <4>1, <4>2, OtherTruth
    <3>3. CASE Finish(s)
      <4>1. /\ UNCHANGED <<demo, inv, did, half, togo, row, results>>
            /\ pc[s] = "next" /\ pc'[s] = "done"
        BY <3>3 DEF Finish, Types, TypeOK
      <4> QED BY <4>1, OtherTruth
    <3>4. CASE Crash(s)
      <4>1. /\ UNCHANGED <<demo, inv, did>>
            /\ ~half'[s] /\ results'[s] = {} /\ pc'[s] = "crashed"
        BY <3>4 DEF Crash, Types, TypeOK
      <4> QED BY <4>1, OtherTruth
    <3> QED BY <1>2, <3>1, <3>2, <3>3, <3>4, StartTruth, WriteTruth, ReportTruth
  <2> QED BY <2>1, <2>2 DEF Truth
<1> QED BY <1>1, <1>2 DEF Next

(* Nothing a session did is missing from its results, nothing they call    *)
(* applied was not done to its end, and none without errors is incomplete. *)
THEOREM ResultsTrue == Spec => []ResultsTellTheTruth
<1>1. Truth => ResultsTellTheTruth
  <2> SUFFICES ASSUME Truth, NEW s \in Sessions, pc[s] \in {"next", "done"}
               PROVE  /\ \A d \in did[s] : Told(s, d)
                      /\ \A q \in results[s] : True(s, q, {})
    BY DEF ResultsTellTheTruth, Told, Covers, True, Done
  <2> QED BY DEF Truth, TruthOf
<1> QED BY InitTruth, NextTruth, AlwaysTypes, <1>1, PTL DEF Spec

-----------------------------------------------------------------------------
(* In bulk a session changes what it found, organization by organization.  *)
Touched(q) == {x[1] : x \in q.changes}

Found(s, r) ==
  IF r \in EntRules THEN {Ent}
  ELSE {o \in listed[s] : <<o, Part(r)>> \notin unread[s] /\ OrgBad(inv[s], r, seenOrg[s][o])}

Matches(s, q) ==
  /\ q.changes # {} \/ q.rule = "REPO-03"
  /\ Touched(q) \subseteq Found(s, q.rule)
  /\ q.rule # "REPO-03" => Touched(q) = Found(s, q.rule)

LEMMA FirstsOfProduct ==
  ASSUME NEW S, NEW u
  PROVE  {x[1] : x \in S \X {u}} = S /\ (S # {} => S \X {u} # {})
<1>1. \A o \in S : <<o, u>> \in S \X {u} /\ <<o, u>>[1] = o
  OBVIOUS
<1>2. \A x \in S \X {u} : x[1] \in S
  OBVIOUS
<1>3. \A o \in S : o \in {x[1] : x \in S \X {u}}
  <2> TAKE o \in S
  <2>1. <<o, u>> \in S \X {u} /\ o = <<o, u>>[1]
    BY <1>1
  <2> QED BY <2>1, Zenon
<1>4. {x[1] : x \in S \X {u}} \subseteq S
  BY <1>2, Zenon
<1>5. S # {} => S \X {u} # {}
  BY <1>1
<1> QED BY <1>3, <1>4, <1>5, Zenon

LEMMA ChangesMatch ==
  ASSUME NEW s \in Sessions, NEW r \in Rules, NEW q,
         inv[s].rules = <<>>, Target(s, r), q.rule = r, q.changes = Changes(s, r)
  PROVE  Matches(s, q)
<1>1. Finding(s, r) /\ r \notin Destructive
  BY DEF Target
<1>2. CASE r \in EntRules
  <2>1. EntBad(r, seenEnt[s])
    BY <1>1, <1>2 DEF Finding
  <2>2. q.changes = {<<Ent, NoUser>>}
    <3>1. Changes(s, r) = {x \in {<<Ent, NoUser>>} : EntNeeds(r, seenEnt[s])}
      BY <1>2 DEF Changes, EntRules
    <3>2. EntNeeds(r, seenEnt[s])
      BY <2>1 DEF EntNeeds
    <3> QED BY <3>1, <3>2
  <2>3. Touched(q) = {Ent} /\ Found(s, r) = {Ent}
    BY <1>2, <2>2 DEF Touched, Found
  <2> QED BY <2>2, <2>3 DEF Matches
<1>3. CASE r \notin EntRules
  <2>1. r # "IDENT-04"
    BY <1>1 DEF Destructive
  <2> DEFINE needs == {o \in Readable(s, r) : OrgNeeds(inv[s], r, seenOrg[s][o])}
  <2>2. q.changes = needs \X {NoUser}
    BY <1>3, <2>1 DEF Changes
  <2>3. Touched(q) = needs
    <3> HIDE DEF needs
    <3>1. Touched(q) = {x[1] : x \in needs \X {NoUser}}
      BY <2>2 DEF Touched
    <3> QED BY <3>1, FirstsOfProduct
  <2>4. Found(s, r) = {o \in Readable(s, r) : OrgBad(inv[s], r, seenOrg[s][o])}
    BY <1>3 DEF Found, Readable
  <2>5. CASE r = "REPO-03"
    <3>1. \A o : OrgNeeds(inv[s], r, seenOrg[s][o]) => OrgBad(inv[s], r, seenOrg[s][o])
      BY <2>5 DEF OrgNeeds, OrgBad, OpenCreation
    <3>2. needs \subseteq Found(s, r)
      BY <2>4, <3>1
    <3> HIDE DEF needs
    <3> QED BY <2>3, <2>5, <3>2 DEF Matches
  <2>6. CASE r # "REPO-03"
    <3>1. needs = Found(s, r)
      BY <2>4, <2>6 DEF OrgNeeds
    <3>2. Found(s, r) # {}
      BY <1>1, <1>3, <2>4 DEF Finding
    <3> HIDE DEF needs
    <3>3. q.changes # {}
      <4>1. needs # {} => needs \X {NoUser} # {}
        BY FirstsOfProduct
      <4> QED BY <2>2, <3>1, <3>2, <4>1
    <3> QED BY <2>3, <3>1, <3>3 DEF Matches
  <2> QED BY <2>5, <2>6
<1> QED BY <1>2, <1>3

(* What a row lists was what its rule asked for in what the session had    *)
(* read, which stays as it is from the first remediation on.               *)
Lists(s, q) ==
  /\ q.rule \in Rules /\ q.changes = Changes(s, q.rule)
  /\ inv[s].rules = <<>> => Target(s, q.rule)
  /\ q.rule = "IDENT-04" /\ ~q.errors => inv[s].maxOutside = 0

ListsOf(s) ==
  /\ pc[s] \notin {"next", "write", "done"} => results[s] = {}
  /\ pc[s] = "write" => Lists(s, row[s])
  /\ \A q \in results[s] : Lists(s, q)

Listings == \A s \in Sessions : ListsOf(s)

LEMMA SameLists ==
  ASSUME NEW s \in Sessions, inv' = inv, listed'[s] = listed[s], unread'[s] = unread[s],
         seenOrg'[s] = seenOrg[s], seenEnt'[s] = seenEnt[s]
  PROVE  \A q : Lists(s, q) => Lists(s, q)'
<1>1. \A r : Readable(s, r)' = Readable(s, r)
  BY DEF Readable
<1>2. \A r : Finding(s, r)' <=> Finding(s, r)
  <2> TAKE r
  <2>1. Readable(s, r)' = Readable(s, r)
    BY <1>1
  <2>2. EntBad(r, seenEnt'[s]) = EntBad(r, seenEnt[s])
    OBVIOUS
  <2>3. \A o : OrgBad(inv'[s], r, seenOrg'[s][o]) = OrgBad(inv[s], r, seenOrg[s][o])
    OBVIOUS
  <2> QED BY <2>1, <2>2, <2>3 DEF Finding
<1>3. \A r : Target(s, r)' <=> Target(s, r)
  BY <1>2 DEF Target
<1>4. \A r : Changes(s, r)' = Changes(s, r)
  <2> TAKE r
  <2>1. Readable(s, r)' = Readable(s, r)
    BY <1>1
  <2>2. CASE r \in EntRules
    BY <2>2 DEF Changes, EntRules
  <2>3. CASE r = "IDENT-04"
    BY <2>1, <2>3 DEF Changes, EntRules
  <2>4. CASE r \notin EntRules /\ r # "IDENT-04"
    <3>1. \A o : OrgNeeds(inv'[s], r, seenOrg'[s][o]) = OrgNeeds(inv[s], r, seenOrg[s][o])
      OBVIOUS
    <3> QED BY <2>1, <2>4, <3>1 DEF Changes
  <2> QED BY <2>2, <2>3, <2>4
<1> QED BY <1>3, <1>4 DEF Lists

LEMMA InitLists == Init => Listings
<1> SUFFICES ASSUME Init, NEW s \in Sessions PROVE ListsOf(s)
  BY DEF Listings
<1>1. pc[s] = "new" /\ results[s] = {}
  BY DEF Init
<1> QED BY <1>1 DEF ListsOf

LEMMA StartLists ==
  ASSUME Types, Listings, NEW s \in Sessions, Start(s)
  PROVE  ListsOf(s)'
<1>1. PICK k \in DOMAIN rest[s] : rest[s][k] \in Rules /\ Target(s, rest[s][k]) /\ StartsAt(s, k)
  BY StartStep
<1>2. PICK r \in Rules : r = rest[s][k]
  BY <1>1
<1>3. /\ UNCHANGED <<inv, listed, unread, seenOrg, seenEnt, results>>
      /\ pc[s] = "next" /\ pc'[s] = "write"
  BY DEF Start, Types, TypeOK
<1>4. /\ row'[s].rule = r /\ row'[s].changes = Changes(s, r)
      /\ r = "IDENT-04" /\ inv[s].maxOutside # 0 => row'[s].errors
  BY <1>1, <1>2 DEF StartsAt, Types, TypeOK
<1>5. PICK q : q = row'[s]
  OBVIOUS
<1>6. Lists(s, q)
  BY <1>1, <1>2, <1>4, <1>5 DEF Lists
<1>7. Lists(s, q)' /\ \A p \in results[s] : Lists(s, p)'
  BY <1>3, <1>6, SameLists DEF Listings, ListsOf
<1> QED BY <1>3, <1>5, <1>7 DEF ListsOf

LEMMA WriteLists ==
  ASSUME Types, Listings, NEW s \in Sessions, Write(s)
  PROVE  ListsOf(s)'
<1>1. PICK x, answer, n : WritesAt(s, x, n, answer)
  BY WriteStep
<1>2. /\ UNCHANGED <<inv, listed, unread, seenOrg, seenEnt, results>>
      /\ pc[s] = "write" /\ pc'[s] = "write"
  BY DEF Write, Types, TypeOK
<1>3. /\ row'[s].rule = row[s].rule /\ row'[s].changes = row[s].changes
      /\ row[s].errors => row'[s].errors
  <2>1. row \in [Sessions -> Result]
    BY DEF Types, TypeOK
  <2>2. row' = row \/ row' = [row EXCEPT ![s] = Answer(row[s], answer)]
    BY <1>1 DEF WritesAt
  <2>3. /\ Answer(row[s], answer).rule = row[s].rule
        /\ Answer(row[s], answer).changes = row[s].changes
        /\ row[s].errors => Answer(row[s], answer).errors
    BY <2>1, AnswerType
  <2> QED BY <2>1, <2>2, <2>3
<1>4. PICK q : q = row'[s]
  OBVIOUS
<1>5. Lists(s, q)
  BY <1>2, <1>3, <1>4 DEF Listings, ListsOf, Lists
<1>6. Lists(s, q)' /\ \A p \in results[s] : Lists(s, p)'
  BY <1>2, <1>5, SameLists DEF Listings, ListsOf
<1> QED BY <1>2, <1>4, <1>6 DEF ListsOf

LEMMA ReportLists ==
  ASSUME Types, Listings, NEW s \in Sessions, Report(s)
  PROVE  ListsOf(s)'
<1>1. /\ UNCHANGED <<inv, listed, unread, seenOrg, seenEnt, row>>
      /\ pc[s] = "write" /\ pc'[s] = "next"
      /\ results'[s] = results[s] \cup {row[s]}
  BY DEF Report, Types, TypeOK
<1>2. \A q \in results'[s] : Lists(s, q)
  BY <1>1 DEF Listings, ListsOf
<1>3. \A q \in results'[s] : Lists(s, q)'
  BY <1>1, <1>2, SameLists
<1> QED BY <1>1, <1>3 DEF ListsOf

LEMMA OtherLists ==
  ASSUME Listings, NEW s \in Sessions, inv' = inv,
         \/ /\ listed'[s] = listed[s] /\ unread'[s] = unread[s]
            /\ seenOrg'[s] = seenOrg[s] /\ seenEnt'[s] = seenEnt[s]
            /\ row'[s] = row[s] /\ results'[s] = results[s]
            /\ pc'[s] = pc[s] \/ (pc[s] = "next" /\ pc'[s] = "done")
         \/ /\ pc[s] \in {"new", "read"} /\ pc'[s] \in {"read", "next"}
            /\ results'[s] = results[s]
         \/ pc'[s] = "crashed" /\ results'[s] = {}
  PROVE  ListsOf(s)'
<1>1. ListsOf(s)
  BY DEF Listings
<1>2. CASE /\ listed'[s] = listed[s] /\ unread'[s] = unread[s]
           /\ seenOrg'[s] = seenOrg[s] /\ seenEnt'[s] = seenEnt[s]
           /\ row'[s] = row[s] /\ results'[s] = results[s]
           /\ pc'[s] = pc[s] \/ (pc[s] = "next" /\ pc'[s] = "done")
  <2>1. PICK q : q = row[s] /\ q = row'[s]
    BY <1>2
  <2>2. \A p : Lists(s, p) => Lists(s, p)'
    BY <1>2, SameLists
  <2>3. pc'[s] = "write" => Lists(s, q)'
    BY <1>1, <1>2, <2>1, <2>2 DEF ListsOf
  <2> QED BY <1>1, <1>2, <2>1, <2>2, <2>3 DEF ListsOf
<1>3. CASE /\ pc[s] \in {"new", "read"} /\ pc'[s] \in {"read", "next"}
           /\ results'[s] = results[s]
  BY <1>1, <1>3 DEF ListsOf
<1>4. CASE pc'[s] = "crashed" /\ results'[s] = {}
  BY <1>4 DEF ListsOf
<1> QED BY <1>2, <1>3, <1>4

LEMMA NextLists == Types /\ Listings /\ [Next]_vars => Listings'
<1> SUFFICES ASSUME Types, Listings, [Next]_vars PROVE Listings'
  OBVIOUS
<1>1. CASE UNCHANGED vars \/ Edit
  BY <1>1, OtherLists DEF Listings, Edit, vars
<1>2. ASSUME NEW s \in Sessions,
             \/ Begin(s) \/ Read(s) \/ Start(s) \/ Write(s) \/ Report(s) \/ Finish(s) \/ Crash(s)
      PROVE  Listings'
  <2>1. \A q \in Sessions \ {s} : ListsOf(q)'
    <3> TAKE q \in Sessions \ {s}
    <3>1. /\ pc'[q] = pc[q] /\ row'[q] = row[q] /\ seenOrg'[q] = seenOrg[q]
          /\ seenEnt'[q] = seenEnt[q] /\ listed'[q] = listed[q] /\ unread'[q] = unread[q]
          /\ results'[q] = results[q] /\ inv' = inv
      BY <1>2, OthersAlone
    <3> QED BY <3>1, OtherLists
  <2>2. ListsOf(s)'
    <3>1. CASE Begin(s)
      <4>1. UNCHANGED <<inv, results>> /\ pc[s] = "new" /\ pc'[s] = "read"
        BY <3>1 DEF Begin, Types, TypeOK
      <4> QED BY <4>1, OtherLists
    <3>2. CASE Read(s)
      <4>1. UNCHANGED <<inv, results>> /\ pc[s] = "read"
        BY <3>2 DEF Read
      <4>2. pc'[s] \in {"read", "next"}
        <5>1. PICK p : pc' = [pc EXCEPT ![s] = IF todo[s] = {p} THEN "next" ELSE "read"]
          BY <3>2 DEF Read
        <5> QED BY <5>1 DEF Types, TypeOK
      <4> QED BY <4>1, <4>2, OtherLists
    <3>3. CASE Finish(s)
      <4>1. /\ UNCHANGED <<inv, listed, unread, seenOrg, seenEnt, row, results>>
            /\ pc[s] = "next" /\ pc'[s] = "done"
        BY <3>3 DEF Finish, Types, TypeOK
      <4> QED BY <4>1, OtherLists
    <3>4. CASE Crash(s)
      <4>1. inv' = inv /\ results'[s] = {} /\ pc'[s] = "crashed"
        BY <3>4 DEF Crash, Types, TypeOK
      <4> QED BY <4>1, OtherLists
    <3> QED BY <1>2, <3>1, <3>2, <3>3, <3>4, StartLists, WriteLists, ReportLists
  <2> QED BY <2>1, <2>2 DEF Listings
<1> QED BY <1>1, <1>2 DEF Next

LEMMA AlwaysLists == Spec => []Listings
BY InitLists, NextLists, AlwaysTypes, PTL DEF Spec

(* Run in bulk, a remediation touches exactly the organizations its rule   *)
(* found at fault, whatever the outages (REPO-03: no others).              *)
THEOREM BulkCovers == Spec => []BulkChangesFindings
<1>1. Listings => BulkChangesFindings
  <2>1. ASSUME Listings, NEW s \in Sessions, inv[s].rules = <<>>, NEW q \in results[s]
        PROVE  Matches(s, q)
    <3>1. Lists(s, q)
      BY <2>1 DEF Listings, ListsOf
    <3> QED BY <2>1, <3>1, ChangesMatch DEF Lists
  <2> QED BY <2>1 DEF Matches, Touched, Found, BulkChangesFindings
<1> QED BY AlwaysLists, <1>1, PTL

-----------------------------------------------------------------------------
(* What is fixed stays fixed.  A write, whosever it is, leaves a setting   *)
(* no worse; so while nobody edits, what a session has read as good is     *)
(* good, and so is what a request of it has set.                           *)
Improves ==
  /\ \A i \in Invocation, r \in OrgRules, o \in Orgs :
       OrgNeeds(i, r, org'[o]) => OrgNeeds(i, r, org[o])
  /\ \A o \in Orgs : org'[o].outside \subseteq org[o].outside
  /\ \A r \in EntRules : EntBad(r, ent') => EntBad(r, ent)

Plain(s) ==
  /\ pc[s] \in {"next", "write", "done"} => todo[s] = {}
  /\ half[s] => \E x : <<row[s].rule, x, 1>> \in did[s]
  /\ \A d \in did[s] : d[1] \in OrgRules => d[2][1] \in Orgs

SeenEnt(s) ==
  \A r \in EntRules :
    Ent \notin todo[s] /\ <<Ent, Part(r)>> \notin unread[s] /\ EntBad(r, ent) =>
      EntBad(r, seenEnt[s])

SeenOrg(s) ==
  \A r \in OrgRules, o \in listed[s] \ todo[s] : <<o, Part(r)>> \notin unread[s] =>
    /\ OrgNeeds(inv[s], r, org[o]) => OrgNeeds(inv[s], r, seenOrg[s][o])
    /\ r = "IDENT-04" => org[o].outside \subseteq seenOrg[s][o].outside

Good(i, d) ==
  /\ d[1] \in EntRules => ~EntBad(d[1], ent)
  /\ d[1] = "IDENT-04" => d[2][2] \notin org[d[2][1]].outside
  /\ d[1] \in OrgRules \ {"IDENT-04"} /\ (d[1] = "SEC-07" => d[3] = 2) =>
       ~OrgNeeds(i, d[1], org[d[2][1]])

HoldsOf(s) ==
  /\ Plain(s)
  /\ s \notin edited =>
       /\ pc[s] \in {"read", "next", "write", "done"} => SeenEnt(s) /\ SeenOrg(s)
       /\ \A d \in did[s] : Good(inv[s], d)

Holds == \A s \in Sessions : HoldsOf(s)

LEMMA OrgPatchNeedsLess ==
  ASSUME NEW i \in Invocation, NEW v \in OrgSettings, NEW r, NEW n, NEW u,
         NEW r0 \in OrgRules, OrgNeeds(i, r0, OrgPatch(r, n, u, v))
  PROVE  OrgNeeds(i, r0, v)
<1>1. CASE r0 = "REPO-03"
  <2>1. OrgPatch(r, n, u, v).createPublic => v.createPublic
    BY OrgPatchImproves
  <2> QED BY <1>1, <2>1 DEF OrgNeeds
<1>2. CASE r0 # "REPO-03"
  BY <1>2, OrgPatchNotWorse DEF OrgNeeds
<1> QED BY <1>1, <1>2

LEMMA SameImproves ==
  ASSUME UNCHANGED <<org, ent>>
  PROVE  Improves
BY DEF Improves

LEMMA WriteImproves ==
  ASSUME Types, NEW s \in Sessions, Write(s)
  PROVE  Improves
<1>1. PICK x \in togo[s], answer \in {"ok", "refused", "lost"}, n \in {1, 2} :
        WritesAt(s, x, n, answer)
  BY WriteStep
<1>2. PICK r : r = row[s].rule
  OBVIOUS
<1>3. \/ UNCHANGED <<org, ent>>
      \/ ent' = EntWrite(s, r, n) /\ UNCHANGED org
      \/ org' = [org EXCEPT ![x[1]] = OrgWrite(s, r, n, x)] /\ UNCHANGED ent
  BY <1>1, <1>2 DEF WritesAt
<1>4. CASE UNCHANGED <<org, ent>>
  BY <1>4, SameImproves
<1>5. CASE ent' = EntWrite(s, r, n) /\ UNCHANGED org
  <2>1. PICK scope : ent' = EntPatch(r, n, scope, ent)
    BY <1>5 DEF EntWrite
  <2>2. ent \in EntSettings
    BY DEF Types, TypeOK
  <2> QED BY <1>5, <2>1, <2>2, EntPatchNotWorse DEF Improves
<1>6. CASE org' = [org EXCEPT ![x[1]] = OrgWrite(s, r, n, x)] /\ UNCHANGED ent
  <2>1. ASSUME NEW o \in Orgs
        PROVE  /\ \A i \in Invocation, r0 \in OrgRules :
                    OrgNeeds(i, r0, org'[o]) => OrgNeeds(i, r0, org[o])
               /\ org'[o].outside \subseteq org[o].outside
    <3>1. CASE o = x[1]
      <4>1. PICK p : p = org'[o] /\ p = OrgPatch(r, n, x[2], org[o])
        BY <1>6, <3>1 DEF OrgWrite, Types, TypeOK
      <4>2. org[o] \in OrgSettings
        BY DEF Types, TypeOK
      <4>3. \A i \in Invocation, r0 \in OrgRules : OrgNeeds(i, r0, p) => OrgNeeds(i, r0, org[o])
        BY <4>1, <4>2, OrgPatchNeedsLess
      <4>4. p.outside \subseteq org[o].outside
        BY <4>1, <4>2, OrgPatchImproves
      <4> QED BY <4>1, <4>3, <4>4
    <3>2. CASE o # x[1]
      <4>1. org'[o] = org[o]
        BY <1>6, <3>2 DEF Types, TypeOK
      <4> QED BY <4>1
    <3> QED BY <3>1, <3>2
  <2> QED BY <1>6, <2>1 DEF Improves
<1> QED BY <1>3, <1>4, <1>5, <1>6

(* What a request sets is as the rule wants it; only of two requests one   *)
(* does not do it: the first of SEC-07, the second of POL-06.              *)
LEMMA EntPatchFixes ==
  ASSUME NEW e \in EntSettings, NEW r \in EntRules, NEW n, NEW scope, r = "POL-06" => n = 1
  PROVE  ~EntBad(r, EntPatch(r, n, scope, e))
<1>1. CASE r = "POL-02"
  <2>1. e.rulesets \in Nat
    BY DEF EntSettings
  <2>2. e.rulesets + 1 # 0
    BY <2>1
  <2>3. PICK m : m = e.rulesets + 1
    OBVIOUS
  <2>4. EntPatch(r, n, scope, e) = [e EXCEPT !.rulesets = m]
    BY <1>1, <2>3, Zenon DEF EntPatch
  <2>5. [e EXCEPT !.rulesets = m].rulesets = m
    BY DEF EntSettings
  <2> QED BY <1>1, <2>2, <2>3, <2>4, <2>5 DEF EntBad, NoRuleset
<1>2. CASE r # "POL-02"
  BY <1>2 DEF EntPatch, EntSettings, EntRules, EntBad, WritableToken, AnyAction, NoProperty
<1> QED BY <1>1, <1>2

LEMMA OrgPatchFixes ==
  ASSUME NEW i, NEW v \in OrgSettings, NEW r \in OrgRules, NEW n, NEW u
  PROVE  /\ r = "IDENT-04" => u \notin OrgPatch(r, n, u, v).outside
         /\ r # "IDENT-04" /\ (r = "SEC-07" => n = 2) => ~OrgNeeds(i, r, OrgPatch(r, n, u, v))
<1>1. CASE r = "IDENT-04"
  BY <1>1 DEF OrgPatch, OrgSettings
<1>2. CASE r \in {"ORG-04", "ORG-05", "ORG-06", "REPO-03"}
  BY <1>2 DEF OrgPatch, OrgSettings, OrgNeeds, OrgBad, Permissive, NoSignoff, ForksPrivate
<1>3. CASE r \in {"SEC-03", "SEC-05", "SEC-06"}
  BY <1>3 DEF OrgPatch, OrgSettings, OrgNeeds, OrgBad, NoTwoFactor, Unscanned, Unalerted
<1>4. CASE r = "IDENT-02"
  BY <1>4 DEF OrgPatch, OrgSettings, OrgNeeds, OrgBad, Unrestricted
<1>5. CASE r = "SEC-07"
  <2>1. ASSUME n = 2 PROVE OrgPatch(r, n, u, v) = [v EXCEPT !.security = TRUE]
    BY <1>5, <2>1 DEF OrgPatch
  <2>2. [v EXCEPT !.security = TRUE].security
    BY DEF OrgSettings
  <2> QED BY <1>5, <2>1, <2>2 DEF OrgNeeds, OrgBad, NoDefaultConfig
<1> QED BY <1>1, <1>2, <1>3, <1>4, <1>5 DEF OrgRules, SettingsOfOrg

LEMMA InitHolds == Init => Holds
<1> SUFFICES ASSUME Init, NEW s \in Sessions PROVE HoldsOf(s)
  BY DEF Holds
<1>1. pc[s] = "new" /\ did[s] = {} /\ ~half[s]
  BY DEF Init
<1> QED BY <1>1 DEF HoldsOf, Plain

(* A step that leaves what a session knows and did as it is.               *)
LEMMA KeepHolds ==
  ASSUME Types, Holds, Improves, NEW s \in Sessions,
         inv' = inv, listed'[s] = listed[s], unread'[s] = unread[s], todo'[s] = todo[s],
         seenOrg'[s] = seenOrg[s], seenEnt'[s] = seenEnt[s]
  PROVE  /\ (\A d \in did[s] : Good(inv[s], d)) /\ Plain(s) =>
              \A d \in did[s] : Good(inv[s], d)'
         /\ SeenEnt(s) => SeenEnt(s)'
         /\ SeenOrg(s) => SeenOrg(s)'
<1>1. inv[s] \in Invocation /\ listed[s] \subseteq Orgs
  BY DEF Types, TypeOK
<1>2. ASSUME Plain(s), NEW d \in did[s], Good(inv[s], d) PROVE Good(inv[s], d)'
  <2>1. d[1] \in OrgRules => d[2][1] \in Orgs
    BY <1>2 DEF Plain
  <2>2. "IDENT-04" \in OrgRules
    BY DEF OrgRules
  <2> QED BY <1>1, <1>2, <2>1, <2>2 DEF Good, Improves
<1>3. SeenEnt(s) => SeenEnt(s)'
  BY DEF SeenEnt, Improves
<1>4. SeenOrg(s) => SeenOrg(s)'
  <2> SUFFICES ASSUME SeenOrg(s), NEW r \in OrgRules, NEW o \in listed[s] \ todo[s],
                      <<o, Part(r)>> \notin unread[s]
               PROVE  /\ OrgNeeds(inv[s], r, org'[o]) => OrgNeeds(inv[s], r, seenOrg[s][o])
                      /\ r = "IDENT-04" => org'[o].outside \subseteq seenOrg[s][o].outside
    BY DEF SeenOrg
  <2>1. o \in Orgs
    BY <1>1
  <2>2. /\ OrgNeeds(inv[s], r, org[o]) => OrgNeeds(inv[s], r, seenOrg[s][o])
        /\ r = "IDENT-04" => org[o].outside \subseteq seenOrg[s][o].outside
    BY DEF SeenOrg
  <2> QED BY <1>1, <2>1, <2>2 DEF Improves
<1> QED BY <1>2, <1>3, <1>4

LEMMA OtherHolds ==
  ASSUME Types, Holds, Improves, NEW s \in Sessions,
         inv' = inv, edited' = edited, did'[s] = did[s],
         listed'[s] = listed[s], unread'[s] = unread[s], todo'[s] = todo[s],
         seenOrg'[s] = seenOrg[s], seenEnt'[s] = seenEnt[s],
         half'[s] => half[s] /\ row'[s] = row[s],
         \/ pc'[s] = pc[s]
         \/ pc[s] \in {"next", "write", "done"} /\ pc'[s] \in {"next", "write", "done"}
  PROVE  HoldsOf(s)'
<1>1. HoldsOf(s) /\ Plain(s)
  BY DEF Holds, HoldsOf
<1>2. Plain(s)'
  BY <1>1 DEF Plain
<1>3. ASSUME s \notin edited', pc'[s] \in {"read", "next", "write", "done"}
      PROVE  SeenEnt(s)' /\ SeenOrg(s)'
  <2>1. pc[s] \in {"read", "next", "write", "done"}
    BY <1>3
  <2>2. SeenEnt(s) /\ SeenOrg(s)
    BY <1>1, <1>3, <2>1 DEF HoldsOf
  <2> QED BY <2>2, KeepHolds
<1>4. ASSUME s \notin edited' PROVE \A d \in did'[s] : Good(inv[s], d)'
  <2>1. \A d \in did[s] : Good(inv[s], d)
    BY <1>1, <1>4 DEF HoldsOf
  <2>2. \A d \in did[s] : Good(inv[s], d)'
    BY <1>1, <2>1, KeepHolds
  <2> QED BY <2>2
<1> QED BY <1>2, <1>3, <1>4 DEF HoldsOf

LEMMA BeginHolds ==
  ASSUME Types, Truth, Holds, NEW s \in Sessions, Begin(s)
  PROVE  HoldsOf(s)'
<1>1. did'[s] = {} /\ ~half'[s] /\ pc'[s] = "read"
  <2>1. pc[s] = "new" /\ pc'[s] = "read" /\ UNCHANGED <<did, half>>
    BY DEF Begin, Types, TypeOK
  <2>2. did[s] = {} /\ ~half[s]
    BY <2>1 DEF Truth, TruthOf
  <2> QED BY <2>1, <2>2
<1>2. listed'[s] \ todo'[s] = {} /\ Ent \in todo'[s]
  <2>1. PICK scanned : /\ listed' = [listed EXCEPT ![s] = scanned]
                       /\ todo' = [todo EXCEPT ![s] = scanned \cup {Ent}]
    BY DEF Begin
  <2> QED BY <2>1 DEF Types, TypeOK
<1> QED BY <1>1, <1>2 DEF HoldsOf, Plain, SeenEnt, SeenOrg

LEMMA CrashHolds ==
  ASSUME Types, Holds, NEW s \in Sessions, Crash(s)
  PROVE  HoldsOf(s)'
<1>1. /\ UNCHANGED <<org, ent, inv, did, edited>>
      /\ ~half'[s] /\ pc'[s] = "crashed"
  BY DEF Crash, Types, TypeOK
<1>2. HoldsOf(s)
  BY DEF Holds
<1>3. \A d : Good(inv[s], d) => Good(inv[s], d)'
  BY <1>1 DEF Good
<1>4. Plain(s)'
  BY <1>1, <1>2 DEF HoldsOf, Plain
<1> QED BY <1>1, <1>2, <1>3, <1>4 DEF HoldsOf

LEMMA EditHolds ==
  ASSUME Types, Truth, Holds, Edit, NEW s \in Sessions
  PROVE  HoldsOf(s)'
<1>1. /\ UNCHANGED <<pc, todo, half, row, did>>
      /\ s \notin edited' => pc[s] = "new"
  BY DEF Edit
<1>2. pc[s] = "new" => did[s] = {}
  BY DEF Truth, TruthOf
<1>3. Plain(s)'
  BY <1>1 DEF Holds, HoldsOf, Plain
<1> QED BY <1>1, <1>2, <1>3 DEF HoldsOf

(* What is read of a part that is readable is what there is.               *)
LEMMA AsReadIsRead ==
  ASSUME NEW lost, NEW i
  PROVE  /\ \A e \in EntSettings, r \in EntRules : Part(r) \notin lost =>
              (EntBad(r, e) => EntBad(r, EntAsRead(lost, e)))
         /\ \A v \in OrgSettings, r \in OrgRules : Part(r) \notin lost =>
              /\ OrgNeeds(i, r, v) => OrgNeeds(i, r, OrgAsRead(lost, v))
              /\ r = "IDENT-04" => v.outside \subseteq OrgAsRead(lost, v).outside
<1>1. ASSUME NEW e \in EntSettings, NEW r \in EntRules, Part(r) \notin lost, EntBad(r, e)
      PROVE  EntBad(r, EntAsRead(lost, e))
  <2>1. CASE r = "POL-02"
    <3>1. "rulesets" \notin lost
      BY <1>1, <2>1 DEF Part, SettingsOfOrg
    <3> QED BY <1>1, <2>1, <3>1 DEF EntBad, EntAsRead, NoRuleset
  <2>2. CASE r = "POL-05"
    <3>1. "workflow" \notin lost
      BY <1>1, <2>2 DEF Part, SettingsOfOrg
    <3> QED BY <1>1, <2>2, <3>1 DEF EntBad, EntAsRead, WritableToken
  <2>3. CASE r = "POL-06"
    <3>1. "actions" \notin lost
      BY <1>1, <2>3 DEF Part, SettingsOfOrg
    <3> QED BY <1>1, <2>3, <3>1 DEF EntBad, EntAsRead, AnyAction
  <2>4. CASE r = "REPO-02"
    BY <1>1, <2>4 DEF EntBad, EntAsRead, NoProperty
  <2> QED BY <2>1, <2>2, <2>3, <2>4 DEF EntRules
<1>2. ASSUME NEW v \in OrgSettings, NEW r \in OrgRules, Part(r) \notin lost
      PROVE  /\ OrgNeeds(i, r, v) => OrgNeeds(i, r, OrgAsRead(lost, v))
             /\ r = "IDENT-04" => v.outside \subseteq OrgAsRead(lost, v).outside
  <2> DEFINE flags == IF "settings" \in lost THEN BlankOrg ELSE v
  <2>1. flags \in OrgSettings
    BY BlankTypes
  <2>2. PICK w : w = OrgAsRead(lost, v)
    OBVIOUS
  <2>3. /\ w.basePerm = flags.basePerm /\ w.signoff = flags.signoff
        /\ w.forkPrivate = flags.forkPrivate /\ w.createPublic = flags.createPublic
        /\ w.twoFactor = flags.twoFactor /\ w.scanning = flags.scanning
        /\ w.push = flags.push /\ w.graph = flags.graph /\ w.alerts = flags.alerts
        /\ w.restricted = (v.restricted /\ "restricted" \notin lost)
        /\ w.outside = (IF "outside" \in lost THEN {} ELSE v.outside)
        /\ w.security = (v.security /\ "security" \notin lost)
    <3>1. w = [flags EXCEPT !.restricted = v.restricted /\ "restricted" \notin lost,
                            !.outside = IF "outside" \in lost THEN {} ELSE v.outside,
                            !.security = v.security /\ "security" \notin lost,
                            !.configs = 0]
      BY <2>2, Zenon DEF OrgAsRead
    <3> HIDE DEF flags
    <3> QED BY <2>1, <3>1 DEF OrgSettings
  <2>4. CASE r \in SettingsOfOrg
    <3>1. "settings" \notin lost
      BY <1>2, <2>4 DEF Part, SettingsOfOrg
    <3>2. flags = v
      BY <3>1
    <3>3. r \notin {"IDENT-02", "IDENT-04", "SEC-07"}
      BY <2>4 DEF SettingsOfOrg
    <3> HIDE DEF flags
    <3>4. OrgNeeds(i, r, v) => OrgNeeds(i, r, w)
      BY <2>3, <2>4, <3>2, <3>3
         DEF OrgNeeds, OrgBad, Permissive, NoSignoff, ForksPrivate, OpenCreation, NoTwoFactor,
             Unscanned, Unalerted, SettingsOfOrg
    <3> QED BY <2>2, <3>3, <3>4
  <2>5. CASE r = "IDENT-02"
    BY <2>2, <2>3, <2>5 DEF OrgNeeds, OrgBad, Unrestricted
  <2>6. CASE r = "SEC-07"
    BY <2>2, <2>3, <2>6 DEF OrgNeeds, OrgBad, NoDefaultConfig
  <2>7. CASE r = "IDENT-04"
    <3>1. "outside" \notin lost
      BY <1>2, <2>7 DEF Part, SettingsOfOrg
    <3>2. w.outside = v.outside
      BY <2>3, <3>1
    <3> QED BY <2>2, <2>7, <3>2 DEF OrgNeeds, OrgBad, TooManyOutside
  <2> QED BY <2>4, <2>5, <2>6, <2>7 DEF OrgRules
<1> QED BY <1>1, <1>2

LEMMA ReadHolds ==
  ASSUME Types, Truth, Holds, NEW s \in Sessions, Read(s)
  PROVE  HoldsOf(s)'
<1>1. PICK p \in todo[s], lost \in Outages :
        /\ IF p = Ent
           THEN /\ seenEnt' = [seenEnt EXCEPT ![s] = EntAsRead(lost, ent)]
                /\ UNCHANGED seenOrg
           ELSE /\ seenOrg' = [seenOrg EXCEPT ![s][p] = OrgAsRead(lost, org[p])]
                /\ UNCHANGED seenEnt
        /\ unread' = [unread EXCEPT ![s] = @ \cup ({p} \X (lost \cap IF p = Ent THEN EntParts ELSE OrgParts))]
        /\ todo' = [todo EXCEPT ![s] = @ \ {p}]
        /\ pc' = [pc EXCEPT ![s] = IF todo[s] = {p} THEN "next" ELSE "read"]
  BY DEF Read
<1>2. UNCHANGED <<org, ent, inv, listed, row, half, did, edited>> /\ pc[s] = "read"
  BY DEF Read
<1>3. HoldsOf(s) /\ did[s] = {} /\ ~half[s]
  BY <1>2 DEF Holds, Truth, TruthOf
<1>4. todo'[s] = todo[s] \ {p} /\ (pc'[s] \in {"next", "write", "done"} => todo[s] = {p})
  BY <1>1 DEF Types, TypeOK
<1>5. unread'[s] = unread[s] \cup ({p} \X (lost \cap IF p = Ent THEN EntParts ELSE OrgParts))
  BY <1>1 DEF Types, TypeOK
<1>6. Plain(s)'
  BY <1>2, <1>3, <1>4 DEF Plain
<1>7. ASSUME s \notin edited PROVE SeenEnt(s) /\ SeenOrg(s)
  BY <1>2, <1>3, <1>7 DEF HoldsOf
<1>8. ASSUME s \notin edited PROVE SeenEnt(s)'
  <2> SUFFICES ASSUME NEW r \in EntRules, Ent \notin todo'[s], <<Ent, Part(r)>> \notin unread'[s],
                      EntBad(r, ent)
               PROVE  EntBad(r, seenEnt'[s])
    BY <1>2 DEF SeenEnt
  <2>1. CASE p = Ent
    <3>1. Part(r) \in EntParts
      BY DEF Part, EntParts, EntRules, SettingsOfOrg
    <3>2. Part(r) \notin lost
      BY <1>5, <2>1, <3>1
    <3>3. seenEnt'[s] = EntAsRead(lost, ent) /\ ent \in EntSettings
      BY <1>1, <2>1 DEF Types, TypeOK
    <3> QED BY <3>2, <3>3, AsReadIsRead
  <2>2. CASE p # Ent
    <3>1. seenEnt'[s] = seenEnt[s] /\ Ent \notin todo[s] /\ <<Ent, Part(r)>> \notin unread[s]
      BY <1>1, <1>4, <1>5, <2>2
    <3> QED BY <1>7, <1>8, <3>1 DEF SeenEnt
  <2> QED BY <2>1, <2>2
<1>9. ASSUME s \notin edited PROVE SeenOrg(s)'
  <2> SUFFICES ASSUME NEW r \in OrgRules, NEW o \in listed[s] \ todo'[s],
                      <<o, Part(r)>> \notin unread'[s]
               PROVE  /\ OrgNeeds(inv[s], r, org[o]) => OrgNeeds(inv[s], r, seenOrg'[s][o])
                      /\ r = "IDENT-04" => org[o].outside \subseteq seenOrg'[s][o].outside
    BY <1>2 DEF SeenOrg
  <2>1. o \in Orgs /\ o # Ent
    BY SettingAssumption DEF Types, TypeOK, Ent
  <2>2. CASE o = p
    <3>1. Part(r) \in OrgParts
      BY DEF Part, OrgParts, OrgRules, SettingsOfOrg
    <3>2. Part(r) \notin lost
      BY <1>5, <2>1, <2>2, <3>1
    <3>3. seenOrg' = [seenOrg EXCEPT ![s] = [seenOrg[s] EXCEPT ![p] = OrgAsRead(lost, org[p])]]
      BY <1>1, <2>1, <2>2
    <3>4. seenOrg'[s][o] = OrgAsRead(lost, org[o]) /\ org[o] \in OrgSettings
      BY <2>1, <2>2, <3>3 DEF Types, TypeOK
    <3> QED BY <3>2, <3>4, AsReadIsRead
  <2>3. CASE o # p
    <3>1. o \in listed[s] \ todo[s] /\ <<o, Part(r)>> \notin unread[s]
      BY <1>4, <1>5, <2>3
    <3>2. seenOrg'[s][o] = seenOrg[s][o]
      <4>1. CASE p = Ent
        BY <1>1, <4>1
      <4>2. CASE p # Ent
        <5>1. seenOrg' = [seenOrg EXCEPT ![s] = [seenOrg[s] EXCEPT ![p] = OrgAsRead(lost, org[p])]]
          BY <1>1, <4>2
        <5> QED BY <2>1, <2>3, <5>1 DEF Types, TypeOK
      <4> QED BY <4>1, <4>2
    <3> QED BY <1>7, <1>9, <3>1, <3>2 DEF SeenOrg
  <2> QED BY <2>2, <2>3
<1> QED BY <1>2, <1>3, <1>6, <1>8, <1>9 DEF HoldsOf

LEMMA WriteHolds ==
  ASSUME Types, Truth, Listings, Holds, NEW s \in Sessions, Write(s)
  PROVE  HoldsOf(s)'
<1>1. PICK x \in togo[s], answer \in {"ok", "refused", "lost"}, n \in {1, 2} :
        /\ n = IF half[s] THEN 2 ELSE FirstRequest(row[s].rule)
        /\ WritesAt(s, x, n, answer)
        /\ x \in row[s].changes /\ row[s].rule \in Rules
  BY WriteStep
<1>2. PICK r \in Rules : r = row[s].rule
  BY <1>1
<1>3. /\ UNCHANGED <<inv, seenOrg, seenEnt, listed, unread, todo, edited>>
      /\ pc[s] = "write" /\ pc'[s] = "write"
  BY DEF Write, Types, TypeOK
<1>4. Improves /\ HoldsOf(s)
  BY WriteImproves DEF Holds
<1>5. did'[s] = IF answer = "refused" THEN did[s] ELSE did[s] \cup {<<r, x, n>>}
  BY <1>1, <1>2 DEF WritesAt, Types, TypeOK
<1>6. r \in OrgRules => x[1] \in Orgs
  <2>1. x \in Changes(s, r) /\ listed[s] \subseteq Orgs
    BY <1>1, <1>2, <1>3 DEF Listings, ListsOf, Lists, Types, TypeOK
  <2>2. CASE r = "IDENT-04"
    BY <2>1, <2>2 DEF Changes, EntRules
  <2>3. CASE r \in OrgRules /\ r # "IDENT-04"
    <3>1. r \notin EntRules
      BY <2>3 DEF OrgRules, SettingsOfOrg, EntRules
    <3>2. x \in {o \in Readable(s, r) : OrgNeeds(inv[s], r, seenOrg[s][o])} \X {NoUser}
      BY <2>1, <2>3, <3>1 DEF Changes
    <3> QED BY <2>1, <3>2 DEF Readable
  <2> QED BY <2>2, <2>3
<1>7. half'[s] => <<r, x, 1>> \in did'[s] /\ row'[s].rule = r
  <2>1. LastRequest(r) \in {1, 2}
    BY DEF LastRequest
  <2>2. half'[s] => answer = "ok" /\ n < LastRequest(r) /\ row' = row
    BY <1>1, <1>2 DEF WritesAt, Types, TypeOK
  <2> QED BY <1>2, <1>5, <2>1, <2>2
<1>8. Plain(s)'
  <2>1. \A d \in did'[s] : d[1] \in OrgRules => d[2][1] \in Orgs
    <3>1. \A d \in did[s] : d[1] \in OrgRules => d[2][1] \in Orgs
      BY <1>4 DEF HoldsOf, Plain
    <3> QED BY <1>5, <1>6, <3>1
  <2>2. todo'[s] = {}
    BY <1>3, <1>4 DEF HoldsOf, Plain
  <2> QED BY <1>7, <2>1, <2>2 DEF Plain
<1>9. ASSUME s \notin edited PROVE SeenEnt(s)' /\ SeenOrg(s)'
  <2>1. SeenEnt(s) /\ SeenOrg(s)
    BY <1>3, <1>4, <1>9 DEF HoldsOf
  <2> QED BY <1>3, <1>4, <2>1, KeepHolds
<1>10. ASSUME s \notin edited PROVE \A d \in did[s] : Good(inv[s], d) /\ Good(inv[s], d)'
  <2>1. (\A d \in did[s] : Good(inv[s], d)) /\ Plain(s)
    BY <1>4, <1>10 DEF HoldsOf
  <2> QED BY <1>3, <1>4, <2>1, KeepHolds
<1>11. ASSUME s \notin edited, answer # "refused" PROVE Good(inv[s], <<r, x, n>>)'
  <2>1. CASE r \in EntRules
    <3>1. ~EntBad(r, ent')
      <4>1. CASE r = "POL-06" => n = 1
        <5>1. PICK scope : ent' = EntPatch(r, n, scope, ent)
          BY <1>1, <1>2, <1>11, <2>1 DEF WritesAt, EntWrite
        <5>2. ent \in EntSettings
          BY DEF Types, TypeOK
        <5> QED BY <2>1, <4>1, <5>1, <5>2, EntPatchFixes
      <4>2. CASE r = "POL-06" /\ n = 2
        <5>1. half[s]
          BY <1>1, <1>2, <4>2 DEF FirstRequest
        <5>2. PICK y : <<r, y, 1>> \in did[s]
          BY <1>2, <1>4, <5>1 DEF HoldsOf, Plain
        <5>3. ~EntBad(r, ent)
          BY <1>10, <1>11, <2>1, <5>2 DEF Good
        <5> QED BY <1>4, <2>1, <5>3 DEF Improves
      <4> QED BY <4>1, <4>2
    <3>2. r \notin OrgRules /\ r # "IDENT-04"
      BY <2>1 DEF EntRules, OrgRules, SettingsOfOrg
    <3> QED BY <3>1, <3>2 DEF Good
  <2>2. CASE r \in OrgRules
    <3>1. r \notin EntRules
      BY <2>2 DEF EntRules, OrgRules, SettingsOfOrg
    <3>2. org' = [org EXCEPT ![x[1]] = OrgWrite(s, r, n, x)]
      BY <1>1, <1>2, <1>11, <3>1 DEF WritesAt
    <3>3. PICK o, u : o \in Orgs /\ o = x[1] /\ u = x[2]
      BY <1>6, <2>2
    <3>4. org'[o] = OrgPatch(r, n, u, org[o]) /\ org[o] \in OrgSettings
      BY <3>2, <3>3 DEF OrgWrite, Types, TypeOK
    <3>5. /\ r = "IDENT-04" => u \notin org'[o].outside
          /\ r # "IDENT-04" /\ (r = "SEC-07" => n = 2) => ~OrgNeeds(inv[s], r, org'[o])
      BY <2>2, <3>4, OrgPatchFixes
    <3> QED BY <1>3, <3>1, <3>3, <3>5 DEF Good
  <2> QED BY <2>1, <2>2 DEF Rules
<1>12. ASSUME s \notin edited PROVE \A d \in did'[s] : Good(inv[s], d)'
  BY <1>5, <1>10, <1>11, <1>12
<1> QED BY <1>3, <1>8, <1>9, <1>12 DEF HoldsOf

LEMMA NextHolds == Types /\ Truth /\ Listings /\ Holds /\ [Next]_vars => Holds'
<1> SUFFICES ASSUME Types, Truth, Listings, Holds, [Next]_vars PROVE Holds'
  OBVIOUS
<1>1. CASE UNCHANGED vars
  <2>1. Improves
    BY <1>1, SameImproves DEF vars
  <2> QED BY <1>1, <2>1, OtherHolds DEF Holds, vars
<1>2. CASE Edit
  BY <1>2, EditHolds DEF Holds
<1>3. ASSUME NEW s \in Sessions,
             \/ Begin(s) \/ Read(s) \/ Start(s) \/ Write(s) \/ Report(s) \/ Finish(s) \/ Crash(s)
      PROVE  Holds'
  <2>1. Improves
    <3>1. CASE Begin(s) \/ Read(s) \/ Start(s) \/ Report(s) \/ Finish(s) \/ Crash(s)
      <4>1. UNCHANGED <<org, ent>>
        BY <3>1 DEF Begin, Read, Start, Report, Finish, Crash
      <4> QED BY <4>1, SameImproves
    <3> QED BY <1>3, <3>1, WriteImproves
  <2>2. \A q \in Sessions \ {s} : HoldsOf(q)'
    <3> TAKE q \in Sessions \ {s}
    <3>1. /\ pc'[q] = pc[q] /\ row'[q] = row[q] /\ half'[q] = half[q]
          /\ seenOrg'[q] = seenOrg[q] /\ seenEnt'[q] = seenEnt[q]
          /\ listed'[q] = listed[q] /\ unread'[q] = unread[q] /\ todo'[q] = todo[q]
          /\ did'[q] = did[q] /\ inv' = inv /\ edited' = edited
      BY <1>3, OthersAlone
    <3> QED BY <2>1, <3>1, OtherHolds
  <2>3. HoldsOf(s)'
    <3>1. CASE Start(s) \/ Report(s) \/ Finish(s)
      <4>1. UNCHANGED <<inv, edited, did, listed, unread, todo, seenOrg, seenEnt, half>>
        BY <3>1 DEF Start, Report, Finish
      <4>2. /\ pc[s] \in {"next", "write", "done"} /\ pc'[s] \in {"next", "write", "done"}
            /\ pc[s] = "next" \/ row' = row
        BY <3>1 DEF Start, Report, Finish, Types, TypeOK
      <4>3. half'[s] => half[s] /\ row'[s] = row[s]
        BY <4>1, <4>2 DEF Truth, TruthOf
      <4> QED BY <2>1, <4>1, <4>2, <4>3, OtherHolds
    <3> QED BY <1>3, <3>1, BeginHolds, ReadHolds, WriteHolds, CrashHolds
  <2> QED BY <2>2, <2>3 DEF Holds
<1> QED BY <1>1, <1>2, <1>3 DEF Next

(* While nobody edits, a rule that was run without an error and not dry    *)
(* has nothing left to change in what the session could read, whoever else *)
(* writes and whichever answers are lost.                                  *)
THEOREM CleanFixes == Spec => []CleanApplyFixes
<1>1. Types /\ Truth /\ Listings /\ Holds => CleanApplyFixes
  <2> SUFFICES ASSUME Types, Truth, Listings, Holds, NEW s \in Sessions,
                      ~inv[s].dryRun, s \notin edited, NEW q \in results[s], ~q.errors
               PROVE  IF q.rule \in EntRules
                      THEN <<Ent, Part(q.rule)>> \notin unread[s] => ~EntBad(q.rule, ent)
                      ELSE \A o \in Readable(s, q.rule) : ~OrgNeeds(inv[s], q.rule, org[o])
    BY DEF CleanApplyFixes
  <2>1. pc[s] \in {"next", "write", "done"} /\ Lists(s, q)
    BY DEF Listings, ListsOf
  <2>2. PICK r \in Rules : r = q.rule /\ q.changes = Changes(s, r)
    BY <2>1 DEF Lists
  <2>3. todo[s] = {} /\ SeenEnt(s) /\ SeenOrg(s) /\ \A d \in did[s] : Good(inv[s], d)
    BY <2>1 DEF Holds, HoldsOf, Plain
  <2>4. \A x \in Changes(s, r) : <<r, x, LastRequest(r)>> \in did[s]
    BY <2>2 DEF Truth, TruthOf, True, Done
  <2>5. \A x \in Changes(s, r) : Good(inv[s], <<r, x, LastRequest(r)>>)
    BY <2>3, <2>4
  <2>6. ASSUME r \in EntRules, <<Ent, Part(r)>> \notin unread[s] PROVE ~EntBad(r, ent)
    <3>1. CASE EntNeeds(r, seenEnt[s])
      <4>1. Changes(s, r) = {x \in {<<Ent, NoUser>>} : EntNeeds(r, seenEnt[s])}
        BY <2>6 DEF Changes, EntRules
      <4>2. <<Ent, NoUser>> \in Changes(s, r)
        BY <3>1, <4>1
      <4> QED BY <2>5, <2>6, <4>2 DEF Good
    <3>2. CASE ~EntNeeds(r, seenEnt[s])
      <4>1. ~EntBad(r, seenEnt[s])
        BY <3>2 DEF EntNeeds
      <4> QED BY <2>3, <2>6, <4>1 DEF SeenEnt
    <3> QED BY <3>1, <3>2
  <2>7. ASSUME r \notin EntRules, NEW o \in Readable(s, r) PROVE ~OrgNeeds(inv[s], r, org[o])
    <3>1. r \in OrgRules /\ o \in listed[s] \ todo[s] /\ <<o, Part(r)>> \notin unread[s]
          /\ o \in Orgs
      BY <2>3, <2>7 DEF Rules, Readable, Types, TypeOK
    <3>2. CASE r = "IDENT-04"
      <4>1. inv[s].maxOutside = 0
        BY <2>1, <2>2, <3>2 DEF Lists
      <4>2. org[o].outside \subseteq seenOrg[s][o].outside
        BY <2>3, <3>1, <3>2 DEF SeenOrg
      <4>3. org[o].outside \subseteq Users
        BY <3>1 DEF Types, TypeOK, OrgSettings
      <4>4. ASSUME NEW u \in org[o].outside \ inv[s].allow PROVE FALSE
        <5>1. Changes(s, r) =
                {x \in Orgs \X Users : /\ inv[s].maxOutside = 0
                                       /\ x[1] \in Readable(s, r)
                                       /\ x[2] \in seenOrg[s][x[1]].outside \ inv[s].allow}
          BY <3>2 DEF Changes, EntRules
        <5>2. <<o, u>> \in Changes(s, r)
          BY <2>7, <3>1, <4>1, <4>2, <4>3, <5>1
        <5> QED BY <2>5, <3>2, <5>2 DEF Good
      <4>5. org[o].outside \ inv[s].allow = {}
        BY <4>4
      <4>6. Cardinality(org[o].outside \ inv[s].allow) = 0
        BY <4>5, FS_EmptySet
      <4> QED BY <3>2, <4>1, <4>6 DEF OrgNeeds, OrgBad, TooManyOutside
    <3>3. CASE r # "IDENT-04"
      <4>1. CASE OrgNeeds(inv[s], r, seenOrg[s][o])
        <5>1. Changes(s, r) =
                {p \in Readable(s, r) : OrgNeeds(inv[s], r, seenOrg[s][p])} \X {NoUser}
          BY <2>7, <3>3 DEF Changes
        <5>2. <<o, NoUser>> \in Changes(s, r)
          BY <2>7, <4>1, <5>1
        <5>3. r = "SEC-07" => LastRequest(r) = 2
          BY DEF LastRequest
        <5> QED BY <2>5, <3>1, <3>3, <5>2, <5>3 DEF Good
      <4>2. CASE ~OrgNeeds(inv[s], r, seenOrg[s][o])
        BY <2>3, <3>1, <4>2 DEF SeenOrg
      <4> QED BY <4>1, <4>2
    <3> QED BY <3>2, <3>3
  <2> QED BY <2>2, <2>6, <2>7
<1>2. Spec => []Truth
  BY InitTruth, NextTruth, AlwaysTypes, PTL DEF Spec
<1> QED BY InitHolds, NextHolds, AlwaysTypes, AlwaysLists, <1>1, <1>2, PTL DEF Spec

-----------------------------------------------------------------------------
(* The promise of Repair: what a step does to the findings, and to what    *)
(* the results speak for.                                                  *)
LEMMA InRepaired ==
  ASSUME NEW s, NEW f
  PROVE  f \in Repaired(s) <=>
           \E q \in results[s] : \E p \in Known(s, q.rule) :
             ~q.errors /\ ~inv[s].dryRun /\ f = <<s, <<q.rule, p>>>>
<1> DEFINE clean == {x \in results[s] : ~x.errors /\ ~inv[s].dryRun}
           reach(q) == {q.rule} \X Known(s, q.rule)
<1>1. f \in Repaired(s) <=> \E g \in UNION {reach(q) : q \in clean} : f = <<s, g>>
  BY DEF Repaired
<1>2. \A g : g \in UNION {reach(q) : q \in clean} <=> \E q \in clean : g \in reach(q)
  OBVIOUS
<1>3. \A q, g : g \in reach(q) <=> \E p \in Known(s, q.rule) : g = <<q.rule, p>>
  OBVIOUS
<1> HIDE DEF reach
<1> QED BY <1>1, <1>2, <1>3

(* The same of the state after a step.                                     *)
LEMMA InRepairedNext ==
  ASSUME NEW s, NEW f
  PROVE  f \in Repaired(s)' <=>
           \E q \in results'[s] : \E p \in Known(s, q.rule)' :
             ~q.errors /\ ~inv'[s].dryRun /\ f = <<s, <<q.rule, p>>>>
<1> DEFINE clean == {x \in results'[s] : ~x.errors /\ ~inv'[s].dryRun}
           reach(q) == {q.rule} \X Known(s, q.rule)'
<1>1. f \in Repaired(s)' <=> \E g \in UNION {reach(q) : q \in clean} : f = <<s, g>>
  BY DEF Repaired
<1>2. \A g : g \in UNION {reach(q) : q \in clean} <=> \E q \in clean : g \in reach(q)
  OBVIOUS
<1>3. \A q, g : g \in reach(q) <=> \E p \in Known(s, q.rule)' : g = <<q.rule, p>>
  OBVIOUS
<1> HIDE DEF reach
<1> QED BY <1>1, <1>2, <1>3

(* Nothing is repaired without a result.                                   *)
LEMMA NoneRepaired ==
  ASSUME NEW s
  PROVE  /\ results[s] = {} => Repaired(s) = {}
         /\ results'[s] = {} => Repaired(s)' = {}
BY InRepaired, InRepairedNext

LEMMA SameRepaired ==
  ASSUME NEW s, inv' = inv, results'[s] = results[s], unread'[s] = unread[s],
         listed'[s] = listed[s]
  PROVE  Repaired(s)' = Repaired(s)
BY DEF Repaired, Known, Readable

LEMMA MoreRepaired ==
  ASSUME NEW s, inv' = inv, results[s] \subseteq results'[s], unread' = unread,
         listed' = listed
  PROVE  Repaired(s) \subseteq Repaired(s)'
<1>1. \A r : Known(s, r)' = Known(s, r)
  BY DEF Known, Readable
<1> QED BY <1>1, InRepaired, InRepairedNext

(* After a step, what is repaired needs no repair.                         *)
LEMMA RepairedIsDone ==
  ASSUME CleanApplyFixes', NEW s \in Sessions, s \notin edited', NEW f \in Repaired(s)'
  PROVE  ~NeedsRepair(f[1], f[2][1], f[2][2])'
<1>1. PICK q \in results'[s] : \E x \in Known(s, q.rule)' :
        ~q.errors /\ ~inv'[s].dryRun /\ f = <<s, <<q.rule, x>>>>
  BY InRepairedNext
<1>2. PICK p \in Known(s, q.rule)' : f = <<s, <<q.rule, p>>>>
  BY <1>1
<1>3. IF q.rule \in EntRules
      THEN <<Ent, Part(q.rule)>> \notin unread'[s] => ~EntBad(q.rule, ent')
      ELSE \A o \in Readable(s, q.rule)' : ~OrgNeeds(inv'[s], q.rule, org'[o])
  BY <1>1 DEF CleanApplyFixes
<1>4. f[1] = s /\ f[2][1] = q.rule /\ f[2][2] = p
  BY <1>2
<1>5. q.rule \in OrgRules => q.rule \notin EntRules
  BY DEF OrgRules, EntRules, SettingsOfOrg
<1>6. ~NeedsRepair(s, q.rule, p)'
  BY <1>1, <1>3, <1>5 DEF NeedsRepair, Known
<1> QED BY <1>4, <1>6

(* A step that makes no setting worse opens no finding.                    *)
LEMMA ImprovesOpensNothing ==
  ASSUME Types, Improves, inv' = inv, NEW f \in ToFix, NeedsRepair(f[1], f[2][1], f[2][2])'
  PROVE  NeedsRepair(f[1], f[2][1], f[2][2])
<1>1. f[1] \in Sessions /\ inv[f[1]] \in Invocation
  BY DEF Types, TypeOK, ToFix
<1>2. f[2][1] \in EntRules \/ (f[2][1] \in OrgRules /\ f[2][2] \in Orgs)
  BY DEF ToFix
<1> QED BY <1>1, <1>2 DEF Improves, NeedsRepair

LEMMA StepRepairs ==
  ASSUME Types, Listings, CleanApplyFixes', [Next]_vars
  PROVE  [Promise!RepairNext]_(Promise!repairVars)
<1> DEFINE open == {f \in ToFix : NeedsRepair(f[1], f[2][1], f[2][2])}
           fixed == [s \in Sessions |-> Repaired(s)]
<1>1. ASSUME UNCHANGED <<org, ent, inv>> PROVE open' = open
  BY <1>1 DEF NeedsRepair, ToFix
<1>2. CASE UNCHANGED vars
  <2>1. \A s : Repaired(s)' = Repaired(s)
    BY <1>2, SameRepaired DEF vars
  <2>2. UNCHANGED <<open, fixed, edited, edits>>
    BY <1>1, <1>2, <2>1 DEF vars
  <2> QED BY <2>2 DEF Promise!repairVars
<1>3. CASE Edit
  <2>1. /\ UNCHANGED <<inv, results, unread, listed>>
        /\ edits' = edits + 1
        /\ edited' = edited \cup {s \in Sessions : pc[s] # "new"}
    BY <1>3 DEF Edit
  <2>2. fixed' = fixed
    BY <2>1, SameRepaired
  <2>3. \A s \in Sessions \ edited' : fixed[s] = {}
    <3> TAKE s \in Sessions \ edited'
    <3>1. results[s] = {}
      BY <2>1 DEF Listings, ListsOf
    <3> QED BY <3>1, NoneRepaired
  <2>4. Promise!Disturb
    BY <2>1, <2>2, <2>3 DEF Promise!Disturb
  <2> QED BY <2>4 DEF Promise!RepairNext
<1>4. ASSUME NEW s \in Sessions,
             \/ Begin(s) \/ Read(s) \/ Start(s) \/ Write(s) \/ Report(s) \/ Finish(s) \/ Crash(s)
      PROVE  [Promise!RepairNext]_(Promise!repairVars)
  <2>1. inv' = inv /\ edited' = edited /\ edits' = edits
    BY <1>4 DEF Begin, Read, Start, Write, Report, Finish, Crash
  <2>2. \A t \in Sessions \ {s} : Repaired(t)' = Repaired(t)
    <3> TAKE t \in Sessions \ {s}
    <3>1. results'[t] = results[t] /\ unread'[t] = unread[t] /\ listed'[t] = listed[t]
      BY <1>4, OthersAlone
    <3> QED BY <2>1, <3>1, SameRepaired
  <2>3. ASSUME Repaired(s)' = Repaired(s) PROVE fixed' = fixed
    BY <2>2, <2>3
  <2>4. CASE Begin(s) \/ Read(s)
    <3>1. results' = results /\ results[s] = {} /\ UNCHANGED <<org, ent>>
      BY <2>4 DEF Begin, Read, Listings, ListsOf
    <3>2. Repaired(s) = {} /\ Repaired(s)' = {}
      BY <3>1, NoneRepaired
    <3> QED BY <1>1, <2>1, <2>3, <3>1, <3>2 DEF Promise!repairVars
  <2>5. CASE Start(s) \/ Finish(s)
    <3>1. UNCHANGED <<results, unread, listed, org, ent>>
      BY <2>5 DEF Start, Finish
    <3>2. Repaired(s)' = Repaired(s)
      BY <2>1, <3>1, SameRepaired
    <3> QED BY <1>1, <2>1, <2>3, <3>1, <3>2 DEF Promise!repairVars
  <2>6. CASE Crash(s)
    <3>1. results'[s] = {} /\ UNCHANGED <<org, ent>>
      BY <2>6 DEF Crash, Types, TypeOK
    <3>2. Repaired(s)' = {}
      BY <3>1, NoneRepaired
    <3>3. fixed' = [fixed EXCEPT ![s] = {}]
      BY <2>2, <3>2
    <3>4. Promise!Forget(s)
      BY <1>1, <2>1, <3>1, <3>3 DEF Promise!Forget
    <3> QED BY <3>4 DEF Promise!RepairNext
  <2>7. CASE Write(s)
    <3>1. UNCHANGED <<results, unread, listed>>
      BY <2>7 DEF Write
    <3>2. fixed' = fixed
      BY <2>1, <2>3, <3>1, SameRepaired
    <3>3. open' \subseteq open
      <4>1. Improves
        BY <2>7, WriteImproves
      <4>2. \A f \in ToFix : NeedsRepair(f[1], f[2][1], f[2][2])'
                              => NeedsRepair(f[1], f[2][1], f[2][2])
        BY <2>1, <4>1, ImprovesOpensNothing
      <4>3. ToFix' = ToFix
        BY DEF ToFix
      <4> QED BY <4>2, <4>3
    <3>4. Promise!Work(s)
      BY <2>1, <3>2, <3>3 DEF Promise!Work
    <3> QED BY <3>4 DEF Promise!RepairNext
  <2>8. CASE Report(s)
    <3>1. /\ results' = [results EXCEPT ![s] = @ \cup {row[s]}]
          /\ UNCHANGED <<unread, listed, org, ent>>
      BY <2>8 DEF Report
    <3>2. results[s] \subseteq results'[s]
      BY <3>1 DEF Types, TypeOK
    <3>3. Repaired(s) \subseteq Repaired(s)'
      BY <2>1, <3>1, <3>2, MoreRepaired
    <3>4. fixed' = [fixed EXCEPT ![s] = fixed'[s]]
      BY <2>2
    <3>5. open' = open
      BY <1>1, <2>1, <3>1
    <3>6. ASSUME s \notin edited PROVE Repaired(s)' \cap open' = {}
      BY <2>1, <3>6, RepairedIsDone
    <3>7. Promise!Work(s)
      BY <2>1, <3>3, <3>4, <3>5, <3>6 DEF Promise!Work
    <3> QED BY <3>7 DEF Promise!RepairNext
  <2> QED BY <1>4, <2>4, <2>5, <2>6, <2>7, <2>8
<1> QED BY <1>2, <1>3, <1>4 DEF Next

(* The remediations implement Repair: what one session takes away no other *)
(* brings back, and a clean result stays true until hands disturb it.      *)
THEOREM SettingsAreRepaired == Spec => ImplementsRepair
<1>1. Init => Promise!RepairInit
  <2> SUFFICES ASSUME Init PROVE Promise!RepairInit
    OBVIOUS
  <2>1. \A s \in Sessions : Repaired(s) = {}
    BY NoneRepaired DEF Init
  <2>2. edited = {} /\ edits = 0
    BY DEF Init
  <2> QED BY <2>1, <2>2 DEF Promise!RepairInit
<1>2. Types /\ Listings /\ CleanApplyFixes' /\ [Next]_vars
        => [Promise!RepairNext]_(Promise!repairVars)
  BY StepRepairs
<1> QED BY <1>1, <1>2, AlwaysTypes, AlwaysLists, CleanFixes, PTL
       DEF Spec, ImplementsRepair, Promise!RepairSpec
=============================================================================
