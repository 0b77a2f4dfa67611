# ghe-wizard in TLA+

`ghe-wizard` assesses a GitHub enterprise against a catalog of rules, remediates
what fails, and keeps a history. It is a command line tool, a dashboard server
and a GitHub Action over the same engine. This directory holds models of the
parts of it whose behaviour depends on order, time, failure or other sessions,
the TLC runs that check them, and proofs of what matters most in them.

    tlc -workers 2 -config ApplySolo.cfg MCApplyPipeline
    tlapm RestClientProofs.tla

Paths below are relative to the repository.

## Inventory

| part | code | state it keeps | operations | what is hard |
| --- | --- | --- | --- | --- |
| rule catalog | `internal/rules`, `internal/rules/catalog` | none (a registry filled at start) | `Assess`, `Remediate` per rule | loops over organizations that fail half way; a remediation re-reads through a cache; every rule carries dry-run by hand |
| settings of organizations and the enterprise | `catalog/orgs.go`, `repos.go`, `security.go`, `policies.go`, `ghclient/helpers.go`, `demo.go` | GitHub's, or the demo's in memory | 14 rules that remediate | changes of two requests, lost answers, two sessions at the same setting, two tests per rule that may differ |
| policy, profile | `internal/policy`, `internal/profile` | waivers, disabled rules | `FilterRules`, `Apply`, `Filter` | expiry at a boundary, several waivers for one rule, empty selections |
| engine | `internal/engine` | the cache of its session | `Assess`, `AssessStream`, `Remediate`, `RemediableFailures`, `summarize` | a stream that is broken off; an empty selection means all |
| cache | `internal/ghclient/cache.go` | one entry per read, each with a `sync.Once` | the reads of `GHAPI`, `Prefetch` | goroutines that meet at a key, a semaphore, keys that leave out a parameter |
| client | `client.go`, `appauth.go` | an installation token behind a mutex | `rest`, `restPaginated`, `graphql`, `Token` | rate limits, retries, tokens that expire on the way |
| history | `internal/store` | SQLite: runs, rule results, remediation log | `SaveRun`, `Runs`, `DriftAgainstPrevious`, `SaveRemediations` | sessions of several processes between a save and a read; refused transactions |
| command line | `cmd/ghe-wizard` | one session per process | `assess`, `apply`, `wizard`, `history`, `identity`, `usage`, `ai`, `serve` | consent, prompts, kill at any point, exit codes |
| dashboard | `internal/web` | one session per request, a shared store | `/api/assess`, `/api/assess/stream`, `/api/apply`, reads | request contexts that end, requests at the same time |
| Copilot seats, usage | `internal/usage`, `catalog/seats.go` | none | `Reclaim`, `Economics`, SEAT-01 to SEAT-03 | overlapping reasons, two sessions that revoke |
| identity rules and campaign | `catalog/identity.go`, `cmd/ghe-wizard/identity.go` | a file of targets, mails that went out | IDENT-03 to IDENT-10, `warn`, `transport-rule` | listings that fail in the middle, people who change while they are assessed, mails that stop half way |
| notifications | `internal/notify` | none | `ShouldAlert`, `SendFormat` | what counts as worth an alert |
| Action | `action/action.yml` | none between runs | a script around `assess` | it has no history |
| reports, AI, badge | `internal/report`, `internal/ai` | none | formatting | nothing that depends on order |

How they interact: a session (a command, or a request to the dashboard) builds
an engine with a client and a cache of its own. The engine prefetches, runs the
rules one after the other over the cache, and the policy rewrites the scorecard.
Assessing sessions then write to the shared database and look at it again;
applying sessions select targets, ask, write to GitHub and log. Sessions meet in
GitHub's state and in the database, goroutines of one session in the cache and
in the client's token.

What makes each part correct: nothing is written to GitHub that the policy, the
flags and the user did not allow (command line, dashboard, engine); what is
reported as applied was applied, and what is logged was reported (rules,
history); each key is asked once and all readers agree (cache); no attempt is
made with an expired token and none for ever (client); the history holds whole
runs, and a comparison compares the right ones (store, engine); a failure that
is new reaches the alert and the gate (notify, command line); a remediation makes
no setting worse, and a clean one has fixed what it read (settings); nobody is
warned by mistake or unrecorded, and a campaign's counts are true (identity).

`PROJECT.json` lists every part with its status and every hazard with its line.

## Modules

| module | models | state and actions |
| --- | --- | --- |
| `Catalog` | the pure decisions about rules | no state: `Expired`, `InForce`, `ApplyWaivers`, `RulesToRun`, `RulesAssessed`, `RemediableFailures`, `WizardTargets`, `Outcome` |
| `ApplyPipeline` | `apply`, `wizard`, `POST /api/apply` | sessions go through assess (Prefetch, then AssessRule), select, confirm, remediate, record; next to them contexts end, commands and the server crash, administrators change settings |
| `AssessmentHistory` | `assess`, the Action, `POST /api/assess` and `/api/assess/stream` | sessions go through assess, policy, save, drift, notify, gate over one database |
| `Repair` | what remediation promises | a session only takes findings away, and what it reports as fixed is gone (`Work`); it may forget its report; only hands bring a finding back (`Disturb`) |
| `Chronicle` | what the history promises | a ledger that grows by one whole entry of each author (`Enter`), which compares it with the newest other one of its home (`Consult`) |
| `Memo` | what the cache promises | a key is learnt once, by whoever asks first, and recalled by all others |
| `Lease` | what an authenticated client promises | one shared credential, borrowed while it is good for long enough and renewed only when it is not, used a bounded number of times and only while it is good |
| `Outbox` | what a series of mailings promises | a batch is fixed, then put on record, then delivered in order, each member once at most and none after one that failed; what went out is not forgotten |
| `Cached` | `ghclient.Cached`: `mu`, the entries with their `sync.Once`, `Prefetch` | a goroutine's read is Begin, Lock, Look or Create, OnceFirst or OnceLater, Ask, Finish; the prefetching goroutine adds Spawn, Release, Leave, Wait |
| `SeatReclaim` | `usage.Reclaim`, SEAT-01 to SEAT-03 | a session is Begin, ReadSeats (an organization at a time), then for each rule Compute, Revoke (an organization at a time), Report; next to it Crash, Use (a user works) and NextDay |
| `SettingRules` | the fourteen rules that remediate settings, on GitHub and in the demo | a session is Begin (list), Read (a place at a time, into its cache), then for each target Start, Write (a request at a time), Report, and Finish; next to it Crash and Edit (by hand) |
| `IdentityCampaign` | IDENT-03, 05, 07 to 10 and `identity warn` | a campaign is Begin, List, then for each rule ReadDomains, ReadSSO, ReadPage (a page at a time) and Assess, then Collect, WriteFile, Mail (one at a time), Finish; next to it Crash and Change (people join, leave, link or drop an address) |
| `RestClient` | `AppAuth.Token` and `doWithRetry` with a clock | a request is Call, TakeToken, Exchanged or ExchangeFailed, Send, Answered, Broken, Limited, Waited, Cancelled; `Tick` is time |
| `*Proofs` | theorems about the module they extend | |
| `Extrema` | that sets of naturals have a least element, and bounded ones a greatest | two lemmas for the proofs |
| `MC*` | constants for TLC | |

`ApplyPipeline` and `AssessmentHistory` extend `Catalog`. Five modules state
promises without the means by which they are kept, and the detailed modules are
shown to implement them, by TLC and by proof: `ApplyPipeline` and `SettingRules`
implement `Repair`, `AssessmentHistory` implements `Chronicle`, `Cached` implements
`Memo`, `RestClient` implements `Lease`, `IdentityCampaign` implements `Outbox`
(`Promise`, in `Cached` `M`, is the mapping). `SeatReclaim` stands alone: its
`view` is what a session's cache holds of the seats, and its three rules are the
inside of what `ApplyPipeline` takes for one remediation that loops over
organizations. So are those of `SettingRules`: `ApplyPipeline` says which
remediations a session may run, `SettingRules` what they do to the settings, one
request after the other, from what the session's cache (`seenOrg`, `seenEnt`,
`unread`) holds. In `IdentityCampaign` the cache is `asked`, `answered` and what
follows them: what one rule has asked the next does not ask again.

A rule is abstracted to its metadata and to the shape of its code (`MetaType`):
whether its write is a loop over organizations (`perOrg`), whether it looks at
its (cached) read before it writes (`rechecks`), whether a bad state warns or
fails, and what a failed read is reported as (`unread`): some rules report
`manual`, some `error`, and those that skip unreadable organizations `pass`.
Whether it reports more than its remediation changes (`leaves`) is told apart too:
REPO-03 warns wherever members create repositories and turns off the public ones
only. So GitHub's state by a rule is good (nothing to report), bad (something the
remediation changes) or, for such a rule, the rest (reported, and left alone:
`Standing`). Which setting it is and how it is worded does not matter to any
property here. A name of a rule is its position in ID order.

Variables marked "history" in the modules are not in the code; they remember
what a property speaks about (what was written, what a read showed).

## Runs

| run | instance | shows |
| --- | --- | --- |
| `ApplySolo` | one session, four kinds of rules, 24 invocations, one change by hand | consent, waivers and prompts bound what is written; rows and log tell what was written |
| `ApplyPair` | two sessions, two rules | of what a row says was applied nothing is left that the rule's remediation changes, whatever the other session does, a clean bulk apply leaves nothing its remediations change, and `Repair` is implemented; sessions that need no answer end |
| `Cached` | two organizations, one worker at a time, a reader next to the assessment | one question per key, one answer, and `Memo` is implemented; the semaphore bounds the workers; Prefetch returns with the cache warm; nobody waits in a circle; every read returns |
| `RestShared` | two goroutines, one client, two attempts | `Lease` is implemented (tokens are exchanged only when needed, no attempt goes out with an expired one, attempts are bounded); requests end |
| `HistoryPair` | two sessions of one enterprise or two, two rules, six invocations | `Chronicle` is implemented (recorded runs are whole, comparisons are with the newest other run of the enterprise); new failures alert, the gate stops findings |
| `Seats` | two sessions, two organizations, a user with two seats, two days | a session spares the users it saw at work; a working user loses every seat only where sessions or work overlap; results tell what was revoked |
| `Settings` | two sessions, two organizations, two users, six worlds (bulk next to a dry run, the demo, an organization less, pairs at the same setting), one edit by hand | no write makes a setting worse for any rule, a clean result leaves nothing to change, results tell what took effect, and `Repair` is implemented request by request |
| `Campaign` | two campaigns, two organizations, three accounts and addresses, pages of one member, five worlds, one change by people | the rules of an assessment agree, strangers are strangers if all was read, who complied is spared, counts are true, `Outbox` is implemented (no entry of the list is mailed before the list is on record, or twice, or after a failure), campaigns end or wait for a relay that never answers |
| `ApplyDisabled`, `CachedLimit`, `RestBody`, `SettingsRecheck` | the smallest that shows it | four statements of the documents and comments that the code does not keep (below) |

Every property of a passing run has a mutant (`PROJECT.json`, "mutants"): a
definition changed the way a slip in that code would change it, defined next to
the original and marked "Mutant", under which TLC finds the property violated.

### Bounds and why they are enough

- Rules: the properties speak of one rule or of one rule against the rest, and
  the instances hold one rule of each shape that matters for the property: like
  ORG-04, POL-02, POL-06 and REPO-03 in `ApplySolo`, like REPO-03 and POL-02 in
  `ApplyPair`, whose sessions are a bulk apply and a dashboard request that names
  one rule twice.
- Sessions: an interference is between two. That a third one's run may come between
  another's save and its comparison is covered by the theorem `HistoryIsChronicle`.
- `MaxAdmin` bounds the changes made by hand to one: a second one at the same
  rule restores the state, which sessions that begin later cover.
- `Cached`: two organizations and one slot, so that Prefetch must wait for a
  slot while a worker holds it; keys: the prefetched ones, one unlimited read
  and one passed through. The answer of GitHub changes once, so that a second
  question would be answered differently.
- `RestShared`: a timeout and a wait of 1, two attempts and a margin of 3, which
  is the least `RestAssumption` allows, as it is with the code's numbers. The
  code's four attempts and 60 s are covered by the theorems.
- Hours in waivers: 48, 72 and 73 around a day 2 that ends at 72.
- `HistoryPair`: sessions that assess one rule or both, so that two runs have
  rules in common or none; one enterprise or two; with and without a database; a
  waiver that holds and one that has expired.
- `Seats`: windows of 3 and 4 days and two days, at whose boundary a seat that
  was spared becomes dormant between two rules of one session; seats that were
  never used, used long ago, lately or today. That a user's kept seat is the one
  the code's loop finds is an assumption of `MCSeatReclaim` (`KeptIsBest`), which
  TLC evaluates over all seats of up to three organizations.
- `Settings`: the worlds pair the sessions that meet at one setting (SEC-07 and
  POL-06, the changes of two requests, IDENT-04, the only one by user), and sessions
  that write with ones that may not, that are dry, or that `max_orgs` keeps to one
  organization; the one bulk session on GitHub goes through both. A reading that
  fails takes a part of each kind with it. The second edit by hand is not needed:
  after the first, nothing is promised to a session that had begun.
- `Campaign`: pages of one member, so that every listing has a page after which it
  can fail or go on; two organizations with a member in common; a domain GitHub has
  verified and one only the policy knows; one change between any two steps. A
  campaign assesses in ID order whatever the campaign before it did, so two are
  enough for what one leaves to the next.
- `HistoryPair` and `Seats` use symmetry of the sessions: they check safety
  only, and no invocation is tied to a session.

### Deadlock and fairness

Sessions and campaigns end, so the runs of `ApplyPipeline`, `AssessmentHistory`,
`SeatReclaim`, `SettingRules`, `IdentityCampaign` and `Cached` do not check
deadlock (`Cached` has `NoDeadlock` of its own: whoever waits, waits for somebody who
goes on); that sessions, reads and campaigns do end is `UnattendedSessionsEnd`,
`AllReadsReturn` and, but for the mail relay, `CampaignsEndOrHang`. Callers of
`RestClient` never stop, and its runs check deadlock.

Fairness is assumed of the program's own steps, of requests (they end within the
30 s timeout of the HTTP client), of a write to a file, and of time; it is not
assumed of users, of crashes, of administrators, of people who join or leave, or of
contexts: no caller owes it to a request that its context is cancelled
(`Cancelled`). Nor is it assumed that the mail relay answers. `smtp.SendMail`
(`cmd/ghe-wizard/identity.go:181`) has no timeout, deadline or context, so a relay that
takes the connection and says nothing holds the campaign: `Mail` may lead to "hung",
which only `Crash` leaves, and what holds is that nothing else can hold a campaign up.
A mutex is strongly fair (Go's starvation mode hands it over after a millisecond), and
so is `Tick`: time passes for a request that waits, however many others the program
begins and ends meanwhile.

## Proofs

Checked by TLAPS for every value of the constants that satisfies the modules'
assumptions:

| theorem | says | argument |
| --- | --- | --- |
| `ApplyPipelineProofs!TypeCorrect` | `TypeOK` | with `TargetsOK`: what is pending or written was chosen by the selection, so that its position is in the list and its rule exists |
| `ApplyPipelineProofs!DestructiveGate` | `DestructiveOnlyByConsent` | `TargetsOK` carries the three conditions from the selection to the write |
| `ApplyPipelineProofs!YesFirst` | `NoWriteBeforeYes` | `Agreeing`: what is written or may be without another question was agreed to |
| `ApplyPipelineProofs!WaiversHold` | `WaivedFindingsUntouched` | `Selected`: of several waivers the last counts, but each would do (`WaivedIsNoFinding`) |
| `ApplyPipelineProofs!FiltersHold` | `FilteredOutUntouched` (*) | `Within`: only what was to run has a result |
| `ApplyPipelineProofs!BulkTouchesFindings` | `BulkActsOnFindings` (*) | `Selected` |
| `ApplyPipelineProofs!RowsTrue` | `RowsTellTheTruth` | `Told` |
| `ApplyPipelineProofs!LogTrue` | `LogTellsTheTruth` | `Logged`: the log is made of rows, and of a command that met no fault has all the writes |
| `ApplyPipelineProofs!AppliedIsFixed` | `AppliedMeansFixed` | below |
| `ApplyPipelineProofs!BulkMends` | `BulkFixesFindings` | below |
| `ApplyPipelineProofs!ApplyKeepsPromise` | `ImplementsRepair` | below |
| `AssessmentHistoryProofs!TypeCorrect` | `TypeOK` | scores are quotients of counts, at most a hundred times the divisor |
| `AssessmentHistoryProofs!RunsComplete` | `RecordedRunsComplete` (*) | `Covering`: what has a result and what is still to assess make up what was to run, unless the session's time ran out |
| `AssessmentHistoryProofs!SummariesMatch` | `RecordedSummaryMatchesRows` (*) | `Recorded` |
| `AssessmentHistoryProofs!DriftHome` | `DriftStaysHome` (*) | `Drifted`, and each run in the database is the only one of its session (`Owned`) |
| `AssessmentHistoryProofs!FailuresAlert` | `NewFailuresAlert` | below |
| `AssessmentHistoryProofs!GateHolds` | `GateStopsFindings` | `Judged`: what was seen to be bad is reported or waived, and one report is enough for a count above zero |
| `AssessmentHistoryProofs!HistoryIsChronicle` | `ImplementsChronicle` | below |
| `CachedProofs!TypeCorrect` | `TypeOK` | what entries hold and goroutines got are answers (`Honest`) |
| `CachedProofs!AskedOnce` | `OneCallPerKey` | a key is being asked by at most one goroutine, and an entry that is filled is never asked for again |
| `CachedProofs!OneAnswerForAll` | `ReadersAgree` (*) | who finished holds the entry's value |
| `CachedProofs!CacheIsMemo` | `ImplementsMemo` | step by step: Ask by the entry's owner is Learn, Finish is Recall, the rest stutters |
| `CachedProofs!Bounded` | `WorkersBounded` | `Manned`: the semaphore counts the workers that have their token |
| `CachedProofs!Warm` | `WarmMeansWarm` | below |
| `CachedProofs!DeadlockFree` | `NoDeadlock` | below |
| `RestClientProofs!TypeCorrect` | `TypeOK` | with the budget |
| `RestClientProofs!NeverSentLate` | `AttemptsStartInTime` (*) | a budget: the bearer's remaining life exceeds the longest time the request may still take, which Limited, Waited and Tick each spend in step |
| `RestClientProofs!RetriesBounded` | `SentBounded` (*) | the counters agree with the place in the loop |
| `RestClientProofs!NoNeedlessExchange` | `ExchangeOnlyWhenNeeded` (*) | who exchanges holds the mutex (`Exclusive`), and time only takes from the old token |
| `RestClientProofs!MutexLeft` | `MutexHeldForExchange` (*) | with `Exclusive`: of the callers only the one that exchanges has the mutex |
| `RestClientProofs!ClientKeepsLease` | `ImplementsLease` | below |
| `SeatReclaimProofs!TypeCorrect` | `TypeOK` | |
| `SeatReclaimProofs!UsersSpared` | `SessionSparesUsers` | below |
| `SeatReclaimProofs!DuplicatesKept` | `DuplicateKeepsMostActive` (*) | a finite set of seats has one that is kept |
| `SeatReclaimProofs!ResultsTrue` | `ResultsTellTheTruth` | `Proposed` and `Told`: what was revoked is in a result or in the row under way |
| `SeatReclaimProofs!WorkersKeepSeat` | `WorkingUsersKeepSeat` | below |
| `SettingRulesProofs!TypeCorrect` | `TypeOK` | with: a session that runs no rule has no change |
| `SettingRulesProofs!WritesNeverWorsen` | `NeverWorsens` | each patch, on whatever the setting is by now, is worse for no rule (`OrgPatchNotWorse`, `EntPatchNotWorse`) |
| `SettingRulesProofs!RemovalsAsked` | `RemovalsAreAsked` (*) | `Asked`: what is still to be changed was asked for |
| `SettingRulesProofs!ResultsTrue` | `ResultsTellTheTruth` | `Truth`: what took effect is in the row under way or a result; a change is done, to go, or behind an error |
| `SettingRulesProofs!BulkCovers` | `BulkChangesFindings` (*) | `Listings`: a row's changes are those its rule lists for the session's cache, which no longer changes |
| `SettingRulesProofs!CleanFixes` | `CleanApplyFixes` | below |
| `SettingRulesProofs!SettingsAreRepaired` | `ImplementsRepair` | below |
| `IdentityCampaignProofs!TypeCorrect` | `TypeOK` | with `Phases`: what a campaign has, by where it is |
| `IdentityCampaignProofs!MailedOnRecord` | `MailedAreOnRecord` (*) | mails go out only while the file holds the targets |
| `IdentityCampaignProofs!CountsTrue` | `CountsTellTheTruth` | `Counts`: mails of the campaign went to targets that are not left, so each is a mail more |
| `IdentityCampaignProofs!Agree` | `RulesAgree` | `Judged`: what a finding rests on is not read again |
| `IdentityCampaignProofs!StrangersAreStrangers` | `StrangersWhenAllRead` | below |
| `IdentityCampaignProofs!CompliedSpared` | `CompliedNotWarnedAgain` | `Complied`: what is read of an address was read before it was dropped |
| `IdentityCampaignProofs!AlwaysForward` | `CampaignsGoForward` (*) | the next page is of those after the cursor (`PageGoesForward`), and what was tried is not tried again |
| `IdentityCampaignProofs!CampaignsKeepPromise` | `ImplementsOutbox` | below |

(*) Proved, and checked by no run: the runs check the deeper ones, the refinements
that say as much and more, and, for `MutexLeft` and `AlwaysForward`, that requests and
campaigns end (or hang at the relay).

The properties themselves are not inductive: `AttemptsStartInTime` speaks of the
moment of sending only, and nothing in it says that a token fetched now survives
three waits. The budget does, and `RestAssumption` is where it starts: the
margin is at least four timeouts and three waits, which with the code's numbers
(4 x 30 s + 3 x 60 s = 5 min) holds with nothing to spare. A fifth attempt, or a
longer HTTP timeout, would break the assumption and, as TLC then shows, the property.

`UsersSpared` is about one session that runs several rules while time passes.
Each rule sorts the seats anew, so a seat that was active for the first rule may
be dormant for the last. Two facts save the user. A finite set of seats has one
that is kept (`KeptExists`, from the well-foundedness of the numbers), and it is
among the most active, so SEAT-03 never takes it and SEAT-02 only when all are
dormant. And reasons only grow (`ReasonsGrow`): what is dormant today is dormant
later, so a session cannot have taken a seat for a reason that a later day
withdraws. The invariant says that a session takes nothing before it has read
everything, and that all it revoked or is about to revoke would be reclaimed by
some rule today (`ReadFirst`, `Reclaimable`).

`AppliedIsFixed` and `BulkMends` speak of GitHub while other sessions write. In
`ApplyPipeline` no write of a session opens anything a remediation changes
(`GitHubGrows`), so only hands do, and `admin = 0` rules them out: what a row applied
without an error has changed stays changed, and for each finding of a bulk apply that
has met no error there is nothing left to change, or it is still to be remediated, and
when the session ends nothing is (`Mended`). Neither says that the rule passes: where
members create repositories that are not public, REPO-03 goes on warning after its
row said applied, and where no public ones may be created it changes nothing, without
an error. A rule that does not loop over organizations, or whose organizations could all
be read, is what they speak of (`InPart` is the exception). All parts together are
`Sound`, one session at a time; a step of another session preserves it because it
touches nothing of this one but GitHub (`SameSound`).

`WorkersKeepSeat` is the theorem about time. A session that ran alone (`Lone`) and
whose user did not work meanwhile has in its cache what GitHub has, except for the
seats it took itself (`Mirrors`), which are gone (`Gone`). So it knows
which seats an active user used last and leaves one of them (`LoneSpares`): the most
active one is kept as no duplicate, and it is not dormant, no use being later than
the user's last (`Dated`). Every active user holds such a seat, or is one of those
the property excepts (`Working`).

`FailuresAlert` is about a database that others write to between a run's save and its
reading. If nobody did (`Successive`), the runs newer than the earlier session's are
at most one, the later session's own, so the two latest runs contain the earlier one
and it is the one compared with (`PreviousIsLast`, by counting). `Faced` then says
that all that newly fails is in the drift, and `Alerted` that the drift alerts.
The earlier session cannot record a run later: it was over when the later one began
(`Ordered`).

`Warm` says that the WaitGroup is enough. It counts the workers that have started and
not ended (`Manned`; an organization is listed once, so a worker is started once), so
when it is zero all of the list are gone, and a worker that is gone has an answer for
everything that was in its plan (`Assigned`); that the answer is in the cache is
`FromTheEntry`, which `AskedOnce` is proved with.

`DeadlockFree` is about four things to wait for at once: the mutex, an entry's Once,
a slot and the last worker. `Attended` says that none is left alone: the mutex is held
by somebody at the map, where nothing blocks; a Once that is running has one
goroutine at GitHub with that very key; and a slot or a place in the WaitGroup
is taken by a worker that is there (`Manned`). So the mutex and the Once
have somebody who goes on, and the worker that Prefetch waits for goes on or waits for
one of these (`ReadersGoOn`): no chain is longer than two.

`DeadlockFree`, `MutexLeft` and `AlwaysForward` are what liveness rests on and can be
proved: who waits waits for somebody who goes on, and who goes on does not go in a
circle. A campaign's stages, rules, questions, organizations, pages and targets are
finitely many, and each step uses one up, or leaves the campaign with a relay that
does not answer. That goroutines and requests do go
on is the fairness above, and stays with TLC.

`CleanFixes` has to survive the other sessions. No write of anybody gives any rule
more to change than before (`Improves`, from `OrgPatchNeedsLess`), so while nobody
edits by hand, what a session has read as good is good (`SeenOrg`, `SeenEnt`) and
what a request of it has set stays set (`Good`); together they are `Holds`. Each
place a rule could read was one or the other: its changes were listed from the cache,
which is fixed by then (`Listings`), and without an error all of them were done
(`Truth`). Half a change is not good enough: SEC-07's first request leaves `Good`
nothing to say.

`StrangersAreStrangers` is an invariant of a listing under way: of those nobody
touched since the campaign began, everyone up to the cursor is on the pages read so
far (`ReadSoFar`), because a page holds the first members after the cursor
(`PageIsPrefix`, by counting), and everyone in an organization that was read to its
end is in the inventory (`ReadInFull`). A page that fails gives its organization up,
which the property excludes by `read = Orgs`.

### The refinements

Each is proved the same way: the invariants of the module hold in every state, and
under them each action is one of the abstract module's or leaves its variables alone.

- `Repair` (`ApplyKeepsPromise`, `SettingsAreRepaired`). `fixed` is what the results
  without an error speak for, as far as the session could read. In `ApplyPipeline` a
  rule stands for two findings, what it reports and what its remediation changes
  (`OpenFindings`); a row without an error speaks for the second and, unless the rule
  reports more than that, for the first (`FixedFindings`). A write opens no
  finding (`EffectRepairs`, `ImprovesOpensNothing`), and a row or a result is written
  only when what it speaks for is gone, which `AppliedMeansFixed` and
  `CleanApplyFixes` say of the state after the step. `Disturb` is the only step that
  counts as by hand (`hands`), so no session's step passes for one. In `SettingRules` a
  finding is a rule at a place under a session's policy, and each of the two requests
  of a change is a step of its own.
- `Chronicle` (`HistoryIsChronicle`). The detailed query asks for the two newest runs
  and drops the session's own. That this is the newest run of another session
  (`PreviousIsNewest`) is by a greatest element (`Extrema`) and because each run
  is the only one of its session (`Owned`): of two runs at most one is dropped,
  however many sessions save between this one's save and its query. What is entered
  is all that was due (`Covering`), and a context that ended in between never enters.
- `Lease` (`ClientKeepsLease`). The budget gives that a bearer is good at each attempt,
  `Exclusive` that the token is nearly out when an exchange replaces it, although the
  goroutine looked at it steps earlier, and `EmptyHands` that who has no bearer has
  sent nothing.
- `Outbox` (`CampaignsKeepPromise`). `Phases` gives the order (complete before mailed,
  on record before mailed), `Counts` that who was mailed by this campaign comes before
  all that are left, so that no entry of the list is mailed twice, and all in order (`MailDelivers`). An
  address that is on the list under two findings may get two mails.

Only model-checked: liveness (`UnattendedSessionsEnd`, `AllReadsReturn`,
`CallsReturn`, `CampaignsEndOrHang`), which is out of the prover's reach but for its safety side
(above). Every safety property of a passing run is proved. What the proofs assume of the constants is in
the modules' assumptions, which TLC evaluates for each instance: the catalog's
metadata (`CatalogAssumption`), the combinations of flags a surface has
(`InvocationsAssumption`), that the registry is finite (`RulesAssumption`), that an
organization is listed once (`CachedAssumption`), the margin (`RestAssumption`).

## Where the code and its documents differ

Shown by the runs that expect a violation (`PROJECT.json` quotes the lines,
"findings"):

- `ApplyDisabled`: a policy that leaves no rule makes the engine run all of them,
  and a bulk apply remediates disabled ones.
- `CachedLimit`: Prefetch's limited listing answers the reads that ask for all.
- `RestBody`: a rate-limited request is repeated with its body at its end.
- `SettingsRecheck`: remediations look at their session's cache and not at the
  current state: ORG-04 sets a base permission to read that an administrator has
  set to none in the meantime.

Seen while modelling; the model has the code's behaviour, no run is about it:

- a waived rule that is named is remediated when its status was no finding
  (`cmd/ghe-wizard/main.go:302`, `CHANGELOG.md:158`);
- what the dashboard applied is not logged when the request has ended
  (`internal/web/web.go:401`, `CHANGELOG.md:234`);
- a request that is given up is sent once more (`internal/ghclient/client.go:252`);
- newly fixed includes waived and unread rules (`internal/store/store.go:244`,
  `README.md:171`);
- warnings never turn fixed (`internal/store/store.go:235`, `README.md:215-216`);
- POL-02 and REPO-02 write without looking (`catalog/policies.go:56`, `README.md:359`);
- the Action never alerts in its only-alert mode (`action/action.yml:182`,
  `action/README.md:62`), having no history to compare with;
- a user with two seats that were never used may lose the new one as a duplicate of
  the old one, and the old one to SEAT-01 (`internal/usage/usage.go:124`,
  `README.md:264-265`);
- POL-06 writes back the scope of Actions it read, which may be out of date
  (`internal/ghclient/helpers.go:149`), and if its second request fails, a later run
  passes and never lets the verified creators' actions run;
- a repeated SEC-07 after a first half creates another configuration;
- IDENT-05 passes when nobody's membership could be read, IDENT-08 suspects every
  account when the organizations cannot be listed, and IDENT-10 takes addresses of
  members of organizations that could not be read, that max_orgs leaves out, or at
  domains only the policy knows, for strangers' (`catalog/identity.go:77`);
- who dropped an address after IDENT-07's mail is a confirmed signup by the trace of
  the time before;
- a campaign that is repeated after a mail failed mails the first users again
  (`cmd/ghe-wizard/identity.go:182`);
- a run that another process saves in between is taken for the previous one
  (`internal/store/store.go:216`, `cmd/ghe-wizard/main.go:486`).

## Abstractions to know of

- The transaction of `SaveRun` and `SaveRemediations` is one step that happens or
  does not. SQLite gives that; the lock another process holds is one of the
  reasons for it not to happen (the store sets no busy timeout).
- A write of several requests (`CreateOrgSecurityDefault`,
  `SetEnterpriseAllowedActionsSelected`) is one step that succeeds or fails in
  `ApplyPipeline`, where a rule has one of three standings, and two requests in
  `SettingRules`.
- What `ApplyPipeline`'s sessions have read is one value for each rule. Rules that
  loop over organizations may have theirs from `Prefetch`, before the first rule is
  assessed, and the cache answers them even when the context has ended since.
- The settings of a place are read in one step of `SettingRules`, each part readable
  or not: no rule relates two parts. A fine-grained token's refusals, a plan without
  the feature and a lost answer are all "not readable".
- The demo's settings are in the memory of its process: a crash ends them with the
  session, so `Crash` is GitHub's only.
- Public signals of a domain are found or not as a whole; SSO identities are one
  reading, though the code asks for them page by page: it keeps none of them when a page
  fails, and no property looks at people who are linked between two pages. Whose identities `Departed` names comes in an order the model leaves open,
  since the code's sorts by label, which `Precedes` does not tell apart.
- An address belongs to one account, and who drops one does not take it up again.
- `RestClient` counts an expired clock, a clock that differs from GitHub's and a
  revoked token out. A bearer without a date is assumed to live an hour by the
  code; `NeverSentLate` speaks of dated ones.
- Whether `net/http` can rewind a body depends on the connection (it may on a
  reused HTTP/1 connection); `SendSpent` is the case that it cannot.
- Seats: a user has at most one seat in an organization, times are whole days,
  a cancelled seat is gone at once, and a session that crashed has forgotten
  what it read. The number of seats GitHub says it cancelled is not modelled: the
  code shows it and decides nothing by it. Organizations that cannot be listed
  are the case in which none is readable.
- The score is exact in the model. The code computes it in floating point and
  truncates, which is one point less for some totals of 25 rules and more.

## Not modelled

Reports, the badge, the AI summary, version data and the dashboard's page format
what they are given; teams', enterprise's and the other rules that only report read
and count; `serve`'s start, `list`, `history`, `transport-rule`, the usage report and
ROI print. `PROJECT.json` lists each with its reason. What they print is compared
with nothing here.

## Plan

1. Done: `Catalog`, `ApplyPipeline`, `Memo`, `Cached`, `RestClient`,
   `AssessmentHistory`, `SeatReclaim` with first theorems.
2. Done: `SettingRules` and `IdentityCampaign` with all their safety properties proved.
3. Done: the remaining safety properties of `ApplyPipeline`, `Cached`, `RestClient`,
   `SeatReclaim` and all of `AssessmentHistory` proved.
4. Done: what the components promise as modules of their own (`Repair`, `Chronicle`,
   `Lease`, `Outbox`, next to `Memo`), implemented by the detailed modules.
5. Done: the safety side of liveness: who waits in `Cached` and `RestClient` waits
   for somebody who goes on, and a campaign only goes forward.
6. `SettingRules` shown to implement the step `Remediate` of `ApplyPipeline`; usage
   economics as pure functions against a reference definition; `transport-rule` and
   the usage report, should they come to write.
