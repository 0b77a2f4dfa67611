--------------------------------- MODULE Cached ---------------------------------
(***************************************************************************)
(* ghclient.Cached, the cache between the engine and the client: one entry *)
(* per key, found or created under the mutex, filled by its sync.Once; and *)
(* Prefetch, which reads the settings and the repositories of every        *)
(* organization in workers that a semaphore bounds.                        *)
(*                                                                         *)
(* A goroutine has a plan, the reads it still has to do.  Main runs an     *)
(* assessment: it lists the organizations, prefetches, waits for the       *)
(* workers and goes on with the reads of the rules.  The worker of an      *)
(* organization bears its name.  Readers are other callers that share the  *)
(* cache.  GitHub changes while all this goes on.                          *)
(***************************************************************************)
EXTENDS Naturals, Sequences, FiniteSets

CONSTANTS
  Orgs,          \* the organizations; each is also its prefetch worker
  OrgList,       \* the organizations in the order GitHub lists them
  Main,          \* the goroutine that assesses
  Readers,       \* other goroutines that read through the same cache
  Nobody,
  Keys,          \* the memoized reads, by what the cache keys them with
  ListKey,       \* Organizations of the enterprise
  Settings,      \* Settings[o]: OrgSettings of o
  Repos,         \* Repos[o]: OrgRepos of o, whatever the limit
  PassKeys,      \* the reads that are passed through (CostCenters, ...)
  Offered,       \* the reads the wrapped API has a surface for
  Plans,         \* what Main (after Prefetch) and the readers may want to read
  Concurrency,   \* the semaphore's size
  MaxChanges     \* bound: how often GitHub's state changes

Goroutines == {Main} \cup Orgs \cup Readers

(* A read of a list says whether it wants all of it (limit 0).             *)
Request == [key: Keys \cup PassKeys, all: BOOLEAN]

(* An answer: an error, or GitHub's state at some moment, the whole of it  *)
(* or what the limit let through.                                          *)
Answer == [err: BOOLEAN, at: 0..MaxChanges, all: BOOLEAN]

ASSUME CachedAssumption ==
  /\ MaxChanges \in Nat
  /\ Concurrency \in Nat \ {0}
  /\ OrgList \in Seq(Orgs)
  /\ \A i, j \in DOMAIN OrgList : OrgList[i] = OrgList[j] => i = j
  /\ ListKey \in Keys
  /\ Settings \in [Orgs -> Keys]
  /\ Repos \in [Orgs -> Keys]
  /\ Keys \cap PassKeys = {}
  /\ {ListKey} \cup {Settings[o] : o \in Orgs} \cup {Repos[o] : o \in Orgs} \subseteq Offered
  /\ Offered \subseteq Keys \cup PassKeys
  /\ Plans \subseteq Seq(Request)
  /\ Main \notin Orgs \cup Readers
  /\ Orgs \cap Readers = {}
  /\ Nobody \notin Goroutines

VARIABLES
  now,       \* how often GitHub's state has changed
  mu,        \* who holds Cached.mu
  slot,      \* slot[k]: who created the entry of key k that the maps hold
  once,      \* once[g][k]: the sync.Once of the entry g created for k
  val,       \* val[g][k]: the answer in that entry
  pc,        \* where a goroutine is
  plan,      \* the reads it still has to do
  ref,       \* the entry a goroutine found or created, by its creator
  calls,     \* history: how often GitHub was asked about a key
  got,       \* history: the answers the goroutines got
  stage,     \* how far Prefetch is
  spawned,   \* how many workers it has started
  sem,       \* tokens in the semaphore channel
  wg         \* the counter of the WaitGroup

cacheVars == <<mu, slot, once, val, pc, plan, ref, calls, got>>
prefetchVars == <<stage, spawned, sem, wg>>
vars == <<now, cacheVars, prefetchVars>>

Got == [by: Goroutines, req: Request, answer: Answer]

TypeOK ==
  /\ now \in 0..MaxChanges
  /\ mu \in Goroutines \cup {Nobody}
  /\ slot \in [Keys -> Goroutines \cup {Nobody}]
  /\ once \in [Goroutines -> [Keys -> {"new", "running", "done"}]]
  /\ val \in [Goroutines -> [Keys -> Answer]]
  /\ pc \in [Goroutines -> {"unborn", "ready", "lock", "look", "create", "once",
                            "ask", "leave", "gone"}]
  /\ plan \in [Goroutines -> Seq(Request)]
  /\ ref \in [Goroutines -> Goroutines \cup {Nobody}]
  /\ calls \in [Keys -> Nat]
  /\ got \subseteq Got
  /\ stage \in {"list", "spawn", "wait", "warm"}
  /\ spawned \in 0..Len(OrgList)
  /\ sem \in Nat
  /\ wg \in Nat

Nothing == [err |-> TRUE, at |-> 0, all |-> FALSE]

Init ==
  /\ now = 0
  /\ mu = Nobody
  /\ slot = [k \in Keys |-> Nobody]
  /\ once = [g \in Goroutines |-> [k \in Keys |-> "new"]]
  /\ val = [g \in Goroutines |-> [k \in Keys |-> Nothing]]
  /\ pc = [g \in Goroutines |-> IF g \in Orgs THEN "unborn" ELSE "ready"]
  /\ \E errand \in [Readers -> Plans] :
       plan = [g \in Goroutines |->
                 CASE g = Main -> <<[key |-> ListKey, all |-> TRUE]>>
                   [] g \in Orgs -> <<>>
                   [] OTHER -> errand[g]]
  /\ ref = [g \in Goroutines |-> Nobody]
  /\ calls = [k \in Keys |-> 0]
  /\ got = {}
  /\ stage = "list"
  /\ spawned = 0
  /\ sem = 0
  /\ wg = 0

-----------------------------------------------------------------------------
(* One read.                                                               *)

Req(g) == Head(plan[g])

Reading(g) == plan[g] # <<>>

Finish(g, a) ==
  /\ got' = got \cup {[by |-> g, req |-> Req(g), answer |-> a]}
  /\ plan' = [plan EXCEPT ![g] = Tail(@)]
  /\ pc' = [pc EXCEPT ![g] = "ready"]

(* Identity(c.inner), Gov(c.inner), Usage(c.inner): the wrapped API may    *)
(* not have the surface, and then nobody is asked.                         *)
Begin(g) ==
  /\ pc[g] = "ready" /\ Reading(g)
  /\ IF Req(g).key \notin Offered
     THEN Finish(g, Nothing)
     ELSE /\ pc' = [pc EXCEPT ![g] = IF Req(g).key \in PassKeys THEN "ask" ELSE "lock"]
          /\ UNCHANGED <<plan, got>>
  /\ UNCHANGED <<now, mu, slot, once, val, ref, calls, prefetchVars>>

(* Mutant: the map is looked up without the mutex.                         *)
LockNot(g) ==
  /\ pc[g] = "lock"
  /\ mu' = g
  /\ pc' = [pc EXCEPT ![g] = "look"]
  /\ UNCHANGED <<now, slot, once, val, plan, ref, calls, got, prefetchVars>>

Lock(g) ==
  /\ pc[g] = "lock" /\ mu = Nobody
  /\ mu' = g
  /\ pc' = [pc EXCEPT ![g] = "look"]
  /\ UNCHANGED <<now, slot, once, val, plan, ref, calls, got, prefetchVars>>

Look(g) ==
  /\ pc[g] = "look"
  /\ ref' = [ref EXCEPT ![g] = slot[Req(g).key]]
  /\ pc' = [pc EXCEPT ![g] = "create"]
  /\ UNCHANGED <<now, mu, slot, once, val, plan, calls, got, prefetchVars>>

(* The entry is created when the lookup found none; then the mutex is left.*)
Create(g) ==
  /\ pc[g] = "create"
  /\ IF ref[g] = Nobody
     THEN /\ slot' = [slot EXCEPT ![Req(g).key] = g]
          /\ once' = [once EXCEPT ![g][Req(g).key] = "new"]
          /\ ref' = [ref EXCEPT ![g] = g]
     ELSE UNCHANGED <<slot, once, ref>>
  /\ mu' = Nobody
  /\ pc' = [pc EXCEPT ![g] = "once"]
  /\ UNCHANGED <<now, val, plan, calls, got, prefetchVars>>

(* sync.Once: the first caller asks, later ones wait until it has finished.*)
OnceFirst(g) ==
  /\ pc[g] = "once"
  /\ once[ref[g]][Req(g).key] = "new"
  /\ once' = [once EXCEPT ![ref[g]][Req(g).key] = "running"]
  /\ calls' = [calls EXCEPT ![Req(g).key] = @ + 1]
  /\ pc' = [pc EXCEPT ![g] = "ask"]
  /\ UNCHANGED <<now, mu, slot, val, plan, ref, got, prefetchVars>>

(* Mutant: a flag instead of a sync.Once, and nobody waits for it.         *)
OnceUnwaited(g) ==
  /\ pc[g] = "once"
  /\ once[ref[g]][Req(g).key] # "new"
  /\ Finish(g, val[ref[g]][Req(g).key])
  /\ UNCHANGED <<now, mu, slot, once, val, ref, calls, prefetchVars>>

OnceLater(g) ==
  /\ pc[g] = "once"
  /\ once[ref[g]][Req(g).key] = "done"
  /\ Finish(g, val[ref[g]][Req(g).key])
  /\ UNCHANGED <<now, mu, slot, once, val, ref, calls, prefetchVars>>

(* The answer of the wrapped API to a request.                             *)
Replies(req) == {Nothing, [err |-> FALSE, at |-> now, all |-> req.all]}

Ask(g) ==
  /\ pc[g] = "ask"
  /\ \E a \in Replies(Req(g)) :
       /\ Finish(g, a)
       /\ IF Req(g).key \in PassKeys
          THEN UNCHANGED <<once, val>>
          ELSE /\ val' = [val EXCEPT ![ref[g]][Req(g).key] = a]
               /\ once' = [once EXCEPT ![ref[g]][Req(g).key] = "done"]
  /\ UNCHANGED <<now, mu, slot, ref, calls, prefetchVars>>

-----------------------------------------------------------------------------
(* Prefetch.                                                               *)

Between(g) == pc[g] = "ready" /\ ~Reading(g)

Listed(a) == \E x \in got : x.by = Main /\ x.req.key = ListKey /\ x.answer = a

ThenRules == \E p \in Plans : plan' = [plan EXCEPT ![Main] = p]

(* An error, or no organization, ends it at once.                          *)
PrefetchList ==
  /\ stage = "list" /\ Between(Main)
  /\ IF Listed(Nothing) \/ OrgList = <<>>
     THEN stage' = "warm" /\ ThenRules
     ELSE stage' = "spawn" /\ UNCHANGED plan
  /\ UNCHANGED <<now, mu, slot, once, val, pc, ref, calls, got, spawned, sem, wg>>

Mission(o) == <<[key |-> Settings[o], all |-> TRUE], [key |-> Repos[o], all |-> FALSE]>>

(* Mutant: one worker too many.                                            *)
SpawnOneMore ==
  /\ stage = "spawn" /\ Between(Main) /\ sem <= Concurrency
  /\ LET o == OrgList[spawned + 1]
     IN /\ pc' = [pc EXCEPT ![o] = "ready"]
        /\ plan' = [plan EXCEPT ![o] = Mission(o)]
  /\ spawned' = spawned + 1
  /\ sem' = sem + 1
  /\ wg' = wg + 1
  /\ stage' = IF spawned' = Len(OrgList) THEN "wait" ELSE "spawn"
  /\ UNCHANGED <<now, mu, slot, once, val, ref, calls, got>>

(* Mutant: wg.Add is missing.                                              *)
SpawnUncounted ==
  /\ stage = "spawn" /\ Between(Main) /\ sem < Concurrency
  /\ LET o == OrgList[spawned + 1]
     IN /\ pc' = [pc EXCEPT ![o] = "ready"]
        /\ plan' = [plan EXCEPT ![o] = Mission(o)]
  /\ spawned' = spawned + 1
  /\ sem' = sem + 1
  /\ stage' = IF spawned' = Len(OrgList) THEN "wait" ELSE "spawn"
  /\ UNCHANGED <<now, mu, slot, once, val, ref, calls, got, wg>>

(* Main takes the token, so the semaphore bounds the workers that exist.   *)
Spawn ==
  /\ stage = "spawn" /\ Between(Main) /\ sem < Concurrency
  /\ LET o == OrgList[spawned + 1]
     IN /\ pc' = [pc EXCEPT ![o] = "ready"]
        /\ plan' = [plan EXCEPT ![o] = Mission(o)]
  /\ spawned' = spawned + 1
  /\ sem' = sem + 1
  /\ wg' = wg + 1
  /\ stage' = IF spawned' = Len(OrgList) THEN "wait" ELSE "spawn"
  /\ UNCHANGED <<now, mu, slot, once, val, ref, calls, got>>

(* Mutant: the worker leaves with its token.                               *)
ReleaseNot(o) ==
  /\ Between(o)
  /\ pc' = [pc EXCEPT ![o] = "leave"]
  /\ UNCHANGED <<now, mu, slot, once, val, plan, ref, calls, got, stage, spawned, sem, wg>>

(* The deferred calls of a worker: the token first, then wg.Done.          *)
Release(o) ==
  /\ Between(o)
  /\ sem' = sem - 1
  /\ pc' = [pc EXCEPT ![o] = "leave"]
  /\ UNCHANGED <<now, mu, slot, once, val, plan, ref, calls, got, stage, spawned, wg>>

Leave(o) ==
  /\ pc[o] = "leave"
  /\ wg' = wg - 1
  /\ pc' = [pc EXCEPT ![o] = "gone"]
  /\ UNCHANGED <<now, mu, slot, once, val, plan, ref, calls, got, stage, spawned, sem>>

(* Mutant: nobody waits for the workers.                                   *)
WaitNot ==
  /\ stage = "wait" /\ Between(Main)
  /\ stage' = "warm"
  /\ ThenRules
  /\ UNCHANGED <<now, mu, slot, once, val, pc, ref, calls, got, spawned, sem, wg>>

Wait ==
  /\ stage = "wait" /\ Between(Main) /\ wg = 0
  /\ stage' = "warm"
  /\ ThenRules
  /\ UNCHANGED <<now, mu, slot, once, val, pc, ref, calls, got, spawned, sem, wg>>

Change ==
  /\ now < MaxChanges
  /\ now' = now + 1
  /\ UNCHANGED <<cacheVars, prefetchVars>>

-----------------------------------------------------------------------------
Read(g) ==
  Begin(g) \/ Lock(g) \/ Look(g) \/ Create(g) \/ OnceFirst(g) \/ OnceLater(g) \/ Ask(g)

Prefetch ==
  \/ PrefetchList \/ Spawn \/ Wait
  \/ \E o \in Orgs : Release(o) \/ Leave(o)

Next ==
  \/ \E g \in Goroutines :
       Begin(g) \/ Lock(g) \/ Look(g) \/ Create(g) \/ OnceFirst(g) \/ OnceLater(g) \/ Ask(g)
  \/ PrefetchList \/ Spawn \/ Wait
  \/ \E o \in Orgs : Release(o) \/ Leave(o)
  \/ Change

(* The Go scheduler runs every goroutine that can run, and a request to    *)
(* GitHub ends: the client limits it to 30 seconds.                        *)
Fairness ==
  /\ \A g \in Goroutines : WF_vars(Read(g))
  /\ WF_vars(Prefetch)

Spec == Init /\ [][Next]_vars /\ Fairness

-----------------------------------------------------------------------------
(* Safety.                                                                 *)

(* GitHub is asked about a memoized key at most once, however many         *)
(* goroutines ask for it at the same time.                                 *)
OneCallPerKey == \A k \in Keys : calls[k] <= 1

(* All who read a memoized key got the same answer, errors included.       *)
ReadersAgree ==
  \A x, y \in got :
    x.req.key = y.req.key /\ x.req.key \in Keys => x.answer = y.answer

(* At most Concurrency workers are between their start and their token's   *)
(* return, so at most that many reads of Prefetch are in flight.           *)
AtWork == {o \in Orgs : pc[o] \notin {"unborn", "leave", "gone"}}

WorkersBounded == Cardinality(AtWork) <= Concurrency

(* When Prefetch has returned, the reads of every organization it listed   *)
(* are answered and none of its workers is left behind.                    *)
WarmMeansWarm ==
  stage = "warm" /\ ~Listed(Nothing) =>
    \A i \in DOMAIN OrgList :
      LET o == OrgList[i]
      IN /\ pc[o] = "gone"
         /\ \A k \in {Settings[o], Repos[o]} :
              slot[k] # Nobody /\ once[slot[k]][k] = "done"

(* What holds a goroutine up: the mutex, an entry's Once, and for Main the *)
(* semaphore or the WaitGroup.                                             *)
Waits(g) ==
  \/ pc[g] = "lock" /\ mu # Nobody
  \/ pc[g] = "once" /\ once[ref[g]][Req(g).key] = "running"
  \/ g = Main /\ Between(g) /\ stage = "spawn" /\ sem >= Concurrency
  \/ g = Main /\ Between(g) /\ stage = "wait" /\ wg > 0

(* ... and who has to do something about it.                               *)
WaitsFor(g, h) ==
  \/ pc[g] = "lock" /\ mu = h
  \/ pc[g] = "once" /\ pc[h] = "ask" /\ ref[h] = ref[g] /\ Req(h).key = Req(g).key
  \/ g = Main /\ Between(g) /\ stage = "spawn" /\ h \in AtWork
  \/ g = Main /\ Between(g) /\ stage = "wait" /\ h \in Orgs /\ pc[h] \notin {"unborn", "gone"}

Through(g) ==
  \/ pc[g] \in {"unborn", "gone"}
  \/ Between(g) /\ g \notin Orgs /\ (g = Main => stage = "warm")

Goes(g) == ~Waits(g) /\ ~Through(g)

(* Whoever waits, for the mutex, a Once, a slot or the last worker, waits  *)
(* for somebody who can go on, or for one that waits for such a one: there *)
(* is no circle of a worker in a Once, the goroutine that prefetches and   *)
(* the readers next to them, and nobody has left with what others need.    *)
NoDeadlock ==
  \A g \in Goroutines : Waits(g) =>
    \E h \in Goroutines :
      WaitsFor(g, h) /\ (Goes(h) \/ \E i \in Goroutines : WaitsFor(h, i) /\ Goes(i))

-----------------------------------------------------------------------------
(* Liveness.                                                               *)

(* Every goroutine gets all its answers: neither the mutex, nor the Once,  *)
(* nor the semaphore, nor the WaitGroup holds one up for ever.             *)
AllReadsReturn ==
  /\ <>(stage = "warm")
  /\ \A g \in Goroutines : []<>(pc[g] \in {"unborn", "ready", "gone"} /\ ~Reading(g))

-----------------------------------------------------------------------------
(* The promise of Memo, with an entry whose Once is done as its memory.    *)

Known(k) == IF slot[k] # Nobody /\ once[slot[k]][k] = "done" THEN {val[slot[k]][k]} ELSE {}

M == INSTANCE Memo WITH
       Callers <- Goroutines,
       Answer <- Answer,
       Keys <- Keys \cap Offered,
       memo <- [k \in Keys \cap Offered |-> Known(k)],
       served <- {[by |-> x.by, key |-> x.req.key, answer |-> x.answer]
                    : x \in {y \in got : y.req.key \in Keys \cap Offered}}

(* The cache implements Memo: whatever the interleaving, a key is learnt   *)
(* once and recalled afterwards.                                           *)
ImplementsMemo == M!MemoSpec

-----------------------------------------------------------------------------
(* What a comment says and the code does not do.                           *)

(* "capped by limit, 0=all": a read without a limit that succeeds returns  *)
(* all the repositories.                                                   *)
UnlimitedReadsSeeAll ==
  \A x \in got : x.req.all /\ ~x.answer.err => x.answer.all
=============================================================================
