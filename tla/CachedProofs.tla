------------------------------ MODULE CachedProofs ------------------------------
(* What Cached keeps for every number of goroutines and keys: GitHub is    *)
(* asked about a key at most once, everybody who reads it gets the same    *)
(* answer, and so the cache implements Memo.                               *)
EXTENDS Cached, FiniteSetTheorems, TLAPS

(* The reads that go through an entry.                                     *)
Cacheable == Keys \cap Offered

OnceOf(k) == once[slot[k]][k]

(* The types the argument needs.                                           *)
Shapes ==
  /\ mu \in Goroutines \cup {Nobody}
  /\ slot \in [Keys -> Goroutines \cup {Nobody}]
  /\ once \in [Goroutines -> [Keys -> {"new", "running", "done"}]]
  /\ DOMAIN val = Goroutines
  /\ \A g \in Goroutines : DOMAIN val[g] = Keys
  /\ DOMAIN pc = Goroutines
  /\ DOMAIN plan = Goroutines
  /\ ref \in [Goroutines -> Goroutines \cup {Nobody}]
  /\ calls \in [Keys -> Nat]

(* What a goroutine in the middle of a read knows.                         *)
MutexHeld(g) == pc[g] \in {"look", "create"} => mu = g

Underway(g) ==
  /\ pc[g] \in {"lock", "look", "create", "once", "ask"} => plan[g] # <<>>
  /\ pc[g] \in {"lock", "look", "create", "once"} => Req(g).key \in Cacheable
  /\ pc[g] = "ask" => Req(g).key \in Cacheable \cup PassKeys

LookedUp(g) == pc[g] = "create" => ref[g] = slot[Req(g).key]

HasEntry(g) ==
  /\ pc[g] = "once" => ref[g] # Nobody /\ ref[g] = slot[Req(g).key]
  /\ pc[g] = "ask" /\ Req(g).key \in Keys =>
       ref[g] # Nobody /\ ref[g] = slot[Req(g).key] /\ OnceOf(Req(g).key) = "running"

OneAsks ==
  \A g, h \in Goroutines :
    pc[g] = "ask" /\ pc[h] = "ask" /\ Req(g).key = Req(h).key /\ Req(g).key \in Keys => g = h

(* An entry's Once counts the calls.                                       *)
Counted ==
  \A k \in Keys :
    calls[k] = IF slot[k] # Nobody /\ OnceOf(k) # "new" THEN 1 ELSE 0

(* Whoever read a key got what its entry holds.                            *)
FromTheEntry ==
  \A x \in got :
    /\ x.req.key \in Cacheable =>
         slot[x.req.key] # Nobody /\ OnceOf(x.req.key) = "done"
         /\ x.answer = val[slot[x.req.key]][x.req.key]
    /\ x.req.key \in Keys \ Offered => x.answer = Nothing

CacheInv ==
  /\ Shapes
  /\ \A g \in Goroutines : MutexHeld(g) /\ Underway(g) /\ LookedUp(g) /\ HasEntry(g)
  /\ OneAsks
  /\ Counted
  /\ FromTheEntry

-----------------------------------------------------------------------------
LEMMA InitCacheInv == Init => CacheInv
<1> SUFFICES ASSUME Init PROVE CacheInv
  OBVIOUS
<1>1. Shapes
  BY CachedAssumption DEF Init, Shapes
<1>2. \A g \in Goroutines : pc[g] \in {"unborn", "ready"}
  BY DEF Init
<1>3. \A g \in Goroutines : MutexHeld(g) /\ Underway(g) /\ LookedUp(g) /\ HasEntry(g)
  BY <1>2 DEF MutexHeld, Underway, LookedUp, HasEntry
<1>4. OneAsks
  BY <1>2 DEF OneAsks
<1>5. Counted /\ FromTheEntry
  BY DEF Init, Counted, FromTheEntry
<1> QED
  BY <1>1, <1>3, <1>4, <1>5 DEF CacheInv

(* A goroutine that ends a read leaves every other one as it was.          *)
LEMMA FinishOnly ==
  ASSUME Shapes, NEW g \in Goroutines, NEW a, Finish(g, a)
  PROVE  /\ pc'[g] = "ready"
         /\ DOMAIN pc' = Goroutines /\ DOMAIN plan' = Goroutines
         /\ \A h \in Goroutines \ {g} : pc'[h] = pc[h] /\ plan'[h] = plan[h]
         /\ got' = got \cup {[by |-> g, req |-> Req(g), answer |-> a]}
BY DEF Finish, Shapes

LEMMA BeginCacheInv ==
  ASSUME CacheInv, NEW g \in Goroutines, Begin(g)
  PROVE  CacheInv'
<1> USE DEF CacheInv
<1>1. UNCHANGED <<mu, slot, once, val, ref, calls>>
  BY DEF Begin
<1>2. /\ pc'[g] \in {"ready", "ask", "lock"}
      /\ pc'[g] # "ready" => /\ got' = got /\ plan' = plan /\ Req(g).key \in Offered
                             /\ plan[g] # <<>>
      /\ pc'[g] = "ask" => Req(g).key \in PassKeys
      /\ pc'[g] = "lock" => Req(g).key \notin PassKeys
      /\ DOMAIN pc' = Goroutines /\ DOMAIN plan' = Goroutines
      /\ \A h \in Goroutines \ {g} : pc'[h] = pc[h] /\ plan'[h] = plan[h]
  BY FinishOnly DEF Begin, Shapes, Reading
<1>3. \/ got' = got
      \/ /\ Req(g).key \notin Offered
         /\ got' = got \cup {[by |-> g, req |-> Req(g), answer |-> Nothing]}
  BY FinishOnly DEF Begin
<1>4. Shapes'
  BY <1>1, <1>2 DEF Shapes
<1>5. ASSUME NEW h \in Goroutines
      PROVE  MutexHeld(h)' /\ Underway(h)' /\ LookedUp(h)' /\ HasEntry(h)'
  <2>1. CASE h = g
    BY <1>1, <1>2, <2>1, CachedAssumption
       DEF MutexHeld, Underway, LookedUp, HasEntry, Req, Cacheable
  <2>2. CASE h # g
    BY <1>1, <1>2, <2>2 DEF MutexHeld, Underway, LookedUp, HasEntry, Req, OnceOf
  <2> QED
    BY <2>1, <2>2
<1>6. OneAsks'
  BY <1>2, CachedAssumption DEF OneAsks, Req
<1>7. Counted'
  BY <1>1 DEF Counted, OnceOf
<1>8. FromTheEntry'
  BY <1>1, <1>3 DEF FromTheEntry, OnceOf, Cacheable
<1> QED
  BY <1>4, <1>5, <1>6, <1>7, <1>8

LEMMA LockCacheInv ==
  ASSUME CacheInv, NEW g \in Goroutines, Lock(g)
  PROVE  CacheInv'
<1> USE DEF CacheInv
<1>1. /\ pc[g] = "lock" /\ pc' = [pc EXCEPT ![g] = "look"]
      /\ mu = Nobody /\ mu' = g
      /\ UNCHANGED <<slot, once, val, plan, ref, calls, got>>
  BY DEF Lock
<1>2. Shapes'
  BY <1>1 DEF Shapes
<1>3. ASSUME NEW h \in Goroutines
      PROVE  MutexHeld(h)' /\ Underway(h)' /\ LookedUp(h)' /\ HasEntry(h)'
  BY <1>1, CachedAssumption
     DEF MutexHeld, Underway, LookedUp, HasEntry, Req, OnceOf, Shapes
<1>4. OneAsks'
  BY <1>1 DEF OneAsks, Req, Shapes
<1>5. Counted' /\ FromTheEntry'
  BY <1>1 DEF Counted, FromTheEntry, OnceOf
<1> QED
  BY <1>2, <1>3, <1>4, <1>5

LEMMA LookCacheInv ==
  ASSUME CacheInv, NEW g \in Goroutines, Look(g)
  PROVE  CacheInv'
<1> USE DEF CacheInv
<1>1. /\ pc[g] = "look" /\ pc' = [pc EXCEPT ![g] = "create"]
      /\ ref' = [ref EXCEPT ![g] = slot[Req(g).key]]
      /\ UNCHANGED <<mu, slot, once, val, plan, calls, got>>
  BY DEF Look
<1>2. slot[Req(g).key] \in Goroutines \cup {Nobody}
  BY <1>1 DEF Underway, Cacheable, Shapes
<1>3. Shapes'
  BY <1>1, <1>2 DEF Shapes
<1>4. ASSUME NEW h \in Goroutines
      PROVE  MutexHeld(h)' /\ Underway(h)' /\ LookedUp(h)' /\ HasEntry(h)'
  BY <1>1 DEF MutexHeld, Underway, LookedUp, HasEntry, Req, OnceOf, Shapes
<1>5. OneAsks'
  BY <1>1 DEF OneAsks, Req, Shapes
<1>6. Counted' /\ FromTheEntry'
  BY <1>1 DEF Counted, FromTheEntry, OnceOf
<1> QED
  BY <1>3, <1>4, <1>5, <1>6

(* While g holds the mutex nobody else is between lookup and creation, so  *)
(* g replaces no entry.                                                    *)
LEMMA CreateCacheInv ==
  ASSUME CacheInv, NEW g \in Goroutines, Create(g)
  PROVE  CacheInv'
<1> USE DEF CacheInv
<1>1. /\ pc[g] = "create" /\ pc' = [pc EXCEPT ![g] = "once"]
      /\ mu' = Nobody
      /\ UNCHANGED <<val, plan, calls, got>>
  BY DEF Create
<1>k. PICK k \in Keys : k = Req(g).key
  BY <1>1 DEF Underway, Cacheable
<1>2. k \in Cacheable /\ k \in Keys /\ ref[g] = slot[k] /\ mu = g
  BY <1>1, <1>k DEF Underway, Cacheable, LookedUp, MutexHeld
<1>3. \A h \in Goroutines \ {g} : pc[h] \notin {"look", "create"}
  BY <1>2 DEF MutexHeld
<1>4. CASE ref[g] # Nobody
  <2>1. UNCHANGED <<slot, once, ref>>
    BY <1>4 DEF Create
  <2>2. Shapes'
    BY <1>1, <2>1 DEF Shapes
  <2>3. ASSUME NEW h \in Goroutines
        PROVE  MutexHeld(h)' /\ Underway(h)' /\ LookedUp(h)' /\ HasEntry(h)'
    BY <1>1, <1>k, <1>2, <1>3, <1>4, <2>1
       DEF MutexHeld, Underway, LookedUp, HasEntry, Req, OnceOf, Shapes
  <2>4. OneAsks'
    BY <1>1 DEF OneAsks, Req, Shapes
  <2>5. Counted' /\ FromTheEntry'
    BY <1>1, <2>1 DEF Counted, FromTheEntry, OnceOf
  <2> QED
    BY <2>2, <2>3, <2>4, <2>5
<1>5. CASE ref[g] = Nobody
  <2>1. /\ slot' = [slot EXCEPT ![k] = g]
        /\ once' = [once EXCEPT ![g][k] = "new"]
        /\ ref' = [ref EXCEPT ![g] = g]
    BY <1>5, <1>k DEF Create
  <2>2. slot[k] = Nobody /\ g # Nobody
    BY <1>2, <1>5, CachedAssumption
  <2>3. Shapes'
    BY <1>1, <1>2, <2>1 DEF Shapes
  <2>4. \A j \in Keys \ {k} : slot'[j] = slot[j]
    BY <2>1 DEF Shapes
  <2>5. slot'[k] = g /\ OnceOf(k)' = "new"
    <3>1. slot'[k] = g
      BY <1>2, <2>1 DEF Shapes
    <3>2. once'[g][k] = "new"
      BY <1>2, <2>1 DEF Shapes
    <3> QED
      BY <3>1, <3>2 DEF OnceOf
  <2>6. \A j \in Keys \ {k} : slot[j] # Nobody => OnceOf(j)' = OnceOf(j)
    BY <1>2, <2>1, <2>4 DEF Shapes, OnceOf
  <2>7. ASSUME NEW h \in Goroutines
        PROVE  MutexHeld(h)' /\ Underway(h)' /\ LookedUp(h)' /\ HasEntry(h)'
    <3>1. CASE h = g
      BY <1>1, <1>k, <1>2, <2>1, <2>2, <2>5, <3>1
         DEF MutexHeld, Underway, LookedUp, HasEntry, Req, Shapes
    <3>2. CASE h # g
      <4>1. /\ pc'[h] = pc[h] /\ ref'[h] = ref[h] /\ plan'[h] = plan[h]
            /\ Req(h)' = Req(h)
        BY <1>1, <2>1, <3>2 DEF Shapes, Req
      <4>2. MutexHeld(h)' /\ Underway(h)' /\ LookedUp(h)'
        BY <1>3, <3>2, <4>1 DEF MutexHeld, Underway, LookedUp
      <4>3. HasEntry(h)'
        BY <2>2, <2>4, <2>6, <4>1 DEF HasEntry, Underway, Cacheable
      <4> QED
        BY <4>2, <4>3
    <3> QED
      BY <3>1, <3>2
  <2>8. OneAsks'
    BY <1>1 DEF OneAsks, Req, Shapes
  <2>9. Counted'
    <3> SUFFICES ASSUME NEW j \in Keys
                 PROVE  calls'[j] = IF slot'[j] # Nobody /\ OnceOf(j)' # "new" THEN 1 ELSE 0
      BY DEF Counted
    <3>1. CASE j = k
      BY <1>1, <2>2, <2>5, <3>1 DEF Counted, OnceOf
    <3>2. CASE j # k
      BY <1>1, <2>4, <2>6, <3>2 DEF Counted, OnceOf
    <3> QED
      BY <3>1, <3>2
  <2>10. FromTheEntry'
    BY <1>1, <2>2, <2>4, <2>6 DEF FromTheEntry, Cacheable
  <2> QED
    BY <2>3, <2>7, <2>8, <2>9, <2>10
<1> QED
  BY <1>4, <1>5

LEMMA OnceFirstCacheInv ==
  ASSUME CacheInv, NEW g \in Goroutines, OnceFirst(g)
  PROVE  CacheInv'
<1> USE DEF CacheInv
<1>1. PICK k \in Keys : k = Req(g).key
  BY DEF OnceFirst, Underway, Cacheable
<1>2. PICK e \in Goroutines : e = ref[g]
  BY DEF OnceFirst, HasEntry, Shapes
<1>3. /\ pc[g] = "once" /\ pc' = [pc EXCEPT ![g] = "ask"]
      /\ once[e][k] = "new" /\ once' = [once EXCEPT ![e][k] = "running"]
      /\ calls' = [calls EXCEPT ![k] = @ + 1]
      /\ UNCHANGED <<mu, slot, val, plan, ref, got>>
  BY <1>1, <1>2 DEF OnceFirst
<1>4. k \in Cacheable /\ slot[k] = e /\ e # Nobody
  BY <1>1, <1>2, <1>3 DEF Underway, HasEntry
<1>5. Shapes'
  BY <1>3 DEF Shapes
<1>6. /\ once'[e][k] = "running"
      /\ \A j \in Keys \ {k} : \A f \in Goroutines : once'[f][j] = once[f][j]
      /\ calls[k] = 0 /\ calls'[k] = 1
      /\ \A j \in Keys \ {k} : calls'[j] = calls[j]
  <2>1. calls[k] = 0
    BY <1>3, <1>4 DEF Counted, OnceOf
  <2>2. calls'[k] = 1
    BY <1>3, <2>1 DEF Shapes
  <2> QED
    BY <1>3, <2>1, <2>2 DEF Shapes
<1>7. ASSUME NEW h \in Goroutines
      PROVE  MutexHeld(h)' /\ Underway(h)' /\ LookedUp(h)' /\ HasEntry(h)'
  <2>1. CASE h = g
    BY <1>1, <1>2, <1>3, <1>4, <1>6, <2>1
       DEF MutexHeld, Underway, LookedUp, HasEntry, Req, OnceOf, Shapes
  <2>2. CASE h # g
    <3>1. /\ pc'[h] = pc[h] /\ ref'[h] = ref[h] /\ Req(h)' = Req(h)
      BY <1>3, <2>2 DEF Shapes, Req
    <3>2. MutexHeld(h)' /\ Underway(h)' /\ LookedUp(h)'
      BY <1>3, <3>1 DEF MutexHeld, Underway, LookedUp
    <3>3. HasEntry(h)'
      BY <1>3, <1>4, <1>6, <3>1 DEF HasEntry, OnceOf, Shapes
    <3> QED
      BY <3>2, <3>3
  <2> QED
    BY <2>1, <2>2
<1>8. OneAsks'
  <2>1. \A h \in Goroutines : ~(pc[h] = "ask" /\ Req(h).key = k)
    BY <1>3, <1>4 DEF HasEntry, OnceOf
  <2> QED
    BY <1>1, <1>3, <2>1 DEF OneAsks, Req, Shapes
<1>9. Counted'
  <2> SUFFICES ASSUME NEW j \in Keys
               PROVE  calls'[j] = IF slot'[j] # Nobody /\ OnceOf(j)' # "new" THEN 1 ELSE 0
    BY DEF Counted
  <2>1. CASE j = k
    BY <1>3, <1>4, <1>6, <2>1 DEF OnceOf
  <2>2. CASE j # k /\ slot[j] # Nobody
    BY <1>3, <1>6, <2>2 DEF Counted, OnceOf, Shapes
  <2>3. CASE j # k /\ slot[j] = Nobody
    BY <1>3, <1>6, <2>3 DEF Counted
  <2> QED
    BY <2>1, <2>2, <2>3
<1>10. FromTheEntry'
  BY <1>3, <1>4, <1>6 DEF FromTheEntry, OnceOf, Cacheable, Shapes
<1> QED
  BY <1>5, <1>7, <1>8, <1>9, <1>10

LEMMA OnceLaterCacheInv ==
  ASSUME CacheInv, NEW g \in Goroutines, OnceLater(g)
  PROVE  CacheInv'
<1> USE DEF CacheInv
<1>1. PICK k \in Keys : k = Req(g).key
  BY DEF OnceLater, Underway, Cacheable
<1>2. /\ pc[g] = "once" /\ ref[g] = slot[k] /\ slot[k] # Nobody /\ OnceOf(k) = "done"
      /\ k \in Cacheable
      /\ UNCHANGED <<mu, slot, once, val, ref, calls>>
  BY <1>1 DEF OnceLater, HasEntry, Underway, OnceOf
<1>3. /\ pc'[g] = "ready"
      /\ DOMAIN pc' = Goroutines /\ DOMAIN plan' = Goroutines
      /\ \A h \in Goroutines \ {g} : pc'[h] = pc[h] /\ plan'[h] = plan[h]
      /\ got' = got \cup {[by |-> g, req |-> Req(g), answer |-> val[slot[k]][k]]}
  BY <1>1, <1>2, FinishOnly DEF OnceLater
<1>4. Shapes'
  BY <1>2, <1>3 DEF Shapes
<1>5. ASSUME NEW h \in Goroutines
      PROVE  MutexHeld(h)' /\ Underway(h)' /\ LookedUp(h)' /\ HasEntry(h)'
  <2>1. CASE h = g
    BY <1>3, <2>1 DEF MutexHeld, Underway, LookedUp, HasEntry
  <2>2. CASE h # g
    BY <1>2, <1>3, <2>2 DEF MutexHeld, Underway, LookedUp, HasEntry, Req, OnceOf
  <2> QED
    BY <2>1, <2>2
<1>6. OneAsks'
  BY <1>3 DEF OneAsks, Req
<1>7. Counted'
  BY <1>2 DEF Counted, OnceOf
<1>8. FromTheEntry'
  BY <1>1, <1>2, <1>3 DEF FromTheEntry, OnceOf, Cacheable
<1> QED
  BY <1>4, <1>5, <1>6, <1>7, <1>8

LEMMA AskCacheInv ==
  ASSUME CacheInv, NEW g \in Goroutines, Ask(g)
  PROVE  CacheInv'
<1> USE DEF CacheInv
<1>1. PICK a : /\ Finish(g, a)
              /\ IF Req(g).key \in PassKeys
                 THEN UNCHANGED <<once, val>>
                 ELSE /\ val' = [val EXCEPT ![ref[g]][Req(g).key] = a]
                      /\ once' = [once EXCEPT ![ref[g]][Req(g).key] = "done"]
  BY DEF Ask
<1>2. pc[g] = "ask" /\ UNCHANGED <<mu, slot, ref, calls>>
  BY DEF Ask
<1>3. /\ pc'[g] = "ready"
      /\ DOMAIN pc' = Goroutines /\ DOMAIN plan' = Goroutines
      /\ \A h \in Goroutines \ {g} : pc'[h] = pc[h] /\ plan'[h] = plan[h]
      /\ got' = got \cup {[by |-> g, req |-> Req(g), answer |-> a]}
  BY <1>1, FinishOnly
<1>4. CASE Req(g).key \in PassKeys
  <2>1. UNCHANGED <<once, val>> /\ Req(g).key \notin Keys
    BY <1>1, <1>4, CachedAssumption
  <2>2. Shapes'
    BY <1>2, <1>3, <2>1 DEF Shapes
  <2>3. ASSUME NEW h \in Goroutines
        PROVE  MutexHeld(h)' /\ Underway(h)' /\ LookedUp(h)' /\ HasEntry(h)'
    <3>1. CASE h = g
      BY <1>3, <3>1 DEF MutexHeld, Underway, LookedUp, HasEntry
    <3>2. CASE h # g
      BY <1>2, <1>3, <2>1, <3>2 DEF MutexHeld, Underway, LookedUp, HasEntry, Req, OnceOf
    <3> QED
      BY <3>1, <3>2
  <2>4. OneAsks'
    BY <1>3 DEF OneAsks, Req
  <2>5. Counted'
    BY <1>2, <2>1 DEF Counted, OnceOf
  <2>6. FromTheEntry'
    BY <1>2, <1>3, <2>1 DEF FromTheEntry, OnceOf, Cacheable
  <2> QED
    BY <2>2, <2>3, <2>4, <2>5, <2>6
<1>5. CASE Req(g).key \notin PassKeys
  <2>1. PICK k \in Keys : k = Req(g).key
    BY <1>2, <1>5 DEF Underway, Cacheable
  <2>2. PICK e \in Goroutines : e = ref[g]
    BY <1>2, <2>1 DEF HasEntry, Shapes
  <2>3. /\ val' = [val EXCEPT ![e][k] = a] /\ once' = [once EXCEPT ![e][k] = "done"]
        /\ k \in Cacheable /\ slot[k] = e /\ e # Nobody /\ once[e][k] = "running"
    BY <1>1, <1>2, <1>5, <2>1, <2>2 DEF HasEntry, Underway, Cacheable, OnceOf
  <2>4. /\ once'[e][k] = "done" /\ val'[e][k] = a
        /\ \A j \in Keys \ {k} : \A f \in Goroutines :
             once'[f][j] = once[f][j] /\ val'[f][j] = val[f][j]
    BY <2>3 DEF Shapes
  <2>5. Shapes'
    BY <1>2, <1>3, <2>3 DEF Shapes
  <2>6. \A h \in Goroutines \ {g} : ~(pc[h] = "ask" /\ Req(h).key = k)
    BY <1>2, <2>1 DEF OneAsks
  <2>7. ASSUME NEW h \in Goroutines
        PROVE  MutexHeld(h)' /\ Underway(h)' /\ LookedUp(h)' /\ HasEntry(h)'
    <3>1. CASE h = g
      BY <1>3, <3>1 DEF MutexHeld, Underway, LookedUp, HasEntry
    <3>2. CASE h # g
      <4>1. pc'[h] = pc[h] /\ plan'[h] = plan[h] /\ ref'[h] = ref[h] /\ Req(h)' = Req(h)
        BY <1>2, <1>3, <3>2 DEF Req
      <4>2. MutexHeld(h)' /\ Underway(h)' /\ LookedUp(h)'
        BY <1>2, <4>1 DEF MutexHeld, Underway, LookedUp
      <4>3. HasEntry(h)'
        BY <1>2, <2>4, <2>6, <3>2, <4>1 DEF HasEntry, OnceOf, Shapes
      <4> QED
        BY <4>2, <4>3
    <3> QED
      BY <3>1, <3>2
  <2>8. OneAsks'
    BY <1>3 DEF OneAsks, Req
  <2>9. Counted'
    <3> SUFFICES ASSUME NEW j \in Keys
                 PROVE  calls'[j] = IF slot'[j] # Nobody /\ OnceOf(j)' # "new" THEN 1 ELSE 0
      BY DEF Counted
    <3>1. CASE j = k
      BY <1>2, <2>3, <2>4, <3>1 DEF Counted, OnceOf
    <3>2. CASE j # k /\ slot[j] # Nobody
      BY <1>2, <2>4, <3>2 DEF Counted, OnceOf, Shapes
    <3>3. CASE j # k /\ slot[j] = Nobody
      BY <1>2, <3>3 DEF Counted
    <3> QED
      BY <3>1, <3>2, <3>3
  <2>10. FromTheEntry'
    <3> SUFFICES ASSUME NEW x \in got'
                 PROVE  /\ x.req.key \in Cacheable =>
                             slot'[x.req.key] # Nobody /\ once'[slot'[x.req.key]][x.req.key] = "done"
                             /\ x.answer = val'[slot'[x.req.key]][x.req.key]
                        /\ x.req.key \in Keys \ Offered => x.answer = Nothing
      BY DEF FromTheEntry, OnceOf
    <3>1. CASE x \in got /\ x.req.key # k
      BY <1>2, <2>4, <3>1 DEF FromTheEntry, OnceOf, Cacheable, Shapes
    <3>2. CASE x \in got /\ x.req.key = k
      BY <2>3, <3>2 DEF FromTheEntry, OnceOf
    <3>3. CASE x = [by |-> g, req |-> Req(g), answer |-> a]
      BY <1>2, <2>1, <2>3, <2>4, <3>3 DEF Cacheable
    <3> QED
      BY <1>3, <3>1, <3>2, <3>3
  <2> QED
    BY <2>5, <2>7, <2>8, <2>9, <2>10
<1> QED
  BY <1>4, <1>5

(* Prefetch and the surroundings touch no entry, and move only goroutines  *)
(* that are not in a read.                                                 *)
Outside == {"unborn", "ready", "leave", "gone"}

LEMMA OutsideCacheInv ==
  ASSUME CacheInv,
         UNCHANGED <<mu, slot, once, val, ref, calls, got>>,
         DOMAIN pc' = Goroutines, DOMAIN plan' = Goroutines,
         \A h \in Goroutines : \/ pc'[h] = pc[h] /\ plan'[h] = plan[h]
                              \/ pc'[h] \in Outside
  PROVE  CacheInv'
<1> USE DEF CacheInv
<1>1. Shapes'
  BY DEF Shapes
<1>2. ASSUME NEW h \in Goroutines
      PROVE  MutexHeld(h)' /\ Underway(h)' /\ LookedUp(h)' /\ HasEntry(h)'
  <2>1. CASE pc'[h] \in Outside
    BY <2>1 DEF Outside, MutexHeld, Underway, LookedUp, HasEntry
  <2>2. CASE pc'[h] = pc[h] /\ plan'[h] = plan[h]
    BY <2>2 DEF MutexHeld, Underway, LookedUp, HasEntry, Req, OnceOf
  <2> QED
    BY <2>1, <2>2
<1>3. OneAsks'
  BY DEF Outside, OneAsks, Req
<1>4. Counted' /\ FromTheEntry'
  BY DEF Counted, FromTheEntry, OnceOf
<1> QED
  BY <1>1, <1>2, <1>3, <1>4

LEMMA PrefetchCacheInv ==
  ASSUME CacheInv, PrefetchList \/ Spawn \/ Wait \/ \E o \in Orgs : Release(o) \/ Leave(o)
  PROVE  CacheInv'
<1>1. Shapes /\ Main \in Goroutines
  BY DEF CacheInv, Goroutines
<1>2. CASE PrefetchList \/ Wait
  <2>1. /\ UNCHANGED <<mu, slot, once, val, ref, calls, got, pc>>
        /\ DOMAIN plan' = Goroutines
        /\ \A h \in Goroutines \ {Main} : plan'[h] = plan[h]
        /\ pc[Main] = "ready"
    BY <1>1, <1>2 DEF PrefetchList, Wait, ThenRules, Between, Shapes
  <2> QED
    BY <1>1, <2>1, OutsideCacheInv DEF Outside, Shapes
<1>3. CASE Spawn
  <2>1. PICK o : /\ pc' = [pc EXCEPT ![o] = "ready"]
                /\ plan' = [plan EXCEPT ![o] = Mission(o)]
    BY <1>3 DEF Spawn
  <2>2. UNCHANGED <<mu, slot, once, val, ref, calls, got>>
    BY <1>3 DEF Spawn
  <2>3. /\ DOMAIN pc' = Goroutines /\ DOMAIN plan' = Goroutines
        /\ \A h \in Goroutines : \/ pc'[h] = pc[h] /\ plan'[h] = plan[h]
                                 \/ pc'[h] \in Outside
    BY <1>1, <2>1 DEF Shapes, Outside
  <2> QED
    BY <2>2, <2>3, OutsideCacheInv
<1>4. ASSUME NEW o \in Orgs, Release(o) \/ Leave(o)
      PROVE  CacheInv'
  <2>1. /\ pc' = [pc EXCEPT ![o] = "leave"] \/ pc' = [pc EXCEPT ![o] = "gone"]
        /\ UNCHANGED <<mu, slot, once, val, ref, calls, got, plan>>
    BY <1>4 DEF Release, Leave
  <2>2. /\ DOMAIN pc' = Goroutines /\ DOMAIN plan' = Goroutines
        /\ \A h \in Goroutines : \/ pc'[h] = pc[h] /\ plan'[h] = plan[h]
                                 \/ pc'[h] \in Outside
    BY <1>1, <2>1 DEF Shapes, Outside
  <2> QED
    BY <2>1, <2>2, OutsideCacheInv
<1> QED
  BY <1>2, <1>3, <1>4

LEMMA StepCacheInv == CacheInv /\ [Next]_vars => CacheInv'
<1> SUFFICES ASSUME CacheInv, [Next]_vars PROVE CacheInv'
  OBVIOUS
<1>1. CASE UNCHANGED vars
  BY <1>1, OutsideCacheInv DEF vars, cacheVars, CacheInv, Shapes
<1>2. CASE Change
  BY <1>2, OutsideCacheInv DEF Change, cacheVars, CacheInv, Shapes
<1>3. CASE Next /\ ~Change
  BY <1>3, BeginCacheInv, LockCacheInv, LookCacheInv, CreateCacheInv, OnceFirstCacheInv,
     OnceLaterCacheInv, AskCacheInv, PrefetchCacheInv DEF Next
<1> QED
  BY <1>1, <1>2, <1>3

LEMMA CacheInvHolds == Spec => []CacheInv
BY InitCacheInv, StepCacheInv, PTL DEF Spec

(* However many goroutines read a key at the same time, GitHub is asked    *)
(* about it at most once for as long as the cache lives.                   *)
THEOREM AskedOnce == Spec => []OneCallPerKey
<1>1. CacheInv => OneCallPerKey
  BY DEF CacheInv, Counted, OneCallPerKey
<1> QED
  BY <1>1, CacheInvHolds, PTL

(* Two reads of a memoized key never disagree, whoever made them and       *)
(* whatever happened to GitHub between them.                               *)
THEOREM OneAnswerForAll == Spec => []ReadersAgree
<1>1. CacheInv => ReadersAgree
  BY DEF CacheInv, FromTheEntry, Cacheable, ReadersAgree
<1> QED
  BY <1>1, CacheInvHolds, PTL

-----------------------------------------------------------------------------
(* The refinement.  It also needs that answers are answers.                *)

Typed == now \in 0..MaxChanges /\ plan \in [Goroutines -> Seq(Request)]

SpawnOrder ==
  /\ spawned \in 0..Len(OrgList)
  /\ stage = "list" => spawned = 0
  /\ stage = "spawn" => spawned < Len(OrgList)

LEMMA SpawnOrderHolds == Spec => []SpawnOrder
<1>1. Init => SpawnOrder
  BY CachedAssumption DEF Init, SpawnOrder
<1>2. SpawnOrder /\ [Next]_vars => SpawnOrder'
  <2> SUFFICES ASSUME SpawnOrder, [Next]_vars PROVE SpawnOrder'
    OBVIOUS
  <2>1. CASE UNCHANGED <<stage, spawned>>
    BY <2>1 DEF SpawnOrder
  <2>2. CASE PrefetchList
    BY <2>2, CachedAssumption DEF PrefetchList, SpawnOrder
  <2>3. CASE Spawn
    BY <2>3, CachedAssumption DEF Spawn, SpawnOrder
  <2>4. CASE Wait
    BY <2>4 DEF Wait, SpawnOrder
  <2> QED
    BY <2>1, <2>2, <2>3, <2>4
       DEF Next, Begin, Lock, Look, Create, OnceFirst, OnceLater, Ask, Release, Leave,
           Change, vars, cacheVars, prefetchVars
<1> QED
  BY <1>1, <1>2, PTL DEF Spec

LEMMA MissionType == \A o \in Orgs : Mission(o) \in Seq(Request)
<1> SUFFICES ASSUME NEW o \in Orgs PROVE Mission(o) \in Seq(Request)
  OBVIOUS
<1>1. /\ [key |-> Settings[o], all |-> TRUE] \in Request
      /\ [key |-> Repos[o], all |-> FALSE] \in Request
  BY CachedAssumption DEF Request
<1> QED
  BY <1>1 DEF Mission

LEMMA InitTyped == Init => Typed
<1> SUFFICES ASSUME Init PROVE Typed
  OBVIOUS
<1>1. <<[key |-> ListKey, all |-> TRUE]>> \in Seq(Request)
  <2>1. [key |-> ListKey, all |-> TRUE] \in Request
    BY CachedAssumption DEF Request
  <2> QED
    BY <2>1
<1>2. PICK errand \in [Readers -> Plans] :
        plan = [g \in Goroutines |->
                  CASE g = Main -> <<[key |-> ListKey, all |-> TRUE]>>
                    [] g \in Orgs -> <<>>
                    [] OTHER -> errand[g]]
  BY DEF Init
<1>3. ASSUME NEW g \in Goroutines PROVE plan[g] \in Seq(Request)
  <2>1. CASE g = Main
    BY <1>1, <1>2, <2>1
  <2>2. CASE g # Main /\ g \in Orgs
    BY <1>2, <2>2
  <2>3. CASE g # Main /\ g \notin Orgs
    <3>1. g \in Readers /\ plan[g] = errand[g]
      BY <1>2, <2>3 DEF Goroutines
    <3> QED
      BY <3>1, CachedAssumption
  <2> QED
    BY <2>1, <2>2, <2>3
<1>4. plan \in [Goroutines -> Seq(Request)]
  BY <1>2, <1>3
<1>5. now = 0 /\ MaxChanges \in Nat
  BY CachedAssumption DEF Init
<1> QED
  BY <1>4, <1>5 DEF Typed

LEMMA StepTyped == Typed /\ CacheInv /\ SpawnOrder /\ [Next]_vars => Typed'
<1> SUFFICES ASSUME Typed, CacheInv, SpawnOrder, [Next]_vars PROVE Typed'
  OBVIOUS
<1>1. ASSUME NEW g \in Goroutines, NEW a, Finish(g, a), plan[g] # <<>>
      PROVE  plan' \in [Goroutines -> Seq(Request)]
  <2>1. Tail(plan[g]) \in Seq(Request)
    BY <1>1 DEF Typed
  <2> QED
    BY <1>1, <2>1 DEF Finish, Typed
<1>2. ASSUME NEW g \in Goroutines, Begin(g) PROVE Typed'
  BY <1>1, <1>2 DEF Begin, Reading, Typed
<1>3. ASSUME NEW g \in Goroutines, OnceLater(g) \/ Ask(g) PROVE Typed'
  <2>1. plan[g] # <<>>
    BY <1>3 DEF OnceLater, Ask, CacheInv, Underway
  <2>2. UNCHANGED now /\ \E a : Finish(g, a)
    BY <1>3 DEF OnceLater, Ask
  <2> QED
    BY <1>1, <2>1, <2>2 DEF Typed
<1>4. ASSUME NEW g \in Goroutines, Lock(g) \/ Look(g) \/ Create(g) \/ OnceFirst(g)
      PROVE  Typed'
  BY <1>4 DEF Lock, Look, Create, OnceFirst, Typed
<1>5. CASE PrefetchList \/ Wait
  <2>1. UNCHANGED now /\ (UNCHANGED plan \/ \E p \in Plans : plan' = [plan EXCEPT ![Main] = p])
    BY <1>5 DEF PrefetchList, Wait, ThenRules
  <2> QED
    BY <2>1, CachedAssumption DEF Typed
<1>6. CASE Spawn
  <2>1. PICK o : UNCHANGED now /\ plan' = [plan EXCEPT ![o] = Mission(o)] /\ o = OrgList[spawned + 1]
    BY <1>6 DEF Spawn
  <2>2. o \in Orgs
    BY <1>6, <2>1, CachedAssumption DEF Spawn, SpawnOrder
  <2> QED
    BY <2>1, <2>2, MissionType DEF Typed
<1>7. CASE \E o \in Orgs : Release(o) \/ Leave(o)
  BY <1>7 DEF Release, Leave, Typed
<1>8. CASE Change
  BY <1>8, CachedAssumption DEF Change, cacheVars, Typed
<1>9. CASE UNCHANGED vars
  BY <1>9 DEF vars, cacheVars, Typed
<1> QED
  BY <1>2, <1>3, <1>4, <1>5, <1>6, <1>7, <1>8, <1>9 DEF Next

(* Every action is a step of Memo or leaves its variables alone: asking is *)
(* Learn, finding an answered entry is Recall.                             *)
Remembered == [k \in Cacheable |-> Known(k)]

Served == {[by |-> x.by, key |-> x.req.key, answer |-> x.answer]
             : x \in {y \in got : y.req.key \in Cacheable}}

LEMMA ServedGrows ==
  ASSUME NEW g, NEW a, got' = got \cup {[by |-> g, req |-> Req(g), answer |-> a]}
  PROVE  Served' = IF Req(g).key \in Cacheable
                   THEN Served \cup {[by |-> g, key |-> Req(g).key, answer |-> a]}
                   ELSE Served
<1> DEFINE new == [by |-> g, req |-> Req(g), answer |-> a]
           Of(x) == [by |-> x.by, key |-> x.req.key, answer |-> x.answer]
<1>1. \A y : y \in Served' <=> \E x \in got' : x.req.key \in Cacheable /\ y = Of(x)
  BY DEF Served
<1>2. \A y : y \in Served <=> \E x \in got : x.req.key \in Cacheable /\ y = Of(x)
  BY DEF Served
<1>3. new.req.key = Req(g).key /\ Of(new) = [by |-> g, key |-> Req(g).key, answer |-> a]
  OBVIOUS
<1> HIDE DEF new, Of
<1>4. got' = got \cup {new}
  BY DEF new
<1>5. CASE Req(g).key \in Cacheable
  <2>1. \A y : y \in Served' <=> y \in Served \cup {Of(new)}
    BY <1>1, <1>2, <1>3, <1>4, <1>5
  <2> QED
    BY <1>3, <1>5, <2>1
<1>6. CASE Req(g).key \notin Cacheable
  <2>1. \A y : y \in Served' <=> y \in Served
    BY <1>1, <1>2, <1>3, <1>4, <1>6
  <2> QED
    BY <1>6, <2>1
<1> QED
  BY <1>5, <1>6

LEMMA RepliesType ==
  ASSUME Typed, NEW g \in Goroutines, plan[g] # <<>>, NEW a \in Replies(Req(g))
  PROVE  a \in Answer
<1>1. Req(g) \in Request /\ Req(g).all \in BOOLEAN
  <2>1. plan[g] \in Seq(Request)
    BY DEF Typed
  <2>2. Head(plan[g]) \in Request
    BY <2>1
  <2> QED
    BY <2>2 DEF Req, Request
<1>2. Nothing \in Answer
  <2>1. 0 \in 0..MaxChanges
    BY CachedAssumption
  <2> QED
    BY <2>1 DEF Nothing, Answer
<1>3. [err |-> FALSE, at |-> now, all |-> Req(g).all] \in Answer
  BY <1>1 DEF Typed, Answer
<1> QED
  BY <1>2, <1>3 DEF Replies

(* What is known of a key depends on its own entry only.                   *)
LEMMA KnownStays ==
  ASSUME \A k \in Cacheable : Known(k)' = Known(k)
  PROVE  Remembered' = Remembered
BY DEF Remembered

LEMMA AskIsLearn ==
  ASSUME CacheInv, Typed, NEW g \in Goroutines, Ask(g)
  PROVE  [M!MemoNext]_(M!memoVars)
<1>1. PICK a \in Replies(Req(g)) :
        /\ Finish(g, a)
        /\ IF Req(g).key \in PassKeys
           THEN UNCHANGED <<once, val>>
           ELSE /\ val' = [val EXCEPT ![ref[g]][Req(g).key] = a]
                /\ once' = [once EXCEPT ![ref[g]][Req(g).key] = "done"]
  BY DEF Ask
<1>2. pc[g] = "ask" /\ plan[g] # <<>> /\ slot' = slot
  BY DEF Ask, CacheInv, Underway
<1>3. a \in Answer
  BY <1>2, RepliesType
<1>4. got' = got \cup {[by |-> g, req |-> Req(g), answer |-> a]}
  BY <1>1 DEF Finish
<1>5. CASE Req(g).key \in PassKeys
  <2>1. Req(g).key \notin Cacheable /\ UNCHANGED <<slot, once, val>>
    BY <1>1, <1>2, <1>5, CachedAssumption DEF Cacheable
  <2>2. Served' = Served
    BY <1>4, <2>1, ServedGrows
  <2>3. Remembered' = Remembered
    BY <2>1, KnownStays DEF Known
  <2> QED
    BY <2>2, <2>3 DEF M!memoVars, Served, Remembered, Cacheable
<1>6. CASE Req(g).key \notin PassKeys
  <2>1. PICK k \in Cacheable : k = Req(g).key
    BY <1>2, <1>6 DEF CacheInv, Underway
  <2>2. PICK e \in Goroutines : e = ref[g]
    BY <1>2, <2>1 DEF CacheInv, HasEntry, Shapes, Cacheable
  <2>3. slot[k] = e /\ e # Nobody /\ once[e][k] = "running" /\ k \in Keys
    BY <1>2, <2>1, <2>2 DEF CacheInv, HasEntry, OnceOf, Cacheable
  <2>4. val' = [val EXCEPT ![e][k] = a] /\ once' = [once EXCEPT ![e][k] = "done"]
    BY <1>1, <1>6, <2>1, <2>2
  <2>5. Known(k) = {} /\ Known(k)' = {a}
    <3>1. slot'[k] = e /\ once'[e][k] = "done" /\ val'[e][k] = a
      BY <1>2, <2>3, <2>4 DEF CacheInv, Shapes
    <3> QED
      BY <2>3, <3>1 DEF Known
  <2>6. \A j \in Cacheable \ {k} : Known(j)' = Known(j)
    <3> SUFFICES ASSUME NEW j \in Cacheable \ {k} PROVE Known(j)' = Known(j)
      OBVIOUS
    <3>1. \A f \in Goroutines : once'[f][j] = once[f][j] /\ val'[f][j] = val[f][j]
      BY <2>4 DEF CacheInv, Shapes, Cacheable
    <3>2. slot[j] \in Goroutines \cup {Nobody}
      BY DEF CacheInv, Shapes, Cacheable
    <3> QED
      BY <1>2, <3>1, <3>2 DEF Known
  <2>7. Remembered' = [Remembered EXCEPT ![k] = {a}]
    BY <2>5, <2>6 DEF Remembered
  <2>8. Served' = Served \cup {[by |-> g, key |-> k, answer |-> a]}
    BY <1>4, <2>1, ServedGrows
  <2>9. Remembered[k] = {}
    BY <2>5 DEF Remembered
  <2>10. M!Learn(g, k, a)
    BY <2>7, <2>8, <2>9 DEF M!Learn, Served, Remembered, Cacheable
  <2> QED
    BY <1>3, <2>10 DEF M!MemoNext, Cacheable
<1> QED
  BY <1>5, <1>6

LEMMA OnceLaterIsRecall ==
  ASSUME CacheInv, NEW g \in Goroutines, OnceLater(g)
  PROVE  [M!MemoNext]_(M!memoVars)
<1>1. PICK k \in Cacheable : k = Req(g).key
  BY DEF OnceLater, CacheInv, Underway
<1>2. /\ ref[g] = slot[k] /\ slot[k] # Nobody /\ once[slot[k]][k] = "done"
      /\ UNCHANGED <<slot, once, val>>
      /\ got' = got \cup {[by |-> g, req |-> Req(g), answer |-> val[slot[k]][k]]}
  BY <1>1 DEF OnceLater, Finish, CacheInv, HasEntry
<1>3. Remembered' = Remembered
  BY <1>2, KnownStays DEF Known
<1>4. Served' = Served \cup {[by |-> g, key |-> k, answer |-> val[slot[k]][k]]}
  BY <1>1, <1>2, ServedGrows
<1>5. val[slot[k]][k] \in Remembered[k]
  BY <1>2 DEF Remembered, Known
<1>6. M!Recall(g, k)
  BY <1>3, <1>4, <1>5 DEF M!Recall, Served, Remembered, Cacheable
<1> QED
  BY <1>6 DEF M!MemoNext, Cacheable

(* Creating an entry and starting its Once teach nobody anything.          *)
LEMMA CreateKnowsNothing ==
  ASSUME CacheInv, NEW g \in Goroutines, Create(g)
  PROVE  Remembered' = Remembered
<1>1. PICK k \in Cacheable : k = Req(g).key
  BY DEF Create, CacheInv, Underway
<1>2. ref[g] = slot[k] /\ k \in Keys /\ val' = val
  BY <1>1 DEF Create, CacheInv, LookedUp, Cacheable
<1>3. CASE ref[g] # Nobody
  BY <1>3, KnownStays DEF Create, Known
<1>4. CASE ref[g] = Nobody
  <2>1. /\ slot' = [slot EXCEPT ![k] = g]
        /\ once' = [once EXCEPT ![g][k] = "new"]
    BY <1>1, <1>4 DEF Create
  <2>2. Known(k) = {}
    BY <1>2, <1>4 DEF Known
  <2>3. Known(k)' = {}
    <3>1. slot'[k] = g
      BY <1>2, <2>1 DEF CacheInv, Shapes
    <3>2. once'[g][k] = "new"
      BY <1>2, <2>1 DEF CacheInv, Shapes
    <3> QED
      BY <3>1, <3>2 DEF Known
  <2>4. ASSUME NEW j \in Cacheable \ {k} PROVE Known(j)' = Known(j)
    <3>1. slot'[j] = slot[j] /\ slot[j] \in Goroutines \cup {Nobody}
      BY <2>1 DEF CacheInv, Shapes, Cacheable
    <3>2. \A f \in Goroutines : once'[f][j] = once[f][j]
      BY <2>1 DEF CacheInv, Shapes, Cacheable
    <3> QED
      BY <1>2, <3>1, <3>2 DEF Known
  <2> QED
    BY <2>2, <2>3, <2>4, KnownStays
<1> QED
  BY <1>3, <1>4

LEMMA OnceFirstKnowsNothing ==
  ASSUME CacheInv, NEW g \in Goroutines, OnceFirst(g)
  PROVE  Remembered' = Remembered
<1>1. PICK k \in Cacheable : k = Req(g).key
  BY DEF OnceFirst, CacheInv, Underway
<1>2. PICK e \in Goroutines : e = ref[g] /\ e = slot[k]
  BY <1>1 DEF OnceFirst, CacheInv, HasEntry, Shapes
<1>3. /\ once[e][k] = "new" /\ once' = [once EXCEPT ![e][k] = "running"]
      /\ slot' = slot /\ val' = val /\ k \in Keys
  BY <1>1, <1>2 DEF OnceFirst, Cacheable
<1>4. Known(k) = {} /\ Known(k)' = {}
  <2>1. once'[e][k] = "running"
    BY <1>3 DEF CacheInv, Shapes
  <2> QED
    BY <1>2, <1>3, <2>1 DEF Known
<1>5. ASSUME NEW j \in Cacheable \ {k} PROVE Known(j)' = Known(j)
  <2>1. \A f \in Goroutines : once'[f][j] = once[f][j]
    BY <1>3 DEF CacheInv, Shapes, Cacheable
  <2>2. slot[j] \in Goroutines \cup {Nobody}
    BY DEF CacheInv, Shapes, Cacheable
  <2> QED
    BY <1>3, <2>1, <2>2 DEF Known
<1> QED
  BY <1>4, <1>5, KnownStays

LEMMA StepIsMemo ==
  CacheInv /\ Typed /\ [Next]_vars => [M!MemoNext]_(M!memoVars)
<1> SUFFICES ASSUME CacheInv, Typed, [Next]_vars
             PROVE  [M!MemoNext]_(M!memoVars)
  OBVIOUS
<1>1. ASSUME Remembered' = Remembered, Served' = Served
      PROVE  [M!MemoNext]_(M!memoVars)
  BY <1>1 DEF M!memoVars, Served, Remembered, Cacheable
<1>2. ASSUME got' = got PROVE Served' = Served
  BY <1>2 DEF Served
<1>3. ASSUME UNCHANGED <<slot, once, val>> PROVE Remembered' = Remembered
  BY <1>3, KnownStays DEF Known
<1>4. ASSUME NEW g \in Goroutines, Begin(g) PROVE [M!MemoNext]_(M!memoVars)
  <2>1. Remembered' = Remembered
    BY <1>3, <1>4 DEF Begin
  <2>2. CASE Req(g).key \notin Offered
    <3>1. got' = got \cup {[by |-> g, req |-> Req(g), answer |-> Nothing]}
      BY <1>4, <2>2 DEF Begin, Finish
    <3> QED
      BY <1>1, <2>1, <2>2, <3>1, ServedGrows DEF Cacheable
  <2>3. CASE Req(g).key \in Offered
    BY <1>1, <1>2, <1>4, <2>1, <2>3 DEF Begin
  <2> QED
    BY <2>2, <2>3
<1>5. ASSUME NEW g \in Goroutines, Lock(g) \/ Look(g) PROVE [M!MemoNext]_(M!memoVars)
  BY <1>1, <1>2, <1>3, <1>5 DEF Lock, Look
<1>6. ASSUME NEW g \in Goroutines, Create(g) PROVE [M!MemoNext]_(M!memoVars)
  BY <1>1, <1>2, <1>6, CreateKnowsNothing DEF Create
<1>7. ASSUME NEW g \in Goroutines, OnceFirst(g) PROVE [M!MemoNext]_(M!memoVars)
  BY <1>1, <1>2, <1>7, OnceFirstKnowsNothing DEF OnceFirst
<1>8. CASE PrefetchList \/ Spawn \/ Wait \/ Change \/ UNCHANGED vars
  BY <1>1, <1>2, <1>3, <1>8 DEF PrefetchList, Spawn, Wait, Change, vars, cacheVars
<1>9. CASE \E o \in Orgs : Release(o) \/ Leave(o)
  BY <1>1, <1>2, <1>3, <1>9 DEF Release, Leave
<1> QED
  BY <1>4, <1>5, <1>6, <1>7, <1>8, <1>9, AskIsLearn, OnceLaterIsRecall DEF Next

(* The cache implements Memo: behind the mutex, the entries and the Onces  *)
(* a key is learnt once and recalled afterwards.                           *)
THEOREM CacheIsMemo == Spec => ImplementsMemo
<1>1. Init => M!MemoInit
  <2> SUFFICES ASSUME Init PROVE M!MemoInit
    OBVIOUS
  <2>1. \A k \in Cacheable : Known(k) = {}
    BY DEF Init, Known, Cacheable
  <2>2. got = {}
    BY DEF Init
  <2> QED
    BY <2>1, <2>2 DEF M!MemoInit, Cacheable
<1>2. Spec => []Typed
  <2>1. Init => Typed
    BY InitTyped
  <2>2. Typed /\ CacheInv /\ SpawnOrder /\ [Next]_vars => Typed'
    BY StepTyped
  <2> QED
    BY <2>1, <2>2, CacheInvHolds, SpawnOrderHolds, PTL DEF Spec
<1>3. CacheInv /\ Typed /\ [Next]_vars => [M!MemoNext]_(M!memoVars)
  BY StepIsMemo
<1> QED
  BY <1>1, <1>2, <1>3, CacheInvHolds, PTL DEF Spec, ImplementsMemo, M!MemoSpec

-----------------------------------------------------------------------------
(* Prefetch.  The semaphore counts the workers that have not returned their*)
(* token, the WaitGroup those that have not ended, and a worker has asked  *)
(* for what its plan no longer holds.                                      *)
Busy == {"ready", "lock", "look", "create", "once", "ask"}

PcType == pc \in [Goroutines -> Busy \cup {"unborn", "leave", "gone"}]

Crew == {OrgList[i] : i \in 1..spawned}

Present == {o \in Orgs : pc[o] \notin {"unborn", "gone"}}

Ahead(g, k) == \E i \in DOMAIN plan[g] : plan[g][i].key = k

Answered(k) == \E x \in got : x.req.key = k

Manned ==
  /\ PcType
  /\ IsFiniteSet(Present) /\ IsFiniteSet(AtWork)
  /\ sem = Cardinality(AtWork) /\ sem <= Concurrency
  /\ wg = Cardinality(Present)
  /\ \A o \in Orgs : pc[o] = "unborn" <=> o \notin Crew
  /\ stage \in {"list", "spawn", "wait", "warm"}
  /\ stage = "wait" => spawned = Len(OrgList)
  /\ stage = "warm" => wg = 0 /\ (Listed(Nothing) \/ spawned = Len(OrgList))

Assigned(o) ==
  /\ pc[o] # "unborn" =>
       \A k \in {Settings[o], Repos[o]} : Ahead(o, k) \/ Answered(k)
  /\ pc[o] \in {"leave", "gone"} => plan[o] = <<>>

PrefetchInv == Manned /\ \A o \in Orgs : Assigned(o)

LEMMA InitPrefetch == Init => PrefetchInv
<1> SUFFICES ASSUME Init PROVE PrefetchInv
  OBVIOUS
<1>1. \A o \in Orgs : pc[o] = "unborn"
  BY CachedAssumption DEF Init, Goroutines
<1>2. Present = {} /\ AtWork = {}
  BY <1>1 DEF Present, AtWork
<1>3. Crew = {}
  BY DEF Init, Crew
<1>4. IsFiniteSet({}) /\ Cardinality({}) = 0
  BY FS_EmptySet
<1>5. PcType
  BY DEF Init, PcType, Busy
<1>6. Manned
  BY <1>1, <1>2, <1>3, <1>4, <1>5, CachedAssumption DEF Init, Manned
<1>7. \A o \in Orgs : Assigned(o)
  BY <1>1 DEF Assigned
<1> QED BY <1>6, <1>7 DEF PrefetchInv

(* A step of a goroutine that reads.                                       *)
LEMMA FinishAssigned ==
  ASSUME Typed, NEW g \in Goroutines, NEW a, Finish(g, a), plan[g] # <<>>,
         NEW k, Ahead(g, k) \/ Answered(k)
  PROVE  Ahead(g, k)' \/ Answered(k)'
<1>1. /\ got' = got \cup {[by |-> g, req |-> Req(g), answer |-> a]}
      /\ plan'[g] = Tail(plan[g])
  BY DEF Finish, Typed
<1>2. plan[g] \in Seq(Request)
  BY DEF Typed
<1>3. CASE Answered(k)
  BY <1>1, <1>3 DEF Answered
<1>4. CASE Ahead(g, k) /\ Req(g).key = k
  <2>1. [by |-> g, req |-> Req(g), answer |-> a].req.key = k
    BY <1>4
  <2> QED BY <1>1, <2>1 DEF Answered
<1>5. CASE Ahead(g, k) /\ Req(g).key # k
  <2>1. PICK i \in DOMAIN plan[g] : plan[g][i].key = k
    BY <1>5 DEF Ahead
  <2>2. i # 1
    BY <1>2, <1>5, <2>1 DEF Req
  <2>3. i - 1 \in DOMAIN plan'[g] /\ plan'[g][i - 1] = plan[g][i]
    BY <1>1, <1>2, <2>1, <2>2
  <2> QED BY <2>1, <2>3 DEF Ahead
<1> QED BY <1>3, <1>4, <1>5

LEMMA ReadPrefetch ==
  ASSUME PrefetchInv, Typed, CacheInv, NEW g \in Goroutines, Read(g)
  PROVE  PrefetchInv'
<1>1. UNCHANGED prefetchVars
  BY DEF Read, Begin, Lock, Look, Create, OnceFirst, OnceLater, Ask
<1>2. pc[g] \in Busy /\ pc'[g] \in Busy /\ pc' = [pc EXCEPT ![g] = pc'[g]]
  BY DEF Read, Begin, Lock, Look, Create, OnceFirst, OnceLater, Ask, Finish, Busy,
         PrefetchInv, Manned, PcType
<1>3. \A h \in Goroutines : h # g => pc'[h] = pc[h]
  BY <1>2 DEF PrefetchInv, Manned, PcType
<1>4. AtWork' = AtWork /\ Present' = Present
  <2>1. \A o \in Orgs : /\ pc'[o] \in {"unborn", "leave", "gone"} <=> pc[o] \in {"unborn", "leave", "gone"}
                        /\ pc'[o] \in {"unborn", "gone"} <=> pc[o] \in {"unborn", "gone"}
    BY <1>2, <1>3 DEF Busy, Goroutines
  <2> QED BY <2>1 DEF AtWork, Present
<1>5. PcType'
  BY <1>2 DEF PrefetchInv, Manned, PcType
<1>6. got \subseteq got'
  BY DEF Read, Begin, Lock, Look, Create, OnceFirst, OnceLater, Ask, Finish
<1>7. Listed(Nothing) => Listed(Nothing)'
  BY <1>6 DEF Listed
<1>8. Crew' = Crew
  BY <1>1 DEF Crew, prefetchVars
<1>9. \A o \in Orgs : pc'[o] = "unborn" <=> pc[o] = "unborn"
  BY <1>2, <1>3 DEF Busy, Goroutines
<1>10. Manned'
  BY <1>1, <1>4, <1>5, <1>7, <1>8, <1>9 DEF PrefetchInv, Manned, prefetchVars
<1>11. ASSUME NEW o \in Orgs PROVE Assigned(o)'
  <2>1. Assigned(o) /\ o \in Goroutines
    BY DEF PrefetchInv, Goroutines
  <2>2. CASE o # g
    <3>1. plan'[o] = plan[o]
      BY <2>1, <2>2 DEF Read, Begin, Lock, Look, Create, OnceFirst, OnceLater, Ask, Finish, Typed
    <3>2. pc'[o] = pc[o]
      BY <1>3, <2>1, <2>2
    <3>3. \A k : Answered(k) => Answered(k)'
      BY <1>6 DEF Answered
    <3>4. \A k : Ahead(o, k)' <=> Ahead(o, k)
      BY <3>1 DEF Ahead
    <3> QED BY <2>1, <3>1, <3>2, <3>3, <3>4 DEF Assigned
  <2>3. CASE o = g
    <3>1. pc[g] \notin {"unborn", "leave", "gone"} /\ pc'[g] \notin {"unborn", "leave", "gone"}
      BY <1>2 DEF Busy
    <3>2. ASSUME NEW k \in {Settings[o], Repos[o]} PROVE Ahead(g, k)' \/ Answered(k)'
      <4>1. Ahead(g, k) \/ Answered(k)
        BY <2>1, <2>3, <3>1 DEF Assigned
      <4>2. CASE plan' = plan /\ got' = got
        BY <4>1, <4>2 DEF Ahead, Answered
      <4>3. CASE ~(plan' = plan /\ got' = got)
        <5>1. plan[g] # <<>>
          BY <4>3 DEF Read, Begin, Lock, Look, Create, OnceFirst, OnceLater, Ask, CacheInv,
                      Underway, Reading
        <5>2. PICK a : Finish(g, a)
          BY <4>3 DEF Read, Begin, Lock, Look, Create, OnceFirst, OnceLater, Ask
        <5> QED BY <4>1, <5>1, <5>2, FinishAssigned
      <4> QED BY <4>2, <4>3
    <3> QED BY <2>3, <3>1, <3>2 DEF Assigned
  <2> QED BY <2>2, <2>3
<1> QED BY <1>10, <1>11 DEF PrefetchInv

(* A worker is spawned once, because an organization is listed once.       *)
LEMMA SpawnsUnborn ==
  ASSUME PrefetchInv, SpawnOrder, Spawn
  PROVE  /\ OrgList[spawned + 1] \in Orgs
         /\ OrgList[spawned + 1] \notin Crew
         /\ pc[OrgList[spawned + 1]] = "unborn"
<1>1. /\ OrgList \in Seq(Orgs) /\ Len(OrgList) \in Nat /\ DOMAIN OrgList = 1..Len(OrgList)
      /\ spawned \in Nat /\ spawned < Len(OrgList)
  BY CachedAssumption DEF Spawn, SpawnOrder
<1>2. OrgList[spawned + 1] \notin Crew
  <2> SUFFICES ASSUME NEW i \in 1..spawned, OrgList[i] = OrgList[spawned + 1] PROVE FALSE
    BY DEF Crew
  <2>1. i \in DOMAIN OrgList /\ spawned + 1 \in DOMAIN OrgList /\ i # spawned + 1
    BY <1>1
  <2> QED BY <2>1, CachedAssumption
<1>3. OrgList[spawned + 1] \in Orgs
  BY <1>1
<1> QED BY <1>2, <1>3 DEF PrefetchInv, Manned

LEMMA SpawnPrefetch ==
  ASSUME PrefetchInv, Typed, CacheInv, SpawnOrder, Spawn
  PROVE  PrefetchInv'
<1> DEFINE o == OrgList[spawned + 1]
<1>1. /\ OrgList \in Seq(Orgs) /\ Len(OrgList) \in Nat /\ DOMAIN OrgList = 1..Len(OrgList)
      /\ spawned \in Nat /\ spawned < Len(OrgList) /\ stage = "spawn"
  BY CachedAssumption DEF Spawn, SpawnOrder
<1>2. o \in Orgs /\ o \in Goroutines
  BY <1>1 DEF Goroutines
<1>3. o \notin Crew /\ pc[o] = "unborn"
  BY SpawnsUnborn
<1>4. Crew' = Crew \cup {o}
  <2>1. \A n \in Nat : 1..(n + 1) = (1..n) \cup {n + 1}
    OBVIOUS
  <2>2. 1..spawned' = (1..spawned) \cup {spawned + 1}
    BY <1>1, <2>1 DEF Spawn
  <2> QED BY <2>2 DEF Crew
<1>5. pc[o] = "unborn"
  BY <1>3
<1>6. /\ pc' = [pc EXCEPT ![o] = "ready"] /\ plan' = [plan EXCEPT ![o] = Mission(o)]
      /\ sem' = sem + 1 /\ wg' = wg + 1 /\ got' = got /\ spawned' = spawned + 1
      /\ stage' = IF spawned' = Len(OrgList) THEN "wait" ELSE "spawn"
      /\ sem < Concurrency
  BY DEF Spawn
<1> HIDE DEF o
<1>7. pc'[o] = "ready" /\ \A g \in Goroutines : g # o => pc'[g] = pc[g]
  BY <1>2, <1>6 DEF PrefetchInv, Manned, PcType
<1>8. PcType'
  BY <1>2, <1>6 DEF PrefetchInv, Manned, PcType, Busy
<1>9. /\ AtWork' = AtWork \cup {o} /\ Present' = Present \cup {o}
      /\ o \notin AtWork /\ o \notin Present
  BY <1>2, <1>5, <1>7 DEF AtWork, Present, Goroutines
<1>10. /\ IsFiniteSet(AtWork') /\ Cardinality(AtWork') = Cardinality(AtWork) + 1
       /\ IsFiniteSet(Present') /\ Cardinality(Present') = Cardinality(Present) + 1
  BY <1>9, FS_AddElement DEF PrefetchInv, Manned
<1>11. Cardinality(AtWork) \in Nat /\ Concurrency \in Nat
  BY FS_CardinalityType, CachedAssumption DEF PrefetchInv, Manned
<1>12. \A q \in Orgs : pc'[q] = "unborn" <=> q \notin Crew'
  BY <1>2, <1>4, <1>7 DEF PrefetchInv, Manned, Goroutines
<1>13. Manned'
  BY <1>6, <1>8, <1>10, <1>11, <1>12 DEF PrefetchInv, Manned
<1>14. ASSUME NEW q \in Orgs PROVE Assigned(q)'
  <2>1. CASE q = o
    <3>1. plan'[o] = Mission(o)
      BY <1>2, <1>6 DEF Typed
    <3>2. /\ Mission(o)[1].key = Settings[o] /\ Mission(o)[2].key = Repos[o]
          /\ 1 \in DOMAIN Mission(o) /\ 2 \in DOMAIN Mission(o)
      BY DEF Mission
    <3>3. \A k \in {Settings[o], Repos[o]} : \E i \in DOMAIN Mission(o) : Mission(o)[i].key = k
      BY <3>2
    <3> QED BY <1>7, <2>1, <3>1, <3>3 DEF Assigned, Ahead
  <2>2. CASE q # o
    <3>1. q \in Goroutines
      BY DEF Goroutines
    <3>2. plan'[q] = plan[q] /\ pc'[q] = pc[q]
      BY <1>6, <1>7, <2>2, <3>1 DEF Typed
    <3> QED BY <1>6, <3>2 DEF PrefetchInv, Assigned, Ahead, Answered
  <2> QED BY <2>1, <2>2
<1> QED BY <1>13, <1>14 DEF PrefetchInv

LEMMA EndPrefetch ==
  ASSUME PrefetchInv, Typed, NEW o \in Orgs, Release(o) \/ Leave(o)
  PROVE  PrefetchInv'
<1>1. UNCHANGED <<plan, got, stage, spawned>>
  BY DEF Release, Leave
<1>2. o \in Goroutines /\ \A q \in Orgs : q \in Goroutines
  BY DEF Goroutines
<1>3. \/ /\ pc[o] = "ready" /\ plan[o] = <<>> /\ sem' = sem - 1 /\ wg' = wg
         /\ pc' = [pc EXCEPT ![o] = "leave"]
      \/ /\ pc[o] = "leave" /\ wg' = wg - 1 /\ sem' = sem
         /\ pc' = [pc EXCEPT ![o] = "gone"]
  BY DEF Release, Leave, Between, Reading
<1>4. \A g \in Goroutines : g # o => pc'[g] = pc[g]
  BY <1>3 DEF PrefetchInv, Manned, PcType
<1>5. PcType'
  BY <1>2, <1>3 DEF PrefetchInv, Manned, PcType, Busy
<1>6. Cardinality(AtWork) \in Nat /\ Cardinality(Present) \in Nat /\ Concurrency \in Nat
  BY FS_CardinalityType, CachedAssumption DEF PrefetchInv, Manned
<1>7. \A q \in Orgs : pc'[q] = "unborn" <=> pc[q] = "unborn"
  BY <1>2, <1>3, <1>4 DEF PrefetchInv, Manned, PcType
<1>8. \A q \in Orgs : Assigned(q)'
  <2> SUFFICES ASSUME NEW q \in Orgs PROVE Assigned(q)'
    OBVIOUS
  <2>1. CASE q # o
    BY <1>1, <1>2, <1>4, <2>1 DEF PrefetchInv, Assigned, Ahead, Answered
  <2>2. CASE q = o
    <3>1. plan[o] = <<>> /\ pc[o] # "unborn"
      BY <1>3 DEF PrefetchInv, Assigned
    <3> QED BY <1>1, <2>2, <3>1 DEF PrefetchInv, Assigned, Ahead, Answered
  <2> QED BY <2>1, <2>2
<1>9. Listed(Nothing)' = Listed(Nothing) /\ Crew' = Crew
  BY <1>1 DEF Listed, Crew
<1>10. CASE pc[o] = "ready"
  <2>1. pc'[o] = "leave"
    BY <1>2, <1>3, <1>10 DEF PrefetchInv, Manned, PcType
  <2>2. AtWork' = AtWork \ {o} /\ o \in AtWork /\ Present' = Present
    BY <1>2, <1>4, <1>10, <2>1 DEF AtWork, Present
  <2>3. IsFiniteSet(AtWork') /\ Cardinality(AtWork') = Cardinality(AtWork) - 1
    BY <2>2, FS_RemoveElement DEF PrefetchInv, Manned
  <2>4. Manned'
    BY <1>1, <1>3, <1>5, <1>6, <1>7, <1>9, <1>10, <2>2, <2>3 DEF PrefetchInv, Manned
  <2> QED BY <1>8, <2>4 DEF PrefetchInv
<1>11. CASE pc[o] = "leave"
  <2>1. pc'[o] = "gone"
    BY <1>2, <1>3, <1>11 DEF PrefetchInv, Manned, PcType
  <2>2. Present' = Present \ {o} /\ o \in Present /\ AtWork' = AtWork
    BY <1>2, <1>4, <1>11, <2>1 DEF AtWork, Present
  <2>3. IsFiniteSet(Present') /\ Cardinality(Present') = Cardinality(Present) - 1
    BY <2>2, FS_RemoveElement DEF PrefetchInv, Manned
  <2>4. stage # "warm"
    BY <2>2, FS_EmptySet DEF PrefetchInv, Manned
  <2>5. Manned'
    BY <1>1, <1>3, <1>5, <1>6, <1>7, <1>9, <1>11, <2>2, <2>3, <2>4 DEF PrefetchInv, Manned
  <2> QED BY <1>8, <2>5 DEF PrefetchInv
<1> QED BY <1>3, <1>10, <1>11

LEMMA StagePrefetch ==
  ASSUME PrefetchInv, Typed, SpawnOrder, PrefetchList \/ Wait \/ Change \/ UNCHANGED vars
  PROVE  PrefetchInv'
<1>1. UNCHANGED <<pc, got, spawned, sem, wg>>
  BY DEF PrefetchList, Wait, Change, vars, cacheVars, prefetchVars
<1>2. \A o \in Orgs : plan'[o] = plan[o]
  <2>1. plan' = plan \/ \E p \in Plans : plan' = [plan EXCEPT ![Main] = p]
    BY DEF PrefetchList, Wait, Change, ThenRules, vars, cacheVars
  <2>2. \A o \in Orgs : o \in Goroutines /\ o # Main
    BY CachedAssumption DEF Goroutines
  <2> QED BY <2>1, <2>2 DEF Typed
<1>3. \A o \in Orgs : Assigned(o)'
  BY <1>1, <1>2 DEF PrefetchInv, Assigned, Ahead, Answered
<1>4. /\ Present' = Present /\ AtWork' = AtWork /\ Crew' = Crew
      /\ Listed(Nothing)' = Listed(Nothing)
  BY <1>1 DEF Present, AtWork, Crew, Listed
<1>5. /\ stage' \in {"list", "spawn", "wait", "warm"}
      /\ stage' = "wait" => spawned = Len(OrgList)
      /\ stage' = "warm" => wg = 0 /\ (Listed(Nothing) \/ spawned = Len(OrgList))
  <2>1. CASE PrefetchList
    <3>1. wg = 0
      <4>1. Crew = {}
        BY <2>1 DEF PrefetchList, SpawnOrder, Crew
      <4>2. Present = {}
        BY <4>1 DEF PrefetchInv, Manned, Present
      <4> QED BY <4>2, FS_EmptySet DEF PrefetchInv, Manned
    <3>2. OrgList = <<>> => spawned = Len(OrgList)
      BY <2>1 DEF PrefetchList, SpawnOrder
    <3> QED BY <2>1, <3>1, <3>2 DEF PrefetchList
  <2>2. CASE Wait
    BY <2>2 DEF Wait, PrefetchInv, Manned
  <2>3. CASE stage' = stage
    BY <2>3 DEF PrefetchInv, Manned
  <2> QED BY <2>1, <2>2, <2>3 DEF Change, vars, prefetchVars
<1>6. Manned'
  BY <1>1, <1>4, <1>5 DEF PrefetchInv, Manned, PcType
<1> QED BY <1>3, <1>6 DEF PrefetchInv

LEMMA StepPrefetch ==
  PrefetchInv /\ Typed /\ CacheInv /\ SpawnOrder /\ [Next]_vars => PrefetchInv'
<1> SUFFICES ASSUME PrefetchInv, Typed, CacheInv, SpawnOrder, [Next]_vars
             PROVE  PrefetchInv'
  OBVIOUS
<1>1. ASSUME NEW g \in Goroutines,
             Begin(g) \/ Lock(g) \/ Look(g) \/ Create(g) \/ OnceFirst(g) \/ OnceLater(g) \/ Ask(g)
      PROVE  PrefetchInv'
  BY <1>1, ReadPrefetch DEF Read
<1>2. CASE Spawn
  BY <1>2, SpawnPrefetch
<1>3. ASSUME NEW o \in Orgs, Release(o) \/ Leave(o) PROVE PrefetchInv'
  BY <1>3, EndPrefetch
<1>4. CASE PrefetchList \/ Wait \/ Change \/ UNCHANGED vars
  BY <1>4, StagePrefetch
<1> QED BY <1>1, <1>2, <1>3, <1>4 DEF Next

LEMMA TypedHolds == Spec => []Typed
BY InitTyped, StepTyped, CacheInvHolds, SpawnOrderHolds, PTL DEF Spec

LEMMA PrefetchHolds == Spec => []PrefetchInv
BY InitPrefetch, StepPrefetch, TypedHolds, CacheInvHolds, SpawnOrderHolds, PTL DEF Spec

(* However many organizations, Prefetch never has more than Concurrency    *)
(* reads in flight.                                                        *)
THEOREM Bounded == Spec => []WorkersBounded
<1>1. PrefetchInv => WorkersBounded
  BY DEF PrefetchInv, Manned, WorkersBounded
<1> QED BY <1>1, PrefetchHolds, PTL

(* When it has returned, all its workers are gone and their reads are in   *)
(* the cache.                                                              *)
THEOREM Warm == Spec => []WarmMeansWarm
<1>1. PrefetchInv /\ CacheInv => WarmMeansWarm
  <2> SUFFICES ASSUME PrefetchInv, CacheInv, stage = "warm", ~Listed(Nothing),
                      NEW i \in DOMAIN OrgList
               PROVE  /\ pc[OrgList[i]] = "gone"
                      /\ \A k \in {Settings[OrgList[i]], Repos[OrgList[i]]} :
                           slot[k] # Nobody /\ once[slot[k]][k] = "done"
    BY DEF WarmMeansWarm
  <2> DEFINE o == OrgList[i]
  <2>1. o \in Orgs /\ i \in 1..Len(OrgList)
    BY CachedAssumption
  <2>2. o \in Crew
    BY <2>1 DEF PrefetchInv, Manned, Crew
  <2>3. Present = {}
    BY FS_EmptySet DEF PrefetchInv, Manned
  <2>4. pc[o] = "gone"
    BY <2>1, <2>2, <2>3 DEF PrefetchInv, Manned, Present
  <2>5. plan[o] = <<>>
    BY <2>1, <2>4 DEF PrefetchInv, Assigned
  <2>6. ASSUME NEW k \in {Settings[o], Repos[o]}
        PROVE  slot[k] # Nobody /\ once[slot[k]][k] = "done"
    <3>1. Answered(k)
      BY <2>1, <2>4, <2>5 DEF PrefetchInv, Assigned, Ahead
    <3>2. k \in Cacheable
      BY <2>1, CachedAssumption DEF Cacheable
    <3> QED BY <3>1, <3>2 DEF Answered, CacheInv, FromTheEntry, OnceOf
  <2> QED BY <2>4, <2>6
<1> QED BY <1>1, PrefetchHolds, CacheInvHolds, PTL

-----------------------------------------------------------------------------
(* Nobody leaves with what others need: who holds the mutex is in the map, *)
(* a Once that is running has somebody who asks, and only workers leave.   *)
Attended ==
  /\ mu # Nobody => pc[mu] \in {"look", "create"}
  /\ \A h \in Goroutines, k \in Keys : once[h][k] = "running" =>
       \E g \in Goroutines : pc[g] = "ask" /\ ref[g] = h /\ Req(g).key = k
  /\ \A g \in Goroutines \ Orgs : pc[g] \in Busy

LEMMA InitAttended == Init => Attended
<1> SUFFICES ASSUME Init PROVE Attended
  OBVIOUS
<1>1. mu = Nobody
  BY DEF Init
<1>2. \A h \in Goroutines, k \in Keys : once[h][k] # "running"
  BY DEF Init
<1>3. \A g \in Goroutines \ Orgs : pc[g] = "ready"
  BY DEF Init
<1> QED BY <1>1, <1>2, <1>3 DEF Attended, Busy

(* A goroutine that is not asking, and does not begin to, leaves the others*)
(* to ask as they did.                                                     *)
LEMMA OthersAttend ==
  ASSUME CacheInv, Attended, NEW g \in Goroutines, pc[g] # "ask",
         \A h \in Goroutines \ {g} : pc'[h] = pc[h] /\ plan'[h] = plan[h] /\ ref'[h] = ref[h],
         NEW h \in Goroutines, NEW k \in Keys, once[h][k] = "running"
  PROVE  \E i \in Goroutines : pc'[i] = "ask" /\ ref'[i] = h /\ Req(i)'.key = k
<1>1. PICK i \in Goroutines : pc[i] = "ask" /\ ref[i] = h /\ Req(i).key = k
  BY DEF Attended
<1>2. pc'[i] = "ask" /\ ref'[i] = h /\ Req(i)' = Req(i)
  BY <1>1 DEF Req
<1> QED BY <1>1, <1>2

LEMMA ReadAttended ==
  ASSUME CacheInv, Typed, PcType, Attended, NEW g \in Goroutines, Read(g)
  PROVE  Attended'
<1> USE DEF CacheInv, Shapes
<1>1. /\ pc'[g] \in Busy
      /\ \A h \in Goroutines \ {g} : pc'[h] = pc[h] /\ plan'[h] = plan[h] /\ ref'[h] = ref[h]
  <2>1. ASSUME NEW a, Finish(g, a), ref' = ref
        PROVE  /\ pc'[g] \in Busy
               /\ \A h \in Goroutines \ {g} :
                    pc'[h] = pc[h] /\ plan'[h] = plan[h] /\ ref'[h] = ref[h]
    BY <2>1 DEF Finish, Busy
  <2>2. CASE Begin(g)
    BY <2>1, <2>2 DEF Begin, Busy
  <2>3. CASE Lock(g) \/ Look(g) \/ Create(g) \/ OnceFirst(g)
    BY <2>3 DEF Lock, Look, Create, OnceFirst, Busy
  <2>4. CASE OnceLater(g) \/ Ask(g)
    BY <2>1, <2>4 DEF OnceLater, Ask
  <2> QED BY <2>2, <2>3, <2>4 DEF Read
<1>2. \A h \in Goroutines \ Orgs : pc'[h] \in Busy
  BY <1>1 DEF Attended
<1>3. mu' # Nobody => pc'[mu'] \in {"look", "create"}
  <2>1. CASE Lock(g)
    BY <2>1, CachedAssumption DEF Lock
  <2>2. CASE Look(g)
    BY <2>2 DEF Look, MutexHeld, Attended
  <2>3. CASE Create(g)
    BY <2>3 DEF Create
  <2>4. CASE Begin(g) \/ OnceFirst(g) \/ OnceLater(g) \/ Ask(g)
    <3>1. mu' = mu /\ pc[g] \notin {"look", "create"}
      BY <2>4 DEF Begin, OnceFirst, OnceLater, Ask
    <3> QED BY <1>1, <3>1 DEF Attended
  <2> QED BY <2>1, <2>2, <2>3, <2>4 DEF Read
<1>4. ASSUME NEW h \in Goroutines, NEW k \in Keys, once'[h][k] = "running"
      PROVE  \E i \in Goroutines : pc'[i] = "ask" /\ ref'[i] = h /\ Req(i)'.key = k
  <2>1. CASE Begin(g) \/ Lock(g) \/ Look(g) \/ OnceLater(g)
    <3>1. once' = once /\ pc[g] # "ask"
      BY <2>1 DEF Begin, Lock, Look, OnceLater
    <3> QED BY <1>1, <1>4, <3>1, OthersAttend
  <2>2. CASE Create(g)
    <3>1. once[h][k] = "running" /\ pc[g] # "ask"
      BY <1>4, <2>2 DEF Create
    <3> QED BY <1>1, <3>1, OthersAttend
  <2>3. CASE OnceFirst(g)
    <3>1. /\ pc'[g] = "ask" /\ ref' = ref /\ Req(g)' = Req(g) /\ pc[g] = "once"
          /\ once' = [once EXCEPT ![ref[g]][Req(g).key] = "running"]
      BY <2>3 DEF OnceFirst, Req
    <3>2. CASE h = ref[g] /\ k = Req(g).key
      BY <3>1, <3>2
    <3>3. CASE ~(h = ref[g] /\ k = Req(g).key)
      <4>1. once[h][k] = "running"
        BY <1>4, <3>1, <3>3
      <4> QED BY <1>1, <3>1, <4>1, OthersAttend
    <3> QED BY <3>2, <3>3
  <2>4. CASE Ask(g)
    <3>1. once[h][k] = "running" /\ ~(ref[g] = h /\ Req(g).key = k)
      <4>1. CASE Req(g).key \in PassKeys
        <5>1. once' = once
          BY <2>4, <4>1 DEF Ask
        <5> QED BY <1>4, <4>1, <5>1, CachedAssumption
      <4>2. CASE Req(g).key \notin PassKeys
        <5>1. once' = [once EXCEPT ![ref[g]][Req(g).key] = "done"]
          BY <2>4, <4>2 DEF Ask
        <5>2. ref[g] \in Goroutines /\ Req(g).key \in Keys
          BY <2>4, <4>2, CachedAssumption DEF Ask, Underway, HasEntry, Cacheable
        <5> QED BY <1>4, <5>1, <5>2
      <4> QED BY <4>1, <4>2
    <3>2. PICK i \in Goroutines : pc[i] = "ask" /\ ref[i] = h /\ Req(i).key = k
      BY <3>1 DEF Attended
    <3>3. i # g
      BY <3>1, <3>2
    <3>4. pc'[i] = "ask" /\ ref'[i] = h /\ Req(i)' = Req(i)
      BY <1>1, <3>2, <3>3 DEF Req
    <3> QED BY <3>2, <3>4
  <2> QED BY <2>1, <2>2, <2>3, <2>4 DEF Read
<1> QED BY <1>2, <1>3, <1>4 DEF Attended

(* What Prefetch does it does between reads, to Main and its workers.      *)
LEMMA OutsideAttended ==
  ASSUME CacheInv, Attended,
         UNCHANGED <<mu, once, ref>>,
         \A h \in Goroutines :
           \/ pc'[h] = pc[h] /\ (pc[h] = "ask" => plan'[h] = plan[h])
           \/ pc[h] \in Outside /\ h \in Orgs
  PROVE  Attended'
<1>1. mu' # Nobody => pc'[mu'] \in {"look", "create"}
  BY DEF CacheInv, Shapes, Attended, Outside
<1>2. ASSUME NEW h \in Goroutines, NEW k \in Keys, once'[h][k] = "running"
      PROVE  \E i \in Goroutines : pc'[i] = "ask" /\ ref'[i] = h /\ Req(i)'.key = k
  <2>1. PICK i \in Goroutines : pc[i] = "ask" /\ ref[i] = h /\ Req(i).key = k
    BY <1>2 DEF Attended
  <2>2. pc'[i] = "ask" /\ ref'[i] = h /\ Req(i)' = Req(i)
    BY <2>1 DEF Req, Outside
  <2> QED BY <2>1, <2>2
<1>3. \A h \in Goroutines \ Orgs : pc'[h] \in Busy
  BY DEF Attended
<1> QED BY <1>1, <1>2, <1>3 DEF Attended

LEMMA StepAttended ==
  PrefetchInv /\ Typed /\ CacheInv /\ SpawnOrder /\ Attended /\ [Next]_vars => Attended'
<1> SUFFICES ASSUME PrefetchInv, Typed, CacheInv, SpawnOrder, Attended, [Next]_vars
             PROVE  Attended'
  OBVIOUS
<1> USE DEF PrefetchInv, Manned
<1>1. ASSUME NEW g \in Goroutines,
             Begin(g) \/ Lock(g) \/ Look(g) \/ Create(g) \/ OnceFirst(g) \/ OnceLater(g) \/ Ask(g)
      PROVE  Attended'
  BY <1>1, ReadAttended DEF Read
<1>2. CASE Spawn
  <2>1. OrgList[spawned + 1] \in Orgs /\ pc[OrgList[spawned + 1]] = "unborn"
    BY <1>2, SpawnsUnborn
  <2>2. /\ UNCHANGED <<mu, once, ref>>
        /\ pc' = [pc EXCEPT ![OrgList[spawned + 1]] = "ready"]
        /\ plan' = [plan EXCEPT ![OrgList[spawned + 1]] = Mission(OrgList[spawned + 1])]
    BY <1>2 DEF Spawn
  <2>3. \A h \in Goroutines : \/ pc'[h] = pc[h] /\ (pc[h] = "ask" => plan'[h] = plan[h])
                              \/ pc[h] \in Outside /\ h \in Orgs
    BY <2>1, <2>2 DEF CacheInv, Shapes, Outside
  <2> QED BY <2>2, <2>3, OutsideAttended
<1>3. ASSUME NEW o \in Orgs, Release(o) \/ Leave(o) PROVE Attended'
  <2>1. /\ UNCHANGED <<mu, once, ref, plan>>
        /\ pc[o] \in Outside
        /\ pc' = [pc EXCEPT ![o] = "leave"] \/ pc' = [pc EXCEPT ![o] = "gone"]
    BY <1>3 DEF Release, Leave, Between, Outside
  <2>2. \A h \in Goroutines : \/ pc'[h] = pc[h] /\ (pc[h] = "ask" => plan'[h] = plan[h])
                              \/ pc[h] \in Outside /\ h \in Orgs
    BY <2>1 DEF CacheInv, Shapes
  <2> QED BY <2>1, <2>2, OutsideAttended
<1>4. CASE PrefetchList \/ Wait
  <2>1. /\ UNCHANGED <<mu, once, ref, pc>>
        /\ pc[Main] = "ready"
        /\ \A h \in Goroutines \ {Main} : plan'[h] = plan[h]
    BY <1>4 DEF PrefetchList, Wait, ThenRules, Between, CacheInv, Shapes
  <2> QED BY <2>1, OutsideAttended
<1>5. CASE Change \/ UNCHANGED vars
  BY <1>5, OutsideAttended DEF Change, vars, cacheVars
<1> QED BY <1>1, <1>2, <1>3, <1>4, <1>5 DEF Next

LEMMA AttendedHolds == Spec => []Attended
BY InitAttended, StepAttended, PrefetchHolds, TypedHolds, CacheInvHolds, SpawnOrderHolds, PTL
   DEF Spec

(* Who waits for the mutex or a Once waits for somebody who goes on.       *)
LEMMA ReadersGoOn ==
  ASSUME CacheInv, PcType, Attended, NEW g \in Goroutines, Waits(g),
         pc[g] \in {"lock", "once"}
  PROVE  \E h \in Goroutines : WaitsFor(g, h) /\ Goes(h)
<1>1. CASE pc[g] = "lock"
  <2>1. mu \in Goroutines /\ pc[mu] \in {"look", "create"}
    BY <1>1 DEF Waits, Between, Attended, CacheInv, Shapes
  <2>2. Goes(mu)
    BY <2>1 DEF Goes, Waits, Through, Between
  <2> QED BY <1>1, <2>1, <2>2 DEF WaitsFor
<1>2. CASE pc[g] = "once"
  <2>1. ref[g] \in Goroutines /\ Req(g).key \in Keys /\ once[ref[g]][Req(g).key] = "running"
    BY <1>2 DEF Waits, Between, CacheInv, Shapes, Underway, HasEntry, Cacheable
  <2>2. PICK h \in Goroutines : pc[h] = "ask" /\ ref[h] = ref[g] /\ Req(h).key = Req(g).key
    BY <2>1 DEF Attended
  <2>3. Goes(h)
    BY <2>2 DEF Goes, Waits, Through, Between
  <2> QED BY <1>2, <2>2, <2>3 DEF WaitsFor
<1> QED BY <1>1, <1>2

(* Neither the mutex, nor a Once, nor the semaphore, nor the WaitGroup nor *)
(* any mixture of them ever brings the goroutines to a halt, however many  *)
(* there are and whatever they read.                                       *)
THEOREM DeadlockFree == Spec => []NoDeadlock
<1>1. PrefetchInv /\ CacheInv /\ Attended => NoDeadlock
  <2> SUFFICES ASSUME PrefetchInv, CacheInv, Attended, NEW g \in Goroutines, Waits(g)
               PROVE  \E h \in Goroutines :
                        WaitsFor(g, h)
                        /\ (Goes(h) \/ \E i \in Goroutines : WaitsFor(h, i) /\ Goes(i))
    BY DEF NoDeadlock
  <2> USE DEF PrefetchInv, Manned
  <2>1. CASE pc[g] \in {"lock", "once"}
    BY <2>1, ReadersGoOn
  <2>2. CASE pc[g] \notin {"lock", "once"}
    <3>1. /\ g = Main /\ Between(Main) /\ stage \in {"spawn", "wait"}
          /\ stage = "spawn" => sem >= Concurrency
          /\ stage = "wait" => wg > 0
      BY <2>2 DEF Waits
    <3>2. PICK o \in Orgs : WaitsFor(g, o) /\ pc[o] \notin {"unborn", "gone"}
      <4>1. CASE stage = "spawn"
        <5>1. AtWork # {}
          BY <3>1, <4>1, FS_EmptySet, CachedAssumption
        <5> QED BY <3>1, <4>1, <5>1 DEF AtWork, WaitsFor
      <4>2. CASE stage = "wait"
        <5>1. Present # {}
          BY <3>1, <4>2, FS_EmptySet
        <5> QED BY <3>1, <4>2, <5>1 DEF Present, WaitsFor
      <4> QED BY <3>1, <4>1, <4>2
    <3>3. o \in Goroutines /\ o # Main
      BY CachedAssumption DEF Goroutines
    <3>4. CASE Waits(o)
      <4>1. pc[o] \in {"lock", "once"}
        BY <3>3, <3>4 DEF Waits
      <4> QED BY <3>2, <3>3, <3>4, <4>1, ReadersGoOn
    <3>5. CASE ~Waits(o)
      <4>1. Goes(o)
        BY <3>2, <3>5 DEF Goes, Through
      <4> QED BY <3>2, <3>3, <4>1
    <3> QED BY <3>4, <3>5
  <2> QED BY <2>1, <2>2
<1> QED BY <1>1, PrefetchHolds, CacheInvHolds, AttendedHolds, PTL

-----------------------------------------------------------------------------
(* The types: what the goroutines got and the entries hold are answers.    *)
Honest == val \in [Goroutines -> [Keys -> Answer]] /\ got \subseteq Got

LEMMA NothingType == Nothing \in Answer
<1>1. 0 \in 0..MaxChanges
  BY CachedAssumption
<1> QED BY <1>1 DEF Nothing, Answer

LEMMA FinishHonest ==
  ASSUME Typed, got \subseteq Got, NEW g \in Goroutines, plan[g] # <<>>,
         NEW a \in Answer, Finish(g, a)
  PROVE  got' \subseteq Got
<1>1. plan[g] \in Seq(Request)
  BY DEF Typed
<1>2. Req(g) \in Request
  BY <1>1 DEF Req
<1>3. [by |-> g, req |-> Req(g), answer |-> a] \in Got
  BY <1>2 DEF Got
<1> QED BY <1>3 DEF Finish

LEMMA StepHonest ==
  Honest /\ Typed /\ CacheInv /\ [Next]_vars => Honest'
<1> SUFFICES ASSUME Honest, Typed, CacheInv, [Next]_vars PROVE Honest'
  OBVIOUS
<1>1. ASSUME UNCHANGED val, UNCHANGED got PROVE Honest'
  BY <1>1 DEF Honest
<1>2. ASSUME NEW g \in Goroutines, Begin(g) PROVE Honest'
  <2>1. CASE Req(g).key \notin Offered
    <3>1. Finish(g, Nothing) /\ plan[g] # <<>> /\ val' = val
      BY <1>2, <2>1 DEF Begin, Reading
    <3> QED BY <3>1, FinishHonest, NothingType DEF Honest
  <2>2. CASE Req(g).key \in Offered
    BY <1>1, <1>2, <2>2 DEF Begin
  <2> QED BY <2>1, <2>2
<1>3. ASSUME NEW g \in Goroutines, OnceLater(g) PROVE Honest'
  <2>1. Finish(g, val[ref[g]][Req(g).key]) /\ plan[g] # <<>> /\ val' = val
    BY <1>3 DEF OnceLater, CacheInv, Underway
  <2>2. Req(g).key \in Keys /\ ref[g] \in Goroutines
    BY <1>3 DEF OnceLater, CacheInv, Underway, Cacheable, HasEntry, Shapes
  <2>3. val[ref[g]][Req(g).key] \in Answer
    BY <2>2 DEF Honest
  <2> QED BY <2>1, <2>3, FinishHonest DEF Honest
<1>4. ASSUME NEW g \in Goroutines, Ask(g) PROVE Honest'
  <2>1. PICK a \in Replies(Req(g)) :
          /\ Finish(g, a)
          /\ IF Req(g).key \in PassKeys
             THEN UNCHANGED <<once, val>>
             ELSE /\ val' = [val EXCEPT ![ref[g]][Req(g).key] = a]
                  /\ once' = [once EXCEPT ![ref[g]][Req(g).key] = "done"]
    BY <1>4 DEF Ask
  <2>2. plan[g] # <<>>
    BY <1>4 DEF Ask, CacheInv, Underway
  <2>3. a \in Answer
    BY <2>1, <2>2, RepliesType
  <2>4. got' \subseteq Got
    BY <2>1, <2>2, <2>3, FinishHonest DEF Honest
  <2>5. val' \in [Goroutines -> [Keys -> Answer]]
    BY <2>1, <2>3 DEF Honest
  <2> QED BY <2>4, <2>5 DEF Honest
<1>5. ASSUME NEW g \in Goroutines, Lock(g) \/ Look(g) \/ Create(g) \/ OnceFirst(g)
      PROVE  Honest'
  BY <1>1, <1>5 DEF Lock, Look, Create, OnceFirst
<1>6. CASE PrefetchList \/ Spawn \/ Wait \/ Change \/ UNCHANGED vars
  BY <1>1, <1>6 DEF PrefetchList, Spawn, Wait, Change, vars, cacheVars
<1>7. CASE \E o \in Orgs : Release(o) \/ Leave(o)
  BY <1>1, <1>7 DEF Release, Leave
<1> QED BY <1>2, <1>3, <1>4, <1>5, <1>6, <1>7 DEF Next

(* The types hold, for any goroutines, keys and plans.                     *)
THEOREM TypeCorrect == Spec => []TypeOK
<1>1. Init => Honest
  BY NothingType DEF Init, Honest
<1>2. Spec => []Honest
  BY <1>1, StepHonest, TypedHolds, CacheInvHolds, PTL DEF Spec
<1>3. Honest /\ Typed /\ CacheInv /\ SpawnOrder /\ PrefetchInv => TypeOK
  <2> SUFFICES ASSUME Honest, Typed, CacheInv, SpawnOrder, PrefetchInv PROVE TypeOK
    OBVIOUS
  <2>1. sem \in Nat /\ wg \in Nat
    BY FS_CardinalityType DEF PrefetchInv, Manned
  <2>2. pc \in [Goroutines -> {"unborn", "ready", "lock", "look", "create", "once",
                               "ask", "leave", "gone"}]
    BY DEF PrefetchInv, Manned, PcType, Busy
  <2>3. stage \in {"list", "spawn", "wait", "warm"}
    BY DEF PrefetchInv, Manned
  <2> QED BY <2>1, <2>2, <2>3 DEF Honest, Typed, CacheInv, Shapes, SpawnOrder, TypeOK
<1> QED BY <1>2, <1>3, TypedHolds, CacheInvHolds, SpawnOrderHolds, PrefetchHolds, PTL
=============================================================================
