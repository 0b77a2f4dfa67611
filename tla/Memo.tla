---------------------------------- MODULE Memo ----------------------------------
(***************************************************************************)
(* What ghclient.Cached promises its callers: a read that is memoized is   *)
(* answered by GitHub once, and everybody who asks for it gets that        *)
(* answer, an error as well as a value.  How the promise is kept (a mutex, *)
(* an entry per key, sync.Once) is module Cached.                          *)
(***************************************************************************)
EXTENDS Naturals

CONSTANTS
  Keys,       \* the memoized reads
  Callers,    \* the goroutines that share the cache
  Answer      \* what GitHub may answer

VARIABLES
  memo,       \* the answer of a key, {} before GitHub gave it
  served      \* history: who got which answer for which key

memoVars == <<memo, served>>

Serving == [by: Callers, key: Keys, answer: Answer]

MemoInit ==
  /\ memo = [k \in Keys |-> {}]
  /\ served = {}

(* GitHub is asked about a key nobody knows, and whoever asked is served.  *)
Learn(g, k, a) ==
  /\ memo[k] = {}
  /\ memo' = [memo EXCEPT ![k] = {a}]
  /\ served' = served \cup {[by |-> g, key |-> k, answer |-> a]}

Recall(g, k) ==
  /\ \E a \in memo[k] : served' = served \cup {[by |-> g, key |-> k, answer |-> a]}
  /\ UNCHANGED memo

MemoNext ==
  \E g \in Callers, k \in Keys :
    \/ \E a \in Answer : Learn(g, k, a)
    \/ Recall(g, k)

MemoSpec == MemoInit /\ [][MemoNext]_memoVars
=============================================================================
