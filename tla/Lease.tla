---------------------------------- MODULE Lease ----------------------------------
(***************************************************************************)
(* What an authenticated client promises: holders share one credential,    *)
(* which is replaced only when it is nearly out; a holder works under what *)
(* it took at the start, a limited number of times and only while that is  *)
(* good.  Where a replacement comes from, who waits for it, and why a      *)
(* holder uses what it has more than once is left to RestClient.           *)
(***************************************************************************)
EXTENDS Integers

CONSTANTS
  Holders,
  Nothing,   \* no credential
  Fresh,     \* what a credential may be when it is new
  Margin,    \* with no more than that left it is replaced
  Uses       \* how often a holder may use what it has

VARIABLES
  lease,     \* the shared credential
  held,      \* what a holder works under
  used       \* how often it has used that

leaseVars == <<lease, held, used>>

(* A guessed date says nothing of how long the credential is good.         *)
Good(t) == t.real > 0 \/ t.guessed

Older(t) ==
  LET Less(n) == IF n = 0 THEN 0 ELSE n - 1
  IN  [left |-> Less(t.left), real |-> Less(t.real), guessed |-> t.guessed]

LeaseInit ==
  /\ lease = Nothing
  /\ held = [h \in Holders |-> Nothing]
  /\ used = [h \in Holders |-> 0]

Begin(h) ==
  /\ held' = [held EXCEPT ![h] = Nothing]
  /\ used' = [used EXCEPT ![h] = 0]
  /\ UNCHANGED lease

Borrow(h) ==
  /\ held[h] = Nothing /\ used[h] = 0
  /\ lease.left > Margin
  /\ held' = [held EXCEPT ![h] = lease]
  /\ UNCHANGED <<lease, used>>

Renew(h) ==
  /\ held[h] = Nothing /\ used[h] = 0
  /\ ~(lease.left > Margin)
  /\ lease' \in Fresh
  /\ held' = [held EXCEPT ![h] = lease']
  /\ UNCHANGED used

Use(h) ==
  /\ Good(held[h]) /\ used[h] < Uses
  /\ used' = [used EXCEPT ![h] = @ + 1]
  /\ UNCHANGED <<lease, held>>

Pass ==
  /\ lease' = Older(lease)
  /\ held' = [h \in Holders |-> Older(held[h])]
  /\ UNCHANGED used

LeaseNext == Pass \/ \E h \in Holders : Begin(h) \/ Borrow(h) \/ Renew(h) \/ Use(h)

LeaseSpec == LeaseInit /\ [][LeaseNext]_leaseVars
=============================================================================
