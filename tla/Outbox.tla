--------------------------------- MODULE Outbox ---------------------------------
(***************************************************************************)
(* What a series of mailings promises, each of which may be killed at any  *)
(* moment: a batch is fixed before the first of it goes out and, if a      *)
(* shelf is kept, is on the shelf by then; it goes out in order, each      *)
(* member once at most, and nothing after one that failed; and what has    *)
(* gone out is not forgotten.  Who belongs to a batch, and what is read to *)
(* tell, is left to IdentityCampaign.                                      *)
(***************************************************************************)
EXTENDS Integers

CONSTANTS
  Items,
  Before(_, _)   \* the order of a batch

VARIABLES
  keeps,      \* whether a shelf is kept
  round,      \* the number of mailings begun
  phase,      \* of the latest one
  batch,      \* what it has to deliver
  waiting,    \* what of it has not been come to
  shelf,      \* the batch on record
  fault,      \* whether one of it failed
  delivered   \* what was delivered, and in which mailing

outboxVars == <<keeps, round, phase, batch, waiting, shelf, fault, delivered>>

OutboxInit ==
  /\ keeps \in BOOLEAN
  /\ round = 0 /\ phase = "over" /\ ~fault
  /\ batch = {} /\ waiting = {} /\ shelf = {} /\ delivered = {}

NewRound ==
  /\ phase = "over" /\ phase' = "filling"
  /\ round' = round + 1
  /\ batch' = {} /\ waiting' = {} /\ ~fault'
  /\ UNCHANGED <<keeps, shelf, delivered>>

Seal ==
  /\ phase = "filling" /\ phase' \in {"sealed", "over"}
  /\ batch' \subseteq Items /\ waiting' = batch'
  /\ UNCHANGED <<keeps, round, shelf, fault, delivered>>

(* A batch that cannot be put on the shelf may leave it empty.             *)
Shelve ==
  /\ phase = "sealed" /\ phase' \in {"mailing", "over"}
  /\ IF keeps THEN shelf' \in {batch, shelf, {}} ELSE shelf' = shelf
  /\ phase' = "mailing" /\ keeps => shelf' = batch
  /\ UNCHANGED <<keeps, round, batch, waiting, fault, delivered>>

(* The next one is delivered, passed over, or fails, in which case it may  *)
(* have been delivered all the same.                                       *)
Deliver ==
  /\ phase = "mailing"
  /\ \E i \in waiting :
       /\ \A j \in waiting : Before(i, j)
       /\ keeps => i \in shelf
       /\ <<round, i>> \notin delivered
       /\ \A d \in delivered : d[1] = round => Before(d[2], i)
       /\ waiting' = waiting \ {i}
       /\ delivered' \in {delivered, delivered \cup {<<round, i>>}}
  /\ fault' \in BOOLEAN
  /\ phase' = IF fault' THEN "over" ELSE "mailing"
  /\ UNCHANGED <<keeps, round, batch, shelf>>

Close ==
  /\ phase = "mailing" /\ waiting = {} /\ phase' = "over"
  /\ UNCHANGED <<keeps, round, batch, waiting, shelf, fault, delivered>>

Crash ==
  /\ phase # "over" /\ phase' = "over"
  /\ batch' = {} /\ waiting' = {} /\ ~fault'
  /\ UNCHANGED <<keeps, round, shelf, delivered>>

OutboxNext == NewRound \/ Seal \/ Shelve \/ Deliver \/ Close \/ Crash

OutboxSpec == OutboxInit /\ [][OutboxNext]_outboxVars
=============================================================================
