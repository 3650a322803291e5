-------------------------- MODULE SubscriptionLedger --------------------------
(***************************************************************************)
(* What the rest of the system relies on of BlockhostSubscriptions.sol: a  *)
(* subscription is bought once, under the next free id, may be extended    *)
(* while it is not cancelled, and is cancelled at most once; each of these *)
(* appends one event to the chain's log.                                   *)
(*                                                                         *)
(* Money, plans, payment methods and time are absent here.  One event per  *)
(* block: the block number is the event's position in evlog.               *)
(***************************************************************************)
EXTENDS Wallets, Sequences

CONSTANT MaxEvents  \* bound: length of the event log

ASSUME LedgerAssumption == MaxEvents \in Nat

EventType == {"Created", "Extended", "Cancelled"}
Event == [type : EventType, sub : Sub, who : Owner]

VARIABLES
  subState,   \* per subscription id: none, active (not cancelled), cancelled
  subscriber, \* per subscription id: the wallet that bought it
  evlog       \* the events emitted so far, oldest first

ledgerVars == <<subState, subscriber, evlog>>

LedgerTypeOK ==
  /\ subState \in [Sub -> {"none", "active", "cancelled"}]
  /\ subscriber \in [Sub -> Owner \cup {NoOwner}]
  /\ \A s \in Sub : subState[s] # "none" => subscriber[s] \in Owner
  /\ evlog \in Seq(Event)

LedgerInit ==
  /\ subState = [s \in Sub |-> "none"]
  /\ subscriber = [s \in Sub |-> NoOwner]
  /\ evlog = <<>>

Emit(type, s, u) ==
  /\ Len(evlog) < MaxEvents
  /\ evlog' = Append(evlog, [type |-> type, sub |-> s, who |-> u])

\* buySubscription: ids are handed out in order (nextSubscriptionId++).
BuySubscription(s, u) ==
  /\ subState[s] = "none"
  /\ \A r \in Sub : r < s => subState[r] # "none"
  /\ subState' = [subState EXCEPT ![s] = "active"]
  /\ subscriber' = [subscriber EXCEPT ![s] = u]
  /\ Emit("Created", s, u)

\* extendSubscription: anyone may extend, whether or not it has expired.
ExtendSubscription(s, u) ==
  /\ subState[s] = "active"
  /\ Emit("Extended", s, u)
  /\ UNCHANGED <<subState, subscriber>>

\* cancelSubscription: the contract owner only, once.
CancelSubscription(s) ==
  /\ subState[s] = "active"
  /\ subState' = [subState EXCEPT ![s] = "cancelled"]
  /\ Emit("Cancelled", s, subscriber[s])
  /\ UNCHANGED subscriber

LedgerNext ==
  \E s \in Sub :
    \/ \E u \in Owner : BuySubscription(s, u) \/ ExtendSubscription(s, u)
    \/ CancelSubscription(s)

LedgerSpec == LedgerInit /\ [][LedgerNext]_ledgerVars

-------------------------------------------------------------------------------
(* What a reader of the log alone may rely on. *)

EventsOf(s) == {i \in 1 .. Len(evlog) : evlog[i].sub = s}

(* The log tells what the table holds: the first event of a subscription,  *)
(* and no other, is its purchase and names the buyer; its cancellation is  *)
(* its last event; and what has no event was not bought or not cancelled.  *)
(* (The emits of BlockhostSubscriptions.sol, which the monitor lives by.)  *)
LogTells ==
  \A s \in Sub :
    /\ subState[s] = "none" <=> EventsOf(s) = {}
    /\ subState[s] = "cancelled" <=> \E i \in EventsOf(s) : evlog[i].type = "Cancelled"
    /\ \A i, j \in EventsOf(s) :
         /\ evlog[i].type = "Created" => i <= j /\ evlog[i].who = subscriber[s]
         /\ evlog[i].type = "Cancelled" => j <= i
    /\ \A i \in EventsOf(s) : (\A j \in EventsOf(s) : i <= j) => evlog[i].type = "Created"

===============================================================================
