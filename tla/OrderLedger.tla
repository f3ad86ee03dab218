---------------------------- MODULE OrderLedger ----------------------------
(***************************************************************************)
(* The durable side of the order management system: the vocabulary of an   *)
(* order's life (oms/oms.py:111-125), the events OMS appends to its ledger *)
(* and what a replay of one event does to a state that is being rebuilt    *)
(* (oms/oms.py:793-895).  No variables: OMS.tla holds the state.           *)
(*                                                                         *)
(* Prices, timestamps and wording are left out.  Order ids name their      *)
(* request: side, kind, symbol and quantity are a function of the id.      *)
(***************************************************************************)
EXTENDS Integers, Sequences, FiniteSets

CONSTANTS
  Orders,        \* order ids
  Symbols,       \* instrument symbols
  Keys,          \* idempotency keys
  ExecutionIds,  \* execution ids the broker may put on a fill
  NoOrder,       \* "no order": dict.get() found nothing
  NoKey,         \* a submission without an idempotency key
  NoExecution,   \* a fill without an execution id
  FillQuantities,\* quantities the broker reports; 0 is a malformed fill
  Request        \* order id -> what the order asks for

ASSUME OrdersAssumption ==
  /\ NoOrder \notin Orders
  /\ NoKey \notin Keys
  /\ NoExecution \notin ExecutionIds
  /\ FillQuantities \subseteq Nat
  /\ ExecutionIds \cap (Orders \X FillQuantities) = {}

ASSUME RequestAssumption ==
  Request \in [Orders -> [side : {"BUY", "SELL"}, stop : BOOLEAN,
                          symbol : Symbols, quantity : Nat \ {0}]]

Quantity(o) == Request[o].quantity
SymbolOf(o) == Request[o].symbol

\* A stop-loss: the only kind of order link_protective_order accepts.
IsStopLoss(o) == Request[o].side = "SELL" /\ Request[o].stop

-----------------------------------------------------------------------------
(* The lifecycle.  "NONE" says that the id is not a key of oms.orders.       *)

Terminal == {"FILLED", "CANCELED", "REJECTED", "EXPIRED"}
Fillable == {"OPEN", "PARTIALLY_FILLED"}
Cancellable == {"SUBMITTED", "ACCEPTED"} \cup Fillable
Lifecycle == {"NONE", "RECEIVED"} \cup Cancellable \cup Terminal

(* The identity under which a fill is remembered: its execution id or, when  *)
(* the broker sent none, one made of everything else the fill says.          *)
Identities == ExecutionIds \cup (Orders \X FillQuantities)
Identity(o, q, x) == IF x = NoExecution THEN <<o, q>> ELSE x

-----------------------------------------------------------------------------
(* Ledger entries.                                                           *)

FillEvents == {"ORDER_FILLED", "ORDER_PARTIAL_FILL"}
FillIncidents == {"UNKNOWN_ORDER_FILL", "DUPLICATE_FILL_DETECTED", "LATE_FILL_DETECTED",
                  "OUT_OF_ORDER_FILL", "INVALID_FILL_REJECTED", "OVERFILL_REJECTED",
                  "PROTECTIVE_ORDER_MISSING"}
StatusEvents == {"ORDER_ACCEPTED", "ORDER_OPEN", "ORDER_CANCELED"}
BirthEvents == {"ORDER_SUBMITTED", "ORDER_REPLACED"}
LinkEvents == {"PROTECTIVE_ORDER_LINKED", "PROTECTIVE_ORDER_UNLINKED"}
NoteEvents == {"ORDER_REPLACE_COMPENSATED", "REPLAY_GAP"} \cup FillIncidents

Entry ==
  [event : BirthEvents, order : Orders, key : Keys \cup {NoKey}, group : Orders]
    \cup [event : StatusEvents, order : Orders]
    \cup [event : FillEvents, order : Orders, quantity : Nat, fill_quantity : Nat,
          execution : Identities]
    \cup [event : LinkEvents, symbol : Symbols, order : Orders]
    \cup [event : NoteEvents, order : Orders]

BirthEvent(kind, o, k, g) == [event |-> kind, order |-> o, key |-> k, group |-> g]
OrderEvent(kind, o) == [event |-> kind, order |-> o]
\* Mutant of FillEvent: the entry's quantity is cumulative.
FillEventCumulative(kind, o, q, total, i) ==
  [event |-> kind, order |-> o, quantity |-> total, fill_quantity |-> total, execution |-> i]

FillEvent(kind, o, q, total, i) ==
  [event |-> kind, order |-> o, quantity |-> q, fill_quantity |-> total, execution |-> i]
LinkEvent(kind, s, o) == [event |-> kind, symbol |-> s, order |-> o]

-----------------------------------------------------------------------------
(* Replay.  A rebuilt state holds the dictionaries of OMS that the ledger    *)
(* restores; the timeouts are not among them.                                *)

Rebuilt ==
  [status : [Orders -> Lifecycle], filled : [Orders -> Nat],
   keys : [Keys -> Orders \cup {NoOrder}], groups : [Orders -> SUBSET Orders],
   applied : SUBSET Identities, links : [Symbols -> Orders \cup {NoOrder}],
   ledger : Seq(Entry)]

Blank ==
  [status |-> [o \in Orders |-> "NONE"], filled |-> [o \in Orders |-> 0],
   keys |-> [k \in Keys |-> NoOrder], groups |-> [o \in Orders |-> {}],
   applied |-> {}, links |-> [s \in Symbols |-> NoOrder], ledger |-> <<>>]

\* idempotency_keys[k] = o, skipped when the submission came without a key.
Remember(table, k, o) == [x \in Keys |-> IF x = k THEN o ELSE table[x]]

\* oca_groups.setdefault(g).add(o)
Join(groups, g, o) == [groups EXCEPT ![g] = @ \cup {o}]

Known(st, o) == st.status[o] # "NONE"

Logged(st, e) == [st EXCEPT !.ledger = Append(@, e)]

\* Mutant of ReplayBirth: the idempotency key is not restored.
ReplayBirthForgetful(st, e) ==
  IF e.event = "ORDER_REPLACED" /\ Known(st, e.order)
  THEN st
  ELSE [st EXCEPT !.status = [@ EXCEPT ![e.order] = "SUBMITTED"],
                  !.filled = [@ EXCEPT ![e.order] = 0],
                  !.keys = Remember(@, NoKey, e.order),
                  !.groups = Join(@, e.group, e.order)]

\* Mutant of ReplayBirth: a replacement comes back in a group of its own.
ReplayBirthAlone(st, e) ==
  IF e.event = "ORDER_REPLACED" /\ Known(st, e.order)
  THEN st
  ELSE [st EXCEPT !.status = [@ EXCEPT ![e.order] = "SUBMITTED"],
                  !.filled = [@ EXCEPT ![e.order] = 0],
                  !.keys = Remember(@, e.key, e.order),
                  !.groups = Join(@, e.order, e.order)]

ReplayBirth(st, e) ==
  IF e.event = "ORDER_REPLACED" /\ Known(st, e.order)
  THEN st
  ELSE [st EXCEPT !.status = [@ EXCEPT ![e.order] = "SUBMITTED"],
                  !.filled = [@ EXCEPT ![e.order] = 0],
                  !.keys = Remember(@, e.key, e.order),
                  !.groups = Join(@, e.group, e.order)]

StatusAfter(kind) ==
  CASE kind = "ORDER_ACCEPTED" -> "ACCEPTED"
    [] kind = "ORDER_OPEN" -> "OPEN"
    [] kind = "ORDER_CANCELED" -> "CANCELED"

\* Mutant of ReplayStatus: cancellations are not replayed.
ReplayStatusNoCancel(st, e) ==
  IF e.event = "ORDER_CANCELED" THEN st
  ELSE [st EXCEPT !.status = [@ EXCEPT ![e.order] = StatusAfter(e.event)]]

ReplayStatus(st, e) == [st EXCEPT !.status = [@ EXCEPT ![e.order] = StatusAfter(e.event)]]

\* Mutant of ReplayFill: the execution id is not restored.
ReplayFillForgetful(st, e) ==
  [st EXCEPT !.filled = [@ EXCEPT ![e.order] = e.fill_quantity],
             !.status = [@ EXCEPT ![e.order] =
               IF e.event = "ORDER_FILLED" THEN "FILLED" ELSE "PARTIALLY_FILLED"]]

ReplayFill(st, e) ==
  [st EXCEPT !.applied = @ \cup {e.execution},
             !.filled = [@ EXCEPT ![e.order] = e.fill_quantity],
             !.status = [@ EXCEPT ![e.order] =
               IF e.event = "ORDER_FILLED" THEN "FILLED" ELSE "PARTIALLY_FILLED"]]

ReplayLink(st, e) ==
  [st EXCEPT !.links = [@ EXCEPT ![e.symbol] =
               IF e.event = "PROTECTIVE_ORDER_LINKED" THEN e.order ELSE NoOrder]]

(* _replay_event: an event about an order the rebuilt state does not know is *)
(* replaced by a REPLAY_GAP entry; incidents, and the record of a            *)
(* compensated replacement, are copied and change nothing.                   *)
ReplayEvent(st, e) ==
  IF e.event \in BirthEvents THEN Logged(ReplayBirth(st, e), e)
  ELSE IF e.event \in LinkEvents THEN Logged(ReplayLink(st, e), e)
  ELSE IF e.event \in StatusEvents \cup FillEvents /\ ~Known(st, e.order)
       THEN Logged(st, OrderEvent("REPLAY_GAP", e.order))
  ELSE IF e.event \in StatusEvents THEN Logged(ReplayStatus(st, e), e)
  ELSE IF e.event \in FillEvents THEN Logged(ReplayFill(st, e), e)
  ELSE Logged(st, e)

(* rebuild_from_ledger: _replay_event over the entries of the ledger, in     *)
(* their order, starting from empty dictionaries.                            *)
Rebuild(log) ==
  LET after[n \in 0..Len(log)] ==
        IF n = 0 THEN Blank ELSE ReplayEvent(after[n - 1], log[n])
  IN  after[Len(log)]

\* What a reader of the ledger adds up for order o: the quantity of each fill.
QuantityOf(e, o) == IF e.event \in FillEvents /\ e.order = o THEN e.quantity ELSE 0

BookedBy(log, o) ==
  LET total[n \in 0..Len(log)] ==
        IF n = 0 THEN 0 ELSE total[n - 1] + QuantityOf(log[n], o)
  IN  total[Len(log)]
=============================================================================
