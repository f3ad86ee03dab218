-------------------------------- MODULE OMS --------------------------------
(***************************************************************************)
(* The order management system of oms/oms.py, class OMS: one action per    *)
(* method, each of them the whole method with the ledger entries it        *)
(* appends.  A method that returns early without changing anything is not  *)
(* a step.  Callers (orchestrator, broker adapter, operator) are the       *)
(* environment: they may call any method, with any argument, at any time,  *)
(* so the fills below include duplicated, late, reordered and oversized    *)
(* deliveries.                                                             *)
(*                                                                         *)
(* `replayed` is a history variable: the state rebuild_from_ledger would   *)
(* build from the ledger as it stands, kept up to date entry by entry      *)
(* since a replay is a left fold over the ledger.  It gives Restart its     *)
(* outcome; the properties speak of Rebuild(ledger) itself.                *)
(***************************************************************************)
EXTENDS OrderLedger

CONSTANTS
  RequireRiskApproval,     \* OMS(require_risk_approval=...)
  RequireProtectiveOrders, \* OMS(require_protective_orders=...)
  Approved,                \* orders carrying a matching, approved risk decision
  ReplaceMayFail,          \* may _commit_replacement raise?
  Deadlines,               \* order id -> deadlines callers give set_timeout
  MaxTime,                 \* bound on the clock
  MaxLedger                \* bound on the number of ledger entries

ASSUME OMSAssumption ==
  /\ RequireRiskApproval \in BOOLEAN
  /\ RequireProtectiveOrders \in BOOLEAN
  /\ ReplaceMayFail \in BOOLEAN
  /\ Approved \subseteq Orders
  /\ Deadlines \in [Orders -> SUBSET Nat]
  /\ MaxTime \in Nat
  /\ MaxLedger \in Nat

VARIABLES
  status,    \* orders[o].status; "NONE" when o is not in oms.orders
  filled,    \* orders[o].filled_quantity
  keys,      \* idempotency_keys
  groups,    \* oca_groups: group id (an order id) -> member orders
  applied,   \* fill_execution_ids
  links,     \* protective_orders
  deadlines, \* timeouts
  ledger,    \* event_ledger
  now,       \* the clock callers pass to check_timeout
  timedOut,  \* orders for which check_timeout has answered True
  replayed   \* history: rebuild_from_ledger(ledger)

bookVars == <<status, filled, keys, groups, applied, links>>
clockVars == <<deadlines, now, timedOut>>
vars == <<bookVars, clockVars, ledger, replayed>>

NoDeadline == -1

TypeOK ==
  /\ status \in [Orders -> Lifecycle]
  /\ filled \in [Orders -> Nat]
  /\ keys \in [Keys -> Orders \cup {NoOrder}]
  /\ groups \in [Orders -> SUBSET Orders]
  /\ applied \subseteq Identities
  /\ links \in [Symbols -> Orders \cup {NoOrder}]
  /\ deadlines \in [Orders -> Nat \cup {NoDeadline}]
  /\ ledger \in Seq(Entry)
  /\ now \in Nat
  /\ timedOut \subseteq Orders
  /\ replayed \in Rebuilt

Init ==
  /\ status = Blank.status /\ filled = Blank.filled /\ keys = Blank.keys
  /\ groups = Blank.groups /\ applied = Blank.applied /\ links = Blank.links
  /\ deadlines = [o \in Orders |-> NoDeadline]
  /\ ledger = <<>>
  /\ now = 0
  /\ timedOut = {}
  /\ replayed = Blank

\* event_ledger.append(e), within the bound MaxLedger.
Emit(e) ==
  /\ Len(ledger) < MaxLedger
  /\ ledger' = Append(ledger, e)
  /\ replayed' = ReplayEvent(replayed, e)

EmitBoth(e, f) ==
  /\ Len(ledger) + 1 < MaxLedger
  /\ ledger' = Append(Append(ledger, e), f)
  /\ replayed' = ReplayEvent(ReplayEvent(replayed, e), f)

-----------------------------------------------------------------------------
(* Submission and the broker's acknowledgements.                             *)

SubmitOrder(o, k) ==
  /\ status[o] = "NONE"
  /\ RequireRiskApproval => o \in Approved
  /\ k # NoKey => keys[k] = NoOrder
  /\ status' = [status EXCEPT ![o] = "SUBMITTED"]
  /\ filled' = [filled EXCEPT ![o] = 0]
  /\ keys' = Remember(keys, k, o)
  /\ groups' = [groups EXCEPT ![o] = {o}]
  /\ Emit(BirthEvent("ORDER_SUBMITTED", o, k, o))
  /\ UNCHANGED <<applied, links, clockVars>>

Advance(o, from, to, kind) ==
  /\ status[o] = from
  /\ status' = [status EXCEPT ![o] = to]
  /\ Emit(OrderEvent(kind, o))
  /\ UNCHANGED <<filled, keys, groups, applied, links, clockVars>>

AcceptOrder(o) == Advance(o, "SUBMITTED", "ACCEPTED", "ORDER_ACCEPTED")

OpenOrder(o) == Advance(o, "ACCEPTED", "OPEN", "ORDER_OPEN")

-----------------------------------------------------------------------------
(* Fills.                                                                    *)

\* The protective guard of fill_order: it looks at the link, not at the
\* status of the order that is linked.
Unprotected(o) ==
  /\ RequireProtectiveOrders
  /\ Request[o].side = "BUY"
  /\ links[SymbolOf(o)] = NoOrder

Remaining(o) == Quantity(o) - filled[o]

\* Mutant of FillOutcome: no deduplication.
FillOutcomeUnchecked(o, q, x) ==
  IF status[o] = "NONE" THEN "UNKNOWN_ORDER_FILL"
  ELSE IF status[o] \in Terminal THEN "LATE_FILL_DETECTED"
  ELSE IF status[o] \notin Fillable THEN "OUT_OF_ORDER_FILL"
  ELSE IF q = 0 THEN "INVALID_FILL_REJECTED"
  ELSE IF q > Remaining(o) THEN "OVERFILL_REJECTED"
  ELSE IF q = Remaining(o) THEN "ORDER_FILLED"
  ELSE "ORDER_PARTIAL_FILL"

(* The entry a delivered fill leaves in the ledger: fill_order's checks in   *)
(* the order the code makes them.                                            *)
FillOutcome(o, q, x) ==
  IF status[o] = "NONE" THEN "UNKNOWN_ORDER_FILL"
  ELSE IF Identity(o, q, x) \in applied THEN "DUPLICATE_FILL_DETECTED"
  ELSE IF status[o] \in Terminal THEN "LATE_FILL_DETECTED"
  ELSE IF status[o] \notin Fillable THEN "OUT_OF_ORDER_FILL"
  ELSE IF q = 0 THEN "INVALID_FILL_REJECTED"
  ELSE IF q > Remaining(o) THEN "OVERFILL_REJECTED"
  ELSE IF Unprotected(o) THEN "PROTECTIVE_ORDER_MISSING"
  ELSE IF q = Remaining(o) THEN "ORDER_FILLED"
  ELSE "ORDER_PARTIAL_FILL"

ApplyFill(o, q, x) ==
  LET outcome == FillOutcome(o, q, x)
      total == filled[o] + q
      i == Identity(o, q, x)
  IN  /\ outcome \in FillEvents
      /\ filled' = [filled EXCEPT ![o] = total]
      /\ status' = [status EXCEPT ![o] =
                      IF outcome = "ORDER_FILLED" THEN "FILLED" ELSE "PARTIALLY_FILLED"]
      /\ applied' = applied \cup {i}
      /\ Emit(FillEvent(outcome, o, q, total, i))
      /\ UNCHANGED <<keys, groups, links, clockVars>>

RefuseFill(o, q, x) ==
  /\ FillOutcome(o, q, x) \notin FillEvents
  /\ Emit(OrderEvent(FillOutcome(o, q, x), o))
  /\ UNCHANGED <<bookVars, clockVars>>

FillOrder(o, q, x) == ApplyFill(o, q, x) \/ RefuseFill(o, q, x)

-----------------------------------------------------------------------------
(* Cancellation and replacement.                                             *)

GroupsOf(o) == {g \in Orders : o \in groups[g]}
Family(o) == UNION {groups[g] : g \in GroupsOf(o)}

\* cancel_order with _cancel_oca_group: the order, and the fillable members
\* of its group, are canceled and the group is emptied.
StatusesAfterCancel(o) ==
  [p \in Orders |-> IF p = o \/ (p \in Family(o) /\ status[p] \in Fillable)
                    THEN "CANCELED" ELSE status[p]]
GroupsAfterCancel(o) == [g \in Orders |-> IF g \in GroupsOf(o) THEN {} ELSE groups[g]]

CancelOrder(o) ==
  /\ status[o] \in Cancellable
  /\ status' = StatusesAfterCancel(o)
  /\ groups' = GroupsAfterCancel(o)
  /\ Emit(OrderEvent("ORDER_CANCELED", o))
  /\ UNCHANGED <<filled, keys, applied, links>>

\* The replacement joins the group of the order it replaces, or one of its own.
GroupFor(o, n) == IF GroupsOf(o) = {} THEN n ELSE CHOOSE g \in GroupsOf(o) : TRUE

ReplaceOrder(o, n, k) ==
  /\ status[n] = "NONE"
  /\ status[o] \in Cancellable
  /\ status' = [StatusesAfterCancel(o) EXCEPT ![n] = "SUBMITTED"]
  /\ filled' = [filled EXCEPT ![n] = 0]
  /\ keys' = Remember(keys, k, n)
  /\ groups' = Join(GroupsAfterCancel(o), GroupFor(o, n), n)
  /\ EmitBoth(OrderEvent("ORDER_CANCELED", o),
              BirthEvent("ORDER_REPLACED", n, k, GroupFor(o, n)))
  /\ UNCHANGED <<applied, links, clockVars>>

\* _commit_replacement raises: the captured statuses and the membership of
\* the group come back, the replacement is popped and its key falls to the
\* old order.
CompensateReplace(o, n, k) ==
  /\ ReplaceMayFail
  /\ status[n] = "NONE"
  /\ status[o] \in Cancellable
  /\ keys' = Remember(keys, k, o)
  /\ EmitBoth(OrderEvent("ORDER_CANCELED", o), OrderEvent("ORDER_REPLACE_COMPENSATED", o))
  /\ UNCHANGED <<status, filled, groups, applied, links, clockVars>>

-----------------------------------------------------------------------------
(* Timeouts.                                                                 *)

SetTimeout(o, d) ==
  /\ deadlines' = [deadlines EXCEPT ![o] = d]
  /\ UNCHANGED <<bookVars, now, timedOut, ledger, replayed>>

\* check_timeout cancels a fillable order past its deadline and answers True;
\* past its deadline any other order is left as it is, and the answer is True.
CheckTimeout(o) ==
  /\ deadlines[o] # NoDeadline
  /\ now > deadlines[o]
  /\ timedOut' = timedOut \cup {o}
  /\ UNCHANGED <<deadlines, now>>
  /\ \/ status[o] \in Fillable /\ CancelOrder(o)
     \/ status[o] \notin Fillable /\ UNCHANGED <<bookVars, ledger, replayed>>

Tick ==
  /\ now < MaxTime
  /\ now' = now + 1
  /\ UNCHANGED <<bookVars, deadlines, timedOut, ledger, replayed>>

-----------------------------------------------------------------------------
(* Protective links.                                                         *)

Protects(o, s) ==
  /\ IsStopLoss(o)
  /\ SymbolOf(o) = s
  /\ status[o] \in Cancellable

LinkProtectiveOrder(s, o) ==
  /\ Protects(o, s)
  /\ links' = [links EXCEPT ![s] = o]
  /\ Emit(LinkEvent("PROTECTIVE_ORDER_LINKED", s, o))
  /\ UNCHANGED <<status, filled, keys, groups, applied, clockVars>>

UnlinkProtectiveOrder(s) ==
  /\ links[s] # NoOrder
  /\ links' = [links EXCEPT ![s] = NoOrder]
  /\ Emit(LinkEvent("PROTECTIVE_ORDER_UNLINKED", s, links[s]))
  /\ UNCHANGED <<status, filled, keys, groups, applied, clockVars>>

-----------------------------------------------------------------------------
(* A process restart: the dictionaries are rebuilt from the ledger; the      *)
(* timeouts and what callers learned of them are gone.                       *)

Restart ==
  /\ status' = replayed.status /\ filled' = replayed.filled
  /\ keys' = replayed.keys /\ groups' = replayed.groups
  /\ applied' = replayed.applied /\ links' = replayed.links
  /\ ledger' = replayed.ledger
  /\ deadlines' = [o \in Orders |-> NoDeadline]
  /\ timedOut' = {}
  /\ UNCHANGED <<now, replayed>>

Next ==
  \/ \E o \in Orders, k \in Keys \cup {NoKey} : SubmitOrder(o, k)
  \/ \E o \in Orders : AcceptOrder(o)
  \/ \E o \in Orders : OpenOrder(o)
  \/ \E o \in Orders, q \in FillQuantities, x \in ExecutionIds \cup {NoExecution} :
       FillOrder(o, q, x)
  \/ \E o \in Orders : CancelOrder(o) /\ UNCHANGED clockVars
  \/ \E o, n \in Orders, k \in Keys \cup {NoKey} : ReplaceOrder(o, n, k)
  \/ \E o, n \in Orders, k \in Keys \cup {NoKey} : CompensateReplace(o, n, k)
  \/ \E o \in Orders : \E d \in Deadlines[o] : SetTimeout(o, d)
  \/ \E o \in Orders : CheckTimeout(o)
  \/ Tick
  \/ \E s \in Symbols, o \in Orders : LinkProtectiveOrder(s, o)
  \/ \E s \in Symbols : UnlinkProtectiveOrder(s)
  \/ Restart

Spec == Init /\ [][Next]_vars

-----------------------------------------------------------------------------
(* Safety.                                                                   *)

(* No order books more than it asked for, whatever the broker delivers, and  *)
(* "FILLED" means exactly that everything asked for was booked               *)
(* (fill_order's overfill check and its cumulative filled_quantity).         *)
FillsBounded ==
  \A o \in Orders :
    /\ filled[o] <= Quantity(o)
    /\ status[o] = "FILLED" <=> filled[o] = Quantity(o)
    /\ status[o] \in {"NONE", "SUBMITTED", "ACCEPTED", "OPEN"} => filled[o] = 0

FillEntries == {i \in DOMAIN ledger : ledger[i].event \in FillEvents}

(* A fill that is delivered again, in any state and after any number of      *)
(* restarts, is booked at most once (fill_execution_ids and its replay).     *)
ExecutionsBookedOnce ==
  \A i, j \in FillEntries : i # j => ledger[i].execution # ledger[j].execution

(* The per-fill quantities of the ledger add up to the quantity the order    *)
(* reports: reconciliation derives positions from the former                 *)
(* (risk/risk_engine.py:536-571), everything else reads the latter.          *)
LedgerAccountsForFills == \A o \in Orders : filled[o] = BookedBy(ledger, o)

BirthEntries == {i \in DOMAIN ledger : ledger[i].event \in BirthEvents}

(* An idempotency key admits a submission only if no order was ever created  *)
(* under it: not when that order is closed by now, and not after a restart.  *)
KeyAdmitsOnce ==
  \A i, j \in BirthEntries :
    (i < j /\ ledger[j].event = "ORDER_SUBMITTED" /\ ledger[j].key # NoKey)
      => ledger[i].key # ledger[j].key

(* Orders of one OCA group never work side by side: a cancel or a replace    *)
(* leaves at most one live member (_cancel_oca_group, _commit_replacement).  *)
OneLivePerGroup ==
  \A g \in Orders : \A o, p \in groups[g] :
    o # p => ~(status[o] \in Cancellable /\ status[p] \in Cancellable)

Compensated ==
  {ledger[i].order : i \in {j \in DOMAIN ledger :
                              ledger[j].event = "ORDER_REPLACE_COMPENSATED"}}

(* Restart recovery.  What rebuild_from_ledger makes of the ledger is what   *)
(* was lost, in the fills, identities, links and the ledger itself (without  *)
(* a REPLAY_GAP), and in the statuses, keys and groups with two exceptions:  *)
(* a working order whose replacement was compensated comes back canceled,    *)
(* and the keys that fell to it as they were before; a group keeps the       *)
(* members that a cancel took out of it, none of which works any more.       *)
(* Timeouts are not restored.                                                *)
ReplayRestoresState ==
  LET rebuilt == Rebuild(ledger)
  IN  /\ \A o \in Orders :
           \/ rebuilt.status[o] = status[o]
           \/ o \in Compensated /\ rebuilt.status[o] = "CANCELED" /\ status[o] \in Cancellable
      /\ \A k \in Keys : keys[k] \notin Compensated => rebuilt.keys[k] = keys[k]
      /\ \A g \in Orders : /\ groups[g] \subseteq rebuilt.groups[g]
                          /\ \A o \in rebuilt.groups[g] \ groups[g] : status[o] \notin Cancellable
      /\ rebuilt.filled = filled
      /\ rebuilt.applied = applied
      /\ rebuilt.links = links
      /\ rebuilt.ledger = ledger

(* A closed order is never reopened and never books another fill, by no      *)
(* delivery, timeout, replacement or restart.                                *)
ClosedStaysClosed ==
  [][\A o \in Orders : status[o] \in Terminal =>
       status'[o] = status[o] /\ filled'[o] = filled[o]]_vars

(* "The event ledger is append-only: events are never removed or wiped"      *)
(* (oms/oms.py:708-710), a rebuild included.                                 *)
LedgerIsAppendOnly ==
  [][/\ Len(ledger) <= Len(ledger')
     /\ SubSeq(ledger', 1, Len(ledger)) = ledger]_vars

(* A symbol's protective link names a stop-loss of that symbol which the OMS *)
(* has known, through cancels, replacements and restarts: what               *)
(* check_protective_invariant finds missing is never a wrong kind of order.  *)
LinksNameStops ==
  \A s \in Symbols : links[s] # NoOrder =>
    /\ IsStopLoss(links[s]) /\ SymbolOf(links[s]) = s
    /\ status[links[s]] # "NONE"

-----------------------------------------------------------------------------
(* The inductive invariant.  A restart adopts the replayed state, so each    *)
(* property above has to hold of what a replay would build as well.          *)

(* The rebuilt status is the live one, or "CANCELED" for a live order whose  *)
(* replacement was compensated.                                              *)
ReplayInv ==
  /\ \A o \in Orders :
       \/ replayed.status[o] = status[o]
       \/ o \in Compensated /\ replayed.status[o] = "CANCELED" /\ status[o] \in Cancellable
  /\ \A k \in Keys : keys[k] \notin Compensated => replayed.keys[k] = keys[k]
  /\ replayed.filled = filled
  /\ replayed.applied = applied
  /\ replayed.links = links
  /\ replayed.ledger = ledger

(* OCA groups.  A replay does not empty the groups of canceled orders, so    *)
(* the rebuilt groups are larger than the live ones, by closed orders only.  *)
GroupsInv ==
  /\ OneLivePerGroup
  /\ \A g \in Orders : groups[g] \subseteq replayed.groups[g]
  /\ \A g \in Orders : \A o \in replayed.groups[g] :
       /\ status[o] # "NONE" /\ status[g] # "NONE"
       /\ status[o] \in Cancellable => o \in groups[g]
       /\ \A h \in Orders : o \in replayed.groups[h] => g = h

\* Whatever the ledger books is remembered as booked.
BookedInv ==
  /\ ExecutionsBookedOnce
  /\ \A i \in FillEntries : ledger[i].execution \in applied

\* A key that created an order is taken, and stays taken after a replay.
KeysInv ==
  /\ KeyAdmitsOnce
  /\ \A i \in BirthEntries : ledger[i].key # NoKey =>
       keys[ledger[i].key] # NoOrder /\ replayed.keys[ledger[i].key] # NoOrder

IInv ==
  /\ TypeOK
  /\ FillsBounded
  /\ ReplayInv
  /\ GroupsInv
  /\ BookedInv
  /\ KeysInv
  /\ LinksNameStops

-----------------------------------------------------------------------------
(* What documents, comments and tests say and the code does not do.          *)

(* "Replays events in order through the same semantics the production        *)
(* methods apply, restoring orders, statuses, ..." (oms/oms.py:796-798),     *)
(* compensated replacements included.                                        *)
ReplayRestoresEveryStatus == \A o \in Orders : Rebuild(ledger).status[o] = status[o]

(* "If the order is not filled or canceled by the deadline, it will be       *)
(* automatically canceled" (oms/oms.py:638-639): an order that check_timeout *)
(* has answered to be past its deadline is not open for fills afterwards.    *)
TimedOutNeverOpens == \A o \in timedOut : status[o] \notin Fillable

-----------------------------------------------------------------------------
(* The promise OMS implements.                                               *)

PhaseOf(s) ==
  CASE s = "NONE" -> "idle"
    [] s = "FILLED" -> "complete"
    [] s \in Terminal \ {"FILLED"} -> "withdrawn"
    [] s \in {"RECEIVED"} \cup Cancellable -> "working"

Phase == [o \in Orders |-> PhaseOf(status[o])]

Book == INSTANCE ExecutionBook WITH
  BookOrders <- Orders, BookIdentities <- Identities,
  Asked <- [o \in Orders |-> Quantity(o)],
  phase <- Phase, executed <- filled, booked <- applied

(* Every step of the OMS, a restart included, is a step of the book or       *)
(* leaves the book alone: executions are booked at most once, against        *)
(* working orders, within what was asked, and a replacement starts working   *)
(* in the step that withdraws the order it replaces.                         *)
RefinesExecutionBook == Book!BookSpec
=============================================================================
