---------------------------- MODULE PaperBroker ----------------------------
(***************************************************************************)
(* The IBKR paper adapter (broker/ibkr_paper.py) between the platform and  *)
(* Trader Workstation.  The adapter owns a ledger of entries, one for each *)
(* order placed, and updates it from the events of the client library.     *)
(*                                                                         *)
(* Workstation and library are external: orders work, fill and close there *)
(* on their own, messages about one order arrive in the order they were    *)
(* sent, and what is under way when the connection drops is lost.  A new   *)
(* connection reports the orders that still work and the position when it  *)
(* is not zero, as the events registered in _register_handlers_once do.   *)
(***************************************************************************)
EXTENDS Integers, Sequences, FiniteSets, Functions

CONSTANTS
  Orders,      \* ids the platform gives its orders
  Quantities,  \* shares a single order asks for
  BracketQuantities, \* shares a bracket asks for
  MaxIb,       \* bound on the order ids Workstation hands out
  MaxQueue,    \* bound on the messages under way about orders
  MaxPositions,\* bound on the position messages under way
  MaxBreaks    \* bound on the connections lost and the restarts of the process

ASSUME PaperBrokerAssumption ==
  /\ IsFiniteSet(Orders)
  /\ Quantities \subseteq Nat \ {0} /\ BracketQuantities \subseteq Quantities
  /\ MaxIb \in Nat /\ MaxQueue \in Nat /\ MaxPositions \in Nat /\ MaxBreaks \in Nat

VARIABLES
  up,         \* connected
  orders,     \* _orders: the entry (its IBKR id) of each platform id, or 0
  entries,    \* the entries in the order of their IBKR ids
  forgotten,  \* IBKR ids below or at this one are not in _by_ib_id
  cache,      \* _position_cache of the one symbol, 0 when it is not there
  refreshed,  \* _account_refreshed
  tws,        \* external: the orders at Workstation
  trade,      \* external: status in the library's Trade objects
  queue,      \* external: messages about each order under way
  held,       \* external: shares in the account
  posQueue,   \* external: position messages under way
  missed,     \* history: orders with a message lost
  missedPos,  \* history: a position message was lost
  breaks      \* connections lost and restarts so far

ledger == <<orders, entries, forgotten>>
account == <<cache, refreshed>>
station == <<tws, queue, missed>>
holding == <<held, posQueue, missedPos>>
vars == <<up, ledger, account, trade, station, holding, breaks>>

Legs == {"TP", "SL"}
Roles == {"entry"} \cup Legs
Ids == Orders \X Roles

IbOpen == {"PendingSubmit", "Submitted", "PendingCancel"}
IbDone == {"Filled", "Cancelled", "Inactive"}
IbStatus == IbOpen \cup IbDone

\* _OPEN_PLATFORM_STATUSES and _TERMINAL_PLATFORM_STATUSES.
Open == {"RECEIVED", "SUBMITTED", "OPEN"}
Terminal == {"FILLED", "CANCELLED", "REJECTED"}

\* _IB_TO_PLATFORM_STATUS.get(s, "RECEIVED").
Platform(s) ==
  CASE s = "Submitted" -> "SUBMITTED"
    [] s = "Filled" -> "FILLED"
    [] s = "Cancelled" -> "CANCELLED"
    [] s = "Inactive" -> "REJECTED"
    [] OTHER -> "RECEIVED"

Placed == 1..Len(entries)
Known == {ib \in Placed : ib > forgotten}

StatusIs(s) == [kind |-> "status", status |-> s]
OpenOrder == [kind |-> "openOrder", status |-> ""]
Execution == [kind |-> "exec", status |-> ""]
Error(code) == [kind |-> "error", status |-> code]
Message ==
  [kind : {"status"}, status : IbStatus] \cup {OpenOrder, Execution, Error("201"), Error("other")}

Entry ==
  [id : Ids, status : Open \cup Terminal, quantity : Quantities, fills : Nat, filled : Nat]

TwsOrder == [status : IbStatus, cum : Nat, quantity : Quantities, parent : 0..Len(entries)]

TypeOK ==
  /\ up \in BOOLEAN
  /\ orders \in [Ids -> 0..Len(entries)]
  /\ entries \in Seq(Entry)
  /\ Len(entries) <= MaxIb
  /\ forgotten \in 0..Len(entries)
  /\ cache \in Int /\ refreshed \in BOOLEAN
  /\ tws \in [Placed -> TwsOrder]
  /\ trade \in [Placed -> IbStatus]
  /\ queue \in [Placed -> Seq(Message)]
  /\ held \in Int /\ posQueue \in Seq(Int) /\ missedPos \in BOOLEAN
  /\ missed \subseteq Placed
  /\ breaks \in 0..MaxBreaks

Init ==
  /\ up = FALSE
  /\ orders = [i \in Ids |-> 0] /\ entries = <<>> /\ forgotten = 0
  /\ cache = 0 /\ refreshed = FALSE
  /\ tws = <<>> /\ trade = <<>> /\ queue = <<>>
  /\ held = 0 /\ posQueue = <<>> /\ missed = {} /\ missedPos = FALSE
  /\ breaks = 0

-----------------------------------------------------------------------------
(* Workstation (external).                                                   *)

IsLeg(ib) == tws[ib].parent # 0
Sibling(a, b) == a # b /\ IsLeg(a) /\ tws[a].parent = tws[b].parent
Children(ib) == {c \in Placed : tws[c].parent = ib}

\* A change of status is told by orderStatus and openOrder, either one first.
Told(s) == {<<StatusIs(s), OpenOrder>>, <<OpenOrder, StatusIs(s)>>}

UnderWay == SumFunction([ib \in Placed |-> Len(queue[ib])])

\* Messages about an order leave for the client, or are lost.
Send(ib, messages) ==
  IF up THEN /\ UnderWay + Len(messages) <= MaxQueue
             /\ queue' = [queue EXCEPT ![ib] = @ \o messages]
             /\ UNCHANGED missed
        ELSE missed' = missed \cup {ib} /\ UNCHANGED queue

\* A leg waits for its entry to fill.
TwsAccepts(ib) ==
  /\ tws[ib].status = "PendingSubmit"
  /\ IsLeg(ib) => tws[tws[ib].parent].status = "Filled"
  /\ tws' = [tws EXCEPT ![ib].status = "Submitted"]
  /\ \E m \in Told("Submitted") : Send(ib, m)
  /\ UNCHANGED <<up, ledger, account, trade, holding, breaks>>

\* A rejection is an error 201 and the status Inactive.
TwsRejects(ib) ==
  /\ tws[ib].status = "PendingSubmit" /\ ~IsLeg(ib) /\ Children(ib) = {}
  /\ tws' = [tws EXCEPT ![ib].status = "Inactive"]
  /\ \E m \in {<<Error("201"), StatusIs("Inactive")>>, <<StatusIs("Inactive"), Error("201")>>} :
       Send(ib, m)
  /\ UNCHANGED <<up, ledger, account, trade, holding, breaks>>

TwsWarns(ib) ==
  /\ up /\ tws[ib].status \in IbOpen /\ UnderWay = 0
  /\ Send(ib, <<Error("other")>>)
  /\ UNCHANGED <<up, ledger, account, trade, tws, holding, breaks>>

\* One share trades, of a leg only while the other one has not (oneCancelsAll).
\* Execution and status leave in either order.
TwsFills(ib) ==
  LET cum == tws[ib].cum + 1
      full == cum = tws[ib].quantity
      now == IF IsLeg(ib) THEN held - 1 ELSE held + 1
      told == IF full THEN {<<Execution, StatusIs("Filled")>>, <<StatusIs("Filled"), Execution>>}
                      ELSE {<<Execution>>}
  IN /\ tws[ib].status \in {"Submitted", "PendingCancel"}
     /\ \A c \in Placed : Sibling(c, ib) => tws[c].cum = 0
     /\ tws' = [tws EXCEPT ![ib].cum = cum, ![ib].status = IF full THEN "Filled" ELSE @]
     /\ \E m \in told : Send(ib, m)
     /\ held' = now
     /\ IF up THEN posQueue' = Append(posQueue, now) /\ Len(posQueue) < MaxPositions /\ UNCHANGED missedPos
              ELSE missedPos' = TRUE /\ UNCHANGED posQueue
     /\ UNCHANGED <<up, ledger, account, trade, breaks>>

\* Asked to, at the end of the day, because the other leg has traded, or for a
\* leg because its entry will not.
TwsCancels(ib) ==
  /\ \/ tws[ib].status \in {"Submitted", "PendingCancel"}
     \/ /\ tws[ib].status = "PendingSubmit" /\ IsLeg(ib)
        /\ tws[tws[ib].parent].status = "Cancelled"
  /\ tws' = [tws EXCEPT ![ib].status = "Cancelled"]
  /\ \E m \in Told("Cancelled") : Send(ib, m)
  /\ UNCHANGED <<up, ledger, account, trade, holding, breaks>>

Drop ==
  /\ up /\ breaks < MaxBreaks
  /\ up' = FALSE /\ breaks' = breaks + 1
  /\ missed' = missed \cup {ib \in Placed : queue[ib] # <<>>}
  /\ queue' = [ib \in Placed |-> <<>>]
  /\ missedPos' = (missedPos \/ posQueue # <<>>)
  /\ posQueue' = <<>>
  /\ UNCHANGED <<ledger, account, trade, tws, held>>

-----------------------------------------------------------------------------
(* Submission, replacement, cancellation.                                    *)

\* _new_entry: the status of a fresh trade is PendingSubmit.
NewEntry(id, quantity) ==
  [id |-> id, status |-> Platform("PendingSubmit"), quantity |-> quantity, fills |-> 0, filled |-> 0]

NewOrder(quantity, parent) ==
  [status |-> "PendingSubmit", cum |-> 0, quantity |-> quantity, parent |-> parent]

\* Orders placed one after the other, with their entries.
Place(ids, quantity, parents) ==
  LET n == Len(entries)  new == DOMAIN ids IN
  /\ n + Len(ids) <= MaxIb
  /\ entries' = entries \o [k \in new |-> NewEntry(ids[k], quantity)]
  /\ tws' = tws \o [k \in new |-> NewOrder(quantity, parents[k])]
  /\ trade' = trade \o [k \in new |-> "PendingSubmit"]
  /\ queue' = queue \o [k \in new |-> <<>>]
  /\ orders' = [i \in Ids |-> IF \E k \in new : ids[k] = i THEN n + (CHOOSE k \in new : ids[k] = i)
                                                          ELSE orders[i]]
  /\ UNCHANGED <<forgotten, missed>>

\* The two flags, the account and the risk decision are settled before: what
\* changes from call to call is the connection.
ExecuteOrder(o, quantity) ==
  /\ up /\ orders[<<o, "entry">>] = 0
  /\ Place(<< <<o, "entry">> >>, quantity, <<0>>)
  /\ UNCHANGED <<up, account, holding, breaks>>

\* _replace, for an id that has an entry.  Workstation takes the new quantity
\* while the order works; the entry takes it always, and the status of the Trade.
ReplaceOrder(o, quantity) ==
  LET ib == orders[<<o, "entry">>] IN
  /\ up /\ ib # 0
  /\ entries' = [entries EXCEPT ![ib].quantity = quantity, ![ib].status = Platform(trade[ib])]
  /\ tws' = IF tws[ib].status \in {"PendingSubmit", "Submitted"} /\ quantity > tws[ib].cum
              THEN [tws EXCEPT ![ib].quantity = quantity] ELSE tws
  /\ UNCHANGED <<up, orders, forgotten, account, trade, queue, missed, holding, breaks>>

\* An entry order and its two protective legs.  An entry the ledger already
\* has under these ids is overwritten.
ExecuteBracketOrder(o, quantity) ==
  /\ up
  /\ LET p == Len(entries) + 1 IN
     Place(<< <<o, "entry">>, <<o, "TP">>, <<o, "SL">> >>, quantity, <<0, p, p>>)
  /\ UNCHANGED <<up, account, holding, breaks>>

\* The request reaches Workstation; the status comes back as a message.
CancelOrder(id) ==
  LET ib == orders[id] IN
  /\ up /\ ib # 0
  /\ tws[ib].status = "Submitted" \/ (tws[ib].status = "PendingSubmit" /\ ~IsLeg(ib))
  /\ tws' = [tws EXCEPT ![ib].status = "PendingCancel"]
  /\ Send(ib, <<StatusIs("PendingCancel")>>)
  /\ UNCHANGED <<up, ledger, account, trade, holding, breaks>>

-----------------------------------------------------------------------------
(* Event handlers.                                                           *)

\* _sync_fill_state: the fills decide, and only without any the status.
SyncFillState(e) ==
  [e EXCEPT !.filled = IF e.fills > 0 THEN e.fills
                       ELSE IF e.status = "FILLED" THEN e.quantity
                       ELSE @]

OnOrderStatus(e, s) ==
  IF s = "PendingCancel" THEN e ELSE SyncFillState([e EXCEPT !.status = Platform(s)])

OnExecDetails(e) == SyncFillState([e EXCEPT !.fills = @ + 1])

\* Mutant of OnError: a code that is not in the table rejects as well.
OnErrorAny(e, code) == [e EXCEPT !.status = "REJECTED"]

OnError(e, code) == IF code = "201" THEN [e EXCEPT !.status = "REJECTED"] ELSE e

\* Mutant of OnOpenOrder: without the guard on closed orders.
OnOpenOrderAlways(e) == [e EXCEPT !.status = "OPEN"]

OnOpenOrder(e) == IF e.status \in Terminal THEN e ELSE [e EXCEPT !.status = "OPEN"]

\* The library updates the Trade, then calls the handler; _entry_for_trade
\* finds no entry for an order of an earlier process.
Handled(e, m) ==
  CASE m.kind = "status" -> OnOrderStatus(e, m.status)
    [] m.kind = "exec" -> OnExecDetails(e)
    [] m.kind = "error" -> OnError(e, m.status)
    [] m.kind = "openOrder" -> OnOpenOrder(e)

Deliver(ib) ==
  /\ up /\ queue[ib] # <<>>
  /\ LET m == Head(queue[ib]) IN
     /\ trade' = IF m.kind = "status" THEN [trade EXCEPT ![ib] = m.status] ELSE trade
     /\ entries' = IF ib \in Known THEN [entries EXCEPT ![ib] = Handled(@, m)] ELSE entries
  /\ queue' = [queue EXCEPT ![ib] = Tail(@)]
  /\ UNCHANGED <<up, orders, forgotten, account, tws, missed, holding, breaks>>

\* Mutant of OnPosition: a position of zero is taken for a missing value.
OnPositionNonZero(quantity) == IF quantity = 0 THEN cache ELSE quantity

OnPosition(quantity) == quantity

DeliverPosition ==
  /\ up /\ posQueue # <<>>
  /\ cache' = OnPosition(Head(posQueue))
  /\ posQueue' = Tail(posQueue)
  /\ UNCHANGED <<up, ledger, refreshed, trade, station, held, missedPos, breaks>>

\* get_account_snapshot and list_positions ask the client once, the first time.
GetAccountSnapshot ==
  /\ up /\ ~refreshed
  /\ refreshed' = TRUE
  /\ cache' = IF held = 0 THEN cache ELSE OnPosition(held)
  /\ UNCHANGED <<up, ledger, trade, station, holding, breaks>>

\* list_orders, and list_open_orders without a connection.
ListOrders == {id \in Ids : orders[id] # 0 /\ entries[orders[id]].status \in Open}

\* list_completed_orders without a connection.
ListCompletedOrders == {id \in Ids : orders[id] # 0 /\ entries[orders[id]].status \in Terminal}

-----------------------------------------------------------------------------
(* Lifecycle.                                                                *)

\* start and reconnect: what still works and what is held is reported again.
Start ==
  /\ ~up /\ up' = TRUE
  /\ queue' = [ib \in Placed |->
                 IF tws[ib].status \in IbOpen THEN <<StatusIs(tws[ib].status)>> ELSE <<>>]
  /\ posQueue' = IF held = 0 THEN <<>> ELSE <<held>>
  /\ missedPos' = (missedPos /\ held = 0)
  /\ UNCHANGED <<ledger, account, trade, tws, held, missed, breaks>>

\* A new process: ledger and caches are gone, Workstation goes on.
Restart ==
  /\ breaks < MaxBreaks /\ breaks' = breaks + 1
  /\ up' = FALSE
  /\ orders' = [i \in Ids |-> 0] /\ forgotten' = Len(entries)
  /\ entries' = [ib \in Placed |-> NewEntry(entries[ib].id, entries[ib].quantity)]
  /\ cache' = 0 /\ refreshed' = FALSE
  /\ missed' = Placed
  /\ queue' = [ib \in Placed |-> <<>>] /\ posQueue' = <<>>
  /\ missedPos' = TRUE
  /\ UNCHANGED <<trade, tws, held>>

Adapter ==
  \/ \E o \in Orders, q \in Quantities : ExecuteOrder(o, q) \/ ReplaceOrder(o, q)
  \/ \E o \in Orders, q \in BracketQuantities : ExecuteBracketOrder(o, q)
  \/ \E id \in Ids : CancelOrder(id)
  \/ \E ib \in Placed : Deliver(ib)
  \/ DeliverPosition
  \/ GetAccountSnapshot

Workstation ==
  \E ib \in Placed :
    \/ TwsAccepts(ib)
    \/ TwsRejects(ib)
    \/ TwsWarns(ib)
    \/ TwsFills(ib)
    \/ TwsCancels(ib)

Next ==
  \/ Adapter
  \/ Workstation
  \/ Drop \/ Start \/ Restart

Spec == Init /\ [][Next]_vars

-----------------------------------------------------------------------------
(* Properties.                                                               *)

\* An order that still works at Workstation and is in the ledger is listed as
\* open, whatever was lost, whatever warnings and replacements came in between:
\* the status, error and openOrder handlers and _replace agree on this.
NoWorkingOrderHidden ==
  \A id \in Ids : orders[id] # 0 /\ tws[orders[id]].status \in IbOpen => id \in ListOrders

\* Once every message about an order has been handled and none was lost, the
\* ledger says of it what Workstation says, in whichever order executions,
\* statuses and openOrder messages came: completed or not, and how much filled.
LedgerCatchesUp ==
  \A id \in Ids : LET ib == orders[id] IN
    ib # 0 /\ ib \notin missed /\ queue[ib] = <<>> =>
      /\ id \in ListCompletedOrders <=> tws[ib].status \in IbDone
      /\ tws[ib].status = "Filled" <=> entries[ib].status = "FILLED"
      /\ entries[ib].filled = tws[ib].cum

\* The position cache, from which reconciliation gets its snapshot, is what the
\* account holds once every position message has been handled and none was lost.
PositionsCatchUp ==
  posQueue = <<>> /\ ~missedPos => cache = held

-----------------------------------------------------------------------------
(* The inductive invariant, of an order with entry e, order w at             *)
(* Workstation, status t in its Trade and messages q under way.              *)

Ends(m) == m.kind = "status" /\ m.status \in IbDone

\* Whatever speaks of the end of an order speaks of the end it has come to.
EndsAgree(e, w, t, q) ==
  /\ e.status \in Terminal => w.status \in IbDone /\ e.status = Platform(w.status)
  /\ t \in IbDone => t = w.status
  /\ \A k \in DOMAIN q : /\ Ends(q[k]) => q[k].status = w.status
                         /\ q[k] = Error("201") => w.status = "Inactive"

\* No status follows the status that ends an order, under way or handled.
EndIsLast(t, q) ==
  \A k \in DOMAIN q : q[k].kind = "status" => /\ t \notin IbDone
                                              /\ \A j \in 1..(k - 1) : ~Ends(q[j])

\* Executions are reported before the fills of an entry are; an entry without
\* executions reports shares only when its order is filled.
FillsAgree(e, w) ==
  /\ e.fills > 0 => e.filled = e.fills
  /\ e.fills = 0 /\ e.filled # 0 => w.status = "Filled"
  /\ w.status = "Filled" => w.cum > 0

Consistent(e, w, t, q) == EndsAgree(e, w, t, q) /\ EndIsLast(t, q) /\ FillsAgree(e, w)

Executions(q) == Cardinality({k \in DOMAIN q : q[k] = Execution})

\* As long as no message was lost: the end of an order, and every execution,
\* is under way or in the ledger.
Complete(e, w, t, q) ==
  /\ w.status \in IbDone => \/ \E k \in DOMAIN q : q[k] = StatusIs(w.status)
                            \/ t = w.status /\ e.status = Platform(w.status)
  /\ e.fills + Executions(q) = w.cum

OrdersInv ==
  /\ \A ib \in Placed : Consistent(entries[ib], tws[ib], trade[ib], queue[ib])
  /\ \A ib \in Known \ missed : Complete(entries[ib], tws[ib], trade[ib], queue[ib])

\* Without a connection nothing is under way; platform ids name known entries;
\* the last position message under way carries the position.
ConnectionInv ==
  /\ ~up => posQueue = <<>> /\ \A ib \in Placed : queue[ib] = <<>>
  /\ \A id \in Ids : orders[id] # 0 => orders[id] \in Known
  /\ posQueue # <<>> => posQueue[Len(posQueue)] = held

IInv == TypeOK /\ OrdersInv /\ ConnectionInv /\ PositionsCatchUp
=============================================================================
