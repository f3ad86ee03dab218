------------------------------ MODULE Session ------------------------------
(***************************************************************************)
(* A trading session: the fail-closed chain (reconciliation/__init__.py),  *)
(* the reconciliation engine, the session scheduler and the controls of    *)
(* the hard risk engine (risk/risk_engine.py), between an OMS and a broker *)
(* that move on their own.  One symbol, orders to buy one share.           *)
(*                                                                         *)
(* The broker is the environment, as the IBKR adapter shows it: fills      *)
(* happen there first and are delivered later, orders are canceled there,  *)
(* somebody trades the account by hand, the connection comes and goes.     *)
(* The operator and the process that drives the session call every method  *)
(* at any time, with any of the inputs it takes.                           *)
(***************************************************************************)
EXTENDS Integers, FiniteSets

CONSTANTS
  Orders,       \* order ids
  MaxIncidents, \* bound on the incidents raised
  MaxByHand,    \* bound on the shares bought at the broker by hand
  MaxBoots      \* bound on the restarts of the process

ASSUME SessionAssumption ==
  /\ IsFiniteSet(Orders)
  /\ MaxIncidents \in Nat
  /\ MaxByHand \in Nat
  /\ MaxBoots \in Nat

VARIABLES
  oms,          \* status of each order in the OMS
  broker,       \* status of each order at the broker
  byHand,       \* shares held at the broker that no order bought
  connected,    \* broker.connected
  blocks,       \* chain.blocks_new_orders
  chainStatus,  \* chain.status
  unresolved,   \* chain.incidents without a resolution
  raised,       \* number of incidents raised so far, which names them
  settled,      \* history: incidents an operator resolved
  bySession,    \* history: incidents the scheduler raised
  halted,       \* scheduler.is_trading_halted
  startupDone,  \* scheduler.startup_reconciliation_done
  controls,     \* what the hard risk engine has disabled
  stopped,      \* history: cancel_all_open_orders was called
  boots         \* number of restarts

world == <<oms, broker, byHand, connected>>
chain == <<blocks, chainStatus, unresolved, raised, settled, bySession>>
session == <<halted, startupDone>>
engine == <<controls, stopped>>
vars == <<world, chain, session, engine, boots>>

Working == {"SUBMITTED"}
Status == {"UNKNOWN", "FILLED", "CANCELLED"} \cup Working

\* What can be disabled: submissions (also per strategy or symbol, and by
\* liquidate_position, which then raises), or positions in new symbols.
Controls == {"submissions", "new positions"}

TypeOK ==
  /\ oms \in [Orders -> Status] /\ broker \in [Orders -> Status]
  /\ byHand \in 0..MaxByHand /\ connected \in BOOLEAN
  /\ blocks \in BOOLEAN
  /\ chainStatus \in {"CLEARED", "OPERATOR_RESOLUTION_REQUIRED", "RESOLVED"}
  /\ raised \in 0..MaxIncidents
  /\ unresolved \subseteq 1..raised
  /\ settled \subseteq 1..raised /\ bySession \subseteq 1..raised
  /\ halted \in BOOLEAN /\ startupDone \in BOOLEAN
  /\ controls \subseteq Controls
  /\ stopped \in BOOLEAN
  /\ boots \in 0..MaxBoots

Init ==
  /\ oms = [o \in Orders |-> "UNKNOWN"] /\ broker = oms
  /\ byHand = 0 /\ connected = FALSE
  /\ blocks = FALSE /\ chainStatus = "CLEARED"
  /\ unresolved = {} /\ raised = 0 /\ settled = {} /\ bySession = {}
  /\ halted = FALSE /\ startupDone = FALSE
  /\ controls = {} /\ stopped = FALSE
  /\ boots = 0

-----------------------------------------------------------------------------
(* What is compared.                                                         *)

Filled(book) == {o \in Orders : book[o] = "FILLED"}

\* build_internal_snapshot against the broker's snapshot: one share per fill.
PositionsAgree(book) == Cardinality(Filled(book)) = Cardinality(Filled(broker)) + byHand

\* reconcile_orders against broker.list_orders(), which lists the open ones.
Listed(o) == IF broker[o] \in Working THEN broker[o] ELSE "UNKNOWN"
OrdersAgree(book) == \A o \in Orders : book[o] = Listed(o)

-----------------------------------------------------------------------------
(* The fail-closed chain.                                                    *)

\* FailClosedChain.trigger.  The sink may be missing or fail and the alert may
\* be lost: nothing is read back from them, so no state here tells.
Trigger(fromSession) ==
  /\ raised < MaxIncidents
  /\ blocks' = TRUE /\ chainStatus' = "OPERATOR_RESOLUTION_REQUIRED"
  /\ raised' = raised + 1
  /\ unresolved' = unresolved \cup {raised + 1}
  /\ bySession' = IF fromSession THEN bySession \cup {raised + 1} ELSE bySession
  /\ UNCHANGED settled

\* Mutant of Resolve: only the last incident is marked as resolved.
ResolveLast ==
  /\ unresolved # {}
  /\ settled' = settled \cup {raised}
  /\ unresolved' = unresolved \ {raised}
  /\ blocks' = FALSE /\ chainStatus' = "RESOLVED"
  /\ UNCHANGED <<raised, bySession, world, session, engine, boots>>

\* FailClosedChain.resolve by a named operator.
Resolve ==
  /\ unresolved # {}
  /\ settled' = settled \cup unresolved
  /\ unresolved' = {}
  /\ blocks' = FALSE /\ chainStatus' = "RESOLVED"
  /\ UNCHANGED <<raised, bySession, world, session, engine, boots>>

-----------------------------------------------------------------------------
(* Reconciliation called on the engine itself, past the scheduler.           *)

\* reconcile_all on the caller's figures, one of which does not match.
ReconcileAll ==
  /\ Trigger(FALSE)
  /\ UNCHANGED <<world, session, engine, boots>>

ReconcileAgainstSnapshot ==
  /\ connected
  /\ ~PositionsAgree(oms)
  /\ Trigger(FALSE)
  /\ UNCHANGED <<world, session, engine, boots>>

-----------------------------------------------------------------------------
(* The scheduler.                                                            *)

ShouldTrade == startupDone /\ ~halted

Halt == halted' = TRUE /\ UNCHANGED startupDone

\* Mutant of TargetedReconciliation: positions are not compared.
TargetedOrdersOnly(book) ==
  \/ connected /\ blocks /\ Halt /\ UNCHANGED chain
  \/ connected /\ ~blocks /\ ~OrdersAgree(book) /\ Trigger(TRUE) /\ Halt
  \/ (connected => ~blocks /\ OrdersAgree(book)) /\ UNCHANGED <<chain, session>>

(* on_fill_event and periodic.  Without a connection the request for the     *)
(* snapshot raises, before anything is compared.  The overfill check of      *)
(* the code has nothing to find: OMSProofs proves FillsStayBounded.          *)
TargetedReconciliation(book) ==
  \/ connected /\ ~PositionsAgree(book) /\ Trigger(TRUE) /\ Halt
  \/ connected /\ PositionsAgree(book) /\ blocks /\ Halt /\ UNCHANGED chain
  \/ connected /\ PositionsAgree(book) /\ ~blocks /\ ~OrdersAgree(book) /\ Trigger(TRUE) /\ Halt
  \/ (connected => PositionsAgree(book) /\ ~blocks /\ OrdersAgree(book))
     /\ UNCHANGED <<chain, session>>

Periodic == TargetedReconciliation(oms) /\ UNCHANGED <<world, engine, boots>>

(* The inputs of a full reconciliation: the caller's figures (cash, fills,   *)
(* positions), some of them perhaps missing; a broker snapshot, which takes  *)
(* the place of the positions; and the orders the broker holds.              *)
Inputs ==
  [figures : {"missing", "agree", "differ"}, snapshot : BOOLEAN, orders : BOOLEAN]

HeldOrders == {o \in Orders : oms[o] # "UNKNOWN"}

CheckFails(in) ==
  \/ in.figures = "differ"
  \/ in.snapshot /\ ~PositionsAgree(oms)
  \/ in.orders /\ oms # broker
  \/ ~in.orders /\ HeldOrders # {}

InputMissing(in) == in.figures = "missing" \/ (~in.orders /\ HeldOrders = {})

RunReconciliation(in, atStartup) ==
  IF CheckFails(in) \/ (atStartup /\ InputMissing(in))
  THEN Trigger(TRUE) /\ Halt
  ELSE IF blocks
  THEN Halt /\ UNCHANGED chain
  ELSE /\ startupDone' = (startupDone \/ atStartup)
       /\ UNCHANGED <<chain, halted>>

Startup(in) ==
  /\ IF blocks THEN Halt /\ UNCHANGED chain ELSE RunReconciliation(in, TRUE)
  /\ UNCHANGED <<world, engine, boots>>

SessionEnd(in) ==
  /\ RunReconciliation(in, FALSE)
  /\ UNCHANGED <<world, engine, boots>>

ReconnectWithoutSnapshot == Halt /\ UNCHANGED <<chain, world, engine, boots>>

\* Mutant of ReconnectWithSnapshot: a match resumes a blocked session.
ReconnectOnMatch ==
  /\ connected
  /\ \/ ~PositionsAgree(oms) /\ Trigger(TRUE) /\ Halt
     \/ /\ PositionsAgree(oms)
        /\ startupDone' = TRUE /\ halted' = FALSE
        /\ UNCHANGED chain
  /\ UNCHANGED <<world, engine, boots>>

\* on_reconnect with a snapshot: positions only, and a halt is lifted.
ReconnectWithSnapshot ==
  /\ connected
  /\ \/ ~PositionsAgree(oms) /\ Trigger(TRUE) /\ Halt
     \/ PositionsAgree(oms) /\ blocks /\ Halt /\ UNCHANGED chain
     \/ /\ PositionsAgree(oms) /\ ~blocks
        /\ startupDone' = TRUE /\ halted' = FALSE
        /\ UNCHANGED chain
  /\ UNCHANGED <<world, engine, boots>>

\* Mutant of CheckMarketCalendar: it resumes a blocked session.
CheckMarketCalendarOnly(valid) ==
  /\ halted' = ~valid
  /\ UNCHANGED <<startupDone, chain, world, engine, boots>>

CheckMarketCalendar(valid) ==
  /\ halted' = (~valid \/ blocks)
  /\ UNCHANGED <<startupDone, chain, world, engine, boots>>

-----------------------------------------------------------------------------
(* The hard risk engine: the gates of check_order that depend on state kept  *)
(* here, and its controls.  The limits on size and cash are left out.        *)

CheckOrder ==
  /\ ~blocks
  /\ "submissions" \notin controls
  /\ "new positions" \in controls => Filled(oms) # {}

\* A session that should trade submits an approved order; it reaches the
\* broker when there is a connection, otherwise the adapter raises.
Place(o) ==
  /\ ShouldTrade
  /\ CheckOrder
  /\ oms[o] = "UNKNOWN"
  /\ oms' = [oms EXCEPT ![o] = "SUBMITTED"]
  /\ broker' = IF connected THEN [broker EXCEPT ![o] = "SUBMITTED"] ELSE broker
  /\ UNCHANGED <<byHand, connected, chain, session, engine, boots>>

Disable(control) ==
  /\ controls' = controls \cup {control}
  /\ UNCHANGED <<stopped, world, chain, session, boots>>

\* Mutant of CancelAllOpenOrders: submissions stay enabled.
CancelAllButTrade ==
  /\ stopped' = TRUE
  /\ oms' = [o \in Orders |-> IF oms[o] \in Working THEN "CANCELLED" ELSE oms[o]]
  /\ UNCHANGED <<controls, broker, byHand, connected, chain, session, boots>>

CancelAllOpenOrders ==
  /\ controls' = controls \cup {"submissions"}
  /\ stopped' = TRUE
  /\ oms' = [o \in Orders |-> IF oms[o] \in Working THEN "CANCELLED" ELSE oms[o]]
  /\ UNCHANGED <<broker, byHand, connected, chain, session, boots>>

-----------------------------------------------------------------------------
(* The broker, the connection and the process.                               *)

BrokerEnds(o) ==
  /\ broker[o] \in Working
  /\ \E end \in {"FILLED", "CANCELLED"} : broker' = [broker EXCEPT ![o] = end]
  /\ UNCHANGED <<oms, byHand, connected, chain, session, engine, boots>>

\* A fill reaches OMS.fill_order, which books it and calls on_fill_event; a
\* fill for an order the OMS has closed is recorded as late and not booked.
DeliverFill(o) ==
  /\ connected
  /\ broker[o] = "FILLED" /\ oms[o] \in Working
  /\ LET book == [oms EXCEPT ![o] = "FILLED"]
     IN  oms' = book /\ TargetedReconciliation(book)
  /\ UNCHANGED <<broker, byHand, connected, engine, boots>>

DeliverCancel(o) ==
  /\ connected
  /\ broker[o] = "CANCELLED" /\ oms[o] \in Working
  /\ oms' = [oms EXCEPT ![o] = "CANCELLED"]
  /\ UNCHANGED <<broker, byHand, connected, chain, session, engine, boots>>

BuyByHand ==
  /\ byHand < MaxByHand
  /\ byHand' = byHand + 1
  /\ UNCHANGED <<oms, broker, connected, chain, session, engine, boots>>

ConnectOrDrop ==
  /\ connected' = ~connected
  /\ UNCHANGED <<oms, broker, byHand, chain, session, engine, boots>>

\* The OMS is rebuilt from its ledger; chain, scheduler and engine start anew.
Restart ==
  /\ boots < MaxBoots
  /\ boots' = boots + 1
  /\ connected' = FALSE
  /\ blocks' = FALSE /\ chainStatus' = "CLEARED" /\ unresolved' = {}
  /\ halted' = FALSE /\ startupDone' = FALSE
  /\ controls' = {} /\ stopped' = FALSE
  /\ UNCHANGED <<oms, broker, byHand, raised, settled, bySession>>

Next ==
  \/ Resolve \/ ReconcileAll \/ ReconcileAgainstSnapshot
  \/ Periodic
  \/ \E in \in Inputs : Startup(in)
  \/ \E in \in Inputs : SessionEnd(in)
  \/ ReconnectWithoutSnapshot \/ ReconnectWithSnapshot
  \/ \E valid \in BOOLEAN : CheckMarketCalendar(valid)
  \/ \E o \in Orders : Place(o)
  \/ \E control \in Controls : Disable(control)
  \/ CancelAllOpenOrders
  \/ \E o \in Orders : BrokerEnds(o)
  \/ \E o \in Orders : DeliverFill(o)
  \/ \E o \in Orders : DeliverCancel(o)
  \/ BuyByHand \/ ConnectOrDrop
  \/ Restart

\* The scheduler's periodic hook is called again and again.
Spec == Init /\ [][Next]_vars /\ WF_vars(Periodic)

-----------------------------------------------------------------------------
(* Safety.                                                                   *)

(* "New orders stay blocked until an operator resolution is recorded; the    *)
(* block survives persistence or alert delivery failures"                    *)
(* (reconciliation/__init__.py:4-6): in every state of a process, new orders *)
(* are blocked exactly while an incident is without a resolution.            *)
BlockedIffUnresolved ==
  /\ blocks <=> unresolved # {}
  /\ blocks <=> chainStatus = "OPERATOR_RESOLUTION_REQUIRED"

(* "The only path that unblocks new orders" (reconciliation/__init__.py:181) *)
(* is a resolution that covers every incident open at that time; a process   *)
(* that dies is not a path within the process.                               *)
OnlyOperatorUnblocks ==
  [][(boots' = boots /\ blocks /\ ~blocks') => unresolved \subseteq settled']_vars

(* "A confirmed reconciliation mismatch fails the session closed"            *)
(* (SessionScheduler): while an incident the scheduler raised is open, no    *)
(* calendar check, reconnect or startup lets the session trade again.        *)
SessionFindingsHalt == unresolved \cap bySession # {} => ~ShouldTrade

(* Whatever starts trading, be it a startup, a reconnect or an open market,  *)
(* starts it with no incident open, those the scheduler never saw included.  *)
TradingStartsClean == [][~ShouldTrade /\ ShouldTrade' => unresolved' = {}]_vars

(* After an emergency stop the OMS works on no order, and accepts none until *)
(* the process restarts (cancel_all_open_orders, check_order).               *)
EmergencyStopHolds == stopped => \A o \in Orders : oms[o] \notin Working

(* Shares nobody accounts for are found: when the broker holds something     *)
(* else than the ledger says, the periodic reconciliation blocks new orders, *)
(* unless the difference goes away, the connection drops, or the bound on    *)
(* incidents is reached.                                                     *)
DriftIsFound ==
  (connected /\ ~PositionsAgree(oms)) ~>
    (blocks \/ ~connected \/ PositionsAgree(oms) \/ raised = MaxIncidents)

-----------------------------------------------------------------------------
(* The inductive invariant.                                                  *)

StopDisables == stopped => "submissions" \in controls

IInv ==
  /\ TypeOK
  /\ BlockedIffUnresolved
  /\ SessionFindingsHalt
  /\ StopDisables
  /\ EmergencyStopHolds
=============================================================================
