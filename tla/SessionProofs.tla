--------------------------- MODULE SessionProofs ---------------------------
(***************************************************************************)
(* Proofs about Session: the inductive invariant IInv and what follows     *)
(* from it, for any orders and any bounds.                                 *)
(*                                                                         *)
(* An action touches the chain, the scheduler or the controls.  The two    *)
(* lemmas below say what raising an incident and halting do; each action   *)
(* is then a combination of them with variables it leaves alone.           *)
(***************************************************************************)
EXTENDS Session, TLAPS

\* The part of IInv that ties the chain to itself.
ChainInv ==
  /\ blocks \in BOOLEAN
  /\ chainStatus \in {"CLEARED", "OPERATOR_RESOLUTION_REQUIRED", "RESOLVED"}
  /\ raised \in 0..MaxIncidents
  /\ unresolved \subseteq 1..raised /\ settled \subseteq 1..raised
  /\ bySession \subseteq 1..raised
  /\ BlockedIffUnresolved

\* The part about the world and the controls.
StopInv ==
  /\ oms \in [Orders -> Status] /\ broker \in [Orders -> Status]
  /\ byHand \in 0..MaxByHand /\ connected \in BOOLEAN
  /\ controls \subseteq Controls /\ stopped \in BOOLEAN
  /\ StopDisables
  /\ EmergencyStopHolds

SessionInv ==
  /\ halted \in BOOLEAN /\ startupDone \in BOOLEAN
  /\ SessionFindingsHalt

LEMMA IInvParts == IInv <=> ChainInv /\ StopInv /\ SessionInv /\ boots \in 0..MaxBoots
  BY DEF IInv, TypeOK, ChainInv, StopInv, SessionInv

LEMMA TriggerChain ==
  ASSUME ChainInv, NEW b \in BOOLEAN, Trigger(b)
  PROVE  ChainInv' /\ blocks'
<1>1. raised' = raised + 1 /\ raised' \in 0..MaxIncidents
  BY SessionAssumption DEF ChainInv, Trigger
<1>2. 1..raised \subseteq 1..raised' /\ raised + 1 \in 1..raised'
  BY <1>1 DEF ChainInv
<1>3. unresolved' = unresolved \cup {raised + 1} /\ settled' = settled
  BY DEF Trigger
<1>4. bySession' \in {bySession, bySession \cup {raised + 1}}
  BY DEF Trigger
<1>5. unresolved' \subseteq 1..raised' /\ settled' \subseteq 1..raised' /\ bySession' \subseteq 1..raised'
  BY <1>2, <1>3, <1>4 DEF ChainInv
<1>6. blocks' = TRUE /\ chainStatus' = "OPERATOR_RESOLUTION_REQUIRED" /\ unresolved' # {}
  BY <1>3 DEF Trigger
<1> QED
  BY <1>1, <1>5, <1>6 DEF ChainInv, BlockedIffUnresolved

LEMMA ChainStays == ASSUME ChainInv, UNCHANGED chain PROVE ChainInv'
  BY DEF ChainInv, BlockedIffUnresolved, chain

LEMMA HaltSession == ASSUME SessionInv, Halt PROVE SessionInv'
  BY DEF SessionInv, Halt, SessionFindingsHalt, ShouldTrade

\* Whoever resumes trading does so with no incident open.
LEMMA CleanSession ==
  ASSUME SessionInv, ChainInv', ~blocks', halted' \in BOOLEAN, startupDone' \in BOOLEAN
  PROVE  SessionInv'
  BY DEF SessionInv, ChainInv, BlockedIffUnresolved, SessionFindingsHalt

LEMMA SessionStays ==
  ASSUME SessionInv, UNCHANGED <<chain, session>> PROVE SessionInv'
  BY DEF SessionInv, SessionFindingsHalt, ShouldTrade, chain, session

LEMMA StopStays ==
  ASSUME StopInv, UNCHANGED <<world, engine>> PROVE StopInv'
  BY DEF StopInv, StopDisables, EmergencyStopHolds, world, engine

\* The chain and the scheduler together, through a targeted reconciliation.
LEMMA TargetedKeeps ==
  ASSUME ChainInv, SessionInv, NEW book, TargetedReconciliation(book)
  PROVE  ChainInv' /\ SessionInv'
<1>1. CASE Trigger(TRUE) /\ Halt
  BY <1>1, TriggerChain, HaltSession
<1>2. CASE Halt /\ UNCHANGED chain
  BY <1>2, ChainStays, HaltSession
<1>3. CASE UNCHANGED <<chain, session>>
  <2>1. UNCHANGED chain
    BY <1>3
  <2> QED
    BY <1>3, <2>1, ChainStays, SessionStays
<1> QED
  BY <1>1, <1>2, <1>3 DEF TargetedReconciliation

LEMMA RunReconciliationKeeps ==
  ASSUME ChainInv, SessionInv, NEW in, NEW b \in BOOLEAN, RunReconciliation(in, b)
  PROVE  ChainInv' /\ SessionInv'
<1>1. CASE Trigger(TRUE) /\ Halt
  BY <1>1, TriggerChain, HaltSession
<1>2. CASE Halt /\ UNCHANGED chain
  BY <1>2, ChainStays, HaltSession
<1>3. CASE /\ ~blocks
           /\ startupDone' = (startupDone \/ b)
           /\ UNCHANGED <<chain, halted>>
  <2>1. ChainInv' /\ ~blocks'
    BY <1>3, ChainStays DEF chain
  <2>2. halted' \in BOOLEAN /\ startupDone' \in BOOLEAN
    BY <1>3 DEF SessionInv
  <2> QED
    BY <2>1, <2>2, CleanSession
<1> QED
  BY <1>1, <1>2, <1>3 DEF RunReconciliation

-----------------------------------------------------------------------------

LEMMA InitEstablishes == Init => IInv
<1> SUFFICES ASSUME Init PROVE IInv
  OBVIOUS
<1>1. ChainInv
  <2>1. raised \in 0..MaxIncidents /\ unresolved = {} /\ settled = {} /\ bySession = {}
    BY SessionAssumption DEF Init
  <2>2. blocks = FALSE /\ chainStatus = "CLEARED"
    BY DEF Init
  <2> QED
    BY <2>1, <2>2 DEF ChainInv, BlockedIffUnresolved
<1>2. StopInv
  <2>1. oms = [o \in Orders |-> "UNKNOWN"] /\ broker = [o \in Orders |-> "UNKNOWN"]
    BY DEF Init
  <2>2. oms \in [Orders -> Status] /\ broker \in [Orders -> Status]
    BY <2>1 DEF Status
  <2>3. byHand \in 0..MaxByHand
    BY SessionAssumption DEF Init
  <2>4. connected = FALSE
    BY DEF Init
  <2>5. controls = {} /\ stopped = FALSE
    BY DEF Init
  <2> QED
    BY <2>2, <2>3, <2>4, <2>5 DEF StopInv, StopDisables, EmergencyStopHolds
<1>3. SessionInv
  BY DEF Init, SessionInv, SessionFindingsHalt
<1>4. boots \in 0..MaxBoots
  BY SessionAssumption DEF Init
<1> QED
  BY <1>1, <1>2, <1>3, <1>4, IInvParts

LEMMA NextPreserves == IInv /\ [Next]_vars => IInv'
<1> SUFFICES ASSUME ChainInv, StopInv, SessionInv, boots \in 0..MaxBoots, [Next]_vars
             PROVE  ChainInv' /\ StopInv' /\ SessionInv' /\ (boots \in 0..MaxBoots)'
  BY DEF IInv, TypeOK, ChainInv, StopInv, SessionInv
<1> USE SessionAssumption
<1>1. CASE UNCHANGED vars
  BY <1>1, ChainStays, SessionStays, StopStays DEF vars
<1>2. CASE Resolve
  <2>1. ChainInv' /\ ~blocks'
    BY <1>2 DEF Resolve, ChainInv, BlockedIffUnresolved
  <2>2. UNCHANGED <<world, session, engine, boots>>
    BY <1>2 DEF Resolve
  <2>3. SessionInv'
    BY <2>1, <2>2, CleanSession DEF session, SessionInv
  <2> QED
    BY <2>1, <2>2, <2>3, StopStays
<1>3. CASE ReconcileAll \/ ReconcileAgainstSnapshot
  <2>1. Trigger(FALSE) /\ UNCHANGED <<world, session, engine, boots>>
    BY <1>3 DEF ReconcileAll, ReconcileAgainstSnapshot
  <2>2. ChainInv'
    BY <2>1, TriggerChain
  <2>3. unresolved' \cap bySession' = unresolved \cap bySession
    BY <2>1 DEF Trigger, ChainInv
  <2>4. SessionInv'
    BY <2>1, <2>3 DEF SessionInv, SessionFindingsHalt, ShouldTrade, session
  <2> QED
    BY <2>1, <2>2, <2>4, StopStays
<1>4. CASE Periodic
  BY <1>4, TargetedKeeps, StopStays DEF Periodic
<1>5. ASSUME NEW in \in Inputs, Startup(in)
      PROVE  ChainInv' /\ StopInv' /\ SessionInv' /\ (boots \in 0..MaxBoots)'
  <2>1. ChainInv' /\ SessionInv'
    BY <1>5, RunReconciliationKeeps, ChainStays, HaltSession DEF Startup
  <2> QED
    BY <1>5, <2>1, StopStays DEF Startup
<1>6. ASSUME NEW in \in Inputs, SessionEnd(in)
      PROVE  ChainInv' /\ StopInv' /\ SessionInv' /\ (boots \in 0..MaxBoots)'
  BY <1>6, RunReconciliationKeeps, StopStays DEF SessionEnd
<1>7. CASE ReconnectWithoutSnapshot
  BY <1>7, ChainStays, HaltSession, StopStays DEF ReconnectWithoutSnapshot
<1>8. CASE ReconnectWithSnapshot
  <2>1. UNCHANGED <<world, engine, boots>>
    BY <1>8 DEF ReconnectWithSnapshot
  <2>2. CASE Trigger(TRUE) /\ Halt
    BY <2>1, <2>2, TriggerChain, HaltSession, StopStays
  <2>3. CASE Halt /\ UNCHANGED chain
    BY <2>1, <2>3, ChainStays, HaltSession, StopStays
  <2>4. CASE ~blocks /\ startupDone' = TRUE /\ halted' = FALSE /\ UNCHANGED chain
    <3>1. ChainInv' /\ ~blocks'
      BY <2>4, ChainStays DEF chain
    <3>2. SessionInv'
      BY <2>4, <3>1, CleanSession DEF SessionInv
    <3> QED
      BY <2>1, <3>1, <3>2, StopStays
  <2> QED
    BY <1>8, <2>2, <2>3, <2>4 DEF ReconnectWithSnapshot
<1>9. ASSUME NEW valid \in BOOLEAN, CheckMarketCalendar(valid)
      PROVE  ChainInv' /\ StopInv' /\ SessionInv' /\ (boots \in 0..MaxBoots)'
  <2>1. ChainInv' /\ StopInv' /\ boots' = boots /\ blocks' = blocks
    BY <1>9, ChainStays, StopStays DEF CheckMarketCalendar, chain
  <2>2. halted' = (~valid \/ blocks) /\ startupDone' = startupDone
    BY <1>9 DEF CheckMarketCalendar
  <2>3. halted' \in BOOLEAN /\ startupDone' \in BOOLEAN
    BY <2>2 DEF SessionInv
  <2>4. SessionInv'
    <3>1. CASE blocks
      BY <2>2, <2>3, <3>1 DEF SessionInv, SessionFindingsHalt, ShouldTrade
    <3>2. CASE ~blocks
      BY <2>1, <2>3, <3>2, CleanSession
    <3> QED
      BY <3>1, <3>2
  <2> QED
    BY <2>1, <2>4
<1>10. ASSUME NEW o \in Orders, Place(o)
       PROVE  ChainInv' /\ StopInv' /\ SessionInv' /\ (boots \in 0..MaxBoots)'
  <2>1. UNCHANGED <<byHand, connected, chain, session, engine, boots>>
    BY <1>10 DEF Place
  <2>2. ~stopped
    BY <1>10 DEF Place, CheckOrder, StopInv, StopDisables
  <2>3. oms' \in [Orders -> Status] /\ broker' \in [Orders -> Status]
    BY <1>10 DEF Place, StopInv, Status, Working
  <2>4. StopInv'
    BY <2>1, <2>2, <2>3 DEF StopInv, StopDisables, EmergencyStopHolds, engine
  <2> QED
    BY <2>1, <2>4, ChainStays, SessionStays
<1>11. ASSUME NEW control \in Controls, Disable(control)
       PROVE  ChainInv' /\ StopInv' /\ SessionInv' /\ (boots \in 0..MaxBoots)'
  <2>1. UNCHANGED <<stopped, world, chain, session, boots>> /\ controls' = controls \cup {control}
    BY <1>11 DEF Disable
  <2>2. StopInv'
    BY <2>1 DEF StopInv, StopDisables, EmergencyStopHolds, world
  <2> QED
    BY <2>1, <2>2, ChainStays, SessionStays
<1>12. CASE CancelAllOpenOrders
  <2>1. UNCHANGED <<broker, byHand, connected, chain, session, boots>>
    BY <1>12 DEF CancelAllOpenOrders
  <2>2. /\ oms' = [o \in Orders |-> IF oms[o] \in Working THEN "CANCELLED" ELSE oms[o]]
        /\ controls' = controls \cup {"submissions"} /\ stopped' = TRUE
    BY <1>12 DEF CancelAllOpenOrders
  <2>3. oms' \in [Orders -> Status] /\ \A o \in Orders : oms'[o] \notin Working
    BY <2>2 DEF StopInv, Status, Working
  <2>4. StopInv'
    BY <2>1, <2>2, <2>3 DEF StopInv, StopDisables, EmergencyStopHolds, Controls
  <2> QED
    BY <2>1, <2>4, ChainStays, SessionStays
<1>13. ASSUME NEW o \in Orders, BrokerEnds(o)
       PROVE  ChainInv' /\ StopInv' /\ SessionInv' /\ (boots \in 0..MaxBoots)'
  <2>1. UNCHANGED <<oms, byHand, connected, chain, session, engine, boots>>
    BY <1>13 DEF BrokerEnds
  <2>2. broker' \in [Orders -> Status]
    BY <1>13 DEF BrokerEnds, StopInv, Status
  <2>3. StopInv'
    BY <2>1, <2>2 DEF StopInv, StopDisables, EmergencyStopHolds, engine
  <2> QED
    BY <2>1, <2>3, ChainStays, SessionStays
<1>14. ASSUME NEW o \in Orders, DeliverFill(o)
       PROVE  ChainInv' /\ StopInv' /\ SessionInv' /\ (boots \in 0..MaxBoots)'
  <2>1. UNCHANGED <<broker, byHand, connected, engine, boots>>
    BY <1>14 DEF DeliverFill
  <2>2. oms' = [oms EXCEPT ![o] = "FILLED"] /\ TargetedReconciliation([oms EXCEPT ![o] = "FILLED"])
    BY <1>14 DEF DeliverFill
  <2>3. ChainInv' /\ SessionInv'
    BY <2>2, TargetedKeeps
  <2>4. StopInv'
    BY <2>1, <2>2 DEF StopInv, StopDisables, EmergencyStopHolds, engine, Status, Working
  <2> QED
    BY <2>1, <2>3, <2>4
<1>15. ASSUME NEW o \in Orders, DeliverCancel(o)
       PROVE  ChainInv' /\ StopInv' /\ SessionInv' /\ (boots \in 0..MaxBoots)'
  <2>1. /\ UNCHANGED <<broker, byHand, connected, chain, session, engine, boots>>
        /\ oms' = [oms EXCEPT ![o] = "CANCELLED"]
    BY <1>15 DEF DeliverCancel
  <2>2. StopInv'
    BY <2>1 DEF StopInv, StopDisables, EmergencyStopHolds, engine, Status, Working
  <2> QED
    BY <2>1, <2>2, ChainStays, SessionStays
<1>16. CASE BuyByHand \/ ConnectOrDrop
  <2>1. UNCHANGED <<oms, broker, chain, session, engine, boots>>
    BY <1>16 DEF BuyByHand, ConnectOrDrop
  <2>2. byHand' \in 0..MaxByHand /\ connected' \in BOOLEAN
    <3>1. CASE BuyByHand
      BY <3>1 DEF BuyByHand, StopInv
    <3>2. CASE ConnectOrDrop
      BY <3>2 DEF ConnectOrDrop, StopInv
    <3> QED
      BY <1>16, <3>1, <3>2
  <2>3. StopInv'
    BY <2>1, <2>2 DEF StopInv, StopDisables, EmergencyStopHolds, engine
  <2> QED
    BY <2>1, <2>3, ChainStays, SessionStays
<1>17. CASE Restart
  <2>1. ChainInv' /\ ~blocks'
    BY <1>17 DEF Restart, ChainInv, BlockedIffUnresolved
  <2>2. SessionInv'
    BY <1>17, <2>1, CleanSession DEF Restart
  <2>3. StopInv'
    BY <1>17 DEF Restart, StopInv, StopDisables, EmergencyStopHolds, Controls
  <2>4. (boots \in 0..MaxBoots)'
    BY <1>17 DEF Restart
  <2> QED
    BY <2>1, <2>2, <2>3, <2>4
<1> QED
  BY <1>1, <1>2, <1>3, <1>4, <1>5, <1>6, <1>7, <1>8, <1>9, <1>10, <1>11, <1>12, <1>13, <1>14,
     <1>15, <1>16, <1>17 DEF Next

-----------------------------------------------------------------------------

(* Every reachable state of the session satisfies the inductive invariant.   *)
THEOREM SessionInvariance == Spec => []IInv
  BY InitEstablishes, NextPreserves, PTL DEF Spec

(* Every reachable state is well typed.                                      *)
THEOREM SessionTypeCorrect == Spec => []TypeOK
<1>1. IInv => TypeOK
  BY DEF IInv
<1> QED
  BY <1>1, SessionInvariance, PTL

(* New orders are blocked exactly while an incident is without resolution    *)
(* (FailClosedChain).                                                        *)
THEOREM BlockedExactly == Spec => []BlockedIffUnresolved
<1>1. IInv => BlockedIffUnresolved
  BY DEF IInv
<1> QED
  BY <1>1, SessionInvariance, PTL

(* The session does not trade while an incident its scheduler raised is open *)
(* (SessionScheduler).                                                       *)
THEOREM FindingsHalt == Spec => []SessionFindingsHalt
<1>1. IInv => SessionFindingsHalt
  BY DEF IInv
<1> QED
  BY <1>1, SessionInvariance, PTL

(* After an emergency stop no order works in the OMS (HardRiskEngine).       *)
THEOREM StopHolds == Spec => []EmergencyStopHolds
<1>1. IInv => EmergencyStopHolds
  BY DEF IInv
<1> QED
  BY <1>1, SessionInvariance, PTL
-----------------------------------------------------------------------------
(* The action properties.                                                    *)

\* What a step may do to the chain, and what to the scheduler.
ChainStep ==
  \/ blocks'
  \/ unresolved \subseteq settled'
  \/ boots' # boots
  \/ blocks' = blocks

SessionStep == halted' \/ ~blocks' \/ (halted' = halted /\ startupDone' = startupDone)

LEMMA TriggerBlocks == ASSUME NEW b, Trigger(b) PROVE blocks'
  BY DEF Trigger

LEMMA HaltHalts == ASSUME Halt PROVE halted'
  BY DEF Halt

LEMMA StepsAreSteps == ASSUME IInv, Next PROVE ChainStep /\ SessionStep
<1>1. CASE Resolve
  BY <1>1 DEF Resolve, ChainStep, SessionStep
<1>2. CASE ReconcileAll \/ ReconcileAgainstSnapshot
  BY <1>2, TriggerBlocks DEF ReconcileAll, ReconcileAgainstSnapshot, ChainStep, SessionStep, session
<1>3. ASSUME NEW book, TargetedReconciliation(book) PROVE ChainStep /\ SessionStep
  BY <1>3, TriggerBlocks, HaltHalts
  DEF TargetedReconciliation, ChainStep, SessionStep, chain, session
<1>4. ASSUME NEW in, NEW b, RunReconciliation(in, b) PROVE ChainStep /\ SessionStep
  BY <1>4, TriggerBlocks, HaltHalts DEF RunReconciliation, ChainStep, SessionStep, chain
<1>5. ASSUME NEW in \in Inputs, Startup(in) PROVE ChainStep /\ SessionStep
  BY <1>4, <1>5, HaltHalts DEF Startup, ChainStep, SessionStep, chain
<1>6. ASSUME NEW in \in Inputs, SessionEnd(in) PROVE ChainStep /\ SessionStep
  BY <1>4, <1>6 DEF SessionEnd
<1>7. CASE ReconnectWithoutSnapshot
  BY <1>7, HaltHalts DEF ReconnectWithoutSnapshot, ChainStep, SessionStep, chain
<1>8. CASE ReconnectWithSnapshot
  <2>1. CASE Trigger(TRUE) /\ Halt
    BY <2>1, TriggerBlocks, HaltHalts DEF ChainStep, SessionStep
  <2>2. CASE Halt /\ UNCHANGED chain
    BY <2>2, HaltHalts DEF ChainStep, SessionStep, chain
  <2>3. CASE ~blocks /\ UNCHANGED chain
    <3>1. blocks' = blocks
      BY <2>3 DEF chain
    <3> QED
      BY <2>3, <3>1 DEF ChainStep, SessionStep
  <2> QED
    BY <1>8, <2>1, <2>2, <2>3 DEF ReconnectWithSnapshot
<1>9. ASSUME NEW valid \in BOOLEAN, CheckMarketCalendar(valid) PROVE ChainStep /\ SessionStep
  <2>1. blocks' = blocks /\ blocks \in BOOLEAN /\ halted' = (~valid \/ blocks)
    BY <1>9 DEF CheckMarketCalendar, chain, IInv, TypeOK
  <2> QED
    BY <2>1 DEF ChainStep, SessionStep
<1>10. ASSUME NEW o \in Orders, DeliverFill(o) PROVE ChainStep /\ SessionStep
  BY <1>3, <1>10 DEF DeliverFill
<1>11. CASE UNCHANGED <<chain, session>>
  BY <1>11 DEF ChainStep, SessionStep, chain, session
<1>12. CASE Restart
  BY <1>12 DEF Restart, ChainStep, SessionStep, IInv, TypeOK
<1> QED
  BY <1>1, <1>2, <1>3, <1>5, <1>6, <1>7, <1>8, <1>9, <1>10, <1>11, <1>12
  DEF Next, Periodic, Place, Disable, CancelAllOpenOrders, BrokerEnds, DeliverCancel,
      BuyByHand, ConnectOrDrop

(* Within a process, new orders are unblocked by a resolution of all open    *)
(* incidents only (FailClosedChain.resolve).                                 *)
THEOREM OperatorUnblocks == Spec => OnlyOperatorUnblocks
<1>1. IInv /\ [Next]_vars =>
        [(boots' = boots /\ blocks /\ ~blocks') => unresolved \subseteq settled']_vars
  BY StepsAreSteps DEF ChainStep
<1> QED
  BY <1>1, SessionInvariance, PTL DEF Spec, OnlyOperatorUnblocks

(* Trading starts with no incident open, whatever starts it                  *)
(* (SessionScheduler).                                                       *)
THEOREM StartsClean == Spec => TradingStartsClean
<1>1. IInv /\ IInv' /\ [Next]_vars =>
        [~ShouldTrade /\ ShouldTrade' => unresolved' = {}]_vars
  <2> SUFFICES ASSUME IInv, IInv', Next, ~ShouldTrade, ShouldTrade' PROVE unresolved' = {}
    OBVIOUS
  <2>1. ~blocks'
    BY StepsAreSteps DEF SessionStep, ShouldTrade
  <2> QED
    BY <2>1 DEF IInv, BlockedIffUnresolved
<1> QED
  BY <1>1, SessionInvariance, PTL DEF Spec, TradingStartsClean
=============================================================================
