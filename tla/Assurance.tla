------------------------------ MODULE Assurance ------------------------------
(***************************************************************************)
(* The records a strategy's permission to trade is drawn from, each kept by *)
(* a part of its own: market data, experiments, research runs, promotion,   *)
(* drift, shadow operation, forward evidence and signs of life.  They share *)
(* no state; a behaviour follows one.                                       *)
(***************************************************************************)
EXTENDS MarketData, Experiments, Research, Promotion, Shadow, Evidence, Heartbeat

CONSTANT Subjects  \* the parts that behaviours follow

ASSUME AssuranceAssumption ==
  Subjects \subseteq {"market data", "experiments", "research", "promotion", "drift", "shadow", "evidence", "heartbeat"}

VARIABLE subject

vars == <<marketData, experiments, research, promotion, drift, shadow, evidence, monitoring, subject>>

Init ==
  /\ MarketDataInit /\ ExperimentsInit /\ ResearchInit /\ PromotionInit /\ DriftInit
  /\ ShadowInit /\ EvidenceInit /\ HeartbeatInit
  /\ subject \in Subjects
  \* The environments of the parts that a behaviour does not follow do not matter.
  /\ subject # "market data" => market = CHOOSE m \in Markets : TRUE
  /\ subject # "research" => dataset = CHOOSE d \in Datasets : TRUE
  /\ subject # "heartbeat" => probe = "none"

Follow(part, Step) == subject = part /\ Step /\ UNCHANGED subject

Next ==
  \/ Follow("market data", MarketDataNext) /\ UNCHANGED <<experiments, research, promotion, drift, shadow, evidence, monitoring>>
  \/ Follow("experiments", ExperimentsNext) /\ UNCHANGED <<marketData, research, promotion, drift, shadow, evidence, monitoring>>
  \/ Follow("research", ResearchNext) /\ UNCHANGED <<marketData, experiments, promotion, drift, shadow, evidence, monitoring>>
  \/ Follow("promotion", PromotionNext) /\ UNCHANGED <<marketData, experiments, research, drift, shadow, evidence, monitoring>>
  \/ Follow("drift", DriftNext) /\ UNCHANGED <<marketData, experiments, research, promotion, shadow, evidence, monitoring>>
  \/ Follow("shadow", ShadowNext) /\ UNCHANGED <<marketData, experiments, research, promotion, drift, evidence, monitoring>>
  \/ Follow("evidence", EvidenceNext) /\ UNCHANGED <<marketData, experiments, research, promotion, drift, shadow, monitoring>>
  \/ Follow("heartbeat", HeartbeatNext) /\ UNCHANGED <<marketData, experiments, research, promotion, drift, shadow, evidence>>

\* The clock goes on, and the watcher checks again and again, whatever the trading
\* loop does.
Watched(Step) == Follow("heartbeat", Step) /\ UNCHANGED <<marketData, experiments, research, promotion, drift, shadow, evidence>>

Spec == Init /\ [][Next]_vars /\ WF_vars(Watched(Tick)) /\ WF_vars(Watched(CheckAndAlert))

\* A trading loop that died is noticed and stays noticed, however shortly before it
\* gave its last sign of life, and whatever the last bar was stamped: the dead-man
\* alert goes out, and neither the data nor the database counts as healthy any
\* more, although the database itself may answer.
SilenceIsNoticed ==
  (subject = "heartbeat" /\ ~loop) ~> [](alerted /\ ~IsHealthy /\ ~DataFresh /\ ~DatabaseHealthy)
=============================================================================
