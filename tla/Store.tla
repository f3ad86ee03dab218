------------------------------- MODULE Store -------------------------------
(***************************************************************************)
(* The PostgreSQL store (persistence/postgres.py): durable rows of order   *)
(* intents, risk decisions, orders and fills, the tables written once, and *)
(* the recovery at startup.                                                *)
(*                                                                         *)
(* Every statement is atomic and its connection may break: before it, so   *)
(* that nothing happened, or after it, so that it is done and the caller   *)
(* is told PersistenceUnavailable.  transition_order is a transaction that *)
(* reads first and writes later; other callers run between the two.        *)
(***************************************************************************)
EXTENDS Integers, FiniteSets, Functions, Tables

CONSTANTS
  Orders,      \* order ids
  Keys,        \* idempotency keys
  BrokerIds,   \* broker order ids
  Reports,     \* execution reports: [exec, order, trade]
  Callers,     \* concurrent users of the pool
  Payloads,    \* contents of the tables written once
  NoId,        \* a broker order id or a broker trade id that is not given
  MaxRows,     \* bound on the rows in all tables
  MaxBreaks    \* bound on broken connections and restarts

ASSUME StoreAssumption ==
  /\ IsFiniteSet(Orders) /\ IsFiniteSet(Reports)
  /\ MaxRows \in Nat /\ MaxBreaks \in Nat
  /\ NoId \notin BrokerIds

VARIABLES
  pool,       \* connected
  schema,     \* the migrations are applied
  intents,    \* order_intents: order id |-> idempotency key
  decisions,  \* risk_decisions: order id |-> decision
  orders,     \* orders: order id |-> [status, broker]
  fills,      \* fills: set of reports
  records,    \* the other tables: set of <<table, id>> |-> payload
  tx,         \* transition_order under way: caller |-> [order, status, broker]
  recovery,   \* the RecoveryState returned by the last step, if it was one
  \* history
  admitted,   \* keys for which create_order_intent answered true, how often
  booked,     \* executions for which record_fill answered true, how often
  approvedOnce, \* orders some approved decision with a policy version was stored for
  acked,      \* status of the last transition answered, while it is the last one
  breaks

tables == <<intents, decisions, orders, fills, records>>
history == <<admitted, booked, approvedOnce, acked>>
vars == <<pool, schema, tables, tx, recovery, history, breaks>>

Empty == [x \in {} |-> NoId]
Idle == [busy |-> FALSE]
Unread == [read |-> FALSE]

\* The statuses recover leaves out, and the others.
Closed == {"FILLED", "CANCELED"}
Status == {"SUBMITTED"} \cup Closed

\* A decision approves with a policy version, approves without one, or rejects.
Decisions == {"approved", "unversioned", "rejected"}

Strict == {"journal_events", "operator_authorizations", "reconciliation_results",
           "incidents", "portfolio_snapshots"}
Lenient == {"signals", "policy_versions", "model_metadata", "shadow_decisions"}
Upserted == {"positions"}
RecordTables == Strict \cup Lenient \cup Upserted

Init ==
  /\ pool = FALSE /\ schema = FALSE
  /\ intents = Empty /\ decisions = Empty /\ orders = Empty
  /\ fills = {} /\ records = Empty
  /\ tx = [c \in Callers |-> Idle]
  /\ recovery = Unread
  /\ admitted = [k \in Keys |-> 0]
  /\ booked = [r \in Reports |-> 0]
  /\ approvedOnce = {} /\ acked = Empty
  /\ breaks = 0

\* Bounds: rows of orders and rows written once.  No foreign key joins the two kinds
\* of tables, so a behaviour fills one kind only.
Rows == Cardinality(DOMAIN intents) + Cardinality(DOMAIN decisions)
        + Cardinality(DOMAIN orders) + Cardinality(fills)
Room == Rows < MaxRows /\ records = Empty
RecordRoom == Cardinality(DOMAIN records) < 2 /\ intents = Empty

\* A statement reaches the server: _require_pool passed and the tables exist.
Served == pool /\ schema


----------------------------------------------------------------------------

Connect ==
  /\ pool' = TRUE
  /\ UNCHANGED <<schema, tables, tx, history, breaks>>

\* All the scripts are applied in one transaction, each of them once.
Migrate ==
  /\ pool
  /\ schema' = TRUE
  /\ UNCHANGED <<pool, tables, tx, history, breaks>>

\* The answer to a statement that was carried out: it arrives, or the connection
\* broke and the caller is told PersistenceUnavailable.
Answered == breaks' = breaks
AnswerLost == breaks < MaxBreaks /\ breaks' = breaks + 1

Inserted(table, id, p) ==
  /\ records' = With(records, <<table, id>>, p)
  /\ RecordRoom

\* INSERT without a conflict clause: a row there already is an error.
InsertStrict(table, id, p) ==
  /\ Served /\ <<table, id>> \notin DOMAIN records
  /\ Inserted(table, id, p)
  /\ Answered
  /\ UNCHANGED <<pool, schema, intents, decisions, orders, fills, tx, history>>

\* INSERT ... ON CONFLICT (id) DO NOTHING: the first payload stays.
InsertLenient(table, id, p) ==
  /\ Served
  /\ IF <<table, id>> \in DOMAIN records THEN UNCHANGED records ELSE Inserted(table, id, p)
  /\ Answered
  /\ UNCHANGED <<pool, schema, intents, decisions, orders, fills, tx, history>>

AppendJournalEvent(id, p) == InsertStrict("journal_events", id, p)
RecordOperatorAuthorization(id, p) == InsertStrict("operator_authorizations", id, p)
RecordReconciliation(id, p) == InsertStrict("reconciliation_results", id, p)
RecordIncident(id, p) == InsertStrict("incidents", id, p)
SaveSnapshot(id, p) == InsertStrict("portfolio_snapshots", id, p)
RecordSignal(id, p) == InsertLenient("signals", id, p)
RecordPolicyVersion(id, p) == InsertLenient("policy_versions", id, p)
RecordModelMetadata(id, p) == InsertLenient("model_metadata", id, p)
RecordShadowDecision(id, p) == InsertLenient("shadow_decisions", id, p)

UpsertPosition(id, p) ==
  /\ Served
  /\ \/ Inserted("positions", id, p)
     \/ <<"positions", id>> \in DOMAIN records /\ records' = With(records, <<"positions", id>>, p)
  /\ Answered
  /\ UNCHANGED <<pool, schema, intents, decisions, orders, fills, tx, history>>

----------------------------------------------------------------------------

\* ON CONFLICT (idempotency_key) DO NOTHING.
CreateIntentAnswer(o, k) == k \notin Range(intents)

\* A key seen before answers false; the same order under another key is an error,
\* because only conflicts of the key are passed over.
CreateOrderIntent(o, k) ==
  /\ Served
  /\ CreateIntentAnswer(o, k) => o \notin DOMAIN intents
  /\ IF CreateIntentAnswer(o, k)
       THEN Room /\ intents' = With(intents, o, k)
       ELSE UNCHANGED intents
  /\ \/ /\ Answered
        /\ admitted' = IF CreateIntentAnswer(o, k) THEN [admitted EXCEPT ![k] = @ + 1] ELSE admitted
     \/ AnswerLost /\ UNCHANGED admitted
  /\ UNCHANGED <<pool, schema, decisions, orders, fills, records, tx, booked, approvedOnce, acked>>

\* The last decision about an order wins, also after the order was sent.
RecordRiskDecision(o, d) ==
  /\ Served /\ o \in DOMAIN intents
  /\ o \in DOMAIN decisions \/ Room
  /\ decisions' = With(decisions, o, d)
  /\ approvedOnce' = IF d = "approved" THEN approvedOnce \cup {o} ELSE approvedOnce
  /\ Answered
  /\ UNCHANGED <<pool, schema, intents, orders, fills, records, tx, admitted, booked, acked>>

\* With only the presence of a decision looked at.
AllowedByAnyDecision(o, status) ==
  /\ o \in DOMAIN decisions
  /\ status = "FILLED" => \E r \in fills : r.order = o

\* What transition_order demands before it writes.
Allowed(o, status) ==
  /\ o \in DOMAIN decisions
  /\ decisions[o] = "approved"
  /\ status = "FILLED" => \E r \in fills : r.order = o

\* transition_order, the reads: a refusal raises and leaves no trace.
BeginTransition(c, o, status, broker) ==
  /\ Served /\ ~tx[c].busy
  /\ Allowed(o, status)
  /\ tx' = [tx EXCEPT ![c] = [busy |-> TRUE, order |-> o, status |-> status, broker |-> broker]]
  /\ acked' = Without(acked, o)
  /\ UNCHANGED <<pool, schema, tables, admitted, booked, approvedOnce, breaks>>

\* COALESCE(EXCLUDED.broker_order_id, orders.broker_order_id).
BrokerAfter(t) ==
  IF t.broker = NoId /\ t.order \in DOMAIN orders THEN orders[t.order].broker ELSE t.broker

OthersOf(c) == {d \in Callers \ {c} : tx[d].busy /\ tx[d].order = tx[c].order}

\* transition_order, the upsert and the commit.  Another order with the same broker
\* id is a conflict that rolls back (AbortTransition).
CommitTransition(c) ==
  LET t == tx[c] IN
  /\ Served /\ t.busy
  /\ t.order \in DOMAIN orders \/ Room
  /\ BrokerAfter(t) # NoId =>
       \A o \in DOMAIN orders \ {t.order} : orders[o].broker # BrokerAfter(t)
  /\ orders' = With(orders, t.order, [status |-> t.status, broker |-> BrokerAfter(t)])
  /\ tx' = [tx EXCEPT ![c] = Idle]
  /\ \/ /\ Answered
        /\ acked' = IF OthersOf(c) = {} THEN With(acked, t.order, t.status) ELSE acked
     \/ AnswerLost /\ UNCHANGED acked
  /\ UNCHANGED <<pool, schema, intents, decisions, fills, records, admitted, booked, approvedOnce>>

AbortTransition(c) ==
  /\ tx[c].busy
  /\ breaks < MaxBreaks
  /\ tx' = [tx EXCEPT ![c] = Idle]
  /\ breaks' = breaks + 1
  /\ UNCHANGED <<pool, schema, tables, history>>

\* With the execution id as the only conflict.
BookedByExecution(r) == \E f \in fills : f.exec = r.exec

\* ON CONFLICT DO NOTHING without a target: the primary key execution_id and the
\* unique broker_trade_id both count; a trade id that is not given is never equal.
Booked(r) == \E f \in fills : f.exec = r.exec \/ (r.trade # NoId /\ f.trade = r.trade)

\* A fill of an order without a row in orders violates the foreign key.
RecordFill(r) ==
  /\ Served
  /\ ~Booked(r) => r.order \in DOMAIN orders /\ Room
  /\ fills' = IF Booked(r) THEN fills ELSE fills \cup {r}
  /\ \/ /\ Answered
        /\ booked' = IF Booked(r) THEN booked ELSE [booked EXCEPT ![r] = @ + 1]
     \/ AnswerLost /\ UNCHANGED booked
  /\ UNCHANGED <<pool, schema, intents, decisions, orders, records, tx, admitted, approvedOnce, acked>>

----------------------------------------------------------------------------

\* recover: the rows whose status is not closed, or PersistenceUnavailable.
OpenOrders == {o \in DOMAIN orders : orders[o].status \notin Closed}

Recovered == [read |-> TRUE, blocked |-> FALSE, open |-> OpenOrders]
\* An empty answer that does not block.
FailsOpen == [read |-> TRUE, blocked |-> FALSE, open |-> {}]

Blocked == [read |-> TRUE, blocked |-> TRUE, open |-> {}]

\* Any query may fail, also on a pool that is connected.  An error of PostgreSQL, or a
\* missing pool, answers blocked; any other (OSError, TimeoutError, InterfaceError of
\* the pool) passes both except clauses and leaves the caller without an answer.
FailClosedRecovery ==
  /\ \/ Served /\ recovery' = Recovered
     \/ recovery' = Blocked
     \/ recovery' = Unread
  /\ UNCHANGED <<pool, schema, tables, tx, history, breaks>>

\* close, or the process ends: the transactions under way roll back.
Restart ==
  /\ breaks < MaxBreaks
  /\ pool' = FALSE
  /\ tx' = [c \in Callers |-> Idle]
  /\ breaks' = breaks + 1
  /\ UNCHANGED <<schema, tables, history>>

Records ==
  \E id \in {1}, p \in Payloads :
    \/ AppendJournalEvent(id, p) \/ RecordOperatorAuthorization(id, p)
    \/ RecordReconciliation(id, p) \/ RecordIncident(id, p) \/ SaveSnapshot(id, p)
    \/ RecordSignal(id, p) \/ RecordPolicyVersion(id, p) \/ RecordModelMetadata(id, p)
    \/ RecordShadowDecision(id, p) \/ UpsertPosition(id, p)

Use ==
  \/ Connect \/ Migrate \/ Restart
  \/ Records
  \/ \E o \in Orders, k \in Keys : CreateOrderIntent(o, k)
  \/ \E o \in Orders, d \in Decisions : RecordRiskDecision(o, d)
  \/ \E c \in Callers, o \in Orders, s \in Status, b \in BrokerIds \cup {NoId} :
       BeginTransition(c, o, s, b)
  \/ \E c \in Callers : CommitTransition(c) \/ AbortTransition(c)
  \/ \E r \in Reports : RecordFill(r)

Next == FailClosedRecovery \/ (Use /\ recovery' = Unread)

Spec == Init /\ [][Next]_vars

----------------------------------------------------------------------------
\* PROPERTIES

\* Every variable keeps its type.
TypeOK ==
  /\ pool \in BOOLEAN /\ schema \in BOOLEAN
  /\ DOMAIN intents \subseteq Orders /\ Range(intents) \subseteq Keys
  /\ DOMAIN decisions \subseteq Orders
  /\ Range(decisions) \subseteq Decisions
  /\ DOMAIN orders \subseteq Orders
  /\ Range(orders) \subseteq [status : Status, broker : BrokerIds \cup {NoId}]
  /\ fills \subseteq Reports
  /\ DOMAIN records \subseteq RecordTables \X {1} /\ Range(records) \subseteq Payloads
  /\ breaks \in 0..MaxBreaks

\* An order that reached the table orders was approved under a named policy at some
\* time before, whatever was decided, broken off or retried since, and one that is
\* FILLED has a fill in the store (transition_order).
SentOrdersWereApproved ==
  /\ DOMAIN orders \subseteq approvedOnce
  /\ \A o \in DOMAIN orders : orders[o].status = "FILLED" => \E r \in fills : r.order = o

\* However often a call is repeated because its answer was lost, the store admits a
\* key once and a broker trade once, and says yes to one caller at most
\* (create_order_intent, record_fill).
AdmittedOnce ==
  /\ \A k \in Keys : admitted[k] <= 1 /\ Cardinality({o \in DOMAIN intents : intents[o] = k}) <= 1
  /\ \A r \in Reports : booked[r] <= 1
  /\ \A r, s \in fills : r # s => r.exec # s.exec /\ (r.trade = NoId \/ r.trade # s.trade)

\* A recovery that is answered and does not block lists every order whose last
\* transition was answered with an open status: what the application was told is not
\* lost by a broken connection or a restart (fail_closed_recovery).  It says nothing of
\* a recovery that raises.
RecoveryMissesNoOrder ==
  [][recovery' # recovery /\ recovery'.read =>
       \/ recovery'.blocked
       \/ \A o \in DOMAIN acked : acked[o] \notin Closed => o \in recovery'.open]_vars

\* What is written once is never changed or removed, only positions are
\* (the tables and the journal's trigger in migrations/0001_core.sql).
RecordsAreImmutable ==
  [][\A x \in DOMAIN records : x[1] \notin Upserted =>
        x \in DOMAIN records' /\ records'[x] = records[x]]_vars
=============================================================================
