---------------------------- MODULE StoreProofs ----------------------------
(***************************************************************************)
(* Proofs about the PostgreSQL store, for any orders, keys, reports,       *)
(* callers and numbers of rows and breaks.                                 *)
(*                                                                         *)
(* A transition commits what it read some statements earlier, so what its  *)
(* reads established has to stay true until then: a decision may be        *)
(* overturned, but an approval once given and a fill once stored stay      *)
(* (ApprovedInv).  A call whose answer was lost is repeated against rows    *)
(* that remember it (AdmitInv).  An answered status is the stored one until *)
(* the next transition of the order begins (AckInv).                       *)
(***************************************************************************)
EXTENDS Store, FiniteSetTheorems, TLAPS

Transition == [busy : {TRUE}, order : Orders, status : Status, broker : BrokerIds \cup {NoId}]

TxInv == tx \in [Callers -> {Idle} \cup Transition]

ApprovedInv ==
  /\ \A o \in DOMAIN decisions : decisions[o] = "approved" => o \in approvedOnce
  /\ \A c \in Callers : tx[c].busy =>
       /\ tx[c].order \in approvedOnce
       /\ tx[c].status = "FILLED" => \E r \in fills : r.order = tx[c].order
  /\ SentOrdersWereApproved

AdmitInv ==
  /\ admitted \in [Keys -> Nat] /\ booked \in [Reports -> Nat]
  /\ \A k \in Keys : admitted[k] <= 1 /\ (admitted[k] = 1 => \E o \in DOMAIN intents : intents[o] = k)
  /\ \A o, p \in DOMAIN intents : intents[o] = intents[p] => o = p
  /\ fills \subseteq Reports
  /\ \A r \in Reports : booked[r] <= 1 /\ (booked[r] = 1 => r \in fills)
  /\ \A r, s \in fills : r # s => r.exec # s.exec /\ (r.trade = NoId \/ r.trade # s.trade)

AckInv ==
  /\ \A o \in DOMAIN acked : o \in DOMAIN orders /\ orders[o].status = acked[o]
  /\ \A c \in Callers : tx[c].busy => tx[c].order \notin DOMAIN acked

IInv == TxInv /\ ApprovedInv /\ AdmitInv /\ AckInv

-----------------------------------------------------------------------------
\* What a function is after a row was dropped, and what its range is.

LEMMA WithoutDef ==
  ASSUME NEW f, NEW x
  PROVE  /\ DOMAIN Without(f, x) = DOMAIN f \ {x}
         /\ \A z \in DOMAIN f \ {x} : Without(f, x)[z] = f[z]
  BY DEF Without, Restrict

LEMMA RangeDef == ASSUME NEW f, NEW y PROVE y \in Range(f) <=> \E x \in DOMAIN f : f[x] = y
  BY DEF Range

-----------------------------------------------------------------------------
\* The statements that touch none of the rows the invariant speaks of.

Rest == <<intents, decisions, orders, fills, tx, history>>

LEMMA RecordsKeepRest == ASSUME Records PROVE UNCHANGED Rest
<1>1. PICK id \in {1}, p \in Payloads :
        \/ AppendJournalEvent(id, p) \/ RecordOperatorAuthorization(id, p)
        \/ RecordReconciliation(id, p) \/ RecordIncident(id, p) \/ SaveSnapshot(id, p)
        \/ RecordSignal(id, p) \/ RecordPolicyVersion(id, p) \/ RecordModelMetadata(id, p)
        \/ RecordShadowDecision(id, p) \/ UpsertPosition(id, p)
  BY DEF Records
<1>2. ASSUME NEW t, InsertStrict(t, id, p) PROVE UNCHANGED Rest
  BY <1>2 DEF InsertStrict, Rest
<1>3. ASSUME NEW t, InsertLenient(t, id, p) PROVE UNCHANGED Rest
  BY <1>3 DEF InsertLenient, Rest
<1>4. ASSUME UpsertPosition(id, p) PROVE UNCHANGED Rest
  BY <1>4 DEF UpsertPosition, Rest
<1> QED
  BY <1>1, <1>2, <1>3, <1>4 DEF AppendJournalEvent, RecordOperatorAuthorization, RecordReconciliation,
     RecordIncident, SaveSnapshot, RecordSignal, RecordPolicyVersion, RecordModelMetadata, RecordShadowDecision

LEMMA RestKeepsInv == ASSUME IInv, UNCHANGED Rest PROVE IInv'
  BY DEF IInv, Rest, TxInv, ApprovedInv, SentOrdersWereApproved, AdmitInv, AckInv, history

-----------------------------------------------------------------------------
\* The statements on orders.

LEMMA IntentStep ==
  ASSUME IInv, NEW o \in Orders, NEW k \in Keys, CreateOrderIntent(o, k)
  PROVE  IInv'
<1> USE DEF IInv
<1>1. /\ UNCHANGED <<decisions, orders, fills, tx, booked, approvedOnce, acked>>
      /\ TxInv' /\ ApprovedInv' /\ AckInv'
  BY DEF CreateOrderIntent, TxInv, ApprovedInv, SentOrdersWereApproved, AckInv
<1>2. CASE CreateIntentAnswer(o, k)
  <2>1. /\ o \notin DOMAIN intents
        /\ intents' = With(intents, o, k)
        /\ \A p \in DOMAIN intents : intents[p] # k
    BY <1>2, RangeDef DEF CreateOrderIntent, CreateIntentAnswer
  <2>2. /\ DOMAIN intents' = DOMAIN intents \cup {o}
        /\ intents'[o] = k
        /\ \A p \in DOMAIN intents : intents'[p] = intents[p]
    BY <2>1 DEF With
  <2>3. admitted[k] = 0
    BY <2>1 DEF AdmitInv
  <2>4. admitted' = admitted \/ admitted' = [admitted EXCEPT ![k] = @ + 1]
    BY <1>2 DEF CreateOrderIntent
  <2>5. admitted' \in [Keys -> Nat]
    BY <2>4 DEF AdmitInv
  <2>6. \A j \in Keys : admitted'[j] <= 1 /\ (admitted'[j] = 1 => \E p \in DOMAIN intents' : intents'[p] = j)
    BY <2>2, <2>3, <2>4 DEF AdmitInv
  <2>7. \A p, q \in DOMAIN intents' : intents'[p] = intents'[q] => p = q
    BY <2>1, <2>2 DEF AdmitInv
  <2> QED
    BY <1>1, <2>5, <2>6, <2>7 DEF AdmitInv
<1>3. CASE ~CreateIntentAnswer(o, k)
  BY <1>1, <1>3 DEF CreateOrderIntent, AdmitInv
<1> QED BY <1>2, <1>3

LEMMA DecisionStep ==
  ASSUME IInv, NEW o \in Orders, NEW d \in Decisions, RecordRiskDecision(o, d)
  PROVE  IInv'
<1> USE DEF IInv
<1>1. /\ decisions' = With(decisions, o, d)
      /\ UNCHANGED <<intents, orders, fills, tx, admitted, booked, acked>>
      /\ approvedOnce' = IF d = "approved" THEN approvedOnce \cup {o} ELSE approvedOnce
  BY DEF RecordRiskDecision
<1>2. TxInv' /\ AdmitInv' /\ AckInv'
  BY <1>1 DEF TxInv, AdmitInv, AckInv
<1>3. \A p \in DOMAIN decisions' : decisions'[p] = "approved" => p \in approvedOnce'
  BY <1>1 DEF ApprovedInv, With
<1>4. ApprovedInv'
  BY <1>1, <1>3 DEF ApprovedInv, SentOrdersWereApproved
<1> QED BY <1>2, <1>4

LEMMA BeginStep ==
  ASSUME IInv, NEW c \in Callers, NEW o \in Orders, NEW s \in Status, NEW b \in BrokerIds \cup {NoId},
         BeginTransition(c, o, s, b)
  PROVE  IInv'
<1> USE DEF IInv
<1> DEFINE t == [busy |-> TRUE, order |-> o, status |-> s, broker |-> b]
<1>1. /\ tx' = [tx EXCEPT ![c] = t]
      /\ acked' = Without(acked, o)
      /\ UNCHANGED <<intents, decisions, orders, fills, admitted, booked, approvedOnce>>
  BY DEF BeginTransition, tables
<1>2. /\ o \in DOMAIN decisions /\ decisions[o] = "approved"
      /\ s = "FILLED" => \E r \in fills : r.order = o
  BY DEF BeginTransition, Allowed
<1>3. /\ tx'[c] = t
      /\ \A d \in Callers \ {c} : tx'[d] = tx[d]
      /\ TxInv'
  BY <1>1 DEF TxInv, Transition
<1>4. ApprovedInv'
  BY <1>1, <1>2, <1>3 DEF ApprovedInv, SentOrdersWereApproved
<1>5. AdmitInv'
  BY <1>1 DEF AdmitInv
<1>6. /\ DOMAIN acked' = DOMAIN acked \ {o}
      /\ \A p \in DOMAIN acked' : acked'[p] = acked[p]
  BY <1>1, WithoutDef
<1>7. AckInv'
  BY <1>1, <1>3, <1>6 DEF AckInv
<1> QED BY <1>3, <1>4, <1>5, <1>7

LEMMA CommitStep ==
  ASSUME IInv, NEW c \in Callers, CommitTransition(c)
  PROVE  IInv'
<1> USE DEF IInv
<1> DEFINE t == tx[c]
           row == [status |-> t.status, broker |-> BrokerAfter(t)]
<1>1. /\ t.busy
      /\ orders' = With(orders, t.order, row)
      /\ tx' = [tx EXCEPT ![c] = Idle]
      /\ \/ acked' = (IF OthersOf(c) = {} THEN With(acked, t.order, t.status) ELSE acked)
         \/ UNCHANGED acked
      /\ UNCHANGED <<intents, decisions, fills, admitted, booked, approvedOnce>>
  BY DEF CommitTransition
<1>2. /\ DOMAIN orders' = DOMAIN orders \cup {t.order}
      /\ orders'[t.order] = row
      /\ \A o \in DOMAIN orders : o # t.order => orders'[o] = orders[o]
  BY <1>1 DEF With
<1>3. /\ tx'[c] = Idle /\ ~tx'[c].busy
      /\ \A d \in Callers \ {c} : tx'[d] = tx[d]
      /\ TxInv'
  BY <1>1 DEF TxInv, Idle
<1>4. row.status = t.status
  OBVIOUS
<1> HIDE DEF row
<1>5. SentOrdersWereApproved'
  <2>1. t.order \in approvedOnce /\ (t.status = "FILLED" => \E r \in fills : r.order = t.order)
    BY <1>1 DEF ApprovedInv
  <2>2. DOMAIN orders' \subseteq approvedOnce'
    BY <1>1, <1>2, <2>1 DEF ApprovedInv, SentOrdersWereApproved
  <2>3. ASSUME NEW o \in DOMAIN orders', orders'[o].status = "FILLED" PROVE \E r \in fills' : r.order = o
    BY <1>1, <1>2, <1>4, <2>1, <2>3 DEF ApprovedInv, SentOrdersWereApproved
  <2> QED BY <2>2, <2>3 DEF SentOrdersWereApproved
<1>6. ApprovedInv'
  BY <1>1, <1>3, <1>5 DEF ApprovedInv
<1>7. AdmitInv'
  BY <1>1 DEF AdmitInv
<1>8. AckInv'
  <2>1. t.order \notin DOMAIN acked
    BY <1>1 DEF AckInv
  <2>2. CASE UNCHANGED acked
    BY <1>2, <1>3, <2>1, <2>2 DEF AckInv
  <2>3. CASE OthersOf(c) = {} /\ acked' = With(acked, t.order, t.status)
    <3>1. /\ DOMAIN acked' = DOMAIN acked \cup {t.order}
          /\ acked'[t.order] = t.status
          /\ \A o \in DOMAIN acked : acked'[o] = acked[o]
      BY <2>1, <2>3 DEF With
    <3>2. \A d \in Callers \ {c} : tx[d].busy => tx[d].order # t.order
      BY <2>3 DEF OthersOf
    <3>3. \A o \in DOMAIN acked' : o \in DOMAIN orders' /\ orders'[o].status = acked'[o]
      BY <1>2, <1>4, <2>1, <3>1 DEF AckInv
    <3>4. \A d \in Callers : tx'[d].busy => tx'[d].order \notin DOMAIN acked'
      BY <1>3, <3>1, <3>2 DEF AckInv
    <3> QED BY <3>3, <3>4 DEF AckInv
  <2> QED BY <1>1, <2>2, <2>3
<1> QED BY <1>3, <1>6, <1>7, <1>8

LEMMA AbortStep == ASSUME IInv, NEW c \in Callers, AbortTransition(c) PROVE IInv'
<1> USE DEF IInv
<1>1. tx' = [tx EXCEPT ![c] = Idle] /\ UNCHANGED <<tables, history>>
  BY DEF AbortTransition
<1>2. ~tx'[c].busy /\ (\A d \in Callers \ {c} : tx'[d] = tx[d]) /\ TxInv'
  BY <1>1 DEF TxInv, Idle
<1> QED
  BY <1>1, <1>2 DEF ApprovedInv, SentOrdersWereApproved, AdmitInv, AckInv, tables, history

LEMMA RestartStep == ASSUME IInv, Restart PROVE IInv'
<1> USE DEF IInv
<1>1. tx' = [c \in Callers |-> Idle] /\ UNCHANGED <<tables, history>>
  BY DEF Restart
<1>2. (\A c \in Callers : ~tx'[c].busy) /\ TxInv'
  BY <1>1 DEF TxInv, Idle
<1> QED
  BY <1>1, <1>2 DEF ApprovedInv, SentOrdersWereApproved, AdmitInv, AckInv, tables, history

LEMMA FillStep == ASSUME IInv, NEW r \in Reports, RecordFill(r) PROVE IInv'
<1> USE DEF IInv
<1>1. /\ fills' = IF Booked(r) THEN fills ELSE fills \cup {r}
      /\ UNCHANGED <<intents, decisions, orders, tx, admitted, approvedOnce, acked>>
      /\ \/ booked' = IF Booked(r) THEN booked ELSE [booked EXCEPT ![r] = @ + 1]
         \/ UNCHANGED booked
  BY DEF RecordFill
<1>2. TxInv' /\ AckInv'
  BY <1>1 DEF TxInv, AckInv
<1>3. ApprovedInv'
  BY <1>1 DEF ApprovedInv, SentOrdersWereApproved
<1>4. CASE Booked(r)
  BY <1>1, <1>4, <1>2, <1>3 DEF AdmitInv
<1>5. CASE ~Booked(r)
  <2>1. /\ r \notin fills
        /\ \A f \in fills : f.exec # r.exec /\ (r.trade = NoId \/ f.trade # r.trade)
    BY <1>5 DEF Booked
  <2>2. booked[r] = 0
    BY <2>1 DEF AdmitInv
  <2>3. fills' = fills \cup {r} /\ (booked' = booked \/ booked' = [booked EXCEPT ![r] = @ + 1])
    BY <1>1, <1>5
  <2>4. booked' \in [Reports -> Nat]
    BY <2>3 DEF AdmitInv
  <2>5. \A s \in Reports : booked'[s] <= 1 /\ (booked'[s] = 1 => s \in fills')
    BY <2>2, <2>3 DEF AdmitInv
  <2>6. \A p, q \in fills' : p # q => p.exec # q.exec /\ (p.trade = NoId \/ p.trade # q.trade)
    BY <2>1, <2>3 DEF AdmitInv
  <2> QED
    BY <1>1, <1>2, <1>3, <2>3, <2>4, <2>5, <2>6 DEF AdmitInv
<1> QED BY <1>4, <1>5

-----------------------------------------------------------------------------

LEMMA InitInv == Init => IInv
<1> SUFFICES ASSUME Init PROVE IInv
  OBVIOUS
<1>1. DOMAIN Empty = {}
  BY DEF Empty
<1>2. TxInv
  BY DEF Init, TxInv
<1>3. \A c \in Callers : ~tx[c].busy
  BY DEF Init, Idle
<1> QED
  BY <1>1, <1>2, <1>3 DEF Init, IInv, ApprovedInv, SentOrdersWereApproved, AdmitInv, AckInv

LEMMA NextInv == IInv /\ [Next]_vars => IInv'
<1> SUFFICES ASSUME IInv, [Next]_vars PROVE IInv'
  OBVIOUS
<1>1. CASE FailClosedRecovery
  BY <1>1, RestKeepsInv DEF FailClosedRecovery, Rest, tables
<1>2. CASE UNCHANGED vars
  BY <1>2, RestKeepsInv DEF vars, Rest, tables
<1>3. CASE Connect \/ Migrate
  BY <1>3, RestKeepsInv DEF Connect, Migrate, Rest, tables
<1>4. CASE Records
  BY <1>4, RecordsKeepRest, RestKeepsInv
<1>5. CASE Restart
  BY <1>5, RestartStep
<1>6. CASE \E o \in Orders, k \in Keys : CreateOrderIntent(o, k)
  BY <1>6, IntentStep
<1>7. CASE \E o \in Orders, d \in Decisions : RecordRiskDecision(o, d)
  BY <1>7, DecisionStep
<1>8. CASE \E c \in Callers, o \in Orders, s \in Status, b \in BrokerIds \cup {NoId} : BeginTransition(c, o, s, b)
  BY <1>8, BeginStep
<1>9. CASE \E c \in Callers : CommitTransition(c) \/ AbortTransition(c)
  BY <1>9, CommitStep, AbortStep
<1>10. CASE \E r \in Reports : RecordFill(r)
  BY <1>10, FillStep
<1> QED
  BY <1>1, <1>2, <1>3, <1>4, <1>5, <1>6, <1>7, <1>8, <1>9, <1>10 DEF Next, Use

\* The three parts of the invariant hold in every reachable state of the store.
THEOREM StoreInvariant == Spec => []IInv
  BY InitInv, NextInv, PTL DEF Spec

\* An order that reached the table orders was approved before, and one that is
\* FILLED has a fill, for any number of callers and whatever breaks
\* (transition_order).
THEOREM SentWereApproved == Spec => []SentOrdersWereApproved
<1>1. IInv => SentOrdersWereApproved
  BY DEF IInv, ApprovedInv
<1> QED BY <1>1, StoreInvariant, PTL

LEMMA OneIntent ==
  ASSUME AdmitInv, NEW k \in Keys
  PROVE  Cardinality({o \in DOMAIN intents : intents[o] = k}) <= 1
<1> DEFINE S == {o \in DOMAIN intents : intents[o] = k}
<1>1. CASE S = {}
  <2>1. Cardinality({}) = 0
    BY FS_EmptySet
  <2> QED BY <1>1, <2>1
<1>2. CASE S # {}
  <2>1. PICK o \in S : TRUE
    BY <1>2
  <2>2. S = {o}
    BY <2>1 DEF AdmitInv
  <2>3. Cardinality({o}) = 1
    BY FS_Singleton
  <2> QED BY <2>2, <2>3
<1> QED BY <1>1, <1>2

\* A key is admitted once, a broker trade booked once, and one caller at most is
\* told so, however often a call is repeated because its answer was lost
\* (create_order_intent, record_fill).
THEOREM OnceAdmitted == Spec => []AdmittedOnce
<1>1. IInv => AdmittedOnce
  BY OneIntent DEF IInv, AdmitInv, AdmittedOnce
<1> QED BY <1>1, StoreInvariant, PTL

\* A recovery that is answered and does not block lists every order whose last
\* transition was answered with an open status (fail_closed_recovery).
THEOREM RecoveryIsComplete == Spec => RecoveryMissesNoOrder
<1> DEFINE Complete ==
      recovery' # recovery /\ recovery'.read =>
        \/ recovery'.blocked
        \/ \A o \in DOMAIN acked : acked[o] \notin Closed => o \in recovery'.open
<1>1. IInv /\ [Next]_vars => [Complete]_vars
  <2> SUFFICES ASSUME IInv, Next PROVE Complete
    OBVIOUS
  <2>1. CASE FailClosedRecovery
    <3>1. CASE recovery' = Blocked
      BY <3>1 DEF Blocked
    <3>2. CASE recovery' = Recovered
      <4>1. recovery'.open = OpenOrders
        BY <3>2 DEF Recovered
      <4> QED BY <4>1 DEF IInv, AckInv, OpenOrders
    <3>3. CASE recovery' = Unread
      BY <3>3 DEF Unread
    <3> QED BY <2>1, <3>1, <3>2, <3>3 DEF FailClosedRecovery
  <2>2. CASE recovery' = Unread
    BY <2>2 DEF Unread
  <2> QED BY <2>1, <2>2 DEF Next
<1> QED
  BY <1>1, StoreInvariant, PTL DEF Spec, RecoveryMissesNoOrder

\* What is written once is never changed or removed, only positions are (the tables
\* of migrations/0001_core.sql and the conflict clauses of the inserts).
THEOREM RecordsStay == Spec => RecordsAreImmutable
<1> DEFINE Stays ==
      \A x \in DOMAIN records : x[1] \notin Upserted => x \in DOMAIN records' /\ records'[x] = records[x]
<1>1. ASSUME NEW t, NEW id, NEW p, InsertStrict(t, id, p) \/ InsertLenient(t, id, p) PROVE Stays
  <2>1. records' = records \/ (<<t, id>> \notin DOMAIN records /\ records' = With(records, <<t, id>>, p))
    BY <1>1 DEF InsertStrict, InsertLenient, Inserted
  <2> QED BY <2>1 DEF With
<1>2. ASSUME NEW id, NEW p, UpsertPosition(id, p) PROVE Stays
  <2>1. records' = With(records, <<"positions", id>>, p)
    BY <1>2 DEF UpsertPosition, Inserted
  <2>2. \A x : x[1] \notin Upserted => x # <<"positions", id>>
    BY DEF Upserted
  <2> QED BY <2>1, <2>2 DEF With
<1>3. ASSUME Records PROVE Stays
  BY <1>1, <1>2, <1>3 DEF Records, AppendJournalEvent, RecordOperatorAuthorization, RecordReconciliation,
     RecordIncident, SaveSnapshot, RecordSignal, RecordPolicyVersion, RecordModelMetadata, RecordShadowDecision
<1>4. ASSUME UNCHANGED records PROVE Stays
  BY <1>4
<1>5. Next => Records \/ UNCHANGED records
  BY DEF Next, Use, FailClosedRecovery, Connect, Migrate, Restart, CreateOrderIntent, RecordRiskDecision,
     BeginTransition, CommitTransition, AbortTransition, RecordFill, tables
<1>6. [Next]_vars => [Stays]_vars
  BY <1>3, <1>4, <1>5
<1> QED
  BY <1>6, PTL DEF Spec, RecordsAreImmutable
=============================================================================
