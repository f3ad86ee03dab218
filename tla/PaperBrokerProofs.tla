------------------------- MODULE PaperBrokerProofs -------------------------
(***************************************************************************)
(* Theorems about PaperBroker, for every set of orders and quantities and  *)
(* every bound on what is under way: whatever is lost, and in whichever    *)
(* order messages about different orders arrive.                           *)
(***************************************************************************)
EXTENDS PaperBroker, FiniteSetTheorems, SequenceTheorems, TLAPS

-----------------------------------------------------------------------------
(* Statuses and messages.                                                    *)

(* What the status table makes of open and of closed statuses.               *)
LEMMA Statuses ==
  /\ \A s \in IbStatus : /\ Platform(s) \in Open \cup Terminal
                         /\ Platform(s) \in Terminal <=> s \in IbDone
                         /\ Platform(s) = "FILLED" <=> s = "Filled"
  /\ Open \cap Terminal = {} /\ IbOpen \cap IbDone = {}
  /\ IbStatus = IbOpen \cup IbDone
BY DEF Platform, Open, Terminal, IbStatus, IbOpen, IbDone

(* The messages and how they differ.                                         *)
LEMMA Messages ==
  /\ \A s \in IbStatus : StatusIs(s) \in Message /\ StatusIs(s) # Execution
                         /\ StatusIs(s).kind = "status" /\ StatusIs(s).status = s
                         /\ StatusIs(s) # Error("201")
  /\ OpenOrder \in Message /\ OpenOrder # Execution /\ OpenOrder.kind = "openOrder"
  /\ OpenOrder # Error("201")
  /\ Execution \in Message /\ Execution.kind = "exec" /\ Execution # Error("201")
  /\ \A c \in {"201", "other"} : Error(c) \in Message /\ Error(c) # Execution
                                 /\ Error(c).kind = "error" /\ Error(c).status = c
  /\ Error("other") # Error("201")
  /\ \A m \in Message :
       \/ m.kind = "status" /\ m.status \in IbStatus /\ m = StatusIs(m.status)
       \/ m = OpenOrder \/ m = Execution \/ m = Error("201") \/ m = Error("other")
<1>1. ASSUME NEW s \in IbStatus
      PROVE  /\ StatusIs(s) \in Message /\ StatusIs(s).kind = "status" /\ StatusIs(s).status = s
             /\ StatusIs(s) # Execution /\ StatusIs(s) # Error("201")
  <2>1. StatusIs(s).kind = "status" /\ StatusIs(s).status = s
    BY DEF StatusIs
  <2>2. Execution.kind = "exec" /\ Error("201").kind = "error"
    BY DEF Execution, Error
  <2>3. StatusIs(s) \in Message
    BY DEF StatusIs, Message
  <2> QED BY <2>1, <2>2, <2>3
<1>2. /\ OpenOrder.kind = "openOrder" /\ Execution.kind = "exec"
      /\ \A c \in {"201", "other"} : Error(c).kind = "error" /\ Error(c).status = c
  BY DEF OpenOrder, Execution, Error
<1>3. {OpenOrder, Execution, Error("201"), Error("other")} \subseteq Message
  BY DEF Message
<1>4. ASSUME NEW m \in Message
      PROVE  \/ m.kind = "status" /\ m.status \in IbStatus /\ m = StatusIs(m.status)
             \/ m = OpenOrder \/ m = Execution \/ m = Error("201") \/ m = Error("other")
  <2>1. CASE m \in [kind : {"status"}, status : IbStatus]
    BY <2>1 DEF StatusIs
  <2> QED BY <2>1 DEF Message
<1> QED BY <1>1, <1>2, <1>3, <1>4

-----------------------------------------------------------------------------
(* Counting the executions under way.                                        *)

LEMMA ExecutionsNat ==
  ASSUME NEW q \in Seq(Message)
  PROVE  Executions(q) \in Nat /\ IsFiniteSet({k \in DOMAIN q : q[k] = Execution})
<1>1. IsFiniteSet(DOMAIN q)
  BY FS_Interval
<1>2. IsFiniteSet({k \in DOMAIN q : q[k] = Execution})
  BY <1>1, FS_Subset
<1> QED BY <1>2, FS_CardinalityType DEF Executions

LEMMA ExecutionsNone == Executions(<<>>) = 0
<1>1. {k \in DOMAIN <<>> : <<>>[k] = Execution} = {}
  OBVIOUS
<1> QED BY <1>1, FS_EmptySet DEF Executions

LEMMA ExecutionsOne ==
  ASSUME NEW m \in Message
  PROVE  Executions(<<m>>) = IF m = Execution THEN 1 ELSE 0
<1>1. {k \in DOMAIN <<m>> : <<m>>[k] = Execution} = IF m = Execution THEN {1} ELSE {}
  OBVIOUS
<1> QED BY <1>1, FS_EmptySet, FS_Singleton DEF Executions

(* Executions of a queue are those of its parts.                             *)
LEMMA ExecutionsJoined ==
  ASSUME NEW q \in Seq(Message), NEW r \in Seq(Message)
  PROVE  Executions(q \o r) = Executions(q) + Executions(r)
<1> DEFINE A == {k \in DOMAIN q : q[k] = Execution}
           B == {k \in DOMAIN r : r[k] = Execution}
           C == {k \in DOMAIN (q \o r) : (q \o r)[k] = Execution}
           D == {k \in C : k > Len(q)}
           f == [k \in B |-> k + Len(q)]
<1>1. IsFiniteSet(A) /\ IsFiniteSet(B) /\ IsFiniteSet(C) /\ Len(q) \in Nat /\ Len(r) \in Nat
  <2>1. q \o r \in Seq(Message)
    OBVIOUS
  <2>2. IsFiniteSet(A) /\ IsFiniteSet(B)
    BY ExecutionsNat
  <2>3. IsFiniteSet(C)
    BY <2>1, ExecutionsNat
  <2>4. Len(q) \in Nat /\ Len(r) \in Nat
    OBVIOUS
  <2> HIDE DEF A, B, C
  <2> QED BY <2>2, <2>3, <2>4
<1>2. f \in Bijection(B, D)
  <2>1. f \in [B -> D]
    BY <1>1
  <2>2. \A x, y \in B : f[x] = f[y] => x = y
    BY <1>1
  <2>3. \A y \in D : \E x \in B : f[x] = y
    <3> SUFFICES ASSUME NEW y \in D PROVE \E x \in B : f[x] = y
      OBVIOUS
    <3>1. y - Len(q) \in B
      BY <1>1
    <3>2. f[y - Len(q)] = y
      BY <1>1, <3>1
    <3> QED BY <3>1, <3>2
  <2> HIDE DEF f, B, D
  <2> QED BY <2>1, <2>2, <2>3 DEF Bijection, Injection, Surjection, IsInjective
<1>3. C = A \cup D /\ A \cap D = {}
  BY <1>1
<1> HIDE DEF f, A, B, C, D
<1>4. IsFiniteSet(D) /\ Cardinality(D) = Cardinality(B)
  BY <1>1, <1>2, FS_Bijection DEF ExistsBijection
<1>5. Cardinality(A \cup D) = Cardinality(A) + Cardinality(D) - Cardinality(A \cap D)
  BY <1>1, <1>4, FS_Union
<1>6. Cardinality(A \cap D) = 0 /\ Cardinality(A) \in Nat /\ Cardinality(D) \in Nat
  BY <1>1, <1>3, <1>4, FS_EmptySet, FS_CardinalityType
<1>7. Executions(q \o r) = Cardinality(C) /\ Executions(q) = Cardinality(A)
      /\ Executions(r) = Cardinality(B)
  BY DEF Executions, A, B, C
<1> QED BY <1>3, <1>4, <1>5, <1>6, <1>7

(* Executions of a queue after its head was taken.                           *)
LEMMA ExecutionsTail ==
  ASSUME NEW q \in Seq(Message), q # <<>>
  PROVE  Executions(q) = (IF Head(q) = Execution THEN 1 ELSE 0) + Executions(Tail(q))
<1>1. Head(q) \in Message /\ Tail(q) \in Seq(Message) /\ q = <<Head(q)>> \o Tail(q)
  OBVIOUS
<1>2. Executions(q) = Executions(<<Head(q)>>) + Executions(Tail(q))
  <2>1. <<Head(q)>> \in Seq(Message)
    BY <1>1
  <2>2. Executions(<<Head(q)>> \o Tail(q)) = Executions(<<Head(q)>>) + Executions(Tail(q))
    BY <1>1, <2>1, ExecutionsJoined
  <2> QED BY <1>1, <2>2
<1>3. Executions(<<Head(q)>>) = IF Head(q) = Execution THEN 1 ELSE 0
  BY <1>1, ExecutionsOne
<1> QED BY <1>2, <1>3

-----------------------------------------------------------------------------
(* What happens to one order: the invariant of OrdersInv, order by order.    *)

\* The messages of a step to status s that executes d shares.
Reports(ms, s, d) ==
  /\ ms \in Seq(Message)
  /\ Executions(ms) = d
  /\ \A k \in DOMAIN ms : ms[k].kind = "status" =>
       ms[k].status = s /\ \A j \in 1..(k - 1) : ms[j].kind # "status"
  /\ \A k \in DOMAIN ms : ms[k] = Error("201") => s = "Inactive"
  /\ s \in IbDone => \E k \in DOMAIN ms : ms[k] = StatusIs(s)

(* An order that works goes on, or comes to its end: the ledger, which does  *)
(* not know of it yet, agrees with it still.                                 *)
LEMMA OrderGoesOn ==
  ASSUME NEW e \in Entry, NEW w, NEW v, NEW t \in IbStatus, NEW q \in Seq(Message),
         w.status \in IbOpen, w.cum \in Nat, v.status \in IbStatus, v.cum \in {w.cum, w.cum + 1},
         v.status = "Filled" => v.cum = w.cum + 1,
         Consistent(e, w, t, q)
  PROVE  /\ Consistent(e, v, t, q)
         /\ e.status \notin Terminal /\ t \notin IbDone
         /\ \A k \in DOMAIN q : ~Ends(q[k]) /\ q[k] # Error("201")
<1>1. e.status \notin Terminal /\ t \notin IbDone
  BY Statuses DEF Consistent, EndsAgree
<1>2. \A k \in DOMAIN q : ~Ends(q[k]) /\ q[k] # Error("201")
  BY Statuses DEF Consistent, EndsAgree, Ends, IbOpen
<1>3. w.status # "Filled"
  BY DEF IbOpen
<1>4. EndsAgree(e, v, t, q)
  BY <1>1, <1>2 DEF EndsAgree
<1>5. FillsAgree(e, v)
  BY <1>3 DEF Consistent, FillsAgree, Entry
<1> QED BY <1>1, <1>2, <1>4, <1>5 DEF Consistent

(* The same, and the messages about it leave.                                *)
LEMMA OrderReports ==
  ASSUME NEW e \in Entry, NEW w, NEW v, NEW t \in IbStatus, NEW q \in Seq(Message),
         w.status \in IbOpen, w.cum \in Nat, v.status \in IbStatus, NEW d \in {0, 1},
         v.cum = w.cum + d, v.status = "Filled" => d = 1,
         NEW ms, Reports(ms, v.status, d),
         Consistent(e, w, t, q)
  PROVE  /\ Consistent(e, v, t, q \o ms)
         /\ Complete(e, w, t, q) => Complete(e, v, t, q \o ms)
<1>1. /\ Consistent(e, v, t, q)
      /\ e.status \notin Terminal /\ t \notin IbDone
      /\ \A k \in DOMAIN q : ~Ends(q[k]) /\ q[k] # Error("201")
  BY OrderGoesOn
<1>2. /\ ms \in Seq(Message) /\ q \o ms \in Seq(Message)
      /\ Len(q) \in Nat /\ Len(ms) \in Nat /\ DOMAIN (q \o ms) = 1..(Len(q) + Len(ms))
      /\ \A k \in 1..Len(q) : k \in DOMAIN q /\ (q \o ms)[k] = q[k]
      /\ \A k \in 1..Len(ms) : k \in DOMAIN ms /\ (q \o ms)[Len(q) + k] = ms[k]
  BY DEF Reports
<1> DEFINE r == q \o ms
<1> HIDE DEF r
<1>3. \A k \in DOMAIN r : k \in 1..Len(q) \/ k - Len(q) \in 1..Len(ms)
  BY <1>2 DEF r
<1>4. EndsAgree(e, v, t, r)
  <2>1. ASSUME NEW k \in DOMAIN r
        PROVE  /\ Ends(r[k]) => r[k].status = v.status
               /\ r[k] = Error("201") => v.status = "Inactive"
    <3>1. CASE k \in 1..Len(q)
      BY <1>1, <1>2, <3>1 DEF r
    <3>2. CASE k - Len(q) \in 1..Len(ms)
      <4>1. r[k] = ms[k - Len(q)] /\ k - Len(q) \in DOMAIN ms
        BY <1>2, <3>2 DEF r
      <4> QED BY <4>1 DEF Reports, Ends
    <3> QED BY <1>3, <3>1, <3>2
  <2> QED BY <1>1, <2>1 DEF Consistent, EndsAgree
<1>5. EndIsLast(t, r)
  <2> SUFFICES ASSUME NEW k \in DOMAIN r, r[k].kind = "status", NEW j \in 1..(k - 1)
               PROVE  ~Ends(r[j])
    BY <1>1 DEF EndIsLast
  <2>1. k \in Nat /\ j \in DOMAIN r /\ j < k
    BY <1>2 DEF r
  <2>2. CASE j \in 1..Len(q)
    BY <1>1, <1>2, <2>2 DEF r
  <2>3. CASE j - Len(q) \in 1..Len(ms)
    <3>1. /\ r[j] = ms[j - Len(q)] /\ r[k] = ms[k - Len(q)]
          /\ k - Len(q) \in DOMAIN ms /\ j - Len(q) \in 1..((k - Len(q)) - 1)
      BY <1>2, <1>3, <2>1, <2>3 DEF r
    <3>2. ms[j - Len(q)].kind # "status"
      BY <3>1 DEF Reports
    <3> QED BY <3>1, <3>2 DEF Ends
  <2> QED BY <1>3, <2>1, <2>2, <2>3
<1>6. Consistent(e, v, t, r)
  BY <1>1, <1>4, <1>5 DEF Consistent
<1>7. ASSUME Complete(e, w, t, q) PROVE Complete(e, v, t, r)
  <2>1. ASSUME v.status \in IbDone PROVE \E k \in DOMAIN r : r[k] = StatusIs(v.status)
    <3>1. PICK k \in DOMAIN ms : ms[k] = StatusIs(v.status)
      BY <2>1 DEF Reports
    <3>2. Len(q) + k \in DOMAIN r /\ r[Len(q) + k] = ms[k]
      BY <1>2 DEF r
    <3> QED BY <3>1, <3>2
  <2>2. Executions(r) = Executions(q) + d /\ Executions(q) \in Nat
    BY <1>2, ExecutionsJoined, ExecutionsNat DEF r, Reports
  <2>3. e.fills + Executions(r) = v.cum
    BY <1>7, <2>2 DEF Complete, Entry
  <2> QED BY <2>1, <2>3 DEF Complete
<1> QED BY <1>6, <1>7 DEF r

(* What is under way is lost.                                                *)
LEMMA MessagesLost ==
  ASSUME NEW e, NEW w, NEW t, NEW q, Consistent(e, w, t, q)
  PROVE  Consistent(e, w, t, <<>>)
BY DEF Consistent, EndsAgree, EndIsLast

(* The client handles the first message under way.                           *)
LEMMA MessageHandled ==
  ASSUME NEW e \in Entry, NEW w, NEW t \in IbStatus, NEW q \in Seq(Message), q # <<>>,
         w.status \in IbStatus, w.cum \in Nat, Consistent(e, w, t, q),
         NEW u, u = IF Head(q).kind = "status" THEN Head(q).status ELSE t
  PROVE  /\ Handled(e, Head(q)) \in Entry
         /\ Consistent(Handled(e, Head(q)), w, u, Tail(q))
         /\ Complete(e, w, t, q) => Complete(Handled(e, Head(q)), w, u, Tail(q))
<1> DEFINE m == Head(q)  r == Tail(q)  f == Handled(e, m)
<1>1. /\ m \in Message /\ r \in Seq(Message) /\ Len(q) \in Nat /\ Len(q) > 0 /\ Len(r) = Len(q) - 1
      /\ q[1] = m /\ \A k \in DOMAIN r : k + 1 \in DOMAIN q /\ r[k] = q[k + 1]
      /\ \A k \in DOMAIN q : k # 1 => k - 1 \in DOMAIN r /\ q[k] = r[k - 1]
  OBVIOUS
<1>2. Executions(q) = (IF m = Execution THEN 1 ELSE 0) + Executions(r) /\ Executions(r) \in Nat
  BY <1>1, ExecutionsTail, ExecutionsNat
<1> HIDE DEF m, r
<1>3. /\ e.status \in Open \cup Terminal /\ e.fills \in Nat /\ e.filled \in Nat
      /\ e.quantity \in Nat \ {0}
  BY PaperBrokerAssumption DEF Entry
\* The status.
<1>4. /\ f.status = IF m.kind = "status" /\ m.status # "PendingCancel" THEN Platform(m.status)
                    ELSE IF m = Error("201") THEN "REJECTED"
                    ELSE IF m = OpenOrder /\ e.status \notin Terminal THEN "OPEN"
                    ELSE e.status
      /\ f.fills = IF m = Execution THEN e.fills + 1 ELSE e.fills
      /\ f \in Entry
      /\ f.filled = IF m = Execution THEN e.fills + 1
                    ELSE IF m.kind = "status" /\ m.status # "PendingCancel" THEN
                         IF e.fills > 0 THEN e.fills
                         ELSE IF m.status = "Filled" THEN e.quantity ELSE e.filled
                    ELSE e.filled
  <2>1. CASE m.kind = "status" /\ m.status \in IbStatus
    <3>1. m # Execution /\ m # Error("201") /\ m # OpenOrder
      BY <2>1, Messages
    <3>2. f = OnOrderStatus(e, m.status)
      BY <2>1 DEF Handled
    <3>3. CASE m.status = "PendingCancel"
      BY <2>1, <3>1, <3>2, <3>3 DEF OnOrderStatus
    <3>4. CASE m.status # "PendingCancel"
      <4>1. Platform(m.status) \in Open \cup Terminal /\ (Platform(m.status) = "FILLED" <=> m.status = "Filled")
        BY <2>1, Statuses
      <4> DEFINE g == [e EXCEPT !.status = Platform(m.status)]
                 shares == IF e.fills > 0 THEN e.fills
                           ELSE IF m.status = "Filled" THEN e.quantity ELSE e.filled
      <4>2. /\ g \in Entry /\ g.status = Platform(m.status) /\ g.fills = e.fills
            /\ g.filled = e.filled /\ g.quantity = e.quantity
        BY <4>1 DEF Entry
      <4>3. f = SyncFillState(g)
        BY <3>2, <3>4 DEF OnOrderStatus
      <4> HIDE DEF g
      <4>4. shares \in Nat /\ f = [g EXCEPT !.filled = shares]
        BY <1>3, <4>1, <4>2, <4>3 DEF SyncFillState
      <4> HIDE DEF shares
      <4>5. /\ f \in Entry /\ f.status = Platform(m.status) /\ f.fills = e.fills
            /\ f.filled = shares
        BY <4>2, <4>4 DEF Entry
      <4> QED BY <2>1, <3>1, <3>4, <4>5 DEF shares
    <3> QED BY <3>3, <3>4
  <2>2. CASE m = OpenOrder
    <3>1. m # Execution /\ m # Error("201") /\ m.kind = "openOrder"
      BY <2>2, Messages
    <3>2. f = OnOpenOrder(e)
      BY <3>1 DEF Handled
    <3> QED BY <1>3, <2>2, <3>1, <3>2 DEF OnOpenOrder, Entry, Open
  <2>3. CASE m = Execution
    <3>1. m # OpenOrder /\ m # Error("201") /\ m.kind = "exec"
      BY <2>3, Messages
    <3>2. f = OnExecDetails(e)
      BY <3>1 DEF Handled
    <3> DEFINE g == [e EXCEPT !.fills = @ + 1]
    <3>3. g \in Entry /\ g.status = e.status /\ g.fills = e.fills + 1
      BY <1>3 DEF Entry
    <3>4. f = SyncFillState(g)
      BY <3>2 DEF OnExecDetails
    <3> HIDE DEF g
    <3>5. f = [g EXCEPT !.filled = e.fills + 1]
      BY <1>3, <3>3, <3>4 DEF SyncFillState
    <3>6. f \in Entry /\ f.status = e.status /\ f.fills = e.fills + 1 /\ f.filled = e.fills + 1
      BY <1>3, <3>3, <3>5 DEF Entry
    <3> QED BY <2>3, <3>1, <3>6
  <2>4. CASE m = Error("201")
    <3>1. m # OpenOrder /\ m # Execution /\ m.kind = "error" /\ m.status = "201"
      BY <2>4, Messages
    <3>2. f = OnError(e, "201")
      BY <3>1 DEF Handled
    <3> QED BY <1>3, <2>4, <3>1, <3>2 DEF OnError, Entry, Terminal
  <2>5. CASE m = Error("other")
    <3>1. m # OpenOrder /\ m # Execution /\ m # Error("201") /\ m.kind = "error" /\ m.status = "other"
      BY <2>5, Messages
    <3>2. f = OnError(e, "other")
      BY <3>1 DEF Handled
    <3> QED BY <1>3, <2>5, <3>1, <3>2 DEF OnError
  <2> QED BY <1>1, <2>1, <2>2, <2>3, <2>4, <2>5, Messages
<1> HIDE DEF f
<1>5. /\ m.kind = "status" => m.status \in IbStatus /\ m = StatusIs(m.status) /\ m # Execution
      /\ m = Execution => m.kind = "exec"
      /\ m = OpenOrder => m.kind = "openOrder"
      /\ m = Error("201") => m.kind = "error"
  BY <1>1, Messages
<1>6. /\ Ends(m) => m.status = w.status
      /\ m = Error("201") => w.status = "Inactive"
      /\ t \in IbDone => t = w.status
      /\ e.status \in Terminal => w.status \in IbDone /\ e.status = Platform(w.status)
  <2>1. 1 \in DOMAIN q
    BY <1>1
  <2> QED BY <1>1, <2>1 DEF Consistent, EndsAgree
<1>7. Platform("Inactive") = "REJECTED" /\ "Inactive" \in IbDone /\ "OPEN" \notin Terminal
      /\ "PendingCancel" \notin IbDone
  BY DEF Platform, IbDone, Terminal
<1>8. EndsAgree(f, w, u, r)
  <2>1. f.status \in Terminal => w.status \in IbDone /\ f.status = Platform(w.status)
    BY <1>4, <1>5, <1>6, <1>7, Statuses DEF Ends
  <2>2. u \in IbDone => u = w.status
    BY <1>5, <1>6 DEF Ends, m
  <2>3. \A k \in DOMAIN r : /\ Ends(r[k]) => r[k].status = w.status
                            /\ r[k] = Error("201") => w.status = "Inactive"
    BY <1>1 DEF Consistent, EndsAgree
  <2> QED BY <2>1, <2>2, <2>3 DEF EndsAgree
<1>9. EndIsLast(u, r)
  <2> SUFFICES ASSUME NEW k \in DOMAIN r, r[k].kind = "status"
               PROVE  u \notin IbDone /\ \A j \in 1..(k - 1) : ~Ends(r[j])
    BY DEF EndIsLast
  <2>1. /\ k \in Nat /\ k + 1 \in DOMAIN q /\ q[k + 1].kind = "status" /\ 1 \in 1..((k + 1) - 1)
        /\ \A j \in 1..(k - 1) : j \in DOMAIN r /\ r[j] = q[j + 1] /\ j + 1 \in 1..((k + 1) - 1)
    BY <1>1
  <2>2. t \notin IbDone /\ \A j \in 1..((k + 1) - 1) : ~Ends(q[j])
    BY <2>1 DEF Consistent, EndIsLast
  <2>3. ~Ends(m)
    BY <1>1, <2>1, <2>2
  <2> QED BY <2>1, <2>2, <2>3 DEF Ends, m
<1>10. FillsAgree(f, w)
  <2>1. m.kind = "status" /\ m.status = "Filled" => w.status = "Filled"
    BY <1>6 DEF Ends, IbDone
  <2> QED BY <1>3, <1>4, <1>5, <2>1 DEF Consistent, FillsAgree
<1>11. ASSUME Complete(e, w, t, q) PROVE Complete(f, w, u, r)
  <2>1. f.fills + Executions(r) = w.cum
    BY <1>2, <1>3, <1>4, <1>11 DEF Complete
  <2>2. ASSUME w.status \in IbDone
        PROVE  \/ \E k \in DOMAIN r : r[k] = StatusIs(w.status)
               \/ u = w.status /\ f.status = Platform(w.status)
    <3>1. CASE m = StatusIs(w.status)
      <4>1. m.kind = "status" /\ m.status = w.status /\ m.status # "PendingCancel"
        BY <1>7, <2>2, <3>1, Messages
      <4> QED BY <1>4, <4>1 DEF m
    <3>2. CASE \E k \in DOMAIN q : k # 1 /\ q[k] = StatusIs(w.status)
      BY <1>1, <3>2
    <3>3. CASE t = w.status /\ e.status = Platform(w.status)
      <4>1. e.status \in Terminal
        BY <2>2, <3>3, Statuses
      <4>2. m.kind # "status"
        BY <1>1, <2>2, <3>3 DEF Consistent, EndIsLast
      <4> QED BY <1>4, <1>6, <1>7, <3>3, <4>1, <4>2 DEF m
    <3> QED BY <1>1, <1>11, <2>2, <3>1, <3>2, <3>3 DEF Complete
  <2> QED BY <2>1, <2>2 DEF Complete
<1> QED BY <1>4, <1>8, <1>9, <1>10, <1>11 DEF Consistent, m, r, f

-----------------------------------------------------------------------------
(* Steps of Workstation, and requests to it.                                 *)

LEMMA ExecutionsTwo ==
  ASSUME NEW a \in Message, NEW b \in Message
  PROVE  Executions(<<a, b>>) = (IF a = Execution THEN 1 ELSE 0) + (IF b = Execution THEN 1 ELSE 0)
<1>1. <<a>> \in Seq(Message) /\ <<b>> \in Seq(Message)
  OBVIOUS
<1>2. <<a, b>> = <<a>> \o <<b>>
  <2>1. <<a, b>> \in Seq(Message) /\ Len(<<a, b>>) = 2 /\ <<a, b>>[1] = a /\ <<a, b>>[2] = b
    OBVIOUS
  <2>2. /\ <<a>> \o <<b>> \in Seq(Message) /\ Len(<<a>> \o <<b>>) = 2
        /\ (<<a>> \o <<b>>)[1] = a /\ (<<a>> \o <<b>>)[2] = b
    BY <1>1
  <2> DEFINE p == <<a, b>>  r == <<a>> \o <<b>>
  <2> HIDE DEF p, r
  <2>3. p \in Seq(Message) /\ r \in Seq(Message) /\ Len(p) = Len(r) /\ \A i \in 1..Len(p) : p[i] = r[i]
    <3>1. \A i \in 1..2 : i = 1 \/ i = 2
      OBVIOUS
    <3> QED BY <2>1, <2>2, <3>1 DEF p, r
  <2>4. p = r
    BY <2>3, SeqEqual
  <2> QED BY <2>4 DEF p, r
<1> QED BY <1>1, <1>2, ExecutionsOne, ExecutionsJoined

(* What Workstation tells of each of its steps.                              *)
LEMMA StationReports ==
  /\ \A s \in IbStatus : \A ms \in Told(s) : Reports(ms, s, 0)
  /\ \A s \in IbOpen : Reports(<<Error("other")>>, s, 0)
  /\ \A s \in IbOpen : Reports(<<Execution>>, s, 1)
  /\ Reports(<<StatusIs("PendingCancel")>>, "PendingCancel", 0)
  /\ Reports(<<Error("201"), StatusIs("Inactive")>>, "Inactive", 0)
  /\ Reports(<<StatusIs("Inactive"), Error("201")>>, "Inactive", 0)
  /\ Reports(<<Execution, StatusIs("Filled")>>, "Filled", 1)
  /\ Reports(<<StatusIs("Filled"), Execution>>, "Filled", 1)
<1>0. {"PendingCancel", "Inactive", "Filled"} \subseteq IbStatus /\ "PendingCancel" \notin IbDone
  BY DEF IbStatus, IbOpen, IbDone
<1>1. ASSUME NEW s \in IbStatus, NEW m \in Message, m.kind # "status",
             m = Error("201") => s = "Inactive",
             NEW d, d = IF m = Execution THEN 1 ELSE 0
      PROVE  Reports(<<StatusIs(s), m>>, s, d) /\ Reports(<<m, StatusIs(s)>>, s, d)
  <2>1. StatusIs(s) \in Message /\ StatusIs(s) # Execution /\ StatusIs(s).status = s
        /\ StatusIs(s) # Error("201")
    BY Messages
  <2>2. Executions(<<StatusIs(s), m>>) = d /\ Executions(<<m, StatusIs(s)>>) = d
    BY <1>1, <2>1, ExecutionsTwo
  <2>3. Reports(<<StatusIs(s), m>>, s, d)
    BY <1>1, <2>1, <2>2 DEF Reports
  <2>4. Reports(<<m, StatusIs(s)>>, s, d)
    BY <1>1, <2>1, <2>2 DEF Reports
  <2> QED BY <2>3, <2>4
<1>2. ASSUME NEW s \in IbStatus, NEW m \in Message, m.kind = "status" => m.status = s,
             m # Error("201"), s \in IbDone => m = StatusIs(s),
             NEW d, d = IF m = Execution THEN 1 ELSE 0
      PROVE  Reports(<<m>>, s, d)
  BY <1>2, ExecutionsOne DEF Reports
<1>3. \A s \in IbStatus : \A ms \in Told(s) : Reports(ms, s, 0)
  <2> SUFFICES ASSUME NEW s \in IbStatus PROVE \A ms \in Told(s) : Reports(ms, s, 0)
    OBVIOUS
  <2>1. /\ OpenOrder \in Message /\ OpenOrder.kind # "status" /\ OpenOrder # Error("201")
        /\ OpenOrder # Execution
    BY Messages
  <2>2. Reports(<<StatusIs(s), OpenOrder>>, s, 0) /\ Reports(<<OpenOrder, StatusIs(s)>>, s, 0)
    BY <1>1, <2>1
  <2> QED BY <2>2 DEF Told
<1>4. /\ \A s \in IbOpen : Reports(<<Error("other")>>, s, 0)
      /\ \A s \in IbOpen : Reports(<<Execution>>, s, 1)
  <2> SUFFICES ASSUME NEW s \in IbOpen
               PROVE  Reports(<<Error("other")>>, s, 0) /\ Reports(<<Execution>>, s, 1)
    OBVIOUS
  <2>1. s \in IbStatus /\ s \notin IbDone
    BY Statuses
  <2>2. /\ Error("other") \in Message /\ Error("other").kind # "status"
        /\ Error("other") # Error("201") /\ Error("other") # Execution
    BY Messages
  <2>3. Execution \in Message /\ Execution.kind # "status" /\ Execution # Error("201")
    BY Messages
  <2> QED BY <1>2, <2>1, <2>2, <2>3
<1>5. Reports(<<StatusIs("PendingCancel")>>, "PendingCancel", 0)
  BY <1>0, <1>2, Messages
<1>6. /\ Reports(<<Error("201"), StatusIs("Inactive")>>, "Inactive", 0)
      /\ Reports(<<StatusIs("Inactive"), Error("201")>>, "Inactive", 0)
  <2>1. Error("201") \in Message /\ Error("201").kind # "status" /\ Error("201") # Execution
    BY Messages
  <2> QED BY <1>0, <1>1, <2>1
<1>7. /\ Reports(<<Execution, StatusIs("Filled")>>, "Filled", 1)
      /\ Reports(<<StatusIs("Filled"), Execution>>, "Filled", 1)
  <2>1. Execution \in Message /\ Execution.kind # "status" /\ Execution # Error("201")
    BY Messages
  <2> QED BY <1>0, <1>1, <2>1
<1> QED BY <1>3, <1>4, <1>5, <1>6, <1>7

\* The invariant in three parts: orders and the messages about them, ...
StationOK ==
  /\ OrdersInv
  /\ tws \in [Placed -> TwsOrder] /\ queue \in [Placed -> Seq(Message)] /\ missed \subseteq Placed
  /\ ~up => \A ib \in Placed : queue[ib] = <<>>

\* ... the ledger of the adapter, ...
LedgerOK ==
  /\ orders \in [Ids -> 0..Len(entries)]
  /\ entries \in Seq(Entry) /\ Len(entries) <= MaxIb
  /\ forgotten \in 0..Len(entries)
  /\ trade \in [Placed -> IbStatus]
  /\ \A id \in Ids : orders[id] # 0 => orders[id] \in Known

\* ... and the position.
PositionOK ==
  /\ cache \in Int /\ held \in Int /\ posQueue \in Seq(Int) /\ missedPos \in BOOLEAN
  /\ ~up => posQueue = <<>>
  /\ posQueue # <<>> => posQueue[Len(posQueue)] = held
  /\ PositionsCatchUp

Rest == up \in BOOLEAN /\ refreshed \in BOOLEAN /\ breaks \in 0..MaxBreaks

LEMMA Parts == IInv <=> StationOK /\ LedgerOK /\ PositionOK /\ Rest
BY DEF IInv, TypeOK, StationOK, LedgerOK, PositionOK, Rest, ConnectionInv

LEMMA PartsNext == StationOK' /\ LedgerOK' /\ PositionOK' /\ Rest' => IInv'
BY DEF IInv, TypeOK, StationOK, LedgerOK, PositionOK, Rest, ConnectionInv

LEMMA LedgerKept ==
  ASSUME LedgerOK, UNCHANGED <<ledger, trade>>
  PROVE  LedgerOK'
BY DEF LedgerOK, ledger, Placed, Known

LEMMA PositionKept ==
  ASSUME PositionOK, UNCHANGED <<up, cache, holding>>
  PROVE  PositionOK'
BY DEF PositionOK, holding, PositionsCatchUp

(* An order at work takes a step, and the messages leave or are lost.        *)
LEMMA StationStep ==
  ASSUME IInv, NEW ib \in Placed, NEW v \in TwsOrder, NEW d \in {0, 1}, NEW ms,
         tws[ib].status \in IbOpen, v.cum = tws[ib].cum + d, v.status = "Filled" => d = 1,
         Reports(ms, v.status, d),
         tws' = [tws EXCEPT ![ib] = v], Send(ib, ms), UNCHANGED <<up, ledger, trade>>
  PROVE  StationOK'
<1> DEFINE w == tws[ib]
<1>1. /\ entries[ib] \in Entry /\ w \in TwsOrder /\ trade[ib] \in IbStatus
      /\ queue[ib] \in Seq(Message) /\ tws \in [Placed -> TwsOrder]
      /\ queue \in [Placed -> Seq(Message)] /\ missed \subseteq Placed
  BY DEF IInv, TypeOK, Placed
<1>2. w.status \in IbStatus /\ w.cum \in Nat /\ v.status \in IbStatus
  BY <1>1 DEF TwsOrder
<1>3. /\ Placed' = Placed /\ Known' = Known /\ TwsOrder' = TwsOrder /\ entries' = entries
      /\ trade' = trade /\ up' = up
  BY DEF Placed, Known, TwsOrder, ledger
<1>4. /\ Consistent(entries[ib], w, trade[ib], queue[ib])
      /\ ib \in Known \ missed => Complete(entries[ib], w, trade[ib], queue[ib])
      /\ ~up => \A p \in Placed : queue[p] = <<>>
  BY DEF IInv, OrdersInv, ConnectionInv
<1> HIDE DEF w
<1>5. /\ tws'[ib] = v /\ \A p \in Placed \ {ib} : tws'[p] = tws[p]
      /\ tws' \in [Placed -> TwsOrder]
  BY <1>1
<1>6. CASE up
  <2>1. queue' = [queue EXCEPT ![ib] = @ \o ms] /\ missed' = missed
    BY <1>6 DEF Send
  <2>2. /\ Consistent(entries[ib], v, trade[ib], queue[ib] \o ms)
        /\ Complete(entries[ib], w, trade[ib], queue[ib]) =>
             Complete(entries[ib], v, trade[ib], queue[ib] \o ms)
    BY <1>1, <1>2, <1>4, OrderReports DEF w
  <2>3. queue[ib] \o ms \in Seq(Message)
    BY <1>1 DEF Reports
  <2>4. /\ queue'[ib] = queue[ib] \o ms /\ \A p \in Placed \ {ib} : queue'[p] = queue[p]
        /\ queue' \in [Placed -> Seq(Message)]
    BY <1>1, <2>1, <2>3
  <2>5. \A p \in Placed : Consistent(entries[p], tws'[p], trade[p], queue'[p])
    BY <1>5, <2>2, <2>4 DEF IInv, OrdersInv
  <2>6. \A p \in Known \ missed : Complete(entries[p], tws'[p], trade[p], queue'[p])
    BY <1>4, <1>5, <2>2, <2>4 DEF IInv, OrdersInv, Known
  <2> QED BY <1>1, <1>3, <1>5, <1>6, <2>1, <2>4, <2>5, <2>6 DEF StationOK, OrdersInv
<1>7. CASE ~up
  <2>1. queue' = queue /\ missed' = missed \cup {ib}
    BY <1>7 DEF Send
  <2>2. Consistent(entries[ib], v, trade[ib], queue[ib])
    <3>1. v.cum \in {w.cum, w.cum + 1} /\ (v.status = "Filled" => v.cum = w.cum + 1)
      BY <1>2 DEF w
    <3> QED BY <1>1, <1>2, <1>4, <3>1, OrderGoesOn DEF w
  <2>3. \A p \in Placed : Consistent(entries[p], tws'[p], trade[p], queue[p])
    BY <1>5, <2>2 DEF IInv, OrdersInv
  <2>4. \A p \in Known \ missed' : Complete(entries[p], tws'[p], trade[p], queue[p])
    BY <1>5, <2>1 DEF IInv, OrdersInv, Known
  <2> QED BY <1>1, <1>3, <1>4, <1>5, <2>1, <2>3, <2>4 DEF StationOK, OrdersInv
<1> QED BY <1>6, <1>7

(* The same, for a step that leaves the account alone.                       *)
LEMMA StationStepOnly ==
  ASSUME IInv, NEW ib \in Placed, NEW v \in TwsOrder, NEW ms,
         tws[ib].status \in IbOpen, v.cum = tws[ib].cum, v.status # "Filled",
         Reports(ms, v.status, 0), tws' = [tws EXCEPT ![ib] = v], Send(ib, ms),
         UNCHANGED <<up, ledger, account, trade, holding, breaks>>
  PROVE  IInv'
<1>1. v.cum = tws[ib].cum + 0 /\ UNCHANGED <<up, ledger, trade>> /\ UNCHANGED <<up, cache, holding>>
      /\ refreshed' = refreshed /\ breaks' = breaks
  BY DEF IInv, TypeOK, TwsOrder, account
<1>2. StationOK'
  BY <1>1, StationStep
<1>3. LedgerOK /\ PositionOK /\ Rest
  BY Parts
<1>4. LedgerOK' /\ PositionOK'
  BY <1>1, <1>3, LedgerKept, PositionKept
<1>5. Rest'
  BY <1>1, <1>3 DEF Rest
<1> QED BY <1>2, <1>4, <1>5, PartsNext

(* Workstation accepts, rejects, warns, cancels, or is asked to cancel.      *)
LEMMA AcceptsStep ==
  ASSUME IInv, NEW ib \in Placed, TwsAccepts(ib)
  PROVE  IInv'
<1> DEFINE v == [tws[ib] EXCEPT !.status = "Submitted"]
<1>1. tws \in [Placed -> TwsOrder] /\ "PendingSubmit" \in IbOpen /\ "Submitted" \in IbStatus
  BY DEF IInv, TypeOK, IbOpen, IbStatus
<1>2. v \in TwsOrder /\ v.status = "Submitted" /\ v.cum = tws[ib].cum
  BY <1>1 DEF TwsOrder
<1>3. tws' = [tws EXCEPT ![ib] = v]
  BY <1>1 DEF TwsAccepts
<1>4. PICK ms \in Told("Submitted") : Send(ib, ms)
  BY DEF TwsAccepts
<1>5. Reports(ms, "Submitted", 0)
  BY <1>1, StationReports
<1> HIDE DEF v
<1> QED BY <1>1, <1>2, <1>3, <1>4, <1>5, StationStepOnly DEF TwsAccepts

LEMMA RejectsStep ==
  ASSUME IInv, NEW ib \in Placed, TwsRejects(ib)
  PROVE  IInv'
<1> DEFINE v == [tws[ib] EXCEPT !.status = "Inactive"]
<1>1. tws \in [Placed -> TwsOrder] /\ "PendingSubmit" \in IbOpen /\ "Inactive" \in IbStatus
  BY DEF IInv, TypeOK, IbOpen, IbDone, IbStatus
<1>2. v \in TwsOrder /\ v.status = "Inactive" /\ v.cum = tws[ib].cum
  BY <1>1 DEF TwsOrder
<1>3. tws' = [tws EXCEPT ![ib] = v]
  BY <1>1 DEF TwsRejects
<1>4. \E ms : Send(ib, ms) /\ Reports(ms, "Inactive", 0)
  BY StationReports DEF TwsRejects
<1> HIDE DEF v
<1> QED BY <1>1, <1>2, <1>3, <1>4, StationStepOnly DEF TwsRejects

LEMMA WarnsStep ==
  ASSUME IInv, NEW ib \in Placed, TwsWarns(ib)
  PROVE  IInv'
<1>1. /\ tws \in [Placed -> TwsOrder] /\ tws[ib] \in TwsOrder /\ tws[ib].status \in IbOpen
      /\ tws[ib].status # "Filled" /\ tws' = [tws EXCEPT ![ib] = tws[ib]]
  BY DEF IInv, TypeOK, TwsWarns, IbOpen
<1>2. Send(ib, <<Error("other")>>) /\ Reports(<<Error("other")>>, tws[ib].status, 0)
  BY <1>1, StationReports DEF TwsWarns
<1> QED BY <1>1, <1>2, StationStepOnly DEF TwsWarns

LEMMA CancelsStep ==
  ASSUME IInv, NEW ib \in Placed, TwsCancels(ib)
  PROVE  IInv'
<1> DEFINE v == [tws[ib] EXCEPT !.status = "Cancelled"]
<1>1. tws \in [Placed -> TwsOrder] /\ tws[ib].status \in IbOpen /\ "Cancelled" \in IbStatus
  BY DEF IInv, TypeOK, IbOpen, IbDone, IbStatus, TwsCancels
<1>2. v \in TwsOrder /\ v.status = "Cancelled" /\ v.cum = tws[ib].cum
  BY <1>1 DEF TwsOrder
<1>3. tws' = [tws EXCEPT ![ib] = v]
  BY <1>1 DEF TwsCancels
<1>4. PICK ms \in Told("Cancelled") : Send(ib, ms)
  BY DEF TwsCancels
<1>5. Reports(ms, "Cancelled", 0)
  BY <1>1, StationReports
<1> HIDE DEF v
<1> QED BY <1>1, <1>2, <1>3, <1>4, <1>5, StationStepOnly DEF TwsCancels

LEMMA CancelOrderStep ==
  ASSUME IInv, NEW id \in Ids, CancelOrder(id)
  PROVE  IInv'
<1> DEFINE ib == orders[id]
           v == [tws[ib] EXCEPT !.status = "PendingCancel"]
<1>1. /\ ib \in Placed /\ tws \in [Placed -> TwsOrder] /\ tws[ib].status \in IbOpen
      /\ "PendingCancel" \in IbStatus
  BY DEF IInv, TypeOK, IbOpen, IbStatus, CancelOrder, Placed
<1>2. v \in TwsOrder /\ v.status = "PendingCancel" /\ v.cum = tws[ib].cum
  BY <1>1 DEF TwsOrder
<1>3. tws' = [tws EXCEPT ![ib] = v] /\ Send(ib, <<StatusIs("PendingCancel")>>)
      /\ UNCHANGED <<up, ledger, account, trade, holding, breaks>>
  BY <1>1 DEF CancelOrder
<1>4. Reports(<<StatusIs("PendingCancel")>>, "PendingCancel", 0)
  BY StationReports
<1> HIDE DEF v, ib
<1> QED BY <1>1, <1>2, <1>3, <1>4, StationStepOnly

(* A share trades.                                                           *)
LEMMA FillsStep ==
  ASSUME IInv, NEW ib \in Placed, TwsFills(ib)
  PROVE  IInv'
<1> DEFINE cum == tws[ib].cum + 1
           full == cum = tws[ib].quantity
           v == [tws[ib] EXCEPT !.cum = cum, !.status = IF full THEN "Filled" ELSE @]
           now == IF IsLeg(ib) THEN held - 1 ELSE held + 1
<1>1. /\ tws \in [Placed -> TwsOrder] /\ tws[ib].status \in IbOpen /\ "Filled" \in IbStatus
      /\ tws[ib] \in TwsOrder /\ tws[ib].status # "Filled"
  BY DEF IInv, TypeOK, IbOpen, IbDone, IbStatus, TwsFills
<1>2. /\ v \in TwsOrder /\ v.status = (IF full THEN "Filled" ELSE tws[ib].status)
      /\ v.cum = tws[ib].cum + 1
  <2>1. cum \in Nat /\ (IF full THEN "Filled" ELSE tws[ib].status) \in IbStatus
    BY <1>1 DEF TwsOrder
  <2> HIDE DEF cum, full
  <2>2. v = [tws[ib] EXCEPT !.cum = cum, !.status = IF full THEN "Filled" ELSE tws[ib].status]
    BY <1>1 DEF TwsOrder
  <2>3. v \in TwsOrder /\ v.status = (IF full THEN "Filled" ELSE tws[ib].status) /\ v.cum = cum
    BY <1>1, <2>1, <2>2 DEF TwsOrder
  <2> QED BY <2>3 DEF cum
<1>3. /\ tws' = [tws EXCEPT ![ib] = v]
      /\ UNCHANGED <<up, ledger, account, trade, breaks>>
      /\ held' = now
      /\ IF up THEN posQueue' = Append(posQueue, now) /\ UNCHANGED missedPos
               ELSE missedPos' = TRUE /\ UNCHANGED posQueue
  BY <1>1 DEF TwsFills
<1>4. PICK ms : Send(ib, ms) /\ Reports(ms, v.status, 1)
  <2>1. CASE full
    BY <1>2, <2>1, StationReports DEF TwsFills
  <2>2. CASE ~full
    <3>1. Send(ib, <<Execution>>)
      BY <2>2 DEF TwsFills
    <3> QED BY <1>1, <1>2, <2>2, <3>1, StationReports
  <2> QED BY <2>1, <2>2
<1>5. now \in Int
  BY DEF IInv, TypeOK
<1> HIDE DEF v, now
<1>6. StationOK'
  BY <1>1, <1>2, <1>3, <1>4, StationStep
<1>7. PositionOK /\ LedgerOK /\ Rest
  BY Parts
<1>8. PositionOK'
  <2>1. CASE up
    <3>0. posQueue \in Seq(Int)
      BY <1>7 DEF PositionOK
    <3>1. /\ Append(posQueue, now) \in Seq(Int) /\ Append(posQueue, now) # <<>>
          /\ Append(posQueue, now)[Len(Append(posQueue, now))] = now
      BY <1>5, <3>0
    <3> QED BY <1>3, <1>5, <1>7, <2>1, <3>1 DEF PositionOK, PositionsCatchUp, account
  <2>2. CASE ~up
    BY <1>3, <1>5, <1>7, <2>2 DEF PositionOK, PositionsCatchUp, account
  <2> QED BY <2>1, <2>2
<1>9. Rest' /\ LedgerOK'
  BY <1>3, <1>7, LedgerKept DEF Rest, account
<1> QED BY <1>6, <1>8, <1>9, PartsNext

-----------------------------------------------------------------------------
(* Steps of the adapter.                                                     *)

(* A table indexed from 1, and what is appended to one.                      *)
LEMMA Table ==
  ASSUME NEW S, NEW n \in Nat, NEW f \in [1..n -> S]
  PROVE  f \in Seq(S) /\ Len(f) = n
<1>1. f \in Seq(S)
  BY SeqDef
<1> QED BY <1>1, LenProperties

Joins(h, S, f, n, g, m) ==
  /\ h \in [1..(n + m) -> S]
  /\ \A k \in 1..n : h[k] = f[k]
  /\ \A k \in (n + 1)..(n + m) : k - n \in 1..m /\ h[k] = g[k - n]

LEMMA Joined ==
  ASSUME NEW S, NEW n \in Nat, NEW m \in Nat, NEW f \in [1..n -> S], NEW g \in [1..m -> S],
         NEW h, h = f \o g
  PROVE  Joins(h, S, f, n, g, m)
<1>1. f \in Seq(S) /\ g \in Seq(S) /\ Len(f) = n /\ Len(g) = m
  BY Table
<1>2. f \o g \in Seq(S) /\ Len(f \o g) = n + m
  BY <1>1, ConcatProperties
<1>3. h \in [1..(n + m) -> S]
  BY <1>2, LenProperties
<1>4. /\ \A k \in 1..n : h[k] = f[k]
      /\ \A k \in (n + 1)..(n + m) : k - n \in 1..m /\ h[k] = g[k - n]
  BY <1>1, ConcatProperties
<1> QED BY <1>3, <1>4 DEF Joins

(* Orders are placed: new entries, which nothing is known of yet, after the  *)
(* old ones, which stay as they are.                                         *)
LEMMA PlaceStep ==
  ASSUME IInv, NEW m \in Nat, NEW ids \in [1..m -> Ids], NEW quantity \in Quantities,
         NEW parents \in [1..m -> 0..(Len(entries) + m)], Len(ids) = m, up,
         Place(ids, quantity, parents), UNCHANGED <<up, account, holding, breaks>>
  PROVE  IInv'
<1> DEFINE n == Len(entries)
           E == [k \in 1..m |-> NewEntry(ids[k], quantity)]
           W == [k \in 1..m |-> NewOrder(quantity, parents[k])]
           T == [k \in 1..m |-> "PendingSubmit"]
           Q == [k \in 1..m |-> <<>>]
<1>1. /\ n \in Nat /\ n + m <= MaxIb
      /\ entries' = entries \o E /\ tws' = tws \o W /\ trade' = trade \o T /\ queue' = queue \o Q
      /\ orders' = [i \in Ids |-> IF \E k \in 1..m : ids[k] = i
                                  THEN n + (CHOOSE k \in 1..m : ids[k] = i) ELSE orders[i]]
      /\ forgotten' = forgotten /\ missed' = missed /\ up' = up
      /\ cache' = cache /\ refreshed' = refreshed /\ breaks' = breaks /\ UNCHANGED holding
  <2>1. DOMAIN ids = 1..m
    OBVIOUS
  <2>2. n \in Nat
    BY DEF IInv, TypeOK
  <2> QED BY <2>1, <2>2 DEF Place, account
<1>2. /\ E \in [1..m -> Entry]
      /\ \A k \in 1..m : E[k].status = "RECEIVED" /\ E[k].fills = 0 /\ E[k].filled = 0
  <2>1. Platform("PendingSubmit") = "RECEIVED" /\ "RECEIVED" \in Open
    BY DEF Platform, Open
  <2>2. \A k \in 1..m : /\ NewEntry(ids[k], quantity) \in Entry
                        /\ NewEntry(ids[k], quantity).status = "RECEIVED"
                        /\ NewEntry(ids[k], quantity).fills = 0
                        /\ NewEntry(ids[k], quantity).filled = 0
    BY <2>1 DEF NewEntry, Entry
  <2> QED BY <2>2
<1>3. entries \in [1..n -> Entry] /\ entries \in Seq(Entry)
  BY LenProperties DEF IInv, TypeOK
<1>4. /\ entries' \in [1..(n + m) -> Entry]
      /\ \A k \in 1..n : entries'[k] = entries[k]
      /\ \A k \in (n + 1)..(n + m) : k - n \in 1..m /\ entries'[k] = E[k - n]
  <2>1. n \in Nat /\ E \in [1..m -> Entry] /\ entries \in [1..n -> Entry] /\ entries' = entries \o E
    BY <1>1, <1>2, <1>3
  <2> HIDE DEF E, n
  <2>2. Joins(entries', Entry, entries, n, E, m)
    BY <2>1, Joined
  <2> QED BY <2>2 DEF Joins
<1>5. entries' \in Seq(Entry) /\ Len(entries') = n + m
  <2>1. n + m \in Nat
    BY <1>1
  <2> HIDE DEF n
  <2> QED BY <1>4, <2>1, Table
<1>6. Placed = 1..n /\ Placed' = 1..(n + m)
  BY <1>5 DEF Placed
<1> DEFINE After == [status : IbStatus, cum : Nat, quantity : Quantities, parent : 0..(n + m)]
<1>7. TwsOrder' = After /\ TwsOrder \subseteq After
  <2>1. TwsOrder' = After
    BY <1>5 DEF TwsOrder
  <2>2. 0..n \subseteq 0..(n + m)
    BY <1>1
  <2> HIDE DEF n
  <2>3. ASSUME NEW w \in [status : IbStatus, cum : Nat, quantity : Quantities, parent : 0..n]
        PROVE  w \in After
    BY <2>2
  <2> QED BY <2>1, <2>3 DEF TwsOrder, n
<1>8. /\ W \in [1..m -> After]
      /\ \A k \in 1..m : W[k].status = "PendingSubmit" /\ W[k].cum = 0
  <2>1. "PendingSubmit" \in IbStatus
    BY DEF IbStatus, IbOpen
  <2>2. \A k \in 1..m : /\ NewOrder(quantity, parents[k]) \in After
                        /\ NewOrder(quantity, parents[k]).status = "PendingSubmit"
                        /\ NewOrder(quantity, parents[k]).cum = 0
    BY <2>1 DEF NewOrder
  <2> HIDE DEF After
  <2> QED BY <2>2
<1>9. /\ tws' \in [1..(n + m) -> After]
      /\ \A k \in 1..n : tws'[k] = tws[k]
      /\ \A k \in (n + 1)..(n + m) : k - n \in 1..m /\ tws'[k] = W[k - n]
  <2>1. tws \in [1..n -> After]
    BY <1>6, <1>7 DEF IInv, TypeOK
  <2>2. n \in Nat /\ tws' = tws \o W
    BY <1>1
  <2> HIDE DEF W, After, n
  <2>3. Joins(tws', After, tws, n, W, m)
    BY <1>8, <2>1, <2>2, Joined
  <2> QED BY <2>3 DEF Joins
<1>10. /\ trade' \in [1..(n + m) -> IbStatus]
       /\ \A k \in 1..n : trade'[k] = trade[k]
       /\ \A k \in (n + 1)..(n + m) : trade'[k] = "PendingSubmit"
  <2>1. trade \in [1..n -> IbStatus] /\ T \in [1..m -> IbStatus]
        /\ \A k \in 1..m : T[k] = "PendingSubmit"
    BY <1>6 DEF IInv, TypeOK, IbStatus, IbOpen
  <2>3. n \in Nat /\ trade' = trade \o T
    BY <1>1
  <2> HIDE DEF T, n
  <2>2. Joins(trade', IbStatus, trade, n, T, m)
    BY <2>1, <2>3, Joined
  <2> QED BY <2>1, <2>2 DEF Joins
<1>11. /\ queue' \in [1..(n + m) -> Seq(Message)]
       /\ \A k \in 1..n : queue'[k] = queue[k]
       /\ \A k \in (n + 1)..(n + m) : queue'[k] = <<>>
  <2>1. queue \in [1..n -> Seq(Message)] /\ Q \in [1..m -> Seq(Message)]
        /\ \A k \in 1..m : Q[k] = <<>>
    BY <1>6 DEF IInv, TypeOK
  <2>3. n \in Nat /\ queue' = queue \o Q
    BY <1>1
  <2> HIDE DEF Q, n
  <2>2. Joins(queue', Seq(Message), queue, n, Q, m)
    BY <2>1, <2>3, Joined
  <2> QED BY <2>1, <2>2 DEF Joins
<1>12. \A k \in Placed' \ Placed : /\ k \in (n + 1)..(n + m) /\ k > n
                                   /\ entries'[k].status = "RECEIVED"
                                   /\ entries'[k].fills = 0 /\ entries'[k].filled = 0
                                   /\ tws'[k].status = "PendingSubmit" /\ tws'[k].cum = 0
                                   /\ trade'[k] = "PendingSubmit" /\ queue'[k] = <<>>
  <2> SUFFICES ASSUME NEW k \in Placed' \ Placed
               PROVE  /\ k \in (n + 1)..(n + m) /\ k > n
                      /\ entries'[k].status = "RECEIVED"
                      /\ entries'[k].fills = 0 /\ entries'[k].filled = 0
                      /\ tws'[k].status = "PendingSubmit" /\ tws'[k].cum = 0
                      /\ trade'[k] = "PendingSubmit" /\ queue'[k] = <<>>
    OBVIOUS
  <2> HIDE DEF E, W, n
  <2>1. k \in (n + 1)..(n + m) /\ k > n
    BY <1>1, <1>6
  <2>2. k - n \in 1..m /\ entries'[k] = E[k - n] /\ tws'[k] = W[k - n]
    BY <1>4, <1>9, <2>1
  <2> QED BY <1>2, <1>8, <1>10, <1>11, <2>1, <2>2
<1>13. \A k \in Placed : /\ k \in Placed' /\ entries'[k] = entries[k] /\ tws'[k] = tws[k]
                         /\ trade'[k] = trade[k] /\ queue'[k] = queue[k]
  BY <1>1, <1>4, <1>6, <1>9, <1>10, <1>11
<1> HIDE DEF E, W, T, Q
<1>14. OrdersInv'
  <2>1. ASSUME NEW e, NEW w, e.status = "RECEIVED", e.fills = 0, e.filled = 0,
               w.status = "PendingSubmit", w.cum = 0
        PROVE  Consistent(e, w, "PendingSubmit", <<>>) /\ Complete(e, w, "PendingSubmit", <<>>)
    BY <2>1, ExecutionsNone DEF Consistent, Complete, EndsAgree, EndIsLast, FillsAgree, Terminal, IbDone
  <2>2. ASSUME NEW k \in Placed'
        PROVE  Consistent(entries'[k], tws'[k], trade'[k], queue'[k])
    BY <1>12, <1>13, <2>1 DEF IInv, OrdersInv
  <2>3. ASSUME NEW k \in Known', k \notin missed'
        PROVE  Complete(entries'[k], tws'[k], trade'[k], queue'[k])
    <3>1. k \in Placed' /\ (k \in Placed => k \in Known \ missed)
      BY <1>1, <2>3 DEF Known
    <3> QED BY <1>12, <1>13, <2>1, <3>1 DEF IInv, OrdersInv
  <2> QED BY <2>2, <2>3 DEF OrdersInv
<1>15. StationOK'
  <2>1. missed' \subseteq Placed'
    BY <1>1, <1>13 DEF IInv, TypeOK
  <2> QED BY <1>1, <1>6, <1>7, <1>9, <1>11, <1>14, <2>1 DEF StationOK
<1>16. LedgerOK'
  <2>1. ASSUME NEW i \in Ids PROVE orders'[i] \in 0..(n + m) /\ (orders'[i] # 0 => orders'[i] \in Known')
    <3>1. orders[i] \in 0..n /\ (orders[i] # 0 => orders[i] \in Known) /\ forgotten \in 0..n
      BY DEF IInv, TypeOK, ConnectionInv
    <3>2. CASE \E k \in 1..m : ids[k] = i
      <4>1. PICK j \in 1..m : orders'[i] = n + j
        BY <1>1, <3>2
      <4>2. orders'[i] \in (n + 1)..(n + m) /\ orders'[i] > forgotten
        BY <1>1, <3>1, <4>1
      <4>3. orders'[i] \in 0..(n + m) /\ orders'[i] \in Placed'
        BY <1>1, <1>6, <4>1
      <4> QED BY <1>1, <4>2, <4>3 DEF Known
    <3>3. CASE ~\E k \in 1..m : ids[k] = i
      <4>1. orders'[i] = orders[i]
        BY <1>1, <3>3
      <4>2. orders[i] \in 0..(n + m)
        BY <1>1, <3>1
      <4>3. orders[i] # 0 => orders[i] \in Placed' /\ orders[i] > forgotten
        BY <1>13, <3>1 DEF Known
      <4> QED BY <1>1, <4>1, <4>2, <4>3 DEF Known
    <3> QED BY <3>2, <3>3
  <2>2. forgotten' \in 0..(n + m)
    BY <1>1 DEF IInv, TypeOK
  <2>3. orders' \in [Ids -> 0..(n + m)]
    BY <1>1, <2>1
  <2> QED BY <1>1, <1>5, <1>6, <1>10, <2>1, <2>2, <2>3 DEF LedgerOK
<1>17. PositionOK' /\ Rest'
  <2>1. PositionOK /\ Rest
    BY Parts
  <2> QED BY <1>1, <2>1, PositionKept DEF Rest
<1> QED BY <1>15, <1>16, <1>17, PartsNext
LEMMA Three ==
  ASSUME NEW S, NEW a \in S, NEW b \in S, NEW c \in S
  PROVE  <<a, b, c>> \in [1..3 -> S] /\ Len(<<a, b, c>>) = 3
<1>1. <<a, b, c>> \in Seq(S) /\ Len(<<a, b, c>>) = 3
  OBVIOUS
<1> QED BY <1>1, LenProperties

LEMMA ExecuteOrderStep ==
  ASSUME IInv, NEW o \in Orders, NEW q \in Quantities, ExecuteOrder(o, q)
  PROVE  IInv'
<1> DEFINE ids == << <<o, "entry">> >>  parents == <<0>>
<1>1. ids \in [1..1 -> Ids] /\ parents \in [1..1 -> 0..(Len(entries) + 1)] /\ Len(ids) = 1
  <2>1. <<o, "entry">> \in Ids
    BY DEF Ids, Roles
  <2>2. Len(entries) \in Nat
    BY DEF IInv, TypeOK
  <2> QED BY <2>1, <2>2
<1>2. Place(ids, q, parents) /\ up /\ UNCHANGED <<up, account, holding, breaks>>
  BY DEF ExecuteOrder
<1> HIDE DEF ids, parents
<1> QED BY <1>1, <1>2, PlaceStep

LEMMA ExecuteBracketOrderStep ==
  ASSUME IInv, NEW o \in Orders, NEW q \in BracketQuantities, ExecuteBracketOrder(o, q)
  PROVE  IInv'
<1> DEFINE ids == << <<o, "entry">>, <<o, "TP">>, <<o, "SL">> >>
           p == Len(entries) + 1
           parents == <<0, p, p>>
<1>1. ids \in [1..3 -> Ids] /\ parents \in [1..3 -> 0..(Len(entries) + 3)] /\ Len(ids) = 3
  <2>1. <<o, "entry">> \in Ids /\ <<o, "TP">> \in Ids /\ <<o, "SL">> \in Ids
    BY DEF Ids, Roles, Legs
  <2>2. Len(entries) \in Nat
    BY DEF IInv, TypeOK
  <2>3. 0 \in 0..(Len(entries) + 3) /\ p \in 0..(Len(entries) + 3)
    BY <2>2
  <2> HIDE DEF p
  <2>4. ids \in [1..3 -> Ids] /\ Len(ids) = 3
    BY <2>1, Three
  <2>5. parents \in [1..3 -> 0..(Len(entries) + 3)]
    BY <2>3, Three
  <2> QED BY <2>4, <2>5
<1>2. Place(ids, q, parents) /\ up /\ UNCHANGED <<up, account, holding, breaks>>
  BY DEF ExecuteBracketOrder
<1>3. q \in Quantities
  BY PaperBrokerAssumption
<1> HIDE DEF ids, parents
<1> QED BY <1>1, <1>2, <1>3, PlaceStep

(* A replaced order takes the status of its Trade, which has not ended       *)
(* unless the order has.                                                     *)
LEMMA ReplaceOrderStep ==
  ASSUME IInv, NEW o \in Orders, NEW quantity \in Quantities, ReplaceOrder(o, quantity)
  PROVE  IInv'
<1> DEFINE ib == orders[<<o, "entry">>]
           f == [entries[ib] EXCEPT !.quantity = quantity, !.status = Platform(trade[ib])]
<1>1. /\ ib \in Placed /\ entries \in Seq(Entry) /\ entries[ib] \in Entry
      /\ tws \in [Placed -> TwsOrder] /\ trade \in [Placed -> IbStatus]
      /\ queue \in [Placed -> Seq(Message)]
  <2>1. <<o, "entry">> \in Ids
    BY DEF Ids, Roles
  <2>2. ib \in Placed
    <3>1. Len(entries) \in Nat /\ orders \in [Ids -> 0..Len(entries)]
      BY DEF IInv, TypeOK
    <3>2. ib \in 0..Len(entries)
      BY <2>1, <3>1
    <3>3. ib # 0
      BY DEF ReplaceOrder
    <3> HIDE DEF ib
    <3> QED BY <3>1, <3>2, <3>3 DEF Placed
  <2>3. entries \in Seq(Entry) /\ entries[ib] \in Entry
    BY <2>2 DEF IInv, TypeOK, Placed
  <2> QED BY <2>2, <2>3 DEF IInv, TypeOK
<1>2. /\ f \in Entry /\ f.status = Platform(trade[ib]) /\ f.fills = entries[ib].fills
      /\ f.filled = entries[ib].filled
  <2>1. Platform(trade[ib]) \in Open \cup Terminal
    BY <1>1, Statuses
  <2> QED BY <1>1, <2>1 DEF Entry
<1>3. /\ entries' = [entries EXCEPT ![ib] = f]
      /\ UNCHANGED <<up, orders, forgotten, trade, queue, missed>>
      /\ UNCHANGED <<up, cache, holding>> /\ refreshed' = refreshed /\ breaks' = breaks
  <2>1. entries' = [entries EXCEPT ![ib] = f]
    BY <1>1 DEF ReplaceOrder
  <2> QED BY <2>1 DEF ReplaceOrder, account
<1> HIDE DEF f
<1>4. /\ entries' \in Seq(Entry) /\ Len(entries') = Len(entries)
      /\ entries'[ib] = f /\ \A k \in Placed : k # ib => entries'[k] = entries[k]
  BY <1>1, <1>2, <1>3 DEF Placed
<1>5. Placed' = Placed /\ Known' = Known /\ TwsOrder' = TwsOrder
  BY <1>3, <1>4 DEF Placed, Known, TwsOrder
<1>6. /\ tws' \in [Placed -> TwsOrder]
      /\ \A k \in Placed : tws'[k].status = tws[k].status /\ tws'[k].cum = tws[k].cum
  <2> DEFINE v == [tws[ib] EXCEPT !.quantity = quantity]
  <2>1. tws[ib] \in TwsOrder
    BY <1>1
  <2>2. v \in TwsOrder /\ v.status = tws[ib].status /\ v.cum = tws[ib].cum
    BY <2>1 DEF TwsOrder
  <2>3. tws' = tws \/ tws' = [tws EXCEPT ![ib] = v]
    BY <1>1 DEF ReplaceOrder
  <2> HIDE DEF v
  <2> QED BY <1>1, <2>2, <2>3
<1>7. ASSUME NEW k \in Placed
      PROVE  /\ Consistent(entries'[k], tws'[k], trade[k], queue[k])
             /\ Complete(entries[k], tws[k], trade[k], queue[k]) =>
                  Complete(entries'[k], tws'[k], trade[k], queue[k])
  <2>1. Consistent(entries[k], tws[k], trade[k], queue[k]) /\ trade[k] \in IbStatus
    BY <1>1 DEF IInv, OrdersInv
  <2>2. /\ tws'[k].status = tws[k].status /\ tws'[k].cum = tws[k].cum
        /\ entries'[k].fills = entries[k].fills /\ entries'[k].filled = entries[k].filled
        /\ entries'[k].status = (IF k = ib THEN Platform(trade[k]) ELSE entries[k].status)
    BY <1>2, <1>4, <1>6
  <2>3. EndsAgree(entries'[k], tws'[k], trade[k], queue[k])
    <3>1. Platform(trade[k]) \in Terminal => trade[k] \in IbDone
      BY <2>1, Statuses
    <3> QED BY <2>1, <2>2, <3>1 DEF Consistent, EndsAgree
  <2>4. EndIsLast(trade[k], queue[k]) /\ FillsAgree(entries'[k], tws'[k])
    BY <2>1, <2>2 DEF Consistent, FillsAgree
  <2>5. Complete(entries[k], tws[k], trade[k], queue[k]) =>
          Complete(entries'[k], tws'[k], trade[k], queue[k])
    BY <2>2 DEF Complete
  <2> QED BY <2>3, <2>4, <2>5 DEF Consistent
<1>8. OrdersInv'
  <2>1. \A k \in Placed : Consistent(entries'[k], tws'[k], trade'[k], queue'[k])
    BY <1>3, <1>7
  <2>2. \A k \in Known \ missed : Complete(entries'[k], tws'[k], trade'[k], queue'[k])
    BY <1>3, <1>7 DEF IInv, OrdersInv, Known
  <2> QED BY <1>3, <1>5, <2>1, <2>2 DEF OrdersInv
<1>9. StationOK /\ LedgerOK /\ PositionOK /\ Rest
  BY Parts
<1>10. StationOK'
  BY <1>3, <1>5, <1>6, <1>8, <1>9 DEF StationOK
<1>11. LedgerOK'
  BY <1>3, <1>4, <1>5, <1>9 DEF LedgerOK
<1>12. PositionOK' /\ Rest'
  BY <1>3, <1>9, PositionKept DEF Rest
<1> QED BY <1>10, <1>11, <1>12, PartsNext

(* An order the ledger has forgotten goes on without an entry.               *)
LEMMA MessageDropped ==
  ASSUME NEW e \in Entry, NEW w, NEW t \in IbStatus, NEW q \in Seq(Message), q # <<>>,
         w.status \in IbStatus, w.cum \in Nat, Consistent(e, w, t, q),
         NEW u, u = IF Head(q).kind = "status" THEN Head(q).status ELSE t
  PROVE  Consistent(e, w, u, Tail(q))
<1>1. Consistent(Handled(e, Head(q)), w, u, Tail(q))
  BY MessageHandled
<1> QED BY <1>1 DEF Consistent, EndsAgree

LEMMA DeliverStep ==
  ASSUME IInv, NEW ib \in Placed, Deliver(ib)
  PROVE  IInv'
<1> DEFINE e == entries[ib]  w == tws[ib]  q == queue[ib]  m == Head(q)
           u == IF m.kind = "status" THEN m.status ELSE trade[ib]
           f == IF ib \in Known THEN Handled(e, m) ELSE e
<1>1. /\ entries \in Seq(Entry) /\ e \in Entry /\ w \in TwsOrder /\ trade[ib] \in IbStatus
      /\ trade \in [Placed -> IbStatus] /\ queue \in [Placed -> Seq(Message)]
      /\ q \in Seq(Message) /\ q # <<>>
  <2>1. entries \in Seq(Entry) /\ ib \in 1..Len(entries)
    BY DEF IInv, TypeOK, Placed
  <2>2. e \in Entry
    BY <2>1
  <2> QED BY <2>1, <2>2 DEF IInv, TypeOK, Deliver
<1>2. w.status \in IbStatus /\ w.cum \in Nat
  BY <1>1 DEF TwsOrder
<1>3. m \in Message /\ Tail(q) \in Seq(Message)
  BY <1>1
<1>4. u \in IbStatus
  BY <1>1, <1>3, Messages
<1>5. /\ UNCHANGED <<up, orders, forgotten, tws, missed>>
      /\ UNCHANGED <<up, cache, holding>> /\ refreshed' = refreshed /\ breaks' = breaks /\ up
  BY DEF Deliver, account
<1>6. entries' = [entries EXCEPT ![ib] = f]
  <2>1. CASE ib \in Known
    BY <2>1 DEF Deliver
  <2>2. CASE ib \notin Known
    BY <1>1, <2>2 DEF Deliver
  <2> QED BY <2>1, <2>2
<1>7. trade' = [trade EXCEPT ![ib] = u] /\ queue' = [queue EXCEPT ![ib] = Tail(q)]
  BY <1>1 DEF Deliver
<1>8. Consistent(e, w, trade[ib], q)
  BY DEF IInv, OrdersInv
<1> DEFINE g == Handled(e, m)
<1>9. /\ g \in Entry /\ Consistent(g, w, u, Tail(q)) /\ Consistent(e, w, u, Tail(q))
      /\ Complete(e, w, trade[ib], q) => Complete(g, w, u, Tail(q))
  <2> HIDE DEF e, w, q
  <2> QED BY <1>1, <1>2, <1>8, MessageHandled, MessageDropped
<1> HIDE DEF g, u, m
<1>10. f \in Entry /\ Consistent(f, w, u, Tail(q))
       /\ (ib \in Known /\ Complete(e, w, trade[ib], q) => Complete(f, w, u, Tail(q)))
  BY <1>1, <1>9 DEF g
<1> HIDE DEF f
<1>11. /\ entries' \in Seq(Entry) /\ Len(entries') = Len(entries)
       /\ entries'[ib] = f /\ \A k \in Placed : k # ib => entries'[k] = entries[k]
  BY <1>1, <1>6, <1>10 DEF Placed
<1>12. Placed' = Placed /\ Known' = Known /\ TwsOrder' = TwsOrder
  BY <1>5, <1>11 DEF Placed, Known, TwsOrder
<1>13. /\ trade' \in [Placed -> IbStatus] /\ queue' \in [Placed -> Seq(Message)]
       /\ trade'[ib] = u /\ queue'[ib] = Tail(q)
       /\ \A k \in Placed : k # ib => trade'[k] = trade[k] /\ queue'[k] = queue[k]
  BY <1>1, <1>3, <1>4, <1>7
<1>14. OrdersInv'
  <2>1. \A k \in Placed : Consistent(entries'[k], tws[k], trade'[k], queue'[k])
    BY <1>10, <1>11, <1>13 DEF IInv, OrdersInv
  <2>2. \A k \in Known \ missed : Complete(entries'[k], tws[k], trade'[k], queue'[k])
    BY <1>10, <1>11, <1>13 DEF IInv, OrdersInv, Known
  <2> QED BY <1>5, <1>12, <2>1, <2>2 DEF OrdersInv
<1>15. StationOK /\ LedgerOK /\ PositionOK /\ Rest
  BY Parts
<1>16. StationOK'
  BY <1>5, <1>12, <1>13, <1>14, <1>15 DEF StationOK
<1>17. LedgerOK'
  BY <1>5, <1>11, <1>12, <1>13, <1>15 DEF LedgerOK
<1>18. PositionOK' /\ Rest'
  BY <1>5, <1>15, PositionKept DEF Rest
<1> QED BY <1>16, <1>17, <1>18, PartsNext

LEMMA StationKept ==
  ASSUME StationOK, UNCHANGED <<up, ledger, trade, station>>
  PROVE  StationOK'
BY DEF StationOK, OrdersInv, ledger, station, Placed, Known, TwsOrder

LEMMA DeliverPositionStep ==
  ASSUME IInv, DeliverPosition
  PROVE  IInv'
<1>1. StationOK /\ LedgerOK /\ PositionOK /\ Rest
  BY Parts
<1>2. StationOK' /\ LedgerOK' /\ Rest'
  BY <1>1, StationKept, LedgerKept DEF DeliverPosition, Rest
<1>3. /\ posQueue \in Seq(Int) /\ posQueue # <<>> /\ posQueue[Len(posQueue)] = held
      /\ cache' = Head(posQueue) /\ posQueue' = Tail(posQueue) /\ up' = up /\ up
      /\ held' = held /\ missedPos' = missedPos
  BY <1>1 DEF PositionOK, DeliverPosition, OnPosition
<1>4. /\ cache' \in Int /\ posQueue' \in Seq(Int)
      /\ posQueue' # <<>> => posQueue'[Len(posQueue')] = posQueue[Len(posQueue)]
      /\ posQueue' = <<>> => cache' = posQueue[Len(posQueue)]
  <2>1. /\ Len(posQueue) \in Nat /\ Len(posQueue) > 0 /\ Head(posQueue) = posQueue[1]
        /\ Tail(posQueue) \in Seq(Int) /\ Len(Tail(posQueue)) = Len(posQueue) - 1
        /\ \A k \in 1..(Len(posQueue) - 1) : Tail(posQueue)[k] = posQueue[k + 1]
    BY <1>3
  <2>2. posQueue[1] \in Int
    BY <1>3, <2>1
  <2>3. Tail(posQueue) = <<>> <=> Len(posQueue) = 1
    <3>1. Tail(posQueue) = <<>> <=> Len(Tail(posQueue)) = 0
      BY <2>1, EmptySeq
    <3> QED BY <2>1, <3>1
  <2> QED BY <1>3, <2>1, <2>2, <2>3
<1>5. PositionOK'
  BY <1>1, <1>3, <1>4 DEF PositionOK, PositionsCatchUp
<1> QED BY <1>2, <1>5, PartsNext

LEMMA GetAccountSnapshotStep ==
  ASSUME IInv, GetAccountSnapshot
  PROVE  IInv'
<1>1. StationOK /\ LedgerOK /\ PositionOK /\ Rest
  BY Parts
<1>2. StationOK' /\ LedgerOK' /\ Rest'
  BY <1>1, StationKept, LedgerKept DEF GetAccountSnapshot, Rest
<1>3. PositionOK'
  BY <1>1 DEF PositionOK, PositionsCatchUp, GetAccountSnapshot, OnPosition, holding
<1> QED BY <1>2, <1>3, PartsNext

-----------------------------------------------------------------------------
(* The connection and the process come and go.                               *)

LEMMA DropStep ==
  ASSUME IInv, Drop
  PROVE  IInv'
<1>1. StationOK /\ LedgerOK /\ PositionOK /\ Rest
  BY Parts
<1>2. /\ Placed' = Placed /\ Known' = Known /\ TwsOrder' = TwsOrder
      /\ entries' = entries /\ trade' = trade /\ tws' = tws
  BY DEF Drop, ledger, Placed, Known, TwsOrder
<1>3. queue' = [ib \in Placed |-> <<>>]
      /\ missed' = missed \cup {ib \in Placed : queue[ib] # <<>>}
  BY DEF Drop
<1>4. OrdersInv'
  <2>1. \A ib \in Placed : Consistent(entries[ib], tws[ib], trade[ib], queue'[ib])
    BY <1>3, MessagesLost DEF IInv, OrdersInv
  <2>2. ASSUME NEW ib \in Known, ib \notin missed'
        PROVE  Complete(entries[ib], tws[ib], trade[ib], queue'[ib])
    <3>1. ib \in Placed /\ ib \notin missed /\ queue[ib] = <<>> /\ queue'[ib] = <<>>
      BY <1>3, <2>2 DEF Known
    <3> QED BY <3>1 DEF IInv, OrdersInv
  <2> QED BY <1>2, <2>1, <2>2 DEF OrdersInv
<1>5. StationOK'
  <2>1. queue' \in [Placed -> Seq(Message)] /\ \A ib \in Placed : queue'[ib] = <<>>
    BY <1>3
  <2>2. missed' \subseteq Placed
    BY <1>1, <1>3 DEF StationOK
  <2> QED BY <1>1, <1>2, <1>4, <2>1, <2>2 DEF StationOK
<1>6. LedgerOK'
  BY <1>1, LedgerKept DEF Drop
<1>7. PositionOK'
  <2>1. /\ posQueue' = <<>> /\ held' = held /\ cache' = cache
        /\ missedPos' = (missedPos \/ posQueue # <<>>)
    BY DEF Drop, account
  <2>2. posQueue' \in Seq(Int)
    BY <2>1
  <2> QED BY <1>1, <2>1, <2>2 DEF PositionOK, PositionsCatchUp
<1>8. Rest'
  <2>1. up' = FALSE /\ refreshed' = refreshed /\ breaks' = breaks + 1 /\ breaks < MaxBreaks
    BY DEF Drop, account
  <2>2. breaks' \in 0..MaxBreaks
    BY <1>1, <2>1, PaperBrokerAssumption DEF Rest
  <2> QED BY <1>1, <2>1, <2>2, Zenon DEF Rest
<1> QED BY <1>5, <1>6, <1>7, <1>8, PartsNext

LEMMA StartStep ==
  ASSUME IInv, Start
  PROVE  IInv'
<1>1. StationOK /\ LedgerOK /\ PositionOK /\ Rest
  BY Parts
<1>2. /\ Placed' = Placed /\ Known' = Known /\ TwsOrder' = TwsOrder
      /\ entries' = entries /\ trade' = trade /\ tws' = tws /\ missed' = missed /\ up' = TRUE
  BY DEF Start, ledger, Placed, Known, TwsOrder
<1>3. /\ queue' = [ib \in Placed |->
                     IF tws[ib].status \in IbOpen THEN <<StatusIs(tws[ib].status)>> ELSE <<>>]
      /\ \A ib \in Placed : queue[ib] = <<>>
  BY <1>1 DEF Start, StationOK
<1>4. ASSUME NEW ib \in Placed
      PROVE  /\ queue'[ib] \in Seq(Message)
             /\ Consistent(entries[ib], tws[ib], trade[ib], queue'[ib])
             /\ Complete(entries[ib], tws[ib], trade[ib], queue[ib]) =>
                  Complete(entries[ib], tws[ib], trade[ib], queue'[ib])
  <2>1. Consistent(entries[ib], tws[ib], trade[ib], <<>>) /\ queue[ib] = <<>>
    BY <1>3 DEF IInv, OrdersInv
  <2>2. CASE tws[ib].status \notin IbOpen
    BY <1>3, <2>1, <2>2
  <2>3. CASE tws[ib].status \in IbOpen
    <3> DEFINE s == tws[ib].status  m == StatusIs(s)
    <3>1. s \in IbStatus /\ s \notin IbDone
      BY <2>3, Statuses
    <3>2. /\ m \in Message /\ m.kind = "status" /\ m.status = s /\ m # Execution
          /\ m # Error("201")
      BY <3>1, Messages
    <3>3. queue'[ib] = <<m>>
      BY <1>3, <2>3
    <3>4. Executions(<<m>>) = 0
      BY <3>2, ExecutionsOne
    <3> HIDE DEF m
    <3>5. trade[ib] \notin IbDone
      BY <2>1, <3>1 DEF Consistent, EndsAgree
    <3>6. Consistent(entries[ib], tws[ib], trade[ib], <<m>>)
      BY <2>1, <3>1, <3>2, <3>5 DEF Consistent, EndsAgree, EndIsLast, Ends
    <3>7. Complete(entries[ib], tws[ib], trade[ib], <<>>) =>
            Complete(entries[ib], tws[ib], trade[ib], <<m>>)
      BY <3>1, <3>4, ExecutionsNone DEF Complete
    <3> QED BY <2>1, <3>2, <3>3, <3>6, <3>7
  <2> QED BY <2>2, <2>3
<1>5. OrdersInv'
  <2>1. \A ib \in Known \ missed : Complete(entries[ib], tws[ib], trade[ib], queue'[ib])
    BY <1>4 DEF IInv, OrdersInv, Known
  <2> QED BY <1>2, <1>4, <2>1 DEF OrdersInv
<1>6. StationOK'
  <2>1. queue' \in [Placed -> Seq(Message)]
    BY <1>3, <1>4
  <2> QED BY <1>1, <1>2, <1>5, <2>1 DEF StationOK
<1>7. LedgerOK'
  BY <1>1, LedgerKept DEF Start
<1>8. PositionOK'
  <2>1. /\ posQueue = <<>> /\ held' = held /\ cache' = cache
        /\ posQueue' = (IF held = 0 THEN <<>> ELSE <<held>>)
        /\ missedPos' = (missedPos /\ held = 0) /\ up'
    BY <1>1 DEF PositionOK, Start, account
  <2> QED BY <1>1, <2>1 DEF PositionOK, PositionsCatchUp
<1>9. Rest'
  BY <1>1 DEF Rest, Start, account
<1> QED BY <1>6, <1>7, <1>8, <1>9, PartsNext

LEMMA RestartStep ==
  ASSUME IInv, Restart
  PROVE  IInv'
<1> DEFINE n == Len(entries)
<1>1. StationOK /\ LedgerOK /\ PositionOK /\ Rest
  BY Parts
<1>2. /\ n \in Nat /\ Placed = 1..n
      /\ \A ib \in Placed : entries[ib] \in Entry
  BY DEF IInv, TypeOK, Placed
<1>3. /\ entries' = [ib \in Placed |-> NewEntry(entries[ib].id, entries[ib].quantity)]
      /\ forgotten' = n /\ orders' = [i \in Ids |-> 0] /\ missed' = Placed
      /\ queue' = [ib \in Placed |-> <<>>] /\ tws' = tws /\ trade' = trade /\ up' = FALSE
  BY DEF Restart
<1>4. ASSUME NEW ib \in Placed
      PROVE  /\ entries'[ib] \in Entry /\ entries'[ib].status = "RECEIVED"
             /\ entries'[ib].fills = 0 /\ entries'[ib].filled = 0
  <2>1. Platform("PendingSubmit") = "RECEIVED" /\ "RECEIVED" \in Open
    BY DEF Platform, Open
  <2>2. entries[ib].id \in Ids /\ entries[ib].quantity \in Quantities
    BY <1>2 DEF Entry
  <2>3. entries'[ib] = NewEntry(entries[ib].id, entries[ib].quantity)
    BY <1>3
  <2> QED BY <2>1, <2>2, <2>3 DEF NewEntry, Entry
<1>5. entries' \in Seq(Entry) /\ Len(entries') = n
  <2>1. entries' \in [1..n -> Entry]
    BY <1>2, <1>3, <1>4
  <2> HIDE DEF n
  <2> QED BY <1>2, <2>1, Table
<1>6. Placed' = Placed /\ Known' = {} /\ TwsOrder' = TwsOrder
  <2>1. Placed' = Placed
    BY <1>5 DEF Placed
  <2>2. Known' = {}
    BY <1>2, <1>3, <2>1 DEF Known
  <2>3. TwsOrder' = TwsOrder
    BY <1>5 DEF TwsOrder
  <2> QED BY <2>1, <2>2, <2>3
<1>7. OrdersInv'
  <2>1. ASSUME NEW ib \in Placed
        PROVE  Consistent(entries'[ib], tws[ib], trade[ib], queue'[ib])
    <3>1. Consistent(entries[ib], tws[ib], trade[ib], <<>>)
      BY MessagesLost DEF IInv, OrdersInv
    <3>2. queue'[ib] = <<>>
      BY <1>3
    <3>3. "RECEIVED" \notin Terminal
      BY DEF Terminal
    <3> QED BY <1>4, <3>1, <3>2, <3>3 DEF Consistent, EndsAgree, EndIsLast, FillsAgree
  <2> QED BY <1>3, <1>6, <2>1 DEF OrdersInv
<1>8. StationOK'
  <2>1. queue' \in [Placed -> Seq(Message)] /\ \A ib \in Placed : queue'[ib] = <<>>
    BY <1>3
  <2> QED BY <1>1, <1>3, <1>6, <1>7, <2>1 DEF StationOK
<1>9. LedgerOK'
  BY <1>1, <1>2, <1>3, <1>5, <1>6 DEF LedgerOK
<1>10. PositionOK' /\ Rest'
  <2>1. /\ up' = FALSE /\ refreshed' = FALSE /\ breaks' = breaks + 1 /\ breaks < MaxBreaks
        /\ cache' = 0 /\ posQueue' = <<>> /\ missedPos' = TRUE /\ held' = held
    BY DEF Restart
  <2>2. posQueue' \in Seq(Int)
    BY <2>1
  <2>3. PositionOK'
    BY <1>1, <2>1, <2>2 DEF PositionOK, PositionsCatchUp
  <2>4. breaks' \in 0..MaxBreaks
    BY <1>1, <2>1, PaperBrokerAssumption DEF Rest
  <2>5. Rest'
    BY <1>1, <2>1, <2>4, Zenon DEF Rest
  <2> QED BY <2>3, <2>5
<1> QED BY <1>8, <1>9, <1>10, PartsNext
-----------------------------------------------------------------------------
(* The theorems.                                                             *)

LEMMA InitHolds == Init => IInv
<1> SUFFICES ASSUME Init PROVE IInv
  OBVIOUS
<1>1. /\ entries = <<>> /\ Len(entries) = 0 /\ Placed = {} /\ Known = {} /\ posQueue = <<>>
      /\ tws = <<>> /\ trade = <<>> /\ queue = <<>>
  BY DEF Init, Placed, Known
<1>2. OrdersInv /\ ConnectionInv /\ PositionsCatchUp
  BY <1>1 DEF Init, OrdersInv, ConnectionInv, PositionsCatchUp
<1>3. /\ tws \in [Placed -> TwsOrder] /\ trade \in [Placed -> IbStatus]
      /\ queue \in [Placed -> Seq(Message)]
  BY <1>1
<1>4. entries \in Seq(Entry) /\ posQueue \in Seq(Int)
  BY <1>1
<1>5. TypeOK
  <2>1. /\ orders \in [Ids -> 0..Len(entries)] /\ forgotten \in 0..Len(entries)
        /\ Len(entries) <= MaxIb /\ missed \subseteq Placed /\ breaks \in 0..MaxBreaks
        /\ cache \in Int /\ held \in Int
    BY <1>1, PaperBrokerAssumption DEF Init
  <2>2. up \in BOOLEAN /\ refreshed \in BOOLEAN /\ missedPos \in BOOLEAN
    BY Zenon DEF Init
  <2> QED BY <1>3, <1>4, <2>1, <2>2 DEF TypeOK
<1> QED BY <1>2, <1>5 DEF IInv

LEMMA NextPreserves == IInv /\ [Next]_vars => IInv'
<1> SUFFICES ASSUME IInv, [Next]_vars PROVE IInv'
  OBVIOUS
<1>1. CASE Adapter
  BY <1>1, ExecuteOrderStep, ReplaceOrderStep, ExecuteBracketOrderStep, CancelOrderStep,
     DeliverStep, DeliverPositionStep, GetAccountSnapshotStep DEF Adapter
<1>2. CASE Workstation
  BY <1>2, AcceptsStep, RejectsStep, WarnsStep, FillsStep, CancelsStep DEF Workstation
<1>3. CASE Drop \/ Start \/ Restart
  BY <1>3, DropStep, StartStep, RestartStep
<1>4. CASE UNCHANGED vars
  <2>1. StationOK /\ LedgerOK /\ PositionOK /\ Rest
    BY Parts
  <2>2. /\ UNCHANGED <<up, ledger, trade, station>> /\ UNCHANGED <<up, cache, holding>>
        /\ refreshed' = refreshed /\ breaks' = breaks
    BY <1>4 DEF vars, account
  <2>3. StationOK' /\ LedgerOK' /\ PositionOK'
    BY <2>1, <2>2, StationKept, LedgerKept, PositionKept
  <2> QED BY <2>1, <2>2, <2>3, PartsNext DEF Rest
<1> QED BY <1>1, <1>2, <1>3, <1>4 DEF Next

(* What the orders of OrdersInv say of an order in the ledger: an order that *)
(* works is listed as open ...                                               *)
LEMMA WorkingListed == IInv => NoWorkingOrderHidden
<1> SUFFICES ASSUME IInv, NEW id \in Ids, orders[id] # 0, tws[orders[id]].status \in IbOpen
             PROVE  id \in ListOrders
  BY DEF NoWorkingOrderHidden
<1> DEFINE ib == orders[id]
<1>1. ib \in Placed
  BY DEF IInv, ConnectionInv, Known
<1>2. entries[ib] \in Entry
  BY <1>1 DEF IInv, TypeOK, Placed
<1>3. entries[ib].status \notin Terminal
  BY <1>1, Statuses DEF IInv, OrdersInv, Consistent, EndsAgree
<1> QED BY <1>2, <1>3 DEF ListOrders, Entry

(* ... and one whose messages were all handled is as Workstation has it.     *)
LEMMA HandledAgrees == IInv => LedgerCatchesUp
<1> SUFFICES ASSUME IInv, NEW id \in Ids, NEW ib, ib = orders[id], ib # 0, ib \notin missed,
                    queue[ib] = <<>>
             PROVE  /\ id \in ListCompletedOrders <=> tws[ib].status \in IbDone
                    /\ tws[ib].status = "Filled" <=> entries[ib].status = "FILLED"
                    /\ entries[ib].filled = tws[ib].cum
  BY DEF LedgerCatchesUp
<1> DEFINE e == entries[ib]  w == tws[ib]
<1>1. ib \in Known \ missed /\ ib \in Placed
  BY DEF IInv, ConnectionInv, Known
<1>2. e \in Entry
  BY <1>1 DEF IInv, TypeOK, Placed
<1>3. w \in TwsOrder
  BY <1>1 DEF IInv, TypeOK
<1>4. /\ EndsAgree(e, w, trade[ib], <<>>) /\ FillsAgree(e, w)
      /\ Complete(e, w, trade[ib], <<>>)
  BY <1>1 DEF IInv, OrdersInv, Consistent
<1> HIDE DEF e, w
<1>5. w.status \in IbDone => e.status = Platform(w.status)
  BY <1>4 DEF Complete
<1>6. e.status \in Terminal <=> w.status \in IbDone
  BY <1>3, <1>4, <1>5, Statuses DEF EndsAgree, TwsOrder
<1>7. w.status = "Filled" <=> e.status = "FILLED"
  BY <1>3, <1>5, <1>6, Statuses DEF TwsOrder, IbDone, Terminal
<1>8. e.filled = w.cum
  <2>1. e.fills = w.cum /\ e.fills \in Nat
    BY <1>2, <1>3, <1>4, ExecutionsNone DEF Complete, Entry, TwsOrder
  <2> QED BY <2>1, <1>4 DEF FillsAgree
<1>9. id \in ListCompletedOrders <=> e.status \in Terminal
  BY DEF ListCompletedOrders, e
<1> QED BY <1>6, <1>7, <1>8, <1>9 DEF e, w

(* Types are kept, and every order, with the messages about it and its entry *)
(* in the ledger, stays consistent, whatever is lost on the way.             *)
THEOREM AdapterInvariant == Spec => []IInv
BY InitHolds, NextPreserves, PTL DEF Spec

THEOREM TypesAreKept == Spec => []TypeOK
<1>1. IInv => TypeOK
  BY DEF IInv
<1> QED BY <1>1, AdapterInvariant, PTL

(* An order that works at Workstation is never missing from list_orders:     *)
(* lost messages, warnings, replacements and rejections of other orders do   *)
(* not close its entry.                                                      *)
THEOREM WorkingOrdersAreListed == Spec => []NoWorkingOrderHidden
BY WorkingListed, AdapterInvariant, PTL

(* The ledger of the adapter ends up saying what Workstation says, whichever *)
(* of execution, status and openOrder is handled first.                      *)
THEOREM LedgerAgrees == Spec => []LedgerCatchesUp
BY HandledAgrees, AdapterInvariant, PTL

(* The position reconciliation is given is the one the account holds, once   *)
(* its messages have been handled.                                           *)
THEOREM PositionsAgree == Spec => []PositionsCatchUp
<1>1. IInv => PositionsCatchUp
  BY DEF IInv
<1> QED BY <1>1, AdapterInvariant, PTL
=============================================================================
