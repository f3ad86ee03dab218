----------------------------- MODULE RiskProofs -----------------------------
(***************************************************************************)
(* Proofs about the hard risk engine, for any symbols, policies, orders,   *)
(* amounts and bounds.                                                     *)
(*                                                                         *)
(* The limits hold because an order that was approved while none was       *)
(* working still fits when it fills (Fits): the portfolio it was checked   *)
(* against is the one it changes.                                          *)
(***************************************************************************)
EXTENDS RiskEngine, SequenceTheorems, WellFoundedInduction, FiniteSetTheorems, TLAPS

TypeInv ==
  /\ history \in Seq(Policies) /\ checkpoint \in Seq(Policies)
  /\ pending \in Seq(Orders)
  /\ cash \in Int
  /\ DOMAIN positions \subseteq Symbols /\ \A s \in DOMAIN positions : positions[s] \in Int

\* o is paid for and held, and leaves no more positions than a policy allows.
Fits(o) ==
  /\ Notional(o) + Commission <= cash
  /\ LongOnly(o)
  /\ ~zeroKept => \E p \in Policies : Cardinality(DOMAIN positions \cup {o.symbol}) <= p.positions

WorkInv ==
  /\ ~zeroKept => \A s \in DOMAIN positions : positions[s] # 0
  /\ ~overlapped => /\ Len(pending) <= 1
                    /\ pending # <<>> => Fits(pending[1])

IInv == TypeInv /\ WorkInv /\ ApprovalsFollowThePolicy /\ LimitsHold

-----------------------------------------------------------------------------
(* Max and Min of FiniteSetsExt.                                             *)

(* A finite set of integers that is not empty has a greatest and a least     *)
(* element: of the sets of the elements above x, a smallest one by inclusion *)
(* is empty.                                                                 *)
LEMMA GreatestExists ==
  ASSUME NEW S, S \subseteq Int, IsFiniteSet(S), S # {}
  PROVE  \E x \in S : \A y \in S : y <= x
<1>1. PICK above : above = [x \in S |-> {y \in S : y > x}]
  OBVIOUS
<1> DEFINE T == {above[x] : x \in S}
           R == StrictSubsetOrdering(S)
<1>2. T \subseteq FiniteSubsetsOf(S) /\ T # {}
  <2>1. ASSUME NEW x \in S PROVE above[x] \in FiniteSubsetsOf(S)
    <3>1. above[x] \in SUBSET S
      BY <1>1
    <3> QED BY <3>1, FS_Subset DEF FiniteSubsetsOf
  <2> QED BY <2>1
<1>3. IsWellFoundedOn(R, FiniteSubsetsOf(S))
  BY FS_StrictSubsetOrderingWellFounded
<1>4. PICK t \in T : \A u \in T : <<u, t>> \notin R
  <2> HIDE DEF T, R
  <2> QED BY <1>2, <1>3, WFMin
<1>5. PICK x \in S : t = above[x]
  BY <1>4
<1>6. ASSUME NEW y \in S, y > x PROVE FALSE
  <2>1. \A z \in S : z \in above[y] => z \in above[x]
    BY <1>1, <1>6
  <2>2. above[y] \in SUBSET S /\ above[x] \in SUBSET S /\ y \in above[x] /\ y \notin above[y]
    BY <1>1, <1>6
  <2>3. <<above[y], above[x]>> \in R
    BY <2>1, <2>2 DEF StrictSubsetOrdering
  <2> QED BY <1>4, <1>5, <2>3
<1> QED BY <1>6

LEMMA MaxIsGreatest ==
  ASSUME NEW S, S \subseteq Int, IsFiniteSet(S), S # {}
  PROVE  Max(S) \in S /\ \A y \in S : y <= Max(S)
BY GreatestExists DEF Max

LEMMA MinIsLeast ==
  ASSUME NEW S, S \subseteq Int, IsFiniteSet(S), S # {}
  PROVE  Min(S) \in S /\ \A y \in S : Min(S) <= y
<1> DEFINE T == {-x : x \in S}
<1>1. IsFiniteSet(T) /\ T \subseteq Int /\ T # {}
  <2>1. PICK f : f = [x \in S |-> -x]
    OBVIOUS
  <2>2. f \in Surjection(S, T)
    BY <2>1 DEF Surjection
  <2>3. ASSUME NEW z \in T PROVE z \in Int
    OBVIOUS
  <2>4. \E x \in S : -x \in T
    OBVIOUS
  <2> HIDE DEF T
  <2> QED BY <2>2, <2>3, <2>4, FS_Surjection
<1>2. PICK z \in T : \A y \in T : y <= z
  <2> HIDE DEF T
  <2> QED BY <1>1, GreatestExists
<1>3. -z \in S /\ \A y \in S : -z <= y
  <2>1. PICK x \in S : z = -x
    OBVIOUS
  <2>2. \A y \in S : -y \in T
    OBVIOUS
  <2> QED BY <1>2, <2>1, <2>2
<1> QED BY <1>3 DEF Min

-----------------------------------------------------------------------------
\* Sequences of policies and orders.

\* Every place of the sorted list is taken by one policy: the policies ahead of
\* two different ones differ in number.
LEMMA SortedType ==
  ASSUME NEW hist \in Seq(Policies)
  PROVE  Sorted(hist) \in Seq(Policies)
<1> DEFINE n == Len(hist)
           Ahead(i) == {j \in DOMAIN hist : \/ hist[j].from > hist[i].from
                                            \/ hist[j].from = hist[i].from /\ j < i}
           place == [i \in 1 .. n |-> Cardinality(Ahead(i)) + 1]
<1>1. DOMAIN hist = 1 .. n /\ n \in Nat
  OBVIOUS
<1>2. \A i \in 1 .. n : hist[i] \in Policies /\ hist[i].from \in Int
  BY <1>1, RiskEngineAssumption
<1>3. IsFiniteSet(1 .. n) /\ Cardinality(1 .. n) = n
  BY <1>1, FS_Interval
<1>4. ASSUME NEW i \in 1 .. n
      PROVE  /\ Ahead(i) \in SUBSET (1 .. n) /\ i \notin Ahead(i)
             /\ IsFiniteSet(Ahead(i)) /\ Cardinality(Ahead(i)) \in Nat
             /\ Cardinality(Ahead(i)) + 1 <= n
  <2>1. Ahead(i) \in SUBSET (1 .. n) /\ i \notin Ahead(i)
    BY <1>1, <1>2
  <2>2. Ahead(i) \cup {i} \in SUBSET (1 .. n)
    BY <2>1
  <2> HIDE DEF Ahead
  <2>3. IsFiniteSet(Ahead(i)) /\ IsFiniteSet(Ahead(i) \cup {i}) /\ Cardinality(Ahead(i) \cup {i}) <= n
    BY <1>3, <2>1, <2>2, FS_Subset
  <2>4. Cardinality(Ahead(i) \cup {i}) = Cardinality(Ahead(i)) + 1
    BY <2>1, <2>3, FS_AddElement
  <2> QED BY <2>1, <2>3, <2>4, FS_CardinalityType
<1>5. ASSUME NEW i \in 1 .. n, NEW j \in 1 .. n, i \in Ahead(j)
      PROVE  place[i] < place[j]
  <2>1. Ahead(i) \cup {i} \in SUBSET Ahead(j)
    BY <1>1, <1>2, <1>5
  <2> HIDE DEF Ahead
  <2>2. IsFiniteSet(Ahead(i)) /\ IsFiniteSet(Ahead(j)) /\ i \notin Ahead(i)
    BY <1>4
  <2>3. Cardinality(Ahead(i) \cup {i}) <= Cardinality(Ahead(j))
    BY <2>1, <2>2, FS_Subset
  <2>4. Cardinality(Ahead(i) \cup {i}) = Cardinality(Ahead(i)) + 1
    BY <2>2, FS_AddElement
  <2>5. Cardinality(Ahead(i)) \in Nat /\ Cardinality(Ahead(j)) \in Nat
    BY <1>4
  <2> QED BY <2>3, <2>4, <2>5
<1>6. ASSUME NEW i \in 1 .. n, NEW j \in 1 .. n, i # j
      PROVE  i \in Ahead(j) \/ j \in Ahead(i)
  BY <1>1, <1>2, <1>6
<1>7. place \in [1 .. n -> 1 .. n]
  <2> HIDE DEF Ahead
  <2> QED BY <1>1, <1>4
<1>8. \A i, j \in 1 .. n : place[i] = place[j] => i = j
  <2>1. ASSUME NEW i \in 1 .. n, NEW j \in 1 .. n, place[i] = place[j], i # j PROVE FALSE
    <3>1. place[i] < place[j] \/ place[j] < place[i]
      <4> HIDE DEF Ahead, place
      <4> QED BY <1>5, <1>6, <2>1
    <3>2. place[i] \in Nat /\ place[j] \in Nat
      <4> HIDE DEF place
      <4> QED BY <1>1, <1>7
    <3> HIDE DEF place
    <3> QED BY <2>1, <3>1, <3>2
  <2> HIDE DEF place
  <2> QED BY <2>1
<1>9. place \in Surjection(1 .. n, 1 .. n)
  <2>1. place \in Injection(1 .. n, 1 .. n)
    <3> HIDE DEF place
    <3> QED BY <1>7, <1>8 DEF Injection, IsInjective
  <2> HIDE DEF place
  <2> QED BY <1>3, <2>1, FS_Injection
<1>10. ASSUME NEW k \in 1 .. n
       PROVE  hist[CHOOSE i \in DOMAIN hist : Cardinality(Ahead(i)) = k - 1] \in Policies
  <2>1. PICK i \in 1 .. n : place[i] = k
    <3> HIDE DEF place
    <3> QED BY <1>9 DEF Surjection
  <2>2. Cardinality(Ahead(i)) = k - 1
    <3>1. place[i] = Cardinality(Ahead(i)) + 1 /\ Cardinality(Ahead(i)) \in Nat
      <4> HIDE DEF Ahead
      <4> QED BY <1>4
    <3> HIDE DEF Ahead, place
    <3> QED BY <1>1, <2>1, <3>1
  <2> HIDE DEF Ahead, place
  <2> QED BY <1>1, <1>2, <2>2
<1>11. Sorted(hist) = [k \in 1 .. n |-> hist[CHOOSE i \in DOMAIN hist : Cardinality(Ahead(i)) = k - 1]]
  BY <1>1 DEF Sorted
<1>12. Sorted(hist) \in [1 .. n -> Policies]
  <2> HIDE DEF Ahead, place, n
  <2> QED BY <1>10, <1>11
<1> QED BY <1>1, <1>12, SeqDef

LEMMA ImportedType ==
  ASSUME NEW state \in Seq(Policies)
  PROVE  Imported(state) \in Seq(Policies)
<1>1. \A i \in 1 .. Len(state) : state[Len(state) - i + 1] \in Policies
  OBVIOUS
<1> QED BY <1>1 DEF Imported, Reverse

\* One working order that ends leaves none.
LEMMA RemoveOnly ==
  ASSUME NEW s \in Seq(Orders), NEW i \in DOMAIN s
  PROVE  RemoveAt(s, i) \in Seq(Orders) /\ (Len(s) <= 1 => RemoveAt(s, i) = <<>>)
<1>1. SubSeq(s, 1, i - 1) \in Seq(Orders) /\ SubSeq(s, i + 1, Len(s)) \in Seq(Orders)
  OBVIOUS
<1>2. ASSUME Len(s) <= 1 PROVE SubSeq(s, 1, i - 1) = <<>> /\ SubSeq(s, i + 1, Len(s)) = <<>>
  BY <1>2
<1> QED BY <1>1, <1>2 DEF RemoveAt

-----------------------------------------------------------------------------
\* Of the policies in effect, the one in force is one that took effect last.

LEMMA NewestIsLatest ==
  ASSUME NEW hist \in Seq(Policies), Newest(hist) # None
  PROVE  \E i \in Effective(hist) :
           /\ Newest(hist) = <<hist[i]>>
           /\ \A j \in Effective(hist) : hist[j].from <= hist[i].from
<1> DEFINE eligible == Effective(hist)
           froms == {hist[i].from : i \in eligible}
           last == {i \in eligible : \A j \in eligible : hist[j].from <= hist[i].from}
<1>1. eligible \subseteq 1 .. Len(hist) /\ IsFiniteSet(eligible) /\ eligible # {}
  <2>1. eligible \in SUBSET (1 .. Len(hist)) BY DEF Effective
  <2>2. IsFiniteSet(1 .. Len(hist)) BY FS_Interval
  <2>3. IsFiniteSet(eligible) BY <2>1, <2>2, FS_Subset
  <2> QED BY <2>1, <2>3 DEF Newest
<1>2. \A i \in eligible : hist[i].from \in Int
  BY <1>1, RiskEngineAssumption
<1>3. froms \subseteq Int /\ froms # {}
  BY <1>1, <1>2
<1>4. IsFiniteSet(froms)
  <2>1. PICK f : f = [i \in eligible |-> hist[i].from]
    OBVIOUS
  <2>2. f \in Surjection(eligible, froms)
    BY <2>1 DEF Surjection
  <2> HIDE DEF eligible, froms
  <2> QED BY <1>1, <2>2, FS_Surjection
<1>5. \E x \in froms : \A y \in froms : y <= x
  <2> HIDE DEF froms
  <2> QED BY <1>3, <1>4, GreatestExists
<1>6. last # {} /\ last \subseteq Int /\ IsFiniteSet(last)
  <2>1. last # {} BY <1>5
  <2>2. last \in SUBSET eligible OBVIOUS
  <2>3. IsFiniteSet(last) 
    <3> HIDE DEF last, eligible
    <3> QED BY <1>1, <2>2, FS_Subset
  <2> QED BY <1>1, <2>1, <2>2, <2>3
<1>7. Min(last) \in last
  <2> HIDE DEF last
  <2> QED BY <1>6, MinIsLeast
<1>8. Newest(hist) = <<hist[Min(last)]>>
  BY <1>1 DEF Newest
<1> QED BY <1>7, <1>8
-----------------------------------------------------------------------------
\* The steps.

LEMMA InitInv == ASSUME Init PROVE IInv
<1>1. Cardinality(DOMAIN positions) = 0 /\ DOMAIN positions = {}
  BY FS_EmptySet DEF Init, Flat
<1>2. LimitsHold
  BY <1>1, RiskEngineAssumption DEF Init, LimitsHold
<1>3. TypeInv
  <2>1. <<>> \in Seq(Policies) /\ <<>> \in Seq(Orders)
    OBVIOUS
  <2> QED BY <1>1, <2>1, RiskEngineAssumption DEF Init, TypeInv
<1> QED
  BY <1>1, <1>2, <1>3 DEF Init, IInv, WorkInv, ApprovalsFollowThePolicy, None

\* Steps that leave the portfolio and the orders alone.
LEMMA ElsewhereStep ==
  ASSUME IInv, UNCHANGED <<portfolio, overlapped, zeroKept>>, answer' = None,
         pending' = pending \/ pending' = <<>>,
         history' \in Seq(Policies), checkpoint' \in Seq(Policies)
  PROVE  IInv'
<1>0. <<>> \in Seq(Orders)
  OBVIOUS
<1>1. TypeInv' /\ ApprovalsFollowThePolicy'
  BY <1>0 DEF IInv, TypeInv, portfolio, ApprovalsFollowThePolicy
<1>2. LimitsHold'
  BY DEF IInv, LimitsHold, portfolio
<1>3. WorkInv'
  <2>1. \A o : Fits(o) => Fits(o)'
    BY DEF Fits, Notional, LongOnly, Held, portfolio
  <2>2. CASE pending' = <<>>
    BY <2>2 DEF IInv, WorkInv, portfolio
  <2>3. CASE pending' = pending
    BY <2>1, <2>3 DEF IInv, WorkInv, portfolio
  <2> QED BY <2>2, <2>3
<1> QED BY <1>1, <1>2, <1>3 DEF IInv

\* What passes the checks fits.
LEMMA PassesFits ==
  ASSUME IInv, ~overlapped, pending = <<>>, NEW o \in Orders, NEW p \in Policies,
         NEW loss, NEW linked, Passes(o, p, loss, linked)
  PROVE  Fits(o) /\ cash >= 0
<1>1. BuyingPower(o) /\ LongOnly(o) /\ PositionAllowed(o, p)
  BY DEF Passes
<1>2. cash >= 0
  <2>1. o.quantity * o.price \in Nat /\ cash \in Int
    BY RiskEngineAssumption DEF IInv, TypeInv
  <2> QED BY <1>1, <2>1, RiskEngineAssumption DEF BuyingPower, Notional
<1>3. ASSUME ~zeroKept
      PROVE  \E q \in Policies : Cardinality(DOMAIN positions \cup {o.symbol}) <= q.positions
  <2>1. /\ \A s \in DOMAIN positions : positions[s] \in Int /\ positions[s] > 0
        /\ IsFiniteSet(DOMAIN positions)
    <3>1. \A s \in DOMAIN positions : positions[s] \in Int /\ positions[s] # 0 /\ positions[s] >= 0
      BY <1>3 DEF IInv, TypeInv, WorkInv, LimitsHold
    <3>2. IsFiniteSet(DOMAIN positions)
      BY RiskEngineAssumption, FS_Subset DEF IInv, TypeInv
    <3> QED BY <3>1, <3>2
  <2>2. CASE o.symbol \in DOMAIN positions
    <3>1. DOMAIN positions \cup {o.symbol} = DOMAIN positions
      BY <2>2
    <3> QED BY <1>3, <3>1 DEF IInv, LimitsHold
  <2>3. CASE o.symbol \notin DOMAIN positions
    <3>1. {s \in DOMAIN positions : positions[s] > 0} = DOMAIN positions
      BY <2>1
    <3>2. Cardinality(DOMAIN positions) < p.positions
      BY <1>1, <2>3, <3>1 DEF PositionAllowed
    <3>3. Cardinality(DOMAIN positions \cup {o.symbol}) = Cardinality(DOMAIN positions) + 1
      BY <2>1, <2>3, FS_AddElement
    <3>4. Cardinality(DOMAIN positions) \in Nat /\ p.positions \in Nat
      BY <2>1, FS_CardinalityType, RiskEngineAssumption
    <3> QED BY <3>2, <3>3, <3>4
  <2> QED BY <2>2, <2>3
<1> QED BY <1>1, <1>2, <1>3 DEF Fits, BuyingPower

LEMMA CheckStep ==
  ASSUME IInv, NEW o \in Orders, NEW loss, NEW linked, NEW blocked, CheckOrder(o, loss, linked, blocked)
  PROVE  IInv'
<1> USE DEF IInv
<1>1. UNCHANGED <<clock, history, checkpoint, positions, cash, zeroKept>>
  BY DEF CheckOrder, portfolio
<1>2. CASE answer' = None /\ UNCHANGED <<pending, overlapped>>
  BY <1>1, <1>2, ElsewhereStep DEF portfolio, TypeInv
<1>3. CASE /\ InForce # None /\ Passes(o, InForce[1], loss, linked)
           /\ pending' = Append(pending, o) /\ answer' = InForce
           /\ overlapped' = (overlapped \/ pending # <<>>)
  <2>1. PICK i \in Effective(history) :
          /\ InForce = <<history[i]>>
          /\ \A j \in Effective(history) : history[j].from <= history[i].from
    BY <1>3, NewestIsLatest DEF InForce, TypeInv
  <2>2. i \in DOMAIN history /\ history[i].from <= clock /\ history[i] \in Policies
    BY <2>1 DEF Effective, TypeInv
  <2>3. answer'[1] = history[i] /\ InForce[1] = history[i]
    BY <1>3, <2>1
  <2>4. ApprovalsFollowThePolicy'
    BY <1>1, <2>1, <2>2, <2>3 DEF ApprovalsFollowThePolicy, Effective, Range
  <2>5. TypeInv'
    BY <1>1, <1>3 DEF TypeInv
  <2>6. ASSUME ~overlapped' PROVE pending = <<>> /\ ~overlapped /\ pending' = <<o>> /\ Fits(o)
    <3>1. pending = <<>> /\ ~overlapped
      BY <1>3, <2>6
    <3>2. pending' = <<o>>
      BY <1>3, <3>1
    <3> QED BY <1>3, <2>2, <2>3, <3>1, <3>2, PassesFits
  <2>7. Fits(o) => Fits(o)'
    BY <1>1 DEF Fits, Notional, LongOnly, Held
  <2>8. WorkInv'
    <3>1. Len(<<o>>) = 1 /\ <<o>>[1] = o
      OBVIOUS
    <3>2. ASSUME ~overlapped' PROVE Len(pending') <= 1 /\ pending'[1] = o
      <4>1. pending' = <<o>> BY <2>6, <3>2
      <4> QED BY <3>1, <4>1
    <3>3. \A q : Fits(q)' => (pending'[1] = q => Fits(pending[1])')
      BY <1>1 DEF Fits, Notional, LongOnly, Held
    <3> QED BY <1>1, <2>6, <2>7, <3>2, <3>3 DEF WorkInv
  <2>9. LimitsHold'
    BY <1>1, <2>6 DEF LimitsHold
  <2> QED BY <2>4, <2>5, <2>8, <2>9
<1> QED BY <1>2, <1>3 DEF CheckOrder
LEMMA TickProducts ==
  ASSUME NEW q \in Nat, NEW p \in Nat, NEW tick \in {0, 1}
  PROVE  /\ q * (p + tick) <= q * p + q
         /\ (-q) * (p - tick) <= q - q * p
         /\ q * p \in Nat /\ q * (p + tick) \in Int /\ (-q) * (p - tick) \in Int
<1>1. q * (p + 1) = q * p + q /\ (-q) * (p - 1) = q - q * p /\ (-q) * p = 0 - q * p
  OBVIOUS
<1>2. q * p \in Nat /\ q * (p + tick) \in Int /\ (-q) * (p - tick) \in Int
  OBVIOUS
<1>3. CASE tick = 0
  BY <1>1, <1>2, <1>3
<1>4. CASE tick = 1
  BY <1>1, <1>2, <1>4
<1> QED BY <1>2, <1>3, <1>4

\* What is left of the portfolio is a part of it.
LEMMA TradePositions ==
  ASSUME NEW o, NEW slip, Trade(o, slip)
  PROVE  LET delta == IF o.side = "BUY" THEN o.quantity ELSE -o.quantity
             after == [s \in DOMAIN positions \cup {o.symbol} |->
                         IF s = o.symbol THEN Held(s) + delta ELSE positions[s]]
         IN /\ DOMAIN positions' \in SUBSET DOMAIN after
            /\ \A s \in DOMAIN positions' : positions'[s] = after[s]
            /\ ~zeroKept' => ~zeroKept /\ \A s \in DOMAIN positions' : positions'[s] # 0
<1> DEFINE delta == IF o.side = "BUY" THEN o.quantity ELSE -o.quantity
           after == [s \in DOMAIN positions \cup {o.symbol} |->
                       IF s = o.symbol THEN Held(s) + delta ELSE positions[s]]
<1>1. \/ positions' = Restrict(after, {s \in DOMAIN after : after[s] # 0}) /\ zeroKept' = zeroKept
      \/ positions' = after /\ zeroKept' = TRUE
  BY DEF Trade
<1> HIDE DEF after
<1>2. /\ DOMAIN positions' \in SUBSET DOMAIN after
      /\ \A s \in DOMAIN positions' : positions'[s] = after[s]
      /\ ~zeroKept' => ~zeroKept /\ \A s \in DOMAIN positions' : positions'[s] # 0
  BY <1>1 DEF Restrict
<1> USE DEF after
<1> QED BY <1>2

\* An order that fits leaves a portfolio within the limits.
LEMMA TradeStep ==
  ASSUME IInv, ~overlapped, NEW o \in Orders, Fits(o), NEW slip \in {0, 1}, Trade(o, slip),
         pending' = <<>>, UNCHANGED overlapped
  PROVE  /\ LimitsHold'
         /\ ~zeroKept' => \A s \in DOMAIN positions' : positions'[s] # 0
<1> DEFINE delta == IF o.side = "BUY" THEN o.quantity ELSE -o.quantity
           after == [s \in DOMAIN positions \cup {o.symbol} |->
                       IF s = o.symbol THEN Held(s) + delta ELSE positions[s]]
<1>1. /\ o.symbol \in Symbols /\ o.side \in {"BUY", "SELL"}
      /\ o.quantity \in Nat \ {0} /\ o.price \in Nat /\ Commission \in Nat /\ cash \in Int
      /\ delta \in Int
  BY RiskEngineAssumption DEF IInv, TypeInv
<1>2. \A s \in DOMAIN positions : positions[s] \in Int /\ positions[s] >= 0
  BY DEF IInv, TypeInv, LimitsHold
<1>3. \A s \in DOMAIN after : after[s] \in Int /\ after[s] >= 0
  <2>1. Held(o.symbol) \in Int /\ Held(o.symbol) >= 0
    BY <1>2 DEF Held
  <2>2. Held(o.symbol) + delta >= 0
    BY <1>1, <2>1 DEF Fits, LongOnly
  <2>3. after[o.symbol] = Held(o.symbol) + delta
    OBVIOUS
  <2>4. \A s \in DOMAIN after : s # o.symbol => s \in DOMAIN positions /\ after[s] = positions[s]
    OBVIOUS
  <2> HIDE DEF after, delta
  <2> QED BY <1>1, <1>2, <2>1, <2>2, <2>3, <2>4
<1>4. cash' >= 0 \/ cash' + o.quantity >= 0
  <2>1. PICK bare, cost, proceeds :
          /\ bare = o.quantity * o.price
          /\ cost = o.quantity * (o.price + slip)
          /\ proceeds = (-o.quantity) * (o.price - slip)
    OBVIOUS
  <2>2. /\ bare \in Nat /\ cost \in Int /\ proceeds \in Int
        /\ cost <= bare + o.quantity /\ proceeds <= o.quantity - bare
    BY <1>1, <2>1, TickProducts
  <2>3. bare + Commission <= cash
    BY <2>1 DEF Fits, Notional
  <2>4. CASE o.side = "BUY"
    <3>1. cash' = cash - cost - Commission
      BY <2>1, <2>4 DEF Trade
    <3> QED BY <1>1, <2>2, <2>3, <3>1
  <2>5. CASE o.side = "SELL"
    <3>1. cash' = cash - proceeds - Commission
      BY <2>1, <2>5 DEF Trade
    <3> QED BY <1>1, <2>2, <2>3, <3>1
  <2> QED BY <1>1, <2>4, <2>5
<1>5. /\ DOMAIN positions' \in SUBSET DOMAIN after
      /\ \A s \in DOMAIN positions' : positions'[s] = after[s]
      /\ ~zeroKept' => ~zeroKept /\ \A s \in DOMAIN positions' : positions'[s] # 0
  BY TradePositions
<1>6. DOMAIN after = DOMAIN positions \cup {o.symbol}
  OBVIOUS
<1> HIDE DEF after
<1>7. \A s \in DOMAIN positions' : positions'[s] >= 0
  BY <1>3, <1>5
<1>8. ASSUME ~zeroKept' PROVE \E p \in Policies : Cardinality(DOMAIN positions') <= p.positions
  <2>1. PICK p \in Policies : Cardinality(DOMAIN after) <= p.positions
    <3>1. ~zeroKept
      BY <1>5, <1>8
    <3> QED BY <1>6, <3>1 DEF Fits
  <2>2. IsFiniteSet(DOMAIN after)
    <3>1. DOMAIN after \in SUBSET Symbols
      BY <1>1, <1>6 DEF IInv, TypeInv
    <3> QED BY <3>1, RiskEngineAssumption, FS_Subset
  <2>3. /\ Cardinality(DOMAIN positions') <= Cardinality(DOMAIN after)
        /\ Cardinality(DOMAIN positions') \in Nat /\ Cardinality(DOMAIN after) \in Nat
    BY <1>5, <2>2, FS_Subset, FS_CardinalityType
  <2>4. p.positions \in Nat
    BY RiskEngineAssumption
  <2> QED BY <2>1, <2>3, <2>4
<1> QED BY <1>1, <1>4, <1>5, <1>7, <1>8 DEF LimitsHold

LEMMA EndsStep ==
  ASSUME IInv, NEW i \in DOMAIN pending, NEW slip \in {0, 1}, Ends(i, slip)
  PROVE  IInv'
<1> USE DEF IInv
<1>1. pending[i] \in Orders
  BY DEF TypeInv
<1>2. /\ answer' = None /\ UNCHANGED <<clock, history, active, checkpoint, overlapped>>
      /\ pending' = RemoveAt(pending, i)
  BY DEF Ends, engine
<1>3. pending' \in Seq(Orders) /\ (Len(pending) <= 1 => pending' = <<>>)
  BY <1>2, RemoveOnly DEF TypeInv
<1>4. ApprovalsFollowThePolicy'
  BY <1>2 DEF ApprovalsFollowThePolicy
<1>5. CASE UNCHANGED <<positions, cash, zeroKept>>
  <2>1. TypeInv'
    BY <1>2, <1>3, <1>5 DEF TypeInv
  <2>2. WorkInv'
    BY <1>2, <1>3, <1>5 DEF WorkInv
  <2>3. LimitsHold'
    BY <1>2, <1>5 DEF LimitsHold
  <2> QED BY <1>4, <2>1, <2>2, <2>3
<1>6. CASE Trade(pending[i], slip)
  <2>1. TypeInv'
    <3>1. cash' \in Int
      BY <1>1, <1>6, RiskEngineAssumption DEF Trade, TypeInv
    <3>2. \A s \in DOMAIN positions' : s \in Symbols /\ positions'[s] \in Int
      <4>1. /\ pending[i].symbol \in Symbols /\ pending[i].quantity \in Int
            /\ \A s \in DOMAIN positions : s \in Symbols /\ positions[s] \in Int
        BY <1>1, RiskEngineAssumption DEF TypeInv
      <4> DEFINE o == pending[i]
                 delta == IF o.side = "BUY" THEN o.quantity ELSE -o.quantity
                 after == [s \in DOMAIN positions \cup {o.symbol} |->
                             IF s = o.symbol THEN Held(s) + delta ELSE positions[s]]
      <4>2. /\ DOMAIN positions' \in SUBSET DOMAIN after
            /\ \A s \in DOMAIN positions' : positions'[s] = after[s]
        BY <1>6, TradePositions
      <4>3. Held(o.symbol) \in Int /\ delta \in Int
        BY <4>1 DEF Held
      <4>4. \A s \in DOMAIN after : s \in Symbols /\ after[s] \in Int
        <5> HIDE DEF delta
        <5> QED BY <4>1, <4>3
      <4> HIDE DEF after
      <4> QED BY <4>2, <4>4
    <3> QED BY <1>2, <1>3, <3>1, <3>2 DEF TypeInv
  <2>2. CASE overlapped
    <3>1. ~zeroKept' => \A s \in DOMAIN positions' : positions'[s] # 0
      BY <1>6, TradePositions
    <3> QED BY <1>2, <1>4, <2>1, <2>2, <3>1 DEF WorkInv, LimitsHold
  <2>3. CASE ~overlapped
    <3>1. i = 1 /\ pending # <<>> /\ pending' = <<>>
      BY <1>3, <2>3 DEF WorkInv, TypeInv
    <3>2. Fits(pending[i])
      BY <2>3, <3>1 DEF WorkInv
    <3>3. /\ LimitsHold'
          /\ ~zeroKept' => \A s \in DOMAIN positions' : positions'[s] # 0
      BY <1>1, <1>2, <1>6, <2>3, <3>1, <3>2, TradeStep
    <3> QED BY <1>4, <2>1, <3>1, <3>3 DEF WorkInv
  <2> QED BY <2>2, <2>3
<1> QED BY <1>5, <1>6 DEF Ends, portfolio

LEMMA NextStep == ASSUME IInv, [Next]_vars PROVE IInv'
<1>1. ASSUME NEW p \in Policies, AddPolicy(p) PROVE IInv'
  <2>1. Append(history, p) \in Seq(Policies)
    BY DEF IInv, TypeInv
  <2>2. Sorted(Append(history, p)) \in Seq(Policies)
    BY <2>1, SortedType
  <2>3. history' \in Seq(Policies)
    BY <1>1, <2>2 DEF AddPolicy
  <2> QED BY <1>1, <2>3, ElsewhereStep DEF AddPolicy, IInv, TypeInv
<1>2. ASSUME NEW p \in Policies, SetActivePolicy(p.version) PROVE IInv'
  BY <1>2, ElsewhereStep DEF SetActivePolicy, IInv, TypeInv
<1>3. ASSUME NEW c \in {"strategy", "submissions", "positions"} \cup Symbols, Stop(c) PROVE IInv'
  BY <1>3, ElsewhereStep DEF Stop, IInv, TypeInv
<1>4. CASE EmergencyStop
  BY <1>4, ElsewhereStep DEF EmergencyStop, IInv, TypeInv
<1>5. CASE ExportState
  BY <1>5, ElsewhereStep DEF ExportState, IInv, TypeInv, engine
<1>6. ASSUME NEW fresh \in BOOLEAN, ImportState(fresh) PROVE IInv'
  <2>1. history' \in Seq(Policies)
    BY <1>6, ImportedType DEF ImportState, IInv, TypeInv
  <2> QED BY <1>6, <2>1, ElsewhereStep DEF ImportState, IInv, TypeInv
<1>7. CASE Tick
  BY <1>7, ElsewhereStep DEF Tick, IInv, TypeInv, engine
<1>8. CASE UNCHANGED vars
  <2>1. UNCHANGED <<clock, history, active, checkpoint, answer, positions, cash, pending, overlapped, zeroKept>>
    BY <1>8 DEF vars, engine, portfolio
  <2>2. TypeInv' /\ ApprovalsFollowThePolicy' /\ LimitsHold'
    BY <2>1 DEF IInv, TypeInv, ApprovalsFollowThePolicy, Effective, LimitsHold
  <2>3. WorkInv'
    BY <2>1 DEF IInv, WorkInv, Fits, Notional, LongOnly, Held
  <2> QED BY <2>2, <2>3 DEF IInv
<1> QED BY <1>1, <1>2, <1>3, <1>4, <1>5, <1>6, <1>7, <1>8, CheckStep, EndsStep DEF Next

THEOREM RiskInvariant == Spec => []IInv
<1>1. Init => IInv
  BY InitInv
<1>2. IInv /\ [Next]_vars => IInv'
  BY NextStep
<1> QED BY <1>1, <1>2, PTL DEF Spec

\* An approval names a policy that is known and in effect, than which none took
\* effect later, whatever was pinned, added or restored in between.
THEOREM PolicyInForce == Spec => []ApprovalsFollowThePolicy
<1>1. IInv => ApprovalsFollowThePolicy
  BY DEF IInv
<1> QED BY <1>1, RiskInvariant, PTL

\* Checked one at a time, orders leave a portfolio that is long only, overspends by
\* at most a tick a share, and holds no more positions than some policy allows.
THEOREM LimitsAreKept == Spec => []LimitsHold
<1>1. IInv => LimitsHold
  BY DEF IInv
<1> QED BY <1>1, RiskInvariant, PTL
=============================================================================
