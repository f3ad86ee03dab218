----------------------------- MODULE OMSProofs -----------------------------
(***************************************************************************)
(* Theorems about OMS, for every set of orders, keys and execution ids,    *)
(* every request, every bound and either setting of the options.           *)
(***************************************************************************)
EXTENDS OMS, SequenceTheorems, WellFoundedInduction, FiniteSetTheorems, TLAPS

-----------------------------------------------------------------------------
(* The two folds over the ledger, Rebuild and BookedBy, entry by entry.      *)

(* A set of natural numbers that is not empty has a least element: of the    *)
(* intervals from 0 to its elements, none below another for ever.            *)
LEMMA LeastNatural ==
  ASSUME NEW S \in SUBSET Nat, S # {}
  PROVE  \E x \in S : \A y \in S : x <= y
<1> DEFINE T == {0..x : x \in S}
           R == StrictSubsetOrdering(Nat)
<1>1. T \subseteq FiniteSubsetsOf(Nat) /\ T # {}
  <2>1. ASSUME NEW x \in S PROVE 0..x \in FiniteSubsetsOf(Nat)
    <3>1. IsFiniteSet(0..x)
      BY FS_Interval
    <3> QED BY <3>1 DEF FiniteSubsetsOf
  <2> QED BY <2>1
<1>2. IsWellFoundedOn(R, FiniteSubsetsOf(Nat))
  BY FS_StrictSubsetOrderingWellFounded
<1>3. PICK t \in T : \A u \in T : ~(<<u, t>> \in R)
  <2> HIDE DEF T, R
  <2> QED BY <1>1, <1>2, WFMin
<1>4. PICK x \in S : t = 0..x
  BY <1>3
<1>5. ASSUME NEW y \in S, y < x PROVE FALSE
  <2>1. 0..y \subseteq 0..x /\ x \in 0..x /\ x \notin 0..y /\ 0..y \in SUBSET Nat /\ 0..x \in SUBSET Nat
    BY <1>5
  <2>2. <<0..y, 0..x>> \in R
    BY <2>1 DEF StrictSubsetOrdering
  <2> QED BY <1>3, <1>4, <2>2
<1> QED BY <1>5

(* Induction over the natural numbers, for a set of them.                    *)
LEMMA Induction ==
  ASSUME NEW S, 0 \in S, \A n \in Nat : n \in S => n + 1 \in S
  PROVE  \A n \in Nat : n \in S
<1>1. ASSUME NEW m \in Nat \ S PROVE FALSE
  <2>1. PICK x \in Nat \ S : \A y \in Nat \ S : x <= y
    BY <1>1, LeastNatural
  <2>2. x - 1 \in Nat
    BY <2>1
  <2>3. x - 1 \in S
    BY <2>1, <2>2
  <2> QED BY <2>1, <2>2, <2>3
<1> QED BY <1>1

\* f holds what a replay makes of the first n entries of log, for n in 0..top.
Replays(f, log, top) ==
  f = [n \in 0..top |-> IF n = 0 THEN Blank ELSE ReplayEvent(f[n - 1], log[n])]


LEMMA ReplayExists ==
  ASSUME NEW log
  PROVE  \A top \in Nat : \E f : Replays(f, log, top)
<1> DEFINE S == {top \in Nat : \E f : Replays(f, log, top)}
<1>1. 0 \in S
  <2>1. Replays([n \in 0..0 |-> Blank], log, 0)
    BY DEF Replays
  <2> QED BY <2>1
<1>2. ASSUME NEW k \in Nat, NEW f, Replays(f, log, k)
      PROVE  k + 1 \in S
  <2> DEFINE g == [n \in 0..(k + 1) |-> IF n = k + 1 THEN ReplayEvent(f[k], log[n]) ELSE f[n]]
  <2>1. ASSUME NEW n \in 0..(k + 1)
        PROVE  g[n] = IF n = 0 THEN Blank ELSE ReplayEvent(g[n - 1], log[n])
    <3>1. CASE n = k + 1
      BY <3>1
    <3>2. CASE n # k + 1
      <4>1. n \in 0..k /\ (n # 0 => n - 1 \in 0..k)
        BY <3>2
      <4>2. f[n] = IF n = 0 THEN Blank ELSE ReplayEvent(f[n - 1], log[n])
        BY <1>2, <4>1 DEF Replays
      <4> QED BY <4>1, <4>2
    <3> QED BY <3>1, <3>2
  <2>2. Replays(g, log, k + 1)
    BY <2>1 DEF Replays
  <2> HIDE DEF g
  <2> QED BY <2>2
<1>3. \A k \in Nat : k \in S => k + 1 \in S
  BY <1>2
<1> HIDE DEF S
<1>4. \A n \in Nat : n \in S
  BY <1>1, <1>3, Induction
<1> QED BY <1>4 DEF S

(* Rebuild is the last value of a replay, on every ledger.                   *)
LEMMA RebuildReplays ==
  ASSUME NEW log, Len(log) \in Nat
  PROVE  \E f : Replays(f, log, Len(log)) /\ Rebuild(log) = f[Len(log)]
<1> DEFINE f == CHOOSE f : Replays(f, log, Len(log))
<1>1. Replays(f, log, Len(log))
  BY ReplayExists
<1>2. Rebuild(log) = f[Len(log)]
  BY DEF Rebuild, Replays
<1> QED BY <1>1, <1>2

(* The replay of a ledger with one more entry is one more ReplayEvent.       *)
LEMMA RebuildOneMore ==
  ASSUME NEW log \in Seq(Entry), NEW e \in Entry
  PROVE  Rebuild(Append(log, e)) = ReplayEvent(Rebuild(log), e)
<1> DEFINE more == Append(log, e)
<1>1. /\ Len(log) \in Nat /\ Len(more) = Len(log) + 1
      /\ \A n \in 1..Len(log) : more[n] = log[n]
      /\ more[Len(log) + 1] = e
  OBVIOUS
<1> HIDE DEF more
<1>2. PICK f : Replays(f, log, Len(log)) /\ Rebuild(log) = f[Len(log)]
  BY <1>1, RebuildReplays
<1>3. PICK g : Replays(g, more, Len(more)) /\ Rebuild(more) = g[Len(more)]
  BY <1>1, RebuildReplays
<1> DEFINE S == {n \in Nat : n <= Len(log) => f[n] = g[n]}
<1>4. 0 \in S
  BY <1>1, <1>2, <1>3 DEF Replays
<1>5. ASSUME NEW n \in Nat, n \in S PROVE n + 1 \in S
  <2> SUFFICES ASSUME n + 1 <= Len(log) PROVE f[n + 1] = g[n + 1]
    OBVIOUS
  <2>1. f[n + 1] = ReplayEvent(f[n], log[n + 1])
    BY <1>1, <1>2 DEF Replays
  <2>2. g[n + 1] = ReplayEvent(g[n], more[n + 1])
    BY <1>1, <1>3 DEF Replays
  <2> QED BY <1>1, <1>5, <2>1, <2>2
<1>6. Len(log) \in S
  <2> HIDE DEF S
  <2> QED BY <1>1, <1>4, <1>5, Induction
<1>7. g[Len(log) + 1] = ReplayEvent(g[Len(log)], e)
  BY <1>1, <1>3 DEF Replays
<1> QED BY <1>1, <1>2, <1>3, <1>6, <1>7 DEF more

(* Nothing is rebuilt from an empty ledger.                                  *)
LEMMA RebuildNone == Rebuild(<<>>) = Blank
<1>1. PICK f : Replays(f, <<>>, 0) /\ Rebuild(<<>>) = f[0]
  BY RebuildReplays
<1> QED BY <1>1 DEF Replays

\* f holds what order o booked in the first n entries of log, for n in 0..top.
Totals(f, log, o, top) ==
  f = [n \in 0..top |-> IF n = 0 THEN 0 ELSE f[n - 1] + QuantityOf(log[n], o)]


LEMMA TotalsExist ==
  ASSUME NEW log, NEW o
  PROVE  \A top \in Nat : \E f : Totals(f, log, o, top)
<1> DEFINE S == {top \in Nat : \E f : Totals(f, log, o, top)}
<1>1. 0 \in S
  <2>1. Totals([n \in 0..0 |-> 0], log, o, 0)
    BY DEF Totals
  <2> QED BY <2>1
<1>2. ASSUME NEW k \in Nat, NEW f, Totals(f, log, o, k)
      PROVE  k + 1 \in S
  <2> DEFINE g == [n \in 0..(k + 1) |-> IF n = k + 1 THEN f[k] + QuantityOf(log[n], o) ELSE f[n]]
  <2>1. ASSUME NEW n \in 0..(k + 1)
        PROVE  g[n] = IF n = 0 THEN 0 ELSE g[n - 1] + QuantityOf(log[n], o)
    <3>1. CASE n = k + 1
      BY <3>1
    <3>2. CASE n # k + 1
      <4>1. n \in 0..k /\ (n # 0 => n - 1 \in 0..k)
        BY <3>2
      <4>2. f[n] = IF n = 0 THEN 0 ELSE f[n - 1] + QuantityOf(log[n], o)
        BY <1>2, <4>1 DEF Totals
      <4> QED BY <4>1, <4>2
    <3> QED BY <3>1, <3>2
  <2>2. Totals(g, log, o, k + 1)
    BY <2>1 DEF Totals
  <2> HIDE DEF g
  <2> QED BY <2>2
<1>3. \A k \in Nat : k \in S => k + 1 \in S
  BY <1>2
<1> HIDE DEF S
<1>4. \A n \in Nat : n \in S
  BY <1>1, <1>3, Induction
<1> QED BY <1>4 DEF S

(* BookedBy is the last of the totals, on every ledger.                      *)
LEMMA BookedTotals ==
  ASSUME NEW log, NEW o, Len(log) \in Nat
  PROVE  \E f : Totals(f, log, o, Len(log)) /\ BookedBy(log, o) = f[Len(log)]
<1> DEFINE f == CHOOSE f : Totals(f, log, o, Len(log))
<1>1. Totals(f, log, o, Len(log))
  BY TotalsExist
<1>2. BookedBy(log, o) = f[Len(log)]
  BY DEF BookedBy, Totals
<1> QED BY <1>1, <1>2

(* One more entry books what it says on top.                                 *)
LEMMA BookedOneMore ==
  ASSUME NEW o, NEW log \in Seq(Entry), NEW e \in Entry
  PROVE  BookedBy(Append(log, e), o) = BookedBy(log, o) + QuantityOf(e, o)
<1> DEFINE more == Append(log, e)
<1>1. /\ Len(log) \in Nat /\ Len(more) = Len(log) + 1
      /\ \A n \in 1..Len(log) : more[n] = log[n]
      /\ more[Len(log) + 1] = e
  OBVIOUS
<1> HIDE DEF more
<1>2. PICK f : Totals(f, log, o, Len(log)) /\ BookedBy(log, o) = f[Len(log)]
  BY <1>1, BookedTotals
<1>3. PICK g : Totals(g, more, o, Len(more)) /\ BookedBy(more, o) = g[Len(more)]
  BY <1>1, BookedTotals
<1> DEFINE S == {n \in Nat : n <= Len(log) => f[n] = g[n]}
<1>4. 0 \in S
  BY <1>1, <1>2, <1>3 DEF Totals
<1>5. ASSUME NEW n \in Nat, n \in S PROVE n + 1 \in S
  <2> SUFFICES ASSUME n + 1 <= Len(log) PROVE f[n + 1] = g[n + 1]
    OBVIOUS
  <2>1. f[n + 1] = f[n] + QuantityOf(log[n + 1], o)
    BY <1>1, <1>2 DEF Totals
  <2>2. g[n + 1] = g[n] + QuantityOf(more[n + 1], o)
    BY <1>1, <1>3 DEF Totals
  <2> QED BY <1>1, <1>5, <2>1, <2>2
<1>6. Len(log) \in S
  <2> HIDE DEF S
  <2> QED BY <1>1, <1>4, <1>5, Induction
<1>7. g[Len(log) + 1] = g[Len(log)] + QuantityOf(e, o)
  BY <1>1, <1>3 DEF Totals
<1> QED BY <1>1, <1>2, <1>3, <1>6, <1>7 DEF more

(* Nothing is booked in an empty ledger.                                     *)
LEMMA BookedNone ==
  ASSUME NEW o
  PROVE  BookedBy(<<>>, o) = 0
<1>1. PICK f : Totals(f, <<>>, o, 0) /\ BookedBy(<<>>, o) = f[0]
  BY BookedTotals
<1> QED BY <1>1 DEF Totals

-----------------------------------------------------------------------------
(* What replaying one entry does, field by field.                            *)

(* The entry constructors build ledger entries.                              *)
LEMMA EntryTypes ==
  ASSUME NEW o \in Orders
  PROVE  /\ \A kind \in BirthEvents, k \in Keys \cup {NoKey}, g \in Orders :
              BirthEvent(kind, o, k, g) \in Entry
         /\ \A kind \in StatusEvents \cup NoteEvents : OrderEvent(kind, o) \in Entry
         /\ \A kind \in FillEvents, q, t \in Nat, i \in Identities :
              FillEvent(kind, o, q, t, i) \in Entry
         /\ \A kind \in LinkEvents, s \in Symbols : LinkEvent(kind, s, o) \in Entry
  BY DEF Entry, BirthEvent, OrderEvent, FillEvent, LinkEvent

(* A birth entry of an unknown order: the order appears, submitted, with     *)
(* nothing filled, under its key and in its group.                           *)
LEMMA BirthReplay ==
  ASSUME NEW st \in Rebuilt, NEW e \in Entry, e.event \in BirthEvents, ~Known(st, e.order),
         NEW r, r = ReplayEvent(st, e)
  PROVE  /\ r \in Rebuilt
         /\ r.status = [st.status EXCEPT ![e.order] = "SUBMITTED"]
         /\ r.filled = [st.filled EXCEPT ![e.order] = 0]
         /\ r.keys = Remember(st.keys, e.key, e.order)
         /\ r.groups = [st.groups EXCEPT ![e.group] = @ \cup {e.order}]
         /\ r.applied = st.applied /\ r.links = st.links
         /\ r.ledger = Append(st.ledger, e)
<1> DEFINE b == ReplayBirth(st, e)
<1>1. e.order \in Orders /\ e.key \in Keys \cup {NoKey} /\ e.group \in Orders
  BY DEF Entry, BirthEvents, StatusEvents, FillEvents, LinkEvents, NoteEvents, FillIncidents
<1>2. r = [b EXCEPT !.ledger = Append(@, e)]
  BY DEF ReplayEvent, Logged
<1>3. b = [st EXCEPT !.status = [@ EXCEPT ![e.order] = "SUBMITTED"],
                     !.filled = [@ EXCEPT ![e.order] = 0],
                     !.keys = Remember(@, e.key, e.order),
                     !.groups = Join(@, e.group, e.order)]
  BY DEF ReplayBirth
<1> HIDE DEF b
<1>4. Remember(st.keys, e.key, e.order) \in [Keys -> Orders \cup {NoOrder}]
  BY <1>1 DEF Remember, Rebuilt
<1>5. /\ [st.status EXCEPT ![e.order] = "SUBMITTED"] \in [Orders -> Lifecycle]
      /\ [st.filled EXCEPT ![e.order] = 0] \in [Orders -> Nat]
      /\ Join(st.groups, e.group, e.order) = [st.groups EXCEPT ![e.group] = @ \cup {e.order}]
      /\ Join(st.groups, e.group, e.order) \in [Orders -> SUBSET Orders]
      /\ Append(st.ledger, e) \in Seq(Entry)
  BY <1>1 DEF Rebuilt, Lifecycle, Cancellable, Join
<1> QED BY <1>2, <1>3, <1>4, <1>5 DEF Rebuilt

(* An acknowledgement or a cancellation of a known order sets its status.    *)
LEMMA StatusReplay ==
  ASSUME NEW st \in Rebuilt, NEW e \in Entry, e.event \in StatusEvents, Known(st, e.order),
         NEW r, r = ReplayEvent(st, e)
  PROVE  /\ r \in Rebuilt
         /\ r.status = [st.status EXCEPT ![e.order] = StatusAfter(e.event)]
         /\ r.filled = st.filled /\ r.keys = st.keys /\ r.groups = st.groups
         /\ r.applied = st.applied /\ r.links = st.links
         /\ r.ledger = Append(st.ledger, e)
<1> DEFINE b == ReplayStatus(st, e)
<1>1. e.order \in Orders
  BY DEF Entry
<1>2. r = [b EXCEPT !.ledger = Append(@, e)]
  BY DEF ReplayEvent, Logged, StatusEvents, BirthEvents, LinkEvents
<1>3. b = [st EXCEPT !.status = [@ EXCEPT ![e.order] = StatusAfter(e.event)]]
  BY DEF ReplayStatus
<1>4. StatusAfter(e.event) \in Lifecycle
  BY DEF StatusAfter, StatusEvents, Lifecycle, Cancellable, Fillable, Terminal
<1> HIDE DEF b
<1>5. [st.status EXCEPT ![e.order] = StatusAfter(e.event)] \in [Orders -> Lifecycle]
      /\ Append(st.ledger, e) \in Seq(Entry)
  BY <1>1, <1>4 DEF Rebuilt
<1> QED BY <1>2, <1>3, <1>4, <1>5 DEF Rebuilt

(* A fill of a known order restores its cumulative quantity, its status and  *)
(* the identity it was booked under.                                         *)
LEMMA FillReplay ==
  ASSUME NEW st \in Rebuilt, NEW e \in Entry, e.event \in FillEvents, Known(st, e.order),
         NEW r, r = ReplayEvent(st, e)
  PROVE  /\ r \in Rebuilt
         /\ r.status = [st.status EXCEPT ![e.order] =
                          IF e.event = "ORDER_FILLED" THEN "FILLED" ELSE "PARTIALLY_FILLED"]
         /\ r.filled = [st.filled EXCEPT ![e.order] = e.fill_quantity]
         /\ r.applied = st.applied \cup {e.execution}
         /\ r.keys = st.keys /\ r.groups = st.groups /\ r.links = st.links
         /\ r.ledger = Append(st.ledger, e)
<1> DEFINE b == ReplayFill(st, e)
           to == IF e.event = "ORDER_FILLED" THEN "FILLED" ELSE "PARTIALLY_FILLED"
<1>1. e.order \in Orders /\ e.fill_quantity \in Nat /\ e.execution \in Identities
  BY DEF Entry, BirthEvents, StatusEvents, FillEvents, LinkEvents, NoteEvents, FillIncidents
<1>2. r = [b EXCEPT !.ledger = Append(@, e)]
  BY DEF ReplayEvent, Logged, StatusEvents, BirthEvents, LinkEvents, FillEvents
<1>3. b = [st EXCEPT !.applied = @ \cup {e.execution},
                     !.filled = [@ EXCEPT ![e.order] = e.fill_quantity],
                     !.status = [@ EXCEPT ![e.order] = to]]
  BY DEF ReplayFill
<1>4. to \in Lifecycle
  BY DEF Lifecycle, Cancellable, Fillable, Terminal
<1> HIDE DEF b, to
<1>5. /\ [st.status EXCEPT ![e.order] = to] \in [Orders -> Lifecycle]
      /\ [st.filled EXCEPT ![e.order] = e.fill_quantity] \in [Orders -> Nat]
      /\ st.applied \cup {e.execution} \subseteq Identities
      /\ Append(st.ledger, e) \in Seq(Entry)
  BY <1>1, <1>4 DEF Rebuilt
<1> QED BY <1>2, <1>3, <1>4, <1>5 DEF Rebuilt, to

(* A link entry sets the link of its symbol.                                 *)
LEMMA LinkReplay ==
  ASSUME NEW st \in Rebuilt, NEW e \in Entry, e.event \in LinkEvents,
         NEW r, r = ReplayEvent(st, e)
  PROVE  /\ r \in Rebuilt
         /\ r.links = [st.links EXCEPT ![e.symbol] =
                         IF e.event = "PROTECTIVE_ORDER_LINKED" THEN e.order ELSE NoOrder]
         /\ r.status = st.status /\ r.filled = st.filled /\ r.keys = st.keys
         /\ r.groups = st.groups /\ r.applied = st.applied
         /\ r.ledger = Append(st.ledger, e)
<1> DEFINE b == ReplayLink(st, e)
           to == IF e.event = "PROTECTIVE_ORDER_LINKED" THEN e.order ELSE NoOrder
<1>1. e.order \in Orders /\ e.symbol \in Symbols
  BY DEF Entry, BirthEvents, StatusEvents, FillEvents, LinkEvents, NoteEvents, FillIncidents
<1>2. r = [b EXCEPT !.ledger = Append(@, e)]
  BY DEF ReplayEvent, Logged, BirthEvents, LinkEvents
<1>3. b = [st EXCEPT !.links = [@ EXCEPT ![e.symbol] = to]]
  BY DEF ReplayLink
<1>4. /\ [st.links EXCEPT ![e.symbol] = to] \in [Symbols -> Orders \cup {NoOrder}]
      /\ Append(st.ledger, e) \in Seq(Entry)
  BY <1>1 DEF Rebuilt
<1> HIDE DEF b, to
<1> QED BY <1>2, <1>3, <1>4 DEF Rebuilt, to

(* Incidents and compensation records are copied, and change nothing else.   *)
LEMMA NoteReplay ==
  ASSUME NEW st \in Rebuilt, NEW e \in Entry, e.event \in NoteEvents,
         NEW r, r = ReplayEvent(st, e)
  PROVE  /\ r \in Rebuilt
         /\ r.status = st.status /\ r.filled = st.filled /\ r.keys = st.keys
         /\ r.groups = st.groups /\ r.applied = st.applied /\ r.links = st.links
         /\ r.ledger = Append(st.ledger, e)
<1>1. r = [st EXCEPT !.ledger = Append(@, e)]
  BY DEF ReplayEvent, Logged, StatusEvents, BirthEvents, LinkEvents, FillEvents,
         NoteEvents, FillIncidents
<1>2. Append(st.ledger, e) \in Seq(Entry)
  BY DEF Rebuilt
<1> QED BY <1>1, <1>2 DEF Rebuilt

-----------------------------------------------------------------------------
(* What appending to the ledger does to the invariants that speak of it.     *)

\* Every entry of the next ledger is an old one, at its old place, or new.
GrowsBy(new) ==
  /\ \A i \in DOMAIN ledger : i \in DOMAIN ledger' /\ ledger'[i] = ledger[i]
  /\ \A i \in DOMAIN ledger' : i \in DOMAIN ledger \/ ledger'[i] \in new

(* One entry is appended.                                                    *)
LEMMA OneEntry ==
  ASSUME TypeOK, NEW e \in Entry, Emit(e)
  PROVE  /\ ledger' = Append(ledger, e)
         /\ ledger' \in Seq(Entry)
         /\ GrowsBy({e})
         /\ \A i \in DOMAIN ledger : i < Len(ledger')
         /\ \A i \in DOMAIN ledger' : i \in DOMAIN ledger \/ i = Len(ledger')
         /\ ledger'[Len(ledger')] = e
BY DEF TypeOK, Emit, GrowsBy

(* Two entries are appended, in this order.                                  *)
LEMMA TwoEntries ==
  ASSUME TypeOK, NEW e \in Entry, NEW f \in Entry, EmitBoth(e, f)
  PROVE  /\ ledger' = Append(Append(ledger, e), f)
         /\ ledger' \in Seq(Entry)
         /\ GrowsBy({e, f})
         /\ Len(ledger') = Len(ledger) + 2
         /\ ledger'[Len(ledger) + 1] = e /\ ledger'[Len(ledger) + 2] = f
         /\ \A i \in DOMAIN ledger : i <= Len(ledger)
         /\ \A i \in DOMAIN ledger' :
              i \in DOMAIN ledger \/ i = Len(ledger) + 1 \/ i = Len(ledger) + 2
BY DEF TypeOK, EmitBoth, GrowsBy

(* Orders once compensated stay so.                                          *)
LEMMA CompensatedGrows ==
  ASSUME NEW new, GrowsBy(new)
  PROVE  Compensated \subseteq Compensated'
BY DEF GrowsBy, Compensated

(* Entries that book no fill do not disturb what is known of fills.          *)
LEMMA BookedKept ==
  ASSUME BookedInv, NEW new, GrowsBy(new), \A e \in new : e.event \notin FillEvents,
         applied \subseteq applied'
  PROVE  BookedInv'
BY DEF BookedInv, ExecutionsBookedOnce, FillEntries, GrowsBy

(* An entry that creates an order carries a key, or says that it has none.   *)
LEMMA BirthKeyTypes ==
  ASSUME ledger \in Seq(Entry)
  PROVE  \A i \in BirthEntries : ledger[i].key \in Keys \cup {NoKey}
BY DEF BirthEntries, Entry, BirthEvents, StatusEvents, FillEvents, LinkEvents, NoteEvents,
       FillIncidents

(* Nor do entries that create no order disturb what is known of keys.        *)
LEMMA KeysKept ==
  ASSUME KeysInv, NEW new, GrowsBy(new), \A e \in new : e.event \notin BirthEvents,
         \A k \in Keys : keys[k] # NoOrder => keys'[k] # NoOrder,
         \A k \in Keys : replayed.keys[k] # NoOrder => replayed'.keys[k] # NoOrder,
         ledger \in Seq(Entry)
  PROVE  KeysInv'
<1>1. \A i \in BirthEntries' : i \in BirthEntries /\ ledger'[i] = ledger[i]
  BY DEF GrowsBy, BirthEntries
<1>2. \A i \in BirthEntries : ledger[i].key \in Keys \cup {NoKey}
  BY BirthKeyTypes
<1>3. KeyAdmitsOnce'
  BY <1>1 DEF KeysInv, KeyAdmitsOnce
<1> QED BY <1>1, <1>2, <1>3 DEF KeysInv

(* Every order asks for something.                                           *)
LEMMA QuantityPositive == \A o \in Orders : Quantity(o) \in Nat /\ Quantity(o) > 0
BY RequestAssumption DEF Quantity

-----------------------------------------------------------------------------
(* One lemma per action: it preserves the inductive invariant.               *)

(* Deadlines, the clock and idle timeout checks leave the book alone.        *)
LEMMA QuietStep ==
  ASSUME IInv, UNCHANGED <<bookVars, ledger, replayed>>,
         deadlines' \in [Orders -> Nat \cup {NoDeadline}], now' \in Nat, timedOut' \subseteq Orders
  PROVE  IInv'
<1>1. TypeOK'
  BY DEF IInv, TypeOK, bookVars
<1>2. FillsBounded' /\ LinksNameStops'
  BY DEF IInv, FillsBounded, LinksNameStops, bookVars
<1>3. ReplayInv'
  BY DEF IInv, ReplayInv, Compensated, bookVars
<1>4. GroupsInv'
  BY DEF IInv, GroupsInv, OneLivePerGroup, bookVars
<1>5. BookedInv' /\ KeysInv'
  BY DEF IInv, BookedInv, ExecutionsBookedOnce, FillEntries, KeysInv, KeyAdmitsOnce,
         BirthEntries, bookVars
<1> QED BY <1>1, <1>2, <1>3, <1>4, <1>5 DEF IInv

(* A refused fill leaves one incident in the ledger.                         *)
LEMMA RefuseStep ==
  ASSUME IInv, NEW o \in Orders, NEW q \in FillQuantities,
         NEW x \in ExecutionIds \cup {NoExecution}, RefuseFill(o, q, x)
  PROVE  IInv'
<1> DEFINE kind == FillOutcome(o, q, x)
           e == OrderEvent(kind, o)
<1>1. kind \in NoteEvents \ (FillEvents \cup BirthEvents)
  BY DEF RefuseFill, FillOutcome, FillEvents, BirthEvents, NoteEvents, FillIncidents
<1>2. e \in Entry /\ e.event = kind
  BY <1>1, EntryTypes DEF OrderEvent
<1> HIDE DEF kind, e
<1>3. Emit(e) /\ UNCHANGED <<bookVars, clockVars>>
  BY DEF RefuseFill, e, kind
<1>4. /\ replayed' \in Rebuilt
      /\ replayed'.status = replayed.status /\ replayed'.filled = replayed.filled
      /\ replayed'.keys = replayed.keys /\ replayed'.groups = replayed.groups
      /\ replayed'.applied = replayed.applied /\ replayed'.links = replayed.links
      /\ replayed'.ledger = Append(replayed.ledger, e)
  BY <1>1, <1>2, <1>3, NoteReplay DEF IInv, TypeOK, Emit
<1>5. ledger' = Append(ledger, e) /\ ledger' \in Seq(Entry) /\ GrowsBy({e})
  BY <1>2, <1>3, OneEntry DEF IInv
<1>6. TypeOK'
  BY <1>3, <1>4, <1>5 DEF IInv, TypeOK, bookVars, clockVars
<1>7. FillsBounded' /\ LinksNameStops'
  BY <1>3 DEF IInv, FillsBounded, LinksNameStops, bookVars
<1>8. ReplayInv'
  BY <1>3, <1>4, <1>5, CompensatedGrows DEF IInv, ReplayInv, bookVars
<1>9. GroupsInv'
  BY <1>3, <1>4 DEF IInv, GroupsInv, OneLivePerGroup, bookVars
<1>10. BookedInv'
  BY <1>1, <1>2, <1>3, <1>5, BookedKept DEF IInv, bookVars
<1>11. KeysInv'
  BY <1>1, <1>2, <1>3, <1>4, <1>5, KeysKept DEF IInv, TypeOK, bookVars
<1> QED BY <1>6, <1>7, <1>8, <1>9, <1>10, <1>11 DEF IInv

(* Linking and unlinking a protective order.                                 *)
LEMMA LinkStep ==
  ASSUME IInv, NEW s \in Symbols, NEW o \in Orders, NEW kind \in LinkEvents,
         Emit(LinkEvent(kind, s, o)),
         UNCHANGED <<status, filled, keys, groups, applied, clockVars>>,
         links' = [links EXCEPT ![s] = IF kind = "PROTECTIVE_ORDER_LINKED" THEN o ELSE NoOrder],
         kind = "PROTECTIVE_ORDER_LINKED" => Protects(o, s)
  PROVE  IInv'
<1> DEFINE e == LinkEvent(kind, s, o)
<1>1. /\ e \in Entry /\ e.event = kind /\ e.symbol = s /\ e.order = o
      /\ kind \notin FillEvents \cup BirthEvents
  BY EntryTypes DEF LinkEvent, LinkEvents, FillEvents, BirthEvents
<1>2. /\ replayed' \in Rebuilt
      /\ replayed'.status = replayed.status /\ replayed'.filled = replayed.filled
      /\ replayed'.keys = replayed.keys /\ replayed'.groups = replayed.groups
      /\ replayed'.applied = replayed.applied
      /\ replayed'.links = [replayed.links EXCEPT ![s] =
                              IF kind = "PROTECTIVE_ORDER_LINKED" THEN o ELSE NoOrder]
      /\ replayed'.ledger = Append(replayed.ledger, e)
  <2>1. replayed \in Rebuilt /\ replayed' = ReplayEvent(replayed, e)
    BY DEF IInv, TypeOK, Emit
  <2> HIDE DEF e
  <2> QED BY <1>1, <2>1, LinkReplay
<1> HIDE DEF e
<1>3. ledger' = Append(ledger, e) /\ ledger' \in Seq(Entry) /\ GrowsBy({e})
  BY <1>1, OneEntry DEF IInv, e
<1>4. TypeOK'
  BY <1>2, <1>3 DEF IInv, TypeOK, clockVars
<1>5. FillsBounded'
  BY DEF IInv, FillsBounded
<1>6. LinksNameStops'
  <2>1. kind = "PROTECTIVE_ORDER_LINKED" =>
          IsStopLoss(o) /\ SymbolOf(o) = s /\ status[o] # "NONE"
    BY DEF Protects, Cancellable, Fillable
  <2> QED BY <2>1 DEF IInv, TypeOK, LinksNameStops
<1>7. ReplayInv'
  BY <1>2, <1>3, CompensatedGrows DEF IInv, ReplayInv
<1>8. GroupsInv'
  BY <1>2 DEF IInv, GroupsInv, OneLivePerGroup
<1>9. BookedInv'
  BY <1>1, <1>3, BookedKept DEF IInv
<1>10. KeysInv'
  BY <1>1, <1>2, <1>3, KeysKept DEF IInv, TypeOK
<1> QED BY <1>4, <1>5, <1>6, <1>7, <1>8, <1>9, <1>10 DEF IInv

(* A submission creates one order, alone in its group.                       *)
LEMMA SubmitStep ==
  ASSUME IInv, NEW o \in Orders, NEW k \in Keys \cup {NoKey}, SubmitOrder(o, k)
  PROVE  IInv'
<1> DEFINE e == BirthEvent("ORDER_SUBMITTED", o, k, o)
<1>1. /\ e \in Entry /\ e.event = "ORDER_SUBMITTED"
      /\ e.order = o /\ e.key = k /\ e.group = o
  BY EntryTypes DEF BirthEvent, BirthEvents
<1>2. status[o] = "NONE" /\ replayed.status[o] = "NONE"
  BY DEF SubmitOrder, IInv, ReplayInv, Cancellable, Fillable
<1>3. /\ replayed' \in Rebuilt
      /\ replayed'.status = [replayed.status EXCEPT ![o] = "SUBMITTED"]
      /\ replayed'.filled = [replayed.filled EXCEPT ![o] = 0]
      /\ replayed'.keys = Remember(replayed.keys, k, o)
      /\ replayed'.groups = [replayed.groups EXCEPT ![o] = @ \cup {o}]
      /\ replayed'.applied = replayed.applied /\ replayed'.links = replayed.links
      /\ replayed'.ledger = Append(replayed.ledger, e)
  <2>1. replayed \in Rebuilt /\ replayed' = ReplayEvent(replayed, e)
    BY DEF IInv, TypeOK, SubmitOrder, Emit
  <2>2. "ORDER_SUBMITTED" \in BirthEvents /\ ~Known(replayed, o)
    BY <1>2 DEF BirthEvents, Known
  <2> HIDE DEF e
  <2> QED BY <1>1, <2>1, <2>2, BirthReplay
<1>20. Emit(e)
  BY DEF SubmitOrder
<1> HIDE DEF e
<1>4. /\ ledger' = Append(ledger, e) /\ ledger' \in Seq(Entry) /\ GrowsBy({e})
      /\ \A i \in DOMAIN ledger : i < Len(ledger')
      /\ \A i \in DOMAIN ledger' : i \in DOMAIN ledger \/ i = Len(ledger')
      /\ ledger'[Len(ledger')] = e
  BY <1>1, <1>20, OneEntry DEF IInv, TypeOK
<1>5. /\ status' = [status EXCEPT ![o] = "SUBMITTED"]
      /\ filled' = [filled EXCEPT ![o] = 0]
      /\ keys' = Remember(keys, k, o)
      /\ groups' = [groups EXCEPT ![o] = {o}]
      /\ UNCHANGED <<applied, links, clockVars>>
      /\ k # NoKey => keys[k] = NoOrder
  BY DEF SubmitOrder
<1>6. TypeOK'
  <2>1. "SUBMITTED" \in Lifecycle
    BY DEF Lifecycle, Cancellable
  <2>2. keys' \in [Keys -> Orders \cup {NoOrder}]
    BY <1>5 DEF IInv, TypeOK, Remember
  <2>3. groups' \in [Orders -> SUBSET Orders]
    BY <1>5 DEF IInv, TypeOK
  <2> QED BY <1>3, <1>4, <1>5, <2>1, <2>2, <2>3 DEF IInv, TypeOK, clockVars
<1>7. FillsBounded'
  <2> SUFFICES ASSUME NEW p \in Orders
               PROVE  /\ filled'[p] <= Quantity(p)
                      /\ status'[p] = "FILLED" <=> filled'[p] = Quantity(p)
                      /\ status'[p] \in {"NONE", "SUBMITTED", "ACCEPTED", "OPEN"} => filled'[p] = 0
    BY DEF FillsBounded
  <2>1. CASE p = o
    BY <1>5, <2>1, QuantityPositive DEF IInv, TypeOK
  <2>2. CASE p # o
    BY <1>5, <2>2 DEF IInv, TypeOK, FillsBounded
  <2> QED BY <2>1, <2>2
<1>8. LinksNameStops'
  BY <1>5 DEF IInv, TypeOK, LinksNameStops
<1>9. ReplayInv'
  <2>1. Compensated \subseteq Compensated'
    BY <1>4, CompensatedGrows
  <2>2. \A p \in Orders : \/ replayed'.status[p] = status'[p]
                          \/ p \in Compensated' /\ replayed'.status[p] = "CANCELED"
                             /\ status'[p] \in Cancellable
    BY <1>3, <1>5, <2>1 DEF IInv, TypeOK, Rebuilt, ReplayInv
  <2>3. \A j \in Keys : keys'[j] \notin Compensated' => replayed'.keys[j] = keys'[j]
    BY <1>3, <1>5, <2>1 DEF IInv, ReplayInv, Remember
  <2> QED BY <1>3, <1>4, <1>5, <2>2, <2>3 DEF IInv, ReplayInv
<1>10. GroupsInv'
  <2>1. replayed.groups[o] = {} /\ \A g \in Orders : o \notin replayed.groups[g]
    BY <1>2 DEF IInv, GroupsInv, TypeOK, Rebuilt
  <2>2. \A g \in Orders : /\ replayed'.groups[g] = IF g = o THEN {o} ELSE replayed.groups[g]
                          /\ groups'[g] = IF g = o THEN {o} ELSE groups[g]
                          /\ status'[g] = IF g = o THEN "SUBMITTED" ELSE status[g]
    BY <1>3, <1>5, <2>1 DEF IInv, TypeOK, Rebuilt
  <2>3. \A g \in Orders : groups[g] \subseteq Orders /\ replayed.groups[g] \subseteq Orders
    BY DEF IInv, TypeOK, Rebuilt
  <2>4. OneLivePerGroup'
    BY <2>1, <2>2, <2>3 DEF IInv, GroupsInv, OneLivePerGroup
  <2> QED BY <2>1, <2>2, <2>3, <2>4 DEF IInv, GroupsInv
<1>11. BookedInv'
  BY <1>1, <1>4, <1>5, BookedKept DEF IInv, FillEvents
<1>12. KeysInv'
  <2>1. \A i \in BirthEntries' :
          (i \in BirthEntries /\ ledger'[i] = ledger[i]) \/ i = Len(ledger')
    BY <1>4 DEF BirthEntries, GrowsBy
  <2>2. \A i \in BirthEntries : ledger[i].key \in Keys \cup {NoKey}
    BY BirthKeyTypes DEF IInv, TypeOK
  <2>3. \A j \in Keys : /\ keys[j] # NoOrder \/ j = k => keys'[j] # NoOrder
                        /\ replayed.keys[j] # NoOrder \/ j = k => replayed'.keys[j] # NoOrder
    BY <1>3, <1>5, OrdersAssumption DEF Remember
  <2>4. KeyAdmitsOnce'
    <3> SUFFICES ASSUME NEW i \in BirthEntries', NEW j \in BirthEntries', i < j,
                        ledger'[j].event = "ORDER_SUBMITTED", ledger'[j].key # NoKey
                 PROVE  ledger'[i].key # ledger'[j].key
      BY DEF KeyAdmitsOnce
    <3>1. i \in BirthEntries /\ ledger'[i] = ledger[i]
      BY <1>4, <2>1 DEF BirthEntries
    <3>2. CASE j \in BirthEntries /\ ledger'[j] = ledger[j]
      BY <3>1, <3>2 DEF IInv, KeysInv, KeyAdmitsOnce
    <3>3. CASE j = Len(ledger')
      BY <1>1, <1>4, <1>5, <3>1, <3>3 DEF IInv, KeysInv
    <3> QED BY <2>1, <3>2, <3>3
  <2> QED BY <1>1, <1>4, <2>1, <2>2, <2>3, <2>4 DEF IInv, KeysInv
<1> QED BY <1>6, <1>7, <1>8, <1>9, <1>10, <1>11, <1>12 DEF IInv

(* The broker's acknowledgements.                                            *)
LEMMA AdvanceStep ==
  ASSUME IInv, NEW o \in Orders, AcceptOrder(o) \/ OpenOrder(o)
  PROVE  IInv'
<1> DEFINE to == IF status[o] = "SUBMITTED" THEN "ACCEPTED" ELSE "OPEN"
           kind == IF status[o] = "SUBMITTED" THEN "ORDER_ACCEPTED" ELSE "ORDER_OPEN"
           e == OrderEvent(kind, o)
<1>1. /\ status[o] \in {"SUBMITTED", "ACCEPTED"}
      /\ status' = [status EXCEPT ![o] = to]
      /\ Emit(e)
      /\ UNCHANGED <<filled, keys, groups, applied, links, clockVars>>
  BY DEF AcceptOrder, OpenOrder, Advance
<1>2. /\ e \in Entry /\ e.event = kind /\ e.order = o
      /\ kind \in StatusEvents \ (FillEvents \cup BirthEvents)
  BY EntryTypes DEF OrderEvent, StatusEvents, FillEvents, BirthEvents
<1>3. Known(replayed, o)
  BY <1>1 DEF IInv, ReplayInv, Known
<1>4. to \in {"ACCEPTED", "OPEN"} /\ to = StatusAfter(kind)
  BY DEF StatusAfter
<1> HIDE DEF kind, to
<1>5. /\ replayed' \in Rebuilt
      /\ replayed'.status = [replayed.status EXCEPT ![o] = to]
      /\ replayed'.filled = replayed.filled /\ replayed'.keys = replayed.keys
      /\ replayed'.groups = replayed.groups
      /\ replayed'.applied = replayed.applied /\ replayed'.links = replayed.links
      /\ replayed'.ledger = Append(replayed.ledger, e)
  <2>1. replayed \in Rebuilt /\ replayed' = ReplayEvent(replayed, e)
    BY <1>1 DEF IInv, TypeOK, Emit
  <2> HIDE DEF e
  <2> QED BY <1>2, <1>3, <1>4, <2>1, StatusReplay
<1> HIDE DEF e
<1>6. ledger' = Append(ledger, e) /\ ledger' \in Seq(Entry) /\ GrowsBy({e})
  BY <1>1, <1>2, OneEntry DEF IInv
<1>7. TypeOK'
  BY <1>1, <1>4, <1>5, <1>6 DEF IInv, TypeOK, clockVars, Lifecycle, Cancellable, Fillable
<1>8. FillsBounded' /\ LinksNameStops'
  BY <1>1, <1>4 DEF IInv, TypeOK, FillsBounded, LinksNameStops
<1>9. ReplayInv'
  BY <1>1, <1>4, <1>5, <1>6, CompensatedGrows DEF IInv, TypeOK, Rebuilt, ReplayInv
<1>10. GroupsInv'
  <2>1. \A p \in Orders : /\ status'[p] \in Cancellable => status[p] \in Cancellable
                          /\ status[p] # "NONE" => status'[p] # "NONE"
    BY <1>1, <1>4 DEF IInv, TypeOK, Cancellable
  <2>2. \A g \in Orders : groups[g] \subseteq Orders /\ replayed.groups[g] \subseteq Orders
    BY DEF IInv, TypeOK, Rebuilt
  <2> QED BY <1>1, <1>5, <2>1, <2>2 DEF IInv, GroupsInv, OneLivePerGroup
<1>11. BookedInv'
  BY <1>1, <1>2, <1>6, BookedKept DEF IInv
<1>12. KeysInv'
  BY <1>1, <1>2, <1>5, <1>6, KeysKept DEF IInv, TypeOK
<1> QED BY <1>7, <1>8, <1>9, <1>10, <1>11, <1>12 DEF IInv

(* A fill is booked against a working order, once, within what remains.      *)
LEMMA FillStep ==
  ASSUME IInv, NEW o \in Orders, NEW q \in FillQuantities,
         NEW x \in ExecutionIds \cup {NoExecution}, ApplyFill(o, q, x)
  PROVE  IInv'
<1> DEFINE kind == FillOutcome(o, q, x)
           total == filled[o] + q
           i == Identity(o, q, x)
           to == IF kind = "ORDER_FILLED" THEN "FILLED" ELSE "PARTIALLY_FILLED"
           e == FillEvent(kind, o, q, total, i)
<1>1. /\ kind \in FillEvents
      /\ filled' = [filled EXCEPT ![o] = total]
      /\ status' = [status EXCEPT ![o] = to]
      /\ applied' = applied \cup {i}
      /\ Emit(e)
      /\ UNCHANGED <<keys, groups, links, clockVars>>
  BY DEF ApplyFill
<1>2. /\ i \in Identities /\ i \notin applied
      /\ status[o] \in Fillable
      /\ q \in Nat /\ q # 0 /\ filled[o] \in Nat
      /\ q <= Quantity(o) - filled[o]
      /\ kind = "ORDER_FILLED" <=> q = Quantity(o) - filled[o]
  <2>1. i \in Identities
    BY DEF Identity, Identities
  <2>2. q \in Nat /\ filled[o] \in Nat /\ Quantity(o) \in Nat
    BY OrdersAssumption, QuantityPositive DEF IInv, TypeOK
  <2>3. /\ i \notin applied /\ status[o] \in Fillable /\ q # 0 /\ ~(q > Remaining(o))
        /\ kind = "ORDER_FILLED" <=> q = Remaining(o)
    BY <1>1 DEF FillOutcome, FillEvents
  <2> QED BY <2>1, <2>2, <2>3 DEF Remaining
<1>3. total \in Nat /\ total = filled[o] + q /\ to \in {"FILLED", "PARTIALLY_FILLED"}
      /\ (to = "FILLED" <=> total = Quantity(o)) /\ total <= Quantity(o)
  BY <1>2, QuantityPositive
<1>4. /\ e \in Entry /\ e.event = kind /\ e.order = o
      /\ e.fill_quantity = total /\ e.execution = i
  BY <1>1, <1>2, <1>3, EntryTypes DEF FillEvent
<1>5. kind \notin BirthEvents
  BY <1>1 DEF BirthEvents, FillEvents
<1>6. to = IF kind = "ORDER_FILLED" THEN "FILLED" ELSE "PARTIALLY_FILLED"
  OBVIOUS
<1>7. Known(replayed, o)
  BY <1>2 DEF IInv, ReplayInv, Known, Fillable
<1> HIDE DEF kind, total, i, to
<1>8. /\ replayed' \in Rebuilt
      /\ replayed'.status = [replayed.status EXCEPT ![o] = to]
      /\ replayed'.filled = [replayed.filled EXCEPT ![o] = total]
      /\ replayed'.applied = replayed.applied \cup {i}
      /\ replayed'.keys = replayed.keys /\ replayed'.groups = replayed.groups
      /\ replayed'.links = replayed.links
      /\ replayed'.ledger = Append(replayed.ledger, e)
  <2>1. replayed \in Rebuilt /\ replayed' = ReplayEvent(replayed, e)
    BY <1>1 DEF IInv, TypeOK, Emit
  <2> HIDE DEF e
  <2> QED BY <1>1, <1>4, <1>6, <1>7, <2>1, FillReplay
<1> HIDE DEF e
<1>9. /\ ledger' = Append(ledger, e) /\ ledger' \in Seq(Entry) /\ GrowsBy({e})
      /\ \A j \in DOMAIN ledger : j < Len(ledger')
      /\ \A j \in DOMAIN ledger' : j \in DOMAIN ledger \/ j = Len(ledger')
      /\ ledger'[Len(ledger')] = e
  BY <1>1, <1>4, OneEntry DEF IInv
<1>10. TypeOK'
  <2>1. to \in Lifecycle
    BY <1>3 DEF Lifecycle, Terminal, Cancellable, Fillable
  <2> QED BY <1>1, <1>2, <1>3, <1>8, <1>9, <2>1 DEF IInv, TypeOK, clockVars
<1>11. FillsBounded'
  <2> SUFFICES ASSUME NEW p \in Orders
               PROVE  /\ filled'[p] <= Quantity(p)
                      /\ status'[p] = "FILLED" <=> filled'[p] = Quantity(p)
                      /\ status'[p] \in {"NONE", "SUBMITTED", "ACCEPTED", "OPEN"} => filled'[p] = 0
    BY DEF FillsBounded
  <2>1. CASE p = o
    BY <1>1, <1>3, <2>1 DEF IInv, TypeOK
  <2>2. CASE p # o
    BY <1>1, <2>2 DEF IInv, TypeOK, FillsBounded
  <2> QED BY <2>1, <2>2
<1>12. LinksNameStops'
  BY <1>1, <1>3 DEF IInv, TypeOK, LinksNameStops
<1>13. ReplayInv'
  <2>1. Compensated \subseteq Compensated'
    BY <1>9, CompensatedGrows
  <2>2. \A p \in Orders : \/ replayed'.status[p] = status'[p]
                          \/ p \in Compensated' /\ replayed'.status[p] = "CANCELED"
                             /\ status'[p] \in Cancellable
    BY <1>1, <1>8, <2>1 DEF IInv, TypeOK, Rebuilt, ReplayInv
  <2> QED BY <1>1, <1>8, <1>9, <2>1, <2>2 DEF IInv, ReplayInv
<1>14. GroupsInv'
  <2>1. \A p \in Orders : /\ status'[p] \in Cancellable => status[p] \in Cancellable
                          /\ status[p] # "NONE" => status'[p] # "NONE"
    BY <1>1, <1>2, <1>3 DEF IInv, TypeOK, Cancellable
  <2>2. \A g \in Orders : groups[g] \subseteq Orders /\ replayed.groups[g] \subseteq Orders
    BY DEF IInv, TypeOK, Rebuilt
  <2> QED BY <1>1, <1>8, <2>1, <2>2 DEF IInv, GroupsInv, OneLivePerGroup
<1>15. BookedInv'
  <2>1. \A j \in FillEntries' :
          (j \in FillEntries /\ ledger'[j] = ledger[j]) \/ j = Len(ledger')
    BY <1>9 DEF FillEntries, GrowsBy
  <2>2. \A j \in FillEntries : ledger[j].execution \in applied /\ ledger[j].execution # i
    BY <1>2 DEF IInv, BookedInv
  <2>3. ExecutionsBookedOnce'
    BY <1>4, <1>9, <2>1, <2>2 DEF IInv, BookedInv, ExecutionsBookedOnce
  <2> QED BY <1>1, <1>4, <1>9, <2>1, <2>2, <2>3 DEF BookedInv
<1>16. KeysInv'
  BY <1>1, <1>4, <1>5, <1>8, <1>9, KeysKept DEF IInv, TypeOK
<1> QED BY <1>10, <1>11, <1>12, <1>13, <1>14, <1>15, <1>16 DEF IInv

(* What a cancellation does.  By OneLivePerGroup the order has no live       *)
(* sibling, so it is the only one whose status changes.                      *)
LEMMA CancelEffect ==
  ASSUME IInv, NEW o \in Orders, status[o] \in Cancellable
  PROVE  /\ StatusesAfterCancel(o) = [status EXCEPT ![o] = "CANCELED"]
         /\ GroupsAfterCancel(o) \in [Orders -> SUBSET Orders]
         /\ \A g \in Orders : GroupsAfterCancel(o)[g] = IF o \in groups[g] THEN {} ELSE groups[g]
         /\ \A g \in Orders : \A p \in replayed.groups[g] :
              (p # o /\ status[p] \in Cancellable) => o \notin groups[g]
<1>1. \A g \in Orders : groups[g] \subseteq Orders /\ replayed.groups[g] \subseteq Orders
  BY DEF IInv, TypeOK, Rebuilt
<1>2. \A p \in Family(o) : p \in Orders /\ (p # o => status[p] \notin Fillable)
  BY <1>1 DEF IInv, GroupsInv, OneLivePerGroup, Family, GroupsOf, Cancellable
<1>3. StatusesAfterCancel(o) = [status EXCEPT ![o] = "CANCELED"]
  BY <1>2 DEF StatusesAfterCancel, IInv, TypeOK
<1>4. \A g \in Orders : GroupsAfterCancel(o)[g] = IF o \in groups[g] THEN {} ELSE groups[g]
  BY DEF GroupsAfterCancel, GroupsOf
<1>5. GroupsAfterCancel(o) \in [Orders -> SUBSET Orders]
  BY <1>1 DEF GroupsAfterCancel
<1> QED BY <1>1, <1>3, <1>4, <1>5 DEF IInv, GroupsInv, OneLivePerGroup

(* A cancellation, by a caller or by a timeout.                              *)
LEMMA CancelStep ==
  ASSUME IInv, NEW o \in Orders, CancelOrder(o),
         UNCHANGED <<deadlines, now>>, timedOut' \subseteq Orders
  PROVE  IInv'
<1> DEFINE e == OrderEvent("ORDER_CANCELED", o)
<1>1. /\ status[o] \in Cancellable
      /\ status' = [status EXCEPT ![o] = "CANCELED"]
      /\ groups' \in [Orders -> SUBSET Orders]
      /\ \A g \in Orders : groups'[g] = IF o \in groups[g] THEN {} ELSE groups[g]
      /\ \A g \in Orders : \A p \in replayed.groups[g] :
           (p # o /\ status[p] \in Cancellable) => o \notin groups[g]
      /\ Emit(e)
      /\ UNCHANGED <<filled, keys, applied, links>>
  BY CancelEffect DEF CancelOrder
<1>2. /\ e \in Entry /\ e.event = "ORDER_CANCELED" /\ e.order = o
      /\ "ORDER_CANCELED" \in StatusEvents \ (FillEvents \cup BirthEvents)
      /\ StatusAfter("ORDER_CANCELED") = "CANCELED"
  BY EntryTypes DEF OrderEvent, StatusEvents, FillEvents, BirthEvents, StatusAfter
<1>3. Known(replayed, o)
  BY <1>1 DEF IInv, ReplayInv, Known, Cancellable, Fillable
<1>4. /\ replayed' \in Rebuilt
      /\ replayed'.status = [replayed.status EXCEPT ![o] = "CANCELED"]
      /\ replayed'.filled = replayed.filled /\ replayed'.keys = replayed.keys
      /\ replayed'.groups = replayed.groups
      /\ replayed'.applied = replayed.applied /\ replayed'.links = replayed.links
      /\ replayed'.ledger = Append(replayed.ledger, e)
  <2>1. replayed \in Rebuilt /\ replayed' = ReplayEvent(replayed, e)
    BY <1>1 DEF IInv, TypeOK, Emit
  <2> HIDE DEF e
  <2> QED BY <1>2, <1>3, <2>1, StatusReplay
<1> HIDE DEF e
<1>5. ledger' = Append(ledger, e) /\ ledger' \in Seq(Entry) /\ GrowsBy({e})
  BY <1>1, <1>2, OneEntry DEF IInv
<1>6. TypeOK'
  BY <1>1, <1>4, <1>5 DEF IInv, TypeOK, Lifecycle, Terminal
<1>7. FillsBounded' /\ LinksNameStops'
  <2>1. "FILLED" \notin Cancellable
    BY DEF Cancellable, Fillable
  <2> QED BY <1>1, <2>1 DEF IInv, TypeOK, FillsBounded, LinksNameStops
<1>8. ReplayInv'
  <2>1. Compensated \subseteq Compensated'
    BY <1>5, CompensatedGrows
  <2>2. \A p \in Orders : \/ replayed'.status[p] = status'[p]
                          \/ p \in Compensated' /\ replayed'.status[p] = "CANCELED"
                             /\ status'[p] \in Cancellable
    BY <1>1, <1>4, <2>1 DEF IInv, TypeOK, Rebuilt, ReplayInv
  <2> QED BY <1>1, <1>4, <1>5, <2>1, <2>2 DEF IInv, ReplayInv
<1>9. GroupsInv'
  <2>1. \A p \in Orders : /\ status'[p] \in Cancellable => p # o /\ status[p] \in Cancellable
                          /\ status[p] # "NONE" => status'[p] # "NONE"
    BY <1>1 DEF IInv, TypeOK, Cancellable, Fillable
  <2>2. \A g \in Orders : groups[g] \subseteq Orders /\ replayed.groups[g] \subseteq Orders
    BY DEF IInv, TypeOK, Rebuilt
  <2>3. \A g \in Orders : groups'[g] \subseteq groups[g]
    BY <1>1
  <2>4. OneLivePerGroup'
    BY <2>1, <2>2, <2>3 DEF IInv, GroupsInv, OneLivePerGroup
  <2>5. \A g \in Orders : \A p \in replayed'.groups[g] : status'[p] \in Cancellable => p \in groups'[g]
    BY <1>1, <1>4, <2>1, <2>2 DEF IInv, GroupsInv
  <2> QED BY <1>4, <2>1, <2>2, <2>3, <2>4, <2>5 DEF IInv, GroupsInv
<1>10. BookedInv'
  BY <1>1, <1>2, <1>5, BookedKept DEF IInv
<1>11. KeysInv'
  BY <1>1, <1>2, <1>4, <1>5, KeysKept DEF IInv, TypeOK
<1> QED BY <1>6, <1>7, <1>8, <1>9, <1>10, <1>11 DEF IInv

(* A replacement that succeeds: the old order is canceled and the new one    *)
(* takes its place in the group.                                             *)
LEMMA ReplaceStep ==
  ASSUME IInv, NEW o \in Orders, NEW n \in Orders, NEW k \in Keys \cup {NoKey},
         ReplaceOrder(o, n, k)
  PROVE  IInv'
<1> DEFINE gid == GroupFor(o, n)
           e == OrderEvent("ORDER_CANCELED", o)
           f == BirthEvent("ORDER_REPLACED", n, k, gid)
           m == ReplayEvent(replayed, e)
<1>1. /\ status[n] = "NONE" /\ status[o] \in Cancellable /\ n # o
      /\ status' = [status EXCEPT ![o] = "CANCELED", ![n] = "SUBMITTED"]
      /\ filled' = [filled EXCEPT ![n] = 0]
      /\ keys' = Remember(keys, k, n)
      /\ groups' = Join(GroupsAfterCancel(o), gid, n)
      /\ EmitBoth(e, f)
      /\ UNCHANGED <<applied, links, clockVars>>
  BY CancelEffect DEF ReplaceOrder, Cancellable, Fillable
<1>2. /\ GroupsAfterCancel(o) \in [Orders -> SUBSET Orders]
      /\ \A g \in Orders : GroupsAfterCancel(o)[g] = IF o \in groups[g] THEN {} ELSE groups[g]
      /\ \A g \in Orders : \A p \in replayed.groups[g] :
           (p # o /\ status[p] \in Cancellable) => o \notin groups[g]
  BY <1>1, CancelEffect
<1>3. gid \in Orders /\ (o \in groups[gid] \/ gid = n)
  BY DEF GroupFor, GroupsOf
<1> HIDE DEF gid
<1>4. /\ e \in Entry /\ e.event = "ORDER_CANCELED" /\ e.order = o
      /\ "ORDER_CANCELED" \in StatusEvents \ (FillEvents \cup BirthEvents)
      /\ StatusAfter("ORDER_CANCELED") = "CANCELED"
  BY EntryTypes DEF OrderEvent, StatusEvents, FillEvents, BirthEvents, StatusAfter
<1>5. /\ f \in Entry /\ f.event = "ORDER_REPLACED" /\ f.order = n /\ f.key = k /\ f.group = gid
      /\ "ORDER_REPLACED" \in BirthEvents \ FillEvents
  BY <1>3, EntryTypes DEF BirthEvent, BirthEvents, FillEvents
<1>6. Known(replayed, o) /\ replayed.status[n] = "NONE"
  BY <1>1 DEF IInv, ReplayInv, Known, Cancellable, Fillable
<1>7. /\ replayed \in Rebuilt /\ m = ReplayEvent(replayed, e) /\ replayed' = ReplayEvent(m, f)
      /\ replayed.ledger = ledger
  BY <1>1 DEF IInv, TypeOK, EmitBoth, ReplayInv
<1> HIDE DEF e, f, m
<1>8. /\ m \in Rebuilt
      /\ m.status = [replayed.status EXCEPT ![o] = "CANCELED"]
      /\ m.filled = replayed.filled /\ m.keys = replayed.keys /\ m.groups = replayed.groups
      /\ m.applied = replayed.applied /\ m.links = replayed.links
      /\ m.ledger = Append(ledger, e)
  BY <1>4, <1>6, <1>7, StatusReplay
<1>9. ~Known(m, n)
  BY <1>1, <1>6, <1>7, <1>8 DEF Known, Rebuilt
<1>10. /\ replayed' \in Rebuilt
       /\ replayed'.status = [replayed.status EXCEPT ![o] = "CANCELED", ![n] = "SUBMITTED"]
       /\ replayed'.filled = [replayed.filled EXCEPT ![n] = 0]
       /\ replayed'.keys = Remember(replayed.keys, k, n)
       /\ replayed'.groups = [replayed.groups EXCEPT ![gid] = @ \cup {n}]
       /\ replayed'.applied = replayed.applied /\ replayed'.links = replayed.links
       /\ replayed'.ledger = Append(Append(ledger, e), f)
  <2>1. /\ replayed' \in Rebuilt
        /\ replayed'.status = [m.status EXCEPT ![n] = "SUBMITTED"]
        /\ replayed'.filled = [m.filled EXCEPT ![n] = 0]
        /\ replayed'.keys = Remember(m.keys, k, n)
        /\ replayed'.groups = [m.groups EXCEPT ![gid] = @ \cup {n}]
        /\ replayed'.applied = m.applied /\ replayed'.links = m.links
        /\ replayed'.ledger = Append(m.ledger, f)
    <3>1. f \in Entry /\ f.event \in BirthEvents /\ ~Known(m, f.order)
      BY <1>5, <1>9
    <3>2. m \in Rebuilt /\ replayed' = ReplayEvent(m, f)
      BY <1>7, <1>8
    <3>3. /\ replayed' \in Rebuilt
          /\ replayed'.status = [m.status EXCEPT ![f.order] = "SUBMITTED"]
          /\ replayed'.filled = [m.filled EXCEPT ![f.order] = 0]
          /\ replayed'.keys = Remember(m.keys, f.key, f.order)
          /\ replayed'.groups = [m.groups EXCEPT ![f.group] = @ \cup {f.order}]
          /\ replayed'.applied = m.applied /\ replayed'.links = m.links
          /\ replayed'.ledger = Append(m.ledger, f)
      BY <3>1, <3>2, BirthReplay
    <3> QED BY <1>5, <3>3
  <2> QED BY <1>8, <2>1
<1>11. /\ ledger' = Append(Append(ledger, e), f)
       /\ ledger' \in Seq(Entry)
       /\ GrowsBy({e, f})
       /\ Len(ledger') = Len(ledger) + 2
       /\ ledger'[Len(ledger) + 1] = e /\ ledger'[Len(ledger) + 2] = f
       /\ \A i \in DOMAIN ledger : i <= Len(ledger)
       /\ \A i \in DOMAIN ledger' :
            i \in DOMAIN ledger \/ i = Len(ledger) + 1 \/ i = Len(ledger) + 2
  BY <1>1, <1>4, <1>5, TwoEntries DEF IInv
<1>12. TypeOK'
  <2>1. {"CANCELED", "SUBMITTED"} \subseteq Lifecycle
    BY DEF Lifecycle, Cancellable, Terminal
  <2>2. keys' \in [Keys -> Orders \cup {NoOrder}]
    BY <1>1 DEF IInv, TypeOK, Remember
  <2>3. groups' \in [Orders -> SUBSET Orders]
    BY <1>1, <1>2, <1>3 DEF Join
  <2> QED BY <1>1, <1>10, <1>11, <2>1, <2>2, <2>3 DEF IInv, TypeOK, clockVars
<1>13. FillsBounded'
  <2> SUFFICES ASSUME NEW p \in Orders
               PROVE  /\ filled'[p] <= Quantity(p)
                      /\ status'[p] = "FILLED" <=> filled'[p] = Quantity(p)
                      /\ status'[p] \in {"NONE", "SUBMITTED", "ACCEPTED", "OPEN"} => filled'[p] = 0
    BY DEF FillsBounded
  <2>1. CASE p = n
    BY <1>1, <2>1, QuantityPositive DEF IInv, TypeOK
  <2>2. CASE p = o
    <3>1. "FILLED" \notin Cancellable
      BY DEF Cancellable, Fillable
    <3> QED BY <1>1, <2>2, <3>1 DEF IInv, TypeOK, FillsBounded
  <2>3. CASE p # n /\ p # o
    BY <1>1, <2>3 DEF IInv, TypeOK, FillsBounded
  <2> QED BY <2>1, <2>2, <2>3
<1>14. LinksNameStops'
  BY <1>1 DEF IInv, TypeOK, LinksNameStops
<1>15. ReplayInv'
  <2>1. Compensated \subseteq Compensated'
    BY <1>11, CompensatedGrows
  <2>2. \A p \in Orders : \/ replayed'.status[p] = status'[p]
                          \/ p \in Compensated' /\ replayed'.status[p] = "CANCELED"
                             /\ status'[p] \in Cancellable
    BY <1>1, <1>7, <1>10, <2>1 DEF IInv, TypeOK, Rebuilt, ReplayInv
  <2>3. \A j \in Keys : keys'[j] \notin Compensated' => replayed'.keys[j] = keys'[j]
    BY <1>1, <1>10, <2>1 DEF IInv, ReplayInv, Remember
  <2> QED BY <1>1, <1>10, <1>11, <2>2, <2>3 DEF IInv, ReplayInv
<1>16. GroupsInv'
  <2>1. \A g \in Orders : groups[g] \subseteq replayed.groups[g] /\ replayed.groups[g] \subseteq Orders
    BY DEF IInv, TypeOK, Rebuilt, GroupsInv
  <2>2. replayed.groups[n] = {} /\ \A g \in Orders : n \notin replayed.groups[g]
    BY <1>1, <2>1 DEF IInv, GroupsInv
  <2>3. \A g \in Orders :
          /\ replayed'.groups[g] = IF g = gid THEN replayed.groups[g] \cup {n} ELSE replayed.groups[g]
          /\ groups'[g] = IF g = gid THEN {n} ELSE IF o \in groups[g] THEN {} ELSE groups[g]
    <3> DEFINE left == GroupsAfterCancel(o)
    <3>1. left[gid] = {}
      BY <1>2, <1>3, <2>1, <2>2
    <3>2. left \in [Orders -> SUBSET Orders] /\ groups' = [left EXCEPT ![gid] = @ \cup {n}]
      BY <1>1, <1>2 DEF Join
    <3>3. \A g \in Orders : left[g] = IF o \in groups[g] THEN {} ELSE groups[g]
      BY <1>2
    <3> HIDE DEF left
    <3>4. ASSUME NEW g \in Orders
          PROVE  groups'[g] = IF g = gid THEN {n} ELSE IF o \in groups[g] THEN {} ELSE groups[g]
      BY <1>3, <3>1, <3>2, <3>3
    <3>5. ASSUME NEW g \in Orders
          PROVE  replayed'.groups[g] =
                   IF g = gid THEN replayed.groups[g] \cup {n} ELSE replayed.groups[g]
      <4>1. replayed.groups \in [Orders -> SUBSET Orders]
        BY <1>7 DEF Rebuilt
      <4> QED BY <1>3, <1>10, <4>1
    <3> QED BY <3>4, <3>5
  <2>4. \A p \in Orders : /\ status'[p] \in Cancellable =>
                               p = n \/ (p # o /\ status[p] \in Cancellable)
                          /\ status[p] # "NONE" => status'[p] # "NONE"
                          /\ status'[n] # "NONE"
    <3>1. "CANCELED" \notin Cancellable
      BY DEF Cancellable, Fillable
    <3> QED BY <1>1, <3>1 DEF IInv, TypeOK
  <2>5. OneLivePerGroup'
    <3> SUFFICES ASSUME NEW g \in Orders, NEW p \in groups'[g], NEW r \in groups'[g], p # r,
                        status'[p] \in Cancellable, status'[r] \in Cancellable
                 PROVE  FALSE
      BY DEF OneLivePerGroup
    <3>1. p \in groups[g] /\ r \in groups[g]
      <4>1. CASE g = gid
        <5>1. groups'[g] = {n}
          BY <2>3, <4>1
        <5> QED BY <5>1
      <4>2. CASE g # gid
        BY <2>3, <4>2
      <4> QED BY <4>1, <4>2
    <3>2. p \in Orders /\ r \in Orders /\ p # n /\ r # n
      BY <2>1, <2>2, <3>1
    <3> QED BY <2>4, <3>1, <3>2 DEF IInv, GroupsInv, OneLivePerGroup
  <2>6. \A g \in Orders : groups'[g] \subseteq replayed'.groups[g]
    BY <2>1, <2>3
  <2>7. ASSUME NEW g \in Orders, NEW p \in replayed'.groups[g]
        PROVE  /\ status'[p] # "NONE" /\ status'[g] # "NONE"
               /\ status'[p] \in Cancellable => p \in groups'[g]
               /\ \A h \in Orders : p \in replayed'.groups[h] => g = h
    <3>1. CASE p = n
      <4>1. g = gid
        BY <2>2, <2>3, <3>1
      <4>2. gid = n \/ status[gid] # "NONE"
        BY <1>3, <2>1 DEF IInv, GroupsInv
      <4>3. status'[gid] # "NONE"
        BY <1>3, <2>4, <4>2
      <4> QED BY <2>2, <2>3, <2>4, <3>1, <4>1, <4>3
    <3>2. CASE p # n
      <4>1. p \in replayed.groups[g]
        BY <2>3, <3>2
      <4>2. /\ status[p] # "NONE" /\ status[g] # "NONE"
            /\ status[p] \in Cancellable => p \in groups[g]
            /\ \A h \in Orders : p \in replayed.groups[h] => g = h
        BY <4>1 DEF IInv, GroupsInv
      <4>3. status'[p] \in Cancellable => p \in groups'[g]
        <5>1. SUFFICES ASSUME status'[p] \in Cancellable PROVE p \in groups'[g]
          OBVIOUS
        <5>2. p # o /\ status[p] \in Cancellable
          BY <2>1, <2>4, <3>2, <4>1, <5>1
        <5>3. o \notin groups[g] /\ p \in groups[g]
          BY <1>2, <4>1, <4>2, <5>2
        <5>4. g # gid
          BY <1>3, <2>2, <4>1, <5>3
        <5> QED BY <2>3, <5>3, <5>4
      <4> QED BY <2>1, <2>3, <2>4, <3>2, <4>1, <4>2, <4>3
    <3> QED BY <3>1, <3>2
  <2> QED BY <2>5, <2>6, <2>7 DEF GroupsInv
<1>17. BookedInv'
  BY <1>1, <1>4, <1>5, <1>11, BookedKept DEF IInv
<1>18. KeysInv'
  <2>1. \A i \in BirthEntries' :
          (i \in BirthEntries /\ ledger'[i] = ledger[i] /\ i <= Len(ledger)) \/ i = Len(ledger) + 2
    BY <1>4, <1>11 DEF BirthEntries, GrowsBy
  <2>2. \A i \in BirthEntries : ledger[i].key \in Keys \cup {NoKey}
    BY BirthKeyTypes DEF IInv, TypeOK
  <2>3. \A j \in Keys : /\ keys[j] # NoOrder \/ j = k => keys'[j] # NoOrder
                        /\ replayed.keys[j] # NoOrder \/ j = k => replayed'.keys[j] # NoOrder
    BY <1>1, <1>10, OrdersAssumption DEF Remember
  <2>4. KeyAdmitsOnce'
    BY <1>5, <1>11, <2>1 DEF IInv, KeysInv, KeyAdmitsOnce, BirthEntries
  <2> QED BY <1>5, <1>11, <2>1, <2>2, <2>3, <2>4 DEF IInv, KeysInv
<1> QED BY <1>12, <1>13, <1>14, <1>15, <1>16, <1>17, <1>18 DEF IInv

(* A replacement that fails midway and is compensated.                       *)
LEMMA CompensateStep ==
  ASSUME IInv, NEW o \in Orders, NEW n \in Orders, NEW k \in Keys \cup {NoKey},
         CompensateReplace(o, n, k)
  PROVE  IInv'
<1> DEFINE e == OrderEvent("ORDER_CANCELED", o)
           f == OrderEvent("ORDER_REPLACE_COMPENSATED", o)
           m == ReplayEvent(replayed, e)
<1>1. /\ status[o] \in Cancellable
      /\ keys' = Remember(keys, k, o)
      /\ EmitBoth(e, f)
      /\ UNCHANGED <<status, filled, groups, applied, links, clockVars>>
  BY DEF CompensateReplace
<1>2. /\ e \in Entry /\ e.event = "ORDER_CANCELED" /\ e.order = o
      /\ "ORDER_CANCELED" \in StatusEvents \ (FillEvents \cup BirthEvents)
      /\ StatusAfter("ORDER_CANCELED") = "CANCELED"
  BY EntryTypes DEF OrderEvent, StatusEvents, FillEvents, BirthEvents, StatusAfter
<1>3. /\ f \in Entry /\ f.event = "ORDER_REPLACE_COMPENSATED" /\ f.order = o
      /\ "ORDER_REPLACE_COMPENSATED" \in NoteEvents \ (FillEvents \cup BirthEvents)
  BY EntryTypes DEF OrderEvent, NoteEvents, FillEvents, BirthEvents
<1>4. Known(replayed, o)
  BY <1>1 DEF IInv, ReplayInv, Known, Cancellable, Fillable
<1>5. /\ replayed \in Rebuilt /\ m = ReplayEvent(replayed, e) /\ replayed' = ReplayEvent(m, f)
      /\ replayed.ledger = ledger
  BY <1>1 DEF IInv, TypeOK, EmitBoth, ReplayInv
<1> HIDE DEF e, f, m
<1>6. /\ m \in Rebuilt
      /\ m.status = [replayed.status EXCEPT ![o] = "CANCELED"]
      /\ m.filled = replayed.filled /\ m.keys = replayed.keys /\ m.groups = replayed.groups
      /\ m.applied = replayed.applied /\ m.links = replayed.links
      /\ m.ledger = Append(ledger, e)
  BY <1>2, <1>4, <1>5, StatusReplay
<1>7. /\ replayed' \in Rebuilt
      /\ replayed'.status = [replayed.status EXCEPT ![o] = "CANCELED"]
      /\ replayed'.filled = replayed.filled /\ replayed'.keys = replayed.keys
      /\ replayed'.groups = replayed.groups
      /\ replayed'.applied = replayed.applied /\ replayed'.links = replayed.links
      /\ replayed'.ledger = Append(Append(ledger, e), f)
  <2>1. /\ replayed' \in Rebuilt
        /\ replayed'.status = m.status /\ replayed'.filled = m.filled
        /\ replayed'.keys = m.keys /\ replayed'.groups = m.groups
        /\ replayed'.applied = m.applied /\ replayed'.links = m.links
        /\ replayed'.ledger = Append(m.ledger, f)
    <3>1. f \in Entry /\ f.event \in NoteEvents
      BY <1>3
    <3>2. m \in Rebuilt /\ replayed' = ReplayEvent(m, f)
      BY <1>5, <1>6
    <3> QED BY <3>1, <3>2, NoteReplay
  <2> QED BY <1>6, <2>1
<1>8. /\ ledger' = Append(Append(ledger, e), f)
      /\ ledger' \in Seq(Entry)
      /\ GrowsBy({e, f})
      /\ ledger'[Len(ledger) + 2] = f /\ Len(ledger) + 2 \in DOMAIN ledger'
  <2>1. /\ ledger' = Append(Append(ledger, e), f)
        /\ ledger' \in Seq(Entry)
        /\ GrowsBy({e, f})
        /\ Len(ledger') = Len(ledger) + 2
        /\ ledger'[Len(ledger) + 2] = f
    BY <1>1, <1>2, <1>3, TwoEntries DEF IInv
  <2>2. Len(ledger) \in Nat
    BY DEF IInv, TypeOK
  <2> QED BY <2>1, <2>2
<1>9. Compensated \subseteq Compensated' /\ o \in Compensated'
  BY <1>3, <1>8, CompensatedGrows DEF Compensated
<1>10. TypeOK'
  <2>1. keys' \in [Keys -> Orders \cup {NoOrder}]
    BY <1>1 DEF IInv, TypeOK, Remember
  <2> QED BY <1>1, <1>7, <1>8, <2>1 DEF IInv, TypeOK, clockVars
<1>11. FillsBounded' /\ LinksNameStops'
  BY <1>1 DEF IInv, FillsBounded, LinksNameStops
<1>12. ReplayInv'
  <2>1. \A p \in Orders : \/ replayed'.status[p] = status'[p]
                          \/ p \in Compensated' /\ replayed'.status[p] = "CANCELED"
                             /\ status'[p] \in Cancellable
    BY <1>1, <1>5, <1>7, <1>9 DEF IInv, TypeOK, Rebuilt, ReplayInv
  <2>2. \A j \in Keys : keys'[j] \notin Compensated' => replayed'.keys[j] = keys'[j]
    BY <1>1, <1>7, <1>9 DEF IInv, ReplayInv, Remember
  <2> QED BY <1>1, <1>7, <1>8, <2>1, <2>2 DEF IInv, ReplayInv
<1>13. GroupsInv'
  BY <1>1, <1>7 DEF IInv, GroupsInv, OneLivePerGroup
<1>14. BookedInv'
  BY <1>1, <1>2, <1>3, <1>8, BookedKept DEF IInv
<1>15. KeysInv'
  <2>1. \A j \in Keys : keys[j] # NoOrder => keys'[j] # NoOrder
    BY <1>1, OrdersAssumption DEF Remember
  <2>2. \A d \in {e, f} : d.event \notin BirthEvents
    BY <1>2, <1>3
  <2>3. \A j \in Keys : replayed.keys[j] # NoOrder => replayed'.keys[j] # NoOrder
    BY <1>7
  <2>4. KeysInv /\ ledger \in Seq(Entry) /\ GrowsBy({e, f})
    BY <1>8 DEF IInv, TypeOK
  <2> QED BY <2>1, <2>2, <2>3, <2>4, KeysKept
<1> QED BY <1>10, <1>11, <1>12, <1>13, <1>14, <1>15 DEF IInv

(* A restart adopts the replayed state.                                      *)
LEMMA RestartStep ==
  ASSUME IInv, Restart
  PROVE  IInv'
<1>1. /\ status' = replayed.status /\ keys' = replayed.keys /\ groups' = replayed.groups
      /\ filled' = filled /\ applied' = applied /\ links' = links /\ ledger' = ledger
      /\ replayed' = replayed /\ now' = now
      /\ deadlines' = [p \in Orders |-> NoDeadline] /\ timedOut' = {}
  BY DEF IInv, ReplayInv, Restart
<1>2. \A p \in Orders : /\ \/ status'[p] = status[p]
                           \/ status'[p] = "CANCELED" /\ status[p] \in Cancellable
                        /\ status'[p] \in Cancellable => status[p] = status'[p]
  <2>1. "CANCELED" \notin Cancellable
    BY DEF Cancellable, Fillable
  <2> QED BY <1>1, <2>1 DEF IInv, ReplayInv
<1>3. TypeOK'
  BY <1>1 DEF IInv, TypeOK, Rebuilt
<1>4. FillsBounded' /\ LinksNameStops'
  <2>1. "FILLED" \notin Cancellable /\ "NONE" \notin Cancellable
    BY DEF Cancellable, Fillable
  <2> QED BY <1>1, <1>2, <2>1 DEF IInv, TypeOK, FillsBounded, LinksNameStops
<1>5. ReplayInv'
  BY <1>1 DEF IInv, ReplayInv
<1>6. GroupsInv'
  <2>1. \A g \in Orders : groups[g] \subseteq Orders /\ replayed.groups[g] \subseteq Orders
    BY DEF IInv, TypeOK, Rebuilt
  <2>2. \A p \in Orders : status[p] # "NONE" => status'[p] # "NONE"
    BY <1>2
  <2>3. OneLivePerGroup'
    BY <1>1, <1>2, <2>1 DEF IInv, GroupsInv, OneLivePerGroup
  <2> QED BY <1>1, <1>2, <2>1, <2>2, <2>3 DEF IInv, GroupsInv
<1>7. BookedInv'
  BY <1>1 DEF IInv, BookedInv, ExecutionsBookedOnce, FillEntries
<1>8. KeysInv'
  BY <1>1 DEF IInv, KeysInv, KeyAdmitsOnce, BirthEntries
<1> QED BY <1>3, <1>4, <1>5, <1>6, <1>7, <1>8 DEF IInv

-----------------------------------------------------------------------------
(* The invariant holds of every behaviour.                                   *)

LEMMA InitEstablishes == Init => IInv
<1> SUFFICES ASSUME Init PROVE IInv
  OBVIOUS
<1>1. Blank \in Rebuilt
  BY DEF Blank, Rebuilt, Lifecycle
<1>2. TypeOK
  BY <1>1 DEF Init, TypeOK, Blank, Lifecycle, NoDeadline
<1>3. FillsBounded
  BY QuantityPositive DEF Init, Blank, FillsBounded
<1>4. ReplayInv /\ LinksNameStops
  BY DEF Init, Blank, ReplayInv, LinksNameStops
<1>5. GroupsInv
  BY DEF Init, Blank, GroupsInv, OneLivePerGroup
<1>6. BookedInv /\ KeysInv
  BY DEF Init, Blank, BookedInv, ExecutionsBookedOnce, FillEntries, KeysInv, KeyAdmitsOnce,
         BirthEntries
<1> QED BY <1>2, <1>3, <1>4, <1>5, <1>6 DEF IInv

LEMMA NextPreserves == IInv /\ [Next]_vars => IInv'
<1> SUFFICES ASSUME IInv, [Next]_vars PROVE IInv'
  OBVIOUS
<1>0. /\ deadlines \in [Orders -> Nat \cup {NoDeadline}] /\ now \in Nat /\ timedOut \subseteq Orders
      /\ links \in [Symbols -> Orders \cup {NoOrder}]
  BY DEF IInv, TypeOK
<1>1. ASSUME NEW o \in Orders, NEW k \in Keys \cup {NoKey}, SubmitOrder(o, k)
      PROVE  IInv'
  BY <1>1, SubmitStep
<1>2. ASSUME NEW o \in Orders, AcceptOrder(o) \/ OpenOrder(o)
      PROVE  IInv'
  BY <1>2, AdvanceStep
<1>3. ASSUME NEW o \in Orders, NEW q \in FillQuantities,
             NEW x \in ExecutionIds \cup {NoExecution}, FillOrder(o, q, x)
      PROVE  IInv'
  BY <1>3, FillStep, RefuseStep DEF FillOrder
<1>4. ASSUME NEW o \in Orders, CancelOrder(o) /\ UNCHANGED clockVars
      PROVE  IInv'
  BY <1>0, <1>4, CancelStep DEF clockVars
<1>5. ASSUME NEW o \in Orders, NEW n \in Orders, NEW k \in Keys \cup {NoKey}, ReplaceOrder(o, n, k)
      PROVE  IInv'
  BY <1>5, ReplaceStep
<1>6. ASSUME NEW o \in Orders, NEW n \in Orders, NEW k \in Keys \cup {NoKey},
             CompensateReplace(o, n, k)
      PROVE  IInv'
  BY <1>6, CompensateStep
<1>7. ASSUME NEW o \in Orders, NEW d \in Deadlines[o], SetTimeout(o, d)
      PROVE  IInv'
  <2>1. d \in Nat
    BY OMSAssumption
  <2> QED BY <1>0, <1>7, <2>1, QuietStep DEF SetTimeout
<1>8. ASSUME NEW o \in Orders, CheckTimeout(o)
      PROVE  IInv'
  <2>1. timedOut' \subseteq Orders /\ UNCHANGED <<deadlines, now>>
    BY <1>0, <1>8 DEF CheckTimeout
  <2>2. CASE CancelOrder(o)
    BY <2>1, <2>2, CancelStep
  <2>3. CASE UNCHANGED <<bookVars, ledger, replayed>>
    BY <1>0, <2>1, <2>3, QuietStep
  <2> QED BY <1>8, <2>2, <2>3 DEF CheckTimeout
<1>9. ASSUME Tick
      PROVE  IInv'
  BY <1>0, <1>9, QuietStep DEF Tick
<1>10. ASSUME NEW s \in Symbols, NEW o \in Orders, LinkProtectiveOrder(s, o)
       PROVE  IInv'
  <2>1. "PROTECTIVE_ORDER_LINKED" \in LinkEvents
    BY DEF LinkEvents
  <2> QED BY <1>10, <2>1, LinkStep DEF LinkProtectiveOrder
<1>11. ASSUME NEW s \in Symbols, UnlinkProtectiveOrder(s)
       PROVE  IInv'
  <2>1. links[s] \in Orders /\ "PROTECTIVE_ORDER_UNLINKED" \in LinkEvents
    BY <1>0, <1>11 DEF UnlinkProtectiveOrder, LinkEvents
  <2> QED BY <1>11, <2>1, LinkStep DEF UnlinkProtectiveOrder
<1>12. ASSUME Restart
       PROVE  IInv'
  BY <1>12, RestartStep
<1>13. ASSUME UNCHANGED vars
       PROVE  IInv'
  BY <1>0, <1>13, QuietStep DEF vars, clockVars
<1> QED BY <1>1, <1>2, <1>3, <1>4, <1>5, <1>6, <1>7, <1>8, <1>9, <1>10, <1>11, <1>12, <1>13
        DEF Next

(* The inductive invariant of the order management system.                   *)
THEOREM Invariance == Spec => []IInv
BY InitEstablishes, NextPreserves, PTL DEF Spec

(* Every state of every behaviour is well typed.                             *)
THEOREM TypeCorrect == Spec => []TypeOK
<1>1. IInv => TypeOK
  BY DEF IInv
<1> QED BY <1>1, Invariance, PTL

(* No order books more than it asked for, and FILLED means all of it.        *)
THEOREM FillsStayBounded == Spec => []FillsBounded
<1>1. IInv => FillsBounded
  BY DEF IInv
<1> QED BY <1>1, Invariance, PTL

(* No execution is booked twice, restarts included.                          *)
THEOREM NoExecutionTwice == Spec => []ExecutionsBookedOnce
<1>1. IInv => ExecutionsBookedOnce
  BY DEF IInv, BookedInv
<1> QED BY <1>1, Invariance, PTL

(* An idempotency key admits one submission, for good.                       *)
THEOREM KeysAdmitOnce == Spec => []KeyAdmitsOnce
<1>1. IInv => KeyAdmitsOnce
  BY DEF IInv, KeysInv
<1> QED BY <1>1, Invariance, PTL

(* Orders of one OCA group never work side by side.                          *)
THEOREM GroupsHaveOneLiveOrder == Spec => []OneLivePerGroup
<1>1. IInv => OneLivePerGroup
  BY DEF IInv, GroupsInv
<1> QED BY <1>1, Invariance, PTL

(* A protective link always names a known stop-loss of its symbol.           *)
THEOREM LinksAreStops == Spec => []LinksNameStops
<1>1. IInv => LinksNameStops
  BY DEF IInv
<1> QED BY <1>1, Invariance, PTL
-----------------------------------------------------------------------------
(* What the actions do to the book, in terms of the inductive invariant.     *)

(* A booked fill: fresh identity, working order, within what remains.        *)
LEMMA BookedFill ==
  ASSUME IInv, NEW o \in Orders, NEW q \in FillQuantities,
         NEW x \in ExecutionIds \cup {NoExecution}, ApplyFill(o, q, x)
  PROVE  /\ status[o] \in Fillable
         /\ q \in 1..Quantity(o) /\ filled[o] + q <= Quantity(o)
         /\ Identity(o, q, x) \in Identities \ applied
         /\ filled' = [filled EXCEPT ![o] = filled[o] + q]
         /\ applied' = applied \cup {Identity(o, q, x)}
         /\ status' = [status EXCEPT ![o] = IF filled[o] + q = Quantity(o)
                                            THEN "FILLED" ELSE "PARTIALLY_FILLED"]
<1>1. Identity(o, q, x) \in Identities
  BY DEF Identity, Identities
<1>2. q \in Nat /\ filled[o] \in Nat /\ Quantity(o) \in Nat
  BY OrdersAssumption, QuantityPositive DEF IInv, TypeOK
<1>3. /\ Identity(o, q, x) \notin applied /\ status[o] \in Fillable
      /\ q # 0 /\ ~(q > Remaining(o))
      /\ FillOutcome(o, q, x) = "ORDER_FILLED" <=> q = Remaining(o)
  BY DEF ApplyFill, FillOutcome, FillEvents
<1>4. /\ FillOutcome(o, q, x) = "ORDER_FILLED" <=> filled[o] + q = Quantity(o)
      /\ filled[o] + q <= Quantity(o) /\ q \in 1..Quantity(o)
  BY <1>2, <1>3 DEF Remaining
<1> QED BY <1>1, <1>3, <1>4 DEF ApplyFill

(* A restart withdraws the orders whose replacement was compensated, and     *)
(* changes nothing else in the book.                                         *)
LEMMA RestartedBook ==
  ASSUME IInv, Restart
  PROVE  /\ filled' = filled /\ applied' = applied /\ ledger' = ledger
         /\ \A p \in Orders : \/ status'[p] = status[p]
                              \/ status'[p] = "CANCELED" /\ status[p] \in Cancellable
BY DEF IInv, ReplayInv, Restart

-----------------------------------------------------------------------------
(* Action properties.                                                        *)

(* No step reopens a closed order or books a fill on it.                     *)
LEMMA ClosedStep ==
  ASSUME IInv, [Next]_vars, NEW p \in Orders, status[p] \in Terminal
  PROVE  status'[p] = status[p] /\ filled'[p] = filled[p]
<1>0. TypeOK /\ \A o \in Orders : status[o] \in Cancellable \cup {"NONE"} => o # p
  BY DEF IInv, Terminal, Cancellable, Fillable
<1>1. ASSUME NEW o \in Orders, NEW k \in Keys \cup {NoKey}, SubmitOrder(o, k)
      PROVE  status'[p] = status[p] /\ filled'[p] = filled[p]
  BY <1>0, <1>1 DEF SubmitOrder, TypeOK
<1>2. ASSUME NEW o \in Orders, AcceptOrder(o) \/ OpenOrder(o)
      PROVE  status'[p] = status[p] /\ filled'[p] = filled[p]
  BY <1>0, <1>2 DEF AcceptOrder, OpenOrder, Advance, TypeOK, Cancellable
<1>3. ASSUME NEW o \in Orders, NEW q \in FillQuantities,
             NEW x \in ExecutionIds \cup {NoExecution}, FillOrder(o, q, x)
      PROVE  status'[p] = status[p] /\ filled'[p] = filled[p]
  <2>1. CASE ApplyFill(o, q, x)
    BY <1>0, <2>1, BookedFill DEF TypeOK, Cancellable
  <2>2. CASE RefuseFill(o, q, x)
    BY <2>2 DEF RefuseFill, bookVars
  <2> QED BY <1>3, <2>1, <2>2 DEF FillOrder
<1>4. ASSUME NEW o \in Orders, CancelOrder(o)
      PROVE  status'[p] = status[p] /\ filled'[p] = filled[p]
  BY <1>0, <1>4, CancelEffect DEF CancelOrder, TypeOK
<1>5. ASSUME NEW o \in Orders, NEW n \in Orders, NEW k \in Keys \cup {NoKey}, ReplaceOrder(o, n, k)
      PROVE  status'[p] = status[p] /\ filled'[p] = filled[p]
  BY <1>0, <1>5, CancelEffect DEF ReplaceOrder, TypeOK
<1>6. ASSUME UNCHANGED <<status, filled>>
      PROVE  status'[p] = status[p] /\ filled'[p] = filled[p]
  BY <1>6
<1>7. ASSUME Restart
      PROVE  status'[p] = status[p] /\ filled'[p] = filled[p]
  BY <1>0, <1>7, RestartedBook
<1> QED BY <1>1, <1>2, <1>3, <1>4, <1>5, <1>6, <1>7
        DEF Next, CompensateReplace, SetTimeout, CheckTimeout, Tick, LinkProtectiveOrder,
            UnlinkProtectiveOrder, vars, bookVars

(* A closed order is never reopened and never books another fill.            *)
THEOREM ClosedForGood == Spec => ClosedStaysClosed
<1>1. IInv /\ [Next]_vars =>
        [\A o \in Orders : status[o] \in Terminal =>
           status'[o] = status[o] /\ filled'[o] = filled[o]]_vars
  BY ClosedStep
<1> QED BY <1>1, Invariance, PTL DEF Spec, ClosedStaysClosed

(* Appending keeps what was there.                                           *)
LEMMA AppendKeeps ==
  ASSUME NEW l \in Seq(Entry), NEW e \in Entry, NEW f \in Entry
  PROVE  /\ Len(l) <= Len(Append(l, e)) /\ SubSeq(Append(l, e), 1, Len(l)) = l
         /\ Len(l) <= Len(Append(Append(l, e), f))
         /\ SubSeq(Append(Append(l, e), f), 1, Len(l)) = l
  OBVIOUS

\* The quantities of the orders grow by what entry e books.
Books(e) == \A o \in Orders : filled'[o] = filled[o] + QuantityOf(e, o)

\* An entry that is no fill.
Unbooked == {e \in Entry : e.event \notin FillEvents}

(* Every step leaves the ledger alone, or appends one entry that says what   *)
(* the step booked, or two entries that book nothing; the replay follows.    *)
LEMMA LedgerStep ==
  ASSUME IInv, [Next]_vars
  PROVE  \/ UNCHANGED <<ledger, replayed, filled>>
         \/ \E e \in Entry : Emit(e) /\ Books(e)
         \/ \E e, f \in Unbooked : EmitBoth(e, f) /\ UNCHANGED filled
<1> DEFINE Grown == \/ UNCHANGED <<ledger, replayed, filled>>
                    \/ \E e \in Entry : Emit(e) /\ Books(e)
                    \/ \E e, f \in Unbooked : EmitBoth(e, f) /\ UNCHANGED filled
<1>0. /\ {"ORDER_SUBMITTED", "ORDER_REPLACED"} \subseteq BirthEvents \ FillEvents
      /\ {"ORDER_ACCEPTED", "ORDER_OPEN", "ORDER_CANCELED"} \subseteq StatusEvents \ FillEvents
      /\ "ORDER_REPLACE_COMPENSATED" \in NoteEvents \ FillEvents
      /\ {"PROTECTIVE_ORDER_LINKED", "PROTECTIVE_ORDER_UNLINKED"} \subseteq LinkEvents \ FillEvents
      /\ filled \in [Orders -> Nat]
  BY DEF BirthEvents, StatusEvents, NoteEvents, LinkEvents, FillEvents, IInv, TypeOK
<1>1. ASSUME NEW e \in Entry, Emit(e), Books(e) PROVE Grown
  BY <1>1
<1>2. ASSUME NEW e \in Unbooked, Emit(e), filled' = filled PROVE Grown
  <2>1. Books(e)
    BY <1>0, <1>2 DEF Books, QuantityOf, Unbooked
  <2> QED BY <1>1, <1>2, <2>1 DEF Unbooked
<1>3. ASSUME NEW e \in Unbooked, NEW f \in Unbooked, EmitBoth(e, f), filled' = filled PROVE Grown
  BY <1>3
<1>4. ASSUME UNCHANGED <<ledger, replayed, filled>> PROVE Grown
  BY <1>4
<1> HIDE DEF Grown
<1>5. ASSUME NEW o \in Orders
      PROVE  /\ \A kind \in BirthEvents \ FillEvents, k \in Keys \cup {NoKey}, g \in Orders :
                  BirthEvent(kind, o, k, g) \in Unbooked
             /\ \A kind \in (StatusEvents \cup NoteEvents) \ FillEvents :
                  OrderEvent(kind, o) \in Unbooked
             /\ \A kind \in LinkEvents \ FillEvents, s \in Symbols :
                  LinkEvent(kind, s, o) \in Unbooked
  BY EntryTypes DEF Unbooked, BirthEvent, OrderEvent, LinkEvent
<1>6. ASSUME NEW o \in Orders, NEW k \in Keys \cup {NoKey}, SubmitOrder(o, k)
      PROVE  Grown
  <2>1. filled' = filled
    BY <1>0, <1>6 DEF SubmitOrder, IInv, FillsBounded
  <2> QED BY <1>0, <1>2, <1>5, <1>6, <2>1 DEF SubmitOrder
<1>7. ASSUME NEW o \in Orders, AcceptOrder(o) \/ OpenOrder(o)
      PROVE  Grown
  BY <1>0, <1>2, <1>5, <1>7 DEF AcceptOrder, OpenOrder, Advance
<1>8. ASSUME NEW o \in Orders, NEW q \in FillQuantities,
             NEW x \in ExecutionIds \cup {NoExecution}, FillOrder(o, q, x)
      PROVE  Grown
  <2>1. CASE ApplyFill(o, q, x)
    <3> DEFINE kind == FillOutcome(o, q, x)
               e == FillEvent(kind, o, q, filled[o] + q, Identity(o, q, x))
    <3>1. q \in Nat /\ filled[o] + q \in Nat /\ Identity(o, q, x) \in Identities
      BY <1>0, OrdersAssumption DEF Identity, Identities
    <3>2. kind \in FillEvents /\ Emit(e) /\ filled' = [filled EXCEPT ![o] = filled[o] + q]
      BY <2>1 DEF ApplyFill
    <3>3. e \in Entry /\ e.event = kind /\ e.order = o /\ e.quantity = q
      BY <3>1, <3>2, EntryTypes DEF FillEvent
    <3> HIDE DEF kind, e
    <3>4. Books(e)
      BY <1>0, <3>2, <3>3 DEF Books, QuantityOf
    <3> QED BY <1>1, <3>2, <3>3, <3>4
  <2>2. CASE RefuseFill(o, q, x)
    <3>1. FillOutcome(o, q, x) \in NoteEvents \ FillEvents
      BY <2>2 DEF RefuseFill, FillOutcome, FillEvents, NoteEvents, FillIncidents
    <3> QED BY <1>2, <1>5, <2>2, <3>1 DEF RefuseFill, bookVars
  <2> QED BY <1>8, <2>1, <2>2 DEF FillOrder
<1>9. ASSUME NEW o \in Orders, CancelOrder(o)
      PROVE  Grown
  BY <1>0, <1>2, <1>5, <1>9 DEF CancelOrder
<1>10. ASSUME NEW o \in Orders, NEW n \in Orders, NEW k \in Keys \cup {NoKey}, ReplaceOrder(o, n, k)
       PROVE  Grown
  <2>1. GroupFor(o, n) \in Orders
    BY DEF GroupFor, GroupsOf
  <2>2. filled' = filled
    BY <1>0, <1>10 DEF ReplaceOrder, IInv, FillsBounded
  <2> QED BY <1>0, <1>3, <1>5, <1>10, <2>1, <2>2 DEF ReplaceOrder
<1>11. ASSUME NEW o \in Orders, NEW n \in Orders, NEW k \in Keys \cup {NoKey},
              CompensateReplace(o, n, k)
       PROVE  Grown
  BY <1>0, <1>3, <1>5, <1>11 DEF CompensateReplace
<1>12. ASSUME NEW s \in Symbols, NEW o \in Orders, LinkProtectiveOrder(s, o)
       PROVE  Grown
  BY <1>0, <1>2, <1>5, <1>12 DEF LinkProtectiveOrder
<1>13. ASSUME NEW s \in Symbols, UnlinkProtectiveOrder(s)
       PROVE  Grown
  <2>1. links[s] \in Orders
    BY <1>13 DEF UnlinkProtectiveOrder, IInv, TypeOK
  <2> QED BY <1>0, <1>2, <1>5, <1>13, <2>1 DEF UnlinkProtectiveOrder
<1>14. ASSUME Restart
       PROVE  Grown
  BY <1>4, <1>14, RestartedBook DEF Restart
<1>15. Grown
  BY <1>4, <1>6, <1>7, <1>8, <1>9, <1>10, <1>11, <1>12, <1>13, <1>14
     DEF Next, SetTimeout, CheckTimeout, Tick, vars, bookVars
<1> QED BY <1>15 DEF Grown

(* The ledger only ever grows at its end.                                    *)
THEOREM LedgerOnlyGrows == Spec => LedgerIsAppendOnly
<1>1. IInv /\ [Next]_vars =>
        [/\ Len(ledger) <= Len(ledger')
         /\ SubSeq(ledger', 1, Len(ledger)) = ledger]_vars
  <2> SUFFICES ASSUME IInv, [Next]_vars
               PROVE  /\ Len(ledger) <= Len(ledger')
                      /\ SubSeq(ledger', 1, Len(ledger)) = ledger
    OBVIOUS
  <2>1. ledger \in Seq(Entry)
    BY DEF IInv, TypeOK
  <2>2. CASE ledger' = ledger
    BY <2>1, <2>2, SubSeqFull
  <2>3. CASE \E e \in Entry : Emit(e)
    BY <2>1, <2>3, AppendKeeps DEF Emit
  <2>4. CASE \E e, f \in Entry : EmitBoth(e, f)
    BY <2>1, <2>4, AppendKeeps DEF EmitBoth
  <2> QED BY <2>2, <2>3, <2>4, LedgerStep DEF Unbooked
<1> QED BY <1>1, Invariance, PTL DEF Spec, LedgerIsAppendOnly

(* What ties the history variable to the ledger.                             *)
ReplayedIsRebuild == replayed = Rebuild(ledger)

(* Restart adopts what rebuild_from_ledger makes of the ledger: the replay   *)
(* kept beside the ledger, entry by entry, is the replay of the whole.       *)
LEMMA ReplayIsRebuild == Spec => []ReplayedIsRebuild
<1>1. Init => ReplayedIsRebuild
  BY RebuildNone DEF Init, ReplayedIsRebuild
<1>2. IInv /\ ReplayedIsRebuild /\ [Next]_vars => ReplayedIsRebuild'
  <2> SUFFICES ASSUME IInv, ReplayedIsRebuild, [Next]_vars PROVE ReplayedIsRebuild'
    OBVIOUS
  <2>1. ledger \in Seq(Entry)
    BY DEF IInv, TypeOK
  <2>2. CASE UNCHANGED <<ledger, replayed, filled>>
    BY <2>2 DEF ReplayedIsRebuild
  <2>3. ASSUME NEW e \in Entry, Emit(e) PROVE ReplayedIsRebuild'
    BY <2>1, <2>3, RebuildOneMore DEF ReplayedIsRebuild, Emit
  <2>4. ASSUME NEW e \in Entry, NEW f \in Entry, EmitBoth(e, f) PROVE ReplayedIsRebuild'
    <3>1. Append(ledger, e) \in Seq(Entry)
      BY <2>1
    <3>2. Rebuild(Append(ledger, e)) = ReplayEvent(replayed, e)
      BY <2>1, RebuildOneMore DEF ReplayedIsRebuild
    <3>3. Rebuild(Append(Append(ledger, e), f)) = ReplayEvent(ReplayEvent(replayed, e), f)
      BY <3>1, <3>2, RebuildOneMore
    <3> QED BY <2>4, <3>3 DEF ReplayedIsRebuild, EmitBoth
  <2> QED BY <2>2, <2>3, <2>4, LedgerStep DEF Unbooked
<1> QED BY <1>1, <1>2, Invariance, PTL DEF Spec

(* A rebuild from the ledger restores what was lost: all of the fills,       *)
(* identities, links and entries, the status of every order but those whose  *)
(* replacement was compensated (they come back canceled), the keys that did  *)
(* not fall to them, and of every group at least the members it had, the     *)
(* others being closed.                                                      *)
THEOREM RebuildRestores == Spec => []ReplayRestoresState
<1>1. IInv /\ ReplayedIsRebuild => ReplayRestoresState
  BY DEF IInv, ReplayInv, GroupsInv, ReplayedIsRebuild, ReplayRestoresState
<1> QED BY <1>1, Invariance, ReplayIsRebuild, PTL

(* The fills of the ledger add up to the quantity every order reports.       *)
THEOREM LedgerAccounts == Spec => []LedgerAccountsForFills
<1>1. Init => LedgerAccountsForFills
  BY BookedNone DEF Init, Blank, LedgerAccountsForFills
<1>2. IInv /\ LedgerAccountsForFills /\ [Next]_vars => LedgerAccountsForFills'
  <2> SUFFICES ASSUME IInv, LedgerAccountsForFills, [Next]_vars, NEW o \in Orders
               PROVE  filled'[o] = BookedBy(ledger', o)
    BY DEF LedgerAccountsForFills
  <2>1. ledger \in Seq(Entry) /\ filled[o] \in Nat /\ filled[o] = BookedBy(ledger, o)
    BY DEF IInv, TypeOK, LedgerAccountsForFills
  <2>2. CASE UNCHANGED <<ledger, replayed, filled>>
    BY <2>1, <2>2
  <2>3. ASSUME NEW e \in Entry, Emit(e), Books(e) PROVE filled'[o] = BookedBy(ledger', o)
    BY <2>1, <2>3, BookedOneMore DEF Emit, Books
  <2>4. ASSUME NEW e \in Unbooked, NEW f \in Unbooked, EmitBoth(e, f), UNCHANGED filled
        PROVE  filled'[o] = BookedBy(ledger', o)
    <3>1. e \in Entry /\ f \in Entry /\ QuantityOf(e, o) = 0 /\ QuantityOf(f, o) = 0
      BY DEF Unbooked, QuantityOf
    <3>2. Append(ledger, e) \in Seq(Entry)
      BY <2>1, <3>1
    <3>3. BookedBy(Append(ledger, e), o) = filled[o]
      BY <2>1, <3>1, BookedOneMore
    <3>4. BookedBy(Append(Append(ledger, e), f), o) = filled[o] + QuantityOf(f, o)
      BY <3>1, <3>2, <3>3, BookedOneMore
    <3> QED BY <2>1, <2>4, <3>1, <3>4 DEF EmitBoth
  <2> QED BY <2>2, <2>3, <2>4, LedgerStep
<1> QED BY <1>1, <1>2, Invariance, PTL DEF Spec

-----------------------------------------------------------------------------
(* OMS implements ExecutionBook.                                             *)

(* The phases of the statuses.                                               *)
LEMMA Phases ==
  /\ PhaseOf("NONE") = "idle" /\ PhaseOf("FILLED") = "complete"
  /\ PhaseOf("CANCELED") = "withdrawn"
  /\ \A s \in Cancellable : PhaseOf(s) = "working"
BY DEF PhaseOf, Terminal, Cancellable, Fillable

(* A step that leaves phases, quantities and identities alone is no step of  *)
(* the book.                                                                 *)
LEMMA BookIdle ==
  ASSUME \A p \in Orders : PhaseOf(status'[p]) = PhaseOf(status[p]), filled' = filled,
         applied' = applied
  PROVE  UNCHANGED Book!bookVars
BY DEF Book!bookVars, Phase

(* Every step of OMS is a step of the book, or leaves the book alone.        *)
LEMMA StepImplementsBook ==
  ASSUME IInv, [Next]_vars
  PROVE  [Book!BookNext]_(Book!bookVars)
<1> DEFINE Done == [Book!BookNext]_(Book!bookVars)
<1>0. /\ TypeOK
      /\ {"SUBMITTED", "ACCEPTED", "OPEN", "PARTIALLY_FILLED"} \subseteq Cancellable
      /\ "NONE" \notin Cancellable
      /\ \A o \in Orders : Phase[o] = PhaseOf(status[o])
  BY DEF IInv, Cancellable, Fillable, Phase
<1>1. ASSUME UNCHANGED <<status, filled, applied>> PROVE Done
  BY <1>1, BookIdle
<1>2. ASSUME NEW o \in Orders, NEW k \in Keys \cup {NoKey}, SubmitOrder(o, k)
      PROVE  Done
  <2>1. /\ status[o] = "NONE" /\ filled[o] = 0 /\ applied' = applied
        /\ status' = [status EXCEPT ![o] = "SUBMITTED"]
        /\ filled' = [filled EXCEPT ![o] = 0]
    BY <1>2 DEF SubmitOrder, IInv, FillsBounded
  <2>2. filled' = filled
    BY <1>0, <2>1 DEF TypeOK
  <2>3. Phase' = [Phase EXCEPT ![o] = "working"]
    BY <1>0, <2>1, Phases DEF TypeOK, Phase
  <2>4. Book!Place(o)
    BY <1>0, <2>1, <2>2, <2>3, Phases DEF Book!Place
  <2> QED BY <2>4 DEF Book!BookNext
<1>3. ASSUME NEW o \in Orders, AcceptOrder(o) \/ OpenOrder(o)
      PROVE  Done
  <2>1. /\ status[o] \in Cancellable /\ filled' = filled /\ applied' = applied
        /\ \E to \in Cancellable : status' = [status EXCEPT ![o] = to]
    BY <1>0, <1>3 DEF AcceptOrder, OpenOrder, Advance
  <2>2. \A p \in Orders : PhaseOf(status'[p]) = PhaseOf(status[p])
    BY <1>0, <2>1, Phases DEF TypeOK
  <2> QED BY <2>1, <2>2, BookIdle
<1>4. ASSUME NEW o \in Orders, NEW q \in FillQuantities,
             NEW x \in ExecutionIds \cup {NoExecution}, FillOrder(o, q, x)
      PROVE  Done
  <2>1. CASE ApplyFill(o, q, x)
    <3> DEFINE i == Identity(o, q, x)
               asked == [p \in Orders |-> Quantity(p)]
    <3>1. /\ status[o] \in Cancellable
          /\ q \in 1..Quantity(o) /\ filled[o] + q <= Quantity(o)
          /\ i \in Identities \ applied
          /\ filled' = [filled EXCEPT ![o] = filled[o] + q]
          /\ applied' = applied \cup {i}
          /\ status' = [status EXCEPT ![o] = IF filled[o] + q = Quantity(o)
                                             THEN "FILLED" ELSE "PARTIALLY_FILLED"]
      BY <2>1, BookedFill DEF Cancellable
    <3> HIDE DEF i
    <3>2. Phase' = [Phase EXCEPT ![o] = IF filled[o] + q = Quantity(o) THEN "complete" ELSE @]
      BY <1>0, <3>1, Phases DEF TypeOK, Phase
    <3>3. Book!Execute(o, q, i)
      BY <1>0, <3>1, <3>2, Phases DEF Book!Execute
    <3>4. i \in Identities /\ q \in 1..asked[o]
      BY <3>1
    <3> QED BY <3>3, <3>4 DEF Book!BookNext
  <2>2. CASE RefuseFill(o, q, x)
    BY <1>1, <2>2 DEF RefuseFill, bookVars
  <2> QED BY <1>4, <2>1, <2>2 DEF FillOrder
<1>5. ASSUME NEW o \in Orders, CancelOrder(o)
      PROVE  Done
  <2>1. /\ status[o] \in Cancellable /\ filled' = filled /\ applied' = applied
        /\ status' = [status EXCEPT ![o] = "CANCELED"]
    BY <1>5, CancelEffect DEF CancelOrder
  <2>2. Phase' = [p \in Orders |-> IF p \in {o} THEN "withdrawn" ELSE Phase[p]]
    BY <1>0, <2>1, Phases DEF TypeOK, Phase
  <2>3. Book!Withdraw({o})
    BY <1>0, <2>1, <2>2, Phases DEF Book!Withdraw
  <2> QED BY <2>3 DEF Book!BookNext
<1>6. ASSUME NEW o \in Orders, NEW n \in Orders, NEW k \in Keys \cup {NoKey}, ReplaceOrder(o, n, k)
      PROVE  Done
  <2>1. /\ status[n] = "NONE" /\ status[o] \in Cancellable /\ filled[n] = 0
        /\ applied' = applied
        /\ status' = [status EXCEPT ![o] = "CANCELED", ![n] = "SUBMITTED"]
        /\ filled' = [filled EXCEPT ![n] = 0]
    BY <1>6, CancelEffect DEF ReplaceOrder, IInv, FillsBounded
  <2>2. filled' = filled
    BY <1>0, <2>1 DEF TypeOK
  <2>3. Phase' = [Phase EXCEPT ![o] = "withdrawn", ![n] = "working"]
    BY <1>0, <2>1, Phases DEF TypeOK, Phase
  <2>4. Book!Substitute(o, n)
    BY <1>0, <2>1, <2>2, <2>3, Phases DEF Book!Substitute
  <2> QED BY <2>4 DEF Book!BookNext
<1>7. ASSUME Restart
      PROVE  Done
  <2> DEFINE gone == {p \in Orders : status'[p] # status[p]}
  <2>1. /\ filled' = filled /\ applied' = applied
        /\ \A p \in gone : status'[p] = "CANCELED" /\ status[p] \in Cancellable
        /\ \A p \in Orders \ gone : status'[p] = status[p]
    BY <1>7, RestartedBook
  <2>2. gone \subseteq Orders
    OBVIOUS
  <2> HIDE DEF gone
  <2>3. Phase' = [p \in Orders |-> IF p \in gone THEN "withdrawn" ELSE Phase[p]]
    BY <1>0, <2>1, <2>2, Phases DEF Phase
  <2>4. Book!Withdraw(gone)
    BY <1>0, <2>1, <2>2, <2>3, Phases DEF Book!Withdraw
  <2> QED BY <2>2, <2>4 DEF Book!BookNext
<1> HIDE DEF Done
<1>8. Done
  BY <1>1, <1>2, <1>3, <1>4, <1>5, <1>6, <1>7
     DEF Next, CompensateReplace, SetTimeout, CheckTimeout, Tick, LinkProtectiveOrder,
         UnlinkProtectiveOrder, vars, bookVars
<1> QED BY <1>8 DEF Done

(* OMS implements the execution book.                                        *)
THEOREM ImplementsBook == Spec => RefinesExecutionBook
<1>1. Init => Book!BookInit
  BY Phases DEF Init, Blank, Book!BookInit, Phase
<1>2. IInv /\ [Next]_vars => [Book!BookNext]_(Book!bookVars)
  BY StepImplementsBook
<1> QED BY <1>1, <1>2, Invariance, PTL DEF Spec, RefinesExecutionBook, Book!BookSpec
=============================================================================
