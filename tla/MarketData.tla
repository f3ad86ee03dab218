----------------------------- MODULE MarketData ------------------------------
(***************************************************************************)
(* Daily bars of one symbol: the versioned Parquet store (data/__init__.py) *)
(* and what ingestion makes of them for a decision time                     *)
(* (data/ingestion/daily_bar_ingestion.py).                                 *)
(*                                                                         *)
(* Days are numbered.  A bar's close is what the market quotes for a share  *)
(* whose original is worth `worth`: less the dividends paid since, divided  *)
(* by the splits since; prices are fractions.  The other prices and the     *)
(* volume follow it.                                                        *)
(***************************************************************************)
EXTENDS Integers, Sequences, FiniteSets, FiniteSetsExt, SequencesExt

CONSTANTS
  LastDay,
  YearOf,      \* day |-> year, the partition of the store
  Versions,    \* [name, key, worth]: the name as written, its numbers, the value reported
  Markets,     \* sequences of corporate actions [kind, ex, amount] that may happen
  MaxFiles

Days == 1 .. LastDay

ASSUME MarketDataAssumption ==
  /\ LastDay \in Nat \ {0} /\ MaxFiles \in Nat /\ IsFiniteSet(Versions)
  /\ DOMAIN YearOf = Days /\ \A d, e \in Days : d <= e => YearOf[d] <= YearOf[e]
  /\ \A v \in Versions : v.worth \in Int
  /\ Markets \subseteq Seq([kind : {"split", "dividend"}, ex : Int, amount : Nat \ {0}])

----------------------------------------------------------------------------
\* Products and sums of the values of f, whose domain are numbers up to n.

ProductOf(f, n) ==
  LET upTo[k \in 0 .. n] == IF k = 0 THEN 1 ELSE upTo[k - 1] * (IF k \in DOMAIN f THEN f[k] ELSE 1)
  IN  upTo[n]

SumOf(f, n) ==
  LET upTo[k \in 0 .. n] == IF k = 0 THEN 0 ELSE upTo[k - 1] + (IF k \in DOMAIN f THEN f[k] ELSE 0)
  IN  upTo[n]

----------------------------------------------------------------------------
\* Corporate actions, as sets of places in the list of a market.

Splits(actions, set) == {a \in set : actions[a].kind = "split"}
Dividends(actions, set) == {a \in set : actions[a].kind = "dividend"}
Until(actions, day) == {a \in DOMAIN actions : actions[a].ex <= day}

Ratio(actions, set) == ProductOf([a \in Splits(actions, set) |-> actions[a].amount], Len(actions))

\* external: what the market quotes at the close of a day.
Paid(actions, set) ==
  SumOf([d \in Dividends(actions, set) |-> actions[d].amount * Ratio(actions, Until(actions, actions[d].ex))],
        Len(actions))
Quote(actions, worth, day) ==
  <<worth - Paid(actions, Until(actions, day)), Ratio(actions, Until(actions, day))>>

\* Prices are positive: the constructor of Bar takes no others.
ASSUME PricesArePositive ==
  \A actions \in Markets, v \in Versions, day \in Days : Quote(actions, v.worth, day)[1] > 0

VARIABLES
  files,   \* [year, version, rows] in the order of their part numbers; rows: [stamp, available, close]
  today,
  market,  \* external: the corporate actions of the symbol
  known    \* external: the places of those the action provider has

marketData == <<files, today, market, known>>

MarketDataInit == files = <<>> /\ today = 1 /\ market \in Markets /\ known = {}

----------------------------------------------------------------------------
\* The store

\* Under one version name a day is stored once; names are compared as strings.
Stored(version, days) ==
  \E i \in DOMAIN files : files[i].version.name = version.name /\ \E r \in files[i].rows : r.stamp \in days

\* write_bars: one file for each year, in their order, until the first year that
\* has a day stored already; the files of the years before it stay.
WriteBars == \E days \in SUBSET (1 .. today) \ {{}}, version \in Versions, late \in BOOLEAN :
  LET years == {YearOf[d] : d \in days}
      group(y) == {d \in days : YearOf[d] = y}
      accepted == {y \in years : \A z \in years : z <= y => ~Stored(version, group(z))}
      row(d) == [stamp |-> d, available |-> IF late THEN today ELSE d, close |-> Quote(market, version.worth, d)]
      file(y) == [year |-> y, version |-> version, rows |-> {row(d) : d \in group(y)}]
  IN  /\ Len(files) + Cardinality(years) <= MaxFiles
      /\ files' = files \o [n \in 1 .. Cardinality(accepted) |-> file(SetToSortSeq(accepted, <)[n])]
      /\ UNCHANGED <<today, market, known>>

NextDay == today < LastDay /\ today' = today + 1 /\ UNCHANGED <<files, market, known>>

Announce == \E a \in DOMAIN market \ known : known' = known \union {a} /\ UNCHANGED <<files, today, market>>

MarketDataNext == WriteBars \/ NextDay \/ Announce

----------------------------------------------------------------------------
\* Reading

\* Rows of the range that were available by the time of the decision.
Candidates(from, to, asOf) ==
  UNION {{[file |-> i, key |-> files[i].version.key, worth |-> files[i].version.worth, row |-> r] :
            r \in {x \in files[i].rows : from <= x.stamp /\ x.stamp <= to /\ x.available <= asOf}} :
         i \in DOMAIN files}

Supersedes(c, d) ==
  c.row.stamp = d.row.stamp /\ (c.key > d.key \/ (c.key = d.key /\ c.file < d.file))

\* Mutant: revisions are resolved before availability is looked at.
GetBarsOfAllRevisions(from, to, asOf) ==
  LET all == Candidates(from, to, LastDay)
  IN  {c \in all : c.row.available <= asOf /\ ~\E d \in all : Supersedes(d, c)}

\* get_bars: of the rows available, for each day the one of the highest version,
\* and among equal versions the one of the file that comes first.
GetBars(from, to, asOf) ==
  LET available == Candidates(from, to, asOf)
  IN  {c \in available : ~\E d \in available : Supersedes(d, c)}

\* get_superseded
GetSuperseded(from, to, asOf) == Candidates(from, to, asOf) \ GetBars(from, to, asOf)

\* Mutant: the bar of the ex-date is adjusted too.
BeforeOrOn(day, a) == day <= market[a].ex
\* A bar is adjusted for what went ex after it.
Before(day, a) == day < market[a].ex

\* apply_split_adjustment and apply_dividend_adjustment: a fraction.  A dividend is
\* taken off the price the splits left, however many splits came after it.
Adjusted(row, actions) ==
  LET ahead == {a \in actions : Before(row.stamp, a)}
      ratio == Ratio(market, ahead)
      cut(d) == market[d].amount * ratio * row.close[2]
      taken == {d \in Dividends(market, ahead) : cut(d) < row.close[1]}
      left == ProductOf([d \in taken |-> row.close[1] - cut(d)], Len(market))
      whole == ProductOf([d \in taken |-> row.close[1]], Len(market))
  IN  <<row.close[1] * left, row.close[2] * ratio * whole>>

\* The actions ingest_symbol asks the provider for, and applies.
InForce(from, to, asOf) ==
  {a \in known : from <= market[a].ex /\ market[a].ex <= to /\ market[a].ex <= asOf}

\* ingest_symbol
Ingested(from, to, asOf) ==
  {[bar |-> c, close |-> Adjusted(c.row, InForce(from, to, asOf))] : c \in GetBars(from, to, asOf)}

----------------------------------------------------------------------------
\* Properties

\* What a decision was given for a time, raw or adjusted, is what it will be given
\* again: revisions, later bars and later corporate actions, whatever their order,
\* change nothing for the times before they were available or went ex.
HistoryIsFrozen ==
  [][\A from, asOf \in Days : \A to \in from .. LastDay :
       /\ \A i \in DOMAIN files' \ DOMAIN files : \A r \in files'[i].rows : r.available > asOf
       /\ \A a \in known' \ known : market[a].ex > asOf
       => /\ Ingested(from, to, asOf)' = Ingested(from, to, asOf)
          /\ GetSuperseded(from, to, asOf)' = GetSuperseded(from, to, asOf)]_marketData

\* The bars of one ingested series are on one scale: days on which the original
\* share was worth the same have the same adjusted close, whatever was split or
\* paid between them.  It holds as long as the provider has the actions and at
\* most one dividend is in force, with no split after it.
SeriesOnOneScale ==
  \A from, asOf \in Days : \A to \in from .. LastDay :
    LET force == InForce(from, to, asOf)
    IN  /\ Until(market, to) \subseteq known
        /\ Cardinality(Dividends(market, force)) <= 1
        /\ \A d \in Dividends(market, force), s \in Splits(market, force) : market[s].ex <= market[d].ex
        => \A p, q \in Ingested(from, to, asOf) :
             p.bar.worth = q.bar.worth => p.close[1] * q.close[2] = q.close[1] * p.close[2]
=============================================================================
