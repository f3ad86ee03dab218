----------------------------- MODULE MCAssurance -----------------------------
EXTENDS Assurance

Version(name, key, worth) == [name |-> name, key |-> key, worth |-> worth]
MCVersions == { Version("v1", 1, 80), Version("1", 1, 160), Version("v2", 2, 160) }
Action(kind, ex, amount) == [kind |-> kind, ex |-> ex, amount |-> amount]
MCMarkets == { <<>>, <<Action("split", 2, 2), Action("split", 4, 2)>>, <<Action("split", 2, 2), Action("dividend", 3, 8)>>,
               <<Action("dividend", 3, 8), Action("split", 4, 2)>> }
MCYearOf == [d \in 1 .. 4 |-> IF d <= 2 THEN 1 ELSE 2]

Report(config, strength, missing) ==
  [config |-> config, digest |-> strength, validated |-> TRUE, strength |-> strength, missing |-> missing]
MCReports == { Report("v1", 1, {}), Report("v1", 2, {"benchmark"}), Report("v2", 2, {"pbo"}) }

\* The second policy asks for more than the first.
MCDemands == [p \in {1, 2} |-> p]
MCProfits == {-1, 1, 2}
MCExpected == [expectancy |-> 2, wins |-> 60]

Event(id, type, day, outcome, error) ==
  [id |-> id, type |-> type, day |-> day, regime |-> day, outcome |-> outcome, error |-> error]
MCEvents == { Event(1, "SESSION", "d1", "CLEAN", 0), Event(2, "SIGNAL_EXECUTED", "d1", "CLEAN", 0),
              Event(3, "FILL", "d1", "CLEAN", 1), Event(4, "DUPLICATE_SUBMISSION", "d1", "CLEAN", 0),
              Event(5, "RESTART_RECONCILIATION", "d1", "DIRTY", 0) }

BarsOn(days) == [days |-> days, sound |-> TRUE, known |-> "stamped"]
Member(symbol, start, end) == [symbol |-> symbol, start |-> start, end |-> end]
Data(bars, members) == [last |-> 5, benchmark |-> "sound", bars |-> bars, members |-> members]
Whole == BarsOn(1 .. 5)
Clean == Data([a |-> Whole, b |-> BarsOn(1 .. 3)], {Member("a", 1, Open), Member("b", 1, 3)})
\* One that passes; leavers with few bars or none; a name that leaves and comes back
\* between the days compared; survivors only; and data with one defect.
MCDatasets == {
  Clean,
  Data([a |-> Whole, b |-> BarsOn({1})], {Member("a", 1, Open), Member("b", 1, 3), Member("c", 2, 4)}),
  Data([a |-> Whole, b |-> BarsOn(4 .. 5)], {Member("a", 1, 1), Member("a", 2, Open), Member("b", 4, Open)}),
  Data([a |-> Whole], {Member("a", 1, Open)}),
  Data([a |-> BarsOn(1 .. 6), b |-> Whole], {Member("a", 1, Open), Member("b", 1, 3)}),
  [Clean EXCEPT !.bars.a.known = "early"], [Clean EXCEPT !.bars.b.sound = FALSE],
  [Clean EXCEPT !.members = @ \cup {Member("b", 3, 4)}] }
MCDeliveries == { [Clean EXCEPT !.bars.a.known = "unstamped"], [Clean EXCEPT !.benchmark = "gaps"] }
MCGrids == [trend |-> 2, breakout |-> 0]

MCSignal == [buy |-> "BUY", sell |-> "SELL", hold |-> "none"]
Bar(slot, content) == [slot |-> slot, content |-> content, late |-> FALSE, valid |-> TRUE]
\* Every signal in the first slot, a buy in the second; one late and one invalid bar.
MCBars == {Bar(1, c) : c \in DOMAIN MCSignal} \cup
          {Bar(2, "buy"), [Bar(2, "buy") EXCEPT !.late = TRUE], [Bar(1, "buy") EXCEPT !.valid = FALSE]}
=============================================================================
