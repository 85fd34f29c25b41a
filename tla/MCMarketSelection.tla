--------------------------- MODULE MCMarketSelection ---------------------------
(***************************************************************************)
(* An equity and a coin compete for one place of the watchlist.  Day 0 is  *)
(* Thursday, 29 October 2026; the clocks of New York go back on 1 November *)
(* and the calendar ends with the year 2028.                               *)
(***************************************************************************)
EXTENDS MarketSelection, TLC

CONSTANTS aapl, btc

At(day, hour) == day * SlotsPerDay + hour

(* Instants in half hours of UTC.                                          *)
MCInstants ==
    {At(1, 27), At(1, 40), At(2, 1),    \* Friday: open, close, evening
     At(3, 45), At(4, 6),               \* the thin hours after Sunday
     At(4, 27), At(4, 29),              \* Monday: premarket, open
     At(28, 32),                        \* Thanksgiving
     At(29, 34), At(29, 36),            \* the day after, closes early
     At(793, 4), At(795, 30)}           \* the calendar ends

MCCalendar ==
    [covered |-> -301 .. 794, earlyCloses |-> {29, 56, 393, 613, 757},
     holidays |-> {28, 57, 64, 81, 109, 148, 214, 232, 249, 312, 392, 421, 445,
                   480, 533, 578, 599, 614, 676, 756, 788}]

MCOffsets ==
    {[from |-> -11270, west |-> 8], [from |-> At(3, 12), west |-> 10],
     [from |-> 6542, west |-> 8], [from |-> 17964, west |-> 10],
     [from |-> 24014, west |-> 8], [from |-> 35436, west |-> 10]}

MCEquitySettings ==
    [calendarEnabled |-> TRUE, versionMatches |-> TRUE, open |-> 19, close |-> 32,
     earlyClose |-> 26, premarket |-> TRUE, afterHours |-> TRUE,
     premarketAnalysis |-> FALSE, afterHoursAnalysis |-> FALSE]

MCCryptoSettings ==
    [enabled |-> TRUE, limitThin |-> TRUE,
     windows |-> {[days |-> {5, 6}, start |-> 44, end |-> 8]}]

MCSelection ==
    [categoryMap |-> [crypto |-> "CRYPTO", stock |-> "EQUITY", index |-> "INDEX"],
     symbolMap |-> <<>>, policies |-> <<>>, allowedClasses |-> {"EQUITY", "CRYPTO"},
     overrides |-> <<>>, denylist |-> {},
     flags |-> [requireVolume |-> TRUE, requireFresh |-> TRUE,
                allowDegraded |-> FALSE, minScore |-> 70]]

MCThresholds ==
    [EQUITY |-> [spread |-> 20, depth |-> 5000, volume |-> 100000, deviation |-> 75],
     CRYPTO |-> [spread |-> 10, depth |-> 10000, volume |-> 500000, deviation |-> 50]]

Liquid ==
    [quality |-> "HEALTHY", reliable |-> TRUE, bookAge |-> "FRESH", bid |-> 40000,
     ask |-> 40000, mid |-> 10000, spread |-> 4, quote |-> 4, quoteAge |-> "FRESH",
     mark |-> 10000, index |-> 10000, volume |-> 2000000, statisticsAge |-> "FRESH"]

Row(category) == [category |-> category, enabled |-> TRUE, status |-> "ACTIVE"]

Usual ==
    (aapl :> [row |-> Row("stock"), feed |-> Liquid])
    @@ (btc :> [row |-> Row("crypto"), feed |-> Liquid])

OtherFeeds ==
    {[Liquid EXCEPT !.quality = None],
     [Liquid EXCEPT !.quality = "DEGRADED", !.quote = 8],
     [Liquid EXCEPT !.quality = "ORDERBOOK_RESYNCING", !.reliable = FALSE],
     [Liquid EXCEPT !.bookAge = "STALE"], [Liquid EXCEPT !.quoteAge = "STALE"],
     [Liquid EXCEPT !.mark = None], [Liquid EXCEPT !.index = 10080],
     [Liquid EXCEPT !.volume = 600000], [Liquid EXCEPT !.statisticsAge = "STALE"],
     [Liquid EXCEPT !.ask = 12000], [Liquid EXCEPT !.quote = 8],
     [Liquid EXCEPT !.quote = 9, !.ask = 10000, !.volume = 500000, !.index = 10049]}

OtherRows ==
    {Row("index"), [Row("crypto") EXCEPT !.enabled = FALSE],
     [Row("stock") EXCEPT !.status = "DELISTED"]}

(* One of the two is not as usual: anything may be wrong with the coin, and *)
(* with the equity what its own limits decide.                             *)
MCSituations ==
    {Usual} \cup {[Usual EXCEPT ![btc].feed = feed] : feed \in OtherFeeds}
            \cup {[Usual EXCEPT ![aapl].feed = feed] : feed \in
                      {f \in OtherFeeds : f.quote # 4 \/ f.volume # 2000000 \/ f.mark = None}}
            \cup {[Usual EXCEPT ![aapl].row = row] : row \in OtherRows}

MCUniverses == {Instruments, {btc}}

MCSymbolOrder == (aapl :> 1) @@ (btc :> 2)

=============================================================================
