--------------------------- MODULE MCMarketData ---------------------------
(***************************************************************************)
(* MarketData with two synchronisations of overlapping ranges, a stream,   *)
(* and two imports of archives of which one repeats rows, one revises an   *)
(* hour and two are incomplete or conflicting.                             *)
(***************************************************************************)
EXTENDS MarketDataProps, TLC

CONSTANTS p1, p2, s1, i1, i2, BTC, ETH

MCSync == {p1, p2}
MCSession == {s1}
MCImport == {i1, i2}

MCRanges == {<<0, 2>>}

MCScenario ==
  {[launched |-> {p1, p2}, quiet |-> {}], [launched |-> {p1}, quiet |-> {1}],
   [launched |-> {s1}, quiet |-> {}], [launched |-> {i1, i2}, quiet |-> {}]}

Candle(product, at) == [product |-> product, at |-> at]

MCMessage ==
  {[seq |-> None, channel |-> "subscriptions", candles |-> {}],
   [seq |-> 0, channel |-> "candles", candles |-> {Candle(BTC, 0), Candle(BTC, 1)}],
   [seq |-> 2, channel |-> "heartbeats", candles |-> {}],
   [seq |-> 4, channel |-> "candles", candles |-> {Candle(BTC, 1), Candle(ETH, 1)}]}

Row(minute, price) == [minute |-> minute, price |-> price]

File(first, last, rows) == [first |-> first, last |-> last, rows |-> rows]

MCArchive ==
  [day     |-> File(0, 0, <<Row(0, 2), Row(1, 1)>>),
   month   |-> File(0, 1, <<Row(0, 2), Row(1, 1), Row(2, 3), Row(3, 3)>>),
   repeats |-> File(0, 1, <<Row(0, 2), Row(1, 1), Row(1, 1), Row(2, 3), Row(2, 3), Row(3, 3)>>),
   revised |-> File(1, 1, <<Row(2, 3), Row(3, 1)>>),
   gap     |-> File(0, 1, <<Row(0, 2), Row(1, 1), Row(3, 3)>>),
   twice   |-> File(0, 1, <<Row(0, 2), Row(1, 1), Row(1, 2), Row(2, 3), Row(3, 3)>>)]

=============================================================================
