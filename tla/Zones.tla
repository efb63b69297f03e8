------------------------------- MODULE Zones -------------------------------
(***************************************************************************)
(* box_zone_engine.py: the zone of supports below the price and the zone   *)
(* of resistances above it, and their reward to risk ratio, which          *)
(* calc_tp_sl adds to the bracket of five strategies.  Levels are in       *)
(* thousandths of a price, 0 where the code has None.                      *)
(***************************************************************************)
EXTENDS TpSl

CONSTANT BoxPeriod   \* bars of the box of S13

NoZone == [low |-> 0, high |-> 0, anchors |-> <<>>]
Total(levels) == SumFunction(levels)
Centre(cluster) == Total(cluster) \div Len(cluster)
Away(x, y) == Max({x - y, y - x})

\* _cluster_levels: ascending, a level within two percent of the mean of the last cluster joins it.
Clusters(levels) ==
    LET sorted == SortSeq(levels, LAMBDA x, y : x < y)
        joined[n \in 0..Len(sorted)] ==
            IF n = 0 THEN <<>>
            ELSE LET acc == joined[n - 1]
                     last == acc[Len(acc)]
                 IN IF acc # <<>> /\ 100 * Away(sorted[n] * Len(last), Total(last)) <= 2 * Total(last)
                    THEN [acc EXCEPT ![Len(acc)] = Append(@, sorted[n])]
                    ELSE Append(acc, <<sorted[n]>>)
    IN joined[Len(sorted)]

\* _best_cluster: the most anchors, of equals the nearest to the price, of these the lowest.
Stronger(x, y, cur) ==
    Len(x) > Len(y) \/ (Len(x) = Len(y) /\ Away(Centre(x), cur) < Away(Centre(y), cur))
BestCluster(clusters, cur) ==
    LET best[n \in DOMAIN clusters] ==
            IF n > 1 /\ ~Stronger(clusters[n], best[n - 1], cur) THEN best[n - 1] ELSE clusters[n]
    IN best[Len(clusters)]

ZoneOf(cluster, atr) ==
    LET half == Max({300 * atr, (5 * Centre(cluster)) \div 1000})
    IN [low |-> Centre(cluster) - half, high |-> Centre(cluster) + half, anchors |-> cluster]

Thousand(levels) == [i \in DOMAIN levels |-> 1000 * levels[i]]
Nearest3(levels) == SubSeq(levels, 1, Min({3, Len(levels)}))

BuyZone(in, averages) ==
    LET cur == 1000 * in.cur
        levels == SelectSeq(Thousand(averages \o Nearest3(SwingLows(in.lows, in.cur, 40))),
                            LAMBDA x : 0 < x /\ x < cur)
        zone == ZoneOf(BestCluster(Clusters(levels), cur), in.atr)
        capped == [zone EXCEPT !.high = IF @ >= cur THEN (995 * in.cur) ELSE @]
    IN IF levels = <<>> \/ capped.high <= capped.low THEN NoZone ELSE capped

SellZone(in, bands, fibs) ==
    LET cur == 1000 * in.cur
        levels == SelectSeq(Thousand(bands \o Nearest3(SwingHighs(in.highs, in.cur, 40))) \o fibs,
                            LAMBDA x : x > cur)
        zone == ZoneOf(Clusters(levels)[1], in.atr)
        capped == [zone EXCEPT !.low = IF @ <= cur THEN 1005 * in.cur ELSE @]
    IN IF levels = <<>> \/ capped.low >= capped.high THEN NoZone ELSE capped

\* S13: the extensions of the box of the bars before today's.
BoxFibs(in) ==
    LET bars == 2..(BoxPeriod + 1)
        high == Max({in.highs[i] : i \in bars})
        low == Min({in.lows[i] : i \in bars})
    IN IF Len(in.highs) <= BoxPeriod \/ Len(in.lows) <= BoxPeriod \/ high <= low THEN <<>>
       ELSE <<Fib1272(low, high), Fib1618(low, high)>>

\* calc_zones_s8 to calc_zones_s15: which levels a strategy looks at.
ZonesOf(in) ==
    LET averages == CASE in.s \in {"S8", "S9"} -> <<in.ma5, in.ma20, in.ma60>>
                      [] in.s = "S13" -> <<in.ma20>>
                      [] in.s = "S14" -> <<in.ma20, in.ma60, in.bbLower>>
                      [] in.s = "S15" -> <<in.ma5, in.ma20>>
        bands == IF in.s \in {"S8", "S15"} THEN <<in.bbUpper>> ELSE <<>>
    IN [buy |-> BuyZone(in, averages),
        sell |-> SellZone(in, bands, IF in.s = "S13" THEN BoxFibs(in) ELSE <<>>)]

\* (mutant) The stop is the edge of the zone.
ZoneStopUnbuffered(buy) == buy.low

ZoneStop(buy) == (buy.low * 99) \div 100

\* calc_zone_rr: the entry at the top of the buy zone, the target at the foot of the other.
ZoneRr(zones, minRr) ==
    LET entry == zones.buy.high
        stop == ZoneStop(zones.buy)
        target == zones.sell.low
        fees == (Fee * entry) \div 1000
        risk == entry - stop + fees
        rr == (2000 * (target - entry - fees) + risk) \div (2 * risk)
    IN IF entry <= 0 \/ stop <= 0 \/ target <= entry \/ risk <= 0 THEN NoRr
       ELSE [rr |-> rr, skip |-> rr < minRr]

\* _enrich_zones: a ratio only where both zones are there.
Enriched(zones, minRr) ==
    [zones |-> zones, stop |-> ZoneStop(zones.buy),
     rr |-> IF NoZone \in {zones.buy, zones.sell} THEN NoRr ELSE ZoneRr(zones, minRr)]
WithZones(in) == Enriched(ZonesOf(in), Policies[in.s].minRr)
=============================================================================
