-------------------------------- MODULE Oracle -------------------------------
(***************************************************************************)
(* What a bank's oracle says: whether the price loads, how sure its        *)
(* publisher is of it, and what it is worth on the safe side.              *)
(*                                                                         *)
(* A bank record has a setup, a maxAge, a maxConfidence (percent, 0 for    *)
(* the default) and a fixedPrice.  A source is what the oracle's accounts  *)
(* hold: the published price and its moving average, a confidence with     *)
(* each, the time of publication, and, for a position at a venue or in a   *)
(* stake pool, the tokens and shares behind it and whether the venue has   *)
(* been refreshed.                                                         *)
(***************************************************************************)
EXTENDS Integers

PythSetups == {"pyth", "staked_pyth", "kamino_pyth", "solend_pyth", "drift_pyth"}
SwitchboardSetups == {"swb", "kamino_swb", "solend_swb", "drift_swb"}
VenueSetups == {"kamino_pyth", "kamino_swb", "solend_pyth", "solend_swb",
                "drift_pyth", "drift_swb"}

\* CONF_INTERVAL_MULTIPLE, STD_DEV_MULTIPLE, MAX_CONF_INTERVAL and the default of
\* oracle_max_confidence, in percent
PythMultiple == 212
SwitchboardMultiple == 196
ConfidenceCap == 5
DefaultMaxConfidence == 10

\* The lamports a stake pool keeps for ever, in units of the model's stakes
PoolMinimum == 1

\* load_checked of both publishers. A price published in the future is recent.
Recent(bank, source, now) == now - source.at <= bank.maxAge

\* The stake pool has shares, and the SOL it is never without.
PoolBacks(bank, source) ==
    bank.setup = "staked_pyth" => source.shares > 0 /\ source.tokens >= PoolMinimum

\* The reserve or spot market is up to date.
VenueFresh(bank, source) == bank.setup \in VenueSetups => source.refreshed

\* OraclePriceFeedAdapter::try_from_bank, given the accounts the bank names
Loads(bank, source, now) ==
    \/ bank.setup = "fixed" /\ bank.fixedPrice >= 0
    \/ /\ bank.setup \in PythSetups \cup SwitchboardSetups
       /\ PoolBacks(bank, source)
       /\ VenueFresh(bank, source)
       /\ Recent(bank, source, now)

\* The tokens a share of the position is worth: (numerator, denominator). An empty reserve
\* leaves the price as it is.
Worth(bank, source) ==
    IF bank.setup = "staked_pyth" THEN <<source.tokens - PoolMinimum, source.shares>>
    ELSE IF bank.setup \in VenueSetups /\ source.shares > 0
         THEN <<source.tokens, source.shares>> ELSE <<1, 1>>

Adjusted(x, worth) == (x * worth[1]) \div worth[2]

\* The adapter of a bank whose oracle loads. The confidence of a price of staked SOL is not
\* adjusted; Switchboard has no moving average.
Feed(bank, source) ==
    LET worth == Worth(bank, source)
        sure(x) == IF bank.setup = "staked_pyth" THEN x ELSE Adjusted(x, worth)
        spot == [price |-> Adjusted(source.price, worth), conf |-> sure(source.conf)]
        average == [price |-> Adjusted(source.ema, worth), conf |-> sure(source.emaConf)]
        fixed == [price |-> bank.fixedPrice, conf |-> 0]
    IN IF bank.setup = "fixed" THEN [RealTime |-> fixed, TimeWeighted |-> fixed]
       ELSE [RealTime |-> spot,
             TimeWeighted |-> IF bank.setup \in PythSetups THEN average ELSE spot]

\* The confidence interval before it is capped
Interval(bank, quote) ==
    IF bank.setup \in PythSetups THEN (quote.conf * PythMultiple) \div 100
    ELSE (quote.conf * SwitchboardMultiple) \div 100

MaxConfidence(bank) ==
    IF bank.maxConfidence > 0 THEN bank.maxConfidence ELSE DefaultMaxConfidence

\* Asking for a biased price fails when the publisher is less sure than the bank demands.
Trusted(bank, source, type) ==
    LET quote == Feed(bank, source)[type]
    IN bank.setup # "fixed" =>
           100 * Interval(bank, quote) <= quote.price * MaxConfidence(bank)

\* get_confidence_interval, of a trusted price
Confidence(bank, source, type) ==
    LET quote == Feed(bank, source)[type]
        interval == Interval(bank, quote)
        cap == (quote.price * ConfidenceCap) \div 100
    IN IF interval <= cap THEN interval ELSE cap

\* get_price_of_type
LowPrice(bank, source, type) ==
    Feed(bank, source)[type].price - Confidence(bank, source, type)
HighPrice(bank, source, type) ==
    Feed(bank, source)[type].price + Confidence(bank, source, type)
==============================================================================
