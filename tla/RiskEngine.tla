----------------------------- MODULE RiskEngine ------------------------------
(***************************************************************************)
(* Accounts with positions in several banks, the prices the banks' oracles *)
(* give, and the risk engine that decides what an account may do.          *)
(*                                                                         *)
(* A balance is an amount of its bank's token: shares and interest are in  *)
(* Bank, brackets that suspend the checks in MarginTx, and the settings of *)
(* a bank, which stand still here, in BankConfig.  The insurance fund      *)
(* covers every bad debt.  Weights are twentieths of One.                  *)
(***************************************************************************)
EXTENDS Oracle, FiniteSetsExt, Functions

CONSTANTS
    Accounts,       \* marginfi accounts
    banks,          \* the settings of each bank
    Openings,       \* what accounts may have deposited at first
    Lenders,        \* what others have deposited in each bank
    Readings,       \* what the publisher of each bank's price may publish
    Backings,       \* the tokens and shares that may be behind a bank's position
    Moves,          \* amounts deposited, borrowed, repaid and withdrawn
    Seizures,       \* amounts of collateral liquidators ask for
    States,         \* states the admin sets banks to
    MaxBalances,    \* MAX_LENDING_ACCOUNT_BALANCES
    MaxIntegrations,    \* MAX_INTEGRATION_POSITIONS
    BankruptThreshold,  \* BANKRUPT_THRESHOLD
    MaxAmount,      \* bound on deposits
    MaxTime         \* bound on the clock

VARIABLES
    accounts,  \* each account's balances
    disabled,  \* accounts with ACCOUNT_DISABLED
    states,    \* operational state of each bank
    sources,   \* what the oracle of each bank reads
    now        \* the clock

riskVars == <<accounts, disabled, states, sources, now>>

Banks == DOMAIN banks
One == 20

Balance == [active : BOOLEAN, asset : Nat, liab : Nat]
NoBalance == [active |-> FALSE, asset |-> 0, liab |-> 0]

VenueTags == {"kamino", "solend", "drift"}
DefaultTags == {"default"} \cup VenueTags

\* LIQUIDATION_LIQUIDATOR_FEE and LIQUIDATION_INSURANCE_FEE, in fortieths
LiquidatorFee == 1
InsuranceFee == 1

\* BankConfig::validate: no asset counts for more in a loan than in maintenance, or than it
\* is, and no debt for less. A confidence is no less than zero; a price below zero would be
\* refused like one that nobody is sure of.
BankSettings ==
    {b \in [tag : {"default", "sol", "staked"} \cup VenueTags,
            setup : {"none", "fixed"} \cup PythSetups \cup SwitchboardSetups,
            tier : {"collateral", "isolated"}, ai : Nat, am : Nat, li : Nat, lm : Nat,
            emodeTag : Nat, entries : SUBSET [tag : Nat, init : Nat, maint : Nat],
            valueLimit : Nat, borrowLimit : Nat, maxAge : Nat, maxConfidence : Nat,
            fixedPrice : Int] :
        /\ b.ai <= One /\ b.ai <= b.am
        /\ One <= b.lm /\ b.lm <= b.li
        /\ \A e \in b.entries : e.init <= e.maint}

ASSUME BankAssumption ==
    /\ IsFiniteSet(Accounts) /\ IsFiniteSet(Banks)
    /\ \A b \in Banks :
        /\ banks[b] \in BankSettings
        /\ Lenders[b] \in Nat
        /\ Readings[b] \subseteq [price : Nat, ema : Nat, conf : Nat, emaConf : Nat]
        /\ Backings[b] \subseteq [tokens : Nat, shares : Nat]

ASSUME AmountAssumption ==
    Moves \subseteq Nat /\ Seizures \subseteq Nat \ {0} /\ MaxTime \in Nat

\* Nobody has borrowed yet, and deposits were checked.
ASSUME OpeningAssumption ==
    \A x \in Openings :
        /\ x \in [Accounts -> [Banks -> Balance]]
        /\ \A a \in Accounts, b \in Banks :
            /\ x[a][b].liab = 0
            /\ ~x[a][b].active => x[a][b] = NoBalance
            /\ \A c \in Banks : x[a][b].active /\ x[a][c].active =>
                   ~(banks[b].tag = "staked" /\ banks[c].tag \in DefaultTags)
-----------------------------------------------------------------------------
(* Prices *)

\* RequirementType::get_oracle_price_type
PriceType(req) == IF req = "Maintenance" THEN "RealTime" ELSE "TimeWeighted"

BankLoads(b) == Loads(banks[b], sources[b], now)
BankTrusted(b, type) == BankLoads(b) /\ Trusted(banks[b], sources[b], type)
Low(b, type) == LowPrice(banks[b], sources[b], type)
High(b, type) == HighPrice(banks[b], sources[b], type)

TotalAssets(b) == Lenders[b] + SumFunction([a \in Accounts |-> accounts[a][b].asset])
TotalLiabs(b) == SumFunction([a \in Accounts |-> accounts[a][b].liab])
-----------------------------------------------------------------------------
(* Emode *)

DebtBanks(x) == {b \in Banks : x[b].liab > 0}

\* reconcile_emode_configs: a tag counts when every borrowed bank has an entry for it.
EntriesInForce(x, tag) ==
    {e \in UNION {banks[b].entries : b \in DebtBanks(x)} :
        /\ e.tag = tag
        /\ \A b \in DebtBanks(x) : \E f \in banks[b].entries : f.tag = tag}

\* Wrong variant: the most generous of the borrowed banks decides.
EmodeWeightLargest(entries, req) ==
    Max({IF req = "Initial" THEN e.init ELSE e.maint : e \in entries})

\* The smallest of the weights the entries give
EmodeWeight(entries, req) ==
    Min({IF req = "Initial" THEN e.init ELSE e.maint : e \in entries})

OwnWeight(b, req) == IF req = "Initial" THEN banks[b].ai ELSE banks[b].am

\* Wrong variant: emode helps to borrow but not to stay.
WeightToBorrow(x, b, req) ==
    LET entries == EntriesInForce(x, banks[b].emodeTag)
    IN IF req = "Equity" THEN One
       ELSE IF req = "Maintenance" \/ banks[b].emodeTag = 0 \/ entries = {}
            THEN OwnWeight(b, req)
       ELSE Max({OwnWeight(b, req), EmodeWeight(entries, req)})

\* What an asset counts for: emode raises a bank's own weight and never lowers it.
AssetWeight(x, b, req) ==
    LET entries == EntriesInForce(x, banks[b].emodeTag)
    IN IF req = "Equity" THEN One
       ELSE IF banks[b].emodeTag = 0 \/ entries = {} THEN OwnWeight(b, req)
       ELSE Max({OwnWeight(b, req), EmodeWeight(entries, req)})

LiabWeight(b, req) ==
    CASE req = "Initial" -> banks[b].li
      [] req = "Maintenance" -> banks[b].lm
      [] req = "Equity" -> One
-----------------------------------------------------------------------------
(* Health *)

\* Assets of isolated banks, and for new loans those of reduce-only banks, count for
\* nothing, and their oracle is not asked.
Counts(b, req) ==
    /\ banks[b].tier = "collateral"
    /\ ~(req = "Initial" /\ states[b] = "ReduceOnly")

\* maybe_get_asset_weight_init_discount: deposits above a bank's limit count less.
Discounted(value, b, price, req) ==
    LET total == TotalAssets(b) * price
        limit == banks[b].valueLimit
    IN IF req = "Initial" /\ limit # 0 /\ total > limit
       THEN (value * limit) \div total ELSE value

\* calc_weighted_asset_value
AssetValue(x, b, req) ==
    IF ~Counts(b, req) \/ ~BankLoads(b) THEN 0
    ELSE LET price == Low(b, PriceType(req))
         IN Discounted(x[b].asset * AssetWeight(x, b, req) * price, b, price, req)

\* calc_weighted_liab_value
LiabValue(x, b, req) == x[b].liab * LiabWeight(b, req) * High(b, PriceType(req))

\* The engine gives no answer when the oracle of a debt does not load, when that of an
\* asset does not, except for new loans, or when a price is not trusted.
Assessable(x, req) ==
    \A b \in Banks :
        /\ x[b].liab > 0 => BankTrusted(b, PriceType(req))
        /\ x[b].asset > 0 /\ Counts(b, req) =>
               \/ BankTrusted(b, PriceType(req))
               \/ req = "Initial" /\ ~BankLoads(b)

Assets(x, req) ==
    SumFunction([b \in {c \in Banks : x[c].asset > 0} |-> AssetValue(x, b, req)])
Liabs(x, req) == SumFunction([b \in DebtBanks(x) |-> LiabValue(x, b, req)])
Health(x, req) == Assets(x, req) - Liabs(x, req)

\* check_account_risk_tiers: an isolated debt is the only one.
TiersFit(x) ==
    (\E b \in DebtBanks(x) : banks[b].tier = "isolated") => Cardinality(DebtBanks(x)) = 1

\* check_account_init_health
Accepts(x) ==
    /\ Assessable(x, "Initial")
    /\ Health(x, "Initial") >= 0
    /\ TiersFit(x)

\* check_pre_liquidation_condition_and_get_account_health
Liquidatable(x, lb) ==
    /\ x[lb].liab > 0 /\ x[lb].asset = 0
    /\ Assessable(x, "Maintenance")
    /\ Health(x, "Maintenance") <= 0

\* check_account_bankrupt
Bankrupt(x) ==
    /\ Assessable(x, "Equity")
    /\ Assets(x, "Equity") < Liabs(x, "Equity")
    /\ Assets(x, "Equity") < BankruptThreshold
-----------------------------------------------------------------------------
(* Balances *)

\* Wrong variant: staked assets may join any others.
TagsFitDefault(b, x) ==
    banks[b].tag \in DefaultTags => \A c \in Banks : x[c].active => banks[c].tag # "staked"

\* validate_asset_tags: staked assets and default ones stay apart, SOL goes with either.
TagsFit(b, x) ==
    LET held == {banks[c].tag : c \in {d \in Banks : x[d].active}}
    IN /\ banks[b].tag \in DefaultTags => "staked" \notin held
       /\ banks[b].tag = "staked" => held \cap DefaultTags = {}

\* validate_bank_asset_tags
PairFits(ab, lb) ==
    /\ ~(banks[ab].tag \in DefaultTags /\ banks[lb].tag = "staked")
    /\ ~(banks[ab].tag = "staked" /\ banks[lb].tag \in DefaultTags)

\* find_or_create: x has a balance in bank b, or room for one.
HasRoom(b, x) ==
    x[b].active \/
    LET used == {c \in Banks : x[c].active}
    IN /\ Cardinality(used) < MaxBalances
       /\ banks[b].tag \in VenueTags =>
              Cardinality({c \in used : banks[c].tag \in VenueTags}) < MaxIntegrations

Least(m, n) == IF m <= n THEN m ELSE n

\* increase_balance_internal: repays first. decrease_balance_internal: withdraws first.
Increased(y, n) ==
    LET repaid == Least(n, y.liab)
    IN [active |-> TRUE, asset |-> y.asset + (n - repaid), liab |-> y.liab - repaid]
Decreased(y, n) ==
    LET withdrawn == Least(n, y.asset)
    IN [active |-> TRUE, asset |-> y.asset - withdrawn, liab |-> y.liab + (n - withdrawn)]

\* Account a holds x from here on.
Holds(a, x) ==
    /\ accounts' = [accounts EXCEPT ![a] = x]
    /\ UNCHANGED <<states, sources, now>>

\* check_utilization_ratio, for n more of bank b going out
Utilized(b, debts, deposits) == TotalLiabs(b) + debts <= TotalAssets(b) - deposits
-----------------------------------------------------------------------------
(* Instructions *)

\* lending_account_deposit and the deposits at venues
Deposit(a, b, n) ==
    /\ a \notin disabled
    /\ TagsFit(b, accounts[a])
    /\ states[b] = "Operational"
    /\ HasRoom(b, accounts[a])
    /\ accounts[a][b].liab = 0
    /\ accounts[a][b].asset + n <= MaxAmount
    /\ Holds(a, [accounts[a] EXCEPT ![b] = Increased(@, n)])
    /\ UNCHANGED disabled

\* lending_account_borrow
Borrow(a, b, n) ==
    LET x == [accounts[a] EXCEPT ![b] = Decreased(@, n)]
    IN /\ a \notin disabled
       /\ TagsFit(b, accounts[a])
       /\ states[b] = "Operational"
       /\ banks[b].tag \notin VenueTags
       /\ HasRoom(b, accounts[a])
       /\ accounts[a][b].asset = 0
       /\ TotalLiabs(b) + n < banks[b].borrowLimit
       /\ Utilized(b, n, 0)
       /\ Holds(a, x)
       /\ Accepts(accounts[a])'
       /\ UNCHANGED disabled

\* lending_account_repay, of all the debt when it closes the balance
Repay(a, b, n, all) ==
    /\ a \notin disabled
    /\ states[b] # "Paused"
    /\ banks[b].tag \notin VenueTags
    /\ accounts[a][b].liab > 0
    /\ IF all THEN Holds(a, [accounts[a] EXCEPT ![b] = NoBalance])
       ELSE /\ n <= accounts[a][b].liab
            /\ Holds(a, [accounts[a] EXCEPT ![b] = Increased(@, n)])
    /\ UNCHANGED disabled

\* lending_account_withdraw and the withdrawals from venues
Withdraw(a, b, n, all) ==
    LET amount == IF all THEN accounts[a][b].asset ELSE n
        x == [accounts[a] EXCEPT ![b] = IF all THEN NoBalance ELSE Decreased(@, n)]
    IN /\ a \notin disabled
       /\ states[b] # "Paused"
       /\ 0 < amount /\ amount <= accounts[a][b].asset
       /\ accounts[a][b].liab = 0
       /\ Utilized(b, 0, amount)
       /\ Holds(a, x)
       /\ Accepts(accounts[a])'
       /\ UNCHANGED disabled

\* lending_account_close_balance
CloseBalance(a, b) ==
    /\ a \notin disabled
    /\ accounts[a][b] = [active |-> TRUE, asset |-> 0, liab |-> 0]
    /\ banks[b].tag \notin VenueTags
    /\ Holds(a, [accounts[a] EXCEPT ![b] = NoBalance])
    /\ UNCHANGED disabled

\* lending_account_liquidate: a takes n of u's assets in bank ab and as much of its debt in
\* bank lb as they are worth, less the fees. The insurance fund has the difference.
Liquidate(a, u, ab, lb, n) ==
    LET worth == n * Low(ab, "RealTime")
        price == High(lb, "RealTime")
        taken == (worth * (40 - LiquidatorFee)) \div (40 * price)
        paid == (worth * (40 - LiquidatorFee - InsuranceFee)) \div (40 * price)
        x == [accounts[u] EXCEPT ![ab] = Decreased(@, n), ![lb] = Increased(@, paid)]
        indebted == [accounts[a] EXCEPT ![lb] = Decreased(@, taken)]
        y == [indebted EXCEPT ![ab] = Increased(@, n)]
    IN /\ a # u /\ ab # lb
       /\ banks[lb].tag \notin VenueTags
       /\ PairFits(ab, lb)
       /\ states[ab] # "Paused" /\ states[lb] # "Paused"
       /\ TagsFit(lb, accounts[u]) /\ TagsFit(lb, accounts[a]) /\ TagsFit(ab, accounts[a])
       /\ Liquidatable(accounts[u], lb)
       /\ BankTrusted(ab, "RealTime") /\ BankTrusted(lb, "RealTime")
       /\ Low(ab, "RealTime") > 0 /\ price > 0
       /\ HasRoom(lb, accounts[a]) /\ HasRoom(ab, indebted)
       /\ n <= accounts[u][ab].asset /\ paid <= accounts[u][lb].liab
       /\ accounts' = [accounts EXCEPT ![u] = x, ![a] = y]
       /\ UNCHANGED <<disabled, states, sources, now>>
       /\ Liquidatable(accounts[u], lb)'
       /\ Health(accounts[u], "Maintenance")' > Health(accounts[u], "Maintenance")
       /\ Accepts(accounts[a])'

\* lending_pool_handle_bankruptcy
HandleBankruptcy(a, b) ==
    /\ states[b] # "Paused"
    /\ Bankrupt(accounts[a])
    /\ accounts[a][b].liab > 0
    /\ disabled' = disabled \cup {a}
    /\ Holds(a, [accounts[a] EXCEPT ![b] = Increased(@, accounts[a][b].liab)])

\* The admin changes the operational state of a bank.
SetState(b, s) ==
    /\ states' = [states EXCEPT ![b] = s]
    /\ UNCHANGED <<accounts, disabled, sources, now>>
-----------------------------------------------------------------------------
(* Publishers and venues *)

Changes(b, source) ==
    /\ sources' = [sources EXCEPT ![b] = source]
    /\ UNCHANGED <<accounts, disabled, states, now>>

\* A new price, with its average and confidences
Publish(b, reading) ==
    Changes(b, [sources[b] EXCEPT !.price = reading.price, !.ema = reading.ema,
                                  !.conf = reading.conf, !.emaConf = reading.emaConf,
                                  !.at = now])

\* The venue or stake pool gains or loses tokens or shares, and the venue is refreshed, which
\* anyone may do.
Rebase(b, backing) ==
    /\ banks[b].setup \in VenueSetups \cup {"staked_pyth"}
    /\ Changes(b, [sources[b] EXCEPT !.tokens = backing.tokens, !.shares = backing.shares,
                                     !.refreshed = TRUE])

Tick ==
    /\ now < MaxTime
    /\ now' = now + 1
    /\ sources' = [b \in Banks |-> [sources[b] EXCEPT !.refreshed = FALSE]]
    /\ UNCHANGED <<accounts, disabled, states>>
-----------------------------------------------------------------------------
\* A source that has just been published and refreshed
NewSources(b) ==
    {[price |-> r.price, ema |-> r.ema, conf |-> r.conf, emaConf |-> r.emaConf,
      tokens |-> k.tokens, shares |-> k.shares, at |-> 0, refreshed |-> TRUE] :
        r \in Readings[b], k \in Backings[b]}

Init ==
    /\ accounts \in Openings
    /\ disabled = {}
    /\ states = [b \in Banks |-> "Operational"]
    /\ sources \in [Banks -> UNION {NewSources(b) : b \in Banks}]
    /\ \A b \in Banks : sources[b] \in NewSources(b)
    /\ now = 0

Next ==
    \/ \E a \in Accounts, b \in Banks :
           \/ \E n \in Moves : Deposit(a, b, n) \/ Borrow(a, b, n)
           \/ \E n \in Moves, all \in BOOLEAN : Repay(a, b, n, all) \/ Withdraw(a, b, n, all)
           \/ CloseBalance(a, b)
           \/ HandleBankruptcy(a, b)
           \/ \E u \in Accounts, lb \in Banks, n \in Seizures : Liquidate(a, u, b, lb, n)
    \/ \E b \in Banks :
           \/ \E s \in States : SetState(b, s)
           \/ \E r \in Readings[b] : Publish(b, r)
           \/ \E k \in Backings[b] : Rebase(b, k)
    \/ Tick

Spec == Init /\ [][Next]_riskVars
-----------------------------------------------------------------------------
(* Properties *)

Source == [price : Nat, ema : Nat, conf : Nat, emaConf : Nat, tokens : Nat, shares : Nat,
           at : Nat, refreshed : BOOLEAN]

\* Amounts never go below zero, whatever is withdrawn, repaid or seized.
TypeOK ==
    /\ accounts \in [Accounts -> [Banks -> Balance]]
    /\ disabled \subseteq Accounts
    /\ DOMAIN states = Banks
    /\ sources \in [Banks -> Source]
    /\ now \in Nat

\* Each bank's entries weigh less than its own debts, as they do where they are set
\* (calculate_max_leverage), though not where they are copied (BankConfig!CloneEmode).
EmodeValidated == \A b \in Banks : \A e \in banks[b].entries : e.init < banks[b].li

\* a let something go or owes more, and owes nothing less.
TookRisk(a) ==
    /\ \E b \in Banks : \/ accounts'[a][b].liab > accounts[a][b].liab
                        \/ accounts'[a][b].asset < accounts[a][b].asset
    /\ \A b \in Banks : accounts'[a][b].liab >= accounts[a][b].liab

\* Whatever an account has borrowed and however emode, confidence, staleness, deposit limits
\* and reduce-only banks enter its weights: an account that borrows, withdraws or takes over
\* debts owns, on the cautious side of every price, at least what it owes
\* (check_account_init_health after each of these).
BorrowersSolvent ==
    [][\A a \in Accounts : TookRisk(a) => Health(accounts[a], "Equity")' >= 0]_riskVars

\* The two prices of each bank an account is in agree.
Steady(x) ==
    \A b \in Banks : x[b].asset + x[b].liab > 0 /\ BankLoads(b) =>
        LET feed == Feed(banks[b], sources[b]) IN feed.RealTime = feed.TimeWeighted

\* While averages follow prices, an account good enough for a new loan cannot be
\* liquidated: the initial requirement is the stricter of the two for every mix of banks and
\* emode (calc_weighted_value).
AcceptedNotLiquidatable ==
    \A a \in Accounts : LET x == accounts[a] IN
        Steady(x) /\ Accepts(x) /\ Assessable(x, "Maintenance") =>
            Health(x, "Maintenance") >= 0

\* Neither lending, borrowing nor liquidating, on either side, leaves an account with staked
\* positions next to default ones, or with an isolated debt next to another
\* (validate_asset_tags, check_account_risk_tiers).
PositionsCompatible ==
    \A a \in Accounts : LET used == {b \in Banks : accounts[a][b].active} IN
        /\ \A b, c \in used : ~(banks[b].tag = "staked" /\ banks[c].tag \in DefaultTags)
        /\ \A b, c \in DebtBanks(accounts[a]) : banks[b].tier = "isolated" => b = c

\* Together with its types: what an account holds or owes is in a balance that is active, or
\* it would be overlooked where positions are compared (Balance::change_asset_shares).
IInv ==
    /\ TypeOK
    /\ \A a \in Accounts, b \in Banks : ~accounts[a][b].active => accounts[a][b] = NoBalance
    /\ PositionsCompatible
==============================================================================
