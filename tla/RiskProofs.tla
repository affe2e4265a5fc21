----------------------------- MODULE RiskProofs ------------------------------
(***************************************************************************)
(* Proofs about the risk engine: which positions meet in an account, what  *)
(* an account that takes a risk owns, and how the three requirements       *)
(* compare, for any banks, prices and amounts.                             *)
(***************************************************************************)
EXTENDS RiskEngine, SumsAndQuotients

-----------------------------------------------------------------------------
(* What is known of the settings and of the sources *)

\* The settings of a bank, field by field.
LEMMA SettingFacts ==
    ASSUME NEW b \in Banks
    PROVE  /\ banks[b].ai \in Nat /\ banks[b].am \in Nat
           /\ banks[b].li \in Nat /\ banks[b].lm \in Nat
           /\ banks[b].valueLimit \in Nat /\ banks[b].maxConfidence \in Nat
           /\ banks[b].fixedPrice \in Int
           /\ banks[b].ai <= One /\ banks[b].ai <= banks[b].am
           /\ One <= banks[b].lm /\ banks[b].lm <= banks[b].li
           /\ \A e \in banks[b].entries :
                  e.init \in Nat /\ e.maint \in Nat /\ e.init <= e.maint
  BY BankAssumption DEF BankSettings

\* A new price leaves a source a source.
LEMMA PublishedSource ==
    ASSUME NEW s \in Source, NEW t \in Nat,
           NEW r \in [price : Nat, ema : Nat, conf : Nat, emaConf : Nat]
    PROVE  [s EXCEPT !.price = r.price, !.ema = r.ema, !.conf = r.conf,
                     !.emaConf = r.emaConf, !.at = t] \in Source
  BY DEF Source

\* So does what the venue or stake pool gains or loses.
LEMMA RebasedSource ==
    ASSUME NEW s \in Source, NEW k \in [tokens : Nat, shares : Nat]
    PROVE  [s EXCEPT !.tokens = k.tokens, !.shares = k.shares, !.refreshed = TRUE] \in Source
  BY DEF Source

\* Sources begin as sources.
LEMMA NewSourceType ==
    ASSUME NEW b \in Banks
    PROVE  NewSources(b) \subseteq Source
  <1>1. /\ Readings[b] \subseteq [price : Nat, ema : Nat, conf : Nat, emaConf : Nat]
        /\ Backings[b] \subseteq [tokens : Nat, shares : Nat]
    BY BankAssumption
  <1> SUFFICES ASSUME NEW r \in Readings[b], NEW k \in Backings[b]
               PROVE  [price |-> r.price, ema |-> r.ema, conf |-> r.conf,
                       emaConf |-> r.emaConf, tokens |-> k.tokens, shares |-> k.shares,
                       at |-> 0, refreshed |-> TRUE] \in Source
    BY DEF NewSources
  <1> QED
    BY <1>1 DEF Source

-----------------------------------------------------------------------------
(* Positions *)

\* Balances that are empty when inactive, with staked assets apart from default ones
Tagged(x) ==
    /\ x \in [Banks -> Balance]
    /\ \A b \in Banks : ~x[b].active => x[b] = NoBalance
    /\ \A b, c \in Banks : x[b].active /\ x[c].active =>
           ~(banks[b].tag = "staked" /\ banks[c].tag \in DefaultTags)

\* No isolated debt next to another
Tiered(x) == \A b, c \in DebtBanks(x) : banks[b].tier = "isolated" => b = c

\* A balance where there was one before, or where its tag fits, keeps the tags apart.
LEMMA TagsKept ==
    ASSUME NEW x, Tagged(x), NEW b \in Banks, NEW y \in Balance,
           y.active \/ y = NoBalance,
           x[b].active \/ TagsFit(b, x) \/ y = NoBalance
    PROVE  Tagged([x EXCEPT ![b] = y])
  <1> DEFINE z == [x EXCEPT ![b] = y]
  <1>1. z \in [Banks -> Balance] /\ z[b] = y /\ \A c \in Banks \ {b} : z[c] = x[c]
    BY DEF Tagged
  <1>2. ASSUME NEW c \in Banks, ~z[c].active PROVE z[c] = NoBalance
    BY <1>1, <1>2 DEF Tagged, NoBalance
  <1>3. ASSUME NEW c \in Banks, NEW d \in Banks, z[c].active, z[d].active
        PROVE  ~(banks[c].tag = "staked" /\ banks[d].tag \in DefaultTags)
    <2>1. CASE z[b].active /\ ~x[b].active
      <3>1. TagsFit(b, x)
        BY <1>1, <2>1 DEF NoBalance
      <3>2. \A e \in Banks \ {b} : z[e].active => x[e].active
        BY <1>1
      <3>3. "staked" \notin DefaultTags
        BY DEF DefaultTags, VenueTags
      <3>4. ASSUME c = b, d # b, banks[b].tag = "staked", banks[d].tag \in DefaultTags
            PROVE  FALSE
        BY <1>3, <3>1, <3>2, <3>4 DEF TagsFit
      <3>5. ASSUME d = b, c # b, banks[c].tag = "staked", banks[b].tag \in DefaultTags
            PROVE  FALSE
        BY <1>3, <3>1, <3>2, <3>5 DEF TagsFit
      <3>6. CASE c # b /\ d # b
        BY <1>3, <3>2, <3>6 DEF Tagged
      <3>7. CASE c = b /\ d = b
        BY <3>3, <3>7
      <3> QED
        BY <3>4, <3>5, <3>6, <3>7
    <2>2. CASE ~(z[b].active /\ ~x[b].active)
      <3>1. \A e \in Banks : z[e].active => x[e].active
        BY <1>1, <2>2
      <3> QED
        BY <1>3, <3>1 DEF Tagged
    <2> QED
      BY <2>1, <2>2
  <1> HIDE DEF z
  <1>4. Tagged(z)
    BY <1>1, <1>2, <1>3 DEF Tagged
  <1> QED
    BY <1>4 DEF z

\* Debts that were there before are as compatible as they were.
LEMMA TiersKept ==
    ASSUME NEW x, NEW z, Tiered(x), \A b \in Banks : z[b].liab > 0 => x[b].liab > 0
    PROVE  Tiered(z)
  BY DEF Tiered, DebtBanks

\* What the check of risk tiers accepts.
LEMMA TiersChecked ==
    ASSUME NEW x, TiersFit(x)
    PROVE  Tiered(x)
  <1> SUFFICES ASSUME NEW b \in DebtBanks(x), NEW c \in DebtBanks(x),
                      banks[b].tier = "isolated"
               PROVE  b = c
    BY DEF Tiered
  <1>1. Cardinality(DebtBanks(x)) = 1
    BY DEF TiersFit
  <1>2. IsFiniteSet(DebtBanks(x))
    <2>1. DebtBanks(x) \in SUBSET Banks
      BY DEF DebtBanks
    <2> QED
      BY <2>1, BankAssumption, FS_Subset
  <1>3. \E d : DebtBanks(x) = {d}
    BY <1>1, <1>2, FS_Singleton
  <1> QED
    BY <1>3

\* What is repaid or deposited, and what is withdrawn or borrowed, leaves amounts.
LEMMA ChangedBalance ==
    ASSUME NEW y \in Balance, NEW n \in Nat
    PROVE  /\ Increased(y, n) \in Balance /\ Increased(y, n).active
           /\ Increased(y, n).liab <= y.liab
           /\ y.asset <= Increased(y, n).asset
           /\ n = 0 => Increased(y, n).liab = y.liab /\ Increased(y, n).asset = y.asset
           /\ 0 < n /\ n <= y.liab => Increased(y, n).liab < y.liab
           /\ n <= y.liab => Increased(y, n).asset = y.asset
           /\ Decreased(y, n) \in Balance /\ Decreased(y, n).active
           /\ n <= y.asset => Decreased(y, n).liab = y.liab
                              /\ Decreased(y, n).asset = y.asset - n
           /\ y.liab <= Decreased(y, n).liab
  BY DEF Balance, Increased, Decreased, Least

-----------------------------------------------------------------------------
(* The invariant, instruction by instruction *)

\* The invariant, account by account.
LEMMA HeldPositions ==
    ASSUME IInv, NEW a \in Accounts
    PROVE  /\ Tagged(accounts[a]) /\ Tiered(accounts[a])
           /\ accounts[a] \in [Banks -> Balance]
  BY DEF IInv, TypeOK, PositionsCompatible, Tagged, Tiered

\* An account that holds compatible positions from here on keeps it.
LEMMA HoldsKeeps ==
    ASSUME IInv, NEW a \in Accounts, NEW x, Tagged(x), Tiered(x), Holds(a, x),
           disabled' \in SUBSET Accounts
    PROVE  IInv'
  <1>1. /\ accounts' = [accounts EXCEPT ![a] = x]
        /\ UNCHANGED <<states, sources, now>>
    BY DEF Holds
  <1>2. accounts \in [Accounts -> [Banks -> Balance]] /\ x \in [Banks -> Balance]
    BY DEF IInv, TypeOK, Tagged
  <1>3. TypeOK'
    BY <1>1, <1>2 DEF IInv, TypeOK
  <1>4. ASSUME NEW u \in Accounts PROVE Tagged(accounts'[u]) /\ Tiered(accounts'[u])
    <2>1. accounts'[u] = IF u = a THEN x ELSE accounts[u]
      BY <1>1, <1>2
    <2> QED
      BY <2>1, HeldPositions
  <1>5. \A u \in Accounts, b \in Banks :
            ~accounts'[u][b].active => accounts'[u][b] = NoBalance
    BY <1>4 DEF Tagged
  <1>6. PositionsCompatible'
    BY <1>4 DEF PositionsCompatible, Tagged, Tiered
  <1> QED
    BY <1>3, <1>5, <1>6 DEF IInv

\* Where positions stay what they are, the invariant holds when the rest has its types.
LEMMA StillKeeps ==
    ASSUME IInv, UNCHANGED <<accounts, disabled>>, TypeOK'
    PROVE  IInv'
  <1>1. PositionsCompatible'
    BY DEF IInv, PositionsCompatible, DebtBanks
  <1> QED
    BY <1>1 DEF IInv

\* One balance changes, and stays within the tags that fit; debts fit or were there before.
LEMMA BalanceKeeps ==
    ASSUME IInv, NEW a \in Accounts, NEW b \in Banks, NEW y \in Balance,
           y.active \/ y = NoBalance,
           accounts[a][b].active \/ TagsFit(b, accounts[a]) \/ y = NoBalance,
           (y.liab > 0 => accounts[a][b].liab > 0) \/ TiersFit([accounts[a] EXCEPT ![b] = y]),
           Holds(a, [accounts[a] EXCEPT ![b] = y]), disabled' \in SUBSET Accounts
    PROVE  IInv'
  <1> DEFINE x == accounts[a]
             z == [x EXCEPT ![b] = y]
  <1>1. Tagged(x) /\ Tiered(x) /\ x \in [Banks -> Balance]
    BY HeldPositions
  <1>2. Tagged(z)
    BY <1>1, TagsKept
  <1>3. Tiered(z)
    <2>1. CASE TiersFit(z)
      BY <2>1, TiersChecked
    <2>2. CASE y.liab > 0 => x[b].liab > 0
      <3>1. \A c \in Banks : z[c].liab > 0 => x[c].liab > 0
        BY <1>1, <2>2
      <3> QED
        BY <1>1, <3>1, TiersKept
    <2> QED
      BY <2>1, <2>2
  <1> QED
    BY <1>2, <1>3, HoldsKeeps

\* A balance that holds or owes something is active.
LEMMA ActiveBalance ==
    ASSUME IInv, NEW a \in Accounts, NEW b \in Banks
    PROVE  /\ accounts[a][b] \in Balance
           /\ accounts[a][b].liab \in Nat /\ accounts[a][b].asset \in Nat
           /\ accounts[a][b].liab > 0 \/ accounts[a][b].asset > 0 => accounts[a][b].active
  <1>1. accounts[a][b] \in Balance /\ (~accounts[a][b].active => accounts[a][b] = NoBalance)
    BY DEF IInv, TypeOK
  <1> QED
    BY <1>1 DEF Balance, NoBalance

\* A deposit
LEMMA DepositKeeps ==
    ASSUME IInv, NEW a \in Accounts, NEW b \in Banks, NEW n \in Moves, Deposit(a, b, n)
    PROVE  IInv'
  <1> DEFINE y == Increased(accounts[a][b], n)
  <1>1. n \in Nat /\ accounts[a][b] \in Balance /\ accounts[a][b].liab \in Nat
    BY AmountAssumption, ActiveBalance
  <1>2. y \in Balance /\ y.active /\ y.liab <= accounts[a][b].liab
    BY <1>1, ChangedBalance
  <1>3. /\ TagsFit(b, accounts[a]) /\ Holds(a, [accounts[a] EXCEPT ![b] = y])
        /\ disabled' \in SUBSET Accounts
    BY HeldPositions DEF Deposit, IInv, TypeOK
  <1>4. y.liab > 0 => accounts[a][b].liab > 0
    BY <1>1, <1>2 DEF Balance
  <1> HIDE DEF y
  <1> QED
    BY <1>2, <1>3, <1>4, BalanceKeeps

\* A loan
LEMMA BorrowKeeps ==
    ASSUME IInv, NEW a \in Accounts, NEW b \in Banks, NEW n \in Moves, Borrow(a, b, n)
    PROVE  IInv'
  <1> DEFINE y == Decreased(accounts[a][b], n)
             z == [accounts[a] EXCEPT ![b] = y]
  <1>1. n \in Nat /\ accounts[a][b] \in Balance
    BY AmountAssumption, ActiveBalance
  <1>2. y \in Balance /\ y.active
    BY <1>1, ChangedBalance
  <1>3. /\ TagsFit(b, accounts[a]) /\ Holds(a, z) /\ disabled' \in SUBSET Accounts
        /\ Accepts(accounts[a])'
    BY HeldPositions DEF Borrow, IInv, TypeOK
  <1>4. TiersFit(z)
    <2>1. TiersFit(accounts'[a])
      BY <1>3 DEF Accepts, TiersFit, DebtBanks
    <2>2. accounts'[a] = z
      BY <1>3 DEF Holds, IInv, TypeOK
    <2> QED
      BY <2>1, <2>2
  <1> HIDE DEF y
  <1> QED
    BY <1>2, <1>3, <1>4, BalanceKeeps

\* A repayment
LEMMA RepayKeeps ==
    ASSUME IInv, NEW a \in Accounts, NEW b \in Banks, NEW n \in Moves, NEW all \in BOOLEAN,
           Repay(a, b, n, all)
    PROVE  IInv'
  <1> DEFINE y == IF all THEN NoBalance ELSE Increased(accounts[a][b], n)
  <1>1. /\ n \in Nat /\ accounts[a][b] \in Balance /\ accounts[a][b].liab > 0
        /\ accounts[a][b].active
    BY AmountAssumption, ActiveBalance DEF Repay
  <1>2. y \in Balance /\ (y.active \/ y = NoBalance)
    BY <1>1, ChangedBalance DEF NoBalance, Balance
  <1>3. Holds(a, [accounts[a] EXCEPT ![b] = y]) /\ disabled' \in SUBSET Accounts
    BY HeldPositions DEF Repay, IInv, TypeOK
  <1> HIDE DEF y
  <1> QED
    BY <1>1, <1>2, <1>3, BalanceKeeps

\* A withdrawal
LEMMA WithdrawKeeps ==
    ASSUME IInv, NEW a \in Accounts, NEW b \in Banks, NEW n \in Moves, NEW all \in BOOLEAN,
           Withdraw(a, b, n, all)
    PROVE  IInv'
  <1> DEFINE y == IF all THEN NoBalance ELSE Decreased(accounts[a][b], n)
  <1>1. /\ n \in Nat /\ accounts[a][b] \in Balance
        /\ accounts[a][b].liab = 0 /\ accounts[a][b].active
        /\ all \/ n <= accounts[a][b].asset
    BY AmountAssumption, ActiveBalance DEF Withdraw, Balance
  <1>2. y \in Balance /\ (y.active \/ y = NoBalance) /\ y.liab = 0
    BY <1>1, ChangedBalance DEF NoBalance, Balance
  <1>3. Holds(a, [accounts[a] EXCEPT ![b] = y]) /\ disabled' \in SUBSET Accounts
    BY HeldPositions DEF Withdraw, IInv, TypeOK
  <1> HIDE DEF y
  <1> QED
    BY <1>1, <1>2, <1>3, BalanceKeeps

\* An empty balance is closed.
LEMMA CloseKeeps ==
    ASSUME IInv, NEW a \in Accounts, NEW b \in Banks, CloseBalance(a, b)
    PROVE  IInv'
  <1>1. NoBalance \in Balance /\ NoBalance.liab = 0
    BY DEF NoBalance, Balance
  <1>2. Holds(a, [accounts[a] EXCEPT ![b] = NoBalance]) /\ disabled' \in SUBSET Accounts
    BY HeldPositions DEF CloseBalance, IInv, TypeOK
  <1> QED
    BY <1>1, <1>2, BalanceKeeps

\* A debt that nobody will pay
LEMMA BankruptcyKeeps ==
    ASSUME IInv, NEW a \in Accounts, NEW b \in Banks, HandleBankruptcy(a, b)
    PROVE  IInv'
  <1> DEFINE y == Increased(accounts[a][b], accounts[a][b].liab)
  <1>1. /\ accounts[a][b] \in Balance /\ accounts[a][b].liab \in Nat
        /\ accounts[a][b].liab > 0 /\ accounts[a][b].active
    BY ActiveBalance DEF HandleBankruptcy
  <1>2. y \in Balance /\ y.active
    BY <1>1, ChangedBalance
  <1>3. Holds(a, [accounts[a] EXCEPT ![b] = y]) /\ disabled' \in SUBSET Accounts
    BY HeldPositions DEF HandleBankruptcy, IInv, TypeOK
  <1> HIDE DEF y
  <1> QED
    BY <1>1, <1>2, <1>3, BalanceKeeps

\* What the price of a feed is, and how sure of it: no less than zero where it loads.
LEMMA FeedType ==
    ASSUME TypeOK, NEW b \in Banks, BankLoads(b), NEW t \in {"RealTime", "TimeWeighted"}
    PROVE  LET quote == Feed(banks[b], sources[b])[t]
           IN quote.price \in Nat /\ quote.conf \in Nat
  <1> DEFINE bank == banks[b]
             s == sources[b]
             worth == Worth(bank, s)
  <1>1. /\ s.price \in Nat /\ s.ema \in Nat /\ s.conf \in Nat /\ s.emaConf \in Nat
        /\ s.tokens \in Nat /\ s.shares \in Nat
    BY DEF TypeOK, Source
  <1>2. CASE bank.setup = "fixed"
    <2>1. bank.fixedPrice \in Nat
      BY <1>2, SettingFacts
           DEF BankLoads, Loads, PythSetups, SwitchboardSetups
    <2> QED
      BY <1>2, <2>1 DEF Feed
  <1>3. CASE bank.setup # "fixed"
    <2>1. worth[1] \in Nat /\ worth[2] \in Nat \ {0}
      <3>1. CASE bank.setup = "staked_pyth"
        <4>1. s.shares > 0 /\ s.tokens >= 1
          BY <1>3, <3>1 DEF BankLoads, Loads, PoolBacks, PoolMinimum
        <4> QED
          BY <1>1, <3>1, <4>1 DEF Worth, PoolMinimum
      <3>2. CASE bank.setup # "staked_pyth"
        BY <1>1, <3>2 DEF Worth
      <3> QED
        BY <3>1, <3>2
    <2> HIDE DEF worth
    <2>2. \A p \in Nat : Adjusted(p, worth) \in Nat
      <3> TAKE p \in Nat
      <3>1. p * worth[1] \in Nat
        BY <2>1
      <3> QED
        BY <2>1, <3>1, Quotient DEF Adjusted
    <2> QED
      BY <1>1, <1>3, <2>2 DEF Feed, worth
  <1> QED
    BY <1>2, <1>3

\* The cautious prices are no less than zero.
LEMMA PriceNat ==
    ASSUME TypeOK, NEW b \in Banks, BankLoads(b), NEW t \in {"RealTime", "TimeWeighted"}
    PROVE  Low(b, t) \in Nat /\ High(b, t) \in Nat
  <1> DEFINE quote == Feed(banks[b], sources[b])[t]
             interval == Interval(banks[b], quote)
             cap == (quote.price * ConfidenceCap) \div 100
             sure == Confidence(banks[b], sources[b], t)
  <1>1. quote.price \in Nat /\ quote.conf \in Nat
    BY FeedType
  <1> HIDE DEF quote
  <1>2. interval \in Nat
    BY <1>1 DEF Interval, PythMultiple, SwitchboardMultiple
  <1>3. cap \in Nat /\ cap <= quote.price
    BY <1>1 DEF ConfidenceCap
  <1>4. sure = IF interval <= cap THEN interval ELSE cap
    BY DEF Confidence, quote
  <1> HIDE DEF interval, cap, sure
  <1>5. sure \in Nat /\ sure <= quote.price
    BY <1>1, <1>2, <1>3, <1>4
  <1>6. quote.price - sure \in Nat /\ quote.price + sure \in Nat
    BY <1>1, <1>5
  <1> QED
    BY <1>6 DEF Low, High, LowPrice, HighPrice, sure, quote

\* A liquidation
LEMMA LiquidateKeeps ==
    ASSUME IInv, NEW a \in Accounts, NEW u \in Accounts, NEW ab \in Banks, NEW lb \in Banks,
           NEW n \in Seizures, Liquidate(a, u, ab, lb, n)
    PROVE  IInv'
  <1> DEFINE worth == n * Low(ab, "RealTime")
             price == High(lb, "RealTime")
             taken == (worth * (40 - LiquidatorFee)) \div (40 * price)
             paid == (worth * (40 - LiquidatorFee - InsuranceFee)) \div (40 * price)
             vb == Decreased(accounts[u][ab], n)
             vl == Increased(accounts[u][lb], paid)
             x0 == [accounts[u] EXCEPT ![ab] = vb]
             x == [x0 EXCEPT ![lb] = vl]
             wl == Decreased(accounts[a][lb], taken)
             y0 == [accounts[a] EXCEPT ![lb] = wl]
             wb == Increased(y0[ab], n)
             y == [y0 EXCEPT ![ab] = wb]
  <1>1. n \in Nat /\ n > 0 /\ a # u /\ ab # lb
    BY AmountAssumption DEF Liquidate
  <1>2. taken \in Nat /\ paid \in Nat
    <2>1. Low(ab, "RealTime") \in Nat /\ price \in Nat \ {0}
      <3>1. /\ BankLoads(ab) /\ BankLoads(lb) /\ price > 0
        BY DEF Liquidate, BankTrusted
      <3> QED
        BY <3>1, PriceNat DEF IInv
    <2> HIDE DEF price
    <2>2. worth \in Nat
      BY <1>1, <2>1
    <2> HIDE DEF worth
    <2>3. worth * (40 - LiquidatorFee) \in Nat
          /\ worth * (40 - LiquidatorFee - InsuranceFee) \in Nat /\ 40 * price \in Nat \ {0}
      BY <2>1, <2>2 DEF LiquidatorFee, InsuranceFee
    <2> QED
      BY <2>3, Quotient
  <1> HIDE DEF taken, paid
  <1>3. /\ accounts[u][ab] \in Balance /\ accounts[u][lb] \in Balance
        /\ accounts[a][ab] \in Balance /\ accounts[a][lb] \in Balance
        /\ Tagged(accounts[u]) /\ Tiered(accounts[u]) /\ Tagged(accounts[a])
        /\ accounts[u] \in [Banks -> Balance] /\ accounts[a] \in [Banks -> Balance]
    BY ActiveBalance, HeldPositions
  <1>4. /\ n <= accounts[u][ab].asset /\ paid <= accounts[u][lb].liab
        /\ accounts[u][lb].liab > 0
        /\ TagsFit(lb, accounts[u]) /\ TagsFit(lb, accounts[a]) /\ TagsFit(ab, accounts[a])
        /\ PairFits(ab, lb) /\ Accepts(accounts[a])'
        /\ accounts' = [accounts EXCEPT ![u] = x, ![a] = y]
        /\ UNCHANGED <<disabled, states, sources, now>>
    BY DEF Liquidate, Liquidatable, taken, paid
  <1>5. /\ accounts[u][ab].active /\ accounts[u][lb].active
    BY <1>1, <1>3, <1>4, ActiveBalance DEF Balance
  <1>6. /\ vb \in Balance /\ vb.active /\ vb.liab = accounts[u][ab].liab
        /\ vl \in Balance /\ vl.active /\ vl.liab <= accounts[u][lb].liab
        /\ wl \in Balance /\ wl.active
    BY <1>1, <1>2, <1>3, <1>4, ChangedBalance
  <1>7. y0[ab] = accounts[a][ab] /\ wb \in Balance /\ wb.active
    BY <1>1, <1>3, ChangedBalance
  <1>8. Tagged(x) /\ Tiered(x)
    <2>1. Tagged(x0)
      BY <1>3, <1>5, <1>6, TagsKept
    <2>2. x0[lb].active
      BY <1>1, <1>3, <1>5
    <2>3. Tagged(x)
      <3> HIDE DEF x0, vl
      <3> QED
        BY <1>6, <2>1, <2>2, TagsKept
    <2>4. \A b \in Banks : x[b].liab > 0 => accounts[u][b].liab > 0
      <3> HIDE DEF vb, vl
      <3>1. \A b \in Banks : x[b] = IF b = lb THEN vl ELSE IF b = ab THEN vb ELSE accounts[u][b]
        BY <1>3
      <3> QED
        BY <1>4, <1>6, <3>1
    <2> HIDE DEF x
    <2> QED
      BY <1>3, <2>3, <2>4, TiersKept
  <1>9. Tagged(y)
    <2>1. Tagged(y0)
      <3> HIDE DEF wl
      <3> QED
        BY <1>3, <1>4, <1>6, TagsKept
    <2>2. TagsFit(ab, y0)
      <3>1. \A c \in Banks : y0[c].active => c = lb \/ accounts[a][c].active
        BY <1>3
      <3> HIDE DEF y0
      <3> QED
        BY <1>4, <3>1 DEF TagsFit, PairFits
    <2> HIDE DEF y0, wb
    <2> QED
      BY <1>7, <2>1, <2>2, TagsKept
  <1>10. accounts'[u] = x /\ accounts'[a] = y
         /\ \A v \in Accounts \ {a, u} : accounts'[v] = accounts[v]
    <2> HIDE DEF x, y
    <2> QED
      BY <1>1, <1>4 DEF IInv, TypeOK
  <1> HIDE DEF x, y
  <1>11. Tiered(y)
    <2>1. TiersFit(accounts'[a])
      BY <1>4 DEF Accepts, TiersFit, DebtBanks
    <2> QED
      BY <1>10, <2>1, TiersChecked
  <1>12. \A v \in Accounts : Tagged(accounts'[v]) /\ Tiered(accounts'[v])
    BY <1>8, <1>9, <1>10, <1>11, HeldPositions
  <1>13. TypeOK'
    <2>1. accounts' \in [Accounts -> [Banks -> Balance]]
      BY <1>4, <1>8, <1>9 DEF Tagged, IInv, TypeOK
    <2> QED
      BY <1>4, <2>1 DEF IInv, TypeOK
  <1>14. \A v \in Accounts, b \in Banks :
            ~accounts'[v][b].active => accounts'[v][b] = NoBalance
    BY <1>12 DEF Tagged
  <1>15. PositionsCompatible'
    BY <1>12 DEF PositionsCompatible, Tagged, Tiered
  <1> QED
    BY <1>13, <1>14, <1>15 DEF IInv

\* Banks, publishers, venues and the clock leave all positions what they are.
LEMMA MarketKeeps ==
    ASSUME IInv,
           \/ \E b \in Banks : \/ \E s \in States : SetState(b, s)
                               \/ \E r \in Readings[b] : Publish(b, r)
                               \/ \E k \in Backings[b] : Rebase(b, k)
           \/ Tick
    PROVE  IInv'
  <1>1. sources \in [Banks -> Source] /\ now \in Nat
    BY DEF IInv, TypeOK
  <1>2. UNCHANGED <<accounts, disabled>>
    BY DEF SetState, Publish, Rebase, Changes, Tick
  <1>3. sources' \in [Banks -> Source]
    <2>1. CASE \E b \in Banks, s \in States : SetState(b, s)
      BY <1>1, <2>1 DEF SetState
    <2>2. ASSUME NEW b \in Banks, NEW r \in Readings[b], Publish(b, r)
          PROVE  sources' \in [Banks -> Source]
      <3>1. r \in [price : Nat, ema : Nat, conf : Nat, emaConf : Nat]
        BY BankAssumption
      <3>2. sources[b] \in Source
        BY <1>1
      <3> QED
        BY <1>1, <2>2, <3>1, <3>2, PublishedSource DEF Publish, Changes
    <2>3. ASSUME NEW b \in Banks, NEW k \in Backings[b], Rebase(b, k)
          PROVE  sources' \in [Banks -> Source]
      <3>1. k \in [tokens : Nat, shares : Nat]
        BY BankAssumption
      <3>2. sources[b] \in Source
        BY <1>1
      <3> QED
        BY <1>1, <2>3, <3>1, <3>2, RebasedSource DEF Rebase, Changes
    <2>4. CASE Tick
      <3>1. \A s \in Source : [s EXCEPT !.refreshed = FALSE] \in Source
        BY DEF Source
      <3> QED
        BY <1>1, <2>4, <3>1 DEF Tick
    <2> QED
      BY <2>1, <2>2, <2>3, <2>4
  <1>4. DOMAIN states' = Banks /\ now' \in Nat
    <2>1. DOMAIN states = Banks
      BY DEF IInv, TypeOK
    <2>2. ASSUME NEW b \in Banks, NEW s \in States, SetState(b, s)
          PROVE  DOMAIN states' = Banks /\ now' \in Nat
      BY <1>1, <2>1, <2>2 DEF SetState
    <2>3. ASSUME NEW b \in Banks,
                 \/ \E r \in Readings[b] : Publish(b, r)
                 \/ \E k \in Backings[b] : Rebase(b, k)
          PROVE  DOMAIN states' = Banks /\ now' \in Nat
      BY <1>1, <2>1, <2>3 DEF Publish, Rebase, Changes
    <2>4. ASSUME Tick PROVE DOMAIN states' = Banks /\ now' \in Nat
      BY <1>1, <2>1, <2>4 DEF Tick
    <2> QED
      BY <2>2, <2>3, <2>4
  <1>5. TypeOK'
    BY <1>2, <1>3, <1>4 DEF IInv, TypeOK
  <1> QED
    BY <1>2, <1>5, StillKeeps

\* Every step keeps the invariant.
LEMMA StepKeeps == IInv /\ [Next]_riskVars => IInv'
  <1> SUFFICES ASSUME IInv, [Next]_riskVars PROVE IInv'
    OBVIOUS
  <1>1. ASSUME UNCHANGED riskVars PROVE IInv'
    <2>1. UNCHANGED <<accounts, disabled>> /\ TypeOK'
      BY <1>1 DEF riskVars, IInv, TypeOK
    <2> QED
      BY <2>1, StillKeeps
  <1>2. ASSUME NEW a \in Accounts, NEW b \in Banks, NEW n \in Moves,
               \/ Deposit(a, b, n) \/ Borrow(a, b, n)
               \/ \E all \in BOOLEAN : Repay(a, b, n, all) \/ Withdraw(a, b, n, all)
        PROVE  IInv'
    BY <1>2, DepositKeeps, BorrowKeeps, RepayKeeps, WithdrawKeeps
  <1>3. ASSUME NEW a \in Accounts, NEW b \in Banks, CloseBalance(a, b) \/ HandleBankruptcy(a, b)
        PROVE  IInv'
    BY <1>3, CloseKeeps, BankruptcyKeeps
  <1> QED
    BY <1>1, <1>2, <1>3, LiquidateKeeps, MarketKeeps DEF Next

\* The accounts as they are found
LEMMA InitInv == Init => IInv
  <1> SUFFICES ASSUME Init PROVE IInv
    OBVIOUS
  <1>1. TypeOK
    <2>1. sources \in [Banks -> Source]
      BY NewSourceType DEF Init
    <2> QED
      BY <2>1, OpeningAssumption DEF Init, TypeOK
  <1>2. \A a \in Accounts : DebtBanks(accounts[a]) = {}
    BY OpeningAssumption DEF Init, DebtBanks
  <1> QED
    BY <1>1, <1>2, OpeningAssumption DEF Init, IInv, PositionsCompatible

\* Types, active balances and compatible positions, whatever is lent, liquidated or lost.
THEOREM RiskInvariant == Spec => []IInv
  BY InitInv, StepKeeps, PTL DEF Spec

\* No account ever holds staked positions next to default ones, or an isolated debt next to
\* another, however it is liquidated or liquidates (validate_asset_tags).
THEOREM PositionsStayCompatible == Spec => []PositionsCompatible
  <1>1. IInv => PositionsCompatible
    BY DEF IInv
  <1> QED
    BY <1>1, RiskInvariant, PTL

-----------------------------------------------------------------------------
(* Weights *)

\* The greater of two.
LEMMA MaxOfTwo ==
    ASSUME NEW m \in Int, NEW n \in Int
    PROVE  Max({m, n}) \in {m, n} /\ m <= Max({m, n}) /\ n <= Max({m, n})
  <1>1. \E x \in {m, n} : \A y \in {m, n} : x >= y
    OBVIOUS
  <1> QED
    BY <1>1 DEF Max

\* What the entries in force give: the least of them, the requirement for a loan being
\* the stricter one.
LEMMA EmodeWeightFacts ==
    ASSUME NEW x, NEW tag, EntriesInForce(x, tag) # {}
    PROVE  LET entries == EntriesInForce(x, tag)
           IN /\ EmodeWeight(entries, "Initial") \in Nat
              /\ EmodeWeight(entries, "Maintenance") \in Nat
              /\ EmodeWeight(entries, "Initial") <= EmodeWeight(entries, "Maintenance")
              /\ \A e \in entries : EmodeWeight(entries, "Initial") <= e.init
  <1> DEFINE entries == EntriesInForce(x, tag)
             inits == {e.init : e \in entries}
             maints == {e.maint : e \in entries}
  <1>1. \A e \in entries : e.init \in Nat /\ e.maint \in Nat /\ e.init <= e.maint
    <2> TAKE e \in entries
    <2>1. PICK b \in Banks : e \in banks[b].entries
      BY DEF EntriesInForce, DebtBanks
    <2> QED
      BY <2>1, SettingFacts
  <1>2. /\ EmodeWeight(entries, "Initial") = Min(inits)
        /\ EmodeWeight(entries, "Maintenance") = Min(maints)
    BY DEF EmodeWeight
  <1> HIDE DEF entries
  <1>3. entries # {}
    BY DEF entries
  <1>4. inits \in SUBSET Nat /\ maints \in SUBSET Nat /\ inits # {} /\ maints # {}
    BY <1>1, <1>3
  <1>5. /\ Min(inits) \in inits /\ \A i \in inits : Min(inits) <= i
        /\ Min(maints) \in maints /\ \A i \in maints : Min(maints) <= i
    <2> HIDE DEF inits, maints
    <2> QED
      BY <1>4, LeastExists
  <1>6. Min(inits) <= Min(maints)
    <2>1. PICK e \in entries : Min(maints) = e.maint
      BY <1>5
    <2>2. Min(inits) <= e.init /\ Min(inits) \in Nat
      BY <1>4, <1>5
    <2> HIDE DEF inits, maints
    <2> QED
      BY <1>1, <2>1, <2>2
  <1>7. \A e \in entries : Min(inits) <= e.init
    BY <1>5
  <1>8. Min(inits) \in Nat /\ Min(maints) \in Nat
    BY <1>4, <1>5
  <1> HIDE DEF inits, maints
  <1>9. /\ EmodeWeight(entries, "Initial") \in Nat
        /\ EmodeWeight(entries, "Maintenance") \in Nat
        /\ EmodeWeight(entries, "Initial") <= EmodeWeight(entries, "Maintenance")
        /\ \A e \in entries : EmodeWeight(entries, "Initial") <= e.init
    BY <1>2, <1>6, <1>7, <1>8
  <1> QED
    BY <1>9 DEF entries

\* An asset counts for no more in a new loan than later, whatever the emode.
LEMMA AssetWeights ==
    ASSUME NEW x, NEW b \in Banks
    PROVE  /\ AssetWeight(x, b, "Initial") \in Nat
           /\ AssetWeight(x, b, "Maintenance") \in Nat
           /\ AssetWeight(x, b, "Initial") <= AssetWeight(x, b, "Maintenance")
  <1> DEFINE entries == EntriesInForce(x, banks[b].emodeTag)
  <1>1. /\ OwnWeight(b, "Initial") \in Nat /\ OwnWeight(b, "Maintenance") \in Nat
        /\ OwnWeight(b, "Initial") <= OwnWeight(b, "Maintenance")
    BY SettingFacts DEF OwnWeight
  <1>2. CASE banks[b].emodeTag = 0 \/ entries = {}
    BY <1>1, <1>2 DEF AssetWeight
  <1>3. CASE ~(banks[b].emodeTag = 0 \/ entries = {})
    <2> DEFINE oi == OwnWeight(b, "Initial")
               om == OwnWeight(b, "Maintenance")
               ei == EmodeWeight(entries, "Initial")
               em == EmodeWeight(entries, "Maintenance")
    <2>1. ei \in Nat /\ em \in Nat /\ ei <= em
      BY <1>3, EmodeWeightFacts
    <2>2. /\ AssetWeight(x, b, "Initial") = Max({oi, ei})
          /\ AssetWeight(x, b, "Maintenance") = Max({om, em})
      BY <1>3 DEF AssetWeight
    <2> HIDE DEF oi, om, ei, em
    <2>3. oi \in Nat /\ om \in Nat /\ oi <= om
      BY <1>1 DEF oi, om
    <2>4. /\ Max({oi, ei}) \in {oi, ei} /\ Max({om, em}) \in {om, em}
          /\ om <= Max({om, em}) /\ em <= Max({om, em})
      BY <2>1, <2>3, MaxOfTwo
    <2>5. Max({oi, ei}) <= Max({om, em}) /\ Max({oi, ei}) \in Nat /\ Max({om, em}) \in Nat
      BY <2>1, <2>3, <2>4
    <2> QED
      BY <2>2, <2>5
  <1> QED
    BY <1>2, <1>3

\* Emode gives an asset no more weight than any of the debts has, as long as each bank's
\* entries are below its own weight.
LEMMA WeightWithinDebts ==
    ASSUME EmodeValidated, NEW x, NEW b \in Banks, NEW d \in DebtBanks(x)
    PROVE  AssetWeight(x, b, "Initial") <= banks[d].li
  <1> DEFINE tag == banks[b].emodeTag
             entries == EntriesInForce(x, tag)
  <1>1. d \in Banks
    BY DEF DebtBanks
  <1>2. /\ OwnWeight(b, "Initial") \in Nat /\ banks[d].li \in Nat
        /\ OwnWeight(b, "Initial") <= banks[d].li
    BY <1>1, SettingFacts DEF OwnWeight, One
  <1>3. CASE tag = 0 \/ entries = {}
    BY <1>2, <1>3 DEF AssetWeight
  <1>4. CASE ~(tag = 0 \/ entries = {})
    <2> DEFINE oi == OwnWeight(b, "Initial")
               ei == EmodeWeight(entries, "Initial")
    <2>1. ei \in Nat /\ \A e \in entries : ei <= e.init
      BY <1>4, EmodeWeightFacts
    <2>2. AssetWeight(x, b, "Initial") = Max({oi, ei})
      BY <1>4 DEF AssetWeight
    <2>3. PICK f \in banks[d].entries : f.tag = tag
      BY <1>4 DEF EntriesInForce
    <2>4. f \in entries
      <3>1. \A c \in DebtBanks(x) : \E g \in banks[c].entries : g.tag = tag
        BY <1>4 DEF EntriesInForce
      <3> QED
        BY <2>3, <3>1 DEF EntriesInForce
    <2>5. f.init <= banks[d].li /\ f.init \in Nat
      BY <1>1, <2>3, SettingFacts DEF EmodeValidated
    <2> HIDE DEF oi, ei, entries
    <2>6. oi \in Nat /\ oi <= banks[d].li
      BY <1>2 DEF oi
    <2>7. ei <= banks[d].li
      BY <1>2, <2>1, <2>4, <2>5
    <2>8. oi \in Int /\ ei \in Int
      BY <2>1, <2>6 DEF ei
    <2>9. Max({oi, ei}) \in {oi, ei}
      BY <2>8, MaxOfTwo
    <2> QED
      BY <2>2, <2>6, <2>7, <2>9
  <1> QED
    BY <1>3, <1>4

-----------------------------------------------------------------------------
(* Values *)

\* There are finitely many banks to sum over.
LEMMA FiniteBanks == \A S \in SUBSET Banks : IsFiniteSet(S)
  BY BankAssumption, FS_Subset

\* What a bank holds is an amount.
LEMMA TotalNat ==
    ASSUME TypeOK, NEW b \in Banks
    PROVE  TotalAssets(b) \in Nat
  <1> DEFINE f == [a \in Accounts |-> accounts[a][b].asset]
  <1>1. \A a \in Accounts : f[a] \in Nat
    BY DEF TypeOK, Balance
  <1>2. SumFunction(f) = SumFunctionOnSet(f, Accounts)
    BY DEF SumFunction
  <1> HIDE DEF f
  <1>3. SumFunction(f) \in Nat
    BY <1>1, <1>2, BankAssumption, SumNat
  <1> QED
    BY <1>3, BankAssumption DEF TotalAssets, f

\* A discount takes something off, if anything.
LEMMA DiscountTakesOff ==
    ASSUME TypeOK, NEW b \in Banks, NEW value \in Nat, NEW price \in Nat, NEW req
    PROVE  /\ Discounted(value, b, price, req) \in Nat
           /\ Discounted(value, b, price, req) <= value
  <1> DEFINE total == TotalAssets(b) * price
             limit == banks[b].valueLimit
  <1>1. total \in Nat /\ limit \in Nat
    <2>1. TotalAssets(b) \in Nat
      BY TotalNat
    <2> QED
      BY <2>1, SettingFacts
  <1> HIDE DEF total, limit
  <1>2. CASE req = "Initial" /\ limit # 0 /\ total > limit
    <2>1. Discounted(value, b, price, req) = (value * limit) \div total
      BY <1>2 DEF Discounted, total, limit
    <2>2. total \in Nat \ {0} /\ value * limit \in Nat
      BY <1>1, <1>2
    <2>3. value * limit <= value * total
      BY <1>1, <1>2
    <2>4. value * limit < value * total + total
      BY <1>1, <2>2, <2>3
    <2>5. (value * limit) \div total <= value
      BY <2>2, <2>4, QuotientAtMost
    <2> QED
      BY <2>1, <2>2, <2>5, Quotient
  <1>3. CASE ~(req = "Initial" /\ limit # 0 /\ total > limit)
    BY <1>3 DEF Discounted, total, limit
  <1> QED
    BY <1>2, <1>3

\* Nothing counts for less than nothing.
LEMMA ValueNat ==
    ASSUME TypeOK, NEW x \in [Banks -> Balance], NEW b \in Banks,
           NEW req \in {"Initial", "Maintenance", "Equity"}
    PROVE  /\ AssetValue(x, b, req) \in Nat
           /\ BankLoads(b) => LiabValue(x, b, req) \in Nat
  <1> DEFINE type == PriceType(req)
  <1>1. type \in {"RealTime", "TimeWeighted"}
    BY DEF PriceType
  <1> HIDE DEF type
  <1>2. x[b].asset \in Nat /\ x[b].liab \in Nat
    BY DEF Balance
  <1>3. AssetWeight(x, b, req) \in Nat /\ LiabWeight(b, req) \in Nat
    <2>1. AssetWeight(x, b, "Equity") \in Nat
      BY DEF AssetWeight, One
    <2>2. LiabWeight(b, req) \in Nat
      BY SettingFacts DEF LiabWeight, One
    <2> QED
      BY <2>1, <2>2, AssetWeights
  <1>4. CASE ~Counts(b, req) \/ ~BankLoads(b)
    BY <1>2, <1>4, <1>1, <1>3, PriceNat DEF AssetValue, LiabValue, type
  <1>5. CASE Counts(b, req) /\ BankLoads(b)
    <2>1. Low(b, type) \in Nat /\ High(b, type) \in Nat
      BY <1>1, <1>5, PriceNat
    <2>2. x[b].asset * AssetWeight(x, b, req) * Low(b, type) \in Nat
      BY <1>2, <1>3, <2>1
    <2>3. AssetValue(x, b, req)
            = Discounted(x[b].asset * AssetWeight(x, b, req) * Low(b, type), b, Low(b, type), req)
      BY <1>5 DEF AssetValue, type
    <2>4. LiabValue(x, b, req) \in Nat
      BY <1>2, <1>3, <2>1 DEF LiabValue, type
    <2> QED
      BY <2>1, <2>2, <2>3, <2>4, DiscountTakesOff
  <1> QED
    BY <1>4, <1>5

\* What an account has and owes, in total, where the oracles of its debts load.
LEMMA HealthParts ==
    ASSUME TypeOK, NEW x \in [Banks -> Balance],
           NEW req \in {"Initial", "Maintenance", "Equity"},
           \A b \in DebtBanks(x) : BankLoads(b)
    PROVE  Assets(x, req) \in Nat /\ Liabs(x, req) \in Nat
  <1> DEFINE held == {c \in Banks : x[c].asset > 0}
             f == [b \in held |-> AssetValue(x, b, req)]
             g == [b \in DebtBanks(x) |-> LiabValue(x, b, req)]
  <1>1. held \in SUBSET Banks /\ DebtBanks(x) \in SUBSET Banks
    BY DEF DebtBanks
  <1>2. \A b \in held : f[b] \in Nat
    BY ValueNat
  <1>3. \A b \in DebtBanks(x) : g[b] \in Nat
    BY <1>1, ValueNat DEF DebtBanks
  <1>4. /\ Assets(x, req) = SumFunctionOnSet(f, held)
        /\ Liabs(x, req) = SumFunctionOnSet(g, DebtBanks(x))
    BY DEF Assets, Liabs, SumFunction
  <1> HIDE DEF f, g, held
  <1> QED
    BY <1>1, <1>2, <1>3, <1>4, FiniteBanks, SumNat

-----------------------------------------------------------------------------
(* The two requirements compared *)

\* At a steady price, no asset counts for more in a new loan than later...
LEMMA AssetsStricter ==
    ASSUME TypeOK, NEW x \in [Banks -> Balance], NEW b \in Banks,
           BankLoads(b) => Low(b, "TimeWeighted") = Low(b, "RealTime")
    PROVE  AssetValue(x, b, "Initial") <= AssetValue(x, b, "Maintenance")
  <1>1. /\ AssetValue(x, b, "Initial") \in Nat
        /\ AssetValue(x, b, "Maintenance") \in Nat
    BY ValueNat
  <1>2. CASE ~Counts(b, "Initial") \/ ~BankLoads(b)
    BY <1>1, <1>2 DEF AssetValue
  <1>3. CASE Counts(b, "Initial") /\ BankLoads(b)
    <2> DEFINE low == Low(b, "RealTime")
               wi == AssetWeight(x, b, "Initial")
               wm == AssetWeight(x, b, "Maintenance")
               n == x[b].asset
    <2>1. low \in Nat /\ n \in Nat /\ wi \in Nat /\ wm \in Nat /\ wi <= wm
      BY <1>3, PriceNat, AssetWeights DEF Balance
    <2>2. /\ AssetValue(x, b, "Initial") = Discounted(n * wi * low, b, low, "Initial")
          /\ AssetValue(x, b, "Maintenance") = n * wm * low
      BY <1>3 DEF AssetValue, PriceType, Counts, Discounted
    <2> HIDE DEF low, wi, wm, n
    <2>3. n * wi * low \in Nat /\ n * wi * low <= n * wm * low
      <3>1. wi * (n * low) <= wm * (n * low)
        BY <2>1, ProductMonotonic
      <3> QED
        BY <2>1, <3>1
    <2> QED
      BY <1>1, <2>1, <2>2, <2>3, DiscountTakesOff
  <1> QED
    BY <1>2, <1>3

\* ... and no debt for less.
LEMMA DebtsStricter ==
    ASSUME TypeOK, NEW x \in [Banks -> Balance], NEW b \in Banks, BankLoads(b),
           High(b, "TimeWeighted") = High(b, "RealTime")
    PROVE  LiabValue(x, b, "Maintenance") <= LiabValue(x, b, "Initial")
  <1> DEFINE high == High(b, "RealTime")
             n == x[b].liab
             lm == banks[b].lm
             li == banks[b].li
  <1>1. high \in Nat /\ n \in Nat /\ lm \in Nat /\ li \in Nat /\ lm <= li
    BY PriceNat, SettingFacts DEF Balance
  <1>2. /\ LiabValue(x, b, "Initial") = n * li * high
        /\ LiabValue(x, b, "Maintenance") = n * lm * high
    BY DEF LiabValue, LiabWeight, PriceType
  <1> HIDE DEF high, n, lm, li
  <1>3. lm * (n * high) <= li * (n * high)
    BY <1>1, ProductMonotonic
  <1> QED
    BY <1>1, <1>2, <1>3

\* Where the two prices agree, so do what is taken off and what is added to them.
LEMMA SteadyPrices ==
    ASSUME NEW b \in Banks,
           LET feed == Feed(banks[b], sources[b]) IN feed.RealTime = feed.TimeWeighted
    PROVE  /\ Low(b, "TimeWeighted") = Low(b, "RealTime")
           /\ High(b, "TimeWeighted") = High(b, "RealTime")
  <1> DEFINE feed == Feed(banks[b], sources[b])
  <1>1. feed["TimeWeighted"] = feed["RealTime"]
    BY DEF Feed
  <1> HIDE DEF feed
  <1> QED
    BY <1>1 DEF Low, High, LowPrice, HighPrice, Confidence, feed

\* What is good enough for a new loan is good enough to stay.
LEMMA AcceptedIsHealthy ==
    ASSUME TypeOK, NEW x \in [Banks -> Balance],
           Steady(x), Accepts(x), Assessable(x, "Maintenance")
    PROVE  Health(x, "Maintenance") >= 0
  <1> DEFINE held == {c \in Banks : x[c].asset > 0}
             debts == DebtBanks(x)
             ai == [b \in held |-> AssetValue(x, b, "Initial")]
             am == [b \in held |-> AssetValue(x, b, "Maintenance")]
             di == [b \in debts |-> LiabValue(x, b, "Initial")]
             dm == [b \in debts |-> LiabValue(x, b, "Maintenance")]
  <1>1. held \in SUBSET Banks /\ debts \in SUBSET Banks
    BY DEF DebtBanks
  <1>2. \A b \in held : ai[b] \in Int /\ am[b] \in Int /\ ai[b] <= am[b]
    <2> TAKE b \in held
    <2>1. b \in Banks /\ x[b].asset + x[b].liab > 0
      BY DEF Balance
    <2>2. BankLoads(b) => Low(b, "TimeWeighted") = Low(b, "RealTime")
      BY <2>1, SteadyPrices DEF Steady
    <2>3. AssetValue(x, b, "Initial") <= AssetValue(x, b, "Maintenance")
      BY <2>1, <2>2, AssetsStricter
    <2>4. AssetValue(x, b, "Initial") \in Nat /\ AssetValue(x, b, "Maintenance") \in Nat
      BY <2>1, ValueNat
    <2> QED
      BY <2>3, <2>4
  <1>3. \A b \in debts : dm[b] \in Int /\ di[b] \in Int /\ dm[b] <= di[b]
    <2> TAKE b \in debts
    <2>1. b \in Banks /\ x[b].asset + x[b].liab > 0
      BY DEF DebtBanks, Balance
    <2>2. BankLoads(b)
      BY DEF Assessable, BankTrusted, DebtBanks
    <2>3. High(b, "TimeWeighted") = High(b, "RealTime")
      BY <2>1, <2>2, SteadyPrices DEF Steady
    <2>4. LiabValue(x, b, "Maintenance") <= LiabValue(x, b, "Initial")
      BY <2>1, <2>2, <2>3, DebtsStricter
    <2>5. LiabValue(x, b, "Initial") \in Nat /\ LiabValue(x, b, "Maintenance") \in Nat
      BY <2>1, <2>2, ValueNat
    <2> QED
      BY <2>4, <2>5
  <1>4. /\ Assets(x, "Initial") = SumFunctionOnSet(ai, held)
        /\ Assets(x, "Maintenance") = SumFunctionOnSet(am, held)
        /\ Liabs(x, "Initial") = SumFunctionOnSet(di, debts)
        /\ Liabs(x, "Maintenance") = SumFunctionOnSet(dm, debts)
    BY DEF Assets, Liabs, SumFunction
  <1> HIDE DEF ai, am, di, dm, held, debts
  <1>5. /\ Assets(x, "Initial") <= Assets(x, "Maintenance")
        /\ Liabs(x, "Maintenance") <= Liabs(x, "Initial")
    BY <1>1, <1>2, <1>3, <1>4, FiniteBanks, SumMonotonic
  <1>6. Assessable(x, "Initial") /\ Assets(x, "Initial") - Liabs(x, "Initial") >= 0
    BY DEF Accepts, Health
  <1>7. /\ Assets(x, "Initial") \in Nat /\ Liabs(x, "Initial") \in Nat
        /\ Assets(x, "Maintenance") \in Nat /\ Liabs(x, "Maintenance") \in Nat
    <2>1. \A b \in DebtBanks(x) : BankLoads(b)
      BY <1>6 DEF Assessable, BankTrusted, DebtBanks
    <2> QED
      BY <2>1, HealthParts
  <1> QED
    BY <1>5, <1>6, <1>7 DEF Health

\* While averages follow prices, nobody who is good enough for a new loan can be liquidated,
\* whatever the account holds and owes and whatever emode its banks have configured.
THEOREM AcceptedStaysHealthy == Spec => []AcceptedNotLiquidatable
  <1>1. IInv => AcceptedNotLiquidatable
    <2> SUFFICES ASSUME IInv, NEW a \in Accounts, Steady(accounts[a]), Accepts(accounts[a]),
                        Assessable(accounts[a], "Maintenance")
                 PROVE  Health(accounts[a], "Maintenance") >= 0
      BY DEF AcceptedNotLiquidatable
    <2>1. accounts[a] \in [Banks -> Balance] /\ TypeOK
      BY HeldPositions DEF IInv
    <2> QED
      BY <2>1, AcceptedIsHealthy
  <1> QED
    BY <1>1, RiskInvariant, PTL

-----------------------------------------------------------------------------
(* What an account that is accepted owns *)

\* What an asset counts for in a new loan is a part of what it is worth, and the part is no
\* greater than the least weight of a debt.
LEMMA AssetsCovered ==
    ASSUME TypeOK, NEW x \in [Banks -> Balance], NEW b \in Banks, NEW least \in Nat,
           AssetWeight(x, b, "Initial") <= least
    PROVE  One * AssetValue(x, b, "Initial") <= least * AssetValue(x, b, "Equity")
  <1>1. /\ AssetValue(x, b, "Initial") \in Nat
        /\ AssetValue(x, b, "Equity") \in Nat
    BY ValueNat
  <1>2. CASE ~Counts(b, "Initial") \/ ~BankLoads(b)
    <2>1. AssetValue(x, b, "Initial") = 0
      BY <1>2 DEF AssetValue
    <2>2. least * AssetValue(x, b, "Equity") \in Nat
      BY <1>1
    <2> QED
      BY <2>1, <2>2 DEF One
  <1>3. CASE Counts(b, "Initial") /\ BankLoads(b)
    <2> DEFINE low == Low(b, "TimeWeighted")
               w == AssetWeight(x, b, "Initial")
               n == x[b].asset
    <2>1. low \in Nat /\ n \in Nat /\ w \in Nat /\ w <= least
      BY <1>3, PriceNat, AssetWeights DEF Balance
    <2>2. /\ AssetValue(x, b, "Initial") = Discounted(n * w * low, b, low, "Initial")
          /\ AssetValue(x, b, "Equity") = n * One * low
      BY <1>3 DEF AssetValue, AssetWeight, PriceType, Counts, Discounted
    <2> HIDE DEF low, w, n
    <2>3. n * w * low \in Nat /\ n * low \in Nat
      BY <2>1
    <2>4. AssetValue(x, b, "Initial") <= n * w * low
      BY <2>1, <2>2, <2>3, DiscountTakesOff
    <2>5. w * (n * low) <= least * (n * low)
      BY <2>1, <2>3, ProductMonotonic
    <2>6. n * w * low = w * (n * low) /\ n * One * low = One * (n * low)
      BY <2>1 DEF One
    <2>7. AssetValue(x, b, "Initial") <= least * (n * low)
      BY <1>1, <2>1, <2>3, <2>4, <2>5, <2>6
    <2>8. least * AssetValue(x, b, "Equity") = One * (least * (n * low))
      BY <2>2, <2>3, <2>6 DEF One
    <2>9. least * (n * low) \in Nat
      BY <2>3
    <2> QED
      BY <1>1, <2>7, <2>8, <2>9 DEF One
  <1> QED
    BY <1>2, <1>3

\* What a debt counts for in a new loan is at least that many times what it is worth.
LEMMA DebtsCovered ==
    ASSUME TypeOK, NEW x \in [Banks -> Balance], NEW b \in Banks, BankLoads(b),
           NEW least \in Nat, least <= banks[b].li
    PROVE  least * LiabValue(x, b, "Equity") <= One * LiabValue(x, b, "Initial")
  <1> DEFINE high == High(b, "TimeWeighted")
             n == x[b].liab
             li == banks[b].li
  <1>1. high \in Nat /\ n \in Nat /\ li \in Nat /\ least <= li
    BY PriceNat, SettingFacts DEF Balance
  <1>2. /\ LiabValue(x, b, "Initial") = n * li * high
        /\ LiabValue(x, b, "Equity") = n * One * high
    BY DEF LiabValue, LiabWeight, PriceType
  <1> HIDE DEF high, n, li
  <1>3. n * high \in Nat /\ least * (n * high) \in Nat /\ li * (n * high) \in Nat
    BY <1>1
  <1>4. least * (n * high) <= li * (n * high)
    BY <1>1, <1>3, ProductMonotonic
  <1>5. /\ LiabValue(x, b, "Initial") = li * (n * high)
        /\ least * LiabValue(x, b, "Equity") = One * (least * (n * high))
    BY <1>1, <1>2 DEF One
  <1> QED
    BY <1>3, <1>4, <1>5 DEF One

\* An account that is accepted owns at least what it owes, with emode below the weights of
\* the debts.
LEMMA AcceptedIsSolvent ==
    ASSUME EmodeValidated, TypeOK, NEW x \in [Banks -> Balance], Accepts(x)
    PROVE  Health(x, "Equity") >= 0
  <1> DEFINE held == {c \in Banks : x[c].asset > 0}
             debts == DebtBanks(x)
             ai == [b \in held |-> AssetValue(x, b, "Initial")]
             ae == [b \in held |-> AssetValue(x, b, "Equity")]
             di == [b \in debts |-> LiabValue(x, b, "Initial")]
             de == [b \in debts |-> LiabValue(x, b, "Equity")]
             weights == {banks[b].li : b \in debts}
             least == Min(weights)
  <1>1. held \in SUBSET Banks /\ debts \in SUBSET Banks
    BY DEF DebtBanks
  <1>2. \A b \in debts : BankLoads(b)
    BY DEF Accepts, Assessable, BankTrusted, DebtBanks
  <1>3. /\ Assets(x, "Initial") = SumFunctionOnSet(ai, held)
        /\ Assets(x, "Equity") = SumFunctionOnSet(ae, held)
        /\ Liabs(x, "Initial") = SumFunctionOnSet(di, debts)
        /\ Liabs(x, "Equity") = SumFunctionOnSet(de, debts)
    BY DEF Assets, Liabs, SumFunction
  <1>4. /\ Assets(x, "Initial") \in Nat /\ Liabs(x, "Initial") \in Nat
        /\ Assets(x, "Equity") \in Nat /\ Liabs(x, "Equity") \in Nat
    BY <1>2, HealthParts
  <1>5. Assets(x, "Initial") >= Liabs(x, "Initial")
    BY <1>4 DEF Accepts, Health
  <1>6. CASE debts = {}
    <2>1. Liabs(x, "Equity") = 0
      BY <1>3, <1>6, SumEmpty
    <2> QED
      BY <1>4, <2>1 DEF Health
  <1>7. CASE debts # {}
    <2>1. weights \in SUBSET Nat /\ weights # {}
      BY <1>1, <1>7, SettingFacts
    <2>2. least \in weights /\ \A w \in weights : least <= w
      <3> HIDE DEF weights
      <3> QED
        BY <2>1, LeastExists
    <2>3. PICK d \in debts : least = banks[d].li
      BY <2>2
    <2> HIDE DEF least
    <2>4. least \in Nat \ {0}
      BY <1>1, <2>3, SettingFacts DEF One
    <2>5. \A b \in debts : least <= banks[b].li
      BY <2>2
    <2>6. \A b \in Banks : AssetWeight(x, b, "Initial") <= least
      BY <2>3, WeightWithinDebts
    <2> DEFINE fi == [b \in held |-> One * ai[b]]
               fe == [b \in held |-> least * ae[b]]
               gi == [b \in debts |-> One * di[b]]
               ge == [b \in debts |-> least * de[b]]
    <2>7. \A b \in held : /\ ai[b] \in Int /\ ae[b] \in Int
                          /\ One * ai[b] <= least * ae[b]
      <3> TAKE b \in held
      <3>1. b \in Banks
        BY <1>1
      <3>2. AssetValue(x, b, "Initial") \in Nat /\ AssetValue(x, b, "Equity") \in Nat
        BY <3>1, ValueNat
      <3>3. One * AssetValue(x, b, "Initial") <= least * AssetValue(x, b, "Equity")
        BY <2>4, <2>6, <3>1, AssetsCovered
      <3> QED
        BY <3>2, <3>3
    <2>8. \A b \in debts : /\ di[b] \in Int /\ de[b] \in Int
                           /\ least * de[b] <= One * di[b]
      <3> TAKE b \in debts
      <3>1. b \in Banks /\ BankLoads(b)
        BY <1>1, <1>2
      <3>2. LiabValue(x, b, "Initial") \in Nat /\ LiabValue(x, b, "Equity") \in Nat
        BY <3>1, ValueNat
      <3>3. least * LiabValue(x, b, "Equity") <= One * LiabValue(x, b, "Initial")
        BY <2>4, <2>5, <3>1, DebtsCovered
      <3> QED
        BY <3>2, <3>3
    <2> HIDE DEF ai, ae, di, de, held, debts
    <2>9. One \in Int /\ least \in Int
      BY <2>4 DEF One
    <2>10. \A b \in held : fi[b] \in Int /\ fe[b] \in Int /\ fi[b] <= fe[b]
      BY <2>7, <2>9
    <2>11. \A b \in debts : ge[b] \in Int /\ gi[b] \in Int /\ ge[b] <= gi[b]
      BY <2>8, <2>9
    <2>12. \A b \in held : fi[b] = One * ai[b] /\ fe[b] = least * ae[b]
      OBVIOUS
    <2>13. \A b \in debts : gi[b] = One * di[b] /\ ge[b] = least * de[b]
      OBVIOUS
    <2> HIDE DEF fi, fe, gi, ge
    <2>14. IsFiniteSet(held) /\ IsFiniteSet(debts)
      BY <1>1, FiniteBanks
    <2>15. /\ SumFunctionOnSet(fi, held) = One * Assets(x, "Initial")
           /\ SumFunctionOnSet(fe, held) = least * Assets(x, "Equity")
      BY <1>3, <2>7, <2>9, <2>12, <2>14, SumScale
    <2>16. /\ SumFunctionOnSet(gi, debts) = One * Liabs(x, "Initial")
           /\ SumFunctionOnSet(ge, debts) = least * Liabs(x, "Equity")
      BY <1>3, <2>8, <2>9, <2>13, <2>14, SumScale
    <2>17. One * Assets(x, "Initial") <= least * Assets(x, "Equity")
      BY <2>10, <2>14, <2>15, SumMonotonic
    <2>18. least * Liabs(x, "Equity") <= One * Liabs(x, "Initial")
      BY <2>11, <2>14, <2>16, SumMonotonic
    <2>19. Liabs(x, "Equity") * least <= Assets(x, "Equity") * least
      <3>1. One * Liabs(x, "Initial") <= One * Assets(x, "Initial")
        BY <1>4, <1>5 DEF One
      <3>2. /\ least * Liabs(x, "Equity") = Liabs(x, "Equity") * least
            /\ least * Assets(x, "Equity") = Assets(x, "Equity") * least
            /\ Liabs(x, "Equity") * least \in Int /\ Assets(x, "Equity") * least \in Int
            /\ One * Liabs(x, "Initial") \in Int /\ One * Assets(x, "Initial") \in Int
        BY <1>4, <2>9
      <3> QED
        BY <2>17, <2>18, <3>1, <3>2
    <2>20. Liabs(x, "Equity") <= Assets(x, "Equity")
      BY <1>4, <2>4, <2>19, ProductCancelsAtMost
    <2> QED
      BY <1>4, <2>20 DEF Health
  <1> QED
    BY <1>6, <1>7

-----------------------------------------------------------------------------
(* Who takes a risk *)

\* An account that has less and owes the same is no healthier.
LEMMA LessIsNoHealthier ==
    ASSUME TypeOK, NEW x \in [Banks -> Balance], NEW z \in [Banks -> Balance],
           \A b \in Banks : z[b].liab = x[b].liab /\ z[b].asset <= x[b].asset,
           \A b \in DebtBanks(x) : BankLoads(b)
    PROVE  Health(z, "Maintenance") <= Health(x, "Maintenance")
  <1> DEFINE req == "Maintenance"
             held == {c \in Banks : x[c].asset > 0}
             kept == {c \in Banks : z[c].asset > 0}
             f == [b \in held |-> AssetValue(x, b, req)]
             g == [b \in kept |-> AssetValue(z, b, req)]
  <1>1. DebtBanks(z) = DebtBanks(x)
    BY DEF DebtBanks
  <1>2. kept \in SUBSET held /\ held \in SUBSET Banks
    BY DEF Balance
  <1>3. Liabs(z, req) = Liabs(x, req)
    <2>1. \A b \in DebtBanks(x) : LiabValue(z, b, req) = LiabValue(x, b, req)
      BY DEF LiabValue, DebtBanks
    <2> QED
      BY <1>1, <2>1 DEF Liabs
  <1>4. /\ Assets(x, req) = SumFunctionOnSet(f, held)
        /\ Assets(z, req) = SumFunctionOnSet(g, kept)
    BY DEF Assets, SumFunction
  <1>5. \A b \in held : f[b] \in Nat
    BY ValueNat
  <1>6. \A b \in kept : g[b] \in Nat /\ g[b] <= f[b]
    <2> TAKE b \in kept
    <2>1. b \in Banks /\ b \in held
      BY <1>2
    <2>2. AssetValue(z, b, req) \in Nat /\ AssetValue(x, b, req) \in Nat
      BY <2>1, ValueNat
    <2>3. AssetValue(z, b, req) <= AssetValue(x, b, req)
      <3>1. CASE ~Counts(b, req) \/ ~BankLoads(b)
        BY <3>1 DEF AssetValue
      <3>2. CASE Counts(b, req) /\ BankLoads(b)
        <4> DEFINE low == Low(b, "RealTime")
                   w == AssetWeight(x, b, req)
                   m == z[b].asset
                   n == x[b].asset
        <4>1. AssetWeight(z, b, req) = w
          BY <1>1 DEF AssetWeight, EntriesInForce
        <4>2. /\ AssetValue(x, b, req) = n * w * low
              /\ AssetValue(z, b, req) = m * w * low
          BY <3>2, <4>1 DEF AssetValue, Discounted, PriceType
        <4>3. low \in Nat /\ w \in Nat /\ m \in Nat /\ n \in Nat /\ m <= n
          BY <2>1, <3>2, PriceNat, AssetWeights DEF Balance
        <4> HIDE DEF low, w, m, n
        <4>4. m * (w * low) <= n * (w * low)
          BY <4>3, ProductMonotonic
        <4> QED
          BY <4>2, <4>3, <4>4
      <3> QED
        BY <3>1, <3>2
    <2> QED
      BY <2>1, <2>2, <2>3
  <1> HIDE DEF f, g, held, kept
  <1>7. IsFiniteSet(held) /\ IsFiniteSet(kept)
    BY <1>2, FiniteBanks
  <1>8. SumFunctionOnSet(g, kept) <= SumFunctionOnSet(f, kept)
    <2>1. \A b \in kept : g[b] \in Int /\ f[b] \in Int /\ g[b] <= f[b]
      BY <1>2, <1>5, <1>6
    <2> QED
      BY <1>7, <2>1, SumMonotonic
  <1>9. SumFunctionOnSet(f, kept) <= SumFunctionOnSet(f, held)
    BY <1>2, <1>5, <1>7, SumSubset
  <1>10. /\ SumFunctionOnSet(f, held) \in Nat /\ SumFunctionOnSet(f, kept) \in Nat
         /\ SumFunctionOnSet(g, kept) \in Nat
    BY <1>2, <1>5, <1>6, <1>7, SumNat
  <1>11. Liabs(x, req) \in Nat
    BY HealthParts
  <1> QED
    BY <1>3, <1>4, <1>8, <1>9, <1>10, <1>11 DEF Health

\* Balances do not change what an oracle says or what an account must own to stay.
LEMMA MaintenanceStands ==
    ASSUME UNCHANGED <<states, sources, now>>, NEW u
    PROVE  Health(accounts[u], "Maintenance")' = Health(accounts'[u], "Maintenance")
  <1>1. \A b \in Banks : AssetValue(accounts[u], b, "Maintenance")'
                            = AssetValue(accounts'[u], b, "Maintenance")
    BY DEF AssetValue, Counts, BankLoads, Low, Discounted, PriceType, AssetWeight,
           EntriesInForce, DebtBanks
  <1>2. \A b \in Banks : LiabValue(accounts[u], b, "Maintenance")'
                            = LiabValue(accounts'[u], b, "Maintenance")
    BY DEF LiabValue, High, PriceType
  <1>3. Assets(accounts[u], "Maintenance")' = Assets(accounts'[u], "Maintenance")
    BY <1>1 DEF Assets
  <1>4. Liabs(accounts[u], "Maintenance")' = Liabs(accounts'[u], "Maintenance")
    BY <1>2 DEF Liabs, DebtBanks
  <1> QED
    BY <1>3, <1>4 DEF Health

\* Whoever is seized from does not take a risk: it pays some of its debt, or its health would
\* not improve.
LEMMA LiquidateeTakesNoRisk ==
    ASSUME IInv, IInv', NEW a \in Accounts, NEW u \in Accounts, NEW ab \in Banks,
           NEW lb \in Banks, NEW n \in Seizures, Liquidate(a, u, ab, lb, n)
    PROVE  ~TookRisk(u)
  <1> DEFINE worth == n * Low(ab, "RealTime")
             price == High(lb, "RealTime")
             paid == (worth * (40 - LiquidatorFee - InsuranceFee)) \div (40 * price)
             vb == Decreased(accounts[u][ab], n)
             vl == Increased(accounts[u][lb], paid)
             x == [accounts[u] EXCEPT ![ab] = vb, ![lb] = vl]
  <1>1. n \in Nat /\ a # u /\ ab # lb /\ n <= accounts[u][ab].asset
        /\ paid <= accounts[u][lb].liab /\ Liquidatable(accounts[u], lb)
        /\ UNCHANGED <<states, sources, now>>
        /\ Health(accounts[u], "Maintenance")' > Health(accounts[u], "Maintenance")
    BY AmountAssumption DEF Liquidate
  <1>2. paid \in Nat
    <2>1. Low(ab, "RealTime") \in Nat /\ price \in Nat \ {0}
      <3>1. BankLoads(ab) /\ BankLoads(lb) /\ price > 0
        BY DEF Liquidate, BankTrusted
      <3> QED
        BY <3>1, PriceNat DEF IInv
    <2> HIDE DEF price
    <2>2. worth \in Nat
      BY <1>1, <2>1
    <2> HIDE DEF worth
    <2>3. worth * (40 - LiquidatorFee - InsuranceFee) \in Nat /\ 40 * price \in Nat \ {0}
      BY <2>1, <2>2 DEF LiquidatorFee, InsuranceFee
    <2> QED
      BY <2>3, Quotient
  <1>3. /\ accounts \in [Accounts -> [Banks -> Balance]]
        /\ accounts' \in [Accounts -> [Banks -> Balance]]
        /\ accounts[u][ab] \in Balance /\ accounts[u][lb] \in Balance
    BY DEF IInv, TypeOK
  <1>4. accounts'[u] = x
    <2>1. \E y : accounts' = [accounts EXCEPT ![u] = x, ![a] = y]
      BY DEF Liquidate
    <2> HIDE DEF x
    <2> QED
      BY <1>1, <1>3, <2>1
  <1> HIDE DEF paid
  <1>5. /\ vb.liab = accounts[u][ab].liab /\ vb.asset = accounts[u][ab].asset - n
        /\ vl.asset = accounts[u][lb].asset
        /\ paid = 0 => vl.liab = accounts[u][lb].liab
        /\ 0 < paid => vl.liab < accounts[u][lb].liab
    BY <1>1, <1>2, <1>3, ChangedBalance
  <1> HIDE DEF vb, vl
  <1>6. x[lb] = vl /\ x[ab] = vb
        /\ \A b \in Banks \ {ab, lb} : x[b] = accounts[u][b]
    BY <1>1, <1>3
  <1> HIDE DEF x
  <1>7. CASE 0 < paid
    <2>1. accounts'[u][lb].liab < accounts[u][lb].liab
      BY <1>4, <1>5, <1>6, <1>7
    <2>2. accounts'[u][lb].liab \in Nat /\ accounts[u][lb].liab \in Nat
      BY <1>3 DEF Balance
    <2> QED
      BY <2>1, <2>2 DEF TookRisk
  <1>8. CASE paid = 0
    <2>1. \A b \in Banks : /\ accounts'[u][b].liab = accounts[u][b].liab
                           /\ accounts'[u][b].asset <= accounts[u][b].asset
      <3> TAKE b \in Banks
      <3>1. accounts[u][b].asset \in Nat
        BY <1>3 DEF Balance
      <3> QED
        BY <1>1, <1>4, <1>5, <1>6, <1>8, <3>1
    <2>2. \A b \in DebtBanks(accounts[u]) : BankLoads(b)
      BY <1>1 DEF Liquidatable, Assessable, BankTrusted, DebtBanks
    <2>3. accounts[u] \in [Banks -> Balance] /\ accounts'[u] \in [Banks -> Balance] /\ TypeOK
      BY <1>3 DEF IInv
    <2>4. Health(accounts'[u], "Maintenance") <= Health(accounts[u], "Maintenance")
      BY <2>1, <2>2, <2>3, LessIsNoHealthier
    <2>5. Health(accounts[u], "Maintenance")' = Health(accounts'[u], "Maintenance")
      BY <1>1, MaintenanceStands
    <2>6. Health(accounts[u], "Maintenance") \in Int
      BY <2>2, <2>3, HealthParts DEF Health
    <2>7. Health(accounts'[u], "Maintenance") \in Int
      <3>1. \A b \in DebtBanks(accounts'[u]) : BankLoads(b)
        BY <2>1, <2>2 DEF DebtBanks
      <3> QED
        BY <2>3, <3>1, HealthParts DEF Health
    <2> QED
      BY <1>1, <2>4, <2>5, <2>6, <2>7
  <1> QED
    BY <1>2, <1>7, <1>8

\* An account that takes a risk has just passed the check of a new loan: the others who
\* change pay, or have only more.
LEMMA RiskIsChecked ==
    ASSUME IInv, IInv', Next, NEW a \in Accounts, TookRisk(a)
    PROVE  Accepts(accounts[a])'
  <1>1. accounts \in [Accounts -> [Banks -> Balance]]
    BY DEF IInv, TypeOK
  <1>2. ASSUME NEW c \in Accounts \ {a}, NEW x, Holds(c, x)
        PROVE  FALSE
    <2>1. accounts'[a] = accounts[a]
      BY <1>1, <1>2 DEF Holds
    <2> QED
      BY <1>1, <2>1 DEF TookRisk, Balance
  <1>3. ASSUME NEW c \in Accounts, NEW b \in Banks, NEW y \in Balance,
               \/ y.liab < accounts[c][b].liab
               \/ y.liab = accounts[c][b].liab /\ accounts[c][b].asset <= y.asset,
               Holds(c, [accounts[c] EXCEPT ![b] = y])
        PROVE  FALSE
    <2>1. a = c
      BY <1>2, <1>3
    <2>2. accounts'[a] = [accounts[a] EXCEPT ![b] = y]
      BY <1>1, <1>3, <2>1 DEF Holds
    <2>3. accounts'[a][b] = y /\ \A d \in Banks \ {b} : accounts'[a][d] = accounts[a][d]
      BY <1>1, <2>2
    <2>4. \A d \in Banks : accounts[a][d] \in Balance
      BY <1>1
    <2> QED
      BY <1>3, <2>1, <2>3, <2>4 DEF TookRisk, Balance
  <1>4. ASSUME NEW c \in Accounts, NEW b \in Banks, NEW n \in Moves, Deposit(c, b, n)
        PROVE  FALSE
    <2> DEFINE y == Increased(accounts[c][b], n)
    <2>1. n \in Nat /\ accounts[c][b] \in Balance /\ accounts[c][b].liab = 0
      BY <1>4, AmountAssumption, ActiveBalance DEF Deposit
    <2>2. y \in Balance /\ y.liab <= accounts[c][b].liab /\ accounts[c][b].asset <= y.asset
      BY <2>1, ChangedBalance
    <2>3. Holds(c, [accounts[c] EXCEPT ![b] = y])
      BY <1>4 DEF Deposit
    <2> HIDE DEF y
    <2>4. y.liab = accounts[c][b].liab
      BY <2>1, <2>2 DEF Balance
    <2> QED
      BY <1>3, <2>2, <2>3, <2>4
  <1>5. ASSUME NEW c \in Accounts, NEW b \in Banks, NEW n \in Moves, Borrow(c, b, n)
        PROVE  Accepts(accounts[a])'
    <2>1. CASE a = c
      BY <1>5, <2>1 DEF Borrow
    <2>2. CASE a # c
      BY <1>2, <1>5, <2>2 DEF Borrow
    <2> QED
      BY <2>1, <2>2
  <1>6. ASSUME NEW c \in Accounts, NEW b \in Banks, NEW n \in Moves, NEW all \in BOOLEAN,
               Repay(c, b, n, all)
        PROVE  FALSE
    <2> DEFINE y == IF all THEN NoBalance ELSE Increased(accounts[c][b], n)
    <2>1. n \in Nat /\ accounts[c][b] \in Balance /\ accounts[c][b].liab > 0
          /\ accounts[c][b].liab \in Nat /\ (all \/ n <= accounts[c][b].liab)
      BY <1>6, AmountAssumption, ActiveBalance DEF Repay
    <2>2. /\ y \in Balance
          /\ \/ y.liab < accounts[c][b].liab
             \/ y.liab = accounts[c][b].liab /\ accounts[c][b].asset <= y.asset
      <3>1. CASE all
        BY <2>1, <3>1 DEF NoBalance, Balance
      <3>2. CASE ~all
        <4>1. y = Increased(accounts[c][b], n) /\ n <= accounts[c][b].liab
          BY <2>1, <3>2
        <4> HIDE DEF y
        <4>2. CASE n = 0
          BY <2>1, <4>1, <4>2, ChangedBalance DEF Balance
        <4>3. CASE 0 < n
          BY <2>1, <4>1, <4>3, ChangedBalance
        <4> QED
          BY <2>1, <4>2, <4>3
      <3> QED
        BY <3>1, <3>2
    <2>3. Holds(c, [accounts[c] EXCEPT ![b] = y])
      BY <1>6 DEF Repay
    <2> HIDE DEF y
    <2> QED
      BY <1>3, <2>2, <2>3
  <1>7. ASSUME NEW c \in Accounts, NEW b \in Banks, NEW n \in Moves, NEW all \in BOOLEAN,
               Withdraw(c, b, n, all)
        PROVE  Accepts(accounts[a])'
    <2>1. CASE a = c
      BY <1>7, <2>1 DEF Withdraw
    <2>2. CASE a # c
      BY <1>2, <1>7, <2>2 DEF Withdraw
    <2> QED
      BY <2>1, <2>2
  <1>8. ASSUME NEW c \in Accounts, NEW b \in Banks, CloseBalance(c, b)
        PROVE  FALSE
    <2>1. NoBalance \in Balance /\ NoBalance.liab = 0 /\ NoBalance.asset = 0
      BY DEF NoBalance, Balance
    <2>2. accounts[c][b].liab = 0 /\ accounts[c][b].asset = 0
          /\ Holds(c, [accounts[c] EXCEPT ![b] = NoBalance])
      BY <1>8 DEF CloseBalance
    <2> QED
      BY <1>3, <2>1, <2>2
  <1>9. ASSUME NEW c \in Accounts, NEW b \in Banks, HandleBankruptcy(c, b)
        PROVE  FALSE
    <2> DEFINE y == Increased(accounts[c][b], accounts[c][b].liab)
    <2>1. /\ accounts[c][b] \in Balance /\ accounts[c][b].liab \in Nat
          /\ accounts[c][b].liab > 0
      BY <1>9, ActiveBalance DEF HandleBankruptcy
    <2>2. y \in Balance /\ y.liab < accounts[c][b].liab
      BY <2>1, ChangedBalance
    <2>3. Holds(c, [accounts[c] EXCEPT ![b] = y])
      BY <1>9 DEF HandleBankruptcy
    <2> HIDE DEF y
    <2> QED
      BY <1>3, <2>2, <2>3
  <1>10. ASSUME NEW c \in Accounts, NEW u \in Accounts, NEW ab \in Banks, NEW lb \in Banks,
                NEW n \in Seizures, Liquidate(c, u, ab, lb, n)
         PROVE  Accepts(accounts[a])'
    <2>1. CASE a = c
      BY <1>10, <2>1 DEF Liquidate
    <2>2. CASE a = u
      BY <1>10, <2>2, LiquidateeTakesNoRisk
    <2>3. CASE a # c /\ a # u
      <3>1. \E x, y : accounts' = [accounts EXCEPT ![u] = x, ![c] = y]
        BY <1>10 DEF Liquidate
      <3>2. accounts'[a] = accounts[a]
        BY <1>1, <2>3, <3>1
      <3> QED
        BY <1>1, <3>2 DEF TookRisk, Balance
    <2> QED
      BY <2>1, <2>2, <2>3
  <1>11. ASSUME UNCHANGED accounts PROVE FALSE
    BY <1>1, <1>11 DEF TookRisk, Balance
  <1>12. CASE \/ \E b \in Banks : \/ \E s \in States : SetState(b, s)
                                  \/ \E r \in Readings[b] : Publish(b, r)
                                  \/ \E k \in Backings[b] : Rebase(b, k)
              \/ Tick
    BY <1>11, <1>12 DEF SetState, Publish, Rebase, Changes, Tick
  <1> QED
    BY <1>4, <1>5, <1>6, <1>7, <1>8, <1>9, <1>10, <1>12 DEF Next

\* With emode below the weights of the debts, as it is validated, whoever borrows, withdraws
\* or takes over debts owns at least what it owes, for any banks, oracles and amounts.
THEOREM RiskTakersAreSolvent ==
    ASSUME EmodeValidated
    PROVE  Spec => BorrowersSolvent
  <1> DEFINE Solvent == \A a \in Accounts : Accepts(accounts[a]) => Health(accounts[a], "Equity") >= 0
             Checked == \A a \in Accounts : TookRisk(a) => Accepts(accounts[a])'
             Covered == \A a \in Accounts : TookRisk(a) => Health(accounts[a], "Equity")' >= 0
  <1>1. IInv => Solvent
    BY HeldPositions, AcceptedIsSolvent DEF IInv
  <1>2. IInv /\ IInv' /\ [Next]_riskVars => [Checked]_riskVars
    BY RiskIsChecked
  <1>3. Checked /\ Solvent' => Covered
    OBVIOUS
  <1>4. Spec => [][Covered]_riskVars
    <2> HIDE DEF Solvent, Checked, Covered
    <2> QED
      BY <1>1, <1>2, <1>3, RiskInvariant, PTL DEF Spec
  <1> QED
    BY <1>4 DEF BorrowersSolvent

=============================================================================
