----------------------------- MODULE BankProofs -----------------------------
(***************************************************************************)
(* Proofs about the books of a bank, for any number of accounts, any fixed *)
(* point unit and whatever interest, fees and prices bring.                *)
(***************************************************************************)
EXTENDS Bank, SumsAndQuotients

-----------------------------------------------------------------------------
(* Shares and amounts *)

\* The numbers of the assumption that quotients are made of.
LEMMA Units ==
    Unit \in Nat \ {0} /\ Threshold \in Nat \ {0} /\ Threshold < Unit
  BY BankAssumption

\* Shares are worth their amount, up to a fraction.
LEMMA AmountOf ==
    ASSUME NEW shares \in Nat, NEW value \in Nat
    PROVE  /\ Amount(shares, value) \in Nat
           /\ Amount(shares, value) * Unit <= shares * value
           /\ shares * value < Amount(shares, value) * Unit + Unit
  <1>1. shares * value \in Nat
    OBVIOUS
  <1> QED
    BY <1>1, Units, Quotient DEF Amount

\* The shares for an amount are worth no more than it, and one more would be.
LEMMA SharesOf ==
    ASSUME NEW amount \in Nat, NEW value \in Nat
    PROVE  /\ Shares(amount, value) \in Nat
           /\ Shares(amount, value) * value <= amount * Unit
           /\ value # 0 => amount * Unit < Shares(amount, value) * value + value
  <1>1. amount * Unit \in Nat
    BY Units
  <1>2. CASE value = 0
    BY <1>1, <1>2 DEF Shares
  <1>3. CASE value # 0
    BY <1>1, <1>3, Quotient DEF Shares
  <1> QED
    BY <1>2, <1>3

\* Nobody gives up more shares than they have, for what those are worth.
LEMMA SharesFit ==
    ASSUME NEW shares \in Nat, NEW value \in Nat,
           NEW amount \in Nat, amount <= Amount(shares, value)
    PROVE  Shares(amount, value) <= shares
  <1>1. CASE value = 0
    BY <1>1 DEF Shares
  <1>2. CASE value # 0
    <2>1. Amount(shares, value) \in Nat /\ Amount(shares, value) * Unit <= shares * value
      BY AmountOf
    <2>2. amount * Unit \in Nat /\ amount * Unit <= Amount(shares, value) * Unit
      BY Units, <2>1
    <2>3. Amount(shares, value) * Unit \in Nat /\ shares * value \in Nat
      BY Units, <2>1
    <2>4. amount * Unit < shares * value + value
      BY <1>2, <2>1, <2>2, <2>3
    <2> QED
      BY <1>2, <2>2, <2>4, QuotientAtMost DEF Shares
  <1> QED
    BY <1>1, <1>2

-----------------------------------------------------------------------------
(* What moving shares does *)

\* Bank c is b but for its totals, its counts and the fees it owes.
Keeps(b, c) ==
    /\ c.open = b.open /\ c.state = b.state /\ c.flags = b.flags
    /\ c.assetValue = b.assetValue /\ c.liabValue = b.liabValue

\* p is what bank b and balance x may become when shares move in and out of both.
Moves(b, x, p) ==
    /\ p.bank \in BankType /\ p.balance \in Balance
    /\ p.balance.active = x.active
    /\ p.bank.assets - b.assets = p.balance.asset - x.asset
    /\ p.bank.liabs - b.liabs = p.balance.liab - x.liab
    /\ Keeps(b, p.bank) /\ p.bank.fees = b.fees

\* A change of a count is a number.
LEMMA CountChangeType ==
    ASSUME NEW m, NEW n PROVE CountChange(m, n) \in Int
  BY DEF CountChange

\* Shares that an account has, or gets, move in its balance and in the totals alike.
LEMMA MovedIs ==
    ASSUME NEW b \in BankType, NEW x \in Balance, NEW da \in Int, NEW dl \in Int,
           x.asset + da >= 0, x.liab + dl >= 0,
           x.asset <= b.assets, x.liab <= b.liabs
    PROVE  /\ Moves(b, x, Moved(b, x, da, dl))
           /\ Moved(b, x, da, dl).balance.asset = x.asset + da
           /\ Moved(b, x, da, dl).balance.liab = x.liab + dl
           /\ Moved(b, x, da, dl).bank.assets = b.assets + da
           /\ Moved(b, x, da, dl).bank.liabs = b.liabs + dl
  <1> DEFINE y == [x EXCEPT !.asset = @ + da, !.liab = @ + dl]
             c == [b EXCEPT !.assets = @ + da, !.liabs = @ + dl,
                            !.lending = @ + CountChange(x.asset, y.asset),
                            !.borrowing = @ + CountChange(x.liab, y.liab)]
             p == Moved(b, x, da, dl)
  <1>1. p.balance = y /\ p.bank = c
    BY DEF Moved
  <1>2. /\ x.asset \in Nat /\ x.liab \in Nat /\ b.assets \in Nat /\ b.liabs \in Nat
        /\ b.lending \in Int /\ b.borrowing \in Int
    BY DEF Balance, BankType
  <1>3. y.asset = x.asset + da /\ y.liab = x.liab + dl
    BY DEF Balance
  <1>4. y.active = x.active
    BY DEF Balance
  <1>5. y \in Balance
    <2>1. x.asset + da \in Nat /\ x.liab + dl \in Nat
      BY <1>2
    <2> QED
      BY <2>1 DEF Balance
  <1>6. /\ CountChange(x.asset, y.asset) \in Int
        /\ CountChange(x.liab, y.liab) \in Int
    BY CountChangeType
  <1> HIDE DEF y
  <1>7. c \in BankType
    <2>1. b.assets + da \in Nat /\ b.liabs + dl \in Nat
      BY <1>2
    <2>2. /\ b.lending + CountChange(x.asset, y.asset) \in Int
          /\ b.borrowing + CountChange(x.liab, y.liab) \in Int
      BY <1>2, <1>6
    <2> QED
      BY <2>1, <2>2 DEF BankType
  <1>8. c.assets = b.assets + da /\ c.liabs = b.liabs + dl
    BY DEF BankType
  <1>9. c.fees = b.fees /\ Keeps(b, c)
    BY DEF BankType, Keeps
  <1>10. p.balance.active = x.active
    BY <1>1, <1>4
  <1>11. Keeps(b, p.bank)
    BY <1>1, <1>9
  <1> HIDE DEF c
  <1>12. /\ p.bank \in BankType /\ p.balance \in Balance /\ p.bank.fees = b.fees
         /\ p.balance.asset = x.asset + da /\ p.balance.liab = x.liab + dl
         /\ p.bank.assets = b.assets + da /\ p.bank.liabs = b.liabs + dl
    BY <1>1, <1>3, <1>5, <1>7, <1>8, <1>9
  <1> HIDE DEF p
  <1>13. /\ p.bank.assets - b.assets = p.balance.asset - x.asset
         /\ p.bank.liabs - b.liabs = p.balance.liab - x.liab
    BY <1>2, <1>12
  <1>14. Moves(b, x, p)
    BY <1>10, <1>11, <1>12, <1>13 DEF Moves
  <1> QED
    BY <1>12, <1>14 DEF p

\* The two parts of an amount
LEMMA PartsOf ==
    ASSUME NEW m \in Nat, NEW n \in Nat
    PROVE  /\ Min2(m, n) \in Nat /\ Excess(n, m) \in Nat
           /\ Min2(m, n) <= m /\ Min2(m, n) <= n
           /\ Min2(m, n) + Excess(n, m) = n
  BY DEF Min2, Excess

\* An increase repays debt and deposits the rest.
LEMMA IncreaseIs ==
    ASSUME NEW b \in BankType, NEW x \in Balance, NEW delta \in Nat,
           x.asset <= b.assets, x.liab <= b.liabs
    PROVE  LET p == Increase(b, x, delta)
               d == Deposited(b, x, delta)
               r == Repaid(b, x, delta)
           IN /\ Moves(b, x, p)
              /\ d \in Nat /\ r \in Nat /\ d + r = delta
              /\ p.bank.assets = b.assets + Shares(d, b.assetValue)
              /\ p.bank.liabs = b.liabs - Shares(r, b.liabValue)
              /\ Shares(d, b.assetValue) \in Nat /\ Shares(r, b.liabValue) \in Nat
  <1> DEFINE d == Deposited(b, x, delta)
             r == Repaid(b, x, delta)
  <1>1. /\ b.assetValue \in Nat /\ b.liabValue \in Nat
        /\ x.asset \in Nat /\ x.liab \in Nat /\ b.assets \in Nat /\ b.liabs \in Nat
    BY DEF BankType, Balance
  <1>2. Amount(x.liab, b.liabValue) \in Nat
    BY <1>1, AmountOf
  <1>3. d \in Nat /\ r \in Nat /\ d + r = delta /\ r <= Amount(x.liab, b.liabValue)
    <2> DEFINE a == Amount(x.liab, b.liabValue)
    <2> HIDE DEF a
    <2>1. a \in Nat /\ d = Excess(delta, a) /\ r = Min2(a, delta)
      BY <1>2 DEF Deposited, Repaid, a
    <2> HIDE DEF d, r
    <2> QED
      BY <2>1, PartsOf DEF a
  <1> HIDE DEF d, r
  <1>4. /\ Shares(d, b.assetValue) \in Nat /\ Shares(r, b.liabValue) \in Nat
        /\ Shares(r, b.liabValue) <= x.liab
    BY <1>1, <1>3, SharesOf, SharesFit
  <1>5. Increase(b, x, delta)
            = Moved(b, x, Shares(d, b.assetValue), - Shares(r, b.liabValue))
    BY DEF Increase, d, r
  <1> DEFINE da == Shares(d, b.assetValue)
             dl == - Shares(r, b.liabValue)
  <1>6. da \in Int /\ dl \in Int /\ x.asset + da >= 0 /\ x.liab + dl >= 0
    BY <1>1, <1>4
  <1>7. b.liabs + dl = b.liabs - Shares(r, b.liabValue)
    BY <1>1, <1>4
  <1>8. /\ Moves(b, x, Moved(b, x, da, dl))
        /\ Moved(b, x, da, dl).bank.assets = b.assets + da
        /\ Moved(b, x, da, dl).bank.liabs = b.liabs + dl
    <2> HIDE DEF da, dl
    <2> QED
      BY <1>6, MovedIs
  <1> QED
    BY <1>3, <1>4, <1>5, <1>7, <1>8 DEF d, r

\* A decrease withdraws assets and borrows the rest.
LEMMA DecreaseIs ==
    ASSUME NEW b \in BankType, NEW x \in Balance, NEW delta \in Nat,
           x.asset <= b.assets, x.liab <= b.liabs
    PROVE  LET p == Decrease(b, x, delta)
               w == Withdrawn(b, x, delta)
               l == Borrowed(b, x, delta)
           IN /\ Moves(b, x, p)
              /\ w \in Nat /\ l \in Nat /\ w + l = delta
              /\ w <= Amount(x.asset, b.assetValue)
              /\ p.bank.assets = b.assets - Shares(w, b.assetValue)
              /\ p.bank.liabs = b.liabs + Shares(l, b.liabValue)
              /\ Shares(w, b.assetValue) \in Nat /\ Shares(l, b.liabValue) \in Nat
  <1> DEFINE w == Withdrawn(b, x, delta)
             l == Borrowed(b, x, delta)
  <1>1. /\ b.assetValue \in Nat /\ b.liabValue \in Nat
        /\ x.asset \in Nat /\ x.liab \in Nat /\ b.assets \in Nat /\ b.liabs \in Nat
    BY DEF BankType, Balance
  <1>2. Amount(x.asset, b.assetValue) \in Nat
    BY <1>1, AmountOf
  <1>3. w \in Nat /\ l \in Nat /\ w + l = delta /\ w <= Amount(x.asset, b.assetValue)
    <2> DEFINE a == Amount(x.asset, b.assetValue)
    <2> HIDE DEF a
    <2>1. a \in Nat /\ l = Excess(delta, a) /\ w = Min2(a, delta)
      BY <1>2 DEF Withdrawn, Borrowed, a
    <2> HIDE DEF w, l
    <2> QED
      BY <2>1, PartsOf DEF a
  <1> HIDE DEF w, l
  <1>4. /\ Shares(w, b.assetValue) \in Nat /\ Shares(l, b.liabValue) \in Nat
        /\ Shares(w, b.assetValue) <= x.asset
    BY <1>1, <1>3, SharesOf, SharesFit
  <1>5. Decrease(b, x, delta)
            = Moved(b, x, - Shares(w, b.assetValue), Shares(l, b.liabValue))
    BY DEF Decrease, w, l
  <1> DEFINE da == - Shares(w, b.assetValue)
             dl == Shares(l, b.liabValue)
  <1>6. da \in Int /\ dl \in Int /\ x.asset + da >= 0 /\ x.liab + dl >= 0
    BY <1>1, <1>4
  <1>7. b.assets + da = b.assets - Shares(w, b.assetValue)
    BY <1>1, <1>4
  <1>8. /\ Moves(b, x, Moved(b, x, da, dl))
        /\ Moved(b, x, da, dl).bank.assets = b.assets + da
        /\ Moved(b, x, da, dl).bank.liabs = b.liabs + dl
    <2> HIDE DEF da, dl
    <2> QED
      BY <1>6, MovedIs
  <1> QED
    BY <1>3, <1>4, <1>5, <1>7, <1>8 DEF w, l

-----------------------------------------------------------------------------
(* Interest *)

\* A sum over the kinds of fees has three terms.
LEMMA FeeSum ==
    ASSUME NEW f \in [FeeKinds -> Int]
    PROVE  SumFunction(f) = f["insurance"] + f["group"] + f["program"]
  <1> DEFINE sum(S) == SumFunctionOnSet(f, S)
  <1>1. SumFunction(f) = sum(FeeKinds)
    BY DEF SumFunction
  <1>2. /\ f["insurance"] \in Int /\ f["group"] \in Int /\ f["program"] \in Int
    BY DEF FeeKinds
  <1>3. /\ FeeKinds = ({"insurance"} \union {"group"}) \union {"program"}
        /\ {"insurance"} = {} \union {"insurance"}
    BY DEF FeeKinds
  <1>4. sum({}) = 0
    BY SumEmpty
  <1>5. sum({"insurance"}) = f["insurance"]
    <2>1. sum({} \union {"insurance"}) = sum({}) + f["insurance"]
      BY <1>2, SumAdd, FS_EmptySet
    <2> QED
      BY <1>2, <1>3, <1>4, <2>1
  <1>6. sum({"insurance"} \union {"group"}) = sum({"insurance"}) + f["group"]
    BY <1>2, SumAdd, FS_Singleton
  <1>7. sum(({"insurance"} \union {"group"}) \union {"program"})
            = sum({"insurance"} \union {"group"}) + f["program"]
    <2>1. IsFiniteSet({"insurance"} \union {"group"})
      BY FS_Singleton, FS_AddElement
    <2> QED
      BY <1>2, <2>1, SumAdd
  <1> HIDE DEF sum
  <1> QED
    BY <1>1, <1>2, <1>3, <1>5, <1>6, <1>7

\* What a fee takes of the interest is a number.
LEMMA FeeAprType ==
    ASSUME NEW rate \in Nat, NEW k \in FeeKinds
    PROVE  /\ FeeRates[k].rate \in Nat /\ FeeRates[k].fixed \in Nat
           /\ (rate * FeeRates[k].rate) \div Unit \in Nat
           /\ ((rate * FeeRates[k].rate) \div Unit) * Unit <= rate * FeeRates[k].rate
           /\ FeeApr(k, rate) = (rate * FeeRates[k].rate) \div Unit + FeeRates[k].fixed
           /\ FeeApr(k, rate) \in Nat
  <1>1. FeeRates[k].rate \in Nat /\ FeeRates[k].fixed \in Nat
    BY BankAssumption
  <1>2. rate * FeeRates[k].rate \in Nat
    BY <1>1
  <1> QED
    BY <1>1, <1>2, Units, Quotient DEF FeeApr

\* Borrowers pay the rate and every fee.
LEMMA BorrowersPay ==
    ASSUME NEW rate \in Nat
    PROVE  /\ BorrowingApr(rate) \in Nat
           /\ rate + FeeApr("insurance", rate) + FeeApr("group", rate)
                + FeeApr("program", rate) <= BorrowingApr(rate)
  <1> DEFINE r == [k \in FeeKinds |-> FeeRates[k].rate]
             f == [k \in FeeKinds |-> FeeRates[k].fixed]
             q == [k \in FeeKinds |-> (rate * FeeRates[k].rate) \div Unit]
  <1>1. /\ r \in [FeeKinds -> Int] /\ f \in [FeeKinds -> Int]
    BY FeeAprType
  <1>2. \A k \in {"insurance", "group", "program"} :
            /\ r[k] \in Nat /\ f[k] \in Nat /\ q[k] \in Nat
            /\ q[k] * Unit <= rate * r[k]
            /\ FeeApr(k, rate) = q[k] + f[k]
    BY FeeAprType DEF FeeKinds
  <1>3. /\ SumFunction(r) = r["insurance"] + r["group"] + r["program"]
        /\ SumFunction(f) = f["insurance"] + f["group"] + f["program"]
    <2> HIDE DEF r, f
    <2> QED
      BY <1>1, FeeSum
  <1>4. BorrowingApr(rate) = (rate * (Unit + SumFunction(r))) \div Unit + SumFunction(f)
    BY DEF BorrowingApr
  <1> HIDE DEF r, f, q
  <1> DEFINE R == r["insurance"] + r["group"] + r["program"]
             Q == q["insurance"] + q["group"] + q["program"]
  <1>5. R \in Nat /\ Q \in Nat /\ rate * (Unit + R) \in Nat
    BY <1>2, Units
  <1>6. (rate + Q) * Unit <= rate * (Unit + R)
    <2>1. Q * Unit <= rate * R
      BY <1>2, Units
    <2>2. /\ (rate + Q) * Unit = rate * Unit + Q * Unit
          /\ rate * (Unit + R) = rate * Unit + rate * R
      BY <1>5, Units
    <2>3. rate * Unit \in Int /\ Q * Unit \in Int /\ rate * R \in Int
      BY <1>5, Units
    <2> HIDE DEF Q, R
    <2> QED
      BY <2>1, <2>2, <2>3
  <1>7. rate + Q <= (rate * (Unit + R)) \div Unit /\ (rate * (Unit + R)) \div Unit \in Nat
    <2>1. rate + Q \in Nat
      BY <1>5
    <2> HIDE DEF Q, R
    <2> QED
      BY <1>5, <1>6, <2>1, Units, QuotientAtLeast, Quotient
  <1>8. BorrowingApr(rate) = (rate * (Unit + R)) \div Unit + SumFunction(f)
    BY <1>3, <1>4
  <1>9. (rate * (Unit + R)) \div Unit \in Nat
    BY <1>7
  <1>10. rate + q["insurance"] + q["group"] + q["program"] <= (rate * (Unit + R)) \div Unit
    BY <1>2, <1>7
  <1> HIDE DEF R
  <1> QED
    BY <1>2, <1>3, <1>8, <1>9, <1>10

\* Interest never lowers a value.
LEMMA ValueGrows ==
    ASSUME NEW value \in Nat, NEW apr \in Nat
    PROVE  /\ (value * (Unit + apr)) \div Unit \in Nat
           /\ value <= (value * (Unit + apr)) \div Unit
           /\ ((value * (Unit + apr)) \div Unit) * Unit <= value * Unit + value * apr
           /\ value * Unit + value * apr
                < ((value * (Unit + apr)) \div Unit) * Unit + Unit
  <1>1. value * (Unit + apr) \in Nat /\ value * Unit <= value * (Unit + apr)
    BY Units
  <1>2. value * (Unit + apr) = value * Unit + value * apr
    BY Units
  <1> QED
    BY <1>1, <1>2, Units, Quotient, QuotientAtLeast

\* Bank c is b with its interest accrued.
Accrues(b, c) ==
    /\ c \in BankType
    /\ c.open = b.open /\ c.state = b.state /\ c.flags = b.flags
    /\ c.originationRate = b.originationRate
    /\ c.assets = b.assets /\ c.liabs = b.liabs
    /\ b.assetValue <= c.assetValue /\ b.liabValue <= c.liabValue

\* The totals of a bank are numbers.
LEMMA TotalsType ==
    ASSUME NEW b \in BankType
    PROVE  /\ TotalAssets(b) \in Nat /\ TotalLiabs(b) \in Nat
           /\ TotalAssets(b) * Unit <= b.assets * b.assetValue
           /\ b.assets * b.assetValue < TotalAssets(b) * Unit + Unit
           /\ TotalLiabs(b) * Unit <= b.liabs * b.liabValue
  <1>1. /\ b.assets \in Nat /\ b.assetValue \in Nat
        /\ b.liabs \in Nat /\ b.liabValue \in Nat
    BY DEF BankType
  <1> QED
    BY <1>1, AmountOf DEF TotalAssets, TotalLiabs

\* Whether there is interest to accrue
Earning(b) == ~ b.current /\ TotalAssets(b) # 0 /\ TotalLiabs(b) # 0

\* Interest raises both values, by the rates of the code, and the fees with them.
LEMMA InterestIs ==
    ASSUME NEW b \in BankType, NEW rate \in Nat, Earning(b)
    PROVE  LET c == AccrueInterest(b, rate)
               lend == LendingApr(b, rate)
               pay == BorrowingApr(rate)
           IN /\ Accrues(b, c)
              /\ lend \in Nat /\ pay \in Nat
              /\ c.assetValue = (b.assetValue * (Unit + lend)) \div Unit
              /\ c.liabValue = (b.liabValue * (Unit + pay)) \div Unit
              /\ c.fees = [k \in FeeKinds |->
                    b.fees[k] + (TotalLiabs(b) * FeeApr(k, rate)) \div Unit]
  <1> DEFINE lend == LendingApr(b, rate)
             pay == BorrowingApr(rate)
             av == (b.assetValue * (Unit + lend)) \div Unit
             lv == (b.liabValue * (Unit + pay)) \div Unit
             fees == [k \in FeeKinds |->
                        b.fees[k] + (TotalLiabs(b) * FeeApr(k, rate)) \div Unit]
             c == [b EXCEPT !.current = TRUE, !.assetValue = av, !.liabValue = lv,
                            !.fees = fees]
  <1>1. AccrueInterest(b, rate) = c
    BY DEF AccrueInterest, Earning
  <1>2. /\ TotalAssets(b) \in Nat \ {0} /\ TotalLiabs(b) \in Nat
        /\ b.assetValue \in Nat /\ b.liabValue \in Nat /\ b.fees \in [FeeKinds -> Nat]
    BY TotalsType DEF BankType, Earning
  <1>3. pay \in Nat
    BY BorrowersPay
  <1>4. lend \in Nat
    <2> DEFINE util == (TotalLiabs(b) * Unit) \div TotalAssets(b)
    <2>1. TotalLiabs(b) * Unit \in Nat
      BY <1>2, Units
    <2>2. util \in Nat
      BY <1>2, <2>1, Quotient
    <2>3. lend = (rate * util) \div Unit
      BY DEF LendingApr
    <2> HIDE DEF util
    <2>4. rate * util \in Nat
      BY <2>2
    <2> QED
      BY <2>3, <2>4, Units, Quotient
  <1> HIDE DEF lend, pay
  <1>5. av \in Nat /\ lv \in Nat /\ b.assetValue <= av /\ b.liabValue <= lv
    BY <1>2, <1>3, <1>4, ValueGrows
  <1>6. fees \in [FeeKinds -> Nat]
    <2> SUFFICES ASSUME NEW k \in FeeKinds
                 PROVE  b.fees[k] + (TotalLiabs(b) * FeeApr(k, rate)) \div Unit \in Nat
      OBVIOUS
    <2>1. TotalLiabs(b) * FeeApr(k, rate) \in Nat
      BY <1>2, FeeAprType
    <2> QED
      BY <1>2, <2>1, Units, Quotient
  <1> HIDE DEF av, lv, fees
  <1>7. c \in BankType
    BY <1>5, <1>6 DEF BankType
  <1>8. /\ c.assetValue = av /\ c.liabValue = lv /\ c.fees = fees
        /\ c.assets = b.assets /\ c.liabs = b.liabs
        /\ c.originationRate = b.originationRate
    BY DEF BankType
  <1>9. c.open = b.open /\ c.state = b.state /\ c.flags = b.flags
    BY DEF BankType
  <1> HIDE DEF c
  <1>10. Accrues(b, c)
    BY <1>5, <1>7, <1>8, <1>9 DEF Accrues
  <1> QED
    BY <1>1, <1>3, <1>4, <1>8, <1>10 DEF lend, pay, av, lv, fees

\* What interest does when there is none.
LEMMA NoInterest ==
    ASSUME NEW b \in BankType, NEW rate \in Nat, ~ Earning(b)
    PROVE  LET c == AccrueInterest(b, rate)
           IN /\ Accrues(b, c)
              /\ c.assetValue = b.assetValue /\ c.liabValue = b.liabValue
              /\ c.fees = b.fees
  <1> DEFINE c == [b EXCEPT !.current = TRUE]
  <1>1. AccrueInterest(b, rate) = c
    BY DEF AccrueInterest, Earning
  <1>2. c \in BankType
    BY DEF BankType
  <1>3. /\ c.assetValue = b.assetValue /\ c.liabValue = b.liabValue /\ c.fees = b.fees
        /\ c.assets = b.assets /\ c.liabs = b.liabs
        /\ c.originationRate = b.originationRate
        /\ b.assetValue \in Nat /\ b.liabValue \in Nat
    BY DEF BankType
  <1>4. c.open = b.open /\ c.state = b.state /\ c.flags = b.flags
    BY DEF BankType
  <1> HIDE DEF c
  <1>5. Accrues(b, c)
    BY <1>2, <1>3, <1>4 DEF Accrues
  <1> QED
    BY <1>1, <1>3, <1>5

-----------------------------------------------------------------------------
(* Interest pays for itself *)

\* What rounding may cost when interest accrues
InterestLoss(b, rate) ==
    IF b.current \/ TotalAssets(b) = 0 THEN 0
    ELSE b.liabs + rate * (TotalLiabs(b) \div TotalAssets(b) + 1)

\* What depositors earn is no more than the interest on the debts, but for rounding.
LEMMA DepositorsEarn ==
    ASSUME NEW b \in BankType, NEW rate \in Nat, Earning(b)
    PROVE  b.assets * b.assetValue * LendingApr(b, rate)
            <= Unit * (TotalLiabs(b) * rate
                        + rate * (TotalLiabs(b) \div TotalAssets(b) + 1))
  <1> DEFINE TA == TotalAssets(b)
             TL == TotalLiabs(b)
             worth == b.assets * b.assetValue
             util == (TL * Unit) \div TA
             lend == LendingApr(b, rate)
             q == TL \div TA
  <1>1. TA \in Nat \ {0} /\ TL \in Nat /\ worth \in Nat /\ worth < TA * Unit + Unit
    BY TotalsType DEF BankType, Earning
  <1>2. lend = (rate * util) \div Unit
    BY DEF LendingApr
  <1> HIDE DEF TA, TL, worth, lend
  <1>3. TL * Unit \in Nat
    BY <1>1, Units
  <1>4. util \in Nat /\ util * TA <= TL * Unit
    BY <1>1, <1>3, Quotient
  <1>5. q \in Nat /\ TL < q * TA + TA
    BY <1>1, Quotient
  <1>6. util <= Unit * (q + 1)
    <2> HIDE DEF util, q
    <2>1. TL * Unit < (q * TA + TA) * Unit
      BY <1>1, <1>5, Units
    <2>2. (q * TA + TA) * Unit = (Unit * (q + 1)) * TA
      BY <1>1, <1>5, Units
    <2>3. util * TA < (Unit * (q + 1)) * TA
      <3>1. util * TA \in Int /\ (q * TA + TA) * Unit \in Int
        BY <1>1, <1>4, <1>5, Units
      <3> QED
        BY <1>3, <1>4, <2>1, <2>2, <3>1
    <2>4. Unit * (q + 1) \in Int
      BY <1>5, Units
    <2> QED
      BY <1>1, <1>4, <2>3, <2>4, ProductCancels
  <1> HIDE DEF util, q
  <1>7. lend \in Nat /\ lend * Unit <= rate * util
    <2>1. rate * util \in Nat
      BY <1>4
    <2> QED
      BY <1>2, <2>1, Units, Quotient
  <1>8. worth * lend <= (TA + 1) * (rate * util)
    <2>1. worth * lend <= ((TA + 1) * Unit) * lend
      <3>1. worth <= (TA + 1) * Unit /\ (TA + 1) * Unit \in Int
        BY <1>1, Units
      <3> QED
        BY <1>1, <1>7, <3>1, ProductMonotonic
    <2>2. ((TA + 1) * Unit) * lend = (lend * Unit) * (TA + 1)
      BY <1>1, <1>7, Units
    <2>3. (lend * Unit) * (TA + 1) <= (rate * util) * (TA + 1)
      <3>1. lend * Unit \in Int /\ rate * util \in Int /\ TA + 1 \in Nat
        BY <1>1, <1>4, <1>7, Units
      <3> QED
        BY <1>7, <3>1, ProductMonotonic
    <2>4. /\ worth * lend \in Int /\ (lend * Unit) * (TA + 1) \in Int
          /\ (rate * util) * (TA + 1) \in Int
      BY <1>1, <1>4, <1>7, Units
    <2>5. (rate * util) * (TA + 1) = (TA + 1) * (rate * util)
      BY <1>1, <1>4
    <2> QED
      BY <2>1, <2>2, <2>3, <2>4, <2>5
  <1>9. (TA + 1) * (rate * util) <= Unit * (TL * rate + rate * (q + 1))
    <2>1. (TA + 1) * (rate * util) = (util * TA) * rate + util * rate
      BY <1>1, <1>4
    <2>2. (util * TA) * rate <= (TL * Unit) * rate
      <3>1. util * TA \in Int
        BY <1>1, <1>4
      <3> QED
        BY <1>3, <1>4, <3>1, ProductMonotonic
    <2>3. util * rate <= (Unit * (q + 1)) * rate
      <3>1. Unit * (q + 1) \in Int
        BY <1>5, Units
      <3> QED
        BY <1>4, <1>6, <3>1, ProductMonotonic
    <2>4. Unit * (TL * rate + rate * (q + 1)) = (TL * Unit) * rate + (Unit * (q + 1)) * rate
      BY <1>1, <1>5, Units
    <2>5. /\ (util * TA) * rate \in Int /\ (TL * Unit) * rate \in Int
          /\ util * rate \in Int /\ (Unit * (q + 1)) * rate \in Int
      BY <1>1, <1>4, <1>5, Units
    <2> QED
      BY <2>1, <2>2, <2>3, <2>4, <2>5
  <1>10. /\ worth * lend \in Int /\ (TA + 1) * (rate * util) \in Int
         /\ Unit * (TL * rate + rate * (q + 1)) \in Int
    BY <1>1, <1>4, <1>5, <1>7, Units
  <1> QED
    BY <1>8, <1>9, <1>10 DEF TA, TL, worth, lend, q

\* What borrowers pay covers the interest on the debts and every fee.
LEMMA BorrowersCover ==
    ASSUME NEW b \in BankType, NEW rate \in Nat, Earning(b),
           NEW charged \in Int,
           charged = SumFunction(AccrueInterest(b, rate).fees) - SumFunction(b.fees)
    PROVE  Unit * (TotalLiabs(b) * rate + charged * Unit)
            <= b.liabs * b.liabValue * BorrowingApr(rate)
  <1> DEFINE TL == TotalLiabs(b)
             pay == BorrowingApr(rate)
             worth == b.liabs * b.liabValue
             fee(k) == (TL * FeeApr(k, rate)) \div Unit
             apr(k) == FeeApr(k, rate)
  <1>1. TL \in Nat /\ worth \in Nat /\ TL * Unit <= worth
    BY TotalsType DEF BankType
  <1>2. \A k \in {"insurance", "group", "program"} :
            /\ apr(k) \in Nat /\ fee(k) \in Nat /\ fee(k) * Unit <= TL * apr(k)
    <2> SUFFICES ASSUME NEW k \in {"insurance", "group", "program"}
                 PROVE  /\ apr(k) \in Nat /\ fee(k) \in Nat
                        /\ fee(k) * Unit <= TL * apr(k)
      OBVIOUS
    <2>1. apr(k) \in Nat
      BY FeeAprType DEF FeeKinds
    <2>2. TL * apr(k) \in Nat
      BY <1>1, <2>1
    <2> QED
      BY <2>1, <2>2, Units, Quotient
  <1>3. /\ pay \in Nat
        /\ rate + apr("insurance") + apr("group") + apr("program") <= pay
    BY BorrowersPay
  <1>4. charged = fee("insurance") + fee("group") + fee("program")
    <2> DEFINE new == AccrueInterest(b, rate).fees
    <2>1. new = [k \in FeeKinds |-> b.fees[k] + fee(k)]
      BY InterestIs
    <2>2. b.fees \in [FeeKinds -> Int]
      BY DEF BankType
    <2>3. new \in [FeeKinds -> Int]
      BY <1>2, <2>1, <2>2 DEF FeeKinds
    <2>4. /\ new["insurance"] = b.fees["insurance"] + fee("insurance")
          /\ new["group"] = b.fees["group"] + fee("group")
          /\ new["program"] = b.fees["program"] + fee("program")
      BY <2>1 DEF FeeKinds
    <2>5. /\ SumFunction(new) = new["insurance"] + new["group"] + new["program"]
          /\ SumFunction(b.fees)
                = b.fees["insurance"] + b.fees["group"] + b.fees["program"]
      <3> HIDE DEF new
      <3> QED
        BY <2>2, <2>3, FeeSum
    <2>6. /\ b.fees["insurance"] \in Int /\ b.fees["group"] \in Int
          /\ b.fees["program"] \in Int
      BY <2>2 DEF FeeKinds
    <2>7. charged = SumFunction(new) - SumFunction(b.fees)
      OBVIOUS
    <2> HIDE DEF new, fee
    <2> QED
      BY <1>2, <2>4, <2>5, <2>6, <2>7
  <1> DEFINE fees == fee("insurance") + fee("group") + fee("program")
             aprs == apr("insurance") + apr("group") + apr("program")
  <1>5. fees \in Nat /\ aprs \in Nat /\ fees * Unit <= TL * aprs
    <2> HIDE DEF TL, fee, apr
    <2>1. /\ fees * Unit = fee("insurance") * Unit + fee("group") * Unit
                            + fee("program") * Unit
          /\ TL * aprs = TL * apr("insurance") + TL * apr("group") + TL * apr("program")
      BY <1>1, <1>2, Units
    <2>2. \A k \in {"insurance", "group", "program"} :
            fee(k) * Unit \in Int /\ TL * apr(k) \in Int
      BY <1>1, <1>2, Units
    <2> QED
      BY <1>2, <2>1, <2>2
  <1>6. charged = fees /\ rate + aprs <= pay
    BY <1>2, <1>3, <1>4
  <1> HIDE DEF TL, pay, worth, fees, aprs
  <1>7. TL * rate + fees * Unit <= TL * pay
    <2>1. TL * rate + TL * aprs = (rate + aprs) * TL /\ TL * pay = pay * TL
      BY <1>1, <1>3, <1>5
    <2>2. (rate + aprs) * TL <= pay * TL
      BY <1>1, <1>3, <1>5, <1>6, ProductMonotonic
    <2>3. /\ TL * rate \in Int /\ TL * aprs \in Int /\ fees * Unit \in Int
          /\ TL * pay \in Int /\ (rate + aprs) * TL \in Int
      BY <1>1, <1>3, <1>5, Units
    <2> QED
      BY <1>5, <2>1, <2>2, <2>3
  <1>8. Unit * (TL * rate + fees * Unit) <= Unit * (TL * pay)
    <2>1. TL * rate + fees * Unit \in Int /\ TL * pay \in Int
      BY <1>1, <1>3, <1>5, Units
    <2>2. /\ Unit * (TL * rate + fees * Unit) = (TL * rate + fees * Unit) * Unit
          /\ Unit * (TL * pay) = (TL * pay) * Unit
      BY <2>1, Units
    <2> QED
      BY <1>7, <2>1, <2>2, Units, ProductMonotonic
  <1>9. Unit * (TL * pay) = (TL * Unit) * pay /\ (TL * Unit) * pay <= worth * pay
    <2>1. TL * Unit \in Int
      BY <1>1, Units
    <2> QED
      BY <1>1, <1>3, <2>1, Units, ProductMonotonic
  <1>10. /\ Unit * (TL * rate + fees * Unit) \in Int /\ Unit * (TL * pay) \in Int
         /\ worth * pay \in Int
    BY <1>1, <1>3, <1>5, Units
  <1>11. Unit * (TL * rate + fees * Unit) <= worth * pay
    BY <1>8, <1>9, <1>10
  <1> QED
    BY <1>6, <1>11 DEF TL, pay, worth

\* Backing is a number, made of these.
LEMMA BackingIs ==
    ASSUME NEW b \in BankType, NEW liquidity \in Int
    PROVE  /\ b.assets * b.assetValue \in Nat /\ b.liabs * b.liabValue \in Nat
           /\ SumFunction(b.fees) \in Int
           /\ liquidity * Unit * Unit \in Int
           /\ Backing(b, liquidity) \in Int
           /\ Backing(b, liquidity) = liquidity * Unit * Unit + b.liabs * b.liabValue
                - b.assets * b.assetValue - SumFunction(b.fees) * Unit
  <1>1. b.assets * b.assetValue \in Nat /\ b.liabs * b.liabValue \in Nat
    BY DEF BankType
  <1>2. SumFunction(b.fees) \in Int
    <2>1. b.fees \in [FeeKinds -> Int]
      BY DEF BankType
    <2>2. /\ b.fees["insurance"] \in Int /\ b.fees["group"] \in Int
          /\ b.fees["program"] \in Int
      BY <2>1 DEF FeeKinds
    <2> QED
      BY <2>1, <2>2, FeeSum
  <1>3. SumFunction(b.fees) * Unit \in Int /\ liquidity * Unit * Unit \in Int
    BY <1>2, Units
  <1> QED
    BY <1>1, <1>2, <1>3 DEF Backing

\* Accruing interest takes from the backing of the bank no more than rounding.
LEMMA InterestIsBacked ==
    ASSUME NEW b \in BankType, NEW rate \in Nat, NEW liquidity \in Int
    PROVE  /\ InterestLoss(b, rate) \in Nat
           /\ Backing(AccrueInterest(b, rate), liquidity)
                >= Backing(b, liquidity) - InterestLoss(b, rate)
  <1> DEFINE c == AccrueInterest(b, rate)
             A == b.assets
             L == b.liabs
             q == TotalLiabs(b) \div TotalAssets(b)
  <1>1. c \in BankType /\ c.assets = A /\ c.liabs = L
    BY InterestIs, NoInterest DEF Accrues
  <1>2. /\ A \in Nat /\ L \in Nat /\ b.assetValue \in Nat /\ b.liabValue \in Nat
        /\ c.assetValue \in Nat /\ c.liabValue \in Nat
    BY <1>1 DEF BankType
  <1>3. TotalLiabs(b) \in Nat /\ (TotalAssets(b) # 0 => q \in Nat)
    BY TotalsType, Quotient
  <1>4. InterestLoss(b, rate) \in Nat
    BY <1>2, <1>3 DEF InterestLoss
  <1> HIDE DEF c, q
  <1>5. /\ Backing(c, liquidity) \in Int /\ Backing(b, liquidity) \in Int
        /\ SumFunction(c.fees) \in Int /\ SumFunction(b.fees) \in Int
        /\ liquidity * Unit * Unit \in Int
        /\ A * c.assetValue \in Nat /\ A * b.assetValue \in Nat
        /\ L * c.liabValue \in Nat /\ L * b.liabValue \in Nat
        /\ Backing(c, liquidity) = liquidity * Unit * Unit + L * c.liabValue
                - A * c.assetValue - SumFunction(c.fees) * Unit
        /\ Backing(b, liquidity) = liquidity * Unit * Unit + L * b.liabValue
                - A * b.assetValue - SumFunction(b.fees) * Unit
    BY <1>1, BackingIs
  <1>6. CASE ~ Earning(b)
    <2>1. /\ c.assetValue = b.assetValue /\ c.liabValue = b.liabValue
          /\ c.fees = b.fees
      BY <1>6, NoInterest DEF c
    <2> QED
      BY <1>4, <1>5, <2>1 DEF c
  <1>7. CASE Earning(b)
    <2> DEFINE lend == LendingApr(b, rate)
               pay == BorrowingApr(rate)
               charged == SumFunction(c.fees) - SumFunction(b.fees)
               av == b.assetValue
               lv == b.liabValue
               aw == c.assetValue
               lw == c.liabValue
               more == TotalLiabs(b) * rate
    <2>1. /\ lend \in Nat /\ pay \in Nat
          /\ aw = (av * (Unit + lend)) \div Unit /\ lw = (lv * (Unit + pay)) \div Unit
      BY <1>7, InterestIs DEF c
    <2>2. /\ aw * Unit <= av * Unit + av * lend
          /\ lv * Unit + lv * pay < lw * Unit + Unit
      BY <1>2, <2>1, ValueGrows
    <2>3. (A * av) * lend <= Unit * (more + rate * (q + 1))
      BY <1>7, DepositorsEarn DEF q
    <2>4. charged \in Int /\ Unit * (more + charged * Unit) <= (L * lv) * pay
      BY <1>5, <1>7, BorrowersCover DEF c
    <2>5. InterestLoss(b, rate) = L + rate * (q + 1)
      BY <1>7 DEF InterestLoss, Earning, q
    <2>6. more \in Nat /\ q \in Nat
      BY <1>3, <1>7 DEF Earning
    <2> HIDE DEF lend, pay, charged, av, lv, aw, lw, more
    <2>7. /\ av \in Nat /\ lv \in Nat /\ aw \in Nat /\ lw \in Nat
      BY <1>2 DEF av, lv, aw, lw
    <2>8. (A * aw) * Unit <= (A * av) * Unit + (A * av) * lend
      <3>1. aw * Unit \in Int /\ av * Unit + av * lend \in Int
        BY <2>1, <2>7, Units
      <3>2. (aw * Unit) * A <= (av * Unit + av * lend) * A
        BY <1>2, <2>2, <3>1, ProductMonotonic
      <3> QED
        BY <1>2, <2>1, <2>7, <3>2, Units
    <2>9. (L * lv) * Unit + (L * lv) * pay <= (L * lw) * Unit + L * Unit
      <3>1. lv * Unit + lv * pay \in Int /\ lw * Unit + Unit \in Int
        BY <2>1, <2>7, Units
      <3>2. (lv * Unit + lv * pay) * L <= (lw * Unit + Unit) * L
        BY <1>2, <2>2, <3>1, ProductMonotonic
      <3> QED
        BY <1>2, <2>1, <2>7, <3>2, Units
    <2>10. (A * aw + L * lv + charged * Unit) * Unit
              <= (A * av + L * lw + L + rate * (q + 1)) * Unit
      <3>1. /\ (A * aw + L * lv + charged * Unit) * Unit
                  = (A * aw) * Unit + (L * lv) * Unit + (charged * Unit) * Unit
            /\ (A * av + L * lw + L + rate * (q + 1)) * Unit
                  = (A * av) * Unit + (L * lw) * Unit + L * Unit + (rate * (q + 1)) * Unit
            /\ Unit * (more + rate * (q + 1)) = more * Unit + (rate * (q + 1)) * Unit
            /\ Unit * (more + charged * Unit) = more * Unit + (charged * Unit) * Unit
        BY <1>2, <2>4, <2>6, <2>7, Units
      <3>2. /\ (A * aw) * Unit \in Int /\ (L * lv) * Unit \in Int
            /\ (charged * Unit) * Unit \in Int /\ (A * av) * Unit \in Int
            /\ (L * lw) * Unit \in Int /\ L * Unit \in Int
            /\ (rate * (q + 1)) * Unit \in Int /\ more * Unit \in Int
            /\ (A * av) * lend \in Int /\ (L * lv) * pay \in Int
        BY <1>2, <2>1, <2>4, <2>6, <2>7, Units
      <3> QED
        BY <2>3, <2>4, <2>8, <2>9, <3>1, <3>2
    <2>11. A * aw + L * lv + charged * Unit <= A * av + L * lw + L + rate * (q + 1)
      <3> DEFINE m == A * aw + L * lv + charged * Unit
                 n == A * av + L * lw + L + rate * (q + 1)
      <3>1. m \in Int /\ n \in Int
        BY <1>2, <2>4, <2>6, <2>7, Units
      <3>2. m * Unit <= n * Unit
        BY <2>10
      <3> HIDE DEF m, n
      <3>3. m <= n
        BY <3>1, <3>2, Units, ProductCancelsAtMost
      <3> QED
        BY <3>3 DEF m, n
    <2>12. charged * Unit = SumFunction(c.fees) * Unit - SumFunction(b.fees) * Unit
      BY <1>5, Units DEF charged
    <2>13. /\ SumFunction(c.fees) * Unit \in Int /\ SumFunction(b.fees) * Unit \in Int
           /\ rate * (q + 1) \in Int
      BY <1>5, <2>6, Units
    <2>14. Backing(c, liquidity) >= Backing(b, liquidity) - (L + rate * (q + 1))
      BY <1>2, <1>5, <2>11, <2>12, <2>13 DEF av, lv, aw, lw
    <2> QED
      BY <1>4, <2>5, <2>14 DEF c
  <1> QED
    BY <1>6, <1>7

\* What the bank may be once a handler has accrued its interest.
LEMMA AccruedIs ==
    ASSUME bank \in BankType, NEW b \in Accrued
    PROVE  /\ Accrues(bank, b)
           /\ \A liquidity \in Int : \E rate \in Rates :
                /\ InterestLoss(bank, rate) \in Nat
                /\ Backing(b, liquidity) \in Int /\ Backing(bank, liquidity) \in Int
                /\ Backing(b, liquidity)
                    >= Backing(bank, liquidity) - InterestLoss(bank, rate)
  <1>1. PICK rate \in Rates : b = AccrueInterest(bank, rate)
    BY DEF Accrued
  <1>2. rate \in Nat
    BY BankAssumption
  <1>3. Accrues(bank, b)
    BY <1>1, <1>2, InterestIs, NoInterest
  <1>4. b \in BankType
    BY <1>3 DEF Accrues
  <1> QED
    BY <1>1, <1>2, <1>3, <1>4, InterestIsBacked, BackingIs

-----------------------------------------------------------------------------
(* Balances and totals *)

\* The shares of the balances bs, on one side
Held(bs, side) == SumFunctionOnSet([u \in Users |-> bs[u][side]], Users)
Sides == {"asset", "liab"}

\* SharesHeld is that sum, before a step.
LEMMA HeldIsSum == \A side : SharesHeld(side) = Held(balances, side)
  BY DEF SharesHeld, Held, SumFunction

\* The same, after the step.
LEMMA HeldIsSumAfter == \A side : SharesHeld(side)' = Held(balances', side)
  BY DEF SharesHeld, Held, SumFunction

\* The shares of a balance are a number.
LEMMA SideType == ASSUME NEW x \in Balance, NEW side \in Sides PROVE x[side] \in Nat
  BY DEF Balance, Sides

\* All shares are at least those of an account.
LEMMA HeldAtLeast ==
    ASSUME NEW bs \in [Users -> Balance], NEW side \in Sides
    PROVE  Held(bs, side) \in Nat /\ \A u \in Users : bs[u][side] <= Held(bs, side)
  <1> DEFINE f == [u \in Users |-> bs[u][side]]
  <1>1. \A u \in Users : f[u] \in Nat /\ f[u] = bs[u][side]
    BY SideType
  <1>2. IsFiniteSet(Users)
    BY BankAssumption
  <1>3. Held(bs, side) = SumFunctionOnSet(f, Users)
    BY DEF Held
  <1> HIDE DEF f
  <1> QED
    BY <1>1, <1>2, <1>3, SumNat

\* When one balance changes, the shares change by as much.
LEMMA HeldUpdate ==
    ASSUME NEW bs \in [Users -> Balance], NEW u \in Users, NEW x \in Balance,
           NEW side \in Sides
    PROVE  Held([bs EXCEPT ![u] = x], side) = Held(bs, side) - bs[u][side] + x[side]
  <1> DEFINE cs == [bs EXCEPT ![u] = x]
             f == [v \in Users |-> bs[v][side]]
             g == [v \in Users |-> cs[v][side]]
  <1>1. \A v \in Users : cs[v] \in Balance
    OBVIOUS
  <1>2. \A v \in Users : f[v] \in Int /\ g[v] \in Int
    BY <1>1, SideType
  <1>3. \A v \in Users \ {u} : g[v] = f[v]
    OBVIOUS
  <1>4. f[u] = bs[u][side] /\ g[u] = x[side]
    OBVIOUS
  <1>5. IsFiniteSet(Users)
    BY BankAssumption
  <1>6. Held(cs, side) = SumFunctionOnSet(g, Users)
    BY DEF Held
  <1>7. Held(bs, side) = SumFunctionOnSet(f, Users)
    BY DEF Held
  <1> HIDE DEF f, g, cs
  <1>8. Held(cs, side) = Held(bs, side) - bs[u][side] + x[side]
    BY <1>2, <1>3, <1>4, <1>5, <1>6, <1>7, SumUpdate
  <1> QED
    BY <1>8 DEF cs

\* What a step does to the books of the bank: the types, TotalsFollowBalances, and that a
\* balance that is not active is closed.
InactiveClosed == \A u \in Users : ~ balances[u].active => balances[u] = Closed
BooksKept ==
    /\ bank' \in BankType /\ balances' \in [Users -> Balance]
    /\ TotalsFollow(bank.assets, "asset", bank.assetValue)
    /\ TotalsFollow(bank.liabs, "liab", bank.liabValue)
    /\ InactiveClosed'

\* What is left in a total when the shares of a balance are gone: nothing, or the dust of
\* a balance that is closed.
Left(dust, side, u, x, value) ==
    /\ dust \in Nat
    /\ dust > 0 => /\ balances[u].active /\ ~ x.active /\ dust = balances[u][side]
                   /\ Amount(dust, value) < Threshold \/ dust <= Threshold

\* One side of TotalsFollowBalances, for a step that changes the balance of u to x.
LEMMA OneFollows ==
    ASSUME balances \in [Users -> Balance], NEW u \in Users, NEW x \in Balance,
           balances' = [balances EXCEPT ![u] = x],
           NEW side \in Sides, NEW dust, NEW value,
           NEW total \in Int, NEW after \in Int,
           after - total = x[side] - balances[u][side] + dust,
           Left(dust, side, u, x, value)
    PROVE  LET kept == (after - SharesHeld(side)') - (total - SharesHeld(side))
           IN /\ kept >= 0
              /\ kept > 0 => \E v \in Users :
                    /\ balances[v].active /\ ~ balances'[v].active
                    /\ kept = balances[v][side]
                    /\ Amount(kept, value) < Threshold \/ kept <= Threshold
  <1>1. /\ SharesHeld(side) = Held(balances, side)
        /\ SharesHeld(side)' = Held(balances', side)
    BY HeldIsSum, HeldIsSumAfter
  <1>2. Held(balances', side) = Held(balances, side) - balances[u][side] + x[side]
    BY HeldUpdate
  <1>3. /\ Held(balances, side) \in Nat /\ balances[u][side] \in Nat /\ x[side] \in Nat
        /\ dust \in Nat
    BY HeldAtLeast, SideType DEF Left
  <1>4. (after - SharesHeld(side)') - (total - SharesHeld(side)) = dust
    BY <1>1, <1>2, <1>3
  <1>5. balances'[u] = x
    OBVIOUS
  <1>6. dust > 0 => /\ balances[u].active /\ ~ balances'[u].active
                    /\ dust = balances[u][side]
                    /\ Amount(dust, value) < Threshold \/ dust <= Threshold
    BY <1>5 DEF Left
  <1> QED
    BY <1>3, <1>4, <1>6

\* What IInv says of the accounts.
LEMMA AccountsIs ==
    ASSUME IInv
    PROVE  /\ bank \in BankType /\ balances \in [Users -> Balance]
           /\ tokens \in [Vaults \union Users -> Nat]
           /\ bank.assets \in Nat /\ bank.liabs \in Nat
           /\ bank.assetValue \in Nat /\ bank.liabValue \in Nat /\ Unit <= bank.liabValue
           /\ Held(balances, "asset") <= bank.assets
           /\ Held(balances, "liab") <= bank.liabs
           /\ \A u \in Users : /\ balances[u] \in Balance
                               /\ balances[u].asset \in Nat /\ balances[u].liab \in Nat
                               /\ balances[u].asset <= bank.assets
                               /\ balances[u].liab <= bank.liabs
           /\ InactiveClosed
  <1>1. /\ bank \in BankType /\ balances \in [Users -> Balance]
        /\ tokens \in [Vaults \union Users -> Nat] /\ InactiveClosed
    BY DEF IInv, TypeOK, InactiveClosed
  <1>2. /\ bank.assets \in Nat /\ bank.liabs \in Nat
        /\ bank.assetValue \in Nat /\ bank.liabValue \in Nat
    BY <1>1 DEF BankType
  <1>3. Held(balances, "asset") <= bank.assets /\ Held(balances, "liab") <= bank.liabs
    BY HeldIsSum DEF IInv
  <1>4. \A u \in Users : balances[u].asset \in Nat /\ balances[u].liab \in Nat
    BY <1>1 DEF Balance
  <1>5. /\ Held(balances, "asset") \in Nat /\ Held(balances, "liab") \in Nat
        /\ \A u \in Users : /\ balances[u]["asset"] <= Held(balances, "asset")
                            /\ balances[u]["liab"] <= Held(balances, "liab")
    BY <1>1, HeldAtLeast DEF Sides
  <1>6. \A u \in Users : /\ balances[u].asset <= bank.assets
                         /\ balances[u].liab <= bank.liabs
    BY <1>2, <1>3, <1>4, <1>5
  <1> QED
    BY <1>1, <1>2, <1>3, <1>4, <1>6 DEF IInv

\* find_or_create adds nothing to the books.
LEMMA OpenedIs ==
    ASSUME IInv, NEW u \in Users
    PROVE  /\ Opened(u) \in Balance
           /\ Opened(u).asset = balances[u].asset /\ Opened(u).liab = balances[u].liab
           /\ Opened(u).active
  <1>1. balances[u] \in Balance /\ InactiveClosed
    BY AccountsIs
  <1>2. CASE balances[u].active
    BY <1>1, <1>2 DEF Opened
  <1>3. CASE ~ balances[u].active
    <2>1. balances[u].asset = 0 /\ balances[u].liab = 0
      BY <1>1, <1>3 DEF InactiveClosed, Closed
    <2>2. Opened(u) = [active |-> TRUE, asset |-> 0, liab |-> 0]
      BY <1>3 DEF Opened
    <2>3. Opened(u) \in Balance
      BY <2>2 DEF Balance
    <2> QED
      BY <2>1, <2>2, <2>3
  <1> QED
    BY <1>2, <1>3

\* A step that books balance x for u, and dust left in the totals.
LEMMA OneBooked ==
    ASSUME IInv, NEW u \in Users, NEW b, Accrues(bank, b),
           NEW c \in BankType, NEW x \in Balance, NEW da, NEW dl,
           c.assets - b.assets = x.asset - balances[u].asset + da,
           c.liabs - b.liabs = x.liab - balances[u].liab + dl,
           Left(da, "asset", u, x, c.assetValue), Left(dl, "liab", u, x, c.liabValue),
           ~ x.active => x = Closed,
           bank' = c, balances' = [balances EXCEPT ![u] = x]
    PROVE  BooksKept
  <1>1. balances \in [Users -> Balance] /\ bank \in BankType /\ InactiveClosed
    BY AccountsIs
  <1>2. /\ bank.assets \in Int /\ bank.liabs \in Int /\ bank'.assets \in Int
        /\ bank'.liabs \in Int
    BY <1>1 DEF BankType
  <1>3. b.assets = bank.assets /\ b.liabs = bank.liabs
    BY DEF Accrues
  <1>4. /\ bank'.assets - bank.assets = x["asset"] - balances[u]["asset"] + da
        /\ bank'.liabs - bank.liabs = x["liab"] - balances[u]["liab"] + dl
    BY <1>3
  <1>5. "asset" \in Sides /\ "liab" \in Sides
    BY DEF Sides
  <1>6. TotalsFollow(bank.assets, "asset", bank.assetValue)
    <2> DEFINE total == bank.assets
               after == bank'.assets
               side == "asset"
               value == c.assetValue
    <2>1. /\ total \in Int /\ after \in Int /\ side \in Sides
          /\ after - total = x[side] - balances[u][side] + da
          /\ Left(da, side, u, x, value)
      BY <1>2, <1>4, <1>5
    <2>2. value = bank'.assetValue
      OBVIOUS
    <2> HIDE DEF total, after, side, value
    <2>3. LET kept == (after - SharesHeld(side)') - (total - SharesHeld(side))
          IN /\ kept >= 0
             /\ kept > 0 => \E v \in Users :
                   /\ balances[v].active /\ ~ balances'[v].active
                   /\ kept = balances[v][side]
                   /\ Amount(kept, value) < Threshold \/ kept <= Threshold
      BY <1>1, <2>1, OneFollows
    <2> QED
      BY <2>2, <2>3 DEF TotalsFollow, total, after, side
  <1>7. TotalsFollow(bank.liabs, "liab", bank.liabValue)
    <2> DEFINE total == bank.liabs
               after == bank'.liabs
               side == "liab"
               value == c.liabValue
    <2>1. /\ total \in Int /\ after \in Int /\ side \in Sides
          /\ after - total = x[side] - balances[u][side] + dl
          /\ Left(dl, side, u, x, value)
      BY <1>2, <1>4, <1>5
    <2>2. value = bank'.liabValue
      OBVIOUS
    <2> HIDE DEF total, after, side, value
    <2>3. LET kept == (after - SharesHeld(side)') - (total - SharesHeld(side))
          IN /\ kept >= 0
             /\ kept > 0 => \E v \in Users :
                   /\ balances[v].active /\ ~ balances'[v].active
                   /\ kept = balances[v][side]
                   /\ Amount(kept, value) < Threshold \/ kept <= Threshold
      BY <1>1, <2>1, OneFollows
    <2> QED
      BY <2>2, <2>3 DEF TotalsFollow, total, after, side
  <1>8. InactiveClosed'
    BY <1>1 DEF InactiveClosed
  <1>9. bank' \in BankType /\ balances' \in [Users -> Balance]
    BY <1>1
  <1> QED
    BY <1>6, <1>7, <1>8, <1>9 DEF BooksKept

\* ... when shares move, no dust is left.
LEMMA OneMoved ==
    ASSUME IInv, NEW u \in Users, NEW b, Accrues(bank, b),
           NEW x \in {balances[u], Opened(u)}, x.active,
           NEW p, Moves(b, x, p), NEW c \in BankType,
           c.assets = p.bank.assets, c.liabs = p.bank.liabs,
           bank' = c, balances' = [balances EXCEPT ![u] = p.balance]
    PROVE  BooksKept
  <1>1. x.asset = balances[u].asset /\ x.liab = balances[u].liab
    BY OpenedIs
  <1>2. balances[u].asset \in Nat /\ balances[u].liab \in Nat
    BY AccountsIs
  <1>3. /\ p.balance \in Balance /\ p.balance.active
        /\ p.balance.asset \in Nat /\ p.balance.liab \in Nat
    BY DEF Moves, Balance
  <1>4. /\ c.assets - b.assets = p.balance.asset - balances[u].asset + 0
        /\ c.liabs - b.liabs = p.balance.liab - balances[u].liab + 0
    BY <1>1, <1>2, <1>3 DEF Moves
  <1>5. /\ Left(0, "asset", u, p.balance, c.assetValue)
        /\ Left(0, "liab", u, p.balance, c.liabValue)
    BY DEF Left
  <1> QED
    BY <1>3, <1>4, <1>5, OneBooked

\* After the first of two moves, the totals still hold the shares of everyone.
FirstMoved(by, p) ==
    LET bs == [balances EXCEPT ![by] = p.balance]
    IN /\ bs \in [Users -> Balance]
       /\ Held(bs, "asset") \in Nat /\ Held(bs, "liab") \in Nat
       /\ p.bank.assets \in Nat /\ p.bank.liabs \in Nat
       /\ p.bank.assets - Held(bs, "asset") = bank.assets - Held(balances, "asset")
       /\ p.bank.liabs - Held(bs, "liab") = bank.liabs - Held(balances, "liab")
       /\ \A u \in Users \ {by} : /\ balances[u].asset <= p.bank.assets
                                  /\ balances[u].liab <= p.bank.liabs

\* One move keeps what the shares of everyone leave of the totals.
LEMMA StillFits ==
    ASSUME IInv, NEW by \in Users, NEW b, Accrues(bank, b),
           NEW x \in {balances[by], Opened(by)}, NEW p, Moves(b, x, p)
    PROVE  FirstMoved(by, p)
  <1> DEFINE bs == [balances EXCEPT ![by] = p.balance]
  <1>1. /\ balances \in [Users -> Balance] /\ bank.assets \in Nat /\ bank.liabs \in Nat
        /\ Held(balances, "asset") <= bank.assets /\ Held(balances, "liab") <= bank.liabs
        /\ balances[by].asset \in Nat /\ balances[by].liab \in Nat
    BY AccountsIs
  <1>2. x.asset = balances[by].asset /\ x.liab = balances[by].liab
    BY OpenedIs
  <1>3. /\ p.balance \in Balance /\ p.balance.asset \in Nat /\ p.balance.liab \in Nat
        /\ p.bank.assets \in Nat /\ p.bank.liabs \in Nat
        /\ p.bank.assets - b.assets = p.balance.asset - balances[by].asset
        /\ p.bank.liabs - b.liabs = p.balance.liab - balances[by].liab
        /\ b.assets = bank.assets /\ b.liabs = bank.liabs
    BY <1>2 DEF Moves, Balance, BankType, Accrues
  <1>4. bs \in [Users -> Balance]
    BY <1>1, <1>3
  <1>5. /\ Held(bs, "asset")
                = Held(balances, "asset") - balances[by]["asset"] + p.balance["asset"]
        /\ Held(bs, "liab")
                = Held(balances, "liab") - balances[by]["liab"] + p.balance["liab"]
    BY <1>1, <1>3, HeldUpdate DEF Sides
  <1>6. Held(balances, "asset") \in Nat /\ Held(balances, "liab") \in Nat
    BY <1>1, HeldAtLeast DEF Sides
  <1>7. \A u \in Users \ {by} : bs[u] = balances[u]
    BY <1>1
  <1> HIDE DEF bs
  <1>8. /\ Held(bs, "asset") \in Nat /\ Held(bs, "liab") \in Nat
        /\ \A u \in Users : /\ bs[u]["asset"] <= Held(bs, "asset")
                            /\ bs[u]["liab"] <= Held(bs, "liab")
        /\ \A u \in Users : bs[u]["asset"] \in Nat /\ bs[u]["liab"] \in Nat
    BY <1>4, HeldAtLeast, SideType DEF Sides
  <1>9. /\ p.bank.assets - Held(bs, "asset") = bank.assets - Held(balances, "asset")
        /\ p.bank.liabs - Held(bs, "liab") = bank.liabs - Held(balances, "liab")
    <2> DEFINE A == p.bank.assets
               L == p.bank.liabs
               ha == Held(bs, "asset")
               hl == Held(bs, "liab")
               ga == Held(balances, "asset")
               gl == Held(balances, "liab")
    <2>1. /\ A \in Int /\ L \in Int /\ ha \in Int /\ hl \in Int /\ ga \in Int
          /\ gl \in Int
      BY <1>3, <1>6, <1>8
    <2>2. /\ A - bank.assets = p.balance.asset - balances[by].asset
          /\ L - bank.liabs = p.balance.liab - balances[by].liab
          /\ ha = ga - balances[by].asset + p.balance.asset
          /\ hl = gl - balances[by].liab + p.balance.liab
      BY <1>3, <1>5
    <2> HIDE DEF A, L, ha, hl, ga, gl
    <2>3. A - ha = bank.assets - ga /\ L - hl = bank.liabs - gl
      BY <1>1, <1>3, <2>1, <2>2
    <2> QED
      BY <2>3 DEF A, L, ha, hl, ga, gl
  <1>10. \A u \in Users \ {by} : /\ balances[u].asset <= p.bank.assets
                                 /\ balances[u].liab <= p.bank.liabs
    BY <1>1, <1>3, <1>6, <1>7, <1>8, <1>9
  <1> QED
    BY <1>3, <1>4, <1>8, <1>9, <1>10 DEF FirstMoved, bs

\* A step in which shares move in and out of two balances, one after the other.
LEMMA TwoMoved ==
    ASSUME IInv, NEW by \in Users, NEW u \in Users, by # u, NEW b, Accrues(bank, b),
           NEW x \in {balances[by], Opened(by)}, x.active, NEW p, Moves(b, x, p),
           NEW y \in {balances[u], Opened(u)}, y.active, NEW q, Moves(p.bank, y, q),
           NEW c \in BankType, c.assets = q.bank.assets, c.liabs = q.bank.liabs,
           bank' = c,
           balances' = [balances EXCEPT ![by] = p.balance, ![u] = q.balance]
    PROVE  BooksKept
  <1> DEFINE bs == [balances EXCEPT ![by] = p.balance]
  <1>1. /\ bs \in [Users -> Balance]
        /\ Held(bs, "asset") \in Nat /\ Held(bs, "liab") \in Nat
        /\ p.bank.assets \in Nat /\ p.bank.liabs \in Nat
        /\ p.bank.assets - Held(bs, "asset") = bank.assets - Held(balances, "asset")
        /\ p.bank.liabs - Held(bs, "liab") = bank.liabs - Held(balances, "liab")
    <2>1. FirstMoved(by, p)
      BY StillFits
    <2> QED
      BY <2>1 DEF FirstMoved
  <1>2. /\ balances \in [Users -> Balance] /\ bank.assets \in Nat /\ bank.liabs \in Nat
        /\ InactiveClosed /\ balances[u].asset \in Nat /\ balances[u].liab \in Nat
    BY AccountsIs
  <1>3. bs[u] = balances[u] /\ balances' = [bs EXCEPT ![u] = q.balance]
    BY <1>2
  <1>4. y.asset = balances[u].asset /\ y.liab = balances[u].liab
    BY OpenedIs
  <1>5. /\ q.balance \in Balance /\ q.balance.asset \in Nat /\ q.balance.liab \in Nat
        /\ c.assets \in Nat /\ c.liabs \in Nat
        /\ c.assets - p.bank.assets = q.balance.asset - balances[u].asset
        /\ c.liabs - p.bank.liabs = q.balance.liab - balances[u].liab
    BY <1>4 DEF Moves, Balance, BankType
  <1>6. p.balance.active /\ q.balance.active
    BY DEF Moves
  <1>7. InactiveClosed'
    BY <1>2, <1>6 DEF InactiveClosed
  <1> HIDE DEF bs
  <1>8. /\ Held(balances', "asset")
                = Held(bs, "asset") - balances[u].asset + q.balance.asset
        /\ Held(balances', "liab")
                = Held(bs, "liab") - balances[u].liab + q.balance.liab
        /\ balances' \in [Users -> Balance]
    <2> DEFINE cs == [bs EXCEPT ![u] = q.balance]
    <2>1. /\ Held(cs, "asset") = Held(bs, "asset") - bs[u]["asset"] + q.balance["asset"]
          /\ Held(cs, "liab") = Held(bs, "liab") - bs[u]["liab"] + q.balance["liab"]
      BY <1>1, <1>5, HeldUpdate DEF Sides
    <2>2. cs \in [Users -> Balance] /\ balances' = cs
      BY <1>1, <1>3, <1>5
    <2> HIDE DEF cs
    <2>3. /\ Held(balances', "asset") = Held(cs, "asset")
          /\ Held(balances', "liab") = Held(cs, "liab")
      BY <2>2, Zenon
    <2> QED
      BY <1>3, <2>1, <2>2, <2>3
  <1>9. Held(balances, "asset") \in Nat /\ Held(balances, "liab") \in Nat
    BY <1>2, HeldAtLeast DEF Sides
  <1>10. /\ SharesHeld("asset") = Held(balances, "asset")
         /\ SharesHeld("liab") = Held(balances, "liab")
         /\ SharesHeld("asset")' = Held(balances', "asset")
         /\ SharesHeld("liab")' = Held(balances', "liab")
    BY HeldIsSum, HeldIsSumAfter
  <1>11. /\ (bank'.assets - SharesHeld("asset")') - (bank.assets - SharesHeld("asset")) = 0
         /\ (bank'.liabs - SharesHeld("liab")') - (bank.liabs - SharesHeld("liab")) = 0
    <2> DEFINE A == p.bank.assets
               L == p.bank.liabs
               ha == Held(bs, "asset")
               hl == Held(bs, "liab")
               ga == Held(balances, "asset")
               gl == Held(balances, "liab")
               ka == Held(balances', "asset")
               kl == Held(balances', "liab")
    <2>1. /\ A \in Int /\ L \in Int /\ ha \in Int /\ hl \in Int /\ ga \in Int
          /\ gl \in Int /\ A - ha = bank.assets - ga /\ L - hl = bank.liabs - gl
      BY <1>1, <1>9
    <2>2. /\ bank'.assets - A = q.balance.asset - balances[u].asset
          /\ bank'.liabs - L = q.balance.liab - balances[u].liab
          /\ ka = ha - balances[u].asset + q.balance.asset
          /\ kl = hl - balances[u].liab + q.balance.liab
          /\ bank'.assets \in Int /\ bank'.liabs \in Int
      BY <1>5, <1>8
    <2> HIDE DEF A, L, ha, hl, ga, gl, ka, kl
    <2>3. ka \in Int /\ kl \in Int
      BY <1>2, <1>5, <2>1, <2>2
    <2>4. (bank'.assets - ka) - (bank.assets - ga) = 0
      BY <1>2, <1>5, <2>1, <2>2, <2>3
    <2>5. (bank'.liabs - kl) - (bank.liabs - gl) = 0
      BY <1>2, <1>5, <2>1, <2>2, <2>3
    <2> QED
      BY <1>10, <2>4, <2>5 DEF ga, gl, ka, kl
  <1>12. TotalsFollow(bank.assets, "asset", bank.assetValue)
    BY <1>11 DEF TotalsFollow
  <1>13. TotalsFollow(bank.liabs, "liab", bank.liabValue)
    BY <1>11 DEF TotalsFollow
  <1>14. bank' \in BankType
    OBVIOUS
  <1> QED
    BY <1>7, <1>8, <1>12, <1>13, <1>14 DEF BooksKept

\* A step that touches no shares.
LEMMA NoneMoved ==
    ASSUME IInv, NEW c \in BankType, c.assets = bank.assets, c.liabs = bank.liabs,
           bank' = c, balances' = balances
    PROVE  BooksKept
  <1>1. /\ balances \in [Users -> Balance] /\ bank.assets \in Nat /\ bank.liabs \in Nat
        /\ InactiveClosed
    BY AccountsIs
  <1>2. /\ SharesHeld("asset") = Held(balances, "asset")
        /\ SharesHeld("liab") = Held(balances, "liab")
        /\ SharesHeld("asset")' = Held(balances', "asset")
        /\ SharesHeld("liab")' = Held(balances', "liab")
    BY HeldIsSum, HeldIsSumAfter
  <1>3. Held(balances, "asset") \in Nat /\ Held(balances, "liab") \in Nat
    BY <1>1, HeldAtLeast DEF Sides
  <1>4. /\ Held(balances', "asset") = Held(balances, "asset")
        /\ Held(balances', "liab") = Held(balances, "liab")
    BY Zenon
  <1>5. /\ (bank'.assets - SharesHeld("asset")') - (bank.assets - SharesHeld("asset")) = 0
        /\ (bank'.liabs - SharesHeld("liab")') - (bank.liabs - SharesHeld("liab")) = 0
    BY <1>1, <1>2, <1>3, <1>4
  <1>6. /\ TotalsFollow(bank.assets, "asset", bank.assetValue)
        /\ TotalsFollow(bank.liabs, "liab", bank.liabValue)
    BY <1>5 DEF TotalsFollow
  <1>7. InactiveClosed'
    BY <1>1 DEF InactiveClosed
  <1>8. bank' \in BankType /\ balances' \in [Users -> Balance]
    BY <1>1
  <1> QED
    BY <1>6, <1>7, <1>8 DEF BooksKept

-----------------------------------------------------------------------------
(* Tokens and backing *)

Places == Vaults \union Users

\* A transfer moves tokens between two places and touches no other.
LEMMA TransferIs ==
    ASSUME IInv, NEW from \in Places, NEW to \in Places, from # to, NEW n \in Nat,
           Transfer(from, to, n)
    PROVE  /\ tokens' \in [Places -> Nat]
           /\ n <= tokens[from]
           /\ tokens'[from] = tokens[from] - n /\ tokens'[to] = tokens[to] + n
           /\ \A t \in Places \ {from, to} : tokens'[t] = tokens[t]
           /\ \A t \in Places : tokens[t] \in Nat
  <1>1. tokens \in [Places -> Nat]
    BY AccountsIs DEF Places
  <1>2. /\ tokens[from] \in Nat /\ tokens[to] \in Nat /\ n <= tokens[from]
        /\ tokens' = [tokens EXCEPT ![from] = @ - n, ![to] = @ + n]
    BY <1>1 DEF Transfer
  <1>3. tokens[from] - n \in Nat /\ tokens[to] + n \in Nat
    BY <1>2
  <1>4. /\ tokens'[from] = tokens[from] - n /\ tokens'[to] = tokens[to] + n
        /\ \A t \in Places \ {from, to} : tokens'[t] = tokens[t]
    BY <1>1, <1>2
  <1>5. tokens' \in [Places -> Nat]
    BY <1>1, <1>2, <1>3
  <1> QED
    BY <1>1, <1>2, <1>4, <1>5

\* The places of the vaults and of the accounts are different.
LEMMA PlacesDiffer ==
    /\ \A t \in Vaults : t \in Places
    /\ \A u \in Users : u \in Places /\ u \notin Vaults
    /\ {"liquidity", "insurance", "fee", "program", "admin"} = Vaults
  BY BankAssumption DEF Places, Vaults

\* A step that pays nothing to the fee accounts of the group and of the program.
NoFeesPaid ==
    /\ tokens' \in [Vaults \union Users -> Nat]
    /\ tokens'["fee"] <= tokens["fee"] /\ tokens'["program"] <= tokens["program"]
    /\ tokens["liquidity"] \in Nat /\ tokens'["liquidity"] \in Nat

\* An account pays into the liquidity vault...
LEMMA PaidIn ==
    ASSUME IInv, NEW u \in Users, NEW n \in Nat, Transfer(u, "liquidity", n)
    PROVE  NoFeesPaid /\ tokens'["liquidity"] = tokens["liquidity"] + n
  <1>1. /\ u \in Places /\ "liquidity" \in Places /\ u # "liquidity"
        /\ "fee" \in Places /\ "program" \in Places
        /\ u # "fee" /\ u # "program"
    BY PlacesDiffer
  <1>2. /\ tokens' \in [Places -> Nat]
        /\ tokens'["liquidity"] = tokens["liquidity"] + n
        /\ \A t \in Places \ {u, "liquidity"} : tokens'[t] = tokens[t]
        /\ \A t \in Places : tokens[t] \in Nat
    BY <1>1, TransferIs
  <1> QED
    BY <1>1, <1>2 DEF NoFeesPaid, Places

\* ... or is paid out of it.
LEMMA PaidOutOf ==
    ASSUME IInv, NEW u \in Users, NEW n \in Nat, Transfer("liquidity", u, n)
    PROVE  NoFeesPaid /\ tokens'["liquidity"] = tokens["liquidity"] - n
  <1>1. /\ u \in Places /\ "liquidity" \in Places /\ u # "liquidity"
        /\ "fee" \in Places /\ "program" \in Places
        /\ u # "fee" /\ u # "program"
    BY PlacesDiffer
  <1>2. /\ tokens' \in [Places -> Nat]
        /\ tokens'["liquidity"] = tokens["liquidity"] - n
        /\ \A t \in Places \ {u, "liquidity"} : tokens'[t] = tokens[t]
        /\ \A t \in Places : tokens[t] \in Nat
    BY <1>1, TransferIs
  <1> QED
    BY <1>1, <1>2 DEF NoFeesPaid, Places

\* Tokens paid in are worth what they are...
LEMMA TokensBack ==
    ASSUME NEW b \in BankType, NEW liquidity \in Int, NEW n \in Int
    PROVE  /\ (n * Unit) * Unit \in Int
           /\ Backing(b, liquidity + n) = Backing(b, liquidity) + (n * Unit) * Unit
  <1>1. /\ b.assets * b.assetValue \in Nat /\ b.liabs * b.liabValue \in Nat
        /\ SumFunction(b.fees) \in Int /\ liquidity * Unit * Unit \in Int
        /\ Backing(b, liquidity) = liquidity * Unit * Unit + b.liabs * b.liabValue
                - b.assets * b.assetValue - SumFunction(b.fees) * Unit
    BY BackingIs
  <1>2. Backing(b, liquidity + n) = (liquidity + n) * Unit * Unit
            + b.liabs * b.liabValue - b.assets * b.assetValue - SumFunction(b.fees) * Unit
    BY BackingIs
  <1>3. /\ (liquidity + n) * Unit * Unit = liquidity * Unit * Unit + (n * Unit) * Unit
        /\ (n * Unit) * Unit \in Int /\ SumFunction(b.fees) * Unit \in Int
    BY <1>1, Units
  <1> QED
    BY <1>1, <1>2, <1>3

\* ... and so are fees, which the bank then owes.
LEMMA FeesBack ==
    ASSUME NEW b \in BankType, NEW c \in BankType, NEW liquidity \in Int, NEW n \in Int,
           c.assets = b.assets, c.liabs = b.liabs,
           c.assetValue = b.assetValue, c.liabValue = b.liabValue,
           SumFunction(c.fees) = SumFunction(b.fees) + n
    PROVE  n * Unit \in Int /\ Backing(c, liquidity) = Backing(b, liquidity) - n * Unit
  <1>1. /\ b.assets * b.assetValue \in Nat /\ b.liabs * b.liabValue \in Nat
        /\ SumFunction(b.fees) \in Int /\ liquidity * Unit * Unit \in Int
        /\ Backing(b, liquidity) = liquidity * Unit * Unit + b.liabs * b.liabValue
                - b.assets * b.assetValue - SumFunction(b.fees) * Unit
        /\ Backing(c, liquidity) = liquidity * Unit * Unit + c.liabs * c.liabValue
                - c.assets * c.assetValue - SumFunction(c.fees) * Unit
    BY BackingIs
  <1>2. (SumFunction(b.fees) + n) * Unit = SumFunction(b.fees) * Unit + n * Unit
    BY <1>1, Units
  <1>3. SumFunction(b.fees) * Unit \in Int /\ n * Unit \in Int
    BY <1>1, Units
  <1> QED
    BY <1>1, <1>2, <1>3

\* Shares that move are worth what they are at the values of the bank.
LEMMA SharesBack ==
    ASSUME NEW b \in BankType, NEW c \in BankType, NEW liquidity \in Int,
           NEW da \in Int, NEW dl \in Int,
           c.assets = b.assets + da, c.liabs = b.liabs + dl,
           c.assetValue = b.assetValue, c.liabValue = b.liabValue, c.fees = b.fees
    PROVE  Backing(c, liquidity)
            = Backing(b, liquidity) + dl * b.liabValue - da * b.assetValue
  <1>1. /\ b.assets * b.assetValue \in Nat /\ b.liabs * b.liabValue \in Nat
        /\ SumFunction(b.fees) \in Int /\ liquidity * Unit * Unit \in Int
        /\ Backing(b, liquidity) = liquidity * Unit * Unit + b.liabs * b.liabValue
                - b.assets * b.assetValue - SumFunction(b.fees) * Unit
        /\ Backing(c, liquidity) = liquidity * Unit * Unit + c.liabs * c.liabValue
                - c.assets * c.assetValue - SumFunction(c.fees) * Unit
    BY BackingIs
  <1>2. /\ b.assets \in Nat /\ b.liabs \in Nat
        /\ b.assetValue \in Nat /\ b.liabValue \in Nat
    BY DEF BankType
  <1>3. /\ c.assets * c.assetValue = b.assets * b.assetValue + da * b.assetValue
        /\ c.liabs * c.liabValue = b.liabs * b.liabValue + dl * b.liabValue
        /\ da * b.assetValue \in Int /\ dl * b.liabValue \in Int
    BY <1>2
  <1>4. SumFunction(b.fees) * Unit \in Int
    BY <1>1, Units
  <1> QED
    BY <1>1, <1>3, <1>4

\* An increase takes from the backing no more than its amount.
LEMMA IncreaseBacked ==
    ASSUME NEW b \in BankType, NEW x \in Balance, NEW delta \in Nat,
           x.asset <= b.assets, x.liab <= b.liabs, NEW liquidity \in Int
    PROVE  Backing(Increase(b, x, delta).bank, liquidity)
            >= Backing(b, liquidity) - delta * Unit
  <1> DEFINE c == Increase(b, x, delta).bank
             d == Deposited(b, x, delta)
             r == Repaid(b, x, delta)
             sa == Shares(d, b.assetValue)
             sl == Shares(r, b.liabValue)
  <1>1. /\ c \in BankType /\ d \in Nat /\ r \in Nat /\ d + r = delta
        /\ c.assets = b.assets + sa /\ c.liabs = b.liabs - sl
        /\ sa \in Nat /\ sl \in Nat
        /\ c.assetValue = b.assetValue /\ c.liabValue = b.liabValue /\ c.fees = b.fees
    BY IncreaseIs DEF Moves, Keeps
  <1>2. /\ b.assetValue \in Nat /\ b.liabValue \in Nat /\ b.liabs \in Nat
    BY DEF BankType
  <1> HIDE DEF c, d, r
  <1>3. sa * b.assetValue <= d * Unit /\ sl * b.liabValue <= r * Unit
    BY <1>1, <1>2, SharesOf
  <1> HIDE DEF sa, sl
  <1>4. Backing(c, liquidity)
            = Backing(b, liquidity) + (- sl) * b.liabValue - sa * b.assetValue
    <2>1. - sl \in Int /\ sa \in Int /\ c.liabs = b.liabs + (- sl)
      BY <1>1, <1>2
    <2> QED
      BY <1>1, <2>1, SharesBack
  <1>5. /\ (- sl) * b.liabValue = - (sl * b.liabValue)
        /\ delta * Unit = d * Unit + r * Unit
        /\ sl * b.liabValue \in Int /\ sa * b.assetValue \in Int
        /\ d * Unit \in Int /\ r * Unit \in Int
    BY <1>1, <1>2, Units
  <1>6. Backing(b, liquidity) \in Int
    BY BackingIs
  <1>7. Backing(c, liquidity) >= Backing(b, liquidity) - delta * Unit
    BY <1>3, <1>4, <1>5, <1>6
  <1> QED
    BY <1>7 DEF c

\* A decrease gives back its amount, but for a fraction of a share on either side.
LEMMA DecreaseBacked ==
    ASSUME NEW b \in BankType, NEW x \in Balance, NEW delta \in Nat, b.liabValue # 0,
           x.asset <= b.assets, x.liab <= b.liabs, NEW liquidity \in Int
    PROVE  Backing(Decrease(b, x, delta).bank, liquidity)
            >= Backing(b, liquidity) + delta * Unit - b.assetValue - b.liabValue
  <1> DEFINE c == Decrease(b, x, delta).bank
             w == Withdrawn(b, x, delta)
             l == Borrowed(b, x, delta)
             sa == Shares(w, b.assetValue)
             sl == Shares(l, b.liabValue)
  <1>1. /\ c \in BankType /\ w \in Nat /\ l \in Nat /\ w + l = delta
        /\ w <= Amount(x.asset, b.assetValue)
        /\ c.assets = b.assets - sa /\ c.liabs = b.liabs + sl
        /\ sa \in Nat /\ sl \in Nat
        /\ c.assetValue = b.assetValue /\ c.liabValue = b.liabValue /\ c.fees = b.fees
    BY DecreaseIs DEF Moves, Keeps
  <1>2. /\ b.assetValue \in Nat /\ b.liabValue \in Nat /\ b.assets \in Nat
        /\ x.asset \in Nat
    BY DEF BankType, Balance
  <1> HIDE DEF c, w, l
  <1>3. l * Unit < sl * b.liabValue + b.liabValue
    BY <1>1, <1>2, SharesOf
  <1>4. w * Unit <= sa * b.assetValue + b.assetValue
    <2>1. CASE b.assetValue = 0
      <3>1. x.asset * b.assetValue = 0
        BY <1>2, <2>1
      <3>2. Amount(x.asset, b.assetValue) = 0
        BY <3>1, Units DEF Amount
      <3>3. w = 0
        BY <1>1, <3>2
      <3> QED
        BY <1>1, <1>2, <2>1, <3>3, Units
    <2>2. CASE b.assetValue # 0
      <3>1. w * Unit < sa * b.assetValue + b.assetValue
        BY <1>1, <1>2, <2>2, SharesOf
      <3>2. w * Unit \in Int /\ sa * b.assetValue \in Int
        BY <1>1, <1>2, Units
      <3> QED
        BY <1>2, <3>1, <3>2
    <2> QED
      BY <2>1, <2>2
  <1> HIDE DEF sa, sl
  <1>5. Backing(c, liquidity)
            = Backing(b, liquidity) + sl * b.liabValue - (- sa) * b.assetValue
    <2>1. sl \in Int /\ - sa \in Int /\ c.assets = b.assets + (- sa)
      BY <1>1, <1>2
    <2> QED
      BY <1>1, <2>1, SharesBack
  <1>6. /\ (- sa) * b.assetValue = - (sa * b.assetValue)
        /\ delta * Unit = w * Unit + l * Unit
        /\ sl * b.liabValue \in Int /\ sa * b.assetValue \in Int
        /\ w * Unit \in Int /\ l * Unit \in Int
    BY <1>1, <1>2, Units
  <1>7. Backing(b, liquidity) \in Int
    BY BackingIs
  <1>8. Backing(c, liquidity)
            >= Backing(b, liquidity) + delta * Unit - b.assetValue - b.liabValue
    BY <1>2, <1>3, <1>4, <1>5, <1>6, <1>7
  <1> QED
    BY <1>8 DEF c

-----------------------------------------------------------------------------
(* One lemma per operation *)

\* The action properties of one step.
LossBorne ==
    bank.assets >= Unit /\ bank'.assetValue < bank.assetValue - 1
        => tokens'["insurance"] = 0
FundFirst ==
    tokens'["fee"] + tokens'["program"] > tokens["fee"] + tokens["program"]
        => bank'.fees["insurance"] < Unit
Backed ==
    Written \/ \E rate \in Rates :
        Backing(bank', tokens'["liquidity"])
            >= Backing(bank, tokens["liquidity"]) - RoundingLoss(rate)

\* What is shown of every operation of an open bank.
StepSound ==
    /\ BooksKept
    /\ tokens' \in [Vaults \union Users -> Nat] /\ disabled' \subseteq Users
    /\ Unit <= bank'.liabValue
    /\ LossBorne /\ FundFirst /\ Backed

\* The values of a bank whose interest has been accrued.
LEMMA AccruedValues ==
    ASSUME IInv, NEW b \in Accrued
    PROVE  /\ Accrues(bank, b) /\ b \in BankType
           /\ b.assetValue \in Nat /\ b.liabValue \in Nat \ {0} /\ Unit <= b.liabValue
           /\ bank.assetValue <= b.assetValue
           /\ b.open = bank.open /\ b.flags = bank.flags
           /\ b.assets = bank.assets /\ b.liabs = bank.liabs
           /\ b.assets \in Nat /\ b.liabs \in Nat
           /\ b.fees \in [FeeKinds -> Nat]
           /\ \A u \in Users : /\ balances[u] \in Balance /\ Opened(u) \in Balance
                               /\ balances[u].asset <= b.assets
                               /\ balances[u].liab <= b.liabs
                               /\ Opened(u).asset <= b.assets
                               /\ Opened(u).liab <= b.liabs
  <1>1. bank \in BankType /\ bank.liabValue \in Nat /\ Unit <= bank.liabValue
    BY AccountsIs
  <1>2. Accrues(bank, b)
    BY <1>1, AccruedIs
  <1>3. /\ b \in BankType /\ bank.assetValue <= b.assetValue
        /\ bank.liabValue <= b.liabValue
        /\ b.assets = bank.assets /\ b.liabs = bank.liabs
    BY <1>2 DEF Accrues
  <1>4. b.open = bank.open /\ b.flags = bank.flags
    BY <1>2 DEF Accrues
  <1>5. /\ b.assetValue \in Nat /\ b.liabValue \in Nat /\ b.assets \in Nat
        /\ b.liabs \in Nat /\ b.fees \in [FeeKinds -> Nat]
    BY <1>3 DEF BankType
  <1>6. \A u \in Users : /\ balances[u] \in Balance /\ Opened(u) \in Balance
                         /\ balances[u].asset <= b.assets
                         /\ balances[u].liab <= b.liabs
                         /\ Opened(u).asset <= b.assets
                         /\ Opened(u).liab <= b.liabs
    BY <1>3, AccountsIs, OpenedIs
  <1> QED
    BY <1>1, <1>2, <1>3, <1>4, <1>5, <1>6, Units

\* A step that accrues interest, keeps the books and pays no fees is sound when what it
\* takes from the backing is rounding.
LEMMA AccountStepSound ==
    ASSUME IInv, NEW b \in Accrued, BooksKept, NoFeesPaid, disabled' \subseteq Users,
           bank'.assetValue = b.assetValue \/ LossBorne, bank'.liabValue = b.liabValue,
           \/ Written
           \/ Backing(bank', tokens'["liquidity"])
                >= Backing(b, tokens["liquidity"])
                    - Unit - bank'.assetValue - bank'.liabValue
    PROVE  StepSound
  <1>1. /\ bank \in BankType /\ bank' \in BankType
        /\ b.assetValue \in Nat /\ b.liabValue \in Nat /\ Unit <= b.liabValue
        /\ bank.assetValue \in Nat /\ bank.assetValue <= b.assetValue
        /\ bank'.assetValue \in Nat
    BY AccruedValues, AccountsIs DEF BooksKept, BankType
  <1>2. tokens["liquidity"] \in Int /\ tokens'["liquidity"] \in Int
    BY DEF NoFeesPaid
  <1>3. Backed
    <2>1. CASE Written
      BY <2>1 DEF Backed
    <2>2. CASE Backing(bank', tokens'["liquidity"])
                >= Backing(b, tokens["liquidity"])
                    - Unit - bank'.assetValue - bank'.liabValue
      <3>1. PICK rate \in Rates :
              /\ InterestLoss(bank, rate) \in Nat
              /\ Backing(b, tokens["liquidity"]) \in Int
              /\ Backing(bank, tokens["liquidity"]) \in Int
              /\ Backing(b, tokens["liquidity"])
                    >= Backing(bank, tokens["liquidity"]) - InterestLoss(bank, rate)
        BY <1>1, <1>2, AccruedIs
      <3>2. RoundingLoss(rate)
                = Unit + bank'.assetValue + bank'.liabValue + InterestLoss(bank, rate)
        BY DEF RoundingLoss, InterestLoss
      <3>3. Backing(bank', tokens'["liquidity"]) \in Int
        BY <1>1, <1>2, BackingIs
      <3>4. Backing(bank', tokens'["liquidity"])
                >= Backing(bank, tokens["liquidity"]) - RoundingLoss(rate)
        BY <1>1, <2>2, <3>1, <3>2, <3>3, Units
      <3> QED
        BY <3>4 DEF Backed
    <2> QED
      BY <2>1, <2>2
  <1>4. LossBorne
    BY <1>1 DEF LossBorne
  <1>5. FundFirst
    <2>1. /\ tokens["fee"] \in Nat /\ tokens["program"] \in Nat
          /\ tokens'["fee"] \in Nat /\ tokens'["program"] \in Nat
      BY AccountsIs DEF NoFeesPaid, Vaults
    <2> QED
      BY <2>1 DEF FundFirst, NoFeesPaid
  <1>6. tokens' \in [Vaults \union Users -> Nat]
    BY DEF NoFeesPaid
  <1> QED
    BY <1>1, <1>3, <1>4, <1>5, <1>6 DEF StepSound

\* Numbers of tokens, as amounts.
LEMMA TokensType ==
    ASSUME NEW n \in Nat PROVE n * Unit \in Nat /\ (n * Unit) * Unit \in Nat
  <1>1. n * Unit \in Nat
    BY Units
  <1> QED
    BY <1>1, Units

\* A step that books a move of the shares of one account.
LEMMA MoveSound ==
    ASSUME IInv, NEW u \in Users, NEW b \in Accrued,
           NEW x \in {balances[u], Opened(u)}, x.active, NEW p, Moves(b, x, p),
           NEW c \in BankType, c.assets = p.bank.assets, c.liabs = p.bank.liabs,
           c.assetValue = b.assetValue, c.liabValue = b.liabValue,
           bank' = c, balances' = [balances EXCEPT ![u] = p.balance],
           NoFeesPaid, disabled' \subseteq Users,
           Backing(c, tokens'["liquidity"])
                >= Backing(b, tokens["liquidity"]) - b.assetValue - b.liabValue
    PROVE  StepSound
  <1>1. Accrues(bank, b) /\ b \in BankType /\ b.assetValue \in Nat /\ b.liabValue \in Nat
    BY AccruedValues
  <1>2. BooksKept
    BY <1>1, OneMoved
  <1>3. /\ Backing(c, tokens'["liquidity"]) \in Int
        /\ Backing(b, tokens["liquidity"]) \in Int
    BY <1>1, BackingIs DEF NoFeesPaid
  <1>4. Backing(bank', tokens'["liquidity"]) >= Backing(b, tokens["liquidity"])
            - Unit - bank'.assetValue - bank'.liabValue
    BY <1>1, <1>3, Units
  <1> QED
    BY <1>2, <1>4, AccountStepSound

\* A deposit.
LEMMA DepositSound ==
    ASSUME IInv, NEW u \in Users, NEW n \in Amounts, Deposit(u, n)
    PROVE  StepSound
  <1> DEFINE x == Opened(u)
             liquidity == tokens["liquidity"]
  <1>1. PICK b \in Accrued : Book(u, Increase(b, x, n * Unit))
    BY DEF Deposit
  <1> DEFINE p == Increase(b, x, n * Unit)
  <1>2. n \in Nat /\ n * Unit \in Nat /\ (n * Unit) * Unit \in Nat
    BY BankAssumption, TokensType
  <1>3. /\ b \in BankType /\ x \in Balance /\ x.asset <= b.assets /\ x.liab <= b.liabs
        /\ b.assetValue \in Nat /\ b.liabValue \in Nat
    BY AccruedValues
  <1>4. x.active
    BY OpenedIs
  <1>5. Moves(b, x, p)
    BY <1>2, <1>3, IncreaseIs
  <1>6. bank' = p.bank /\ balances' = [balances EXCEPT ![u] = p.balance]
    BY <1>1 DEF Book
  <1>7. NoFeesPaid /\ tokens'["liquidity"] = liquidity + n
    BY <1>2, PaidIn DEF Deposit
  <1>8. disabled' \subseteq Users
    BY DEF Deposit, IInv, TypeOK
  <1>9. liquidity \in Int
    BY <1>7 DEF NoFeesPaid
  <1>10. Backing(p.bank, liquidity) >= Backing(b, liquidity) - (n * Unit) * Unit
    BY <1>2, <1>3, <1>9, IncreaseBacked
  <1> HIDE DEF x, p, liquidity
  <1>11. /\ p.bank \in BankType
         /\ p.bank.assetValue = b.assetValue /\ p.bank.liabValue = b.liabValue
    BY <1>5 DEF Moves, Keeps
  <1>12. Backing(p.bank, liquidity + n)
            >= Backing(b, liquidity) - b.assetValue - b.liabValue
    <2>1. Backing(p.bank, liquidity + n) = Backing(p.bank, liquidity) + (n * Unit) * Unit
      BY <1>2, <1>9, <1>11, TokensBack
    <2>2. Backing(p.bank, liquidity) \in Int /\ Backing(b, liquidity) \in Int
      BY <1>3, <1>9, <1>11, BackingIs
    <2> QED
      BY <1>2, <1>3, <1>10, <2>1, <2>2
  <1> QED
    BY <1>4, <1>5, <1>6, <1>7, <1>8, <1>11, <1>12, MoveSound DEF x, liquidity

\* What is paid for tokens withdrawn is no more than them.
LEMMA PayoutIs ==
    ASSUME IInv, NEW n \in Nat
    PROVE  Payout(n) \in Nat /\ Payout(n) <= n
  <1>1. tokens["liquidity"] \in Nat
    BY AccountsIs DEF Vaults
  <1> QED
    BY <1>1 DEF Payout, Min2

\* A withdrawal.
LEMMA WithdrawSound ==
    ASSUME IInv, NEW u \in Users, NEW n \in Amounts, Withdraw(u, n)
    PROVE  StepSound
  <1> DEFINE x == balances[u]
             liquidity == tokens["liquidity"]
             out == Payout(n)
  <1>1. PICK b \in Accrued : Book(u, Decrease(b, x, n * Unit))
    BY DEF Withdraw
  <1> DEFINE p == Decrease(b, x, n * Unit)
  <1>2. n \in Nat /\ n * Unit \in Nat /\ (n * Unit) * Unit \in Nat
    BY BankAssumption, TokensType
  <1>3. /\ b \in BankType /\ x \in Balance /\ x.asset <= b.assets /\ x.liab <= b.liabs
        /\ b.assetValue \in Nat /\ b.liabValue \in Nat \ {0}
    BY AccruedValues
  <1>4. x.active
    BY DEF Withdraw
  <1>5. Moves(b, x, p)
    BY <1>2, <1>3, DecreaseIs
  <1>6. bank' = p.bank /\ balances' = [balances EXCEPT ![u] = p.balance]
    BY <1>1 DEF Book
  <1>7. out \in Nat /\ out <= n
    BY <1>2, PayoutIs
  <1>8. NoFeesPaid /\ tokens'["liquidity"] = liquidity - out
    <2>1. Transfer("liquidity", u, out)
      BY DEF Withdraw
    <2> HIDE DEF out
    <2> QED
      BY <1>7, <2>1, PaidOutOf
  <1>9. disabled' \subseteq Users
    BY DEF Withdraw, IInv, TypeOK
  <1>10. liquidity \in Int
    BY <1>8 DEF NoFeesPaid
  <1>11. Backing(p.bank, liquidity)
            >= Backing(b, liquidity) + (n * Unit) * Unit - b.assetValue - b.liabValue
    BY <1>2, <1>3, <1>10, DecreaseBacked
  <1> HIDE DEF x, p, liquidity, out
  <1>12. /\ p.bank \in BankType
         /\ p.bank.assetValue = b.assetValue /\ p.bank.liabValue = b.liabValue
    BY <1>5 DEF Moves, Keeps
  <1>13. Backing(p.bank, liquidity - out)
            >= Backing(b, liquidity) - b.assetValue - b.liabValue
    <2>1. /\ Backing(p.bank, liquidity + (- out))
                = Backing(p.bank, liquidity) + ((- out) * Unit) * Unit
          /\ ((- out) * Unit) * Unit \in Int
      BY <1>7, <1>10, <1>12, TokensBack
    <2>2. Backing(p.bank, liquidity) \in Int /\ Backing(b, liquidity) \in Int
      BY <1>3, <1>10, <1>12, BackingIs
    <2>3. (n * Unit) * Unit + ((- out) * Unit) * Unit >= 0
      <3>1. (n * Unit) * Unit + ((- out) * Unit) * Unit = ((n - out) * Unit) * Unit
        BY <1>2, <1>7, Units
      <3>2. n - out \in Nat
        BY <1>2, <1>7
      <3> QED
        BY <3>1, <3>2, TokensType
    <2>4. liquidity - out = liquidity + (- out)
      BY <1>7, <1>10
    <2> QED
      BY <1>2, <1>3, <1>11, <2>1, <2>2, <2>3, <2>4
  <1> QED
    BY <1>3, <1>4, <1>5, <1>6, <1>8, <1>9, <1>12, <1>13, MoveSound DEF x, liquidity

\* Bank c is b with other fees, or other flags: nothing else that matters changes.
LEMMA FeesSet ==
    ASSUME NEW b \in BankType, NEW fees \in [FeeKinds -> Nat]
    PROVE  LET c == [b EXCEPT !.fees = fees]
           IN /\ c \in BankType /\ c.fees = fees
              /\ c.assets = b.assets /\ c.liabs = b.liabs
              /\ c.assetValue = b.assetValue /\ c.liabValue = b.liabValue
              /\ c.flags = b.flags /\ c.open = b.open
  <1> DEFINE c == [b EXCEPT !.fees = fees]
  <1>1. c \in BankType
    BY DEF BankType
  <1>2. /\ c.fees = fees /\ c.assets = b.assets /\ c.liabs = b.liabs
        /\ c.assetValue = b.assetValue /\ c.liabValue = b.liabValue
        /\ c.flags = b.flags
    BY DEF BankType
  <1>3. c.open = b.open
    BY DEF BankType
  <1> QED
    BY <1>1, <1>2, <1>3

\* Discharging a bank changes its flags alone.
LEMMA DischargedIs ==
    ASSUME NEW b \in BankType
    PROVE  LET c == Discharged(b)
           IN /\ c \in BankType /\ c.fees = b.fees
              /\ c.assets = b.assets /\ c.liabs = b.liabs
              /\ c.assetValue = b.assetValue /\ c.liabValue = b.liabValue
  <1> DEFINE d == [b EXCEPT !.flags = @ \union {"COMPLETE"}]
  <1>1. d \in BankType
    BY DEF BankType, TokenlessFlags
  <1>2. /\ d.fees = b.fees /\ d.assets = b.assets /\ d.liabs = b.liabs
        /\ d.assetValue = b.assetValue /\ d.liabValue = b.liabValue
    BY DEF BankType
  <1>3. Discharged(b) = b \/ Discharged(b) = d
    BY DEF Discharged
  <1> HIDE DEF d
  <1> QED
    BY <1>1, <1>2, <1>3

\* The backing of a bank is not a matter of its flags, its state or its counts.
LEMMA BackingSame ==
    ASSUME NEW b, NEW c, NEW liquidity,
           c.assets = b.assets, c.liabs = b.liabs, c.fees = b.fees,
           c.assetValue = b.assetValue, c.liabValue = b.liabValue
    PROVE  Backing(c, liquidity) = Backing(b, liquidity)
  BY DEF Backing

\* A loan, whose fee is added to the debt and owed to the program and the group.
LEMMA BorrowSound ==
    ASSUME IInv, NEW u \in Users, NEW n \in Amounts, Borrow(u, n)
    PROVE  StepSound
  <1> DEFINE x == Opened(u)
             liquidity == tokens["liquidity"]
             fee == n * bank.originationRate
             program == (fee * ProgramShare) \div Unit
             delta == n * Unit + fee
  <1>1. PICK b \in Accrued :
            Book(u, [Decrease(b, x, delta) EXCEPT
                        !.bank.fees["program"] = @ + program,
                        !.bank.fees["group"] = @ + fee - program])
    BY DEF Borrow
  <1> DEFINE p == Decrease(b, x, delta)
             fees == [p.bank.fees EXCEPT !["program"] = @ + program,
                                         !["group"] = @ + fee - program]
             c == [p.bank EXCEPT !.fees = fees]
  <1>2. n \in Nat /\ n * Unit \in Nat /\ (n * Unit) * Unit \in Nat
    BY BankAssumption, TokensType
  <1>3. /\ b \in BankType /\ x \in Balance /\ x.asset <= b.assets /\ x.liab <= b.liabs
        /\ b.assetValue \in Nat /\ b.liabValue \in Nat \ {0}
        /\ b.fees \in [FeeKinds -> Nat]
    BY AccruedValues
  <1>4. x.active
    BY OpenedIs
  <1>5. fee \in Nat /\ fee * Unit \in Nat
    <2>1. bank.originationRate \in Nat
      BY AccountsIs, BankAssumption DEF BankType
    <2>2. fee \in Nat
      BY <1>2, <2>1
    <2> QED
      BY <2>2, TokensType
  <1>6. program \in Nat /\ program <= fee
    <2> HIDE DEF fee
    <2>1. ProgramShare \in Nat /\ ProgramShare <= Unit
      BY BankAssumption
    <2>2. fee * ProgramShare \in Nat /\ fee * ProgramShare < fee * Unit + Unit
      <3>1. ProgramShare * fee <= Unit * fee
        BY <1>5, <2>1, Units, ProductMonotonic
      <3>2. fee * ProgramShare = ProgramShare * fee /\ fee * Unit = Unit * fee
        BY <1>5, <2>1, Units
      <3>3. ProgramShare * fee \in Nat
        BY <1>5, <2>1
      <3> QED
        BY <1>5, <3>1, <3>2, <3>3, Units
    <2> QED
      BY <1>5, <2>2, Units, Quotient, QuotientAtMost
  <1> HIDE DEF fee, program
  <1>7. delta \in Nat
    BY <1>2, <1>5
  <1>8. Moves(b, x, p)
    BY <1>3, <1>7, DecreaseIs
  <1>9. /\ p.bank \in BankType /\ p.bank.fees = b.fees
        /\ p.bank.assetValue = b.assetValue /\ p.bank.liabValue = b.liabValue
    BY <1>8 DEF Moves, Keeps
  <1>10. p = [balance |-> p.balance, bank |-> p.bank]
    BY DEF Decrease, Moved
  <1>11. NoFeesPaid /\ tokens'["liquidity"] = liquidity - n
    BY <1>2, PaidOutOf DEF Borrow
  <1>12. disabled' \subseteq Users
    BY DEF Borrow, IInv, TypeOK
  <1>13. liquidity \in Int
    BY <1>11 DEF NoFeesPaid
  <1>14. Backing(p.bank, liquidity)
            >= Backing(b, liquidity) + delta * Unit - b.assetValue - b.liabValue
    BY <1>3, <1>7, <1>13, DecreaseBacked
  <1> HIDE DEF x, p, liquidity
  <1>15. bank' = c /\ balances' = [balances EXCEPT ![u] = p.balance]
    <2> DEFINE q == [p EXCEPT !.bank.fees["program"] = @ + program,
                              !.bank.fees["group"] = @ + fee - program]
    <2>1. q.bank = c /\ q.balance = p.balance
      BY <1>3, <1>9, <1>10 DEF FeeKinds, BankType
    <2>2. Book(u, q)
      BY <1>1 DEF p
    <2> HIDE DEF q, c
    <2> QED
      BY <2>1, <2>2 DEF Book
  <1>16. /\ fees \in [FeeKinds -> Nat]
         /\ fees["insurance"] = b.fees["insurance"]
         /\ fees["program"] = b.fees["program"] + program
         /\ fees["group"] = b.fees["group"] + fee - program
         /\ b.fees["insurance"] \in Nat /\ b.fees["group"] \in Nat
         /\ b.fees["program"] \in Nat
    <2>1. /\ b.fees["insurance"] \in Nat /\ b.fees["group"] \in Nat
          /\ b.fees["program"] \in Nat
      BY <1>3 DEF FeeKinds
    <2>2. b.fees["program"] + program \in Nat /\ b.fees["group"] + fee - program \in Nat
      BY <1>5, <1>6, <2>1
    <2> QED
      BY <1>3, <1>9, <2>1, <2>2 DEF FeeKinds
  <1> HIDE DEF fees
  <1>17. /\ c \in BankType /\ c.fees = fees
         /\ c.assets = p.bank.assets /\ c.liabs = p.bank.liabs
         /\ c.assetValue = b.assetValue /\ c.liabValue = b.liabValue
    BY <1>9, <1>16, FeesSet
  <1> HIDE DEF c
  <1>18. SumFunction(c.fees) = SumFunction(p.bank.fees) + fee
    <2>1. /\ SumFunction(fees) = fees["insurance"] + fees["group"] + fees["program"]
          /\ SumFunction(b.fees)
                = b.fees["insurance"] + b.fees["group"] + b.fees["program"]
      BY <1>3, <1>16, FeeSum
    <2>2. SumFunction(fees) = SumFunction(b.fees) + fee
      BY <1>5, <1>6, <1>16, <2>1
    <2> QED
      BY <1>9, <1>17, <2>2
  <1>19. Backing(c, liquidity - n) >= Backing(b, liquidity) - b.assetValue - b.liabValue
    <2>1. Backing(c, liquidity) = Backing(p.bank, liquidity) - fee * Unit
      BY <1>5, <1>9, <1>13, <1>17, <1>18, FeesBack
    <2>2. Backing(c, liquidity + (- n)) = Backing(c, liquidity) + ((- n) * Unit) * Unit
      BY <1>2, <1>13, <1>17, TokensBack
    <2>3. ((- n) * Unit) * Unit = - ((n * Unit) * Unit) /\ liquidity - n = liquidity + (- n)
      BY <1>2, <1>13, Units
    <2>4. delta * Unit = (n * Unit) * Unit + fee * Unit
      BY <1>2, <1>5, Units
    <2>5. Backing(p.bank, liquidity) \in Int /\ Backing(b, liquidity) \in Int
      BY <1>3, <1>9, <1>13, BackingIs
    <2> HIDE DEF delta
    <2> QED
      BY <1>2, <1>3, <1>5, <1>14, <2>1, <2>2, <2>3, <2>4, <2>5
  <1> QED
    BY <1>4, <1>8, <1>11, <1>12, <1>15, <1>17, <1>19, MoveSound DEF x, liquidity

\* A repayment.
LEMMA RepaySound ==
    ASSUME IInv, NEW u \in Users, NEW n \in Amounts, Repay(u, n)
    PROVE  StepSound
  <1> DEFINE x == balances[u]
             liquidity == tokens["liquidity"]
  <1>1. PICK b \in Accrued :
            Book(u, [Increase(b, x, n * Unit) EXCEPT !.bank = Discharged(@)])
    BY DEF Repay
  <1> DEFINE p == Increase(b, x, n * Unit)
             c == Discharged(p.bank)
  <1>2. n \in Nat /\ n * Unit \in Nat /\ (n * Unit) * Unit \in Nat
    BY BankAssumption, TokensType
  <1>3. /\ b \in BankType /\ x \in Balance /\ x.asset <= b.assets /\ x.liab <= b.liabs
        /\ b.assetValue \in Nat /\ b.liabValue \in Nat
    BY AccruedValues
  <1>4. x.active
    BY DEF Repay
  <1>5. Moves(b, x, p)
    BY <1>2, <1>3, IncreaseIs
  <1>6. p = [balance |-> p.balance, bank |-> p.bank]
    BY DEF Increase, Moved
  <1>7. NoFeesPaid /\ tokens'["liquidity"] = liquidity + n
    BY <1>2, PaidIn DEF Repay
  <1>8. disabled' \subseteq Users
    BY DEF Repay, IInv, TypeOK
  <1>9. liquidity \in Int
    BY <1>7 DEF NoFeesPaid
  <1>10. Backing(p.bank, liquidity) >= Backing(b, liquidity) - (n * Unit) * Unit
    BY <1>2, <1>3, <1>9, IncreaseBacked
  <1> HIDE DEF x, p, liquidity
  <1>11. /\ p.bank \in BankType
         /\ p.bank.assetValue = b.assetValue /\ p.bank.liabValue = b.liabValue
    BY <1>5 DEF Moves, Keeps
  <1>12. /\ c \in BankType /\ c.fees = p.bank.fees
         /\ c.assets = p.bank.assets /\ c.liabs = p.bank.liabs
         /\ c.assetValue = p.bank.assetValue /\ c.liabValue = p.bank.liabValue
    BY <1>11, DischargedIs
  <1> HIDE DEF c
  <1>13. bank' = c /\ balances' = [balances EXCEPT ![u] = p.balance]
    <2> DEFINE q == [p EXCEPT !.bank = Discharged(@)]
    <2>1. q.bank = c /\ q.balance = p.balance
      BY <1>6 DEF c
    <2>2. Book(u, q)
      BY <1>1 DEF p
    <2> HIDE DEF q
    <2> QED
      BY <2>1, <2>2 DEF Book
  <1>14. Backing(c, liquidity + n) >= Backing(b, liquidity) - b.assetValue - b.liabValue
    <2>1. Backing(p.bank, liquidity + n) = Backing(p.bank, liquidity) + (n * Unit) * Unit
      BY <1>2, <1>9, <1>11, TokensBack
    <2>2. Backing(p.bank, liquidity) \in Int /\ Backing(b, liquidity) \in Int
      BY <1>3, <1>9, <1>11, BackingIs
    <2>3. Backing(c, liquidity + n) = Backing(p.bank, liquidity + n)
      BY <1>12, BackingSame
    <2> QED
      BY <1>2, <1>3, <1>10, <2>1, <2>2, <2>3
  <1> QED
    BY <1>4, <1>5, <1>7, <1>8, <1>11, <1>12, <1>13, <1>14, MoveSound DEF x, liquidity

\* The remainder of a number of units, and the tokens that are enough for them.
LEMMA WholeTokens ==
    ASSUME NEW m \in Nat
    PROVE  /\ m \div Unit \in Nat /\ m % Unit \in Nat
           /\ m = (m \div Unit) * Unit + (m % Unit)
           /\ TokensFor(m) \in Nat /\ m <= TokensFor(m) * Unit
  <1>1. /\ m \div Unit \in Nat /\ m % Unit \in Nat
        /\ m = (m \div Unit) * Unit + (m % Unit)
    BY Units
  <1>2. m + Unit - 1 \in Nat
    BY Units
  <1>3. TokensFor(m) \in Nat /\ m + Unit - 1 < TokensFor(m) * Unit + Unit
    BY <1>2, Units, Quotient DEF TokensFor
  <1>4. TokensFor(m) * Unit \in Int
    BY <1>3, Units
  <1>5. m <= TokensFor(m) * Unit
    BY <1>3, <1>4, Units
  <1> QED
    BY <1>1, <1>3, <1>5

\* A closed balance holds nothing.
LEMMA ClosedIs == Closed \in Balance /\ ~ Closed.active /\ Closed.asset = 0 /\ Closed.liab = 0
  BY DEF Closed, Balance

\* All that an account has is withdrawn: its dust of debt stays in the total.
LEMMA WithdrawAllSound ==
    ASSUME IInv, NEW u \in Users, WithdrawAll(u)
    PROVE  StepSound
  <1> DEFINE x == balances[u]
             liquidity == tokens["liquidity"]
  <1>1. PICK b \in Accrued :
            /\ Amount(x.liab, b.liabValue) < Threshold
            /\ Book(u, WithdrawnAll(b, x))
            /\ Transfer("liquidity", u, Payout(Amount(x.asset, b.assetValue) \div Unit))
    BY DEF WithdrawAll
  <1> DEFINE m == Amount(x.asset, b.assetValue)
             out == Payout(m \div Unit)
             d == [b EXCEPT !.assets = @ - x.asset, !.lending = @ - 1]
             fees == [b.fees EXCEPT !["insurance"] = @ + (m % Unit)]
             c == [d EXCEPT !.fees = fees]
  <1>2. /\ b \in BankType /\ x \in Balance /\ x.asset <= b.assets /\ x.liab <= b.liabs
        /\ b.assetValue \in Nat /\ b.liabValue \in Nat
        /\ b.fees \in [FeeKinds -> Nat] /\ Accrues(bank, b)
        /\ b.assets \in Nat /\ b.liabs \in Nat
    BY AccruedValues
  <1>3. x.active /\ x.asset \in Nat /\ x.liab \in Nat
    BY AccountsIs DEF WithdrawAll
  <1>4. m \in Nat /\ m * Unit <= x.asset * b.assetValue
    BY <1>2, <1>3, AmountOf
  <1>5. bank' = c /\ balances' = [balances EXCEPT ![u] = Closed]
    <2>1. WithdrawnAll(b, x).balance = Closed /\ WithdrawnAll(b, x).bank = c
      BY <1>2 DEF WithdrawnAll, BankType
    <2> HIDE DEF c
    <2> QED
      BY <1>1, <2>1 DEF Book
  <1> HIDE DEF m, x
  <1>6. /\ m \div Unit \in Nat /\ m % Unit \in Nat /\ m = (m \div Unit) * Unit + (m % Unit)
    BY <1>4, WholeTokens
  <1>7. out \in Nat /\ out <= m \div Unit
    BY <1>6, PayoutIs
  <1>8. NoFeesPaid /\ tokens'["liquidity"] = liquidity - out
    <2>1. Transfer("liquidity", u, out)
      BY <1>1 DEF m
    <2> HIDE DEF out
    <2> QED
      BY <1>7, <2>1, PaidOutOf
  <1>9. liquidity \in Int
    BY <1>8 DEF NoFeesPaid
  <1> HIDE DEF out, liquidity
  <1>10. /\ d \in BankType /\ d.assets = b.assets - x.asset /\ d.liabs = b.liabs
         /\ d.assetValue = b.assetValue /\ d.liabValue = b.liabValue /\ d.fees = b.fees
    <2>1. b.assets - x.asset \in Nat
      BY <1>2, <1>3
    <2>2. b.lending - 1 \in Int
      BY <1>2 DEF BankType
    <2> QED
      BY <1>2, <2>1, <2>2 DEF BankType
  <1> HIDE DEF d
  <1>11. /\ fees \in [FeeKinds -> Nat] /\ fees["insurance"] = b.fees["insurance"] + (m % Unit)
         /\ fees["group"] = b.fees["group"] /\ fees["program"] = b.fees["program"]
         /\ b.fees["insurance"] \in Nat /\ b.fees["group"] \in Nat
         /\ b.fees["program"] \in Nat
    BY <1>2, <1>6 DEF FeeKinds
  <1> HIDE DEF fees
  <1>12. /\ c \in BankType /\ c.fees = fees /\ c.assets = d.assets /\ c.liabs = d.liabs
         /\ c.assetValue = d.assetValue /\ c.liabValue = d.liabValue
    BY <1>10, <1>11, FeesSet
  <1> HIDE DEF c
  <1>13. BooksKept
    <2>1. /\ c.assets - b.assets = Closed.asset - x.asset + 0
          /\ c.liabs - b.liabs = Closed.liab - x.liab + x.liab
      BY <1>2, <1>3, <1>10, <1>12, ClosedIs
    <2>2. Left(0, "asset", u, Closed, c.assetValue)
      BY DEF Left
    <2>3. Left(x.liab, "liab", u, Closed, c.liabValue)
      BY <1>1, <1>3, <1>10, <1>12, ClosedIs DEF Left, x
    <2> QED
      BY <1>2, <1>5, <1>12, <2>1, <2>2, <2>3, ClosedIs, OneBooked DEF x
  <1>14. Backing(c, liquidity - out) >= Backing(b, liquidity)
    <2>1. Backing(d, liquidity)
                = Backing(b, liquidity) + 0 * b.liabValue - (- x.asset) * b.assetValue
      <3>1. - x.asset \in Int /\ d.assets = b.assets + (- x.asset) /\ d.liabs = b.liabs + 0
        BY <1>2, <1>3, <1>10
      <3> QED
        BY <1>2, <1>9, <1>10, <3>1, SharesBack
    <2>2. Backing(c, liquidity) = Backing(d, liquidity) - (m % Unit) * Unit
      <3>1. SumFunction(c.fees) = SumFunction(d.fees) + (m % Unit)
        <4>1. /\ SumFunction(fees) = fees["insurance"] + fees["group"] + fees["program"]
              /\ SumFunction(b.fees)
                    = b.fees["insurance"] + b.fees["group"] + b.fees["program"]
          BY <1>2, <1>11, FeeSum
        <4> QED
          BY <1>6, <1>10, <1>11, <1>12, <4>1
      <3> QED
        BY <1>6, <1>9, <1>10, <1>12, <3>1, FeesBack
    <2>3. Backing(c, liquidity + (- out)) = Backing(c, liquidity) + ((- out) * Unit) * Unit
      BY <1>7, <1>9, <1>12, TokensBack
    <2>4. (- x.asset) * b.assetValue = - (x.asset * b.assetValue) /\ 0 * b.liabValue = 0
      BY <1>2, <1>3
    <2>5. m * Unit + ((- out) * Unit) * Unit >= (m % Unit) * Unit
      <3>1. m * Unit + ((- out) * Unit) * Unit
                = ((m \div Unit - out) * Unit) * Unit + (m % Unit) * Unit
        <4> DEFINE q == m \div Unit
                   r == m % Unit
        <4>1. q \in Nat /\ r \in Nat /\ m = q * Unit + r
          BY <1>6
        <4> HIDE DEF q, r
        <4>2. m * Unit + ((- out) * Unit) * Unit = ((q - out) * Unit) * Unit + r * Unit
          BY <1>7, <4>1, Units
        <4> QED
          BY <4>2 DEF q, r
      <3>2. m \div Unit - out \in Nat
        BY <1>6, <1>7
      <3>3. ((m \div Unit - out) * Unit) * Unit \in Nat /\ (m % Unit) * Unit \in Nat
        BY <1>6, <3>2, TokensType
      <3> QED
        BY <3>1, <3>3
    <2>6. Backing(b, liquidity) \in Int
      BY <1>2, <1>9, BackingIs
    <2>7. /\ x.asset * b.assetValue \in Int /\ m * Unit \in Int
          /\ (m % Unit) * Unit \in Int /\ ((- out) * Unit) * Unit \in Int
          /\ liquidity - out = liquidity + (- out)
      BY <1>2, <1>3, <1>4, <1>6, <1>7, <1>9, Units
    <2> QED
      BY <1>4, <2>1, <2>2, <2>3, <2>4, <2>5, <2>6, <2>7
  <1>15. Backing(bank', tokens'["liquidity"]) >= Backing(b, tokens["liquidity"])
            - Unit - bank'.assetValue - bank'.liabValue
    <2>1. /\ Backing(c, liquidity - out) \in Int /\ Backing(b, liquidity) \in Int
      BY <1>2, <1>7, <1>9, <1>12, BackingIs
    <2> QED
      BY <1>2, <1>5, <1>8, <1>10, <1>12, <1>14, <2>1, Units DEF liquidity
  <1>16. disabled' \subseteq Users
    BY DEF WithdrawAll, IInv, TypeOK
  <1> QED
    BY <1>5, <1>8, <1>10, <1>12, <1>13, <1>15, <1>16, AccountStepSound

\* A debt is repaid in full: the dust of a deposit stays in the total, and what the whole
\* tokens exceed the debt by is owed to the insurance fund.
LEMMA RepayAllSound ==
    ASSUME IInv, NEW u \in Users, NEW tokenless \in BOOLEAN, RepayAll(u, tokenless)
    PROVE  StepSound
  <1> DEFINE x == balances[u]
             liquidity == tokens["liquidity"]
  <1>1. PICK b \in Accrued :
            /\ Amount(x.liab, b.liabValue) > Threshold
            /\ Amount(x.asset, b.assetValue) < Threshold
            /\ Book(u, [RepaidAll(b, x) EXCEPT !.bank = Discharged(@)])
            /\ Transfer(u, "liquidity",
                    IF tokenless THEN 0 ELSE TokensFor(Amount(x.liab, b.liabValue)))
    BY DEF RepayAll
  <1> DEFINE m == Amount(x.liab, b.liabValue)
             due == TokensFor(m)
             paid == IF tokenless THEN 0 ELSE due
             d == [b EXCEPT !.liabs = @ - x.liab, !.borrowing = @ - 1]
             fees == [b.fees EXCEPT !["insurance"] = @ + due * Unit - m]
             e == [d EXCEPT !.fees = fees]
             c == Discharged(e)
  <1>2. /\ b \in BankType /\ x \in Balance /\ x.asset <= b.assets /\ x.liab <= b.liabs
        /\ b.assetValue \in Nat /\ b.liabValue \in Nat
        /\ b.fees \in [FeeKinds -> Nat] /\ Accrues(bank, b)
        /\ b.assets \in Nat /\ b.liabs \in Nat /\ b.liabs = bank.liabs
    BY AccruedValues
  <1>3. x.active /\ x.asset \in Nat /\ x.liab \in Nat
    BY AccountsIs DEF RepayAll
  <1>4. m \in Nat /\ x.liab * b.liabValue < m * Unit + Unit
    BY <1>2, <1>3, AmountOf
  <1>5. bank' = c /\ balances' = [balances EXCEPT ![u] = Closed]
    <2> DEFINE q == RepaidAll(b, x)
    <2>1. q = [balance |-> Closed, bank |-> e]
      BY <1>2 DEF RepaidAll, BankType
    <2>2. Book(u, [q EXCEPT !.bank = Discharged(@)])
      BY <1>1
    <2> HIDE DEF q, e
    <2>3. [q EXCEPT !.bank = Discharged(@)] = [balance |-> Closed, bank |-> c]
      BY <2>1
    <2> QED
      BY <2>2, <2>3 DEF Book
  <1>6. x.liab > 0
    <2>1. CASE x.liab = 0
      <3>1. m = 0
        <4>1. x.liab * b.liabValue = 0
          BY <1>2, <2>1
        <4> QED
          BY <4>1, Units DEF Amount
      <3> QED
        BY <1>1, <3>1, Units
    <2> QED
      BY <1>3, <2>1
  <1> HIDE DEF m, x
  <1>7. due \in Nat /\ m <= due * Unit
    BY <1>4, WholeTokens
  <1> HIDE DEF due
  <1>8. paid \in Nat
    BY <1>7
  <1>9. NoFeesPaid /\ tokens'["liquidity"] = liquidity + paid
    <2>1. Transfer(u, "liquidity", paid)
      BY <1>1 DEF m, due, x
    <2> HIDE DEF paid
    <2> QED
      BY <1>8, <2>1, PaidIn
  <1>10. liquidity \in Int
    BY <1>9 DEF NoFeesPaid
  <1> HIDE DEF liquidity
  <1>11. /\ d \in BankType /\ d.liabs = b.liabs - x.liab /\ d.assets = b.assets
         /\ d.assetValue = b.assetValue /\ d.liabValue = b.liabValue /\ d.fees = b.fees
    <2>1. b.liabs - x.liab \in Nat
      BY <1>2, <1>3
    <2>2. b.borrowing - 1 \in Int
      BY <1>2 DEF BankType
    <2> QED
      BY <1>2, <2>1, <2>2 DEF BankType
  <1> HIDE DEF d
  <1>12. /\ fees \in [FeeKinds -> Nat]
         /\ fees["insurance"] = b.fees["insurance"] + due * Unit - m
         /\ fees["group"] = b.fees["group"] /\ fees["program"] = b.fees["program"]
         /\ b.fees["insurance"] \in Nat /\ b.fees["group"] \in Nat
         /\ b.fees["program"] \in Nat
    <2>1. /\ b.fees["insurance"] \in Nat /\ b.fees["group"] \in Nat
          /\ b.fees["program"] \in Nat
      BY <1>2 DEF FeeKinds
    <2>2. b.fees["insurance"] + due * Unit - m \in Nat
      <3>1. due * Unit \in Nat
        BY <1>7, TokensType
      <3> QED
        BY <1>4, <1>7, <2>1, <3>1
    <2> QED
      BY <1>2, <2>1, <2>2 DEF FeeKinds
  <1> HIDE DEF fees
  <1>13. /\ e \in BankType /\ e.fees = fees /\ e.assets = d.assets /\ e.liabs = d.liabs
         /\ e.assetValue = d.assetValue /\ e.liabValue = d.liabValue
    BY <1>11, <1>12, FeesSet
  <1> HIDE DEF e
  <1>14. /\ c \in BankType /\ c.fees = e.fees /\ c.assets = b.assets
         /\ c.liabs = b.liabs - x.liab
         /\ c.assetValue = b.assetValue /\ c.liabValue = b.liabValue
         /\ c.liabs = e.liabs /\ c.assets = e.assets
    BY <1>11, <1>13, DischargedIs
  <1> HIDE DEF c
  <1>15. BooksKept
    <2>1. /\ c.assets - b.assets = Closed.asset - x.asset + x.asset
          /\ c.liabs - b.liabs = Closed.liab - x.liab + 0
      BY <1>2, <1>3, <1>14, ClosedIs
    <2>2. Left(0, "liab", u, Closed, c.liabValue)
      BY DEF Left
    <2>3. Left(x.asset, "asset", u, Closed, c.assetValue)
      BY <1>1, <1>3, <1>14, ClosedIs DEF Left, x
    <2> QED
      BY <1>2, <1>5, <1>14, <2>1, <2>2, <2>3, ClosedIs, OneBooked DEF x
  <1>16. ASSUME ~ tokenless
         PROVE  Backing(bank', tokens'["liquidity"]) >= Backing(b, tokens["liquidity"])
                    - Unit - bank'.assetValue - bank'.liabValue
    <2>1. Backing(d, liquidity)
                = Backing(b, liquidity) + (- x.liab) * b.liabValue - 0 * b.assetValue
      <3>1. - x.liab \in Int /\ d.assets = b.assets + 0 /\ d.liabs = b.liabs + (- x.liab)
        BY <1>2, <1>3, <1>11
      <3> QED
        BY <1>2, <1>10, <1>11, <3>1, SharesBack
    <2>2. due * Unit - m \in Int
      BY <1>4, <1>7, Units
    <2>3. Backing(e, liquidity) = Backing(d, liquidity) - (due * Unit - m) * Unit
      <3>1. SumFunction(e.fees) = SumFunction(d.fees) + (due * Unit - m)
        <4>1. /\ SumFunction(fees) = fees["insurance"] + fees["group"] + fees["program"]
              /\ SumFunction(b.fees)
                    = b.fees["insurance"] + b.fees["group"] + b.fees["program"]
          BY <1>2, <1>12, FeeSum
        <4>2. due * Unit \in Int
          BY <1>7, Units
        <4> QED
          BY <1>4, <1>11, <1>12, <1>13, <4>1, <4>2
      <3> QED
        BY <1>10, <1>11, <1>13, <2>2, <3>1, FeesBack
    <2>4. Backing(e, liquidity + due) = Backing(e, liquidity) + (due * Unit) * Unit
      BY <1>7, <1>10, <1>13, TokensBack
    <2>5. /\ (- x.liab) * b.liabValue = - (x.liab * b.liabValue) /\ 0 * b.assetValue = 0
          /\ (due * Unit - m) * Unit = (due * Unit) * Unit - m * Unit
          /\ x.liab * b.liabValue \in Int /\ (due * Unit) * Unit \in Int
          /\ m * Unit \in Int
      BY <1>2, <1>3, <1>4, <1>7, Units
    <2>6. Backing(b, liquidity) \in Int /\ Backing(e, liquidity + due) \in Int
      BY <1>2, <1>7, <1>10, <1>13, BackingIs
    <2>7. Backing(e, liquidity + due) >= Backing(b, liquidity) - Unit
      BY <1>4, <2>1, <2>3, <2>4, <2>5, <2>6, Units
    <2>8. Backing(c, liquidity + due) = Backing(e, liquidity + due)
      BY <1>11, <1>13, <1>14, BackingSame
    <2>9. Backing(c, liquidity + due)
              >= Backing(b, liquidity) - Unit - c.assetValue - c.liabValue
      BY <1>2, <1>14, <2>6, <2>7, <2>8, Units
    <2> QED
      BY <1>5, <1>9, <1>16, <2>9 DEF liquidity
  <1>17. ASSUME tokenless PROVE Written
    <2>1. "ALLOWED" \in bank.flags
      BY <1>17 DEF RepayAll
    <2>2. bank'.liabs < bank.liabs
      BY <1>2, <1>3, <1>5, <1>6, <1>14
    <2>3. tokens' = tokens
      <3>1. Transfer(u, "liquidity", 0)
        BY <1>1, <1>17
      <3>2. tokens \in [Places -> Nat] /\ u \in Places /\ "liquidity" \in Places
        BY AccountsIs, PlacesDiffer DEF Places
      <3>3. u # "liquidity"
        BY PlacesDiffer
      <3>4. tokens' = [tokens EXCEPT ![u] = tokens[u] - 0,
                                     !["liquidity"] = tokens["liquidity"] + 0]
        BY <3>1, <3>3 DEF Transfer
      <3>5. tokens[u] - 0 = tokens[u] /\ tokens["liquidity"] + 0 = tokens["liquidity"]
        BY <3>2
      <3> QED
        BY <3>2, <3>4, <3>5
    <2> QED
      BY <2>1, <2>2, <2>3 DEF Written
  <1>18. \/ Written
         \/ Backing(bank', tokens'["liquidity"]) >= Backing(b, tokens["liquidity"])
                - Unit - bank'.assetValue - bank'.liabValue
    BY <1>16, <1>17
  <1>19. disabled' \subseteq Users
    BY DEF RepayAll, IInv, TypeOK
  <1> QED
    BY <1>5, <1>9, <1>14, <1>15, <1>18, <1>19, AccountStepSound

\* A step without interest, that keeps the values of the bank and its backing.
LEMMA OtherStepSound ==
    ASSUME IInv, BooksKept, disabled' \subseteq Users,
           tokens' \in [Vaults \union Users -> Nat], FundFirst,
           bank'.assetValue = bank.assetValue, bank'.liabValue = bank.liabValue,
           Backing(bank', tokens'["liquidity"]) >= Backing(bank, tokens["liquidity"])
    PROVE  StepSound
  <1>1. /\ bank \in BankType /\ bank' \in BankType
        /\ bank.assetValue \in Nat /\ bank.liabValue \in Nat /\ Unit <= bank.liabValue
    BY AccountsIs DEF BooksKept
  <1>2. tokens["liquidity"] \in Int /\ tokens'["liquidity"] \in Int
    BY AccountsIs DEF Vaults
  <1>3. PICK rate \in Rates : rate \in Nat
    BY BankAssumption
  <1>4. InterestLoss(bank, rate) \in Nat
    BY <1>1, <1>2, <1>3, InterestIsBacked
  <1>5. RoundingLoss(rate)
            = Unit + bank'.assetValue + bank'.liabValue + InterestLoss(bank, rate)
    BY DEF RoundingLoss, InterestLoss
  <1>6. /\ Backing(bank', tokens'["liquidity"]) \in Int
        /\ Backing(bank, tokens["liquidity"]) \in Int
    BY <1>1, <1>2, BackingIs
  <1>7. Backing(bank', tokens'["liquidity"])
            >= Backing(bank, tokens["liquidity"]) - RoundingLoss(rate)
    BY <1>1, <1>4, <1>5, <1>6, Units
  <1>8. Backed
    BY <1>7 DEF Backed
  <1>9. LossBorne
    BY <1>1 DEF LossBorne
  <1> QED
    BY <1>1, <1>8, <1>9 DEF StepSound

\* A balance of dust is closed: the dust stays in both totals.
LEMMA CloseBalanceSound ==
    ASSUME IInv, NEW u \in Users, CloseBalance(u)
    PROVE  StepSound
  <1> DEFINE x == balances[u]
  <1>1. PICK b \in Accrued : /\ Amount(x.asset, b.assetValue) < Threshold
                             /\ Amount(x.liab, b.liabValue) < Threshold
                             /\ bank' = b
    BY DEF CloseBalance
  <1>2. /\ b \in BankType /\ Accrues(bank, b) /\ b.assets \in Nat /\ b.liabs \in Nat
        /\ b.assetValue \in Nat /\ b.liabValue \in Nat
    BY AccruedValues
  <1>3. x.active /\ x.asset \in Nat /\ x.liab \in Nat
    BY AccountsIs DEF CloseBalance
  <1>4. /\ balances' = [balances EXCEPT ![u] = Closed]
        /\ tokens' = tokens /\ disabled' = disabled
    BY DEF CloseBalance
  <1>5. BooksKept
    <2>1. /\ Left(x.asset, "asset", u, Closed, b.assetValue)
          /\ Left(x.liab, "liab", u, Closed, b.liabValue)
      BY <1>1, <1>3, ClosedIs DEF Left
    <2>2. /\ b.assets - b.assets = Closed.asset - x.asset + x.asset
          /\ b.liabs - b.liabs = Closed.liab - x.liab + x.liab
      BY <1>2, <1>3, ClosedIs
    <2> QED
      BY <1>1, <1>2, <1>4, <2>1, <2>2, ClosedIs, OneBooked
  <1>6. NoFeesPaid /\ disabled' \subseteq Users
    <2>1. /\ tokens \in [Vaults \union Users -> Nat] /\ disabled \subseteq Users
      BY DEF IInv, TypeOK
    <2> QED
      BY <1>4, <2>1 DEF NoFeesPaid, Vaults
  <1>7. Backing(bank', tokens'["liquidity"]) >= Backing(b, tokens["liquidity"])
            - Unit - bank'.assetValue - bank'.liabValue
    <2>1. Backing(b, tokens["liquidity"]) \in Int
      BY <1>2, <1>6, BackingIs DEF NoFeesPaid
    <2> QED
      BY <1>1, <1>2, <1>4, <2>1, Units
  <1> QED
    BY <1>1, <1>5, <1>6, <1>7, AccountStepSound

\* A deposit is purged: it leaves the total, and its dust of debt stays.
LEMMA PurgeSound ==
    ASSUME IInv, NEW u \in Users, PurgeDelevBalance(u)
    PROVE  StepSound
  <1> DEFINE x == balances[u]
             c == Purged(x)
             liquidity == tokens["liquidity"]
  <1>1. /\ x.active /\ x.liab <= Threshold
        /\ balances' = [balances EXCEPT ![u] = Closed] /\ bank' = c
        /\ tokens' = tokens /\ disabled' = disabled
    BY DEF PurgeDelevBalance
  <1>2. /\ bank \in BankType /\ bank.assets \in Nat /\ bank.liabs \in Nat
        /\ bank.assetValue \in Nat /\ bank.liabValue \in Nat
        /\ x.asset \in Nat /\ x.liab \in Nat /\ x.asset <= bank.assets
    BY AccountsIs
  <1>3. /\ c \in BankType /\ c.assets = bank.assets - x.asset /\ c.liabs = bank.liabs
        /\ c.assetValue = bank.assetValue /\ c.liabValue = bank.liabValue
        /\ c.fees = bank.fees
    <2>1. bank.assets - x.asset \in Nat
      BY <1>2
    <2>2. bank.lending - 1 \in Int
      BY <1>2 DEF BankType
    <2> QED
      BY <1>2, <2>1, <2>2 DEF Purged, BankType
  <1>4. Accrues(bank, bank)
    BY <1>2 DEF Accrues
  <1> HIDE DEF c
  <1>5. BooksKept
    <2>1. /\ c.assets - bank.assets = Closed.asset - x.asset + 0
          /\ c.liabs - bank.liabs = Closed.liab - x.liab + x.liab
      BY <1>2, <1>3, ClosedIs
    <2>2. Left(0, "asset", u, Closed, c.assetValue)
      BY DEF Left
    <2>3. Left(x.liab, "liab", u, Closed, c.liabValue)
      BY <1>1, <1>2, ClosedIs DEF Left
    <2> QED
      BY <1>1, <1>3, <1>4, <2>1, <2>2, <2>3, ClosedIs, OneBooked
  <1>6. /\ tokens' \in [Vaults \union Users -> Nat] /\ disabled' \subseteq Users
        /\ tokens["fee"] \in Nat /\ tokens["program"] \in Nat /\ liquidity \in Nat
    <2>1. /\ tokens \in [Vaults \union Users -> Nat] /\ disabled \subseteq Users
      BY DEF IInv, TypeOK
    <2> QED
      BY <1>1, <2>1 DEF Vaults
  <1>7. FundFirst
    BY <1>1, <1>6 DEF FundFirst
  <1>8. Backing(c, liquidity) >= Backing(bank, liquidity)
    <2>1. Backing(c, liquidity) = Backing(bank, liquidity)
            + 0 * bank.liabValue - (- x.asset) * bank.assetValue
      <3>1. /\ - x.asset \in Int /\ c.assets = bank.assets + (- x.asset)
            /\ c.liabs = bank.liabs + 0
        BY <1>2, <1>3
      <3> QED
        BY <1>2, <1>3, <1>6, <3>1, SharesBack
    <2>2. /\ (- x.asset) * bank.assetValue = - (x.asset * bank.assetValue)
          /\ x.asset * bank.assetValue \in Nat /\ 0 * bank.liabValue = 0
      BY <1>2
    <2>3. Backing(bank, liquidity) \in Int
      BY <1>2, <1>6, BackingIs
    <2> QED
      BY <2>1, <2>2, <2>3
  <1> QED
    BY <1>1, <1>3, <1>5, <1>6, <1>7, <1>8, OtherStepSound

\* The liquidity vault and the insurance vault pay each other.
LEMMA PaidBetween ==
    ASSUME IInv, NEW n \in Nat, NEW from, NEW to,
           <<from, to>> \in {<<"liquidity", "insurance">>, <<"insurance", "liquidity">>},
           Transfer(from, to, n)
    PROVE  /\ NoFeesPaid
           /\ tokens[from] \in Nat /\ n <= tokens[from]
           /\ tokens'[from] = tokens[from] - n /\ tokens'[to] = tokens[to] + n
  <1>1. /\ from \in Places /\ to \in Places /\ from # to
        /\ "fee" \in Places \ {from, to} /\ "program" \in Places \ {from, to}
        /\ "liquidity" \in Places
    BY PlacesDiffer
  <1>2. /\ tokens' \in [Places -> Nat] /\ n <= tokens[from]
        /\ tokens'[from] = tokens[from] - n /\ tokens'[to] = tokens[to] + n
        /\ \A t \in Places \ {from, to} : tokens'[t] = tokens[t]
        /\ \A t \in Places : tokens[t] \in Nat
    BY <1>1, TransferIs
  <1> QED
    BY <1>1, <1>2 DEF NoFeesPaid, Places

\* A liquidation, for the bank of the debt: the fraction of a token of the fee is owed to
\* the insurance fund, which is paid the rest.
LEMMA LiquidateDebtSound ==
    ASSUME IInv, NEW by \in Users, NEW u \in Users, NEW l \in Liquidations,
           LiquidateDebt(by, u, l[1], l[2])
    PROVE  StepSound
  <1> DEFINE x == Opened(by)
             y == balances[u]
             liq == l[1]
             final == l[2]
             fee == liq - final
             liquidity == tokens["liquidity"]
  <1>1. PICK b \in Accrued :
          LET taken == Decrease(b, x, liq)
              paid == Increase(taken.bank, y, final)
          IN /\ bank' = [paid.bank EXCEPT !.fees["insurance"] = @ + (fee % Unit)]
             /\ balances' = [balances EXCEPT ![by] = taken.balance, ![u] = paid.balance]
             /\ Transfer("liquidity", "insurance", fee \div Unit)
    BY DEF LiquidateDebt
  <1> DEFINE p == Decrease(b, x, liq)
             q == Increase(p.bank, y, final)
             fees == [q.bank.fees EXCEPT !["insurance"] = @ + (fee % Unit)]
             c == [q.bank EXCEPT !.fees = fees]
  <1>2. liq \in Nat /\ final \in Nat /\ final <= liq
    BY BankAssumption
  <1>3. /\ b \in BankType /\ x \in Balance /\ x.asset <= b.assets /\ x.liab <= b.liabs
        /\ b.assetValue \in Nat /\ b.liabValue \in Nat \ {0} /\ Accrues(bank, b)
        /\ y \in Balance /\ b.fees \in [FeeKinds -> Nat]
    BY AccruedValues
  <1>4. x.active /\ y.active /\ by # u
    BY OpenedIs DEF LiquidateDebt
  <1> HIDE DEF liq, final
  <1>5. Moves(b, x, p)
    BY <1>2, <1>3, DecreaseIs
  <1>6. /\ p.bank \in BankType /\ p.bank.fees = b.fees
        /\ p.bank.assetValue = b.assetValue /\ p.bank.liabValue = b.liabValue
    BY <1>5 DEF Moves, Keeps
  <1>7. y.asset <= p.bank.assets /\ y.liab <= p.bank.liabs
    <2>1. FirstMoved(by, p)
      BY <1>3, <1>5, StillFits
    <2> QED
      BY <1>4, <2>1 DEF FirstMoved
  <1>8. Moves(p.bank, y, q)
    BY <1>2, <1>3, <1>6, <1>7, IncreaseIs
  <1>9. /\ q.bank \in BankType /\ q.bank.fees = b.fees
        /\ q.bank.assetValue = b.assetValue /\ q.bank.liabValue = b.liabValue
    BY <1>6, <1>8 DEF Moves, Keeps
  <1>10. /\ fee \in Nat /\ fee \div Unit \in Nat /\ fee % Unit \in Nat
         /\ fee = (fee \div Unit) * Unit + (fee % Unit)
    <2>1. fee \in Nat
      BY <1>2
    <2> HIDE DEF fee
    <2> QED
      BY <2>1, WholeTokens
  <1>11. bank' = c /\ balances' = [balances EXCEPT ![by] = p.balance, ![u] = q.balance]
    <2>1. bank' = [q.bank EXCEPT !.fees["insurance"] = @ + (fee % Unit)]
      BY <1>1
    <2>2. balances' = [balances EXCEPT ![by] = p.balance, ![u] = q.balance]
      BY <1>1
    <2> HIDE DEF p, q, fee
    <2> QED
      BY <1>9, <2>1, <2>2 DEF BankType
  <1>12. NoFeesPaid /\ tokens'["liquidity"] = liquidity - fee \div Unit
    <2>1. Transfer("liquidity", "insurance", fee \div Unit)
      BY <1>1
    <2> HIDE DEF fee
    <2> QED
      BY <1>10, <2>1, PaidBetween
  <1>13. liquidity \in Int
    BY <1>12 DEF NoFeesPaid
  <1>14. Backing(p.bank, liquidity)
            >= Backing(b, liquidity) + liq * Unit - b.assetValue - b.liabValue
    BY <1>2, <1>3, <1>13, DecreaseBacked
  <1>15. Backing(q.bank, liquidity) >= Backing(p.bank, liquidity) - final * Unit
    BY <1>2, <1>3, <1>6, <1>7, <1>13, IncreaseBacked
  <1> DEFINE out == fee \div Unit
             rest == fee % Unit
  <1>16. /\ out \in Nat /\ rest \in Nat
         /\ liq * Unit - final * Unit = (out * Unit) * Unit + rest * Unit
    <2>1. liq * Unit - final * Unit = fee * Unit
      BY <1>2, Units
    <2>2. fee = out * Unit + rest /\ out \in Nat /\ rest \in Nat
      BY <1>10
    <2> HIDE DEF fee, out, rest
    <2>3. fee * Unit = (out * Unit) * Unit + rest * Unit
      BY <2>2, Units
    <2> QED
      BY <2>1, <2>2, <2>3
  <1> HIDE DEF p, q, x, y, liquidity
  <1>17. /\ fees \in [FeeKinds -> Nat] /\ fees["insurance"] = b.fees["insurance"] + rest
         /\ fees["group"] = b.fees["group"] /\ fees["program"] = b.fees["program"]
         /\ b.fees["insurance"] \in Nat /\ b.fees["group"] \in Nat
         /\ b.fees["program"] \in Nat
    <2> HIDE DEF fee
    <2> QED
      BY <1>3, <1>9, <1>10 DEF FeeKinds
  <1> HIDE DEF fee, out, rest, fees
  <1>18. /\ c \in BankType /\ c.fees = fees
         /\ c.assets = q.bank.assets /\ c.liabs = q.bank.liabs
         /\ c.assetValue = b.assetValue /\ c.liabValue = b.liabValue
    BY <1>9, <1>17, FeesSet
  <1> HIDE DEF c
  <1>19. BooksKept
    BY <1>3, <1>4, <1>5, <1>8, <1>11, <1>18, TwoMoved DEF x, y
  <1>20. Backing(c, liquidity - out) >= Backing(b, liquidity) - b.assetValue - b.liabValue
    <2>1. SumFunction(c.fees) = SumFunction(q.bank.fees) + rest
      <3>1. /\ SumFunction(fees) = fees["insurance"] + fees["group"] + fees["program"]
            /\ SumFunction(b.fees)
                = b.fees["insurance"] + b.fees["group"] + b.fees["program"]
        BY <1>3, <1>17, FeeSum
      <3> QED
        BY <1>9, <1>16, <1>17, <1>18, <3>1
    <2>2. Backing(c, liquidity) = Backing(q.bank, liquidity) - rest * Unit
      BY <1>9, <1>13, <1>16, <1>18, <2>1, FeesBack
    <2>3. Backing(c, liquidity + (- out)) = Backing(c, liquidity) + ((- out) * Unit) * Unit
      BY <1>13, <1>16, <1>18, TokensBack
    <2>4. /\ ((- out) * Unit) * Unit = - ((out * Unit) * Unit)
          /\ liquidity - out = liquidity + (- out)
          /\ (out * Unit) * Unit \in Int /\ rest * Unit \in Int
          /\ liq * Unit \in Int /\ final * Unit \in Int
      BY <1>2, <1>13, <1>16, Units
    <2>5. /\ Backing(p.bank, liquidity) \in Int /\ Backing(b, liquidity) \in Int
          /\ Backing(q.bank, liquidity) \in Int
      BY <1>3, <1>6, <1>9, <1>13, BackingIs
    <2> QED
      BY <1>3, <1>14, <1>15, <1>16, <2>2, <2>3, <2>4, <2>5
  <1>21. Backing(bank', tokens'["liquidity"]) >= Backing(b, tokens["liquidity"])
            - Unit - bank'.assetValue - bank'.liabValue
    <2>1. Backing(c, liquidity - out) \in Int /\ Backing(b, liquidity) \in Int
      BY <1>3, <1>13, <1>16, <1>18, BackingIs
    <2>2. Backing(c, liquidity - out)
            >= Backing(b, liquidity) - Unit - c.assetValue - c.liabValue
      BY <1>3, <1>18, <1>20, <2>1, Units
    <2> QED
      BY <1>11, <1>12, <2>2 DEF liquidity, out
  <1>22. disabled' \subseteq Users
    BY DEF LiquidateDebt, IInv, TypeOK
  <1> QED
    BY <1>11, <1>12, <1>18, <1>19, <1>21, <1>22, AccountStepSound

\* A liquidation, for the bank of the collateral: it changes hands.
LEMMA LiquidateCollateralSound ==
    ASSUME IInv, NEW by \in Users, NEW u \in Users, NEW n \in Amounts,
           LiquidateCollateral(by, u, n)
    PROVE  StepSound
  <1> DEFINE x == balances[u]
             y == Opened(by)
             liquidity == tokens["liquidity"]
  <1>1. PICK b \in Accrued :
          LET given == Decrease(b, x, n * Unit)
              got == Increase(given.bank, y, n * Unit)
          IN /\ bank' = got.bank
             /\ balances' = [balances EXCEPT ![u] = given.balance, ![by] = got.balance]
    BY DEF LiquidateCollateral
  <1> DEFINE p == Decrease(b, x, n * Unit)
             q == Increase(p.bank, y, n * Unit)
  <1>2. n * Unit \in Nat /\ (n * Unit) * Unit \in Nat
    BY BankAssumption, TokensType
  <1>3. /\ b \in BankType /\ x \in Balance /\ x.asset <= b.assets /\ x.liab <= b.liabs
        /\ b.assetValue \in Nat /\ b.liabValue \in Nat \ {0} /\ Accrues(bank, b)
        /\ y \in Balance
    BY AccruedValues
  <1>4. /\ x.active /\ y.active /\ by # u
        /\ y.asset = balances[by].asset /\ y.liab = balances[by].liab
    BY OpenedIs DEF LiquidateCollateral
  <1>5. Moves(b, x, p)
    BY <1>2, <1>3, DecreaseIs
  <1>6. /\ p.bank \in BankType
        /\ p.bank.assetValue = b.assetValue /\ p.bank.liabValue = b.liabValue
    BY <1>5 DEF Moves, Keeps
  <1>7. y.asset <= p.bank.assets /\ y.liab <= p.bank.liabs
    <2>1. FirstMoved(u, p)
      BY <1>3, <1>5, StillFits
    <2> QED
      BY <1>4, <2>1 DEF FirstMoved
  <1>8. Moves(p.bank, y, q)
    BY <1>2, <1>3, <1>6, <1>7, IncreaseIs
  <1>9. /\ q.bank \in BankType
        /\ q.bank.assetValue = b.assetValue /\ q.bank.liabValue = b.liabValue
    BY <1>6, <1>8 DEF Moves, Keeps
  <1>10. bank' = q.bank /\ balances' = [balances EXCEPT ![u] = p.balance, ![by] = q.balance]
    BY <1>1
  <1>11. /\ tokens' = tokens /\ disabled' = disabled
         /\ tokens \in [Vaults \union Users -> Nat] /\ disabled \subseteq Users
    BY DEF LiquidateCollateral, IInv, TypeOK
  <1>12. NoFeesPaid /\ liquidity \in Nat
    BY <1>11 DEF NoFeesPaid, Vaults
  <1>13. Backing(p.bank, liquidity)
            >= Backing(b, liquidity) + (n * Unit) * Unit - b.assetValue - b.liabValue
    BY <1>2, <1>3, <1>12, DecreaseBacked
  <1>14. Backing(q.bank, liquidity) >= Backing(p.bank, liquidity) - (n * Unit) * Unit
    BY <1>2, <1>3, <1>6, <1>7, <1>12, IncreaseBacked
  <1> HIDE DEF p, q, x, y
  <1>15. BooksKept
    BY <1>3, <1>4, <1>5, <1>8, <1>9, <1>10, TwoMoved DEF x, y
  <1>16. Backing(bank', tokens'["liquidity"]) >= Backing(b, tokens["liquidity"])
            - Unit - bank'.assetValue - bank'.liabValue
    <2>1. /\ Backing(p.bank, liquidity) \in Int /\ Backing(b, liquidity) \in Int
          /\ Backing(q.bank, liquidity) \in Int
      BY <1>3, <1>6, <1>9, <1>12, BackingIs
    <2>2. Backing(q.bank, liquidity)
            >= Backing(b, liquidity) - Unit - q.bank.assetValue - q.bank.liabValue
      <3> HIDE DEF liquidity
      <3> QED
        BY <1>2, <1>3, <1>9, <1>13, <1>14, <2>1, Units
    <2> QED
      BY <1>10, <1>11, <2>2
  <1>17. disabled' \subseteq Users
    BY <1>11
  <1> QED
    BY <1>9, <1>10, <1>12, <1>15, <1>16, <1>17, AccountStepSound

\* Depositors bear a loss: what each share loses is no less than its part of it.
LEMMA SocializedIs ==
    ASSUME NEW b \in BankType, NEW loss \in Nat, NEW liquidity \in Int
    PROVE  LET s == SocializeLoss(b, loss)
           IN /\ s \in BankType
              /\ s.assets = b.assets /\ s.liabs = b.liabs /\ s.fees = b.fees
              /\ s.liabValue = b.liabValue
              /\ s.assetValue = 0 => s.state = "KilledByBankruptcy"
              /\ s.assetValue # 0 => Backing(s, liquidity)
                                        >= Backing(b, liquidity) + loss * Unit
              /\ loss = 0 /\ b.assets >= Unit => b.assetValue - 1 <= s.assetValue
  <1> DEFINE left == Excess(TotalAssets(b), loss)
             value == IF left = 0 THEN 0 ELSE (left * Unit) \div b.assets
             state == IF value = 0 THEN "KilledByBankruptcy" ELSE b.state
             s == [b EXCEPT !.assetValue = value, !.state = state]
             A == b.assets
             v == b.assetValue
             T == TotalAssets(b)
  <1>1. SocializeLoss(b, loss) = s
    BY DEF SocializeLoss
  <1>2. /\ A \in Nat /\ v \in Nat /\ T \in Nat
        /\ T * Unit <= A * v /\ A * v < T * Unit + Unit
    BY TotalsType DEF BankType
  <1>3. left \in Nat /\ (left # 0 => left = T - loss)
    BY <1>2 DEF Excess
  <1>4. left * Unit \in Nat
    BY <1>3, TokensType
  <1>5. left # 0 => A # 0
    <2> SUFFICES ASSUME left # 0, A = 0 PROVE FALSE
      OBVIOUS
    <2>1. T * Unit <= 0
      BY <1>2
    <2>2. T > 0
      BY <1>2, <1>3
    <2>3. 1 * Unit <= T * Unit
      BY <1>2, <2>2, Units, ProductMonotonic
    <2>4. T * Unit \in Int
      BY <1>2, Units
    <2> HIDE DEF left, T
    <2> QED
      BY <2>1, <2>3, <2>4, Units
  <1>6. /\ value \in Nat
        /\ value # 0 => /\ left # 0 /\ A \in Nat \ {0}
                        /\ value = (left * Unit) \div A /\ value * A <= left * Unit
    <2>1. CASE left = 0
      BY <2>1
    <2>2. CASE left # 0
      <3>1. A \in Nat \ {0}
        BY <1>2, <1>5, <2>2
      <3>2. value = (left * Unit) \div A
        BY <2>2
      <3> HIDE DEF value
      <3> QED
        BY <1>4, <2>2, <3>1, <3>2, Quotient
    <2> QED
      BY <2>1, <2>2
  <1>7. loss = 0 /\ A >= Unit => v - 1 <= value
    <2> SUFFICES ASSUME loss = 0, A >= Unit PROVE v - 1 <= value
      OBVIOUS
    <2>1. CASE v = 0
      <3> HIDE DEF value
      <3> QED
        BY <1>6, <2>1
    <2>2. CASE v # 0
      <3>1. A * v >= A
        <4>1. 1 * A <= v * A
          BY <1>2, <2>2, ProductMonotonic
        <4>2. v * A = A * v /\ A * v \in Int
          BY <1>2
        <4> QED
          BY <1>2, <4>1, <4>2
      <3>2. T # 0
        <4> SUFFICES ASSUME T = 0 PROVE FALSE
          OBVIOUS
        <4>1. T * Unit = 0
          BY Units
        <4>2. A * v \in Int
          BY <1>2
        <4> HIDE DEF left, value, A, v, T
        <4> QED
          BY <1>2, <3>1, <4>1, <4>2, Units
      <3>3. left = T
        BY <1>2 DEF Excess
      <3>4. left # 0
        BY <3>2, <3>3
      <3>5. value = (left * Unit) \div A /\ A \in Nat \ {0}
        BY <1>2, <1>5, <3>4
      <3>6. (v - 1) * A <= left * Unit
        <4> HIDE DEF left, value, A, v, T
        <4>1. (v - 1) * A = A * v - A /\ A * v \in Int
          BY <1>2
        <4>2. T * Unit \in Int
          BY <1>2, Units
        <4> QED
          BY <1>2, <3>3, <4>1, <4>2, Units
      <3>7. v - 1 \in Nat
        BY <1>2, <2>2
      <3> HIDE DEF value, left
      <3> QED
        BY <1>4, <3>5, <3>6, <3>7, QuotientAtLeast
    <2> QED
      BY <2>1, <2>2
  <1> HIDE DEF left, value
  <1>8. state \in States
    BY DEF BankType, States
  <1>9. value = 0 => state = "KilledByBankruptcy"
    OBVIOUS
  <1> HIDE DEF state
  <1>10. /\ s \in BankType /\ s.assets = b.assets /\ s.liabs = b.liabs /\ s.fees = b.fees
         /\ s.liabValue = b.liabValue /\ s.assetValue = value /\ s.state = state
    BY <1>6, <1>8 DEF BankType
  <1> HIDE DEF s
  <1>11. value # 0 => Backing(s, liquidity) >= Backing(b, liquidity) + loss * Unit
    <2> SUFFICES ASSUME value # 0
                 PROVE  Backing(s, liquidity) >= Backing(b, liquidity) + loss * Unit
      OBVIOUS
    <2>1. /\ b.liabs * b.liabValue \in Nat
          /\ SumFunction(b.fees) \in Int /\ liquidity * Unit * Unit \in Int
          /\ Backing(b, liquidity) = liquidity * Unit * Unit + b.liabs * b.liabValue
                - A * v - SumFunction(b.fees) * Unit
      BY BackingIs
    <2>2. Backing(s, liquidity) = liquidity * Unit * Unit + b.liabs * b.liabValue
                - A * value - SumFunction(b.fees) * Unit
      BY <1>10, BackingIs
    <2>3. A * value <= T * Unit - loss * Unit
      <3>1. left * Unit = T * Unit - loss * Unit /\ A * value = value * A
        BY <1>2, <1>3, <1>6, Units
      <3> QED
        BY <1>6, <3>1
    <2>4. /\ A * value \in Int /\ A * v \in Int /\ T * Unit \in Int /\ loss * Unit \in Int
          /\ SumFunction(b.fees) * Unit \in Int
      BY <1>2, <1>6, <2>1, Units
    <2> HIDE DEF A, v, T
    <2> QED
      BY <1>2, <2>1, <2>2, <2>3, <2>4
  <1> QED
    BY <1>1, <1>7, <1>9, <1>10, <1>11

\* A bankruptcy: the insurance fund pays what it can, depositors bear the rest, and the
\* debt is gone.
LEMMA BankruptcySound ==
    ASSUME IInv, NEW u \in Users, HandleBankruptcy(u)
    PROVE  StepSound
  <1> DEFINE x == balances[u]
             liquidity == tokens["liquidity"]
             fund == tokens["insurance"]
  <1>1. PICK b \in Accrued :
          LET debt == Amount(x.liab, b.liabValue)
              covered == CoveredByInsurance(debt)
          IN /\ Transfer("insurance", "liquidity", TokensFor(covered))
             /\ Book(u, Increase(SocializeLoss(b, debt - covered), x, debt))
    BY DEF HandleBankruptcy
  <1> DEFINE debt == Amount(x.liab, b.liabValue)
             covered == CoveredByInsurance(debt)
             loss == debt - covered
             paid == TokensFor(covered)
             s == SocializeLoss(b, loss)
             p == Increase(s, x, debt)
  <1>2. /\ b \in BankType /\ x \in Balance /\ x.asset <= b.assets /\ x.liab <= b.liabs
        /\ b.assetValue \in Nat /\ b.liabValue \in Nat /\ Accrues(bank, b)
        /\ b.assets = bank.assets /\ bank.assetValue <= b.assetValue
    BY AccruedValues
  <1>3. x.active /\ x.liab \in Nat /\ bank.assetValue \in Nat /\ bank.assets \in Nat
    BY AccountsIs DEF HandleBankruptcy
  <1>4. debt \in Nat
    BY <1>2, <1>3, AmountOf
  <1>5. fund \in Nat /\ liquidity \in Nat /\ fund * Unit \in Nat
    <2>1. fund \in Nat /\ liquidity \in Nat
      BY AccountsIs DEF Vaults
    <2> QED
      BY <2>1, TokensType
  <1>6. bank' = p.bank /\ balances' = [balances EXCEPT ![u] = p.balance]
    BY <1>1 DEF Book
  <1>7. Transfer("insurance", "liquidity", paid)
    BY <1>1
  <1> HIDE DEF debt, fund, liquidity, x
  <1>8. /\ covered \in Nat /\ covered <= debt /\ covered <= fund * Unit
        /\ covered = debt \/ covered = fund * Unit
    BY <1>4, <1>5 DEF CoveredByInsurance, Min2, fund
  <1> HIDE DEF covered
  <1>9. paid \in Nat /\ covered <= paid * Unit
    BY <1>8, WholeTokens
  <1>10. covered = fund * Unit => paid = fund
    <2> SUFFICES ASSUME covered = fund * Unit PROVE paid = fund
      OBVIOUS
    <2>1. paid = (fund * Unit + Unit - 1) \div Unit
      BY DEF TokensFor
    <2> HIDE DEF paid
    <2>2. /\ fund * Unit <= fund * Unit + Unit - 1
          /\ fund * Unit + Unit - 1 < fund * Unit + Unit
          /\ fund * Unit + Unit - 1 \in Nat
      BY <1>5, Units
    <2>3. fund <= paid /\ paid <= fund
      BY <1>5, <2>1, <2>2, Units, QuotientAtLeast, QuotientAtMost
    <2> QED
      BY <1>5, <1>9, <2>3
  <1>11. /\ NoFeesPaid /\ tokens'["liquidity"] = liquidity + paid
         /\ tokens'["insurance"] = fund - paid
    <2> HIDE DEF paid
    <2> QED
      BY <1>7, <1>9, PaidBetween DEF liquidity, fund
  <1>12. loss \in Nat
    BY <1>4, <1>8
  <1> HIDE DEF paid
  <1>13. /\ s \in BankType
         /\ s.assets = b.assets /\ s.liabs = b.liabs /\ s.fees = b.fees
         /\ s.liabValue = b.liabValue /\ s.assetValue \in Nat
         /\ s.assetValue = 0 => s.state = "KilledByBankruptcy"
         /\ s.assetValue # 0 => Backing(s, liquidity)
                                    >= Backing(b, liquidity) + loss * Unit
         /\ loss = 0 /\ b.assets >= Unit => b.assetValue - 1 <= s.assetValue
    <2> HIDE DEF loss
    <2>1. /\ s \in BankType
          /\ s.assets = b.assets /\ s.liabs = b.liabs /\ s.fees = b.fees
          /\ s.liabValue = b.liabValue
          /\ s.assetValue = 0 => s.state = "KilledByBankruptcy"
          /\ s.assetValue # 0 => Backing(s, liquidity)
                                    >= Backing(b, liquidity) + loss * Unit
          /\ loss = 0 /\ b.assets >= Unit => b.assetValue - 1 <= s.assetValue
      BY <1>2, <1>5, <1>12, SocializedIs
    <2> HIDE DEF s
    <2> QED
      BY <2>1 DEF BankType
  <1> HIDE DEF s
  <1>14. /\ Moves(s, x, p)
         /\ Backing(p.bank, liquidity) >= Backing(s, liquidity) - debt * Unit
    <2>1. x.asset <= s.assets /\ x.liab <= s.liabs
      BY <1>2, <1>13
    <2>2. Moves(s, x, p)
      BY <1>2, <1>4, <1>13, <2>1, IncreaseIs
    <2>3. Backing(p.bank, liquidity) >= Backing(s, liquidity) - debt * Unit
      BY <1>2, <1>4, <1>5, <1>13, <2>1, IncreaseBacked
    <2> QED
      BY <2>2, <2>3
  <1> HIDE DEF p
  <1>15. /\ p.bank \in BankType /\ p.bank.state = s.state
         /\ p.bank.assetValue = s.assetValue /\ p.bank.liabValue = b.liabValue
    BY <1>13, <1>14 DEF Moves, Keeps
  <1>16. BooksKept
    <2>1. /\ p.balance \in Balance /\ p.balance.active
          /\ p.bank.assets - b.assets = p.balance.asset - balances[u].asset + 0
          /\ p.bank.liabs - b.liabs = p.balance.liab - balances[u].liab + 0
      <3>1. /\ p.balance.asset \in Nat /\ p.balance.liab \in Nat
            /\ x.asset \in Nat /\ x.liab \in Nat
        BY <1>2, <1>14 DEF Moves, Balance
      <3> QED
        BY <1>3, <1>13, <1>14, <3>1 DEF Moves, x
    <2>2. /\ Left(0, "asset", u, p.balance, p.bank.assetValue)
          /\ Left(0, "liab", u, p.balance, p.bank.liabValue)
      BY DEF Left
    <2> QED
      BY <1>2, <1>6, <1>15, <2>1, <2>2, OneBooked
  <1>17. LossBorne
    <2> SUFFICES ASSUME bank.assets >= Unit, bank'.assetValue < bank.assetValue - 1
                 PROVE  tokens'["insurance"] = 0
      BY DEF LossBorne
    <2>1. loss # 0
      BY <1>2, <1>3, <1>6, <1>13, <1>15
    <2>2. covered = fund * Unit
      BY <1>4, <1>8, <2>1
    <2> QED
      BY <1>5, <1>10, <1>11, <2>2
  <1>18. \/ Written
         \/ Backing(bank', tokens'["liquidity"]) >= Backing(b, tokens["liquidity"])
                - Unit - bank'.assetValue - bank'.liabValue
    <2>1. ASSUME s.assetValue = 0 PROVE Written
      BY <1>6, <1>13, <1>15, <2>1 DEF Written, HandleBankruptcy, Is, Unpaused
    <2>2. ASSUME s.assetValue # 0
          PROVE  Backing(bank', tokens'["liquidity"]) >= Backing(b, tokens["liquidity"])
                    - Unit - bank'.assetValue - bank'.liabValue
      <3>1. /\ Backing(p.bank, liquidity + paid)
                = Backing(p.bank, liquidity) + (paid * Unit) * Unit
            /\ (paid * Unit) * Unit \in Int
        BY <1>5, <1>9, <1>15, TokensBack
      <3>2. (paid * Unit) * Unit >= covered * Unit
        <4>1. paid * Unit \in Int
          BY <1>9, Units
        <4> QED
          BY <1>8, <1>9, <4>1, Units, ProductMonotonic
      <3>3. debt * Unit = covered * Unit + loss * Unit
        BY <1>4, <1>8, Units
      <3>4. /\ Backing(p.bank, liquidity) \in Int /\ Backing(s, liquidity) \in Int
            /\ Backing(b, liquidity) \in Int
        BY <1>2, <1>5, <1>13, <1>15, BackingIs
      <3>5. debt * Unit \in Int /\ covered * Unit \in Int /\ loss * Unit \in Int
        BY <1>4, <1>8, <1>12, Units
      <3> HIDE DEF loss
      <3>6. Backing(p.bank, liquidity + paid) >= Backing(b, liquidity)
        BY <1>13, <1>14, <2>2, <3>1, <3>2, <3>3, <3>4, <3>5
      <3>7. Backing(p.bank, liquidity + paid) >= Backing(b, liquidity)
                - Unit - p.bank.assetValue - p.bank.liabValue
        BY <1>2, <1>13, <1>15, <3>1, <3>4, <3>6, Units
      <3> QED
        BY <1>6, <1>11, <3>7 DEF liquidity
    <2> QED
      BY <2>1, <2>2
  <1>19. disabled' \subseteq Users
    BY DEF HandleBankruptcy, IInv, TypeOK
  <1> QED
    BY <1>6, <1>11, <1>15, <1>16, <1>17, <1>18, <1>19, AccountStepSound

-----------------------------------------------------------------------------
(* The operations of the bank *)

\* An operation that leaves shares, values and fees alone is sound if it pays no fees.
LEMMA AdminStepSound ==
    ASSUME IInv, NEW c \in BankType, bank' = c,
           c.assets = bank.assets, c.liabs = bank.liabs, c.fees = bank.fees,
           c.assetValue = bank.assetValue, c.liabValue = bank.liabValue,
           UNCHANGED <<balances, disabled>>,
           tokens' \in [Vaults \union Users -> Nat],
           tokens'["fee"] <= tokens["fee"], tokens'["program"] <= tokens["program"],
           tokens'["liquidity"] = tokens["liquidity"]
    PROVE  StepSound
  <1>1. BooksKept
    BY NoneMoved
  <1>2. /\ disabled' \subseteq Users /\ tokens["liquidity"] \in Int
        /\ tokens["fee"] \in Nat /\ tokens["program"] \in Nat
        /\ tokens'["fee"] \in Nat /\ tokens'["program"] \in Nat
    <2>1. disabled' \subseteq Users
      BY DEF IInv, TypeOK
    <2> QED
      BY <2>1, AccountsIs DEF Vaults
  <1>3. FundFirst
    BY <1>2 DEF FundFirst
  <1>4. Backing(bank', tokens'["liquidity"]) >= Backing(bank, tokens["liquidity"])
    <2>1. Backing(c, tokens["liquidity"]) = Backing(bank, tokens["liquidity"])
      BY BackingSame
    <2>2. Backing(bank, tokens["liquidity"]) \in Int
      BY <1>2, AccountsIs, BackingIs
    <2> QED
      BY <2>1, <2>2
  <1> QED
    BY <1>1, <1>2, <1>3, <1>4, OtherStepSound

\* The interest of a period
LEMMA AccrueSound ==
    ASSUME IInv, AccrueBankInterest
    PROVE  StepSound
  <1> DEFINE b == bank'
  <1>1. /\ b \in Accrued /\ UNCHANGED <<balances, disabled, tokens>>
    BY DEF AccrueBankInterest
  <1>2. /\ b \in BankType /\ b.assets = bank.assets /\ b.liabs = bank.liabs
        /\ b.assetValue \in Nat /\ b.liabValue \in Nat
    BY <1>1, AccruedValues
  <1>3. BooksKept
    BY <1>1, <1>2, NoneMoved
  <1>4. NoFeesPaid /\ disabled' \subseteq Users
    <2>1. /\ tokens \in [Vaults \union Users -> Nat] /\ disabled \subseteq Users
      BY DEF IInv, TypeOK
    <2> QED
      BY <1>1, <2>1 DEF NoFeesPaid, Vaults
  <1>5. Backing(bank', tokens'["liquidity"])
            >= Backing(b, tokens["liquidity"]) - Unit - bank'.assetValue - bank'.liabValue
    <2>1. Backing(b, tokens["liquidity"]) \in Int
      BY <1>2, <1>4, BackingIs DEF NoFeesPaid
    <2> QED
      BY <1>1, <1>2, <2>1, Units
  <1> QED
    BY <1>1, <1>3, <1>4, <1>5, AccountStepSound

\* What a fee account is paid: whole tokens that it is owed and the vault has; either
\* the vault is empty then, or less than a token is still owed.
LEMMA PayableIs ==
    ASSUME bank \in BankType, NEW kind \in FeeKinds, NEW liquidity \in Nat
    PROVE  LET paid == Payable(kind, liquidity)
           IN /\ paid \in Nat /\ paid <= liquidity /\ paid * Unit \in Nat
              /\ Owed(kind, paid) \in Nat
              /\ Owed(kind, paid) = bank.fees[kind] - paid * Unit
              /\ paid = liquidity \/ Owed(kind, paid) < Unit
  <1> DEFINE owed == bank.fees[kind]
             paid == Payable(kind, liquidity)
             whole == owed \div Unit
  <1>1. owed \in Nat
    BY DEF BankType
  <1> HIDE DEF owed
  <1>2. /\ whole \in Nat /\ whole * Unit \in Nat
        /\ whole * Unit <= owed /\ owed < whole * Unit + Unit
    <2>1. whole \in Nat /\ whole * Unit <= owed /\ owed < whole * Unit + Unit
      BY <1>1, Units, Quotient
    <2> HIDE DEF whole
    <2> QED
      BY <2>1, TokensType
  <1>3. paid = Min2(whole, liquidity)
    BY DEF Payable, owed
  <1> HIDE DEF whole, paid
  <1>4. paid \in Nat /\ paid <= liquidity /\ paid <= whole /\ paid \in {whole, liquidity}
    BY <1>2, <1>3 DEF Min2
  <1>5. paid * Unit \in Nat /\ paid * Unit <= whole * Unit
    BY <1>2, <1>4, Units, TokensType, ProductMonotonic
  <1>6. Owed(kind, paid) = owed - paid * Unit
    BY DEF Owed, owed
  <1>7. owed - paid * Unit \in Nat
    BY <1>1, <1>2, <1>5
  <1>8. paid = liquidity \/ owed - paid * Unit < Unit
    <2>1. CASE paid = whole
      BY <1>1, <1>2, <2>1, Units
    <2> QED
      BY <1>4, <2>1
  <1> QED
    BY <1>4, <1>5, <1>6, <1>7, <1>8 DEF paid, owed

\* Fees are collected: what the bank pays it no longer owes, and it pays the insurance
\* fund first.
LEMMA CollectSound ==
    ASSUME IInv, CollectBankFees
    PROVE  StepSound
  <1> DEFINE liquidity == tokens["liquidity"]
             i == Payable("insurance", liquidity)
             g == Payable("group", liquidity - i)
             r == Payable("program", liquidity - i - g)
             fees == [k \in FeeKinds |-> Owed(k, Collected[k])]
             c == [bank EXCEPT !.fees = fees]
  <1>1. /\ bank \in BankType /\ tokens \in [Places -> Nat] /\ disabled \subseteq Users
        /\ bank.assetValue \in Nat /\ bank.liabValue \in Nat
    BY AccountsIs DEF Places, IInv, TypeOK
  <1>2. /\ liquidity \in Nat /\ tokens["insurance"] \in Nat
        /\ tokens["fee"] \in Nat /\ tokens["program"] \in Nat
    BY <1>1 DEF Places, Vaults
  <1>3. Collected.insurance = i /\ Collected.group = g /\ Collected.program = r
    BY DEF Collected
  <1>4. Collected["insurance"] = i /\ Collected["group"] = g /\ Collected["program"] = r
    BY <1>3
  <1>5. bank' = c /\ UNCHANGED <<balances, disabled>>
    BY DEF CollectBankFees
  <1>6. tokens' = [tokens EXCEPT !["liquidity"] = liquidity - i - g - r,
                                 !["insurance"] = tokens["insurance"] + i,
                                 !["fee"] = tokens["fee"] + g,
                                 !["program"] = tokens["program"] + r]
    BY <1>3 DEF CollectBankFees
  <1>7. /\ i \in Nat /\ i <= liquidity /\ i * Unit \in Nat
        /\ Owed("insurance", i) \in Nat
        /\ Owed("insurance", i) = bank.fees["insurance"] - i * Unit
        /\ i = liquidity \/ Owed("insurance", i) < Unit
    <2> HIDE DEF liquidity
    <2> QED
      BY <1>1, <1>2, PayableIs DEF FeeKinds
  <1> HIDE DEF i
  <1>8. liquidity - i \in Nat
    BY <1>2, <1>7
  <1>9. /\ g \in Nat /\ g <= liquidity - i /\ g * Unit \in Nat
        /\ Owed("group", g) \in Nat
        /\ Owed("group", g) = bank.fees["group"] - g * Unit
    <2> HIDE DEF liquidity
    <2> QED
      BY <1>1, <1>8, PayableIs DEF FeeKinds
  <1> HIDE DEF g
  <1>10. liquidity - i - g \in Nat
    BY <1>8, <1>9
  <1>11. /\ r \in Nat /\ r <= liquidity - i - g /\ r * Unit \in Nat
         /\ Owed("program", r) \in Nat
         /\ Owed("program", r) = bank.fees["program"] - r * Unit
    <2> HIDE DEF liquidity
    <2> QED
      BY <1>1, <1>10, PayableIs DEF FeeKinds
  <1> HIDE DEF r
  <1>12. /\ fees \in [FeeKinds -> Nat]
         /\ fees["insurance"] = Owed("insurance", i)
         /\ fees["group"] = Owed("group", g)
         /\ fees["program"] = Owed("program", r)
    BY <1>4, <1>7, <1>9, <1>11 DEF FeeKinds
  <1> HIDE DEF fees
  <1>13. /\ c \in BankType /\ c.fees = fees
         /\ c.assets = bank.assets /\ c.liabs = bank.liabs
         /\ c.assetValue = bank.assetValue /\ c.liabValue = bank.liabValue
    BY <1>1, <1>12, FeesSet
  <1> HIDE DEF c
  <1>14. BooksKept
    BY <1>5, <1>13, NoneMoved
  <1>15. /\ tokens' \in [Places -> Nat]
         /\ tokens'["liquidity"] = liquidity - i - g - r
         /\ tokens'["fee"] = tokens["fee"] + g
         /\ tokens'["program"] = tokens["program"] + r
    <2>1. /\ liquidity - i - g - r \in Nat /\ tokens["insurance"] + i \in Nat
          /\ tokens["fee"] + g \in Nat /\ tokens["program"] + r \in Nat
      BY <1>2, <1>7, <1>9, <1>10, <1>11
    <2>2. /\ "liquidity" \in Places /\ "fee" \in Places /\ "program" \in Places
      BY DEF Places, Vaults
    <2> QED
      BY <1>1, <1>6, <2>1, <2>2
  <1>16. FundFirst
    <2>1. CASE i = liquidity
      <3>1. g = 0 /\ r = 0
        BY <1>2, <1>7, <1>9, <1>11, <2>1
      <3> QED
        BY <1>2, <1>15, <3>1 DEF FundFirst
    <2>2. CASE Owed("insurance", i) < Unit
      BY <1>5, <1>12, <1>13, <2>2 DEF FundFirst
    <2> QED
      BY <1>7, <2>1, <2>2
  <1>17. Backing(bank', tokens'["liquidity"]) >= Backing(bank, tokens["liquidity"])
    <2> DEFINE n == - i - g - r
               m == i * Unit + g * Unit + r * Unit
    <2>1. n \in Int /\ m \in Int /\ liquidity + n = liquidity - i - g - r
      BY <1>2, <1>7, <1>9, <1>11
    <2>2. /\ (n * Unit) * Unit \in Int
          /\ Backing(bank, liquidity + n) = Backing(bank, liquidity) + (n * Unit) * Unit
      BY <1>1, <1>2, <2>1, TokensBack
    <2>3. SumFunction(c.fees) = SumFunction(bank.fees) + (- m)
      <3>1. bank.fees \in [FeeKinds -> Nat]
        BY <1>1 DEF BankType
      <3>2. bank.fees \in [FeeKinds -> Int] /\ fees \in [FeeKinds -> Int]
        BY <1>12, <3>1
      <3>3. SumFunction(bank.fees)
                = bank.fees["insurance"] + bank.fees["group"] + bank.fees["program"]
        BY <3>2, FeeSum
      <3>4. SumFunction(c.fees) = fees["insurance"] + fees["group"] + fees["program"]
        BY <1>13, <3>2, FeeSum
      <3>5. /\ bank.fees["insurance"] \in Nat /\ bank.fees["group"] \in Nat
            /\ bank.fees["program"] \in Nat
        BY <3>1 DEF FeeKinds
      <3> QED
        BY <1>7, <1>9, <1>11, <1>12, <3>3, <3>4, <3>5
    <2>4. /\ - m \in Int /\ liquidity + n \in Int
      BY <1>2, <2>1
    <2>5. Backing(c, liquidity + n) = Backing(bank, liquidity + n) - (- m) * Unit
      <3> HIDE DEF m, n, liquidity
      <3> QED
        BY <1>1, <1>13, <2>3, <2>4, FeesBack
    <2>6. (n * Unit) * Unit = - (m * Unit) /\ m * Unit \in Int
      <3>1. n * Unit = - m
        BY <1>7, <1>9, <1>11, Units
      <3> HIDE DEF n, m
      <3> QED
        BY <2>1, <3>1, Units
    <2>7. (- m) * Unit = - (m * Unit)
      <3> HIDE DEF m
      <3> QED
        BY <2>1, Units
    <2>8. Backing(bank, liquidity) \in Int
      BY <1>1, <1>2, BackingIs
    <2>9. Backing(c, liquidity + n) = Backing(bank, liquidity)
      <3> HIDE DEF n, m, liquidity
      <3> QED
        BY <2>2, <2>5, <2>6, <2>7, <2>8
    <2> QED
      BY <1>5, <1>15, <2>1, <2>8, <2>9
  <1>18. disabled' \subseteq Users
    BY <1>1, <1>5
  <1> QED
    BY <1>5, <1>13, <1>14, <1>15, <1>16, <1>17, <1>18, OtherStepSound DEF Places

\* The admin takes fees, or insurance funds.
LEMMA VaultWithdrawalSound ==
    ASSUME IInv, NEW n \in Amounts, WithdrawFees(n) \/ WithdrawInsurance(n)
    PROVE  StepSound
  <1>1. n \in Nat
    BY BankAssumption
  <1>2. PICK from \in {"fee", "insurance"} : Transfer(from, "admin", n)
    BY DEF WithdrawFees, WithdrawInsurance
  <1>3. from \in Places /\ "admin" \in Places /\ from # "admin"
    BY DEF Places, Vaults
  <1>4. /\ tokens' \in [Places -> Nat]
        /\ n <= tokens[from] /\ tokens'[from] = tokens[from] - n
        /\ \A t \in Places \ {from, "admin"} : tokens'[t] = tokens[t]
        /\ \A t \in Places : tokens[t] \in Nat
    BY <1>1, <1>2, <1>3, TransferIs
  <1>5. /\ tokens'["fee"] <= tokens["fee"] /\ tokens'["program"] <= tokens["program"]
        /\ tokens'["liquidity"] = tokens["liquidity"]
    <2>1. /\ "fee" \in Places /\ "program" \in Places /\ "liquidity" \in Places
      BY DEF Places, Vaults
    <2> QED
      BY <1>1, <1>4, <2>1
  <1>6. UNCHANGED <<bank, balances, disabled>>
    BY DEF WithdrawFees, WithdrawInsurance
  <1>7. bank \in BankType
    BY AccountsIs
  <1> QED
    BY <1>4, <1>5, <1>6, <1>7, AdminStepSound DEF Places

\* A bank that is only configured, closed or left alone for a while
LEMMA ConfiguredSound ==
    ASSUME IInv,
           \/ \E state \in AdminStates, allowed \in AdminFlags : Configure(state, allowed)
           \/ ForceTokenlessRepayComplete
           \/ CloseBank
           \/ Tick
    PROVE  StepSound
  <1>1. bank \in BankType
    BY AccountsIs
  <1>2. UNCHANGED <<balances, disabled, tokens>>
    BY DEF Configure, ForceTokenlessRepayComplete, CloseBank, Tick
  <1>3. PICK open \in BOOLEAN, state \in States, flags \in SUBSET TokenlessFlags,
             current \in BOOLEAN :
          bank' = [bank EXCEPT !.open = open, !.state = state, !.flags = flags,
                               !.current = current]
    <2>1. CASE \E state \in AdminStates, allowed \in AdminFlags : Configure(state, allowed)
      <3>1. PICK state \in AdminStates, allowed \in AdminFlags : Configure(state, allowed)
        BY <2>1
      <3>2. state \in States
        BY BankAssumption
      <3> DEFINE flags == IF allowed THEN bank.flags \union {"ALLOWED"}
                                     ELSE bank.flags \ {"ALLOWED"}
      <3>3. flags \in SUBSET TokenlessFlags
        BY <1>1 DEF BankType, TokenlessFlags
      <3>4. bank' = [bank EXCEPT !.state = state, !.flags = flags]
        BY <3>1 DEF Configure
      <3> HIDE DEF flags
      <3>5. bank.open \in BOOLEAN /\ bank.current \in BOOLEAN
        BY <1>1 DEF BankType
      <3>6. bank' = [bank EXCEPT !.open = bank.open, !.state = state, !.flags = flags,
                                 !.current = bank.current]
        BY <1>1, <3>4 DEF BankType
      <3> QED
        BY <3>2, <3>3, <3>5, <3>6
    <2>2. CASE ForceTokenlessRepayComplete
      <3>1. bank.flags \union {"COMPLETE"} \in SUBSET TokenlessFlags
        BY <1>1 DEF BankType, TokenlessFlags
      <3>2. bank.open \in BOOLEAN /\ bank.current \in BOOLEAN /\ bank.state \in States
        BY <1>1 DEF BankType
      <3>3. bank' = [bank EXCEPT !.open = bank.open, !.state = bank.state,
                                 !.flags = bank.flags \union {"COMPLETE"},
                                 !.current = bank.current]
        BY <1>1, <2>2 DEF BankType, ForceTokenlessRepayComplete
      <3> QED
        BY <3>1, <3>2, <3>3
    <2>3. CASE CloseBank
      <3>1. /\ bank.state \in States /\ bank.current \in BOOLEAN
            /\ bank.flags \in SUBSET TokenlessFlags
        BY <1>1 DEF BankType
      <3>2. bank' = [bank EXCEPT !.open = FALSE, !.state = bank.state,
                                 !.flags = bank.flags, !.current = bank.current]
        BY <1>1, <2>3 DEF BankType, CloseBank
      <3> QED
        BY <3>1, <3>2
    <2>4. CASE Tick
      <3>1. /\ bank.state \in States /\ bank.open \in BOOLEAN
            /\ bank.flags \in SUBSET TokenlessFlags
        BY <1>1 DEF BankType
      <3>2. bank' = [bank EXCEPT !.open = bank.open, !.state = bank.state,
                                 !.flags = bank.flags, !.current = FALSE]
        BY <1>1, <2>4 DEF BankType, Tick
      <3> QED
        BY <3>1, <3>2
    <2> QED
      BY <2>1, <2>2, <2>3, <2>4
  <1>4. /\ bank' \in BankType
        /\ bank'.assets = bank.assets /\ bank'.liabs = bank.liabs
        /\ bank'.fees = bank.fees
        /\ bank'.assetValue = bank.assetValue /\ bank'.liabValue = bank.liabValue
    BY <1>1, <1>3 DEF BankType
  <1>5. /\ tokens' \in [Places -> Nat]
        /\ tokens'["fee"] <= tokens["fee"] /\ tokens'["program"] <= tokens["program"]
        /\ tokens'["liquidity"] = tokens["liquidity"]
    <2>1. tokens \in [Places -> Nat]
      BY AccountsIs DEF Places
    <2> QED
      BY <1>2, <2>1 DEF Places, Vaults
  <1> QED
    BY <1>2, <1>4, <1>5, AdminStepSound DEF Places

-----------------------------------------------------------------------------
(* The invariant and the action properties *)

OpenBank(b) == "open" \in DOMAIN b /\ b.open

\* Moving shares closes no bank.
LEMMA StillOpen ==
    ASSUME NEW b, OpenBank(b), NEW x, NEW delta
    PROVE  OpenBank(Increase(b, x, delta).bank) /\ OpenBank(Decrease(b, x, delta).bank)
  <1>1. ASSUME NEW da, NEW dl PROVE OpenBank(Moved(b, x, da, dl).bank)
    <2> DEFINE y == [x EXCEPT !.asset = @ + da, !.liab = @ + dl]
               c == [b EXCEPT !.assets = @ + da, !.liabs = @ + dl,
                              !.lending = @ + CountChange(x.asset, y.asset),
                              !.borrowing = @ + CountChange(x.liab, y.liab)]
    <2>1. Moved(b, x, da, dl).bank = c
      BY DEF Moved
    <2> HIDE DEF y
    <2>2. "open" \in DOMAIN c /\ c.open = b.open
      BY DEF OpenBank
    <2> HIDE DEF c
    <2> QED
      BY <2>1, <2>2 DEF OpenBank
  <1> QED
    BY <1>1 DEF Increase, Decrease

\* An open bank is open once its interest is accrued.
LEMMA AccruedOpen ==
    ASSUME IInv, bank.open, NEW b \in Accrued
    PROVE  OpenBank(b) /\ b \in BankType
  BY AccruedValues DEF OpenBank, BankType

\* No operation on an account touches a bank that is closed, or closes one.
LEMMA AccountKeepsOpen ==
    ASSUME IInv, NEW u \in Users, OneAccountStep(u)
    PROVE  OpenBank(bank')
  <1>1. CASE \E n \in Amounts : Deposit(u, n)
    BY <1>1, AccruedOpen, StillOpen DEF Deposit, Is, Book
  <1>2. CASE \E n \in Amounts : Withdraw(u, n)
    BY <1>2, AccruedOpen, StillOpen DEF Withdraw, Is, Book
  <1>3. CASE \E n \in Amounts : Borrow(u, n)
    <2>1. PICK n \in Amounts : Borrow(u, n)
      BY <1>3
    <2>2. PICK b \in Accrued :
            LET fee == n * bank.originationRate
                program == (fee * ProgramShare) \div Unit
                p == Decrease(b, Opened(u), n * Unit + fee)
            IN Book(u, [p EXCEPT !.bank.fees["program"] = @ + program,
                                 !.bank.fees["group"] = @ + fee - program])
      BY <2>1 DEF Borrow
    <2> DEFINE fee == n * bank.originationRate
               program == (fee * ProgramShare) \div Unit
               p == Decrease(b, Opened(u), n * Unit + fee)
               q == [p EXCEPT !.bank.fees["program"] = @ + program,
                              !.bank.fees["group"] = @ + fee - program]
    <2>3. OpenBank(p.bank)
      BY <2>1, AccruedOpen, StillOpen DEF Borrow, Is
    <2>4. bank' = q.bank
      BY <2>2 DEF Book
    <2>5. "bank" \in DOMAIN p
      BY DEF Decrease, Moved
    <2> HIDE DEF p, program, fee
    <2>6. "open" \in DOMAIN q.bank /\ q.bank.open = p.bank.open
      BY <2>3, <2>5 DEF OpenBank
    <2> HIDE DEF q
    <2> QED
      BY <2>3, <2>4, <2>6 DEF OpenBank
  <1>4. ASSUME NEW c, OpenBank(c) PROVE OpenBank(Discharged(c))
    BY <1>4 DEF Discharged, OpenBank
  <1>5. CASE \E n \in Amounts : Repay(u, n)
    <2>1. PICK n \in Amounts : Repay(u, n)
      BY <1>5
    <2>2. PICK b \in Accrued :
            LET p == Increase(b, balances[u], n * Unit)
            IN Book(u, [p EXCEPT !.bank = Discharged(@)])
      BY <2>1 DEF Repay
    <2> DEFINE p == Increase(b, balances[u], n * Unit)
    <2>3. OpenBank(p.bank)
      BY <2>1, AccruedOpen, StillOpen DEF Repay, Is
    <2>4. "bank" \in DOMAIN p
      BY DEF Increase, Moved
    <2> HIDE DEF p
    <2>5. bank' = Discharged(p.bank)
      BY <2>2, <2>4 DEF Book, p
    <2> QED
      BY <1>4, <2>3, <2>5
  <1>6. CASE WithdrawAll(u)
    <2>1. PICK b \in Accrued : bank' = WithdrawnAll(b, balances[u]).bank
      BY <1>6 DEF WithdrawAll, Book
    <2>2. OpenBank(b)
      BY <1>6, AccruedOpen DEF WithdrawAll, Is
    <2> QED
      BY <2>1, <2>2 DEF WithdrawnAll, OpenBank
  <1>7. CASE \E tokenless \in BOOLEAN : RepayAll(u, tokenless)
    <2>1. PICK tokenless \in BOOLEAN : RepayAll(u, tokenless)
      BY <1>7
    <2>2. PICK b \in Accrued :
            Book(u, [RepaidAll(b, balances[u]) EXCEPT !.bank = Discharged(@)])
      BY <2>1 DEF RepayAll
    <2> DEFINE p == RepaidAll(b, balances[u])
    <2>3. OpenBank(b)
      BY <2>1, AccruedOpen DEF RepayAll, Is
    <2>4. OpenBank(p.bank) /\ "bank" \in DOMAIN p
      BY <2>3 DEF RepaidAll, OpenBank
    <2> HIDE DEF p
    <2>5. bank' = Discharged(p.bank)
      BY <2>2, <2>4 DEF Book, p
    <2> QED
      BY <1>4, <2>4, <2>5
  <1>8. CASE CloseBalance(u)
    BY <1>8, AccruedOpen DEF CloseBalance
  <1>9. CASE HandleBankruptcy(u)
    <2>1. PICK b \in Accrued :
            \E loss, debt : bank' = Increase(SocializeLoss(b, loss), balances[u], debt).bank
      BY <1>9 DEF HandleBankruptcy, Book
    <2>2. PICK loss, debt :
            bank' = Increase(SocializeLoss(b, loss), balances[u], debt).bank
      BY <2>1
    <2>3. OpenBank(b)
      BY <1>9, AccruedOpen DEF HandleBankruptcy, Is
    <2>4. OpenBank(SocializeLoss(b, loss))
      BY <2>3 DEF SocializeLoss, OpenBank
    <2> QED
      BY <2>2, <2>4, StillOpen
  <1>10. CASE PurgeDelevBalance(u)
    <2>1. bank \in BankType
      BY AccountsIs
    <2> QED
      BY <1>10, <2>1 DEF PurgeDelevBalance, Purged, OpenBank, BankType
  <1> QED
    BY <1>1, <1>2, <1>3, <1>5, <1>6, <1>7, <1>8, <1>9, <1>10 DEF OneAccountStep

\* Nor does a liquidation.
LEMMA LiquidationKeepsOpen ==
    ASSUME IInv, NEW by \in Users, NEW u \in Users, LiquidationStep(by, u)
    PROVE  OpenBank(bank')
  <1>1. CASE \E n \in Amounts : LiquidateCollateral(by, u, n)
    <2>1. PICK n \in Amounts : LiquidateCollateral(by, u, n)
      BY <1>1
    <2>2. PICK b \in Accrued :
            bank' = Increase(Decrease(b, balances[u], n * Unit).bank,
                             Opened(by), n * Unit).bank
      BY <2>1 DEF LiquidateCollateral
    <2> QED
      BY <2>1, <2>2, AccruedOpen, StillOpen DEF LiquidateCollateral, Is
  <1>2. CASE \E l \in Liquidations : LiquidateDebt(by, u, l[1], l[2])
    <2>1. PICK l \in Liquidations : LiquidateDebt(by, u, l[1], l[2])
      BY <1>2
    <2>2. PICK b \in Accrued :
            LET taken == Decrease(b, Opened(by), l[1])
                paid == Increase(taken.bank, balances[u], l[2])
            IN bank' = [paid.bank EXCEPT
                            !.fees["insurance"] = @ + ((l[1] - l[2]) % Unit)]
      BY <2>1 DEF LiquidateDebt
    <2> DEFINE c == Increase(Decrease(b, Opened(by), l[1]).bank, balances[u], l[2]).bank
    <2>3. OpenBank(c)
      BY <2>1, AccruedOpen, StillOpen DEF LiquidateDebt, Is
    <2> HIDE DEF c
    <2>4. bank' = [c EXCEPT !.fees["insurance"] = @ + ((l[1] - l[2]) % Unit)]
      BY <2>2 DEF c
    <2> QED
      BY <2>3, <2>4 DEF OpenBank
  <1> QED
    BY <1>1, <1>2 DEF LiquidationStep

\* Every step keeps the books, the backing and the order of losses and fees.
LEMMA StepIsSound ==
    ASSUME IInv, Next
    PROVE  StepSound
  <1>1. CASE \E u \in Users : OneAccountStep(u)
    <2>1. PICK u \in Users : OneAccountStep(u)
      BY <1>1
    <2> QED
      BY <2>1, DepositSound, WithdrawSound, BorrowSound, RepaySound, WithdrawAllSound,
         RepayAllSound, CloseBalanceSound, BankruptcySound, PurgeSound
         DEF OneAccountStep
  <1>2. CASE \E by, u \in Users : LiquidationStep(by, u)
    BY <1>2, LiquidateCollateralSound, LiquidateDebtSound DEF LiquidationStep
  <1>3. CASE BankStep
    BY <1>3, AccrueSound, CollectSound, VaultWithdrawalSound, ConfiguredSound
       DEF BankStep
  <1> QED
    BY <1>1, <1>2, <1>3 DEF Next

\* A bank is closed by CloseBank alone, and nobody's balance changes once it is.
LEMMA ClosedHow ==
    ASSUME IInv, Next, ~ bank'.open
    PROVE  balances' = balances /\ (~ bank.open \/ NoShares)
  <1>1. ~ OpenBank(bank')
    BY DEF OpenBank
  <1>2. BankStep
    BY <1>1, AccountKeepsOpen, LiquidationKeepsOpen DEF Next
  <1>3. balances' = balances
    BY <1>2 DEF BankStep, AccrueBankInterest, CollectBankFees, WithdrawFees,
                WithdrawInsurance, Configure, ForceTokenlessRepayComplete, CloseBank, Tick
  <1>4. bank \in BankType
    BY AccountsIs
  <1>5. ~ bank.open \/ CloseBank
    <2>1. CASE AccrueBankInterest
      BY <1>1, <2>1, AccruedOpen DEF AccrueBankInterest
    <2>2. CASE CollectBankFees
      BY <1>1, <1>4, <2>2 DEF CollectBankFees, OpenBank, BankType
    <2>3. CASE \E n \in Amounts : WithdrawFees(n) \/ WithdrawInsurance(n)
      BY <1>1, <1>4, <2>3 DEF WithdrawFees, WithdrawInsurance, OpenBank, BankType
    <2>4. CASE \E state \in AdminStates, allowed \in AdminFlags : Configure(state, allowed)
      BY <1>1, <1>4, <2>4 DEF Configure, OpenBank, BankType
    <2>5. CASE ForceTokenlessRepayComplete
      BY <1>1, <1>4, <2>5 DEF ForceTokenlessRepayComplete, OpenBank, BankType
    <2>6. CASE Tick
      BY <1>1, <1>4, <2>6 DEF Tick, OpenBank, BankType
    <2> QED
      BY <1>2, <2>1, <2>2, <2>3, <2>4, <2>5, <2>6 DEF BankStep
  <1> QED
    BY <1>3, <1>5 DEF CloseBank

\* At first nobody holds anything.
LEMMA InitBooks ==
    ASSUME Init
    PROVE  IInv
  <1>1. bank \in BankType
    BY BankAssumption DEF Init, BankType, States, FeeKinds, TokenlessFlags
  <1>2. balances = [u \in Users |-> Closed] /\ balances \in [Users -> Balance]
    BY ClosedIs DEF Init
  <1>3. disabled \subseteq Users
    BY DEF Init
  <1>4. tokens \in [Vaults \union Users -> Nat]
    BY BankAssumption DEF Init
  <1>5. SharesHeld("asset") = 0 /\ SharesHeld("liab") = 0
    <2> SUFFICES ASSUME NEW side \in Sides PROVE SharesHeld(side) = 0
      BY DEF Sides
    <2> DEFINE f == [u \in Users |-> balances[u][side]]
    <2>1. \A u \in Users : f[u] = 0
      BY <1>2, ClosedIs DEF Sides
    <2> HIDE DEF f
    <2>2. SumFunctionOnSet(f, Users) = 0
      BY <2>1, SumZero, BankAssumption
    <2>3. SharesHeld(side) = Held(balances, side)
      BY HeldIsSum
    <2> QED
      BY <2>2, <2>3 DEF Held, f
  <1>6. bank.assets = 0 /\ bank.liabs = 0 /\ bank.liabValue = Unit /\ bank.open
    BY DEF Init
  <1> QED
    BY <1>1, <1>2, <1>3, <1>4, <1>5, <1>6, Units DEF IInv, TypeOK, ClosedEmpty

\* Every step keeps the invariant.
LEMMA NextBooks ==
    ASSUME IInv, Next
    PROVE  IInv'
  <1>1. StepSound
    BY StepIsSound
  <1>2. TypeOK'
    BY <1>1 DEF StepSound, BooksKept, TypeOK
  <1>3. SharesHeld("asset")' <= bank'.assets /\ SharesHeld("liab")' <= bank'.liabs
    <2>1. /\ SharesHeld("asset") <= bank.assets /\ SharesHeld("liab") <= bank.liabs
          /\ bank.assets \in Nat /\ bank.liabs \in Nat
      BY AccountsIs DEF IInv
    <2>2. /\ SharesHeld("asset") \in Nat /\ SharesHeld("liab") \in Nat
          /\ SharesHeld("asset")' \in Nat /\ SharesHeld("liab")' \in Nat
      <3>1. balances \in [Users -> Balance] /\ balances' \in [Users -> Balance]
        BY <1>2, AccountsIs DEF TypeOK
      <3> QED
        BY <3>1, HeldIsSum, HeldIsSumAfter, HeldAtLeast DEF Sides
    <2>3. bank'.assets \in Nat /\ bank'.liabs \in Nat
      BY <1>2 DEF TypeOK, BankType
    <2>4. /\ (bank'.assets - SharesHeld("asset")') - (bank.assets - SharesHeld("asset")) >= 0
          /\ (bank'.liabs - SharesHeld("liab")') - (bank.liabs - SharesHeld("liab")) >= 0
      BY <1>1 DEF StepSound, BooksKept, TotalsFollow
    <2> QED
      BY <2>1, <2>2, <2>3, <2>4
  <1>4. InactiveClosed' /\ Unit <= bank'.liabValue
    BY <1>1 DEF StepSound, BooksKept
  <1>5. ClosedEmpty'
    <2> SUFFICES ASSUME ~ bank'.open, NEW u \in Users
                 PROVE  balances'[u].asset < Threshold /\ balances'[u].liab < Threshold
      BY DEF ClosedEmpty
    <2>1. balances' = balances /\ (~ bank.open \/ NoShares)
      BY ClosedHow
    <2>2. CASE ~ bank.open
      BY <2>1, <2>2 DEF IInv, ClosedEmpty
    <2>3. CASE NoShares
      <3>1. /\ balances[u].asset \in Nat /\ balances[u].liab \in Nat
            /\ balances[u].asset <= bank.assets /\ balances[u].liab <= bank.liabs
            /\ bank.assets \in Nat /\ bank.liabs \in Nat
        BY AccountsIs
      <3> QED
        BY <2>1, <2>3, <3>1, Units DEF NoShares
    <2> QED
      BY <2>1, <2>2, <2>3
  <1> QED
    BY <1>2, <1>3, <1>4, <1>5 DEF IInv, InactiveClosed

\* A step that changes nothing keeps it too.
LEMMA StutterBooks ==
    ASSUME IInv, UNCHANGED vars
    PROVE  IInv'
  <1>1. /\ SharesHeld("asset")' = SharesHeld("asset")
        /\ SharesHeld("liab")' = SharesHeld("liab")
    BY DEF vars, SharesHeld
  <1> QED
    BY <1>1 DEF IInv, vars, TypeOK, ClosedEmpty

\* The books of the bank hold whatever happens: no account holds shares that are missing
\* from the totals, a balance that is closed holds none, and debts are only ever worth
\* more (change_asset_shares, change_liability_shares, close_balance, accrue_interest).
THEOREM BankInvariant == Spec => []IInv
  <1>1. Init => IInv
    BY InitBooks
  <1>2. IInv /\ [Next]_vars => IInv'
    BY NextBooks, StutterBooks
  <1> QED
    BY <1>1, <1>2, PTL DEF Spec

\* A bank that is closed leaves no account more than dust (lending_pool_close_bank): its
\* counts of positions miss some of them, but its totals do not.
THEOREM ClosedLeavesNobody == Spec => []ClosedEmpty
  <1>1. IInv => ClosedEmpty
    BY DEF IInv
  <1> QED
    BY <1>1, BankInvariant, PTL

\* The totals follow the balances, up to the dust of the balances that are closed or
\* purged.
THEOREM TotalsAreFollowed == Spec => TotalsFollowBalances
  <1>1. IInv /\ [Next]_vars
            => [/\ TotalsFollow(bank.assets, "asset", bank.assetValue)
                /\ TotalsFollow(bank.liabs, "liab", bank.liabValue)]_vars
    BY StepIsSound DEF StepSound, BooksKept
  <1> QED
    BY <1>1, BankInvariant, PTL DEF Spec, TotalsFollowBalances

\* Depositors bear a loss only when the insurance fund is exhausted
\* (lending_pool_handle_bankruptcy).
THEOREM LossComesLast == Spec => LossAfterInsurance
  <1>1. IInv /\ [Next]_vars
            => [bank.assets >= Unit /\ bank'.assetValue < bank.assetValue - 1
                => tokens'["insurance"] = 0]_vars
    BY StepIsSound DEF StepSound, LossBorne
  <1> QED
    BY <1>1, BankInvariant, PTL DEF Spec, LossAfterInsurance

\* The insurance fund is paid its fees before the group and the program are
\* (lending_pool_collect_bank_fees).
THEOREM FundIsFirst == Spec => InsuranceFirst
  <1>1. IInv /\ [Next]_vars
            => [tokens'["fee"] + tokens'["program"] > tokens["fee"] + tokens["program"]
                => bank'.fees["insurance"] < Unit]_vars
    BY StepIsSound DEF StepSound, FundFirst
  <1> QED
    BY <1>1, BankInvariant, PTL DEF Spec, InsuranceFirst

\* No operation takes from the bank more than rounding, whatever rates, fees and
\* originations it is configured with: what it owes is never less covered than before,
\* except by a loss that is written off.
THEOREM BackingIsKept == Spec => NeverLessBacked
  <1>1. IInv /\ [Next]_vars
            => [Written \/ \E rate \in Rates :
                    Backing(bank', tokens'["liquidity"])
                        >= Backing(bank, tokens["liquidity"]) - RoundingLoss(rate)]_vars
    BY StepIsSound DEF StepSound, Backed
  <1> QED
    BY <1>1, BankInvariant, PTL DEF Spec, NeverLessBacked

=============================================================================
