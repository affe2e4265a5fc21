---------------------------- MODULE VenueProofs ----------------------------
(***************************************************************************)
(* Proofs about the banks of the venues, for any number of accounts and    *)
(* whatever the venues answer.                                             *)
(***************************************************************************)
EXTENDS DeleverageDay, SumsAndQuotients

-----------------------------------------------------------------------------
(* Units and tokens *)

\* A market's rate is a price: so many tokens for so many units.
LEMMA RateType ==
    ASSUME NEW m \in MarketType
    PROVE  m.rate[1] \in Nat \ {0} /\ m.rate[2] \in Nat \ {0}
  BY VenueAssumption DEF MarketType

\* Units for an amount are worth no more than it, and one more would be.
LEMMA UnitsOf ==
    ASSUME NEW m \in MarketType, NEW x \in Nat
    PROVE  /\ ToUnits(m, x) \in Nat
           /\ ToUnits(m, x) * m.rate[1] <= x * m.rate[2]
           /\ x * m.rate[2] < ToUnits(m, x) * m.rate[1] + m.rate[1]
  <1>1. x * m.rate[2] \in Nat /\ m.rate[1] \in Nat \ {0}
    BY RateType
  <1> QED
    BY <1>1, Quotient DEF ToUnits

\* Tokens for units are worth no more than them, and one more would be.
LEMMA TokensOf ==
    ASSUME NEW m \in MarketType, NEW n \in Nat
    PROVE  /\ ToTokens(m, n) \in Nat
           /\ ToTokens(m, n) * m.rate[2] <= n * m.rate[1]
           /\ n * m.rate[1] < ToTokens(m, n) * m.rate[2] + m.rate[2]
  <1>1. n * m.rate[1] \in Nat /\ m.rate[2] \in Nat \ {0}
    BY RateType
  <1> QED
    BY <1>1, Quotient DEF ToTokens

\* What Drift takes for an amount: nothing for less than a unit, and else more than the
\* amount is worth.
LEMMA DecrementOf ==
    ASSUME NEW m \in MarketType, NEW x \in Nat
    PROVE  /\ Decrement(m, x) \in Nat
           /\ Decrement(m, x) <= ToUnits(m, x) + 1
           /\ Decrement(m, x) = 0 => ToUnits(m, x) = 0 /\ x * m.rate[2] < m.rate[1]
           /\ Decrement(m, x) # 0 => /\ Decrement(m, x) = ToUnits(m, x) + 1
                                     /\ ToUnits(m, x) # 0
                                     /\ x * m.rate[2] < Decrement(m, x) * m.rate[1]
  <1>1. m.rate[1] \in Nat \ {0} /\ x * m.rate[2] \in Nat
    BY RateType
  <1>2. /\ ToUnits(m, x) \in Nat
        /\ x * m.rate[2] < ToUnits(m, x) * m.rate[1] + m.rate[1]
    BY UnitsOf
  <1>3. CASE ToUnits(m, x) = 0
    <2>1. Decrement(m, x) = 0
      BY <1>3 DEF Decrement
    <2> QED
      BY <1>1, <1>2, <1>3, <2>1
  <1>4. CASE ToUnits(m, x) # 0
    <2>1. Decrement(m, x) = ToUnits(m, x) + 1
      BY <1>4 DEF Decrement
    <2> QED
      BY <1>1, <1>2, <1>4, <2>1
  <1> QED
    BY <1>3, <1>4

\* A withdrawal of all never asks for more than Drift would take for the shares.
LEMMA AllOfFits ==
    ASSUME NEW m \in MarketType, NEW n \in Nat
    PROVE  AllOf(m, n) \in Nat /\ Decrement(m, AllOf(m, n)) <= n
  <1> DEFINE t == ToTokens(m, n)
             a == m.rate[1]
             b == m.rate[2]
  <1>1. a \in Nat \ {0} /\ b \in Nat \ {0}
    BY RateType
  <1>2. t \in Nat /\ t * b <= n * a
    BY TokensOf
  <1>3. /\ Decrement(m, t) \in Nat /\ Decrement(m, t) <= ToUnits(m, t) + 1
        /\ ToUnits(m, t) \in Nat /\ ToUnits(m, t) * a <= t * b
    BY <1>2, DecrementOf, UnitsOf
  <1>4. AllOf(m, n) = IF Decrement(m, t) = n + 1 THEN t - 1 ELSE t
    BY DEF AllOf
  <1>5. Decrement(m, t) <= n + 1
    <2>1. ToUnits(m, t) * a < (n + 1) * a
      BY <1>1, <1>2, <1>3
    <2>2. ToUnits(m, t) < n + 1
      BY <1>1, <1>3, <2>1, ProductCancels
    <2> QED
      BY <1>3, <2>2
  <1>6. CASE Decrement(m, t) # n + 1
    BY <1>2, <1>3, <1>4, <1>5, <1>6
  <1>7. CASE Decrement(m, t) = n + 1
    <2>1. ToUnits(m, t) = n /\ n # 0
      BY <1>2, <1>3, <1>7, DecrementOf
    <2>2. n * a \in Nat /\ t * b \in Nat /\ n * a = t * b /\ n * a # 0
      BY <1>1, <1>2, <1>3, <2>1
    <2>3. t - 1 \in Nat
      BY <1>1, <1>2, <2>2
    <2>4. (t - 1) * b < n * a
      BY <1>1, <1>2, <2>2
    <2>5. ToUnits(m, t - 1) \in Nat /\ ToUnits(m, t - 1) * a < n * a
      BY <1>1, <2>2, <2>3, <2>4, UnitsOf
    <2>6. ToUnits(m, t - 1) < n
      BY <1>1, <2>5, ProductCancels
    <2> QED
      BY <1>4, <1>7, <2>3, <2>5, <2>6, DecrementOf
  <1> QED
    BY <1>6, <1>7

-----------------------------------------------------------------------------
(* The books *)

\* The shares of each account, and the type of the balances
Shares == [u \in Users |-> balances[u].shares]
BalancesType == balances \in [Users -> [active : BOOLEAN, shares : Nat]]

\* The books, as a sum over the accounts.
LEMMA BookedIsSum == Booked = SumFunctionOnSet(Shares, Users)
  BY DEF Booked, Shares, SumFunction

\* No account has more than all of them.
LEMMA BookedBounds ==
    ASSUME BalancesType
    PROVE  Booked \in Nat /\ \A u \in Users : balances[u].shares <= Booked
  <1>1. \A u \in Users : Shares[u] = balances[u].shares /\ Shares[u] \in Nat
    BY DEF BalancesType, Shares
  <1> QED
    BY <1>1, BookedIsSum, SumNat, VenueAssumption

\* When the shares of one account change, the sum changes by as much.
LEMMA BookedFollows ==
    ASSUME BalancesType, BalancesType', NEW u \in Users,
           \A v \in Users \ {u} : balances'[v].shares = balances[v].shares
    PROVE  Booked' = Booked - balances[u].shares + balances'[u].shares
  <1>1. /\ \A v \in Users : Shares[v] = balances[v].shares /\ Shares[v] \in Nat
        /\ \A v \in Users : Shares'[v] = balances'[v].shares /\ Shares'[v] \in Nat
    BY DEF BalancesType, Shares
  <1>2. SumFunctionOnSet(Shares', Users)
           = SumFunctionOnSet(Shares, Users) - Shares[u] + Shares'[u]
    BY <1>1, SumUpdate, VenueAssumption
  <1>3. Booked' = SumFunctionOnSet(Shares', Users)
    BY DEF Booked, Shares, SumFunction
  <1> QED
    BY <1>1, <1>2, <1>3, BookedIsSum

\* A deposit on the books.
LEMMA BookTyped ==
    ASSUME TypeOK, NEW u \in Users, NEW n \in Nat, Book(u, n)
    PROVE  /\ BalancesType' /\ bank' \in BankType
           /\ bank'.shares = bank.shares + n /\ Booked' = Booked + n
  <1>1. BalancesType /\ bank \in BankType
    BY DEF TypeOK, BalancesType
  <1>2. bank' = [bank EXCEPT !.shares = @ + n]
    BY DEF Book
  <1>3. balances' = [balances EXCEPT ![u] =
            [active |-> TRUE, shares |-> balances[u].shares + n]]
    BY DEF Book
  <1>4. bank' \in BankType /\ bank'.shares = bank.shares + n
    BY <1>1, <1>2 DEF BankType
  <1>5. /\ BalancesType' /\ balances'[u].shares = balances[u].shares + n
        /\ \A v \in Users \ {u} : balances'[v].shares = balances[v].shares
    BY <1>1, <1>3 DEF BalancesType
  <1>6. Booked' = Booked - balances[u].shares + balances'[u].shares
    BY <1>1, <1>5, BookedFollows
  <1>7. Booked \in Nat /\ balances[u].shares \in Nat
    BY <1>1, BookedBounds DEF BalancesType
  <1> QED
    BY <1>4, <1>5, <1>6, <1>7

\* What one account gives up, the bank has on its books.
LEMMA UnbookTyped ==
    ASSUME TypeOK, Booked = bank.shares, NEW u \in Users, NEW n \in Nat,
           n <= balances[u].shares, bank' = [bank EXCEPT !.shares = @ - n],
           BalancesType', balances'[u].shares = balances[u].shares - n,
           \A v \in Users \ {u} : balances'[v].shares = balances[v].shares
    PROVE  /\ bank' \in BankType /\ bank'.shares = bank.shares - n
           /\ Booked' = bank'.shares
  <1>1. BalancesType /\ bank \in BankType
    BY DEF TypeOK, BalancesType
  <1>2. balances[u].shares \in Nat /\ balances[u].shares <= bank.shares
    BY <1>1, BookedBounds DEF BalancesType
  <1>3. bank' \in BankType /\ bank'.shares = bank.shares - n /\ bank.shares \in Nat
    BY <1>1, <1>2 DEF BankType
  <1>4. Booked' = Booked - balances[u].shares + balances'[u].shares
    BY <1>1, BookedFollows
  <1> QED
    BY <1>2, <1>3, <1>4

\* A withdrawal off the books.
LEMMA PartUnbooked ==
    ASSUME TypeOK, Booked = bank.shares, NEW u \in Users, NEW n \in Nat, Unbook(u, n)
    PROVE  /\ BalancesType' /\ bank' \in BankType /\ bank'.shares = bank.shares - n
           /\ Booked' = bank'.shares
  <1>1. BalancesType /\ n <= balances[u].shares
    BY DEF TypeOK, BalancesType, Unbook
  <1>2. balances' = [balances EXCEPT ![u].shares = @ - n]
    BY DEF Unbook
  <1>3. /\ BalancesType' /\ balances'[u].shares = balances[u].shares - n
        /\ \A v \in Users \ {u} : balances'[v].shares = balances[v].shares
    BY <1>1, <1>2 DEF BalancesType
  <1>4. bank' = [bank EXCEPT !.shares = @ - n]
    BY DEF Unbook
  <1> QED
    BY <1>1, <1>3, <1>4, UnbookTyped

\* A withdrawal of all of them.
LEMMA AllUnbooked ==
    ASSUME TypeOK, Booked = bank.shares, NEW u \in Users, UnbookAll(u)
    PROVE  /\ balances[u].shares \in Nat /\ balances[u].shares <= bank.shares
           /\ BalancesType' /\ bank' \in BankType
           /\ bank'.shares = bank.shares - balances[u].shares
           /\ Booked' = bank'.shares
  <1> DEFINE n == balances[u].shares
  <1>1. BalancesType /\ n \in Nat
    BY DEF TypeOK, BalancesType
  <1>2. balances' = [balances EXCEPT ![u] = [active |-> FALSE, shares |-> 0]]
    BY DEF UnbookAll
  <1>3. /\ BalancesType' /\ balances'[u].shares = n - n
        /\ \A v \in Users \ {u} : balances'[v].shares = balances[v].shares
    BY <1>1, <1>2 DEF BalancesType
  <1>4. bank' = [bank EXCEPT !.shares = @ - n]
    BY DEF UnbookAll
  <1> HIDE DEF n
  <1>5. n <= bank.shares
    BY <1>1, BookedBounds DEF n
  <1>6. n <= balances[u].shares /\ balances'[u].shares = balances[u].shares - n
    BY <1>1, <1>3 DEF n
  <1> QED
    BY <1>1, <1>3, <1>4, <1>5, <1>6, UnbookTyped DEF n

-----------------------------------------------------------------------------
(* Tokens and the window *)

\* The types of the tokens and of the window
TokensType == tokens \in [Users \cup {"vault"} -> Nat]
WindowType == window \in [limit : Limits \cup {0}, withdrawn : Nat, since : Nat]

\* A payment into the venue passes by the vault.
LEMMA PaidInTyped ==
    ASSUME TypeOK, NEW u \in Users, NEW n \in Nat, PaidIn(u, n)
    PROVE  /\ TokensType' /\ tokens'["vault"] = tokens["vault"]
           /\ tokens'[u] = tokens[u] - n /\ n <= tokens[u]
           /\ \A v \in Users \ {u} : tokens'[v] = tokens[v]
  BY VenueAssumption DEF TypeOK, TokensType, PaidIn

\* So does a payment out of it.
LEMMA PaidOutTyped ==
    ASSUME TypeOK, NEW u \in Users, NEW n \in Nat, PaidOut(u, n)
    PROVE  /\ TokensType' /\ tokens'["vault"] = tokens["vault"]
           /\ tokens'[u] = tokens[u] + n
           /\ \A v \in Users \ {u} : tokens'[v] = tokens[v]
  BY VenueAssumption DEF TypeOK, TokensType, PaidOut

\* The window of the day keeps its type when it starts over...
LEMMA ResetTyped ==
    ASSUME TypeOK
    PROVE  Reset \in [limit : Limits \cup {0}, withdrawn : Nat, since : Nat]
  BY DEF TypeOK, Reset

\* ... and when a withdrawal counts in it.
LEMMA CountTyped ==
    ASSUME TypeOK, NEW u \in Users, NEW n \in Nat, Count(u, n)
    PROVE  WindowType'
  <1>1. Dollars(n) \in Nat
    <2>1. n * UnitValue \in Nat /\ Dollar \in Nat \ {0}
      BY VenueAssumption
    <2> QED
      BY <2>1, Quotient DEF Dollars
  <1>2. [Reset EXCEPT !.withdrawn = @ + Dollars(n)]
           \in [limit : Limits \cup {0}, withdrawn : Nat, since : Nat]
    BY <1>1, ResetTyped
  <1>3. CASE mode[u] = "deleverage"
    BY <1>2, <1>3 DEF Count, Spend, WindowType
  <1>4. CASE mode[u] # "deleverage"
    BY <1>4 DEF Count, TypeOK, WindowType
  <1> QED
    BY <1>3, <1>4

-----------------------------------------------------------------------------
(* The position *)

\* The position gains units and stays open.
LEMMA GainTyped ==
    ASSUME position \in PositionType, NEW n \in Nat,
           position' = [position EXCEPT !.units = @ + n]
    PROVE  /\ position' \in PositionType /\ position'.units = position.units + n
           /\ position'.open = position.open
  <1>1. position'.open = position.open
    BY DEF PositionType
  <1>2. position' \in PositionType /\ position'.units = position.units + n
    BY DEF PositionType
  <1> QED
    BY <1>1, <1>2

\* It loses units, and is closed only when none is left.
LEMMA LossTyped ==
    ASSUME position \in PositionType, position.open, NEW n \in Nat, n <= position.units,
           \/ position' = [position EXCEPT !.units = @ - n]
           \/ position' = [position EXCEPT !.units = @ - n, !.open = n < position.units]
    PROVE  /\ position' \in PositionType /\ position'.units = position.units - n
           /\ position'.open \/ position'.units = 0
           /\ n < position.units => position'.open
  <1>1. position.units \in Nat /\ position.units - n \in Nat
    BY DEF PositionType
  <1>2. CASE position' = [position EXCEPT !.units = @ - n]
    <2>1. position' \in PositionType /\ position'.units = position.units - n
      BY <1>1, <1>2 DEF PositionType
    <2>2. position'.open = position.open
      BY <1>2 DEF PositionType
    <2> QED
      BY <2>1, <2>2
  <1>3. CASE position' = [position EXCEPT !.units = @ - n, !.open = n < position.units]
    <2> DEFINE rest == n < position.units
               left == position.units - n
    <2>1. rest \in BOOLEAN /\ left \in Nat
      BY <1>1
    <2>2. position' = [position EXCEPT !.units = left, !.open = rest]
      BY <1>3
    <2>3. left = 0 \/ rest
      BY <1>1
    <2> HIDE DEF rest, left
    <2>4. position' \in PositionType /\ position'.units = left
      BY <2>1, <2>2 DEF PositionType
    <2>5. position'.open = rest
      BY <2>2 DEF PositionType
    <2> QED
      BY <2>3, <2>4, <2>5 DEF rest, left
  <1> QED
    BY <1>2, <1>3

-----------------------------------------------------------------------------
(* One step *)

\* What is asked of every step.
StepSound ==
    /\ IInv'
    /\ position'.units - bank'.shares >= Cushion - Tolerance
    /\ tokens'["vault"] >= tokens["vault"]

\* A step that changes books and position by as much, or leaves the position more.
LEMMA Covers ==
    ASSUME IInv, TypeOK', Booked' = bank'.shares, UNCHANGED venue,
           position'.units - bank'.shares >= Cushion - Tolerance,
           position.open, position'.open \/ position'.units = 0,
           venue # "Solend" => position'.open,
           tokens'["vault"] >= tokens["vault"]
    PROVE  StepSound
  <1>1. /\ position.units \in Nat /\ bank.shares \in Nat
        /\ position'.units \in Nat /\ bank'.shares \in Nat
    BY DEF IInv, TypeOK, PositionType, BankType
  <1>2. venue # "Solend" => bank'.shares < position'.units
    BY <1>1 DEF IInv, BooksCovered, Cushion, Tolerance
  <1> QED
    BY <1>1, <1>2 DEF StepSound, IInv, BooksCovered

\* The deposit that opens the position stays out of the books.
LEMMA OpeningSound ==
    ASSUME IInv, ~ position.open, NEW u \in Users, NEW n \in Amounts, PaidIn(u, n),
           NEW units \in Nat, units > 0,
           position' = [position EXCEPT !.open = TRUE, !.units = units],
           market' \in MarketType, UNCHANGED <<venue, bank, balances, mode, window, now>>
    PROVE  StepSound
  <1>1. TypeOK /\ n \in Nat
    BY VenueAssumption DEF IInv
  <1>2. TokensType' /\ tokens'["vault"] = tokens["vault"] /\ tokens["vault"] \in Nat
    BY <1>1, PaidInTyped DEF TypeOK
  <1>3. /\ position' \in PositionType /\ position'.open /\ position'.units = units
        /\ position.units = 0 /\ bank.shares \in Nat
    BY <1>1 DEF TypeOK, PositionType, BankType, IInv
  <1>4. TypeOK'
    BY <1>1, <1>2, <1>3 DEF TypeOK, TokensType
  <1>5. Booked' = bank'.shares
    BY DEF IInv, BooksCovered, Booked
  <1>6. bank' = bank /\ venue # "Solend" => bank.shares = 0
    BY DEF IInv
  <1>7. BooksCovered'
    BY <1>3, <1>5, <1>6 DEF BooksCovered
  <1>8. IInv'
    BY <1>3, <1>4, <1>7 DEF IInv
  <1>9. position'.units - bank'.shares >= Cushion - Tolerance
    BY <1>3 DEF Cushion, Tolerance
  <1> QED
    BY <1>2, <1>8, <1>9 DEF StepSound

\* A deposit is booked as the position gained it.
LEMMA DepositSound ==
    ASSUME IInv, position.open, NEW u \in Users, NEW n \in Amounts, PaidIn(u, n),
           NEW units \in Nat, position' = [position EXCEPT !.units = @ + units],
           Book(u, units),
           market' \in MarketType, UNCHANGED <<venue, mode, window, now>>
    PROVE  StepSound
  <1>1. TypeOK /\ n \in Nat
    BY VenueAssumption DEF IInv
  <1>2. TokensType' /\ tokens'["vault"] = tokens["vault"] /\ tokens["vault"] \in Nat
    BY <1>1, PaidInTyped DEF TypeOK
  <1>3. /\ position' \in PositionType /\ position'.open
        /\ position'.units = position.units + units
        /\ position.units \in Nat /\ bank.shares \in Nat
    BY <1>1, GainTyped DEF TypeOK, PositionType, BankType
  <1>4. /\ BalancesType' /\ bank' \in BankType
        /\ bank'.shares = bank.shares + units /\ Booked' = Booked + units
    BY <1>1, BookTyped
  <1>5. TypeOK'
    BY <1>1, <1>2, <1>3, <1>4 DEF TypeOK, TokensType, BalancesType
  <1>6. Booked' = bank'.shares
    BY <1>4 DEF IInv, BooksCovered
  <1>7. position'.units - bank'.shares >= Cushion - Tolerance
    BY <1>3, <1>4 DEF Cushion, Tolerance
  <1> QED
    BY <1>2, <1>3, <1>5, <1>6, <1>7, Covers

\* A withdrawal takes no more from the position than it took off the books, up to the
\* tolerance.
LEMMA WithdrawalSound ==
    ASSUME IInv, position.open, NEW u \in Users, NEW n \in Nat, PaidOut(u, n),
           NEW off \in Nat, BalancesType', bank' \in BankType,
           bank'.shares = bank.shares - off, Booked' = bank'.shares,
           NEW taken \in Nat, taken <= position.units, taken <= off + Tolerance,
           \/ position' = [position EXCEPT !.units = @ - taken]
           \/ position' = [position EXCEPT !.units = @ - taken,
                                           !.open = taken < position.units],
           market' \in MarketType, WindowType', UNCHANGED <<venue, mode, now>>
    PROVE  StepSound
  <1>1. TypeOK
    BY DEF IInv
  <1>2. TokensType' /\ tokens'["vault"] = tokens["vault"] /\ tokens["vault"] \in Nat
    BY <1>1, PaidOutTyped DEF TypeOK
  <1>3. /\ position' \in PositionType
        /\ position'.units = position.units - taken
        /\ position'.open \/ position'.units = 0
        /\ taken < position.units => position'.open
        /\ position.units \in Nat /\ bank.shares \in Nat /\ bank'.shares \in Nat
    <2>1. /\ position \in PositionType /\ position.units \in Nat
          /\ bank.shares \in Nat /\ bank'.shares \in Nat
      BY <1>1 DEF TypeOK, PositionType, BankType
    <2> QED
      BY <2>1, LossTyped
  <1>4. TypeOK'
    BY <1>1, <1>2, <1>3 DEF TypeOK, TokensType, BalancesType, WindowType
  <1>5. Tolerance \in {0, 1} /\ (venue # "Solend" => Tolerance = 0)
    BY DEF Tolerance
  <1>6. position'.units - bank'.shares >= Cushion - Tolerance
    BY <1>3, <1>5 DEF Cushion
  <1>7. venue # "Solend" => taken < position.units
    BY <1>3, <1>5 DEF IInv, BooksCovered
  <1> QED
    BY <1>2, <1>3, <1>4, <1>6, <1>7, Covers

-----------------------------------------------------------------------------
(* The handlers of Kamino *)

\* A venue answers with a natural number.
LEMMA AnswerType ==
    ASSUME NEW n \in Int, NEW k \in Answers(n)
    PROVE  k \in Nat
  BY VenueAssumption DEF Answers

\* kamino_init_obligation
LEMMA KaminoInitSound ==
    ASSUME IInv, NEW u \in Users, NEW n \in Amounts, KaminoInitObligation(u, n)
    PROVE  StepSound
  <1>1. n \in Nat /\ market \in MarketType
    BY VenueAssumption DEF IInv, TypeOK
  <1>2. PICK minted \in Answers(ToUnits(market, n)) :
           minted > 0 /\ position' = [position EXCEPT !.open = TRUE, !.units = minted]
    BY DEF KaminoInitObligation, KaminoOpen
  <1>3. minted \in Nat
    BY <1>1, UnitsOf, AnswerType
  <1>4. market' \in MarketType
    BY <1>1 DEF KaminoInitObligation, KaminoOpen, MarketType
  <1> QED
    BY <1>2, <1>3, <1>4, OpeningSound DEF KaminoInitObligation, KaminoOpen

\* kamino_deposit
LEMMA KaminoDepositSound ==
    ASSUME IInv, NEW u \in Users, NEW n \in Amounts, KaminoDeposit(u, n)
    PROVE  StepSound
  <1>1. n \in Nat /\ market \in MarketType /\ position.open
    BY VenueAssumption DEF IInv, TypeOK, KaminoDeposit, KaminoDepositable
  <1>2. PICK minted \in Answers(ToUnits(market, n)) :
           KaminoAccept(u, n, minted) /\ Book(u, minted)
    BY DEF KaminoDeposit
  <1>3. minted \in Nat
    BY <1>1, UnitsOf, AnswerType
  <1> QED
    BY <1>1, <1>2, <1>3, DepositSound DEF KaminoDeposit, KaminoAccept

\* The part of kamino_withdraw after the books.
LEMMA KaminoTakenOut ==
    ASSUME IInv, NEW u \in Users, NEW n \in Nat, position.open, KaminoTakeOut(u, n),
           BalancesType', bank' \in BankType, bank'.shares = bank.shares - n,
           Booked' = bank'.shares
    PROVE  StepSound
  <1>1. TypeOK /\ market \in MarketType
    BY DEF IInv, TypeOK
  <1>2. PICK received \in Answers(ToTokens(market, n)) : KaminoRelease(u, n, received)
    BY DEF KaminoTakeOut
  <1>3. received \in Nat
    BY <1>1, TokensOf, AnswerType
  <1>4. WindowType' /\ market' \in MarketType
    BY <1>1, CountTyped DEF KaminoTakeOut
  <1>5. n <= n + Tolerance
    BY DEF Tolerance
  <1> QED
    BY <1>2, <1>3, <1>4, <1>5, WithdrawalSound DEF KaminoTakeOut, KaminoRelease

\* Every handler of Kamino.
LEMMA KaminoSound ==
    ASSUME IInv, KaminoNext
    PROVE  StepSound
  <1>1. ASSUME NEW u \in Users, NEW n \in Amounts, KaminoInitObligation(u, n)
        PROVE  StepSound
    BY <1>1, KaminoInitSound
  <1>2. ASSUME NEW u \in Users, NEW n \in Amounts, KaminoDeposit(u, n)
        PROVE  StepSound
    BY <1>2, KaminoDepositSound
  <1>3. ASSUME NEW u \in Users, NEW n \in Amounts, KaminoWithdraw(u, n)
        PROVE  StepSound
    <2>1. n \in Nat /\ TypeOK /\ Booked = bank.shares /\ position.open
      BY <1>3, VenueAssumption
      DEF IInv, BooksCovered, KaminoWithdraw, KaminoWithdrawable
    <2>2. /\ BalancesType' /\ bank' \in BankType /\ bank'.shares = bank.shares - n
          /\ Booked' = bank'.shares
      BY <1>3, <2>1, PartUnbooked DEF KaminoWithdraw
    <2> QED
      BY <1>3, <2>1, <2>2, KaminoTakenOut DEF KaminoWithdraw
  <1>4. ASSUME NEW u \in Users, KaminoWithdrawAll(u)
        PROVE  StepSound
    <2> DEFINE n == balances[u].shares
    <2>1. TypeOK /\ Booked = bank.shares /\ position.open
      BY <1>4 DEF IInv, BooksCovered, KaminoWithdrawAll, KaminoWithdrawable
    <2>2. /\ n \in Nat
          /\ BalancesType' /\ bank' \in BankType /\ bank'.shares = bank.shares - n
          /\ Booked' = bank'.shares
      BY <1>4, <2>1, AllUnbooked DEF KaminoWithdrawAll
    <2> QED
      BY <1>4, <2>1, <2>2, KaminoTakenOut DEF KaminoWithdrawAll
  <1> QED
    BY <1>1, <1>2, <1>3, <1>4 DEF KaminoNext

-----------------------------------------------------------------------------
(* The handlers of Solend *)

\* solend_init_obligation
LEMMA SolendInitSound ==
    ASSUME IInv, NEW u \in Users, NEW n \in Amounts, SolendInitObligation(u, n)
    PROVE  StepSound
  <1>1. n \in Nat /\ market \in MarketType
    BY VenueAssumption DEF IInv, TypeOK
  <1>2. PICK minted \in Answers(ToUnits(market, n)) :
           minted > 0 /\ position' = [position EXCEPT !.open = TRUE, !.units = minted]
    BY DEF SolendInitObligation, SolendOpen
  <1>3. minted \in Nat
    BY <1>1, UnitsOf, AnswerType
  <1> QED
    BY <1>1, <1>2, <1>3, OpeningSound DEF SolendInitObligation, SolendOpen

\* solend_deposit
LEMMA SolendDepositSound ==
    ASSUME IInv, NEW u \in Users, NEW n \in Amounts, SolendDeposit(u, n)
    PROVE  StepSound
  <1>1. n \in Nat /\ market \in MarketType /\ position.open
    BY VenueAssumption
    DEF IInv, TypeOK, SolendDeposit, SolendDepositable, ValidObligation
  <1>2. PICK minted \in Answers(ToUnits(market, n)) :
           SolendAccept(u, n, minted) /\ Book(u, minted)
    BY DEF SolendDeposit
  <1>3. minted \in Nat
    BY <1>1, UnitsOf, AnswerType
  <1> QED
    BY <1>1, <1>2, <1>3, DepositSound DEF SolendDeposit, SolendAccept

\* Here alone the position may lose a unit more than the books.
LEMMA SolendTakenOut ==
    ASSUME IInv, NEW u \in Users, NEW n \in Nat, position.open, venue = "Solend",
           SolendTakeOut(u, n), BalancesType', bank' \in BankType,
           bank'.shares = bank.shares - n, Booked' = bank'.shares
    PROVE  StepSound
  <1>1. TypeOK /\ market \in MarketType
    BY DEF IInv, TypeOK
  <1>2. PICK taken \in Answers(n), received \in Answers(ToTokens(market, n)) :
           SolendRelease(u, taken, received) /\ WithinOne(taken, n)
    BY DEF SolendTakeOut
  <1>3. taken \in Nat /\ received \in Nat
    BY <1>1, TokensOf, AnswerType
  <1>4. WindowType' /\ market' \in MarketType
    BY <1>1, CountTyped DEF SolendTakeOut
  <1>5. taken <= n + Tolerance
    BY <1>2, <1>3 DEF Tolerance, WithinOne
  <1> QED
    BY <1>2, <1>3, <1>4, <1>5, WithdrawalSound DEF SolendTakeOut, SolendRelease

\* Every handler of Solend.
LEMMA SolendSound ==
    ASSUME IInv, SolendNext
    PROVE  StepSound
  <1>1. ASSUME NEW u \in Users, NEW n \in Amounts, SolendInitObligation(u, n)
        PROVE  StepSound
    BY <1>1, SolendInitSound
  <1>2. ASSUME NEW u \in Users, NEW n \in Amounts, SolendDeposit(u, n)
        PROVE  StepSound
    BY <1>2, SolendDepositSound
  <1>3. ASSUME NEW u \in Users, NEW n \in Amounts, SolendWithdraw(u, n)
        PROVE  StepSound
    <2>1. /\ n \in Nat /\ TypeOK /\ Booked = bank.shares
          /\ position.open /\ venue = "Solend"
      BY <1>3, VenueAssumption
      DEF IInv, BooksCovered, SolendWithdraw, SolendWithdrawable, ValidObligation
    <2>2. /\ BalancesType' /\ bank' \in BankType /\ bank'.shares = bank.shares - n
          /\ Booked' = bank'.shares
      BY <1>3, <2>1, PartUnbooked DEF SolendWithdraw
    <2> QED
      BY <1>3, <2>1, <2>2, SolendTakenOut DEF SolendWithdraw
  <1>4. ASSUME NEW u \in Users, SolendWithdrawAll(u)
        PROVE  StepSound
    <2> DEFINE n == balances[u].shares
    <2>1. TypeOK /\ Booked = bank.shares /\ position.open /\ venue = "Solend"
      BY <1>4
      DEF IInv, BooksCovered, SolendWithdrawAll, SolendWithdrawable, ValidObligation
    <2>2. /\ n \in Nat
          /\ BalancesType' /\ bank' \in BankType /\ bank'.shares = bank.shares - n
          /\ Booked' = bank'.shares
      BY <1>4, <2>1, AllUnbooked DEF SolendWithdrawAll
    <2> QED
      BY <1>4, <2>1, <2>2, SolendTakenOut DEF SolendWithdrawAll
  <1> QED
    BY <1>1, <1>2, <1>3, <1>4 DEF SolendNext

-----------------------------------------------------------------------------
(* The handlers of Drift *)

\* Who has no part in a step keeps the worth of what it has.
LEMMA OthersKeepWorth ==
    ASSUME TypeOK, market' \in MarketType, NEW v \in Users, tokens'[v] = tokens[v],
           balances'[v].shares = balances[v].shares
    PROVE  KeepsWorth(v)
  <1>1. /\ market'.rate[1] \in Nat /\ market'.rate[2] \in Nat
        /\ tokens[v] \in Nat /\ balances[v].shares \in Nat
    <2>1. \A m \in MarketType : m.rate[1] \in Nat /\ m.rate[2] \in Nat
      BY RateType
    <2> QED
      BY <2>1 DEF TypeOK
  <1>2. Worth(market', tokens[v], balances[v].shares) \in Nat
    BY <1>1 DEF Worth
  <1> QED
    BY <1>2 DEF KeepsWorth

\* A market after interest is a market.
LEMMA AccruedType == Accrued \subseteq MarketType
  BY DEF Accrued

\* drift_init_user
LEMMA DriftInitSound ==
    ASSUME IInv, NEW u \in Users, NEW n \in Amounts, DriftInitUser(u, n)
    PROVE  StepSound /\ \A v \in Users : KeepsWorth(v)
  <1>1. n \in Nat /\ market \in MarketType /\ TypeOK
    BY VenueAssumption DEF IInv, TypeOK
  <1>2. PICK scaled \in Answers(Increment(market, n)) :
           scaled > 0 /\ position' = [position EXCEPT !.open = TRUE, !.units = scaled]
    BY DEF DriftInitUser, DriftOpen
  <1>3. scaled \in Nat
    BY <1>1, UnitsOf, AnswerType DEF Increment
  <1>4. StepSound
    BY <1>1, <1>2, <1>3, OpeningSound DEF DriftInitUser, DriftOpen
  <1>5. /\ tokens'[u] = tokens[u] - n
        /\ \A v \in Users \ {u} : tokens'[v] = tokens[v]
    BY <1>1, PaidInTyped DEF DriftInitUser, DriftOpen
  <1>6. balances' = balances /\ market' = market
    BY DEF DriftInitUser
  <1>7. ASSUME NEW v \in Users PROVE KeepsWorth(v)
    <2>1. CASE v # u
      BY <1>1, <1>5, <1>6, <2>1, OthersKeepWorth
    <2>2. CASE v = u
      <3> DEFINE a == market.rate[1]
                 b == market.rate[2]
                 t == tokens[u]
                 s == balances[u].shares
      <3>1. a \in Nat /\ b \in Nat /\ t \in Nat /\ s \in Nat
        BY <1>1, RateType DEF TypeOK
      <3> HIDE DEF a, b, t, s
      <3>2. (t - n) * b + s * a <= t * b + s * a
        BY <1>1, <3>1
      <3> QED
        BY <1>5, <1>6, <2>2, <3>2 DEF KeepsWorth, Worth, a, b, t, s
    <2> QED
      BY <2>1, <2>2
  <1> QED
    BY <1>4, <1>7

\* drift_deposit
LEMMA DriftDepositSound ==
    ASSUME IInv, NEW u \in Users, NEW n \in Amounts, DriftDeposit(u, n)
    PROVE  StepSound /\ \A v \in Users : KeepsWorth(v)
  <1> DEFINE scaled == Increment(market', n)
  <1>1. /\ n \in Nat /\ market' \in MarketType /\ TypeOK /\ position.open
    BY VenueAssumption, AccruedType DEF IInv, DriftDeposit, DriftDepositable
  <1>2. scaled \in Nat /\ scaled * market'.rate[1] <= n * market'.rate[2]
    BY <1>1, UnitsOf DEF Increment
  <1> HIDE DEF scaled
  <1>3. DriftAccept(u, n, scaled) /\ Book(u, scaled)
    BY DEF DriftDeposit, scaled
  <1>4. StepSound
    BY <1>1, <1>2, <1>3, DepositSound DEF DriftDeposit, DriftAccept
  <1>5. /\ tokens'[u] = tokens[u] - n
        /\ \A v \in Users \ {u} : tokens'[v] = tokens[v]
    BY <1>1, <1>3, PaidInTyped DEF DriftAccept
  <1>6. /\ balances'[u].shares = balances[u].shares + scaled
        /\ \A v \in Users \ {u} : balances'[v].shares = balances[v].shares
    BY <1>1, <1>3 DEF Book, TypeOK
  <1>7. ASSUME NEW v \in Users PROVE KeepsWorth(v)
    <2>1. CASE v # u
      BY <1>1, <1>5, <1>6, <2>1, OthersKeepWorth
    <2>2. CASE v = u
      <3> DEFINE a == market'.rate[1]
                 b == market'.rate[2]
                 t == tokens[u]
                 s == balances[u].shares
      <3>1. a \in Nat /\ b \in Nat /\ t \in Nat /\ s \in Nat
        BY <1>1, RateType DEF TypeOK
      <3>2. scaled * a <= n * b
        BY <1>2
      <3> HIDE DEF a, b, t, s
      <3>3. (t - n) * b + (s + scaled) * a <= t * b + s * a
        BY <1>1, <1>2, <3>1, <3>2
      <3> QED
        BY <1>5, <1>6, <2>2, <3>3 DEF KeepsWorth, Worth, a, b, t, s
    <2> QED
      BY <2>1, <2>2
  <1> QED
    BY <1>4, <1>7

\* Tokens for the shares that Drift takes for them, or more.
LEMMA DriftWithdrawalKeepsWorth ==
    ASSUME TypeOK, market' \in MarketType, NEW u \in Users, NEW x \in Nat, NEW off \in Nat,
           tokens'[u] = tokens[u] + x, balances'[u].shares = balances[u].shares - off,
           Decrement(market', x) <= off, off = 0 => UNCHANGED position
    PROVE  KeepsWorth(u)
  <1> DEFINE a == market'.rate[1]
             b == market'.rate[2]
             t == tokens[u]
             s == balances[u].shares
             d == Decrement(market', x)
  <1>1. a \in Nat \ {0} /\ b \in Nat /\ t \in Nat /\ s \in Nat
    BY RateType DEF TypeOK
  <1>2. d \in Nat /\ d <= off /\ (d = 0 => x * b < a) /\ (d # 0 => x * b < d * a)
    BY DecrementOf
  <1>3. /\ KeepsWorth(u) <=>
              \/ (t + x) * b + (s - off) * a <= t * b + s * a
              \/ (t + x) * b + (s - off) * a < t * b + s * a + a /\ UNCHANGED position
    BY DEF KeepsWorth, Worth
  <1> HIDE DEF a, b, t, s, d
  <1>4. x * b \in Nat /\ off * a \in Nat /\ d * a \in Nat
    BY <1>1, <1>2
  <1>5. CASE off = 0
    <2>1. (t + x) * b + (s - off) * a < t * b + s * a + a
      BY <1>1, <1>2, <1>4, <1>5
    <2> QED
      BY <1>3, <1>5, <2>1
  <1>6. CASE off # 0
    <2>1. d * a <= off * a /\ a <= off * a
      BY <1>1, <1>2, <1>6
    <2>2. x * b <= off * a
      BY <1>2, <1>4, <2>1, <1>1
    <2>3. (t + x) * b + (s - off) * a <= t * b + s * a
      BY <1>1, <1>2, <1>4, <2>2
    <2> QED
      BY <1>3, <2>3
  <1> QED
    BY <1>5, <1>6

\* The part of drift_withdraw after the books.
LEMMA DriftTakenOut ==
    ASSUME IInv, NEW u \in Users, NEW x \in Nat, NEW scaled \in Nat, NEW off \in Nat,
           position.open, market' \in MarketType, DriftTakeOut(u, x, scaled),
           scaled = Decrement(market', x), scaled <= off,
           BalancesType', bank' \in BankType, bank'.shares = bank.shares - off,
           balances'[u].shares = balances[u].shares - off,
           \A v \in Users \ {u} : balances'[v].shares = balances[v].shares,
           off = 0 => scaled = 0, Booked' = bank'.shares
    PROVE  StepSound /\ \A v \in Users : KeepsWorth(v)
  <1>1. TypeOK
    BY DEF IInv
  <1>2. DriftRelease(u, scaled, x)
    BY DEF DriftTakeOut
  <1>3. WindowType'
    BY <1>1, CountTyped DEF DriftTakeOut
  <1>4. scaled <= off + Tolerance
    BY DEF Tolerance
  <1>5. StepSound
    BY <1>2, <1>3, <1>4, WithdrawalSound DEF DriftTakeOut, DriftRelease
  <1>6. /\ tokens'[u] = tokens[u] + x
        /\ \A v \in Users \ {u} : tokens'[v] = tokens[v]
    BY <1>1, <1>2, PaidOutTyped DEF DriftRelease
  <1>7. off = 0 => UNCHANGED position
    <2> SUFFICES ASSUME off = 0 PROVE UNCHANGED position
      OBVIOUS
    <2>1. position \in PositionType /\ position' = [position EXCEPT !.units = @ - 0]
      BY <1>1, <1>2 DEF TypeOK, DriftRelease
    <2> QED
      BY <2>1 DEF PositionType
  <1>8. KeepsWorth(u)
    BY <1>1, <1>6, <1>7, DriftWithdrawalKeepsWorth
  <1>9. \A v \in Users \ {u} : KeepsWorth(v)
    BY <1>1, <1>6, OthersKeepWorth
  <1> QED
    BY <1>5, <1>8, <1>9

\* drift_withdraw of an amount
LEMMA DriftWithdrawSound ==
    ASSUME IInv, NEW u \in Users, NEW n \in Amounts, DriftWithdraw(u, n)
    PROVE  StepSound /\ \A v \in Users : KeepsWorth(v)
  <1> DEFINE asked == PartOf(market', balances[u].shares, n)
             scaled == Decrement(market', asked)
  <1>1. /\ n \in Nat /\ market' \in MarketType /\ TypeOK /\ Booked = bank.shares
        /\ position.open
    BY VenueAssumption, AccruedType
    DEF IInv, BooksCovered, DriftWithdraw, DriftWithdrawable
  <1>2. balances[u].shares \in Nat
    BY <1>1 DEF TypeOK
  <1>3. asked \in Nat
    BY <1>1, <1>2, TokensOf DEF PartOf
  <1>4. scaled \in Nat
    BY <1>1, <1>3, DecrementOf
  <1>5. Unbook(u, scaled) /\ DriftTakeOut(u, asked, scaled)
    BY DEF DriftWithdraw
  <1> HIDE DEF asked, scaled
  <1>6. /\ BalancesType' /\ bank' \in BankType /\ bank'.shares = bank.shares - scaled
        /\ Booked' = bank'.shares
    BY <1>1, <1>4, <1>5, PartUnbooked
  <1>7. /\ balances'[u].shares = balances[u].shares - scaled
        /\ \A v \in Users \ {u} : balances'[v].shares = balances[v].shares
    BY <1>1, <1>5 DEF Unbook, TypeOK
  <1>8. scaled = Decrement(market', asked) /\ scaled <= scaled
    BY <1>4 DEF scaled
  <1> QED
    BY <1>1, <1>3, <1>4, <1>5, <1>6, <1>7, <1>8, DriftTakenOut

\* drift_withdraw of all
LEMMA DriftWithdrawAllSound ==
    ASSUME IInv, NEW u \in Users, DriftWithdrawAll(u)
    PROVE  StepSound /\ \A v \in Users : KeepsWorth(v)
  <1> DEFINE off == balances[u].shares
             asked == AllOf(market', off)
             scaled == Decrement(market', asked)
  <1>1. /\ market' \in MarketType /\ TypeOK /\ Booked = bank.shares /\ position.open
    BY AccruedType DEF IInv, BooksCovered, DriftWithdrawAll, DriftWithdrawable
  <1>2. off \in Nat
    BY <1>1 DEF TypeOK
  <1>3. asked \in Nat /\ scaled <= off
    BY <1>1, <1>2, AllOfFits
  <1>4. scaled \in Nat
    BY <1>1, <1>3, DecrementOf
  <1>5. /\ off > 0 /\ UnbookAll(u)
        /\ \/ DriftTakeOut(u, asked, scaled)
           \/ /\ asked <= 0 /\ Count(u, scaled)
              /\ UNCHANGED <<venue, position, tokens, mode, now>>
    BY <1>3 DEF DriftWithdrawAll, UnbookAll
  <1>6. /\ BalancesType' /\ bank' \in BankType /\ bank'.shares = bank.shares - off
        /\ Booked' = bank'.shares /\ off <= bank.shares
    BY <1>1, <1>5, AllUnbooked
  <1>7. /\ balances'[u].shares = balances[u].shares - off
        /\ \A v \in Users \ {u} : balances'[v].shares = balances[v].shares
    BY <1>1, <1>2, <1>5 DEF UnbookAll, TypeOK
  <1>8. scaled = Decrement(market', asked)
    OBVIOUS
  <1> HIDE DEF asked, scaled, off
  <1>9. CASE DriftTakeOut(u, asked, scaled)
    BY <1>1, <1>2, <1>3, <1>4, <1>5, <1>6, <1>7, <1>8, <1>9, DriftTakenOut
  <1>10. CASE /\ asked <= 0 /\ Count(u, scaled)
              /\ UNCHANGED <<venue, position, tokens, mode, now>>
    <2>1. PaidOut(u, 0)
      <3>1. tokens \in [Users \cup {"vault"} -> Nat]
        BY <1>1 DEF TypeOK
      <3>2. tokens = [tokens EXCEPT ![u] = @ + 0]
        BY <3>1
      <3> QED
        BY <1>10, <3>2 DEF PaidOut
    <2>2. WindowType'
      BY <1>1, <1>4, <1>10, CountTyped
    <2>3. position' = [position EXCEPT !.units = @ - 0] /\ position.units \in Nat
      BY <1>1, <1>10 DEF TypeOK, PositionType
    <2>4. 0 <= off + Tolerance /\ 0 <= position.units
      BY <1>2, <2>3 DEF Tolerance
    <2>5. StepSound
      BY <1>1, <1>2, <1>6, <1>10, <2>1, <2>2, <2>3, <2>4, WithdrawalSound
    <2>6. \A v \in Users \ {u} : KeepsWorth(v)
      BY <1>1, <1>7, <1>10, OthersKeepWorth
    <2>7. KeepsWorth(u)
      <3>1. tokens'[u] = tokens[u] + 0
        BY <1>1, <1>10 DEF TypeOK
      <3>2. asked = 0
        BY <1>3, <1>10
      <3> QED
        BY <1>1, <1>2, <1>3, <1>5, <1>7, <1>8, <1>10, <3>1, <3>2,
           DriftWithdrawalKeepsWorth
    <2> QED
      BY <2>5, <2>6, <2>7
  <1> QED
    BY <1>5, <1>9, <1>10

\* Rewards in other markets touch neither the books nor the bank's own deposit.
LEMMA RewardSound ==
    ASSUME IInv, AdminDeposit \/ DriftHarvestReward
    PROVE  StepSound /\ \A v \in Users : KeepsWorth(v)
  <1>1. TypeOK /\ position \in PositionType
    BY DEF IInv, TypeOK
  <1>2. UNCHANGED <<venue, market, bank, balances, tokens, mode, window, now>>
    BY DEF AdminDeposit, DriftHarvestReward
  <1>3. \E e \in Nat : position' = [position EXCEPT !.extra = e]
    BY <1>1 DEF AdminDeposit, DriftHarvestReward, PositionType
  <1>4. /\ position' \in PositionType /\ position'.units = position.units
        /\ position.units \in Nat
    BY <1>1, <1>3 DEF PositionType
  <1>5. position'.open = position.open
    BY <1>1, <1>3 DEF PositionType
  <1>6. TypeOK'
    BY <1>1, <1>2, <1>4 DEF TypeOK
  <1>7. Booked' = Booked
    BY <1>2 DEF Booked
  <1>8. IInv'
    BY <1>2, <1>4, <1>5, <1>6, <1>7 DEF IInv, BooksCovered
  <1>9. StepSound
    BY <1>1, <1>2, <1>4, <1>8 DEF StepSound, Cushion, Tolerance, TypeOK, BankType
  <1> QED
    BY <1>1, <1>2, <1>9, OthersKeepWorth DEF TypeOK

\* Every handler of Drift.
LEMMA DriftSound ==
    ASSUME IInv, DriftNext
    PROVE  StepSound /\ \A v \in Users : KeepsWorth(v)
  BY DriftInitSound, DriftDepositSound, DriftWithdrawSound, DriftWithdrawAllSound,
     RewardSound DEF DriftNext

-----------------------------------------------------------------------------
(* Around the handlers *)

\* What changes neither the position nor the books' total.
LEMMA AroundSound ==
    ASSUME IInv, Around
    PROVE  StepSound
  <1>1. TypeOK /\ Booked = bank.shares
    BY DEF IInv, BooksCovered
  <1> DEFINE Goal == /\ TypeOK' /\ Booked' = bank'.shares /\ bank'.shares = bank.shares
                     /\ UNCHANGED <<venue, position>> /\ tokens'["vault"] >= tokens["vault"]
  <1> SUFFICES Goal
    BY DEF IInv, BooksCovered, StepSound, TypeOK, PositionType, BankType, Cushion, Tolerance
  <1>2. tokens["vault"] \in Nat
    BY <1>1 DEF TypeOK
  <1>3. ASSUME NEW u \in Users, NEW v \in Users, NEW n \in Amounts, Seize(u, v, n)
        PROVE  Goal
    <2> DEFINE half == [balances EXCEPT ![v].shares = @ - n]
    <2>1. /\ n \in Nat /\ u # v /\ n <= balances[v].shares /\ BalancesType
          /\ balances' = [balances EXCEPT
                 ![u] = [active |-> TRUE, shares |-> balances[u].shares + n],
                 ![v].shares = @ - n]
          /\ UNCHANGED <<venue, market, position, bank, tokens, mode, window, now>>
      BY <1>1, <1>3, VenueAssumption DEF Seize, TypeOK, BalancesType
    <2>2. /\ BalancesType'
          /\ balances'[u].shares = balances[u].shares + n
          /\ balances'[v].shares = balances[v].shares - n
          /\ \A w \in Users \ {u, v} : balances'[w].shares = balances[w].shares
      <3>1. half \in [Users -> [active : BOOLEAN, shares : Nat]]
        BY <2>1 DEF BalancesType
      <3>2. /\ half[v].shares = balances[v].shares - n
            /\ \A w \in Users \ {v} : half[w] = balances[w]
        BY <2>1 DEF BalancesType
      <3>3. balances' = [half EXCEPT
                ![u] = [active |-> TRUE, shares |-> balances[u].shares + n]]
        BY <2>1 DEF BalancesType
      <3>4. balances[u].shares + n \in Nat
        BY <2>1 DEF BalancesType
      <3> HIDE DEF half
      <3>5. BalancesType'
        BY <3>1, <3>3, <3>4 DEF BalancesType
      <3>6. /\ balances'[u].shares = balances[u].shares + n
            /\ \A w \in Users \ {u} : balances'[w] = half[w]
        BY <3>1, <3>3
      <3> QED
        BY <2>1, <3>2, <3>5, <3>6
    <2>3. /\ \A w \in Users : Shares[w] = balances[w].shares /\ Shares[w] \in Int
          /\ \A w \in Users : Shares'[w] = balances'[w].shares /\ Shares'[w] \in Int
      BY <2>1, <2>2 DEF BalancesType, Shares
    <2>4. SumFunctionOnSet(Shares', Users)
             = SumFunctionOnSet(Shares, Users) - Shares[u] - Shares[v]
                   + Shares'[u] + Shares'[v]
      <3>1. \A w \in Users \ {u, v} : Shares'[w] = Shares[w]
        BY <2>2, <2>3
      <3> QED
        BY <2>1, <2>3, <3>1, SumUpdateTwo, VenueAssumption
    <2>7. /\ Booked = SumFunctionOnSet(Shares, Users)
          /\ Booked' = SumFunctionOnSet(Shares', Users)
      BY DEF Booked, Shares, SumFunction
    <2>8. Booked \in Nat
      BY <2>1, BookedBounds
    <2>9. Booked' = Booked
      BY <2>1, <2>2, <2>3, <2>4, <2>7, <2>8 DEF BalancesType
    <2>10. TypeOK'
      BY <1>1, <2>1, <2>2 DEF TypeOK, BalancesType
    <2> QED
      BY <1>1, <1>2, <2>1, <2>9, <2>10
  <1>4. ASSUME NEW u \in Users, NEW m \in Modes, SetMode(u, m)
        PROVE  Goal
    BY <1>1, <1>2, <1>4 DEF SetMode, TypeOK, Booked
  <1>5. ASSUME NEW s \in States, NEW w \in BOOLEAN, Configure(s, w)
        PROVE  Goal
    <2>1. bank' \in BankType /\ bank'.shares = bank.shares
      BY <1>1, <1>5 DEF Configure, TypeOK, BankType
    <2>2. UNCHANGED <<venue, market, position, balances, tokens, mode, window, now>>
      BY <1>5 DEF Configure
    <2> QED
      BY <1>1, <1>2, <2>1, <2>2 DEF TypeOK, Booked
  <1>6. ASSUME NEW l \in Limits, SetLimit(l)
        PROVE  Goal
    <2>1. WindowType'
      BY <1>1, <1>6 DEF SetLimit, TypeOK, WindowType
    <2>2. UNCHANGED <<venue, market, position, bank, balances, tokens, mode, now>>
      BY <1>6 DEF SetLimit
    <2> QED
      BY <1>1, <1>2, <2>1, <2>2 DEF TypeOK, Booked, WindowType
  <1>7. ASSUME NEW m \in MarketType, Accrue(m)
        PROVE  Goal
    BY <1>1, <1>2, <1>7 DEF Accrue, TypeOK, Booked
  <1>8. ASSUME Gift
        PROVE  Goal
    BY <1>1, <1>2, <1>8 DEF Gift, TypeOK, Booked
  <1>9. ASSUME Tick
        PROVE  Goal
    <2>1. market' \in MarketType
      <3>1. market \in MarketType /\ market' = [market EXCEPT !.fresh = FALSE]
        BY <1>1, <1>9 DEF Tick, TypeOK
      <3> QED
        BY <3>1 DEF MarketType
    <2>3. now' \in Nat
      BY <1>1, <1>9 DEF Tick, TypeOK
    <2>2. UNCHANGED <<venue, position, bank, balances, tokens, mode, window>>
      BY <1>9 DEF Tick
    <2> QED
      BY <1>1, <1>2, <2>1, <2>2, <2>3 DEF TypeOK, Booked
  <1> QED
    BY <1>3, <1>4, <1>5, <1>6, <1>7, <1>8, <1>9 DEF Around

-----------------------------------------------------------------------------
(* Theorems *)

\* At first there is nothing.
LEMMA InitInvariant == Init => IInv
  <1> SUFFICES ASSUME Init PROVE IInv
    OBVIOUS
  <1>1. /\ venue \in Venues /\ market \in MarketType
        /\ position = [open |-> FALSE, units |-> 0, extra |-> 0]
        /\ bank = [state |-> "Operational", weightless |-> FALSE, shares |-> 0]
        /\ balances = [u \in Users |-> [active |-> FALSE, shares |-> 0]]
    BY DEF Init
  <1>2. position \in PositionType /\ bank \in BankType /\ BalancesType
    BY <1>1 DEF PositionType, BankType, States, BalancesType
  <1>3. /\ tokens \in [Users \cup {"vault"} -> Nat] /\ mode \in [Users -> Modes]
        /\ WindowType /\ now \in Nat
    BY VenueAssumption DEF Init, Modes, WindowType
  <1>4. TypeOK
    BY <1>1, <1>2, <1>3 DEF TypeOK, BalancesType, WindowType
  <1>5. Booked = 0
    <2>1. \A u \in Users : Shares[u] = 0
      BY <1>1 DEF Shares
    <2> QED
      BY <2>1, SumZero, VenueAssumption, BookedIsSum
  <1> QED
    BY <1>1, <1>4, <1>5 DEF IInv, BooksCovered

\* Nor does anything go wrong when nothing happens.
LEMMA StutterSound == IInv /\ UNCHANGED vars => StepSound
  <1> SUFFICES ASSUME IInv, UNCHANGED vars PROVE StepSound
    OBVIOUS
  <1>1. IInv'
    BY DEF vars, IInv, TypeOK, BooksCovered, Booked
  <1>2. /\ position.units \in Nat /\ bank.shares \in Nat /\ tokens["vault"] \in Nat
        /\ UNCHANGED <<position, bank, tokens>>
    BY DEF IInv, TypeOK, PositionType, BankType, vars
  <1> QED
    BY <1>1, <1>2 DEF StepSound, Cushion, Tolerance

\* Every step.
LEMMA StepIsSound == IInv /\ [Next]_vars => StepSound
  BY KaminoSound, SolendSound, DriftSound, AroundSound, StutterSound DEF Next

\* The inductive invariant of the three integrations: the books add up, and the position
\* at Kamino or Drift holds more than they say, whatever the handlers and the venue do.
THEOREM VenueInvariant == Spec => []IInv
  <1>1. Init => IInv
    BY InitInvariant
  <1>2. IInv /\ [Next]_vars => IInv'
    BY StepIsSound DEF StepSound
  <1> QED
    BY <1>1, <1>2, PTL DEF Spec

\* Every account can leave: the position covers the books, however deposits, withdrawals,
\* liquidations and interest interleave, for any number of accounts.
THEOREM EveryoneCanLeave == Spec => []BooksCovered
  <1>1. IInv => BooksCovered
    BY DEF IInv
  <1> QED
    BY <1>1, VenueInvariant, PTL

\* A withdrawal of everything from Drift passes the sanity check of drift_withdraw for any
\* number of shares and any rate of the market.
THEOREM DriftWithdrawsAll == Spec => []LeavesAtAnyRate
  <1>1. IInv => LeavesAtAnyRate
    BY AllOfFits DEF IInv, TypeOK, LeavesAtAnyRate
  <1> QED
    BY <1>1, VenueInvariant, PTL

\* No handler takes more out of the position than out of the books, up to the unit that
\* solend_withdraw tolerates.
THEOREM CushionIsKept == Spec => CushionKept
  <1>1. IInv /\ [Next]_vars
           => [position'.units - bank'.shares >= Cushion - Tolerance]_<<position, bank>>
    BY StepIsSound DEF StepSound
  <1> QED
    BY <1>1, VenueInvariant, PTL DEF Spec, CushionKept

\* No handler pays out tokens that were in the liquidity vault before it.
THEOREM VaultKeepsItsOwn == Spec => VaultPassesThrough
  <1>1. IInv /\ [Next]_vars => [tokens'["vault"] >= tokens["vault"]]_tokens
    BY StepIsSound DEF StepSound
  <1> QED
    BY <1>1, VenueInvariant, PTL DEF Spec, VaultPassesThrough

\* No handler of Drift leaves an account worth more than it was, up to less than a unit
\* that the position does not lose, at any rate.
THEOREM NoTokensForFree == Spec => NoFreeTokens
  <1>1. IInv /\ [Next]_vars
           => [\A u \in Users : DriftNext => KeepsWorth(u)]_<<market, tokens, balances>>
    BY DriftSound
  <1> QED
    BY <1>1, VenueInvariant, PTL DEF Spec, NoFreeTokens

-----------------------------------------------------------------------------
(* The day of a deleverage *)

\* What deleverage counts in a step: nothing when the window stays as it is, and else no
\* more than the handler does.
StepSpends ==
    /\ now' = now
    /\ \/ UNCHANGED window /\ Deleveraged = 0
       \/ \E n \in Nat :
              Spend(n) /\ Dollars(n) \in Nat
              /\ Deleveraged \in Nat /\ Deleveraged <= Dollars(n)

\* A step in which no account in deleverage loses shares.
LEMMA NothingSpent ==
    ASSUME UNCHANGED <<window, now>>,
           \A v \in Users : mode[v] = "deleverage" =>
               ~ (balances'[v].shares < balances[v].shares)
    PROVE  StepSpends
  BY DEF StepSpends, Deleveraged

\* Units that the handler counted, or more.
LEMMA UnitsSpent ==
    ASSUME NEW n \in Nat, NEW a \in Nat, NEW b \in Nat, a <= n \/ b <= n
    PROVE  /\ Dollars(n) \in Nat
           /\ Min({a, b}) * Dollars(1) \in Nat
           /\ Min({a, b}) * Dollars(1) <= Dollars(n)
  <1> DEFINE k == Min({a, b})
  <1>1. k \in Nat /\ k <= n
    BY MinOfTwo
  <1> HIDE DEF k
  <1>2. UnitValue \in Nat /\ Dollar \in Nat \ {0}
    BY VenueAssumption
  <1> QED
    BY <1>1, <1>2, WholeParts DEF Dollars, k

\* A withdrawal counts the units it takes from the position, or those it takes from the
\* books.
LEMMA WithdrawalSpends ==
    ASSUME TypeOK, NEW u \in Users, NEW n \in Nat, Count(u, n), now' = now,
           NEW taken \in Nat, position'.units = position.units - taken,
           NEW off \in Nat, bank'.shares = bank.shares - off,
           taken <= n \/ off <= n,
           \A v \in Users \ {u} : balances'[v].shares = balances[v].shares
    PROVE  StepSpends
  <1>1. CASE mode[u] = "deleverage"
    <2>1. /\ position.units - position'.units = taken
          /\ bank.shares - bank'.shares = off
      BY DEF TypeOK, PositionType, BankType
    <2>2. Deleveraged \in {0, Min({taken, off}) * Dollars(1)}
      BY <2>1 DEF Deleveraged
    <2>3. /\ Dollars(n) \in Nat
          /\ Min({taken, off}) * Dollars(1) \in Nat
          /\ Min({taken, off}) * Dollars(1) <= Dollars(n)
      BY UnitsSpent
    <2>4. Deleveraged \in Nat /\ Deleveraged <= Dollars(n)
      BY <2>2, <2>3
    <2>5. Spend(n)
      BY <1>1 DEF Count
    <2> QED
      BY <2>3, <2>4, <2>5 DEF StepSpends
  <1>2. CASE mode[u] # "deleverage"
    <2>1. UNCHANGED window
      BY <1>2 DEF Count
    <2>2. ASSUME NEW v \in Users, mode[v] = "deleverage"
          PROVE  ~ (balances'[v].shares < balances[v].shares)
      <3>1. balances'[v].shares = balances[v].shares /\ balances[v].shares \in Nat
        BY <1>2, <2>2 DEF TypeOK
      <3> QED
        BY <3>1
    <2> QED
      BY <2>1, <2>2, NothingSpent
  <1> QED
    BY <1>1, <1>2

\* A booking takes no shares from anybody.
LEMMA BookingSpendsNothing ==
    ASSUME TypeOK, NEW u \in Users, NEW n \in Nat, Book(u, n), UNCHANGED <<window, now>>
    PROVE  StepSpends
  <1>1. ASSUME NEW v \in Users PROVE ~ (balances'[v].shares < balances[v].shares)
    BY DEF Book, TypeOK
  <1> QED
    BY <1>1, NothingSpent

\* Neither does what leaves the balances alone.
LEMMA SameBalancesSpendNothing ==
    ASSUME TypeOK, UNCHANGED <<balances, window, now>>
    PROVE  StepSpends
  <1>1. ASSUME NEW v \in Users PROVE ~ (balances'[v].shares < balances[v].shares)
    BY DEF TypeOK
  <1> QED
    BY <1>1, NothingSpent

\* What unbooking takes off the books, for the other accounts and the bank.
LEMMA Unbooked ==
    ASSUME TypeOK, NEW u \in Users, NEW n \in Nat, Unbook(u, n)
    PROVE  /\ bank'.shares = bank.shares - n
           /\ \A v \in Users \ {u} : balances'[v].shares = balances[v].shares
  BY DEF Unbook, TypeOK, BankType

\* The same when all of an account's are unbooked.
LEMMA UnbookedAll ==
    ASSUME TypeOK, NEW u \in Users, UnbookAll(u)
    PROVE  /\ balances[u].shares \in Nat
           /\ bank'.shares = bank.shares - balances[u].shares
           /\ \A v \in Users \ {u} : balances'[v].shares = balances[v].shares
  BY DEF UnbookAll, TypeOK, BankType

\* What a withdrawal takes out of the position.
LEMMA UnitsReleased ==
    ASSUME TypeOK, NEW n \in Nat,
           \/ position' = [position EXCEPT !.units = @ - n]
           \/ position' = [position EXCEPT !.units = @ - n, !.open = n < position.units]
    PROVE  position'.units = position.units - n
  BY DEF TypeOK, PositionType

\* The handlers of Kamino count what they unbook, which is what leaves the position.
LEMMA KaminoSpends ==
    ASSUME TypeOK, KaminoNext
    PROVE  StepSpends
  <1>1. market \in MarketType /\ Amounts \subseteq Nat
    BY VenueAssumption DEF TypeOK
  <1>2. ASSUME NEW u \in Users, NEW n \in Amounts, KaminoInitObligation(u, n)
        PROVE  StepSpends
    BY <1>2, SameBalancesSpendNothing DEF KaminoInitObligation
  <1>3. ASSUME NEW u \in Users, NEW n \in Amounts, KaminoDeposit(u, n)
        PROVE  StepSpends
    <2>1. PICK minted \in Answers(ToUnits(market, n)) : Book(u, minted)
      BY <1>3 DEF KaminoDeposit
    <2>2. minted \in Nat
      BY <1>1, UnitsOf, AnswerType
    <2> QED
      BY <1>3, <2>1, <2>2, BookingSpendsNothing DEF KaminoDeposit
  <1>4. ASSUME NEW u \in Users, NEW n \in Nat, KaminoTakeOut(u, n),
               bank'.shares = bank.shares - n,
               \A v \in Users \ {u} : balances'[v].shares = balances[v].shares
        PROVE  StepSpends
    <2>1. position'.units = position.units - n
      BY <1>4, UnitsReleased DEF KaminoTakeOut, KaminoRelease
    <2> QED
      BY <1>4, <2>1, WithdrawalSpends DEF KaminoTakeOut
  <1>5. ASSUME NEW u \in Users, NEW n \in Amounts, KaminoWithdraw(u, n)
        PROVE  StepSpends
    <2>1. n \in Nat /\ Unbook(u, n) /\ KaminoTakeOut(u, n)
      BY <1>1, <1>5 DEF KaminoWithdraw
    <2> QED
      BY <1>4, <2>1, Unbooked
  <1>6. ASSUME NEW u \in Users, KaminoWithdrawAll(u)
        PROVE  StepSpends
    BY <1>4, <1>6, UnbookedAll DEF KaminoWithdrawAll
  <1> QED
    BY <1>2, <1>3, <1>5, <1>6 DEF KaminoNext

\* Solend may take a unit more or less than it unbooked: what was counted is no less than
\* the lesser of the two.
LEMMA SolendSpends ==
    ASSUME TypeOK, SolendNext
    PROVE  StepSpends
  <1>1. market \in MarketType /\ Amounts \subseteq Nat
    BY VenueAssumption DEF TypeOK
  <1>2. ASSUME NEW u \in Users, NEW n \in Amounts, SolendInitObligation(u, n)
        PROVE  StepSpends
    BY <1>2, SameBalancesSpendNothing DEF SolendInitObligation
  <1>3. ASSUME NEW u \in Users, NEW n \in Amounts, SolendDeposit(u, n)
        PROVE  StepSpends
    <2>1. PICK minted \in Answers(ToUnits(market, n)) : Book(u, minted)
      BY <1>3 DEF SolendDeposit
    <2>2. minted \in Nat
      BY <1>1, UnitsOf, AnswerType
    <2> QED
      BY <1>3, <2>1, <2>2, BookingSpendsNothing DEF SolendDeposit
  <1>4. ASSUME NEW u \in Users, NEW n \in Nat, SolendTakeOut(u, n),
               bank'.shares = bank.shares - n,
               \A v \in Users \ {u} : balances'[v].shares = balances[v].shares
        PROVE  StepSpends
    <2>1. PICK taken \in Answers(n), received \in Answers(ToTokens(market, n)) :
             SolendRelease(u, taken, received)
      BY <1>4 DEF SolendTakeOut
    <2>2. taken \in Nat
      BY AnswerType
    <2>3. position'.units = position.units - taken
      BY <2>1, <2>2, UnitsReleased DEF SolendRelease
    <2> QED
      BY <1>4, <2>2, <2>3, WithdrawalSpends DEF SolendTakeOut
  <1>5. ASSUME NEW u \in Users, NEW n \in Amounts, SolendWithdraw(u, n)
        PROVE  StepSpends
    <2>1. n \in Nat /\ Unbook(u, n) /\ SolendTakeOut(u, n)
      BY <1>1, <1>5 DEF SolendWithdraw
    <2> QED
      BY <1>4, <2>1, Unbooked
  <1>6. ASSUME NEW u \in Users, SolendWithdrawAll(u)
        PROVE  StepSpends
    BY <1>4, <1>6, UnbookedAll DEF SolendWithdrawAll
  <1> QED
    BY <1>2, <1>3, <1>5, <1>6 DEF SolendNext

\* Those of Drift count what Drift takes; a withdrawal of all may unbook more.
LEMMA DriftSpends ==
    ASSUME TypeOK, DriftNext
    PROVE  StepSpends
  <1>1. Accrued \subseteq MarketType /\ Amounts \subseteq Nat
    BY VenueAssumption, AccruedType
  <1>2. ASSUME NEW u \in Users, NEW n \in Amounts, DriftInitUser(u, n)
        PROVE  StepSpends
    BY <1>2, SameBalancesSpendNothing DEF DriftInitUser
  <1>3. ASSUME NEW u \in Users, NEW n \in Amounts, DriftDeposit(u, n)
        PROVE  StepSpends
    <2>1. PICK scaled \in Answers(Increment(market', n)) :
             scaled = Increment(market', n) /\ Book(u, scaled)
      BY <1>3 DEF DriftDeposit
    <2>2. market' \in MarketType /\ n \in Nat
      BY <1>1, <1>3 DEF DriftDeposit
    <2>3. scaled \in Nat
      BY <2>1, <2>2, UnitsOf DEF Increment
    <2> QED
      BY <1>3, <2>1, <2>3, BookingSpendsNothing DEF DriftDeposit
  <1>4. ASSUME NEW u \in Users, NEW x \in Nat, NEW n \in Nat, NEW off \in Nat,
               DriftTakeOut(u, x, n), bank'.shares = bank.shares - off,
               \A v \in Users \ {u} : balances'[v].shares = balances[v].shares
        PROVE  StepSpends
    <2>1. position'.units = position.units - n
      BY <1>4, UnitsReleased DEF DriftTakeOut, DriftRelease
    <2> QED
      BY <1>4, <2>1, WithdrawalSpends DEF DriftTakeOut
  <1>5. ASSUME NEW u \in Users, NEW n \in Amounts, DriftWithdraw(u, n)
        PROVE  StepSpends
    <2> DEFINE asked == PartOf(market', balances[u].shares, n)
               scaled == Decrement(market', asked)
    <2>1. market' \in MarketType /\ n \in Nat /\ balances[u].shares \in Nat
      BY <1>1, <1>5 DEF DriftWithdraw, TypeOK
    <2>2. asked \in Nat
      BY <2>1, TokensOf DEF PartOf
    <2>3. scaled \in Nat
      BY <2>1, <2>2, DecrementOf
    <2>4. Unbook(u, scaled) /\ DriftTakeOut(u, asked, scaled)
      BY <1>5 DEF DriftWithdraw
    <2> HIDE DEF asked, scaled
    <2> QED
      BY <1>4, <2>2, <2>3, <2>4, Unbooked
  <1>6. ASSUME NEW u \in Users, DriftWithdrawAll(u)
        PROVE  StepSpends
    <2> DEFINE off == balances[u].shares
               asked == AllOf(market', off)
               scaled == Decrement(market', asked)
    <2>1. market' \in MarketType /\ off \in Nat
      BY <1>1, <1>6 DEF DriftWithdrawAll, TypeOK
    <2>2. asked \in Nat
      BY <2>1, AllOfFits
    <2>3. scaled \in Nat
      BY <2>1, <2>2, DecrementOf
    <2>4. /\ UnbookAll(u)
          /\ \/ DriftTakeOut(u, asked, scaled)
             \/ Count(u, scaled) /\ UNCHANGED <<venue, position, tokens, mode, now>>
      BY <1>6 DEF DriftWithdrawAll
    <2>5. /\ bank'.shares = bank.shares - off
          /\ \A v \in Users \ {u} : balances'[v].shares = balances[v].shares
      BY <2>4, UnbookedAll
    <2> HIDE DEF asked, scaled, off
    <2>6. CASE DriftTakeOut(u, asked, scaled)
      BY <1>4, <2>1, <2>2, <2>3, <2>5, <2>6
    <2>7. CASE Count(u, scaled) /\ UNCHANGED <<venue, position, tokens, mode, now>>
      <3>1. position'.units = position.units - 0
        BY <2>7 DEF TypeOK, PositionType
      <3> QED
        BY <2>1, <2>3, <2>5, <2>7, <3>1, WithdrawalSpends
    <2> QED
      BY <2>4, <2>6, <2>7
  <1>7. ASSUME AdminDeposit \/ DriftHarvestReward
        PROVE  StepSpends
    BY <1>7, SameBalancesSpendNothing DEF AdminDeposit, DriftHarvestReward
  <1> QED
    BY <1>2, <1>3, <1>5, <1>6, <1>7 DEF DriftNext

\* No liquidation touches an account in deleverage, and of all that goes on around the
\* handlers only the admin moves the window.
LEMMA AroundSpends ==
    ASSUME TypeOK, Around
    PROVE  \/ StepSpends
           \/ /\ Deleveraged = 0 /\ now' = now
              /\ \E l \in Limits : window' = [window EXCEPT !.limit = l, !.since = now]
           \/ Deleveraged = 0 /\ Tick
  <1>1. ASSUME NEW u \in Users, NEW v \in Users, NEW n \in Amounts, Seize(u, v, n)
        PROVE  StepSpends
    <2>1. ASSUME NEW w \in Users, mode[w] = "deleverage"
          PROVE  ~ (balances'[w].shares < balances[w].shares)
      <3>1. w # u /\ w # v
        BY <1>1, <2>1 DEF Seize
      <3>2. balances'[w] = balances[w] /\ balances[w].shares \in Nat
        BY <1>1, <3>1 DEF Seize, TypeOK
      <3> QED
        BY <3>2
    <2> QED
      BY <1>1, <2>1, NothingSpent DEF Seize
  <1>2. ASSUME NEW u \in Users, NEW m \in Modes, SetMode(u, m)
        PROVE  StepSpends
    BY <1>2, SameBalancesSpendNothing DEF SetMode
  <1>3. ASSUME NEW s \in States, NEW w \in BOOLEAN, Configure(s, w)
        PROVE  StepSpends
    BY <1>3, SameBalancesSpendNothing DEF Configure
  <1>4. ASSUME balances' = balances
        PROVE  Deleveraged = 0
    <2>1. ASSUME NEW v \in Users PROVE ~ (balances'[v].shares < balances[v].shares)
      BY <1>4 DEF TypeOK
    <2> QED
      BY <2>1 DEF Deleveraged
  <1>5. ASSUME NEW l \in Limits, SetLimit(l)
        PROVE  /\ Deleveraged = 0 /\ now' = now
               /\ window' = [window EXCEPT !.limit = l, !.since = now]
    BY <1>4, <1>5 DEF SetLimit
  <1>6. ASSUME NEW m \in MarketType, Accrue(m)
        PROVE  StepSpends
    BY <1>6, SameBalancesSpendNothing DEF Accrue
  <1>7. CASE Gift
    BY <1>7, SameBalancesSpendNothing DEF Gift
  <1>8. CASE Tick
    BY <1>4, <1>8 DEF Tick
  <1> QED
    BY <1>1, <1>2, <1>3, <1>5, <1>6, <1>7, <1>8 DEF Around

\* What a step adds to the history, and what becomes of the window: it stays, it takes in
\* at least as much, before or after starting over, or its limit changes.
LEMMA StepRemembers ==
    ASSUME TypeOK, WindowInv, Next
    PROVE  /\ Deleveraged \in Nat
           /\ window.limit = 0 => Deleveraged = 0
           /\ \/ Deleveraged = 0 /\ now' \in {now, now + 1} /\ now' \in Times
                 /\ window'.withdrawn = window.withdrawn
                 /\ window'.since \in {window.since, now}
              \/ /\ now' = now
                 /\ window'.limit = window.limit
                 /\ window.limit # 0 => window'.withdrawn <= window.limit
                 /\ \/ /\ now - window.since < Day
                       /\ window'.since = window.since
                       /\ window'.withdrawn >= window.withdrawn + Deleveraged
                    \/ /\ now - window.since >= Day
                       /\ window'.since = now
                       /\ window'.withdrawn >= Deleveraged
  <1>1. WindowType /\ now \in Nat
    BY DEF TypeOK, WindowType
  <1>2. window.limit = 0 => Deleveraged = 0
    BY DEF Deleveraged
  <1>3. now \in Times
    BY DEF WindowInv
  <1>4. ASSUME StepSpends
        PROVE  /\ Deleveraged \in Nat
               /\ \/ Deleveraged = 0 /\ now' = now /\ window' = window
                  \/ /\ now' = now
                     /\ window'.limit = window.limit
                     /\ window.limit # 0 => window'.withdrawn <= window.limit
                     /\ \/ /\ now - window.since < Day
                           /\ window'.since = window.since
                           /\ window'.withdrawn >= window.withdrawn + Deleveraged
                        \/ /\ now - window.since >= Day
                           /\ window'.since = now
                           /\ window'.withdrawn >= Deleveraged
    <2>1. CASE UNCHANGED window /\ Deleveraged = 0
      BY <1>4, <2>1 DEF StepSpends
    <2>2. CASE \E n \in Nat :
                  Spend(n) /\ Dollars(n) \in Nat
                  /\ Deleveraged \in Nat /\ Deleveraged <= Dollars(n)
      <3>1. PICK n \in Nat : /\ Spend(n) /\ Dollars(n) \in Nat
                             /\ Deleveraged \in Nat /\ Deleveraged <= Dollars(n)
        BY <2>2
      <3> DEFINE x == Dollars(n)
                 y == Deleveraged
      <3>2. x \in Nat /\ y \in Nat /\ y <= x
        BY <3>1
      <3>3. /\ window' = [Reset EXCEPT !.withdrawn = @ + x]
            /\ window'.limit # 0 => window'.withdrawn <= window'.limit
        BY <3>1 DEF Spend
      <3> HIDE DEF x, y
      <3>4. now' = now
        BY <1>4 DEF StepSpends
      <3>5. CASE now - window.since >= Day
        <4>1. Reset = [window EXCEPT !.withdrawn = 0, !.since = now]
          BY <3>5 DEF Reset
        <4>2. window'.limit = window.limit /\ window'.since = now /\ window'.withdrawn = x
          BY <1>1, <3>2, <3>3, <4>1 DEF WindowType
        <4>3. window'.withdrawn >= y
          BY <3>2, <4>2
        <4> QED
          BY <3>2, <3>3, <3>4, <3>5, <4>2, <4>3 DEF y
      <3>6. CASE ~ (now - window.since >= Day)
        <4>1. Reset = window
          BY <3>6 DEF Reset
        <4>2. /\ window'.limit = window.limit /\ window'.since = window.since
              /\ window'.withdrawn = window.withdrawn + x
          BY <1>1, <3>2, <3>3, <4>1 DEF WindowType
        <4>3. window'.withdrawn >= window.withdrawn + y
          BY <1>1, <3>2, <4>2 DEF WindowType
        <4>4. now - window.since < Day
          BY <1>1, <3>6, VenueAssumption DEF WindowType
        <4> QED
          BY <3>2, <3>3, <3>4, <4>2, <4>3, <4>4 DEF y
      <3> QED
        BY <3>5, <3>6
    <2> QED
      BY <1>4, <2>1, <2>2 DEF StepSpends
  <1>5. CASE StepSpends
    <2>1. CASE Deleveraged = 0 /\ now' = now /\ window' = window
      BY <1>2, <1>3, <2>1
    <2>2. CASE ~ (Deleveraged = 0 /\ now' = now /\ window' = window)
      BY <1>2, <1>4, <1>5, <2>2
    <2> QED
      BY <2>1, <2>2
  <1>6. CASE /\ Deleveraged = 0 /\ now' = now
             /\ \E l \in Limits : window' = [window EXCEPT !.limit = l, !.since = now]
    BY <1>1, <1>2, <1>3, <1>6 DEF WindowType
  <1>7. CASE Deleveraged = 0 /\ Tick
    BY <1>1, <1>2, <1>3, <1>7, VenueAssumption DEF Tick, WindowType, Times
  <1> QED
    BY <1>5, <1>6, <1>7, KaminoSpends, SolendSpends, DriftSpends, AroundSpends DEF Next

\* The times of a run are finitely many.
LEMMA TimesFinite ==
    /\ Times \subseteq Nat /\ IsFiniteSet(Times)
    /\ \A S \in SUBSET Times : IsFiniteSet(S)
    /\ \A t : DayFrom(t) \subseteq Times /\ DayBefore(t) \subseteq Times
                 /\ Since(t) \subseteq Times
  <1>1. Times \subseteq Nat /\ IsFiniteSet(Times)
    BY VenueAssumption, FS_Interval DEF Times
  <1>2. \A S \in SUBSET Times : IsFiniteSet(S)
    BY <1>1, FS_Subset
  <1> QED
    BY <1>1, <1>2 DEF DayFrom, DayBefore, Since

\* The greatest limit is one, and no limit is greater.
LEMMA MaxLimit ==
    /\ Max(Limits) \in Nat
    /\ \A l \in Limits : l \in Nat /\ l <= Max(Limits)
  <1>1. Limits \in SUBSET Int /\ IsFiniteSet(Limits) /\ Limits # {}
    BY VenueAssumption, LimitsAssumption
  <1> QED
    BY <1>1, MaxExists, VenueAssumption

\* A sum of the history is a natural, and no less than that of a part.
LEMMA WithdrawnType ==
    ASSUME spent \in [Times -> Nat], NEW S \in SUBSET Times
    PROVE  /\ Withdrawn(S) \in Nat
           /\ \A P \in SUBSET S : Withdrawn(P) \in Nat /\ Withdrawn(P) <= Withdrawn(S)
  <1>1. \A s \in S : spent[s] \in Nat
    OBVIOUS
  <1>2. Withdrawn(S) \in Nat
    BY <1>1, TimesFinite, SumNat DEF Withdrawn
  <1>3. ASSUME NEW P \in SUBSET S
        PROVE  Withdrawn(P) \in Nat /\ Withdrawn(P) <= Withdrawn(S)
    <2>1. \A s \in P : spent[s] \in Nat
      BY <1>1
    <2>2. Withdrawn(P) \in Nat
      BY <2>1, TimesFinite, SumNat DEF Withdrawn
    <2>3. Withdrawn(P) <= Withdrawn(S)
      BY <1>1, TimesFinite, SumSubset DEF Withdrawn
    <2> QED
      BY <2>2, <2>3
  <1> QED
    BY <1>2, <1>3

\* Two sets that cover a third sum to no less.
LEMMA SumOfBoth ==
    ASSUME NEW f \in [Times -> Nat], NEW S \in SUBSET Times,
           NEW P \in SUBSET Times, NEW Q \in SUBSET Times, S \subseteq P \cup Q
    PROVE  SumFunctionOnSet(f, S) <= SumFunctionOnSet(f, P) + SumFunctionOnSet(f, Q)
  <1> DEFINE A == S \cap P
             B == S \ A
  <1>1. /\ IsFiniteSet(S) /\ \A s \in S : f[s] \in Int
        /\ IsFiniteSet(P) /\ \A s \in P : f[s] \in Nat
        /\ IsFiniteSet(Q) /\ \A s \in Q : f[s] \in Nat
        /\ IsFiniteSet(A) /\ \A s \in A : f[s] \in Nat
        /\ IsFiniteSet(B) /\ \A s \in B : f[s] \in Nat
    BY TimesFinite
  <1>2. A \in SUBSET S /\ A \in SUBSET P /\ B \in SUBSET Q
    OBVIOUS
  <1>3. SumFunctionOnSet(f, S) = SumFunctionOnSet(f, A) + SumFunctionOnSet(f, B)
    BY <1>1, <1>2, SumSplit
  <1> HIDE DEF A, B
  <1>4. SumFunctionOnSet(f, A) \in Nat /\ SumFunctionOnSet(f, A) <= SumFunctionOnSet(f, P)
    BY <1>1, <1>2, SumNat, SumSubset
  <1>5. SumFunctionOnSet(f, B) \in Nat /\ SumFunctionOnSet(f, B) <= SumFunctionOnSet(f, Q)
    BY <1>1, <1>2, SumNat, SumSubset
  <1>6. SumFunctionOnSet(f, P) \in Nat /\ SumFunctionOnSet(f, Q) \in Nat
    BY <1>1, SumNat
  <1> QED
    BY <1>3, <1>4, <1>5, <1>6

\* A set whose withdrawals all lie in another.
LEMMA WithdrawnElsewhere ==
    ASSUME spent \in [Times -> Nat], NEW S \in SUBSET Times, NEW P \in SUBSET Times,
           \A s \in S : s \notin P => spent[s] = 0
    PROVE  Withdrawn(S) <= Withdrawn(P)
  <1>1. IsFiniteSet(S) /\ \A s \in S : spent[s] \in Int
    BY TimesFinite
  <1>2. S \cap P \in SUBSET S
    OBVIOUS
  <1>3. Withdrawn(S) = Withdrawn(S \cap P) + Withdrawn(S \ (S \cap P))
    BY <1>1, <1>2, SumSplit DEF Withdrawn
  <1>4. S \cap P \in SUBSET P /\ S \ (S \cap P) \in SUBSET Times
    OBVIOUS
  <1>5. Withdrawn(S \ (S \cap P)) = 0
    <2>1. IsFiniteSet(S \ (S \cap P))
      BY <1>4, TimesFinite
    <2>2. \A s \in S \ (S \cap P) : spent[s] = 0
      OBVIOUS
    <2> QED
      BY <2>1, <2>2, SumZero DEF Withdrawn
  <1>6. /\ Withdrawn(S \cap P) \in Nat /\ Withdrawn(S \cap P) <= Withdrawn(P)
        /\ Withdrawn(P) \in Nat
    BY <1>4, WithdrawnType
  <1> QED
    BY <1>3, <1>5, <1>6

\* What a step adds to the sums.
LEMMA WithdrawnFollows ==
    ASSUME WindowInv, Remember, NEW d \in Nat, Deleveraged = d
    PROVE  /\ spent' \in [Times -> Nat]
           /\ spent'[now] = spent[now] + d
           /\ \A s \in Times \ {now} : spent'[s] = spent[s]
           /\ \A S \in SUBSET Times :
                /\ Withdrawn(S) \in Nat
                /\ now \in S => Withdrawn(S)' = Withdrawn(S) + d
                /\ now \notin S => Withdrawn(S)' = Withdrawn(S)
  <1>1. now \in Times /\ spent \in [Times -> Nat]
    BY DEF WindowInv
  <1>2. spent' = [spent EXCEPT ![now] = spent[now] + d]
    BY DEF Remember
  <1>3. /\ spent' \in [Times -> Nat]
        /\ spent'[now] = spent[now] + d
        /\ \A s \in Times \ {now} : spent'[s] = spent[s]
    BY <1>1, <1>2
  <1>4. ASSUME NEW S \in SUBSET Times
        PROVE  /\ Withdrawn(S) \in Nat
               /\ now \in S => Withdrawn(S)' = Withdrawn(S) + d
               /\ now \notin S => Withdrawn(S)' = Withdrawn(S)
    <2>1. /\ IsFiniteSet(S)
          /\ \A s \in S : spent[s] \in Int /\ spent'[s] \in Int
      BY <1>1, <1>3, TimesFinite
    <2>2. Withdrawn(S) \in Nat
      BY <1>1, WithdrawnType
    <2>3. CASE now \in S
      <3>1. \A s \in S \ {now} : spent'[s] = spent[s]
        BY <1>3
      <3>2. SumFunctionOnSet(spent', S)
               = SumFunctionOnSet(spent, S) - spent[now] + spent'[now]
        BY <2>1, <2>3, <3>1, SumUpdate
      <3>3. spent[now] \in Nat
        BY <1>1
      <3> QED
        BY <1>3, <2>2, <2>3, <3>2, <3>3 DEF Withdrawn
    <2>4. CASE now \notin S
      <3>1. \A s \in S : spent[s] \in Int /\ spent'[s] = spent[s]
        BY <1>3, <2>1, <2>4
      <3>2. SumFunctionOnSet(spent, S) = SumFunctionOnSet(spent', S)
        BY <2>1, <3>1, SumCongruent
      <3> QED
        BY <2>2, <2>4, <3>2 DEF Withdrawn
    <2> QED
      BY <2>3, <2>4
  <1> QED
    BY <1>3, <1>4

\* A day that reaches to now saw what the day before z did and what came since.
LEMMA DayIsCovered ==
    ASSUME now \in Nat, NEW z \in 0 .. now, NEW t \in Times, now \in DayFrom(t)
    PROVE  DayFrom(t) \subseteq DayBefore(z) \cup Since(z)
  <1>1. ASSUME NEW s \in DayFrom(t)
        PROVE  s \in DayBefore(z) \cup Since(z)
    <2>1. s \in Times /\ s \in Nat /\ t \in Nat /\ z \in Nat /\ z <= now /\ Day \in Nat
      BY VenueAssumption, TimesFinite DEF DayFrom
    <2>2. t <= s /\ now < t + Day
      BY <1>1 DEF DayFrom
    <2>3. s >= z \/ (s < z /\ z < s + Day)
      BY <2>1, <2>2
    <2> QED
      BY <2>1, <2>3 DEF DayBefore, Since
  <1> QED
    BY <1>1

\* What was withdrawn in the day before now, if the window's day is over, came since z.
LEMMA DayIsOver ==
    ASSUME TypeOK, WindowInv, NEW z \in 0 .. now, z <= window.since,
           now - window.since >= Day
    PROVE  /\ \A s \in DayBefore(now) : s \notin Since(z) => spent[s] = 0
           /\ \A s \in Since(now) : spent[s] = 0
  <1>1. /\ now \in Nat /\ window.since \in Nat /\ Day \in Nat \ {0}
        /\ Times \subseteq Nat
    BY VenueAssumption, TimesFinite DEF TypeOK
  <1>2. \A s \in Times : spent[s] \in Nat /\ (spent[s] > 0 => s < window.since + Day)
    BY DEF WindowInv
  <1>3. ASSUME NEW s \in DayBefore(now), s \notin Since(z)
        PROVE  FALSE
    <2>1. s \in Nat /\ s \in Times /\ now < s + Day /\ s < z
      BY <1>1, <1>3 DEF DayBefore, Since
    <2> QED
      BY <1>1, <2>1
  <1>4. ASSUME NEW s \in Since(now)
        PROVE  spent[s] = 0
    <2>1. s \in Nat /\ s \in Times /\ s >= now
      BY <1>1 DEF Since
    <2>2. ~ (s < window.since + Day)
      BY <1>1, <2>1
    <2> QED
      BY <1>2, <2>1, <2>2
  <1> QED
    BY <1>3, <1>4

\* From where the window counts after a step: from where it did, unless it starts over.
LEMMA WindowCounts ==
    ASSUME TypeOK, TypeOK', WindowInv, Next, Remember
    PROVE  \E z \in 0 .. now : CountsFrom(z)'
  <1> DEFINE d == Deleveraged
             M == Max(Limits)
  <1>1. PICK z \in 0 .. now : CountsFrom(z)
    BY DEF WindowInv
  <1>2. d \in Nat /\ M \in Nat
    BY StepRemembers, MaxLimit
  <1>3. \A S \in SUBSET Times :
            /\ Withdrawn(S) \in Nat
            /\ now \in S => Withdrawn(S)' = Withdrawn(S) + d
            /\ now \notin S => Withdrawn(S)' = Withdrawn(S)
    BY <1>2, WithdrawnFollows
  <1>4. /\ window.withdrawn \in Nat /\ window.since \in Nat /\ window.since <= now
        /\ window'.withdrawn \in Nat
        /\ now \in Nat /\ now \in Times /\ z \in Nat /\ z <= now
        /\ window.limit # 0 => window.limit \in Nat /\ window.limit <= M
    BY MaxLimit DEF TypeOK, WindowInv
  <1>5. /\ z <= window.since
        /\ Withdrawn(Since(z)) <= window.withdrawn
        /\ Withdrawn(Since(z)) <= M
        /\ Withdrawn(DayBefore(z)) <= M
    BY <1>1 DEF CountsFrom
  <1>6. /\ now \in Since(z) /\ now \notin DayBefore(z)
        /\ now \in Since(now) /\ now \notin DayBefore(now)
        /\ \A t : DayBefore(t) \in SUBSET Times /\ Since(t) \in SUBSET Times
    BY <1>4, TimesFinite DEF Since, DayBefore
  <1>7. window.limit = 0 => d = 0
    BY StepRemembers DEF d
  <1>8. \A y \in Nat :
           /\ Withdrawn(Since(y)) \in Nat /\ Withdrawn(DayBefore(y)) \in Nat
           /\ now \in Since(y) => Withdrawn(Since(y))' = Withdrawn(Since(y)) + d
           /\ now \notin DayBefore(y) => Withdrawn(DayBefore(y))' = Withdrawn(DayBefore(y))
           /\ d = 0 => /\ Withdrawn(Since(y))' = Withdrawn(Since(y))
                       /\ Withdrawn(DayBefore(y))' = Withdrawn(DayBefore(y))
    <2>1. \A S \in SUBSET Times : d = 0 => Withdrawn(S)' = Withdrawn(S)
      BY <1>3
    <2> QED
      BY <1>3, <1>6, <2>1
  <1> HIDE DEF d, M
  <1>9. CASE d = 0 /\ window'.withdrawn = window.withdrawn
             /\ window'.since \in {window.since, now}
    <2>1. z <= window'.since
      BY <1>4, <1>5, <1>9
    <2>2. /\ Withdrawn(Since(z))' = Withdrawn(Since(z))
          /\ Withdrawn(DayBefore(z))' = Withdrawn(DayBefore(z))
      BY <1>4, <1>8, <1>9
    <2>3. CountsFrom(z)'
      BY <1>5, <1>9, <2>1, <2>2 DEF CountsFrom, M
    <2> QED
      BY <2>3
  <1>10. CASE /\ window.limit # 0 => window'.withdrawn <= window.limit
              /\ now - window.since < Day
              /\ window'.since = window.since
              /\ window'.withdrawn >= window.withdrawn + d
    <2>1. /\ Withdrawn(Since(z))' = Withdrawn(Since(z)) + d
          /\ Withdrawn(DayBefore(z))' = Withdrawn(DayBefore(z))
          /\ Withdrawn(Since(z)) \in Nat
      BY <1>4, <1>6, <1>8
    <2>2. Withdrawn(Since(z))' <= window'.withdrawn
      BY <1>2, <1>4, <1>5, <1>10, <2>1
    <2>3. Withdrawn(Since(z))' <= M
      <3>1. CASE d = 0
        BY <1>5, <2>1, <3>1
      <3>2. CASE d # 0
        BY <1>2, <1>4, <1>7, <1>10, <2>1, <2>2, <3>2
      <3> QED
        BY <3>1, <3>2
    <2>4. CountsFrom(z)'
      BY <1>5, <1>10, <2>1, <2>2, <2>3 DEF CountsFrom, M
    <2> QED
      BY <2>4
  <1>11. CASE /\ window.limit # 0 => window'.withdrawn <= window.limit
              /\ now - window.since >= Day
              /\ window'.since = now
              /\ window'.withdrawn >= d
    <2>1. PICK y \in 0 .. now : y = now
      BY <1>4
    <2>2. /\ Withdrawn(Since(y))' = Withdrawn(Since(y)) + d
          /\ Withdrawn(DayBefore(y))' = Withdrawn(DayBefore(y))
          /\ Withdrawn(DayBefore(y)) \in Nat
      BY <1>4, <1>6, <1>8, <2>1
    <2>3. /\ \A s \in DayBefore(y) : s \notin Since(z) => spent[s] = 0
          /\ \A s \in Since(y) : spent[s] = 0
      BY <1>4, <1>5, <1>11, <2>1, DayIsOver
    <2>4. spent \in [Times -> Nat]
      BY DEF WindowInv
    <2>5. Withdrawn(Since(y)) = 0
      <3>1. IsFiniteSet(Since(y))
        BY <1>6, TimesFinite
      <3> QED
        BY <2>3, <3>1, SumZero DEF Withdrawn
    <2>6. Withdrawn(DayBefore(y)) <= Withdrawn(Since(z))
      BY <1>6, <2>3, <2>4, WithdrawnElsewhere
    <2>7. Withdrawn(DayBefore(y))' <= M
      BY <1>2, <1>4, <1>5, <1>8, <2>2, <2>6
    <2>8. Withdrawn(Since(y))' = d
      BY <1>2, <2>2, <2>5
    <2>9. Withdrawn(Since(y))' <= M
      <3>1. CASE d = 0
        BY <1>2, <2>8, <3>1
      <3>2. CASE d # 0
        BY <1>2, <1>4, <1>7, <1>11, <2>8, <3>2
      <3> QED
        BY <3>1, <3>2
    <2>10. CountsFrom(y)'
      BY <1>4, <1>11, <2>1, <2>7, <2>8, <2>9 DEF CountsFrom, M
    <2> QED
      BY <2>10
  <1> QED
    BY <1>9, <1>10, <1>11, StepRemembers DEF d


\* One step of the day: the window keeps counting, and a day that reaches into the present
\* saw no more than what came before the window and what it counts.
LEMMA WindowStep ==
    ASSUME TypeOK, TypeOK', WindowInv, Next, Remember
    PROVE  WindowInv'
  <1> DEFINE d == Deleveraged
             M == Max(Limits)
  <1>1. PICK z \in 0 .. now : CountsFrom(z)'
    BY WindowCounts
  <1>2. d \in Nat /\ M \in Nat
    BY StepRemembers, MaxLimit
  <1>3. /\ spent' \in [Times -> Nat]
        /\ spent'[now] = spent[now] + d
        /\ \A s \in Times \ {now} : spent'[s] = spent[s]
        /\ \A S \in SUBSET Times :
              /\ Withdrawn(S) \in Nat
              /\ now \notin S => Withdrawn(S)' = Withdrawn(S)
              /\ d = 0 => Withdrawn(S)' = Withdrawn(S)
    <2>1. /\ spent' \in [Times -> Nat]
          /\ spent'[now] = spent[now] + d
          /\ \A s \in Times \ {now} : spent'[s] = spent[s]
          /\ \A S \in SUBSET Times :
                /\ Withdrawn(S) \in Nat
                /\ now \in S => Withdrawn(S)' = Withdrawn(S) + d
                /\ now \notin S => Withdrawn(S)' = Withdrawn(S)
      BY <1>2, WithdrawnFollows
    <2> QED
      BY <2>1
  <1>4. /\ now \in Times /\ now \in Nat /\ z \in Nat /\ z <= now
        /\ window.since \in Nat /\ window'.since \in Nat /\ window.since <= now
        /\ spent \in [Times -> Nat] /\ Times \subseteq Nat /\ Day \in Nat \ {0}
        /\ \A s \in Times : spent[s] > 0 => s <= now /\ s < window.since + Day
    BY VenueAssumption, TimesFinite DEF TypeOK, WindowInv
  <1> DEFINE Stays == /\ d = 0 /\ now' \in {now, now + 1} /\ now' \in Times
                      /\ window'.since \in {window.since, now}
             Takes == /\ now' = now
                      /\ \/ now - window.since < Day /\ window'.since = window.since
                         \/ window'.since = now
  <1>5. Stays \/ Takes
    BY StepRemembers
  <1> HIDE DEF d, M
  <1>6. now' \in Times /\ window'.since <= now' /\ now <= now'
    BY <1>4, <1>5
  <1>7. \A s \in Times : spent'[s] > 0 => s <= now' /\ s < window'.since + Day
    <2>1. ASSUME NEW s \in Times, spent'[s] > 0, s # now \/ d = 0
          PROVE  s <= now' /\ s < window'.since + Day
      <3>1. spent[s] > 0 /\ s \in Nat
        BY <1>3, <1>4, <2>1
      <3>2. s <= now /\ s < window.since + Day
        BY <1>4, <3>1
      <3>3. window.since <= window'.since
        BY <1>4, <1>5
      <3>4. now' \in Nat
        BY <1>4, <1>6
      <3> QED
        BY <1>4, <1>6, <3>1, <3>2, <3>3, <3>4
    <2>2. ASSUME NEW s \in Times, s = now, d # 0
          PROVE  s <= now' /\ s < window'.since + Day
      <3>1. Takes
        BY <1>5, <2>2
      <3> QED
        BY <1>4, <2>2, <3>1
    <2> QED
      BY <2>1, <2>2
  <1>8. ASSUME NEW t \in Times
        PROVE  Withdrawn(DayFrom(t))' <= 2 * M
    <2>1. DayFrom(t) \in SUBSET Times
      BY TimesFinite
    <2>2. CASE now \notin DayFrom(t)
      <3>1. Withdrawn(DayFrom(t))' = Withdrawn(DayFrom(t))
        BY <1>3, <2>1, <2>2
      <3>2. Withdrawn(DayFrom(t)) <= 2 * M
        BY DEF WindowInv, RollingWithdrawalCap, M
      <3> QED
        BY <3>1, <3>2
    <2>3. CASE now \in DayFrom(t)
      <3> DEFINE P == DayBefore(z)
                 Q == Since(z)
      <3>1. DayFrom(t) \subseteq P \cup Q /\ P \in SUBSET Times /\ Q \in SUBSET Times
        BY <1>4, <2>3, DayIsCovered, TimesFinite
      <3>2. Withdrawn(P)' <= M /\ Withdrawn(Q)' <= M
        BY <1>1 DEF CountsFrom, M
      <3>3. Withdrawn(P)' \in Nat /\ Withdrawn(Q)' \in Nat /\ Withdrawn(DayFrom(t))' \in Nat
        <4>1. \A S \in SUBSET Times : Withdrawn(S)' \in Nat
          <5>1. ASSUME NEW S \in SUBSET Times PROVE SumFunctionOnSet(spent', S) \in Nat
            <6>1. \A s \in S : spent'[s] \in Nat
              BY <1>3
            <6> QED
              BY <6>1, TimesFinite, SumNat
          <5> QED
            BY <5>1 DEF Withdrawn
        <4> QED
          BY <2>1, <3>1, <4>1
      <3>4. Withdrawn(DayFrom(t))' <= Withdrawn(P)' + Withdrawn(Q)'
        <4>1. ASSUME NEW f \in [Times -> Nat]
              PROVE  SumFunctionOnSet(f, DayFrom(t))
                        <= SumFunctionOnSet(f, P) + SumFunctionOnSet(f, Q)
          BY <2>1, <3>1, SumOfBoth, TimesFinite
        <4> QED
          BY <1>3, <4>1 DEF Withdrawn
      <3> HIDE DEF P, Q
      <3> QED
        BY <1>2, <3>2, <3>3, <3>4
    <2> QED
      BY <2>2, <2>3
  <1>9. z <= now'
    BY <1>4, <1>5
  <1>10. \E y \in 0 .. now' : CountsFrom(y)'
    <2>1. z \in 0 .. now'
      BY <1>4, <1>6, <1>9
    <2> QED
      BY <1>1, <2>1
  <1> QED
    BY <1>3, <1>6, <1>7, <1>8, <1>10 DEF WindowInv, RollingWithdrawalCap, M

\* The inductive account of the days of a deleverage, for every history.
THEOREM WindowInvariant == HSpec => []WindowInv
  <1>1. HInit => WindowInv
    <2> SUFFICES ASSUME HInit PROVE WindowInv
      OBVIOUS
    <2>1. /\ now = 0 /\ window.since = 0 /\ window.withdrawn = 0 /\ 0 \in Times
          /\ spent \in [Times -> Nat] /\ \A s \in Times : spent[s] = 0
      BY VenueAssumption DEF HInit, Init, Times
    <2>2. \A S \in SUBSET Times : Withdrawn(S) = 0
      <3>1. ASSUME NEW S \in SUBSET Times PROVE Withdrawn(S) = 0
        BY <2>1, TimesFinite, SumZero DEF Withdrawn
      <3> QED
        BY <3>1
    <2>3. \A t \in Nat : /\ Withdrawn(DayFrom(t)) = 0 /\ Withdrawn(DayBefore(t)) = 0
                         /\ Withdrawn(Since(t)) = 0
      BY <2>2, TimesFinite
    <2>4. CountsFrom(0)
      BY <2>1, <2>3, MaxLimit DEF CountsFrom
    <2>5. RollingWithdrawalCap
      BY <2>3, MaxLimit, TimesFinite DEF RollingWithdrawalCap
    <2> QED
      BY <2>1, <2>4, <2>5 DEF WindowInv
  <1>2. IInv /\ IInv' /\ WindowInv /\ [HNext]_hvars => WindowInv'
    <2>1. ASSUME IInv, IInv', WindowInv, HNext PROVE WindowInv'
      BY <2>1, WindowStep DEF HNext, IInv
    <2>2. ASSUME WindowInv, UNCHANGED hvars PROVE WindowInv'
      BY <2>2 DEF hvars, WindowInv, RollingWithdrawalCap, CountsFrom, Withdrawn,
                  DayFrom, DayBefore, Since
    <2> QED
      BY <2>1, <2>2
  <1>3. HSpec => Spec
    <2>1. HInit => Init
      BY DEF HInit
    <2>2. [HNext]_hvars => [Next]_vars
      BY DEF HNext, hvars, vars
    <2> QED
      BY <2>1, <2>2, PTL DEF HSpec, Spec
  <1> QED
    BY <1>1, <1>2, <1>3, VenueInvariant, PTL DEF HSpec

\* In any day deleverage withdraws at most two of the largest limits.
THEOREM DeleverageIsCapped == HSpec => []RollingWithdrawalCap
  <1>1. WindowInv => RollingWithdrawalCap
    BY DEF WindowInv
  <1> QED
    BY <1>1, WindowInvariant, PTL

=============================================================================
