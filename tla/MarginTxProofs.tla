--------------------------- MODULE MarginTxProofs ---------------------------
(***************************************************************************)
(* Proofs about MarginTx, for every set of accounts and of transactions.   *)
(***************************************************************************)
EXTENDS MarginTx, FiniteSetTheorems, TLAPS

-----------------------------------------------------------------------------
(* Types *)

\* Products and quotients of naturals, which the provers need said.
LEMMA NatProduct == \A m, n \in Nat : m * n \in Nat
  OBVIOUS

LEMMA NatQuotient == \A m \in Nat, d \in Nat \ {0} : m \div d \in Nat
  OBVIOUS

\* The values of an account are naturals, at any weight.
LEMMA ValueType ==
  ASSUME price \in Prices, NEW x \in Account, NEW w \in Nat
  PROVE  AssetValue(x, w) \in Nat /\ LiabValue(x, w) \in Nat
<1>1. price \in Nat /\ x.coll \in Nat /\ x.debt \in Nat
  BY RiskAssumption DEF Account
<1>2. x.coll * price \in Nat
  BY <1>1, NatProduct
<1> QED
  BY <1>1, <1>2, NatProduct DEF AssetValue, LiabValue

\* What collateral pays for is a natural.
LEMMA PayoffType ==
  ASSUME price \in Prices, NEW n \in Nat, NEW d \in Nat
  PROVE  Payoff(n, d) \in Nat
<1>1. n * price \in Nat
  BY NatProduct, RiskAssumption
<1>2. n * price * d \in Nat
  BY <1>1, NatProduct
<1> QED
  BY <1>2, NatQuotient, RiskAssumption DEF Payoff

\* The instruction about to run is one.
LEMMA IxType ==
  ASSUME tx \in Transaction, pc \in DOMAIN tx.ixs
  PROVE  Ix \in Instruction
  BY DEF Transaction, Ix

\* What a handler may do to an account without leaving its type.
LEMMA FlagsType ==
  ASSUME NEW x \in Account, NEW f \in SUBSET Flags
  PROVE  [x EXCEPT !.flags = f] \in Account
  BY DEF Account

LEMMA BalancesType ==
  ASSUME NEW x \in Account, NEW n \in Nat
  PROVE  [x EXCEPT !.coll = n] \in Account /\ [x EXCEPT !.debt = n] \in Account
  BY DEF Account

\* No account and no transaction are of their types.
LEMMA AbsentType == Absent \in Account /\ Idle \in Transaction
  BY DEF Absent, Account, NoSnapshot, Snapshot, Idle, Transaction

\* A handler that leaves one account in its type leaves everything in its type.
LEMMA LeaveType ==
  ASSUME TypeOK, pc \in DOMAIN tx.ixs, NEW x \in Account, Leave(x)
  PROVE  TypeOK'
<1>1. accts' \in [Accounts -> Account]
  BY DEF TypeOK, Leave
<1>2. pc' \in 0 .. Len(tx'.ixs) + 1
  BY DEF TypeOK, Leave, Transaction
<1> QED
  BY <1>1, <1>2 DEF TypeOK, Leave

\* The initial state is well typed.
LEMMA InitType == Init => TypeOK
<1> SUFFICES ASSUME Init PROVE TypeOK
  OBVIOUS
<1>1. accts \in [Accounts -> Account] /\ saved \in [Accounts -> Account]
  BY AbsentType DEF Init
<1>2. tx \in Transaction /\ pc \in 0 .. Len(tx.ixs) + 1
  BY AbsentType DEF Init, Idle, Transaction
<1> QED
  BY <1>1, <1>2 DEF Init, TypeOK

\* Between transactions, and at a transaction's ends
LEMMA LifeType ==
  ASSUME TypeOK, Submit \/ Commit \/ Abort \/ PriceMove \/ Unrelated
  PROVE  TypeOK'
<1>1. CASE Submit
  <2>1. tx' \in Transaction
    BY <1>1, TxAssumption DEF Submit
  <2>2. pc' \in 0 .. Len(tx'.ixs) + 1
    BY <1>1, <2>1 DEF Submit, Transaction
  <2> QED
    BY <1>1, <2>1, <2>2 DEF Submit, TypeOK
<1>2. CASE Commit \/ Abort
  <2>1. tx' \in Transaction
    BY <1>2, AbsentType DEF Commit, Abort
  <2>2. pc' \in 0 .. Len(tx'.ixs) + 1
    BY <1>2, <2>1 DEF Commit, Abort, Transaction
  <2> QED
    BY <1>2, <2>1, <2>2 DEF Commit, Abort, TypeOK
<1>3. CASE PriceMove
  BY <1>3 DEF PriceMove, TypeOK
<1>4. CASE Unrelated
  <2>1. pc' \in 0 .. Len(tx'.ixs) + 1
    BY <1>4 DEF Unrelated, TypeOK, Transaction
  <2> QED
    BY <1>4, <2>1 DEF Unrelated, TypeOK
<1> QED
  BY <1>1, <1>2, <1>3, <1>4

\* The account an instruction is about
LEMMA TargetType ==
  ASSUME TypeOK, pc \in DOMAIN tx.ixs
  PROVE  /\ Target \in Account
         /\ Ix.acct \in Accounts /\ Ix.to \in Accounts
         /\ Ix.who \in Principals \union {None} /\ Ix.n \in Nat
  BY IxType DEF TypeOK, Target, Instruction

\* Flashloans change flags only.
LEMMA FlashloanType ==
  ASSUME TypeOK, StartFlashloan \/ EndFlashloan
  PROVE  TypeOK'
<1>1. Target \in Account /\ pc \in DOMAIN tx.ixs
  BY TargetType DEF StartFlashloan, EndFlashloan, At
<1>2. CASE StartFlashloan
  <2>1. Target.flags \union {"FLASHLOAN"} \in SUBSET Flags
    BY <1>1 DEF Account, Flags
  <2>2. [Target EXCEPT !.flags = @ \union {"FLASHLOAN"}] \in Account
    BY <1>1, <2>1, FlagsType
  <2> QED
    BY <1>1, <1>2, <2>2, LeaveType DEF StartFlashloan
<1>3. CASE EndFlashloan
  <2>1. Target.flags \ {"FLASHLOAN"} \in SUBSET Flags
    BY <1>1 DEF Account
  <2>2. [Target EXCEPT !.flags = @ \ {"FLASHLOAN"}] \in Account
    BY <1>1, <2>1, FlagsType
  <2> QED
    BY <1>1, <1>3, <2>2, LeaveType DEF EndFlashloan
<1> QED
  BY <1>2, <1>3

LEMMA ReceivershipUpdateType ==
  ASSUME NEW x \in Account, NEW f \in SUBSET Flags,
         NEW r \in Principals \union {None}, NEW s \in Snapshot
  PROVE  [x EXCEPT !.flags = f, !.receiver = r, !.snapshot = s] \in Account
  BY DEF Account

\* Snapshots are of values that are naturals.
LEMMA StartReceivershipType ==
  ASSUME TypeOK, pc \in DOMAIN tx.ixs,
         NEW receiver \in Principals \union {None}, NEW ignoreHealthy,
         NEW added \in SUBSET Flags,
         StartReceivership(receiver, ignoreHealthy, added)
  PROVE  TypeOK'
<1>1. Target \in Account
  BY TargetType
<1>2. Target.flags \union {"RECEIVERSHIP"} \union added \in SUBSET Flags
  BY <1>1 DEF Account, Flags
<1>3. TakeSnapshot(Target) \in Snapshot
  <2>1. price \in Prices /\ Scale \in Nat /\ AssetMaint \in Nat /\ LiabMaint \in Nat
    BY RiskAssumption DEF TypeOK
  <2> QED
    BY <1>1, <2>1, ValueType DEF TakeSnapshot, Snapshot
<1>4. [Target EXCEPT !.flags = @ \union {"RECEIVERSHIP"} \union added,
                     !.receiver = receiver,
                     !.snapshot = TakeSnapshot(Target)] \in Account
  BY <1>1, <1>2, <1>3, ReceivershipUpdateType
<1> QED
  BY <1>4, LeaveType DEF StartReceivership

LEMMA ReleasedType ==
  ASSUME NEW x \in Account, NEW cleared
  PROVE  Released(x, cleared) \in Account
<1>1. x.flags \ ({"RECEIVERSHIP"} \union cleared) \in SUBSET Flags
  BY DEF Account
<1>2. NoSnapshot \in Snapshot
  BY DEF NoSnapshot, Snapshot
<1> QED
  BY <1>1, <1>2, ReceivershipUpdateType DEF Released

\* So all four receivership instructions keep the types.
LEMMA ReceivershipType ==
  ASSUME TypeOK,
         \/ StartLiquidation \/ StartDeleverage \/ EndLiquidation
         \/ EndDeleverage \/ InitLiquidationRecord
  PROVE  TypeOK'
<1>1. /\ pc \in DOMAIN tx.ixs /\ Target \in Account
      /\ Ix.who \in Principals \union {None}
  BY TargetType DEF StartLiquidation, StartDeleverage, EndLiquidation,
                    EndDeleverage, InitLiquidationRecord, At
<1>2. CASE StartLiquidation
  <2>1. {} \in SUBSET Flags
    OBVIOUS
  <2> QED
    BY <1>1, <1>2, <2>1, StartReceivershipType DEF StartLiquidation
<1>3. CASE StartDeleverage
  <2>1. {"DELEVERAGE"} \in SUBSET Flags /\ RiskAdmin \in Principals \union {None}
    BY DEF Flags, Principals
  <2> QED
    BY <1>1, <1>3, <2>1, StartReceivershipType DEF StartDeleverage
<1>4. CASE EndLiquidation
  BY <1>1, <1>4, ReleasedType, LeaveType DEF EndLiquidation
<1>5. CASE EndDeleverage
  BY <1>1, <1>5, ReleasedType, LeaveType DEF EndDeleverage
<1>6. CASE InitLiquidationRecord
  <2>1. [Target EXCEPT !.record = "linked"] \in Account
    BY <1>1 DEF Account
  <2> QED
    BY <1>1, <1>6, <2>1, LeaveType DEF InitLiquidationRecord
<1> QED
  BY <1>2, <1>3, <1>4, <1>5, <1>6

\* No balance is driven below zero: what is taken was covered.
LEMMA BalanceType ==
  ASSUME TypeOK, Deposit \/ Withdraw \/ Borrow \/ Repay
  PROVE  TypeOK'
<1>1. /\ pc \in DOMAIN tx.ixs /\ Target \in Account /\ Ix.n \in Nat
  BY TargetType DEF Deposit, Withdraw, Borrow, Repay, At
<1>2. Target.coll \in Nat /\ Target.debt \in Nat
  BY <1>1 DEF Account
<1>3. CASE Deposit
  <2>1. Target.coll + Ix.n \in Nat
    BY <1>1, <1>2
  <2>2. [Target EXCEPT !.coll = @ + Ix.n] \in Account
    BY <1>1, <2>1, BalancesType
  <2> QED
    BY <1>1, <1>3, <2>2, LeaveType DEF Deposit
<1>4. CASE Withdraw
  <2>1. Target.coll - Ix.n \in Nat
    BY <1>1, <1>2, <1>4 DEF Withdraw, Covered
  <2>2. [Target EXCEPT !.coll = @ - Ix.n] \in Account
    BY <1>1, <2>1, BalancesType
  <2> QED
    BY <1>1, <1>4, <2>2, LeaveType DEF Withdraw
<1>5. CASE Borrow
  <2>1. Target.debt + Ix.n \in Nat
    BY <1>1, <1>2
  <2>2. [Target EXCEPT !.debt = @ + Ix.n] \in Account
    BY <1>1, <2>1, BalancesType
  <2> QED
    BY <1>1, <1>5, <2>2, LeaveType DEF Borrow
<1>6. CASE Repay
  <2>1. Target.debt - Ix.n \in Nat
    BY <1>1, <1>2, <1>6 DEF Repay, Covered
  <2>2. [Target EXCEPT !.debt = @ - Ix.n] \in Account
    BY <1>1, <2>1, BalancesType
  <2> QED
    BY <1>1, <1>6, <2>2, LeaveType DEF Repay
<1> QED
  BY <1>3, <1>4, <1>5, <1>6

LEMMA PositionsType ==
  ASSUME NEW x \in Account, NEW m \in Nat, NEW n \in Nat
  PROVE  [x EXCEPT !.coll = m, !.debt = n] \in Account
  BY DEF Account

\* A liquidation takes what was covered on both sides.
LEMMA LiquidateType ==
  ASSUME TypeOK, Liquidate
  PROVE  TypeOK'
<1> DEFINE n == Ix.n
           liquidatee == accts[Ix.to]
           liquidator2 ==
            [Target EXCEPT !.coll = @ + n,
                           !.debt = @ + Payoff(n, LiquidatorDiscount)]
           liquidatee2 ==
            [liquidatee EXCEPT !.coll = @ - n,
                               !.debt = @ - Payoff(n, FinalDiscount)]
<1>1. pc \in DOMAIN tx.ixs /\ Target \in Account /\ n \in Nat /\ Ix.to \in Accounts
  BY TargetType DEF Liquidate, At
<1>2. liquidatee \in Account
  BY <1>1 DEF TypeOK
<1>3. /\ Payoff(n, LiquidatorDiscount) \in Nat
      /\ Payoff(n, FinalDiscount) \in Nat
  BY <1>1, PayoffType, RiskAssumption DEF TypeOK
<1>4. liquidator2 \in Account
  <2>1. Target.coll \in Nat /\ Target.debt \in Nat
    BY <1>1 DEF Account
  <2>2. /\ Target.coll + n \in Nat
        /\ Target.debt + Payoff(n, LiquidatorDiscount) \in Nat
    BY <1>1, <1>3, <2>1
  <2> QED
    BY <1>1, <2>2, PositionsType
<1>5. liquidatee2 \in Account
  <2>1. liquidatee.coll \in Nat /\ liquidatee.debt \in Nat
    BY <1>2 DEF Account
  <2>2. liquidatee.coll >= n /\ liquidatee.debt >= Payoff(n, FinalDiscount)
    BY DEF Liquidate, Seizable, Covered
  <2>3. /\ liquidatee.coll - n \in Nat
        /\ liquidatee.debt - Payoff(n, FinalDiscount) \in Nat
    BY <1>1, <1>3, <2>1, <2>2
  <2> QED
    BY <1>2, <2>3, PositionsType
<1>6. /\ accts' = [accts EXCEPT ![Ix.acct] = liquidator2, ![Ix.to] = liquidatee2]
      /\ pc' = pc + 1
      /\ UNCHANGED <<saved, price, tx>>
  BY DEF Liquidate
<1>7. accts' \in [Accounts -> Account]
  BY <1>4, <1>5, <1>6 DEF TypeOK
<1>8. pc' \in 0 .. Len(tx'.ixs) + 1
  BY <1>1, <1>6 DEF TypeOK, Transaction
<1> QED
  BY <1>6, <1>7, <1>8 DEF TypeOK

\* A debt that is written off is zero.
LEMMA BankruptcyType ==
  ASSUME TypeOK, HandleBankruptcy
  PROVE  TypeOK'
<1>1. pc \in DOMAIN tx.ixs /\ Target \in Account
  BY TargetType DEF HandleBankruptcy, At
<1>2. Target.flags \union {"DISABLED"} \in SUBSET Flags
  BY <1>1 DEF Account, Flags
<1>3. [Target EXCEPT !.debt = 0, !.flags = @ \union {"DISABLED"}] \in Account
  BY <1>1, <1>2 DEF Account
<1> QED
  BY <1>1, <1>3, LeaveType DEF HandleBankruptcy

\* A transfer copies what was well typed.
LEMMA TransferType ==
  ASSUME TypeOK, TransferToNewAccount
  PROVE  TypeOK'
<1>1. /\ pc \in DOMAIN tx.ixs /\ Target \in Account
      /\ Ix.acct \in Accounts /\ Ix.to \in Accounts
      /\ Ix.who \in Principals \union {None}
  BY TargetType DEF TransferToNewAccount, At
<1> DEFINE given == [accts[Ix.to] EXCEPT
                !.exists = TRUE, !.authority = Ix.who, !.flags = Target.flags,
                !.coll = Target.coll, !.debt = Target.debt]
           left == [Target EXCEPT
                !.migrated = TRUE, !.coll = 0, !.debt = 0,
                !.flags = @ \union {"DISABLED"}]
<1>2. given \in Account
  <2>1. accts[Ix.to] \in Account
    BY <1>1 DEF TypeOK
  <2>2. /\ Target.flags \in SUBSET Flags
        /\ Target.coll \in Nat /\ Target.debt \in Nat
    BY <1>1 DEF Account
  <2> QED
    BY <1>1, <2>1, <2>2 DEF Account
<1>3. left \in Account
  <2>1. Target.flags \union {"DISABLED"} \in SUBSET Flags
    BY <1>1 DEF Account, Flags
  <2> QED
    BY <1>1, <2>1 DEF Account
<1>4. /\ accts' = [accts EXCEPT ![Ix.to] = given, ![Ix.acct] = left]
      /\ pc' = pc + 1
      /\ UNCHANGED <<saved, price, tx>>
  BY DEF TransferToNewAccount
<1>5. accts' \in [Accounts -> Account]
  BY <1>2, <1>3, <1>4 DEF TypeOK
<1>6. pc' \in 0 .. Len(tx'.ixs) + 1
  BY <1>1, <1>4 DEF TypeOK, Transaction
<1> QED
  BY <1>4, <1>5, <1>6 DEF TypeOK

\* So do the instructions of the life of an account.
LEMMA AccountLifeType ==
  ASSUME TypeOK, InitializeAccount \/ Freeze \/ Unfreeze \/ CloseAccount
  PROVE  TypeOK'
<1>1. /\ pc \in DOMAIN tx.ixs /\ Target \in Account
      /\ Ix.who \in Principals \union {None}
  BY TargetType DEF InitializeAccount, Freeze, Unfreeze, CloseAccount, At
<1>2. CASE InitializeAccount
  <2>1. [Target EXCEPT !.exists = TRUE, !.authority = Ix.who] \in Account
    BY <1>1 DEF Account
  <2> QED
    BY <1>1, <1>2, <2>1, LeaveType DEF InitializeAccount
<1>3. CASE Freeze
  <2>1. Target.flags \union {"FROZEN"} \in SUBSET Flags
    BY <1>1 DEF Account, Flags
  <2>2. [Target EXCEPT !.flags = @ \union {"FROZEN"}] \in Account
    BY <1>1, <2>1, FlagsType
  <2> QED
    BY <1>1, <1>3, <2>2, LeaveType DEF Freeze
<1>4. CASE Unfreeze
  <2>1. Target.flags \ {"FROZEN"} \in SUBSET Flags
    BY <1>1 DEF Account
  <2>2. [Target EXCEPT !.flags = @ \ {"FROZEN"}] \in Account
    BY <1>1, <2>1, FlagsType
  <2> QED
    BY <1>1, <1>4, <2>2, LeaveType DEF Unfreeze
<1>5. CASE CloseAccount
  <2> DEFINE r == IF Target.record = "none" THEN "none" ELSE "orphan"
  <2>1. r \in {"none", "linked", "orphan"}
    OBVIOUS
  <2>2. [Absent EXCEPT !.record = r] \in Account
    BY <2>1, AbsentType DEF Account
  <2> QED
    BY <1>1, <1>5, <2>2, LeaveType DEF CloseAccount
<1> QED
  BY <1>2, <1>3, <1>4, <1>5

\* Every step keeps the types.
LEMMA StepType == TypeOK /\ [Next]_vars => TypeOK'
<1> SUFFICES ASSUME TypeOK, [Next]_vars PROVE TypeOK'
  OBVIOUS
<1>1. CASE UNCHANGED vars
  BY <1>1 DEF vars, TypeOK
<1>2. CASE Next
  BY <1>2, LifeType, FlashloanType, ReceivershipType, BalanceType, LiquidateType,
     BankruptcyType, TransferType, AccountLifeType DEF Next
<1> QED
  BY <1>1, <1>2

\* Every reachable state is well typed: no balance is ever overdrawn by a withdrawal,
\* a repayment or a liquidation, whatever the transactions.
THEOREM TypeCorrect == Spec => []TypeOK
  BY InitType, StepType, PTL DEF Spec

-----------------------------------------------------------------------------
(* Brackets close *)

\* An instruction that is not the end of a's flashloan leaves that end pending.
LEMMA FlashloanStaysPending ==
  ASSUME TypeOK, pc \in DOMAIN tx.ixs, tx' = tx, pc' = pc + 1,
         NEW a \in Accounts, FlashloanPending(a),
         ~(IsIx(pc, "end_flashloan") /\ Ix.acct = a)
  PROVE  FlashloanPending(a)'
<1>1. PICK i \in pc .. Len(tx.ixs) :
        IsIx(i, "end_flashloan") /\ tx.ixs[i].acct = a
  BY DEF FlashloanPending
<1>2. i # pc
  BY <1>1 DEF Ix
<1>3. pc \in Nat /\ Len(tx.ixs) \in Nat
  BY DEF TypeOK, Transaction
<1>4. i \in pc' .. Len(tx'.ixs)
  BY <1>2, <1>3
<1>5. IsIx(i, "end_flashloan")' /\ tx'.ixs[i].acct = a
  BY <1>1 DEF IsIx
<1> QED
  BY <1>4, <1>5 DEF FlashloanPending

\* An instruction that is not the end of the receivership leaves that end pending.
LEMMA ReceivershipStaysPending ==
  ASSUME TypeOK, pc \in DOMAIN tx.ixs, tx' = tx, pc' = pc + 1,
         NEW a \in Accounts, NEW start, NEW end,
         ReceivershipPending(a, start, end), ~IsIx(pc, end)
  PROVE  ReceivershipPending(a, start, end)'
<1>1. pc \in Nat /\ Len(tx.ixs) \in Nat
  BY DEF TypeOK, Transaction
<1>2. pc # Len(tx.ixs)
  BY DEF ReceivershipPending, EndLast
<1>3. pc' <= Len(tx'.ixs)
  BY <1>1, <1>2 DEF ReceivershipPending
<1>4. EndLast(end)' /\ OnlyReceivershipOps(start, end)'
  BY DEF ReceivershipPending, EndLast, OnlyReceivershipOps, IsIx
<1>5. PICK s \in 1 .. pc - 1 :
        /\ {i \in DOMAIN tx.ixs : IsIx(i, start)} = {s}
        /\ tx.ixs[s].acct = a
  BY DEF ReceivershipPending
<1>6. s \in 1 .. pc' - 1
  BY <1>1
<1>7. {i \in DOMAIN tx'.ixs : IsIx(i, start)'} = {s} /\ tx'.ixs[s].acct = a
  BY <1>5 DEF IsIx
<1> QED
  BY <1>3, <1>4, <1>6, <1>7 DEF ReceivershipPending

\* The step leaves a's brackets as they are: none is opened, a receivership stays
\* what it is or disappears without a trace, and so does the account.
Undisturbed(a) ==
    /\ "FLASHLOAN" \in accts'[a].flags => "FLASHLOAN" \in accts[a].flags
    /\ \/ /\ "RECEIVERSHIP" \in accts'[a].flags <=> "RECEIVERSHIP" \in accts[a].flags
          /\ "DELEVERAGE" \in accts'[a].flags <=> "DELEVERAGE" \in accts[a].flags
          /\ accts'[a].receiver = accts[a].receiver
       \/ /\ "RECEIVERSHIP" \notin accts'[a].flags
          /\ "DELEVERAGE" \notin accts'[a].flags
          /\ accts'[a].receiver = None
    /\ ~accts'[a].exists => NoFlag(accts'[a], Brackets)

\* Brackets that a step leaves alone stay pending, unless it is an end.
LEMMA UndisturbedPending ==
  ASSUME TypeOK, pc \in DOMAIN tx.ixs, tx' = tx, pc' = pc + 1,
         NEW a \in Accounts, Pending(a), Undisturbed(a),
         ~(IsIx(pc, "end_flashloan") /\ Ix.acct = a),
         ~IsIx(pc, "end_liquidation"), ~IsIx(pc, "end_deleverage")
  PROVE  Pending(a)'
<1>1. "FLASHLOAN" \in accts'[a].flags => FlashloanPending(a)'
  BY FlashloanStaysPending DEF Pending, Undisturbed
<1>2. ASSUME "RECEIVERSHIP" \in accts'[a].flags
      PROVE  IF "DELEVERAGE" \in accts'[a].flags
             THEN ReceivershipPending(a, "start_deleverage", "end_deleverage")'
             ELSE ReceivershipPending(a, "start_liquidation", "end_liquidation")'
  <2>1. /\ "RECEIVERSHIP" \in accts[a].flags
        /\ "DELEVERAGE" \in accts'[a].flags <=> "DELEVERAGE" \in accts[a].flags
    BY <1>2 DEF Undisturbed
  <2>2. CASE "DELEVERAGE" \in accts[a].flags
    BY <2>1, <2>2, ReceivershipStaysPending DEF Pending
  <2>3. CASE "DELEVERAGE" \notin accts[a].flags
    BY <2>1, <2>3, ReceivershipStaysPending DEF Pending
  <2> QED
    BY <2>2, <2>3
<1>3. "RECEIVERSHIP" \notin accts'[a].flags =>
        "DELEVERAGE" \notin accts'[a].flags /\ accts'[a].receiver = None
  BY DEF Pending, Undisturbed
<1>4. ~accts'[a].exists => NoFlag(accts'[a], Brackets)
  BY DEF Undisturbed
<1> QED
  BY <1>1, <1>2, <1>3, <1>4 DEF Pending, NoFlag

\* The instructions that close a bracket
Ends == {"end_flashloan", "end_liquidation", "end_deleverage"}

\* So does everything when the instruction is no end.
LEMMA OtherOpsPending ==
  ASSUME TypeOK, pc \in DOMAIN tx.ixs, tx' = tx, pc' = pc + 1, Ix.op \notin Ends,
         \A a \in Accounts : Pending(a) /\ Undisturbed(a)
  PROVE  \A a \in Accounts : Pending(a)'
<1> TAKE a \in Accounts
<1>1. /\ ~IsIx(pc, "end_flashloan") /\ ~IsIx(pc, "end_liquidation")
      /\ ~IsIx(pc, "end_deleverage")
  BY DEF IsIx, Ends, Ix
<1> QED
  BY <1>1, UndisturbedPending

\* A handler that changes one account and none of its brackets
LEMMA LeaveUndisturbed ==
  ASSUME TypeOK, \A a \in Accounts : Pending(a), NEW x, Leave(x),
         \A f \in Brackets : f \in x.flags <=> f \in Target.flags,
         x.receiver = Target.receiver, x.exists
  PROVE  \A a \in Accounts : Undisturbed(a)
<1> TAKE a \in Accounts
<1>1. CASE a = Ix.acct
  <2>1. accts'[a] = x /\ accts[a] = Target
    BY <1>1 DEF Leave, Target, TypeOK
  <2> QED
    BY <2>1 DEF Undisturbed, Brackets
<1>2. CASE a # Ix.acct
  <2>1. accts'[a] = accts[a]
    BY <1>2 DEF Leave, TypeOK
  <2> QED
    BY <2>1 DEF Undisturbed, Pending
<1> QED
  BY <1>1, <1>2

\* Handlers that change balances or settings of one account
LEMMA BalancePending ==
  ASSUME TypeOK, \A a \in Accounts : Pending(a),
         \/ Deposit \/ Withdraw \/ Borrow \/ Repay \/ InitLiquidationRecord
         \/ HandleBankruptcy \/ Freeze \/ Unfreeze \/ InitializeAccount
  PROVE  \A a \in Accounts : Pending(a)'
<1> DEFINE Kept(x) == /\ \A f \in Brackets : f \in x.flags <=> f \in Target.flags
                      /\ x.receiver = Target.receiver /\ x.exists
<1>1. pc \in DOMAIN tx.ixs /\ Ix.op \notin Ends
  BY DEF Deposit, Withdraw, Borrow, Repay, InitLiquidationRecord, HandleBankruptcy,
         Freeze, Unfreeze, InitializeAccount, At, Ends
<1>2. Target \in Account
  BY <1>1, TargetType
<1>3. ASSUME NEW x, Leave(x), Kept(x) PROVE \A a \in Accounts : Pending(a)'
  <2>1. \A a \in Accounts : Undisturbed(a)
    BY <1>3, LeaveUndisturbed
  <2>2. tx' = tx /\ pc' = pc + 1
    BY <1>3 DEF Leave
  <2> QED
    BY <1>1, <2>1, <2>2, OtherOpsPending
<1>4. CASE Deposit
  <2>1. Kept([Target EXCEPT !.coll = @ + Ix.n])
    BY <1>2, <1>4 DEF Deposit, At, Target, Account
  <2> QED
    BY <1>3, <1>4, <2>1 DEF Deposit
<1>5. CASE Withdraw
  <2>1. Kept([Target EXCEPT !.coll = @ - Ix.n])
    BY <1>2, <1>5 DEF Withdraw, At, Target, Account
  <2> QED
    BY <1>3, <1>5, <2>1 DEF Withdraw
<1>6. CASE Borrow
  <2>1. Kept([Target EXCEPT !.debt = @ + Ix.n])
    BY <1>2, <1>6 DEF Borrow, At, Target, Account
  <2> QED
    BY <1>3, <1>6, <2>1 DEF Borrow
<1>7. CASE Repay
  <2>1. Kept([Target EXCEPT !.debt = @ - Ix.n])
    BY <1>2, <1>7 DEF Repay, At, Target, Account
  <2> QED
    BY <1>3, <1>7, <2>1 DEF Repay
<1>8. CASE InitLiquidationRecord
  <2>1. Kept([Target EXCEPT !.record = "linked"])
    BY <1>2, <1>8 DEF InitLiquidationRecord, At, Target, Account
  <2> QED
    BY <1>3, <1>8, <2>1 DEF InitLiquidationRecord
<1>9. CASE HandleBankruptcy
  <2>1. Kept([Target EXCEPT !.debt = 0, !.flags = @ \union {"DISABLED"}])
    BY <1>2, <1>9 DEF HandleBankruptcy, At, Target, Account, Brackets
  <2> QED
    BY <1>3, <1>9, <2>1 DEF HandleBankruptcy
<1>10. CASE Freeze
  <2>1. Kept([Target EXCEPT !.flags = @ \union {"FROZEN"}])
    BY <1>2, <1>10 DEF Freeze, At, Target, Account, Brackets
  <2> QED
    BY <1>3, <1>10, <2>1 DEF Freeze
<1>11. CASE Unfreeze
  <2>1. Kept([Target EXCEPT !.flags = @ \ {"FROZEN"}])
    BY <1>2, <1>11 DEF Unfreeze, At, Target, Account, Brackets
  <2> QED
    BY <1>3, <1>11, <2>1 DEF Unfreeze
<1>12. CASE InitializeAccount
  <2>1. Kept([Target EXCEPT !.exists = TRUE, !.authority = Ix.who])
    BY <1>2 DEF Account
  <2> QED
    BY <1>3, <1>12, <2>1 DEF InitializeAccount
<1> QED
  BY <1>4, <1>5, <1>6, <1>7, <1>8, <1>9, <1>10, <1>11, <1>12

\* Liquidations change the flags of neither account.
LEMMA LiquidatePending ==
  ASSUME TypeOK, \A a \in Accounts : Pending(a), Liquidate
  PROVE  \A a \in Accounts : Pending(a)'
<1>1. pc \in DOMAIN tx.ixs /\ Ix.op \notin Ends /\ tx' = tx /\ pc' = pc + 1
  BY DEF Liquidate, At, Ends
<1>2. Target \in Account /\ Ix.to \in Accounts /\ Ix.acct \in Accounts
  BY <1>1, TargetType
<1>3. accts[Ix.to] \in Account /\ accts[Ix.to].exists /\ Target.exists
  BY <1>2 DEF TypeOK, Liquidate, At, Target
<1>4. \A a \in Accounts :
        /\ accts'[a].flags = accts[a].flags
        /\ accts'[a].receiver = accts[a].receiver
        /\ accts'[a].exists = accts[a].exists
  BY <1>2, <1>3 DEF Liquidate, TypeOK, Account, Target
<1>5. \A a \in Accounts : Undisturbed(a)
  BY <1>4 DEF Undisturbed, Pending, NoFlag
<1> QED
  BY <1>1, <1>5, OtherOpsPending

\* A transfer is refused, as is a close, while a bracket is open.
LEMMA AccountLifePending ==
  ASSUME TypeOK, \A a \in Accounts : Pending(a),
         TransferToNewAccount \/ CloseAccount \/ Unrelated
  PROVE  \A a \in Accounts : Pending(a)'
<1>1. pc \in DOMAIN tx.ixs /\ Ix.op \notin Ends /\ tx' = tx /\ pc' = pc + 1
  BY DEF TransferToNewAccount, CloseAccount, Unrelated, Leave, At, Ends
<1>2. Target \in Account /\ Ix.to \in Accounts /\ Ix.acct \in Accounts
  BY <1>1, TargetType
<1>3. CASE TransferToNewAccount
  <2>1. /\ NoFlag(Target, Brackets) /\ Target.receiver = None /\ Target.exists
        /\ accts[Ix.to].receiver = None
        /\ Ix.to # Ix.acct
    BY <1>2, <1>3 DEF TransferToNewAccount, At, Target, Pending, NoFlag, Brackets
  <2>2. /\ accts'[Ix.to].flags = Target.flags
        /\ accts'[Ix.to].receiver = None
        /\ accts'[Ix.to].exists
    BY <1>2, <1>3, <2>1 DEF TransferToNewAccount, TypeOK, Account
  <2>3. /\ accts'[Ix.acct].flags = Target.flags \union {"DISABLED"}
        /\ accts'[Ix.acct].receiver = None
        /\ accts'[Ix.acct].exists
    BY <1>2, <1>3, <2>1 DEF TransferToNewAccount, TypeOK, Account
  <2>4. \A a \in Accounts \ {Ix.to, Ix.acct} : accts'[a] = accts[a]
    BY <1>2, <1>3 DEF TransferToNewAccount, TypeOK
  <2>5. \A a \in Accounts : Undisturbed(a)
    <3> TAKE a \in Accounts
    <3>1. CASE a \in {Ix.to, Ix.acct}
      BY <2>1, <2>2, <2>3, <3>1 DEF Undisturbed, NoFlag, Brackets
    <3>2. CASE a \notin {Ix.to, Ix.acct}
      BY <2>4, <3>2 DEF Undisturbed, Pending
    <3> QED
      BY <3>1, <3>2
  <2> QED
    BY <1>1, <2>5, OtherOpsPending
<1>4. CASE CloseAccount
  <2>1. accts'[Ix.acct].flags = {} /\ accts'[Ix.acct].receiver = None
    BY <1>2, <1>4 DEF CloseAccount, Leave, TypeOK, Absent
  <2>2. \A a \in Accounts \ {Ix.acct} : accts'[a] = accts[a]
    BY <1>2, <1>4 DEF CloseAccount, Leave, TypeOK
  <2>3. \A a \in Accounts : Undisturbed(a)
    <3> TAKE a \in Accounts
    <3>1. CASE a = Ix.acct
      BY <2>1, <3>1 DEF Undisturbed, NoFlag
    <3>2. CASE a # Ix.acct
      BY <2>2, <3>2 DEF Undisturbed, Pending
    <3> QED
      BY <3>1, <3>2
  <2> QED
    BY <1>1, <2>3, OtherOpsPending
<1>5. CASE Unrelated
  <2>1. \A a \in Accounts : Undisturbed(a)
    BY <1>5 DEF Unrelated, Undisturbed, Pending
  <2> QED
    BY <1>1, <2>1, OtherOpsPending
<1> QED
  BY <1>3, <1>4, <1>5

\* start_flashloan names an end that is still to come, and end_flashloan clears
\* the flag of the one account whose pending end it may have been.
LEMMA FlashloanPendingStep ==
  ASSUME TypeOK, \A a \in Accounts : Pending(a), StartFlashloan \/ EndFlashloan
  PROVE  \A a \in Accounts : Pending(a)'
<1>1. pc \in DOMAIN tx.ixs /\ tx' = tx /\ pc' = pc + 1 /\ Target.exists
  BY DEF StartFlashloan, EndFlashloan, Leave, At, Target
<1>2. PICK c \in Accounts : c = Ix.acct
  BY <1>1, TargetType
<1>3. Target \in Account /\ Target = accts[c] /\ Ix.n \in Nat
  BY <1>2, <1>1, TargetType DEF Target
<1>4. /\ "RECEIVERSHIP" \notin Target.flags /\ "DELEVERAGE" \notin Target.flags
      /\ Target.receiver = None
  BY <1>2, <1>3 DEF StartFlashloan, EndFlashloan, Pending, Target, NoFlag
<1>5. /\ \A f \in Brackets \ {"FLASHLOAN"} : f \notin accts'[c].flags
      /\ accts'[c].receiver = None
      /\ accts'[c].exists
  BY <1>2, <1>1, <1>3, <1>4
     DEF StartFlashloan, EndFlashloan, Leave, TypeOK, Account, Brackets
<1>6. \A a \in Accounts \ {c} : accts'[a] = accts[a]
  BY <1>2, <1>3 DEF StartFlashloan, EndFlashloan, Leave, TypeOK
<1>7. "FLASHLOAN" \in accts'[c].flags => FlashloanPending(c)'
  <2>1. CASE StartFlashloan
    <3>1. PICK i \in Nat : i = Ix.n
      BY <1>3
    <3>2. EndsFlashloan(c, i)
      BY <1>2, <2>1, <3>1 DEF StartFlashloan
    <3>3. pc \in Nat /\ Len(tx.ixs) \in Nat /\ DOMAIN tx.ixs = 1 .. Len(tx.ixs)
      BY DEF TypeOK, Transaction
    <3>4. i \in pc' .. Len(tx'.ixs)
      BY <1>1, <3>2, <3>3 DEF EndsFlashloan
    <3>5. IsIx(i, "end_flashloan")' /\ tx'.ixs[i].acct = c
      BY <1>1, <3>2 DEF EndsFlashloan, IsIx
    <3> QED
      BY <3>4, <3>5 DEF FlashloanPending
  <2>2. CASE EndFlashloan
    BY <1>2, <1>3, <2>2 DEF EndFlashloan, Leave, TypeOK, Account
  <2> QED
    BY <2>1, <2>2
<1>8. Pending(c)'
  BY <1>5, <1>7 DEF Pending, NoFlag, Brackets
<1>9. ASSUME NEW a \in Accounts \ {c} PROVE Pending(a)'
  <2>1. Undisturbed(a)
    BY <1>6 DEF Undisturbed, Pending
  <2>2. /\ ~(IsIx(pc, "end_flashloan") /\ Ix.acct = a)
        /\ ~IsIx(pc, "end_liquidation") /\ ~IsIx(pc, "end_deleverage")
    BY <1>2 DEF IsIx, Ix, StartFlashloan, EndFlashloan, At
  <2> QED
    BY <1>1, <2>1, <2>2, UndisturbedPending
<1> QED
  BY <1>8, <1>9

\* start_liquidation and start_deleverage: the step that puts c in receivership is
\* the one the pending end belongs to.
LEMMA StartReceivershipPending ==
  ASSUME TypeOK, \A a \in Accounts : Pending(a), pc \in DOMAIN tx.ixs,
         NEW receiver, NEW ignoreHealthy, NEW added, NEW start, NEW end,
         StartReceivership(receiver, ignoreHealthy, added), Target.exists,
         ValidateInstructions(start, end), Ix.op = start, Ix.op \notin Ends,
         \/ added = {} /\ start = "start_liquidation" /\ end = "end_liquidation"
         \/ /\ added = {"DELEVERAGE"}
            /\ start = "start_deleverage" /\ end = "end_deleverage"
  PROVE  \A a \in Accounts : Pending(a)'
<1>1. PICK c \in Accounts : c = Ix.acct
  BY TargetType
<1>2. Target \in Account /\ Target = accts[c]
  BY <1>1, TargetType DEF Target
<1>3. /\ "FLASHLOAN" \notin accts[c].flags
      /\ "DELEVERAGE" \notin accts[c].flags
  BY <1>2 DEF StartReceivership, NoFlag, Pending
<1>4. /\ accts'[c].flags = Target.flags \union {"RECEIVERSHIP"} \union added
      /\ accts'[c].exists
  BY <1>1, <1>2 DEF StartReceivership, Leave, TypeOK, Account
<1>5. \A a \in Accounts \ {c} : accts'[a] = accts[a]
  BY <1>1 DEF StartReceivership, Leave, TypeOK
<1>6. tx' = tx /\ pc' = pc + 1
  BY DEF StartReceivership, Leave
<1>7. ReceivershipPending(c, start, end)'
  <2>1. pc \in Nat /\ Len(tx.ixs) \in Nat /\ DOMAIN tx.ixs = 1 .. Len(tx.ixs)
    BY DEF TypeOK, Transaction
  <2>2. pc' <= Len(tx'.ixs) /\ pc \in 1 .. pc' - 1
    BY <1>6, <2>1 DEF ValidateInstructions
  <2>3. EndLast(end)' /\ OnlyReceivershipOps(start, end)'
    BY <1>6 DEF ValidateInstructions, EndLast, OnlyReceivershipOps, IsIx
  <2>4. {i \in DOMAIN tx'.ixs : IsIx(i, start)'} = {pc} /\ tx'.ixs[pc].acct = c
    BY <1>1, <1>6 DEF ValidateInstructions, StartFirst, IsIx, Ix
  <2> QED
    BY <2>2, <2>3, <2>4 DEF ReceivershipPending
<1>8. Pending(c)'
  BY <1>2, <1>3, <1>4, <1>7 DEF Pending
<1>9. ASSUME NEW a \in Accounts \ {c} PROVE Pending(a)'
  <2>1. Undisturbed(a)
    BY <1>5 DEF Undisturbed, Pending
  <2>2. /\ ~(IsIx(pc, "end_flashloan") /\ Ix.acct = a)
        /\ ~IsIx(pc, "end_liquidation") /\ ~IsIx(pc, "end_deleverage")
    BY DEF IsIx, Ix, Ends
  <2> QED
    BY <1>6, <2>1, <2>2, UndisturbedPending
<1> QED
  BY <1>8, <1>9

\* Either start of receivership finds itself the only one.
LEMMA ReceivershipsPending ==
  ASSUME TypeOK, \A a \in Accounts : Pending(a), StartLiquidation \/ StartDeleverage
  PROVE  \A a \in Accounts : Pending(a)'
<1>1. pc \in DOMAIN tx.ixs /\ Target.exists /\ Ix.op \notin Ends
  BY DEF StartLiquidation, StartDeleverage, At, Target, Ends
<1>2. CASE StartLiquidation
  BY <1>1, <1>2, StartReceivershipPending DEF StartLiquidation, At
<1>3. CASE StartDeleverage
  BY <1>1, <1>3, StartReceivershipPending DEF StartDeleverage, At
<1> QED
  BY <1>2, <1>3

\* end_liquidation and end_deleverage name an account of their own, but only one
\* account can be in receivership, and only by a start of the same kind.
LEMMA EndReceivershipPending ==
  ASSUME TypeOK, \A a \in Accounts : Pending(a), EndLiquidation \/ EndDeleverage
  PROVE  \A a \in Accounts : Pending(a)'
<1>1. /\ pc \in DOMAIN tx.ixs /\ tx' = tx /\ pc' = pc + 1 /\ Target.exists
      /\ TopLevel /\ "RECEIVERSHIP" \in Target.flags /\ "FLASHLOAN" \notin Target.flags
  BY DEF EndLiquidation, EndDeleverage, EndReceivership, Leave, At, Target, NoFlag
<1>2. PICK c \in Accounts : c = Ix.acct
  BY <1>1, TargetType
<1>3. Target \in Account /\ Target = accts[c]
  BY <1>1, <1>2, TargetType DEF Target
<1>4. /\ IsIx(pc, "end_liquidation") \/ IsIx(pc, "end_deleverage")
      /\ ~IsIx(pc, "end_flashloan")
  BY <1>1 DEF EndLiquidation, EndDeleverage, At, TopLevel, IsIx, Ix
<1>5. ASSUME NEW a \in Accounts, NEW start, NEW end,
             ReceivershipPending(a, start, end), "RECEIVERSHIP" \in accts[a].flags
      PROVE  Ix.op \in {start, end, "init_liq_record", "withdraw", "repay"}
  BY <1>1, <1>5 DEF ReceivershipPending, OnlyReceivershipOps, TopLevel, Ix
<1>6. ASSUME NEW a \in Accounts, "RECEIVERSHIP" \in accts[a].flags
      PROVE  /\ a = c
             /\ EndLiquidation => "DELEVERAGE" \notin accts[a].flags
  <2>1. CASE EndLiquidation
    <3>1. Ix.op = "end_liquidation"
      BY <2>1 DEF EndLiquidation, At
    <3>2. \A b \in Accounts : "RECEIVERSHIP" \in accts[b].flags =>
            /\ "DELEVERAGE" \notin accts[b].flags
            /\ ReceivershipPending(b, "start_liquidation", "end_liquidation")
      BY <1>5, <3>1 DEF Pending
    <3>3. /\ ReceivershipPending(a, "start_liquidation", "end_liquidation")
          /\ ReceivershipPending(c, "start_liquidation", "end_liquidation")
      BY <1>1, <1>3, <1>6, <3>2
    <3> QED
      BY <1>6, <3>2, <3>3 DEF ReceivershipPending
  <2>2. CASE EndDeleverage
    <3>1. Ix.op = "end_deleverage" /\ Ix.op # "end_liquidation"
      BY <2>2 DEF EndDeleverage, At
    <3>2. \A b \in Accounts : "RECEIVERSHIP" \in accts[b].flags =>
            ReceivershipPending(b, "start_deleverage", "end_deleverage")
      BY <1>5, <3>1 DEF Pending
    <3>3. /\ ReceivershipPending(a, "start_deleverage", "end_deleverage")
          /\ ReceivershipPending(c, "start_deleverage", "end_deleverage")
      BY <1>1, <1>3, <1>6, <3>2
    <3>4. ~EndLiquidation
      BY <3>1 DEF EndLiquidation, At
    <3> QED
      BY <3>3, <3>4 DEF ReceivershipPending
  <2> QED
    BY <2>1, <2>2
<1>7. /\ "RECEIVERSHIP" \notin accts'[c].flags
      /\ "DELEVERAGE" \notin accts'[c].flags
      /\ "FLASHLOAN" \notin accts'[c].flags
      /\ accts'[c].receiver = None
      /\ accts'[c].exists
  <2>1. CASE EndLiquidation
    <3>1. "DELEVERAGE" \notin Target.flags
      BY <1>1, <1>3, <1>6, <2>1
    <3>2. accts'[c] = Released(Target, {})
      BY <1>2, <2>1 DEF EndLiquidation, Leave, TypeOK
    <3> QED
      BY <1>1, <1>3, <3>1, <3>2 DEF Released, Account
  <2>2. CASE EndDeleverage
    <3>1. accts'[c] = Released(Target, {"DELEVERAGE"})
      BY <1>2, <2>2 DEF EndDeleverage, Leave, TypeOK
    <3> QED
      BY <1>1, <1>3, <3>1 DEF Released, Account
  <2> QED
    BY <2>1, <2>2
<1>8. \A a \in Accounts \ {c} : accts'[a] = accts[a]
  BY <1>2 DEF EndLiquidation, EndDeleverage, Leave, TypeOK
<1>9. Pending(c)'
  BY <1>7 DEF Pending
<1>10. ASSUME NEW a \in Accounts \ {c} PROVE Pending(a)'
  <2>1. "RECEIVERSHIP" \notin accts[a].flags
    BY <1>6
  <2>2. "FLASHLOAN" \in accts[a].flags => FlashloanPending(a)'
    BY <1>1, <1>4, FlashloanStaysPending DEF Pending
  <2> QED
    BY <1>8, <2>1, <2>2 DEF Pending, NoFlag
<1> QED
  BY <1>9, <1>10

\* A transaction that has run to its end has nothing pending, so nothing open.
LEMMA CommitClosed ==
  ASSUME BracketInv, Commit
  PROVE  BracketsClosed'
<1>1. pc \in Nat /\ Len(tx.ixs) \in Nat /\ pc > Len(tx.ixs) /\ pc > 0
  BY DEF BracketInv, TypeOK, Transaction, Commit
<1>2. ASSUME NEW a \in Accounts PROVE Pending(a)
  BY <1>1 DEF BracketInv
<1>3. \A a \in Accounts : ~FlashloanPending(a)
  BY <1>1 DEF FlashloanPending
<1>4. \A a \in Accounts, start, end \in Ops : ~ReceivershipPending(a, start, end)
  BY <1>1 DEF ReceivershipPending
<1>5. ASSUME NEW a \in Accounts
      PROVE  NoFlag(accts[a], Brackets) /\ accts[a].receiver = None
  <2>1. "FLASHLOAN" \notin accts[a].flags
    BY <1>2, <1>3 DEF Pending
  <2>2. "RECEIVERSHIP" \notin accts[a].flags
    BY <1>2, <1>4 DEF Pending, Ops
  <2> QED
    BY <1>2, <2>1, <2>2 DEF Pending, NoFlag, Brackets
<1> QED
  BY <1>5 DEF Commit, BracketsClosed, NoFlag

\* No bracket is open at the start.
LEMMA InitBrackets == Init => BracketInv
<1> SUFFICES ASSUME Init PROVE BracketInv
  OBVIOUS
<1>1. BracketsClosed
  BY DEF Init, BracketsClosed, Absent, NoFlag
<1> QED
  BY <1>1, InitType DEF Init, BracketInv

\* The invariant of the brackets is inductive.
LEMMA StepBrackets == BracketInv /\ [Next]_vars => BracketInv'
<1> SUFFICES ASSUME BracketInv, [Next]_vars PROVE BracketInv'
  OBVIOUS
<1>1. TypeOK' /\ TypeOK /\ BracketsClosed
  BY StepType DEF BracketInv
<1>2. CASE UNCHANGED vars
  BY <1>2 DEF vars, BracketInv, TypeOK, BracketsClosed, Pending, FlashloanPending,
              ReceivershipPending, EndLast, OnlyReceivershipOps, IsIx, NoFlag
<1>3. CASE Submit
  <2>1. pc = 0 /\ accts = saved /\ accts' = accts /\ saved' = saved /\ pc' = 1
    BY <1>3 DEF Submit, BracketInv
  <2>2. \A a \in Accounts : Pending(a)'
    BY <1>1, <2>1 DEF BracketsClosed, Pending, NoFlag, Brackets
  <2>3. BracketsClosed'
    BY <1>1, <2>1 DEF BracketsClosed
  <2> QED
    BY <1>1, <2>1, <2>2, <2>3 DEF BracketInv
<1>4. CASE Commit
  <2>1. BracketsClosed'
    BY <1>4, CommitClosed
  <2> QED
    BY <1>1, <1>4, <2>1 DEF Commit, BracketInv
<1>5. CASE Abort
  <2>1. BracketsClosed'
    BY <1>1, <1>5 DEF Abort, BracketsClosed
  <2> QED
    BY <1>1, <1>5, <2>1 DEF Abort, BracketInv
<1>6. CASE PriceMove
  <2>1. BracketsClosed'
    BY <1>1, <1>6 DEF PriceMove, BracketsClosed
  <2> QED
    BY <1>1, <1>6, <2>1 DEF PriceMove, BracketInv
<1>7. ASSUME pc \in DOMAIN tx.ixs, saved' = saved, pc' = pc + 1,
             (\A a \in Accounts : Pending(a)) => \A a \in Accounts : Pending(a)'
      PROVE  BracketInv'
  <2>1. pc > 0 /\ pc' > 0 /\ pc' # 0
    BY <1>1, <1>7 DEF TypeOK, Transaction
  <2>2. \A a \in Accounts : Pending(a)'
    BY <1>7, <2>1 DEF BracketInv
  <2>3. BracketsClosed'
    BY <1>1, <1>7 DEF BracketsClosed
  <2> QED
    BY <1>1, <2>1, <2>2, <2>3 DEF BracketInv
<1>8. CASE \/ Deposit \/ Withdraw \/ Borrow \/ Repay \/ InitLiquidationRecord
           \/ HandleBankruptcy \/ Freeze \/ Unfreeze \/ InitializeAccount
  <2>1. pc \in DOMAIN tx.ixs /\ saved' = saved /\ pc' = pc + 1
    BY <1>8 DEF Deposit, Withdraw, Borrow, Repay, InitLiquidationRecord,
                HandleBankruptcy, Freeze, Unfreeze, InitializeAccount, At, Leave
  <2> QED
    BY <1>1, <1>7, <1>8, <2>1, BalancePending
<1>9. CASE Liquidate
  BY <1>1, <1>7, <1>9, LiquidatePending DEF Liquidate, At
<1>10. CASE TransferToNewAccount \/ CloseAccount \/ Unrelated
  <2>1. pc \in DOMAIN tx.ixs /\ saved' = saved /\ pc' = pc + 1
    BY <1>10 DEF TransferToNewAccount, CloseAccount, Unrelated, At, Leave
  <2> QED
    BY <1>1, <1>7, <1>10, <2>1, AccountLifePending
<1>11. CASE StartFlashloan \/ EndFlashloan
  <2>1. pc \in DOMAIN tx.ixs /\ saved' = saved /\ pc' = pc + 1
    BY <1>11 DEF StartFlashloan, EndFlashloan, At, Leave
  <2> QED
    BY <1>1, <1>7, <1>11, <2>1, FlashloanPendingStep
<1>12. CASE StartLiquidation \/ StartDeleverage
  <2>1. pc \in DOMAIN tx.ixs /\ saved' = saved /\ pc' = pc + 1
    BY <1>12 DEF StartLiquidation, StartDeleverage, StartReceivership, At, Leave
  <2> QED
    BY <1>1, <1>7, <1>12, <2>1, ReceivershipsPending
<1>13. CASE EndLiquidation \/ EndDeleverage
  <2>1. pc \in DOMAIN tx.ixs /\ saved' = saved /\ pc' = pc + 1
    BY <1>13 DEF EndLiquidation, EndDeleverage, At, Leave
  <2> QED
    BY <1>1, <1>7, <1>13, <2>1, EndReceivershipPending
<1> QED
  BY <1>2, <1>3, <1>4, <1>5, <1>6, <1>8, <1>9, <1>10, <1>11, <1>12, <1>13 DEF Next

\* The inductive invariant: every flag that is set has its end pending.
THEOREM BracketsInvariant == Spec => []BracketInv
  BY InitBrackets, StepBrackets, PTL DEF Spec

\* Whatever instructions a transaction is made of, and whoever signs it, what it
\* commits leaves no account in a flashloan or in receivership: the introspection
\* of start_flashloan and start_liquidation suffices.
THEOREM BracketsAlwaysClosed == Spec => []BracketsClosed
<1>1. BracketInv => BracketsClosed
  BY DEF BracketInv
<1> QED
  BY <1>1, BracketsInvariant, PTL

-----------------------------------------------------------------------------
(* Consent *)

\* Without consent no instruction that asks for the authority of an account that is as
\* it was acts on it.
LEMMA NobodyAuthorized ==
  ASSUME NEW a \in Accounts, Intact(a), ~Consented(saved[a])
  PROVE  /\ Admin \notin tx.signers /\ RiskAdmin \notin tx.signers
         /\ \A b \in BOOLEAN : ~Authorized(accts[a], b)
         /\ "FROZEN" \in accts[a].flags \/ accts[a].authority \notin tx.signers
<1>1. /\ Admin \notin tx.signers /\ RiskAdmin \notin tx.signers
      /\ "FROZEN" \in accts[a].flags \/ accts[a].authority \notin tx.signers
  BY DEF Intact, Consented
<1> QED
  BY <1>1 DEF Authorized, SignerAuthorized, Intact

\* What others may do to an account depends on its positions alone.
LEMMA NotExposed ==
  ASSUME NEW a \in Accounts, Intact(a), ~Exposed(saved[a])
  PROVE  ~(MaintHealth(accts[a]) <= 0) /\ ~Bankrupt(accts[a])
  BY DEF Intact, Exposed, MaintHealth, Bankrupt, AssetValue, LiabValue

\* A handler changes the account it names, or leaves of it what it was.
LEMMA LeaveIntact ==
  ASSUME TypeOK, NEW x, Leave(x), NEW a \in Accounts, Intact(a),
         a = Ix.acct =>
            /\ x.exists /\ x.authority = accts[a].authority
            /\ x.coll = accts[a].coll /\ x.debt = accts[a].debt
            /\ "FROZEN" \in x.flags <=> "FROZEN" \in accts[a].flags
            /\ "RECEIVERSHIP" \notin x.flags
  PROVE  Intact(a)'
<1>1. saved' = saved /\ a # Ix.acct => accts'[a] = accts[a]
  BY DEF Leave, TypeOK
<1>2. a = Ix.acct => accts'[a] = x
  BY DEF Leave, TypeOK
<1>3. saved' = saved
  BY DEF Leave
<1> QED
  BY <1>1, <1>2, <1>3 DEF Intact

\* A handler of another account
LEMMA OtherIntact ==
  ASSUME TypeOK, NEW x, Leave(x), NEW a \in Accounts, Intact(a), a # Ix.acct
  PROVE  Intact(a)'
  BY LeaveIntact

\* The balances of an account that did not consent are nobody else's to change.
LEMMA BalancesIntact ==
  ASSUME TypeOK, NEW a \in Accounts, Intact(a), ~Consented(saved[a]), ~Exposed(saved[a]),
         Deposit \/ Withdraw \/ Borrow \/ Repay \/ HandleBankruptcy
  PROVE  Intact(a)'
<1>1. a # Ix.acct
  BY NobodyAuthorized, NotExposed
     DEF Deposit, Withdraw, Borrow, Repay, HandleBankruptcy, Target
<1> QED
  BY <1>1, OtherIntact DEF Deposit, Withdraw, Borrow, Repay, HandleBankruptcy

\* A liquidation needs the liquidator's authority, and a liquidatable account.
LEMMA LiquidateIntact ==
  ASSUME TypeOK, NEW a \in Accounts, Intact(a), ~Consented(saved[a]), ~Exposed(saved[a]),
         Liquidate
  PROVE  Intact(a)'
<1>1. a # Ix.acct
  BY NobodyAuthorized DEF Liquidate, Target
<1>2. a # Ix.to
  BY NotExposed DEF Liquidate, Seizable, Liquidatable
<1>3. accts'[a] = accts[a] /\ saved' = saved
  BY <1>1, <1>2 DEF Liquidate, TypeOK
<1> QED
  BY <1>3 DEF Intact

\* A flashloan is opened and closed by the authority.
LEMMA FlashloanIntact ==
  ASSUME TypeOK, NEW a \in Accounts, Intact(a), ~Consented(saved[a]),
         StartFlashloan \/ EndFlashloan
  PROVE  Intact(a)'
<1>1. a # Ix.acct
  BY NobodyAuthorized DEF StartFlashloan, EndFlashloan, Target, NoFlag
<1> QED
  BY <1>1, OtherIntact DEF StartFlashloan, EndFlashloan

\* Receivership begins on an account that is exposed, or with the risk admin's signature.
LEMMA ReceivershipIntact ==
  ASSUME TypeOK, NEW a \in Accounts, Intact(a), ~Consented(saved[a]), ~Exposed(saved[a]),
         StartLiquidation \/ StartDeleverage \/ EndLiquidation \/ EndDeleverage
  PROVE  Intact(a)'
<1>1. CASE StartLiquidation
  <2>1. a # Ix.acct
    BY <1>1, NotExposed DEF StartLiquidation, StartReceivership, Liquidatable, Target
  <2> QED
    BY <1>1, <2>1, OtherIntact DEF StartLiquidation, StartReceivership
<1>2. CASE StartDeleverage
  BY <1>2, NobodyAuthorized DEF StartDeleverage
<1>3. CASE EndLiquidation \/ EndDeleverage
  <2>1. a # Ix.acct
    BY <1>3 DEF EndLiquidation, EndDeleverage, EndReceivership, Target, Intact
  <2> QED
    BY <1>3, <2>1, OtherIntact DEF EndLiquidation, EndDeleverage
<1> QED
  BY <1>1, <1>2, <1>3

\* The rest of an account's life is its owner's or the admin's, but for its record.
LEMMA LifeIntact ==
  ASSUME TypeOK, NEW a \in Accounts, Intact(a), ~Consented(saved[a]),
         \/ InitLiquidationRecord \/ InitializeAccount \/ TransferToNewAccount
         \/ Freeze \/ Unfreeze \/ CloseAccount
  PROVE  Intact(a)'
<1>1. CASE InitLiquidationRecord
  <2>1. Target \in Account
    BY <1>1, TargetType DEF InitLiquidationRecord, At
  <2> DEFINE x == [Target EXCEPT !.record = "linked"]
  <2>2. /\ x.exists = Target.exists /\ x.authority = Target.authority
        /\ x.coll = Target.coll /\ x.debt = Target.debt /\ x.flags = Target.flags
    BY <2>1 DEF Account
  <2>3. Leave(x)
    BY <1>1 DEF InitLiquidationRecord
  <2> HIDE DEF x
  <2> QED
    BY <2>2, <2>3, LeaveIntact DEF Target, Intact
<1>2. CASE InitializeAccount
  <2>1. a # Ix.acct
    BY <1>2 DEF InitializeAccount, Target, Intact
  <2> QED
    BY <1>2, <2>1, OtherIntact DEF InitializeAccount
<1>3. CASE TransferToNewAccount
  <2>1. a # Ix.acct
    BY <1>3, NobodyAuthorized DEF TransferToNewAccount, Target
  <2>2. a # Ix.to
    BY <1>3 DEF TransferToNewAccount, Intact
  <2>3. accts'[a] = accts[a] /\ saved' = saved
    BY <1>3, <2>1, <2>2 DEF TransferToNewAccount, TypeOK
  <2> QED
    BY <2>3 DEF Intact
<1>4. CASE Freeze \/ Unfreeze
  BY <1>4, NobodyAuthorized DEF Freeze, Unfreeze
<1>5. CASE CloseAccount
  <2>1. a # Ix.acct
    BY <1>5, NobodyAuthorized DEF CloseAccount, Target, NoFlag
  <2> QED
    BY <1>5, <2>1, OtherIntact DEF CloseAccount
<1> QED
  BY <1>1, <1>2, <1>3, <1>4, <1>5

\* The handlers
Handler ==
    \/ StartFlashloan \/ EndFlashloan
    \/ StartLiquidation \/ StartDeleverage \/ EndLiquidation \/ EndDeleverage
    \/ InitLiquidationRecord
    \/ Deposit \/ Withdraw \/ Borrow \/ Repay \/ Liquidate \/ HandleBankruptcy
    \/ InitializeAccount \/ TransferToNewAccount \/ Freeze \/ Unfreeze
    \/ CloseAccount

\* A handler runs one instruction of a transaction.
LEMMA HandlerRuns ==
  ASSUME Handler
  PROVE  /\ pc \in DOMAIN tx.ixs /\ pc' = pc + 1
         /\ UNCHANGED <<saved, price, tx>>
  BY DEF Handler, StartFlashloan, EndFlashloan, StartLiquidation, StartDeleverage,
         StartReceivership, EndLiquidation, EndDeleverage, InitLiquidationRecord,
         Deposit, Withdraw, Borrow, Repay, Liquidate, HandleBankruptcy,
         InitializeAccount, TransferToNewAccount, Freeze, Unfreeze, CloseAccount,
         At, Leave

\* Consent is about transactions, and none runs at the start.
LEMMA InitConsent == Init => ConsentInv
  BY DEF Init, ConsentInv

\* The invariant of consent is inductive.
LEMMA StepConsent == BracketInv /\ ConsentInv /\ [Next]_vars => ConsentInv'
<1> SUFFICES ASSUME BracketInv, ConsentInv, [Next]_vars PROVE ConsentInv'
  OBVIOUS
<1>1. TypeOK
  BY DEF BracketInv
<1>2. CASE Submit
  <2>1. /\ accts' = accts /\ saved' = saved /\ accts = saved
        /\ \A a \in Accounts : NoFlag(saved[a], Brackets)
    BY <1>2 DEF Submit, BracketInv, BracketsClosed
  <2>2. \A a \in Accounts : saved'[a].exists => Intact(a)'
    BY <2>1 DEF Intact, NoFlag, Brackets
  <2> QED
    BY <2>2 DEF ConsentInv
<1>3. CASE Commit \/ Abort \/ PriceMove
  <2>1. pc' = 0
    BY <1>3 DEF Commit, Abort, PriceMove
  <2> QED
    BY <2>1 DEF ConsentInv
<1>4. CASE Unrelated
  <2>1. pc > 0 /\ UNCHANGED <<accts, saved, price, tx>>
    BY <1>1, <1>4 DEF Unrelated, TypeOK, Transaction
  <2> QED
    BY <2>1 DEF ConsentInv, Consented, Exposed, MaintHealth, Bankrupt, AssetValue,
                LiabValue, Intact
<1>5. CASE Handler
  <2>1. pc > 0 /\ UNCHANGED <<saved, price, tx>>
    BY <1>1, <1>5, HandlerRuns DEF TypeOK, Transaction
  <2>2. ASSUME NEW a \in Accounts, saved'[a].exists, ~Consented(saved[a])',
               ~Exposed(saved[a])'
        PROVE  Intact(a)'
    <3>1. saved[a].exists /\ ~Consented(saved[a]) /\ ~Exposed(saved[a])
      BY <2>1, <2>2
         DEF Consented, Exposed, MaintHealth, Bankrupt, AssetValue, LiabValue
    <3>2. Intact(a)
      BY <2>1, <3>1 DEF ConsentInv
    <3> QED
      BY <1>1, <1>5, <3>1, <3>2, BalancesIntact, LiquidateIntact, FlashloanIntact,
         ReceivershipIntact, LifeIntact DEF Handler
  <2> QED
    BY <2>2 DEF ConsentInv
<1>6. CASE UNCHANGED vars
  BY <1>6 DEF vars, ConsentInv, Consented, Exposed, MaintHealth, Bankrupt, AssetValue,
              LiabValue, Intact
<1> QED
  BY <1>2, <1>3, <1>4, <1>5, <1>6 DEF Next, Handler

\* So it holds in every state.
LEMMA ConsentInvariant == Spec => []ConsentInv
  BY InitConsent, StepConsent, BracketsInvariant, PTL DEF Spec

\* Nobody's positions move without the owner's or an admin's signature, unless the
\* account was liquidatable or bankrupt: whatever instructions a transaction is made of,
\* in whatever order, and through whichever programs.
THEOREM OwnersConsent == Spec => OwnerConsents
<1>1. ASSUME BracketInv, ConsentInv, [Next]_vars
      PROVE  [Commits => \A a \in Accounts :
                saved[a].exists /\ Moved(a) /\ ~Consented(saved[a])
                    => Exposed(saved[a])]_vars
  <2>1. Commits => Commit
    BY <1>1, HandlerRuns
       DEF Next, Handler, vars, Commits, Submit, Abort, PriceMove, Unrelated
  <2>2. ASSUME Commit, NEW a \in Accounts, saved[a].exists, Moved(a),
               ~Consented(saved[a])
        PROVE  Exposed(saved[a])
    <3>1. pc > 0
      BY <1>1, <2>2 DEF BracketInv, TypeOK, Transaction, Commit
    <3>2. ~Intact(a)
      BY <2>2 DEF Commit, Moved, Intact
    <3> QED
      BY <1>1, <2>2, <3>1, <3>2 DEF ConsentInv
  <2> QED
    BY <2>1, <2>2
<1> QED
  BY <1>1, ConsentInvariant, BracketsInvariant, PTL DEF Spec, OwnerConsents

-----------------------------------------------------------------------------
(* Health *)

Suspending == {"FLASHLOAN", "RECEIVERSHIP"}

\* Products are monotonic in each factor.
LEMMA NatMonotonic == \A k, m, n \in Nat : k <= m => k * n <= m * n /\ n * k <= n * m
  OBVIOUS

\* More collateral or less debt is never worse, by either requirement.
LEMMA BetterPositions ==
  ASSUME price \in Prices, NEW x \in Account, NEW y \in Account,
         x.coll <= y.coll, y.debt <= x.debt
  PROVE  /\ InitHealthy(x) => InitHealthy(y)
         /\ MaintHealth(x) <= MaintHealth(y)
<1>1. /\ x.coll \in Nat /\ y.coll \in Nat /\ x.debt \in Nat /\ y.debt \in Nat
      /\ price \in Nat
      /\ AssetInit \in Nat /\ AssetMaint \in Nat /\ LiabInit \in Nat /\ LiabMaint \in Nat
  BY RiskAssumption DEF Account
<1>2. /\ x.coll * price \in Nat /\ y.coll * price \in Nat
      /\ x.coll * price <= y.coll * price
  BY <1>1, NatMonotonic, NatProduct
<1>3. ASSUME NEW w \in Nat
      PROVE  /\ AssetValue(x, w) <= AssetValue(y, w)
             /\ LiabValue(y, w) <= LiabValue(x, w)
  <2>1. x.coll * price * w <= y.coll * price * w
    BY <1>2, NatMonotonic
  <2>2. y.debt * w <= x.debt * w
    BY <1>1, NatMonotonic
  <2> QED
    BY <2>1, <2>2 DEF AssetValue, LiabValue
<1>4. /\ AssetValue(x, AssetInit) \in Nat /\ AssetValue(y, AssetInit) \in Nat
      /\ LiabValue(x, LiabInit) \in Nat /\ LiabValue(y, LiabInit) \in Nat
      /\ AssetValue(x, AssetMaint) \in Nat /\ AssetValue(y, AssetMaint) \in Nat
      /\ LiabValue(x, LiabMaint) \in Nat /\ LiabValue(y, LiabMaint) \in Nat
  BY <1>1, ValueType
<1>5. /\ AssetValue(x, AssetInit) <= AssetValue(y, AssetInit)
      /\ LiabValue(y, LiabInit) <= LiabValue(x, LiabInit)
      /\ AssetValue(x, AssetMaint) <= AssetValue(y, AssetMaint)
      /\ LiabValue(y, LiabMaint) <= LiabValue(x, LiabMaint)
  BY <1>1, <1>3
<1>6. InitHealthy(x) => InitHealthy(y)
  BY <1>4, <1>5 DEF InitHealthy
<1>7. MaintHealth(x) <= MaintHealth(y)
  BY <1>4, <1>5 DEF MaintHealth
<1> QED
  BY <1>6, <1>7

\* The health of an account is a number.
LEMMA HealthType ==
  ASSUME price \in Prices, NEW x \in Account
  PROVE  MaintHealth(x) \in Int
<1>1. AssetValue(x, AssetMaint) \in Nat /\ LiabValue(x, LiabMaint) \in Nat
  BY ValueType, RiskAssumption
<1> QED
  BY <1>1 DEF MaintHealth

\* The maintenance requirement is the laxer one, by the weights' order.
LEMMA InitImpliesMaint ==
  ASSUME price \in Prices, NEW x \in Account, InitHealthy(x)
  PROVE  MaintHealth(x) >= 0
<1>1. /\ x.coll \in Nat /\ x.debt \in Nat /\ price \in Nat
      /\ AssetInit \in Nat /\ AssetMaint \in Nat /\ LiabInit \in Nat /\ LiabMaint \in Nat
      /\ AssetInit <= AssetMaint /\ LiabMaint <= LiabInit
  BY RiskAssumption DEF Account
<1>2. x.coll * price \in Nat
  BY <1>1, NatProduct
<1>3. AssetValue(x, AssetInit) <= AssetValue(x, AssetMaint)
  BY <1>1, <1>2, NatMonotonic DEF AssetValue
<1>4. LiabValue(x, LiabMaint) <= LiabValue(x, LiabInit)
  BY <1>1, NatMonotonic DEF LiabValue
<1>5. /\ AssetValue(x, AssetInit) \in Nat /\ AssetValue(x, AssetMaint) \in Nat
      /\ LiabValue(x, LiabInit) \in Nat /\ LiabValue(x, LiabMaint) \in Nat
  BY <1>1, ValueType
<1> QED
  BY <1>3, <1>4, <1>5 DEF InitHealthy, MaintHealth

\* Whoever owes nothing meets the initial requirement.
LEMMA DebtlessIsHealthy ==
  ASSUME price \in Prices, NEW x \in Account, x.debt = 0
  PROVE  InitHealthy(x)
<1>1. LiabValue(x, LiabInit) = 0
  BY RiskAssumption DEF LiabValue
<1>2. AssetValue(x, AssetInit) \in Nat
  BY ValueType, RiskAssumption
<1> QED
  BY <1>1, <1>2 DEF InitHealthy

\* Positions alone decide about health.
LEMMA SamePositions ==
  ASSUME NEW x, NEW y, x.coll = y.coll, x.debt = y.debt
  PROVE  /\ InitHealthy(x) <=> InitHealthy(y)
         /\ MaintHealth(x) = MaintHealth(y)
  BY DEF InitHealthy, MaintHealth, AssetValue, LiabValue

\* An instruction other than those that may come before a start is not one of them.
LEMMA OpensNothing ==
  ASSUME TypeOK, ComputeIsLeaf(tx), pc \in DOMAIN tx.ixs,
         Ix.op \notin {"none", "init_liq_record"}
  PROVE  ~MayPrecedeStart(pc)
  BY DEF MayPrecedeStart, ComputeIsLeaf, IsIx, Ix

\* What a step must do to account a for the invariant to hold of it
HealthKept(a) ==
    /\ MigratedIsFinal(accts'[a])
    /\ NoFlag(accts'[a], Suspending) => Standing(a)'
    /\ "RECEIVERSHIP" \in accts'[a].flags =>
          accts'[a].snapshot.assetsMaint - accts'[a].snapshot.liabsMaint
              = MaintHealth(saved[a])
    /\ MayPrecedeStart(pc) => accts'[a].coll = accts[a].coll
                                /\ accts'[a].debt = accts[a].debt

\* No account forgets that it was migrated.
Migrations == \A a \in Accounts : accts[a].migrated => accts'[a].migrated

\* A step that does so to every account keeps the invariant.
LEMMA AllHealthKept ==
  ASSUME TypeOK, HealthInv, pc \in DOMAIN tx.ixs, pc' = pc + 1,
         UNCHANGED <<saved, price, tx>>,
         Migrations, \A a \in Accounts : HealthKept(a)
  PROVE  HealthInv'
<1>1. pc \in Nat /\ pc > 0
  BY DEF TypeOK, Transaction
<1>2. ComputeIsLeaf(tx)'
  BY DEF HealthInv, ComputeIsLeaf
<1>3. \A a \in Accounts : MigratedIsFinal(accts'[a]) /\ MigratedIsFinal(saved'[a])
  BY DEF HealthInv, HealthKept
<1>4. ASSUME NEW a \in Accounts
      PROVE  /\ saved'[a].migrated => accts'[a].migrated
             /\ NoFlag(accts'[a], {"FLASHLOAN", "RECEIVERSHIP"}) => Standing(a)'
             /\ "RECEIVERSHIP" \in accts'[a].flags =>
                   accts'[a].snapshot.assetsMaint - accts'[a].snapshot.liabsMaint
                       = MaintHealth(saved[a])'
  <2>1. saved'[a].migrated => accts'[a].migrated
    BY <1>1 DEF HealthInv, Migrations
  <2>2. MaintHealth(saved[a])' = MaintHealth(saved[a])
    BY DEF MaintHealth, AssetValue, LiabValue
  <2> QED
    BY <2>1, <2>2 DEF HealthKept, Suspending
<1>5. ASSUME NEW a \in Accounts, \A i \in 1 .. pc' - 1 : MayPrecedeStart(i)'
      PROVE  accts'[a].coll = saved'[a].coll /\ accts'[a].debt = saved'[a].debt
  <2>1. \A i \in 1 .. pc : MayPrecedeStart(i)
    BY <1>1, <1>5 DEF MayPrecedeStart, IsIx
  <2>2. MayPrecedeStart(pc) /\ \A i \in 1 .. pc - 1 : MayPrecedeStart(i)
    BY <1>1, <2>1
  <2> QED
    BY <1>1, <2>2 DEF HealthInv, HealthKept
<1> QED
  BY <1>2, <1>3, <1>4, <1>5 DEF HealthInv

\* An account that gains collateral or loses debt stands as it did.
LEMMA StandingKept ==
  ASSUME TypeOK, TypeOK', UNCHANGED <<saved, price>>, Migrations, NEW a \in Accounts,
         accts[a].coll <= accts'[a].coll, accts'[a].debt <= accts[a].debt, Standing(a)
  PROVE  Standing(a)'
<1>1. price \in Prices /\ accts[a] \in Account /\ accts'[a] \in Account
  BY DEF TypeOK
<1>2. /\ InitHealthy(accts[a]) => InitHealthy(accts'[a])
      /\ MaintHealth(accts[a]) <= MaintHealth(accts'[a])
  BY <1>1, BetterPositions
<1>3. InitHealthy(accts'[a]) <=> InitHealthy(accts[a])'
  BY DEF InitHealthy, AssetValue, LiabValue
<1>4. MaintHealth(accts'[a]) = MaintHealth(accts[a])'
  BY DEF MaintHealth, AssetValue, LiabValue
<1>5. \A b \in Accounts : MaintHealth(saved[b])' = MaintHealth(saved[b])
  BY DEF MaintHealth, AssetValue, LiabValue
<1>6. CASE InitHealthy(accts[a])
  BY <1>2, <1>3, <1>6 DEF Standing
<1>7. ASSUME NEW b \in OriginsNow(a), MaintHealth(accts[a]) >= MaintHealth(saved[b])
      PROVE  Standing(a)'
  <2>1. b \in Accounts /\ b \in OriginsNow(a)'
    BY <1>7 DEF OriginsNow, Migrations
  <2>2. saved[b] \in Account
    BY <2>1 DEF TypeOK
  <2>3. /\ MaintHealth(saved[b]) \in Int /\ MaintHealth(accts[a]) \in Int
        /\ MaintHealth(accts'[a]) \in Int
    BY <1>1, <2>2, HealthType
  <2>4. MaintHealth(accts'[a]) >= MaintHealth(saved[b])
    BY <1>2, <1>7, <2>3
  <2>5. MaintHealth(accts[a])' >= MaintHealth(saved[b])'
    BY <1>4, <1>5, <2>1, <2>4
  <2> QED
    BY <2>1, <2>5 DEF Standing
<1> QED
  BY <1>6, <1>7 DEF Standing

\* An account that a step leaves alone
LEMMA UntouchedHealthKept ==
  ASSUME TypeOK, TypeOK', HealthInv, pc > 0, UNCHANGED <<saved, price, tx>>, Migrations,
         NEW a \in Accounts, accts'[a] = accts[a]
  PROVE  HealthKept(a)
<1>1. accts[a] \in Account
  BY DEF TypeOK
<1>2. accts[a].coll <= accts'[a].coll /\ accts'[a].debt <= accts[a].debt
  BY <1>1 DEF Account
<1>3. NoFlag(accts'[a], Suspending) => Standing(a)'
  BY <1>2, StandingKept DEF HealthInv, Suspending
<1> QED
  BY <1>3 DEF HealthKept, HealthInv

\* What a handler leaves of the account it names: its standing is due to a check, or to
\* the positions having got no worse, or to a receivership that made them no worse.
LEMMA LeaveHealth ==
  ASSUME TypeOK, TypeOK', HealthInv, pc \in DOMAIN tx.ixs, NEW x \in Account, Leave(x),
         MigratedIsFinal(x), Target.migrated => x.migrated,
         NoFlag(x, Suspending) =>
            \/ InitHealthy(x)
            \/ /\ NoFlag(Target, Suspending)
               /\ Target.coll <= x.coll /\ x.debt <= Target.debt
            \/ MaintHealth(x) >= MaintHealth(saved[Ix.acct]),
         "RECEIVERSHIP" \in x.flags =>
            \/ "RECEIVERSHIP" \in Target.flags /\ x.snapshot = Target.snapshot
            \/ x.snapshot.assetsMaint - x.snapshot.liabsMaint
                  = MaintHealth(saved[Ix.acct]),
         MayPrecedeStart(pc) => x.coll = Target.coll /\ x.debt = Target.debt
  PROVE  HealthInv'
<1>1. pc \in Nat /\ pc > 0
  BY DEF TypeOK, Transaction
<1>2. PICK c \in Accounts : c = Ix.acct
  BY TargetType
<1>3. /\ pc' = pc + 1 /\ UNCHANGED <<saved, price, tx>>
      /\ accts[c] = Target /\ accts'[c] = x
      /\ \A a \in Accounts \ {c} : accts'[a] = accts[a]
  BY <1>2 DEF Leave, TypeOK, Target
<1>4. Migrations
  BY <1>3 DEF Migrations
<1>5. NoFlag(x, Suspending) => Standing(c)'
  <2>1. InitHealthy(x) => Standing(c)'
    BY <1>3 DEF Standing, InitHealthy, AssetValue, LiabValue
  <2>2. MaintHealth(x) >= MaintHealth(saved[c]) => Standing(c)'
    BY <1>3 DEF Standing, OriginsNow, MaintHealth, AssetValue, LiabValue
  <2>3. ASSUME NoFlag(Target, Suspending), Target.coll <= x.coll, x.debt <= Target.debt
        PROVE  Standing(c)'
    <3>1. Standing(c)
      BY <1>1, <1>3, <2>3 DEF HealthInv, Suspending
    <3> QED
      BY <1>3, <1>4, <2>3, <3>1, StandingKept
  <2> QED
    BY <1>2, <2>1, <2>2, <2>3
<1>6. "RECEIVERSHIP" \in x.flags =>
         x.snapshot.assetsMaint - x.snapshot.liabsMaint = MaintHealth(saved[c])
  BY <1>1, <1>2, <1>3 DEF HealthInv
<1>7. HealthKept(c)
  BY <1>3, <1>5, <1>6 DEF HealthKept
<1>8. \A a \in Accounts \ {c} : HealthKept(a)
  BY <1>1, <1>3, <1>4, UntouchedHealthKept
<1> QED
  BY <1>3, <1>4, <1>7, <1>8, AllHealthKept

\* Withdrawals and borrows are checked; deposits and repayments only help.
LEMMA BalanceHealth ==
  ASSUME TypeOK, TypeOK', HealthInv, Deposit \/ Withdraw \/ Borrow \/ Repay
  PROVE  HealthInv'
<1>1. /\ pc \in DOMAIN tx.ixs /\ Target.exists
      /\ Ix.op \in {"deposit", "withdraw", "borrow", "repay"}
  BY DEF Deposit, Withdraw, Borrow, Repay, At, Target
<1>2. /\ Target \in Account /\ Ix.acct \in Accounts /\ Ix.n \in Nat
      /\ MigratedIsFinal(Target)
  BY <1>1, TargetType DEF HealthInv, Target
<1>3. Target.coll \in Nat /\ Target.debt \in Nat
  BY <1>2 DEF Account
<1>4. ~MayPrecedeStart(pc)
  BY <1>1, OpensNothing DEF HealthInv
<1> DEFINE Same(x) ==
        /\ x.flags = Target.flags /\ x.migrated = Target.migrated
        /\ x.exists = Target.exists /\ x.snapshot = Target.snapshot
<1>5. ASSUME NEW x \in Account, Leave(x), Same(x),
             NoFlag(x, Suspending) =>
                InitHealthy(x) \/ (Target.coll <= x.coll /\ x.debt <= Target.debt)
      PROVE  HealthInv'
  <2>1. MigratedIsFinal(x)
    BY <1>2, <1>5 DEF MigratedIsFinal
  <2> QED
    BY <1>1, <1>4, <1>5, <2>1, LeaveHealth DEF NoFlag
<1>6. CASE Deposit
  <2> DEFINE x == [Target EXCEPT !.coll = @ + Ix.n]
  <2>1. /\ x \in Account /\ Same(x) /\ x.coll = Target.coll + Ix.n
        /\ x.debt = Target.debt
    BY <1>2, <1>3 DEF Account
  <2>2. Target.coll <= x.coll /\ x.debt <= Target.debt
    BY <1>2, <1>3, <2>1
  <2> QED
    BY <1>5, <1>6, <2>1, <2>2 DEF Deposit
<1>7. CASE Withdraw
  <2> DEFINE x == [Target EXCEPT !.coll = @ - Ix.n]
  <2>1. Target.coll - Ix.n \in Nat
    BY <1>2, <1>3, <1>7 DEF Withdraw, Covered
  <2>2. x \in Account /\ Same(x)
    BY <1>2, <2>1 DEF Account
  <2>3. NoFlag(x, Suspending) => InitHealthy(x)
    BY <1>7, <2>2 DEF Withdraw, WithdrawnOk, RiskOk, NoFlag, Suspending
  <2> QED
    BY <1>5, <1>7, <2>2, <2>3 DEF Withdraw
<1>8. CASE Borrow
  <2> DEFINE x == [Target EXCEPT !.debt = @ + Ix.n]
  <2>1. x \in Account /\ Same(x)
    BY <1>2, <1>3 DEF Account
  <2>2. NoFlag(x, Suspending) => InitHealthy(x)
    BY <1>8, <2>1 DEF Borrow, RiskOk, NoFlag, Suspending
  <2> QED
    BY <1>5, <1>8, <2>1, <2>2 DEF Borrow
<1>9. CASE Repay
  <2> DEFINE x == [Target EXCEPT !.debt = @ - Ix.n]
  <2>1. Target.debt - Ix.n \in Nat
    BY <1>2, <1>3, <1>9 DEF Repay, Covered
  <2>2. /\ x \in Account /\ Same(x) /\ x.coll = Target.coll
        /\ x.debt = Target.debt - Ix.n
    BY <1>2, <2>1 DEF Account
  <2>3. Target.coll <= x.coll /\ x.debt <= Target.debt
    BY <1>2, <1>3, <2>2
  <2> QED
    BY <1>5, <1>9, <2>2, <2>3 DEF Repay
<1> QED
  BY <1>6, <1>7, <1>8, <1>9

\* A flashloan ends on the check it suspended.
LEMMA FlashloanHealth ==
  ASSUME TypeOK, TypeOK', HealthInv, StartFlashloan \/ EndFlashloan
  PROVE  HealthInv'
<1>1. /\ pc \in DOMAIN tx.ixs /\ Target.exists
      /\ Ix.op \in {"start_flashloan", "end_flashloan"}
      /\ "RECEIVERSHIP" \notin Target.flags
  BY DEF StartFlashloan, EndFlashloan, At, Target, NoFlag
<1>2. Target \in Account /\ MigratedIsFinal(Target)
  BY <1>1, TargetType DEF HealthInv, Target
<1>3. ~MayPrecedeStart(pc)
  BY <1>1, OpensNothing DEF HealthInv
<1>4. CASE StartFlashloan
  <2> DEFINE x == [Target EXCEPT !.flags = @ \union {"FLASHLOAN"}]
  <2>1. Target.flags \union {"FLASHLOAN"} \in SUBSET Flags
    BY <1>2 DEF Account, Flags
  <2>2. /\ x \in Account /\ x.flags = Target.flags \union {"FLASHLOAN"}
        /\ x.migrated = Target.migrated /\ x.exists
    BY <1>1, <1>2, <2>1, FlagsType DEF Account
  <2>3. MigratedIsFinal(x)
    BY <1>2, <2>2 DEF MigratedIsFinal
  <2>4. ~NoFlag(x, Suspending) /\ "RECEIVERSHIP" \notin x.flags
    BY <1>1, <2>2 DEF NoFlag, Suspending
  <2> QED
    BY <1>1, <1>3, <1>4, <2>2, <2>3, <2>4, LeaveHealth DEF StartFlashloan
<1>5. CASE EndFlashloan
  <2> DEFINE x == [Target EXCEPT !.flags = @ \ {"FLASHLOAN"}]
  <2>1. Target.flags \ {"FLASHLOAN"} \in SUBSET Flags
    BY <1>2 DEF Account
  <2>2. /\ x \in Account /\ x.flags = Target.flags \ {"FLASHLOAN"}
        /\ x.migrated = Target.migrated /\ x.exists
    BY <1>1, <1>2, <2>1, FlagsType DEF Account
  <2>3. MigratedIsFinal(x)
    BY <1>2, <2>2 DEF MigratedIsFinal
  <2>4. InitHealthy(x)
    BY <1>5, <2>2 DEF EndFlashloan, EndedHealthy, RiskOk
  <2>5. "RECEIVERSHIP" \notin x.flags
    BY <1>1, <2>2
  <2> QED
    BY <1>1, <1>3, <1>5, <2>2, <2>3, <2>4, <2>5, LeaveHealth DEF EndFlashloan
<1> QED
  BY <1>4, <1>5

\* Receivership begins on the positions from before the transaction.
LEMMA StartReceivershipHealth ==
  ASSUME TypeOK, TypeOK', HealthInv, StartLiquidation \/ StartDeleverage
  PROVE  HealthInv'
<1>1. /\ pc \in DOMAIN tx.ixs /\ Target.exists /\ pc > 0
      /\ Ix.op \in {"start_liquidation", "start_deleverage"}
  <2>1. /\ pc \in DOMAIN tx.ixs /\ Target.exists
        /\ Ix.op \in {"start_liquidation", "start_deleverage"}
    BY DEF StartLiquidation, StartDeleverage, At, Target
  <2> QED
    BY <2>1 DEF TypeOK, Transaction
<1>2. PICK c \in Accounts : c = Ix.acct
  BY <1>1, TargetType
<1>3. /\ Target \in Account /\ MigratedIsFinal(Target) /\ Target = accts[c]
      /\ Ix.who \in Principals \union {None}
  BY <1>1, <1>2, TargetType DEF HealthInv, Target
<1>4. ~MayPrecedeStart(pc)
  BY <1>1, OpensNothing DEF HealthInv
<1>5. \A i \in 1 .. pc - 1 : MayPrecedeStart(i)
  BY DEF StartLiquidation, StartDeleverage, ValidateInstructions, StartFirst
<1>6. Target.coll = saved[c].coll /\ Target.debt = saved[c].debt
  BY <1>1, <1>3, <1>5 DEF HealthInv
<1>7. MaintHealth(Target) = MaintHealth(saved[c])
  BY <1>6, SamePositions
<1>8. TakeSnapshot(Target) \in Snapshot
  <2>1. price \in Prices /\ Scale \in Nat /\ AssetMaint \in Nat /\ LiabMaint \in Nat
    BY RiskAssumption DEF TypeOK
  <2> QED
    BY <1>3, <2>1, ValueType DEF TakeSnapshot, Snapshot
<1>9. ASSUME NEW receiver \in Principals \union {None}, NEW ignoreHealthy,
             NEW added \in SUBSET Flags,
             StartReceivership(receiver, ignoreHealthy, added)
      PROVE  HealthInv'
  <2> DEFINE f == Target.flags \union {"RECEIVERSHIP"} \union added
             x == [Target EXCEPT !.flags = f, !.receiver = receiver,
                                 !.snapshot = TakeSnapshot(Target)]
  <2>1. f \in SUBSET Flags
    BY <1>3 DEF Account, Flags
  <2>2. x \in Account
    BY <1>3, <1>8, <2>1, ReceivershipUpdateType
  <2>3. /\ x.flags = f /\ x.migrated = Target.migrated /\ x.exists
        /\ x.snapshot = TakeSnapshot(Target)
    BY <1>1, <1>3 DEF Account
  <2>4. Leave(x)
    BY <1>9 DEF StartReceivership
  <2>5. MigratedIsFinal(x)
    BY <1>3, <2>3 DEF MigratedIsFinal
  <2>6. ~NoFlag(x, Suspending)
    BY <2>3 DEF NoFlag, Suspending
  <2>7. x.snapshot.assetsMaint - x.snapshot.liabsMaint = MaintHealth(saved[c])
    BY <1>7, <2>3 DEF TakeSnapshot, MaintHealth
  <2> HIDE DEF x
  <2> QED
    BY <1>1, <1>2, <1>4, <2>2, <2>3, <2>4, <2>5, <2>6, <2>7, LeaveHealth
<1>10. CASE StartLiquidation
  <2>1. {} \in SUBSET Flags
    OBVIOUS
  <2> QED
    BY <1>3, <1>9, <1>10, <2>1 DEF StartLiquidation
<1>11. CASE StartDeleverage
  <2>1. {"DELEVERAGE"} \in SUBSET Flags /\ RiskAdmin \in Principals \union {None}
    BY DEF Flags, Principals
  <2> QED
    BY <1>9, <1>11, <2>1 DEF StartDeleverage
<1> QED
  BY <1>10, <1>11

\* And it leaves them no worse.
LEMMA EndReceivershipHealth ==
  ASSUME TypeOK, TypeOK', HealthInv, EndLiquidation \/ EndDeleverage
  PROVE  HealthInv'
<1>1. /\ pc \in DOMAIN tx.ixs /\ Target.exists /\ pc > 0
      /\ Ix.op \in {"end_liquidation", "end_deleverage"}
      /\ "RECEIVERSHIP" \in Target.flags /\ HealthNoWorse(Target)
  <2>1. /\ pc \in DOMAIN tx.ixs /\ Target.exists
        /\ Ix.op \in {"end_liquidation", "end_deleverage"}
        /\ "RECEIVERSHIP" \in Target.flags /\ HealthNoWorse(Target)
    BY DEF EndLiquidation, EndDeleverage, EndReceivership, At, Target
  <2> QED
    BY <2>1 DEF TypeOK, Transaction
<1>2. PICK c \in Accounts : c = Ix.acct
  BY <1>1, TargetType
<1>3. Target \in Account /\ MigratedIsFinal(Target) /\ Target = accts[c]
  BY <1>1, <1>2, TargetType DEF HealthInv, Target
<1>4. ~MayPrecedeStart(pc)
  BY <1>1, OpensNothing DEF HealthInv
<1>5. MaintHealth(Target) >= MaintHealth(saved[c])
  BY <1>1, <1>3 DEF HealthInv, HealthNoWorse
<1>6. ASSUME NEW cleared \in {{}, {"DELEVERAGE"}}, Leave(Released(Target, cleared))
      PROVE  HealthInv'
  <2> DEFINE x == Released(Target, cleared)
  <2>1. x \in Account
    BY <1>3, ReleasedType
  <2>2. /\ x.flags = Target.flags \ ({"RECEIVERSHIP"} \union cleared)
        /\ x.migrated = Target.migrated /\ x.exists
        /\ x.coll = Target.coll /\ x.debt = Target.debt
    BY <1>1, <1>3 DEF Released, Account
  <2> HIDE DEF x
  <2>3. MigratedIsFinal(x)
    BY <1>3, <2>2 DEF MigratedIsFinal
  <2>4. MaintHealth(x) >= MaintHealth(saved[c])
    BY <1>5, <2>2, SamePositions
  <2>5. "RECEIVERSHIP" \notin x.flags
    BY <2>2
  <2>6. Leave(x)
    BY <1>6 DEF x
  <2> QED
    BY <1>1, <1>2, <1>4, <2>1, <2>2, <2>3, <2>4, <2>5, <2>6, LeaveHealth
<1> QED
  BY <1>6 DEF EndLiquidation, EndDeleverage

\* The handlers that change no position for the worse and suspend no check
LEMMA LifeHealth ==
  ASSUME TypeOK, TypeOK', HealthInv,
         \/ InitLiquidationRecord \/ Freeze \/ Unfreeze \/ InitializeAccount
         \/ HandleBankruptcy \/ CloseAccount
  PROVE  HealthInv'
<1>1. pc \in DOMAIN tx.ixs
  BY DEF InitLiquidationRecord, Freeze, Unfreeze, InitializeAccount, HandleBankruptcy,
         CloseAccount, At
<1>2. /\ Target \in Account /\ MigratedIsFinal(Target)
      /\ Ix.who \in Principals \union {None} /\ price \in Prices
  BY <1>1, TargetType DEF HealthInv, Target, TypeOK
<1>3. Target.coll \in Nat /\ Target.debt \in Nat
  BY <1>2 DEF Account
<1>4. ASSUME NEW x \in Account, Leave(x), x.exists, x.migrated = Target.migrated,
             \A f \in Suspending \union {"DISABLED"} : f \in x.flags <=> f \in Target.flags,
             x.coll = Target.coll, x.debt = Target.debt, x.snapshot = Target.snapshot
      PROVE  HealthInv'
  <2>1. MigratedIsFinal(x)
    BY <1>2, <1>4 DEF MigratedIsFinal
  <2>2. /\ NoFlag(x, Suspending) => NoFlag(Target, Suspending)
        /\ "RECEIVERSHIP" \in x.flags => "RECEIVERSHIP" \in Target.flags
    BY <1>4 DEF NoFlag, Suspending
  <2>3. Target.coll <= x.coll /\ x.debt <= Target.debt
    BY <1>3, <1>4
  <2> QED
    BY <1>1, <1>4, <2>1, <2>2, <2>3, LeaveHealth
<1>5. CASE InitLiquidationRecord
  <2> DEFINE x == [Target EXCEPT !.record = "linked"]
  <2>1. Target.exists /\ x \in Account
    BY <1>2, <1>5 DEF InitLiquidationRecord, At, Target, Account
  <2>2. /\ x.exists = Target.exists /\ x.migrated = Target.migrated
        /\ x.flags = Target.flags /\ x.coll = Target.coll /\ x.debt = Target.debt
        /\ x.snapshot = Target.snapshot
    BY <1>2 DEF Account
  <2>3. Leave(x)
    BY <1>5 DEF InitLiquidationRecord
  <2> HIDE DEF x
  <2> QED
    BY <1>4, <2>1, <2>2, <2>3
<1>6. CASE Freeze \/ Unfreeze
  <2>1. ASSUME NEW f \in SUBSET Flags, Leave([Target EXCEPT !.flags = f]),
               \A g \in Suspending \union {"DISABLED"} : g \in f <=> g \in Target.flags
        PROVE  HealthInv'
    <3> DEFINE x == [Target EXCEPT !.flags = f]
    <3>1. Target.exists
      BY <1>6 DEF Freeze, Unfreeze, At, Target
    <3>2. x \in Account
      BY <1>2, <2>1, FlagsType
    <3>3. /\ x.exists = Target.exists /\ x.migrated = Target.migrated
          /\ x.flags = f /\ x.coll = Target.coll /\ x.debt = Target.debt
          /\ x.snapshot = Target.snapshot
      BY <1>2 DEF Account
    <3>4. Leave(x)
      BY <2>1
    <3> HIDE DEF x
    <3> QED
      BY <1>4, <2>1, <3>1, <3>2, <3>3, <3>4
  <2>2. /\ Target.flags \union {"FROZEN"} \in SUBSET Flags
        /\ Target.flags \ {"FROZEN"} \in SUBSET Flags
    BY <1>2 DEF Account, Flags
  <2>3. CASE Freeze
    BY <2>1, <2>2, <2>3 DEF Freeze, Suspending
  <2>4. CASE Unfreeze
    BY <2>1, <2>2, <2>4 DEF Unfreeze, Suspending
  <2> QED
    BY <1>6, <2>3, <2>4
<1>7. CASE InitializeAccount
  <2> DEFINE x == [Target EXCEPT !.exists = TRUE, !.authority = Ix.who]
  <2>1. x \in Account
    BY <1>2 DEF Account
  <2>2. /\ x.exists /\ x.migrated = Target.migrated
        /\ x.flags = Target.flags /\ x.coll = Target.coll /\ x.debt = Target.debt
        /\ x.snapshot = Target.snapshot
    BY <1>2 DEF Account
  <2>3. Leave(x)
    BY <1>7 DEF InitializeAccount
  <2> HIDE DEF x
  <2> QED
    BY <1>4, <2>1, <2>2, <2>3
<1>8. CASE HandleBankruptcy
  <2> DEFINE x == [Target EXCEPT !.debt = 0, !.flags = @ \union {"DISABLED"}]
  <2>1. Target.flags \union {"DISABLED"} \in SUBSET Flags
    BY <1>2 DEF Account, Flags
  <2>2. /\ x \in Account /\ x.debt = 0
        /\ x.flags = Target.flags \union {"DISABLED"}
        /\ x.exists = Target.exists /\ x.migrated = Target.migrated
        /\ x.snapshot = Target.snapshot
    BY <1>2, <2>1 DEF Account
  <2>3. Leave(x) /\ Target.exists /\ Ix.op = "handle_bankruptcy"
    BY <1>8 DEF HandleBankruptcy, At, Target
  <2>4. ~MayPrecedeStart(pc)
    BY <1>1, <2>3, OpensNothing DEF HealthInv
  <2>5. MigratedIsFinal(x)
    BY <2>2, <2>3 DEF MigratedIsFinal
  <2>6. InitHealthy(x)
    BY <1>2, <2>2, DebtlessIsHealthy
  <2>7. "RECEIVERSHIP" \in x.flags => "RECEIVERSHIP" \in Target.flags
    BY <2>2
  <2> HIDE DEF x
  <2> QED
    BY <1>1, <2>2, <2>3, <2>4, <2>5, <2>6, <2>7, LeaveHealth
<1>9. CASE CloseAccount
  <2> DEFINE r == IF Target.record = "none" THEN "none" ELSE "orphan"
             x == [Absent EXCEPT !.record = r]
  <2>1. r \in {"none", "linked", "orphan"}
    OBVIOUS
  <2>2. x \in Account
    BY <2>1, AbsentType DEF Account
  <2>3. x.debt = 0 /\ x.flags = {} /\ ~x.exists /\ ~x.migrated
    BY DEF Absent
  <2>4. /\ Leave(x) /\ Target.exists /\ Ix.op = "close"
        /\ "DISABLED" \notin Target.flags
    BY <1>9 DEF CloseAccount, At, Target, NoFlag
  <2>5. ~MayPrecedeStart(pc)
    BY <1>1, <2>4, OpensNothing DEF HealthInv
  <2>6. MigratedIsFinal(x) /\ ~Target.migrated
    BY <1>2, <2>3, <2>4 DEF MigratedIsFinal
  <2>7. InitHealthy(x)
    BY <1>2, <2>2, <2>3, DebtlessIsHealthy
  <2> HIDE DEF x
  <2> QED
    BY <1>1, <2>2, <2>3, <2>4, <2>5, <2>6, <2>7, LeaveHealth
<1> QED
  BY <1>5, <1>6, <1>7, <1>8, <1>9

\* The liquidator passes his check; the other account could be seized from only below
\* the maintenance requirement, and is better off, but still below it.
LEMMA LiquidateHealth ==
  ASSUME TypeOK, TypeOK', HealthInv, Liquidate
  PROVE  HealthInv'
<1>1. /\ pc \in DOMAIN tx.ixs /\ pc' = pc + 1 /\ UNCHANGED <<saved, price, tx>>
      /\ Ix.op = "liquidate" /\ Ix.to # Ix.acct /\ Target.exists
  BY DEF Liquidate, At, Target
<1>2. PICK c \in Accounts, d \in Accounts : c = Ix.acct /\ d = Ix.to
  BY <1>1, TargetType
<1>3. /\ accts[c] \in Account /\ accts[d] \in Account /\ accts[c] = Target
      /\ accts'[c] \in Account /\ accts'[d] \in Account
      /\ price \in Prices /\ pc > 0
  BY <1>1, <1>2 DEF TypeOK, Target, Transaction
<1>4. /\ accts'[c] = [Target EXCEPT !.coll = @ + Ix.n,
                                    !.debt = @ + Payoff(Ix.n, LiquidatorDiscount)]
      /\ accts'[d] = [accts[d] EXCEPT !.coll = @ - Ix.n,
                                      !.debt = @ - Payoff(Ix.n, FinalDiscount)]
      /\ \A a \in Accounts \ {c, d} : accts'[a] = accts[a]
  BY <1>1, <1>2, <1>3 DEF Liquidate, TypeOK
<1>5. /\ \A a \in {c, d} : /\ accts'[a].flags = accts[a].flags
                           /\ accts'[a].migrated = accts[a].migrated
                           /\ accts'[a].exists = accts[a].exists
      /\ accts[c].exists /\ accts[d].exists
  <2>1. accts[c].exists /\ accts[d].exists
    BY <1>1, <1>2, <1>3 DEF Liquidate
  <2>2. /\ accts'[c].flags = accts[c].flags
        /\ accts'[c].migrated = accts[c].migrated /\ accts'[c].exists = accts[c].exists
    BY <1>3, <1>4 DEF Account
  <2>3. /\ accts'[d].flags = accts[d].flags
        /\ accts'[d].migrated = accts[d].migrated /\ accts'[d].exists = accts[d].exists
    BY <1>3, <1>4 DEF Account
  <2> QED
    BY <2>1, <2>2, <2>3
<1>6. Migrations
  BY <1>4, <1>5 DEF Migrations
<1>7. ~MayPrecedeStart(pc)
  BY <1>1, OpensNothing DEF HealthInv
<1>8. \A a \in {c, d} : MigratedIsFinal(accts'[a]) /\ "RECEIVERSHIP" \notin accts'[a].flags
  <2>1. MigratedIsFinal(accts'[c]) /\ MigratedIsFinal(accts'[d])
    BY <1>5 DEF HealthInv, MigratedIsFinal
  <2>2. "RECEIVERSHIP" \notin accts[c].flags /\ "RECEIVERSHIP" \notin accts[d].flags
    BY <1>2, <1>3 DEF Liquidate, NoFlag
  <2> QED
    BY <1>5, <2>1, <2>2
<1>9. NoFlag(accts'[c], Suspending) => Standing(c)'
  <2>1. RiskOk(accts'[c])
    BY <1>4 DEF Liquidate
  <2>2. NoFlag(accts'[c], Suspending) => InitHealthy(accts'[c])
    BY <2>1 DEF RiskOk, NoFlag, Suspending
  <2> QED
    BY <1>1, <2>2 DEF Standing, InitHealthy, AssetValue, LiabValue
<1>10. Standing(d)'
  <2>1. /\ "FLASHLOAN" \notin accts[d].flags /\ "RECEIVERSHIP" \notin accts[d].flags
        /\ MaintHealth(accts[d]) <= 0
    BY <1>2 DEF Liquidate, Seizable, Liquidatable, NoFlag
  <2>2. /\ MaintHealth(accts'[d]) <= 0
        /\ MaintHealth(accts'[d]) > MaintHealth(accts[d])
    BY <1>2, <1>4 DEF Liquidate, LiquidatedOk
  <2>3. Standing(d)
    BY <1>3, <2>1 DEF HealthInv, NoFlag
  <2>4. MaintHealth(accts[d]) \in Int /\ MaintHealth(accts'[d]) \in Int
    BY <1>3, HealthType
  <2>5. ~InitHealthy(accts[d])
    BY <1>3, <2>1, <2>2, <2>4, InitImpliesMaint
  <2>6. PICK b \in OriginsNow(d) : MaintHealth(accts[d]) >= MaintHealth(saved[b])
    BY <2>3, <2>5 DEF Standing
  <2>7. b \in Accounts /\ b \in OriginsNow(d)'
    BY <1>1, <1>6 DEF OriginsNow, Migrations
  <2>8. saved[b] \in Account
    BY <2>7 DEF TypeOK
  <2>9. MaintHealth(saved[b]) \in Int
    BY <1>3, <2>8, HealthType
  <2>10. MaintHealth(accts'[d]) >= MaintHealth(saved[b])
    BY <2>2, <2>4, <2>6, <2>9
  <2> QED
    BY <1>1, <2>7, <2>10 DEF Standing, MaintHealth, AssetValue, LiabValue
<1>11. HealthKept(c) /\ HealthKept(d)
  BY <1>7, <1>8, <1>9, <1>10 DEF HealthKept
<1>12. \A a \in Accounts \ {c, d} : HealthKept(a)
  BY <1>1, <1>3, <1>4, <1>6, UntouchedHealthKept
<1> QED
  BY <1>1, <1>6, <1>11, <1>12, AllHealthKept

\* The new account stands as the old one did, which is now one of its origins.
LEMMA TransferHealth ==
  ASSUME TypeOK, TypeOK', HealthInv, TransferToNewAccount
  PROVE  HealthInv'
<1>1. /\ pc \in DOMAIN tx.ixs /\ pc' = pc + 1 /\ UNCHANGED <<saved, price, tx>>
      /\ Ix.op = "transfer" /\ Target.exists /\ ~Target.migrated
      /\ NoFlag(Target, Suspending)
  BY DEF TransferToNewAccount, At, Target, Suspending
<1>2. PICK c \in Accounts, d \in Accounts : c = Ix.acct /\ d = Ix.to
  BY <1>1, TargetType
<1>3. /\ accts[c] \in Account /\ accts[d] \in Account /\ accts[c] = Target
      /\ accts'[c] \in Account /\ accts'[d] \in Account
      /\ price \in Prices /\ pc > 0
  BY <1>1, <1>2 DEF TypeOK, Target, Transaction
<1>4. ~accts[d].exists /\ c # d
  BY <1>1, <1>2, <1>3 DEF TransferToNewAccount
<1>5. /\ accts'[d] = [accts[d] EXCEPT
             !.exists = TRUE, !.authority = Ix.who, !.flags = Target.flags,
             !.coll = Target.coll, !.debt = Target.debt]
      /\ accts'[c] = [Target EXCEPT
             !.migrated = TRUE, !.coll = 0, !.debt = 0,
             !.flags = @ \union {"DISABLED"}]
      /\ \A a \in Accounts \ {c, d} : accts'[a] = accts[a]
  BY <1>1, <1>2, <1>3, <1>4 DEF TransferToNewAccount, TypeOK
<1>6. /\ accts'[d].exists /\ accts'[d].flags = Target.flags
      /\ accts'[d].coll = Target.coll /\ accts'[d].debt = Target.debt
      /\ accts'[d].migrated = accts[d].migrated
  BY <1>3, <1>5 DEF Account
<1>7. /\ accts'[c].exists /\ accts'[c].flags = Target.flags \union {"DISABLED"}
      /\ accts'[c].debt = 0 /\ accts'[c].migrated
  BY <1>1, <1>3, <1>5 DEF Account
<1>8. ~accts[d].migrated
  BY <1>4 DEF HealthInv, MigratedIsFinal
<1>9. Migrations
  BY <1>5, <1>7, <1>8 DEF Migrations
<1>10. ~MayPrecedeStart(pc)
  BY <1>1, OpensNothing DEF HealthInv
<1>11. \A a \in {c, d} : MigratedIsFinal(accts'[a]) /\ "RECEIVERSHIP" \notin accts'[a].flags
  BY <1>1, <1>6, <1>7, <1>8 DEF MigratedIsFinal, NoFlag, Suspending
<1>12. Standing(c)'
  <2>1. InitHealthy(accts'[c])
    BY <1>3, <1>7, DebtlessIsHealthy
  <2> QED
    BY <1>1, <2>1 DEF Standing, InitHealthy, AssetValue, LiabValue
<1>13. Standing(d)'
  <2>1. Standing(c)
    BY <1>1, <1>3 DEF HealthInv, Suspending
  <2>2. /\ InitHealthy(accts'[d]) <=> InitHealthy(accts[c])
        /\ MaintHealth(accts'[d]) = MaintHealth(accts[c])
    BY <1>3, <1>6, SamePositions
  <2>3. CASE InitHealthy(accts[c])
    BY <1>1, <2>2, <2>3 DEF Standing, InitHealthy, AssetValue, LiabValue
  <2>4. ASSUME NEW b \in OriginsNow(c), MaintHealth(accts[c]) >= MaintHealth(saved[b])
        PROVE  Standing(d)'
    <3>1. ~saved[c].migrated
      BY <1>1, <1>3 DEF HealthInv
    <3>2. b \in Accounts /\ b \in OriginsNow(d)'
      BY <1>1, <1>2, <1>7, <1>9, <3>1, <2>4 DEF OriginsNow, Migrations
    <3> QED
      BY <1>1, <2>2, <2>4, <3>2 DEF Standing, MaintHealth, AssetValue, LiabValue
  <2> QED
    BY <2>1, <2>3, <2>4 DEF Standing
<1>14. HealthKept(c) /\ HealthKept(d)
  BY <1>10, <1>11, <1>12, <1>13 DEF HealthKept
<1>15. \A a \in Accounts \ {c, d} : HealthKept(a)
  BY <1>1, <1>3, <1>5, <1>9, UntouchedHealthKept
<1> QED
  BY <1>1, <1>9, <1>14, <1>15, AllHealthKept

\* There is no account at the start.
LEMMA InitHealth == Init => HealthInv
<1> SUFFICES ASSUME Init PROVE HealthInv
  OBVIOUS
<1>1. ComputeIsLeaf(tx)
  BY DEF Init, Idle, ComputeIsLeaf
<1>2. \A a \in Accounts : MigratedIsFinal(accts[a]) /\ MigratedIsFinal(saved[a])
  BY DEF Init, Absent, MigratedIsFinal
<1> QED
  BY <1>1, <1>2 DEF Init, HealthInv

\* The invariant of health is inductive.
LEMMA StepHealth == BracketInv /\ HealthInv /\ [Next]_vars => HealthInv'
<1> SUFFICES ASSUME BracketInv, HealthInv, [Next]_vars PROVE HealthInv'
  OBVIOUS
<1>1. TypeOK /\ TypeOK'
  BY StepType DEF BracketInv
<1>2. CASE Submit
  <2>1. /\ accts' = accts /\ saved' = saved /\ accts = saved /\ price' = price
        /\ \A a \in Accounts : NoFlag(saved[a], Brackets)
    BY <1>2 DEF Submit, BracketInv, BracketsClosed
  <2>2. ComputeIsLeaf(tx)'
    BY <1>2, TxAssumption DEF Submit, ComputeIsLeaf
  <2>3. ASSUME NEW a \in Accounts PROVE Standing(a)'
    <3>1. accts'[a] \in Account /\ price' \in Prices
      BY <1>1 DEF TypeOK
    <3>2. MaintHealth(accts[a]) \in Int
      BY <2>1, <3>1, HealthType
    <3>3. MaintHealth(accts[a])' = MaintHealth(accts[a])
          /\ MaintHealth(saved[a])' = MaintHealth(accts[a])
      BY <2>1 DEF MaintHealth, AssetValue, LiabValue
    <3>4. a \in OriginsNow(a)'
      BY DEF OriginsNow
    <3> QED
      BY <3>2, <3>3, <3>4 DEF Standing
  <2>4. \A a \in Accounts : "RECEIVERSHIP" \notin accts'[a].flags
    BY <2>1 DEF NoFlag, Brackets
  <2> QED
    BY <2>1, <2>2, <2>3, <2>4 DEF HealthInv
<1>3. CASE Commit \/ Abort \/ PriceMove
  <2>1. pc' = 0
    BY <1>3 DEF Commit, Abort, PriceMove
  <2>2. ComputeIsLeaf(tx)'
    BY <1>3 DEF Commit, Abort, PriceMove, HealthInv, ComputeIsLeaf, Idle
  <2>3. \A a \in Accounts : MigratedIsFinal(accts'[a]) /\ MigratedIsFinal(saved'[a])
    BY <1>3 DEF Commit, Abort, PriceMove, HealthInv
  <2> QED
    BY <2>1, <2>2, <2>3 DEF HealthInv
<1>4. CASE Unrelated
  <2>1. /\ pc \in DOMAIN tx.ixs /\ pc' = pc + 1 /\ pc > 0
        /\ UNCHANGED <<accts, saved, price, tx>>
    BY <1>1, <1>4 DEF Unrelated, TypeOK, Transaction
  <2>2. Migrations
    BY <2>1 DEF Migrations
  <2>3. \A a \in Accounts : HealthKept(a)
    BY <1>1, <2>1, <2>2, UntouchedHealthKept
  <2> QED
    BY <1>1, <2>1, <2>2, <2>3, AllHealthKept
<1>5. CASE Handler
  BY <1>1, <1>5, BalanceHealth, FlashloanHealth, StartReceivershipHealth,
     EndReceivershipHealth, LifeHealth, LiquidateHealth, TransferHealth DEF Handler
<1>6. CASE UNCHANGED vars
  BY <1>6 DEF vars, HealthInv, ComputeIsLeaf, MigratedIsFinal, NoFlag, Standing,
              OriginsNow, InitHealthy, MaintHealth, AssetValue, LiabValue,
              MayPrecedeStart, IsIx
<1> QED
  BY <1>2, <1>3, <1>4, <1>5, <1>6 DEF Next, Handler

\* So it holds in every state.
LEMMA HealthInvariant == Spec => []HealthInv
  BY InitHealth, StepHealth, BracketsInvariant, PTL DEF Spec

\* However a transaction suspends health checks on its way, by flashloans, receivership,
\* liquidations and transfers in any order: each account it leaves behind meets the
\* initial requirement, or is as healthy as it, or the account its positions came from,
\* was before.
THEOREM NeverLeftUnhealthy == Spec => HealthyOrNoWorse
<1>1. ASSUME BracketInv, HealthInv, [Next]_vars
      PROVE  [Commits => \A a \in Accounts :
                \/ InitHealthy(saved'[a])
                \/ \E b \in Origins(a) :
                      MaintHealth(saved'[a]) >= MaintHealth(saved[b])]_vars
  <2>1. Commits => Commit
    BY <1>1, HandlerRuns
       DEF Next, Handler, vars, Commits, Submit, Abort, PriceMove, Unrelated
  <2>2. ASSUME Commit, NEW a \in Accounts
        PROVE  \/ InitHealthy(saved'[a])
               \/ \E b \in Origins(a) :
                     MaintHealth(saved'[a]) >= MaintHealth(saved[b])
    <3>1. pc > 0
      BY <1>1, <2>2 DEF BracketInv, TypeOK, Transaction, Commit
    <3>2. saved' = accts
      BY <2>2 DEF Commit
    <3>3. NoFlag(accts[a], Brackets)
      BY <1>1, <2>2, <3>2, CommitClosed DEF BracketsClosed, NoFlag
    <3>4. Standing(a)
      BY <1>1, <3>1, <3>3 DEF HealthInv, NoFlag, Brackets
    <3>5. Origins(a) = OriginsNow(a)
      BY <3>2 DEF Origins, OriginsNow
    <3> QED
      BY <3>2, <3>4, <3>5 DEF Standing
  <2> QED
    BY <2>1, <2>2
<1> QED
  BY <1>1, BracketsInvariant, HealthInvariant, PTL DEF Spec, HealthyOrNoWorse

-----------------------------------------------------------------------------
(* Seizure *)

\* What an account lost, in numbers
LEMMA LossType ==
  ASSUME price \in Prices, NEW x \in Account, NEW y \in Account
  PROVE  /\ Lost(x, y) \in Int /\ Relieved(x, y) \in Int
         /\ AssetValue(x, Scale) \in Nat /\ AssetValue(y, Scale) \in Nat
         /\ LiabValue(x, Scale) \in Nat /\ LiabValue(y, Scale) \in Nat
<1>1. /\ AssetValue(x, Scale) \in Nat /\ AssetValue(y, Scale) \in Nat
      /\ LiabValue(x, Scale) \in Nat /\ LiabValue(y, Scale) \in Nat
  BY ValueType, RiskAssumption
<1> QED
  BY <1>1 DEF Lost, Relieved

\* One instruction more may lose d for relieving e, at the rate of the fees.
LEMMA LossSum ==
  ASSUME NEW l \in Int, NEW r \in Int, NEW d \in Int, NEW e \in Int,
         NEW f \in Nat, NEW s \in Nat, NEW u \in Nat, NEW k \in Nat,
         l * f <= r * s + k * u, d * f <= e * s + u
  PROVE  (l + d) * f <= (r + e) * s + (k + 1) * u
<1>1. /\ (l + d) * f = l * f + d * f
      /\ (r + e) * s = r * s + e * s
      /\ (k + 1) * u = k * u + u
  OBVIOUS
<1>2. /\ l * f \in Int /\ d * f \in Int /\ r * s \in Int /\ e * s \in Int
      /\ k * u \in Int
  OBVIOUS
<1> QED
  BY <1>1, <1>2

\* Fees that were capped stay capped when nothing more is lost.
LEMMA CappedStays ==
  ASSUME price \in Prices, NEW x \in Account, NEW y \in Account, NEW z \in Account,
         NEW k \in Nat, NEW m \in Nat, k <= m,
         FeesCapped(x, y, k), y.coll = z.coll, z.debt <= y.debt
  PROVE  FeesCapped(x, z, m)
<1>1. /\ Lost(x, y) \in Int /\ Relieved(x, y) \in Int /\ Relieved(x, z) \in Int
      /\ LiabValue(y, Scale) \in Nat /\ LiabValue(z, Scale) \in Nat
      /\ LiabValue(x, Scale) \in Nat
  BY LossType
<1>2. /\ Scale \in Nat /\ Scale * Scale \in Nat /\ FinalDiscount \in Nat
  BY RiskAssumption, NatProduct
<1> DEFINE e == LiabValue(y, Scale) - LiabValue(z, Scale)
           u == Scale * Scale
<1>3. e \in Nat
  <2>1. y.debt \in Nat /\ z.debt \in Nat
    BY DEF Account
  <2>2. z.debt * Scale <= y.debt * Scale
    BY <1>2, <2>1, NatMonotonic
  <2> QED
    BY <1>1, <2>2 DEF LiabValue
<1>4. Lost(x, z) = Lost(x, y) /\ Relieved(x, z) = Relieved(x, y) + e
  <2>1. Lost(x, z) = Lost(x, y)
    BY DEF Lost, AssetValue
  <2>2. Relieved(x, z) = Relieved(x, y) + e
    BY <1>1 DEF Relieved
  <2> QED
    BY <2>1, <2>2
<1> HIDE DEF e, u
<1>5. Lost(x, y) * FinalDiscount <= Relieved(x, y) * Scale + k * u
  BY DEF FeesCapped, u
<1>6. e * Scale \in Nat /\ k * u <= m * u
  BY <1>2, <1>3, NatProduct, NatMonotonic DEF u
<1>7. (Relieved(x, y) + e) * Scale = Relieved(x, y) * Scale + e * Scale
  BY <1>1, <1>2, <1>3
<1>8. /\ Lost(x, y) * FinalDiscount \in Int /\ Relieved(x, y) * Scale \in Int
      /\ k * u \in Int /\ m * u \in Int
  BY <1>1, <1>2 DEF u
<1>9. Lost(x, y) * FinalDiscount <= (Relieved(x, y) + e) * Scale + m * u
  BY <1>5, <1>6, <1>7, <1>8
<1> QED
  BY <1>4, <1>9 DEF FeesCapped, u

\* One instruction adds at most itself to the liquidations.
LEMMA LiquidationsStep ==
  ASSUME TypeOK, pc \in DOMAIN tx.ixs
  PROVE  /\ Liquidations(pc - 1) \in Nat /\ Liquidations(pc) \in Nat
         /\ Liquidations(pc - 1) <= Liquidations(pc)
         /\ Ix.op = "liquidate" => Liquidations(pc) = Liquidations(pc - 1) + 1
<1> DEFINE L(n) == {i \in 1 .. n : tx.ixs[i].op = "liquidate"}
<1>1. pc \in Nat /\ pc > 0 /\ 1 .. pc = (1 .. pc - 1) \cup {pc} /\ pc \notin 1 .. pc - 1
  BY DEF TypeOK, Transaction
<1>2. \A n \in {pc - 1, pc} : IsFiniteSet(L(n)) /\ Cardinality(L(n)) \in Nat
  <2> TAKE n \in {pc - 1, pc}
  <2>1. IsFiniteSet(1 .. n)
    BY <1>1, FS_Interval
  <2>2. L(n) \in SUBSET (1 .. n)
    OBVIOUS
  <2>3. IsFiniteSet(L(n))
    BY <2>1, <2>2, FS_Subset
  <2> QED
    BY <2>3, FS_CardinalityType
<1>3. /\ Liquidations(pc - 1) = Cardinality(L(pc - 1))
      /\ Liquidations(pc) = Cardinality(L(pc))
  BY DEF Liquidations
<1>4. CASE Ix.op = "liquidate"
  <2>1. L(pc) = L(pc - 1) \cup {pc} /\ pc \notin L(pc - 1)
    BY <1>1, <1>4 DEF Ix
  <2> HIDE DEF L
  <2>2. Cardinality(L(pc)) = Cardinality(L(pc - 1)) + 1
    BY <1>2, <2>1, FS_AddElement
  <2> QED
    BY <1>2, <1>3, <2>2
<1>5. CASE Ix.op # "liquidate"
  <2>1. L(pc) = L(pc - 1)
    BY <1>1, <1>5 DEF Ix
  <2> HIDE DEF L
  <2> QED
    BY <1>2, <1>3, <1>5, <2>1
<1> QED
  BY <1>4, <1>5

\* A liquidation takes collateral for its debt at the price less the fees, but for the
\* fraction of a unit that the debt is rounded down by.
LEMMA LiquidationLoss ==
  ASSUME price \in Prices, NEW x \in Account, NEW y \in Account, NEW z \in Account,
         NEW k \in Nat, NEW n \in Nat, FeesCapped(x, y, k),
         n <= y.coll, Payoff(n, FinalDiscount) <= y.debt,
         z.coll = y.coll - n, z.debt = y.debt - Payoff(n, FinalDiscount)
  PROVE  FeesCapped(x, z, k + 1)
<1> DEFINE q == Payoff(n, FinalDiscount)
           X == n * price * FinalDiscount
           u == Scale * Scale
           d == n * price * Scale
           e == q * Scale
<1>1. /\ Scale \in Nat \ {0} /\ FinalDiscount \in Nat /\ price \in Nat
      /\ n * price \in Nat /\ X \in Nat /\ u \in Nat /\ q \in Nat
      /\ y.coll \in Nat /\ y.debt \in Nat
  BY RiskAssumption, NatProduct, PayoffType DEF Account
<1>2. d \in Nat /\ e \in Nat
  BY <1>1, NatProduct
<1>3. X < q * Scale + Scale
  BY <1>1 DEF Payoff
<1>4. d * FinalDiscount <= e * Scale + u
  <2>1. e + Scale \in Nat /\ X <= e + Scale
    BY <1>1, <1>2, <1>3
  <2>2. X * Scale <= (e + Scale) * Scale
    BY <1>1, <2>1, NatMonotonic
  <2>3. X * Scale = d * FinalDiscount
    BY <1>1
  <2>4. (e + Scale) * Scale = e * Scale + u
    BY <1>1, <1>2
  <2> QED
    BY <2>2, <2>3, <2>4
<1>5. /\ Lost(x, y) \in Int /\ Relieved(x, y) \in Int
      /\ AssetValue(x, Scale) \in Nat /\ AssetValue(y, Scale) \in Nat
      /\ LiabValue(x, Scale) \in Nat /\ LiabValue(y, Scale) \in Nat
  BY LossType
<1>6. AssetValue(z, Scale) = AssetValue(y, Scale) - d
  BY <1>1 DEF AssetValue
<1>7. LiabValue(z, Scale) = LiabValue(y, Scale) - e
  BY <1>1 DEF LiabValue
<1>8. Lost(x, z) = Lost(x, y) + d /\ Relieved(x, z) = Relieved(x, y) + e
  <2> HIDE DEF d, e
  <2> QED
    BY <1>2, <1>5, <1>6, <1>7 DEF Lost, Relieved
<1>9. Lost(x, y) * FinalDiscount <= Relieved(x, y) * Scale + k * u
  BY DEF FeesCapped
<1> HIDE DEF d, e, u
<1>10. (Lost(x, y) + d) * FinalDiscount <= (Relieved(x, y) + e) * Scale + (k + 1) * u
  BY <1>1, <1>2, <1>4, <1>5, <1>9, LossSum
<1> QED
  BY <1>8, <1>10 DEF FeesCapped, u

\* Only the two starts put an account in receivership.
LEMMA NoneOpens ==
  ASSUME TypeOK, Handler \/ Unrelated, ~StartLiquidation, ~StartDeleverage,
         \A a \in Accounts : "RECEIVERSHIP" \notin accts[a].flags
  PROVE  \A a \in Accounts : "RECEIVERSHIP" \notin accts'[a].flags
<1>1. pc \in DOMAIN tx.ixs
  BY HandlerRuns DEF Unrelated
<1>2. /\ Target \in Account /\ Ix.acct \in Accounts /\ Ix.to \in Accounts
      /\ accts[Ix.to] \in Account
      /\ "RECEIVERSHIP" \notin Target.flags /\ "RECEIVERSHIP" \notin accts[Ix.to].flags
  BY <1>1, TargetType DEF Target, TypeOK
<1>3. ASSUME NEW x, Leave(x), "RECEIVERSHIP" \notin x.flags
      PROVE  \A a \in Accounts : "RECEIVERSHIP" \notin accts'[a].flags
  <2> TAKE a \in Accounts
  <2>1. accts'[a] = x \/ accts'[a] = accts[a]
    BY <1>3 DEF Leave, TypeOK
  <2> QED
    BY <1>3, <2>1
<1>4. CASE Unrelated
  BY <1>4 DEF Unrelated
<1>5. CASE Liquidate
  <2>1. \A a \in Accounts : accts'[a].flags = accts[a].flags
    BY <1>2, <1>5 DEF Liquidate, TypeOK, Account, Target
  <2> QED
    BY <2>1
<1>6. CASE TransferToNewAccount
  <2> TAKE a \in Accounts
  <2>1. accts'[a].flags \in {accts[a].flags, Target.flags, Target.flags \union {"DISABLED"}}
    BY <1>2, <1>6 DEF TransferToNewAccount, TypeOK, Account
  <2> QED
    BY <1>2, <2>1
<1>7. CASE EndLiquidation \/ EndDeleverage
  BY <1>2, <1>7 DEF EndLiquidation, EndDeleverage, EndReceivership
<1>8. CASE Deposit \/ Withdraw \/ Borrow \/ Repay
  <2>1. /\ \A n : "RECEIVERSHIP" \notin [Target EXCEPT !.coll = n].flags
        /\ \A n : "RECEIVERSHIP" \notin [Target EXCEPT !.debt = n].flags
    BY <1>2 DEF Account
  <2> QED
    BY <1>3, <1>8, <2>1 DEF Deposit, Withdraw, Borrow, Repay
<1>9. CASE HandleBankruptcy
  <2>1. "RECEIVERSHIP" \notin
           [Target EXCEPT !.debt = 0, !.flags = @ \union {"DISABLED"}].flags
    BY <1>2 DEF Account
  <2> QED
    BY <1>3, <1>9, <2>1 DEF HandleBankruptcy
<1>10. CASE StartFlashloan \/ EndFlashloan \/ Freeze \/ Unfreeze
  <2>1. \A f \in SUBSET Flags : "RECEIVERSHIP" \notin f =>
           "RECEIVERSHIP" \notin [Target EXCEPT !.flags = f].flags
    BY <1>2 DEF Account
  <2>2. \A g \in {"FLASHLOAN", "FROZEN"} :
           /\ Target.flags \union {g} \in SUBSET Flags /\ Target.flags \ {g} \in SUBSET Flags
           /\ "RECEIVERSHIP" \notin Target.flags \union {g}
           /\ "RECEIVERSHIP" \notin Target.flags \ {g}
    BY <1>2 DEF Account, Flags
  <2> QED
    BY <1>3, <1>10, <2>1, <2>2 DEF StartFlashloan, EndFlashloan, Freeze, Unfreeze
<1>11. CASE InitLiquidationRecord
  <2>1. "RECEIVERSHIP" \notin [Target EXCEPT !.record = "linked"].flags
    BY <1>2 DEF Account
  <2> QED
    BY <1>3, <1>11, <2>1 DEF InitLiquidationRecord
<1>12. CASE InitializeAccount
  <2>1. "RECEIVERSHIP" \notin
           [Target EXCEPT !.exists = TRUE, !.authority = Ix.who].flags
    BY <1>2 DEF Account
  <2> QED
    BY <1>3, <1>12, <2>1 DEF InitializeAccount
<1>13. CASE CloseAccount
  <2>1. \A r : "RECEIVERSHIP" \notin [Absent EXCEPT !.record = r].flags
    BY DEF Absent
  <2> QED
    BY <1>3, <1>13, <2>1 DEF CloseAccount
<1> QED
  BY <1>4, <1>5, <1>6, <1>7, <1>8, <1>9, <1>10, <1>11, <1>12, <1>13 DEF Handler

\* A transaction that cannot commit stays one, until it aborts.
LEMMA DoomedStays ==
  ASSUME TypeOK, Doomed, Handler \/ Unrelated
  PROVE  Doomed'
<1>1. /\ pc \in DOMAIN tx.ixs /\ pc' = pc + 1 /\ UNCHANGED <<saved, price, tx>>
      /\ pc \in Nat /\ Len(tx.ixs) \in Nat /\ pc <= Len(tx.ixs)
  BY HandlerRuns DEF Unrelated, TypeOK, Transaction, Doomed
<1>2. ~StartLiquidation /\ ~StartDeleverage
  <2>1. ~IsIx(pc, "start_liquidation") /\ ~IsIx(pc, "start_deleverage")
    BY <1>1 DEF Doomed
  <2> QED
    BY <2>1 DEF StartLiquidation, StartDeleverage, At, ValidateInstructions, TopLevel,
                IsIx, Ix
<1>3. pc # Len(tx.ixs)
  <2> SUFFICES ASSUME pc = Len(tx.ixs) PROVE FALSE
    OBVIOUS
  <2>1. Ix.op = "end_liquidation"
    BY DEF Doomed, EndLast, IsIx, Ix
  <2>2. EndLiquidation
    BY <2>1 DEF Handler, Unrelated, StartFlashloan, EndFlashloan, StartLiquidation,
         StartDeleverage, EndDeleverage, InitLiquidationRecord, Deposit, Withdraw,
         Borrow, Repay, Liquidate, HandleBankruptcy, InitializeAccount,
         TransferToNewAccount, Freeze, Unfreeze, CloseAccount, At
  <2>3. "RECEIVERSHIP" \in accts[Ix.acct].flags /\ Ix.acct \in Accounts
    BY <1>1, <2>2, TargetType DEF EndLiquidation, EndReceivership, Target
  <2> QED
    BY <2>3 DEF Doomed
<1>4. \A a \in Accounts : "RECEIVERSHIP" \notin accts'[a].flags
  BY <1>2, NoneOpens DEF Doomed
<1>5. pc' <= Len(tx.ixs) /\ EndLast("end_liquidation")'
  BY <1>1, <1>3 DEF Doomed, EndLast, IsIx
<1>6. \A i \in pc' .. Len(tx.ixs) :
         ~IsIx(i, "start_liquidation")' /\ ~IsIx(i, "start_deleverage")'
  BY <1>1 DEF Doomed, IsIx
<1> QED
  BY <1>1, <1>4, <1>5, <1>6 DEF Doomed

\* Nobody acts in the stead of an owner who did not consent, but in receivership.
LEMMA MeasuredAuthority ==
  ASSUME NEW a \in Accounts, Measured(a), ~Consented(saved[a])
  PROVE  /\ Admin \notin tx.signers /\ RiskAdmin \notin tx.signers
         /\ ~Authorized(accts[a], FALSE)
         /\ Authorized(accts[a], TRUE) => "RECEIVERSHIP" \in accts[a].flags
         /\ "FROZEN" \in accts[a].flags \/ accts[a].authority \notin tx.signers
<1>1. /\ Admin \notin tx.signers /\ RiskAdmin \notin tx.signers
      /\ "FROZEN" \in accts[a].flags \/ accts[a].authority \notin tx.signers
  BY DEF Measured, Consented
<1> QED
  BY <1>1 DEF Authorized, SignerAuthorized

\* The fees of an account, measured at the next instruction
LEMMA CappedNext ==
  ASSUME TypeOK, pc' = pc + 1, UNCHANGED <<saved, price, tx>>, NEW a \in Accounts,
         FeesCapped(saved[a], accts'[a], Liquidations(pc))
  PROVE  FeesCapped(saved[a], accts[a], Liquidations(pc - 1))'
<1>1. Liquidations(pc - 1)' = Liquidations(pc)
  <2>1. pc' - 1 = pc
    BY DEF TypeOK, Transaction
  <2> QED
    BY <2>1 DEF Liquidations
<1> QED
  BY <1>1 DEF FeesCapped, Lost, Relieved, AssetValue, LiabValue

\* An instruction that takes nothing from an account, and opens no receivership of it
LEMMA MeasuredKept ==
  ASSUME TypeOK, TypeOK', pc \in DOMAIN tx.ixs, pc' = pc + 1,
         UNCHANGED <<saved, price, tx>>, Doomed => Doomed',
         NEW a \in Accounts, Measured(a),
         accts'[a].exists, accts'[a].authority = accts[a].authority,
         "FROZEN" \in accts'[a].flags <=> "FROZEN" \in accts[a].flags,
         "RECEIVERSHIP" \in accts'[a].flags <=> "RECEIVERSHIP" \in accts[a].flags,
         accts'[a].snapshot = accts[a].snapshot,
         "RECEIVERSHIP" \notin accts[a].flags =>
            accts'[a].coll = accts[a].coll /\ accts'[a].debt <= accts[a].debt
  PROVE  Measured(a)'
<1>1. /\ pc \in Nat /\ pc > 0 /\ pc - 1 \in Nat /\ pc - 1 + 1 = pc
      /\ Len(tx.ixs) \in Nat /\ pc <= Len(tx.ixs)
      /\ saved[a] \in Account /\ accts[a] \in Account /\ accts'[a] \in Account
      /\ price \in Prices
  BY DEF TypeOK, Transaction
<1>2. "RECEIVERSHIP" \in accts'[a].flags =>
         /\ accts'[a].snapshot.assetsEquity = AssetValue(saved[a], Scale)'
         /\ accts'[a].snapshot.liabsEquity = LiabValue(saved[a], Scale)'
  BY DEF Measured, AssetValue, LiabValue
<1>3. ASSUME "RECEIVERSHIP" \notin accts'[a].flags
      PROVE  FeesCapped(saved[a], accts[a], Liquidations(pc - 1))' \/ Doomed'
  <2>1. FeesCapped(saved[a], accts[a], Liquidations(pc - 1)) \/ Doomed
    BY <1>1, <1>3 DEF Measured
  <2>2. ASSUME FeesCapped(saved[a], accts[a], Liquidations(pc - 1))
        PROVE  FeesCapped(saved[a], accts'[a], Liquidations(pc))
    BY <1>1, <1>3, <2>2, LiquidationsStep, CappedStays
  <2> QED
    BY <2>1, <2>2, CappedNext
<1> QED
  BY <1>2, <1>3 DEF Measured

\* A handler of another account
LEMMA OtherMeasured ==
  ASSUME TypeOK, TypeOK', pc \in DOMAIN tx.ixs, pc' = pc + 1,
         UNCHANGED <<saved, price, tx>>, Doomed => Doomed',
         NEW a \in Accounts, Measured(a), accts'[a] = accts[a]
  PROVE  Measured(a)'
<1>1. accts[a].debt <= accts[a].debt
  BY DEF TypeOK, Account
<1> QED
  BY <1>1, MeasuredKept DEF Measured

\* A handler of one account leaves the others alone.
LEMMA LeaveOther ==
  ASSUME TypeOK, NEW x, Leave(x), NEW a \in Accounts, a # Ix.acct
  PROVE  accts'[a] = accts[a]
  BY DEF Leave, TypeOK

\* The balances of an account that did not consent only change in receivership, or when
\* its bad debt is written off.
LEMMA BalancesMeasured ==
  ASSUME TypeOK, TypeOK', Doomed => Doomed', NEW a \in Accounts, Measured(a),
         ~Consented(saved[a]), Deposit \/ Withdraw \/ Borrow \/ Repay \/ HandleBankruptcy
  PROVE  Measured(a)'
<1>1. pc \in DOMAIN tx.ixs /\ pc' = pc + 1 /\ UNCHANGED <<saved, price, tx>>
  BY HandlerRuns DEF Handler
<1>2. CASE a # Ix.acct
  <2>1. accts'[a] = accts[a]
    BY <1>2, LeaveOther DEF Deposit, Withdraw, Borrow, Repay, HandleBankruptcy
  <2> QED
    BY <1>1, <2>1, OtherMeasured
<1>3. CASE a = Ix.acct
  <2>1. Target = accts[a] /\ accts[a] \in Account /\ Ix.n \in Nat
    BY <1>1, <1>3, TargetType DEF Target, TypeOK
  <2>2. ~Deposit /\ ~Borrow
    BY <2>1, MeasuredAuthority DEF Deposit, Borrow
  <2>3. CASE Withdraw \/ Repay
    <3>1. "RECEIVERSHIP" \in accts[a].flags
      BY <2>1, <2>3, MeasuredAuthority DEF Withdraw, Repay
    <3>2. \/ accts'[a] = [accts[a] EXCEPT !.coll = @ - Ix.n]
          \/ accts'[a] = [accts[a] EXCEPT !.debt = @ - Ix.n]
      BY <1>3, <2>1, <2>3 DEF Withdraw, Repay, Leave, TypeOK
    <3>3. /\ accts'[a].exists = accts[a].exists
          /\ accts'[a].authority = accts[a].authority
          /\ accts'[a].flags = accts[a].flags /\ accts'[a].snapshot = accts[a].snapshot
      BY <2>1, <3>2 DEF Account
    <3> QED
      BY <1>1, <3>1, <3>3, MeasuredKept DEF Measured
  <2>4. CASE HandleBankruptcy
    <3>1. accts'[a] = [accts[a] EXCEPT !.debt = 0, !.flags = @ \union {"DISABLED"}]
      BY <1>3, <2>1, <2>4 DEF HandleBankruptcy, Leave, TypeOK
    <3>2. /\ accts'[a].exists = accts[a].exists
          /\ accts'[a].authority = accts[a].authority
          /\ accts'[a].flags = accts[a].flags \union {"DISABLED"}
          /\ accts'[a].snapshot = accts[a].snapshot
          /\ accts'[a].coll = accts[a].coll /\ accts'[a].debt <= accts[a].debt
      BY <2>1, <3>1 DEF Account
    <3> QED
      BY <1>1, <3>2, MeasuredKept DEF Measured
  <2> QED
    BY <2>2, <2>3, <2>4
<1> QED
  BY <1>2, <1>3

\* A liquidation costs the liquidatee the fees on the debt it pays for.
LEMMA LiquidateMeasured ==
  ASSUME TypeOK, TypeOK', Doomed => Doomed', NEW a \in Accounts, Measured(a),
         ~Consented(saved[a]), Liquidate
  PROVE  Measured(a)'
<1>1. pc \in DOMAIN tx.ixs /\ pc' = pc + 1 /\ UNCHANGED <<saved, price, tx>>
  BY DEF Liquidate, At
<1>2. Ix.acct \in Accounts /\ Ix.to \in Accounts /\ Ix.n \in Nat
  BY <1>1, TargetType
<1>3. a # Ix.acct
  BY MeasuredAuthority DEF Liquidate, Target
<1>4. CASE a # Ix.to
  <2>1. accts'[a] = accts[a]
    BY <1>2, <1>3, <1>4 DEF Liquidate, TypeOK
  <2> QED
    BY <1>1, <2>1, OtherMeasured
<1>5. CASE a = Ix.to
  <2> DEFINE q == Payoff(Ix.n, FinalDiscount)
  <2>1. /\ pc \in Nat /\ pc > 0 /\ pc - 1 \in Nat /\ pc - 1 + 1 = pc
        /\ Len(tx.ixs) \in Nat /\ pc <= Len(tx.ixs)
        /\ saved[a] \in Account /\ accts[a] \in Account /\ accts'[a] \in Account
        /\ price \in Prices
    BY <1>1 DEF TypeOK, Transaction
  <2>2. q \in Nat
    BY <1>2, <2>1, PayoffType, RiskAssumption
  <2>3. accts'[a] = [accts[a] EXCEPT !.coll = @ - Ix.n, !.debt = @ - q]
    BY <1>2, <1>3, <1>5 DEF Liquidate, TypeOK
  <2>4. /\ "RECEIVERSHIP" \notin accts[a].flags
        /\ Ix.n <= accts[a].coll /\ q <= accts[a].debt
    <3>1. /\ "RECEIVERSHIP" \notin accts[a].flags
          /\ accts[a].coll >= Ix.n /\ accts[a].debt >= q
      BY <1>5 DEF Liquidate, NoFlag, Seizable, Covered
    <3> HIDE DEF q
    <3> QED
      BY <1>2, <2>1, <2>2, <3>1 DEF Account
  <2> HIDE DEF q
  <2>5. /\ accts'[a].coll = accts[a].coll - Ix.n /\ accts'[a].debt = accts[a].debt - q
        /\ accts'[a].exists = accts[a].exists
        /\ accts'[a].authority = accts[a].authority
        /\ accts'[a].flags = accts[a].flags
    BY <2>1, <2>3 DEF Account
  <2>6. FeesCapped(saved[a], accts[a], Liquidations(pc - 1)) \/ Doomed
    BY <2>1, <2>4 DEF Measured
  <2>7. ASSUME FeesCapped(saved[a], accts[a], Liquidations(pc - 1))
        PROVE  FeesCapped(saved[a], accts'[a], Liquidations(pc))
    <3>1. /\ Liquidations(pc - 1) \in Nat
          /\ Liquidations(pc) = Liquidations(pc - 1) + 1
      BY <1>1, LiquidationsStep DEF Liquidate, At
    <3>2. FeesCapped(saved[a], accts'[a], Liquidations(pc - 1) + 1)
      BY <1>2, <2>1, <2>4, <2>5, <2>7, <3>1, LiquidationLoss DEF q
    <3> QED
      BY <3>1, <3>2
  <2>8. FeesCapped(saved[a], accts[a], Liquidations(pc - 1))' \/ Doomed'
    BY <1>1, <2>6, <2>7, CappedNext
  <2> QED
    BY <1>1, <2>4, <2>5, <2>8 DEF Measured
<1> QED
  BY <1>4, <1>5

\* A flashloan is its owner's to open and close.
LEMMA FlashloanMeasured ==
  ASSUME TypeOK, TypeOK', Doomed => Doomed', NEW a \in Accounts, Measured(a),
         ~Consented(saved[a]), StartFlashloan \/ EndFlashloan
  PROVE  Measured(a)'
<1>1. pc \in DOMAIN tx.ixs /\ pc' = pc + 1 /\ UNCHANGED <<saved, price, tx>>
  BY HandlerRuns DEF Handler
<1>2. a # Ix.acct
  BY MeasuredAuthority DEF StartFlashloan, EndFlashloan, Target, NoFlag
<1>3. accts'[a] = accts[a]
  BY <1>2, LeaveOther DEF StartFlashloan, EndFlashloan
<1> QED
  BY <1>1, <1>3, OtherMeasured

\* So are the other instructions on an account, but for the creation of its record.
LEMMA LifeMeasured ==
  ASSUME TypeOK, TypeOK', Doomed => Doomed', NEW a \in Accounts, Measured(a),
         ~Consented(saved[a]),
         \/ InitLiquidationRecord \/ InitializeAccount \/ TransferToNewAccount
         \/ Freeze \/ Unfreeze \/ CloseAccount
  PROVE  Measured(a)'
<1>1. pc \in DOMAIN tx.ixs /\ pc' = pc + 1 /\ UNCHANGED <<saved, price, tx>>
  BY HandlerRuns DEF Handler
<1>2. /\ ~Freeze /\ ~Unfreeze
      /\ CloseAccount => a # Ix.acct
      /\ InitializeAccount => a # Ix.acct
      /\ TransferToNewAccount => a # Ix.acct /\ a # Ix.to
  BY MeasuredAuthority
     DEF Freeze, Unfreeze, CloseAccount, InitializeAccount, TransferToNewAccount, Target,
         NoFlag, Measured
<1>3. CASE CloseAccount \/ InitializeAccount
  <2>1. accts'[a] = accts[a]
    BY <1>2, <1>3, LeaveOther DEF CloseAccount, InitializeAccount
  <2> QED
    BY <1>1, <2>1, OtherMeasured
<1>4. CASE TransferToNewAccount
  <2>1. accts'[a] = accts[a]
    BY <1>2, <1>4 DEF TransferToNewAccount, TypeOK
  <2> QED
    BY <1>1, <2>1, OtherMeasured
<1>5. CASE InitLiquidationRecord /\ a # Ix.acct
  <2>1. accts'[a] = accts[a]
    BY <1>5, LeaveOther DEF InitLiquidationRecord
  <2> QED
    BY <1>1, <2>1, OtherMeasured
<1>6. CASE InitLiquidationRecord /\ a = Ix.acct
  <2>1. accts[a] \in Account
    BY DEF TypeOK
  <2>2. accts'[a] = [accts[a] EXCEPT !.record = "linked"]
    BY <1>6 DEF InitLiquidationRecord, Leave, TypeOK, Target
  <2>3. /\ accts'[a].exists = accts[a].exists
        /\ accts'[a].authority = accts[a].authority
        /\ accts'[a].flags = accts[a].flags /\ accts'[a].snapshot = accts[a].snapshot
        /\ accts'[a].coll = accts[a].coll /\ accts'[a].debt <= accts[a].debt
    BY <2>1, <2>2 DEF Account
  <2> QED
    BY <1>1, <2>3, MeasuredKept DEF Measured
<1> QED
  BY <1>2, <1>3, <1>4, <1>5, <1>6

\* A receivership is measured against the positions from before the transaction.
LEMMA StartReceivershipMeasured ==
  ASSUME TypeOK, TypeOK', HealthInv, Doomed => Doomed', NEW a \in Accounts, Measured(a),
         ~Consented(saved[a]), StartLiquidation \/ StartDeleverage
  PROVE  Measured(a)'
<1>1. StartLiquidation
  BY MeasuredAuthority DEF StartDeleverage
<1>2. /\ pc \in DOMAIN tx.ixs /\ pc' = pc + 1 /\ UNCHANGED <<saved, price, tx>> /\ pc > 0
  BY <1>1, HandlerRuns DEF Handler, TypeOK, Transaction
<1>3. CASE a # Ix.acct
  <2>1. accts'[a] = accts[a]
    BY <1>1, <1>3, LeaveOther DEF StartLiquidation, StartReceivership
  <2> QED
    BY <1>2, <2>1, OtherMeasured
<1>4. CASE a = Ix.acct
  <2>1. Target = accts[a] /\ accts[a] \in Account
    BY <1>4 DEF Target, TypeOK
  <2>2. accts[a].coll = saved[a].coll /\ accts[a].debt = saved[a].debt
    <3>1. \A i \in 1 .. pc - 1 : MayPrecedeStart(i)
      BY <1>1 DEF StartLiquidation, ValidateInstructions, StartFirst
    <3> QED
      BY <1>2, <3>1 DEF HealthInv
  <2>3. accts'[a] = [accts[a] EXCEPT !.flags = @ \union {"RECEIVERSHIP"} \union {},
                                     !.receiver = Ix.who,
                                     !.snapshot = TakeSnapshot(accts[a])]
    BY <1>1, <1>4, <2>1 DEF StartLiquidation, StartReceivership, Leave, TypeOK
  <2>4. /\ accts'[a].exists = accts[a].exists
        /\ accts'[a].authority = accts[a].authority
        /\ accts'[a].flags = accts[a].flags \union {"RECEIVERSHIP"}
        /\ accts'[a].snapshot = TakeSnapshot(accts[a])
    BY <2>1, <2>3 DEF Account
  <2>5. /\ accts'[a].snapshot.assetsEquity = AssetValue(saved[a], Scale)'
        /\ accts'[a].snapshot.liabsEquity = LiabValue(saved[a], Scale)'
    BY <1>2, <2>2, <2>4 DEF TakeSnapshot, AssetValue, LiabValue
  <2> QED
    BY <1>2, <2>4, <2>5 DEF Measured
<1> QED
  BY <1>3, <1>4

\* With the receivership the transaction has ended, or nothing can end it: its last
\* instruction is another end, and it had the one start.
LEMMA EndReceivershipDooms ==
  ASSUME TypeOK, \A a \in Accounts : Pending(a), EndLiquidation
  PROVE  pc' > Len(tx'.ixs) \/ Doomed'
<1>1. /\ pc \in DOMAIN tx.ixs /\ pc' = pc + 1 /\ tx' = tx
      /\ TopLevel /\ Ix.op = "end_liquidation" /\ "RECEIVERSHIP" \in Target.flags
      /\ pc \in Nat /\ Len(tx.ixs) \in Nat
  BY DEF EndLiquidation, EndReceivership, Leave, At, TypeOK, Transaction
<1>2. PICK c \in Accounts : c = Ix.acct
  BY <1>1, TargetType
<1>3. Target \in Account /\ Target = accts[c]
  BY <1>1, <1>2, TargetType DEF Target
<1>4. ASSUME NEW a \in Accounts, "RECEIVERSHIP" \in accts[a].flags
      PROVE  ReceivershipPending(a, "start_liquidation", "end_liquidation")
  <2>1. ~ReceivershipPending(a, "start_deleverage", "end_deleverage")
    BY <1>1 DEF ReceivershipPending, OnlyReceivershipOps, TopLevel, Ix
  <2> QED
    BY <1>4, <2>1 DEF Pending
<1>5. PICK s \in 1 .. pc - 1 : /\ {i \in DOMAIN tx.ixs : IsIx(i, "start_liquidation")} = {s}
                               /\ tx.ixs[s].acct = c
  BY <1>1, <1>3, <1>4 DEF ReceivershipPending
<1>6. /\ EndLast("end_liquidation")
      /\ OnlyReceivershipOps("start_liquidation", "end_liquidation")
  BY <1>1, <1>3, <1>4 DEF ReceivershipPending
<1>7. \A a \in Accounts : "RECEIVERSHIP" \in accts[a].flags => a = c
  BY <1>4, <1>5 DEF ReceivershipPending
<1>8. \A a \in Accounts : "RECEIVERSHIP" \notin accts'[a].flags
  <2>1. accts'[c] = Released(Target, {})
    BY <1>2 DEF EndLiquidation, Leave, TypeOK
  <2>2. "RECEIVERSHIP" \notin accts'[c].flags
    BY <1>3, <2>1 DEF Released, Account
  <2>3. \A a \in Accounts \ {c} : accts'[a] = accts[a]
    BY <1>2 DEF EndLiquidation, Leave, TypeOK
  <2> QED
    BY <1>7, <2>2, <2>3
<1>9. \A i \in pc' .. Len(tx.ixs) :
         ~IsIx(i, "start_liquidation") /\ ~IsIx(i, "start_deleverage")
  <2> TAKE i \in pc' .. Len(tx.ixs)
  <2>1. i \in DOMAIN tx.ixs /\ i # s
    BY <1>1, <1>5 DEF TypeOK, Transaction
  <2>2. ~IsIx(i, "start_liquidation")
    BY <1>5, <2>1
  <2>3. ~IsIx(i, "start_deleverage")
    BY <1>6, <2>1 DEF OnlyReceivershipOps, IsIx
  <2> QED
    BY <2>2, <2>3
<1>10. EndLast("end_liquidation")'
  BY <1>1, <1>6 DEF EndLast, IsIx
<1>11. \A i \in pc' .. Len(tx.ixs) :
         ~IsIx(i, "start_liquidation")' /\ ~IsIx(i, "start_deleverage")'
  BY <1>1, <1>9 DEF IsIx
<1> QED
  BY <1>1, <1>8, <1>10, <1>11 DEF Doomed

\* It ends with the premium capped, unless the account was small enough to close out.
LEMMA EndReceivershipMeasured ==
  ASSUME TypeOK, TypeOK', \A b \in Accounts : Pending(b), Doomed => Doomed',
         NEW a \in Accounts, Measured(a), ~Consented(saved[a]),
         AssetValue(saved[a], Scale) >= Closeout, EndLiquidation \/ EndDeleverage
  PROVE  Measured(a)'
<1>1. EndLiquidation
  BY MeasuredAuthority DEF EndDeleverage
<1>2. pc \in DOMAIN tx.ixs /\ pc' = pc + 1 /\ UNCHANGED <<saved, price, tx>>
  BY <1>1, HandlerRuns DEF Handler
<1>3. CASE a # Ix.acct
  <2>1. accts'[a] = accts[a]
    BY <1>1, <1>3, LeaveOther DEF EndLiquidation
  <2> QED
    BY <1>2, <2>1, OtherMeasured
<1>4. CASE a = Ix.acct
  <2>1. Target = accts[a] /\ accts[a] \in Account /\ saved[a] \in Account
        /\ price \in Prices
    BY <1>4 DEF Target, TypeOK
  <2>2. /\ accts[a].snapshot.assetsEquity = AssetValue(saved[a], Scale)
        /\ accts[a].snapshot.liabsEquity = LiabValue(saved[a], Scale)
    BY <1>1, <2>1 DEF EndLiquidation, EndReceivership, Measured
  <2>3. ~(AssetValue(saved[a], Scale) < Closeout)
    BY <2>1, LossType, RiskAssumption
  <2>4. PremiumOk(accts[a])
    BY <1>1, <2>1, <2>2, <2>3 DEF EndLiquidation
  <2>5. accts'[a] = Released(accts[a], {})
    BY <1>1, <1>4, <2>1 DEF EndLiquidation, Leave, TypeOK
  <2>6. /\ accts'[a].exists = accts[a].exists
        /\ accts'[a].authority = accts[a].authority
        /\ accts'[a].flags = accts[a].flags \ {"RECEIVERSHIP"}
        /\ accts'[a].coll = accts[a].coll /\ accts'[a].debt = accts[a].debt
    BY <2>1, <2>5 DEF Released, Account
  <2>7. PremiumCapped(saved[a], accts[a])'
    <3>1. PremiumCapped(saved[a], accts'[a])
      BY <2>2, <2>4, <2>6
         DEF PremiumOk, PremiumCapped, Seized, Repaid, Lost, Relieved, AssetValue,
             LiabValue
    <3> QED
      BY <1>2, <3>1 DEF PremiumCapped, Lost, Relieved, AssetValue, LiabValue
  <2>8. pc' > Len(tx'.ixs) \/ Doomed'
    BY <1>1, EndReceivershipDooms
  <2> QED
    BY <1>2, <2>6, <2>7, <2>8 DEF Measured
<1> QED
  BY <1>3, <1>4

\* No transaction runs at the start.
LEMMA InitSeizure == Init => SeizureInv
  BY DEF Init, SeizureInv

\* The invariant of seizures is inductive.
LEMMA StepSeizure ==
  BracketInv /\ HealthInv /\ SeizureInv /\ [Next]_vars => SeizureInv'
<1> SUFFICES ASSUME BracketInv, HealthInv, SeizureInv, [Next]_vars PROVE SeizureInv'
  OBVIOUS
<1>1. TypeOK /\ TypeOK'
  BY StepType DEF BracketInv
<1>2. CASE Submit
  <2>1. /\ accts' = saved /\ saved' = saved /\ price' = price /\ pc' = 1
        /\ \A a \in Accounts : "RECEIVERSHIP" \notin saved[a].flags
    BY <1>2 DEF Submit, BracketInv, BracketsClosed, NoFlag, Brackets
  <2>2. ASSUME NEW a \in Accounts
        PROVE  FeesCapped(saved[a], accts[a], Liquidations(pc - 1))'
    <3>1. saved[a] \in Account /\ price \in Prices
      BY <1>1 DEF TypeOK
    <3>2. Lost(saved[a], saved[a]) = 0 /\ Relieved(saved[a], saved[a]) = 0
      BY <3>1, LossType DEF Lost, Relieved
    <3>3. 0 * FinalDiscount <= 0 * Scale + 0 * (Scale * Scale)
      BY RiskAssumption, NatProduct
    <3>4. FeesCapped(saved[a], saved[a], 0)
      BY <3>2, <3>3 DEF FeesCapped
    <3>5. Liquidations(pc - 1)' = 0
      <4>1. {i \in 1 .. pc' - 1 : tx'.ixs[i].op = "liquidate"} = {}
        BY <2>1
      <4> QED
        BY <4>1, FS_EmptySet DEF Liquidations
    <3> QED
      BY <2>1, <3>4, <3>5 DEF FeesCapped, Lost, Relieved, AssetValue, LiabValue
  <2>3. \A a \in Accounts : saved'[a].exists => Measured(a)'
    BY <2>1, <2>2 DEF Measured
  <2> QED
    BY <2>3 DEF SeizureInv
<1>3. CASE Commit \/ Abort \/ PriceMove
  <2>1. pc' = 0
    BY <1>3 DEF Commit, Abort, PriceMove
  <2> QED
    BY <2>1 DEF SeizureInv
<1>4. CASE Unrelated \/ Handler
  <2>1. /\ pc \in DOMAIN tx.ixs /\ pc' = pc + 1 /\ UNCHANGED <<saved, price, tx>>
        /\ pc > 0
    BY <1>1, <1>4, HandlerRuns DEF Unrelated, TypeOK, Transaction
  <2>2. Doomed => Doomed'
    BY <1>1, <1>4, DoomedStays
  <2>3. \A a \in Accounts : Pending(a)
    BY <2>1 DEF BracketInv
  <2>4. ASSUME NEW a \in Accounts, saved'[a].exists, ~Consented(saved[a])',
               AssetValue(saved[a], Scale)' >= Closeout
        PROVE  Measured(a)'
    <3>1. /\ saved[a].exists /\ ~Consented(saved[a])
          /\ AssetValue(saved[a], Scale) >= Closeout
      BY <2>1, <2>4 DEF Consented, AssetValue
    <3>2. Measured(a)
      BY <2>1, <3>1 DEF SeizureInv
    <3>3. CASE Unrelated
      BY <1>1, <2>1, <2>2, <3>2, <3>3, OtherMeasured DEF Unrelated
    <3>4. CASE Handler
      BY <1>1, <2>2, <2>3, <3>1, <3>2, <3>4, BalancesMeasured, LiquidateMeasured,
         FlashloanMeasured, LifeMeasured, StartReceivershipMeasured,
         EndReceivershipMeasured DEF Handler
    <3> QED
      BY <1>4, <3>3, <3>4
  <2> QED
    BY <2>4 DEF SeizureInv
<1>5. CASE UNCHANGED vars
  <2>1. UNCHANGED <<accts, saved, price, tx, pc>>
    BY <1>5 DEF vars
  <2>2. /\ Doomed' <=> Doomed
        /\ Liquidations(pc - 1)' = Liquidations(pc - 1)
    BY <2>1 DEF Doomed, EndLast, IsIx, Liquidations
  <2>3. ASSUME NEW a \in Accounts
        PROVE  /\ Consented(saved[a])' <=> Consented(saved[a])
               /\ AssetValue(saved[a], Scale)' = AssetValue(saved[a], Scale)
               /\ LiabValue(saved[a], Scale)' = LiabValue(saved[a], Scale)
               /\ PremiumCapped(saved[a], accts[a])' <=> PremiumCapped(saved[a], accts[a])
    BY <2>1 DEF Consented, AssetValue, PremiumCapped, Lost, Relieved, LiabValue
  <2>4. ASSUME NEW a \in Accounts
        PROVE  FeesCapped(saved[a], accts[a], Liquidations(pc - 1))'
                  <=> FeesCapped(saved[a], accts[a], Liquidations(pc - 1))
    BY <2>1, <2>2 DEF FeesCapped, AssetValue, Lost, Relieved, LiabValue
  <2>5. \A a \in Accounts : Measured(a) => Measured(a)'
    BY <2>1, <2>2, <2>3, <2>4 DEF Measured
  <2> QED
    BY <2>1, <2>3, <2>5 DEF SeizureInv
<1> QED
  BY <1>2, <1>3, <1>4, <1>5 DEF Next, Handler

\* So it holds in every state.
LEMMA SeizureInvariant == Spec => []SeizureInv
  BY InitSeizure, StepSeizure, BracketsInvariant, HealthInvariant, PTL DEF Spec

\* The inductive invariant of the accounts, for every set of transactions of any length.
THEOREM AccountsInvariant == Spec => []IInv
  BY BracketsInvariant, ConsentInvariant, HealthInvariant, SeizureInvariant, PTL DEF IInv

\* Whoever did not consent loses no more than the premium of one receivership, or the
\* fees of liquidations, over the debt it is relieved of: whatever instructions the
\* transaction is made of, and through whichever programs.
THEOREM SeizuresAreBounded == Spec => SeizureBounded
<1>1. ASSUME BracketInv, SeizureInv, [Next]_vars
      PROVE  [Commits => \A a \in Accounts :
                saved[a].exists /\ ~Consented(saved[a]) =>
                    \/ AssetValue(saved[a], Scale) < Closeout
                    \/ PremiumCapped(saved[a], saved'[a])
                    \/ FeesCapped(saved[a], saved'[a], Liquidations(Len(tx.ixs)))]_vars
  <2>1. Commits => Commit
    BY <1>1, HandlerRuns
       DEF Next, Handler, vars, Commits, Submit, Abort, PriceMove, Unrelated
  <2>2. ASSUME Commit, NEW a \in Accounts, saved[a].exists, ~Consented(saved[a]),
               ~(AssetValue(saved[a], Scale) < Closeout)
        PROVE  \/ PremiumCapped(saved[a], saved'[a])
               \/ FeesCapped(saved[a], saved'[a], Liquidations(Len(tx.ixs)))
    <3>1. /\ pc > 0 /\ pc - 1 = Len(tx.ixs) /\ ~(pc <= Len(tx.ixs))
          /\ saved[a] \in Account /\ price \in Prices
      BY <1>1, <2>2 DEF BracketInv, TypeOK, Transaction, Commit
    <3>2. AssetValue(saved[a], Scale) >= Closeout
      BY <2>2, <3>1, LossType, RiskAssumption
    <3>3. Measured(a)
      BY <1>1, <2>2, <3>1, <3>2 DEF SeizureInv
    <3>4. saved' = accts
      BY <2>2 DEF Commit
    <3>5. "RECEIVERSHIP" \notin accts[a].flags
      BY <1>1, <2>2, <3>4, CommitClosed DEF BracketsClosed, NoFlag, Brackets
    <3> QED
      BY <3>1, <3>3, <3>4, <3>5 DEF Measured, Doomed
  <2> QED
    BY <2>1, <2>2
<1> QED
  BY <1>1, BracketsInvariant, SeizureInvariant, PTL DEF Spec, SeizureBounded

=============================================================================
