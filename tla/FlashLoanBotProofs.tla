------------------------- MODULE FlashLoanBotProofs -------------------------
(***************************************************************************)
(* Proofs about flash_loan_bot: what a committed cycle may cost, for every *)
(* loan, slippage, fee and market, and whatever the market does between    *)
(* simulation and execution; that the same holds of a whole run; and that  *)
(* a table taken for ready is complete.                                    *)
(***************************************************************************)
EXTENDS FlashLoanBot, TLAPS

-----------------------------------------------------------------------------
(* The cycle *)

\* The minimums the client asks for are amounts.
LEMMA MinimumType == minSolOut \in Nat /\ minUsdcBack \in Nat
  <1> DEFINE rest == SlippageUnit - SLIPPAGE
  <1>1. rest \in Nat
    BY AmountAssumption
  <1>2. \A a, b \in Nat : a * b \in Nat
    OBVIOUS
  <1>3. LOAN * rest \in Nat
    BY <1>1, <1>2, AmountAssumption
  <1>4. \A a \in Nat, b \in Nat \ {0} : a \div b \in Nat
    OBVIOUS
  <1>5. (LOAN * rest) \div SlippageUnit \in Nat
    BY <1>3, <1>4, AmountAssumption
  <1> QED
    BY <1>5 DEF minSolOut, minUsdcBack, ApplySlippage

\* The place of every instruction in the transaction.
LEMMA Places ==
    /\ DOMAIN Layout = 1 .. 6 /\ Len(Layout) = 6
    /\ Layout[1] = "start" /\ Layout[2] = "borrow" /\ Layout[3] = "raydium"
    /\ Layout[4] = "orca" /\ Layout[5] = "repay" /\ Layout[6] = "end"
  BY DEF Layout

\* An instruction runs at its place.
LEMMA AtPlace ==
    ASSUME pc \in 0 .. 7, Running
    PROVE  /\ At("start") <=> pc = 1
           /\ At("borrow") <=> pc = 2
           /\ At("raydium") <=> pc = 3
           /\ At("orca") <=> pc = 4
           /\ At("repay") <=> pc = 5
           /\ At("end") <=> pc = 6
  <1>1. pc \in DOMAIN Layout <=> pc \in 1 .. 6
    BY Places
  <1>2. pc \in 1 .. 6 => pc = 1 \/ pc = 2 \/ pc = 3 \/ pc = 4 \/ pc = 5 \/ pc = 6
    OBVIOUS
  <1> QED
    BY <1>1, <1>2, Places DEF At

\* Nothing runs outside a simulation or an execution.
LEMMA AtRuns == \A op : At(op) => Running /\ pc \in 1 .. 6
  BY Places DEF At

-----------------------------------------------------------------------------
(* The invariant *)

\* Nothing has run yet.
LEMMA InitInvariant == Init => IInv
  <1> SUFFICES ASSUME Init PROVE IInv
    OBVIOUS
  <1> USE DEF Init
  <1>1. TypeOK
    <2>1. wallet \in Wallet /\ account \in MarginfiAccount
      <3>0. wallet.usdc \in Purses /\ wallet.sol = 0 /\ account.debt \in OldDebts
        OBVIOUS
      <3>1. wallet.usdc \in Nat /\ wallet.sol \in Nat /\ account.debt \in Nat
        <4>1. \A x : (x \in Purses => x \in Nat) /\ (x \in OldDebts => x \in Nat)
          BY AmountAssumption
        <4>2. wallet.usdc \in Nat
          BY <3>0, <4>1
        <4>3. account.debt \in Nat
          BY <3>0, <4>1
        <4>4. wallet.sol \in Nat
          BY <3>0
        <4> QED
          BY <4>2, <4>3, <4>4
      <3>2. wallet = [usdc |-> wallet.usdc, sol |-> wallet.sol]
        OBVIOUS
      <3>3. account = [debt |-> account.debt, active |-> account.active,
                       inFlashloan |-> account.inFlashloan]
        OBVIOUS
      <3>4. account.active \in SUBSET {"usdc", "other"}
            /\ account.inFlashloan \in BOOLEAN
        OBVIOUS
      <3> HIDE DEF Init
      <3> QED
        BY <3>1, <3>2, <3>3, <3>4 DEF Wallet, MarginfiAccount
    <2>2. saved \in [wallet : Wallet, account : MarginfiAccount]
      BY <2>1
    <2>3. pc \in 0 .. Len(Layout) + 1
      BY Places
    <2> QED
      BY <2>1, <2>2, <2>3 DEF TypeOK
  <1>2. ~Running /\ Settled
    BY DEF Running, Settled
  <1>3. DebtIsActive(account) /\ saved.account = account
    BY DEF DebtIsActive
  <1>4. ~saved.account.inFlashloan
    BY <1>3, AmountAssumption
  <1>5. DebtIsActive(saved.account)
    BY <1>3 DEF DebtIsActive
  <1>6. pc = 0 /\ saved = [wallet |-> wallet, account |-> account]
    OBVIOUS
  <1> HIDE DEF Init
  <1> QED
    BY <1>1, <1>2, <1>3, <1>4, <1>5, <1>6 DEF IInv

\* What the wallet and the market hold, as numbers.
LEMMA Amounts ==
    ASSUME TypeOK
    PROVE  /\ wallet.usdc \in Nat /\ wallet.sol \in Nat /\ account.debt \in Nat
           /\ saved.wallet.usdc \in Nat /\ saved.wallet.sol \in Nat
           /\ saved.account.debt \in Nat
           /\ account.active \in SUBSET {"usdc", "other"}
           /\ market.raydium \in Nat /\ market.orca \in Nat
           /\ LOAN \in Nat /\ Fee \in Nat
  BY AmountAssumption DEF TypeOK, Wallet, MarginfiAccount, Market

\* What IInv says while a transaction runs.
LEMMA RunningFacts ==
    ASSUME IInv, Running
    PROVE  /\ TypeOK /\ pc \in 1 .. 7 /\ Progress
           /\ DebtIsActive(account) /\ DebtIsActive(saved.account)
           /\ ~saved.account.inFlashloan /\ Settled
  BY Places DEF IInv, TypeOK

\* An instruction that leaves a wallet and an account that are typed, and in line
\* with the progress of the transaction, preserves the invariant.
LEMMA LeaveInvariant ==
    ASSUME IInv, Running, pc \in 1 .. 6, NEW w \in Wallet, NEW m \in MarginfiAccount,
           Leave(w, m), DebtIsActive(m), Progress'
    PROVE  IInv'
  <1>1. TypeOK'
    BY RunningFacts, Places DEF Leave, TypeOK
  <1>2. Settled' /\ Running' /\ pc' > 0
    BY RunningFacts DEF Leave, Settled, Running
  <1>3. DebtIsActive(account)' /\ DebtIsActive(saved.account)'
    BY RunningFacts DEF Leave, DebtIsActive
  <1>4. ~saved'.account.inFlashloan
    BY RunningFacts DEF Leave
  <1> QED
    BY <1>1, <1>2, <1>3, <1>4 DEF IInv

\* The transaction is abandoned, or its simulation is: all is as it was saved.
LEMMA DiscardInvariant ==
    ASSUME IInv, Running, Discard, UNCHANGED <<saved, market, order>>,
           ~Running', phase' \in {"idle", "simulated"},
           result' = "failed" \/ result' = result
    PROVE  IInv'
  <1>1. TypeOK'
    BY RunningFacts, Places DEF Discard, TypeOK
  <1>2. Settled'
    BY RunningFacts DEF Settled
  <1>3. saved' = [wallet |-> wallet', account |-> account']
    BY RunningFacts DEF Discard, TypeOK
  <1> QED
    BY <1>1, <1>2, <1>3, RunningFacts DEF IInv, Discard, DebtIsActive

-----------------------------------------------------------------------------
(* The instructions *)

\* The flashloan is opened on the account the transaction found.
LEMMA StartInvariant == IInv /\ MarginfiStartFlashloan => IInv'
  <1> SUFFICES ASSUME IInv, MarginfiStartFlashloan PROVE IInv'
    OBVIOUS
  <1> DEFINE m == [account EXCEPT !.inFlashloan = TRUE]
  <1>1. Running /\ pc = 1 /\ Leave(wallet, m)
    BY AtRuns, AtPlace, RunningFacts DEF MarginfiStartFlashloan
  <1>2. m \in MarginfiAccount /\ DebtIsActive(m) /\ wallet \in Wallet
    BY <1>1, RunningFacts DEF TypeOK, MarginfiAccount, DebtIsActive
  <1>3. m.inFlashloan /\ m.debt = account.debt /\ m.active = account.active
    BY <1>1, RunningFacts DEF TypeOK, MarginfiAccount
  <1>4. Progress'
    BY <1>1, <1>3, RunningFacts DEF Progress, Leave
  <1> QED
    BY <1>1, <1>2, <1>4, LeaveInvariant

\* The loan is in the purse and owed.
LEMMA BorrowInvariant == IInv /\ MarginfiBorrow => IInv'
  <1> SUFFICES ASSUME IInv, MarginfiBorrow PROVE IInv'
    OBVIOUS
  <1> DEFINE w == [wallet EXCEPT !.usdc = @ + LOAN]
             m == [account EXCEPT !.debt = @ + LOAN + Fee,
                                  !.active = @ \union {"usdc"}]
  <1>1. Running /\ pc = 2 /\ Leave(w, m)
    BY AtRuns, AtPlace, RunningFacts DEF MarginfiBorrow
  <1>2. /\ w \in Wallet /\ w.usdc = wallet.usdc + LOAN /\ w.sol = wallet.sol
        /\ m \in MarginfiAccount /\ m.debt = account.debt + LOAN + Fee
        /\ m.active = account.active \union {"usdc"}
        /\ m.inFlashloan = account.inFlashloan
    <2> TypeOK
      BY <1>1, RunningFacts
    <2>1. wallet \in Wallet /\ account \in MarginfiAccount
      BY DEF TypeOK
    <2>2. wallet.usdc + LOAN \in Nat /\ wallet.sol \in Nat
      BY Amounts
    <2>3. /\ account.debt + LOAN + Fee \in Nat
          /\ account.active \union {"usdc"} \in SUBSET {"usdc", "other"}
      BY Amounts
    <2>4. w \in Wallet /\ w.usdc = wallet.usdc + LOAN /\ w.sol = wallet.sol
      BY <2>1, <2>2 DEF Wallet
    <2> QED
      BY <2>1, <2>3, <2>4 DEF MarginfiAccount
  <1>3. DebtIsActive(m)
    BY <1>2 DEF DebtIsActive
  <1>4. Progress'
    BY <1>1, <1>2, RunningFacts DEF Progress, Leave
  <1> QED
    BY <1>1, <1>2, <1>3, <1>4, LeaveInvariant

\* The first swap pays its minimum in SOL, or fails.
LEMMA RaydiumInvariant == IInv /\ ProxyRaydium => IInv'
  <1> SUFFICES ASSUME IInv, ProxyRaydium PROVE IInv'
    OBVIOUS
  <1> DEFINE w == [wallet EXCEPT !.usdc = @ - LOAN, !.sol = @ + market.raydium]
  <1>1. Running /\ pc = 3 /\ Leave(w, account) /\ CanRaydium
    BY AtRuns, AtPlace, RunningFacts DEF ProxyRaydium
  <1>2. /\ w \in Wallet
        /\ w.usdc = wallet.usdc - LOAN /\ w.sol = wallet.sol + market.raydium
    <2> TypeOK
      BY <1>1, RunningFacts
    <2>1. wallet \in Wallet
      BY DEF TypeOK
    <2>2. wallet.usdc - LOAN \in Nat /\ wallet.sol + market.raydium \in Nat
      BY <1>1, Amounts DEF CanRaydium
    <2> QED
      BY <2>1, <2>2 DEF Wallet
  <1>3. account \in MarginfiAccount /\ DebtIsActive(account)
    BY <1>1, RunningFacts DEF TypeOK
  <1>4. Progress'
    BY <1>1, <1>2, RunningFacts, Amounts
    DEF Progress, Leave, CanRaydium, SlippageOk, minSolOut, minUsdcBack
  <1> QED
    BY <1>1, <1>2, <1>3, <1>4, LeaveInvariant

\* The second pays its minimum in USDC, out of what the first paid.
LEMMA OrcaInvariant == IInv /\ ProxyOrca => IInv'
  <1> SUFFICES ASSUME IInv, ProxyOrca PROVE IInv'
    OBVIOUS
  <1> DEFINE w == [wallet EXCEPT !.sol = @ - minSolOut, !.usdc = @ + market.orca]
  <1>1. Running /\ pc = 4 /\ Leave(w, account) /\ CanOrca
    BY AtRuns, AtPlace, RunningFacts DEF ProxyOrca
  <1>2. /\ w \in Wallet
        /\ w.usdc = wallet.usdc + market.orca /\ w.sol = wallet.sol - minSolOut
    <2> TypeOK
      BY <1>1, RunningFacts
    <2>1. wallet \in Wallet
      BY DEF TypeOK
    <2>2. wallet.usdc + market.orca \in Nat /\ wallet.sol - minSolOut \in Nat
      BY <1>1, Amounts, MinimumType DEF CanOrca
    <2> QED
      BY <2>1, <2>2 DEF Wallet
  <1>3. account \in MarginfiAccount /\ DebtIsActive(account)
    BY <1>1, RunningFacts DEF TypeOK
  <1>4. Progress'
    <2>1. UNCHANGED <<saved, market, order, minSolOut, minUsdcBack>> /\ pc' = 5
      BY <1>1 DEF Leave, minSolOut, minUsdcBack, ApplySlippage
    <2>2. wallet' = w /\ account' = account
      BY <1>1 DEF Leave
    <2> QED
      BY <1>1, <1>2, <2>1, <2>2, RunningFacts, Amounts, MinimumType
      DEF Progress, CanOrca, SlippageOk
  <1> QED
    BY <1>1, <1>2, <1>3, <1>4, LeaveInvariant

\* The purse can pay the loan and the fee, or the transaction fails.
LEMMA RepayInvariant == IInv /\ MarginfiRepay => IInv'
  <1> SUFFICES ASSUME IInv, MarginfiRepay PROVE IInv'
    OBVIOUS
  <1> DEFINE left == IF order.repayAll THEN account.active \ {"usdc"}
                     ELSE account.active
             w == [wallet EXCEPT !.usdc = @ - Due]
             m == [account EXCEPT !.debt = @ - Due, !.active = left]
  <1>1. Running /\ pc = 5 /\ Leave(w, m) /\ CanRepay
    BY AtRuns, AtPlace, RunningFacts DEF MarginfiRepay
  <1>2. Due \in Nat
    BY <1>1, RunningFacts, Amounts DEF Due
  <1>3. /\ w \in Wallet /\ w.usdc = wallet.usdc - Due /\ w.sol = wallet.sol
        /\ m \in MarginfiAccount /\ m.debt = account.debt - Due /\ m.active = left
        /\ m.inFlashloan = account.inFlashloan
    <2> TypeOK
      BY <1>1, RunningFacts
    <2>0. wallet \in Wallet /\ account \in MarginfiAccount
      BY DEF TypeOK
    <2>1. /\ wallet.usdc - Due \in Nat /\ account.debt - Due \in Nat
          /\ wallet.sol \in Nat
      BY <1>1, <1>2, Amounts DEF CanRepay
    <2>2. left \in SUBSET {"usdc", "other"}
      BY Amounts
    <2>3. w \in Wallet /\ w.usdc = wallet.usdc - Due /\ w.sol = wallet.sol
      BY <2>0, <2>1 DEF Wallet
    <2> QED
      BY <2>0, <2>1, <2>2, <2>3 DEF MarginfiAccount
  <1>4. DebtIsActive(m)
    BY <1>1, <1>3, RunningFacts, Amounts DEF DebtIsActive, Due
  <1>5. Progress'
    <2>1. UNCHANGED <<saved, market, order, minSolOut, minUsdcBack>> /\ pc' = 6
      BY <1>1 DEF Leave, minSolOut, minUsdcBack, ApplySlippage
    <2>2. wallet' = w /\ account' = m
      BY <1>1 DEF Leave
    <2>3. order.repayAll => left \subseteq saved.account.active \ {"usdc"}
      BY <1>1, RunningFacts DEF Progress
    <2> QED
      BY <1>1, <1>2, <1>3, <2>1, <2>2, <2>3, RunningFacts, Amounts, MinimumType
      DEF Progress
  <1> QED
    BY <1>1, <1>3, <1>4, <1>5, LeaveInvariant

\* The flashloan ends on an account that owes nothing.
LEMMA EndInvariant == IInv /\ MarginfiEndFlashloan => IInv'
  <1> SUFFICES ASSUME IInv, MarginfiEndFlashloan PROVE IInv'
    OBVIOUS
  <1> DEFINE m == [account EXCEPT !.inFlashloan = FALSE]
  <1>1. Running /\ pc = 6 /\ Leave(wallet, m) /\ CanEnd
    BY AtRuns, AtPlace, RunningFacts DEF MarginfiEndFlashloan
  <1>2. /\ wallet \in Wallet /\ m \in MarginfiAccount
        /\ m.debt = account.debt /\ m.active = account.active /\ ~m.inFlashloan
    BY <1>1, RunningFacts DEF TypeOK, MarginfiAccount
  <1>3. DebtIsActive(m)
    BY <1>1, <1>2, RunningFacts DEF DebtIsActive
  <1>4. Progress'
    <2>1. UNCHANGED <<saved, market, order, minSolOut, minUsdcBack>> /\ pc' = 7
      BY <1>1 DEF Leave, minSolOut, minUsdcBack, ApplySlippage
    <2>2. wallet' = wallet /\ account' = m
      BY <1>1 DEF Leave
    <2> QED
      BY <1>1, <1>2, <2>1, <2>2, RunningFacts DEF Progress, CanEnd, ClosedOut
  <1> QED
    BY <1>1, <1>2, <1>3, <1>4, LeaveInvariant

-----------------------------------------------------------------------------
(* The client and the chain *)

\* The client composes, simulates and sends between transactions.
LEMMA ClientInvariant ==
    IInv /\ (Simulate \/ Land \/ Drop \/ MarketMove) => IInv'
  <1> SUFFICES ASSUME IInv, Simulate \/ Land \/ Drop \/ MarketMove PROVE IInv'
    OBVIOUS
  <1> USE DEF IInv
  <1>1. ~Running /\ UNCHANGED <<wallet, account, saved>>
    BY DEF Simulate, Land, Drop, MarketMove, Running
  <1>2. TypeOK' /\ Settled'
    BY <1>1, Places DEF Simulate, Land, Drop, MarketMove, TypeOK, Settled
  <1>3. DebtIsActive(account)' /\ DebtIsActive(saved.account)'
        /\ ~saved'.account.inFlashloan
    BY <1>1 DEF DebtIsActive
  <1>4. CASE Simulate \/ Land
    <2>1. Running' /\ pc' = 1
      BY <1>4 DEF Simulate, Land, Running
    <2>2. wallet = saved.wallet /\ account = saved.account
      BY <1>1
    <2>3. Progress'
      BY <1>1, <2>1, <2>2 DEF Progress
    <2> QED
      BY <1>2, <1>3, <2>1, <2>3
  <1>5. CASE Drop \/ MarketMove
    <2>1. ~Running' /\ pc' = 0
      BY <1>1, <1>5 DEF Drop, MarketMove, Running
    <2> QED
      BY <1>1, <1>2, <1>3, <2>1
  <1> QED
    BY <1>4, <1>5

\* What is committed is settled.
LEMMA CommitInvariant == IInv /\ Commit => IInv'
  <1> SUFFICES ASSUME IInv, Commit PROVE IInv'
    OBVIOUS
  <1>1. Running /\ pc = 7 /\ pc' = 0 /\ ~Running'
    BY RunningFacts, Places DEF Commit, Running
  <1>2. account.active = {} /\ ~account.inFlashloan /\ DebtIsActive(account)
    BY <1>1, RunningFacts DEF Progress
  <1>3. account.debt = 0
    BY <1>1, <1>2, RunningFacts, Amounts DEF DebtIsActive
  <1>4. TypeOK'
    BY <1>1, RunningFacts, Places DEF Commit, TypeOK
  <1>5. saved' = [wallet |-> wallet, account |-> account]
        /\ UNCHANGED <<wallet, account>>
    BY DEF Commit
  <1> QED
    BY <1>1, <1>2, <1>3, <1>4, <1>5 DEF IInv, Settled, DebtIsActive

\* The invariant is inductive.
LEMMA StepInvariant == IInv /\ [Next]_vars => IInv'
  <1> SUFFICES ASSUME IInv, [Next]_vars PROVE IInv'
    OBVIOUS
  <1>1. CASE Simulate \/ Land \/ Drop \/ MarketMove
    BY <1>1, ClientInvariant
  <1>2. CASE Simulated
    BY <1>2, DiscardInvariant DEF Simulated, Running
  <1>3. CASE Fail
    BY <1>3, DiscardInvariant DEF Fail, Running
  <1>4. CASE Commit
    BY <1>4, CommitInvariant
  <1>5. CASE MarginfiStartFlashloan \/ MarginfiBorrow \/ ProxyRaydium
    BY <1>5, StartInvariant, BorrowInvariant, RaydiumInvariant
  <1>6. CASE ProxyOrca \/ MarginfiRepay \/ MarginfiEndFlashloan
    BY <1>6, OrcaInvariant, RepayInvariant, EndInvariant
  <1>7. CASE UNCHANGED vars
    BY <1>7 DEF vars, IInv, TypeOK, Settled, DebtIsActive, Running, Progress,
                minSolOut, minUsdcBack, ApplySlippage
  <1> QED
    BY <1>1, <1>2, <1>3, <1>4, <1>5, <1>6, <1>7 DEF Next

\* Every reachable state satisfies the inductive invariant.
THEOREM CycleInvariant == Spec => []IInv
  BY InitInvariant, StepInvariant, PTL DEF Spec

\* Type correctness; in particular no balance is ever overdrawn.
THEOREM TypeCorrect == Spec => []TypeOK
  <1>1. IInv => TypeOK
    BY DEF IInv
  <1> QED
    BY <1>1, CycleInvariant, PTL

\* A committed cycle leaves no debt and no open flashloan.
THEOREM AlwaysSettled == Spec => []Settled
  <1>1. IInv => Settled
    BY DEF IInv
  <1> QED
    BY <1>1, CycleInvariant, PTL

\* What is saved changes only when a transaction has run to its end.
LEMMA SavedByCommit ==
    ASSUME [Next]_vars, saved' # saved
    PROVE  Commit
  BY DEF Next, vars, Simulate, Simulated, Land, Drop, Fail, MarketMove, Leave,
         MarginfiStartFlashloan, MarginfiBorrow, ProxyRaydium, ProxyOrca,
         MarginfiRepay, MarginfiEndFlashloan

\* A committed cycle costs the wallet at most the old debt, the fee and the slippage
\* allowed on the second swap, and none of its SOL, whatever the market did.
THEOREM LossIsBounded == Spec => LossBounded
  <1> DEFINE Bound == saved' # saved =>
        /\ saved'.wallet.usdc >=
             saved.wallet.usdc - saved.account.debt - Fee - (LOAN - minUsdcBack)
        /\ saved'.wallet.sol >= saved.wallet.sol
  <1>1. IInv /\ [Next]_vars => Bound
    <2> SUFFICES ASSUME IInv, [Next]_vars, saved' # saved PROVE Bound
      OBVIOUS
    <2>1. Running /\ pc = 7 /\ saved'.wallet = wallet
      BY SavedByCommit, RunningFacts, Places DEF Commit, Running
    <2>2. /\ account.active = {} /\ DebtIsActive(account)
          /\ market.raydium >= minSolOut /\ market.orca >= minUsdcBack
          /\ wallet.usdc - account.debt = saved.wallet.usdc + market.orca
                                            - (saved.account.debt + LOAN + Fee)
          /\ wallet.sol = saved.wallet.sol + market.raydium - minSolOut
      BY <2>1, RunningFacts DEF Progress
    <2>3. account.debt = 0
      BY <2>1, <2>2, RunningFacts, Amounts DEF DebtIsActive
    <2> QED
      BY <2>1, <2>2, <2>3, RunningFacts, Amounts, MinimumType
  <1> QED
    BY <1>1, CycleInvariant, PTL DEF Spec, LossBounded

\* What a transaction that ran to its end leaves is what one trade at the prices of
\* the pools would have.
LEMMA CommitSettles ==
    ASSUME IInv, Commit
    PROVE  Atomic!Settle(market.raydium, market.orca)
  <1>1. Running /\ pc = 7 /\ saved'.wallet = wallet /\ saved'.account = account
    BY Places, RunningFacts DEF Commit, Running
  <1>2. /\ account.active = {} /\ DebtIsActive(account) /\ ~account.inFlashloan
        /\ saved.account.active \ {"usdc"} \subseteq account.active
        /\ market.raydium >= minSolOut /\ market.orca >= minUsdcBack
        /\ wallet.usdc - account.debt = saved.wallet.usdc + market.orca
                                          - (saved.account.debt + LOAN + Fee)
        /\ wallet.sol = saved.wallet.sol + market.raydium - minSolOut
    BY <1>1, RunningFacts DEF Progress
  <1>3. account.debt = 0
    BY <1>1, <1>2, RunningFacts, Amounts DEF DebtIsActive
  <1>4. wallet \in Wallet /\ account \in MarginfiAccount
    BY <1>1, RunningFacts DEF TypeOK
  <1>5. account = [debt |-> 0, active |-> {}, inFlashloan |-> FALSE]
    BY <1>2, <1>3, <1>4 DEF MarginfiAccount
  <1>6. /\ wallet.usdc = saved.wallet.usdc + market.orca
                           - (saved.account.debt + LOAN + Fee)
        /\ saved.wallet.usdc + market.orca >= saved.account.debt + LOAN + Fee
    BY <1>1, <1>2, <1>3, RunningFacts, Amounts
  <1>7. wallet = [usdc |-> wallet.usdc, sol |-> wallet.sol]
    BY <1>4 DEF Wallet
  <1>8. saved.account.active \subseteq {"usdc"}
    BY <1>2
  <1> QED
    BY <1>1, <1>2, <1>5, <1>6, <1>7, <1>8 DEF Atomic!Settle, Atomic!Closed

\* The cycle implements its abstraction: initial states map to initial states, and every
\* step to a trade or to nothing.
THEOREM CycleImplementsTrade == Spec => CycleIsAtomic
  <1>1. Init => Atomic!Init
    <2> SUFFICES ASSUME Init PROVE Atomic!Init
      OBVIOUS
    <2>1. TypeOK /\ ~saved.account.inFlashloan
      BY InitInvariant DEF IInv
    <2> QED
      BY <2>1, Amounts DEF Atomic!Init
  <1>2. IInv /\ [Next]_vars =>
          [\E sol, usdc \in PoolOutputs : Atomic!Settle(sol, usdc)]_<<saved.wallet, saved.account>>
    <2> SUFFICES ASSUME IInv, [Next]_vars, saved' # saved
                 PROVE  \E sol, usdc \in PoolOutputs : Atomic!Settle(sol, usdc)
      OBVIOUS
    <2>1. Commit
      BY SavedByCommit
    <2>2. market.raydium \in PoolOutputs /\ market.orca \in PoolOutputs
      BY DEF IInv, TypeOK, Market
    <2> QED
      BY <2>1, <2>2, CommitSettles
  <1> QED
    BY <1>1, <1>2, CycleInvariant, PTL DEF Spec, CycleIsAtomic, Atomic!Spec

\* What is required of the instruction about to run.
LEMMA AcceptedAt ==
    ASSUME IInv, Running
    PROVE  /\ pc = 1 => (Accepted <=> CanStart)
           /\ pc = 2 => (Accepted <=> account.inFlashloan)
           /\ pc = 3 => (Accepted <=> CanRaydium)
           /\ pc = 4 => (Accepted <=> CanOrca)
           /\ pc = 5 => (Accepted <=> CanRepay)
           /\ pc = 6 => (Accepted <=> CanEnd)
  BY RunningFacts, AtPlace DEF Accepted

\* Opened and closed by marginfi itself, a cycle never fails by its layout: when it
\* fails the market, the wallet, the account or the kind of repayment is the reason.
THEOREM FailureHasReason ==
    ASSUME Bounds = {"marginfi"}
    PROVE  Spec => FailsForAReason
  <1>1. IInv /\ [Next]_vars => (result' = "failed" /\ result # "failed" => EconomicReason)
    <2> SUFFICES ASSUME IInv, [Next]_vars, result' = "failed", result # "failed",
                        ~EconomicReason
                 PROVE  FALSE
      OBVIOUS
    <2>1. Fail
      BY DEF Next, vars, Simulate, Simulated, Land, Drop, Commit, MarketMove, Leave,
             MarginfiStartFlashloan, MarginfiBorrow, ProxyRaydium, ProxyOrca,
             MarginfiRepay, MarginfiEndFlashloan
    <2>2. Running /\ pc \in 1 .. 6 /\ ~Accepted /\ Progress
      BY <2>1, RunningFacts, Places DEF Fail
    <2>3. /\ market.raydium >= minSolOut /\ market.orca >= minUsdcBack
          /\ saved.wallet.usdc + market.orca >= saved.account.debt + LOAN + Fee
          /\ "other" \notin saved.account.active
          /\ order.repayAll
      BY <2>2, RunningFacts, Amounts, MinimumType DEF EconomicReason
    <2>4. DirectBounds
      BY <2>2, RunningFacts DEF TypeOK, Order, DirectBounds
    <2>5. CASE pc = 1
      BY <2>2, <2>4, <2>5, AcceptedAt, Places DEF CanStart, END_INDEX, Progress
    <2>6. CASE pc = 2
      BY <2>2, <2>6, AcceptedAt DEF Progress
    <2>7. CASE pc = 3
      BY <2>2, <2>3, <2>7, AcceptedAt, RunningFacts, Amounts
      DEF CanRaydium, SlippageOk, Progress
    <2>8. CASE pc = 4
      BY <2>2, <2>3, <2>8, AcceptedAt, RunningFacts, Amounts, MinimumType
      DEF CanOrca, SlippageOk, Progress
    <2>9. CASE pc = 5
      <3>1. account.debt = saved.account.debt + LOAN + Fee
            /\ wallet.usdc = saved.wallet.usdc + market.orca
        BY <2>2, <2>9 DEF Progress
      <3>2. CanRepay
        BY <2>3, <3>1, <2>2, RunningFacts, Amounts DEF CanRepay, Due
      <3> QED
        BY <2>2, <2>9, <3>2, AcceptedAt
    <2>10. CASE pc = 6
      <3>1. saved.account.active \subseteq {"usdc", "other"}
        BY <2>2, RunningFacts DEF TypeOK, MarginfiAccount
      <3>2. account.active \subseteq saved.account.active \ {"usdc"}
        BY <2>2, <2>3, <2>10 DEF Progress
      <3>3. ClosedOut
        BY <2>3, <3>1, <3>2 DEF ClosedOut
      <3> QED
        BY <2>2, <2>4, <2>10, <3>3, AcceptedAt DEF CanEnd
    <2> QED
      BY <2>2, <2>5, <2>6, <2>7, <2>8, <2>9, <2>10
  <1> QED
    BY <1>1, CycleInvariant, PTL DEF Spec, FailsForAReason

-----------------------------------------------------------------------------
(* The cycle in the run *)

\* For the variables of the cycle, a run is a behaviour of the cycle: preparing the table
\* touches nothing of it.
LEMMA BotStep == [BotNext]_botVars => [Next]_vars
  BY DEF BotNext, Prepare, Cycle, botVars, vars

\* A run of the bot is a behaviour of the cycle, whatever the table does meanwhile.
THEOREM RunIsCycle == BotSpec => Spec
  <1>1. BotInit => Init
    BY DEF BotInit
  <1> QED
    BY <1>1, BotStep, PTL DEF BotSpec, Spec

\* The invariant of the cycle holds throughout the run.
THEOREM RunInvariant == BotSpec => []IInv
  BY RunIsCycle, CycleInvariant, PTL

\* A run costs the owner no more than the slippage and the fee.
THEOREM RunLossIsBounded == BotSpec => LossBounded
  BY RunIsCycle, LossIsBounded, PTL

\* A run settles one whole trade or none.
THEOREM RunImplementsTrade == BotSpec => CycleIsAtomic
  BY RunIsCycle, CycleImplementsTrade, PTL

-----------------------------------------------------------------------------
(* The table in the run *)

\* The chunks are numbered from one, and the last is one of them.
LEMMA ChunkFacts ==
    /\ Setup!Chunks = 1 .. Len(ChunkSizes) /\ Len(ChunkSizes) \in Nat \ {0}
    /\ Setup!Last = Len(ChunkSizes)
  <1>1. Setup!Chunks = 1 .. Len(ChunkSizes) /\ Len(ChunkSizes) \in Nat \ {0}
    BY TableAssumption DEF Setup!Chunks
  <1>2. Setup!Last = Len(ChunkSizes)
    <2> DEFINE n == Len(ChunkSizes)
               IsMax(x) == x \in 1 .. n /\ \A y \in 1 .. n : x >= y
    <2>1. IsMax(n)
      BY <1>1
    <2>2. \A x : IsMax(x) => x = n
      BY <1>1
    <2>3. Setup!Last = CHOOSE x \in 1 .. n : \A y \in 1 .. n : x >= y
      BY <1>1 DEF Setup!Last, Setup!Max
    <2> QED
      BY <2>1, <2>2, <2>3
  <1> QED
    BY <1>1, <1>2

\* At first nothing was sent.
LEMMA TableInit == Setup!Init => Setup!IInv
  <1> SUFFICES ASSUME Setup!Init PROVE Setup!IInv
    OBVIOUS
  <1>1. Setup!TypeOK
    BY TableAssumption, ChunkFacts DEF Setup!Init, Setup!TypeOK, Setup!Tx
  <1>2. \A c \in Setup!Chunks : ~ c < stage
    BY ChunkFacts DEF Setup!Init
  <1> QED
    BY <1>1, <1>2 DEF Setup!Init, Setup!IInv

\* Types of the parts, for the steps below.
LEMMA TableFacts ==
    ASSUME Setup!TypeOK
    PROVE  /\ stage \in 0 .. Len(ChunkSizes) /\ attempt \in 1 .. MaxAttempts
           /\ MaxAttempts \in Nat \ {0} /\ Setup!Current \in Setup!Tx
           /\ \A t \in Setup!Tx : t.stage \in Nat /\ t.attempt \in Nat
  BY TableAssumption, ChunkFacts DEF Setup!TypeOK, Setup!Current, Setup!Tx

\* Sending a chunk, for the first time or again
LEMMA SendKeeps == Setup!IInv /\ Setup!Send => Setup!IInv'
  <1> SUFFICES ASSUME Setup!IInv, Setup!Send PROVE Setup!IInv'
    OBVIOUS
  <1> DEFINE cur == Setup!Current
  <1>1. Setup!TypeOK /\ cur \in Setup!Tx /\ status = "sending"
    BY TableFacts DEF Setup!IInv, Setup!Send
  <1>2. /\ inflight' = inflight \union {cur} /\ status' = "confirming"
        /\ UNCHANGED <<applied, broken, stage, attempt>> /\ cur' = cur
    BY DEF Setup!Send, Setup!Current
  <1>3. cur \notin inflight \union applied \union broken
    <2>1. ~ Setup!Sent(cur)
      BY <1>1, TableFacts DEF Setup!Sent, Setup!Current
    <2> QED
      BY <2>1 DEF Setup!IInv
  <1>4. Setup!TypeOK'
    BY <1>1, <1>2, <1>3 DEF Setup!TypeOK
  <1>5. \A t \in inflight' \union applied' \union broken' : Setup!Sent(t)'
    BY <1>1, <1>2 DEF Setup!IInv, Setup!Sent
  <1> QED
    BY <1>1, <1>2, <1>4, <1>5 DEF Setup!IInv

\* The attempt is given up, and the next one starts or the set-up fails.
LEMMA ThrowKeeps == Setup!IInv /\ Setup!Throw => Setup!IInv'
  <1> SUFFICES ASSUME Setup!IInv, Setup!Throw PROVE Setup!IInv'
    OBVIOUS
  <1>1. /\ Setup!TypeOK /\ status \in {"sending", "confirming"}
        /\ UNCHANGED <<inflight, applied, broken, stage>>
        /\ \/ status' = "failed" /\ UNCHANGED attempt
           \/ status' = "sending" /\ attempt' = attempt + 1 /\ attempt # MaxAttempts
    BY DEF Setup!IInv, Setup!Throw, Setup!Retry
  <1>2. Setup!TypeOK'
    BY <1>1, TableFacts DEF Setup!TypeOK
  <1>3. ASSUME NEW t \in inflight \union applied \union broken PROVE Setup!Sent(t)'
    <2>1. Setup!Sent(t) /\ t \in Setup!Tx
      BY <1>1 DEF Setup!IInv, Setup!TypeOK
    <2> QED
      BY <1>1, <2>1, TableFacts DEF Setup!Sent, Setup!Current
  <1> QED
    BY <1>1, <1>2, <1>3 DEF Setup!IInv

\* The client goes on to the next stage only when this one was included.
LEMMA ConfirmKeeps == Setup!IInv /\ Setup!Confirm => Setup!IInv'
  <1> SUFFICES ASSUME Setup!IInv, Setup!Confirm PROVE Setup!IInv'
    OBVIOUS
  <1> DEFINE last == Len(ChunkSizes)
  <1>1. /\ Setup!TypeOK /\ Setup!Confirmed /\ status = "confirming"
        /\ UNCHANGED <<inflight, applied, broken>>
        /\ \/ stage = last /\ status' = "waiting" /\ UNCHANGED <<stage, attempt>>
           \/ stage # last /\ status' = "sending" /\ stage' = stage + 1 /\ attempt' = 1
    BY ChunkFacts DEF Setup!IInv, Setup!Confirm
  <1>2. Setup!TypeOK'
    BY <1>1, TableFacts, ChunkFacts DEF Setup!TypeOK
  <1>3. ASSUME NEW t \in inflight \union applied \union broken PROVE Setup!Sent(t)'
    <2>1. Setup!Sent(t) /\ t \in Setup!Tx
      BY <1>1 DEF Setup!IInv, Setup!TypeOK
    <2> QED
      BY <1>1, <2>1, TableFacts DEF Setup!Sent, Setup!Current
  <1>4. ASSUME broken' = {}, NEW c \in Setup!Chunks,
               c < stage' \/ status' \in {"waiting", "ready"}
        PROVE  \E t \in applied' : t.stage = c
    <2>1. broken = {} /\ applied' = applied /\ c <= stage
      BY <1>1, <1>4, TableFacts, ChunkFacts
    <2>2. CASE c < stage
      BY <2>1, <2>2 DEF Setup!IInv
    <2>3. CASE c = stage
      BY <1>1, <2>1, <2>3 DEF Setup!Confirmed, Setup!Current
    <2> QED
      BY <2>1, <2>2, <2>3, TableFacts, <1>1, ChunkFacts
  <1> QED
    BY <1>1, <1>2, <1>3, <1>4 DEF Setup!IInv

\* Polling for the table
LEMMA WaitKeeps == Setup!IInv /\ (Setup!Ready \/ Setup!GiveUp) => Setup!IInv'
  <1> SUFFICES ASSUME Setup!IInv, Setup!Ready \/ Setup!GiveUp PROVE Setup!IInv'
    OBVIOUS
  <1>1. /\ Setup!TypeOK /\ status = "waiting" /\ status' \in {"ready", "failed"}
        /\ UNCHANGED <<inflight, applied, broken, stage, attempt>>
    BY DEF Setup!IInv, Setup!Ready, Setup!GiveUp
  <1>2. Setup!TypeOK'
    BY <1>1 DEF Setup!TypeOK
  <1> QED
    BY <1>1, <1>2 DEF Setup!IInv, Setup!Sent, Setup!Current

\* What the chain does with a transaction leaves the client where it is.
LEMMA ChainKeeps ==
    ASSUME Setup!IInv, NEW t \in inflight, Setup!Include(t) \/ Setup!Expire(t)
    PROVE  Setup!IInv'
  <1>1. /\ Setup!TypeOK /\ inflight' = inflight \ {t}
        /\ UNCHANGED <<stage, attempt, status>>
        /\ \/ applied' = applied \union {t} /\ UNCHANGED broken
           \/ broken' = broken \union {t} /\ UNCHANGED applied
           \/ UNCHANGED <<applied, broken>>
    BY DEF Setup!IInv, Setup!Include, Setup!Expire
  <1>2. Setup!TypeOK'
    BY <1>1 DEF Setup!TypeOK
  <1> QED
    BY <1>1, <1>2 DEF Setup!IInv, Setup!Sent, Setup!Current

\* Every step of the run keeps the invariant of the table.
LEMMA TableStep == Setup!IInv /\ [BotNext]_botVars => Setup!IInv'
  <1> SUFFICES ASSUME Setup!IInv, [BotNext]_botVars PROVE Setup!IInv'
    OBVIOUS
  <1>1. CASE Setup!Next
    BY <1>1, SendKeeps, ThrowKeeps, ConfirmKeeps, WaitKeeps, ChainKeeps DEF Setup!Next
  <1>2. CASE UNCHANGED tableVars
    BY <1>2 DEF tableVars, Setup!IInv, Setup!TypeOK, Setup!Sent, Setup!Current
  <1> QED
    BY <1>1, <1>2 DEF BotNext, Prepare, Cycle, botVars

\* A table the client takes for ready is complete unless a transaction failed on chain,
\* however many are resent, late or lost; and none is included twice.
THEOREM TableIsSound == BotSpec => []TableSound
  <1>1. BotInit => Setup!IInv
    BY TableInit DEF BotInit
  <1>2. Setup!IInv => TableSound
    BY ChunkFacts DEF TableSound, Setup!IInv, Setup!ReadyIsComplete, Setup!Complete
  <1> QED
    BY <1>1, <1>2, TableStep, PTL DEF BotSpec

=============================================================================
