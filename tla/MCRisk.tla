-------------------------------- MODULE MCRisk -------------------------------
(***************************************************************************)
(* Model checking of RiskEngine: an account that borrows against several   *)
(* deposits and another that liquidates it, over banks of every kind.      *)
(***************************************************************************)
EXTENDS RiskEngine

CONSTANTS alice, bob

VARIABLE budget  \* bound: [alice, bob, market], the steps left to each

mcVars == <<riskVars, budget>>

Bank(tag, setup, ai, am, li, lm) ==
    [tag |-> tag, setup |-> setup, tier |-> "collateral", ai |-> ai, am |-> am,
     li |-> li, lm |-> lm, emodeTag |-> 0, entries |-> {}, valueLimit |-> 0,
     borrowLimit |-> 1000, maxAge |-> 1, maxConfidence |-> 0, fixedPrice |-> 20]

MCBanks ==
    [klp |-> [Bank("kamino", "kamino_pyth", 10, 12, 30, 25)
                 EXCEPT !.emodeTag = 1, !.borrowLimit = 0],
     usd |-> [Bank("default", "swb", 16, 18, 20, 20)
                 EXCEPT !.entries = {[tag |-> 1, init |-> 18, maint |-> 19]}],
     sol |-> [Bank("sol", "pyth", 16, 17, 30, 28)
                 EXCEPT !.entries = {[tag |-> 1, init |-> 24, maint |-> 26]},
                        !.valueLimit = 3200],
     lst |-> [Bank("staked", "staked_pyth", 14, 16, 30, 25) EXCEPT !.borrowLimit = 0],
     iso |-> [Bank("default", "fixed", 0, 0, 26, 24) EXCEPT !.tier = "isolated"]]

Reading(price, ema, conf) == [price |-> price, ema |-> ema, conf |-> conf, emaConf |-> conf]
MCReadings ==
    [klp |-> {Reading(40, 40, 1), Reading(20, 40, 0), Reading(20, 20, 0)},
     usd |-> {Reading(20, 20, 0)},
     sol |-> {Reading(20, 20, 0), Reading(20, 20, 2)},
     lst |-> {Reading(20, 20, 0)},
     iso |-> {Reading(20, 20, 0)}]
Behind(tokens, shares) == [tokens |-> tokens, shares |-> shares]
MCBackings ==
    [klp |-> {Behind(1, 1)}, usd |-> {Behind(1, 1)},
     sol |-> {Behind(1, 1)}, iso |-> {Behind(1, 1)}, lst |-> {Behind(3, 2), Behind(3, 1)}]
MCLenders == [klp |-> 0, usd |-> 400, sol |-> 100, lst |-> 0, iso |-> 100]

Nothing == [b \in Banks |-> NoBalance]
Deposited(b, n) == [Nothing EXCEPT ![b] = [active |-> TRUE, asset |-> n, liab |-> 0]]
MCOpenings ==
    {[a \in Accounts |-> IF a = bob THEN Deposited("usd", 160) ELSE Deposited(b, 80)] :
        b \in {"klp", "lst"}}

\* What RiskTakersAreSolvent is proved from.
ASSUME EmodeAssumption == EmodeValidated

MCInit ==
    /\ Init
    /\ sources.klp.price = 40 /\ sources.sol.conf = 0 /\ sources.lst.shares = 1
    /\ budget = [alice |-> 3, bob |-> 2, market |-> 2]

\* The steps of an account, and of everybody else
Steps(a) ==
    \E b \in Banks :
        \/ \E n \in Moves : Deposit(a, b, n) \/ Borrow(a, b, n)
        \/ \E n \in Moves, all \in BOOLEAN : Repay(a, b, n, all) \/ Withdraw(a, b, n, all)
        \/ CloseBalance(a, b)
        \/ HandleBankruptcy(a, b)
LiquidationStep(a) ==
    \E u \in Accounts, b, lb \in Banks, n \in Seizures : Liquidate(a, u, b, lb, n)
MarketStep ==
    \/ \E b \in Banks :
           \/ b = "klp" /\ \E s \in States : SetState(b, s)
           \/ b # "usd" /\ \E r \in Readings[b] : Publish(b, r)
           \/ \E k \in Backings[b] : Rebase(b, k)
    \/ Tick

Spend(who, step) == budget[who] > 0 /\ step /\ budget' = [budget EXCEPT ![who] = @ - 1]

MCNext ==
    \/ Spend("alice", Steps(alice))
    \/ Spend("bob", LiquidationStep(bob))
    \/ Spend("market", MarketStep)

MCSpec == MCInit /\ [][MCNext]_mcVars
==============================================================================
