------------------------------ MODULE MCVenues ------------------------------
(***************************************************************************)
(* The three integrations, each with the bank it deposits for, on small    *)
(* instances.  `scene` says what goes on around the handlers, so that the  *)
(* interesting things need not all vary at once.                           *)
(***************************************************************************)
EXTENDS DeleverageDay

CONSTANT MaxUnits  \* bound on the position and, while there is no limit, the window

VARIABLE scene

mcVars == <<hvars, scene>>

Scenes == {"interest", "admin", "deleverage"}
MCRates == {<<1, 1>>, <<3, 2>>, <<2, 1>>}
MCUsers == {"alice", "bob"}

MCInit ==
    /\ HInit /\ scene \in Scenes
    /\ scene # "interest" => market.rate = <<3, 2>>

MCAround ==
    CASE scene = "interest" ->
             \/ \E u, v \in Users, n \in Amounts : Seize(u, v, n)
             \/ \E m \in MarketType : Accrue(m)
      [] scene = "admin" ->
             \/ \E m \in Modes \ {"deleverage"} : SetMode("alice", m)
             \/ \E s \in States, w \in BOOLEAN : Configure(s, w)
             \/ Gift
      [] scene = "deleverage" ->
             \/ \E m \in {"normal", "deleverage"} : SetMode("alice", m)
             \/ \E l \in Limits : SetLimit(l)
             \/ \E m \in MarketType : m.rate = market.rate /\ Accrue(m)
             \/ Tick

\* Outside the scene of interest bob opens the position, only alice has a balance, and
\* Kamino and Solend answer what marginfi expects.
AsExpected ==
    /\ ~ position.open => tokens'["alice"] = Supply /\ position'.units <= InitMin
    /\ venue # "Drift" /\ position.open =>
           LET out == bank.shares - bank'.shares
           IN /\ position'.units - bank'.shares = Cushion
              /\ out > 0 => tokens'["alice"] = tokens["alice"] + ToTokens(market, out)
    /\ balances'["bob"] = balances["bob"]

MCNext ==
    /\ \/ KaminoNext /\ (scene = "interest" \/ market' = [market EXCEPT !.fresh = TRUE])
       \/ SolendNext
       \/ DriftNext /\ (scene = "interest" \/ market'.rate = market.rate)
       \/ MCAround
    /\ Remember
    /\ UNCHANGED scene
    /\ \A u \in Users : tokens'[u] <= IF scene = "interest" THEN Supply + 1 ELSE Supply
    /\ position'.units <= MaxUnits /\ window'.withdrawn <= MaxUnits
    /\ scene # "interest" => AsExpected
    /\ scene # "admin" => position'.extra = 0

MCSpec == MCInit /\ [][MCNext]_mcVars
=============================================================================
