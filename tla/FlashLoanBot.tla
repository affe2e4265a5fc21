---------------------------- MODULE FlashLoanBot ----------------------------
(***************************************************************************)
(* One run of flash_loan_bot: the client prepares the lookup table and,    *)
(* when it takes the table for ready, runs the arbitrage cycle once.       *)
(***************************************************************************)
EXTENDS BotCycle

CONSTANTS ChunkSizes, MaxAttempts

ASSUME TableAssumption ==
    ChunkSizes \in Seq(Nat) /\ ChunkSizes # <<>> /\ MaxAttempts \in Nat \ {0}

VARIABLES inflight, applied, broken, stage, attempt, status

Setup == INSTANCE LookupTable

tableVars == <<inflight, applied, broken, stage, attempt, status>>
botVars == <<vars, tableVars>>

\* The table comes first.  What the chain still includes of it once it is ready
\* reaches nothing any more, so the model stops there.
Prepare ==
    /\ status # "ready"
    /\ Setup!Next
    /\ UNCHANGED vars

\* The transaction is composed with the table, once; the test ends with it.
Cycle ==
    /\ status = "ready" /\ result = "none"
    /\ Next
    /\ UNCHANGED tableVars

Ended == status = "failed" \/ result # "none"

BotInit == Init /\ Setup!Init
BotNext == Prepare \/ Cycle

\* Steps of the client and the chain towards the end of the run: everything but the
\* moves of the market and, in the table's part, the late transactions.
Progresses ==
    \/ status # "ready" /\ (Setup!Throw \/ Setup!GiveUp) /\ UNCHANGED vars
    \/ Cycle /\ UNCHANGED market

\* A blockhash expires, polls are counted, and a transaction that began to run ends.
BotSpec == BotInit /\ [][BotNext]_botVars /\ WF_botVars(Progresses)

-----------------------------------------------------------------------------
(* Properties *)

\* Resent and late transactions leave chunks in the table twice, so its size alone does
\* not tell that nothing is missing.  Unless some transaction failed on chain, it does;
\* and no transaction is included twice.
TableSound == Setup!IInv /\ Setup!ReadyIsComplete

\* The retries are bounded and a cycle lands, fails or is dropped: the run ends, however
\* many transactions are lost and however the markets move.
RunEnds == <>Ended
=============================================================================
