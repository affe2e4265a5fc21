---------------------------- MODULE LookupTable ----------------------------
(***************************************************************************)
(* The client of the bot prepares an address lookup table: one transaction *)
(* creates it, one per chunk of addresses extends it.  Each is sent again,  *)
(* with a fresh blockhash, when its confirmation does not arrive, and one   *)
(* the client has given up may still be included.                          *)
(***************************************************************************)
EXTENDS Integers, FiniteSetsExt

CONSTANTS ChunkSizes,  \* addresses in each chunk, a sequence
          MaxAttempts

VARIABLES
    inflight,  \* transactions the chain may still include
    applied,   \* transactions it has included, that succeeded...
    broken,    \* ... or failed
    stage,     \* what the client is sending: 0, the creation, or a chunk
    attempt,
    status     \* sending, confirming, waiting, ready or failed

vars == <<inflight, applied, broken, stage, attempt, status>>

Chunks == DOMAIN ChunkSizes
Last == Max(Chunks)
Tx == [stage : Chunks \union {0}, attempt : 1 .. MaxAttempts]
Current == [stage |-> stage, attempt |-> attempt]

Init ==
    /\ inflight = {} /\ applied = {} /\ broken = {}
    /\ stage = 0 /\ attempt = 1
    /\ status = "sending"

-----------------------------------------------------------------------------
(* The table, on chain *)

Created == \E t \in applied : t.stage = 0

\* A table is created once.  It takes the same addresses twice.
Applies(t) == (t.stage = 0) <=> ~Created

Entries == MapThenSumSet(LAMBDA t : IF t.stage = 0 THEN 0 ELSE ChunkSizes[t.stage], applied)
Complete == \A c \in Chunks : \E t \in applied : t.stage = c

Include(t) ==
    /\ inflight' = inflight \ {t}
    /\ \/ Applies(t) /\ applied' = applied \union {t} /\ UNCHANGED broken
       \/ broken' = broken \union {t} /\ UNCHANGED applied
    /\ UNCHANGED <<stage, attempt, status>>

Expire(t) ==
    /\ inflight' = inflight \ {t}
    /\ UNCHANGED <<applied, broken, stage, attempt, status>>

-----------------------------------------------------------------------------
(* sendWithFreshBlockhash, in a loop over the chunks *)

\* Preflight simulates the transaction before it is sent.
Send ==
    /\ status = "sending" /\ Applies(Current)
    /\ inflight' = inflight \union {Current}
    /\ status' = "confirming"
    /\ UNCHANGED <<applied, broken, stage, attempt>>

\* Wrong variant: every attempt is the first.
RetryForever == status' = "sending" /\ UNCHANGED attempt

Retry ==
    IF attempt = MaxAttempts
    THEN status' = "failed" /\ UNCHANGED attempt
    ELSE status' = "sending" /\ attempt' = attempt + 1

\* Preflight or the node refuses, or no confirmation comes while the blockhash is valid.
Throw ==
    /\ status \in {"sending", "confirming"}
    /\ Retry
    /\ UNCHANGED <<inflight, applied, broken, stage>>

\* Wrong variant: whatever was sent is confirmed.
ConfirmedOnSend == TRUE

\* confirmTransaction tells that a transaction was included, not that it succeeded.
Confirmed == Current \in applied \union broken

Confirm ==
    /\ status = "confirming" /\ Confirmed
    /\ IF stage = Last
       THEN status' = "waiting" /\ UNCHANGED <<stage, attempt>>
       ELSE status' = "sending" /\ stage' = stage + 1 /\ attempt' = 1
    /\ UNCHANGED <<inflight, applied, broken>>

-----------------------------------------------------------------------------
(* waitForLookupTable: the number of entries is compared, not which they are *)

Ready ==
    /\ status = "waiting"
    /\ Entries >= MapThenSumSet(LAMBDA c : ChunkSizes[c], Chunks)
    /\ status' = "ready"
    /\ UNCHANGED <<inflight, applied, broken, stage, attempt>>

\* The polls are used up, or one of them throws.
GiveUp ==
    /\ status = "waiting"
    /\ status' = "failed"
    /\ UNCHANGED <<inflight, applied, broken, stage, attempt>>

Next ==
    \/ Send \/ Throw \/ Confirm \/ Ready \/ GiveUp
    \/ \E t \in inflight : Include(t) \/ Expire(t)

\* Blockhashes expire and polls are counted, so every wait of the client ends.
Spec == Init /\ [][Next]_vars /\ WF_vars(Throw) /\ WF_vars(GiveUp)

-----------------------------------------------------------------------------
(* Properties *)

\* Type correctness; no transaction is included twice.
TypeOK ==
    /\ inflight \subseteq Tx /\ applied \subseteq Tx /\ broken \subseteq Tx
    /\ inflight \intersect (applied \union broken) = {}
    /\ applied \intersect broken = {}
    /\ stage \in Chunks \union {0} /\ attempt \in 1 .. MaxAttempts
    /\ status \in {"sending", "confirming", "waiting", "ready", "failed"}

\* The stages and attempts the client is past, and the one it waits for
Sent(t) ==
    \/ t.stage < stage
    \/ t.stage = stage /\ t.attempt < attempt
    \/ t = Current /\ status # "sending"

\* The inductive invariant: nothing was sent but what the client has come to, and each
\* stage it has left was included, if only to fail.
IInv ==
    /\ TypeOK
    /\ \A t \in inflight \union applied \union broken : Sent(t)
    /\ broken = {} =>
          \A c \in Chunks : c < stage \/ status \in {"waiting", "ready"}
                              => \E t \in applied : t.stage = c

\* Resent and late transactions leave chunks in the table twice, so its size alone does
\* not tell that nothing is missing.  Unless some transaction failed on chain, it does.
ReadyIsComplete == status = "ready" /\ broken = {} => Complete

\* tests/flash_loan_bot.ts:136 logs "LUT pronta", the table is ready, for a table
\* that was to hold every address.
TableReady == status = "ready" => Complete
=============================================================================
