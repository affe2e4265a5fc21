--------------------------- MODULE MCFlashLoanBot ---------------------------
(* FlashLoanBot for TLC: the two chunks of the client's 36 addresses. *)
EXTENDS FlashLoanBot

TwoChunks == <<20, 16>>
=============================================================================
