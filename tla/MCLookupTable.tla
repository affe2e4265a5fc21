--------------------------- MODULE MCLookupTable ---------------------------
(* LookupTable for TLC: the two chunks of the client's 36 addresses. *)
EXTENDS LookupTable

TwoChunks == <<20, 16>>
=============================================================================
