---------------------------- MODULE MCAuditChain ----------------------------
(* Model checking of AuditChain: SHA-256 becomes the pair it hashes, which  *)
(* is injective.                                                            *)
EXTENDS AuditChain, TLC

MCHash(content, p) == <<content, p>>
MCGenesis == <<>>
MCBlank == <<"">>

Symmetry == Permutations(Sessions)
=============================================================================
