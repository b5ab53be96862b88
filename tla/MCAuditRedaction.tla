-------------------------- MODULE MCAuditRedaction --------------------------
(* Model checking of AuditRedaction: SHA-256 becomes the pair it hashes.    *)
EXTENDS AuditRedaction, TLC

CONSTANTS ann, bob

MCHash(content, p) == <<content, p>>
MCGenesis == <<>>
MCBlank == <<"">>
MCHistory == <<ann, bob>>
MCContents == Entries

Symmetry == Permutations(Redactors) \cup Permutations(Sessions \ Redactors)
=============================================================================
