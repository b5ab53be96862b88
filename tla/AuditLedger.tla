---------------------------- MODULE AuditLedger ----------------------------
(***************************************************************************)
(* What the audit trail promises its readers: a sequence of entries, each  *)
(* carrying the hash of its predecessor, that only grows, a whole          *)
(* transaction at a time.  Ids, locks and the two flushes of record() are  *)
(* not visible here.                                                       *)
(***************************************************************************)
EXTENDS Naturals, Sequences

CONSTANTS Contents, Hash(_, _), Genesis

VARIABLE ledger  \* sequence of entries [content, prev, sum]

Chained(entries, k) ==
  /\ entries[k].content \in Contents
  /\ entries[k].prev = IF k = 1 THEN Genesis ELSE entries[k - 1].sum
  /\ entries[k].sum = Hash(entries[k].content, entries[k].prev)

LedgerInit == ledger = <<>>

Extend ==
  /\ Len(ledger') > Len(ledger)
  /\ SubSeq(ledger', 1, Len(ledger)) = ledger
  /\ \A k \in Len(ledger) + 1 .. Len(ledger') : Chained(ledger', k)

LedgerSpec == LedgerInit /\ [][Extend]_ledger
=============================================================================
