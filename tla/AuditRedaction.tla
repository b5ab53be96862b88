--------------------------- MODULE AuditRedaction ---------------------------
(***************************************************************************)
(* GDPR redaction next to ordinary writers of the audit trail: sessions    *)
(* that run redact_trainee() or redact_user() replace the diff of every    *)
(* row about one person, rehash the trail from the first such row to the   *)
(* tail they have loaded, and append a record() of the redaction.          *)
(*                                                                         *)
(* The advisory lock of the chain is only taken by that last record(): the *)
(* rows are loaded and rehashed without it, as in the code.                *)
(***************************************************************************)
EXTENDS AuditChain, Sequences, FiniteSetsExt

CONSTANTS
  Redactors,  \* the sessions that run one redaction each
  People,     \* trainees and users that rows are about
  Nobody,     \* the gdpr rows are about nobody that is redacted
  Data,       \* a diff payload as it was recorded
  History     \* the people of the rows that are there from the start

ASSUME RedactorsAssumption == Redactors \subseteq Sessions
ASSUME NobodyAssumption == Nobody \notin People
\* A marker is no recorded diff.
ASSUME DataAssumption == Data \notin Redactors
ASSUME ContentsAssumption == Contents \subseteq [of : People \cup {Nobody}, diff : {Data}]
ASSUME HistoryAssumption == History \in Seq(People)

VARIABLES
  stage,   \* how far each redaction is, until it calls record()
  ids,     \* the audit rows each redaction has selected
  loaded,  \* the rows it has loaded, as it has loaded them
  bypass,  \* the sessions with SET LOCAL qms.audit_redact_ok
  raced    \* history: a commit came between a load and the lock that follows

rvars == <<stage, ids, loaded, bypass, raced>>
allvars == <<vars, rvars>>

Entry(person) == [of |-> person, diff |-> Data]
Entries == {Entry(p) : p \in People}
Notice == Entry(Nobody)

\* The marker is stamped with the time of the redaction: one per session.
Marked(content, r) == [content EXCEPT !.diff = r]

\* Rows with these contents, each linked to the one before it.
Chained(contents, first) ==
  LET row[i \in DOMAIN contents] ==
        LET earlier == {j \in DOMAIN contents : j < i}
            p == IF earlier = {} THEN first ELSE row[Max(earlier)].sum
        IN WithChecksum([content |-> contents[i], prev |-> p, sum |-> Blank])
  IN row

\* The rows that were recorded before the trigger was installed.
HistoricRows == Chained([k \in DOMAIN History |-> Entry(History[k])], Genesis)

RInit ==
  /\ log = HistoricRows
  /\ nextId = Len(History) + 1
  /\ holder = NoSession
  /\ pc = [s \in Sessions |-> "idle"]
  /\ mine = [s \in Sessions |-> NoRows]
  /\ prev = [s \in Sessions |-> Genesis]
  /\ guarded \in Guards
  /\ stage = [r \in Redactors |-> "start"]
  /\ ids = [r \in Redactors |-> {}]
  /\ loaded = [r \in Redactors |-> NoRows]
  /\ bypass = {}
  /\ raced = FALSE

-----------------------------------------------------------------------------

\* Every audit row about the person.
SelectIds(r, person) ==
  /\ stage[r] = "start"
  /\ stage' = [stage EXCEPT ![r] = "selected"]
  /\ ids' = [ids EXCEPT ![r] = {i \in DOMAIN log : log[i].content.of = person}]
  /\ UNCHANGED <<vars, loaded, bypass, raced>>

\* _redact_audit_rows() returns at once when there is nothing to redact,
\* before it opts in to the bypass of the trigger.
NothingToRedact(r) ==
  /\ stage[r] = "selected"
  /\ ids[r] = {}
  /\ stage' = [stage EXCEPT ![r] = "ready"]
  /\ UNCHANGED <<vars, ids, loaded, bypass, raced>>

LoadRows(r) ==
  /\ stage[r] = "selected"
  /\ ids[r] # {}
  /\ bypass' = bypass \cup {r}
  /\ LET suffix == {i \in DOMAIN log : i >= Min(ids[r])}
     IN loaded' = [loaded EXCEPT ![r] = [i \in suffix |-> log[i]]]
  /\ stage' = [stage EXCEPT ![r] = "loaded"]
  /\ UNCHANGED <<vars, ids, raced>>

\* expected_prev: the checksum of the row before the first one loaded.
LoadPreceding(r) ==
  LET before == {i \in DOMAIN log : i < Min(ids[r])} IN
  /\ stage[r] = "loaded"
  /\ prev' = [prev EXCEPT ![r] =
                IF before = {} THEN Genesis ELSE log[Max(before)].sum]
  /\ stage' = [stage EXCEPT ![r] = "rehash"]
  /\ UNCHANGED <<log, nextId, holder, pc, mine, ids, loaded, bypass, raced>>

\* Mutant: only the redacted rows get a new checksum.
RehashedAlone(r) ==
  [i \in DOMAIN loaded[r] |->
     IF i \in ids[r]
       THEN WithChecksum([loaded[r][i] EXCEPT !.content = Marked(@, r)])
       ELSE loaded[r][i]]

\* Mutant: whatever is rehashed gets the marker.
RedactedToTheEnd(r) == [i \in DOMAIN loaded[r] |-> Marked(loaded[r][i].content, r)]

\* The contents of the rows loaded, redacted.
Redacted(r) ==
  [i \in DOMAIN loaded[r] |-> IF i \in ids[r] THEN Marked(loaded[r][i].content, r)
                                             ELSE loaded[r][i].content]

\* ... and rehashed forward from the row before them.
Rehashed(r) == Chained(Redacted(r), prev[r])

\* Mutant: every column is written back as it was loaded and changed.
WrittenWhole(rowBefore, rowAfter, current) == rowAfter

\* The ORM's UPDATE writes the columns that differ from what was loaded, over
\* whatever is committed in the others.
Written(rowBefore, rowAfter, current) ==
  [col \in {"content", "prev", "sum"} |->
     IF rowAfter[col] # rowBefore[col] THEN rowAfter[col] ELSE current[col]]

\* The UPDATEs wait for the row locks of another uncommitted redaction.
FlushRedaction(r) ==
  /\ stage[r] = "rehash"
  /\ \A q \in Sessions \ {r} : DOMAIN mine[q] \cap DOMAIN loaded[r] = {}
  /\ mine' = [mine EXCEPT ![r] =
                [i \in DOMAIN loaded[r] |->
                   Written(loaded[r][i], Rehashed(r)[i], log[i])]]
  /\ stage' = [stage EXCEPT ![r] = "ready"]
  /\ UNCHANGED <<log, nextId, holder, pc, prev, ids, loaded, bypass, raced>>

\* r has loaded rows and does not hold the lock of the chain yet.
InWindow(r) == stage[r] \in {"loaded", "rehash", "ready"} /\ ids[r] # {} /\ pc[r] = "idle"

\* record() inside a redaction: once, after the rehash.
RedactorRecords(r) ==
  /\ stage[r] = "ready"
  /\ \/ pc[r] = "idle" /\ AcquireLock(r)
     \/ ReadTail(r)
     \/ InsertRow(r, Notice)
     \/ Seal(r)
     \/ r \in bypass /\ guarded /\ SealRow(r)
     \/ r \notin bypass /\ SealRefused(r)
  /\ UNCHANGED rvars

Races(s) == raced \/ \E r \in Redactors \ {s} : InWindow(r)

RedactorCommits(r) ==
  /\ Commit(r)
  /\ raced' = Races(r)
  /\ stage' = [stage EXCEPT ![r] = "done"]
  /\ bypass' = bypass \ {r}
  /\ UNCHANGED <<ids, loaded>>

\* An error or a crash at any point: the transaction leaves no trace.
RedactorFails(r) ==
  /\ stage[r] \notin {"start", "done"}
  /\ Release(r)
  /\ stage' = [stage EXCEPT ![r] = "done"]
  /\ bypass' = bypass \ {r}
  /\ UNCHANGED <<log, ids, loaded, raced>>

Redact(r) ==
  \/ \E p \in People : SelectIds(r, p)
  \/ NothingToRedact(r)
  \/ LoadRows(r)
  \/ LoadPreceding(r)
  \/ FlushRedaction(r)
  \/ RedactorRecords(r)
  \/ RedactorCommits(r)
  \/ RedactorFails(r)

\* An ordinary session runs the steps of AuditChain.
Write(s) ==
  \/ /\ AcquireLock(s) \/ ReadTail(s) \/ Insert(s) \/ Seal(s) \/ SealRefused(s)
        \/ Rollback(s)
     /\ UNCHANGED rvars
  \/ Commit(s) /\ raced' = Races(s) /\ UNCHANGED <<stage, ids, loaded, bypass>>

RNext ==
  /\ \/ \E r \in Redactors : Redact(r)
     \/ \E s \in Sessions \ Redactors : Write(s)
  /\ UNCHANGED guarded

RSpec == RInit /\ [][RNext]_allvars

-----------------------------------------------------------------------------

RTypeOK ==
  /\ TypeOK
  /\ stage \in [Redactors ->
                  {"start", "selected", "loaded", "rehash", "ready", "done"}]
  /\ bypass \subseteq Redactors
  /\ raced \in BOOLEAN
  /\ \A r \in Redactors : ids[r] \subseteq DOMAIN log

(* The redactions break the chain in one way only: some transaction commits *)
(* after a redaction has loaded the rows and before it takes the lock.      *)
IntactUnlessRaced == ~raced => VerifyChain(log)

(* What was redacted stays redacted: a redaction that loaded a row before   *)
(* another one's commit does not write the personal data back.              *)
RedactionSticks ==
  [][\A i \in DOMAIN log :
       log[i].content.diff # Data => log'[i].content.diff # Data]_allvars

Completes(r) == stage[r] = "ready" /\ stage'[r] = "done" /\ log' # log

(* A redaction leaves its marker in all the rows it has selected, and in    *)
(* these alone: the rows behind them that it rehashes keep the diff that is *)
(* committed by then, be it another redaction's marker; and no row changes  *)
(* its diff but by a redaction that has opted in to the trigger's bypass.   *)
RedactionIsExact ==
  [][/\ \A r \in Redactors : Completes(r) => \A i \in ids[r] : log'[i].content.diff = r
     /\ \A i \in DOMAIN log : log'[i].content.diff # log[i].content.diff
                           => \E r \in bypass : Completes(r) /\ i \in ids[r]]_allvars

(* "The chain remains internally verifiable" (gdpr.py), whatever runs next  *)
(* to the redaction.                                                        *)
ChainVerifiesAfterRedaction == VerifyChain(log)
=============================================================================
