------------------------- MODULE TrainingExamProofs -------------------------
(***************************************************************************)
(* Proofs about TrainingExam, for any number of requests and authors, any  *)
(* questions, pass mark and number of versions: a certificate is earned,   *)
(* a submitted attempt is frozen and judged as it was shown, a course has  *)
(* one active version, and progress goes back only by overlap.             *)
(*                                                                         *)
(* A request acts on what it has read before.  IInv says how what was read *)
(* relates to what is there now: unchanged unless the request was          *)
(* overtaken or the version edited, and a number or an attempt that was    *)
(* taken in the meantime is refused by its constraint.                     *)
(***************************************************************************)
EXTENDS TrainingExam, TLAPS

Questionnaire == UNION {[D -> Nat] : D \in SUBSET Questions}
Version == [exists : BOOLEAN, active : BOOLEAN, modules : 0..MaxModules,
            questions : Questionnaire, edits : 0..MaxEdits]

\* What a request has read, by how far it is.
Reads ==
    [pc : {"idle", "start", "declare"}] \cup [pc : {"next"}, to : 0..MaxModules]
    \cup [pc : {"submit", "score"}, page : [shown : Questionnaire, edits : Int],
          right : SUBSET Questions, asked : SUBSET Questions]
    \cup [pc : {"edit"}, version : 1..MaxVersions]
    \cup [pc : {"version"}, seen : SUBSET (1..MaxVersions), next : 1..MaxVersions]

Types ==
    /\ versions \in [1..MaxVersions -> Version]
    /\ status \in {"issued", "started", "submitted"} /\ progress \in 0..MaxModules
    /\ live \in BOOLEAN /\ declared \in BOOLEAN /\ certs \in 0..1
    /\ attempt.state \in {"none", "open", "submitted"}
    /\ page \in [shown : Questionnaire, edits : Int]
    /\ open \in [Actors -> Reads] /\ raced \subseteq Requests

\* Versions are numbered without gaps and the newest alone is active.  Who adds
\* one has read all those below the number it takes.
VersionsInv ==
    /\ \E n \in 1..MaxVersions :
         /\ Existing = 1..n
         /\ \A v \in 1..n : versions[v].active <=> v = n
    /\ \A p \in Actors : open[p].pc = "edit" => versions[open[p].version].exists
    /\ \A p \in Actors : open[p].pc = "version" =>
         open[p].next > 1 /\ open[p].seen = 1 .. open[p].next - 1
         /\ open[p].seen \subseteq Existing

\* The attempt belongs to the one request that scores it, until it is submitted.
AttemptInv ==
    /\ \A p, r \in Actors : open[p].pc = "score" =>
         attempt.state = "open" /\ (open[r].pc = "score" => p = r)
    /\ \A p \in Actors : open[p].pc = "declare" => Submitted /\ attempt.passed
    /\ declared => Submitted /\ attempt.passed
    /\ certs = IF declared THEN 1 ELSE 0

\* The pages shown before the last edit carry a lower count of edits; with the
\* same count the questions are the same.
IsFresh(p) == p.edits = Pinned.edits
PageInv ==
    /\ page.edits <= Pinned.edits
    /\ IsFresh(page) => page.shown = Pinned.questions
    /\ \A p \in Actors : open[p].pc \in {"submit", "score"} =>
         /\ open[p].page.edits <= Pinned.edits
         /\ open[p].right \subseteq DOMAIN open[p].page.shown
         /\ IsFresh(open[p].page) =>
              open[p].page.shown = Pinned.questions /\ open[p].asked = DOMAIN Pinned.questions

\* What a request that was not overtaken has read is what is there.
RaceInv ==
    \A r \in Requests \ raced :
        /\ open[r].pc = "start" => status = "issued"
        /\ open[r].pc = "next" => open[r].to = least(progress + 1, Pinned.modules)

IInv == Types /\ VersionsInv /\ AttemptInv /\ PageInv /\ RaceInv /\ ScoredAsShown

-----------------------------------------------------------------------------

(* The versions that exist are 1 .. n; the newest of them is the active one *)
(* and the pinned one is the first.                                         *)
LEMMA VersionFacts ==
    ASSUME Types, VersionsInv
    PROVE  /\ Newest \in 1..MaxVersions /\ Existing = 1..Newest /\ active_version = Newest
           /\ \A v \in Existing : versions[v].active <=> v = Newest
           /\ 1 \in Existing /\ Pinned \in Version
    <1>1. PICK n \in 1..MaxVersions :
            /\ Existing = 1..n
            /\ \A v \in 1..n : versions[v].active <=> v = n
        BY DEF VersionsInv
    <1>2. n \in Nat /\ n >= 1 /\ n \in 1..n /\ 1 \in 1..n
        BY <1>1, ExamAssumption
    <1>3. Newest = n
        <2>1. \A v \in 1..n : (\A w \in 1..n : w <= v) => v = n
            BY <1>2
        <2>2. \A w \in 1..n : w <= n
            BY <1>2
        <2> QED
            BY <1>1, <1>2, <2>1, <2>2 DEF Newest
    <1>4. active_version = n
        BY <1>1, <1>2 DEF active_version
    <1>5. Pinned \in Version
        BY <1>1, <1>2 DEF Pinned, Types, Existing
    <1> QED
        BY <1>1, <1>2, <1>3, <1>4, <1>5

(* Who begins a request has not been overtaken, who ends one overtakes all  *)
(* others.                                                                  *)
LEMMA OpenChanges ==
    ASSUME Types, NEW p \in Actors, NEW what \in Reads,
           open' = [open EXCEPT ![p] = what]
    PROVE  /\ open' \in [Actors -> Reads] /\ open'[p] = what
           /\ \A r \in Actors : r # p => open'[r] = open[r]
    BY DEF Types

LEMMA IdleIsRead == Idle \in Reads /\ Idle.pc = "idle"
    BY DEF Idle, Reads

LEMMA EndChanges ==
    ASSUME Types, NEW p \in Actors, End(p)
    PROVE  /\ open' \in [Actors -> Reads] /\ open'[p] = Idle /\ raced' \subseteq Requests
           /\ \A r \in Actors : r # p => open'[r] = open[r]
           /\ \A r \in Requests : open'[r].pc # "idle" => r \in raced'
    <1>1. /\ open' \in [Actors -> Reads] /\ open'[p] = Idle
          /\ \A r \in Actors : r # p => open'[r] = open[r]
        BY OpenChanges, IdleIsRead DEF End
    <1>2. Requests \subseteq Actors
        BY DEF Actors
    <1> QED
        BY <1>1, <1>2, IdleIsRead DEF End, Overtaken, Types

\* An author's edit of the version it has resolved before.
AnEdit(a) == \E qs \in Questionnaire, m \in 0..MaxModules : Edited(a, qs, m)

\* Every edit of the content is one.
LEMMA EditsAreEdits ==
    ASSUME Types, VersionsInv, NEW a \in Authors,
           \/ AddModule(a) \/ DeleteModule(a)
           \/ \E q \in Questions : SaveQuestion(a, q) \/ DeleteQuestion(a, q)
    PROVE  AnEdit(a)
    <1>1. a \in Actors /\ MaxModules \in Nat
        BY ExamAssumption DEF Actors
    <1>2. open[a].pc = "edit"
        BY DEF AddModule, DeleteModule, SaveQuestion, DeleteQuestion
    <1>3. open[a].version \in 1..MaxVersions
        BY <1>1, <1>2 DEF Types, Reads
    <1>4. Target(a) \in Version
        BY <1>3 DEF Types, Target
    <1>5. /\ Target(a).modules \in 0..MaxModules /\ Target(a).edits \in Nat
          /\ Target(a).questions \in Questionnaire
        BY <1>4 DEF Version
    <1>6. CASE AddModule(a)
        <2>1. Target(a).modules + 1 \in 0..MaxModules
            BY <1>1, <1>5, <1>6 DEF AddModule
        <2> QED
            BY <1>5, <1>6, <2>1 DEF AddModule, AnEdit
    <1>7. CASE DeleteModule(a)
        <2>1. Target(a).modules - 1 \in 0..MaxModules
            BY <1>1, <1>5, <1>7 DEF DeleteModule
        <2> QED
            BY <1>5, <1>7, <2>1 DEF DeleteModule, AnEdit
    <1>8. PICK D \in SUBSET Questions : Target(a).questions \in [D -> Nat]
        BY <1>5 DEF Questionnaire
    <1>9. ASSUME NEW q \in Questions, SaveQuestion(a, q)
          PROVE  AnEdit(a)
        <2> DEFINE qs == [p \in DOMAIN Target(a).questions \cup {q} |->
                            IF p = q THEN Target(a).edits + 1 ELSE Target(a).questions[p]]
        <2>1. qs \in [D \cup {q} -> Nat]
            BY <1>5, <1>8
        <2>2. qs \in Questionnaire
            BY <1>9, <2>1 DEF Questionnaire
        <2>3. Edited(a, qs, Target(a).modules)
            BY <1>9 DEF SaveQuestion
        <2> QED
            BY <1>5, <2>2, <2>3 DEF AnEdit
    <1>10. ASSUME NEW q \in Questions, DeleteQuestion(a, q)
           PROVE  AnEdit(a)
        <2> DEFINE qs == [p \in DOMAIN Target(a).questions \ {q} |-> Target(a).questions[p]]
        <2>1. qs \in [D \ {q} -> Nat]
            BY <1>8
        <2>2. qs \in Questionnaire
            BY <2>1 DEF Questionnaire
        <2>3. Edited(a, qs, Target(a).modules)
            BY <1>10 DEF DeleteQuestion
        <2> QED
            BY <1>5, <2>2, <2>3 DEF AnEdit
    <1> QED
        BY <1>6, <1>7, <1>9, <1>10

(* An edit leaves no other version and no number changed, and counts itself *)
(* in the version it is of.                                                 *)
LEMMA EditChanges ==
    ASSUME Types, VersionsInv, NEW a \in Authors, AnEdit(a)
    PROVE  /\ versions' \in [1..MaxVersions -> Version] /\ End(a)
           /\ \A w \in 1..MaxVersions : /\ versions'[w].exists = versions[w].exists
                                        /\ versions'[w].active = versions[w].active
                                        /\ \/ versions'[w] = versions[w]
                                           \/ versions'[w].edits > versions[w].edits
           /\ UNCHANGED <<enrolment, record, page>>
    <1>1. PICK qs \in Questionnaire, m \in 0..MaxModules : Edited(a, qs, m)
        BY DEF AnEdit
    <1> DEFINE v == open[a].version
               new == [versions[v] EXCEPT !.questions = qs, !.modules = m, !.edits = @ + 1]
    <1>2. v \in 1..MaxVersions /\ versions[v] \in Version
        BY <1>1 DEF Edited, Types, Reads, Actors
    <1>3. versions' = [versions EXCEPT ![v] = new]
        BY <1>1, <1>2 DEF Edited, Types
    <1>4. versions[v].edits + 1 \in 0..MaxEdits
        BY <1>1, <1>2, ExamAssumption DEF Edited, Version
    <1>5. /\ new \in Version /\ new.edits = versions[v].edits + 1
          /\ new.exists = versions[v].exists /\ new.active = versions[v].active
        BY <1>2, <1>4 DEF Version
    <1>6. new.edits > versions[v].edits
        BY <1>2, <1>5 DEF Version
    <1> HIDE DEF v, new
    <1> QED
        BY <1>1, <1>2, <1>3, <1>5, <1>6 DEF Edited, Types

(* A version that is added takes the number above the newest one, and is    *)
(* the only one that is active then.                                        *)
LEMMA AddChanges ==
    ASSUME Types, VersionsInv, NEW a \in Authors, add_course_version(a)
    PROVE  /\ versions' \in [1..MaxVersions -> Version] /\ End(a)
           /\ Newest + 1 \in 1..MaxVersions /\ Existing' = 1..(Newest + 1)
           /\ \A v \in 1..(Newest + 1) : versions'[v].active <=> v = Newest + 1
           /\ Pinned'.questions = Pinned.questions /\ Pinned'.edits = Pinned.edits
           /\ Pinned'.modules = Pinned.modules
           /\ UNCHANGED <<enrolment, record, page>>
    <1>1. /\ Newest \in 1..MaxVersions /\ Existing = 1..Newest
          /\ \A v \in Existing : versions[v].active <=> v = Newest
          /\ 1 \in Existing
        BY VersionFacts
    <1>2. a \in Actors /\ open[a].pc = "version" /\ open[a].next \notin Existing
        BY DEF add_course_version, Actors
    <1>3. open[a].next \in 1..MaxVersions
        BY <1>2 DEF Types, Reads
    <1>4. /\ open[a].next > 1 /\ open[a].seen = 1 .. open[a].next - 1
          /\ open[a].seen \subseteq Existing
        BY <1>2 DEF VersionsInv
    <1>5. open[a].next = Newest + 1 /\ open[a].seen = Existing
        <2>1. open[a].next > Newest
            BY <1>1, <1>2, <1>3
        <2>2. open[a].next - 1 \in 1..Newest
            BY <1>1, <1>3, <1>4
        <2> QED
            BY <1>1, <1>3, <1>4, <2>1, <2>2
    <1> DEFINE added == [NoVersion EXCEPT !.exists = TRUE, !.active = TRUE]
    <1>6. \A v \in 1..MaxVersions : versions'[v] =
            IF v = Newest + 1 THEN added
            ELSE IF v \in Existing THEN [versions[v] EXCEPT !.active = FALSE]
            ELSE versions[v]
        BY <1>5 DEF add_course_version
    <1>7. /\ added \in Version /\ added.exists = TRUE /\ added.active = TRUE
        <2>1. << >> \in Questionnaire
            BY DEF Questionnaire
        <2>2. NoVersion \in Version
            BY <2>1, ExamAssumption DEF NoVersion, Version
        <2> QED
            BY <2>2 DEF Version
    <1> HIDE DEF added
    <1>8. ASSUME NEW v \in 1..MaxVersions
          PROVE  LET old == [versions[v] EXCEPT !.active = FALSE]
                 IN  /\ old \in Version /\ old.exists = versions[v].exists /\ old.active = FALSE
                     /\ old.questions = versions[v].questions /\ old.edits = versions[v].edits
                     /\ old.modules = versions[v].modules
        <2>1. versions[v] \in Version
            BY DEF Types
        <2> QED
            BY <2>1 DEF Version
    <1>9. versions' \in [1..MaxVersions -> Version]
        <2>1. \A v \in 1..MaxVersions : versions'[v] \in Version
            BY <1>6, <1>7, <1>8 DEF Types
        <2>2. versions' = [v \in 1..MaxVersions |-> versions'[v]]
            BY DEF add_course_version
        <2> QED
            BY <2>1, <2>2
    <1>10. Existing' = 1..(Newest + 1)
        <2>1. \A v \in 1..MaxVersions : versions'[v].exists <=> v \in 1..Newest \/ v = Newest + 1
            BY <1>1, <1>6, <1>7, <1>8 DEF Existing
        <2> QED
            BY <1>1, <1>3, <1>5, <2>1 DEF Existing
    <1>11. \A v \in 1..(Newest + 1) : versions'[v].active <=> v = Newest + 1
        <2> SUFFICES ASSUME NEW v \in 1..(Newest + 1)
                     PROVE  versions'[v].active <=> v = Newest + 1
            OBVIOUS
        <2>1. v \in 1..MaxVersions /\ (v = Newest + 1 \/ (v \in Existing /\ v # Newest + 1))
            BY <1>1, <1>3, <1>5, ExamAssumption
        <2>2. CASE v = Newest + 1
            BY <1>6, <1>7, <2>1, <2>2
        <2>3. CASE v \in Existing /\ v # Newest + 1
            BY <1>6, <1>8, <2>1, <2>3
        <2> QED
            BY <2>1, <2>2, <2>3
    <1>12. /\ Pinned'.questions = Pinned.questions /\ Pinned'.edits = Pinned.edits
           /\ Pinned'.modules = Pinned.modules
        <2>1. 1 \in 1..MaxVersions /\ 1 # Newest + 1
            BY <1>1, ExamAssumption
        <2>2. versions'[1] = [versions[1] EXCEPT !.active = FALSE]
            BY <1>1, <1>6, <2>1
        <2> QED
            BY <1>8, <2>1, <2>2 DEF Pinned
    <1> QED
        BY <1>3, <1>5, <1>9, <1>10, <1>11, <1>12 DEF add_course_version

-----------------------------------------------------------------------------

\* A step of a request, of an author or of nobody: what Next consists of.
LEMMA StepCases ==
    ASSUME Types, VersionsInv, Next, NEW Goal \in BOOLEAN,
           Expire => Goal, ShowExam => Goal,
           \A p \in Actors : Abandon(p) => Goal,
           \A r \in Requests : Trainee(r) => Goal,
           \A a \in Authors : AnEdit(a) => Goal,
           \A a \in Authors : add_course_version(a) => Goal,
           \A a \in Authors : ReadEdit(a) \/ ReadVersions(a) => Goal
    PROVE  Goal
    <1>1. ASSUME NEW a \in Authors, Author(a)
          PROVE  \/ AnEdit(a) \/ add_course_version(a) \/ ReadEdit(a) \/ ReadVersions(a)
        BY <1>1, EditsAreEdits DEF Author
    <1> QED
        BY <1>1 DEF Next

LEMMA TypesStep ==
    ASSUME IInv, Next
    PROVE  Types'
    <1> USE DEF IInv
    <1> DEFINE Rest == /\ versions' \in [1..MaxVersions -> Version]
                       /\ status' \in {"issued", "started", "submitted"}
                       /\ progress' \in 0..MaxModules
                       /\ live' \in BOOLEAN /\ declared' \in BOOLEAN /\ certs' \in 0..1
                       /\ attempt'.state \in {"none", "open", "submitted"}
                       /\ page' \in [shown : Questionnaire, edits : Int]
               Opened == open' \in [Actors -> Reads] /\ raced' \subseteq Requests
    <1>1. SUFFICES Rest /\ Opened
        BY DEF Types
    <1>2. Requests \subseteq Actors /\ Authors \subseteq Actors
        BY DEF Actors
    <1>3. Pinned \in Version
        BY VersionFacts
    <1>4. CASE Expire
        BY <1>4 DEF Expire, Types, course, record
    <1>5. CASE ShowExam
        BY <1>3, <1>5 DEF ShowExam, Types, course, enrolment, record, Version
    <1>6. ASSUME NEW p \in Actors, Abandon(p)
          PROVE  Rest /\ Opened
        <2>1. Opened
            BY <1>6, OpenChanges, IdleIsRead DEF Abandon, Types
        <2>2. Rest
            BY <1>6 DEF Abandon, Types, course, enrolment, NoAttempt
        <2> QED
            BY <2>1, <2>2
    <1>7. ASSUME NEW p \in Actors, NEW what \in Reads, Begin(p, what)
          PROVE  Opened
        BY <1>7, OpenChanges DEF Begin, Types
    <1>8. ASSUME NEW p \in Actors, End(p)
          PROVE  Opened
        BY <1>8, EndChanges
    <1>9. ASSUME NEW r \in Requests, Trainee(r)
          PROVE  Rest /\ Opened
        <2>1. CASE ReadStart(r)
            <3>1. Opened
                BY <1>2, <1>7, <2>1 DEF ReadStart, Reads
            <3> QED
                BY <2>1, <3>1 DEF ReadStart, Types, course, enrolment, record
        <2>2. CASE WriteStart(r)
            <3>1. Opened
                BY <1>2, <1>8, <2>2 DEF WriteStart
            <3> QED
                BY <2>2, <3>1 DEF WriteStart, Types, course, record
        <2>3. CASE ReadNext(r)
            <3> DEFINE to == least(progress + 1, Pinned.modules)
            <3>1. to \in 0..MaxModules
                BY <1>3, ExamAssumption DEF Types, Version, least
            <3> HIDE DEF to
            <3>2. [pc |-> "next", to |-> to] \in Reads
                BY <3>1 DEF Reads
            <3>3. Opened
                BY <1>2, <1>7, <2>3, <3>2 DEF ReadNext, to
            <3> QED
                BY <2>3, <3>3 DEF ReadNext, Types, course, enrolment, record
        <2>4. CASE WriteNext(r)
            <3>1. open[r].to \in 0..MaxModules
                BY <1>2, <2>4 DEF WriteNext, Types, Reads
            <3>2. Opened
                BY <1>2, <1>8, <2>4 DEF WriteNext
            <3> QED
                BY <2>4, <3>1, <3>2 DEF WriteNext, Types, course, record
        <2>5. ASSUME NEW right \in SUBSET Questions, ReadSubmit(r, right)
              PROVE  Rest /\ Opened
            <3>1. DOMAIN Pinned.questions \in SUBSET Questions
                BY <1>3 DEF Version, Questionnaire
            <3>2. [pc |-> "submit", page |-> page, right |-> right,
                   asked |-> DOMAIN Pinned.questions] \in Reads
                BY <3>1 DEF Reads, Types
            <3>3. Opened
                BY <1>2, <1>7, <2>5, <3>2 DEF ReadSubmit
            <3> QED
                BY <2>5, <3>3 DEF ReadSubmit, Types, course, enrolment, record
        <2>6. CASE InsertAttempt(r)
            <3>1. [open[r] EXCEPT !.pc = "score"] \in Reads
                BY <1>2, <2>6 DEF InsertAttempt, Types, Reads
            <3>2. open' = [open EXCEPT ![r] = [open[r] EXCEPT !.pc = "score"]]
                BY <2>6 DEF InsertAttempt
            <3>3. Opened
                BY <1>2, <2>6, <3>1, <3>2, OpenChanges DEF InsertAttempt, Types
            <3> QED
                BY <2>6, <3>3 DEF InsertAttempt, Types, course, enrolment
        <2>7. CASE Refuse(r)
            <3>1. Opened
                BY <1>2, <2>7, OpenChanges, IdleIsRead DEF Refuse, Types
            <3> QED
                BY <2>7, <3>1 DEF Refuse, Types, course, enrolment, record
        <2>8. CASE submit_attempt(r)
            <3>1. Opened
                BY <1>2, <1>8, <2>8 DEF submit_attempt
            <3>2. attempt'.state = "submitted"
                BY <2>8 DEF submit_attempt
            <3> QED
                BY <2>8, <3>1, <3>2 DEF submit_attempt, Types, course
        <2>9. CASE ReadDeclare(r)
            <3>1. Opened
                BY <1>2, <1>7, <2>9 DEF ReadDeclare, Reads
            <3> QED
                BY <2>9, <3>1 DEF ReadDeclare, Types, course, enrolment, record
        <2>10. CASE WriteDeclare(r)
            <3>1. Opened
                BY <1>2, <1>8, <2>10 DEF WriteDeclare
            <3>2. certs = 0
                BY <2>10 DEF WriteDeclare, AttemptInv
            <3> QED
                BY <2>10, <3>1, <3>2 DEF WriteDeclare, Types, course, enrolment
        <2> QED
            BY <1>9, <2>1, <2>2, <2>3, <2>4, <2>5, <2>6, <2>7, <2>8, <2>9, <2>10 DEF Trainee
    <1>10. ASSUME NEW a \in Authors, AnEdit(a)
           PROVE  Rest /\ Opened
        BY <1>2, <1>8, <1>10, EditChanges DEF Types, enrolment, record
    <1>11. ASSUME NEW a \in Authors, add_course_version(a)
           PROVE  Rest /\ Opened
        BY <1>2, <1>8, <1>11, AddChanges DEF Types, enrolment, record
    <1>12. ASSUME NEW a \in Authors, ReadEdit(a) \/ ReadVersions(a)
           PROVE  Rest /\ Opened
        <2>1. /\ Newest \in 1..MaxVersions /\ Existing = 1..Newest /\ active_version = Newest
            BY VersionFacts
        <2>2. [pc |-> "edit", version |-> active_version] \in Reads
            BY <2>1 DEF Reads
        <2>3. Newest < MaxVersions =>
                [pc |-> "version", seen |-> Existing, next |-> Newest + 1] \in Reads
            BY <2>1, ExamAssumption DEF Reads
        <2>4. Opened
            BY <1>2, <1>7, <1>12, <2>2, <2>3 DEF ReadEdit, ReadVersions
        <2> QED
            BY <1>12, <2>4 DEF ReadEdit, ReadVersions, Types, course, enrolment, record
    <1> HIDE DEF Rest, Opened
    <1> QED
        BY <1>4, <1>5, <1>6, <1>9, <1>10, <1>11, <1>12, StepCases

LEMMA TraineeOpens ==
    ASSUME Types, NEW r \in Requests, Trainee(r)
    PROVE  /\ versions' = versions
           /\ \A p \in Actors : p # r => open'[p] = open[p]
           /\ open'[r].pc \in {"idle", "start", "next", "submit", "score", "declare"}
    <1>1. r \in Actors
        BY DEF Actors
    <1>2. ASSUME End(r)
          PROVE  open'[r].pc = "idle" /\ \A p \in Actors : p # r => open'[p] = open[p]
        BY <1>1, <1>2, EndChanges, IdleIsRead
    <1>3. CASE ReadStart(r) \/ ReadNext(r) \/ ReadDeclare(r)
        BY <1>1, <1>3 DEF ReadStart, ReadNext, ReadDeclare, Begin, course, Types
    <1>4. CASE WriteStart(r) \/ WriteNext(r) \/ submit_attempt(r) \/ WriteDeclare(r)
        BY <1>2, <1>4 DEF WriteStart, WriteNext, submit_attempt, WriteDeclare, course
    <1>5. CASE \E right \in SUBSET Questions : ReadSubmit(r, right)
        BY <1>1, <1>5 DEF ReadSubmit, Begin, course, Types
    <1>6. CASE InsertAttempt(r)
        <2>1. open[r] \in Reads /\ open[r].pc = "submit"
            BY <1>1, <1>6 DEF Types, InsertAttempt
        <2>2. open' = [open EXCEPT ![r] = [open[r] EXCEPT !.pc = "score"]] /\ versions' = versions
            BY <1>6 DEF InsertAttempt, course
        <2>3. [open[r] EXCEPT !.pc = "score"].pc = "score"
            BY <2>1 DEF Reads
        <2> QED
            BY <1>1, <2>2, <2>3 DEF Types
    <1>7. CASE Refuse(r)
        BY <1>1, <1>7, IdleIsRead DEF Refuse, course, Types
    <1> QED
        BY <1>3, <1>4, <1>5, <1>6, <1>7 DEF Trainee

(* Two authors who have read the same newest version take the same number:  *)
(* the second of them is refused.                                           *)
LEMMA VersionsStep ==
    ASSUME IInv, Next
    PROVE  VersionsInv'
    <1> USE DEF IInv
    <1> DEFINE Reading(p) ==
                 /\ open[p].pc = "edit" => versions[open[p].version].exists
                 /\ open[p].pc = "version" =>
                      /\ open[p].next > 1 /\ open[p].seen = 1 .. open[p].next - 1
                      /\ open[p].seen \subseteq Existing
    <1>1. \A p \in Actors : Reading(p)
        BY DEF VersionsInv
    <1>2. ASSUME versions' = versions, \A p \in Actors : Reading(p)'
          PROVE  VersionsInv'
        BY <1>2 DEF VersionsInv, Existing
    <1>3. ASSUME NEW p \in Actors, versions' = versions,
                 open'[p] = open[p] \/ open'[p].pc \notin {"edit", "version"}
          PROVE  Reading(p)'
        BY <1>1, <1>3 DEF Existing
    <1>4. ASSUME NEW p \in Actors, open'[p].pc = "idle"
          PROVE  Reading(p)'
        BY <1>4
    <1>5. CASE Expire \/ ShowExam
        BY <1>2, <1>3, <1>5 DEF Expire, ShowExam, course
    <1>6. ASSUME NEW p \in Actors, Abandon(p)
          PROVE  VersionsInv'
        <2>1. versions' = versions /\ open' = [open EXCEPT ![p] = Idle]
            BY <1>6 DEF Abandon, course
        <2>2. open'[p] = Idle /\ \A r \in Actors : r # p => open'[r] = open[r]
            BY <2>1, OpenChanges, IdleIsRead
        <2> HIDE DEF Reading
        <2> QED
            BY <1>2, <1>3, <1>4, <2>1, <2>2, IdleIsRead
    <1>7. ASSUME NEW r \in Requests, Trainee(r)
          PROVE  VersionsInv'
        <2> HIDE DEF Reading
        <2> QED
            BY <1>2, <1>3, <1>7, TraineeOpens
    <1>8. ASSUME NEW a \in Authors, AnEdit(a) \/ add_course_version(a)
          PROVE  /\ a \in Actors /\ open'[a].pc = "idle"
                 /\ \A r \in Actors : r # a => open'[r] = open[r]
        BY <1>8, EditChanges, AddChanges, EndChanges, IdleIsRead DEF Actors
    <1>9. ASSUME NEW p \in Actors, open[p].pc = "edit"
          PROVE  open[p].version \in 1..MaxVersions
        BY <1>9 DEF Types, Reads
    <1>10. ASSUME NEW a \in Authors, AnEdit(a)
           PROVE  VersionsInv'
        <2>1. \A w \in 1..MaxVersions : /\ versions'[w].exists = versions[w].exists
                                        /\ versions'[w].active = versions[w].active
            BY <1>10, EditChanges
        <2>2. Existing' = Existing
            BY <2>1 DEF Existing
        <2>3. ASSUME NEW p \in Actors, p # a
              PROVE  Reading(p)'
            BY <1>1, <1>8, <1>9, <1>10, <2>1, <2>2, <2>3
        <2>4. \A p \in Actors : Reading(p)'
            BY <1>4, <1>8, <1>10, <2>3
        <2>5. PICK n \in 1..MaxVersions :
                /\ Existing = 1..n
                /\ \A v \in 1..n : versions[v].active <=> v = n
            BY DEF VersionsInv
        <2>6. \A v \in 1..n : versions'[v].active <=> v = n
            BY <2>1, <2>5, ExamAssumption
        <2> QED
            BY <2>2, <2>4, <2>5, <2>6 DEF VersionsInv
    <1>11. ASSUME NEW a \in Authors, add_course_version(a)
           PROVE  VersionsInv'
        <2>1. /\ Newest + 1 \in 1..MaxVersions /\ Existing' = 1..(Newest + 1)
              /\ \A v \in 1..(Newest + 1) : versions'[v].active <=> v = Newest + 1
            BY <1>11, AddChanges
        <2>2. Existing \subseteq Existing'
            BY <2>1, VersionFacts
        <2>3. \A v \in 1..MaxVersions : versions[v].exists => versions'[v].exists
            BY <2>2 DEF Existing
        <2>4. ASSUME NEW p \in Actors, p # a
              PROVE  Reading(p)'
            BY <1>1, <1>8, <1>9, <1>11, <2>2, <2>3, <2>4
        <2>5. \A p \in Actors : Reading(p)'
            BY <1>4, <1>8, <1>11, <2>4
        <2> QED
            BY <2>1, <2>5 DEF VersionsInv
    <1>12. ASSUME NEW a \in Authors, ReadEdit(a) \/ ReadVersions(a)
           PROVE  VersionsInv'
        <2>1. /\ Newest \in 1..MaxVersions /\ Existing = 1..Newest /\ active_version = Newest
            BY VersionFacts
        <2>2. a \in Actors /\ versions' = versions
            BY <1>12 DEF Actors, ReadEdit, ReadVersions, course
        <2>3. ASSUME NEW p \in Actors, p # a
              PROVE  open'[p] = open[p]
            BY <1>12, <2>3 DEF ReadEdit, ReadVersions, Begin, Types
        <2>4. CASE ReadEdit(a)
            <3>1. open'[a] = [pc |-> "edit", version |-> Newest]
                BY <2>1, <2>2, <2>4 DEF ReadEdit, Begin, Types
            <3>2. Newest \in Existing
                BY <2>1
            <3>3. Reading(a)'
                BY <2>2, <3>1, <3>2 DEF Existing
            <3> HIDE DEF Reading
            <3> QED
                BY <1>2, <1>3, <2>2, <2>3, <3>3
        <2>5. CASE ReadVersions(a)
            <3>1. open'[a] = [pc |-> "version", seen |-> Existing, next |-> Newest + 1]
                BY <2>2, <2>5 DEF ReadVersions, Begin, Types
            <3>2. Newest + 1 > 1 /\ Existing = 1 .. (Newest + 1) - 1
                BY <2>1
            <3>3. Reading(a)'
                BY <2>2, <3>1, <3>2 DEF Existing
            <3> HIDE DEF Reading
            <3> QED
                BY <1>2, <1>3, <2>2, <2>3, <3>3
        <2> QED
            BY <1>12, <2>4, <2>5
    <1> QED
        BY <1>5, <1>6, <1>7, <1>10, <1>11, <1>12, StepCases

\* What an author's step does to the attempt, its declaration and its score.
LEMMA AuthorLeavesRecord ==
    ASSUME Types, VersionsInv, NEW a \in Authors,
           AnEdit(a) \/ add_course_version(a) \/ ReadEdit(a) \/ ReadVersions(a)
    PROVE  /\ UNCHANGED <<attempt, declared, certs, status, progress, page>>
           /\ \A p \in Actors : p # a => open'[p] = open[p]
           /\ open'[a].pc \in {"idle", "edit", "version"} /\ a \in Actors
    <1>1. a \in Actors
        BY DEF Actors
    <1>2. CASE AnEdit(a) \/ add_course_version(a)
        BY <1>1, <1>2, EditChanges, AddChanges, EndChanges, IdleIsRead DEF record, enrolment
    <1>3. CASE ReadEdit(a) \/ ReadVersions(a)
        BY <1>1, <1>3 DEF ReadEdit, ReadVersions, Begin, record, enrolment, Types
    <1> QED
        BY <1>1, <1>2, <1>3

(* Only one request scores the attempt, and only one is declared.           *)
LEMMA AttemptStep ==
    ASSUME IInv, Next
    PROVE  AttemptInv' /\ (Submitted => attempt' = attempt)
    <1> USE DEF IInv, AttemptInv, Submitted
    <1> DEFINE Frozen == Submitted => attempt' = attempt
    <1> SUFFICES AttemptInv' /\ Frozen
        OBVIOUS
    <1>1. Requests \subseteq Actors
        BY DEF Actors
    <1>2. CASE Expire \/ ShowExam
        BY <1>2 DEF Expire, ShowExam, record
    <1>3. ASSUME NEW p \in Actors, Abandon(p)
          PROVE  AttemptInv' /\ Frozen
        <2>1. open'[p] = Idle /\ \A r \in Actors : r # p => open'[r] = open[r]
            BY <1>3, OpenChanges, IdleIsRead DEF Abandon
        <2>2. UNCHANGED <<declared, certs>>
            BY <1>3 DEF Abandon
        <2>3. CASE open[p].pc = "score"
            <3>1. attempt' = NoAttempt /\ ~Submitted /\ attempt'.state = "none"
                BY <1>3, <2>3 DEF Abandon, NoAttempt
            <3>2. \A r \in Actors : r # p => open'[r].pc # "score" /\ open'[r].pc # "declare"
                BY <2>1, <2>3, <3>1
            <3> QED
                BY <2>1, <2>2, <3>1, <3>2, IdleIsRead
        <2>4. CASE open[p].pc # "score"
            <3>1. attempt' = attempt
                BY <1>3, <2>4 DEF Abandon
            <3> QED
                BY <2>1, <2>2, <3>1, IdleIsRead
        <2> QED
            BY <2>3, <2>4
    <1>4. ASSUME NEW r \in Requests, Trainee(r)
          PROVE  AttemptInv' /\ Frozen
        <2>1. r \in Actors /\ \A p \in Actors : p # r => open'[p] = open[p]
            BY <1>1, <1>4, TraineeOpens
        <2>2. CASE UNCHANGED <<attempt, declared, certs>> /\ open'[r].pc \notin {"score", "declare"}
            BY <2>1, <2>2
        <2>3. CASE ReadStart(r) \/ ReadNext(r) \/ \E right \in SUBSET Questions : ReadSubmit(r, right)
            <3>1. open'[r].pc \in {"start", "next", "submit"} /\ UNCHANGED <<attempt, declared, certs>>
                BY <2>1, <2>3 DEF ReadStart, ReadNext, ReadSubmit, Begin, record, Types
            <3> QED
                BY <2>2, <3>1
        <2>4. CASE WriteStart(r) \/ WriteNext(r)
            <3>1. open'[r].pc = "idle" /\ UNCHANGED <<attempt, declared, certs>>
                BY <2>1, <2>4, EndChanges, IdleIsRead DEF WriteStart, WriteNext, record
            <3> QED
                BY <2>2, <3>1
        <2>5. CASE Refuse(r)
            <3>1. open'[r] = Idle /\ UNCHANGED <<attempt, declared, certs>>
                BY <2>1, <2>5, OpenChanges, IdleIsRead DEF Refuse, record
            <3> QED
                BY <2>2, <3>1, IdleIsRead
        <2>6. CASE InsertAttempt(r)
            <3>1. /\ attempt.state = "none" /\ attempt' = [state |-> "open"]
                  /\ UNCHANGED <<declared, certs>> /\ open[r].pc = "submit"
                  /\ open' = [open EXCEPT ![r] = [open[r] EXCEPT !.pc = "score"]]
                BY <2>6 DEF InsertAttempt
            <3>2. open'[r].pc = "score"
                <4>1. open[r] \in Reads
                    BY <2>1 DEF Types
                <4>2. [open[r] EXCEPT !.pc = "score"].pc = "score"
                    BY <3>1, <4>1 DEF Reads
                <4> QED
                    BY <2>1, <3>1, <4>2 DEF Types
            <3>3. \A p \in Actors : p # r => open'[p].pc # "score" /\ open'[p].pc # "declare"
                BY <2>1, <3>1
            <3>4. ~declared /\ attempt'.state = "open"
                BY <3>1
            <3> QED
                BY <3>1, <3>2, <3>3, <3>4
        <2>7. CASE submit_attempt(r)
            <3>1. /\ open[r].pc = "score" /\ UNCHANGED <<declared, certs>>
                  /\ attempt'.state = "submitted" /\ attempt.state = "open"
                BY <2>1, <2>7 DEF submit_attempt
            <3>2. open'[r].pc = "idle"
                BY <2>1, <2>7, EndChanges, IdleIsRead DEF submit_attempt
            <3>3. \A p \in Actors : p # r => open'[p].pc # "score" /\ open'[p].pc # "declare"
                BY <2>1, <3>1
            <3>4. ~declared /\ ~Submitted
                BY <3>1
            <3> QED
                BY <3>1, <3>2, <3>3, <3>4
        <2>8. CASE ReadDeclare(r)
            <3>1. /\ open'[r].pc = "declare" /\ UNCHANGED <<attempt, declared, certs>>
                  /\ Submitted /\ attempt.passed
                BY <2>1, <2>8 DEF ReadDeclare, Begin, record, Types
            <3> QED
                BY <2>1, <3>1
        <2>9. CASE WriteDeclare(r)
            <3>1. /\ Submitted /\ attempt.passed /\ ~declared
                  /\ attempt' = attempt /\ declared' = TRUE /\ certs' = 1
                <4>1. Submitted /\ attempt.passed /\ certs = 0 /\ ~declared
                    BY <2>1, <2>9 DEF WriteDeclare
                <4> QED
                    BY <2>9, <4>1 DEF WriteDeclare
            <3>2. open'[r].pc = "idle"
                BY <2>1, <2>9, EndChanges, IdleIsRead DEF WriteDeclare
            <3> QED
                BY <2>1, <3>1, <3>2
        <2> QED
            BY <1>4, <2>3, <2>4, <2>5, <2>6, <2>7, <2>8, <2>9 DEF Trainee
    <1>5. ASSUME NEW a \in Authors,
                 AnEdit(a) \/ add_course_version(a) \/ ReadEdit(a) \/ ReadVersions(a)
          PROVE  AttemptInv' /\ Frozen
        BY <1>5, AuthorLeavesRecord
    <1> HIDE DEF Frozen, AttemptInv
    <1> QED
        BY <1>2, <1>3, <1>4, <1>5, StepCases

(* A page that was shown before an edit has a lower count of edits than the *)
(* version has from then on.                                                *)
LEMMA PageStep ==
    ASSUME IInv, Next
    PROVE  PageInv'
    <1> USE DEF IInv
    <1> DEFINE Sent(req) ==
                 /\ req.page.edits <= Pinned.edits
                 /\ req.right \subseteq DOMAIN req.page.shown
                 /\ req.page.edits = Pinned.edits =>
                      req.page.shown = Pinned.questions /\ req.asked = DOMAIN Pinned.questions
               Sending(p) == open[p].pc \in {"submit", "score"} => Sent(open[p])
               Shown == page.edits <= Pinned.edits
                        /\ (page.edits = Pinned.edits => page.shown = Pinned.questions)
    <1>1. Shown /\ \A p \in Actors : Sending(p)
        BY DEF PageInv, IsFresh
    <1>2. ASSUME Shown', \A p \in Actors : Sending(p)'
          PROVE  PageInv'
        BY <1>2 DEF PageInv, IsFresh
    <1>3. Requests \subseteq Actors /\ Pinned \in Version /\ 1 \in 1..MaxVersions
        BY VersionFacts, ExamAssumption DEF Actors
    <1>4. Pinned.edits \in Int /\ page.edits \in Int
        BY <1>3 DEF Version, Types
    <1>5. ASSUME NEW p \in Actors, versions' = versions,
                 open'[p] = open[p] \/ open'[p].pc \notin {"submit", "score"}
          PROVE  Sending(p)'
        BY <1>1, <1>5 DEF Pinned
    <1>6. ASSUME versions' = versions, page' = page
          PROVE  Shown'
        BY <1>1, <1>6 DEF Pinned
    <1>7. CASE Expire
        BY <1>2, <1>5, <1>6, <1>7 DEF Expire, course
    <1>8. CASE ShowExam
        <2>1. Shown'
            BY <1>4, <1>8 DEF ShowExam, course, Pinned
        <2> QED
            BY <1>2, <1>5, <1>8, <2>1 DEF ShowExam, course
    <1>9. ASSUME NEW p \in Actors, Abandon(p)
          PROVE  PageInv'
        <2>1. open'[p] = Idle /\ \A r \in Actors : r # p => open'[r] = open[r]
            BY <1>9, OpenChanges, IdleIsRead DEF Abandon
        <2>2. versions' = versions /\ page' = page
            BY <1>9 DEF Abandon, course
        <2> HIDE DEF Shown, Sending
        <2> QED
            BY <1>2, <1>5, <1>6, <2>1, <2>2, IdleIsRead
    <1>10. ASSUME NEW r \in Requests, Trainee(r)
           PROVE  PageInv'
        <2>1. /\ versions' = versions
              /\ \A p \in Actors : p # r => open'[p] = open[p]
            BY <1>10, TraineeOpens
        <2>2. page' = page
            BY <1>10 DEF Trainee, ReadStart, WriteStart, ReadNext, WriteNext, ReadSubmit,
                         InsertAttempt, Refuse, submit_attempt, ReadDeclare, WriteDeclare
        <2>3. Sending(r)'
            <3>1. CASE open'[r].pc \notin {"submit", "score"}
                BY <1>3, <1>5, <2>1, <3>1
            <3>2. CASE \E right \in SUBSET Questions : ReadSubmit(r, right)
                <4>1. PICK right \in SUBSET Questions : ReadSubmit(r, right)
                    BY <3>2
                <4>2. open'[r] = [pc |-> "submit", page |-> page, right |-> right,
                                  asked |-> DOMAIN Pinned.questions]
                    BY <1>3, <4>1 DEF ReadSubmit, Begin, Types
                <4>3. right \subseteq DOMAIN page.shown
                    BY <4>1 DEF ReadSubmit
                <4>4. Sent(open'[r])
                    BY <1>1, <4>2, <4>3
                <4> QED
                    BY <2>1, <4>4 DEF Pinned
            <3>3. CASE InsertAttempt(r)
                <4>1. open[r] \in Reads /\ open[r].pc = "submit"
                    BY <1>3, <3>3 DEF Types, InsertAttempt
                <4>2. open'[r] = [open[r] EXCEPT !.pc = "score"]
                    BY <1>3, <3>3 DEF InsertAttempt, Types
                <4>3. /\ open'[r].page = open[r].page /\ open'[r].right = open[r].right
                      /\ open'[r].asked = open[r].asked
                    BY <4>1, <4>2 DEF Reads
                <4>4. Sent(open[r])
                    BY <1>1, <1>3, <4>1
                <4>5. Sent(open'[r])
                    BY <4>3, <4>4
                <4> QED
                    BY <2>1, <4>5 DEF Pinned
            <3>4. CASE ReadStart(r) \/ ReadNext(r) \/ ReadDeclare(r)
                <4>1. open'[r].pc \in {"start", "next", "declare"}
                    BY <1>3, <3>4 DEF ReadStart, ReadNext, ReadDeclare, Begin, Types
                <4> QED
                    BY <3>1, <4>1
            <3>5. CASE WriteStart(r) \/ WriteNext(r) \/ submit_attempt(r) \/ WriteDeclare(r)
                <4>1. open'[r].pc = "idle"
                    BY <1>3, <3>5, EndChanges, IdleIsRead
                       DEF WriteStart, WriteNext, submit_attempt, WriteDeclare
                <4> QED
                    BY <3>1, <4>1
            <3>6. CASE Refuse(r)
                <4>1. open'[r].pc = "idle"
                    BY <1>3, <3>6, OpenChanges, IdleIsRead DEF Refuse
                <4> QED
                    BY <3>1, <4>1
            <3> HIDE DEF Sending
            <3> QED
                BY <1>10, <3>2, <3>3, <3>4, <3>5, <3>6 DEF Trainee
        <2> HIDE DEF Shown, Sending
        <2> QED
            BY <1>2, <1>5, <1>6, <2>1, <2>2, <2>3
    <1>11. ASSUME NEW p \in Actors, open[p].pc \in {"submit", "score"}
           PROVE  open[p].page.edits \in Int
        BY <1>11 DEF Types, Reads
    <1>12. ASSUME NEW a \in Authors,
                  AnEdit(a) \/ add_course_version(a) \/ ReadEdit(a) \/ ReadVersions(a)
           PROVE  PageInv'
        <2>1. /\ page' = page /\ \A p \in Actors : p # a => open'[p] = open[p]
              /\ open'[a].pc \in {"idle", "edit", "version"}
            BY <1>12, AuthorLeavesRecord
        <2>2. \/ Pinned'.edits > Pinned.edits
              \/ Pinned'.edits = Pinned.edits /\ Pinned'.questions = Pinned.questions
            <3>1. CASE AnEdit(a)
                BY <1>3, <3>1, EditChanges DEF Pinned
            <3>2. CASE add_course_version(a)
                BY <3>2, AddChanges
            <3>3. CASE ReadEdit(a) \/ ReadVersions(a)
                BY <3>3 DEF ReadEdit, ReadVersions, course, Pinned
            <3> QED
                BY <1>12, <3>1, <3>2, <3>3
        <2>3. Pinned'.edits \in Int
            <3>1. versions' \in [1..MaxVersions -> Version]
                BY TypesStep DEF Types
            <3>2. versions'[1] \in Version
                BY <1>3, <3>1
            <3> QED
                BY <3>2 DEF Pinned, Version
        <2>4. Shown'
            BY <1>1, <1>4, <2>1, <2>2, <2>3
        <2>5. ASSUME NEW p \in Actors
              PROVE  Sending(p)'
            <3>1. CASE p = a
                BY <2>1, <3>1
            <3>2. CASE p # a /\ open[p].pc \in {"submit", "score"}
                <4>1. open'[p] = open[p] /\ Sent(open[p]) /\ open[p].page.edits \in Int
                    BY <1>1, <1>11, <2>1, <3>2
                <4> QED
                    BY <1>4, <2>2, <2>3, <4>1
            <3>3. CASE p # a /\ open[p].pc \notin {"submit", "score"}
                BY <2>1, <3>3
            <3> QED
                BY <3>1, <3>2, <3>3
        <2> HIDE DEF Shown, Sending
        <2> QED
            BY <1>2, <2>4, <2>5
    <1> QED
        BY <1>7, <1>8, <1>9, <1>10, <1>12, StepCases

(* The answers are judged against what was shown when the version was not   *)
(* edited: the same questions are asked, and the same options are right.    *)
LEMMA ScoreStep ==
    ASSUME IInv, Next
    PROVE  ScoredAsShown'
    <1>1. ASSUME attempt' = attempt
          PROVE  ScoredAsShown'
        BY <1>1 DEF IInv, ScoredAsShown, Submitted
    <1>2. ASSUME attempt'.state # "submitted"
          PROVE  ScoredAsShown'
        BY <1>2 DEF ScoredAsShown, Submitted
    <1>3. CASE Expire \/ ShowExam
        BY <1>1, <1>3 DEF Expire, ShowExam, record
    <1>4. ASSUME NEW p \in Actors, Abandon(p)
          PROVE  ScoredAsShown'
        BY <1>1, <1>2, <1>4 DEF Abandon, NoAttempt
    <1>5. ASSUME NEW r \in Requests, submit_attempt(r)
          PROVE  ScoredAsShown'
        <2> DEFINE req == open[r]
                   correct == {q \in req.asked : IsRight(req, q)}
        <2>1. r \in Actors /\ req.pc = "score"
            BY <1>5 DEF submit_attempt, Actors
        <2>2. attempt' = [state |-> "submitted",
                          passed |-> PassesWith(Cardinality(correct), Cardinality(req.asked)),
                          asShown |-> PassesWith(Cardinality(req.right),
                                                   Cardinality(DOMAIN req.page.shown)),
                          edited |-> req.page.edits # Pinned.edits]
            BY <1>5 DEF submit_attempt
        <2>3. ASSUME req.page.edits = Pinned.edits
              PROVE  correct = req.right /\ req.asked = DOMAIN req.page.shown
            <3>1. /\ req.page.shown = Pinned.questions /\ req.asked = DOMAIN Pinned.questions
                  /\ req.right \subseteq DOMAIN req.page.shown
                BY <2>1, <2>3 DEF IInv, PageInv, IsFresh
            <3>2. \A q \in req.asked : IsRight(req, q) <=> q \in req.right
                BY <3>1 DEF IsRight
            <3> QED
                BY <3>1, <3>2
        <2>4. req.page.edits = Pinned.edits => attempt'.passed = attempt'.asShown
            BY <2>2, <2>3
        <2>5. attempt'.edited = (req.page.edits # Pinned.edits)
            BY <2>2
        <2> QED
            BY <2>4, <2>5 DEF ScoredAsShown
    <1>6. ASSUME NEW r \in Requests, Trainee(r)
          PROVE  ScoredAsShown'
        <2>1. CASE InsertAttempt(r)
            BY <1>2, <2>1 DEF InsertAttempt
        <2>2. CASE submit_attempt(r)
            BY <1>5, <2>2
        <2>3. CASE ~InsertAttempt(r) /\ ~submit_attempt(r)
            BY <1>1, <1>6, <2>3 DEF Trainee, ReadStart, WriteStart, ReadNext, WriteNext, ReadSubmit,
                                    Refuse, ReadDeclare, WriteDeclare, record
        <2> QED
            BY <2>1, <2>2, <2>3
    <1>7. ASSUME NEW a \in Authors,
                 AnEdit(a) \/ add_course_version(a) \/ ReadEdit(a) \/ ReadVersions(a)
          PROVE  ScoredAsShown'
        BY <1>1, <1>7, AuthorLeavesRecord DEF IInv
    <1> QED
        BY <1>3, <1>4, <1>6, <1>7, StepCases DEF IInv, ScoredAsShown

(* Whatever changes the status, the progress or the content of the version  *)
(* overtakes the requests that are open; the others have read what is there.*)
LEMMA RaceStep ==
    ASSUME IInv, Next
    PROVE  RaceInv'
    <1> USE DEF IInv
    <1> DEFINE Current(r) == /\ open[r].pc = "start" => status = "issued"
                             /\ open[r].pc = "next" =>
                                  open[r].to = least(progress + 1, Pinned.modules)
    <1>1. \A r \in Requests \ raced : Current(r)
        BY DEF RaceInv
    <1>2. SUFFICES \A r \in Requests \ raced' : Current(r)'
        BY DEF RaceInv
    <1>3. Requests \subseteq Actors
        BY DEF Actors
    <1>4. ASSUME NEW r \in Requests, open'[r].pc \notin {"start", "next"}
          PROVE  Current(r)'
        BY <1>4
    <1>5. ASSUME NEW r \in Requests, r \notin raced, open'[r] = open[r], status' = status,
                 progress' = progress, Pinned'.modules = Pinned.modules
          PROVE  Current(r)'
        BY <1>1, <1>5
    <1>6. ASSUME NEW p \in Actors, End(p)
          PROVE  \A r \in Requests \ raced' : Current(r)'
        BY <1>4, <1>6, EndChanges
    <1>7. ASSUME versions' = versions
          PROVE  Pinned' = Pinned
        BY <1>7 DEF Pinned
    <1>8. ASSUME NEW p \in Actors, NEW what \in Reads, Begin(p, what),
                 UNCHANGED <<versions, status, progress>>,
                 p \in Requests => Current(p)'
          PROVE  \A r \in Requests \ raced' : Current(r)'
        <2>1. \A r \in Actors : r # p => open'[r] = open[r]
            BY <1>8, OpenChanges DEF Begin
        <2>2. raced' = raced \ {p}
            BY <1>8 DEF Begin
        <2> HIDE DEF Current
        <2> QED
            BY <1>3, <1>5, <1>7, <1>8, <2>1, <2>2
    <1>9. CASE Expire \/ ShowExam
        <2>1. UNCHANGED <<versions, status, progress, open, raced>>
            BY <1>9 DEF Expire, ShowExam, course, enrolment
        <2> HIDE DEF Current
        <2> QED
            BY <1>5, <1>7, <2>1
    <1>10. ASSUME NEW p \in Actors, open' = [open EXCEPT ![p] = Idle], raced' = raced \ {p},
                  UNCHANGED <<versions, status, progress>>
           PROVE  \A r \in Requests \ raced' : Current(r)'
        <2>1. open'[p].pc = "idle" /\ \A r \in Actors : r # p => open'[r] = open[r]
            BY <1>10, OpenChanges, IdleIsRead
        <2> HIDE DEF Current
        <2> QED
            BY <1>3, <1>4, <1>5, <1>7, <1>10, <2>1
    <1>11. ASSUME NEW p \in Actors, Abandon(p)
           PROVE  \A r \in Requests \ raced' : Current(r)'
        BY <1>10, <1>11 DEF Abandon, course, enrolment
    <1>12. ASSUME NEW r \in Requests, Trainee(r)
           PROVE  \A s \in Requests \ raced' : Current(s)'
        <2>1. r \in Actors /\ Types'
            BY <1>3, TypesStep, <1>12 DEF Next
        <2>2. CASE WriteStart(r) \/ WriteNext(r) \/ submit_attempt(r) \/ WriteDeclare(r)
            BY <1>6, <2>1, <2>2 DEF WriteStart, WriteNext, submit_attempt, WriteDeclare
        <2>3. CASE Refuse(r)
            BY <1>10, <2>1, <2>3 DEF Refuse, course, enrolment
        <2>4. CASE ReadStart(r)
            <3>1. [pc |-> "start"] \in Reads /\ Begin(r, [pc |-> "start"])
                  /\ UNCHANGED <<versions, status, progress>> /\ status = "issued"
                BY <2>4 DEF ReadStart, Reads, course, enrolment
            <3>2. open'[r] = [pc |-> "start"]
                BY <2>1, <3>1, OpenChanges DEF Begin
            <3>3. Current(r)'
                BY <3>1, <3>2
            <3> HIDE DEF Current
            <3> QED
                BY <1>8, <2>1, <3>1, <3>3
        <2>5. CASE ReadNext(r)
            <3> DEFINE what == [pc |-> "next", to |-> least(progress + 1, Pinned.modules)]
            <3>1. Begin(r, what) /\ UNCHANGED <<versions, status, progress>>
                BY <2>5 DEF ReadNext, course, enrolment
            <3>2. open'[r] = what
                BY <2>1, <3>1 DEF Begin, Types
            <3>3. what \in Reads
                BY <2>1, <3>2 DEF Types
            <3>4. Current(r)'
                BY <1>7, <3>1, <3>2
            <3> HIDE DEF Current, what
            <3> QED
                BY <1>8, <2>1, <3>1, <3>3, <3>4
        <2>6. CASE \E right \in SUBSET Questions : ReadSubmit(r, right)
            <3>1. PICK right \in SUBSET Questions : ReadSubmit(r, right)
                BY <2>6
            <3> DEFINE what == [pc |-> "submit", page |-> page, right |-> right,
                                asked |-> DOMAIN Pinned.questions]
            <3>2. Begin(r, what) /\ UNCHANGED <<versions, status, progress>>
                BY <3>1 DEF ReadSubmit, course, enrolment
            <3>3. open'[r] = what
                BY <2>1, <3>2 DEF Begin, Types
            <3>4. what \in Reads
                BY <2>1, <3>3 DEF Types
            <3>5. Current(r)'
                BY <3>3
            <3> HIDE DEF Current, what
            <3> QED
                BY <1>8, <2>1, <3>2, <3>4, <3>5
        <2>7. CASE ReadDeclare(r)
            <3>1. [pc |-> "declare"] \in Reads /\ Begin(r, [pc |-> "declare"])
                  /\ UNCHANGED <<versions, status, progress>>
                BY <2>7 DEF ReadDeclare, Reads, course, enrolment
            <3>2. Current(r)'
                BY <2>1, <3>1, OpenChanges DEF Begin
            <3> HIDE DEF Current
            <3> QED
                BY <1>8, <2>1, <3>1, <3>2
        <2>8. CASE InsertAttempt(r)
            <3>1. UNCHANGED <<versions, status, progress, raced>>
                BY <2>8 DEF InsertAttempt, course, enrolment
            <3>2. \A s \in Actors : s # r => open'[s] = open[s]
                BY <1>12, TraineeOpens
            <3>3. open'[r].pc = "score"
                <4>1. open[r] \in Reads /\ open[r].pc = "submit"
                    BY <2>1, <2>8 DEF Types, InsertAttempt
                <4>2. [open[r] EXCEPT !.pc = "score"].pc = "score"
                    BY <4>1 DEF Reads
                <4> QED
                    BY <2>1, <2>8, <4>2 DEF InsertAttempt, Types
            <3> HIDE DEF Current
            <3> QED
                BY <1>3, <1>4, <1>5, <1>7, <3>1, <3>2, <3>3
        <2> QED
            BY <1>12, <2>2, <2>3, <2>4, <2>5, <2>6, <2>7, <2>8 DEF Trainee
    <1>13. ASSUME NEW a \in Authors, AnEdit(a) \/ add_course_version(a)
           PROVE  \A r \in Requests \ raced' : Current(r)'
        BY <1>6, <1>13, EditChanges, AddChanges DEF Actors
    <1>14. ASSUME NEW a \in Authors, ReadEdit(a) \/ ReadVersions(a)
           PROVE  \A r \in Requests \ raced' : Current(r)'
        <2>1. a \in Actors /\ a \notin Requests
            BY ExamAssumption DEF Actors
        <2>2. UNCHANGED <<versions, status, progress>> /\ raced' = raced \ {a}
              /\ \A r \in Actors : r # a => open'[r] = open[r]
            BY <1>14, AuthorLeavesRecord DEF ReadEdit, ReadVersions, Begin, course
        <2> HIDE DEF Current
        <2> QED
            BY <1>3, <1>5, <1>7, <2>1, <2>2
    <1> HIDE DEF Current
    <1> QED
        BY <1>9, <1>11, <1>12, <1>13, <1>14, StepCases

-----------------------------------------------------------------------------

LEMMA InitInv == Init => IInv
    <1> SUFFICES ASSUME Init
                 PROVE  IInv
        OBVIOUS
    <1> USE DEF Init
    <1>1. \A p \in Actors : open[p] = Idle /\ open[p].pc = "idle"
        BY DEF Idle
    <1>2. Pinned = [exists |-> TRUE, active |-> TRUE, modules |-> MaxModules, edits |-> 0,
                    questions |-> [q \in Questions |-> 0]]
        BY ExamAssumption DEF Pinned
    <1>3. Types
        <2>1. [q \in Questions |-> 0] \in Questionnaire /\ << >> \in Questionnaire
            BY DEF Questionnaire
        <2>2. MaxModules \in 0..MaxModules /\ 0 \in 0..MaxModules /\ 0 \in 0..MaxEdits
            BY ExamAssumption
        <2>3. Pinned \in Version
            BY <1>2, <2>1, <2>2 DEF Version
        <2>4. NoVersion \in Version
            BY <2>1, <2>2 DEF NoVersion, Version
        <2>5. versions \in [1..MaxVersions -> Version]
            BY <1>2, <2>3, <2>4, ExamAssumption
        <2>6. page \in [shown : Questionnaire, edits : Int]
            BY <2>1 DEF NoPage
        <2>7. open \in [Actors -> Reads]
            BY IdleIsRead
        <2>8. attempt.state = "none"
            BY DEF NoAttempt
        <2>9. progress \in 0..MaxModules /\ certs \in 0..1
            BY <2>2
        <2>10. live \in BOOLEAN /\ declared \in BOOLEAN
            OBVIOUS
        <2> QED
            BY <2>5, <2>6, <2>7, <2>8, <2>9, <2>10 DEF Types
    <1>4. VersionsInv
        <2>1. Existing = 1..1
            BY ExamAssumption DEF Existing, NoVersion
        <2>2. \A v \in 1..1 : versions[v].active <=> v = 1
            BY ExamAssumption
        <2>3. 1 \in 1..MaxVersions
            BY ExamAssumption
        <2> QED
            BY <1>1, <2>1, <2>2, <2>3 DEF VersionsInv
    <1>5. AttemptInv
        BY <1>1 DEF AttemptInv
    <1>6. PageInv
        BY <1>1, <1>2 DEF PageInv, IsFresh, NoPage
    <1>7. RaceInv
        BY <1>1 DEF RaceInv, Actors
    <1>8. ScoredAsShown
        BY DEF ScoredAsShown, Submitted, NoAttempt
    <1> QED
        BY <1>3, <1>4, <1>5, <1>6, <1>7, <1>8 DEF IInv

LEMMA IInvHolds == Spec => []IInv
    <1>1. IInv /\ [Next]_vars => IInv'
        <2> SUFFICES ASSUME IInv, [Next]_vars
                     PROVE  IInv'
            OBVIOUS
        <2>1. CASE UNCHANGED vars
            <3>1. Types'
                BY <2>1 DEF vars, IInv, Types
            <3>2. VersionsInv'
                BY <2>1 DEF vars, IInv, VersionsInv, Existing
            <3>3. AttemptInv' /\ ScoredAsShown'
                BY <2>1 DEF vars, IInv, AttemptInv, ScoredAsShown, Submitted
            <3>4. PageInv' /\ RaceInv'
                BY <2>1 DEF vars, IInv, PageInv, IsFresh, RaceInv, Pinned
            <3> QED
                BY <3>1, <3>2, <3>3, <3>4 DEF IInv
        <2>2. CASE Next
            BY <2>2, TypesStep, VersionsStep, AttemptStep, PageStep, RaceStep, ScoreStep DEF IInv
        <2> QED
            BY <2>1, <2>2
    <1> QED
        BY <1>1, InitInv, PTL DEF Spec

(* Status, progress, score and the counts of versions, modules and edits    *)
(* stay in their ranges, whatever requests and authors overlap.             *)
THEOREM TypeCorrect == Spec => []TypeOK
    <1>1. IInv => TypeOK
        <2> SUFFICES ASSUME IInv
                     PROVE  TypeOK
            OBVIOUS
        <2>1. DOMAIN versions = 1..MaxVersions
            BY DEF IInv, Types
        <2>2. ASSUME NEW v \in 1..MaxVersions
              PROVE  /\ versions[v].modules \in 0..MaxModules
                     /\ versions[v].edits \in 0..MaxEdits
                     /\ DOMAIN versions[v].questions \subseteq Questions
            <3>1. versions[v] \in Version
                BY DEF IInv, Types
            <3> QED
                BY <3>1 DEF Version, Questionnaire
        <2>3. status \in DOMAIN Rank
            BY DEF IInv, Types, Rank
        <2> QED
            BY <2>1, <2>2, <2>3 DEF TypeOK, IInv, Types
    <1> QED
        BY <1>1, IInvHolds, PTL

(* There is one certificate when the passed attempt has been declared, and  *)
(* none before, however often the declaration is sent.                      *)
THEOREM CertificatesAreEarned == Spec => []CertIsEarned
    <1>1. IInv => CertIsEarned
        BY DEF IInv, AttemptInv, CertIsEarned
    <1> QED
        BY <1>1, IInvHolds, PTL

(* A course has one active version, the newest, whichever authors add       *)
(* versions at once: the second of two that have read the same newest       *)
(* version fails on the number.                                             *)
THEOREM CourseHasOneVersion == Spec => []OneActiveVersion
    <1>1. IInv => OneActiveVersion
        <2> SUFFICES ASSUME IInv
                     PROVE  OneActiveVersion
            OBVIOUS
        <2>1. /\ Newest \in 1..MaxVersions /\ Existing = 1..Newest
              /\ \A v \in Existing : versions[v].active <=> v = Newest
            BY VersionFacts DEF IInv
        <2>2. Newest \in Existing
            BY <2>1
        <2> QED
            BY <2>1, <2>2 DEF OneActiveVersion
    <1> QED
        BY <1>1, IInvHolds, PTL

(* An attempt is scored by the questions that the trainee was shown, unless *)
(* the pinned version itself was edited after the page: new versions of the *)
(* course do not matter.                                                    *)
THEOREM ScoresAreAsShown == Spec => []ScoredAsShown
    <1>1. IInv => ScoredAsShown
        BY DEF IInv
    <1> QED
        BY <1>1, IInvHolds, PTL

(* "Score the answers; freeze the response snapshot"                        *)
(* (services/training.py:513): of two submissions of one exam the one that  *)
(* scores first is never overwritten.                                       *)
THEOREM AttemptsAreFrozen == Spec => FrozenAttempt
    <1>1. IInv /\ [Next]_vars => [Submitted => attempt' = attempt]_vars
        BY AttemptStep
    <1> QED
        BY <1>1, IInvHolds, PTL DEF Spec, FrozenAttempt

(* A trainee's status and progress go back only in a request that another   *)
(* one has overtaken, or in a version with fewer modules.                   *)
THEOREM ProgressGoesBackByOverlap == Spec => BackwardsNeedsOverlap
    <1> DEFINE Overlap ==
                 /\ Rank[status'] < Rank[status] => \E r \in raced : open[r].pc = "start"
                 /\ progress' < progress => \/ \E r \in raced : open[r].pc = "next"
                                            \/ progress' = Pinned.modules
    <1>1. ASSUME IInv, Next
          PROVE  Overlap
        <2>1. progress \in Nat /\ Rank[status] \in Nat /\ Pinned \in Version
            BY <1>1, VersionFacts DEF IInv, Types, Rank
        <2>2. ~(progress < progress) /\ ~(Rank[status] < Rank[status])
            BY <2>1
        <2>3. ASSUME status' = status, progress' = progress
              PROVE  Overlap
            BY <2>2, <2>3
        <2>4. ASSUME NEW r \in Requests, WriteStart(r)
              PROVE  Overlap
            <3>1. status' = "started" /\ progress' = progress /\ open[r].pc = "start"
                BY <2>4 DEF WriteStart
            <3>2. r \notin raced => status = "issued"
                BY <1>1, <3>1 DEF IInv, RaceInv
            <3>3. ~(Rank["started"] < Rank["issued"])
                BY DEF Rank
            <3> QED
                BY <2>2, <3>1, <3>2, <3>3
        <2>5. ASSUME NEW r \in Requests, submit_attempt(r)
              PROVE  Overlap
            <3>1. status' = "submitted" /\ progress' = progress
                BY <2>5 DEF submit_attempt
            <3>2. ~(Rank["submitted"] < Rank[status])
                BY <1>1 DEF Rank, IInv, Types
            <3> QED
                BY <2>2, <3>1, <3>2
        <2>6. ASSUME NEW r \in Requests, WriteNext(r)
              PROVE  Overlap
            <3>1. progress' = open[r].to /\ status' = status /\ open[r].pc = "next"
                BY <2>6 DEF WriteNext
            <3>2. r \notin raced => open[r].to = least(progress + 1, Pinned.modules)
                BY <1>1, <3>1 DEF IInv, RaceInv
            <3>3. Pinned.modules \in Nat
                BY <2>1, ExamAssumption DEF Version
            <3>4. least(progress + 1, Pinned.modules) < progress =>
                    least(progress + 1, Pinned.modules) = Pinned.modules
                BY <2>1, <3>3 DEF least
            <3> QED
                BY <2>2, <3>1, <3>2, <3>4
        <2>7. ASSUME NEW r \in Requests, Trainee(r),
                     ~WriteStart(r), ~submit_attempt(r), ~WriteNext(r)
              PROVE  status' = status /\ progress' = progress
            BY <2>7 DEF Trainee, ReadStart, ReadNext, ReadSubmit, InsertAttempt, Refuse,
                        ReadDeclare, WriteDeclare, enrolment
        <2>8. ASSUME NEW r \in Requests, Trainee(r)
              PROVE  Overlap
            BY <2>3, <2>4, <2>5, <2>6, <2>7, <2>8
        <2>9. CASE Expire \/ ShowExam
            BY <2>3, <2>9 DEF Expire, ShowExam, enrolment
        <2>10. ASSUME NEW p \in Actors, Abandon(p)
               PROVE  Overlap
            BY <2>3, <2>10 DEF Abandon, enrolment
        <2>11. ASSUME NEW a \in Authors,
                      AnEdit(a) \/ add_course_version(a) \/ ReadEdit(a) \/ ReadVersions(a)
               PROVE  Overlap
            BY <1>1, <2>3, <2>11, AuthorLeavesRecord DEF IInv
        <2> HIDE DEF Overlap
        <2>12. Overlap \in BOOLEAN
            BY DEF Overlap
        <2> QED
            BY <1>1, <2>8, <2>9, <2>10, <2>11, <2>12, StepCases DEF IInv
    <1>2. IInv /\ [Next]_vars => [Overlap]_vars
        BY <1>1
    <1> QED
        BY <1>2, IInvHolds, PTL DEF Spec, BackwardsNeedsOverlap
=============================================================================
