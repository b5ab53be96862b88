---------------------------- MODULE TrainingExam ----------------------------
(***************************************************************************)
(* One enrolment of a training course, from the first tap on its link to   *)
(* the certificate, while authors edit the course.  The requests of the    *)
(* trainee (two tabs, a double tap, a retry) overlap, and so do authors:   *)
(* each request reads, then writes and commits, and the constraints of the *)
(* tables (one attempt per enrolment, one declaration per attempt, one row *)
(* per version number) are what the database checks when a row is written. *)
(*                                                                         *)
(* Abstracted: texts and languages, the signature, the client's address,   *)
(* practice mode, and a question's options, of which only the generation   *)
(* matters: saving a question gives its options new ids.  The enrolment is *)
(* pinned to version 1, the active one when it was issued.                 *)
(***************************************************************************)
EXTENDS Integers, FiniteSets

CONSTANTS
    Requests,       \* requests of the trainee that may be open at once
    Authors,        \* administrators with training.author
    Questions,
    PassMark,       \* pass_threshold in per cent
    MaxVersions,    \* bound: versions of the course
    MaxModules,     \* bound: modules of a version
    MaxEdits        \* bound: edits of a version's content

ASSUME ExamAssumption ==
    /\ {MaxVersions, MaxModules} \subseteq Nat \ {0}
    /\ MaxEdits \in Nat /\ PassMark \in 0..100
    /\ Requests \cap Authors = {}

VARIABLES
    versions,   \* [1..MaxVersions -> content of a version, NoVersion if there is none]
    status, progress,   \* enrolment.status and enrolment.module_progress
    live,       \* the link has not expired
    attempt,    \* the attempt of the enrolment
    declared,   \* its declaration exists
    certs,      \* certificates issued
    page,       \* the exam page the trainee has open: questions as shown
    open,       \* [Requests \cup Authors -> what the request has read]
    raced       \* open requests of the trainee during which another one committed

vars == <<versions, status, progress, live, attempt, declared, certs, page, open, raced>>
course == versions
enrolment == <<status, progress, live>>
record == <<attempt, declared, certs>>

Actors == Requests \cup Authors
NoVersion == [exists |-> FALSE, active |-> FALSE, modules |-> 0, questions |-> <<>>, edits |-> 0]
Idle == [pc |-> "idle"]
NoPage == [shown |-> <<>>, edits |-> -1]
NoAttempt == [state |-> "none"]

Pinned == versions[1]
Existing == {v \in 1..MaxVersions : versions[v].exists}
Newest == CHOOSE v \in Existing : \A w \in Existing : w <= v
active_version ==
    CHOOSE v \in Existing : /\ versions[v].active
                            /\ \A w \in Existing : versions[w].active => w <= v
Submitted == attempt.state = "submitted"

-----------------------------------------------------------------------------
\* A request ends: those that are still open have been overtaken.
Overtaken == {r \in Requests : open[r].pc # "idle"}
Begin(p, what) == open' = [open EXCEPT ![p] = what] /\ raced' = raced \ {p}
End(p) ==
    /\ open' = [open EXCEPT ![p] = Idle]
    /\ raced' = (raced \cup Overtaken) \ {p}

\* It fails or its process dies: nothing is written.
Abandon(p) ==
    /\ open[p].pc # "idle"
    /\ open' = [open EXCEPT ![p] = Idle] /\ raced' = raced \ {p}
    /\ attempt' = IF open[p].pc = "score" THEN NoAttempt ELSE attempt
    /\ UNCHANGED <<course, enrolment, declared, certs, page>>

-----------------------------------------------------------------------------
\* The trainee.  Every request is refused when the link has expired, which is
\* checked before anything else.

Expire ==
    /\ live /\ live' = FALSE
    /\ UNCHANGED <<course, status, progress, record, page, open, raced>>

\* POST start: only a link that was read as issued is written.
ReadStartAny(r) ==      \* mutant: a link is started whatever its status
    /\ live /\ open[r].pc = "idle"
    /\ Begin(r, [pc |-> "start"])
    /\ UNCHANGED <<course, enrolment, record, page>>

ReadStart(r) ==
    /\ live /\ open[r].pc = "idle" /\ status = "issued"
    /\ Begin(r, [pc |-> "start"])
    /\ UNCHANGED <<course, enrolment, record, page>>

WriteStart(r) ==
    /\ open[r].pc = "start"
    /\ status' = "started"
    /\ End(r)
    /\ UNCHANGED <<course, progress, live, record, page>>

least(a, b) == IF a < b THEN a ELSE b

\* POST next: whatever the status is.
ReadNext(r) ==
    /\ live /\ open[r].pc = "idle"
    /\ Begin(r, [pc |-> "next", to |-> least(progress + 1, Pinned.modules)])
    /\ UNCHANGED <<course, enrolment, record, page>>

WriteNext(r) ==
    /\ open[r].pc = "next"
    /\ progress' = open[r].to
    /\ End(r)
    /\ UNCHANGED <<course, status, live, record, page>>

\* GET exam, or study: the questions with the options they have now.
ShowExam ==
    /\ live /\ status # "submitted"
    /\ page' = [shown |-> Pinned.questions, edits |-> Pinned.edits]
    /\ UNCHANGED <<course, enrolment, record, open, raced>>

\* POST exam with an answer to every question of the page, those to `right`
\* being the correct options that were shown.  The answers to questions that
\* the version does not have any more are not looked at.
ReadSubmit(r, right) ==
    /\ live /\ open[r].pc = "idle" /\ status # "submitted" /\ ~Submitted /\ page # NoPage
    /\ right \subseteq DOMAIN page.shown
    /\ Begin(r, [pc |-> "submit", page |-> page, right |-> right,
                 asked |-> DOMAIN Pinned.questions])
    /\ UNCHANGED <<course, enrolment, record, page>>

\* start_attempt(): the attempt's row, of which there is one per enrolment.
InsertAttemptAgain(r) ==    \* mutant: without the constraint on enrolment_id
    /\ open[r].pc = "submit" /\ open[r].asked # {}
    /\ attempt.state \in {"none", "submitted"}
    /\ attempt' = [state |-> "open"]
    /\ open' = [open EXCEPT ![r].pc = "score"]
    /\ UNCHANGED <<course, enrolment, declared, certs, page, raced>>

InsertAttempt(r) ==
    /\ open[r].pc = "submit" /\ open[r].asked # {}
    /\ attempt.state = "none"
    /\ attempt' = [state |-> "open"]
    /\ open' = [open EXCEPT ![r].pc = "score"]
    /\ UNCHANGED <<course, enrolment, declared, certs, page, raced>>

\* The row is there already, or the version has no question: rolled back.
Refuse(r) ==
    /\ open[r].pc = "submit" /\ (open[r].asked = {} \/ Submitted)
    /\ open' = [open EXCEPT ![r] = Idle] /\ raced' = raced \ {r}
    /\ UNCHANGED <<course, enrolment, record, page>>

PassesWith(n, of) == n * 100 >= PassMark * of

\* An answer is right when its options are exactly the correct ones, compared
\* by id: those of a question that was saved again since are never right.
IsRightToday(req, q) ==     \* mutant: judged by the course's active version
    LET today == versions[active_version].questions
    IN  /\ q \in req.right /\ q \in DOMAIN today
        /\ req.page.shown[q] = today[q]

IsRight(req, q) ==
    /\ q \in req.right /\ q \in DOMAIN Pinned.questions
    /\ req.page.shown[q] = Pinned.questions[q]

submit_attempt(r) ==
    LET req == open[r]
        correct == {q \in req.asked : IsRight(req, q)}
    IN  /\ req.pc = "score"
        /\ attempt' = [state |-> "submitted",
                       passed |-> PassesWith(Cardinality(correct), Cardinality(req.asked)),
                       \* for the properties: as the page was, and whether it changed
                       asShown |-> PassesWith(Cardinality(req.right),
                                                Cardinality(DOMAIN req.page.shown)),
                       edited |-> req.page.edits # Pinned.edits]
        /\ status' = "submitted"
        /\ End(r)
        /\ UNCHANGED <<course, progress, live, declared, certs, page>>

\* POST declare, record_declaration(): no declaration was found.
ReadDeclare(r) ==
    /\ live /\ open[r].pc = "idle"
    /\ Submitted /\ attempt.passed /\ ~declared
    /\ Begin(r, [pc |-> "declare"])
    /\ UNCHANGED <<course, enrolment, record, page>>

\* The declaration and the certificate, in one transaction; one declaration per
\* attempt, whose second INSERT fails.
WriteDeclareAgain(r) ==     \* mutant: without the constraint on attempt_id
    /\ open[r].pc = "declare"
    /\ declared' = TRUE
    /\ certs' = IF attempt.passed THEN certs + 1 ELSE certs
    /\ End(r)
    /\ UNCHANGED <<course, enrolment, attempt, page>>

WriteDeclare(r) ==
    /\ open[r].pc = "declare" /\ ~declared
    /\ declared' = TRUE
    /\ certs' = IF attempt.passed THEN certs + 1 ELSE certs
    /\ End(r)
    /\ UNCHANGED <<course, enrolment, attempt, page>>

-----------------------------------------------------------------------------
\* The authors.

\* The views resolve the active version first and edit that one.
ReadEdit(a) ==
    /\ open[a].pc = "idle"
    /\ Begin(a, [pc |-> "edit", version |-> active_version])
    /\ UNCHANGED <<course, enrolment, record, page>>

Edited(a, questions, modules) ==
    LET v == open[a].version
    IN  /\ open[a].pc = "edit" /\ versions[v].edits < MaxEdits
        /\ versions' = [versions EXCEPT ![v].questions = questions, ![v].modules = modules,
                                        ![v].edits = @ + 1]
        /\ End(a)
        /\ UNCHANGED <<enrolment, record, page>>

Target(a) == versions[open[a].version]

\* questions_new() and questions_edit(): the options are deleted and written
\* anew, so the generation of the question is that of this edit.
SaveQuestion(a, q) ==
    /\ open[a].pc = "edit"
    /\ Edited(a, [p \in DOMAIN Target(a).questions \cup {q} |->
                    IF p = q THEN Target(a).edits + 1 ELSE Target(a).questions[p]],
              Target(a).modules)

DeleteQuestion(a, q) ==
    /\ open[a].pc = "edit" /\ q \in DOMAIN Target(a).questions
    /\ Edited(a, [p \in DOMAIN Target(a).questions \ {q} |-> Target(a).questions[p]],
              Target(a).modules)

AddModule(a) ==
    /\ open[a].pc = "edit" /\ Target(a).modules < MaxModules
    /\ Edited(a, Target(a).questions, Target(a).modules + 1)

DeleteModule(a) ==
    /\ open[a].pc = "edit" /\ Target(a).modules > 0
    /\ Edited(a, Target(a).questions, Target(a).modules - 1)

\* courses_edit() and the import of a course that exists: add_course_version().
ReadVersions(a) ==
    /\ open[a].pc = "idle" /\ Newest < MaxVersions
    /\ Begin(a, [pc |-> "version", seen |-> Existing, next |-> Newest + 1])
    /\ UNCHANGED <<course, enrolment, record, page>>

\* The new version starts empty.  A number that is taken fails the transaction.
add_beside(a) ==        \* mutant: the older versions stay active
    LET req == open[a]
    IN  /\ req.pc = "version" /\ req.next \notin Existing
        /\ versions' = [versions EXCEPT ![req.next] =
                            [NoVersion EXCEPT !.exists = TRUE, !.active = TRUE]]
        /\ End(a)
        /\ UNCHANGED <<enrolment, record, page>>

add_course_version(a) ==
    LET req == open[a]
    IN  /\ req.pc = "version" /\ req.next \notin Existing
        /\ versions' = [v \in 1..MaxVersions |->
               IF v = req.next THEN [NoVersion EXCEPT !.exists = TRUE, !.active = TRUE]
               ELSE IF v \in req.seen THEN [versions[v] EXCEPT !.active = FALSE]
               ELSE versions[v]]
        /\ End(a)
        /\ UNCHANGED <<enrolment, record, page>>

-----------------------------------------------------------------------------
Init ==
    /\ versions = [v \in 1..MaxVersions |->
           IF v = 1 THEN [exists |-> TRUE, active |-> TRUE, modules |-> MaxModules, edits |-> 0,
                          questions |-> [q \in Questions |-> 0]]
           ELSE NoVersion]
    /\ status = "issued" /\ progress = 0 /\ live = TRUE
    /\ attempt = NoAttempt /\ declared = FALSE /\ certs = 0
    /\ page = NoPage /\ open = [p \in Actors |-> Idle] /\ raced = {}

Trainee(r) ==
    \/ ReadStart(r) \/ WriteStart(r) \/ ReadNext(r) \/ WriteNext(r)
    \/ \E right \in SUBSET Questions : ReadSubmit(r, right)
    \/ InsertAttempt(r) \/ Refuse(r) \/ submit_attempt(r)
    \/ ReadDeclare(r) \/ WriteDeclare(r)

Author(a) ==
    \/ ReadEdit(a) \/ AddModule(a) \/ DeleteModule(a)
    \/ \E q \in Questions : SaveQuestion(a, q) \/ DeleteQuestion(a, q)
    \/ ReadVersions(a) \/ add_course_version(a)

Next ==
    \/ Expire \/ ShowExam
    \/ \E p \in Actors : Abandon(p)
    \/ \E r \in Requests : Trainee(r)
    \/ \E a \in Authors : Author(a)

Spec == Init /\ [][Next]_vars

-----------------------------------------------------------------------------
\* Properties.

Rank == [issued |-> 0, started |-> 1, submitted |-> 2]

TypeOK ==
    /\ DOMAIN versions = 1..MaxVersions
    /\ \A v \in 1..MaxVersions : /\ versions[v].modules \in 0..MaxModules
                                 /\ versions[v].edits \in 0..MaxEdits
                                 /\ DOMAIN versions[v].questions \subseteq Questions
    /\ status \in DOMAIN Rank /\ progress \in 0..MaxModules
    /\ {live, declared} \subseteq BOOLEAN
    /\ attempt.state \in {"none", "open", "submitted"} /\ certs \in 0..1
    /\ raced \subseteq Requests

\* A submitted attempt is never written again, and only a request that fails
\* takes an open one back: two submissions of one exam leave the score and the
\* answers of the first to commit, which submit_attempt() promises to freeze.
FrozenAttempt ==
    [][Submitted => attempt' = attempt]_vars

\* Certificate and declaration go together: a certificate needs a passed attempt
\* and its declaration, and however often the declaration is sent there is one.
CertIsEarned ==
    certs = (IF declared /\ Submitted /\ attempt.passed THEN 1 ELSE 0)

\* The trainee's progress is not undone by requests that run one at a time:
\* status and module_progress go back only where a request wrote what it had
\* read before another one committed, or where the version has fewer modules.
BackwardsNeedsOverlap ==
    [][/\ Rank[status'] < Rank[status] => \E r \in raced : open[r].pc = "start"
       /\ progress' < progress =>
            \/ \E r \in raced : open[r].pc = "next"
            \/ progress' = Pinned.modules]_vars

\* The course has exactly one active version and it is the newest, whichever
\* authors save at once: the loser of two equal version numbers fails.
OneActiveVersion ==
    {v \in Existing : versions[v].active} = {Newest} /\ Existing = 1..Newest

\* Unless the version it is pinned to was edited in between, an attempt is judged
\* by the questions the trainee was shown: no later version disturbs it.
ScoredAsShown ==
    Submitted /\ ~attempt.edited => attempt.passed = attempt.asShown

\* An attempt is judged by the questions the trainee was shown, always.
NeverDisturbed ==
    Submitted => attempt.passed = attempt.asShown
=============================================================================
