-------------------------- MODULE TrainingRegistry --------------------------
(***************************************************************************)
(* The register of trainees: the forms that create and edit one, and the   *)
(* CSV file that creates and updates many.  Every request plans its changes *)
(* from what it reads and then writes and commits them; several managers   *)
(* do so at once.  The database only checks that phone numbers and employee *)
(* numbers are unique, row by row as they are written.                     *)
(*                                                                         *)
(* Abstracted: names, roles, lines and languages, the channel "both" (which *)
(* needs an email like "email" does), and a file that cannot be read.  An  *)
(* import loads its rows again before it writes them; the time between     *)
(* that and its commit is not split.                                       *)
(***************************************************************************)
EXTENDS Integers, SequencesExt

CONSTANTS
    Managers,       \* users with training.send, each with one request
    Emps, Phones,
    NoEmp, None,
    Forms,          \* rows that are entered in a form
    FileRows,       \* rows that files are made of
    MaxFileRows,    \* bound: rows of a file
    MaxTrainees     \* bound: trainees

TraineeRow == [emp: Emps \cup {NoEmp}, phone: Phones, email: BOOLEAN,
               channel: {"sms", "email"}, active: BOOLEAN]

ASSUME RegistryAssumption ==
    /\ NoEmp \notin Emps /\ None \notin TraineeRow
    /\ Forms \subseteq TraineeRow /\ FileRows \subseteq TraineeRow
    /\ {MaxFileRows, MaxTrainees} \subseteq Nat

VARIABLES
    trainees,   \* [TraineeIds -> TraineeRow \cup {None}]
    desk        \* [Managers -> the changes a request has planned, and whether
                \*  the register is still what they were planned from]

registryVars == <<trainees, desk>>

TraineeIds == 1..MaxTrainees
NewId == 0
NoRequest == [pc |-> "idle"]

Known(reg) == {i \in TraineeIds : reg[i] # None}
Holders(reg, column, value) == {i \in Known(reg) : reg[i][column] = value}
Reachable(row) == row.channel = "sms" \/ row.email

\* UNIQUE(phone) and UNIQUE(employee_number), where NULL is like no other NULL.
Unique(reg) ==
    \A i, j \in Known(reg) :
        i # j => reg[i].phone # reg[j].phone /\ (reg[i].emp # reg[j].emp \/ reg[i].emp = NoEmp)

-----------------------------------------------------------------------------
\* A change: the columns that are written, of a new trainee or an old one.
Change(id, columns) == [id |-> id, columns |-> columns]
Columns(row, names) == [c \in names |-> row[c]]

\* An import writes what the file says, but not the number it looked up.
Written(row) == Columns(row, DOMAIN row \ {"emp"})

\* create_trainee() knows nothing of is_active: who is created is active.
Created(row) == [row EXCEPT !.active = TRUE]

\* The ORM writes the columns that differ from what was loaded; the edit form
\* shows the phone number and ignores it.
Edited(old, row) == Columns(row, {c \in DOMAIN row \ {"phone"} : row[c] # old[c]})

\* Whom a change of a plan writes: new trainees get ids of their own, the free
\* ones in the order of the file.
Additions(plan) == {n \in 1..Len(plan) : plan[n].id = NewId}
Place(S, x) == Cardinality({y \in S : y <= x})
Writes(reg, plan, n, i) ==
    \/ plan[n].id = i
    \/ /\ plan[n].id = NewId /\ reg[i] = None
       /\ Place(Additions(plan), n) = Place(TraineeIds \ Known(reg), i)

Merged(old, columns) ==
    IF old = None THEN columns
    ELSE [c \in DOMAIN old |-> IF c \in DOMAIN columns THEN columns[c] ELSE old[c]]

\* The register when the first n changes are written; an import writes the same
\* columns of every trainee, so that of two changes the later one counts.
Stored(reg, plan, n) ==
    [i \in TraineeIds |->
        LET writers == {k \in 1..n : Writes(reg, plan, k, i)}
        IN  IF writers = {} THEN reg[i] ELSE Merged(reg[i], plan[Max(writers)].columns)]

\* apply_trainees_plan() and a form's commit: all the changes, or none as soon
\* as one is refused.
Refused(reg, plan) == \E n \in 1..Len(plan) : ~Unique(Stored(reg, plan, n))
Apply(reg, plan) == Stored(reg, plan, Len(plan))

-----------------------------------------------------------------------------
\* plan_trainees_import(): every row of the file is checked against the file and
\* against the register.

Repeated(file, n) ==
    \E m \in 1..(n - 1) : file[m].emp = file[n].emp \/ file[m].phone = file[n].phone

\* The phone number belongs to nobody, or to the trainee with this number.
NotTaken(reg, row) == Holders(reg, "phone", row.phone) \subseteq Holders(reg, "emp", row.emp)
NotTakenByNew(reg, row) ==  \* mutant: an update is not checked
    Holders(reg, "emp", row.emp) # {} \/ Holders(reg, "phone", row.phone) = {}

CleanRowOnce(reg, file, n) ==   \* mutant: repeated rows are not noticed
    /\ file[n].emp # NoEmp /\ Reachable(file[n])
    /\ NotTaken(reg, file[n])

CleanRowAny(reg, file, n) ==    \* mutant: phone numbers are checked for new trainees only
    /\ file[n].emp # NoEmp /\ Reachable(file[n])
    /\ ~Repeated(file, n)
    /\ NotTakenByNew(reg, file[n])

CleanRow(reg, file, n) ==
    /\ file[n].emp # NoEmp /\ Reachable(file[n])
    /\ ~Repeated(file, n)
    /\ NotTaken(reg, file[n])

Clean(reg, file) == \A n \in 1..Len(file) : CleanRow(reg, file, n)

Plan(reg, file) ==
    [n \in 1..Len(file) |->
        LET known == Holders(reg, "emp", file[n].emp)
        IN  IF known = {} THEN Change(NewId, Created(file[n]))
            ELSE Change(CHOOSE i \in known : TRUE, Written(file[n]))]

\* export_trainees().
Export(reg) == SetToSeq({reg[i] : i \in Known(reg)})

-----------------------------------------------------------------------------
Room(plan) == Cardinality(Additions(plan)) <= MaxTrainees - Cardinality(Known(trainees))

Open(m, plan) ==
    /\ desk[m] = NoRequest /\ Room(plan)
    /\ desk' = [desk EXCEPT ![m] = [pc |-> "write", plan |-> plan, fresh |-> TRUE]]
    /\ UNCHANGED trainees

\* trainees_new(): the number and the email are required, create_trainee()
\* looks for the phone and the number.
Create(m, row) ==
    /\ row.emp # NoEmp /\ row.email
    /\ Holders(trainees, "phone", row.phone) = {} /\ Holders(trainees, "emp", row.emp) = {}
    /\ Open(m, <<Change(NewId, Created(row))>>)

\* trainees_edit().
EditUnchecked(m, i, row) ==     \* mutant: without the check of channel and email
    /\ row.emp \in {NoEmp, trainees[i].emp} \/ Holders(trainees, "emp", row.emp) = {}
    /\ Edited(trainees[i], row) # <<>>
    /\ Open(m, <<Change(i, Edited(trainees[i], row))>>)

Edit(m, i, row) ==
    /\ Reachable(row)
    /\ row.emp \in {NoEmp, trainees[i].emp} \/ Holders(trainees, "emp", row.emp) = {}
    /\ Edited(trainees[i], row) # <<>>
    /\ Open(m, <<Change(i, Edited(trainees[i], row))>>)

\* trainees_import() with apply=1: a file with an error changes nothing.
Import(m, file) ==
    /\ desk[m] = NoRequest /\ Len(file) > 0 /\ Clean(trainees, file)
    /\ Open(m, Plan(trainees, file))

\* Save, or roll back when the database refuses a row.  Requests that are
\* still open have planned from what was there before.
Stale(d) == IF d = NoRequest THEN d ELSE [d EXCEPT !.fresh = FALSE]

Save(m) ==
    /\ desk[m] # NoRequest /\ Room(desk[m].plan)
    /\ LET after == Apply(trainees, desk[m].plan)
           done == ~Refused(trainees, desk[m].plan) /\ after # trainees
       IN  /\ trainees' = IF done THEN after ELSE trainees
           /\ desk' = [o \in Managers |-> IF o = m THEN NoRequest
                                         ELSE IF done THEN Stale(desk[o]) ELSE desk[o]]

\* The request fails before its commit.
Abandon(m) ==
    /\ desk[m] # NoRequest
    /\ desk' = [desk EXCEPT ![m] = NoRequest] /\ UNCHANGED trainees

Files == UNION {[1..n -> FileRows] : n \in 1..MaxFileRows}

\* Trainees from before employee numbers have none.
RegistryInit ==
    /\ trainees \in {reg \in [TraineeIds -> {None} \cup {r \in Forms : r.emp = NoEmp /\ Reachable(r)}] : Unique(reg)}
    /\ desk = [m \in Managers |-> NoRequest]

RegistryNext ==
    \E m \in Managers :
        \/ \E row \in Forms : Create(m, row)
        \/ \E i \in Known(trainees), row \in Forms : Edit(m, i, row)
        \/ \E file \in Files : Import(m, file)
        \/ Save(m) \/ Abandon(m)

RegistrySpec == RegistryInit /\ [][RegistryNext]_registryVars

-----------------------------------------------------------------------------
\* Properties.

\* The forms and files keep to the columns, and what is stored is always unique.
RegistryTypeOK ==
    /\ trainees \in [TraineeIds -> TraineeRow \cup {None}] /\ Unique(trainees)
    /\ \A m \in Managers : desk[m] # NoRequest => desk[m].fresh \in BOOLEAN

\* The checks of the forms and of plan_trainees_import() leave nothing for the
\* database to refuse, neither between the rows of one file nor against the
\* register: what was found clean is stored as a whole, unless another request
\* committed after it looked.
CleanIsStored ==
    \A m \in Managers : desk[m] # NoRequest /\ desk[m].fresh => ~Refused(trainees, desk[m].plan)

\* A phone number, which links and certificates are sent to, does not move from
\* one trainee to another within one change ("refusing to swap silently"), unless
\* requests overlapped.
Moves(reg, later) ==
    \E i, j \in Known(reg) : i # j /\ later[j].phone = reg[i].phone
Overlapped(m) == desk[m] # NoRequest /\ ~desk[m].fresh /\ desk'[m] = NoRequest
PhonesStay == [][Moves(trainees, trainees') => \E m \in Managers : Overlapped(m)]_registryVars

\* A trainee whose channel is email has an address to send links to; it is lost
\* only when the one is edited while the other is.
ReachableUnlessOverlapped ==
    [][(\A i \in Known(trainees) : Reachable(trainees[i]))
       => (\A i \in Known(trainees') : Reachable(trainees'[i])) \/ \E m \in Managers : Overlapped(m)]_registryVars

\* An export can be imported again, and changes nothing, when every trainee has
\* an employee number and can be reached.
ExportIsANoOp ==
    (\A i \in Known(trainees) : trainees[i].emp # NoEmp /\ Reachable(trainees[i]))
    => LET file == Export(trainees)
           plan == Plan(trainees, file)
       IN  Clean(trainees, file) /\ ~Refused(trainees, plan) /\ Apply(trainees, plan) = trainees
=============================================================================
