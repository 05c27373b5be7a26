--------------------------- MODULE DeviceDatabase ---------------------------
(***************************************************************************)
(* The device table: the command that creates, resets and seeds it, the    *)
(* service that creates it when it starts, and the device tool that reads  *)
(* it.  They are separate processes on one SQLite file.                    *)
(*                                                                         *)
(* Each statement is a step: drop_all and create_all look before they act, *)
(* the unique index of device_id is created after the table and both are   *)
(* committed at once, every lookup of the seeding sees what is committed   *)
(* at that moment, and what the session holds goes to the table in one     *)
(* transaction at the end.                                                 *)
(***************************************************************************)
EXTENDS Integers, Sequences

CONSTANTS
    Seeders,        \* processes running python -m app.database
    Servers,        \* processes starting the service
    Ids,            \* device identifiers
    Values,         \* values of a field
    Null,           \* None: no identifier, or a field without a value
    Unknown,        \* the status of a device that is inserted without one
    Files,          \* contents the seed file may have, see FileShape
    RunLimit        \* bound: runs of all processes

Procs == Seeders \cup Servers

\* The columns told apart: one that must not be null, one that must not be
\* and has a default, and one that may.
Fields == {"device_name", "status", "temperature"}

Required == {"device_name", "status"}

\* A record of the seed file sets the fields it mentions; dated: its
\* last_maintenance_time can be parsed.
Record ==
    [id : Ids \cup {Null},
     sets : UNION {[given -> Values \cup {Null}] : given \in SUBSET Fields},
     dated : BOOLEAN]

FileShape == [kind : {"missing", "malformed", "list"}, records : Seq(Record)]

ASSUME DatabaseAssumption ==
    /\ Seeders \cap Servers = {}
    /\ Null \notin Ids /\ Null \notin Values
    /\ Unknown \in Values
    /\ Files \subseteq FileShape
    /\ RunLimit \in Nat

FieldValues == [Fields -> Values \cup {Null}]

\* The primary key of a row is its place in the table.
Row == [id : Ids, fields : FieldValues]

\* An object of a session that has a row: its fields as they were loaded and
\* as they are now.
Object == [loaded : FieldValues, fields : FieldValues]

\* What a session holds: the rows it will insert, in the order they were
\* added, and the objects it has for rows of the table, by primary key.
IsSession(s) ==
    /\ s \in [added : Seq(Row), known : [DOMAIN s.known -> Object]]
    /\ DOMAIN s.known \subseteq Nat \ {0}

Options == [reset : BOOLEAN, seed : BOOLEAN]

VARIABLES
    exists,         \* is there a table
    indexed,        \* has it the unique index of device_id
    rows,           \* its rows
    pc,             \* where each process stands in init_db
    opts,           \* the arguments of its run
    todo,           \* records of the seed file it has yet to look up
    session,        \* what its session holds
    committed,      \* has its run committed a session
    serving,        \* servers that have started
    answer,         \* how the last read of the device tool ended
    runs,           \* runs so far
    before,         \* rows when the run began
    file,           \* the seed file as the run has read it
    seeded          \* the file of the last run without reset that succeeded
                    \* and the rows it left, until rows change

vars == <<exists, indexed, rows, pc, opts, todo, session, committed, serving,
          answer, runs, before, file, seeded>>

schema == <<exists, indexed>>
table == <<exists, indexed, rows>>
local == <<opts, todo, session, committed>>
history == <<before, file, seeded>>

NoFile == [kind |-> "missing", records |-> <<>>]

NothingSeeded == [file |-> NoFile, rows |-> <<>>]

NoSession == [added |-> <<>>, known |-> [k \in {} |-> <<>>]]

Init ==
    /\ exists = FALSE
    /\ indexed = FALSE
    /\ rows = <<>>
    /\ pc = [p \in Procs |-> "idle"]
    /\ opts = [p \in Procs |-> [reset |-> FALSE, seed |-> FALSE]]
    /\ todo = [p \in Procs |-> <<>>]
    /\ session = [p \in Procs |-> NoSession]
    /\ committed = [p \in Procs |-> FALSE]
    /\ serving = {}
    /\ answer = "none"
    /\ runs = 0
    /\ before = [p \in Procs |-> <<>>]
    /\ file = [p \in Procs |-> NoFile]
    /\ seeded = NothingSeeded

Goto(p, step) == pc' = [pc EXCEPT ![p] = step]

\* init_db begins; the service calls it without a reset and without a seed.
Start(p, o) ==
    /\ pc[p] \in {"idle", "done", "failed", "crashed"}
    /\ p \notin serving
    /\ p \in Servers => ~ o.reset /\ ~ o.seed
    /\ runs < RunLimit
    /\ runs' = runs + 1
    /\ opts' = [opts EXCEPT ![p] = o]
    /\ todo' = [todo EXCEPT ![p] = <<>>]
    /\ session' = [session EXCEPT ![p] = NoSession]
    /\ committed' = [committed EXCEPT ![p] = FALSE]
    /\ before' = [before EXCEPT ![p] = rows]
    /\ file' = [file EXCEPT ![p] = NoFile]
    /\ Goto(p, IF o.reset THEN "find" ELSE "check")
    /\ UNCHANGED <<table, serving, answer, seeded>>

\* drop_all: is there a table ...
FindTable(p) ==
    /\ pc[p] = "find"
    /\ Goto(p, IF exists THEN "drop" ELSE "check")
    /\ UNCHANGED <<table, local, serving, answer, runs, history>>

\* ... and DROP TABLE, which fails when somebody else has dropped it.  The
\* index goes with the table.
DropTable(p) ==
    /\ pc[p] = "drop"
    /\ Goto(p, IF exists THEN "check" ELSE "failed")
    /\ exists' = FALSE
    /\ indexed' = FALSE
    /\ rows' = <<>>
    /\ seeded' = NothingSeeded
    /\ UNCHANGED <<local, serving, answer, runs, before, file>>

AfterSchema(p) == IF opts[p].seed THEN "load" ELSE "count"

\* Mutant of CheckTable: after a reset the table is taken to be there, empty.
CheckTable_TrustsReset(p) ==
    /\ pc[p] = "check"
    /\ Goto(p, IF exists \/ opts[p].reset THEN AfterSchema(p) ELSE "create")
    /\ UNCHANGED <<table, local, serving, answer, runs, history>>

\* create_all: is there a table?  Nobody asks for the index of one there is.
CheckTable(p) ==
    /\ pc[p] = "check"
    /\ Goto(p, IF exists THEN AfterSchema(p) ELSE "create")
    /\ UNCHANGED <<table, local, serving, answer, runs, history>>

\* If not, CREATE TABLE, which fails when somebody else has created it ...
CreateTable(p) ==
    /\ pc[p] = "create"
    /\ Goto(p, IF exists THEN "failed" ELSE "index")
    /\ exists' = TRUE
    /\ UNCHANGED <<indexed, rows, local, serving, answer, runs, history>>

OneRowEach(table_) ==
    \A j, k \in DOMAIN table_ : table_[j].id = table_[k].id => j = k

\* ... and CREATE UNIQUE INDEX, which fails when the table is gone, somebody
\* else has created the index or a device has two rows already.
CreateIndex(p) ==
    /\ pc[p] = "index"
    /\ IF exists /\ ~ indexed /\ OneRowEach(rows)
       THEN indexed' = TRUE /\ Goto(p, AfterSchema(p))
       ELSE Goto(p, "failed") /\ UNCHANGED indexed
    /\ UNCHANGED <<exists, rows, local, serving, answer, runs, history>>

\* load_seed_records: the file may have been edited since the last run.
LoadSeed(p, f) ==
    /\ pc[p] = "load"
    /\ file' = [file EXCEPT ![p] = f]
    /\ IF f.kind = "list"
       THEN Goto(p, "lookup") /\ todo' = [todo EXCEPT ![p] = f.records]
       ELSE Goto(p, "failed") /\ UNCHANGED todo
    /\ UNCHANGED <<table, opts, session, committed, serving, answer, runs, before, seeded>>

\* The row a lookup returns for a device, the first of it; 0 when there is none.
RowOf(id) ==
    LET found == {k \in DOMAIN rows : rows[k].id = id}
    IN  IF found = {} THEN 0 ELSE CHOOSE k \in found : \A j \in found : k <= j

Unset == [f \in Fields |-> Null]

\* Mutant of Assigned: a field that has a value keeps it.
Assigned_KeepsOld(fields, sets) ==
    [f \in Fields |-> IF f \in DOMAIN sets /\ fields[f] = Null THEN sets[f] ELSE fields[f]]

Assigned(fields, sets) ==
    [f \in Fields |-> IF f \in DOMAIN sets THEN sets[f] ELSE fields[f]]

\* The default of a column goes into a row that is inserted with none, whether
\* the record leaves the field out or sets it to null.
Default(field, value) == IF field = "status" /\ value = Null THEN Unknown ELSE value

Inserted(sets) == [f \in Fields |-> Default(f, Assigned(Unset, sets)[f])]

Added(s, record) ==
    [s EXCEPT !.added = Append(@, [id |-> record.id, fields |-> Inserted(record.sets)])]

\* Mutant of Noted: the lookup is left out, every record is added.
Noted_AlwaysAdds(s, record) == Added(s, record)

\* The session after a record: the object it already has for the row found,
\* one loaded from that row, or a new one.  What is only in the session is
\* not found: without autoflush the lookup does not see it.
Noted(s, record) ==
    LET pk == RowOf(record.id)
        object == IF pk \in DOMAIN s.known THEN s.known[pk]
                  ELSE [loaded |-> rows[pk].fields, fields |-> rows[pk].fields]
    IN  IF pk = 0 THEN Added(s, record)
        ELSE [s EXCEPT !.known =
                [k \in DOMAIN s.known \cup {pk} |->
                    IF k = pk THEN [object EXCEPT !.fields = Assigned(@, record.sets)]
                    ELSE s.known[k]]]

\* Mutant of Lookup: what the session holds is written record by record, as
\* with an engine that commits by itself.
Lookup_WritesThrough(p) ==
    /\ pc[p] = "lookup"
    /\ todo[p] # <<>>
    /\ LET record == Head(todo[p])
       IN  IF record.id = Null
           THEN UNCHANGED <<pc, rows>>
           ELSE IF ~ exists \/ ~ record.dated \/ RowOf(record.id) # 0
           THEN Goto(p, "failed") /\ UNCHANGED rows
           ELSE /\ rows' = Append(rows, [id |-> record.id,
                                        fields |-> Inserted(record.sets)])
                /\ UNCHANGED pc
    /\ todo' = [todo EXCEPT ![p] = Tail(@)]
    /\ UNCHANGED <<schema, opts, session, committed, serving, answer, runs, history>>

\* seed_devices, the next record; one without a device_id is passed over.
Lookup(p) ==
    /\ pc[p] = "lookup"
    /\ todo[p] # <<>>
    /\ LET record == Head(todo[p])
       IN  IF record.id = Null
           THEN UNCHANGED <<pc, session>>
           ELSE IF ~ exists \/ ~ record.dated
           THEN Goto(p, "failed") /\ UNCHANGED session
           ELSE session' = [session EXCEPT ![p] = Noted(@, record)] /\ UNCHANGED pc
    /\ todo' = [todo EXCEPT ![p] = Tail(@)]
    /\ UNCHANGED <<table, opts, committed, serving, answer, runs, history>>

\* An UPDATE names the columns that changed since the object was loaded.
Changed(object) == {f \in Fields : object.fields[f] # object.loaded[f]}

Updates(s) == {k \in DOMAIN s.known : Changed(s.known[k]) # {}}

\* Mutant of Conflict: required columns and unique identifiers are not checked.
Conflict_Unconstrained(s) ==
    /\ s.added # <<>> \/ Updates(s) # {}
    /\ ~ exists \/ \E k \in Updates(s) : k > Len(rows)

\* What the transaction would run into: no table, a row that is gone, a
\* null in a required column, which an UPDATE has no default for, and, with the
\* index, a device_id that is taken or given twice.
Conflict(s) ==
    LET new == s.added
        named == {new[i].id : i \in DOMAIN new}
    IN  /\ new # <<>> \/ Updates(s) # {}
        /\ \/ ~ exists
           \/ \E k \in Updates(s) :
                 \/ k > Len(rows)
                 \/ \E f \in Changed(s.known[k]) \cap Required : s.known[k].fields[f] = Null
           \/ \E i \in DOMAIN new : \E f \in Required : new[i].fields[f] = Null
           \/ indexed /\ ~ OneRowEach(new)
           \/ indexed /\ named \cap {rows[k].id : k \in DOMAIN rows} # {}

Updated(s) ==
    [k \in DOMAIN rows |->
        IF k \notin Updates(s) THEN rows[k]
        ELSE [rows[k] EXCEPT !.fields =
                [f \in Fields |->
                    IF f \in Changed(s.known[k]) THEN s.known[k].fields[f] ELSE @[f]]]]

\* session.commit(): everything or nothing.
Commit(p) ==
    /\ pc[p] = "lookup"
    /\ todo[p] = <<>>
    /\ IF Conflict(session[p])
       THEN Goto(p, "failed") /\ UNCHANGED <<rows, committed, seeded>>
       ELSE /\ rows' = Updated(session[p]) \o session[p].added
            /\ committed' = [committed EXCEPT ![p] = TRUE]
            /\ seeded' = [file |-> file[p], rows |-> rows']
            /\ Goto(p, "count")
    /\ UNCHANGED <<schema, opts, todo, session, serving, answer, runs, before, file>>

\* count_devices, and the end of the run; the service now takes requests.
Count(p) ==
    /\ pc[p] = "count"
    /\ Goto(p, IF exists THEN "done" ELSE "failed")
    /\ serving' = IF exists /\ p \in Servers THEN serving \cup {p} ELSE serving
    /\ UNCHANGED <<table, local, answer, runs, history>>

\* The process is killed; an open transaction is rolled back.
Crash(p) ==
    /\ pc[p] \in {"find", "drop", "check", "create", "index", "load", "lookup", "count"}
    /\ Goto(p, "crashed")
    /\ UNCHANGED <<table, local, serving, answer, runs, history>>

\* get_device_status for a device no external source answers for.
ReadDevice(id) ==
    /\ serving # {}
    /\ answer' = IF ~ exists THEN "raised"
                 ELSE IF RowOf(id) = 0 THEN "not_found" ELSE "found"
    /\ UNCHANGED <<table, pc, local, serving, runs, history>>

Next ==
    \/ \E p \in Procs : \E o \in Options : Start(p, o)
    \/ \E p \in Procs :
          \/ FindTable(p) \/ DropTable(p) \/ CheckTable(p) \/ CreateTable(p)
          \/ CreateIndex(p) \/ Lookup(p) \/ Commit(p) \/ Count(p) \/ Crash(p)
          \/ \E f \in Files : LoadSeed(p, f)
    \/ \E id \in Ids : ReadDevice(id)

Spec == Init /\ [][Next]_vars

----------------------------------------------------------------------------
(* Properties. *)

\* Types of the variables; no required column is null, and where there is the
\* index no device has two rows (models.py, Device).
TypeOK ==
    /\ exists \in BOOLEAN
    /\ indexed \in BOOLEAN
    /\ rows \in Seq(Row)
    /\ ~ exists => rows = <<>> /\ ~ indexed
    /\ indexed => OneRowEach(rows)
    /\ \A k \in DOMAIN rows : \A f \in Required : rows[k].fields[f] # Null
    /\ pc \in [Procs -> {"idle", "find", "drop", "check", "create", "index", "load",
                         "lookup", "count", "done", "failed", "crashed"}]
    /\ opts \in [Procs -> Options]
    /\ todo \in [Procs -> Seq(Record)]
    /\ DOMAIN session = Procs
    /\ \A p \in Procs : IsSession(session[p])
    /\ committed \in [Procs -> BOOLEAN]
    /\ serving \subseteq Servers
    /\ answer \in {"none", "found", "not_found", "raised"}

\* The last value the seed file gives a field of a device, if it gives one.
Given(f, id, field) ==
    {i \in DOMAIN f.records : f.records[i].id = id /\ field \in DOMAIN f.records[i].sets}

LastGiven(f, id, field) ==
    LET places == Given(f, id, field)
    IN  f.records[CHOOSE i \in places : \A j \in places : j <= i].sets[field]

\* The last value a file gives a field of a device, value where it gives none.
Latest(f, id, field, value) ==
    IF Given(f, id, field) # {} THEN LastGiven(f, id, field) ELSE value

\* With one seeder and the index, a commit stores what the file says: each
\* device it names has its row; one that had a row has the last value the file
\* gives each field and keeps the others, a new one has the last value given or
\* the default; other rows stay.
CommitStoresTheFile ==
    [][\A p \in Seeders : indexed /\ committed'[p] /\ ~ committed[p] =>
          \A id \in Ids :
             LET k == RowOf(id)
                 n == RowOf(id)'
                 f == file[p]
                 named == \E i \in DOMAIN f.records : f.records[i].id = id
             IN  /\ n # 0 <=> (k # 0 \/ named)
                 /\ n # 0 => \A field \in Fields :
                      rows'[n].fields[field] =
                        IF k # 0 THEN Latest(f, id, field, rows[k].fields[field])
                        ELSE Default(field, Latest(f, id, field, Null))]_vars

\* The commit of a run that finds the rows the last successful run has left,
\* with the same file.
SeedsAgain(p) ==
    /\ pc[p] = "lookup" /\ todo[p] = <<>> /\ pc'[p] \in {"count", "failed"}
    /\ seeded.file = file[p] /\ seeded.rows = rows
    /\ seeded # NothingSeeded

\* With one seeder and the index, seeding the same file again changes no row;
\* it succeeds unless the last status the file gives some device is null, for
\* which only an insert has a default, and then it always fails.
SeedingAgainChangesNothing ==
    [][\A p \in Seeders : indexed /\ SeedsAgain(p) =>
          /\ rows' = rows
          /\ pc'[p] = "failed" <=>
                \E id \in Ids : /\ Given(file[p], id, "status") # {}
                                /\ LastGiven(file[p], id, "status") = Null]_vars

\* With one seeder, a run that ends without having committed leaves the rows
\* it found, or, after a reset, none: never some of them.
FailedRunsAreWhole ==
    \A p \in Seeders :
        pc[p] \in {"failed", "crashed"} /\ ~ committed[p] =>
            rows = before[p] \/ (opts[p].reset /\ rows = <<>>)

\* With one seeder: from the moment its run has created the schema until its
\* next reset the table is there, whatever servers start meanwhile, and a read
\* of the device tool in that time does not raise.
ReadsFindTheSchema ==
    [][(\E p \in Seeders : pc[p] \in {"load", "lookup", "count", "done"})
          => exists /\ (answer' = "raised" => answer = "raised")]_vars
=============================================================================
