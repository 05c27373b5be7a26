------------------------ MODULE DeviceDatabaseProofs ------------------------
(***************************************************************************)
(* Proofs about DeviceDatabase: its types with any number of seeders, what *)
(* a seeding writes with one, any number of servers, any seed files and    *)
(* any number of runs.                                                     *)
(***************************************************************************)
EXTENDS DeviceDatabase, FiniteSums, TLAPS

OneSeeder == \E p : Seeders = {p}

Steps == {"idle", "find", "drop", "check", "create", "index", "load", "lookup",
          "count", "done", "failed", "crashed"}

\* The types the argument needs.
Typed ==
    /\ pc \in [Procs -> Steps]
    /\ opts \in [Procs -> Options]
    /\ committed \in [Procs -> BOOLEAN]
    /\ DOMAIN before = Procs

\* A server neither drops the table nor seeds it.
ServersOnlyCreate ==
    \A s \in Servers :
        /\ ~ opts[s].reset /\ ~ opts[s].seed
        /\ pc[s] \notin {"find", "drop", "load", "lookup"}

\* At every step of a run, not only where it ends.
Whole(p) ==
    pc[p] # "idle" /\ ~ committed[p] =>
        rows = before[p] \/ (opts[p].reset /\ rows = <<>>)

DropsOnlyInReset(p) == pc[p] \in {"find", "drop"} => opts[p].reset

Schema(p) == pc[p] \in {"load", "lookup", "count", "done"} => exists

\* The inductive invariant.
DatabaseIInv ==
    /\ Typed
    /\ ServersOnlyCreate
    /\ \A p \in Seeders : Whole(p) /\ DropsOnlyInReset(p) /\ Schema(p)

----------------------------------------------------------------------------

LEMMA DatabaseInit ==
    ASSUME Init
    PROVE  DatabaseIInv
  <1> QED
    BY DEF Init, DatabaseIInv, Typed, Steps, Options, ServersOnlyCreate, Whole,
           DropsOnlyInReset, Schema, Procs

\* Steps of a process that is the seeder or not.
LEMMA StartStep ==
    ASSUME OneSeeder, DatabaseIInv, NEW p \in Procs, NEW o \in Options, Start(p, o)
    PROVE  DatabaseIInv'
  <1> USE DEF Start, Goto, table, DatabaseIInv
  <1>1. Typed'
    BY DEF Typed, Steps
  <1>2. ServersOnlyCreate'
    BY DEF Typed, ServersOnlyCreate, Procs
  <1>3. ASSUME NEW q \in Seeders
        PROVE  (Whole(q) /\ DropsOnlyInReset(q) /\ Schema(q))'
    BY DEF Typed, Whole, DropsOnlyInReset, Schema, Procs
  <1> QED
    BY <1>1, <1>2, <1>3

LEMMA DropSteps ==
    ASSUME OneSeeder, DatabaseIInv, NEW p \in Procs, FindTable(p) \/ DropTable(p)
    PROVE  DatabaseIInv'
  <1> USE DEF FindTable, DropTable, Goto, table, local, history, DatabaseIInv
  <1>1. Typed'
    BY DEF Typed, Steps
  <1>2. p \notin Servers /\ Seeders = {p}
    BY DEF OneSeeder, ServersOnlyCreate, Procs
  <1>3. ServersOnlyCreate'
    BY <1>2 DEF Typed, ServersOnlyCreate, Procs
  <1>4. (Whole(p) /\ DropsOnlyInReset(p) /\ Schema(p))'
    BY <1>2 DEF Typed, Whole, DropsOnlyInReset, Schema
  <1> QED
    BY <1>1, <1>2, <1>3, <1>4

LEMMA CreateSteps ==
    ASSUME OneSeeder, DatabaseIInv, NEW p \in Procs,
           CheckTable(p) \/ CreateTable(p) \/ CreateIndex(p)
    PROVE  DatabaseIInv'
  <1> USE DEF CheckTable, CreateTable, CreateIndex, AfterSchema, Goto, table, local, history,
              DatabaseIInv
  <1>1. Typed'
    BY DEF Typed, Steps
  <1>2. ServersOnlyCreate'
    BY DEF Typed, ServersOnlyCreate, Procs
  <1>3. exists => exists'
    OBVIOUS
  <1>4. ASSUME NEW q \in Seeders
        PROVE  (Whole(q) /\ DropsOnlyInReset(q) /\ Schema(q))'
    <2>1. q \in Procs
      BY DEF Procs
    <2>2. pc'[q] \in {"find", "drop"} => pc'[q] = pc[q]
      BY <2>1 DEF Typed
    <2>3. pc'[q] \in {"load", "lookup", "count", "done"} => exists'
      BY <2>1, <1>3 DEF Typed, Schema
    <2>4. pc'[q] # "idle" => pc[q] # "idle"
      BY <2>1 DEF Typed
    <2> QED
      BY <2>1, <2>2, <2>3, <2>4 DEF Whole, DropsOnlyInReset, Schema
  <1> QED
    BY <1>1, <1>2, <1>4

LEMMA SeedSteps ==
    ASSUME OneSeeder, DatabaseIInv, NEW p \in Procs,
           (\E f \in Files : LoadSeed(p, f)) \/ Lookup(p) \/ Commit(p)
    PROVE  DatabaseIInv'
  <1> USE DEF LoadSeed, Lookup, Commit, Goto, schema, table, local, history, DatabaseIInv
  <1>1. Typed'
    BY DEF Typed, Steps
  <1>2. p \notin Servers /\ Seeders = {p}
    BY DEF OneSeeder, ServersOnlyCreate, Procs
  <1>3. ServersOnlyCreate'
    BY <1>2 DEF Typed, ServersOnlyCreate, Procs
  <1>4. committed'[p] \/ (committed' = committed /\ rows' = rows)
    BY DEF Typed
  <1>5. /\ pc'[p] \in {"lookup", "count", "failed"}
        /\ pc[p] \in {"load", "lookup"}
        /\ opts' = opts /\ before' = before /\ exists' = exists
    BY DEF Typed
  <1>6. (Whole(p) /\ DropsOnlyInReset(p) /\ Schema(p))'
    BY <1>2, <1>4, <1>5 DEF Whole, DropsOnlyInReset, Schema
  <1> QED
    BY <1>1, <1>2, <1>3, <1>6

LEMMA EndSteps ==
    ASSUME OneSeeder, DatabaseIInv, NEW p \in Procs, Count(p) \/ Crash(p)
    PROVE  DatabaseIInv'
  <1> USE DEF Count, Crash, Goto, table, local, history, DatabaseIInv
  <1>1. Typed'
    BY DEF Typed, Steps
  <1>2. ServersOnlyCreate'
    BY DEF Typed, ServersOnlyCreate, Procs
  <1>3. ASSUME NEW q \in Seeders
        PROVE  (Whole(q) /\ DropsOnlyInReset(q) /\ Schema(q))'
    BY DEF Typed, Whole, DropsOnlyInReset, Schema, Procs
  <1> QED
    BY <1>1, <1>2, <1>3

LEMMA DatabaseStep ==
    ASSUME OneSeeder, DatabaseIInv, [Next]_vars
    PROVE  DatabaseIInv'
  <1>1. CASE UNCHANGED vars
    BY <1>1 DEF vars, DatabaseIInv, Typed, ServersOnlyCreate, Whole, DropsOnlyInReset, Schema
  <1>2. ASSUME NEW id \in Ids, ReadDevice(id)
        PROVE  DatabaseIInv'
    BY <1>2 DEF ReadDevice, table, local, history, DatabaseIInv, Typed,
                ServersOnlyCreate, Whole, DropsOnlyInReset, Schema
  <1> QED
    BY <1>1, <1>2, StartStep, DropSteps, CreateSteps, SeedSteps, EndSteps DEF Next

LEMMA DatabaseInvariant == OneSeeder /\ Spec => []DatabaseIInv
  <1> SUFFICES ASSUME OneSeeder
               PROVE  Spec => []DatabaseIInv
    OBVIOUS
  <1>1. Init => DatabaseIInv
    BY DatabaseInit
  <1>2. DatabaseIInv /\ [Next]_vars => DatabaseIInv'
    BY DatabaseStep
  <1> QED
    BY <1>1, <1>2, PTL DEF Spec

\* A run that ends without having committed leaves the rows it found, or none
\* after a reset (init_db.py, init_db and seed_devices).
THEOREM FailedRunsLeaveNoParts == OneSeeder /\ Spec => []FailedRunsAreWhole
  <1>1. DatabaseIInv => FailedRunsAreWhole
    BY DEF DatabaseIInv, FailedRunsAreWhole, Whole
  <1> QED
    BY <1>1, DatabaseInvariant, PTL

\* From the creation of the schema until the next reset the table is there for
\* every reader, whatever servers start meanwhile.
THEOREM SchemaIsFound == OneSeeder /\ Spec => ReadsFindTheSchema
  <1> SUFFICES ASSUME OneSeeder
               PROVE  Spec => ReadsFindTheSchema
    OBVIOUS
  <1>1. DatabaseIInv /\ [Next]_vars =>
           ((\E p \in Seeders : pc[p] \in {"load", "lookup", "count", "done"})
              => exists /\ (answer' = "raised" => answer = "raised"))
    <2> SUFFICES ASSUME DatabaseIInv, [Next]_vars,
                        NEW p \in Seeders, pc[p] \in {"load", "lookup", "count", "done"}
                 PROVE  exists /\ (answer' = "raised" => answer = "raised")
      OBVIOUS
    <2>1. exists
      BY DEF DatabaseIInv, Schema
    <2>2. ASSUME NEW id \in Ids, ReadDevice(id)
          PROVE  answer' # "raised"
      BY <2>1, <2>2 DEF ReadDevice
    <2>3. answer' = answer \/ \E id \in Ids : ReadDevice(id)
      BY DEF Next, vars, Start, FindTable, DropTable, CheckTable, CreateTable, CreateIndex, LoadSeed,
             Lookup, Commit, Count, Crash
    <2> QED
      BY <2>1, <2>2, <2>3
  <1> QED
    BY <1>1, DatabaseInvariant, PTL DEF Spec, ReadsFindTheSchema

----------------------------------------------------------------------------
(* The types, with any number of seeders. *)

\* What the table promises of its rows, with or without the index.
Tabular(table_) ==
    /\ table_ \in Seq(Row)
    /\ \A k \in DOMAIN table_ : \A f \in Required : table_[k].fields[f] # Null

LEMMA EmptyTable == Tabular(<<>>) /\ OneRowEach(<<>>)
  <1> QED
    BY DEF Tabular, OneRowEach

\* A set of numbers that is not empty has a least one.
LEMMA Least ==
    ASSUME NEW S, S \subseteq Nat, S # {}
    PROVE  \E k \in S : \A j \in S : k <= j
  <1> DEFINE T == {n \in Nat : (\E i \in S : i <= n) => \E k \in S : \A j \in S : k <= j}
  <1>1. 0 \in T
    OBVIOUS
  <1>2. ASSUME NEW n \in Nat, n \in T
        PROVE  n + 1 \in T
    <2>1. CASE \E i \in S : i <= n
      BY <1>2, <2>1
    <2>2. CASE ~ \E i \in S : i <= n
      <3>1. \A j \in S : n + 1 <= j
        BY <2>2
      <3>2. \A i \in S : i <= n + 1 => i = n + 1
        BY <2>2
      <3> QED
        BY <3>1, <3>2
    <2> QED
      BY <2>1, <2>2
  <1> HIDE DEF T
  <1>3. Nat \subseteq T
    BY <1>1, <1>2, NaturalInduction
  <1>4. PICK i \in S : TRUE
    OBVIOUS
  <1>5. i \in T /\ i <= i
    BY <1>3, <1>4
  <1> QED
    BY <1>5 DEF T

\* A lookup finds the row of the device, or there is none.
LEMMA RowFound ==
    ASSUME rows \in Seq(Row), NEW id
    PROVE  \/ RowOf(id) = 0 /\ \A k \in DOMAIN rows : rows[k].id # id
           \/ /\ RowOf(id) \in DOMAIN rows /\ rows[RowOf(id)].id = id
              /\ RowOf(id) \in Nat \ {0}
  <1> DEFINE found == {k \in DOMAIN rows : rows[k].id = id}
  <1>1. found \subseteq Nat \ {0}
    OBVIOUS
  <1>2. RowOf(id) = IF found = {} THEN 0 ELSE CHOOSE k \in found : \A j \in found : k <= j
    BY DEF RowOf
  <1>3. \A k : k \in found <=> k \in DOMAIN rows /\ rows[k].id = id
    OBVIOUS
  <1> HIDE DEF found
  <1>4. CASE found = {}
    BY <1>2, <1>3, <1>4
  <1>5. CASE found # {}
    <2>1. \E k \in found : \A j \in found : k <= j
      BY <1>1, <1>5, Least
    <2>2. RowOf(id) \in found
      BY <1>2, <1>5, <2>1
    <2> QED
      BY <1>1, <1>3, <2>2
  <1> QED
    BY <1>4, <1>5

LEMMA AssignedTyped ==
    ASSUME NEW fields \in FieldValues, NEW record \in Record
    PROVE  /\ Assigned(fields, record.sets) \in FieldValues
           /\ Unset \in FieldValues
           /\ Inserted(record.sets) \in FieldValues
  <1>1. PICK given \in SUBSET Fields : record.sets \in [given -> Values \cup {Null}]
    BY DEF Record
  <1>2. \A f \in DOMAIN record.sets : record.sets[f] \in Values \cup {Null}
    BY <1>1
  <1>3. \A g \in FieldValues : Assigned(g, record.sets) \in FieldValues
    BY <1>2 DEF Assigned, FieldValues
  <1>4. Unset \in FieldValues
    BY DEF FieldValues, Unset
  <1>5. Inserted(record.sets) \in FieldValues
    BY <1>3, <1>4, DatabaseAssumption DEF Inserted, Default, FieldValues
  <1> QED
    BY <1>3, <1>4, <1>5

LEMMA NotedTyped ==
    ASSUME rows \in Seq(Row), NEW s, IsSession(s), NEW record \in Record, record.id # Null
    PROVE  IsSession(Noted(s, record))
  <1> DEFINE pk == RowOf(record.id)
             object == IF pk \in DOMAIN s.known THEN s.known[pk]
                       ELSE [loaded |-> rows[pk].fields, fields |-> rows[pk].fields]
             new == [id |-> record.id, fields |-> Inserted(record.sets)]
  <1>1. CASE pk = 0
    <2>1. new \in Row
      <3>1. record.id \in Ids
        BY DEF Record
      <3>2. Unset \in FieldValues
        BY DEF FieldValues, Unset
      <3>3. Inserted(record.sets) \in FieldValues
        BY <3>2, AssignedTyped
      <3> QED
        BY <3>1, <3>3 DEF Row
    <2>2. Noted(s, record) = [s EXCEPT !.added = Append(@, new)]
      BY <1>1 DEF Noted, Added
    <2> HIDE DEF new
    <2>3. Append(s.added, new) \in Seq(Row)
      BY <2>1 DEF IsSession
    <2> QED
      BY <2>2, <2>3 DEF IsSession
  <1>2. CASE pk # 0
    <2>1. pk \in DOMAIN rows /\ pk \in Nat \ {0} /\ rows[pk] \in Row
      BY <1>2, RowFound
    <2>2. object \in Object
      BY <2>1 DEF IsSession, Object, Row
    <2>3. [object EXCEPT !.fields = Assigned(@, record.sets)] \in Object
      BY <2>2, AssignedTyped DEF Object
    <2>4. Noted(s, record) =
              [s EXCEPT !.known =
                [k \in DOMAIN s.known \cup {pk} |->
                    IF k = pk THEN [object EXCEPT !.fields = Assigned(@, record.sets)]
                    ELSE s.known[k]]]
      BY <1>2 DEF Noted
    <2> DEFINE known == [k \in DOMAIN s.known \cup {pk} |->
                            IF k = pk THEN [object EXCEPT !.fields = Assigned(@, record.sets)]
                            ELSE s.known[k]]
    <2>5. DOMAIN known = DOMAIN s.known \cup {pk} /\ known \in [DOMAIN known -> Object]
      BY <2>3 DEF IsSession
    <2>6. Noted(s, record) = [s EXCEPT !.known = known]
      BY <2>4
    <2> HIDE DEF known, object
    <2>7. /\ Noted(s, record).known = known
          /\ Noted(s, record) \in [added : Seq(Row), known : [DOMAIN known -> Object]]
      BY <2>5, <2>6 DEF IsSession
    <2> QED
      BY <2>1, <2>5, <2>7 DEF IsSession
  <1> QED
    BY <1>1, <1>2

\* A commit that goes through leaves a table and, with the index, one row for
\* each device.
LEMMA CommitTabular ==
    ASSUME Tabular(rows), NEW s, IsSession(s), ~ Conflict(s)
    PROVE  /\ Tabular(Updated(s) \o s.added)
           /\ indexed /\ OneRowEach(rows) => OneRowEach(Updated(s) \o s.added)
  <1> DEFINE old == Updated(s)
             new == s.added
  <1>1. /\ rows \in Seq(Row) /\ new \in Seq(Row)
        /\ DOMAIN rows = 1 .. Len(rows) /\ DOMAIN new = 1 .. Len(new)
        /\ Len(rows) \in Nat /\ Len(new) \in Nat
    BY DEF Tabular, IsSession
  <1>2. /\ \A k \in DOMAIN s.known : s.known[k] \in Object
        /\ \A k \in Updates(s) : k \in DOMAIN s.known
    BY DEF IsSession, Updates
  <1>3. ASSUME NEW k \in DOMAIN rows
        PROVE  /\ old[k] \in Row /\ old[k].id = rows[k].id
               /\ \A f \in Required : old[k].fields[f] # Null
    <2>1. rows[k] \in Row /\ \A f \in Required : rows[k].fields[f] # Null
      BY DEF Tabular
    <2>2. CASE k \notin Updates(s)
      BY <2>1, <2>2 DEF Updated
    <2>3. CASE k \in Updates(s)
      <3> DEFINE fields == [f \in Fields |->
                              IF f \in Changed(s.known[k]) THEN s.known[k].fields[f]
                              ELSE rows[k].fields[f]]
      <3>1. old[k] = [rows[k] EXCEPT !.fields = fields]
        BY <2>3 DEF Updated
      <3>2. s.known[k] \in Object
        BY <1>2, <2>3
      <3>3. fields \in FieldValues
        BY <2>1, <3>2 DEF Object, Row, FieldValues
      <3>4. \A f \in Required : fields[f] # Null
        BY <2>1, <2>3 DEF Conflict, Required, Fields
      <3> HIDE DEF fields
      <3> QED
        BY <2>1, <3>1, <3>3, <3>4 DEF Row
    <2> QED
      BY <2>2, <2>3
  <1>4. old \in Seq(Row) /\ Len(old) = Len(rows) /\ DOMAIN old = DOMAIN rows
    <2>1. DOMAIN old = 1 .. Len(rows) /\ old = [k \in 1 .. Len(rows) |-> old[k]]
      BY <1>1 DEF Updated
    <2>2. \A k \in 1 .. Len(rows) : old[k] \in Row
      BY <1>1, <1>3
    <2> HIDE DEF old
    <2>3. old \in [1 .. Len(rows) -> Row]
      BY <2>1, <2>2
    <2> QED
      BY <1>1, <2>1, <2>3
  <1>5. /\ \A i \in DOMAIN new : \A f \in Required : new[i].fields[f] # Null
        /\ indexed => /\ \A i, j \in DOMAIN new : new[i].id = new[j].id => i = j
                      /\ \A i \in DOMAIN new : \A k \in DOMAIN rows : new[i].id # rows[k].id
    <2>1. CASE new = <<>>
      BY <2>1
    <2>2. CASE new # <<>>
      BY <2>2 DEF Conflict, OneRowEach
    <2> QED
      BY <2>1, <2>2
  <1> HIDE DEF old, new
  <1> DEFINE all == old \o new
  <1>6. /\ all \in Seq(Row) /\ Len(all) = Len(rows) + Len(new)
        /\ DOMAIN all = 1 .. Len(rows) + Len(new)
        /\ \A k \in 1 .. Len(rows) : all[k] = old[k]
        /\ \A k \in DOMAIN all : k \notin 1 .. Len(rows) =>
              k - Len(rows) \in DOMAIN new /\ all[k] = new[k - Len(rows)]
    BY <1>1, <1>4
  <1> HIDE DEF all
  <1>7. ASSUME indexed, OneRowEach(rows),
               NEW j \in DOMAIN all, NEW k \in DOMAIN all, all[j].id = all[k].id
        PROVE  j = k
    <2>1. CASE j \in 1 .. Len(rows) /\ k \in 1 .. Len(rows)
      BY <1>1, <1>3, <1>6, <1>7, <2>1 DEF OneRowEach
    <2>2. CASE j \notin 1 .. Len(rows) /\ k \notin 1 .. Len(rows)
      <3>1. j - Len(rows) = k - Len(rows)
        BY <1>5, <1>6, <1>7, <2>2
      <3> QED
        BY <1>1, <1>6, <3>1
    <2>3. ASSUME NEW a \in 1 .. Len(rows), NEW b \in DOMAIN all, b \notin 1 .. Len(rows)
          PROVE  all[a].id # all[b].id
      <3>1. all[a].id = rows[a].id
        BY <1>1, <1>3, <1>6
      <3>2. b - Len(rows) \in DOMAIN new /\ all[b] = new[b - Len(rows)]
        BY <1>6, <2>3
      <3> QED
        BY <1>1, <1>5, <1>7, <3>1, <3>2
    <2> QED
      BY <1>7, <2>1, <2>2, <2>3
  <1>8. ASSUME NEW k \in DOMAIN all, NEW f \in Required
        PROVE  all[k].fields[f] # Null
    <2>1. CASE k \in 1 .. Len(rows)
      BY <1>1, <1>3, <1>6, <2>1
    <2>2. CASE k \notin 1 .. Len(rows)
      BY <1>5, <1>6, <2>2
    <2> QED
      BY <2>1, <2>2
  <1> QED
    BY <1>6, <1>7, <1>8 DEF Tabular, OneRowEach, all, old, new

LEMMA NoSessionTyped == IsSession(NoSession)
  <1> QED
    BY DEF IsSession, NoSession

\* TypeOK in the terms of the proofs.
LEMMA TypeOKParts ==
    TypeOK <=>
        /\ exists \in BOOLEAN
        /\ indexed \in BOOLEAN
        /\ Tabular(rows)
        /\ ~ exists => rows = <<>> /\ ~ indexed
        /\ indexed => OneRowEach(rows)
        /\ pc \in [Procs -> Steps]
        /\ opts \in [Procs -> Options]
        /\ todo \in [Procs -> Seq(Record)]
        /\ DOMAIN session = Procs
        /\ \A p \in Procs : IsSession(session[p])
        /\ committed \in [Procs -> BOOLEAN]
        /\ serving \subseteq Servers
        /\ answer \in {"none", "found", "not_found", "raised"}
  <1> QED
    BY DEF TypeOK, Tabular, Steps

LEMMA TypesKept ==
    ASSUME TypeOK, [Next]_vars
    PROVE  TypeOK'
  <1> DEFINE Parts == /\ exists \in BOOLEAN
                      /\ indexed \in BOOLEAN
                      /\ Tabular(rows)
                      /\ ~ exists => rows = <<>> /\ ~ indexed
                      /\ indexed => OneRowEach(rows)
                      /\ pc \in [Procs -> Steps]
                      /\ opts \in [Procs -> Options]
                      /\ todo \in [Procs -> Seq(Record)]
                      /\ DOMAIN session = Procs
                      /\ \A p \in Procs : IsSession(session[p])
                      /\ committed \in [Procs -> BOOLEAN]
                      /\ serving \subseteq Servers
                      /\ answer \in {"none", "found", "not_found", "raised"}
  <1>1. Parts
    BY TypeOKParts
  <1> SUFFICES Parts'
    BY DEF TypeOK, Tabular, Steps
  <1> USE DEF Goto, schema, table, local, history, Steps
  <1>2. CASE UNCHANGED vars
    BY <1>1, <1>2 DEF vars, Tabular, OneRowEach
  <1>3. ASSUME NEW p \in Procs, NEW o \in Options, Start(p, o)
        PROVE  Parts'
    <2>1. DOMAIN session' = Procs /\ \A q \in Procs : IsSession(session'[q])
      BY <1>1, <1>3, NoSessionTyped DEF Start
    <2>2. /\ pc' \in [Procs -> Steps] /\ opts' \in [Procs -> Options]
          /\ todo' \in [Procs -> Seq(Record)] /\ committed' \in [Procs -> BOOLEAN]
      BY <1>1, <1>3 DEF Start
    <2>3. UNCHANGED <<exists, indexed, rows, serving, answer>>
      BY <1>3 DEF Start
    <2> QED
      BY <1>1, <2>1, <2>2, <2>3 DEF Tabular, OneRowEach
  <1>4. ASSUME NEW p \in Procs,
               FindTable(p) \/ CheckTable(p) \/ Count(p) \/ Crash(p)
        PROVE  Parts'
    <2>1. UNCHANGED <<exists, indexed, rows, opts, todo, session, committed, answer>>
      BY <1>4 DEF FindTable, CheckTable, Count, Crash
    <2>2. pc' \in [Procs -> Steps] /\ serving' \subseteq Servers
      BY <1>1, <1>4 DEF FindTable, CheckTable, Count, Crash, AfterSchema
    <2> QED
      BY <1>1, <2>1, <2>2 DEF Tabular, OneRowEach
  <1>5. ASSUME NEW p \in Procs, DropTable(p)
        PROVE  Parts'
    BY <1>1, <1>5, EmptyTable DEF DropTable, Tabular, OneRowEach
  <1>6. ASSUME NEW p \in Procs, CreateTable(p) \/ CreateIndex(p)
        PROVE  Parts'
    BY <1>1, <1>6 DEF CreateTable, CreateIndex, AfterSchema, Tabular, OneRowEach
  <1>7. ASSUME NEW p \in Procs, NEW f \in Files, LoadSeed(p, f)
        PROVE  Parts'
    <2>1. f.records \in Seq(Record)
      BY DatabaseAssumption DEF FileShape
    <2> QED
      BY <1>1, <1>7, <2>1 DEF LoadSeed, Tabular, OneRowEach
  <1>8. ASSUME NEW p \in Procs, Lookup(p)
        PROVE  Parts'
    <2>1. /\ todo[p] \in Seq(Record) /\ todo[p] # <<>>
          /\ Head(todo[p]) \in Record /\ Tail(todo[p]) \in Seq(Record)
      BY <1>1, <1>8 DEF Lookup
    <2>2. todo' \in [Procs -> Seq(Record)]
      BY <1>1, <1>8, <2>1 DEF Lookup
    <2>3. /\ DOMAIN session' = Procs
          /\ \A q \in Procs : IsSession(session'[q])
      <3>1. CASE session' = session
        BY <1>1, <3>1
      <3>2. CASE session' # session
        <4> DEFINE record == Head(todo[p])
        <4>1. /\ record.id # Null
              /\ session' = [session EXCEPT ![p] = Noted(@, record)]
          BY <1>8, <3>2 DEF Lookup
        <4>2. rows \in Seq(Row) /\ IsSession(session[p]) /\ record \in Record
          BY <1>1, <2>1 DEF Tabular
        <4> HIDE DEF record
        <4>3. IsSession(Noted(session[p], record))
          BY <4>1, <4>2, NotedTyped
        <4> QED
          BY <1>1, <4>1, <4>3
      <3> QED
        BY <3>1, <3>2
    <2> QED
      BY <1>1, <1>8, <2>2, <2>3 DEF Lookup, Tabular, OneRowEach
  <1>9. ASSUME NEW p \in Procs, Commit(p)
        PROVE  Parts'
    <2>1. CASE Conflict(session[p])
      BY <1>1, <1>9, <2>1 DEF Commit, Tabular, OneRowEach
    <2>2. CASE ~ Conflict(session[p])
      <3>1. rows' = Updated(session[p]) \o session[p].added
        BY <1>9, <2>2 DEF Commit
      <3>2. IsSession(session[p]) /\ Tabular(rows)
        BY <1>1
      <3>3. Tabular(rows') /\ (indexed => OneRowEach(rows'))
        BY <1>1, <2>2, <3>1, <3>2, CommitTabular
      <3>4. ~ exists => rows' = <<>>
        <4> SUFFICES ASSUME ~ exists
                     PROVE  rows' = <<>>
          OBVIOUS
        <4>1. session[p].added = <<>> /\ rows = <<>>
          BY <1>1, <2>2 DEF Conflict
        <4>2. Updated(session[p]) = <<>>
          BY <4>1 DEF Updated
        <4> QED
          BY <3>1, <4>1, <4>2
      <3>5. UNCHANGED <<exists, indexed, opts, todo, session, serving, answer>>
        BY <1>9 DEF Commit, schema
      <3>6. pc' \in [Procs -> Steps] /\ committed' \in [Procs -> BOOLEAN]
        BY <1>1, <1>9, <2>2 DEF Commit
      <3> QED
        BY <1>1, <3>3, <3>4, <3>5, <3>6
    <2> QED
      BY <2>1, <2>2
  <1>10. ASSUME NEW id \in Ids, ReadDevice(id)
         PROVE  Parts'
    BY <1>1, <1>10 DEF ReadDevice, Tabular, OneRowEach
  <1> HIDE DEF Parts
  <1> QED
    BY <1>2, <1>3, <1>4, <1>5, <1>6, <1>7, <1>8, <1>9, <1>10 DEF Next

\* Whatever the seed files hold, however many seeders and servers run at once
\* and wherever they are killed: no required column of a row is null, and no
\* device has two rows once the index is there (models.py, Device; init_db.py,
\* create_tables and seed_devices).
THEOREM DatabaseTypeCorrect == Spec => []TypeOK
  <1>1. Init => TypeOK
    <2> SUFFICES ASSUME Init
                 PROVE  TypeOK
      OBVIOUS
    <2>1. Tabular(rows) /\ OneRowEach(rows)
      BY EmptyTable DEF Init
    <2> QED
      <3>1. DOMAIN session = Procs /\ \A p \in Procs : IsSession(session[p])
        BY NoSessionTyped DEF Init
      <3>2. /\ pc \in [Procs -> Steps] /\ opts \in [Procs -> Options]
            /\ todo \in [Procs -> Seq(Record)] /\ committed \in [Procs -> BOOLEAN]
        BY DEF Init, Options, Steps
      <3>3. exists = FALSE /\ indexed = FALSE /\ rows = <<>> /\ serving = {} /\ answer = "none"
        BY DEF Init
      <3> QED
        BY <2>1, <3>1, <3>2, <3>3, TypeOKParts
  <1>2. TypeOK /\ [Next]_vars => TypeOK'
    BY TypesKept
  <1> QED
    BY <1>1, <1>2, PTL DEF Spec

----------------------------------------------------------------------------
(* What a seeding has looked up, and what it commits. *)

\* The row a session adds for a record.
From(row, record) == row.id = record.id /\ row.fields = Inserted(record.sets)

\* The i-th of the first n records is the last to give the field of a device.
LastOf(f, id, field, n, i) ==
    /\ i \in Given(f, id, field)
    /\ \A j \in Given(f, id, field) : j <= n => j <= i

\* A session that has looked up the first n records of a file: rows to be
\* added for the devices that have none, ...
AddsFirst(s, f, n) ==
    /\ \A j \in DOMAIN s.added :
          /\ RowOf(s.added[j].id) = 0
          /\ \E i \in 1 .. n : From(s.added[j], f.records[i])
    /\ \A i \in 1 .. n :
          f.records[i].id # Null /\ RowOf(f.records[i].id) = 0 =>
              \E j \in DOMAIN s.added : From(s.added[j], f.records[i])

\* ... and objects for the rows found, with the values given last so far.
KnowsFirst(s, f, n) ==
    /\ \A k \in DOMAIN s.known : k \in DOMAIN rows /\ s.known[k].loaded = rows[k].fields
    /\ \A i \in 1 .. n :
          f.records[i].id # Null /\ RowOf(f.records[i].id) # 0 =>
              RowOf(f.records[i].id) \in DOMAIN s.known
    /\ \A k \in DOMAIN s.known : \A field \in Fields :
          /\ \A i \in 1 .. n :
                LastOf(f, rows[k].id, field, n, i) =>
                    s.known[k].fields[field] = f.records[i].sets[field]
          /\ (\A i \in 1 .. n : i \notin Given(f, rows[k].id, field)) =>
                s.known[k].fields[field] = rows[k].fields[field]

LookedUp(s, f, n) == AddsFirst(s, f, n) /\ KnowsFirst(s, f, n)

LEMMA LookedUpNone ==
    ASSUME NEW f
    PROVE  LookedUp(NoSession, f, 0)
  <1> QED
    BY DEF LookedUp, AddsFirst, KnowsFirst, NoSession

\* A record without an identifier is nobody's.
LEMMA LookedUpSkipped ==
    ASSUME TypeOK, OneRowEach(rows), NEW s, IsSession(s), NEW f, f.records \in Seq(Record),
           NEW n \in Nat, n + 1 \in DOMAIN f.records, LookedUp(s, f, n),
           f.records[n + 1].id = Null
    PROVE  LookedUp(s, f, n + 1)
  <1>1. /\ \A i \in 1 .. n + 1 : i \in 1 .. n \/ i = n + 1
        /\ \A i \in 1 .. n : i \in 1 .. n + 1
    OBVIOUS
  <1>2. \A k \in DOMAIN rows : rows[k].id # Null
    <2>1. \A k \in DOMAIN rows : rows[k] \in Row
      BY DEF TypeOK
    <2> QED
      BY <2>1, DatabaseAssumption DEF Row
  <1>3. \A k \in DOMAIN rows : \A field : n + 1 \notin Given(f, rows[k].id, field)
    BY <1>2 DEF Given
  <1>4. AddsFirst(s, f, n + 1)
    BY <1>1 DEF AddsFirst, LookedUp
  <1>5. \A k \in DOMAIN rows : \A field : \A i \in 1 .. n + 1 :
            LastOf(f, rows[k].id, field, n + 1, i) =>
                i \in 1 .. n /\ LastOf(f, rows[k].id, field, n, i)
    <2>1. \A id, field : Given(f, id, field) \subseteq Nat
      BY DEF Given
    <2> QED
      BY <1>1, <1>3, <2>1 DEF LastOf
  <1>6. KnowsFirst(s, f, n + 1)
    BY <1>1, <1>3, <1>5 DEF KnowsFirst, LookedUp
  <1> QED
    BY <1>4, <1>6 DEF LookedUp

LEMMA LookedUpNew ==
    ASSUME TypeOK, OneRowEach(rows), NEW s, IsSession(s), NEW f, f.records \in Seq(Record),
           NEW n \in Nat, n + 1 \in DOMAIN f.records, LookedUp(s, f, n),
           RowOf(f.records[n + 1].id) = 0
    PROVE  LookedUp(Added(s, f.records[n + 1]), f, n + 1)
  <1> DEFINE record == f.records[n + 1]
             row == [id |-> record.id, fields |-> Inserted(record.sets)]
             t == Added(s, record)
  <1>1. /\ \A i \in 1 .. n + 1 : i \in 1 .. n \/ i = n + 1
        /\ \A i \in 1 .. n : i \in 1 .. n + 1
        /\ n + 1 \in 1 .. n + 1
    OBVIOUS
  <1>2. /\ t.added = Append(s.added, row) /\ t.known = s.known
        /\ s.added \in Seq(Row)
    BY DEF Added, IsSession
  <1>3. /\ \A j \in DOMAIN s.added : j \in DOMAIN t.added /\ t.added[j] = s.added[j]
        /\ \A j \in DOMAIN t.added : j \notin DOMAIN s.added => t.added[j] = row
        /\ \E j \in DOMAIN t.added : t.added[j] = row
    <2> DEFINE l == Len(s.added) + 1
    <2>1. l \in DOMAIN Append(s.added, row) /\ Append(s.added, row)[l] = row
      BY <1>2
    <2>2. DOMAIN s.added = 1 .. Len(s.added) /\ DOMAIN Append(s.added, row) = 1 .. l
      BY <1>2
    <2>3. \A j \in DOMAIN s.added : Append(s.added, row)[j] = s.added[j]
      BY <1>2
    <2>4. \A j \in 1 .. l : j \in DOMAIN s.added \/ j = l
      BY <1>2, <2>2
    <2> HIDE DEF row
    <2> QED
      BY <1>2, <2>1, <2>2, <2>3, <2>4
  <1>4. From(row, record)
    BY DEF From
  <1>5. \A k \in DOMAIN rows : \A field : n + 1 \notin Given(f, rows[k].id, field)
    BY RowFound DEF Given, TypeOK
  <1> HIDE DEF t, row
  <1>6. AddsFirst(t, f, n + 1)
    <2>1. ASSUME NEW j \in DOMAIN t.added
          PROVE  /\ RowOf(t.added[j].id) = 0
                 /\ \E i \in 1 .. n + 1 : From(t.added[j], f.records[i])
      <3>1. CASE j \in DOMAIN s.added
        BY <1>1, <1>3, <3>1 DEF AddsFirst, LookedUp
      <3>2. CASE t.added[j] = row
        BY <1>1, <1>4, <3>2 DEF From
      <3> QED
        BY <1>3, <2>1, <3>1, <3>2
    <2>2. ASSUME NEW i \in 1 .. n + 1, f.records[i].id # Null, RowOf(f.records[i].id) = 0
          PROVE  \E j \in DOMAIN t.added : From(t.added[j], f.records[i])
      <3>1. CASE i \in 1 .. n
        <4>1. PICK j \in DOMAIN s.added : From(s.added[j], f.records[i])
          BY <2>2, <3>1 DEF AddsFirst, LookedUp
        <4> QED
          BY <1>3, <4>1
      <3>2. CASE i = n + 1
        BY <1>3, <1>4, <3>2
      <3> QED
        BY <1>1, <3>1, <3>2
    <2> QED
      BY <2>1, <2>2 DEF AddsFirst
  <1>7. KnowsFirst(t, f, n + 1)
    <2>1. \A k \in DOMAIN rows : \A field : \A i \in 1 .. n + 1 :
              LastOf(f, rows[k].id, field, n + 1, i) =>
                  i \in 1 .. n /\ LastOf(f, rows[k].id, field, n, i)
      <3>1. \A id, field : Given(f, id, field) \subseteq Nat
        BY DEF Given
      <3> QED
        BY <1>1, <1>5, <3>1 DEF LastOf
    <2>2. \A k \in DOMAIN t.known : k \in DOMAIN rows /\ t.known[k].loaded = rows[k].fields
      BY <1>2 DEF KnowsFirst, LookedUp
    <2>3. \A i \in 1 .. n + 1 :
             f.records[i].id # Null /\ RowOf(f.records[i].id) # 0 =>
                 RowOf(f.records[i].id) \in DOMAIN t.known
      BY <1>1, <1>2 DEF KnowsFirst, LookedUp
    <2>4. ASSUME NEW k \in DOMAIN t.known, NEW field \in Fields
          PROVE  /\ \A i \in 1 .. n + 1 :
                       LastOf(f, rows[k].id, field, n + 1, i) =>
                           t.known[k].fields[field] = f.records[i].sets[field]
                 /\ (\A i \in 1 .. n + 1 : i \notin Given(f, rows[k].id, field)) =>
                       t.known[k].fields[field] = rows[k].fields[field]
      <3>1. k \in DOMAIN s.known /\ k \in DOMAIN rows /\ t.known[k] = s.known[k]
        BY <1>2, <2>2
      <3>2. /\ \A i \in 1 .. n :
                  LastOf(f, rows[k].id, field, n, i) =>
                      s.known[k].fields[field] = f.records[i].sets[field]
            /\ (\A i \in 1 .. n : i \notin Given(f, rows[k].id, field)) =>
                  s.known[k].fields[field] = rows[k].fields[field]
        <4>1. KnowsFirst(s, f, n)
          BY DEF LookedUp
        <4> QED
          BY <3>1, <4>1 DEF KnowsFirst
      <3> QED
        BY <1>1, <2>1, <3>1, <3>2
    <2> QED
      BY <2>2, <2>3, <2>4 DEF KnowsFirst
  <1> QED
    BY <1>6, <1>7 DEF LookedUp, t

LEMMA LookedUpFound ==
    ASSUME TypeOK, OneRowEach(rows), NEW s, IsSession(s), NEW f, f.records \in Seq(Record),
           NEW n \in Nat, n + 1 \in DOMAIN f.records, LookedUp(s, f, n),
           f.records[n + 1].id # Null, RowOf(f.records[n + 1].id) # 0
    PROVE  LookedUp(Noted(s, f.records[n + 1]), f, n + 1)
  <1> DEFINE record == f.records[n + 1]
             pk == RowOf(record.id)
             object == IF pk \in DOMAIN s.known THEN s.known[pk]
                       ELSE [loaded |-> rows[pk].fields, fields |-> rows[pk].fields]
             noted == [object EXCEPT !.fields = Assigned(@, record.sets)]
             t == Noted(s, record)
  <1>1. /\ \A i \in 1 .. n + 1 : i \in 1 .. n \/ i = n + 1
        /\ \A i \in 1 .. n : i \in 1 .. n + 1
        /\ n + 1 \in 1 .. n + 1
    OBVIOUS
  <1>2. /\ pk \in DOMAIN rows /\ rows[pk].id = record.id
        /\ \A k \in DOMAIN rows : k # pk => rows[k].id # record.id
    BY RowFound DEF TypeOK, OneRowEach
  <1>3. /\ t.added = s.added
        /\ DOMAIN t.known = DOMAIN s.known \cup {pk}
        /\ t.known[pk] = noted
        /\ \A k \in DOMAIN s.known : k # pk => t.known[k] = s.known[k]
    BY DEF Noted, IsSession
  <1>4. /\ object.loaded = rows[pk].fields
        /\ noted.loaded = object.loaded
        /\ \A field \in Fields : noted.fields[field] =
              IF field \in DOMAIN record.sets THEN record.sets[field] ELSE object.fields[field]
    <2>1. object \in Object
      <3>1. rows[pk] \in Row
        BY <1>2 DEF TypeOK
      <3> QED
        BY <3>1 DEF IsSession, Object, Row
    <2>2. object.loaded = rows[pk].fields
      BY DEF KnowsFirst, LookedUp
    <2> HIDE DEF object
    <2> QED
      BY <2>1, <2>2 DEF Object, Assigned
  <1>5. /\ \A id, field : Given(f, id, field) \subseteq Nat
        /\ \A id, field : \A i \in Given(f, id, field) : f.records[i].id = id
        /\ \A id, field : n + 1 \in Given(f, id, field)
              <=> id = record.id /\ field \in DOMAIN record.sets
    BY DEF Given
  <1>6. pk \notin DOMAIN s.known =>
            /\ object.fields = rows[pk].fields
            /\ \A i \in 1 .. n : \A field : i \notin Given(f, rows[pk].id, field)
    <2> SUFFICES ASSUME pk \notin DOMAIN s.known
                 PROVE  /\ object.fields = rows[pk].fields
                        /\ \A i \in 1 .. n : \A field : i \notin Given(f, rows[pk].id, field)
      OBVIOUS
    <2>1. \A i \in 1 .. n : f.records[i].id # record.id
      BY DEF KnowsFirst, LookedUp
    <2> QED
      BY <1>2, <1>5, <2>1
  <1>7. pk \in DOMAIN s.known => object = s.known[pk]
    OBVIOUS
  <1> HIDE DEF t, noted, object
  <1>8. AddsFirst(t, f, n + 1)
    <2>1. \A i \in 1 .. n + 1 : RowOf(f.records[i].id) = 0 => i \in 1 .. n
      BY <1>1
    <2> QED
      BY <1>1, <1>3, <2>1 DEF AddsFirst, LookedUp
  <1> HIDE DEF pk
  <1>9. ASSUME NEW k \in DOMAIN t.known, NEW field \in Fields
        PROVE  /\ \A i \in 1 .. n + 1 :
                     LastOf(f, rows[k].id, field, n + 1, i) =>
                         t.known[k].fields[field] = f.records[i].sets[field]
               /\ (\A i \in 1 .. n + 1 : i \notin Given(f, rows[k].id, field)) =>
                     t.known[k].fields[field] = rows[k].fields[field]
    <2>1. CASE k = pk /\ field \in DOMAIN record.sets
      <3>1. n + 1 \in Given(f, rows[k].id, field)
        BY <1>2, <1>5, <2>1
      <3>2. t.known[k].fields[field] = record.sets[field]
        BY <1>3, <1>4, <2>1
      <3>3. \A i \in 1 .. n + 1 : LastOf(f, rows[k].id, field, n + 1, i) => i = n + 1
        BY <3>1 DEF LastOf
      <3> QED
        BY <1>1, <3>1, <3>2, <3>3
    <2>2. CASE ~ (k = pk /\ field \in DOMAIN record.sets)
      <3>1. n + 1 \notin Given(f, rows[k].id, field)
        <4>1. k # pk => rows[k].id # record.id
          BY <1>2, <1>3 DEF KnowsFirst, LookedUp
        <4> QED
          BY <1>5, <2>2, <4>1
      <3>2. \A i \in 1 .. n + 1 :
                LastOf(f, rows[k].id, field, n + 1, i) =>
                    i \in 1 .. n /\ LastOf(f, rows[k].id, field, n, i)
        BY <1>1, <1>5, <3>1 DEF LastOf
      <3>3. CASE k \in DOMAIN s.known
        <4>1. t.known[k].fields[field] = s.known[k].fields[field]
          BY <1>3, <1>4, <1>7, <2>2, <3>3
        <4> QED
          BY <1>1, <3>2, <3>3, <4>1 DEF KnowsFirst, LookedUp
      <3>4. CASE k \notin DOMAIN s.known
        <4>1. k = pk /\ t.known[k].fields[field] = rows[k].fields[field]
          BY <1>3, <1>4, <1>6, <2>2, <3>4
        <4>2. \A i \in 1 .. n : i \notin Given(f, rows[k].id, field)
          BY <1>6, <3>4, <4>1
        <4> QED
          BY <3>2, <4>1, <4>2 DEF LastOf
      <3> QED
        BY <3>3, <3>4
    <2> QED
      BY <2>1, <2>2
  <1>10. \A k \in DOMAIN t.known : k \in DOMAIN rows /\ t.known[k].loaded = rows[k].fields
    BY <1>2, <1>3, <1>4 DEF KnowsFirst, LookedUp
  <1>11. ASSUME NEW i \in 1 .. n + 1, f.records[i].id # Null, RowOf(f.records[i].id) # 0
         PROVE  RowOf(f.records[i].id) \in DOMAIN t.known
    <2>1. CASE i \in 1 .. n
      BY <1>3, <1>11, <2>1 DEF KnowsFirst, LookedUp
    <2>2. CASE i = n + 1
      BY <1>3, <2>2 DEF pk
    <2> QED
      BY <1>1, <2>1, <2>2
  <1>12. KnowsFirst(t, f, n + 1)
    BY <1>9, <1>10, <1>11 DEF KnowsFirst
  <1> QED
    BY <1>8, <1>12 DEF LookedUp, t

\* Where a field is given at all, it is given last somewhere.
LEMMA LastExists ==
    ASSUME NEW f, f.records \in Seq(Record), NEW id, NEW field, Given(f, id, field) # {}
    PROVE  \E i \in Given(f, id, field) :
              /\ LastOf(f, id, field, Len(f.records), i)
              /\ LastGiven(f, id, field) = f.records[i].sets[field]
  <1> DEFINE given == Given(f, id, field)
             S == {n \in Nat : (\E i \in given : i <= n) =>
                      \E i \in given : i <= n /\ \A j \in given : j <= n => j <= i}
  <1>1. given \subseteq 1 .. Len(f.records) /\ Len(f.records) \in Nat
    BY DEF Given
  <1> HIDE DEF given
  <1>2. 0 \in S
    BY <1>1
  <1>3. ASSUME NEW n \in Nat, n \in S
        PROVE  n + 1 \in S
    <2>1. CASE n + 1 \in given
      <3>1. \A j \in given : j <= n + 1 => j <= n + 1
        OBVIOUS
      <3> QED
        BY <2>1, <3>1
    <2>2. CASE n + 1 \notin given
      <3>1. \A j \in given : j <= n + 1 <=> j <= n
        BY <1>1, <2>2
      <3> QED
        BY <1>3, <3>1
    <2> QED
      BY <2>1, <2>2
  <1> HIDE DEF S
  <1>4. Nat \subseteq S
    BY <1>2, <1>3, NaturalInduction
  <1>5. \E i \in given : \A j \in given : j <= i
    <2>1. Len(f.records) \in S
      BY <1>1, <1>4
    <2>2. \A i \in given : i <= Len(f.records)
      BY <1>1
    <2> QED
      BY <2>1, <2>2 DEF S, given
  <1> DEFINE last == CHOOSE i \in given : \A j \in given : j <= i
  <1>6. last \in given /\ \A j \in given : j <= last
    BY <1>5
  <1>7. LastGiven(f, id, field) = f.records[last].sets[field]
    BY DEF LastGiven, given
  <1> HIDE DEF last
  <1> QED
    BY <1>6, <1>7 DEF LastOf, given

\* The rows after a commit: those there were, updated, and those added.
LEMMA CommittedRows ==
    ASSUME rows \in Seq(Row), NEW s, IsSession(s)
    PROVE  /\ DOMAIN rows = 1 .. Len(rows) /\ Len(rows) \in Nat
           /\ \A k \in DOMAIN rows :
                 /\ k \in DOMAIN (Updated(s) \o s.added)
                 /\ (Updated(s) \o s.added)[k] = Updated(s)[k]
           /\ \A j \in DOMAIN s.added :
                 /\ Len(rows) + j \in DOMAIN (Updated(s) \o s.added)
                 /\ (Updated(s) \o s.added)[Len(rows) + j] = s.added[j]
           /\ \A k \in DOMAIN (Updated(s) \o s.added) : k \notin DOMAIN rows =>
                 \E j \in DOMAIN s.added : k = Len(rows) + j
  <1> DEFINE old == Updated(s)
             all == old \o s.added
             V == {old[k] : k \in DOMAIN rows} \cup Row
  <1>1. /\ DOMAIN rows = 1 .. Len(rows) /\ Len(rows) \in Nat
        /\ s.added \in Seq(Row) /\ Len(s.added) \in Nat
        /\ DOMAIN s.added = 1 .. Len(s.added)
    BY DEF IsSession
  <1>2. old \in [1 .. Len(rows) -> V]
    BY <1>1 DEF Updated
  <1> HIDE DEF old, V
  <1>3. old \in Seq(V) /\ Len(old) = Len(rows)
    BY <1>1, <1>2
  <1>4. /\ Len(all) = Len(rows) + Len(s.added)
        /\ DOMAIN all = 1 .. Len(rows) + Len(s.added)
        /\ \A k \in 1 .. Len(rows) : all[k] = old[k]
        /\ \A k \in 1 .. Len(rows) + Len(s.added) : k > Len(rows) =>
              all[k] = s.added[k - Len(rows)]
    BY <1>1, <1>3
  <1> HIDE DEF all
  <1>5. \A k \in DOMAIN rows : k \in DOMAIN all /\ all[k] = old[k]
    BY <1>1, <1>4
  <1>6. \A j \in DOMAIN s.added : Len(rows) + j \in DOMAIN all /\ all[Len(rows) + j] = s.added[j]
    BY <1>1, <1>4
  <1>7. \A k \in DOMAIN all : k \notin DOMAIN rows =>
            k - Len(rows) \in DOMAIN s.added /\ k = Len(rows) + (k - Len(rows))
    BY <1>1, <1>4
  <1> QED
    BY <1>1, <1>5, <1>6, <1>7 DEF all, old

\* The value a commit is to store.
Wanted(f, id, field) ==
    IF RowOf(id) # 0 THEN Latest(f, id, field, rows[RowOf(id)].fields[field])
    ELSE Default(field, Latest(f, id, field, Null))

\* What a row that was there becomes.
LEMMA UpdatedAsWanted ==
    ASSUME TypeOK, OneRowEach(rows), NEW s, IsSession(s), NEW f, f.records \in Seq(Record),
           LookedUp(s, f, Len(f.records)), NEW k \in DOMAIN rows
    PROVE  /\ Updated(s)[k].id = rows[k].id
           /\ \A field \in Fields : Updated(s)[k].fields[field] = Wanted(f, rows[k].id, field)
  <1> DEFINE id == rows[k].id
             n == Len(f.records)
  <1>1. RowOf(id) = k /\ k # 0 /\ rows[k] \in Row /\ id # Null
    <2>1. rows \in Seq(Row) /\ rows[k] \in Row /\ k # 0
      BY DEF TypeOK
    <2>2. \A j \in DOMAIN rows : rows[j].id = id => j = k
      BY DEF OneRowEach
    <2>3. RowOf(id) = k
      BY <2>1, <2>2, RowFound
    <2> QED
      BY <2>1, <2>3, DatabaseAssumption DEF Row
  <1>2. /\ DOMAIN f.records = 1 .. n
        /\ \A field : Given(f, id, field) \subseteq 1 .. n
    BY DEF Given
  <1>3. CASE k \notin DOMAIN s.known
    <2>1. \A i \in 1 .. n : f.records[i].id # id
      BY <1>1, <1>3 DEF LookedUp, KnowsFirst
    <2>2. \A field : Given(f, id, field) = {}
      BY <1>2, <2>1 DEF Given
    <2>3. Updated(s)[k] = rows[k]
      BY <1>3 DEF Updated, Updates
    <2> QED
      BY <1>1, <2>2, <2>3 DEF Wanted, Latest
  <1>4. CASE k \in DOMAIN s.known
    <2>1. ASSUME NEW field \in Fields
          PROVE  s.known[k].fields[field] = Wanted(f, id, field)
      <3>1. CASE Given(f, id, field) # {}
        <4>1. PICK i \in Given(f, id, field) :
                  /\ LastOf(f, id, field, n, i)
                  /\ LastGiven(f, id, field) = f.records[i].sets[field]
          BY <3>1, LastExists
        <4>2. i \in 1 .. n
          BY <1>2
        <4> QED
          BY <1>1, <1>4, <3>1, <4>1, <4>2 DEF LookedUp, KnowsFirst, Wanted, Latest
      <3>2. CASE Given(f, id, field) = {}
        BY <1>1, <1>4, <3>2 DEF LookedUp, KnowsFirst, Wanted, Latest
      <3> QED
        BY <3>1, <3>2
    <2>2. s.known[k].loaded = rows[k].fields
      BY <1>4 DEF LookedUp, KnowsFirst
    <2>3. CASE k \in Updates(s)
      <3> DEFINE fields == [g \in Fields |->
                              IF g \in Changed(s.known[k]) THEN s.known[k].fields[g]
                              ELSE rows[k].fields[g]]
      <3>1. Updated(s)[k] = [rows[k] EXCEPT !.fields = fields]
        BY <2>3 DEF Updated
      <3>2. \A field \in Fields : fields[field] = s.known[k].fields[field]
        BY <2>2 DEF Changed
      <3> HIDE DEF fields
      <3>3. Updated(s)[k].fields = fields /\ Updated(s)[k].id = id
        BY <1>1, <3>1 DEF Row
      <3> QED
        BY <2>1, <3>2, <3>3
    <2>4. CASE k \notin Updates(s)
      <3>1. \A field \in Fields : s.known[k].fields[field] = rows[k].fields[field]
        BY <1>4, <2>2, <2>4 DEF Updates, Changed
      <3>2. Updated(s)[k] = rows[k]
        BY <2>4 DEF Updated
      <3> QED
        BY <2>1, <3>1, <3>2
    <2> QED
      BY <2>3, <2>4
  <1> QED
    BY <1>3, <1>4

\* What a row that is added holds.
LEMMA AddedAsWanted ==
    ASSUME TypeOK, NEW s, IsSession(s), NEW f, f.records \in Seq(Record),
           LookedUp(s, f, Len(f.records)), OneRowEach(s.added), NEW j \in DOMAIN s.added
    PROVE  /\ \E i \in DOMAIN f.records : f.records[i].id = s.added[j].id
           /\ \A field \in Fields :
                 s.added[j].fields[field] = Wanted(f, s.added[j].id, field)
  <1> DEFINE id == s.added[j].id
             n == Len(f.records)
  <1>1. /\ DOMAIN f.records = 1 .. n
        /\ \A field : Given(f, id, field) \subseteq 1 .. n
    BY DEF Given
  <1>2. PICK i \in 1 .. n : From(s.added[j], f.records[i])
    BY DEF LookedUp, AddsFirst
  <1>3. RowOf(id) = 0
    BY DEF LookedUp, AddsFirst
  <1>4. f.records[i].id = id /\ id # Null
    <2>1. s.added[j] \in Row
      BY DEF IsSession
    <2> QED
      BY <1>2, <2>1, DatabaseAssumption DEF From, Row
  <1>5. \A l \in DOMAIN s.added : s.added[l].id = id => l = j
    BY DEF OneRowEach
  <1>6. \A l \in 1 .. n : f.records[l].id = id => From(s.added[j], f.records[l])
    <2> SUFFICES ASSUME NEW l \in 1 .. n, f.records[l].id = id
                 PROVE  From(s.added[j], f.records[l])
      OBVIOUS
    <2>1. PICK m \in DOMAIN s.added : From(s.added[m], f.records[l])
      BY <1>3, <1>4 DEF LookedUp, AddsFirst
    <2>2. m = j
      BY <1>5, <2>1 DEF From
    <2> QED
      BY <2>1, <2>2
  <1>7. ASSUME NEW field \in Fields
        PROVE  s.added[j].fields[field] = Wanted(f, id, field)
    <2>1. CASE Given(f, id, field) # {}
      <3>1. PICK l \in Given(f, id, field) :
                LastGiven(f, id, field) = f.records[l].sets[field]
        BY <2>1, LastExists
      <3>2. /\ l \in 1 .. n /\ f.records[l].id = id
            /\ field \in DOMAIN f.records[l].sets
        BY <1>1, <3>1 DEF Given
      <3>3. s.added[j].fields = Inserted(f.records[l].sets)
        BY <1>6, <3>2 DEF From
      <3>4. s.added[j].fields[field] = Default(field, f.records[l].sets[field])
        BY <3>2, <3>3 DEF Inserted, Assigned
      <3> QED
        BY <1>3, <2>1, <3>1, <3>4 DEF Wanted, Latest
    <2>2. CASE Given(f, id, field) = {}
      <3>1. field \notin DOMAIN f.records[i].sets
        BY <1>1, <1>4, <2>2 DEF Given
      <3>2. s.added[j].fields[field] = Default(field, Null)
        BY <1>2, <3>1 DEF From, Inserted, Assigned, Unset
      <3> QED
        BY <1>3, <2>2, <3>2 DEF Wanted, Latest
    <2> QED
      BY <2>1, <2>2
  <1> QED
    BY <1>1, <1>4, <1>7

\* The rows a commit writes.
Written(s) == Updated(s) \o s.added

\* Where each device has one row after a commit, it had one before, and none
\* was added twice.
LEMMA WrittenOnce ==
    ASSUME rows \in Seq(Row), NEW s, IsSession(s), OneRowEach(Written(s))
    PROVE  OneRowEach(rows) /\ OneRowEach(s.added)
  <1> DEFINE new == Written(s)
  <1>0. new = Updated(s) \o s.added
    BY DEF Written
  <1>1. \A k \in DOMAIN rows : Updated(s)[k].id = rows[k].id
    <2> SUFFICES ASSUME NEW k \in DOMAIN rows
                 PROVE  Updated(s)[k].id = rows[k].id
      OBVIOUS
    <2>1. rows[k] \in Row
      OBVIOUS
    <2> QED
      BY <2>1 DEF Updated, Row
  <1> HIDE DEF new
  <1>2. /\ DOMAIN rows = 1 .. Len(rows) /\ Len(rows) \in Nat
        /\ \A k \in DOMAIN rows : k \in DOMAIN new /\ new[k] = Updated(s)[k]
        /\ \A j \in DOMAIN s.added :
              Len(rows) + j \in DOMAIN new /\ new[Len(rows) + j] = s.added[j]
    BY <1>0, CommittedRows
  <1>3. \A j, k \in DOMAIN new : new[j].id = new[k].id => j = k
    BY DEF OneRowEach, new
  <1>4. OneRowEach(rows)
    BY <1>1, <1>2, <1>3 DEF OneRowEach
  <1>5. OneRowEach(s.added)
    <2> SUFFICES ASSUME NEW j \in DOMAIN s.added, NEW k \in DOMAIN s.added,
                        s.added[j].id = s.added[k].id
                 PROVE  j = k
      BY DEF OneRowEach
    <2>1. Len(rows) + j = Len(rows) + k
      BY <1>2, <1>3
    <2>2. j \in Nat /\ k \in Nat
      BY DEF IsSession
    <2> QED
      BY <1>2, <2>1, <2>2
  <1> QED
    BY <1>4, <1>5

\* Does a table have the row the file asks for, if it asks for one?
Holds(table_, f, id) ==
    /\ (\E k \in DOMAIN table_ : table_[k].id = id) <=>
          \/ RowOf(id) # 0
          \/ \E i \in DOMAIN f.records : f.records[i].id = id
    /\ \A k \in DOMAIN table_ : table_[k].id = id =>
          \A field \in Fields : table_[k].fields[field] = Wanted(f, id, field)

\* A commit that leaves one row for each device stores what the file says.
LEMMA CommitAsWanted ==
    ASSUME TypeOK, NEW s, IsSession(s), NEW f, f.records \in Seq(Record),
           LookedUp(s, f, Len(f.records)), OneRowEach(Written(s)), NEW id \in Ids
    PROVE  Holds(Written(s), f, id)
  <1> DEFINE new == Written(s)
  <1>5. OneRowEach(rows) /\ OneRowEach(s.added)
    BY WrittenOnce DEF TypeOK
  <1> SUFFICES /\ (\E k \in DOMAIN new : new[k].id = id) <=>
                     \/ RowOf(id) # 0
                     \/ \E i \in DOMAIN f.records : f.records[i].id = id
               /\ \A k \in DOMAIN new : new[k].id = id =>
                     \A field \in Fields : new[k].fields[field] = Wanted(f, id, field)
    BY DEF Holds
  <1>0. new = Updated(s) \o s.added
    BY DEF Written
  <1> HIDE DEF new
  <1>1. /\ DOMAIN rows = 1 .. Len(rows) /\ Len(rows) \in Nat
        /\ \A k \in DOMAIN rows : k \in DOMAIN new /\ new[k] = Updated(s)[k]
        /\ \A j \in DOMAIN s.added :
              Len(rows) + j \in DOMAIN new /\ new[Len(rows) + j] = s.added[j]
        /\ \A k \in DOMAIN new : k \notin DOMAIN rows =>
              \E j \in DOMAIN s.added : k = Len(rows) + j
    BY <1>0, CommittedRows DEF TypeOK
  <1>2. ASSUME NEW k \in DOMAIN new, new[k].id = id
        PROVE  /\ RowOf(id) # 0 \/ \E i \in DOMAIN f.records : f.records[i].id = id
               /\ \A field \in Fields : new[k].fields[field] = Wanted(f, id, field)
    <2>1. CASE k \in DOMAIN rows
      <3>1. rows[k].id = id /\ new[k] = Updated(s)[k]
        BY <1>1, <1>2, <1>5, <2>1, UpdatedAsWanted
      <3>2. RowOf(id) # 0
        BY <2>1, <3>1, RowFound DEF TypeOK
      <3> QED
        BY <1>5, <2>1, <3>1, <3>2, UpdatedAsWanted
    <2>2. CASE k \notin DOMAIN rows
      <3>1. PICK j \in DOMAIN s.added : new[k] = s.added[j]
        BY <1>1, <2>2
      <3> QED
        <4>1. s.added[j].id = id
          BY <1>2, <3>1
        <4>2. /\ \E i \in DOMAIN f.records : f.records[i].id = s.added[j].id
              /\ \A field \in Fields :
                    s.added[j].fields[field] = Wanted(f, s.added[j].id, field)
          BY <1>5, AddedAsWanted
        <4> QED
          BY <3>1, <4>1, <4>2
    <2> QED
      BY <2>1, <2>2
  <1>3. ASSUME RowOf(id) # 0
        PROVE  \E k \in DOMAIN new : new[k].id = id
    <2>1. RowOf(id) \in DOMAIN rows /\ rows[RowOf(id)].id = id
      BY <1>3, RowFound DEF TypeOK
    <2> QED
      BY <1>1, <1>5, <2>1, UpdatedAsWanted
  <1>4. ASSUME RowOf(id) = 0, NEW i \in DOMAIN f.records, f.records[i].id = id
        PROVE  \E k \in DOMAIN new : new[k].id = id
    <2>1. PICK j \in DOMAIN s.added : From(s.added[j], f.records[i])
      <3>1. id # Null /\ i \in 1 .. Len(f.records)
        BY DatabaseAssumption
      <3> QED
        BY <1>4, <3>1 DEF LookedUp, AddsFirst
    <2>2. s.added[j].id = id
      BY <1>4, <2>1 DEF From
    <2>3. Len(rows) + j \in DOMAIN new /\ new[Len(rows) + j] = s.added[j]
      BY <1>1
    <2> QED
      BY <2>2, <2>3
  <1> QED
    BY <1>2, <1>3, <1>4

----------------------------------------------------------------------------
(* With one seeder. *)

LookedUpBy(p) == Len(file[p].records) - Len(todo[p])

\* Where a seeding stands: the records it has yet to look up are the rest of
\* the file, and its session is what the others make it, unless devices have
\* two rows.
Progress(p) ==
    /\ LookedUpBy(p) \in Nat
    /\ \A i \in DOMAIN todo[p] : todo[p][i] = file[p].records[LookedUpBy(p) + i]
    /\ OneRowEach(rows) => LookedUp(session[p], file[p], LookedUpBy(p))

\* A table that holds what the file says, unless it was not seeded.
Stored(f, table_) ==
    \A i \in DOMAIN f.records : f.records[i].id # Null =>
        \E k \in DOMAIN table_ :
            /\ table_[k].id = f.records[i].id
            /\ \A field \in Fields :
                  Given(f, f.records[i].id, field) # {} =>
                      table_[k].fields[field] =
                          Default(field, LastGiven(f, f.records[i].id, field))

\* The inductive invariant for the contents of the table.
SeedIInv ==
    /\ DOMAIN file = Procs
    /\ \A p \in Procs : file[p].records \in Seq(Record)
    /\ \A p \in Seeders :
          /\ pc[p] \in {"find", "drop", "check", "create", "index", "load"} => session[p] = NoSession
          /\ pc[p] = "lookup" => Progress(p)
    /\ seeded # NothingSeeded /\ OneRowEach(seeded.rows) => Stored(seeded.file, seeded.rows)

LEMMA ProgressKept ==
    ASSUME NEW p, Progress(p), rows' = rows, todo'[p] = todo[p], file'[p] = file[p],
           session'[p] = session[p]
    PROVE  Progress(p)'
  <1>1. LookedUpBy(p)' = LookedUpBy(p)
    BY DEF LookedUpBy
  <1>2. OneRowEach(rows)' => LookedUp(session[p], file[p], LookedUpBy(p))'
    <2> DEFINE s == session[p]
               f == file[p]
               n == LookedUpBy(p)
    <2>1. s' = s /\ f' = f /\ n' = n
      BY <1>1
    <2>2. OneRowEach(rows) => LookedUp(s, f, n)
      BY DEF Progress
    <2> QED
      BY <2>1, <2>2 DEF OneRowEach, LookedUp, AddsFirst, KnowsFirst, RowOf
  <1> QED
    BY <1>1, <1>2 DEF Progress

\* A lookup is the next record of the file.
LEMMA ProgressLookup ==
    ASSUME TypeOK, SeedIInv, NEW p \in Seeders, Lookup(p), pc'[p] = "lookup"
    PROVE  Progress(p)'
  <1> DEFINE f == file[p]
             n == LookedUpBy(p)
             s == session[p]
             record == Head(todo[p])
  <1>1. p \in Procs /\ pc[p] = "lookup" /\ todo[p] # <<>>
    BY DEF Lookup, Procs
  <1>2. /\ todo[p] \in Seq(Record) /\ f.records \in Seq(Record) /\ IsSession(s)
        /\ rows \in Seq(Row)
    BY <1>1 DEF TypeOK, SeedIInv
  <1>3. /\ n \in Nat /\ (OneRowEach(rows) => LookedUp(s, f, n))
        /\ \A i \in DOMAIN todo[p] : todo[p][i] = f.records[n + i]
        /\ n = Len(f.records) - Len(todo[p])
    BY <1>1 DEF SeedIInv, Progress, LookedUpBy
  <1>4. /\ DOMAIN todo[p] = 1 .. Len(todo[p]) /\ Len(todo[p]) \in Nat \ {0}
        /\ record = todo[p][1] /\ Len(Tail(todo[p])) = Len(todo[p]) - 1
        /\ DOMAIN Tail(todo[p]) = 1 .. Len(todo[p]) - 1
        /\ \A i \in DOMAIN Tail(todo[p]) :
              i + 1 \in DOMAIN todo[p] /\ Tail(todo[p])[i] = todo[p][i + 1]
        /\ DOMAIN f.records = 1 .. Len(f.records) /\ Len(f.records) \in Nat
    BY <1>1, <1>2
  <1> DEFINE most == Len(f.records)
             left == Len(todo[p])
  <1>5. n + 1 \in DOMAIN f.records /\ record = f.records[n + 1]
    <2>1. /\ n \in Nat /\ most \in Nat /\ left \in Nat \ {0} /\ n = most - left
          /\ DOMAIN f.records = 1 .. most /\ 1 \in DOMAIN todo[p]
      BY <1>3, <1>4
    <2> HIDE DEF most, left, n
    <2>2. n + 1 \in 1 .. most
      BY <2>1
    <2> QED
      BY <1>3, <1>4, <2>1, <2>2
  <1>6. /\ rows' = rows /\ file' = file /\ todo'[p] = Tail(todo[p])
        /\ IF record.id = Null THEN session'[p] = s ELSE session'[p] = Noted(s, record)
    BY <1>1 DEF Lookup, Goto, table, history, TypeOK
  <1>7. LookedUpBy(p)' = n + 1
    <2>1. LookedUpBy(p)' = most - (left - 1)
      BY <1>4, <1>6 DEF LookedUpBy
    <2>2. n = most - left /\ most \in Nat /\ left \in Nat
      BY <1>3, <1>4
    <2> HIDE DEF most, left, n
    <2> QED
      BY <2>1, <2>2
  <1>8. \A i \in DOMAIN todo'[p] : todo'[p][i] = f.records[(n + 1) + i]
    <2> SUFFICES ASSUME NEW i \in DOMAIN Tail(todo[p])
                 PROVE  Tail(todo[p])[i] = f.records[(n + 1) + i]
      BY <1>6
    <2>1. /\ i + 1 \in DOMAIN todo[p] /\ Tail(todo[p])[i] = todo[p][i + 1]
          /\ i \in Int /\ n \in Int
      BY <1>3, <1>4
    <2>2. todo[p][i + 1] = f.records[n + (i + 1)]
      BY <1>3, <2>1
    <2> HIDE DEF n
    <2>3. n + (i + 1) = (n + 1) + i
      BY <2>1
    <2> QED
      BY <2>1, <2>2, <2>3
  <1> DEFINE t == session'[p]
  <1> HIDE DEF f, n, s, record, t
  <1>9. ASSUME OneRowEach(rows)
        PROVE  LookedUp(t, f, n + 1)
    <2>0. LookedUp(s, f, n)
      BY <1>3, <1>9
    <2>1. CASE record.id = Null
      BY <1>2, <1>3, <1>5, <1>6, <1>9, <2>0, <2>1, LookedUpSkipped DEF t
    <2>2. CASE record.id # Null /\ RowOf(record.id) = 0
      <3>1. t = Added(s, record)
        BY <1>6, <2>2 DEF Noted, t
      <3> QED
        BY <1>2, <1>3, <1>5, <1>9, <2>0, <2>2, <3>1, LookedUpNew
    <2>3. CASE record.id # Null /\ RowOf(record.id) # 0
      BY <1>2, <1>3, <1>5, <1>6, <1>9, <2>0, <2>3, LookedUpFound DEF t
    <2> QED
      BY <2>1, <2>2, <2>3
  <1>10. OneRowEach(rows)' => LookedUp(session[p], file[p], LookedUpBy(p))'
    <2>1. session'[p] = t /\ file'[p] = f /\ LookedUpBy(p)' = n + 1
      BY <1>6, <1>7 DEF t, f
    <2> QED
      BY <1>6, <1>9, <2>1 DEF OneRowEach, LookedUp, AddsFirst, KnowsFirst, RowOf
  <1>11. n + 1 \in Nat
    BY <1>3
  <1>12. file' = file
    BY <1>6
  <1> QED
    BY <1>7, <1>8, <1>10, <1>11, <1>12 DEF Progress, f

\* The commit of a seeder: its session is what the whole file makes it.
LEMMA CommitOfFile ==
    ASSUME TypeOK, SeedIInv, NEW p \in Seeders, Commit(p)
    PROVE  /\ p \in Procs /\ IsSession(session[p])
           /\ file[p].records \in Seq(Record)
           /\ OneRowEach(rows) => LookedUp(session[p], file[p], Len(file[p].records))
  <1>1. p \in Procs /\ pc[p] = "lookup" /\ todo[p] = <<>>
    BY DEF Commit, Procs
  <1>2. file[p].records \in Seq(Record) /\ IsSession(session[p])
    BY <1>1 DEF TypeOK, SeedIInv
  <1>3. LookedUpBy(p) = Len(file[p].records)
    BY <1>1, <1>2 DEF LookedUpBy
  <1>4. OneRowEach(rows) => LookedUp(session[p], file[p], LookedUpBy(p))
    BY <1>1 DEF SeedIInv, Progress
  <1> QED
    BY <1>1, <1>2, <1>3, <1>4

LEMMA CommitStored ==
    ASSUME TypeOK, NEW s, IsSession(s), NEW f, f.records \in Seq(Record),
           LookedUp(s, f, Len(f.records)), ~ Conflict(s), OneRowEach(Written(s))
    PROVE  Stored(f, Written(s))
  <1> DEFINE new == Written(s)
  <1> SUFFICES ASSUME NEW i \in DOMAIN f.records, f.records[i].id # Null
               PROVE  \E k \in DOMAIN new :
                         /\ new[k].id = f.records[i].id
                         /\ \A field \in Fields :
                               Given(f, f.records[i].id, field) # {} =>
                                   new[k].fields[field] =
                                       Default(field, LastGiven(f, f.records[i].id, field))
    BY DEF Stored
  <1> DEFINE id == f.records[i].id
  <1>1. id \in Ids
    <2>1. f.records[i] \in Record
      OBVIOUS
    <2> QED
      BY <2>1 DEF Record
  <1>2. \E j \in DOMAIN f.records : f.records[j].id = id
    OBVIOUS
  <1>3. Tabular(Written(s))
    BY CommitTabular DEF TypeOK, Tabular, Written
  <1> HIDE DEF id, new
  <1>4. /\ \E k \in DOMAIN new : new[k].id = id
        /\ \A k \in DOMAIN new : new[k].id = id =>
              \A field \in Fields : new[k].fields[field] = Wanted(f, id, field)
    <2>1. Holds(new, f, id)
      BY <1>1, CommitAsWanted DEF new
    <2> QED
      BY <1>2, <2>1 DEF Holds
  <1>5. PICK k \in DOMAIN new : new[k].id = id
    BY <1>4
  <1>6. ASSUME NEW field \in Fields, Given(f, id, field) # {}
        PROVE  new[k].fields[field] = Default(field, LastGiven(f, id, field))
    <2>1. new[k].fields[field] = Wanted(f, id, field)
      BY <1>4, <1>5
    <2>2. CASE RowOf(id) = 0
      BY <1>6, <2>1, <2>2 DEF Wanted, Latest
    <2>3. CASE RowOf(id) # 0
      <3>1. new[k].fields[field] = LastGiven(f, id, field)
        BY <1>6, <2>1, <2>3 DEF Wanted, Latest
      <3>2. field = "status" => new[k].fields[field] # Null
        BY <1>3, <1>5 DEF Tabular, Required, new
      <3> QED
        BY <3>1, <3>2 DEF Default
    <2> QED
      BY <2>2, <2>3
  <1> QED
    BY <1>5, <1>6 DEF id

LEMMA CommitSeeds ==
    ASSUME TypeOK, SeedIInv, NEW p \in Seeders, Commit(p), ~ Conflict(session[p]),
           OneRowEach(rows')
    PROVE  Stored(file[p], rows')
  <1>1. rows' = Written(session[p])
    BY DEF Commit, Written
  <1>2. IsSession(session[p]) /\ file[p].records \in Seq(Record)
    BY CommitOfFile
  <1>3. OneRowEach(Written(session[p]))
    BY <1>1 DEF OneRowEach
  <1>4. OneRowEach(rows)
    BY <1>2, <1>3, WrittenOnce DEF TypeOK
  <1>5. LookedUp(session[p], file[p], Len(file[p].records))
    BY <1>4, CommitOfFile
  <1> QED
    BY <1>1, <1>2, <1>3, <1>5, CommitStored

LEMMA SeedKept ==
    ASSUME OneSeeder, TypeOK, DatabaseIInv, SeedIInv, [Next]_vars
    PROVE  SeedIInv'
  <1> USE DEF Goto, table, local, history
  <1> DEFINE Same(q) == /\ session'[q] = session[q] /\ file'[q] = file[q]
                        /\ todo'[q] = todo[q] /\ rows' = rows
  <1>1. \A q \in Seeders : q \in Procs
    BY DEF Procs
  <1>2. ASSUME NEW q \in Seeders, Same(q),
               pc'[q] \in {"find", "drop", "check", "create", "index", "load"} =>
                   pc[q] \in {"find", "drop", "check", "create", "index", "load"},
               pc'[q] = "lookup" => pc[q] = "lookup"
        PROVE  /\ pc'[q] \in {"find", "drop", "check", "create", "index", "load"}
                      => session'[q] = NoSession
               /\ pc'[q] = "lookup" => Progress(q)'
    BY <1>2, ProgressKept DEF SeedIInv
  <1>3. CASE UNCHANGED vars
    <2>1. \A q \in Seeders : Same(q) /\ pc'[q] = pc[q]
      BY <1>3 DEF vars
    <2> HIDE DEF Same
    <2>2. \A q \in Seeders :
             /\ pc'[q] \in {"find", "drop", "check", "create", "index", "load"}
                    => session'[q] = NoSession
             /\ pc'[q] = "lookup" => Progress(q)'
      BY <1>2, <2>1
    <2> QED
      BY <1>3, <2>2 DEF vars, SeedIInv
  <1>4. ASSUME NEW id \in Ids, ReadDevice(id)
        PROVE  SeedIInv'
    <2>1. \A q \in Seeders : Same(q) /\ pc'[q] = pc[q]
      BY <1>4 DEF ReadDevice
    <2> HIDE DEF Same
    <2>2. \A q \in Seeders :
             /\ pc'[q] \in {"find", "drop", "check", "create", "index", "load"}
                    => session'[q] = NoSession
             /\ pc'[q] = "lookup" => Progress(q)'
      BY <1>2, <2>1
    <2> QED
      BY <1>4, <2>2 DEF ReadDevice, SeedIInv
  <1>5. ASSUME NEW p \in Procs, NEW o \in Options, Start(p, o)
        PROVE  SeedIInv'
    <2>1. ASSUME NEW q \in Seeders
          PROVE  /\ pc'[q] \in {"find", "drop", "check", "create", "index", "load"}
                        => session'[q] = NoSession
                 /\ pc'[q] = "lookup" => Progress(q)'
      <3>1. CASE q = p
        BY <1>1, <1>5, <3>1 DEF Start, TypeOK
      <3>2. CASE q # p
        <4>1. Same(q) /\ pc'[q] = pc[q]
          BY <1>1, <1>5, <3>2 DEF Start, TypeOK, SeedIInv
        <4> HIDE DEF Same
        <4> QED
          BY <1>2, <4>1
      <3> QED
        BY <3>1, <3>2
    <2>2. /\ DOMAIN file' = Procs
          /\ \A q \in Procs : file'[q].records \in Seq(Record)
      BY <1>5 DEF Start, SeedIInv, NoFile
    <2> QED
      BY <1>5, <2>1, <2>2 DEF Start, SeedIInv
  <1>6. ASSUME NEW p \in Procs,
               \/ FindTable(p) \/ CheckTable(p) \/ CreateTable(p) \/ CreateIndex(p)
               \/ Count(p) \/ Crash(p)
        PROVE  SeedIInv'
    <2>1. ASSUME NEW q \in Seeders
          PROVE  /\ Same(q)
                 /\ pc'[q] \in {"find", "drop", "check", "create", "index", "load"} =>
                        pc[q] \in {"find", "drop", "check", "create", "index", "load"}
                 /\ pc'[q] = "lookup" => pc[q] = "lookup"
      BY <1>1, <1>6 DEF FindTable, CheckTable, CreateTable, CreateIndex, AfterSchema, Count, Crash,
                        TypeOK
    <2>2. UNCHANGED <<file, seeded>>
      BY <1>6 DEF FindTable, CheckTable, CreateTable, CreateIndex, Count, Crash
    <2> HIDE DEF Same
    <2>3. \A q \in Seeders :
             /\ pc'[q] \in {"find", "drop", "check", "create", "index", "load"}
                    => session'[q] = NoSession
             /\ pc'[q] = "lookup" => Progress(q)'
      BY <1>2, <2>1
    <2> QED
      BY <2>2, <2>3 DEF SeedIInv
  <1>7. ASSUME NEW p \in Procs, DropTable(p)
        PROVE  SeedIInv'
    <2>1. Seeders = {p}
      BY <1>7 DEF DropTable, OneSeeder, DatabaseIInv, ServersOnlyCreate, Procs
    <2>2. /\ pc[p] = "drop" /\ pc'[p] \in {"check", "failed"}
          /\ UNCHANGED <<session, file>> /\ seeded' = NothingSeeded
      BY <1>7 DEF DropTable, TypeOK
    <2> QED
      BY <2>1, <2>2 DEF SeedIInv
  <1>8. ASSUME NEW p \in Procs, NEW f \in Files, LoadSeed(p, f)
        PROVE  SeedIInv'
    <2>1. Seeders = {p}
      BY <1>8 DEF LoadSeed, OneSeeder, DatabaseIInv, ServersOnlyCreate, Procs
    <2>2. f.records \in Seq(Record)
      BY DatabaseAssumption DEF FileShape
    <2>3. /\ DOMAIN file' = Procs /\ file'[p] = f
          /\ \A q \in Procs : file'[q].records \in Seq(Record)
          /\ seeded' = seeded
      BY <1>8, <2>2 DEF LoadSeed, SeedIInv
    <2>4. pc'[p] \in {"lookup", "failed"}
      BY <1>8 DEF LoadSeed, TypeOK
    <2>5. pc'[p] = "lookup" => Progress(p)'
      <3> SUFFICES ASSUME pc'[p] = "lookup"
                   PROVE  Progress(p)'
        OBVIOUS
      <3>1. todo'[p] = f.records /\ session'[p] = NoSession /\ rows' = rows
        BY <1>8, <2>1 DEF LoadSeed, TypeOK, SeedIInv
      <3>2. LookedUpBy(p)' = 0
        BY <2>2, <2>3, <3>1 DEF LookedUpBy
      <3>3. LookedUp(session[p], file[p], LookedUpBy(p))'
        BY <3>1, <3>2 DEF LookedUp, AddsFirst, KnowsFirst, NoSession
      <3>4. \A i \in DOMAIN f.records : 0 + i = i
        BY <2>2
      <3> QED
        BY <2>3, <3>1, <3>2, <3>3, <3>4 DEF Progress
    <2> QED
      BY <2>1, <2>3, <2>4, <2>5 DEF SeedIInv
  <1>9. ASSUME NEW p \in Procs, Lookup(p)
        PROVE  SeedIInv'
    <2>1. Seeders = {p}
      BY <1>9 DEF Lookup, OneSeeder, DatabaseIInv, ServersOnlyCreate, Procs
    <2>2. pc'[p] \in {"lookup", "failed"} /\ UNCHANGED <<file, seeded>>
      BY <1>9 DEF Lookup, TypeOK
    <2>3. pc'[p] = "lookup" => Progress(p)'
      BY <1>9, <2>1, ProgressLookup
    <2> QED
      BY <2>1, <2>2, <2>3 DEF SeedIInv
  <1>10. ASSUME NEW p \in Procs, Commit(p)
         PROVE  SeedIInv'
    <2>1. Seeders = {p}
      BY <1>10 DEF Commit, OneSeeder, DatabaseIInv, ServersOnlyCreate, Procs
    <2>2. pc'[p] \in {"count", "failed"} /\ file' = file
      BY <1>10 DEF Commit, TypeOK
    <2>3. seeded' # NothingSeeded /\ OneRowEach(seeded'.rows) => Stored(seeded'.file, seeded'.rows)
      <3>1. CASE Conflict(session[p])
        BY <1>10, <3>1 DEF Commit, SeedIInv
      <3>2. CASE ~ Conflict(session[p])
        <4>1. seeded' = [file |-> file[p], rows |-> rows']
          BY <1>10, <3>2 DEF Commit
        <4>2. OneRowEach(rows') => Stored(file[p], rows')
          BY <1>10, <2>1, <3>2, CommitSeeds
        <4> QED
          BY <4>1, <4>2
      <3> QED
        BY <3>1, <3>2
    <2> QED
      BY <2>1, <2>2, <2>3 DEF SeedIInv
  <1> QED
    BY <1>3, <1>4, <1>5, <1>6, <1>7, <1>8, <1>9, <1>10 DEF Next

LEMMA SeedInvariant == OneSeeder /\ Spec => []SeedIInv
  <1> SUFFICES ASSUME OneSeeder
               PROVE  Spec => []SeedIInv
    OBVIOUS
  <1>1. Init => SeedIInv
    <2> SUFFICES ASSUME Init
                 PROVE  SeedIInv
      OBVIOUS
    <2>1. DOMAIN file = Procs /\ \A p \in Procs : file[p].records \in Seq(Record)
      <3>1. DOMAIN file = Procs /\ \A p \in Procs : file[p].records = <<>>
        BY DEF Init, NoFile
      <3>2. <<>> \in Seq(Record)
        OBVIOUS
      <3> QED
        BY <3>1, <3>2
    <2>2. \A p \in Seeders : pc[p] = "idle" /\ session[p] = NoSession
      BY DEF Init, Procs
    <2>3. seeded = NothingSeeded
      BY DEF Init
    <2> QED
      BY <2>1, <2>2, <2>3 DEF SeedIInv
  <1>2. TypeOK /\ DatabaseIInv /\ SeedIInv /\ [Next]_vars => SeedIInv'
    BY SeedKept
  <1> QED
    BY <1>1, <1>2, DatabaseInvariant, DatabaseTypeCorrect, PTL DEF Spec

\* The lookup of a device after the step.
LEMMA NextRowFound ==
    ASSUME DOMAIN rows' \subseteq Nat, NEW id,
           RowOf(id)' # 0 \/ \E k \in DOMAIN rows' : rows'[k].id = id
    PROVE  /\ \E k \in DOMAIN rows' : rows'[k].id = id
           /\ RowOf(id)' \in DOMAIN rows' /\ rows'[RowOf(id)'].id = id
  <1> DEFINE found == {k \in DOMAIN rows' : rows'[k].id = id}
  <1>1. RowOf(id)' = IF found = {} THEN 0 ELSE CHOOSE k \in found : \A j \in found : k <= j
    BY DEF RowOf
  <1>2. found \subseteq Nat /\ \A k : k \in found <=> k \in DOMAIN rows' /\ rows'[k].id = id
    OBVIOUS
  <1> HIDE DEF found
  <1>3. found # {}
    BY <1>1, <1>2
  <1>4. RowOf(id)' \in found
    BY <1>1, <1>2, <1>3, Least
  <1> QED
    BY <1>2, <1>4

\* A run that comes to have committed does so in its commit.
LEMMA CommitsOnly ==
    ASSUME TypeOK, [Next]_vars, NEW p \in Seeders, committed'[p], ~ committed[p]
    PROVE  Commit(p) /\ ~ Conflict(session[p])
  <1>1. p \in Procs
    BY DEF Procs
  <1>2. ASSUME NEW q \in Procs, Commit(q)
        PROVE  q = p /\ ~ Conflict(session[p])
    <2>1. CASE Conflict(session[q])
      BY <1>2, <2>1 DEF Commit
    <2>2. CASE ~ Conflict(session[q])
      <3>1. committed' = [committed EXCEPT ![q] = TRUE]
        BY <1>2, <2>2 DEF Commit
      <3>2. q = p
        BY <1>1, <3>1 DEF TypeOK
      <3> QED
        BY <2>2, <3>2
    <2> QED
      BY <2>1, <2>2
  <1>3. \A q \in Procs : \A o \in Options : ~ Start(q, o)
    BY <1>1 DEF Start, TypeOK
  <1>4. \/ committed' = committed
        \/ \E q \in Procs : Commit(q)
    BY <1>3 DEF Next, vars, local, FindTable, DropTable, CheckTable, CreateTable, CreateIndex, LoadSeed,
           Lookup, Count, Crash, ReadDevice
  <1> QED
    BY <1>2, <1>4

\* Whatever the rows and the file were: with the index, a commit gives each
\* device the file names its row with the values given last, or the default
\* where a new one is given none, and changes nothing else (init_db.py,
\* seed_devices; models.py, Device).
THEOREM SeedingStoresTheFile == OneSeeder /\ Spec => CommitStoresTheFile
  <1> SUFFICES ASSUME OneSeeder
               PROVE  Spec => CommitStoresTheFile
    OBVIOUS
  <1> DEFINE Stores(p) ==
          \A id \in Ids :
             LET k == RowOf(id)
                 n == RowOf(id)'
                 f == file[p]
                 named == \E i \in DOMAIN f.records : f.records[i].id = id
             IN  /\ n # 0 <=> (k # 0 \/ named)
                 /\ n # 0 => \A field \in Fields :
                      rows'[n].fields[field] =
                        IF k # 0 THEN Latest(f, id, field, rows[k].fields[field])
                        ELSE Default(field, Latest(f, id, field, Null))
  <1>1. TypeOK /\ SeedIInv /\ [Next]_vars =>
           \A p \in Seeders : indexed /\ committed'[p] /\ ~ committed[p] => Stores(p)
    <2> SUFFICES ASSUME TypeOK, SeedIInv, [Next]_vars,
                        NEW p \in Seeders, indexed, committed'[p], ~ committed[p], NEW id \in Ids
                 PROVE  /\ RowOf(id)' # 0
                              <=> \/ RowOf(id) # 0
                                  \/ \E i \in DOMAIN file[p].records :
                                        file[p].records[i].id = id
                        /\ RowOf(id)' # 0 => \A field \in Fields :
                              rows'[RowOf(id)'].fields[field] = Wanted(file[p], id, field)
      BY DEF Wanted
    <2>1. Commit(p) /\ ~ Conflict(session[p])
      BY CommitsOnly
    <2>2. rows' = Written(session[p])
      BY <2>1 DEF Commit, Written
    <2>6. OneRowEach(rows) /\ IsSession(session[p]) /\ Tabular(rows)
      BY <2>1, CommitOfFile, TypeOKParts
    <2>7. Tabular(Written(session[p])) /\ OneRowEach(Written(session[p]))
      BY <2>1, <2>6, CommitTabular DEF Written
    <2>3. Holds(rows', file[p], id)
      BY <2>1, <2>2, <2>6, <2>7, CommitOfFile, CommitAsWanted
    <2>8. DOMAIN rows' \subseteq Nat
      BY <2>2, <2>7 DEF Tabular
    <2>4. RowOf(id)' # 0 \/ (\E k \in DOMAIN rows' : rows'[k].id = id) =>
             /\ \E k \in DOMAIN rows' : rows'[k].id = id
             /\ RowOf(id)' \in DOMAIN rows' /\ rows'[RowOf(id)'].id = id
      BY <2>8, NextRowFound
    <2>5. 0 \notin DOMAIN rows'
      BY <2>2, <2>7 DEF Tabular
    <2> QED
      BY <2>3, <2>4, <2>5 DEF Holds
  <1> QED
    BY <1>1, SeedInvariant, DatabaseTypeCorrect, PTL DEF Spec, CommitStoresTheFile

\* Does the file leave a device without a status in the end?
NullStatus(f, id) == Given(f, id, "status") # {} /\ LastGiven(f, id, "status") = Null

\* What the session of a second run with the same file holds: nothing to add,
\* and nothing to change but a status that is null in the file.
LEMMA NothingToAdd ==
    ASSUME TypeOK, OneRowEach(rows), NEW s, IsSession(s), NEW f, f.records \in Seq(Record),
           LookedUp(s, f, Len(f.records)), Stored(f, rows)
    PROVE  /\ s.added = <<>>
           /\ \A k \in DOMAIN s.known :
                 /\ k \in DOMAIN rows /\ s.known[k].loaded = rows[k].fields
                 /\ rows[k].id \in Ids
                 /\ NullStatus(f, rows[k].id) => s.known[k].fields["status"] = Null
                 /\ ~ NullStatus(f, rows[k].id) => Changed(s.known[k]) = {}
  <1> DEFINE n == Len(f.records)
  <1>1. /\ DOMAIN f.records = 1 .. n
        /\ rows \in Seq(Row) /\ s.added \in Seq(Row)
    BY DEF TypeOK, IsSession
  <1>2. \A i \in 1 .. n : f.records[i].id # Null => RowOf(f.records[i].id) # 0
    BY <1>1, RowFound DEF Stored, TypeOK
  <1>3. s.added = <<>>
    <2>1. \A j : j \notin DOMAIN s.added
      <3> SUFFICES ASSUME NEW j \in DOMAIN s.added
                   PROVE  FALSE
        OBVIOUS
      <3>1. PICK i \in 1 .. n : From(s.added[j], f.records[i])
        BY DEF LookedUp, AddsFirst
      <3>2. s.added[j] \in Row
        BY <1>1
      <3>3. f.records[i].id # Null
        BY <3>1, <3>2, DatabaseAssumption DEF From, Row
      <3> QED
        BY <1>2, <3>1, <3>3 DEF From, LookedUp, AddsFirst
    <2>2. Len(s.added) \in Nat /\ DOMAIN s.added = 1 .. Len(s.added)
      BY <1>1
    <2> DEFINE length == Len(s.added)
    <2>3. 1 \notin 1 .. length /\ length \in Nat
      BY <2>1, <2>2
    <2> HIDE DEF length
    <2>4. length = 0
      BY <2>3
    <2> QED
      BY <1>1, <2>4 DEF length
  <1>4. ASSUME NEW k \in DOMAIN s.known
        PROVE  /\ k \in DOMAIN rows /\ s.known[k].loaded = rows[k].fields
               /\ rows[k].id \in Ids
               /\ NullStatus(f, rows[k].id) => s.known[k].fields["status"] = Null
               /\ ~ NullStatus(f, rows[k].id) => Changed(s.known[k]) = {}
    <2> DEFINE id == rows[k].id
    <2>1. k \in DOMAIN rows /\ s.known[k].loaded = rows[k].fields
      BY DEF LookedUp, KnowsFirst
    <2>2. \A l \in DOMAIN rows : rows[l].id = id => l = k
      BY <2>1 DEF OneRowEach
    <2>3. id \in Ids /\ id # Null
      <3>1. rows[k] \in Row
        BY <1>1, <2>1
      <3> QED
        BY <3>1, DatabaseAssumption DEF Row
    <2> HIDE DEF id
    <2>4. ASSUME NEW field \in Fields, Given(f, id, field) # {}
          PROVE  /\ s.known[k].fields[field] = LastGiven(f, id, field)
                 /\ s.known[k].loaded[field] = Default(field, LastGiven(f, id, field))
      <3>1. PICK i \in Given(f, id, field) :
                /\ LastOf(f, id, field, n, i)
                /\ LastGiven(f, id, field) = f.records[i].sets[field]
        BY <2>4, LastExists
      <3>2. i \in 1 .. n /\ f.records[i].id = id
        BY <1>1 DEF Given
      <3>3. s.known[k].fields[field] = LastGiven(f, id, field)
        BY <3>1, <3>2 DEF LookedUp, KnowsFirst, id
      <3>4. PICK l \in DOMAIN rows :
                /\ rows[l].id = id
                /\ rows[l].fields[field] = Default(field, LastGiven(f, id, field))
        BY <1>1, <2>3, <2>4, <3>2 DEF Stored
      <3> QED
        BY <2>1, <2>2, <3>3, <3>4
    <2>5. NullStatus(f, id) => s.known[k].fields["status"] = Null
      BY <2>4 DEF NullStatus, Fields
    <2>6. ASSUME ~ NullStatus(f, id), NEW field \in Fields
          PROVE  s.known[k].fields[field] = s.known[k].loaded[field]
      <3>1. CASE Given(f, id, field) # {}
        BY <2>4, <2>6, <3>1 DEF NullStatus, Default
      <3>2. CASE Given(f, id, field) = {}
        BY <2>1, <3>2 DEF LookedUp, KnowsFirst, id
      <3> QED
        BY <3>1, <3>2
    <2> QED
      BY <2>1, <2>3, <2>5, <2>6 DEF Changed, id
  <1> QED
    BY <1>3, <1>4

\* Without a null status the second commit writes nothing.
LEMMA NothingToWrite ==
    ASSUME TypeOK, OneRowEach(rows), NEW s, IsSession(s), NEW f, f.records \in Seq(Record),
           LookedUp(s, f, Len(f.records)), Stored(f, rows),
           \A id \in Ids : ~ NullStatus(f, id)
    PROVE  ~ Conflict(s) /\ Written(s) = rows
  <1>1. s.added = <<>> /\ Updates(s) = {}
    BY NothingToAdd DEF Updates
  <1>2. ~ Conflict(s)
    BY <1>1 DEF Conflict
  <1>3. rows \in Seq(Row)
    BY DEF TypeOK
  <1>4. Updated(s) = [k \in DOMAIN rows |-> rows[k]]
    BY <1>1 DEF Updated
  <1>5. Updated(s) = rows
    BY <1>3, <1>4
  <1> QED
    BY <1>1, <1>2, <1>3, <1>5 DEF Written

\* With one it is refused.
LEMMA NullStatusConflicts ==
    ASSUME TypeOK, OneRowEach(rows), NEW s, IsSession(s), NEW f, f.records \in Seq(Record),
           LookedUp(s, f, Len(f.records)), Stored(f, rows),
           NEW id \in Ids, NullStatus(f, id)
    PROVE  Conflict(s)
  <1>1. PICK i \in DOMAIN f.records : f.records[i].id = id
    BY DEF NullStatus, Given
  <1>2. i \in 1 .. Len(f.records) /\ id # Null
    BY DatabaseAssumption
  <1>3. PICK k \in DOMAIN rows : rows[k].id = id
    BY <1>1, <1>2 DEF Stored
  <1>4. RowOf(id) = k
    BY <1>3, RowFound DEF TypeOK, OneRowEach
  <1>5. k # 0
    BY <1>3 DEF TypeOK
  <1>6. k \in DOMAIN s.known
    BY <1>1, <1>2, <1>4, <1>5 DEF LookedUp, KnowsFirst
  <1>7. s.known[k].fields["status"] = Null /\ s.known[k].loaded = rows[k].fields
    BY <1>3, <1>6, NothingToAdd
  <1>8. rows[k].fields["status"] # Null
    BY <1>3 DEF TypeOK, Required
  <1>9. "status" \in Changed(s.known[k]) \cap Required
    BY <1>7, <1>8 DEF Changed, Fields, Required
  <1>10. k \in Updates(s)
    BY <1>6, <1>9 DEF Updates
  <1> QED
    BY <1>7, <1>9, <1>10 DEF Conflict

\* Seeding twice (README of the repository and init_db.py, seed_devices): a run
\* that finds the rows an earlier one with the same file has left changes none
\* of them, and fails exactly when the file leaves a device with a null status.
THEOREM SeedingAgainIsHarmless == OneSeeder /\ Spec => SeedingAgainChangesNothing
  <1> SUFFICES ASSUME OneSeeder
               PROVE  Spec => SeedingAgainChangesNothing
    OBVIOUS
  <1>1. TypeOK /\ DatabaseIInv /\ SeedIInv /\ [Next]_vars =>
           \A p \in Seeders : indexed /\ SeedsAgain(p) =>
              /\ rows' = rows
              /\ pc'[p] = "failed" <=> \E id \in Ids : NullStatus(file[p], id)
    <2> SUFFICES ASSUME TypeOK, DatabaseIInv, SeedIInv, [Next]_vars, NEW p \in Seeders,
                        indexed, SeedsAgain(p)
                 PROVE  /\ rows' = rows
                        /\ pc'[p] = "failed" <=> \E id \in Ids : NullStatus(file[p], id)
      OBVIOUS
    <2>1. /\ p \in Procs
          /\ pc[p] = "lookup" /\ todo[p] = <<>> /\ pc'[p] \in {"count", "failed"}
          /\ OneRowEach(rows) /\ Stored(file[p], rows)
      BY DEF Procs, SeedsAgain, SeedIInv, TypeOK
    <2>2. CASE Commit(p)
      <3>1. /\ IsSession(session[p]) /\ file[p].records \in Seq(Record)
            /\ LookedUp(session[p], file[p], Len(file[p].records))
        BY <2>1, <2>2, CommitOfFile
      <3>2. CASE \E id \in Ids : NullStatus(file[p], id)
        <4>1. Conflict(session[p])
          BY <2>1, <3>1, <3>2, NullStatusConflicts
        <4> QED
          BY <2>1, <2>2, <3>2, <4>1 DEF Commit, Goto, TypeOK
      <3>3. CASE ~ \E id \in Ids : NullStatus(file[p], id)
        <4>1. ~ Conflict(session[p]) /\ Written(session[p]) = rows
          BY <2>1, <3>1, <3>3, NothingToWrite
        <4> QED
          BY <2>1, <2>2, <3>3, <4>1 DEF Commit, Written, Goto, TypeOK
      <3> QED
        BY <3>2, <3>3
    <2>3. ASSUME NEW q \in Procs, q # p,
                 \/ \E o \in Options : Start(q, o)
                 \/ FindTable(q) \/ DropTable(q) \/ CheckTable(q) \/ CreateTable(q)
                 \/ CreateIndex(q) \/ Lookup(q) \/ Commit(q) \/ Count(q) \/ Crash(q)
                 \/ \E f \in Files : LoadSeed(q, f)
          PROVE  FALSE
      BY <2>1, <2>3 DEF Start, FindTable, DropTable, CheckTable, CreateTable, CreateIndex,
             Lookup, Commit, Count, Crash, LoadSeed, Goto, TypeOK
    <2>4. ~ Crash(p)
      BY <2>1 DEF Crash, Goto, TypeOK
    <2>5. /\ \A o \in Options : ~ Start(p, o)
          /\ ~ FindTable(p) /\ ~ DropTable(p) /\ ~ CheckTable(p) /\ ~ CreateTable(p)
          /\ ~ CreateIndex(p) /\ ~ Lookup(p) /\ ~ Count(p) /\ \A f \in Files : ~ LoadSeed(p, f)
      BY <2>1 DEF Start, FindTable, DropTable, CheckTable, CreateTable, CreateIndex, Lookup,
             Count, LoadSeed
    <2>6. \A id \in Ids : ~ ReadDevice(id)
      BY <2>1 DEF ReadDevice
    <2>7. ~ UNCHANGED vars
      BY <2>1 DEF vars
    <2> QED
      BY <2>2, <2>3, <2>4, <2>5, <2>6, <2>7 DEF Next
  <1> QED
    <2>1. TypeOK /\ DatabaseIInv /\ SeedIInv /\ [Next]_vars =>
             [\A p \in Seeders : indexed /\ SeedsAgain(p) =>
                 /\ rows' = rows
                 /\ pc'[p] = "failed" <=>
                       \E id \in Ids : /\ Given(file[p], id, "status") # {}
                                       /\ LastGiven(file[p], id, "status") = Null]_vars
      BY <1>1 DEF NullStatus
    <2> QED
      BY <2>1, SeedInvariant, DatabaseInvariant, DatabaseTypeCorrect, PTL
      DEF Spec, SeedingAgainChangesNothing

=============================================================================
