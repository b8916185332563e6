------------------------------- MODULE RatDB -------------------------------
(* RATDB, the database of constants of one job (RAT/DB): the tables of one *)
(* name in memory, in the user plane (run -1), the run plane (runs above   *)
(* 0) and the default plane (run 0); files loaded into it, fields set in   *)
(* the user plane, and documents fetched from a server on demand.          *)
(*                                                                         *)
(* Fetched documents have no accounted size (DBTable.cc:15), so that the   *)
(* eviction of DB.cc:407-423 never finds anything to evict and is left     *)
(* out.                                                                    *)
EXTENDS RatdbServer

CONSTANTS Table,      \* the name of the table that is modelled
          Fields,     \* its fields
          SetValues,  \* what /rat/db/set or a factory may set: [type, val]
          Files,      \* tables in files: [lo, hi, fields]
          None        \* no table, no value, no type

Arrays == {"iarray", "darray"}
Types == {"int", "double"} \cup Arrays
AnyType == "json"        \* what GetJSON asks for

\* A field has a value in the JSON object of its table, and beside it the type of
\* an array may be kept: once one was set, or is attached to the document.
Field(value, kept) == [value |-> value, kept |-> kept]
Absent == Field(None, None)
Deferred == Field(None, "darray")

\* The fields there can be, and the tables of them.
Values == UNION {{c[f].value : f \in Fields} : c \in Contents \cup {file.fields : file \in Files}}
Entries == [value : SetValues \cup Values \cup {None}, kept : Arrays \cup {None}]
Tables == [Fields -> Entries]

\* What is set is a value, and the run of the first links is one.
ASSUME DBAssumption ==
  /\ Table \in Names /\ 1 \in Runs
  /\ None \notin Tables /\ None \notin SetValues /\ None \notin Keys /\ None \notin Types
  /\ \A v \in SetValues : v.type \in Types
  /\ Contents \subseteq Tables
  /\ \A file \in Files : /\ {file.lo, file.hi} \subseteq Int /\ file.lo <= file.hi
                          /\ file.lo .. file.hi \subseteq Keys /\ file.fields \in Tables

VARIABLES db,      \* tables, tablesNotOnServer and what was asked for
          names,   \* tableNamesOnServer
          run,     \* default run of new links
          links,   \* run numbers of the links in use
          phase,   \* "preinit", "building" (DetectorConstruction), "ready"
          sets     \* history: what was set since a user table was loaded
vars == <<db, names, run, links, phase, sets, docs, tool, appends>>
server == <<docs, tool, appends>>

-----------------------------------------------------------------------------
WrongMissing(d, k) == Keys
WrongRemembered(d, k) == d.missing
\* A key the server does not have is remembered.
Missing(d, k) == d.missing \cup {k}

\* The keys that a fetched document fills.
Filled(doc) == doc.lo .. doc.hi

\* Ask the server for key k: one document is stored for its whole range,
\* two end the job.
Fetch(d, k) ==
  LET asked == [d EXCEPT !.asked[k] = IF @ = 2 THEN 2 ELSE @ + 1]
  IN IF Cardinality(Select(Table, k)) > 1
       THEN [asked EXCEPT !.dead = TRUE]
     ELSE IF Select(Table, k) = {}
       THEN [asked EXCEPT !.missing = Missing(d, k)]
     ELSE LET doc == CHOOSE x \in Select(Table, k) : TRUE
          IN [asked EXCEPT !.tables =
                [j \in Keys |-> IF j \in Filled(doc)
                                  THEN doc.content ELSE @[j]]]

\* The database after a lookup of key k.
FindTable(d, k) ==
  IF d.dead \/ d.tables[k] # None \/ Table \notin names \/ k \in d.missing
    THEN d ELSE Fetch(d, k)

\* The kept type of an array goes before the value.
FieldType(entry) ==
  IF entry.kept # None THEN entry.kept
  ELSE IF entry.value # None THEN entry.value.type ELSE None

\* equivalent() of DBLink.cc.
Equivalent(entry, t) == FieldType(entry) # None /\ t \in {AnyType, FieldType(entry)}

Holds(d, k, f, t) ==
  ~d.dead /\ d.tables[k] # None /\ Equivalent(d.tables[k][f], t)

\* The planes in the order of Pick.
Planes(r) == <<User, r, Default>>

\* Look for field f, as type t, one plane after the other: the database
\* after the lookups and the plane that has it.
Pick(d, r, f, t) ==
  LET d1 == FindTable(d, Planes(r)[1])
      d2 == FindTable(d1, Planes(r)[2])
      d3 == FindTable(d2, Planes(r)[3])
  IN IF Holds(d1, Planes(r)[1], f, t) THEN [db |-> d1, plane |-> Planes(r)[1]]
     ELSE IF Holds(d2, Planes(r)[2], f, t)
       THEN [db |-> d2, plane |-> Planes(r)[2]]
     ELSE IF Holds(d3, Planes(r)[3], f, t)
       THEN [db |-> d3, plane |-> Planes(r)[3]]
     ELSE [db |-> d3, plane |-> None]

\* The value of a field as type t; None when the getter throws.  A deferred array
\* is fetched, and then SetDArray throws: it looks for the old value first.
Value(entry, t) ==
  IF entry.value # None /\ t \in {AnyType, entry.value.type} THEN entry.value ELSE None

\* What a reader gets: a value, None for an error.
Answer(d, r, f, t) ==
  LET found == Pick(d, r, f, t)
  IN IF found.plane = None THEN None ELSE Value(found.db.tables[found.plane][f], t)

\* The database after a table was put into memory.
Insert(d, k, table) == [d EXCEPT !.tables[k] = table]

\* Load one table of a file: each run of its range is looked up, to warn
\* that it is replaced, and then set.
LoadRun(d, k, table) ==
  LET found == FindTable(d, k) IN IF found.dead THEN found ELSE Insert(found, k, table)
LoadTable(d, file) ==
  LET step[k \in (file.lo - 1) .. file.hi] ==
        IF k = file.lo - 1 THEN d ELSE LoadRun(step[k - 1], k, file.fields)
  IN step[file.hi]

NewTable == [f \in Fields |-> Absent]

WrongOrCreate(d) == Insert(d, User, NewTable)
\* The database after a lookup in the user plane that makes a table if none
\* is found.
FindOrCreateTable(d) ==
  LET found == FindTable(d, User)
  IN IF found.dead \/ found.tables[User] # None THEN found
     ELSE Insert(found, User, NewTable)

\* To set an array is to read the old field as an integer array first.
Refused(old, v) ==
  /\ v.type \in Arrays /\ FieldType(old) # None
  /\ FieldType(old) # "iarray" \/ Value(old, "iarray") = None

\* Only an array changes the type that is kept.
Overwritten(old, v) == Field(v, IF v.type \in Arrays THEN v.type ELSE old.kept)

-----------------------------------------------------------------------------
Init ==
  /\ ServerInit
  /\ db = [tables |-> [k \in Keys |-> None], missing |-> {},
           asked |-> [k \in Keys |-> 0], dead |-> FALSE]
  /\ names = {} /\ run = 1 /\ links = {} /\ phase = "preinit"
  /\ sets = [f \in Fields |-> None]

Running == ~db.dead

\* /rat/db/load before /run/initialize; the files of the experiment and of
\* the geometry while the detector is built.
Load(file) ==
  /\ Running /\ phase \in {"preinit", "building"}
  /\ db' = LoadTable(db, file)
  /\ sets' = IF file.lo = User THEN [f \in Fields |-> None] ELSE sets
  /\ UNCHANGED <<names, run, links, phase, server>>

\* /rat/db/set before /run/initialize, which sets no arrays, and detector
\* factories after it.  DetectorConstruction catches that a field has no value;
\* the other errors end the job.
Set(f, v) ==
  /\ Running
  /\ phase = "building" \/ (phase = "preinit" /\ v.type \notin Arrays)
  /\ LET found == FindOrCreateTable(db)
         old == found.tables[User][f]
     IN IF found.dead THEN db' = found /\ sets' = sets
        ELSE IF Refused(old, v)
          THEN db' = [found EXCEPT !.dead = old.value # None] /\ sets' = sets
        ELSE /\ db' = [found EXCEPT !.tables[User][f] = Overwritten(old, v)]
             /\ sets' = [sets EXCEPT ![f] = v]
  /\ UNCHANGED <<names, run, links, phase, server>>

\* /rat/db/server: the names are fetched anew, what is missing is kept.
SetServer ==
  /\ Running /\ phase = "preinit"
  /\ names' = ServerNames
  /\ UNCHANGED <<db, run, links, phase, sets, server>>

ValidRun(r) == r > 0

\* /rat/db/run, which ends the job if the number is not that of a run.
SetDefaultRun(r) ==
  /\ Running /\ phase = "preinit"
  /\ IF ValidRun(r) THEN run' = r /\ db' = db
     ELSE run' = run /\ db' = [db EXCEPT !.dead = TRUE]
  /\ UNCHANGED <<names, links, phase, sets, server>>

\* A link keeps the default run of the moment it was made.
GetLink ==
  /\ Running
  /\ links' = links \cup {run}
  /\ UNCHANGED <<db, names, run, phase, sets, server>>

RemoveLink(r) ==
  /\ r \in links
  /\ links' = links \ {r}
  /\ UNCHANGED <<db, names, run, phase, sets, server>>

Read(r, f, t) ==
  /\ Running /\ r \in links
  /\ db' = Pick(db, r, f, t).db
  /\ UNCHANGED <<names, run, links, phase, sets, server>>

\* /run/initialize builds the detector; afterwards every command ends the
\* job.
Initialize ==
  /\ Running
  /\ \/ phase = "preinit" /\ phase' = "building"
     \/ phase = "building" /\ phase' = "ready"
  /\ UNCHANGED <<db, names, run, links, sets, server>>

CommandTooLate ==
  /\ Running /\ phase = "ready"
  /\ db' = [db EXCEPT !.dead = TRUE]
  /\ UNCHANGED <<names, run, links, phase, sets, server>>

\* An answer of the server that cannot be parsed ends the job.
ServerFails ==
  /\ Running
  /\ \/ phase = "preinit"
     \/ Table \in names /\ \E k \in Keys \ db.missing : db.tables[k] = None
  /\ db' = [db EXCEPT !.dead = TRUE]
  /\ UNCHANGED <<names, run, links, phase, sets, server>>

ReadAny ==
  \E r \in links, f \in Fields, t \in Types \cup {AnyType} : Read(r, f, t)

Job ==
  \/ \E file \in Files : Load(file)
  \/ \E f \in Fields, v \in SetValues : Set(f, v)
  \/ SetServer
  \/ \E r \in Runs \cup {Default} : SetDefaultRun(r)
  \/ \E r \in Runs : RemoveLink(r)
  \/ GetLink
  \/ ReadAny
  \/ Initialize \/ CommandTooLate \/ ServerFails

Tool == Append /\ UNCHANGED <<db, names, run, links, phase, sets>>

Next == Job \/ Tool

Spec == Init /\ [][Next]_vars

-----------------------------------------------------------------------------
(* Properties.                                                             *)

\* A field set in the user plane is what every later read of it as JSON returns,
\* and every read as its own type unless the table keeps the type of an earlier
\* array, whatever is loaded or fetched in between, until a user table is loaded
\* over it (DB.hh:246-248).
ReadYourSets ==
  \A f \in Fields, r \in Runs : sets[f] # None /\ Running =>
    /\ Answer(db, r, f, AnyType) = sets[f]
    /\ db.tables[User][f].kept \in {None, sets[f].type} =>
         Answer(db, r, f, sets[f].type) = sets[f]

\* No key is asked of the server twice: not after it was refused, and not
\* after a document came (DB.hh:364-368).
AskedOnce == \A k \in Keys : db.asked[k] <= 1

\* A read changes what another read returns only where it fetched a document
\* that covers the run of the other one, and that took the place of a table a
\* file had put into the run plane, or was uploaded after the server was asked
\* for that run; or where the other read would have met two documents and ended
\* the job.
ReadsDoNotDisturb ==
  [][db' # db /\ Running' /\ ReadAny =>
       \A r \in Runs, f \in Fields, t \in Types :
         \/ Answer(db', r, f, t) = Answer(db, r, f, t)
         \/ Pick(db, r, f, t).db.dead
         \/ /\ Select(Table, r) # {} /\ db.tables[r] # db'.tables[r]
            /\ r \in db.missing \/ db.tables[r] # None]_vars
=============================================================================
