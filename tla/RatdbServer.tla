---------------------------- MODULE RatdbServer ----------------------------
(* The CouchDB server that holds RATDB tables, as bin/ratdb fills it and   *)
(* as the views of data/ratdb_couchdb.json answer.  Of the tool only       *)
(* "append" is modelled: one request to the server per step, so that a     *)
(* job that reads the server sees what lies between two of them.  Names    *)
(* are numbers in the order in which the server sorts them; the index of   *)
(* a table is part of its name.                                            *)
EXTENDS Integers, FiniteSets, FiniteSetsExt

CONSTANTS Names,       \* table names on the server
          Runs,        \* run numbers, greater than 0
          Contents,    \* what a document holds besides its name and range
          InitDocs,    \* what may have been uploaded before: sets of documents
          Increments,  \* run increments a user may ask append for
          MaxAppends   \* bound on the calls of append

User == -1
Default == 0
Keys == {User, Default} \cup Runs

DocumentType ==
  [id : Names \X Int \X Int, name : Names, lo : Int, hi : Int, content : Contents]

ASSUME ServerAssumption ==
  /\ Names \subseteq Int /\ Runs \subseteq Nat \ {0} /\ Increments \subseteq Int
  /\ \A D \in InitDocs : IsFiniteSet(D) /\ \A d \in D : d \in DocumentType

VARIABLES docs,     \* documents on the server
          tool,     \* the call of append under way
          appends   \* calls of append so far
serverVars == <<docs, tool, appends>>

Document(n, lo, hi, c) ==
  [id |-> <<n, lo, hi>>, name |-> n, lo |-> lo, hi |-> hi, content |-> c]

Idle == [step |-> "idle"]

\* The view "select": the documents that hold table n in run k.
Select(n, k) == {d \in docs : d.name = n /\ d.lo <= k /\ k <= d.hi}

\* The view "name".
ServerNames == {d.name : d \in docs}

\* The rows of "select" up to those of name n; append takes the last one.
Before(n) == {d \in docs : d.name <= n}
IsLast(old, n) ==
  /\ old \in Before(n)
  /\ \A d \in Before(n) :
       d.name < old.name \/ (d.name = old.name /\ d.hi <= old.hi)

ServerInit == docs \in InitDocs /\ tool = Idle /\ appends = 0

\* The range of the last document is reset only if it reaches beyond the
\* first run of the new one.
Truncate(old, first) == old.hi > first

\* Ask for the last row, then copy its document if its range must shrink.
StartAppend(new) ==
  /\ tool = Idle /\ appends < MaxAppends
  /\ appends' = appends + 1
  /\ \/ /\ Before(new.name) = {}
        /\ tool' = [step |-> "upload", new |-> new]
        /\ docs' = docs
     \/ \E old \in Before(new.name) :
          LET revised == [old EXCEPT !.id = <<old.name, old.lo, new.lo - 1>>]
          IN /\ IsLast(old, new.name)
             /\ old.lo < new.lo
             /\ IF Truncate(old, new.lo)
                  THEN /\ \A d \in docs : d.id # revised.id
                       /\ docs' = docs \cup {revised}
                       /\ tool' = [step |-> "copied", new |-> new,
                                   old |-> old, copy |-> revised]
                  ELSE /\ tool' = [step |-> "upload", new |-> new]
                       /\ docs' = docs

\* Save the copy with the shorter range.
ResetRange ==
  /\ tool.step = "copied"
  /\ docs' = (docs \ {tool.copy})
               \cup {[tool.copy EXCEPT !.hi = tool.new.lo - 1]}
  /\ tool' = [step |-> "reset", new |-> tool.new, old |-> tool.old]
  /\ UNCHANGED appends

RemoveOld ==
  /\ tool.step = "reset"
  /\ docs' = docs \ {tool.old}
  /\ tool' = [step |-> "upload", new |-> tool.new]
  /\ UNCHANGED appends

\* Save the new document; the server refuses an id it already has.
SaveNew ==
  /\ tool.step = "upload"
  /\ docs' = IF \E d \in docs : d.id = tool.new.id
               THEN docs ELSE docs \cup {tool.new}
  /\ tool' = Idle
  /\ UNCHANGED appends

\* append names the range first .. first + increment.
Append ==
  \/ \E n \in Names, first \in Runs, inc \in Increments, c \in Contents :
        StartAppend(Document(n, first, first + inc, c))
  \/ ResetRange \/ RemoveOld \/ SaveNew
=============================================================================
