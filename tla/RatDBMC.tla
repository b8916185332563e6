------------------------------ MODULE RatDBMC ------------------------------
(* Small instances of RatDB: one table, which files hold for the user     *)
(* plane and for runs and documents for any plane.                        *)
EXTENDS RatDB

V(t, v) == [type |-> t, val |-> v]
Json(t, v) == Field(V(t, v), None)    \* in a JSON file or document
Text(t, v) == Field(V(t, v), t)       \* an array in a text file
Row(a, b) == [f |-> a, g |-> b]
TwoFields == {"f", "g"}

MCSetValues == {V("int", "set"), V("iarray", "set")}
MCFiles ==
  {[lo |-> -1, hi |-> -1, fields |-> Row(Json("double", "user"), Text("iarray", "user"))],
   [lo |-> 1, hi |-> 2, fields |-> Row(Absent, Json("int", "file"))]}
Old == Row(Json("int", "old"), Deferred)
New == Row(Json("int", "new"), Absent)
MCContents == {Old, New}
\* Documents for the runs, or for the other planes.
MCInitDocs ==
  {{Document(2, 0, 0, New), Document(2, 1, 3, Old)}, {Document(2, -1, -1, Old)}}
=============================================================================
