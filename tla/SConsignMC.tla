----------------------------- MODULE SConsignMC -----------------------------
(* Two targets, the second made from the first, and a source that can include *)
(* a file that the second one depends on as well.                             *)
EXTENDS SConsign, TLC

CONSTANTS code, header, object, program

SourcesOf == object :> <<code>> @@ program :> <<object, header>>

\* The second version of the code includes the header.
IncludesOf ==
  [s \in Source |-> [v \in Version |-> IF s = code /\ v = 1 THEN <<header>> ELSE <<>>]]

\* Either anything may happen to builds, but they follow on another, and people
\* never write a file as it was before; or builds are left alone.
Calm == [disturbed |-> FALSE, reverts |-> TRUE, aging |-> TRUE]
Rough == [disturbed |-> TRUE, reverts |-> FALSE, aging |-> FALSE]
CalmOrRough == {Calm, Rough}
OnlyRough == {Rough}

=============================================================================
