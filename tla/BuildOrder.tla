----------------------------- MODULE BuildOrder -----------------------------
(***************************************************************************)
(* What a build promises, whatever walks the graph and however many jobs   *)
(* run: a command starts only when everything its targets need is there,   *)
(* never twice, and never beside a command that writes one of the same     *)
(* files.  What they need (Needs) is what no scanner can come too late     *)
(* for, or take a wrong impression of.                                     *)
(***************************************************************************)
EXTENDS BuildGraph

VARIABLES
  build,      \* the build; it never changes
  built,      \* nodes that could be used: up to date, made or fetched
  running,    \* the commands that run, each as the set of its targets
  begun       \* targets whose command was started

vars == <<build, built, running, begun>>

Init ==
  /\ build \in Builds
  /\ built = {} /\ running = {} /\ begun = {}

\* Nodes are there without a command: sources, what is up to date or cached.
Settle(N) ==
  /\ N \cap UNION running = {} /\ Needs(build, begun, N) \subseteq built
  /\ built' = built \cup N
  /\ UNCHANGED <<build, running, begun>>

Begin(T) ==
  /\ T \cap begun = {} /\ T \cap built = {}
  /\ Needs(build, begun, T) \subseteq built
  /\ \A U \in running : SideEffects(build, U) \cap SideEffects(build, T) = {}
  /\ running' = running \cup {T}
  /\ begun' = begun \cup T
  /\ UNCHANGED <<build, built>>

\* The command made its targets (or its error is ignored), or it failed.
End(T) ==
  /\ T \in running
  /\ running' = running \ {T}
  /\ built' \in {built, built \cup T}
  /\ UNCHANGED <<build, begun>>

Next ==
  \/ \E T \in SUBSET Node : Settle(T) \/ Begin(T)
  \/ \E T \in running : End(T)

Spec == Init /\ [][Next]_vars

-----------------------------------------------------------------------------
\* A node that may be used has all it depends on; a command that runs has all
\* it depends on, and none of it is being made by another command.
Closed ==
  /\ Needs(build, begun, built) \subseteq built
  /\ \A T \in running : /\ Needs(build, begun, T) \subseteq built
                        /\ T \cap built = {}

\* Two commands that run write nothing in common.
Apart ==
  \A T, U \in running : T # U =>
    /\ T \cap U = {}
    /\ SideEffects(build, T) \cap SideEffects(build, U) = {}

=============================================================================
