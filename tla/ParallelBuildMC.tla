-------------------------- MODULE ParallelBuildMC --------------------------
(* ParallelBuild on small builds.                                          *)
EXTENDS ParallelBuild

Nothing == [n \in Node |-> {}]
From(edges) == [n \in Node |-> {e[2] : e \in {d \in edges : d[1] = n}}]

\* A build in which everything has a builder, every command makes one file and
\* nothing goes wrong.
Plain(top, edges) ==
  [top |-> top, builder |-> Node, targets |-> [n \in Node |-> {n}],
   children |-> From(edges), reveals |-> Nothing, side_effects |-> Nothing,
   alt |-> Nothing, present |-> {}, cached |-> {}, fails |-> {}, breaks |-> {},
   unscannable |-> {}, on_error |-> "stop", serial |-> FALSE, signals |-> FALSE]

\* Every graph on three nodes, with its cycles.
Three == {<<a, b>> \in (1 .. 3) \X (1 .. 3) : a # b}
Cyclic == {Plain(<<1, 2>>, E) : E \in SUBSET Three}

\* Every graph without cycles on four nodes; things fail, and signals come.
Down == {<<a, b>> \in (1 .. 4) \X (1 .. 4) : a < b}
Failing4(mode) ==
  {[Plain(<<1, 2>>, E) EXCEPT !.fails = {3}, !.on_error = mode,
                              !.signals = (mode = "stop")] : E \in SUBSET Down}

\* A library (1) and a program (2) from objects 3 and 4; 5 is a source.
Program == {<<1, 3>>, <<2, 3>>, <<2, 4>>, <<3, 5>>, <<4, 5>>}
Project == [Plain(<<1, 2>>, Program) EXCEPT !.builder = {1, 2, 3, 4}]

\* 3 is a generated file that includes 4; both may be on disk from before, where
\* scanners take a wrong impression of 3, and in the cache.
Header ==
  {[Plain(<<1, 2>>, {<<1, 3>>, <<2, 3>>, <<2, 4>>, <<3, 5>>, <<4, 5>>})
      EXCEPT !.builder = {1, 2, 3, 4}, !.reveals[1] = {<<3, 4>>},
             !.present = P, !.cached = C, !.serial = s]
     : P \in SUBSET {3, 4}, C \in SUBSET {3, 4}, s \in BOOLEAN}

\* 3 is a candidate twice, and is looked at again while 4 is fetched from the cache.
Twice == [Plain(<<1, 5>>, {<<1, 2>>, <<1, 3>>, <<2, 3>>, <<3, 4>>, <<4, 6>>, <<5, 6>>})
            EXCEPT !.builder = 1 .. 5, !.reveals[3] = {<<4, 5>>}, !.cached = {4}]

\* 2 and 3 both also write 4.
Shared ==
  {[Plain(<<1, 6>>, {<<1, 2>>, <<1, 3>>, <<2, 5>>, <<4, 2>>, <<4, 3>>, <<6, 3>>})
      EXCEPT !.builder = {1, 2, 3, 6}, !.side_effects[2] = {4}, !.side_effects[3] = {4},
             !.serial = s] : s \in BOOLEAN}

\* One command makes 3 and 4; 6 wants 2 built first.
Multi ==
  {[Plain(<<1, 6>>, {<<1, 3>>, <<2, 4>>, <<3, 5>>, <<4, 5>>})
      EXCEPT !.builder = {1, 2, 3, 4, 6}, !.targets[3] = {3, 4}, !.targets[4] = {3, 4},
             !.alt[6] = {2}, !.present = P, !.fails = {3}, !.breaks = {2},
             !.on_error = "keep"] : P \in {{}, {3, 4}}}

\* What else goes wrong: a top target that is missing, a scanner that raises,
\* a source that is missing, an error that is ignored.
Broken ==
  {[Project EXCEPT !.top = <<5, 1, 2>>, !.fails = {5}, !.on_error = "keep"],
   [Project EXCEPT !.unscannable = {3}, !.on_error = "keep"],
   [Project EXCEPT !.breaks = {3}, !.serial = TRUE, !.signals = TRUE],
   [Project EXCEPT !.fails = {3, 4}, !.on_error = "ignore", !.signals = TRUE]}

\* With -k, 4 fails while 5 is being made: 3 fails when it is considered, and does
\* not free 1, which 2 finds pending.
KeepGoing ==
  [Plain(<<4, 1, 2>>, {<<1, 3>>, <<1, 5>>, <<3, 4>>, <<2, 1>>})
     EXCEPT !.fails = {4}, !.on_error = "keep"]
KeepBuilds == {KeepGoing}

\* 1 and 6 need 2 and 3, which both also write 4 and may fail.
SharedFails ==
  {[Plain(<<1, 6>>, {<<1, 2>>, <<1, 3>>, <<6, 2>>, <<6, 3>>})
      EXCEPT !.builder = {1, 2, 3, 6}, !.side_effects[2] = {4}, !.side_effects[3] = {4},
             !.fails = {2, 3}, !.on_error = mode] : mode \in {"stop", "keep", "ignore"}}

AllBuilds ==
  Cyclic \cup Failing4("stop") \cup Failing4("keep") \cup Failing4("ignore")
  \cup {Project, Twice} \cup Header \cup Shared \cup Multi \cup Broken
  \cup KeepBuilds \cup SharedFails

\* What the theorems assume of a build is true of all of them, but those with
\* files from before that are looked into, or a cache beside workers.
ASSUME AllOrderly ==
  \A b \in AllBuilds : WrittenOnly(b) /\ (b \notin Header \cup {Twice} \/ Foreseen(b) => Orderly(b))
ASSUME SomeForeseen ==
  /\ \E b \in Header : Orderly(b) /\ b.cached # {}
  /\ Racing(Twice)
  /\ \E b \in Header : ~Racing(b) /\ ~Foreseen(b)
=============================================================================
