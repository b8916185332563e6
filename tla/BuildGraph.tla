----------------------------- MODULE BuildGraph -----------------------------
(***************************************************************************)
(* What a build of RAT is told: the dependency graph that the SConstruct   *)
(* and the scanners give to the bundled SCons (python/SCons), the options  *)
(* of the command line, and the state of the disk.                         *)
(***************************************************************************)
EXTENDS Integers, Sequences, FiniteSets

CONSTANTS
  Node,       \* files and aliases
  Builds      \* the builds to consider

\*   top           the targets of the command line, in order
\*   builder       the nodes that have a builder
\*   targets       all targets of a node's executor (one command makes them)
\*   children      sources, and for a node with a builder its dependencies
\*                 and prerequisites; the same for all targets of a command
\*   reveals       dependencies that a scanner finds in a child: pairs of the
\*                 child and the dependency
\*   side_effects  files the command of a target also writes
\*   alt           what alter_targets puts in front of a top target
\*   present       generated files that are on disk when the build starts
\*   cached        targets that the cache directory may hold
\*   fails         targets whose command may fail
\*   breaks        targets whose task may fail before its command
\*   unscannable   targets for which a scanner raises
\*   on_error      "stop", "keep" (-k) or "ignore" (-i)
\*   serial        one job: the main thread runs the commands itself
\*   signals       whether SIGINT, SIGTERM or SIGHUP may come
Build == [top : Seq(Node), builder : SUBSET Node,
          targets : [Node -> SUBSET Node], children : [Node -> SUBSET Node],
          reveals : [Node -> SUBSET (Node \X Node)],
          side_effects : [Node -> SUBSET Node], alt : [Node -> SUBSET Node],
          present : SUBSET Node, cached : SUBSET Node, fails : SUBSET Node,
          breaks : SUBSET Node, unscannable : SUBSET Node,
          on_error : {"stop", "keep", "ignore"}, serial : BOOLEAN,
          signals : BOOLEAN]

\* All targets of a command have the same targets and dependencies, and a
\* builder; a node without one has no command.
OneCommand(b) ==
  \A n \in Node :
    /\ n \in b.targets[n]
    /\ \A t \in b.targets[n] :
         /\ b.targets[t] = b.targets[n]
         /\ b.children[t] = b.children[n] /\ b.reveals[t] = b.reveals[n]
         /\ t \in b.builder <=> n \in b.builder
    /\ n \notin b.builder =>
         b.targets[n] = {n} /\ b.reveals[n] = {} /\ b.side_effects[n] = {}

\* A scanner is given the children.  A generated file that it looks into is not
\* made from one: to see whether it is up to date it is scanned itself, at any time.
ScansChildren(b) ==
  \A n \in Node : \A e \in b.reveals[n] :
    /\ e[1] \in b.children[n]
    /\ e[1] \in b.builder => \A f \in b.reveals[e[1]] : f[1] \notin b.builder

ASSUME NodeAssumption == IsFiniteSet(Node)
ASSUME BuildsAssumption ==
  \A b \in Builds : b \in Build /\ OneCommand(b) /\ ScansChildren(b)

\* What a command for the targets T also writes, and what it may read.
SideEffects(b, T) == UNION {b.side_effects[t] : t \in T}
Deps(b, T) == UNION {b.children[t] \cup {e[2] : e \in b.reveals[t]} : t \in T}

\* Workers change nodes while the main thread walks over them: the cache is used
\* with several jobs.
Racing(b) == b.cached # {} /\ ~b.serial

\* A scanner looks into a file that was made only when it is up to date.  Of a
\* file that is there from before it may take a wrong impression, and keep it,
\* unless the file is made again; commands holds what commands were run for.
Surely(b, commands, c) ==
  /\ c \in b.builder \cap b.present => c \in commands
  /\ b.on_error = "ignore" => c \notin b.fails

\* What a command for T waits for whatever the scanners find and the workers do.
Needs(b, commands, T) ==
  UNION {b.children[t] \cup
         {e[2] : e \in {r \in b.reveals[t] : ~Racing(b) /\ Surely(b, commands, r[1])}}
           : t \in T}

\* The nodes of N and everything they depend on: the least set that is closed.
Below(b, N) ==
  {n \in Node : \A S \in SUBSET Node : N \cup Deps(b, S) \subseteq S => n \in S}

\* What the build is asked to make: the top targets, and what they want built first.
Goals(b) ==
  LET top == {b.top[i] : i \in DOMAIN b.top} IN top \cup UNION {b.alt[t] : t \in top}

\* What is asked for on the command line, by alter_targets or by a dependency;
\* whether that leaves out all that the commands also write.
Asked(b) ==
  {b.top[i] : i \in DOMAIN b.top} \cup (UNION {b.alt[n] : n \in Node})
    \cup Deps(b, Node)
WrittenOnly(b) == SideEffects(b, Node) \cap (b.builder \cup Asked(b)) = {}

\* Whatever scanners can find is found in time: they look only into sources and
\* files that this build makes for the first time.
Foreseen(b) ==
  ~Racing(b) /\ \A n \in Node : \A e \in b.reveals[n] : Surely(b, {}, e[1])

\* No target of several is cached; a scanner raises only for targets without
\* side effects; -i is used only where nothing but commands fails.
Orderly(b) ==
  /\ WrittenOnly(b) /\ Foreseen(b)
  /\ \A n \in b.cached : b.targets[n] = {n}
  /\ \A n \in b.unscannable : SideEffects(b, b.targets[n]) = {}
  /\ b.on_error = "ignore" => b.breaks \cup b.unscannable = {}

=============================================================================
