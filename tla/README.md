# A TLA+ model of RAT

RAT (RAT Is an Analysis Tool, `src/`) simulates scintillation detectors on top
of Geant4, and reads, processes and writes event files. Its physics is sampling
of real numbers, which no model checker reaches. What is modelled here is the
program around the physics: how events are farmed out over the network, in
which event a vertex, a track or a photon ends up, what reaches the files, which constant a piece of code
reads, in what order the bundled build tool compiles it all, and what it remembers
for the next build. These parts keep state over many events, jobs and threads, meet
failures and interruptions, and have hardly any test (the tests under
`src/RAT/test` and `src/bin/rattest` compare histograms of finished files).

## 1. Inventory

### 1.1 Components, their state and their operations

| Component | Source | State | Operations | Module |
|---|---|---|---|---|
| Event client (outnet) | `RAT/io/OutNetProc.cc` | host list, current socket, retry counter | `PickServer`, `Connect`, `DSEvent`, destructor | `NetDispatch` |
| Event server (innet) | `RAT/io/InNetProducer.cc`, `bin/ratserve` | client sockets, monitor, error flag | `Listen`: accept, send header, receive, process, answer | `NetDispatch`, `LoadHeader` |
| Primary generator queue | `RAT/gen/GLG4PrimaryGeneratorAction.cc`, `GLG4GenList.hh`, `GLG4Gen.cc`, `GLG4TimeGen.cc`, `GLG4DeferTrackProc.cc`, `Gen_RandomTrigger.cc` | queue of generators with their next times, clock, event window | `GeneratePrimaries`, `DeferTrackToLaterEvent`, `/generator/...` | `EventQueue` |
| Processor block | `RAT/base/ProcBlock.cc`, `RAT/cmd/ProcBlockManager.cc` | processor list, deferred list | append, defer, `DSEvent`, `Clear` | `RatJob` |
| Output file (outroot) | `RAT/io/OutROOTProc.cc` | open file, event and run tree | `OpenFile`, `DSEvent`, destructor | `RatJob` |
| Input file (inroot) | `RAT/io/InROOTProducer.cc` | chains local to `ReadEvents` | `ReadEvents` | `RatJob` |
| Run store | `RAT/DS/RunStore.cc` | cache of run records, one tree to read, one to write | `GetRun`, `AddNewRun`, `SetReadTree`, `SetWriteTree`, `FlushWriteTree` | `RatJob` |
| Program and signals | `RAT/bin/rat.cc`, `RAT/base/SignalHandler.cc` | phase of the job, pending signal | start, commands, Ctrl-C, end | `RatJob` |
| Constants database | `RAT/DB/DB.cc`, `DBLink.cc`, `DBTable.cc`, `RAT/cmd/DBMessenger.cc` | tables per name and run, keys refused by the server, links | load, set, read, fetch | `RatDB` |
| Database server and tool | `bin/ratdb`, `data/ratdb_couchdb.json` | documents with run ranges | views; `ratdb append` and others | `RatdbServer` |
| Simulation core | `RAT/core/Gsim.cc`, `GLG4SteppingAction.cc`, `Trajectory.cc`, hit classes | hit collection, trajectory flag, limit, centroids | run, event, track and step actions | `Gsim`; its event loop over jobs in `RatJob` |
| Vertex file generator | `RAT/gen/VertexFile_Gen.cc` | position in the file, the entry last read | `SetState`, `GenerateEvent`, `ResetTime` | `Gsim` |
| Other generators | `RAT/gen/Coincidence_Gen.cc`, `DecayChain_Gen.cc`, ... | sampled times | `GenerateEvent` | not modelled |
| DAQ and fitters | `RAT/daq`, `RAT/fit` | none between events | one event to one event | not modelled |
| Files outside the job | `RAT/io/DSWriter.cc`, `DSReader.cc`, `bin/ratmix` | merge queue | read, merge, write | not modelled |
| Chroma interface | `RAT/chroma` | the message of an event, a ZeroMQ socket | clear, store a step, send, receive, make hits | client in `Gsim` |
| Build engine | `python/SCons/Taskmaster.py`, `Node/__init__.py`, `Executor.py`, `Script/Main.py` | node states, waiting lists, reference counts, candidates | find the next node, make ready, execute, postprocess, fail, clean up | `Taskmaster`, `BuildOrder` |
| Build jobs | `python/SCons/Job.py` | two queues, a count of jobs, workers, the interrupt flag | `Serial` and `Parallel`, thread pool, signals | `ParallelBuild` |
| Build signatures | `python/SCons/SConsign.py`, `dblite.py`, `Node/FS.py`, `Node/__init__.py` | entries of `.sconsign`, signatures and time stamps of the files of a build | visit, compare, decide, merge, write | `SConsign` |
| Rest of the build tool | `python/SCons` | environments, tools, configure checks | substitution, tool set-up, checks | not modelled |
| Geometry | `RAT/geo` | volumes by name | place volumes after their mothers | tables only, in `RatDB` |
| Text and JSON parsers | `RAT/DB/DBTextLoader.cc`, `json.cc` | none | parse | failure only, in `RatDB` |
| Physics processes | `RAT/physics` | none of its own | sampling inside Geant4 | not modelled |
| Test driver, helpers | `bin/rattest`, `RAT/io/TrackNav.cc`, `util`, `tools` | none of the running program | - | not modelled |
| Vendored code, data | `RAT/stlplus`, `python/couchdb`, `extern`, `cry`, `data`, `mac` | - | - | not modelled |

### 1.2 Interaction

A macro drives everything: commands build the processor block, load and set
database tables, add generators, and then start an event loop. The loop is
Geant4's (`Gsim`), the reader of a file (`inroot`) or the listener on a port
(`innet`); each calls `ProcBlock::DSEvent` for each event. The `outroot`
processors share the global `RunStore` with the producers. An `outnet`
processor is the other end of an `innet` producer in another process. The
generator queue is called by Geant4 at the start of each event, and gets
tracks back from a Geant4 process while the event is tracked. Everybody reads
the database through links, and it fetches what it lacks from a CouchDB server
that people change with `ratdb` while jobs run. The signal handler sets one
flag, which the loops and the output files read. Before any of this, `SConstruct`
and the SCons copy in `python/SCons` build the program: the only part of the
repository that runs threads.

### 1.3 What is hard, and what makes each part correct

*Network.* Several clients and servers, each a single loop with blocking
calls; either can die at any point, connections break, and a retry may meet a
server which has done the work already. Correct: an event is taken back once,
in order, and only after it was processed; an answer is never taken for another
event; nobody waits for an answer nobody owes; connections that were given up do
not weigh on a server's load; the least loaded server is picked.

*Generator queue.* All times in the queue are relative to an event start that
moves, some entries have a time that is not drawn yet, and an entry can be
inside the window or beyond it. Correct: nothing is lost, nothing is in two
events, nothing moves in absolute time, and the rate of a generator does not
depend on how time is cut into events.

*Job and files.* Several processors flush one global store; the tree that is
registered for reading belongs to a function that has returned; Ctrl-C can
come at any point, also while files are closed; a crashed job leaves half a
file to the next one. Correct: run records are written once and reach the file
whose events need them; a file's status does not claim what did not happen.

*Database.* The order in which tables are set, loaded, fetched and read
decides what is read; answers are cached, also negative ones; the server changes
meanwhile. Correct: what was set is read back, the server is asked once, a read
does not change other reads, and there is one document for each run.

*Simulation.* Geant4 calls back for each track, and again for each part of a
track that was suspended; the hit collection, the message to Chroma, the tracking
manager's flag and the position in the vertex file outlive the event. Correct: an
event has the photons detected in it and no others; it has the tracks that the
user asked for, each with every step once; an event is aborted at the limit and
counted once; entries of the file are simulated in order; a run stops after Ctrl-C.

*Build.* One thread walks a graph that it discovers on the way (a generated header
is scanned only when it exists), several run commands; nodes wait for children,
for side effects, or share a command; commands fail, results are fetched from a
cache, signals come. Correct: nothing is made before what it depends on, twice,
or beside a command that writes the same file; no node is forgotten; a cycle is
reported only if there is one; the build ends and all threads with it.

*Incremental builds.* What a build knows of a file at its end is merged with what an
earlier one knew, and the record is replaced in two steps; meanwhile people edit
and delete files, commands fail half-way, Ctrl-C and kills come. Correct: a target
that is passed as up to date has what its command would make now, and after a build
that went well nothing is made again until something changes.

The hazards are listed line by line in `PROJECT.json`.

## 2. Modules

| Module | What it is |
|---|---|
| `NetDispatch` | outnet clients and innet servers over connections that fail |
| `LoadHeader` | the bytes of the header a server sends, and what a client reads of them |
| `RemoteLoop` | abstract: each event is processed remotely at least once and a bounded number of times, and comes back once |
| `NetDispatchMC` | host lists for TLC |
| `NetDispatchProofs` | theorems about `NetDispatch` |
| `EventQueue` | the primary generator's queue, in relative time |
| `Timeline` | abstract: the same in absolute time, where nothing ever moves |
| `EventQueueProofs` | inductive invariant, theorems, refinement proof |
| `EventQueueMC` | values for TLC |
| `RatJob` | jobs, processors, event loops, run store and files |
| `RatJobMC` | values for TLC |
| `RatJobProofs` | inductive invariant and theorems about `RatJob` |
| `RatdbServer` | the documents on the server and the steps of `ratdb append` |
| `RatDB` | the database of one job; extends `RatdbServer`, so that the tool's steps interleave with those of the job |
| `RatDBMC` | tables, documents and files for TLC |
| `RatDBProofs` | inductive invariant and theorems about `RatDB` |
| `Gsim` | the callbacks of the simulation, the vertex file and the Chroma client |
| `GsimMC` | symmetry for TLC |
| `GsimProofs` | inductive invariants and theorems about `Gsim` |
| `BuildGraph` | what a build is told: graph, options, state of the disk |
| `BuildOrder` | abstract: the order in which commands may start and end |
| `Taskmaster` | the walk over the graph, as operators on a record |
| `ParallelBuild` | main thread, queues, workers and signals; extends `Taskmaster`, implements `BuildOrder` |
| `ParallelBuildMC` | the builds for TLC |
| `TaskmasterProofs` | what the methods of the walk preserve: lemmas about operators, no steps |
| `ParallelBuildProofs` | theorems about `ParallelBuild`: tasks, counts, types, the proof that it implements `BuildOrder`, and what a build's end means; at its end the theorems about `BuildOrder` itself |
| `SConsign` | what builds remember for one another, with edits, failures and crashes in between |
| `SConsignMC` | two targets and two sources for TLC |
| `SConsignProofs` | two inductive invariants and theorems about `SConsign` |

A definition named `Wrong...` is a plausible mistake in the definition after
it. No specification uses one; each stands beside the definition it shadows so
that one can see which property would notice the mistake.

### 2.1 NetDispatch

`ClientStep(c)` is one step of a client process: `Connect` and `ReadHeader` are
`PickServer` with one host at a time, `PickDone` its end, `NextEvent` the event
loop that calls `DSEvent`, `Send` one evaluation of the `while` condition
around `SendObject`, `Recv` everything from `Recv` to the return. `ServerStep(s)`
is one step of `Listen`: `Accept` with the header that is sent, `Select` with
what is received and the processing of the event, `Reply`, and `StopOnError`.
The steps end where the code makes a blocking call, so other processes and
failures come in between exactly where they can in the program.

Connections are external (ROOT's `TSocket`): a record of two open flags, two
reset flags and two sequences of messages in flight. A close with unread data
becomes a reset, a send to a closed end is accepted and lost and may provoke
a reset later, as TCP does. `Environment` has the failures: a process is killed
anywhere, interrupted at the loop head, restarted, `Accept` fails, the network
breaks one end. `offers`, `served` and `got` are history.

`LoadHeader` is byte by byte on purpose: server and client disagree on the
header's layout (a counted string there, an `int` here), and `PicksLeastLoaded`
holds only because the misread double is still ordered like the load. It covers
loads below 4096 (`Loads`), whose mantissas have 12 bits, so `NetAssumption` bounds
the simultaneous connections, `Conns`, by that; a process usually has no more
descriptors than that.

### 2.2 EventQueue

`StartEvent` is `GeneratePrimaries` up to the pile-up loop (the reset loop, the
search of the earliest member, the stamp, the clock, the shift of all times);
`Fire` is one turn of that loop, `Filled` its end; `Defer` is
`GLG4DeferTrackProc` with `DeferTrackToLaterEvent`; the commands come between
runs, that is, where no event is under way. A generator is reduced to the
intervals it can draw; a new one has garbage for its time, as the constructor
leaves it uninitialised. `stopped`, `resumed`, `lost`, `covered`, `last` are
history. Times are integers; rounding of doubles is not modelled.

### 2.3 RatJob

`pc` is "macro" between commands, "loop" in an event loop, "close" while
`ProcBlock::Clear` deletes the processors one by one, or says how the job ended
("down": it left or was killed; "null" and "freed": it read a null pointer or a
deleted tree). `Event` is one call of `ProcBlock::DSEvent` with all it does:
looking up the run, appending the deferred processors at the first event, each
processor in turn until one aborts, and opening the default file where
`outroot` has none. `Delete` is a destructor: flush, mark, status, write, close.
`SigInt` can happen in every state, `Die` too; `AutoSave` is ROOT writing events
to disk in between. A file remembers the job it comes from only by history
fields. Use of a freed tree is a choice among what can come of it: it looks
empty, or the job crashes.

### 2.4 RatDB and RatdbServer

`tables[k]` is the table of the modelled name under key `k` (-1 user plane,
0 default, above it a run). `Fetch`, `FindTable`, `Pick`, `LoadTable` and
`FindOrCreateTable` are functions from database to database, translated from
the methods of the same names, so that an action composes the calls a command
makes in the order in which it makes them. A field has a `value`, the JSON value in its
table, and a type that is `kept` beside it: `DBTable` keeps the type of an array that was
set, and of one that is attached to a document, and `GetFieldType` looks there first
(`FieldType`). The type decides which plane answers (`Holds`), the value what the getter
then gives, or that it throws (`Value`). `Set` writes what `SetI`, `SetD`, `SetIArray` and
`SetDArray` write: a scalar leaves the kept type as it was (`Overwritten`), and an array is
refused unless the old field can be read as an array of integers (`Refused`); an error
other than a missing field ends the job. `LoadRun` is one turn of the loop of `LoadTable`. An
index of a table is part of its name. `InitDocs` has the sets of documents a job may
find on the server at its start.
`ratdb append` is one action per request: copy, save, delete, upload.

### 2.5 Gsim

`pc` says where Geant4 is: between runs, between events, between tracks, in a
track, or after a track that was stopped or suspended. Each callback of `Gsim.cc`
is an action with its name. `GenerateEvent` takes several entries at once when the
later ones pile up in the same event; `ResetTime` allows that as long as there are
entries, and with a window below one second no longer (it then puts the next
time at 1e9 ns). `ChargedStep` is a step of a charged particle, which may make a
scintillation photon, a Cherenkov photon (the track is then suspended, as
`PhysicsList.cc:71` asks for) or an entry in the message to Chroma;
`PhotonStep` is the last step of an optical photon, detected or not. Geant4 picks
the next track in any order. A photon is named by event, track and step, so that
one that turns up in another event is noticed. `event.made`, `run.used`,
`run.late`, `run.aborted` and `asked` are history. Times, positions and energies
are left out: a centroid is the number of steps in it.

### 2.6 BuildGraph, Taskmaster and ParallelBuild

A build is a record: the graph, what the scanners find in which file, which
files are on disk or in the cache, which commands fail, the options `-k`, `-i` and
`-j`. Node states, waiting parents, reference counts, candidates and pending
children are one record, the *walk*; every method of `Taskmaster.py` is an
operator from walks to walks, or to sets of walks where the order is that of a
Python set or of `--random`. `ParallelBuild` makes steps of them: the main thread
considers one candidate (`Skip`, `NothingToRun`, `PrepareFails`, `Dispatch`) or
collects one result (`Collect`); a worker takes a task, fetches a target from
the cache, starts its command, ends it. With one job (`Execute`) the main thread
takes the place of the worker. `Signal` comes between any two steps.

The walk belongs to the main thread, with one exception: `Task.execute` writes node states
from the worker when it finds a target in the cache. A build with a cache and several jobs
is `Racing`. There the main thread considers a candidate in two steps, `Look` (scan it and
read its children) and the rest (read their states, wait for them or make a task), and
a worker fetches in two or more, `MarkFetched` (`set_state`) and `ResetParents` (the loop
of `Node.built` over the waiting parents, in any order and in parts). In between the other
thread may add a waiting parent, and the loop misses it or raises (`ResetRaises`); a scan that
is being reset may be read in part (`Torn`). In other builds only one thread touches nodes,
and a step is the whole method. RAT's own `SConstruct` and `config` never name a cache
directory, so its builds are of the other kind.

What a scanner finds depends on when it looks. The scanners of C are of the class `Current`
(`Scanner/__init__.py:296`): a file without a builder is read; one with a builder only if it
is up to date at that moment, else it counts as empty. `Current` and `Absent` name the cases in
which the walk knows the answer: a file that its command has made is read, one that is not
there is not. In between, for a file that is there from before, or is just being fetched,
`Scans` allows both. A wrong impression stays: `get_found_includes` remembers it until
`Node.built` clears the node, and a file that turns out to be up to date is not built.

`BuildOrder` knows nothing of walks: a node is built, a command runs, another
may begin once what its targets need is there. `Needs` are sources and dependencies,
and what scanners find in sources and in files that this build has made; what they find in a
file that was not made again, or beside racing threads, the code does not promise (section 5).
The refinement takes for built the nodes that were up to date or executed at some time
(`made`), and for running the commands that run or whose result waits in the queue.

What a build is told (`BuildGraph`) satisfies `BuildsAssumption` by the way the code
makes it: all targets of a command have the same executor, and so the same targets,
dependencies and builder (`OneCommand`); a scanner is given the sources and
dependencies of the node, and a generated file that it looks into is not generated from one
that is looked into in turn (`ScansChildren`): to see whether the first is up to date, the code
scans it itself, before its turn. Two predicates name the builds for which
the walk keeps its promises. `WrittenOnly`: what commands only also write is no
target of the command line, has no builder, and nothing depends on it. `Orderly`:
besides, a command of several targets has none in the cache, a scanner raises only for
targets without side effects, `-i` comes only where nothing but commands fails, and what
can be found is found in time (`Foreseen`): no threads race, and the generated files that
scanners look into are not there from before, as in a fresh tree.
Neither is checked by the code; what it does otherwise is in section 5.

### 2.7 SConsign

A file has a content, which stands for its MD5 signature, and a time stamp: a number
that each change raises (a second change within one tick of the clock is not
modelled). `db` is the `.sconsign` file, an entry for each node: signatures of the
dependencies, signature and time stamp of the node itself. `ninfo` is what the build
that runs knows of a file: `get_timestamp` reads the disk once and remembers, so a
file that changes later keeps its first time stamp (`Stamp`); `get_csig` computes a
signature when it is first asked for, unless the file has not changed for `max_drift`
(two days) and the record has its time stamp (`MaxDriftCsig`). `Scan`, `VisitSource`,
`VisitTarget`, `Prepare`, `Built` and `Failed` are the steps of the walk that matter
for signatures, in any order that keeps dependencies: the order itself is
`Taskmaster`'s. `Unlink` and `Rename` are `dblite.sync`. `Edit`, `Delete`, `Wait` and
`Crash` can come between any two steps, as far as the world allows.

There are two worlds. In the calm one builds are left alone, files may get back an old
content, targets are deleted, days pass. In the rough one files are edited while a
build runs, commands fail and leave a part of their target, Ctrl-C and kills come, but
no content comes back and no days pass. Both at once break `UpToDate` in ways that are
known and listed in section 5; each alone keeps it.

`SConsignAssumption` asks for what the build has anyway: the targets are finitely many and
none depends on itself, since the Taskmaster refuses a cycle (`rank` numbers them along
their sources). It also leaves one thing out: an included file includes nothing, and no
two targets share a source that includes something. `get_found_includes` remembers what it
found in a file until the build ends, so a second target that asks gets the first one's
answer; here every scan reads the disk. `Absent` and `None` are records unlike any other,
so that what is there and what is known can be told from what is not.

A command is a function of its dependencies that the build knows of; the signature of
its command line is left out, as are the other deciders, repositories, the cache, `-n`,
`-i`, `--implicit-cache`, `AlwaysBuild` and a `.sconsign` for each directory.

## 3. Runs

| Run | Instance | What it shows |
|---|---|---|
| `net_shared` | 2 clients (one whose events the server cannot read), 1 server, 2 events, 1 retry, 2 failures | `TypeOK`, `AnswerIsForEvent`, `OneInFlight`, `TakenWasServed`, and `NetDispatch` implements `RemoteLoop` |
| `net_live` | 1 client, 2 servers, 2 events, 2 retries, 2 failures, with fairness | `AbandonedIsBroken`, `PicksLeastLoaded`, `Completes`, `LoadSettles` |
| `net_hang` | 1 client, 1 server, 1 event, 1 retry, 2 failures | **violated**: `AwaitsSentEvent` |
| `queue_time` | 2 generators (one a trigger), 1 deferred track, 3 events | `TypeOK`, `DeferredKeepsTime`, `DeferredNotLost`, `NoOverlap`, `GapsKept`, and `EventQueue` implements `Timeline` |
| `job_files` | 2 jobs, 2 files, 2 runs, 2 processors, 2 loops per job, 1 event per simulation | `TypeOK`, `RecordsWrittenOnce`, `SelfContained`, `StatusHonest`, `RecordFollows` |
| `db_planes` | 1 table, 2 runs, 2 fields, a file table for the user plane and one for the runs, an integer and an array of integers to set, documents for the runs and the default plane or for the user plane, one of them with an attachment, 1 append | `ReadYourSets`, `AskedOnce`, `ReadsDoNotDisturb` |
| `build` | 6 nodes, 2 workers: all 64 graphs on three nodes with their cycles, all 64 graphs without cycles on four with a failing command under each of stop, `-k` and `-i`, and projects with generated files, side effects, commands of two targets, files from before, a cache with one job and with two, missing sources and signals | `TypeOK`, `RefCounts`, `Accounted`, `NothingLost`, `ReportsAreReal`, `ParallelBuild` implements `BuildOrder` (`Ordered`), `Terminates` |
| `build_keep` | one graph of 5 nodes without cycles, 2 workers, `-k`, one command that may fail | **violated**: `OnlyCyclesReported` |
| `gsim` | 2 PMTs, a file of 2 entries, 2 runs of up to 2 events, 3 tracks of up to 2 steps, 1 noise hit | `TypeOK`, `OwnPhotons`, `PmtsOnce`, `TracksAsAsked`, `AbortedAtLimit`, `EntriesInOrder`, `StopsAfterSignal` |
| `gsim_centroid` | the same with one event | **violated**: `CentroidCountsOnce` |
| `sconsign` | 2 sources, one of which can include the other, an object and a program; 3 builds, 2 edits or deletions, 3 versions, both worlds | `TypeOK`, `UpToDate`, `NothingToDo` |
| `sconsign_mixed` | the same, rough world | **violated**: `OnePointInTime` |

### 3.1 Bounds

- `NEvents`, `Retries`, `MaxFaults`, `Conns` (network). The code's 5 retries are
  1 or 2: what matters is the last retry, the one before it, and more failures
  than retries, all of which occur. With two events an answer can come late for
  the event before. There are as many
  connection identities as the instance can use at once (7 in `net_live`, 6 in
  `net_shared`, 5 in `net_hang`), so `Connect` never waits for one
  and the bound cuts nothing off; in `net_hang` the counterexample needs two.
- `Gaps = {1, 3}`, `Windows = {2, 4}`, `Late = {0, 5}`, `MaxEvents = 3` (queue).
  A gap is smaller than, between and equal-sum to the windows, so that
  vertices fall before, on and beyond the end of a window; a track stops on the
  end of the window or so late that several events pass it by; `Garbage` is
  negative once and positive once.
- `MaxJobs`, `MaxProcs`, `MaxLoops`, `MaxEvents` (job). Two jobs: one leaves a
  file, the other reads, replaces or appends. Two loops: the second meets the
  tree the first one freed. Two processors: two that share the store, or a
  filter and an output.
- Runs 1 and 2 and a document that covers 1..3, or none for runs (database): a range
  across and beyond the runs that files fill, and a run that the server refuses until
  `ratdb append` brings a document for it. One field of the user table is an array
  from a text file or an attachment, the other a scalar or nothing: a scalar and an array
  are each set over nothing, a scalar, an array and an attachment. Each is also read by every
  type. `asked` counts to 2, as only
  "more than once" is asked for. One append is enough to come between any two
  reads at each of its four steps.
- `Builds` (build). A wrong count needs a node that waits for two children, or two
  that wait for one; a report of a cycle needs a cycle of two or three; a
  forgotten node needs a chain through it. All of these are among the graphs on
  three and four nodes, which are complete; the larger projects have six nodes.
  Two workers: one runs while the other fetches, refuses or quits. Builds in
  which the code does not keep its promises are kept out of `AllBuilds`; section 5
  names them: a command of several targets of
  which only some are in the cache, `-i` with a preparation that fails, side effects
  of a node that is not scanned. `ParallelBuildMC` assumes `AllOrderly`, so TLC checks
  that the hypotheses of the theorems hold for every build of the run but those of
  `Header` and `Twice` in which scanners look into files from before, or threads race.
  `Header` is a generated file that includes another, each on disk or not, in the
  cache or not, with one job and with two; in `Twice` a candidate is looked at while
  a worker fetches what it waits for.
- `Entries = 2`, `MaxEvents = 2`, `MaxRuns = 2`, `Offsets = {0, 2}`, `Limits = {0, 1}`
  (gsim). A run meets the end of the file in its first event, its last, by
  pile-up, or starts beyond it; the second run sees what the first one left. Two
  photons pass the limit of one. Two steps of a charged track allow a suspension
  and what comes after it; three tracks are two charged ones and a photon, or one
  and two photons. Only one kind of particle is named by the commands, the other
  one is tracked without being named.
- `MaxEdits = 2`, `MaxBuilds = 3`, `MaxVersion = 2` (sconsign). One build makes the
  records, one is disturbed or finds an edit, one shows what came of it. Two edits are
  a change and its undoing, a change of each of two files, or one before and one after
  a file is visited. The second version of the code includes the header, so that the
  list of dependencies grows and shrinks; the header is a dependency of both targets.

All runs turn the deadlock check off: clients finish, jobs are over, bounded
counters are used up, and then the system may stop.

### 3.2 Fairness

`net_live` assumes weak fairness of `ClientStep(c)` and of `ServerStep(s)`, one
condition per process. Each process is one loop which the
operating system keeps scheduling, and a step is enabled exactly when its call
would not block. There is no fairness for failures or for restarts. The choice
among ready sockets is left to `TMonitor`. `Completes` holds in the instance of
`net_live`, where a client has no more failures than retries; `net_hang`
shows what happens with one failure more than retries, at the wrong place.

`build` assumes weak fairness of `Main` and of `Work(x)` for each thread: the
interpreter keeps scheduling its threads, `Queue.get` wakes up a thread that waits
when there is an entry, and commands end. A command that never ends would keep
the build from ending, in the code as in the model. A signal need not come.

## 4. What is proved

Every safety invariant and every action property that a passing run checks is a
theorem here, for all values of the constants that satisfy the assumptions of its
module; some have a further hypothesis, which the tables name. Both refinements,
`RemoteLoop` and `Timeline`, and the order that the build keeps, `BuildOrder`, are
theorems too. What is left to TLC is liveness (4.8).

### 4.1 The generator queue

`EventQueueProofs` proves, for any sets of generators and tracks, any intervals,
windows and number of events that satisfy `QueueAssumption` (intervals and
windows are natural numbers, garbage an integer, generators and tracks distinct
and finite):

| Theorem | States |
|---|---|
| `TypeCorrect` | `Spec => []TypeOK` |
| `KeepsTime` | `Spec => []DeferredKeepsTime` |
| `NotLost` | `Spec => []DeferredNotLost` |
| `Disjoint` | `Spec => NoOverlap` |
| `Spacing` | `Spec => GapsKept` |
| `Implements` | `Spec => ImplementsTimeline` |

None of these properties is inductive. `DeferredKeepsTime` speaks of tracks
already put back; that it is kept when a track fires needs to know that a
*waiting* track is at the right place, although its stored number changes with
every event: `Place` says that clock plus stored time is the time at which it
was stopped. That nothing is due before the end of what the last event covered
(`Ahead`) gives `NoOverlap` and `now \in Nat`, and needs the exception for times that
are still to be drawn, since a new generator has garbage there. `Spaced` says
where a generator's next time lies relative to its last vertex, which gives
`GapsKept`. Their conjunction with the type invariant is `IInv`;
`InitIInv` and `NextIInv` (one lemma per action) make it inductive. The
refinement maps a queue entry to clock plus stored time: `StartOpens` shows that
moving the clock and shifting all entries cancel out, `FireTakes` that a turn
of the pile-up loop takes the earliest due entry, `OthersMap` the rest.

### 4.2 The build

`ParallelBuildProofs` proves of the abstract specification, for any builds that
satisfy `BuildsAssumption`, that a node that may be used has all it needs
(`ClosedAlways`), that two commands that run write nothing in common
(`ApartAlways`), and that no command runs while another makes what it needs
(`InputsAtRestAlways`). The first two are inductive only together and with the
fact that what runs was begun: a command begins only for targets that
were never begun, so it shares no target with one that runs.

Of the walk and the jobs, for any finite set of nodes, any builds that satisfy
`BuildsAssumption` and any finite set of workers:

| Theorem | Module | States | For builds that are |
|---|---|---|---|
| `AccountedAlways` | `ParallelBuildProofs` | `Spec => []Accounted` | any |
| `BoundedAlways` | `ParallelBuildProofs` | `Spec => [](jobs \in 0 .. MaxJobs)` | any |
| `RefCountsAlways` | `ParallelBuildProofs` | `Spec => []RefCounts` | `WrittenOnly` |
| `TypeCorrect` | `ParallelBuildProofs` | `Spec => []TypeOK` | `WrittenOnly` |
| `OrderedAlways` | `ParallelBuildProofs` | `Spec => Ordered`, the refinement of `BuildOrder` | `Orderly` |
| `RunningApartAlways` | `ParallelBuildProofs` | no command runs while another makes or also writes what it reads or writes | `Orderly` |
| `NothingLostAlways` | `ParallelBuildProofs` | `Spec => []NothingLost` | `Orderly` |
| `ReportsAreRealAlways` | `ParallelBuildProofs` | `Spec => []ReportsAreReal` | `Orderly` |

*Counts of jobs.* `Accounted` is not inductive by itself: that `jobs` is at least one when a result is
collected follows from the queue not being empty, that it stays below the bound
when a task is handed out from where `start` is (`pc`), that no worker has a task
at the end from the count being zero, and that a worker finds no task in the queue
after the end from all entries being sentinels. `CountInv` has these; one lemma for
each action moves a task from one of the three places to the next.

*Reference counts.* `Counted` says of a walk what `RefCounts` says of the state. It
is kept by every method of the Taskmaster, but not alone: `will_not_build` and
`postprocess` lower the count of a parent once for each of their nodes that the parent
waits for, so the proof needs types, that a node waits only for what it depends on
(`WaitsForDeps`), and that a scan finds only what there is to find (`ScannedFrom`).
Together they are `Sound`. A parent that waits for a side effect is counted down by
`postprocess` and left in its list, if the command failed; `WrittenOnly` excludes that
anyone waits for one. `WalkInv`
lifts `Sound` to the system, with the fact that tasks are sets of nodes.

*The order.* `TaskmasterProofs` collects in `Steady(g, w, B, F)` what holds of a walk
`w` when the commands of `B` were started and the tasks `F` are under way: the walk goes
only to nodes that are asked for (`Named`); once one target of a command is being
made or was, no other target of it is a candidate again (`Together`); what may be used has
all that it depends on (`Supplied`); what a scanner would find in a child was found
already, or the child is still to be made and its end will forget the scan (`Fresh`,
the clause that the call of `Node.built` on waiting parents is there for; it is also where
`Foreseen` is used, as a scan of a file from before finds what it likes); a task
has all it depends on, and its side effects to itself (`Held`). For each method
there is a lemma that it keeps `Steady`, with the conditions under which it is called
as hypotheses. `Fresh` and `Supplied` need each other: a node becomes ready when
nothing that it waits for is left, and that this is everything follows from `Fresh`.

`ParallelBuildProofs` adds where each task is. `Stages`: in the request queue no target was
begun and all are executing; while a worker fetches, exactly the fetched ones are
executed; while the command runs, all are executing again; a result agrees with both.
`Separated`: no two tasks, in queues or with workers, share a target or a side effect.
Their conjunction with `Steady`, as long as the main thread has not ended, is
`OrderInv`. With it each step maps to one of the abstract order: `NothingToRun`
and `Fetch` to `Settle` (the target is no part of a running command, and what it depends on
is there), `Run` to `Begin`, `Collect` and the report of the only thread to `End`, or
to `Settle` when everything was fetched, the rest to stuttering. That a fetched target
settles is where `Orderly` is used: with a second target that is not in the cache, the
command would begin with a target that may be used already.

*The end.* That no node is forgotten is a claim about every waiting list at once, since
a node may be put back by the end of any command, and only then. `Track(g, w, F, X)`
says of a walk `w`, with the tasks `F` handed out and the nodes `X` in the main
thread's hands, where a node can be:

- `Remembered`: a pending node is a candidate, waits for a node or a side effect that
  a task in `F` will give back, or was lost to a failure (`Lost` names the two ways);
- `Met`: what is waited for but was not visited is a candidate, and so is every target of
  the command line that was taken; `Reached`: nothing but what is needed is visited;
- `Moving`: what executes belongs to a task in `F`, and whoever has waiting parents will
  still be dealt with or has failed;
- `Blamed`: a failed node failed with its command, or after one it depends on; with `-i`
  nothing fails, and after a failure that stops the build nobody waits for the failed;
- `Awaited` and `Acyclic`: pending nodes cannot all wait for one another, unless one of
  those waited for was put into `pending_children`, and each of these is waited for.

Each method of the walk keeps `Track` while it moves nodes between `F`, `X` and the lists;
the lemmas `...Track` of `TaskmasterProofs` say so, and `StepTrack` of `ParallelBuildProofs`
joins them for the steps of the main thread. At the end there are no candidates and no tasks,
so every node that is still pending waits for a pending node or was lost. If there is
none among the top targets, all are dealt with (`NothingLost`). If the report is of a
cycle, some pending child is left, and the nodes that wait are a set in which each
depends on another; such a set is finite, so it contains a cycle (`OnCycle`).
`Tracked` is `OrderInv`'s companion over the states of the system: `Track` while the
build runs, its consequences after the end.

The hypotheses are satisfied by all the builds TLC checks (`AllOrderly`), which are those
with and without cycles, failures, generated files, side effects, commands of several
targets, a cache with one job and signals, except the builds of `Header` and `Twice` that are not
`Foreseen`. What else is excluded breaks the property (section 5). That is so of `Foreseen` in
part: with files from before, or a cache and several jobs, `Ordered` and the others still hold
in all builds TLC tries, as `Needs` asks for less there, but they are not proved. What `Needs`
leaves out does go wrong: with all that a scanner could find in its place, TLC refutes `Ordered` for
`Header` with the generated file on disk and one job, and for `Twice`.

### 4.3 The simulation

`GsimProofs` proves for any PMTs, commands, limits and numbers of entries, events,
steps and tracks that satisfy `GsimAssumption`:

| Theorem | States |
|---|---|
| `TypeCorrect` | `Spec => []TypeOK` |
| `StopsAfterSignalAlways` | `Spec => []StopsAfterSignal` |
| `EntriesInOrderAlways` | `Spec => []EntriesInOrder` |
| `TracksAsAskedAlways` | `Spec => []TracksAsAsked` |
| `OwnPhotonsAlways` | `Spec => []OwnPhotons` |
| `PmtsOnceAlways` | `Spec => []PmtsOnce` |
| `AbortedAtLimitAlways` | `Spec => []AbortedAtLimit` |

`Types` is stronger than `TypeOK`: it knows the fields of the run, the event and the
tracks, and where a track is being tracked. `Late` adds to `StopsAfterSignal` that the
one late event finds the signal pending at its end. `Order` says why the next entry
continues those of the run: while the run goes on, the file stands behind the last
one used and has more; past the end only a run that has used none can begin an event,
and `OutOfEvents` then stops it.

`TracksAsAsked` speaks of the moment when an event is given to the processors;
`Trajectories` says what holds all the way there. The flag of the tracking manager is
the user's between runs and until the first track of an event, and `run.initial` is in
between. A track on the stack has its whole path so far if it is wanted, and nothing
otherwise. The track that is being tracked has been cut at some step `b`: what came
before it is the path up to `b`, what is recorded now are the points from `b` on,
and once it has stopped or is suspended it has taken a step since. `AppendStepFacts`
and `MergeFacts` say that recording and merging such pieces gives the path again, for
any length; this is where a lost or doubled point between two parts would show.

The last three theorems come from one invariant, `HitInv`, which follows the photons
through an event. `Photons` says that the hit collection is a `HitList` of the photons
made so far: each PMT is there once, no photon is on two PMTs, together they have these
photons and no others; and that every photon belongs to a step its track has taken, on the
track of an optical photon if Geant4 detected it, of a charged particle if it was sent to
Chroma, which is why the two never meet. `Limit` says between which steps the limit is
passed and not yet acted on; it counts with `Count(hits)`, a fold over the list, and the
property with `Cardinality`. `Result` is what is left in the event that was delivered.

`Count`, `MakePhotonHitData` and the noise loop are folds of the community modules, and what a
fold computes is proved for lists of every length: `FoldSeq`, `FoldSet` and `FoldLeft`
come down to a function on the subsets of a finite set; there is exactly one such function
(`FoldExists`, `FoldUnique`), and what is true of its value at the empty set and is kept when
an element is added is true of every value. `LeastSubset`, from the well-foundedness of
the subsets of a finite set, takes the place of induction in all of this. `CountFacts`,
`ReplyFacts` and `NoiseFacts` are the results for the three loops.

### 4.4 The network dispatch

`NetDispatchProofs` proves for any clients, servers, host lists, events, retries and
failures that satisfy `NetAssumption`:

| Theorem | States |
|---|---|
| `TypeCorrect` | `Spec => []TypeOK` |
| `OneInFlightAlways` | `Spec => []OneInFlight` |
| `AnswerIsForEventAlways` | `Spec => []AnswerIsForEvent` |
| `TakenWasServedAlways` | `Spec => []TakenWasServed` |
| `AbandonedIsBrokenAlways` | `Spec => []AbandonedIsBroken` |
| `PicksLeastLoadedAlways` | `Spec => []PicksLeastLoaded` |
| `Implements` | `Spec => ImplementsRemoteLoop` |

The first four come from one invariant, `IInv`, which says of every process what it knows
of its connections. A client that probes a server may find nothing but headers there
(`Probing`); the best connection so far, and the one it works with between events, are
`Quiet`: accepted, nothing under way, no answer owed (`Chosen`); while it waits, every
request, every answer owed and every answer under way on its socket is for the event it
works on (`Waiting`). Of a server: what is in the backlog is not accepted, has carried no
message and is there once (`Backlog`), what it watches is open (`Accepted`), and it owes an
answer only while it is between reading and replying (`Answering`). `Flight` says of a
connection that it carries one message at most, and none while an answer is owed.
`OneInFlight` is not inductive without these: that `Send` adds to an empty connection
follows from `Chosen`, that `Accept` adds a header to an empty one from `Backlog`, that
`Reply` does from `Flight`. Answers of an earlier attempt never get in because a retry
never reuses its connection, and what comes with a connection is its header alone.

Most steps leave most processes alone. `KeepAll` says what a client, a server and a
connection need for that (`Unseen`, `Undisturbed`, `Fewer`), so that the lemma of an action
speaks of what the action touches; `LosingInv` and `TouchInv` are its two frequent cases, a
client's step that loses messages at most and a server's step on one connection.

`AbandonedIsBroken` needs `LInv` besides: a connection out of use (`InUse`) is broken or
closed. `Fades` says that no step but `Connect` gives a client a connection and that none
repairs one.

`PicksLeastLoaded` is about the bytes. What the client reads is the last two characters of
the version and the first six bytes of the load's double (`ReadFacts`, with `JoinFacts` and
`PartFacts` for the sequences). All of the exponent and the mantissa of a load below 4096 is
in the first three of these bytes (`DoubleFacts`); read as one number they grow with the
load (`ValueOrder`), since the exponent does (`Log2Order`) and the mantissa does for equal
exponents (`MantissaOrder`). `LoadOrder`
joins these: `Less` is `<`. The invariant `OInv` then says that the best load so far is at
most each load offered.

`Implements` says that whatever the sockets, servers and failures do, the event loop
that calls `DSEvent` gets what `RemoteLoop` promises. That an event comes back in order and
was processed follows from `IInv` (`ClientMaps`). That none is processed more than
`Retries + 1` times needs a count over all connections, `MInv`: how often an event was
processed, the connections with a request for it (`Requests`), and the sends that `DSEvent`
has left for it (`Attempts`) are together at most `Retries + 1`, and an event the client
has not come to has neither (`Within`, `Unsent`). `SendWithin` is the exchange of an
attempt for a request, `ServeWithin` that of a request for a processed event, `RetryWithin`
the loss of an attempt; `Dries` says that nothing else puts a request on a connection.

### 4.5 Jobs and files

`RatJobProofs` proves for any files, run numbers and bounds that satisfy `JobAssumption`:

| Theorem | States |
|---|---|
| `TypeCorrect` | `Spec => []TypeOK` |
| `RecordsWrittenOnceAlways` | `Spec => []RecordsWrittenOnce` |
| `SelfContainedAlways` | `Spec => []SelfContained` |
| `StatusHonestAlways` | `Spec => []StatusHonest` |
| `RecordFollowsAlways` | `Spec => RecordFollows` |

`Keeps` is the inductive invariant. `Owned` says whose a file is: open files belong to
one processor each, the write tree belongs to one of them, and a file is unfinished until
its processor is deleted. `Flushed` is the argument about the global store: before the
first file is finished no record is written and no processor has one; the first deletion
gives all of them to the processor with the write tree, whichever processor is deleted,
and later ones find nothing to write. So the records are in one file, which gets them when
its own processor is deleted, before or after. `SelfContained` follows when that file is
the only one, with `Known`: a record that an event has found stays in the cache.
`Reading` says that the file that is read is not one that is written, which is why its
records are still there for the last of its events; this needs the case in which a
processor opens the default file while another file is read. A crash at any point leaves
files that are unfinished, and `FreshKeeps` shows that nothing else of a job remains.

### 4.6 The database

`RatDBProofs` proves, for any tables, fields, runs, files and documents that satisfy
`ServerAssumption` and `DBAssumption`:

| Theorem | States | If |
|---|---|---|
| `AskedOnceAlways` | `Spec => []AskedOnce` | |
| `ReadYourSetsAlways` | `Spec => []ReadYourSets` | no document spans two planes |
| `ReadsDoNotDisturbAlways` | `Spec => ReadsDoNotDisturb` | no document spans two planes |

That no document spans two planes (`OnePlane`) is asked of the documents a job finds at
its start; that `ratdb append` makes none follows from `PlanesInv`. The code does not
check it, and stores a document for -1 to 5 over the user plane.

`FindFacts` says what a lookup does, in three cases; everything else is a composition of
lookups. `PickStays` and `LoadStays` turn that into what a read and the loading of a file
keep: a set of databases that no lookup leaves is not left by them. `LoadTable` is a
recursive function over the runs of a file; that there is one (`StepsExist`), and that
all of its values stay in such a set, comes from `LeastIn`, the smallest element of a set
of integers, in the place of induction. `AskedOnce` follows from `Once`, a key that was asked is in memory or known
to be missing: a table is never removed, and a refusal never forgotten. `ReadYourSets`
follows from `Kept`: only `Set` and a user table change the user plane once it is there. A
value that was set has a type of its own, and beside it the table keeps no type, that one, or
that of an array which was there before; in the last case the property, and the code, promise
the value only to who reads it as JSON.

`ReadsDoNotDisturb` compares a read with itself before and after another one. `Seen`
is what a lookup finds, `Safe` that it does not meet two documents; since planes are apart,
a read comes down to them (`AnswerFacts`), although each of its lookups changes the
database for the next. `Grew` says what a read does to the other keys: a table comes from
a document for that key, a key is noted as missing only if there is no document for it, and
the user and default planes are filled only where they were empty. With one document for
a key (`OneDocument`) the fetched one is what the other read would have fetched
(`SeenAgain`). The two exceptions in the property are what is left over: the model
checker found the second, a run that was refused before.

### 4.7 The .sconsign file

`SConsignProofs` proves, for any files, sources and includes that satisfy
`SConsignAssumption`, and any number of edits, versions and builds:

| Theorem | States | If |
|---|---|---|
| `TypeCorrect` | `Spec => []TypeOK` | |
| `UpToDateAlways` | `Spec => []UpToDate` | builds are not disturbed where contents come back or days pass |
| `NothingToDoAlways` | `Spec => NothingToDo` | the same |

The hypothesis is that each of `Worlds` is one of the two kinds of section 2.7; the worlds of
the run `sconsign` are. Where builds are disturbed and contents come back, or are disturbed and
signatures are taken unread, the code does not keep the promise: `sconsign_mixed` and the
entry for `Node/__init__.py:1020` in section 5. So there are two invariants, and no
single one could be for both.

*Rough worlds*: a source may be written, a command fail, the build be stopped or killed at
any step. A record then need not be of the target that is there: the command may have
failed, or the build been killed before it wrote the record. What makes a wrong
record harmless is that its sources can never be again what it says. `Recorded` says just
this: a record is of the content that is there, or it is `Dead`, that is, no version of the
sources from now on makes it right. To speak of this, a content is `Known` for versions `v`
if it is made of sources that are not newer than `v`, and `Fresh` if it is made of
those of `v`, through any number of commands. Both would be defined by recursion over the
content; here they say that there is a set of contents with all that they are made of
(`Coherent`), which no induction is needed for. `KnownFresh` is the lemma that all rests
on: what was known and is not fresh now never becomes so again. `Rough(b)` is the
invariant, for the versions `b` that the sources had when the build began: signatures that
were read lie between `b` and now (`Read`); a scan was made of some versions in between
(`Scanned`); the records of the last build knew nothing newer than `b` (`Records`); and
a target that is done would be right if nothing had been edited (`Newest`, `NotOlder`,
`Current`), and leaves a record that is of it, or dead (`Remembered`). The hardest case is
a file that is edited after its signature was computed and before the command reads it:
then the record is of contents that the target was not made of, and it is dead because the
edited file will not be again as it was (`BuiltFacts`, `NowOld`).

*Calm worlds*: contents come back and signatures are taken unread, so a record cannot be dead.
Instead all that is known is so: `Fine` says it of the build's memory, `SameTime` that an
entry with the time stamp of the file has its signature (here `OnePointInTime` does hold),
`Matches` that a record is of the target that is there. That no target is left in the middle
when the build ends (`CalmAllDone`) needs the assumption that none depends on itself:
of the targets that were scanned and are not done, the one with the smallest `rank` would
have something left to do.

`TypeOK` says that a command finds nothing in the place of its target; its strengthening
`Typed` is the first part of both.

*Nothing to do*: while `settled` holds, there is a set `S` of targets with `Top` in it and all
that they depend on, each of which is there and has in its record the contents of what it
depends on now (`SettledAt`). Builds reach only `S` and find nothing out of date in it, so
they change neither contents nor what is in the records; this holds for builds that are
stopped, and for those that are killed with the old file still there. `NewlySettled` builds
`S` at the end of a build that went well, from what it has done; that the records are in the
new file before it takes the place of the old one is `Written`.

### 4.8 What is only model-checked

Liveness under fairness (`Completes` and `LoadSettles` of the network, `Terminates` of the
build) is out of the prover's reach: TLC checks it on the instances of section 3. The four runs that
expect a violation are counterexamples, and nothing is to be proved of them.

## 5. Where code and documentation differ

Four runs show a disagreement each (`findings` in `PROJECT.json`):

1. `net_hang`: `OutNetProc.cc:57`. When the send with the last retry fails, the
   client reconnects, leaves the loop without sending and waits for ever.
2. `gsim_centroid`: `Gsim.cc:426`. The steps of a track before it is suspended count
   twice or more in the energy centroid of the event.
3. `sconsign_mixed`: `SConsign.py:177`. A build that ends before a changed file was
   needed leaves in its record the signature of the old content beside the time stamp
   of the new one. Two days later the signature is taken for good, and the edit is not
   compiled.
4. `build_keep`: `Taskmaster.py:844`. With `-k` and two jobs, a node is marked as failed
   because its child failed before the node was considered, and nobody tells the node
   that waits for it. The third node that needs that one finds it pending, and the build
   ends with "Found dependency cycle(s) ... Internal Error: no cycle found", although the graph has
   no cycle. `ReportsAreReal` says when a report can be trusted.

Others were met while modelling and have no run of their own. They follow from
one line, or need nothing but that line to be seen:

- `GLG4PrimaryGeneratorAction.cc:164`: an event is stamped with the time of the
  event before it.
- `Gen_RandomTrigger.cc:23` sets the trigger time to 0 also when the trigger
  piles up inside the window (`EventInfo.hh:54`).
- `RunStore.cc:84`: with two outputs only the one opened last gets the run records.
- `OutROOTProc.cc:149`: appending to a finished file passes a null tree and crashes.
- `DBLink.cc:103`: a value set as an integer does not override a double; the
  reader gets the default, silently.
- `InNetProducer.cc:137`: a read error on one client ends the server for all, where
  `producers.rst:21` says it runs for ever.
- `InNetProducer.cc:108`, `:124`: the load counts connections that were opened only to
  ask for it, and those whose other end the network broke.
- `RunStore.cc:29`: the cache is keyed by run number only; a second input file with
  the same number gets the record of the first.
- `DBTable.hh:199`, `:181`: arrays attached to a document cannot be read; for
  integers the getter calls itself for ever.
- `DBTable.hh:155`: a number set over an array or an attachment leaves their type beside it,
  and `DBTable.cc:40` looks at that first. Who asks for a number finds none in the user plane
  and gets that of another plane or an error, although `DB.hh:246` has such fields set by the user to
  be read; who asks for the array gets an error. `ReadYourSets` leaves these reads out.
  `:199`: an array of doubles can be set only where there is no field or one of integers,
  so not even over an earlier array of doubles. `DB.cc:101`: the runs of a table in a file,
  and of a document, share one object; only tables of the user plane are changed in place,
  so it shows only for a table that spans two planes.
- `DB.cc:352`: a run that the server refused reads the default; when a document for it is
  uploaded meanwhile, it does so until a read of another run fetches that document.
- `DB.cc:428`: a document whose range goes from -1 or 0 into the runs takes the place of
  the user or default table.
- `DB.cc:193`: a new server does not reset the keys the old one refused.
- `DB.cc:105`: the run just loaded from a file may be overwritten by a document
  fetched to look up the next run of the same file.
- `DB.cc:415`: the memory limit counts documents from the server as 0 bytes and
  never evicts one.
- `bin/ratdb:192`: appending at the last run of the document before leaves two
  documents for it, and jobs that read that run end; `:183`: append takes the last
  document of another table when the table has none; `:208`: a range of N runs
  covers N + 1; the steps copy, save, delete are not atomic.
- `DSWriter.cc:92`: files written by ratmix lack run records.
- `VertexFile_Gen.cc:93`: entries pile up beyond NEVENTS, which only stops the run;
  a `beamOn` after the end of the file simulates the last entry once more.
- `Gsim.cc:592`: the energy loss by volume of an event is never filled from its
  tracks. `:814`: the table of photon tracks is enlarged one entry too late.
- `Gsim.cc:403`: hits from Chroma come after the tracking, so the limit on
  photoelectrons does not count them; an aborted event loses the trajectories of
  tracks that were suspended.
- `zhelpers.cc:25`: an error while a message of several parts is received repeats
  for ever. `Coincidence_Gen.cc:99`: fewer times than vertices after 100 trials.
- `Taskmaster.py:843`: a node without a builder that finds a failed child is not even marked as
  failed: with `-k` who waits for it ends in the report of a cycle too.
- `Scanner/__init__.py:203`, `:306`: a generated file that is on disk from before, and whose
  own dependencies are not up to date when the file is first scanned, counts as empty for the
  rest of the build (`FS.py:2532`), unless it is made again. If it turns out to be up to date
  once they are, nobody scans it again, and a command can start before a file that it
  includes is made. The same when a generated file is read too early in a chain of generated files that
  include one another, which `ScansChildren` excludes.
- `Taskmaster.py:231`, `:232`: with a cache and several jobs the worker marks a target as executed,
  and resets who waits for it, while the main thread walks (`Racing`). A node that reads its
  children in between can use a scan from before the target was there, so that its command starts
  before something the target includes; `for parent in self.waiting_parents` raises when the
  main thread adds one meanwhile, and the task, whose file is there, fails.
- `Taskmaster.py:231`: a target fetched from the cache counts as made although the
  command is run again for all its targets; a task that depends on it can read it
  meanwhile. The comment at `:217` says that `execute` does only what is safe in a
  thread; `set_state` and `built` are the exception. This is why `OrderedAlways` assumes
  that a target in the cache is the only one of its command.
- `Taskmaster.py:442`: a task whose scan raised was never given its side effects, yet
  `postprocess` resets them, while another command writes them; `Orderly` excludes it.
- `Taskmaster.py:287`: a side effect is reset before `postprocess` (`:442`) looks for it,
  so a parent that waits for the file itself is not freed there; with a failure its
  waiting parents are counted down but not cleared. This is why `RefCountsAlways` and
  `TypeCorrect` assume `WrittenOnly`.
- `Taskmaster.py:329`: after a failure that stops the build `postprocess` sees the top
  target in the place of the failed ones, so who waited for their side effects is
  not freed; if another node waits for it, the build ends with the report of a cycle where there is
  none (`SharedFails`).
- `Taskmaster.py:918`: with `-i`, a target whose preparation failed stays pending, and
  who waits for it is never built; `Orderly` excludes it. `Executor.py:601`: what a node without a builder
  depends on (`Depends`) is ignored.
- `Node/__init__.py:1020`: whether a target is up to date depends on the record of its
  dependencies, never on its own content. If a target is deleted or its dependencies are
  edited, a command fails or is killed and leaves a part of it, and the dependencies are
  then as they were before, that part passes as up to date. With `-i`, a target whose
  command failed is recorded as built.

## 6. Not modelled

- *Sampling*: positions, momenta, spectra, optical physics, DAQ and fitters
  are arithmetic on real numbers.
- *Parsers*: macro language, RATDB text and JSON, command line. A failure to
  parse ends the job; the database model has that as `ServerFails`.
- *Not in the parts that are modelled*: `savetree = 0` and a second file for
  one `outroot`; wildcards of `inroot`; `GetLinkGroup`, string
  arrays and fields of type JSON of the database; `ratdb` commands other than append, and its end between two
  steps; a version check that is commented out in `OutNetProc.cc`; the table of
  optical photon tracks and muon trajectories in `Gsim`; `-c`, `-q` and
  `--implicit-cache` of the build.
- *The Chroma server*. `queue.py` and `newServer.py` are a chain of ZeroMQ sockets
  behind the client that `Gsim` has. The chain as it is in the repository cannot
  answer this client: the queue hands on the word `CFG` where the server expects a
  number and ends; with two clients a request of the second is taken for the
  configuration of the first; nothing answers when the server is gone. A model
  would have to repair it before it could show anything.
- *The rest of `python/SCons`*: some 47,000 of the 54,000 lines of Python in the
  repository are this third-party tool: compilers, packaging, configure checks,
  emulations of old Python libraries. What decides the order of a build, what its
  threads share, and what makes a target out of date is modelled; the rest turns files and strings into the
  graph that the model starts from. Counted in Python lines the model therefore
  covers little; nearly all of RAT itself is C++.
- *ratmix, DSReader, DSWriter*: one process, one pass; their disagreement is in
  section 5.
- *`GeoBuilder`*: one work list, worked off once, when the program starts.
- *Vendored code, data, test scripts and interactive analysis*.

## 7. What is left

The parts with state over several events, jobs or threads are modelled. What one
could add, in the order of its use:

1. `ratdb` stopped between two steps, its other commands, two tools at once.
2. The composition of `Gsim` with `EventQueue`, so that the time of a vertex decides
   which entries pile up; here any number may.
3. `SConsign` with the cache and `-i`, and several targets of one command.
