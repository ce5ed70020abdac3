# A formal model of the ECO engine

`eco/src` is a functional-ECO engine: given a netlist G1 and a golden netlist
R2 it writes a patch, a small module whose outputs replace nets of G1 so that
every output of the patched G1 equals R2's.  The cost of a patch is its gates
and wires.  This directory holds TLA+ models of the engine, TLC runs that check
them on small instances, and TLAPS proofs for all instances.

## The system

One process, `main()`, runs N *trajectories* (`runTrajectory`), by default in
threads.  Each trajectory parses both netlists, solves the problem with its own
seed and budgets, and answers with a verified patch or fails.  `main()` writes
the cheapest answer.  Trajectories share no memory (each writes its own element
of `results`), but they share a file system and start `abc` processes.

| part | source | state | operations |
|---|---|---|---|
| driver | `main.cpp:1273-1397` | `cfgs`, `results`, `best` | start, join or stop early, select, write |
| file pipeline | `main.cpp:660-668, 819-869, 1016-1040, 1254-1269`, `patch.hpp:532-586` | temporary directory, BLIF files, `cands` | mkdtemp, write BLIF, run abc, parse, verify cheapest first, remove |
| netlist parser | `netlist.hpp` | `Netlist` | tokenise, parse gates and assigns |
| shared AIG | `aig.hpp` | nodes, strash table, simulation words | `newPi`, `mkAnd`, simulate, `rollback` |
| SAT front end | `sat.hpp` | node-to-variable map `satVar`, the solver's clauses | `encodeVar`, `solveAssume`, `value`, `proveEq`, `forgetAigVarsFrom`, `reset` |
| circuit builder | `main.cpp:74-144` | `netLit`, `done` | evaluate gates in dependency order |
| union-find | `main.cpp:147-190` | `parent`: node to literal | `init`, `ensure`, `find`, `merge` |
| sweep | `main.cpp:192-265` | simulation words, counterexample slots | split classes by signature, prove, merge, refine |
| specification builder | `main.cpp:343-658` | targets, memo, baseline AIGs A and B | `buildVar`, preservation |
| rectifier | `rectify.hpp` | patched drivers, targets, fixes, current literals, failing set | rounds of single fixes, pairs, final check |
| synthesis | `rectify.hpp:540-924` | divisors, care slots, minterm sets | cover, CEGAR refinement, function building |
| hybrid | `main.cpp:700-817`, `rectify.hpp:1207-1267` | fixes, preserved outputs | combine fixes with the baseline |
| patch data | `patch.hpp`, `main.cpp:871-897` | `PatchNetlist` | cost, names, BLIF both ways, Verilog |
| verification and simplification | `main.cpp:901-1245` | candidate patch | evaluate patched G1, prove outputs, substitute, sweep dead gates |
| evaluator | `evaluator/evaluate.py` | none | apply a patch, cost, equivalence by abc |
| vendored | `tools/` (abc, CaDiCaL) | - | external |

Interactions: everything inside a trajectory is sequential calls on one AIG and
one solver; the rectifier calls back into `main.cpp` through `supportOf2`; the
file pipeline talks to abc through files and ignores exit codes; the driver
sees only `TrajResult`.

### What is hard

* Threads and abc processes on one file system; `mkdtemp` may fail, in which
  case the shared directory `/tmp` is used and later removed.
* Exceptions: any step of a trajectory may throw; the driver must end anyway.
* Sets that are kept several times (patched drivers, targets, fixes) and
  changed in the middle of a search that may bail out.
* State carried from round to round instead of recomputed (the failing set, the
  current literals), and its invalidation when a fix reads an *old value*.
* Caches keyed by AIG node indices, which `rollback` frees for reuse.
* A union-find over literals: path compression and merges must fold phases.
* Simulation words that are updated in two stages, inputs first.
* Bounds: exactly 128 care slots, 64-bit signatures, budgets everywhere.

## Modules

| module | models | composed with |
|---|---|---|
| `BestPatch` | what the driver promises | abstract specification of `Portfolio` |
| `Portfolio` | driver and file pipeline | implements `BestPatch` |
| `PortfolioProofs` | theorems about `Portfolio` | extends `Portfolio` |
| `Circuit` | the patched netlist as data: evaluation, fanout graph, cofactors, the functions synthesis may return, failing outputs and their readers, `noPresCheck` | used by `Rectifier`, `BuildCkt`, `Patch` |
| `CircuitProofs` | lemmas about recursive functions, and about what the operators of `Circuit` compute | extends `Circuit`; used by all proof modules but that of `Portfolio` |
| `Rectifier` | `Rectifier::run` with `tryPairs` | extends `Circuit` |
| `AigSat` | the shared AIG and the SAT front end under it | stands alone; `Rectifier` abstracts it |
| `AigSatProofs` | theorems about `AigSat` | extends `AigSat`, `CircuitProofs` |
| `BuildCkt` | `buildCkt`: a parsed netlist becomes literals | extends `Circuit` |
| `BuildCktProofs` | theorems about `BuildCkt` | extends `BuildCkt`, `CircuitProofs` |
| `AigTerm` | and-inverter graphs as terms: what `mkAnd` folds, `gateFunc`, values, cones, the literals of the current circuit | extends `Circuit` |
| `Patch` | patch netlists: cost, `evalPatched`, `deadSweep`, the rewrites of `simplify`; and `apply_patch` of the evaluator | extends `Circuit` |
| `Emission` | how a patch AIG is written as gates, node by node, and how its wires are named | extends `AigTerm`, `Patch` |
| `SpecBuilder` | targets, `buildVar`, baseline A, variant B, the hybrid candidate | extends `AigTerm` |
| `PatchProofs` | lemmas: what candidate patches are, and what a netlist patched with one computes | extends `CircuitProofs`, `SpecBuilder`, `Emission` |
| `EcoAnswer` | what a trajectory promises, of any notion of patch and cost | abstract specification of `Trajectory` |
| `Trajectory` | `runTrajectory` on real netlists, from the failing outputs to the delivered patch | extends `Rectifier`, `SpecBuilder`, `Emission`; implements `EcoAnswer` |
| `TrajectoryProofs` | theorems about `Rectifier` and `Trajectory` | extends `Trajectory`, `PatchProofs` |
| `Synthesis` | `synthesize` and `enumPatterns` as a machine | extends `SynthFill`; what it returns is what `Rectifier` takes |
| `SynthFill` | truth table to AIG: Shannon expansions and cube covers | extends `AigTerm`; used by `Synthesis` |
| `SynthesisProofs` | theorems about `Synthesis` and `SynthFill` | extends `Synthesis` and `PatchProofs` |
| `Classes` | what a union-find with phases promises | abstract specification of `UnionFind` |
| `UnionFind` | the union-find, with any merges of equal literals | implements `Classes` |
| `Sweep` | `sweep()` and the lookups after it | extends `UnionFind` |
| `SweepProofs` | theorems about `UnionFind` and `Sweep` | extends `Sweep` |
| `MC...` | instances for TLC | |

Two abstractions meet in the middle. `Portfolio` takes what a solver computes
as data (a *profile*) and models what a trajectory does to the world;
`Trajectory` is the inside of one, with netlists instead of profiles, and
without files. `Circuit`, `Rectifier`, `BuildCkt` and `Synthesis` take an AIG literal for the function it
computes, written as the set of input patterns on which it is 1, so that
equivalence of literals is equality of sets; `UnionFind` and `Sweep` do the same
for nodes. `AigSat` is below that line: it
models indices, hash table, simulation words and clauses, and its property
`VerdictRight` is what entitles `Rectifier` to treat a proof as the truth.
`AigTerm`, `SpecBuilder` and `Emission` need more than the function, since what
is matched and what a patch costs depends on its nodes: there a literal is a
term, and the structural hash is equality of terms.

What the code computes by recursion over an AIG (`collectSub`, `buildVar`, the memo
of `fnFromTT`, simulation words, `nameOf` of the emission) is here a function on the
nodes of a cone, each value computed from those of smaller nodes, or a function on
the places of a list in topological order. So no module has a RECURSIVE operator,
and all of them can be proved about.

### Portfolio

| code | model |
|---|---|
| `cfgs`, `results`, `best` | `Traj`, `results`, `Best(results)` |
| `std::thread` for each trajectory, `join` | `Spawn`, `Join` |
| serial loop with its early exit | `Call`, `Return` |
| selection loop, `writePatchV` or `return 1` | `Emit` |
| parse, sweep, failing outputs, specifications | `Solve`: all equal, exception, or on |
| `mkdtemp` or `"/tmp"`; rectifier; direct candidates | `MakeTemp` |
| `cost.genlib` | `WriteGenlib` |
| `mkdir -p`, `aigToBlif` | `WriteBlif` |
| `if` around the second and third family | `SkipFamily` |
| `system ("abc ...")` | `AbcRead`, `AbcWrite`: the process is not atomic |
| `blifToPatch` of whatever is there | `Parse` |
| sort, verify cheapest first, simplify, or `throw` | `Select` |
| `rm -rf` | `Cleanup` |

The file system is `exists`, `genlib`, `blif` and `mapped`. Directory 0 is
`/tmp`, directory t the one `mkdtemp` makes for trajectory t. An `ofstream`
into a missing directory does nothing, as in the code. A profile says which
candidates a trajectory finds, their costs, which of them verify, and where it
throws; the proofs hold for every profile.
It also says what `mkdtemp` may answer. When it fails (`main.cpp:668`) trajectories
do share `/tmp` and may read, overwrite or remove each other's files: `Independent`
and `ImplementsBestPatch` speak of profiles in which it never fails (`Private`),
`EmitSound` of all.

### Circuit and Rectifier

| code | model |
|---|---|
| `patchedDrv`, `targetSet`, `fixes` | `drv`, `targetSet`, `fixes` |
| `curLit`, -1 for no value | `cur`, `Unset` |
| `evalInto` and its worklist | `Evaluate`, `Settle` |
| `buildAdj`, `tfo` | `Adjacent`, `Tfo` |
| `cofNetF` | `Cofactor` |
| `synthesize` | `Synthesized`: every function it may return |
| `fixCostEstimate` | `FixCost` |
| head of a round: `recompute`, failing set, candidates | `StartRound` |
| one candidate: screen, prove, synthesize, keep the cheapest | `TryCandidate`, `StopTrying` |
| accept the best fix, carry the failing set | `ApplyBest` |
| `tryPairs`: rank, try, first function, second function | `RankPairs`, `TryPair`, `PairFirst`, `PairSecond`, `Bail` |
| no pair, budget, last check | `GiveUp`, `FinalCheck` |

A port `t_in` is the number -t. It carries what the *original* driver of t
makes of *current* values, while the graph of `buildAdj` treats it as an edge
from t; the model keeps both sides of that mismatch. A step that would use
literal -1, or recurse without end, goes to `pc = "undefined"`, and the
properties say when that cannot happen.

What a budget (SAT calls, conflicts, attempts) decides is left open, and so are
the greedy cover, its refinement loop and the choice among don't-cares: the
model takes any function of at most `MaxSup` divisors that is right on the care
set. A port need not matter: `mkMux` of equal branches is not folded, so that a
Shannon expansion may keep a port the function does not depend on; only a constant
has no ports. Everything the code may return is included (`ResultsAllowed`, below).

### Patch, Emission, SpecBuilder and Trajectory

| code | model |
|---|---|
| `PatchNetlist` | `[inputs, outputs, gates]` |
| `eco_wN`, `t_in`, the name of a net | `EcoWire`, -t, n |
| `aigToPatchDirect`, `normalize`, a candidate | `AigToPatch`, `Normalized`, `CandidatePatch` |
| `patchCost` | `PatchCost` |
| `evalPatched`, `verify` | `PatchedDrivers`, `EvalPatched`, `Verified` |
| `apply_patch`, `check_acyclic_and_driven`, `cec` | `ApplyPatch`, `EvaluatorPasses` |
| `deadSweep`, one pass of `simplify` | `DeadSweep`, `Simpler` |
| `failing`, `targets` | `FailingPos`, `Preserved` (both in `Circuit`), `BaselineSpec` |
| `noPresCheck` | `Ideal`, `NoPresCheck` (in `Circuit`) |
| `reg`, `uf`, `inSafe`, `buildVar` | `Same`, `InSafe`, `Matched`, `Build` |
| baseline A, variant B | `Baseline`, `BaselineB` |
| `rect.run`, then `finalize` and the hybrid | `Rectify`, `Assemble`; `FixTargets`, `Hybrid` |
| `cands`, verified cheapest first | `patches`, `Verify` |
| `simplify`, `res` | `Simplify`, `Deliver` |

`Patch` has two semantics of a patch, one from each program. `main.cpp` keeps
the name of a target for its new value and calls the old one `$$pre`;
`evaluate.py` keeps it for the old one and calls the new one `$post`. Both
evaluate only what an output needs. The property `VerdictsAgree` compares them.

The sweep is taken by what it may come back with: all equal and opposite nodes
(what `SweepComplete` promises), or none but identical ones, when every answer
is lost. The registry, `buildVar` and the hybrid use whichever was chosen.
`NoLit` stands for the exception of `buildVar`. Fixes are emitted in a form
`shannon` gives them: ports on which the function does not depend are split first,
the only order in which all of them stay in the literal. Candidates are emitted directly, as when there is no abc.
`simplify` compares signals on `sim`, any set of patterns that lacks at most
`MaxMissed`.

### Synthesis and SynthFill

| code | model |
|---|---|
| the last two simulation words, `injectCounter` | `slots`, `counter` |
| other simulation words, which stay | `sim` |
| `p1`, `p0`, places in the words | `p1`, `p0`, places `<<"slot", k>>`, `<<"sim", q>>` |
| blocking clauses of `enumPatterns` | `blocked` |
| one model, none or limit, second side | `EnumerateOne`, `EndOnes`, `EnumerateZero`, `EndZeros` |
| scan of the words | `Scan` |
| `cover`: `sep`, `uncov`, `bestD` | `Tells`, `Open`, `Best`; `Pick`, `Inseparable`, `Covered` |
| a solver call of the loop: model, none, limit | `Refine`, `Sufficient`, `NoAnswer` |
| `tt`, one model at a time | `TableOne`, `TableZero` |
| `shannon`, `sopBuild`, smallest cone | `Shannon`, `SopBuild`, `Cheapest`; `Filled`, `Fill` |

The solver is external and any of its models may come. A pattern in a slot is
read through its place, so that an overwritten slot changes the sample. A table
is a pair of sets of cells, and a cell the set of the ports that are 1; its
number is in the order of the ports, which is the order in which the cover
picked them and is left open (`Orders`).

### AigSat

| code | model |
|---|---|
| `nodes`, `strash` | `nodes`, `strash` |
| simulation words, `simmed` | `sim` (index -> patterns), `simmed` |
| `satVar` and the clauses added with each variable | `satVar`, `clauses` |
| `newPi`, `mkAnd` that creates a node | `NewPi`, `MkAnd` |
| a candidate is complete: `simEvalFrom` | `Collect`, `Again` |
| kill by simulation | `Screen` |
| `encodeVar`, one node at a time | `Encode` |
| `solveAssume`: model, none, limit | `Refute`, `Confirm`, `Undecided` |
| store the model: `simSetPiBit`, `simRecomputeWords` | `Stored`, in `Refute` |
| start of a round: `rollback`, `forgetAigVarsFrom` or `reset` | `NewRound` |

`Init` is the state in which `run()` takes its mark: the base graph is
simulated and the solver attached. Operands of `mkAnd` come in any order; the
model takes them sorted, as the code sorts them, and constant or trivial cases
change nothing and are not steps. The solver is external: it answers truly or
gives up.

### BuildCkt

| code | model |
|---|---|
| constants and primary inputs | `LoadInputs` |
| driver table, duplicate drivers, driven inputs | `Register`, `Registered` |
| one gate of a pass | `Visit` |
| end of a pass: done, again, or cycle | `EndPass` |
| loop that would give undriven nets an input | `Dangling` |

### UnionFind and Sweep

| code | model |
|---|---|
| `parent`, a literal for each node | `parent`, records `[var, neg]` |
| `find (2 * v)`, its result for every node | `Canon`, a recursive function |
| the nodes that `find` hangs below the root | `Path`, `Compressed`, `LookUp` |
| `merge` | `Merged`, `Merge` |
| `init`, `ensure` | `Singletons`, `Ensure` |
| random words of the inputs, `simInit` | any `pat`, in `Init` |
| `sim[v]` of an input, of an AND | `Row`: patterns `pat`, patterns `seen` |
| `signature`, buckets in the order of their keys | `Signature`, `Pairs`, `Before` |
| `eq`, `eqInv`, `repLit` | `Alike`, `RepLit` |
| `proveEq`: 1, 0, -1 | `Prove`, `Refute`, `Undecided` |
| `simSetPiBit` | `SlotFor`, in `Refute` |
| `simRecompute`, end of a round | `Recomputed`, `EndRound` |
| registry of nets, `buildVar`, hybrid assembly | `Use` |

`UnionFind` has a next-state relation of its own, in which any two literals of
one value may be merged: `sweep` alone only makes classes of depth one, whose
paths have nothing to compress, but the structure promises more than that. In
`Sweep` a bit of the simulation words is a *slot* that holds an input pattern.
The words of an input follow `simSetPiBit` at once, those of an AND only at the
end of the round, which is why there are two patterns for each slot. The
solver answers truly or gives up; the counterexample is any pattern that tells
the two nodes apart, because inputs outside the cone keep arbitrary bits. The
hash is the parameter `Key`.

## What the runs check

| run | expects | shows |
|---|---|---|
| `PortfolioAll` | pass | three trajectories, serial and threads. With private directories each answers as if alone (`Independent`) and the driver implements `BestPatch`; where `mkdtemp` may fail, and two of them overwrite, read and remove each other's files, what is delivered was still verified (`EmitSound`); it ends (`Terminates`) whichever trajectories throw |
| `PortfolioSerial` | violation | the serial driver stops at cost 2, the threads go on: different answers |
| `Rectify` | pass | targets stay consistent, the carried failing set is exact while old values are stable, an old value closes no combinational cycle as long as that is so (`DefinedIfStable`), fixes make progress, the search ends |
| `RectifyCarry` | violation | with an old value downstream of a later fix, the failing set misses an output |
| `AigRounds` | pass | hash table, simulation words and SAT encoding survive the reuse of indices; no verdict on a candidate is wrong |
| `BuildAll` | pass | gate order does not matter; no cycle, second driver or driven input is ever taken, and nothing without a fault is refused (`RefusedRightly`); passes end |
| `BuildDangling` | violation | a netlist whose only fault is a net that is read and not driven is refused as a combinational cycle |
| `UnionFindAll` | pass | merges in every order and phase, finds and new nodes: canonical literals keep their values, classes are only joined, find ends |
| `SweepAll` | pass | every simulation pattern, counterexample and lost answer, with a hash that collides: no pair is refuted twice; classes are named by the first of all related nodes; unless an answer was lost or signatures collide, all equal and complementary nodes are found |
| `Trajectory` | pass | eleven pairs of netlists, from the failing outputs to the delivered patch: eco's verification and the evaluator agree on every candidate (`VerdictsAgree`); baselines give every target the value it was to have (`BaselineExact`); variant B always passes unless a net has the name of a wire (`VariantBRight`); the patch of the fixes computes what the Rectifier computed (`FixesAsEvaluated`) and passes when `run()` says so (`CompleteRight`); `noPresCheck` answers its question when no fix reads what is replaced (`NoPresRight`) and the hybrid never gives an output a wrong value (`HybridRight`); no patch has leftovers, neither a candidate nor, however often it is rewritten, the winner (`PatchesTidy`), and the whole implements `EcoAnswer` (`AnswersRight`) |
| `TrajectoryCycle` | violation | a delivered patch closes a combinational cycle that no output needs |
| `Synthesis` | pass | every sample, counterexample and lost answer: no place of the sample is used twice (`CareKept`), each refinement learns something (`Learns`), "sufficiency violated" does not happen and the result is right on all care patterns (`ResultRight`) |

### Findings

* `main.cpp:1355` against the comment at 1361: serial and threaded runs are not
  bit-identical, because only the serial one stops at cost 2 (`PortfolioSerial`).
* `main.cpp:130` and the warning at 136-138 against line 128: "any net still unset
  but referenced: dangling input -> fresh shared PI". A gate that reads such a net
  is never ready, so `buildCkt` has thrown "combinational cycle" before it comes to
  that loop (`BuildDangling`; `DanglingRefused` proves it for all netlists).
* `rectify.hpp:1503`: "validity proof covers every PO in A(t)" is not so for
  later fixes upstream of a net whose patch reads its old value
  (`RectifyCarry`). The final verification in `main.cpp:990` catches it; the
  rectified candidate is lost, not a wrong patch written.
* `evaluate.py:9` against `evaluate.py:340` and `main.cpp:981`: both programs
  look at the cones of the outputs only. Baseline A preserves the readers of a
  failing output, and when one of these, g, has a copy downstream of itself,
  `buildVar` may express g by the copy (neither is a changed net), a cycle
  through g. It is delivered when no output needs g (`TrajectoryCycle`).

One weakness has no run of its own, because it does not reach an answer.
`noPresCheck` (`rectify.hpp:1248`) evaluates the circuit with the failing outputs
replaced into a vector that `evalInto` calls `curLit`, but `litForPortName` reads
the member of that name. A fix that reads a replaced output is given its old value,
and the check may say yes although an output becomes wrong: `NoPresRight` without
its premise `Untouched` fails on the instance `Stale` of `Trajectory`. The hybrid
candidate built on that answer is verified like any other and lost, which is what
`AnswersRight` shows on the same instance.

### Bounds

* `PortfolioAll`: N = 3, because a third trajectory is needed for "the first of the
  cheapest" to differ from "the other one". Where `mkdtemp` may fail the third one
  throws early: two suffice for every kind of clash. Nine profiles: plain, all tied, wrong mapped
  candidates, abc writing nothing and a late exception, cheap enough for the
  early exit, all equal, no abc, all broken, one broken. The two-phase abc
  process makes reads and writes of different trajectories interleave.
* `Rectifier`: circuits of two inputs and three or four gates with two or three
  outputs, `MaxRounds` 3, `MaxFix` 4 and `MaxSup` 2. Two
  failing outputs that cannot be fixed at once need two rounds, so three rounds
  include one after them; two ports are the fewest with which a patch can read
  an old value and something else. Every function of two ports is tried.
* `AigRounds`: the constant, two inputs and two scratch nodes (`MaxVars` 5),
  one rollback (`MaxRounds` 1), two patterns of which one takes
  counterexamples. Two scratch nodes let an AND sit on another, and one
  rollback lets both indices be reused for other nodes; the theorems cover
  more. One care pattern makes counterexamples overwrite each other.
* `BuildAll`: all netlists of three NANDs and inverters with one input, in five
  orders of outputs including duplicate drivers and a driven input, all of two
  gates in one order, and the empty netlist. Three gates are enough for a cycle
  that does not include the gate that reads it. `BuildDangling` takes the same
  netlists, some of which read a net nobody drives.

* `UnionFindAll`: eight nodes, seven at first, of a value or its complement or
  constant: classes of up to five nodes in either phase, so that paths of
  several steps with phases on them are compressed.
* `SweepAll`: two inputs, so four patterns; a graph with xor and xnor built
  apart, doubled ANDs and a node made after the sweep (11 nodes), one with
  redundant ANDs and a hidden constant (7 nodes), and one in which two ANDs fold
  into the complement of an input (6 nodes). One random slot, three for
  counterexamples, three rounds: with fewer slots no sweep over these graphs
  gets by without losing an answer, and `SweepComplete` would hold for nothing.
  The hash is a row's number modulo 12, under which two pairs of rows collide;
  `SweepComplete` assumes that none of the current signatures do
  (`NoCollision`), as colliding ones can hide equal nodes from each other. The rows of
  the first graph always collide; the second shows that all equal nodes are found,
  the third the same of complementary ones.

* `Trajectory`: eleven pairs of netlists of two or three inputs and up to four
  gates, each chosen for what it makes happen: nothing fails; a reader of a
  failing output that may change, or has to be preserved; old values that are
  usable and old values that are not; a match downstream of a failing output;
  an incomplete rectification whose rest is expressed by nets with a new
  current value; an input only R2 has; nets with the name of a wire. Two rounds
  let a fix be followed by another one, or by an incomplete end; `MaxFix` 3,
  `MaxSup` 2. `WireBase` 100: the wires are numbered from there on, above every net. One pattern missed by the simulation (`MaxMissed` 1) makes wrong
  rewrites pass the comparison. `Passes` is the code's 64, never reached.
* `TrajectoryCycle`: the smallest netlist found with a preserved gate and its
  copy, one round.
* `Synthesis`: two patterns of each side (`Cap` 2), three after the scan
  (`ScanCap` 3), two refinements, `Slots` 8 = 2 * 2 + 2 * 2, the ratio of the
  code; covers of up to three divisors, functions of up to two. So the
  enumeration is cut off, both refinements are used up, covers are too large
  and functions are too wide in some behaviours. All pairs of care sets over
  two inputs, and four problems of up to three inputs, one of them a parity
  that needs the old value.

### Deadlock and fairness

Deadlock is checked in every run; a finished program stutters (`Terminated`,
`Finished`).

* `Portfolio`: weak fairness of `main()` and of each trajectory. Threads are
  never blocked except in `join`, and `system()` returns when abc does; the
  code gives abc no time limit, so an abc that hangs hangs the engine, which
  the fairness assumption leaves out.
* `BuildCkt`: weak fairness of `Step`: the function is sequential.
* `Trajectory`: `KeepsRunning`, weak fairness of `TrajStep`, which is enabled
  until the trajectory ends; it is written without `ENABLED`, whose evaluation
  would repeat every step. One thread runs the trajectory and never waits. That
  it ends is part of `EcoAnswer`.
* `Rectifier`: none. That the search ends is the action property `Advances`,
  a well-founded measure, which is stronger than termination and in reach of
  a proof.
* `AigSat`, `UnionFind`, `Sweep`, `Synthesis`: none; only safety is at stake. That a sweep
  ends is plain: pairs are looked at once a round, and rounds are counted.

## What is proved

All theorems hold for every value of the constants that satisfies the named
assumption of the module. Eight modules hold them.

**`CircuitProofs`** has no theorem of its own but what the others need. Its first
part is about functions defined by recursion over natural numbers. The
provers cannot use an induction principle that takes a formula, so all
inductions here are over the smallest counterexample: `Smallest` (a nonempty set
of naturals has a smallest element, from the library's well-foundedness of `<`) is
applied to the set of numbers that violate the claim. In this way
`RecursionSolved` shows that a recursion whose values depend on smaller indices
only has a solution. The second part is about `Circuit`: the worklist `Settle` ends
with no net left to evaluate, each value it gave is what the net computes from
values given before (a *rank* decreases along reads), and such values are the
only ones; a `Closure` is the smallest closed set. From these come `WholeValues`
(when every net has a value the values are those of the netlist), what a patch
for new nets changes and what it leaves alone (`Extends`), that a `Cofactor` gives
the values the circuit has where a net is tied to a constant, and so that a
patch synthesized from two cofactors (or four, for a pair) makes exactly the
outputs right that the cofactors said.

**`PortfolioProofs`** (from `PortfolioAssumption`: N positive, profiles of the
right type). `TypeCorrect`: the inductive invariant is `TypeInv`, `TypeOK`
with `FilesTyped`: BLIF files and abc's input hold direct candidates only, so
that their mapped forms are slots 4 to 6, and past `mkdtemp` there is a
directory.
`EmitSoundCorrect`: `EmitSound` with `TypeInv`; it needs nothing of the file
system, since `Select` verifies what it parsed. `IndependentCorrect`: its
invariant is `OwnInv`, for profiles in which `mkdtemp` never fails (`Private`). It
says of each trajectory that its directory exists while it needs it, that the files
in it are its own, and that its candidates are those it would have alone at that
point; the step lemmas separate what the moving trajectory does (`StepOwn`) from
what it leaves alone (`StepUntouched`). `Refinement` adds `MainInv` (which
trajectories have run when `main` chooses) and shows that `Emit` is then `Promise!Deliver` and every other step a
stutter; of other profiles `BestPatch` promises nothing.

**`AigSatProofs`** (from `AigSatAssumption`: the base graph is well formed,
and random words are sets of slots).
The invariant `IInv` is `GraphInv` (indices are an interval, fanins below their
node, no duplicates), `StrashInv` (the table is exactly the ANDs) and `SatInv`
(clause of each encoded node is `ClauseOf` it *now*, its fanins are encoded,
variables are 1..n and not shared). `StrashInv` is needed for the graph to stay
free of duplicates, and `GraphInv` for an encoded node's fanins to survive
later additions; after `NewRound` all three hold because what refers to a
dropped index is dropped with it. `GraphCorrect`, `StrashCorrect` and
`EncodingCorrect` are its parts.

`WordsCorrect` adds `SimInv`: the words of the nodes below `simmed` are what a node
makes of the words of its fanins, although a counterexample changes the words of
the inputs while newer nodes have none. `VerdictsCorrect` is that no verdict is
wrong; its invariant `AllInv` has `ClauseInv` too (a clause refers to SAT variables
made before it) and `CandInv` (the candidate reads nodes that have words, and no
scratch input). The argument relates three ways to compute the value of a
node: by recursion over the graph, by the words, and by what the clauses force in
every model. The first two agree on the pattern of a slot, the first and third
on the nodes of the candidate's cone, each time by the smallest node on which
they differ.

**`BuildCktProofs`** (from `BuildCktAssumption`: a netlist names its nets and
gates). `BuildInv` says that literals already given are the values that the
evaluation of `Circuit` has, that a gate is done exactly when its output has a
literal, and, when a pass has made no progress, that no gate passed over is
ready. `BuildEvaluates` then needs that the evaluation is unique;
`BuildRefuses` needs that a netlist without a cycle has a ready gate as long as
gates are left and no net is dangling, `DanglingRefused` that a finished circuit has
a literal for all that its gates read. `WaitingCycle`: of gates that wait for each other, the one with
the most dependents would wait for one that has more, unless there is a cycle.

**`SweepProofs`** (from `UnionFindAssumption`: graphs are well formed, and
`SweepAssumption`: there are rounds and random words). First the union-find. What
`find` returns is defined by recursion, and the facts about it are shown for the
smallest node that violates them: its parent, being smaller, does not. In this way
`CanonFinds` shows that the recursion has a solution, `CanonUnique` that it is
the only one, and `CanonType` that it ends at roots. `CanonUnique` then does the
work: what `find` returns after a compression, a merge or an `ensure` is shown by
exhibiting it and checking that it solves the recursion of the new parents
(`CompressedCanon`, `HungCanon`, `EnsuredCanon`). The inductive invariant `UFInv`
is `ParentsBelow` with `ClassesSound`: sound classes alone are not inductive,
since nothing is known of `find` where parents are not in order. `StepDoes` says
that every step keeps it and changes the canonical literals in one of three
ways; `UFParentsBelow`, `UFClassesSound` and `UFImplementsClasses` follow.

Then the sweep. Each of its steps is one or two steps of the union-find, so that
`UFInv` stays (`SweepSound`) and `Classes` is implemented (`SweepImplementsClasses`).
The invariant adds `CountInv` (types and counters), `WordsInv` (the words of the
ANDs lag behind those of the inputs only in slots filled in this round, never in
slot 0), `PairsInv` (a pair's first node is the first of all related to the
other; one pair for each node), `RefutedInv` (a refuted pair is told apart by a
slot that is in use and still has its counterexample) and `DealtInv` (a pair of
the round that is no longer to do was joined or is told apart). `RefutedInv` is
why `SweepRefutedOnce` holds: a slot is never used twice, and the words of the
ANDs catch up before pairs are made again. `DealtInv`, with the first node of a
bucket, gives `SweepFindsAll`.

**`SynthesisProofs`** (from `SynthesisAssumption`: the bounds are natural
numbers with 2 * Cap + 2 * MaxIter <= Slots, which the code meets with equality,
and problems are well formed). The inductive invariant is
`Inv`, with four parts beside the types. `CounterInv` bounds the slots used so
far by what enumeration and refinements are entitled to, `SampleInv` says that
the slots of the sample lie below the counter and hold patterns of their side
(`CareKept` alone is not inductive: a new pattern could hit a slot in use, if it
were not for the bound), `Separated` that after a sufficiency check no pattern
of one side agrees with one of the other on the chosen ports, and `TableInv`
that cells of the table are cells of patterns, and all of them once a side is
finished; that the query limit is never the reason to stop is a count of the
subsets of the ports. `TypeCorrect`, `CareIsKept` and
`ResultsRight` follow from `Inv`. `RefinementLearns` follows from `SampleInv`: a
pair in the sample is told apart by the cover, and the new pair is not.

That the filling is right (`FilledRight`) is proved for each of the four forms,
by counting up the recursion; what a literal says on cells is carried by the
lemmas about `Means` of `PatchProofs`. `shannon`: the literal of a part says the
table where the ports behind the split are fixed (`Rest`). `sopBuild`: the
literal says what is covered so far, nothing of the other side is covered, and
all cells of this side seen so far are (`Covering`). `Cheapest` is one of the
four because cones are finite. `FnOf` then keeps the ports of the literal only,
and its value on a cell depends on no others (`TermAlike`).

`Covering` also says that each port of the literal changes some covered cell
into one of the other side - else the cube would have been expanded over it - so
a cover depends on all its ports (`CubesMatter`), and a cover of a constant has
none. A port of a Shannon expansion may be one its function does not depend on;
but `ShannonSays` shows that an expansion of a constant table folds to the constant.
This is what `ResultsAllowed` needs: everything that comes out is in
`Circuit!Synthesized`, which justifies the open choice in `Rectifier` for
supports of any size.

**`PatchProofs`** has the lemmas about single patches; circuits and patches are all
that is in them, no state. In order:

* *Terms.* `RecursionSolved` is used again and again, since a node of an AIG needs
  only nodes of a lower level. The predicate `Means` says of a literal that it is
  over given ports and has a given value when the ports have theirs. It is shown
  of the literals of a gate, of a function (`FnLits`), of the current circuit and,
  from these, of what `buildVar` returns: whatever net, old value, constant or current
  value it takes for a node, the literal means what the node does.
* *Form.* The emission keeps an invariant: every name is a port, a constant or the
  output of an earlier gate, and every name that was given is read, but for the
  one that was given last. From this each candidate is a patch without leftovers
  (`IsPatch`, `Tidy`), and `Normalized` only gives the wires other names.
* *Two evaluations.* `main.cpp` and `evaluate.py` evaluate different netlists, in which
  the old value of a target, its new one and the wires of the patch have different
  names. `PatchRenames` gives the renaming that takes the wires of one to those of
  the other and their drivers to their drivers; `RunsAgree` says that evaluations
  so related give related values and leave related wires without one: of the wires
  that differ take the one with the lowest rank. Tidiness is needed: a name that
  nobody drives is a net for one program and a wire for the other.
* *Values.* The gates emitted for a target compute its literal from the ports. For
  a patched netlist a claim R says what nets should have; `Explains` says that the
  original driver of a net without a target, and the last literal of a net with
  one, compute what R says from what R says. `PatchedSound`: then no net gets any
  other value (of those that do take the one evaluated first). `BuiltMeant`:
  when moreover the nets can be ranked so that nothing waits for itself (`Grounded`),
  each gets this one.

**`TrajectoryProofs`, first part: the Rectifier** (from `RectifierAssumption`: bounds are natural numbers,
circuits are well formed and free of cycles before they are patched, which is
what `buildCkt` hands over). The invariant `Inv` is `TargetsConsistent`,
the range of round and failing sets, and, during a search, `SearchInv`:
candidates are finitely many nets outside `targetSet`, pairs are pairs of
different candidates, and the best fix is a candidate that touches a failing
output. `TargetsCorrect` follows at once; `ProgressCorrect` and
`AdvancesCorrect` follow step by step from `Inv`. The last needs finiteness,
for the number of untried candidates and pairs to be a number.

`RectifierTyped`, `CarryCorrect` and `DefinedCorrect` need the values. Their
invariant is `ValueInv`: the types; during a search that candidates, best fix and
pair say of the *current* values what they said when they were computed
(`CandFacts`, `BestFacts`, `PairFacts`); and, for as long as old values are stable,
`StableFacts`: the patched circuit is free of cycles, and the failing set, carried
or current, is exact. `CarryExactIfStable` is not inductive without
the other parts: the new failing set comes from what was proved about a
cofactor, several steps earlier, and it is exact because the
circuit with the patch has the values the cofactor predicted. That it has them
is where stability comes in: when no patch reads an old value downstream of
another patch, what `buildAdj` takes for the fanout of the new target is all that
changes. `Stable` of the circuit after a fix implies `Stable` before it, so that
the implication is inductive.

**`TrajectoryProofs`, second part: trajectories** (from `TrajectoryAssumption` also:
nets have numbers below `WireBase`, gates have the inputs the parser gives them,
and R2 is a literal for each output). No theorem has any hypothesis but `TrajSpec`.
Two invariants carry all of them. `TrajInv` is the Rectifier's `ValueInv` as long as
the phase is its own, and what is left of it afterwards. `OriginInv` adds that each
candidate was emitted for known targets (`Baseline`, `BaselineB`, `FixTargets` or `Hybrid` of
the present state), and that the list of fixes and the patched drivers agree
(`FixesMatch`). `DoneInv` adds that `run()` returns true with an empty failing set that is
either the result of a last check or the one carried along, which `StableFacts` says
is exact.

* `CandidatesCorrect`: `OriginInv`, and the form of what is emitted for such targets.
* `VerdictsAgreed`: every candidate is tidy, and on tidy patches the two evaluations
  agree.
* `WinnerTidy`: `SweepEnds` shows that a dead sweep has nothing left to
  drop after as many rounds as there are gates, so that its result is tidy
  (`SweptTidy`); `RewrittenTidy` that a constant or another signal in place of a
  signal makes no reader without a source.
* `AnswersSafe`: `Trajectory` implements the safety part of `EcoAnswer`. A step
  of `Verify`, `Simplify` or `Deliver` maps to one of `Found`, `Improve`, `Give` or
  `Fail`, any other to a stutter; that the evaluator accepts what
  the engine verified is `VerdictsAgreed` for the winner, which needs `WinnerTidy`.
  The empty patch is right when nothing fails (`EmptyPasses`): two evaluators, one
  netlist.
* The next four state, for each kind of candidate, a claim R and why it is
  explained: for baseline A and for variant B
  R2's functions on the failing outputs, and old values on nets that do not change;
  for the fixes the evaluation of `Rectifier`; for the hybrid candidate, two cases.
  If `noPresCheck` said yes it is the circuit with the repaired outputs, and the nets
  matched are neither fixed nor downstream of anything fixed or failing; if no, the
  readers of failing outputs are preserved and everything else keeps its current
  value.
* `BaselineCorrect`, `VariantBCorrect`: the claims about `Baseline` and `BaselineB`. Variant B is
  grounded: a net that it matches does not change with a failing output, so the
  original order of the netlist will do; baseline A may not be, which is why
  `BaselineExact` speaks of targets that have a value (see `TrajectoryCycle`).
* `FixesCorrect`: the equations that the Rectifier's evaluation solves are those of
  the patched netlist, with wires in between; both leave the same nets without a
  value.
* `CompleteCorrect`: `DoneInv`; `FixesCorrect` takes the values to the patched netlist and
  `VerdictsAgreed` to the evaluator.
* `NoPresCorrect`: `noPresCheck` computes in the order in which the worklist goes,
  with patch functions reading old values. When no fix reads what changes, the
  values it finds satisfy the equations of the circuit with the repaired outputs,
  and such values are unique.
* `HybridCorrect`: the claim about `Hybrid`; that the repaired circuit is right where
  preservation is left out is `NoPresCorrect`.

The premises inside these properties are the model's own. `WiresFresh`: a net of
R1 that is named like a wire `eco_wN` of the patch would be driven twice.
`OldValuesStable` and `Untouched`: see `RectifyCarry`.

### Only model-checked

* Liveness (`Terminates`, twice, and the end of `EcoAnswer`): fairness is out of
  the prover's reach.
* The runs that expect a violation are counterexamples and need no proof.

## Not modelled

* `netlist.hpp` (text to netlist), `writePatchV`, the usage message: I/O.
* BLIF out and in (`patch.hpp`): text. abc is external; `Portfolio` has its
  files, and `Trajectory` leaves its candidates out. Whatever abc makes of a
  patch is verified like any candidate.
* Of the evaluator: parsing, its cost function, the BLIF files for abc's `cec`;
  that abc answers truly is assumed.
* In `Rectifier`: the environment variable `ECO_PAIR_R0`
  (`rectify.hpp:1409-1419`), which tries pairs before single fixes in round 0.
* In `Trajectory`: solver calls that the hybrid's matches lose to a limit; the
  order among candidates of one cost, which `std::sort` leaves open, is open;
  the form of a fix is always the one `shannon` gives; `Assemble`'s undefined
  behaviour, an output without a value, does not come up in the instances.
  Netlists in which an R2 output is missing in G1 are refused at once.
* In `Synthesis`: the time limit is part of `NoAnswer`.
* In `Circuit`: nets whose own name ends in `_in`; names are numbers.
* In `Portfolio`: `TMPDIR` in place of `/tmp` as the parent of the directories.
* In `AigSat`: activation literals and the clauses `synthesize` adds under
  them; `proveEq` appears in `Sweep`, by its answers.
* In `Sweep`: which of the solver's answers a conflict limit loses is open.
* In `BuildCkt`: primary outputs nobody drives.
* The rest of the inventory: see the plan.

## Plan

Done: `Portfolio`, `Rectifier`, `AigSat`, `BuildCkt`, `UnionFind`, `Sweep`,
`Synthesis`, `Trajectory` with `SpecBuilder` and `Patch`.
Next, most important first:

1. Names that end in `_in` (`rectify.hpp:361`): a port that means another net as
   soon as that net becomes a target.
2. `PatchForm`: BLIF out and in (`patch.hpp`) as pure operators, checked on all
   small patches: the round trip keeps the function and never shares a name with
   a port; then abc's candidates in `Trajectory`.
3. Outputs without a driver, through `buildCkt`, the sweep and the comparison of
   outputs.
4. `proveEq` in `AigSat`; a termination measure for `BuildCkt` as an action
   property.
