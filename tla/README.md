# Verification of Qristal core

TLA+ models of Qristal core, the quantum SDK in this repository, with TLC runs
that check them on small instances and TLAPS proofs for every instance. Paths
are relative to the repository; `session.cpp:1070` is line 1070 of
`src/session.cpp`, likewise for the other sources.

How to run: `tlc -config X.cfg M` for a run, with the pairs listed under
[Runs](#runs), and `tlapm P.tla` for a proof module.

## Inventory

A user fills a `session` with settings and a circuit and calls `run()`, from C++
or Python, in the calling thread or as a job on the process's thread pool. The
run compiles and rewrites the circuit, executes it on a simulator, on Quantum
Brilliance hardware over HTTP, or on AWS Braket, and leaves outputs behind that
getters hand out. Under MPI every process does the same with its share of the
shots, and process 0 collects the outputs.

| component | state it keeps | operations | interacts with | hard about it |
|---|---|---|---|---|
| session (`session.cpp`, `session.hpp`) | settings, ten outputs, `shots_remaining_`, a process-wide `shared_mutex` | `run`, `run_gradients`, `validate`, `process_run_result`, `draw_shot`, getters | everything below; copies of itself for gradients | settings that change between runs; exceptions at every stage; nested runs and a non-recursive mutex; circuits rewritten in place |
| thread pool (`thread_pool.cpp`) | queue, vector of threads, `done` flags, two counters, `shutting_down` | `submit`, `set_num_threads`, worker loop, destructor | jobs, Braket callbacks | resizing while the workers run and drain |
| asynchronous jobs (`python/py_job_handle.cpp`) | `m_thread_running`, `m_handle`, the future | `complete`, `get`, `terminate`, the posted task | pool, session, Python's interpreter lock, Braket handle | the lock is held or not at each step, by threads that wait for each other |
| Braket handle (`AWSQuantumTask.cpp`) | the remote task, callbacks | `done`, `cancel`, `wait_for_completion` | pool, Python SDK | polling, callbacks posted by whoever polls first |
| MPI (`mpi/`) | the order of sends and receives | `shots_for_mpi_process`, `send_results_to_supervisor`, `collect_results_from_mpi_processes`, packing | session | blocking sends, tags, a time limit, what a failed run leaves in the network |
| qdk (`backends/hardware/qb/qdk.cpp`) | circuit id, retry options | reserve, native gates, submit, poll, cancel | the device, over HTTP | lost and late answers, repeated submissions |
| gate deferral (`passes/gate_deferral_pass.cpp`) | a queue of gates, what is held back on each qubit | a handler for each gate, `apply` | `CircuitBuilder` | long sequences of gates, handlers that rewrite each other's state |
| arithmetic circuits (`circuits/`) | none | `expand` of adders, comparators, dividers, controlled swaps | CircuitBuilder, algorithms | registers of different sizes, carries, controls that are on and off, ancillas to be returned clean |
| circuits of the quantum decoder (`circuits/`) | none | `expand` of the kernel, the beams, the superposition adder | the same | what is computed to choose a letter must be uncomputed after it was stored |
| CircuitBuilder (`circuit_builder.cpp`) | instructions, shared with its copies; names of free parameters | a method for each gate and block, `append`, copies, `param_map_to_vec` | every circuit, sessions | order of parameters, shared instructions, arguments passed by position |
| visitors and transpiler (`visitor*.cpp`, `transpiler/`) | the text written | a handler for each gate | qdk, session | gate identities, ranges of angles |
| Braket visitors (`backends/sims/aws/`) | the text written | a handler for each gate | Braket | the same, verbatim or with noise |
| TKET and CUDAQ conversion (`tket/`, `cudaq/ir_converter.cpp`) | measurements held back | a handler for each gate, and the way back | TKET, CUDAQ | gates without a counterpart, order of measurements |
| sparse simulator (`backends/sims/microsoft/`) | a map of amplitudes, gates held back, which qubits are occupied | gates, measurements, assertions, resets, releases | session | gates that rewrite what is held back on every qubit they use |
| placement passes | none | `apply` on a circuit | XACC, TKET | the algorithms are in libraries |
| circuits for amplitude estimation | none | `expand` | algorithms | amplitudes |
| algorithms (`algorithms/`) | best score, loop counter | exponential search, amplitude estimation | circuits, an accelerator | random loops that must end |
| VQEE, UCCSD | energies, parameters | optimise, split the Hamiltonian over MPI processes | session, MPI | floating point |
| noise models (`noise_model/`) | channels for each gate and its qubits, readout errors, connected pairs | build, change, write, read, view for the placement; conversions of channels | session, simulators, placement | both directions of a pair, the order of qubits, conventions of four representations, what a file leaves out |
| Qobj | none | conversion | simulators | text |
| CUDAQ sessions | a process-wide simulator | execute | session | global state without a lock |
| benchmark framework | files named by seconds | run workflows, load, evaluate | session | matching files to workflows |
| utilities, back end selection, other Python bindings | log, loaded library | – | – | – |

What makes each of the modelled ones correct is stated by its properties below;
`PROJECT.json` lists the components with their sources, and under `hazards`
what in this code is hard to test, each with the properties that watch it.

## Modules

| module | what it is |
|---|---|
| `Executor` | abstract specification: what a client of the pool may count on |
| `ThreadPool` | the pool, shown and proved to implement `Executor` |
| `JobHandle` | jobs, Braket handles, the interpreter lock, on an `Executor` |
| `MpiResults` | the runs of all MPI processes and the messages between them |
| `Qdk` | sessions, a network and a device |
| `Unitaries` | two-qubit gates and circuits as exact matrices, the reference for passes |
| `GateDeferral` | the gate deferral pass, compared with `Unitaries` at every gate |
| `SessionRun` | threads with a session each, the mutex, circuits and outputs |
| `BasisCircuits` `Arithmetic` `BeamCircuits` | the gates the blocks of `circuits/` append |
| `CircuitRun` | one block, run gate by gate on a basis state |
| `CircuitContracts` | what each block promises |
| `MCCircuits` | the blocks and the registers they are called with |
| `QuantumState` `SparseSimulator` | the wavefunction of the sparse simulator, and the simulator |
| `SparseRun` | calls of the simulator, beside the state they mean |
| `Selection` | what several modules take out of a sequence or a set |
| `QbVisitor` `BraketVisitors` `ForeignCircuits` | what each back end's handlers write for a gate |
| `Translation` | a walk over a circuit on any of these back ends |
| `BuilderCalls` `PythonCircuit` | where the arguments of methods and of Python bindings go |
| `CircuitBuilder` | circuits being built, shared and run |
| `ComplexMatrices` | exact complex matrices, the arithmetic of the noise channels |
| `NoiseChannels` | the channels' factories, representations and conversions |
| `NoiseModel` | a noise model, its file, its placement, and a channel taken out of it |
| `MC...` | the small instances TLC checks |
| `...Proofs` | the theorems |
| `InductionFacts` | induction and the operators on sequences, for the proofs |

`JobHandle` composes jobs with the pool through `Pool == INSTANCE Executor`:
because `ThreadPool` implements it, nothing of the pool's slots and flags has to
be in the same state space. `SessionRun` leaves out what `JobHandle` (Braket
runs end early), `MpiResults` (collection) and `Qdk` (hardware) model. In every
module an operator called `Action_Variation` is a mutated `Action` that some
property must reject; no specification uses it, and `PROJECT.json` pairs them.

### ThreadPool

`threads` is the set of threads that own a slot of the vector, so only the
indices are abstracted: a resize in which `num_active_threads .. n-1` are not
the empty slots, which would overwrite a running `std::thread`, sets `status` to
`"crashed"`. `pc` follows a thread through one turn of `loop()`: the check of
the flags without a lock, the pop under `queue_m`, the task, the drain decision
under `threads_m`. `SetNumThreads` includes the join of drained threads, so its
guard waits for them. `Throw` models that a task's exception leaves the thread.

### JobHandle

`gil` is who holds the interpreter lock. `place` is where a posted task is in
`run_async_internal`; `doing` is the blocking call a Python thread is in. `Yield`
gives the lock away where CPython does and nowhere else: between bytecodes,
during sleeps and inside Braket's Python code, but not while a future is waited
for and not in a simulator. `DoneAnswer` and `DoneEffect` are one function of
the code, called by `complete`, `get` and `terminate`.

### MpiResults

A message is the run it belongs to; a channel is a sequence for each worker and
tag, as MPI orders only those. `pos` is the place of a process in the list of
outputs that `send_results_to_supervisor` and
`collect_results_from_mpi_processes` both walk. `SendReturns` may come early,
when MPI buffers, or after the receive: both are possible in every state, and
fairness only assumes the second. `Shots` is a process's share, `Configured` what
its back end is told to run, one shot if the share is 0 (`session.cpp:1453`), and
`Recorded` what it did run, of which a back end may leave out some (`missing`).

`CollectsThisRun` and `AllShotsCollected` speak of runs up to the first that is
not `Faultless`: no back end fails or is late, no message is without elements, and
no native results are synced. The instance has all of these settings, so a run with
native results, a failing one or one with an empty message may come first or second.
What is left to check of it is `EveryRunEnds`: the supervisor's runs end whatever
was left behind, and all processes end the runs before.

### Qdk

A client is a session, a call one run of it. `network` holds the requests that
have not reached the device; losing the answer, delivering it late and
delivering a submission nobody waits for any more are all steps. The device is
external: it accepts circuits unless someone else reserved it, runs them in
order, and may refuse, postpone (425) or answer with something that is not JSON.
The recursion of `HTTP` is the counter `retry_count`; `Unwind` is the exception
that passes all its levels. Each of them calls `cancel()`, which qdk inherits
without overriding: nothing is sent to the device.

### GateDeferral

Each handler is an operator from the members of the pass (a record) to what it
leaves. The circuit is not given beforehand: it begins with one of the
combinations of gates held back on both qubits and goes on gate by gate, while
`wanted` collects its matrix. No gate of the pass acts on more than two qubits
and no handler looks at any other, so two suffice. `Unitaries` computes over the
integers modulo 257, in which 1, i, sqrt(2) and exp(i pi/8) exist: a circuit of
angles that are multiples of pi/4 has an exact matrix, and identities hold
literally. Equality modulo 257 does not prove equality over the complex numbers,
but any identity that is broken there is broken: `MCGateDeferral` checks in an
ASSUME that the gates satisfy the identities they are known by.

### SessionRun

`stage` is where `run()` is: waiting for the lock, building the circuit, executing,
processing, finishing. Back ends are of four classes (`acc`): those with the state
vector, tnqvm, those that take no lock, and hardware; the first two take the lock
(`Locks`). That passes rewrite the user's circuit in place, unless it has free
parameters (line 1082), is left out: what a later run computes from it is not
modelled. Outputs are abstracted to
the number of the run they came from (`source`); the counts, which are drawn
from, are kept. `children` counts the shifted circuits of a gradient still to be
run: those runs go through the same stages and the same lock in the copy
`run_gradients` makes. `Refuse` and `NoRoom` are the two ways `validate()`
throws, before and after it has begun to clear. `Throw` may come at any stage.

### Circuits

A block of `src/circuits` is an operator: the sequence of gates its `expand()`
appends, each X or H with a set of controls. `BasisCircuits` has the parts that
several files repeat (X around the qubits that are to be 0, controlled circuits,
equality), `Arithmetic` and `BeamCircuits` the blocks, under the names they are
registered with. A circuit is run on a basis state, gate by gate, and stays one:
the only H gates are those that choose a letter, both of whose outcomes are
followed, and those around a flag that is in |1> and gives back its sign.
`MeanValueFinder`, which changes amplitudes, is a marker "Mean" that records
where its flag is set. `CircuitContracts` states in terms of the numbers in the
registers what each block is for; `state = Basis(Promised)` also says that every
other qubit, sign included, is as it was. `expand()` refuses registers
(`Refused`) where the code does, and the circuit is then empty.

### Sparse simulator

The wavefunction is a map from sets of qubits that are 1 to amplitudes modulo
257, which are exact (see `Unitaries`) and unnormalised. `SparseSimulator` has
one operator for each method, from the members of the class to the members it
leaves: gates queued, an H, an Rx and an Ry held back on each qubit, the flags of
occupied qubits. `SparseRun` makes calls, keeps the state they mean beside the
simulator, and compares.

### Translations

`QbVisitor`, `BraketVisitors` and `ForeignCircuits` say what each handler
writes, over the gates of `Unitaries`; `Translation` walks a circuit with one of
them, with the measurements that are held back, moved to the end or written in
place. The circuit that was walked and what was written are compared as exact
matrices, up to a phase of the whole circuit. What circuits are spared for the
properties to hold is stated beside them: `Undefined` is the U whose angles are
0 / 0, `Apart` says that no gate meets two measurements held back. Names that `Qdk`
has too begin with `Walk` here, for one module to state theorems about both.

### CircuitBuilder

Instructions are shared between a builder, its copies and the circuits in
sessions, as in the code; only blocks "C-U" have state of their own, a flag by
which the sparse simulator's visitor disables them during a run. A run binds the
values of parameters by position, the list of free parameters on one side, the
variables of the circuit on the other. `meant` is history: the gates each
circuit was asked for. `BuilderCalls` has each method's parameters as the keys
they are passed under, `PythonCircuit` the names the bindings give to what they
pass, and `IsAbout` which names say the same.

### Noise models

`model` maps a gate and its qubits to the channels applied after it, as the code
does; `file` is what `to_json` wrote, `placed` what the placement got, or
`Terminated`. `Take`, the conversions and `PutBack` are calls of a program on one
channel: `hand` is the channel in one of its four representations, and `meant`,
history, the Kraus matrices of what it should be. `unconnected` is history too:
the pairs that were given noise and not connected. The rates of damping of a
device are its parameters, in the place of 1 - exp(-t/T).

`ComplexMatrices` computes over the integers modulo a prime, 38711, for which -1
is not a square and the rates used are: fractions and the roots of probabilities
are exact, roots multiply like positive ones, and conjugation is what it is for
complex numbers. `MCNoiseModel` checks in ASSUMEs that every root taken is one.
Eigenvectors of Choi matrices are found by a library: `ChoiToKraus` takes any of
the given systems that is one of the matrix in hand.

## Runs

| run | module, configuration | instance | properties | shows |
|---|---|---|---|---|
| `pool` | `MCThreadPool` `ThreadPool.cfg` | 3 threads, 3 tasks, one of which may throw, resizes to -1..3 in any order | `NeverUnderstaffed` `OnlyTasksCrash` `RefinesExecutor` `EveryTaskStarts` `PoolConverges` `ShutdownCompletes` | draining keeps the size asked for and resizing never aborts, in every interleaving; the pool implements `Executor`; queued tasks start, shrinking takes effect, the destructor returns |
| `jobs` | `MCJobHandle` `JobHandle.cfg` | a local job that may throw, a Braket job, pool of 2 resized to 1 and 2, a Python thread that calls `get()` only when the task has left the pool | `ClientsSeeResults` `EveryJobEnds` `GetReturnsIfCompleted` | what is reported complete or returned has its results; lock and pool are shared without a deadlock |
| `jobs_get` | `MCJobHandle` `JobHandleGet.cfg` | 1 Python thread, 1 pool thread, `get()` at any time | `LocalGetReturns` violated | finding 1 |
| `mpi` | `MCMpiResults` `MpiResults.cfg` | 3 processes, 2 runs of 2, 4 or 5 shots, 4 settings: plain, with counts and probabilities, with native results, and with a back end that may fail or leave out shots | `CollectsThisRun` `AllShotsCollected` `EveryRunEnds` | up to the first run with a fault or native results, runs collect their own outputs and all shots without waiting for each other; after it the supervisor's runs still end |
| `qdk` | `MCQdk` `Qdk.cfg` | 2 sessions, one reserving or one running twice, 1 retry, 2 polls | `CountsAreOwn` `CopiesBounded` `EveryCallEnds` | counts are those of the own circuit, copies are bounded, every run ends |
| `gates` | `MCGateDeferral` `GateDeferral.cfg` | 64 combinations of H, Rx, Ry held back, then up to 2 gates | `DefersOnly` | the pass keeps what the circuit computes, with no more branching gates |
| `session` | `MCSessionRun` `SessionRun.cfg` | 2 sessions, one making 2 runs with 5 settings and drawing, the other one run with gradients; 2 shots, 2 outcomes | `LockedRunsExclusive` `OutputsOfThisRun` `ShotsAddUp` `EveryRunEnds` | the locked section is exclusive, what a run clears or fills is never an earlier run's and agrees, every shot is drawn once, nested runs end |
| `circuits` | `MCCircuits` `Circuits.cfg` | 221 calls: every block on registers of one to three qubits, every basis state of the registers it reads; additions and comparisons of one bit on every placement on four qubits | `Computes` `ComparatorMarks` `BeamsAreContracted` `MeansAreOfTheBeam` | the numbers left in the registers are the ones the block is named for, and every other qubit is given back |
| `sparse` | `MCSparse` `Sparse.cfg` | 3 qubits, 7 scenarios, up to 3 calls | `SameState` `AnswersAreRight` | the simulator's state is the one the calls mean, and its answers are ones that state can give |
| `translation` | `MCTranslation` `Translation.cfg` | every gate with every angle of ±9·π/4 on each of 16 back ends, circuits of two to four gates and measurements on some | `SameCircuit` `MeasurementsInPlace` `NativeAndInRange` | what was written computes what was walked, measures where it did, and is within what the hardware takes |
| `builder` | `MCCircuitBuilder` `Builder.cfg` | 2 builders, 2 sessions, at most 4 gates in all | `NothingLost` `ParametersListed` `ArgumentsArrive` `RunsAreWhole` | appends, copies and runs lose no gate and mix up no value; arguments of Python calls arrive where the documentation says |
| `noise` | `MCNoiseModel` `Noise.cfg` | 2 default models on two and three qubits, 3 devices on one and two, up to 2 changes, files and placements at any time; channels on one and two qubits through every conversion | `ChannelsArePhysical` `PlacementNeverAborts` `SameChannel` `FilesMeanTheModel` `RoundTrip` | channels are maps quantum mechanics allows and keep their meaning, files say what models say, the placement aborts only over pairs nobody connected |

Why these bounds are enough for the cases to happen:

- Three threads let two drain while a third works and a resize joins them; three
  tasks let one be queued behind one that runs and one that throws. A negative
  request is an argument the code accepts.
- One Python thread polls and waits while the two tasks share the interpreter lock
  with it; two pool threads let a run and a callback go on at the same time, and
  the resize to one lets them compete. What is said of any number of Python
  threads, and of `get()` at any time, is proved (`JobProofs`).
- Two runs are what a message of one run needs to be mistaken for another's; two
  workers what the order of `from` needs; 2, 4 and 5 shots on 3 processes are
  fewer shots than processes, a remainder of one and a remainder of two. A worker
  that leaves out both its shots sends an empty message.
- One retry makes a second copy of a request. Two polls make a second turn of the
  loop. A session with two runs meets the late submissions of its first.
- Every handler of the pass meets every combination of flags of its qubits, with
  distinct nonzero angles, after which another gate meets what it left. Handlers
  look at flags and angles only, and a third gate would meet combinations of
  flags that the openings already cover.
- Three qubits give a block of the circuits a carry that is made, passed on and
  dropped; a control that is on, one that is off and an ancilla are added where
  the block has them. Two letters of two qubits each are the least with a null, a
  repeat and a letter before; a third is what a repeat needs to be found before
  the last place. The circuits have no other parameter than their
  registers, and what is left of the input is compared for every value.
- The sparse simulator's methods look at the flags of the qubits they use, so one
  call after every combination of flags on three qubits (2^9, on a state with
  eight different amplitudes) meets every branch; three calls from nothing go
  through the life of a qubit: used, measured, reset, released, used again.
- Angles of more than a turn either way meet each branch of the range reduction;
  two qubits suffice for gates that act on at most two.
- Two builders and two sessions are what sharing needs; four gates hold a block
  beside a gate with parameters, and appending either to the other. `MCMapLast`
  cuts behaviours that go on after a binding was called when other gates are
  there already: the record of the call is the same whatever comes before.
  Builders are interchangeable, and so are sessions: nothing chooses between
  them, and no liveness is checked under that symmetry.
- Two changes add noise to a pair and connect it, add a second channel to a gate
  that has one, or make a readout error uneven before a file is written. Three
  qubits hold a pair that is not connected beside two that are, one of them
  given in descending order. The device with unlike qubits tells the qubits of a
  pair apart; of the gates of a model, channels are taken from one of each kind.
  Representations and traces of two qubits show every index the code computes.
- Two runs with changed settings between them are what a stale output needs, two
  sessions what a mutex needs, two outcomes what a draw needs.

`CHECK_DEADLOCK FALSE` is set where the system may stop: a destroyed pool, a
Python program without further calls, sessions after their last run, a circuit
that was put out, a simulator after its last call, a program whose noise model
has aborted it. The others check for deadlock:
programs of `MpiResults` end in `Ended`, circuits and translations in `Done`.

What the instances leave out because the code is known to do something else
there (see [Observed](#observed-while-modelling)): `CNOT` with H held back on both
qubits and Ry on the target, in `gates` and in scenarios 4 to 7 of `sparse`; the
gates in `Missing` and `NoTurn` of `MCTranslation`, and there circuits that are not
`Apart` (TLC checks that the tasks left satisfy `Numerical` and `Convertible`, the
hypotheses of the theorems); in `MCCircuitBuilder` the
bindings and methods that pass arguments under other names, or that are refused;
in `circuits` beams of more than two letters and scores of more than four bits.
`mpi` has native results in its instance and excludes them in the properties
(`Faultless`): with them the outputs are not collected.

### Fairness

- Workers of the pool take steps and obtain a mutex they wait for; tasks end.
  Nothing is assumed of clients.
- CPython asks the holder of the interpreter lock to give it up when a thread has
  waited for its switch interval, so a thread that waits gets the lock (SF of
  `Acquire`), wherever the holder can be asked, which is `Yield`. A task that
  holds the lock is run again and again (SF of `RunSession`, `Poll`), because it
  yields at most at its bytecodes. Braket tasks end in some state.
- MPI: processes keep running; a send returns once its message was received; a
  probe returns or times out. That MPI buffers a message is never assumed.
- qdk: `HTTP_TIMEOUT` ends every wait. Neither network nor device owe anything.
- session: a thread inside `run()` goes on. WF is enough for the lock because the
  number of runs is finite, so a waiting thread is not overtaken for ever.

## Findings

1. `get()` of a job that is still running blocks on the pool task's future with
   the interpreter lock held (`py_job_handle.cpp:40`), and the task needs the lock
   to begin: neither goes on.

### Observed while modelling

These are not claimed by a run: no text of the repository says otherwise, the
property is about data the models abstract from, or the disagreement is in a
corner a run leaves out.

Pool and jobs: `loop()` may take a task after the destructor has begun
(`thread_pool.cpp:107`). `complete()` of a Braket job answers true between lines 68
and 72 of `py_job_handle.cpp`. `done()` of a Braket task is false for every final
state but COMPLETED (`AWSQuantumTask.cpp:74`; `AWSQuantumTask.hpp:30` speaks of a
task that is done), so `get()` polls for ever after `terminate()`. `terminate()` of a local job reaches no
accelerator (line 57).

MPI: native results are sent with one tag and received with another
(`workload_partitioning.cpp:63` and `:125`), so they are not collected. A worker's
weight is the shots it really ran, the divisor the shots it was to run (line 178).
With fewer shots than processes, a process without a share runs one shot
(`session.cpp:1453`), although the comment above says that `execute_circuit` is then
false and it only compiles: nothing sets it so. The results then hold a shot of each
process, more than were asked for, and where gradients are asked for the process
divides by its share, 0 (line 908).
A message of no elements is probed but never received
(`mpi_manager.hpp:200`), so it hides the same worker's next one. Messages left
behind by a timeout or an exception are taken for the next run's. This is why
`CollectsThisRun` speaks of runs up to the first that is not `Faultless`.

qdk: a circuit whose polls are all answered "not yet" ends without counts and
without the time-out error that `docs/md/backends.md:32` promises (`qdk.cpp:440`). The
answer to a reservation is not read, so one put off with code 425 counts as
accepted (line 279). The native gates are requested without the authorisation
header. An answer that is not JSON throws at once. When only the
answer of a submission is lost, the earlier copies stay on the device.

Gate deferral: `CNOT` looks at the control before executing what is held back on
the target (`gate_deferral_pass.cpp:372`, against its comment at 371 and
`gateDeferralTester.cpp:294`): with H on both qubits and Ry on the target, the
pass changes the circuit. Gates that are not in `gate_op_map` are dropped without a word
(line 47), among them "U1", which `CircuitBuilder::U1` creates
(`circuit_builder.cpp:188`). Measurements move to the end, so a circuit must not
use a qubit after measuring it. Angles are written with six decimals.

Session: `draw_shot` compares with `>=` (line 1422): with counts {a:1, b:1} both
indices 0 and 1 give a, so draws are biased although each shot is drawn once
(`ShotsAddUp`). Its static generator is shared between threads without a lock
(line 1407). After a run that threw, `shots_remaining_` still is `sn`, and draws
give empty bit strings. A SPAM matrix stays in force once it was seen; correcting
results without counts reads past the end of a map (`utils.cpp:25`), and rounding
may change the total. `z_op`, native results and the state vector of an earlier
run remain when the next does not compute them. A circuit without free
parameters is rewritten in place, so a second run places a placed circuit. Back
ends other than aer, qpp and tnqvm use the compilers without the lock.

Circuits: with three letters or more, `BeamStatePrep` does not give back what it
used to choose a letter, and `BeamsAreContracted` fails. Looking for a repeat, each
place of the string clears its first ancilla by a CX controlled by the repetition
flag of the whole iteration (`qd_beam_state_prep.cpp:412`). Once a repeat was
found, that CX sets the ancilla at every later place, so what line 549 resets
("reset next letter and next metric qubits") is reset under a wrong condition.
With two letters, as in the test, no place comes after the first that can find a
repeat. The comparator loads
the best score an odd number of times and leaves it in its register, uses the
controls that are to be off like those that are to be on (`comparator.cpp:261`,
against `py_circuit_builder.cpp:1086` and `:1344`), ignores both kinds when it is
not an oracle, and encodes the score in `std::bitset<sizeof(int)>`, four bits
(line 136), so a longer register gets other digits (`ScoreDigits`), and one of six
or more is loaded from past the end of the text. `ripple_adder.cpp:51` reads one past the end of registers of the same
length and does not use what it read. `flags_exist` is not initialised in
`generalised_mcx.cpp:27`, `controlled_swap.cpp:34` and `controlled_addition.cpp:39`;
`uq_prime_unitary.cpp` reads past a register that is shorter than the other;
`ae_to_metric.cpp` subtracts unsigned numbers that may go below 0. The inverse
circuit throws for reset, measurement and `ifstmt`. `MeanValueFinder` erases from
the map it iterates over, and its loop may not end; amplitude amplification omits
the inverse of the circuit it reflects about; the exponential search never grows
the range it draws from.

Sparse simulator: `CNOT` has the defect of the gate deferral pass
(`SparseSimulator.h:204`). `MCApplyAndAdj` marks its target as unoccupied with an
H still held back on it. Rotations by tiny angles are dropped. A block "C-U" is
disabled in the circuit itself, which other runs may share. "U1", "ACZ", "RZZ" and
"Reset" are skipped by the visitor without a word.

Translations: U of angle 0 turns the wrong way, and other angles give NaN
(`visitor.cpp:334` to 340). Skipped without a word: U1, CY, CH, CRZ and iSwap by the
Quantum Brilliance visitors; RZZ, XX, XY, Rphi and Reset on the way to TKET; U1 and
more by `AWSVisitor`, which also writes U in another order, a verbatim CNOT, Swap
and Z, and an Sdg, that Braket cannot read or that compute something else.
`AWSOpenQasm3Visitor` writes nothing for CH, fSim, Reset and IfStmt, fails an
assertion for CRZ and Rphi, and gives phase damping the rate of amplitude damping.
Of two measurements that a gate would overtake only one comes back from TKET in
front of it. `TketCircuitTransformPlugin` clears the program before it could fail.
`AWSAccelerator::clone()` loses the configuration, and its connectivity grows with
every initialisation.

CircuitBuilder: the bindings of `canonical_ae` and `run_canonical_ae` pass two
registers in the other's place (`py_circuit_builder.cpp:795`, `:844`, `:1725`), those
of `multiplication` and `controlled_multiplication` name their arguments one off
(1356, 1386), and the module's `run_canonical_ae_with_oracle` names its oracle
"grover_op" (1757). Exponent inserts arrays that its `expand()` never finds, and
`exponent.hpp:59` shadows what it is to fill. `QPrime`, `UPrime` and `UQPrime` are
refused whatever the caller gives, and the refusal is ignored. A compiled circuit
may declare its variables in another order than its gates use them, and the values
of a map are then given by position to the wrong names. A circuit whose parameters are all numbers counts as
parametrised when it was read from a composite; `param_map_to_vec` reads past the
end for a map that lacks a name; the parameters inside a controlled circuit are
not registered. The copy constructor's comment says "Deep copy"
(`circuit_builder.cpp:37`), but instructions are shared, so an append during a run
misses the blocks that run has disabled.

Noise models: a file has the chance of reading 1 for 0 where the chance of reading
0 for 1 is read from, so uneven readout errors come back exchanged
(`noise_model.cpp:348` and `:421`; `NoiseModelTester.cpp` compares them after a
round trip, with equal ones), and of a gate's channels only the first is read (line
431); `RoundTrip` is about the files without either. The conversion to a placement
configuration is `noexcept` (`noise_model.hpp:150`) and throws for pairs that are not
connected. The rates of damping may add up to more than 1 (`noise_model.cpp:103`):
the channels are then NaN. Both qubits of a pair are damped at the rates of one,
then at those of the other, and depolarised twice (lines 95 to 130).
`eigen_to_noisechannel` numbers qubits from 0 whatever they were. The eigenvectors
`choi_to_kraus` takes are those of a solver for any matrix, which need not be
orthogonal when eigenvalues coincide. `setChannelMatrices` adds several channels
instead of composing them (`noise_channel.cpp:899`); `createNQubitNoisyProcessMatrix`
multiplies superoperators by a process matrix (line 551), whose diagonal has roots
of probabilities (line 980).

Hazards without a property, which a test would hardly reach either:
`py_job_handle.cpp:57` (the accelerator a run is cancelled on),
`mpi_manager.hpp:200` (empty messages), `results_serialisation.hpp:120` (words of a
packed string shifted by 32), `workload_partitioning.cpp:178` (weights), `qdk.cpp:279`
(reservations), `session.cpp:1422` (biased draws), `utils.cpp:25` (correction without
counts), `cudaq/sim_pool.cpp:120` (a process-wide simulator), `comparator.cpp:136`
(scores of 16 and more), `noise_model.cpp:103` (damping rates above 1 in all).

## Theorems

| module | theorems | argument |
|---|---|---|
| `ThreadPoolProofs` | `TypeCorrect` `CountCorrect` `Staffed` `TasksOnce` `ResizeSafe` `DestroyedQuiet` `PoolRefinesExecutor` | `SizeInv` joins the types, `ActiveCount`, `NeverUnderstaffed` and `LoopInv`, which ties a thread's place to its slot, flag and task: without it a resize could erase a slot whose thread still decrements the counter. `TaskInv` adds the places of tasks. The refinement needs `IdleRoom`: a thread about to pop is a live one without a task, so fewer than `capacity` run |
| `JobProofs` | `JobInvariance` `ClientsAreToldTheTruth` `Invariance` `CollectionCorrect` `ShotsCorrect` | where a task is tells what its job's fields and session hold (`LocalRuns`, `RemoteRuns`). That `get()` never returns early needs `Blocked`: a client that waits for the future of a Braket job keeps the lock, which the task needs to end, so the dummy it would return is never seen. Of MPI: channels are sorted (`InOrder`) and contain exactly what was sent and not received (`InTransit`), where both are functions of the places of the two processes; hence the head of the probed channel is this run's message. `SharesBefore` gives the shots of the first k processes in closed form |
| `BackEndProofs` | `QdkInvariance` `CopiesAreBounded` `CountsOfOwnCircuit` `HardwareGetsItsOwnGates` `MeasurementsComeBack` | submissions on their way and circuits accepted are distinct attempts of a submission their client has made (`Known`, `Travelling`, `Accepted`), so a run's circuits inject into `0..HTTP_NUM_RETRIES`. On top of it `CountsInv`: a client polls only an id of its own call, and what it is told of it is about that circuit. For translations, `HandlersAreNative` shows of every handler that it pushes words of `OwnGates`, and `NormType` that `norm` ends within a half turn for every angle. `ReturningInv`, for the way back from TKET: what is held back are exactly the qubits measured and not used since (`Fresh`), and on each qubit what was put out, followed by the measurement held back, is the part of the circuit that has returned; without the first a gate could overtake a measurement, or two |
| `SessionProofs` | `SessionInvariance` `LockIsExclusive` `OutputsAreOfThisRun` `EveryShotOnce` `NeverAborts` | who is in the section holds the lock (`Held`); before its counts are processed a run's outputs are clear (`ClearBefore`), afterwards they agree (`AgreeAfter`), nested runs included; of the outputs that are never cleared that is all there is to say. A lemma (`Frame`) shows that no session touches another's outputs. `ShotInv`: at each stage of drawing, the counts drawn and the shots left add up to those asked for, where the sums over outcomes are folds; that one more of an outcome is one more of the sum is an induction. For `NeverAborts`, about the noise model of a session, every pair a model has noise for is connected or noted (`Noted`), after each way to make or change a model: a default model connects all it has, a file's pairs are connected by the one who reads it, the pair a program connects is the only one no longer to be noted |
| `BuilderProofs` | `EveryGateIsThere` `ParametersInOrder` `RunsExecuteEverything` | `BuilderInv`: circuits and lists are those asked for (`NothingLost`, `ParametersListed`), and an instruction that is disabled was executed by a run under way, so appending and copying find every gate enabled. `WholeInv` adds what the third needs: the variables of a circuit are the names of its gates in their order (`InStep`), no two blocks share a number (`BlocksDiffer`), a run that overlaps no other owes exactly the gates before it, each with its value, and two runs that overlap both know it (`RunsInv`) |
| `DeferralProofs` | `PassDefersOnly` `WithoutCNOT` | every state of the pass stands for a circuit: what has been put out, what is queued, what is held back. `ApplySimulates`: each handler leaves a state that stands for what the state before stood for followed by the gate, up to a phase, at the cost of the gate. A lemma for each handler reduces this to identities between 2 x 2 matrices modulo 257, for every angle: as a power of the root of unity repeats after 16, sines and cosines of sums follow from those powers. `DeferralInv` carries it along the walk |
| `CircuitProofs` | `CallsCompute` | a circuit of X gates takes the set of the qubits that are 1 along a path (`Path`, `After`), and a run follows it (`OnTheWay`). A ripple adder is followed wire by wire up and down (`RippleWorks`): each carry is where the next majority looks for it, each sum is written before its carry is taken back. Numbers are compared digit by digit: what is left of a number after j halvings (`IsTail`, `IsHalved`) is related to those of its parts by the carry or borrow into place j (`SumHalved`, `DifferenceHalved`), so no power of two is needed. A subtraction is an addition between complements (`SubtractionSubtracts`), a comparison reads the last borrow and undoes the rest (`CompareGTCompares`), a multiplication adds into a window that moves up, whose last qubit is 0 whenever it is reached (`Multiplied`). Swaps and equality checks read the digits back from a number (`NumberCopied`, `SameDigits`); the ladder of ancillas of a gate with many controls is 1 up to the first control that fails and is taken back on the way down (`RungTwice`, `MultiControlledRuns`); QPrime and UPrime copy two registers of one beam (`LoadsLoad`) |
| `InductionFacts` | lemmas of `BuilderProofs`, `SessionProofs`, `BackEndProofs`, `DeferralProofs` and `CircuitProofs` | see below |

`TypeCorrect`, `CountCorrect`, `TasksOnce` and `DestroyedQuiet` are proved for every number
of threads and tasks (the state has its types, the counter is the number of slots that
survive, a task is in one place, nothing runs after the destructor); no run repeats them.

The assumptions are those named in the modules: sets of threads and clients are
finite, requests do not exceed the threads there are, settings have their types.
The theorems about MPI hold for all settings; it is the properties themselves that
speak of runs up to the first with a fault, an empty message or native results
(`Undisturbed`), after which they would be false.

`InputsAssumption` says of `CircuitBuilder` that programs give gates with operands
and names, `FinitelyMany` that the builders of a process are finite in number;
`RunsExecuteEverything` has `OrderlyPrograms` as a hypothesis: the variables of a
composite are declared in the order in which its gates use them, as `session.hpp:150`
says, because `session.cpp:1085` gives their values by position (see
[Observed](#observed-while-modelling) for those that are not).

`TasksAssumption` gives the gates of `Translation` their operands and angles, whole
numbers of pi/4. `HardwareGetsItsOwnGates` has `Numerical` as a hypothesis, no U
whose angles are 0 / 0 (`visitor.cpp:337`); it needs nothing of the gates the
visitors skip. `MeasurementsComeBack` has `Convertible`: gates TKET has or the
converter refuses, as others vanish without a word, and `Apart`, as of two
measurements that a gate would overtake only one comes back in front of it, and
of two of the same qubit in a row only the first at all (`tket_ir_converter.cpp:286`
to 304).

Induction. The library's induction theorems take a predicate as an operator, which
the provers cannot instantiate. `InductionFacts` derives induction over the numbers
with a property, given as a set, from the theorem that a set of numbers has a least one
(`WFMin`), then that a recursion over an interval has one solution, then what
`FlattenSeq` and the folds under it do with a longer sequence, and that a finite set
of numbers has one ascending sequence (`Among` and `Ascending` of `Selection`).
Circuits and lists of any length rest on it.

`CircuitsAssumption` says of `GateDeferral` that circuits consist of gates that have a
handler, with their operands and angles, or that the pass refuses: the walk drops any
other gate without a word (`gate_deferral_pass.cpp:47`). `PassDefersOnly` is about behaviours
that never take a step of `WalksStranding`, a CNOT walked while H is held back on both of its
qubits and Ry on its target alone. Those steps are where the pass is wrong
(see [Observed](#observed-while-modelling)), and the only ones: of every other gate in
every other state the theorem shows that the handler is right. `WithoutCNOT` draws the
conclusion for circuits of which that is known beforehand.

`CallsCompute` is about the calls of `WellCalled`. Where the block checks its
registers that is only that they are registers; where it does not, that they are
disjoint and long enough. The ancilla, and the result of a multiplication, are 0 at
first. 207 of the 221 calls of the run `circuits` are of this kind, 174 of them refused.
Of the others `Computes` is only model-checked: division, `AEtoMetric`, the comparator of
scores, `MultiControlledUWithAncilla` on several targets, and those circuits of the
decoder that put letters in superposition or choose among them.

Only model-checked: liveness, which the prover does not do; the other
properties of circuits and simulator, `SameCircuit`, and those of channels, which
compare products and sums over matrices; `ArgumentsArrive`, which is about a
finite table and checked for every entry of it.

## Not modelled

Numerical parts (fits of process matrices, probabilities, energies, amplitude estimation),
text (OpenQASM, JSON, logging), algorithms of libraries (placement, TKET's passes,
XACC compilers, CUDAQ) and declarations. In modelled components: bit packing of MPI
results, weights of probabilities, settings of each back end and their selection,
sleeps, CUDAQ kernels and sessions, `run_with_SPAM`; of the sparse simulator the
probabilities of outcomes and the growth of its bit strings; of the translations
XX, XY, RZZ and expressions as angles; of noise models those of the emulator
library, `createIdealU3ProcessMatrix`, the least-squares solvers and interpolations
of `noise_channel.cpp` and `decoherence_pauli_error`; of builders `exponent()`, RyEncoding and
OpenQASM. Each has its reason in `PROJECT.json`.

## Plan

1. *Done*: pool and abstract executor, jobs, MPI, hardware, gate deferral, session.
2. *Done*: reversible arithmetic, the decoder's circuits, the sparse simulator, the
   visitors and conversions, builders and bindings.
3. *Done*: `ClientsSeeResults` and `CountsAreOwn` proved; noise models, and
   `PlacementNeverAborts` proved.
4. Packing of results (`results_serialisation`): unpack after pack is the identity
   up to 32 bits; what happens above; composed with `MpiResults`, whose messages
   then have contents.
5. Exponential search: the loop with `m`, its rounding and its end, over a
   nondeterministic sampler. Division of Pauli terms over MPI processes. Loader of
   benchmark files, with two executions in one second.
6. Placement's contract on the layout of bits.
7. *Done*: shots add up, builders keep every gate,
   list every parameter and run whole, hardware is given its own gates and
   measurements come back from TKET, for circuits of any length.
8. Proofs of the lemmas about a single handler that need no induction: a gate
   passes what is held back on its qubits; a pair's file means the pair.
