# TLA+ models of the Archipelago kernel test harness

This directory holds TLA+ models of `src/tools/test-harness.py`. That file is the
host-side harness. It boots the Archipelago kernel under QEMU, discovers the
kernel's tests with `LIST`, runs each one with `RUN <name>` over the serial line,
classifies the outcomes, retries infrastructure failures and writes artifacts.
The models are checked with TLC. Every module is written from the Python source.
The guest kernel is not in this repository, so it is modelled from `spec.md` as
the environment.

## The system

| Part | Code | State | Operations |
|---|---|---|---|
| Transport | `KernelHarness.start/stop/restart`, `_reader_loop` | `self.proc`, `self._lines` (a `queue.Queue`), one reader thread per process | spawn QEMU and a reader thread, then wait for the idle prompt; terminate or kill; the reader copies stdout lines into the queue, then `None` |
| Event parser | `_parse_line`, `_safe_json`, `_next_event` | none | a line becomes a `harness`, `test` or `log` event |
| Protocol state machine | `wait_for_prompt`, `send_command`, `gather_until_waiting`, `list_tests`, `_next_line` | `self._ready`, `self._exit_code` | read to the idle prompt, send a command, gather events to the next prompt; each read has a deadline |
| Exit-code interpretation | `_summarise_exit` | none | isa-debug-exit convention (bit 0 = abort) |
| Outcome classifier | `_interpret_test_events`, the `HarnessGuestExit` handler of `run_test` | none | fold the events into an outcome; merge it with the exit outcome by severity |
| Retry orchestrator | `run_test` | `attempts`, `post_run_restart_done`, `attempt_idx` | a restart before a clean-environment test, attempts with restarts, a final restart |
| Scheduler | `reorder_tests_for_execution` | none | round-robin by module, normal tests before clean-environment tests |
| Main | `main` | `results`, `exit_code` | start, list, schedule, run each test, then `stop()` in `finally` |
| Artifact sink, CLI | `write_artifacts`, `parse_args` | files | I/O only |

How the parts interact. Main's thread is the only caller of the harness. The
reader thread of each process generation runs concurrently with it: it puts
lines into the queue, and at end of stream it writes `self._exit_code` and puts
`None`. The guest runs concurrently with both. It may hang or die at any point.
Deadlines turn a hang into `HarnessTimeout`.

The hard behaviours are these:
- threads of old process generations still running after `restart()`, since
  `stop()` does not join the reader;
- a guest that dies at any point: at boot, at the prompt, or mid-test;
- a timeout racing the guest's output;
- restarts that fail inside the retry paths;
- the bookkeeping of `post_run_restart_done`;
- the order in which the classification rules are applied.

## Modules

- **`Classifier.tla`**: pure operators.
  - `SummariseExit` is `_summarise_exit`.
  - `ScanStep` and `Scan` are a left fold (`FoldLeft`) modelling the event loop of
    `_interpret_test_events`.
  - `InterpretTestEvents` applies the three corrections after the loop, in the
    code's order.
  - `Priority` and `GuestExitOutcome` are the guest-exit merge in `run_test`.

  An event is abstracted to its type, its `status` (or `NoStatus` when the key is
  absent, or `"unknown"` for any unrecognised string) and whether it has a
  message. Reason strings and the harness/test channel never change an outcome,
  so they are left out.
- **`MCClassifier.tla`**: a small state machine that enumerates inputs. `Init`
  picks an exit code from {None, -15, 0, 1, 2}, and `Emit` appends one of 26
  events, up to `MaxEvents` = 3. Every property is then checked over every
  classifier input of that size.
- **`Scheduler.tla`**: `reorder_tests_for_execution` as operators:
  - `ModuleOrder` and `Buckets` are the first loop;
  - `Pass` is one `for module in ...` pass and `Drain` (RECURSIVE) its
    enclosing `while`;
  - `CleanModules` is `clean_modules`;
  - `Flush` is the fallback;
  - `Substitute` writes the schedule back into the positions of known tests.

  A descriptor is reduced to its module key and its clean flag.
- **`Discovery.tla`**: test discovery and main's choice of tests, as
  operators, on top of `Scheduler`.
  - A serial line is its marker (none, `@@HARNESS`, `@@TEST`) and the shape of
    the JSON after it: undecodable, `null`, valid but not an object (a number,
    string, array or boolean), or an object with the keys the harness reads
    (`event`, `name`, `module`, the truthiness of `requires_clean_env`,
    `tests`).
  - `SafeJson` and `ParseLine` are `_safe_json` and `_parse_line`. An
    undecodable or `null` payload is demoted to a log line; a payload that is
    valid JSON but not an object is not.
  - `Gather` folds `GatherStep` over the LIST reply, up to the first idle
    prompt. It ends in `"crash"` where line 264 calls `.get` on a harness
    payload that is not a dict, and in `"timeout"` when the reply has no
    prompt.
  - `ListTests` folds `ListStep`, the `for event in events` loop of
    `list_tests`: a `test` event adds one descriptor, a `list` event whose
    `tests` is a list adds one per item, an `error` event raises
    `HarnessError`.
  - `DescriptorMap` (a later descriptor of a name replaces an earlier one),
    `Dedupe` (`dict.fromkeys`), `TestsToRun` and `Main` are lines 703-727 of
    `main`. `Main` returns how main goes on: `crash`, `abort` (its `except`),
    `listed` (`--list`), `empty` (nothing discovered) or `run` with the
    schedule.
  - `InterpretRaises` is the `payload = event.payload or {}` and `.get` of
    `_interpret_test_events` (lines 494-514), which reads harness and test
    payloads alike: a falsy payload becomes `{}`, a truthy one that is not a
    dict raises an `AttributeError`.
- **`MCMain.tla`**: checks main's work before the first test, and how
  the payloads of a test's output are read, from three entry
  points, in one state space with a `mode` variable.
  - Mode `reorder` enumerates every descriptor map over 4 names and 2
    modules, and every list of up to 4 names, repeats included. It compares
    `Reorder` with `RefReorder`, a reference definition of the spec's
    schedule. The reference has no buckets: a known test's place is ordered
    by phase (normal, then clean), then by its rank in its module's bucket,
    then by the first-seen position of its module.
  - Mode `run` enumerates every reply of up to 3 lines to RUN. A reply
    without a prompt ends either in the guest's exit, whose events
    `_interpret_test_events` reads (line 345), or in a timeout, whose events
    are dropped; `exited` chooses. A reply with a prompt is read at line
    431. It gives `GuestOutputNeverCrashes` the RUN paths.
  - Mode `main` enumerates every LIST reply of up to 3 lines from 28 line
    shapes, both values of `--list`, and every command line of up to 2 names
    over 2 names. It compares `Main` with a reference stated without folds:
    the announcements before the first idle prompt, and for each name its
    last announcement.
- **`RunSpec.tla`**: the abstract specification of a run. It has three
  variables:
  - `results`: the scheduled tests get results in order, each with 1..1+retries
    attempts, of which all but the last are infra or timeout;
  - `finished`;
  - `status`: 0 exactly when every final outcome is pass or skipped.

  A run may also end early with status 1. `Harness` maps onto it through
  `Abs == INSTANCE RunSpec WITH finished <- pc \in {"finally", "done"}, ...`.
  The run checks `RefinesRunSpec == Abs!Spec`.
- **`Harness.tla`**: the protocol engine and orchestrator as one concurrent
  system with three kinds of actor.
  - *Guest(g)* is spec-modelled. Each generation `g` boots, prints the prompt,
    accepts one command at a time, prints a script chosen from `RunScripts` or
    `ListScripts`, prints the prompt again, and may die (`GuestExit`, bounded
    by `MaxCrashes`). It has no fairness.
  - *Reader(g)* is `_reader_loop` of generation `g`:
    - `ReaderLine` (lines 170-171) puts into whatever queue `self._lines`
      names at that moment; if it is `None`, the thread ends with an
      `AttributeError`;
    - `ReaderEnd` is the end of the `for` loop;
    - `ReaderExitCode` (lines 172-173) is `poll()` on whatever `self.proc`
      is then. `Poll` may return `None` for a dead process that is not yet
      reaped;
    - `ReaderEof` (line 174) puts the `None`.
  - *Orchestrator* is main's thread. `pc` is its program counter and `ctx`
    says which call site a `restart()` returns to:

    | `ctx` | call site |
    |---|---|
    | `main` | main's `start()` |
    | `pre` | line 321 (a failed boot aborts with cause `clean_restart`) |
    | `retry` | lines 335, 413, 451 (a failed boot aborts with cause `restart`) |
    | `gexit` | line 392 |
    | `post` | line 467 |
    | `list` / `run` | the reads of `list_tests` and `run_test` |

    Its actions, with the code they model:
    - `StopProc`: `stop()`.
    - `StartProc`: `start()` up to the boot wait.
    - `BootWait`: the boot wait, which succeeds (`StartReturned`) or raises
      (`StartRaised`: swallowed at lines 392 and 467, fatal elsewhere).
    - `SkipLine`: the read loop of `wait_for_prompt`.
    - `WaitForPrompt`: the same, inside `run_test`.
    - `SendCommand`: `send_command`.
    - `GatherUntilWaiting`: `gather_until_waiting` with the three ways it
      ends, and what `list_tests` and `run_test` do with each.
    - `RunTestBegin`, `AttemptHead` and `RunTestPost`: the entry, loop head
      and tail of `run_test`.
    - `RunTestEnd`: main's loop body and exit status.
    - `Abort`: main's `except`.

  A queue item carries a ghost field `gen`: the generation that printed it.
  The code does not keep it; only `EventsFromCurrentGuest` reads it.
- **`MCHarness.tla`**: the instance that TLC checks. It composes the harness
  with discovery and the scheduler the way `main` does.
  - The guest's LIST reply, `MCListReply`, announces `t2`, a
    clean-environment test of module `core`, then prints the idle prompt. The
    command line is `t2 t1`; `t1` was not discovered, so it is unknown and
    keeps its position.
  - An `ASSUME`, checked once by TLC, states that `Disc!Main(FALSE, <<t2,
    t1>>, MCListReply)`, where `Disc` is an instance of `Discovery`, gives
    the descriptor map `MCDescriptors` and the schedule `<<t2, t1>>`: the
    order in which a clean test is followed by another test.
  - `Clean` is `{t2}`. The same `ASSUME` checks that this is what lines
    735-736 read from the descriptors.
  - `Retries` is 1.
  - The RUN scripts are "start, end pass" (terminal) and "start" (a hang,
    classified timeout, retried).
  - The LIST scripts are a listing or an error event.
  - A crashing guest exits with status 0. `stop()` gives -15.

## Runs

| Run | cfg | Expect | What it shows |
|---|---|---|---|
| classifier | `MCClassifier.cfg` | pass | `ExitCannotMaskFailure`: when the events show fail or error, the guest-exit merge keeps fail or error whatever the exit code. `AbortExitIsError`: None, negative and odd exit codes always give error. |
| classifier_unfinished_error | `MCClassifier_UnfinishedError.cfg` | violation | A status-less error with no `test_end` is classified timeout, not error (spec 4.5). |
| classifier_silent_exit | `MCClassifier_SilentExit.cfg` | violation | Clean exit plus no events gives timeout. The "kernel exited without emitting events" rule (line 376) is dead. |
| classifier_error_masked | `MCClassifier_ErrorMasked.cfg` | violation | An error event with an unrecognised status and no message, followed by exit 0, gives pass. |
| harness | `MCHarness.cfg` | pass | `CleanRunIsFirst` / `CleanRunIsLast`: a kernel that runs a clean-environment test has received no command before it and receives none after it. This holds through timeouts, crashes, failed guest-exit restarts and lagging readers. `RefinesRunSpec`: main implements `RunSpec`. Results come in schedule order, only infra or timeout is ever retried, and the exit status is right. |
| main_selection | `MCMain.cfg` | pass | `MatchesReference`: the scheduler's output equals the reference schedule of spec 4.7. `FallbackNeverFires`: the round-robin phases alone schedule every known test. `RunsWhatWasAsked`: main runs exactly the tests the guest announced before its prompt (by `test` events or `list` items), or exactly the names given, each given name once, and a test the guest named once runs once; every test runs with the clean flag of its last announcement. |
| discovery_crash | `MCMain_Crash.cfg` | violation | `GuestOutputNeverCrashes` fails. Valid JSON that is not an object is not demoted by `_parse_line`. After `@@HARNESS` (`@@HARNESS 1`), `payload.get` at line 264 raises an `AttributeError` that main's `except` clauses do not catch, during discovery or a RUN. After `@@TEST` (`@@TEST [1]`), the `.get` at line 514 in `_interpret_test_events` raises the same way on every RUN that reaches the prompt or ends in the guest's exit, a passing test included. Each time the harness dies with a traceback and the remaining tests never run. Spec 4.2, 8 and 9 say such a payload is demoted to a log line and never raises. |
| harness_live | `MCHarness_Live.cfg` | pass | `RunTerminates`: main always reaches the end of `finally`, whatever the kernel does. |
| harness_stale_reader | `MCHarness_StaleReader.cfg` | violation | `EventsFromCurrentGuest` fails. An old reader puts the stopped guest's `test_start` into the new queue, and it is gathered as the new attempt's event (39 steps). |
| harness_stale_eof | `MCHarness_StaleEof.cfg` | violation | `GuestExitOnlyWhenExited` (an action property) fails. The reader of the process that the clean-environment restart killed polls the new, live process, gets `None`, and puts its end-of-stream `None` into the new queue mid-RUN. The healthy test is recorded as a guest exit with outcome error, which is terminal (27 steps). |
| harness_dead_guest | `MCHarness_DeadGuest.cfg` | violation | `DeadGuestNeverAbortsRun` fails. The guest dies at the prompt, `self._ready` is stale, and `send_command` raises out of `run_test`, so the whole run aborts: main catches `HarnessProcessExit` and returns 1, and a `BrokenPipeError` ends the program with a traceback after `finally`. |
| harness_restart_abort | `MCHarness_RestartAbort.cfg` | violation | `RetryRestartNeverAbortsRun` fails. A retry restart (line 335, 413 or 451) whose boot times out aborts the whole run. The clean-environment restart at line 321 has its own abort cause, so the trace is a retry restart. |

Every passing property has a mutant in `PROJECT.json`: a plausible bug in the
mapped definition, which TLC shows the property catches. The mutants are:
- the "pass" and "fail" priorities swapped;
- the abort bit not tested;
- no closure to the outcome set;
- one attempt too many;
- no restart before or after a clean test;
- the exit status read from each test's first attempt;
- a pass that empties a whole bucket, and a single pass without the `while`;
- a descriptor map in which the first descriptor of a name wins;
- a deadline that never passes.

## Bounds and why they suffice

| Bound | Value | Why |
|---|---|---|
| `MaxEvents` | 3 | Every classification rule depends on at most one `test_end`, one error and their order. Three events give every relative order of start, error and end. |
| `Retries` | 1 | Two attempts are enough to reach the "retry at the last attempt" bookkeeping (`attempt_idx == max_attempts`) as well as an earlier retry. |
| `MaxCrashes` | 1 | One crash covers death at boot, at the prompt and mid-test, each in any generation. |
| Scheduler inputs | 4 names, 2 modules, lists of up to 4 | These give two rounds of the round-robin in one phase, both phases, unknown tests between known ones, and repeated names. |
| LIST replies | 3 lines of 25 shapes; 2 names, a module and no module | Three lines give an announcement by a `test` event and again by a `list` item (with a different clean flag) before the prompt, an error before or after the prompt, a non-object payload, and a reply with no prompt. A `list` event holds at most one item; two items in one list add no order of announcements that a `test` event followed by a `list` event does not already give. |
| `MaxLagging` | 1 | One restart may happen while an older reader is still running. That is enough for the cross-generation leak. |
| Generations | `1 + Len(Schedule) * (MaxAttempts + 2)` | This is the most `start()` calls that main and `run_test` can make. |

Timeouts fire only when the queue is empty. A timeout with items queued reaches
the same states, because `stop()` discards the queue and the same items could
still have been in the pipe. The classifier run has 91k states; the harness run
has 1.2M states and takes about 2.5 minutes with the refinement check; the
main_selection run has 577k states over its three modes and takes about 1 minute. Coverage (`-coverage`) shows every
action, disjunct and CASE arm of `Next` taken in the harness run.

## Fairness

The orchestrator and each reader thread are weakly fair. They are OS threads,
and every blocking read has a deadline, so neither can stay enabled forever
without moving. The guest gets no fairness, because a kernel may hang anywhere.
Termination must therefore come from the deadlines, which is what
`RunTerminates` checks. `CHECK_DEADLOCK FALSE` is set because main returns: the
final `done` state has no successor.

## Not modelled

- The text of reasons, messages and summaries, and JSON beyond the shape of
  a payload and the keys the harness reads. A name or module that is not a
  string (an unhashable list would make line 704 or the scheduler raise) is
  not among the inputs.
- A test announced twice in one LIST reply runs twice: `list_tests` keeps
  every announcement and main runs the list as it is. Spec 3 makes a name
  unique within one discovery pass, so only a guest that breaks the protocol
  reaches this; `RunsWhatWasAsked` checks that the code adds no second run
  of its own.
- Lines of a reply after its first idle prompt stay in the queue and would be
  read by the next command. The guest model prints one prompt per command.
- `write_artifacts`, `parse_args` and `ensure_iso`, which are I/O.
- `KeyboardInterrupt`.
- `Popen` failures, such as a missing QEMU binary. These are not
  `HarnessError`s and end the program at once.
- The `start()` no-op branch (lines 110-111) and `stop()`'s `if not self.proc`.
  Neither is reachable: every `start()` follows a `stop()`.
- `run_test`'s `except HarnessProcessExit` (line 417), which is unreachable.
  `gather_until_waiting` turns every process exit into `HarnessGuestExit`, so
  the spec's retryable "process exit without guest-exit payload" never happens:
  a mid-test death is always conclusive.

## Plan for later work

1. **More stale-state properties**: the old reader's `self._exit_code` write
   overtaking the current reader's write, once the race at `poll()` is
   separated from it.
2. **Process exit versus guest exit**: spec 4.6 distinguishes a retryable
   "process exit without a guest-exit payload" that the code never produces.
   A violation run could state it.
