------------------------------ MODULE RunSpec ------------------------------
(***************************************************************************)
(* What a harness run promises (spec.md sections 4.6, 6 and 7), without   *)
(* processes, queues or threads: the scheduled tests get their results one *)
(* at a time and in order; each result has between one and MaxAttempts    *)
(* attempts, of which only the last may be attributable; the run ends     *)
(* either when every test has a result, with exit status 0 exactly when    *)
(* every final outcome is pass or skipped, or early, with status 1.        *)
(***************************************************************************)
EXTENDS Integers, Sequences, SequencesExt

CONSTANTS
  Schedule,     \* the tests in the order they run
  MaxAttempts   \* 1 + retries

VARIABLES
  results,      \* the TestResults so far: [test, attempts]
  finished,     \* the run has ended
  status        \* the process exit status

vars == <<results, finished, status>>

Outcomes == {"pass", "fail", "error", "timeout", "skipped", "infra"}
Retryable == {"infra", "timeout"}

\* The attempt histories a TestResult may have.
AttemptSeqs ==
  {a \in UNION {[1..n -> Outcomes] : n \in 1..MaxAttempts} :
     \A i \in 1..Len(a) - 1 : a[i] \in Retryable}

Passed(r) == Last(r.attempts) \in {"pass", "skipped"}

Init ==
  /\ results = <<>>
  /\ finished = FALSE
  /\ status = 0

\* The next scheduled test gets its result; after the last one the run
\* ends with its summary status.
RecordResult ==
  /\ ~finished
  /\ Len(results) < Len(Schedule)
  /\ \E a \in AttemptSeqs :
        results' = Append(results, [test |-> Schedule[Len(results) + 1], attempts |-> a])
  /\ IF Len(results') = Len(Schedule)
     THEN /\ finished' = TRUE
          /\ status' = IF \A i \in DOMAIN results' : Passed(results'[i]) THEN 0 ELSE 1
     ELSE UNCHANGED <<finished, status>>

\* Discovery or startup fails, or the run is otherwise cut short.
Abort ==
  /\ ~finished
  /\ finished' = TRUE
  /\ status' = 1
  /\ UNCHANGED results

Next == RecordResult \/ Abort

Spec == Init /\ [][Next]_vars

=============================================================================
