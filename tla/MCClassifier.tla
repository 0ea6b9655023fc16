---------------------------- MODULE MCClassifier ----------------------------
(***************************************************************************)
(* Checks the classification operators of Classifier over every event      *)
(* sequence up to MaxEvents long and every exit code in Codes.  The state  *)
(* is the input of one attempt: Init picks the exit code, each step        *)
(* appends one more event the guest emitted.                               *)
(***************************************************************************)
EXTENDS Classifier, FiniteSets

CONSTANTS
  Codes,      \* exit codes the emulator may report, NoCode included
  MaxEvents   \* longest event sequence checked

ASSUME MaxEvents \in Nat /\ NoCode \in Codes

\* None, a signal (SIGTERM gives -15), a clean exit, an abort (odd) and an
\* unexpected even status.
MCCodes == {NoCode, -15, 0, 1, 2}

\* The events whose fields the classification reads: type and status for
\* every type that has one, and the presence of a message on errors.
CheckedEvents ==
     {[type |-> t, status |-> NoStatus, msg |-> FALSE] : t \in {"test_start", "other"}}
  \cup {[type |-> "test_end", status |-> s, msg |-> FALSE] : s \in Statuses \cup {NoStatus}}
  \cup {[type |-> "error", status |-> s, msg |-> m] : s \in Statuses \cup {NoStatus}, m \in BOOLEAN}

VARIABLES code, events
vars == <<code, events>>

Init ==
  /\ code \in Codes
  /\ events = <<>>

\* The guest emits one more event before the attempt ends.
Emit ==
  /\ Len(events) < MaxEvents
  /\ \E e \in CheckedEvents : events' = Append(events, e)
  /\ UNCHANGED code

Spec == Init /\ [][Emit]_vars

TypeOK ==
  /\ code \in Codes
  /\ events \in Seq(Event)
  /\ InterpretTestEvents(events) \in Outcomes
  /\ GuestExitOutcome(code, events) \in Outcomes

HasError == \E i \in 1..Len(events) : events[i].type = "error"

-----------------------------------------------------------------------------
(* Properties that hold.                                                   *)

\* When the guest dies, a test the events already show as failed or in
\* error stays failed or in error whatever exit status the emulator reports
\* (the priority merge in run_test's HarnessGuestExit handler): a clean
\* looking exit code never hides an attributable failure.
ExitCannotMaskFailure ==
  InterpretTestEvents(events) \in {"error", "fail"}
    => GuestExitOutcome(code, events) \in {"error", "fail"}

\* An abort through isa-debug-exit (an odd status: bit 0 is the abort
\* flag), a signal, or a missing exit code always gives "error" on the
\* guest-exit path, whatever events preceded it: _summarise_exit calls it
\* "error", the top of _priority's table, which no event outcome outranks.
AbortExitIsError ==
  (code = NoCode \/ code < 0 \/ code % 2 = 1) => GuestExitOutcome(code, events) = "error"

-----------------------------------------------------------------------------
(* Statements of spec.md section 4.5 that the code does not meet.         *)

\* Spec 4.5: an error event that no test_end follows "downgrades an infra
\* baseline to error".  An attempt whose only report is a status-less
\* error and that never sent test_end is therefore classified "error".
UnfinishedErrorIsError ==
  ( /\ HasError
    /\ \A i \in 1..Len(events) : events[i].type # "test_end"
    /\ \A i \in 1..Len(events) : events[i].type = "error" => events[i].status = NoStatus )
  => InterpretTestEvents(events) = "error"

\* Spec 4.5: when the guest exits with a clean status but emitted no event
\* at all, the merged outcome is forced to "infra" ("kernel exited without
\* emitting events").
SilentCleanExitIsInfra ==
  (events = <<>> /\ code = 0) => GuestExitOutcome(code, events) = "infra"

\* Spec 4.5: "a clean-looking exit code cannot override a genuine error
\* event": on the guest-exit path an attempt with an error event is never
\* reported as passed or skipped.
GuestExitErrorNeverPasses ==
  HasError => GuestExitOutcome(code, events) \notin {"pass", "skipped"}

=============================================================================
