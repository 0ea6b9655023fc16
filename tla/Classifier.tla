------------------------------ MODULE Classifier ------------------------------
(***************************************************************************)
(* Outcome classification of one attempt of one test, from               *)
(* src/tools/test-harness.py:                                              *)
(*   SummariseExit        KernelHarness._summarise_exit                    *)
(*   InterpretTestEvents  KernelHarness._interpret_test_events             *)
(*   GuestExitOutcome     the HarnessGuestExit handler of run_test, which  *)
(*                        merges the exit-code and the event outcomes.     *)
(*                                                                         *)
(* An event is the part of a parsed @@HARNESS / @@TEST line the            *)
(* classification reads: its "event" type, its "status" (NoStatus when     *)
(* the key is absent) and whether it carries a non-empty "message" or      *)
(* "reason".  The channel (harness or test) and the text of the reasons    *)
(* only change the reason string, never the outcome, and are left out.     *)
(***************************************************************************)
EXTENDS Integers, Sequences, SequencesExt

CONSTANTS
  NoStatus,   \* the "status" key is absent from the payload
  NoCode      \* the exit code is None

Outcomes == {"pass", "fail", "error", "timeout", "skipped", "infra"}

\* A status the guest may put in a payload: one of the outcomes, or any
\* other string ("unknown" stands for all of them).
Statuses == Outcomes \cup {"unknown"}

EventTypes == {"test_start", "test_end", "error", "other"}

Event == [type: EventTypes, status: Statuses \cup {NoStatus}, msg: BOOLEAN]

-----------------------------------------------------------------------------
(* _summarise_exit: the isa-debug-exit convention.  Bit 0 is the abort    *)
(* flag, so every odd status is an error; 0 is a clean exit.               *)

\* Mutation: the abort bit is not tested.
SummariseExitNoAbortBit(code) ==
  IF code = NoCode \/ code < 0 THEN "error"
  ELSE IF code = 0 THEN "pass"
  ELSE "infra"

SummariseExit(code) ==
  IF code = NoCode \/ code < 0 \/ code % 2 = 1 THEN "error"
  ELSE IF code = 0 THEN "pass"
  ELSE "infra"

-----------------------------------------------------------------------------
(* _interpret_test_events: a left fold over the events followed by three  *)
(* corrections applied in the code's order.                                *)

\* One iteration of the loop.  A test_end sets the outcome to its status
\* ("pass" when absent); an error sets it only when it has a status.
ScanStep(acc, e) ==
  CASE e.type = "test_end" ->
         [acc EXCEPT !.ended = TRUE,
                     !.outcome = IF e.status = NoStatus THEN "pass" ELSE e.status]
    [] e.type = "error" ->
         [acc EXCEPT !.errorSeen = TRUE,
                     !.outcome = IF e.status = NoStatus THEN @ ELSE e.status]
    [] OTHER -> acc

Scan(events) ==
  FoldLeft(ScanStep, [outcome |-> "infra", ended |-> FALSE, errorSeen |-> FALSE],
           events)

\* Mutation: an unrecognised status is returned as it is.
InterpretTestEventsNoClosure(events) ==
  LET s  == Scan(events)
      o1 == IF ~s.ended /\ s.outcome \in {"pass", "infra"} THEN "timeout" ELSE s.outcome
  IN IF s.errorSeen /\ o1 \in {"pass", "skipped"} THEN "fail"
     ELSE IF s.errorSeen /\ o1 = "infra" THEN "error" ELSE o1

InterpretTestEvents(events) ==
  LET s  == Scan(events)
      o1 == IF ~s.ended /\ s.outcome \in {"pass", "infra"} THEN "timeout" ELSE s.outcome
      o2 == IF s.errorSeen /\ o1 \in {"pass", "skipped"} THEN "fail"
            ELSE IF s.errorSeen /\ o1 = "infra" THEN "error" ELSE o1
  IN IF o2 \in Outcomes \ {"infra"} THEN o2 ELSE "infra"

-----------------------------------------------------------------------------
(* The guest-exit merge in run_test.                                       *)

\* Mutation: "pass" and "fail" swapped in the priority table.
PriorityPassFailSwapped(label) ==
  CASE label = "error" -> 5 [] label = "pass" -> 4 [] label = "timeout" -> 3
    [] label = "infra" -> 2 [] label = "skipped" -> 1 [] OTHER -> 0

\* _priority: the severity order error > fail > timeout > infra > skipped > pass.
Priority(label) ==
  CASE label = "error" -> 5 [] label = "fail" -> 4 [] label = "timeout" -> 3
    [] label = "infra" -> 2 [] label = "skipped" -> 1 [] OTHER -> 0

\* Some error event carries a message or a reason (the error_messages list
\* is not empty).
HasErrorMessage(events) ==
  \E i \in 1..Len(events) : events[i].type = "error" /\ events[i].msg

GuestExitOutcome(code, events) ==
  LET exitOutcome  == SummariseExit(code)
      eventOutcome == InterpretTestEvents(events)
      merged == IF eventOutcome # "infra" /\ Priority(eventOutcome) >= Priority(exitOutcome)
                THEN eventOutcome ELSE exitOutcome
  IN CASE HasErrorMessage(events) /\ merged \in {"pass", "infra"} -> "fail"
       [] events = <<>> /\ merged = "pass" -> "infra"
       [] OTHER -> merged

=============================================================================
