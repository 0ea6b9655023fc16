----------------------------- MODULE MCHarness -----------------------------
(***************************************************************************)
(* Instantiates Harness for TLC: two scheduled tests, the first requiring *)
(* a clean environment, one retry, and guests whose RUN output is a pass  *)
(* or a hang after test_start.                                            *)
(***************************************************************************)
EXTENDS Harness

CONSTANTS t1, t2, Unknown

StartEv == [type |-> "test_start", status |-> NoStatus, msg |-> FALSE]
EndEv(s) == [type |-> "test_end", status |-> s, msg |-> FALSE]
ErrorEv == [type |-> "error", status |-> NoStatus, msg |-> TRUE]
ListEv == [type |-> "other", status |-> NoStatus, msg |-> FALSE]

\* The LIST reply of the guest: t2 as a test of module "core" that requires
\* a clean environment, then the idle prompt.  t1 is named on the command
\* line but not discovered.
MCListReply ==
  <<[chan |-> "harness", body |-> [json |-> "object", event |-> "test", name |-> t2,
                                   module |-> "core", clean |-> TRUE]],
    [chan |-> "harness", body |-> [json |-> "object", event |-> "waiting"]]>>

Disc == INSTANCE Discovery WITH Names <- {t1, t2}, Modules <- {"core", ""}, NoModule <- ""

\* The descriptor map main builds from that reply: t1 is unknown.
MCDescriptors == [t \in {t1, t2} |-> IF t = t2 THEN [module |-> "core", clean |-> TRUE]
                                               ELSE Unknown]

\* main runs "t2 t1" in the order reorder_tests_for_execution gives (line
\* 727), which keeps the unknown t1 in place: a clean-environment test
\* followed by another test.  The ASSUMEs below check, once, that these are
\* what list_tests, main and the scheduler compute from MCListReply.
MCSchedule == <<t2, t1>>

\* requires_clean_env as main reads it from the descriptor (lines 735-736).
MCClean == {t2}

\* One clean-environment test: the termination check.
MCScheduleOne == <<t2>>

ASSUME
  /\ Disc!Main(FALSE, <<t2, t1>>, MCListReply)
       = [st |-> "run", dm |-> MCDescriptors, tests |-> MCSchedule]
  /\ MCScheduleOne = Disc!Reorder(<<t2>>, MCDescriptors)
  /\ MCClean = {t \in {t1, t2} : Disc!RequiresClean(MCDescriptors, t)}

\* test_start then test_end pass (finalises the test); test_start and no
\* test_end (classified "timeout", retried).
MCRunScripts == {<<StartEv, EndEv("pass")>>, <<StartEv>>}

\* The list of tests, or an error event that makes list_tests fail.
MCListScripts == {<<ListEv>>, <<ErrorEv>>}

\* A clean exit status: the merge then depends on the events gathered.
MCGuestCodes == {0}

\* QEMU stopped by SIGTERM.
MCTermCode == -15

=============================================================================
