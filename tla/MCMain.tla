------------------------------- MODULE MCMain -------------------------------
(***************************************************************************)
(* Checks what main does before its first test, from its two entry        *)
(* points.                                                                 *)
(*                                                                         *)
(* mode "reorder": reorder_tests_for_execution against the schedule       *)
(* spec.md section 4.7 describes, over every descriptor map from Names and *)
(* every list of up to MaxTests names (repetitions included: a LIST reply  *)
(* may name a test twice).  Init picks the map, each step appends a name.  *)
(*                                                                         *)
(* mode "run": run_test's reading of the events of a RUN, over every      *)
(* reply of up to MaxLines lines and both ends of a reply without a prompt *)
(* (the guest's exit or a timeout).                                        *)
(*                                                                         *)
(* mode "main": list_tests and main's choice of tests, over every LIST     *)
(* reply of up to MaxLines lines from MCLines, both values of --list and   *)
(* every command line of up to two names from ReplyNames (a name may be    *)
(* given twice).  Init picks the command line, each step appends a line of *)
(* the reply.                                                              *)
(*                                                                         *)
(* The variables of the other mode keep their initial values, on which     *)
(* every property holds at once.                                           *)
(***************************************************************************)
EXTENDS Discovery

CONSTANTS
  MaxTests,     \* longest list given to the scheduler
  MaxLines,     \* longest LIST reply
  ReplyNames    \* the names in LIST replies and on the command line

ASSUME MaxTests \in Nat /\ MaxLines \in Nat /\ ReplyNames \subseteq Names

VARIABLES mode, tests, dm, list, args, reply, exited
vars == <<mode, tests, dm, list, args, reply, exited>>

ReplyDescriptor == [name: ReplyNames, module: Modules, clean: BOOLEAN]

Harness(b) == [chan |-> "harness", body |-> b]
Obj(ev) == [json |-> "object", event |-> ev]

\* A plain line, a malformed and a non-object @@HARNESS payload, a @@TEST
\* event, the idle prompt, an error, an unrelated event, one test event per
\* descriptor, and list events whose "tests" is not a list, is empty, or
\* holds one descriptor.
MCLines ==
  {[chan |-> "none", body |-> NoPayload],
   Harness([json |-> "malformed"]), Harness([json |-> "scalar"]), Harness([json |-> "falsy"]),
   [chan |-> "test", body |-> Obj("other")],
   [chan |-> "test", body |-> [json |-> "scalar"]], [chan |-> "test", body |-> [json |-> "falsy"]],
   Harness(Obj("waiting")), Harness(Obj("error")), Harness(Obj("other"))}
  \cup {Harness([json |-> "object", event |-> "test", name |-> d.name,
                 module |-> d.module, clean |-> d.clean]) : d \in ReplyDescriptor}
  \cup {Harness([json |-> "object", event |-> "list", islist |-> FALSE, tests |-> <<>>])}
  \cup {Harness([json |-> "object", event |-> "list", islist |-> TRUE, tests |-> ts]) :
          ts \in {<<>>} \cup {<<d>> : d \in ReplyDescriptor}}

ASSUME MCLines \subseteq Line

Init ==
  \/ /\ mode = "reorder"
     /\ tests = <<>>
     /\ dm \in [Names -> Descriptor \cup {Unknown}]
     /\ list = FALSE /\ args = <<>> /\ reply = <<>> /\ exited = FALSE
  \/ /\ mode = "main"
     /\ tests = <<>>
     /\ dm = [n \in Names |-> Unknown]
     /\ list \in BOOLEAN
     /\ args \in {<<>>} \cup [1..1 -> ReplyNames] \cup [1..2 -> ReplyNames]
     /\ reply = <<>> /\ exited = FALSE
  \/ /\ mode = "run"
     /\ tests = <<>>
     /\ dm = [n \in Names |-> Unknown]
     /\ list = FALSE /\ args = <<>> /\ reply = <<>>
     /\ exited \in BOOLEAN

AddTest ==
  /\ mode = "reorder"
  /\ Len(tests) < MaxTests
  /\ \E t \in Names : tests' = Append(tests, t)
  /\ UNCHANGED <<mode, dm, list, args, reply, exited>>

Emit ==
  /\ mode \in {"main", "run"}
  /\ Len(reply) < MaxLines
  /\ \E l \in MCLines : reply' = Append(reply, l)
  /\ UNCHANGED <<mode, tests, dm, list, args, exited>>

Spec == Init /\ [][AddTest \/ Emit]_vars

result == Main(list, args, reply)

\* Mode "run": reply is what the guest printed after RUN.  A reply that
\* reaches the idle prompt is read by _interpret_test_events at line 431;
\* one without a prompt ends in HarnessGuestExit, whose events are read at
\* line 345, when the guest exited, and in HarnessTimeout, whose events are
\* dropped, otherwise.
ReadByClassifier(g) == g.st = "done" \/ (g.st = "timeout" /\ exited)

crashed ==
  \/ mode = "main" /\ result.st = "crash"
  \/ mode = "run" /\ \/ Gather(reply).st = "crash"
                     \/ ReadByClassifier(Gather(reply)) /\ InterpretRaises(Gather(reply).events)

-----------------------------------------------------------------------------
(* The reference schedule of spec 4.7, stated without the buckets: a      *)
(* known test's place among the known tests is given by its phase (normal  *)
(* before clean), then its rank among the earlier tests of its module and  *)
(* phase (one round of the round-robin per rank), then the first-seen      *)
(* position of its module.                                                 *)

KnownAt(i) == Known(dm, tests[i])
SameBucket(i, j) == dm[tests[i]] = dm[tests[j]]
FirstSeen(i) ==
  CHOOSE j \in 1..i : KnownAt(j) /\ dm[tests[j]].module = dm[tests[i]].module
                      /\ \A k \in 1..j - 1 : ~(KnownAt(k) /\ dm[tests[k]].module = dm[tests[i]].module)
Rank(i) == Cardinality({j \in 1..i - 1 : KnownAt(j) /\ SameBucket(i, j)})
Key(i) == <<IF dm[tests[i]].clean THEN 1 ELSE 0, Rank(i), FirstSeen(i)>>
KeyLess(a, b) ==
  \/ a[1] < b[1]
  \/ a[1] = b[1] /\ a[2] < b[2]
  \/ a[1] = b[1] /\ a[2] = b[2] /\ a[3] < b[3]

RefKnown ==
  LET order == SetToSortSeq({i \in 1..Len(tests) : KnownAt(i)}, LAMBDA i, j : KeyLess(Key(i), Key(j)))
  IN [k \in DOMAIN order |-> tests[order[k]]]

RefReorder ==
  [i \in 1..Len(tests) |->
     IF KnownAt(i) THEN RefKnown[Cardinality({j \in 1..i : KnownAt(j)})] ELSE tests[i]]

-----------------------------------------------------------------------------

-----------------------------------------------------------------------------
(* The reference: what the guest announced before its first idle prompt,  *)
(* stated without folds.  An announcement is <<line, index in the list,    *)
(* descriptor>>, index 0 for a test event.                                 *)

IsHarnessObject(i) == reply[i].chan = "harness" /\ reply[i].body.json = "object"

FirstWaiting ==
  LET W == {i \in DOMAIN reply : IsHarnessObject(i) /\ reply[i].body.event = "waiting"}
  IN IF W = {} THEN 0 ELSE Min(W)

Announcements ==
  {<<i, 0, BuildDescriptor(reply[i].body)>> :
     i \in {i \in 1..FirstWaiting - 1 : IsHarnessObject(i) /\ reply[i].body.event = "test"}}
  \cup UNION {{<<i, j, reply[i].body.tests[j]>> : j \in DOMAIN reply[i].body.tests} :
                i \in {i \in 1..FirstWaiting - 1 : IsHarnessObject(i) /\ reply[i].body.event = "list"
                                                   /\ reply[i].body.islist}}

AnnouncedNames == {a[3].name : a \in Announcements}

\* The requires_clean_env of the announcement of t that comes last.
RefClean(t) ==
  LET A == {a \in Announcements : a[3].name = t}
      Later(a, b) == a[1] > b[1] \/ (a[1] = b[1] /\ a[2] > b[2])
  IN A # {} /\ (CHOOSE a \in A : \A b \in A \ {a} : Later(a, b))[3].clean

-----------------------------------------------------------------------------

\* reorder_tests_for_execution returns the schedule of spec 4.7: unknown
\* tests stay where they were, every normal test runs before every clean
\* test, and within each phase the modules take turns in first-seen order,
\* each keeping its own arrival order.
MatchesReference == Reorder(tests, dm) = RefReorder

\* The defensive flush of lines 634-639 never runs: the two round-robin
\* phases alone schedule every known test (spec 4.7: "should never trigger
\* under correct bookkeeping").
FallbackNeverFires == Len(Phases(tests, dm).rr) = Len(KnownTests(tests, dm))


\* main runs exactly what it was asked to (lines 703-736): without test
\* names, every test the guest announced before its idle prompt, by a test
\* event or an item of a list event, and each once when the guest named it
\* once; with names, each of them once however often it was given; and
\* every test runs with the requires_clean_env of its last announcement, or
\* none when it was not announced.
RunsWhatWasAsked ==
  mode = "main" /\ result.st = "run" =>
    /\ ToSet(result.tests) = IF args = <<>> THEN AnnouncedNames ELSE ToSet(args)
    /\ (args # <<>> \/ Cardinality(Announcements) = Cardinality(AnnouncedNames))
          => IsInjective(result.tests)
    /\ \A t \in ToSet(result.tests) : RequiresClean(result.dm, t) = RefClean(t)

\* Spec 4.2, 8 and 9: a payload that is not a recognised shape is demoted
\* to a log line and never raises, so nothing the guest prints ends main
\* with an exception its except clauses do not catch.  A @@HARNESS line
\* whose JSON is not an object reaches gather_until_waiting, whose
\* payload.get (line 264) raises an AttributeError, during discovery or a
\* RUN; a truthy non-object @@TEST payload does the same in
\* _interpret_test_events (line 514) on every RUN whose events it reads,
\* passing tests included.
GuestOutputNeverCrashes == ~crashed

=============================================================================
