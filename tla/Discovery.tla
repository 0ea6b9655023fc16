------------------------------ MODULE Discovery ------------------------------
(***************************************************************************)
(* Test discovery, from src/tools/test-harness.py:                         *)
(*   ParseLine, SafeJson   KernelHarness._parse_line, _safe_json           *)
(*   Gather                gather_until_waiting over the LIST reply        *)
(*   ListTests             the descriptor loop of list_tests               *)
(*   DescriptorMap,        main, lines 703-727: the name -> descriptor map,*)
(*   TestsToRun, Main      the choice of tests and the call to the         *)
(*                         scheduler                                       *)
(*                                                                         *)
(*   InterpretRaises       the payload reads of _interpret_test_events     *)
(*                                                                         *)
(* A serial line is abstracted to its prefix (chan) and the shape of the   *)
(* JSON after it (body).  A body is undecodable ("malformed"), JSON null,  *)
(* valid JSON that is not an object ("scalar" when truthy: a non-zero      *)
(* number, a non-empty string or array, true; "falsy" otherwise), or an    *)
(* object, of which only the keys list_tests reads are kept: "event",      *)
(* "name", "module", the truthiness of "requires_clean_env", and "tests".  *)
(* A non-dict item of a "tests" list becomes TestDescriptor(name=          *)
(* str(item)), which is the same descriptor as a dict item with only a     *)
(* name, so both are one item here.                                        *)
(***************************************************************************)
EXTENDS Scheduler

CONSTANTS
  Names,      \* test names the guest may announce or the user may request
  NoModule    \* the module key of a descriptor whose module is None or ""

ASSUME NoModule \in Modules

\* A TestDescriptor, as the scheduler and main read it.
TestDescriptor == [name: Names, module: Modules, clean: BOOLEAN]

Bodies ==
  [json: {"malformed", "null", "scalar", "falsy"}]
  \cup [json: {"object"}, event: {"waiting", "error", "other"}]
  \cup [json: {"object"}, event: {"test"}, name: Names, module: Modules, clean: BOOLEAN]
  \cup [json: {"object"}, event: {"list"}, islist: BOOLEAN, tests: Seq(TestDescriptor)]

\* "none" is a line without a marker, the empty line included.
Line == [chan: {"none"}, body: {[json |-> "null"]}]
        \cup [chan: {"harness", "test"}, body: Bodies]

NoPayload == [json |-> "null"]
LogEvent == [kind |-> "log", payload |-> NoPayload]

\* _safe_json: json.loads, or None when it raises.  JSON null decodes to
\* None as well.
SafeJson(body) == IF body.json \in {"malformed", "null"} THEN NoPayload ELSE body

\* _parse_line: a marker whose payload decodes to None is demoted to a log
\* event; a payload that is valid JSON but not an object is not.
ParseLine(l) ==
  IF l.chan = "none" \/ SafeJson(l.body) = NoPayload THEN LogEvent
  ELSE [kind |-> l.chan, payload |-> l.body]

IsObject(e) == e.payload.json = "object"

-----------------------------------------------------------------------------
(* gather_until_waiting as a left fold over the lines of the reply.  st is *)
(* "reading" until the idle prompt ("done"), or "crash" when line 264     *)
(* calls .get on a harness payload that is not a dict (AttributeError).   *)
(* A reply without an idle prompt ends in a timeout or a guest exit, which *)
(* list_tests turns into a HarnessError.                                   *)

GatherStep(acc, l) ==
  LET e == ParseLine(l)
  IN CASE acc.st # "reading" \/ e.kind = "log"       -> acc
       [] e.kind = "harness" /\ ~IsObject(e)         -> [acc EXCEPT !.st = "crash"]
       [] e.kind = "harness" /\ e.payload.event = "waiting" -> [acc EXCEPT !.st = "done"]
       [] OTHER                                      -> [acc EXCEPT !.events = Append(@, e)]

Gather(reply) ==
  LET r == FoldLeft(GatherStep, [st |-> "reading", events |-> <<>>], reply)
  IN IF r.st = "reading" THEN [r EXCEPT !.st = "timeout"] ELSE r

\* _build_descriptor.
BuildDescriptor(p) == [name |-> p.name, module |-> p.module, clean |-> p.clean]

\* One iteration of the for loop of list_tests (lines 290-306); err is the
\* HarnessError raised by an "error" event.
ListStep(acc, e) ==
  CASE acc.err \/ e.kind # "harness"  -> acc
    [] e.payload.event = "test"       -> [acc EXCEPT !.ds = Append(@, BuildDescriptor(e.payload))]
    [] e.payload.event = "list"       -> [acc EXCEPT !.ds = @ \o (IF e.payload.islist
                                                                 THEN e.payload.tests ELSE <<>>)]
    [] e.payload.event = "error"      -> [acc EXCEPT !.err = TRUE]
    [] OTHER                          -> acc

ListTests(events) == FoldLeft(ListStep, [ds |-> <<>>, err |-> FALSE], events)

-----------------------------------------------------------------------------
(* main, lines 703-727. *)

\* Mutation: the first descriptor of a name wins.
DescriptorMapFirstWins(ds) ==
  [n \in Names |-> LET i == SelectInSeq(ds, LAMBDA d : d.name = n)
                   IN IF i = 0 THEN Unknown ELSE [module |-> ds[i].module, clean |-> ds[i].clean]]

\* {descriptor.name: descriptor for descriptor in descriptors}: a later
\* descriptor of the same name replaces an earlier one.
DescriptorMap(ds) ==
  [n \in Names |-> LET i == SelectLastInSeq(ds, LAMBDA d : d.name = n)
                   IN IF i = 0 THEN Unknown ELSE [module |-> ds[i].module, clean |-> ds[i].clean]]

\* list(dict.fromkeys(args.tests)): the first occurrence of each name.
Dedupe(s) == FoldLeft(LAMBDA acc, t : IF Contains(acc, t) THEN acc ELSE Append(acc, t), <<>>, s)

TestsToRun(args, ds) == IF args # <<>> THEN Dedupe(args) ELSE [i \in DOMAIN ds |-> ds[i].name]

\* requires_clean_env as main's loop reads it (lines 735-736).
RequiresClean(dm, t) == dm[t] # Unknown /\ dm[t].clean

\* The outcome of main up to the test loop.  st is "crash" for the
\* AttributeError, which main's except clauses do not catch; "abort" for a
\* HarnessError; "listed" for --list (return 0); "empty" when nothing was
\* discovered (return 1); "run" with the schedule otherwise.
Main(list, args, reply) ==
  LET g  == Gather(reply)
      l  == ListTests(g.events)
      dm == DescriptorMap(l.ds)
      st == CASE g.st = "crash"                -> "crash"
              [] g.st = "timeout" \/ l.err     -> "abort"
              [] list /\ args = <<>>           -> "listed"
              [] args = <<>> /\ l.ds = <<>>    -> "empty"
              [] OTHER                         -> "run"
  IN [st |-> st, dm |-> dm,
      tests |-> IF st = "run" THEN Reorder(TestsToRun(args, l.ds), dm) ELSE <<>>]

-----------------------------------------------------------------------------
(* _interpret_test_events (lines 494-514), which run_test calls on the    *)
(* events of every RUN that reached the idle prompt (line 431) or ended in *)
(* the guest's exit (line 345), does "payload = event.payload or {}" and   *)
(* then payload.get("event"), for harness and test events alike.  A falsy  *)
(* payload becomes {}; a truthy one that is not a dict raises an           *)
(* AttributeError, which main does not catch.  Only a test event reaches   *)
(* it with such a payload: gather_until_waiting stops at a harness one.    *)
InterpretRaises(events) == \E i \in DOMAIN events : events[i].payload.json = "scalar"

=============================================================================
