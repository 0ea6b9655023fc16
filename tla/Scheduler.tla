------------------------------ MODULE Scheduler ------------------------------
(***************************************************************************)
(* reorder_tests_for_execution (src/tools/test-harness.py lines 593-648)  *)
(* as operators over a list of test names and the descriptor map that     *)
(* list_tests produced.                                                    *)
(*                                                                         *)
(* A descriptor is reduced to what the scheduler reads: its module key     *)
(* ("descriptor.module or ''", so None and "" are one key) and its         *)
(* requires_clean_env flag.  A name the map does not contain is Unknown.   *)
(* A deque is a sequence; module_buckets is one function per bucket kind   *)
(* from module key to deque.                                               *)
(***************************************************************************)
EXTENDS Integers, Sequences, SequencesExt, FiniteSets

CONSTANTS
  Modules,    \* module keys
  Unknown     \* descriptor_map.get(test) is None

Descriptor == [module: Modules, clean: BOOLEAN]

Known(dm, t) == dm[t] # Unknown

\* known_count, and the known tests in arrival order.
KnownTests(tests, dm) == SelectSeq(tests, LAMBDA t : Known(dm, t))

\* module_order: module keys in first-seen order (lines 598-606).
ModuleOrder(tests, dm) ==
  FoldLeft(LAMBDA acc, t : IF Known(dm, t) /\ ~Contains(acc, dm[t].module)
                           THEN Append(acc, dm[t].module) ELSE acc,
           <<>>, tests)

\* module_buckets[m]["clean" if c else "normal"] after the first loop.
Buckets(tests, dm, c) ==
  [m \in Modules |-> SelectSeq(tests, LAMBDA t : Known(dm, t) /\ dm[t].module = m
                                                  /\ dm[t].clean = c)]

\* Mutation: the for loop empties a module's bucket before moving on.
PassWholeBucket(order, b) ==
  LET ne == SelectSeq(order, LAMBDA m : b[m] # <<>>)
  IN [out |-> FoldLeft(LAMBDA acc, m : acc \o b[m], <<>>, ne),
      b   |-> [m \in DOMAIN b |-> IF Contains(order, m) THEN <<>> ELSE b[m]]]

\* One pass of "for module in order": popleft from every non-empty bucket,
\* in order.  out is what the pass appended to scheduled_known.
Pass(order, b) ==
  LET ne == SelectSeq(order, LAMBDA m : b[m] # <<>>)
  IN [out |-> [i \in DOMAIN ne |-> Head(b[ne[i]])],
      b   |-> [m \in DOMAIN b |-> IF Contains(order, m) /\ b[m] # <<>> THEN Tail(b[m]) ELSE b[m]]]

\* Mutation: the for loop runs once, without the enclosing while.
DrainOnce(order, b) == Pass(order, b)

\* "while True: ... if not progress: break" (lines 613-621, 624-632).
RECURSIVE Drain(_, _)
Drain(order, b) ==
  LET p == Pass(order, b)
  IN IF p.out = <<>> THEN [out |-> <<>>, b |-> b]
     ELSE LET r == Drain(order, p.b) IN [out |-> p.out \o r.out, b |-> r.b]

\* clean_modules (line 623): modules of module_order with clean tests.
CleanModules(order, cb) == SelectSeq(order, LAMBDA m : cb[m] # <<>>)

\* The fallback flush (lines 635-639), module by module, normal first.
Flush(order, nb, cb) == FoldLeft(LAMBDA acc, m : acc \o nb[m] \o cb[m], <<>>, order)

\* The two round-robin phases; the fallback on a count mismatch.
Phases(tests, dm) ==
  LET order == ModuleOrder(tests, dm)
      p1 == Drain(order, Buckets(tests, dm, FALSE))
      p2 == Drain(CleanModules(order, Buckets(tests, dm, TRUE)), Buckets(tests, dm, TRUE))
  IN [rr |-> p1.out \o p2.out, nb |-> p1.b, cb |-> p2.b, order |-> order]

ScheduledKnown(tests, dm) ==
  LET ph == Phases(tests, dm)
  IN IF Len(ph.rr) # Len(KnownTests(tests, dm))
     THEN ph.rr \o Flush(ph.order, ph.nb, ph.cb)
     ELSE ph.rr

\* Lines 641-647: known positions take the next scheduled test, unknown
\* positions keep theirs.
Substitute(tests, dm, sk) ==
  FoldLeft(LAMBDA acc, t : IF Known(dm, t)
                           THEN [out |-> Append(acc.out, Head(acc.rest)), rest |-> Tail(acc.rest)]
                           ELSE [acc EXCEPT !.out = Append(@, t)],
           [out |-> <<>>, rest |-> sk], tests).out

Reorder(tests, dm) == Substitute(tests, dm, ScheduledKnown(tests, dm))

=============================================================================
