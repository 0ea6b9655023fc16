------------------------------- MODULE Harness -------------------------------
(***************************************************************************)
(* The protocol engine of src/tools/test-harness.py: KernelHarness         *)
(* (start, stop, restart, _reader_loop, _next_line, wait_for_prompt,       *)
(* send_command, gather_until_waiting, list_tests, run_test) driven by     *)
(* main's loop over the scheduled tests.                                   *)
(*                                                                         *)
(* Three kinds of actor run concurrently:                                  *)
(*  - the orchestrator, main's thread (variable pc and the locals of       *)
(*    run_test);                                                           *)
(*  - one reader thread per emulator process ever started (_reader_loop),  *)
(*    which copies the process's output pipe into whatever queue           *)
(*    self._lines names at the moment it puts a line;                      *)
(*  - the guest: the kernel under QEMU, one per process generation, which  *)
(*    boots, prints the idle prompt, runs commands and may die at any time.*)
(* Deadlines are real time: every blocking read may time out at any point,*)
(* which the model states as a Timeout alternative of every read.          *)
(***************************************************************************)
EXTENDS Classifier, FiniteSets

CONSTANTS
  Schedule,    \* the test names main runs, in the scheduler's order
  Clean,       \* the tests whose descriptor sets requires_clean_env
  Retries,     \* --retries
  RunScripts,  \* event sequences the guest may print for one RUN command
  ListScripts, \* event sequences the guest may print for the LIST command
  GuestCodes,  \* exit statuses of a guest that dies on its own
  TermCode,    \* exit status of a guest stopped by terminate()/kill()
  MaxCrashes,  \* bound on the number of guests that die on their own
  MaxLagging   \* bound on the restarts at which an old reader is still running

ASSUME
  /\ Len(Schedule) > 0
  /\ Retries \in Nat /\ MaxCrashes \in Nat
  /\ RunScripts \subseteq Seq(Event) /\ ListScripts \subseteq Seq(Event)

Tests == {Schedule[i] : i \in 1..Len(Schedule)}

ASSUME Clean \subseteq Tests

MaxAttempts == 1 + Retries

\* Process generations: one for main's start, and per test at most one
\* restart before the loop, one per attempt and one after it.
MaxGen == 1 + Len(Schedule) * (MaxAttempts + 2)
Gens == 1..MaxGen

\* A queue item: a line of one generation's output reduced to its event,
\* the idle prompt, or the reader's end-of-stream marker (None).  "gen"
\* records which process printed it; the code does not keep it.
Item == [type: EventTypes \cup {"waiting", "eof"}, status: Statuses \cup {NoStatus},
         msg: BOOLEAN, gen: Gens]

Line(e, g) == [type |-> e.type, status |-> e.status, msg |-> e.msg, gen |-> g]
Waiting(g) == [type |-> "waiting", status |-> NoStatus, msg |-> FALSE, gen |-> g]
Eof(g)     == [type |-> "eof", status |-> NoStatus, msg |-> FALSE, gen |-> g]
AsEvent(it) == [type |-> it.type, status |-> it.status, msg |-> it.msg]

Commands == {"LIST"} \cup Tests

VARIABLES
  \* the guest of each generation
  gst,        \* "off", "booting", "idle", "busy" or "dead"
  gout,       \* lines printed and not yet read from the pipe
  gin,        \* commands written to its stdin and not yet read
  gscript,    \* events it still has to print for the current command
  gcode,      \* its exit status once dead
  grecv,      \* every command ever written to it (history)
  crashes,    \* guests that died on their own so far
  lagged,     \* restarts so far at which an old reader thread had not finished
  \* the reader thread of each generation
  rpc,        \* "none", "read", "exit" (line 172), "eof" (line 174), "done"
  \* the KernelHarness object
  proc,       \* self.proc: 0 for None, else a generation
  ngen,       \* generations started so far
  q,          \* contents of the queue self._lines
  qlive,      \* self._lines is not None
  ready,      \* self._ready
  exitCode,   \* self._exit_code
  \* main's thread
  pc, ctx, ti, att, postDone, evs, attempts, results, abortCause, status

guestVars   == <<gst, gout, gin, gscript, gcode, grecv, crashes>>
harnessVars == <<proc, ngen, q, qlive, ready, exitCode>>
runVars     == <<pc, ctx, ti, att, postDone, evs, attempts, results, abortCause, status>>
vars        == <<guestVars, rpc, lagged, harnessVars, runVars>>

Test    == Schedule[ti]
IsClean == Test \in Clean

-----------------------------------------------------------------------------
(* The guest.  Only the generation self.proc names is ever alive: stop()  *)
(* kills the old one before start() spawns the next.  It has no fairness: *)
(* a kernel may hang at any point, which the harness's deadlines cover.   *)

Alive(g) == gst[g] \in {"booting", "idle", "busy"}

\* The kernel finishes booting and prints @@HARNESS {"event":"waiting"}.
GuestBoot(g) ==
  /\ gst[g] = "booting"
  /\ gst' = [gst EXCEPT ![g] = "idle"]
  /\ gout' = [gout EXCEPT ![g] = Append(@, Waiting(g))]
  /\ UNCHANGED <<gin, gscript, gcode, grecv, crashes>>

\* At the prompt the kernel reads the next command from the serial line.
GuestAccept(g) ==
  /\ gst[g] = "idle"
  /\ gin[g] # <<>>
  /\ \E s \in IF Head(gin[g]) = "LIST" THEN ListScripts ELSE RunScripts :
        gscript' = [gscript EXCEPT ![g] = s]
  /\ gst' = [gst EXCEPT ![g] = "busy"]
  /\ gin' = [gin EXCEPT ![g] = Tail(@)]
  /\ UNCHANGED <<gout, gcode, grecv, crashes>>

GuestEmit(g) ==
  /\ gst[g] = "busy"
  /\ gscript[g] # <<>>
  /\ gout' = [gout EXCEPT ![g] = Append(@, Line(Head(gscript[g]), g))]
  /\ gscript' = [gscript EXCEPT ![g] = Tail(@)]
  /\ UNCHANGED <<gst, gin, gcode, grecv, crashes>>

GuestFinish(g) ==
  /\ gst[g] = "busy"
  /\ gscript[g] = <<>>
  /\ gst' = [gst EXCEPT ![g] = "idle"]
  /\ gout' = [gout EXCEPT ![g] = Append(@, Waiting(g))]
  /\ UNCHANGED <<gin, gscript, gcode, grecv, crashes>>

\* The kernel panics, aborts through isa-debug-exit or QEMU dies.  What it
\* printed so far stays in the pipe.
GuestExit(g) ==
  /\ Alive(g)
  /\ crashes < MaxCrashes
  /\ crashes' = crashes + 1
  /\ \E c \in GuestCodes : gcode' = [gcode EXCEPT ![g] = c]
  /\ gst' = [gst EXCEPT ![g] = "dead"]
  /\ gin' = [gin EXCEPT ![g] = <<>>]
  /\ gscript' = [gscript EXCEPT ![g] = <<>>]
  /\ UNCHANGED <<gout, grecv>>

Guest(g) ==
  /\ \/ GuestBoot(g) \/ GuestAccept(g) \/ GuestEmit(g) \/ GuestFinish(g)
     \/ GuestExit(g)
  /\ UNCHANGED <<rpc, lagged, harnessVars, runVars>>

-----------------------------------------------------------------------------
(* _reader_loop (lines 165-174).  The thread reads its own process's      *)
(* stdout, but looks up self._lines and self.proc afresh at every use, so *)
(* after a restart it puts into the queue of the next generation.  A put  *)
(* while self._lines is None raises AttributeError and ends the thread.   *)

\* self.proc.poll(): None while the process runs; once it is dead, its
\* status, or None if it has closed its stdout but is not yet reaped.
Poll(p) == IF gst[p] = "dead" THEN {gcode[p], NoCode} ELSE {NoCode}

\* Lines 170-171: one line from the pipe into self._lines.
ReaderLine(g) ==
  /\ rpc[g] = "read"
  /\ gout[g] # <<>>
  /\ IF qlive
     THEN /\ q' = Append(q, Head(gout[g]))
          /\ gout' = [gout EXCEPT ![g] = Tail(@)]
          /\ UNCHANGED rpc
     ELSE /\ rpc' = [rpc EXCEPT ![g] = "done"]
          /\ gout' = [gout EXCEPT ![g] = <<>>]
          /\ UNCHANGED q
  /\ UNCHANGED <<gst, gin, gscript, gcode, grecv, crashes, proc, ngen, qlive, ready, exitCode>>

\* The pipe is drained and closed: the for loop ends.
ReaderEnd(g) ==
  /\ rpc[g] = "read"
  /\ gout[g] = <<>>
  /\ gst[g] = "dead"
  /\ rpc' = [rpc EXCEPT ![g] = "exit"]
  /\ UNCHANGED <<guestVars, harnessVars>>

\* Lines 172-173: if self.proc: self._exit_code = self.proc.poll()
ReaderExitCode(g) ==
  /\ rpc[g] = "exit"
  /\ IF proc # 0 THEN \E c \in Poll(proc) : exitCode' = c ELSE UNCHANGED exitCode
  /\ rpc' = [rpc EXCEPT ![g] = "eof"]
  /\ UNCHANGED <<guestVars, proc, ngen, q, qlive, ready>>

\* Line 174: self._lines.put(None)
ReaderEof(g) ==
  /\ rpc[g] = "eof"
  /\ IF qlive THEN q' = Append(q, Eof(g)) ELSE UNCHANGED q
  /\ rpc' = [rpc EXCEPT ![g] = "done"]
  /\ UNCHANGED <<guestVars, proc, ngen, qlive, ready, exitCode>>

Reader(g) ==
  /\ \/ ReaderLine(g) \/ ReaderEnd(g) \/ ReaderExitCode(g) \/ ReaderEof(g)
  /\ UNCHANGED <<lagged, runVars>>

-----------------------------------------------------------------------------
(* Main's thread.  run_test's call sites of restart() are the contexts    *)
(* "pre" (line 321), "retry" (lines 335, 413, 451), "gexit" (line 392) and *)
(* "post" (line 467); "main" is main's harness.start().  The reads of      *)
(* wait_for_prompt and gather_until_waiting run in context "list" or "run".*)

Contexts == {"main", "pre", "retry", "gexit", "post", "list", "run"}

\* run_test's finalising outcomes on a normal completion (line 442).
TerminalOutcomes == {"pass", "skipped", "fail", "error"}

\* The exception propagates out of run_test or list_tests into main, which
\* reports it and runs harness.stop() in its finally clause.
Abort(cause) ==
  /\ pc' = "finally"
  /\ abortCause' = cause
  /\ status' = 1
  /\ UNCHANGED <<ctx, ti, att, postDone, evs, attempts, results>>

\* restart() is stop() then start(); the caller's continuation is "c".
Restart(c) ==
  /\ pc' = "stop"
  /\ ctx' = c

\* start() returned to its caller "c".  After a restart in the retry paths
\* the loop continues with the next attempt; the clean-environment flag
\* post_run_restart_done is set as lines 336, 393, 414 and 452 set it.
StartReturned(c) ==
  /\ CASE c = "main"  -> pc' = "wait" /\ ctx' = "list" /\ UNCHANGED <<att, postDone>>
       [] c = "pre"   -> pc' = "att_head" /\ UNCHANGED <<ctx, att, postDone>>
       [] c = "retry" -> /\ pc' = "att_head"
                         /\ att' = att + 1
                         /\ postDone' = (postDone \/ (IsClean /\ att = MaxAttempts))
                         /\ UNCHANGED ctx
       [] c = "gexit" -> pc' = "rt_post" /\ postDone' = (postDone \/ IsClean) /\ UNCHANGED <<ctx, att>>
       [] c = "post"  -> pc' = "rt_end" /\ UNCHANGED <<ctx, att, postDone>>
  /\ UNCHANGED <<ti, evs, attempts, results, abortCause, status>>

\* start() raised HarnessTimeout or HarnessProcessExit to caller "c": the
\* restarts at lines 392 and 467 swallow it, every other caller lets it
\* end the run.
StartRaised(c) ==
  CASE c = "gexit" -> pc' = "rt_post" /\ UNCHANGED <<ctx, ti, att, postDone, evs, attempts, results, abortCause, status>>
    [] c = "post"  -> pc' = "rt_end" /\ UNCHANGED <<ctx, ti, att, postDone, evs, attempts, results, abortCause, status>>
    [] c = "main"  -> Abort("boot")
    [] c = "pre"   -> Abort("clean_restart")
    [] c = "retry" -> Abort("restart")

\* stop() (lines 145-156): terminate and, past the grace period, kill the
\* live process; drop the handles.  The reader thread is not joined.  Its
\* "if not self.proc: return" never fires here: every call follows a
\* start() that set self.proc.
StopProc ==
  /\ pc \in {"stop", "finally"}
  /\ IF Alive(proc)
     THEN /\ gst' = [gst EXCEPT ![proc] = "dead"]
          /\ gcode' = [gcode EXCEPT ![proc] = TermCode]
          /\ gin' = [gin EXCEPT ![proc] = <<>>]
          /\ gscript' = [gscript EXCEPT ![proc] = <<>>]
     ELSE UNCHANGED <<gst, gcode, gin, gscript>>
  /\ proc' = 0
  /\ ready' = FALSE
  /\ qlive' = FALSE
  /\ q' = <<>>
  /\ pc' = IF pc = "stop" THEN "start" ELSE "done"
  /\ UNCHANGED <<gout, grecv, crashes, ngen, exitCode,
                 rpc, ctx, ti, att, postDone, evs, attempts, results, abortCause, status>>

\* start() (lines 109-142) when no live process exists, which is every
\* call in this program: a new queue, a new process and its reader thread.
StartProc ==
  /\ pc = "start"
  /\ IF \A g \in Gens : rpc[g] \in {"none", "done"}
     THEN UNCHANGED lagged
     ELSE lagged < MaxLagging /\ lagged' = lagged + 1
  /\ ngen' = ngen + 1
  /\ proc' = ngen + 1
  /\ gst' = [gst EXCEPT ![ngen + 1] = "booting"]
  /\ rpc' = [rpc EXCEPT ![ngen + 1] = "read"]
  /\ q' = <<>>
  /\ qlive' = TRUE
  /\ ready' = FALSE
  /\ exitCode' = NoCode
  /\ pc' = "boot"
  /\ UNCHANGED <<gout, gin, gscript, gcode, grecv, crashes, ctx, ti, att, postDone, evs, attempts, results, abortCause, status>>

\* Mutation: _next_line is called with deadline None and blocks forever.
DeadlineNever == FALSE

\* _next_line raises HarnessTimeout when its deadline passes.  The guest's
\* speed is unbounded, so a read that would block may always time out.  A
\* timeout with items still queued is not a separate case: stop() discards
\* the queue, and a behaviour in which those items were still in the pipe
\* and lost by the old reader's failed put reaches the same states.
DeadlinePassed == q = <<>>

\* The next queue item, consumed by _next_line.
Item1 == Head(q)
Pop   == q' = Tail(q)

\* The loop of wait_for_prompt (lines 231-235) reads past every line that
\* is not the idle prompt, at boot and before a command alike.
SkipLine ==
  /\ pc \in {"boot", "wait"}
  /\ ~ready
  /\ q # <<>>
  /\ Item1.type \notin {"eof", "waiting"}
  /\ Pop
  /\ UNCHANGED <<guestVars, rpc, proc, ngen, qlive, ready, exitCode, runVars>>

\* wait_for_prompt(boot_timeout) at the end of start() (line 143).
BootWait ==
  /\ pc = "boot"
  /\ \/ /\ DeadlinePassed
        /\ StartRaised(ctx)
        /\ UNCHANGED harnessVars
     \/ /\ q # <<>>
        /\ Item1.type = "eof"
        /\ Pop
        /\ StartRaised(ctx)
        /\ UNCHANGED <<proc, ngen, qlive, ready, exitCode>>
     \/ /\ q # <<>>
        /\ Item1.type = "waiting"
        /\ Pop
        /\ ready' = TRUE
        /\ StartReturned(ctx)
        /\ UNCHANGED <<proc, ngen, qlive, exitCode>>
  /\ UNCHANGED <<guestVars, rpc>>

\* wait_for_prompt(timeout) in run_test (line 325): any HarnessError records
\* an "infra" attempt and restarts (lines 326-338).  The call in list_tests
\* (line 273) always returns at once: start() has just set self._ready.
WaitFailed ==
  /\ attempts' = Append(attempts, "infra")
  /\ Restart("retry")
  /\ UNCHANGED <<ti, att, postDone, evs, results, abortCause, status>>

WaitForPrompt ==
  /\ pc = "wait"
  /\ \/ /\ ready
        /\ pc' = "send"
        /\ UNCHANGED <<harnessVars, ctx, ti, att, postDone, evs, attempts, results, abortCause, status>>
     \/ /\ ~ready
        /\ DeadlinePassed
        /\ WaitFailed
        /\ UNCHANGED harnessVars
     \/ /\ ~ready
        /\ q # <<>>
        /\ Item1.type = "eof"
        /\ Pop
        /\ WaitFailed
        /\ UNCHANGED <<proc, ngen, qlive, ready, exitCode>>
     \/ /\ ~ready
        /\ q # <<>>
        /\ Item1.type = "waiting"
        /\ Pop
        /\ ready' = TRUE
        /\ pc' = "send"
        /\ UNCHANGED <<proc, ngen, qlive, exitCode, ctx, ti, att, postDone, evs, attempts,
                       results, abortCause, status>>
  /\ UNCHANGED <<guestVars, rpc>>

\* send_command (lines 237-248) of "LIST" or "RUN <test>".  A process that
\* poll() sees dead raises HarnessProcessExit; one that is dead but not yet
\* reaped makes the write raise BrokenPipeError.  Neither is caught by
\* run_test, so both end the run.  The "busy" check cannot fail here:
\* wait_for_prompt has just returned with self._ready set.
SendCommand ==
  /\ pc = "send"
  /\ \/ /\ ~Alive(proc)
        /\ Abort(IF ctx = "list" THEN "list" ELSE "send")
        /\ UNCHANGED <<guestVars, harnessVars>>
     \/ /\ Alive(proc)
        /\ ready
        /\ LET cmd == IF ctx = "list" THEN "LIST" ELSE Test
           IN /\ gin' = [gin EXCEPT ![proc] = Append(@, cmd)]
              /\ grecv' = [grecv EXCEPT ![proc] = Append(@, cmd)]
        /\ ready' = FALSE
        /\ evs' = <<>>
        /\ pc' = "gather"
        /\ UNCHANGED <<gst, gout, gscript, gcode, crashes, proc, ngen, q, qlive, exitCode,
                       ctx, ti, att, postDone, attempts, results, abortCause, status>>
  /\ UNCHANGED rpc

Events(items) == [i \in DOMAIN items |-> AsEvent(items[i])]

\* gather_until_waiting (lines 250-267) and what list_tests and run_test do
\* with its three results.
\*  - HarnessTimeout: list_tests lets it end the run; run_test records a
\*    "timeout" attempt and restarts (lines 404-416).
\*  - end of stream, raised as HarnessGuestExit with self._exit_code: the
\*    LIST fails; run_test merges the exit status with the events gathered
\*    so far and restarts, and the test ends (lines 343-403).
\*  - the idle prompt: list_tests fails on an error event; run_test
\*    classifies the events, finalises on a terminal outcome, otherwise
\*    restarts and retries (lines 431-453).
GatherUntilWaiting ==
  /\ pc = "gather"
  /\ \/ /\ DeadlinePassed
        /\ IF ctx = "list"
           THEN Abort("list")
           ELSE /\ attempts' = Append(attempts, "timeout")
                /\ Restart("retry")
                /\ UNCHANGED <<ti, att, postDone, evs, results, abortCause, status>>
        /\ UNCHANGED harnessVars
     \/ /\ q # <<>>
        /\ Item1.type = "eof"
        /\ Pop
        /\ IF ctx = "list"
           THEN Abort("list")
           ELSE /\ attempts' = Append(attempts, GuestExitOutcome(exitCode, Events(evs)))
                /\ Restart("gexit")
                /\ UNCHANGED <<ti, att, postDone, evs, results, abortCause, status>>
        /\ UNCHANGED <<proc, ngen, qlive, ready, exitCode>>
     \/ /\ q # <<>>
        /\ Item1.type = "waiting"
        /\ Pop
        /\ ready' = TRUE
        /\ IF ctx = "list"
           THEN IF \E i \in DOMAIN evs : evs[i].type = "error"
                THEN Abort("list")
                ELSE /\ pc' = "rt_begin"
                     /\ UNCHANGED <<ctx, ti, att, postDone, evs, attempts, results, abortCause, status>>
           ELSE LET o == InterpretTestEvents(Events(evs))
                IN /\ attempts' = Append(attempts, o)
                   /\ IF o \in TerminalOutcomes THEN pc' = "rt_post" /\ UNCHANGED ctx
                                                ELSE Restart("retry")
                   /\ UNCHANGED <<ti, att, postDone, evs, results, abortCause, status>>
        /\ UNCHANGED <<proc, ngen, qlive, exitCode>>
     \/ /\ q # <<>>
        /\ Item1.type \notin {"eof", "waiting"}
        /\ Pop
        /\ evs' = Append(evs, Item1)
        /\ UNCHANGED <<proc, ngen, qlive, ready, exitCode,
                       pc, ctx, ti, att, postDone, attempts, results, abortCause, status>>
  /\ UNCHANGED <<guestVars, rpc>>

\* Mutation: no restart before the first attempt of a clean-environment test.
RunTestBeginNoRestart ==
  /\ pc = "rt_begin"
  /\ attempts' = <<>>
  /\ att' = 1
  /\ postDone' = FALSE
  /\ pc' = "att_head"
  /\ UNCHANGED <<guestVars, rpc, harnessVars, ctx, ti, evs, results, abortCause, status>>

\* run_test's entry (lines 316-321): fresh locals, and a restart before the
\* first attempt when the test requires a clean environment.
RunTestBegin ==
  /\ pc = "rt_begin"
  /\ attempts' = <<>>
  /\ att' = 1
  /\ postDone' = FALSE
  /\ IF IsClean THEN Restart("pre") ELSE pc' = "att_head" /\ UNCHANGED ctx
  /\ UNCHANGED <<guestVars, rpc, harnessVars, ti, evs, results, abortCause, status>>

\* Mutation: range(1, max_attempts + 2), one attempt too many.
AttemptHeadOffByOne ==
  /\ pc = "att_head"
  /\ IF att <= MaxAttempts + 1
     THEN pc' = "wait" /\ ctx' = "run"
     ELSE pc' = "rt_post" /\ UNCHANGED ctx
  /\ UNCHANGED <<guestVars, rpc, harnessVars, ti, att, postDone, evs, attempts, results, abortCause, status>>

\* The head of the attempt loop (line 322).
AttemptHead ==
  /\ pc = "att_head"
  /\ IF att <= MaxAttempts
     THEN pc' = "wait" /\ ctx' = "run"
     ELSE pc' = "rt_post" /\ UNCHANGED ctx
  /\ UNCHANGED <<guestVars, rpc, harnessVars, ti, att, postDone, evs, attempts, results, abortCause, status>>

\* Mutation: the final restart is left out.
RunTestPostNoRestart ==
  /\ pc = "rt_post"
  /\ pc' = "rt_end"
  /\ UNCHANGED <<guestVars, rpc, harnessVars, ctx, ti, att, postDone, evs, attempts, results, abortCause, status>>

\* After the loop (lines 455-469): the final restart of a clean-environment
\* test unless one of the loop's restarts already counted as it.
RunTestPost ==
  /\ pc = "rt_post"
  /\ IF IsClean /\ ~postDone THEN Restart("post") ELSE pc' = "rt_end" /\ UNCHANGED ctx
  /\ UNCHANGED <<guestVars, rpc, harnessVars, ti, att, postDone, evs, attempts, results, abortCause, status>>

\* Mutation: the summary reads each test's first attempt, not its final one.
RunTestEndFirstAttempt ==
  /\ pc = "rt_end"
  /\ results' = Append(results, [test |-> Test, attempts |-> attempts])
  /\ IF ti < Len(Schedule)
     THEN ti' = ti + 1 /\ pc' = "rt_begin" /\ UNCHANGED status
     ELSE /\ pc' = "finally"
          /\ status' = IF \A i \in DOMAIN results' : Head(results'[i].attempts) \in {"pass", "skipped"}
                       THEN 0 ELSE 1
          /\ UNCHANGED ti
  /\ UNCHANGED <<guestVars, rpc, harnessVars, ctx, att, postDone, evs, attempts, abortCause>>

\* run_test returns its TestResult, whose outcome is its last attempt's;
\* main appends it and moves to the next test, or computes the exit status
\* and runs its finally clause (lines 734-789).
RunTestEnd ==
  /\ pc = "rt_end"
  /\ results' = Append(results, [test |-> Test, attempts |-> attempts])
  /\ IF ti < Len(Schedule)
     THEN ti' = ti + 1 /\ pc' = "rt_begin" /\ UNCHANGED status
     ELSE /\ pc' = "finally"
          /\ status' = IF \A i \in DOMAIN results' : Last(results'[i].attempts) \in {"pass", "skipped"}
                       THEN 0 ELSE 1
          /\ UNCHANGED ti
  /\ UNCHANGED <<guestVars, rpc, harnessVars, ctx, att, postDone, evs, attempts, abortCause>>

Orchestrator ==
  \/ StartProc
  \/ /\ \/ StopProc \/ SkipLine \/ BootWait \/ WaitForPrompt \/ SendCommand \/ GatherUntilWaiting
        \/ RunTestBegin \/ AttemptHead \/ RunTestPost \/ RunTestEnd
     /\ UNCHANGED lagged

-----------------------------------------------------------------------------

Init ==
  /\ gst = [g \in Gens |-> "off"]
  /\ gout = [g \in Gens |-> <<>>]
  /\ gin = [g \in Gens |-> <<>>]
  /\ gscript = [g \in Gens |-> <<>>]
  /\ gcode = [g \in Gens |-> 0]
  /\ grecv = [g \in Gens |-> <<>>]
  /\ crashes = 0 /\ lagged = 0
  /\ rpc = [g \in Gens |-> "none"]
  /\ proc = 0 /\ ngen = 0
  /\ q = <<>> /\ qlive = FALSE
  /\ ready = FALSE /\ exitCode = NoCode
  /\ pc = "start" /\ ctx = "main"
  /\ ti = 1 /\ att = 1 /\ postDone = FALSE
  /\ evs = <<>> /\ attempts = <<>> /\ results = <<>>
  /\ abortCause = "none" /\ status = 0

Next ==
  \/ Orchestrator
  \/ \E g \in Gens : Guest(g)
  \/ \E g \in Gens : Reader(g)

\* The main thread and the reader threads are scheduled by the OS and every
\* blocking read has a deadline, so they cannot stop forever while they can
\* move; the guest gets no fairness: a kernel may hang.
Fairness ==
  /\ WF_vars(Orchestrator)
  /\ \A g \in Gens : WF_vars(Reader(g))

Spec == Init /\ [][Next]_vars /\ Fairness

-----------------------------------------------------------------------------

TypeOK ==
  /\ gst \in [Gens -> {"off", "booting", "idle", "busy", "dead"}]
  /\ gout \in [Gens -> Seq(Item)]
  /\ gin \in [Gens -> Seq(Commands)]
  /\ gscript \in [Gens -> Seq(Event)]
  /\ grecv \in [Gens -> Seq(Commands)]
  /\ crashes \in 0..MaxCrashes /\ lagged \in 0..MaxLagging
  /\ rpc \in [Gens -> {"none", "read", "exit", "eof", "done"}]
  /\ proc \in 0..MaxGen /\ ngen \in 0..MaxGen
  /\ q \in Seq(Item) /\ qlive \in BOOLEAN /\ ready \in BOOLEAN
  /\ pc \in {"start", "boot", "stop", "wait", "send", "gather", "rt_begin", "att_head",
             "rt_post", "rt_end", "finally", "done"}
  /\ ctx \in Contexts
  /\ ti \in 1..Len(Schedule) /\ att \in 1..MaxAttempts + 1
  /\ attempts \in Seq(Outcomes)
  /\ evs \in Seq(Item)
  /\ status \in {0, 1}

\* A test that requires a clean environment is run by a kernel that has
\* received no command before it: run_test restarts before its first
\* attempt, and every retry path restarts before the next attempt.
CleanRunIsFirst ==
  \A g \in Gens : \A i \in 1..Len(grecv[g]) : grecv[g][i] \in Clean => i = 1

\* A kernel that has run a clean-environment test never receives another
\* command: run_test's final restart, or a loop restart that
\* post_run_restart_done counts as it, always replaces it.
CleanRunIsLast ==
  \A g \in Gens : \A i \in 1..Len(grecv[g]) : grecv[g][i] \in Clean => i = Len(grecv[g])

\* Every blocking wait has a deadline, so main always reaches the end of its
\* finally clause, whatever the kernels do or fail to do.
RunTerminates == <>(pc = "done")

\* The run seen from outside: the results main collects, whether main has
\* reached its finally clause, and the status it returns.
Abs == INSTANCE RunSpec
         WITH results <- results, finished <- pc \in {"finally", "done"}, status <- status,
              Schedule <- Schedule, MaxAttempts <- MaxAttempts

\* main implements RunSpec: tests get their results in schedule order, each
\* with 1..1+retries attempts of which only the last is attributable, and
\* the exit status is 0 exactly when every final outcome is pass or skipped
\* (lines 734-789 with run_test's retry loop).
RefinesRunSpec == Abs!Spec

\* Spec 5: "no attempt ever observes state left over from a previous process
\* generation": every event gathered for a command was printed by the
\* process the command was sent to.
EventsFromCurrentGuest ==
  pc = "gather" => \A i \in DOMAIN evs : evs[i].gen = proc

\* Spec 7: a guest that dies without a guest-exit payload is an
\* infrastructure failure, retried; it never ends the whole run.
DeadGuestNeverAbortsRun == abortCause # "send"

\* Spec 4.6: a guest-exit attempt is one in which "the guest process dies
\* mid-test": run_test's HarnessGuestExit handler only ever classifies a
\* RUN whose kernel has exited.  The end-of-stream None that an old
\* reader thread puts into the new queue (line 174) breaks this.
GuestExitOnlyWhenExited ==
  [][pc = "gather" /\ ctx = "run" /\ ctx' = "gexit" => ~Alive(proc)]_vars

\* Spec 6: "infra-classified conditions are absorbed by the retry loop and
\* never surfaced to the caller": a kernel that fails to boot again after
\* a timeout or an infra attempt costs at most that test's attempts, and
\* never ends the whole run (the retry restart() calls of lines 335, 413
\* and 451; a failed clean-environment restart at line 321 is a cause of
\* its own).
RetryRestartNeverAbortsRun == abortCause # "restart"

=============================================================================
