----------------------------- MODULE WorkerPool -----------------------------
(***************************************************************************)
(* The browser worker pool (pool.ts): jobs wait in a queue, each worker    *)
(* has one job at a time, and what a worker says settles the job it has.   *)
(* The pool runs on one event loop: run, destroy and the two event         *)
(* handlers each go to their end, so each is a function of the pool here.  *)
(***************************************************************************)
EXTENDS Naturals, SequencesExt

CONSTANTS
    Worker,           \* the workers the pool is created with
    Job,              \* the messages that callers can run
    NoJob             \* what an idle worker works on

ASSUME NoJobIsNone == NoJob \notin Job

VARIABLES
    pool,             \* workers, idle, queue, busy; and what run's promises came to
    unpostable        \* the jobs whose message cannot be cloned to a worker

Outcome == {"unborn", "waiting", "resolved", "rejected"}

PoolType ==
    [workers : SUBSET Worker, idle : Seq(Worker), queue : Seq(Job),
     busy : [Worker -> Job \cup {NoJob}], outcome : [Job -> Outcome]]

-----------------------------------------------------------------------------
(* createPool: every worker idle, in the order they were made.             *)
Fresh(made) ==
    [workers |-> ToSet(made), idle |-> made, queue |-> <<>>,
     busy |-> [w \in Worker |-> NoJob], outcome |-> [j \in Job |-> "unborn"]]

(* A promise settles once; a later resolve or reject of it does nothing.   *)
Settle(p, jobs, how) ==
    [p EXCEPT !.outcome = [j \in Job |-> IF j \in jobs /\ @[j] = "waiting"
                                         THEN how ELSE @[j]]]

\* Mutant: the worker is not taken from the idle ones.
TurnKeepingIdle(p) ==
    IF p.idle = <<>> \/ p.queue = <<>> THEN p
    ELSE [p EXCEPT !.queue = Tail(@), !.busy[Head(p.idle)] = Head(p.queue)]

(* One turn of the pump's loop: the worker that has been idle longest gets *)
(* the oldest job; if the message cannot be posted it is idle again.       *)
Turn(p) ==
    IF p.idle = <<>> \/ p.queue = <<>> THEN p
    ELSE LET w == Head(p.idle)
             j == Head(p.queue)
             q == [p EXCEPT !.queue = Tail(@)]
         IN  IF j \in unpostable
             THEN Settle([q EXCEPT !.idle = Append(Tail(@), w)], {j}, "rejected")
             ELSE [q EXCEPT !.idle = Tail(@), !.busy[w] = j]

(* Every turn takes a job from the queue.                                  *)
Pump(p) ==
    LET turn[n \in 0..Len(p.queue)] == IF n = 0 THEN p ELSE Turn(turn[n - 1])
    IN  turn[Len(p.queue)]

Run(p, j) ==
    Pump([p EXCEPT !.queue = Append(@, j), !.outcome[j] = "waiting"])

RunAll(p, jobs) ==
    LET after[n \in 0..Len(jobs)] == IF n = 0 THEN p ELSE Run(after[n - 1], jobs[n])
    IN  after[Len(jobs)]

(* onmessage, of a worker that has a job.                                  *)
\* Mutant: the worker goes back to work without asking the queue.
AnsweredUnpumped(p, w) ==
    Settle([p EXCEPT !.busy[w] = NoJob, !.idle = Append(@, w)], {p.busy[w]}, "resolved")

Answered(p, w) ==
    Pump(Settle([p EXCEPT !.busy[w] = NoJob, !.idle = Append(@, w)],
                {p.busy[w]}, "resolved"))

\* Mutant: a broken worker stays among the idle ones.
RemovedButIdle(p, w) == [p EXCEPT !.workers = @ \ {w}]

Removed(p, w) == [p EXCEPT !.workers = @ \ {w}, !.idle = RemoveFirst(@, w)]

(* onerror: the worker leaves the pool and its job is rejected; with no    *)
(* worker left, so is every job in the queue.                              *)
\* Mutant: the job of a broken worker is dropped, not rejected.
FailedSilently(p, w) ==
    LET q == Removed([p EXCEPT !.busy[w] = NoJob], w)
    IN  Pump(IF q.workers # {} THEN q
             ELSE Settle([q EXCEPT !.queue = <<>>], ToSet(q.queue), "rejected"))

Failed(p, w) ==
    LET q == Settle(Removed([p EXCEPT !.busy[w] = NoJob], w), {p.busy[w]}, "rejected")
    IN  Pump(IF q.workers # {} THEN q
             ELSE Settle([q EXCEPT !.queue = <<>>], ToSet(q.queue), "rejected"))

\* Mutant: only the idle workers are terminated.
DestroyedWhenIdle(p) ==
    [p EXCEPT !.workers = {w \in @ : p.busy[w] # NoJob}]

(* destroy: the workers are terminated; the jobs they had, and those in    *)
(* the queue, are left as they are.                                        *)
Destroyed(p) == [p EXCEPT !.workers = {}]

=============================================================================
