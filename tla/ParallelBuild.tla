---------------------------- MODULE ParallelBuild ----------------------------
(***************************************************************************)
(* The parallel cold read (parallel.ts) over the worker pool: every table  *)
(* is handed to the pool at once, the coordinator folds the tables in      *)
(* their canonical order as it gets them, hands the record chunks to the   *)
(* same pool, and builds the store.  Where the pool fails it does the work *)
(* itself.                                                                 *)
(*                                                                         *)
(* A table is abstracted to its place in the canonical order, a chunk of   *)
(* records to its place in the order of dispatch.  The coordinator and the *)
(* pool's handlers share an event loop: a worker's event is handled when   *)
(* the coordinator has nothing left to do but wait.                        *)
(***************************************************************************)
EXTENDS WorkerPool, FiniteSets

CONSTANTS
    Made,             \* the workers, in the order they are made
    Listing,          \* the tables in the order the source names them
    NChunks,          \* the chunks of records to extract
    MaxUnpostable,    \* bound: jobs whose message cannot be cloned
    MaxFaults         \* bound: error events of the workers

NTables == Len(Listing)
Table == 1..NTables
Chunk == 1..NChunks

ASSUME Workers == Made \in Seq(Worker) /\ IsInjective(Made) /\ ToSet(Made) = Worker
ASSUME Tables == Listing \in Seq(Nat) /\ IsInjective(Listing) /\ ToSet(Listing) = Table
ASSUME Jobs == NChunks \in Nat /\ Job = ({"parse"} \X Table) \cup ({"extract"} \X Chunk)
ASSUME Faults == MaxUnpostable \in Nat /\ MaxFaults \in Nat

VARIABLES
    content,          \* what reading and parsing each table comes to
    phase,            \* where the coordinator is
    held,             \* it still has its pool
    cursor,           \* the table it folds next
    tables,           \* the tables whose entries it folded
    lossy,            \* one of them could not be read whole
    rows,             \* the chunks whose rows the store was built from
    usedPool,
    faults            \* error events so far

snap == <<cursor, tables, lossy>>
vars == <<pool, unpostable, content, phase, held, snap, rows, usedPool, faults>>

Parse(t) == <<"parse", t>>
Extract(c) == <<"extract", c>>
Chunks == [c \in Chunk |-> c]

TypeOK ==
    /\ pool \in PoolType /\ unpostable \subseteq Job
    /\ content \in [Table -> {"clean", "corrupt", "unreadable"}]
    /\ phase \in {"start", "fold", "extract", "serial", "done"}
    /\ held \in BOOLEAN
    /\ cursor \in 1..(NTables + 1) /\ tables \in Seq(Table) /\ lossy \in BOOLEAN
    /\ rows \in Seq(Chunk) /\ usedPool \in BOOLEAN /\ faults \in 0..MaxFaults
    \* A worker is idle or busy, never both, and no two have the same job.
    /\ IsInjective(pool.idle)
    /\ \A w \in ToSet(pool.idle) : pool.busy[w] = NoJob
    /\ \A v, w \in Worker : pool.busy[v] = pool.busy[w] => v = w \/ pool.busy[v] = NoJob

(* Without a pool (none given, or createPool threw) the build is serial.   *)
Init ==
    /\ unpostable \in {U \in SUBSET Job : Cardinality(U) <= MaxUnpostable}
    /\ content \in [Table -> {"clean", "corrupt", "unreadable"}]
    /\ held \in BOOLEAN
    /\ pool = Fresh(IF held THEN Made ELSE <<>>)
    /\ phase = "start"
    /\ cursor = 1 /\ tables = <<>> /\ lossy = FALSE
    /\ rows = <<>> /\ usedPool = FALSE /\ faults = 0

-----------------------------------------------------------------------------
(* What a table gives the fold, parsed by a worker and by the coordinator. *)

Replied(t) ==
    IF content[t] = "clean" THEN [entries |-> <<t>>, lossy |-> FALSE]
    ELSE [entries |-> <<>>, lossy |-> TRUE]

Inline(t) ==
    IF content[t] = "clean" THEN [entries |-> <<t>>, lossy |-> FALSE]
    ELSE [entries |-> <<>>, lossy |-> TRUE]

(* The serial read of the whole source: loadSnapshotFrom.                  *)
Serial ==
    LET read == [t \in Table |-> Inline(t)]
    IN  [tables |-> FlattenSeq([t \in Table |-> read[t].entries]),
         lossy |-> \E t \in Table : read[t].lossy]

-----------------------------------------------------------------------------
(* The coordinator.                                                        *)

(* foldViaPool reads and dispatches the tables in the order of names().    *)
Dispatched(n) == RunAll(pool, [i \in 1..n |-> Parse(Listing[i])])

FirstUnreadable == SelectInSeq(Listing, LAMBDA t : content[t] = "unreadable")

Dispatch ==
    /\ phase = "start" /\ held
    /\ FirstUnreadable = 0
    /\ pool' = Dispatched(NTables)
    /\ phase' = "fold"
    /\ UNCHANGED <<unpostable, content, held, snap, rows, usedPool, faults>>

(* A read that throws ends it: the pool is dropped with what it was given. *)
DispatchThrows ==
    /\ phase = "start" /\ held
    /\ FirstUnreadable # 0
    /\ pool' = Destroyed(Dispatched(FirstUnreadable - 1))
    /\ held' = FALSE
    /\ phase' = "serial"
    /\ UNCHANGED <<unpostable, content, snap, rows, usedPool, faults>>

NoPool ==
    /\ phase = "start" /\ ~held
    /\ phase' = "serial"
    /\ UNCHANGED <<pool, unpostable, content, held, snap, rows, usedPool, faults>>

Settled(j) == pool.outcome[j] \in {"resolved", "rejected"}

\* Mutant: whichever table the pool has parsed is folded next.
AnyParsedTable == {t \in Table : Settled(Parse(t)) /\ t \notin ToSet(tables)}

NextTable == {t \in Table : t = cursor /\ Settled(Parse(t))}

(* readTablesIntoAsync gets its next table; if the pool rejected it, it    *)
(* reads and parses the file itself.                                       *)
Fold ==
    /\ phase = "fold"
    /\ \E t \in NextTable :
          LET res == IF pool.outcome[Parse(t)] = "resolved" THEN Replied(t) ELSE Inline(t)
          IN  tables' = tables \o res.entries /\ lossy' = (lossy \/ res.lossy)
    /\ cursor' = cursor + 1
    /\ UNCHANGED <<pool, unpostable, content, phase, held, rows, usedPool, faults>>

Folded == phase = "fold" /\ cursor > NTables

(* extractFromSnapshotAsync dispatches the chunks of all entities at once. *)
DispatchExtracts ==
    /\ Folded
    /\ pool' = RunAll(pool, [c \in Chunk |-> Extract(c)])
    /\ phase' = "extract"
    /\ UNCHANGED <<unpostable, content, held, snap, rows, usedPool, faults>>

Extracted ==
    /\ \A c \in Chunk : pool.outcome[Extract(c)] = "resolved"
    /\ rows' = [c \in {d \in Chunk : pool.outcome[Extract(d)] = "resolved"} |-> c]

(* Every chunk came back: the store is built and the pool destroyed.       *)
Build ==
    /\ phase = "extract" /\ Extracted
    /\ usedPool' = TRUE
    /\ pool' = Destroyed(pool)
    /\ phase' = "done"
    /\ UNCHANGED <<unpostable, content, held, snap, faults>>

(* One was rejected: the pool is destroyed and the same snapshot extracted *)
(* by the coordinator.                                                     *)
ReExtract ==
    /\ phase = "extract"
    /\ \E c \in Chunk : pool.outcome[Extract(c)] = "rejected"
    /\ pool' = Destroyed(pool)
    /\ held' = FALSE
    /\ rows' = Chunks
    /\ phase' = "done"
    /\ UNCHANGED <<unpostable, content, snap, usedPool, faults>>

(* openStoreFromSource.                                                    *)
BuildSerially ==
    /\ phase = "serial"
    /\ tables' = Serial.tables /\ lossy' = Serial.lossy /\ cursor' = NTables + 1
    /\ rows' = Chunks
    /\ phase' = "done"
    /\ UNCHANGED <<pool, unpostable, content, held, usedPool, faults>>

Coordinator ==
    \/ Dispatch \/ DispatchThrows \/ NoPool \/ Fold
    \/ DispatchExtracts \/ Build \/ ReExtract \/ BuildSerially

-----------------------------------------------------------------------------
(* The workers.                                                            *)

(* The coordinator awaits a promise of the pool, or has returned.          *)
Waits ==
    \/ phase = "fold" /\ ~Folded /\ ~Settled(Parse(cursor))
    \/ /\ phase = "extract"
       /\ \E c \in Chunk : ~Settled(Extract(c))
       /\ \A c \in Chunk : pool.outcome[Extract(c)] # "rejected"
    \/ phase = "done"

Answer(w) ==
    /\ Waits
    /\ w \in pool.workers /\ pool.busy[w] # NoJob
    /\ pool' = Answered(pool, w)
    /\ UNCHANGED <<unpostable, content, phase, held, snap, rows, usedPool, faults>>

(* A worker's error event: its script did not load, its job crashed it, or *)
(* a second error arrives of one already terminated.                       *)
Fail(w) ==
    /\ Waits
    /\ faults < MaxFaults
    /\ pool' = Failed(pool, w)
    /\ faults' = faults + 1
    /\ UNCHANGED <<unpostable, content, phase, held, snap, rows, usedPool>>

Next == Coordinator \/ \E w \in Worker : Answer(w) \/ Fail(w)

(* The event loop runs what is ready, and a worker answers the job it has  *)
(* unless an error event comes first.                                      *)
Fairness == WF_vars(Coordinator) /\ \A w \in Worker : WF_vars(Answer(w))

Spec == Init /\ [][Next]_vars /\ Fairness

-----------------------------------------------------------------------------
(* What a pool owes those who call run.                                    *)

(* A job whose promise is not settled is in the queue or with exactly the  *)
(* worker that settles it; a settled one is nowhere (pool.ts: a broken     *)
(* worker's job is rejected, an unpostable one too).                       *)
NoJobIsLost ==
    \A j \in Job :
       pool.outcome[j] = "waiting" <=>
          j \in ToSet(pool.queue) \/ \E w \in Worker : pool.busy[w] = j

(* No job is ever posted to a worker that was terminated (pool.ts: "a      *)
(* broken worker ... must NEVER be reused"), whatever order error events,  *)
(* answers, destroy and run come in.                                       *)
NeverReused ==
    [][\A w \in Worker :
          pool'.busy[w] \notin {pool.busy[w], NoJob} => w \in pool.workers]_vars

(* What the build owes its caller.                                         *)

(* The store is the one the serial build makes of the same source: the     *)
(* same tables folded in the same order, flagged lossy for the same files, *)
(* and the rows of every chunk, whatever the workers did and in whatever   *)
(* order they answered.                                                    *)
SameAsSerial ==
    phase = "done" => [tables |-> tables, lossy |-> lossy] = Serial /\ rows = Chunks

(* When the coordinator works alone no worker contends with it, and when   *)
(* it returns none is left running.                                        *)
NoStragglers == phase \in {"serial", "done"} => pool.workers = {}

(* If a worker is left when the last table is folded the build returns,    *)
(* even if every worker dies after that.                                   *)
ReturnsFromALivingPool ==
    [](Folded => pool.workers # {}) => <>(phase = "done")

(* parallel.ts says of it "Always returns a store: any pool failure falls  *)
(* back to the serial path".                                               *)
AlwaysReturns == <>(phase = "done")

=============================================================================
