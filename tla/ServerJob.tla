----------------------------- MODULE ServerJob -----------------------------
(***************************************************************************)
(* The job and function operations of libgearman/server_job.c and          *)
(* server_function.c, written as operators from a broker state St to a     *)
(* broker state, so that the calls a protocol handler makes compose in the *)
(* order the code makes them (job_add -> job_queue -> job_free, job_peek -> *)
(* job_take -> job_free -> job_peek).                                      *)
(*                                                                         *)
(* St.server : the gearman_server_st fields these functions touch          *)
(*   live, job          allocated gearman_server_job_st and their fields   *)
(*   funcs, max_queue_size, job_list, job_count, job_total, job_running,   *)
(*   worker_list        the gearman_server_function_st of every name       *)
(*   unique_hash, job_hash   hash chains, newest first (GEARMAN_HASH_ADD)  *)
(*   job_handle_count, replay   (GEARMAN_SERVER_QUEUE_REPLAY)              *)
(* St.session : per connection, the gearman_server_con_st fields           *)
(*   con_worker_list (the con's server_worker list, newest first),         *)
(*   worker_job (server_worker->job per function), sleeping, noop_queued,  *)
(*   noops (NOOP packets queued on the connection, not yet sent)           *)
(* St.queue : the records held by the persistent queue adapter             *)
(***************************************************************************)
EXTENDS Integers, Sequences, FiniteSets, SequencesExt, JobHash

CONSTANTS
  Functions,       \* function names
  Workers,         \* worker connections
  Clients,         \* client connections
  JobSlot,         \* gearman_server_job_st structures (identity of a job)
  NoJob,           \* NULL job pointer
  NoWorker,        \* NULL server_worker pointer
  NoClient,        \* server_client == NULL (background or replay)
  UniqueSize,      \* GEARMAN_UNIQUE_SIZE
  HandleMod,       \* 2^32: job_handle_count is a uint32_t
  QueueInstalled   \* queue_add_fn, queue_flush_fn, queue_done_fn are set

ASSUME UniqueSize \in Nat \ {0}
ASSUME HandleMod \in Nat \ {0}
ASSUME QueueInstalled \in BOOLEAN

\* gearman_job_priority_t: HIGH, NORMAL, LOW; GEARMAN_JOB_PRIORITY_MAX = 3.
Priority == 0 .. 2

\* A unique of one byte '-' asks for dedup on the workload.
UniqueDash == <<45>>

\* Return codes of gearman_return_t that the job functions produce.
SUCCESS == "SUCCESS"
JOB_EXISTS == "JOB_EXISTS"
JOB_QUEUE_FULL == "JOB_QUEUE_FULL"
QUEUE_ERROR == "QUEUE_ERROR"
MEMORY_ALLOCATION_FAILURE == "MEMORY_ALLOCATION_FAILURE"

(***************************************************************************)
(* The intrusive list macros of common.h.  A hash table is one sequence of *)
(* its jobs, newest first: a lookup compares the key, so the split into    *)
(* buckets does not change what it finds, and GEARMAN_HASH_ADD prepends    *)
(* to the bucket.  A list is the sequence of its objects from the head.    *)
(***************************************************************************)
HashAdd(chain, j) == <<j>> \o chain

HashDel(chain, j) == Remove(chain, j)

ListAdd(list, x) == <<x>> \o list

ListDel(list, x) == Remove(list, x)

\* GEARMAN_FIFO_ADD / GEARMAN_FIFO_DEL on a connection's outbound packet
\* FIFO (io_packet_add / io_packet_remove): of the NOOP frames queued only
\* their number is kept, io_packet_count.
FifoAdd(count) == count + 1

FifoDel(count) == count - 1

\* numerator and denominator 0: no WORK_STATUS for the job's current run.
NoStatus == <<0, 0>>

(***************************************************************************)
(* A job structure as gearman_server_job_create leaves it (memset 0).  The *)
(* fields sub and bg are history: the unique as submitted, and whether a   *)
(* background submission was answered with this job.                       *)
(***************************************************************************)
NullJob ==
  [function |-> NoJob, unique |-> <<>>, unique_key |-> Zero32,
   data |-> <<>>, priority |-> 0, job_handle |-> 0, worker |-> NoWorker,
   status |-> NoStatus, queued |-> FALSE, ignore |-> FALSE, client_list |-> {},
   sub |-> <<>>, bg |-> FALSE]

\* snprintf(server_job->unique, GEARMAN_UNIQUE_SIZE, "%.*s", unique_size, u)
StoredUnique(u) ==
  IF Len(u) < UniqueSize THEN u ELSE SubSeq(u, 1, UniqueSize - 1)

\* The handle text "<prefix>:%u" of job_handle_count, as the number printed.
HandleOf(count) == count % HandleMod

(***************************************************************************)
(* gearman_server_function_get: find the function by name or create it     *)
(* with max_queue_size = GEARMAN_DEFAULT_MAX_QUEUE_SIZE (0) and zeroed     *)
(* counters; a function that was never created has exactly those values.   *)
(***************************************************************************)
FunctionGet(S, f) ==
  IF f \in S.server.funcs THEN S
  ELSE [S EXCEPT !.server.funcs = @ \cup {f},
                 !.server.max_queue_size[f] = 0]

\* Fault model: the data_size # 0 branch compares the unique string.
GetUniqueIgnoringData(S, key, f, bytes, byData) ==
  LET chain == S.server.unique_hash
      Match(j) == /\ S.server.job[j].function = f
                  /\ S.server.job[j].unique_key = key
                  /\ S.server.job[j].unique = bytes
      i == SelectInSeq(chain, Match)
  IN  IF i = 0 THEN NoJob ELSE chain[i]

(***************************************************************************)
(* _server_job_get_unique: walk the bucket chain, newest first, for a job  *)
(* of the function with the same unique_key and the same unique string     *)
(* (data_size = 0) or the same workload bytes (data_size # 0).             *)
(***************************************************************************)
GetUnique(S, key, f, bytes, byData) ==
  LET chain == S.server.unique_hash
      Match(j) ==
        /\ S.server.job[j].function = f
        /\ S.server.job[j].unique_key = key
        /\ IF byData THEN S.server.job[j].data = bytes
                     ELSE S.server.job[j].unique = bytes
      i == SelectInSeq(chain, Match)
  IN  IF i = 0 THEN NoJob ELSE chain[i]

\* gearman_server_job_get: the newest job on the chain with this handle.
JobGet(S, h) ==
  LET chain == S.server.job_hash
      i == SelectInSeq(chain, LAMBDA j: S.server.job[j].job_handle = h)
  IN  IF i = 0 THEN NoJob ELSE chain[i]

\* queue_done_fn(unique, function_name): the adapter deletes by that key.
QueueDone(S, u, f) ==
  [S EXCEPT !.queue = {r \in @ : ~(r.unique = u /\ r.function = f)}]

\* Fault model: job_running is not decremented for a running job.
JobFreeKeepRunning(S, j) ==
  LET jb == S.server.job[j]
      f  == jb.function
      w  == jb.worker
      run == IF w # NoWorker THEN 1 ELSE 0
  IN  [S EXCEPT
        !.server.job_total[f] = @ - 1,
        !.session.worker_job =
            IF w # NoWorker THEN [@ EXCEPT ![w][f] = NoJob] ELSE @,
        !.server.unique_hash = HashDel(@, j),
        !.server.job_hash = HashDel(@, j),
        !.server.live = @ \ {j},
        !.server.job[j] = NullJob]

\* Fault model: job_total is not decremented.
JobFreeKeepTotal(S, j) ==
  LET jb == S.server.job[j]
      f  == jb.function
      w  == jb.worker
      run == IF w # NoWorker THEN 1 ELSE 0
  IN  [S EXCEPT
        !.server.job_running[f] = @ - run,
        !.session.worker_job =
            IF w # NoWorker THEN [@ EXCEPT ![w][f] = NoJob] ELSE @,
        !.server.unique_hash = HashDel(@, j),
        !.server.job_hash = HashDel(@, j),
        !.server.live = @ \ {j},
        !.server.job[j] = NullJob]

\* Fault model: server_worker->job is left pointing at the freed job.
JobFreeKeepLink(S, j) ==
  LET jb == S.server.job[j]
      f  == jb.function
      w  == jb.worker
      run == IF w # NoWorker THEN 1 ELSE 0
  IN  [S EXCEPT
        !.server.job_running[f] = @ - run,
        !.server.job_total[f] = @ - 1,
        !.server.unique_hash = HashDel(@, j),
        !.server.job_hash = HashDel(@, j),
        !.server.live = @ \ {j},
        !.server.job[j] = NullJob]

\* Fault model: the job stays on the job-handle hash chain.
JobFreeKeepHandleChain(S, j) ==
  LET jb == S.server.job[j]
      f  == jb.function
      w  == jb.worker
      run == IF w # NoWorker THEN 1 ELSE 0
  IN  [S EXCEPT
        !.server.job_running[f] = @ - run,
        !.server.job_total[f] = @ - 1,
        !.session.worker_job =
            IF w # NoWorker THEN [@ EXCEPT ![w][f] = NoJob] ELSE @,
        !.server.unique_hash = HashDel(@, j),
        !.server.live = @ \ {j},
        !.server.job[j] = NullJob]

(***************************************************************************)
(* gearman_server_job_free.  It does not unlink the job from its function's *)
(* priority list: callers free only jobs that are not on one.              *)
(***************************************************************************)
JobFree(S, j) ==
  LET jb == S.server.job[j]
      f  == jb.function
      w  == jb.worker
      run == IF w # NoWorker THEN 1 ELSE 0
  IN  [S EXCEPT
        !.server.job_running[f] = @ - run,
        !.server.job_total[f] = @ - 1,
        !.session.worker_job =
            IF w # NoWorker THEN [@ EXCEPT ![w][f] = NoJob] ELSE @,
        !.server.unique_hash = HashDel(@, j),
        !.server.job_hash = HashDel(@, j),
        !.server.live = @ \ {j},
        !.server.job[j] = NullJob]

Wakeable(ses, w) == ses.noop_queued[w] \/ ses.sleeping[w]

\* Fault model: lines 368-369 (numerator= 0, denominator= 0) left out.
LeaveWorkerKeepStatus(jb) == [jb EXCEPT !.worker = NoWorker]

\* Lines 367-369: the job has no worker and no progress of its own.
LeaveWorker(jb) == [jb EXCEPT !.worker = NoWorker, !.status = NoStatus]

\* Fault model: job_running is decremented without the job->worker check.
JobQueueAlwaysRunning(S, j, failAt) ==
  LET jb   == S.server.job[j]
      f    == jb.function
      run  == 1
      ses  == S.session
      wake == SelectSeq(S.server.worker_list[f],
                        LAMBDA w: Wakeable(ses, w))
      fail == failAt \in 1 .. Len(wake)
      sent == IF fail THEN Range(SubSeq(wake, 1, failAt - 1)) ELSE Range(wake)
      S1 == [S EXCEPT
              !.server.job_running[f] = @ - run,
              !.server.job[j] = LeaveWorker(@),
              !.session.noops = [w \in Workers |->
                                   IF w \in sent THEN FifoAdd(@[w]) ELSE @[w]],
              !.session.noop_queued = [w \in Workers |->
                                   IF w \in sent THEN TRUE ELSE @[w]]]
  IN  IF fail
      THEN [s |-> S1, ret |-> MEMORY_ALLOCATION_FAILURE]
      ELSE [s |-> [S1 EXCEPT
                     !.server.job_list[f][jb.priority] = Append(@, j),
                     !.server.job_count[f] = @ + 1],
            ret |-> SUCCESS]

(***************************************************************************)
(* gearman_server_job_queue.  The job leaves its worker, every worker of   *)
(* the function that is sleeping or has noop_queued gets a NOOP, and the   *)
(* job is appended to the tail of its priority list.  io_packet_add of the *)
(* k-th NOOP fails when failAt = k: the function returns at once, after    *)
(* the worker was cleared and before the job is listed.                    *)
(***************************************************************************)
JobQueue(S, j, failAt) ==
  LET jb   == S.server.job[j]
      f    == jb.function
      run  == IF jb.worker # NoWorker THEN 1 ELSE 0
      ses  == S.session
      wake == SelectSeq(S.server.worker_list[f],
                        LAMBDA w: Wakeable(ses, w))
      fail == failAt \in 1 .. Len(wake)
      sent == IF fail THEN Range(SubSeq(wake, 1, failAt - 1)) ELSE Range(wake)
      S1 == [S EXCEPT
              !.server.job_running[f] = @ - run,
              !.server.job[j] = LeaveWorker(@),
              !.session.noops = [w \in Workers |->
                                   IF w \in sent THEN FifoAdd(@[w]) ELSE @[w]],
              !.session.noop_queued = [w \in Workers |->
                                   IF w \in sent THEN TRUE ELSE @[w]]]
  IN  IF fail
      THEN [s |-> S1, ret |-> MEMORY_ALLOCATION_FAILURE]
      ELSE [s |-> [S1 EXCEPT
                     !.server.job_list[f][jb.priority] = Append(@, j),
                     !.server.job_count[f] = @ + 1],
            ret |-> SUCCESS]

\* The first priority, HIGH to LOW, whose list is not empty.
FirstPriority(lists) ==
  CHOOSE p \in Priority : lists[p] # <<>> /\ \A q \in 0 .. p - 1 : lists[q] = <<>>

\* Fault model: the head job is assigned but not unlinked from its list.
RECURSIVE JobTakeNoPop(_, _)
JobTakeNoPop(S, w) ==
  LET fs == S.session.con_worker_list[w]
      i  == SelectInSeq(fs, LAMBDA f: S.server.job_count[f] # 0)
  IN  IF i = 0 THEN [s |-> S, job |-> NoJob]
      ELSE
        LET f  == fs[i]
            p  == FirstPriority(S.server.job_list[f])
            j  == Head(S.server.job_list[f][p])
            S1 == [S EXCEPT
                    !.server.job_count[f] = @ - 1,
                    !.server.job[j].worker = w,
                    !.session.worker_job[w][f] = j,
                    !.server.job_running[f] = @ + 1]
        IN  IF S.server.job[j].ignore THEN JobTakeNoPop(JobFree(S1, j), w)
            ELSE [s |-> S1, job |-> j]

(***************************************************************************)
(* gearman_server_job_take: the first function of the connection's worker  *)
(* list with job_count # 0, the head of its first non-empty priority list; *)
(* the job is assigned to that server_worker.  A job marked IGNORE is      *)
(* freed and the take starts over.                                         *)
(***************************************************************************)
RECURSIVE JobTake(_, _)
JobTake(S, w) ==
  LET fs == S.session.con_worker_list[w]
      i  == SelectInSeq(fs, LAMBDA f: S.server.job_count[f] # 0)
  IN  IF i = 0 THEN [s |-> S, job |-> NoJob]
      ELSE
        LET f  == fs[i]
            p  == FirstPriority(S.server.job_list[f])
            j  == Head(S.server.job_list[f][p])
            S1 == [S EXCEPT
                    !.server.job_list[f][p] = Tail(@),
                    !.server.job_count[f] = @ - 1,
                    !.server.job[j].worker = w,
                    !.session.worker_job[w][f] = j,
                    !.server.job_running[f] = @ + 1]
        IN  IF S.server.job[j].ignore THEN JobTake(JobFree(S1, j), w)
            ELSE [s |-> S1, job |-> j]

(***************************************************************************)
(* gearman_server_job_peek: the job the connection would take next.  A     *)
(* head job marked IGNORE (its client went away) has the flag cleared, is  *)
(* taken and freed, and the peek starts over.                              *)
(***************************************************************************)
RECURSIVE JobPeek(_, _)
JobPeek(S, w) ==
  LET fs == S.session.con_worker_list[w]
      HasJob(f) == /\ S.server.job_count[f] # 0
                   /\ \E p \in Priority : S.server.job_list[f][p] # <<>>
      i  == SelectInSeq(fs, HasJob)
  IN  IF i = 0 THEN [s |-> S, job |-> NoJob]
      ELSE
        LET f == fs[i]
            h == Head(S.server.job_list[f][FirstPriority(S.server.job_list[f])])
        IN  IF S.server.job[h].ignore
            THEN LET T == JobTake([S EXCEPT !.server.job[h].ignore = FALSE], w)
                 IN  JobPeek(JobFree(T.s, T.job), w)
            ELSE [s |-> S, job |-> h]

(***************************************************************************)
(* The record the adapter keeps for queue_add_fn(unique, function, data,   *)
(* priority).  The unique passed is the server_job->unique buffer.         *)
(***************************************************************************)
QueueRecord(jb) ==
  [function |-> jb.function, unique |-> jb.unique,
   data |-> jb.data, priority |-> jb.priority]

\* Fault model: the replay test is left out and replay re-persists.
PersistsInReplay(fn, c) == c = NoClient /\ QueueInstalled

(***************************************************************************)
(* Lines 134-136: job_add writes a job through to the adapter unless the   *)
(* server is replaying (GEARMAN_SERVER_QUEUE_REPLAY), and only for a job   *)
(* with no client when queue_add_fn is set.                                *)
(***************************************************************************)
Persists(fn, c) == ~fn.replay /\ c = NoClient /\ QueueInstalled

\* Lines 96-97: a new job is refused when the function's jobs, queued or
\* running, have reached a non-zero max_queue_size.
QueueFull(fn, f) ==
  fn.max_queue_size[f] > 0 /\ fn.job_total[f] >= fn.max_queue_size[f]

\* Fault model: the server_client is never put on the job's client list.
AttachClientNever(r, c) == r

\* Lines 186-190: a foreground submitter is registered on the job it gets,
\* new or deduplicated.
AttachClient(r, c) ==
  IF c # NoClient /\ r.job # NoJob
  THEN [r EXCEPT !.s.server.job[r.job].client_list = @ \cup {c}]
  ELSE r

(***************************************************************************)
(* gearman_server_job_add(function f, unique u, workload d, priority p,    *)
(* server_client c).  addOk / flushOk are the adapter's answers, failAt    *)
(* the NOOP allocation that fails in job_queue (see JobQueue), and gkey    *)
(* the value of the uninitialised `key' when u is empty.  The result is    *)
(* the new state, the return code and the job (NoJob for NULL).            *)
(***************************************************************************)
JobAdd(S, f, u, d, p, c, addOk, flushOk, failAt, gkey) ==
  LET S1    == FunctionGet(S, f)
      dash  == u = UniqueDash
      nokey == u = <<>> \/ (dash /\ d = <<>>)
      key   == CASE u = <<>>           -> gkey
                 [] dash /\ d = <<>>   -> Zero32
                 [] dash               -> Hash(d)
                 [] OTHER              -> Hash(u)
      found == IF nokey THEN NoJob
               ELSE GetUnique(S1, key, f, IF dash THEN d ELSE u, dash)
      fn    == S1.server
      j     == CHOOSE x \in JobSlot : x \notin fn.live
      jb    == [NullJob EXCEPT
                 !.priority = p, !.function = f,
                 !.job_handle = HandleOf(fn.job_handle_count),
                 !.unique = StoredUnique(u), !.data = d,
                 !.unique_key = key, !.sub = u]
      S2    == [S1 EXCEPT
                 !.server.live = @ \cup {j},
                 !.server.job[j] = jb,
                 !.server.job_total[f] = @ + 1,
                 !.server.job_handle_count = @ + 1,
                 !.server.unique_hash = HashAdd(@, j),
                 !.server.job_hash = HashAdd(@, j)]
      persist == Persists(fn, c)
      S3    == [S2 EXCEPT !.queue = @ \cup {QueueRecord(jb)}]
      S4    == CASE fn.replay -> [S2 EXCEPT !.server.job[j].queued = TRUE]
                 [] persist   -> [S3 EXCEPT !.server.job[j].queued = TRUE]
                 [] OTHER     -> S2
      Q     == JobQueue(S4, j, failAt)
      Q1    == IF c = NoClient /\ QueueInstalled
               THEN QueueDone(Q.s, jb.unique, f) ELSE Q.s
      Fail(T, r) == [s |-> T, ret |-> r, job |-> NoJob]
  IN  AttachClient(
        IF found # NoJob THEN [s |-> S1, ret |-> JOB_EXISTS, job |-> found]
        ELSE IF QueueFull(fn, f) THEN Fail(S1, JOB_QUEUE_FULL)
        ELSE IF persist /\ ~addOk THEN Fail(JobFree(S2, j), QUEUE_ERROR)
        ELSE IF persist /\ ~flushOk THEN Fail(JobFree(S3, j), QUEUE_ERROR)
        ELSE IF Q.ret # SUCCESS THEN Fail(JobFree(Q1, j), Q.ret)
        ELSE [s |-> Q.s, ret |-> SUCCESS, job |-> j], c)

=============================================================================
