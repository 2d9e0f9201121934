--------------------------- MODULE GearmanServer ---------------------------
(***************************************************************************)
(* The job broker of gearmand: the protocol handlers that clients and      *)
(* workers drive (SUBMIT_JOB*, CAN_DO, PRE_SLEEP, GRAB_JOB, WORK_COMPLETE / *)
(* WORK_FAIL, disconnects, the NOOP send and the `maxqueue' admin command) *)
(* over the job operations of ServerJob.  Each handler runs atomically     *)
(* under the broker lock (one step), as the server's threads do.           *)
(*                                                                         *)
(* The handlers live in server.c, server_con.c, server_client.c and        *)
(* server_worker.c, which are not part of this repository: they are        *)
(* modelled from the specification, the calls they make into server_job.c  *)
(* from the code of server_job.c.                                          *)
(***************************************************************************)
EXTENDS ServerJob

CONSTANTS
  UniqueInputs,     \* uniques a client may send (byte sequences)
  DataInputs,       \* workloads a client may send (byte sequences)
  PriorityInputs,   \* priorities submitted
  MaxQueueInputs,   \* values the `maxqueue' admin command may set
  MaxCreates,       \* bound: jobs created (job_handle_count starts at 1)
  MaxNoops,         \* bound: NOOP frames queued on one connection
  WorkerLibrary,    \* workers follow the libgearman worker loop
  AdapterFailures,  \* queue_add_fn / queue_flush_fn may fail
  AllocFailures,    \* io_packet_add (NOOP) may fail to allocate
  MaxRestarts,      \* bound: restarts of the gearmand process
  ClientProgram,    \* client connections run the example client
  MaxInbox          \* bound: frames waiting on one client connection

ASSUME MaxCreates \in Nat /\ MaxNoops \in Nat /\ MaxRestarts \in Nat
ASSUME {WorkerLibrary, AdapterFailures, AllocFailures, ClientProgram}
         \subseteq BOOLEAN

VARIABLES
  server,    \* gearman_server_st: jobs, functions, hash tables, counter
  session,   \* gearman_server_con_st of every worker connection
  queue,     \* the persistent queue adapter's records
  assigned,  \* job handles each worker has been given and not answered
  wloop,     \* where each worker is in its grab / sleep / work loop
  pending,   \* adapter records replay has not yet passed to job_add
  restarts,  \* restarts so far
  cpc,       \* where each example client is in main()
  inbox      \* frames sent to each example client and not yet read

vars == <<server, session, queue, assigned, wloop, pending, restarts, cpc,
          inbox>>

recovery == <<pending, restarts>>
program  == <<cpc, inbox>>

\* The steps of the worker library's loop (see Follows).
LoopStates == {"grab", "nojob", "asleep", "busy"}

(***************************************************************************)
(* The worker library sends GRAB_JOB, on NO_JOB sends PRE_SLEEP and waits  *)
(* for a NOOP before it grabs again; it answers a job before grabbing the  *)
(* next.  Without WorkerLibrary a worker sends any command at any time.    *)
(***************************************************************************)
Follows(w, st) == WorkerLibrary => wloop[w] = st

St == [server |-> server, session |-> session, queue |-> queue]

Commit(T) == /\ server' = T.server
             /\ session' = T.session
             /\ queue' = T.queue

AdapterOutcome == IF AdapterFailures THEN BOOLEAN ELSE {TRUE}

\* failAt = k > 0 makes the k-th NOOP allocation of job_queue fail.
FailPoints == IF AllocFailures THEN 0 .. Cardinality(Workers) ELSE {0}

(***************************************************************************)
(* The uninitialised `key' of job_add when the unique is empty: whatever   *)
(* the stack slot holds.  What matters is whether it equals the hash of a  *)
(* workload a later unique "-" lookup will use; Zero32 stands for a value  *)
(* equal to no hash (the hash never returns 0).  Only a "-" lookup reads   *)
(* the key of a job with an empty unique, so without "-" one value does.   *)
(***************************************************************************)
GarbageKeys(u) ==
  IF u = <<>> /\ UniqueDash \in UniqueInputs
  THEN {Zero32} \cup {Hash(d) : d \in DataInputs \ {<<>>}}
  ELSE {Zero32}

\* gearman_server_create: no jobs, no functions, job_handle_count seeded 1.
EmptyServer ==
  [live |-> {},
   job |-> [j \in JobSlot |-> NullJob],
   funcs |-> {},
   max_queue_size |-> [f \in Functions |-> 0],
   job_list |-> [f \in Functions |-> [p \in Priority |-> <<>>]],
   job_count |-> [f \in Functions |-> 0],
   job_total |-> [f \in Functions |-> 0],
   job_running |-> [f \in Functions |-> 0],
   worker_list |-> [f \in Functions |-> <<>>],
   unique_hash |-> <<>>,
   job_hash |-> <<>>,
   job_handle_count |-> 1,
   replay |-> FALSE]

\* No worker connection.
NoSessions ==
  [con_worker_list |-> [w \in Workers |-> <<>>],
   worker_job |-> [w \in Workers |-> [f \in Functions |-> NoJob]],
   sleeping |-> [w \in Workers |-> FALSE],
   noop_queued |-> [w \in Workers |-> FALSE],
   noops |-> [w \in Workers |-> 0]]

\* The first start, with an empty adapter: replay has nothing to do.
Init ==
  /\ server = EmptyServer
  /\ session = NoSessions
  /\ queue = {}
  /\ assigned = [w \in Workers |-> {}]
  /\ wloop = [w \in Workers |-> "grab"]
  /\ pending = {}
  /\ restarts = 0
  /\ cpc = [c \in Clients |-> "start"]
  /\ inbox = [c \in Clients |-> <<>>]

\* A job can be created: a free structure and the creation bound.
CanCreate ==
  /\ server.live # JobSlot
  /\ server.job_handle_count <= MaxCreates

(***************************************************************************)
(* What a client connection is sent about its job: progress frames, then  *)
(* one final frame (WORK_COMPLETE, WORK_FAIL, or ERROR for a refused       *)
(* submission or a lost connection).                                       *)
(***************************************************************************)
Progress == {"WORK_DATA", "WORK_STATUS"}

Final == {"WORK_COMPLETE", "WORK_FAIL", "ERROR"}

\* Frame m is queued to the client connections cs, in order.  The frames
\* are kept only for the example client; other clients' are not tracked.
Forward(cs, m) ==
  IF ClientProgram
  THEN [c \in Clients |-> IF c \in cs THEN Append(inbox[c], m) ELSE inbox[c]]
  ELSE inbox

\* The example client submits with a NULL unique at NORMAL priority.
ClientUniques == IF ClientProgram THEN {<<>>} ELSE UniqueInputs

ClientPriorities == IF ClientProgram THEN {1} ELSE PriorityInputs

(***************************************************************************)
(* SUBMIT_JOB, SUBMIT_JOB_HIGH, SUBMIT_JOB_LOW from client connection c:   *)
(* job_add with the connection as the job's client; JOB_CREATED carries    *)
(* the handle of the new or the existing job, ERROR otherwise.             *)
(***************************************************************************)
SubmitJob(c, f, u, d, p) ==
  /\ CanCreate
  /\ ClientProgram => cpc[c] = "do"
  /\ \E failAt \in FailPoints, gkey \in GarbageKeys(u) :
       LET r == JobAdd(St, f, u, d, p, c, TRUE, TRUE, failAt, gkey)
       IN  /\ Commit(r.s)
           /\ inbox' = IF r.job = NoJob THEN Forward({c}, "ERROR") ELSE inbox
  /\ cpc' = IF ClientProgram THEN [cpc EXCEPT ![c] = "wait"] ELSE cpc
  /\ UNCHANGED <<assigned, wloop>>

(***************************************************************************)
(* SUBMIT_JOB_BG, SUBMIT_JOB_HIGH_BG, SUBMIT_JOB_LOW_BG: job_add with no   *)
(* client, so the job is written to the persistent queue.  The history     *)
(* field bg records that a background submitter was told JOB_CREATED.      *)
(***************************************************************************)
SubmitJobBg(f, u, d, p) ==
  /\ CanCreate
  /\ \E addOk, flushOk \in AdapterOutcome, failAt \in FailPoints,
        gkey \in GarbageKeys(u) :
       LET r == JobAdd(St, f, u, d, p, NoClient, addOk, flushOk, failAt, gkey)
       IN  Commit(IF r.job = NoJob THEN r.s
                  ELSE [r.s EXCEPT !.server.job[r.job].bg = TRUE])
  /\ UNCHANGED <<assigned, wloop, program>>

(***************************************************************************)
(* CAN_DO f: a server_worker for f is put at the head of the connection's  *)
(* worker list and of the function's worker list (GEARMAN_LIST_ADD).  A    *)
(* worker declares each function once per connection; the worker library  *)
(* sends its CAN_DOs before a GRAB_JOB, never while waiting for a NOOP.    *)
(***************************************************************************)
CanDo(w, f) ==
  /\ Follows(w, "grab")
  /\ f \notin Range(session.con_worker_list[w])
  /\ LET S1 == FunctionGet(St, f)
     IN  Commit([S1 EXCEPT !.session.con_worker_list[w] = ListAdd(@, f),
                           !.server.worker_list[f] = ListAdd(@, w)])
  /\ UNCHANGED <<assigned, wloop, program>>

(***************************************************************************)
(* PRE_SLEEP: job_peek; with nothing to run the connection is marked       *)
(* sleeping, otherwise a NOOP is queued at once so the worker grabs.       *)
(***************************************************************************)
PreSleep(w) ==
  /\ Follows(w, "nojob")
  /\ LET r == JobPeek(St, w)
     IN  Commit(IF r.job = NoJob
                THEN [r.s EXCEPT !.session.sleeping[w] = TRUE]
                ELSE [r.s EXCEPT !.session.noops[w] = FifoAdd(@)])
  /\ wloop' = [wloop EXCEPT ![w] = "asleep"]
  /\ UNCHANGED <<assigned, program>>

(***************************************************************************)
(* GRAB_JOB / GRAB_JOB_UNIQ: the connection is awake again (sleeping and   *)
(* noop_queued cleared) and job_take hands it the next job: JOB_ASSIGN     *)
(* with the job's handle, or NO_JOB.                                       *)
(***************************************************************************)
GrabJob(w) ==
  /\ Follows(w, "grab")
  /\ LET S1 == [St EXCEPT !.session.sleeping[w] = FALSE,
                          !.session.noop_queued[w] = FALSE]
         r  == JobTake(S1, w)
     IN  /\ Commit(r.s)
         /\ assigned' =
              IF r.job = NoJob THEN assigned
              ELSE [assigned EXCEPT
                      ![w] = @ \cup {r.s.server.job[r.job].job_handle}]
         /\ wloop' = [wloop EXCEPT ![w] = IF r.job = NoJob THEN "nojob" ELSE "busy"]
  /\ UNCHANGED program

(***************************************************************************)
(* WORK_COMPLETE h / WORK_FAIL h (m; identical on the broker's state):    *)
(* gearman_server_job_get(h), the frame is forwarded to the job's clients, *)
(* queue_done_fn removes the record of a QUEUED job, job_free.  An unknown *)
(* handle is answered with ERROR.                                          *)
(***************************************************************************)
WorkResult(w, h, m) ==
  /\ h \in assigned[w]
  /\ LET j  == JobGet(St, h)
         jb == server.job[j]
         S1 == IF jb.queued /\ QueueInstalled
               THEN QueueDone(St, jb.unique, jb.function) ELSE St
     IN  /\ Commit(IF j = NoJob THEN St ELSE JobFree(S1, j))
         /\ inbox' = IF j = NoJob THEN inbox ELSE Forward(jb.client_list, m)
  /\ assigned' = [assigned EXCEPT ![w] = @ \ {h}]
  /\ wloop' = [wloop EXCEPT ![w] = "grab"]
  /\ UNCHANGED cpc

(***************************************************************************)
(* WORK_DATA h / WORK_STATUS h (m) from the worker running the job: the    *)
(* frame is forwarded to each of the job's clients, and WORK_STATUS stores *)
(* its numerator and denominator in the job, what GET_STATUS reports.      *)
(* Workers send these frames only in the runs with the example client.     *)
(***************************************************************************)
\* WORK_STATUS h 1 2: one reported numerator and denominator.
ReportedStatus == <<1, 2>>

WorkProgress(w, h, m) ==
  /\ ClientProgram
  /\ Follows(w, "busy")
  /\ h \in assigned[w]
  /\ LET j == JobGet(St, h)
     IN  /\ j # NoJob
         /\ \A c \in server.job[j].client_list : Len(inbox[c]) < MaxInbox
         /\ inbox' = Forward(server.job[j].client_list, m)
         /\ server' = IF m = "WORK_STATUS"
                      THEN [server EXCEPT !.job[j].status = ReportedStatus]
                      ELSE server
  /\ UNCHANGED <<session, queue, assigned, wloop, cpc>>

(***************************************************************************)
(* A client connection closes: each of its server_client registrations is  *)
(* freed; a job left with no client and not running is marked IGNORE, to   *)
(* be dropped when it is next peeked or taken.                             *)
(***************************************************************************)
ClientDisconnect(c) ==
  /\ \E j \in server.live : c \in server.job[j].client_list
  /\ server' = [server EXCEPT !.job = [j \in JobSlot |->
        LET jb   == @[j]
            left == jb.client_list \ {c}
        IN  IF c \notin jb.client_list THEN jb
            ELSE [jb EXCEPT !.client_list = left,
                            !.ignore = @ \/ (left = {} /\ jb.worker = NoWorker)]]]
  /\ cpc' = IF ClientProgram THEN [cpc EXCEPT ![c] = "exited"] ELSE cpc
  /\ inbox' = [inbox EXCEPT ![c] = <<>>]
  /\ UNCHANGED <<session, queue, assigned, wloop>>

(***************************************************************************)
(* server_worker_free for each function of a closing worker connection: a  *)
(* job the server_worker holds is put back with job_queue (its return      *)
(* value ignored) and the worker leaves the function's worker list.        *)
(***************************************************************************)
RECURSIVE FreeWorkers(_, _, _, _)
FreeWorkers(S, w, fs, failAt) ==
  IF fs = <<>> THEN S
  ELSE
    LET f  == Head(fs)
        j  == S.session.worker_job[w][f]
        S1 == IF j # NoJob THEN JobQueue(S, j, failAt).s ELSE S
        S2 == [S1 EXCEPT !.server.worker_list[f] = ListDel(@, w),
                         !.session.worker_job[w][f] = NoJob]
    IN  FreeWorkers(S2, w, Tail(fs), failAt)

WorkerDisconnect(w) ==
  /\ \/ session.con_worker_list[w] # <<>>
     \/ session.sleeping[w]
     \/ session.noops[w] > 0
     \/ assigned[w] # {}
  /\ \E failAt \in FailPoints :
       LET S1 == FreeWorkers(St, w, session.con_worker_list[w], failAt)
       IN  Commit([S1 EXCEPT !.session.con_worker_list[w] = <<>>,
                             !.session.sleeping[w] = FALSE,
                             !.session.noop_queued[w] = FALSE,
                             !.session.noops[w] = 0])
  /\ assigned' = [assigned EXCEPT ![w] = {}]
  /\ wloop' = [wloop EXCEPT ![w] = "grab"]
  /\ UNCHANGED program

\* The connection's send machine writes a queued NOOP frame; a worker
\* waiting after PRE_SLEEP wakes up and grabs.
SendNoop(w) ==
  /\ session.noops[w] > 0
  /\ session' = [session EXCEPT !.noops[w] = FifoDel(@)]
  /\ wloop' = [wloop EXCEPT ![w] = IF @ = "asleep" THEN "grab" ELSE @]
  /\ UNCHANGED <<server, queue, assigned, program>>

\* Text command `maxqueue f n': set the function's max_queue_size.
MaxQueue(f, n) ==
  /\ LET S1 == FunctionGet(St, f)
     IN  /\ S1.server.max_queue_size[f] # n
         /\ Commit([S1 EXCEPT !.server.max_queue_size[f] = n])
  /\ UNCHANGED <<assigned, wloop, program>>

-----------------------------------------------------------------------------
(***************************************************************************)
(* Crash and restart (spec, Startup; section 4.4).  The process stops at   *)
(* any point between two handlers: every job, function and connection is   *)
(* lost, the adapter keeps its records.  Startup builds an empty broker,   *)
(* sets GEARMAN_SERVER_QUEUE_REPLAY and calls the adapter's replay, which  *)
(* passes every record to job_add with no client; then replay mode ends    *)
(* and connections are accepted.  Workers reconnect in the grab state.     *)
(***************************************************************************)
Restart ==
  /\ restarts < MaxRestarts
  /\ server' = [EmptyServer EXCEPT !.replay = TRUE]
  /\ session' = NoSessions
  /\ assigned' = [w \in Workers |-> {}]
  /\ wloop' = [w \in Workers |-> "grab"]
  /\ pending' = queue
  /\ restarts' = restarts + 1
  /\ inbox' = Forward({c \in Clients : cpc[c] = "wait"}, "ERROR")
  /\ UNCHANGED <<queue, cpc>>

\* The replay callback for record r: job_add(function, unique, data,
\* priority, NULL) in replay mode.  The adapter's answers are ignored
\* there; no worker is connected yet, so no NOOP is sent.
ReplayRecord(r) ==
  /\ server.replay
  /\ r \in pending
  /\ CanCreate
  /\ \E addOk, flushOk \in AdapterOutcome, gkey \in GarbageKeys(r.unique) :
       Commit(JobAdd(St, r.function, r.unique, r.data, r.priority, NoClient,
                     addOk, flushOk, 0, gkey).s)
  /\ pending' = pending \ {r}
  /\ UNCHANGED <<assigned, wloop, restarts, program>>

\* Every record was replayed: replay mode ends.
EndReplay ==
  /\ server.replay
  /\ pending = {}
  /\ server' = [server EXCEPT !.replay = FALSE]
  /\ UNCHANGED <<session, queue, assigned, wloop, pending, restarts, program>>

-----------------------------------------------------------------------------
(***************************************************************************)
(* The example client (main() of the example program): with ClientProgram *)
(* every client connection runs it once.  gearman_client_do sends the     *)
(* SUBMIT_JOB (SubmitJob) and then returns once per frame the server sends *)
(* for the job; the loop calls it again after WORK_DATA and WORK_STATUS    *)
(* and leaves after any other answer, freeing the client, which closes the *)
(* connection.                                                             *)
(***************************************************************************)

\* Lines 124-159: options, the argument count, gearman_client_create and
\* gearman_client_add_server; any of them failing ends in exit(1).
ClientSetup(c) ==
  /\ ClientProgram
  /\ cpc[c] = "start"
  /\ \/ cpc' = [cpc EXCEPT ![c] = "do"]
     \/ cpc' = [cpc EXCEPT ![c] = "exited"]
  /\ UNCHANGED <<server, session, queue, assigned, wloop, inbox>>

\* Lines 161-194: gearman_client_do returns with the next frame.
ClientRecv(c) ==
  /\ cpc[c] = "wait"
  /\ inbox[c] # <<>>
  /\ inbox' = [inbox EXCEPT ![c] = Tail(@)]
  /\ cpc' = [cpc EXCEPT ![c] = IF Head(inbox[c]) \in Progress THEN "wait"
                                 ELSE "exited"]
  /\ UNCHANGED <<server, session, queue, assigned, wloop>>

\* The protocol handlers, served once replay is over.
Handle ==
  \/ \E c \in Clients, f \in Functions, u \in ClientUniques, d \in DataInputs,
        p \in ClientPriorities : SubmitJob(c, f, u, d, p)
  \/ \E f \in Functions, u \in UniqueInputs, d \in DataInputs,
        p \in PriorityInputs : SubmitJobBg(f, u, d, p)
  \/ \E w \in Workers, f \in Functions : CanDo(w, f)
  \/ \E w \in Workers : PreSleep(w)
  \/ \E w \in Workers : GrabJob(w)
  \/ \E w \in Workers, m \in {"WORK_COMPLETE", "WORK_FAIL"} :
       \E h \in assigned[w] : WorkResult(w, h, m)
  \/ \E w \in Workers, m \in Progress : \E h \in assigned[w] : WorkProgress(w, h, m)
  \/ \E c \in Clients : ClientDisconnect(c)
  \/ \E w \in Workers : WorkerDisconnect(w)
  \/ \E w \in Workers : SendNoop(w)
  \/ \E f \in Functions, n \in MaxQueueInputs : MaxQueue(f, n)

Next ==
  \/ ~server.replay /\ Handle /\ UNCHANGED recovery
  \/ Restart
  \/ \E r \in pending : ReplayRecord(r)
  \/ EndReplay
  \/ \E c \in Clients : (ClientSetup(c) \/ ClientRecv(c)) /\ UNCHANGED recovery

Spec == Init /\ [][Next]_vars

\* The model's bound on outbound NOOP frames (state constraint).
NoopBound == \A w \in Workers : session.noops[w] <= MaxNoops

-----------------------------------------------------------------------------
(***************************************************************************)
(* Properties                                                              *)
(***************************************************************************)

Bytes == Seq(0 .. 255)

TypeOK ==
  /\ server.live \subseteq JobSlot
  /\ server.funcs \subseteq Functions
  /\ \A j \in server.live :
       LET jb == server.job[j] IN
       /\ jb.function \in Functions
       /\ jb.priority \in Priority
       /\ jb.worker \in Workers \cup {NoWorker}
       /\ jb.client_list \subseteq Clients
       /\ jb.unique_key \in U32
       /\ jb.job_handle \in 0 .. HandleMod - 1
       /\ Len(jb.unique) < UniqueSize
       /\ jb.status \in {NoStatus, ReportedStatus}
  /\ \A f \in Functions :
       /\ \A p \in Priority : server.job_list[f][p] \in Seq(JobSlot)
       /\ {server.job_count[f], server.job_total[f], server.job_running[f]}
            \subseteq Nat
       /\ server.worker_list[f] \in Seq(Workers)
  /\ server.job_handle_count \in 1 .. MaxCreates + 1
  /\ \A w \in Workers :
       /\ session.con_worker_list[w] \in Seq(Functions)
       /\ session.worker_job[w] \in [Functions -> JobSlot \cup {NoJob}]
       /\ session.noops[w] \in Nat
  /\ assigned \in [Workers -> SUBSET (0 .. HandleMod - 1)]
  /\ wloop \in [Workers -> LoopStates]
  /\ cpc \in [Clients -> {"start", "do", "wait", "exited"}]
  /\ inbox \in [Clients -> Seq(Progress \cup Final)]

\* Every position of every priority list, as <<function, priority, index>>.
Slots == UNION {{<<f, p, i>> : i \in DOMAIN server.job_list[f][p]} :
                  <<f, p>> \in Functions \X Priority}

ListedAt(j) == {s \in Slots : server.job_list[s[1]][s[2]][s[3]] = j}

(***************************************************************************)
(* The function counters agree with the jobs (spec section 8, items 1-2):  *)
(* job_count is the number of listed jobs, job_total the number of live    *)
(* jobs and job_running the number of assigned jobs of the function.  The  *)
(* counters are moved by hand in job_add, job_queue, job_take and job_free *)
(* along the add, reap, requeue and rollback paths.                        *)
(***************************************************************************)
JobAccounting ==
  \A f \in Functions :
    LET mine == {j \in server.live : server.job[j].function = f}
    IN  /\ server.job_count[f] =
             Cardinality({s \in Slots : s[1] = f})
        /\ server.job_total[f] = Cardinality(mine)
        /\ server.job_running[f] =
             Cardinality({j \in mine : server.job[j].worker # NoWorker})

(***************************************************************************)
(* Every live job is reachable exactly once from each hash table, and is   *)
(* either on exactly one priority list, the one of its function and        *)
(* priority, or assigned to a worker and on none; no list or hash chain    *)
(* reaches a freed structure (spec section 8, items 3-4, with IGNORE jobs  *)
(* still listed until job_peek or job_take reaps them).                    *)
(***************************************************************************)
JobPlacement ==
  /\ \A s \in Slots :
       LET j == server.job_list[s[1]][s[2]][s[3]]
       IN  j \in server.live /\ server.job[j].function = s[1]
                             /\ server.job[j].priority = s[2]
  /\ \A j \in server.live :
       Cardinality(ListedAt(j)) =
         IF server.job[j].worker = NoWorker THEN 1 ELSE 0
  /\ \A chain \in {server.unique_hash, server.job_hash} :
       IsInjective(chain) /\ Range(chain) = server.live

(***************************************************************************)
(* A job assigned to a worker connection is the job that connection's      *)
(* server_worker for the function points to, and back: what lets the       *)
(* connection's close re-queue it (spec section 5, worker disconnect).     *)
(***************************************************************************)
WorkerJobLinks ==
  /\ \A j \in server.live :
       LET w == server.job[j].worker
       IN  w # NoWorker => session.worker_job[w][server.job[j].function] = j
  /\ \A w \in Workers, f \in Functions :
       LET j == session.worker_job[w][f]
       IN  j # NoJob => j \in server.live /\ server.job[j].worker = w

StatusOfCurrentRun ==
  \A j \in server.live :
    server.job[j].worker = NoWorker => server.job[j].status = NoStatus

(***************************************************************************)
(* Dedup (spec 4.2, section 8 round trip): two live jobs of one function   *)
(* never come from the same non-empty unique, nor from unique "-" with the *)
(* same non-empty workload.                                                *)
(***************************************************************************)
UniqueDedup ==
  \A j, k \in server.live :
    LET a == server.job[j]
        b == server.job[k]
    IN  ~ /\ j # k
          /\ a.function = b.function
          /\ a.sub = b.sub
          /\ a.sub # <<>>
          /\ a.sub = UniqueDash => (a.data = b.data /\ a.data # <<>>)

(***************************************************************************)
(* Foreground delivery (spec 5 and 7): a job marked IGNORE, to be dropped  *)
(* unrun, has no client left; a client still registered on a job is owed   *)
(* its result, and job_free drops registrations without sending one.       *)
(***************************************************************************)
IgnoredJobsHaveNoClients ==
  \A j \in server.live :
    server.job[j].ignore => server.job[j].client_list = {}

(***************************************************************************)
(* Adapter rollback (spec 4.2, 4.4): a job creation that fails after       *)
(* queue_add is rolled back with queue_done, so every record the adapter   *)
(* holds belongs to a live QUEUED job.                                     *)
(***************************************************************************)
NoOrphanRecord ==
  \A r \in queue :
    \E j \in server.live : server.job[j].queued /\ QueueRecord(server.job[j]) = r

(***************************************************************************)
(* Replay (spec 4.4 and section 8: K persisted records give exactly K jobs, *)
(* all QUEUED, none re-persisted).  While the restarted broker replays, its *)
(* jobs are the records replay has passed to job_add, one job per record,  *)
(* every one QUEUED, and the adapter still holds exactly the records it    *)
(* held at the crash.  Across the crash this is what makes a job that was  *)
(* QUEUED before it come back after it.                                    *)
(***************************************************************************)
ReplayFaithful ==
  server.replay =>
    /\ pending \subseteq queue
    /\ \A j \in server.live : server.job[j].queued
    /\ Cardinality(server.live) = Cardinality(queue \ pending)
    /\ {QueueRecord(server.job[j]) : j \in server.live} = queue \ pending

(***************************************************************************)
(* No example client is stranded (spec 7: a foreground submitter gets a    *)
(* result or a dropped connection).  A client blocked in gearman_client_do *)
(* has a final frame on its way, or is registered on a live job that a     *)
(* worker holds or that waits on a job list, so that a GRAB_JOB can take   *)
(* it and its WORK_COMPLETE or WORK_FAIL will reach the client.  Job_add's *)
(* client registration, job_take and job_free, the re-queue of a closing   *)
(* worker's job, maxqueue refusals and crashes all bear on it.             *)
(***************************************************************************)
ClientNotStranded ==
  \A c \in Clients :
    cpc[c] = "wait" =>
      \/ \E i \in DOMAIN inbox[c] : inbox[c][i] \in Final
      \/ \E j \in server.live :
           /\ c \in server.job[j].client_list
           /\ server.job[j].worker # NoWorker \/ ListedAt(j) # {}

=============================================================================
