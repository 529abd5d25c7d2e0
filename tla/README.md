# TLA+ models of the SISOP2c query system

This directory holds TLA+ specifications of the Master, Worker, Storage and
Query Control processes in `src/`, and the TLC configurations that check them.
`PROJECT.json` lists:

- the components and how far each is modelled;
- the runs;
- the mutants that show each passing property can fail;
- the map from every definition to the source lines it models;
- the findings;
- the hazards.

## 1. The system

| Part | Source | State it keeps | Operations |
|---|---|---|---|
| Ready Set | `master_sched.c` `master_enqueue_ready`, `master.c` `pop_ready_siguiente` | `g_ready` (a `t_queue`), guarded by `m_ready` and signalled on `c_ready` | enqueue (tail, stamping `last_aging_ms`); pop in FIFO order, or by a priority scan that is stable on ties |
| Scheduler loop | `master.c` `master_scheduler_loop` | locals `q`, `w`, `vict`, `vict_q` | wait and pop; find an idle Worker; assign; or, under PRIORIDADES, pick a victim, send DESALOJAR and park `q` in `vict->next_q`; otherwise re-enqueue and back off 50 ms |
| Aging loop | `master.c` `master_aging_loop`, `master_sched.c` `now_ms` | `q->prioridad`, `q->last_aging_ms` | every 100 ms, under `m_ready`, lower each READY priority by elapsed/threshold, with a floor at 0, keeping the leftover time |
| QC handler | `master_qc.c` | one `t_query` in `g_queries` | admission (READY, enqueue); disconnection (READY→EXIT; EXEC→DESALOJAR and EXIT) |
| Worker handler | `master_worker.c` | one `t_worker` in `g_workers`: `ocupado`, `running_qid`, `next_q` | register; LECTURA relay; FIN; DEVOLVER_PC (re-enqueue, then dispatch `next_q` or free the Worker); disconnection |
| Worker engine | `worker_exec.c`, `worker/master_worker.c` | `g_exec`: `running`, `qid`, `pc`, `preempt`, `touched` | ASIGNAR → `worker_exec_start` (ignored while running); DESALOJAR → set `preempt` if the qid matches; `run()` checks `preempt` at every FETCH, then runs the line; END or an error sends FIN; `running` is cleared last |
| Worker memory | `worker_mem.c` | frames, page table, LRU list or CLOCK-M hand | `ensure_page` (hit, free frame, victim with write-back), `mem_read`, `mem_write`, `mem_flush_file`, `mem_invalidate_from_page`, `mem_flush_touched` |
| Worker Storage client | `worker_storage.c` | one connection | one synchronous request per call: CREATE, TRUNCATE, TAG, COMMIT, DELETE, PUT_BLOCK, GET_BLOCK |
| Storage | `storage.c`, `storage_ops.c`, `storage_protocol.c`, `storage_fs.c` | block bitmap, physical blocks, hard links, tag metadata, MD5 hash index | CREATE, TRUNCATE, PUT_BLOCK (copy on write), COMMIT (MD5 deduplication), TAG, DELETE, one `handle_worker` thread per Worker |
| Query Control | `query_control.c` | one connection | send the path and priority, print LECTURA, exit on FIN |
| Packets | `utils/protocolos.c`, the `add_cstring`/`read_*` helpers of each process | none (byte streams) | `enviar_paquete` writes op_code, size and payload; `recibir_operacion` and `recibir_paquete` read them back; every field is copied in host byte order except QC's strings (`htonl` length, no NUL) |

How the parts interact:

- Each QC and each Worker has its own connection to the Master; each Worker
  also has one connection to Storage.
- Master threads share `g_ready`, `g_workers` and the `t_query` records.
  - The locks `m_ready`, `m_workers` and `m_queries` each guard one container.
  - No lock spans two containers, or a container and a record field.
- Storage threads share the bitmap (`m_bitmap`), the hash index (`m_hashidx`)
  and the files; the metadata and the links have no lock.
- The Master and Workers talk by messages: the Master sends ASIGNAR and
  DESALOJAR; Workers send FIN, DEVOLVER_PC and LECTURA.

## 2. Modules

| Module | Models | State / actions |
|---|---|---|
| `ReadyQueue` | `pop_ready_siguiente` and the victim scan | pure operators `ScanBest`, `PopNext`, `ScanVictim`, `SelectVictim` (RECURSIVE, as the code's loops), and reference definitions `StableMinIndex`, `VictimReference` from spec 4.1 and 4.3 |
| `Wire` | the byte format of every connection | pure operators: `IntBytes`/`BytesInt` (host or network order), the writers `add_cstring`, `paquete_add_string`, `enviar_paquete`, the readers `read_u32`, `read_cstring`, `read_net_string`, `read_block`, `read_data`, `Decode`, `ReadFrame`, `Recv`; the layouts each process writes and reads per op_code; the receiving ends (`master_accept_loop`, `master_handle_worker`, `master_handle_qc`, `handle_worker`, `storage_accept_loop`, `worker_reads_master`, `qc_reads_master`, `worker_reads_storage`) as records interpreted by `Receive` |
| `MCPure` | harness | `ReadyQueue`: every vector of up to `MaxLen` entries, so both scans are compared with their references on every queue and pool; `Wire`: every connection's opening messages and up to `MaxLater` more, over both byte orders |
| `Master` | the Master's three thread kinds | see below |
| `WorkerProc` | a Worker process's control | `exec[w]` mirrors `g_exec`, plus `fin` (`run()` has left its loop and not yet cleared `running`); `ListenAsignar`, `ListenAsignarBusy`, `ListenDesalojar`, `ExecPreempt`, `ExecLine`, `ExecFinish`, `ExecEof` (a script with no END runs out of lines; the queries in `NoEnd`), `ExecEnd`, `Start`, `Crash` |
| `Cluster` | Master + Workers | instances of `Master` and `WorkerProc` over shared channels, with the environment actions `WorkerJoin`, `WorkerDies`, `ClientLeaves` |
| `MCCluster` | harness | Worker symmetry set |
| `Aging` | aging loop vs scheduler retry | see below |
| `MCAging` | harness | two queries with submitted priorities 3 and 1 |
| `Store` | what Storage promises | one map from File:Tag to (block data, COMMITED); each request one atomic change |
| `Storage` | the Storage server | see below |
| `MCStorage` | harness | request subsets (`NoDelete`, `AllRequests`) and `NoDeleteSpec` |
| `StorageRestart` | the Storage process's end and next start | `Storage` plus `hidxDisk` (the saved `blocks_hash_index.config`) and `restarts`; `Crash`, `Sigint`, `fs_mount_or_format`, `format`, `open_bitmap`, `open_hashindex`, `hi_sync`, `storage_free_config` |
| `MCStorageRestart` | harness | the tags of `MCStorage`; `KillNext` (restarts after a kill, no SIGINT) |
| `WorkerMem` | Worker page cache + its Storage thread | see below |
| `MCWorkerMem` | harness | tags `{Base, A}` |

### Master

- `estado`, `prioridad`, `pc`, `workerFd` mirror the `t_query` fields; `ready`
  is `g_ready`; `pool` is `g_workers` with `ocupado`, `running`, `nextQ`;
  `sched` is the scheduler's program point and locals; `toWorker`,
  `toMaster` are the connections; `qcConn`, `qcFin` the client side.
- One action per handler (`QcSubmit`, `QcDisconnect`, `RegisterWorker`,
  `OnFin`, `OnDevolverPc`, `OnWorkerEof`), and one per scheduler section
  between lock releases or sends (`SchedPop`, `SchedHang`, `SchedFindIdle`,
  `SchedNoIdle`, `SchedVictim`, `SchedPreempt`, `SchedPark`, `SchedAssign`).
- DEVOLVER_PC is two actions: `OnDevolverPc` stores the pc and calls
  `master_enqueue_ready` (lines 108-118), `DevolverHandOff` then reads
  `next_q` and sets `ocupado`, `running_qid` (lines 120-132). `hstep[w]` is
  the handler thread's position between them; nothing locks the window, so
  the scheduler runs in it. The other handler steps are atomic: each is one
  such section with no other thread's step depending on a point inside it
  (hazard at `master_qc.c:54` for the QC handler).
- Connections are FIFO sequences; a send to a dead Worker is lost; a dying
  Worker's connection delivers what it had sent, then EOF.
- Scripts have `ScriptLen` lines, the last END unless the query is in
  `NoEnd`; each other line succeeds or fails (FIN). A script with no END runs
  out of lines and `run()` leaves its loop with nothing sent (`ExecEof`).
- `RelockBlocks` is the undefined behaviour of `pop_ready_siguiente`
  relocking the `m_ready` the loop already holds: `TRUE` is glibc (the thread
  blocks forever), `FALSE` the intended logic. Only `hang` uses `TRUE`, so the
  other bugs are not masked by this one.

### Aging

- Time is discrete: one unit is 50 ms (the scheduler back-off); the aging
  thread sleeps `AgingPeriod` units. `now` is real time; `wall` is what
  `now_ms()` returns (TIME_UTC), kept modulo `ClockWrap` (the `uint64`,
  scaled down), and `StepBack` sets it back once by a member of `ClockSteps`.
- `AgeOne` is one entry of the aging pass: `uint64` elapsed, steps =
  elapsed / `TIEMPO_AGING`, floor 0, `last_aging_ms += steps * TIEMPO_AGING`.
  `AgingPass` applies it to all of `g_ready` under `m_ready`.
- The scheduler is projected onto a pool of one busy Worker running a query of
  priority `RunPrio`: `SchedPop` (via `ReadyQueue!PopNext`), `SchedDecide`
  (preempt if the runner is worse, else re-enqueue with
  `master_enqueue_ready` and sleep), `SchedWake`.
- `Tick` advances time only when no thread can run now; history variables
  `stamp`, `base`, `seen`, `readySince` record each query's last enqueue, its
  priority then, the last pass that saw it, and its submission.

### Storage

- `bitmap`, `content` (one value per physical block; a block's MD5 is its
  content), `links` (the hard links of `logical_blocks/`), `meta` (`BLOCKS`
  and `ESTADO`), `hidx` (the hash index), `th` (each `handle_worker`
  thread's program point and locals).
- An operation is a sequence of steps: `Op*` loads the metadata and takes the
  first step; `CreateSave`, `TruncShrink`, `PutFind`/`PutCow`/`PutWrite`,
  `CommitLook`/`CommitApply`, `TagLink`, `DeleteLoop`/`DeleteRm` and `Save`
  follow, and other threads run between any two. Only `bm_find_free`/`bm_set`
  and the hash index take a lock, each for one call.
- `IoFails` lets `write_physical`/`read_physical` fail; `TagOverwrite` allows
  TAG onto an existing destination; `Requests` restricts what a Worker sends.
- `StoreView` reads every tag the way `op_get_block` does; `Abs == INSTANCE
  Store WITH store <- StoreView` and `AbsSpec` is checked as a PROPERTY:
  Storage refines `Store`.

### StorageRestart

`StorageRestart` extends `Storage` with what happens to the process. The
bitmap (mmap'ed `MAP_SHARED`), block files, link files and metadata files
are written by their own system calls and survive the process; the hash
index is a `t_config` in memory that reaches its file only through
`config_save` (`hidxDisk`). `Crash` is a kill at any point between two
steps of `Storage`: the threads vanish and the next start loads the last
saved index. `Sigint` is `sigint_handler`: `hi_sync` (and
`storage_free_config`) save the index as it is, then `_exit`. Either way
`fs_mount_or_format` runs next: with `FRESH_START` it wipes and re-creates
everything (`format`); without it, `open_bitmap` and `open_hashindex` take
the files as they are and nothing is checked or repaired. `MaxRestarts`
bounds the restarts.

### WorkerMem

- Composes one Worker's page cache with the Storage model through
  `S == INSTANCE Storage`, served by one thread `Srv`.
- `frames` is `g_by_frame` (page, dirty, ref bit), `mem` is `g_mem`, `lru` is
  `g_lru`, `hand` is `g_clk_hand`, `touched` is `g_exec.touched`, `w` is
  `run()`'s current instruction; `wv` (history) is the last value WRITE put in
  each page.
- A request is sent with `S!Op*(Srv, ...)` and the Worker waits until `Srv` is
  idle again (`RpcDone`); GET_BLOCK changes nothing and is read in the step
  that needs it, its error reply copied as `Junk` (`memcpy` over the reply).
- Actions: `AccessHit`, `AccessLoad`, `AccessEvictDirty` (PUT_BLOCK, then
  `EvictDone`), `AccessEvictClean`, `FlushTarget`/`FlushPut`/`FlushWait`/
  `FlushEnd` (FLUSH, COMMIT, DELETE and the preemption flush), `Preempt`,
  `EndQuery`, `ReadWrite`, `FlushFirst`, `Direct` (CREATE, TRUNCATE, TAG),
  `RpcDone` (with `Drop` for `mem_invalidate_from_page`), `StorageStep`.
- `Finish` ends a READ or WRITE: `mem_write` marks the frame dirty and
  `touched_add` records the tag; `Load` is the miss path's
  `storage_get_block` and `memcpy` into the chosen frame.
- `ClockScan` is the CLOCK-M victim search (RECURSIVE): a single-round
  second chance, clearing the reference bit of each frame the hand passes
  and stopping at the first free frame or frame with no reference bit; the
  dirty bit plays no part in the choice.

### Wire

- A message is `[op, f]`; a field is `[k, n, s]`, with `k` naming the helper
  that writes it. `Stream` is the bytes `enviar_paquete` puts on the socket.
- A receiving end is a record: the op_code its accept loop reads alone
  (`master.c:54`, `storage.c:387`), the op_code its handler must read first
  (`master_handle_worker`, `master_handle_qc`, the Worker's handshakes;
  `AnyOp` for Query Control, which reads whatever frame comes first and only
  logs an op_code other than MASTER_ACK), and
  the layouts of its loop. `Receive` reads in the order the code's calls do,
  so a byte the code leaves unread is read by the next call.
- A read past the end of a payload (the code's `memcpy` does not check)
  gives a field with `ok = FALSE`; a size the stream does not hold is a recv
  that never returns (`Hung`).
- Connections `QcToMaster`, `WorkerToMaster` and `WorkerToStorage` start at
  the accept loop; their `...Session` variants start where the handler starts
  reading, as if the handshake frame had been consumed whole.

### Mutants

Operators named like `ScanBestLastTie`, `SchedParkNoContinue`,
`AgeOneSnap`, `AgeOneNoFloor`, `ClockScanNoWrap`, `AccessEvictDirtyNoPut`,
`CommitApplyKeepMeta`, `FindFreeOffByOne`, `add_cstring_strlen` are plausible bugs of the code next
to them. Each replaces a mapped definition to show that a property can fail;
none is part of any specification.

## 3. Runs

### Passing runs

| Run | Bounds | Checks | Shows |
|---|---|---|---|
| `pure` | `MaxLen=4`, `MaxPrio=2`; 5 connections, both byte orders, 2 messages after the opening ones, u32 values {0, 258}, strings {"", "A"}, 2-byte blocks | `PopIsStableMin`, `VictimIsLastWorst`, `FramesRoundTrip` | the scans meet spec 4.1 and 4.3, ties included; every message of the Master-Worker, Worker-Storage and QC-to-Master sessions, read by the handlers from their first read after the handshake, is read back as written, alone and back to back (14k states); the accept loops and the Master-to-QC connection are not in this run (see the reproductions below) |
| `cluster2w` | 2 Workers, 2 queries (query 0's script is END alone, query 1's one line and no END), PRIORIDADES, crashes and disconnects, `FairSpec` | `TypeOK`, `MutualExclusion`, `NoDoubleExecution`, `SchedulerProgress` | no query is in two places (the stale `running_qid` of a handler inside DEVOLVER_PC's window aside) or runs on two Workers through preemption chains, crashes and disconnects; apart from the relock, a ready query and an idle Worker never coexist forever (309k states) |
| `aging` | 2 queries (3 and 1), `TIEMPO_AGING`=150 ms, clock wraps at 16 units and steps back 150 ms, 600 ms | `TypeOK`, `AgingExact` | while the clock runs forward, a READY priority is exactly its enqueue priority less one per whole threshold seen, however passes and retries interleave (1.44M states) |
| `storage_seq` | 1 thread, 3 tags, 4 blocks, 2 payloads, no DELETE | `TypeOK`, `AllocationSound`, `HashIndexSound`, `AbsSpec` | the bitmap matches the link counts, the index names live blocks, and Storage refines `Store` (151k states) |
| `workermem` | 2 frames, CLOCK-M, 2 tags of ≤2 blocks, one payload; every request type, but TAG only onto new names, no I/O failures, no restart | `TypeOK`, `NoLostWrite`, `LinksMatchMeta` | a value WRITE put in a page Storage accepts is, at every FETCH, in a dirty frame or in Storage, across evictions, flushes, TRUNCATE, TAG, COMMIT and DELETE; the links stay consistent under those requests (TAG onto an existing name, I/O failures and restarts break them: see `MCStorage_tagover.cfg`, `MCStorage_commitio.cfg`, `MCStorageRestart_kill.cfg`) |

### Violation runs

Each is a finding in `PROJECT.json`.

| Run | Property | What the code does |
|---|---|---|
| `hang` | `SchedulerProgress` | with glibc, the scheduler hangs holding `m_ready` on its first pop |
| `lostquery` | `NoLostQuery` | a second preemption of the same Worker overwrites `next_q` |
| `exitfinal` | `ExitIsFinal` | a query cancelled while READY is still popped and set EXEC |
| `asignar` | `MasterViewMatchesWorker` | ASIGNAR dispatched on DEVOLVER_PC arrives before `run()` clears `running` and is dropped |
| `aging_starve` | `AgingBoundsWait` | the back-off re-enqueue restamps `last_aging_ms`, so the query at the head never ages |
| `storage_dedupstale` | `AbsSpec` | DELETE frees a block the hash index still names; a later COMMIT deduplicates onto it |
| `storage_race` | `WriteNotClobbered` | `bm_find_free` and `bm_set` are separate critical sections; two PUT_BLOCKs take the same block |

### Reproduction configurations

These are kept on disk, outside the run list, for hazards in `PROJECT.json`
whose notes name them:

| Config | Shows |
|---|---|
| `MCCluster_prio1w.cfg`, `MCCluster_fifo2w.cfg`, `MCCluster_progress.cfg` | the safety and liveness of `cluster2w` split by algorithm and pool size (1 Worker / 3 queries; FIFO) |
| `MCCluster_mutex.cfg` | `MutualExclusionStale`: counting the `running_qid` of a handler between `master_enqueue_ready` and line 121, a preempted query is in `g_ready` and on its old Worker together |
| `MCCluster_noend.cfg` | `QueryLeavesExec`: a script with no END line leaves `run()`'s loop at EOF with nothing sent, and the query stays EXEC with its Worker busy forever; with `NoEnd = {}` the same configuration passes |
| `MCCluster_parked.cfg` | `ParkedOnBusyWorker`: DESALOJAR is sent before parking, so the checkpoint may free the Worker first |
| `MCCluster_fifo.cfg` | `FifoOrder`: the FIFO back-off re-enqueues at the tail |
| `MCCluster_finexit.cfg` | `FinMeansExit`: a Worker disconnect sends FIN but leaves the query EXEC |
| `MCAging_clockback.cfg` | `AgingNoFasterThanTime`: after the clock steps back, the `uint64` elapsed wraps and a priority drops to 0 |
| `MCStorage_tagover.cfg` | `AbsSpec` with TAG onto an existing tag: the old links are not removed |
| `MCStorage_lostupdate.cfg` | `AbsSpec` with two threads: metadata loaded by one and saved after the other's save loses an update |
| `MCStorage_ioleak.cfg` | `AllocationSound` with I/O errors: a failed `write_physical` after `bm_set` leaks the block |
| `MCStorage_commitio.cfg` | `LinksMatchMeta`: a `read_physical` failure in the middle of COMMIT leaves links and metadata apart |
| `MCWorkerMem_dedup.cfg` | `NoLostWrite` with two payloads: DELETE frees a committed block and leaves its md5 in the index, the block is reused with the other payload, and a later COMMIT dedups the Worker's flushed page onto it, so the WRITE is lost (the `storage_dedupstale` bug seen from the Worker) |
| `MCStorage_seqdel.cfg` | `LinksMatchMeta` with DELETE, one thread (passes) |
| `MCWorkerMem_lru.cfg` | the `workermem` check under LRU (passes) |
| `MCWorkerMem_junk.cfg` | `MissingPageReadsZero`: a READ past a tag's end loads the error reply as data |
| `MCPure_WorkerToMaster.cfg`, `MCPure_QcToMaster.cfg` | `FramesRoundTrip` from the Master's accept loop: it reads the handshake's op_code but not its size, the handler reads that 0 as the next op_code and closes, so no Worker registers and no query arrives |
| `MCPure_WorkerToStorage.cfg` | `FramesRoundTrip` from the Storage's accept loop: `handle_worker` reads the handshake's 0 size as op_code 0 and drops the Worker |
| `MCPure_MasterToQc.cfg` | `FramesRoundTrip` on a little-endian host: QC reads `add_cstring`'s host-order length with `ntohl` (1 becomes 16777216) and over-reads; the same connection passes on big-endian hosts |
| `MCStorageRestart_kill.cfg` | `AbsSpec` after one kill without `FRESH_START`: a TAG killed before its `meta_save` leaves link files with no metadata; a later TAG onto the same name keeps the stale link, so `physical_refcount` undercounts and an in-place PUT_BLOCK on the source changes the destination's data |
| `MCStorageRestart_sigint.cfg` | `HashIndexSound` after SIGINT in the middle of a COMMIT: `hi_sync` saves the entry of a block whose tag never became COMMITED, and a TRUNCATE after the restart frees that block |
| `MCWorkerMem_lostwrite.cfg` | `NoLostWrite` with scripts that WRITE a COMMITED tag or past its end: the PUT_BLOCK is refused and the write is lost silently |

### Bounds

- Cluster: two Workers, two queries, priorities {0, 1}, 2-line scripts
  (1-line in `cluster2w`, where a preemption after query 1's line still
  resumes at pc 1, and 2 lines with the DEVOLVER_PC window exceed the time
  budget). Two
  queries compete for a Worker, a preemption can follow another, and two
  Workers race on one query; every Cluster bug needs at most three queries and
  one Worker. `NQueries` bounds `nextQid`, which bounds the channels.
- Aging: `TIEMPO_AGING` 3 units with passes every 2 means passes fall both on
  and off threshold boundaries; 12 units give up to four thresholds, more than
  the priority 3 can lose; the wrap at 16 is reached from any initial `wall`.
- Storage: 4 physical blocks with block 0 reserved leave 3, enough for two
  tags of two blocks to share one by TAG and need a copy on write; two
  payloads let COMMIT both deduplicate and not.
- StorageRestart: the Storage bounds with one thread and `MaxRestarts` 1.
  One restart stops a request half-way, and both findings need only that.
- WorkerMem: two frames over two tags of two pages force eviction with
  write-back. One payload shows a write lost (`Zeros` differs from it) but
  not an older value put back in place of a newer one; two payloads reach
  the stale-index bug through DELETE (`MCWorkerMem_dedup.cfg`), so no
  passing run with every request can use them.

- Wire: 258 has two different non-zero bytes, so a swapped byte order shows;
  the empty string is the edge of every length; two messages after the
  opening ones make every frame boundary a boundary between two frames.

### Fairness

`FairSpec` (Cluster) puts weak fairness on the scheduler step, each Worker's
Master-side handler, each Worker's listener and each Worker's `run()` thread:
each is a dedicated thread looping and blocking only on its own input.
Clients, Worker arrivals and crashes are the environment and get none. In
`Aging`, the rule that time advances only when no thread can run now stands
for the same fairness of the aging and scheduler threads.

`CHECK_DEADLOCK FALSE` is used because every bounded environment ends: once
every query has finished, or time reached `MaxTime`, nothing can move.

### Coverage

Every action and disjunct of the passing runs' next-state relations fires,
except `SchedHang`, which fires only in `hang`.

### Findings kept outside the run list

The twelve runs are spent on the findings above, so the wire-format defects
are shown by the reproduction configurations of `MCPure` and listed as
hazards: the accept loops of the Master (`master.c:54`) and of Storage
(`storage.c:387`) leave the handshake's size field unread, which breaks every
connection at its first message, and QC reads the Master's strings in the
wrong byte order on little-endian hosts (`master_sched.c:48`).

For the same reason the restart findings are shown by the reproduction
configurations of `MCStorageRestart`. A restart without `FRESH_START`
performs no recovery (`storage.c:299`), so a kill in the middle of any
request leaves links and metadata that disagree, and the Store's promise
fails later. SIGINT is the documented way to stop Storage, and it saves the
index entries of a COMMIT that has not finished (`storage.c:306`). With
`FRESH_START` every restart wipes the store, which keeps every invariant and
loses all data by design. No property holds across a restart without
`FRESH_START` that would justify a passing run.

DEVOLVER_PC re-enqueues the preempted query (`master_worker.c:118`) before
it updates the Worker (121-131), with no lock across the two: `MutualExclusion`
leaves that stale slot out and holds in `cluster2w`; `MCCluster_mutex.cfg`
counts it and shows the overlap.

A query script with no END line (`worker_exec.c:103`) is in `cluster2w`, whose
safety properties and `SchedulerProgress` hold with it; `MCCluster_noend.cfg`
shows the query never leaving EXEC (`QueryLeavesExec`), because `run()` sends
neither WORKER_FIN nor WORKER_DEVOLVER_PC when `getline` reaches EOF.

## 4. Not modelled

- **Partial reads and socket setup.** `Wire` takes every `recv` as returning
  all it asks for; segment boundaries are the kernel's choice. `conexiones.c`
  (`getaddrinfo`, `socket`, `bind`, `connect`, `accept`) has no state the
  protocol reads. `recibir_paquete` after a failed `recv` uses an
  uninitialised size; no outcome of that can be enumerated.
- **Id wrap.** `qid` wrapping onto the `0xFFFFFFFF` sentinel needs 2^32 queries.
- **SIGPIPE.** A send to a closed socket may kill the Master; the Master does
  not crash in the model.
- **Crashes inside a Storage step and power loss.** `StorageRestart` ends
  the process between two steps of `Storage`. A kill between `bm_set` and
  `replace_hardlink` inside one step only adds more leaks. Page-cache writes
  lost on power failure (no `fsync`) are not modelled. The SIGINT handler
  taking `m_hashidx` and destroying `g_bitmap` while other threads run
  (`storage.c:115`) happens inside a step and is listed as a hazard only.
- **The double free** in `worker_mem.c:112` is heap corruption; `WorkerMem`
  follows the intended logic.
- **Configuration loading** (`storage_load_config` and the others), logging and `main`'s thread start-up.
- **TAG over a cached page** (`worker_exec.c:176`): the composition runs it,
  but no property says what a READ after TAG must return, since the spec does
  not say.
- **Instruction parsing and LECTURA content**: only their effect on state is
  modelled.

The hazards in `PROJECT.json` that have no property carry a note saying why.
