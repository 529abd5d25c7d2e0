------------------------------ MODULE WorkerMem ------------------------------
(***************************************************************************)
(* One Worker's page cache (worker_mem.c) composed with the Storage server *)
(* thread that serves its connection (Storage, one handle_worker thread).  *)
(* The Worker's run() thread executes the instructions that reach memory   *)
(* or Storage (worker_exec.c): READ and WRITE through ensure_page, FLUSH,  *)
(* COMMIT and DELETE after mem_flush_file, TRUNCATE with                   *)
(* mem_invalidate_from_page, CREATE, TAG, the preemption flush of the      *)
(* touched set, and the end of a query.  A page is one Storage block.      *)
(* Every Storage request (worker_storage.c) is sent when the thread is     *)
(* idle and answered when it is idle again; GET_BLOCK changes nothing and  *)
(* is read in the step that needs it.                                      *)
(***************************************************************************)
EXTENDS Integers, Sequences, SequencesExt, FiniteSets

CONSTANTS
    Threads, Tags, Base, NBlocks, MaxBlocks, Payloads, Zeros, Nul, Requests,
    TagOverwrite, IoFails, NoBlock, NoMeta,   \* the Storage model's
    Srv,          \* the handle_worker thread of this Worker's connection
    NFrames,      \* TAM_MEMORIA / BLOCK_SIZE
    Algo,         \* "LRU" or "CLOCK-M"
    ValidWrites,  \* scripts WRITE only pages Storage would accept
    NoPage,       \* g_by_frame[i] == NULL
    Junk,         \* what memcpy copies out of an error reply
    None          \* no write to remember

VARIABLES
    bitmap, content, links, meta, hidx, th,   \* the Storage model's
    frames,       \* g_by_frame: NoPage or [t, p, dirty, ref]
    mem,          \* g_mem, one value per frame
    lru,          \* g_lru, frames from least to most recently used
    hand,         \* g_clk_hand
    touched,      \* g_exec.touched
    w,            \* run(): the instruction being executed and its locals
    wv            \* history: the last value WRITE put in each page

svars == <<bitmap, content, links, meta, hidx, th>>
mvars == <<frames, mem, lru, hand>>
vars == <<svars, mvars, touched, w, wv>>

S == INSTANCE Storage

Frames == 0..(NFrames - 1)
Logical == S!Logical
Fetch == [pc |-> "fetch", ins |-> "NONE", t |-> Base, p |-> 0, v |-> Nul, n |-> 0,
          ok |-> TRUE, f |-> 0, k |-> 0, set |-> {}]
Page(t, p, d) == [t |-> t, p |-> p, dirty |-> d, ref |-> TRUE]
Holds(f, t, p) == frames[f] # NoPage /\ frames[f].t = t /\ frames[f].p = p

\* storage_get_block: the block's data; an error reply has the same opcode,
\* so memcpy copies BLOCK_SIZE bytes out of a 4-byte status: never NULL.
storage_get_block(t, p) ==
    IF meta[t] # NoMeta /\ p < Len(meta[t].blocks) THEN S!GetBlock(t, p) ELSE Junk

\* ensure_page's first loop: the lowest free frame, or -1.
FreeFrame == IF \E f \in Frames : frames[f] = NoPage
             THEN Min({f \in Frames : frames[f] = NoPage}) ELSE -1

\* The CLOCK-M loop: clear ref bits from the hand on until a frame with no
\* ref bit (or a free one) is found; the hand passes a victim, not a hole.
\* ClockScanNoWrap is a mutant for the checks: the hand is not taken modulo
\* g_frames.
RECURSIVE ClockScanNoWrap(_, _)
ClockScanNoWrap(fr, h) ==
    IF fr[h] = NoPage THEN [frame |-> h, hand |-> h, fr |-> fr]
    ELSE IF fr[h].ref THEN ClockScanNoWrap([fr EXCEPT ![h].ref = FALSE], (h + 1) % NFrames)
    ELSE [frame |-> h, hand |-> h + 1, fr |-> fr]

RECURSIVE ClockScan(_, _)
ClockScan(fr, h) ==
    IF fr[h] = NoPage THEN [frame |-> h, hand |-> h, fr |-> fr]
    ELSE IF fr[h].ref THEN ClockScan([fr EXCEPT ![h].ref = FALSE], (h + 1) % NFrames)
    ELSE [frame |-> h, hand |-> (h + 1) % NFrames, fr |-> fr]

\* The victim of a miss with no free frame: the head of g_lru, or the
\* frame the clock stops at, with the ref bits the clock cleared.
Victim == IF Algo = "LRU" THEN [frame |-> Head(lru), hand |-> hand, fr |-> frames]
          ELSE ClockScan(frames, hand)

\* LRU bookkeeping of a hit (move to the tail) and of a load (append).
Touch(f) == IF Algo = "LRU" THEN Append(SelectSeq(lru, LAMBDA g : g # f), f) ELSE lru
Forget(fs) == SelectSeq(lru, LAMBDA g : g \notin fs)

Init ==
    /\ S!Init
    /\ frames = [f \in Frames |-> NoPage]
    /\ mem = [f \in Frames |-> Zeros]
    /\ lru = <<>>
    /\ hand = 0
    /\ touched = {}
    /\ w = Fetch
    /\ wv = [t \in Tags |-> [p \in Logical |-> None]]
-----------------------------------------------------------------------------
\* touched_add: "file:tag" joins g_exec.touched unless it is already there.
touched_add(t) == touched \cup {t}

(* The end of a READ or WRITE once ensure_page has put the page in frame f *)
(* (frames fr, memory m): mem_write copies into the frame, marks it dirty  *)
(* and run() adds the file:tag to touched; mem_read only copies out.       *)
Finish(f, fr, m) ==
    /\ w' = Fetch
    /\ \/ /\ w.ins = "WRITE"
          /\ frames' = [fr EXCEPT ![f].dirty = TRUE]
          /\ mem' = [m EXCEPT ![f] = w.v]
          /\ touched' = touched_add(w.t)
          /\ wv' = [wv EXCEPT ![w.t][w.p] = w.v]
       \/ /\ w.ins = "READ"
          /\ frames' = fr /\ mem' = m
          /\ UNCHANGED <<touched, wv>>

\* The miss path after a frame is free: storage_get_block, memcpy into the
\* frame, a new t_page (clean, referenced) and, under LRU, list_add.
Load(f, fr, h, l) ==
    /\ Finish(f, [fr EXCEPT ![f] = Page(w.t, w.p, FALSE)],
              [mem EXCEPT ![f] = storage_get_block(w.t, w.p)])
    /\ lru' = IF Algo = "LRU" THEN Append(l, f) ELSE l
    /\ hand' = h

(* ensure_page, hit: move the page to the tail of g_lru, or set its ref    *)
(* bit under CLOCK-M.                                                      *)
AccessHit ==
    /\ w.pc = "access"
    /\ \E f \in Frames :
        /\ Holds(f, w.t, w.p)
        /\ Finish(f, IF Algo = "LRU" THEN frames ELSE [frames EXCEPT ![f].ref = TRUE], mem)
        /\ lru' = Touch(f)
    /\ UNCHANGED <<svars, hand>>

Missing == ~\E f \in Frames : Holds(f, w.t, w.p)

(* ensure_page, miss with a free frame.                                    *)
AccessLoad ==
    /\ w.pc = "access" /\ Missing /\ FreeFrame >= 0
    /\ Load(FreeFrame, frames, hand, lru)
    /\ UNCHANGED svars

\* Mutant for the checks: the victim is dropped without storage_put_block.
AccessEvictDirtyNoPut ==
    LET v == Victim
        pg == v.fr[v.frame]
    IN /\ w.pc = "access" /\ Missing /\ FreeFrame = -1
       /\ pg.dirty
       /\ Load(v.frame, [v.fr EXCEPT ![v.frame] = NoPage], v.hand, Forget({v.frame}))
       /\ UNCHANGED svars

(* ensure_page, miss with memory full: a dirty victim is written back with *)
(* storage_put_block (its status ignored) before its frame is reused...    *)
AccessEvictDirty ==
    LET v == Victim
        pg == v.fr[v.frame]
    IN /\ w.pc = "access" /\ Missing /\ FreeFrame = -1
       /\ pg.dirty
       /\ S!OpPut(Srv, pg.t, pg.p, mem[v.frame])
       /\ frames' = v.fr /\ hand' = v.hand /\ lru' = Forget({v.frame})
       /\ w' = [w EXCEPT !.pc = "evict_wait", !.f = v.frame]
       /\ UNCHANGED <<mem, touched, wv>>

(* ...a clean one is dropped and the page loaded in its place at once.     *)
AccessEvictClean ==
    LET v == Victim
        pg == v.fr[v.frame]
    IN /\ w.pc = "access" /\ Missing /\ FreeFrame = -1
       /\ ~pg.dirty
       /\ Load(v.frame, [v.fr EXCEPT ![v.frame] = NoPage], v.hand, Forget({v.frame}))
       /\ UNCHANGED svars

EvictDone ==
    /\ w.pc = "evict_wait" /\ th[Srv].pc = "idle"
    /\ Load(w.f, [frames EXCEPT ![w.f] = NoPage], hand, lru)
    /\ UNCHANGED svars

-----------------------------------------------------------------------------
(* mem_flush_file over the tags in w.set (mem_flush_set for a preemption):  *)
(* each dirty frame of them, in frame order, is sent with storage_put_block *)
(* and marked clean whatever the reply.                                     *)
FlushTarget == {f \in Frames : f >= w.k /\ frames[f] # NoPage
                               /\ frames[f].t \in w.set /\ frames[f].dirty}

FlushPut ==
    /\ w.pc = "flush" /\ FlushTarget # {}
    /\ LET f == Min(FlushTarget) IN
       /\ S!OpPut(Srv, frames[f].t, frames[f].p, mem[f])
       /\ w' = [w EXCEPT !.pc = "flush_wait", !.f = f]
    /\ UNCHANGED <<mvars, touched, wv>>

FlushWait ==
    /\ w.pc = "flush_wait" /\ th[Srv].pc = "idle"
    /\ frames' = [frames EXCEPT ![w.f].dirty = FALSE]
    /\ w' = [w EXCEPT !.pc = "flush", !.k = w.f + 1]
    /\ UNCHANGED <<svars, mem, lru, hand, touched, wv>>

(* After the flush: FLUSH is done; a preemption sends DEVOLVER_PC and run() *)
(* clears touched; COMMIT and DELETE send their request.  op_commit answers *)
(* STATUS_OK for a tag already COMMITED, so only a missing tag fails it.    *)
FlushEnd ==
    /\ w.pc = "flush" /\ FlushTarget = {}
    /\ \/ w.ins = "FLUSH" /\ w' = Fetch /\ UNCHANGED <<svars, touched>>
       \/ w.ins = "PREEMPT" /\ w' = Fetch /\ touched' = {} /\ UNCHANGED svars
       \/ w.ins = "COMMIT" /\ S!OpCommit(Srv, w.t) /\ UNCHANGED touched
          /\ w' = [w EXCEPT !.pc = "rpc", !.ok = meta[w.t] # NoMeta]
       \/ w.ins = "DELETE" /\ S!OpDelete(Srv, w.t) /\ UNCHANGED touched
          /\ w' = [w EXCEPT !.pc = "rpc", !.ok = w.t # Base /\ meta[w.t] # NoMeta]
    /\ UNCHANGED <<mvars, wv>>
-----------------------------------------------------------------------------
(* run() fetches the next line.  A pending DESALOJAR is seen first and     *)
(* flushes the touched set; otherwise the instruction runs.  Scripts may   *)
(* be any sequence of these instructions over small sets of names.         *)
Preempt ==
    /\ w.pc = "fetch"
    /\ w' = [Fetch EXCEPT !.pc = "flush", !.ins = "PREEMPT", !.set = touched]
    /\ UNCHANGED <<svars, mvars, touched, wv>>

\* END sends FIN(OK); run() ends and clears touched.  The same happens when
\* an instruction's arguments are rejected before anything is sent.
EndQuery ==
    /\ w.pc = "fetch"
    /\ touched' = {}
    /\ UNCHANGED <<svars, mvars, w, wv>>

ReadWrite ==
    /\ w.pc = "fetch"
    /\ \E t \in Tags, p \in Logical :
        \/ w' = [Fetch EXCEPT !.pc = "access", !.ins = "READ", !.t = t, !.p = p]
        \/ /\ ValidWrites => (S!Writable(t) /\ p < Len(meta[t].blocks))
           /\ \E v \in Payloads :
                w' = [Fetch EXCEPT !.pc = "access", !.ins = "WRITE", !.t = t, !.p = p, !.v = v]
    /\ UNCHANGED <<svars, mvars, touched, wv>>

\* FLUSH, and the implicit flush of COMMIT and DELETE.
FlushFirst ==
    /\ w.pc = "fetch"
    /\ \E t \in Tags, ins \in {"FLUSH", "COMMIT", "DELETE"} :
        w' = [Fetch EXCEPT !.pc = "flush", !.ins = ins, !.t = t, !.set = {t}]
    /\ UNCHANGED <<svars, mvars, touched, wv>>

\* CREATE, TRUNCATE and TAG send their request straight away; the reply's
\* status is what the Storage thread decides when it takes the request.
Direct ==
    /\ w.pc = "fetch"
    /\ \E t \in Tags :
        \/ /\ S!OpCreate(Srv, t)
           /\ w' = [Fetch EXCEPT !.pc = "rpc", !.ins = "CREATE", !.t = t, !.ok = meta[t] = NoMeta]
        \/ \E n \in 0..MaxBlocks :
           /\ S!OpTruncate(Srv, t, n)
           /\ w' = [Fetch EXCEPT !.pc = "rpc", !.ins = "TRUNCATE", !.t = t, !.n = n,
                                 !.ok = S!Writable(t)]
        \/ \E src \in Tags :
           /\ S!OpTag(Srv, src, t)
           /\ w' = [Fetch EXCEPT !.pc = "rpc", !.ins = "TAG", !.t = t, !.ok = meta[src] # NoMeta]
    /\ UNCHANGED <<mvars, touched, wv>>

\* Frames of tag t holding page first or later are released with no flush
\* (mem_invalidate_from_page; mem_drop_file is first = 0).
Drop(t, first) ==
    LET fs == {f \in Frames : frames[f] # NoPage /\ frames[f].t = t /\ frames[f].p >= first}
    IN /\ frames' = [f \in Frames |-> IF f \in fs THEN NoPage ELSE frames[f]]
       /\ lru' = Forget(fs)

(* The reply.  An error status sends FIN and ends the query.  A TRUNCATE  *)
(* that succeeded invalidates the pages past the new size, a DELETE drops *)
(* every page of the tag; the tag's remembered writes go with them, and   *)
(* with a TAG onto it.                                                    *)
RpcDone ==
    /\ w.pc = "rpc" /\ th[Srv].pc = "idle"
    /\ w' = Fetch
    /\ \/ /\ ~w.ok
          /\ touched' = {}
          /\ UNCHANGED <<frames, lru, wv>>
       \/ /\ w.ok /\ w.ins \in {"CREATE", "COMMIT"}
          /\ UNCHANGED <<frames, lru, touched, wv>>
       \/ /\ w.ok /\ w.ins = "TAG"
          /\ wv' = [wv EXCEPT ![w.t] = [p \in Logical |-> None]]
          /\ UNCHANGED <<frames, lru, touched>>
       \/ /\ w.ok /\ w.ins = "TRUNCATE"
          /\ Drop(w.t, w.n)
          /\ wv' = [wv EXCEPT ![w.t] = [p \in Logical |-> IF p >= w.n THEN None ELSE @[p]]]
          /\ UNCHANGED touched
       \/ /\ w.ok /\ w.ins = "DELETE"
          /\ Drop(w.t, 0)
          /\ wv' = [wv EXCEPT ![w.t] = [p \in Logical |-> None]]
          /\ UNCHANGED touched
    /\ UNCHANGED <<svars, mem, hand>>

StorageStep ==
    /\ S!Serve(Srv)
    /\ UNCHANGED <<mvars, touched, w, wv>>

Next ==
    \/ Preempt \/ EndQuery \/ ReadWrite \/ FlushFirst \/ Direct
    \/ AccessHit \/ AccessLoad \/ AccessEvictDirty \/ AccessEvictClean \/ EvictDone
    \/ FlushPut \/ FlushWait \/ FlushEnd \/ RpcDone
    \/ StorageStep

Spec == Init /\ [][Next]_vars

-----------------------------------------------------------------------------
PCs == {"fetch", "access", "evict_wait", "flush", "flush_wait", "rpc"}

TypeOK ==
    /\ frames \in [Frames -> {NoPage} \cup [t : Tags, p : Logical, dirty : BOOLEAN, ref : BOOLEAN]]
    /\ mem \in [Frames -> Payloads \cup {Zeros, Nul, Junk}]
    /\ lru \in BoundedSeq(Frames, NFrames)
    /\ hand \in Frames
    /\ touched \subseteq Tags
    /\ w.pc \in PCs

(* Write-back: between instructions, every value a WRITE put in a page the *)
(* tag still has is either in a dirty frame holding that page, or in the   *)
(* block Storage links the page to.  Eviction, FLUSH, COMMIT, DELETE and   *)
(* the preemption flush must all write a dirty page back before it is      *)
(* dropped or marked clean.                                                *)
NoLostWrite ==
    w.pc = "fetch" =>
        \A t \in Tags, p \in Logical :
            wv[t][p] # None =>
                \/ \E f \in Frames : Holds(f, t, p) /\ frames[f].dirty /\ mem[f] = wv[t][p]
                \/ meta[t] # NoMeta /\ p < Len(meta[t].blocks) /\ S!GetBlock(t, p) = wv[t][p]

(* ensure_page's comment, "si Storage no tiene, trae cero": a page loaded  *)
(* for a block the tag does not have reads as zeros.                       *)
MissingPageReadsZero ==
    \A f \in Frames :
        (frames[f] # NoPage /\ ~frames[f].dirty
         /\ ~(meta[frames[f].t] # NoMeta /\ frames[f].p < Len(meta[frames[f].t].blocks)))
            => mem[f] = Zeros

(* Storage's LinksMatchMeta, under the requests a Worker's scripts send.   *)
LinksMatchMeta == S!LinksMatchMeta
=============================================================================
