------------------------------- MODULE Storage -------------------------------
(***************************************************************************)
(* The Storage server (src/storage/src).  accept_loop starts one           *)
(* handle_worker thread per Worker connection; each runs one request at a  *)
(* time over state that all threads share:                                 *)
(*   bitmap   the mmap'ed bitmap.bin, one bit per physical block (m_bitmap) *)
(*   content  the bytes of physical/blockNNNN.dat, as one value per block   *)
(*   links    files/F/T/logical_blocks/NNNNNN.dat, each a hard link to a    *)
(*            physical block file; physical_refcount counts them (nlink-1)  *)
(*   meta     files/F/T/metadata.config: BLOCKS and ESTADO (TAMAÑO is       *)
(*            always BLOCK_SIZE * |BLOCKS| and is left out)                 *)
(*   hidx     blocks_hash_index.config, md5 -> block name (m_hashidx)       *)
(* A block's md5 is its content (the model has no hash collisions).        *)
(* Only the bitmap and the hash index have locks, and each is held for one *)
(* helper call, so an operation is a sequence of steps: it loads the       *)
(* metadata, works on blocks and links, and saves the metadata it loaded,  *)
(* and other threads run between any two of those steps.  A loop          *)
(* iteration that unlinks, reads the link count and clears a bit is one    *)
(* step: another thread linking the block between those calls ends in the  *)
(* same state as linking it just after.                                    *)
(***************************************************************************)
EXTENDS Integers, Sequences, SequencesExt, FiniteSets

CONSTANTS
    Threads,       \* handle_worker threads, one per Worker connection
    Tags,          \* File:Tag names
    Base,          \* initial_file:BASE, made by create_initial_file
    NBlocks,       \* g_blocks_count = FS_SIZE / BLOCK_SIZE
    MaxBlocks,     \* largest size a TRUNCATE asks for, in blocks
    Payloads,      \* block contents a Worker writes with PUT_BLOCK
    Zeros,         \* the '0'-filled content of block 0
    Nul,           \* the content of a block file fresh from ftruncate
    Requests,      \* the request kinds Workers send
    TagOverwrite,  \* may a TAG name a destination that already exists
    IoFails,       \* may read_physical / write_physical fail
    NoBlock,       \* no link file / no hash index entry
    NoMeta         \* no metadata.config

VARIABLES bitmap, content, links, meta, hidx, th

vars == <<bitmap, content, links, meta, hidx, th>>

Blocks == 0..(NBlocks - 1)
Logical == 0..(MaxBlocks - 1)
Data == Payloads \cup {Zeros, Nul}
NoLinks == [i \in Logical |-> NoBlock]

Meta(bl, c) == [blocks |-> bl, committed |-> c]

\* The locals of a handle_worker thread between requests.
Idle == [pc |-> "idle", op |-> "NONE", t |-> Base, i |-> 0, n |-> 0, d |-> Nul, m |-> <<>>,
         c |-> FALSE, phys |-> 0, blk |-> 0, hit |-> NoBlock, j |-> 0]

\* physical_refcount: nlink of the block file less the file itself.
RefcountIn(lk, b) ==
    Cardinality({ti \in Tags \X Logical : lk[ti[1]][ti[2]] = b})
physical_refcount(b) == RefcountIn(links, b)

\* bm_set / bm_clear: one bit, under m_bitmap (the msync is not modelled).
bm_set(bm, b) == bm \cup {b}
bm_clear(bm, b) == bm \ {b}

\* The guarded bm_clear every operation makes after dropping a link.
ReleaseIfNotZero(lk, bm, phys) == IF phys # 0 THEN bm_clear(bm, phys) ELSE bm
ReleaseIfUnref(lk, bm, phys) ==
    IF RefcountIn(lk, phys) = 0 /\ phys # 0 THEN bm_clear(bm, phys) ELSE bm

\* One logical link file, as the link helpers leave it.
ensure_hardlink(l, b) == IF l = NoBlock THEN b ELSE l
replace_hardlink(l, b) == b
remove_logical_link(l) == NoBlock

\* Block I/O: the file holds the data written, padded (one value per block).
read_physical(b) == content[b]
write_physical(b, d) == [content EXCEPT ![b] = d]
md5_block(d) == d
hi_get_block_by_md5(h) == hidx[h]
hi_put_md5(h, b) == [hidx EXCEPT ![h] = b]

\* bm_find_free: the lowest clear bit, or -1.
FindFreeOffByOne == IF Blocks \ bitmap = {} THEN NBlocks ELSE Min(Blocks \ bitmap)
bm_find_free == IF Blocks \ bitmap = {} THEN -1 ELSE Min(Blocks \ bitmap)

\* op_get_block: the content of the physical block BLOCKS[i] names.
GetBlock(t, i) == content[meta[t].blocks[i + 1]]

\* meta_load found the metadata and ESTADO is not COMMITED.
Writable(t) == meta[t] # NoMeta /\ ~meta[t].committed

Done(x) == th' = [th EXCEPT ![x] = Idle]
Go(x, r) == th' = [th EXCEPT ![x] = r]

Init ==
    /\ bitmap = {0}
    /\ content = [b \in Blocks |-> IF b = 0 THEN Zeros ELSE Nul]
    /\ links = [t \in Tags |-> IF t = Base THEN [NoLinks EXCEPT ![0] = 0] ELSE NoLinks]
    /\ meta = [t \in Tags |-> IF t = Base THEN Meta(<<0>>, TRUE) ELSE NoMeta]
    /\ hidx = [d \in Data |-> NoBlock]
    /\ th = [x \in Threads |-> Idle]

-----------------------------------------------------------------------------
(* Every operation ends with meta_save of the metadata it loaded and        *)
(* changed, whatever another thread saved meanwhile.                        *)
Save(x) ==
    /\ th[x].pc = "save"
    /\ meta' = [meta EXCEPT ![th[x].t] = Meta(th[x].m, th[x].c)]
    /\ Done(x)
    /\ UNCHANGED <<bitmap, content, links, hidx>>

(* STORAGE_CREATE: refuse when metadata exists, else save an empty one.    *)
OpCreate(x, t) ==
    /\ th[x].pc = "idle" /\ "CREATE" \in Requests
    /\ \/ meta[t] # NoMeta /\ Done(x)
       \/ meta[t] = NoMeta /\ Go(x, [Idle EXCEPT !.pc = "create_save", !.t = t])
    /\ UNCHANGED <<bitmap, content, links, meta, hidx>>

CreateSave(x) ==
    /\ th[x].pc = "create_save"
    /\ meta' = [meta EXCEPT ![th[x].t] = Meta(<<>>, FALSE)]
    /\ Done(x)
    /\ UNCHANGED <<bitmap, content, links, hidx>>

(* STORAGE_TRUNCATE: refused on a missing or COMMITED tag.  Growing links   *)
(* each new logical block to block 0 unless its link file exists; it is    *)
(* one step, since block 0 is never freed.  Shrinking walks from the last  *)
(* block down, one step per block.                                         *)
OpTruncate(x, t, n) ==
    /\ th[x].pc = "idle" /\ "TRUNCATE" \in Requests
    /\ \/ ~Writable(t) /\ Done(x) /\ UNCHANGED links
       \/ Writable(t)
          /\ LET m == meta[t].blocks
                 cur == Len(m)
             IN \/ n >= cur
                   /\ links' = [links EXCEPT ![t] =
                        [i \in Logical |-> IF cur <= i /\ i < n
                                           THEN ensure_hardlink(@[i], 0) ELSE @[i]]]
                   /\ Go(x, [Idle EXCEPT !.pc = "save", !.t = t,
                                  !.m = m \o [k \in 1..(n - cur) |-> 0]])
                \/ n < cur
                   /\ Go(x, [Idle EXCEPT !.pc = "trunc_shrink", !.t = t, !.n = n,
                                  !.m = m, !.j = cur - 1])
                   /\ UNCHANGED links
    /\ UNCHANGED <<bitmap, content, meta, hidx>>

\* One iteration of the shrink loop: remove_logical_link, then the guarded
\* bm_clear, then list_remove of the last entry.
TruncShrink(x) ==
    LET r == th[x]
        phys == r.m[r.j + 1]
        lk == [links EXCEPT ![r.t][r.j] = remove_logical_link(@)]
    IN /\ r.pc = "trunc_shrink"
       /\ links' = lk
       /\ bitmap' = ReleaseIfUnref(lk, bitmap, phys)
       /\ Go(x, [r EXCEPT !.m = SubSeq(r.m, 1, r.j), !.j = r.j - 1,
                     !.pc = IF r.j - 1 >= r.n THEN "trunc_shrink" ELSE "save"])
       /\ UNCHANGED <<content, meta, hidx>>

(* STORAGE_PUT_BLOCK: a block shared with another link, or block 0, is     *)
(* copied on write into a newly allocated block; a block with one link is  *)
(* overwritten in place.                                                   *)
OpPutSharedOffByOne(x, t, i, d) ==
    /\ th[x].pc = "idle" /\ "PUT" \in Requests
    /\ \/ ~(Writable(t) /\ i < Len(meta[t].blocks)) /\ Done(x)
       \/ Writable(t) /\ i < Len(meta[t].blocks)
          /\ LET phys == meta[t].blocks[i + 1]
             IN Go(x, [Idle EXCEPT !.op = "PUT", !.t = t, !.i = i, !.d = d, !.m = meta[t].blocks,
                           !.phys = phys,
                           !.pc = IF physical_refcount(phys) > 2 \/ phys = 0
                                  THEN "put_find" ELSE "put_write"])
    /\ UNCHANGED <<bitmap, content, links, meta, hidx>>

OpPut(x, t, i, d) ==
    /\ th[x].pc = "idle" /\ "PUT" \in Requests
    /\ \/ ~(Writable(t) /\ i < Len(meta[t].blocks)) /\ Done(x)
       \/ Writable(t) /\ i < Len(meta[t].blocks)
          /\ LET phys == meta[t].blocks[i + 1]
             IN Go(x, [Idle EXCEPT !.op = "PUT", !.t = t, !.i = i, !.d = d, !.m = meta[t].blocks,
                           !.phys = phys,
                           !.pc = IF physical_refcount(phys) > 1 \/ phys = 0
                                  THEN "put_find" ELSE "put_write"])
    /\ UNCHANGED <<bitmap, content, links, meta, hidx>>

\* bm_find_free under m_bitmap, which is released before bm_set takes it again.
PutFind(x) ==
    /\ th[x].pc = "put_find"
    /\ \/ bm_find_free < 0 /\ Done(x)
       \/ bm_find_free >= 0
          /\ Go(x, [th[x] EXCEPT !.blk = bm_find_free, !.pc = "put_cow"])
    /\ UNCHANGED <<bitmap, content, links, meta, hidx>>

\* bm_set, write_physical, replace_hardlink, then the guarded release of the
\* old block.  A failed write returns ERR_IO with the bit left set.
PutCow(x) ==
    LET r == th[x]
        lk == [links EXCEPT ![r.t][r.i] = replace_hardlink(@, r.blk)]
    IN /\ r.pc = "put_cow"
       /\ \/ IoFails /\ bitmap' = bm_set(bitmap, r.blk) /\ Done(x)
             /\ UNCHANGED <<content, links>>
          \/ bitmap' = ReleaseIfUnref(lk, bm_set(bitmap, r.blk), r.phys)
             /\ content' = write_physical(r.blk, r.d)
             /\ links' = lk
             /\ Go(x, [r EXCEPT !.m[r.i + 1] = r.blk, !.pc = "save"])
       /\ UNCHANGED <<meta, hidx>>

\* write_physical over the block the metadata named when it was loaded.
PutWrite(x) ==
    /\ th[x].pc = "put_write"
    /\ \/ IoFails /\ Done(x) /\ UNCHANGED content
       \/ content' = write_physical(th[x].phys, th[x].d)
          /\ Go(x, [th[x] EXCEPT !.pc = "save"])
    /\ UNCHANGED <<bitmap, links, meta, hidx>>

(* STORAGE_COMMIT: nothing to do on a COMMITED tag.  Otherwise, for each   *)
(* logical block: read it and look its md5 up (one step), then either      *)
(* relink the logical block to the indexed block and release the old one,  *)
(* or register this block under the md5 (a second step: m_hashidx is       *)
(* released between hi_get_block_by_md5 and hi_put_md5).  Last, ESTADO     *)
(* becomes COMMITED and the metadata is saved.                             *)
OpCommit(x, t) ==
    /\ th[x].pc = "idle" /\ "COMMIT" \in Requests
    /\ \/ ~Writable(t) /\ Done(x)
       \/ Writable(t)
          /\ LET empty == meta[t].blocks = <<>>
             IN Go(x, [Idle EXCEPT !.t = t, !.m = meta[t].blocks, !.c = empty,
                           !.pc = IF empty THEN "save" ELSE "commit_look"])
    /\ UNCHANGED <<bitmap, content, links, meta, hidx>>

\* read_physical, md5_block, hi_get_block_by_md5.  A failed read returns
\* ERR_IO, keeping the links the earlier iterations replaced.
CommitLook(x) ==
    LET r == th[x]
        phys == r.m[r.j + 1]
    IN /\ r.pc = "commit_look"
       /\ \/ IoFails /\ Done(x)
          \/ Go(x, [r EXCEPT !.phys = phys, !.d = read_physical(phys),
                        !.hit = hi_get_block_by_md5(md5_block(read_physical(phys))), !.pc = "commit_apply"])
       /\ UNCHANGED <<bitmap, content, links, meta, hidx>>

CommitApplyKeepMeta(x) ==
    LET r == th[x]
        last == r.j + 1 = Len(r.m)
        next == [r EXCEPT !.j = r.j + 1, !.c = last,
                          !.pc = IF last THEN "save" ELSE "commit_look"]
        lk == [links EXCEPT ![r.t][r.j] = replace_hardlink(@, r.hit)]
    IN /\ r.pc = "commit_apply"
       /\ \/ r.hit # NoBlock /\ r.hit # r.phys
             /\ links' = lk
             /\ bitmap' = ReleaseIfUnref(lk, bitmap, r.phys)
             /\ Go(x, next)
             /\ UNCHANGED hidx
          \/ r.hit = r.phys /\ Go(x, next)
             /\ UNCHANGED <<bitmap, links, hidx>>
          \/ r.hit = NoBlock /\ hidx' = hi_put_md5(r.d, r.phys)
             /\ Go(x, next)
             /\ UNCHANGED <<bitmap, links>>
       /\ UNCHANGED <<content, meta>>

CommitApply(x) ==
    LET r == th[x]
        last == r.j + 1 = Len(r.m)
        next == [r EXCEPT !.j = r.j + 1, !.c = last,
                          !.pc = IF last THEN "save" ELSE "commit_look"]
        lk == [links EXCEPT ![r.t][r.j] = replace_hardlink(@, r.hit)]
    IN /\ r.pc = "commit_apply"
       /\ \/ r.hit # NoBlock /\ r.hit # r.phys
             /\ links' = lk
             /\ bitmap' = ReleaseIfUnref(lk, bitmap, r.phys)
             /\ Go(x, [next EXCEPT !.m[r.j + 1] = r.hit])
             /\ UNCHANGED hidx
          \/ r.hit = r.phys /\ Go(x, next)
             /\ UNCHANGED <<bitmap, links, hidx>>
          \/ r.hit = NoBlock /\ hidx' = hi_put_md5(r.d, r.phys)
             /\ Go(x, next)
             /\ UNCHANGED <<bitmap, links>>
       /\ UNCHANGED <<content, meta>>

(* STORAGE_TAG: load the source metadata, hard-link each destination       *)
(* logical block to the source's physical block unless a link file of that *)
(* name exists, and save the source's BLOCKS as the destination's, in      *)
(* WORK_IN_PROGRESS.  The destination is not checked for existence.        *)
OpTag(x, src, dst) ==
    /\ th[x].pc = "idle" /\ "TAG" \in Requests
    /\ TagOverwrite \/ meta[dst] = NoMeta
    /\ \/ meta[src] = NoMeta /\ Done(x)
       \/ meta[src] # NoMeta
          /\ Go(x, [Idle EXCEPT !.t = dst, !.m = meta[src].blocks, !.pc = "tag_link"])
    /\ UNCHANGED <<bitmap, content, links, meta, hidx>>

TagLinkOffByOne(x) ==
    LET r == th[x] IN
    /\ r.pc = "tag_link"
    /\ links' = [links EXCEPT ![r.t] =
                   [i \in Logical |-> IF i + 1 < Len(r.m)
                                      THEN ensure_hardlink(@[i], r.m[i + 1]) ELSE @[i]]]
    /\ Go(x, [r EXCEPT !.pc = "save"])
    /\ UNCHANGED <<bitmap, content, meta, hidx>>

TagLink(x) ==
    LET r == th[x] IN
    /\ r.pc = "tag_link"
    /\ links' = [links EXCEPT ![r.t] =
                   [i \in Logical |-> IF i < Len(r.m)
                                      THEN ensure_hardlink(@[i], r.m[i + 1]) ELSE @[i]]]
    /\ Go(x, [r EXCEPT !.pc = "save"])
    /\ UNCHANGED <<bitmap, content, meta, hidx>>

(* STORAGE_DELETE: refused for initial_file:BASE.  One step per block      *)
(* unlinks it and releases it if unreferenced; then the metadata and every *)
(* file left in logical_blocks/ are removed with no further release.       *)
OpDelete(x, t) ==
    /\ th[x].pc = "idle" /\ "DELETE" \in Requests
    /\ \/ (t = Base \/ meta[t] = NoMeta) /\ Done(x)
       \/ t # Base /\ meta[t] # NoMeta
          /\ Go(x, [Idle EXCEPT !.t = t, !.m = meta[t].blocks,
                        !.pc = IF meta[t].blocks = <<>> THEN "delete_rm" ELSE "delete_loop"])
    /\ UNCHANGED <<bitmap, content, links, meta, hidx>>

DeleteLoop(x) ==
    LET r == th[x]
        lk == [links EXCEPT ![r.t][r.j] = remove_logical_link(@)]
    IN /\ r.pc = "delete_loop"
       /\ links' = lk
       /\ bitmap' = ReleaseIfUnref(lk, bitmap, r.m[r.j + 1])
       /\ Go(x, [r EXCEPT !.j = r.j + 1,
                     !.pc = IF r.j + 1 = Len(r.m) THEN "delete_rm" ELSE "delete_loop"])
       /\ UNCHANGED <<content, meta, hidx>>

DeleteRm(x) ==
    /\ th[x].pc = "delete_rm"
    /\ meta' = [meta EXCEPT ![th[x].t] = NoMeta]
    /\ links' = [links EXCEPT ![th[x].t] = NoLinks]
    /\ Done(x)
    /\ UNCHANGED <<bitmap, content, hidx>>

-----------------------------------------------------------------------------
(* handle_worker: a thread takes the next request when it is idle, and     *)
(* otherwise runs the next step of the request it is serving.              *)
Request(x) ==
    \E t \in Tags :
        \/ OpCreate(x, t) \/ OpCommit(x, t) \/ OpDelete(x, t)
        \/ \E n \in 0..MaxBlocks : OpTruncate(x, t, n)
        \/ \E i \in Logical, d \in Payloads : OpPut(x, t, i, d)
        \/ \E dst \in Tags : OpTag(x, t, dst)

Serve(x) ==
    \/ CreateSave(x) \/ TruncShrink(x) \/ PutFind(x) \/ PutCow(x)
    \/ PutWrite(x) \/ CommitLook(x) \/ CommitApply(x) \/ TagLink(x)
    \/ DeleteLoop(x) \/ DeleteRm(x) \/ Save(x)

Next == \E x \in Threads : Request(x) \/ Serve(x)

Spec == Init /\ [][Next]_vars

-----------------------------------------------------------------------------
PCs == {"idle", "save", "create_save", "trunc_shrink", "put_find", "put_cow",
        "put_write", "commit_look", "commit_apply", "tag_link", "delete_loop",
        "delete_rm"}

TypeOK ==
    /\ bitmap \subseteq Blocks
    /\ content \in [Blocks -> Data]
    /\ links \in [Tags -> [Logical -> Blocks \cup {NoBlock}]]
    /\ meta \in [Tags -> {NoMeta} \cup [blocks : BoundedSeq(Blocks, MaxBlocks),
                                        committed : BOOLEAN]]
    /\ hidx \in [Data -> Blocks \cup {NoBlock}]
    /\ \A x \in Threads :
        /\ th[x].pc \in PCs
        /\ th[x].m \in BoundedSeq(Blocks, MaxBlocks)
        /\ {th[x].phys, th[x].blk} \subseteq Blocks

\* "si nadie más lo referencia, liberar bitmap" (op_truncate and the others):
\* a block other than 0 is marked in the bitmap exactly when some logical
\* block links to it, so no block is leaked and none in use can be handed
\* out again by bm_find_free.
AllocationSound ==
    \A b \in Blocks \ {0} : (b \in bitmap) <=> physical_refcount(b) > 0

\* "existe bloque físico confirmado con igual contenido" (op_commit): a block
\* the hash index names is allocated and still holds the content it was
\* indexed under, so deduplicating onto it keeps the tag's data.
HashIndexSound ==
    \A d \in Data : hidx[d] # NoBlock => hidx[d] \in bitmap /\ content[hidx[d]] = d

\* Between requests, the hard links of every tag are exactly the blocks its
\* metadata lists: logical block i of T links to BLOCKS[i], and there are
\* no other link files.  physical_refcount counts links while op_get_block
\* reads the metadata, so the two must agree.
LinksMatchMeta ==
    (\A x \in Threads : th[x].pc = "idle") =>
        \A t \in Tags, i \in Logical :
            links[t][i] = IF meta[t] # NoMeta /\ i < Len(meta[t].blocks)
                          THEN meta[t].blocks[i + 1] ELSE NoBlock

\* A PUT_BLOCK about to save its metadata still finds its data in the block
\* it wrote: no other thread wrote that block meanwhile.
WriteNotClobbered ==
    \A x \in Threads :
        th[x].pc = "save" /\ th[x].op = "PUT" => content[th[x].m[th[x].i + 1]] = th[x].d

\* The store each Worker sees: the tags' data as op_get_block reads them.
StoreView ==
    [t \in Tags |-> IF meta[t] = NoMeta THEN NoMeta
                    ELSE [data |-> [k \in 1..Len(meta[t].blocks) |-> GetBlock(t, k - 1)],
                          committed |-> meta[t].committed]]

Abs == INSTANCE Store WITH store <- StoreView

\* Storage implements Store: each request changes the data of the tags it
\* names, and only those, as one atomic step, so blocks shared by hard
\* links, copy-on-write and deduplication never show through.
AbsSpec == Abs!Spec
=============================================================================
