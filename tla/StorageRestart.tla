---------------------------- MODULE StorageRestart ----------------------------
(***************************************************************************)
(* The Storage process across restarts (storage.c: main, fs_mount_or_format,*)
(* sigint_handler).  What Storage keeps in files outlives the process: the  *)
(* bitmap (bitmap.bin, mmap'ed MAP_SHARED), the block files, the link files *)
(* and every metadata.config, each written by its own system call.  The     *)
(* hash index is a t_config in memory; it reaches blocks_hash_index.config  *)
(* only through config_save, in hi_sync (called by fs_unmount from the      *)
(* SIGINT handler) and in storage_free_config (called next by the handler). *)
(* On the next start, fs_mount_or_format either formats (FRESH_START) or    *)
(* opens bitmap.bin and the index file as they are, checking nothing; the   *)
(* handle_worker threads of the old process are gone at whatever step they  *)
(* had reached.  The process ends between two steps of Storage.             *)
(***************************************************************************)
EXTENDS Storage

CONSTANTS
    FRESH_START,   \* storage.config FRESH_START, read by every start
    MaxRestarts    \* bound on the restarts of one behaviour

VARIABLES
    hidxDisk,      \* blocks_hash_index.config as last saved
    restarts       \* restarts so far

rvars == <<vars, hidxDisk, restarts>>

\* First start: fs_mount_or_format formats, and create_hashindex saves the
\* index empty (create_initial_file does not index block 0).
RInit == Init /\ hidxDisk = hidx /\ restarts = 0

\* hi_sync: config_save of the index as it is in memory.
hi_sync == hidx

\* storage_free_config: config_save of the same t_config again, then its
\* destruction; the file ends as hi_sync left it.
storage_free_config == hi_sync

\* fs_mount_or_format with FRESH_START: rm_rf of physical/ and files/, unlink of
\* bitmap.bin and of the index file, then create_physical_space (every block
\* file ftruncate'd), create_bitmap (every bit clear), create_hashindex (an
\* empty index) and create_initial_file (bit 0, block 0 of '0's, the metadata
\* and the link of initial_file:BASE).
format ==
    /\ bitmap' = {0}
    /\ content' = [b \in Blocks |-> IF b = 0 THEN Zeros ELSE Nul]
    /\ links' = [t \in Tags |-> IF t = Base THEN [NoLinks EXCEPT ![0] = 0] ELSE NoLinks]
    /\ meta' = [t \in Tags |-> IF t = Base THEN Meta(<<0>>, TRUE) ELSE NoMeta]
    /\ hidx' = [d \in Data |-> NoBlock]
    /\ hidxDisk' = hidx'

\* open_bitmap: bitmap.bin mapped as the old process left it.
open_bitmap == UNCHANGED bitmap

\* open_hashindex: the index loaded from the file the old process saved.
open_hashindex(saved) == hidx' = saved /\ hidxDisk' = saved

\* fs_mount_or_format on the next start, with the index file as the old
\* process left it.  Without FRESH_START it opens the bitmap and the index
\* and reads or checks nothing else.  No handle_worker thread runs until a
\* Worker connects again.
fs_mount_or_format(saved) ==
    /\ restarts' = restarts + 1
    /\ th' = [x \in Threads |-> Idle]
    /\ \/ FRESH_START /\ format
       \/ ~FRESH_START /\ open_bitmap /\ open_hashindex(saved)
          /\ UNCHANGED <<content, links, meta>>

\* The process dies (a crash, kill -9) with its threads anywhere, and main
\* starts it again: nothing of the index since the last config_save has
\* reached the file.
Crash ==
    /\ restarts < MaxRestarts
    /\ fs_mount_or_format(hidxDisk)

\* sigint_handler: fs_unmount's hi_sync and storage_free_config's config_save
\* write the index, and _exit ends the process with its threads anywhere;
\* main starts it again.
Sigint ==
    /\ restarts < MaxRestarts
    /\ fs_mount_or_format(storage_free_config)

RNext ==
    \/ Next /\ UNCHANGED <<hidxDisk, restarts>>
    \/ Crash
    \/ Sigint

RSpec == RInit /\ [][RNext]_rvars

RTypeOK == TypeOK /\ hidxDisk \in [Data -> Blocks \cup {NoBlock}]
=============================================================================
