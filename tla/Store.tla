-------------------------------- MODULE Store --------------------------------
(***************************************************************************)
(* What the Storage server promises its Workers, with no blocks, links,    *)
(* bitmap or hash index: every File:Tag is either absent or a sequence of  *)
(* block contents plus a COMMITED flag, and every request is one atomic    *)
(* change of that map.  A tag's data can only change by a request naming   *)
(* that tag; TAG copies the source's data into the destination.  Storage   *)
(* is shown to implement this module through a refinement mapping that    *)
(* reads each tag the way op_get_block does.                               *)
(***************************************************************************)
EXTENDS Naturals, Sequences

CONSTANTS
    Tags,       \* File:Tag names
    Base,       \* initial_file:BASE
    MaxBlocks,  \* largest tag, in blocks
    Payloads,   \* block contents a Worker may write
    Zeros,      \* the content of physical block 0
    NoMeta      \* the tag does not exist

VARIABLE store

Rec(dat, c) == [data |-> dat, committed |-> c]

Init == store = [t \in Tags |-> IF t = Base THEN Rec(<<Zeros>>, TRUE) ELSE NoMeta]

Writable(t) == store[t] # NoMeta /\ ~store[t].committed

Create(t) ==
    /\ store[t] = NoMeta
    /\ store' = [store EXCEPT ![t] = Rec(<<>>, FALSE)]

\* Growing adds blocks that read as block 0; shrinking drops the tail.
Truncate(t, n) ==
    /\ Writable(t)
    /\ store' = [store EXCEPT ![t].data =
                    [k \in 1..n |-> IF k <= Len(@) THEN @[k] ELSE Zeros]]

Put(t, i, d) ==
    /\ Writable(t)
    /\ i < Len(store[t].data)
    /\ store' = [store EXCEPT ![t].data[i + 1] = d]

Commit(t) ==
    /\ Writable(t)
    /\ store' = [store EXCEPT ![t].committed = TRUE]

Tag(src, dst) ==
    /\ store[src] # NoMeta
    /\ store' = [store EXCEPT ![dst] = Rec(store[src].data, FALSE)]

Delete(t) ==
    /\ t # Base
    /\ store[t] # NoMeta
    /\ store' = [store EXCEPT ![t] = NoMeta]

Next ==
    \E t \in Tags :
        \/ Create(t) \/ Commit(t) \/ Delete(t)
        \/ \E n \in 0..MaxBlocks : Truncate(t, n)
        \/ \E i \in 0..(MaxBlocks - 1), d \in Payloads : Put(t, i, d)
        \/ \E dst \in Tags : Tag(t, dst)

Spec == Init /\ [][Next]_store
=============================================================================
