------------------------------ MODULE MCStorage ------------------------------
(* Storage instantiated for TLC: two tags besides initial_file:BASE, tags  *)
(* of up to two blocks, and two payloads, so that two tags can fill the     *)
(* four-block disk, share blocks through TAG and deduplicate on COMMIT.     *)
EXTENDS Storage

CONSTANTS A, B
MCTags == {Base, A, B}
AllRequests == {"CREATE", "TRUNCATE", "PUT", "COMMIT", "TAG", "DELETE"}
NoDelete == AllRequests \ {"DELETE"}

\* Storage's next-state relation for clients that never send DELETE: the
\* requests and steps of handle_worker without op_delete's.
NoDeleteNext ==
    \E x \in Threads :
        \/ \E t \in Tags :
            \/ OpCreate(x, t) \/ OpCommit(x, t)
            \/ \E n \in 0..MaxBlocks : OpTruncate(x, t, n)
            \/ \E i \in Logical, d \in Payloads : OpPut(x, t, i, d)
            \/ \E dst \in Tags : OpTag(x, t, dst)
        \/ CreateSave(x) \/ TruncShrink(x) \/ PutFind(x) \/ PutCow(x)
        \/ PutWrite(x) \/ CommitLook(x) \/ CommitApply(x) \/ TagLink(x) \/ Save(x)

NoDeleteSpec == Init /\ [][NoDeleteNext]_vars
=============================================================================
