-------------------------------- MODULE Wire --------------------------------
(***************************************************************************)
(* The byte format of the TCP connections between Query Control, Master,   *)
(* Worker and Storage (utils/protocolos.c and the per-module helpers that  *)
(* put fields into and take fields out of a t_paquete).                    *)
(*                                                                         *)
(* A frame is what enviar_paquete writes: the op_code and the payload size *)
(* as host-order ints, then the payload.  A field of a message is a record *)
(* [k, n, s]: k names the helper that wrote it ("u32" agregar_a_paquete of *)
(* a uint32_t, "cstr" add_cstring, "nstr" paquete_add_string, "bytes" a    *)
(* bare BLOCK_SIZE block, "data" a u32 length and that many bytes), n the  *)
(* integer of a "u32" and s the bytes of the others (0 and <<>> when       *)
(* unused, so every field has the same shape).  A receiver turns the byte  *)
(* stream back into messages with the calls its code makes, in order.      *)
(*                                                                         *)
(* ho is the host byte order, "LE" or "BE"; both ends of a connection run *)
(* on hosts of the same order.  recv is taken to return whole reads        *)
(* (see the hazards of protocolos.c).                                      *)
(***************************************************************************)
EXTENDS Integers, Sequences, SequencesExt

CONSTANT BlockSize     \* g_block_size, the BLOCK_SIZE of the Storage

\* op_code (protocolos.h)
HANDSHAKE_QC          == 1000
HANDSHAKE_WORKER      == 1001
QC_ENVIAR_QUERY       == 1002
WORKER_IDENTIFICACION == 1003
MASTER_ACK            == 1099
MASTER_LECTURA        == 1010
MASTER_FIN            == 1011
MASTER_ASIGNAR_QUERY  == 2001
MASTER_DESALOJAR      == 2002
WORKER_LECTURA        == 2101
WORKER_FIN            == 2102
WORKER_DEVOLVER_PC    == 2103
STORAGE_HANDSHAKE     == 3000
STORAGE_BLOCK_SIZE    == 3001
STORAGE_CREATE        == 3003
STORAGE_TRUNCATE      == 3004
STORAGE_DELETE        == 3006
STORAGE_COMMIT        == 3007
STORAGE_TAG           == 3008
STORAGE_GET_BLOCK     == 3010
STORAGE_PUT_BLOCK     == 3011

(***************************************************************************)
(* Bytes of an int.                                                        *)
(***************************************************************************)

\* memcpy of a non-negative int or uint32_t below 2^31 in byte order ho
IntBytes(ho, x) ==
    [i \in 1..4 |-> (x \div 256^(IF ho = "LE" THEN i - 1 ELSE 4 - i)) % 256]

\* the int32_t four bytes hold when read in byte order ho (ntohl is "BE")
BytesInt(ho, b) ==
    LET at(w) == b[IF ho = "LE" THEN w + 1 ELSE 4 - w]   \* the byte of weight 256^w
    IN  at(0) + 256 * at(1) + 65536 * at(2)
          + 16777216 * (IF at(3) >= 128 THEN at(3) - 256 ELSE at(3))

Skip(b, x) == SubSeq(b, x + 1, Len(b))

\* the C string a zero-terminated buffer holds: its bytes up to the first NUL
CString(b) ==
    LET z == SelectInSeq(b, LAMBDA c : c = 0)
    IN  IF z = 0 THEN b ELSE SubSeq(b, 1, z - 1)

(***************************************************************************)
(* Writing a message.                                                      *)
(***************************************************************************)

\* Mutant for the checks: the length is strlen(s), without the NUL that follows.
add_cstring_strlen(ho, s) == IntBytes(ho, Len(s)) \o s \o <<0>>

\* add_cstring: int len = strlen(s)+1 in host order, then s and its NUL
add_cstring(ho, s) == IntBytes(ho, Len(s) + 1) \o s \o <<0>>

\* paquete_add_string: htonl(strlen(s)), then s without its NUL
paquete_add_string(s) == IntBytes("BE", Len(s)) \o s

PutField(ho, f) ==
    CASE f.k = "u32"   -> IntBytes(ho, f.n)
      [] f.k = "cstr"  -> add_cstring(ho, f.s)
      [] f.k = "nstr"  -> paquete_add_string(f.s)
      [] f.k = "bytes" -> f.s
      [] f.k = "data"  -> IntBytes(ho, Len(f.s)) \o f.s

\* enviar_paquete: op_code, buffer->size, then the payload
enviar_paquete(ho, m) ==
    LET payload == FlattenSeq([i \in DOMAIN m.f |-> PutField(ho, m.f[i])])
    IN  IntBytes(ho, m.op) \o IntBytes(ho, Len(payload)) \o payload

Stream(ho, ms) == FlattenSeq([i \in DOMAIN ms |-> enviar_paquete(ho, ms[i])])

(***************************************************************************)
(* Reading a payload.  A read past the end of the payload (an over-read of *)
(* the malloc'd stream, undefined in C) yields a field with ok = FALSE.   *)
(***************************************************************************)

Bad(k)          == [k |-> k, ok |-> FALSE, n |-> 0, s |-> <<>>, rest |-> <<>>]
Got(k, x, b, r) == [k |-> k, ok |-> TRUE, n |-> x, s |-> b, rest |-> r]

\* buffer_read of a uint32_t
read_u32(ho, b) ==
    IF Len(b) < 4 THEN Bad("u32") ELSE Got("u32", BytesInt(ho, SubSeq(b, 1, 4)), <<>>, Skip(b, 4))

\* read_cstring: int len, calloc(len), copy len bytes; the string ends at
\* the first NUL, and a buffer without one is read past its end
read_cstring(ho, b) ==
    LET len  == BytesInt(ho, SubSeq(b, 1, 4))
        body == SubSeq(b, 5, 4 + len)
    IN  IF Len(b) < 4 \/ len <= 0 \/ 4 + len > Len(b)
                      \/ SelectInSeq(body, LAMBDA c : c = 0) = 0
        THEN Bad("cstr")
        ELSE Got("cstr", 0, CString(body), Skip(b, 4 + len))

\* read_net_string_from_pkg and paquete_read_string: n = ntohl(int32),
\* calloc(n+1), copy n bytes
read_net_string(b) ==
    LET x == BytesInt("BE", SubSeq(b, 1, 4))
    IN  IF Len(b) < 4 \/ x < 0 \/ 4 + x > Len(b)
        THEN Bad("nstr")
        ELSE Got("nstr", 0, CString(SubSeq(b, 5, 4 + x)), Skip(b, 4 + x))

\* storage_get_block: memcpy of g_block_size bytes
read_block(b) ==
    IF Len(b) < BlockSize THEN Bad("bytes")
    ELSE Got("bytes", 0, SubSeq(b, 1, BlockSize), Skip(b, BlockSize))

\* STORAGE_PUT_BLOCK handler: uint32_t len, then memcpy of len bytes
read_data(ho, b) ==
    LET len == BytesInt(ho, SubSeq(b, 1, 4))
    IN  IF Len(b) < 4 \/ len < 0 \/ 4 + len > Len(b)
        THEN Bad("data")
        ELSE Got("data", 0, SubSeq(b, 5, 4 + len), Skip(b, 4 + len))

GetField(ho, k, b) ==
    CASE k = "u32"   -> read_u32(ho, b)
      [] k = "cstr"  -> read_cstring(ho, b)
      [] k = "nstr"  -> read_net_string(b)
      [] k = "bytes" -> read_block(b)
      [] k = "data"  -> read_data(ho, b)

\* the fields of a payload read with the layout ks; reading stops at a bad one
RECURSIVE Decode(_, _, _)
Decode(ho, ks, b) ==
    IF ks = <<>> THEN <<>>
    ELSE LET g == GetField(ho, Head(ks), b)
         IN  <<[k |-> g.k, ok |-> g.ok, n |-> g.n, s |-> g.s]>>
               \o (IF g.ok THEN Decode(ho, Tail(ks), g.rest) ELSE <<>>)

(***************************************************************************)
(* Layouts: for each op_code a connection carries, the fields its sender  *)
(* puts and the fields its receiver reads.                                 *)
(***************************************************************************)

U32 == "u32"
CS  == "cstr"
NS  == "nstr"

\* QC -> Master: query_control.c main (handshake, QC_ENVIAR_QUERY)
QcSends == (HANDSHAKE_QC :> <<>>) @@ (QC_ENVIAR_QUERY :> <<NS, U32>>)

\* master_handle_qc: path by read_net_string_from_pkg, then prioridad
MasterReadsQc == QC_ENVIAR_QUERY :> <<NS, U32>>

\* Master -> QC: send_master_ack, send_master_lectura, send_master_fin
MasterSendsQc ==
    (MASTER_ACK :> <<>>) @@ (MASTER_LECTURA :> <<CS, CS>>) @@ (MASTER_FIN :> <<CS>>)

\* query_control.c main loop: paquete_read_string for every string
QcReadsMaster ==
    (MASTER_ACK :> <<>>) @@ (MASTER_LECTURA :> <<NS, NS>>) @@ (MASTER_FIN :> <<NS>>)

\* Worker -> Master: worker.c main (identification), send_worker_*
WorkerSendsMaster ==
    (HANDSHAKE_WORKER :> <<>>) @@ (WORKER_IDENTIFICACION :> <<U32>>)
    @@ (WORKER_LECTURA :> <<U32, CS, CS>>) @@ (WORKER_FIN :> <<U32, CS>>)
    @@ (WORKER_DEVOLVER_PC :> <<U32, U32>>)

\* master_handle_worker: identification, then its switch on op
MasterReadsWorker ==
    (WORKER_IDENTIFICACION :> <<U32>>)
    @@ (WORKER_LECTURA :> <<U32, CS, CS>>) @@ (WORKER_FIN :> <<U32, CS>>)
    @@ (WORKER_DEVOLVER_PC :> <<U32, U32>>)

\* Master -> Worker: send_master_ack, send_master_asignar_query,
\* send_master_desalojar
MasterSendsWorker ==
    (MASTER_ACK :> <<>>) @@ (MASTER_ASIGNAR_QUERY :> <<U32, U32, CS>>)
    @@ (MASTER_DESALOJAR :> <<U32>>)

\* worker.c main (the ACK) and master_listener_thread
WorkerReadsMaster == MasterSendsWorker

\* Worker -> Storage: storage_connect_and_handshake and the storage_* calls;
\* the handler of storage_protocol.c reads the same layouts
WorkerSendsStorage ==
    (STORAGE_HANDSHAKE :> <<>>)
    @@ (STORAGE_CREATE :> <<CS, CS>>) @@ (STORAGE_TRUNCATE :> <<CS, CS, U32>>)
    @@ (STORAGE_DELETE :> <<CS, CS>>) @@ (STORAGE_COMMIT :> <<CS, CS>>)
    @@ (STORAGE_TAG :> <<CS, CS, CS, CS>>)
    @@ (STORAGE_GET_BLOCK :> <<CS, CS, U32>>)
    @@ (STORAGE_PUT_BLOCK :> <<CS, CS, U32, "data">>)

StorageReadsWorker == [o \in DOMAIN WorkerSendsStorage \ {STORAGE_HANDSHAKE} |-> WorkerSendsStorage[o]]

\* Storage -> Worker: the BLOCK_SIZE of the handshake, respond_status, and
\* the BLOCK_SIZE bytes of a successful STORAGE_GET_BLOCK
StorageSendsWorker ==
    [o \in {STORAGE_BLOCK_SIZE, STORAGE_CREATE, STORAGE_TRUNCATE, STORAGE_DELETE,
            STORAGE_COMMIT, STORAGE_TAG, STORAGE_PUT_BLOCK} |-> <<U32>>]
    @@ (STORAGE_GET_BLOCK :> <<"bytes">>)

\* worker_storage.c reads each reply with the layout it was sent with
WorkerReadsStorage == StorageSendsWorker

(***************************************************************************)
(* Receiving.  A received message is [op, f], f its decoded fields.        *)
(***************************************************************************)

Msg(o, fs) == [op |-> o, f |-> fs]

NoLayout == [o \in {} |-> <<>>]

\* recv blocked for a payload that never comes
Hung == [k |-> "frame", ok |-> FALSE, n |-> 0, s |-> <<>>]

\* recibir_operacion, then recibir_paquete, then the case of the receiver's
\* switch for that op_code (no case: the payload is discarded); stop when
\* the loop ends: op_code <= 0, a closing op_code, or a size never sent
ReadFrame(ho, L, F, b) ==
    LET o    == BytesInt(ho, SubSeq(b, 1, 4))
        size == BytesInt(ho, SubSeq(b, 5, 8))
    IN  IF o <= 0 THEN [m |-> Msg(o, <<>>), stop |-> TRUE, rest |-> <<>>]
        ELSE IF Len(b) < 8 \/ size < 0 \/ 8 + size > Len(b)
        THEN [m |-> Msg(o, <<Hung>>), stop |-> TRUE, rest |-> <<>>]
        ELSE [m    |-> Msg(o, IF o \in DOMAIN L
                               THEN Decode(ho, L[o], SubSeq(b, 9, 8 + size))
                               ELSE <<>>),
              stop |-> o \in F,
              rest |-> Skip(b, 8 + size)]

\* a receive loop that reads until recv returns 0 (the peer closed)
RECURSIVE Recv(_, _, _, _)
Recv(ho, L, F, b) ==
    IF Len(b) < 4 THEN <<>>
    ELSE LET r == ReadFrame(ho, L, F, b)
         IN  <<r.m>> \o (IF r.stop THEN <<>> ELSE Recv(ho, L, F, r.rest))

(***************************************************************************)
(* A receiving end: accept, the op_code an accept loop reads alone before *)
(* starting the handler (0: none); first, the op_code the handler's first *)
(* read must return (0: none), its payload read with L1; skip, whether a   *)
(* different first op_code is passed over (otherwise the connection is    *)
(* closed unread); then the loop with layouts L, ending on the op_codes F. *)
(***************************************************************************)

\* master_handle_worker: WORKER_IDENTIFICACION first, then its switch
master_handle_worker ==
    [accept |-> 0, first |-> WORKER_IDENTIFICACION, L1 |-> MasterReadsWorker,
     skip |-> FALSE, L |-> MasterReadsWorker, F |-> {}]

\* master_handle_qc: QC_ENVIAR_QUERY first; the loop after it only discards
master_handle_qc ==
    [accept |-> 0, first |-> QC_ENVIAR_QUERY, L1 |-> MasterReadsQc,
     skip |-> FALSE, L |-> NoLayout, F |-> {}]

\* handle_worker of the Storage
handle_worker ==
    [accept |-> 0, first |-> 0, L1 |-> NoLayout, skip |-> FALSE,
     L |-> StorageReadsWorker, F |-> {}]

\* master_accept_loop and the Storage's accept_loop: recibir_operacion
\* alone, then the handler the handshake names
master_accept_loop(hs, h) == [h EXCEPT !.accept = hs]
storage_accept_loop == [handle_worker EXCEPT !.accept = STORAGE_HANDSHAKE]

\* worker.c main reads the payload of a MASTER_ACK only, then
\* master_listener_thread loops
worker_reads_master ==
    [accept |-> 0, first |-> MASTER_ACK, L1 |-> WorkerReadsMaster,
     skip |-> TRUE, L |-> WorkerReadsMaster, F |-> {}]

\* a first read that takes the frame of whatever op_code comes
AnyOp == -1

\* the handshake of query_control.c main: recibir_operacion and
\* recibir_paquete whatever the op_code (a wrong one is only logged, its
\* payload freed unread); then its loop, which returns on MASTER_FIN
qc_reads_master ==
    [accept |-> 0, first |-> AnyOp, L1 |-> NoLayout, skip |-> FALSE,
     L |-> QcReadsMaster, F |-> {MASTER_FIN}]

\* storage_connect_and_handshake, then the reply read of each storage_* call
worker_reads_storage ==
    [accept |-> 0, first |-> STORAGE_BLOCK_SIZE, L1 |-> WorkerReadsStorage,
     skip |-> FALSE, L |-> WorkerReadsStorage, F |-> {}]

\* the accept loop's read: the messages read, whether the handler starts
AcceptRead(rx, ho, b) ==
    LET o == BytesInt(ho, SubSeq(b, 1, 4))
    IN  IF rx.accept = 0 THEN [got |-> <<>>, go |-> TRUE, rest |-> b]
        ELSE IF Len(b) < 4 THEN [got |-> <<>>, go |-> FALSE, rest |-> <<>>]
        ELSE [got |-> <<Msg(o, <<>>)>>, go |-> o = rx.accept, rest |-> Skip(b, 4)]

\* the handler's first read
FirstRead(rx, ho, b) ==
    LET o == BytesInt(ho, SubSeq(b, 1, 4))
        r == ReadFrame(ho, rx.L1, {}, b)
    IN  IF rx.first = 0 \/ Len(b) < 4 THEN [got |-> <<>>, go |-> TRUE, rest |-> b]
        ELSE IF o = rx.first \/ rx.first = AnyOp THEN [got |-> <<r.m>>, go |-> ~r.stop, rest |-> r.rest]
        ELSE [got |-> <<Msg(o, <<>>)>>, go |-> rx.skip, rest |-> Skip(b, 4)]

\* what a receiving end rx reads from the bytes b
Receive(rx, ho, b) ==
    LET a == AcceptRead(rx, ho, b)
        h == FirstRead(rx, ho, a.rest)
    IN  a.got \o IF ~a.go THEN <<>>
                 ELSE h.got \o IF ~h.go THEN <<>> ELSE Recv(ho, rx.L, rx.F, h.rest)

(***************************************************************************)
(* Connections.  Opening: the op_codes a sender starts with; Later: what   *)
(* it may send after them; Closing: what ends the receiver's loop.  The    *)
(* "...Session" connections start where the handler starts reading, as if *)
(* the accept loop had consumed the whole handshake frame.                 *)
(***************************************************************************)

Conn ==
    [QcToMaster            |-> [sends |-> QcSends, opening |-> <<HANDSHAKE_QC, QC_ENVIAR_QUERY>>, later |-> {}],
     QcToMasterSession     |-> [sends |-> QcSends, opening |-> <<QC_ENVIAR_QUERY>>, later |-> {}],
     MasterToQc            |-> [sends |-> MasterSendsQc, opening |-> <<MASTER_ACK>>, later |-> {MASTER_LECTURA, MASTER_FIN}],
     WorkerToMaster        |-> [sends |-> WorkerSendsMaster, opening |-> <<HANDSHAKE_WORKER, WORKER_IDENTIFICACION>>,
                                later |-> {WORKER_LECTURA, WORKER_FIN, WORKER_DEVOLVER_PC}],
     WorkerToMasterSession |-> [sends |-> WorkerSendsMaster, opening |-> <<WORKER_IDENTIFICACION>>,
                                later |-> {WORKER_LECTURA, WORKER_FIN, WORKER_DEVOLVER_PC}],
     MasterToWorker        |-> [sends |-> MasterSendsWorker, opening |-> <<MASTER_ACK>>,
                                later |-> {MASTER_ASIGNAR_QUERY, MASTER_DESALOJAR}],
     WorkerToStorage       |-> [sends |-> WorkerSendsStorage, opening |-> <<STORAGE_HANDSHAKE>>,
                                later |-> DOMAIN WorkerSendsStorage \ {STORAGE_HANDSHAKE}],
     WorkerToStorageSession |-> [sends |-> WorkerSendsStorage, opening |-> <<>>,
                                later |-> DOMAIN WorkerSendsStorage \ {STORAGE_HANDSHAKE}],
     StorageToWorker       |-> [sends |-> StorageSendsWorker, opening |-> <<STORAGE_BLOCK_SIZE>>,
                                later |-> DOMAIN StorageSendsWorker \ {STORAGE_BLOCK_SIZE}]]

\* the receiving end of connection ch
Rx(ch) ==
    CASE ch = "QcToMaster"             -> master_accept_loop(HANDSHAKE_QC, master_handle_qc)
      [] ch = "QcToMasterSession"      -> master_handle_qc
      [] ch = "WorkerToMaster"         -> master_accept_loop(HANDSHAKE_WORKER, master_handle_worker)
      [] ch = "WorkerToMasterSession"  -> master_handle_worker
      [] ch = "MasterToQc"             -> qc_reads_master
      [] ch = "MasterToWorker"         -> worker_reads_master
      [] ch = "WorkerToStorage"        -> storage_accept_loop
      [] ch = "WorkerToStorageSession" -> handle_worker
      [] ch = "StorageToWorker"        -> worker_reads_storage

Closing(ch) == Rx(ch).F
====
