---------------------------- MODULE MCPure ----------------------------
(***************************************************************************)
(* Bounded check of the pure parts of the system: the two selection scans  *)
(* of ReadyQueue against their reference definitions, and the byte format *)
(* of Wire against the values put into it.                                 *)
(*                                                                         *)
(* For ReadyQueue the state is one vector v of length <= MaxLen           *)
(* over -1..MaxPrio, grown one entry per step, so every vector is reached: *)
(*   - as a READY queue, entry i is query i with prioridad v[i] + 1;       *)
(*   - as g_workers, entry i is Worker i, idle when v[i] = -1, otherwise   *)
(*     busy running query i of prioridad v[i].                             *)
(* For Wire the state is one connection conv: its name, the host byte      *)
(* order, and the messages sent on it so far, the opening ones of the      *)
(* connection and then up to MaxLater more, with field values from U32Vals *)
(* and StrVals.  Either v grows or conv does, never both, so the two       *)
(* checks do not multiply.                                                 *)
(***************************************************************************)
EXTENDS Integers, Sequences, SequencesExt

CONSTANTS MaxLen, MaxPrio, NoWorker
CONSTANTS Channels, HostOrders, BlockSize, MaxLater, U32Vals, StrVals

VARIABLES v, conv

vars == <<v, conv>>

RQ == INSTANCE ReadyQueue
W  == INSTANCE Wire

Ids          == [i \in 1..Len(v) |-> i]
QueuePrio    == [i \in 1..Len(v) |-> v[i] + 1]
Busy         == [i \in 1..Len(v) |-> v[i] >= 0]

\* the strings of the fields: empty, and one byte other than NUL
MCStrVals == {<<>>, <<65>>}

NoConv == [ch |-> "none", ho |-> "LE", msgs |-> <<>>]

\* the fields a sender can put for layout ks, and its messages of op_code o
RECURSIVE Fill(_)
Fill(ks) ==
    IF ks = <<>> THEN {<<>>}
    ELSE LET k    == Head(ks)
             vals == IF k = "u32"
                     THEN {[k |-> k, n |-> x, s |-> <<>>] : x \in U32Vals}
                     ELSE IF k \in {"bytes", "data"}
                     THEN {[k |-> k, n |-> 0, s |-> b] : b \in [1..BlockSize -> {0, 7}]}
                     ELSE {[k |-> k, n |-> 0, s |-> t] : t \in StrVals}
         IN  {<<x>> \o r : x \in vals, r \in Fill(Tail(ks))}

Messages(L, o) == {W!Msg(o, fs) : fs \in Fill(L[o])}

RECURSIVE Openings(_, _)
Openings(L, ops) ==
    IF ops = <<>> THEN {<<>>}
    ELSE {<<m>> \o r : m \in Messages(L, Head(ops)), r \in Openings(L, Tail(ops))}

Init == v = <<>> /\ conv = NoConv

Grow == /\ conv = NoConv
        /\ Len(v) < MaxLen
        /\ \E p \in -1..MaxPrio : v' = Append(v, p)
        /\ UNCHANGED conv

Open == /\ v = <<>> /\ conv = NoConv
        /\ \E ch \in Channels, ho \in HostOrders :
             \E ms \in Openings(W!Conn[ch].sends, W!Conn[ch].opening) :
                conv' = [ch |-> ch, ho |-> ho, msgs |-> ms]
        /\ UNCHANGED v

Send == /\ conv # NoConv
        /\ Len(conv.msgs) < Len(W!Conn[conv.ch].opening) + MaxLater
        /\ \E o \in W!Conn[conv.ch].later :
             \E m \in Messages(W!Conn[conv.ch].sends, o) :
                conv' = [conv EXCEPT !.msgs = Append(@, m)]
        /\ UNCHANGED v

Next == Grow \/ Open \/ Send

Spec == Init /\ [][Next]_vars

(* pop_ready_siguiente under PRIORIDADES hands out the earliest query of   *)
(* minimal prioridad and leaves the others in the queue in their original  *)
(* relative order (spec 4.1, "non-destructive scan").                      *)
PopIsStableMin ==
    Len(v) > 0 =>
        LET r == RQ!PopNext(Ids, QueuePrio, "PRIORIDADES")
            k == RQ!StableMinIndex(Ids, QueuePrio)
        IN  /\ r[1] = k
            /\ r[2] = SelectSeq(Ids, LAMBDA x : x # k)

(* The victim scan of master_scheduler_loop picks, for every incoming       *)
(* priority, the last busy Worker among those running the numerically      *)
(* worst query strictly worse than the incoming one (spec 4.3).            *)
VictimIsLastWorst ==
    \A prioIn \in 0..MaxPrio :
        RQ!SelectVictim(Ids, Busy, Ids, v, prioIn)
            = RQ!VictimReference(Ids, Busy, Ids, v, prioIn)
(* On the connections a cfg's Channels name, the receiving end reads back *)
(* every message its sender wrote, op_code and field values, in order,   *)
(* until it closes by design: the senders' enviar_paquete and             *)
(* paquete_add_string agree with the receivers' recibir_operacion,         *)
(* recibir_paquete, handlers and field readers.  MCPure.cfg takes the     *)
(* Session channels (handlers from their first read after the handshake)  *)
(* and the Worker's handshakes; the accept loops and MasterToQc have their *)
(* own configurations.                                                     *)
FieldMatch(x, y) == y.ok /\ y.n = x.n /\ y.s = x.s

MsgMatch(x, y) ==
    /\ y.op = x.op
    /\ Len(y.f) = Len(x.f)
    /\ \A j \in DOMAIN x.f : FieldMatch(x.f[j], y.f[j])

\* the receiver read got back from sent, up to where it closes by design
Delivered(ch, sent, got) ==
    /\ Len(got) <= Len(sent)
    /\ \A i \in 1..Len(got) : MsgMatch(sent[i], got[i])
    /\ Len(got) = Len(sent) \/ (got # <<>> /\ Last(got).op \in W!Closing(ch))

FramesRoundTrip ==
    conv # NoConv =>
        Delivered(conv.ch, conv.msgs,
                  W!Receive(W!Rx(conv.ch), conv.ho, W!Stream(conv.ho, conv.msgs)))
=============================================================================
