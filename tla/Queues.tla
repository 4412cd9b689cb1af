------------------------------- MODULE Queues -------------------------------
(***************************************************************************)
(* Messages in persistent queues: tpenqueue and tpdequeue of a TypedUbf    *)
(* with a TPQCTL object, whose fields are copied to C before the call and  *)
(* back after it.  The queue holds one message (a bound); it is the copy   *)
(* of a buffer that Bwrite and JSON are in UbfStreams.                     *)
(***************************************************************************)
EXTENDS UbfStreams

VARIABLE qctl   \* the TPQCTL object after the last queue call

\* The fields of TPQCTL in the order of M_fieldmap, by the way they are copied:
\* num (flags, priority), diagnostic, diagmsg, ids (msgid, corrid), late (the
\* strings and longs after them), and the ClientId, which has no place in the
\* table.  deq_time has none either: no call reads or sets it.  Null is null in
\* Java; an array may have another length than C expects.
WrongLength == -3
Fresh == [num |-> 0, diag |-> 0, diagmsg |-> Null, ids |-> 0, late |-> Null, clt |-> Null]
Used == [num |-> 1, diag |-> 1, diagmsg |-> 1, ids |-> 1, late |-> 1, clt |-> 1]
Blocks == {Fresh, [Fresh EXCEPT !.ids = Null], Used, [Used EXCEPT !.ids = WrongLength]}

\* What the queue reports when it refuses a call.
Refusal == 2

-----------------------------------------------------------------------------
(* Copies of the control block. *)

\* null becomes an empty string, zero bytes, an empty client id.
Empty(v) == IF v = Null THEN 0 ELSE v

cvt_to_c(ctl) == [f \in DOMAIN ctl \ {"clt"} |-> Empty(ctl[f])]

TPQCTL_translate2c(ctl) ==
    [f \in DOMAIN ctl |-> IF f = "clt" THEN Empty(ctl.clt) ELSE cvt_to_c(ctl)[f]]

\* Mapped fields, with the strings as Java gets them.
Whole(ctl, q, m, l) == [q EXCEPT !.clt = ctl.clt, !.diagmsg = m, !.late = l]

\* The copy ends at the arrays.
CutOff(ctl, q, m) == [ctl EXCEPT !.num = q.num, !.diag = q.diag, !.diagmsg = m]

\* Mutation of cvt_to_java: the copy always ends there.
cvt_to_java_short(ctl, q, pending) == {CutOff(ctl, q, q.diagmsg)}

\* With an exception pending or no memory left, a string may become null, and
\* the copy ends where an array cannot be made.
cvt_to_java(ctl, q, pending) ==
    LET Strings(v) == IF pending THEN {v, Null} ELSE {v}
    IN  {Whole(ctl, q, m, l) : m \in Strings(q.diagmsg), l \in Strings(q.late)}
        \cup {CutOff(ctl, q, m) : m \in IF pending THEN Strings(q.diagmsg) ELSE {}}

\* The ClientId is made last.
TPQCTL_translate2java(ctl, q, pending) ==
    {[j EXCEPT !.clt = c] : j \in cvt_to_java(ctl, q, pending),
                            c \in {q.clt} \cup IF pending THEN {ctl.clt} ELSE {}}

\* libatmi: how a call may fail, and the control block it then leaves.
Failures(q) == {[ex |-> "TPEDIAGNOSTIC", q |-> [q EXCEPT !.diag = Refusal, !.diagmsg = Refusal]],
                [ex |-> "TPETIME", q |-> q]}

-----------------------------------------------------------------------------
(* The calls. *)

\* libatmi: the message is in the queue.
Queued(b, q) ==
    /\ copy.kind # "queue"
    /\ copy' = [kind |-> "queue", data |-> ub[b], ctl |-> q]
    /\ saved' = ub[b]
    /\ UNCHANGED <<ub, loc, batch, iter>>

\* The block is copied back after success; the message is sent even if Java
\* has no memory for the copy.
Copied(ctl, q) ==
    \/ ret' = Ok(0) /\ qctl' \in TPQCTL_translate2java(ctl, q, FALSE)
    \/ ret' = Throw("OutOfMemoryError") /\ qctl' \in TPQCTL_translate2java(ctl, q, TRUE)

\* Mutation of tpenqueue_int: a method that has thrown leaves.
tpenqueue_int_out(b, ctl) ==
    LET q == TPQCTL_translate2c(ctl)
    IN  IF q.ids = WrongLength THEN Return(Throw("TPEINVAL")) /\ qctl' = ctl
        ELSE \/ Queued(b, q) /\ Copied(ctl, q)
             \/ \E e \in Failures(q) : Return(Throw(e.ex)) /\ qctl' = ctl

\* A call that fails throws first, and then copies the block back with the
\* exception pending.  After a timeout the message may be in the queue.
tpenqueue_int(b, ctl) ==
    LET q == TPQCTL_translate2c(ctl)
    IN  IF q.ids = WrongLength THEN Return(Throw("TPEINVAL")) /\ qctl' = ctl
        ELSE \/ Queued(b, q) /\ Copied(ctl, q)
             \/ \E e \in Failures(q) :
                   /\ \/ Return(Throw(e.ex))
                      \/ e.ex = "TPETIME" /\ Queued(b, q) /\ ret' = Throw(e.ex)
                   /\ qctl' \in TPQCTL_translate2java(ctl, e.q, TRUE)

\* tpenqueue names a queue space, tpenqueueex a server; both in one way.
tpenqueue(b, ctl) == tpenqueue_int(b, ctl)

\* The message replaces the contents of b.  The library would enlarge the C
\* buffer of b for a longer message (a bound: the sizes are fixed here).
Taken(b) ==
    /\ copy.kind = "queue" /\ Len(copy.data) <= Cap(b)
    /\ ub' = [ub EXCEPT ![b] = copy.data]
    /\ batch' = IF batch = b THEN None ELSE batch
    /\ iter' = IF iter.b = b THEN NoIter ELSE iter
    /\ copy' = NoCopy
    /\ UNCHANGED <<loc, saved>>

\* A call that fails copies the block first and then throws.  After a timeout
\* the message may have left the queue.
tpdequeue_int(b, ctl) ==
    LET q == TPQCTL_translate2c(ctl)
    IN  IF q.ids = WrongLength THEN Return(Throw("TPEINVAL")) /\ qctl' = ctl
        ELSE \/ Taken(b) /\ Copied(ctl, copy.ctl)
             \/ \E e \in Failures(q) :
                   /\ \/ Return(Throw(e.ex))
                      \/ /\ e.ex = "TPETIME" /\ copy.kind = "queue" /\ copy' = NoCopy
                         /\ ret' = Throw(e.ex)
                         /\ UNCHANGED <<ub, loc, batch, iter, saved>>
                   /\ qctl' \in TPQCTL_translate2java(ctl, e.q, FALSE)

tpdequeue(b, ctl) == tpdequeue_int(b, ctl)

QueueInit == UbfInit /\ qctl = Fresh

QueueNext ==
    \/ UbfNext /\ UNCHANGED qctl
    \/ \E b \in Bufs, ctl \in Blocks : tpenqueue(b, ctl) \/ tpdequeue(b, ctl)

QueueSpec == QueueInit /\ [][QueueNext]_<<vars, qctl>>

-----------------------------------------------------------------------------
(* Properties. *)

\* A receiver whose tpdequeue returns finds in its buffer what the sender had
\* put in, and in its TPQCTL the mapped fields the sender had set, null ones as
\* empty ones, whatever the buffer and the TPQCTL it gave to the call held.
MessageKept ==
    [][copy.kind = "queue" /\ copy' = NoCopy /\ ret'.ex = "none" =>
          /\ \E b \in Bufs : ub'[b] = saved
          /\ qctl' = copy.ctl]_<<vars, qctl>>

\* The TPQCTL that AtmiTPEDIAGNOSTICException.getQctl gives has the diagnostic
\* of the call that failed, never the one an earlier call left in the object,
\* although tpenqueue throws before it copies the block.
Diagnosed ==
    [][ret'.ex = "TPEDIAGNOSTIC" => qctl'.diag = Refusal]_<<vars, qctl>>
=============================================================================
