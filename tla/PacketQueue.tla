---------------------------- MODULE PacketQueue ----------------------------
(***************************************************************************)
(* The packet queue p_queue used by TCPTrack (spec section 4.1; the class  *)
(* itself is not part of src/).  A queue is a record of two tiers, HIGH    *)
(* (TTL probes) served before LOW (everything else), each a sequence of    *)
(* packet records carrying a unique field id.                              *)
(*                                                                         *)
(* get() is a restartable cursor shared by every traversal of the queue:   *)
(* get(..., false) restarts it, get(..., true) continues after the         *)
(* previous match.  The cursor is represented by the set `passed` of the   *)
(* ids at or before it; an exhausted cursor has passed every packet.       *)
(***************************************************************************)
EXTENDS Sequences, SequencesExt

NoPkt == 0          \* the NULL returned by get()
ANY   == "ANY"      \* the ANY_STATUS / ANY_SOURCE / ANY_PROTO wildcard

Tiers == {"high", "low"}

EmptyQueue == [high |-> <<>>, low |-> <<>>]

\* The order in which get() scans the queue: the HIGH tier, then the LOW one.
Order(q) == q.high \o q.low

IdsOf(s) == {s[i].id : i \in DOMAIN s}

QueueIds(q) == IdsOf(Order(q))

\* The packet record with identifier id.
PktOf(q, id) == LET o == Order(q) IN o[SelectInSeq(o, LAMBDA p : p.id = id)]

Matches(p, status, source, proto) ==
    /\ status = ANY \/ p.status = status
    /\ source = ANY \/ p.src = source
    /\ proto  = ANY \/ p.proto = proto

(***************************************************************************)
(* get(status, source, proto, advance): the next matching packet and the   *)
(* new cursor, as a record [pkt |-> id or NoPkt, passed |-> ids].          *)
(***************************************************************************)
Get(q, passed, status, source, proto, advance) ==
    LET o    == Order(q)
        from == IF advance THEN passed ELSE {}
        i    == SelectInSeq(o, LAMBDA p : p.id \notin from
                                          /\ Matches(p, status, source, proto))
    IN  IF i = 0 THEN [pkt |-> NoPkt, passed |-> IdsOf(o)]
                 ELSE [pkt |-> o[i].id, passed |-> from \cup IdsOf(SubSeq(o, 1, i))]

\* insert(prio, pkt): append to the tier.
Insert(q, tier, p) == [q EXCEPT ![tier] = Append(@, p)]

\* The tier holding packet id, and its index there.
TierOf(q, id) == IF id \in IdsOf(q.high) THEN "high" ELSE "low"
IndexOf(q, id) == SelectInSeq(q[TierOf(q, id)], LAMBDA p : p.id = id)

\* insert_before / insert_after: place p next to the anchor in its tier.
InsertBefore(q, p, anchor) ==
    LET t == TierOf(q, anchor) IN [q EXCEPT ![t] = InsertAt(@, IndexOf(q, anchor), p)]
InsertAfter(q, p, anchor) ==
    LET t == TierOf(q, anchor) IN [q EXCEPT ![t] = InsertAt(@, IndexOf(q, anchor) + 1, p)]

\* remove(pkt): detach the packet from whichever tier holds it.
Detach(q, id) == [t \in Tiers |-> SelectSeq(q[t], LAMBDA p : p.id # id)]

\* In-place update of the packet id's record by F.
Update(q, id, F(_)) ==
    [t \in Tiers |-> [i \in DOMAIN q[t] |-> IF q[t][i].id = id THEN F(q[t][i]) ELSE q[t][i]]]

\* Set the status of every packet satisfying Test.
MarkAll(q, Test(_), status) ==
    [t \in Tiers |-> [i \in DOMAIN q[t] |->
        IF Test(q[t][i]) THEN [q[t][i] EXCEPT !.status = status] ELSE q[t][i]]]
=============================================================================
