----------------------------- MODULE PluginCache -----------------------------
(***************************************************************************)
(* PluginCache (src/src/service/Plugin.cc), the cache a plugin keeps of    *)
(* the packets it has seen: two generations of records, `first` (older)    *)
(* and `second` (fresher), as vectors.  add() appends to second; check()   *)
(* first lets manage() rotate the generations, then looks for a record the *)
(* filter accepts in first, moving a hit to second, and then in second.    *)
(* manage() frees every record of first and swaps the two vectors once     *)
(* manage_timeout <= sj_clock - timeout_len.                               *)
(*                                                                         *)
(* A record is [addr, key]: addr is the pointer new returned (freed ones   *)
(* may be reused), key stands for the cached packet as far as the plugin's *)
(* filter looks at it, and check(k) uses the filter "same key".  The       *)
(* record's access_timestamp and cached data are for the plugin alone:     *)
(* nothing under src/ reads them.  sj_clock advances one second per Tick.  *)
(*                                                                         *)
(* touched and rotated are history variables for the properties: the last *)
(* time each record was added or returned by check(), and the times of    *)
(* the last two rotations.                                                 *)
(***************************************************************************)
EXTENDS Integers, Sequences, SequencesExt, Functions

CONSTANTS
    Keys,          \* what the plugins' filters tell apart
    Addrs,         \* the addresses new can return
    timeout_len,   \* the timeout the cache was built with
    MaxClock       \* bound on sj_clock

VARIABLES first, second, manage_timeout, sj_clock, found, touched, rotated

vars == <<first, second, manage_timeout, sj_clock, found, touched, rotated>>

NoRecord == "NULL"

AddrsOf(v) == {v[i].addr : i \in DOMAIN v}
InUse == AddrsOf(first) \cup AddrsOf(second)

\* PluginCache::PluginCache(timeout), built when sj_clock is 0.
Init ==
    /\ first = <<>>
    /\ second = <<>>
    /\ sj_clock = 0
    /\ manage_timeout = sj_clock + timeout_len
    /\ found = NoRecord
    /\ touched = [a \in Addrs |-> 0]
    /\ rotated = <<0, 0>>

\* manage(): the generations after it, as [first, second, manage_timeout].
\* Fault: the records of first are not freed before the swap.
manage_keep(f, s, mt) ==
    IF mt > sj_clock - timeout_len THEN [first |-> f, second |-> s, manage_timeout |-> mt]
    ELSE [first |-> s, second |-> f, manage_timeout |-> sj_clock + timeout_len]

\* Fault: the next rotation is scheduled two timeouts ahead.
manage_late(f, s, mt) ==
    IF mt > sj_clock - timeout_len THEN [first |-> f, second |-> s, manage_timeout |-> mt]
    ELSE [first |-> s, second |-> <<>>, manage_timeout |-> sj_clock + 2 * timeout_len]

manage(f, s, mt) ==
    IF mt > sj_clock - timeout_len THEN [first |-> f, second |-> s, manage_timeout |-> mt]
    ELSE [first |-> s, second |-> <<>>, manage_timeout |-> sj_clock + timeout_len]

\* The record returned, and the generations after the search, for the
\* generations g after manage().
\* Fault: a hit in first is returned without moving it to second.
Lookup_nomove(g, k) ==
    LET i == SelectInSeq(g.first, LAMBDA r : r.key = k)
        j == SelectInSeq(g.second, LAMBDA r : r.key = k)
    IN  CASE i # 0 -> [found |-> g.first[i].addr, first |-> g.first, second |-> g.second]
          [] j # 0 -> [found |-> g.second[j].addr, first |-> g.first, second |-> g.second]
          [] OTHER -> [found |-> NoRecord, first |-> g.first, second |-> g.second]

\* Fault: a hit in first is appended to second but not erased from first.
Lookup_noerase(g, k) ==
    LET i == SelectInSeq(g.first, LAMBDA r : r.key = k)
        j == SelectInSeq(g.second, LAMBDA r : r.key = k)
    IN  CASE i # 0 -> [found |-> g.first[i].addr, first |-> g.first,
                       second |-> Append(g.second, g.first[i])]
          [] j # 0 -> [found |-> g.second[j].addr, first |-> g.first, second |-> g.second]
          [] OTHER -> [found |-> NoRecord, first |-> g.first, second |-> g.second]

Lookup(g, k) ==
    LET i == SelectInSeq(g.first, LAMBDA r : r.key = k)
        j == SelectInSeq(g.second, LAMBDA r : r.key = k)
    IN  CASE i # 0 -> [found |-> g.first[i].addr, first |-> RemoveAt(g.first, i),
                       second |-> Append(g.second, g.first[i])]
          [] j # 0 -> [found |-> g.second[j].addr, first |-> g.first, second |-> g.second]
          [] OTHER -> [found |-> NoRecord, first |-> g.first, second |-> g.second]

\* check(filter, pkt) for a packet the filter matches with key k.
check(k) ==
    LET g == manage(first, second, manage_timeout)
        l == Lookup(g, k)
    IN  /\ first' = l.first
        /\ second' = l.second
        /\ manage_timeout' = g.manage_timeout
        /\ found' = l.found
        /\ touched' = IF l.found = NoRecord THEN touched
                      ELSE [touched EXCEPT ![l.found] = sj_clock]
        /\ rotated' = IF g.manage_timeout = manage_timeout THEN rotated
                      ELSE <<rotated[2], sj_clock>>
        /\ UNCHANGED sj_clock

\* add(pkt): a new record, at an address not in use, appended to second.
add(k) ==
    \E a \in Addrs \ InUse :
        /\ second' = Append(second, [addr |-> a, key |-> k])
        /\ found' = a
        /\ touched' = [touched EXCEPT ![a] = sj_clock]
        /\ UNCHANGED <<first, manage_timeout, sj_clock, rotated>>

\* explicitDelete(record): free the record, looked for in first, then in
\* second.
explicitDelete(a) ==
    LET i == SelectInSeq(first, LAMBDA r : r.addr = a)
        j == SelectInSeq(second, LAMBDA r : r.addr = a)
    IN  /\ a \in InUse
        /\ IF i # 0 THEN /\ first' = RemoveAt(first, i) /\ UNCHANGED second
                    ELSE /\ second' = RemoveAt(second, j) /\ UNCHANGED first
        /\ found' = NoRecord
        /\ UNCHANGED <<manage_timeout, sj_clock, touched, rotated>>

\* The daemon's main loop advances sj_clock.
Tick ==
    /\ sj_clock < MaxClock
    /\ sj_clock' = sj_clock + 1
    /\ UNCHANGED <<first, second, manage_timeout, found, touched, rotated>>

Next ==
    \/ \E k \in Keys : check(k) \/ add(k)
    \/ \E a \in Addrs : explicitDelete(a)
    \/ Tick

Spec == Init /\ [][Next]_vars

-----------------------------------------------------------------------------
(* Properties.                                                             *)

Record == [addr : Addrs, key : Keys]

TypeOK ==
    /\ first \in Seq(Record) /\ second \in Seq(Record)
    /\ manage_timeout \in 0..(MaxClock + timeout_len) /\ sj_clock \in 0..MaxClock
    /\ found \in Addrs \cup {NoRecord}
    /\ touched \in [Addrs -> 0..MaxClock]
    /\ rotated \in (0..MaxClock) \X (0..MaxClock)

\* No record is in the cache twice, and no two records share an address:
\* the vector moves of check() and the swap of manage() neither duplicate
\* nor lose a pointer, so the destructor and manage() free each once.
NoAliasing ==
    /\ IsInjective([i \in DOMAIN (first \o second) |-> (first \o second)[i].addr])

\* A record the plugin added or got back from check() within the last
\* timeout_len seconds is still cached: only explicitDelete removes it
\* earlier.  manage() frees only records that have stayed in first, i.e.
\* not been touched, for a whole generation.
CacheRetention ==
    [][(\A a \in Addrs : ~explicitDelete(a)) =>
          \A a \in InUse \ (AddrsOf(first') \cup AddrsOf(second')) :
              sj_clock - touched[a] >= timeout_len]_vars

\* The cache holds only records touched since the rotation before the
\* last one: manage() frees the older generation at every rotation, so a
\* plugin's cache cannot keep a record from earlier generations.
TwoGenerations ==
    \A a \in InUse : touched[a] >= rotated[1]
=============================================================================
