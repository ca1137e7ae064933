--------------------------- MODULE HackPacketPool ---------------------------
(***************************************************************************)
(* The plugin pool of TCPTrack (TCPTrack.cc): the HackPacketPool          *)
(* constructor reads the plugin enabler file line by line, dlopens each   *)
(* library into the fixed array listOfHacks, then creates one object per  *)
(* library, checks it with verifyPluginIntegirty and pushes it into the    *)
(* pool vector that inject_hack_in_queue walks; the destructor closes the *)
(* libraries again.  inject_hack_in_queue copies the pool on every call,   *)
(* and the copy's destruction runs the same destructor.                    *)
(*                                                                         *)
(* The file is a constant: a sequence of line kinds and whether its last  *)
(* line ends in a newline.  A library is named by the line it came from.  *)
(*   "comment"  a line starting with '#'                                   *)
(*   "short"    fewer than 4 characters after chop() (an empty line too)  *)
(*   "missing"  a name dlopen cannot load                                  *)
(*   "invalid"  a library whose object has no hackName or frequency 0     *)
(*   "valid"    a library whose object passes verifyPluginIntegirty        *)
(***************************************************************************)
EXTENDS Integers, Sequences, SequencesExt

CONSTANTS
    MAXPLUGINS,     \* size of listOfHacks (hardcoded-defines.h)
    Files,          \* the enabler files the constructor may find
    MaxCopies       \* bound on the calls of inject_hack_in_queue

Kinds == {"comment", "short", "missing", "invalid", "valid"}

ASSUME MAXPLUGINS \in Nat \ {0}
ASSUME \A f \in Files : f.lines \in Seq(Kinds) /\ f.nl \in BOOLEAN

VARIABLES
    file,           \* the enabler file
    plugfile,       \* fopen succeeded
    pc,             \* "read", "create", "running", "destroy", "exited"
    line,           \* lines fgets has returned
    n_plugin,
    fail,           \* *fail, TCPTrack's member
    listOfHacks,    \* slot -> [lib: line of the library or 0, selfObj]
    created,        \* the index of the object-creating for loop
    pool,           \* the vector: track_index of each HackPacketPoolElem
    closed,         \* library -> number of dlclose calls on it
    copies          \* calls of inject_hack_in_queue so far

vars == <<file, plugfile, pc, line, n_plugin, fail, listOfHacks, created,
          pool, closed, copies>>

Slots == 0 .. MAXPLUGINS - 1

\* Libraries the reading loop opened: the slots memset did not leave at 0.
Opened == {listOfHacks[j].lib : j \in Slots} \ {0}

\* The constructor up to the reading loop: listOfHacks zeroed, the file
\* opened, or *fail set and an early return.
Init ==
    /\ file \in Files
    /\ plugfile \in BOOLEAN
    /\ pc = IF plugfile THEN "read" ELSE "running"
    /\ line = 0
    /\ n_plugin = 0
    /\ fail = ~plugfile
    /\ listOfHacks = [j \in Slots |-> [lib |-> 0, selfObj |-> FALSE]]
    /\ created = 0
    /\ pool = <<>>
    /\ closed = [l \in 1 .. Len(file.lines) |-> 0]
    /\ copies = 0

\* After the loop: with *fail set or no plugin the constructor returns,
\* otherwise it creates the objects.
AfterLoop(f, n) == IF f \/ n = 0 THEN "running" ELSE "create"

ExitLoop(f) ==
    /\ fail' = f
    /\ pc' = AfterLoop(f, n_plugin)
    /\ UNCHANGED <<listOfHacks, n_plugin>>

\* The library dlopen loaded goes to the next slot.
Open(ln) ==
    /\ listOfHacks' = [listOfHacks EXCEPT ![n_plugin].lib = ln]
    /\ n_plugin' = n_plugin + 1
    /\ UNCHANGED <<fail, pc>>

\* Fault: the limit is tested against the array size.
ReadLine_nolimit ==
    /\ pc = "read"
    /\ line < Len(file.lines)
    /\ line' = line + 1
    /\ LET ln == line + 1
           k == file.lines[ln]
           eof == ln = Len(file.lines) /\ ~file.nl
       IN CASE k = "comment" -> IF eof THEN ExitLoop(fail)
                                ELSE UNCHANGED <<fail, pc, listOfHacks, n_plugin>>
            [] k = "short" \/ eof -> ExitLoop(fail)
            [] n_plugin = MAXPLUGINS \/ k = "missing" -> ExitLoop(TRUE)
            [] OTHER -> Open(ln)
    /\ UNCHANGED <<file, plugfile, created, pool, closed, copies>>

\* One pass of the do-while: fgets reads a line, which sets feof when the
\* file ends without a newline; a comment goes on to the loop test; chop()
\* cuts the last character and a short name or feof ends the loop; then
\* the MAXPLUGINS - 1 limit and a failed dlopen set *fail and break.
ReadLine ==
    /\ pc = "read"
    /\ line < Len(file.lines)
    /\ line' = line + 1
    /\ LET ln == line + 1
           k == file.lines[ln]
           eof == ln = Len(file.lines) /\ ~file.nl
       IN CASE k = "comment" -> IF eof THEN ExitLoop(fail)
                                ELSE UNCHANGED <<fail, pc, listOfHacks, n_plugin>>
            [] k = "short" \/ eof -> ExitLoop(fail)
            [] n_plugin = MAXPLUGINS - 1 \/ k = "missing" -> ExitLoop(TRUE)
            [] OTHER -> Open(ln)
    /\ UNCHANGED <<file, plugfile, created, pool, closed, copies>>

\* fgets returns NULL after a last line that ended in a newline (or on an
\* empty file): feof is now set and the loop ends whichever branch the
\* stale buffer takes.
EndOfFile ==
    /\ pc = "read"
    /\ line = Len(file.lines)
    /\ pc' = AfterLoop(fail, n_plugin)
    /\ UNCHANGED <<file, plugfile, line, n_plugin, fail, listOfHacks,
                   created, pool, closed, copies>>

\* The object of a library has a hackName and a non-zero hack_frequency.
verifyPluginIntegirty(k) == k = "valid"

\* The pool element of plugin i: HackPacketPoolElem copies the
\* obviously_true flag into enabled and keeps the index.
HackPacketPoolElem(i) == i

\* Fault: a failed check skips the plugin without setting *fail.
Create_silent ==
    /\ pc = "create"
    /\ LET ok == verifyPluginIntegirty(file.lines[listOfHacks[created].lib])
       IN /\ listOfHacks' = [listOfHacks EXCEPT ![created].selfObj = ok]
          /\ pool' = IF ok THEN Append(pool, HackPacketPoolElem(created)) ELSE pool
          /\ UNCHANGED fail
    /\ created' = created + 1
    /\ pc' = IF created + 1 = n_plugin THEN "running" ELSE "create"
    /\ UNCHANGED <<file, plugfile, line, n_plugin, closed, copies>>

\* One pass of the for loop over the opened libraries: CreateHackObject,
\* then either *fail and continue, or selfObj and push_back.
Create ==
    /\ pc = "create"
    /\ LET ok == verifyPluginIntegirty(file.lines[listOfHacks[created].lib])
       IN /\ listOfHacks' = [listOfHacks EXCEPT ![created].selfObj = ok]
          /\ pool' = IF ok THEN Append(pool, HackPacketPoolElem(created)) ELSE pool
          /\ fail' = (fail \/ ~ok)
    /\ created' = created + 1
    /\ pc' = IF created + 1 = n_plugin THEN "running" ELSE "create"
    /\ UNCHANGED <<file, plugfile, line, n_plugin, closed, copies>>

\* TCPTrack is destroyed, which runs the pool's destructor.
Shutdown ==
    /\ pc = "running"
    /\ pc' = "destroy"
    /\ UNCHANGED <<file, plugfile, line, n_plugin, fail, listOfHacks,
                   created, pool, closed, copies>>

\* dlclose of the handler in slot j.
Close(c, j) == [c EXCEPT ![listOfHacks[j].lib] = @ + 1]

\* inject_hack_in_queue: HackPacketPool applicable_hacks = hack_pool copies
\* n_plugin and listOfHacks with the vector, and when the call returns the
\* copy's destructor runs while(n_plugin--) on them: DeleteHackObject on
\* every plugin's object and dlclose of every handler.  hack_pool itself
\* is unchanged.
InjectCopy ==
    /\ pc = "running"
    /\ copies < MaxCopies
    /\ copies' = copies + 1
    /\ closed' = [l \in DOMAIN closed |->
                     closed[l] + IF \E j \in 0 .. n_plugin - 1 : listOfHacks[j].lib = l
                                 THEN 1 ELSE 0]
    /\ UNCHANGED <<file, plugfile, pc, line, n_plugin, fail, listOfHacks,
                   created, pool>>

\* Fault: the loop stops while one plugin is left.
Destroy_stopone ==
    /\ pc = "destroy"
    /\ n_plugin' = n_plugin - 1
    /\ IF n_plugin <= 1 THEN pc' = "exited" /\ UNCHANGED closed
       ELSE closed' = Close(closed, n_plugin - 1) /\ UNCHANGED pc
    /\ UNCHANGED <<file, plugfile, line, fail, listOfHacks, created, pool, copies>>

\* One test of while(n_plugin--) and its body: DeleteHackObject on the
\* slot's selfObj (NULL when it was never set) and dlclose of its handler.
Destroy ==
    /\ pc = "destroy"
    /\ n_plugin' = n_plugin - 1
    /\ IF n_plugin = 0 THEN pc' = "exited" /\ UNCHANGED closed
       ELSE closed' = Close(closed, n_plugin - 1) /\ UNCHANGED pc
    /\ UNCHANGED <<file, plugfile, line, fail, listOfHacks, created, pool, copies>>

Next == ReadLine \/ EndOfFile \/ Create \/ InjectCopy \/ Shutdown \/ Destroy

Spec == Init /\ [][Next]_vars

-----------------------------------------------------------------------------
(* Properties *)

TypeOK ==
    /\ pc \in {"read", "create", "running", "destroy", "exited"}
    /\ n_plugin \in -1 .. MAXPLUGINS - 1
    /\ fail \in BOOLEAN
    /\ listOfHacks \in [Slots -> [lib : 0 .. Len(file.lines), selfObj : BOOLEAN]]
    /\ created \in 0 .. MAXPLUGINS - 1
    /\ pool \in Seq(Slots)
    /\ closed \in [1 .. Len(file.lines) -> 0 .. MaxCopies + 1]
    /\ copies \in 0 .. MaxCopies

\* The pool inject_hack_in_queue walks holds, in track_index order and
\* once each, only plugins whose object passed verifyPluginIntegirty; and
\* when the constructor leaves *fail clear, it holds every library the
\* reading loop opened, so a clear fail means no plugin was lost.
PoolHoldsVerifiedPlugins ==
    /\ \A a \in 1 .. Len(pool) : listOfHacks[pool[a]].selfObj
    /\ \A a, b \in 1 .. Len(pool) : a < b => pool[a] < pool[b]
    /\ pc = "running" /\ ~fail =>
           ToSet(pool) = {j \in Slots : listOfHacks[j].lib # 0}

\* The destructor releases what the constructor acquired: when the process
\* exits, every library the reading loop dlopened has been dlclosed, the
\* one in slot 0 and those opened before a failed dlopen included.
HandlesReleasedAtExit ==
    pc = "exited" => \A l \in Opened : closed[l] >= 1

\* hack_pool is "the unique HackPacketPool element" (comment above the
\* constructor): while TCPTrack runs, the library of every plugin in the
\* pool stays loaded, since inject_hack_in_queue calls into the plugin's
\* object (Condition, createHack) on every packet it hacks.
PoolPluginsLoaded ==
    pc = "running" => \A a \in 1 .. Len(pool) : closed[listOfHacks[pool[a]].lib] = 0
=============================================================================
