---------------------------- MODULE TTLDiscovery ----------------------------
(***************************************************************************)
(* What hop-distance discovery promises (spec 3 "TTL Focus", 4.3), as an   *)
(* abstract specification of the TTL focus table: a destination is first  *)
(* BRUTALFORCE with no usable distance; it may give up (UNKNOWN) or learn  *)
(* a TTL at which packets reach it (KNOWN).  The recorded distance only    *)
(* ever decreases and is never below the real one.  Nothing else changes. *)
(***************************************************************************)
EXTENDS Naturals

CONSTANTS Dst, Hops       \* Hops[d]: routers up to and including d

VARIABLE focus            \* d -> [status, dist] for every tracked d

NoDistance == 255

Init == focus = [d \in {} |-> [status |-> "BRUTALFORCE", dist |-> NoDistance]]

\* A destination starts being tracked, with no distance yet.
Track(d) ==
    /\ d \notin DOMAIN focus
    /\ focus' = [x \in DOMAIN focus \cup {d} |->
                    IF x = d THEN [status |-> "BRUTALFORCE", dist |-> NoDistance]
                    ELSE focus[x]]

\* The probe budget is spent: the distance stays unknown.
GiveUp(d) ==
    /\ d \in DOMAIN focus
    /\ focus[d].status = "BRUTALFORCE"
    /\ focus' = [focus EXCEPT ![d].status = "UNKNOWN"]

\* A TTL t at which packets reach d is observed: d is KNOWN, and t
\* becomes its distance when it improves on the recorded one.
Learn(d, t) ==
    /\ d \in DOMAIN focus
    /\ focus' = [focus EXCEPT ![d] = [status |-> "KNOWN",
                                      dist   |-> IF t < @.dist THEN t ELSE @.dist]]

Next ==
    \E d \in Dst :
        \/ Track(d)
        \/ GiveUp(d)
        \/ \E t \in Hops[d]..NoDistance : Learn(d, t)

Spec == Init /\ [][Next]_focus
=============================================================================
