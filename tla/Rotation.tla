------------------------------ MODULE Rotation ------------------------------
(***************************************************************************)
(* What rotating refresh tokens promises: a login yields one session, a    *)
(* refresh replaces it by another and is the only way to get that other,   *)
(* and a login whose session was closed yields none any more.              *)
(*                                                                         *)
(* Access.tla, the use cases of the auth module, implements this.          *)
(***************************************************************************)
CONSTANTS
    Sessions        \* ids of sessions (jti)

VARIABLES
    live,           \* <<l, j>> when j is the open session of the login
                    \* that began with session l
    spent           \* sessions that were replaced or closed

Known == spent \cup {p[2] : p \in live}

Init == live = {} /\ spent = {}

Open(j) ==
    /\ j \notin Known
    /\ live' = live \cup {<<j, j>>}
    /\ UNCHANGED spent

Replace(l, j, k) ==
    /\ <<l, j>> \in live
    /\ k \notin Known
    /\ live' = (live \ {<<l, j>>}) \cup {<<l, k>>}
    /\ spent' = spent \cup {j}

(* One session by logout, or all of a login that is removed.               *)
Close(closed) ==
    /\ closed \subseteq live
    /\ live' = live \ closed
    /\ spent' = spent \cup {p[2] : p \in closed}

Next ==
    \/ \E j \in Sessions : Open(j)
    \/ \E l, j, k \in Sessions : Replace(l, j, k)
    \/ \E closed \in SUBSET live : Close(closed)

Spec == Init /\ [][Next]_<<live, spent>>
=============================================================================
