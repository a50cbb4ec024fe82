-------------------------------- MODULE Mutex --------------------------------
(***************************************************************************)
(* What a mutex whose holder can be told to let go promises: it has one    *)
(* holder at a time, work under it starts only while it is held, and it is *)
(* never taken from an actor that works under it and was not told to stop. *)
(* An actor that was told may go on working, and then works without it.    *)
(***************************************************************************)
CONSTANTS
    Actor,
    Nobody    \* the holder of a free mutex, no actor

VARIABLES
    holder,
    working,  \* the actors in the middle of work they began as the holder
    revoked   \* the actors told to let go, until they try again

Init == holder = Nobody /\ working = {} /\ revoked = {}

Grant(p) ==
    /\ holder = Nobody
    /\ holder' = p
    /\ UNCHANGED <<working, revoked>>

Begin(p) ==
    /\ holder = p
    /\ working' = working \cup {p}
    /\ UNCHANGED <<holder, revoked>>

End(p) ==
    /\ working' = working \ {p}
    /\ UNCHANGED <<holder, revoked>>

Revoke(p) ==
    /\ revoked' = revoked \cup {p}
    /\ UNCHANGED <<holder, working>>

TryAgain(p) ==
    /\ p \notin working
    /\ revoked' = revoked \ {p}
    /\ UNCHANGED <<holder, working>>

Free ==
    /\ holder \notin working \ revoked
    /\ holder' = Nobody
    /\ UNCHANGED <<working, revoked>>

Next ==
    \/ Free
    \/ \E p \in Actor : Grant(p) \/ Begin(p) \/ End(p) \/ Revoke(p) \/ TryAgain(p)

Spec == Init /\ [][Next]_<<holder, working, revoked>>
=============================================================================
