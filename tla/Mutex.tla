------------------------------- MODULE Mutex -------------------------------
(***************************************************************************)
(* What every user of storage/interprocess_lock.py relies on: one client   *)
(* at a time, handed over only after the holder gave it up or died.        *)
(***************************************************************************)
CONSTANTS Clients, None

VARIABLE holder

Init == holder = None

Take(c) == holder = None /\ holder' = c

Give(c) == holder = c /\ holder' = None

Next == \E c \in Clients : Take(c) \/ Give(c)

Spec == Init /\ [][Next]_holder

=============================================================================
