------------------------------ MODULE Allocator ------------------------------
(***************************************************************************)
(* What a pool of memory elements promises: an element is free or in the   *)
(* hands of one client, only free ones are granted, clients hand them on,  *)
(* and what is released is free again.                                     *)
(***************************************************************************)
CONSTANTS Elem, Client

VARIABLES
  free,
  has     \* the elements in each client's hands

Init == free = Elem /\ has = [c \in Client |-> {}]

Grant(c, m) ==
  /\ m \in free
  /\ free' = free \ {m}
  /\ has' = [has EXCEPT ![c] = @ \cup {m}]

HandOn(c, d, m) ==
  /\ m \in has[c] /\ c # d
  /\ has' = [has EXCEPT ![c] = @ \ {m}, ![d] = @ \cup {m}]
  /\ UNCHANGED free

Release(c, m) ==
  /\ m \in has[c]
  /\ free' = free \cup {m}
  /\ has' = [has EXCEPT ![c] = @ \ {m}]

Next ==
  \E c \in Client :
    \/ \E m \in free : Grant(c, m)
    \/ \E m \in has[c] : Release(c, m) \/ \E d \in Client : HandOn(c, d, m)

Spec == Init /\ [][Next]_<<free, has>>
=============================================================================
