----------------------------- MODULE BoundedFifo -----------------------------
(***************************************************************************)
(* What a mailbox, a semaphore and a descriptor ring promise: items come   *)
(* out in the order in which they went in, each of them once, and never    *)
(* more than Capacity are inside.  Nothing is said about who waits, who    *)
(* polls or who is woken; the modules that instantiate this one do.        *)
(***************************************************************************)
EXTENDS Naturals, Sequences

CONSTANTS
  Item,      \* what goes in
  Capacity   \* how many items fit

VARIABLES
  put,       \* history: the items accepted
  taken      \* history: the items handed out

Inside == Len(put) - Len(taken)

Init == put = <<>> /\ taken = <<>>

Put(x) ==
  /\ Inside < Capacity
  /\ put' = Append(put, x)
  /\ UNCHANGED taken

Take ==
  /\ Inside > 0
  /\ taken' = Append(taken, put[Len(taken) + 1])
  /\ UNCHANGED put

Next == Take \/ \E x \in Item : Put(x)

Spec == Init /\ [][Next]_<<put, taken>>
=============================================================================
