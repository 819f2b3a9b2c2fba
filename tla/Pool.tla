-------------------------------- MODULE Pool --------------------------------
(***************************************************************************)
(* A memory pool of lwIP (lwip/src/core/memp.c) under the protection that  *)
(* the port gives it: sys_arch_protect is FreeRTOS's critical section      *)
(* (lwip/src/arch/sys_arch.c, portable/GCC/ARM_CM7/r0p1/port.c), which     *)
(* raises BASEPRI and counts its nesting in one variable for everybody.    *)
(*                                                                         *)
(* Tasks allocate and free, and so does ENET_IRQHandler, which gets a pbuf *)
(* for each received frame.  BASEPRI keeps out interrupts of priority 5    *)
(* and below; nothing sets the ENET interrupt's priority, which is 0 after *)
(* reset and above that.                                                   *)
(*                                                                         *)
(* No element carries a header: its link is in the bytes its user writes.  *)
(***************************************************************************)
EXTENDS Naturals, Sequences

CONSTANTS
  Task,      \* the tasks that use the pool
  Num,       \* desc->num: how many elements it has
  Maskable   \* does BASEPRI keep ENET_IRQHandler out; as shipped it does not

Isr == "isr"
User == "user"   \* the code that has elements and is in no call of the pool

ASSUME PoolAssumption ==
  /\ Task # {} /\ Isr \notin Task /\ User \notin Task
  /\ Num \in Nat \ {0}
  /\ Maskable \in BOOLEAN

Context == Task \cup {Isr}

Elem == 1 .. Num
Null == 0
Link == 0 .. Num

VARIABLES
  tab,      \* *desc->tab: the first free element
  next,     \* memp->next of each element
  basepri,  \* BASEPRI is raised
  nesting,  \* uxCriticalNesting
  cur,      \* the running task
  pc,       \* where each context is
  op,       \* the call it is in
  memp,     \* local memp
  out,      \* elements in the hands of their users
  stack     \* history: the free list as the calls should have left it, the
            \*   first element last

poolVars == <<tab, next, stack>>
maskVars == <<basepri, nesting>>
callVars == <<pc, op, memp>>
vars == <<poolVars, maskVars, cur, callVars, out>>

TypeOK ==
  /\ tab \in Link /\ next \in [Elem -> Link]
  /\ basepri \in BOOLEAN /\ nesting \in 0 .. 2
  /\ cur \in Task
  /\ pc \in [Context -> {"idle", "mask", "nest", "list", "link", "leave",
                         "unmask", "return"}]
  /\ op \in [Context -> {"malloc", "free"}]
  /\ memp \in [Context -> Link]
  /\ out \in SUBSET Elem
  /\ stack \in Seq(Elem)

\* memp_init_pool links each element to the one before it.
Init ==
  /\ tab = Num /\ next = [m \in Elem |-> m - 1]
  /\ stack = [m \in Elem |-> m]
  /\ basepri = FALSE /\ nesting = 0
  /\ cur \in Task
  /\ pc = [c \in Context |-> "idle"]
  /\ op = [c \in Context |-> "malloc"]
  /\ memp = [c \in Context |-> Null]
  /\ out = {}

-----------------------------------------------------------------------------
(* The processor.                                                          *)

\* The handler runs to completion; a task runs when no handler does.
Runs(c) == c = Isr \/ (c = cur /\ pc[Isr] = "idle")

\* May context c start something?  The handler is entered between any two
\* steps of the task, unless it is masked.
MayStart(c) ==
  /\ Runs(c) /\ pc[c] = "idle"
  /\ c = Isr /\ Maskable => ~basepri

\* PendSV has the lowest priority: BASEPRI keeps it out.
Switch(t) ==
  /\ pc[Isr] = "idle" /\ ~basepri
  /\ cur' = t
  /\ UNCHANGED <<poolVars, maskVars, callVars, out>>

\* The user of an element writes into it what it likes.
Write(m, x) ==
  /\ m \in out
  /\ next' = [next EXCEPT ![m] = x]
  /\ UNCHANGED <<tab, stack, maskVars, cur, callVars, out>>

At(c, place) == Runs(c) /\ pc[c] = place

Goto(c, place) == pc' = [pc EXCEPT ![c] = place]

-----------------------------------------------------------------------------
(* taskENTER_CRITICAL and taskEXIT_CRITICAL.                               *)

\* Mutant: interrupts are not masked.
RaiseBasepriNot(c) ==
  /\ At(c, "mask")
  /\ Goto(c, "nest")
  /\ UNCHANGED <<poolVars, maskVars, cur, op, memp, out>>

RaiseBasepri(c) ==
  /\ At(c, "mask")
  /\ basepri' = TRUE
  /\ Goto(c, "nest")
  /\ UNCHANGED <<poolVars, nesting, cur, op, memp, out>>

\* The handler leaves the count as it found it, so that the increment is one
\* step; so is the decrement.
IncrementNesting(c) ==
  /\ At(c, "nest")
  /\ nesting' = nesting + 1
  /\ Goto(c, "list")
  /\ UNCHANGED <<poolVars, basepri, cur, op, memp, out>>

DecrementNesting(c) ==
  /\ At(c, "leave")
  /\ nesting' = nesting - 1
  /\ Goto(c, IF nesting = 1 THEN "unmask" ELSE "return")
  /\ UNCHANGED <<poolVars, basepri, cur, op, memp, out>>

ClearBasepri(c) ==
  /\ At(c, "unmask")
  /\ basepri' = FALSE
  /\ Goto(c, "return")
  /\ UNCHANGED <<poolVars, nesting, cur, op, memp, out>>

-----------------------------------------------------------------------------
(* do_memp_malloc_pool.                                                    *)

Malloc(c) ==
  /\ MayStart(c)
  /\ op' = [op EXCEPT ![c] = "malloc"]
  /\ Goto(c, "mask")
  /\ UNCHANGED <<poolVars, maskVars, cur, memp, out>>

\* NULL when the list is empty.
MallocFirst(c) ==
  /\ At(c, "list") /\ op[c] = "malloc"
  /\ memp' = [memp EXCEPT ![c] = tab]
  /\ Goto(c, IF tab = Null THEN "leave" ELSE "link")
  /\ UNCHANGED <<poolVars, maskVars, cur, op, out>>

\* Mutant: the list's head stays where it is.
MallocUnlinkStays(c) ==
  /\ At(c, "link") /\ op[c] = "malloc"
  /\ stack' = SubSeq(stack, 1, Len(stack) - 1)
  /\ Goto(c, "leave")
  /\ UNCHANGED <<tab, next, maskVars, cur, op, memp, out>>

MallocUnlink(c) ==
  /\ At(c, "link") /\ op[c] = "malloc"
  /\ tab' = next[memp[c]]
  /\ stack' = SubSeq(stack, 1, Len(stack) - 1)
  /\ Goto(c, "leave")
  /\ UNCHANGED <<next, maskVars, cur, op, memp, out>>

\* Mutant: what was taken is not handed to the caller.
ReturnNull(c) ==
  /\ At(c, "return")
  /\ op' = [op EXCEPT ![c] = "malloc"]
  /\ memp' = [memp EXCEPT ![c] = Null]
  /\ Goto(c, "idle")
  /\ UNCHANGED <<poolVars, maskVars, cur, out>>

\* The caller gets the element, or frees nothing.
Return(c) ==
  /\ At(c, "return")
  /\ out' = IF op[c] = "malloc" /\ memp[c] # Null THEN out \cup {memp[c]}
            ELSE out
  /\ op' = [op EXCEPT ![c] = "malloc"]
  /\ memp' = [memp EXCEPT ![c] = Null]
  /\ Goto(c, "idle")
  /\ UNCHANGED <<poolVars, maskVars, cur>>

-----------------------------------------------------------------------------
(* do_memp_free_pool.  Whoever has an element may free it, once.           *)

Free(c, m) ==
  /\ MayStart(c)
  /\ m \in out
  /\ out' = out \ {m}
  /\ op' = [op EXCEPT ![c] = "free"]
  /\ memp' = [memp EXCEPT ![c] = m]
  /\ Goto(c, "mask")
  /\ UNCHANGED <<poolVars, maskVars, cur>>

\* Mutant: the link is not written; the user's bytes stay in its place.
FreeLinkForgotten(c) ==
  /\ At(c, "list") /\ op[c] = "free"
  /\ Goto(c, "link")
  /\ UNCHANGED <<poolVars, maskVars, cur, op, memp, out>>

FreeLink(c) ==
  /\ At(c, "list") /\ op[c] = "free"
  /\ next' = [next EXCEPT ![memp[c]] = tab]
  /\ Goto(c, "link")
  /\ UNCHANGED <<tab, stack, maskVars, cur, op, memp, out>>

FreePush(c) ==
  /\ At(c, "link") /\ op[c] = "free"
  /\ tab' = memp[c]
  /\ stack' = Append(stack, memp[c])
  /\ Goto(c, "leave")
  /\ UNCHANGED <<next, maskVars, cur, op, memp, out>>

-----------------------------------------------------------------------------
Protect(c) ==
  \/ RaiseBasepri(c) \/ IncrementNesting(c)
  \/ DecrementNesting(c) \/ ClearBasepri(c)

Pass(c) ==
  \/ Malloc(c) \/ MallocFirst(c) \/ MallocUnlink(c)
  \/ (\E m \in Elem : Free(c, m)) \/ FreeLink(c) \/ FreePush(c)
  \/ Protect(c)
  \/ Return(c)

Next ==
  \/ \E c \in Context : Pass(c)
  \/ \E t \in Task : Switch(t)
  \/ \E m \in Elem, x \in Link : Write(m, x)

Spec == Init /\ [][Next]_vars

-----------------------------------------------------------------------------
(* Properties.                                                             *)

\* An element taken off the list and not yet returned to its caller, or on
\* its way back onto the list.
Holds(c) ==
  /\ memp[c] # Null
  /\ IF op[c] = "malloc" THEN pc[c] \in {"leave", "unmask", "return"}
     ELSE pc[c] \in {"mask", "nest", "list", "link"}

Held == {memp[c] : c \in {d \in Context : Holds(d)}}

\* No element is handed out twice: what a context has taken off the list is
\* nobody else's.
NoDoubleAllocation ==
  \A c \in Context : Holds(c) =>
    /\ memp[c] \notin out
    /\ \A d \in Context \ {c} : Holds(d) => memp[d] # memp[c]

\* Inside the critical section BASEPRI is up and the nesting counted, and
\* only one context is there.
InSection(c) == pc[c] \in {"list", "link", "leave"}

MaskHolds ==
  \A c \in Context : InSection(c) =>
    /\ basepri /\ nesting = 1
    /\ \A d \in Context \ {c} : ~InSection(d)

\* The links, which lie in the users' bytes, lead from tab through all the
\* elements put back and not taken since, and end there.
FreeListIntact ==
  /\ tab = IF stack = <<>> THEN Null ELSE stack[Len(stack)]
  /\ \A i \in 1 .. Len(stack) :
       next[stack[i]] = IF i = 1 THEN Null ELSE stack[i - 1]

FreeElems == {stack[i] : i \in 1 .. Len(stack)}

\* The pool does what an allocator promises: an element is taken from the
\* free ones by the store to tab, handed on to the caller by one call and back
\* to the pool by another, and never in two hands.
HasNow ==
  [c \in Context \cup {User} |->
     IF c = User THEN out ELSE IF Holds(c) THEN {memp[c]} ELSE {}]

Abs == INSTANCE Allocator
         WITH free <- FreeElems, has <- HasNow, Client <- Context \cup {User}

\* Every element is free, with its user, or on its way: none is lost.
NoneLost == Elem = FreeElems \cup out \cup Held

IsAllocator == Abs!Spec
=============================================================================
