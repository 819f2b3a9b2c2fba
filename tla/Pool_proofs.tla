----------------------------- MODULE Pool_proofs -----------------------------
(***************************************************************************)
(* Proofs about the pool, for any tasks and any number of elements, when   *)
(* BASEPRI keeps the handler out.                                          *)
(***************************************************************************)
EXTENDS Pool, SequenceTheorems, TLAPS

\* BASEPRI has been raised by context c and not been cleared.
Locked(c) == pc[c] \in {"nest", "list", "link", "leave", "unmask"}

\* Whoever has masked the interrupts is the one that runs.
MaskInv ==
  /\ \A c \in Context : Locked(c) => Runs(c)
  /\ basepri <=> \E c \in Context : Locked(c)
  /\ nesting = IF \E c \in Context : InSection(c) THEN 1 ELSE 0

\* What a call has in its local is right until it leaves the section.
CallInv ==
  \A c \in Context :
    /\ op[c] = "free" => memp[c] # Null
    /\ pc[c] = "link" /\ op[c] = "malloc" => memp[c] = tab /\ tab # Null
    /\ pc[c] = "link" /\ op[c] = "free" => next[memp[c]] = tab

ListInv ==
  /\ FreeListIntact
  /\ \A i, j \in 1 .. Len(stack) : stack[i] = stack[j] => i = j

\* An element is in one place: free, with its user, or on its way.
OwnInv ==
  /\ FreeElems \cap out = {}
  /\ \A c \in Context : Holds(c) => memp[c] \notin FreeElems
  /\ NoDoubleAllocation
  /\ NoneLost

PInv == TypeOK /\ MaskInv /\ CallInv /\ ListInv /\ OwnInv

-----------------------------------------------------------------------------
\* Two contexts never run at once.
LEMMA OneRuns ==
  ASSUME NEW c \in Context, NEW d \in Context, Runs(c), Runs(d),
         pc[c] # "idle", pc[d] # "idle"
  PROVE  c = d
BY DEF Runs, Context

\* So the masked section is one context's.
LEMMA OneLocked ==
  ASSUME MaskInv, NEW c \in Context, NEW d \in Context, Locked(c),
         Runs(d), pc[d] # "idle"
  PROVE  d = c
BY OneRuns DEF MaskInv, Locked

\* An element put on the list makes it one longer.
LEMMA Pushed ==
  ASSUME stack \in Seq(Elem), NEW m \in Elem, stack' = Append(stack, m)
  PROVE  /\ Len(stack') = Len(stack) + 1 /\ stack'[Len(stack) + 1] = m
         /\ \A i \in 1 .. Len(stack) : stack'[i] = stack[i]
         /\ stack' \in Seq(Elem) /\ stack' # <<>>
         /\ FreeElems' = FreeElems \cup {m}
<1>1. /\ Len(stack') = Len(stack) + 1 /\ stack'[Len(stack) + 1] = m
      /\ \A i \in 1 .. Len(stack) : stack'[i] = stack[i]
      /\ stack' \in Seq(Elem) /\ stack' # <<>> /\ Len(stack) \in Nat
  OBVIOUS
<1>2. FreeElems' = FreeElems \cup {m}
  <2>1. ASSUME NEW x PROVE x \in FreeElems' <=> x \in FreeElems \cup {m}
    BY <1>1 DEF FreeElems
  <2> QED BY <2>1
<1> QED BY <1>1, <1>2

\* The element taken off the list is nowhere else on it.
LEMMA Popped ==
  ASSUME stack \in Seq(Elem), stack # <<>>,
         \A i, j \in 1 .. Len(stack) : stack[i] = stack[j] => i = j,
         stack' = SubSeq(stack, 1, Len(stack) - 1)
  PROVE  /\ Len(stack') = Len(stack) - 1 /\ Len(stack) \in Nat \ {0}
         /\ \A i \in 1 .. Len(stack) - 1 : stack'[i] = stack[i]
         /\ stack' \in Seq(Elem) /\ stack[Len(stack)] \in FreeElems
         /\ FreeElems' = FreeElems \ {stack[Len(stack)]}
<1>1. /\ Len(stack') = Len(stack) - 1 /\ Len(stack) \in Nat \ {0}
      /\ \A i \in 1 .. Len(stack) - 1 : stack'[i] = stack[i]
      /\ stack' \in Seq(Elem)
  <2>1. Len(stack) \in Nat \ {0} /\ Len(stack) - 1 \in 0 .. Len(stack)
    OBVIOUS
  <2>2. PICK n \in Nat : n = Len(stack) - 1
    BY <2>1
  <2>3. \A i \in 1 .. n : stack[i] \in Elem
    BY <2>2
  <2>4. /\ SubSeq(stack, 1, n) \in Seq(Elem)
        /\ Len(SubSeq(stack, 1, n)) = n
        /\ \A i \in 1 .. n : SubSeq(stack, 1, n)[i] = stack[i]
    BY <2>3, SubSeqProperties
  <2> QED BY <2>1, <2>2, <2>4
<1>2. stack[Len(stack)] \in FreeElems
  BY <1>1 DEF FreeElems
<1>3. FreeElems' = FreeElems \ {stack[Len(stack)]}
  <2>1. ASSUME NEW x
        PROVE  x \in FreeElems' <=> x \in FreeElems \ {stack[Len(stack)]}
    BY <1>1 DEF FreeElems
  <2> QED BY <2>1
<1> QED BY <1>1, <1>2, <1>3

-----------------------------------------------------------------------------
LEMMA InitPInv == Init => PInv
<1> SUFFICES ASSUME Init PROVE PInv
  OBVIOUS
<1>1. /\ stack \in Seq(Elem) /\ Len(stack) = Num /\ Num \in Nat \ {0}
      /\ \A i \in 1 .. Num : stack[i] = i
  BY PoolAssumption DEF Init, Elem
<1>2. TypeOK
  <2>1. tab \in Link /\ next \in [Elem -> Link]
    BY PoolAssumption DEF Init, Link, Elem
  <2>2. memp \in [Context -> Link] /\ nesting \in 0 .. 2
    BY PoolAssumption DEF Init, Link, Null
  <2> QED BY <1>1, <2>1, <2>2 DEF Init, TypeOK
<1>3. MaskInv
  BY DEF Init, MaskInv, Locked, InSection
<1>4. CallInv
  BY DEF Init, CallInv
<1>5. ListInv
  BY <1>1 DEF Init, ListInv, FreeListIntact, Elem, Null
<1>6. FreeElems = Elem
  BY <1>1 DEF FreeElems, Elem
<1>7. \A c \in Context : ~Holds(c)
  BY DEF Init, Holds
<1>8. OwnInv
  BY <1>6, <1>7 DEF Init, OwnInv, NoDoubleAllocation, NoneLost, Held
<1> QED BY <1>2, <1>3, <1>4, <1>5, <1>8 DEF PInv

-----------------------------------------------------------------------------
LEMMA StepTypeOK == PInv /\ [Next]_vars => TypeOK'
<1> SUFFICES ASSUME PInv, [Next]_vars PROVE TypeOK'
  OBVIOUS
<1>t. TypeOK
  BY DEF PInv
<1> USE DEF TypeOK, poolVars, maskVars, callVars, Goto, At
<1>1. ASSUME NEW c \in Context, Malloc(c) PROVE TypeOK'
  BY <1>t, <1>1 DEF Malloc
<1>2. ASSUME NEW c \in Context, MallocFirst(c) PROVE TypeOK'
  BY <1>t, <1>2 DEF MallocFirst
<1>3. ASSUME NEW c \in Context, MallocUnlink(c) PROVE TypeOK'
  <2>1. stack # <<>> /\ memp[c] \in Elem
    BY <1>t, <1>3
    DEF MallocUnlink, PInv, CallInv, ListInv, FreeListIntact, Link, Elem, Null
  <2>2. stack' \in Seq(Elem)
    BY <1>t, <1>3, <2>1, Popped DEF MallocUnlink, PInv, ListInv
  <2> QED BY <1>t, <1>3, <2>1, <2>2 DEF MallocUnlink
<1>4. ASSUME NEW c \in Context, NEW m \in Elem, Free(c, m) PROVE TypeOK'
  BY <1>t, <1>4 DEF Free, Elem, Link
<1>5. ASSUME NEW c \in Context, FreeLink(c) PROVE TypeOK'
  BY <1>t, <1>5 DEF FreeLink
<1>6. ASSUME NEW c \in Context, FreePush(c) PROVE TypeOK'
  <2>1. memp[c] \in Elem
    BY <1>t, <1>6 DEF FreePush, PInv, CallInv, Link, Elem, Null
  <2>2. stack' \in Seq(Elem)
    BY <1>t, <1>6, <2>1, Pushed DEF FreePush
  <2> QED BY <1>t, <1>6, <2>1, <2>2 DEF FreePush
<1>7. ASSUME NEW c \in Context, RaiseBasepri(c) PROVE TypeOK'
  BY <1>t, <1>7 DEF RaiseBasepri
<1>8. ASSUME NEW c \in Context, IncrementNesting(c) PROVE TypeOK'
  BY <1>t, <1>8 DEF IncrementNesting, PInv, MaskInv
<1>9. ASSUME NEW c \in Context, DecrementNesting(c) PROVE TypeOK'
  <2>1. nesting = 1
    BY <1>9 DEF DecrementNesting, PInv, MaskInv, InSection
  <2> QED BY <1>t, <1>9, <2>1 DEF DecrementNesting
<1>10. ASSUME NEW c \in Context, ClearBasepri(c) PROVE TypeOK'
  BY <1>t, <1>10 DEF ClearBasepri
<1>11. ASSUME NEW c \in Context, Return(c) PROVE TypeOK'
  <2>1. memp[c] # Null => memp[c] \in Elem
    BY <1>t, PoolAssumption DEF Link, Elem, Null
  <2>2. out' \in SUBSET Elem
    BY <1>t, <1>11, <2>1 DEF Return
  <2>3. Null \in Link
    BY PoolAssumption DEF Link, Null
  <2>4. memp' \in [Context -> Link] /\ op' \in [Context -> {"malloc", "free"}]
    BY <1>t, <1>11, <2>3 DEF Return
  <2> QED BY <1>t, <1>11, <2>2, <2>4 DEF Return
<1>12. ASSUME NEW s \in Task, Switch(s) PROVE TypeOK'
  BY <1>t, <1>12 DEF Switch
<1>13. ASSUME NEW m \in Elem, NEW x \in Link, Write(m, x) PROVE TypeOK'
  BY <1>t, <1>13 DEF Write
<1>14. CASE UNCHANGED vars
  BY <1>t, <1>14 DEF vars
<1> QED
  BY <1>1, <1>2, <1>3, <1>4, <1>5, <1>6, <1>7, <1>8, <1>9, <1>10, <1>11,
     <1>12, <1>13, <1>14 DEF Next, Pass, Protect

\* BASEPRI goes up and down with the one context in the section.
LEMMA StepMaskInv ==
  ASSUME Maskable, PInv, [Next]_vars
  PROVE  MaskInv'
<1>t. TypeOK /\ MaskInv
  BY DEF PInv
<1> USE DEF Locked, InSection, Runs, At, Goto, TypeOK
<1>1. ASSUME NEW c \in Context, pc[c] = "idle", MayStart(c), Goto(c, "mask"),
             UNCHANGED <<maskVars, cur>>
      PROVE  MaskInv'
  <2>1. pc' = [pc EXCEPT ![c] = "mask"]
    BY <1>1
  <2>2. \A d \in Context : /\ Locked(d)' <=> Locked(d)
                           /\ InSection(d)' <=> InSection(d)
    BY <1>1, <1>t, <2>1
  <2>3. \A d \in Context : Locked(d) => Runs(d)'
    <3>1. CASE c = Isr
      <4>1. ~basepri
        BY <1>1, <3>1 DEF MayStart
      <4> QED BY <1>t, <4>1 DEF MaskInv
    <3>2. CASE c # Isr
      BY <1>1, <1>t, <2>1, <3>2 DEF MaskInv
    <3> QED BY <3>1, <3>2
  <2> QED BY <1>1, <1>t, <2>2, <2>3 DEF MaskInv, maskVars
<1>2. ASSUME NEW c \in Context, NEW p, pc' = [pc EXCEPT ![c] = p],
             pc[c] \in {"list", "link"}, p \in {"link", "leave"},
             UNCHANGED <<maskVars, cur>>
      PROVE  MaskInv'
  <2>1. Isr \in Context /\ (pc'[Isr] = "idle" <=> pc[Isr] = "idle")
    BY <1>2, <1>t DEF Context
  <2>2. \A d \in Context : /\ Locked(d)' <=> Locked(d)
                           /\ InSection(d)' <=> InSection(d)
                           /\ Runs(d)' <=> Runs(d)
    BY <1>2, <1>t, <2>1
  <2> QED BY <1>2, <1>t, <2>2 DEF MaskInv, maskVars
<1>3. ASSUME NEW c \in Context, RaiseBasepri(c) PROVE MaskInv'
  <2>1. /\ Runs(c) /\ pc[c] = "mask" /\ pc' = [pc EXCEPT ![c] = "nest"]
        /\ basepri' = TRUE /\ nesting' = nesting /\ cur' = cur
    BY <1>3 DEF RaiseBasepri
  <2>2. \A d \in Context : ~Locked(d)
    BY <1>t, <2>1, OneLocked
  <2>3. \A d \in Context : /\ Locked(d)' <=> d = c
                           /\ InSection(d)' <=> InSection(d)
    BY <1>t, <2>1, <2>2
  <2>4. Runs(c)'
    BY <1>t, <2>1
  <2> QED BY <1>t, <2>1, <2>3, <2>4 DEF MaskInv
<1>4. ASSUME NEW c \in Context, IncrementNesting(c) PROVE MaskInv'
  <2>1. /\ Runs(c) /\ pc[c] = "nest" /\ pc' = [pc EXCEPT ![c] = "list"]
        /\ basepri' = basepri /\ nesting' = nesting + 1 /\ cur' = cur
    BY <1>4 DEF IncrementNesting, At
  <2>2. \A d \in Context : Locked(d) => d = c
    BY <1>t, <2>1, OneLocked
  <2>3. \A d \in Context : /\ Locked(d)' <=> Locked(d)
                           /\ InSection(d)' <=> d = c
                           /\ ~InSection(d)
    BY <1>t, <2>1, <2>2
  <2>4. Runs(c)'
    BY <1>t, <2>1
  <2> QED BY <1>t, <2>1, <2>2, <2>3, <2>4 DEF MaskInv
<1>5. ASSUME NEW c \in Context, DecrementNesting(c) PROVE MaskInv'
  <2>1. nesting = 1
    BY <1>t, <1>5 DEF DecrementNesting, MaskInv
  <2>2. /\ Runs(c) /\ pc[c] = "leave" /\ pc' = [pc EXCEPT ![c] = "unmask"]
        /\ basepri' = basepri /\ nesting' = 0 /\ cur' = cur
    BY <1>5, <2>1 DEF DecrementNesting
  <2>3. \A d \in Context : Locked(d) => d = c
    BY <1>t, <2>2, OneLocked
  <2>4. \A d \in Context : /\ Locked(d)' <=> Locked(d)
                           /\ ~InSection(d)'
    BY <1>t, <2>2, <2>3
  <2>5. Runs(c)'
    BY <1>t, <2>2
  <2> QED BY <1>t, <2>2, <2>3, <2>4, <2>5 DEF MaskInv
<1>6. ASSUME NEW c \in Context, ClearBasepri(c) PROVE MaskInv'
  <2>1. /\ Runs(c) /\ pc[c] = "unmask" /\ pc' = [pc EXCEPT ![c] = "return"]
        /\ basepri' = FALSE /\ nesting' = nesting /\ cur' = cur
    BY <1>6 DEF ClearBasepri
  <2>2. \A d \in Context : Locked(d) => d = c
    BY <1>t, <2>1, OneLocked
  <2>3. \A d \in Context : ~Locked(d)' /\ ~InSection(d) /\ ~InSection(d)'
    BY <1>t, <2>1, <2>2
  <2> QED BY <1>t, <2>1, <2>3 DEF MaskInv
<1>7. ASSUME NEW c \in Context, Return(c) PROVE MaskInv'
  <2>1. /\ Runs(c) /\ pc[c] = "return" /\ pc' = [pc EXCEPT ![c] = "idle"]
        /\ UNCHANGED <<maskVars, cur>>
    BY <1>7 DEF Return
  <2>2. \A d \in Context : ~Locked(d)
    BY <1>t, <2>1, OneLocked
  <2>3. \A d \in Context : ~Locked(d)' /\ ~InSection(d)' /\ ~InSection(d)
    BY <1>t, <2>1, <2>2
  <2> QED BY <1>t, <2>1, <2>2, <2>3 DEF MaskInv, maskVars
<1>8. ASSUME NEW s \in Task, Switch(s) PROVE MaskInv'
  BY <1>t, <1>8 DEF Switch, MaskInv, maskVars, callVars
<1>9. CASE (\E m \in Elem, x \in Link : Write(m, x)) \/ UNCHANGED vars
  BY <1>t, <1>9 DEF Write, vars, maskVars, callVars, MaskInv
<1>10. ASSUME NEW c \in Context, Pass(c) PROVE MaskInv'
  <2>1. CASE Malloc(c) \/ \E m \in Elem : Free(c, m)
    BY <1>1, <2>1 DEF Malloc, Free, MayStart
  <2>2. CASE MallocFirst(c)
    BY <1>2, <2>2 DEF MallocFirst
  <2>3. CASE MallocUnlink(c) \/ FreeLink(c) \/ FreePush(c)
    BY <1>2, <2>3 DEF MallocUnlink, FreeLink, FreePush
  <2> QED
    BY <1>3, <1>4, <1>5, <1>6, <1>7, <1>10, <2>1, <2>2, <2>3
    DEF Pass, Protect
<1> QED BY <1>8, <1>9, <1>10 DEF Next

-----------------------------------------------------------------------------
(* Where elements go.                                                      *)

\* While c is in the section, no other context is.
LEMMA Alone ==
  ASSUME MaskInv, NEW c \in Context, Locked(c), NEW d \in Context \ {c}
  PROVE  ~Locked(d) /\ ~InSection(d) /\ pc[d] # "link"
<1>1. ~Locked(d)
  BY OneRuns DEF MaskInv, Locked
<1> QED BY <1>1 DEF Locked, InSection

\* The store to tab moves the first free element to the context.
LEMMA Takes ==
  ASSUME PInv, NEW c \in Context, MallocUnlink(c)
  PROVE  /\ memp[c] \in FreeElems /\ FreeElems' = FreeElems \ {memp[c]}
         /\ out' = out /\ memp' = memp /\ ~Holds(c) /\ Holds(c)'
         /\ \A d \in Context \ {c} : Holds(d)' <=> Holds(d)
         /\ ListInv'
<1>1. /\ op[c] = "malloc" /\ pc[c] = "link" /\ pc' = [pc EXCEPT ![c] = "leave"]
      /\ tab' = next[memp[c]] /\ stack' = SubSeq(stack, 1, Len(stack) - 1)
      /\ UNCHANGED <<next, op, memp, out>>
  BY DEF MallocUnlink, At, Goto
<1>2. /\ memp[c] = tab /\ tab # Null /\ stack # <<>> /\ stack \in Seq(Elem)
      /\ tab = stack[Len(stack)]
  BY <1>1 DEF PInv, CallInv, ListInv, FreeListIntact, TypeOK
<1>3. /\ Len(stack') = Len(stack) - 1 /\ Len(stack) \in Nat \ {0}
      /\ \A i \in 1 .. Len(stack) - 1 : stack'[i] = stack[i]
      /\ stack' \in Seq(Elem) /\ stack[Len(stack)] \in FreeElems
      /\ FreeElems' = FreeElems \ {stack[Len(stack)]}
  BY <1>1, <1>2, Popped DEF PInv, ListInv
<1>4. ~Holds(c) /\ Holds(c)'
  BY <1>1, <1>2 DEF Holds, PInv, TypeOK
<1>5. \A d \in Context \ {c} : Holds(d)' <=> Holds(d)
  BY <1>1 DEF Holds, PInv, TypeOK
<1>6. FreeListIntact'
  <2>1. next[stack[Len(stack)]] = IF Len(stack) = 1 THEN Null
                                  ELSE stack[Len(stack) - 1]
    BY <1>3 DEF PInv, ListInv, FreeListIntact
  <2>2. stack' = <<>> <=> Len(stack) = 1
    BY <1>3
  <2>3. tab' = IF stack' = <<>> THEN Null ELSE stack'[Len(stack')]
    BY <1>1, <1>2, <1>3, <2>1, <2>2
  <2>4. \A i \in 1 .. Len(stack') :
          next'[stack'[i]] = IF i = 1 THEN Null ELSE stack'[i - 1]
    BY <1>1, <1>3 DEF PInv, ListInv, FreeListIntact
  <2> QED BY <2>3, <2>4 DEF FreeListIntact
<1>7. ListInv'
  BY <1>3, <1>6 DEF PInv, ListInv
<1> QED BY <1>1, <1>2, <1>3, <1>4, <1>5, <1>7

\* The second store of a free moves the element to the list.
LEMMA Puts ==
  ASSUME PInv, NEW c \in Context, FreePush(c)
  PROVE  /\ memp[c] \in Elem /\ FreeElems' = FreeElems \cup {memp[c]}
         /\ out' = out /\ memp' = memp /\ Holds(c) /\ ~Holds(c)'
         /\ \A d \in Context \ {c} : Holds(d)' <=> Holds(d)
         /\ ListInv'
<1>1. /\ op[c] = "free" /\ pc[c] = "link" /\ pc' = [pc EXCEPT ![c] = "leave"]
      /\ tab' = memp[c] /\ stack' = Append(stack, memp[c])
      /\ UNCHANGED <<next, op, memp, out>>
  BY DEF FreePush, At, Goto
<1>2. /\ memp[c] \in Elem /\ memp[c] # Null /\ next[memp[c]] = tab
      /\ stack \in Seq(Elem)
  BY <1>1 DEF PInv, CallInv, TypeOK, Link, Elem, Null
<1>3. /\ Len(stack') = Len(stack) + 1 /\ stack'[Len(stack) + 1] = memp[c]
      /\ \A i \in 1 .. Len(stack) : stack'[i] = stack[i]
      /\ stack' \in Seq(Elem) /\ stack' # <<>>
      /\ FreeElems' = FreeElems \cup {memp[c]}
  BY <1>1, <1>2, Pushed
<1>4. Holds(c) /\ ~Holds(c)'
  BY <1>1, <1>2 DEF Holds, PInv, TypeOK
<1>5. \A d \in Context \ {c} : Holds(d)' <=> Holds(d)
  BY <1>1 DEF Holds, PInv, TypeOK
<1>6. Len(stack) \in Nat
  BY <1>2
<1>7. FreeListIntact'
  <2>1. tab' = IF stack' = <<>> THEN Null ELSE stack'[Len(stack')]
    BY <1>1, <1>3
  <2>2. next[memp[c]] = IF Len(stack) = 0 THEN Null ELSE stack[Len(stack)]
    BY <1>2, <1>6 DEF PInv, ListInv, FreeListIntact
  <2>3. ASSUME NEW i \in 1 .. Len(stack')
        PROVE  next'[stack'[i]] = IF i = 1 THEN Null ELSE stack'[i - 1]
    <3>1. CASE i = Len(stack) + 1
      BY <1>1, <1>3, <1>6, <2>2, <3>1
    <3>2. CASE i \in 1 .. Len(stack)
      BY <1>1, <1>3, <1>6, <3>2 DEF PInv, ListInv, FreeListIntact
    <3> QED BY <1>3, <1>6, <3>1, <3>2
  <2> QED BY <2>1, <2>3 DEF FreeListIntact
<1>8. \A i, j \in 1 .. Len(stack') : stack'[i] = stack'[j] => i = j
  <2>1. memp[c] \notin FreeElems
    BY <1>4 DEF PInv, OwnInv
  <2>2. \A i \in 1 .. Len(stack) : stack[i] # memp[c]
    BY <2>1 DEF FreeElems
  <2> QED BY <1>3, <1>6, <2>2 DEF PInv, ListInv
<1> QED BY <1>1, <1>2, <1>3, <1>4, <1>5, <1>7, <1>8 DEF ListInv

\* A malloc that returns hands its element, if any, to the user.
LEMMA HandsOver ==
  ASSUME PInv, NEW c \in Context, Return(c)
  PROVE  /\ FreeElems' = FreeElems /\ ~Holds(c)' /\ ListInv'
         /\ out' = IF Holds(c) THEN out \cup {memp[c]} ELSE out
         /\ \A d \in Context \ {c} : /\ Holds(d)' <=> Holds(d)
                                     /\ memp'[d] = memp[d]
<1>1. /\ pc[c] = "return" /\ pc' = [pc EXCEPT ![c] = "idle"]
      /\ op' = [op EXCEPT ![c] = "malloc"]
      /\ memp' = [memp EXCEPT ![c] = Null]
      /\ out' = IF op[c] = "malloc" /\ memp[c] # Null THEN out \cup {memp[c]}
                ELSE out
      /\ UNCHANGED <<tab, next, stack>>
  BY DEF Return, At, Goto, poolVars
<1>2. Holds(c) <=> op[c] = "malloc" /\ memp[c] # Null
  BY <1>1 DEF Holds
<1>3. ~Holds(c)'
  BY <1>1 DEF Holds, PInv, TypeOK
<1>4. \A d \in Context \ {c} : (Holds(d)' <=> Holds(d)) /\ memp'[d] = memp[d]
  BY <1>1 DEF Holds, PInv, TypeOK
<1> QED
  BY <1>1, <1>2, <1>3, <1>4 DEF FreeElems, PInv, ListInv, FreeListIntact

\* A free takes its element from the user.
LEMMA GivesBack ==
  ASSUME PInv, NEW c \in Context, NEW m \in Elem, Free(c, m)
  PROVE  /\ m \in out /\ out' = out \ {m} /\ FreeElems' = FreeElems
         /\ ~Holds(c) /\ Holds(c)' /\ memp'[c] = m /\ ListInv'
         /\ \A d \in Context \ {c} : /\ Holds(d)' <=> Holds(d)
                                     /\ memp'[d] = memp[d]
<1>1. /\ m \in out /\ out' = out \ {m} /\ pc[c] = "idle"
      /\ pc' = [pc EXCEPT ![c] = "mask"] /\ op' = [op EXCEPT ![c] = "free"]
      /\ memp' = [memp EXCEPT ![c] = m]
      /\ UNCHANGED <<tab, next, stack>>
  BY DEF Free, MayStart, Goto, poolVars
<1>2. ~Holds(c)
  BY <1>1 DEF Holds
<1>3. m # Null
  BY DEF Elem, Null
<1>4. Holds(c)' /\ memp'[c] = m
  BY <1>1, <1>3 DEF Holds, PInv, TypeOK
<1>5. \A d \in Context \ {c} : (Holds(d)' <=> Holds(d)) /\ memp'[d] = memp[d]
  BY <1>1 DEF Holds, PInv, TypeOK
<1> QED
  BY <1>1, <1>2, <1>4, <1>5 DEF FreeElems, PInv, ListInv, FreeListIntact

\* All the rest.
Elsewhere ==
  \/ \E c \in Context : Malloc(c) \/ MallocFirst(c) \/ FreeLink(c) \/ Protect(c)
  \/ \E t \in Task : Switch(t)
  \/ \E m \in Elem, x \in Link : Write(m, x)
  \/ UNCHANGED vars

\* No other step moves an element, nor touches a link of the free list.
LEMMA Keeps ==
  ASSUME PInv, Elsewhere
  PROVE  /\ FreeElems' = FreeElems /\ out' = out /\ ListInv'
         /\ \A d \in Context : /\ Holds(d)' <=> Holds(d)
                               /\ Holds(d) => memp'[d] = memp[d]
<1>t. TypeOK
  BY DEF PInv
<1>l. ASSUME stack' = stack, tab' = tab,
             \A m \in FreeElems : next'[m] = next[m]
      PROVE  FreeElems' = FreeElems /\ ListInv'
  <2>1. \A i \in 1 .. Len(stack) : next'[stack[i]] = next[stack[i]]
    BY <1>l DEF FreeElems
  <2> QED BY <1>l, <2>1 DEF FreeElems, PInv, ListInv, FreeListIntact
<1>1. ASSUME NEW c \in Context, Malloc(c) \/ Protect(c)
      PROVE  /\ UNCHANGED <<tab, next, stack, out>>
             /\ \A d \in Context : /\ Holds(d)' <=> Holds(d)
                                   /\ memp'[d] = memp[d]
  <2>1. CASE Malloc(c)
    BY <1>t, <2>1 DEF Malloc, MayStart, Goto, poolVars, Holds, TypeOK
  <2>2. CASE RaiseBasepri(c)
    BY <1>t, <2>2 DEF RaiseBasepri, At, Goto, poolVars, Holds, TypeOK
  <2>3. CASE IncrementNesting(c)
    BY <1>t, <2>3 DEF IncrementNesting, At, Goto, poolVars, Holds, TypeOK
  <2>4. CASE DecrementNesting(c)
    BY <1>t, <2>4 DEF DecrementNesting, At, Goto, poolVars, Holds, TypeOK
  <2>5. CASE ClearBasepri(c)
    BY <1>t, <2>5 DEF ClearBasepri, At, Goto, poolVars, Holds, TypeOK
  <2> QED BY <1>1, <2>1, <2>2, <2>3, <2>4, <2>5 DEF Protect
<1>2. ASSUME NEW c \in Context, MallocFirst(c)
      PROVE  /\ UNCHANGED <<tab, next, stack, out>>
             /\ \A d \in Context : /\ Holds(d)' <=> Holds(d)
                                   /\ Holds(d) => memp'[d] = memp[d]
  <2>1. /\ pc[c] = "list" /\ op[c] = "malloc" /\ op' = op
        /\ memp' = [memp EXCEPT ![c] = tab]
        /\ pc' = [pc EXCEPT ![c] = IF tab = Null THEN "leave" ELSE "link"]
        /\ UNCHANGED <<tab, next, stack, out>>
    BY <1>2 DEF MallocFirst, At, Goto, poolVars
  <2>2. ~Holds(c) /\ ~Holds(c)'
    BY <1>t, <2>1 DEF Holds, TypeOK
  <2>3. \A d \in Context \ {c} : (Holds(d)' <=> Holds(d)) /\ memp'[d] = memp[d]
    BY <1>t, <2>1 DEF Holds, TypeOK
  <2> QED BY <2>1, <2>2, <2>3
<1>3. ASSUME NEW c \in Context, FreeLink(c)
      PROVE  /\ UNCHANGED <<tab, stack, out>>
             /\ \A m \in FreeElems : next'[m] = next[m]
             /\ \A d \in Context : /\ Holds(d)' <=> Holds(d)
                                   /\ memp'[d] = memp[d]
  <2>1. /\ pc[c] = "list" /\ op[c] = "free"
        /\ next' = [next EXCEPT ![memp[c]] = tab]
        /\ pc' = [pc EXCEPT ![c] = "link"]
        /\ UNCHANGED <<tab, stack, out, op, memp>>
    BY <1>3 DEF FreeLink, At, Goto
  <2>2. Holds(c)
    BY <2>1 DEF Holds, PInv, CallInv
  <2>3. memp[c] \notin FreeElems
    BY <2>2 DEF PInv, OwnInv
  <2>4. \A d \in Context : (Holds(d)' <=> Holds(d)) /\ memp'[d] = memp[d]
    BY <1>t, <2>1 DEF Holds, TypeOK
  <2> QED BY <1>t, <2>1, <2>3, <2>4 DEF TypeOK
<1>4. ASSUME NEW m \in Elem, NEW x \in Link, Write(m, x)
      PROVE  /\ UNCHANGED <<tab, stack, out>>
             /\ \A n \in FreeElems : next'[n] = next[n]
             /\ \A d \in Context : /\ Holds(d)' <=> Holds(d)
                                   /\ memp'[d] = memp[d]
  <2>1. /\ m \in out /\ next' = [next EXCEPT ![m] = x]
        /\ UNCHANGED <<tab, stack, out, pc, op, memp>>
    BY <1>4 DEF Write, callVars
  <2>2. m \notin FreeElems
    BY <2>1 DEF PInv, OwnInv
  <2> QED BY <1>t, <2>1, <2>2 DEF Holds, TypeOK
<1>5. CASE (\E t \in Task : Switch(t)) \/ UNCHANGED vars
  BY <1>l, <1>5
  DEF Switch, vars, poolVars, callVars, Holds, FreeElems
<1> QED BY <1>l, <1>1, <1>2, <1>3, <1>4, <1>5 DEF Elsewhere

-----------------------------------------------------------------------------
\* What a call has read stays true: nobody else is in the section, and no
\* user writes an element on its way back.
LEMMA StepCallInv == PInv /\ [Next]_vars => CallInv'
<1> SUFFICES ASSUME PInv, [Next]_vars PROVE CallInv'
  OBVIOUS
<1>t. TypeOK /\ MaskInv /\ CallInv
  BY DEF PInv
<1> USE DEF TypeOK, poolVars, maskVars, callVars, Goto, At
<1>1. ASSUME NEW c \in Context, Malloc(c) PROVE CallInv'
  BY <1>t, <1>1 DEF Malloc, CallInv
<1>2. ASSUME NEW c \in Context, MallocFirst(c) PROVE CallInv'
  BY <1>t, <1>2 DEF MallocFirst, CallInv
<1>3. ASSUME NEW c \in Context, MallocUnlink(c) PROVE CallInv'
  <2>1. \A d \in Context \ {c} : pc[d] # "link"
    BY <1>t, <1>3, Alone DEF MallocUnlink, Locked
  <2> QED BY <1>t, <1>3, <2>1 DEF MallocUnlink, CallInv
<1>4. ASSUME NEW c \in Context, NEW m \in Elem, Free(c, m) PROVE CallInv'
  <2>1. m # Null
    BY DEF Elem, Null
  <2> QED BY <1>t, <1>4, <2>1 DEF Free, CallInv
<1>5. ASSUME NEW c \in Context, FreeLink(c) PROVE CallInv'
  <2>1. \A d \in Context \ {c} : pc[d] # "link"
    BY <1>t, <1>5, Alone DEF FreeLink, Locked
  <2>2. memp[c] \in Elem
    BY <1>t, <1>5 DEF FreeLink, CallInv, Link, Elem, Null
  <2> QED BY <1>t, <1>5, <2>1, <2>2 DEF FreeLink, CallInv
<1>6. ASSUME NEW c \in Context, FreePush(c) PROVE CallInv'
  <2>1. \A d \in Context \ {c} : pc[d] # "link"
    BY <1>t, <1>6, Alone DEF FreePush, Locked
  <2> QED BY <1>t, <1>6, <2>1 DEF FreePush, CallInv
<1>7. ASSUME NEW c \in Context, Protect(c) PROVE CallInv'
  BY <1>t, <1>7
  DEF Protect, RaiseBasepri, IncrementNesting, DecrementNesting, ClearBasepri,
      CallInv
<1>8. ASSUME NEW c \in Context, Return(c) PROVE CallInv'
  BY <1>t, <1>8 DEF Return, CallInv
<1>9. ASSUME NEW m \in Elem, NEW x \in Link, Write(m, x) PROVE CallInv'
  <2>1. \A d \in Context : pc[d] = "link" /\ op[d] = "free" => memp[d] # m
    BY <1>t, <1>9 DEF Write, CallInv, PInv, OwnInv, NoDoubleAllocation, Holds
  <2> QED BY <1>t, <1>9, <2>1 DEF Write, CallInv
<1>10. CASE (\E t \in Task : Switch(t)) \/ UNCHANGED vars
  BY <1>t, <1>10 DEF Switch, vars, CallInv
<1> QED
  BY <1>1, <1>2, <1>3, <1>4, <1>5, <1>6, <1>7, <1>8, <1>9, <1>10
  DEF Next, Pass

\* The steps of Next, by what they do to elements.
LEMMA StepKinds ==
  ASSUME [Next]_vars
  PROVE  \/ Elsewhere
         \/ \E c \in Context : MallocUnlink(c)
         \/ \E c \in Context : FreePush(c)
         \/ \E c \in Context : Return(c)
         \/ \E c \in Context, m \in Elem : Free(c, m)
BY DEF Next, Pass, Elsewhere

\* What is on its way, element by element.
LEMMA HeldMembers ==
  /\ \A x : x \in Held <=> \E d \in Context : Holds(d) /\ memp[d] = x
  /\ \A x : x \in Held' <=> \E d \in Context : Holds(d)' /\ memp'[d] = x
BY DEF Held

LEMMA StepListOwnInv == PInv /\ [Next]_vars => ListInv' /\ OwnInv'
<1> SUFFICES ASSUME PInv, [Next]_vars PROVE ListInv' /\ OwnInv'
  OBVIOUS
<1>o. OwnInv
  BY DEF PInv
<1>1. CASE Elsewhere
  BY <1>o, <1>1, Keeps DEF OwnInv, NoDoubleAllocation, NoneLost, Held
<1>2. ASSUME NEW c \in Context, MallocUnlink(c) PROVE ListInv' /\ OwnInv'
  <2>1. /\ memp[c] \in FreeElems /\ FreeElems' = FreeElems \ {memp[c]}
        /\ out' = out /\ memp' = memp /\ ~Holds(c) /\ Holds(c)' /\ ListInv'
        /\ \A d \in Context \ {c} : Holds(d)' <=> Holds(d)
    BY <1>2, Takes
  <2>2. Held' = Held \cup {memp[c]}
    BY <2>1 DEF Held
  <2>3. NoneLost'
    BY <1>o, <2>1, <2>2 DEF OwnInv, NoneLost
  <2> QED BY <1>o, <2>1, <2>3 DEF OwnInv, NoDoubleAllocation
<1>3. ASSUME NEW c \in Context, FreePush(c) PROVE ListInv' /\ OwnInv'
  <2>1. /\ memp[c] \in Elem /\ FreeElems' = FreeElems \cup {memp[c]}
        /\ out' = out /\ memp' = memp /\ Holds(c) /\ ~Holds(c)' /\ ListInv'
        /\ \A d \in Context \ {c} : Holds(d)' <=> Holds(d)
    BY <1>3, Puts
  <2>2. Held \subseteq Held' \cup {memp[c]} /\ Held' \subseteq Held
    BY <2>1 DEF Held
  <2>3. NoneLost'
    BY <1>o, <2>1, <2>2 DEF OwnInv, NoneLost
  <2> QED BY <1>o, <2>1, <2>3 DEF OwnInv, NoDoubleAllocation
<1>4. ASSUME NEW c \in Context, Return(c) PROVE ListInv' /\ OwnInv'
  <2>1. /\ FreeElems' = FreeElems /\ ~Holds(c)' /\ ListInv'
        /\ out' = IF Holds(c) THEN out \cup {memp[c]} ELSE out
        /\ \A d \in Context \ {c} : /\ Holds(d)' <=> Holds(d)
                                    /\ memp'[d] = memp[d]
    BY <1>4, HandsOver
  <2>2. Held = Held' \cup (IF Holds(c) THEN {memp[c]} ELSE {})
    <3>1. ASSUME NEW x
          PROVE  x \in Held <=> x \in Held' \/ (Holds(c) /\ x = memp[c])
      BY <2>1, HeldMembers
    <3> QED BY <3>1
  <2>3. NoneLost'
    BY <1>o, <2>1, <2>2 DEF OwnInv, NoneLost
  <2> QED BY <1>o, <2>1, <2>3 DEF OwnInv, NoDoubleAllocation
<1>5. ASSUME NEW c \in Context, NEW m \in Elem, Free(c, m)
      PROVE  ListInv' /\ OwnInv'
  <2>1. /\ m \in out /\ out' = out \ {m} /\ FreeElems' = FreeElems
        /\ ~Holds(c) /\ Holds(c)' /\ memp'[c] = m /\ ListInv'
        /\ \A d \in Context \ {c} : /\ Holds(d)' <=> Holds(d)
                                    /\ memp'[d] = memp[d]
    BY <1>5, GivesBack
  <2>2. Held' = Held \cup {m}
    <3>1. ASSUME NEW x PROVE x \in Held' <=> x \in Held \/ x = m
      BY <2>1, HeldMembers
    <3> QED BY <3>1
  <2>3. NoneLost'
    BY <1>o, <2>1, <2>2 DEF OwnInv, NoneLost
  <2> QED BY <1>o, <2>1, <2>3 DEF OwnInv, NoDoubleAllocation
<1> QED BY <1>1, <1>2, <1>3, <1>4, <1>5, StepKinds

LEMMA PInvariant == Maskable => (Spec => []PInv)
<1> SUFFICES ASSUME Maskable PROVE Spec => []PInv
  OBVIOUS
<1>1. PInv /\ [Next]_vars => PInv'
  BY StepTypeOK, StepMaskInv, StepCallInv, StepListOwnInv DEF PInv
<1> QED BY <1>1, InitPInv, PTL DEF Spec

-----------------------------------------------------------------------------
\* The state keeps its types: no link leads out of the pool, and the nesting
\* count stays at most 1.
THEOREM TypeCorrect == Maskable => (Spec => []TypeOK)
<1>1. PInv => TypeOK
  BY DEF PInv
<1> QED BY <1>1, PInvariant, PTL

\* The one variable that counts everybody's nesting is right: inside the
\* section interrupts are masked and nobody else is there.
THEOREM SectionIsExclusive == Maskable => (Spec => []MaskHolds)
<1>1. PInv => MaskHolds
  <2> SUFFICES ASSUME PInv, NEW c \in Context, InSection(c)
               PROVE  /\ basepri /\ nesting = 1
                      /\ \A d \in Context \ {c} : ~InSection(d)
    BY DEF MaskHolds
  <2>1. Locked(c)
    BY DEF Locked, InSection
  <2> QED BY <2>1, Alone DEF PInv, MaskInv
<1> QED BY <1>1, PInvariant, PTL

\* No element is handed out twice, for any number of tasks and elements.
THEOREM NoElementTwice == Maskable => (Spec => []NoDoubleAllocation)
<1>1. PInv => NoDoubleAllocation
  BY DEF PInv, OwnInv
<1> QED BY <1>1, PInvariant, PTL

\* The links in the users' bytes stay a list of the free elements.
THEOREM LinksIntact == Maskable => (Spec => []FreeListIntact)
<1>1. PInv => FreeListIntact
  BY DEF PInv, ListInv
<1> QED BY <1>1, PInvariant, PTL

\* No element is lost.
THEOREM NoneGoesMissing == Maskable => (Spec => []NoneLost)
<1>1. PInv => NoneLost
  BY DEF PInv, OwnInv
<1> QED BY <1>1, PInvariant, PTL

-----------------------------------------------------------------------------
(* The pool implements an allocator.                                       *)

Client == Context \cup {User}

\* What each client has, entry by entry.
LEMMA HasEntries ==
  /\ DOMAIN HasNow = Client
  /\ User \in Client /\ User \notin Context /\ HasNow[User] = out
  /\ \A c \in Context : HasNow[c] = IF Holds(c) THEN {memp[c]} ELSE {}
<1>1. User \notin Context
  BY PoolAssumption DEF Context, User, Isr
<1> QED BY <1>1 DEF HasNow, Client

\* The same in the next state.
LEMMA HasEntriesNext ==
  /\ DOMAIN (HasNow') = Client /\ HasNow'[User] = out'
  /\ \A c \in Context : HasNow'[c] = IF Holds(c)' THEN {memp'[c]} ELSE {}
<1>1. User \notin Context
  BY PoolAssumption DEF Context, User, Isr
<1> QED BY <1>1 DEF HasNow, Client

\* Each step grants, hands on or releases one element, or none.
LEMMA StepAllocator ==
  PInv /\ [Next]_vars => [Abs!Next]_<<FreeElems, HasNow>>
<1> SUFFICES ASSUME PInv, [Next]_vars
             PROVE  Abs!Next \/ UNCHANGED <<FreeElems, HasNow>>
  OBVIOUS
<1>e. HasNow = [d \in Client |-> HasNow[d]] /\ HasNow' = [d \in Client |-> HasNow'[d]]
  BY DEF HasNow, Client
<1>1. CASE Elsewhere
  <2>1. /\ FreeElems' = FreeElems /\ out' = out
        /\ \A d \in Context : /\ Holds(d)' <=> Holds(d)
                              /\ Holds(d) => memp'[d] = memp[d]
    BY <1>1, Keeps
  <2>2. \A d \in Client : HasNow'[d] = HasNow[d]
    BY <2>1, HasEntries, HasEntriesNext DEF Client
  <2> QED BY <1>e, <2>1, <2>2
<1>2. ASSUME NEW c \in Context, MallocUnlink(c) PROVE Abs!Next
  <2>1. /\ memp[c] \in FreeElems /\ FreeElems' = FreeElems \ {memp[c]}
        /\ out' = out /\ memp' = memp /\ ~Holds(c) /\ Holds(c)'
        /\ \A d \in Context \ {c} : Holds(d)' <=> Holds(d)
    BY <1>2, Takes
  <2>2. /\ \A d \in Client \ {c} : HasNow'[d] = HasNow[d]
        /\ HasNow'[c] = HasNow[c] \cup {memp[c]}
    BY <2>1, HasEntries, HasEntriesNext DEF Client
  <2>3. HasNow' = [HasNow EXCEPT ![c] = @ \cup {memp[c]}]
    BY <1>e, <2>2
  <2>4. Abs!Grant(c, memp[c])
    BY <2>1, <2>3 DEF Abs!Grant
  <2>5. c \in Client
    BY DEF Client
  <2> QED BY <2>1, <2>4, <2>5 DEF Abs!Next, Client
<1>3. ASSUME NEW c \in Context, FreePush(c) PROVE Abs!Next
  <2>1. /\ FreeElems' = FreeElems \cup {memp[c]}
        /\ out' = out /\ memp' = memp /\ Holds(c) /\ ~Holds(c)'
        /\ \A d \in Context \ {c} : Holds(d)' <=> Holds(d)
    BY <1>3, Puts
  <2>2. /\ \A d \in Client \ {c} : HasNow'[d] = HasNow[d]
        /\ HasNow[c] = {memp[c]} /\ HasNow'[c] = HasNow[c] \ {memp[c]}
    BY <2>1, HasEntries, HasEntriesNext DEF Client
  <2>3. HasNow' = [HasNow EXCEPT ![c] = @ \ {memp[c]}]
    BY <1>e, <2>2
  <2>4. Abs!Release(c, memp[c])
    BY <2>1, <2>2, <2>3 DEF Abs!Release
  <2>5. c \in Client
    BY DEF Client
  <2> QED BY <2>2, <2>4, <2>5 DEF Abs!Next, Client
<1>4. ASSUME NEW c \in Context, Return(c)
      PROVE  Abs!Next \/ UNCHANGED <<FreeElems, HasNow>>
  <2>1. /\ FreeElems' = FreeElems /\ ~Holds(c)'
        /\ out' = IF Holds(c) THEN out \cup {memp[c]} ELSE out
        /\ \A d \in Context \ {c} : /\ Holds(d)' <=> Holds(d)
                                    /\ memp'[d] = memp[d]
    BY <1>4, HandsOver
  <2>2. ASSUME NEW d \in Client \ {c, User} PROVE HasNow'[d] = HasNow[d]
    <3>1. d \in Context \ {c}
      BY <2>2 DEF Client
    <3> QED BY <2>1, <3>1, HasEntries, HasEntriesNext
  <2>3. CASE Holds(c)
    <3>1. /\ HasNow[c] = {memp[c]} /\ HasNow'[c] = HasNow[c] \ {memp[c]}
          /\ HasNow'[User] = HasNow[User] \cup {memp[c]} /\ c # User
      BY <2>1, <2>3, HasEntries, HasEntriesNext
    <3>2. HasNow' = [HasNow EXCEPT ![c] = @ \ {memp[c]},
                                   ![User] = @ \cup {memp[c]}]
      BY <1>e, <2>2, <3>1
    <3>3. Abs!HandOn(c, User, memp[c])
      BY <2>1, <3>1, <3>2 DEF Abs!HandOn
    <3>4. c \in Client /\ User \in Client
      BY DEF Client
    <3> QED BY <3>1, <3>3, <3>4 DEF Abs!Next, Client
  <2>4. CASE ~Holds(c)
    <3>1. \A d \in Client : HasNow'[d] = HasNow[d]
      BY <2>1, <2>2, <2>4, HasEntries, HasEntriesNext
    <3> QED BY <1>e, <2>1, <3>1
  <2> QED BY <2>3, <2>4
<1>5. ASSUME NEW c \in Context, NEW m \in Elem, Free(c, m) PROVE Abs!Next
  <2>1. /\ m \in out /\ out' = out \ {m} /\ FreeElems' = FreeElems
        /\ ~Holds(c) /\ Holds(c)' /\ memp'[c] = m
        /\ \A d \in Context \ {c} : /\ Holds(d)' <=> Holds(d)
                                    /\ memp'[d] = memp[d]
    BY <1>5, GivesBack
  <2>2. /\ \A d \in Client \ {c, User} : HasNow'[d] = HasNow[d]
        /\ HasNow[User] = out /\ HasNow'[User] = HasNow[User] \ {m}
        /\ HasNow'[c] = HasNow[c] \cup {m} /\ c # User
    <3>1. ASSUME NEW d \in Client \ {c, User} PROVE HasNow'[d] = HasNow[d]
      <4>1. d \in Context \ {c}
        BY <3>1 DEF Client
      <4> QED BY <2>1, <4>1, HasEntries, HasEntriesNext
    <3>2. /\ HasNow[User] = out /\ HasNow'[User] = HasNow[User] \ {m}
          /\ c # User
      BY <2>1, HasEntries, HasEntriesNext
    <3>3. HasNow'[c] = HasNow[c] \cup {m}
      BY <2>1, HasEntries, HasEntriesNext
    <3> QED BY <3>1, <3>2, <3>3
  <2>3. HasNow' = [HasNow EXCEPT ![User] = @ \ {m}, ![c] = @ \cup {m}]
    BY <1>e, <2>2
  <2>4. Abs!HandOn(User, c, m)
    BY <2>1, <2>2, <2>3 DEF Abs!HandOn
  <2>5. c \in Client /\ User \in Client
    BY DEF Client
  <2> QED BY <2>1, <2>2, <2>4, <2>5 DEF Abs!Next, Client
<1> QED BY <1>1, <1>2, <1>3, <1>4, <1>5, StepKinds

\* memp_malloc and memp_free, with their masking and their two stores each,
\* do what an allocator promises.
THEOREM ImplementsAllocator == Maskable => (Spec => IsAllocator)
<1>1. Init => Abs!Init
  <2> SUFFICES ASSUME Init PROVE Abs!Init
    OBVIOUS
  <2>1. FreeElems = Elem
    <3>1. Len(stack) = Num /\ \A i \in 1 .. Num : stack[i] = i
      BY PoolAssumption DEF Init, Elem
    <3> QED BY <3>1 DEF FreeElems, Elem
  <2>2. out = {} /\ \A c \in Context : ~Holds(c)
    BY DEF Init, Holds
  <2>3. HasNow = [d \in Client |-> {}]
    BY <2>2 DEF HasNow, Client
  <2> QED BY <2>1, <2>3 DEF Abs!Init, Client
<1> QED
  BY <1>1, PInvariant, StepAllocator, PTL DEF Spec, IsAllocator, Abs!Spec
=============================================================================
