------------------------------ MODULE RtosQueue ------------------------------
(***************************************************************************)
(* The lwIP port's mailboxes and counting semaphores                       *)
(* (firmware/lwip/src/arch/sys_arch.c) on the FreeRTOS queue they are made *)
(* of (FreeRTOS/Source/queue.c), with as much of the kernel                *)
(* (FreeRTOS/Source/tasks.c) as decides who waits, who is woken and who    *)
(* runs.                                                                   *)
(*                                                                         *)
(* One CPU.  A critical section is one step: BASEPRI keeps out the tick,   *)
(* the handler and PendSV.  Between critical sections any of the three may *)
(* come, also while a task has suspended the scheduler and locked the      *)
(* queue.  Nobody in the port waits for space in a queue, so the list of   *)
(* waiting senders and cRxLock stay empty and are left out.                *)
(***************************************************************************)
EXTENDS Naturals, Sequences, FiniteSets

CONSTANTS
  Task,           \* the tasks that use the queue
  Priorities,     \* the priorities they may be created with, all above idle
  Length,         \* uxLength: the size given to sys_mbox_new or sys_sem_new
  FirstTick,      \* the tick count when the queue is created
  NumberOfTasks,  \* uxTaskGetNumberOfTasks(), including idle and timer task
  TickMod,        \* 2^configTICK_TYPE_WIDTH_IN_BITS
  Waits,          \* timeouts passed to fetch, in ticks; MaxDelay is forever
  MaxTicks,       \* bound: tick interrupts
  MaxPosts        \* bound: attempts to post

\* portMAX_DELAY: both the largest tick count and "forever".
MaxDelay == TickMod - 1

ASSUME QueueAssumption ==
  /\ Length \in Nat \ {0}
  /\ TickMod \in Nat /\ TickMod > 1
  /\ Priorities \subseteq Nat \ {0}
  /\ Waits \subseteq 1 .. MaxDelay
  /\ FirstTick \in 0 .. MaxDelay
  /\ NumberOfTasks \in Nat
  /\ MaxTicks \in Nat /\ MaxPosts \in Nat

\* At least the tasks of the model are counted.
ASSUME TasksCounted ==
  IsFiniteSet(Task) /\ NumberOfTasks >= Cardinality(Task)

Idle == "idle task"
ASSUME IdleAssumption == Idle \notin Task

Slot == 0 .. Length - 1
Tick == 0 .. TickMod - 1
Item == 0 .. MaxPosts   \* messages are numbered; 0: a semaphore's token

VARIABLES
  \* The queue.
  kind,         \* "mbox", or "sem": uxItemSize is 0 and nothing is copied
  store,        \* the storage area
  writeTo,      \* pcWriteTo
  readFrom,     \* pcReadFrom: the slot read last
  count,        \* uxMessagesWaiting
  txLock,       \* cTxLock plus one: 0 unlocked, 1 locked, more: posts since
  waiting,      \* xTasksWaitingToReceive
  \* The kernel.
  prio,         \* uxPriority
  cur,          \* pxCurrentTCB
  state,        \* the list a task is in: ready, delayed, overflow, forever;
                \*   away: blocked in a call that has to do with other things
  wake,         \* xItemValue of a delayed task's xStateListItem
  tick,         \* xTickCount
  overflows,    \* xNumOfOverflows
  nextUnblock,  \* xNextTaskUnblockTime
  suspended,    \* uxSchedulerSuspended
  pendReady,    \* xPendingReadyList
  pendedTicks,  \* xPendedTicks
  yieldPending, \* xYieldPending
  pendSV,       \* the PendSV exception has been requested
  \* The calls.
  pc,           \* where each task is in xQueueReceive
  why,          \* what it resumes the scheduler for
  ticks,        \* xTicksToWait, counted down
  want,         \* xTicksToWait, as given
  entry,        \* xTimeOut: tick and overflow count on entering; set or not
  \* Bounds and histories.
  interrupts,   \* tick interrupts so far
  posts,        \* attempts to post so far
  age,          \* tick interrupts since a limited wait set its xTimeOut
  posted,       \* items accepted
  fetched       \* items handed out

queueVars == <<kind, store, writeTo, readFrom, count, posted, fetched>>
taskVars == <<state, wake, pendReady, waiting>>
timeVars == <<tick, overflows, nextUnblock, pendedTicks, interrupts, age>>
switchVars == <<cur, yieldPending, pendSV>>
callVars == <<pc, why, ticks, want, entry>>
vars == <<queueVars, txLock, taskVars, timeVars, switchVars, suspended, prio,
          callVars, posts>>

NoEntry == [at |-> 0, ovf |-> 0, set |-> FALSE]

TypeOK ==
  /\ kind \in {"mbox", "sem"}
  /\ store \in [Slot -> Item]
  /\ writeTo \in Slot /\ readFrom \in Slot
  /\ count \in 0 .. Length
  /\ txLock \in 0 .. NumberOfTasks + 1
  /\ waiting \in Seq(Task)
  /\ prio \in [Task -> Priorities]
  /\ cur \in Task \cup {Idle}
  /\ state \in [Task -> {"ready", "delayed", "overflow", "forever", "away"}]
  /\ wake \in [Task -> Tick]
  /\ tick \in Tick /\ nextUnblock \in Tick
  /\ overflows \in Nat
  /\ suspended \in BOOLEAN /\ yieldPending \in BOOLEAN /\ pendSV \in BOOLEAN
  /\ pendReady \subseteq Task
  /\ pendedTicks \in 0 .. MaxTicks
  /\ pc \in [Task -> {"idle", "check", "suspend", "lock", "timeout", "empty",
                      "place", "unlock", "resume", "pended", "yield",
                      "expired"}]
  /\ why \in [Task -> {"retry", "placed", "expired"}]
  /\ ticks \in [Task -> Tick] /\ want \in [Task -> Tick]
  /\ entry \in [Task -> [at : Tick, ovf : Nat, set : BOOLEAN]]
  /\ interrupts \in 0 .. MaxTicks /\ posts \in 0 .. MaxPosts
  /\ age \in [Task -> 0 .. MaxTicks]
  /\ posted \in Seq(Item) /\ fetched \in Seq(Item)

-----------------------------------------------------------------------------
(* The scheduler has been started and the queue created.  configASSERT is  *)
(* not defined, so none of the kernel's assertions stops anything.         *)
Init ==
  /\ kind \in {"mbox", "sem"}
  /\ store = [s \in Slot |-> 0]
  /\ writeTo = 0 /\ readFrom = Length - 1 /\ count = 0
  /\ txLock = 0 /\ waiting = <<>>
  /\ prio \in [Task -> Priorities]
  /\ cur = Idle
  /\ state = [t \in Task |-> "away"]
  /\ wake = [t \in Task |-> 0]
  /\ tick = FirstTick /\ overflows = 0 /\ nextUnblock = MaxDelay
  /\ suspended = FALSE /\ pendReady = {} /\ pendedTicks = 0
  /\ yieldPending = FALSE /\ pendSV = FALSE
  /\ pc = [t \in Task |-> "idle"]
  /\ why = [t \in Task |-> "retry"]
  /\ ticks = [t \in Task |-> 0] /\ want = [t \in Task |-> 0]
  /\ entry = [t \in Task |-> NoEntry]
  /\ interrupts = 0 /\ posts = 0
  /\ age = [t \in Task |-> 0]
  /\ posted = <<>> /\ fetched = <<>>

PrioOf(t) == IF t = Idle THEN 0 ELSE prio[t]

\* Does one of the tasks in S have a higher priority than the running one?
Outrank(S) == \E t \in S : prio[t] > PrioOf(cur)

\* In xTaskResumeAll the pended ticks are made up for with interrupts masked.
Masked == \E t \in Task : pc[t] = "pended"

\* Task t executes its next step.
Runs(t, place) == cur = t /\ ~pendSV /\ pc[t] = place

Goto(t, place) == pc' = [pc EXCEPT ![t] = place]

-----------------------------------------------------------------------------
(* The kernel's lists.                                                     *)

First(n) == {waiting[i] : i \in 1 .. n}

\* xTaskRemoveFromEventList, for the first n waiting tasks.  While the
\* scheduler is suspended they go to the list of pending ready tasks.
RemoveFromEventList(n) ==
  /\ waiting' = SubSeq(waiting, n + 1, Len(waiting))
  /\ IF suspended
     THEN pendReady' = pendReady \cup First(n) /\ UNCHANGED state
     ELSE /\ state' = [t \in Task |->
                         IF t \in First(n) THEN "ready" ELSE state[t]]
          /\ UNCHANGED pendReady
  /\ yieldPending' = (yieldPending \/ Outrank(First(n)))

\* The list without the tasks in S, the others in the order they are in.
Without(S) ==
  LET stay == {i \in DOMAIN waiting : waiting[i] \notin S}
      n == Cardinality(stay)
  IN  {[k \in 1 .. n |-> waiting[f[k]]] :
         f \in {g \in [1 .. n -> stay] :
                  \A j, k \in 1 .. n : j < k => g[j] < g[k]}}

\* Mutant: before those of the same priority.
InsertWaitingBefore(t) ==
  LET ahead == {i \in DOMAIN waiting : prio[waiting[i]] > prio[t]}
      n == Cardinality(ahead)
  IN  SubSeq(waiting, 1, n) \o <<t>> \o SubSeq(waiting, n + 1, Len(waiting))

\* vListInsert: by priority, behind those of the same one.
InsertWaiting(t) ==
  LET ahead == {i \in DOMAIN waiting : prio[waiting[i]] >= prio[t]}
      n == Cardinality(ahead)
  IN  SubSeq(waiting, 1, n) \o <<t>> \o SubSeq(waiting, n + 1, Len(waiting))

\* prvResetNextTaskUnblockTime, for the delayed list of status s.
Earliest(s) ==
  LET times == {wake[t] : t \in {u \in Task : s[u] = "delayed"}}
  IN  IF times = {} THEN MaxDelay
      ELSE CHOOSE x \in times : \A y \in times : x <= y

\* taskSWITCH_DELAYED_LISTS, when the tick count overflows.
Swapped ==
  [t \in Task |-> CASE state[t] = "delayed" -> "overflow"
                    [] state[t] = "overflow" -> "delayed"
                    [] OTHER -> state[t]]

\* xTaskIncrementTick with the scheduler running; switch is its result.
IncrementTick(switch) ==
  LET now == (tick + 1) % TickMod
      lists == IF now = 0 THEN Swapped ELSE state
      next == IF now = 0 THEN Earliest(lists) ELSE nextUnblock
      due == IF now >= next
             THEN {t \in Task : lists[t] = "delayed" /\ wake[t] <= now}
             ELSE {}
      after == [t \in Task |-> IF t \in due THEN "ready" ELSE lists[t]]
  IN  /\ tick' = now
      /\ overflows' = IF now = 0 THEN overflows + 1 ELSE overflows
      /\ state' = after
      /\ wake' = [t \in Task |-> IF t \in due THEN 0 ELSE wake[t]]
      /\ nextUnblock' = IF now >= next THEN Earliest(after) ELSE next
      /\ waiting' \in Without(due)
      /\ switch = (Outrank(due) \/ yieldPending
                     \/ Cardinality({t \in Task : after[t] = "ready"
                                        /\ prio[t] = PrioOf(cur)}) > 1)

-----------------------------------------------------------------------------
(* Interrupts.                                                             *)

\* xPortSysTickHandler.
SysTick ==
  /\ interrupts < MaxTicks /\ ~Masked
  /\ interrupts' = interrupts + 1
  /\ age' = [t \in Task |-> IF entry[t].set /\ want[t] # MaxDelay
                           THEN age[t] + 1 ELSE age[t]]
  /\ IF suspended
     THEN /\ pendedTicks' = pendedTicks + 1
          /\ UNCHANGED <<taskVars, tick, overflows, nextUnblock, pendSV>>
     ELSE \E switch \in BOOLEAN :
            /\ IncrementTick(switch)
            /\ pendSV' = (pendSV \/ switch)
            /\ UNCHANGED <<pendReady, pendedTicks>>
  /\ UNCHANGED <<queueVars, txLock, cur, yieldPending, suspended, prio,
                 callVars, posts>>

\* vTaskSwitchContext, run by PendSV.  Of several ready tasks with the
\* highest priority any may be next.
SwitchContext(t) ==
  /\ pendSV /\ ~Masked
  /\ pendSV' = FALSE
  /\ yieldPending' = suspended
  /\ IF suspended
     THEN t = cur /\ cur' = cur
     ELSE /\ t = Idle \/ (t # Idle /\ state[t] = "ready")
          /\ \A u \in Task : state[u] = "ready" => prio[u] <= PrioOf(t)
          /\ cur' = t
  /\ UNCHANGED <<queueVars, txLock, taskVars, timeVars, suspended, prio,
                 callVars, posts>>

\* Something else a task was waiting for has come: another interrupt.
Return(t) ==
  /\ state[t] = "away" /\ t \notin pendReady /\ ~Masked
  /\ IF suspended
     THEN pendReady' = pendReady \cup {t} /\ UNCHANGED state
     ELSE state' = [state EXCEPT ![t] = "ready"] /\ UNCHANGED pendReady
  /\ yieldPending' = (yieldPending \/ Outrank({t}))
  /\ pendSV' = (pendSV \/ Outrank({t}))
  /\ UNCHANGED <<queueVars, txLock, wake, waiting, timeVars, cur, suspended,
                 prio, callVars, posts>>

\* The running task waits for something else.
GoAway(t) ==
  /\ Runs(t, "idle")
  /\ state' = [state EXCEPT ![t] = "away"]
  /\ pendSV' = TRUE
  /\ UNCHANGED <<queueVars, txLock, wake, pendReady, waiting, timeVars, cur,
                 yieldPending, suspended, prio, callVars, posts>>

-----------------------------------------------------------------------------
(* Posting.                                                                *)

NextSlot(s) == IF s + 1 = Length THEN 0 ELSE s + 1

\* Mutant: the write position stays.
CopyToQueueStays(x) ==
  /\ store' = IF kind = "mbox" THEN [store EXCEPT ![writeTo] = x] ELSE store
  /\ count' = count + 1
  /\ posted' = Append(posted, x)
  /\ UNCHANGED <<kind, writeTo, readFrom, fetched>>

\* prvCopyDataToQueue, to the back.
CopyToQueue(x) ==
  /\ IF kind = "mbox"
     THEN store' = [store EXCEPT ![writeTo] = x] /\ writeTo' = NextSlot(writeTo)
     ELSE UNCHANGED <<store, writeTo>>
  /\ count' = count + 1
  /\ posted' = Append(posted, x)
  /\ UNCHANGED <<kind, readFrom, fetched>>

\* What this attempt posts.
Message == IF kind = "mbox" THEN posts' ELSE 0

Attempt == posts < MaxPosts /\ posts' = posts + 1

QueueFull == count = Length /\ UNCHANGED <<queueVars, txLock, taskVars, switchVars>>

\* Wakes the first task that waits for an item, if there is one.
WakeReceiver ==
  /\ RemoveFromEventList(IF waiting = <<>> THEN 0 ELSE 1)
  /\ pendSV' = (pendSV \/ (waiting # <<>> /\ Outrank(First(1))))
  /\ UNCHANGED <<wake, cur>>

\* xQueueGenericSendFromISR and xQueueGiveFromISR, whose results neither
\* sys_mbox_post nor sys_sem_signal looks at.
SendFromISR ==
  \/ QueueFull
  \/ /\ count < Length
     /\ CopyToQueue(Message)
     /\ IF txLock = 0
        THEN WakeReceiver /\ UNCHANGED txLock
        ELSE /\ txLock' = IF txLock - 1 < NumberOfTasks THEN txLock + 1
                          ELSE txLock
             /\ UNCHANGED <<taskVars, switchVars>>

\* xQueueGenericSend without waiting: it does not look at the lock.
Send ==
  \/ QueueFull
  \/ /\ count < Length
     /\ CopyToQueue(Message)
     /\ WakeReceiver
     /\ UNCHANGED txLock

\* sys_mbox_post and sys_sem_signal, called by a task: xQueueSendFromISR and
\* the request of portYIELD_FROM_ISR after it.  What falls between the two
\* finds the queue and the lists complete, and the switch only asked for later.
Post(t) ==
  /\ Runs(t, "idle")
  /\ Attempt
  /\ SendFromISR
  /\ UNCHANGED <<timeVars, suspended, prio, callVars>>

\* sys_mbox_trypost, called by a task.
TryPost(t) ==
  /\ Runs(t, "idle")
  /\ kind = "mbox"
  /\ Attempt
  /\ Send
  /\ UNCHANGED <<timeVars, suspended, prio, callVars>>

\* sys_mbox_trypost_fromisr and sys_sem_signal, called by a handler.
PostFromHandler ==
  /\ ~Masked
  /\ Attempt
  /\ SendFromISR
  /\ UNCHANGED <<timeVars, suspended, prio, callVars>>

-----------------------------------------------------------------------------
(* sys_arch_mbox_fetch and sys_arch_sem_wait: xQueueReceive and            *)
(* xQueueSemaphoreTake, which differ in what they copy.                    *)

\* A timeout of 0 milliseconds is MaxDelay ticks, a tryfetch is one tick.
StartFetch(t, w) ==
  /\ Runs(t, "idle")
  /\ ticks' = [ticks EXCEPT ![t] = w]
  /\ want' = [want EXCEPT ![t] = w]
  /\ Goto(t, "check")
  /\ UNCHANGED <<queueVars, txLock, taskVars, timeVars, switchVars, suspended,
                 prio, why, entry, posts>>

\* The call returns, and its locals are gone.
Leave(t) ==
  /\ Goto(t, "idle")
  /\ why' = [why EXCEPT ![t] = "retry"]
  /\ ticks' = [ticks EXCEPT ![t] = 0]
  /\ want' = [want EXCEPT ![t] = 0]
  /\ entry' = [entry EXCEPT ![t] = NoEntry]
  /\ age' = [age EXCEPT ![t] = 0]
  /\ wake' = [wake EXCEPT ![t] = 0]
  /\ UNCHANGED <<state, pendReady, waiting>>

\* prvCopyDataFromQueue.
FetchItem(t) ==
  LET s == NextSlot(readFrom)
  IN  /\ Runs(t, "check")
      /\ count > 0
      /\ readFrom' = IF kind = "mbox" THEN s ELSE readFrom
      /\ fetched' = Append(fetched, IF kind = "mbox" THEN store[s] ELSE 0)
      /\ count' = count - 1
      /\ Leave(t)
      /\ UNCHANGED <<kind, store, writeTo, posted, txLock, switchVars, tick,
                     overflows, nextUnblock, pendedTicks, interrupts,
                     suspended, prio, posts>>

\* errQUEUE_EMPTY: time was up before, and another task took the item.
\* After the wait has expired the queue is looked at a last time.
FetchNothing(t) ==
  /\ \/ Runs(t, "check") /\ ticks[t] = 0
     \/ Runs(t, "expired")
  /\ count = 0
  /\ Leave(t)
  /\ UNCHANGED <<queueVars, txLock, switchVars, tick, overflows, nextUnblock,
                 pendedTicks, interrupts, suspended, prio, posts>>

\* Only the control state of t and what each step names beside it change.
Advance(t, place) ==
  /\ Goto(t, place)
  /\ UNCHANGED <<queueVars, switchVars, timeVars, want, prio, posts>>

FetchExpiredAgain(t) ==
  /\ Runs(t, "expired")
  /\ count > 0
  /\ Advance(t, "check")
  /\ UNCHANGED <<txLock, taskVars, suspended, why, ticks, entry>>

\* xTimeOut: the time from which the remaining ticks count.
Now == [at |-> tick, ovf |-> overflows, set |-> TRUE]

FetchWait(t) ==
  /\ Runs(t, "check")
  /\ count = 0 /\ ticks[t] # 0
  /\ entry' = [entry EXCEPT ![t] = IF @.set THEN @ ELSE Now]
  /\ Advance(t, "suspend")
  /\ UNCHANGED <<txLock, taskVars, suspended, why, ticks>>

\* vTaskSuspendAll.
FetchSuspend(t) ==
  /\ Runs(t, "suspend")
  /\ suspended' = TRUE
  /\ Advance(t, "lock")
  /\ UNCHANGED <<txLock, taskVars, why, ticks, entry>>

\* prvLockQueue.
FetchLock(t) ==
  /\ Runs(t, "lock")
  /\ txLock' = IF txLock = 0 THEN 1 ELSE txLock
  /\ Advance(t, "timeout")
  /\ UNCHANGED <<taskVars, suspended, why, ticks, entry>>

\* xTaskCheckForTimeOut: an unsigned difference of tick counts.
Elapsed(t) == (tick + TickMod - entry[t].at) % TickMod

\* Mutant: an overflow of the tick count is taken for the end of the wait.
ExpiredByOverflow(t) ==
  /\ ticks[t] # MaxDelay
  /\ overflows # entry[t].ovf \/ Elapsed(t) >= ticks[t]

Expired(t) ==
  /\ ticks[t] # MaxDelay
  /\ \/ overflows # entry[t].ovf /\ tick >= entry[t].at
     \/ Elapsed(t) >= ticks[t]

FetchTimeOut(t) ==
  /\ Runs(t, "timeout")
  /\ IF Expired(t)
     THEN /\ ticks' = [ticks EXCEPT ![t] = 0]
          /\ why' = [why EXCEPT ![t] = "expired"]
          /\ Advance(t, "unlock")
          /\ UNCHANGED entry
     ELSE /\ IF ticks[t] = MaxDelay
             THEN UNCHANGED <<ticks, entry>>
             ELSE /\ ticks' = [ticks EXCEPT ![t] = @ - Elapsed(t)]
                  /\ entry' = [entry EXCEPT ![t] = Now]
          /\ Advance(t, "empty")
          /\ UNCHANGED why
  /\ UNCHANGED <<txLock, taskVars, suspended>>

\* prvIsQueueEmpty: something may have come before the queue was locked.
FetchIsEmpty(t) ==
  /\ Runs(t, "empty")
  /\ why' = [why EXCEPT ![t] = IF count = 0 THEN "placed" ELSE "retry"]
  /\ Advance(t, IF count = 0 THEN "place" ELSE "unlock")
  /\ UNCHANGED <<txLock, taskVars, suspended, ticks, entry>>

\* Mutant: a wake time beyond the overflow of the tick count is not told apart.
DelayedListOne(t, due) == IF ticks[t] = MaxDelay THEN "forever" ELSE "delayed"

\* prvAddCurrentTaskToDelayedList: the list for a task that wakes at due.
DelayedList(t, due) ==
  IF ticks[t] = MaxDelay THEN "forever"
  ELSE IF due < tick THEN "overflow" ELSE "delayed"

\* Mutant: a task that wakes before all others is not noted.
NextUnblockKept(list, due) == nextUnblock

NextUnblock(list, due) ==
  IF list = "delayed" /\ due < nextUnblock THEN due ELSE nextUnblock

\* vTaskPlaceOnEventList and prvAddCurrentTaskToDelayedList.
FetchPlace(t) ==
  LET due == (tick + ticks[t]) % TickMod
      list == DelayedList(t, due)
  IN  /\ Runs(t, "place")
      /\ waiting' = InsertWaiting(t)
      /\ state' = [state EXCEPT ![t] = list]
      /\ wake' = [wake EXCEPT ![t] = IF list = "forever" THEN @ ELSE due]
      /\ nextUnblock' = NextUnblock(list, due)
      /\ Goto(t, "unlock")
      /\ UNCHANGED <<queueVars, txLock, pendReady, tick, overflows,
                     pendedTicks, interrupts, age, switchVars, suspended, prio,
                     why, ticks, want, entry, posts>>

\* Mutant: what was posted while the queue was locked is forgotten.
FetchUnlockForgets(t) ==
  /\ Runs(t, "unlock")
  /\ txLock' = 0
  /\ Goto(t, "resume")
  /\ UNCHANGED <<queueVars, taskVars, timeVars, switchVars, suspended, prio,
                 why, ticks, want, entry, posts>>

\* prvUnlockQueue: one waiting task for each item posted meanwhile.
FetchUnlock(t) ==
  LET n == IF txLock - 1 < Len(waiting) THEN txLock - 1 ELSE Len(waiting)
  IN  /\ Runs(t, "unlock")
      /\ RemoveFromEventList(n)
      /\ txLock' = 0
      /\ Goto(t, "resume")
      /\ UNCHANGED <<queueVars, wake, timeVars, cur, pendSV, suspended, prio,
                     why, ticks, want, entry, posts>>

\* Mutant: the task does not yield after it has been put to sleep.
AfterResumeRunsOn(t, yielded) ==
  IF why[t] = "expired" THEN "expired" ELSE "check"

\* Where a call goes on when the scheduler is resumed.
AfterResume(t, yielded) ==
  CASE why[t] = "expired" -> "expired"
    [] why[t] = "retry" -> "check"
    [] why[t] = "placed" -> IF yielded THEN "check" ELSE "yield"

\* The end of xTaskResumeAll.
Resumed(t, yield) ==
  /\ pendSV' = (pendSV \/ yield)
  /\ Goto(t, AfterResume(t, yield))
  /\ why' = [why EXCEPT ![t] = "retry"]

\* xTaskResumeAll, up to the loop over the pended ticks.
FetchResume(t) ==
  LET after == [u \in Task |-> IF u \in pendReady THEN "ready" ELSE state[u]]
      yield == yieldPending \/ Outrank(pendReady)
  IN  /\ Runs(t, "resume")
      /\ suspended' = FALSE
      /\ state' = after
      /\ pendReady' = {}
      /\ nextUnblock' = IF pendReady = {} THEN nextUnblock ELSE Earliest(after)
      /\ yieldPending' = yield
      /\ IF pendedTicks = 0
         THEN Resumed(t, yield)
         ELSE Goto(t, "pended") /\ UNCHANGED <<pendSV, why>>
      /\ UNCHANGED <<queueVars, txLock, wake, waiting, tick, overflows,
                     pendedTicks, interrupts, age, cur, prio, ticks, want, entry,
                     posts>>

\* One turn of that loop, with interrupts still masked.
FetchPendedTick(t) ==
  /\ cur = t /\ pc[t] = "pended"
  /\ \E switch \in BOOLEAN :
       /\ IncrementTick(switch)
       /\ yieldPending' = (yieldPending \/ switch)
  /\ pendedTicks' = pendedTicks - 1
  /\ IF pendedTicks = 1
     THEN Resumed(t, yieldPending')
     ELSE UNCHANGED <<pc, pendSV, why>>
  /\ UNCHANGED <<queueVars, txLock, pendReady, interrupts, age, cur, suspended,
                 prio, ticks, want, entry, posts>>

\* portYIELD_WITHIN_API.
FetchYield(t) ==
  /\ Runs(t, "yield")
  /\ pendSV' = TRUE
  /\ Goto(t, "check")
  /\ UNCHANGED <<queueVars, txLock, taskVars, timeVars, cur, yieldPending,
                 suspended, prio, why, ticks, want, entry, posts>>

-----------------------------------------------------------------------------
Fetch(t) ==
  \/ FetchItem(t) \/ FetchNothing(t) \/ FetchWait(t)
  \/ FetchSuspend(t) \/ FetchLock(t) \/ FetchTimeOut(t) \/ FetchIsEmpty(t)
  \/ FetchPlace(t) \/ FetchUnlock(t) \/ FetchResume(t) \/ FetchPendedTick(t)
  \/ FetchYield(t) \/ FetchExpiredAgain(t)

Next ==
  \/ SysTick
  \/ \E t \in Task \cup {Idle} : SwitchContext(t)
  \/ PostFromHandler
  \/ \E t \in Task :
       \/ Return(t) \/ GoAway(t)
       \/ Post(t) \/ TryPost(t)
       \/ \E w \in Waits : StartFetch(t, w)
       \/ Fetch(t)

Spec == Init /\ [][Next]_vars

\* The processor executes the running task, a task outside the queue's
\* functions waits for something else sooner or later, and interrupts are
\* not so dense that PendSV, or a task it has switched to, never gets on.
FairSpec ==
  /\ Spec
  /\ WF_vars(\E t \in Task \cup {Idle} : SwitchContext(t))
  /\ \A t \in Task :
       /\ SF_vars(SwitchContext(t))
       /\ SF_vars(Fetch(t))
       /\ SF_vars(GoAway(t))

-----------------------------------------------------------------------------
(* Properties.                                                             *)

Fetching == {t \in Task : pc[t] # "idle"}

Waiters == {waiting[i] : i \in DOMAIN waiting}

\* The queue is a bounded fifo of what was posted, whichever of the three
\* ways of posting was used and however long readers waited.
Fifo == INSTANCE BoundedFifo
          WITH put <- posted, taken <- fetched, Capacity <- Length

IsFifo == Fifo!Spec

\* No wake-up is lost between a reader's look at the empty queue and its
\* entry in the list of waiting tasks: when tasks wait beside items, as many
\* others are on their way to take these, or the lock remembers the posts.
NoLostWakeup ==
  waiting # <<>> =>
    \/ count <= Cardinality(Fetching \ Waiters)
                 + (IF txLock = 0 THEN 0 ELSE txLock - 1)
    \/ txLock > NumberOfTasks

\* Reader t is in the list of waiting readers before reader u.
Ahead(t, u) ==
  \E i, j \in DOMAIN waiting : i < j /\ waiting[i] = t /\ waiting[j] = u

\* An item wakes the first reader in the list, so the order of the list
\* decides who is served: none sleeps behind one of lower priority, whoever
\* was woken, timed out or came in between.
HighestFirst == \A t, u \in Task : Ahead(t, u) => prio[t] >= prio[u]

\* Of readers of the same priority the one that has waited longest is woken
\* first, and nobody is passed over for one of lower priority: while a reader
\* waits, such a one behind it stays there until its own time is over, and a
\* new one goes behind.
WokenInOrder ==
  [][\A t, u \in Task :
       t \in Waiters /\ t \in Waiters' /\ prio[t] >= prio[u] =>
         /\ Ahead(t, u) => \/ Ahead(t, u)'
                           \/ u \notin Waiters' /\ tick' # tick
         /\ u \in Waiters' \ Waiters => Ahead(t, u)']_vars

\* A fetch gives up only after all of its timeout has passed, and one
\* without a timeout never: sys_arch_mbox_fetch has no answer for that.
NoEarlyTimeout ==
  [][\A t \in Task :
       (t \in Fetching /\ t \notin Fetching' /\ fetched' = fetched)
         => want[t] # MaxDelay /\ age[t] >= want[t]]_vars

\* A reader is not left sleeping when its time is over, though the tick
\* count overflows, ticks are pended or other tasks were woken before.
WokenOnTime ==
  \A t \in Task :
    state[t] \in {"delayed", "overflow"} => age[t] < want[t] + pendedTicks

\* "The delayed tasks list should be empty when the lists are switched"
\* (tasks.c:205): what is in it wakes before the overflow.
DelayedAreAhead ==
  \A t \in Task :
    /\ state[t] = "delayed" => wake[t] > tick /\ nextUnblock <= wake[t]
    /\ state[t] = "overflow" => wake[t] < tick

\* Whenever nothing holds a switch back, the processor runs a ready task and
\* none of a higher priority is kept waiting for it.
HighestRuns ==
  (~suspended /\ ~pendSV /\ ~Masked) =>
    \/ cur # Idle /\ pc[cur] = "yield"
    \/ /\ cur = Idle \/ (cur # Idle /\ state[cur] = "ready")
       /\ \A u \in Task : state[u] = "ready" => prio[u] <= PrioOf(cur)

\* A reader on its way out of a queue with items gets one, unless others
\* take them all.
ReaderServed ==
  \A t \in Task :
    (t \in Fetching /\ count > 0) ~> (t \notin Fetching \/ count = 0)
=============================================================================
