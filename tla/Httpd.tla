-------------------------------- MODULE Httpd --------------------------------
(***************************************************************************)
(* Start-up after the scheduler runs (lwip_init_task of firmware/main.c),  *)
(* the HTTP server (firmware/app/httpd_task.c) and the part of lwIP's      *)
(* netconn layer it uses (lwip/src/api/api_lib.c and api_msg.c): who waits *)
(* for what, who owns a netconn, and what TCP's callbacks find when they   *)
(* come between two steps of a call.                                       *)
(*                                                                         *)
(* TCP itself is external: it calls accept_function, recv_tcp, err_tcp and *)
(* poll_tcp.  CoreLocked says whether LOCK_TCPIP_CORE locks anything; the  *)
(* mutex is made by tcpip_init, which the firmware does not call.          *)
(***************************************************************************)
EXTENDS Naturals, Sequences, FiniteSets

CONSTANTS
  Conn,         \* the elements of the pool MEMP_NETCONN
  RecvSize,     \* DEFAULT_TCP_RECVMBOX_SIZE
  AcceptSize,   \* DEFAULT_ACCEPTMBOX_SIZE
  Static,       \* LWIP_IPADDR_STATIC
  CoreLocked,   \* tcpip_init has been called: a thread runs TCP under a lock
  MayFail,      \* may the FreeRTOS heap run out
  DhcpRetries,  \* dhcp_retries: 300 in the code
  MaxConnects   \* bound: connections offered by the network

ASSUME HttpdAssumption ==
  /\ IsFiniteSet(Conn)
  /\ RecvSize \in Nat /\ AcceptSize \in Nat
  /\ Static \in BOOLEAN /\ CoreLocked \in BOOLEAN /\ MayFail \in BOOLEAN
  /\ DhcpRetries \in Nat /\ MaxConnects \in Nat

None == "none"

\* What lwip_netconn_err_to_msg makes of ERR_ABRT, in an accept mailbox: the
\* address of no netconn.
Abrt == "err_abrt"

\* sys_sem_new makes a counting semaphore that stops at 0xFF.
SemMax == 255

ASSUME NamesAssumption == None \notin Conn /\ Abrt \notin Conn

VARIABLES
  \* lwip_init_task.
  ipc,        \* where it is
  up,         \* NETIF_FLAG_UP
  addr,       \* ip_addr is not 0
  dhcp,       \* the DHCP client runs
  retries,    \* dhcp_retries
  announced,  \* "HTTP Server started on port 80" has been printed
  \* httpd_task.
  pc,         \* where it is
  server,     \* server_conn
  client,     \* client_conn, or server_conn when it is given up
  left,       \* calls of netconn_write to come
  \* The netconns.
  used,       \* allocated
  state,      \* conn->state
  pcb,        \* conn->pcb.tcp: the TCP connection that calls back
  recv,       \* recvmbox, or NoMbox
  accept,     \* acceptmbox of the server, or NoMbox
  mboxClosed, \* NETCONN_FLAG_MBOXCLOSED
  pending,    \* conn->pending_err
  op,         \* op_completed: its count
  \* TCP.
  cb,         \* err_tcp between its two halves: the netconn and old_state
  sentData,   \* the peer of a connection has sent its request
  sentFin,    \* and its FIN
  connects,   \* connections offered so far
  failed      \* history: the heap has run out

bootVars == <<ipc, up, addr, dhcp, retries, announced>>
taskVars == <<pc, server, client, left>>
connVars == <<used, state, pcb, recv, accept, mboxClosed, pending, op>>
netVars == <<cb, sentData, sentFin, connects>>
vars == <<bootVars, taskVars, connVars, netVars, failed>>

NoMbox == <<None>>
Message == {"data", "closed", "err"}

\* What the two kinds of mailbox may hold.
RecvQueue == {s \in Seq(Message) : Len(s) <= RecvSize}
AcceptQueue == {s \in Seq(Conn \cup {Abrt}) : Len(s) <= AcceptSize}

Place == {"born", "up", "addr", "new", "newconn", "listen", "acceptmbox",
          "listening", "accept", "recv", "fetch", "tryfetch", "fin", "shut",
          "shutting", "write", "more", "wait", "close", "closing", "delete",
          "free", "gone"}

BootTypeOK ==
  /\ ipc \in {"enet", "addr", "dhcp", "wait", "look", "stop", "fallback",
              "create", "loop"}
  /\ up \in BOOLEAN /\ addr \in BOOLEAN /\ dhcp \in BOOLEAN
  /\ retries \in 0 .. DhcpRetries /\ announced \in BOOLEAN

TaskTypeOK ==
  /\ pc \in Place
  /\ server \in Conn \cup {None} /\ client \in Conn \cup {None}
  /\ left \in 0 .. 2

ConnTypeOK ==
  /\ used \subseteq Conn
  /\ state \in [Conn -> {"none", "listen", "write", "close"}]
  /\ pcb \in [Conn -> {"none", "new", "listen", "open"}]
  /\ recv \in [Conn -> RecvQueue \cup {NoMbox}]
  /\ accept \in AcceptQueue \cup {NoMbox}
  /\ mboxClosed \in [Conn -> BOOLEAN] /\ pending \in [Conn -> BOOLEAN]
  /\ op \in [Conn -> 0 .. SemMax]

NetTypeOK ==
  /\ cb \in [conn : Conn \cup {None}, old : {"none", "write", "close"}]
  /\ sentData \in [Conn -> BOOLEAN] /\ sentFin \in [Conn -> BOOLEAN]
  /\ connects \in 0 .. MaxConnects
  /\ failed \in BOOLEAN

TypeOK == BootTypeOK /\ TaskTypeOK /\ ConnTypeOK /\ NetTypeOK

NoCallback == [conn |-> None, old |-> "none"]

\* main has created lwip_init_task and started the scheduler.
Init ==
  /\ ipc = "enet" /\ up = FALSE /\ addr = FALSE /\ dhcp = FALSE
  /\ retries = DhcpRetries /\ announced = FALSE
  /\ pc = "born" /\ server = None /\ client = None /\ left = 0
  /\ used = {}
  /\ state = [c \in Conn |-> "none"] /\ pcb = [c \in Conn |-> "none"]
  /\ recv = [c \in Conn |-> NoMbox] /\ accept = NoMbox
  /\ mboxClosed = [c \in Conn |-> FALSE] /\ pending = [c \in Conn |-> FALSE]
  /\ op = [c \in Conn |-> 0]
  /\ cb = NoCallback
  /\ sentData = [c \in Conn |-> FALSE] /\ sentFin = [c \in Conn |-> FALSE]
  /\ connects = 0 /\ failed = FALSE

-----------------------------------------------------------------------------
(* lwip_init_task.                                                         *)

Boot(from, to) ==
  /\ ipc = from /\ ipc' = to
  /\ UNCHANGED <<connVars, netVars>>

\* imxrt_enet_init succeeds, as the device's reset bit always reads 0.
InitEnet ==
  /\ Boot("enet", "addr")
  /\ UNCHANGED <<up, addr, dhcp, retries, announced, taskVars, failed>>

\* Mutant: DHCP is started on an interface that is down.
ConfigureIpStaysDown ==
  /\ Boot("addr", IF Static THEN "create" ELSE "dhcp")
  /\ addr' = Static
  /\ UNCHANGED <<up, dhcp, retries, announced, taskVars, failed>>

\* The static branch sets the address and nothing else; the other one brings
\* the interface up without one.
ConfigureIp ==
  /\ Boot("addr", IF Static THEN "create" ELSE "dhcp")
  /\ addr' = Static
  /\ up' = ~Static
  /\ UNCHANGED <<dhcp, retries, announced, taskVars, failed>>

\* dhcp_start, which may find no memory: then the fallback address.
DhcpStart ==
  /\ \/ Boot("dhcp", "wait") /\ dhcp' = TRUE
     \/ Boot("dhcp", "fallback") /\ UNCHANGED dhcp
  /\ UNCHANGED <<up, addr, retries, announced, taskVars, failed>>

DhcpPoll ==
  /\ \/ ~addr /\ retries > 0 /\ Boot("wait", "wait") /\ retries' = retries - 1
     \/ (addr \/ retries = 0) /\ Boot("wait", "look") /\ UNCHANGED retries
  /\ UNCHANGED <<up, addr, dhcp, announced, taskVars, failed>>

DhcpLook ==
  /\ Boot("look", IF addr THEN "create" ELSE "stop")
  /\ UNCHANGED <<up, addr, dhcp, retries, announced, taskVars, failed>>

\* dhcp_stop releases an address that has come since.
DhcpStop ==
  /\ Boot("stop", "fallback")
  /\ dhcp' = FALSE
  /\ addr' = FALSE
  /\ UNCHANGED <<up, retries, announced, taskVars, failed>>

Fallback ==
  /\ Boot("fallback", "create")
  /\ addr' = TRUE
  /\ UNCHANGED <<up, dhcp, retries, announced, taskVars, failed>>

\* xTaskCreate; only a message tells whether it failed.
CreateHttpd ==
  /\ Boot("create", "loop")
  /\ \/ pc' = "up" /\ announced' = TRUE /\ UNCHANGED failed
     \/ MayFail /\ failed' = TRUE /\ UNCHANGED <<pc, announced>>
  /\ UNCHANGED <<up, addr, dhcp, retries, server, client, left>>

BootStep ==
  \/ InitEnet \/ ConfigureIp \/ DhcpStart \/ DhcpPoll \/ DhcpLook
  \/ DhcpStop \/ Fallback \/ CreateHttpd

\* A DHCP server answers.
DhcpBind ==
  /\ dhcp /\ ~addr
  /\ addr' = TRUE
  /\ UNCHANGED <<ipc, up, dhcp, retries, announced, taskVars, connVars, netVars,
                 failed>>

-----------------------------------------------------------------------------
(* Mutual exclusion of the two users of TCP.                               *)

\* httpd_task is inside a function called by tcpip_send_msg_wait_sem.
InCore == pc \in {"acceptmbox", "listening", "more", "shutting", "closing"}

\* httpd_task calls such a function.
EntersCore ==
  pc \in {"newconn", "listen", "shut", "write", "close", "delete"}

\* Mutant: the core lock is not taken.
CallbackAnyTime == cb.conn = None

\* Without the thread TCP runs in ENET_IRQHandler, at any point of the task.
CallbackMayRun == cb.conn = None /\ ~(CoreLocked /\ InCore)

\* The task goes on beside a callback of the thread, but not into the core;
\* and not at all beside the handler.
Runs(place) ==
  /\ pc = place
  /\ cb.conn = None \/ (CoreLocked /\ ~EntersCore)
  /\ UNCHANGED <<bootVars, netVars>>

Goto(place) == pc' = place

-----------------------------------------------------------------------------
(* Allocating and freeing.                                                 *)

\* xQueueGenericCreate refuses a size of 0 and returns NULL without memory.
CanCreate(size) == size > 0

Fresh(c) ==
  /\ used' = used \cup {c}
  /\ state' = [state EXCEPT ![c] = "none"]
  /\ recv' = [recv EXCEPT ![c] = <<>>]
  /\ mboxClosed' = [mboxClosed EXCEPT ![c] = FALSE]
  /\ pending' = [pending EXCEPT ![c] = FALSE]
  /\ op' = [op EXCEPT ![c] = 0]

\* The pool's first free element; which one that is makes no difference.
PoolHead == CHOOSE c \in Conn : c \notin used

\* netconn_alloc gives back what it has got when a later part fails.
MayAlloc == used # Conn /\ CanCreate(RecvSize)

AllocFails ==
  /\ used = Conn \/ ~CanCreate(RecvSize) \/ MayFail
  /\ failed' = (failed \/ (used # Conn /\ CanCreate(RecvSize)))

\* netconn_drain: what is in the mailbox is freed, and the mailbox too.
Drained(c) == [recv EXCEPT ![c] = NoMbox]

\* The netconns that a netconn_drain of the server frees with it.
Unaccepted == {c \in Conn : \E i \in DOMAIN accept : accept[i] = c}

-----------------------------------------------------------------------------
(* httpd_task up to listening.                                             *)

WaitUp ==
  /\ Runs("up") /\ up
  /\ Goto("addr")
  /\ UNCHANGED <<server, client, left, connVars, failed>>

WaitAddr ==
  /\ Runs("addr") /\ addr
  /\ Goto("new")
  /\ UNCHANGED <<server, client, left, connVars, failed>>

NetconnNew ==
  /\ Runs("new")
  /\ \/ /\ MayAlloc /\ Fresh(PoolHead)
        /\ server' = PoolHead
        /\ Goto("newconn")
        /\ UNCHANGED failed
     \/ AllocFails /\ Goto("gone") /\ UNCHANGED <<server, connVars>>
  /\ UNCHANGED <<client, left, pcb, accept>>

\* lwip_netconn_do_newconn and do_bind: nothing else uses a pcb or port 80.
DoNewconn ==
  /\ Runs("newconn")
  /\ pcb' = [pcb EXCEPT ![server] = "new"]
  /\ Goto("listen")
  /\ UNCHANGED <<server, client, left, used, state, recv, accept, mboxClosed,
                 pending, op, failed>>

\* lwip_netconn_do_listen: the pcb listens, and accepts for nobody yet.
DoListen ==
  /\ Runs("listen")
  /\ pcb' = [pcb EXCEPT ![server] = "listen"]
  /\ recv' = Drained(server)
  /\ Goto("acceptmbox")
  /\ UNCHANGED <<server, client, left, used, state, accept, mboxClosed, pending,
                 op, failed>>

DoListenMbox ==
  /\ Runs("acceptmbox")
  /\ \/ /\ CanCreate(AcceptSize)
        /\ accept' = <<>>
        /\ Goto("listening")
        /\ UNCHANGED <<pcb, client, failed>>
     \/ /\ ~CanCreate(AcceptSize) \/ MayFail
        /\ failed' = (failed \/ CanCreate(AcceptSize))
        /\ pcb' = [pcb EXCEPT ![server] = "none"]
        /\ client' = server
        /\ Goto("delete")
        /\ UNCHANGED accept
  /\ UNCHANGED <<server, left, used, state, recv, mboxClosed, pending, op>>

DoListenDone ==
  /\ Runs("listening")
  /\ state' = [state EXCEPT ![server] = "listen"]
  /\ Goto("accept")
  /\ UNCHANGED <<server, client, left, used, pcb, recv, accept, mboxClosed,
                 pending, op, failed>>
-----------------------------------------------------------------------------
(* TCP's callbacks.                                                        *)

ByTcp == UNCHANGED <<bootVars, pc, server, client, left>>

\* Mutant: a netconn that does not fit into the mailbox is not freed.
AcceptNewKept ==
  /\ MayAlloc
  /\ Fresh(PoolHead)
  /\ pcb' = [pcb EXCEPT ![PoolHead] = "open"]
  /\ accept' = IF Len(accept) < AcceptSize THEN Append(accept, PoolHead) ELSE accept
  /\ sentData' = [sentData EXCEPT ![PoolHead] = FALSE]
  /\ sentFin' = [sentFin EXCEPT ![PoolHead] = FALSE]
  /\ UNCHANGED failed

\* accept_function has got a netconn.  If the mailbox takes it, it is set up
\* for the new connection; otherwise it is freed again and TCP aborts.
AcceptNew ==
  /\ MayAlloc
  /\ IF Len(accept) < AcceptSize
     THEN /\ Fresh(PoolHead)
          /\ pcb' = [pcb EXCEPT ![PoolHead] = "open"]
          /\ accept' = Append(accept, PoolHead)
          /\ sentData' = [sentData EXCEPT ![PoolHead] = FALSE]
          /\ sentFin' = [sentFin EXCEPT ![PoolHead] = FALSE]
     ELSE UNCHANGED <<connVars, sentData, sentFin>>
  /\ UNCHANGED failed

\* It has none, or TCP had no pcb for the connection: the server is told, if
\* there is room.
AcceptAbort ==
  /\ AllocFails \/ UNCHANGED failed
  /\ accept' = IF Len(accept) < AcceptSize THEN Append(accept, Abrt) ELSE accept
  /\ UNCHANGED <<used, state, pcb, recv, mboxClosed, pending, op,
                 sentData, sentFin>>

AcceptFunction ==
  /\ CallbackMayRun
  /\ server # None /\ state[server] = "listen"
  /\ connects < MaxConnects
  /\ connects' = connects + 1
  /\ AcceptNew \/ AcceptAbort
  /\ UNCHANGED cb
  /\ ByTcp

\* recv_tcp: freed when there is no mailbox; when it is full TCP keeps the
\* data and comes back.
Deliver(c, m) ==
  /\ CallbackMayRun
  /\ pcb[c] = "open"
  /\ IF recv[c] = NoMbox THEN UNCHANGED recv
     ELSE Len(recv[c]) < RecvSize /\ recv' = [recv EXCEPT ![c] = Append(@, m)]
  /\ UNCHANGED <<used, state, pcb, accept, mboxClosed, pending, op, cb,
                 connects, failed>>
  /\ ByTcp

RecvData(c) ==
  /\ ~sentData[c] /\ ~sentFin[c]
  /\ sentData' = [sentData EXCEPT ![c] = TRUE]
  /\ Deliver(c, "data")
  /\ UNCHANGED sentFin

RecvFin(c) ==
  /\ ~sentFin[c]
  /\ sentFin' = [sentFin EXCEPT ![c] = TRUE]
  /\ Deliver(c, "closed")
  /\ UNCHANGED sentData

\* sys_sem_signal on op_completed: one more, unless the count is at its end.
Signalled(c) == [op EXCEPT ![c] = IF @ < SemMax THEN @ + 1 ELSE @]

\* err_tcp: TCP has given up the connection and freed its pcb.
ErrTcpMark(c) ==
  /\ CallbackMayRun
  /\ pcb[c] = "open"
  /\ pcb' = [pcb EXCEPT ![c] = "none"]
  /\ pending' = [pending EXCEPT ![c] = TRUE]
  /\ mboxClosed' = [mboxClosed EXCEPT ![c] = TRUE]
  /\ state' = [state EXCEPT ![c] = "none"]
  /\ cb' = [conn |-> c, old |-> state[c]]
  /\ UNCHANGED <<used, recv, accept, op, sentData, sentFin, connects,
                 failed>>
  /\ ByTcp

\* Mutant: the mailbox is not told.
ErrTcpPostNot ==
  LET c == cb.conn
  IN  /\ c # None
      /\ op' = IF cb.old \in {"write", "close"} THEN Signalled(c) ELSE op
      /\ cb' = NoCallback
      /\ UNCHANGED <<used, state, pcb, recv, accept, mboxClosed, pending,
                     sentData, sentFin, connects, failed>>
      /\ ByTcp

\* And tells whoever waits for the mailbox, or for the end of a call.
ErrTcpPost ==
  LET c == cb.conn
  IN  /\ c # None
      /\ recv' = IF recv[c] # NoMbox /\ Len(recv[c]) < RecvSize
                 THEN [recv EXCEPT ![c] = Append(@, "err")] ELSE recv
      /\ op' = IF cb.old \in {"write", "close"} THEN Signalled(c) ELSE op
      /\ cb' = NoCallback
      /\ UNCHANGED <<used, state, pcb, accept, mboxClosed, pending,
                     sentData, sentFin, connects, failed>>
      /\ ByTcp

\* Mutant: the task that waits for the write is not told of its end.
WriteMoreSilent(c) ==
  /\ CallbackMayRun
  /\ pcb[c] = "open" /\ state[c] = "write"
  /\ state' = [state EXCEPT ![c] = "none"]
  /\ UNCHANGED <<used, pcb, recv, accept, mboxClosed, pending, op, netVars,
                 failed>>
  /\ ByTcp

\* Mutant: the write is not marked as ended.
WriteMoreAgain(c) ==
  /\ CallbackMayRun
  /\ pcb[c] = "open" /\ state[c] = "write"
  /\ op' = Signalled(c)
  /\ UNCHANGED <<used, state, pcb, recv, accept, mboxClosed, pending, netVars,
                 failed>>
  /\ ByTcp

\* poll_tcp or sent_tcp end a write that had to wait.  (They would also take up
\* a close, but no close waits: the lock keeps them out while there is one.)
WriteMore(c) ==
  /\ CallbackMayRun
  /\ pcb[c] = "open" /\ state[c] = "write"
  /\ state' = [state EXCEPT ![c] = "none"]
  /\ op' = Signalled(c)
  /\ UNCHANGED <<used, pcb, recv, accept, mboxClosed, pending, netVars, failed>>
  /\ ByTcp

-----------------------------------------------------------------------------
(* httpd_task, one connection after the other.                             *)

\* Mutant: the netconn stays in the mailbox it is fetched from.
AcceptLeavesIt ==
  /\ Runs("accept")
  /\ accept # <<>>
  /\ IF Head(accept) = Abrt
     THEN accept' = Tail(accept) /\ UNCHANGED <<client, pc>>
     ELSE client' = Head(accept) /\ Goto("recv") /\ UNCHANGED accept
  /\ UNCHANGED <<server, left, used, state, pcb, recv, mboxClosed, pending, op,
                 failed>>

\* netconn_accept: after an error the loop goes round.
Accept ==
  /\ Runs("accept")
  /\ accept # <<>>
  /\ accept' = Tail(accept)
  /\ IF Head(accept) = Abrt
     THEN UNCHANGED <<client, pc>>
     ELSE client' = Head(accept) /\ Goto("recv")
  /\ UNCHANGED <<server, left, used, state, pcb, recv, mboxClosed, pending, op,
                 failed>>

\* netconn_recv_data looks at the netconn before it waits for the mailbox.
Recv ==
  /\ Runs("recv")
  /\ Goto(IF mboxClosed[client] \/ pending[client] THEN "tryfetch" ELSE "fetch")
  /\ UNCHANGED <<server, client, left, connVars, failed>>

\* A request is answered by two writes.
Fetch ==
  /\ Runs("fetch") \/ Runs("tryfetch")
  /\ recv[client] # <<>>
  /\ recv' = [recv EXCEPT ![client] = Tail(@)]
  /\ left' = IF Head(recv[client]) = "data" THEN 2 ELSE 0
  /\ Goto(CASE Head(recv[client]) = "data" -> "write"
            [] Head(recv[client]) = "closed" -> "fin"
            [] Head(recv[client]) = "err" -> "close")
  /\ UNCHANGED <<server, client, used, state, pcb, accept, mboxClosed, pending,
                 op, failed>>

\* The end of the stream: netconn_recv_data_tcp looks, without the lock,
\* whether there still is a connection to shut down.
HandleFin ==
  /\ Runs("fin")
  /\ IF pcb[client] = "none"
     THEN pending' = [pending EXCEPT ![client] = FALSE] /\ Goto("close")
     ELSE Goto("shut") /\ UNCHANGED pending
  /\ UNCHANGED <<server, client, left, used, state, pcb, recv, accept,
                 mboxClosed, op, failed>>

\* lwip_netconn_do_close: without a connection there is nothing to do;
\* otherwise the mailbox goes first, whichever side is closed.
DoClose(place, inside, outside) ==
  /\ Runs(place)
  /\ IF pcb[client] = "none"
     THEN Goto(outside) /\ UNCHANGED <<recv, state>>
     ELSE /\ recv' = Drained(client)
          /\ state' = [state EXCEPT ![client] = "close"]
          /\ Goto(inside)
  /\ UNCHANGED <<server, client, left, used, pcb, accept, mboxClosed, pending,
                 op, failed>>

\* netconn_close_shutdown of the receiving side.
Shutdown == DoClose("shut", "shutting", "close")

\* lwip_netconn_do_close_internal: TCP keeps the netconn, to be told of errors.
ShutdownDone ==
  /\ Runs("shutting") /\ pcb[client] = "open" /\ state[client] = "close"
  /\ state' = [state EXCEPT ![client] = "none"]
  /\ Goto("close")
  /\ UNCHANGED <<server, client, left, used, pcb, recv, accept, mboxClosed,
                 pending, op, failed>>

TryFetchEmpty ==
  /\ Runs("tryfetch")
  /\ recv[client] = <<>>
  /\ pending' = [pending EXCEPT ![client] = FALSE]
  /\ Goto("close")
  /\ UNCHANGED <<server, client, left, used, state, pcb, recv, accept,
                 mboxClosed, op, failed>>

\* Where a call that has ended leads, with n writes still to come.
AfterWrite(n) == IF n = 0 THEN "close" ELSE "write"

\* lwip_netconn_do_write: nothing is written when the connection is gone.
Write ==
  /\ Runs("write")
  /\ left' = left - 1
  /\ pending' = [pending EXCEPT ![client] = FALSE]
  /\ IF pending[client] \/ pcb[client] = "none"
     THEN Goto(AfterWrite(left - 1)) /\ UNCHANGED state
     ELSE Goto("more") /\ state' = [state EXCEPT ![client] = "write"]
  /\ UNCHANGED <<server, client, used, pcb, recv, accept, mboxClosed, op,
                 failed>>

\* lwip_netconn_do_writemore: TCP takes the bytes, or has no room for them.
WriteFirst ==
  /\ Runs("more") /\ pcb[client] = "open" /\ state[client] = "write"
  /\ \/ /\ state' = [state EXCEPT ![client] = "none"]
        /\ Goto(AfterWrite(left))
     \/ Goto("wait") /\ UNCHANGED state
  /\ UNCHANGED <<server, client, left, used, pcb, recv, accept, mboxClosed,
                 pending, op, failed>>

\* netconn_close.
Close == DoClose("close", "closing", "delete")

\* lwip_netconn_do_close_internal: TCP forgets the netconn.  It does so even
\* without memory for the FIN, which it then sends later by itself.
CloseDone ==
  /\ Runs("closing") /\ pcb[client] = "open" /\ state[client] = "close"
  /\ state' = [state EXCEPT ![client] = "none"]
  /\ pcb' = [pcb EXCEPT ![client] = "none"]
  /\ Goto("delete")
  /\ UNCHANGED <<server, client, left, used, recv, accept, mboxClosed, pending,
                 op, failed>>

\* sys_arch_sem_wait on op_completed, for a write.
Wait ==
  /\ Runs("wait") /\ op[client] > 0 /\ state[client] # "write"
  /\ op' = [op EXCEPT ![client] = @ - 1]
  /\ Goto(AfterWrite(left))
  /\ UNCHANGED <<server, client, left, used, state, pcb, recv, accept,
                 mboxClosed, pending, failed>>

\* Mutant: the mailbox is not drained.
DeleteKeepsMbox ==
  /\ Runs("delete")
  /\ Goto("free")
  /\ UNCHANGED <<server, client, left, connVars, failed>>

\* lwip_netconn_do_delconn, for a netconn whose pcb has been closed.
Delete ==
  /\ Runs("delete")
  /\ recv' = Drained(client)
  /\ Goto("free")
  /\ UNCHANGED <<server, client, left, used, state, pcb, accept, mboxClosed,
                 pending, op, failed>>

\* netconn_free.  Without its server the task deletes itself.  The flags left
\* in the freed memory mean nothing.
Free ==
  /\ Runs("free")
  /\ used' = used \ {client}
  /\ mboxClosed' = [mboxClosed EXCEPT ![client] = FALSE]
  /\ pending' = [pending EXCEPT ![client] = FALSE]
  /\ client' = None
  /\ server' = IF client = server THEN None ELSE server
  /\ Goto(IF client = server THEN "gone" ELSE "accept")
  /\ UNCHANGED <<left, state, pcb, recv, accept, op, failed>>

-----------------------------------------------------------------------------
Serve ==
  \/ WaitUp \/ WaitAddr \/ NetconnNew \/ DoNewconn
  \/ DoListen \/ DoListenMbox \/ DoListenDone
  \/ Accept \/ Recv \/ Fetch \/ TryFetchEmpty
  \/ HandleFin \/ Shutdown \/ ShutdownDone \/ Write \/ WriteFirst \/ Wait
  \/ Close \/ CloseDone \/ Delete \/ Free

Callback ==
  \/ AcceptFunction \/ ErrTcpPost
  \/ \E c \in Conn :
       RecvData(c) \/ RecvFin(c) \/ ErrTcpMark(c) \/ WriteMore(c)

Next == BootStep \/ DhcpBind \/ Serve \/ Callback

Spec == Init /\ [][Next]_vars

\* Both tasks get on, a callback of TCP comes to its end, and TCP polls the
\* connection whose call waits, and sends what it was given or gives up.
FairSpec ==
  /\ Spec
  /\ WF_vars(BootStep) /\ WF_vars(Serve) /\ WF_vars(ErrTcpPost)
  /\ SF_vars(\E c \in Conn : WriteMore(c))

-----------------------------------------------------------------------------
(* Properties.                                                             *)

\* The message of lwip_init_task (main.c:342) comes true: the server listens,
\* unless the heap has run out.
AnnouncedListens ==
  announced ~> (failed \/ (server # None /\ state[server] = "listen"))

\* A netconn in the pool is nobody's: TCP does not call back for it, and it
\* has no mailbox and no count left that its next user would find.
FreeIsDetached ==
  \A c \in Conn \ used :
    pcb[c] = "none" /\ recv[c] = NoMbox /\ op[c] = 0 /\ c \notin Unaccepted

\* Every netconn in use has exactly one owner, who will free it: the server,
\* the client being served, or the mailbox of accepted connections.
NoneLeaked ==
  /\ used = ({server, client} \cup Unaccepted) \ {None}
  /\ client \notin Unaccepted
  /\ \A i, j \in DOMAIN accept : accept[i] = accept[j] => i = j \/ accept[i] = Abrt

\* The pool of netconns does for its three owners what an allocator promises:
\* each step of the task or of a callback takes one netconn that is free, hands
\* one on, or gives one back, and nothing else changes hands.
Owner == {"server", "client", "mailbox"}

Held(o) ==
  CASE o = "server" -> {server} \ {None}
    [] o = "client" -> {client} \ {server, None}
    [] o = "mailbox" -> Unaccepted

FreeConns == Conn \ used

HeldNow == [o \in Owner |-> Held(o)]

Memp == INSTANCE Allocator
          WITH Elem <- Conn, Client <- Owner, free <- FreeConns, has <- HeldNow

UsesPool == Memp!Spec

\* What lwIP asserts about a connection it is about to write to or to close
\* (api_msg.c:936-937, 1656 and 1658), about a write whose end has been waited
\* for (api_msg.c:1840), and about a netconn it frees (api_msg.c:800): no
\* callback has changed what the call saw when it began.
AssertionsHold ==
  /\ pc = "more" => pcb[client] = "open" /\ state[client] = "write"
  /\ pc \in {"shutting", "closing"} =>
       pcb[client] = "open" /\ state[client] = "close"
  /\ pc = "wait" /\ op[client] > 0 => state[client] # "write"
  /\ pc = "free" => pcb[client] = "none"

\* The end of a write is signalled once, whoever of poll_tcp, sent_tcp and
\* err_tcp sees it first, and only while the task waits for it: a count left
\* over would end the wait of the next write, of this user of the netconn or of
\* the next, before the write has ended (api_msg.c:501 and 1798).
SignalledOnce ==
  \A c \in Conn :
    op[c] > 0 =>
      op[c] = 1 /\ c = client /\ pc = "wait" /\ state[c] # "write"

\* The task is never left waiting: for the mailbox of a connection that is
\* gone, or for the end of a write that no callback is going to end.
NotStranded ==
  /\ (pc = "fetch" /\ pcb[client] = "none" /\ cb.conn # client)
       => recv[client] # <<>>
  /\ (pc = "wait" /\ op[client] = 0)
       => cb.conn = client \/ (pcb[client] = "open" /\ state[client] = "write")

\* A client that has sent its request, or gone, is served and its netconn
\* freed, whatever becomes of the connection meanwhile.
ClientServed ==
  (client # None /\ (sentData[client] \/ sentFin[client] \/ pcb[client] = "none"))
    ~> client = None
=============================================================================
