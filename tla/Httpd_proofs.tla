----------------------------- MODULE Httpd_proofs -----------------------------
(***************************************************************************)
(* Proofs about the server and the netconn layer, for any pool, mailbox    *)
(* sizes, number of connections and number of retries.  Who owns a netconn *)
(* (OInv) and that the task is woken (WaitInv) do not depend on            *)
(* LOCK_TCPIP_CORE; what a call may assume between two of its steps (the   *)
(* rest of HInv) is true only where it locks.                              *)
(***************************************************************************)
EXTENDS Httpd, SequenceTheorems, TLAPS

\* httpd_task has a connection.
Serving == {"recv", "fetch", "tryfetch", "fin", "shut", "shutting", "write",
            "more", "wait", "close", "closing"}

\* The server has its accept mailbox.
Listening ==
  \/ pc \in {"listening", "accept"} \cup Serving
  \/ pc \in {"delete", "free"} /\ client # server

\* What the place of the two tasks says of their netconns.
PlaceInv ==
  /\ pc \in {"born", "up", "addr", "new", "gone"} <=> server = None
  /\ pc \in Serving \cup {"delete", "free"} <=> client # None
  /\ pc \in Serving => client # server
  /\ accept = NoMbox <=> ~Listening
  /\ ipc # "loop" => pc = "born"
  /\ pc = "write" => left > 0
  /\ used # {} => RecvSize > 0

\* The elements of Conn in an accept mailbox, and that none is in it twice.
Members(q) == {c \in Conn : \E i \in DOMAIN q : q[i] = c}

Distinct(q) == \A i, j \in DOMAIN q : q[i] = q[j] => i = j \/ q[i] = Abrt

OwnerInv ==
  /\ used = ({server, client} \cup Unaccepted) \ {None}
  /\ client \notin Unaccepted /\ server \notin Unaccepted
  /\ Distinct(accept)

\* What the mailboxes, the listening server and a connection that calls back
\* say of each other, wherever a callback may come.
MailInv ==
  /\ \A c \in Conn :
       /\ state[c] = "listen" => c = server /\ Listening
       /\ pcb[c] = "open" => Listening /\ c # server
       /\ c \in Unaccepted => recv[c] # NoMbox
       /\ recv[c] # NoMbox => c \in used
  /\ pc \in {"recv", "fetch", "tryfetch", "fin", "shut", "write", "more",
             "wait"} => recv[client] # NoMbox
  /\ pc = "free" => recv[client] = NoMbox
  /\ cb.old # "none" => cb.conn # None

\* This much needs no lock.
OInv == TypeOK /\ PlaceInv /\ OwnerInv /\ MailInv

\* A connection the server has accepted, or is going to.
Connection(c) == c \in Unaccepted \/ (c = client /\ c # server)

\* What a netconn's state and its TCP connection say of each other.
ConnInv ==
  \A c \in Conn :
    /\ pcb[c] = "open" => Connection(c)
    /\ c \notin used => pcb[c] = "none"
    /\ Connection(c) => pcb[c] \in {"open", "none"}
    /\ c \in Unaccepted /\ pcb[c] = "none" => mboxClosed[c]
    /\ state[c] = "write" =>
         c = client /\ pcb[c] = "open" /\ pc \in {"more", "wait"}
    /\ state[c] = "close" =>
         c = client /\ pcb[c] = "open" /\ pc \in {"shutting", "closing"}
    /\ op[c] > 0 =>
         op[c] = 1 /\ c = client /\ pc = "wait" /\ state[c] = "none"

\* What the task may rely on at each step of a call.
CallInv ==
  /\ pc = "recv" /\ pcb[client] = "none" => mboxClosed[client]
  /\ pc = "fetch" /\ pcb[client] = "none" =>
       cb.conn = client \/ recv[client] # <<>>
  /\ pc = "more" => pcb[client] = "open" /\ state[client] = "write"
  /\ pc \in {"shutting", "closing"} =>
       pcb[client] = "open" /\ state[client] = "close"
  /\ pc = "wait" /\ op[client] = 0 =>
       state[client] = "write" \/ (cb.conn = client /\ cb.old = "write")
  /\ pc \in {"delete", "free"} => pcb[client] = "none"

\* And what err_tcp may, between its halves.
CbInv ==
  /\ cb.conn # None =>
       /\ ~InCore
       /\ Connection(cb.conn)
       /\ pcb[cb.conn] = "none" /\ state[cb.conn] = "none"
       /\ cb.conn = client => pc # "free"
  /\ cb.old # "none" =>
       cb.conn # None /\ cb.conn = client /\ pc = "wait" /\ op[client] = 0

HInv == OInv /\ ConnInv /\ CallInv /\ CbInv

-----------------------------------------------------------------------------
(* The mailboxes.                                                          *)

LEMMA RecvQueues ==
  /\ NoMbox \notin RecvQueue /\ <<>> \in RecvQueue
  /\ \A s \in RecvQueue, m \in Message :
       Len(s) < RecvSize => Append(s, m) \in RecvQueue /\ Append(s, m) # <<>>
  /\ \A s \in RecvQueue :
       /\ s # <<>> => Tail(s) \in RecvQueue /\ Head(s) \in Message
       /\ RecvSize > 0 /\ ~(Len(s) < RecvSize) => s # <<>>
BY HttpdAssumption DEF RecvQueue, NoMbox, Message, None

LEMMA AcceptQueues ==
  /\ NoMbox \notin AcceptQueue /\ <<>> \in AcceptQueue
  /\ \A s \in AcceptQueue, x \in Conn \cup {Abrt} :
       Len(s) < AcceptSize => Append(s, x) \in AcceptQueue
  /\ \A s \in AcceptQueue : s # <<>> =>
       Tail(s) \in AcceptQueue /\ Head(s) \in Conn \cup {Abrt}
BY HttpdAssumption, NamesAssumption DEF AcceptQueue, NoMbox, None, Abrt

LEMMA NoMembers ==
  /\ Members(NoMbox) = {} /\ Distinct(NoMbox)
  /\ Members(<<>>) = {} /\ Distinct(<<>>)
BY NamesAssumption DEF Members, Distinct, NoMbox

LEMMA MemberAdded ==
  ASSUME NEW q \in AcceptQueue, NEW x \in Conn \cup {Abrt}
  PROVE  /\ Members(Append(q, x)) = Members(q) \cup ({x} \ {Abrt})
         /\ Distinct(q) /\ x \notin Members(q) => Distinct(Append(q, x))
<1>1. /\ DOMAIN Append(q, x) = 1 .. Len(q) + 1 /\ DOMAIN q = 1 .. Len(q)
      /\ Len(q) \in Nat
      /\ \A i \in 1 .. Len(q) + 1 :
           Append(q, x)[i] = IF i = Len(q) + 1 THEN x ELSE q[i]
  BY DEF AcceptQueue
<1>2. Members(Append(q, x)) = Members(q) \cup ({x} \ {Abrt})
  <2>1. ASSUME NEW c \in Conn, NEW i \in 1 .. Len(q) + 1, Append(q, x)[i] = c
        PROVE  c \in Members(q) \cup ({x} \ {Abrt})
    BY <1>1, <2>1, NamesAssumption DEF Members
  <2>2. ASSUME NEW c \in Members(q) PROVE c \in Members(Append(q, x))
    <3>1. PICK i \in 1 .. Len(q) : q[i] = c
      BY <1>1 DEF Members
    <3> QED BY <1>1, <3>1 DEF Members
  <2>3. x \in Conn => x \in Members(Append(q, x))
    BY <1>1 DEF Members
  <2> QED BY <1>1, <2>1, <2>2, <2>3 DEF Members
<1>3. ASSUME Distinct(q), x \notin Members(q) PROVE Distinct(Append(q, x))
  <2>1. \A i \in 1 .. Len(q) : q[i] = x => x = Abrt
    BY <1>1, <1>3 DEF Members
  <2> QED BY <1>1, <1>3, <2>1 DEF Distinct
<1> QED BY <1>2, <1>3

LEMMA MemberTaken ==
  ASSUME NEW q \in AcceptQueue, q # <<>>, Distinct(q)
  PROVE  /\ Distinct(Tail(q))
         /\ Members(Tail(q)) = Members(q) \ {Head(q)}
         /\ Head(q) \in Members(q) \cup {Abrt}
<1>1. /\ DOMAIN Tail(q) = 1 .. Len(q) - 1 /\ DOMAIN q = 1 .. Len(q)
      /\ Len(q) \in Nat \ {0}
      /\ \A i \in 1 .. Len(q) - 1 : Tail(q)[i] = q[i + 1]
      /\ Head(q) = q[1] /\ q[1] \in Conn \cup {Abrt}
  BY DEF AcceptQueue
<1>2. Distinct(Tail(q))
  BY <1>1 DEF Distinct
<1>3. ASSUME NEW c \in Members(Tail(q)) PROVE c \in Members(q) \ {Head(q)}
  <2>1. PICK i \in 1 .. Len(q) - 1 : Tail(q)[i] = c
    BY <1>1 DEF Members
  <2>2. q[i + 1] = c /\ c # Abrt /\ i + 1 \in 1 .. Len(q) /\ i + 1 # 1
    BY <1>1, <1>3, <2>1, NamesAssumption DEF Members
  <2> QED BY <1>1, <1>3, <2>2 DEF Members, Distinct
<1>4. ASSUME NEW c \in Members(q) \ {Head(q)} PROVE c \in Members(Tail(q))
  <2>1. PICK i \in 1 .. Len(q) : q[i] = c
    BY <1>1, <1>4 DEF Members
  <2>2. i - 1 \in 1 .. Len(q) - 1 /\ Tail(q)[i - 1] = c
    BY <1>1, <1>4, <2>1
  <2> QED BY <1>1, <1>4, <2>2 DEF Members
<1>5. Head(q) \in Members(q) \cup {Abrt}
  BY <1>1 DEF Members
<1> QED BY <1>2, <1>3, <1>4, <1>5

LEMMA UnacceptedMembers ==
  /\ Unaccepted = Members(accept) /\ Unaccepted' = Members(accept')
  /\ accept' = accept => Unaccepted' = Unaccepted
BY DEF Unaccepted, Members

LEMMA PoolHeadIsFree ==
  used \subseteq Conn /\ used # Conn => PoolHead \in Conn \ used
BY DEF PoolHead

\* A signal is never lost, and makes one of none.
LEMMA Signals ==
  ASSUME ConnTypeOK, NEW c \in Conn
  PROVE  /\ Signalled(c) \in [Conn -> 0 .. SemMax]
         /\ Signalled(c)[c] > 0
         /\ op[c] = 0 => Signalled(c)[c] = 1
         /\ \A d \in Conn \ {c} : Signalled(c)[d] = op[d]
BY DEF ConnTypeOK, Signalled, SemMax

-----------------------------------------------------------------------------
(* lwip_init_task leaves the netconns alone.                               *)
LEMMA BootShape ==
  ASSUME OInv, BootStep \/ DhcpBind
  PROVE  /\ BootTypeOK' /\ failed' \in BOOLEAN
         /\ \/ pc' = pc /\ (ipc = "loop" => ipc' = "loop")
            \/ pc = "born" /\ pc' = "up" /\ ipc' = "loop"
         /\ UNCHANGED <<server, client, left, connVars, netVars, Unaccepted>>
<1>1. BootTypeOK'
  <2>1. BootTypeOK
    BY DEF OInv, TypeOK
  <2>2. CASE InitEnet \/ ConfigureIp \/ DhcpLook
    BY <2>1, <2>2, HttpdAssumption
    DEF BootTypeOK, Boot, InitEnet, ConfigureIp, DhcpLook
  <2>3. CASE DhcpStart
    BY <2>1, <2>3, Zenon DEF BootTypeOK, Boot, DhcpStart
  <2>4. CASE DhcpPoll
    BY <2>1, <2>4, HttpdAssumption DEF BootTypeOK, Boot, DhcpPoll
  <2>5. CASE DhcpStop
    BY <2>1, <2>5, Zenon DEF BootTypeOK, Boot, DhcpStop
  <2>6. CASE Fallback \/ DhcpBind
    BY <2>1, <2>6 DEF BootTypeOK, Boot, Fallback, DhcpBind
  <2>7. CASE CreateHttpd
    BY <2>1, <2>7, Zenon DEF BootTypeOK, Boot, CreateHttpd
  <2> QED BY <2>2, <2>3, <2>4, <2>5, <2>6, <2>7 DEF BootStep
<1>2. failed' \in BOOLEAN
  BY Zenon
  DEF OInv, TypeOK, NetTypeOK, BootStep, InitEnet, ConfigureIp, DhcpStart,
      DhcpPoll, DhcpLook, DhcpStop, Fallback, DhcpBind, CreateHttpd
<1>3. /\ \/ pc' = pc /\ (ipc = "loop" => ipc' = "loop")
         \/ pc = "born" /\ pc' = "up" /\ ipc' = "loop"
      /\ UNCHANGED <<server, client, left, connVars, netVars>>
  BY DEF OInv, PlaceInv, Boot, taskVars, BootStep, InitEnet, ConfigureIp,
         DhcpStart, DhcpPoll, DhcpLook, DhcpStop, Fallback, DhcpBind,
         CreateHttpd
<1>4. UNCHANGED Unaccepted
  BY <1>3, UnacceptedMembers DEF connVars
<1> QED BY <1>1, <1>2, <1>3, <1>4

-----------------------------------------------------------------------------
(* The steps that change a mailbox.                                        *)

\* A request is fetched and two writes are due, or the end of one is.
LEMMA FetchShape ==
  ASSUME OInv, Fetch
  PROVE  /\ pc \in {"fetch", "tryfetch"} /\ client \in Conn
         /\ recv[client] # NoMbox
         /\ \E q \in RecvQueue : recv' = [recv EXCEPT ![client] = q]
         /\ \/ pc' = "write" /\ left' = 2
            \/ pc' \in {"fin", "close"} /\ left' = 0
         /\ UNCHANGED <<bootVars, netVars, server, client, used, state, pcb,
                        accept, mboxClosed, pending, op, failed,
                        Unaccepted>>
<1>1. pc \in {"fetch", "tryfetch"} /\ client \in Conn
  BY DEF OInv, TypeOK, TaskTypeOK, PlaceInv, Serving, Fetch, Runs
<1>2. recv[client] \in RecvQueue \ {<<>>}
  BY <1>1 DEF OInv, TypeOK, ConnTypeOK, MailInv, Fetch
<1>3. /\ Tail(recv[client]) \in RecvQueue
      /\ Head(recv[client]) \in {"data", "closed", "err"}
  BY <1>2, RecvQueues DEF Message
<1>4. \/ pc' = "write" /\ left' = 2
      \/ pc' \in {"fin", "close"} /\ left' = 0
  BY <1>3 DEF Fetch, Goto
<1> QED BY <1>1, <1>2, <1>3, <1>4, RecvQueues, UnacceptedMembers DEF Fetch,
                                                                     Runs

\* recv_tcp's message goes into the mailbox, or is freed.
LEMMA DeliverShape ==
  ASSUME OInv, NEW c \in Conn, RecvData(c) \/ RecvFin(c)
  PROVE  /\ cb = NoCallback
         /\ \/ recv' = recv
            \/ /\ recv[c] # NoMbox
               /\ \E q \in RecvQueue \ {<<>>} : recv' = [recv EXCEPT ![c] = q]
         /\ sentData' \in [Conn -> BOOLEAN] /\ sentFin' \in [Conn -> BOOLEAN]
         /\ UNCHANGED <<bootVars, taskVars, used, state, pcb, accept,
                        mboxClosed, pending, op, cb, connects, failed,
                        Unaccepted>>
<1>1. PICK m \in Message : Deliver(c, m)
  BY DEF RecvData, RecvFin, Message
<1>2. recv[c] \in RecvQueue \cup {NoMbox}
  BY DEF OInv, TypeOK, ConnTypeOK
<1>3. sentData' \in [Conn -> BOOLEAN] /\ sentFin' \in [Conn -> BOOLEAN]
  BY DEF RecvData, RecvFin, OInv, TypeOK, NetTypeOK
<1>4. cb = NoCallback
  BY <1>1, NamesAssumption
  DEF Deliver, CallbackMayRun, NoCallback, OInv, TypeOK, NetTypeOK, MailInv
<1> QED BY <1>1, <1>2, <1>3, <1>4, RecvQueues, UnacceptedMembers
        DEF Deliver, ByTcp, taskVars

\* err_tcp's message goes into the mailbox unless that is full.
LEMMA ErrShape ==
  ASSUME OInv, ErrTcpPost, NEW c, c = cb.conn
  PROVE  /\ c \in Conn
         /\ \/ recv' = recv /\ (recv[c] = NoMbox \/ recv[c] # <<>>)
            \/ /\ recv[c] # NoMbox
               /\ \E q \in RecvQueue \ {<<>>} : recv' = [recv EXCEPT ![c] = q]
         /\ op' = IF cb.old \in {"write", "close"}
                  THEN Signalled(c) ELSE op
         /\ cb' = NoCallback
         /\ UNCHANGED <<bootVars, taskVars, used, state, pcb, accept,
                        mboxClosed, pending, sentData, sentFin,
                        connects, failed, Unaccepted>>
<1>1. c \in Conn /\ recv[c] \in RecvQueue \cup {NoMbox}
  BY DEF OInv, TypeOK, NetTypeOK, ConnTypeOK, ErrTcpPost
<1>2. recv[c] # NoMbox => RecvSize > 0
  BY <1>1 DEF OInv, PlaceInv, MailInv
<1>3. "err" \in Message
  BY DEF Message
<1>4. \/ recv' = recv /\ (recv[c] = NoMbox \/ recv[c] # <<>>)
      \/ /\ recv[c] # NoMbox
         /\ \E q \in RecvQueue \ {<<>>} : recv' = [recv EXCEPT ![c] = q]
  BY <1>1, <1>2, <1>3, RecvQueues DEF ErrTcpPost
<1> QED BY <1>1, <1>4, UnacceptedMembers DEF ErrTcpPost, ByTcp, taskVars

\* accept_function's netconn goes into the accept mailbox, ...
NewAccepted(c) ==
  /\ RecvSize > 0
  /\ used' = used \cup {c} /\ Unaccepted' = Unaccepted \cup {c}
  /\ state' = [state EXCEPT ![c] = "none"] /\ pcb' = [pcb EXCEPT ![c] = "open"]
  /\ recv' = [recv EXCEPT ![c] = <<>>]
  /\ mboxClosed' = [mboxClosed EXCEPT ![c] = FALSE]
  /\ pending' = [pending EXCEPT ![c] = FALSE]
  /\ op' = [op EXCEPT ![c] = 0]
  /\ sentData' = [sentData EXCEPT ![c] = FALSE]
  /\ sentFin' = [sentFin EXCEPT ![c] = FALSE]

\* ... or the pool stays as it is.
NoneAccepted ==
  UNCHANGED <<used, state, pcb, recv, mboxClosed, pending, op, sentData,
              sentFin, Unaccepted>>

LEMMA AcceptShape ==
  ASSUME OInv, AcceptFunction
  PROVE  /\ Listening /\ accept' \in AcceptQueue /\ Distinct(accept')
         /\ NoneAccepted \/ \E c \in Conn \ used : NewAccepted(c)
         /\ connects' \in 0 .. MaxConnects /\ failed' \in BOOLEAN
         /\ cb = NoCallback
         /\ UNCHANGED <<bootVars, taskVars, cb>>
<1>1. Listening /\ server \in Conn /\ accept \in AcceptQueue /\ Distinct(accept)
  BY DEF OInv, TypeOK, TaskTypeOK, ConnTypeOK, PlaceInv, OwnerInv, MailInv,
         AcceptFunction
<1>2. /\ connects' \in 0 .. MaxConnects
      /\ UNCHANGED <<bootVars, taskVars, cb>>
  <2>1. connects' \in 0 .. MaxConnects
    BY HttpdAssumption DEF AcceptFunction, OInv, TypeOK, NetTypeOK
  <2> QED BY <2>1 DEF AcceptFunction, ByTcp, taskVars
<1>3. cb = NoCallback
  BY NamesAssumption
  DEF AcceptFunction, CallbackMayRun, NoCallback, OInv, TypeOK, NetTypeOK,
      MailInv
<1>4. CASE AcceptAbort
  <2>1. Abrt \notin Members(accept)
    BY NamesAssumption DEF Members
  <2>2. accept' \in AcceptQueue /\ Distinct(accept') /\ Unaccepted' = Unaccepted
    <3>1. CASE Len(accept) < AcceptSize
      <4>1. accept' = Append(accept, Abrt)
        BY <1>4, <3>1 DEF AcceptAbort
      <4>2. Append(accept, Abrt) \in AcceptQueue
        BY <1>1, <3>1, AcceptQueues
      <4>3. /\ Members(Append(accept, Abrt)) = Members(accept)
            /\ Distinct(Append(accept, Abrt))
        <5>1. /\ Members(Append(accept, Abrt))
                   = Members(accept) \cup ({Abrt} \ {Abrt})
              /\ Distinct(Append(accept, Abrt))
          BY <1>1, <2>1, MemberAdded
        <5> QED BY <5>1, Zenon
      <4> QED BY <4>1, <4>2, <4>3, UnacceptedMembers
    <3> QED BY <1>1, <1>4, <3>1, UnacceptedMembers DEF AcceptAbort
  <2>3. NoneAccepted
    BY <1>4, <2>2 DEF AcceptAbort, NoneAccepted
  <2>4. failed' \in BOOLEAN
    BY <1>4, Zenon DEF AcceptAbort, AllocFails, OInv, TypeOK, NetTypeOK
  <2> QED BY <1>1, <1>2, <1>3, <2>2, <2>3, <2>4
<1>5. CASE AcceptNew /\ Len(accept) < AcceptSize
  <2>1. PoolHead \in Conn \ used
    BY <1>5, PoolHeadIsFree DEF AcceptNew, MayAlloc, OInv, TypeOK, ConnTypeOK
  <2>2. PoolHead \notin Unaccepted
    BY <2>1, NamesAssumption DEF OInv, OwnerInv, Unaccepted
  <2>3. accept' = Append(accept, PoolHead)
    BY <1>5 DEF AcceptNew
  <2>4. /\ accept' \in AcceptQueue /\ Distinct(accept')
        /\ Unaccepted' = Unaccepted \cup {PoolHead}
    BY <1>1, <1>5, <2>1, <2>2, <2>3, AcceptQueues, MemberAdded,
       UnacceptedMembers, NamesAssumption
  <2>5. NewAccepted(PoolHead)
    BY <1>5, <2>4, HttpdAssumption
    DEF NewAccepted, AcceptNew, Fresh, MayAlloc, CanCreate
  <2>6. failed' \in BOOLEAN
    BY <1>5 DEF AcceptNew, OInv, TypeOK, NetTypeOK
  <2> QED BY <1>1, <1>2, <1>3, <2>1, <2>4, <2>5, <2>6
<1>6. CASE AcceptNew /\ ~(Len(accept) < AcceptSize)
  <2>1. accept' = accept /\ NoneAccepted
    BY <1>6, UnacceptedMembers DEF AcceptNew, NoneAccepted, connVars
  <2>2. failed' \in BOOLEAN
    BY <1>6 DEF AcceptNew, OInv, TypeOK, NetTypeOK
  <2> QED BY <1>1, <1>2, <1>3, <2>1, <2>2
<1> QED BY <1>4, <1>5, <1>6 DEF AcceptFunction

\* netconn_accept takes the first element out.
LEMMA TakeShape ==
  ASSUME OInv, Accept
  PROVE  /\ pc = "accept" /\ accept' \in AcceptQueue /\ Distinct(accept')
         /\ \/ UNCHANGED <<client, pc, Unaccepted>>
            \/ \E c \in Unaccepted :
                 client' = c /\ pc' = "recv" /\ Unaccepted' = Unaccepted \ {c}
         /\ UNCHANGED <<bootVars, netVars, server, left, used, state, pcb,
                        recv, mboxClosed, pending, op, failed>>
<1>1. accept \in AcceptQueue /\ Distinct(accept) /\ accept # <<>>
  BY DEF OInv, TypeOK, ConnTypeOK, PlaceInv, OwnerInv, Listening, Accept, Runs
<1>2. /\ accept' = Tail(accept) /\ accept' \in AcceptQueue /\ Distinct(accept')
      /\ Unaccepted' = Unaccepted \ {Head(accept)}
      /\ Head(accept) \in Unaccepted \cup {Abrt}
  BY <1>1, AcceptQueues, MemberTaken, UnacceptedMembers DEF Accept
<1>3. Abrt \notin Unaccepted
  BY NamesAssumption DEF Unaccepted
<1> QED BY <1>1, <1>2, <1>3 DEF Accept, Goto, Runs

-----------------------------------------------------------------------------
(* Every step keeps the types.                                             *)

\* httpd_task changes nothing of lwip_init_task's or of TCP's own.
LEMMA ServeShape ==
  ASSUME OInv, Serve
  PROVE  failed' \in BOOLEAN /\ UNCHANGED <<bootVars, netVars>>
<1>1. UNCHANGED <<bootVars, netVars>>
  BY DEF Serve, Runs, WaitUp, WaitAddr, NetconnNew, DoNewconn, DoListen,
         DoListenMbox, DoListenDone, Accept, Recv, Fetch, TryFetchEmpty,
         HandleFin, Shutdown, ShutdownDone, Write, WriteFirst, Close, DoClose,
         CloseDone, Wait, Delete, Free
<1>2. \/ failed' = failed
      \/ failed' = (failed \/ (used # Conn /\ CanCreate(RecvSize)))
      \/ failed' = (failed \/ CanCreate(AcceptSize))
  BY DEF Serve, AllocFails, WaitUp, WaitAddr, NetconnNew, DoNewconn, DoListen,
         DoListenMbox, DoListenDone, Accept, Recv, Fetch, TryFetchEmpty,
         HandleFin, Shutdown, ShutdownDone, Write, WriteFirst, Close, DoClose,
         CloseDone, Wait, Delete, Free
<1>3. failed' \in BOOLEAN
  BY <1>2, Zenon DEF OInv, TypeOK, NetTypeOK
<1> QED BY <1>1, <1>3

LEMMA ServeTaskTypeOK == OInv /\ Serve => TaskTypeOK'
<1> SUFFICES ASSUME OInv, Serve PROVE TaskTypeOK'
  OBVIOUS
<1>1. TaskTypeOK
  BY DEF OInv, TypeOK
<1>2. CASE WaitUp \/ WaitAddr \/ DoNewconn \/ DoListen \/ DoListenMbox
           \/ DoListenDone
  BY <1>1, <1>2
  DEF TaskTypeOK, Place, Goto, WaitUp, WaitAddr, DoNewconn, DoListen,
      DoListenMbox, DoListenDone
<1>3. CASE NetconnNew
  BY <1>1, <1>3, PoolHeadIsFree
  DEF TaskTypeOK, Place, Goto, NetconnNew, MayAlloc, OInv, TypeOK, ConnTypeOK
<1>4. CASE Accept
  <2>1. Unaccepted \subseteq Conn /\ "recv" \in Place
    BY DEF Unaccepted, Place
  <2> QED BY <1>1, <1>4, <2>1, TakeShape DEF TaskTypeOK
<1>5. CASE Fetch
  BY <1>1, <1>5, FetchShape DEF TaskTypeOK, Place
<1>6. CASE Write
  BY <1>1, <1>6
  DEF TaskTypeOK, Place, Goto, Write, Runs, AfterWrite, OInv, PlaceInv
<1>7. CASE \/ Recv \/ TryFetchEmpty \/ HandleFin \/ Shutdown \/ ShutdownDone
           \/ WriteFirst \/ Wait \/ Close \/ CloseDone \/ Delete \/ Free
  BY <1>1, <1>7
  DEF TaskTypeOK, Place, Goto, Recv, TryFetchEmpty, HandleFin, Shutdown,
      ShutdownDone, WriteFirst, Wait, Close, DoClose, CloseDone, Delete, Free,
      AfterWrite
<1> QED BY <1>2, <1>3, <1>4, <1>5, <1>6, <1>7 DEF Serve

LEMMA ServeConnTypeOK == OInv /\ Serve => ConnTypeOK'
<1> SUFFICES ASSUME OInv, Serve PROVE ConnTypeOK'
  OBVIOUS
<1>1. ConnTypeOK /\ TaskTypeOK
  BY DEF OInv, TypeOK
<1>2. CASE WaitUp \/ WaitAddr \/ DoListenDone \/ Recv \/ DoNewconn
  BY <1>1, <1>2
  DEF ConnTypeOK, TaskTypeOK, connVars, WaitUp, WaitAddr, DoListenDone, Recv,
      DoNewconn
<1>3. CASE NetconnNew
  <2>1. CASE UNCHANGED connVars
    BY <1>1, <1>3, <2>1 DEF ConnTypeOK, connVars, NetconnNew
  <2>2. CASE MayAlloc /\ Fresh(PoolHead)
    BY <1>1, <1>3, <2>2, PoolHeadIsFree, RecvQueues
    DEF ConnTypeOK, NetconnNew, MayAlloc, Fresh, SemMax
  <2> QED BY <1>3, <2>1, <2>2 DEF NetconnNew
<1>4. CASE DoListen \/ Delete
  BY <1>1, <1>4, RecvQueues
  DEF ConnTypeOK, TaskTypeOK, Drained, DoListen, Delete
<1>5. CASE DoListenMbox
  <2>1. accept' \in AcceptQueue \cup {NoMbox}
    BY <1>1, <1>5, AcceptQueues DEF ConnTypeOK, DoListenMbox
  <2>2. pcb' = pcb \/ pcb' = [pcb EXCEPT ![server] = "none"]
    BY <1>5 DEF DoListenMbox
  <2> QED BY <1>1, <1>5, <2>1, <2>2 DEF ConnTypeOK, DoListenMbox
<1>6. CASE Accept
  BY <1>1, <1>6, TakeShape DEF ConnTypeOK
<1>7. CASE Fetch
  BY <1>1, <1>7, FetchShape, Zenon DEF ConnTypeOK
<1>8. CASE Write \/ TryFetchEmpty \/ HandleFin
  BY <1>1, <1>8 DEF ConnTypeOK, Write, TryFetchEmpty, HandleFin
<1>9. CASE WriteFirst \/ ShutdownDone \/ CloseDone
  <2>1. /\ state' = state \/ state' = [state EXCEPT ![client] = "none"]
        /\ pcb' = pcb \/ pcb' = [pcb EXCEPT ![client] = "none"]
    BY <1>9 DEF WriteFirst, ShutdownDone, CloseDone
  <2> QED BY <1>1, <1>9, <2>1 DEF ConnTypeOK, WriteFirst, ShutdownDone, CloseDone
<1>10. CASE Shutdown \/ Close
  <2>1. /\ recv' = recv \/ recv' = Drained(client)
        /\ state' = state \/ state' = [state EXCEPT ![client] = "close"]
    BY <1>10 DEF Shutdown, Close, DoClose
  <2> QED BY <1>1, <1>10, <2>1 DEF ConnTypeOK, Shutdown, Close, DoClose, Drained
<1>11. CASE Wait
  <2>1. client \in Conn /\ op[client] - 1 \in 0 .. SemMax
    BY <1>1, <1>11
    DEF ConnTypeOK, TaskTypeOK, OInv, PlaceInv, Serving, Wait, Runs, SemMax
  <2> QED BY <1>1, <1>11, <2>1 DEF ConnTypeOK, Wait
<1>12. CASE Free
  <2>1. mboxClosed' \in [Conn -> BOOLEAN] /\ pending' \in [Conn -> BOOLEAN]
    BY <1>1, <1>12 DEF ConnTypeOK, Free
  <2> QED BY <1>1, <1>12, <2>1 DEF ConnTypeOK, Free
<1> QED BY <1>2, <1>3, <1>4, <1>5, <1>6, <1>7, <1>8, <1>9, <1>10, <1>11, <1>12
        DEF Serve

LEMMA CallbackTypeOK == OInv /\ Callback => ConnTypeOK' /\ NetTypeOK'
<1> SUFFICES ASSUME OInv, Callback PROVE ConnTypeOK' /\ NetTypeOK'
  OBVIOUS
<1>1. ConnTypeOK /\ NetTypeOK
  BY DEF OInv, TypeOK
<1>2. CASE AcceptFunction
  <2>1. CASE NoneAccepted
    BY <1>1, <1>2, <2>1, AcceptShape DEF ConnTypeOK, NetTypeOK, NoneAccepted
  <2>2. ASSUME NEW c \in Conn, NewAccepted(c) PROVE ConnTypeOK' /\ NetTypeOK'
    <3>1. ConnTypeOK'
      BY <1>1, <1>2, <2>2, AcceptShape, RecvQueues
      DEF ConnTypeOK, NewAccepted, SemMax
    <3>2. NetTypeOK'
      BY <1>1, <1>2, <2>2, AcceptShape DEF NetTypeOK, NewAccepted
    <3> QED BY <3>1, <3>2
  <2> QED BY <1>2, <2>1, <2>2, AcceptShape
<1>3. ASSUME NEW c \in Conn, RecvData(c) \/ RecvFin(c)
      PROVE  ConnTypeOK' /\ NetTypeOK'
  <2>1. recv' \in [Conn -> RecvQueue \cup {NoMbox}]
    BY <1>1, <1>3, DeliverShape DEF ConnTypeOK
  <2>2. ConnTypeOK'
    BY <1>1, <1>3, <2>1, DeliverShape DEF ConnTypeOK
  <2>3. NetTypeOK'
    BY <1>1, <1>3, DeliverShape DEF NetTypeOK
  <2> QED BY <2>2, <2>3
<1>4. CASE ErrTcpPost
  <2>1. recv' \in [Conn -> RecvQueue \cup {NoMbox}]
    BY <1>1, <1>4, ErrShape DEF ConnTypeOK
  <2>2. op' \in [Conn -> 0 .. SemMax]
    <3>1. op' = op \/ op' = Signalled(cb.conn)
      BY <1>4, ErrShape
    <3> QED BY <1>1, <1>4, <3>1, ErrShape, Signals DEF ConnTypeOK
  <2>3. ConnTypeOK'
    BY <1>1, <1>4, <2>1, <2>2, ErrShape DEF ConnTypeOK
  <2>4. NetTypeOK'
    BY <1>1, <1>4, ErrShape DEF NetTypeOK, NoCallback
  <2> QED BY <2>3, <2>4
<1>5. ASSUME NEW c \in Conn, ErrTcpMark(c) PROVE ConnTypeOK' /\ NetTypeOK'
  <2>1. state[c] \in {"none", "write", "close"}
    BY <1>1, <1>5, NamesAssumption
    DEF ErrTcpMark, OInv, TypeOK, TaskTypeOK, ConnTypeOK, MailInv
  <2> QED BY <1>1, <1>5, <2>1 DEF ConnTypeOK, NetTypeOK, ErrTcpMark
<1>6. ASSUME NEW c \in Conn, WriteMore(c) PROVE ConnTypeOK' /\ NetTypeOK'
  <2>1. /\ state' = [state EXCEPT ![c] = "none"]
        /\ op' \in [Conn -> 0 .. SemMax]
    BY <1>1, <1>6, Signals DEF WriteMore
  <2> QED BY <1>1, <1>6, <2>1 DEF ConnTypeOK, NetTypeOK, WriteMore, netVars
<1> QED BY <1>2, <1>3, <1>4, <1>5, <1>6 DEF Callback

LEMMA StepTypeOK == OInv /\ [Next]_vars => TypeOK'
<1> SUFFICES ASSUME OInv, [Next]_vars PROVE TypeOK'
  OBVIOUS
<1>1. BootTypeOK /\ TaskTypeOK /\ ConnTypeOK /\ NetTypeOK
  BY DEF OInv, TypeOK
<1>2. CASE UNCHANGED vars
  BY <1>1, <1>2
  DEF vars, bootVars, taskVars, connVars, netVars, TypeOK, BootTypeOK,
      TaskTypeOK, ConnTypeOK, NetTypeOK
<1>3. CASE BootStep \/ DhcpBind
  <2>1. TaskTypeOK'
    BY <1>1, <1>3, BootShape DEF TaskTypeOK, Place
  <2>2. ConnTypeOK' /\ NetTypeOK'
    BY <1>1, <1>3, BootShape DEF ConnTypeOK, NetTypeOK, connVars, netVars
  <2> QED BY <1>3, <2>1, <2>2, BootShape DEF TypeOK
<1>4. CASE Serve
  <2>1. BootTypeOK' /\ NetTypeOK'
    BY <1>1, <1>4, ServeShape DEF BootTypeOK, NetTypeOK, bootVars, netVars
  <2> QED BY <1>4, <2>1, ServeTaskTypeOK, ServeConnTypeOK DEF TypeOK
<1>5. CASE Callback
  <2>1. UNCHANGED <<bootVars, taskVars>>
    BY <1>5
    DEF Callback, ByTcp, taskVars, AcceptFunction, RecvData, RecvFin, Deliver,
        ErrTcpMark, ErrTcpPost, WriteMore
  <2>2. BootTypeOK' /\ TaskTypeOK'
    BY <1>1, <2>1 DEF BootTypeOK, TaskTypeOK, bootVars, taskVars
  <2> QED BY <1>5, <2>2, CallbackTypeOK DEF TypeOK
<1> QED BY <1>2, <1>3, <1>4, <1>5 DEF Next

-----------------------------------------------------------------------------
(* And the rest of the invariant.                                          *)

LEMMA StepPlaceInv == OInv /\ [Next]_vars => PlaceInv'
<1> SUFFICES ASSUME OInv, [Next]_vars PROVE PlaceInv'
  OBVIOUS
<1> USE NamesAssumption DEF OInv, bootVars, TypeOK, TaskTypeOK, ConnTypeOK,
           PlaceInv, Serving, Listening, Place
<1>1. CASE UNCHANGED vars
  BY <1>1, UnacceptedMembers DEF vars, bootVars, taskVars, connVars, netVars
<1>2. CASE BootStep \/ DhcpBind
  BY <1>2, BootShape DEF connVars, netVars
<1>3. CASE WaitUp \/ WaitAddr \/ DoNewconn \/ DoListenDone \/ Recv
  BY <1>3, UnacceptedMembers
  DEF WaitUp, WaitAddr, DoNewconn, DoListenDone, Recv, connVars, netVars,
      Runs, Goto
<1>4. CASE NetconnNew
  BY <1>4, UnacceptedMembers, PoolHeadIsFree, HttpdAssumption
  DEF NetconnNew, MayAlloc, Fresh, CanCreate, connVars, netVars, Runs, Goto
<1>5. CASE DoListen \/ DoListenMbox
  BY <1>5, UnacceptedMembers, AcceptQueues, NoMembers
  DEF DoListen, DoListenMbox, Drained, netVars, Runs, Goto
<1>6. CASE Accept
  <2>1. Unaccepted \subseteq Conn /\ server \notin Unaccepted
    BY DEF Unaccepted, OwnerInv
  <2> QED BY <1>6, <2>1, TakeShape, AcceptQueues DEF netVars
<1>7. CASE Fetch
  BY <1>7, FetchShape, RecvQueues DEF netVars
<1>8. CASE TryFetchEmpty \/ HandleFin
  BY <1>8, UnacceptedMembers
  DEF TryFetchEmpty, HandleFin, Drained, netVars, Runs, Goto
<1>9. CASE Write \/ WriteFirst
  BY <1>9, UnacceptedMembers
  DEF Write, WriteFirst, AfterWrite, netVars, Runs, Goto
<1>10. CASE Shutdown \/ ShutdownDone \/ Close \/ CloseDone
  BY <1>10, UnacceptedMembers
  DEF Shutdown, ShutdownDone, Close, DoClose, CloseDone, Drained, netVars,
      Runs, Goto
<1>11. CASE Wait \/ Delete
  BY <1>11, UnacceptedMembers
  DEF Wait, Delete, Drained, AfterWrite, netVars, Runs, Goto
<1>12. CASE Free
  BY <1>12, UnacceptedMembers DEF Free, netVars, Runs, Goto
<1>13. CASE AcceptFunction
  <2>1. CASE NoneAccepted
    BY <1>13, <2>1, AcceptShape, AcceptQueues
    DEF NoneAccepted, bootVars, taskVars
  <2>2. ASSUME NEW c \in Conn \ used, NewAccepted(c) PROVE PlaceInv'
    BY <1>13, <2>2, AcceptShape, AcceptQueues, RecvQueues
    DEF NewAccepted, bootVars, taskVars
  <2> QED BY <1>13, <2>1, <2>2, AcceptShape
<1>14. ASSUME NEW c \in Conn, RecvData(c) \/ RecvFin(c) PROVE PlaceInv'
  <2>1. CASE recv' = recv
    BY <1>14, <2>1, DeliverShape DEF bootVars, taskVars
  <2>2. ASSUME NEW q \in RecvQueue \ {<<>>}, recv[c] # NoMbox,
               recv' = [recv EXCEPT ![c] = q]
        PROVE  PlaceInv'
    <3>1. q # NoMbox /\ q # <<>> /\ recv'[c] = q
          /\ \A d \in Conn \ {c} : recv'[d] = recv[d]
      BY <2>2, RecvQueues
    <3> QED BY <1>14, <2>2, <3>1, DeliverShape DEF bootVars, taskVars
  <2> QED BY <1>14, <2>1, <2>2, DeliverShape
<1>15. ASSUME NEW c \in Conn, ErrTcpMark(c) PROVE PlaceInv'
  BY <1>15, UnacceptedMembers DEF ErrTcpMark, CallbackMayRun, InCore, ByTcp
<1>16. CASE ErrTcpPost
  BY <1>16, ErrShape, RecvQueues DEF bootVars, taskVars
<1>17. ASSUME NEW c \in Conn, WriteMore(c) PROVE PlaceInv'
  BY <1>17, UnacceptedMembers
  DEF WriteMore, CallbackMayRun, InCore, ByTcp, netVars
<1> QED BY <1>1, <1>2, <1>3, <1>4, <1>5, <1>6, <1>7, <1>8, <1>9, <1>10,
           <1>11, <1>12, <1>13, <1>14, <1>15, <1>16, <1>17
        DEF Next, Serve, Callback

LEMMA StepOwnerInv == OInv /\ [Next]_vars => OwnerInv'
<1> SUFFICES ASSUME OInv, [Next]_vars PROVE OwnerInv'
  OBVIOUS
<1> USE NamesAssumption DEF OInv, TypeOK, TaskTypeOK, ConnTypeOK, PlaceInv,
           OwnerInv, Serving, Listening
<1>1. CASE UNCHANGED vars
  BY <1>1, UnacceptedMembers DEF vars, bootVars, taskVars, connVars, netVars
<1>2. CASE BootStep \/ DhcpBind
  BY <1>2, BootShape DEF connVars, netVars
<1>3. CASE WaitUp \/ WaitAddr \/ DoNewconn \/ DoListenDone \/ Recv
  BY <1>3, UnacceptedMembers
  DEF WaitUp, WaitAddr, DoNewconn, DoListenDone, Recv, connVars, netVars,
      Runs, Goto
<1>4. CASE NetconnNew
  BY <1>4, UnacceptedMembers, PoolHeadIsFree, HttpdAssumption
  DEF NetconnNew, MayAlloc, Fresh, CanCreate, connVars, netVars, Runs, Goto
<1>5. CASE DoListen \/ DoListenMbox
  BY <1>5, UnacceptedMembers, AcceptQueues, NoMembers
  DEF DoListen, DoListenMbox, Drained, netVars, Runs, Goto
<1>6. CASE Accept
  BY <1>6, TakeShape, AcceptQueues DEF netVars
<1>7. CASE Fetch
  BY <1>7, FetchShape, RecvQueues DEF netVars
<1>8. CASE TryFetchEmpty \/ HandleFin
  BY <1>8, UnacceptedMembers
  DEF TryFetchEmpty, HandleFin, Drained, netVars, Runs, Goto
<1>9. CASE Write \/ WriteFirst
  BY <1>9, UnacceptedMembers
  DEF Write, WriteFirst, AfterWrite, netVars, Runs, Goto
<1>10. CASE Shutdown \/ ShutdownDone \/ Close \/ CloseDone
  BY <1>10, UnacceptedMembers
  DEF Shutdown, ShutdownDone, Close, DoClose, CloseDone, Drained, netVars,
      Runs, Goto
<1>11. CASE Wait \/ Delete
  BY <1>11, UnacceptedMembers
  DEF Wait, Delete, Drained, AfterWrite, netVars, Runs, Goto
<1>12. CASE Free
  <2>1. client \in Conn /\ None \notin Unaccepted
    BY <1>12 DEF Free, Runs, Unaccepted
  <2>2. /\ used' = used \ {client} /\ client' = None
        /\ server' = IF client = server THEN None ELSE server
        /\ UNCHANGED <<accept, Unaccepted>>
    BY <1>12, UnacceptedMembers DEF Free
  <2> QED BY <2>1, <2>2
<1>13. CASE AcceptFunction
  <2>1. CASE NoneAccepted
    BY <1>13, <2>1, AcceptShape, AcceptQueues
    DEF NoneAccepted, bootVars, taskVars
  <2>2. ASSUME NEW c \in Conn \ used, NewAccepted(c) PROVE OwnerInv'
    BY <1>13, <2>2, AcceptShape, AcceptQueues, RecvQueues
    DEF NewAccepted, bootVars, taskVars
  <2> QED BY <1>13, <2>1, <2>2, AcceptShape
<1>14. ASSUME NEW c \in Conn, RecvData(c) \/ RecvFin(c) PROVE OwnerInv'
  <2>1. CASE recv' = recv
    BY <1>14, <2>1, DeliverShape DEF bootVars, taskVars
  <2>2. ASSUME NEW q \in RecvQueue \ {<<>>}, recv[c] # NoMbox,
               recv' = [recv EXCEPT ![c] = q]
        PROVE  OwnerInv'
    <3>1. q # NoMbox /\ q # <<>> /\ recv'[c] = q
          /\ \A d \in Conn \ {c} : recv'[d] = recv[d]
      BY <2>2, RecvQueues
    <3> QED BY <1>14, <2>2, <3>1, DeliverShape DEF bootVars, taskVars
  <2> QED BY <1>14, <2>1, <2>2, DeliverShape
<1>15. ASSUME NEW c \in Conn, ErrTcpMark(c) PROVE OwnerInv'
  BY <1>15, UnacceptedMembers DEF ErrTcpMark, CallbackMayRun, InCore, ByTcp
<1>16. CASE ErrTcpPost
  BY <1>16, ErrShape, RecvQueues DEF bootVars, taskVars
<1>17. ASSUME NEW c \in Conn, WriteMore(c) PROVE OwnerInv'
  BY <1>17, UnacceptedMembers
  DEF WriteMore, CallbackMayRun, InCore, ByTcp, netVars
<1> QED BY <1>1, <1>2, <1>3, <1>4, <1>5, <1>6, <1>7, <1>8, <1>9, <1>10,
           <1>11, <1>12, <1>13, <1>14, <1>15, <1>16, <1>17
        DEF Next, Serve, Callback

LEMMA StepMailInv == OInv /\ [Next]_vars => MailInv'
<1> SUFFICES ASSUME OInv, [Next]_vars PROVE MailInv'
  OBVIOUS
<1> USE NamesAssumption DEF OInv, TypeOK, TaskTypeOK, ConnTypeOK, NetTypeOK,
           PlaceInv, OwnerInv, MailInv, Serving, Listening
<1>1. CASE UNCHANGED vars
  BY <1>1, UnacceptedMembers DEF vars, bootVars, taskVars, connVars, netVars
<1>2. CASE BootStep \/ DhcpBind
  BY <1>2, BootShape DEF connVars, netVars
<1>3. CASE WaitUp \/ WaitAddr \/ DoNewconn \/ DoListenDone \/ Recv
  BY <1>3, UnacceptedMembers
  DEF WaitUp, WaitAddr, DoNewconn, DoListenDone, Recv, connVars, netVars,
      Runs, Goto
<1>4. CASE NetconnNew
  BY <1>4, UnacceptedMembers, PoolHeadIsFree, HttpdAssumption
  DEF NetconnNew, MayAlloc, Fresh, CanCreate, connVars, netVars, Runs, Goto
<1>5. CASE DoListen \/ DoListenMbox
  BY <1>5, UnacceptedMembers, AcceptQueues, NoMembers
  DEF DoListen, DoListenMbox, Drained, netVars, Runs, Goto
<1>6. CASE Accept
  BY <1>6, TakeShape, AcceptQueues DEF netVars
<1>7. CASE Fetch
  BY <1>7, FetchShape, RecvQueues DEF netVars
<1>8. CASE TryFetchEmpty \/ HandleFin
  BY <1>8, UnacceptedMembers
  DEF TryFetchEmpty, HandleFin, Drained, netVars, Runs, Goto
<1>9. CASE Write \/ WriteFirst
  BY <1>9, UnacceptedMembers
  DEF Write, WriteFirst, AfterWrite, netVars, Runs, Goto
<1>10. CASE Shutdown \/ ShutdownDone \/ Close \/ CloseDone
  BY <1>10, UnacceptedMembers
  DEF Shutdown, ShutdownDone, Close, DoClose, CloseDone, Drained, netVars,
      Runs, Goto
<1>11. CASE Wait \/ Delete
  BY <1>11, UnacceptedMembers
  DEF Wait, Delete, Drained, AfterWrite, netVars, Runs, Goto
<1>12. CASE Free
  BY <1>12, UnacceptedMembers DEF Free, netVars, Runs, Goto
<1>13. CASE AcceptFunction
  <2>1. CASE NoneAccepted
    BY <1>13, <2>1, AcceptShape, AcceptQueues
    DEF NoneAccepted, bootVars, taskVars
  <2>2. ASSUME NEW c \in Conn \ used, NewAccepted(c) PROVE MailInv'
    BY <1>13, <2>2, AcceptShape, AcceptQueues, RecvQueues
    DEF NewAccepted, bootVars, taskVars
  <2> QED BY <1>13, <2>1, <2>2, AcceptShape
<1>14. ASSUME NEW c \in Conn, RecvData(c) \/ RecvFin(c) PROVE MailInv'
  <2>1. CASE recv' = recv
    BY <1>14, <2>1, DeliverShape DEF bootVars, taskVars
  <2>2. ASSUME NEW q \in RecvQueue \ {<<>>}, recv[c] # NoMbox,
               recv' = [recv EXCEPT ![c] = q]
        PROVE  MailInv'
    <3>1. q # NoMbox /\ q # <<>> /\ recv'[c] = q
          /\ \A d \in Conn \ {c} : recv'[d] = recv[d]
      BY <2>2, RecvQueues
    <3> QED BY <1>14, <2>2, <3>1, DeliverShape DEF bootVars, taskVars
  <2> QED BY <1>14, <2>1, <2>2, DeliverShape
<1>15. ASSUME NEW c \in Conn, ErrTcpMark(c) PROVE MailInv'
  BY <1>15, UnacceptedMembers DEF ErrTcpMark, CallbackMayRun, InCore, ByTcp
<1>16. CASE ErrTcpPost
  <2> DEFINE c == cb.conn
  <2>1. /\ c \in Conn /\ cb' = NoCallback
        /\ recv' = recv
             \/ (recv[c] # NoMbox /\ \E q \in RecvQueue \ {<<>>} :
                                        recv' = [recv EXCEPT ![c] = q])
        /\ UNCHANGED <<pc, server, client, used, state, pcb, Unaccepted>>
    BY <1>16, ErrShape DEF taskVars
  <2>2. \A d \in Conn : recv'[d] = NoMbox <=> recv[d] = NoMbox
    BY <2>1, RecvQueues
  <2>3. client # None => client \in Conn
    OBVIOUS
  <2> QED BY <2>1, <2>2, <2>3 DEF NoCallback
<1>17. ASSUME NEW c \in Conn, WriteMore(c) PROVE MailInv'
  BY <1>17, UnacceptedMembers
  DEF WriteMore, CallbackMayRun, InCore, ByTcp, netVars
<1> QED BY <1>1, <1>2, <1>3, <1>4, <1>5, <1>6, <1>7, <1>8, <1>9, <1>10,
           <1>11, <1>12, <1>13, <1>14, <1>15, <1>16, <1>17
        DEF Next, Serve, Callback

LEMMA StepConnInv == CoreLocked /\ HInv /\ [Next]_vars => ConnInv'
<1> SUFFICES ASSUME CoreLocked, OInv, ConnInv, CallInv, CbInv, [Next]_vars
             PROVE  ConnInv'
  BY DEF HInv
<1> USE NamesAssumption DEF OInv, MailInv, TypeOK, TaskTypeOK, ConnTypeOK, NetTypeOK,
           PlaceInv, OwnerInv, ConnInv, CallInv, CbInv, Serving, Listening,
           Connection
<1>1. CASE UNCHANGED vars
  BY <1>1, UnacceptedMembers DEF vars, bootVars, taskVars, connVars, netVars
<1>2. CASE BootStep \/ DhcpBind
  BY <1>2, BootShape DEF connVars, netVars
<1>3. CASE WaitUp \/ WaitAddr \/ DoNewconn \/ DoListenDone \/ Recv
  BY <1>3, UnacceptedMembers
  DEF WaitUp, WaitAddr, DoNewconn, DoListenDone, Recv, connVars, netVars,
      Runs, Goto
<1>4. CASE NetconnNew
  <2>1. /\ server = None /\ client = None /\ client' = None
        /\ Unaccepted = {} /\ UNCHANGED <<pcb, Unaccepted>>
    BY <1>4, UnacceptedMembers, NoMembers DEF NetconnNew, Runs
  <2>2. CASE UNCHANGED connVars
    BY <1>4, <2>1, <2>2, PoolHeadIsFree
    DEF NetconnNew, MayAlloc, Fresh, connVars, Runs, Goto
  <2>3. CASE MayAlloc /\ Fresh(PoolHead) /\ server' = PoolHead
    BY <1>4, <2>1, <2>3, PoolHeadIsFree DEF MayAlloc, Fresh
  <2> QED BY <1>4, <2>2, <2>3 DEF NetconnNew
<1>5. CASE DoListen \/ DoListenMbox
  BY <1>5, UnacceptedMembers, AcceptQueues, NoMembers
  DEF DoListen, DoListenMbox, Drained, netVars, Runs, Goto
<1>6. CASE Accept
  BY <1>6, TakeShape, AcceptQueues DEF netVars
<1>7. CASE Fetch
  BY <1>7, FetchShape, RecvQueues DEF netVars
<1>8. CASE TryFetchEmpty \/ HandleFin
  BY <1>8, UnacceptedMembers
  DEF TryFetchEmpty, HandleFin, Drained, netVars, Runs, Goto
<1>9. CASE Write \/ WriteFirst
  BY <1>9, UnacceptedMembers
  DEF Write, WriteFirst, AfterWrite, netVars, Runs, Goto
<1>10. CASE Shutdown \/ ShutdownDone \/ Close \/ CloseDone
  BY <1>10, UnacceptedMembers
  DEF Shutdown, ShutdownDone, Close, DoClose, CloseDone, Drained, netVars,
      Runs, Goto
<1>11. CASE Wait \/ Delete
  BY <1>11, UnacceptedMembers
  DEF Wait, Delete, Drained, AfterWrite, netVars, Runs, Goto
<1>12. CASE Free
  BY <1>12, UnacceptedMembers DEF Free, netVars, Runs, Goto
<1>13. CASE AcceptFunction
  <2>1. CASE NoneAccepted
    BY <1>13, <2>1, AcceptShape, AcceptQueues
    DEF NoneAccepted, bootVars, taskVars
  <2>2. ASSUME NEW c \in Conn \ used, NewAccepted(c) PROVE ConnInv'
    <3>1. /\ \A d \in Conn \ {c} :
               /\ op'[d] = op[d] /\ state'[d] = state[d] /\ pcb'[d] = pcb[d]
               /\ mboxClosed'[d] = mboxClosed[d]
          /\ op'[c] = 0 /\ state'[c] = "none" /\ pcb'[c] = "open"
          /\ used' = used \cup {c} /\ Unaccepted' = Unaccepted \cup {c}
      BY <2>2 DEF NewAccepted
    <3>2. UNCHANGED <<pc, server, client>>
      BY <1>13, AcceptShape DEF taskVars
    <3> QED BY <3>1, <3>2
  <2> QED BY <1>13, <2>1, <2>2, AcceptShape
<1>14. ASSUME NEW c \in Conn, RecvData(c) \/ RecvFin(c) PROVE ConnInv'
  <2>1. CASE recv' = recv
    BY <1>14, <2>1, DeliverShape DEF bootVars, taskVars
  <2>2. ASSUME NEW q \in RecvQueue \ {<<>>}, recv[c] # NoMbox,
               recv' = [recv EXCEPT ![c] = q]
        PROVE  ConnInv'
    <3>1. q # NoMbox /\ q # <<>> /\ recv'[c] = q
          /\ \A d \in Conn \ {c} : recv'[d] = recv[d]
      BY <2>2, RecvQueues
    <3> QED BY <1>14, <2>2, <3>1, DeliverShape DEF bootVars, taskVars
  <2> QED BY <1>14, <2>1, <2>2, DeliverShape
<1>15. ASSUME NEW c \in Conn, ErrTcpMark(c) PROVE ConnInv'
  BY <1>15, UnacceptedMembers DEF ErrTcpMark, CallbackMayRun, InCore, ByTcp
<1>16. CASE ErrTcpPost
  <2>1. /\ cb.conn \in Conn
        /\ op' = IF cb.old # "none" THEN Signalled(cb.conn) ELSE op
        /\ UNCHANGED <<pc, server, client, used, state, pcb, mboxClosed,
                       Unaccepted>>
    BY <1>16, ErrShape DEF taskVars
  <2>2. CASE cb.old = "none"
    BY <2>1, <2>2
  <2>3. CASE cb.old # "none"
    <3>1. cb.conn = client /\ pc = "wait" /\ op[client] = 0
          /\ state[client] = "none"
      BY <2>3
    <3>2. op'[client] = 1 /\ \A d \in Conn \ {client} : op'[d] = op[d]
      BY <2>1, <2>3, <3>1, Signals
    <3> QED BY <2>1, <3>1, <3>2
  <2> QED BY <2>2, <2>3
<1>17. ASSUME NEW c \in Conn, WriteMore(c) PROVE ConnInv'
  <2>1. /\ c = client /\ c \notin Unaccepted /\ pcb[c] = "open" /\ pc = "wait"
        /\ state[c] = "write"
        /\ UNCHANGED <<pc, server, client, used, recv, pcb, mboxClosed, cb,
                       Unaccepted>>
    BY <1>17, UnacceptedMembers
    DEF WriteMore, CallbackMayRun, InCore, ByTcp, netVars
  <2>2. op[c] = 0
    BY <2>1
  <2>3. /\ state' = [state EXCEPT ![c] = "none"]
        /\ op' = [op EXCEPT ![c] = 1]
    BY <1>17, <2>2 DEF WriteMore, Signalled, SemMax
  <2> QED BY <2>1, <2>3
<1> QED BY <1>1, <1>2, <1>3, <1>4, <1>5, <1>6, <1>7, <1>8, <1>9, <1>10,
           <1>11, <1>12, <1>13, <1>14, <1>15, <1>16, <1>17
        DEF Next, Serve, Callback

LEMMA StepCallInv == CoreLocked /\ HInv /\ [Next]_vars => CallInv'
<1> SUFFICES ASSUME CoreLocked, OInv, ConnInv, CallInv, CbInv, [Next]_vars
             PROVE  CallInv'
  BY DEF HInv
<1> USE NamesAssumption DEF OInv, MailInv, TypeOK, TaskTypeOK, ConnTypeOK, NetTypeOK,
           PlaceInv, OwnerInv, ConnInv, CallInv, CbInv, Serving, Connection
<1>1. CASE UNCHANGED vars
  BY <1>1, UnacceptedMembers DEF vars, bootVars, taskVars, connVars, netVars
<1>2. CASE BootStep \/ DhcpBind
  BY <1>2, BootShape DEF connVars, netVars
<1>3. CASE WaitUp \/ WaitAddr \/ DoNewconn \/ DoListenDone \/ Recv
  BY <1>3, UnacceptedMembers
  DEF WaitUp, WaitAddr, DoNewconn, DoListenDone, Recv, connVars, netVars,
      Runs, Goto
<1>4. CASE NetconnNew
  BY <1>4, UnacceptedMembers, PoolHeadIsFree, HttpdAssumption
  DEF NetconnNew, MayAlloc, Fresh, CanCreate, connVars, netVars, Runs, Goto
<1>5. CASE DoListen \/ DoListenMbox
  BY <1>5, UnacceptedMembers, AcceptQueues, NoMembers
  DEF DoListen, DoListenMbox, Drained, netVars, Runs, Goto
<1>6. CASE Accept
  BY <1>6, TakeShape, AcceptQueues DEF netVars
<1>7. CASE Fetch
  BY <1>7, FetchShape, RecvQueues DEF netVars
<1>8. CASE TryFetchEmpty \/ HandleFin
  BY <1>8, UnacceptedMembers
  DEF TryFetchEmpty, HandleFin, Drained, netVars, Runs, Goto
<1>9. CASE Write \/ WriteFirst
  BY <1>9, UnacceptedMembers
  DEF Write, WriteFirst, AfterWrite, netVars, Runs, Goto
<1>10. CASE Shutdown \/ ShutdownDone \/ Close \/ CloseDone
  BY <1>10, UnacceptedMembers
  DEF Shutdown, ShutdownDone, Close, DoClose, CloseDone, Drained, netVars,
      Runs, Goto
<1>11. CASE Wait \/ Delete
  BY <1>11, UnacceptedMembers
  DEF Wait, Delete, Drained, AfterWrite, netVars, Runs, Goto
<1>12. CASE Free
  BY <1>12, UnacceptedMembers DEF Free, netVars, Runs, Goto
<1>13. CASE AcceptFunction
  <2>1. CASE NoneAccepted
    BY <1>13, <2>1, AcceptShape, AcceptQueues
    DEF NoneAccepted, bootVars, taskVars
  <2>2. ASSUME NEW c \in Conn \ used, NewAccepted(c) PROVE CallInv'
    BY <1>13, <2>2, AcceptShape, AcceptQueues, RecvQueues
    DEF NewAccepted, bootVars, taskVars
  <2> QED BY <1>13, <2>1, <2>2, AcceptShape
<1>14. ASSUME NEW c \in Conn, RecvData(c) \/ RecvFin(c) PROVE CallInv'
  <2>1. CASE recv' = recv
    BY <1>14, <2>1, DeliverShape DEF bootVars, taskVars
  <2>2. ASSUME NEW q \in RecvQueue \ {<<>>}, recv[c] # NoMbox,
               recv' = [recv EXCEPT ![c] = q]
        PROVE  CallInv'
    <3>1. q # NoMbox /\ q # <<>> /\ recv'[c] = q
          /\ \A d \in Conn \ {c} : recv'[d] = recv[d]
      BY <2>2, RecvQueues
    <3> QED BY <1>14, <2>2, <3>1, DeliverShape DEF bootVars, taskVars
  <2> QED BY <1>14, <2>1, <2>2, DeliverShape
<1>15. ASSUME NEW c \in Conn, ErrTcpMark(c) PROVE CallInv'
  <2>1. /\ ~InCore /\ cb' = [conn |-> c, old |-> state[c]] /\ pcb[c] = "open"
        /\ pcb' = [pcb EXCEPT ![c] = "none"]
        /\ state' = [state EXCEPT ![c] = "none"]
        /\ mboxClosed' = [mboxClosed EXCEPT ![c] = TRUE]
        /\ UNCHANGED <<pc, client, recv, op>>
    BY <1>15 DEF ErrTcpMark, CallbackMayRun, ByTcp
  <2>2. pc = "wait" /\ op[client] = 0 =>
          state'[client] = "write" \/ (cb'.conn = client /\ cb'.old = "write")
    <3> SUFFICES ASSUME pc = "wait", op[client] = 0
                 PROVE  state'[client] = "write"
                          \/ (cb'.conn = client /\ cb'.old = "write")
      OBVIOUS
    <3>1. client \in Conn /\ cb.conn = None
      BY <1>15 DEF ErrTcpMark, CallbackMayRun
    <3>2. state[client] = "write"
      BY <3>1
    <3>3. cb'.conn = c /\ cb'.old = state[c]
      BY <2>1
    <3>4. c # client => state'[client] = state[client]
      BY <2>1, <3>1
    <3> QED BY <3>2, <3>3, <3>4
  <2>3. /\ pcb'[c] = "none" /\ cb'.conn = c
        /\ \A d \in Conn \ {c} : pcb'[d] = pcb[d] /\ state'[d] = state[d]
    BY <2>1
  <2>4. pc \in Serving \cup {"delete", "free"} => client \in Conn
    OBVIOUS
  <2>5. pc \notin {"more", "shutting", "closing"} /\ cb.conn = None
    BY <1>15, <2>1 DEF InCore, ErrTcpMark, CallbackMayRun
  <2>6. UNCHANGED <<pc, client, recv, op>>
    BY <2>1
  <2>7. pc = "recv" /\ pcb'[client] = "none" => mboxClosed'[client]
    BY <2>1, <2>3, <2>4
  <2>8. pc = "fetch" /\ pcb'[client] = "none" =>
          cb'.conn = client \/ recv[client] # <<>>
    BY <2>3, <2>4, <2>5
  <2>9. pc \in {"delete", "free"} => pcb'[client] = "none"
    BY <2>3, <2>4
  <2> QED BY <2>2, <2>5, <2>6, <2>7, <2>8, <2>9
<1>16. CASE ErrTcpPost
  <2> DEFINE c == cb.conn
  <2>1. /\ c \in Conn
        /\ \/ recv' = recv /\ (recv[c] = NoMbox \/ recv[c] # <<>>)
           \/ \E q \in RecvQueue \ {<<>>} : recv' = [recv EXCEPT ![c] = q]
        /\ op' = IF cb.old # "none" THEN Signalled(c) ELSE op
        /\ UNCHANGED <<pc, server, client, state, pcb, mboxClosed, Unaccepted>>
    BY <1>16, ErrShape DEF taskVars
  <2>2. \A d \in Conn : recv[d] # <<>> => recv'[d] # <<>>
    BY <2>1
  <2>3. recv[c] # NoMbox => recv'[c] # <<>>
    BY <2>1
  <2>4. pc \in Serving => client \in Conn
    OBVIOUS
  <2>5. pc = "fetch" /\ pcb[client] = "none" => recv'[client] # <<>>
    BY <2>2, <2>3, <2>4
  <2>6. pc = "wait" /\ op'[client] = 0 => state[client] = "write"
    BY <2>1, <2>4, Signals
  <2> QED BY <2>1, <2>5, <2>6
<1>17. ASSUME NEW c \in Conn, WriteMore(c) PROVE CallInv'
  <2>1. /\ pc = "wait" /\ c = client
        /\ UNCHANGED <<pc, client>>
    BY <1>17 DEF WriteMore, CallbackMayRun, InCore, ByTcp
  <2>2. op'[c] > 0
    BY <1>17, Signals DEF WriteMore
  <2> QED BY <2>1, <2>2
<1> QED BY <1>1, <1>2, <1>3, <1>4, <1>5, <1>6, <1>7, <1>8, <1>9, <1>10,
           <1>11, <1>12, <1>13, <1>14, <1>15, <1>16, <1>17
        DEF Next, Serve, Callback

LEMMA StepCbInv == CoreLocked /\ HInv /\ [Next]_vars => CbInv'
<1> SUFFICES ASSUME CoreLocked, OInv, ConnInv, CallInv, CbInv, [Next]_vars
             PROVE  CbInv'
  BY DEF HInv
<1> USE NamesAssumption DEF OInv, MailInv, TypeOK, TaskTypeOK, ConnTypeOK, NetTypeOK,
           PlaceInv, OwnerInv, ConnInv, CallInv, CbInv, Serving, Connection,
           InCore, EntersCore, NoCallback
<1>1. CASE UNCHANGED vars
  BY <1>1, UnacceptedMembers DEF vars, bootVars, taskVars, connVars, netVars
<1>2. CASE BootStep \/ DhcpBind
  BY <1>2, BootShape DEF connVars, netVars
<1>3. CASE WaitUp \/ WaitAddr \/ DoNewconn \/ DoListenDone \/ Recv
  BY <1>3, UnacceptedMembers
  DEF WaitUp, WaitAddr, DoNewconn, DoListenDone, Recv, connVars, netVars,
      Runs, Goto
<1>4. CASE NetconnNew
  BY <1>4, UnacceptedMembers, PoolHeadIsFree, HttpdAssumption
  DEF NetconnNew, MayAlloc, Fresh, CanCreate, connVars, netVars, Runs, Goto
<1>5. CASE DoListen \/ DoListenMbox
  BY <1>5, UnacceptedMembers, AcceptQueues, NoMembers
  DEF DoListen, DoListenMbox, Drained, netVars, Runs, Goto
<1>6. CASE Accept
  BY <1>6, TakeShape, AcceptQueues DEF netVars
<1>7. CASE Fetch
  BY <1>7, FetchShape, RecvQueues DEF netVars
<1>8. CASE TryFetchEmpty \/ HandleFin
  BY <1>8, UnacceptedMembers
  DEF TryFetchEmpty, HandleFin, Drained, netVars, Runs, Goto
<1>9. CASE Write \/ WriteFirst
  BY <1>9, UnacceptedMembers
  DEF Write, WriteFirst, AfterWrite, netVars, Runs, Goto
<1>10. CASE Shutdown \/ ShutdownDone \/ Close \/ CloseDone
  BY <1>10, UnacceptedMembers
  DEF Shutdown, ShutdownDone, Close, DoClose, CloseDone, Drained, netVars,
      Runs, Goto
<1>11. CASE Wait \/ Delete
  BY <1>11, UnacceptedMembers
  DEF Wait, Delete, Drained, AfterWrite, netVars, Runs, Goto
<1>12. CASE Free
  BY <1>12, UnacceptedMembers DEF Free, netVars, Runs, Goto
<1>13. CASE AcceptFunction
  <2>1. CASE NoneAccepted
    BY <1>13, <2>1, AcceptShape, AcceptQueues
    DEF NoneAccepted, bootVars, taskVars
  <2>2. ASSUME NEW c \in Conn \ used, NewAccepted(c) PROVE CbInv'
    BY <1>13, <2>2, AcceptShape, AcceptQueues, RecvQueues
    DEF NewAccepted, bootVars, taskVars
  <2> QED BY <1>13, <2>1, <2>2, AcceptShape
<1>14. ASSUME NEW c \in Conn, RecvData(c) \/ RecvFin(c) PROVE CbInv'
  <2>1. CASE recv' = recv
    BY <1>14, <2>1, DeliverShape DEF bootVars, taskVars
  <2>2. ASSUME NEW q \in RecvQueue \ {<<>>}, recv[c] # NoMbox,
               recv' = [recv EXCEPT ![c] = q]
        PROVE  CbInv'
    <3>1. q # NoMbox /\ q # <<>> /\ recv'[c] = q
          /\ \A d \in Conn \ {c} : recv'[d] = recv[d]
      BY <2>2, RecvQueues
    <3> QED BY <1>14, <2>2, <3>1, DeliverShape DEF bootVars, taskVars
  <2> QED BY <1>14, <2>1, <2>2, DeliverShape
<1>15. ASSUME NEW c \in Conn, ErrTcpMark(c) PROVE CbInv'
  BY <1>15, UnacceptedMembers DEF ErrTcpMark, CallbackMayRun, InCore, ByTcp
<1>16. CASE ErrTcpPost
  BY <1>16, ErrShape, RecvQueues DEF bootVars, taskVars
<1>17. ASSUME NEW c \in Conn, WriteMore(c) PROVE CbInv'
  BY <1>17, UnacceptedMembers
  DEF WriteMore, CallbackMayRun, InCore, ByTcp, netVars
<1> QED BY <1>1, <1>2, <1>3, <1>4, <1>5, <1>6, <1>7, <1>8, <1>9, <1>10,
           <1>11, <1>12, <1>13, <1>14, <1>15, <1>16, <1>17
        DEF Next, Serve, Callback

-----------------------------------------------------------------------------
LEMMA InitOInv == Init => OInv
<1> SUFFICES ASSUME Init PROVE OInv
  OBVIOUS
<1>1. Unaccepted = {} /\ Distinct(accept)
  BY UnacceptedMembers, NoMembers DEF Init
<1>2. TypeOK
  <2>1. DhcpRetries \in 0 .. DhcpRetries /\ 0 \in 0 .. MaxConnects
    BY HttpdAssumption
  <2>2. BootTypeOK
    BY <2>1, Zenon DEF Init, BootTypeOK
  <2>3. TaskTypeOK
    BY DEF Init, TaskTypeOK, Place
  <2>4. ConnTypeOK
    BY HttpdAssumption DEF Init, ConnTypeOK, SemMax
  <2>5. NetTypeOK
    BY <2>1, Zenon DEF Init, NetTypeOK, NoCallback
  <2> QED BY <2>2, <2>3, <2>4, <2>5 DEF TypeOK
<1>3. PlaceInv /\ OwnerInv
  BY <1>1 DEF Init, PlaceInv, Serving, Listening, OwnerInv
<1>4. MailInv
  BY <1>1 DEF Init, MailInv, Serving, Listening, NoCallback
<1> QED BY <1>2, <1>3, <1>4 DEF OInv

LEMMA OInvariant == Spec => []OInv
<1>1. OInv /\ [Next]_vars => OInv'
  BY StepTypeOK, StepPlaceInv, StepOwnerInv, StepMailInv DEF OInv
<1> QED BY InitOInv, <1>1, PTL DEF Spec

LEMMA HInvariant == CoreLocked => (Spec => []HInv)
<1> SUFFICES ASSUME CoreLocked PROVE Spec => []HInv
  OBVIOUS
<1>1. Init => HInv
  <2> SUFFICES ASSUME Init PROVE HInv
    OBVIOUS
  <2>1. Unaccepted = {}
    BY UnacceptedMembers, NoMembers DEF Init
  <2>2. ConnInv
    BY <2>1 DEF Init, ConnInv, Connection
  <2>3. CallInv /\ CbInv
    BY DEF Init, CallInv, CbInv, NoCallback
  <2> QED BY <2>2, <2>3, InitOInv DEF HInv
<1>2. HInv /\ [Next]_vars => HInv'
  BY StepTypeOK, StepPlaceInv, StepOwnerInv, StepMailInv, StepConnInv,
     StepCallInv, StepCbInv
  DEF HInv, OInv
<1> QED BY <1>1, <1>2, PTL DEF Spec

\* Every variable has its type: whoever posts, no mailbox is ever overfull.
THEOREM TypeCorrect == Spec => []TypeOK
<1>1. OInv => TypeOK
  BY DEF OInv
<1> QED BY <1>1, OInvariant, PTL

\* No netconn is lost, whoever of the task and TCP's callbacks had it last,
\* with or without the lock, and wherever memory ran out.
THEOREM EveryOneOwned == Spec => []NoneLeaked
<1>1. OInv => NoneLeaked
  BY DEF OInv, OwnerInv, Distinct, NoneLeaked
<1> QED BY <1>1, OInvariant, PTL

\* What netconn_free puts back into the pool is used by nobody any more.
THEOREM FreeOnesUnused == CoreLocked => (Spec => []FreeIsDetached)
<1>1. HInv => FreeIsDetached
  <2> SUFFICES ASSUME HInv, NEW c \in Conn \ used
               PROVE  pcb[c] = "none" /\ recv[c] = NoMbox /\ op[c] = 0
                        /\ c \notin Unaccepted
    BY DEF FreeIsDetached
  <2>1. c \notin Unaccepted /\ c # client
    BY NamesAssumption DEF HInv, OInv, OwnerInv
  <2>2. op[c] = 0
    BY <2>1 DEF HInv, OInv, TypeOK, ConnTypeOK, ConnInv
  <2> QED BY <2>1, <2>2 DEF HInv, OInv, MailInv, ConnInv
<1> QED BY <1>1, HInvariant, PTL

\* Under the core lock, lwIP's assertions about the connection that a write
\* or a close is about to use, or has used, hold.
THEOREM ConnectionStays == CoreLocked => (Spec => []AssertionsHold)
<1>1. HInv => AssertionsHold
  <2> SUFFICES ASSUME HInv PROVE AssertionsHold
    OBVIOUS
  <2>1. pc = "wait" => client \in Conn
    BY DEF HInv, OInv, TypeOK, TaskTypeOK, PlaceInv, Serving
  <2>2. pc = "wait" /\ op[client] > 0 => state[client] = "none"
    BY <2>1 DEF HInv, ConnInv
  <2> QED BY <2>2 DEF HInv, CallInv, AssertionsHold
<1> QED BY <1>1, HInvariant, PTL

\* Under the core lock the end of a write is signalled once, however poll_tcp,
\* sent_tcp and err_tcp come, so the semaphore, which could count to SemMax,
\* never holds a signal for a wait that has not begun.
THEOREM EndsOnce == CoreLocked => (Spec => []SignalledOnce)
<1>1. HInv => SignalledOnce
  BY DEF HInv, ConnInv, SignalledOnce
<1> QED BY <1>1, HInvariant, PTL

-----------------------------------------------------------------------------
(* What keeps the task from waiting for ever.                              *)

\* Somebody will count op_completed up: TCP, which still has the netconn of
\* the write, or err_tcp on its way.
WillEnd(c) ==
  \/ pcb[c] = "open" /\ state[c] = "write"
  \/ cb.conn = c /\ cb.old = "write"

WaitInv ==
  /\ \A c \in Conn : Connection(c) => pcb[c] \in {"open", "none"}
  /\ \A c \in Unaccepted : pcb[c] = "none" => mboxClosed[c]
  /\ pc = "recv" /\ pcb[client] = "none" => mboxClosed[client]
  /\ pc = "fetch" /\ pcb[client] = "none" =>
       cb.conn = client \/ recv[client] # <<>>
  /\ pc \in {"more", "wait"} => op[client] > 0 \/ WillEnd(client)

LEMMA StepWaitInv == OInv /\ WaitInv /\ [Next]_vars => WaitInv'
<1> SUFFICES ASSUME OInv, WaitInv, [Next]_vars PROVE WaitInv'
  OBVIOUS
<1> USE NamesAssumption DEF OInv, TypeOK, TaskTypeOK, ConnTypeOK, NetTypeOK,
           PlaceInv, OwnerInv, MailInv, WaitInv, Serving, Listening, Connection,
           WillEnd
<1>1. CASE UNCHANGED vars
  BY <1>1, UnacceptedMembers DEF vars, bootVars, taskVars, connVars, netVars
<1>2. CASE BootStep \/ DhcpBind
  BY <1>2, BootShape DEF connVars, netVars
<1>3. CASE WaitUp \/ WaitAddr \/ DoNewconn \/ DoListenDone \/ Recv
  BY <1>3, UnacceptedMembers
  DEF WaitUp, WaitAddr, DoNewconn, DoListenDone, Recv, connVars, netVars,
      Runs, Goto
<1>4. CASE NetconnNew
  BY <1>4, UnacceptedMembers, PoolHeadIsFree, HttpdAssumption
  DEF NetconnNew, MayAlloc, Fresh, CanCreate, connVars, netVars, Runs, Goto
<1>5. CASE DoListen \/ DoListenMbox
  BY <1>5, UnacceptedMembers, AcceptQueues, NoMembers
  DEF DoListen, DoListenMbox, Drained, netVars, Runs, Goto
<1>6. CASE Accept
  BY <1>6, TakeShape, AcceptQueues DEF netVars
<1>7. CASE Fetch
  BY <1>7, FetchShape, RecvQueues DEF netVars
<1>8. CASE TryFetchEmpty \/ HandleFin
  BY <1>8, UnacceptedMembers
  DEF TryFetchEmpty, HandleFin, Drained, netVars, Runs, Goto
<1>9. CASE Write
  <2>1. /\ pc = "write" /\ client \in Conn
        /\ UNCHANGED <<server, client, pcb, mboxClosed, op, cb, Unaccepted>>
    BY <1>9, UnacceptedMembers DEF Write, Runs, netVars
  <2>2. CASE pc' \in {"write", "close"}
    BY <2>1, <2>2
  <2>3. CASE /\ pc' = "more" /\ pcb[client] # "none"
             /\ state' = [state EXCEPT ![client] = "write"]
    <3>1. pcb[client] = "open" /\ state'[client] = "write"
      BY <2>1, <2>3
    <3> QED BY <2>1, <2>3, <3>1
  <2> QED BY <1>9, <2>2, <2>3 DEF Write, Goto, AfterWrite
<1>10. CASE WriteFirst
  <2>1. /\ pc = "more" /\ client \in Conn /\ pc' \in {"write", "close", "wait"}
        /\ pc' = "wait" => state' = state
        /\ UNCHANGED <<server, client, pcb, mboxClosed, op, cb, Unaccepted>>
    BY <1>10, UnacceptedMembers DEF WriteFirst, AfterWrite, Runs, Goto, netVars
  <2> QED BY <2>1
<1>18. CASE Shutdown \/ ShutdownDone \/ Close
  <2>1. /\ pc' \in {"close", "shutting", "delete", "closing"}
        /\ UNCHANGED <<server, client, pcb, mboxClosed, Unaccepted>>
    BY <1>18, UnacceptedMembers DEF Shutdown, ShutdownDone, Close, DoClose, Goto
  <2> QED BY <2>1
<1>19. CASE CloseDone
  <2>1. /\ pc = "closing" /\ client \in Conn /\ pc' = "delete"
        /\ pcb' = [pcb EXCEPT ![client] = "none"]
        /\ UNCHANGED <<server, client, mboxClosed, Unaccepted>>
    BY <1>19, UnacceptedMembers DEF CloseDone, Runs, Goto
  <2>2. \A c \in Unaccepted : pcb'[c] = pcb[c]
    BY <2>1 DEF Unaccepted
  <2> QED BY <2>1, <2>2
<1>11. CASE Wait \/ Delete
  BY <1>11, UnacceptedMembers
  DEF Wait, Delete, Drained, AfterWrite, netVars, Runs, Goto
<1>12. CASE Free
  BY <1>12, UnacceptedMembers DEF Free, netVars, Runs, Goto
<1>13. CASE AcceptFunction
  <2>1. CASE NoneAccepted
    BY <1>13, <2>1, AcceptShape, AcceptQueues
    DEF NoneAccepted, bootVars, taskVars
  <2>2. ASSUME NEW c \in Conn \ used, NewAccepted(c) PROVE WaitInv'
    BY <1>13, <2>2, AcceptShape, AcceptQueues, RecvQueues
    DEF NewAccepted, bootVars, taskVars
  <2> QED BY <1>13, <2>1, <2>2, AcceptShape
<1>14. ASSUME NEW c \in Conn, RecvData(c) \/ RecvFin(c) PROVE WaitInv'
  <2>1. CASE recv' = recv
    BY <1>14, <2>1, DeliverShape DEF bootVars, taskVars
  <2>2. ASSUME NEW q \in RecvQueue \ {<<>>}, recv[c] # NoMbox,
               recv' = [recv EXCEPT ![c] = q]
        PROVE  WaitInv'
    <3>1. q # NoMbox /\ q # <<>> /\ recv'[c] = q
          /\ \A d \in Conn \ {c} : recv'[d] = recv[d]
      BY <2>2, RecvQueues
    <3> QED BY <1>14, <2>2, <3>1, DeliverShape DEF bootVars, taskVars
  <2> QED BY <1>14, <2>1, <2>2, DeliverShape
<1>15. ASSUME NEW c \in Conn, ErrTcpMark(c) PROVE WaitInv'
  BY <1>15, UnacceptedMembers DEF ErrTcpMark, CallbackMayRun, InCore, ByTcp
<1>16. CASE ErrTcpPost
  <2> DEFINE c == cb.conn
  <2>1. /\ c \in Conn
        /\ \/ recv' = recv /\ (recv[c] = NoMbox \/ recv[c] # <<>>)
           \/ \E q \in RecvQueue \ {<<>>} : recv' = [recv EXCEPT ![c] = q]
        /\ op' = IF cb.old \in {"write", "close"} THEN Signalled(c) ELSE op
        /\ UNCHANGED <<pc, server, client, state, pcb, mboxClosed, Unaccepted>>
    BY <1>16, ErrShape DEF taskVars
  <2>2. \A d \in Conn : recv[d] # <<>> => recv'[d] # <<>>
    BY <2>1
  <2>3. recv[c] # NoMbox => recv'[c] # <<>>
    BY <2>1
  <2>4. pc \in Serving => client \in Conn
    OBVIOUS
  <2>5. pc = "fetch" /\ pcb[client] = "none" => recv'[client] # <<>>
    BY <2>2, <2>3, <2>4
  <2>6. /\ \A d \in Conn : op[d] > 0 => op'[d] > 0
        /\ cb.old = "write" => op'[c] > 0
    <3>1. /\ Signalled(c)[c] > 0
          /\ \A d \in Conn \ {c} : Signalled(c)[d] = op[d]
      BY <2>1, Signals
    <3> QED BY <2>1, <3>1
  <2>7. pc \in {"more", "wait"} =>
          op'[client] > 0 \/ (pcb[client] = "open" /\ state[client] = "write")
    BY <2>4, <2>6
  <2> QED BY <2>1, <2>5, <2>7
<1>17. ASSUME NEW c \in Conn, WriteMore(c) PROVE WaitInv'
  <2>1. /\ state' = [state EXCEPT ![c] = "none"]
        /\ UNCHANGED <<pc, server, client, recv, pcb, mboxClosed, cb, Unaccepted>>
    BY <1>17, UnacceptedMembers DEF WriteMore, ByTcp, netVars
  <2>2. /\ op'[c] > 0
        /\ \A d \in Conn \ {c} : op'[d] = op[d] /\ state'[d] = state[d]
    BY <1>17, <2>1, Signals DEF WriteMore
  <2>3. pc \in Serving => client \in Conn
    OBVIOUS
  <2>4. pc \in {"more", "wait"} => op'[client] > 0 \/ WillEnd(client)'
    BY <2>1, <2>2, <2>3
  <2> QED BY <2>1, <2>4
<1> QED BY <1>1, <1>2, <1>3, <1>4, <1>5, <1>6, <1>7, <1>8, <1>9, <1>10,
           <1>11, <1>12, <1>13, <1>14, <1>15, <1>16, <1>17, <1>18, <1>19
        DEF Next, Serve, Callback

\* Whenever err_tcp comes, it or another callback wakes the task: this too
\* needs no lock.
THEOREM NeverStranded == Spec => []NotStranded
<1>1. Init => WaitInv
  <2> SUFFICES ASSUME Init PROVE WaitInv
    OBVIOUS
  <2>1. Unaccepted = {}
    BY UnacceptedMembers, NoMembers DEF Init
  <2> QED BY <2>1 DEF Init, WaitInv, Connection
<1>2. OInv /\ WaitInv /\ [Next]_vars => WaitInv'
  BY StepWaitInv
<1>3. OInv /\ WaitInv => NotStranded
  <2> SUFFICES ASSUME OInv, WaitInv PROVE NotStranded
    OBVIOUS
  <2>1. pc = "wait" => client \in Conn
    BY DEF OInv, TypeOK, TaskTypeOK, PlaceInv, Serving
  <2> QED BY <2>1 DEF WaitInv, WillEnd, NotStranded
<1> QED BY <1>1, <1>2, <1>3, OInvariant, PTL DEF Spec

-----------------------------------------------------------------------------
(* The pool implements an allocator.                                       *)

\* What each owner has, entry by entry, now and in the next state.
LEMMA HeldEntries ==
  /\ HeldNow = [o \in Owner |-> HeldNow[o]]
  /\ HeldNow["server"] = {server} \ {None}
  /\ HeldNow["client"] = {client} \ {server, None}
  /\ HeldNow["mailbox"] = Unaccepted
  /\ HeldNow' = [o \in Owner |-> HeldNow'[o]]
  /\ HeldNow'["server"] = {server'} \ {None}
  /\ HeldNow'["client"] = {client'} \ {server', None}
  /\ HeldNow'["mailbox"] = Unaccepted'
<1>1. \A o \in Owner : HeldNow[o] = Held(o) /\ HeldNow'[o] = Held(o)'
  BY DEF HeldNow
<1> QED BY <1>1 DEF HeldNow, Held, Owner

\* Each step takes, hands on or gives back one netconn, or none.
LEMMA StepUsesPool ==
  OInv /\ [Next]_vars => [Memp!Next]_<<FreeConns, HeldNow>>
<1> SUFFICES ASSUME OInv, [Next]_vars
             PROVE  Memp!Next \/ UNCHANGED <<FreeConns, HeldNow>>
  OBVIOUS
<1>o. /\ \A o \in Owner : o \in {"server", "client", "mailbox"}
      /\ {"server", "client", "mailbox"} \subseteq Owner
  BY DEF Owner
<1>u. /\ used \subseteq Conn /\ Unaccepted \subseteq Conn
      /\ used = ({server, client} \cup Unaccepted) \ {None}
      /\ client \notin Unaccepted /\ server \notin Unaccepted
      /\ None \notin Conn
  BY NamesAssumption DEF OInv, TypeOK, ConnTypeOK, OwnerInv, Unaccepted
<1>1. ASSUME UNCHANGED <<used, Unaccepted>>,
             {server'} \ {None} = {server} \ {None},
             {client'} \ {server', None} = {client} \ {server, None}
      PROVE  UNCHANGED <<FreeConns, HeldNow>>
  <2>1. \A o \in Owner : HeldNow'[o] = HeldNow[o]
    BY <1>o, <1>1, HeldEntries
  <2>2. HeldNow' = HeldNow
    BY <2>1, HeldEntries
  <2> QED BY <1>1, <2>2 DEF FreeConns
<1>2. ASSUME NEW o \in Owner, NEW c \in Conn \ used, used' = used \cup {c},
             HeldNow'[o] = HeldNow[o] \cup {c},
             \A p \in Owner \ {o} : HeldNow'[p] = HeldNow[p]
      PROVE  Memp!Next
  <2>1. HeldNow' = [HeldNow EXCEPT ![o] = @ \cup {c}]
    BY <1>2, HeldEntries
  <2>2. c \in FreeConns /\ FreeConns' = FreeConns \ {c}
    BY <1>2 DEF FreeConns
  <2> QED BY <2>1, <2>2 DEF Memp!Next, Memp!Grant
<1>3. ASSUME NEW o \in Owner, NEW c \in HeldNow[o], c \in Conn,
             used' = used \ {c}, HeldNow'[o] = HeldNow[o] \ {c},
             \A p \in Owner \ {o} : HeldNow'[p] = HeldNow[p]
      PROVE  Memp!Next
  <2>1. HeldNow' = [HeldNow EXCEPT ![o] = @ \ {c}]
    BY <1>3, HeldEntries
  <2>2. FreeConns' = FreeConns \cup {c}
    BY <1>3 DEF FreeConns
  <2> QED BY <2>1, <2>2 DEF Memp!Next, Memp!Release
<1>4. CASE NetconnNew
  <2>1. CASE UNCHANGED <<server, connVars>>
    BY <1>1, <1>4, <2>1, UnacceptedMembers DEF NetconnNew, connVars
  <2>2. CASE MayAlloc /\ Fresh(PoolHead) /\ server' = PoolHead
    <3>1. /\ PoolHead \in Conn \ used /\ used' = used \cup {PoolHead}
          /\ server = None /\ client = None /\ client' = None
          /\ Unaccepted' = Unaccepted
      BY <1>u, <1>4, <2>2, PoolHeadIsFree, UnacceptedMembers
      DEF NetconnNew, MayAlloc, Fresh, Runs, OInv, PlaceInv, Serving
    <3>2. /\ HeldNow'["server"] = HeldNow["server"] \cup {PoolHead}
          /\ \A p \in Owner \ {"server"} : HeldNow'[p] = HeldNow[p]
      BY <1>o, <1>u, <2>2, <3>1, HeldEntries
    <3> QED BY <1>2, <1>o, <3>1, <3>2
  <2> QED BY <1>4, <2>1, <2>2 DEF NetconnNew
<1>5. CASE DoListenMbox
  <2>1. client = None /\ accept = NoMbox /\ UNCHANGED <<used, server>>
    BY <1>5 DEF DoListenMbox, Runs, OInv, PlaceInv, Serving, Listening
  <2>2. client' \in {None, server} /\ accept' \in {NoMbox, <<>>}
    BY <1>5, <2>1 DEF DoListenMbox
  <2>3. Unaccepted' = Unaccepted
    BY <2>1, <2>2, UnacceptedMembers, NoMembers
  <2> QED BY <1>1, <2>1, <2>2, <2>3
<1>6. CASE Accept
  <2>1. client = None /\ server # None /\ UNCHANGED <<used, server>>
    BY <1>6, TakeShape DEF OInv, PlaceInv, Serving
  <2>2. CASE UNCHANGED <<client, Unaccepted>>
    BY <1>1, <2>1, <2>2
  <2>3. ASSUME NEW c \in Unaccepted, client' = c,
               Unaccepted' = Unaccepted \ {c}
        PROVE  Memp!Next
    <3>1. /\ c \in HeldNow["mailbox"] /\ HeldNow'["server"] = HeldNow["server"]
          /\ HeldNow'["mailbox"] = HeldNow["mailbox"] \ {c}
          /\ HeldNow'["client"] = HeldNow["client"] \cup {c}
      BY <1>u, <2>1, <2>3, HeldEntries
    <3>2. HeldNow' = [HeldNow EXCEPT !["mailbox"] = @ \ {c},
                                     !["client"] = @ \cup {c}]
      BY <1>o, <3>1, HeldEntries
    <3>3. FreeConns' = FreeConns
      BY <2>1 DEF FreeConns
    <3> QED BY <1>o, <3>1, <3>2, <3>3 DEF Memp!Next, Memp!HandOn
  <2> QED BY <1>6, <2>2, <2>3, TakeShape
<1>7. CASE Free
  <2>1. /\ client \in Conn /\ server # None /\ used' = used \ {client}
        /\ client' = None /\ server' = IF client = server THEN None ELSE server
        /\ Unaccepted' = Unaccepted
    BY <1>7, UnacceptedMembers
    DEF Free, Runs, OInv, TypeOK, TaskTypeOK, PlaceInv, Serving
  <2>2. CASE client = server
    <3>1. /\ client \in HeldNow["server"]
          /\ HeldNow'["server"] = HeldNow["server"] \ {client}
          /\ \A p \in Owner \ {"server"} : HeldNow'[p] = HeldNow[p]
      BY <1>o, <1>u, <2>1, <2>2, HeldEntries
    <3> QED BY <1>3, <1>o, <2>1, <3>1
  <2>3. CASE client # server
    <3>1. /\ client \in HeldNow["client"]
          /\ HeldNow'["client"] = HeldNow["client"] \ {client}
          /\ \A p \in Owner \ {"client"} : HeldNow'[p] = HeldNow[p]
      BY <1>o, <1>u, <2>1, <2>3, HeldEntries
    <3> QED BY <1>3, <1>o, <2>1, <3>1
  <2> QED BY <2>2, <2>3
<1>8. CASE AcceptFunction
  <2>1. UNCHANGED <<server, client>>
    BY <1>8, AcceptShape DEF taskVars
  <2>2. CASE NoneAccepted
    BY <1>1, <2>1, <2>2 DEF NoneAccepted
  <2>3. ASSUME NEW c \in Conn \ used, NewAccepted(c) PROVE Memp!Next
    <3>1. /\ used' = used \cup {c}
          /\ HeldNow'["mailbox"] = HeldNow["mailbox"] \cup {c}
          /\ \A p \in Owner \ {"mailbox"} : HeldNow'[p] = HeldNow[p]
      BY <1>o, <2>1, <2>3, HeldEntries DEF NewAccepted
    <3> QED BY <1>2, <1>o, <3>1
  <2> QED BY <1>8, <2>2, <2>3, AcceptShape
<1>9. ASSUME UNCHANGED <<used, server, client, accept>>
      PROVE  UNCHANGED <<FreeConns, HeldNow>>
  BY <1>1, <1>9, UnacceptedMembers
<1>10. CASE UNCHANGED vars
  BY <1>9, <1>10 DEF vars, taskVars, connVars
<1>11. CASE BootStep \/ DhcpBind
  BY <1>9, <1>11, BootShape DEF connVars
<1>12. CASE \/ WaitUp \/ WaitAddr \/ DoNewconn \/ DoListen \/ DoListenDone
            \/ Recv \/ Fetch \/ TryFetchEmpty \/ HandleFin \/ Shutdown
            \/ ShutdownDone \/ Write \/ WriteFirst \/ Wait \/ Close
            \/ CloseDone \/ Delete
  <2>1. UNCHANGED <<used, server, client, accept>>
    BY <1>12
    DEF WaitUp, WaitAddr, DoNewconn, DoListen, DoListenDone, Recv, Fetch,
        TryFetchEmpty, HandleFin, Shutdown, ShutdownDone, Write, WriteFirst,
        Wait, Close, DoClose, CloseDone, Delete, connVars
  <2> QED BY <1>9, <2>1
<1>13. ASSUME NEW c \in Conn,
              RecvData(c) \/ RecvFin(c) \/ ErrTcpMark(c) \/ WriteMore(c)
       PROVE  UNCHANGED <<FreeConns, HeldNow>>
  BY <1>9, <1>13
  DEF RecvData, RecvFin, Deliver, ErrTcpMark, WriteMore, ByTcp
<1>14. CASE ErrTcpPost
  BY <1>9, <1>14 DEF ErrTcpPost, ByTcp
<1> QED BY <1>4, <1>5, <1>6, <1>7, <1>8, <1>10, <1>11, <1>12, <1>13, <1>14
        DEF Next, Serve, Callback

\* The pool of netconns does what an allocator promises, however many netconns
\* there are and whoever interrupts whom.
THEOREM NetconnsPooled == Spec => UsesPool
<1>1. Init => Memp!Init
  <2> SUFFICES ASSUME Init PROVE Memp!Init
    OBVIOUS
  <2>1. Unaccepted = {}
    BY UnacceptedMembers, NoMembers DEF Init
  <2>2. HeldNow = [o \in Owner |-> {}]
    BY <2>1 DEF Init, HeldNow, Held, Owner
  <2> QED BY <2>2 DEF Init, FreeConns, Memp!Init
<1>2. OInv /\ [Next]_vars => [Memp!Next]_<<FreeConns, HeldNow>>
  BY StepUsesPool
<1> QED BY <1>1, <1>2, OInvariant, PTL DEF Spec, UsesPool, Memp!Spec

-----------------------------------------------------------------------------
(* The configuration as it is: a static address, and mailboxes of size 0.  *)

NobodyListens == \A c \in Conn : state[c] # "listen"

\* How far httpd_task gets in each case.
ShutInv ==
  /\ NobodyListens /\ DOMAIN state = Conn
  /\ \/ Static /\ ~up /\ pc \in {"born", "up"}
     \/ RecvSize = 0 /\ pc \in {"born", "up", "addr", "new", "gone"}
     \/ /\ AcceptSize = 0
        /\ pc \in {"born", "up", "addr", "new", "newconn", "listen",
                   "acceptmbox", "delete", "free", "gone"}
        /\ pc \in {"delete", "free"} => client = server

\* Each of the three settings of the shipped configuration keeps the server
\* from ever listening, with or without the core lock and however much memory
\* there is: the static branch never brings the interface up, and neither
\* netconn_alloc nor lwip_netconn_do_listen can make a mailbox of size 0.
THEOREM NeverListens ==
  Static \/ RecvSize = 0 \/ AcceptSize = 0 => (Spec => []NobodyListens)
<1> SUFFICES ASSUME Static \/ RecvSize = 0 \/ AcceptSize = 0
             PROVE  Spec => []NobodyListens
  OBVIOUS
<1>1. Init => ShutInv
  BY DEF Init, ShutInv, NobodyListens
<1>2. ShutInv /\ [Next]_vars => ShutInv'
  <2> SUFFICES ASSUME ShutInv, [Next]_vars PROVE ShutInv'
    OBVIOUS
  <2> USE DEF ShutInv, NobodyListens
  <2>1. CASE BootStep \/ DhcpBind
    <3>1. CASE ConfigureIp
      BY <3>1 DEF ConfigureIp, Boot, connVars, taskVars
    <3>2. CASE CreateHttpd
      BY <3>2 DEF CreateHttpd, Boot, connVars
    <3>3. CASE \/ InitEnet \/ DhcpStart \/ DhcpPoll \/ DhcpLook
               \/ DhcpStop \/ Fallback \/ DhcpBind
      <4>1. UNCHANGED <<state, up, pc, server, client>>
        BY <3>3
        DEF InitEnet, DhcpStart, DhcpPoll, DhcpLook, DhcpStop, Fallback, Boot,
            DhcpBind, connVars, taskVars
      <4> QED BY <4>1
    <3> QED BY <2>1, <3>1, <3>2, <3>3 DEF BootStep
  <2>2. CASE NetconnNew
    BY <2>2, HttpdAssumption
    DEF NetconnNew, Runs, Goto, MayAlloc, CanCreate, Fresh, bootVars, connVars
  <2>3. CASE DoListenMbox
    BY <2>3 DEF DoListenMbox, Runs, Goto, CanCreate, bootVars
  <2>4. CASE WaitUp \/ WaitAddr \/ DoNewconn \/ DoListen \/ Delete \/ Free
    BY <2>4
    DEF WaitUp, WaitAddr, DoNewconn, DoListen, Delete, Free, Runs, Goto,
        bootVars, connVars
  <2>5. /\ ~DoListenDone /\ ~Accept /\ ~Recv /\ ~Fetch /\ ~TryFetchEmpty
        /\ ~HandleFin /\ ~Shutdown /\ ~ShutdownDone /\ ~Write /\ ~WriteFirst
        /\ ~Wait /\ ~Close /\ ~CloseDone
    BY DEF DoListenDone, Accept, Recv, Fetch, TryFetchEmpty, HandleFin, Shutdown,
           ShutdownDone, Write, WriteFirst, Wait, Close, DoClose, CloseDone, Runs
  <2>6. CASE AcceptFunction
    BY <2>6
    DEF AcceptFunction, AcceptNew, AcceptAbort, Fresh, ByTcp, bootVars, connVars
  <2>7. CASE ErrTcpPost
    BY <2>7 DEF ErrTcpPost, ByTcp, bootVars
  <2>8. ASSUME NEW c \in Conn,
               RecvData(c) \/ RecvFin(c) \/ ErrTcpMark(c) \/ WriteMore(c)
        PROVE  ShutInv'
    BY <2>8
    DEF RecvData, RecvFin, Deliver, ErrTcpMark, WriteMore, ByTcp, bootVars
  <2>9. CASE UNCHANGED vars
    BY <2>9 DEF vars, bootVars, taskVars, connVars
  <2> QED BY <2>1, <2>2, <2>3, <2>4, <2>5, <2>6, <2>7, <2>8, <2>9
          DEF Next, Serve, Callback
<1>3. ShutInv => NobodyListens
  BY DEF ShutInv
<1> QED BY <1>1, <1>2, <1>3, PTL DEF Spec
=============================================================================
