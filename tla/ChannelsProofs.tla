---------------------------- MODULE ChannelsProofs ----------------------------
(***************************************************************************)
(* OwnChannelOnly and TypeOK of Channels, proved for every set of          *)
(* processes, of login screens and of unmanaged sessions, and any number   *)
(* of requests.                                                            *)
(*                                                                         *)
(* OwnChannelOnly is inductive together with the shape of conn: an address *)
(* gets into a connection by Connect alone, which has asked AllowUser, and *)
(* afterwards a connection only closes.  Nothing has to be known of how    *)
(* addresses reach the tasks, which is where the daemon mixes them up.     *)
(* TypeOK needs to know where tables, calls and tasks get their requests   *)
(* from (ChannelsInv, in the second part).                                 *)
(***************************************************************************)
EXTENDS Channels, FiniteSetTheorems, TLAPS

(* Each connection is a record of its state and its address.               *)
ConnShape == conn = [q \in Tasks |-> [at |-> conn[q].at, to |-> conn[q].to]]

ConnInv == ConnShape /\ OwnChannelOnly

(* Connections open at most by Connect: elsewhere they keep their address, *)
(* and one that is none stays none.                                        *)
OnlyCloses ==
    /\ ConnShape'
    /\ \A c \in Tasks : /\ conn'[c].to = conn[c].to
                        /\ conn[c].at = "none" => conn'[c].at = "none"

(* Steps that open no connection keep OwnChannelOnly.                      *)
LEMMA ClosingKeeps == ConnInv /\ OnlyCloses => ConnInv'
  BY DEF ConnInv, OnlyCloses, OwnChannelOnly

LEMMA UnchangedCloses == ConnShape /\ UNCHANGED conn => OnlyCloses
  BY DEF ConnShape, OnlyCloses

(* Whatever a process drops, its connections can only begin to close.      *)
LEMMA BecomesCloses ==
    ASSUME ConnShape, NEW p, NEW T, NEW C, Becomes(p, T, C)
    PROVE  OnlyCloses
<1> DEFINE lets(q) == Owner(q) = p /\ conn[q].at = "open" /\ q \notin HeldBy(p, T, C)
<1>1. conn' = [q \in Tasks |-> IF lets(q) THEN [conn[q] EXCEPT !.at = "closing"] ELSE conn[q]]
  BY DEF Becomes
<1> HIDE DEF lets
<1>2. \A q \in Tasks : conn[q] = [at |-> conn[q].at, to |-> conn[q].to]
  BY DEF ConnShape
<1>3. \A q \in Tasks : lets(q) => conn[q].at = "open"
  BY DEF lets
<1>4. ASSUME NEW c \in Tasks
      PROVE  /\ conn'[c] = [at |-> conn'[c].at, to |-> conn'[c].to]
             /\ conn'[c].to = conn[c].to
             /\ conn[c].at = "none" => conn'[c].at = "none"
  <2>1. CASE lets(c)
    <3>1. conn'[c] = [conn[c] EXCEPT !.at = "closing"]
      BY <1>1, <2>1
    <3>2. conn'[c] = [at |-> "closing", to |-> conn[c].to]
      BY <3>1, <1>2
    <3> QED  BY <3>2, <2>1, <1>3
  <2>2. CASE ~lets(c)
    <3>1. conn'[c] = conn[c]
      BY <1>1, <2>2
    <3> QED  BY <3>1, <1>2
  <2> QED  BY <2>1, <2>2
<1>5. ConnShape'
  BY <1>1, <1>4 DEF ConnShape
<1> QED  BY <1>4, <1>5 DEF OnlyCloses

(* The client's own steps.                                                 *)
LEMMA ClientStepCloses == ConnShape /\ ClientStep => OnlyCloses
<1> SUFFICES ASSUME ConnShape, ClientStep PROVE OnlyCloses
  OBVIOUS
<1>1. CASE Requests
  <2>1. UNCHANGED conn
    BY <1>1 DEF Requests, GetUserVerifier, GetGreeter, GetRemoteGreeter, GetChooser, Get,
                OpenReauthenticationChannel
  <2> QED  BY <2>1, UnchangedCloses
<1>2. ASSUME NEW q \in Tasks, Callbacks(q) PROVE OnlyCloses
  <2>1. \E T, C : Becomes(Owner(q), T, C)
    BY <1>2 DEF Callbacks, OnProxyCreated, OnUserVerifierProxyCreated,
                OnUserVerifierExtensionsEnabled, OnChoiceListCreated, Finish, Advance
  <2> QED  BY <2>1, BecomesCloses
<1>3. ASSUME NEW p \in Procs, Unref(p) PROVE OnlyCloses
  <2>1. \E T, C : Becomes(p, T, C)
    BY <1>3 DEF Unref
  <2> QED  BY <2>1, BecomesCloses
<1> QED  BY <1>1, <1>2, <1>3 DEF ClientStep

(* Connect: the server has let the process in.                             *)
LEMMA ConnectKeeps ==
    ASSUME ConnInv, NEW q \in Tasks, Connect(q)
    PROVE  ConnInv'
<1> DEFINE a == task[q].address
<1>1. CASE (a = Login \/ Live(a)) /\ AllowUser(q)
  <2>1. conn' = [conn EXCEPT ![q] = [at |-> "open", to |-> a]]
    BY <1>1 DEF Connect
  <2>2. a = Login \/ SameUser(Owner(q), Owner(a))
    BY <1>1 DEF AllowUser
  <2> HIDE DEF a
  <2>3. ConnShape'
    BY <2>1 DEF ConnInv, ConnShape
  <2>4. \A c \in Tasks : conn'[c] = IF c = q THEN [at |-> "open", to |-> a] ELSE conn[c]
    BY <2>1 DEF ConnInv, ConnShape
  <2>5. OwnChannelOnly'
    BY <2>2, <2>4 DEF ConnInv, OwnChannelOnly, SameUser
  <2> QED  BY <2>3, <2>5 DEF ConnInv
<1>2. CASE ~((a = Login \/ Live(a)) /\ AllowUser(q))
  <2>1. UNCHANGED conn
    BY <1>2 DEF Connect
  <2> QED  BY <2>1, UnchangedCloses, ClosingKeeps DEF ConnInv
<1> QED  BY <1>1, <1>2

LEMMA ClosedCloses ==
    ASSUME ConnShape, NEW c \in Tasks, OnOutsideConnectionClosed(c)
    PROVE  OnlyCloses
<1>1. conn' = [conn EXCEPT ![c].at = "none"]
  BY DEF OnOutsideConnectionClosed
<1> QED  BY <1>1 DEF ConnShape, OnlyCloses

(* Every step keeps the invariant.                                         *)
LEMMA StepKeeps == ConnInv /\ [ChannelsNext]_vars => ConnInv'
<1> SUFFICES ASSUME ConnInv, [ChannelsNext]_vars PROVE ConnInv'
  OBVIOUS
<1>0. ConnShape
  BY DEF ConnInv
<1>1. CASE ClientStep
  BY <1>0, <1>1, ClientStepCloses, ClosingKeeps
<1>2. ASSUME NEW q \in Tasks, Connect(q) PROVE ConnInv'
  BY <1>2, ConnectKeeps
<1>3. ASSUME NEW q \in Tasks, OnOutsideConnectionClosed(q) PROVE ConnInv'
  BY <1>0, <1>3, ClosedCloses, ClosingKeeps
<1>4. ASSUME UNCHANGED conn PROVE ConnInv'
  BY <1>0, <1>4, UnchangedCloses, ClosingKeeps
<1>5. ASSUME NEW q \in Tasks,
             \/ HandleOpenSession(q) \/ StartReauthentication(q) \/ DenyReauthentication(q)
             \/ OpenTemporaryReauthenticationChannel(q) \/ CallTimesOut(q)
             \/ BeginVerification(q) \/ EndsVerification(q) \/ ConversationStops(q)
      PROVE  UNCHANGED conn
  BY <1>5 DEF HandleOpenSession, StartReauthentication, DenyReauthentication,
              OpenTemporaryReauthenticationChannel, CallTimesOut, BeginVerification,
              EndsVerification, ConversationStops, clientVars
<1>6. ASSUME HandleStartReauthentication \/ OnReauthenticationStarted \/ SessionEnds
      PROVE  UNCHANGED conn
  BY <1>6 DEF HandleStartReauthentication, OnReauthenticationStarted, SessionEnds, clientVars
<1>7. CASE UNCHANGED vars
  BY <1>4, <1>7 DEF vars, clientVars
<1> QED  BY <1>1, <1>2, <1>3, <1>4, <1>5, <1>6, <1>7 DEF ChannelsNext, DaemonStep

(* A reauthentication channel is used by a process of its own user only,   *)
(* in whatever way requests overlap and addresses are mixed up.            *)
THEOREM ChannelsAreOwn == ChannelsSpec => []OwnChannelOnly
<1>1. ChannelsInit => ConnInv
  BY DEF ChannelsInit, ClientInit, ConnInv, ConnShape, OwnChannelOnly
<1>2. ConnInv => OwnChannelOnly
  BY DEF ConnInv
<1> QED  BY <1>1, <1>2, StepKeeps, PTL DEF ChannelsSpec
-----------------------------------------------------------------------------
(* TypeOK, and what it rests on.  Requests are numbered, so that a new one *)
(* is none that a table knows; a request is answered by taking it out of   *)
(* the table; and an address is the one of a channel that was asked for.   *)

TaskType ==
    [kind : Interfaces \cup {"reauth", "none"}, sync : BOOLEAN,
     at : {"unused", "asking", "asked", "timeout", "address", "proxy", "extensions", "choice",
           "incomplete", "finish", "done", "failed"},
     address : Tasks \cup {Login, None}, conn : Tasks \cup {None}]

ConnType == [at : {"none", "open", "closing"}, to : Tasks \cup {Login, None}]

(* A connection of process p, or none.                                     *)
OwnConn(p, c) == c = None \/ (c \in Tasks /\ Owner(c) = p)

UsedTasks == {q \in Tasks : task[q].at # "unused"}

ProxyInv ==
    /\ client = [p \in Procs |-> client[p]]
    /\ \A p \in Procs, k \in Interfaces : k \in DOMAIN client[p] /\ OwnConn(p, client[p][k])

TaskInv ==
    /\ task \in [Tasks -> TaskType]
    /\ \A q \in Tasks : /\ OwnConn(Owner(q), task[q].conn)
                        /\ task[q].at = "unused" => task[q].kind = "none"
                        /\ task[q].at = "address" => task[q].address # None

Numbered == IsFiniteSet(UsedTasks) /\ \A q \in UsedTasks : q[2] <= Cardinality(UsedTasks)

WireInv ==
    /\ conn \in [Tasks -> ConnType] /\ \A q \in Tasks : conn[q].at # "none" => conn[q].to # None
    /\ exported \in Tasks \cup {None} /\ slot \in Procs \cup {None}
    /\ starts \in Seq(Tasks) /\ replies \in Seq(Tasks)
    /\ conversing \subseteq Tasks /\ running \in BOOLEAN

(* The tables of the manager and of the worker.                            *)
TableType ==
    /\ requests \in [Procs -> Tasks \cup {None}]
    /\ transients \in [Procs -> Tasks \cup {None}] /\ reauths \in [Procs -> Tasks \cup {None}]

Waiting ==
    \A p \in Procs :
        requests[p] # None => Owner(requests[p]) = p /\ task[requests[p]].at \in {"asked", "timeout"}

(* Channels are of requests for channels.                                  *)
Channel(q) == task[q].kind = "reauth"

Channelled ==
    /\ \A p \in Procs :
          /\ transients[p] # None => Owner(transients[p]) = p /\ Channel(transients[p])
          /\ reauths[p] # None => Owner(reauths[p]) = p /\ Channel(reauths[p])
    /\ \A i \in 1..Len(starts) : Channel(starts[i])

ChannelsInv ==
    ProxyInv /\ TaskInv /\ Numbered /\ WireInv /\ TableType /\ Waiting /\ Channelled

(* One task moves on.                                                      *)
LEMMA TaskMoves ==
    ASSUME TaskInv, Numbered, NEW q \in Tasks, NEW r \in TaskType, task' = [task EXCEPT ![q] = r],
           OwnConn(Owner(q), r.conn), r.at = "address" => r.address # None,
           task[q].at # "unused", r.at # "unused"
    PROVE  TaskInv' /\ Numbered'
<1>0. task \in [Tasks -> TaskType]
  BY DEF TaskInv
<1> HIDE DEF TaskType, Tasks
<1>1. task' \in [Tasks -> TaskType] /\ task'[q] = r /\ \A v \in Tasks \ {q} : task'[v] = task[v]
  BY <1>0
<1>2. TaskInv'
  BY <1>1 DEF TaskInv, OwnConn
<1>3. UsedTasks' = UsedTasks
  BY <1>1 DEF UsedTasks
<1> QED BY <1>2, <1>3 DEF Numbered

(* A request that begins was none before.                                  *)
LEMMA TaskBegins ==
    ASSUME TaskInv, Numbered, NEW q \in Tasks, Fresh(q), NEW r \in TaskType,
           task' = [task EXCEPT ![q] = r], OwnConn(Owner(q), r.conn),
           r.at # "address", r.at # "unused"
    PROVE  TaskInv' /\ Numbered' /\ task[q].at = "unused" /\ task[q].kind = "none"
<1>0. task \in [Tasks -> TaskType]
  BY DEF TaskInv
<1>1. IsFiniteSet(UsedTasks) /\ Cardinality(UsedTasks) \in Nat
  BY FS_CardinalityType DEF Numbered
<1>2. q[2] = 1 + Cardinality(UsedTasks)
  BY DEF Fresh, UsedTasks
<1>3. q \notin UsedTasks
  BY <1>1, <1>2 DEF Numbered
<1>4. task[q].at = "unused" /\ task[q].kind = "none"
  BY <1>3 DEF UsedTasks, TaskInv
<1>n. \A v \in UsedTasks : v[2] \in Nat
  BY DEF UsedTasks, Tasks
<1> HIDE DEF TaskType, Tasks
<1>5. task' \in [Tasks -> TaskType] /\ task'[q] = r /\ \A v \in Tasks \ {q} : task'[v] = task[v]
  BY <1>0
<1>6. TaskInv'
  BY <1>5 DEF TaskInv, OwnConn
<1>7. UsedTasks' = UsedTasks \cup {q}
  BY <1>5 DEF UsedTasks
<1>8. IsFiniteSet(UsedTasks') /\ Cardinality(UsedTasks') = Cardinality(UsedTasks) + 1
  BY <1>1, <1>3, <1>7, FS_AddElement
<1>9. Numbered'
  <2>1. SUFFICES ASSUME NEW v \in UsedTasks' PROVE v[2] <= Cardinality(UsedTasks')
    BY <1>8 DEF Numbered
  <2>2. CASE v = q
    BY <1>1, <1>2, <1>8, <2>2
  <2>3. CASE v \in UsedTasks
    <3>1. v[2] <= Cardinality(UsedTasks) /\ v[2] \in Nat
      BY <1>n, <2>3 DEF Numbered
    <3> QED BY <1>1, <1>8, <3>1
  <2> QED BY <1>7, <2>1, <2>2, <2>3
<1> QED BY <1>4, <1>6, <1>9

(* The tables do not notice, unless it is one they know.                   *)
LEMMA TablesStay ==
    ASSUME TaskInv, TableType, Waiting, Channelled, starts \in Seq(Tasks),
           NEW q \in Tasks, NEW r, task' = [task EXCEPT ![q] = r],
           UNCHANGED <<requests, transients, reauths, starts>>,
           task[q].at \notin {"asked", "timeout"} \/ r.at \in {"asked", "timeout"},
           task[q].kind = "reauth" => r.kind = "reauth"
    PROVE  TableType' /\ Waiting' /\ Channelled'
<1>0. task \in [Tasks -> TaskType]
  BY DEF TaskInv
<1> HIDE DEF TaskType, Tasks
<1>1. task'[q] = r /\ \A v \in Tasks \ {q} : task'[v] = task[v]
  BY <1>0
<1>2. TableType'
  BY DEF TableType
<1>3. Waiting'
  BY <1>1 DEF Waiting, TableType
<1>4. \A v \in Tasks : Channel(v) => Channel(v)'
  BY <1>1 DEF Channel
<1>5. \A i \in 1..Len(starts) : starts[i] \in Tasks
  OBVIOUS
<1>6. Channelled'
  BY <1>4, <1>5 DEF Channelled, TableType
<1> QED BY <1>2, <1>3, <1>6

(* A step of a process p leaves the wire in order.                         *)
LEMMA ProcessStep ==
    ASSUME ProxyInv, WireInv, NEW p \in Procs, NEW T, NEW C, Becomes(p, T, C), UNCHANGED daemonVars,
           \A k \in Interfaces : k \in DOMAIN C /\ OwnConn(p, C[k])
    PROVE  ProxyInv' /\ WireInv'
<1>1. client' = [client EXCEPT ![p] = C]
  BY DEF Becomes
<1>2. ProxyInv'
  BY <1>1 DEF ProxyInv
<1> DEFINE lets(q) == Owner(q) = p /\ conn[q].at = "open" /\ q \notin HeldBy(p, T, C)
<1>3. conn' = [q \in Tasks |-> IF lets(q) THEN [conn[q] EXCEPT !.at = "closing"] ELSE conn[q]]
  BY DEF Becomes
<1> HIDE DEF lets
<1>4. ASSUME NEW q \in Tasks PROVE conn'[q] \in ConnType /\ (conn'[q].at # "none" => conn'[q].to # None)
  <2>1. conn[q] \in ConnType /\ (conn[q].at # "none" => conn[q].to # None)
    BY DEF WireInv
  <2>2. CASE lets(q)
    <3>1. conn'[q] = [conn[q] EXCEPT !.at = "closing"] /\ conn[q].at = "open"
      BY <1>3, <2>2 DEF lets
    <3> HIDE DEF Tasks
    <3> QED BY <2>1, <3>1 DEF ConnType
  <2>3. CASE ~lets(q)
    BY <1>3, <2>1, <2>3
  <2> QED BY <2>2, <2>3
<1>5. conn' \in [Tasks -> ConnType]
  BY <1>3, <1>4
<1>6. WireInv'
  BY <1>4, <1>5 DEF WireInv, daemonVars
<1> QED BY <1>2, <1>6

(* The open connection of a process is one of its own.                     *)
LEMMA OpenConnectionOwn ==
    ASSUME ProxyInv, NEW p \in Procs
    PROVE  OwnConn(p, OpenConnection(client[p]))
<1> DEFINE C == client[p]
           there == {i \in DOMAIN Proxies : C[Proxies[i]] # None}
<1>1. CASE there = {}
  BY <1>1 DEF OpenConnection, OwnConn
<1>2. CASE there # {}
  <2>1. DOMAIN Proxies = 1..4
    BY DEF Proxies
  <2> HIDE DEF Proxies
  <2>2. \E x \in there : \A y \in there : x <= y
    <3>1. there \subseteq 1..4
      BY <2>1
    <3> HIDE DEF there
    <3>2. CASE 1 \in there
      BY <3>1, <3>2
    <3>3. CASE 1 \notin there /\ 2 \in there
      BY <3>1, <3>3
    <3>4. CASE 1 \notin there /\ 2 \notin there /\ 3 \in there
      BY <3>1, <3>4
    <3>5. CASE 1 \notin there /\ 2 \notin there /\ 3 \notin there
      <4>1. ASSUME NEW y \in there PROVE y = 4
        <5>1. y \in 1..4 /\ y # 1 /\ y # 2 /\ y # 3
          BY <3>1, <3>5
        <5> QED BY <5>1
      <4>2. PICK x \in there : TRUE
        BY <1>2
      <4>3. x = 4
        BY <4>1
      <4> QED BY <4>1, <4>3
    <3> QED BY <3>2, <3>3, <3>4, <3>5
  <2> HIDE DEF there
  <2>3. Min(there) \in there
    BY <2>2 DEF Min
  <2>4. Min(there) \in DOMAIN Proxies
    BY <2>3 DEF there
  <2>5. Proxies[Min(there)] \in Interfaces
    BY <2>4 DEF Interfaces
  <2>6. OpenConnection(C) = C[Proxies[Min(there)]]
    BY <1>2 DEF OpenConnection, there
  <2> QED BY <2>5, <2>6 DEF ProxyInv
<1> QED BY <1>1, <1>2

(* A process makes a request.                                              *)
LEMMA RequestKeeps ==
    ASSUME ChannelsInv, NEW q \in Tasks, Fresh(q), NEW r \in TaskType,
           task' = [task EXCEPT ![q] = r], OwnConn(Owner(q), r.conn),
           r.at \in {"asking", "proxy", "finish"}, UNCHANGED <<client, conn, daemonVars>>
    PROVE  ChannelsInv'
<1>0. /\ ProxyInv /\ TaskInv /\ Numbered /\ WireInv /\ TableType /\ Waiting /\ Channelled
      /\ starts \in Seq(Tasks) /\ UNCHANGED <<requests, transients, reauths, starts>>
  BY DEF ChannelsInv, WireInv, daemonVars
<1>1. TaskInv' /\ Numbered' /\ task[q].at = "unused" /\ task[q].kind = "none"
  BY <1>0, TaskBegins
<1>2. TableType' /\ Waiting' /\ Channelled'
  BY <1>0, <1>1, TablesStay
<1>3. ProxyInv' /\ WireInv'
  BY <1>0 DEF ProxyInv, WireInv, daemonVars
<1> QED BY <1>1, <1>2, <1>3 DEF ChannelsInv

LEMMA RequestsKeep ==
    ASSUME ChannelsInv, Requests, UNCHANGED daemonVars
    PROVE  ChannelsInv'
<1>1. ASSUME NEW q \in Tasks, NEW k \in Interfaces, NEW sync \in BOOLEAN, Get(q, k, sync)
      PROVE  ChannelsInv'
  <2> DEFINE C == client[Owner(q)]
             r == [kind |-> k, sync |-> sync, address |-> None,
                   conn |-> IF C[k] # None THEN None ELSE OpenConnection(C),
                   at   |-> IF C[k] # None THEN "finish"
                            ELSE IF OpenConnection(C) # None THEN "proxy" ELSE "asking"]
  <2>1. Owner(q) \in Procs /\ OwnConn(Owner(q), OpenConnection(C))
    BY OpenConnectionOwn DEF Tasks, Owner, ChannelsInv
  <2>2. OwnConn(Owner(q), r.conn) /\ r.conn \in Tasks \cup {None}
    BY <2>1 DEF OwnConn
  <2>3. r \in TaskType /\ r.at \in {"asking", "proxy", "finish"}
    BY <2>2 DEF TaskType
  <2>4. Fresh(q) /\ task' = [task EXCEPT ![q] = r] /\ UNCHANGED <<client, conn>>
    BY <1>1 DEF Get
  <2> HIDE DEF r
  <2> QED BY <2>2, <2>3, <2>4, RequestKeeps
<1>2. ASSUME NEW q \in Tasks, NEW sync \in BOOLEAN, OpenReauthenticationChannel(q, sync)
      PROVE  ChannelsInv'
  <2> DEFINE r == [task[q] EXCEPT !.kind = "reauth", !.sync = sync, !.at = "asking"]
  <2>1. task[q] \in TaskType /\ OwnConn(Owner(q), task[q].conn)
    BY DEF ChannelsInv, TaskInv
  <2>2. r \in TaskType /\ r.at = "asking" /\ r.conn = task[q].conn
    <3> HIDE DEF Tasks, Interfaces
    <3> QED BY <2>1 DEF TaskType
  <2>3. Fresh(q) /\ task' = [task EXCEPT ![q] = r] /\ UNCHANGED <<client, conn>>
    BY <1>2 DEF OpenReauthenticationChannel
  <2> HIDE DEF r
  <2> QED BY <2>1, <2>2, <2>3, RequestKeeps
<1>3. {"user_verifier", "greeter", "remote_greeter", "chooser"} \subseteq Interfaces
  <2>1. /\ DOMAIN Proxies = 1..4 /\ Proxies[1] = "user_verifier" /\ Proxies[2] = "greeter"
        /\ Proxies[3] = "remote_greeter" /\ Proxies[4] = "chooser"
    BY DEF Proxies
  <2> QED BY <2>1 DEF Interfaces
<1> QED BY <1>1, <1>2, <1>3 DEF Requests, GetUserVerifier, GetGreeter, GetRemoteGreeter, GetChooser

(* A task of a process moves on, and its object with it.                   *)
LEMMA AdvanceKeeps ==
    ASSUME ChannelsInv, NEW q \in Tasks, NEW C,
           NEW a \in {"extensions", "choice", "incomplete", "finish", "done", "failed"},
           task[q].at \in {"proxy", "extensions", "choice", "finish"},
           Becomes(Owner(q), [task EXCEPT ![q].at = a], C), UNCHANGED daemonVars,
           \A k \in Interfaces : k \in DOMAIN C /\ OwnConn(Owner(q), C[k])
    PROVE  ChannelsInv'
<1> DEFINE r == [task[q] EXCEPT !.at = a]
<1>0. /\ ProxyInv /\ TaskInv /\ Numbered /\ WireInv /\ TableType /\ Waiting /\ Channelled
      /\ starts \in Seq(Tasks) /\ UNCHANGED <<requests, transients, reauths, starts>>
  BY DEF ChannelsInv, WireInv, daemonVars
<1>1. task[q] \in TaskType /\ OwnConn(Owner(q), task[q].conn) /\ Owner(q) \in Procs
  BY <1>0 DEF TaskInv, Tasks, Owner
<1>2. r \in TaskType /\ r.at = a /\ r.conn = task[q].conn /\ r.kind = task[q].kind
  <2> HIDE DEF Tasks, Interfaces
  <2> QED BY <1>1 DEF TaskType
<1>3. task' = [task EXCEPT ![q] = r]
  BY DEF Becomes
<1> HIDE DEF r
<1>4. TaskInv' /\ Numbered'
  BY <1>0, <1>1, <1>2, <1>3, TaskMoves
<1>5. TableType' /\ Waiting' /\ Channelled'
  BY <1>0, <1>2, <1>3, TablesStay
<1>6. ProxyInv' /\ WireInv'
  BY <1>0, <1>1, ProcessStep
<1> QED BY <1>4, <1>5, <1>6 DEF ChannelsInv

LEMMA CallbacksKeep ==
    ASSUME ChannelsInv, NEW q \in Tasks, Callbacks(q), UNCHANGED daemonVars
    PROVE  ChannelsInv'
<1> DEFINE p == Owner(q)
           C == client[p]
           Own(D) == \A k \in Interfaces : k \in DOMAIN D /\ OwnConn(p, D[k])
<1>0. Own(C) /\ task[q] \in TaskType /\ OwnConn(p, task[q].conn) /\ p \in Procs
  BY DEF ChannelsInv, ProxyInv, TaskInv, Tasks, Owner
<1>k. "choice" \notin Interfaces /\ "reauth" \notin Interfaces
  BY DEF Interfaces, Proxies
<1>c. \A c : Own([C EXCEPT !.choice = c]) /\ Own([C EXCEPT !.reauth = c])
  BY <1>0, <1>k
<1>i. ASSUME NEW k \in Interfaces PROVE Own([C EXCEPT ![k] = task[q].conn])
  BY <1>0
<1> HIDE DEF Interfaces
<1>1. ASSUME NEW a \in {"failed", "finish"}, task[q].at \in {"proxy", "extensions"}, Advance(q, a)
      PROVE  ChannelsInv'
  BY <1>0, <1>1, AdvanceKeeps DEF Advance
<1>2. CASE OnProxyCreated(q)
  BY <1>1, <1>2 DEF OnProxyCreated
<1>3. CASE OnUserVerifierProxyCreated(q)
  <2>1. task[q].at = "proxy" /\ Becomes(p, [task EXCEPT ![q].at = "extensions"], [C EXCEPT !.choice = None])
    BY <1>3 DEF OnUserVerifierProxyCreated
  <2> QED BY <1>c, <2>1, AdvanceKeeps
<1>4. CASE OnUserVerifierExtensionsEnabled(q)
  <2>1. task[q].at = "extensions"
    BY <1>4 DEF OnUserVerifierExtensionsEnabled
  <2>2. CASE Advance(q, "finish")
    BY <1>1, <2>1, <2>2
  <2>3. CASE ~Advance(q, "finish")
    <3> DEFINE c == IF task[q].sync THEN None ELSE <<>>
    <3>1. Becomes(p, [task EXCEPT ![q].at = "choice"], [C EXCEPT !.choice = c])
      BY <1>4, <2>3 DEF OnUserVerifierExtensionsEnabled
    <3>2. Own([C EXCEPT !.choice = c])
      BY <1>c
    <3> HIDE DEF c
    <3> QED BY <2>1, <3>1, <3>2, AdvanceKeeps
  <2> QED BY <2>2, <2>3
<1>5. CASE OnChoiceListCreated(q)
  <2>1. PICK c : Becomes(p, [task EXCEPT ![q].at = IF c = <<>> THEN "incomplete" ELSE "finish"],
                         [C EXCEPT !.choice = c])
    BY <1>5 DEF OnChoiceListCreated
  <2>2. task[q].at = "choice"
    BY <1>5 DEF OnChoiceListCreated
  <2> DEFINE a == IF c = <<>> THEN "incomplete" ELSE "finish"
  <2>3. a \in {"incomplete", "finish"}
    OBVIOUS
  <2>4. Becomes(p, [task EXCEPT ![q].at = a], [C EXCEPT !.choice = c])
    BY <2>1
  <2>5. Own([C EXCEPT !.choice = c])
    BY <1>c
  <2> HIDE DEF a
  <2>6. a \in {"extensions", "choice", "incomplete", "finish", "done", "failed"}
    BY <2>3
  <2> QED BY <2>2, <2>4, <2>5, <2>6, AdvanceKeeps
<1>6. CASE Finish(q)
  <2> DEFINE k == task[q].kind
             D == IF k = "reauth" THEN [C EXCEPT !.reauth = @ \cup {task[q].conn}]
                  ELSE IF C[k] # None THEN C ELSE [C EXCEPT ![k] = task[q].conn]
  <2>1. task[q].at = "finish" /\ Becomes(p, [task EXCEPT ![q].at = "done"], D)
    BY <1>6 DEF Finish
  <2>2. k \in Interfaces \cup {"reauth", "none"}
    BY <1>0 DEF TaskType
  <2>3. Own(D)
    <3>1. CASE k = "reauth"
      BY <1>c, <3>1
    <3>2. CASE k \in Interfaces
      BY <1>0, <1>i, <1>k, <3>2
    <3>3. CASE k = "none"
      <4>1. "none" \notin Interfaces
        BY DEF Interfaces, Proxies
      <4> QED BY <1>0, <3>3, <4>1
    <3> QED BY <2>2, <3>1, <3>2, <3>3
  <2> HIDE DEF D
  <2> QED BY <2>1, <2>3, AdvanceKeeps
<1> QED BY <1>2, <1>3, <1>4, <1>5, <1>6 DEF Callbacks

(* A process drops a proxy.                                                *)
LEMMA UnrefKeeps ==
    ASSUME ChannelsInv, NEW p \in Procs, Unref(p), UNCHANGED daemonVars
    PROVE  ChannelsInv'
<1> DEFINE C == client[p]
           Own(D) == \A k \in Interfaces : k \in DOMAIN D /\ OwnConn(p, D[k])
<1>0. /\ ProxyInv /\ TaskInv /\ Numbered /\ WireInv /\ TableType /\ Waiting /\ Channelled /\ Own(C)
  BY DEF ChannelsInv, ProxyInv
<1>k. "reauth" \notin Interfaces
  BY DEF Interfaces, Proxies
<1>1. \E D : Becomes(p, task, D) /\ Own(D)
  <2>1. ASSUME NEW k \in Interfaces PROVE Own([C EXCEPT ![k] = None])
    BY <1>0 DEF OwnConn
  <2>2. \A c : Own([C EXCEPT !.reauth = c])
    BY <1>0, <1>k
  <2>3. CASE \E k \in Interfaces : Becomes(p, task, [client[p] EXCEPT ![k] = None])
    BY <2>1, <2>3
  <2>4. CASE \E c \in client[p].reauth : Becomes(p, task, [client[p] EXCEPT !.reauth = @ \ {c}])
    BY <2>2, <2>4
  <2> QED BY <2>3, <2>4 DEF Unref
<1>d. PICK D : Becomes(p, task, D) /\ Own(D)
  BY <1>1
<1>2. ProxyInv' /\ WireInv' /\ task' = task
  <2>1. task' = task
    BY <1>d DEF Becomes
  <2>2. ProxyInv' /\ WireInv'
    BY <1>0, <1>d, ProcessStep
  <2> QED BY <2>1, <2>2
<1>3. TaskInv' /\ Numbered' /\ TableType' /\ Waiting' /\ Channelled'
  BY <1>0, <1>2 DEF TaskInv, Numbered, UsedTasks, TableType, Waiting, Channelled, Channel, daemonVars
<1> QED BY <1>2, <1>3 DEF ChannelsInv

(* The daemon answers a request, or its caller gives up or connects: one   *)
(* task moves on and no table changes.                                     *)
LEMMA MoveKeeps ==
    ASSUME ChannelsInv, NEW q \in Tasks, NEW r \in TaskType, task' = [task EXCEPT ![q] = r],
           OwnConn(Owner(q), r.conn), r.kind = task[q].kind, r.at = "address" => r.address # None,
           task[q].at # "unused", r.at # "unused",
           task[q].at \notin {"asked", "timeout"} \/ r.at \in {"asked", "timeout"},
           UNCHANGED <<client, requests, transients, reauths, starts>>, WireInv'
    PROVE  ChannelsInv'
<1>0. /\ ProxyInv /\ TaskInv /\ Numbered /\ WireInv /\ TableType /\ Waiting /\ Channelled
      /\ starts \in Seq(Tasks)
  BY DEF ChannelsInv, WireInv
<1>1. TaskInv' /\ Numbered'
  BY <1>0, TaskMoves
<1>2. TableType' /\ Waiting' /\ Channelled'
  BY <1>0, TablesStay
<1>3. ProxyInv'
  BY <1>0 DEF ProxyInv
<1> QED BY <1>1, <1>2, <1>3 DEF ChannelsInv

(* The record of a task that is answered.                                  *)
LEMMA AnswerType ==
    ASSUME TaskInv, NEW q \in Tasks, NEW address \in Tasks \cup {Login, None}, Answer(q, address)
    PROVE  \E r \in TaskType :
             /\ task' = [task EXCEPT ![q] = r] /\ OwnConn(Owner(q), r.conn) /\ r.kind = task[q].kind
             /\ r.at \in {"failed", "address"} /\ (r.at = "address" => r.address # None)
<1> DEFINE a == IF address = None THEN "failed" ELSE "address"
           r == [task[q] EXCEPT !.at = a, !.address = address]
<1>1. task[q] \in TaskType /\ OwnConn(Owner(q), task[q].conn)
  BY DEF TaskInv
<1>2. a \in {"failed", "address"} /\ (a = "address" => address # None)
  OBVIOUS
<1>3. task' = [task EXCEPT ![q] = r]
  BY DEF Answer
<1> HIDE DEF a, Tasks, Interfaces
<1>4. r \in TaskType /\ r.at = a /\ r.address = address /\ r.conn = task[q].conn /\ r.kind = task[q].kind
  BY <1>1, <1>2 DEF TaskType
<1> HIDE DEF r
<1> QED BY <1>1, <1>2, <1>3, <1>4

LEMMA HandleOpenSessionKeeps ==
    ASSUME ChannelsInv, NEW q \in Tasks, HandleOpenSession(q) \/ DenyReauthentication(q)
    PROVE  ChannelsInv'
<1>1. PICK address \in {Login, None} : Answer(q, address)
  BY DEF HandleOpenSession, DenyReauthentication
<1>2. task[q].at = "asking" /\ UNCHANGED <<client, conn, daemonVars>>
  BY DEF HandleOpenSession, DenyReauthentication, Asks
<1>3. TaskInv /\ WireInv
  BY DEF ChannelsInv
<1>4. PICK r \in TaskType :
             /\ task' = [task EXCEPT ![q] = r] /\ OwnConn(Owner(q), r.conn) /\ r.kind = task[q].kind
             /\ r.at \in {"failed", "address"} /\ (r.at = "address" => r.address # None)
  BY <1>1, <1>3, AnswerType
<1>5. WireInv' /\ UNCHANGED <<client, requests, transients, reauths, starts>>
  BY <1>2, <1>3 DEF WireInv, daemonVars
<1> QED BY <1>2, <1>4, <1>5, MoveKeeps

LEMMA CallTimesOutKeeps ==
    ASSUME ChannelsInv, NEW q \in Tasks, CallTimesOut(q)
    PROVE  ChannelsInv'
<1> DEFINE r == [task[q] EXCEPT !.at = "timeout"]
<1>1. task[q] \in TaskType /\ OwnConn(Owner(q), task[q].conn) /\ WireInv
  BY DEF ChannelsInv, TaskInv
<1>2. task[q].at = "asked" /\ task' = [task EXCEPT ![q] = r] /\ UNCHANGED <<client, conn, daemonVars>>
  BY DEF CallTimesOut
<1>3. r \in TaskType /\ r.at = "timeout" /\ r.conn = task[q].conn /\ r.kind = task[q].kind
  <2> HIDE DEF Tasks, Interfaces
  <2> QED BY <1>1 DEF TaskType
<1> HIDE DEF r
<1>4. WireInv' /\ UNCHANGED <<client, requests, transients, reauths, starts>>
  BY <1>1, <1>2 DEF WireInv, daemonVars
<1> QED BY <1>1, <1>2, <1>3, <1>4, MoveKeeps

LEMMA ConnectTyped ==
    ASSUME ChannelsInv, NEW q \in Tasks, Connect(q)
    PROVE  ChannelsInv'
<1> DEFINE a == task[q].address
<1>0. /\ task[q] \in TaskType /\ OwnConn(Owner(q), task[q].conn) /\ WireInv
      /\ task[q].at = "address" => a # None
  BY DEF ChannelsInv, TaskInv
<1>1. /\ task[q].at = "address"
      /\ UNCHANGED <<client, requests, transients, slot, starts, replies, reauths, conversing, running>>
  BY DEF Connect
<1>2. CASE (a = Login \/ Live(a)) /\ AllowUser(q)
  <2> DEFINE r == [task[q] EXCEPT !.at = "proxy", !.conn = q]
  <2>1. /\ task' = [task EXCEPT ![q] = r]
        /\ conn' = [conn EXCEPT ![q] = [at |-> "open", to |-> a]]
        /\ exported' = IF a = Login THEN q ELSE exported
    BY <1>2 DEF Connect
  <2>2. r \in TaskType /\ r.at = "proxy" /\ r.conn = q /\ r.kind = task[q].kind /\ a \in Tasks \cup {Login, None}
    <3> HIDE DEF Tasks, Interfaces
    <3> QED BY <1>0 DEF TaskType
  <2> HIDE DEF r, a, Tasks
  <2>3. [at |-> "open", to |-> a] \in ConnType /\ a # None
    BY <1>0, <1>1, <2>2 DEF ConnType
  <2>4. WireInv'
    <3>1. conn' \in [Tasks -> ConnType]
      BY <1>0, <2>1, <2>3 DEF WireInv
    <3>2. \A c \in Tasks : conn'[c].at # "none" => conn'[c].to # None
      BY <1>0, <2>1, <2>3 DEF WireInv
    <3>3. exported' \in Tasks \cup {None}
      BY <1>0, <2>1 DEF WireInv
    <3> QED BY <1>0, <1>1, <3>1, <3>2, <3>3 DEF WireInv
  <2>5. OwnConn(Owner(q), r.conn)
    BY <2>2 DEF OwnConn
  <2> QED BY <1>1, <2>1, <2>2, <2>4, <2>5, MoveKeeps
<1>3. CASE ~((a = Login \/ Live(a)) /\ AllowUser(q))
  <2> DEFINE r == [task[q] EXCEPT !.at = "failed"]
  <2>1. task' = [task EXCEPT ![q] = r] /\ UNCHANGED <<conn, exported>>
    BY <1>3 DEF Connect
  <2>2. r \in TaskType /\ r.at = "failed" /\ r.conn = task[q].conn /\ r.kind = task[q].kind
    <3> HIDE DEF Tasks, Interfaces
    <3> QED BY <1>0 DEF TaskType
  <2> HIDE DEF r, a
  <2>3. WireInv'
    BY <1>0, <1>1, <2>1 DEF WireInv
  <2> QED BY <1>0, <1>1, <2>1, <2>2, <2>3, MoveKeeps
<1> QED BY <1>2, <1>3

(* The worker of the session is asked for a channel.                       *)
LEMMA StartReauthenticationKeeps ==
    ASSUME ChannelsInv, NEW q \in Tasks, StartReauthentication(q)
    PROVE  ChannelsInv'
<1> DEFINE r == [task[q] EXCEPT !.at = "asked"]
<1>0. /\ ProxyInv /\ TaskInv /\ Numbered /\ WireInv /\ TableType /\ Waiting /\ Channelled
      /\ task[q] \in TaskType /\ OwnConn(Owner(q), task[q].conn) /\ Owner(q) \in Procs
  BY DEF ChannelsInv, TaskInv, Tasks, Owner
<1>1. /\ task[q].at = "asking" /\ task[q].kind = "reauth" /\ task' = [task EXCEPT ![q] = r]
      /\ slot' = Owner(q) /\ starts' = Append(starts, q)
      /\ requests' = [requests EXCEPT ![Owner(q)] = q]
      /\ UNCHANGED <<client, conn, exported, transients, replies, reauths, conversing, running>>
  BY DEF StartReauthentication, Asks
<1>2. r \in TaskType /\ r.at = "asked" /\ r.conn = task[q].conn /\ r.kind = "reauth"
  <2> HIDE DEF Tasks, Interfaces
  <2> QED BY <1>0, <1>1 DEF TaskType
<1> HIDE DEF r, Tasks, TaskType, Owner
<1>3. TaskInv' /\ Numbered'
  BY <1>0, <1>1, <1>2, TaskMoves
<1>4. ProxyInv'
  BY <1>0, <1>1 DEF ProxyInv
<1>5. WireInv'
  BY <1>0, <1>1 DEF WireInv
<1>6. TableType'
  BY <1>0, <1>1 DEF TableType
<1>7. task'[q] = r /\ \A v \in Tasks \ {q} : task'[v] = task[v]
  BY <1>0, <1>1 DEF TaskInv
<1>8. Waiting'
  BY <1>0, <1>1, <1>2, <1>7 DEF Waiting, TableType
<1>9. \A v \in Tasks : Channel(v) => Channel(v)'
  BY <1>2, <1>7 DEF Channel
<1>10. \A i \in 1..Len(starts') : task'[starts'[i]].kind = "reauth"
  <2>1. SUFFICES ASSUME NEW i \in 1..Len(starts') PROVE task'[starts'[i]].kind = "reauth"
    OBVIOUS
  <2>2. starts \in Seq(Tasks) /\ Len(starts') = Len(starts) + 1
    BY <1>0, <1>1 DEF WireInv
  <2>3. CASE i = Len(starts) + 1
    BY <1>1, <1>2, <1>7, <2>2, <2>3 DEF Channel
  <2>4. CASE i \in 1..Len(starts)
    <3>1. starts'[i] = starts[i] /\ starts[i] \in Tasks
      BY <1>1, <2>2, <2>4
    <3> QED BY <1>0, <1>9, <2>4, <3>1 DEF Channelled, Channel
  <2> QED BY <2>2, <2>3, <2>4
<1>11. Channelled'
  <2>1. \A p \in Procs :
          /\ transients'[p] # None => Owner(transients'[p]) = p /\ task'[transients'[p]].kind = "reauth"
          /\ reauths'[p] # None => Owner(reauths'[p]) = p /\ task'[reauths'[p]].kind = "reauth"
    BY <1>0, <1>1, <1>9 DEF Channelled, TableType, Channel
  <2> QED BY <1>10, <2>1 DEF Channelled, Channel
<1> QED BY <1>3, <1>4, <1>5, <1>6, <1>8, <1>11 DEF ChannelsInv

(* The manager opens a channel itself.                                     *)
LEMMA OpenTemporaryKeeps ==
    ASSUME ChannelsInv, NEW q \in Tasks, OpenTemporaryReauthenticationChannel(q)
    PROVE  ChannelsInv'
<1>0. /\ ProxyInv /\ TaskInv /\ Numbered /\ WireInv /\ TableType /\ Waiting /\ Channelled
      /\ Owner(q) \in Procs
  BY DEF ChannelsInv, Tasks, Owner
<1>1. /\ task[q].at = "asking" /\ task[q].kind = "reauth" /\ Answer(q, q)
      /\ transients' = [transients EXCEPT ![Owner(q)] = q]
      /\ UNCHANGED <<client, conn, exported, requests, slot, starts, replies, reauths, conversing, running>>
  BY DEF OpenTemporaryReauthenticationChannel, Asks
<1>2. PICK r \in TaskType :
             /\ task' = [task EXCEPT ![q] = r] /\ OwnConn(Owner(q), r.conn) /\ r.kind = task[q].kind
             /\ r.at \in {"failed", "address"} /\ (r.at = "address" => r.address # None)
  BY <1>0, <1>1, AnswerType
<1> HIDE DEF Tasks, TaskType, Owner
<1>3. TaskInv' /\ Numbered'
  BY <1>0, <1>1, <1>2, TaskMoves
<1>4. ProxyInv'
  BY <1>0, <1>1 DEF ProxyInv
<1>5. WireInv'
  BY <1>0, <1>1 DEF WireInv
<1>6. TableType'
  BY <1>0, <1>1 DEF TableType
<1>7. task'[q] = r /\ \A v \in Tasks \ {q} : task'[v] = task[v]
  BY <1>0, <1>2 DEF TaskInv
<1>8. Waiting'
  BY <1>0, <1>1, <1>7 DEF Waiting, TableType
<1>9. \A v \in Tasks : Channel(v) => Channel(v)'
  BY <1>2, <1>7 DEF Channel
<1>10. Channel(q)'
  BY <1>1, <1>2, <1>7 DEF Channel
<1>11. \A i \in 1..Len(starts) : starts[i] \in Tasks
  BY <1>0 DEF WireInv
<1>12. Channelled'
  BY <1>0, <1>1, <1>9, <1>10, <1>11 DEF Channelled, TableType
<1> QED BY <1>3, <1>4, <1>5, <1>6, <1>8, <1>12 DEF ChannelsInv

(* No task moves and no request is answered.                               *)
LEMMA IdleKeeps ==
    ASSUME ChannelsInv, UNCHANGED <<task, client, requests>>, WireInv', TableType', Channelled'
    PROVE  ChannelsInv'
<1>1. ProxyInv' /\ TaskInv' /\ Numbered'
  BY DEF ChannelsInv, ProxyInv, TaskInv, Numbered, UsedTasks
<1>2. Waiting'
  BY DEF ChannelsInv, Waiting
<1> QED BY <1>1, <1>2 DEF ChannelsInv

(* The worker opens a channel.                                             *)
LEMMA HandleStartKeeps ==
    ASSUME ChannelsInv, HandleStartReauthentication
    PROVE  ChannelsInv'
<1> DEFINE q == Head(starts)
<1>0. WireInv /\ TableType /\ Channelled
  BY DEF ChannelsInv
<1>1. /\ starts # <<>> /\ starts' = Tail(starts) /\ replies' = Append(replies, q)
      /\ reauths' = [reauths EXCEPT ![Owner(q)] = q]
      /\ UNCHANGED <<task, client, conn, exported, requests, transients, slot, conversing, running>>
  BY DEF HandleStartReauthentication, clientVars
<1>2. starts \in Seq(Tasks) /\ q \in Tasks /\ q = starts[1] /\ 1 \in 1..Len(starts)
  BY <1>0, <1>1 DEF WireInv
<1>3. Owner(q) \in Procs
  BY <1>2 DEF Tasks, Owner
<1>4. Channel(q)
  BY <1>0, <1>2 DEF Channelled
<1> HIDE DEF q, Tasks, Owner
<1>5. WireInv'
  BY <1>0, <1>1, <1>2 DEF WireInv
<1>6. TableType'
  BY <1>0, <1>1, <1>2, <1>3 DEF TableType
<1>7. ASSUME NEW i \in 1..Len(starts') PROVE Channel(starts'[i])
  <2>1. starts'[i] = starts[i + 1] /\ i + 1 \in 1..Len(starts)
    BY <1>1, <1>2
  <2> QED BY <1>0, <2>1 DEF Channelled
<1>8. Channelled'
  BY <1>0, <1>1, <1>3, <1>4, <1>7 DEF Channelled, Channel, TableType
<1> QED BY <1>1, <1>5, <1>6, <1>8, IdleKeeps

(* The request that the slot names is answered and leaves the table.       *)
LEMMA OnStartedKeeps ==
    ASSUME ChannelsInv, OnReauthenticationStarted
    PROVE  ChannelsInv'
<1>0. /\ ProxyInv /\ TaskInv /\ Numbered /\ WireInv /\ TableType /\ Waiting /\ Channelled
  BY DEF ChannelsInv
<1>1. /\ replies # <<>> /\ replies' = Tail(replies) /\ slot' = None
      /\ UNCHANGED <<client, conn, exported, transients, starts, reauths, conversing, running>>
  BY DEF OnReauthenticationStarted
<1>2. replies \in Seq(Tasks) /\ Head(replies) \in Tasks /\ Tail(replies) \in Seq(Tasks)
  BY <1>0, <1>1 DEF WireInv
<1>3. WireInv'
  BY <1>0, <1>1, <1>2 DEF WireInv
<1>4. ProxyInv'
  BY <1>0, <1>1 DEF ProxyInv
<1>5. CASE slot # None /\ requests[slot] # None
  <2> DEFINE q == requests[slot]
  <2>1. Answer(q, Head(replies)) /\ requests' = [requests EXCEPT ![slot] = None]
    BY <1>5 DEF OnReauthenticationStarted
  <2>2. q \in Tasks /\ Owner(q) = slot /\ task[q].at \in {"asked", "timeout"} /\ slot \in Procs
    BY <1>0, <1>5 DEF WireInv, TableType, Waiting
  <2> HIDE DEF q
  <2>3. PICK r \in TaskType :
             /\ task' = [task EXCEPT ![q] = r] /\ OwnConn(Owner(q), r.conn) /\ r.kind = task[q].kind
             /\ r.at \in {"failed", "address"} /\ (r.at = "address" => r.address # None)
    BY <1>0, <1>2, <2>1, <2>2, AnswerType
  <2> HIDE DEF Tasks, TaskType, Owner
  <2>4. TaskInv' /\ Numbered'
    BY <1>0, <2>2, <2>3, TaskMoves
  <2>5. TableType'
    BY <1>0, <1>1, <2>1 DEF TableType
  <2>6. task'[q] = r /\ \A v \in Tasks \ {q} : task'[v] = task[v]
    BY <1>0, <2>2, <2>3 DEF TaskInv
  <2>7. Waiting'
    <3>1. SUFFICES ASSUME NEW p \in Procs, requests'[p] # None
                   PROVE  Owner(requests'[p]) = p /\ task'[requests'[p]].at \in {"asked", "timeout"}
      BY DEF Waiting
    <3>2. p # slot /\ requests'[p] = requests[p]
      BY <1>0, <2>1, <2>2, <3>1 DEF TableType
    <3>3. Owner(requests[p]) = p /\ task[requests[p]].at \in {"asked", "timeout"} /\ requests[p] \in Tasks
      BY <1>0, <3>1, <3>2 DEF Waiting, TableType
    <3> QED BY <2>2, <2>6, <3>2, <3>3
  <2>8. \A v \in Tasks : Channel(v) => Channel(v)'
    BY <2>3, <2>6 DEF Channel
  <2>9. \A i \in 1..Len(starts) : starts[i] \in Tasks
    BY <1>0 DEF WireInv
  <2>10. Channelled'
    BY <1>0, <1>1, <2>8, <2>9 DEF Channelled, TableType
  <2> QED BY <1>3, <1>4, <2>4, <2>5, <2>7, <2>10 DEF ChannelsInv
<1>6. CASE ~(slot # None /\ requests[slot] # None)
  <2>1. UNCHANGED <<task, requests>>
    BY <1>6 DEF OnReauthenticationStarted
  <2>2. TableType' /\ Channelled'
    BY <1>0, <1>1, <2>1 DEF TableType, Channelled, Channel
  <2> QED BY <1>1, <1>3, <2>1, <2>2, IdleKeeps
<1> QED BY <1>5, <1>6

(* A table gives up an entry.                                              *)
LEMMA ClearKeeps ==
    ASSUME TableType, Channelled, UNCHANGED <<task, requests, starts>>,
           \A p \in Procs : transients'[p] \in {transients[p], None} /\ reauths'[p] \in {reauths[p], None},
           transients' = [p \in Procs |-> transients'[p]], reauths' = [p \in Procs |-> reauths'[p]]
    PROVE  TableType' /\ Channelled'
<1> HIDE DEF Tasks
<1>1. TableType'
  BY DEF TableType
<1>2. ASSUME NEW p \in Procs
      PROVE  /\ transients'[p] # None => Owner(transients'[p]) = p /\ task'[transients'[p]].kind = "reauth"
             /\ reauths'[p] # None => Owner(reauths'[p]) = p /\ task'[reauths'[p]].kind = "reauth"
  BY DEF Channelled, Channel
<1>3. \A i \in 1..Len(starts') : task'[starts'[i]].kind = "reauth"
  BY DEF Channelled, Channel
<1> QED BY <1>1, <1>2, <1>3 DEF Channelled, Channel

LEMMA ClosedKeeps ==
    ASSUME ChannelsInv, NEW c \in Tasks, OnOutsideConnectionClosed(c)
    PROVE  ChannelsInv'
<1> DEFINE a == conn[c].to
<1>0. WireInv /\ TableType /\ Channelled
  BY DEF ChannelsInv
<1>1. /\ conn' = [conn EXCEPT ![c].at = "none"]
      /\ UNCHANGED <<task, client, exported, requests, slot, starts, replies, running>>
  BY DEF OnOutsideConnectionClosed
<1>2. /\ conversing' \subseteq conversing
      /\ transients' = transients \/ transients' = [transients EXCEPT ![Owner(a)] = None]
      /\ reauths' = reauths \/ reauths' = [reauths EXCEPT ![Owner(c)] = None]
  BY DEF OnOutsideConnectionClosed, CloseTransientSession
<1> HIDE DEF a, Tasks
<1>3. WireInv'
  <2>1. conn[c] \in ConnType
    BY <1>0 DEF WireInv
  <2>2. [conn[c] EXCEPT !.at = "none"] \in ConnType
    BY <2>1 DEF ConnType
  <2>3. conn' = [conn EXCEPT ![c] = [conn[c] EXCEPT !.at = "none"]]
    BY <1>1
  <2>4. conn' \in [Tasks -> ConnType]
    BY <1>0, <2>2, <2>3 DEF WireInv
  <2>5. \A v \in Tasks : conn'[v].at # "none" => conn'[v].to # None
    BY <1>0, <1>1 DEF WireInv, ConnType
  <2> QED BY <1>0, <1>1, <1>2, <2>4, <2>5 DEF WireInv
<1>4. TableType' /\ Channelled'
  <2>1. \A p \in Procs : transients'[p] \in {transients[p], None} /\ reauths'[p] \in {reauths[p], None}
    BY <1>0, <1>2 DEF TableType
  <2>2. transients' = [p \in Procs |-> transients'[p]] /\ reauths' = [p \in Procs |-> reauths'[p]]
    BY <1>0, <1>2 DEF TableType
  <2> QED BY <1>0, <1>1, <2>1, <2>2, ClearKeeps
<1> QED BY <1>1, <1>3, <1>4, IdleKeeps

LEMMA VerificationKeeps ==
    ASSUME ChannelsInv, NEW q \in Tasks,
           BeginVerification(q) \/ EndsVerification(q) \/ ConversationStops(q)
    PROVE  ChannelsInv'
<1>0. WireInv /\ TableType /\ Channelled
  BY DEF ChannelsInv
<1>1. UNCHANGED <<task, client, conn, exported, requests, slot, starts, replies, reauths, running>>
  BY DEF BeginVerification, EndsVerification, ConversationStops, clientVars
<1>2. transients' = transients \/ transients' = [transients EXCEPT ![Owner(q)] = None]
  BY DEF BeginVerification, EndsVerification, ConversationStops, CloseTransientSession
<1>3. conversing' \subseteq Tasks
  <2>1. CASE BeginVerification(q)
    <3>1. conn[q].at = "open" /\ conn[q].to # Login /\ conversing' = conversing \cup {conn[q].to}
      BY <2>1 DEF BeginVerification, IsOpen
    <3>2. conn[q].to \in Tasks
      <4> HIDE DEF Tasks
      <4> QED BY <1>0, <3>1 DEF WireInv, ConnType
    <3> QED BY <1>0, <3>1, <3>2 DEF WireInv
  <2>2. CASE EndsVerification(q) \/ ConversationStops(q)
    BY <1>0, <2>2 DEF EndsVerification, ConversationStops, CloseTransientSession, WireInv
  <2> QED BY <2>1, <2>2
<1> HIDE DEF Tasks
<1>4. WireInv'
  BY <1>0, <1>1, <1>3 DEF WireInv
<1>5. TableType' /\ Channelled'
  <2>1. \A p \in Procs : transients'[p] \in {transients[p], None} /\ reauths'[p] \in {reauths[p], None}
    BY <1>0, <1>1, <1>2 DEF TableType
  <2>2. transients' = [p \in Procs |-> transients'[p]] /\ reauths' = [p \in Procs |-> reauths'[p]]
    BY <1>0, <1>1, <1>2 DEF TableType
  <2> QED BY <1>0, <1>1, <2>1, <2>2, ClearKeeps
<1> QED BY <1>1, <1>4, <1>5, IdleKeeps

LEMMA SessionEndsKeeps ==
    ASSUME ChannelsInv, SessionEnds
    PROVE  ChannelsInv'
<1>0. WireInv /\ TableType /\ Channelled
  BY DEF ChannelsInv
<1>1. /\ running' = FALSE /\ reauths' = [p \in Procs |-> None]
      /\ starts' = <<>> /\ replies' = <<>> /\ slot' = None /\ conversing' \subseteq conversing
      /\ UNCHANGED <<task, client, conn, exported, requests, transients>>
  BY DEF SessionEnds, clientVars
<1> HIDE DEF Tasks
<1>2. WireInv'
  <2>1. starts' \in Seq(Tasks) /\ replies' \in Seq(Tasks)
    BY <1>1
  <2>2. conversing' \subseteq Tasks /\ slot' \in Procs \cup {None} /\ running' \in BOOLEAN
    BY <1>0, <1>1 DEF WireInv
  <2> QED BY <1>0, <1>1, <2>1, <2>2 DEF WireInv
<1>3. TableType'
  BY <1>0, <1>1 DEF TableType
<1>4. Channelled'
  BY <1>0, <1>1 DEF Channelled, Channel
<1> QED BY <1>1, <1>2, <1>3, <1>4, IdleKeeps

(* Every step keeps the types.                                             *)
LEMMA ChannelsStepKeeps == ChannelsInv /\ [ChannelsNext]_vars => ChannelsInv'
<1> SUFFICES ASSUME ChannelsInv, [ChannelsNext]_vars PROVE ChannelsInv'
  OBVIOUS
<1>1. CASE ClientStep
  BY <1>1, RequestsKeep, CallbacksKeep, UnrefKeeps DEF ClientStep
<1>2. ASSUME NEW q \in Tasks, DaemonStep(q) PROVE ChannelsInv'
  BY <1>2, HandleOpenSessionKeeps, StartReauthenticationKeeps, OpenTemporaryKeeps, CallTimesOutKeeps,
     ConnectTyped, ClosedKeeps DEF DaemonStep
<1>3. ASSUME NEW q \in Tasks, BeginVerification(q) \/ EndsVerification(q) \/ ConversationStops(q)
      PROVE  ChannelsInv'
  BY <1>3, VerificationKeeps
<1>4. CASE HandleStartReauthentication
  BY <1>4, HandleStartKeeps
<1>5. CASE OnReauthenticationStarted
  BY <1>5, OnStartedKeeps
<1>6. CASE SessionEnds
  BY <1>6, SessionEndsKeeps
<1>7. CASE UNCHANGED vars
  <2>1. UNCHANGED <<task, client, conn, requests, daemonVars>>
    BY <1>7 DEF vars, clientVars, daemonVars
  <2>2. WireInv' /\ TableType' /\ Channelled'
    BY <2>1 DEF ChannelsInv, WireInv, TableType, Channelled, Channel, daemonVars
  <2> QED BY <2>1, <2>2, IdleKeeps
<1> QED BY <1>1, <1>2, <1>3, <1>4, <1>5, <1>6, <1>7 DEF ChannelsNext

LEMMA ChannelsInitKeeps == ChannelsInit => ChannelsInv
<1> SUFFICES ASSUME ChannelsInit PROVE ChannelsInv
  OBVIOUS
<1>1. PICK e \in [Procs -> BOOLEAN] :
         client = [p \in Procs |-> [user_verifier |-> None, greeter |-> None,
                                    remote_greeter |-> None, chooser |-> None,
                                    extensions |-> e[p], choice |-> None, reauth |-> {}]]
  BY DEF ChannelsInit, ClientInit
<1>2. ProxyInv
  <2>1. \A k \in Interfaces : k \in {"user_verifier", "greeter", "remote_greeter", "chooser"}
    BY DEF Interfaces, Proxies
  <2> QED BY <1>1, <2>1 DEF ProxyInv, OwnConn
<1>3. task = [q \in Tasks |-> [kind |-> "none", sync |-> FALSE, at |-> "unused",
                                address |-> None, conn |-> None]]
  BY DEF ChannelsInit, ClientInit
<1>4. TaskInv
  <2> HIDE DEF Tasks, Interfaces
  <2> QED BY <1>3 DEF TaskInv, TaskType, OwnConn
<1>5. Numbered
  <2>1. UsedTasks = {}
    BY <1>3 DEF UsedTasks
  <2> QED BY <2>1, FS_EmptySet DEF Numbered
<1>6. WireInv /\ TableType /\ Waiting /\ Channelled
  <2> HIDE DEF Tasks
  <2> QED BY DEF ChannelsInit, ClientInit, WireInv, ConnType, TableType, Waiting, Channelled
<1> QED BY <1>2, <1>4, <1>5, <1>6 DEF ChannelsInv

(* The tables of the daemon and of the worker, the calls on their way and  *)
(* the tasks of the client library stay consistent: a process has at most  *)
(* its own request in the table, one that waits for its answer or gave up, *)
(* and its own channels.                                                   *)
THEOREM ChannelTypesAreKept == ChannelsSpec => []TypeOK
<1>1. ChannelsInv => TypeOK
  <2> SUFFICES ASSUME ChannelsInv PROVE TypeOK
    OBVIOUS
  <2>0. TaskInv /\ WireInv /\ TableType /\ Waiting /\ Channelled
    BY DEF ChannelsInv
  <2>1. ASSUME NEW q \in Tasks
        PROVE  /\ task[q].kind \in Interfaces \cup {"reauth", "none"} /\ task[q].sync \in BOOLEAN
               /\ task[q].at \in {"unused", "asking", "asked", "timeout", "address", "proxy", "extensions", "choice",
                                  "incomplete", "finish", "done", "failed"}
               /\ task[q].address \in Tasks \cup {Login, None}
               /\ task[q].conn # None => Owner(task[q].conn) = Owner(q)
               /\ conn[q].at \in {"none", "open", "closing"} /\ conn[q].to \in Tasks \cup {Login, None}
    <3>1. task[q] \in TaskType /\ OwnConn(Owner(q), task[q].conn) /\ conn[q] \in ConnType
      BY <2>0 DEF TaskInv, WireInv
    <3> HIDE DEF Tasks, Interfaces, Owner
    <3> QED BY <3>1 DEF TaskType, ConnType, OwnConn
  <2>2. \A s \in {starts, replies} : \A i \in DOMAIN s : s[i] \in Tasks
    BY <2>0 DEF WireInv
  <2>3. \A p \in Procs : \A t \in {transients, reauths} :
            t[p] # None => Owner(t[p]) = p /\ task[t[p]].kind = "reauth"
    BY <2>0 DEF Channelled, Channel
  <2> HIDE DEF Tasks, Owner
  <2> QED BY <2>0, <2>1, <2>2, <2>3 DEF TypeOK, WireInv, Waiting
<1> QED BY <1>1, ChannelsInitKeeps, ChannelsStepKeeps, PTL DEF ChannelsSpec

===============================================================================
