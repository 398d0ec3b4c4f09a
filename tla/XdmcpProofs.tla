----------------------------- MODULE XdmcpProofs -----------------------------
(***************************************************************************)
(* The safety invariants of Xdmcp, proved for every number of terminals,   *)
(* managers, screens, display objects and ids, and every limit.            *)
(*                                                                         *)
(* Displays: apart from a REQUEST a step only narrows what there is        *)
(* (Narrower), which keeps everything said of the hosts, screens and ids   *)
(* of the displays; a REQUEST narrows, tests and then adds one (Requested).*)
(* Forward queries: the invariant is inductive together with "a terminal   *)
(* is in one forward query at most" (ForwardInv).  Sessions: for terminals *)
(* with one display the life of a display is a line (Single), and with it  *)
(* goes what is known of the terminal's IndirectClient (Sound).            *)
(***************************************************************************)
EXTENDS Xdmcp, TLAPS, FiniteSetTheorems, SequenceTheorems

(* An object in use has all fields, a free one only one.                   *)
LEMMA FreeIsNoDisplay == Free \notin DisplayType
  BY DEF Free, DisplayType

(* What a display becomes when it is settled.                              *)
LEMMA SettleType ==
    ASSUME NEW d \in DisplayType
    PROVE  /\ Settle(d) \in DisplayType \cup {Free}
           /\ Settle(d) # Free => Settle(d) = d
           /\ Settle(d) = Free => ~d.stored /\ ~d.session /\ ~d.finishing /\ d.timers = 0
  BY FreeIsNoDisplay DEF Settle, DisplayType, Free

Displays == [Objects -> DisplayType \cup {Free}]
Purges   == [queued : BOOLEAN, source : BOOLEAN]

(* A step of display o alone, which goes on as e: the terminal, the screen *)
(* and the id stay, and a display does not come back to the store.         *)
GoesOn(o, e) ==
    /\ display[o] \in DisplayType /\ e \in DisplayType
    /\ e.host = display[o].host /\ e.num = display[o].num /\ e.id = display[o].id
    /\ e.stored = display[o].stored
    /\ SetDisplay(o, e)

LEMMA PurgeType ==
    ASSUME purge \in Purges
    PROVE  /\ QueuePurge => purge' \in Purges
           /\ \A d, s : StatusChanged(d, s) => purge' \in Purges
<1>1. QueuePurge => purge' \in Purges
  BY DEF Purges, QueuePurge
<1> QED  BY <1>1 DEF StatusChanged

LEMMA ConnectedGoesOn ==
    ASSUME display \in Displays, purge \in Purges, up \in BOOLEAN, NEW o \in Objects, Connected(o)
    PROVE  /\ \E e : GoesOn(o, e)
           /\ purge' \in Purges /\ up' \in BOOLEAN
<1> DEFINE d == display[o]
           e == [d EXCEPT !.status = "MANAGED", !.timers = @ - 1, !.attempts = @ + 1]
<1>1. d \in DisplayType /\ d.timers > 0
  BY DEF Connected, Displays
<1>2. /\ e \in DisplayType
      /\ e.host = d.host /\ e.num = d.num /\ e.id = d.id /\ e.stored = d.stored
  <2>1. d.timers \in Nat /\ d.attempts \in Nat
    BY <1>1 DEF DisplayType
  <2>2. d.timers - 1 \in Nat /\ d.attempts + 1 \in Nat
    BY <1>1, <2>1
  <2> HIDE DEF d
  <2> QED  BY <1>1, <2>2 DEF DisplayType, Statuses
<1>3. CASE d.stored /\ d.status # "MANAGED"
  <2>1. SetUpSession(o, e)
    BY <1>3 DEF Connected
  <2> DEFINE f == [e EXCEPT !.session = TRUE]
             g == Finished(e)
  <2>2. /\ f \in DisplayType
        /\ f.host = d.host /\ f.num = d.num /\ f.id = d.id /\ f.stored = d.stored
    BY <1>2 DEF DisplayType
  <2>3. /\ g \in DisplayType
        /\ g.host = d.host /\ g.num = d.num /\ g.id = d.id /\ g.stored = d.stored
    BY <1>2 DEF DisplayType, Finished, Statuses
  <2> HIDE DEF e, f, g
  <2>4. \/ SetDisplay(o, f) /\ UNCHANGED <<purge, up>>
        \/ SetDisplay(o, e) /\ UNCHANGED purge /\ up' = FALSE
        \/ SetDisplay(o, g) /\ QueuePurge /\ UNCHANGED up
    BY <2>1 DEF SetUpSession, f, g
  <2> QED  BY <1>1, <1>2, <2>2, <2>3, <2>4, PurgeType DEF GoesOn
<1>4. CASE ~(d.stored /\ d.status # "MANAGED")
  <2>1. SetDisplay(o, e) /\ UNCHANGED <<purge, up>>
    BY <1>4 DEF Connected
  <2> HIDE DEF e
  <2> QED  BY <1>1, <1>2, <2>1 DEF GoesOn
<1> QED  BY <1>3, <1>4

LEMMA ConnectFailsGoesOn ==
    ASSUME display \in Displays, purge \in Purges, NEW o \in Objects, ConnectFails(o)
    PROVE  /\ \E e : GoesOn(o, e)
           /\ purge' \in Purges
<1> DEFINE d == display[o]
           e == [d EXCEPT !.attempts = @ + 1]
           f(s) == [e EXCEPT !.timers = @ - 1, !.status = s]
<1>1. d \in DisplayType /\ d.timers \in Nat /\ d.timers > 0
  BY DEF ConnectFails, Displays, DisplayType
<1>2. /\ e \in DisplayType /\ e.timers = d.timers
      /\ e.host = d.host /\ e.num = d.num /\ e.id = d.id /\ e.stored = d.stored
  BY <1>1 DEF DisplayType
<1>3. CASE SetDisplay(o, e) /\ UNCHANGED purge
  <2> HIDE DEF e
  <2> QED  BY <1>1, <1>2, <1>3 DEF GoesOn
<1>4. CASE \E s \in UnmanagedStatus(d) : SetDisplay(o, f(s)) /\ StatusChanged(d, s)
  <2>1. PICK s \in UnmanagedStatus(d) : SetDisplay(o, f(s)) /\ StatusChanged(d, s)
    BY <1>4
  <2>2. s \in Statuses
    BY DEF UnmanagedStatus, Statuses
  <2>3. /\ f(s) \in DisplayType
        /\ f(s).host = d.host /\ f(s).num = d.num /\ f(s).id = d.id /\ f(s).stored = d.stored
    <3>1. e.timers - 1 \in Nat
      BY <1>1, <1>2
    <3> HIDE DEF d, e
    <3> QED  BY <1>2, <2>2, <3>1 DEF DisplayType
  <2> HIDE DEF f
  <2> QED  BY <1>1, <2>1, <2>3, PurgeType DEF GoesOn
<1> QED  BY <1>3, <1>4 DEF ConnectFails

LEMMA SessionGoesOn ==
    ASSUME display \in Displays, purge \in Purges, NEW o \in Objects,
           \/ UserLogsIn(o) \/ SessionDisconnected(o) \/ GreeterEnds(o) \/ FinishIdle(o)
           \/ \E m \in Managers \cup {Here} : HostnameSelected(o, m)
    PROVE  /\ \E e : GoesOn(o, e)
           /\ purge' \in Purges
<1> DEFINE d == display[o]
           same(e) == e.host = d.host /\ e.num = d.num /\ e.id = d.id /\ e.stored = d.stored
<1>0. d \in DisplayType
  BY DEF UserLogsIn, SessionDisconnected, GreeterEnds, FinishIdle, HostnameSelected, Displays
<1>1. CASE UserLogsIn(o)
  <2> DEFINE e == [d EXCEPT !.env = "none"]
  <2>1. e \in DisplayType /\ same(e)
    BY <1>0 DEF DisplayType
  <2>2. SetDisplay(o, e) /\ UNCHANGED purge
    BY <1>1 DEF UserLogsIn
  <2> HIDE DEF e
  <2> QED  BY <1>0, <2>1, <2>2 DEF GoesOn
<1>2. CASE SessionDisconnected(o)
  <2> DEFINE e == [Finished(d) EXCEPT !.session = FALSE, !.env = "none"]
  <2>1. e \in DisplayType /\ same(e)
    BY <1>0 DEF DisplayType, Finished, Statuses
  <2>2. SetDisplay(o, e) /\ QueuePurge
    BY <1>2 DEF SessionDisconnected
  <2> HIDE DEF e
  <2> QED  BY <1>0, <2>1, <2>2, PurgeType DEF GoesOn
<1>3. CASE GreeterEnds(o)
  <2> DEFINE e(s) == [d EXCEPT !.session = FALSE, !.status = s,
                               !.finishing = @ \/ s # "FINISHED"]
  <2>1. PICK s \in IF d.status = "MANAGED" THEN UnmanagedStatus(d) ELSE {d.status} :
                  SetDisplay(o, e(s)) /\ StatusChanged(d, s)
    BY <1>3 DEF GreeterEnds
  <2>2. s \in Statuses
    BY <1>0 DEF UnmanagedStatus, Statuses, DisplayType
  <2>3. e(s) \in DisplayType /\ same(e(s))
    BY <1>0, <2>2 DEF DisplayType
  <2> HIDE DEF e
  <2> QED  BY <1>0, <2>1, <2>3, PurgeType DEF GoesOn
<1>4. CASE FinishIdle(o)
  <2> DEFINE e == Finished(d)
  <2>1. e \in DisplayType /\ same(e)
    BY <1>0 DEF DisplayType, Finished, Statuses
  <2>2. SetDisplay(o, e) /\ StatusChanged(d, "FINISHED")
    BY <1>4 DEF FinishIdle
  <2> HIDE DEF e
  <2> QED  BY <1>0, <2>1, <2>2, PurgeType DEF GoesOn
<1>5. ASSUME NEW m \in Managers \cup {Here}, HostnameSelected(o, m)
      PROVE  (\E e : GoesOn(o, e)) /\ purge' \in Purges
  <2> DEFINE e == [d EXCEPT !.env = "chosen"]
  <2>1. e \in DisplayType /\ same(e)
    BY <1>0 DEF DisplayType
  <2>2. SetDisplay(o, e) /\ UNCHANGED purge
    BY <1>5 DEF HostnameSelected
  <2> HIDE DEF e
  <2> QED  BY <1>0, <2>1, <2>2 DEF GoesOn
<1> QED  BY <1>1, <1>2, <1>3, <1>4, <1>5
-----------------------------------------------------------------------------
(* Almost every step only narrows the displays: none is added, none comes  *)
(* back to the store, and those that are left keep what identifies them.   *)
Narrower(D, E) ==
    \A o \in Objects :
        \/ E[o] = Free
        \/ /\ D[o] \in DisplayType /\ E[o] \in DisplayType
           /\ E[o].host = D[o].host /\ E[o].num = D[o].num /\ E[o].id = D[o].id
           /\ E[o].stored => D[o].stored

LEMMA NarrowerSame == ASSUME NEW D \in Displays PROVE Narrower(D, D)
  BY DEF Narrower, Displays

LEMMA NarrowerTrans ==
    ASSUME NEW D, NEW E, NEW F, Narrower(D, E), Narrower(E, F)
    PROVE  Narrower(D, F)
  BY FreeIsNoDisplay DEF Narrower

LEMMA GoesOnNarrows ==
    ASSUME display \in Displays, NEW o \in Objects, NEW e, GoesOn(o, e)
    PROVE  display' \in Displays /\ Narrower(display, display')
<1>1. display' = [display EXCEPT ![o] = Settle(e)]
  BY DEF GoesOn, SetDisplay
<1>2. /\ e \in DisplayType
      /\ Settle(e) \in DisplayType \cup {Free}
      /\ Settle(e) # Free => Settle(e) = e
  BY SettleType DEF GoesOn
<1>3. display' \in Displays
  BY <1>1, <1>2 DEF Displays
<1>4. ASSUME NEW p \in Objects, display'[p] # Free
      PROVE  /\ display[p] \in DisplayType /\ display'[p] \in DisplayType
             /\ display'[p].host = display[p].host /\ display'[p].num = display[p].num
             /\ display'[p].id = display[p].id
             /\ display'[p].stored => display[p].stored
  <2>1. CASE p = o
    <3>1. display'[p] = e
      BY <1>1, <1>2, <1>4, <2>1 DEF Displays
    <3> QED  BY <3>1, <2>1 DEF GoesOn
  <2>2. CASE p # o
    <3>1. display'[p] = display[p]
      BY <1>1, <2>2 DEF Displays
    <3> QED  BY <3>1, <1>4 DEF Displays
  <2> QED  BY <2>1, <2>2
<1> QED  BY <1>3, <1>4 DEF Narrower

LEMMA DropNarrows ==
    ASSUME NEW D \in Displays, NEW S \in SUBSET Stored(D)
    PROVE  /\ Drop(D, S) \in Displays /\ Narrower(D, Drop(D, S))
           /\ \A o \in Objects \ S : Drop(D, S)[o] = D[o]
           /\ \A o \in S : ~Drop(D, S)[o].stored
<1>1. ASSUME NEW o \in S PROVE o \in Objects /\ D[o] \in DisplayType
  BY <1>1 DEF Stored, Free, Displays
<1>2. ASSUME NEW d \in DisplayType
      PROVE  LET e == [d EXCEPT !.stored = FALSE] IN
             e \in DisplayType /\ e.host = d.host /\ e.num = d.num /\ e.id = d.id /\ ~e.stored
  BY DEF DisplayType
<1>3. ASSUME NEW o \in S
      PROVE  LET e == [D[o] EXCEPT !.stored = FALSE] IN
             /\ Drop(D, S)[o] = Free \/ Drop(D, S)[o] = e
             /\ D[o] \in DisplayType
             /\ e \in DisplayType /\ e.host = D[o].host /\ e.num = D[o].num /\ e.id = D[o].id
             /\ ~e.stored
  <2> DEFINE e == [D[o] EXCEPT !.stored = FALSE]
  <2>1. Drop(D, S)[o] = Settle(e)
    BY <1>1 DEF Drop
  <2>2. e \in DisplayType
    BY <1>1, <1>2
  <2>3. Settle(e) = Free \/ Settle(e) = e
    BY <2>2, SettleType
  <2> QED  BY <1>1, <1>2, <2>1, <2>3
<1>4. \A o \in Objects \ S : Drop(D, S)[o] = D[o]
  BY DEF Drop
<1>5. \A o \in Objects : Drop(D, S)[o] \in DisplayType \cup {Free}
  BY <1>3, <1>4 DEF Displays
<1>6. Drop(D, S) \in Displays
  BY <1>5 DEF Drop, Displays
<1>7. Narrower(D, Drop(D, S))
  BY <1>3, <1>4 DEF Narrower, Displays
<1>8. ASSUME NEW o \in S PROVE ~Drop(D, S)[o].stored
  <2>1. CASE Drop(D, S)[o] = Free
    BY <2>1 DEF Free
  <2>2. CASE Drop(D, S)[o] # Free
    BY <1>3, <2>2
  <2> QED  BY <2>1, <2>2
<1> QED  BY <1>4, <1>6, <1>7, <1>8

(* What CreateDisplay adds to the displays D.                              *)
Added(D, o, h, n, i) ==
    /\ D[o] = Free
    /\ \A p \in Objects \ {o} : display'[p] = D[p]
    /\ LET d == display'[o] IN
       /\ d \in DisplayType /\ d.host = h /\ d.num = n /\ d.id = i
       /\ d.status = "PREPARED" /\ d.stored /\ ~d.session /\ ~d.finishing /\ d.timers = 0
       /\ d.env = IF UseChooser(h) THEN "chooser" ELSE "greeter"

LEMMA CreateAdds ==
    ASSUME NEW D \in Displays, NEW h \in Hosts, NEW n \in Nums, CreateDisplay(D, h, n)
    PROVE  /\ display' \in Displays
           /\ \E i \in 1..MaxId :
                /\ NextId(i, serial')
                /\ display' = D \/ \E o \in Objects : Added(D, o, h, n, i)
<1> DEFINE d(i) == [host |-> h, num |-> n, id |-> i, status |-> "PREPARED",
                    stored |-> TRUE, session |-> FALSE, finishing |-> FALSE,
                    env |-> IF UseChooser(h) THEN "chooser" ELSE "greeter",
                    timers |-> 0, attempts |-> 0]
<1>1. PICK i \in 1..MaxId :
          /\ NextId(i, serial')
          /\ \/ \E o \in {x \in Objects : D[x] = Free} : display' = [D EXCEPT ![o] = d(i)]
             \/ display' = D
  BY DEF CreateDisplay
<1>2. d(i) \in DisplayType
  BY DEF DisplayType, Statuses
<1>3. ASSUME NEW o \in Objects, D[o] = Free, display' = [D EXCEPT ![o] = d(i)]
      PROVE  display' \in Displays /\ Added(D, o, h, n, i)
  <2>1. display' \in Displays
    <3> HIDE DEF d
    <3> QED  BY <1>2, <1>3 DEF Displays
  <2>2. /\ display'[o] = d(i)
        /\ \A p \in Objects \ {o} : display'[p] = D[p]
    <3> HIDE DEF d
    <3> QED  BY <1>3 DEF Displays
  <2> QED  BY <1>2, <1>3, <2>1, <2>2 DEF Added
<1> QED  BY <1>1, <1>3

(* What a REQUEST does to the displays: old ones go, those of the screen   *)
(* go when the terminal is under its limit, and then one may be added.     *)
Requested(h, n, D, E) ==
    /\ D \in Displays /\ E \in Displays
    /\ Narrower(display, D) /\ Narrower(D, E)
    /\ \/ display' = D /\ serial' = serial
       \/ /\ E = Disposed(D, h, n) /\ UnderLimit(D, h)
          /\ \/ display' = E /\ serial' = serial
             \/ CreateDisplay(E, h, n)

LEMMA FiniteStored ==
    ASSUME NEW D, NEW S, S \subseteq Stored(D)
    PROVE  IsFiniteSet(S) /\ Cardinality(S) \in Nat
  BY ObjectAssumption, FS_Subset, FS_CardinalityType DEF Stored

LEMMA RequestCases ==
    ASSUME display \in Displays, NEW h \in Hosts, NEW n \in Nums, NEW mitauth \in BOOLEAN,
           HandleRequest(h, n, mitauth)
    PROVE  /\ \E old \in Expired :
                LET D == Drop(display, old) IN Requested(h, n, D, Disposed(D, h, n))
           /\ num_sessions' \in Nat
<1> DEFINE D(old) == Drop(display, old)
           E(old) == Disposed(D(old), h, n)
           entered(old) == mitauth /\ UnderLimit(D(old), h)
<1>1. PICK old \in Expired :
         /\ num_sessions' = Cardinality(WithStatus(IF entered(old) THEN E(old) ELSE D(old), {"MANAGED"}))
         /\ \/ ~entered(old) /\ Decline(D(old), h)
            \/ /\ entered(old)
               /\ Decline(E(old), h) \/ CreateDisplay(E(old), h, n)
  BY DEF HandleRequest
<1>2. D(old) \in Displays /\ Narrower(display, D(old))
  BY DropNarrows DEF Expired, WithStatus
<1>3. E(old) \in Displays /\ Narrower(D(old), E(old))
  <2> HIDE DEF D
  <2> QED  BY <1>2, DropNarrows DEF Disposed, FromHost
<1>4. num_sessions' \in Nat
  <2>1. PICK F : num_sessions' = Cardinality(WithStatus(F, {"MANAGED"}))
    BY <1>1
  <2> QED  BY <2>1, FiniteStored DEF WithStatus
<1>5. Requested(h, n, D(old), E(old))
  <2> HIDE DEF D
  <2> QED  BY <1>1, <1>2, <1>3 DEF Requested, Decline
<1> QED  BY <1>4, <1>5

(* The variables of the displays have their types.                         *)
DisplayTypeOK ==
    /\ display \in Displays
    /\ serial \in 1..MaxId
    /\ num_sessions \in Nat
    /\ purge \in Purges
    /\ up \in BOOLEAN

(* The steps that are no REQUEST.                                          *)
OtherStep ==
    \/ \E o \in Objects : DisplayStep(o)
    \/ \E o \in Objects, m \in Managers \cup {Here} : HostnameSelected(o, m)
    \/ PurgeIdle
    \/ \E h \in Hosts :
          \/ \E i \in 1..MaxId : HandleManage(h, i)
          \/ RefuseManage(h) \/ HandleIndirectQuery(h)
    \/ \E m \in Managers, h \in Hosts : ManagerStep(m, h)
    \/ UNCHANGED vars

LEMMA NextSplits ==
    [Next]_vars <=> \/ OtherStep
                    \/ \E h \in Hosts, n \in Nums, mitauth \in BOOLEAN : HandleRequest(h, n, mitauth)
  BY DEF Next, OtherStep, PacketFrom

LEMMA ManageNarrows ==
    ASSUME DisplayTypeOK, NEW h, NEW i, HandleManage(h, i)
    PROVE  DisplayTypeOK' /\ Narrower(display, display') /\ serial' = serial
<1>1. PICK o \in WithId(i) : display' = [display EXCEPT ![o].timers = @ + 1]
  BY DEF HandleManage
<1> DEFINE d == display[o]
           e == [d EXCEPT !.timers = @ + 1]
<1>2. o \in Objects /\ d \in DisplayType
  BY DEF WithId, Stored, Free, DisplayTypeOK, Displays
<1>3. display' = [display EXCEPT ![o] = e]
  BY <1>1
<1>4. d.timers + 1 \in Nat
  BY <1>2 DEF DisplayType
<1>5. /\ e \in DisplayType
      /\ e.host = d.host /\ e.num = d.num /\ e.id = d.id /\ e.stored = d.stored
  <2> HIDE DEF d
  <2> QED  BY <1>2, <1>4 DEF DisplayType
<1> HIDE DEF e
<1>6. display' \in Displays
  BY <1>2, <1>3, <1>5 DEF DisplayTypeOK, Displays
<1>7. \A p \in Objects : display'[p] = IF p = o THEN e ELSE display[p]
  BY <1>2, <1>3 DEF DisplayTypeOK, Displays
<1>8. Narrower(display, display')
  BY <1>2, <1>5, <1>7 DEF Narrower, DisplayTypeOK, Displays
<1>9. /\ serial' = serial /\ purge' = purge /\ up' = up
      /\ num_sessions' = num_sessions + 1
  BY DEF HandleManage
<1> QED  BY <1>6, <1>8, <1>9 DEF DisplayTypeOK

LEMMA OtherNarrows ==
    ASSUME DisplayTypeOK, OtherStep
    PROVE  DisplayTypeOK' /\ Narrower(display, display') /\ serial' = serial
<1>0. display \in Displays /\ purge \in Purges /\ up \in BOOLEAN
  BY DEF DisplayTypeOK
<1>1. ASSUME NEW o \in Objects, DisplayStep(o)
      PROVE  DisplayTypeOK' /\ Narrower(display, display') /\ serial' = serial
  <2>1. UNCHANGED <<serial, num_sessions>>
    BY <1>1 DEF DisplayStep, Connected, ConnectFails, UserLogsIn, SessionDisconnected, GreeterEnds,
                FinishIdle
  <2>2. (\E e : GoesOn(o, e)) /\ purge' \in Purges /\ up' \in BOOLEAN
    <3>1. CASE Connected(o)
      BY <1>0, <3>1, ConnectedGoesOn
    <3>2. CASE ConnectFails(o)
      BY <1>0, <3>2, ConnectFailsGoesOn DEF ConnectFails
    <3>3. CASE UserLogsIn(o) \/ SessionDisconnected(o) \/ GreeterEnds(o) \/ FinishIdle(o)
      BY <1>0, <3>3, SessionGoesOn
         DEF UserLogsIn, SessionDisconnected, GreeterEnds, FinishIdle
    <3> QED  BY <1>1, <3>1, <3>2, <3>3 DEF DisplayStep
  <2> QED  BY <1>0, <2>1, <2>2, GoesOnNarrows DEF DisplayTypeOK
<1>2. ASSUME NEW o \in Objects, NEW m \in Managers \cup {Here}, HostnameSelected(o, m)
      PROVE  DisplayTypeOK' /\ Narrower(display, display') /\ serial' = serial
  <2>1. UNCHANGED <<serial, num_sessions>> /\ up' \in BOOLEAN
    BY <1>0, <1>2 DEF HostnameSelected
  <2>2. (\E e : GoesOn(o, e)) /\ purge' \in Purges
    BY <1>0, <1>2, SessionGoesOn
  <2> QED  BY <1>0, <2>1, <2>2, GoesOnNarrows DEF DisplayTypeOK
<1>3. CASE PurgeIdle
  <2>1. /\ display' = Drop(display, WithStatus(display, Ended))
        /\ purge' \in Purges /\ UNCHANGED <<serial, num_sessions, up>>
    BY <1>3 DEF PurgeIdle, Purges
  <2>2. WithStatus(display, Ended) \in SUBSET Stored(display)
    BY DEF WithStatus
  <2> QED  BY <1>0, <2>1, <2>2, DropNarrows DEF DisplayTypeOK
<1>4. ASSUME NEW h \in Hosts, NEW i \in 1..MaxId, HandleManage(h, i)
      PROVE  DisplayTypeOK' /\ Narrower(display, display') /\ serial' = serial
  BY <1>4, ManageNarrows
<1>5. ASSUME UNCHANGED <<displayVars, up>>
      PROVE  DisplayTypeOK' /\ Narrower(display, display') /\ serial' = serial
  BY <1>0, <1>5, NarrowerSame DEF DisplayTypeOK, displayVars
<1>6. ASSUME NEW h \in Hosts, RefuseManage(h) \/ HandleIndirectQuery(h)
      PROVE  UNCHANGED <<displayVars, up>>
  BY <1>6 DEF RefuseManage, HandleIndirectQuery
<1>7. ASSUME NEW m \in Managers, NEW h \in Hosts, ManagerStep(m, h)
      PROVE  UNCHANGED <<displayVars, up>>
  BY <1>7 DEF ManagerStep, HandleForwardQuery, HandleManagedForward, HandleGotManagedForward,
              ResendManagedForward
<1>8. CASE UNCHANGED vars
  BY <1>5, <1>8 DEF vars
<1> QED  BY <1>1, <1>2, <1>3, <1>4, <1>5, <1>6, <1>7, <1>8 DEF OtherStep

LEMMA RequestTypeOK ==
    ASSUME DisplayTypeOK, NEW h \in Hosts, NEW n \in Nums, NEW mitauth \in BOOLEAN,
           HandleRequest(h, n, mitauth)
    PROVE  DisplayTypeOK'
<1>1. UNCHANGED <<purge, up>>
  BY DEF HandleRequest
<1>2. num_sessions' \in Nat /\ \E D, E : Requested(h, n, D, E)
  BY RequestCases DEF DisplayTypeOK
<1>3. PICK D, E : Requested(h, n, D, E)
  BY <1>2
<1>4. CASE serial' = serial /\ display' \in {D, E}
  BY <1>1, <1>2, <1>3, <1>4 DEF DisplayTypeOK, Requested
<1>5. CASE CreateDisplay(E, h, n)
  <2>1. E \in Displays
    BY <1>3 DEF Requested
  <2>2. display' \in Displays /\ \E i : NextId(i, serial')
    BY <1>5, <2>1, CreateAdds
  <2>3. serial' \in 1..MaxId
    BY <2>2, LimitAssumption DEF NextId, DisplayTypeOK
  <2> QED  BY <1>1, <1>2, <2>2, <2>3 DEF DisplayTypeOK
<1> QED  BY <1>3, <1>4, <1>5 DEF Requested

LEMMA StepDisplayTypeOK == DisplayTypeOK /\ [Next]_vars => DisplayTypeOK'
  BY NextSplits, OtherNarrows, RequestTypeOK
-----------------------------------------------------------------------------
(* One display for each screen of a terminal.                              *)
OnePerSlot(D) ==
    \A o, p \in Stored(D) : D[o].host = D[p].host /\ D[o].num = D[p].num => o = p

LEMMA NarrowerStored ==
    ASSUME NEW D, NEW E, Narrower(D, E), NEW o \in Stored(E)
    PROVE  /\ o \in Stored(D)
           /\ E[o].host = D[o].host /\ E[o].num = D[o].num /\ E[o].id = D[o].id
<1>1. ~Free.stored
  BY DEF Free
<1>2. o \in Objects /\ E[o] # Free
  BY <1>1 DEF Stored
<1> QED  BY <1>2 DEF Narrower, Stored

LEMMA NarrowerSlots ==
    ASSUME NEW D, NEW E, Narrower(D, E), OnePerSlot(D)
    PROVE  OnePerSlot(E)
  BY NarrowerStored DEF OnePerSlot

LEMMA AddedStored ==
    ASSUME NEW D \in Displays, NEW o \in Objects, NEW h, NEW n, NEW i, Added(D, o, h, n, i)
    PROVE  /\ Stored(display') = Stored(D) \cup {o} /\ o \notin Stored(D)
           /\ \A p \in Stored(D) : display'[p] = D[p]
<1>1. o \notin Stored(D)
  BY DEF Added, Stored, Free
<1>2. Stored(display') = Stored(D) \cup {o}
  BY <1>1 DEF Added, Stored
<1> QED  BY <1>1, <1>2 DEF Added, Stored

LEMMA RequestSlots ==
    ASSUME display \in Displays, OnePerSlot(display), NEW h \in Hosts, NEW n \in Nums,
           NEW D, NEW E, Requested(h, n, D, E)
    PROVE  OnePerSlot(display')
<1>1. OnePerSlot(D) /\ OnePerSlot(E)
  BY NarrowerSlots DEF Requested
<1>2. ASSUME NEW o \in Objects, NEW i, Added(E, o, h, n, i), E = Disposed(D, h, n)
      PROVE  OnePerSlot(display')
  <2>1. D \in Displays /\ E \in Displays
    BY DEF Requested
  <2>2. ASSUME NEW p \in Stored(E), E[p].host = h, E[p].num = n PROVE FALSE
    <3> DEFINE S == {x \in FromHost(D, h) : D[x].num = n}
    <3>1. p \in S
      BY <2>2, NarrowerStored DEF Requested, FromHost
    <3>2. S \in SUBSET Stored(D) /\ E = Drop(D, S)
      BY <1>2 DEF Disposed, FromHost
    <3>3. ~E[p].stored
      BY <2>1, <3>1, <3>2, DropNarrows
    <3> QED  BY <2>2, <3>3 DEF Stored
  <2>3. /\ Stored(display') = Stored(E) \cup {o} /\ o \notin Stored(E)
        /\ \A p \in Stored(E) : display'[p] = E[p]
    BY <1>2, <2>1, AddedStored
  <2>4. display'[o].host = h /\ display'[o].num = n
    BY <1>2 DEF Added
  <2> QED  BY <1>1, <2>2, <2>3, <2>4 DEF OnePerSlot
<1>3. CASE display' \in {D, E}
  BY <1>1, <1>3
<1>4. CASE E = Disposed(D, h, n) /\ CreateDisplay(E, h, n)
  <2>1. E \in Displays
    BY DEF Requested
  <2>2. display' = E \/ \E i, o : o \in Objects /\ Added(E, o, h, n, i)
    BY <1>4, <2>1, CreateAdds
  <2> QED  BY <1>1, <1>2, <1>4, <2>2
<1> QED  BY <1>3, <1>4 DEF Requested

(* However REQUESTs are repeated or delayed, the store has at most one     *)
(* display for a screen of a terminal.                                     *)
THEOREM SlotsAreUnique == Spec => []OneDisplayPerSlot
<1>0. OneDisplayPerSlot <=> OnePerSlot(display)
  BY DEF OneDisplayPerSlot, OnePerSlot
<1>1. Init => DisplayTypeOK /\ OnePerSlot(display)
  BY LimitAssumption DEF Init, DisplayTypeOK, Displays, Purges, OnePerSlot, Stored, Free
<1>2. DisplayTypeOK /\ OnePerSlot(display) /\ [Next]_vars => OnePerSlot(display)'
  <2> SUFFICES ASSUME DisplayTypeOK, OnePerSlot(display), [Next]_vars PROVE OnePerSlot(display')
    OBVIOUS
  <2>1. display \in Displays
    BY DEF DisplayTypeOK
  <2>2. CASE OtherStep
    BY <2>2, OtherNarrows, NarrowerSlots
  <2>3. ASSUME NEW h \in Hosts, NEW n \in Nums, NEW mitauth \in BOOLEAN, HandleRequest(h, n, mitauth)
        PROVE  OnePerSlot(display')
    BY <2>1, <2>3, RequestCases, RequestSlots
  <2> QED  BY <2>2, <2>3, NextSplits
<1> QED  BY <1>0, <1>1, <1>2, StepDisplayTypeOK, PTL DEF Spec
-----------------------------------------------------------------------------
(* DisplaysPerHost.                                                        *)
HostsBounded(D) ==
    \A h \in Hosts \ LocalHosts : Cardinality(FromHost(D, h)) <= DisplaysPerHost

LEMMA NarrowerFromHost ==
    ASSUME NEW D, NEW E, Narrower(D, E), NEW h
    PROVE  /\ FromHost(E, h) \subseteq FromHost(D, h)
           /\ Cardinality(FromHost(E, h)) <= Cardinality(FromHost(D, h))
           /\ Cardinality(FromHost(E, h)) \in Nat /\ Cardinality(FromHost(D, h)) \in Nat
           /\ IsFiniteSet(FromHost(E, h))
<1>1. FromHost(E, h) \subseteq FromHost(D, h)
  BY NarrowerStored DEF FromHost
<1>2. IsFiniteSet(FromHost(E, h)) /\ IsFiniteSet(FromHost(D, h))
  BY FiniteStored DEF FromHost
<1> QED  BY <1>1, <1>2, FS_Subset, FS_CardinalityType

LEMMA NarrowerHosts ==
    ASSUME NEW D, NEW E, Narrower(D, E), HostsBounded(D)
    PROVE  HostsBounded(E)
  BY NarrowerFromHost, LimitAssumption DEF HostsBounded

LEMMA RequestHosts ==
    ASSUME display \in Displays, HostsBounded(display), NEW h \in Hosts, NEW n \in Nums,
           NEW D, NEW E, Requested(h, n, D, E)
    PROVE  HostsBounded(display')
<1>1. HostsBounded(D) /\ HostsBounded(E)
  BY NarrowerHosts DEF Requested
<1>2. ASSUME NEW o \in Objects, NEW i, Added(E, o, h, n, i), UnderLimit(D, h)
      PROVE  HostsBounded(display')
  <2> SUFFICES ASSUME NEW g \in Hosts \ LocalHosts
               PROVE  Cardinality(FromHost(display', g)) <= DisplaysPerHost
    BY DEF HostsBounded
  <2>1. E \in Displays /\ Narrower(D, E)
    BY DEF Requested
  <2>2. /\ Stored(display') = Stored(E) \cup {o} /\ o \notin Stored(E)
        /\ \A p \in Stored(E) : display'[p] = E[p]
    BY <1>2, <2>1, AddedStored
  <2>3. display'[o].host = h
    BY <1>2 DEF Added
  <2>4. CASE g = h
    <3>1. FromHost(display', g) = FromHost(E, g) \cup {o} /\ o \notin FromHost(E, g)
      BY <2>2, <2>3, <2>4 DEF FromHost
    <3>2. Cardinality(FromHost(D, g)) < DisplaysPerHost
      BY <1>2, <2>4 DEF UnderLimit
    <3>3. Cardinality(FromHost(display', g)) = Cardinality(FromHost(E, g)) + 1
      BY <2>1, <3>1, NarrowerFromHost, FS_AddElement
    <3>4. /\ Cardinality(FromHost(E, g)) <= Cardinality(FromHost(D, g))
          /\ Cardinality(FromHost(E, g)) \in Nat /\ Cardinality(FromHost(D, g)) \in Nat
      BY <2>1, NarrowerFromHost
    <3> QED  BY <3>2, <3>3, <3>4, LimitAssumption
  <2>5. CASE g # h
    <3>1. FromHost(display', g) = FromHost(E, g)
      BY <2>2, <2>3, <2>5 DEF FromHost
    <3> QED  BY <1>1, <3>1 DEF HostsBounded
  <2> QED  BY <2>4, <2>5
<1>3. CASE display' \in {D, E}
  BY <1>1, <1>3
<1>4. CASE UnderLimit(D, h) /\ CreateDisplay(E, h, n)
  <2>1. E \in Displays
    BY DEF Requested
  <2>2. display' = E \/ \E i, o : o \in Objects /\ Added(E, o, h, n, i)
    BY <1>4, <2>1, CreateAdds
  <2> QED  BY <1>1, <1>2, <1>4, <2>2
<1> QED  BY <1>3, <1>4 DEF Requested

LEMMA InitHosts == Init => HostsBounded(display)
<1> SUFFICES ASSUME Init PROVE HostsBounded(display)
  OBVIOUS
<1>1. \A h : FromHost(display, h) = {}
  BY DEF Init, FromHost, Stored, Free
<1> QED  BY <1>1, FS_EmptySet, LimitAssumption DEF HostsBounded

LEMMA StepHosts == DisplayTypeOK /\ HostsBounded(display) /\ [Next]_vars => HostsBounded(display)'
<1> SUFFICES ASSUME DisplayTypeOK, HostsBounded(display), [Next]_vars PROVE HostsBounded(display')
  OBVIOUS
<1>1. display \in Displays
  BY DEF DisplayTypeOK
<1>2. CASE OtherStep
  BY <1>2, OtherNarrows, NarrowerHosts
<1>3. ASSUME NEW h \in Hosts, NEW n \in Nums, NEW mitauth \in BOOLEAN, HandleRequest(h, n, mitauth)
      PROVE  HostsBounded(display')
  BY <1>1, <1>3, RequestCases, RequestHosts
<1> QED  BY <1>2, <1>3, NextSplits

(* A remote terminal never has more than DisplaysPerHost displays in the   *)
(* store, whatever displays of it are pending, ended or being purged.      *)
THEOREM HostsKeepTheirLimit == Spec => []PerHostBounded
<1>1. PerHostBounded <=> HostsBounded(display)
  BY DEF PerHostBounded, HostsBounded
<1>2. Init => DisplayTypeOK
  BY LimitAssumption DEF Init, DisplayTypeOK, Displays, Purges
<1> QED  BY <1>1, <1>2, InitHosts, StepHosts, StepDisplayTypeOK, PTL DEF Spec
-----------------------------------------------------------------------------
(* Session ids: those of D are below s and different.                      *)
IdsBelow(D, s) ==
    \A o, p \in {x \in Objects : D[x] # Free} :
        /\ D[o].id < s
        /\ D[o].id = D[p].id => o = p

LEMMA NarrowerIds ==
    ASSUME NEW D, NEW E, NEW s, Narrower(D, E), IdsBelow(D, s)
    PROVE  IdsBelow(E, s)
<1>1. ASSUME NEW o \in Objects, E[o] # Free
      PROVE  D[o] # Free /\ E[o].id = D[o].id
  BY <1>1, FreeIsNoDisplay DEF Narrower
<1> QED  BY <1>1 DEF IdsBelow

LEMMA RequestIds ==
    ASSUME display \in Displays, serial \in 1..MaxId, serial < MaxId => IdsBelow(display, serial),
           NEW h \in Hosts, NEW n \in Nums, NEW D, NEW E, Requested(h, n, D, E), serial' < MaxId
    PROVE  IdsBelow(display', serial')
<1>1. serial < MaxId => IdsBelow(D, serial) /\ IdsBelow(E, serial)
  BY NarrowerIds DEF Requested
<1>2. CASE serial' = serial /\ display' \in {D, E}
  BY <1>1, <1>2
<1>3. ASSUME NEW i \in 1..MaxId, NextId(i, serial'),
             display' = E \/ \E o \in Objects : Added(E, o, h, n, i)
      PROVE  IdsBelow(display', serial')
  <2>1. serial # MaxId /\ i = serial /\ serial' = serial + 1
    BY <1>3 DEF NextId
  <2>2. IdsBelow(E, serial)
    BY <1>1, <2>1, LimitAssumption
  <2>3. ASSUME NEW o \in Objects, E[o] # Free
        PROVE  E[o].id \in 1..MaxId /\ E[o].id < serial
    <3>1. E[o] \in DisplayType
      BY <2>3 DEF Requested, Displays
    <3> QED  BY <2>2, <2>3, <3>1 DEF IdsBelow, DisplayType
  <2>4. CASE display' = E
    BY <2>1, <2>2, <2>3, <2>4, LimitAssumption DEF IdsBelow
  <2>5. ASSUME NEW o \in Objects, Added(E, o, h, n, i)
        PROVE  IdsBelow(display', serial')
    <3>1. display'[o].id = serial /\ \A p \in Objects \ {o} : display'[p] = E[p]
      BY <2>1, <2>5 DEF Added
    <3>2. ASSUME NEW p \in Objects, display'[p] # Free PROVE display'[p].id < serial'
      BY <2>1, <2>3, <3>1, <3>2, LimitAssumption
    <3>3. ASSUME NEW p \in Objects, NEW q \in Objects, display'[p] # Free, display'[q] # Free,
                 display'[p].id = display'[q].id, p # q
          PROVE  FALSE
      BY <2>1, <2>2, <2>3, <3>1, <3>3 DEF IdsBelow
    <3> QED  BY <3>2, <3>3 DEF IdsBelow
  <2> QED  BY <1>3, <2>4, <2>5
<1>4. CASE CreateDisplay(E, h, n)
  <2>1. E \in Displays
    BY DEF Requested
  <2> QED  BY <1>3, <1>4, <2>1, CreateAdds
<1> QED  BY <1>2, <1>4 DEF Requested

(* Until the serial reaches its maximum the id of a display, also of one   *)
(* that left the store, is not given out again.                            *)
THEOREM IdsAreUnique == Spec => []SessionIdsUnique
<1> DEFINE IdInv == serial < MaxId => IdsBelow(display, serial)
<1>0. SessionIdsUnique <=> IdInv
  BY DEF SessionIdsUnique, IdsBelow
<1>1. Init => DisplayTypeOK /\ IdInv
  BY LimitAssumption DEF Init, DisplayTypeOK, Displays, Purges, IdsBelow, Free
<1>2. DisplayTypeOK /\ IdInv /\ [Next]_vars => IdInv'
  <2> SUFFICES ASSUME DisplayTypeOK, IdInv, [Next]_vars, serial' < MaxId
               PROVE  IdsBelow(display', serial')
    OBVIOUS
  <2>1. display \in Displays /\ serial \in 1..MaxId
    BY DEF DisplayTypeOK
  <2>2. CASE OtherStep
    BY <2>2, OtherNarrows, NarrowerIds
  <2>3. ASSUME NEW h \in Hosts, NEW n \in Nums, NEW mitauth \in BOOLEAN, HandleRequest(h, n, mitauth)
        PROVE  IdsBelow(display', serial')
    BY <2>1, <2>3, RequestCases, RequestIds
  <2> QED  BY <2>2, <2>3, NextSplits
<1> HIDE DEF IdInv
<1> QED  BY <1>0, <1>1, <1>2, StepDisplayTypeOK, PTL DEF Spec
-----------------------------------------------------------------------------
(* Forward queries and managed forwards.                                   *)
Queries == [display : Hosts, from : Managers]
Choices == {NoClient, Unchosen, Here} \cup Managers

LEMMA RemovedSeq ==
    ASSUME NEW T, NEW s \in Seq(T), NEW k \in 1..Len(s)
    PROVE  /\ Removed(s, k) \in Seq(T)
           /\ Len(Removed(s, k)) = Len(s) - 1
           /\ \A j \in 1..(Len(s) - 1) : Removed(s, k)[j] = IF j < k THEN s[j] ELSE s[j + 1]
<1> DEFINE a == SubSeq(s, 1, k - 1)
           b == SubSeq(s, k + 1, Len(s))
<1>0. Len(s) \in Nat /\ \A j \in 1..Len(s) : s[j] \in T
  BY LenProperties, ElementOfSeq
<1>1. /\ a \in Seq(T) /\ Len(a) = k - 1
      /\ \A j \in 1..(k - 1) : a[j] = s[j]
  <2>1. \A j \in 1..(k - 1) : s[j] \in T
    BY <1>0
  <2>2. /\ a \in Seq(T) /\ Len(a) = IF 1 <= k - 1 THEN (k - 1) - 1 + 1 ELSE 0
        /\ \A j \in 1..((k - 1) - 1 + 1) : a[j] = s[1 + j - 1]
    BY <1>0, <2>1, SubSeqProperties
  <2> HIDE DEF a
  <2> QED  BY <1>0, <2>2
<1>2. /\ b \in Seq(T) /\ Len(b) = Len(s) - k
      /\ \A j \in 1..(Len(s) - k) : b[j] = s[k + j]
  <2>1. \A j \in (k + 1)..Len(s) : s[j] \in T
    BY <1>0
  <2>2. /\ b \in Seq(T) /\ Len(b) = IF k + 1 <= Len(s) THEN Len(s) - (k + 1) + 1 ELSE 0
        /\ \A j \in 1..(Len(s) - (k + 1) + 1) : b[j] = s[(k + 1) + j - 1]
    BY <1>0, <2>1, SubSeqProperties
  <2> HIDE DEF b
  <2> QED  BY <1>0, <2>2
<1> HIDE DEF a, b
<1>3. /\ a \o b \in Seq(T) /\ Len(a \o b) = Len(a) + Len(b)
      /\ \A j \in 1..(Len(a) + Len(b)) : (a \o b)[j] = IF j <= Len(a) THEN a[j] ELSE b[j - Len(a)]
  BY <1>1, <1>2, ConcatProperties
<1>4. Removed(s, k) = a \o b
  BY DEF Removed, a, b
<1>5. ASSUME NEW j \in 1..(Len(s) - 1)
      PROVE  (a \o b)[j] = IF j < k THEN s[j] ELSE s[j + 1]
  <2>1. CASE j < k
    BY <1>0, <1>1, <1>2, <1>3, <2>1
  <2>2. CASE ~(j < k)
    <3>1. (a \o b)[j] = b[j - (k - 1)]
      BY <1>0, <1>1, <1>2, <1>3, <2>2
    <3>2. j - (k - 1) \in 1..(Len(s) - k)
      BY <1>0, <2>2
    <3>3. k + (j - (k - 1)) = j + 1
      BY <1>0
    <3> QED  BY <1>2, <2>2, <3>1, <3>2, <3>3
  <2> QED  BY <2>1, <2>2
<1>6. Len(a) + Len(b) = Len(s) - 1
  BY <1>0, <1>1, <1>2
<1> QED  BY <1>3, <1>4, <1>5, <1>6

(* Prepending.                                                             *)
LEMMA PrependedSeq ==
    ASSUME NEW T, NEW s \in Seq(T), NEW x \in T
    PROVE  /\ <<x>> \o s \in Seq(T)
           /\ Len(<<x>> \o s) = Len(s) + 1
           /\ (<<x>> \o s)[1] = x
           /\ \A j \in 1..Len(s) : (<<x>> \o s)[j + 1] = s[j]
<1>1. <<x>> \in Seq(T) /\ Len(<<x>>) = 1 /\ <<x>>[1] = x
  OBVIOUS
<1>2. Len(s) \in Nat
  BY LenProperties
<1>3. /\ <<x>> \o s \in Seq(T) /\ Len(<<x>> \o s) = 1 + Len(s)
      /\ \A i \in 1..(1 + Len(s)) : (<<x>> \o s)[i] = IF i <= 1 THEN <<x>>[i] ELSE s[i - 1]
  BY <1>1, ConcatProperties
<1>4. (<<x>> \o s)[1] = x
  BY <1>1, <1>2, <1>3
<1>5. ASSUME NEW j \in 1..Len(s) PROVE (<<x>> \o s)[j + 1] = s[j]
  <2>1. j + 1 \in 1..(1 + Len(s)) /\ ~(j + 1 <= 1) /\ (j + 1) - 1 = j
    BY <1>2
  <2> QED  BY <1>3, <2>1
<1> QED  BY <1>2, <1>3, <1>4, <1>5

LEMMA EvictedSeq ==
    ASSUME NEW T, NEW s \in Seq(T)
    PROVE  /\ Evicted(s) \in Seq(T)
           /\ \E n \in Nat : /\ Len(s) = Len(Evicted(s)) + n
                             /\ \A j \in 1..Len(Evicted(s)) : Evicted(s)[j] = s[j + n]
<1>0. Len(s) \in Nat /\ MaxForwardQueries \in Nat /\ \A j \in 1..Len(s) : s[j] \in T
  BY LenProperties, ElementOfSeq, LimitAssumption
<1>1. CASE Len(s) > MaxForwardQueries
  <2> DEFINE n == Len(s) - MaxForwardQueries
             e == SubSeq(s, n + 1, Len(s))
  <2>1. n \in Nat /\ \A j \in (n + 1)..Len(s) : s[j] \in T
    BY <1>0, <1>1
  <2>2. /\ e \in Seq(T)
        /\ Len(e) = IF n + 1 <= Len(s) THEN Len(s) - (n + 1) + 1 ELSE 0
        /\ \A j \in 1..(Len(s) - (n + 1) + 1) : e[j] = s[(n + 1) + j - 1]
    BY <1>0, <2>1, SubSeqProperties
  <2>3. Evicted(s) = e
    BY <1>1 DEF Evicted
  <2> HIDE DEF e
  <2>4. Len(e) = MaxForwardQueries
    BY <1>0, <1>1, <2>2
  <2>5. ASSUME NEW j \in 1..MaxForwardQueries PROVE e[j] = s[j + n]
    <3>1. j \in 1..(Len(s) - (n + 1) + 1) /\ (n + 1) + j - 1 = j + n
      BY <1>0
    <3> QED  BY <2>2, <3>1
  <2>6. Len(s) = Len(e) + n
    BY <1>0, <2>4
  <2> HIDE DEF n
  <2> QED  BY <2>1, <2>2, <2>3, <2>4, <2>5, <2>6
<1>2. CASE ~(Len(s) > MaxForwardQueries)
  <2>1. Evicted(s) = s
    BY <1>2 DEF Evicted
  <2>2. Len(s) = Len(s) + 0 /\ \A j \in 1..Len(s) : s[j] = s[j + 0]
    BY <1>0
  <2> QED  BY <2>1, <2>2
<1> QED  BY <1>1, <1>2

(* A terminal is in one forward query at most.                             *)
Distinct(s) == \A j, k \in 1..Len(s) : s[j].display = s[k].display => j = k

LEMMA RemovedDistinct ==
    ASSUME NEW s \in Seq(Queries), NEW k \in 1..Len(s), Distinct(s)
    PROVE  /\ Removed(s, k) \in Seq(Queries) /\ Distinct(Removed(s, k))
           /\ \A j \in 1..Len(Removed(s, k)) :
                \E i \in 1..Len(s) : Removed(s, k)[j] = s[i] /\ s[i].display # s[k].display
<1> DEFINE r == Removed(s, k)
           place(j) == IF j < k THEN j ELSE j + 1
<1>0. Len(s) \in Nat
  BY LenProperties
<1>1. r \in Seq(Queries) /\ Len(r) = Len(s) - 1 /\ \A j \in 1..Len(r) : r[j] = s[place(j)]
  BY RemovedSeq
<1> HIDE DEF r
<1>2. ASSUME NEW j \in 1..Len(r)
      PROVE  place(j) \in 1..Len(s) /\ place(j) # k
  BY <1>0, <1>1
<1>3. ASSUME NEW i \in 1..Len(r), NEW j \in 1..Len(r), place(i) = place(j) PROVE i = j
  BY <1>0, <1>1, <1>3
<1> HIDE DEF place
<1>4. Distinct(r)
  BY <1>1, <1>2, <1>3 DEF Distinct
<1>5. \A j \in 1..Len(r) : \E i \in 1..Len(s) : r[j] = s[i] /\ s[i].display # s[k].display
  BY <1>1, <1>2 DEF Distinct
<1> QED  BY <1>1, <1>4, <1>5 DEF r

LEMMA EvictedDistinct ==
    ASSUME NEW s \in Seq(Queries), Distinct(s)
    PROVE  /\ Evicted(s) \in Seq(Queries) /\ Distinct(Evicted(s))
           /\ \A j \in 1..Len(Evicted(s)) : \E i \in 1..Len(s) : Evicted(s)[j] = s[i]
<1> DEFINE e == Evicted(s)
<1>1. e \in Seq(Queries)
  BY EvictedSeq
<1>2. PICK n \in Nat : Len(s) = Len(e) + n /\ \A j \in 1..Len(e) : e[j] = s[j + n]
  BY EvictedSeq
<1> HIDE DEF e
<1>3. Len(e) \in Nat /\ Len(s) \in Nat
  BY <1>1, LenProperties
<1>4. ASSUME NEW j \in 1..Len(e) PROVE j + n \in 1..Len(s) /\ e[j] = s[j + n]
  BY <1>2, <1>3
<1>5. ASSUME NEW i \in 1..Len(e), NEW j \in 1..Len(e), e[i].display = e[j].display PROVE i = j
  <2>1. i + n = j + n
    BY <1>4, <1>5 DEF Distinct
  <2> QED  BY <1>3, <2>1
<1>6. Distinct(e)
  BY <1>5 DEF Distinct
<1>7. \A j \in 1..Len(e) : \E i \in 1..Len(s) : e[j] = s[i]
  BY <1>4
<1> QED  BY <1>1, <1>6, <1>7 DEF e

LEMMA CreatedDistinct ==
    ASSUME NEW s \in Seq(Queries), Distinct(s), NEW m \in Managers, NEW h \in Hosts,
           \A i \in 1..Len(s) : s[i].display # h
    PROVE  LET c == CreateForward(s, m, h) IN
           /\ c \in Seq(Queries) /\ Distinct(c)
           /\ \A j \in 1..Len(c) : \/ c[j] = [display |-> h, from |-> m]
                                   \/ \E i \in 1..Len(s) : c[j] = s[i]
<1> DEFINE q == [display |-> h, from |-> m]
           e == Evicted(s)
           c == <<q>> \o e
<1>0. q \in Queries /\ q.display = h
  BY DEF Queries
<1>1. e \in Seq(Queries) /\ Distinct(e) /\ \A j \in 1..Len(e) : \E i \in 1..Len(s) : e[j] = s[i]
  BY EvictedDistinct
<1> HIDE DEF q, e
<1>2. /\ c \in Seq(Queries) /\ Len(c) = Len(e) + 1 /\ c[1] = q
      /\ \A j \in 1..Len(e) : c[j + 1] = e[j]
  BY <1>0, <1>1, PrependedSeq
<1> HIDE DEF c
<1>3. Len(e) \in Nat
  BY <1>1, LenProperties
<1>4. ASSUME NEW j \in 1..Len(c), j # 1
      PROVE  j - 1 \in 1..Len(e) /\ c[j] = e[j - 1]
  <2>1. j - 1 \in 1..Len(e) /\ (j - 1) + 1 = j
    BY <1>2, <1>3, <1>4
  <2>2. c[(j - 1) + 1] = e[j - 1]
    BY <1>2, <2>1
  <2> QED  BY <2>1, <2>2
<1>5. ASSUME NEW i \in 1..Len(c), NEW j \in 1..Len(c), c[i].display = c[j].display
      PROVE  i = j
  <2>1. \A k \in 1..Len(e) : e[k].display # h
    BY <1>1
  <2>2. CASE i # 1 /\ j # 1
    <3>0. /\ i - 1 \in 1..Len(e) /\ j - 1 \in 1..Len(e)
          /\ e[i - 1].display = e[j - 1].display
      BY <1>4, <1>5, <2>2
    <3>1. i - 1 = j - 1
      BY <1>1, <3>0 DEF Distinct
    <3> QED  BY <1>2, <1>3, <3>1
  <2>3. CASE i = 1 /\ j # 1
    BY <1>0, <1>2, <1>4, <1>5, <2>1, <2>3
  <2>4. CASE i # 1 /\ j = 1
    BY <1>0, <1>2, <1>4, <1>5, <2>1, <2>4
  <2> QED  BY <2>2, <2>3, <2>4
<1>6. Distinct(c)
  BY <1>5 DEF Distinct
<1>7. \A j \in 1..Len(c) : c[j] = q \/ \E i \in 1..Len(s) : c[j] = s[i]
  BY ZenonT(40), <1>1, <1>2, <1>4
<1> QED  BY <1>2, <1>6, <1>7 DEF CreateForward, c, e, q
-----------------------------------------------------------------------------
Pairs == Managers \X Hosts

LEMMA PairFacts ==
    ASSUME NEW m \in Managers, NEW h \in Hosts
    PROVE  <<m, h>> \in Pairs
  BY DEF Pairs

ForwardTypeOK ==
    /\ forwards \in Seq(Queries)
    /\ managed \in [Pairs -> Seq(0..1)]

(* A pair of a manager and a terminal is in one forward query, or has one  *)
(* managed forward.                                                        *)
ForwardInv ==
    /\ ForwardTypeOK
    /\ Distinct(forwards)
    /\ \A p \in Pairs : Len(managed[p]) \in {0, 1}
    /\ \A k \in 1..Len(forwards) : managed[<<forwards[k].from, forwards[k].display>>] = <<>>

LEMMA LookupPlace ==
    ASSUME ForwardInv, NEW h
    PROVE  /\ \A k \in Lookup(forwards, h) :
                 /\ k \in 1..Len(forwards) /\ forwards[k] \in Queries /\ forwards[k].display = h
           /\ Lookup(forwards, h) = {} => \A k \in 1..Len(forwards) : forwards[k].display # h
<1>1. Len(forwards) \in Nat /\ DOMAIN forwards = 1..Len(forwards)
  BY LenProperties DEF ForwardInv, ForwardTypeOK
<1>2. \A k \in 1..Len(forwards) : forwards[k] \in Queries
  BY ElementOfSeq DEF ForwardInv, ForwardTypeOK
<1>3. ASSUME NEW k \in 1..Len(forwards), forwards[k].display = h
      PROVE  k \in Lookup(forwards, h)
  <2>1. \A j \in 1..(k - 1) : j \in 1..Len(forwards) /\ j # k
    BY <1>1
  <2> QED  BY <1>1, <1>3, <2>1 DEF Lookup, ForwardInv, Distinct
<1> QED  BY <1>1, <1>2, <1>3 DEF Lookup

(* A managed forward is added for a forward query that is removed.         *)
LEMMA ResolvedKeeps ==
    ASSUME ForwardInv, NEW h \in Hosts, ForwardResolved(h)
    PROVE  ForwardInv'
<1>1. CASE UNCHANGED <<forwards, managed>>
  BY <1>1 DEF ForwardInv, ForwardTypeOK, Distinct
<1>2. ASSUME NEW k \in Lookup(forwards, h),
             forwards' = Removed(forwards, k), managed' = Queued(forwards[k].from, h)
      PROVE  ForwardInv'
  <2> DEFINE m == forwards[k].from
             p == <<m, h>>
  <2>1. k \in 1..Len(forwards) /\ forwards[k].display = h /\ m \in Managers
    BY LookupPlace DEF Queries
  <2>2. /\ forwards' \in Seq(Queries) /\ Distinct(forwards')
        /\ \A j \in 1..Len(forwards') :
              \E i \in 1..Len(forwards) : forwards'[j] = forwards[i] /\ forwards[i].display # h
    BY ZenonT(40), <1>2, <2>1, RemovedDistinct DEF ForwardInv, ForwardTypeOK
  <2>3. managed[p] = <<>>
    BY <2>1 DEF ForwardInv
  <2>4. managed' = [managed EXCEPT ![p] = <<0>> \o managed[p]]
    BY <1>2 DEF Queued
  <2>5. <<0>> \o managed[p] \in Seq(0..1) /\ Len(<<0>> \o managed[p]) = 1
    <3>1. <<>> \in Seq(0..1) /\ Len(<<>>) = 0 /\ 0 \in 0..1
      BY EmptySeq
    <3>2. <<0>> \o <<>> \in Seq(0..1) /\ Len(<<0>> \o <<>>) = Len(<<>>) + 1
      BY <3>1, PrependedSeq
    <3> QED  BY <2>3, <3>1, <3>2
  <2> HIDE DEF m
  <2>6. /\ managed' \in [Pairs -> Seq(0..1)]
        /\ Len(managed'[p]) = 1
        /\ \A q \in Pairs : q # p => managed'[q] = managed[q]
    <3>1. p \in Pairs
      BY <2>1, PairFacts
    <3> HIDE DEF p
    <3> QED  BY <2>4, <2>5, <3>1 DEF ForwardInv, ForwardTypeOK
  <2>7. \A q \in Pairs : Len(managed'[q]) \in {0, 1}
    BY <2>6 DEF ForwardInv
  <2>8. ASSUME NEW j \in 1..Len(forwards')
        PROVE  managed'[<<forwards'[j].from, forwards'[j].display>>] = <<>>
    <3>1. PICK i \in 1..Len(forwards) : forwards'[j] = forwards[i] /\ forwards[i].display # h
      BY <2>2
    <3>2. forwards[i] \in Queries
      BY ElementOfSeq DEF ForwardInv, ForwardTypeOK
    <3>3. /\ <<forwards[i].from, forwards[i].display>> \in Pairs
          /\ <<forwards[i].from, forwards[i].display>> # p
      BY <3>1, <3>2, PairFacts DEF Queries
    <3> QED  BY <2>6, <3>1, <3>3 DEF ForwardInv
  <2> QED  BY <2>2, <2>6, <2>7, <2>8 DEF ForwardInv, ForwardTypeOK
<1> QED  BY <1>1, <1>2 DEF ForwardResolved

(* Removing managed forwards.                                              *)
LEMMA WhackedPair ==
    ASSUME ForwardInv, NEW m \in Managers, NEW h \in Hosts
    PROVE  /\ Whacked(m, h) \in [Pairs -> Seq(0..1)]
           /\ Whacked(m, h)[<<m, h>>] = <<>>
           /\ \A q \in Pairs : q # <<m, h>> => Whacked(m, h)[q] = managed[q]
<1> DEFINE p == <<m, h>>
           s == managed[p]
           t == IF s = <<>> THEN s ELSE Tail(s)
<1>1. p \in Pairs /\ s \in Seq(0..1) /\ Len(s) \in {0, 1}
  BY PairFacts DEF ForwardInv, ForwardTypeOK
<1>2. t = <<>>
  <2>1. CASE s = <<>>
    BY <2>1
  <2>2. CASE s # <<>>
    <3>1. Tail(s) \in Seq(0..1) /\ Len(Tail(s)) = Len(s) - 1
      BY <1>1, <2>2, HeadTailProperties
    <3>2. Len(s) \in Nat \ {0}
      BY <1>1, <2>2, EmptySeq
    <3>3. Len(Tail(s)) = 0
      BY <1>1, <3>1, <3>2
    <3>4. Tail(s) = <<>>
      BY <3>1, <3>3, EmptySeq
    <3> QED  BY <2>2, <3>4
  <2> QED  BY <2>1, <2>2
<1>3. <<>> \in Seq(0..1)
  BY EmptySeq
<1>4. Whacked(m, h) = [managed EXCEPT ![p] = <<>>]
  BY <1>2 DEF Whacked
<1> HIDE DEF p
<1>5. /\ Whacked(m, h) \in [Pairs -> Seq(0..1)]
      /\ Whacked(m, h)[p] = <<>>
      /\ \A q \in Pairs : q # p => Whacked(m, h)[q] = managed[q]
  BY <1>1, <1>3, <1>4 DEF ForwardInv, ForwardTypeOK
<1> QED  BY <1>5 DEF p

LEMMA WhackedKeeps ==
    ASSUME ForwardInv, NEW m \in Managers, NEW h \in Hosts,
           managed' = Whacked(m, h), UNCHANGED forwards
    PROVE  ForwardInv'
<1>1. \A q \in Pairs : managed'[q] = managed[q] \/ managed'[q] = <<>>
  BY WhackedPair
<1>2. Len(<<>>) = 0
  BY EmptySeq
<1>3. \A q \in Pairs : Len(managed'[q]) \in {0, 1}
  BY <1>1, <1>2 DEF ForwardInv
<1>4. ASSUME NEW k \in 1..Len(forwards)
      PROVE  <<forwards[k].from, forwards[k].display>> \in Pairs
  <2>1. forwards[k] \in Queries
    BY ElementOfSeq DEF ForwardInv, ForwardTypeOK
  <2> QED  BY <2>1, PairFacts DEF Queries
<1> QED  BY ZenonT(40), <1>1, <1>3, <1>4, WhackedPair DEF ForwardInv, ForwardTypeOK, Distinct

LEMMA ForwardQueryKeeps ==
    ASSUME ForwardInv, NEW m \in Managers, NEW h \in Hosts, HandleForwardQuery(m, h)
    PROVE  ForwardInv'
<1>0. managed' = Whacked(m, h) /\ (ForwardRenewed(m, h) \/ UNCHANGED forwards)
  BY DEF HandleForwardQuery
<1>1. CASE UNCHANGED forwards
  BY <1>0, <1>1, WhackedKeeps
<1>2. ASSUME NEW s \in Seq(Queries), Distinct(s), forwards' = CreateForward(s, m, h),
             \A j \in 1..Len(s) : \E i \in 1..Len(forwards) : s[j] = forwards[i] /\ s[j].display # h
      PROVE  ForwardInv'
  <2>1. /\ forwards' \in Seq(Queries) /\ Distinct(forwards')
        /\ \A j \in 1..Len(forwards') : \/ forwards'[j] = [display |-> h, from |-> m]
                                        \/ \E i \in 1..Len(s) : forwards'[j] = s[i]
    BY <1>2, CreatedDistinct
  <2>2. ASSUME NEW j \in 1..Len(forwards')
        PROVE  managed'[<<forwards'[j].from, forwards'[j].display>>] = <<>>
    <3>1. CASE forwards'[j] = [display |-> h, from |-> m]
      BY <1>0, <3>1, WhackedPair
    <3>2. CASE \E i \in 1..Len(s) : forwards'[j] = s[i]
      <4>1. PICK i \in 1..Len(forwards) : forwards'[j] = forwards[i] /\ forwards[i].display # h
        BY <1>2, <3>2
      <4>2. forwards[i] \in Queries
        BY ElementOfSeq DEF ForwardInv, ForwardTypeOK
      <4>3. /\ <<forwards[i].from, forwards[i].display>> \in Pairs
            /\ <<forwards[i].from, forwards[i].display>> # <<m, h>>
        BY <4>1, <4>2, PairFacts DEF Queries
      <4>4. managed'[<<forwards[i].from, forwards[i].display>>]
              = managed[<<forwards[i].from, forwards[i].display>>]
        BY <1>0, <4>3, WhackedPair
      <4> QED  BY <4>1, <4>4 DEF ForwardInv
    <3> QED  BY <2>1, <3>1, <3>2
  <2>3. managed' \in [Pairs -> Seq(0..1)]
    BY <1>0, WhackedPair
  <2>4. \A q \in Pairs : Len(managed'[q]) \in {0, 1}
    <3>1. \A q \in Pairs : managed'[q] = managed[q] \/ managed'[q] = <<>>
      BY <1>0, WhackedPair
    <3> QED  BY <3>1, EmptySeq DEF ForwardInv
  <2> QED  BY <2>1, <2>2, <2>3, <2>4 DEF ForwardInv, ForwardTypeOK
<1>3. CASE Lookup(forwards, h) = {} /\ forwards' = CreateForward(forwards, m, h)
  <2>1. \A k \in 1..Len(forwards) : forwards[k].display # h
    BY <1>3, LookupPlace
  <2> QED  BY <1>2, <1>3, <2>1 DEF ForwardInv, ForwardTypeOK
<1>4. ASSUME NEW k \in Lookup(forwards, h), forwards' = CreateForward(Removed(forwards, k), m, h)
      PROVE  ForwardInv'
  <2>1. k \in 1..Len(forwards) /\ forwards[k].display = h
    BY LookupPlace
  <2>2. LET s == Removed(forwards, k) IN
        /\ s \in Seq(Queries) /\ Distinct(s)
        /\ \A j \in 1..Len(s) :
              \E i \in 1..Len(forwards) : s[j] = forwards[i] /\ forwards[i].display # h
    BY <2>1, RemovedDistinct DEF ForwardInv, ForwardTypeOK
  <2> QED  BY <1>2, <1>4, <2>2
<1> QED  BY <1>0, <1>1, <1>3, <1>4 DEF ForwardRenewed

LEMMA ResendKeeps ==
    ASSUME ForwardInv, NEW m \in Managers, NEW h \in Hosts, ResendManagedForward(m, h)
    PROVE  ForwardInv'
<1> DEFINE p == <<m, h>>
           s == managed[p]
           t(k) == IF s[k] + 1 >= 2 THEN Removed(s, k) ELSE [s EXCEPT ![k] = s[k] + 1]
<1>1. PICK k \in DOMAIN s : managed' = [managed EXCEPT ![p] = t(k)]
  BY DEF ResendManagedForward
<1>2. p \in Pairs /\ s \in Seq(0..1) /\ Len(s) \in {0, 1}
  BY PairFacts DEF ForwardInv, ForwardTypeOK
<1>3. k \in 1..Len(s) /\ s[k] \in 0..1
  BY <1>2, LenProperties, ElementOfSeq
<1>4. t(k) \in Seq(0..1) /\ Len(t(k)) \in {0, 1}
  <2>1. CASE s[k] + 1 >= 2
    <3>1. Removed(s, k) \in Seq(0..1) /\ Len(Removed(s, k)) = Len(s) - 1
      BY <1>2, <1>3, RemovedSeq
    <3>2. Len(s) = 1
      BY <1>2, <1>3
    <3> QED  BY <2>1, <3>1, <3>2
  <2>2. CASE ~(s[k] + 1 >= 2)
    <3>1. s[k] + 1 \in 0..1
      BY <1>3, <2>2
    <3>2. /\ [s EXCEPT ![k] = s[k] + 1] \in Seq(0..1)
          /\ Len([s EXCEPT ![k] = s[k] + 1]) = Len(s)
      <4> HIDE DEF s
      <4> QED  BY <1>2, <1>3, <3>1, ExceptSeq
    <3> QED  BY <1>2, <2>2, <3>2
  <2> QED  BY <2>1, <2>2
<1>5. s # <<>>
  <2>1. Len(<<>>) = 0
    BY EmptySeq
  <2> QED  BY <1>3, <2>1
<1>6. UNCHANGED forwards
  BY DEF ResendManagedForward
<1> HIDE DEF t
<1>7. /\ managed' \in [Pairs -> Seq(0..1)]
      /\ \A q \in Pairs : managed'[q] = IF q = p THEN t(k) ELSE managed[q]
  <2> HIDE DEF p
  <2> QED  BY <1>1, <1>2, <1>4 DEF ForwardInv, ForwardTypeOK
<1>8. \A q \in Pairs : Len(managed'[q]) \in {0, 1}
  BY <1>4, <1>7 DEF ForwardInv
<1>9. ASSUME NEW j \in 1..Len(forwards)
      PROVE  managed'[<<forwards[j].from, forwards[j].display>>] = <<>>
  <2>1. forwards[j] \in Queries
    BY ElementOfSeq DEF ForwardInv, ForwardTypeOK
  <2> DEFINE q == <<forwards[j].from, forwards[j].display>>
  <2>2. q \in Pairs
    BY <2>1, PairFacts DEF Queries
  <2>3. managed[q] = <<>>
    BY DEF ForwardInv
  <2> HIDE DEF q
  <2>4. q # p
    BY <1>5, <2>3
  <2>5. managed'[q] = <<>>
    BY <1>7, <2>2, <2>3, <2>4
  <2> QED  BY <2>5 DEF q
<1> QED  BY <1>6, <1>7, <1>8, <1>9 DEF ForwardInv, ForwardTypeOK, Distinct

LEMMA ForwardSame == ForwardInv /\ UNCHANGED <<forwards, managed>> => ForwardInv'
  BY DEF ForwardInv, ForwardTypeOK, Distinct

LEMMA StepForward == ForwardInv /\ [Next]_vars => ForwardInv'
<1> SUFFICES ASSUME ForwardInv, [Next]_vars PROVE ForwardInv'
  OBVIOUS
<1>1. ASSUME NEW o \in Objects, DisplayStep(o) PROVE UNCHANGED <<forwards, managed>>
  BY <1>1 DEF DisplayStep, Connected, ConnectFails, UserLogsIn, SessionDisconnected, GreeterEnds,
              FinishIdle, forwardVars
<1>2. ASSUME NEW o \in Objects, NEW m \in Managers \cup {Here}, HostnameSelected(o, m)
      PROVE  UNCHANGED <<forwards, managed>>
  BY <1>2 DEF HostnameSelected
<1>3. ASSUME PurgeIdle PROVE UNCHANGED <<forwards, managed>>
  BY <1>3 DEF PurgeIdle, forwardVars
<1>4. ASSUME NEW h \in Hosts, PacketFrom(h)
      PROVE  ForwardResolved(h) \/ UNCHANGED <<forwards, managed>>
  <2>1. ASSUME NEW n \in Nums, NEW mitauth \in BOOLEAN, HandleRequest(h, n, mitauth)
        PROVE  ForwardResolved(h) \/ UNCHANGED <<forwards, managed>>
    <3>1. \E D : Decline(D, h) \/ CreateDisplay(D, h, n)
      BY <2>1 DEF HandleRequest
    <3> QED  BY <3>1 DEF Decline, CreateDisplay
  <2>2. ASSUME NEW i \in 1..MaxId, HandleManage(h, i) PROVE ForwardResolved(h)
    BY <2>2 DEF HandleManage
  <2>3. ASSUME RefuseManage(h) PROVE ForwardResolved(h)
    BY <2>3 DEF RefuseManage
  <2>4. ASSUME HandleIndirectQuery(h) PROVE UNCHANGED <<forwards, managed>>
    BY <2>4 DEF HandleIndirectQuery
  <2> QED  BY <1>4, <2>1, <2>2, <2>3, <2>4 DEF PacketFrom
<1>5. ASSUME NEW m \in Managers, NEW h \in Hosts, ManagerStep(m, h)
      PROVE  ForwardInv'
  <2>1. CASE HandleForwardQuery(m, h)
    BY <2>1, ForwardQueryKeeps
  <2>2. CASE HandleManagedForward(m, h)
    BY <2>2, ForwardSame DEF HandleManagedForward
  <2>3. CASE HandleGotManagedForward(m, h)
    BY <2>3, WhackedKeeps DEF HandleGotManagedForward
  <2>4. CASE ResendManagedForward(m, h)
    BY <2>4, ResendKeeps
  <2> QED  BY <1>5, <2>1, <2>2, <2>3, <2>4 DEF ManagerStep
<1>6. CASE UNCHANGED vars
  BY <1>6, ForwardSame DEF vars, forwardVars
<1> QED  BY <1>1, <1>2, <1>3, <1>4, <1>5, <1>6, ForwardSame, ResolvedKeeps DEF Next

LEMMA InitForward == Init => ForwardInv
<1> SUFFICES ASSUME Init PROVE ForwardInv
  OBVIOUS
<1>1. <<>> \in Seq(Queries) /\ <<>> \in Seq(0..1) /\ Len(<<>>) = 0
  BY EmptySeq
<1>2. forwards = <<>> /\ managed = [p \in Pairs |-> <<>>]
  BY DEF Init, Pairs
<1> QED  BY <1>1, <1>2 DEF ForwardInv, ForwardTypeOK, Distinct

LEMMA ForwardInvSuffices == ForwardInv => OneManagedForward
<1> SUFFICES ASSUME ForwardInv, NEW m \in Managers, NEW h \in Hosts
             PROVE  LET K == {k \in DOMAIN forwards : forwards[k] = [display |-> h, from |-> m]}
                    IN  Cardinality(K) + Len(managed[<<m, h>>]) <= 1
  BY DEF OneManagedForward
<1> DEFINE K == {k \in DOMAIN forwards : forwards[k] = [display |-> h, from |-> m]}
<1>1. DOMAIN forwards = 1..Len(forwards)
  BY LenProperties DEF ForwardInv, ForwardTypeOK
<1>2. Len(managed[<<m, h>>]) \in {0, 1}
  BY PairFacts DEF ForwardInv
<1>3. ASSUME K = {} PROVE Cardinality(K) + Len(managed[<<m, h>>]) <= 1
  <2>1. Cardinality(K) = 0
    BY <1>3, FS_EmptySet
  <2> DEFINE n == Len(managed[<<m, h>>])
             c == Cardinality(K)
  <2> HIDE DEF n, c
  <2>2. \A i, j : i = 0 /\ j \in {0, 1} => i + j <= 1
    OBVIOUS
  <2>3. c + n <= 1
    BY <1>2, <2>1, <2>2 DEF c, n
  <2> QED  BY <2>3 DEF c, n
<1>4. ASSUME NEW k \in K PROVE Cardinality(K) + Len(managed[<<m, h>>]) <= 1
  <2>1. K = {k}
    BY <1>1 DEF ForwardInv, Distinct
  <2>2. Cardinality(K) = 1
    BY <2>1, FS_Singleton
  <2>3. managed[<<m, h>>] = <<>>
    BY <1>1 DEF ForwardInv
  <2>4. Len(<<>>) = 0
    BY EmptySeq
  <2> HIDE DEF K
  <2> QED  BY <2>2, <2>3, <2>4
<1> HIDE DEF K
<1>5. Cardinality(K) + Len(managed[<<m, h>>]) <= 1
  <2>1. CASE K = {}
    BY <1>3, <2>1
  <2>2. CASE K # {}
    <3>1. PICK k \in K : TRUE
      BY <2>2
    <3> QED  BY <1>4
  <2> QED  BY <2>1, <2>2
<1> QED  BY <1>5 DEF K

(* In whatever order queries, answers and timers come, a manager has one   *)
(* forward query or one managed forward for a terminal.                    *)
THEOREM ForwardsAreSingle == Spec => []OneManagedForward
  BY InitForward, StepForward, ForwardInvSuffices, PTL DEF Spec
-----------------------------------------------------------------------------
(* The choices made for terminals.                                         *)
IndirectOK == indirect \in [Hosts -> Choices]

LEMMA ChooseType ==
    ASSUME IndirectOK, NEW h \in Hosts, NEW c \in Choices
    PROVE  [indirect EXCEPT ![h] = c] \in [Hosts -> Choices]
  BY DEF IndirectOK

LEMMA StepIndirect == DisplayTypeOK /\ IndirectOK /\ [Next]_vars => IndirectOK'
<1> SUFFICES ASSUME DisplayTypeOK, IndirectOK, [Next]_vars PROVE IndirectOK'
  OBVIOUS
<1>0. {NoClient, Unchosen, Here} \cup Managers \subseteq Choices
  BY DEF Choices
<1>1. ASSUME UNCHANGED indirect PROVE IndirectOK'
  BY <1>1 DEF IndirectOK
<1>2. ASSUME NEW o \in Objects, DisplayStep(o) PROVE UNCHANGED indirect
  BY <1>2 DEF DisplayStep, Connected, ConnectFails, UserLogsIn, SessionDisconnected, GreeterEnds,
              FinishIdle, forwardVars
<1>3. ASSUME NEW o \in Objects, NEW m \in Managers \cup {Here}, HostnameSelected(o, m)
      PROVE  IndirectOK'
  <2> DEFINE h == display[o].host
  <2>1. display[o] \in DisplayType
    BY <1>3 DEF HostnameSelected, DisplayTypeOK, Displays
  <2>2. h \in Hosts
    BY <2>1 DEF DisplayType
  <2>3. indirect' = indirect \/ \E c \in {Unchosen, m} : indirect' = [indirect EXCEPT ![h] = c]
    BY <1>3 DEF HostnameSelected
  <2> HIDE DEF h
  <2> QED  BY <1>0, <1>1, <2>2, <2>3, ChooseType DEF IndirectOK
<1>4. ASSUME PurgeIdle PROVE UNCHANGED indirect
  BY <1>4 DEF PurgeIdle, forwardVars
<1>5. ASSUME NEW h \in Hosts, PacketFrom(h) PROVE IndirectOK'
  <2>1. indirect' = indirect \/ \E c \in {NoClient, Unchosen} : indirect' = [indirect EXCEPT ![h] = c]
    BY <1>5 DEF PacketFrom, HandleRequest, HandleManage, RefuseManage, HandleIndirectQuery
  <2> QED  BY <1>0, <1>1, <2>1, ChooseType DEF IndirectOK
<1>6. ASSUME NEW m \in Managers, NEW h \in Hosts, ManagerStep(m, h) PROVE IndirectOK'
  <2>1. \/ indirect' = indirect
        \/ \E c \in ForwardedTo(m, h) : indirect' = [indirect EXCEPT ![c] = NoClient]
    BY <1>6 DEF ManagerStep, HandleForwardQuery, HandleManagedForward, HandleGotManagedForward,
                ResendManagedForward
  <2>2. ForwardedTo(m, h) \subseteq Hosts
    BY DEF ForwardedTo
  <2> QED  BY <1>0, <1>1, <2>1, <2>2, ChooseType DEF IndirectOK
<1>7. CASE UNCHANGED vars
  BY <1>1, <1>7 DEF vars, forwardVars
<1> QED  BY <1>1, <1>2, <1>3, <1>4, <1>5, <1>6, <1>7 DEF Next

LEMMA InitTypes == Init => DisplayTypeOK /\ IndirectOK
  BY LimitAssumption DEF Init, DisplayTypeOK, Displays, Purges, IndirectOK, Choices

(* The variables keep their types; the parts about forward queries need    *)
(* that a managed forward is resent once before it is dropped.             *)
THEOREM TypesAreKept == Spec => []TypeOK
<1>1. DisplayTypeOK /\ IndirectOK /\ ForwardInv => TypeOK
  BY DEF DisplayTypeOK, Displays, Purges, IndirectOK, Choices, ForwardInv, ForwardTypeOK, Queries,
         Pairs, TypeOK
<1> QED  BY <1>1, InitTypes, InitForward, StepDisplayTypeOK, StepIndirect, StepForward, PTL DEF Spec
-----------------------------------------------------------------------------
(* Terminals with one display, to which one source at a time connects.     *)
OneAtATime == DisplaysPerHost <= 1 /\ LocalHosts = {} /\ MaxTimers <= 1

(* Then a display is connected to while it is PREPARED and in the store,   *)
(* and a session runs on it while it is MANAGED and in the store.          *)
Single(d) ==
    /\ d.timers \in {0, 1}
    /\ d.timers # 0 => d.status = "PREPARED"
    /\ d.status = "PREPARED" =>
          d.stored /\ ~d.session /\ ~d.finishing /\ d.env \in {"greeter", "chooser"}
    /\ d.session => d.stored /\ d.status = "MANAGED" /\ ~d.finishing

(* A chooser runs on it or is going to.                                    *)
Chooses(d) == d.env = "chooser" /\ (d.status = "PREPARED" \/ d.session)

(* A chooser's terminal has its IndirectClient, for which nothing is       *)
(* chosen yet.                                                             *)
Sound(d) == Single(d) /\ (Chooses(d) => indirect[d.host] = Unchosen)

AllSound == \A o \in Objects : display[o] # Free => Sound(display[o])

(* A display that goes on as e.                                            *)
LEMMA OneChanges ==
    ASSUME display \in Displays, AllSound, UNCHANGED indirect, NEW o \in Objects, NEW e \in DisplayType,
           SetDisplay(o, e), display[o] # Free, e.host = display[o].host,
           Single(e), Chooses(e) => Chooses(display[o])
    PROVE  AllSound'
<1>1. display' = [display EXCEPT ![o] = Settle(e)]
  BY DEF SetDisplay
<1>2. Settle(e) # Free => Settle(e) = e
  BY SettleType
<1>3. ASSUME NEW p \in Objects, display'[p] # Free
      PROVE  /\ Single(display'[p])
             /\ Chooses(display'[p]) => indirect'[display'[p].host] = Unchosen
  <2>1. CASE p = o
    <3>1. display'[p] = e
      BY <1>1, <1>2, <1>3, <2>1 DEF Displays
    <3>2. Chooses(e) => indirect[e.host] = Unchosen
      BY DEF AllSound, Sound
    <3> QED  BY <3>1, <3>2
  <2>2. CASE p # o
    <3>1. display'[p] = display[p]
      BY <1>1, <2>2 DEF Displays
    <3> QED  BY <1>3, <3>1 DEF AllSound, Sound
  <2> QED  BY <2>1, <2>2
<1> QED  BY <1>3 DEF AllSound, Sound, Single, Chooses

LEMMA ConnectedSound ==
    ASSUME DisplayTypeOK, AllSound, up, NEW o \in Objects, Connected(o)
    PROVE  AllSound' /\ up'
<1> DEFINE d == display[o]
           e == [d EXCEPT !.status = "MANAGED", !.timers = @ - 1, !.attempts = @ + 1]
           f == [e EXCEPT !.session = TRUE]
           g == Finished(e)
<1>0. display \in Displays /\ UNCHANGED indirect
  BY DEF DisplayTypeOK, Connected, forwardVars
<1>1. d # Free /\ d \in DisplayType /\ d.timers > 0
  BY DEF Connected, DisplayTypeOK, Displays
<1>2. Single(d)
  BY <1>1 DEF AllSound, Sound
<1>3. /\ d.timers = 1 /\ d.status = "PREPARED"
      /\ d.stored /\ ~d.session /\ ~d.finishing /\ d.env \in {"greeter", "chooser"}
  <2>1. d.timers # 0
    BY <1>1 DEF DisplayType
  <2> QED  BY <1>2, <2>1 DEF Single
<1>4. d.timers - 1 = 0 /\ d.attempts + 1 \in Nat
  BY <1>1, <1>3 DEF DisplayType
<1>5. /\ e \in DisplayType /\ e.host = d.host /\ e.timers = 0 /\ e.status = "MANAGED"
      /\ e.stored /\ e.session = d.session /\ e.finishing = d.finishing /\ e.env = d.env
  <2> DEFINE a == d.attempts + 1
             k == [d EXCEPT !.status = "MANAGED", !.timers = 0, !.attempts = a]
  <2>1. e = k
    BY <1>4
  <2>2. a \in Nat /\ 0 \in Nat /\ "MANAGED" \in Statuses
    BY <1>4 DEF Statuses
  <2> HIDE DEF a, d, e
  <2>3. /\ k \in DisplayType /\ k.status = "MANAGED" /\ k.timers = 0
        /\ k.host = d.host /\ k.stored = d.stored /\ k.session = d.session
        /\ k.finishing = d.finishing /\ k.env = d.env
    BY <1>1, <2>2 DEF DisplayType
  <2> HIDE DEF k
  <2> QED  BY <1>3, <2>1, <2>3
<1>6. /\ f \in DisplayType /\ f.host = d.host /\ f.timers = 0 /\ f.status = "MANAGED"
      /\ f.stored /\ f.session = TRUE /\ f.finishing = d.finishing /\ f.env = d.env
  <2> HIDE DEF d, e
  <2> QED  BY <1>5 DEF DisplayType
<1>7. /\ g \in DisplayType /\ g.host = d.host /\ g.timers = 0 /\ g.status = "FINISHED"
      /\ g.session = d.session
  <2> HIDE DEF d, e
  <2> QED  BY <1>5 DEF DisplayType, Finished, Statuses
<1>8. SetUpSession(o, e)
  BY <1>3 DEF Connected
<1> HIDE DEF e
<1>9. \/ SetDisplay(o, f) /\ UNCHANGED up
      \/ SetDisplay(o, g) /\ UNCHANGED up
  BY <1>3, <1>5, <1>8 DEF SetUpSession
<1> HIDE DEF f, g
<1>10. Single(f) /\ (Chooses(f) => Chooses(d))
  BY <1>3, <1>6 DEF Single, Chooses
<1>11. Single(g) /\ (Chooses(g) => Chooses(d))
  BY <1>3, <1>7 DEF Single, Chooses
<1> QED  BY <1>0, <1>1, <1>6, <1>7, <1>9, <1>10, <1>11, OneChanges

LEMMA ConnectFailsSound ==
    ASSUME DisplayTypeOK, AllSound, NEW o \in Objects, ConnectFails(o)
    PROVE  AllSound'
<1> DEFINE d == display[o]
           e == [d EXCEPT !.attempts = @ + 1]
           f == [e EXCEPT !.timers = @ - 1, !.status = "FAILED"]
           k == [e EXCEPT !.timers = 0, !.status = "FAILED"]
<1>0. display \in Displays /\ UNCHANGED indirect
  BY DEF DisplayTypeOK, ConnectFails, forwardVars
<1>1. d # Free /\ d \in DisplayType /\ d.timers > 0
  BY DEF ConnectFails, DisplayTypeOK, Displays
<1>2. Single(d)
  BY <1>1 DEF AllSound, Sound
<1>3. d.timers = 1 /\ d.status = "PREPARED" /\ ~d.session
  <2>1. d.timers # 0
    BY <1>1 DEF DisplayType
  <2> QED  BY <1>2, <2>1 DEF Single
<1>4. d.attempts + 1 \in Nat
  BY <1>1 DEF DisplayType
<1>5. /\ e \in DisplayType /\ e.host = d.host /\ e.timers = d.timers /\ e.status = d.status
      /\ e.stored = d.stored /\ e.session = d.session /\ e.finishing = d.finishing /\ e.env = d.env
  <2> HIDE DEF d
  <2> QED  BY <1>1, <1>4 DEF DisplayType
<1>6. e.timers - 1 = 0
  BY <1>3, <1>5
<1>7. /\ f \in DisplayType /\ f.host = d.host /\ f.timers = 0 /\ f.status = "FAILED"
      /\ f.session = d.session
  <2> HIDE DEF d, e
  <2>1. f = k
    BY <1>6
  <2>2. /\ k \in DisplayType /\ k.host = e.host /\ k.timers = 0 /\ k.status = "FAILED"
        /\ k.session = e.session
    BY <1>5 DEF DisplayType, Statuses
  <2> HIDE DEF f, k
  <2> QED  BY <1>5, <2>1, <2>2
<1>8. SetDisplay(o, e) \/ SetDisplay(o, f)
  <2>1. UnmanagedStatus(d) = {"FAILED"}
    BY <1>3 DEF UnmanagedStatus
  <2> QED  BY <2>1 DEF ConnectFails
<1> HIDE DEF e, f
<1>9. Single(e) /\ (Chooses(e) => Chooses(d))
  BY <1>2, <1>5 DEF Single, Chooses
<1>10. Single(f) /\ (Chooses(f) => Chooses(d))
  BY <1>3, <1>7 DEF Single, Chooses
<1> QED  BY <1>0, <1>1, <1>5, <1>7, <1>8, <1>9, <1>10, OneChanges

LEMMA SessionSound ==
    ASSUME DisplayTypeOK, AllSound, NEW o \in Objects,
           UserLogsIn(o) \/ SessionDisconnected(o) \/ GreeterEnds(o) \/ FinishIdle(o)
    PROVE  AllSound'
<1> DEFINE d == display[o]
<1>0. display \in Displays /\ UNCHANGED indirect
  BY DEF DisplayTypeOK, UserLogsIn, SessionDisconnected, GreeterEnds, FinishIdle, forwardVars
<1>1. d # Free /\ d \in DisplayType
  BY DEF UserLogsIn, SessionDisconnected, GreeterEnds, FinishIdle, DisplayTypeOK, Displays
<1>2. Single(d)
  BY <1>1 DEF AllSound, Sound
<1>3. CASE UserLogsIn(o)
  <2> DEFINE e == [d EXCEPT !.env = "none"]
  <2>1. SetDisplay(o, e) /\ d.session
    BY <1>3 DEF UserLogsIn
  <2>2. /\ e \in DisplayType /\ e.host = d.host /\ e.timers = d.timers /\ e.status = d.status
        /\ e.stored = d.stored /\ e.session = d.session /\ e.finishing = d.finishing /\ e.env = "none"
    BY <1>1 DEF DisplayType
  <2> HIDE DEF e
  <2>3. Single(e) /\ ~Chooses(e)
    BY <1>2, <2>1, <2>2 DEF Single, Chooses
  <2> QED  BY <1>0, <1>1, <2>1, <2>2, <2>3, OneChanges
<1>4. CASE SessionDisconnected(o)
  <2> DEFINE e == [Finished(d) EXCEPT !.session = FALSE, !.env = "none"]
  <2>1. SetDisplay(o, e) /\ d.session
    BY <1>4 DEF SessionDisconnected
  <2>2. /\ e \in DisplayType /\ e.host = d.host /\ e.timers = d.timers /\ e.status = "FINISHED"
        /\ e.session = FALSE
    BY <1>1 DEF DisplayType, Finished, Statuses
  <2> HIDE DEF e
  <2>3. Single(e) /\ ~Chooses(e)
    BY <1>2, <2>1, <2>2 DEF Single, Chooses
  <2> QED  BY <1>0, <1>1, <2>1, <2>2, <2>3, OneChanges
<1>5. CASE GreeterEnds(o)
  <2> DEFINE e(s) == [d EXCEPT !.session = FALSE, !.status = s, !.finishing = @ \/ s # "FINISHED"]
  <2>1. d.session /\ d.status = "MANAGED"
    BY <1>2, <1>5 DEF GreeterEnds, Single
  <2>2. PICK s \in {"FAILED", "UNMANAGED"} : SetDisplay(o, e(s))
    BY <1>5, <2>1 DEF GreeterEnds, UnmanagedStatus
  <2>3. /\ e(s) \in DisplayType /\ e(s).host = d.host /\ e(s).timers = d.timers
        /\ e(s).status = s /\ e(s).session = FALSE
    BY <1>1 DEF DisplayType, Statuses
  <2> HIDE DEF e
  <2>4. Single(e(s)) /\ ~Chooses(e(s))
    BY <1>2, <2>1, <2>3 DEF Single, Chooses
  <2> QED  BY <1>0, <1>1, <2>2, <2>3, <2>4, OneChanges
<1>6. CASE FinishIdle(o)
  <2> DEFINE e == Finished(d)
  <2>1. SetDisplay(o, e) /\ d.finishing
    BY <1>6 DEF FinishIdle
  <2>2. /\ e \in DisplayType /\ e.host = d.host /\ e.timers = d.timers /\ e.status = "FINISHED"
        /\ e.session = d.session
    BY <1>1 DEF DisplayType, Finished, Statuses
  <2> HIDE DEF e
  <2>3. Single(e) /\ ~Chooses(e)
    BY <1>2, <2>1, <2>2 DEF Single, Chooses
  <2> QED  BY <1>0, <1>1, <2>1, <2>2, <2>3, OneChanges
<1> QED  BY <1>3, <1>4, <1>5, <1>6

(* Displays that are not PREPARED and have no session may leave the store. *)
LEMMA DropSound ==
    ASSUME display \in Displays, AllSound, NEW S \in SUBSET Stored(display),
           \A o \in S : display[o].status # "PREPARED" /\ ~display[o].session,
           NEW o \in Objects, Drop(display, S)[o] # Free
    PROVE  Sound(Drop(display, S)[o])
<1>1. CASE o \notin S
  BY <1>1, DropNarrows DEF AllSound
<1>2. CASE o \in S
  <2> DEFINE d == display[o]
             e == [d EXCEPT !.stored = FALSE]
  <2>1. d # Free /\ d \in DisplayType
    BY <1>2 DEF Stored, Free, Displays
  <2>2. /\ e \in DisplayType /\ e.timers = d.timers /\ e.status = d.status
        /\ e.session = d.session
    BY <2>1 DEF DisplayType
  <2>3. Drop(display, S)[o] = e
    BY <1>2, <2>2, SettleType DEF Drop
  <2>4. Single(d)
    BY <2>1 DEF AllSound, Sound
  <2> HIDE DEF e
  <2>5. Single(e) /\ ~Chooses(e)
    BY <1>2, <2>2, <2>4 DEF Single, Chooses
  <2> QED  BY <2>3, <2>5 DEF Sound
<1> QED  BY <1>1, <1>2

LEMMA PurgeSound ==
    ASSUME DisplayTypeOK, AllSound, PurgeIdle
    PROVE  AllSound'
<1> DEFINE S == WithStatus(display, Ended)
<1>0. display \in Displays
  BY DEF DisplayTypeOK
<1>1. display' = Drop(display, S) /\ UNCHANGED indirect
  BY DEF PurgeIdle, forwardVars
<1>2. S \in SUBSET Stored(display)
  BY DEF WithStatus
<1>3. ASSUME NEW o \in S PROVE display[o].status # "PREPARED" /\ ~display[o].session
  <2>1. o \in Objects /\ display[o] # Free /\ display[o].status \in Ended
    BY <1>3 DEF WithStatus, Stored, Free
  <2> QED  BY <2>1 DEF AllSound, Sound, Single, Ended
<1> HIDE DEF S
<1>4. \A o \in Objects : display'[o] # Free => Sound(display'[o])
  BY <1>0, <1>1, <1>2, <1>3, DropSound
<1> QED  BY <1>1, <1>4 DEF AllSound, Sound, Single, Chooses

LEMMA ManageSound ==
    ASSUME OneAtATime, DisplayTypeOK, IndirectOK, AllSound, NEW h \in Hosts, NEW i, HandleManage(h, i)
    PROVE  AllSound'
<1>1. PICK o \in WithId(i) :
         /\ display[o].status = "PREPARED" /\ display[o].timers < MaxTimers
         /\ display' = [display EXCEPT ![o].timers = @ + 1]
  BY DEF HandleManage
<1> DEFINE d == display[o]
           e == [d EXCEPT !.timers = @ + 1]
           k == [d EXCEPT !.timers = 1]
<1>2. o \in Objects /\ d # Free /\ d \in DisplayType
  BY DEF WithId, Stored, Free, DisplayTypeOK, Displays
<1>3. Sound(d) /\ Single(d)
  BY <1>2 DEF AllSound, Sound
<1>4. d.timers = 0
  BY <1>1, <1>2, <1>3, LimitAssumption DEF OneAtATime, Single
<1>5. e = k
  BY <1>4
<1>6. display' = [display EXCEPT ![o] = k]
  BY <1>1, <1>5
<1>7. /\ k.host = d.host /\ k.timers = 1 /\ k.status = d.status /\ k.stored = d.stored
      /\ k.session = d.session /\ k.finishing = d.finishing /\ k.env = d.env
  BY <1>2 DEF DisplayType
<1> HIDE DEF e, k
<1>8. \A p \in Objects : display'[p] = IF p = o THEN k ELSE display[p]
  BY <1>2, <1>6 DEF DisplayTypeOK, Displays
<1>9. Sound(k)
  BY <1>1, <1>3, <1>7 DEF Sound, Single, Chooses
<1>10. \A p \in Objects : display'[p] # Free => Sound(display'[p])
  BY <1>8, <1>9 DEF AllSound
<1>11. \A c \in Hosts : indirect[c] = Unchosen => indirect'[c] = Unchosen
  BY DEF HandleManage, UseChooser, IndirectOK
<1>12. ASSUME NEW p \in Objects, display'[p] # Free PROVE display'[p].host \in Hosts
  BY <1>2, <1>7, <1>8, <1>12 DEF DisplayTypeOK, Displays, DisplayType
<1> QED  BY <1>10, <1>11, <1>12 DEF AllSound, Sound, Single, Chooses

(* Two displays of a terminal cannot both be in the store.                 *)
LEMMA OneStored ==
    ASSUME OneAtATime, HostsBounded(display), NEW h \in Hosts,
           NEW o \in FromHost(display, h), NEW p \in FromHost(display, h)
    PROVE  o = p
<1> DEFINE F == FromHost(display, h)
<1>1. IsFiniteSet(F) /\ Cardinality(F) \in Nat
  BY FiniteStored DEF FromHost
<1>2. Cardinality(F) <= 1
  BY <1>1, LimitAssumption DEF OneAtATime, HostsBounded
<1> HIDE DEF F
<1>3. F # {}
  BY DEF F
<1>4. Cardinality(F) = 1
  <2>1. Cardinality(F) # 0
    BY <1>1, <1>3, FS_EmptySet
  <2> QED  BY <1>1, <1>2, <2>1
<1>5. PICK x : F = {x}
  BY <1>1, <1>4, FS_Singleton
<1> QED  BY <1>5 DEF F

LEMMA SelectedSound ==
    ASSUME OneAtATime, DisplayTypeOK, IndirectOK, HostsBounded(display), AllSound, up,
           NEW o \in Objects, NEW m \in Managers \cup {Here}, HostnameSelected(o, m)
    PROVE  AllSound' /\ up'
<1> DEFINE d == display[o]
           e == [d EXCEPT !.env = "chosen"]
<1>1. d # Free /\ d \in DisplayType /\ d.session /\ d.env = "chooser" /\ SetDisplay(o, e)
  BY DEF HostnameSelected, DisplayTypeOK, Displays
<1>2. Sound(d) /\ Single(d) /\ d.host \in Hosts
  BY <1>1 DEF AllSound, Sound, DisplayType
<1>3. indirect[d.host] = Unchosen
  BY <1>1, <1>2 DEF Sound, Chooses
<1>4. NoClient # Unchosen
  BY DEF NoClient, Unchosen
<1>5. up' /\ \E c : indirect' = [indirect EXCEPT ![d.host] = c]
  BY <1>3, <1>4 DEF HostnameSelected
<1>6. /\ e \in DisplayType /\ e.host = d.host /\ e.timers = d.timers /\ e.status = d.status
      /\ e.stored = d.stored /\ e.session = d.session /\ e.finishing = d.finishing /\ e.env = "chosen"
  BY <1>1 DEF DisplayType
<1> HIDE DEF e
<1>7. Single(e) /\ ~Chooses(e)
  BY <1>1, <1>2, <1>6 DEF Single, Chooses
<1>8. display'[o] = Free \/ display'[o] = e
  BY <1>1, <1>6, SettleType DEF SetDisplay, DisplayTypeOK, Displays
<1>9. \A p \in Objects \ {o} : display'[p] = display[p]
  BY <1>1 DEF SetDisplay, DisplayTypeOK, Displays
<1>10. o \in FromHost(display, d.host)
  BY <1>1, <1>2 DEF Single, FromHost, Stored
<1>11. ASSUME NEW p \in Objects, p # o, display[p] # Free, Chooses(display[p])
       PROVE  display[p].host \in Hosts /\ display[p].host # d.host
  <2>1. display[p] \in DisplayType /\ display[p].host \in Hosts
    BY <1>11 DEF DisplayTypeOK, Displays, DisplayType
  <2>2. display[p].stored
    BY <1>11 DEF AllSound, Sound, Single, Chooses
  <2>3. p \in FromHost(display, display[p].host)
    BY <2>2 DEF FromHost, Stored
  <2> QED  BY <1>2, <1>10, <1>11, <2>1, <2>3, OneStored
<1>12. ASSUME NEW p \in Objects, display'[p] # Free
       PROVE  /\ Single(display'[p])
              /\ Chooses(display'[p]) => indirect'[display'[p].host] = Unchosen
  <2>1. CASE p = o
    BY <1>7, <1>8, <1>12, <2>1
  <2>2. CASE p # o
    <3>1. display'[p] = display[p] /\ Sound(display[p])
      BY <1>9, <1>12, <2>2 DEF AllSound
    <3>2. Chooses(display[p]) => indirect'[display[p].host] = indirect[display[p].host]
      BY <1>5, <1>11, <1>12, <2>2, <3>1 DEF IndirectOK
    <3> QED  BY <3>1, <3>2 DEF Sound
  <2> QED  BY <2>1, <2>2
<1>13. AllSound'
  BY <1>12 DEF AllSound, Sound, Single, Chooses
<1> QED  BY <1>5, <1>13

LEMMA RequestSound ==
    ASSUME OneAtATime, DisplayTypeOK, AllSound, NEW h \in Hosts, NEW n \in Nums,
           NEW mitauth \in BOOLEAN, HandleRequest(h, n, mitauth)
    PROVE  AllSound'
<1>0. display \in Displays /\ UNCHANGED indirect
  BY DEF DisplayTypeOK, HandleRequest
<1>1. PICK old \in Expired :
         LET D == Drop(display, old) IN Requested(h, n, D, Disposed(D, h, n))
  BY <1>0, RequestCases
<1> DEFINE D == Drop(display, old)
           E == Disposed(D, h, n)
<1>2. old \in SUBSET Stored(display)
  BY DEF Expired, WithStatus
<1>3. ASSUME NEW o \in old PROVE display[o].status # "PREPARED" /\ ~display[o].session
  <2>1. o \in Objects /\ display[o] # Free /\ display[o].status = "UNMANAGED"
    BY <1>3 DEF Expired, WithStatus, Stored, Free
  <2> QED  BY <2>1 DEF AllSound, Sound, Single
<1>4. \A o \in Objects : D[o] # Free => Sound(D[o])
  BY <1>0, <1>2, <1>3, DropSound
<1> HIDE DEF D
<1>5. D \in Displays /\ E \in Displays
  BY <1>1 DEF Requested, D
<1>6. UnderLimit(D, h) => E = D
  <2> SUFFICES ASSUME UnderLimit(D, h) PROVE E = D
    OBVIOUS
  <2> DEFINE F == FromHost(D, h)
  <2>1. IsFiniteSet(F) /\ Cardinality(F) \in Nat
    BY FiniteStored DEF FromHost
  <2>2. Cardinality(F) < DisplaysPerHost
    BY DEF UnderLimit, OneAtATime
  <2>3. Cardinality(F) = 0
    BY <2>1, <2>2, LimitAssumption DEF OneAtATime
  <2>4. F = {}
    BY <2>1, <2>3, FS_EmptySet
  <2>5. E = Drop(D, {})
    BY <2>4 DEF Disposed
  <2> QED  BY <1>5, <2>5 DEF Drop, Displays
<1> HIDE DEF E
<1>7. \/ display' = D
      \/ \E o \in Objects, i \in 1..MaxId : Added(D, o, h, n, i)
  <2>1. CASE display' = D
    BY <2>1
  <2>2. CASE UnderLimit(D, h) /\ (display' = E \/ CreateDisplay(E, h, n))
    BY <1>5, <1>6, <2>2, CreateAdds
  <2> QED  BY <1>1, <2>1, <2>2 DEF Requested, D, E
<1>8. ASSUME NEW o \in Objects, NEW i \in 1..MaxId, Added(D, o, h, n, i) PROVE AllSound'
  <2> DEFINE d == display'[o]
  <2>1. /\ d.host = h /\ d.status = "PREPARED" /\ d.stored /\ ~d.session /\ ~d.finishing /\ d.timers = 0
        /\ d.env = IF UseChooser(h) THEN "chooser" ELSE "greeter"
        /\ \A p \in Objects \ {o} : display'[p] = D[p]
    BY <1>8 DEF Added
  <2> HIDE DEF d
  <2>2. Single(d)
    BY <2>1 DEF Single
  <2>3. Chooses(d) => indirect[d.host] = Unchosen
    BY <2>1 DEF Chooses, UseChooser
  <2>4. ASSUME NEW p \in Objects, display'[p] # Free PROVE Sound(display'[p])
    <3>1. CASE p = o
      BY <2>2, <2>3, <3>1 DEF Sound, d
    <3>2. CASE p # o
      BY <1>4, <2>1, <2>4, <3>2
    <3> QED  BY <3>1, <3>2
  <2> QED  BY <1>0, <2>4 DEF AllSound, Sound, Single, Chooses
<1>9. CASE display' = D
  BY <1>0, <1>4, <1>9 DEF AllSound, Sound, Single, Chooses
<1> QED  BY <1>7, <1>8, <1>9

(* Steps that only set choices, and none that was open.                    *)
LEMMA ChoicesSound ==
    ASSUME DisplayTypeOK, AllSound, UNCHANGED display,
           \A c \in Hosts : indirect[c] = Unchosen => indirect'[c] = Unchosen
    PROVE  AllSound'
<1>1. ASSUME NEW p \in Objects, display[p] # Free PROVE display[p].host \in Hosts
  BY <1>1 DEF DisplayTypeOK, Displays, DisplayType
<1> QED  BY <1>1 DEF AllSound, Sound, Single, Chooses

LEMMA OpenChoicesStay ==
    ASSUME IndirectOK,
           \/ \E h \in Hosts : RefuseManage(h) \/ HandleIndirectQuery(h)
           \/ \E m \in Managers, h \in Hosts : ManagerStep(m, h)
           \/ UNCHANGED vars
    PROVE  /\ UNCHANGED <<display, up>>
           /\ \A c \in Hosts : indirect[c] = Unchosen => indirect'[c] = Unchosen
<1>0. Unchosen # NoClient /\ Unchosen # Here /\ Unchosen \notin Managers
  BY ChoiceAssumption DEF Unchosen, NoClient
<1>1. ASSUME NEW h \in Hosts, RefuseManage(h) \/ HandleIndirectQuery(h)
      PROVE  /\ UNCHANGED <<display, up>>
             /\ \A c \in Hosts : indirect[c] = Unchosen => indirect'[c] = Unchosen
  BY <1>0, <1>1 DEF RefuseManage, HandleIndirectQuery, displayVars, IndirectOK
<1>2. ASSUME NEW m \in Managers, NEW h \in Hosts, ManagerStep(m, h)
      PROVE  /\ UNCHANGED <<display, up>>
             /\ \A c \in Hosts : indirect[c] = Unchosen => indirect'[c] = Unchosen
  <2>1. UNCHANGED <<display, up>>
    BY <1>2 DEF ManagerStep, HandleForwardQuery, HandleManagedForward, HandleGotManagedForward,
                ResendManagedForward, displayVars
  <2>2. \/ indirect' = indirect
        \/ \E c \in ForwardedTo(m, h) : indirect' = [indirect EXCEPT ![c] = NoClient]
    BY <1>2 DEF ManagerStep, HandleForwardQuery, HandleManagedForward, HandleGotManagedForward,
                ResendManagedForward
  <2>3. \A c \in ForwardedTo(m, h) : indirect[c] # Unchosen
    BY <1>0 DEF ForwardedTo
  <2> QED  BY <2>1, <2>2, <2>3 DEF IndirectOK
<1>3. CASE UNCHANGED vars
  BY <1>3 DEF vars, displayVars, forwardVars
<1> QED  BY <1>1, <1>2, <1>3

LEMMA StepSound ==
    ASSUME OneAtATime, DisplayTypeOK, IndirectOK, HostsBounded(display), AllSound, up, [Next]_vars
    PROVE  AllSound' /\ up'
<1>1. ASSUME NEW o \in Objects, DisplayStep(o) PROVE AllSound' /\ up'
  <2>1. CASE Connected(o)
    BY <2>1, ConnectedSound
  <2>2. CASE ConnectFails(o)
    BY <2>2, ConnectFailsSound DEF ConnectFails
  <2>3. CASE UserLogsIn(o) \/ SessionDisconnected(o) \/ GreeterEnds(o) \/ FinishIdle(o)
    BY <2>3, SessionSound DEF UserLogsIn, SessionDisconnected, GreeterEnds, FinishIdle
  <2> QED  BY <1>1, <2>1, <2>2, <2>3 DEF DisplayStep
<1>2. ASSUME NEW o \in Objects, NEW m \in Managers \cup {Here}, HostnameSelected(o, m)
      PROVE  AllSound' /\ up'
  BY <1>2, SelectedSound
<1>3. CASE PurgeIdle
  BY <1>3, PurgeSound DEF PurgeIdle
<1>4. ASSUME NEW h \in Hosts, NEW i \in 1..MaxId, HandleManage(h, i) PROVE AllSound' /\ up'
  BY <1>4, ManageSound DEF HandleManage
<1>5. CASE \/ \E h \in Hosts : RefuseManage(h) \/ HandleIndirectQuery(h)
           \/ \E m \in Managers, h \in Hosts : ManagerStep(m, h)
           \/ UNCHANGED vars
  BY <1>5, OpenChoicesStay, ChoicesSound
<1>6. ASSUME NEW h \in Hosts, NEW n \in Nums, NEW mitauth \in BOOLEAN, HandleRequest(h, n, mitauth)
      PROVE  AllSound' /\ up'
  BY <1>6, RequestSound DEF HandleRequest
<1> QED  BY <1>1, <1>2, <1>3, <1>4, <1>5, <1>6, NextSplits DEF OtherStep

LEMMA SingleTerminals ==
    ASSUME OneAtATime
    PROVE  Spec => [](AllSound /\ up)
<1>1. Init => AllSound /\ up
  BY DEF Init, AllSound
<1>2. DisplayTypeOK /\ IndirectOK /\ HostsBounded(display) /\ AllSound /\ up /\ [Next]_vars
        => AllSound' /\ up'
  BY StepSound
<1> QED  BY <1>1, <1>2, InitTypes, InitHosts, StepDisplayTypeOK, StepIndirect, StepHosts, PTL DEF Spec

(* Where a terminal has one display and one source connects to it at a     *)
(* time, no session outlives the membership of its display in the store.   *)
THEOREM SessionsAreStored ==
    ASSUME DisplaysPerHost <= 1, LocalHosts = {}, MaxTimers <= 1
    PROVE  Spec => []SessionStored
<1>1. OneAtATime
  BY DEF OneAtATime
<1>2. AllSound => SessionStored
  BY DEF AllSound, Sound, Single, SessionStored
<1> QED  BY <1>1, <1>2, SingleTerminals, PTL

(* There neither on_hostname_selected nor start_greeter_session meets a    *)
(* NULL pointer.                                                           *)
THEOREM FactoryStaysUp ==
    ASSUME DisplaysPerHost <= 1, LocalHosts = {}, MaxTimers <= 1
    PROVE  Spec => []StaysUp
<1>1. OneAtATime
  BY DEF OneAtATime
<1>2. AllSound /\ up => StaysUp
  BY DEF StaysUp
<1> QED  BY <1>1, <1>2, SingleTerminals, PTL
=============================================================================
