----------------------------- MODULE LoginProofs -----------------------------
(***************************************************************************)
(* Theorems about Login, for any number of workers and services, any login *)
(* modes and any bound on the events at hand.  A step is one of a worker,  *)
(* which its session sees as events (Moves), or one of the daemon, which   *)
(* changes conversations and wires together (Evolves); each of the two     *)
(* keeps the inductive invariant LoginInv.                                 *)
(***************************************************************************)
EXTENDS Login, SessionWorkerProofs

(* A process that nobody has asked for anything.                           *)
Unused(w) ==
    /\ calls[w] = <<>> /\ pending[w] = NoCall /\ ~idle[w] /\ busy[w] = "no"
    /\ child[w] = "none" /\ reauths[w] = {} /\ settings[w] = "none" /\ ~answer[w]

(* What is known of a worker that has not registered with a conversation:  *)
(* it has said Hello at most, and while it is connected nothing was asked  *)
(* of it.  A freed conversation counts as one without a proxy.             *)
Unregistered(w) ==
    /\ proc[w] = "unborn" =>
          /\ Unused(w) /\ ~conn[w] /\ events[w] = <<>>
          /\ ~ses.conv[w].proxy /\ ses.session_conversation # w
    /\ conn[w] => Running(w)
    /\ ~ses.conv[w].proxy =>
          /\ events[w] \in {<<>>, <<Signal("Hello")>>}
          /\ ~ses.conv[w].query
          /\ conn[w] => Unused(w)

(* A worker whose connection is open waits for the answer to its query,    *)
(* from sending it until the client's answer is passed on.                 *)
Waits(w) == conn[w] => busy[w] = "query" /\ ~answer[w]

QueryWaits(w) ==
    /\ \A i \in 1..Len(events[w]) : events[w][i].kind = "Query" =>
          i = Len(events[w]) /\ ~ses.conv[w].query /\ Waits(w)
    /\ ses.conv[w].query => Waits(w)
    /\ answer[w] => busy[w] = "query"

(* A session is announced before its end is.                               *)
Announced(w) ==
    /\ \A i \in 1..Len(events[w]) : events[w][i] = Reply("StartProgram", TRUE) /\ conn[w] =>
          child[w] # "none" \/ \E j \in i..Len(events[w]) : events[w][j].kind = "SessionExited"
    /\ ses.session_conversation = w /\ conn[w] =>
          /\ Live(ses, w)
          /\ child[w] # "none" \/ \E j \in 1..Len(events[w]) : events[w][j].kind = "SessionExited"

(* Only a request to start the session leads past SESSION_OPENED.          *)
StartRequested(w) ==
    /\ idle[w] /\ state[w] = SESSION_OPENED => pending[w].method = "StartProgram"
    /\ pending[w].method = "StartProgram" /\ ~pending[w].answered => state[w] = SESSION_OPENED

(* The worker has been asked for a session, or has one.                    *)
Starts(w) ==
    \/ Asked(w, "StartProgram")
    \/ pending[w].method = "StartProgram"
    \/ Running(w) /\ child[w] # "none"

(* The parts of the invariant that concern one worker.                     *)
Each(w) == Unregistered(w) /\ QueryWaits(w) /\ Announced(w) /\ StartRequested(w)

OneStarts ==
    \A v, w \in Workers : Conversing(v) /\ Starts(v) /\ Conversing(w) /\ Starts(w) => v = w

LoginInv ==
    /\ Inv
    /\ ses \in SessionType /\ NoOrphanWorker
    /\ \A w \in Workers : Each(w)
    /\ OneStarts
-----------------------------------------------------------------------------
(* A step of worker w as its session and the other workers see it.         *)

SameAt(v) ==
    /\ proc'[v] = proc[v] /\ state'[v] = state[v] /\ pending'[v] = pending[v]
    /\ idle'[v] = idle[v] /\ busy'[v] = busy[v] /\ child'[v] = child[v]
    /\ sigterm'[v] = sigterm[v] /\ reauths'[v] = reauths[v] /\ settings'[v] = settings[v]
    /\ conn'[v] = conn[v] /\ calls'[v] = calls[v] /\ answer'[v] = answer[v]
    /\ events'[v] = events[v]

(* The process is gone and can say no more.                                *)
Quits(w) ==
    /\ Running(w) /\ proc'[w] \in {"exited", "died"} /\ ~conn'[w]
    /\ pending'[w] = NoCall /\ ~idle'[w] /\ calls'[w] = <<>> /\ ~answer'[w]
    /\ events'[w] = events[w]

(* It sends an event at most; a query only when it starts to wait for the  *)
(* answer, and the good news of a session only when it has the session.    *)
Says(w) ==
    \/ events'[w] = events[w]
    \/ \E e \in Event :
          /\ conn[w] /\ busy[w] # "query" /\ events'[w] = Append(events[w], e)
          /\ e.kind = "Query" => busy'[w] = "query"
          /\ e = Reply("StartProgram", TRUE) => child'[w] # "none"

(* While it waits for an answer it does nothing but get it.                *)
Listens(w) ==
    \/ busy[w] # "query" /\ answer'[w] = answer[w]
    \/ busy[w] = "query" /\ busy'[w] = "query" /\ answer'[w] = answer[w]
    \/ busy[w] = "query" /\ ~answer'[w] /\ (answer[w] \/ ~conn[w])

(* Its session starts on request only, and its end is reported.            *)
Runs(w) ==
    \/ child'[w] = child[w]
    \/ child[w] = "running" /\ child'[w] = "zombie"
    \/ child'[w] = "running" /\ pending[w].method = "StartProgram"
    \/ child'[w] = "none" /\ (conn[w] => events'[w] = Append(events[w], Signal("SessionExited")))

Obeys(w) ==
    /\ calls'[w] = calls[w] \/ (calls[w] # <<>> /\ calls'[w] = Tail(calls[w]))
    /\ pending'[w].method = "StartProgram" =>
          pending[w].method = "StartProgram" \/ Asked(w, "StartProgram")
    /\ StartRequested(w)'

Acts(w) ==
    /\ ~Unused(w)
    /\ proc'[w] = proc[w] /\ sigterm'[w] = sigterm[w] /\ conn'[w] = conn[w]
    /\ Says(w) /\ Listens(w) /\ Runs(w) /\ Obeys(w)

Moves(w) ==
    /\ \A v \in Workers \ {w} : SameAt(v)
    /\ Quits(w) \/ Acts(w)

(* The process may end at any time.                                        *)
LEMMA EndsMoves ==
    ASSUME TypeOK, NEW w \in Workers, NEW how \in {"exited", "died"}, Running(w), Ends(w, how),
           \A v \in Workers \ {w} : state'[v] = state[v] /\ child'[v] = child[v]
    PROVE  Moves(w)
BY DEF TypeOK, Ends, Moves, Quits, SameAt

(* Emitting concerns one worker.                                           *)
LEMMA EmitSays ==
    ASSUME TypeOK, NEW w \in Workers, NEW e \in Event, Emit(w, e)
    PROVE  /\ \A v \in Workers \ {w} : events'[v] = events[v]
           /\ conn[w] => events'[w] = Append(events[w], e)
           /\ ~conn[w] => events'[w] = events[w]
BY DEF TypeOK, Emit

(* The result of a stage goes to the invocation that is pending.           *)
LEMMA ReplyPendingSays ==
    ASSUME TypeOK, NEW w \in Workers, NEW ok \in BOOLEAN, ReplyPending(w, ok)
    PROVE  /\ \A v \in Workers \ {w} : events'[v] = events[v] /\ pending'[v] = pending[v]
           /\ pending'[w] = NoCall
           /\ \/ events'[w] = events[w]
              \/ /\ conn[w] /\ pending[w].method \in Methods /\ ~pending[w].answered
                 /\ events'[w] = Append(events[w], Reply(pending[w].method, ok))
<1>0. pending \in [Workers -> Invocation] /\ events \in [Workers -> Seq(Event)]
  BY DEF TypeOK
<1>1. pending[w] \in Invocation
  BY <1>0
<1>2. pending'[w] = NoCall /\ \A v \in Workers \ {w} : pending'[v] = pending[v]
  BY <1>0 DEF ReplyPending
<1>3. CASE pending[w] = NoCall \/ pending[w].answered
  <2>1. events' = events
    BY <1>3 DEF ReplyPending
  <2> QED BY <2>1, <1>2
<1>4. CASE ~(pending[w] = NoCall \/ pending[w].answered)
  <2>1. Emit(w, Reply(pending[w].method, ok))
    BY <1>4 DEF ReplyPending
  <2>2. pending[w].method \in Methods
    BY <1>1, <1>4 DEF Invocation
  <2>3. Reply(pending[w].method, ok) \in Event
    BY <2>2 DEF Reply, Event
  <2> HIDE DEF Reply, Event
  <2>4. /\ \A v \in Workers \ {w} : events'[v] = events[v]
        /\ conn[w] => events'[w] = Append(events[w], Reply(pending[w].method, ok))
        /\ ~conn[w] => events'[w] = events[w]
    BY <2>1, <2>3, EmitSays
  <2> QED BY <1>2, <1>4, <2>2, <2>4
<1> QED BY <1>3, <1>4

(* PAM is taken down for one worker.                                       *)
LEMMA UninitializePamMoves ==
    ASSUME TypeOK, NEW w \in Workers, UninitializePam(w)
    PROVE  /\ \A v \in Workers \ {w} : state'[v] = state[v]
           /\ state'[w] \in {state[w], NONE}
BY DEF TypeOK, UninitializePam, SetState

(* Settings are looked up without a word to the session.                   *)
LEMMA UpdateUsernameMoves ==
    ASSUME TypeOK, NEW w \in Workers, UpdateUsername(w)
    PROVE  \A v \in Workers \ {w} : settings'[v] = settings[v]
BY DEF TypeOK, UpdateUsername, LoadSettings, profileVars

(* A worker that was asked for nothing cannot take a request, change its   *)
(* stage or hear of anything.                                              *)
LEMMA NotUnused ==
    ASSUME NEW w \in Workers,
           \/ calls[w] # <<>> \/ pending[w] # NoCall \/ idle[w] \/ busy[w] # "no"
           \/ child[w] # "none" \/ reauths[w] # {} \/ settings[w] # "none" \/ answer[w]
    PROVE  ~Unused(w)
BY DEF Unused

(* Requests are taken from the queue one by one.                           *)
LEMMA RequestMoves ==
    ASSUME TypeOK, NEW w \in Workers, StartRequested(w),
           \/ \E m \in Methods : HandleStage(w, m)
           \/ HandleInitialize(w) \/ HandleStartProgram(w) \/ HandleStartReauthentication(w)
    PROVE  Moves(w)
<1> USE DEF pamVars, profileVars, procVars, wireVars
<1> DEFINE Same(v) == /\ pending'[v] = pending[v] /\ idle'[v] = idle[v] /\ events'[v] = events[v]
                      /\ calls'[v] = calls[v] /\ settings'[v] = settings[v]
                      /\ reauths'[v] = reauths[v]
<1> DEFINE Rest == /\ UNCHANGED <<proc, state, busy, child, sigterm, conn, answer>>
                   /\ calls[w] # <<>> /\ busy[w] = "no" /\ calls'[w] = Tail(calls[w])
                   /\ \A v \in Workers \ {w} : Same(v)
<1>t. /\ pending \in [Workers -> Invocation] /\ idle \in [Workers -> BOOLEAN]
      /\ calls \in [Workers -> Seq(Call)] /\ events \in [Workers -> Seq(Event)]
      /\ settings \in [Workers -> {"none", "loading", "loaded"}]
      /\ reauths \in [Workers -> SUBSET Callers] /\ state \in [Workers -> Stages]
  BY DEF TypeOK
<1>r. \A m \in Methods, ok \in BOOLEAN :
        /\ Reply(m, ok) \in Event
        /\ Reply(m, ok).kind # "Query"
        /\ Reply(m, FALSE) # Reply("StartProgram", TRUE)
        /\ Reply("StartReauthentication", ok) \in Event
        /\ Reply("StartReauthentication", ok).kind # "Query"
        /\ Reply("StartReauthentication", ok) # Reply("StartProgram", TRUE)
  BY DEF Reply, Event
<1>m. {"Initialize", "StartProgram"} \subseteq Methods
  BY DEF Methods
<1> HIDE DEF Same
<1>f. ASSUME Rest,
             Says(w), Obeys(w)
      PROVE  Moves(w)
  <2>1. ~Unused(w)
    BY <1>f, NotUnused
  <2>2. Listens(w) /\ Runs(w)
    BY <1>f DEF Listens, Runs
  <2>3. \A v \in Workers \ {w} : SameAt(v)
    BY <1>f DEF Same, SameAt
  <2> QED BY <1>f, <2>1, <2>2, <2>3 DEF Moves, Acts
<1>n. ASSUME Rest, Says(w), UNCHANGED <<pending, idle>> PROVE Moves(w)
  <2>1. Obeys(w)
    BY <1>n DEF Obeys, StartRequested
  <2> QED BY <1>f, <1>n, <2>1
<1>1. ASSUME NEW m \in Methods, HandleStage(w, m) PROVE Moves(w)
  <2>1. CASE Refuse(w, m) /\ UNCHANGED <<pending, idle>>
    <3>1. /\ \A v \in Workers \ {w} : events'[v] = events[v]
          /\ conn[w] => events'[w] = Append(events[w], Reply(m, FALSE))
          /\ ~conn[w] => events'[w] = events[w]
      BY <2>1, <1>r, EmitSays DEF Refuse
    <3>2. Rest
      BY <1>1, <1>t, <2>1, <3>1 DEF HandleStage, Receive, LoopFree, Same
    <3>3. Says(w)
      BY <1>r, <3>1, <3>2 DEF Says
    <3> QED BY <1>n, <2>1, <3>2, <3>3
  <2>2. CASE ValidStateChange(w, m) /\ Accept(w, m) /\ QueueStateChange(w)
    <3>1. Rest
      BY <1>1, <1>t, <2>2 DEF HandleStage, Receive, LoopFree, Same, Accept, QueueStateChange
    <3>2. Says(w)
      BY <2>2 DEF Accept, Says
    <3>3. m # "StartProgram" /\ Target(m) # SESSION_STARTED
      BY <1>1 DEF HandleStage, Methods, Target, SESSION_STARTED, SETUP_COMPLETE, AUTHENTICATED,
                  AUTHORIZED, ACCREDITED, ACCOUNT_DETAILS_SAVED
    <3>4. pending'[w].method = m /\ state'[w] # SESSION_OPENED
      BY <1>t, <2>2, <3>1, <3>3 DEF Accept, ValidStateChange, SESSION_OPENED, SESSION_STARTED
    <3>5. Obeys(w)
      BY <3>1, <3>3, <3>4 DEF Obeys, StartRequested
    <3> QED BY <1>f, <3>1, <3>2, <3>5
  <2> QED BY <1>1, <2>1, <2>2 DEF HandleStage
<1>2. CASE HandleInitialize(w)
  <2>1. CASE Refuse(w, "Initialize") /\ UNCHANGED <<pending, idle, profileVars>>
    <3>1. /\ \A v \in Workers \ {w} : events'[v] = events[v]
          /\ conn[w] => events'[w] = Append(events[w], Reply("Initialize", FALSE))
          /\ ~conn[w] => events'[w] = events[w]
      BY <2>1, <1>r, <1>m, EmitSays DEF Refuse
    <3>2. Rest
      BY <1>2, <1>t, <2>1, <3>1 DEF HandleInitialize, Receive, LoopFree, Same
    <3>3. Says(w)
      BY <1>r, <1>m, <3>1, <3>2 DEF Says
    <3> QED BY <1>n, <2>1, <3>2, <3>3
  <2>2. CASE ~(Refuse(w, "Initialize") /\ UNCHANGED <<pending, idle, profileVars>>)
    <3>1. /\ Receive(w, "Initialize") /\ ValidStateChange(w, "Initialize") /\ Accept(w, "Initialize")
          /\ UNCHANGED idle \/ QueueStateChange(w)
          /\ UNCHANGED settings \/ LoadSettings(w, TRUE) \/ LoadSettings(w, FALSE)
      BY <1>2, <2>2 DEF HandleInitialize
    <3>2. Rest
      BY <1>t, <3>1 DEF Receive, LoopFree, Same, Accept, QueueStateChange, LoadSettings
    <3>3. Says(w)
      BY <3>1 DEF Accept, Says
    <3>4. pending'[w].method = "Initialize" /\ state'[w] # SESSION_OPENED
      BY <1>t, <3>1, <3>2 DEF Accept, ValidStateChange, SESSION_OPENED, Target, SETUP_COMPLETE
    <3>5. Obeys(w)
      BY <3>2, <3>4 DEF Obeys, StartRequested
    <3> QED BY <1>f, <3>2, <3>3, <3>5
  <2> QED BY <2>1, <2>2
<1>3. CASE HandleStartProgram(w)
  <2>0. Receive(w, "StartProgram") /\ Asked(w, "StartProgram")
    <3>1. Receive(w, "StartProgram")
      BY <1>3 DEF HandleStartProgram
    <3>2. calls[w] \in Seq(Call) /\ calls[w] # <<>> /\ Head(calls[w]).method = "StartProgram"
      BY <1>t, <3>1 DEF Receive
    <3>3. 1 \in DOMAIN calls[w] /\ calls[w][1].method = "StartProgram"
      BY <3>2
    <3> QED BY <3>1, <3>3 DEF Asked
  <2>s. ASSUME Emit(w, Reply("StartProgram", FALSE))
        PROVE  Says(w) /\ \A v \in Workers \ {w} : events'[v] = events[v]
    <3>1. /\ \A v \in Workers \ {w} : events'[v] = events[v]
          /\ conn[w] => events'[w] = Append(events[w], Reply("StartProgram", FALSE))
          /\ ~conn[w] => events'[w] = events[w]
      BY <2>s, <1>r, <1>m, EmitSays
    <3> QED BY <1>r, <1>m, <2>0, <3>1 DEF Says, Receive, LoopFree
  <2>1. CASE Emit(w, Reply("StartProgram", FALSE)) /\ UNCHANGED <<pending, idle>>
    <3>2. Rest
      BY <1>3, <1>t, <2>1, <2>s, <2>0 DEF HandleStartProgram, Receive, LoopFree, Same
    <3> QED BY <1>n, <2>1, <2>s, <3>2
  <2>2. CASE ~(Emit(w, Reply("StartProgram", FALSE)) /\ UNCHANGED <<pending, idle>>)
    <3> DEFINE refused == ~ValidStateChange(w, "StartProgram")
    <3>1. /\ IF refused THEN Emit(w, Reply("StartProgram", FALSE)) ELSE UNCHANGED events
          /\ pending' = [pending EXCEPT ![w] = [method |-> "StartProgram", answered |-> refused]]
          /\ QueueStateChange(w) /\ UNCHANGED profileVars
      BY <1>3, <2>2 DEF HandleStartProgram
    <3> HIDE DEF refused
    <3>2. Says(w) /\ \A v \in Workers \ {w} : events'[v] = events[v]
      BY <3>1, <2>s DEF Says
    <3>3. Rest
      BY <1>t, <2>0, <3>1, <3>2 DEF Receive, LoopFree, Same, QueueStateChange
    <3>4. pending'[w].method = "StartProgram" /\ pending'[w].answered = refused
      BY <1>t, <3>1
    <3>5. ~refused => state'[w] = SESSION_OPENED
      <4>1. ~refused => state[w] + 1 = SESSION_STARTED
        BY DEF refused, ValidStateChange, Target
      <4>2. state[w] \in Nat
        <5>1. state[w] \in Stages
          BY <1>t
        <5> QED BY <5>1 DEF Stages, NONE, SESSION_STARTED
      <4> QED BY <3>3, <4>1, <4>2 DEF SESSION_OPENED, SESSION_STARTED
    <3>6. Obeys(w)
      BY <2>0, <3>3, <3>4, <3>5 DEF Obeys, StartRequested
    <3> QED BY <1>f, <3>2, <3>3, <3>6
  <2> QED BY <2>1, <2>2
<1>4. CASE HandleStartReauthentication(w)
  <2> DEFINE ok == state[w] = SESSION_STARTED
  <2>1. Emit(w, Reply("StartReauthentication", ok))
    BY <1>4 DEF HandleStartReauthentication
  <2>2. ok \in BOOLEAN
    OBVIOUS
  <2> HIDE DEF ok
  <2>3. /\ \A v \in Workers \ {w} : events'[v] = events[v]
        /\ conn[w] => events'[w] = Append(events[w], Reply("StartReauthentication", ok))
        /\ ~conn[w] => events'[w] = events[w]
    BY <2>1, <2>2, <1>r, <1>m, EmitSays
  <2>4. Rest /\ UNCHANGED <<pending, idle>>
    BY <1>4, <1>t, <2>3 DEF HandleStartReauthentication, LoopFree, Same
  <2>5. Says(w)
    BY <1>r, <1>m, <2>2, <2>3, <2>4 DEF Says
  <2> QED BY <1>n, <2>4, <2>5
<1> QED BY <1>1, <1>2, <1>3, <1>4

(* Stage changes and what PAM does meanwhile.                              *)
LEMMA StageMoves ==
    ASSUME TypeOK, NEW w \in Workers, StartRequested(w),
           \/ DoSetup(w) \/ FinishAuthenticate(w) \/ FinishAuthorize(w) \/ DoAccredit(w)
           \/ DoOpenSession(w) \/ DoStartSession(w)
    PROVE  Moves(w)
<1> USE DEF pamVars, profileVars, procVars, wireVars
<1> USE DEF NONE, SETUP_COMPLETE, AUTHENTICATED, AUTHORIZED, ACCREDITED, ACCOUNT_DETAILS_SAVED,
            SESSION_OPENED, SESSION_STARTED
<1>t. /\ pending \in [Workers -> Invocation] /\ idle \in [Workers -> BOOLEAN]
      /\ state \in [Workers -> Stages] /\ busy \in [Workers -> {"no", "pam", "query"}]
      /\ child \in [Workers -> {"none", "running", "zombie"}]
      /\ settings \in [Workers -> {"none", "loading", "loaded"}]
  BY DEF TypeOK
<1> DEFINE Same(v) == /\ state'[v] = state[v] /\ idle'[v] = idle[v] /\ busy'[v] = busy[v]
                      /\ settings'[v] = settings[v] /\ child'[v] = child[v]
<1>g. \A s \in {0, 1, 2, 3, 4, 6, 7} : SetState(w, s) =>
         state'[w] = s /\ \A v \in Workers \ {w} : state'[v] = state[v]
  BY <1>t DEF SetState
<1>r. \A m \in Methods, ok \in BOOLEAN :
        /\ Reply(m, ok) \in Event
        /\ Reply(m, ok).kind # "Query"
        /\ Reply(m, ok) = Reply("StartProgram", TRUE) => m = "StartProgram" /\ ok = TRUE
  BY DEF Reply, Event
<1> HIDE DEF Same
<1>f. ASSUME NEW ok \in BOOLEAN, ReplyPending(w, ok),
             UNCHANGED <<proc, sigterm, reauths, conn, calls, answer>>,
             \A v \in Workers \ {w} : Same(v),
             idle[w] \/ busy[w] = "pam",
             busy[w] # "query",
             \/ child'[w] = child[w]
             \/ child'[w] = "running" /\ idle[w] /\ state[w] = SESSION_OPENED,
             ok /\ state[w] = SESSION_OPENED => child'[w] # "none",
             idle'[w] => state'[w] # SESSION_OPENED
      PROVE  Moves(w)
  <2>0. /\ \A v \in Workers \ {w} : events'[v] = events[v] /\ pending'[v] = pending[v]
        /\ pending'[w] = NoCall
        /\ \/ events'[w] = events[w]
           \/ /\ conn[w] /\ pending[w].method \in Methods /\ ~pending[w].answered
              /\ events'[w] = Append(events[w], Reply(pending[w].method, ok))
    BY <1>f, ReplyPendingSays
  <2>1. ~Unused(w)
    BY <1>f, NotUnused
  <2>2. \A v \in Workers \ {w} : SameAt(v)
    BY <1>f, <2>0 DEF Same, SameAt
  <2>3. Listens(w)
    BY <1>f DEF Listens
  <2>4. Runs(w)
    BY <1>f DEF Runs, StartRequested
  <2>5. Obeys(w)
    BY <1>f, <2>0 DEF Obeys, StartRequested, NoCall
  <2>6. Says(w)
    <3>1. CASE events'[w] = events[w]
      BY <3>1 DEF Says
    <3>2. CASE /\ conn[w] /\ pending[w].method \in Methods /\ ~pending[w].answered
               /\ events'[w] = Append(events[w], Reply(pending[w].method, ok))
      <4> DEFINE e == Reply(pending[w].method, ok)
      <4>1. e \in Event /\ e.kind # "Query"
        BY <3>2, <1>r
      <4>2. e = Reply("StartProgram", TRUE) => child'[w] # "none"
        BY <1>f, <3>2, <1>r DEF StartRequested
      <4> HIDE DEF e
      <4>3. events'[w] = Append(events[w], e)
        BY <3>2 DEF e
      <4> QED BY <1>f, <3>2, <4>1, <4>2, <4>3 DEF Says
    <3> QED BY <2>0, <3>1, <3>2
  <2> QED BY <1>f, <2>1, <2>2, <2>3, <2>4, <2>5, <2>6 DEF Moves, Acts
<1>u. ASSUME StageFails(w)
      PROVE  /\ ReplyPending(w, FALSE)
             /\ \A v \in Workers \ {w} : state'[v] = state[v]
             /\ state'[w] \in {state[w], NONE}
  BY <1>u, UninitializePamMoves DEF StageFails
<1>1. CASE DoSetup(w) \/ DoAccredit(w) \/ DoOpenSession(w)
  <2>1. /\ UNCHANGED <<proc, sigterm, reauths, conn, calls, answer, child, busy, settings>>
        /\ idle[w] /\ busy[w] = "no" /\ idle' = [idle EXCEPT ![w] = FALSE]
        /\ state[w] \in {0, 3, 5}
    BY <1>1 DEF DoSetup, DoAccredit, DoOpenSession, IdleFires, LoopFree
  <2>2. /\ idle'[w] = FALSE
        /\ \A v \in Workers \ {w} : idle'[v] = idle[v]
    BY <1>t, <2>1
  <2>3. PICK ok \in BOOLEAN : ReplyPending(w, ok) /\ \A v \in Workers \ {w} : state'[v] = state[v]
    <3>1. \/ \E s \in {1, 4, 6} : SetState(w, s) /\ ReplyPending(w, TRUE)
          \/ StageFails(w)
          \/ ReplyPending(w, FALSE) /\ UNCHANGED state
      BY <1>1 DEF DoSetup, DoAccredit, DoOpenSession
    <3> QED BY <3>1, <1>u, <1>g
  <2>4. \A v \in Workers \ {w} : Same(v)
    BY <2>1, <2>2, <2>3 DEF Same
  <2> QED BY <1>f, <2>1, <2>2, <2>3, <2>4
<1>2. CASE FinishAuthenticate(w) \/ FinishAuthorize(w)
  <2>1. /\ UNCHANGED <<proc, sigterm, reauths, conn, calls, answer, child, idle>>
        /\ busy[w] = "pam" /\ busy' = [busy EXCEPT ![w] = "no"]
        /\ state[w] \in {1, 2}
    BY <1>2 DEF FinishAuthenticate, FinishAuthorize, PamReturns
  <2>2. \A v \in Workers \ {w} : busy'[v] = busy[v]
    BY <1>t, <2>1
  <2>3. \A v \in Workers \ {w} : settings'[v] = settings[v]
    <3>1. UNCHANGED settings \/ UpdateUsername(w)
      BY <1>2 DEF FinishAuthenticate, FinishAuthorize
    <3> QED BY <3>1, UpdateUsernameMoves
  <2>4. PICK ok \in BOOLEAN : /\ ReplyPending(w, ok) /\ state'[w] # SESSION_OPENED
                              /\ \A v \in Workers \ {w} : state'[v] = state[v]
    <3>1. \/ SetState(w, 2) /\ ReplyPending(w, TRUE)
          \/ SetState(w, 3) /\ ReplyPending(w, TRUE)
          \/ StageFails(w)
      BY <1>2 DEF FinishAuthenticate, FinishAuthorize
    <3>2. state'[w] # SESSION_OPENED /\ \A v \in Workers \ {w} : state'[v] = state[v]
      <4>1. CASE SetState(w, 2)
        BY <4>1, <1>g
      <4>2. CASE SetState(w, 3)
        BY <4>2, <1>g
      <4>3. CASE StageFails(w)
        BY <4>3, <1>u, <2>1
      <4> QED BY <3>1, <4>1, <4>2, <4>3
    <3> QED BY <3>1, <3>2, <1>u
  <2>5. \A v \in Workers \ {w} : Same(v)
    BY <2>1, <2>2, <2>3, <2>4 DEF Same
  <2> QED BY <1>f, <2>1, <2>4, <2>5
<1>3. CASE DoStartSession(w)
  <2>1. /\ UNCHANGED <<proc, sigterm, reauths, conn, calls, answer, busy, settings>>
        /\ idle[w] /\ busy[w] = "no" /\ idle' = [idle EXCEPT ![w] = FALSE]
        /\ state[w] = 6
    BY <1>3 DEF DoStartSession, IdleFires, LoopFree
  <2>2. /\ idle'[w] = FALSE
        /\ \A v \in Workers \ {w} : idle'[v] = idle[v]
    BY <1>t, <2>1
  <2>3. CASE child' = [child EXCEPT ![w] = "running"] /\ SetState(w, SESSION_STARTED) /\ ReplyPending(w, TRUE)
    <3>1. child'[w] = "running" /\ \A v \in Workers \ {w} : child'[v] = child[v] /\ state'[v] = state[v]
      BY <1>t, <1>g, <2>3
    <3>2. \A v \in Workers \ {w} : Same(v)
      BY <2>1, <2>2, <3>1 DEF Same
    <3> QED BY <1>f, <2>1, <2>2, <2>3, <3>1, <3>2
  <2>4. CASE StageFails(w) /\ UNCHANGED <<child, graceful>>
    <3>1. \A v \in Workers \ {w} : Same(v)
      BY <1>u, <2>1, <2>2, <2>4 DEF Same
    <3> QED BY <1>f, <1>u, <2>1, <2>2, <2>4, <3>1
  <2> QED BY <1>3, <2>3, <2>4 DEF DoStartSession
<1> QED BY <1>1, <1>2, <1>3

(* The other steps of a worker.                                            *)
LEMMA OtherMoves ==
    ASSUME TypeOK, NEW w \in Workers, StartRequested(w), SessionNeedsPam,
           \/ BeginAuthenticate(w) \/ BeginAuthorize(w)
           \/ ProcessPamMessage(w) \/ QueryAnswered(w)
           \/ DoSaveAccountDetailsWhenReady(w) \/ SettingsLoaded(w)
           \/ StateChangeAborts(w) \/ ChildExits(w) \/ ChildWatch(w)
           \/ \E c \in Callers : ReauthenticationComplete(w, c) \/ ReauthenticationClientGone(w, c)
           \/ SigtermExits(w) \/ Finalize(w) \/ Crash(w)
    PROVE  Moves(w)
<1> USE DEF pamVars, profileVars, procVars, wireVars
<1> USE DEF NONE, SETUP_COMPLETE, AUTHENTICATED, AUTHORIZED, ACCREDITED, ACCOUNT_DETAILS_SAVED,
            SESSION_OPENED, SESSION_STARTED
<1>t. /\ idle \in [Workers -> BOOLEAN] /\ answer \in [Workers -> BOOLEAN]
      /\ state \in [Workers -> Stages] /\ busy \in [Workers -> {"no", "pam", "query"}]
      /\ child \in [Workers -> {"none", "running", "zombie"}]
      /\ settings \in [Workers -> {"none", "loading", "loaded"}]
      /\ reauths \in [Workers -> SUBSET Callers]
  BY DEF TypeOK
<1>e. \A k \in {"Query", "SessionExited", "Reauthenticated"} :
         /\ Signal(k) \in Event /\ Signal(k).kind = k
         /\ Signal(k) # Reply("StartProgram", TRUE)
  BY DEF Signal, Event, Reply
<1>f. ASSUME UNCHANGED <<proc, sigterm, conn>>,
             \A v \in Workers \ {w} : SameAt(v),
             ~Unused(w), Says(w), Listens(w), Runs(w), Obeys(w)
      PROVE  Moves(w)
  BY <1>f DEF Moves, Acts
<1>o. ASSUME UNCHANGED <<pending, calls>>, idle'[w] => state'[w] # SESSION_OPENED \/ idle[w],
             state'[w] = state[w] \/ (state[w] # SESSION_OPENED /\ state'[w] # SESSION_OPENED)
      PROVE  Obeys(w)
  BY <1>o DEF Obeys, StartRequested
<1>1. CASE BeginAuthenticate(w) \/ BeginAuthorize(w)
  <2>1. /\ UNCHANGED <<proc, state, pending, child, sigterm, reauths, settings, conn, calls, answer, events>>
        /\ idle[w] /\ busy[w] = "no"
        /\ idle' = [idle EXCEPT ![w] = FALSE] /\ busy' = [busy EXCEPT ![w] = "pam"]
    BY <1>1 DEF BeginAuthenticate, BeginAuthorize, EnterPam, IdleFires, LoopFree
  <2>2. ~idle'[w] /\ \A v \in Workers \ {w} : SameAt(v)
    BY <1>t, <2>1 DEF SameAt
  <2>3. Says(w) /\ Listens(w) /\ Runs(w)
    BY <2>1 DEF Says, Listens, Runs
  <2>4. Obeys(w)
    BY <1>o, <2>1, <2>2
  <2> QED BY <1>f, <2>1, <2>2, <2>3, <2>4, NotUnused
<1>2. CASE ProcessPamMessage(w)
  <2>1. /\ UNCHANGED <<proc, state, pending, idle, child, sigterm, reauths, conn, calls, answer>>
        /\ busy[w] = "pam" /\ busy' = [busy EXCEPT ![w] = "query"]
        /\ UpdateUsername(w) /\ Emit(w, Signal("Query"))
    BY <1>2 DEF ProcessPamMessage
  <2>2. /\ \A v \in Workers \ {w} : events'[v] = events[v]
        /\ conn[w] => events'[w] = Append(events[w], Signal("Query"))
        /\ ~conn[w] => events'[w] = events[w]
    BY <1>e, <2>1, EmitSays
  <2>3. \A v \in Workers \ {w} : SameAt(v)
    BY <1>t, <2>1, <2>2, UpdateUsernameMoves DEF SameAt
  <2>4. busy'[w] = "query"
    BY <1>t, <2>1
  <2>5. Says(w)
    BY <1>e, <2>1, <2>2, <2>4 DEF Says
  <2>6. Listens(w) /\ Runs(w)
    BY <2>1 DEF Listens, Runs
  <2>7. Obeys(w)
    BY <1>o, <2>1
  <2> QED BY <1>f, <2>1, <2>3, <2>5, <2>6, <2>7, NotUnused
<1>3. CASE QueryAnswered(w)
  <2>1. /\ UNCHANGED <<proc, state, pending, idle, child, sigterm, reauths, settings, conn, calls, events>>
        /\ busy[w] = "query" /\ busy' = [busy EXCEPT ![w] = "pam"]
        /\ answer' = [answer EXCEPT ![w] = FALSE] /\ (answer[w] \/ ~conn[w])
    BY <1>3 DEF QueryAnswered
  <2>2. ~answer'[w] /\ \A v \in Workers \ {w} : SameAt(v)
    BY <1>t, <2>1 DEF SameAt
  <2>3. Says(w) /\ Listens(w) /\ Runs(w)
    BY <2>1, <2>2 DEF Says, Listens, Runs
  <2>4. Obeys(w)
    BY <1>o, <2>1
  <2> QED BY <1>f, <2>1, <2>2, <2>3, <2>4, NotUnused
<1>4. CASE DoSaveAccountDetailsWhenReady(w) \/ SettingsLoaded(w)
  <2>1. /\ UNCHANGED <<proc, pending, busy, child, sigterm, reauths, conn, calls, answer, events>>
        /\ idle[w] \/ settings[w] = "loading"
        /\ busy[w] = "no"
        /\ \/ UNCHANGED <<state, idle>>
           \/ /\ state[w] \in {NONE, ACCREDITED}
              /\ idle' = [idle EXCEPT ![w] = TRUE] \/ idle' = [idle EXCEPT ![w] = FALSE]
              /\ UNCHANGED state \/ state' = [state EXCEPT ![w] = ACCOUNT_DETAILS_SAVED]
    BY <1>4 DEF DoSaveAccountDetailsWhenReady, SettingsLoaded, SaveAccountDetails, SetState,
                QueueStateChange, LoopFree
  <2>s. \A v \in Workers \ {w} : settings'[v] = settings[v]
    BY <1>4, <1>t DEF DoSaveAccountDetailsWhenReady, SettingsLoaded, LoadSettings
  <2>2. \A v \in Workers \ {w} : SameAt(v)
    BY <1>t, <2>1, <2>s DEF SameAt
  <2>3. Says(w) /\ Listens(w) /\ Runs(w)
    BY <2>1 DEF Says, Listens, Runs
  <2>4. Obeys(w)
    <3>1. CASE UNCHANGED <<state, idle>>
      BY <1>o, <2>1, <3>1
    <3>2. CASE state[w] \in {NONE, ACCREDITED}
      <4>1. state'[w] # SESSION_OPENED
        BY <1>t, <2>1, <3>2
      <4> QED BY <1>o, <2>1, <3>2, <4>1
    <3> QED BY <2>1, <3>1, <3>2
  <2> QED BY <1>f, <2>1, <2>2, <2>3, <2>4, NotUnused
<1>5. CASE StateChangeAborts(w) \/ SigtermExits(w) \/ Crash(w)
  <2>1. PICK how \in {"exited", "died"} : Running(w) /\ Ends(w, how) /\ UNCHANGED <<state, child>>
    BY <1>5 DEF StateChangeAborts, SigtermExits, Crash, LoopFree
  <2> QED BY <2>1, EndsMoves
<1>6. CASE Finalize(w)
  <2>1. /\ Running(w) /\ Ends(w, "exited") /\ UninitializePam(w)
        /\ child' = [child EXCEPT ![w] = "none"]
    BY <1>6 DEF Finalize, LoopFree
  <2>2. \A v \in Workers \ {w} : state'[v] = state[v] /\ child'[v] = child[v]
    BY <1>t, <2>1, UninitializePamMoves
  <2> QED BY <2>1, <2>2, EndsMoves
<1>7. CASE ChildExits(w)
  <2>1. /\ UNCHANGED <<proc, state, pending, idle, busy, sigterm, reauths, settings, conn, calls, answer, events>>
        /\ child[w] = "running" /\ child' = [child EXCEPT ![w] = "zombie"]
    BY <1>7 DEF ChildExits
  <2>2. child'[w] = "zombie" /\ \A v \in Workers \ {w} : SameAt(v)
    BY <1>t, <2>1 DEF SameAt
  <2>3. Says(w) /\ Listens(w) /\ Runs(w)
    BY <2>1, <2>2 DEF Says, Listens, Runs
  <2>4. Obeys(w)
    BY <1>o, <2>1
  <2> QED BY <1>f, <2>1, <2>2, <2>3, <2>4, NotUnused
<1>8. CASE ChildWatch(w)
  <2>1. /\ UNCHANGED <<proc, pending, idle, busy, sigterm, reauths, settings, conn, calls, answer>>
        /\ child[w] = "zombie" /\ child' = [child EXCEPT ![w] = "none"]
        /\ Running(w) /\ busy[w] = "no" /\ UninitializePam(w) /\ Emit(w, Signal("SessionExited"))
    BY <1>8 DEF ChildWatch, LoopFree
  <2>2. /\ \A v \in Workers \ {w} : events'[v] = events[v]
        /\ conn[w] => events'[w] = Append(events[w], Signal("SessionExited"))
        /\ ~conn[w] => events'[w] = events[w]
    BY <1>e, <2>1, EmitSays
  <2>3. /\ \A v \in Workers \ {w} : state'[v] = state[v]
        /\ state'[w] \in {state[w], NONE}
    BY <2>1, UninitializePamMoves
  <2>4. child'[w] = "none" /\ \A v \in Workers \ {w} : SameAt(v)
    BY <1>t, <2>1, <2>2, <2>3 DEF SameAt
  <2>5. state[w] = SESSION_STARTED
    BY <2>1 DEF SessionNeedsPam
  <2>6. Says(w)
    BY <1>e, <2>1, <2>2 DEF Says
  <2>7. Listens(w) /\ Runs(w)
    BY <2>1, <2>2, <2>4 DEF Listens, Runs
  <2>8. Obeys(w)
    BY <1>o, <2>1, <2>3, <2>5
  <2> QED BY <1>f, <2>1, <2>4, <2>6, <2>7, <2>8, NotUnused
<1>9. ASSUME NEW c \in Callers, ReauthenticationComplete(w, c) \/ ReauthenticationClientGone(w, c)
      PROVE  Moves(w)
  <2>1. /\ UNCHANGED <<proc, state, pending, idle, busy, child, sigterm, settings, conn, calls, answer>>
        /\ reauths[w] # {} /\ busy[w] = "no"
        /\ UNCHANGED reauths \/ reauths' = [reauths EXCEPT ![w] = @ \ {c}]
        /\ UNCHANGED events \/ Emit(w, Signal("Reauthenticated"))
    BY <1>9 DEF ReauthenticationComplete, ReauthenticationClientGone, LoopFree
  <2>2. /\ \A v \in Workers \ {w} : events'[v] = events[v]
        /\ \/ events'[w] = events[w]
           \/ conn[w] /\ events'[w] = Append(events[w], Signal("Reauthenticated"))
    <3>1. CASE Emit(w, Signal("Reauthenticated"))
      BY <1>e, <3>1, EmitSays
    <3> QED BY <2>1, <3>1
  <2>3. \A v \in Workers \ {w} : SameAt(v)
    BY <1>t, <2>1, <2>2 DEF SameAt
  <2>4. Says(w)
    BY <1>e, <2>1, <2>2 DEF Says
  <2>5. Listens(w) /\ Runs(w)
    BY <2>1 DEF Listens, Runs
  <2>6. Obeys(w)
    BY <1>o, <2>1
  <2> QED BY <1>f, <2>1, <2>3, <2>4, <2>5, <2>6, NotUnused
<1> QED BY <1>1, <1>2, <1>3, <1>4, <1>5, <1>6, <1>7, <1>8, <1>9

(* Whatever a worker does, its session sees no more than Moves.            *)
LEMMA StepMoves ==
    ASSUME TypeOK, NEW w \in Workers, StartRequested(w), SessionNeedsPam, WorkerStep(w)
    PROVE  Moves(w)
BY RequestMoves, StageMoves, OtherMoves DEF WorkerStep

-----------------------------------------------------------------------------
(* What a worker does keeps the invariant.                                 *)

(* The parts that concern one worker depend on nothing of the others.      *)
LEMMA SameEach ==
    ASSUME NEW v \in Workers, Each(v), SameAt(v), UNCHANGED ses
    PROVE  Each(v)' /\ (Starts(v)' => Starts(v)) /\ (Conversing(v)' => Conversing(v))
<1>3. Announced(v)'
  <2>1. Announced(v)
    BY DEF Each
  <2>2. events'[v] = events[v] /\ conn'[v] = conn[v] /\ child'[v] = child[v] /\ ses' = ses
    BY DEF SameAt
  <2> QED BY ONLY <2>1, <2>2 DEF Announced
<1> USE DEF SameAt, Running, Live, Freed, NoEntry
<1>1. Unregistered(v)'
  BY DEF Each, Unregistered, Unused
<1>2. QueryWaits(v)'
  BY DEF Each, QueryWaits, Waits
<1>4. StartRequested(v)'
  BY DEF Each, StartRequested
<1>5. Starts(v)' => Starts(v)
  BY DEF Starts, Asked
<1>6. Conversing(v)' => Conversing(v)
  BY DEF Conversing
<1> QED BY <1>1, <1>2, <1>3, <1>4, <1>5, <1>6 DEF Each

(* The end of the process.                                                 *)
LEMMA QuitsEach ==
    ASSUME NEW w \in Workers, Each(w), Quits(w), UNCHANGED ses
    PROVE  Each(w)' /\ (Starts(w)' => Starts(w)) /\ (Conversing(w)' => Conversing(w))
<1> USE DEF Quits, Running, Live, Freed, NoEntry
<1>1. Unregistered(w)'
  BY DEF Each, Unregistered, Unused
<1>2. QueryWaits(w)'
  BY DEF Each, QueryWaits, Waits
<1>3. Announced(w)'
  BY DEF Each, Announced
<1>4. StartRequested(w)'
  BY DEF Each, StartRequested, NoCall
<1>5. Starts(w)' => Starts(w)
  BY DEF Starts, Asked, NoCall
<1>6. Conversing(w)' => Conversing(w)
  BY DEF Conversing
<1> QED BY <1>1, <1>2, <1>3, <1>4, <1>5, <1>6 DEF Each

(* Any other step of it.                                                   *)
LEMMA ActsEach ==
    ASSUME TypeOK, TypeOK', NEW w \in Workers, Each(w), Acts(w), UNCHANGED ses
    PROVE  Each(w)' /\ (Starts(w)' => Starts(w)) /\ (Conversing(w)' => Conversing(w))
<1>t. /\ events[w] \in Seq(Event) /\ events'[w] \in Seq(Event) /\ calls[w] \in Seq(Call)
      /\ answer[w] \in BOOLEAN /\ answer'[w] \in BOOLEAN /\ conn[w] \in BOOLEAN
  BY DEF TypeOK
<1>u. /\ ~Unused(w) /\ proc'[w] = proc[w] /\ sigterm'[w] = sigterm[w] /\ conn'[w] = conn[w]
      /\ Says(w) /\ Listens(w) /\ Runs(w) /\ Obeys(w)
  BY DEF Acts
<1>e. \/ events'[w] = events[w]
      \/ \E e \in Event :
            /\ conn[w] /\ events'[w] = Append(events[w], e)
            /\ busy[w] # "query"
            /\ e.kind = "Query" => busy'[w] = "query"
            /\ e = Reply("StartProgram", TRUE) => child'[w] # "none"
  BY <1>u DEF Says
<1>1. Unregistered(w)'
  <2>1. proc[w] # "unborn"
    BY <1>u DEF Each, Unregistered
  <2>2. ~ses.conv[w].proxy => ~conn[w]
    BY <1>u DEF Each, Unregistered
  <2>3. ~ses.conv[w].proxy => events'[w] = events[w]
    BY <1>e, <2>2
  <2> QED BY <1>u, <2>1, <2>2, <2>3 DEF Each, Unregistered, Running
<1>2. QueryWaits(w)'
  <2> DEFINE n == Len(events[w])
  <2>w. /\ \A i \in 1..n : events[w][i].kind = "Query" => i = n /\ ~ses.conv[w].query /\ Waits(w)
        /\ ses.conv[w].query => Waits(w)
        /\ answer[w] => busy[w] = "query"
    BY DEF Each, QueryWaits
  <2>1. answer'[w] => busy'[w] = "query"
    BY <1>u, <2>w DEF Listens
  <2>2. Waits(w) => Waits(w)'
    BY <1>u, <1>t, <2>w DEF Waits, Listens
  <2>3. conn[w] /\ busy[w] # "query" => ~Waits(w)
    BY DEF Waits
  <2>4. CASE events'[w] = events[w]
    BY <2>w, <2>1, <2>2, <2>4 DEF QueryWaits
  <2>5. ASSUME NEW e \in Event, conn[w], events'[w] = Append(events[w], e), busy[w] # "query",
               e.kind = "Query" => busy'[w] = "query"
        PROVE  QueryWaits(w)'
    <3>1. Len(events'[w]) = n + 1 /\ n \in Nat /\ events'[w][n + 1] = e
          /\ \A i \in 1..n : events'[w][i] = events[w][i]
      BY <1>t, <2>5
    <3>2. ~Waits(w) /\ ~ses.conv[w].query /\ \A i \in 1..n : events[w][i].kind # "Query"
      BY <2>3, <2>5, <2>w
    <3>3. \A i \in 1..(n + 1) : events'[w][i].kind = "Query" => i = n + 1 /\ e.kind = "Query"
      BY <3>1, <3>2
    <3>4. e.kind = "Query" => Waits(w)'
      BY <1>u, <1>t, <2>5, <2>w DEF Waits, Listens
    <3> HIDE DEF n
    <3>5. \A i \in 1..Len(events'[w]) : events'[w][i].kind = "Query" =>
             i = Len(events'[w]) /\ ~ses'.conv[w].query /\ Waits(w)'
      BY <3>1, <3>2, <3>3, <3>4
    <3>6. ~ses'.conv[w].query
      BY <3>2
    <3> QED BY <2>1, <3>5, <3>6 DEF QueryWaits
  <2> QED BY <1>e, <2>4, <2>5
<1>3. Announced(w)'
  <2> DEFINE n == Len(events[w])
             Exited(i) == \E j \in i..n : events[w][j].kind = "SessionExited"
  <2>w. /\ \A i \in 1..n : events[w][i] = Reply("StartProgram", TRUE) /\ conn[w] =>
              child[w] # "none" \/ Exited(i)
        /\ ses.session_conversation = w /\ conn[w] =>
              Live(ses, w) /\ (child[w] # "none" \/ Exited(1))
    BY DEF Each, Announced
  <2>c. \/ child'[w] # "none" \/ child'[w] = child[w]
        \/ conn[w] => events'[w] = Append(events[w], Signal("SessionExited"))
    BY <1>u DEF Runs
  <2>4. CASE events'[w] = events[w]
    <3>1. conn[w] => child'[w] # "none" \/ child'[w] = child[w]
      <4>1. Len(Append(events[w], Signal("SessionExited"))) = Len(events[w]) + 1 /\ Len(events[w]) \in Nat
        BY <1>t DEF Signal, Event
      <4> QED BY <2>c, <2>4, <4>1
    <3> QED BY <1>u, <2>w, <2>4, <3>1 DEF Announced
  <2>5. ASSUME NEW e \in Event, conn[w], events'[w] = Append(events[w], e),
               e = Reply("StartProgram", TRUE) => child'[w] # "none"
        PROVE  Announced(w)'
    <3>1. Len(events'[w]) = n + 1 /\ n \in Nat /\ events'[w][n + 1] = e
          /\ \A i \in 1..n : events'[w][i] = events[w][i]
      BY <1>t, <2>5
    <3> DEFINE Exits(i) == \E j \in i..(n + 1) : events'[w][j].kind = "SessionExited"
    <3>2. \A i \in 1..n : Exited(i) => Exits(i)
      BY <3>1
    <3>3. Exited(1) => Exits(1)
      BY <3>1
    <3>4. e.kind = "SessionExited" => \A i \in 1..(n + 1) : Exits(i)
      BY <3>1
    <3>5. child'[w] # "none" \/ child'[w] = child[w] \/ e.kind = "SessionExited"
      <4>1. CASE events'[w] = Append(events[w], Signal("SessionExited"))
        <5>1. Append(events[w], Signal("SessionExited"))[n + 1] = Signal("SessionExited")
          BY <1>t DEF Signal, Event
        <5>2. e = Signal("SessionExited")
          BY <3>1, <4>1, <5>1
        <5> QED BY <5>2 DEF Signal
      <4> QED BY <2>c, <2>5, <4>1
    <3>6. 1 \in 1..(n + 1)
      BY <3>1
    <3>7. ASSUME NEW i \in 1..(n + 1), events'[w][i] = Reply("StartProgram", TRUE)
          PROVE  child'[w] # "none" \/ Exits(i)
      <4> HIDE DEF Exits, Exited
      <4>1. CASE i = n + 1
        BY <2>5, <3>1, <3>7, <4>1
      <4>2. CASE i \in 1..n
        BY <2>5, <2>w, <3>1, <3>2, <3>4, <3>5, <3>7, <4>2
      <4> QED BY <3>1, <4>1, <4>2
    <3>8. ses.session_conversation = w => Live(ses, w) /\ (child'[w] # "none" \/ Exits(1))
      <4> HIDE DEF Exits, Exited
      <4> QED BY <2>5, <2>w, <3>3, <3>4, <3>5, <3>6
    <3> HIDE DEF n
    <3> QED BY <1>u, <3>1, <3>7, <3>8 DEF Announced, Live
  <2> QED BY <1>e, <2>4, <2>5
<1>4. StartRequested(w)'
  BY <1>u DEF Obeys
<1>5. Starts(w)' => Starts(w)
  <2>1. Asked(w, "StartProgram")' => Asked(w, "StartProgram")
    <3>1. CASE calls'[w] = calls[w]
      BY <3>1 DEF Asked
    <3>2. CASE calls[w] # <<>> /\ calls'[w] = Tail(calls[w])
      <4>1. /\ Len(calls[w]) \in Nat /\ Len(calls'[w]) = Len(calls[w]) - 1
            /\ \A i \in 1..Len(calls'[w]) : calls'[w][i] = calls[w][i + 1] /\ i + 1 \in 1..Len(calls[w])
        BY <1>t, <3>2
      <4>2. DOMAIN calls'[w] = 1..Len(calls'[w]) /\ DOMAIN calls[w] = 1..Len(calls[w])
        BY <1>t, <3>2
      <4> QED BY <4>1, <4>2 DEF Asked
    <3> QED BY <1>u, <3>1, <3>2 DEF Obeys
  <2>2. pending'[w].method = "StartProgram" => Starts(w)
    BY <1>u DEF Obeys, Starts
  <2>3. Running(w)' /\ child'[w] # "none" => Starts(w)
    BY <1>u DEF Runs, Starts, Running
  <2> QED BY <2>1, <2>2, <2>3 DEF Starts
<1>6. Conversing(w)' => Conversing(w)
  BY DEF Conversing, Live
<1> QED BY <1>1, <1>2, <1>3, <1>4, <1>5, <1>6 DEF Each

(* A step of one worker in which the others and the session take no part   *)
(* keeps what holds of each worker and of all.                             *)
LEMMA WorkerKeeps ==
    ASSUME LoginInv, Inv', NEW w \in Workers, UNCHANGED ses,
           \A v \in Workers \ {w} : SameAt(v),
           Each(w)', Starts(w)' => Starts(w),
           Running(w)' /\ ~Live(ses, w) => sigterm'[w]
    PROVE  LoginInv'
<1>1. ASSUME NEW v \in Workers PROVE Each(v)' /\ (Starts(v)' => Starts(v))
  <2>1. CASE v # w
    BY <2>1, SameEach DEF LoginInv
  <2> QED BY <2>1
<1>2. OneStarts'
  BY <1>1 DEF LoginInv, OneStarts, Conversing, Live
<1>3. NoOrphanWorker'
  <2>1. ASSUME NEW v \in Workers, Running(v)', ~Live(ses, v) PROVE sigterm'[v]
    <3>1. CASE v # w
      BY <2>1, <3>1 DEF LoginInv, NoOrphanWorker, Running, SameAt
    <3> QED BY <2>1, <3>1
  <2> QED BY <2>1 DEF LoginInv, NoOrphanWorker, Live
<1> QED BY <1>1, <1>2, <1>3 DEF LoginInv

(* In the states of the invariant a session process has its stage.         *)
LEMMA InvNeedsPam == Inv => SessionNeedsPam
<1>1. Inv => Lifecycle!LifecycleInv
  BY DEF Inv
<1> QED BY <1>1 DEF Lifecycle!LifecycleInv, Lifecycle!Kept, Lifecycle!Holdings, Lifecycle!Items,
              Lifecycle!Top, Lifecycle!Opened, SessionNeedsPam, Running, SESSION_STARTED, PamItems

LEMMA ActsKeep ==
    ASSUME LoginInv, NEW w \in Workers, WorkerActs(w)
    PROVE  LoginInv'
<1>1. WorkerStep(w) /\ UNCHANGED ses
  BY DEF WorkerActs, loginVars
<1>2. Inv'
  BY <1>1, InvInductive DEF LoginInv, Next
<1>3. Each(w) /\ TypeOK /\ TypeOK' /\ SessionNeedsPam
  BY <1>2, InvNeedsPam DEF LoginInv, Inv
<1>4. Moves(w)
  BY <1>1, <1>3, StepMoves DEF Each
<1>5. Each(w)' /\ (Starts(w)' => Starts(w))
  BY <1>1, <1>3, <1>4, QuitsEach, ActsEach DEF Moves
<1>6. Running(w)' /\ ~Live(ses, w) => sigterm'[w]
  BY <1>4 DEF Moves, Quits, Acts, Running, LoginInv, NoOrphanWorker
<1> QED BY <1>1, <1>2, <1>4, <1>5, <1>6, WorkerKeeps DEF Moves

(* A process that starts was spawned for a conversation, which may be      *)
(* stopped or freed by now.                                                *)
LEMMA StartsKeep ==
    ASSUME LoginInv, NEW w \in Workers, WorkerStarts(w)
    PROVE  LoginInv'
<1>1. Start(w) /\ Spawned(w) /\ UNCHANGED ses
  BY DEF WorkerStarts, loginVars
<1>2. Inv'
  BY <1>1, InvInductive DEF LoginInv, Next
<1>3. TypeOK /\ Each(w)
  BY DEF LoginInv, Inv
<1>t. /\ proc \in [Workers -> {"unborn", "running", "exited", "died"}]
      /\ conn \in [Workers -> BOOLEAN] /\ events \in [Workers -> Seq(Event)]
  BY <1>3 DEF TypeOK
<1>4. /\ UNCHANGED <<state, pending, idle, busy, child, sigterm, reauths, settings, calls, answer>>
      /\ proc[w] = "unborn" /\ proc' = [proc EXCEPT ![w] = "running"]
      /\ conn' = [conn EXCEPT ![w] = TRUE]
      /\ events' = [events EXCEPT ![w] = <<Signal("Hello")>>]
  BY <1>1 DEF Start, pamVars, profileVars
<1>5. /\ proc'[w] = "running" /\ conn'[w] = TRUE /\ events'[w] = <<Signal("Hello")>>
      /\ \A v \in Workers \ {w} : SameAt(v)
  BY <1>4, <1>t DEF SameAt
<1>6. Unused(w) /\ ~ses.conv[w].proxy /\ ses.session_conversation # w /\ ~ses.conv[w].query
  BY <1>3, <1>4 DEF Each, Unregistered
<1>7. Unused(w)'
  BY <1>4, <1>6 DEF Unused
<1>h. /\ Len(<<Signal("Hello")>>) = 1 /\ <<Signal("Hello")>>[1] = Signal("Hello")
      /\ Signal("Hello").kind = "Hello" /\ Signal("Hello") # Reply("StartProgram", TRUE)
  BY DEF Signal, Reply
<1>i. \A i \in 1..Len(events'[w]) : events'[w][i] = Signal("Hello")
  BY <1>5, <1>h
<1>8. Each(w)'
  <2>1. Unregistered(w)'
    BY <1>1, <1>5, <1>6, <1>7 DEF Unregistered, Running
  <2>2. QueryWaits(w)'
    <3>1. \A i \in 1..Len(events'[w]) : events'[w][i].kind # "Query"
      BY <1>i, <1>h
    <3>2. ~ses'.conv[w].query /\ ~answer'[w]
      BY <1>1, <1>6, <1>7 DEF Unused
    <3> QED BY <3>1, <3>2 DEF QueryWaits
  <2>3. Announced(w)'
    <3>1. \A i \in 1..Len(events'[w]) : events'[w][i] # Reply("StartProgram", TRUE)
      BY <1>i, <1>h
    <3>2. ses'.session_conversation # w
      BY <1>1, <1>6
    <3> QED BY <3>1, <3>2 DEF Announced
  <2>4. StartRequested(w)'
    BY <1>4, <1>3 DEF Each, StartRequested
  <2> QED BY <2>1, <2>2, <2>3, <2>4 DEF Each
<1>9. ~Starts(w)'
  BY <1>7 DEF Unused, Starts, Asked, NoCall
<1>10. ~Live(ses, w) => sigterm'[w]
  BY <1>1, <1>4 DEF Spawned
<1> QED BY <1>1, <1>2, <1>5, <1>8, <1>9, <1>10, WorkerKeeps

-----------------------------------------------------------------------------
(* A step of the daemon.                                                   *)

(* The table of the session and its conversations agree.                   *)
Agrees(S) ==
    \A w \in Workers :
        /\ Live(S, w) => S.table[S.conv[w].service] = w
        /\ \A s \in Services : S.table[s] = w => Live(S, w) /\ S.conv[w].service = s

Converses(S, w) == Live(S, w) /\ ~S.conv[w].stopping

(* The pointer to the session's conversation outlives it only if that was  *)
(* being stopped and has been replaced.                                    *)
PointerKept(T) ==
    \A w \in Workers :
        Live(ses, w) /\ ~Live(T, w) /\ T.session_conversation = w =>
            ses.conv[w].stopping /\ T.table[ses.conv[w].service] # NoEntry

First(w, from) == w = from /\ events[w] # <<>>
HeadIs(w, from, kind) == First(w, from) /\ Head(events[w]).kind = kind

(* What the daemon may make of its session when it handles an event of     *)
(* "from", or none: a proxy and a pending query come from an event, a      *)
(* conversation that goes on went on before or is new, and                 *)
(* session_conversation is set on good news only and not kept on bad.      *)
Evolves(T, from) ==
    /\ T \in SessionType /\ Agrees(T) /\ PointerKept(T)
    /\ \A w \in Workers :
          /\ w = from => events[w] # <<>>
          /\ T.conv[w].proxy => ses.conv[w].proxy \/ w = from
          /\ ~T.conv[w].proxy /\ Live(T, w) => ~ses.conv[w].proxy
          /\ ~T.conv[w].proxy => ~T.conv[w].query
          /\ T.conv[w].query => ses.conv[w].query \/ HeadIs(w, from, "Query")
          /\ Converses(T, w) => Converses(ses, w) \/ ~Spawned(w)
          /\ T.session_conversation = w =>
                \/ First(w, from) /\ Head(events[w]) = Reply("StartProgram", TRUE)
                \/ ses.session_conversation = w /\ ~HeadIs(w, from, "SessionExited")

(* A query that is answered was pending or has just arrived.               *)
Answers(T, from) ==
    /\ answer' \in [Workers -> BOOLEAN]
    /\ \A w \in Workers :
          \/ answer'[w] = answer[w]
          \/ /\ answer'[w] = conn[w] /\ ~T.conv[w].query
             /\ ses.conv[w].query \/ HeadIs(w, from, "Query")

(* Who asks one worker to start a session has stopped the others.          *)
Sends(T, x, cs) ==
    /\ cs \in Seq(Call)
    /\ \/ \A i \in 1..Len(cs) : cs[i].method # "StartProgram"
       \/ \A y \in Workers \ {x} : ~Converses(T, y)

(* What Becomes does to the wire of one worker.                            *)
Unread(w, from) == IF w = from THEN Tail(events[w]) ELSE events[w]

LEMMA BecomesWire ==
    ASSUME NEW T, NEW from, NEW x, NEW cs, Becomes(T, from, x, cs), NEW w \in Workers
    PROVE  /\ sigterm'[w] = (sigterm[w] \/ (Stopped(T, w) /\ ~Ended(w)))
           /\ conn'[w] = (conn[w] /\ ~Closed(T, w))
           /\ \/ calls'[w] = calls[w]
              \/ w = x /\ conn'[w] /\ T.conv[w].proxy /\ calls'[w] = calls[w] \o cs
           /\ ~Closed(T, w) => events'[w] = Unread(w, from)
           /\ Closed(T, w) /\ ~Live(T, w) => events'[w] = <<>>
           /\ Closed(T, w) /\ Live(T, w) =>
                 \E n \in AtHand(Unread(w, from)) : events'[w] = SubSeq(Unread(w, from), 1, n)
           /\ ses' = T
           /\ UNCHANGED <<pamVars, profileVars, proc, child, graceful, reauths>>
<1>0. UNCHANGED <<pamVars, profileVars, proc, child, graceful, reauths>> /\ ses' = T
  BY DEF Becomes
<1>1. sigterm'[w] = (sigterm[w] \/ (Stopped(T, w) /\ ~Ended(w)))
  BY DEF Becomes
<1>2. conn'[w] = (conn[w] /\ ~Closed(T, w))
  BY DEF Becomes
<1>3. \/ calls'[w] = calls[w]
      \/ w = x /\ conn'[w] /\ T.conv[w].proxy /\ calls'[w] = calls[w] \o cs
  BY DEF Becomes
<1> DEFINE unread(v) == IF v = from THEN Tail(events[v]) ELSE events[v]
<1>4. PICK n \in [{v \in Workers : Closed(T, v) /\ Live(T, v)} -> 0..InFlight] :
         /\ \A v \in DOMAIN n : n[v] \in AtHand(unread(v))
         /\ events' = [v \in Workers |->
                         IF ~Closed(T, v) THEN unread(v)
                         ELSE IF ~Live(T, v) THEN <<>>
                         ELSE SubSeq(unread(v), 1, n[v])]
  BY DEF Becomes
<1>5. unread(w) = Unread(w, from)
  BY DEF Unread
<1> HIDE DEF unread
<1>6. /\ ~Closed(T, w) => events'[w] = unread(w)
      /\ Closed(T, w) /\ ~Live(T, w) => events'[w] = <<>>
      /\ Closed(T, w) /\ Live(T, w) => events'[w] = SubSeq(unread(w), 1, n[w])
  BY <1>4
<1>7. Closed(T, w) /\ Live(T, w) => n[w] \in AtHand(unread(w))
  BY <1>4
<1> QED BY <1>0, <1>1, <1>2, <1>3, <1>5, <1>6, <1>7

(* What is still at hand has no query in it.                               *)
LEMMA AtHandEvents ==
    ASSUME NEW s \in Seq(Event), NEW n \in AtHand(s)
    PROVE  /\ SubSeq(s, 1, n) \in Seq(Event)
           /\ \A i \in 1..Len(SubSeq(s, 1, n)) : SubSeq(s, 1, n)[i].kind # "Query"
<1>1. n \in 0..Len(s) /\ \A i \in 1..n : s[i].kind # "Query"
  BY DEF AtHand
<1> HIDE DEF Event
<1>2. \A i \in 1..n : s[i] \in Event
  BY <1>1
<1>3. SubSeq(s, 1, n) \in Seq(Event)
  BY <1>1, <1>2
<1>4. Len(SubSeq(s, 1, n)) = n
  BY <1>1, <1>2
<1>5. \A i \in 1..n : SubSeq(s, 1, n)[i] = s[i]
  BY <1>1, <1>2
<1> QED BY <1>1, <1>3, <1>4, <1>5

(* Taking the first event leaves the others in order.                      *)
LEMMA UnreadEvents ==
    ASSUME NEW w \in Workers, NEW from, events[w] \in Seq(Event), w = from => events[w] # <<>>
    PROVE  /\ Unread(w, from) \in Seq(Event)
           /\ w # from => Unread(w, from) = events[w]
           /\ w = from =>
                 /\ Len(events[w]) \in Nat \ {0}
                 /\ Head(events[w]) = events[w][1]
                 /\ Len(Unread(w, from)) = Len(events[w]) - 1
                 /\ \A i \in 1..(Len(events[w]) - 1) : Unread(w, from)[i] = events[w][i + 1]
<1> HIDE DEF Event
<1>1. CASE w = from
  BY <1>1 DEF Unread
<1>2. CASE w # from
  BY <1>2 DEF Unread
<1> QED BY <1>1, <1>2

(* The context of the lemmas that follow.                                  *)
Handles(T, from, x, cs) ==
    Becomes(T, from, x, cs) /\ Evolves(T, from) /\ Answers(T, from) /\ Sends(T, x, cs)

(* Conversations without a proxy, freed ones among them.                   *)
LEMMA FreedFields ==
    ~Freed.proxy /\ ~Freed.query /\ ~Freed.stopping /\ Freed.starting = "no"
BY DEF Freed

(* A daemon's step keeps the types and the lifecycle of the workers.       *)
LEMMA HandlesType ==
    ASSUME LoginInv, NEW T, NEW from, NEW x, NEW cs, Handles(T, from, x, cs)
    PROVE  Inv' /\ ses' \in SessionType
<1>w. /\ Becomes(T, from, x, cs) /\ Evolves(T, from) /\ Answers(T, from) /\ Sends(T, x, cs)
  BY DEF Handles
<1>0. TypeOK /\ Lifecycle!LifecycleInv
  BY DEF LoginInv, Inv
<1>1. ses' = T /\ UNCHANGED <<pamVars, profileVars, proc, child, graceful, reauths>>
  BY <1>w DEF Becomes
<1>2. Lifecycle!LifecycleInv'
  BY <1>0, <1>1 DEF pamVars, Lifecycle!LifecycleInv, Lifecycle!LifecycleType, Lifecycle!Kept,
                    Lifecycle!Holdings
<1>3. sigterm' \in [Workers -> BOOLEAN] /\ conn' \in [Workers -> BOOLEAN]
  BY <1>w DEF Becomes
<1>4. calls' \in [Workers -> Seq(Call)]
  <2>1. \A w \in Workers : calls[w] \in Seq(Call) /\ calls[w] \o cs \in Seq(Call)
    BY <1>0, <1>w DEF TypeOK, Sends
  <2> QED BY <1>w, <2>1 DEF Becomes
<1>5. events' \in [Workers -> Seq(Event)]
  <2>0. <<>> \in Seq(Event)
    OBVIOUS
  <2>1. ASSUME NEW w \in Workers PROVE events'[w] \in Seq(Event)
    <3>1. events[w] \in Seq(Event)
      BY <1>0 DEF TypeOK
    <3>2. Unread(w, from) \in Seq(Event)
      BY <1>w, <3>1, UnreadEvents DEF Evolves
    <3>3. \A n \in AtHand(Unread(w, from)) : SubSeq(Unread(w, from), 1, n) \in Seq(Event)
      BY <3>2, AtHandEvents
    <3>4. /\ ~Closed(T, w) => events'[w] = Unread(w, from)
          /\ Closed(T, w) /\ ~Live(T, w) => events'[w] = <<>>
          /\ Closed(T, w) /\ Live(T, w) =>
                \E n \in AtHand(Unread(w, from)) : events'[w] = SubSeq(Unread(w, from), 1, n)
      BY <1>w, BecomesWire
    <3>5. CASE ~Closed(T, w)
      BY <3>2, <3>4, <3>5
    <3>6. CASE Closed(T, w) /\ ~Live(T, w)
      BY <2>0, <3>4, <3>6
    <3>7. CASE Closed(T, w) /\ Live(T, w)
      BY <3>3, <3>4, <3>7
    <3> QED BY <3>5, <3>6, <3>7
  <2>2. events' = [w \in Workers |-> events'[w]]
    BY <1>w DEF Becomes
  <2> QED BY <2>1, <2>2
<1>6. TypeOK'
  BY <1>0, <1>1, <1>3, <1>4, <1>5, <1>w DEF TypeOK, pamVars, profileVars, Answers
<1> QED BY <1>1, <1>2, <1>6, <1>w DEF Inv, Evolves

(* Nobody is left out: a process whose conversation goes gets SIGTERM.     *)
LEMMA HandlesOrphan ==
    ASSUME LoginInv, NEW T, NEW from, NEW x, NEW cs, Handles(T, from, x, cs)
    PROVE  NoOrphanWorker'
<1>w. Becomes(T, from, x, cs) /\ Evolves(T, from)
  BY DEF Handles
<1>1. ses' = T /\ UNCHANGED proc
  BY <1>w DEF Becomes
<1>2. ASSUME NEW w \in Workers, Running(w), ~Live(T, w) PROVE sigterm'[w]
  <2>1. sigterm'[w] = (sigterm[w] \/ (Stopped(T, w) /\ ~Ended(w)))
    BY <1>w, BecomesWire
  <2>2. ~Ended(w)
    BY <1>2 DEF Ended, Running
  <2>3. Live(ses, w) => Stopped(T, w)
    BY <1>2 DEF Stopped
  <2>4. ~Live(ses, w) => sigterm[w]
    BY <1>2 DEF LoginInv, NoOrphanWorker
  <2> QED BY <2>1, <2>2, <2>3, <2>4
<1>3. Agrees(T)
  BY <1>w DEF Evolves
<1> QED BY <1>1, <1>2, <1>3 DEF NoOrphanWorker, Agrees, Running, Live

(* What has no proxy has said no more than Hello.                          *)
LEMMA HandlesUnregistered ==
    ASSUME LoginInv, NEW T, NEW from, NEW x, NEW cs, Handles(T, from, x, cs), NEW w \in Workers
    PROVE  Unregistered(w)'
<1>w. Becomes(T, from, x, cs) /\ Evolves(T, from) /\ Answers(T, from)
  BY DEF Handles
<1>0. Unregistered(w) /\ events[w] \in Seq(Event)
  BY DEF LoginInv, Each, Inv, TypeOK
<1>1. /\ ses' = T /\ UNCHANGED <<proc, pending, idle, busy, child, reauths, settings>>
      /\ conn'[w] = (conn[w] /\ ~Closed(T, w))
      /\ \/ calls'[w] = calls[w]
         \/ T.conv[w].proxy
  BY <1>w, BecomesWire DEF pamVars, profileVars
<1>e. /\ ~Closed(T, w) => events'[w] = Unread(w, from)
      /\ Closed(T, w) /\ ~Live(T, w) => events'[w] = <<>>
  BY <1>w, BecomesWire
<1>2. /\ w = from => events[w] # <<>>
      /\ T.conv[w].proxy => ses.conv[w].proxy \/ w = from
      /\ ~T.conv[w].proxy /\ Live(T, w) => ~ses.conv[w].proxy
      /\ ~T.conv[w].proxy => ~T.conv[w].query
      /\ T.session_conversation = w => w = from \/ ses.session_conversation = w
  BY <1>w DEF Evolves, First
<1>h. /\ Signal("Hello").kind = "Hello" /\ <<Signal("Hello")>> # <<>>
      /\ Head(<<Signal("Hello")>>) = Signal("Hello") /\ Tail(<<Signal("Hello")>>) = <<>>
  BY DEF Signal
<1>a. ~ses.conv[w].proxy => answer'[w] = answer[w]
  <2>1. ~ses.conv[w].proxy => ~HeadIs(w, from, "Query") /\ ~ses.conv[w].query
    BY <1>0, <1>h DEF Unregistered, HeadIs, First
  <2> QED BY <1>w, <2>1 DEF Answers
<1>3. ASSUME proc[w] = "unborn"
      PROVE  /\ Unused(w)' /\ ~conn'[w] /\ events'[w] = <<>>
             /\ ~T.conv[w].proxy /\ T.session_conversation # w
  <2>1. /\ Unused(w) /\ ~conn[w] /\ events[w] = <<>>
        /\ ~ses.conv[w].proxy /\ ses.session_conversation # w
    BY <1>0, <1>3 DEF Unregistered
  <2>2. w # from /\ ~T.conv[w].proxy /\ T.session_conversation # w
    BY <1>2, <2>1
  <2>3. Unused(w)'
    BY <1>1, <1>a, <2>1, <2>2 DEF Unused
  <2>4. events'[w] = <<>>
    <3>1. CASE Closed(T, w)
      BY <1>e, <2>1, <3>1 DEF Closed
    <3> QED BY <1>e, <2>1, <2>2, <3>1 DEF Unread
  <2> QED BY <1>1, <2>1, <2>2, <2>3, <2>4
<1>4. conn'[w] => Running(w)'
  BY <1>0, <1>1 DEF Unregistered, Running
<1>5. ASSUME ~T.conv[w].proxy
      PROVE  events'[w] \in {<<>>, <<Signal("Hello")>>} /\ (conn'[w] => Unused(w)')
  <2>1. CASE Closed(T, w)
    <3>1. ~Live(T, w)
      BY <1>2, <1>5, <2>1 DEF Closed
    <3> QED BY <1>1, <1>e, <2>1, <3>1
  <2>2. CASE ~Closed(T, w)
    <3>1. ~ses.conv[w].proxy
      BY <1>2, <1>5, <2>2, FreedFields DEF Closed, Stopped, Live
    <3>2. Unread(w, from) \in {<<>>, <<Signal("Hello")>>}
      BY <1>0, <1>2, <1>h, <3>1 DEF Unread, Unregistered
    <3>3. conn'[w] => Unused(w)'
      BY <1>0, <1>1, <1>5, <1>a, <3>1 DEF Unregistered, Unused
    <3> QED BY <1>e, <2>2, <3>2, <3>3
  <2> QED BY <2>1, <2>2
<1> QED BY <1>1, <1>2, <1>3, <1>4, <1>5 DEF Unregistered

(* A query is pending at most once, and its worker waits.                  *)
LEMMA HandlesQuery ==
    ASSUME LoginInv, NEW T, NEW from, NEW x, NEW cs, Handles(T, from, x, cs), NEW w \in Workers
    PROVE  QueryWaits(w)'
<1>w. Becomes(T, from, x, cs) /\ Evolves(T, from) /\ Answers(T, from)
  BY DEF Handles
<1>0. QueryWaits(w) /\ Unregistered(w) /\ events[w] \in Seq(Event)
  BY DEF LoginInv, Each, Inv, TypeOK
<1>1. /\ ses' = T /\ UNCHANGED <<proc, busy>> /\ conn'[w] = (conn[w] /\ ~Closed(T, w))
      /\ ~Closed(T, w) => events'[w] = Unread(w, from)
      /\ Closed(T, w) /\ ~Live(T, w) => events'[w] = <<>>
      /\ Closed(T, w) /\ Live(T, w) =>
            \E n \in AtHand(Unread(w, from)) : events'[w] = SubSeq(Unread(w, from), 1, n)
  BY <1>w, BecomesWire DEF pamVars
<1>2. /\ w = from => events[w] # <<>>
      /\ T.conv[w].query => ses.conv[w].query \/ HeadIs(w, from, "Query")
      /\ \/ answer'[w] = answer[w]
         \/ /\ answer'[w] = conn[w] /\ ~T.conv[w].query
            /\ ses.conv[w].query \/ HeadIs(w, from, "Query")
  BY <1>w DEF Evolves, Answers
<1>u. /\ Unread(w, from) \in Seq(Event)
      /\ w # from => Unread(w, from) = events[w]
      /\ w = from =>
            /\ Len(events[w]) \in Nat \ {0}
            /\ Head(events[w]) = events[w][1]
            /\ Len(Unread(w, from)) = Len(events[w]) - 1
            /\ \A i \in 1..(Len(events[w]) - 1) : Unread(w, from)[i] = events[w][i + 1]
  BY <1>0, <1>2, UnreadEvents
<1> DEFINE n == Len(events[w])
           m == Len(Unread(w, from))
<1>n. n \in Nat /\ m \in Nat
  BY <1>0, <1>u
<1>q. /\ \A i \in 1..n : events[w][i].kind = "Query" => i = n /\ ~ses.conv[w].query /\ Waits(w)
      /\ ses.conv[w].query => Waits(w)
      /\ answer[w] => busy[w] = "query"
  BY <1>0 DEF QueryWaits
<1>h. HeadIs(w, from, "Query") => n = 1 /\ m = 0 /\ Waits(w)
  <2> SUFFICES ASSUME HeadIs(w, from, "Query") PROVE n = 1 /\ m = 0 /\ Waits(w)
    OBVIOUS
  <2>1. w = from /\ Head(events[w]).kind = "Query"
    BY DEF HeadIs, First
  <2>2. 1 \in 1..n /\ events[w][1].kind = "Query" /\ m = n - 1
    BY <1>u, <1>n, <2>1
  <2>3. 1 = n /\ Waits(w)
    BY <1>q, <2>2
  <2> QED BY <2>2, <2>3
<1>3. \A i \in 1..m : Unread(w, from)[i].kind = "Query" => i = m /\ ~ses.conv[w].query /\ Waits(w)
  <2>1. CASE w # from
    BY <1>u, <1>q, <2>1
  <2>2. CASE w = from
    <3>1. SUFFICES ASSUME NEW i \in 1..m, Unread(w, from)[i].kind = "Query"
                   PROVE  i = m /\ ~ses.conv[w].query /\ Waits(w)
      OBVIOUS
    <3>2. m = n - 1 /\ i + 1 \in 1..n /\ i \in 1..(n - 1)
      BY <1>u, <1>n, <2>2
    <3>3. events[w][i + 1].kind = "Query"
      BY <1>u, <2>2, <3>1, <3>2
    <3>4. i + 1 = n /\ ~ses.conv[w].query /\ Waits(w)
      BY <1>q, <3>2, <3>3
    <3> QED BY <1>n, <3>2, <3>4
  <2> QED BY <2>1, <2>2
<1>4. (ses.conv[w].query \/ HeadIs(w, from, "Query")) => m = 0 \/ \A i \in 1..m : Unread(w, from)[i].kind # "Query"
  BY <1>h, <1>3
<1>5. answer'[w] => busy'[w] = "query"
  BY <1>1, <1>2, <1>q, <1>h DEF Waits
<1>6. T.conv[w].query => Waits(w)'
  BY <1>1, <1>2, <1>q, <1>h DEF Waits
<1>7. \A i \in 1..Len(events'[w]) : events'[w][i].kind = "Query" =>
         i = Len(events'[w]) /\ ~T.conv[w].query /\ Waits(w)'
  <2>1. CASE ~Closed(T, w)
    <3>1. SUFFICES ASSUME NEW i \in 1..m, Unread(w, from)[i].kind = "Query"
                   PROVE  i = m /\ ~T.conv[w].query /\ Waits(w)'
      BY <1>1, <2>1
    <3>2. i = m /\ ~ses.conv[w].query /\ Waits(w)
      BY <1>3, <3>1
    <3>3. ~HeadIs(w, from, "Query")
      BY <1>h, <3>1
    <3>4. ~T.conv[w].query /\ answer'[w] = answer[w]
      BY <1>2, <3>2, <3>3
    <3> QED BY <1>1, <3>2, <3>4 DEF Waits
  <2>2. CASE Closed(T, w) /\ ~Live(T, w)
    <3>1. events'[w] = <<>>
      BY <1>1, <2>2
    <3> QED BY <3>1
  <2>3. CASE Closed(T, w) /\ Live(T, w)
    <3>1. \A i \in 1..Len(events'[w]) : events'[w][i].kind # "Query"
      BY <1>1, <1>u, <2>3, AtHandEvents
    <3> QED BY <3>1
  <2> QED BY <2>1, <2>2, <2>3
<1> QED BY <1>1, <1>5, <1>6, <1>7 DEF QueryWaits

(* Good news of a session is taken before the news of its end.             *)
LEMMA HandlesAnnounced ==
    ASSUME LoginInv, NEW T, NEW from, NEW x, NEW cs, Handles(T, from, x, cs), NEW w \in Workers
    PROVE  Announced(w)'
<1>w. Becomes(T, from, x, cs) /\ Evolves(T, from)
  BY DEF Handles
<1>0. Announced(w) /\ Unregistered(w) /\ events[w] \in Seq(Event)
  BY DEF LoginInv, Each, Inv, TypeOK
<1>1. /\ ses' = T /\ UNCHANGED child /\ conn'[w] = (conn[w] /\ ~Closed(T, w))
      /\ ~Closed(T, w) => events'[w] = Unread(w, from)
  BY <1>w, BecomesWire
<1>2. /\ w = from => events[w] # <<>>
      /\ T.session_conversation = w =>
            \/ First(w, from) /\ Head(events[w]) = Reply("StartProgram", TRUE)
            \/ ses.session_conversation = w /\ ~HeadIs(w, from, "SessionExited")
  BY <1>w DEF Evolves
<1>u. /\ w # from => Unread(w, from) = events[w]
      /\ w = from =>
            /\ Len(events[w]) \in Nat \ {0}
            /\ Head(events[w]) = events[w][1]
            /\ Len(Unread(w, from)) = Len(events[w]) - 1
            /\ \A i \in 1..(Len(events[w]) - 1) : Unread(w, from)[i] = events[w][i + 1]
  BY <1>0, <1>2, UnreadEvents
<1> DEFINE n == Len(events[w])
           m == Len(Unread(w, from))
           Before(i) == \E j \in i..n : events[w][j].kind = "SessionExited"
           After(i)  == \E j \in i..m : Unread(w, from)[j].kind = "SessionExited"
<1>n. n \in Nat
  BY <1>0
<1>a. /\ \A i \in 1..n : events[w][i] = Reply("StartProgram", TRUE) /\ conn[w] =>
            child[w] # "none" \/ Before(i)
      /\ ses.session_conversation = w /\ conn[w] =>
            Live(ses, w) /\ (child[w] # "none" \/ Before(1))
  BY <1>0 DEF Announced
<1>r. Reply("StartProgram", TRUE).kind = "reply"
  BY DEF Reply
(* Nothing but the first event goes.                                       *)
<1>3. ASSUME w = from, NEW i \in 1..m, Before(i + 1) PROVE After(i)
  <2>1. PICK j \in (i + 1)..n : events[w][j].kind = "SessionExited"
    BY <1>3
  <2>2. m = n - 1 /\ j - 1 \in i..m /\ j - 1 \in 1..(n - 1) /\ (j - 1) + 1 = j
    BY <1>3, <1>u, <1>n
  <2>3. Unread(w, from)[j - 1] = events[w][(j - 1) + 1]
    BY <1>3, <1>u, <2>2
  <2> QED BY <2>1, <2>2, <2>3
<1>4. ASSUME w = from, Before(1), events[w][1].kind # "SessionExited" PROVE After(1)
  <2>1. PICK j \in 1..n : events[w][j].kind = "SessionExited"
    BY <1>4
  <2>2. j # 1
    BY <1>4, <2>1
  <2>3. m = n - 1 /\ j - 1 \in 1..m /\ j - 1 \in 1..(n - 1) /\ (j - 1) + 1 = j
    BY <1>4, <1>u, <1>n, <2>2
  <2>4. Unread(w, from)[j - 1] = events[w][(j - 1) + 1]
    BY <1>4, <1>u, <2>3
  <2> QED BY <2>1, <2>3, <2>4
<1>5. ASSUME conn'[w], NEW i \in 1..m, Unread(w, from)[i] = Reply("StartProgram", TRUE)
      PROVE  child[w] # "none" \/ After(i)
  <2>1. CASE w # from
    BY <1>1, <1>5, <1>a, <1>u, <2>1
  <2>2. CASE w = from
    <3>1. m = n - 1 /\ i \in 1..(n - 1) /\ i + 1 \in 1..n
      BY <1>5, <1>u, <1>n, <2>2
    <3>2. events[w][i + 1] = Reply("StartProgram", TRUE)
      BY <1>5, <1>u, <2>2, <3>1
    <3>3. child[w] # "none" \/ Before(i + 1)
      BY <1>1, <1>5, <1>a, <3>1, <3>2
    <3> HIDE DEF Before, After, m, n
    <3> QED BY <1>3, <2>2, <3>3
  <2> QED BY <2>1, <2>2
<1>6. ASSUME conn'[w], T.session_conversation = w
      PROVE  Live(T, w) /\ (child[w] # "none" \/ After(1))
  <2>0. conn[w] /\ ~Closed(T, w)
    BY <1>1, <1>6
  <2>l. Live(ses, w) => Live(T, w)
    BY <2>0 DEF Closed, Stopped
  <2>1. CASE First(w, from) /\ Head(events[w]) = Reply("StartProgram", TRUE)
    <3>0. w = from /\ Head(events[w]) = Reply("StartProgram", TRUE)
      BY <2>1 DEF First
    <3>h. n \in Nat \ {0} /\ Head(events[w]) = events[w][1]
      BY <1>u, <3>0
    <3>p. events[w][1] = Reply("StartProgram", TRUE)
      BY <3>0, <3>h
    <3>1. w = from /\ 1 \in 1..n /\ events[w][1] = Reply("StartProgram", TRUE)
      <4> HIDE DEF n
      <4> QED BY <3>0, <3>h, <3>p
    <3>2. ses.conv[w].proxy
      <4>1. events[w] # <<>> /\ events[w] # <<Signal("Hello")>>
        <5>1. <<Signal("Hello")>>[1].kind = "Hello"
          BY DEF Signal
        <5> QED BY <1>2, <1>r, <3>1, <5>1
      <4> QED BY <1>0, <4>1 DEF Unregistered
    <3>3. Live(T, w)
      BY <2>l, <3>2, FreedFields DEF Live
    <3>4. child[w] # "none" \/ Before(1)
      BY <1>a, <2>0, <3>1
    <3>5. events[w][1].kind # "SessionExited"
      BY <1>r, <3>1
    <3> HIDE DEF Before, After, m, n
    <3> QED BY <1>4, <3>1, <3>3, <3>4, <3>5
  <2>2. CASE ses.session_conversation = w /\ ~HeadIs(w, from, "SessionExited")
    <3>1. Live(T, w) /\ (child[w] # "none" \/ Before(1))
      BY <1>a, <2>0, <2>l, <2>2
    <3>2. CASE w # from
      <4>1. Unread(w, from) = events[w]
        BY <1>u, <3>2
      <4> QED BY <3>1, <4>1
    <3>3. CASE w = from
      <4>1. events[w][1].kind # "SessionExited"
        BY <1>2, <1>u, <2>2, <3>3 DEF HeadIs, First
      <4> HIDE DEF Before, After, m, n
      <4> QED BY <1>4, <3>1, <3>3, <4>1
    <3> QED BY <3>2, <3>3
  <2> QED BY <1>2, <1>6, <2>1, <2>2
<1>7. conn'[w] => events'[w] = Unread(w, from)
  BY <1>1
<1> QED BY <1>1, <1>5, <1>6, <1>7 DEF Announced, Live

(* Nobody else is asked to start a session, or is stopped before.          *)
LEMMA HandlesOne ==
    ASSUME LoginInv, NEW T, NEW from, NEW x, NEW cs, Handles(T, from, x, cs)
    PROVE  OneStarts'
<1>w. Becomes(T, from, x, cs) /\ Evolves(T, from) /\ Sends(T, x, cs)
  BY DEF Handles
<1>1. ses' = T /\ UNCHANGED <<proc, pending, child>>
  BY <1>w DEF Becomes, pamVars
<1> DEFINE Fair == \A i \in 1..Len(cs) : cs[i].method # "StartProgram"
<1>2. ASSUME NEW v \in Workers, v # x \/ Fair, Asked(v, "StartProgram")'
      PROVE  Asked(v, "StartProgram")
  <2>1. calls'[v] = calls[v] \/ (v = x /\ calls'[v] = calls[v] \o cs)
    BY <1>w, BecomesWire
  <2>2. CASE calls'[v] = calls[v]
    BY <1>2, <2>2 DEF Asked
  <2>3. CASE v = x /\ calls'[v] = calls[v] \o cs
    <3>1. calls[v] \in Seq(Call) /\ cs \in Seq(Call)
      BY <1>w DEF LoginInv, Inv, TypeOK, Sends
    <3>2. PICK i \in DOMAIN calls'[v] : calls'[v][i].method = "StartProgram"
      BY <1>2 DEF Asked
    <3> HIDE DEF Call
    <3>3. i \in 1..(Len(calls[v]) + Len(cs))
      BY <2>3, <3>1
    <3>4. CASE i <= Len(calls[v])
      <4>1. i \in DOMAIN calls[v] /\ calls'[v][i] = calls[v][i]
        BY <2>3, <3>1, <3>3, <3>4
      <4> QED BY <3>2, <4>1 DEF Asked
    <3>5. CASE i > Len(calls[v])
      <4>1. i - Len(calls[v]) \in 1..Len(cs) /\ calls'[v][i] = cs[i - Len(calls[v])]
        BY <2>3, <3>1, <3>3, <3>5
      <4> QED BY <1>2, <2>3, <3>2, <4>1
    <3>6. Len(calls[v]) \in Nat /\ i \in Nat
      BY <3>1, <3>3
    <3> QED BY <3>4, <3>5, <3>6
  <2> QED BY <2>1, <2>2, <2>3
<1>3. ASSUME NEW v \in Workers, v # x \/ Fair, Starts(v)' PROVE Starts(v)
  BY <1>1, <1>2, <1>3 DEF Starts, Running
<1>4. ASSUME NEW v \in Workers, v # x \/ Fair, Starts(v)', Converses(T, v)
      PROVE  Converses(ses, v) /\ Starts(v)
  <2>1. Starts(v)
    BY <1>3, <1>4
  <2>2. CASE ~Spawned(v)
    <3>1. Unused(v)
      BY <2>2 DEF Spawned, LoginInv, Each, Unregistered
    <3>2. ~Starts(v)
      BY <3>1 DEF Unused, Starts, Asked, NoCall
    <3> QED BY <2>1, <3>2
  <2> QED BY <1>4, <1>w, <2>1, <2>2 DEF Evolves
<1>5. SUFFICES ASSUME NEW v \in Workers, NEW w \in Workers, Converses(T, v), Starts(v)',
                      Converses(T, w), Starts(w)'
               PROVE  v = w
  BY <1>1 DEF OneStarts, Conversing, Converses, Live
<1>6. CASE Fair
  <2>1. Converses(ses, v) /\ Starts(v) /\ Converses(ses, w) /\ Starts(w)
    BY <1>4, <1>5, <1>6
  <2> QED BY <2>1 DEF LoginInv, OneStarts, Conversing, Converses
<1>7. CASE \A y \in Workers \ {x} : ~Converses(T, y)
  BY <1>5, <1>7
<1> QED BY <1>w, <1>6, <1>7 DEF Sends

(* A daemon's step keeps the invariant.                                    *)
LEMMA HandlesKeeps ==
    ASSUME LoginInv, NEW T, NEW from, NEW x, NEW cs, Handles(T, from, x, cs)
    PROVE  LoginInv' /\ PointerKept(ses')
<1>1. Inv' /\ ses' \in SessionType /\ NoOrphanWorker' /\ OneStarts'
  BY HandlesType, HandlesOrphan, HandlesOne
<1>2. ASSUME NEW w \in Workers PROVE Each(w)'
  <2>1. Unregistered(w)' /\ QueryWaits(w)' /\ Announced(w)'
    BY HandlesUnregistered, HandlesQuery, HandlesAnnounced
  <2>2. StartRequested(w)'
    BY DEF LoginInv, Each, StartRequested, Handles, Becomes, pamVars
  <2> QED BY <2>1, <2>2 DEF Each
<1>3. PointerKept(ses')
  BY DEF Handles, Evolves, Becomes
<1> QED BY <1>1, <1>2, <1>3 DEF LoginInv

-----------------------------------------------------------------------------
(* The daemon's handlers are such steps.                                   *)

(* What a worker says beside Hello is said to a conversation.              *)
LEMMA SaidToProxy ==
    ASSUME LoginInv, NEW w \in Workers, events[w] # <<>>, Head(events[w]).kind # "Hello"
    PROVE  ses.conv[w].proxy /\ Live(ses, w) /\ ses.conv[w] \in Conversation
<1>1. Head(<<Signal("Hello")>>).kind = "Hello"
  BY DEF Signal
<1>2. ses.conv[w].proxy
  BY <1>1 DEF LoginInv, Each, Unregistered
<1>3. Live(ses, w)
  BY <1>2, FreedFields DEF Live
<1> QED BY <1>2, <1>3 DEF LoginInv, SessionType, Live

(* A conversation changes and goes on, or is being stopped.                *)
LEMMA AdjustEvolves ==
    ASSUME LoginInv, NEW w \in Workers, Live(ses, w), NEW c \in Conversation,
           c.service = ses.conv[w].service, ses.conv[w].stopping => c.stopping,
           NEW from \in {w, NoEntry}, w = from => events[w] # <<>>,
           c.proxy <=> (ses.conv[w].proxy \/ w = from),
           c.query => ses.conv[w].query \/ HeadIs(w, from, "Query"),
           c.query => c.proxy,
           ~HeadIs(w, from, "SessionExited"),
           NEW T, T = [ses EXCEPT !.conv[w] = c]
    PROVE  Evolves(T, from)
<1>0. ses \in SessionType /\ Agrees(ses) /\ NoEntry \notin Workers /\ NoEntry \notin Services
  BY EntryAssumption DEF LoginInv, NoOrphanWorker, Agrees
<1>t. /\ T \in SessionType /\ T.table = ses.table /\ T.conv = [ses.conv EXCEPT ![w] = c]
      /\ T.session_conversation = ses.session_conversation
  BY <1>0 DEF SessionType
<1>1. /\ T.conv[w] = c
      /\ \A v \in Workers \ {w} : T.conv[v] = ses.conv[v]
  BY <1>0, <1>t DEF SessionType
<1>2. c # Freed /\ Live(T, w)
  BY <1>0, <1>1 DEF Freed, Conversation, Live
<1>3. Agrees(T)
  BY <1>0, <1>1, <1>2, <1>t DEF Agrees, Live
<1>4. ASSUME NEW v \in Workers, v # w
      PROVE  /\ v # from
             /\ T.conv[v].proxy => ses.conv[v].proxy
             /\ ~T.conv[v].proxy /\ Live(T, v) => ~ses.conv[v].proxy
             /\ ~T.conv[v].proxy => ~T.conv[v].query
             /\ T.conv[v].query => ses.conv[v].query
             /\ Converses(T, v) => Converses(ses, v)
             /\ ~HeadIs(v, from, "SessionExited")
  <2>1. ~ses.conv[v].proxy => ~ses.conv[v].query
    BY DEF LoginInv, Each, Unregistered
  <2> QED BY <1>0, <1>1, <1>4, <2>1 DEF Live, Converses, HeadIs, First
<1>5. Converses(T, w) => Converses(ses, w)
  BY <1>1 DEF Converses
<1>6. PointerKept(T)
  BY <1>1, <1>2 DEF PointerKept, Live
<1>7. ASSUME NEW v \in Workers
      PROVE  /\ v = from => events[v] # <<>>
             /\ T.conv[v].proxy => ses.conv[v].proxy \/ v = from
             /\ ~T.conv[v].proxy /\ Live(T, v) => ~ses.conv[v].proxy
             /\ ~T.conv[v].proxy => ~T.conv[v].query
             /\ T.conv[v].query => ses.conv[v].query \/ HeadIs(v, from, "Query")
             /\ Converses(T, v) => Converses(ses, v)
             /\ ~HeadIs(v, from, "SessionExited")
  <2>1. CASE v = w
    BY <1>1, <1>5, <2>1
  <2>2. CASE v # w
    BY <1>4, <2>2
  <2> QED BY <2>1, <2>2
<1> QED BY ONLY <1>3, <1>6, <1>7, <1>t DEF Evolves

(* The conversations stay as they are.                                     *)
LEMMA SameEvolves ==
    ASSUME LoginInv, NEW from \in Workers \cup {NoEntry},
           \A w \in Workers : w = from => events[w] # <<>>,
           NEW T \in SessionType, T.table = ses.table, T.conv = ses.conv,
           \A w \in Workers : T.session_conversation = w =>
              \/ First(w, from) /\ Head(events[w]) = Reply("StartProgram", TRUE)
              \/ ses.session_conversation = w /\ ~HeadIs(w, from, "SessionExited")
    PROVE  Evolves(T, from)
<1>1. Agrees(T)
  BY DEF LoginInv, NoOrphanWorker, Agrees, Live
<1>2. ASSUME NEW w \in Workers PROVE ~ses.conv[w].proxy => ~ses.conv[w].query
  BY DEF LoginInv, Each, Unregistered
<1> QED BY <1>1, <1>2 DEF Evolves, PointerKept, Live, Converses

(* Every conversation is freed.                                            *)
LEMMA ResetEvolves ==
    ASSUME LoginInv, NEW S, S.up \in BOOLEAN, NEW from, \A w \in Workers : w = from => events[w] # <<>>
    PROVE  DoReset(S) \in SessionType /\ Evolves(DoReset(S), from)
<1> DEFINE T == DoReset(S)
<1>0. NoEntry \notin Workers
  BY EntryAssumption
<1>1. /\ T.table = [s \in Services |-> NoEntry] /\ T.conv = [w \in Workers |-> Freed]
      /\ T.session_conversation = NoEntry /\ T \in SessionType
  BY DEF DoReset, NewSession, SessionType, HasNull
<1> HIDE DEF T
<1>2. \A w \in Workers : T.conv[w] = Freed /\ ~Live(T, w)
  BY <1>1 DEF Live
<1>3. \A s \in Services : T.table[s] = NoEntry
  BY <1>1
<1>4. Agrees(T)
  BY <1>0, <1>2, <1>3 DEF Agrees
<1>5. Evolves(T, from)
  BY <1>0, <1>1, <1>2, <1>4, FreedFields DEF Evolves, Converses, PointerKept
<1> QED BY <1>1, <1>5 DEF T

(* One conversation is freed.                                              *)
LEMMA RemoveEvolves ==
    ASSUME LoginInv, NEW w \in Workers
    PROVE  Remove(ses, w) \in SessionType /\ Evolves(Remove(ses, w), NoEntry)
<1> DEFINE T == Remove(ses, w)
<1>0. ses \in SessionType /\ Agrees(ses) /\ NoEntry \notin Workers
  BY EntryAssumption DEF LoginInv, NoOrphanWorker, Agrees
<1>1. /\ T.table = [s \in Services |-> IF ses.table[s] = w THEN NoEntry ELSE ses.table[s]]
      /\ T.conv = [ses.conv EXCEPT ![w] = Freed]
      /\ T.session_conversation = IF ses.session_conversation = w THEN NoEntry ELSE ses.session_conversation
      /\ T \in SessionType
  BY <1>0 DEF Remove, SessionType
<1> HIDE DEF T
<1>2. T.conv[w] = Freed /\ \A v \in Workers \ {w} : T.conv[v] = ses.conv[v]
  BY <1>0, <1>1 DEF SessionType
<1>3. Agrees(T)
  <2>1. ASSUME NEW v \in Workers, Live(T, v) PROVE T.table[T.conv[v].service] = v
    <3>1. v # w /\ T.conv[v] = ses.conv[v] /\ Live(ses, v)
      BY <1>2, <2>1 DEF Live
    <3>2. ses.conv[v].service \in Services /\ ses.table[ses.conv[v].service] = v
      BY <1>0, <3>1 DEF Agrees, SessionType, Conversation, Live
    <3> QED BY <1>1, <3>1, <3>2
  <2>2. ASSUME NEW v \in Workers, NEW s \in Services, T.table[s] = v
        PROVE  Live(T, v) /\ T.conv[v].service = s
    <3>1. ses.table[s] = v /\ v # w
      BY <1>0, <1>1, <2>2
    <3> QED BY <1>0, <1>2, <3>1 DEF Agrees, Live
  <2> QED BY <2>1, <2>2 DEF Agrees
<1>4. ASSUME NEW v \in Workers
      PROVE  /\ v # NoEntry
             /\ T.conv[v].proxy => ses.conv[v].proxy
             /\ ~T.conv[v].proxy /\ Live(T, v) => ~ses.conv[v].proxy
             /\ ~T.conv[v].proxy => ~T.conv[v].query
             /\ T.conv[v].query => ses.conv[v].query
             /\ Converses(T, v) => Converses(ses, v)
             /\ T.session_conversation = v => ses.session_conversation = v
             /\ ~HeadIs(v, NoEntry, "SessionExited")
  <2>1. ~ses.conv[v].proxy => ~ses.conv[v].query
    BY DEF LoginInv, Each, Unregistered
  <2>2. v # NoEntry /\ ~HeadIs(v, NoEntry, "SessionExited") /\ (T.session_conversation = v => ses.session_conversation = v)
    BY <1>0, <1>1 DEF HeadIs, First
  <2>3. CASE v = w
    BY <1>2, <2>2, <2>3, FreedFields DEF Live, Converses
  <2>4. CASE v # w
    BY <1>2, <2>1, <2>2, <2>4 DEF Live, Converses
  <2> QED BY <2>3, <2>4
<1>5. PointerKept(T)
  BY <1>0, <1>1, <1>2 DEF PointerKept, Live
<1>6. Evolves(T, NoEntry)
  BY <1>1, <1>3, <1>4, <1>5 DEF Evolves
<1> QED BY <1>1, <1>6 DEF T

(* All conversations but one are being stopped.                            *)
LEMMA StopOthersEvolves ==
    ASSUME LoginInv, NEW keep \in Workers
    PROVE  /\ StopOthers(ses, keep) \in SessionType /\ Evolves(StopOthers(ses, keep), NoEntry)
           /\ \A v \in Workers \ {keep} : ~Converses(StopOthers(ses, keep), v)
<1> DEFINE T == StopOthers(ses, keep)
<1>0. ses \in SessionType /\ Agrees(ses) /\ NoEntry \notin Workers
  BY EntryAssumption DEF LoginInv, NoOrphanWorker, Agrees
<1>1. /\ T.table = ses.table /\ T.session_conversation = ses.session_conversation
      /\ T.conv = [w \in Workers |->
                     IF w = keep \/ ~Live(ses, w) THEN ses.conv[w]
                     ELSE [ses.conv[w] EXCEPT !.stopping = TRUE]]
      /\ T.conv \in [Workers -> Conversation \cup {Freed}] => T \in SessionType
  <2> DEFINE new == [w \in Workers |->
                       IF w = keep \/ ~Live(ses, w) THEN ses.conv[w]
                       ELSE [ses.conv[w] EXCEPT !.stopping = TRUE]]
             up  == ses.up /\ ~HasNull(ses)
  <2>1. T = [ses EXCEPT !.conv = new, !.up = up] /\ up \in BOOLEAN
    BY DEF StopOthers
  <2> HIDE DEF new, up, T
  <2>2. T.table = ses.table /\ T.session_conversation = ses.session_conversation /\ T.conv = new
    BY <1>0, <2>1 DEF SessionType
  <2>3. new \in [Workers -> Conversation \cup {Freed}] => T \in SessionType
    BY <1>0, <2>1 DEF SessionType
  <2> QED BY <2>2, <2>3 DEF new
<1> HIDE DEF T
<1>2. ASSUME NEW w \in Workers
      PROVE  /\ T.conv[w] \in Conversation \cup {Freed}
             /\ Live(T, w) <=> Live(ses, w)
             /\ T.conv[w].service = ses.conv[w].service /\ T.conv[w].proxy = ses.conv[w].proxy
             /\ T.conv[w].query = ses.conv[w].query
             /\ Converses(T, w) => Converses(ses, w) /\ w = keep
  <2>1. CASE w = keep \/ ~Live(ses, w)
    BY <1>0, <1>1, <2>1 DEF SessionType, Live, Converses
  <2>2. CASE ~(w = keep \/ ~Live(ses, w))
    <3>1. ses.conv[w] \in Conversation /\ T.conv[w] = [ses.conv[w] EXCEPT !.stopping = TRUE]
      BY <1>0, <1>1, <2>2 DEF SessionType, Live
    <3>2. T.conv[w] \in Conversation /\ T.conv[w].stopping /\ T.conv[w].service = ses.conv[w].service
      BY <3>1 DEF Conversation
    <3>3. T.conv[w].proxy = ses.conv[w].proxy /\ T.conv[w].query = ses.conv[w].query
      BY <3>1 DEF Conversation
    <3>4. T.conv[w] # Freed
      BY <3>2, FreedFields
    <3> QED BY <2>2, <3>2, <3>3, <3>4 DEF Live, Converses
  <2> QED BY <2>1, <2>2
<1>3. T \in SessionType
  <2>1. T.conv \in [Workers -> Conversation \cup {Freed}]
    BY <1>1, <1>2
  <2> QED BY <1>1, <2>1
<1>4. Agrees(T) /\ PointerKept(T)
  <2>1. \A w \in Workers : (Live(T, w) <=> Live(ses, w)) /\ T.conv[w].service = ses.conv[w].service
    BY <1>2
  <2>2. Agrees(T)
    BY <1>0, <1>1, <2>1 DEF Agrees
  <2>3. PointerKept(T)
    BY <2>1 DEF PointerKept
  <2> QED BY <2>2, <2>3
<1>5. ASSUME NEW w \in Workers
      PROVE  w # NoEntry /\ ~HeadIs(w, NoEntry, "SessionExited") /\ (~ses.conv[w].proxy => ~ses.conv[w].query)
  BY <1>0 DEF HeadIs, First, LoginInv, Each, Unregistered
<1>6. Evolves(T, NoEntry)
  BY <1>1, <1>2, <1>3, <1>4, <1>5 DEF Evolves
<1> QED BY <1>2, <1>3, <1>6 DEF T

(* A conversation begins, in the place of one that is being stopped.       *)
LEMMA StartEvolves ==
    ASSUME LoginInv, NEW s \in Services, CanStart(ses, s),
           NEW w, w = NullEntry \/ (w \in Workers /\ ~Spawned(w)),
           NEW c, w \in Workers => c \in Conversation /\ c.service = s /\ ~c.proxy /\ ~c.query,
           NEW T \in SessionType, T.table = [ses.table EXCEPT ![s] = w],
           T.conv = [x \in Workers |-> IF x = w THEN c
                                       ELSE IF x = ses.table[s] THEN Freed ELSE ses.conv[x]],
           T.session_conversation = ses.session_conversation
    PROVE  Evolves(T, NoEntry)
<1>0. ses \in SessionType /\ Agrees(ses) /\ NoEntry \notin Workers /\ NullEntry # NoEntry
      /\ NullEntry \notin Workers
  BY EntryAssumption DEF LoginInv, NoOrphanWorker, Agrees, NullEntry, NoEntry
<1>1. T.table[s] = w /\ \A r \in Services \ {s} : T.table[r] = ses.table[r]
  BY <1>0 DEF SessionType
<1>2. /\ w \in Workers => T.conv[w] = c /\ c # Freed /\ ~Live(ses, w)
      /\ ses.table[s] \in Workers \ {w} => T.conv[ses.table[s]] = Freed
      /\ \A x \in Workers \ {w, ses.table[s]} : T.conv[x] = ses.conv[x]
  <2>1. w \in Workers => c # Freed /\ ~Live(ses, w)
    BY <1>0, EntryAssumption DEF Freed, Conversation, Spawned
  <2> QED BY <2>1
<1>3. Agrees(T)
  <2>1. ASSUME NEW v \in Workers, Live(T, v) PROVE T.table[T.conv[v].service] = v
    <3>1. CASE v = w
      BY <1>1, <1>2, <3>1
    <3>2. CASE v # w
      <4>1. v # ses.table[s] /\ T.conv[v] = ses.conv[v] /\ Live(ses, v)
        BY <1>2, <2>1, <3>2 DEF Live
      <4>2. ses.conv[v].service \in Services /\ ses.table[ses.conv[v].service] = v
        BY <1>0, <4>1 DEF Agrees, SessionType, Conversation, Live
      <4> QED BY <1>1, <4>1, <4>2
    <3> QED BY <3>1, <3>2
  <2>2. ASSUME NEW v \in Workers, NEW r \in Services, T.table[r] = v
        PROVE  Live(T, v) /\ T.conv[v].service = r
    <3>1. CASE r = s
      BY <1>1, <1>2, <2>2, <3>1 DEF Live
    <3>2. CASE r # s
      <4>1. ses.table[r] = v /\ Live(ses, v) /\ ses.conv[v].service = r
        BY <1>0, <1>1, <2>2, <3>2 DEF Agrees
      <4>2. v # w /\ v # ses.table[s]
        BY <1>0, <1>2, <3>2, <4>1 DEF Agrees
      <4> QED BY <1>2, <4>1, <4>2 DEF Live
    <3> QED BY <3>1, <3>2
  <2> QED BY <2>1, <2>2 DEF Agrees
<1>4. PointerKept(T)
  <2>1. SUFFICES ASSUME NEW v \in Workers, Live(ses, v), ~Live(T, v)
                 PROVE  ses.conv[v].stopping /\ T.table[ses.conv[v].service] # NoEntry
    BY DEF PointerKept
  <2>2. v = ses.table[s] /\ v # w
    BY <1>2, <2>1 DEF Live
  <2>3. ses.conv[v].service = s /\ ses.conv[v].stopping
    BY <1>0, <2>2 DEF Agrees, CanStart, Found
  <2> QED BY <1>0, <1>1, <2>3
<1>5. ASSUME NEW v \in Workers
      PROVE  /\ v # NoEntry
             /\ T.conv[v].proxy => ses.conv[v].proxy
             /\ ~T.conv[v].proxy /\ Live(T, v) => ~ses.conv[v].proxy
             /\ ~T.conv[v].proxy => ~T.conv[v].query
             /\ T.conv[v].query => ses.conv[v].query
             /\ Converses(T, v) => Converses(ses, v) \/ ~Spawned(v)
             /\ ~HeadIs(v, NoEntry, "SessionExited")
  <2>1. v # NoEntry /\ ~HeadIs(v, NoEntry, "SessionExited") /\ (~ses.conv[v].proxy => ~ses.conv[v].query)
    BY <1>0 DEF HeadIs, First, LoginInv, Each, Unregistered
  <2>2. CASE v = w
    <3>1. T.conv[v] = c /\ ~c.proxy /\ ~c.query /\ ~Spawned(v) /\ ses.conv[v] = Freed
      BY <1>0, <1>2, <2>2 DEF Live
    <3> QED BY <2>1, <3>1, FreedFields
  <2>3. CASE v # w /\ v = ses.table[s]
    BY <1>2, <2>1, <2>3, FreedFields DEF Live, Converses
  <2>4. CASE v # w /\ v # ses.table[s]
    BY <1>2, <2>1, <2>4 DEF Live, Converses
  <2> QED BY <2>2, <2>3, <2>4
<1> QED BY <1>3, <1>4, <1>5 DEF Evolves

(* A handler that answers no query and asks the worker for nothing.        *)
LEMMA QuietKeeps ==
    ASSUME LoginInv, NEW T, NEW from, NEW x, Becomes(T, from, x, <<>>), Evolves(T, from),
           UNCHANGED answer
    PROVE  LoginInv' /\ PointerKept(ses')
<1>1. Answers(T, from)
  BY DEF Answers, LoginInv, Inv, TypeOK
<1>2. Sends(T, x, <<>>)
  BY DEF Sends
<1> QED BY <1>1, <1>2, HandlesKeeps DEF Handles

(* A handler that asks one worker for something.                           *)
LEMMA CallingKeeps ==
    ASSUME LoginInv, NEW T, NEW from, NEW x, NEW cs, Becomes(T, from, x, cs), Evolves(T, from),
           Sends(T, x, cs), UNCHANGED answer
    PROVE  LoginInv' /\ PointerKept(ses')
<1>1. Answers(T, from)
  BY DEF Answers, LoginInv, Inv, TypeOK
<1> QED BY <1>1, HandlesKeeps DEF Handles

-----------------------------------------------------------------------------
(* Calls that start no session.                                            *)
Harmless(cs) == cs \in Seq(Call) /\ \A i \in 1..Len(cs) : cs[i].method # "StartProgram"

LEMMA NoCallHarmless == Harmless(<<>>)
BY DEF Harmless

LEMMA OneCallHarmless ==
    ASSUME NEW call \in Call, call.method # "StartProgram"
    PROVE  Harmless(<<call>>)
<1> HIDE DEF Call
<1> QED BY DEF Harmless

LEMMA CallsHarmless ==
    ASSUME NEW a, NEW b, Harmless(a), Harmless(b)
    PROVE  Harmless(a \o b)
<1> HIDE DEF Call
<1>0. /\ a \in Seq(Call) /\ \A i \in 1..Len(a) : a[i].method # "StartProgram"
      /\ b \in Seq(Call) /\ \A i \in 1..Len(b) : b[i].method # "StartProgram"
  BY DEF Harmless
<1>1. a \o b \in Seq(Call) /\ Len(a \o b) = Len(a) + Len(b) /\ Len(a) \in Nat /\ Len(b) \in Nat
  BY <1>0
<1>2. ASSUME NEW i \in 1..Len(a \o b) PROVE (a \o b)[i].method # "StartProgram"
  <2>1. CASE i <= Len(a)
    BY <1>0, <1>1, <2>1
  <2>2. CASE i > Len(a)
    <3>1. (a \o b)[i] = b[i - Len(a)] /\ i - Len(a) \in 1..Len(b)
      BY <1>0, <1>1, <2>2
    <3> QED BY <1>0, <3>1
  <2> QED BY <1>1, <2>1, <2>2
<1> QED BY <1>1, <1>2 DEF Harmless

(* register_worker gives the conversation its proxy, and finds nothing to  *)
(* ask that would start a session.                                         *)
LEMMA RegisterKeeps ==
    ASSUME LoginInv, NEW w \in Workers, RegisterWorker(w)
    PROVE  LoginInv' /\ PointerKept(ses')
<1> DEFINE c0    == ses.conv[w]
           setup == IF c0.starting = "no" THEN <<>> ELSE <<InitializeCall(c0.starting = "user")>>
           cs    == ConversationStarted(c0.service) \o setup
<1>1. /\ events[w] # <<>> /\ Head(events[w]).kind = "Hello" /\ Live(ses, w) /\ UNCHANGED answer
      /\ \/ Becomes(Register(ses, w), w, w, cs)
         \/ Becomes([ses EXCEPT !.up = FALSE], w, w, <<>>)
  BY DEF RegisterWorker, Reads
<1>2. ses \in SessionType /\ c0 \in Conversation /\ w # NoEntry
  BY <1>1, EntryAssumption DEF LoginInv, SessionType, Live
<1>3. ~HeadIs(w, w, "SessionExited") /\ \A v \in Workers : ~HeadIs(v, w, "SessionExited")
  BY <1>1 DEF HeadIs, First
<1>4. CASE Becomes(Register(ses, w), w, w, cs)
  <2> DEFINE c == [c0 EXCEPT !.proxy = TRUE]
             T == [ses EXCEPT !.conv[w] = c]
  <2>1. /\ c \in Conversation /\ c.service = c0.service /\ c.stopping = c0.stopping
        /\ c.proxy /\ c.query = c0.query
    BY <1>2 DEF Conversation
  <2>2. Becomes(T, w, w, cs)
    BY <1>4 DEF Register
  <2> HIDE DEF c, c0, cs
  <2>3. Evolves(T, w)
    BY <1>1, <1>3, <2>1, AdjustEvolves DEF c0
  <2>4. Sends(T, w, cs)
    <3>1. \A u \in BOOLEAN : Harmless(<<InitializeCall(u)>>)
      BY OneCallHarmless DEF InitializeCall, Call
    <3>2. Harmless(ConversationStarted(c0.service))
      BY <3>1, NoCallHarmless DEF ConversationStarted
    <3>3. Harmless(setup)
      BY <3>1, NoCallHarmless
    <3> HIDE DEF setup
    <3> QED BY <3>2, <3>3, CallsHarmless DEF cs, Harmless, Sends
  <2> QED BY <1>1, <2>2, <2>3, <2>4, CallingKeeps
<1>5. CASE Becomes([ses EXCEPT !.up = FALSE], w, w, <<>>)
  <2> DEFINE T == [ses EXCEPT !.up = FALSE]
  <2>1. /\ T \in SessionType /\ T.table = ses.table /\ T.conv = ses.conv
        /\ T.session_conversation = ses.session_conversation
    BY <1>2 DEF SessionType
  <2> HIDE DEF T
  <2>2. Evolves(T, w)
    BY <1>1, <1>3, <2>1, SameEvolves
  <2> QED BY <1>1, <1>5, <2>2, QuietKeeps DEF T
<1> QED BY <1>1, <1>4, <1>5

(* A worker that is not a conversation's is turned away.                   *)
LEMMA RefuseKeeps ==
    ASSUME LoginInv, NEW w \in Workers, RefuseWorker(w)
    PROVE  LoginInv' /\ PointerKept(ses')
<1>1. /\ events[w] # <<>> /\ ~Live(ses, w)
      /\ events' = [events EXCEPT ![w] = <<>>] /\ conn' = [conn EXCEPT ![w] = FALSE]
      /\ ses' = [ses EXCEPT !.up = ~HasNull(ses)]
      /\ UNCHANGED <<pamVars, profileVars, procVars, calls, answer>>
  BY DEF RefuseWorker, Reads
<1>2. TypeOK /\ Lifecycle!LifecycleInv /\ ses \in SessionType
  BY DEF LoginInv, Inv
<1>3. /\ ses' \in SessionType /\ ses'.table = ses.table /\ ses'.conv = ses.conv
      /\ ses'.session_conversation = ses.session_conversation
  <2> DEFINE up == ~HasNull(ses)
  <2>1. ses' = [ses EXCEPT !.up = up] /\ up \in BOOLEAN
    BY <1>1
  <2> HIDE DEF up
  <2> QED BY <1>2, <2>1 DEF SessionType
<1>4. Inv'
  <2>1. TypeOK'
    BY <1>1, <1>2 DEF TypeOK, pamVars, profileVars, procVars
  <2>2. Lifecycle!LifecycleInv'
    BY <1>1, <1>2 DEF pamVars, procVars, Lifecycle!LifecycleInv, Lifecycle!LifecycleType,
                      Lifecycle!Kept, Lifecycle!Holdings
  <2> QED BY <2>1, <2>2 DEF Inv
<1>5. /\ UNCHANGED <<proc, state, pending, idle, busy, child, sigterm, reauths, settings>>
      /\ \A v \in Workers : Live(ses', v) <=> Live(ses, v)
  BY <1>1, <1>3 DEF pamVars, profileVars, procVars, Live
<1>6. NoOrphanWorker' /\ OneStarts' /\ PointerKept(ses')
  <2>1. NoOrphanWorker'
    BY <1>3, <1>5 DEF LoginInv, NoOrphanWorker, Live, Running
  <2>2. OneStarts'
    BY <1>1, <1>3, <1>5 DEF LoginInv, OneStarts, Conversing, Starts, Asked, Running, Live
  <2>3. PointerKept(ses')
    BY <1>5 DEF PointerKept
  <2> QED BY <2>1, <2>2, <2>3
<1>7. ASSUME NEW v \in Workers PROVE Each(v)'
  <2>0. Each(v)
    BY DEF LoginInv
  <2>1. CASE v # w
    <3>1. events'[v] = events[v] /\ conn'[v] = conn[v]
      BY <1>1, <1>2, <2>1 DEF TypeOK
    <3>2. Unregistered(v)' /\ QueryWaits(v)'
      BY <1>1, <1>3, <1>5, <2>0, <3>1 DEF Each, Unregistered, QueryWaits, Waits, Unused, Running
    <3>3. Announced(v)'
      <4>1. Announced(v)
        BY <2>0 DEF Each
      <4>2. child'[v] = child[v] /\ (Live(ses', v) <=> Live(ses, v))
        BY <1>5
      <4> QED BY ONLY <1>3, <3>1, <4>1, <4>2 DEF Announced
    <3>4. StartRequested(v)'
      BY <1>5, <2>0 DEF Each, StartRequested
    <3> QED BY <3>2, <3>3, <3>4 DEF Each
  <2>2. CASE v = w
    <3>1. events'[v] = <<>> /\ ~conn'[v]
      BY <1>1, <1>2, <2>2 DEF TypeOK
    <3>2. Unregistered(v)' /\ QueryWaits(v)'
      BY <1>1, <1>3, <1>5, <2>0, <3>1 DEF Each, Unregistered, QueryWaits, Waits, Unused, Running
    <3>3. Announced(v)' /\ StartRequested(v)'
      BY <1>3, <1>5, <2>0, <3>1 DEF Each, Announced, StartRequested, Live
    <3> QED BY <3>2, <3>3 DEF Each
  <2> QED BY <2>1, <2>2
<1> QED BY <1>3, <1>4, <1>6, <1>7 DEF LoginInv

(* A query waits for the client or is answered at once.                    *)
LEMMA QueryKeeps ==
    ASSUME LoginInv, NEW w \in Workers, HandleQuery(w)
    PROVE  LoginInv' /\ PointerKept(ses')
<1> DEFINE c0 == ses.conv[w]
           c  == [c0 EXCEPT !.query = TRUE]
           T  == [ses EXCEPT !.conv[w] = c]
<1>1. /\ events[w] # <<>> /\ Head(events[w]).kind = "Query"
      /\ \/ Becomes(T, w, w, <<>>) /\ UNCHANGED answer
         \/ Becomes(ses, w, w, <<>>) /\ answer' = [answer EXCEPT ![w] = conn[w]]
  BY DEF HandleQuery, Reads
<1>2. c0.proxy /\ Live(ses, w) /\ c0 \in Conversation
  BY <1>1, SaidToProxy
<1>3. HeadIs(w, w, "Query") /\ \A v \in Workers : ~HeadIs(v, w, "SessionExited")
  BY <1>1 DEF HeadIs, First
<1>4. CASE Becomes(T, w, w, <<>>) /\ UNCHANGED answer
  <2>1. /\ c \in Conversation /\ c.service = c0.service /\ c.stopping = c0.stopping
        /\ c.proxy
    BY <1>2 DEF Conversation
  <2> HIDE DEF c, c0
  <2>2. Evolves(T, w)
    BY <1>1, <1>2, <1>3, <2>1, AdjustEvolves DEF c0
  <2> QED BY <1>4, <2>2, QuietKeeps
<1>5. CASE Becomes(ses, w, w, <<>>) /\ answer' = [answer EXCEPT ![w] = conn[w]]
  <2>1. Evolves(ses, w)
    BY <1>1, <1>3, SameEvolves DEF LoginInv
  <2>2. ~c0.query
    <3>1. events[w] \in Seq(Event) /\ QueryWaits(w)
      BY DEF LoginInv, Inv, TypeOK, Each
    <3>2. 1 \in 1..Len(events[w]) /\ events[w][1].kind = "Query"
      BY <1>1, <3>1
    <3> QED BY <3>1, <3>2 DEF QueryWaits
  <2>3. Answers(ses, w)
    <3>1. answer \in [Workers -> BOOLEAN] /\ conn \in [Workers -> BOOLEAN]
      BY DEF LoginInv, Inv, TypeOK
    <3> QED BY <1>3, <1>5, <2>2, <3>1 DEF Answers
  <2>4. Sends(ses, w, <<>>)
    BY DEF Sends
  <2> QED BY <1>5, <2>1, <2>3, <2>4, HandlesKeeps DEF Handles
<1> QED BY <1>1, <1>4, <1>5

(* A stage's success leads to the next, its failure ends the conversation. *)
LEMMA StageKeeps ==
    ASSUME LoginInv, NEW w \in Workers, NEW m \in Methods, StageSucceeded(w, m) \/ StageFailed(w, m)
    PROVE  LoginInv' /\ PointerKept(ses')
<1> DEFINE c0 == ses.conv[w]
           c1 == IF m = "Initialize" THEN [c0 EXCEPT !.starting = "no"] ELSE c0
           c2 == [c1 EXCEPT !.stopping = TRUE]
           T  == IF m = "Initialize" THEN [ses EXCEPT !.conv[w].starting = "no"] ELSE ses
           cs == <<[method |-> NextMethod(m)]>>
<1>1. /\ events[w] # <<>> /\ Head(events[w]).kind = "reply" /\ UNCHANGED answer
      /\ \/ Becomes(T, w, w, cs) /\ m \in Methods \ {"Open", "StartProgram"}
         \/ Becomes(Stop(T, w), w, w, <<>>)
  BY DEF StageSucceeded, StageFailed, Reported, Reads
<1>2. c0.proxy /\ Live(ses, w) /\ c0 \in Conversation /\ ses \in SessionType
  BY <1>1, SaidToProxy DEF LoginInv
<1>3. \A v \in Workers : ~HeadIs(v, w, "SessionExited")
  BY <1>1 DEF HeadIs, First
<1>4. /\ c1 \in Conversation /\ c1.service = c0.service /\ c1.proxy /\ c1.query = c0.query
      /\ c1.stopping = c0.stopping
  BY <1>2 DEF Conversation
<1>5. T = [ses EXCEPT !.conv[w] = c1]
  BY <1>2 DEF SessionType
<1> HIDE DEF c1, T
<1>6. /\ c2 \in Conversation /\ c2.service = c0.service /\ c2.proxy /\ c2.query = c0.query
      /\ c2.stopping
  BY <1>4 DEF Conversation
<1>7. Stop(T, w) = [ses EXCEPT !.conv[w] = c2]
  BY <1>2, <1>5 DEF SessionType, Stop
<1> HIDE DEF c0, c2
<1>8. CASE Becomes(T, w, w, cs) /\ m \in Methods \ {"Open", "StartProgram"}
  <2>1. Evolves(T, w)
    BY <1>1, <1>2, <1>3, <1>4, <1>5, AdjustEvolves DEF c0
  <2>2. Harmless(cs)
    BY <1>8, OneCallHarmless DEF NextMethod, Methods, Call
  <2> HIDE DEF cs
  <2> QED BY <1>1, <1>8, <2>1, <2>2, CallingKeeps DEF Harmless, Sends
<1>9. CASE Becomes(Stop(T, w), w, w, <<>>)
  <2>1. Evolves(Stop(T, w), w)
    BY <1>1, <1>2, <1>3, <1>6, <1>7, AdjustEvolves DEF c0
  <2> QED BY <1>1, <1>9, <2>1, QuietKeeps
<1> QED BY <1>1, <1>8, <1>9

(* The session is opened: a matter for the manager.                        *)
LEMMA OpenedKeeps ==
    ASSUME LoginInv, NEW w \in Workers, OnOpened(w)
    PROVE  LoginInv' /\ PointerKept(ses')
<1>1. /\ events[w] # <<>> /\ Head(events[w]).kind = "reply" /\ UNCHANGED answer
      /\ Becomes(ses, w, w, <<>>)
  BY DEF OnOpened, Reported, Reads
<1>2. \A v \in Workers : ~HeadIs(v, w, "SessionExited")
  BY <1>1 DEF HeadIs, First
<1>3. Evolves(ses, w)
  BY <1>1, <1>2, SameEvolves DEF LoginInv
<1> QED BY <1>1, <1>3, QuietKeeps

(* The session's process runs.                                             *)
LEMMA StartedKeeps ==
    ASSUME LoginInv, NEW w \in Workers, OnStarted(w)
    PROVE  LoginInv' /\ PointerKept(ses')
<1> DEFINE T == [ses EXCEPT !.running = TRUE, !.session_conversation = w]
<1>1. /\ events[w] # <<>> /\ Head(events[w]) = Reply("StartProgram", TRUE) /\ UNCHANGED answer
      /\ Becomes(T, w, w, <<>>)
  BY DEF OnStarted, Reported, Reads
<1>2. T \in SessionType /\ T.table = ses.table /\ T.conv = ses.conv /\ T.session_conversation = w
  BY DEF LoginInv, SessionType
<1> HIDE DEF T
<1>3. Evolves(T, w)
  BY <1>1, <1>2, SameEvolves DEF First
<1> QED BY <1>1, <1>3, QuietKeeps

(* Opening or starting failed.                                             *)
LEMMA StartFailedKeeps ==
    ASSUME LoginInv, NEW w \in Workers, NEW m \in Methods, OnStartFailed(w, m)
    PROVE  LoginInv' /\ PointerKept(ses')
<1> DEFINE c0 == ses.conv[w]
           c  == [c0 EXCEPT !.stopping = TRUE]
           T  == SessionRemoved(mgr, Stop(ses, w))
<1>1. /\ events[w] # <<>> /\ Head(events[w]).kind = "reply" /\ UNCHANGED answer
      /\ Becomes(T, w, w, <<>>)
  BY DEF OnStartFailed, Reported, Reads
<1>2. c0.proxy /\ Live(ses, w) /\ c0 \in Conversation /\ ses \in SessionType
  BY <1>1, SaidToProxy DEF LoginInv
<1>3. \A v \in Workers : ~HeadIs(v, w, "SessionExited")
  BY <1>1 DEF HeadIs, First
<1>4. c \in Conversation /\ c.service = c0.service /\ c.stopping /\ c.proxy /\ c.query = c0.query
  BY <1>2 DEF Conversation
<1>5. Stop(ses, w) = [ses EXCEPT !.conv[w] = c] /\ Stop(ses, w).up \in BOOLEAN
  BY <1>2 DEF Stop, SessionType
<1> HIDE DEF c, c0
<1>6. Evolves(Stop(ses, w), w)
  BY <1>1, <1>2, <1>3, <1>4, <1>5, AdjustEvolves DEF c0
<1>7. Evolves(DoReset(Stop(ses, w)), w)
  <2> DEFINE S == Stop(ses, w)
  <2>1. S.up \in BOOLEAN /\ \A v \in Workers : v = w => events[v] # <<>>
    BY <1>1, <1>5
  <2> HIDE DEF S
  <2>2. Evolves(DoReset(S), w)
    BY <2>1, ResetEvolves
  <2> QED BY <2>2 DEF S
<1>8. Evolves(T, w)
  BY <1>6, <1>7 DEF SessionRemoved
<1> QED BY <1>1, <1>8, QuietKeeps

(* The session's process is gone.                                          *)
LEMMA SessionExitedKeeps ==
    ASSUME LoginInv, NEW w \in Workers, OnSessionExited(w)
    PROVE  LoginInv' /\ PointerKept(ses')
<1> DEFINE S == [ses EXCEPT !.session_conversation = NoEntry]
<1>1. /\ events[w] # <<>> /\ UNCHANGED answer /\ Becomes(SessionRemoved(mgr, S), w, w, <<>>)
  BY DEF OnSessionExited, Reads
<1>2. /\ S \in SessionType /\ S.table = ses.table /\ S.conv = ses.conv
      /\ S.session_conversation = NoEntry /\ S.up \in BOOLEAN
  BY DEF LoginInv, SessionType
<1> HIDE DEF S
<1>3. Evolves(S, w)
  BY <1>1, <1>2, EntryAssumption, SameEvolves
<1>4. Evolves(SessionRemoved(mgr, S), w)
  BY <1>1, <1>2, <1>3, ResetEvolves DEF SessionRemoved
<1> QED BY <1>1, <1>4, QuietKeeps

(* The worker's process is gone.                                           *)
LEMMA EndedKeeps ==
    ASSUME LoginInv, NEW w \in Workers, WorkerEnded(w)
    PROVE  LoginInv' /\ PointerKept(ses')
<1> DEFINE T == Remove(ses, w)
<1>1. /\ UNCHANGED answer
      /\ Becomes(SessionRemoved(mgr, T), NoEntry, NoEntry, <<>>) \/ Becomes(T, NoEntry, NoEntry, <<>>)
  BY DEF WorkerEnded, Quietly
<1>2. T \in SessionType /\ Evolves(T, NoEntry) /\ NoEntry \notin Workers
  BY RemoveEvolves, EntryAssumption
<1>3. T.up \in BOOLEAN
  BY <1>2 DEF SessionType
<1> HIDE DEF T
<1>4. Evolves(SessionRemoved(mgr, T), NoEntry)
  BY <1>2, <1>3, ResetEvolves DEF SessionRemoved
<1> QED BY <1>1, <1>2, <1>4, QuietKeeps

(* The session is reset.                                                   *)
LEMMA ResetKeeps ==
    ASSUME LoginInv, OnResetSession \/ OnStartMigrates
    PROVE  LoginInv' /\ PointerKept(ses')
<1>1. UNCHANGED answer /\ Becomes(DoReset(ses), NoEntry, NoEntry, <<>>)
  BY DEF OnResetSession, OnStartMigrates, Quietly
<1>2. NoEntry \notin Workers /\ ses.up \in BOOLEAN
  BY EntryAssumption DEF LoginInv, SessionType
<1>3. Evolves(DoReset(ses), NoEntry)
  BY <1>2, ResetEvolves
<1> QED BY <1>1, <1>3, QuietKeeps

(* The session stays as it is.                                             *)
LEMMA StaysEvolves ==
    ASSUME LoginInv
    PROVE  Evolves(ses, NoEntry)
<1>1. NoEntry \notin Workers /\ \A v \in Workers : ~HeadIs(v, NoEntry, "SessionExited")
  BY EntryAssumption DEF HeadIs, First
<1> QED BY <1>1, SameEvolves DEF LoginInv

(* The session is started by the one conversation that is kept.            *)
LEMMA StartUserSessionKeeps ==
    ASSUME LoginInv, OnStartUserSession
    PROVE  LoginInv' /\ PointerKept(ses')
<1> DEFINE s  == Head(mgr.idles).service
           w  == ses.table[s]
           cs == <<[method |-> "StartProgram"]>>
<1>1. UNCHANGED answer /\ StartSession(s)
  BY DEF OnStartUserSession
<1>2. CASE ses.session_conversation = NoEntry /\ Found(ses, s)
  <2>1. Becomes(StopOthers(ses, w), NoEntry, w, cs) /\ w \in Workers
    BY <1>1, <1>2 DEF StartSession, Found
  <2> HIDE DEF s, w
  <2>2. Evolves(StopOthers(ses, w), NoEntry)
    BY <2>1, StopOthersEvolves
  <2>3. \A v \in Workers \ {w} : ~Converses(StopOthers(ses, w), v)
    BY <2>1, StopOthersEvolves
  <2>4. cs \in Seq(Call)
    <3>1. [method |-> "StartProgram"] \in Call
      BY DEF Call, Methods
    <3> HIDE DEF Call
    <3> QED BY <3>1
  <2>5. Sends(StopOthers(ses, w), w, cs)
    BY <2>3, <2>4 DEF Sends
  <2> QED BY <1>1, <2>1, <2>2, <2>5, CallingKeeps
<1>3. CASE ~(ses.session_conversation = NoEntry /\ Found(ses, s))
  <2>1. Becomes(ses, NoEntry, NoEntry, <<>>)
    BY <1>1, <1>3 DEF StartSession, Quietly
  <2> QED BY <1>1, <2>1, StaysEvolves, QuietKeeps
<1> QED BY <1>2, <1>3

(* A conversation begins with a process of its own or, if that cannot be   *)
(* started, with a NULL entry.                                             *)
LEMMA BeginKeeps ==
    ASSUME LoginInv, NEW s \in Services, NEW starting \in {"no", "anyone", "user"},
           BeginConversation(s, starting)
    PROVE  LoginInv' /\ PointerKept(ses')
<1>0. ses \in SessionType /\ NullEntry \notin Workers /\ CanStart(ses, s) /\ UNCHANGED answer
  BY EntryAssumption DEF LoginInv, BeginConversation
<1> DEFINE old == ses.table[s]
           C(w, c) == [x \in Workers |-> IF x = w THEN c ELSE IF x = old THEN Freed ELSE ses.conv[x]]
           new == [service |-> s, proxy |-> FALSE, stopping |-> FALSE,
                   starting |-> "no", query |-> FALSE]
           begun == [new EXCEPT !.starting = starting]
           up == ses.up /\ old # NullEntry
           S(w, c) == [ses EXCEPT !.table[s] = w, !.conv = C(w, c), !.up = up]
<1>1. \A c \in {new, begun} : c \in Conversation /\ c.service = s /\ ~c.proxy /\ ~c.query
  <2>1. new \in Conversation /\ new.service = s /\ ~new.proxy /\ ~new.query
    BY DEF Conversation
  <2> HIDE DEF new
  <2>2. begun \in Conversation /\ begun.service = s /\ ~begun.proxy /\ ~begun.query
    BY <2>1 DEF Conversation
  <2> QED BY <2>1, <2>2
<1>2. \A w : StartConversation(ses, s, w) = S(w, new)
  BY DEF StartConversation
<1> HIDE DEF new, begun, up
<1>u. up \in BOOLEAN
  BY DEF up
<1>3. ASSUME NEW w \in Workers \cup {NullEntry}, NEW c \in Conversation
      PROVE  /\ S(w, c) \in SessionType
             /\ S(w, c).table = [ses.table EXCEPT ![s] = w] /\ S(w, c).conv = C(w, c)
             /\ S(w, c).session_conversation = ses.session_conversation
  <2>1. C(w, c) \in [Workers -> Conversation \cup {Freed}]
    BY <1>0 DEF SessionType
  <2>2. [ses.table EXCEPT ![s] = w] \in [Services -> Workers \cup {NoEntry, NullEntry}]
    BY <1>0 DEF SessionType
  <2> HIDE DEF C
  <2>3. S(w, c) = [ses EXCEPT !.table = [ses.table EXCEPT ![s] = w], !.conv = C(w, c), !.up = up]
    OBVIOUS
  <2> DEFINE t == [ses.table EXCEPT ![s] = w]
  <2> HIDE DEF t
  <2>4. S(w, c) = [ses EXCEPT !.table = t, !.conv = C(w, c), !.up = up]
    BY <2>3 DEF t
  <2>5. t \in [Services -> Workers \cup {NoEntry, NullEntry}]
    BY <2>2 DEF t
  <2> HIDE DEF S
  <2>6. /\ S(w, c) \in SessionType /\ S(w, c).table = t /\ S(w, c).conv = C(w, c)
        /\ S(w, c).session_conversation = ses.session_conversation
    BY <1>0, <1>u, <2>1, <2>4, <2>5 DEF SessionType
  <2> QED BY <2>6 DEF t
<1>4. CASE /\ \E w \in Workers : ~Spawned(w)
           /\ LET w == CHOOSE x \in Workers : ~Spawned(x)
              IN Quietly([StartConversation(ses, s, w) EXCEPT !.conv[w].starting = starting])
  <2> DEFINE w == CHOOSE x \in Workers : ~Spawned(x)
             T == [StartConversation(ses, s, w) EXCEPT !.conv[w].starting = starting]
  <2>1. Becomes(T, NoEntry, NoEntry, <<>>)
    BY <1>4 DEF Quietly
  <2>2. w \in Workers /\ ~Spawned(w)
    BY <1>4
  <2> HIDE DEF w
  <2>3. T = S(w, begun)
    <3>1. T = [S(w, new) EXCEPT !.conv[w].starting = starting]
      BY <1>2
    <3>2. S(w, new).conv = C(w, new)
      <4> HIDE DEF S, C, T
      <4> QED BY <1>1, <1>3, <2>2
    <3>3. [C(w, new) EXCEPT ![w].starting = starting] = C(w, begun)
      BY <2>2 DEF begun
    <3> HIDE DEF C, T
    <3>4. T = [S(w, new) EXCEPT !.conv = C(w, begun)]
      <4> HIDE DEF S
      <4> QED BY <3>1, <3>2, <3>3
    <3> QED BY <1>0, <3>4 DEF SessionType
  <2> HIDE DEF T
  <2>4. /\ T \in SessionType /\ T.table = [ses.table EXCEPT ![s] = w] /\ T.conv = C(w, begun)
        /\ T.session_conversation = ses.session_conversation
    <3> HIDE DEF S, C
    <3> QED BY <1>1, <1>3, <2>2, <2>3
  <2>5. Evolves(T, NoEntry)
    BY <1>0, <1>1, <2>2, <2>4, StartEvolves
  <2> QED BY <1>0, <2>1, <2>5, QuietKeeps
<1>5. CASE Quietly(StartConversation(ses, s, NullEntry))
  <2> DEFINE T == S(NullEntry, new)
  <2>1. Becomes(T, NoEntry, NoEntry, <<>>)
    BY <1>2, <1>5 DEF Quietly
  <2>2. /\ T \in SessionType /\ T.table = [ses.table EXCEPT ![s] = NullEntry]
        /\ T.conv = C(NullEntry, new)
        /\ T.session_conversation = ses.session_conversation
    <3> HIDE DEF S, C
    <3> QED BY <1>1, <1>3
  <2> HIDE DEF T
  <2>3. Evolves(T, NoEntry)
    BY <1>0, <2>2, StartEvolves
  <2> QED BY <1>0, <2>1, <2>3, QuietKeeps
<1> QED BY <1>4, <1>5 DEF BeginConversation

-----------------------------------------------------------------------------
(* The manager's notes.                                                    *)
ManagerInv ==
    mgr \in ManagerType /\ client \in {"never", "connected", "gone"} /\ NoLostStart

(* No note is lost of a session that waits and a client that is ready.     *)
LEMMA IfReadyKeeps ==
    ASSUME NEW M \in ManagerType, NEW s \in Services
    PROVE  /\ StartUserSessionIfReady(M, s) \in ManagerType
           /\ ~(StartUserSessionIfReady(M, s).ready /\ StartUserSessionIfReady(M, s).waiting)
<1> DEFINE note == [op |-> "start", service |-> s]
           notes == [op : {"reset"}] \cup [op : {"start"}, service : Services]
<1>1. note \in notes
  OBVIOUS
<1>2. M.idles \in Seq(notes) /\ M.ready \in BOOLEAN
  BY DEF ManagerType
<1> HIDE DEF note, notes
<1>3. Append(M.idles, note) \in Seq(notes)
  BY <1>1, <1>2
<1>4. CASE M.ready
  <2>1. StartUserSessionIfReady(M, s) = [M EXCEPT !.waiting = FALSE, !.idles = Append(M.idles, note)]
    BY <1>4 DEF StartUserSessionIfReady, note
  <2> QED BY <1>3, <2>1 DEF ManagerType, notes
<1>5. CASE ~M.ready
  <2>1. StartUserSessionIfReady(M, s) = [M EXCEPT !.waiting = TRUE]
    BY <1>5 DEF StartUserSessionIfReady
  <2> QED BY <1>5, <2>1 DEF ManagerType
<1> QED BY <1>4, <1>5

(* An opened session is started or waits.                                  *)
LEMMA UserSessionOpenedKeeps ==
    ASSUME ManagerInv, NEW s \in Services
    PROVE  /\ UserSessionOpened(mgr, s) \in ManagerType
           /\ ~(UserSessionOpened(mgr, s).ready /\ UserSessionOpened(mgr, s).waiting)
<1> DEFINE M0 == [mgr EXCEPT !.listed = @ + 1]
           alone == s = AutologinService /\ client # "connected"
           M1 == [M0 EXCEPT !.ready = M0.ready \/ alone]
<1>1. UserSessionOpened(mgr, s) = StartUserSessionIfReady(M1, s)
  BY DEF UserSessionOpened
<1>2. M0 \in ManagerType
  BY DEF ManagerInv, ManagerType
<1> HIDE DEF M0
<1>3. M1 \in ManagerType
  <2> DEFINE r == M0.ready \/ alone
  <2>1. r \in BOOLEAN
    OBVIOUS
  <2> HIDE DEF r
  <2>2. [M0 EXCEPT !.ready = r] \in ManagerType
    BY <1>2, <2>1 DEF ManagerType
  <2> QED BY <2>2 DEF r
<1> HIDE DEF M1
<1> QED BY <1>1, <1>3, IfReadyKeeps

(* The idle sources are taken from the front.                              *)
LEMMA IdleDoneKeeps ==
    ASSUME ManagerInv, mgr.idles # <<>>, IdleDone
    PROVE  mgr' \in ManagerType /\ mgr'.ready = mgr.ready /\ mgr'.waiting = mgr.waiting
<1> DEFINE notes == [op : {"reset"}] \cup [op : {"start"}, service : Services]
<1>1. mgr \in ManagerType /\ mgr.idles \in Seq(notes)
  BY DEF ManagerInv, ManagerType
<1>2. Tail(mgr.idles) \in Seq(notes)
  <2> HIDE DEF notes
  <2> QED BY <1>1
<1>3. mgr' = [mgr EXCEPT !.idles = Tail(mgr.idles)]
  BY DEF IdleDone
<1> QED BY <1>1, <1>2, <1>3 DEF ManagerType

LEMMA QueueResetKeeps ==
    ASSUME ManagerInv
    PROVE  /\ QueueSessionReset(mgr) \in ManagerType
           /\ QueueSessionReset(mgr).ready = mgr.ready
           /\ QueueSessionReset(mgr).waiting = mgr.waiting
<1> DEFINE notes == [op : {"reset"}] \cup [op : {"start"}, service : Services]
           note  == [op |-> "reset"]
<1>1. mgr \in ManagerType /\ mgr.idles \in Seq(notes) /\ note \in notes
  BY DEF ManagerInv, ManagerType
<1>2. Append(mgr.idles, note) \in Seq(notes)
  <2> HIDE DEF note, notes
  <2> QED BY <1>1
<1>3. CASE ResetQueued(mgr)
  BY <1>1, <1>3 DEF QueueSessionReset
<1>4. CASE ~ResetQueued(mgr)
  <2>1. QueueSessionReset(mgr) = [mgr EXCEPT !.idles = Append(mgr.idles, note)]
    BY <1>4 DEF QueueSessionReset
  <2> HIDE DEF note
  <2> QED BY <1>1, <1>2, <2>1 DEF ManagerType
<1> QED BY <1>3, <1>4

LEMMA RemoveUserSessionKeeps ==
    ASSUME ManagerInv
    PROVE  /\ RemoveUserSession(mgr) \in ManagerType
           /\ RemoveUserSession(mgr).ready = mgr.ready
           /\ RemoveUserSession(mgr).waiting = mgr.waiting
<1> DEFINE n == IF mgr.listed > 0 THEN mgr.listed - 1 ELSE 0
<1>1. mgr \in ManagerType /\ n \in Nat
  BY DEF ManagerInv, ManagerType
<1>2. RemoveUserSession(mgr) = [mgr EXCEPT !.over = TRUE, !.listed = n]
  BY DEF RemoveUserSession
<1> HIDE DEF n
<1> QED BY <1>1, <1>2 DEF ManagerType

(* The client's word and the manager's note of it.                         *)
LEMMA WhenReadyKeeps ==
    ASSUME ManagerInv, NEW s \in Services, NEW ready \in BOOLEAN, StartSessionWhenReady(s, ready)
    PROVE  mgr' \in ManagerType /\ ~(mgr'.ready /\ mgr'.waiting)
<1> DEFINE M == [mgr EXCEPT !.ready = ready]
<1>1. M \in ManagerType /\ M.ready = ready /\ M.waiting = mgr.waiting
  BY DEF ManagerInv, ManagerType
<1>2. mgr' = IF ready /\ mgr.waiting THEN StartUserSessionIfReady(M, s) ELSE M
  BY DEF StartSessionWhenReady
<1> HIDE DEF M
<1> QED BY <1>1, <1>2, IfReadyKeeps

(* A step that leaves the session and the workers alone.                   *)
LEMMA StutterKeeps ==
    ASSUME LoginInv, UNCHANGED <<workerVars, ses>>
    PROVE  LoginInv' /\ PointerKept(ses')
<1>1. Inv'
  BY InvInductive DEF LoginInv
<1>2. UNCHANGED <<proc, state, pending, idle, busy, child, sigterm, reauths, settings, conn, calls,
                  answer, events, ses>>
  BY DEF workerVars, pamVars, profileVars, procVars, wireVars
<1>3. ses' \in SessionType /\ NoOrphanWorker' /\ OneStarts' /\ PointerKept(ses')
  BY <1>2 DEF LoginInv, NoOrphanWorker, OneStarts, Conversing, Starts, Asked, Running, Live, PointerKept
<1>4. ASSUME NEW w \in Workers PROVE Each(w)'
  <2>1. Each(w)
    BY DEF LoginInv
  <2>2. Unregistered(w)' /\ QueryWaits(w)'
    BY <1>2, <2>1 DEF Each, Unregistered, QueryWaits, Waits, Unused, Running
  <2>3. Announced(w)' /\ StartRequested(w)'
    BY <1>2, <2>1 DEF Each, Announced, StartRequested, Live
  <2> QED BY <2>2, <2>3 DEF Each
<1> QED BY <1>1, <1>3, <1>4 DEF LoginInv

(* The client's answer goes to the conversation that waits for it.         *)
LEMMA AnswerKeeps ==
    ASSUME LoginInv, NEW s \in Services, AnswerQuery(s)
    PROVE  LoginInv' /\ PointerKept(ses')
<1> DEFINE w  == ses.table[s]
           c0 == ses.conv[w]
           c  == [c0 EXCEPT !.query = FALSE]
           T  == [ses EXCEPT !.conv[w] = c]
<1>1. /\ w \in Workers /\ c0.query /\ answer' = [answer EXCEPT ![w] = conn[w]]
      /\ Becomes(T, NoEntry, NoEntry, <<>>)
  BY DEF AnswerQuery, Found, Quietly
<1>2. /\ Live(ses, w) /\ c0 \in Conversation /\ w # NoEntry /\ ~HeadIs(w, NoEntry, "SessionExited")
      /\ ses \in SessionType
  BY <1>1, FreedFields, EntryAssumption DEF LoginInv, SessionType, Live, HeadIs, First
<1>3. /\ c \in Conversation /\ c.service = c0.service /\ c.stopping = c0.stopping
      /\ c.proxy = c0.proxy /\ ~c.query
  BY <1>2 DEF Conversation
<1>t. T.conv[w] = c
  BY <1>1, <1>2 DEF SessionType
<1> HIDE DEF w, c, c0
<1>4. Evolves(T, NoEntry)
  BY <1>1, <1>2, <1>3, AdjustEvolves DEF c0
<1>5. Answers(T, NoEntry)
  <2>1. answer \in [Workers -> BOOLEAN] /\ conn \in [Workers -> BOOLEAN]
    BY DEF LoginInv, Inv, TypeOK
  <2> QED BY <1>1, <1>3, <1>t, <2>1 DEF Answers, c0
<1>6. Sends(T, NoEntry, <<>>)
  BY DEF Sends
<1> QED BY <1>1, <1>4, <1>5, <1>6, HandlesKeeps DEF Handles

(* The greeter's timer.                                                    *)
LEMMA AutoLoginKeeps ==
    ASSUME LoginInv, BeginAutoLogin
    PROVE  LoginInv' /\ PointerKept(ses')
<1> DEFINE w  == ses.table[AutologinService]
           cs == <<InitializeCall(TRUE)>>
<1>1. UNCHANGED answer /\ Becomes(ses, NoEntry, w, cs)
  BY DEF BeginAutoLogin
<1>2. Harmless(cs)
  BY OneCallHarmless DEF InitializeCall, Call
<1> HIDE DEF w, cs
<1> QED BY <1>1, <1>2, StaysEvolves, CallingKeeps DEF Harmless, Sends

(* A greeter connects.                                                     *)
LEMMA ConnectsKeeps ==
    ASSUME LoginInv, ManagerInv, ClientConnects \/ SetUpAutomaticLogin
    PROVE  LoginInv' /\ PointerKept(ses')
<1>1. mgr.mode \in LoginModes
  BY DEF ManagerInv, ManagerType
<1>2. CASE BeginConversation(AutologinService, "no") /\ mgr.mode \in {"timed", "automatic"}
  <2>1. AutologinService \in Services
    BY <1>1, <1>2, AutologinAssumption
  <2> QED BY <1>2, <2>1, BeginKeeps
<1>3. CASE Becomes(ses, NoEntry, NoEntry, <<>>) /\ UNCHANGED answer
  BY <1>3, StaysEvolves, QuietKeeps
<1> QED BY <1>2, <1>3 DEF ClientConnects, SetUpAutomaticLogin, Quietly

(* What a session's step does to conversations and workers.                *)
LEMMA SessionStepKeeps ==
    ASSUME LoginInv, NEW w \in Workers, SessionStep(w)
    PROVE  LoginInv' /\ PointerKept(ses')
BY RegisterKeeps, RefuseKeeps, QueryKeeps, StageKeeps, StartFailedKeeps, OpenedKeeps, StartedKeeps,
   SessionExitedKeeps, EndedKeeps DEF SessionStep

(* Every step keeps the invariant, and the pointer.                        *)
LEMMA LoginStepKeeps ==
    ASSUME LoginInv, ManagerInv, [LoginNext]_vars
    PROVE  LoginInv' /\ PointerKept(ses')
<1>1. ASSUME NEW w \in Workers, WorkerStarts(w) \/ WorkerActs(w) PROVE LoginInv' /\ PointerKept(ses')
  <2>1. LoginInv'
    BY <1>1, StartsKeep, ActsKeep
  <2>2. PointerKept(ses')
    BY <1>1 DEF WorkerStarts, WorkerActs, loginVars, PointerKept, Live
  <2> QED BY <2>1, <2>2
<1>2. ASSUME NEW w \in Workers, SessionStep(w) PROVE LoginInv' /\ PointerKept(ses')
  BY <1>2, SessionStepKeeps
<1>3. CASE ManagerIdle
  BY <1>3, ResetKeeps, StartUserSessionKeeps DEF ManagerIdle
<1>4. CASE SetUpAutomaticLogin \/ ClientConnects
  BY <1>4, ConnectsKeeps
<1>5. CASE UNCHANGED <<workerVars, ses>>
  BY <1>5, StutterKeeps
<1>6. CASE BeginAutoLogin
  BY <1>6, AutoLoginKeeps
<1>7. ASSUME NEW s \in Services, NEW how \in {"anyone", "user"}, BeginVerification(s, how)
      PROVE  LoginInv' /\ PointerKept(ses')
  BY <1>7, BeginKeeps DEF BeginVerification
<1>8. ASSUME NEW s \in Services, AnswerQuery(s) PROVE LoginInv' /\ PointerKept(ses')
  BY <1>8, AnswerKeeps
<1>9. ASSUME \/ ClientDisconnects \/ Cancel \/ UNCHANGED vars
             \/ \E s \in Services : \E ready \in BOOLEAN : StartSessionWhenReady(s, ready)
      PROVE  UNCHANGED <<workerVars, ses>>
  BY <1>9 DEF ClientDisconnects, Cancel, StartSessionWhenReady, vars, loginVars
<1> QED BY <1>1, <1>2, <1>3, <1>4, <1>5, <1>6, <1>7, <1>8, <1>9 DEF LoginNext, GreeterStep

(* Every step keeps the manager's notes in order.                          *)
LEMMA ManagerStepKeeps ==
    ASSUME LoginInv, ManagerInv, [LoginNext]_vars
    PROVE  ManagerInv'
<1>0. mgr \in ManagerType /\ client \in {"never", "connected", "gone"} /\ ~(mgr.ready /\ mgr.waiting)
  BY DEF ManagerInv, NoLostStart
<1>k. ASSUME mgr' \in ManagerType, mgr'.ready = mgr.ready, mgr'.waiting = mgr.waiting
      PROVE  mgr' \in ManagerType /\ NoLostStart'
  BY <1>0, <1>k DEF NoLostStart
<1>u. ASSUME UNCHANGED mgr PROVE mgr' \in ManagerType /\ NoLostStart'
  BY <1>0, <1>u DEF NoLostStart
<1>r. ASSUME mgr' = RemoveUserSession(mgr) PROVE mgr' \in ManagerType /\ NoLostStart'
  BY <1>k, <1>r, RemoveUserSessionKeeps
<1>1. client' \in {"never", "connected", "gone"}
  <2>1. UNCHANGED client \/ client' \in {"never", "connected", "gone"}
    <3>1. ASSUME NEW w \in Workers, SessionStep(w) PROVE UNCHANGED client
      BY <3>1 DEF SessionStep, RegisterWorker, RefuseWorker, HandleQuery, StageSucceeded, StageFailed,
                  OnStartFailed, OnOpened, OnStarted, OnSessionExited, WorkerEnded
    <3>2. ASSUME NEW w \in Workers, WorkerStarts(w) \/ WorkerActs(w) PROVE UNCHANGED client
      BY <3>2 DEF WorkerStarts, WorkerActs, loginVars
    <3>3. ASSUME ManagerIdle PROVE client' \in {client, "gone"}
      BY <3>3 DEF ManagerIdle, OnResetSession, OnStartMigrates, OnStartUserSession
    <3>4. ASSUME GreeterStep PROVE client' \in {client, "connected", "gone"}
      BY <3>4 DEF GreeterStep, ClientConnects, ClientDisconnects, Cancel, BeginAutoLogin,
                  BeginVerification, AnswerQuery, StartSessionWhenReady
    <3>5. ASSUME SetUpAutomaticLogin \/ UNCHANGED vars PROVE UNCHANGED client
      BY <3>5 DEF SetUpAutomaticLogin, vars, loginVars
    <3> QED BY <1>0, <3>1, <3>2, <3>3, <3>4, <3>5 DEF LoginNext
  <2> QED BY <1>0, <2>1
<1>2. ASSUME NEW w \in Workers, SessionStep(w) PROVE mgr' \in ManagerType /\ NoLostStart'
  <2>1. CASE OnOpened(w)
    <3>1. /\ events[w] # <<>> /\ Head(events[w]).kind = "reply"
          /\ mgr' = UserSessionOpened(mgr, ses.conv[w].service)
      BY <2>1 DEF OnOpened, Reported, Reads
    <3>2. ses.conv[w].service \in Services
      BY <3>1, SaidToProxy DEF Conversation
    <3> QED BY <3>1, <3>2, UserSessionOpenedKeeps DEF NoLostStart
  <2>2. CASE UNCHANGED mgr
    BY <1>u, <2>2
  <2>3. CASE mgr' = RemoveUserSession(mgr)
    BY <1>r, <2>3
  <2>4. UNCHANGED mgr \/ mgr' = RemoveUserSession(mgr) \/ OnOpened(w)
    BY <1>2 DEF SessionStep, RegisterWorker, RefuseWorker, HandleQuery, StageSucceeded, StageFailed,
                OnStartFailed, OnStarted, OnSessionExited, WorkerEnded
  <2> QED BY <2>1, <2>2, <2>3, <2>4
<1>3. ASSUME ManagerIdle PROVE mgr' \in ManagerType /\ NoLostStart'
  <2>1. mgr.idles # <<>> /\ IdleDone
    BY <1>3 DEF ManagerIdle, OnResetSession, OnStartMigrates, OnStartUserSession, IdleHead
  <2> QED BY <1>k, <2>1, IdleDoneKeeps
<1>4. ASSUME NEW s \in Services, NEW ready \in BOOLEAN, StartSessionWhenReady(s, ready)
      PROVE  mgr' \in ManagerType /\ NoLostStart'
  BY <1>4, WhenReadyKeeps DEF NoLostStart
<1>5. ASSUME Cancel PROVE mgr' \in ManagerType /\ NoLostStart'
  BY <1>k, <1>5, QueueResetKeeps DEF Cancel
<1>6. ASSUME \/ \E w \in Workers : WorkerStarts(w) \/ WorkerActs(w)
             \/ SetUpAutomaticLogin \/ ClientConnects \/ ClientDisconnects \/ BeginAutoLogin
             \/ \E s \in Services : \E how \in {"anyone", "user"} : BeginVerification(s, how)
             \/ \E s \in Services : AnswerQuery(s)
             \/ UNCHANGED vars
      PROVE  UNCHANGED mgr
  BY <1>6 DEF WorkerStarts, WorkerActs, SetUpAutomaticLogin, ClientConnects, ClientDisconnects,
              BeginAutoLogin, BeginVerification, AnswerQuery, vars, loginVars
<1>7. mgr' \in ManagerType /\ NoLostStart'
  BY <1>2, <1>3, <1>4, <1>5, <1>6, <1>u DEF LoginNext, GreeterStep
<1> QED BY <1>1, <1>7 DEF ManagerInv

-----------------------------------------------------------------------------
(* What holds of every login.                                              *)

LEMMA InitKeeps == Init => LoginInv /\ ManagerInv
<1> SUFFICES ASSUME Init PROVE LoginInv /\ ManagerInv
  OBVIOUS
<1>0. WorkerInit /\ ses = NewSession /\ client = "never"
  BY DEF Init
<1>1. Inv
  BY <1>0, InitInv
<1>2. /\ ses \in SessionType /\ ses.session_conversation = NoEntry
      /\ ses.conv = [w \in Workers |-> Freed] /\ ses.table = [s \in Services |-> NoEntry]
  BY <1>0 DEF NewSession, SessionType
<1>3. \A w \in Workers :
         /\ ses.conv[w] = Freed /\ ~Live(ses, w) /\ ses.session_conversation # w
         /\ \A s \in Services : ses.table[s] # w
  BY <1>2, EntryAssumption DEF Live
<1>4. \A w \in Workers : /\ proc[w] = "unborn" /\ Unused(w) /\ ~conn[w] /\ events[w] = <<>>
                         /\ ~Running(w)
  BY <1>0 DEF WorkerInit, Unused, NoCall, Running
<1>5. NoOrphanWorker /\ OneStarts
  BY <1>3, <1>4 DEF NoOrphanWorker, OneStarts, Conversing
<1>6. ASSUME NEW w \in Workers PROVE Each(w)
  <2>1. Unregistered(w)
    BY <1>3, <1>4, FreedFields DEF Unregistered
  <2>2. QueryWaits(w) /\ Announced(w)
    <3>1. 1..Len(<<>>) = {}
      OBVIOUS
    <3>2. events[w] = <<>> /\ ~answer[w] /\ ~conn[w] /\ ~ses.conv[w].query
      BY <1>3, <1>4, FreedFields DEF Unused
    <3> QED BY <3>1, <3>2 DEF QueryWaits, Announced
  <2>3. StartRequested(w)
    BY <1>4 DEF StartRequested, Unused, NoCall
  <2> QED BY <2>1, <2>2, <2>3 DEF Each
<1>7. ManagerInv
  <2>1. PICK mode \in LoginModes :
          mgr = [mode |-> mode, ready |-> FALSE, waiting |-> FALSE, idles |-> <<>>,
                 listed |-> 0, over |-> FALSE]
    BY DEF Init
  <2>2. mgr \in ManagerType /\ NoLostStart
    BY <2>1 DEF ManagerType, NoLostStart
  <2> QED BY <1>0, <2>2 DEF ManagerInv
<1> QED BY <1>1, <1>2, <1>5, <1>6, <1>7 DEF LoginInv

LEMMA LoginInvariance == LoginSpec => [](LoginInv /\ ManagerInv)
<1>1. LoginInv /\ ManagerInv /\ [LoginNext]_vars => (LoginInv /\ ManagerInv)'
  BY LoginStepKeeps, ManagerStepKeeps
<1> QED BY <1>1, InitKeeps, PTL DEF LoginSpec

(* Everything keeps its type, be there any number of workers.              *)
THEOREM LoginTypesAreKept == LoginSpec => []LoginTypeOK
<1>1. LoginInv /\ ManagerInv => LoginTypeOK
  BY DEF LoginInv, Inv, ManagerInv, LoginTypeOK
<1> QED BY <1>1, LoginInvariance, PTL

(* Whatever is replaced, stopped, reset or removed, no worker is orphaned: *)
(* the table and the conversations agree and a process that is no longer   *)
(* a conversation's has been sent SIGTERM.                                 *)
THEOREM NoWorkerIsOrphaned == LoginSpec => []NoOrphanWorker
<1>1. LoginInv => NoOrphanWorker
  BY DEF LoginInv
<1> QED BY <1>1, LoginInvariance, PTL

(* "Opened" and "ready" meet in either order.                              *)
THEOREM NoStartIsLost == LoginSpec => []NoLostStart
<1>1. ManagerInv => NoLostStart
  BY DEF ManagerInv
<1> QED BY <1>1, LoginInvariance, PTL

(* scdm_session_start_session stops every other conversation before it     *)
(* asks one for a session, so never two of them start or run one.          *)
THEOREM SessionsAreSingle == LoginSpec => []OneSession
<1>1. LoginInv => OneSession
  BY DEF LoginInv, OneStarts, OneSession, Starts
<1> QED BY <1>1, LoginInvariance, PTL

(* set_pending_query's assertion holds: a worker asks its next question    *)
(* only when the last one was answered.                                    *)
THEOREM QueriesAreSingle == LoginSpec => []OneQueryAtATime
<1>1. ASSUME LoginInv, NEW w \in Workers, ses.conv[w].query
      PROVE  ~Sent(w, "Query") /\ (conn[w] => busy[w] = "query" /\ ~answer[w])
  <2>1. events[w] \in Seq(Event) /\ QueryWaits(w)
    BY <1>1 DEF LoginInv, Each, Inv, TypeOK
  <2>2. \A i \in 1..Len(events[w]) : events[w][i].kind # "Query"
    BY <1>1, <2>1 DEF QueryWaits
  <2>3. DOMAIN events[w] = 1..Len(events[w])
    BY <2>1
  <2> QED BY <1>1, <2>1, <2>2, <2>3 DEF Sent, QueryWaits, Waits
<1>2. LoginInv => OneQueryAtATime
  BY <1>1 DEF OneQueryAtATime
<1> QED BY <1>2, LoginInvariance, PTL

(* session_conversation is good while its worker can be talked to, and is  *)
(* left dangling by no end, failure, cancellation or reset.                *)
THEOREM PointerIsValid == LoginSpec => SessionConversationValid
<1> DEFINE Good == \A w \in Workers :
                      ses.session_conversation = w /\ conn[w] =>
                         /\ Live(ses, w)
                         /\ child[w] # "none" \/ Sent(w, "SessionExited")
           Step == \A w \in Workers :
                      Live(ses, w) /\ ~Live(ses', w) /\ ses'.session_conversation = w =>
                         /\ ses.conv[w].stopping
                         /\ ses'.table[ses.conv[w].service] # NoEntry
<1>1. LoginInv => Good
  <2>1. SUFFICES ASSUME LoginInv, NEW w \in Workers, ses.session_conversation = w, conn[w]
                 PROVE  Live(ses, w) /\ (child[w] # "none" \/ Sent(w, "SessionExited"))
    OBVIOUS
  <2>2. Announced(w) /\ events[w] \in Seq(Event)
    BY <2>1 DEF LoginInv, Each, Inv, TypeOK
  <2>3. DOMAIN events[w] = 1..Len(events[w])
    BY <2>2
  <2> QED BY <2>1, <2>2, <2>3 DEF Announced, Sent
<1>2. LoginInv /\ ManagerInv /\ [LoginNext]_vars => [Step]_ses
  BY LoginStepKeeps DEF PointerKept
<1>3. SessionConversationValid <=> []Good /\ [][Step]_ses
  BY DEF SessionConversationValid
<1> HIDE DEF Good, Step
<1> QED BY <1>1, <1>2, <1>3, LoginInvariance, PTL DEF LoginSpec

(* A step of the daemon is none of the workers' lifecycle.                 *)
LEMMA DaemonStutters ==
    ASSUME \/ \E w \in Workers : SessionStep(w)
           \/ SetUpAutomaticLogin \/ ManagerIdle \/ GreeterStep \/ UNCHANGED vars
    PROVE  UNCHANGED Lifecycle!lifecycle
<1>1. ASSUME NEW T, NEW from, NEW x, NEW cs, Becomes(T, from, x, cs) PROVE UNCHANGED Lifecycle!lifecycle
  BY <1>1 DEF Becomes, pamVars, Lifecycle!lifecycle
<1>2. ASSUME NEW T, Quietly(T) PROVE UNCHANGED Lifecycle!lifecycle
  BY <1>1, <1>2 DEF Quietly
<1>3. ASSUME UNCHANGED workerVars PROVE UNCHANGED Lifecycle!lifecycle
  BY <1>3 DEF workerVars, pamVars, procVars, Lifecycle!lifecycle
<1>4. ASSUME NEW w \in Workers, RefuseWorker(w) PROVE UNCHANGED Lifecycle!lifecycle
  BY <1>4 DEF RefuseWorker, pamVars, procVars, Lifecycle!lifecycle
<1>5. ASSUME NEW s, NEW how, BeginConversation(s, how) PROVE UNCHANGED Lifecycle!lifecycle
  BY <1>2, <1>5 DEF BeginConversation
<1> HIDE DEF Lifecycle!lifecycle
<1>6. ASSUME NEW w \in Workers, SessionStep(w) PROVE UNCHANGED Lifecycle!lifecycle
  <2>1. \/ RefuseWorker(w)
        \/ \E T, from, x, cs : Becomes(T, from, x, cs)
        \/ \E T : Quietly(T)
    BY <1>6 DEF SessionStep, RegisterWorker, HandleQuery, StageSucceeded, StageFailed, OnStartFailed,
                OnOpened, OnStarted, OnSessionExited, WorkerEnded
  <2> QED BY <1>1, <1>2, <1>4, <2>1
<1>7. ASSUME ManagerIdle PROVE UNCHANGED Lifecycle!lifecycle
  <2>1. (\E T, from, x, cs : Becomes(T, from, x, cs)) \/ \E T : Quietly(T)
    BY <1>7 DEF ManagerIdle, OnResetSession, OnStartMigrates, OnStartUserSession, StartSession
  <2> QED BY <1>1, <1>2, <2>1
<1>8. ASSUME GreeterStep \/ SetUpAutomaticLogin PROVE UNCHANGED Lifecycle!lifecycle
  <2>1. \/ UNCHANGED workerVars
        \/ \E s, how : BeginConversation(s, how)
        \/ \E T, from, x, cs : Becomes(T, from, x, cs)
        \/ \E T : Quietly(T)
    BY <1>8 DEF GreeterStep, SetUpAutomaticLogin, ClientConnects, ClientDisconnects, Cancel,
                BeginAutoLogin, BeginVerification, AnswerQuery, StartSessionWhenReady
  <2> QED BY <1>1, <1>2, <1>3, <1>5, <2>1
<1> QED BY <1>3, <1>6, <1>7, <1>8 DEF vars

(* With the real daemon for a peer, which closes connections, sends        *)
(* SIGTERM and starts workers as it likes, the workers still implement     *)
(* their lifecycle.                                                        *)
THEOREM WorkersKeepLifecycle == LoginSpec => ImplementsLifecycle
<1>1. LoginInv /\ [LoginNext]_vars => [Lifecycle!Next]_Lifecycle!lifecycle
  <2>1. SUFFICES ASSUME LoginInv, [LoginNext]_vars PROVE [Lifecycle!Next]_Lifecycle!lifecycle
    OBVIOUS
  <2>2. CASE \E w \in Workers : WorkerStarts(w) \/ WorkerActs(w)
    <3>1. Next
      BY <2>2 DEF WorkerStarts, WorkerActs, Next
    <3> QED BY <2>1, <3>1, InvInductive DEF LoginInv
  <2>3. CASE ~\E w \in Workers : WorkerStarts(w) \/ WorkerActs(w)
    BY <2>1, <2>3, DaemonStutters DEF LoginNext
  <2> QED BY <2>2, <2>3
<1>2. Init => Lifecycle!Init
  BY InitSimulates DEF Init
<1> QED BY <1>1, <1>2, LoginInvariance, PTL DEF LoginSpec, ImplementsLifecycle, Lifecycle!Spec

=============================================================================
