------------------------- MODULE SessionWorkerProofs -------------------------
(***************************************************************************)
(* Proofs about SessionWorker, for any set of workers, any peer and any    *)
(* bound on the channels.                                                  *)
(***************************************************************************)
EXTENDS SessionWorker, TLAPS

(* Sending an event keeps the channel to the peer well typed.              *)
LEMMA EmitType ==
    ASSUME TypeOK, NEW w \in Workers, NEW e \in Event, Emit(w, e)
    PROVE  events' \in [Workers -> Seq(Event)]
BY DEF TypeOK, Emit

(* Answering whatever invocation is pending, if any, keeps the types.       *)
LEMMA ReplyPendingType ==
    ASSUME TypeOK, NEW w \in Workers, NEW ok \in BOOLEAN, ReplyPending(w, ok)
    PROVE  /\ events' \in [Workers -> Seq(Event)]
           /\ pending' \in [Workers -> Invocation]
<1>1. pending' \in [Workers -> Invocation]
  BY DEF TypeOK, ReplyPending, Invocation
<1>2. CASE pending[w] = NoCall \/ pending[w].answered
  BY <1>1, <1>2 DEF ReplyPending, TypeOK
<1>3. CASE ~(pending[w] = NoCall \/ pending[w].answered)
  <2>1. pending[w] \in [method : Methods, answered : BOOLEAN]
    BY <1>3 DEF TypeOK, Invocation
  <2>2. Reply(pending[w].method, ok) \in Event
    BY <2>1 DEF Reply, Event
  <2>3. Emit(w, Reply(pending[w].method, ok))
    BY <1>3 DEF ReplyPending
  <2> QED BY <1>1, <2>2, <2>3, EmitType
<1> QED BY <1>2, <1>3

(* Taking PAM down leads to a stage and a set of items again.              *)
LEMMA UninitializePamType ==
    ASSUME TypeOK, NEW w \in Workers, UninitializePam(w)
    PROVE  state' \in [Workers -> Stages] /\ pam' \in [Workers -> SUBSET PamItems]
<1>1. state \in [Workers -> Stages] /\ pam \in [Workers -> SUBSET PamItems]
  BY DEF TypeOK
<1>2. CASE "handle" \notin pam[w]
  BY <1>1, <1>2 DEF UninitializePam
<1>3. CASE "handle" \in pam[w]
  <2>1. pam' = [pam EXCEPT ![w] = @ \ Released(state[w])]
    BY <1>3 DEF UninitializePam
  <2>2. state' = [state EXCEPT ![w] = NONE]
    BY <1>3 DEF UninitializePam, SetState
  <2>3. NONE \in Stages
    BY DEF Stages, NONE, SESSION_STARTED
  <2>4. pam[w] \ Released(state[w]) \in SUBSET PamItems
    BY <1>1
  <2> QED BY <1>1, <2>1, <2>2, <2>3, <2>4
<1> QED BY <1>2, <1>3

(* So does the end of a stage, whether it fails or succeeds.               *)
LEMMA StageEndsType ==
    ASSUME TypeOK, NEW w \in Workers, NEW i \in PamItems, NEW s \in Stages,
           \/ StageFails(w)
           \/ Gain(w, i) /\ SetState(w, s) /\ ReplyPending(w, TRUE)
    PROVE  /\ state' \in [Workers -> Stages] /\ pam' \in [Workers -> SUBSET PamItems]
           /\ events' \in [Workers -> Seq(Event)]
           /\ pending' \in [Workers -> Invocation]
<1>1. CASE StageFails(w)
  BY <1>1, ReplyPendingType, UninitializePamType DEF StageFails
<1>2. CASE Gain(w, i) /\ SetState(w, s) /\ ReplyPending(w, TRUE)
  BY <1>2, ReplyPendingType DEF Gain, SetState, TypeOK
<1> QED BY <1>1, <1>2

(* The values a step assigns are of the types declared.                    *)
LEMMA ValuesTyped ==
    /\ Stages = 0..7
    /\ {NONE, SETUP_COMPLETE, AUTHENTICATED, AUTHORIZED, ACCREDITED,
        ACCOUNT_DETAILS_SAVED, SESSION_OPENED, SESSION_STARTED} \subseteq Stages
    /\ \A k \in {"Hello", "Query", "SessionExited", "Reauthenticated"} : Signal(k) \in Event
    /\ \A m \in Methods \cup {"StartReauthentication"}, ok \in BOOLEAN : Reply(m, ok) \in Event
BY DEF Stages, NONE, SETUP_COMPLETE, AUTHENTICATED, AUTHORIZED, ACCREDITED,
       ACCOUNT_DETAILS_SAVED, SESSION_OPENED, SESSION_STARTED, Signal, Reply, Event

(* Picking up the user name keeps the profile's types.                     *)
LEMMA UpdateUsernameType ==
    ASSUME TypeOK, NEW w \in Workers, UpdateUsername(w)
    PROVE  /\ hasUser' \in [Workers -> BOOLEAN] /\ program' \in [Workers -> BOOLEAN]
           /\ settings' \in [Workers -> {"none", "loading", "loaded"}]
           /\ awaiting' \in [Workers -> BOOLEAN]
<1>1. /\ hasUser \in [Workers -> BOOLEAN] /\ program \in [Workers -> BOOLEAN]
      /\ settings \in [Workers -> {"none", "loading", "loaded"}]
      /\ awaiting \in [Workers -> BOOLEAN]
  BY DEF TypeOK
<1>2. UNCHANGED hasUser \/ hasUser' = [hasUser EXCEPT ![w] = TRUE]
  BY DEF UpdateUsername, profileVars
<1>3. UNCHANGED settings \/ \E s \in {"loading", "loaded"} : settings' = [settings EXCEPT ![w] = s]
  BY DEF UpdateUsername, LoadSettings, profileVars
<1>4. UNCHANGED <<program, awaiting>>
  BY DEF UpdateUsername, profileVars
<1>5. hasUser' \in [Workers -> BOOLEAN]
  BY ONLY <1>1, <1>2
<1>6. settings' \in [Workers -> {"none", "loading", "loaded"}]
  BY ONLY <1>1, <1>3
<1> QED BY ONLY <1>1, <1>4, <1>5, <1>6

(* Requests keep the types: a refusal is one event, an accepted request is *)
(* a pending invocation and a queued idle source.                          *)
LEMMA RequestType ==
    ASSUME TypeOK, NEW w \in Workers,
           \/ \E m \in Methods : HandleStage(w, m)
           \/ HandleInitialize(w) \/ HandleStartProgram(w) \/ HandleStartReauthentication(w)
    PROVE  TypeOK'
<1> USE DEF pamVars, profileVars, procVars, wireVars
<1>1. ASSUME NEW m \in Methods, HandleStage(w, m) PROVE TypeOK'
  <2>1. calls' \in [Workers -> Seq(Call)]
    BY <1>1 DEF HandleStage, Receive, TypeOK
  <2>2. CASE Refuse(w, m) /\ UNCHANGED <<pending, idle>>
    <3>1. events' \in [Workers -> Seq(Event)]
      BY <2>2, ValuesTyped, EmitType DEF Refuse
    <3> QED BY <1>1, <2>1, <2>2, <3>1 DEF HandleStage, Receive, TypeOK
  <2>3. CASE Accept(w, m) /\ QueueStateChange(w)
    <3>1. pending' \in [Workers -> Invocation]
      BY <2>3 DEF Accept, TypeOK, Invocation
    <3> QED BY <1>1, <2>1, <2>3, <3>1 DEF HandleStage, Receive, Accept, QueueStateChange, TypeOK
  <2> QED BY <1>1, <2>2, <2>3 DEF HandleStage
<1>2. CASE HandleInitialize(w)
  <2>0. "Initialize" \in Methods
    BY DEF Methods
  <2>1. /\ calls' \in [Workers -> Seq(Call)]
        /\ UNCHANGED <<state, busy, pam, procVars, answer, conn>>
    BY <1>2 DEF HandleInitialize, Receive, TypeOK
  <2>2. CASE Refuse(w, "Initialize") /\ UNCHANGED <<pending, idle, profileVars>>
    <3>1. events' \in [Workers -> Seq(Event)]
      BY <2>0, <2>2, ValuesTyped, EmitType DEF Refuse
    <3> QED BY <2>1, <2>2, <3>1 DEF TypeOK
  <2>3. CASE ~(Refuse(w, "Initialize") /\ UNCHANGED <<pending, idle, profileVars>>)
    <3>1. Accept(w, "Initialize")
      BY <1>2, <2>3 DEF HandleInitialize
    <3>2. pending' \in [Workers -> Invocation] /\ UNCHANGED events
      BY <2>0, <3>1 DEF Accept, TypeOK, Invocation
    <3>3. /\ hasUser' \in [Workers -> BOOLEAN] /\ program' \in [Workers -> BOOLEAN]
      <4>1. Head(calls[w]) \in Call /\ Head(calls[w]).method = "Initialize"
        BY <1>2 DEF HandleInitialize, Receive, TypeOK
      <4>2. Head(calls[w]).user \in BOOLEAN /\ Head(calls[w]).program \in BOOLEAN
        BY <4>1 DEF Call, Methods
      <4> DEFINE user == Head(calls[w]).user \/ hasUser[w]
                 prog == Head(calls[w]).program \/ program[w]
      <4>3. /\ hasUser' = [hasUser EXCEPT ![w] = user]
            /\ program' = [program EXCEPT ![w] = prog]
        BY <1>2, <2>3 DEF HandleInitialize
      <4>4. user \in BOOLEAN /\ prog \in BOOLEAN
        BY <4>2 DEF TypeOK
      <4> HIDE DEF user, prog
      <4> QED BY <4>3, <4>4 DEF TypeOK
    <3>4. /\ idle' \in [Workers -> BOOLEAN] /\ awaiting' \in [Workers -> BOOLEAN]
          /\ settings' \in [Workers -> {"none", "loading", "loaded"}]
      <4>1. \/ QueueStateChange(w) /\ UNCHANGED <<settings, awaiting>>
            \/ /\ LoadSettings(w, TRUE)
               /\ awaiting' = [awaiting EXCEPT ![w] = FALSE]
               /\ QueueStateChange(w)
            \/ /\ UNCHANGED settings \/ LoadSettings(w, FALSE)
               /\ awaiting' = [awaiting EXCEPT ![w] = TRUE]
               /\ UNCHANGED idle
        BY <1>2, <2>3 DEF HandleInitialize
      <4>2. /\ idle \in [Workers -> BOOLEAN] /\ awaiting \in [Workers -> BOOLEAN]
            /\ settings \in [Workers -> {"none", "loading", "loaded"}]
        BY DEF TypeOK
      <4>3. /\ UNCHANGED idle \/ idle' = [idle EXCEPT ![w] = TRUE]
            /\ UNCHANGED awaiting \/ \E b \in BOOLEAN : awaiting' = [awaiting EXCEPT ![w] = b]
            /\ \/ UNCHANGED settings
               \/ \E s \in {"loading", "loaded"} : settings' = [settings EXCEPT ![w] = s]
        BY <4>1 DEF QueueStateChange, LoadSettings
      <4>4. idle' \in [Workers -> BOOLEAN]
        BY ONLY <4>2, <4>3
      <4>5. awaiting' \in [Workers -> BOOLEAN]
        BY ONLY <4>2, <4>3
      <4>6. settings' \in [Workers -> {"none", "loading", "loaded"}]
        BY ONLY <4>2, <4>3
      <4> QED BY ONLY <4>4, <4>5, <4>6
    <3> QED BY <2>1, <3>2, <3>3, <3>4 DEF TypeOK
  <2> QED BY <2>2, <2>3
<1>3. CASE HandleStartProgram(w)
  <2>0. "StartProgram" \in Methods
    BY DEF Methods
  <2>1. /\ calls' \in [Workers -> Seq(Call)]
        /\ UNCHANGED <<state, busy, pam, procVars, answer, conn, profileVars>>
    BY <1>3 DEF HandleStartProgram, Receive, TypeOK
  <2>2. Emit(w, Reply("StartProgram", FALSE)) \/ UNCHANGED events
    BY <1>3 DEF HandleStartProgram
  <2>3. events' \in [Workers -> Seq(Event)]
    BY <2>0, <2>2, ValuesTyped, EmitType DEF TypeOK
  <2>4. pending' \in [Workers -> Invocation] /\ idle' \in [Workers -> BOOLEAN]
    <3> DEFINE refused == ~ValidStateChange(w, "StartProgram")
               inv     == [method |-> "StartProgram", answered |-> refused]
    <3>1. refused \in BOOLEAN
      OBVIOUS
    <3>2. \/ UNCHANGED <<pending, idle>>
          \/ /\ pending' = [pending EXCEPT ![w] = inv]
             /\ idle' = [idle EXCEPT ![w] = TRUE]
      BY <1>3 DEF HandleStartProgram, QueueStateChange
    <3> HIDE DEF refused
    <3>3. inv \in Invocation
      BY <2>0, <3>1 DEF Invocation
    <3> HIDE DEF inv
    <3>4. CASE UNCHANGED <<pending, idle>>
      BY <3>4 DEF TypeOK
    <3>5. CASE pending' = [pending EXCEPT ![w] = inv] /\ idle' = [idle EXCEPT ![w] = TRUE]
      BY <3>3, <3>5 DEF TypeOK
    <3> QED BY <3>2, <3>4, <3>5
  <2> QED BY <2>1, <2>3, <2>4 DEF TypeOK
<1>4. CASE HandleStartReauthentication(w)
  <2>1. Head(calls[w]) \in Call /\ Head(calls[w]).method = "StartReauthentication"
    BY <1>4 DEF HandleStartReauthentication, TypeOK
  <2>2. Head(calls[w]).caller \in Callers
    BY <2>1 DEF Call, Methods
  <2> DEFINE ok == state[w] = SESSION_STARTED
  <2>3. ok \in BOOLEAN
    OBVIOUS
  <2>4. /\ Emit(w, Reply("StartReauthentication", ok))
        /\ reauths' = [reauths EXCEPT ![w] = IF ok THEN @ \cup {Head(calls[w]).caller} ELSE @]
        /\ calls' = [calls EXCEPT ![w] = Tail(@)] /\ calls[w] # <<>>
        /\ UNCHANGED <<pamVars, profileVars, proc, child, graceful, sigterm, answer, conn>>
    BY <1>4 DEF HandleStartReauthentication
  <2> HIDE DEF ok
  <2>5. events' \in [Workers -> Seq(Event)]
    BY <2>3, <2>4, ValuesTyped, EmitType
  <2>6. reauths' \in [Workers -> SUBSET Callers]
    BY <2>2, <2>3, <2>4 DEF TypeOK
  <2> QED BY <2>4, <2>5, <2>6 DEF TypeOK
<1> QED BY <1>1, <1>2, <1>3, <1>4

(* The end of a process leaves everything well typed but, possibly, what    *)
(* the ending action does to the stage, to PAM and to the session process. *)
LEMMA EndsType ==
    ASSUME TypeOK, NEW w \in Workers, NEW how \in {"exited", "died"}, Ends(w, how),
           state' \in [Workers -> Stages], pam' \in [Workers -> SUBSET PamItems],
           child' \in [Workers -> {"none", "running", "zombie"}]
    PROVE  TypeOK'
<1>1. /\ proc' \in [Workers -> {"unborn", "running", "exited", "died"}]
      /\ pending' \in [Workers -> Invocation]
      /\ busy' \in [Workers -> {"no", "pam", "query"}]
      /\ settings' \in [Workers -> {"none", "loading", "loaded"}]
  BY DEF TypeOK, Ends, Invocation
<1>2. /\ sigterm' \in [Workers -> BOOLEAN] /\ idle' \in [Workers -> BOOLEAN]
      /\ hasUser' \in [Workers -> BOOLEAN] /\ program' \in [Workers -> BOOLEAN]
      /\ awaiting' \in [Workers -> BOOLEAN] /\ conn' \in [Workers -> BOOLEAN]
      /\ answer' \in [Workers -> BOOLEAN] /\ graceful' \in [Workers -> BOOLEAN]
  BY DEF TypeOK, Ends
<1>3. /\ reauths' \in [Workers -> SUBSET Callers]
      /\ calls' \in [Workers -> Seq(Call)]
      /\ events' \in [Workers -> Seq(Event)]
  BY DEF TypeOK, Ends
<1> QED BY <1>1, <1>2, <1>3 DEF TypeOK

(* The stage changes keep the types.                                       *)
LEMMA StageChangeType ==
    ASSUME TypeOK, NEW w \in Workers,
           \/ DoSetup(w) \/ BeginAuthenticate(w) \/ BeginAuthorize(w)
           \/ FinishAuthenticate(w) \/ FinishAuthorize(w)
           \/ DoAccredit(w) \/ DoSaveAccountDetailsWhenReady(w) \/ SettingsLoaded(w)
           \/ DoOpenSession(w) \/ DoStartSession(w) \/ StateChangeAborts(w)
    PROVE  TypeOK'
<1> USE DEF pamVars, profileVars, procVars, wireVars
<1> DEFINE Ended == /\ state' \in [Workers -> Stages] /\ pam' \in [Workers -> SUBSET PamItems]
                    /\ events' \in [Workers -> Seq(Event)]
                    /\ pending' \in [Workers -> Invocation]
<1>0. {"handle", "authenticated", "authorized", "cred", "session"} \subseteq PamItems
  BY DEF PamItems
<1>1. CASE DoSetup(w)
  <2>1. Ended
    BY <1>0, <1>1, StageEndsType, ValuesTyped DEF DoSetup
  <2> QED BY <1>1, <2>1 DEF DoSetup, IdleFires, TypeOK
<1>2. CASE BeginAuthenticate(w)
  BY <1>2 DEF BeginAuthenticate, EnterPam, IdleFires, TypeOK
<1>3. CASE BeginAuthorize(w)
  BY <1>3 DEF BeginAuthorize, EnterPam, IdleFires, TypeOK
<1>4. CASE FinishAuthenticate(w)
  <2>1. Ended
    BY <1>0, <1>4, StageEndsType, ValuesTyped DEF FinishAuthenticate
  <2>2. /\ hasUser' \in [Workers -> BOOLEAN] /\ program' \in [Workers -> BOOLEAN]
        /\ settings' \in [Workers -> {"none", "loading", "loaded"}]
        /\ awaiting' \in [Workers -> BOOLEAN]
    <3>1. UpdateUsername(w) \/ UNCHANGED profileVars
      BY <1>4 DEF FinishAuthenticate
    <3> QED BY <3>1, UpdateUsernameType DEF TypeOK
  <2> QED BY <1>4, <2>1, <2>2 DEF FinishAuthenticate, PamReturns, TypeOK
<1>5. CASE FinishAuthorize(w)
  <2>1. Ended
    BY <1>0, <1>5, StageEndsType, ValuesTyped DEF FinishAuthorize
  <2> QED BY <1>5, <2>1 DEF FinishAuthorize, PamReturns, TypeOK
<1>6. CASE DoAccredit(w)
  <2>1. Ended
    BY <1>0, <1>6, StageEndsType, ValuesTyped DEF DoAccredit
  <2> QED BY <1>6, <2>1 DEF DoAccredit, IdleFires, TypeOK
<1>7. CASE DoSaveAccountDetailsWhenReady(w)
  <2>1. /\ state' \in [Workers -> Stages] /\ idle' \in [Workers -> BOOLEAN]
        /\ awaiting' \in [Workers -> BOOLEAN]
        /\ settings' \in [Workers -> {"none", "loading", "loaded"}]
    <3>1. /\ state \in [Workers -> Stages] /\ idle \in [Workers -> BOOLEAN]
          /\ awaiting \in [Workers -> BOOLEAN]
          /\ settings \in [Workers -> {"none", "loading", "loaded"}]
      BY DEF TypeOK
    <3>2. ACCOUNT_DETAILS_SAVED \in Stages
      BY ValuesTyped
    <3>3. /\ UNCHANGED state \/ state' = [state EXCEPT ![w] = ACCOUNT_DETAILS_SAVED]
          /\ \E b \in BOOLEAN : idle' = [idle EXCEPT ![w] = b]
          /\ UNCHANGED awaiting \/ \E b \in BOOLEAN : awaiting' = [awaiting EXCEPT ![w] = b]
          /\ \/ UNCHANGED settings
             \/ \E s \in {"loading", "loaded"} : settings' = [settings EXCEPT ![w] = s]
      BY <1>7 DEF DoSaveAccountDetailsWhenReady, SaveAccountDetails, SetState,
                  QueueStateChange, LoadSettings
    <3>4. state' \in [Workers -> Stages]
      BY ONLY <3>1, <3>2, <3>3
    <3>5. idle' \in [Workers -> BOOLEAN]
      BY ONLY <3>1, <3>3
    <3>6. awaiting' \in [Workers -> BOOLEAN]
      BY ONLY <3>1, <3>3
    <3>7. settings' \in [Workers -> {"none", "loading", "loaded"}]
      BY ONLY <3>1, <3>3
    <3> QED BY ONLY <3>4, <3>5, <3>6, <3>7
  <2> QED BY <1>7, <2>1 DEF DoSaveAccountDetailsWhenReady, TypeOK
<1>8. CASE SettingsLoaded(w)
  <2>1. /\ state' \in [Workers -> Stages] /\ idle' \in [Workers -> BOOLEAN]
        /\ settings' \in [Workers -> {"none", "loading", "loaded"}]
    <3>1. \/ UNCHANGED state
          \/ state' = [state EXCEPT ![w] = ACCOUNT_DETAILS_SAVED]
      BY <1>8 DEF SettingsLoaded, SetState
    <3>2. UNCHANGED idle \/ idle' = [idle EXCEPT ![w] = TRUE]
      BY <1>8 DEF SettingsLoaded, QueueStateChange
    <3>3. settings' = [settings EXCEPT ![w] = "loaded"]
      BY <1>8 DEF SettingsLoaded
    <3>4. ACCOUNT_DETAILS_SAVED \in Stages
      BY ValuesTyped
    <3>5. state' \in [Workers -> Stages]
      <4>1. state \in [Workers -> Stages]
        BY DEF TypeOK
      <4> QED BY ONLY <3>1, <3>4, <4>1
    <3>6. idle' \in [Workers -> BOOLEAN] /\ settings' \in [Workers -> {"none", "loading", "loaded"}]
      BY <3>2, <3>3 DEF TypeOK
    <3> QED BY <3>5, <3>6
  <2>2. awaiting' \in [Workers -> BOOLEAN]
    BY <1>8, Zenon DEF SettingsLoaded, TypeOK
  <2> QED BY <1>8, <2>1, <2>2 DEF SettingsLoaded, TypeOK
<1>9. CASE DoOpenSession(w)
  <2>1. Ended
    <3>1. CASE ReplyPending(w, FALSE) /\ UNCHANGED <<state, pam>>
      BY <3>1, ReplyPendingType DEF TypeOK
    <3> QED BY <1>0, <1>9, <3>1, StageEndsType, ValuesTyped DEF DoOpenSession
  <2> QED BY <1>9, <2>1 DEF DoOpenSession, IdleFires, TypeOK
<1>10. CASE DoStartSession(w)
  <2>1. Ended
    <3>1. CASE SetState(w, SESSION_STARTED) /\ ReplyPending(w, TRUE) /\ UNCHANGED pam
      BY <3>1, ReplyPendingType, ValuesTyped DEF TypeOK, SetState
    <3> QED BY <1>0, <1>10, <3>1, StageEndsType, ValuesTyped DEF DoStartSession
  <2>2. /\ idle' = [idle EXCEPT ![w] = FALSE]
        /\ UNCHANGED child \/ child' = [child EXCEPT ![w] = "running"]
        /\ UNCHANGED graceful \/ graceful' = [graceful EXCEPT ![w] = TRUE]
        /\ UNCHANGED <<busy, profileVars, proc, sigterm, reauths, calls, answer, conn>>
    BY <1>10 DEF DoStartSession, IdleFires
  <2>3. /\ idle \in [Workers -> BOOLEAN] /\ graceful \in [Workers -> BOOLEAN]
        /\ child \in [Workers -> {"none", "running", "zombie"}]
    BY DEF TypeOK
  <2>4. idle' \in [Workers -> BOOLEAN] /\ graceful' \in [Workers -> BOOLEAN]
    BY ONLY <2>2, <2>3
  <2>5. child' \in [Workers -> {"none", "running", "zombie"}]
    BY ONLY <2>2, <2>3
  <2> QED BY <2>1, <2>2, <2>4, <2>5 DEF TypeOK
<1>11. CASE StateChangeAborts(w)
  BY <1>11, EndsType DEF StateChangeAborts, TypeOK
<1> QED BY <1>1, <1>2, <1>3, <1>4, <1>5, <1>6, <1>7, <1>8, <1>9, <1>10, <1>11

(* What else happens to a worker keeps the types.                          *)
LEMMA OtherStepType ==
    ASSUME TypeOK, NEW w \in Workers,
           \/ Start(w) \/ ProcessPamMessage(w) \/ QueryAnswered(w)
           \/ ChildExits(w) \/ ChildWatch(w)
           \/ \E c \in Callers : ReauthenticationComplete(w, c) \/ ReauthenticationClientGone(w, c)
           \/ SigtermExits(w) \/ Finalize(w) \/ Crash(w) \/ PeerStep(w)
    PROVE  TypeOK'
<1> USE DEF pamVars, profileVars, procVars, wireVars
<1>1. CASE Start(w)
  BY <1>1, ValuesTyped DEF Start, TypeOK
<1>2. CASE ProcessPamMessage(w)
  BY <1>2, ValuesTyped, EmitType, UpdateUsernameType DEF ProcessPamMessage, TypeOK
<1>3. CASE QueryAnswered(w)
  BY <1>3 DEF QueryAnswered, TypeOK
<1>4. CASE ChildExits(w)
  BY <1>4 DEF ChildExits, TypeOK
<1>5. CASE ChildWatch(w)
  BY <1>5, ValuesTyped, EmitType, UninitializePamType DEF ChildWatch, TypeOK
<1>6. ASSUME NEW c \in Callers, ReauthenticationComplete(w, c) PROVE TypeOK'
  BY <1>6, ValuesTyped, EmitType DEF ReauthenticationComplete, TypeOK
<1>7. ASSUME NEW c \in Callers, ReauthenticationClientGone(w, c) PROVE TypeOK'
  BY <1>7 DEF ReauthenticationClientGone, TypeOK
<1>8. CASE SigtermExits(w)
  BY <1>8, EndsType DEF SigtermExits, TypeOK
<1>9. CASE Finalize(w)
  BY <1>9, UninitializePamType, EndsType DEF Finalize, TypeOK
<1>10. CASE Crash(w)
  BY <1>10, EndsType DEF Crash, TypeOK
<1>11. ASSUME NEW c \in Call, PeerCalls(w, c) PROVE TypeOK'
  BY <1>11 DEF PeerCalls, TypeOK
<1>12. CASE PeerReads(w)
  BY <1>12 DEF PeerReads, TypeOK
<1>13. CASE PeerCloses(w)
  BY <1>13 DEF PeerCloses, TypeOK
<1>14. CASE PeerSendsSigterm(w)
  BY <1>14 DEF PeerSendsSigterm, TypeOK
<1> QED BY <1>1, <1>2, <1>3, <1>4, <1>5, <1>6, <1>7, <1>8, <1>9, <1>10, <1>11, <1>12,
           <1>13, <1>14 DEF PeerStep

(* Every step of a worker or its peer keeps the types.                     *)
LEMMA StepType ==
    ASSUME TypeOK, NEW w \in Workers, Start(w) \/ WorkerStep(w) \/ PeerStep(w)
    PROVE  TypeOK'
BY RequestType, StageChangeType, OtherStepType DEF WorkerStep

(* So does every step.                                                     *)
LEMMA TypeInductive == TypeOK /\ [Next]_workerVars => TypeOK'
<1>1. ASSUME TypeOK, Next PROVE TypeOK'
  BY <1>1, StepType DEF Next
<1>2. ASSUME TypeOK, UNCHANGED workerVars PROVE TypeOK'
  BY <1>2 DEF workerVars, pamVars, profileVars, procVars, wireVars, TypeOK
<1> QED BY <1>1, <1>2

(* Types hold always, for any number of workers and any peer.              *)
THEOREM TypeCorrect == Spec => []TypeOK
<1>1. WorkerInit => TypeOK
  BY ValuesTyped DEF WorkerInit, TypeOK, Invocation, NoCall
<1> QED BY <1>1, TypeInductive, PTL DEF Spec
-----------------------------------------------------------------------------
(* The worker implements WorkerLifecycle.                                  *)

Inv == TypeOK /\ Lifecycle!LifecycleInv

(* Each successful stage adds one item; saving the account details and     *)
(* starting the session add none.                                          *)
LEMMA HoldingsGrow ==
    /\ Lifecycle!Holdings(SETUP_COMPLETE) = Lifecycle!Holdings(NONE) \cup {"handle"}
    /\ Lifecycle!Holdings(AUTHENTICATED) = Lifecycle!Holdings(SETUP_COMPLETE) \cup {"authenticated"}
    /\ Lifecycle!Holdings(AUTHORIZED) = Lifecycle!Holdings(AUTHENTICATED) \cup {"authorized"}
    /\ Lifecycle!Holdings(ACCREDITED) = Lifecycle!Holdings(AUTHORIZED) \cup {"cred"}
    /\ Lifecycle!Holdings(ACCOUNT_DETAILS_SAVED) = Lifecycle!Holdings(ACCREDITED)
    /\ Lifecycle!Holdings(SESSION_OPENED) = Lifecycle!Holdings(ACCOUNT_DETAILS_SAVED) \cup {"session"}
    /\ Lifecycle!Holdings(SESSION_STARTED) = Lifecycle!Holdings(SESSION_OPENED)
BY DEF Lifecycle!Holdings, Lifecycle!Opened, NONE, SETUP_COMPLETE, AUTHENTICATED, AUTHORIZED,
       ACCREDITED, ACCOUNT_DETAILS_SAVED, SESSION_OPENED, SESSION_STARTED

(* uninitialize_pam releases whatever the stage holds, and every stage but *)
(* NONE holds a handle.                                                    *)
LEMMA AllReleased ==
    \A s \in Stages :
        /\ Lifecycle!Holdings(s) \subseteq Released(s)
        /\ "handle" \notin Lifecycle!Holdings(s) => s = NONE
BY DEF Lifecycle!Holdings, Lifecycle!Opened, Released, Stages, NONE, SESSION_STARTED,
       SESSION_OPENED, ACCREDITED

(* So taking PAM down always leads to the bottom of the lifecycle.         *)
LEMMA UninitializePamEnters ==
    ASSUME Inv, NEW w \in Workers, UninitializePam(w)
    PROVE  Lifecycle!Enter(w, Lifecycle!Bottom)
<1>1. /\ pam \in [Workers -> SUBSET PamItems] /\ state \in [Workers -> Stages]
      /\ pam[w] = Lifecycle!Holdings(state[w]) /\ state[w] \in Stages
  BY DEF Inv, TypeOK, Lifecycle!LifecycleInv, Lifecycle!Kept
<1>2. Lifecycle!Bottom = NONE /\ Lifecycle!Holdings(NONE) = {}
  BY Lifecycle!HoldingsEnds DEF Lifecycle!Bottom, NONE
<1>3. CASE "handle" \notin pam[w]
  <2>1. state[w] = NONE /\ pam[w] = {} /\ UNCHANGED <<state, pam>>
    BY <1>1, <1>2, <1>3, AllReleased DEF UninitializePam
  <2> QED BY <1>1, <1>2, <2>1 DEF Lifecycle!Enter
<1>4. CASE "handle" \in pam[w]
  <2>1. pam[w] \ Released(state[w]) = {}
    BY <1>1, AllReleased
  <2> QED BY <1>1, <1>2, <1>4, <2>1 DEF UninitializePam, SetState, Lifecycle!Enter
<1> QED BY <1>3, <1>4

(* Gaining the item a stage adds is entering that stage.                   *)
LEMMA GainEnters ==
    ASSUME Inv, NEW w \in Workers, NEW s, NEW i,
           Lifecycle!Holdings(s) = Lifecycle!Holdings(state[w]) \cup {i},
           Gain(w, i), SetState(w, s)
    PROVE  Lifecycle!Enter(w, s)
BY DEF Inv, TypeOK, Lifecycle!LifecycleInv, Lifecycle!Kept, Lifecycle!Enter, Gain, SetState

(* A stage that ends is a step up, or everything is given back.            *)
LEMMA StageEndSimulates ==
    ASSUME Inv, NEW w \in Workers, NEW i, NEW s,
           Running(w), state[w] \in 0..5, s = state[w] + 1,
           UNCHANGED <<proc, child, graceful>>,
           Lifecycle!Holdings(s) = Lifecycle!Holdings(state[w]) \cup {i},
           \/ StageFails(w)
           \/ Gain(w, i) /\ SetState(w, s) /\ ReplyPending(w, TRUE)
    PROVE  Lifecycle!Step(w)
<1>1. state[w] < Lifecycle!Opened /\ state[w] < Lifecycle!Top
  BY DEF Lifecycle!Opened, Lifecycle!Top
<1>2. CASE StageFails(w)
  <2>1. Lifecycle!Enter(w, Lifecycle!Bottom)
    BY <1>2, UninitializePamEnters DEF StageFails
  <2> QED BY <1>1, <2>1 DEF Running, Lifecycle!Step, Lifecycle!Fail
<1>3. CASE Gain(w, i) /\ SetState(w, s)
  <2>1. Lifecycle!Enter(w, s)
    BY <1>3, GainEnters
  <2> QED BY <1>1, <2>1 DEF Running, Lifecycle!Step, Lifecycle!Advance
<1> QED BY <1>2, <1>3

(* Every step of a worker or its peer is a step of the lifecycle, or none. *)
LEMMA StepSimulates ==
    ASSUME Inv, NEW w \in Workers, Start(w) \/ WorkerStep(w) \/ PeerStep(w)
    PROVE  Lifecycle!Step(w) \/ UNCHANGED Lifecycle!lifecycle
<1> USE DEF pamVars, profileVars, procVars, wireVars
<1> DEFINE Stays == UNCHANGED <<proc, state, pam, child, graceful>>
<1>0. Stays => UNCHANGED Lifecycle!lifecycle
  BY DEF Lifecycle!lifecycle
<1>1. CASE Start(w)
  BY <1>1 DEF Start, Lifecycle!Step, Lifecycle!Spawn
<1>2. CASE \/ \E m \in Methods : HandleStage(w, m)
           \/ HandleInitialize(w) \/ HandleStartProgram(w) \/ HandleStartReauthentication(w)
  <2>1. Stays
    BY <1>2 DEF HandleStage, HandleInitialize, HandleStartProgram, HandleStartReauthentication, Receive
  <2> QED BY <1>0, <2>1
<1>3. CASE \/ BeginAuthenticate(w) \/ BeginAuthorize(w) \/ ProcessPamMessage(w) \/ QueryAnswered(w)
           \/ PeerStep(w)
           \/ \E c \in Callers : ReauthenticationComplete(w, c) \/ ReauthenticationClientGone(w, c)
  <2>1. Stays
    BY <1>3 DEF BeginAuthenticate, BeginAuthorize, EnterPam, ProcessPamMessage, QueryAnswered,
                PeerStep, PeerCalls, PeerReads, PeerCloses, PeerSendsSigterm,
                ReauthenticationComplete, ReauthenticationClientGone
  <2> QED BY <1>0, <2>1
<1>4. CASE DoSetup(w)
  <2>1. /\ Running(w) /\ state[w] = NONE /\ UNCHANGED <<proc, child, graceful>>
        /\ \/ StageFails(w)
           \/ Gain(w, "handle") /\ SetState(w, SETUP_COMPLETE) /\ ReplyPending(w, TRUE)
    BY <1>4 DEF DoSetup, IdleFires, LoopFree
  <2>2. state[w] \in 0..5 /\ SETUP_COMPLETE = state[w] + 1
    BY <2>1 DEF NONE, SETUP_COMPLETE
  <2>3. Lifecycle!Holdings(SETUP_COMPLETE) = Lifecycle!Holdings(state[w]) \cup {"handle"}
    BY <2>1, HoldingsGrow
  <2> QED BY <2>1, <2>2, <2>3, StageEndSimulates
<1>5. CASE FinishAuthenticate(w)
  <2>1. /\ Running(w) /\ state[w] = SETUP_COMPLETE /\ UNCHANGED <<proc, child, graceful>>
        /\ \/ StageFails(w)
           \/ Gain(w, "authenticated") /\ SetState(w, AUTHENTICATED) /\ ReplyPending(w, TRUE)
    BY <1>5 DEF FinishAuthenticate, PamReturns
  <2>2. state[w] \in 0..5 /\ AUTHENTICATED = state[w] + 1
    BY <2>1 DEF SETUP_COMPLETE, AUTHENTICATED
  <2>3. Lifecycle!Holdings(AUTHENTICATED) = Lifecycle!Holdings(state[w]) \cup {"authenticated"}
    BY <2>1, HoldingsGrow
  <2> QED BY <2>1, <2>2, <2>3, StageEndSimulates
<1>6. CASE FinishAuthorize(w)
  <2>1. /\ Running(w) /\ state[w] = AUTHENTICATED /\ UNCHANGED <<proc, child, graceful>>
        /\ \/ StageFails(w)
           \/ Gain(w, "authorized") /\ SetState(w, AUTHORIZED) /\ ReplyPending(w, TRUE)
    BY <1>6 DEF FinishAuthorize, PamReturns
  <2>2. state[w] \in 0..5 /\ AUTHORIZED = state[w] + 1
    BY <2>1 DEF AUTHENTICATED, AUTHORIZED
  <2>3. Lifecycle!Holdings(AUTHORIZED) = Lifecycle!Holdings(state[w]) \cup {"authorized"}
    BY <2>1, HoldingsGrow
  <2> QED BY <2>1, <2>2, <2>3, StageEndSimulates
<1>7. CASE DoAccredit(w)
  <2>1. /\ Running(w) /\ state[w] = AUTHORIZED /\ UNCHANGED <<proc, child, graceful>>
        /\ \/ StageFails(w)
           \/ Gain(w, "cred") /\ SetState(w, ACCREDITED) /\ ReplyPending(w, TRUE)
    BY <1>7 DEF DoAccredit, IdleFires, LoopFree
  <2>2. state[w] \in 0..5 /\ ACCREDITED = state[w] + 1
    BY <2>1 DEF AUTHORIZED, ACCREDITED
  <2>3. Lifecycle!Holdings(ACCREDITED) = Lifecycle!Holdings(state[w]) \cup {"cred"}
    BY <2>1, HoldingsGrow
  <2> QED BY <2>1, <2>2, <2>3, StageEndSimulates
<1>8. ASSUME Running(w), state[w] = ACCREDITED, SetState(w, ACCOUNT_DETAILS_SAVED),
             UNCHANGED <<proc, pam, child, graceful>>
      PROVE  Lifecycle!Step(w)
  <2>1. Lifecycle!Enter(w, state[w] + 1)
    <3>1. /\ pam \in [Workers -> SUBSET PamItems]
          /\ pam[w] = Lifecycle!Holdings(ACCOUNT_DETAILS_SAVED)
      BY <1>8, HoldingsGrow DEF Inv, TypeOK, Lifecycle!LifecycleInv, Lifecycle!Kept
    <3>2. ACCOUNT_DETAILS_SAVED = state[w] + 1
      BY <1>8 DEF ACCREDITED, ACCOUNT_DETAILS_SAVED
    <3> QED BY <1>8, <3>1, <3>2 DEF SetState, Lifecycle!Enter
  <2> QED BY <1>8, <2>1 DEF Running, Lifecycle!Step, Lifecycle!Advance, Lifecycle!Opened, ACCREDITED
<1>9. CASE DoSaveAccountDetailsWhenReady(w)
  BY <1>0, <1>8, <1>9 DEF DoSaveAccountDetailsWhenReady, SaveAccountDetails, LoopFree
<1>10. CASE SettingsLoaded(w)
  BY <1>0, <1>8, <1>10 DEF SettingsLoaded, LoopFree
<1>11. CASE DoOpenSession(w)
  <2>1. CASE UNCHANGED <<state, pam>>
    BY <1>0, <1>11, <2>1 DEF DoOpenSession
  <2>2. CASE ~UNCHANGED <<state, pam>>
    <3>1. /\ Running(w) /\ state[w] = ACCOUNT_DETAILS_SAVED /\ UNCHANGED <<proc, child, graceful>>
          /\ \/ StageFails(w)
             \/ Gain(w, "session") /\ SetState(w, SESSION_OPENED) /\ ReplyPending(w, TRUE)
      BY <1>11, <2>2 DEF DoOpenSession, IdleFires, LoopFree
    <3>2. state[w] \in 0..5 /\ SESSION_OPENED = state[w] + 1
      BY <3>1 DEF ACCOUNT_DETAILS_SAVED, SESSION_OPENED
    <3>3. Lifecycle!Holdings(SESSION_OPENED) = Lifecycle!Holdings(state[w]) \cup {"session"}
      BY <3>1, HoldingsGrow
    <3> QED BY <3>1, <3>2, <3>3, StageEndSimulates
  <2> QED BY <2>1, <2>2
<1>12. CASE DoStartSession(w)
  <2>0. Running(w) /\ state[w] = SESSION_OPENED /\ UNCHANGED proc
    BY <1>12 DEF DoStartSession, IdleFires, LoopFree
  <2>1. CASE StageFails(w) /\ UNCHANGED <<child, graceful>>
    <3>1. Lifecycle!Enter(w, Lifecycle!Bottom)
      BY <2>1, UninitializePamEnters DEF StageFails
    <3> QED BY <2>0, <2>1, <3>1 DEF Running, Lifecycle!Step, Lifecycle!Fail, Lifecycle!Top, SESSION_OPENED
  <2>2. CASE /\ child'    = [child EXCEPT ![w] = "running"]
             /\ graceful' = [graceful EXCEPT ![w] = TRUE]
             /\ SetState(w, SESSION_STARTED)
             /\ UNCHANGED pam
    <3>1. /\ pam \in [Workers -> SUBSET PamItems]
          /\ pam[w] = Lifecycle!Holdings(SESSION_STARTED)
      BY <2>0, HoldingsGrow DEF Inv, TypeOK, Lifecycle!LifecycleInv, Lifecycle!Kept
    <3>2. Lifecycle!Enter(w, Lifecycle!Top)
      BY <2>2, <3>1 DEF SetState, Lifecycle!Enter, Lifecycle!Top, SESSION_STARTED
    <3> QED BY <2>0, <2>2, <3>2
            DEF Running, Lifecycle!Step, Lifecycle!Launch, Lifecycle!Opened, SESSION_OPENED
  <2> QED BY <1>12, <2>1, <2>2 DEF DoStartSession
<1>13. CASE StateChangeAborts(w) \/ SigtermExits(w) \/ Crash(w)
  BY <1>13 DEF StateChangeAborts, SigtermExits, Crash, Ends, LoopFree, Running, Lifecycle!Step, Lifecycle!Die
<1>14. CASE ChildExits(w)
  BY <1>14 DEF ChildExits, Lifecycle!Step, Lifecycle!SessionEnds
<1>15. CASE ChildWatch(w)
  <2>1. Lifecycle!Enter(w, Lifecycle!Bottom)
    BY <1>15, UninitializePamEnters DEF ChildWatch
  <2> QED BY <1>15, <2>1 DEF ChildWatch, LoopFree, Running, Lifecycle!Step, Lifecycle!SessionReaped
<1>16. CASE Finalize(w)
  <2>1. Lifecycle!Enter(w, Lifecycle!Bottom)
    BY <1>16, UninitializePamEnters DEF Finalize
  <2> QED BY <1>16, <2>1 DEF Finalize, Ends, LoopFree, Running, Lifecycle!Step, Lifecycle!Terminate
<1> QED BY <1>1, <1>2, <1>3, <1>4, <1>5, <1>6, <1>7, <1>9, <1>10, <1>11, <1>12, <1>13, <1>14,
           <1>15, <1>16 DEF WorkerStep

(* A worker's initial state is one of the lifecycle.                       *)
LEMMA InitSimulates == WorkerInit => Lifecycle!Init
BY DEF WorkerInit, Lifecycle!Init, Lifecycle!Bottom, NONE

(* Types and the lifecycle's invariant together are inductive; neither is  *)
(* without the other, since what uninitialize_pam releases depends on the  *)
(* stage telling what PAM holds.                                           *)
LEMMA InvInductive == Inv /\ [Next]_workerVars => Inv' /\ [Lifecycle!Next]_Lifecycle!lifecycle
<1> SUFFICES ASSUME Inv, [Next]_workerVars PROVE Inv' /\ [Lifecycle!Next]_Lifecycle!lifecycle
  OBVIOUS
<1>1. TypeOK'
  BY TypeInductive DEF Inv
<1>2. [Lifecycle!Next]_Lifecycle!lifecycle
  <2>1. CASE Next
    BY <2>1, StepSimulates DEF Next, Lifecycle!Next
  <2>2. CASE UNCHANGED workerVars
    BY <2>2 DEF workerVars, pamVars, procVars, Lifecycle!lifecycle
  <2> QED BY <2>1, <2>2
<1>3. Lifecycle!LifecycleInv'
  BY <1>2, Lifecycle!StepKeeps DEF Inv
<1> QED BY <1>1, <1>2, <1>3 DEF Inv

(* The inductive invariant holds initially.                                *)
LEMMA InitInv == WorkerInit => Inv
<1>1. WorkerInit => TypeOK
  BY ValuesTyped DEF WorkerInit, TypeOK, Invocation, NoCall
<1>2. WorkerInit => Lifecycle!LifecycleInv
  BY InitSimulates, Lifecycle!InitKeeps
<1> QED BY <1>1, <1>2 DEF Inv

(* The worker of the code implements the abstract one: whatever its peer   *)
(* sends, its steps are a stage up, everything given back, the session     *)
(* process started, ended or reaped, or the end of the worker.             *)
THEOREM Implementation == Spec => ImplementsLifecycle
<1>1. Inv /\ [Next]_workerVars => Inv'
  BY InvInductive
<1>2. Inv /\ [Next]_workerVars => [Lifecycle!Next]_Lifecycle!lifecycle
  BY InvInductive
<1> QED BY <1>1, <1>2, InitInv, InitSimulates, PTL DEF Spec, ImplementsLifecycle, Lifecycle!Spec

(* The inductive invariant holds in every reachable state.                 *)
LEMMA Invariance == Spec => []Inv
<1>1. Inv /\ [Next]_workerVars => Inv'
  BY InvInductive
<1> QED BY <1>1, InitInv, PTL DEF Spec

(* The stage always tells what PAM holds, so no failure leaves credentials *)
(* or an open session behind in a running worker.                          *)
THEOREM PamFollowsStage == Spec => []StageHoldsPam
<1>1. Inv => StageHoldsPam
  BY DEF Inv, Lifecycle!LifecycleInv, Lifecycle!Kept, StageHoldsPam
<1> QED BY <1>1, Invariance, PTL

(* A session process exists exactly in SESSION_STARTED, with everything    *)
(* PAM can hold.                                                           *)
THEOREM SessionHasPam == Spec => []SessionNeedsPam
<1>1. Inv => SessionNeedsPam
  BY Lifecycle!HoldingsEnds
     DEF Inv, Lifecycle!LifecycleInv, Lifecycle!Kept, Lifecycle!Top, Lifecycle!Items,
         SessionNeedsPam, Running, SESSION_STARTED, PamItems
<1> QED BY <1>1, Invariance, PTL

(* A worker that started a session and is terminated leaves nothing.       *)
THEOREM TerminationIsClean == Spec => []TerminationCleansUp
<1>1. Inv => TerminationCleansUp
  BY DEF Inv, Lifecycle!LifecycleInv, Lifecycle!Kept, TerminationCleansUp
<1> QED BY <1>1, Invariance, PTL
-----------------------------------------------------------------------------
(* A reauthentication worker never has a stage change queued in            *)
(* SESSION_OPENED: the only request that would queue one is refused.       *)
ReauthInv ==
    \A w \in ReauthWorkers :
        /\ child[w] = "none"
        /\ state[w] # SESSION_STARTED
        /\ state[w] = SESSION_OPENED => ~idle[w]

(* No step of a worker disturbs it, be it one for a reauthentication.      *)
LEMMA ReauthInductive ==
    ASSUME TypeOK, ReauthInv, NEW w \in Workers, Start(w) \/ WorkerStep(w) \/ PeerStep(w)
    PROVE  ReauthInv'
<1> USE DEF pamVars, profileVars, procVars, wireVars
<1> USE DEF NONE, SETUP_COMPLETE, AUTHENTICATED, AUTHORIZED, ACCREDITED, ACCOUNT_DETAILS_SAVED,
            SESSION_OPENED, SESSION_STARTED
<1> DEFINE Safe(x, s, i) == x \in ReauthWorkers => s # SESSION_STARTED /\ (s = SESSION_OPENED => ~i)
<1>t. /\ state \in [Workers -> Stages] /\ idle \in [Workers -> BOOLEAN]
      /\ child \in [Workers -> {"none", "running", "zombie"}]
      /\ w \in ReauthWorkers => child[w] = "none"
      /\ Safe(w, state[w], idle[w])
  BY DEF TypeOK, ReauthInv
<1>f. ASSUME UNCHANGED child,
             \/ UNCHANGED state
             \/ \E s \in Stages : state' = [state EXCEPT ![w] = s],
             \/ UNCHANGED idle
             \/ \E i \in BOOLEAN : idle' = [idle EXCEPT ![w] = i],
             Safe(w, state'[w], idle'[w])
      PROVE  ReauthInv'
  <2>1. \A v \in Workers : v # w => state'[v] = state[v] /\ idle'[v] = idle[v]
    BY <1>f, <1>t
  <2> QED BY <1>f, <2>1, ReauthAssumption DEF ReauthInv
<1>u. ASSUME UninitializePam(w)
      PROVE  UNCHANGED state \/ state' = [state EXCEPT ![w] = NONE]
  BY <1>u DEF UninitializePam, SetState
<1>s. 0..7 \subseteq Stages
  BY DEF Stages
<1>1. CASE \/ Start(w) \/ HandleStartReauthentication(w) \/ ProcessPamMessage(w) \/ QueryAnswered(w)
           \/ PeerStep(w)
           \/ \E c \in Callers : ReauthenticationComplete(w, c) \/ ReauthenticationClientGone(w, c)
  <2>1. UNCHANGED <<state, idle, child>>
    BY <1>1 DEF Start, HandleStartReauthentication, ProcessPamMessage, QueryAnswered,
                PeerStep, PeerCalls, PeerReads, PeerCloses, PeerSendsSigterm,
                ReauthenticationComplete, ReauthenticationClientGone
  <2> QED BY <1>f, <1>t, <2>1
<1>2. ASSUME NEW m \in Methods, HandleStage(w, m) PROVE ReauthInv'
  <2>1. UNCHANGED <<state, child>>
    BY <1>2 DEF HandleStage, Receive
  <2>2. Target(m) # SESSION_STARTED
    BY <1>2 DEF HandleStage, Target, Methods
  <2>3. \/ UNCHANGED idle
        \/ state[w] # SESSION_OPENED /\ idle' = [idle EXCEPT ![w] = TRUE]
    BY <1>2, <2>2 DEF HandleStage, ValidStateChange, QueueStateChange
  <2> QED BY <1>f, <1>t, <2>1, <2>3
<1>3. CASE HandleInitialize(w)
  <2>1. UNCHANGED <<state, child>>
    BY <1>3 DEF HandleInitialize, Receive
  <2>2. Target("Initialize") = SETUP_COMPLETE
    BY DEF Target
  <2>3. \/ UNCHANGED <<pending, idle, profileVars>> \/ UNCHANGED idle
        \/ ValidStateChange(w, "Initialize") /\ QueueStateChange(w)
    BY <1>3 DEF HandleInitialize
  <2>4. ValidStateChange(w, "Initialize") => state[w] # SESSION_OPENED
    BY <2>2 DEF ValidStateChange
  <2> QED BY <1>f, <1>t, <2>1, <2>3, <2>4 DEF QueueStateChange
<1>4. CASE HandleStartProgram(w)
  <2>1. UNCHANGED <<state, child>>
    BY <1>4 DEF HandleStartProgram, Receive
  <2>2. \/ UNCHANGED <<pending, idle>>
        \/ w \notin ReauthWorkers /\ idle' = [idle EXCEPT ![w] = TRUE]
    BY <1>4 DEF HandleStartProgram, QueueStateChange
  <2> QED BY <1>f, <1>t, <2>1, <2>2
<1>5. CASE BeginAuthenticate(w) \/ BeginAuthorize(w)
  <2>1. UNCHANGED <<state, child>> /\ idle' = [idle EXCEPT ![w] = FALSE]
    BY <1>5 DEF BeginAuthenticate, BeginAuthorize, EnterPam, IdleFires
  <2> QED BY <1>f, <1>t, <2>1
<1>6. CASE DoSetup(w) \/ DoAccredit(w) \/ DoOpenSession(w)
  <2>1. UNCHANGED child /\ idle' = [idle EXCEPT ![w] = FALSE]
    BY <1>6 DEF DoSetup, DoAccredit, DoOpenSession, IdleFires
  <2>2. UNCHANGED state \/ \E s \in {NONE, SETUP_COMPLETE, ACCREDITED, SESSION_OPENED} :
                              state' = [state EXCEPT ![w] = s]
    BY <1>6, <1>u DEF DoSetup, DoAccredit, DoOpenSession, StageFails, SetState
  <2>3. Safe(w, state'[w], idle'[w])
    BY <1>t, <2>1, <2>2
  <2>4. UNCHANGED state \/ \E s \in Stages : state' = [state EXCEPT ![w] = s]
    BY <1>s, <2>2
  <2> QED BY <1>f, <2>1, <2>3, <2>4
<1>7. CASE FinishAuthenticate(w) \/ FinishAuthorize(w)
  <2>1. UNCHANGED <<child, idle>>
    BY <1>7 DEF FinishAuthenticate, FinishAuthorize, PamReturns
  <2>2. UNCHANGED state \/ \E s \in {NONE, AUTHENTICATED, AUTHORIZED} : state' = [state EXCEPT ![w] = s]
    BY <1>7, <1>u DEF FinishAuthenticate, FinishAuthorize, StageFails, SetState
  <2> QED BY <1>f, <1>s, <1>t, <2>1, <2>2
<1>8. CASE DoSaveAccountDetailsWhenReady(w)
  <2>1. /\ UNCHANGED child /\ state[w] = ACCREDITED
        /\ UNCHANGED state \/ state' = [state EXCEPT ![w] = ACCOUNT_DETAILS_SAVED]
        /\ \E i \in BOOLEAN : idle' = [idle EXCEPT ![w] = i]
    BY <1>8 DEF DoSaveAccountDetailsWhenReady, SaveAccountDetails, SetState, QueueStateChange
  <2>2. Safe(w, state'[w], idle'[w])
    BY <1>t, <2>1
  <2>3. UNCHANGED state \/ \E s \in Stages : state' = [state EXCEPT ![w] = s]
    BY <1>s, <2>1
  <2> QED BY <1>f, <2>1, <2>2, <2>3
<1>9. CASE SettingsLoaded(w)
  <2>1. /\ UNCHANGED child
        /\ \/ UNCHANGED <<state, idle>>
           \/ /\ state[w] \in {NONE, ACCREDITED}
              /\ idle' = [idle EXCEPT ![w] = TRUE]
              /\ UNCHANGED state \/ state' = [state EXCEPT ![w] = ACCOUNT_DETAILS_SAVED]
    BY <1>9 DEF SettingsLoaded, SetState, QueueStateChange
  <2>2. Safe(w, state'[w], idle'[w])
    BY <1>t, <2>1
  <2>3. UNCHANGED state \/ \E s \in Stages : state' = [state EXCEPT ![w] = s]
    BY <1>s, <2>1
  <2> QED BY <1>f, <2>1, <2>2, <2>3
<1>10. CASE DoStartSession(w)
  <2>1. w \notin ReauthWorkers
    BY <1>10, <1>t DEF DoStartSession, IdleFires
  <2>2. \A v \in Workers : v # w => state'[v] = state[v] /\ idle'[v] = idle[v] /\ child'[v] = child[v]
    BY <1>10, <1>t, <1>u DEF DoStartSession, IdleFires, StageFails, SetState
  <2> QED BY <2>1, <2>2, ReauthAssumption DEF ReauthInv
<1>11. CASE StateChangeAborts(w) \/ SigtermExits(w) \/ Crash(w)
  <2>1. UNCHANGED <<state, child>> /\ idle' = [idle EXCEPT ![w] = FALSE]
    BY <1>11 DEF StateChangeAborts, SigtermExits, Crash, Ends
  <2> QED BY <1>f, <1>t, <2>1
<1>12. CASE ChildExits(w) \/ ChildWatch(w) \/ Finalize(w)
  <2>1. /\ UNCHANGED idle \/ idle' = [idle EXCEPT ![w] = FALSE]
        /\ UNCHANGED state \/ state' = [state EXCEPT ![w] = NONE]
        /\ \/ child' = [child EXCEPT ![w] = "none"]
           \/ child[w] = "running" /\ child' = [child EXCEPT ![w] = "zombie"]
    BY <1>12, <1>u DEF ChildExits, ChildWatch, Finalize, Ends
  <2>2. \A v \in Workers : v # w => state'[v] = state[v] /\ child'[v] = child[v] /\ idle'[v] = idle[v]
    BY <1>t, <2>1
  <2>3. /\ w \in ReauthWorkers => child'[w] = "none" /\ (state'[w] = state[w] \/ state'[w] = NONE)
        /\ idle'[w] = idle[w] \/ idle'[w] = FALSE
    BY <1>t, <2>1
  <2> QED BY <1>t, <2>1, <2>2, <2>3, ReauthAssumption DEF ReauthInv
<1> QED BY <1>1, <1>2, <1>3, <1>4, <1>5, <1>6, <1>7, <1>8, <1>9, <1>10, <1>11, <1>12 DEF WorkerStep

(* A reauthentication never starts a session, whatever its peer asks for   *)
(* and though PAM's verdicts are overridden for it.                        *)
THEOREM ReauthIsHarmless == Spec => []ReauthNeverStarts
<1>1. WorkerInit => ReauthInv
  BY ReauthAssumption DEF WorkerInit, ReauthInv, NONE, SESSION_OPENED, SESSION_STARTED
<1>2. TypeOK /\ ReauthInv /\ [Next]_workerVars => ReauthInv'
  <2>1. ASSUME TypeOK, ReauthInv, Next PROVE ReauthInv'
    BY <2>1, ReauthInductive DEF Next
  <2>2. ASSUME ReauthInv, UNCHANGED workerVars PROVE ReauthInv'
    BY <2>2 DEF workerVars, pamVars, procVars, ReauthInv
  <2> QED BY <2>1, <2>2
<1>3. ReauthInv => ReauthNeverStarts
  BY DEF ReauthInv, ReauthNeverStarts
<1> QED BY <1>1, <1>2, <1>3, TypeCorrect, PTL DEF Spec
=============================================================================
