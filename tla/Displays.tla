------------------------------- MODULE Displays -------------------------------
(***************************************************************************)
(* The local displays of the daemon: the factory that gives every seat a   *)
(* login screen (daemon/scdm-local-display-factory.c), the displays it     *)
(* creates (scdm-display.c, scdm-local-display.c, scdm-legacy-display.c)   *)
(* with their greeters and X servers, the store they are kept in           *)
(* (scdm-display-store.c, scdm-display-factory.c), and what the manager    *)
(* does for them (scdm-manager.c).                                         *)
(*                                                                         *)
(* seat0 has virtual terminals and may run several sessions: its displays  *)
(* are ScdmLocalDisplays, whose session runs its own display server.  The  *)
(* other seats have one ScdmLegacyDisplay each, with an X server and an X  *)
(* display number, which the user session takes over from the greeter.     *)
(*                                                                         *)
(* The status of a display is a GObject property and its handlers run      *)
(* inside the assignment.  The operators of the first part are therefore   *)
(* functions from a world (what the handlers read and write) to the set of *)
(* worlds the call may leave behind; every action is one callback of the   *)
(* main loop.  "notify" is a G_SIGNAL_NO_RECURSE signal: a status that is  *)
(* set by a handler of the same display restarts the emission.             *)
(***************************************************************************)
EXTENDS Integers, Sequences, FiniteSets, Functions

CONSTANTS
    Displays,             \* objects that may exist at a time (bound)
    NoDisplay,            \* NULL
    Seat0,                \* "seat0", always there
    OtherSeats,           \* seats that may come and go
    MaxDisplayFailures,   \* MAX_DISPLAY_FAILURES
    MaxNumber,            \* the largest X display number (bound)
    MaxInputs,            \* VT switches, logins, requests for a display and new seats (bound)
    AutoLogin,            \* is an automatic login configured?
    InitialSetup          \* is the initial setup wanted?

ASSUME DisplaysAssumption ==
    /\ IsFiniteSet(Displays) /\ NoDisplay \notin Displays
    /\ IsFiniteSet(OtherSeats) /\ Seat0 \notin OtherSeats
    /\ MaxDisplayFailures \in Nat /\ MaxNumber \in Nat /\ MaxInputs \in Nat
    /\ AutoLogin \in BOOLEAN /\ InitialSetup \in BOOLEAN

VARIABLES
    disp,      \* the display objects
    idles,     \* the idle sources of the main loop, in the order GLib runs them
    used,      \* factory->used_display_numbers
    fails,     \* factory->num_failures, which counts up to the limit and one more
    autod,     \* manager->automatic_login_display, a weak pointer
    did,       \* manager->did_automatic_login
    active,    \* factory->active_vt; "off": the factory was not started
    timer,     \* is the source of wait_to_finish_timeout_id attached?
    seats,     \* the seats logind lists
    ran,       \* has the initial setup been done on this boot?
    known,     \* does the password database know the greeter's user?
    exists,    \* does the user of the automatic login exist?
    up,        \* has the daemon not dereferenced a NULL display?
    inputs     \* how many of MaxInputs were used

env  == <<active, timer, seats, ran, known, exists, up, inputs>>
vars == <<disp, idles, used, fails, autod, did, env>>

Statuses == {"UNMANAGED", "PREPARED", "MANAGED", "WAITING_TO_FINISH", "FINISHED", "FAILED"}
Ended    == {"FINISHED", "FAILED"}

(* The launch environment of a display.  "ready" is created, "starting"    *)
(* has a conversation, "running" a logind session and a greeter process;   *)
(* "exited" has seen the end of the process and still stops its            *)
(* conversation, "stopped" has no session left, "failed" never had a       *)
(* process.                                                                *)
Envs  == {"none", "ready", "starting", "running", "exited", "stopped", "failed"}
Alive == {"starting", "running"}

(* The user session tied to a display ("scdm-user-session").  "lookup": it *)
(* is not created before AccountsService has loaded the user; "fresh": for *)
(* the greeter to log in with; "auto": an automatic login is under way;    *)
(* "starting": opened, and on_start_user_session is queued; "launched":    *)
(* StartProgram was sent; "running": it has a pid; "dead": its             *)
(* conversation ended without a session.                                   *)
Sessions == {"none", "lookup", "fresh", "auto", "autostart", "starting",
             "launched", "running", "dead"}

Servers == {"none", "starting", "signalled", "up"}

Display ==
    [seat : OtherSeats \cup {Seat0, "none"}, class : {"greeter", "user"},
     initial : BOOLEAN, setup : BOOLEAN, status : Statuses, stored : BOOLEAN,
     registered : BOOLEAN, env : Envs, window : BOOLEAN, sess : Sessions,
     num : -1..MaxNumber, server : Servers, leaked : BOOLEAN]

(* A new object; window: does logind list an open session of its greeter?  *)
(* leaked: does a reference exist that nobody gives back?                  *)
New(seat, initial, num) ==
    [seat |-> seat, class |-> "greeter", initial |-> initial, setup |-> FALSE,
     status |-> "UNMANAGED", stored |-> TRUE, registered |-> FALSE, env |-> "none",
     window |-> FALSE, sess |-> "none", num |-> num, server |-> "none", leaked |-> FALSE]

Unused == [New("none", FALSE, -1) EXCEPT !.stored = FALSE]

Init ==
    /\ disp = [d \in Displays |-> Unused]
    /\ idles = <<>> /\ used = {} /\ fails = 0
    /\ autod = NoDisplay /\ did = FALSE
    /\ active = "off" /\ timer = FALSE
    /\ seats = {} /\ ran = FALSE /\ up = TRUE
    /\ known \in BOOLEAN /\ exists \in {TRUE, ~AutoLogin} /\ inputs = 0

(***************************************************************************)
(* Worlds.                                                                 *)
(***************************************************************************)
World == [disp |-> disp, idles |-> idles, used |-> used, fails |-> fails,
          autod |-> autod, did |-> did]

Becomes(W) ==
    /\ disp' = W.disp /\ idles' = W.idles /\ used' = W.used
    /\ fails' = W.fails /\ autod' = W.autod /\ did' = W.did

Then(Ws, Op(_)) == UNION {Op(W) : W \in Ws}

InStore(W)      == {d \in Displays : W.disp[d].stored}
OnSeat(W, seat) == {d \in InStore(W) : W.disp[d].seat = seat}

(* g_idle_add, for sources that remember their id and are added once.      *)
QueueIdle(W, op, d) ==
    LET entry == [op |-> op, d |-> d]
    IN IF entry \in Range(W.idles) THEN W ELSE [W EXCEPT !.idles = Append(@, entry)]

(* The queue q without the entries E.                                      *)
Without(q, E) ==
    LET first[n \in 0..Len(q)] ==      \* of the first n entries
          IF n = 0 THEN <<>> ELSE IF q[n] \in E THEN first[n - 1] ELSE Append(first[n - 1], q[n])
    IN first[Len(q)]

Unqueued(q, d) == Without(q, {[op |-> "finish", d |-> d]})

(* Mutant: the sources of a display are not removed with it.               *)
RemovedKeepsSources(W, gone) ==
    [W EXCEPT !.disp = [d \in Displays |-> IF d \in gone THEN Unused ELSE @[d]],
              !.autod = IF @ \in gone THEN NoDisplay ELSE @]

(* The last reference is given back, or the store was the only one to      *)
(* know an object that is leaked.  Disposing of the display stops its      *)
(* greeter and its X server and removes its finish source; its user        *)
(* session loses the pointer to it.  A leaked object keeps its greeter.    *)
Removed(W, gone) ==
    LET orphan(d) == W.disp[d].leaked /\ W.disp[d].env \in Alive
        rest(d) == IF orphan(d) THEN [W.disp[d] EXCEPT !.stored = FALSE]
                   ELSE IF W.disp[d].window THEN [Unused EXCEPT !.window = TRUE, !.seat = W.disp[d].seat,
                                                               !.initial = W.disp[d].initial]
                   ELSE Unused
        dangling(e) == e.d \in gone /\ ~orphan(e.d)
        kept == Without(W.idles, {e \in Range(W.idles) : dangling(e) /\ e.op \in {"finish", "ready"}})
        cleaned(e) == IF ~dangling(e) THEN e
                      ELSE [op |-> IF W.disp[e.d].seat = Seat0 THEN "start" ELSE "start elsewhere",
                            d |-> NoDisplay]
    IN [W EXCEPT
          !.disp = [d \in Displays |-> IF d \in gone THEN rest(d) ELSE @[d]],
          !.idles = [i \in DOMAIN kept |-> cleaned(kept[i])],
          !.autod = IF @ \in gone THEN NoDisplay ELSE @]

(* Mutant: the number of displays is the next number.                      *)
NextNumberCounts(U) == Cardinality(U)

(* take_next_display_number: the first hole.                               *)
NextNumber(U) == CHOOSE n \in 0..Cardinality(U) : n \notin U /\ \A m \in 0..(n - 1) : m \in U

(***************************************************************************)
(* The manager's set-up of a display that is PREPARED (seat0) or MANAGED   *)
(* (an X server to connect to).                                            *)
(***************************************************************************)
StartGreeter(W, d) == [W EXCEPT !.disp[d].sess = "fresh", !.disp[d].env = "starting"]

(* Mutant: the display number is reserved again.                           *)
GreeterFinishedReserves(W, d) ==
    QueueIdle([W EXCEPT !.disp[d].status = "FINISHED", !.idles = Unqueued(@, d),
                        !.used = @ \cup {W.disp[d].num}], "purge", NoDisplay)

(* What the status FINISHED does to a display of class "greeter".          *)
GreeterFinished(W, d) ==
    QueueIdle([W EXCEPT !.disp[d].status = "FINISHED",
                        !.idles = Unqueued(@, d),
                        !.used = @ \ {W.disp[d].num}], "purge", NoDisplay)

SeatDidAutologin(W) == W.did \/ W.autod # NoDisplay

(* set_up_session, inside the emission of the status.  A user who must be  *)
(* looked up first leaves the display alone; a greeter's user who does not *)
(* exist makes it FAILED and FINISHED, of which the restarted emission     *)
(* shows the handlers the second.                                          *)
SetUpSession(W, d) ==
    LET greeter == IF known THEN StartGreeter(W, d) ELSE GreeterFinished(W, d)
    IN IF AutoLogin /\ W.disp[d].seat = Seat0 /\ ~SeatDidAutologin(W)
         THEN {[W EXCEPT !.disp[d].sess = "lookup"],
               IF exists THEN [W EXCEPT !.disp[d].sess = "auto"] ELSE greeter}
         ELSE {greeter}

(***************************************************************************)
(* Creating displays.                                                      *)
(***************************************************************************)
(* A new legacy display that cannot be prepared or has no X server is      *)
(* unmanaged and FAILED.  The factory wants to replace it, and finds the   *)
(* seat taken by itself.                                                   *)
NewFailed(W, d) ==
    QueueIdle([W EXCEPT !.disp[d].status = "FAILED",
                        !.fails = IF @ > MaxDisplayFailures THEN @ ELSE @ + 1],
              "purge", NoDisplay)

(* wants_initial_setup: wanted, and not done already on this boot.         *)
WantsInitialSetup == InitialSetup /\ ~ran

(* scdm_server_start and scdm_server_stop; got_sigusr1 looks for servers   *)
(* that are running only.                                                  *)
ServerStarted(W, d) == [W EXCEPT !.disp[d].server = "starting"]

ServerStopped(W, d) ==
    [W EXCEPT !.disp[d].server = "none",
              !.idles = Without(@, {[op |-> "ready", d |-> d]})]

(* scdm_display_manage of a new display: prepare, then start the X server. *)
Manage(W, d) ==
    LET P == [W EXCEPT !.disp[d].env = "ready", !.disp[d].status = "PREPARED",
                       !.disp[d].setup = WantsInitialSetup]
    IN IF W.disp[d].seat = Seat0
         THEN SetUpSession(P, d)
         ELSE {ServerStarted(P, d),
               NewFailed(P, d),
               NewFailed([W EXCEPT !.disp[d].env = "ready"], d)}

FreeSlots(W) == {d \in Displays : W.disp[d] = Unused}

(* A display on a seat, with a number unless it is on seat0.  Empty when a *)
(* bound is met.                                                           *)
NewDisplay(W, seat, initial) ==
    LET n == NextNumber(W.used)
    IN IF seat = Seat0
         THEN UNION {Manage([W EXCEPT !.disp[d] = New(seat, initial, -1)], d) : d \in FreeSlots(W)}
       ELSE IF n > MaxNumber THEN {}
       ELSE UNION {Manage([W EXCEPT !.disp[d] = New(seat, initial, n), !.used = @ \cup {n}], d) :
                     d \in FreeSlots(W)}

(* scdm_get_login_window_session_id: any greeter session of the seat that  *)
(* is not closing, whether or not its display is still there.              *)
LoginWindows(W, seat) == {d \in Displays : W.disp[d].window /\ W.disp[d].seat = seat}

(* Mutant: a display that has ended is switched to.                        *)
ReusableEnded(W, d) == W.disp[d].stored /\ W.disp[d].class = "greeter"

(* The display of a login window, to switch back to.                       *)
Reusable(W, d) ==
    /\ W.disp[d].stored /\ W.disp[d].class = "greeter"
    /\ W.disp[d].status \in {"MANAGED", "WAITING_TO_FINISH"}

(* Mutant: any display takes seat0.                                        *)
SeatTakenByAny(W, seat) == OnSeat(W, seat) # {}

SeatTaken(W, seat) ==
    \E d \in OnSeat(W, seat) : seat = Seat0 => W.disp[d].status = "PREPARED"

CreateDisplay(W, seat, initial) ==
    IF SeatTaken(W, seat) THEN {W}
    ELSE LET ws == LoginWindows(W, seat)
             found(d) == IF Reusable(W, d) THEN {[W EXCEPT !.disp[d].status = "MANAGED"]}
                         ELSE NewDisplay(W, seat, initial)
         IN IF ws = {} THEN NewDisplay(W, seat, initial) ELSE UNION {found(d) : d \in ws}

(* scdm_local_display_factory_sync_seats, in the order of logind's list,   *)
(* which is any: the worlds after some seats, s being the last of them.    *)
SyncSeats(W) ==
    LET all == {Seat0} \cup seats
        after[S \in SUBSET all] ==
          IF S = {} THEN {W}
          ELSE UNION {Then(after[S \ {s}], LAMBDA w : CreateDisplay(w, s, s = Seat0)) : s \in S}
    IN after[all]

(***************************************************************************)
(* Changes of status outside an emission.                                  *)
(***************************************************************************)
(* Mutant: only FINISHED counts as having logged in.                       *)
AutoEndedForgets(W, d, status) ==
    IF d # W.autod THEN W ELSE [W EXCEPT !.autod = NoDisplay, !.did = status = "FINISHED"]

(* The manager's handler: the display of the automatic login has ended; an *)
(* automatic session that never registered is tried again.                 *)
AutoEnded(W, d, status) ==
    IF d # W.autod THEN W
    ELSE [W EXCEPT !.autod = NoDisplay, !.did = status # "FAILED"]

(* scdm_display_unmanage.  FAILED: the factory creates an equivalent       *)
(* display; UNMANAGED: a legacy display stops its X server.                *)
Unmanage(W, d) ==
    LET r == W.disp[d]
        n == IF W.fails > MaxDisplayFailures THEN W.fails ELSE W.fails + 1
        failed == QueueIdle([AutoEnded(W, d, "FAILED") EXCEPT
                               !.disp[d].status = "FAILED", !.fails = n], "purge", NoDisplay)
    IN IF r.registered
         THEN IF r.status = "UNMANAGED" THEN {W}
              ELSE {ServerStopped([AutoEnded(W, d, "UNMANAGED") EXCEPT
                                     !.disp[d].status = "UNMANAGED"], d)}
         ELSE IF r.status = "FAILED" THEN {W}
         ELSE IF n > MaxDisplayFailures THEN {failed}
         ELSE CreateDisplay(failed, r.seat, r.initial)

(* scdm_display_finish.  The display number is free again, and the end of  *)
(* a user session brings a login screen back to the seats that have none.  *)
Finish(W, d) ==
    LET F == GreeterFinished(AutoEnded(W, d, "FINISHED"), d)
    IN IF W.disp[d].status = "FINISHED" THEN {[W EXCEPT !.idles = Unqueued(@, d)]}
       ELSE IF W.disp[d].class = "greeter" THEN {F}
       ELSE SyncSeats([F EXCEPT !.fails = 0])

UnmanageAndFinish(W, d) == Then(Unmanage(W, d), LAMBDA w : Finish(w, d))

(* scdm_display_stop_greeter_session: the display listens no longer.       *)
StopGreeter(W, d) == [W EXCEPT !.disp[d].env = "none"]

(* Mutant: only a display that is MANAGED is finished.                     *)
SelfDestructManaged(W, d) ==
    IF W.disp[d].status # "MANAGED" THEN {W}
    ELSE {QueueIdle(w, "finish", d) : w \in Unmanage(W, d)}

(* self_destruct, at every signal of the end of the greeter.               *)
SelfDestruct(W, d) ==
    Then(IF W.disp[d].status = "MANAGED" THEN Unmanage(W, d) ELSE {W},
         LAMBDA w : IF w.disp[d].status = "FINISHED" THEN {w} ELSE {QueueIdle(w, "finish", d)})

(* Mutant: the greeter is left to the display.                             *)
FinishWaitingGreeterRuns(W) ==
    LET waiting == {d \in InStore(W) : W.disp[d].status = "WAITING_TO_FINISH"}
        after[S \in SUBSET waiting] ==
          IF S = {} THEN {W} ELSE UNION {Then(after[S \ {d}], LAMBDA w : UnmanageAndFinish(w, d)) : d \in S}
    IN after[waiting]

(* finish_waiting_displays_on_seat goes over the store in the order of a   *)
(* hash table.  A display that was never registered is replaced at once,   *)
(* which changes the table, and GLib then ends the iteration.              *)
FinishWaiting(W) ==
    LET waiting == {d \in InStore(W) : W.disp[d].status = "WAITING_TO_FINISH"}
        one(w, d) == IF InStore(w) # InStore(W) \/ w.disp[d].status # "WAITING_TO_FINISH" THEN {w}
                     ELSE UnmanageAndFinish(StopGreeter(w, d), d)
        after[S \in SUBSET waiting] ==
          IF S = {} THEN {W} ELSE UNION {Then(after[S \ {d}], LAMBDA w : one(w, d)) : d \in S}
    IN after[waiting]

(***************************************************************************)
(* The actions.                                                            *)
(***************************************************************************)
(* A callback of the main loop whose effect on the displays is one of Ws.  *)
Callback(Ws) ==
    /\ up
    /\ \E W \in Ws : Becomes(W)
    /\ UNCHANGED env

(* Something a person or the kernel does.                                  *)
Input ==
    /\ inputs < MaxInputs
    /\ inputs' = inputs + 1

InputCallback(Ws) ==
    /\ up /\ Input
    /\ \E W \in Ws : Becomes(W)
    /\ UNCHANGED <<active, timer, seats, ran, known, exists, up>>

(* scdm_local_display_factory_start                                        *)
Start ==
    /\ active = "off" /\ active' = "unknown"
    /\ \E W \in SyncSeats(World) : Becomes(W)
    /\ UNCHANGED <<timer, seats, ran, known, exists, up, inputs>>

SeatNew(s) ==
    /\ up /\ active # "off" /\ s \in OtherSeats \ seats /\ Input
    /\ seats' = seats \cup {s}
    /\ \E W \in CreateDisplay(World, s, FALSE) : Becomes(W)
    /\ UNCHANGED <<active, timer, ran, known, exists, up>>

(* The displays of the seat leave the store as they are; their numbers     *)
(* stay reserved.                                                          *)
SeatRemoved(s) ==
    /\ up /\ s \in seats
    /\ seats' = seats \ {s}
    /\ Becomes(Removed(World, OnSeat(World, s)))
    /\ UNCHANGED <<active, timer, ran, known, exists, up, inputs>>

(* goto_login_session: a user of seat0 wants to switch, and no login       *)
(* window could be activated.                                              *)
GotoLoginSession ==
    \E u \in OnSeat(World, Seat0) : disp[u].class = "user" /\ disp[u].sess = "running"

CreateTransientDisplay ==
    /\ GotoLoginSession
    /\ InputCallback(NewDisplay(World, Seat0, TRUE))

(* The X server of a legacy display sends SIGUSR1 when it is ready; a      *)
(* thread turns that into an idle source.                                  *)
ServerSignals(d) ==
    /\ disp[d].server = "starting"
    /\ Callback({QueueIdle([World EXCEPT !.disp[d].server = "signalled"], "ready", d)})

(* server_child_watch: the X server exits or dies.                         *)
ServerEnds(d) ==
    /\ disp[d].server # "none"
    /\ Callback({ServerStopped(w, d) : w \in Unmanage(World, d)})

(* The greeter's conversation opened its logind session and then started   *)
(* the greeter process; between the two the display is PREPARED or MANAGED *)
(* as before, and nobody looks at the window of such a display.            *)
GreeterStarted(d) ==
    /\ disp[d].env = "starting"
    /\ Callback({[World EXCEPT !.disp[d].env = "running", !.disp[d].window = TRUE]})

(* The conversation ends before there is a process: no signal is emitted.  *)
GreeterNeverStarts(d) ==
    /\ disp[d].env = "starting"
    /\ Callback({[World EXCEPT !.disp[d].env = "failed", !.disp[d].window = opened] :
                    opened \in BOOLEAN})

(* "exited" or "died"; the conversation is told to stop.                   *)
GreeterExits(d) ==
    /\ disp[d].env = "running"
    /\ Callback(SelfDestruct([World EXCEPT !.disp[d].env = "exited"], d))

(* on_conversation_stopped with a pid: "stopped", after "exited" or alone. *)
GreeterStopped(d) ==
    /\ disp[d].env \in {"running", "exited"}
    /\ Callback(SelfDestruct([World EXCEPT !.disp[d].env = "stopped"], d))

(* logind: the session of a greeter that has ended is closing.             *)
WindowCloses(d) ==
    /\ disp[d].window /\ disp[d].env # "running"
    /\ Callback({[World EXCEPT !.disp[d] = IF disp[d].stored \/ disp[d].leaked
                                           THEN [@ EXCEPT !.window = FALSE] ELSE Unused]})

(* The session runner of a display of seat0 calls RegisterDisplay once.    *)
RegisterDisplay(d) ==
    /\ disp[d].stored /\ disp[d].seat = Seat0
    /\ \/ disp[d].class = "greeter" /\ disp[d].env = "running" /\ disp[d].status = "PREPARED"
       \/ disp[d].sess \in {"launched", "running"} /\ disp[d].status = "UNMANAGED"
    /\ Callback({[World EXCEPT !.disp[d].status = "MANAGED"]})

(* RegisterSession, by a session that has come up: the login screens that  *)
(* wait in the background are finished.                                    *)
RegisterSession(d) ==
    /\ disp[d].stored /\ ~disp[d].registered
    /\ disp[d].status \in {"MANAGED", "WAITING_TO_FINISH"}
    /\ disp[d].env = "running" \/ disp[d].sess \in {"launched", "running"}
    /\ Callback(FinishWaiting([World EXCEPT !.disp[d].registered = TRUE]))

(* A user is authenticated and the session opened, with the go-ahead of    *)
(* the greeter, who may be gone by now.                                    *)
UserSessionOpened(d) ==
    /\ disp[d].stored /\ disp[d].sess = "fresh"
    /\ disp[d].env \in {"running", "exited", "stopped"}
    /\ InputCallback({QueueIdle([World EXCEPT !.disp[d].sess = "starting"], "start", d)})

AutomaticLoginOpened(d) ==
    /\ disp[d].sess = "auto"
    /\ Callback({QueueIdle([World EXCEPT !.disp[d].sess = "autostart"], "start", d)})

(* Nothing is done about an automatic login that fails.                    *)
AutomaticLoginFails(d) ==
    /\ disp[d].sess = "auto"
    /\ Callback({[World EXCEPT !.disp[d].sess = "dead"]})

(* on_user_is_loaded_changed: the user exists or not.                      *)
UserLoaded(d) ==
    LET W == [World EXCEPT !.disp[d].sess = "none"]
    IN /\ disp[d].sess = "lookup"
       /\ Callback(IF exists THEN {[W EXCEPT !.disp[d].sess = "auto"]}
                   ELSE IF known THEN {StartGreeter(W, d)} ELSE UnmanageAndFinish(W, d))

SessionStarted(d) ==
    /\ disp[d].sess = "launched"
    /\ Callback({[World EXCEPT !.disp[d].sess = "running"]})

(* remove_user_session: the session failed to start, exited or died.       *)
UserSessionEnds(d) ==
    /\ disp[d].sess \in {"launched", "running"}
    /\ Callback(UnmanageAndFinish([World EXCEPT !.disp[d].sess = "none"], d))

(* The first of the idle sources, and the world without it.                *)
IdleIs(op) == idles # <<>> /\ Head(idles).op = op
IdleDone   == [World EXCEPT !.idles = Tail(@)]

FinishIdle ==
    /\ IdleIs("finish")
    /\ Callback(Finish(IdleDone, Head(idles).d))

(* purge_displays returns nothing where GLib reads whether to keep the     *)
(* source.  One that is kept finds nothing to remove for which no other    *)
(* purge is queued, so the model lets it go.                               *)
PurgeIdle ==
    /\ IdleIs("purge")
    /\ Callback({Removed(IdleDone, {d \in InStore(World) : disp[d].status \in Ended})})

(* scdm_display_connect: the display becomes MANAGED.                      *)
Connected(W, d) == SetUpSession([W EXCEPT !.disp[d].status = "MANAGED"], d)

(* got_sigusr1 and on_server_ready: connected to the X server, or not.     *)
ReadyIdle ==
    LET d == Head(idles).d
        W == [IdleDone EXCEPT !.disp[d].server = "up"]
    IN /\ IdleIs("ready")
       /\ Callback(Unmanage(W, d) \cup Connected(W, d))

(* Another session that runs on the seat may be the same user's.           *)
MayMigrate(d) ==
    \E e \in Displays \ {d} : disp[e].sess = "running" /\ disp[e].seat = disp[d].seat

(* The session gets a display of its own on seat0.                         *)
WithUserDisplay(W, auto) ==
    LET r == [New(Seat0, FALSE, -1) EXCEPT !.class = "user", !.sess = "launched"]
    IN {[W EXCEPT !.disp[u] = r, !.autod = IF auto THEN u ELSE @] : u \in FreeSlots(W)}

(* on_start_user_session for the session of a display: jump to a session   *)
(* of the same user; or turn the greeter's display into the user's; or     *)
(* leave it to the greeter and give the session a new one.  The reference  *)
(* taken on the greeter's display is given back after an automatic login   *)
(* only, which also takes the display out of the store.                    *)
StartIdle ==
    LET d == Head(idles).d
        auto == disp[d].sess = "autostart"
        W == IdleDone
        reset == [W EXCEPT !.disp[d].sess = IF auto THEN "dead" ELSE "fresh"]
        reuse == [StopGreeter(W, d) EXCEPT !.disp[d].class = "user", !.disp[d].sess = "launched"]
        untied == [W EXCEPT !.disp[d].sess = "fresh", !.disp[d].leaked = TRUE,
                            !.disp[d].status = IF disp[d].setup THEN "WAITING_TO_FINISH" ELSE @]
    IN /\ up /\ IdleIs("start") /\ d # NoDisplay
       /\ \/ MayMigrate(d) /\ Becomes(reset) /\ UNCHANGED ran
          \/ disp[d].seat # Seat0 /\ Becomes(reuse) /\ UNCHANGED ran
          \/ /\ disp[d].seat = Seat0
             /\ \E V \in WithUserDisplay(IF auto THEN W ELSE untied, auto) :
                  Becomes(IF auto THEN Removed(V, {d}) ELSE V)
             /\ ran' = (ran \/ disp[d].setup)
       /\ UNCHANGED <<active, timer, seats, known, exists, up, inputs>>

(* The same when the display of the session has gone.  On seat0 the        *)
(* session still gets its display; elsewhere NULL is dereferenced.         *)
StartIdleNull ==
    /\ IdleIs("start") /\ Head(idles).d = NoDisplay
    /\ Callback(WithUserDisplay(IdleDone, FALSE))

StartIdleCrashes ==
    /\ up /\ IdleIs("start elsewhere")
    /\ up' = FALSE
    /\ UNCHANGED <<disp, idles, used, fails, autod, did, active, timer, seats, ran, known, exists, inputs>>

(* The VT of a display: an initial greeter is on the initial VT, every     *)
(* other session on one of its own.                                        *)
VtOf(d) == IF disp[d].initial /\ disp[d].class = "greeter" THEN "initial" ELSE d
HasTty(d) == disp[d].stored /\ (disp[d].window \/ disp[d].sess \in {"launched", "running"})
Vts == {"initial", "console"} \cup {VtOf(d) : d \in {e \in OnSeat(World, Seat0) : HasTty(e)}}

(* maybe_stop_greeter_in_background                                        *)
Background(W, d) ==
    IF disp[d].stored /\ disp[d].class = "greeter" /\ disp[d].status = "MANAGED" /\ ~disp[d].setup
      THEN [W EXCEPT !.disp[d].status = "WAITING_TO_FINISH"] ELSE W

(* on_vt_changed at start-up: sysfs reports the VT as soon as it is read.  *)
FirstVt(v) ==
    /\ up /\ active = "unknown" /\ v \in {"initial", "console"}
    /\ active' = v
    /\ UNCHANGED <<disp, idles, used, fails, autod, did, timer, seats, ran, known, exists, up, inputs>>

(* on_vt_changed.  login is the login window that logind named, if any.    *)
VtChanged(v) ==
    LET ws == LoginWindows(World, Seat0)
        left(login) == IF login # NoDisplay /\ VtOf(login) = active
                         THEN Background(World, login) ELSE World
        onTty == {d \in OnSeat(World, Seat0) : HasTty(d) /\ VtOf(d) = v}
    IN /\ up /\ active # "unknown" /\ v \in Vts \ {active} /\ Input
       /\ active' = v
       /\ \E login \in IF ws = {} THEN {NoDisplay} ELSE ws :
            /\ \E W \in IF v = "initial" THEN CreateDisplay(left(login), Seat0, TRUE)
                        ELSE {left(login)} : Becomes(W)
            /\ IF (login # NoDisplay /\ VtOf(login) = v) \/ onTty = {} THEN UNCHANGED timer
               ELSE \E d \in onTty : timer' = (timer \/ disp[d].registered)
       /\ UNCHANGED <<seats, ran, known, exists, up>>

WaitToFinishTimeout ==
    /\ up /\ timer /\ timer' = FALSE
    /\ \E W \in FinishWaiting(World) : Becomes(W)
    /\ UNCHANGED <<active, seats, ran, known, exists, up, inputs>>

DisplayStep(d) ==
    \/ ServerSignals(d) \/ ServerEnds(d)
    \/ GreeterStarted(d) \/ GreeterNeverStarts(d)
    \/ GreeterExits(d) \/ GreeterStopped(d) \/ WindowCloses(d)
    \/ RegisterDisplay(d) \/ RegisterSession(d)
    \/ UserSessionOpened(d) \/ AutomaticLoginOpened(d) \/ AutomaticLoginFails(d)
    \/ UserLoaded(d) \/ SessionStarted(d) \/ UserSessionEnds(d)

Next ==
    \/ Start \/ CreateTransientDisplay
    \/ \E s \in OtherSeats : SeatNew(s) \/ SeatRemoved(s)
    \/ \E d \in Displays : DisplayStep(d)
    \/ FinishIdle \/ PurgeIdle \/ ReadyIdle
    \/ StartIdle \/ StartIdleNull \/ StartIdleCrashes
    \/ \E v \in Vts : FirstVt(v) \/ VtChanged(v)
    \/ WaitToFinishTimeout

Spec == Init /\ [][Next]_vars

(* No login starts on a seat without VTs when the display of its greeter   *)
(* has been finished meanwhile.  on_start_user_session does launch such a  *)
(* session, on the finished display, which at its end gives its number     *)
(* back a second time, although another display may have it by then.       *)
Timely ==
    \A d \in Displays :
      disp[d].seat # Seat0 /\ disp[d].status = "FINISHED"
      => disp[d].sess \notin {"starting", "launched", "running"}

TimelySpec == Spec /\ []Timely

(***************************************************************************)
(* Properties.                                                             *)
(***************************************************************************)
(* Every variable has its type.                                            *)
TypeOK ==
    /\ disp \in [Displays -> Display]
    /\ Range(idles) \subseteq [op : {"finish", "purge", "ready", "start", "start elsewhere"},
                               d : Displays \cup {NoDisplay}]
    /\ used \subseteq 0..MaxNumber /\ fails \in 0..(MaxDisplayFailures + 1)
    /\ autod \in Displays \cup {NoDisplay} /\ seats \subseteq OtherSeats
    /\ {did, timer, ran, known, exists, up} \subseteq BOOLEAN
    /\ inputs \in 0..MaxInputs

(* Two X servers of displays that are not finished never have the same     *)
(* display number, however displays fail, seats go and numbers come back,  *)
(* in the behaviours of TimelySpec.                                        *)
NumbersUnique ==
    \A d, e \in Displays :
      /\ d # e /\ disp[d].server # "none" /\ disp[e].server # "none"
      /\ "FINISHED" \notin {disp[d].status, disp[e].status}
      => disp[d].num # disp[e].num

(* No greeter outlives its display: one that runs is run by a display of   *)
(* the store, whichever of VT switches, logins, registrations and failures *)
(* took the displays out.                                                  *)
NoOrphanGreeter == \A d \in Displays : disp[d].env \in Alive => disp[d].stored

(* No idle source refers to a display object that was given back, whatever *)
(* took the display out of the store while the source was queued.          *)
NoDanglingSource ==
    \A e \in Range(idles) : e.d # NoDisplay => disp[e.d].stored \/ disp[e.d].leaked

(* The display of a greeter that has ended is on its way out: it will be   *)
(* finished, or purged.  The exception is the display of an initial setup, *)
(* which on_start_user_session may make WAITING_TO_FINISH after its end,   *)
(* and create_display MANAGED again while logind lists its session.        *)
DeadGreeterLeaves ==
    \A d \in Displays :
      /\ disp[d].stored /\ disp[d].class = "greeter" /\ ~disp[d].setup
      /\ disp[d].env \in {"exited", "stopped"}
      => \/ [op |-> "finish", d |-> d] \in Range(idles)
         \/ disp[d].status \in Ended /\ [op |-> "purge", d |-> NoDisplay] \in Range(idles)

LogsIn(r) == r.sess \in {"lookup", "auto", "autostart"}

(* An automatic session that came up is not followed by another one: its   *)
(* end makes did_automatic_login TRUE, and while no other is under way it  *)
(* stays TRUE and no login begins.  (Two are under way when a display is   *)
(* asked for before the first one's replacement has gone through: the end  *)
(* of the second may take the TRUE of the first back.)                     *)
AutomaticLoginOnce ==
    [][/\ autod # NoDisplay /\ autod' = NoDisplay /\ disp[autod].registered => did'
       /\ did /\ autod = NoDisplay =>
            did' /\ \A d \in Displays : LogsIn(disp'[d]) => LogsIn(disp[d])]_vars

LoginScreen(d, s) ==
    disp[d].stored /\ disp[d].seat = s /\ disp[d].class = "greeter"
    /\ disp[d].status \in {"PREPARED", "MANAGED"}

UserSessionEnded(s) ==
    \E d \in Displays : /\ disp[d].stored /\ disp[d].class = "user" /\ disp[d].seat = s
                        /\ disp[d].status # "FINISHED" /\ disp'[d].status = "FINISHED"

(* When a user session of seat0 has ended, seat0 has a login screen.       *)
LoginScreenReturns ==
    [][UserSessionEnded(Seat0) /\ known => \E g \in Displays : LoginScreen(g, Seat0)']_vars

(* The same for the seats that cannot have several sessions: on_display_   *)
(* status_changed says that the resync "ensures we get a new login screen  *)
(* when the user logs out, if there isn't one".                            *)
EverySeatGetsLoginScreen ==
    [][\A s \in seats : UserSessionEnded(s) => \E g \in Displays : LoginScreen(g, s)']_vars

(* A display that has ended is not used again, with the same exception.    *)
EndedStaysEnded ==
    [][\A d \in Displays : disp[d].stored /\ disp[d].status \in Ended /\ ~disp[d].setup
                             => disp'[d].status \in Ended \/ ~disp'[d].stored]_vars
=============================================================================
