------------------------------- MODULE Session -------------------------------
(***************************************************************************)
(* The conversations of a ScdmSession (daemon/scdm-session.c): a table     *)
(* from PAM service names to conversations, each with a worker process.    *)
(* The session is one value, and its operations are functions from         *)
(* sessions to sessions; what they do to the workers (calls, SIGTERM, the  *)
(* connections closed) follows from the difference, see Login.             *)
(***************************************************************************)
EXTENDS Naturals, Sequences, FiniteSets

CONSTANTS Services, Workers

NoEntry   == "no entry"     \* the service has no entry in the table
NullEntry == "NULL"         \* its entry is a NULL pointer

(* ScdmSessionConversation.  starting: is there a BeginVerification        *)
(* invocation to answer, and does it name a user?  query: is a query of    *)
(* the worker waiting for the client's answer?                             *)
Conversation ==
    [service  : Services,
     proxy    : BOOLEAN,
     stopping : BOOLEAN,
     starting : {"no", "anyone", "user"},
     query    : BOOLEAN]

(* A conversation not allocated yet, or freed.                             *)
Freed == [service |-> NoEntry, proxy |-> FALSE, stopping |-> FALSE,
          starting |-> "no", query |-> FALSE]

(* session_conversation is a pointer: it may outlive its conversation.     *)
SessionType ==
    [table : [Services -> Workers \cup {NoEntry, NullEntry}],
     conv  : [Workers -> Conversation \cup {Freed}],
     session_conversation : Workers \cup {NoEntry},
     running : BOOLEAN,      \* session_pid > 0
     up      : BOOLEAN]      \* no NULL conversation was dereferenced

NewSession ==
    [table |-> [s \in Services |-> NoEntry],
     conv  |-> [w \in Workers |-> Freed],
     session_conversation |-> NoEntry,
     running |-> FALSE,
     up |-> TRUE]

Live(S, w)    == S.conv[w] # Freed
Found(S, s)   == S.table[s] \in Workers
HasNull(S)    == \E s \in Services : S.table[s] = NullEntry

(* start_conversation and the insertion into the table, which frees the    *)
(* conversation it replaces.  The caller has seen that this one is         *)
(* stopping.  w is the spawned process, or NullEntry if there is none.     *)
StartConversation(S, s, w) ==
    LET old == S.table[s]
    IN [S EXCEPT
          !.table[s] = w,
          !.conv = [x \in Workers |->
                      IF x = w THEN [service |-> s, proxy |-> FALSE, stopping |-> FALSE,
                                     starting |-> "no", query |-> FALSE]
                      ELSE IF x = old THEN Freed ELSE @[x]],
          !.up = @ /\ old # NullEntry]

(* scdm_session_start_conversation refuses a service that converses.       *)
CanStart(S, s) == Found(S, s) => S.conv[S.table[s]].stopping

(* stop_conversation: asynchronous, the entry stays until the process ends *)
Stop(S, w) == [S EXCEPT !.conv[w].stopping = TRUE]

(* Mutant: only the conversations that have no worker yet are stopped.     *)
StopOthersUnregistered(S, keep) ==
    [S EXCEPT
       !.conv = [w \in Workers |->
                   IF w = keep \/ ~Live(S, w) \/ S.conv[w].proxy THEN @[w]
                   ELSE [@[w] EXCEPT !.stopping = TRUE]],
       !.up = @ /\ ~HasNull(S)]

(* stop_all_other_conversations (..., FALSE)                               *)
StopOthers(S, keep) ==
    [S EXCEPT
       !.conv = [w \in Workers |->
                   IF w = keep \/ ~Live(S, w) THEN @[w] ELSE [@[w] EXCEPT !.stopping = TRUE]],
       !.up = @ /\ ~HasNull(S)]

(* Mutant: the pointer to the session's conversation survives.             *)
DoResetKeepsPointer(S) ==
    [NewSession EXCEPT !.up = S.up /\ ~HasNull(S),
                       !.session_conversation = S.session_conversation]

(* do_reset: every conversation is stopped at once and freed.              *)
DoReset(S) ==
    [NewSession EXCEPT !.up = S.up /\ ~HasNull(S)]

(* register_worker                                                         *)
Register(S, w) == [S EXCEPT !.conv[w].proxy = TRUE]

(* Mutant: the entry is left in the table.                                 *)
RemoveKeepsEntry(S, w) ==
    [S EXCEPT !.conv[w] = Freed,
              !.session_conversation = IF @ = w THEN NoEntry ELSE @]

(* worker_exited and worker_died, after the handlers of their signals.     *)
Remove(S, w) ==
    [S EXCEPT !.table = [s \in Services |-> IF @[s] = w THEN NoEntry ELSE @[s]],
              !.conv[w] = Freed,
              !.session_conversation = IF @ = w THEN NoEntry ELSE @]
=============================================================================
