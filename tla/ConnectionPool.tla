---------------------------- MODULE ConnectionPool ----------------------------
(***************************************************************************)
(* A backend's connection pool (backend/postgres.rs, mysql.rs, sqlite.rs): *)
(* `connect` builds it and tries one connection, then any number of calls  *)
(* of execute_select share at most max_connections sessions.               *)
(*                                                                         *)
(* The three backends differ in the statement that after_connect runs (SET *)
(* default_transaction_read_only = on, SET SESSION TRANSACTION READ ONLY,  *)
(* PRAGMA query_only = ON) and in the conversion of the values; the model  *)
(* is all three.  The pool is sqlx's: a session that is idle is taken,     *)
(* else one is opened while there are fewer than max_connections, and a    *)
(* call that gets none before acquire_timeout fails.  A session goes back  *)
(* to the pool in a task of its own.                                       *)
(*                                                                         *)
(* Definitions whose name starts with Faulty are broken variants of the    *)
(* definition that follows them; no action uses one.                       *)
(***************************************************************************)
EXTENDS Naturals

CONSTANTS
    Slots,       \* one per connection that max_connections allows
    Calls,       \* the statements that are run through the pool
    Probe,       \* the acquisition that `connect` makes
    NoSlot,      \* the call has no session
    NoOutcome    \* the call has not come back

ASSUME PoolAssumption ==
    /\ Slots # {}          \* max_connections = 0 is refused
    /\ Probe \notin Calls
    /\ NoSlot \notin Slots
    /\ NoOutcome \notin {"rows", "error", "connected"}

VARIABLES
    session,    \* session[s]: the connection in slot s
    call        \* call[c]: where the acquisition or statement c is

poolVars == <<session, call>>

Users == Calls \cup {Probe}

\* "opening": being connected; "setting": after_connect is running;
\* "returning": dropped by its call, on its way back to the idle queue.
Session == [status : {"closed", "opening", "setting", "held", "returning", "idle"},
            read_only : BOOLEAN]

Closed == [status |-> "closed", read_only |-> FALSE]

Call == [pc : {"new", "waiting", "opening", "holding", "running", "converting", "done"},
         slot : Slots \cup {NoSlot},
         outcome : {"rows", "error", "connected", NoOutcome},
         ran : Nat]

NewCall == [pc |-> "new", slot |-> NoSlot, outcome |-> NoOutcome, ran |-> 0]

PoolInit ==
    /\ session = [s \in Slots |-> Closed]
    /\ call = [c \in Users |-> NewCall]

CallAt(c, pc) == call[c].pc = pc

\* `connect` has returned the backend.
Connected == call[Probe].outcome = "connected"

Finish(c, outcome) ==
    call' = [call EXCEPT ![c].pc = "done", ![c].slot = NoSlot, ![c].outcome = outcome]

-----------------------------------------------------------------------------
(* Getting a connection.                                                   *)

\* A connection is asked for: the first time by `connect`, which no call
\* precedes.
Ask(c) ==
    /\ CallAt(c, "new")
    /\ c = Probe \/ Connected
    /\ call' = [call EXCEPT ![c].pc = "waiting"]
    /\ UNCHANGED session

TakeIdle(c, s) ==
    /\ CallAt(c, "waiting")
    /\ session[s].status = "idle"
    /\ session' = [session EXCEPT ![s].status = "held"]
    /\ call' = [call EXCEPT ![c].pc = "holding", ![c].slot = s]

\* An idle session is closed: it is too old, or a ping finds it dead.
CloseIdle(s) ==
    /\ session[s].status = "idle"
    /\ session' = [session EXCEPT ![s] = Closed]
    /\ UNCHANGED call

\* No session is idle, and one more is allowed.
Open(c, s) ==
    /\ CallAt(c, "waiting")
    /\ \A t \in Slots : session[t].status # "idle"
    /\ session[s].status = "closed"
    /\ session' = [session EXCEPT ![s].status = "opening"]
    /\ call' = [call EXCEPT ![c].pc = "opening", ![c].slot = s]

\* The database takes the connection; or it refuses it for good.  A refusal
\* that may pass is retried within the time, which is no step.
Connect(c) ==
    LET s == call[c].slot
    IN  /\ CallAt(c, "opening")
        /\ session[s].status = "opening"
        /\ \/ /\ session' = [session EXCEPT ![s].status = "setting"]
              /\ UNCHANGED call
           \/ /\ session' = [session EXCEPT ![s] = Closed]
              /\ Finish(c, "error")

\* Only the connection that `connect` itself opens is set read-only.
FaultyAfterConnect(c) ==
    LET s == call[c].slot
    IN  /\ CallAt(c, "opening")
        /\ session[s].status = "setting"
        /\ \/ /\ session' = [session EXCEPT ![s] = [status |-> "held",
                                                    read_only |-> c = Probe]]
              /\ call' = [call EXCEPT ![c].pc = "holding"]
           \/ /\ session' = [session EXCEPT ![s].status = "opening"]
              /\ UNCHANGED call

\* after_connect sets the session read-only; if that fails the connection is
\* thrown away and another one tried.
AfterConnect(c) ==
    LET s == call[c].slot
    IN  /\ CallAt(c, "opening")
        /\ session[s].status = "setting"
        /\ \/ /\ session' = [session EXCEPT ![s] = [status |-> "held", read_only |-> TRUE]]
              /\ call' = [call EXCEPT ![c].pc = "holding"]
           \/ /\ session' = [session EXCEPT ![s].status = "opening"]
              /\ UNCHANGED call

\* The slot of a connection that was being opened is not given back.
FaultyTimeOut(c) ==
    /\ call[c].pc \in {"waiting", "opening"}
    /\ Finish(c, "error")
    /\ UNCHANGED session

\* The timeout covers the wait for a free session only.
FaultyTimeOutOfTheQueue(c) ==
    /\ CallAt(c, "waiting")
    /\ Finish(c, "error")
    /\ UNCHANGED session

\* acquire_timeout is over, whether the call waited for a session or was
\* opening one, which is closed.
TimeOut(c) ==
    /\ call[c].pc \in {"waiting", "opening"}
    /\ session' = [s \in Slots |-> IF s = call[c].slot THEN Closed ELSE session[s]]
    /\ Finish(c, "error")

\* `connect` gives its connection back and returns the backend.
ProbeDone ==
    /\ CallAt(Probe, "holding")
    /\ session' = [session EXCEPT ![call[Probe].slot].status = "idle"]
    /\ Finish(Probe, "connected")

-----------------------------------------------------------------------------
(* Running a statement.                                                    *)

Execute(c) ==
    /\ c \in Calls
    /\ CallAt(c, "holding")
    /\ call' = [call EXCEPT ![c].pc = "running", ![c].ran = @ + 1]
    /\ UNCHANGED session

\* A statement that fails is run once more, on another connection.
FaultyReply(c) ==
    /\ CallAt(c, "running")
    /\ session' = [session EXCEPT ![call[c].slot].status = "returning"]
    /\ \/ call' = [call EXCEPT ![c].pc = "converting", ![c].slot = NoSlot]
       \/ IF call[c].ran = 1
          THEN call' = [call EXCEPT ![c].pc = "waiting", ![c].slot = NoSlot]
          ELSE Finish(c, "error")

\* fetch_all has every row, or an error; either way the call lets go of its
\* session.
Reply(c) ==
    /\ CallAt(c, "running")
    /\ session' = [session EXCEPT ![call[c].slot].status = "returning"]
    /\ \/ call' = [call EXCEPT ![c].pc = "converting", ![c].slot = NoSlot]
       \/ Finish(c, "error")

\* The session is idle again, unless it is found dead or too old.
Return(s) ==
    /\ session[s].status = "returning"
    /\ \/ session' = [session EXCEPT ![s].status = "idle"]
       \/ session' = [session EXCEPT ![s] = Closed]
    /\ UNCHANGED call

\* columns_from_rows and row_to_json, with no session held: one value that the
\* conversion for its column's type does not take makes all of it an error.
Convert(c) ==
    /\ CallAt(c, "converting")
    /\ \E outcome \in {"rows", "error"} : Finish(c, outcome)
    /\ UNCHANGED session

-----------------------------------------------------------------------------
\* The steps of one call that need no other call.
AcquireStep(c) ==
    \/ \E s \in Slots : TakeIdle(c, s) \/ Open(c, s)
    \/ Connect(c)
    \/ AfterConnect(c)
    \/ TimeOut(c)

\* A call goes on by itself except where it waits for the database: to be
\* connected, and for the reply, which no timeout bounds.
PoolFairness ==
    /\ \A c \in Users : WF_poolVars(TimeOut(c))
    /\ \A c \in Calls : WF_poolVars(Convert(c))
    /\ \A s \in Slots : WF_poolVars(Return(s))
    /\ WF_poolVars(ProbeDone)

-----------------------------------------------------------------------------
\* The calls that use the session in a slot.
Holders(s) == {c \in Users : call[c].slot = s}

\* Every variable has its type, and a slot is in use exactly when one call has
\* it: no session is lost when a call fails, times out or ends, and none is
\* shared.
PoolTypeOK ==
    /\ session \in [Slots -> Session]
    /\ call \in [Users -> Call]
    /\ \A s \in Slots :
          IF session[s].status \in {"opening", "setting", "held"}
          THEN \E c \in Users : Holders(s) = {c}
          ELSE Holders(s) = {}

\* Every statement runs in a session that has been set read-only, also when
\* the pool opened it late, or again after a failure.
ReadOnlyBeforeUse ==
    \A c \in Calls : CallAt(c, "running") =>
        /\ session[call[c].slot].status = "held"
        /\ session[call[c].slot].read_only

\* The pool does what BackendContract promises.
Contract == INSTANCE BackendContract WITH
    outcome <- [c \in Calls |-> call[c].outcome],
    ran <- [c \in Calls |-> call[c].ran]

KeepsBackendContract == Contract!BackendSpec

\* A call that asks for a connection comes back, or its own statement has been
\* sent and stays unanswered: others that keep every session, and connections
\* that never come up, only cost it its timeout.
CallsLeaveThePool ==
    \A c \in Users :
        CallAt(c, "waiting") ~> (CallAt(c, "done") \/ []CallAt(c, "running"))
=============================================================================
