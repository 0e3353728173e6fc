----------------------------- MODULE RateLimiter -----------------------------
(***************************************************************************)
(* The fixed-window limiter of rate_limit.rs under concurrent callers.     *)
(*                                                                         *)
(* RateLimiter::allow reads the clock BEFORE it takes the lock on the      *)
(* client map, so a caller that waits for the lock decides with a stamp    *)
(* older than the window it finds.  A call is therefore two steps: Stamp   *)
(* (Instant::now) and one locked section, split below into the rejecting   *)
(* and the allowing outcome.  Each call keeps a record of its decision;    *)
(* the records are history, no step reads another call's record.           *)
(*                                                                         *)
(* A definition whose name starts with Faulty is a broken variant of the   *)
(* definition that follows it.  No action uses one: they are the bugs the  *)
(* properties at the end of the module are there to catch.                 *)
(***************************************************************************)
EXTENDS Naturals, FiniteSets

CONSTANTS
    Calls,        \* the calls of allow() a behaviour makes
    Clients,      \* the client ids (the gateway passes request_id)
    MaxRequests,  \* RateLimiter.max_requests
    Window,       \* RateLimiter.window, in ticks of the clock
    MaxDelay,     \* most ticks between a call's stamp and its locked section
    MaxTime,      \* bound: the clock stops here
    NoEntry       \* the client has no entry in the map

ASSUME LimitsAssumption ==       \* RateLimiter::new builds no other limiter
    /\ MaxRequests \in Nat \ {0}
    /\ Window \in Nat \ {0}

ASSUME BoundsAssumption ==
    /\ MaxDelay \in Nat
    /\ MaxTime \in Nat
    /\ IsFiniteSet(Calls)
    /\ NoEntry \notin [started : Nat, requests : Nat]

VARIABLES
    now,      \* the monotonic clock
    clients,  \* RateLimiter.clients
    call      \* call[c]: its program counter, inputs and decision

vars == <<now, clients, call>>

Entry == [started : Nat, requests : Nat]

\* A call of allow(): `window` is the start of the window that decided it,
\* `at` the time of its locked section.
Call == [pc : {"idle", "stamped", "allowed", "rejected"},
         client : Clients, stamp : Nat, at : Nat, window : Nat]

Decided(c) == call[c].pc \in {"allowed", "rejected"}

Init ==
    /\ now = 0
    /\ clients = [k \in Clients |-> NoEntry]
    /\ call \in [Calls -> {[pc |-> "idle", client |-> k, stamp |-> 0,
                            at |-> 0, window |-> 0] : k \in Clients}]

-----------------------------------------------------------------------------
\* let now = Instant::now()
Stamp(c) ==
    /\ call[c].pc = "idle"
    /\ call' = [call EXCEPT ![c].pc = "stamped", ![c].stamp = now]
    /\ UNCHANGED <<now, clients>>

\* The stamp is subtracted without saturating: an old stamp wraps around.
FaultyCurrentEntryWraps(k, stamp) ==
    LET fresh == [started |-> stamp, requests |-> 0]
        entry == clients[k]
    IN  IF entry = NoEntry THEN fresh
        ELSE IF stamp < entry.started \/ stamp - entry.started >= Window
             THEN fresh ELSE entry

\* A window that restarts keeps the count of the one before.
FaultyCurrentEntryKeepsCount(k, stamp) ==
    LET entry == clients[k]
    IN  IF entry = NoEntry THEN [started |-> stamp, requests |-> 0]
        ELSE IF stamp >= entry.started + Window
             THEN [entry EXCEPT !.started = stamp] ELSE entry

\* Any later stamp restarts the window.
FaultyCurrentEntryExpiresEarly(k, stamp) ==
    LET fresh == [started |-> stamp, requests |-> 0]
        entry == clients[k]
    IN  IF entry = NoEntry \/ stamp > entry.started THEN fresh ELSE entry

\* The entry the decision is taken on: a missing one starts at this stamp,
\* and one whose window has expired at this stamp restarts there.
\* Instant::duration_since saturates: a stamp older than the start is no
\* time at all after it.
CurrentEntry(k, stamp) ==
    LET fresh == [started |-> stamp, requests |-> 0]
        entry == clients[k]
    IN  IF entry = NoEntry THEN fresh
        ELSE IF stamp >= entry.started /\ stamp - entry.started >= Window
             THEN fresh ELSE entry

\* if entry.requests >= self.max_requests { return false; }
Reject(c) ==
    LET k == call[c].client
        entry == CurrentEntry(k, call[c].stamp)
    IN  /\ call[c].pc = "stamped"
        /\ entry.requests >= MaxRequests
        /\ clients' = [clients EXCEPT ![k] = entry]
        /\ call' = [call EXCEPT ![c].pc = "rejected", ![c].at = now,
                                ![c].window = entry.started]
        /\ UNCHANGED now

\* The quota is compared with > instead of >=.
FaultyAllowOneTooMany(c) ==
    LET k == call[c].client
        entry == CurrentEntry(k, call[c].stamp)
    IN  /\ call[c].pc = "stamped"
        /\ entry.requests <= MaxRequests
        /\ clients' = [clients EXCEPT ![k] =
                          [entry EXCEPT !.requests = entry.requests + 1]]
        /\ call' = [call EXCEPT ![c].pc = "allowed", ![c].at = now,
                                ![c].window = entry.started]
        /\ UNCHANGED now

\* The count goes down, as if it were the quota that is left.
FaultyAllowCountsDown(c) ==
    LET k == call[c].client
        entry == CurrentEntry(k, call[c].stamp)
    IN  /\ call[c].pc = "stamped"
        /\ entry.requests < MaxRequests
        /\ clients' = [clients EXCEPT ![k] =
                          [entry EXCEPT !.requests = entry.requests - 1]]
        /\ call' = [call EXCEPT ![c].pc = "allowed", ![c].at = now,
                                ![c].window = entry.started]
        /\ UNCHANGED now

\* entry.requests += 1; true
Allow(c) ==
    LET k == call[c].client
        entry == CurrentEntry(k, call[c].stamp)
    IN  /\ call[c].pc = "stamped"
        /\ entry.requests < MaxRequests
        /\ clients' = [clients EXCEPT ![k] =
                          [entry EXCEPT !.requests = entry.requests + 1]]
        /\ call' = [call EXCEPT ![c].pc = "allowed", ![c].at = now,
                                ![c].window = entry.started]
        /\ UNCHANGED now

\* Time passes, but no caller waits for the lock longer than MaxDelay.
Tick ==
    /\ now < MaxTime
    /\ \A c \in Calls : call[c].pc = "stamped" => now - call[c].stamp < MaxDelay
    /\ now' = now + 1
    /\ UNCHANGED <<clients, call>>

Next == Tick \/ \E c \in Calls : Stamp(c) \/ Reject(c) \/ Allow(c)

Spec == Init /\ [][Next]_vars

-----------------------------------------------------------------------------
AllowedIn(k, s) ==
    {c \in Calls : /\ call[c].pc = "allowed"
                   /\ call[c].client = k
                   /\ call[c].window = s}

\* Every variable has its type.
TypeOK ==
    /\ now \in Nat
    /\ clients \in [Clients -> Entry \cup {NoEntry}]
    /\ call \in [Calls -> Call]

\* No window of a client lets more than max_requests calls through, however
\* the stamps of waiting callers interleave with the locked sections.
QuotaPerWindow ==
    \A k \in Clients : \A c \in Calls :
        Cardinality(AllowedIn(k, call[c].window)) <= MaxRequests

\* Two windows of one client never overlap: their starts are at least a
\* window apart, so a late caller with an old stamp cannot reopen a window.
WindowsAreDisjoint ==
    \A c, d \in Calls :
        (Decided(c) /\ Decided(d) /\ call[c].client = call[d].client) =>
            \/ call[c].window = call[d].window
            \/ call[c].window >= call[d].window + Window
            \/ call[d].window >= call[c].window + Window

\* A call is rejected only when its own client used up the whole quota of a
\* window that had not expired at the call's stamp.
RejectionsAreEarned ==
    \A c \in Calls : call[c].pc = "rejected" =>
        /\ call[c].stamp < call[c].window + Window
        /\ Cardinality(AllowedIn(call[c].client, call[c].window)) = MaxRequests

\* What the limiter promises in real time.  A fixed window lets two quotas
\* through back to back, and each further window that waiting callers
\* stamped in the past can open adds another one.
BurstBound ==
    \A k \in Clients, t \in 0..MaxTime :
        Cardinality({c \in Calls : /\ call[c].pc = "allowed"
                                   /\ call[c].client = k
                                   /\ call[c].at \in t..(t + Window - 1)})
            <= MaxRequests * (1 + (2 * Window - 2 + MaxDelay) \div Window)

\* No step moves the start of a client's window back, restarts a window
\* before it has expired, or lowers the count of a window it keeps: what a
\* late caller with an old stamp could do if the subtraction wrapped.
AdvanceOnly ==
    \A k \in Clients : clients[k] # NoEntry =>
        /\ clients'[k] # NoEntry
        /\ \/ clients'[k].started >= clients[k].started + Window
           \/ /\ clients'[k].started = clients[k].started
              /\ clients'[k].requests >= clients[k].requests

WindowOnlyAdvances == [][AdvanceOnly]_vars
=============================================================================
