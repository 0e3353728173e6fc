------------------------- MODULE SchemaCatalogProofs -------------------------
(***************************************************************************)
(* Proofs about the pool and the schema load for any number of sessions    *)
(* and calls, and any databases.                                           *)
(*                                                                         *)
(* For the pool, the invariant ties each call to its session and back: a   *)
(* step touches one call, one slot, or a call and the slot that it has or  *)
(* takes (CallMoves, SlotMoves, BothMove), so no action needs to be looked *)
(* at for more than these.  For the load, it says that the rows of a query *)
(* that has run are right about every relation that has stayed.            *)
(***************************************************************************)
EXTENDS SchemaCatalog, TLAPS

USE PoolAssumption

InUse == {"opening", "setting", "held"}

WithSlot == {"opening", "holding", "running"}

\* A call's place, as a record k, and the record n of the session it has.
Fits(c, k) ==
    /\ k.slot # NoSlot <=> k.pc \in WithSlot
    /\ k.pc \in {"new", "waiting", "opening", "holding"} => k.ran = 0
    /\ k.pc \in {"running", "converting"} => k.ran = 1 /\ c \in Calls
    /\ k.pc = "done" <=> k.outcome # NoOutcome
    /\ k.outcome = "rows" => k.ran = 1

Serves(k, n) ==
    /\ k.pc = "opening" => n.status \in {"opening", "setting"}
    /\ k.pc \in {"holding", "running"} => n.status = "held"

SetReadOnly(n) == n.status \in {"held", "returning", "idle"} => n.read_only

PoolInv ==
    /\ session \in [Slots -> Session]
    /\ call \in [Users -> Call]
    /\ \A c \in Users : Fits(c, call[c])
    /\ \A c \in Users : call[c].slot # NoSlot => Serves(call[c], session[call[c].slot])
    /\ \A c, d \in Users : call[c].slot = call[d].slot /\ call[c].slot # NoSlot => c = d
    /\ \A s \in Slots : /\ SetReadOnly(session[s])
                        /\ session[s].status \in InUse => \E c \in Users : call[c].slot = s

-----------------------------------------------------------------------------
(* The three ways in which a step touches the pool.                        *)

\* A call that keeps the session it has, or goes on having none.
LEMMA CallMoves ==
    ASSUME PoolInv, NEW c \in Users, NEW k \in Call,
           call' = [call EXCEPT ![c] = k], session' = session,
           k.slot = call[c].slot, Fits(c, k),
           k.slot # NoSlot => Serves(k, session[k.slot])
    PROVE  PoolInv'
<1>1. /\ call' \in [Users -> Call] /\ call'[c] = k
      /\ \A d \in Users \ {c} : call'[d] = call[d]
      /\ \A d \in Users : call'[d].slot = call[d].slot
  BY DEF PoolInv
<1>2. \A d \in Users : Fits(d, call'[d])
  BY <1>1 DEF PoolInv
<1>3. \A d \in Users : call'[d].slot # NoSlot => Serves(call'[d], session[call'[d].slot])
  BY <1>1 DEF PoolInv
<1>4. QED
  BY <1>1, <1>2, <1>3 DEF PoolInv

\* A session that no call has, before or after.
LEMMA SlotMoves ==
    ASSUME PoolInv, NEW s \in Slots, NEW n \in Session,
           session' = [session EXCEPT ![s] = n], call' = call,
           session[s].status \notin InUse, n.status \notin InUse, SetReadOnly(n)
    PROVE  PoolInv'
<1>1. /\ session' \in [Slots -> Session] /\ session'[s] = n
      /\ \A t \in Slots \ {s} : session'[t] = session[t]
  BY DEF PoolInv
<1>2. ASSUME NEW c \in Users, call[c].slot # NoSlot
      PROVE  call[c].slot \in Slots \ {s}
  <2>1. call[c] \in Call /\ Fits(c, call[c]) /\ Serves(call[c], session[call[c].slot])
    BY <1>2 DEF PoolInv
  <2>2. call[c].slot \in Slots /\ call[c].pc \in WithSlot
    BY <1>2, <2>1 DEF Call, Fits
  <2>3. session[call[c].slot].status \in InUse
    BY <2>1, <2>2 DEF Serves, WithSlot, InUse
  <2>4. QED
    BY <2>2, <2>3
<1>3. \A c \in Users : call'[c].slot # NoSlot => Serves(call'[c], session'[call'[c].slot])
  BY <1>1, <1>2 DEF PoolInv
<1>4. \A t \in Slots : /\ SetReadOnly(session'[t])
                       /\ session'[t].status \in InUse => \E c \in Users : call'[c].slot = t
  BY <1>1 DEF PoolInv
<1>5. QED
  BY <1>1, <1>3, <1>4 DEF PoolInv

\* A call together with the session that it has or takes.
LEMMA BothMove ==
    ASSUME PoolInv, NEW c \in Users, NEW s \in Slots, NEW k \in Call, NEW n \in Session,
           call' = [call EXCEPT ![c] = k], session' = [session EXCEPT ![s] = n],
           \/ call[c].slot = s
           \/ call[c].slot = NoSlot /\ session[s].status \notin InUse,
           k.slot = IF n.status \in InUse THEN s ELSE NoSlot,
           Fits(c, k), Serves(k, n), SetReadOnly(n)
    PROVE  PoolInv'
<1>1. /\ call' \in [Users -> Call] /\ call'[c] = k
      /\ \A d \in Users \ {c} : call'[d] = call[d]
      /\ session' \in [Slots -> Session] /\ session'[s] = n
      /\ \A t \in Slots \ {s} : session'[t] = session[t]
  BY DEF PoolInv
<1>2. ASSUME NEW d \in Users \ {c}, call[d].slot # NoSlot
      PROVE  call[d].slot \in Slots \ {s}
  <2>1. call[d] \in Call /\ Fits(d, call[d]) /\ Serves(call[d], session[call[d].slot])
    BY <1>2 DEF PoolInv
  <2>2. call[d].slot \in Slots /\ call[d].pc \in WithSlot
    BY <1>2, <2>1 DEF Call, Fits
  <2>3. session[call[d].slot].status \in InUse
    BY <2>1, <2>2 DEF Serves, WithSlot, InUse
  <2>4. call[c].slot = s => call[d].slot # s
    BY DEF PoolInv
  <2>5. QED
    BY <2>2, <2>3, <2>4
<1>3. \A d \in Users : Fits(d, call'[d])
  BY <1>1 DEF PoolInv
<1>4. \A d \in Users : call'[d].slot # NoSlot => Serves(call'[d], session'[call'[d].slot])
  <2>1. call'[c].slot # NoSlot => Serves(call'[c], session'[call'[c].slot])
    BY <1>1
  <2>2. \A d \in Users \ {c} :
           call'[d].slot # NoSlot => Serves(call'[d], session'[call'[d].slot])
    BY <1>1, <1>2 DEF PoolInv
  <2>3. QED
    BY <2>1, <2>2
<1>5. \A d, e \in Users : call'[d].slot = call'[e].slot /\ call'[d].slot # NoSlot => d = e
  <2>1. \A d \in Users \ {c} : call'[d].slot # NoSlot => call'[d].slot # call'[c].slot
    BY <1>1, <1>2
  <2>2. \A d, e \in Users \ {c} :
           call'[d].slot = call'[e].slot /\ call'[d].slot # NoSlot => d = e
    BY <1>1 DEF PoolInv
  <2>3. QED
    BY <2>1, <2>2
<1>6. ASSUME NEW t \in Slots
      PROVE  /\ SetReadOnly(session'[t])
             /\ session'[t].status \in InUse => \E d \in Users : call'[d].slot = t
  <2>1. CASE t = s
    BY <1>1, <2>1
  <2>2. CASE t # s
    <3>1. session'[t] = session[t]
      BY <1>1, <2>2
    <3>2. ASSUME session[t].status \in InUse PROVE \E d \in Users : call'[d].slot = t
      <4>1. PICK d \in Users : call[d].slot = t
        BY <3>2 DEF PoolInv
      <4>2. d # c
        BY <2>2, <3>2, <4>1
      <4>3. QED
        BY <1>1, <4>1, <4>2
    <3>3. QED
      BY <3>1, <3>2 DEF PoolInv
  <2>3. QED
    BY <2>1, <2>2
<1>7. QED
  BY <1>1, <1>3, <1>4, <1>5, <1>6 DEF PoolInv

\* What a call is, and the session that it has.
LEMMA CallFacts ==
    ASSUME PoolInv, NEW c \in Users
    PROVE  /\ call[c] \in Call /\ Fits(c, call[c])
           /\ call[c].pc \in WithSlot =>
                 /\ call[c].slot \in Slots
                 /\ session[call[c].slot] \in Session
                 /\ Serves(call[c], session[call[c].slot])
  BY DEF PoolInv, Call, Fits

-----------------------------------------------------------------------------
(* The actions of the pool.                                                *)

\* Asking for a connection, and the steps of a statement that leave the
\* sessions alone.
LEMMA AloneSteps ==
    ASSUME PoolInv, NEW c \in Users, Ask(c) \/ Execute(c) \/ (c \in Calls /\ Convert(c))
    PROVE  PoolInv'
<1>1. /\ call[c] \in Call /\ Fits(c, call[c])
      /\ call[c].pc \in WithSlot => Serves(call[c], session[call[c].slot])
      /\ call \in [Users -> Call]
  BY CallFacts DEF PoolInv
<1>2. CASE Ask(c)
  <2> DEFINE k == [call[c] EXCEPT !.pc = "waiting"]
  <2>1. /\ k \in Call /\ call' = [call EXCEPT ![c] = k] /\ session' = session
        /\ call[c].pc = "new"
    BY <1>1, <1>2 DEF Ask, CallAt, Call
  <2>2. k.pc = "waiting" /\ k.slot = call[c].slot /\ k.ran = call[c].ran
        /\ k.outcome = call[c].outcome
    BY <1>1 DEF Call
  <2>3. Fits(c, k) /\ k.slot = NoSlot
    BY <1>1, <2>1, <2>2 DEF Fits, WithSlot
  <2>4. QED
    BY ONLY PoolInv, c \in Users, <2>1, <2>2, <2>3, CallMoves
<1>3. CASE Execute(c)
  <2> DEFINE k == [call[c] EXCEPT !.pc = "running", !.ran = 1]
  <2>1. /\ call' = [call EXCEPT ![c].pc = "running", ![c].ran = @ + 1]
        /\ session' = session /\ call[c].pc = "holding" /\ c \in Calls
    BY <1>3 DEF Execute, CallAt
  <2>2. call[c].ran = 0
    BY <1>1, <2>1 DEF Fits
  <2>3. call' = [call EXCEPT ![c] = k]
    <3>1. call' = [call EXCEPT ![c] = [call[c] EXCEPT !.pc = "running", !.ran = @ + 1]]
      BY <1>1, <2>1
    <3>2. [call[c] EXCEPT !.pc = "running", !.ran = @ + 1] = k
      BY <1>1, <2>2 DEF Call
    <3>3. QED
      BY <3>1, <3>2
  <2>4. /\ k \in Call /\ k.pc = "running" /\ k.slot = call[c].slot /\ k.ran = 1
        /\ k.outcome = call[c].outcome
    BY <1>1 DEF Call
  <2>5. Fits(c, k) /\ (k.slot # NoSlot => Serves(k, session[k.slot]))
    BY <1>1, <2>1, <2>4 DEF Fits, Serves, WithSlot
  <2>6. QED
    BY ONLY PoolInv, c \in Users, <2>1, <2>3, <2>4, <2>5, CallMoves
<1>4. CASE c \in Calls /\ Convert(c)
  <2>1. PICK result \in {"rows", "error"} : Finish(c, result)
    BY <1>4 DEF Convert
  <2> DEFINE k == [call[c] EXCEPT !.pc = "done", !.slot = NoSlot, !.outcome = result]
  <2>2. /\ k \in Call /\ call' = [call EXCEPT ![c] = k] /\ session' = session
        /\ call[c].pc = "converting"
    BY <1>1, <1>4, <2>1 DEF Convert, Finish, CallAt, Call
  <2>3. /\ k.pc = "done" /\ k.slot = NoSlot /\ k.outcome = result
        /\ k.ran = call[c].ran
    BY <1>1 DEF Call
  <2>4. Fits(c, k) /\ k.slot = call[c].slot
    BY <1>1, <2>2, <2>3 DEF Fits, WithSlot
  <2>5. QED
    BY ONLY PoolInv, c \in Users, <2>2, <2>3, <2>4, CallMoves
<1>5. QED
  BY <1>2, <1>3, <1>4

\* The steps of an idle or returning session.
LEMMA SessionSteps ==
    ASSUME PoolInv, NEW s \in Slots, CloseIdle(s) \/ Return(s)
    PROVE  PoolInv'
<1>1. /\ session[s] \in Session /\ SetReadOnly(session[s]) /\ call' = call
      /\ session[s].status \in {"idle", "returning"}
  BY DEF PoolInv, CloseIdle, Return
<1>2. CASE session' = [session EXCEPT ![s] = Closed]
  <2>1. Closed \in Session /\ Closed.status \notin InUse /\ SetReadOnly(Closed)
    BY DEF Closed, Session, InUse, SetReadOnly
  <2>2. QED
    BY <1>1, <1>2, <2>1, SlotMoves DEF InUse
<1>3. CASE session' = [session EXCEPT ![s].status = "idle"] /\ Return(s)
  <2> DEFINE n == [session[s] EXCEPT !.status = "idle"]
  <2>1. /\ n \in Session /\ session' = [session EXCEPT ![s] = n]
        /\ n.status = "idle" /\ n.read_only = session[s].read_only
    BY <1>1, <1>3 DEF Session
  <2>2. SetReadOnly(n) /\ n.status \notin InUse /\ session[s].status \notin InUse
    BY <1>1, <2>1 DEF SetReadOnly, InUse
  <2>3. QED
    BY ONLY PoolInv, s \in Slots, <1>1, <2>1, <2>2, SlotMoves
<1>4. QED
  BY <1>2, <1>3 DEF CloseIdle, Return

\* Getting a session, from an idle one or a new connection.
LEMMA AcquireSteps ==
    ASSUME PoolInv, NEW c \in Users, AcquireStep(c)
    PROVE  PoolInv'
<1>1. /\ call[c] \in Call /\ Fits(c, call[c]) /\ call \in [Users -> Call]
      /\ session \in [Slots -> Session]
      /\ call[c].pc \in WithSlot =>
            /\ call[c].slot \in Slots /\ session[call[c].slot] \in Session
            /\ Serves(call[c], session[call[c].slot])
  BY CallFacts DEF PoolInv
<1>2. ASSUME NEW s \in Slots, TakeIdle(c, s) PROVE PoolInv'
  <2> DEFINE k == [call[c] EXCEPT !.pc = "holding", !.slot = s]
             n == [session[s] EXCEPT !.status = "held"]
  <2>1. /\ call' = [call EXCEPT ![c] = k] /\ session' = [session EXCEPT ![s] = n]
        /\ call[c].pc = "waiting" /\ session[s].status = "idle"
    BY <1>1, <1>2 DEF TakeIdle, CallAt
  <2>2. /\ k \in Call /\ k.pc = "holding" /\ k.slot = s /\ k.ran = call[c].ran
        /\ k.outcome = call[c].outcome
    BY <1>1 DEF Call
  <2>3. /\ n \in Session /\ n.status = "held" /\ n.read_only = session[s].read_only
    BY <1>1 DEF Session
  <2>4. SetReadOnly(session[s])
    BY DEF PoolInv
  <2>5. /\ Fits(c, k) /\ Serves(k, n) /\ SetReadOnly(n) /\ n.status \in InUse
        /\ call[c].slot = NoSlot /\ session[s].status \notin InUse
    BY <1>1, <2>1, <2>2, <2>3, <2>4 DEF Fits, Serves, SetReadOnly, InUse, WithSlot
  <2>6. QED
    BY ONLY PoolInv, c \in Users, s \in Slots, <2>1, <2>2, <2>3, <2>5, BothMove
<1>3. ASSUME NEW s \in Slots, Open(c, s) PROVE PoolInv'
  <2> DEFINE k == [call[c] EXCEPT !.pc = "opening", !.slot = s]
             n == [session[s] EXCEPT !.status = "opening"]
  <2>1. /\ call' = [call EXCEPT ![c] = k] /\ session' = [session EXCEPT ![s] = n]
        /\ call[c].pc = "waiting" /\ session[s].status = "closed"
    BY <1>1, <1>3 DEF Open, CallAt
  <2>2. /\ k \in Call /\ k.pc = "opening" /\ k.slot = s /\ k.ran = call[c].ran
        /\ k.outcome = call[c].outcome
    BY <1>1 DEF Call
  <2>3. n \in Session /\ n.status = "opening"
    BY <1>1 DEF Session
  <2>4. /\ Fits(c, k) /\ Serves(k, n) /\ SetReadOnly(n) /\ n.status \in InUse
        /\ call[c].slot = NoSlot /\ session[s].status \notin InUse
    BY <1>1, <2>1, <2>2, <2>3 DEF Fits, Serves, SetReadOnly, InUse, WithSlot
  <2>5. QED
    BY ONLY PoolInv, c \in Users, s \in Slots, <2>1, <2>2, <2>3, <2>4, BothMove
<1>4. ASSUME NEW status \in {"opening", "setting"}, call[c].pc = "opening",
             session' = [session EXCEPT ![call[c].slot].status = status], call' = call
      PROVE  PoolInv'
  <2> DEFINE s == call[c].slot
             n == [session[s] EXCEPT !.status = status]
  <2>1. s \in Slots /\ session[s] \in Session /\ s # NoSlot
    BY <1>1, <1>4 DEF WithSlot
  <2>2. /\ call' = [call EXCEPT ![c] = call[c]] /\ session' = [session EXCEPT ![s] = n]
    BY <1>1, <1>4
  <2>3. n \in Session /\ n.status = status
    BY <2>1 DEF Session
  <2>4. /\ Serves(call[c], n) /\ SetReadOnly(n) /\ n.status \in InUse
    BY <1>4, <2>3 DEF Serves, SetReadOnly, InUse
  <2>5. QED
    BY ONLY PoolInv, c \in Users, <1>1, <2>1, <2>2, <2>3, <2>4, BothMove
<1>5. ASSUME call[c].pc = "opening",
             session' = [session EXCEPT ![call[c].slot] =
                            [status |-> "held", read_only |-> TRUE]],
             call' = [call EXCEPT ![c].pc = "holding"]
      PROVE  PoolInv'
  <2> DEFINE s == call[c].slot
             k == [call[c] EXCEPT !.pc = "holding"]
             n == [status |-> "held", read_only |-> TRUE]
  <2>1. s \in Slots /\ s # NoSlot
    BY <1>1, <1>5 DEF WithSlot
  <2>2. /\ call' = [call EXCEPT ![c] = k] /\ session' = [session EXCEPT ![s] = n]
    BY <1>1, <1>5
  <2>3. /\ k \in Call /\ k.pc = "holding" /\ k.slot = s /\ k.ran = call[c].ran
        /\ k.outcome = call[c].outcome
    BY <1>1 DEF Call
  <2>4. n \in Session /\ n.status \in InUse /\ SetReadOnly(n) /\ Serves(k, n) /\ Fits(c, k)
    BY <1>1, <1>5, <2>1, <2>3 DEF Session, InUse, SetReadOnly, Serves, Fits, WithSlot
  <2>5. QED
    BY ONLY PoolInv, c \in Users, <2>1, <2>2, <2>3, <2>4, BothMove
<1>6. ASSUME call[c].pc \in {"waiting", "opening"}, Finish(c, "error"),
             session' = [s \in Slots |-> IF s = call[c].slot THEN Closed ELSE session[s]]
      PROVE  PoolInv'
  <2> DEFINE k == [call[c] EXCEPT !.pc = "done", !.slot = NoSlot, !.outcome = "error"]
             s == call[c].slot
  <2>1. k \in Call /\ k.pc = "done" /\ k.slot = NoSlot /\ k.outcome = "error"
    BY <1>1 DEF Call
  <2>2. call' = [call EXCEPT ![c] = k] /\ Fits(c, k)
    BY <1>1, <1>6, <2>1 DEF Finish, Fits, WithSlot
  <2>3. CASE call[c].pc = "waiting"
    <3>1. s = NoSlot
      BY <1>1, <2>3 DEF Fits, WithSlot
    <3>2. session' = session
      BY <1>1, <1>6, <3>1
    <3>3. QED
      BY ONLY PoolInv, c \in Users, <2>1, <2>2, <3>1, <3>2, CallMoves
  <2>4. CASE call[c].pc = "opening"
    <3>1. s \in Slots
      BY <1>1, <2>4 DEF WithSlot
    <3>2. session' = [session EXCEPT ![s] = Closed]
      BY <1>1, <1>6, <3>1
    <3>3. /\ Closed \in Session /\ Closed.status \notin InUse
          /\ SetReadOnly(Closed) /\ Serves(k, Closed)
      BY <2>1 DEF Closed, Session, InUse, SetReadOnly, Serves
    <3>4. QED
      BY ONLY PoolInv, c \in Users, <2>1, <2>2, <3>1, <3>2, <3>3, BothMove
  <2>5. QED
    BY <1>6, <2>3, <2>4
<1>7. CASE Connect(c)
  <2>1. CASE session' = [session EXCEPT ![call[c].slot].status = "setting"] /\ call' = call
    BY <1>4, <1>7, <2>1 DEF Connect, CallAt
  <2>2. CASE session' = [session EXCEPT ![call[c].slot] = Closed] /\ Finish(c, "error")
    <3>1. call[c].pc = "opening"
      BY <1>7 DEF Connect, CallAt
    <3>2. session' = [s \in Slots |-> IF s = call[c].slot THEN Closed ELSE session[s]]
      BY <1>1, <2>2
    <3>3. QED
      BY <1>6, <2>2, <3>1, <3>2
  <2>3. QED
    BY <1>7, <2>1, <2>2 DEF Connect
<1>8. CASE AfterConnect(c)
  BY <1>4, <1>5, <1>8 DEF AfterConnect, CallAt
<1>9. CASE TimeOut(c)
  BY <1>6, <1>9 DEF TimeOut
<1>10. QED
  BY <1>2, <1>3, <1>7, <1>8, <1>9 DEF AcquireStep

\* The probe and the reply to a statement let go of the session.
LEMMA LetGoSteps ==
    ASSUME PoolInv, ProbeDone \/ \E c \in Calls : Reply(c)
    PROVE  PoolInv'
<1>1. ASSUME NEW c \in Users, call[c].pc \in {"holding", "running"},
             NEW status \in {"idle", "returning"}, NEW k \in Call,
             session' = [session EXCEPT ![call[c].slot].status = status],
             call' = [call EXCEPT ![c] = k],
             k.slot = NoSlot, k.pc \in {"converting", "done"}, Fits(c, k)
      PROVE  PoolInv'
  <2> DEFINE s == call[c].slot
             n == [session[s] EXCEPT !.status = status]
  <2>1. s \in Slots /\ session[s] \in Session /\ session[s].status = "held"
    BY <1>1, CallFacts DEF WithSlot, Serves
  <2>2. SetReadOnly(session[s]) /\ session \in [Slots -> Session]
    BY <2>1 DEF PoolInv
  <2>3. session' = [session EXCEPT ![s] = n]
    BY <1>1, <2>2
  <2>4. n \in Session /\ n.status = status /\ n.read_only = session[s].read_only
    BY <2>1 DEF Session
  <2>5. SetReadOnly(n) /\ n.status \notin InUse /\ Serves(k, n)
    BY <1>1, <2>1, <2>2, <2>4 DEF SetReadOnly, InUse, Serves
  <2>6. QED
    BY ONLY PoolInv, c \in Users, <1>1, <2>1, <2>3, <2>4, <2>5, BothMove
<1>2. CASE ProbeDone
  <2> DEFINE k == [call[Probe] EXCEPT !.pc = "done", !.slot = NoSlot,
                                      !.outcome = "connected"]
  <2>1. /\ Probe \in Users /\ call[Probe] \in Call /\ call[Probe].pc = "holding"
        /\ call \in [Users -> Call]
    BY <1>2, CallFacts DEF Users, ProbeDone, CallAt, PoolInv
  <2>2. k \in Call /\ k.pc = "done" /\ k.slot = NoSlot /\ k.outcome = "connected"
    BY <2>1 DEF Call
  <2>3. /\ session' = [session EXCEPT ![call[Probe].slot].status = "idle"]
        /\ call' = [call EXCEPT ![Probe] = k]
    BY <1>2, <2>1 DEF ProbeDone, Finish
  <2>4. Fits(Probe, k)
    BY <2>2 DEF Fits, WithSlot
  <2>5. QED
    BY ONLY <1>1, <2>1, <2>2, <2>3, <2>4
<1>3. ASSUME NEW c \in Calls, Reply(c) PROVE PoolInv'
  <2>1. /\ c \in Users /\ call[c] \in Call /\ call[c].pc = "running" /\ Fits(c, call[c])
        /\ call \in [Users -> Call]
        /\ session' = [session EXCEPT ![call[c].slot].status = "returning"]
    BY <1>3, CallFacts DEF Users, Reply, CallAt, PoolInv
  <2>2. CASE call' = [call EXCEPT ![c].pc = "converting", ![c].slot = NoSlot]
    <3> DEFINE k == [call[c] EXCEPT !.pc = "converting", !.slot = NoSlot]
    <3>1. /\ k \in Call /\ k.pc = "converting" /\ k.slot = NoSlot
          /\ k.ran = call[c].ran /\ k.outcome = call[c].outcome
      BY <2>1 DEF Call
    <3>2. call' = [call EXCEPT ![c] = k]
      BY <2>1, <2>2
    <3>3. Fits(c, k)
      BY <1>3, <2>1, <3>1 DEF Fits, WithSlot
    <3>4. QED
      BY ONLY <1>1, <2>1, <3>1, <3>2, <3>3
  <2>3. CASE Finish(c, "error")
    <3> DEFINE k == [call[c] EXCEPT !.pc = "done", !.slot = NoSlot, !.outcome = "error"]
    <3>1. k \in Call /\ k.pc = "done" /\ k.slot = NoSlot /\ k.outcome = "error"
      BY <2>1 DEF Call
    <3>2. call' = [call EXCEPT ![c] = k]
      BY <2>1, <2>3 DEF Finish
    <3>3. Fits(c, k)
      BY <3>1 DEF Fits, WithSlot
    <3>4. QED
      BY ONLY <1>1, <2>1, <3>1, <3>2, <3>3
  <2>4. QED
    BY <1>3, <2>2, <2>3 DEF Reply
<1>4. QED
  BY <1>2, <1>3

-----------------------------------------------------------------------------
(* The load.                                                               *)

\* The rows of a query that has run are right about a relation that has been
\* there since the load began.
RightAbout(r) ==
    /\ call["tables"].ran # 0 =>
          (r.kind = "table" <=>
             \E w \in found["tables"] : w.schema = r.schema /\ w.name = r.name)
    /\ call["views"].ran # 0 =>
          (r.kind = "view" <=>
             \E w \in found["views"] : w.schema = r.schema /\ w.name = r.name)
    /\ call["columns"].ran # 0 => AttachColumns(r, found["columns"]) = r.columns

NoneAsked == \A q \in QueryCalls : call[q].pc = "new"

CatalogInv ==
    /\ PoolInv
    /\ database \in Databases
    /\ stable \subseteq database
    /\ DOMAIN found = QueryCalls
    /\ call["tables"].pc = "new" => NoneAsked
    /\ \A r \in stable : RightAbout(r)

\* The eight queries.
LEMMA QueryNames ==
    /\ QueryCalls = {"tables", "views", "columns", "indexes", "constraints",
                     "triggers", "routines", "sequences"}
    /\ QueryCalls \subseteq Calls /\ Calls \subseteq Users /\ Probe \notin QueryCalls
    /\ Queries[1] = "tables"
    /\ \A i \in DOMAIN Queries : i \in Nat /\ i >= 1 /\ Queries[i] \in QueryCalls
  BY CatalogAssumption DEF QueryCalls, Queries, Range, Users

\* A step that sends no statement and makes no query leaves the load as it is.
LEMMA LoadUndisturbed ==
    ASSUME CatalogInv, PoolInv', UNCHANGED catalogVars,
           \A q \in QueryCalls : call'[q].ran = call[q].ran,
           \A q \in QueryCalls : call'[q].pc = "new" <=> call[q].pc = "new"
    PROVE  CatalogInv'
<1>1. {"tables", "views", "columns"} \subseteq QueryCalls
  BY QueryNames
<1>2. ASSUME NEW r \in stable PROVE RightAbout(r)'
  BY <1>1, <1>2 DEF CatalogInv, RightAbout, AttachColumns, catalogVars
<1>3. QED
  BY <1>1, <1>2 DEF CatalogInv, catalogVars, NoneAsked

\* The steps of the pool by itself.
LEMMA PoolStepPreserves ==
    ASSUME CatalogInv, PoolStep
    PROVE  CatalogInv'
<1>1. PoolInv /\ call \in [Users -> Call] /\ UNCHANGED catalogVars
  BY DEF CatalogInv, PoolInv, PoolStep
<1>2. PoolInv'
  BY <1>1, QueryNames, AcquireSteps, SessionSteps, LetGoSteps, AloneSteps DEF PoolStep
<1>3. ASSUME NEW c \in Users,
             AcquireStep(c) \/ (c = Probe /\ ProbeDone) \/ Reply(c) \/ Convert(c)
      PROVE  /\ \A q \in Users : call'[q].ran = call[q].ran
             /\ \A q \in Users : call'[q].pc = "new" <=> call[q].pc = "new"
  <2>1. call[c] \in Call
    BY <1>1
  <2>2. CASE \E s \in Slots : TakeIdle(c, s)
    BY <1>1, <2>1, <2>2 DEF TakeIdle, CallAt, Call
  <2>3. CASE \E s \in Slots : Open(c, s)
    BY <1>1, <2>1, <2>3 DEF Open, CallAt, Call
  <2>4. CASE Connect(c)
    BY <1>1, <2>1, <2>4 DEF Connect, Finish, CallAt, Call
  <2>5. CASE AfterConnect(c)
    BY <1>1, <2>1, <2>5 DEF AfterConnect, CallAt, Call
  <2>6. CASE TimeOut(c)
    BY <1>1, <2>1, <2>6 DEF TimeOut, Finish, Call
  <2>7. CASE c = Probe /\ ProbeDone
    BY <1>1, <2>1, <2>7 DEF ProbeDone, Finish, CallAt, Call
  <2>8. CASE Reply(c)
    BY <1>1, <2>1, <2>8 DEF Reply, Finish, CallAt, Call
  <2>9. CASE Convert(c)
    BY <1>1, <2>1, <2>9 DEF Convert, Finish, CallAt, Call
  <2>10. QED
    BY <1>3, <2>2, <2>3, <2>4, <2>5, <2>6, <2>7, <2>8, <2>9 DEF AcquireStep
<1>4. ASSUME NEW s \in Slots, CloseIdle(s) \/ Return(s) PROVE call' = call
  BY <1>4 DEF CloseIdle, Return
<1>5. /\ \A q \in QueryCalls : call'[q].ran = call[q].ran
      /\ \A q \in QueryCalls : call'[q].pc = "new" <=> call[q].pc = "new"
  BY <1>3, <1>4, QueryNames DEF PoolStep, Users
<1>6. QED
  BY <1>1, <1>2, <1>5, LoadUndisturbed

\* A query that starts reads the database as it is then, which has every
\* relation that has stayed.
LEMMA ExecuteCallPreserves ==
    ASSUME CatalogInv, NEW c \in Calls, ExecuteCall(c)
    PROVE  CatalogInv'
<1>1. /\ PoolInv /\ c \in Users /\ call \in [Users -> Call] /\ Execute(c)
      /\ UNCHANGED <<serving, database, changes, stable>>
      /\ DOMAIN found = QueryCalls
  BY QueryNames DEF CatalogInv, PoolInv, ExecuteCall
<1>2. PoolInv'
  BY <1>1, AloneSteps
<1>3. /\ call[c].pc = "holding" /\ call'[c].pc = "running"
      /\ \A q \in Users \ {c} : call'[q] = call[q]
  BY <1>1 DEF Execute, CallAt, Call
<1>4. DOMAIN found' = QueryCalls /\ \A q \in QueryCalls \ {c} : found'[q] = found[q]
  BY <1>1 DEF ExecuteCall
<1>5. c \in QueryCalls => found'[c] = RowsOf(c)
  BY <1>1 DEF ExecuteCall
<1>6. call'["tables"].pc = "new" => NoneAsked'
  BY <1>3, QueryNames DEF CatalogInv, NoneAsked
<1>7. ASSUME NEW r \in stable PROVE RightAbout(r)'
  <2>1. RightAbout(r) /\ r \in database
    BY DEF CatalogInv
  <2>2. \A t \in database : /\ t = [schema |-> t.schema, name |-> t.name,
                                    kind |-> t.kind, columns |-> t.columns]
                            /\ t.kind \in {"table", "view"}
                            /\ r.schema = t.schema /\ r.name = t.name => r = t
    BY <2>1, CatalogAssumption DEF CatalogInv
  <2>3. ASSUME NEW kind \in {"table", "view"}
        PROVE  r.kind = kind <=>
                 \E w \in Listed(kind) : w.schema = r.schema /\ w.name = r.name
    <3> DEFINE row(t) == [schema |-> t.schema, name |-> t.name]
    <3>1. Listed(kind) = {row(t) : t \in {t \in database : t.kind = kind}}
      BY DEF Listed
    <3>2. ASSUME r.kind = kind
          PROVE  \E w \in Listed(kind) : w.schema = r.schema /\ w.name = r.name
      <4>1. row(r) \in Listed(kind)
        BY <2>1, <3>1, <3>2
      <4>2. row(r).schema = r.schema /\ row(r).name = r.name
        OBVIOUS
      <4>3. QED
        BY ONLY <4>1, <4>2
    <3>3. ASSUME NEW w \in Listed(kind), w.schema = r.schema, w.name = r.name
          PROVE  r.kind = kind
      <4>1. PICK t \in database : t.kind = kind /\ w = row(t)
        BY <3>1
      <4>2. t.schema = r.schema /\ t.name = r.name
        BY <3>3, <4>1
      <4>3. QED
        BY <2>2, <4>1, <4>2
    <3>4. QED
      BY <3>2, <3>3
  <2>4. (call["tables"].ran # 0 =>
           (r.kind = "table" <=>
              \E w \in found["tables"] : w.schema = r.schema /\ w.name = r.name))'
    <3>1. CASE c = "tables"
      BY <1>5, <2>3, <3>1, QueryNames DEF RowsOf
    <3>2. CASE c # "tables"
      BY <1>3, <1>4, <2>1, <3>2, QueryNames DEF RightAbout
    <3>3. QED
      BY <3>1, <3>2
  <2>5. (call["views"].ran # 0 =>
           (r.kind = "view" <=>
              \E w \in found["views"] : w.schema = r.schema /\ w.name = r.name))'
    <3>1. CASE c = "views"
      BY <1>5, <2>3, <3>1, QueryNames DEF RowsOf
    <3>2. CASE c # "views"
      BY <1>3, <1>4, <2>1, <3>2, QueryNames DEF RightAbout
    <3>3. QED
      BY <3>1, <3>2
  <2>6. (call["columns"].ran # 0 => AttachColumns(r, found["columns"]) = r.columns)'
    <3>1. AttachColumns(r, ColumnRows) = r.columns
      <4>1. \A column : column \in AttachColumns(r, ColumnRows) => column \in r.columns
        BY <2>2 DEF AttachColumns, ColumnRows
      <4>2. ASSUME NEW column \in r.columns PROVE column \in AttachColumns(r, ColumnRows)
        <5> DEFINE w == [schema |-> r.schema, relation |-> r.name, name |-> column]
        <5>1. w \in ColumnRows
          BY <2>1 DEF ColumnRows
        <5>2. QED
          BY <5>1 DEF AttachColumns
      <4>3. QED
        BY <4>1, <4>2
    <3>2. CASE c = "columns"
      BY <1>5, <3>1, <3>2, QueryNames DEF RowsOf
    <3>3. CASE c # "columns"
      BY <1>3, <1>4, <2>1, <3>3, QueryNames DEF RightAbout, AttachColumns
    <3>4. QED
      BY <3>2, <3>3
  <2>7. QED
    BY <2>4, <2>5, <2>6 DEF RightAbout
<1>8. QED
  BY <1>1, <1>2, <1>4, <1>6, <1>7 DEF CatalogInv

\* A query, or a call of a server, asks for a connection.
LEMMA AskPreserves ==
    ASSUME CatalogInv,
           \/ AskProbe
           \/ \E c \in Calls : AskSelect(c)
           \/ \E i \in DOMAIN Queries : AskQuery(i)
    PROVE  CatalogInv'
<1>1. PoolInv /\ call \in [Users -> Call]
  BY DEF CatalogInv, PoolInv
<1>2. ASSUME NEW c \in Users, Ask(c)
      PROVE  /\ PoolInv'
             /\ call[c].pc = "new" /\ call'[c].pc = "waiting" /\ call'[c].ran = call[c].ran
             /\ \A q \in Users \ {c} : call'[q] = call[q]
  <2>1. PoolInv'
    BY <1>1, <1>2, AloneSteps
  <2>2. QED
    BY <1>1, <1>2, <2>1 DEF Ask, CallAt, Call
<1>3. ASSUME NEW c \in Users \ QueryCalls, Ask(c), UNCHANGED catalogVars
      PROVE  CatalogInv'
  <2>1. \A q \in QueryCalls : call'[q] = call[q]
    BY <1>2, <1>3, QueryNames
  <2>2. QED
    BY <1>2, <1>3, <2>1, LoadUndisturbed
<1>4. ASSUME NEW i \in DOMAIN Queries, AskQuery(i) PROVE CatalogInv'
  <2> DEFINE c == Queries[i]
  <2>1. /\ c \in QueryCalls /\ c \in Users /\ Ask(c)
        /\ UNCHANGED <<serving, database, changes, found>>
    BY <1>4, QueryNames DEF AskQuery
  <2>2. call'["tables"].pc # "new"
    <3>1. CASE i = 1
      BY <1>2, <2>1, <3>1, QueryNames
    <3>2. CASE i # 1
      <4>1. call["tables"].outcome = "rows"
        <5>1. 1 \in 1..(i - 1)
          BY <3>2, QueryNames
        <5>2. QED
          BY <1>4, <5>1, QueryNames DEF AskQuery
      <4>2. call["tables"].pc = "done"
        BY <1>1, <4>1, QueryNames DEF PoolInv, Fits
      <4>3. QED
        BY <1>2, <2>1, <4>2, QueryNames
    <3>3. QED
      BY <3>1, <3>2
  <2>3. \A q \in QueryCalls : call'[q].ran = call[q].ran
    BY <1>2, <2>1, QueryNames
  <2>4. CASE i = 1
    <3>1. c = "tables" /\ stable' = database /\ NoneAsked
      BY <1>2, <1>4, <2>1, <2>4, QueryNames DEF AskQuery, CatalogInv
    <3>2. \A q \in QueryCalls : call[q].ran = 0
      BY <1>1, <3>1, QueryNames DEF NoneAsked, PoolInv, Fits
    <3>3. \A r \in stable' : RightAbout(r)'
      BY <2>3, <3>2, QueryNames DEF RightAbout
    <3>4. QED
      BY <1>2, <2>1, <2>2, <3>1, <3>3 DEF CatalogInv
  <2>5. CASE i # 1
    <3>1. stable' = stable
      BY <1>4, <2>5 DEF AskQuery
    <3>2. \A r \in stable : RightAbout(r)'
      BY <2>1, <2>3, QueryNames DEF CatalogInv, RightAbout, AttachColumns
    <3>3. QED
      BY <1>2, <2>1, <2>2, <3>1, <3>2 DEF CatalogInv
  <2>6. QED
    BY <2>4, <2>5
<1>5. QED
  BY <1>3, <1>4, QueryNames DEF AskProbe, AskSelect, Users

\* What has stayed is among what is there.
LEMMA ChangePreserves ==
    ASSUME CatalogInv, ChangeDatabase
    PROVE  CatalogInv'
<1>1. /\ UNCHANGED <<session, call, found>>
      /\ database' \in Databases /\ stable' \subseteq stable /\ stable' \subseteq database'
  BY DEF ChangeDatabase, poolVars
<1>2. PoolInv'
  BY <1>1 DEF CatalogInv, PoolInv
<1>3. \A r \in stable' : RightAbout(r)'
  BY <1>1 DEF CatalogInv, RightAbout, AttachColumns
<1>4. QED
  BY <1>1, <1>2, <1>3 DEF CatalogInv, NoneAsked

-----------------------------------------------------------------------------
(* The invariant holds of every behaviour.                                 *)

\* No connection has been opened and nothing has been asked.
LEMMA CatalogInit == Init => CatalogInv
<1> SUFFICES ASSUME Init PROVE CatalogInv
  OBVIOUS
<1>1. PoolInv
  <2>1. Closed \in Session /\ NewCall \in Call
    BY DEF Closed, Session, NewCall, Call
  <2>2. /\ session \in [Slots -> Session] /\ call \in [Users -> Call]
        /\ \A s \in Slots : session[s] = Closed
        /\ \A c \in Users : call[c] = NewCall
    BY <2>1 DEF Init, PoolInit
  <2>3. \A c \in Users : Fits(c, NewCall) /\ NewCall.slot = NoSlot
    BY DEF NewCall, Fits, WithSlot
  <2>4. SetReadOnly(Closed) /\ Closed.status \notin InUse
    BY DEF Closed, SetReadOnly, InUse
  <2>5. QED
    BY <2>2, <2>3, <2>4 DEF PoolInv
<1>2. \A q \in QueryCalls : call[q].pc = "new"
  BY QueryNames DEF Init, PoolInit, NewCall
<1>3. QED
  BY <1>1, <1>2 DEF Init, CatalogInv, NoneAsked

\* Every step of the process, and of others on the database, preserves it.
THEOREM CatalogStep == CatalogInv /\ [Next]_vars => CatalogInv'
<1> SUFFICES ASSUME CatalogInv, [Next]_vars PROVE CatalogInv'
  OBVIOUS
<1>1. CASE UNCHANGED vars
  <2>1. UNCHANGED <<session, call>> /\ UNCHANGED catalogVars
    BY <1>1 DEF vars, poolVars
  <2>2. PoolInv'
    BY <2>1 DEF CatalogInv, PoolInv
  <2>3. QED
    BY <2>1, <2>2, LoadUndisturbed
<1>2. QED
  BY <1>1, AskPreserves, ExecuteCallPreserves, PoolStepPreserves, ChangePreserves DEF Next

\* The invariant of the pool and of the load holds of every behaviour.
THEOREM CatalogInvariance == Spec => []CatalogInv
  BY CatalogInit, CatalogStep, PTL DEF Spec

-----------------------------------------------------------------------------
(* What follows from it.                                                   *)

\* No session is ever lost or shared, and the variables of the pool have their
\* types.
THEOREM NoSessionIsLost == Spec => []PoolTypeOK
<1>1. ASSUME PoolInv PROVE PoolTypeOK
  <2>1. ASSUME NEW s \in Slots, session[s].status \in InUse
        PROVE  \E c \in Users : Holders(s) = {c}
    <3>1. PICK c \in Users : call[c].slot = s
      BY <1>1, <2>1 DEF PoolInv
    <3>2. \A d \in Users : call[d].slot = s => d = c
      BY <1>1, <2>1, <3>1 DEF PoolInv
    <3>3. Holders(s) = {c}
      BY <3>1, <3>2 DEF Holders
    <3>4. QED
      BY <3>3
  <2>2. ASSUME NEW s \in Slots, session[s].status \notin InUse
        PROVE  Holders(s) = {}
    <3>1. ASSUME NEW c \in Users, call[c].slot = s PROVE FALSE
      <4>1. call[c].slot # NoSlot
        BY <3>1
      <4>2. Fits(c, call[c]) /\ Serves(call[c], session[s])
        BY <1>1, <3>1, <4>1 DEF PoolInv
      <4>3. QED
        BY <2>2, <4>1, <4>2 DEF Fits, Serves, WithSlot, InUse
    <3>2. QED
      BY <3>1 DEF Holders
  <2>3. QED
    BY <1>1, <2>1, <2>2 DEF PoolTypeOK, PoolInv, InUse
<1>2. QED
  BY <1>1, CatalogInvariance, PTL DEF CatalogInv

\* No statement is ever run in a session that is not read-only.
THEOREM ReadOnlyFirst == Spec => []ReadOnlyBeforeUse
<1>1. ASSUME PoolInv PROVE ReadOnlyBeforeUse
  <2>1. ASSUME NEW c \in Calls, call[c].pc = "running"
        PROVE  session[call[c].slot].status = "held" /\ session[call[c].slot].read_only
    <3>1. /\ call[c].slot \in Slots
          /\ Serves(call[c], session[call[c].slot])
      BY <1>1, <2>1, CallFacts DEF WithSlot, Users
    <3>2. QED
      BY <1>1, <2>1, <3>1 DEF PoolInv, Serves, SetReadOnly
  <2>2. QED
    BY <2>1 DEF ReadOnlyBeforeUse, CallAt
<1>2. QED
  BY <1>1, CatalogInvariance, PTL DEF CatalogInv

\* A catalogue that was loaded is exact about every relation that nobody
\* changed during the load.
THEOREM StableExact == Spec => []StableRelationsAreExact
<1>1. ASSUME CatalogInv, Loaded, NEW r \in stable
      PROVE  {entry \in Catalogued : entry.schema = r.schema /\ entry.name = r.name} = {r}
  <2>1. \A q \in QueryCalls : call[q].ran # 0
    BY <1>1, QueryNames DEF CatalogInv, PoolInv, Fits, Loaded
  <2>2. /\ r.kind = "table" <=>
              \E w \in found["tables"] : w.schema = r.schema /\ w.name = r.name
        /\ r.kind = "view" <=>
              \E w \in found["views"] : w.schema = r.schema /\ w.name = r.name
        /\ AttachColumns(r, found["columns"]) = r.columns
    BY <1>1, <2>1, QueryNames DEF CatalogInv, RightAbout
  <2>3. /\ r = [schema |-> r.schema, name |-> r.name, kind |-> r.kind,
                columns |-> r.columns]
        /\ r.kind \in {"table", "view"}
    BY <1>1, CatalogAssumption DEF CatalogInv
  <2> DEFINE Entry(w, kind) == [schema |-> w.schema, name |-> w.name, kind |-> kind,
                                columns |-> AttachColumns(w, found["columns"])]
  <2>4. Catalogued = {Entry(w, "table") : w \in found["tables"]}
                       \cup {Entry(w, "view") : w \in found["views"]}
    BY DEF Catalogued
  <2>5. ASSUME NEW w, w.schema = r.schema, w.name = r.name
        PROVE  AttachColumns(w, found["columns"]) = r.columns
    BY <2>2, <2>5 DEF AttachColumns
  <2>6. ASSUME NEW w, w.schema = r.schema, w.name = r.name
        PROVE  Entry(w, r.kind) = r
    BY <2>3, <2>5, <2>6
  <2>7. r \in Catalogued
    <3>1. CASE r.kind = "table"
      <4>1. PICK w \in found["tables"] : w.schema = r.schema /\ w.name = r.name
        BY <2>2, <3>1
      <4>2. QED
        BY <2>4, <2>6, <3>1, <4>1
    <3>2. CASE r.kind = "view"
      <4>1. PICK w \in found["views"] : w.schema = r.schema /\ w.name = r.name
        BY <2>2, <3>2
      <4>2. QED
        BY <2>4, <2>6, <3>2, <4>1
    <3>3. QED
      BY <2>3, <3>1, <3>2
  <2>8. ASSUME NEW entry \in Catalogued, entry.schema = r.schema, entry.name = r.name
        PROVE  entry = r
    <3>1. CASE \E w \in found["tables"] : entry = Entry(w, "table")
      <4>1. PICK w \in found["tables"] : entry = Entry(w, "table")
        BY <3>1
      <4>2. w.schema = r.schema /\ w.name = r.name
        BY <2>8, <4>1
      <4>3. QED
        BY <2>2, <2>6, <4>1, <4>2
    <3>2. CASE \E w \in found["views"] : entry = Entry(w, "view")
      <4>1. PICK w \in found["views"] : entry = Entry(w, "view")
        BY <3>2
      <4>2. w.schema = r.schema /\ w.name = r.name
        BY <2>8, <4>1
      <4>3. QED
        BY <2>2, <2>6, <4>1, <4>2
    <3>3. QED
      BY <2>4, <3>1, <3>2
  <2>9. QED
    BY <2>7, <2>8
<1>2. CatalogInv => StableRelationsAreExact
  BY <1>1 DEF StableRelationsAreExact
<1>3. QED
  BY <1>2, CatalogInvariance, PTL

-----------------------------------------------------------------------------
\* The pool implements BackendContract: a statement is sent when it starts to
\* run, and a call of the pool that is done has its outcome.
THEOREM BackendContractKept == Spec => KeepsBackendContract
<1>1. Init => Contract!BackendInit
  BY DEF Init, PoolInit, NewCall, Contract!BackendInit, Users
<1>2. ASSUME CatalogInv, [Next]_vars
      PROVE  [Contract!BackendNext]_(Contract!backendVars)
  <2>1. PoolInv /\ call \in [Users -> Call] /\ Calls \subseteq Users
    BY <1>2 DEF CatalogInv, PoolInv, Users
  <2>2. ASSUME \A c \in Calls : /\ call'[c].outcome = call[c].outcome
                               /\ call'[c].ran = call[c].ran
        PROVE  UNCHANGED Contract!backendVars
    BY <2>2 DEF Contract!backendVars
  <2>3. ASSUME NEW c \in Users, NEW outcome \in {"rows", "error"}, Finish(c, outcome),
               call[c].pc # "done", outcome = "rows" => call[c].ran = 1 /\ c \in Calls
        PROVE  [Contract!BackendNext]_(Contract!backendVars)
    <3>1. /\ call'[c].outcome = outcome /\ call'[c].ran = call[c].ran
          /\ \A d \in Users \ {c} : call'[d] = call[d]
          /\ call[c].outcome = NoOutcome
      BY <2>1, <2>3, CallFacts DEF Finish, Call, Fits
    <3>2. CASE c \in Calls
      <4>1. /\ [d \in Calls |-> call'[d].outcome] =
                 [[d \in Calls |-> call[d].outcome] EXCEPT ![c] = outcome]
            /\ [d \in Calls |-> call'[d].ran] = [d \in Calls |-> call[d].ran]
        BY <2>1, <3>1, <3>2
      <4>2. Contract!Rows(c) \/ Contract!Error(c)
        BY <2>3, <3>1, <3>2, <4>1 DEF Contract!Rows, Contract!Error
      <4>3. QED
        BY <3>2, <4>2 DEF Contract!BackendNext
    <3>3. CASE c \notin Calls
      BY <2>1, <2>2, <3>1, <3>3
    <3>4. QED
      BY <3>2, <3>3
  <2>4. ASSUME NEW c \in Calls, Execute(c)
        PROVE  [Contract!BackendNext]_(Contract!backendVars)
    <3>1. /\ call[c] \in Call /\ call[c].ran = 0 /\ call[c].outcome = NoOutcome
          /\ call' = [call EXCEPT ![c].pc = "running", ![c].ran = @ + 1]
      BY <2>1, <2>4, CallFacts DEF Execute, CallAt, Fits
    <3>2. /\ call'[c].ran = 1 /\ call'[c].outcome = call[c].outcome
          /\ \A d \in Users \ {c} : call'[d] = call[d]
      BY <2>1, <3>1 DEF Call
    <3>3. /\ [d \in Calls |-> call'[d].ran] =
               [[d \in Calls |-> call[d].ran] EXCEPT ![c] = 1]
          /\ [d \in Calls |-> call'[d].outcome] = [d \in Calls |-> call[d].outcome]
      BY <2>1, <3>2
    <3>4. Contract!Send(c)
      BY <3>1, <3>3 DEF Contract!Send
    <3>5. QED
      BY <3>4 DEF Contract!BackendNext
  <2>5. ASSUME NEW c \in Users, AcquireStep(c)
        PROVE  [Contract!BackendNext]_(Contract!backendVars)
    <3>1. CASE Finish(c, "error") /\ call[c].pc # "done"
      BY <2>3, <3>1
    <3>2. CASE \A d \in Users : call'[d].outcome = call[d].outcome /\ call'[d].ran = call[d].ran
      BY <2>1, <2>2, <3>2
    <3>3. CASE \E s \in Slots : TakeIdle(c, s) \/ Open(c, s)
      BY <2>1, <3>2, <3>3 DEF TakeIdle, Open, Call
    <3>4. CASE Connect(c)
      BY <3>1, <3>2, <3>4 DEF Connect, CallAt
    <3>5. CASE AfterConnect(c)
      BY <2>1, <3>2, <3>5 DEF AfterConnect, Call
    <3>6. CASE TimeOut(c)
      BY <3>1, <3>6 DEF TimeOut
    <3>7. QED
      BY <2>5, <3>3, <3>4, <3>5, <3>6 DEF AcquireStep
  <2>6. ASSUME NEW c \in Users, Ask(c)
        PROVE  [Contract!BackendNext]_(Contract!backendVars)
    BY <2>1, <2>2, <2>6 DEF Ask, Call
  <2>7. CASE ProbeDone
    BY <2>1, <2>2, <2>7 DEF ProbeDone, Finish, Users
  <2>8. ASSUME NEW c \in Calls, Reply(c)
        PROVE  [Contract!BackendNext]_(Contract!backendVars)
    <3>1. CASE Finish(c, "error")
      BY <2>1, <2>3, <2>8, <3>1 DEF Reply, CallAt
    <3>2. CASE call' = [call EXCEPT ![c].pc = "converting", ![c].slot = NoSlot]
      BY <2>1, <2>2, <3>2 DEF Call
    <3>3. QED
      BY <2>8, <3>1, <3>2 DEF Reply
  <2>9. ASSUME NEW c \in Calls, Convert(c)
        PROVE  [Contract!BackendNext]_(Contract!backendVars)
    <3>1. call[c].pc = "converting" /\ call[c].ran = 1
      BY <2>1, <2>9, CallFacts DEF Convert, CallAt, Fits
    <3>2. QED
      BY <2>1, <2>3, <2>9, <3>1 DEF Convert
  <2>10. CASE call' = call
    BY <2>2, <2>10
  <2>11. CASE PoolStep
    BY <2>5, <2>7, <2>8, <2>9, <2>10, <2>11 DEF PoolStep, CloseIdle, Return
  <2>12. CASE AskProbe \/ \E c \in Calls : AskSelect(c) \/ ExecuteCall(c)
    BY <2>1, <2>4, <2>6, <2>12 DEF AskProbe, AskSelect, ExecuteCall, Users
  <2>13. CASE \E i \in DOMAIN Queries : AskQuery(i)
    BY <2>1, <2>6, <2>13, QueryNames DEF AskQuery
  <2>14. CASE ChangeDatabase \/ UNCHANGED vars
    BY <2>10, <2>14 DEF ChangeDatabase, vars, poolVars
  <2>15. QED
    BY <1>2, <2>11, <2>12, <2>13, <2>14 DEF Next
<1>3. QED
  BY <1>1, <1>2, CatalogInvariance, PTL
     DEF Spec, KeepsBackendContract, Contract!BackendSpec, Contract!backendVars
==============================================================================
