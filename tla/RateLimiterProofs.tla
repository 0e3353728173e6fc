------------------------- MODULE RateLimiterProofs -------------------------
(***************************************************************************)
(* Proofs about RateLimiter for every number of calls and clients, every   *)
(* quota, window and delay.                                                *)
(*                                                                         *)
(* QuotaPerWindow, WindowsAreDisjoint and RejectionsAreEarned speak of     *)
(* decisions; the steps read the map.  CountMatches and NoLaterWindow tie  *)
(* the two: the counter of an entry is the number of calls allowed in its  *)
(* window, and every decided window is that window or one that ended       *)
(* before it started.                                                      *)
(***************************************************************************)
EXTENDS RateLimiter, FiniteSetTheorems, FunctionTheorems, TLAPS

USE LimitsAssumption, BoundsAssumption

\* An entry counts exactly the calls allowed in its window.
CountMatches ==
    \A k \in Clients : clients[k] # NoEntry =>
        /\ clients[k].requests = Cardinality(AllowedIn(k, clients[k].started))
        /\ clients[k].requests <= MaxRequests

\* A decided call was decided in its client's current window or in one that
\* ended before that window started.
NoLaterWindow ==
    \A c \in Calls : Decided(c) =>
        LET entry == clients[call[c].client]
        IN  /\ entry # NoEntry
            /\ \/ call[c].window = entry.started
               \/ call[c].window + Window <= entry.started

\* QuotaPerWindow for every start a window could have.
QuotaEverywhere ==
    \A k \in Clients, s \in Nat : Cardinality(AllowedIn(k, s)) <= MaxRequests

IInv ==
    /\ TypeOK
    /\ CountMatches
    /\ NoLaterWindow
    /\ QuotaEverywhere
    /\ WindowsAreDisjoint
    /\ RejectionsAreEarned

-----------------------------------------------------------------------------
(* The entry a decision is taken on.                                       *)

\* CurrentEntry keeps the entry's type; it returns the stored entry while
\* its window runs, and otherwise an empty window that starts at the stamp,
\* at least a window after the stored one.
LEMMA CurrentEntryShape ==
    ASSUME TypeOK, NEW k \in Clients, NEW stamp \in Nat
    PROVE  /\ CurrentEntry(k, stamp) \in Entry
           /\ \/ /\ clients[k] # NoEntry
                 /\ CurrentEntry(k, stamp) = clients[k]
                 /\ stamp < clients[k].started + Window
              \/ /\ CurrentEntry(k, stamp) = [started |-> stamp, requests |-> 0]
                 /\ clients[k] # NoEntry => stamp >= clients[k].started + Window
<1>1. CASE clients[k] = NoEntry
  BY <1>1 DEF CurrentEntry, Entry
<1>2. CASE clients[k] # NoEntry
  <2>1. clients[k] \in Entry
    BY <1>2 DEF TypeOK
  <2>2. CASE stamp >= clients[k].started /\ stamp - clients[k].started >= Window
    BY <1>2, <2>1, <2>2 DEF CurrentEntry, Entry
  <2>3. CASE ~(stamp >= clients[k].started /\ stamp - clients[k].started >= Window)
    BY <1>2, <2>1, <2>3 DEF CurrentEntry, Entry
  <2>4. QED
    BY <2>2, <2>3
<1>3. QED
  BY <1>1, <1>2

\* The calls allowed in a window are finitely many.
LEMMA AllowedInFinite ==
    ASSUME NEW k, NEW s
    PROVE  /\ IsFiniteSet(AllowedIn(k, s))
           /\ Cardinality(AllowedIn(k, s)) \in Nat
<1>1. AllowedIn(k, s) \subseteq Calls
  BY DEF AllowedIn
<1>2. IsFiniteSet(AllowedIn(k, s))
  BY <1>1, FS_Subset
<1>3. QED
  BY <1>2, FS_CardinalityType

\* The entry a decision is taken on counts the calls allowed in its window:
\* a window that starts at the stamp has allowed none yet.
LEMMA CurrentEntryCounts ==
    ASSUME IInv, NEW k \in Clients, NEW stamp \in Nat
    PROVE  LET entry == CurrentEntry(k, stamp)
           IN  /\ entry.requests = Cardinality(AllowedIn(k, entry.started))
               /\ entry.requests <= MaxRequests
<1> DEFINE entry == CurrentEntry(k, stamp)
<1>1. TypeOK /\ CountMatches /\ NoLaterWindow
  BY DEF IInv
<1>2. CASE clients[k] # NoEntry /\ entry = clients[k]
  BY <1>1, <1>2 DEF CountMatches
<1>3. CASE /\ entry = [started |-> stamp, requests |-> 0]
           /\ clients[k] # NoEntry => stamp >= clients[k].started + Window
  <2>1. ASSUME NEW c \in AllowedIn(k, stamp)
        PROVE  FALSE
    <3>1. c \in Calls /\ Decided(c) /\ call[c].client = k /\ call[c].window = stamp
      BY <2>1 DEF AllowedIn, Decided
    <3>2. clients[k] # NoEntry /\ clients[k] \in Entry
      BY <1>1, <3>1 DEF NoLaterWindow, TypeOK
    <3>3. stamp = clients[k].started \/ stamp + Window <= clients[k].started
      BY <1>1, <3>1 DEF NoLaterWindow
    <3>4. QED
      BY <1>3, <3>2, <3>3 DEF Entry
  <2>2. AllowedIn(k, stamp) = {}
    BY <2>1
  <2>3. Cardinality(AllowedIn(k, stamp)) = 0
    BY <2>2, FS_EmptySet
  <2>4. QED
    BY <1>3, <2>3
<1>4. QED
  BY <1>1, <1>2, <1>3, CurrentEntryShape

-----------------------------------------------------------------------------
(* Each action preserves the invariant.                                    *)

\* No call has begun and no client has a window.
LEMMA InitHolds == Init => IInv
<1> SUFFICES ASSUME Init PROVE IInv
  OBVIOUS
<1>1. TypeOK
  BY DEF Init, TypeOK, Call
<1>2. \A k \in Clients : clients[k] = NoEntry
  BY DEF Init
<1>3. \A c \in Calls : call[c].pc = "idle"
  BY DEF Init
<1>4. \A k, s : Cardinality(AllowedIn(k, s)) = 0
  <2>1. \A k, s : AllowedIn(k, s) = {}
    BY <1>3 DEF AllowedIn
  <2>2. QED
    BY <2>1, FS_EmptySet
<1>5. \A c \in Calls : ~Decided(c)
  BY <1>3 DEF Decided
<1>6. QED
  BY <1>1, <1>2, <1>3, <1>4, <1>5 DEF IInv, CountMatches, NoLaterWindow,
     QuotaEverywhere, WindowsAreDisjoint, RejectionsAreEarned

\* A step that decides no call and leaves the map alone.
LEMMA UndecidedStepPreserves ==
    ASSUME IInv, TypeOK', UNCHANGED clients,
           \A c \in Calls : \/ call'[c] = call[c]
                            \/ /\ call[c].pc \in {"idle", "stamped"}
                               /\ call'[c].pc \in {"idle", "stamped"}
    PROVE  IInv'
<1>1. \A k, s : AllowedIn(k, s)' = AllowedIn(k, s)
  BY DEF AllowedIn
<1>2. \A c \in Calls : Decided(c)' => Decided(c) /\ call'[c] = call[c]
  BY DEF Decided
<1>3. CountMatches'
  BY <1>1 DEF IInv, CountMatches
<1>4. NoLaterWindow'
  BY <1>2 DEF IInv, NoLaterWindow
<1>5. QuotaEverywhere'
  BY <1>1 DEF IInv, QuotaEverywhere
<1>6. WindowsAreDisjoint'
  BY <1>2 DEF IInv, WindowsAreDisjoint
<1>7. RejectionsAreEarned'
  BY <1>1, <1>2 DEF IInv, RejectionsAreEarned, Decided
<1>8. QED
  BY <1>3, <1>4, <1>5, <1>6, <1>7 DEF IInv

\* Reading the clock before the lock decides nothing.
LEMMA StampPreserves ==
    ASSUME IInv, NEW c \in Calls, Stamp(c)
    PROVE  IInv'
<1>1. TypeOK'
  <2>1. call[c] \in Call /\ now \in Nat
    BY DEF IInv, TypeOK
  <2>2. [call[c] EXCEPT !.pc = "stamped", !.stamp = now] \in Call
    BY <2>1 DEF Call
  <2>3. call' = [call EXCEPT ![c] = [call[c] EXCEPT !.pc = "stamped", !.stamp = now]]
    BY DEF Stamp
  <2>4. QED
    BY <2>2, <2>3 DEF IInv, TypeOK, Stamp
<1>2. QED
  BY <1>1, UndecidedStepPreserves DEF IInv, TypeOK, Stamp

\* Time passing decides nothing.
LEMMA TickPreserves ==
    ASSUME IInv, Tick
    PROVE  IInv'
<1>1. TypeOK'
  BY DEF IInv, TypeOK, Tick
<1>2. QED
  BY <1>1, UndecidedStepPreserves DEF Tick

\* A call counted in the window of its client.
LEMMA AllowPreserves ==
    ASSUME IInv, NEW c \in Calls, Allow(c)
    PROVE  IInv'
<1> PICK k, stamp, entry : /\ k = call[c].client
                           /\ stamp = call[c].stamp
                           /\ entry = CurrentEntry(k, stamp)
  OBVIOUS
<1>1. /\ TypeOK /\ k \in Clients /\ stamp \in Nat /\ now \in Nat
      /\ call[c].pc = "stamped" /\ entry.requests < MaxRequests
  BY DEF IInv, TypeOK, Call, Allow
<1>2. /\ entry \in Entry /\ entry.started \in Nat /\ entry.requests \in Nat
      /\ \/ clients[k] # NoEntry /\ entry = clients[k]
         \/ clients[k] # NoEntry => entry.started >= clients[k].started + Window
  BY <1>1, CurrentEntryShape DEF Entry
<1>3. /\ entry.requests = Cardinality(AllowedIn(k, entry.started))
  BY <1>1, CurrentEntryCounts
<1>4. /\ call'[c].pc = "allowed" /\ call'[c].client = k
      /\ call'[c].window = entry.started
      /\ \A d \in Calls : d # c => call'[d] = call[d]
  BY <1>1 DEF Allow, TypeOK, Call
<1>5. /\ clients'[k] \in Entry /\ clients'[k] # NoEntry
      /\ clients'[k].started = entry.started
      /\ clients'[k].requests = entry.requests + 1
      /\ \A j \in Clients : j # k => clients'[j] = clients[j]
  BY <1>1, <1>2 DEF Allow, TypeOK, Entry
<1>6. TypeOK'
  <2>1. call' \in [Calls -> Call]
    <3>1. call[c] \in Call
      BY <1>1 DEF TypeOK
    <3>2. [call[c] EXCEPT !.pc = "allowed", !.at = now,
                          !.window = entry.started] \in Call
      BY <1>1, <1>2, <3>1 DEF Call
    <3>3. call' = [call EXCEPT ![c] = [call[c] EXCEPT !.pc = "allowed", !.at = now,
                                                      !.window = entry.started]]
      BY DEF Allow
    <3>4. QED
      BY <1>1, <3>2, <3>3 DEF TypeOK
  <2>2. clients' \in [Clients -> Entry \cup {NoEntry}]
    BY <1>1, <1>2 DEF Allow, TypeOK, Entry
  <2>3. QED
    BY <1>1, <2>1, <2>2 DEF Allow, TypeOK
<1>7. AllowedIn(k, entry.started)' = AllowedIn(k, entry.started) \cup {c}
  BY <1>1, <1>4 DEF AllowedIn
<1>8. \A j, s : j # k \/ s # entry.started => AllowedIn(j, s)' = AllowedIn(j, s)
  BY <1>1, <1>4 DEF AllowedIn
<1>9. Cardinality(AllowedIn(k, entry.started)') = entry.requests + 1
  <2>1. c \notin AllowedIn(k, entry.started)
    BY <1>1 DEF AllowedIn
  <2>2. IsFiniteSet(AllowedIn(k, entry.started))
    BY AllowedInFinite
  <2>3. Cardinality(AllowedIn(k, entry.started) \cup {c}) = entry.requests + 1
    BY ONLY <1>3, <2>1, <2>2, FS_AddElement
  <2>4. QED
    BY <1>7, <2>3
<1>10. CountMatches'
  <2> SUFFICES ASSUME NEW j \in Clients, clients'[j] # NoEntry
               PROVE  (/\ clients[j].requests
                            = Cardinality(AllowedIn(j, clients[j].started))
                       /\ clients[j].requests <= MaxRequests)'
    BY DEF CountMatches
  <2>1. CASE j = k
    <3>1. AllowedIn(j, clients[j].started)' = AllowedIn(k, entry.started)'
      BY <1>5, <2>1 DEF AllowedIn
    <3>2. QED
      BY <1>1, <1>2, <1>5, <1>9, <2>1, <3>1
  <2>2. CASE j # k
    <3>1. AllowedIn(j, clients[j].started)' = AllowedIn(j, clients[j].started)
      BY <1>1, <1>4, <1>5, <2>2 DEF AllowedIn
    <3>2. QED
      BY <1>5, <2>2, <3>1 DEF IInv, CountMatches
  <2>3. QED
    BY <2>1, <2>2
<1>11. NoLaterWindow'
  <2> SUFFICES ASSUME NEW d \in Calls, Decided(d)'
               PROVE  LET e == clients'[call'[d].client]
                      IN  /\ e # NoEntry
                          /\ \/ call'[d].window = e.started
                             \/ call'[d].window + Window <= e.started
    BY DEF NoLaterWindow
  <2>1. CASE d = c
    BY <1>4, <1>5, <2>1
  <2>2. CASE d # c
    <3>1. Decided(d) /\ call'[d] = call[d] /\ call[d] \in Call
      BY <1>1, <1>4, <2>2 DEF Decided, TypeOK
    <3>2. /\ clients[call[d].client] # NoEntry
          /\ \/ call[d].window = clients[call[d].client].started
             \/ call[d].window + Window <= clients[call[d].client].started
      BY <3>1 DEF IInv, NoLaterWindow
    <3>3. CASE call[d].client = k
      <4>1. clients[k] \in Entry
        BY <1>1, <3>2, <3>3 DEF TypeOK
      <4>2. QED
        BY <1>2, <1>5, <3>1, <3>2, <3>3, <4>1 DEF Entry, Call
    <3>4. CASE call[d].client # k
      BY <1>5, <3>1, <3>2, <3>4 DEF Call
    <3>5. QED
      BY <3>3, <3>4
  <2>3. QED
    BY <2>1, <2>2
<1>12. QuotaEverywhere'
  <2> SUFFICES ASSUME NEW j \in Clients, NEW s \in Nat
               PROVE  Cardinality(AllowedIn(j, s)') <= MaxRequests
    BY DEF QuotaEverywhere
  <2>1. CASE j = k /\ s = entry.started
    BY <1>1, <1>2, <1>9, <2>1
  <2>2. CASE j # k \/ s # entry.started
    BY <1>8, <2>2 DEF IInv, QuotaEverywhere
  <2>3. QED
    BY <2>1, <2>2
<1>13. WindowsAreDisjoint'
  <2> SUFFICES ASSUME NEW d \in Calls, NEW e \in Calls, Decided(d)', Decided(e)',
                      call'[d].client = call'[e].client
               PROVE  \/ call'[d].window = call'[e].window
                      \/ call'[d].window >= call'[e].window + Window
                      \/ call'[e].window >= call'[d].window + Window
    BY DEF WindowsAreDisjoint
  <2>1. CASE d # c /\ e # c
    BY <1>4, <2>1 DEF IInv, WindowsAreDisjoint, Decided
  <2>2. CASE d = c \/ e = c
    <3>1. /\ clients'[k].started \in Nat
          /\ call'[d].window \in Nat /\ call'[e].window \in Nat
      BY <1>5, <1>6 DEF Entry, TypeOK, Call
    <3>2. \A x \in {d, e} : \/ call'[x].window = clients'[k].started
                            \/ call'[x].window + Window <= clients'[k].started
      BY <1>4, <1>11, <2>2 DEF NoLaterWindow
    <3>3. \E x \in {d, e} : call'[x].window = clients'[k].started
      BY <1>4, <1>5, <2>2
    <3>4. QED
      BY <3>1, <3>2, <3>3
  <2>3. QED
    BY <2>1, <2>2
<1>14. RejectionsAreEarned'
  <2> SUFFICES ASSUME NEW d \in Calls, call'[d].pc = "rejected"
               PROVE  (/\ call[d].stamp < call[d].window + Window
                       /\ Cardinality(AllowedIn(call[d].client, call[d].window))
                            = MaxRequests)'
    BY DEF RejectionsAreEarned
  <2>1. d # c /\ call'[d] = call[d]
    BY <1>4
  <2>2. /\ call[d].stamp < call[d].window + Window
        /\ Cardinality(AllowedIn(call[d].client, call[d].window)) = MaxRequests
    BY <2>1 DEF IInv, RejectionsAreEarned
  <2>3. call[d].client # k \/ call[d].window # entry.started
    BY <1>1, <1>2, <1>3, <2>2
  <2>4. AllowedIn(call[d].client, call[d].window)'
          = AllowedIn(call[d].client, call[d].window)
    BY <1>1, <1>4, <2>1, <2>3 DEF AllowedIn
  <2>5. QED
    BY <2>1, <2>2, <2>4
<1>15. QED
  BY <1>6, <1>10, <1>11, <1>12, <1>13, <1>14 DEF IInv

\* A call turned away because the window of its client is full.
LEMMA RejectPreserves ==
    ASSUME IInv, NEW c \in Calls, Reject(c)
    PROVE  IInv'
<1> PICK k, stamp, entry : /\ k = call[c].client
                           /\ stamp = call[c].stamp
                           /\ entry = CurrentEntry(k, stamp)
  OBVIOUS
<1>1. /\ TypeOK /\ k \in Clients /\ stamp \in Nat /\ now \in Nat
      /\ call[c].pc = "stamped" /\ entry.requests >= MaxRequests
  BY DEF IInv, TypeOK, Call, Reject
<1>2. /\ entry.requests = Cardinality(AllowedIn(k, entry.started))
      /\ entry.requests <= MaxRequests
  BY <1>1, CurrentEntryCounts
<1>3. /\ clients[k] # NoEntry /\ entry = clients[k] /\ entry \in Entry
      /\ entry.started \in Nat /\ stamp < entry.started + Window
  BY <1>1, <1>2, CurrentEntryShape DEF Entry
<1>4. /\ call'[c].pc = "rejected" /\ call'[c].client = k
      /\ call'[c].window = entry.started /\ call'[c].stamp = stamp
      /\ \A d \in Calls : d # c => call'[d] = call[d]
  BY <1>1 DEF Reject, TypeOK, Call
<1>5. clients' = clients
  BY <1>1, <1>3 DEF Reject, TypeOK
<1>6. TypeOK'
  <2>1. entry.started \in Nat
    BY <1>3
  <2>2. [call[c] EXCEPT !.pc = "rejected", !.at = now,
                        !.window = entry.started] \in Call
    <3>1. call[c] \in Call
      BY <1>1 DEF TypeOK
    <3>2. QED
      BY <1>1, <2>1, <3>1 DEF Call
  <2>3. call' = [call EXCEPT ![c] = [call[c] EXCEPT !.pc = "rejected", !.at = now,
                                                    !.window = entry.started]]
    BY DEF Reject
  <2>4. call' \in [Calls -> Call]
    BY <1>1, <2>2, <2>3 DEF TypeOK
  <2>5. QED
    BY <1>1, <1>5, <2>4 DEF Reject, TypeOK
<1>7. \A j, s : AllowedIn(j, s)' = AllowedIn(j, s)
  BY <1>1, <1>4 DEF AllowedIn
<1>8. CountMatches'
  BY <1>5, <1>7 DEF IInv, CountMatches
<1>9. NoLaterWindow'
  BY <1>3, <1>4, <1>5 DEF IInv, NoLaterWindow, Decided
<1>10. QuotaEverywhere'
  BY <1>7 DEF IInv, QuotaEverywhere
<1>11. WindowsAreDisjoint'
  <2>1. \A d \in Calls : Decided(d)' /\ call'[d].client = k =>
           \/ call'[d].window = entry.started
           \/ call'[d].window + Window <= entry.started
    BY <1>3, <1>5, <1>9 DEF NoLaterWindow
  <2>2. \A d \in Calls : call'[d].window \in Nat
    BY <1>6 DEF TypeOK, Call
  <2>3. entry.started \in Nat
    BY <1>3 DEF Entry
  <2>4. \A d \in Calls : d # c /\ Decided(d)' => Decided(d) /\ call'[d] = call[d]
    BY <1>4 DEF Decided
  <2> SUFFICES ASSUME NEW d \in Calls, NEW e \in Calls, Decided(d)', Decided(e)',
                      call'[d].client = call'[e].client
               PROVE  \/ call'[d].window = call'[e].window
                      \/ call'[d].window >= call'[e].window + Window
                      \/ call'[e].window >= call'[d].window + Window
    BY DEF WindowsAreDisjoint
  <2>5. CASE d # c /\ e # c
    BY <2>4, <2>5 DEF IInv, WindowsAreDisjoint
  <2>6. CASE d = c
    BY <1>4, <2>1, <2>2, <2>3, <2>6
  <2>7. CASE e = c
    BY <1>4, <2>1, <2>2, <2>3, <2>7
  <2>8. QED
    BY <2>5, <2>6, <2>7
<1>12. RejectionsAreEarned'
  <2> SUFFICES ASSUME NEW d \in Calls, call'[d].pc = "rejected"
               PROVE  (/\ call[d].stamp < call[d].window + Window
                       /\ Cardinality(AllowedIn(call[d].client, call[d].window))
                            = MaxRequests)'
    BY DEF RejectionsAreEarned
  <2>1. CASE d = c
    <3>1. AllowedIn(call[d].client, call[d].window)' = AllowedIn(k, entry.started)
      BY <1>1, <1>4, <2>1 DEF AllowedIn
    <3>2. QED
      BY <1>1, <1>2, <1>3, <1>4, <2>1, <3>1 DEF Entry
  <2>2. CASE d # c
    <3>1. AllowedIn(call[d].client, call[d].window)'
            = AllowedIn(call[d].client, call[d].window)
      BY <1>1, <1>4, <2>2 DEF AllowedIn
    <3>2. QED
      BY <1>4, <2>2, <3>1 DEF IInv, RejectionsAreEarned
  <2>3. QED
    BY <2>1, <2>2
<1>13. QED
  BY <1>6, <1>8, <1>9, <1>10, <1>11, <1>12 DEF IInv

-----------------------------------------------------------------------------
(* The theorems.                                                           *)

\* Every step of the limiter preserves the inductive invariant.
THEOREM NextPreserves == IInv /\ [Next]_vars => IInv'
<1> SUFFICES ASSUME IInv, [Next]_vars PROVE IInv'
  OBVIOUS
<1>1. CASE Tick
  BY <1>1, TickPreserves
<1>2. ASSUME NEW c \in Calls, Stamp(c) PROVE IInv'
  BY <1>2, StampPreserves
<1>3. ASSUME NEW c \in Calls, Reject(c) PROVE IInv'
  BY <1>3, RejectPreserves
<1>4. ASSUME NEW c \in Calls, Allow(c) PROVE IInv'
  BY <1>4, AllowPreserves
<1>5. CASE UNCHANGED vars
  <2>1. TypeOK'
    BY <1>5 DEF IInv, TypeOK, vars
  <2>2. QED
    BY <1>5, <2>1, UndecidedStepPreserves DEF vars
<1>6. QED
  BY <1>1, <1>2, <1>3, <1>4, <1>5 DEF Next

\* The inductive invariant holds of every behaviour of the limiter.
THEOREM Invariance == Spec => []IInv
BY InitHolds, NextPreserves, PTL DEF Spec

\* The map and the calls always have their types.
THEOREM TypeCorrect == Spec => []TypeOK
BY Invariance, PTL DEF IInv

\* No window of any client lets more than max_requests calls through.
THEOREM QuotaHolds == Spec => []QuotaPerWindow
<1>1. IInv => QuotaPerWindow
  BY DEF IInv, TypeOK, Call, QuotaEverywhere, QuotaPerWindow
<1>2. QED
  BY <1>1, Invariance, PTL

\* The windows a client's calls were decided in never overlap.
THEOREM WindowsDisjoint == Spec => []WindowsAreDisjoint
BY Invariance, PTL DEF IInv

\* Every rejected call found its client's quota used up in a window that had
\* not expired at the call's stamp.
THEOREM RejectionsEarned == Spec => []RejectionsAreEarned
BY Invariance, PTL DEF IInv

\* A step never moves a window back, restarts it early or lowers its count.
THEOREM WindowAdvances == Spec => WindowOnlyAdvances
<1>1. IInv /\ [Next]_vars => [AdvanceOnly]_vars
  <2> SUFFICES ASSUME IInv, Next, NEW j \in Clients, clients[j] # NoEntry
               PROVE  /\ clients'[j] # NoEntry
                      /\ \/ clients'[j].started >= clients[j].started + Window
                         \/ /\ clients'[j].started = clients[j].started
                            /\ clients'[j].requests >= clients[j].requests
    BY DEF AdvanceOnly
  <2>1. clients[j] \in Entry /\ clients \in [Clients -> Entry \cup {NoEntry}]
    BY DEF IInv, TypeOK
  <2>2. CASE clients'[j] = clients[j]
    BY <2>1, <2>2 DEF Entry
  <2>3. ASSUME NEW c \in Calls, Reject(c) \/ Allow(c), clients'[j] # clients[j]
        PROVE  /\ clients'[j] # NoEntry
               /\ \/ clients'[j].started >= clients[j].started + Window
                  \/ /\ clients'[j].started = clients[j].started
                     /\ clients'[j].requests >= clients[j].requests
    <3> PICK k, stamp, entry : /\ k = call[c].client
                               /\ stamp = call[c].stamp
                               /\ entry = CurrentEntry(k, stamp)
      OBVIOUS
    <3>1. k = j /\ k \in Clients /\ stamp \in Nat
      BY <2>1, <2>3 DEF IInv, TypeOK, Call, Reject, Allow
    <3>2. /\ entry \in Entry
          /\ \/ entry = clients[j]
             \/ entry.started >= clients[j].started + Window
      BY <3>1, CurrentEntryShape DEF IInv
    <3>3. /\ clients'[j] \in Entry /\ clients'[j].started = entry.started
          /\ clients'[j].requests >= entry.requests
      BY <2>1, <2>3, <3>1, <3>2 DEF Reject, Allow, Entry
    <3>4. QED
      BY <2>1, <3>2, <3>3 DEF Entry
  <2>4. (Tick \/ \E c \in Calls : Stamp(c)) => clients' = clients
    BY DEF Tick, Stamp
  <2>5. QED
    BY <2>2, <2>3, <2>4 DEF Next
<1>2. QED
  BY <1>1, Invariance, PTL DEF Spec, WindowOnlyAdvances

-----------------------------------------------------------------------------
(* The bound in real time.  A decision is taken at most MaxDelay after its   *)
(* stamp, so the window that decides it began in a bounded stretch before    *)
(* its locked section.  Windows are a Window apart, so cutting that stretch  *)
(* into pieces of length Window puts at most one window in each, and a       *)
(* window allows at most MaxRequests calls.                                  *)

\* How far the stamps, windows and decisions of calls lie apart.
TimingInv ==
    /\ \A k \in Clients : clients[k] # NoEntry => clients[k].started <= now
    /\ \A c \in Calls : call[c].pc = "stamped" =>
          call[c].stamp <= now /\ now <= call[c].stamp + MaxDelay
    /\ \A c \in Calls : Decided(c) =>
          /\ call[c].window <= call[c].at /\ call[c].at <= now
          /\ call[c].at < call[c].window + Window + MaxDelay

BurstInv == IInv /\ TimingInv

\* Nothing is stamped or decided at the beginning.
LEMMA TimingBegins == Init => TimingInv
BY DEF Init, TimingInv, Decided

\* Reject and Allow decide within MaxDelay, in a window that the stamp is in.
LEMMA DecisionKeepsTiming ==
    ASSUME BurstInv, NEW c \in Calls, Reject(c) \/ Allow(c)
    PROVE  TimingInv'
<1> PICK k, stamp, entry : /\ k = call[c].client
                           /\ stamp = call[c].stamp
                           /\ entry = CurrentEntry(k, stamp)
  OBVIOUS
<1>1. /\ TypeOK /\ k \in Clients /\ stamp \in Nat /\ now \in Nat
      /\ call[c].pc = "stamped" /\ now' = now /\ call[c] \in Call
      /\ stamp <= now /\ now <= stamp + MaxDelay
  BY DEF BurstInv, IInv, TypeOK, Call, TimingInv, Reject, Allow
<1>2. /\ entry \in Entry /\ entry.started <= now
      /\ now < entry.started + Window + MaxDelay
  <2>1. /\ CurrentEntry(k, stamp) \in Entry
        /\ \/ /\ clients[k] # NoEntry
              /\ CurrentEntry(k, stamp) = clients[k]
              /\ stamp < clients[k].started + Window
           \/ CurrentEntry(k, stamp) = [started |-> stamp, requests |-> 0]
    BY <1>1, CurrentEntryShape, Zenon
  <2>2. entry.started \in Nat /\ stamp < entry.started + Window
    BY <1>1, <2>1 DEF Entry
  <2>3. entry.started <= now
    BY <1>1, <2>1 DEF BurstInv, TimingInv
  <2>4. QED
    BY <1>1, <2>1, <2>2, <2>3
<1>3. /\ \A j \in Clients \ {k} : clients'[j] = clients[j]
      /\ clients'[k].started = entry.started
      /\ \A d \in Calls \ {c} : call'[d] = call[d]
      /\ call'[c].pc \in {"allowed", "rejected"}
      /\ call'[c].at = now /\ call'[c].window = entry.started
  BY <1>1, <1>2 DEF Reject, Allow, TypeOK, Call, Entry
<1>4. \A j \in Clients : clients'[j] # NoEntry => clients'[j].started <= now'
  BY <1>1, <1>2, <1>3 DEF BurstInv, TimingInv
<1>5. \A d \in Calls : call'[d].pc = "stamped" =>
         call'[d].stamp <= now' /\ now' <= call'[d].stamp + MaxDelay
  BY <1>1, <1>3 DEF BurstInv, TimingInv
<1>6. \A d \in Calls : Decided(d)' =>
         /\ call'[d].window <= call'[d].at /\ call'[d].at <= now'
         /\ call'[d].at < call'[d].window + Window + MaxDelay
  BY <1>1, <1>2, <1>3 DEF BurstInv, TimingInv, Decided, Entry
<1>7. QED
  BY <1>4, <1>5, <1>6 DEF TimingInv

\* A stamp is taken now.
LEMMA StampKeepsTiming ==
    ASSUME BurstInv, NEW c \in Calls, Stamp(c)
    PROVE  TimingInv'
<1>1. /\ now \in Nat /\ call[c] \in Call /\ UNCHANGED <<now, clients>>
      /\ \A d \in Calls \ {c} : call'[d] = call[d]
      /\ call'[c].pc = "stamped" /\ call'[c].stamp = now
  BY DEF BurstInv, IInv, TypeOK, Stamp, Call
<1>2. QED
  BY <1>1 DEF BurstInv, TimingInv, Decided

\* The clock does not tick past a caller that has waited for MaxDelay.
LEMMA TickKeepsTiming ==
    ASSUME BurstInv, Tick
    PROVE  TimingInv'
<1>1. /\ now \in Nat /\ now' = now + 1 /\ UNCHANGED <<clients, call>>
      /\ \A c \in Calls : call[c].pc = "stamped" => now - call[c].stamp < MaxDelay
  BY DEF BurstInv, IInv, TypeOK, Tick
<1>2. \A c \in Calls : call[c] \in Call
  BY DEF BurstInv, IInv, TypeOK
<1>3. \A k \in Clients : clients[k] # NoEntry => clients[k] \in Entry
  BY DEF BurstInv, IInv, TypeOK
<1>4. QED
  BY <1>1, <1>2, <1>3 DEF BurstInv, TimingInv, Decided, Call, Entry

\* The distances hold throughout.
LEMMA BurstInvariance == Spec => []BurstInv
<1>1. Init => BurstInv
  BY InitHolds, TimingBegins DEF BurstInv
<1>2. ASSUME BurstInv, [Next]_vars PROVE BurstInv'
  <2>1. IInv'
    BY <1>2, NextPreserves DEF BurstInv
  <2>2. TimingInv'
    <3>1. CASE UNCHANGED vars
      BY <1>2, <3>1 DEF vars, BurstInv, TimingInv, Decided
    <3>2. QED
      BY <1>2, <3>1, TickKeepsTiming, StampKeepsTiming, DecisionKeepsTiming DEF Next
  <2>3. QED
    BY <2>1, <2>2 DEF BurstInv
<1>3. QED
  BY <1>1, <1>2, PTL DEF Spec

-----------------------------------------------------------------------------
\* A finite set can be numbered with as many numbers as it has elements, or
\* more.
LEMMA NumberedSet ==
    ASSUME NEW S, IsFiniteSet(S), NEW m \in Nat, Cardinality(S) <= m
    PROVE  \E f \in [S -> 1..m] : \A a, b \in S : f[a] = f[b] => a = b
<1> DEFINE n == Cardinality(S)
<1>1. n \in Nat /\ n <= m /\ ExistsBijection(1..n, S)
  BY FS_CardinalityType
<1> HIDE DEF n
<1>2. PICK g \in Bijection(1..n, S) : TRUE
  BY <1>1, Fun_ExistsBij
<1> DEFINE numbers == 1..n
<1> HIDE DEF numbers
<1>3. g \in [numbers -> S] /\ \A s \in S : \E i \in numbers : g[i] = s
  <2>1. g \in Bijection(numbers, S)
    BY <1>2 DEF numbers
  <2>2. QED
    BY <2>1, Fun_BijectionProperties
<1> DEFINE f == [s \in S |-> CHOOSE i \in numbers : g[i] = s]
<1>4. \A s \in S : f[s] \in numbers /\ g[f[s]] = s
  BY <1>3
<1>5. f \in [S -> 1..m]
  <2>1. numbers \subseteq 1..m
    BY <1>1 DEF numbers
  <2>2. QED
    BY <1>4, <2>1
<1>6. \A a, b \in S : f[a] = f[b] => a = b
  BY <1>4
<1>7. QED
  BY <1>5, <1>6

\* A set that falls into q + 1 groups of at most m elements has at most
\* m * (1 + q) elements.
LEMMA GroupsBound ==
    ASSUME NEW S, NEW q \in Nat, NEW m \in Nat, NEW group \in [S -> 0..q],
           \A b \in 0..q : LET members == {s \in S : group[s] = b}
                           IN  IsFiniteSet(members) /\ Cardinality(members) <= m
    PROVE  Cardinality(S) <= m * (1 + q)
<1> DEFINE Members(b) == {s \in S : group[s] = b}
           Numbering(b, f) == /\ f \in [Members(b) -> 1..m]
                              /\ \A x, y \in Members(b) : f[x] = f[y] => x = y
           numbering == [b \in 0..q |-> CHOOSE f : Numbering(b, f)]
           place == [s \in S |-> <<group[s], numbering[group[s]][s]>>]
           places == (0..q) \X (1..m)
<1>1. \A b \in 0..q : Numbering(b, numbering[b])
  <2>1. ASSUME NEW b \in 0..q PROVE \E f : Numbering(b, f)
    <3>1. IsFiniteSet(Members(b)) /\ Cardinality(Members(b)) <= m
      OBVIOUS
    <3> HIDE DEF Members
    <3>2. QED
      BY <3>1, NumberedSet
  <2> HIDE DEF Numbering
  <2>2. QED
    BY <2>1
<1>2. \A s \in S : group[s] \in 0..q /\ s \in Members(group[s])
  OBVIOUS
<1>3. ASSUME NEW s \in S PROVE numbering[group[s]][s] \in 1..m
  <2> DEFINE b == group[s]
  <2>1. b \in 0..q /\ s \in Members(b)
    BY <1>2
  <2> HIDE DEF b, Members
  <2>2. numbering[b] \in [Members(b) -> 1..m]
    BY <1>1, <2>1
  <2>3. QED
    BY <2>1, <2>2 DEF b
<1>4. \A x, y \in S : (group[x] = group[y]
                          /\ numbering[group[x]][x] = numbering[group[y]][y]) => x = y
  <2> SUFFICES ASSUME NEW x \in S, NEW y \in S, group[x] = group[y],
                      numbering[group[x]][x] = numbering[group[y]][y]
               PROVE  x = y
    OBVIOUS
  <2> DEFINE b == group[x]
  <2>1. b \in 0..q /\ x \in Members(b) /\ y \in Members(b)
    BY <1>2
  <2> HIDE DEF b, Members
  <2>2. Numbering(b, numbering[b]) /\ numbering[b][x] = numbering[b][y]
    BY <1>1, <2>1 DEF b
  <2>3. QED
    BY <2>1, <2>2
<1> HIDE DEF numbering
<1>5. place \in Injection(S, places)
  <2>1. place \in [S -> places]
    BY <1>2, <1>3
  <2>2. \A x, y \in S : place[x] = place[y] => x = y
    BY <1>4
  <2> HIDE DEF place, places
  <2>3. QED
    BY <2>1, <2>2, Fun_IsInj
<1>6. /\ IsFiniteSet(places) /\ Cardinality(places) = (q + 1) * m
  <2>1. /\ IsFiniteSet(0..q) /\ Cardinality(0..q) = q + 1
        /\ IsFiniteSet(1..m) /\ Cardinality(1..m) = m
    BY FS_Interval
  <2> DEFINE groups == 0..q
             numbers == 1..m
  <2> HIDE DEF groups, numbers
  <2>2. IsFiniteSet(groups) /\ IsFiniteSet(numbers)
    BY <2>1 DEF groups, numbers
  <2>3. /\ IsFiniteSet(groups \X numbers)
        /\ Cardinality(groups \X numbers) = Cardinality(groups) * Cardinality(numbers)
    BY <2>2, FS_Product
  <2>4. QED
    BY <2>1, <2>3 DEF groups, numbers
<1> HIDE DEF place, places
<1>7. Cardinality(S) <= Cardinality(places)
  BY <1>5, <1>6, FS_Injection
<1>8. QED
  BY <1>6, <1>7

\* Numbers a Window or more apart fall into different pieces of that length.
LEMMA Pieces ==
    ASSUME NEW x \in Nat, NEW y \in Nat
    PROVE  /\ x \div Window \in Nat
           /\ x <= y => x \div Window <= y \div Window
           /\ x + Window <= y => x \div Window < y \div Window
<1>1. /\ x \div Window \in Int /\ y \div Window \in Int
      /\ x % Window \in 0..(Window - 1) /\ y % Window \in 0..(Window - 1)
      /\ x = Window * (x \div Window) + (x % Window)
      /\ y = Window * (y \div Window) + (y % Window)
  OBVIOUS
<1>2. QED
  BY <1>1

\* In any stretch of a window's length, a client gets at most the quota of as
\* many windows as can begin, a window apart, between the earliest and the
\* latest start that a decision in this stretch can rest on.
THEOREM BurstsBounded == Spec => []BurstBound
<1>1. ASSUME BurstInv, NEW k \in Clients, NEW t \in 0..MaxTime
      PROVE  Cardinality({c \in Calls : /\ call[c].pc = "allowed"
                                        /\ call[c].client = k
                                        /\ call[c].at \in t..(t + Window - 1)})
                <= MaxRequests * (1 + (2 * Window - 2 + MaxDelay) \div Window)
  <2> DEFINE S == {c \in Calls : /\ call[c].pc = "allowed"
                                 /\ call[c].client = k
                                 /\ call[c].at \in t..(t + Window - 1)}
             stretch == 2 * Window - 2 + MaxDelay
             Offset(c) == call[c].window + Window + MaxDelay - 1 - t
             group == [c \in S |-> Offset(c) \div Window]
             q == stretch \div Window
  <2>1. \A c \in S : /\ call[c] \in Call /\ Decided(c)
                     /\ Offset(c) \in Nat /\ Offset(c) <= stretch
    <3> SUFFICES ASSUME NEW c \in S
                 PROVE  /\ call[c] \in Call /\ Decided(c)
                        /\ Offset(c) \in Nat /\ Offset(c) <= stretch
      OBVIOUS
    <3>1. call[c] \in Call /\ Decided(c) /\ call[c].at \in t..(t + Window - 1)
      BY <1>1 DEF BurstInv, IInv, TypeOK, Decided
    <3>2. /\ call[c].window <= call[c].at
          /\ call[c].at < call[c].window + Window + MaxDelay
      BY <1>1, <3>1 DEF BurstInv, TimingInv
    <3>3. call[c].window \in Nat /\ call[c].at \in Nat
      BY <3>1 DEF Call
    <3> HIDE DEF S
    <3>4. QED
      BY <3>1, <3>2, <3>3
  <2>2. stretch \in Nat /\ q \in Nat
    BY Pieces
  <2>3. group \in [S -> 0..q]
    <3>1. \A c \in S : Offset(c) \div Window \in 0..q
      <4> HIDE DEF S, Offset, stretch
      <4>1. QED
        BY <2>1, <2>2, Pieces
    <3>2. QED
      BY <3>1
  <2>4. \A c, d \in S : group[c] = group[d] => call[c].window = call[d].window
    <3> SUFFICES ASSUME NEW c \in S, NEW d \in S, call[c].window # call[d].window
                 PROVE  Offset(c) \div Window # Offset(d) \div Window
      OBVIOUS
    <3>1. \/ call[c].window >= call[d].window + Window
          \/ call[d].window >= call[c].window + Window
      BY <1>1, <2>1 DEF BurstInv, IInv, WindowsAreDisjoint
    <3>2. call[c].window \in Nat /\ call[d].window \in Nat
      BY <2>1 DEF Call
    <3> HIDE DEF S
    <3>3. Offset(d) + Window <= Offset(c) \/ Offset(c) + Window <= Offset(d)
      BY <3>1, <3>2
    <3> HIDE DEF Offset
    <3>4. /\ Offset(c) \in Nat /\ Offset(d) \in Nat
          /\ Offset(c) \div Window \in Nat /\ Offset(d) \div Window \in Nat
      BY <2>1, Pieces
    <3>5. Offset(c) \div Window < Offset(d) \div Window
             \/ Offset(d) \div Window < Offset(c) \div Window
      BY <3>3, <3>4, Pieces
    <3>6. QED
      BY <3>4, <3>5
  <2>5. ASSUME NEW b \in 0..q
        PROVE  LET members == {c \in S : group[c] = b}
               IN  IsFiniteSet(members) /\ Cardinality(members) <= MaxRequests
    <3> DEFINE members == {c \in S : group[c] = b}
    <3>1. CASE members = {}
      <4> HIDE DEF members
      <4>1. IsFiniteSet(members) /\ Cardinality(members) = 0
        BY <3>1, FS_EmptySet
      <4>2. QED
        BY <4>1 DEF members
    <3>2. CASE members # {}
      <4>1. PICK first \in members : TRUE
        BY <3>2
      <4> DEFINE window == call[first].window
      <4>2. members \subseteq AllowedIn(k, window)
        <5>1. \A c \in members : c \in S /\ call[c].window = window
          BY <2>4
        <5>2. QED
          BY <5>1 DEF AllowedIn
      <4>3. window \in Nat
        BY <2>1 DEF Call
      <4> HIDE DEF members, window
      <4>4. /\ IsFiniteSet(AllowedIn(k, window))
            /\ Cardinality(AllowedIn(k, window)) \in Nat
            /\ Cardinality(AllowedIn(k, window)) <= MaxRequests
        BY <1>1, <4>3, AllowedInFinite DEF BurstInv, IInv, QuotaEverywhere
      <4>5. IsFiniteSet(members) /\ Cardinality(members) <= Cardinality(AllowedIn(k, window))
        BY <4>2, <4>4, FS_Subset
      <4>6. Cardinality(members) \in Nat
        BY <4>5, FS_CardinalityType
      <4>7. QED
        BY <4>4, <4>5, <4>6 DEF members
    <3>3. QED
      BY <3>1, <3>2
  <2> HIDE DEF S, group, q
  <2>6. Cardinality(S) <= MaxRequests * (1 + q)
    BY <2>2, <2>3, <2>5, GroupsBound
  <2>7. QED
    BY <2>6 DEF S, q
<1>2. BurstInv => BurstBound
  BY <1>1 DEF BurstBound
<1>3. QED
  BY <1>2, BurstInvariance, PTL
=============================================================================
