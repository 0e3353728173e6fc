--------------------------- MODULE MetricsProofs ---------------------------
(***************************************************************************)
(* Proofs about the registry for any number of requests.                   *)
(*                                                                         *)
(* A counter is the number of requests whose increment of it has been      *)
(* made (CountersCount); the rest is about sets of requests.  What a       *)
(* snapshot has read is tied to the set of requests whose latencies it     *)
(* saw: each of them had made all its increments by then, and counters     *)
(* never go down.                                                          *)
(***************************************************************************)
EXTENDS Metrics, FiniteSetTheorems, FunctionTheorems, TLAPS

USE MetricsAssumption

\* What a request has pending is part of what its outcome increments; it
\* pushes its latency when nothing is pending.
PendingFits ==
    \A r \in Requests :
        /\ recording[r].outcome = NoSample =>
              recording[r].pending = {} /\ ~recording[r].pushed
        /\ recording[r].outcome # NoSample =>
              recording[r].pending \subseteq Increments(recording[r].outcome)
        /\ recording[r].pushed => recording[r].pending = {}

RecordedSet == {r \in Requests : Recorded(r)}

\* The requests of S whose outcome increments c.
Share(S, c) == {r \in S : c \in Increments(recording[r].outcome)}

\* S is a set of requests whose latencies the snapshot has seen.
Seen(S) ==
    /\ S \subseteq RecordedSet
    /\ snapshot.samples = Cardinality(S)
    /\ \A c \in Counters : snapshot.loaded[c] # NoSample =>
          Cardinality(Share(S, c)) <= snapshot.loaded[c]

SnapshotSaw == snapshot.samples # NoSample => \E S \in SUBSET Requests : Seen(S)

\* While nothing is recorded, the counters stay as the snapshot reads them.
QuietStaysExact ==
    snapshot.quiet =>
        /\ \A r \in Requests : ~UnderWay(r)
        /\ snapshot.samples = Len(latencies)
        /\ \A c \in Counters :
              snapshot.loaded[c] # NoSample => snapshot.loaded[c] = counter[c]

\* Nothing is loaded before the latencies have been read.
LoadsComeLast ==
    /\ snapshot.pool # NoSample => snapshot.samples # NoSample
    /\ \A c \in Counters : snapshot.loaded[c] # NoSample => snapshot.samples # NoSample

MetricsInv ==
    /\ MetricsTypeOK
    /\ PendingFits
    /\ CountersCount
    /\ LoadsComeLast
    /\ SnapshotSaw
    /\ QuietStaysExact

-----------------------------------------------------------------------------
(* Facts about the sets that are counted.                                  *)

\* Every set of requests is finite, and smaller sets count less.
LEMMA RequestSets ==
    ASSUME NEW S \in SUBSET Requests
    PROVE  /\ IsFiniteSet(S)
           /\ Cardinality(S) \in Nat
           /\ \A T \in SUBSET S : Cardinality(T) <= Cardinality(S)
<1>1. IsFiniteSet(S)
  BY FS_Subset
<1>2. \A T \in SUBSET S : Cardinality(T) <= Cardinality(S)
  BY <1>1, FS_Subset
<1>3. QED
  BY <1>1, <1>2, FS_CardinalityType

\* A set of requests with outcomes splits into those that increment
\* "accepted" and those that increment "rejected".
LEMMA SharesAddUp ==
    ASSUME MetricsTypeOK, NEW S \in SUBSET Requests,
           \A r \in S : recording[r].outcome # NoSample
    PROVE  /\ Share(S, "total") = S
           /\ Cardinality(S) =
                Cardinality(Share(S, "accepted")) + Cardinality(Share(S, "rejected"))
           /\ Share(S, "backend_errors") \subseteq Share(S, "rejected")
<1>1. \A r \in S : recording[r].outcome \in Outcomes
  BY DEF MetricsTypeOK, Recording
<1>2. Share(S, "total") = S
  BY <1>1 DEF Share, Increments, Outcomes
<1>3. Share(S, "backend_errors") \subseteq Share(S, "rejected")
  BY <1>1 DEF Share, Increments, Outcomes
<1>4. /\ Share(S, "accepted") \cup Share(S, "rejected") = S
      /\ Share(S, "accepted") \cap Share(S, "rejected") = {}
  BY <1>1 DEF Share, Increments, Outcomes
<1>5. /\ Share(S, "accepted") \in SUBSET Requests
      /\ Share(S, "rejected") \in SUBSET Requests
  BY DEF Share
<1>6. Cardinality(S) = Cardinality(Share(S, "accepted"))
                         + Cardinality(Share(S, "rejected")) - Cardinality({})
  BY ONLY <1>4, <1>5, RequestSets, FS_Union
<1>7. QED
  BY <1>2, <1>3, <1>5, <1>6, RequestSets, FS_EmptySet

\* A recorder that is done has made all its increments.
LEMMA RecordedAreCounted ==
    ASSUME MetricsTypeOK, PendingFits, NEW c \in Counters, NEW S \in SUBSET RecordedSet
    PROVE  /\ \A r \in S : recording[r].outcome # NoSample
           /\ Share(S, c) \subseteq Counted(c)
  BY DEF PendingFits, RecordedSet, Recorded, Share, Counted

-----------------------------------------------------------------------------
(* The steps.                                                              *)

\* What a snapshot has seen stays recorded.
LEMMA SawPersists ==
    ASSUME SnapshotSaw,
           snapshot'.samples = snapshot.samples, snapshot'.loaded = snapshot.loaded,
           \A r \in RecordedSet : /\ recording'[r].pushed
                                  /\ recording'[r].outcome = recording[r].outcome
    PROVE  SnapshotSaw'
<1> SUFFICES ASSUME snapshot'.samples # NoSample
             PROVE  \E S \in SUBSET Requests : Seen(S)'
  BY DEF SnapshotSaw
<1>1. PICK S \in SUBSET Requests : Seen(S)
  BY DEF SnapshotSaw
<1>2. S \subseteq RecordedSet /\ S \subseteq RecordedSet'
  BY <1>1 DEF Seen, RecordedSet, Recorded
<1>3. \A c \in Counters : Share(S, c)' = Share(S, c)
  BY <1>2 DEF Share
<1>4. Seen(S)'
  BY <1>1, <1>2, <1>3 DEF Seen
<1>5. QED
  BY <1>4

\* The registry starts with nothing recorded or read.
LEMMA RegistryInit == MetricsInit => MetricsInv
<1> SUFFICES ASSUME MetricsInit PROVE MetricsInv
  OBVIOUS
<1>1. MetricsTypeOK
  <2>1. recording \in [Requests -> Recording]
    BY DEF MetricsInit, Recording, Idle
  <2>2. latencies \in Seq(Latencies)
    BY DEF MetricsInit
  <2>3. QED
    BY <2>1, <2>2 DEF MetricsInit, MetricsTypeOK, Unread
<1>2. \A r \in Requests : recording[r] = Idle
  BY DEF MetricsInit
<1>3. (\A c \in Counters : Counted(c) = {}) /\ {r \in Requests : Recorded(r)} = {}
  BY <1>2 DEF Counted, Recorded, Idle
<1>4. CountersCount
  BY <1>3, FS_EmptySet DEF CountersCount, MetricsInit
<1>5. /\ snapshot.samples = NoSample /\ snapshot.quiet = FALSE
      /\ snapshot.pool = NoSample
      /\ \A c \in Counters : snapshot.loaded[c] = NoSample
  BY DEF MetricsInit, Unread
<1>6. QED
  BY <1>1, <1>2, <1>4, <1>5 DEF MetricsInv, PendingFits, Idle, LoadsComeLast,
     SnapshotSaw, QuietStaysExact

\* A request that begins to record has counted nothing yet.
LEMMA StartRecordingPreserves ==
    ASSUME MetricsInv, NEW r \in Requests, NEW outcome \in Outcomes,
           StartRecording(r, outcome)
    PROVE  MetricsInv'
<1> USE DEF StartRecording
<1>1. Increments(outcome) \subseteq Counters
  BY DEF Increments, Outcomes, Counters
<1>2. MetricsTypeOK'
  BY <1>1 DEF MetricsInv, MetricsTypeOK, Recording
<1>3. recording[r].pending = {} /\ ~recording[r].pushed
  BY DEF MetricsInv, PendingFits
<1>4. /\ recording'[r] = [outcome |-> outcome, pending |-> Increments(outcome),
                          pushed |-> FALSE]
      /\ \A q \in Requests \ {r} : recording'[q] = recording[q]
  BY DEF MetricsInv, MetricsTypeOK
<1>5. PendingFits'
  BY <1>3, <1>4 DEF MetricsInv, PendingFits
<1>6. \A c \in Counters : Counted(c)' = Counted(c)
  BY <1>4 DEF Counted
<1>7. {q \in Requests : Recorded(q)}' = {q \in Requests : Recorded(q)}
  BY <1>3, <1>4 DEF Recorded
<1>8. CountersCount'
  BY <1>6, <1>7 DEF MetricsInv, CountersCount
<1>9. /\ snapshot'.samples = snapshot.samples /\ snapshot'.loaded = snapshot.loaded
      /\ snapshot'.pool = snapshot.pool /\ snapshot'.quiet = FALSE
  BY DEF MetricsInv, MetricsTypeOK
<1>10. SnapshotSaw'
  <2>1. \A q \in RecordedSet : /\ recording'[q].pushed
                               /\ recording'[q].outcome = recording[q].outcome
    BY <1>3, <1>4 DEF RecordedSet, Recorded
  <2>2. QED
    BY <1>9, <2>1, SawPersists DEF MetricsInv
<1>11. QED
  BY <1>2, <1>5, <1>8, <1>9, <1>10 DEF MetricsInv, LoadsComeLast, QuietStaysExact

\* An increment counts one request more, which had not been counted.
LEMMA IncrementPreserves ==
    ASSUME MetricsInv, NEW r \in Requests, NEW c \in Counters, Increment(r, c)
    PROVE  MetricsInv'
<1> USE DEF Increment
<1>1. MetricsTypeOK'
  <2>1. recording' \in [Requests -> Recording]
    BY DEF MetricsInv, MetricsTypeOK, Recording
  <2>2. counter' \in [Counters -> Nat]
    BY DEF MetricsInv, MetricsTypeOK
  <2>3. QED
    BY <2>1, <2>2 DEF MetricsInv, MetricsTypeOK
<1>2. /\ recording'[r].outcome = recording[r].outcome
      /\ recording'[r].pending = recording[r].pending \ {c}
      /\ recording'[r].pushed = recording[r].pushed
      /\ \A q \in Requests \ {r} : recording'[q] = recording[q]
  BY DEF MetricsInv, MetricsTypeOK, Recording
<1>3. /\ recording[r].outcome # NoSample /\ ~recording[r].pushed
      /\ c \in Increments(recording[r].outcome)
  BY DEF MetricsInv, PendingFits
<1>4. PendingFits'
  BY <1>2, <1>3 DEF MetricsInv, PendingFits
<1>5. r \notin Counted(c) /\ Counted(c)' = Counted(c) \cup {r}
  BY <1>2, <1>3 DEF Counted
<1>6. \A d \in Counters \ {c} : Counted(d)' = Counted(d)
  BY <1>2 DEF Counted
<1>7. {q \in Requests : Recorded(q)}' = {q \in Requests : Recorded(q)}
  BY <1>2 DEF Recorded
<1>8. Counted(c) \in SUBSET Requests
  BY DEF Counted
<1>9. Cardinality(Counted(c) \cup {r}) = Cardinality(Counted(c)) + 1
  BY ONLY <1>5, <1>8, RequestSets, FS_AddElement
<1>10. /\ counter'[c] = counter[c] + 1
       /\ \A d \in Counters \ {c} : counter'[d] = counter[d]
  BY DEF MetricsInv, MetricsTypeOK
<1>11. CountersCount'
  BY <1>5, <1>6, <1>7, <1>9, <1>10 DEF MetricsInv, CountersCount
<1>12. SnapshotSaw'
  <2>1. \A q \in RecordedSet : /\ recording'[q].pushed
                               /\ recording'[q].outcome = recording[q].outcome
    BY <1>2 DEF RecordedSet, Recorded
  <2>2. QED
    BY <2>1, SawPersists DEF MetricsInv
<1>13. ~snapshot.quiet
  BY <1>3 DEF MetricsInv, QuietStaysExact, UnderWay
<1>14. QED
  BY <1>1, <1>4, <1>11, <1>12, <1>13 DEF MetricsInv, LoadsComeLast, QuietStaysExact

\* A pushed latency is that of one request more.
LEMMA PushLatencyPreserves ==
    ASSUME MetricsInv, NEW r \in Requests, PushLatency(r)
    PROVE  MetricsInv'
<1> USE DEF PushLatency
<1>1. MetricsTypeOK'
  <2>1. recording[r] \in Recording /\ MetricsTypeOK
    BY DEF MetricsInv, MetricsTypeOK
  <2>2. [recording[r] EXCEPT !.pushed = TRUE] \in Recording
    BY <2>1 DEF Recording
  <2>3. recording' \in [Requests -> Recording]
    BY <2>1, <2>2 DEF MetricsTypeOK
  <2>4. latencies' \in Seq(Latencies)
    BY <2>1 DEF MetricsTypeOK
  <2>5. QED
    BY <2>1, <2>3, <2>4 DEF MetricsTypeOK
<1>2. /\ recording'[r].outcome = recording[r].outcome
      /\ recording'[r].pending = recording[r].pending
      /\ recording'[r].pushed
      /\ \A q \in Requests \ {r} : recording'[q] = recording[q]
  BY DEF MetricsInv, MetricsTypeOK, Recording
<1>3. recording[r].outcome # NoSample /\ ~recording[r].pushed
  BY DEF UnderWay
<1>4. PendingFits'
  BY <1>2, <1>3 DEF MetricsInv, PendingFits
<1>5. \A c \in Counters : Counted(c)' = Counted(c)
  BY <1>2 DEF Counted
<1>6. r \notin RecordedSet /\ RecordedSet' = RecordedSet \cup {r}
  BY <1>2, <1>3 DEF RecordedSet, Recorded
<1>7. RecordedSet \in SUBSET Requests
  BY DEF RecordedSet
<1>8. Cardinality(RecordedSet \cup {r}) = Cardinality(RecordedSet) + 1
  BY ONLY <1>6, <1>7, RequestSets, FS_AddElement
<1>9. CountersCount'
  <2>1. Len(latencies) = Cardinality(RecordedSet)
    BY DEF MetricsInv, CountersCount, RecordedSet
  <2>2. Len(latencies') = Cardinality(RecordedSet')
    <3>1. Len(latencies') = Len(latencies) + 1
      BY DEF MetricsInv, MetricsTypeOK
    <3>2. QED
      BY <1>6, <1>8, <2>1, <3>1
  <2>3. QED
    BY <1>5, <2>2 DEF MetricsInv, CountersCount, RecordedSet
<1>10. SnapshotSaw'
  <2>1. \A q \in RecordedSet : /\ recording'[q].pushed
                               /\ recording'[q].outcome = recording[q].outcome
    BY <1>2 DEF RecordedSet, Recorded
  <2>2. QED
    BY <2>1, SawPersists DEF MetricsInv
<1>11. ~snapshot.quiet
  BY DEF MetricsInv, QuietStaysExact
<1>12. QED
  BY <1>1, <1>4, <1>9, <1>10, <1>11 DEF MetricsInv, LoadsComeLast, QuietStaysExact

\* The pool reading is no part of the counting.
LEMMA SetPoolMetricsPreserves ==
    ASSUME MetricsInv, SetPoolMetrics
    PROVE  MetricsInv'
<1> USE DEF SetPoolMetrics
<1>1. MetricsTypeOK'
  BY DEF MetricsInv, MetricsTypeOK
<1>2. SnapshotSaw'
  BY SawPersists DEF MetricsInv, RecordedSet, Recorded
<1>3. PendingFits' /\ LoadsComeLast'
  BY DEF MetricsInv, PendingFits, LoadsComeLast
<1>4. CountersCount' /\ QuietStaysExact'
  BY DEF MetricsInv, CountersCount, QuietStaysExact, Counted, Recorded, UnderWay
<1>5. QED
  BY <1>1, <1>2, <1>3, <1>4 DEF MetricsInv

\* A snapshot that begins sees the latencies of the requests recorded so far.
LEMMA ReadLatenciesPreserves ==
    ASSUME MetricsInv, ReadLatencies
    PROVE  MetricsInv'
<1> USE DEF ReadLatencies
<1>1. /\ snapshot'.samples = Len(latencies)
      /\ snapshot'.loaded = [c \in Counters |-> NoSample]
      /\ snapshot'.quiet = \A r \in Requests : ~UnderWay(r)
      /\ snapshot'.pool = NoSample
  BY DEF Unread
<1>2. MetricsTypeOK'
  <2>1. Len(latencies) \in Nat
    BY DEF MetricsInv, MetricsTypeOK
  <2>2. [c \in Counters |-> NoSample] \in [Counters -> Nat \cup {NoSample}]
    OBVIOUS
  <2>3. PICK n, loads, quiet : /\ n = Len(latencies)
                               /\ loads = [c \in Counters |-> NoSample]
                               /\ quiet = \A r \in Requests : ~UnderWay(r)
    OBVIOUS
  <2>4. snapshot' = [samples |-> n, pool |-> NoSample, loaded |-> loads, quiet |-> quiet]
    BY <2>3 DEF Unread
  <2>5. snapshot' \in [samples : Nat \cup {NoSample}, pool : BOOLEAN \cup {NoSample},
                       loaded : [Counters -> Nat \cup {NoSample}], quiet : BOOLEAN]
    <3>1. n \in Nat /\ loads \in [Counters -> Nat \cup {NoSample}] /\ quiet \in BOOLEAN
      BY <2>1, <2>2, <2>3
    <3>2. QED
      BY ONLY <2>4, <3>1
  <2>6. QED
    BY <2>5 DEF MetricsInv, MetricsTypeOK
<1>3. PendingFits' /\ CountersCount'
  BY DEF MetricsInv, PendingFits, CountersCount, Counted, Recorded
<1>4. Len(latencies) \in Nat /\ Len(latencies) # NoSample
  BY DEF MetricsInv, MetricsTypeOK
<1>5. \A c \in Counters : snapshot'.loaded[c] = NoSample
  BY <1>1
<1>6. LoadsComeLast'
  BY <1>1, <1>5 DEF LoadsComeLast
<1>7. SnapshotSaw'
  <2>1. PICK S \in SUBSET Requests : S = RecordedSet
    BY DEF RecordedSet
  <2>2. Len(latencies) = Cardinality(S)
    BY <2>1 DEF MetricsInv, CountersCount, RecordedSet
  <2>3. S \subseteq RecordedSet'
    BY <2>1 DEF RecordedSet, Recorded
  <2>4. Seen(S)'
    BY <1>1, <1>5, <2>2, <2>3 DEF Seen
  <2>5. QED
    BY <2>4 DEF SnapshotSaw
<1>8. QuietStaysExact'
  <2>1. snapshot'.quiet => \A r \in Requests : UnderWay(r)' = FALSE
    BY <1>1 DEF UnderWay
  <2>2. QED
    BY <1>1, <1>5, <2>1 DEF QuietStaysExact
<1>9. QED
  BY <1>2, <1>3, <1>6, <1>7, <1>8 DEF MetricsInv

\* The pool reading is no part of what a snapshot says of the requests.
LEMMA ReadPoolPreserves ==
    ASSUME MetricsInv, ReadPool
    PROVE  MetricsInv'
<1> USE DEF ReadPool
<1>1. /\ snapshot'.samples = snapshot.samples
      /\ snapshot'.loaded = snapshot.loaded
      /\ snapshot'.quiet = snapshot.quiet
  BY DEF MetricsInv, MetricsTypeOK
<1>2. MetricsTypeOK'
  BY DEF MetricsInv, MetricsTypeOK
<1>3. PendingFits' /\ CountersCount'
  BY DEF MetricsInv, PendingFits, CountersCount, Counted, Recorded
<1>4. SnapshotSaw'
  BY <1>1, SawPersists DEF MetricsInv, RecordedSet, Recorded
<1>5. LoadsComeLast' /\ QuietStaysExact'
  BY <1>1 DEF MetricsInv, LoadsComeLast, QuietStaysExact, UnderWay
<1>6. QED
  BY <1>2, <1>3, <1>4, <1>5 DEF MetricsInv

\* A load reads a counter that has counted all the requests seen.
LEMMA LoadPreserves ==
    ASSUME MetricsInv, NEW c \in Counters, Load(c)
    PROVE  MetricsInv'
<1> USE DEF Load
<1>1. /\ snapshot'.samples = snapshot.samples
      /\ snapshot'.quiet = snapshot.quiet
      /\ snapshot'.loaded[c] = counter[c]
      /\ \A d \in Counters \ {c} : snapshot'.loaded[d] = snapshot.loaded[d]
  BY DEF MetricsInv, MetricsTypeOK
<1>2. MetricsTypeOK'
  BY DEF MetricsInv, MetricsTypeOK
<1>3. PendingFits' /\ CountersCount'
  BY DEF MetricsInv, PendingFits, CountersCount, Counted, Recorded
<1>4. snapshot.samples # NoSample
  BY DEF MetricsInv, LoadsComeLast
<1>5. SnapshotSaw'
  <2>1. PICK S \in SUBSET Requests : Seen(S)
    BY <1>4 DEF MetricsInv, SnapshotSaw
  <2>2. S \subseteq RecordedSet'
    BY <2>1 DEF Seen, RecordedSet, Recorded
  <2>3. Cardinality(Share(S, c)) <= counter[c]
    <3>1. Share(S, c) \subseteq Counted(c)
      BY <2>1, RecordedAreCounted DEF MetricsInv, Seen
    <3>2. Counted(c) \in SUBSET Requests
      BY DEF Counted
    <3>3. counter[c] = Cardinality(Counted(c))
      BY DEF MetricsInv, CountersCount
    <3>4. QED
      BY <3>1, <3>2, <3>3, RequestSets
  <2>4. \A d \in Counters : Share(S, d)' = Share(S, d)
    BY DEF Share
  <2>5. Seen(S)'
    BY <1>1, <2>1, <2>2, <2>3, <2>4 DEF Seen
  <2>6. QED
    BY <2>5 DEF SnapshotSaw
<1>6. LoadsComeLast' /\ QuietStaysExact'
  BY <1>1, <1>4 DEF MetricsInv, LoadsComeLast, QuietStaysExact, UnderWay
<1>7. QED
  BY <1>2, <1>3, <1>5, <1>6 DEF MetricsInv

-----------------------------------------------------------------------------
(* What follows from the invariant.                                        *)

\* A registry at rest balances.
LEMMA RestBalances ==
    ASSUME MetricsInv
    PROVE  BalancedAtRest
<1> SUFFICES ASSUME \A r \in Requests : ~UnderWay(r)
             PROVE  /\ counter["total"] = counter["accepted"] + counter["rejected"]
                    /\ counter["total"] = Len(latencies)
                    /\ counter["backend_errors"] <= counter["rejected"]
  BY DEF BalancedAtRest
<1>1. \A r \in Requests : recording[r].outcome # NoSample <=> r \in RecordedSet
  BY DEF MetricsInv, PendingFits, RecordedSet, Recorded, UnderWay
<1>2. \A c \in Counters : Counted(c) = Share(RecordedSet, c)
  BY <1>1 DEF MetricsInv, PendingFits, Counted, Share, RecordedSet, Recorded
<1>3. \A c \in Counters : counter[c] = Cardinality(Share(RecordedSet, c))
  BY <1>2 DEF MetricsInv, CountersCount
<1>4. Len(latencies) = Cardinality(RecordedSet)
  BY DEF MetricsInv, CountersCount, RecordedSet
<1>5. RecordedSet \in SUBSET Requests
  BY DEF RecordedSet
<1>6. /\ Share(RecordedSet, "total") = RecordedSet
      /\ Cardinality(RecordedSet) = Cardinality(Share(RecordedSet, "accepted"))
                                       + Cardinality(Share(RecordedSet, "rejected"))
      /\ Share(RecordedSet, "backend_errors") \subseteq Share(RecordedSet, "rejected")
  BY <1>1, <1>5, SharesAddUp DEF MetricsInv
<1>7. Share(RecordedSet, "rejected") \in SUBSET Requests
  BY DEF Share, RecordedSet
<1>8. Cardinality(Share(RecordedSet, "backend_errors"))
        <= Cardinality(Share(RecordedSet, "rejected"))
  BY <1>6, <1>7, RequestSets
<1>9. QED
  BY <1>3, <1>4, <1>6, <1>8 DEF Counters

\* A finished snapshot covers the requests whose latencies it saw.
LEMMA SnapshotCovers ==
    ASSUME MetricsInv
    PROVE  SnapshotCoversItsSamples
<1> SUFFICES ASSUME SnapshotTaken
             PROVE  /\ snapshot.samples <= snapshot.loaded["total"]
                    /\ snapshot.samples <= snapshot.loaded["accepted"]
                                             + snapshot.loaded["rejected"]
  BY DEF SnapshotCoversItsSamples
<1>1. /\ {"total", "accepted", "rejected"} \subseteq Counters
      /\ \A c \in Counters : snapshot.loaded[c] \in Nat
  BY DEF Counters, SnapshotTaken, MetricsInv, MetricsTypeOK
<1>2. snapshot.samples # NoSample
  BY <1>1 DEF MetricsInv, LoadsComeLast, SnapshotTaken
<1>3. PICK S \in SUBSET Requests : Seen(S)
  BY <1>2 DEF MetricsInv, SnapshotSaw
<1>4. \A c \in Counters : Cardinality(Share(S, c)) <= snapshot.loaded[c]
  BY <1>3 DEF Seen, SnapshotTaken
<1>5. \A r \in S : recording[r].outcome # NoSample
  BY <1>3 DEF MetricsInv, PendingFits, Seen, RecordedSet, Recorded
<1>6. /\ Share(S, "total") = S
      /\ Cardinality(S) =
           Cardinality(Share(S, "accepted")) + Cardinality(Share(S, "rejected"))
  BY <1>5, SharesAddUp DEF MetricsInv
<1>7. \A c \in Counters : Cardinality(Share(S, c)) \in Nat
  BY RequestSets DEF Share
<1>8. snapshot.samples = Cardinality(S)
  BY <1>3 DEF Seen
<1>9. QED
  BY <1>1, <1>4, <1>6, <1>7, <1>8

\* A finished snapshot during which nothing was recorded reads a registry
\* at rest.
LEMMA QuietIsExact ==
    ASSUME MetricsInv
    PROVE  QuietSnapshotIsExact
  BY RestBalances DEF MetricsInv, QuietStaysExact, QuietSnapshotIsExact,
     BalancedAtRest, SnapshotTaken, Counters

-----------------------------------------------------------------------------
\* Every step of the registry preserves the invariant.
THEOREM RegistryStep == MetricsInv /\ [MetricsNext]_metricVars => MetricsInv'
<1> SUFFICES ASSUME MetricsInv, [MetricsNext]_metricVars PROVE MetricsInv'
  OBVIOUS
<1>1. CASE UNCHANGED metricVars
  <2>1. SnapshotSaw'
    BY <1>1, SawPersists DEF MetricsInv, metricVars, RecordedSet, Recorded
  <2>2. MetricsTypeOK' /\ PendingFits' /\ CountersCount'
    BY <1>1 DEF MetricsInv, metricVars, MetricsTypeOK, PendingFits, CountersCount,
       Counted, Recorded
  <2>3. LoadsComeLast' /\ QuietStaysExact'
    BY <1>1 DEF MetricsInv, metricVars, LoadsComeLast, QuietStaysExact, UnderWay
  <2>4. QED
    BY <2>1, <2>2, <2>3 DEF MetricsInv
<1>2. CASE \E r \in Requests, outcome \in Outcomes : StartRecording(r, outcome)
  BY <1>2, StartRecordingPreserves
<1>3. CASE \E r \in Requests : RecordingStep(r)
  BY <1>3, IncrementPreserves, PushLatencyPreserves DEF RecordingStep
<1>4. CASE SetPoolMetrics
  BY <1>4, SetPoolMetricsPreserves
<1>5. CASE ReadLatencies
  BY <1>5, ReadLatenciesPreserves
<1>6. CASE ReadPool
  BY <1>6, ReadPoolPreserves
<1>7. CASE \E c \in Counters : Load(c)
  BY <1>7, LoadPreserves
<1>8. QED
  BY <1>1, <1>2, <1>3, <1>4, <1>5, <1>6, <1>7 DEF MetricsNext

\* The invariant holds of every behaviour of the registry.
THEOREM RegistryInvariance == MetricsSpec => []MetricsInv
  BY RegistryInit, RegistryStep, PTL DEF MetricsSpec

\* The counters, latencies and snapshots always have their types.
THEOREM RegistryTyped == MetricsSpec => []MetricsTypeOK
<1>1. MetricsInv => MetricsTypeOK
  BY DEF MetricsInv
<1>2. QED
  BY <1>1, RegistryInvariance, PTL

\* Whenever no request is recording, every request is accepted or rejected,
\* every backend error is also a rejection, and each has one latency.
THEOREM RegistryBalances == MetricsSpec => []BalancedAtRest
<1>1. MetricsInv => BalancedAtRest
  BY RestBalances
<1>2. QED
  BY <1>1, RegistryInvariance, PTL

\* A snapshot taken under fire never misses a request it has a latency of.
THEOREM SnapshotsCover == MetricsSpec => []SnapshotCoversItsSamples
<1>1. MetricsInv => SnapshotCoversItsSamples
  BY SnapshotCovers
<1>2. QED
  BY <1>1, RegistryInvariance, PTL

\* A snapshot during which nothing was recorded is exact.
THEOREM QuietSnapshotsExact == MetricsSpec => []QuietSnapshotIsExact
<1>1. MetricsInv => QuietSnapshotIsExact
  BY QuietIsExact
<1>2. QED
  BY <1>1, RegistryInvariance, PTL

-----------------------------------------------------------------------------
(* The percentiles, for any number of latencies.                           *)

\* The index is inside the values, and the rank it stands for, one more, is
\* the smallest that reaches the percentage.
LEMMA PercentileIndexIsRank ==
    ASSUME NEW n \in Nat \ {0}, NEW percent \in 1..100
    PROVE  /\ PercentileIndex(n, percent) \in 0..(n - 1)
           /\ 100 * (PercentileIndex(n, percent) + 1) >= percent * n
           /\ 100 * PercentileIndex(n, percent) < percent * n
<1>1. PICK m \in Nat : m = n * percent
  OBVIOUS
<1>2. 1 <= m /\ m <= 100 * n /\ m = percent * n
  BY <1>1
<1>3. PercentileIndex(n, percent) = (m - 1) \div 100
  BY <1>1, <1>2 DEF PercentileIndex
<1>4. PICK i \in Nat : i = (m - 1) \div 100
  BY <1>2
<1>5. 100 * i <= m - 1 /\ m - 1 < 100 * (i + 1)
  BY <1>2, <1>4
<1>6. QED
  BY <1>2, <1>3, <1>4, <1>5

\* The value at the index of a percentile in sorted values is the one of the
\* nearest rank, however many values there are and whichever are equal.
THEOREM PercentileByRank ==
    ASSUME NEW values \in Seq(Nat), values # <<>>, NEW percent \in 1..100,
           \A i, j \in DOMAIN values : i <= j => values[i] <= values[j]
    PROVE  IsPercentile(values[PercentileIndex(Len(values), percent) + 1], values, percent)
<1>1. PICK n \in Nat \ {0} : n = Len(values) /\ DOMAIN values = 1..n
  OBVIOUS
<1>2. PICK i \in 0..(n - 1), m \in Nat : /\ i = PercentileIndex(n, percent)
                                         /\ m = percent * n
                                         /\ 100 * (i + 1) >= m /\ 100 * i < m
  <2>1. PICK m \in Nat : m = percent * n
    OBVIOUS
  <2>2. PICK i \in 0..(n - 1) : i = PercentileIndex(n, percent)
    BY PercentileIndexIsRank
  <2>3. 100 * (i + 1) >= m /\ 100 * i < m
    BY <2>1, <2>2, PercentileIndexIsRank
  <2>4. QED
    BY <2>1, <2>2, <2>3
<1> DEFINE v == values[i + 1]
           UpTo(bound) == {k \in DOMAIN values : values[k] <= bound}
<1>3. \A bound : IsFiniteSet(UpTo(bound)) /\ Cardinality(UpTo(bound)) \in Nat
  <2>1. IsFiniteSet(1..n)
    BY FS_Interval
  <2>2. QED
    BY <1>1, <2>1, FS_Subset, FS_CardinalityType
<1>4. 100 * Cardinality(UpTo(v)) >= m
  <2>1. 1..(i + 1) \subseteq UpTo(v)
    BY <1>1
  <2>2. Cardinality(1..(i + 1)) = i + 1
    BY FS_Interval
  <2>3. Cardinality(1..(i + 1)) <= Cardinality(UpTo(v))
    BY <1>3, <2>1, FS_Subset
  <2>4. PICK card \in Nat : card = Cardinality(UpTo(v))
    BY <1>3
  <2>5. QED
    BY <1>2, <2>2, <2>3, <2>4
<1>5. ASSUME NEW k \in DOMAIN values, values[k] < v
      PROVE  ~(100 * Cardinality(UpTo(values[k])) >= m)
  <2>1. UpTo(values[k]) \subseteq 1..i
    BY <1>1, <1>5
  <2>2. IsFiniteSet(1..i) /\ Cardinality(1..i) = i
    <3>1. 1 \in Int /\ i \in Int
      OBVIOUS
    <3>2. /\ IsFiniteSet(1..i)
          /\ Cardinality(1..i) = IF 1 > i THEN 0 ELSE i - 1 + 1
      BY ONLY <3>1, FS_Interval
    <3>3. QED
      BY <3>2
  <2>3. Cardinality(UpTo(values[k])) <= i
    BY <2>1, <2>2, FS_Subset
  <2>4. PICK card \in Nat : card = Cardinality(UpTo(values[k]))
    BY <1>3
  <2>5. QED
    BY <1>2, <2>3, <2>4
<1>6. i + 1 \in DOMAIN values
  BY <1>1
<1>7. QED
  BY <1>1, <1>2, <1>4, <1>5, <1>6 DEF IsPercentile

-----------------------------------------------------------------------------
(* Sorting.  That an ascending arrangement exists needs no induction: the    *)
(* place of a value is the number of those that come before it, itself       *)
(* included, and no two have the same.                                       *)

\* Every sequence of numbers has an ascending arrangement.
LEMMA ArrangementExists ==
    ASSUME NEW values \in Seq(Nat)
    PROVE  \E p \in Bijection(DOMAIN values, DOMAIN values) :
              \A i, j \in DOMAIN values : i < j => values[p[i]] <= values[p[j]]
<1>1. PICK n \in Nat : n = Len(values) /\ DOMAIN values = 1..n
  OBVIOUS
<1> DEFINE places == DOMAIN values
           Before(i) == {j \in places : \/ values[j] < values[i]
                                        \/ values[j] = values[i] /\ j <= i}
           place == [i \in places |-> Cardinality(Before(i))]
<1>2. /\ IsFiniteSet(places) /\ Cardinality(places) = n
      /\ \A i \in places : i \in Nat /\ values[i] \in Nat
  <2>1. IsFiniteSet(1..n) /\ Cardinality(1..n) = n
    BY FS_Interval
  <2>2. QED
    BY <1>1, <2>1
<1>3. ASSUME NEW i \in places
      PROVE  /\ IsFiniteSet(Before(i)) /\ i \in Before(i)
             /\ Cardinality(Before(i)) \in 1..n
  <2>1. Before(i) \in SUBSET places /\ i \in Before(i)
    BY <1>2
  <2> HIDE DEF places, Before
  <2>2. IsFiniteSet(Before(i)) /\ Cardinality(Before(i)) <= n
    BY <1>2, <2>1, FS_Subset
  <2>3. Cardinality(Before(i)) \in Nat /\ Cardinality(Before(i)) # 0
    BY <2>1, <2>2, FS_CardinalityType, FS_EmptySet
  <2>4. QED
    BY <2>1, <2>2, <2>3
<1>4. ASSUME NEW i \in places, NEW k \in places, k \notin Before(i)
      PROVE  Cardinality(Before(i)) < Cardinality(Before(k))
  <2>1. Before(i) \in SUBSET Before(k)
    BY <1>2, <1>4
  <2> HIDE DEF places, Before
  <2>2. /\ IsFiniteSet(Before(k)) /\ k \in Before(k)
        /\ Cardinality(Before(i)) \in Nat /\ Cardinality(Before(k)) \in Nat
    BY <1>3
  <2>3. /\ Cardinality(Before(i)) <= Cardinality(Before(k))
        /\ Cardinality(Before(i)) = Cardinality(Before(k)) => Before(i) = Before(k)
    BY <2>1, <2>2, FS_Subset
  <2>4. QED
    BY <1>4, <2>2, <2>3
<1>5. place \in Injection(places, places)
  <2>1. place \in [places -> places]
    <3>1. \A i \in places : Cardinality(Before(i)) \in places
      BY <1>1, <1>3
    <3> HIDE DEF places, Before
    <3>2. QED
      BY <3>1
  <2>2. ASSUME NEW i \in places, NEW k \in places, place[i] = place[k]
        PROVE  i = k
    <3>1. i # k => k \notin Before(i) \/ i \notin Before(k)
      BY <1>2
    <3> HIDE DEF places, Before
    <3>2. /\ Cardinality(Before(i)) = Cardinality(Before(k))
          /\ Cardinality(Before(i)) \in Nat
      BY <1>3, <2>2
    <3>3. k \notin Before(i) => Cardinality(Before(i)) < Cardinality(Before(k))
      BY <1>4
    <3>4. i \notin Before(k) => Cardinality(Before(k)) < Cardinality(Before(i))
      BY <1>4
    <3>5. QED
      BY <3>1, <3>2, <3>3, <3>4
  <2> HIDE DEF places, place
  <2>3. QED
    BY <2>1, <2>2, Fun_IsInj
<1> HIDE DEF places, Before
<1>6. place \in Bijection(places, places)
  <2> HIDE DEF place
  <2>1. place \in Surjection(places, places)
    BY <1>2, <1>5, FS_Injection
  <2>2. QED
    BY <1>5, <2>1, Fun_IsBij
<1> DEFINE p == Inverse(place, places, places)
<1>7. /\ p \in Bijection(places, places)
      /\ \A i \in places : p[i] \in places /\ place[p[i]] = i
  <2> HIDE DEF place, p
  <2>1. p \in Bijection(places, places) /\ \A s \in places : p[place[s]] = s
    BY <1>6, Fun_BijInverse DEF p
  <2>2. \A i \in places : \E s \in places : place[s] = i
    BY <1>6, Fun_BijectionProperties
  <2>3. QED
    BY <2>1, <2>2
<1>8. ASSUME NEW i \in places, NEW j \in places, i < j
      PROVE  values[p[i]] <= values[p[j]]
  <2> HIDE DEF p
  <2> DEFINE a == p[i]
             b == p[j]
  <2>1. /\ a \in places /\ b \in places
        /\ Cardinality(Before(a)) = i /\ Cardinality(Before(b)) = j
        /\ i \in Nat /\ j \in Nat
    BY <1>2, <1>7
  <2> HIDE DEF a, b, place
  <2>2. a \in Before(b)
    BY <1>4, <1>8, <2>1
  <2>3. values[a] <= values[b]
    BY <1>2, <2>1, <2>2 DEF Before
  <2>4. QED
    BY <2>3 DEF a, b
<1>9. QED
  <2> HIDE DEF p
  <2>1. QED
    BY <1>7, <1>8 DEF places

\* What Sorted returns: the values in ascending order, each as often as before.
LEMMA SortedArranges ==
    ASSUME NEW values \in Seq(Nat)
    PROVE  /\ Sorted(values) \in Seq(Nat) /\ Len(Sorted(values)) = Len(values)
           /\ DOMAIN Sorted(values) = DOMAIN values
           /\ \A i, j \in DOMAIN values : i <= j => Sorted(values)[i] <= Sorted(values)[j]
           /\ \E p \in Bijection(DOMAIN values, DOMAIN values) :
                 \A i \in DOMAIN values : Sorted(values)[i] = values[p[i]]
<1> DEFINE places == DOMAIN values
           Ascending(p) == \A i, j \in places : i < j => values[p[i]] <= values[p[j]]
           order == CHOOSE p \in Bijection(places, places) : Ascending(p)
<1>1. PICK n \in Nat : n = Len(values) /\ places = 1..n
  OBVIOUS
<1>2. order \in Bijection(places, places) /\ Ascending(order)
  <2>1. \E p \in Bijection(places, places) : Ascending(p)
    BY ArrangementExists
  <2> HIDE DEF places, Ascending
  <2>2. QED
    BY <2>1
<1>3. Sorted(values) = [i \in places |-> values[order[i]]]
  BY DEF Sorted
<1>4. \A i \in places : order[i] \in places
  <2> HIDE DEF places, order
  <2>1. order \in [places -> places]
    BY <1>2, Fun_BijectionProperties
  <2>2. QED
    BY <2>1
<1>5. \A i \in places : values[i] \in Nat
  OBVIOUS
<1> HIDE DEF order, places
<1>6. PICK sorted : sorted = Sorted(values)
  OBVIOUS
<1>7. sorted \in [1..n -> Nat] /\ \A i \in places : sorted[i] = values[order[i]]
  BY <1>1, <1>3, <1>4, <1>5, <1>6
<1>8. sorted \in Seq(Nat) /\ Len(sorted) = n /\ DOMAIN sorted = places
  BY <1>1, <1>7
<1>9. \A i, j \in places : i <= j => sorted[i] <= sorted[j]
  <2> SUFFICES ASSUME NEW i \in places, NEW j \in places, i <= j
               PROVE  sorted[i] <= sorted[j]
    OBVIOUS
  <2>1. i \in Nat /\ j \in Nat /\ sorted[i] \in Nat /\ sorted[j] \in Nat
    BY <1>1, <1>7
  <2>2. i < j => sorted[i] <= sorted[j]
    BY <1>2, <1>7
  <2>3. QED
    BY <2>1, <2>2
<1>10. QED
  BY <1>1, <1>2, <1>6, <1>7, <1>8, <1>9 DEF places

\* A percentile depends on which values there are and not on their order.
LEMMA PercentileOfArrangement ==
    ASSUME NEW values \in Seq(Nat), NEW sorted \in Seq(Nat), Len(sorted) = Len(values),
           NEW p \in Bijection(DOMAIN values, DOMAIN values),
           \A i \in DOMAIN values : sorted[i] = values[p[i]],
           NEW v, NEW percent, IsPercentile(v, sorted, percent)
    PROVE  IsPercentile(v, values, percent)
<1> DEFINE places == DOMAIN values
           UpTo(bound) == {i \in places : values[i] <= bound}
           SortedUpTo(bound) == {i \in places : sorted[i] <= bound}
<1>1. PICK n \in Nat : n = Len(values) /\ places = 1..n /\ DOMAIN sorted = places
  OBVIOUS
<1>2. /\ p \in [places -> places]
      /\ \A a, b \in places : p[a] = p[b] => a = b
      /\ \A k \in places : \E i \in places : p[i] = k
  <2>1. p \in Bijection(places, places)
    OBVIOUS
  <2> HIDE DEF places
  <2>2. QED
    BY <2>1, Fun_BijectionProperties
<1>3. \A k \in places : \E i \in places : sorted[i] = values[k] /\ p[i] = k
  BY <1>2
<1>4. \A i \in places : p[i] \in places /\ sorted[i] = values[p[i]]
  BY <1>2
<1>5. IsFiniteSet(places)
  <2>1. IsFiniteSet(1..n)
    BY FS_Interval
  <2>2. QED
    BY <1>1, <2>1
<1>6. ASSUME NEW bound
      PROVE  Cardinality(UpTo(bound)) = Cardinality(SortedUpTo(bound))
  <2> DEFINE f == [i \in SortedUpTo(bound) |-> p[i]]
             A == SortedUpTo(bound)
             B == UpTo(bound)
  <2> HIDE DEF places
  <2>1. f \in [A -> B]
    BY <1>4
  <2>2. \A a, b \in A : f[a] = f[b] => a = b
    BY <1>2
  <2>3. \A k \in B : \E i \in A : f[i] = k
    BY <1>3
  <2>4. A \in SUBSET places
    OBVIOUS
  <2> HIDE DEF f, A, B
  <2>5. f \in Injection(A, B) /\ f \in Surjection(A, B)
    BY <2>1, <2>2, <2>3, Fun_IsInj, Fun_IsSurj
  <2>6. ExistsBijection(A, B)
    BY <2>5, Fun_IsBij, Fun_ExistsBij
  <2>7. IsFiniteSet(A)
    BY <1>5, <2>4, FS_Subset
  <2>8. Cardinality(A) = Cardinality(B)
    BY <2>6, <2>7, FS_Bijection
  <2>9. QED
    BY <2>8 DEF A, B
<1>7. /\ \E i \in places : sorted[i] = v
      /\ 100 * Cardinality(SortedUpTo(v)) >= percent * n
      /\ \A i \in places : sorted[i] < v =>
            ~(100 * Cardinality(SortedUpTo(sorted[i])) >= percent * n)
  BY <1>1 DEF IsPercentile
<1>8. /\ \E i \in places : values[i] = v
      /\ 100 * Cardinality(UpTo(v)) >= percent * n
      /\ \A i \in places : values[i] < v =>
            ~(100 * Cardinality(UpTo(values[i])) >= percent * n)
  <2> HIDE DEF places, UpTo, SortedUpTo
  <2>1. \E i \in places : values[i] = v
    BY <1>4, <1>7
  <2>2. 100 * Cardinality(UpTo(v)) >= percent * n
    BY <1>6, <1>7
  <2>3. ASSUME NEW k \in places, values[k] < v
        PROVE  ~(100 * Cardinality(UpTo(values[k])) >= percent * n)
    <3>1. PICK i \in places : sorted[i] = values[k]
      BY <1>3
    <3>2. ~(100 * Cardinality(SortedUpTo(values[k])) >= percent * n)
      BY <1>7, <2>3, <3>1
    <3>3. QED
      BY <1>6, <3>2
  <2>4. QED
    BY <2>1, <2>2, <2>3
<1>9. QED
  BY <1>1, <1>8 DEF IsPercentile

\* Percentile returns the value of the nearest rank.
LEMMA PercentileIsByRank ==
    ASSUME NEW values \in Seq(Nat), values # <<>>, NEW percent \in 1..100
    PROVE  IsPercentile(Percentile(values, percent), values, percent)
<1>1. PICK sorted \in Seq(Nat) :
         /\ sorted = Sorted(values) /\ Len(sorted) = Len(values)
         /\ \A i, j \in DOMAIN sorted : i <= j => sorted[i] <= sorted[j]
         /\ \E p \in Bijection(DOMAIN values, DOMAIN values) :
               \A i \in DOMAIN values : sorted[i] = values[p[i]]
  BY SortedArranges
<1>2. sorted # <<>>
  BY <1>1
<1>3. IsPercentile(sorted[PercentileIndex(Len(sorted), percent) + 1], sorted, percent)
  BY <1>1, <1>2, PercentileByRank
<1>4. Percentile(values, percent) = sorted[PercentileIndex(Len(sorted), percent) + 1]
  BY <1>1 DEF Percentile
<1>5. PICK p \in Bijection(DOMAIN values, DOMAIN values) :
         \A i \in DOMAIN values : sorted[i] = values[p[i]]
  BY <1>1
<1>6. IsPercentile(Percentile(values, percent), sorted, percent)
  BY <1>3, <1>4
<1>7. QED
  BY <1>1, <1>5, <1>6, PercentileOfArrangement

\* A percentile is between the smallest and the largest value.
LEMMA PercentileBetween ==
    ASSUME NEW values \in Seq(Nat), values # <<>>, NEW percent \in 1..100
    PROVE  /\ Sorted(values)[1] <= Percentile(values, percent)
           /\ Percentile(values, percent) <= Sorted(values)[Len(values)]
<1>1. PICK n \in Nat \ {0} : n = Len(values) /\ DOMAIN values = 1..n
  OBVIOUS
<1>2. PICK i \in 0..(n - 1) : i = PercentileIndex(n, percent)
  BY PercentileIndexIsRank
<1>3. Percentile(values, percent) = Sorted(values)[i + 1]
  BY <1>1, <1>2 DEF Percentile
<1>4. \A k, l \in 1..n : k <= l => Sorted(values)[k] <= Sorted(values)[l]
  BY <1>1, SortedArranges
<1>5. 1 \in 1..n /\ n \in 1..n /\ i + 1 \in 1..n /\ 1 <= i + 1 /\ i + 1 <= n
  OBVIOUS
<1>6. QED
  BY <1>1, <1>3, <1>4, <1>5

\* However many requests recorded their latencies, in whichever order, what the
\* profile and a snapshot report are nearest-rank percentiles of the latencies
\* there were, between the smallest and the largest.
THEOREM ProfilesByRank == MetricsSpec => []ProfileIsByRank
<1>1. MetricsInv => ProfileIsByRank
  <2> SUFFICES ASSUME MetricsInv PROVE ProfileIsByRank
    OBVIOUS
  <2>1. latencies \in Seq(Nat)
    <3>1. latencies \in Seq(Latencies)
      BY DEF MetricsInv, MetricsTypeOK
    <3>2. PICK n \in Nat : latencies \in [1..n -> Latencies]
      BY <3>1
    <3>3. latencies \in [1..n -> Nat]
      BY <3>2
    <3>4. QED
      BY <3>3
  <2>2. ASSUME snapshot.samples \notin {NoSample, 0}
        PROVE  IsPercentile(SnapshotP95, SubSeq(latencies, 1, snapshot.samples), 95)
    <3>1. PICK S \in SUBSET Requests : S \subseteq RecordedSet
                                       /\ snapshot.samples = Cardinality(S)
      BY <2>2 DEF MetricsInv, SnapshotSaw, Seen
    <3>2. /\ IsFiniteSet(RecordedSet) /\ Cardinality(RecordedSet) = Len(latencies)
      BY FS_Subset DEF MetricsInv, CountersCount, RecordedSet
    <3>3. /\ snapshot.samples <= Len(latencies)
          /\ snapshot.samples \in Nat \ {0}
      BY <2>2, <3>1, <3>2, FS_Subset DEF MetricsInv, MetricsTypeOK
    <3> DEFINE read == SubSeq(latencies, 1, snapshot.samples)
    <3>4. read \in Seq(Nat) /\ Len(read) = snapshot.samples /\ read # <<>>
      BY <2>1, <3>3
    <3> HIDE DEF read
    <3>5. IsPercentile(Percentile(read, 95), read, 95)
      BY <3>4, PercentileIsByRank
    <3>6. QED
      BY <3>5 DEF SnapshotP95, read
  <2>3. ASSUME latencies # <<>>
        PROVE  LET profile == Profile(latencies)
               IN  /\ IsPercentile(profile.p50, latencies, 50)
                   /\ IsPercentile(profile.p95, latencies, 95)
                   /\ IsPercentile(profile.p99, latencies, 99)
                   /\ profile.min <= profile.p50 /\ profile.p99 <= profile.max
    <3>1. /\ Profile(latencies).p50 = Percentile(latencies, 50)
          /\ Profile(latencies).p95 = Percentile(latencies, 95)
          /\ Profile(latencies).p99 = Percentile(latencies, 99)
          /\ Profile(latencies).min = Sorted(latencies)[1]
          /\ Profile(latencies).max = Sorted(latencies)[Len(latencies)]
      BY <2>3 DEF Profile
    <3>2. \A percent \in 1..100 : IsPercentile(Percentile(latencies, percent), latencies, percent)
      BY <2>1, <2>3, PercentileIsByRank
    <3>3. \A percent \in 1..100 :
             /\ Sorted(latencies)[1] <= Percentile(latencies, percent)
             /\ Percentile(latencies, percent) <= Sorted(latencies)[Len(latencies)]
      BY <2>1, <2>3, PercentileBetween
    <3>4. 50 \in 1..100 /\ 95 \in 1..100 /\ 99 \in 1..100
      OBVIOUS
    <3>5. QED
      BY <3>1, <3>2, <3>3, <3>4
  <2>4. QED
    BY <2>2, <2>3 DEF ProfileIsByRank
<1>2. QED
  BY <1>1, RegistryInvariance, PTL
=============================================================================
