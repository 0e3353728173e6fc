-------------------------- MODULE QueryBuildProofs --------------------------
(***************************************************************************)
(* Proofs about the query builder for any policies, any requests, any      *)
(* number of builds and any number of reloads between their steps.         *)
(*                                                                         *)
(* The properties speak of builds that have ended; the steps see one       *)
(* consultation at a time.  The inductive invariant says what a build      *)
(* that is at step n of its script knows: of every earlier step, that its  *)
(* own checks hold and that a policy active since the build began passed   *)
(* the consultation; and that the placeholders written so far bind the     *)
(* values of the filters whose steps have passed.  What a script consists  *)
(* of, whatever the order, is in QueryScriptProofs.                        *)
(***************************************************************************)
EXTENDS QueryScriptProofs

USE PoliciesAssumption, SentinelAssumption, RequestsAssumption, NamesAssumption

-----------------------------------------------------------------------------
(* The inductive invariant, for the record s of one build and a history h. *)

Bind == Nat \X {"value", "value_to", "limit", "text"}

Build ==
    [request : Requests \cup {Unset}, step : Nat, key : TableName \cup {NoKey},
     since : Nat, until : Nat, from : TableName \cup {NoKey},
     limit : Nat \cup {Unset}, bind_index : Nat \ {0}, binds : Seq(Bind),
     placeholders : SUBSET [index : Nat, stands_for : Bind],
     outcome : {"none", "building", "accepted", "policy_denied", "invalid_request",
                "panicked"}]

\* The policies a build has met so far.
Met(s, h) == s.since .. (IF s.outcome = "building" THEN Len(h) ELSE s.until)

\* A policy the build has met passed the consultation.
Consulted(s, h, step) ==
    /\ step.check = "table" =>
          /\ s.from = s.request.table
          /\ \E i \in Met(s, h) : KeysFor(h[i], s.request.table) # {}
    /\ step.check \in {"column", "operator"} =>
          \E i, j \in Met(s, h) :
             /\ i <= j
             /\ \E key \in KeysFor(h[i], s.request.table) :
                   /\ KeyPresent(h[j], key)
                   /\ ColumnListed(h[j], key, step.column)
                   /\ step.check = "operator" =>
                         OperatorListed(h[j], key, step.column, step.operator)
    /\ step.check = "limit" =>
          \E i \in Met(s, h) : /\ s.limit = RowLimit(h[i], step.limit, Unset)
                               /\ RowLimitAllowed(h[i], step.limit, Unset)
    /\ step.check = "complexity" =>
          \E i \in Met(s, h) : ComplexityAllowed(h[i], step.complexity)

\* What a build knows of the steps before step n of its script.
PassedBefore(s, h, n) ==
    \A i \in 1..(n - 1) : /\ Script(s.request)[i].ok
                          /\ Consulted(s, h, Script(s.request)[i])

\* The placeholders bind these values, and the binds are all used.
Aligned(binds, placeholders, values) ==
    /\ {p.index : p \in placeholders} = 1..Len(binds)
    /\ \A p \in placeholders : binds[p.index] = p.stands_for
    /\ {p.stands_for : p \in placeholders} = values

\* The filters whose values the steps before step n bind, and these values.
BoundFilters(r, n) == {Script(r)[i].filter : i \in 1..(n - 1)} \ {0}

FilterValues(r, numbers) ==
    {<<n, "value">> : n \in numbers} \cup
    {<<n, "value_to">> : n \in {m \in numbers : r.filters[m].operator = "Between"}}

RunningInv(s, h) ==
    /\ NonEmpty(s.request)
    /\ s.step \in 1..(Len(Script(s.request)) + 1)
    /\ PassedBefore(s, h, s.step)
    /\ s.key # NoKey => \E i \in Met(s, h) : s.key \in KeysFor(h[i], s.request.table)
    /\ s.bind_index = Len(s.binds) + 1
    /\ Aligned(s.binds, s.placeholders,
               FilterValues(s.request, BoundFilters(s.request, s.step)))

AcceptedInv(s, h) ==
    /\ NonEmpty(s.request)
    /\ PassedBefore(s, h, Len(Script(s.request)) + 1)
    /\ Aligned(s.binds, s.placeholders, ValuesOf(s.request))

BuildInv(s, h) ==
    /\ s.since \in 0..Len(h)
    /\ s.until \in s.since..Len(h)
    /\ s.outcome # "none" => s.request \in Requests /\ s.since # 0
    /\ s.outcome = "building" => RunningInv(s, h)
    /\ s.outcome = "accepted" => AcceptedInv(s, h)
    /\ s.outcome = "invalid_request" => ~Buildable(s.request)
    /\ s.outcome = "policy_denied" /\ s.since = s.until =>
          ~Admissible(h[s.since], s.request)
    /\ s.outcome = "panicked" =>
          \E i \in Met(s, h) : ~(KeysFor(h[i], s.request.table)
                                   \subseteq DOMAIN h[s.until].tables)

IInv ==
    /\ history \in Seq(Policies) \ {<<>>}
    /\ build \in [Builders -> Build]
    /\ \A b \in Builders : BuildInv(build[b], history)

-----------------------------------------------------------------------------
(* How a step changes a build.                                             *)

\* A reload changes what no build has met.
LEMMA HistoryGrows ==
    ASSUME NEW h \in Seq(Policies), NEW policy \in Policies, NEW s \in Build,
           BuildInv(s, h)
    PROVE  BuildInv(s, Append(h, policy))
<1> DEFINE g == Append(h, policy)
<1>1. /\ Len(h) \in Nat /\ Len(g) = Len(h) + 1
      /\ \A i \in 1..Len(h) : g[i] = h[i]
  OBVIOUS
<1> HIDE DEF g
<1>2. s.since \in 0..Len(g) /\ s.until \in s.since..Len(g)
  BY <1>1 DEF BuildInv, Build
<1>3. CASE s.outcome = "none"
  BY <1>2, <1>3 DEF BuildInv, g
<1>4. CASE s.outcome # "none"
  <2>1. s.request \in Requests /\ s.since \in 1..Len(h) /\ s.until \in s.since..Len(h)
    BY <1>1, <1>4 DEF BuildInv, Build
  <2>2. \A i \in Met(s, h) : i \in Met(s, g) /\ g[i] = h[i]
    BY <1>1, <2>1 DEF Met
  <2>3. \A step : Consulted(s, h, step) => Consulted(s, g, step)
    <3> SUFFICES ASSUME NEW step, Consulted(s, h, step) PROVE Consulted(s, g, step)
      OBVIOUS
    <3>1. CASE step.check \in {"column", "operator"}
      <4>1. PICK i, j \in Met(s, h) :
               /\ i <= j
               /\ \E key \in KeysFor(h[i], s.request.table) :
                     /\ KeyPresent(h[j], key)
                     /\ ColumnListed(h[j], key, step.column)
                     /\ step.check = "operator" =>
                           OperatorListed(h[j], key, step.column, step.operator)
        BY <3>1 DEF Consulted
      <4>2. QED
        BY <2>2, <3>1, <4>1 DEF Consulted
    <3>2. CASE step.check \notin {"column", "operator"}
      BY <2>2, <3>2 DEF Consulted
    <3>3. QED
      BY <3>1, <3>2
  <2>4. \A n : PassedBefore(s, h, n) => PassedBefore(s, g, n)
    BY <2>3 DEF PassedBefore
  <2>5. s.outcome = "building" => RunningInv(s, g)
    BY <2>2, <2>4 DEF BuildInv, RunningInv
  <2>6. s.outcome = "accepted" => AcceptedInv(s, g)
    BY <2>4 DEF BuildInv, AcceptedInv
  <2>7. s.outcome = "panicked" =>
          \E i \in Met(s, g) : ~(KeysFor(g[i], s.request.table)
                                   \subseteq DOMAIN g[s.until].tables)
    BY <1>1, <2>1, <2>2 DEF BuildInv
  <2>8. s.outcome = "policy_denied" /\ s.since = s.until =>
          ~Admissible(g[s.since], s.request)
    BY <1>1, <2>1 DEF BuildInv
  <2>9. s.outcome = "invalid_request" => ~Buildable(s.request)
    BY DEF BuildInv
  <2>10. BuildInv(s, g)
    BY <1>2, <2>1, <2>5, <2>6, <2>7, <2>8, <2>9 DEF BuildInv
  <2>11. QED
    BY <2>10 DEF g
<1>5. QED
  BY <1>3, <1>4

\* A step of a build changes its record alone.
LEMMA OneBuildMoves ==
    ASSUME IInv, NEW b \in Builders, NEW s \in Build, BuildInv(s, history),
           build' = [build EXCEPT ![b] = s], UNCHANGED history
    PROVE  IInv'
BY DEF IInv

\* What a build that consults the policy looks like.
LEMMA AtAStep ==
    ASSUME IInv, NEW b \in Builders, NEW checks, AtStep(b, checks)
    PROVE  LET s == build[b]
               r == s.request
           IN  /\ s \in Build /\ r \in Requests /\ s.outcome = "building"
               /\ s.step \in 1..Len(Script(r))
               /\ Len(Script(r)) \in Nat
               /\ Step(b) = Script(r)[s.step]
               /\ Step(b) \in Range(Script(r))
               /\ Step(b).check \in checks
               /\ AsksAbout(r, Step(b))
               /\ BuildInv(s, history) /\ RunningInv(s, history)
               /\ Len(history) \in Nat \ {0}
               /\ s.since \in 1..Len(history)
               /\ Met(s, history) = s.since..Len(history)
               /\ active \in Policies
<1> DEFINE s == build[b]
           r == build[b].request
<1>1. s \in Build /\ BuildInv(s, history) /\ s.outcome = "building"
  BY DEF IInv, AtStep, Running
<1>2. r \in Requests /\ RunningInv(s, history) /\ s.step <= Len(Script(r))
  BY <1>1 DEF BuildInv, AtStep
<1>3. IsSeq(Script(r))
  BY <1>2, ScriptCovers
<1>4. Len(Script(r)) \in Nat /\ DOMAIN Script(r) = 1..Len(Script(r))
  BY <1>3 DEF IsSeq
<1>5. s.step \in 1..Len(Script(r))
  BY <1>1, <1>2, <1>4 DEF RunningInv, Build
<1>6. Step(b) = Script(r)[s.step] /\ Step(b) \in Range(Script(r))
  BY <1>4, <1>5 DEF Step, Range
<1>7. AsksAbout(r, Step(b))
  BY <1>2, <1>6, StepAsks
<1>8. /\ Len(history) \in Nat \ {0} /\ s.since \in 1..Len(history)
      /\ active \in Policies
  <2>1. history \in Seq(Policies) /\ history # <<>>
    BY DEF IInv
  <2>2. Len(history) \in Nat \ {0} /\ active \in Policies
    BY <2>1, EmptySeq DEF active
  <2>3. QED
    BY <1>1, <2>2 DEF BuildInv, Build
<1>9. QED
  BY <1>1, <1>2, <1>4, <1>5, <1>6, <1>7, <1>8 DEF AtStep, Met

\* A build that ends, blaming what is to blame.
LEMMA EndKeeps ==
    ASSUME IInv, NEW b \in Builders, NEW checks, AtStep(b, checks),
           NEW outcome \in {"policy_denied", "invalid_request", "panicked"},
           End(b, outcome),
           outcome = "invalid_request" => ~Buildable(build[b].request),
           outcome = "policy_denied" /\ build[b].since = Len(history) =>
              ~Admissible(active, build[b].request),
           outcome = "panicked" =>
              \E i \in Met(build[b], history) :
                 ~(KeysFor(history[i], build[b].request.table) \subseteq DOMAIN active.tables)
    PROVE  IInv'
<1> DEFINE s == build[b]
           t == [s EXCEPT !.outcome = outcome, !.until = Len(history)]
<1>1. /\ s \in Build /\ s.request \in Requests /\ Len(history) \in Nat
      /\ s.since \in 1..Len(history) /\ Met(s, history) = s.since..Len(history)
  BY AtAStep
<1>2. /\ t \in Build /\ t.request = s.request /\ t.since = s.since
      /\ t.outcome = outcome /\ t.until = Len(history)
  BY <1>1 DEF Build
<1>3. build' = [build EXCEPT ![b] = t] /\ UNCHANGED history
  BY DEF End
<1> HIDE DEF t
<1>4. Met(t, history) = Met(s, history)
  BY <1>1, <1>2 DEF Met
<1>5. BuildInv(t, history)
  BY <1>1, <1>2, <1>4 DEF BuildInv, active
<1>6. QED
  BY <1>2, <1>3, <1>5, OneBuildMoves

\* What the steps up to and with step n bind.
LEMMA BoundGrows ==
    ASSUME NEW r, NEW n \in Nat \ {0}, NEW f, f = Script(r)[n].filter
    PROVE  /\ BoundFilters(r, n + 1) = BoundFilters(r, n) \cup ({f} \ {0})
           /\ BoundFilters(r, 1) = {}
<1>1. 1..((n + 1) - 1) = 1..(n - 1) \cup {n}
  OBVIOUS
<1>2. QED
  BY <1>1 DEF BoundFilters

\* The value that a build pushes is the one its next placeholder stands for.
Placeholders == [index : Nat, stands_for : Bind]

Placed(placeholders, i, value) ==
    placeholders \cup {[index |-> i, stands_for |-> value]}

\* One more value, bound under the next placeholder, keeps the two in step.
LEMMA OneMoreBind ==
    ASSUME NEW binds \in Seq(Bind), NEW value \in Bind, NEW values,
           NEW placeholders \in SUBSET Placeholders, Aligned(binds, placeholders, values)
    PROVE  LET more == binds \o <<value>>
               new == Placed(placeholders, Len(binds) + 1, value)
           IN  /\ more \in Seq(Bind) /\ Len(more) = Len(binds) + 1
               /\ new \in SUBSET Placeholders
               /\ Aligned(more, new, values \cup {value})
<1> DEFINE more == binds \o <<value>>
           last == [index |-> Len(binds) + 1, stands_for |-> value]
           new == placeholders \cup {last}
<1>1. /\ more \in Seq(Bind) /\ Len(more) = Len(binds) + 1 /\ Len(binds) \in Nat
      /\ \A i \in 1..Len(binds) : more[i] = binds[i]
      /\ more[Len(binds) + 1] = value
  OBVIOUS
<1>2. /\ last \in Placeholders
      /\ last.index = Len(binds) + 1 /\ last.stands_for = value
  BY <1>1 DEF Placeholders
<1> HIDE DEF more, last
<1>3. {p.index : p \in new} = {p.index : p \in placeholders} \cup {last.index}
  OBVIOUS
<1>4. {p.stands_for : p \in new} = {p.stands_for : p \in placeholders} \cup {last.stands_for}
  OBVIOUS
<1>5. 1..Len(more) = 1..Len(binds) \cup {Len(binds) + 1}
  BY <1>1
<1>6. \A p \in placeholders : p.index \in 1..Len(binds) /\ binds[p.index] = p.stands_for
  BY DEF Aligned
<1>7. \A p \in new : more[p.index] = p.stands_for
  BY <1>1, <1>2, <1>6
<1>8. Aligned(more, new, values \cup {value})
  BY <1>2, <1>3, <1>4, <1>5, <1>7 DEF Aligned
<1>9. QED
  BY <1>1, <1>2, <1>8 DEF more, last, Placed

\* Appending two values is appending one after the other.
LEMMA TwoAppends ==
    ASSUME NEW s \in Seq(Bind), NEW v \in Bind, NEW w \in Bind
    PROVE  s \o <<v, w>> = (s \o <<v>>) \o <<w>>
<1>1. PICK x, y, xy : x = <<v>> /\ y = <<w>> /\ xy = <<v, w>>
  OBVIOUS
<1>2. /\ xy \in Seq(Bind) /\ Len(xy) = 2 /\ xy[1] = v /\ xy[2] = w
      /\ x \in Seq(Bind) /\ Len(x) = 1 /\ x[1] = v
      /\ y \in Seq(Bind) /\ Len(y) = 1 /\ y[1] = w
  BY <1>1
<1>3. /\ x \o y \in Seq(Bind) /\ Len(x \o y) = Len(x) + Len(y)
      /\ \A i \in 1..(Len(x) + Len(y)) :
            (x \o y)[i] = IF i <= Len(x) THEN x[i] ELSE y[i - Len(x)]
  BY <1>2, ConcatProperties
<1>4. Len(x \o y) = 2 /\ (x \o y)[1] = v /\ (x \o y)[2] = w
  <2>1. Len(x) + Len(y) = 2 /\ 1 \in 1..2 /\ 2 \in 1..2 /\ 2 - 1 = 1
    BY <1>2
  <2>2. (x \o y)[1] = x[1]
    BY <1>2, <1>3, <2>1
  <2>3. (x \o y)[2] = y[1]
    BY <1>2, <1>3, <2>1
  <2>4. QED
    BY <1>2, <1>3, <2>1, <2>2, <2>3
<1>5. xy = x \o y
  <2>1. \A i \in 1..2 : i = 1 \/ i = 2
    OBVIOUS
  <2>2. \A i \in 1..2 : xy[i] = (x \o y)[i]
    BY <1>2, <1>4, <2>1
  <2>3. QED
    BY <1>2, <1>3, <1>4, <2>2, SeqEqual
<1>6. QED
  BY <1>1, <1>2, <1>5, ConcatAssociative

\* What pushing binds leaves of the rest of a build.
Pushed(s, binds, placeholders, i) ==
    [s EXCEPT !.binds = binds, !.placeholders = placeholders, !.bind_index = i]

\* What the update of a bind changes in a build, and what it leaves.
LEMMA PushLeaves ==
    ASSUME NEW s \in Build, NEW binds \in Seq(Bind), NEW i \in Nat \ {0},
           NEW placeholders \in SUBSET Placeholders
    PROVE  LET t == Pushed(s, binds, placeholders, i)
           IN  /\ t \in Build
               /\ t.request = s.request /\ t.step = s.step /\ t.since = s.since
               /\ t.until = s.until /\ t.limit = s.limit /\ t.from = s.from /\ t.outcome = s.outcome
               /\ t.bind_index = i /\ t.placeholders = placeholders /\ t.binds = binds
BY DEF Build, Placeholders, Pushed

\* build_filters binds the values of a filter where its placeholders say.
LEMMA PushAligns ==
    ASSUME NEW s \in Build, s.request \in Requests, s.request.tool # "search",
           NEW n \in DOMAIN s.request.filters, NEW numbers,
           s.bind_index = Len(s.binds) + 1,
           Aligned(s.binds, s.placeholders, FilterValues(s.request, numbers))
    PROVE  LET t == PushFilter(s, n)
           IN  /\ t \in Build
               /\ t.request = s.request /\ t.step = s.step /\ t.since = s.since
               /\ t.until = s.until /\ t.limit = s.limit /\ t.from = s.from /\ t.outcome = s.outcome
               /\ t.bind_index = Len(t.binds) + 1
               /\ Aligned(t.binds, t.placeholders,
                          FilterValues(t.request, numbers \cup {n}))
<1> DEFINE r == s.request
           t == PushFilter(s, n)
           between == r.filters[n].operator = "Between"
           values == FilterValues(r, numbers)
<1>1. PICK value, value_to : value = <<n, "value">> /\ value_to = <<n, "value_to">>
  OBVIOUS
<1>2. value \in Bind /\ value_to \in Bind
  <2>1. r.filters \in Seq(Filter)
    BY DEF IsRequest
  <2>2. n \in Nat
    BY <2>1, LenProperties
  <2>3. QED
    BY <1>1, <2>2 DEF Bind
<1>3. /\ s.binds \in Seq(Bind) /\ s.bind_index \in Nat /\ Len(s.binds) \in Nat
      /\ s.placeholders \in SUBSET Placeholders
  BY DEF Build, Placeholders
<1>4. PICK binds, one :
        /\ binds = s.binds \o <<value>>
        /\ one = Placed(s.placeholders, Len(s.binds) + 1, value)
  OBVIOUS
<1>5. /\ binds \in Seq(Bind) /\ Len(binds) = Len(s.binds) + 1
      /\ one \in SUBSET Placeholders
      /\ Aligned(binds, one, values \cup {value})
  <2> HIDE DEF r, t, between, values
  <2>1. Aligned(s.binds, s.placeholders, values)
    BY DEF values, r
  <2>2. QED
    BY <1>2, <1>3, <1>4, <2>1, OneMoreBind
<1>6. CASE ~between
  <2>1. t = Pushed(s, binds, one, s.bind_index + 1)
    <3>1. s.placeholders \cup {[index |-> s.bind_index, stands_for |-> value]} \cup {} = one
      BY <1>4 DEF Placed
    <3>2. QED
      BY <1>1, <1>4, <1>6, <3>1 DEF PushFilter, Pushed
  <2>2. FilterValues(r, numbers \cup {n}) = values \cup {value}
    BY <1>1, <1>6 DEF FilterValues
  <2> HIDE DEF t, values
  <2>3. /\ t \in Build
        /\ t.request = s.request /\ t.step = s.step /\ t.since = s.since
        /\ t.until = s.until /\ t.limit = s.limit /\ t.from = s.from /\ t.outcome = s.outcome
        /\ t.bind_index = s.bind_index + 1 /\ t.placeholders = one /\ t.binds = binds
    BY <1>3, <1>5, <2>1, PushLeaves
  <2>4. QED
    BY <1>3, <1>5, <2>2, <2>3 DEF t
<1>7. CASE between
  <2>1. PICK both, two :
          /\ both = binds \o <<value_to>>
          /\ two = Placed(one, Len(binds) + 1, value_to)
    OBVIOUS
  <2>2. t = Pushed(s, both, two, s.bind_index + 2)
    <3>1. s.binds \o <<value, value_to>> = both
      <4>1. s.binds \o <<value, value_to>> = (s.binds \o <<value>>) \o <<value_to>>
        BY <1>2, <1>3, TwoAppends
      <4>2. QED
        BY <1>4, <2>1, <4>1
    <3>2. s.placeholders \cup {[index |-> s.bind_index, stands_for |-> value]}
             \cup {[index |-> s.bind_index + 1, stands_for |-> value_to]} = two
      BY <1>3, <1>4, <1>5, <2>1 DEF Placed
    <3>3. QED
      BY <1>1, <1>7, <3>1, <3>2 DEF PushFilter, Pushed
  <2>3. FilterValues(r, numbers \cup {n}) = (values \cup {value}) \cup {value_to}
    BY <1>1, <1>7 DEF FilterValues
  <2> HIDE DEF t, values
  <2>4. /\ both \in Seq(Bind) /\ Len(both) = Len(s.binds) + 2
        /\ two \in SUBSET Placeholders
        /\ Aligned(both, two, (values \cup {value}) \cup {value_to})
    <3>1. PICK all : all = values \cup {value}
      OBVIOUS
    <3>2. Aligned(binds, one, all)
      BY <1>5, <3>1
    <3>3. /\ both \in Seq(Bind) /\ Len(both) = Len(binds) + 1
          /\ two \in SUBSET Placeholders
          /\ Aligned(both, two, all \cup {value_to})
      BY <1>2, <1>5, <2>1, <3>2, OneMoreBind
    <3>4. QED
      BY <1>3, <1>5, <3>1, <3>3
  <2>5. PICK i \in Nat \ {0} : i = s.bind_index + 2 /\ i = Len(both) + 1
    BY <1>3, <2>4
  <2>6. t = Pushed(s, both, two, i)
    BY <2>2, <2>5
  <2>7. /\ t \in Build
        /\ t.request = s.request /\ t.step = s.step /\ t.since = s.since
        /\ t.until = s.until /\ t.limit = s.limit /\ t.from = s.from /\ t.outcome = s.outcome
        /\ t.bind_index = i /\ t.placeholders = two /\ t.binds = both
    BY <2>4, <2>6, PushLeaves
  <2>8. t.bind_index = Len(t.binds) + 1
    BY <2>5, <2>7
  <2>9. Aligned(t.binds, t.placeholders, FilterValues(t.request, numbers \cup {n}))
    BY <2>3, <2>4, <2>7
  <2>10. QED
    BY <2>7, <2>8, <2>9 DEF t
<1>8. QED
  BY <1>6, <1>7

\* What a consultation came to says nothing of the rest of the build.
LEMMA SameConsultation ==
    ASSUME NEW s, NEW t, NEW h, NEW step, Consulted(s, h, step),
           t.request = s.request, t.since = s.since, t.until = s.until,
           t.outcome = s.outcome, t.limit = s.limit,
           t.from \in {s.from, s.request.table}
    PROVE  Consulted(t, h, step)
<1>1. Met(t, h) = Met(s, h)
  BY DEF Met
<1>2. QED
  BY <1>1 DEF Consulted

\* What going on to the next step leaves of the rest of a build.
Advanced(s, n) == [s EXCEPT !.step = n, !.key = NoKey]

\* What going on to the next step changes in a build, and what it leaves.
LEMMA NextStepLeaves ==
    ASSUME NEW s \in Build, NEW n \in Nat
    PROVE  LET t == Advanced(s, n)
           IN  /\ t \in Build /\ t.request = s.request /\ t.step = n
               /\ t.key = NoKey /\ t.since = s.since /\ t.until = s.until
               /\ t.limit = s.limit /\ t.from = s.from /\ t.outcome = s.outcome
               /\ t.bind_index = s.bind_index
               /\ t.binds = s.binds /\ t.placeholders = s.placeholders
BY DEF Build, Advanced

\* A build that has passed a consultation goes on to its next step, or ends
\* because its own checks fail.
LEMMA PassedKeeps ==
    ASSUME IInv, NEW b \in Builders, NEW checks, AtStep(b, checks),
           NEW state \in Build, Passed(b, state),
           state.request = build[b].request, state.step = build[b].step,
           state.since = build[b].since, state.until = build[b].until,
           state.outcome = build[b].outcome, state.binds = build[b].binds,
           state.bind_index = build[b].bind_index,
           state.placeholders = build[b].placeholders,
           PassedBefore(state, history, build[b].step),
           Consulted(state, history, Step(b))
    PROVE  IInv'
<1> DEFINE s == build[b]
           r == s.request
           n == s.step
<1>1. /\ s \in Build /\ r \in Requests /\ s.outcome = "building"
      /\ n \in 1..Len(Script(r)) /\ Len(Script(r)) \in Nat
      /\ Step(b) = Script(r)[n]
      /\ AsksAbout(r, Step(b)) /\ BuildInv(s, history) /\ RunningInv(s, history)
  BY AtAStep
<1>2. CASE ~Step(b).ok
  <2>1. ~Buildable(r)
    BY <1>1, <1>2 DEF AsksAbout
  <2>2. End(b, "invalid_request")
    BY <1>2 DEF Passed
  <2>3. QED
    BY <2>1, <2>2, EndKeeps
<1>3. CASE Step(b).ok
  <2>1. PICK f : f = Step(b).filter
    OBVIOUS
  <2>2. PICK pushed : pushed = IF f = 0 THEN state ELSE PushFilter(state, f)
    OBVIOUS
  <2>3. /\ build' = [build EXCEPT ![b] = [pushed EXCEPT !.step = @ + 1, !.key = NoKey]]
        /\ UNCHANGED history
    BY <1>3, <2>1, <2>2 DEF Passed
  <2>4. /\ Aligned(state.binds, state.placeholders, FilterValues(r, BoundFilters(r, n)))
        /\ state.bind_index = Len(state.binds) + 1
    BY <1>1 DEF RunningInv
  <2>5. BoundFilters(r, n + 1) = BoundFilters(r, n) \cup ({f} \ {0})
    <3>1. n \in Nat \ {0} /\ f = Script(r)[n].filter
      BY <1>1, <2>1
    <3>2. QED
      BY <3>1, BoundGrows
  <2>6. /\ pushed \in Build /\ pushed.request = r /\ pushed.step = n
        /\ pushed.since = s.since /\ pushed.until = s.until
        /\ pushed.limit = state.limit /\ pushed.from = state.from /\ pushed.outcome = s.outcome
        /\ pushed.bind_index = Len(pushed.binds) + 1
        /\ Aligned(pushed.binds, pushed.placeholders,
                   FilterValues(r, BoundFilters(r, n + 1)))
    <3>1. CASE f = 0
      <4>1. BoundFilters(r, n + 1) = BoundFilters(r, n)
        BY <2>5, <3>1
      <4>2. QED
        BY <2>2, <2>4, <3>1, <4>1
    <3>2. CASE f # 0
      <4>1. r.tool # "search" /\ \E m \in DOMAIN r.filters : Step(b) = OperatorStep(r.filters[m], m)
        BY <1>1, <2>1, <3>2 DEF AsksAbout
      <4>2. f \in DOMAIN r.filters
        BY <2>1, <4>1 DEF OperatorStep
      <4>3. BoundFilters(r, n + 1) = BoundFilters(r, n) \cup {f}
        BY <2>5, <3>2
      <4>4. pushed = PushFilter(state, f)
        BY <2>2, <3>2
      <4>5. /\ state.request \in Requests /\ state.request.tool # "search"
            /\ f \in DOMAIN state.request.filters
            /\ Aligned(state.binds, state.placeholders,
                       FilterValues(state.request, BoundFilters(r, n)))
        BY <1>1, <2>4, <4>1, <4>2
      <4>6. /\ pushed \in Build
            /\ pushed.request = state.request /\ pushed.step = state.step
            /\ pushed.since = state.since /\ pushed.until = state.until
            /\ pushed.limit = state.limit /\ pushed.from = state.from /\ pushed.outcome = state.outcome
            /\ pushed.bind_index = Len(pushed.binds) + 1
            /\ Aligned(pushed.binds, pushed.placeholders,
                       FilterValues(pushed.request, BoundFilters(r, n) \cup {f}))
        BY <2>4, <4>4, <4>5, PushAligns
      <4>7. QED
        BY <4>3, <4>6
    <3>3. QED
      BY <3>1, <3>2
  <2>7. PICK t : t = [pushed EXCEPT !.step = @ + 1, !.key = NoKey]
    OBVIOUS
  <2>8. /\ t \in Build /\ t.request = r /\ t.step = n + 1 /\ t.key = NoKey
        /\ t.since = s.since /\ t.until = s.until /\ t.limit = state.limit /\ t.from = state.from
        /\ t.outcome = "building" /\ t.bind_index = pushed.bind_index
        /\ t.binds = pushed.binds /\ t.placeholders = pushed.placeholders
    <3> PICK m \in Nat : m = n + 1
      BY <1>1
    <3>1. /\ t \in Build /\ t.request = pushed.request /\ t.step = m
          /\ t.key = NoKey /\ t.since = pushed.since /\ t.until = pushed.until
          /\ t.limit = pushed.limit /\ t.from = pushed.from /\ t.outcome = pushed.outcome
          /\ t.bind_index = pushed.bind_index
          /\ t.binds = pushed.binds /\ t.placeholders = pushed.placeholders
      <4>1. t = Advanced(pushed, m)
        BY <2>6, <2>7 DEF Advanced
      <4>2. QED
        BY <2>6, <4>1, NextStepLeaves
    <3>2. QED
      BY <1>1, <2>6, <3>1
  <2>9. PassedBefore(t, history, n + 1)
    <3> SUFFICES ASSUME NEW i \in 1..n
                 PROVE  Script(r)[i].ok /\ Consulted(t, history, Script(r)[i])
      BY <1>1, <2>8 DEF PassedBefore
    <3>1. Script(r)[i].ok /\ Consulted(state, history, Script(r)[i])
      <4>1. CASE i = n
        BY <1>1, <1>3, <4>1
      <4>2. CASE i # n
        BY <1>1, <4>2 DEF PassedBefore
      <4>3. QED
        BY <4>1, <4>2
    <3>2. QED
      BY <1>1, <2>8, <3>1, SameConsultation
  <2>10. RunningInv(t, history)
    BY <1>1, <2>6, <2>8, <2>9 DEF RunningInv
  <2>11. BuildInv(t, history)
    BY <1>1, <2>8, <2>10 DEF BuildInv
  <2>12. QED
    BY <2>3, <2>7, <2>8, <2>11, OneBuildMoves
<1>4. QED
  BY <1>2, <1>3

-----------------------------------------------------------------------------
(* Each action preserves the invariant.                                    *)

\* A consultation that changes nothing but the step of the build.
LEMMA PlainPassKeeps ==
    ASSUME IInv, NEW b \in Builders, NEW checks, AtStep(b, checks),
           Passed(b, build[b]), Consulted(build[b], history, Step(b))
    PROVE  IInv'
<1>1. build[b] \in Build /\ PassedBefore(build[b], history, build[b].step)
  BY AtAStep DEF RunningInv
<1>2. QED
  BY <1>1, PassedKeeps

\* A name that resolves to no key is no table of the policy.
LEMMA UnresolvedMeansNoKey ==
    ASSUME NEW policy, NEW table
    PROVE  Unresolved(policy, table) <=> KeysFor(policy, table) = {}
<1>1. \A key \in KeysFor(policy, table) : key \in DOMAIN policy.tables
  BY KeysResolve
<1>2. QED
  BY <1>1, KeysResolve DEF Unresolved

\* A policy that has no key for the table of a request denies the request.
LEMMA UnresolvedMeansDenied ==
    ASSUME NEW policy, NEW r, Unresolved(policy, r.table)
    PROVE  ~Admissible(policy, r)
BY UnresolvedMeansNoKey DEF Admissible, AdmissibleAs

\* A table that is denied ends the build, one that is allowed takes it on.
LEMMA CheckTableKeeps ==
    ASSUME IInv, NEW b \in Builders, CheckTable(b)
    PROVE  IInv'
<1> DEFINE s == build[b]
           r == s.request
<1>1. AtStep(b, {"table"})
  BY DEF CheckTable
<1>2. /\ s \in Build /\ r \in Requests /\ s.outcome = "building"
      /\ Step(b).check = "table" /\ RunningInv(s, history)
      /\ Met(s, history) = s.since..Len(history)
      /\ Len(history) \in Nat /\ s.since \in 1..Len(history)
  BY <1>1, AtAStep
<1>3. CASE Unresolved(active, r.table)
  <2>1. End(b, "policy_denied")
    BY <1>3 DEF CheckTable
  <2>2. ~Admissible(active, r)
    BY <1>3, UnresolvedMeansDenied
  <2>3. QED
    BY <1>1, <2>1, <2>2, EndKeeps
<1>4. CASE ~Unresolved(active, r.table)
  <2>1. PICK state : state = [s EXCEPT !.from = r.table]
    OBVIOUS
  <2>2. Passed(b, state)
    BY <1>4, <2>1 DEF CheckTable
  <2>3. /\ state \in Build /\ state.request = r /\ state.step = s.step
        /\ state.since = s.since /\ state.until = s.until /\ state.limit = s.limit
        /\ state.from = r.table
        /\ state.outcome = s.outcome /\ state.binds = s.binds
        /\ state.bind_index = s.bind_index /\ state.placeholders = s.placeholders
    <3>1. r.table \in TableName
      BY <1>2 DEF IsRequest
    <3>2. QED
      BY <1>2, <2>1, <3>1 DEF Build
  <2>4. PassedBefore(state, history, s.step)
    BY <1>2, <2>3, SameConsultation DEF RunningInv, PassedBefore
  <2>5. Consulted(state, history, Step(b))
    <3>1. Met(state, history) = Met(s, history)
      BY <2>3 DEF Met
    <3>2. /\ state.from = state.request.table
          /\ KeysFor(history[Len(history)], state.request.table) # {}
      BY <1>4, <2>3, UnresolvedMeansNoKey DEF active
    <3>3. Len(history) \in Met(state, history)
      BY <1>2, <3>1
    <3>4. QED
      BY <1>2, <3>2, <3>3 DEF Consulted
  <2>6. QED
    BY <1>1, <2>2, <2>3, <2>4, <2>5, PassedKeeps
<1>5. QED
  BY <1>3, <1>4

\* The first lock of a column's check finds the key, or ends the build.
LEMMA ResolveKeyKeeps ==
    ASSUME IInv, NEW b \in Builders, ResolveKey(b)
    PROVE  IInv'
<1> DEFINE s == build[b]
           r == s.request
<1>1. AtStep(b, {"column", "operator"})
  BY DEF ResolveKey
<1>2. /\ s \in Build /\ r \in Requests /\ s.outcome = "building"
      /\ BuildInv(s, history) /\ RunningInv(s, history)
      /\ Met(s, history) = s.since..Len(history)
      /\ Len(history) \in Nat /\ s.since \in 1..Len(history)
      /\ active \in Policies
  BY <1>1, AtAStep
<1>3. CASE Unresolved(active, r.table) /\ End(b, "policy_denied")
  BY <1>1, <1>3, EndKeeps, UnresolvedMeansDenied
<1>4. ASSUME NEW key \in DOMAIN active.tables, ResolvesTo(active, r.table, key),
             build' = [build EXCEPT ![b].key = key], UNCHANGED history
      PROVE  IInv'
  <2>1. PICK t : t = [s EXCEPT !.key = key]
    OBVIOUS
  <2>2. /\ t \in Build /\ t.request = r /\ t.step = s.step /\ t.key = key
        /\ t.since = s.since /\ t.until = s.until /\ t.limit = s.limit /\ t.from = s.from
        /\ t.outcome = s.outcome /\ t.binds = s.binds
        /\ t.bind_index = s.bind_index /\ t.placeholders = s.placeholders
    <3>1. key \in TableName
      BY <1>2 DEF IsPolicyConfig
    <3>2. QED
      BY <1>2, <2>1, <3>1 DEF Build
  <2>3. PassedBefore(t, history, s.step)
    BY <1>2, <2>2, SameConsultation DEF RunningInv, PassedBefore
  <2>4. Len(history) \in Met(t, history) /\ key \in KeysFor(history[Len(history)], r.table)
    <3>1. Met(t, history) = Met(s, history)
      BY <2>2 DEF Met
    <3>2. QED
      BY <1>2, <1>4, <3>1, KeysResolve DEF active
  <2>5. RunningInv(t, history)
    BY <1>2, <2>2, <2>3, <2>4 DEF RunningInv
  <2>6. BuildInv(t, history)
    BY <1>2, <2>2, <2>5 DEF BuildInv
  <2>7. QED
    BY <1>4, <2>1, <2>2, <2>6, OneBuildMoves
<1>5. QED
  BY <1>3, <1>4 DEF ResolveKey

\* What a look-up under a resolved key denies, the policy denies.
LEMMA LookUpDenies ==
    ASSUME NEW policy, NEW r, NEW key \in KeysFor(policy, r.table),
           \/ \E column \in ColumnsOf(r) : ~ColumnListed(policy, key, column)
           \/ \E f \in FiltersOf(r) : /\ f.column \in ColumnsOf(r)
                                      /\ ~OperatorListed(policy, key, f.column, f.operator)
    PROVE  ~Admissible(policy, r)
<1> SUFFICES ASSUME Admissible(policy, r) PROVE FALSE
  OBVIOUS
<1>1. /\ ColumnsOf(r) \subseteq policy.tables[key].columns
      /\ \A f \in FiltersOf(r) : FilterListed(policy.tables[key], f)
  BY KeysUnique DEF Admissible, AdmissibleAs
<1>2. QED
  BY <1>1 DEF ColumnListed, OperatorListed, FilterListed

\* The key that a build has resolved was, and unless a reload has come
\* between still is, a key for its table.
LEMMA KeyResolved ==
    ASSUME IInv, NEW b \in Builders, AtStep(b, {"column", "operator"}), build[b].key # NoKey
    PROVE  /\ \E i \in Met(build[b], history) :
                 i <= Len(history) /\ build[b].key \in KeysFor(history[i], build[b].request.table)
           /\ build[b].since = Len(history) =>
                 build[b].key \in KeysFor(active, build[b].request.table)
<1> DEFINE s == build[b]
<1>1. /\ RunningInv(s, history) /\ Met(s, history) = s.since..Len(history)
      /\ Len(history) \in Nat /\ s.since \in 1..Len(history)
  BY AtAStep
<1>2. PICK i \in Met(s, history) : s.key \in KeysFor(history[i], s.request.table)
  BY <1>1 DEF RunningInv
<1>3. i <= Len(history) /\ (s.since = Len(history) => i = Len(history))
  BY <1>1, <1>2
<1>4. QED
  BY <1>2, <1>3 DEF active

\* The second lock decides about the column under the key of the first.
LEMMA LookUpColumnKeeps ==
    ASSUME IInv, NEW b \in Builders, LookUpColumn(b)
    PROVE  IInv'
<1> DEFINE s == build[b]
           r == s.request
           column == Step(b).column
<1>1. AtStep(b, {"column"}) /\ AtStep(b, {"column", "operator"})
      /\ s.key # NoKey /\ KeyPresent(active, s.key)
  BY DEF LookUpColumn, AtStep
<1>2. /\ s \in Build /\ r \in Requests /\ AsksAbout(r, Step(b))
      /\ Step(b).check = "column"
      /\ Met(s, history) = s.since..Len(history)
      /\ Len(history) \in Nat /\ s.since \in 1..Len(history)
  BY <1>1, AtAStep
<1>3. CASE ColumnListed(active, s.key, column)
  <2>1. Passed(b, s)
    BY <1>3 DEF LookUpColumn
  <2>2. PICK i \in Met(s, history) :
           i <= Len(history) /\ s.key \in KeysFor(history[i], r.table)
    BY <1>1, KeyResolved
  <2>3. Len(history) \in Met(s, history)
    BY <1>2
  <2>4. Consulted(s, history, Step(b))
    BY <1>1, <1>2, <1>3, <2>2, <2>3 DEF Consulted, active
  <2>5. QED
    BY <1>1, <2>1, <2>4, PlainPassKeeps
<1>4. CASE ~ColumnListed(active, s.key, column)
  <2>1. End(b, "policy_denied")
    BY <1>4 DEF LookUpColumn
  <2>2. column \in ColumnsOf(r)
    BY <1>2 DEF AsksAbout
  <2>3. s.since = Len(history) => ~Admissible(active, r)
    BY <1>1, <1>4, <2>2, KeyResolved, LookUpDenies
  <2>4. QED
    BY <1>1, <2>1, <2>3, EndKeeps
<1>5. QED
  BY <1>3, <1>4

\* The second lock decides about the operator, and a filter binds its value.
LEMMA LookUpOperatorKeeps ==
    ASSUME IInv, NEW b \in Builders, LookUpOperator(b)
    PROVE  IInv'
<1> DEFINE s == build[b]
           r == s.request
           column == Step(b).column
           operator == Step(b).operator
<1>1. AtStep(b, {"operator"}) /\ AtStep(b, {"column", "operator"})
      /\ s.key # NoKey /\ KeyPresent(active, s.key)
  BY DEF LookUpOperator, AtStep
<1>2. /\ s \in Build /\ r \in Requests /\ AsksAbout(r, Step(b))
      /\ Step(b).check = "operator"
      /\ Met(s, history) = s.since..Len(history)
      /\ Len(history) \in Nat /\ s.since \in 1..Len(history)
  BY <1>1, AtAStep
<1>3. CASE OperatorListed(active, s.key, column, operator)
  <2>1. Passed(b, s)
    BY <1>3 DEF LookUpOperator
  <2>2. PICK i \in Met(s, history) :
           i <= Len(history) /\ s.key \in KeysFor(history[i], r.table)
    BY <1>1, KeyResolved
  <2>3. Len(history) \in Met(s, history)
    BY <1>2
  <2>4. ColumnListed(active, s.key, column)
    BY <1>3 DEF OperatorListed
  <2>5. Consulted(s, history, Step(b))
    BY <1>1, <1>2, <1>3, <2>2, <2>3, <2>4 DEF Consulted, active
  <2>6. QED
    BY <1>1, <2>1, <2>5, PlainPassKeeps
<1>4. CASE ~OperatorListed(active, s.key, column, operator)
  <2>1. End(b, "policy_denied")
    BY <1>4 DEF LookUpOperator
  <2>2. r.tool # "search"
        /\ \E n \in DOMAIN r.filters : Step(b) = OperatorStep(r.filters[n], n)
    BY <1>2 DEF AsksAbout
  <2>3. PICK n \in DOMAIN r.filters : Step(b) = OperatorStep(r.filters[n], n)
    BY <2>2
  <2>4. /\ r.filters[n] \in FiltersOf(r) /\ r.filters[n].column \in ColumnsOf(r)
        /\ column = r.filters[n].column /\ operator = r.filters[n].operator
    <3>1. r.filters[n] \in FiltersOf(r)
      BY <2>2 DEF FiltersOf
    <3>2. r.filters[n].column \in ColumnsOf(r)
      BY <1>2, <2>2 DEF ColumnsOf, IsRequest
    <3>3. QED
      BY <2>3, <3>1, <3>2 DEF OperatorStep
  <2>5. s.since = Len(history) => ~Admissible(active, r)
    BY <1>1, <1>4, <2>4, KeyResolved, LookUpDenies
  <2>6. QED
    BY <1>1, <2>1, <2>5, EndKeeps
<1>5. QED
  BY <1>3, <1>4

\* The key is gone at the second lock: a reload has removed it meanwhile.
LEMMA LookUpPanicsKeeps ==
    ASSUME IInv, NEW b \in Builders, LookUpPanics(b)
    PROVE  IInv'
<1>1. /\ AtStep(b, {"column", "operator"}) /\ build[b].key # NoKey
      /\ ~KeyPresent(active, build[b].key) /\ End(b, "panicked")
  BY DEF LookUpPanics
<1>2. \E i \in Met(build[b], history) :
         ~(KeysFor(history[i], build[b].request.table) \subseteq DOMAIN active.tables)
  BY <1>1, KeyResolved DEF KeyPresent
<1>3. QED
  BY <1>1, <1>2, EndKeeps

\* The limit that the plan gets is the one the policy of this step allows.
LEMMA CheckLimitKeeps ==
    ASSUME IInv, NEW b \in Builders, CheckLimit(b)
    PROVE  IInv'
<1> DEFINE s == build[b]
           r == s.request
           limit == RowLimit(active, Step(b).limit, Unset)
<1>1. AtStep(b, {"limit"})
  BY DEF CheckLimit
<1>2. /\ s \in Build /\ r \in Requests /\ AsksAbout(r, Step(b))
      /\ Step(b).check = "limit" /\ Step(b).limit = r.limit /\ r.tool # "aggregate"
      /\ Met(s, history) = s.since..Len(history) /\ RunningInv(s, history)
      /\ Len(history) \in Nat /\ s.since \in 1..Len(history)
      /\ active \in Policies /\ s.step \in 1..Len(Script(r))
  BY <1>1, AtAStep DEF AsksAbout
<1>3. CASE RowLimitAllowed(active, Step(b).limit, Unset)
  <2>1. PICK state : state = [s EXCEPT !.limit = limit]
    OBVIOUS
  <2>2. Passed(b, state)
    BY <1>3, <2>1 DEF CheckLimit
  <2>3. limit \in Nat
    <3>1. r.limit \in Nat \cup {Unset}
      BY <1>2 DEF IsRequest
    <3>2. active.default_row_limit \in Nat
      BY <1>2 DEF IsPolicyConfig
    <3>3. QED
      BY <1>2, <3>1, <3>2 DEF RowLimit
  <2>4. /\ state \in Build /\ state.request = r /\ state.step = s.step
        /\ state.since = s.since /\ state.until = s.until /\ state.limit = limit
        /\ state.from = s.from
        /\ state.outcome = s.outcome /\ state.binds = s.binds
        /\ state.bind_index = s.bind_index /\ state.placeholders = s.placeholders
    <3> HIDE DEF limit
    <3>1. QED
      BY <1>2, <2>1, <2>3 DEF Build
  <2>5. Met(state, history) = Met(s, history) /\ Len(history) \in Met(s, history)
    <3>1. Met(state, history) = Met(s, history)
      BY <2>4 DEF Met
    <3>2. Len(history) \in Met(s, history)
      BY <1>2
    <3>3. QED
      BY <3>1, <3>2
  <2>6. \A step : step.check = "limit" /\ step.limit = r.limit =>
                     Consulted(state, history, step)
    BY <1>2, <1>3, <2>4, <2>5 DEF Consulted, active
  <2>7. ASSUME NEW i \in 1..(s.step - 1)
        PROVE  Script(r)[i].ok /\ Consulted(state, history, Script(r)[i])
    <3>1. Script(r)[i].ok /\ Consulted(s, history, Script(r)[i])
      BY <1>2 DEF RunningInv, PassedBefore
    <3>2. CASE Script(r)[i].check = "limit"
      <4>1. IsSeq(Script(r)) /\ i \in 1..Len(Script(r))
        BY <1>2, ScriptCovers
      <4>2. Script(r)[i] \in Range(Script(r))
        BY <4>1 DEF IsSeq, Range
      <4>3. Script(r)[i].limit = r.limit
        BY <1>2, <3>2, <4>2, StepAsks DEF AsksAbout
      <4>4. QED
        BY <2>6, <3>1, <3>2, <4>3
    <3>3. CASE Script(r)[i].check # "limit"
      BY <2>4, <2>5, <3>1, <3>3 DEF Consulted
    <3>4. QED
      BY <3>2, <3>3
  <2>8. PassedBefore(state, history, s.step)
    BY <2>4, <2>7 DEF PassedBefore
  <2>9. Consulted(state, history, Step(b))
    BY <1>2, <2>6
  <2>10. QED
    BY <1>1, <2>2, <2>4, <2>8, <2>9, PassedKeeps
<1>4. CASE ~RowLimitAllowed(active, Step(b).limit, Unset)
  <2>1. End(b, "policy_denied")
    BY <1>4 DEF CheckLimit
  <2>2. ~Admissible(active, r)
    BY <1>2, <1>4 DEF Admissible, AdmissibleAs, LimitOf, RowLimitAllowed, RowLimit
  <2>3. QED
    BY <1>1, <2>1, <2>2, EndKeeps
<1>5. QED
  BY <1>3, <1>4

\* The number of terms is judged by the policy of this step.
LEMMA CheckComplexityKeeps ==
    ASSUME IInv, NEW b \in Builders, CheckComplexity(b)
    PROVE  IInv'
<1> DEFINE s == build[b]
           r == s.request
<1>1. AtStep(b, {"complexity"})
  BY DEF CheckComplexity
<1>2. /\ Step(b).check = "complexity" /\ Step(b).complexity = TermsOf(r)
      /\ Met(s, history) = s.since..Len(history)
      /\ Len(history) \in Nat /\ s.since \in 1..Len(history)
  BY <1>1, AtAStep DEF AsksAbout
<1>3. CASE ComplexityAllowed(active, Step(b).complexity)
  <2>1. Passed(b, s)
    BY <1>3 DEF CheckComplexity
  <2>2. Consulted(s, history, Step(b))
    BY <1>2, <1>3 DEF Consulted, active
  <2>3. QED
    BY <1>1, <2>1, <2>2, PlainPassKeeps
<1>4. CASE ~ComplexityAllowed(active, Step(b).complexity)
  <2>1. End(b, "policy_denied")
    BY <1>4 DEF CheckComplexity
  <2>2. ~Admissible(active, r)
    BY <1>2, <1>4 DEF Admissible, AdmissibleAs, ComplexityAllowed
  <2>3. QED
    BY <1>1, <2>1, <2>2, EndKeeps
<1>5. QED
  BY <1>3, <1>4

\* A step that consults no policy holds of every policy.
LEMMA SkipCheckKeeps ==
    ASSUME IInv, NEW b \in Builders, SkipCheck(b)
    PROVE  IInv'
<1>1. AtStep(b, {"none"}) /\ Passed(b, build[b])
  BY DEF SkipCheck
<1>2. Step(b).check = "none"
  BY <1>1, AtAStep
<1>3. Consulted(build[b], history, Step(b))
  BY <1>2 DEF Consulted
<1>4. QED
  BY <1>1, <1>3, PlainPassKeeps

\* A build begins knowing nothing, or is turned away for want of columns.
LEMMA BeginKeeps ==
    ASSUME IInv, NEW b \in Builders, Begin(b)
    PROVE  IInv'
<1>1. PICK r \in Requests :
         build' = [build EXCEPT ![b] =
                     [NotStarted EXCEPT
                        !.request = r, !.step = 1, !.since = Len(history),
                        !.until = Len(history),
                        !.outcome = IF NonEmpty(r) THEN "building" ELSE "invalid_request"]]
  BY DEF Begin
<1>2. Len(history) \in Nat \ {0} /\ UNCHANGED history
  BY EmptySeq DEF IInv, Begin
<1>3. PICK t :
         t = [NotStarted EXCEPT
                !.request = r, !.step = 1, !.since = Len(history),
                !.until = Len(history),
                !.outcome = IF NonEmpty(r) THEN "building" ELSE "invalid_request"]
  OBVIOUS
<1>4. /\ t \in Build /\ t.request = r /\ t.step = 1 /\ t.key = NoKey
      /\ t.since = Len(history) /\ t.until = Len(history)
      /\ t.outcome = IF NonEmpty(r) THEN "building" ELSE "invalid_request"
      /\ t.bind_index = 1 /\ t.binds = <<>> /\ t.placeholders = {}
  <2>1. t = [request |-> r, step |-> 1, key |-> NoKey, since |-> Len(history),
             until |-> Len(history), from |-> NoKey, limit |-> Unset,
             bind_index |-> 1, binds |-> <<>>, placeholders |-> {},
             outcome |-> IF NonEmpty(r) THEN "building" ELSE "invalid_request"]
    BY <1>3 DEF NotStarted
  <2>2. QED
    BY <1>2, <2>1 DEF Build
<1>5. Len(Script(r)) \in Nat
  BY ScriptCovers DEF IsSeq
<1>6. CASE NonEmpty(r)
  <2>1. BoundFilters(r, 1) = {} /\ PassedBefore(t, history, 1)
    BY DEF BoundFilters, PassedBefore
  <2>2. Aligned(<<>>, {}, FilterValues(r, {}))
    BY DEF Aligned, FilterValues
  <2>3. RunningInv(t, history)
    <3>1. 1 \in 1..(Len(Script(r)) + 1)
      BY <1>5
    <3>2. t.bind_index = Len(t.binds) + 1
      BY <1>4
    <3>3. Aligned(t.binds, t.placeholders,
                  FilterValues(t.request, BoundFilters(t.request, t.step)))
      BY <1>4, <2>1, <2>2
    <3>4. QED
      BY <1>4, <1>6, <2>1, <3>1, <3>2, <3>3 DEF RunningInv
  <2>4. BuildInv(t, history)
    BY <1>2, <1>4, <1>6, <2>3 DEF BuildInv
  <2>5. QED
    BY <1>1, <1>2, <1>3, <1>4, <2>4, OneBuildMoves
<1>7. CASE ~NonEmpty(r)
  <2>1. ~Buildable(r)
    BY <1>7, BuildableParts
  <2>2. BuildInv(t, history)
    BY <1>2, <1>4, <1>7, <2>1 DEF BuildInv
  <2>3. QED
    BY <1>1, <1>2, <1>3, <1>4, <2>2, OneBuildMoves
<1>8. QED
  BY <1>6, <1>7

\* All the steps of a script bind the values of all the filters.
LEMMA AllBound ==
    ASSUME NEW r \in Requests
    PROVE  BoundFilters(r, Len(Script(r)) + 1)
              = IF r.tool = "search" THEN {} ELSE DOMAIN r.filters
<1>1. Len(Script(r)) \in Nat /\ DOMAIN Script(r) = 1..Len(Script(r))
  BY ScriptCovers DEF IsSeq
<1>2. BoundFilters(r, Len(Script(r)) + 1) = {step.filter : step \in Range(Script(r))} \ {0}
  BY <1>1 DEF BoundFilters, Range
<1>3. \A step \in Range(Script(r)) : step.filter # 0 =>
         r.tool # "search" /\ step.filter \in DOMAIN r.filters
  BY StepAsks DEF AsksAbout, OperatorStep
<1>4. ASSUME r.tool # "search", NEW n \in DOMAIN r.filters
      PROVE  n # 0 /\ \E step \in Range(Script(r)) : step.filter = n
  <2>1. r.filters \in Seq(Filter)
    BY <1>4 DEF IsRequest
  <2>2. n # 0
    BY <2>1
  <2>3. OperatorStep(r.filters[n], n) \in Range(Script(r))
    BY <1>4, ScriptCovers DEF FilterStepsOf
  <2>4. QED
    BY <2>2, <2>3 DEF OperatorStep
<1>5. CASE r.tool = "search"
  BY <1>2, <1>3, <1>5
<1>6. CASE r.tool # "search"
  <2>1. {step.filter : step \in Range(Script(r))} \ {0} \subseteq DOMAIN r.filters
    BY <1>3
  <2>2. DOMAIN r.filters \subseteq {step.filter : step \in Range(Script(r))} \ {0}
    BY <1>4, <1>6
  <2>3. QED
    BY <1>2, <1>6, <2>1, <2>2
<1>7. QED
  BY <1>5, <1>6

\* An accepted plan binds the value of its limit or text last.
LEMMA FinishAligns ==
    ASSUME NEW s \in Build, s.request \in Requests,
           Aligned(s.binds, s.placeholders,
                   FilterValues(s.request,
                                BoundFilters(s.request, Len(Script(s.request)) + 1)))
    PROVE  /\ LastBinds(s) \in Seq(Bind)
           /\ s.placeholders \cup LastPlaceholders(s) \in SUBSET Placeholders
           /\ Aligned(LastBinds(s), s.placeholders \cup LastPlaceholders(s),
                      ValuesOf(s.request))
<1> DEFINE r == s.request
           limit == <<0, "limit">>
           text == <<0, "text">>
<1>1. r.tool \in {"select", "search", "aggregate"}
  BY DEF IsRequest
<1>2. /\ s.binds \in Seq(Bind) /\ Len(s.binds) \in Nat
      /\ s.placeholders \in SUBSET Placeholders
      /\ limit \in Bind /\ text \in Bind
  BY DEF Build, Placeholders, Bind
<1>3. CASE r.tool = "aggregate"
  <2>1. ValuesOf(r) = FilterValues(r, DOMAIN r.filters)
    BY <1>3 DEF ValuesOf, FilterValues
  <2>2. LastBinds(s) = s.binds /\ s.placeholders \cup LastPlaceholders(s) = s.placeholders
    BY <1>3 DEF LastBinds, LastPlaceholders
  <2>3. BoundFilters(r, Len(Script(r)) + 1) = DOMAIN r.filters
    BY <1>3, AllBound
  <2>4. QED
    BY <1>2, <2>1, <2>2, <2>3
<1>4. CASE r.tool = "select"
  <2>1. PICK values : values = FilterValues(r, DOMAIN r.filters)
    OBVIOUS
  <2>2. ValuesOf(r) = values \cup {limit}
    BY <1>4, <2>1 DEF ValuesOf, FilterValues
  <2>3. LastBinds(s) = s.binds \o <<limit>>
    <3>1. LastBinds(s) = Append(s.binds, limit)
      BY <1>4 DEF LastBinds
    <3>2. QED
      BY <1>2, <3>1, AppendIsConcat
  <2>4. Len(LastBinds(s)) = Len(s.binds) + 1
    BY <1>2, <2>3
  <2>5. s.placeholders \cup LastPlaceholders(s) = Placed(s.placeholders, Len(s.binds) + 1, limit)
    BY <1>4, <2>4 DEF LastPlaceholders, Placed
  <2>6. Aligned(s.binds, s.placeholders, values)
    BY <1>4, <2>1, AllBound
  <2> HIDE DEF limit
  <2>7. /\ s.binds \o <<limit>> \in Seq(Bind)
        /\ Placed(s.placeholders, Len(s.binds) + 1, limit) \in SUBSET Placeholders
        /\ Aligned(s.binds \o <<limit>>, Placed(s.placeholders, Len(s.binds) + 1, limit),
                   values \cup {limit})
    BY <1>2, <2>6, OneMoreBind
  <2>8. QED
    BY <2>2, <2>3, <2>5, <2>7
<1>5. CASE r.tool = "search"
  <2>1. FilterValues(r, {}) = {}
    BY DEF FilterValues
  <2>2. {p.stands_for : p \in s.placeholders} = {}
    BY <1>5, <2>1, AllBound DEF Aligned
  <2>3. s.placeholders = {}
    BY <2>2
  <2>4. PICK both, one, two : /\ both = <<text, limit>>
                              /\ one = [index |-> 1, stands_for |-> text]
                              /\ two = [index |-> 2, stands_for |-> limit]
    OBVIOUS
  <2>5. LastBinds(s) = both
    BY <1>5, <2>4 DEF LastBinds
  <2>6. s.placeholders \cup LastPlaceholders(s) = {one, two}
    BY <1>5, <2>3, <2>4 DEF LastPlaceholders
  <2>7. ValuesOf(r) = {text, limit}
    BY <1>5 DEF ValuesOf
  <2>8. both \in Seq(Bind) /\ Len(both) = 2 /\ both[1] = text /\ both[2] = limit
    BY <1>2, <2>4
  <2>9. /\ one \in Placeholders /\ one.index = 1 /\ one.stands_for = text
        /\ two \in Placeholders /\ two.index = 2 /\ two.stands_for = limit
    BY <1>2, <2>4 DEF Placeholders
  <2> HIDE DEF text, limit
  <2>10. {p.index : p \in {one, two}} = 1..Len(both)
    <3>1. 1..2 = {1, 2}
      OBVIOUS
    <3>2. {p.index : p \in {one, two}} = {1, 2}
      BY <2>9
    <3>3. QED
      BY <2>8, <3>1, <3>2
  <2>11. {p.stands_for : p \in {one, two}} = {text, limit}
    BY <2>9
  <2>12. \A p \in {one, two} : both[p.index] = p.stands_for
    BY <2>8, <2>9
  <2>13. Aligned(both, {one, two}, {text, limit})
    BY <2>10, <2>11, <2>12 DEF Aligned
  <2>14. QED
    BY <2>5, <2>6, <2>7, <2>8, <2>9, <2>13
<1>6. QED
  BY <1>1, <1>3, <1>4, <1>5

\* A build that passed every step is accepted with what it bound.
LEMMA FinishKeeps ==
    ASSUME IInv, NEW b \in Builders, Finish(b)
    PROVE  IInv'
<1> DEFINE s == build[b]
           r == s.request
<1>1. /\ s \in Build /\ BuildInv(s, history) /\ s.outcome = "building"
      /\ s.step > Len(Script(r)) /\ UNCHANGED history
  BY DEF IInv, Finish, Running
<1>2. r \in Requests /\ RunningInv(s, history)
  BY <1>1 DEF BuildInv
<1>3. Len(history) \in Nat /\ s.since \in 1..Len(history)
  <2>1. history \in Seq(Policies)
    BY DEF IInv
  <2>2. Len(history) \in Nat
    BY <2>1
  <2>3. QED
    BY <1>1, <2>2 DEF BuildInv, Build
<1>4. s.step = Len(Script(r)) + 1
  <2>1. Len(Script(r)) \in Nat
    BY <1>2, ScriptCovers DEF IsSeq
  <2>2. QED
    BY <1>1, <1>2, <2>1 DEF RunningInv
<1>5. PICK binds, placeholders : /\ binds = LastBinds(s)
                                 /\ placeholders = s.placeholders \cup LastPlaceholders(s)
  OBVIOUS
<1>6. /\ binds \in Seq(Bind) /\ placeholders \in SUBSET Placeholders
      /\ Aligned(binds, placeholders, ValuesOf(r))
  BY <1>1, <1>2, <1>4, <1>5, FinishAligns DEF RunningInv
<1>7. PICK t : t = [s EXCEPT !.outcome = "accepted", !.until = Len(history),
                             !.binds = binds, !.placeholders = placeholders]
  OBVIOUS
<1>8. build' = [build EXCEPT ![b] = t]
  <2>1. build' = [build EXCEPT ![b] =
                    [s EXCEPT !.outcome = "accepted", !.until = Len(history),
                              !.binds = LastBinds(s),
                              !.placeholders = s.placeholders \cup LastPlaceholders(s)]]
    BY DEF Finish
  <2>2. QED
    BY <1>5, <1>7, <2>1
<1>9. /\ t \in Build /\ t.request = r /\ t.since = s.since /\ t.until = Len(history)
      /\ t.outcome = "accepted" /\ t.limit = s.limit /\ t.from = s.from
      /\ t.binds = binds /\ t.placeholders = placeholders
  BY <1>1, <1>3, <1>6, <1>7 DEF Build, Placeholders
<1>10. PassedBefore(t, history, Len(Script(r)) + 1)
  <2>1. Met(t, history) = Met(s, history)
    BY <1>1, <1>9 DEF Met
  <2>2. \A step : Consulted(s, history, step) => Consulted(t, history, step)
    BY <1>9, <2>1 DEF Consulted
  <2>3. QED
    BY <1>2, <1>4, <1>9, <2>2 DEF RunningInv, PassedBefore
<1>11. AcceptedInv(t, history)
  BY <1>2, <1>6, <1>9, <1>10 DEF AcceptedInv, RunningInv
<1>12. BuildInv(t, history)
  BY <1>1, <1>2, <1>3, <1>9, <1>11 DEF BuildInv
<1>13. QED
  BY <1>1, <1>8, <1>9, <1>12, OneBuildMoves

\* A reload adds a policy to those met; what earlier steps found stays found.
LEMMA ReloadKeeps ==
    ASSUME IInv, NEW policy \in Policies, Reload(policy)
    PROVE  IInv'
<1>1. /\ history \in Seq(Policies) /\ build \in [Builders -> Build]
      /\ history' = Append(history, policy) /\ build' = build
  BY DEF IInv, Reload
<1>2. history' \in Seq(Policies) \ {<<>>}
  BY <1>1, AppendProperties
<1>3. \A b \in Builders : BuildInv(build[b], history')
  BY <1>1, HistoryGrows DEF IInv
<1>4. QED
  BY <1>1, <1>2, <1>3 DEF IInv

\* Nothing has begun.
LEMMA InitHolds == Init => IInv
<1> SUFFICES ASSUME Init PROVE IInv
  OBVIOUS
<1>1. history \in Seq(Policies) \ {<<>>} /\ Len(history) = 1
  <2>1. PICK policy \in Policies : history = <<policy>>
    BY DEF Init
  <2>2. QED
    BY <2>1
<1>2. NotStarted \in Build
  BY DEF NotStarted, Build
<1>3. BuildInv(NotStarted, history)
  BY <1>1 DEF BuildInv, NotStarted
<1>4. QED
  BY <1>1, <1>2, <1>3 DEF Init, IInv

-----------------------------------------------------------------------------
(* The theorems.                                                           *)

\* Every step of a build and every reload preserves the inductive invariant.
THEOREM NextPreserves == IInv /\ [Next]_vars => IInv'
<1> SUFFICES ASSUME IInv, [Next]_vars PROVE IInv'
  OBVIOUS
<1>1. ASSUME NEW b \in Builders, BuildStep(b) PROVE IInv'
  <2>1. CASE Begin(b) \/ Finish(b)
    BY <2>1, BeginKeeps, FinishKeeps
  <2>2. CASE CheckTable(b) \/ ResolveKey(b)
    BY <2>2, CheckTableKeeps, ResolveKeyKeeps
  <2>3. CASE LookUpColumn(b) \/ LookUpOperator(b) \/ LookUpPanics(b)
    BY <2>3, LookUpColumnKeeps, LookUpOperatorKeeps, LookUpPanicsKeeps
  <2>4. CASE CheckLimit(b) \/ CheckComplexity(b) \/ SkipCheck(b)
    BY <2>4, CheckLimitKeeps, CheckComplexityKeeps, SkipCheckKeeps
  <2>5. QED
    BY <1>1, <2>1, <2>2, <2>3, <2>4 DEF BuildStep
<1>2. ASSUME NEW policy \in Policies, Reload(policy) PROVE IInv'
  BY <1>2, ReloadKeeps
<1>3. CASE UNCHANGED vars
  BY <1>3 DEF IInv, vars
<1>4. QED
  BY <1>1, <1>2, <1>3 DEF Next

\* The inductive invariant holds of every behaviour of the builder.
THEOREM Invariance == Spec => []IInv
BY InitHolds, NextPreserves, PTL DEF Spec

\* Histories and builds always have their types.
THEOREM TypeCorrect == Spec => []TypeOK
<1>1. IInv => TypeOK
  <2> SUFFICES ASSUME IInv, NEW b \in Builders
               PROVE  /\ build[b] \in Build
                      /\ build[b].since \in 0..Len(history)
                      /\ build[b].until \in build[b].since..Len(history)
    BY DEF IInv, TypeOK, Build
  <2>1. QED
    BY DEF IInv, BuildInv
<1>2. QED
  BY <1>1, Invariance, PTL

\* What an accepted plan says of every step of its script.
LEMMA AcceptedMeans ==
    ASSUME IInv, NEW b \in Builders, Accepted(b)
    PROVE  LET s == build[b]
           IN  /\ s.request \in Requests /\ Buildable(s.request)
               /\ Met(s, history) = During(b)
               /\ s.since \in 1..Len(history) /\ s.until \in s.since..Len(history)
               /\ Len(history) \in Nat
               /\ \A step \in Range(Script(s.request)) : Consulted(s, history, step)
<1> DEFINE s == build[b]
           r == s.request
<1>1. s \in Build /\ BuildInv(s, history) /\ s.outcome = "accepted"
  BY DEF IInv, Accepted
<1>2. /\ r \in Requests /\ AcceptedInv(s, history) /\ Met(s, history) = During(b)
  BY <1>1 DEF BuildInv, Met, During
<1>3. Len(history) \in Nat /\ s.since \in 1..Len(history) /\ s.until \in s.since..Len(history)
  <2>1. history \in Seq(Policies)
    BY DEF IInv
  <2>2. Len(history) \in Nat
    BY <2>1
  <2>3. QED
    BY <1>1, <2>2 DEF BuildInv, Build
<1>4. ASSUME NEW step \in Range(Script(r))
      PROVE  step.ok /\ Consulted(s, history, step)
  <2>1. DOMAIN Script(r) = 1..Len(Script(r)) /\ Len(Script(r)) \in Nat
    BY <1>2, ScriptCovers DEF IsSeq
  <2>2. PICK i \in 1..Len(Script(r)) : step = Script(r)[i]
    BY <1>4, <2>1 DEF Range
  <2>3. i \in 1..((Len(Script(r)) + 1) - 1)
    BY <2>1, <2>2
  <2>4. QED
    BY <1>2, <2>2, <2>3 DEF AcceptedInv, PassedBefore
<1>5. Buildable(r)
  BY <1>2, <1>4, AllOkMeansBuildable DEF AcceptedInv
<1>6. QED
  BY <1>2, <1>3, <1>4, <1>5

\* Whatever is reloaded meanwhile, a policy of its time allowed each part of
\* an accepted plan, the table in its FROM included.
THEOREM PlanCovered == Spec => []PlanCoveredWhileBuilding
<1>1. ASSUME IInv, NEW b \in Builders, Accepted(b)
      PROVE  LET r == build[b].request
                 Listed(Test(_)) ==
                     \E i, j \in During(b) :
                         /\ i <= j
                         /\ \E key \in KeysFor(history[i], r.table) :
                               /\ key \in DOMAIN history[j].tables
                               /\ Test(history[j].tables[key])
             IN  /\ WellFormed(r)
                 /\ \E i \in During(b) : KeysFor(history[i], build[b].from) # {}
                 /\ \A column \in ColumnsOf(r) :
                       LET Allowed(table) == column \in table.columns
                       IN  Listed(Allowed)
                 /\ \A f \in FiltersOf(r) :
                       LET Allowed(table) == f.column \in table.columns /\ FilterListed(table, f)
                       IN  Listed(Allowed)
                 /\ r.tool # "aggregate" =>
                       \E i \in During(b) : /\ build[b].limit = LimitOf(history[i], r)
                                            /\ build[b].limit <= history[i].max_row_limit
                 /\ \E i \in During(b) : TermsOf(r) <= history[i].max_query_complexity
  <2> DEFINE s == build[b]
             r == s.request
  <2>1. /\ r \in Requests /\ Buildable(r) /\ Met(s, history) = During(b)
        /\ \A step \in Range(Script(r)) : Consulted(s, history, step)
    BY <1>1, AcceptedMeans
  <2>2. ASSUME NEW column \in ColumnsOf(r)
        PROVE  \E i, j \in During(b) :
                  /\ i <= j
                  /\ \E key \in KeysFor(history[i], r.table) :
                        /\ key \in DOMAIN history[j].tables
                        /\ column \in history[j].tables[key].columns
    <3>1. PICK step \in Range(Script(r)) : step.check = "column" /\ step.column = column
      BY <2>1, ScriptCovers
    <3>2. QED
      BY <2>1, <3>1 DEF Consulted, KeyPresent, ColumnListed
  <2>3. ASSUME NEW f \in FiltersOf(r)
        PROVE  \E i, j \in During(b) :
                  /\ i <= j
                  /\ \E key \in KeysFor(history[i], r.table) :
                        /\ key \in DOMAIN history[j].tables
                        /\ f.column \in history[j].tables[key].columns
                        /\ FilterListed(history[j].tables[key], f)
    <3>1. PICK n \in DOMAIN r.filters : f = r.filters[n] /\ r.tool # "search"
      BY DEF FiltersOf
    <3>2. PICK step \in Range(Script(r)) : step = OperatorStep(f, n)
      BY <2>1, <3>1, ScriptCovers DEF FilterStepsOf
    <3>3. step.check = "operator" /\ step.column = f.column /\ step.operator = f.operator
      BY <3>2 DEF OperatorStep
    <3>4. QED
      BY <2>1, <3>3 DEF Consulted, KeyPresent, ColumnListed, OperatorListed, FilterListed
  <2>4. r.tool # "aggregate" =>
           \E i \in During(b) : /\ build[b].limit = LimitOf(history[i], r)
                                /\ build[b].limit <= history[i].max_row_limit
    <3>1. /\ LimitStep(r.limit).check = "limit" /\ LimitStep(r.limit).limit = r.limit
      BY DEF LimitStep
    <3>2. QED
      BY <2>1, <3>1, ScriptCovers DEF Consulted, RowLimit, RowLimitAllowed, LimitOf
  <2>5. \E i \in During(b) : TermsOf(r) <= history[i].max_query_complexity
    <3>1. /\ ComplexityStep(TermsOf(r)).check = "complexity"
          /\ ComplexityStep(TermsOf(r)).complexity = TermsOf(r)
      BY DEF ComplexityStep
    <3>2. QED
      BY <2>1, <3>1, ScriptCovers DEF Consulted, ComplexityAllowed
  <2>6. \E i \in During(b) : KeysFor(history[i], s.from) # {}
    <3>1. TableStep(r.table).check = "table"
      BY DEF TableStep
    <3>2. QED
      BY <2>1, <3>1, ScriptCovers DEF Consulted
  <2>7. QED
    BY <2>1, <2>2, <2>3, <2>4, <2>5, <2>6 DEF Buildable
<1>2. IInv => PlanCoveredWhileBuilding
  BY <1>1 DEF PlanCoveredWhileBuilding
<1>3. QED
  BY <1>2, Invariance, PTL

\* What was decided without a reload is exactly what the policy and the
\* documents say of the whole request, except that a value_to that the
\* documents say is ignored makes it invalid (query.rs:319); and the name in
\* FROM stands for the table that everything was checked under.
THEOREM UndisturbedExact == Spec => []UndisturbedBuildIsExact
<1>1. ASSUME IInv, NEW b \in Builders, Accepted(b), build[b].since = build[b].until
      PROVE  Admissible(history[build[b].since], build[b].request)
             /\ Buildable(build[b].request)
             /\ build[b].from = build[b].request.table
  <2> DEFINE s == build[b]
             r == s.request
  <2>1. PICK k, policy : k = s.since /\ policy = history[k]
    OBVIOUS
  <2>2. /\ r \in Requests /\ Buildable(r)
        /\ \A step \in Range(Script(r)) : Consulted(s, history, step)
        /\ k \in Nat /\ Met(s, history) = k..k
    <3>1. Met(s, history) = During(b) /\ s.since \in 1..Len(history) /\ Len(history) \in Nat
      BY <1>1, AcceptedMeans
    <3>2. k \in Nat /\ Met(s, history) = k..k
      BY <1>1, <2>1, <3>1 DEF During
    <3>3. QED
      BY <1>1, <3>2, AcceptedMeans
  <2>3. \A i \in Met(s, history) : history[i] = policy
    BY <2>1, <2>2
  <2>4. PICK key \in KeysFor(policy, r.table) : TRUE
    <3>1. TableStep(r.table).check = "table"
      BY DEF TableStep
    <3>2. QED
      BY <2>2, <2>3, <3>1, ScriptCovers DEF Consulted
  <2>5. \A other \in KeysFor(policy, r.table) : other = key
    BY KeysUnique
  <2>6. ASSUME NEW column \in ColumnsOf(r)
        PROVE  column \in policy.tables[key].columns
    <3>1. PICK step \in Range(Script(r)) : step.check = "column" /\ step.column = column
      BY <2>2, ScriptCovers
    <3>2. QED
      BY <2>2, <2>3, <2>5, <3>1 DEF Consulted, ColumnListed
  <2>7. ASSUME NEW f \in FiltersOf(r)
        PROVE  FilterListed(policy.tables[key], f)
    <3>1. PICK n \in DOMAIN r.filters : f = r.filters[n] /\ r.tool # "search"
      BY DEF FiltersOf
    <3>2. PICK step \in Range(Script(r)) : step = OperatorStep(f, n)
      BY <2>2, <3>1, ScriptCovers DEF FilterStepsOf
    <3>3. step.check = "operator" /\ step.column = f.column /\ step.operator = f.operator
      BY <3>2 DEF OperatorStep
    <3>4. QED
      BY <2>2, <2>3, <2>5, <3>3 DEF Consulted, OperatorListed, FilterListed
  <2>8. r.tool # "aggregate" => LimitOf(policy, r) <= policy.max_row_limit
    <3>1. /\ LimitStep(r.limit).check = "limit" /\ LimitStep(r.limit).limit = r.limit
      BY DEF LimitStep
    <3>2. QED
      BY <2>2, <2>3, <3>1, ScriptCovers DEF Consulted, RowLimit, RowLimitAllowed, LimitOf
  <2>9. TermsOf(r) <= policy.max_query_complexity
    <3>1. /\ ComplexityStep(TermsOf(r)).check = "complexity"
          /\ ComplexityStep(TermsOf(r)).complexity = TermsOf(r)
      BY DEF ComplexityStep
    <3>2. QED
      BY <2>2, <2>3, <3>1, ScriptCovers DEF Consulted, ComplexityAllowed
  <2>10. Admissible(policy, r)
    BY <2>4, <2>6, <2>7, <2>8, <2>9 DEF Admissible, AdmissibleAs
  <2>11. s.from = r.table
    <3>1. TableStep(r.table).check = "table"
      BY DEF TableStep
    <3>2. QED
      BY <2>2, <3>1, ScriptCovers DEF Consulted
  <2>12. QED
    BY <2>1, <2>2, <2>10, <2>11
<1>2. ASSUME IInv, NEW b \in Builders, build[b].since = build[b].until
      PROVE  build[b].outcome # "panicked"
  <2> DEFINE s == build[b]
  <2>1. BuildInv(s, history) /\ s \in Build
    BY <1>2 DEF IInv
  <2> SUFFICES ASSUME s.outcome = "panicked" PROVE FALSE
    OBVIOUS
  <2>2. PICK i \in Met(s, history) : ~(KeysFor(history[i], s.request.table)
                                         \subseteq DOMAIN history[s.until].tables)
    BY <2>1 DEF BuildInv
  <2>3. i = s.until
    BY <1>2, <2>1, <2>2 DEF Met, Build
  <2>4. QED
    BY <2>2, <2>3, KeysResolve
<1>3. IInv => UndisturbedBuildIsExact
  <2> SUFFICES ASSUME IInv, NEW b \in Builders, Ended(b),
                      build[b].since = build[b].until
               PROVE  LET policy == history[build[b].since]
                          r == build[b].request
                      IN  /\ build[b].outcome # "panicked"
                          /\ Accepted(b) <=>
                                Admissible(policy, r) /\ WellFormed(r) /\ ~StrayValueTo(r)
                          /\ Accepted(b) => AdmissibleAs(policy, build[b].from, r)
                          /\ build[b].outcome = "policy_denied" => ~Admissible(policy, r)
                          /\ build[b].outcome = "invalid_request" =>
                                ~WellFormed(r) \/ StrayValueTo(r)
    BY DEF UndisturbedBuildIsExact
  <2>1. build[b] \in Build /\ BuildInv(build[b], history)
    BY DEF IInv
  <2>2. build[b].outcome \in {"accepted", "policy_denied", "invalid_request", "panicked"}
    BY <2>1 DEF Ended, Build
  <2>3. /\ build[b].outcome = "policy_denied" =>
              ~Admissible(history[build[b].since], build[b].request)
        /\ build[b].outcome = "invalid_request" => ~Buildable(build[b].request)
    BY <2>1 DEF BuildInv
  <2>4. Accepted(b) => Admissible(history[build[b].since], build[b].request)
                       /\ Buildable(build[b].request)
                       /\ build[b].from = build[b].request.table
    BY <1>1
  <2>5. build[b].outcome # "panicked"
    BY <1>2
  <2>6. QED
    BY <2>2, <2>3, <2>4, <2>5 DEF Accepted, Admissible, Buildable
<1>4. QED
  BY <1>3, Invariance, PTL

\* The placeholders of an accepted plan bind the values they are written for.
THEOREM PlaceholdersAligned == Spec => []PlaceholdersBindTheirValues
<1>1. IInv => PlaceholdersBindTheirValues
  <2> SUFFICES ASSUME IInv, NEW b \in Builders, Accepted(b)
               PROVE  LET binds == build[b].binds
                          placeholders == build[b].placeholders
                      IN  /\ {h.index : h \in placeholders} = DOMAIN binds
                          /\ \A h \in placeholders : binds[h.index] = h.stands_for
                          /\ {h.stands_for : h \in placeholders}
                                = ValuesOf(build[b].request)
    BY DEF PlaceholdersBindTheirValues
  <2>1. build[b] \in Build /\ BuildInv(build[b], history)
    BY DEF IInv
  <2>2. Aligned(build[b].binds, build[b].placeholders, ValuesOf(build[b].request))
    BY <2>1 DEF BuildInv, AcceptedInv, Accepted
  <2>3. DOMAIN build[b].binds = 1..Len(build[b].binds)
    BY <2>1 DEF Build
  <2>4. QED
    BY <2>2, <2>3 DEF Aligned
<1>2. QED
  BY <1>1, Invariance, PTL

\* A build that panicked had a key taken from under it by a reload.
THEOREM PanicsAreReloads == Spec => []PanicMeansKeyRemoved
<1>1. IInv => PanicMeansKeyRemoved
  <2> SUFFICES ASSUME IInv, NEW b \in Builders, build[b].outcome = "panicked"
               PROVE  \E i, j \in During(b) :
                         i < j /\ ~(KeysFor(history[i], build[b].request.table)
                                      \subseteq DOMAIN history[j].tables)
    BY DEF PanicMeansKeyRemoved
  <2> DEFINE s == build[b]
  <2>1. BuildInv(s, history) /\ s \in Build /\ Met(s, history) = During(b)
    BY DEF IInv, Met, During
  <2>2. PICK i \in During(b) : ~(KeysFor(history[i], s.request.table)
                                   \subseteq DOMAIN history[s.until].tables)
    BY <2>1 DEF BuildInv
  <2>3. i # s.until
    BY <2>2, KeysResolve
  <2>4. s.since \in Nat /\ s.until \in s.since..Len(history)
    BY <2>1 DEF BuildInv, Build
  <2>5. s.until \in During(b) /\ i < s.until
    BY <2>1, <2>2, <2>3, <2>4 DEF During, Build
  <2>6. QED
    BY <2>2, <2>5
<1>2. QED
  BY <1>1, Invariance, PTL
=============================================================================
