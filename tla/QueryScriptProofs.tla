------------------------- MODULE QueryScriptProofs -------------------------
(***************************************************************************)
(* What the keys and the scripts of QueryBuild are, for any policy and any *)
(* request: the lemmas that the proofs about builds rest on.               *)
(*                                                                         *)
(* A script is put together in an order that matters to the interleavings  *)
(* and to nothing else here: StepAsks and ScriptCovers say that it asks    *)
(* about the whole request and about nothing but the request, whatever the *)
(* order, and the proofs about builds use no more.                         *)
(***************************************************************************)
EXTENDS QueryBuild, SequenceTheorems, TLAPS

USE PoliciesAssumption, SentinelAssumption, RequestsAssumption, NamesAssumption

-----------------------------------------------------------------------------
(* Keys.                                                                   *)

\* The keys the docs let a name stand for are those resolve_table_key finds.
LEMMA KeysResolve ==
    ASSUME NEW policy, NEW table, NEW key
    PROVE  key \in KeysFor(policy, table)
              <=> key \in DOMAIN policy.tables /\ ResolvesTo(policy, table, key)
<1>1. CASE table \in DOMAIN policy.tables \/ Qualified(table)
  BY <1>1 DEF KeysFor, ResolvesTo, Qualified
<1>2. CASE table \notin DOMAIN policy.tables /\ ~Qualified(table)
  BY <1>2 DEF KeysFor, ResolvesTo, Qualified, Candidates
<1>3. QED
  BY <1>1, <1>2

\* A name stands for one key at most.
LEMMA KeysUnique ==
    ASSUME NEW policy, NEW table,
           NEW k1 \in KeysFor(policy, table), NEW k2 \in KeysFor(policy, table)
    PROVE  k1 = k2
BY DEF KeysFor

-----------------------------------------------------------------------------
(* Scripts: the steps they consist of.                                     *)

ColumnStepsOf(columns) == {ColumnStep(columns[i]) : i \in DOMAIN columns}

FilterStepsOf(filters) ==
    {FilterColumnStep(filters[n]) : n \in DOMAIN filters} \cup
    {OperatorStep(filters[n], n) : n \in DOMAIN filters}

\* A sequence that is a sequence of anything has these steps.
LEMMA ColumnStepsRange ==
    ASSUME NEW columns \in Seq(Names)
    PROVE  /\ ColumnSteps(columns) \in Seq(ColumnStepsOf(columns))
           /\ Range(ColumnSteps(columns)) = ColumnStepsOf(columns)
<1>1. DOMAIN columns = 1..Len(columns) /\ Len(columns) \in Nat
  OBVIOUS
<1>2. ColumnSteps(columns) \in [1..Len(columns) -> ColumnStepsOf(columns)]
  BY <1>1 DEF ColumnSteps, ColumnStepsOf
<1>3. ColumnSteps(columns) \in Seq(ColumnStepsOf(columns))
  BY <1>1, <1>2, SeqDef
<1>4. QED
  BY <1>1, <1>3 DEF ColumnSteps, ColumnStepsOf, Range

\* The steps about filters are the two of each filter.
LEMMA FilterStepsRange ==
    ASSUME NEW filters \in Seq(Filter)
    PROVE  /\ FilterSteps(filters) \in Seq(FilterStepsOf(filters))
           /\ Range(FilterSteps(filters)) = FilterStepsOf(filters)
<1> DEFINE n == Len(filters)
<1>1. DOMAIN filters = 1..n /\ n \in Nat /\ 2 * n \in Nat
  OBVIOUS
<1>2. ASSUME NEW i \in 1..(2 * n)
      PROVE  /\ (i + 1) \div 2 \in 1..n
             /\ FilterSteps(filters)[i] \in FilterStepsOf(filters)
  <2>1. (i + 1) \div 2 \in 1..n
    BY <1>1
  <2>2. QED
    BY <1>1, <2>1 DEF FilterSteps, FilterStepsOf
<1>3. FilterSteps(filters) \in [1..(2 * n) -> FilterStepsOf(filters)]
  BY <1>2 DEF FilterSteps
<1>4. FilterSteps(filters) \in Seq(FilterStepsOf(filters))
  BY <1>1, <1>3, SeqDef
<1>5. ASSUME NEW m \in 1..n
      PROVE  /\ FilterSteps(filters)[2 * m - 1] = FilterColumnStep(filters[m])
             /\ FilterSteps(filters)[2 * m] = OperatorStep(filters[m], m)
             /\ 2 * m - 1 \in 1..(2 * n) /\ 2 * m \in 1..(2 * n)
  <2>1. /\ 2 * m - 1 \in 1..(2 * n) /\ 2 * m \in 1..(2 * n)
        /\ ((2 * m - 1) + 1) \div 2 = m /\ (2 * m + 1) \div 2 = m
        /\ (2 * m - 1) % 2 = 1 /\ (2 * m) % 2 = 0
    BY <1>1
  <2>2. QED
    BY <2>1 DEF FilterSteps
<1>6. DOMAIN FilterSteps(filters) = 1..(2 * n)
  BY DEF FilterSteps
<1>7. FilterStepsOf(filters) \subseteq Range(FilterSteps(filters))
  BY <1>1, <1>5, <1>6 DEF FilterStepsOf, Range
<1>8. QED
  BY <1>2, <1>4, <1>6, <1>7 DEF Range

\* The sequences that scripts are put together from, whatever they hold.
IsSeq(s) == \E S : s \in Seq(S)

\* A script put together from two parts has the steps of both.
LEMMA ConcatRange ==
    ASSUME NEW s, NEW t, IsSeq(s), IsSeq(t)
    PROVE  IsSeq(s \o t) /\ Range(s \o t) = Range(s) \cup Range(t)
<1>1. PICK S, T : s \in Seq(S) /\ t \in Seq(T)
  BY DEF IsSeq
<1>2. s \in Seq(S \cup T) /\ t \in Seq(S \cup T)
  BY <1>1, SeqMonotonic
<1>3. s \o t \in Seq(S \cup T)
  BY <1>2, ConcatProperties
<1>4. QED
  BY <1>2, <1>3, RangeConcatenation DEF IsSeq

\* The scripts of one and of two steps.
LEMMA ShortSeqRange ==
    ASSUME NEW x, NEW y
    PROVE  /\ IsSeq(<<x>>) /\ Range(<<x>>) = {x}
           /\ IsSeq(<<x, y>>) /\ Range(<<x, y>>) = {x, y}
<1>1. <<x>> \in Seq({x}) /\ <<x, y>> \in Seq({x, y})
  OBVIOUS
<1>2. Range(<<x>>) = {x}
  BY DEF Range
<1>3. Range(<<x, y>>) = {x, y}
  <2>1. DOMAIN <<x, y>> = {1, 2} /\ <<x, y>>[1] = x /\ <<x, y>>[2] = y
    OBVIOUS
  <2>2. QED
    BY <2>1 DEF Range
<1>4. QED
  BY <1>1, <1>2, <1>3 DEF IsSeq

\* What the script of each kind of request consists of.
LEMMA SelectSteps ==
    ASSUME NEW r \in Requests, r.tool = "select"
    PROVE  /\ IsSeq(Script(r))
           /\ Range(Script(r)) =
                {TableStep(r.table), LimitStep(r.limit), ComplexityStep(TermsOf(r))}
                  \cup ColumnStepsOf(r.columns) \cup FilterStepsOf(r.filters)
<1>1. r.columns \in Seq(Names) /\ r.filters \in Seq(Filter)
  BY DEF IsRequest
<1> DEFINE first == <<TableStep(r.table)>>
           columns == ColumnSteps(r.columns)
           ends == <<LimitStep(r.limit),
                     ComplexityStep(QueryComplexity(Len(r.columns), Len(r.filters)))>>
           filters == FilterSteps(r.filters)
<1>2. Script(r) = ((first \o columns) \o ends) \o filters
  BY DEF Script, SelectScript
<1>3. TermsOf(r) = QueryComplexity(Len(r.columns), Len(r.filters))
  BY DEF TermsOf, QueryComplexity
<1> HIDE DEF first, columns, ends, filters
<1>4. IsSeq(first) /\ Range(first) = {TableStep(r.table)}
  BY ShortSeqRange DEF first
<1>5. IsSeq(columns) /\ Range(columns) = ColumnStepsOf(r.columns)
  BY <1>1, ColumnStepsRange DEF columns, IsSeq
<1>6. IsSeq(ends) /\ Range(ends) = {LimitStep(r.limit), ComplexityStep(TermsOf(r))}
  BY <1>3, ShortSeqRange DEF ends
<1>7. IsSeq(filters) /\ Range(filters) = FilterStepsOf(r.filters)
  BY <1>1, FilterStepsRange DEF filters, IsSeq
<1>8. IsSeq(first \o columns)
      /\ Range(first \o columns) = Range(first) \cup Range(columns)
  BY <1>4, <1>5, ConcatRange
<1>9. IsSeq((first \o columns) \o ends)
      /\ Range((first \o columns) \o ends) = Range(first \o columns) \cup Range(ends)
  BY <1>6, <1>8, ConcatRange
<1>10. IsSeq(Script(r))
       /\ Range(Script(r)) = Range((first \o columns) \o ends) \cup Range(filters)
  BY <1>2, <1>7, <1>9, ConcatRange
<1>11. QED
  BY <1>4, <1>5, <1>6, <1>7, <1>8, <1>9, <1>10

\* The steps of a search: table, both kinds of columns, limit and terms.
LEMMA SearchSteps ==
    ASSUME NEW r \in Requests, r.tool = "search"
    PROVE  /\ IsSeq(Script(r))
           /\ Range(Script(r)) =
                {TableStep(r.table), LimitStep(r.limit), ComplexityStep(TermsOf(r))}
                  \cup ColumnStepsOf(r.columns) \cup ColumnStepsOf(r.searchable_columns)
<1>1. r.columns \in Seq(Names) /\ r.searchable_columns \in Seq(Names)
  BY DEF IsRequest
<1> DEFINE first == <<TableStep(r.table)>>
           columns == ColumnSteps(r.columns)
           searchable == ColumnSteps(r.searchable_columns)
           ends == <<LimitStep(r.limit),
                     ComplexityStep(QueryComplexity(Len(r.columns),
                                                    Len(r.searchable_columns)))>>
<1>2. Script(r) = ((first \o columns) \o searchable) \o ends
  BY DEF Script, SearchScript
<1>3. TermsOf(r) = QueryComplexity(Len(r.columns), Len(r.searchable_columns))
  BY DEF TermsOf, QueryComplexity
<1> HIDE DEF first, columns, searchable, ends
<1>4. IsSeq(first) /\ Range(first) = {TableStep(r.table)}
  BY ShortSeqRange DEF first
<1>5. IsSeq(columns) /\ Range(columns) = ColumnStepsOf(r.columns)
  BY <1>1, ColumnStepsRange DEF columns, IsSeq
<1>6. IsSeq(searchable) /\ Range(searchable) = ColumnStepsOf(r.searchable_columns)
  BY <1>1, ColumnStepsRange DEF searchable, IsSeq
<1>7. IsSeq(ends) /\ Range(ends) = {LimitStep(r.limit), ComplexityStep(TermsOf(r))}
  BY <1>3, ShortSeqRange DEF ends
<1>8. IsSeq(first \o columns)
      /\ Range(first \o columns) = Range(first) \cup Range(columns)
  BY <1>4, <1>5, ConcatRange
<1>9. IsSeq((first \o columns) \o searchable)
      /\ Range((first \o columns) \o searchable)
           = Range(first \o columns) \cup Range(searchable)
  BY <1>6, <1>8, ConcatRange
<1>10. IsSeq(Script(r))
       /\ Range(Script(r)) = Range((first \o columns) \o searchable) \cup Range(ends)
  BY <1>2, <1>7, <1>9, ConcatRange
<1>11. QED
  BY <1>4, <1>5, <1>6, <1>7, <1>8, <1>9, <1>10

\* The steps of an aggregate: table, operations, filters and terms.
LEMMA AggregateSteps ==
    ASSUME NEW r \in Requests, r.tool = "aggregate"
    PROVE  /\ IsSeq(Script(r))
           /\ Range(Script(r)) =
                {TableStep(r.table), ComplexityStep(TermsOf(r))}
                  \cup {OperationStep(r.operations[i]) : i \in DOMAIN r.operations}
                  \cup FilterStepsOf(r.filters)
<1>1. /\ r.operations \in Seq([column : Names \cup {Star}, alias_ok : BOOLEAN])
      /\ r.filters \in Seq(Filter)
  BY DEF IsRequest
<1> DEFINE first == <<TableStep(r.table)>>
           operations == [i \in DOMAIN r.operations |-> OperationStep(r.operations[i])]
           ends == <<ComplexityStep(QueryComplexity(Len(r.operations), Len(r.filters)))>>
           filters == FilterSteps(r.filters)
           steps == {OperationStep(r.operations[i]) : i \in DOMAIN r.operations}
<1>2. Script(r) = ((first \o operations) \o ends) \o filters
  BY DEF Script, AggregateScript
<1>3. TermsOf(r) = QueryComplexity(Len(r.operations), Len(r.filters))
  BY DEF TermsOf, QueryComplexity
<1>4. operations \in Seq(steps)
  <2>1. DOMAIN r.operations = 1..Len(r.operations) /\ Len(r.operations) \in Nat
    BY <1>1
  <2>2. operations \in [1..Len(r.operations) -> steps]
    BY <2>1
  <2>3. QED
    BY <2>1, <2>2, SeqDef
<1>5. IsSeq(operations) /\ Range(operations) = steps
  BY <1>4 DEF IsSeq, Range
<1> HIDE DEF first, operations, ends, filters, steps
<1>6. IsSeq(first) /\ Range(first) = {TableStep(r.table)}
  BY ShortSeqRange DEF first
<1>7. IsSeq(ends) /\ Range(ends) = {ComplexityStep(TermsOf(r))}
  BY <1>3, ShortSeqRange DEF ends
<1>8. IsSeq(filters) /\ Range(filters) = FilterStepsOf(r.filters)
  BY <1>1, FilterStepsRange DEF filters, IsSeq
<1>9. IsSeq(first \o operations)
      /\ Range(first \o operations) = Range(first) \cup Range(operations)
  BY <1>5, <1>6, ConcatRange
<1>10. IsSeq((first \o operations) \o ends)
       /\ Range((first \o operations) \o ends)
            = Range(first \o operations) \cup Range(ends)
  BY <1>7, <1>9, ConcatRange
<1>11. IsSeq(Script(r))
       /\ Range(Script(r)) = Range((first \o operations) \o ends) \cup Range(filters)
  BY <1>2, <1>8, <1>10, ConcatRange
<1>12. QED
  BY <1>5, <1>6, <1>7, <1>8, <1>9, <1>10, <1>11 DEF steps

-----------------------------------------------------------------------------
(* Scripts: a step asks about the request, and about all of the request.   *)

\* The requests whose own checks all pass: those the documents ask for, but
\* for the ones with a value_to that the documents say is ignored.
Buildable(r) == WellFormed(r) /\ ~StrayValueTo(r)

\* What build_filters demands of a filter is what the documents demand, and
\* that there is no stray value_to.
LEMMA ShapeDemands ==
    ASSUME NEW f
    PROVE  FilterShape(f) <=> DocumentedShape(f) /\ ~(f.operator # "Between" /\ f.value_to)
BY DEF FilterShape, DocumentedShape

\* A request is buildable just if its parts are.
LEMMA BuildableParts ==
    ASSUME NEW r
    PROVE  Buildable(r) <=>
             /\ NonEmpty(r)
             /\ ValidTableReference(r.table)
             /\ ColumnsOf(r) \subseteq ValidIdentifiers
             /\ r.tool = "aggregate" => \A i \in DOMAIN r.operations : r.operations[i].alias_ok
             /\ \A f \in FiltersOf(r) : FilterShape(f)
BY ShapeDemands DEF Buildable, WellFormed, StrayValueTo

\* A step asks about nothing but the request, and its own checks hold if the
\* request is well formed.
AsksAbout(r, step) ==
    /\ Buildable(r) => step.ok
    /\ step.check \in {"table", "column", "operator", "limit", "complexity", "none"}
    /\ step.check = "column" => step.column \in ColumnsOf(r)
    /\ step.check = "operator" =>
          /\ r.tool # "search"
          /\ \E n \in DOMAIN r.filters : step = OperatorStep(r.filters[n], n)
    /\ step.check = "limit" => step.limit = r.limit /\ r.tool # "aggregate"
    /\ step.check = "complexity" => step.complexity = TermsOf(r)
    /\ step.filter # 0 => step.check = "operator"

\* A step about a column of the request asks about the request.
LEMMA ColumnStepAsks ==
    ASSUME NEW r \in Requests, NEW column \in ColumnsOf(r)
    PROVE  AsksAbout(r, ColumnStep(column))
BY BuildableParts DEF AsksAbout, ColumnStep, ValidIdentifier

\* So does each of the two steps about a filter,
LEMMA FilterStepAsks ==
    ASSUME NEW r \in Requests, r.tool # "search", NEW step \in FilterStepsOf(r.filters)
    PROVE  AsksAbout(r, step)
<1>1. \A n \in DOMAIN r.filters : r.filters[n].column \in ColumnsOf(r)
  BY DEF ColumnsOf, IsRequest
<1>2. \A n \in DOMAIN r.filters : r.filters[n] \in FiltersOf(r)
  BY DEF FiltersOf
<1>3. CASE \E n \in DOMAIN r.filters : step = FilterColumnStep(r.filters[n])
  BY <1>1, <1>3 DEF AsksAbout, FilterColumnStep
<1>4. CASE \E n \in DOMAIN r.filters : step = OperatorStep(r.filters[n], n)
  <2>1. PICK n \in DOMAIN r.filters : step = OperatorStep(r.filters[n], n)
    BY <1>4
  <2>2. step.check = "operator"
    BY <2>1 DEF OperatorStep
  <2>3. Buildable(r) => step.ok
    BY <1>1, <1>2, <2>1, BuildableParts DEF OperatorStep, ValidIdentifier
  <2>4. QED
    BY <2>1, <2>2, <2>3 DEF AsksAbout
<1>5. QED
  BY <1>3, <1>4 DEF FilterStepsOf

\* and the step about an operation.
LEMMA OperationStepAsks ==
    ASSUME NEW r \in Requests, r.tool = "aggregate", NEW i \in DOMAIN r.operations
    PROVE  AsksAbout(r, OperationStep(r.operations[i]))
<1>1. r.operations[i].column # Star => r.operations[i].column \in ColumnsOf(r)
  BY DEF ColumnsOf
<1>2. Buildable(r) => r.operations[i].alias_ok
  BY BuildableParts
<1>3. QED
  BY <1>1, <1>2, BuildableParts DEF AsksAbout, OperationStep, ValidIdentifier

\* No step of a script asks about anything but its request.
LEMMA StepAsks ==
    ASSUME NEW r \in Requests, NEW step \in Range(Script(r))
    PROVE  AsksAbout(r, step)
<1>1. CASE step = TableStep(r.table)
  BY <1>1, BuildableParts DEF AsksAbout, TableStep
<1>2. CASE step = ComplexityStep(TermsOf(r))
  BY <1>2 DEF AsksAbout, ComplexityStep
<1>3. CASE r.tool # "aggregate" /\ step = LimitStep(r.limit)
  BY <1>3 DEF AsksAbout, LimitStep
<1>4. CASE r.tool = "select" /\ step \in ColumnStepsOf(r.columns)
  BY <1>4, ColumnStepAsks DEF ColumnStepsOf, ColumnsOf
<1>5. CASE /\ r.tool = "search"
           /\ step \in ColumnStepsOf(r.columns) \cup ColumnStepsOf(r.searchable_columns)
  BY <1>5, ColumnStepAsks DEF ColumnStepsOf, ColumnsOf
<1>6. CASE r.tool # "search" /\ step \in FilterStepsOf(r.filters)
  BY <1>6, FilterStepAsks
<1>7. CASE /\ r.tool = "aggregate"
           /\ \E i \in DOMAIN r.operations : step = OperationStep(r.operations[i])
  BY <1>7, OperationStepAsks
<1>8. r.tool \in {"select", "search", "aggregate"}
  BY DEF IsRequest
<1>9. QED
  BY <1>1, <1>2, <1>3, <1>4, <1>5, <1>6, <1>7, <1>8,
     SelectSteps, SearchSteps, AggregateSteps

\* A script asks about the table, the cost, the limit, every column and every
\* filter of its request.
LEMMA ScriptCovers ==
    ASSUME NEW r \in Requests
    PROVE  /\ IsSeq(Script(r))
           /\ TableStep(r.table) \in Range(Script(r))
           /\ ComplexityStep(TermsOf(r)) \in Range(Script(r))
           /\ r.tool # "aggregate" => LimitStep(r.limit) \in Range(Script(r))
           /\ r.tool # "search" => FilterStepsOf(r.filters) \subseteq Range(Script(r))
           /\ \A column \in ColumnsOf(r) : \E step \in Range(Script(r)) :
                 step.check = "column" /\ step.column = column
<1>1. r.tool \in {"select", "search", "aggregate"}
  BY DEF IsRequest
<1>2. /\ \A column : ColumnStep(column).check = "column" /\ ColumnStep(column).column = column
      /\ \A f : FilterColumnStep(f).check = "column" /\ FilterColumnStep(f).column = f.column
      /\ \A o : o.column # Star => OperationStep(o).check = "column"
                                   /\ OperationStep(o).column = o.column
  BY DEF ColumnStep, FilterColumnStep, OperationStep
<1>3. CASE r.tool = "select"
  <2>1. \A column \in ColumnsOf(r) : \E step \in Range(Script(r)) :
           step.check = "column" /\ step.column = column
    BY <1>2, <1>3, SelectSteps DEF ColumnsOf, ColumnStepsOf, FilterStepsOf
  <2>2. QED
    BY <1>3, <2>1, SelectSteps
<1>4. CASE r.tool = "search"
  <2>1. \A column \in ColumnsOf(r) : \E step \in Range(Script(r)) :
           step.check = "column" /\ step.column = column
    BY <1>2, <1>4, SearchSteps DEF ColumnsOf, ColumnStepsOf
  <2>2. QED
    BY <1>4, <2>1, SearchSteps
<1>5. CASE r.tool = "aggregate"
  <2>1. \A column \in ColumnsOf(r) : \E step \in Range(Script(r)) :
           step.check = "column" /\ step.column = column
    BY <1>2, <1>5, AggregateSteps DEF ColumnsOf, FilterStepsOf
  <2>2. QED
    BY <1>5, <2>1, AggregateSteps
<1>6. QED
  BY <1>1, <1>3, <1>4, <1>5

\* If every step of a script is ok then the request is buildable.
LEMMA AllOkMeansBuildable ==
    ASSUME NEW r \in Requests, NonEmpty(r), \A step \in Range(Script(r)) : step.ok
    PROVE  Buildable(r)
<1>1. r.tool \in {"select", "search", "aggregate"} /\ r.table \in TableName
  BY DEF IsRequest
<1>2. ValidTableReference(r.table)
  BY ScriptCovers DEF TableStep
<1>3. /\ \A column : ColumnStep(column).ok => column \in ValidIdentifiers
      /\ \A f, n : OperatorStep(f, n).ok => f.column \in ValidIdentifiers /\ FilterShape(f)
      /\ \A o : OperationStep(o).ok =>
                   o.alias_ok /\ (o.column # Star => o.column \in ValidIdentifiers)
  BY DEF ColumnStep, OperatorStep, OperationStep, ValidIdentifier
<1>4. r.tool # "search" =>
         \A n \in DOMAIN r.filters : /\ r.filters[n].column \in ValidIdentifiers
                                     /\ FilterShape(r.filters[n])
  BY <1>3, ScriptCovers DEF FilterStepsOf
<1>5. r.tool = "aggregate" =>
         \A i \in DOMAIN r.operations :
            /\ r.operations[i].alias_ok
            /\ r.operations[i].column # Star => r.operations[i].column \in ValidIdentifiers
  BY <1>3, AggregateSteps
<1>6. r.tool # "aggregate" =>
         \A i \in DOMAIN r.columns : r.columns[i] \in ValidIdentifiers
  BY <1>1, <1>3, SelectSteps, SearchSteps DEF ColumnStepsOf
<1>7. r.tool = "search" =>
         \A i \in DOMAIN r.searchable_columns : r.searchable_columns[i] \in ValidIdentifiers
  BY <1>3, SearchSteps DEF ColumnStepsOf
<1>8. ColumnsOf(r) \subseteq ValidIdentifiers
  BY <1>1, <1>4, <1>5, <1>6, <1>7 DEF ColumnsOf
<1>9. \A f \in FiltersOf(r) : FilterShape(f)
  BY <1>4 DEF FiltersOf
<1>10. QED
  BY <1>2, <1>5, <1>8, <1>9, BuildableParts
=============================================================================
