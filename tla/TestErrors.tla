------------------------------ MODULE TestErrors ------------------------------
(***************************************************************************)
(* What the platform says of a model's errors on the test set              *)
(* (testerrors/analysis.go, postgres/training_test_errors.go), from the    *)
(* report that training wrote (ml_toolkit/error_analysis.py).  Reports     *)
(* have become richer: the first had a confusion matrix, of the test set   *)
(* only if they say so, later ones evidence, and now with macro-F1.        *)
(* Averages stand for their terms, shares for their counts.                *)
(***************************************************************************)
EXTENDS Integers, FiniteSets
Sums == INSTANCE FiniteSetsExt

CONSTANTS
    Labels,        \* classes, numbered in the order of the model
    Tested,        \* bound: what tests can come to, the images of each class by predicted class
    PairsKept,     \* pairs of classes in a report (200 in the code)
    PairsAsked,    \* bound: the numbers of pairs that callers ask for
    ClassesShown   \* classes in an answer (20 in the code)

ASSUME TestErrorsAssumption ==
    /\ Labels \subseteq Nat /\ IsFiniteSet(Labels) /\ Tested \subseteq [Labels -> [Labels -> Nat]]
    /\ PairsKept \in Nat /\ PairsAsked \subseteq Nat /\ ClassesShown \in Nat

VARIABLES
    tested,     \* the predictions of the model for the test set
    format,     \* the version of the trainer
    training,   \* the training run
    bundle,     \* the classes in the model's bundle, in order, if it can be read
    answer      \* what a caller was last told

testVars == <<tested, format, training, bundle, answer>>

-----------------------------------------------------------------------------
ReportFormats == {"matrix", "test matrix", "evidence without F1", "evidence"}
NoOrder == <<>>
Orders == {order \in [Labels -> Labels] : \A i, j \in Labels : order[i] = order[j] => i = j}
NotSaid == <<>>
Unavailable == [availability |-> "unavailable"]
Failed == [availability |-> "error"]

Total(f) == Sums!MapThenSumSet(LAMBDA x : f[x], DOMAIN f)
Support(m, c) == Total(m[c])
Predictions(m, c) == Total([d \in Labels |-> m[d][c]])
Images(m) == Total([c \in Labels |-> Support(m, c)])
ImagesWrong(m) == Total([c \in Labels |-> Support(m, c) - m[c][c]])

\* The term of a class in macro-F1, times the number of classes.
F1(right, total, predicted) == IF total + predicted = 0 THEN <<0, 1>> ELSE <<2 * right, total + predicted>>

\* The pairs of a matrix whose rows and columns are named in some order.
PairsOf(m, order) ==
    {[true |-> order[x[1]], predicted |-> order[x[2]], count |-> m[x[1]][x[2]]] :
        x \in {y \in Labels \X Labels : y[1] # y[2] /\ m[y[1]][y[2]] > 0}}
ClassesOf(m, order) ==
    {[label |-> order[c], tests |-> Support(m, c), errors |-> Support(m, c) - m[c][c]] : c \in Labels}

PairBefore(p, q) ==
    \/ p.count > q.count
    \/ p.count = q.count /\ (p.true < q.true \/ (p.true = q.true /\ p.predicted < q.predicted))
ClassBefore(x, y) == x.errors > y.errors \/ (x.errors = y.errors /\ x.label < y.label)

\* The first n members of a set that is sorted.
First(n, set, before(_, _)) == {x \in set : Cardinality({y \in set : before(y, x)}) < n}

InOrder == [c \in Labels |-> c]

-----------------------------------------------------------------------------
\* build_test_error_evidence, and what older trainers wrote.
Evidence(m) ==
    [images |-> Images(m), errors |-> ImagesWrong(m), classes |-> ClassesOf(m, InOrder),
     pairs |-> First(PairsKept, PairsOf(m, InOrder), PairBefore), pairTotal |-> Cardinality(PairsOf(m, InOrder)),
     f1 |-> IF format = "evidence" /\ Images(m) > 0
            THEN [c \in Labels |-> F1(m[c][c], Support(m, c), Predictions(m, c))] ELSE NotSaid]

\* Mutant of AllPairs: the pairs that a report has are taken for all of them.
AllPairs_kept(e) == TRUE

\* The report has every pair of classes that were confused.
AllPairs(e) == e.pairTotal = Cardinality(e.pairs)

\* validate, of the counts.
Valid(e) ==
    LET errors == Total([x \in e.classes |-> x.errors])
        kept == Total([p \in e.pairs |-> p.count]) IN
    /\ Cardinality(e.pairs) <= PairsKept /\ e.pairTotal >= Cardinality(e.pairs)
    /\ Total([x \in e.classes |-> x.tests]) = e.images /\ errors = e.errors
    /\ \A p \in e.pairs : p.true # p.predicted /\ p.count \in 1..e.errors
    /\ kept <= e.errors
    /\ AllPairs(e) => kept = e.errors

\* Mutant of OrderKnown: any order of as many classes will do.
OrderKnown_length(m) == bundle # NoOrder

\* The classes in the bundle have as many test images as the rows of the matrix.
OrderKnown(m) == bundle # NoOrder /\ \A c \in Labels : Support(m, c) = Support(tested, bundle[c])

\* What is made of the matrix of an older report.
FromMatrix(m) ==
    LET named == OrderKnown(m) IN
    [images |-> Images(m), errors |-> ImagesWrong(m),
     classes |-> IF named THEN ClassesOf(m, bundle) ELSE {},
     pairs |-> IF named THEN PairsOf(m, bundle) ELSE {},
     pairTotal |-> IF named THEN Cardinality(PairsOf(m, bundle)) ELSE 0,
     f1 |-> IF Images(m) > 0 THEN [c \in Labels |-> F1(m[c][c], Support(m, c), Predictions(m, c))] ELSE NotSaid]

\* Macro-F1 is made up for if the report says enough.
Recomputed(e) ==
    IF e.images > 0 /\ e.f1 = NotSaid /\ e.classes # {} /\ AllPairs(e)
    THEN [x \in e.classes |->
            LET right == x.tests - x.errors
                wrongly == Total([p \in {q \in e.pairs : q.predicted = x.label} |-> p.count])
            IN  F1(right, x.tests, right + wrongly)]
    ELSE NotSaid
WithF1(e) ==
    LET again == Recomputed(e) IN
    IF again = NotSaid THEN e
    ELSE [e EXCEPT !.f1 = [c \in Labels |-> again[CHOOSE x \in e.classes : x.label = c]]]

\* Analyze.
Analyze(report, n) ==
    LET e == WithF1(IF report.format \in {"evidence", "evidence without F1"}
                    THEN report.evidence ELSE FromMatrix(report.matrix)) IN
    IF report.format = "matrix" THEN Unavailable
    ELSE IF report.format # "test matrix" /\ ~Valid(report.evidence) THEN Failed
    ELSE IF e.images = 0 THEN Unavailable
    ELSE [availability |-> IF report.format = "test matrix" THEN "aggregate only" ELSE "available",
          images |-> e.images, errors |-> e.errors, f1 |-> e.f1,
          pairs |-> First(n, e.pairs, PairBefore), classes |-> First(ClassesShown, e.classes, ClassBefore)]

-----------------------------------------------------------------------------
NoReport == [format |-> "none"]

TestErrorsTypeOK ==
    /\ tested \in Tested
    /\ format \in ReportFormats
    /\ training.format \in ReportFormats \cup {"none"}
    /\ bundle \in Orders \cup {NoOrder}
    /\ answer.availability \in {"none", "unavailable", "error", "aggregate only", "available"}

TestErrorsInit ==
    /\ tested \in Tested
    /\ format \in ReportFormats
    /\ training = NoReport
    /\ bundle \in IF format = "test matrix" THEN Orders \cup {NoOrder} ELSE {NoOrder}
    /\ answer = [availability |-> "none"]

\* Training succeeds, with its report.
WriteReport ==
    /\ training = NoReport
    /\ training' = [format |-> format, evidence |-> Evidence(tested), matrix |-> tested]
    /\ UNCHANGED <<tested, format, bundle, answer>>

\* A caller asks; without a report there is nothing to say.
AskTestErrors(n) ==
    /\ answer' = IF training = NoReport THEN Unavailable ELSE Analyze(training, n)
    /\ UNCHANGED <<tested, format, training, bundle>>

\* The report cannot be read, or not as it was stored.
ReportUnreadable ==
    /\ training # NoReport
    /\ answer' = Failed
    /\ UNCHANGED <<tested, format, training, bundle>>

TestErrorsStep == WriteReport \/ (\E n \in PairsAsked : AskTestErrors(n)) \/ ReportUnreadable

-----------------------------------------------------------------------------
\* Classes that were exchanged in a bundle have as many test images, which nobody can see.
Exchanged == bundle # NoOrder /\ bundle # InOrder /\ \A c \in Labels : Support(tested, c) = Support(tested, bundle[c])

\* What a report of training says of the test set is passed on, whatever its age: it is taken,
\* the counts are those of the test, macro-F1 too and however it was found, pairs and classes
\* are named rightly or not at all, and none is left out for a lesser one (Analyze, validate).
ReportsHonest ==
    LET shown == answer.availability \in {"available", "aggregate only"} IN
    /\ training # NoReport /\ format \in {"evidence", "evidence without F1"} => Valid(training.evidence)
    /\ shown =>
        /\ answer.images = Images(tested) /\ answer.errors = ImagesWrong(tested)
        /\ answer.f1 # NotSaid =>
              answer.f1 = [c \in Labels |-> F1(tested[c][c], Support(tested, c), Predictions(tested, c))]
        /\ ~Exchanged =>
              /\ answer.pairs \subseteq PairsOf(tested, InOrder)
              /\ answer.classes \subseteq ClassesOf(tested, InOrder)
              /\ answer.pairs # {} =>
                    \A p \in PairsOf(tested, InOrder) \ answer.pairs, q \in answer.pairs : PairBefore(q, p)
              /\ answer.classes # {} =>
                    \A x \in ClassesOf(tested, InOrder) \ answer.classes, y \in answer.classes : ClassBefore(y, x)
=============================================================================
