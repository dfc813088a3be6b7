------------------------- MODULE ComparisonPromise --------------------------
(***************************************************************************)
(* What one validation run promises, whatever machinery computes it: it    *)
(* takes one frame of the source and one of the target, each at a single   *)
(* moment during the run but not at the same moment, and publishes, at     *)
(* most once, the verdicts those two frames call for; or it ends in an     *)
(* error and publishes nothing.                                            *)
(***************************************************************************)
EXTENDS Integers

CONSTANTS
  NULL, ValueComparison, Threshold,  \* as in Combiner
  Compared,     \* the columns whose values are judged
  KeyColumns,   \* the columns that are part of the key and compared nevertheless
  Wanted        \* the statuses to publish

VARIABLES
  source, target,            \* what a query of the whole table would return
  scope,                     \* the keys the run is about
  sourceFrame, targetFrame,  \* empty until taken, then the set of that frame
  ending,                    \* "none", "published" or "aborted"
  verdict                    \* the published verdicts

vars == <<source, target, scope, sourceFrame, targetFrame, ending, verdict>>

\* Cells agree when they are the same; two numbers of a column validation also when
\* they are no more than Threshold percent of the source apart, or of the target when
\* the source is zero.
Within(percent, base, distance) ==
  -percent * base <= 100 * distance /\ 100 * distance <= percent * base

Agree(s, t) ==
  \/ s = t
  \/ /\ ~ValueComparison
     /\ s # NULL /\ t # NULL
     /\ LET base == IF s = 0 THEN t ELSE s
        IN Within(Threshold, base, t - s) \/ Within(Threshold, -base, t - s)

Verdict(f, k, agree) ==
  [field |-> f, key |-> k, status |-> IF agree THEN "success" ELSE "fail"]

\* A key found on one side only always fails; a key found on both sides is
\* judged by its values, and the columns of the key itself agree there.
Verdicts(S, T) ==
  {Verdict(f, p[1].key, Agree(p[1].val[f], p[2].val[f])) :
     f \in Compared, p \in {q \in S \X T : q[1].key = q[2].key}}
  \cup
  {Verdict(f, r.key, FALSE) :
     f \in Compared, r \in {s \in S : \A t \in T : s.key # t.key}
                           \cup {t \in T : \A s \in S : s.key # t.key}}
  \cup
  {Verdict(f, r.key, TRUE) : f \in KeyColumns, r \in {s \in S : \E t \in T : s.key = t.key}}

InScope(view) == {r \in view : r.key \in scope}

Init ==
  /\ sourceFrame = {}
  /\ targetFrame = {}
  /\ ending = "none"
  /\ verdict = {}

TablesChange == UNCHANGED <<scope, sourceFrame, targetFrame, ending, verdict>>

Running == ending = "none"

ChooseScope ==
  /\ Running
  /\ sourceFrame = {} /\ targetFrame = {}
  /\ scope' \subseteq scope
  /\ UNCHANGED <<source, target, sourceFrame, targetFrame, ending, verdict>>

TakeSource ==
  /\ Running
  /\ sourceFrame = {}
  /\ sourceFrame' = {InScope(source)}
  /\ UNCHANGED <<source, target, scope, targetFrame, ending, verdict>>

TakeTarget ==
  /\ Running
  /\ targetFrame = {}
  /\ targetFrame' = {InScope(target)}
  /\ UNCHANGED <<source, target, scope, sourceFrame, ending, verdict>>

Publish ==
  /\ Running
  /\ ending' = "published"
  /\ \E S \in sourceFrame, T \in targetFrame :
       verdict' = {v \in Verdicts(S, T) : v.status \in Wanted}
  /\ UNCHANGED <<source, target, scope, sourceFrame, targetFrame>>

Abort ==
  /\ Running
  /\ ending' = "aborted"
  /\ UNCHANGED <<source, target, scope, sourceFrame, targetFrame, verdict>>

Next == TablesChange \/ ChooseScope \/ TakeSource \/ TakeTarget \/ Publish \/ Abort

Spec == Init /\ [][Next]_vars
=============================================================================
