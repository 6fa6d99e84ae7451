----------------------------- MODULE MCJudgement -----------------------------
(***************************************************************************)
(* The requests that clients make in the runs of Judgement, and that       *)
(* Judgement implements Judging.                                           *)
(***************************************************************************)
EXTENDS Judgement

Simple(n) == [kind |-> "Simple", stdin |-> n, stdout |-> n]
Novel(n)  == [kind |-> "Novel", stdin |-> n, stdout |-> n]
Uneven    == [kind |-> "Simple", stdin |-> 2, stdout |-> 1]

LongRequest        == {Simple(3)}
EndingRequests     == {Simple(1), Novel(1)}
AllRequests        == {Simple(0), Simple(2), Novel(1), Uneven}

(* The refinement mapping: a JudgeService that has stopped has settled its *)
(* judgement, one that has panicked has refused it.                        *)
PhaseOf(j) == IF Alive(j) THEN "open"
              ELSE IF judge[j] = "stopped" THEN "settled" ELSE "refused"

Promise == INSTANCE Judging WITH
  tests  <- [j \in Judge |-> Tests(j)],
  given  <- [j \in Judge |-> Given(j)],
  passed <- [j \in Judge |-> Passed(j)],
  failed <- {j \in Judge : Failed(j)},
  phase  <- [j \in Judge |-> PhaseOf(j)],
  cut    <- ~conn_up

(* JudgeServices, TestcaseServices and slaves take turns as Judging says,  *)
(* however their messages interleave: what the slave is given, what the    *)
(* client is told and when the judge stops fit together at every step,     *)
(* also when the connection service dies in between.                       *)
ImplementsJudging == Promise!Spec
=============================================================================
