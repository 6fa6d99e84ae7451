------------------------------- MODULE Judging -------------------------------
(***************************************************************************)
(* What the judging of programs promises, without actors and mailboxes: a  *)
(* slave and a judge take turns.  The slave is given the program, then     *)
(* each test case, then the end; it is given nothing before it has passed  *)
(* what it was given last, and nothing after a failure.  A judgement is    *)
(* settled when it has failed, or when all is passed and the slave has     *)
(* been given the end.  The way to the slaves may be cut: then what was    *)
(* given to any of them may not have arrived, and nothing is given again.  *)
(***************************************************************************)
EXTENDS Naturals

CONSTANT Judge

VARIABLES
  tests,    \* the number of test cases of each judgement
  given,    \* what its slave was given: the program, tests and the end
  passed,   \* how much of it the slave has passed
  failed,   \* judgements in which the slave has failed
  phase,    \* "open", "settled" or "refused"
  cut       \* TRUE when no slave can be given anything any more

jvars == <<tests, given, passed, failed, phase, cut>>

Init ==
  /\ tests \in [Judge -> Nat]
  /\ given = [j \in Judge |-> 0] /\ passed = [j \in Judge |-> 0]
  /\ failed = {} /\ phase = [j \in Judge |-> "open"] /\ cut = FALSE

(* The program comes first, the end after the last test case.              *)
Give(j) ==
  /\ ~cut /\ phase[j] = "open" /\ j \notin failed
  /\ given[j] = passed[j] /\ given[j] < tests[j] + 2
  /\ given' = [given EXCEPT ![j] = @ + 1]
  /\ UNCHANGED <<tests, passed, failed, phase, cut>>

\* The slave has something to work on: not the end.
AtWork(j) == passed[j] < given[j] /\ passed[j] <= tests[j] /\ j \notin failed

Pass(j) ==
  /\ phase[j] = "open" /\ AtWork(j)
  /\ passed' = [passed EXCEPT ![j] = @ + 1]
  /\ UNCHANGED <<tests, given, failed, phase, cut>>

Fail(j) ==
  /\ phase[j] = "open" /\ AtWork(j)
  /\ failed' = failed \cup {j}
  /\ UNCHANGED <<tests, given, passed, phase, cut>>

Settle(j) ==
  /\ phase[j] = "open"
  /\ j \in failed \/ (passed[j] = tests[j] + 1 /\ (given[j] = tests[j] + 2 \/ cut))
  /\ phase' = [phase EXCEPT ![j] = "settled"]
  /\ UNCHANGED <<tests, given, passed, failed, cut>>

(* A judgement that cannot be served is given up before it starts.         *)
Reject(j) ==
  /\ phase[j] = "open" /\ given[j] = 0
  /\ phase' = [phase EXCEPT ![j] = "refused"]
  /\ UNCHANGED <<tests, given, passed, failed, cut>>

(* What the slaves have passed did arrive.                                 *)
Cut ==
  /\ ~cut
  /\ cut' = TRUE
  /\ \E arrived \in [Judge -> BOOLEAN] :
       given' = [j \in Judge |-> IF arrived[j] THEN given[j] ELSE passed[j]]
  /\ UNCHANGED <<tests, passed, failed, phase>>

Next ==
  \/ \E j \in Judge : Give(j) \/ Pass(j) \/ Fail(j) \/ Settle(j) \/ Reject(j)
  \/ Cut

Spec == Init /\ [][Next]_jvars
=============================================================================
