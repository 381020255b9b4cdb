--------------------------- MODULE SetSessionProofs ---------------------------
(***************************************************************************)
(* For every set of options and every plan, the editing session of set is  *)
(* a transaction: SetSession implements SetTransaction.                    *)
(***************************************************************************)
EXTENDS SetSession, TLAPS

(* What makes it one: until set() returns, only jobs of their own have     *)
(* taken effect; a job that was given up made the command fail, and until  *)
(* it ends nothing that waits for the commit is in effect.                 *)
Pending ==
  /\ result = "none" <=> at # "done"
  /\ at # "done" => late = {}
  /\ result = "ok" => late = {}
  /\ at # "done" \/ late # {} => effect \subseteq Immediate

Inv == TypeOK /\ Pending

(* The calls that are left are calls of a plan. *)
LEMMA TailIsPlan ==
  ASSUME NEW p \in Plans, p # <<>>
  PROVE  Tail(p) \in Plans
<1>1. p \in Seq(Stage) /\ Len(p) \in Nat /\ Len(p) > 0
  BY DEF Plans
<1>2. Tail(p) \in Seq(Stage) /\ Len(Tail(p)) = Len(p) - 1 /\ \A i \in 1..Len(Tail(p)) : Tail(p)[i] = p[i + 1]
  BY <1>1
<1>3. JobsAreImmediate(Tail(p))
  <2> SUFFICES ASSUME NEW i \in 1..Len(Tail(p)), Outcome[Tail(p)[i].do] \cap {"now", "giveup"} # {}
               PROVE  Tail(p)[i].opt \in Immediate
    BY DEF JobsAreImmediate
  <2>1. i + 1 \in 1..Len(p) /\ Tail(p)[i] = p[i + 1]
    BY <1>1, <1>2
  <2>2. JobsAreImmediate(p)
    BY DEF Plans
  <2> QED
    BY <2>1, <2>2 DEF JobsAreImmediate
<1> QED
  BY <1>2, <1>3 DEF Plans

(* The call that is made next. *)
LEMMA HeadIsCall ==
  ASSUME plan \in Plans, plan # <<>>
  PROVE  /\ opt \in Option /\ Head(plan).do \in Kind
         /\ \A outcome \in {"now", "giveup"} : outcome \in Outcome[Head(plan).do] => opt \in Immediate
<1>1. plan \in Seq(Stage) /\ Len(plan) \in Nat /\ Len(plan) > 0 /\ Head(plan) = plan[1] /\ plan[1] \in Stage
  BY DEF Plans
<1>2. plan[1].opt \in Option /\ plan[1].do \in Kind
  BY <1>1 DEF Stage
<1>3. ASSUME NEW outcome \in {"now", "giveup"}, outcome \in Outcome[plan[1].do]
      PROVE  plan[1].opt \in Immediate
  <2>1. 1 \in 1..Len(plan) /\ Outcome[plan[1].do] \cap {"now", "giveup"} # {}
    BY <1>1, <1>3
  <2> QED
    BY <2>1 DEF Plans, JobsAreImmediate
<1> QED
  BY <1>1, <1>2, <1>3 DEF opt

-----------------------------------------------------------------------------
(* Before the command nothing is changed and nothing is pending. *)
THEOREM Initially == Init => Inv
<1> SUFFICES ASSUME Init PROVE Inv
  OBVIOUS
<1>1. plan \in Plans
  BY DEF Init, Plans, JobsAreImmediate
<1> QED
  BY <1>1 DEF Init, Inv, TypeOK, Pending

(* Each call, the commit, and a commit that ends after it was given up,    *)
(* keep the invariant.                                                     *)
LEMMA StepKeepsInv ==
  ASSUME Parameters, Inv, [Next]_vars
  PROVE  Inv'
<1> USE DEF Inv, TypeOK, Pending
<1>1. ASSUME NEW p \in Plans, Start(p) PROVE Inv'
  BY <1>1 DEF Start
<1>2. ASSUME Calls PROVE Inv'
  <2>1. at = "edit" /\ plan # <<>> /\ plan \in Plans
    BY <1>2 DEF Calls, Go, Copy, Edit, Touch, Job, JobWarns, GiveUp, Fail, Stop, Call
  <2>2. Tail(plan) \in Plans
    BY <2>1, TailIsPlan
  <2>3. opt \in Option
    BY <2>1, HeadIsCall
  <2>4. <<>> \in Plans
    BY DEF Plans, JobsAreImmediate
  <2>5. CASE Go \/ Copy \/ Edit \/ Touch
    BY <2>1, <2>2, <2>3, <2>5 DEF Go, Copy, Edit, Touch, Continue
  <2>6. CASE Job
    <3>1. opt \in Immediate
      BY <2>1, <2>6, HeadIsCall DEF Job, Call
    <3> QED
      BY <2>1, <2>2, <2>3, <2>6, <3>1 DEF Job, Continue
  <2>7. CASE JobWarns
    BY <2>1, <2>3, <2>4, <2>7 DEF JobWarns, GoWrong
  <2>8. CASE GiveUp
    BY <2>1, <2>3, <2>4, <2>8 DEF GiveUp, GoWrong
  <2>9. CASE Fail
    BY <2>1, <2>4, <2>9 DEF Fail, GoWrong
  <2>10. CASE Stop
    BY <2>1, <2>4, <2>10 DEF Stop, Succeed
  <2> QED
    BY <1>2, <2>5, <2>6, <2>7, <2>8, <2>9, <2>10 DEF Calls
<1>3. ASSUME Unchanged PROVE Inv'
  BY <1>3 DEF Unchanged, Finished, Succeed
<1>4. ASSUME Commit PROVE Inv'
  BY <1>4 DEF Commit, Finished, Succeed, GoWrong
<1>5. ASSUME CommitGivenUp PROVE Inv'
  BY <1>5 DEF CommitGivenUp, Finished, GoWrong
<1>6. ASSUME Late PROVE Inv'
  BY <1>6 DEF Late
<1>7. ASSUME UNCHANGED vars PROVE Inv'
  BY <1>7 DEF vars
<1> QED
  BY <1>1, <1>2, <1>3, <1>4, <1>5, <1>6, <1>7 DEF Next, Step

(* The session is always in a state that the code can be in: the calls     *)
(* left are those of a plan, and nothing is half done.                     *)
THEOREM SessionInvariant ==
  ASSUME Parameters
  PROVE  Spec => []Inv
<1>1. Inv /\ [Next]_vars => Inv'
  BY StepKeepsInv
<1> QED
  BY <1>1, Initially, PTL DEF Spec

-----------------------------------------------------------------------------
(* Every step of the session is one of the transaction, or none. *)
LEMMA StepIsTransaction ==
  ASSUME Parameters, Inv, [Next]_vars
  PROVE  [Transaction!Next]_(Transaction!vars)
<1> USE DEF Inv, TypeOK, Pending, Transaction!vars
<1>1. ASSUME NEW p \in Plans, Start(p) PROVE UNCHANGED Transaction!vars
  BY <1>1 DEF Start
<1>2. ASSUME Calls PROVE [Transaction!Next]_(Transaction!vars)
  <2>1. at = "edit" /\ plan # <<>> /\ plan \in Plans /\ result = "none"
    BY <1>2 DEF Calls, Go, Copy, Edit, Touch, Job, JobWarns, GiveUp, Fail, Stop, Call
  <2>2. CASE Go \/ Copy \/ Edit \/ Touch
    BY <2>2 DEF Go, Copy, Edit, Touch, Continue
  <2>3. CASE Job
    <3>1. opt \in Immediate
      BY <2>1, <2>3, HeadIsCall DEF Job, Call
    <3> QED
      BY <2>1, <2>3, <3>1 DEF Job, Continue, Transaction!Next, Transaction!Change
  <2>4. CASE JobWarns
    <3>1. opt \in Immediate
      <4>1. \A d \in Kind : "warn" \in Outcome[d] => "now" \in Outcome[d]
        <5> SUFFICES ASSUME NEW d \in Kind, "warn" \in Outcome[d] PROVE d = "reboot"
          BY DEF Outcome
        <5> QED
          BY SMT DEF Kind, Outcome
      <4>2. Head(plan).do \in Kind
        BY <2>1, HeadIsCall
      <4>3. "now" \in Outcome[Head(plan).do]
        BY <2>4, <4>1, <4>2 DEF JobWarns, Call
      <4> QED
        BY <2>1, <4>3, HeadIsCall
    <3> QED
      BY <2>1, <2>4, <3>1 DEF JobWarns, GoWrong, Transaction!Next, Transaction!Change
  <2>5. CASE GiveUp \/ Fail \/ Stop
    BY <2>1, <2>5 DEF GiveUp, Fail, Stop, GoWrong, Succeed, Transaction!Next, Transaction!Report
  <2> QED
    BY <1>2, <2>2, <2>3, <2>4, <2>5 DEF Calls
<1>3. ASSUME Unchanged PROVE Transaction!Report
  BY <1>3 DEF Unchanged, Finished, Succeed, Transaction!Report
<1>4. ASSUME Commit PROVE Transaction!Apply \/ Transaction!Report
  BY <1>4 DEF Commit, Finished, Succeed, GoWrong, Transaction!Apply, Transaction!Report
<1>5. ASSUME CommitGivenUp PROVE Transaction!Report
  BY <1>5 DEF CommitGivenUp, Finished, GoWrong, Transaction!Report
<1>6. ASSUME Late PROVE Transaction!Apply
  <2>1. result = "failed" /\ effect \subseteq Immediate
    BY <1>6 DEF Late
  <2> QED
    BY <1>6, <2>1 DEF Late, Transaction!Apply
<1>7. ASSUME UNCHANGED vars PROVE UNCHANGED Transaction!vars
  BY <1>7 DEF vars
<1> QED
  BY <1>1, <1>2, <1>3, <1>4, <1>5, <1>6, <1>7 DEF Next, Step, Transaction!Next

(* set is a transaction: what is not done by a job of its own takes effect *)
(* at once or never, also when a commit that was given up succeeds later,  *)
(* and nothing changes after success was reported.                         *)
THEOREM SessionIsTransaction ==
  ASSUME Parameters
  PROVE  Spec => ImplementsTransaction
<1>1. Init => Transaction!Init
  BY DEF Init, Transaction!Init
<1>2. Inv /\ [Next]_vars => [Transaction!Next]_(Transaction!vars)
  BY StepIsTransaction
<1> QED
  BY <1>1, <1>2, SessionInvariant, PTL DEF Spec, ImplementsTransaction, Transaction!Spec
=============================================================================
