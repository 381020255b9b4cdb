------------------------------ MODULE SetSession ------------------------------
(***************************************************************************)
(* The editing session of prlctl set (PrlVm::set) and of prlsrvctl set     *)
(* (PrlDisp::set).  A command is a plan, the calls it makes in their       *)
(* order.  Most of them change the client's copy of the configuration,     *)
(* which is sent to the dispatcher at the end if m_updated was set; some   *)
(* are jobs of their own.  Every call of the SDK may fail, and a job may   *)
(* be given up after a timeout and succeed later.                          *)
(***************************************************************************)
EXTENDS Naturals, Sequences

CONSTANTS
  Option,      \* what can be asked for
  Immediate    \* what is done by a job of its own

VARIABLES
  plan,      \* the calls to come
  at,        \* "idle", "edit" or "done"
  copy,      \* the options whose change is in the client's copy
  updated,   \* m_updated
  effect,    \* the options in effect, in the dispatcher
  late,      \* what a job that was given up may still bring into effect
  result     \* what set() returned

vars == <<plan, at, copy, updated, effect, late, result>>

(* What a call may do.  "go": nothing; "copy": a change of the copy;       *)
(* "edit": the same with set_updated(); "touch": set_updated() only;       *)
(* "now": a job changes the dispatcher; "warn": it does, and an error is   *)
(* returned all the same; "giveup": the wait for it times out; "stop":     *)
(* set() returns success; "fail": it returns an error.                     *)
Outcome ==
  [read   |-> {"go", "fail"},              refuse |-> {"fail"},
   edit   |-> {"edit", "fail"},            quiet  |-> {"copy", "fail"},
   maybe  |-> {"edit", "go", "fail"},      flag   |-> {"copy"},
   switch |-> {"edit", "go"},              try    |-> {"copy", "go"},
   blind  |-> {"edit", "touch"},           stop   |-> {"stop", "fail"},
   job    |-> {"now", "giveup", "fail"},   image  |-> {"now", "fail"},
   reboot |-> {"now", "warn", "giveup", "fail"}]

Kind  == DOMAIN Outcome
Stage == [do : Kind, opt : Option]

(* What is assumed of the constants, of an instance of this module too. *)
Parameters == Immediate \subseteq Option

(* Only a job of its own takes effect before the commit. *)
JobsAreImmediate(p) ==
  \A i \in 1..Len(p) : Outcome[p[i].do] \cap {"now", "giveup"} # {} => p[i].opt \in Immediate

Plans == {p \in Seq(Stage) : JobsAreImmediate(p)}

(* Types; the plan is one that the command line allows. *)
TypeOK ==
  /\ plan \in Plans
  /\ at \in {"idle", "edit", "done"} /\ result \in {"none", "ok", "failed"}
  /\ copy \subseteq Option /\ effect \subseteq Option /\ late \subseteq Option
  /\ updated \in BOOLEAN

Init ==
  /\ plan = <<>> /\ at = "idle"
  /\ copy = {} /\ updated = FALSE
  /\ effect = {} /\ late = {} /\ result = "none"

-----------------------------------------------------------------------------
Start(p) ==
  /\ at = "idle" /\ at' = "edit" /\ plan' = p
  /\ UNCHANGED <<copy, updated, effect, late, result>>

Call(outcome) == at = "edit" /\ plan # <<>> /\ outcome \in Outcome[Head(plan).do]
opt == Head(plan).opt

Continue == plan' = Tail(plan) /\ UNCHANGED <<at, result>>
Succeed  == plan' = <<>> /\ at' = "done" /\ result' = "ok" /\ UNCHANGED <<copy, updated>>

(* The client's copy dies with the command. *)
GoWrong ==
  /\ plan' = <<>> /\ at' = "done" /\ result' = "failed"
  /\ copy' = {} /\ updated' = FALSE

Go ==
  /\ Call("go") /\ Continue
  /\ UNCHANGED <<copy, updated, effect, late>>

Copy ==
  /\ Call("copy") /\ Continue
  /\ copy' = copy \cup {opt}
  /\ UNCHANGED <<updated, effect, late>>

Edit ==
  /\ Call("edit") /\ Continue
  /\ copy' = copy \cup {opt} /\ updated' = TRUE
  /\ UNCHANGED <<effect, late>>

Touch ==
  /\ Call("touch") /\ Continue
  /\ updated' = TRUE
  /\ UNCHANGED <<copy, effect, late>>

(* get_job_retcode of a job of its own. *)
Job ==
  /\ Call("now") /\ Continue
  /\ effect' = effect \cup {opt}
  /\ UNCHANGED <<copy, updated, late>>

(* A device is assigned, and the host has to be rebooted: an error. *)
JobWarns ==
  /\ Call("warn") /\ GoWrong
  /\ effect' = effect \cup {opt} /\ UNCHANGED late

GiveUp ==
  /\ Call("giveup") /\ GoWrong
  /\ late' = {opt} /\ UNCHANGED effect

Fail == Call("fail") /\ GoWrong /\ UNCHANGED <<effect, late>>

Stop == Call("stop") /\ Succeed /\ UNCHANGED <<effect, late>>

-----------------------------------------------------------------------------
Finished == at = "edit" /\ plan = <<>>

(* Nothing to send. *)
Unchanged == Finished /\ ~updated /\ Succeed /\ UNCHANGED <<effect, late>>

(* commit_configuration, commit_encryption or PrlSrv_CommonPrefsCommit. *)
Commit ==
  /\ Finished /\ updated /\ UNCHANGED late
  /\ \/ Succeed /\ effect' = effect \cup copy
     \/ GoWrong /\ UNCHANGED effect

(* A mistake: a commit that was given up is taken for one that succeeded. *)
CommitGivenUpIsFine ==
  /\ Finished /\ updated /\ Succeed
  /\ late' = copy /\ UNCHANGED effect

CommitGivenUp ==
  /\ Finished /\ updated /\ GoWrong
  /\ late' = copy /\ UNCHANGED effect

(* The dispatcher ends a job that nobody waits for. *)
Late ==
  /\ late # {} /\ late' = {}
  /\ effect' \in {effect, effect \cup late}
  /\ UNCHANGED <<plan, at, copy, updated, result>>

Calls == Go \/ Copy \/ Edit \/ Touch \/ Job \/ JobWarns \/ GiveUp \/ Fail \/ Stop
Step  == Calls \/ Unchanged \/ Commit \/ CommitGivenUp \/ Late
Next  == (\E p \in Plans : Start(p)) \/ Step

Spec == Init /\ [][Next]_vars

-----------------------------------------------------------------------------
(* The command is a transaction: what is not done by a job of its own      *)
(* takes effect at once or never, also when a commit that was given up     *)
(* succeeds in the end, and nothing changes after success was reported.    *)
Transaction == INSTANCE SetTransaction

(* So the session implements SetTransaction, with its own variables. *)
ImplementsTransaction == Transaction!Spec
=============================================================================
