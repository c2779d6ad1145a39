------------------------------ MODULE StatusView ------------------------------
(***************************************************************************)
(* state_store.py:status, the one view of a workflow that people and       *)
(* supervisors are given, as operators on its record.  next_trigger is     *)
(* also how a host learns what the workflow is waiting for.  The texts of  *)
(* the summaries are left out; the evidence of a blocker is among them.    *)
(***************************************************************************)
EXTENDS PhasePolicy

\* Fault variant: a pending activity is reported before the blocker.
NextTriggerActivityFirst(s) ==
    IF s.terminal # None THEN <<"terminal", s.terminal>>
    ELSE IF s.activity # None THEN <<"activity", s.activity>>
    ELSE IF s.blocker # None THEN <<"blocker", s.blocker.owner>>
    ELSE IF s.wait # None THEN <<"wait", s.wait.response>>
    ELSE <<"event", None>>

\* _next_trigger
NextTrigger(s) ==
    IF s.terminal # None THEN <<"terminal", s.terminal>>
    ELSE IF s.blocker # None THEN <<"blocker", s.blocker.owner>>
    ELSE IF s.wait # None THEN <<"wait", s.wait.response>>
    ELSE IF s.activity # None THEN <<"activity", s.activity>>
    ELSE <<"event", None>>

\* _waiting_on_summary: the same tests once more, written out separately.
WaitingOn(s) ==
    IF s.terminal # None THEN None
    ELSE IF s.blocker # None
         THEN [kind |-> "blocker", on |-> s.blocker.owner, phase |-> s.phase,
               resume |-> s.blocker.resume]
    ELSE IF s.wait # None THEN [kind |-> "wait", on |-> s.wait.response]
    ELSE IF s.activity # None THEN [kind |-> "activity", on |-> s.activity]
    ELSE None

\* Whether status asks the human approver for something.
HumanActionRequired(s) ==
    s.blocker # None /\ s.blocker.owner = "human_approver"

\* status
Status(s) ==
    [phase    |-> s.phase,
     next     |-> NextTrigger(s),
     blocker  |-> s.blocker,
     waiting  |-> WaitingOn(s),
     human    |-> HumanActionRequired(s),
     evidence |-> s.evidence,
     terminal |-> s.terminal]
=============================================================================
