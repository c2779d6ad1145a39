---------------------------- MODULE ActivityRunner ----------------------------
(***************************************************************************)
(* activities/contracts.py:LocalActivityRunner.  A handler does its side   *)
(* effect and then answers with an envelope, which the runner accepts or   *)
(* refuses, or raises.  Only the answer to an accepted success is          *)
(* remembered, and only in the memory of the process.                      *)
(*                                                                         *)
(* A request is [id, type, key, body, needs]: `body` stands for every      *)
(* field of the request signature but the type, the key and the required   *)
(* evidence, of which the runner looks at the number, `needs`, alone.      *)
(* The runner has no lock and serves one call at a time.  Storing the      *)
(* envelope and its signature are two assignments with nothing between     *)
(* them that could fail, one step here.                                    *)
(*                                                                         *)
(* The evidence_refs of an envelope are a list.  The runner looks at its   *)
(* length, `refs`, alone; the record keeps what is in it, the set          *)
(* `evidence`.  A reference repeated in the list counts twice.             *)
(***************************************************************************)
EXTENDS EngineContract

CONSTANTS
    Requests,   \* what callers may ask for
    Handled,    \* activity types with a registered handler
    MaxRefs     \* bound: references in the evidence_refs of one envelope

VARIABLES
    completed,  \* per key what is kept of its success in memory, or None
    running,    \* the request whose handler runs, or None
    answer,     \* what the last call returned, until its caller has used it
    successes,  \* history: the requests that succeeded in this process
    standing    \* history: keys whose last effect was not taken back by a
                \* failure, an exception, a refusal or a restart

runnerVars == <<completed, running, answer, successes, standing>>

Keys == {r.key : r \in Requests}

\* _request_signature: all but the activity id.
Signature(r) == [type |-> r.type, key |-> r.key, body |-> r.body, needs |-> r.needs]

\* What a call ends with: the status of an envelope, or an exception.
Statuses == {"SUCCEEDED", "FAILED", "DECLINED", "RAISED", "UNHANDLED",
             "SKIPPED_DUPLICATE", "COLLISION"}

Answers == [request : Requests, status : Statuses, evidence : SUBSET Evidence]

\* What the runner keeps of a success: its request's signature and its envelope.
Results == [signature : {Signature(r) : r \in Requests},
            evidence  : SUBSET Evidence,
            refs      : 0..MaxRefs]

\* None is no request, answer or kept success; required_evidence has a length.
ASSUME RequestAssumption ==
    /\ MaxRefs \in Nat
    /\ None \notin Requests \cup Answers \cup Results
    /\ \A r \in Requests : r.needs \in Nat

\* run() returns: an envelope, or RAISED for an exception.
Return(r, status, evidence) ==
    /\ answer' = [request |-> r, status |-> status, evidence |-> evidence]
    /\ successes' = IF status = "SUCCEEDED" THEN successes \cup {r} ELSE successes
    /\ standing' = IF status \in {"FAILED", "DECLINED", "RAISED"}
                   THEN standing \ {r.key} ELSE standing

-----------------------------------------------------------------------------
(* Envelopes: does it repeat the identity of the request, and what does it say.
   A handler that says DECLINED returns SKIPPED_DUPLICATE on its own account. *)

Envelopes ==
    [matches  : BOOLEAN,
     status   : {"SUCCEEDED", "FAILED", "DECLINED"},
     evidence : SUBSET Evidence,
     refs     : 0..MaxRefs,
     error    : BOOLEAN]

\* A list of env.refs references holds exactly those of env.evidence.
ListOK(env) ==
    /\ env.evidence = {} <=> env.refs = 0
    /\ Cardinality(env.evidence) <= env.refs

\* ActivityResultEnvelope.enforce_result_shape
ShapeOK(env) ==
    /\ env.error <=> env.status = "FAILED"
    /\ env.status = "DECLINED" => env.refs = 0

\* Fault variant: the evidence is not counted.
EnvelopeOKUncounted(r, env) == env.matches

\* _validate_result_matches_request: references are counted, never looked at.
EnvelopeOK(r, env) ==
    /\ env.matches
    /\ env.status = "SUCCEEDED" => env.refs >= r.needs

-----------------------------------------------------------------------------
(* run *)

Free == running = None /\ answer = None

\* Fault variant: the signature of a repeated key is not compared.
RepeatAnswerBlind(r) == "SKIPPED_DUPLICATE"

\* The answer to a key that was completed before; a COLLISION is a FAILED envelope.
RepeatAnswer(r) ==
    IF completed[r.key].signature = Signature(r) THEN "SKIPPED_DUPLICATE" ELSE "COLLISION"

Repeat(r) ==
    /\ Free
    /\ completed[r.key] # None
    /\ Return(r, RepeatAnswer(r), {})
    /\ UNCHANGED <<completed, running>>

\* A FAILED envelope: nobody handles the type.
Unhandled(r) ==
    /\ Free
    /\ completed[r.key] = None /\ r.type \notin Handled
    /\ Return(r, "UNHANDLED", {})
    /\ UNCHANGED <<completed, running>>

\* The handler is entered and does its work.
Invoke(r) ==
    /\ Free
    /\ completed[r.key] = None /\ r.type \in Handled
    /\ running' = r
    /\ standing' = standing \cup {r.key}
    /\ UNCHANGED <<completed, answer, successes>>

Run(r) == Repeat(r) \/ Unhandled(r) \/ Invoke(r)

\* The handler raises, or its envelope is refused.
Raise ==
    /\ running # None
    /\ running' = None
    /\ Return(running, "RAISED", {})
    /\ UNCHANGED completed

\* Fault variant: a success is not remembered.
AnswerForgotten(env) ==
    /\ running # None
    /\ EnvelopeOK(running, env)
    /\ running' = None
    /\ Return(running, env.status, env.evidence)
    /\ UNCHANGED completed

\* Its envelope is accepted; a success is remembered.
Answer(env) ==
    /\ running # None
    /\ EnvelopeOK(running, env)
    /\ running' = None
    /\ Return(running, env.status, env.evidence)
    /\ completed' = IF env.status = "SUCCEEDED"
                    THEN [completed EXCEPT ![running.key] =
                            [signature |-> Signature(running),
                             evidence  |-> env.evidence, refs |-> env.refs]]
                    ELSE completed

RunnerInit ==
    /\ completed = [k \in Keys |-> None]
    /\ running = None
    /\ answer = None
    /\ successes = {} /\ standing = {}

\* The process dies and a new one starts with an empty runner.
ForgetAll ==
    /\ completed' = [k \in Keys |-> None]
    /\ running' = None
    /\ answer' = None
    /\ successes' = {} /\ standing' = {}

-----------------------------------------------------------------------------

\* workflows/temporal_skeleton.py:build_store_activity_request.  The requested
\* time is not part of the request, and the key is the same for every tick.
StoreRequest(workflow, action) ==
    [id |-> <<workflow, action>>, type |-> action, key |-> <<workflow, action>>,
     body |-> action, needs |-> 1]

-----------------------------------------------------------------------------

\* A side effect is done again only after the attempt before it failed, raised,
\* declined, was refused, or was forgotten in a restart.  (contracts.py:43-46)
EffectsHaveCause ==
    [][running = None /\ running' # None => running'.key \notin standing]_runnerVars

\* A request is skipped only for a success of the same request in the life of
\* this process, and one that differs is reported, never dropped.
\* (contracts.py:43-46)
SkipsAreTrue ==
    answer # None =>
        LET sameKey == {r \in successes : r.key = answer.request.key}
            same    == {r \in sameKey : Signature(r) = Signature(answer.request)}
        IN  /\ answer.status = "SKIPPED_DUPLICATE" => same # {}
            /\ answer.status = "COLLISION" => sameKey # {} /\ same = {}
=============================================================================
