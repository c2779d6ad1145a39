-------------------------- MODULE ActivityHostProofs --------------------------
(* Proofs about the activity runner in the hands of its host, for any set of  *)
(* requests, any work, and any number of retries, restarts and disturbances.  *)
EXTENDS ActivityHost, TLAPS

\* What the runner keeps of the success of r that env reports.
Kept(r, env) ==
    [signature |-> Signature(r), evidence |-> env.evidence, refs |-> env.refs]

\* What the runner knows, and what the two history variables know of it: a key
\* whose effect stands is completed or running, the signatures kept are those of
\* the successes, and each success brought as many references as it had to.
RunnerInv ==
    /\ completed = [k \in Keys |-> completed[k]]
    /\ running # None => /\ running \in Requests /\ completed[running.key] = None
                         /\ answer = None
    /\ answer # None => answer.request \in Requests
    /\ successes \subseteq Requests
    /\ \A r \in successes : completed[r.key] # None /\ completed[r.key].signature = Signature(r)
    /\ \A k \in Keys : completed[k] # None
                       => \E r \in successes : /\ r.key = k /\ Signature(r) = completed[k].signature
                                              /\ completed[k].refs >= r.needs
    /\ \A k \in standing : \/ k \in Keys /\ completed[k] # None
                           \/ running # None /\ running.key = k

\* A step leaves the runner alone, only uses its answer up, forgets everything,
\* or is one of the runner's own.
RunnerStep ==
    \/ UNCHANGED runnerVars
    \/ Consume
    \/ ForgetAll
    \/ \E r \in Requests : Run(r)
    \/ Raise
    \/ \E env \in Envelopes : Answer(env)

\* Whatever the host does, the runner takes one of its own steps or none.
LEMMA HostRunsRunner ==
    ASSUME [Next]_vars PROVE RunnerStep
<1>1. CASE Host
  BY <1>1 DEF Host, Schedule, Start, Handle, Conclude, Drop, Retry, RunnerStep
<1>2. CASE Observe \/ Interrupt \/ Resolve
  BY <1>2 DEF Observe, Interrupt, Resolve, RunnerStep
<1>3. CASE Restart
  BY <1>3 DEF Restart, RunnerStep
<1>4. CASE UNCHANGED vars
  BY <1>4 DEF vars, RunnerStep
<1> QED
  BY <1>1, <1>2, <1>3, <1>4 DEF Next

\* A new runner remembers nothing.
LEMMA RunnerInit_Inv == Init => RunnerInv
BY DEF Init, RunnerInit, RunnerInv, Keys

\* Every step of the runner keeps keys, successes and effects in agreement.
LEMMA RunnerStep_Inv ==
    ASSUME RunnerInv, RunnerStep PROVE RunnerInv'
<1> USE RequestAssumption
<1>1. CASE UNCHANGED runnerVars
  BY <1>1 DEF RunnerInv, runnerVars
<1>2. CASE Consume
  BY <1>2 DEF RunnerInv, Consume
<1>3. CASE ForgetAll
  BY <1>3 DEF RunnerInv, ForgetAll
<1>4. ASSUME NEW r \in Requests, Repeat(r) \/ Unhandled(r) PROVE RunnerInv'
  <2>1. /\ running = None /\ running' = None /\ completed' = completed
        /\ successes' = successes /\ standing' \subseteq standing
    BY <1>4 DEF Repeat, Unhandled, Return, RepeatAnswer, Free
  <2>2. answer' # None => answer'.request \in Requests
    BY <1>4 DEF Repeat, Unhandled, Return
  <2> QED
    BY <2>1, <2>2 DEF RunnerInv
<1>5. ASSUME NEW r \in Requests, Invoke(r) PROVE RunnerInv'
  <2>1. /\ running' = r /\ completed[r.key] = None
        /\ standing' = standing \cup {r.key} /\ running = None /\ answer = None
        /\ UNCHANGED <<completed, answer, successes>>
    BY <1>5 DEF Invoke, Free
  <2> QED
    BY <2>1 DEF RunnerInv
<1>6. CASE Raise
  <2>1. /\ running # None /\ running' = None /\ UNCHANGED <<completed, successes>>
        /\ answer'.request = running /\ standing' = standing \ {running.key}
    BY <1>6 DEF Raise, Return
  <2> QED
    BY <2>1 DEF RunnerInv
<1>7. ASSUME NEW env \in Envelopes, Answer(env) PROVE RunnerInv'
  <2>1. /\ running # None /\ running' = None /\ answer'.request = running
    BY <1>7 DEF Answer, Return
  <2>2. running \in Requests /\ completed[running.key] = None /\ running.key \in Keys
    BY <2>1 DEF RunnerInv, Keys
  <2>3. CASE env.status = "SUCCEEDED"
    <3>1. /\ completed' = [completed EXCEPT ![running.key] = Kept(running, env)]
          /\ successes' = successes \cup {running} /\ standing' = standing
      BY <1>7, <2>3 DEF Answer, Return, Kept
    <3>2. /\ Kept(running, env) # None
          /\ Kept(running, env).signature = Signature(running)
          /\ Kept(running, env).refs >= running.needs
      <4>1. Kept(running, env) \in Results
        BY <2>2 DEF Kept, Results, Envelopes
      <4> QED
        BY <4>1, <1>7, <2>3 DEF Kept, Answer, EnvelopeOK
    <3>3. completed' = [k \in Keys |-> completed'[k]]
      BY <3>1 DEF RunnerInv
    <3>4. \A k \in Keys : completed'[k] = IF k = running.key THEN Kept(running, env)
                                          ELSE completed[k]
      BY <3>1 DEF RunnerInv
    <3>5. \A r \in successes' : /\ completed'[r.key] # None
                                /\ completed'[r.key].signature = Signature(r)
      <4> SUFFICES ASSUME NEW r \in successes'
                   PROVE  completed'[r.key] # None /\ completed'[r.key].signature = Signature(r)
        OBVIOUS
      <4>1. CASE r = running
        BY <4>1, <2>2, <3>2, <3>4
      <4>2. CASE r \in successes
        <5>1. r \in Requests /\ completed[r.key] # None /\ completed[r.key].signature = Signature(r)
          BY <4>2 DEF RunnerInv
        <5>2. r.key # running.key /\ r.key \in Keys
          BY <5>1, <2>2 DEF Keys
        <5> QED
          BY <5>1, <5>2, <3>4
      <4> QED
        BY <4>1, <4>2, <3>1
    <3>6. \A k \in Keys : completed'[k] # None
                          => \E r \in successes' : /\ r.key = k /\ Signature(r) = completed'[k].signature
                                                  /\ completed'[k].refs >= r.needs
      BY <3>1, <3>2, <3>4 DEF RunnerInv
    <3>7. \A k \in standing' : k \in Keys /\ completed'[k] # None
      BY <3>1, <3>2, <3>4, <2>2 DEF RunnerInv
    <3> QED
      BY <2>1, <2>2, <3>1, <3>3, <3>5, <3>6, <3>7 DEF RunnerInv
  <2>4. CASE env.status # "SUCCEEDED"
    <3>1. UNCHANGED <<completed, successes>> /\ standing' = standing \ {running.key}
      BY <1>7, <2>4 DEF Answer, Return, Envelopes
    <3> QED
      BY <2>1, <2>2, <3>1 DEF RunnerInv
  <2> QED
    BY <2>3, <2>4
<1> QED
  BY <1>1, <1>2, <1>3, <1>4, <1>5, <1>6, <1>7 DEF RunnerStep, Run

\* The keys LocalActivityRunner remembers are those of standing effects.
THEOREM RunnerInvariant == Spec => []RunnerInv
<1>1. RunnerInv /\ [Next]_vars => RunnerInv'
  BY HostRunsRunner, RunnerStep_Inv
<1> QED
  BY RunnerInit_Inv, <1>1, PTL DEF Spec

\* No effect is repeated while the one before it stands, for any requests.
THEOREM EffectsCaused == Spec => EffectsHaveCause
<1>1. RunnerInv /\ [Next]_vars
      => [running = None /\ running' # None => running'.key \notin standing]_runnerVars
  <2> SUFFICES ASSUME RunnerInv, RunnerStep, running = None, running' # None
               PROVE  running'.key \notin standing
    BY HostRunsRunner
  <2>1. PICK r \in Requests : Invoke(r)
    BY DEF RunnerStep, runnerVars, Consume, ForgetAll, Run, Repeat, Unhandled, Raise, Answer
  <2>2. running' = r /\ completed[r.key] = None
    BY <2>1 DEF Invoke
  <2> QED
    BY <2>2 DEF RunnerInv
<1> QED
  BY <1>1, RunnerInvariant, PTL DEF Spec, EffectsHaveCause

\* A skip and a collision always tell the truth about what succeeded before.
THEOREM SkipsTrue == Spec => []SkipsAreTrue
<1>1. Init => SkipsAreTrue
  BY DEF Init, RunnerInit, SkipsAreTrue
<1>2. RunnerInv /\ SkipsAreTrue /\ [Next]_vars => SkipsAreTrue'
  <2> SUFFICES ASSUME RunnerInv, SkipsAreTrue, RunnerStep PROVE SkipsAreTrue'
    BY HostRunsRunner
  <2>1. CASE UNCHANGED runnerVars
    BY <2>1 DEF SkipsAreTrue, runnerVars
  <2>2. CASE Consume \/ ForgetAll
    BY <2>2 DEF SkipsAreTrue, Consume, ForgetAll
  <2>3. ASSUME NEW r \in Requests, Repeat(r) PROVE SkipsAreTrue'
    <3>1. /\ answer'.request = r /\ answer'.status = RepeatAnswer(r)
          /\ successes' = successes /\ completed[r.key] # None
      BY <2>3 DEF Repeat, Return, RepeatAnswer
    <3>2. PICK s \in successes : s.key = r.key /\ Signature(s) = completed[r.key].signature
      BY <3>1 DEF RunnerInv, Keys
    <3>3. \A t \in successes : t.key = r.key => Signature(t) = completed[r.key].signature
      BY DEF RunnerInv
    <3> QED
      BY <3>1, <3>2, <3>3 DEF SkipsAreTrue, RepeatAnswer
  <2>4. ASSUME NEW r \in Requests, Unhandled(r) \/ Invoke(r) PROVE SkipsAreTrue'
    BY <2>4 DEF Unhandled, Invoke, Free, Return, SkipsAreTrue
  <2>5. CASE Raise
    BY <2>5 DEF Raise, Return, SkipsAreTrue
  <2>6. ASSUME NEW env \in Envelopes, Answer(env) PROVE SkipsAreTrue'
    BY <2>6 DEF Answer, Return, SkipsAreTrue, Envelopes
  <2> QED
    BY <2>1, <2>2, <2>3, <2>4, <2>5, <2>6 DEF RunnerStep, Run
<1> QED
  BY <1>1, <1>2, RunnerInvariant, PTL DEF Spec

-----------------------------------------------------------------------------
(* Evidence *)

\* Where the evidence of a completed key is: on record, dropped with an answer
\* that came too late, or still in the answer of the success.
EvidenceInv ==
    /\ answer # None /\ answer.status = "SUCCEEDED"
       => /\ completed[answer.request.key] # None
          /\ completed[answer.request.key].signature = Signature(answer.request)
          /\ completed[answer.request.key].evidence = answer.evidence
    /\ \A k \in Keys :
          completed[k] # None
          => \/ completed[k].evidence \subseteq record.evidence
             \/ k \in dropped
             \/ answer # None /\ answer.status = "SUCCEEDED" /\ answer.request.key = k

\* The record never loses evidence, and only a restart forgets what was dropped.
LEMMA EvidenceGrows ==
    ASSUME [Next]_vars
    PROVE  /\ record.evidence \subseteq record'.evidence
           /\ Restart \/ dropped \subseteq dropped'
<1>1. ASSUME NEW d, Submit(d) PROVE record.evidence \subseteq record'.evidence
  BY <1>1 DEF Submit, Apply
<1>2. CASE \E r \in Requests : Schedule(r)
  BY <1>1, <1>2 DEF Schedule
<1>3. CASE Start \/ Handle \/ Drop \/ Retry \/ Restart \/ UNCHANGED vars
  BY <1>3 DEF Start, Handle, Drop, Retry, Restart, vars
<1>4. CASE Conclude
  BY <1>1, <1>4 DEF Conclude
<1>5. CASE Observe \/ Interrupt \/ Resolve
  BY <1>1, <1>5 DEF Observe, Interrupt, Resolve
<1> QED
  BY <1>2, <1>3, <1>4, <1>5 DEF Next, Host

\* The evidence of a success whose answer is used up is on record, or its key is dropped.
LEMMA ConsumedAnswer ==
    ASSUME Conclude \/ Drop \/ Retry, answer.status = "SUCCEEDED"
    PROVE  answer.evidence \subseteq record'.evidence \/ answer.request.key \in dropped'
<1>1. CASE Conclude
  <2>1. Accepted
    BY DEF Accepted
  <2>2. Verdict.evidence = answer.evidence
    BY <2>1 DEF Verdict, Advance, Move
  <2> QED
    BY <1>1, <2>2 DEF Conclude, Submit, Apply
<1>2. CASE Drop
  BY <1>2 DEF Drop
<1>3. CASE Retry
  BY <1>3 DEF Retry, Accepted
<1> QED
  BY <1>1, <1>2, <1>3

\* A remembered success is held by the host, on record, or was dropped.
THEOREM EvidenceInvariant == Spec => []EvidenceInv
<1>1. Init => EvidenceInv
  BY DEF Init, RunnerInit, EvidenceInv, Keys
<1>2. RunnerInv /\ EvidenceInv /\ [Next]_vars => EvidenceInv'
  <2> SUFFICES ASSUME RunnerInv, EvidenceInv, [Next]_vars PROVE EvidenceInv'
    OBVIOUS
  <2>0. record.evidence \subseteq record'.evidence
    BY EvidenceGrows
  <2>1. CASE UNCHANGED runnerVars /\ dropped \subseteq dropped'
    BY <2>0, <2>1 DEF EvidenceInv, runnerVars, Keys
  <2>2. CASE Conclude \/ Drop \/ Retry
    <3>1. answer' = None /\ completed' = completed /\ dropped \subseteq dropped'
      BY <2>2 DEF Conclude, Drop, Retry, Consume
    <3>2. ASSUME NEW k \in Keys, completed[k] # None
          PROVE  completed[k].evidence \subseteq record'.evidence \/ k \in dropped'
      <4>1. CASE answer # None /\ answer.status = "SUCCEEDED" /\ answer.request.key = k
        <5>1. completed[k].evidence = answer.evidence
          BY <4>1 DEF EvidenceInv
        <5> QED
          BY <4>1, <5>1, <2>2, ConsumedAnswer
      <4>2. CASE ~(answer # None /\ answer.status = "SUCCEEDED" /\ answer.request.key = k)
        BY <4>2, <3>1, <3>2, <2>0 DEF EvidenceInv
      <4> QED
        BY <4>1, <4>2
    <3> QED
      BY <3>1, <3>2 DEF EvidenceInv, Keys
  <2>3. CASE Start
    <3>1. /\ completed' = completed /\ answer = None /\ dropped' = dropped
          /\ answer' # None => answer'.status # "SUCCEEDED"
      BY <2>3 DEF Start, Run, Repeat, Unhandled, Invoke, Free, Return, RepeatAnswer
    <3> QED
      BY <2>0, <3>1 DEF EvidenceInv, Keys
  <2>4. CASE Handle
    <3>1. /\ running # None /\ answer = None /\ running \in Requests /\ dropped' = dropped
          /\ answer'.request = running /\ running.key \in Keys
      <4>1. running # None
        BY <2>4 DEF Handle
      <4>2. dropped' = dropped /\ (Raise \/ \E env \in Envelopes : Answer(env))
        BY <2>4 DEF Handle
      <4>3. answer'.request = running
        <5>1. CASE Raise
          BY <5>1 DEF Raise, Return
        <5>2. ASSUME NEW env \in Envelopes, Answer(env) PROVE answer'.request = running
          BY <5>2 DEF Answer, Return
        <5> QED
          BY <4>2, <5>1, <5>2
      <4>4. answer = None /\ running \in Requests
        BY <4>1 DEF RunnerInv
      <4> QED
        BY <4>1, <4>2, <4>3, <4>4 DEF Keys
    <3>2. \A k \in Keys : completed[k] # None
                          => completed[k].evidence \subseteq record'.evidence \/ k \in dropped'
      BY <2>0, <3>1 DEF EvidenceInv
    <3>3. CASE Raise
      BY <3>2, <3>3 DEF Raise, Return, EvidenceInv, Keys
    <3>4. ASSUME NEW env \in Envelopes, Answer(env) PROVE EvidenceInv'
      <4>1. answer'.status = env.status /\ answer'.evidence = env.evidence
        BY <3>4 DEF Answer, Return
      <4>2. CASE env.status = "SUCCEEDED"
        <5>1. completed' = [completed EXCEPT ![running.key] = Kept(running, env)]
          BY <3>4, <4>2 DEF Answer, Kept
        <5>2. \A k \in Keys : completed'[k] = IF k = running.key THEN Kept(running, env)
                                              ELSE completed[k]
          BY <5>1 DEF RunnerInv
        <5>3. answer' # None /\ Kept(running, env) # None
          <6>1. answer' \in Answers
            BY <3>1, <3>4 DEF Answer, Return, Answers, Statuses, Envelopes
          <6>2. Kept(running, env) \in Results
            BY <3>1 DEF Kept, Results, Envelopes
          <6> QED
            BY <6>1, <6>2, RequestAssumption
        <5>4. /\ Kept(running, env).signature = Signature(running)
              /\ Kept(running, env).evidence = env.evidence
          BY DEF Kept
        <5>5. /\ completed'[answer'.request.key] # None
              /\ completed'[answer'.request.key].signature = Signature(answer'.request)
              /\ completed'[answer'.request.key].evidence = answer'.evidence
          BY <3>1, <4>1, <5>2, <5>3, <5>4
        <5>6. \A k \in Keys :
                 completed'[k] # None
                 => \/ completed'[k].evidence \subseteq record'.evidence
                    \/ k \in dropped'
                    \/ answer' # None /\ answer'.status = "SUCCEEDED" /\ answer'.request.key = k
          BY <3>1, <3>2, <4>1, <4>2, <5>2, <5>3
        <5> QED
          BY <5>5, <5>6 DEF EvidenceInv, Keys
      <4>3. CASE env.status # "SUCCEEDED"
        BY <3>2, <3>4, <4>1, <4>3 DEF Answer, EvidenceInv, Keys
      <4> QED
        BY <4>2, <4>3
    <3> QED
      BY <2>4, <3>3, <3>4 DEF Handle
  <2>5. CASE Restart
    BY <2>5 DEF Restart, ForgetAll, EvidenceInv, Keys
  <2>6. CASE \E r \in Requests : Schedule(r)
    BY <2>1, <2>6 DEF Schedule
  <2>7. CASE Observe \/ Interrupt \/ Resolve \/ UNCHANGED vars
    BY <2>1, <2>7 DEF Observe, Interrupt, Resolve, vars
  <2> QED
    BY <2>2, <2>3, <2>4, <2>5, <2>6, <2>7 DEF Next, Host
<1> QED
  BY <1>1, <1>2, RunnerInvariant, PTL DEF Spec

\* A skip is for work all of whose evidence is on record, or was dropped with its answer.
THEOREM SkipExplained == Spec => []SkipIsExplained
<1>1. Init => SkipIsExplained
  BY DEF Init, RunnerInit, SkipIsExplained
<1>2. RunnerInv /\ EvidenceInv /\ SkipIsExplained /\ [Next]_vars => SkipIsExplained'
  <2> SUFFICES ASSUME RunnerInv, EvidenceInv, SkipIsExplained, [Next]_vars,
                      answer' # None, answer'.status = "SKIPPED_DUPLICATE"
               PROVE  \/ completed'[answer'.request.key].evidence \subseteq record'.evidence
                      \/ answer'.request.key \in dropped'
    BY DEF SkipIsExplained
  <2>0. ~Restart
    BY DEF Restart, ForgetAll
  <2>1. CASE answer' = answer
    <3>1. completed' = completed
      BY <2>0, <2>1, HostRunsRunner DEF RunnerStep, runnerVars, Consume, ForgetAll, Run,
         Repeat, Unhandled, Invoke, Raise, Answer, RunnerInv
    <3>2. \/ completed[answer.request.key].evidence \subseteq record.evidence
          \/ answer.request.key \in dropped
      BY <2>1 DEF SkipIsExplained
    <3>3. record.evidence \subseteq record'.evidence /\ dropped \subseteq dropped'
      BY <2>0, EvidenceGrows
    <3> QED
      BY <2>1, <3>1, <3>2, <3>3
  <2>2. CASE answer' # answer
    <3>0. ASSUME NEW env \in Envelopes, Answer(env) PROVE FALSE
      BY <3>0 DEF Answer, Return, Envelopes
    <3>1. PICK r \in Requests : Repeat(r)
      BY <2>2, <3>0, HostRunsRunner DEF RunnerStep, runnerVars, Consume, ForgetAll, Run,
         Unhandled, Invoke, Raise, Return
    <3>2. answer'.request = r /\ completed[r.key] # None /\ completed' = completed
      BY <3>1 DEF Repeat, Return
    <3>3. completed[r.key].evidence \subseteq record.evidence \/ r.key \in dropped
      BY <3>1, <3>2 DEF EvidenceInv, Keys, Repeat, Free
    <3> QED
      BY <2>0, <3>2, <3>3, EvidenceGrows
  <2> QED
    BY <2>1, <2>2
<1> QED
  BY <1>1, <1>2, RunnerInvariant, EvidenceInvariant, PTL DEF Spec

\* No phase of work is left for the next one but by an answer to work of that phase,
\* and without enough references of a success on record, or the work named there.
THEOREM AdvanceEvidenced == Spec => AdvanceIsEvidenced
<1>1. RunnerInv /\ EvidenceInv /\ [Next]_vars
      => [\A p \in DOMAIN Work :
             record.phase = p /\ record'.phase = Following[p].to
             => /\ answer # None /\ answer.request \in Work[p]
                /\ LET kept == completed[answer.request.key]
                   IN  \/ /\ kept # None /\ kept.refs >= answer.request.needs
                          /\ kept.evidence \subseteq record'.evidence
                       \/ answer.status # "SUCCEEDED" /\ Done(answer.request)]_vars
  <2> DEFINE kept == completed[answer.request.key]
  <2> SUFFICES ASSUME RunnerInv, EvidenceInv, Next, NEW p \in DOMAIN Work,
                      record.phase = p, record'.phase = Following[p].to
               PROVE  /\ answer # None /\ answer.request \in Work[p]
                      /\ \/ /\ kept # None /\ kept.refs >= answer.request.needs
                            /\ kept.evidence \subseteq record'.evidence
                         \/ answer.status # "SUCCEEDED" /\ Done(answer.request)
    OBVIOUS
  <2>0. /\ p \notin BlockedPhases /\ Following[p].to # p
        /\ Following[p].to # "BLOCKED_NEEDS_EL_LE"
    BY WorkAssumption DEF BlockedNames
  <2>1. ASSUME NEW d, Submit(d) PROVE record'.phase = d.to /\ record.phase = d.from
    BY <2>1 DEF Submit, Apply, CanApply
  <2>2. \A q : GiveUp(q).to = "BLOCKED_NEEDS_EL_LE"
    BY DEF GiveUp, Block, Move
  <2>3. Conclude
    <3>1. ASSUME NEW r \in Requests PROVE ~Schedule(r)
      BY <2>0, <2>1 DEF Schedule, Move
    <3>2. ~Start /\ ~Handle /\ ~Drop /\ ~Retry /\ ~Restart
      BY <2>0 DEF Start, Handle, Drop, Retry, Restart
    <3>3. ~Observe
      BY <2>0, <2>1 DEF Observe, Move
    <3>4. ~Interrupt
      BY <2>0, <2>1, <2>2 DEF Interrupt
    <3>5. ~Resolve
      BY <2>0 DEF Resolve
    <3> QED
      BY <3>1, <3>2, <3>3, <3>4, <3>5 DEF Next, Host
  <2>4. Accepted
    BY <2>0, <2>1, <2>2, <2>3 DEF Conclude, Verdict
  <2>5. answer # None /\ answer.request \in Requests
    BY <2>3 DEF Conclude, RunnerInv
  <2>6. answer.request \in Work[p]
    <3>1. Verdict.from = PhaseOf(answer.request)
      BY <2>4 DEF Verdict, Advance, Move
    <3>2. p = PhaseOf(answer.request)
      BY <2>1, <2>3, <3>1 DEF Conclude
    <3>3. \E q \in DOMAIN Work : answer.request \in Work[q]
      BY <2>5, WorkAssumption
    <3> QED
      BY <3>2, <3>3 DEF PhaseOf
  <2>7. CASE answer.status = "SUCCEEDED"
    <3>1. /\ kept # None /\ kept.evidence = answer.evidence
          /\ kept.signature = Signature(answer.request)
      BY <2>5, <2>7 DEF EvidenceInv
    <3>2. Verdict.evidence = answer.evidence
      BY <2>4 DEF Verdict, Advance, Move
    <3>3. record'.evidence = record.evidence \cup answer.evidence
      BY <2>3, <3>2 DEF Conclude, Submit, Apply
    <3>4. PICK r \in successes : Signature(r) = kept.signature /\ kept.refs >= r.needs
      BY <2>5, <3>1 DEF RunnerInv, Keys
    <3>5. r.needs = answer.request.needs
      BY <3>1, <3>4 DEF Signature
    <3> QED
      BY <2>5, <2>6, <3>1, <3>3, <3>4, <3>5
  <2>8. CASE answer.status # "SUCCEEDED"
    BY <2>4, <2>5, <2>6, <2>8 DEF Accepted
  <2> QED
    BY <2>7, <2>8
<1> QED
  BY <1>1, RunnerInvariant, EvidenceInvariant, PTL DEF Spec, AdvanceIsEvidenced
=============================================================================
