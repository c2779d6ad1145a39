----------------------------- MODULE ProposalGate -----------------------------
(***************************************************************************)
(* policies/proposal.py: the gates a project passes on its way from a      *)
(* proposal to DONE, as operators on its dossier, a record                 *)
(*   [required, discovery, approval, binding, report]                      *)
(* the last four of which may be None:                                     *)
(*   discovery  [targets, gate, refs]     targets: what was discovered and *)
(*                                        the recommended one              *)
(*   approval   [proposal, criteria]                                       *)
(*   binding    [version, target, proposal, criteria, surfaces,            *)
(*               substitutes, cites]                                       *)
(*   report     [version, target, satisfied, unsatisfied, live, cites]     *)
(* A target is [surface, refs]: `surface` stands for the seven fields by   *)
(* which _target_identity_matches and target_matches_binding both compare  *)
(* two targets, each of them for equality.  `proposal` stands for the id,  *)
(* version, digest, approval record and approver of a proposal, all of     *)
(* which must agree.  References are compared by key only.  A failure is   *)
(* a member of a set instead of a sentence in a list.                      *)
(***************************************************************************)
EXTENDS DriverDecisions

Failure(name, fails) == IF fails THEN {name} ELSE {}

Overlap(refs1, refs2) == refs1 \cap refs2 # {}

SameSurface(target1, target2) == target1.surface = target2.surface

-----------------------------------------------------------------------------
(* What pydantic demands of the records of a dossier (models.py:197-297) *)

IsTarget(t) == DOMAIN t = {"surface", "refs"}

IsDiscovery(d) ==
    /\ DOMAIN d = {"targets", "gate", "refs"}
    /\ d.targets # {} /\ \A t \in d.targets : IsTarget(t)

IsApproval(a) ==
    /\ DOMAIN a = {"proposal", "criteria"}
    /\ a.criteria # {}

IsBinding(b) ==
    /\ DOMAIN b = {"version", "target", "proposal", "criteria", "surfaces",
                   "substitutes", "cites"}
    /\ IsTarget(b.target) /\ \A t \in b.surfaces : IsTarget(t)
    /\ b.version # None /\ b.criteria # {}

\* A report may call a criterion satisfied and unsatisfied at once.
IsReport(r) ==
    /\ DOMAIN r = {"version", "target", "satisfied", "unsatisfied", "live", "cites"}
    /\ IsTarget(r.target) /\ r.live \in BOOLEAN
    /\ r.satisfied \cup r.unsatisfied # {}

\* `developer`: authorized_by_role is the developer.  The version may be None.
IsAuthorization(a) ==
    /\ DOMAIN a = {"version", "developer", "supervisor"}
    /\ a.developer \in BOOLEAN /\ a.supervisor \in BOOLEAN

-----------------------------------------------------------------------------
(* check_proposal_gate *)

\* Fault variant: naming a substitute is approving it.
SubstituteApprovedByName(b) == b.substitutes # {}

\* _has_explicit_substitute_approval
SubstituteApproved(b) == Overlap(b.substitutes, b.target.refs)

SourceFailures(b, d) ==
    Failure("discovery has no evidence", d.refs = {})
    \cup Failure("ownership unresolved", d.gate \in BlockedNames)
    \cup Failure("discovery not cited",
            d.gate \notin BlockedNames /\ b.cites # {} /\ ~Overlap(b.cites, d.refs))
    \cup Failure("target not discovered",
            ~SubstituteApproved(b) /\ ~\E t \in d.targets : SameSurface(b.target, t))

ApprovalFailures(b, a) ==
    Failure("approval mismatch", b.proposal # a.proposal)
    \cup Failure("criteria mismatch", b.criteria # a.criteria)

\* _binding_evidence_failures, of a dossier that has a binding
BindingFailures(p) ==
    (IF p.discovery = None THEN {"no discovery"} ELSE SourceFailures(p.binding, p.discovery))
    \cup Failure("no discovery cited", p.binding.cites = {})
    \cup (IF p.approval = None THEN {"no approval"} ELSE ApprovalFailures(p.binding, p.approval))

ProposalFailures(p) ==
    IF ~p.required THEN {}
    ELSE IF p.binding = None THEN {"no binding"}
    ELSE BindingFailures(p)

\* ProposalGateStatus of a proposal that did not pass
FailureStatus(failures) ==
    IF "ownership unresolved" \in failures THEN "blocked_ownership"
    ELSE IF "target not discovered" \in failures THEN "target_mismatch"
    ELSE "required_missing"

-----------------------------------------------------------------------------
(* check_project_transition_gate *)

GatedPhases      == {"TASK_BREAKDOWN", "TASK_EXECUTION", "PR_OPEN"}
AuthorizedPhases == {"TASK_EXECUTION", "PR_OPEN", "REVIEW_REQUESTED"}

\* check_project_target_binding, of a dossier whose proposal passed
CandidateFailures(p, candidate) ==
    IF candidate = None THEN {"no candidate"}
    ELSE Failure("candidate mismatch", ~SameSurface(p.binding.target, candidate))

\* Fault variant: the authorization may name any version of the binding.
AuthorizationOKAnyVersion(p, auth) ==
    /\ auth # None
    /\ ~auth.supervisor
    /\ auth.developer

\* An authorization is a record [version, developer, supervisor].
AuthorizationOK(p, auth) ==
    /\ auth # None
    /\ ~auth.supervisor
    /\ auth.developer
    /\ p.binding # None => auth.version = p.binding.version

GateFailures(p, phase, next, candidate, auth, testMode) ==
    IF next = phase THEN {}
    ELSE (IF p.required /\ next \in GatedPhases
          THEN IF ProposalFailures(p) # {} THEN ProposalFailures(p)
               ELSE CandidateFailures(p, candidate)
          ELSE {})
         \cup Failure("not authorized",
                testMode /\ next \in AuthorizedPhases /\ ~AuthorizationOK(p, auth))

\* _blocker_for_transition_gate
GateBlocker(phase, failures) ==
    [owner        |-> IF FailureStatus(failures) = "blocked_ownership"
                      THEN "process_steward" ELSE "human_approver",
     category     |-> IF FailureStatus(failures) = "blocked_ownership"
                      THEN "process" ELSE "human_authority",
     blockedPhase |-> phase,
     resume       |-> "PLAN_REVIEW",
     options      |-> {"PLAN_REVIEW", "PLAN_RETHINK"}]

-----------------------------------------------------------------------------
(* check_acceptance_proof *)

\* _has_report_substitute_approval
ReportSubstituteApproved(b, r) ==
    /\ Overlap(b.substitutes, r.cites)
    /\ \E s \in b.surfaces :
          /\ SameSurface(s, r.target)
          /\ Overlap(b.substitutes, s.refs)
          /\ Overlap(r.cites, r.target.refs)

\* Fault variant: the report's own target is not compared.
AcceptanceOKAnyTarget(p) ==
    p.required =>
        /\ ProposalFailures(p) = {}
        /\ p.report # None
        /\ p.report.version = p.binding.version
        /\ p.binding.criteria \cup p.approval.criteria \subseteq p.report.satisfied
        /\ p.report.unsatisfied = {}
        /\ p.report.live

AcceptanceOK(p) ==
    p.required =>
        /\ ProposalFailures(p) = {}
        /\ p.report # None
        /\ p.report.version = p.binding.version
        /\ \/ SameSurface(p.binding.target, p.report.target)
           \/ ReportSubstituteApproved(p.binding, p.report)
        /\ p.binding.criteria \cup p.approval.criteria \subseteq p.report.satisfied
        /\ p.report.unsatisfied = {}
        /\ p.report.live   \* live verification was required and has passed

-----------------------------------------------------------------------------
(* audit_v2_process_invariants *)

AuditedPhases ==
    {"TASK_BREAKDOWN", "TASK_EXECUTION", "PR_OPEN", "REVIEW_REQUESTED",
     "REVIEW_WAIT", "FINAL_REPORT", "DONE"}

\* Fault variant: the transition is audited from the phases before the PR only.
AuditOKEarly(p, phase, candidate, auth, testMode) ==
    /\ ProposalFailures(p) = {}
    /\ phase \in {"TASK_BREAKDOWN", "TASK_EXECUTION", "PR_OPEN"} =>
          GateFailures(p, phase, "PR_OPEN", candidate, auth, testMode) = {}
    /\ AcceptanceOK(p)

\* The audit of a snapshot: source drift, and every gate on its own.
AuditOK(p, phase, candidate, auth, testMode) ==
    /\ ProposalFailures(p) = {}
    /\ candidate # None =>
          p.discovery # None /\ \E t \in p.discovery.targets : SameSurface(candidate, t)
    /\ phase \in AuditedPhases =>
          GateFailures(p, phase, "PR_OPEN", candidate, auth, testMode) = {}
    /\ AcceptanceOK(p)
=============================================================================
