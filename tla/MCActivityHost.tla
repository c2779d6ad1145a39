---------------------------- MODULE MCActivityHost ----------------------------
(* Two phases of work.  The first may retry under a new activity id; the      *)
(* second asks for a store tick, for something nobody handles, for what the   *)
(* first has done already, or for something else under its key.  They require *)
(* two references, one, or none.                                              *)
EXTENDS ActivityHost

Request(id, type, key, body, needs) ==
    [id |-> <<"w", id>>, type |-> type, key |-> <<"w", key>>, body |-> body, needs |-> needs]

MCWork ==
    [IMPLEMENTING |-> {Request("a1", "pr", "k1", "x", 2), Request("a2", "pr", "k1", "x", 2)},
     TESTING      |-> {Request("a3", "pr", "k1", "y", 0), Request("a4", "pr", "k1", "x", 2),
                       Request("c1", "chat", "k2", "x", 1), StoreRequest("w", "status")}]

MCRequests == MCWork["IMPLEMENTING"] \cup MCWork["TESTING"]

MCFollowing ==
    [IMPLEMENTING |-> [to |-> "TESTING", signal |-> "TEST_EVIDENCE_CREATED"],
     TESTING      |-> [to |-> "REVIEW_REQUESTED", signal |-> "REVIEW_REQUESTED"]]

MCPhases == {"IMPLEMENTING", "TESTING", "REVIEW_REQUESTED"} \cup BlockedNames

MCBlockers == {StewardBlocker(p) : p \in DOMAIN MCWork}

MCActivities == {r.id : r \in MCRequests}

MCRemark == <<"w", "note">>

\* Two keys that answers may name, rightly or not, and a reference that names none.
MCEvidence == {<<"w", "k1">>, <<"w", "status">>, MCRemark}
=============================================================================
