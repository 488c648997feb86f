---------------------------- MODULE ProposalLife ----------------------------
(***************************************************************************)
(* What the daily engine promises about a trade proposal, whatever         *)
(* crashes, late answers and double taps do in between: an entry is        *)
(* submitted only with the operator's consent, a decision is taken once,   *)
(* and a proposal that was rejected, expired, failed or filled stays so.   *)
(* Exits need no consent.                                                  *)
(***************************************************************************)
CONSTANT Ids

VARIABLES
  status,    \* "NONE" before the proposal exists
  consent    \* the proposals the operator has ever approved

vars == <<status, consent>>

Init ==
  /\ status = [id \in Ids |-> "NONE"]
  /\ consent = {}

Move(id, from, to) ==
  /\ status[id] = from
  /\ status' = [status EXCEPT ![id] = to]
  /\ UNCHANGED consent

Propose(id) == Move(id, "NONE", "PENDING")

\* An exit is recorded once its order is in the broker.
SubmitExit(id) == Move(id, "NONE", "SUBMITTED")

\* The operator answers when he likes, also too late or twice.
Consent(id) ==
  /\ status[id] # "NONE"
  /\ consent' = consent \union {id}
  /\ UNCHANGED status

Approve(id) == id \in consent /\ Move(id, "PENDING", "APPROVED")

Reject(id) == Move(id, "PENDING", "REJECTED")

Expire(id) == Move(id, "PENDING", "EXPIRED")

Submit(id) == Move(id, "APPROVED", "SUBMITTED")

Fail(id) == Move(id, "APPROVED", "FAILED")

\* From APPROVED when the process died before it noted the submission.
Fill(id) == \E from \in {"APPROVED", "SUBMITTED"} : Move(id, from, "FILLED")

Next ==
  \E id \in Ids :
    \/ Propose(id) \/ SubmitExit(id) \/ Consent(id)
    \/ Approve(id) \/ Reject(id) \/ Expire(id)
    \/ Submit(id) \/ Fail(id) \/ Fill(id)

Spec == Init /\ [][Next]_vars

=============================================================================
