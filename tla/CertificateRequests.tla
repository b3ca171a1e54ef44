-------------------------- MODULE CertificateRequests --------------------------
(***************************************************************************)
(* What a hub promises about certificate requests, whatever happens inside *)
(* its signer: a request is decided once, answered at most once and only   *)
(* after it was approved, and what was answered stays answered until the   *)
(* request is deleted.                                                     *)
(***************************************************************************)
CONSTANT Requests

VARIABLES
  kind,    \* what is asked for: "signable", "misused" (usages the signer refuses), "foreign"
  status

requestVars == <<kind, status>>

Kinds == {"none", "signable", "misused", "foreign"}
Statuses == {"absent", "pending", "approved", "denied", "signed", "failed"}

Init ==
  /\ kind = [r \in Requests |-> "none"]
  /\ status = [r \in Requests |-> "absent"]

Move(r, from, to) == status[r] = from /\ status' = [status EXCEPT ![r] = to]

Create(r) ==
  /\ Move(r, "absent", "pending")
  /\ \E k \in Kinds \ {"none"} : kind' = [kind EXCEPT ![r] = k]

Decide(r) == (Move(r, "pending", "approved") \/ Move(r, "pending", "denied")) /\ UNCHANGED kind
Sign(r) == kind[r] = "signable" /\ Move(r, "approved", "signed") /\ UNCHANGED kind
Fail(r) == kind[r] = "misused" /\ Move(r, "approved", "failed") /\ UNCHANGED kind

Delete(r) ==
  /\ status[r] # "absent"
  /\ status' = [status EXCEPT ![r] = "absent"]
  /\ kind' = [kind EXCEPT ![r] = "none"]

Next == \E r \in Requests : Create(r) \/ Decide(r) \/ Sign(r) \/ Fail(r) \/ Delete(r)

Spec == Init /\ [][Next]_requestVars
===============================================================================
