-------------------------------- MODULE Kyc --------------------------------
(***************************************************************************)
(* KYC applications of one user and their review: routers/kyc.py and the   *)
(* KYC part of routers/admin.py.  Every request reads first and writes     *)
(* when it commits; nothing is locked or compared in between.  The ORM     *)
(* writes a column only if the request assigned it another value than it   *)
(* had loaded.                                                             *)
(*                                                                         *)
(* An application with another e-mail address, or for an applicant who is  *)
(* no longer there, is refused and leaves nothing behind.                  *)
(***************************************************************************)
EXTENDS Integers

CONSTANTS
  Applications,  \* requests to POST /kyc/apply, each for one application
  Reviews,       \* requests to approve or to reject
  NoRow

Decisions == {"APPROVED", "REJECTED"}

Judgements == [of : Applications, decision : Decisions]

ApplicationStatus == {"PENDING"} \cup Decisions

KYCStatus == {"NOT_STARTED"} \cup ApplicationStatus

ASSUME NoApplicationAssumption == NoRow \notin Applications \cup Judgements \cup ApplicationStatus

VARIABLES
  kyc_status,   \* users.kyc_status
  application,  \* kyc_applications.status, NoRow while there is no row
  apc,          \* where each application request is
  applicant,    \* the kyc_status it has loaded
  rpc,          \* where each review is
  review,       \* the application it is about and its decision
  reviewed,     \* the kyc_status it has loaded
  approvals     \* history: how many approvals were committed

kyc == <<kyc_status, application, apc, applicant, rpc, review, reviewed, approvals>>

KycInit ==
  /\ kyc_status = "NOT_STARTED"
  /\ application = [a \in Applications |-> NoRow]
  /\ apc = [a \in Applications |-> "new"]
  /\ applicant = [a \in Applications |-> "NOT_STARTED"]
  /\ rpc = [v \in Reviews |-> "new"]
  /\ review = [v \in Reviews |-> NoRow]
  /\ reviewed = [v \in Reviews |-> "NOT_STARTED"]
  /\ approvals = 0

\* users.kyc_status after a request that had loaded one value assigns one.
Assigned(loaded, status) == IF loaded = status THEN kyc_status ELSE status

-----------------------------------------------------------------------------
(***************************************************************************)
(* submit_kyc: get_current_user, the look for an application that is       *)
(* pending or approved (409), and the new application.                     *)
(***************************************************************************)
LoadApplicant(a) ==
  /\ apc[a] = "new"
  /\ apc' = [apc EXCEPT ![a] = "look"]
  /\ applicant' = [applicant EXCEPT ![a] = kyc_status]
  /\ UNCHANGED <<kyc_status, application, rpc, review, reviewed, approvals>>

Existing == \E a \in Applications : application[a] \in {"PENDING", "APPROVED"}

LookForExisting(a) ==
  /\ apc[a] = "look"
  /\ apc' = [apc EXCEPT ![a] = IF Existing THEN "done" ELSE "commit"]
  /\ UNCHANGED <<kyc_status, application, applicant, rpc, review, reviewed, approvals>>

CommitApplication(a) ==
  /\ apc[a] = "commit"
  /\ apc' = [apc EXCEPT ![a] = "done"]
  /\ application' = [application EXCEPT ![a] = "PENDING"]
  /\ kyc_status' = Assigned(applicant[a], "PENDING")
  /\ UNCHANGED <<applicant, rpc, review, reviewed, approvals>>

-----------------------------------------------------------------------------
(***************************************************************************)
(* approve_kyc and reject_kyc.                                             *)
(***************************************************************************)

\* _get_application and _require_pending.
LoadApplication(v, a, decision) ==
  /\ rpc[v] = "new"
  /\ application[a] = "PENDING"
  /\ rpc' = [rpc EXCEPT ![v] = "user"]
  /\ review' = [review EXCEPT ![v] = [of |-> a, decision |-> decision]]
  /\ UNCHANGED <<kyc_status, application, apc, applicant, reviewed, approvals>>

\* _applicant.
LoadReviewed(v) ==
  /\ rpc[v] = "user"
  /\ rpc' = [rpc EXCEPT ![v] = "commit"]
  /\ reviewed' = [reviewed EXCEPT ![v] = kyc_status]
  /\ UNCHANGED <<kyc_status, application, apc, applicant, review, approvals>>

\* Mutant of CommitReview: a rejection approves the user all the same.
CommitReviewApproving(v) ==
  /\ rpc[v] = "commit"
  /\ rpc' = [rpc EXCEPT ![v] = "done"]
  /\ application' = [application EXCEPT ![review[v].of] = review[v].decision]
  /\ kyc_status' = "APPROVED"
  /\ approvals' = IF review[v].decision = "APPROVED" THEN approvals + 1 ELSE approvals
  /\ UNCHANGED <<apc, applicant, review, reviewed>>

\* Mutant of CommitReview: the update of the application, and it alone,
\* compares the status it replaces.
CommitReviewHalfGuarded(v) ==
  /\ rpc[v] = "commit"
  /\ rpc' = [rpc EXCEPT ![v] = "done"]
  /\ application' = [application EXCEPT ![review[v].of] =
                       IF @ = "PENDING" THEN review[v].decision ELSE @]
  /\ kyc_status' = Assigned(reviewed[v], review[v].decision)
  /\ approvals' = IF review[v].decision = "APPROVED" THEN approvals + 1 ELSE approvals
  /\ UNCHANGED <<apc, applicant, review, reviewed>>

CommitReview(v) ==
  /\ rpc[v] = "commit"
  /\ rpc' = [rpc EXCEPT ![v] = "done"]
  /\ application' = [application EXCEPT ![review[v].of] = review[v].decision]
  /\ kyc_status' = Assigned(reviewed[v], review[v].decision)
  /\ approvals' = IF review[v].decision = "APPROVED" THEN approvals + 1 ELSE approvals
  /\ UNCHANGED <<apc, applicant, review, reviewed>>

KycRead ==
  \/ \E a \in Applications : LoadApplicant(a) \/ LookForExisting(a)
  \/ \E v \in Reviews :
       \/ LoadReviewed(v)
       \/ \E a \in Applications, d \in Decisions : LoadApplication(v, a, d)

KycWrite ==
  \/ \E a \in Applications : CommitApplication(a)
  \/ \E v \in Reviews : CommitReview(v)

-----------------------------------------------------------------------------
KycType ==
  /\ kyc_status \in KYCStatus
  /\ application \in [Applications -> ApplicationStatus \cup {NoRow}]
  /\ apc \in [Applications -> {"new", "look", "commit", "done"}]
  /\ applicant \in [Applications -> KYCStatus]
  /\ rpc \in [Reviews -> {"new", "user", "commit", "done"}]
  /\ review \in [Reviews -> Judgements \cup {NoRow}]
  /\ reviewed \in [Reviews -> KYCStatus]
  /\ approvals \in Nat
  /\ \A v \in Reviews : rpc[v] # "new" => review[v] # NoRow
=============================================================================
