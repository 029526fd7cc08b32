------------------------------ MODULE Sending ------------------------------
(***************************************************************************)
(* One sender: the KYC review that lets them send (Kyc) and the quotes     *)
(* they ask for (QuoteLimits).  The two meet in users.kyc_status, which a  *)
(* request for a quote loads once, and in the users row, which a review    *)
(* cannot write while a quote has it locked.                               *)
(***************************************************************************)
EXTENDS Kyc, QuoteLimits

vars == <<kyc, limits>>

Init == KycInit /\ LimitsInit

Next ==
  \/ KycRead /\ UNCHANGED limits
  \/ KycWrite /\ writer = None /\ UNCHANGED limits
  \/ (LimitsNext \/ \E q \in Quotes : StartQuote(q, kyc_status)) /\ UNCHANGED kyc

Spec == Init /\ [][Next]_vars

-----------------------------------------------------------------------------
(***************************************************************************)
(* Every variable holds a value of the program's.                          *)
(***************************************************************************)
TypeOK ==
  /\ KycType
  /\ LimitsType
  /\ loaded \in [Quotes -> KYCStatus]

(***************************************************************************)
(* "Only approved users may send" (FR-9): there is a remittance only of a  *)
(* user whom some admin has approved before, however applications and      *)
(* reviews of the user overlap.                                            *)
(***************************************************************************)
OnlyApprovedSend == \A q \in Quotes : status[q] # None => approvals > 0

(***************************************************************************)
(* "approve/reject endpoints are what keep the two columns in sync"        *)
(* (technical-specification.md:934-935): a user is approved just when one  *)
(* of their applications is.  True of a user who applies once and whom two *)
(* admins review at the same time, one approving and one rejecting: the    *)
(* second commit overwrites both columns.  The run with two applications   *)
(* refutes it, and so would a third admin, who loads the user between the  *)
(* commits of the other two.                                               *)
(***************************************************************************)
StatusesInSync ==
  kyc_status = "APPROVED" <=> \E a \in Applications : application[a] = "APPROVED"
=============================================================================
