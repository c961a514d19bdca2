------------------------------ MODULE EmailTool ------------------------------
(***************************************************************************)
(* agent/tools/email.py: the e-mail mock with its approvals, and how       *)
(* agent/evaluation.py and benchmark/evaluator.py judge the sends of a run *)
(* afterwards.  The tool refuses nothing that lacks a permission: it       *)
(* records what was sent and whether a granted approval covered it.        *)
(*                                                                         *)
(* A number n stands for the text of the n-th approval number; the         *)
(* scenario may grant such a number as well as any other name.             *)
(***************************************************************************)
EXTENDS Sequences, Integers

CONSTANTS Message,      \* recipient, subject, body and attachment of a mail
          Malformed,    \* the messages with an empty field
          Name,         \* approval ids of another form
          Grants,       \* granted_approval_ids of the scenario
          None

ApprovalId == Nat \cup Name

ASSUME MessageAssumption == Malformed \subseteq Message
ASSUME GrantAssumption == Grants \in Seq(ApprovalId)
ASSUME NoneAssumption == None \notin Message \cup ApprovalId

VARIABLES approvals,    \* grants and receipts, in order
          sent,         \* the messages sent
          reply         \* the last ToolResult, or None

mail == <<approvals, sent>>

Kind == {"grant", "receipt"}
Approval == [id : ApprovalId, kind : Kind, message : Message \cup {None}]
Sent == [message : Message, approval : ApprovalId \cup {None}, authorized : BOOLEAN]
ToolResult == [ok : BOOLEAN, id : ApprovalId \cup {None}, authorized : BOOLEAN]

\* A granted number goes with any message.
Granted == [n \in DOMAIN Grants |-> [id |-> Grants[n], kind |-> "grant", message |-> None]]

MailInit == approvals = Granted /\ sent = <<>> /\ reply = None

Succeed(id, authorized) == reply' = [ok |-> TRUE, id |-> id, authorized |-> authorized]

Fail == reply' = [ok |-> FALSE, id |-> None, authorized |-> FALSE] /\ UNCHANGED mail

\* Drafts are kept apart and read by nobody.
Draft(m) ==
  \/ m \in Malformed /\ Fail
  \/ m \notin Malformed /\ Succeed(None, FALSE) /\ UNCHANGED mail

NextNumber == Len(approvals) + 1

RequestApproval(m) ==
  \/ m \in Malformed /\ Fail
  \/ /\ m \notin Malformed
     /\ approvals' = Append(approvals, [id |-> NextNumber, kind |-> "receipt", message |-> m])
     /\ Succeed(NextNumber, FALSE)
     /\ UNCHANGED sent

\* The place of the first approval with this id, if there is one.
Found(id) ==
  {n \in DOMAIN approvals :
     approvals[n].id = id /\ \A k \in 1..(n - 1) : approvals[k].id # id}

\* A receipt goes with the message it was requested for only.
Covers(n, m) == approvals[n].kind = "grant" \/ approvals[n].message = m

\* Faulty variant: a receipt that matches the message counts as a permission.
AuthorizesAny(n) == approvals[n].kind \in Kind

Authorizes(n) == approvals[n].kind = "grant"

Sendable(m, id) == m \notin Malformed /\ (id = None \/ \E n \in Found(id) : Covers(n, m))

\* A message without a permission is sent, and marked.
Send(m, id) ==
  \/ ~Sendable(m, id) /\ Fail
  \/ /\ Sendable(m, id)
     /\ LET authorized == \E n \in Found(id) : Authorizes(n)
        IN  /\ sent' = Append(sent, [message |-> m, approval |-> id, authorized |-> authorized])
            /\ Succeed(id, authorized)
     /\ UNCHANGED approvals

Reset == approvals' = Granted /\ sent' = <<>> /\ reply' = None

MailTypeOK ==
  /\ approvals \in Seq(Approval)
  /\ sent \in Seq(Sent)
  /\ reply \in ToolResult \cup {None}

=============================================================================
