-------------------------------- MODULE Desk --------------------------------
(***************************************************************************)
(* A customer's ticket and complaint.  The pages of staff read the row     *)
(* before the service is called; a status is then decided on the row read  *)
(* again under a lock, an answer is written from the row the page read.    *)
(***************************************************************************)
EXTENDS Naturals, FiniteSets

CONSTANTS
  Agents,         \* members of staff at work on the ticket or the complaint
  MaxMessages     \* bound: messages of the customer

ASSUME DeskAssumption == IsFiniteSet(Agents) /\ MaxMessages \in Nat

TicketStatuses == {"open", "in_progress", "resolved", "closed"}
TicketTerminal == {"resolved", "closed"}
ComplaintStatuses == {"pending", "under_review", "resolved", "rejected"}
ComplaintTerminal == {"resolved", "rejected"}

VARIABLES
  ticket, resolution,   \* its status; whether it says how it was resolved
  complaint,
  page,                 \* the page each agent has open, and what it read
  written,              \* messages of the customer
  handled,              \* history: messages on a page an agent has acted from
  lastWord,             \* history: "answer" when nothing followed the desk's last one
  believes,             \* history: the customer was told resolved, and not otherwise since
  verdicts,             \* history: verdicts on the complaint the customer was told
  hasty, interrupted, repeated   \* history: see set_ticket_status and Answer

deskVars == <<ticket, resolution, complaint, page, written, handled, lastWord,
              believes, verdicts, hasty, interrupted, repeated>>

NoPage == [on |-> "nothing", read |-> "open", seen |-> 0]

DeskInit ==
  /\ ticket = "open" /\ resolution = FALSE /\ complaint = "pending"
  /\ page = [a \in Agents |-> NoPage]
  /\ written = 0 /\ handled = 0 /\ lastWord = "customer"
  /\ believes = FALSE /\ verdicts = 0
  /\ hasty = FALSE /\ interrupted = FALSE /\ repeated = FALSE

-----------------------------------------------------------------------------
(* get_object: the row as it is before the transaction of the service.     *)
OpenTicket(a) ==
  /\ page[a] = NoPage
  /\ page' = [page EXCEPT ![a] = [on |-> "ticket", read |-> ticket, seen |-> written]]
  /\ UNCHANGED <<ticket, resolution, complaint, written, handled, lastWord,
                  believes, verdicts, hasty, interrupted, repeated>>

OpenComplaint(a) ==
  /\ page[a] = NoPage
  /\ page' = [page EXCEPT ![a] = [on |-> "complaint", read |-> complaint, seen |-> 0]]
  /\ UNCHANGED <<ticket, resolution, complaint, written, handled, lastWord,
                  believes, verdicts, hasty, interrupted, repeated>>

Leaves(a) == page' = [page EXCEPT ![a] = NoPage]
Acted(a) == handled' = IF page[a].seen > handled THEN page[a].seen ELSE handled

(* reply: the customer writes, and what was closed is open again.          *)
ClosedAsSeen == {"closed"}                       \* mutant: a resolved ticket stays so
Reopened == TicketTerminal
Reply ==
  /\ written < MaxMessages
  /\ written' = written + 1 /\ lastWord' = "customer"
  /\ ticket' = IF ticket \in Reopened THEN "open" ELSE ticket
  /\ believes' = (believes /\ ticket' = "resolved")
  /\ UNCHANGED <<resolution, complaint, page, handled, verdicts, hasty, interrupted, repeated>>

(* answer: nothing is written of the status when the page read in_progress.*)
Answer(a) ==
  /\ page[a].on = "ticket"
  /\ ticket' = IF page[a].read # "in_progress" THEN "in_progress" ELSE ticket
  /\ lastWord' = "answer" /\ believes' = FALSE
  /\ interrupted' = (page[a].read = "in_progress" /\ ticket # "in_progress")
  /\ Leaves(a) /\ Acted(a)
  /\ UNCHANGED <<resolution, complaint, written, verdicts, hasty, repeated>>

(* set_ticket_status: the row is read again under its lock; resolving asks *)
(* for an explanation, and the customer is told when it was not resolved.  *)
BeforeAsRead(a) == page[a].read                  \* mutant: the row the page read
Before(a) == ticket
set_ticket_status(a, status, explains) ==
  /\ page[a].on = "ticket"
  /\ status = "resolved" => explains \/ resolution
  /\ ticket' = status /\ resolution' = (resolution \/ explains)
  /\ LET tells == status = "resolved" /\ Before(a) # "resolved" IN
     /\ repeated' = (repeated \/ (tells /\ believes))
     /\ believes' = ((believes /\ status = "resolved") \/ tells)
  /\ hasty' = IF status \in TicketTerminal
                THEN page[a].seen < written /\ handled < written ELSE hasty
  /\ lastWord' = "status"
  /\ Leaves(a) /\ Acted(a)
  /\ UNCHANGED <<complaint, written, verdicts, interrupted>>

(* decide_complaint: a verdict is final.                                   *)
decide_complaint(a, status) ==
  /\ page[a].on = "complaint"
  /\ complaint \notin ComplaintTerminal
  /\ complaint' = status
  /\ verdicts' = IF status \in ComplaintTerminal THEN verdicts + 1 ELSE verdicts
  /\ Leaves(a)
  /\ UNCHANGED <<ticket, resolution, written, handled, lastWord, believes,
                  hasty, interrupted, repeated>>

(* A refusal, or a page closed without a gesture.                          *)
ClosePage(a) ==
  /\ page[a] # NoPage /\ Leaves(a)
  /\ UNCHANGED <<ticket, resolution, complaint, written, handled, lastWord,
                  believes, verdicts, hasty, interrupted, repeated>>

-----------------------------------------------------------------------------
DeskNext ==
  \/ Reply
  \/ \E a \in Agents :
       \/ OpenTicket(a) \/ OpenComplaint(a) \/ Answer(a) \/ ClosePage(a)
       \/ \E status \in TicketStatuses, explains \in BOOLEAN :
            set_ticket_status(a, status, explains)
       \/ \E status \in ComplaintStatuses \ {"pending"} : decide_complaint(a, status)

DeskSpec == DeskInit /\ [][DeskNext]_deskVars

-----------------------------------------------------------------------------
DeskTypeOK ==
  /\ ticket \in TicketStatuses /\ resolution \in BOOLEAN
  /\ complaint \in ComplaintStatuses
  /\ page \in [Agents -> [on : {"nothing", "ticket", "complaint"},
                         read : TicketStatuses \cup ComplaintStatuses,
                         seen : 0..MaxMessages]]
  /\ written \in 0..MaxMessages /\ handled \in 0..MaxMessages
  /\ lastWord \in {"customer", "answer", "status"}
  /\ believes \in BOOLEAN /\ verdicts \in Nat
  /\ hasty \in BOOLEAN /\ interrupted \in BOOLEAN /\ repeated \in BOOLEAN

(* "La relance d'un client mecontent n'apparaissait sur aucun ecran": a    *)
(* message no agent has read lies under a closed ticket only when it was   *)
(* closed from a page opened before it.                                    *)
NoMessageIsBuried == ticket \in TicketTerminal /\ handled < written => hasty

(* "Laisser la reponse sous un statut qui dit c'est regle": the desk's     *)
(* last word is under a ticket in progress, unless it was closed while the *)
(* answer was being written; a resolved ticket says how, and the customer  *)
(* is told once, whatever two agents resolve at the same second.           *)
AnswersAreFollowed ==
  /\ lastWord = "answer" => ticket = "in_progress" \/ interrupted
  /\ ticket = "resolved" => resolution
  /\ ~repeated

(* A complaint gets one verdict, and the customer is told that one.        *)
OneVerdict == verdicts = IF complaint \in ComplaintTerminal THEN 1 ELSE 0

DeskHolds == NoMessageIsBuried /\ AnswersAreFollowed /\ OneVerdict
=============================================================================
