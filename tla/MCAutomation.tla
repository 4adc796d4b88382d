---------------------------- MODULE MCAutomation ----------------------------
(* Instances of Automation: action 1 is executed by the handler, action 2 is *)
(* scheduled at a fixed time, action 3 is recurrent from the event on, and   *)
(* action 4 is scheduled at a date that cannot be parsed.                    *)
EXTENDS Automation

CONSTANTS t1, t2, p1, w1, e1, e2

MCIds == Events \X Actions

MailTask ==
  [actionType |-> "send_email", configured |-> TRUE, isRecipientDynamic |-> FALSE,
   recipientEmail |-> "address", field |-> "empty", active |-> TRUE]

NotificationTask ==
  [actionType |-> "send_notification", configured |-> TRUE, isRecipientDynamic |-> TRUE,
   recipientEmail |-> "campo", field |-> "plain", active |-> TRUE]

MCTask         == [i \in Ids |-> IF i[2] = 2 THEN MailTask ELSE NotificationTask]
MCScheduleType == [a \in Actions |->
  CASE a = 1 -> "normal" [] a = 3 -> "recurrent" [] OTHER -> "scheduled"]
MCRecurrence   == [i \in Ids |-> IF MCScheduleType[i[2]] = "recurrent" THEN 2 ELSE OneTime]

\* Action 2 asks for time 1, which may or may not be over.
MCTime == [i \in Ids |->
  CASE i[2] = 2 -> 1 [] i[2] = 3 -> Now [] OTHER -> Invalid]

MCTimes == 0..(MaxNow + 2)

\* Every event is an update, and every action is triggered by updates.
MCKind         == [e \in Events |-> "update"]
MCTriggerEvent == [a \in Actions |-> "update"]
=============================================================================
