-------------------------------- MODULE Notices --------------------------------
(***************************************************************************)
(* What follows an event of the in-process bus (event-bus.js): the audit   *)
(* log and the notifications of the employees of the branch, two listeners *)
(* that run asynchronously, each swallowing its own errors, after the      *)
(* request that emitted the event has answered.  Employees meanwhile       *)
(* choose which types they want and read what they were sent               *)
(* (audit-log.subscriptions.js, notification.subscriptions.js and the      *)
(* services and repositories behind them).                                 *)
(*                                                                         *)
(* Events are numbered in the order in which they are emitted.  Socket     *)
(* broadcasts keep no state and are left out.                              *)
(***************************************************************************)
EXTENDS Integers, FiniteSets

CONSTANTS
  Colleague,  \* active employees of the branch
  NoticeType, \* types of events
  MaxEvents   \* bound: events ever emitted

NoType == "none"

ASSUME NoticesAssumption == MaxEvents \in Nat /\ NoType \notin NoticeType

EventNumber == 1..MaxEvents

VARIABLES
  emitted,     \* type of each event
  audit,       \* audit_logs, and where the listener is
  notifying,   \* the notification listener of each event, and whom it is to notify
  notice,      \* notifications, one per event and employee
  disabled,    \* notification_preferences.disabledTypes
  wantedSince  \* history: who had the event's type enabled at some time since

noticeVars == <<emitted, audit, notifying, notice, disabled, wantedSince>>

\* "before": not emitted yet.
ListenerState == {"before", "start", "chosen", "done", "failed"}

NoticeStatus == {"none", "unread", "read"}

NoticesTypeOK ==
  /\ emitted \in [EventNumber -> NoticeType \cup {NoType}]
  /\ audit \in [EventNumber -> ListenerState \ {"chosen"}]
  /\ notifying \in [EventNumber -> [pc : ListenerState, to : SUBSET Colleague]]
  /\ notice \in [EventNumber -> [Colleague -> NoticeStatus]]
  /\ disabled \in [Colleague -> SUBSET NoticeType]
  /\ wantedSince \in [EventNumber -> SUBSET Colleague]

NoticesInit ==
  /\ emitted = [n \in EventNumber |-> NoType]
  /\ audit = [n \in EventNumber |-> "before"]
  /\ notifying = [n \in EventNumber |-> [pc |-> "before", to |-> {}]]
  /\ notice = [n \in EventNumber |-> [e \in Colleague |-> "none"]]
  /\ disabled = [e \in Colleague |-> {}]
  /\ wantedSince = [n \in EventNumber |-> {}]

Wants(e, type) == type \notin disabled[e]

\* Both listeners start within the emit.  An event of an order is for everybody, one of a
\* conversation for the employee it is assigned to.
Emit(n, type, audience) ==
  /\ emitted[n] = NoType
  /\ \A m \in EventNumber : m < n => emitted[m] # NoType
  /\ emitted' = [emitted EXCEPT ![n] = type]
  /\ audit' = [audit EXCEPT ![n] = "start"]
  /\ notifying' = [notifying EXCEPT ![n] = [pc |-> "start", to |-> audience]]
  /\ wantedSince' = [wantedSince EXCEPT ![n] = {e \in Colleague : Wants(e, type)}]
  /\ UNCHANGED <<notice, disabled>>

Record(n) ==
  /\ audit[n] = "start"
  /\ audit' = [audit EXCEPT ![n] = "done"]
  /\ UNCHANGED <<emitted, notifying, notice, disabled, wantedSince>>

RecordFails(n) ==
  /\ audit[n] = "start"
  /\ audit' = [audit EXCEPT ![n] = "failed"]
  /\ UNCHANGED <<emitted, notifying, notice, disabled, wantedSince>>

\* Seeded fault: the preferences are not looked at.
EveryRecipient(n) == notifying[n].to

Recipients(n) == {e \in notifying[n].to : Wants(e, emitted[n])}

ReadPreferences(n) ==
  /\ notifying[n].pc = "start"
  /\ notifying' = [notifying EXCEPT ![n] =
       [pc |-> IF Recipients(n) = {} THEN "done" ELSE "chosen", to |-> Recipients(n)]]
  /\ UNCHANGED <<emitted, audit, notice, disabled, wantedSince>>

CreateNotices(n) ==
  /\ notifying[n].pc = "chosen"
  /\ notice' = [notice EXCEPT ![n] =
       [e \in Colleague |-> IF e \in notifying[n].to THEN "unread" ELSE @[e]]]
  /\ notifying' = [notifying EXCEPT ![n].pc = "done"]
  /\ UNCHANGED <<emitted, audit, disabled, wantedSince>>

NotifyingFails(n) ==
  /\ notifying[n].pc \in {"start", "chosen"}
  /\ notifying' = [notifying EXCEPT ![n].pc = "failed"]
  /\ UNCHANGED <<emitted, audit, notice, disabled, wantedSince>>

MarkRead(n, e) ==
  /\ notice[n][e] # "none"
  /\ notice' = [notice EXCEPT ![n][e] = "read"]
  /\ UNCHANGED <<emitted, audit, notifying, disabled, wantedSince>>

MarkAllRead(e) ==
  /\ notice' = [n \in EventNumber |->
       [notice[n] EXCEPT ![e] = IF @ = "unread" THEN "read" ELSE @]]
  /\ UNCHANGED <<emitted, audit, notifying, disabled, wantedSince>>

UpdatePreferences(e, types) ==
  /\ disabled' = [disabled EXCEPT ![e] = types]
  /\ wantedSince' = [n \in EventNumber |->
       IF emitted[n] \in NoticeType \ types THEN wantedSince[n] \cup {e} ELSE wantedSince[n]]
  /\ UNCHANGED <<emitted, audit, notifying, notice>>

\* Whatever the listeners had left to do is lost.
ProcessDies ==
  /\ audit' = [n \in EventNumber |-> IF audit[n] = "start" THEN "failed" ELSE audit[n]]
  /\ notifying' = [n \in EventNumber |->
       IF notifying[n].pc \in {"start", "chosen"} THEN [notifying[n] EXCEPT !.pc = "failed"]
       ELSE notifying[n]]
  /\ UNCHANGED <<emitted, notice, disabled, wantedSince>>

NoticesStep ==
  \/ \E n \in EventNumber :
       \/ \E type \in NoticeType, audience \in {Colleague} \cup {{e} : e \in Colleague} :
            Emit(n, type, audience)
       \/ Record(n) \/ RecordFails(n)
       \/ ReadPreferences(n) \/ CreateNotices(n) \/ NotifyingFails(n)
       \/ \E e \in Colleague : MarkRead(n, e)
  \/ \E e \in Colleague :
       MarkAllRead(e) \/ \E types \in SUBSET NoticeType : UpdatePreferences(e, types)
  \/ ProcessDies

-----------------------------------------------------------------------------
(* Properties *)

\* Nobody is notified of an event whose type they had disabled all the time since it
\* happened, although preferences are read before the notifications are written.
OnlyWantedNotices ==
  \A n \in EventNumber : {e \in Colleague : notice[n][e] # "none"} \subseteq wantedSince[n]
=============================================================================
