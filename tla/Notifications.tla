----------------------------- MODULE Notifications -----------------------------
(***************************************************************************)
(* The notifications table: NotificationsService.                          *)
(*                                                                         *)
(* A notification is its recipient and its type; its text, link and        *)
(* subject are left out.  `nr` tells equal ones apart.  A user only marks  *)
(* read what is in his list.                                               *)
(***************************************************************************)
EXTENDS People

CONSTANT MaxNotices   \* bound on the notifications sent

Types == {"assessment_reminder", "submission", "coaching_reminder", "goal",
          "achievement", "system"}

\* NOTIFICATION_CATEGORY_BY_TYPE.
Category ==
  [t \in Types |->
     CASE t \in {"assessment_reminder", "submission"} -> "assessment"
       [] t = "coaching_reminder"                     -> "coaching"
       [] t = "goal"                                  -> "goal"
       [] t \in {"achievement", "system"}             -> "system"]

Categories == {Category[t] : t \in Types}

TypesForCategory(category) == {t \in Types : Category[t] = category}

VARIABLES
  notice,   \* the notifications table
  unread,   \* those without readAt
  sent      \* how many were ever sent; history

Notice == [to: People, type: Types, nr: Nat]

-----------------------------------------------------------------------------
\* create and notifyMany: one row per recipient.
Send(recipients, type) ==
  LET new == {[to |-> u, type |-> type, nr |-> sent] : u \in recipients}
  IN  /\ notice' = notice \cup new
      /\ unread' = unread \cup new
      /\ sent' = sent + 1

SendNothing == UNCHANGED <<notice, unread, sent>>

\* generateForPeriod, submitSelf, submitMentor; what leads to their notices is in
\* PeriodOpening and AssessmentLifecycle.
SendOther(type, u) ==
  /\ sent < MaxNotices
  /\ type \in {"assessment_reminder", "submission", "coaching_reminder"}
  /\ Send({u}, type)

\* findForUser: a type wins over a category; None leaves a filter out.
ListedNotices(u, type, category, read) ==
  {n \in notice :
     /\ n.to = u
     /\ IF type # None THEN n.type = type
        ELSE category # None => n.type \in TypesForCategory(category)
     /\ read # None => read = (n \notin unread)}

\* markRead of a notice from the reader's own list, and markAllRead.
MarkRead(u) ==
  /\ \E category \in Categories :
       \E n \in ListedNotices(u, None, category, FALSE) : unread' = unread \ {n}
  /\ UNCHANGED <<notice, sent>>

MarkAllRead(u) ==
  /\ unread' = unread \ ListedNotices(u, None, None, FALSE)
  /\ UNCHANGED <<notice, sent>>

\* The notifications of a removed user go.
DropNotices(u) ==
  /\ notice' = {n \in notice : n.to # u}
  /\ unread' = {n \in unread : n.to # u}
  /\ sent' = sent

NoticesInit == notice = {} /\ unread = {} /\ sent = 0
=============================================================================
