---------------------------- MODULE Notifications ----------------------------
(***************************************************************************)
(* notification.service: messages asked for by staff, by domain events and *)
(* by the scans of the job runner, the marketing preferences they respect, *)
(* and retries.  A message is recorded, handed to its channel and marked   *)
(* in three separate steps, and nothing takes up one that was cut short.   *)
(***************************************************************************)
EXTENDS Naturals, FiniteSets

CONSTANTS Subscribers,   \* customers
          NoSubscriber,  \* a message to the shop itself
          Channels,      \* bound: channels a behaviour uses
          SentByStaff,   \* bound: notification types staff sends by hand
          Messages,      \* bound: ids of the rows of notifications in one behaviour
          Tasks,         \* asynchronous calls in flight at the same time
          MaxDeliveries  \* bound: deliveries of one message

NotificationTypes ==
  {"ORDER_CONFIRMED", "PAYMENT_SUCCESS", "ORDER_SHIPPED", "ORDER_DELIVERED", "REWARD_EARNED", "REWARD_EXPIRING",
   "REFERRAL_SUCCESS", "BACK_IN_STOCK", "NEW_DROP", "LOW_STOCK_ALERT", "ABANDONED_CART", "REVIEW_REMINDER"}
MARKETING_TYPES == {"BACK_IN_STOCK", "NEW_DROP", "ABANDONED_CART", "REVIEW_REMINDER"}

ASSUME NotificationsAssumption ==
  /\ NoSubscriber \notin Subscribers
  /\ Channels \subseteq {"EMAIL", "SMS", "WHATSAPP", "PUSH"} /\ "EMAIL" \in Channels
  /\ SentByStaff \subseteq NotificationTypes
  /\ MaxDeliveries \in Nat /\ Messages \subseteq Nat

VARIABLES preference, \* per customer: the channels it takes marketing on, and marketing_opt_out_at
          message,    \* per id: its row
          task,       \* per call: the step it is at
          delivered,  \* history, per message: how often its channel took it
          agreed,     \* history: messages the customer took at the moment the service looked
          doubtful    \* history: messages that were retried during a delivery, or whose
                      \* delivery was not recorded

notificationsVars == <<preference, message, task, delivered, agreed, doubtful>>
trail == <<delivered, agreed, doubtful>>

OptionalChannels == {"EMAIL", "SMS", "WHATSAPP"} \intersect Channels
Preference == [takes : SUBSET OptionalChannels, optedOut : BOOLEAN]

MessageRow == [status : {"PENDING", "SENT", "FAILED", "CANCELLED"}]
NoMessage == [status |-> "ABSENT"]
Ask == [to : Subscribers \union {NoSubscriber}, marketing : BOOLEAN, channel : Channels, forced : BOOLEAN]

NoTask == [at |-> "none"]
TaskState ==
  {NoTask}
    \union [at : {"look"}, ask : Ask]
    \union [at : {"cancelled", "pending"}, allowed : BOOLEAN]   \* about to insert its row
    \union [at : {"send", "sent", "failed"}, id : Messages, retry : BOOLEAN]
    \union [at : {"prefer"}, to : Subscribers, copy : Preference, takes : SUBSET OptionalChannels]

NotificationsTypeOK ==
  /\ preference \in [Subscribers -> Preference]
  /\ message \in [Messages -> MessageRow \union {NoMessage}]
  /\ task \in [Tasks -> TaskState]
  /\ delivered \in [Messages -> 0..MaxDeliveries]
  /\ agreed \in SUBSET Messages /\ doubtful \in SUBSET Messages

\* marketingEmail and marketingSms default to true, marketingWhatsapp to false.
NotificationsInit ==
  /\ preference = [c \in Subscribers |-> [takes |-> {"EMAIL", "SMS"} \intersect Channels, optedOut |-> FALSE]]
  /\ message = [n \in Messages |-> NoMessage]
  /\ task = [s \in Tasks |-> NoTask]
  /\ delivered = [n \in Messages |-> 0]
  /\ agreed = {} /\ doubtful = {}

\* Rows take the next id.
NextMessage ==
  LET free == {n \in Messages : message[n] = NoMessage} IN {n \in free : \A m \in free : n <= m}

Step(s, next) == task' = [task EXCEPT ![s] = next]

-----------------------------------------------------------------------------
(* Who asks for a message.                                                 *)

\* The bound: nobody asks for a message that no row is left for.
RowLeft ==
  Cardinality({n \in Messages : message[n] # NoMessage})
    + Cardinality({s \in Tasks : task[s].at \in {"look", "cancelled", "pending"}}) < Cardinality(Messages)

Asks(s, to, type, channel, forced) ==
  /\ task[s] = NoTask /\ RowLeft
  /\ Step(s, [at |-> "look",
              ask |-> [to |-> to, marketing |-> type \in MARKETING_TYPES, channel |-> channel, forced |-> forced]])
  /\ UNCHANGED <<preference, message, trail>>

\* POST /notifications, and the listeners of the events the orders module would raise.
SendByHand(s) ==
  \E to \in Subscribers \union {NoSubscriber}, type \in SentByStaff, channel \in Channels, forced \in BOOLEAN :
    Asks(s, to, type, channel, forced)

\* The scans of the job runner: what they find, they find again at the next run.
RunRewardExpirationJob(s) == \E c \in Subscribers : Asks(s, c, "REWARD_EXPIRING", "EMAIL", FALSE)

RunAbandonedCartJob(s) == \E c \in Subscribers : Asks(s, c, "ABANDONED_CART", "EMAIL", FALSE)

RunLowStockAlertJob(s) == Asks(s, NoSubscriber, "LOW_STOCK_ALERT", "EMAIL", TRUE)

RunReviewReminderJob(s) == \E c \in Subscribers : Asks(s, c, "REVIEW_REMINDER", "EMAIL", FALSE)

-----------------------------------------------------------------------------
(* sendNotification                                                        *)

\* Marketing is held back from a customer who opted out of everything, or of the
\* channel; push messages have no switch of their own.
TakesMarketing(c, channel) ==
  /\ ~preference[c].optedOut
  /\ channel \in OptionalChannels => channel \in preference[c].takes

LookUpCustomer(s) ==
  LET ask == task[s].ask
      bound == ask.marketing /\ ~ask.forced /\ ask.to # NoSubscriber
      allowed == bound => TakesMarketing(ask.to, ask.channel)
  IN
  /\ task[s].at = "look"
  /\ Step(s, [at |-> IF allowed THEN "pending" ELSE "cancelled", allowed |-> allowed])
  /\ UNCHANGED <<preference, message, trail>>

\* The row is inserted: CANCELLED is where it ends, PENDING goes to its channel.
RecordMessage(s) ==
  /\ task[s].at \in {"cancelled", "pending"}
  /\ \E n \in NextMessage :
       /\ message' = [message EXCEPT ![n] =
            [status |-> IF task[s].at = "pending" THEN "PENDING" ELSE "CANCELLED"]]
       /\ agreed' = IF task[s].allowed THEN agreed \union {n} ELSE agreed
       /\ Step(s, IF task[s].at = "pending" THEN [at |-> "send", id |-> n, retry |-> FALSE] ELSE NoTask)
  /\ UNCHANGED <<preference, delivered, doubtful>>

Deliver(s) ==
  LET n == task[s].id IN
  /\ task[s].at = "send"
  /\ \/ /\ delivered[n] < MaxDeliveries
        /\ delivered' = [delivered EXCEPT ![n] = @ + 1]
        /\ Step(s, [task[s] EXCEPT !.at = "sent"])
     \/ /\ Step(s, [task[s] EXCEPT !.at = "failed"])
        /\ UNCHANGED delivered
  /\ UNCHANGED <<preference, message, agreed, doubtful>>

\* The outcome is recorded.
MarkSent(s) ==
  /\ task[s].at = "sent"
  /\ message' = [message EXCEPT ![task[s].id].status = "SENT"]
  /\ Step(s, NoTask)
  /\ UNCHANGED <<preference, trail>>

\* If SENT cannot be written, a retry records FAILED; a first delivery, which returns
\* the write without awaiting it inside its try, leaves the row PENDING.
MarkSentFails(s) ==
  /\ task[s].at = "sent"
  /\ Step(s, IF task[s].retry THEN [task[s] EXCEPT !.at = "failed"] ELSE NoTask)
  /\ doubtful' = doubtful \union {task[s].id}
  /\ UNCHANGED <<preference, message, delivered, agreed>>

MarkFailed(s) ==
  /\ task[s].at = "failed"
  /\ message' = [message EXCEPT ![task[s].id].status = "FAILED"]
  /\ Step(s, NoTask)
  /\ UNCHANGED <<preference, trail>>

\* (Slip: a sent message can be sent again.)
Retryable_Sent(n) == message[n].status \in {"PENDING", "FAILED", "SENT"}

\* (Slip: so can one that was held back.)
Retryable_Cancelled(n) == message[n].status \in {"PENDING", "FAILED", "CANCELLED"}

\* Neither sent nor cancelled; a message still on its way may be retried.
Retryable(n) == message[n].status \in {"PENDING", "FAILED"}

InFlight(n) == \E s \in Tasks : task[s].at \in {"send", "sent", "failed"} /\ task[s].id = n

\* retryNotification goes straight to the channel, whatever the customer takes by now.
RetryNotification(s, n) ==
  /\ task[s] = NoTask
  /\ Retryable(n)
  /\ Step(s, [at |-> "send", id |-> n, retry |-> TRUE])
  /\ doubtful' = IF InFlight(n) THEN doubtful \union {n} ELSE doubtful
  /\ UNCHANGED <<preference, message, delivered, agreed>>

\* The process dies, and its events and calls with it.
TaskDies(s) ==
  /\ task[s] # NoTask
  /\ Step(s, NoTask)
  /\ doubtful' = IF task[s].at \in {"sent", "failed"} THEN doubtful \union {task[s].id} ELSE doubtful
  /\ UNCHANGED <<preference, message, delivered, agreed>>

-----------------------------------------------------------------------------
(* customer.service: setMarketingPreferences                               *)

BeginPreferences(s, c) ==
  /\ task[s] = NoTask
  /\ \E takes \in SUBSET OptionalChannels :
       Step(s, [at |-> "prefer", to |-> c, copy |-> preference[c], takes |-> takes])
  /\ UNCHANGED <<preference, message, trail>>

\* Switches that differ from the copy are written; the time of an opt-out always does.
SetMarketingPreferences(s) ==
  LET c == task[s].to
      copy == task[s].copy
      changed == {ch \in OptionalChannels : (ch \in task[s].takes) # (ch \in copy.takes)}
      out == task[s].takes = {}
  IN
  /\ task[s].at = "prefer"
  /\ preference' = [preference EXCEPT ![c] =
       [takes |-> (@.takes \ changed) \union (changed \intersect task[s].takes),
        optedOut |-> IF out \/ copy.optedOut THEN out ELSE @.optedOut]]
  /\ Step(s, NoTask)
  /\ UNCHANGED <<message, trail>>

NotificationsNext ==
  \E s \in Tasks :
    \/ SendByHand(s)
    \/ RunRewardExpirationJob(s) \/ RunAbandonedCartJob(s) \/ RunLowStockAlertJob(s) \/ RunReviewReminderJob(s)
    \/ LookUpCustomer(s) \/ RecordMessage(s) \/ Deliver(s) \/ MarkSent(s) \/ MarkSentFails(s) \/ MarkFailed(s)
    \/ \E n \in Messages : RetryNotification(s, n)
    \/ TaskDies(s)
    \/ \E c \in Subscribers : BeginPreferences(s, c)
    \/ SetMarketingPreferences(s)

NotificationsSpec == NotificationsInit /\ [][NotificationsNext]_notificationsVars

-----------------------------------------------------------------------------

\* Marketing that was not forced reaches nobody who had opted out, of everything or of
\* its channel, when the service looked; one that was held back stays so through every
\* retry (notification.service.js:62-127, 167-171).
OptOutsAreRespected == \A n \in Messages : delivered[n] > 0 => n \in agreed

\* A message reaches its recipient once, and its status says whether it did.  The
\* exceptions are a retry while a delivery of it was under way, and a delivery whose
\* outcome could not be recorded (notification.service.js:129-205).
DeliveredOnce ==
  \A n \in Messages \ doubtful :
    /\ delivered[n] <= 1
    /\ message[n].status = "SENT" => delivered[n] = 1
    /\ message[n].status \in {"FAILED", "CANCELLED"} /\ ~InFlight(n) => delivered[n] = 0
=============================================================================
