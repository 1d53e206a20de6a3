--------------------------- MODULE TelegramNotices ---------------------------
(***************************************************************************)
(* Telegram messages about one online order (telegram-notifications.       *)
(* service.ts, telegram-delivery.service.ts, createTelegramLink).          *)
(*                                                                         *)
(* Events come from the outbox at least once and in any order; a handler   *)
(* reads the request, then sends, then may write.  The order itself        *)
(* (OnlineOrders) appears as the changes that put events into the outbox,  *)
(* up to the remake of a line that was collected (Orders), which goes into *)
(* the session of the same accepted request.  What was said is kept per    *)
(* chat; the rate limiter is one more reason for a send to fail.           *)
(***************************************************************************)
EXTENDS Integers, FiniteSets

CONSTANTS Drinks,  \* the lines that were ordered
          Remakes, \* lines that replace some of them
          Chats

VARIABLES order,       \* OnlineOrderRequest.status
          drink,       \* serveStatus of the lines (see Served)
          chat,        \* telegramChatId
          linkToken,   \* whether a link of createTelegramLink is valid
          readyQueued, \* telegramReadyQueuedAt, by the remakes seen then; {} is null
          windowOpen,  \* the order can still be accessed by its customer
          event,       \* events in the outbox
          handler,     \* events being handled, with the chat and the remakes read
          ack,         \* acknowledgements of /start under way
          told,        \* what a chat was told since it was linked
          unlucky      \* chats an acknowledgement or a rejected message missed

vars == <<order, drink, chat, linkToken, readyQueued, windowOpen, event, handler,
          ack, told, unlucky>>
progress == <<order, drink, windowOpen>>
Lines == Drinks \cup Remakes

NoChat == "none"
StaffChat == "staff"
\* EXPIRED is PENDING after expiresAt; WITHDRAWN is CANCELLED while PENDING.
Status == {"PENDING", "EXPIRED", "WITHDRAWN", "ACCEPTED", "REJECTED", "CANCELLED"}
Event == {"STAFF", "ACCEPTED", "REJECTED", "CANCELLED", "READY"} \cup Lines

Init ==
  /\ order = "PENDING" /\ drink = [d \in Lines |-> IF d \in Drinks THEN "COOKING" ELSE "NONE"]
  /\ chat = NoChat /\ linkToken = FALSE /\ readyQueued = {} /\ windowOpen = TRUE
  /\ event = {"STAFF"} /\ handler = {} /\ ack = {}
  /\ told = {} /\ unlucky = {}

\* COOKING is PENDING, too; TAKEN is SERVED with no readyAt, of a remake that
\* was handed over from COOKING.
Served == {"SERVED", "TAKEN"}
\* The test of queueReady, notifyReady and the acknowledgement, of all lines
\* of the session: one that is cancelled fails it, too.
AllReady == /\ \E d \in Lines : drink[d] = "READY"
            /\ \A d \in Lines : drink[d] \in Served \cup {"NONE", "READY"}

-----------------------------------------------------------------------------
(* The order                                                               *)

Becomes(status, events) ==
  /\ order' = status /\ event' = event \cup events
  /\ UNCHANGED <<drink, chat, linkToken, readyQueued, windowOpen, handler, ack, told, unlucky>>
\* enqueueTelegramStatus, in the transaction of the decision; a customer who
\* withdraws a pending request is not told so.
Decide ==
  \/ order = "PENDING" /\ Becomes("ACCEPTED", {"ACCEPTED"})
  \/ order = "PENDING" /\ Becomes("REJECTED", {"REJECTED"})
  \/ order = "PENDING" /\ Becomes("EXPIRED", {})
  \/ order = "PENDING" /\ Becomes("WITHDRAWN", {})
  \/ /\ order = "ACCEPTED" /\ \A d \in Drinks : drink[d] # "SERVED"
     /\ Becomes("CANCELLED", {"CANCELLED"})
\* ITEM_STATUS_UPDATED is the drink's event.
Finish(d) ==
  /\ order = "ACCEPTED" /\ drink[d] = "COOKING"
  /\ drink' = [drink EXCEPT ![d] = "READY"] /\ event' = event \cup {d}
  /\ UNCHANGED <<order, chat, linkToken, readyQueued, windowOpen, handler, ack, told, unlucky>>
Collect ==
  /\ order = "ACCEPTED" /\ \A d \in Drinks : drink[d] = "READY"
  /\ drink' = [d \in Lines |-> IF d \in Drinks THEN "SERVED" ELSE drink[d]]
  /\ UNCHANGED <<order, chat, linkToken, readyQueued, windowOpen, event, handler, ack, told, unlucky>>
Remade == {r \in Remakes : drink[r] # "NONE"}
\* remakeItem adds a line, once for each that was collected; ...
RemakeItem(r) ==
  /\ \A d \in Drinks : drink[d] = "SERVED"
  /\ drink[r] = "NONE" /\ Cardinality(Remade) < Cardinality(Drinks)
  /\ drink' = [drink EXCEPT ![r] = "COOKING"]
  /\ UNCHANGED <<order, chat, linkToken, readyQueued, windowOpen, event, handler, ack, told, unlucky>>
\* ... it is handed over without a pickup code, or cancelled.
HandOver(r) ==
  /\ drink[r] \in {"COOKING", "READY"}
  /\ drink' = [drink EXCEPT ![r] = IF @ = "READY" THEN "SERVED" ELSE "TAKEN"]
  /\ UNCHANGED <<order, chat, linkToken, readyQueued, windowOpen, event, handler, ack, told, unlucky>>
CancelRemake(r) ==
  /\ drink[r] \in {"COOKING", "READY"}
  /\ drink' = [drink EXCEPT ![r] = "CANCELLED"] /\ event' = event \cup {r}
  /\ UNCHANGED <<order, chat, linkToken, readyQueued, windowOpen, handler, ack, told, unlucky>>
WindowCloses ==
  /\ windowOpen /\ windowOpen' = FALSE
  /\ UNCHANGED <<order, drink, chat, linkToken, readyQueued, event, handler, ack, told, unlucky>>

-----------------------------------------------------------------------------
(* Linking a chat                                                          *)

Linkable == windowOpen /\ chat = NoChat /\ order \in {"PENDING", "ACCEPTED"}
CreateTelegramLink ==
  /\ Linkable
  /\ linkToken' = TRUE
  /\ UNCHANGED <<progress, chat, readyQueued, event, handler, ack, told, unlucky>>
LinkExpires ==
  /\ linkToken
  /\ linkToken' = FALSE
  /\ UNCHANGED <<progress, chat, readyQueued, event, handler, ack, told, unlucky>>
\* receiveWebhook: /start with the token, ...
Start(c) ==
  /\ linkToken /\ Linkable
  /\ chat' = c /\ linkToken' = FALSE
  /\ ack' = ack \cup {[to |-> c, says |-> "unread"]}
  /\ told' = {t \in told : t[1] # c} /\ unlucky' = unlucky \ {c}
  /\ UNCHANGED <<progress, readyQueued, event, handler>>
\* Mutant: the acknowledgement does not look at the lines.
AcceptedIsAll == IF order = "ACCEPTED" THEN "ACCEPTED" ELSE "CHANGED"
\* ... what it says, of the order as it is read after the link, ...
Confirmation == CASE order = "ACCEPTED" -> IF AllReady THEN "READY" ELSE "ACCEPTED"
                  [] order \in {"PENDING", "EXPIRED"} -> "PENDING"
                  [] OTHER -> "CHANGED"
ReadForAck(a) ==
  /\ a.says = "unread"
  /\ ack' = (ack \ {a}) \cup {[a EXCEPT !.says = Confirmation]}
  /\ UNCHANGED <<progress, chat, linkToken, readyQueued, event, handler, told, unlucky>>
\* ... and acknowledge, which swallows a failure to send.
Acknowledge(a, sent) ==
  /\ a.says # "unread" /\ ack' = ack \ {a}
  /\ told' = IF sent THEN told \cup {<<a.to, a.says>>} ELSE told
  /\ unlucky' = IF sent THEN unlucky ELSE unlucky \cup {a.to}
  /\ UNCHANGED <<progress, chat, linkToken, readyQueued, event, handler>>
\* unsubscribeChat, and the webhook's /stop.
Unsubscribe(c) == chat' = IF chat = c THEN NoChat ELSE chat
Stop(c) ==
  /\ chat = c /\ Unsubscribe(c)
  /\ UNCHANGED <<progress, linkToken, readyQueued, event, handler, ack, told, unlucky>>

-----------------------------------------------------------------------------
(* Handling an event                                                       *)

\* Whether the handler of e has something to send, given what it reads.
Relevant(e) ==
  CASE e = "STAFF" -> order = "PENDING"
    [] e = "READY" -> windowOpen /\ chat # NoChat /\ order = "ACCEPTED" /\ AllReady
    [] e \in Lines -> chat # NoChat /\ order = "ACCEPTED" /\ readyQueued = {} /\ AllReady
    [] OTHER -> /\ windowOpen /\ chat # NoChat /\ order = e
                /\ e = "ACCEPTED" => readyQueued = {}
Receiver(e) == IF e = "STAFF" THEN StaffChat ELSE chat
Handled == {h.of : h \in handler}
Read(e) ==
  /\ e \in event \ Handled
  /\ IF Relevant(e)
     THEN handler' = handler \cup {[of |-> e, to |-> Receiver(e), made |-> Remade]} /\ UNCHANGED event
     ELSE event' = event \ {e} /\ UNCHANGED handler
  /\ UNCHANGED <<progress, chat, linkToken, readyQueued, ack, told, unlucky>>

\* The second half of queueReady: the guarded update and the READY event.
QueueReady(h) ==
  /\ h.of \in Lines /\ handler' = handler \ {h}
  /\ IF order = "ACCEPTED" /\ chat = h.to /\ readyQueued = {}
     THEN readyQueued' = {h.made} /\ event' = (event \ {h.of}) \cup {"READY"}
     ELSE event' = event \ {h.of} /\ UNCHANGED readyQueued
  /\ UNCHANGED <<progress, chat, linkToken, ack, told, unlucky>>

Notices(h) == h.of \notin Lines
\* send: the message arrives; the outbox may not hear of it and repeat it, ...
Delivered(h, repeat) ==
  /\ Notices(h) /\ handler' = handler \ {h}
  /\ told' = told \cup {<<h.to, h.of>>}
  /\ event' = IF repeat THEN event ELSE event \ {h.of}
  /\ UNCHANGED <<progress, chat, linkToken, readyQueued, ack, unlucky>>
\* ... it fails for now (rate limit, transport, a crash), ...
Deferred(h) ==
  /\ handler' = handler \ {h}
  /\ UNCHANGED <<progress, chat, linkToken, readyQueued, event, ack, told, unlucky>>
\* ... the chat has blocked the bot (403), ...
Blocked(h) ==
  /\ Notices(h) /\ handler' = handler \ {h} /\ event' = event \ {h.of}
  /\ IF h.of = "STAFF" THEN unlucky' = unlucky \cup {StaffChat} /\ UNCHANGED chat
     ELSE Unsubscribe(h.to) /\ UNCHANGED unlucky
  /\ UNCHANGED <<progress, linkToken, readyQueued, ack, told>>
\* ... or it is rejected for good, and the event is a dead letter.
Rejected(h) ==
  /\ Notices(h) /\ handler' = handler \ {h} /\ event' = event \ {h.of}
  /\ unlucky' = unlucky \cup {h.to}
  /\ UNCHANGED <<progress, chat, linkToken, readyQueued, ack, told>>

Next ==
  \/ Decide \/ Collect \/ WindowCloses \/ CreateTelegramLink \/ LinkExpires
  \/ \E d \in Lines : Finish(d)
  \/ \E r \in Remakes : RemakeItem(r) \/ HandOver(r) \/ CancelRemake(r)
  \/ \E c \in Chats : Start(c) \/ Stop(c)
  \/ \E a \in ack : ReadForAck(a) \/ \E sent \in BOOLEAN : Acknowledge(a, sent)
  \/ \E e \in event : Read(e)
  \/ \E h \in handler : \/ QueueReady(h) \/ Deferred(h) \/ Blocked(h) \/ Rejected(h)
                        \/ \E repeat \in BOOLEAN : Delivered(h, repeat)

Spec == Init /\ [][Next]_vars

-----------------------------------------------------------------------------
Quiet == event = {} /\ handler = {} /\ ack = {}
Said(c, m) == <<c, m>> \in told \/ c \in unlucky
\* READY was not queued before the last remake, and none was handed over early.
Announced == readyQueued \subseteq {Remade} /\ \A r \in Remakes : drink[r] # "TAKEN"
\* When nothing is on its way, the linked customer of an accepted order whose
\* drinks are all ready was told so, and of one that was refused or cancelled
\* that it was, whenever he linked, stopped or linked again, except for a lost
\* acknowledgement or a dead letter; the staff was told of what they have to
\* review; and READY is never said of an order before its drinks were.  Two
\* things keep the news of a remake back: READY is queued once for a request,
\* and what is handed over before it was ready has no event that counts.
\* (queueReady, notifyReady, notifyStatus, notifyStaff, receiveWebhook.)
CustomerIsTold ==
  /\ order \in Status /\ event \subseteq Event
  /\ Quiet /\ windowOpen /\ chat # NoChat =>
       /\ order = "ACCEPTED" /\ AllReady /\ Announced => Said(chat, "READY")
       /\ order \in {"REJECTED", "CANCELLED"} => Said(chat, order)
  /\ Quiet /\ order = "PENDING" => Said(StaffChat, "STAFF")
  /\ (\E c \in Chats : <<c, "READY">> \in told) => \A d \in Drinks : drink[d] # "COOKING"
=============================================================================
