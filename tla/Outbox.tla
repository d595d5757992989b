------------------------------- MODULE Outbox -------------------------------
(***************************************************************************)
(* What the broadcast scheduler promises, without its tables, pages, runs  *)
(* and clocks: an outbox of messages delivered one at a time, never while  *)
(* they are not in the outbox, and not again unless a delivery was unheard *)
(* or forgotten or the message was put in anew.  It does not promise a     *)
(* delivery: Close takes any message out undelivered.  That a row is       *)
(* closed only for cause, and that a due row is dealt with, are properties *)
(* of BroadcastRun itself.  BroadcastRun implements this specification.    *)
(***************************************************************************)
EXTENDS Naturals

CONSTANT Rows  \* the messages, one per broadcast and chat

VARIABLES
  open,   \* messages to be delivered
  inHand, \* the message that was delivered and not yet taken out: one or none
  sent    \* times each message was delivered

outboxVars == <<open, inHand, sent>>

OutboxInit ==
  /\ open = {} /\ inHand = {}
  /\ sent = [r \in Rows |-> 0]

\* Messages enter, for the first time or again, at any moment.
Put ==
  /\ open' \in SUBSET Rows /\ open \subseteq open'
  /\ UNCHANGED <<inHand, sent>>

Delivery(r) ==
  /\ inHand = {} /\ r \in open
  /\ sent' = [sent EXCEPT ![r] = @ + 1]
  /\ UNCHANGED open

\* A delivery whose success is known: nothing else happens to any message before it is
\* taken out or forgotten, except that others enter.
Deliver(r) == Delivery(r) /\ inHand' = {r}

\* A delivery whose success nobody learns: the message stays, and is delivered again.
DeliverUnheard(r) == Delivery(r) /\ inHand' = {}

TakeOut ==
  /\ inHand # {} /\ inHand' = {}
  /\ open' = open \ inHand
  /\ UNCHANGED sent

\* A crash between the delivery and taking out.
Forget ==
  /\ inHand # {} /\ inHand' = {}
  /\ UNCHANGED <<open, sent>>

\* Messages nobody wants any more, or that cannot be delivered, are taken out undelivered.
Close ==
  /\ inHand = {} /\ inHand' = {}
  /\ open' \subseteq open
  /\ UNCHANGED sent

OutboxNext ==
  \/ Put \/ TakeOut \/ Forget \/ Close
  \/ \E r \in Rows : Deliver(r) \/ DeliverUnheard(r)

OutboxSpec == OutboxInit /\ [][OutboxNext]_outboxVars

=============================================================================
