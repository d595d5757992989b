--------------------------- MODULE DrainedChannel ---------------------------
(***************************************************************************)
(* A buffered channel that nobody waits for, and its worker, which empties *)
(* the channel once when the process is told to stop: the shape of the     *)
(* analytics queue (utils/analytics.go, use-cases/handle-events) and of    *)
(* the asynchronous logger (utils/logger.go).  What a sender does when the *)
(* channel is full is its own affair.  An item is known by whether it was  *)
(* sent before or after the context was cancelled.                         *)
(***************************************************************************)
EXTENDS Naturals, Sequences

CONSTANT Size  \* capacity of the channel

VARIABLES
  stopping, \* the context is cancelled
  chan,     \* the channel
  hand,     \* the item the worker is processing, or none
  worker    \* where its loop is

Items == {"early", "late"}

ChannelTypeOK ==
  /\ chan \in Seq(Items) /\ Len(chan) <= Size
  /\ hand \in Items \cup {"none"}
  /\ worker \in {"running", "draining", "stopped"}

ChannelInit == chan = <<>> /\ hand = "none" /\ worker = "running"

IsFull == Len(chan) >= Size

\* The case "channel <- item" of the sender's select.
TrySend ==
  /\ ~IsFull
  /\ chan' = Append(chan, IF stopping THEN "late" ELSE "early")
  /\ UNCHANGED <<hand, worker>>

\* The worker takes the next item, in its loop or while it drains.
Receive ==
  /\ worker # "stopped" /\ hand = "none" /\ chan # <<>>
  /\ hand' = Head(chan) /\ chan' = Tail(chan)
  /\ UNCHANGED worker

Process ==
  /\ hand # "none" /\ hand' = "none"
  /\ UNCHANGED <<chan, worker>>

\* The select of the loop finds the context done.
NoticeStop ==
  /\ worker = "running" /\ hand = "none" /\ stopping
  /\ worker' = "draining"
  /\ UNCHANGED <<chan, hand>>

\* A worker that returns on cancellation, like that of the deferred writes.
StopAtOnce ==
  /\ worker = "draining" /\ hand = "none"
  /\ worker' = "stopped"
  /\ UNCHANGED <<chan, hand>>

\* The drain finds the channel empty, and the worker returns.
StopEmpty ==
  /\ worker = "draining" /\ hand = "none" /\ chan = <<>>
  /\ worker' = "stopped"
  /\ UNCHANGED <<chan, hand>>

\* Nothing is in the channel or in the worker's hand.
Drained == chan = <<>> /\ hand = "none"

\* Everything accepted before the cancellation has been processed when the worker returns;
\* an item accepted later may be left behind.
EarlyIsDrained ==
  worker = "stopped" => hand = "none" /\ \A i \in DOMAIN chan : chan[i] = "late"

=============================================================================
