-------------------------------- MODULE RabbitQueue --------------------------------
(***************************************************************************)
(* The order of a RabbitMQ queue: insertByPriority and requeueByPriority   *)
(* of src/src/brokers/rabbitmq/engine/advanced.ts.                         *)
(*                                                                         *)
(* An entry is a record with a field msg, a message with at least the      *)
(* fields id, priority and redelivered.  `prioritised` says whether the    *)
(* queue has a maxPriority.                                                *)
(***************************************************************************)
EXTENDS Integers, Sequences, FiniteSetsExt

\* The first of these positions of s, or the one after the end.
FirstOf(positions, s) == Min(positions \cup {Len(s) + 1})

InsertedAt(s, i, e) == SubSeq(s, 1, i - 1) \o <<e>> \o SubSeq(s, i, Len(s))

\* Behind its equals, ahead of every lower priority.
InsertByPriority(queue, e, prioritised) ==
  IF ~prioritised THEN Append(queue, e)
  ELSE LET lower == {i \in DOMAIN queue : queue[i].msg.priority < e.msg.priority}
       IN InsertedAt(queue, FirstOf(lower, queue), e)

\* Mutant: a message that comes back jumps the whole queue.
RequeueAtHead(queue, e, prioritised) == <<e>> \o queue

\* Ahead of its equals: the message had reached the front once.
RequeueByPriority(queue, e, prioritised) ==
  IF ~prioritised THEN <<e>> \o queue
  ELSE LET notHigher == {i \in DOMAIN queue : queue[i].msg.priority <= e.msg.priority}
       IN InsertedAt(queue, FirstOf(notHigher, queue), e)

Redelivered(msg) == [msg EXCEPT !.redelivered = TRUE]
=============================================================================
