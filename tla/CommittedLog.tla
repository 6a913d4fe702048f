------------------------------ MODULE CommittedLog ------------------------------
(***************************************************************************)
(* What a Kafka partition promises to those who read it and to acks=all    *)
(* producers, whatever its brokers do: the part of the log below the high  *)
(* watermark only ever grows at its end, and each request is answered      *)
(* once, with success only when its record is in that part.  A topic that  *)
(* allows unclean election gives up the first half, never the second.      *)
(***************************************************************************)
EXTENDS Integers

VARIABLES
  committed,  \* the entries consumers may read: [offset, record]
  end,        \* the offset after the last of them
  lossy,      \* what was readable may be lost
  acked,      \* records whose request was answered with success
  refused     \* records whose request was answered with an error

Init ==
  /\ committed = {}
  /\ end = 0
  /\ lossy \in BOOLEAN
  /\ acked = {}
  /\ refused = {}

\* Nothing readable is changed or taken back, and the offsets below the new
\* end each hold one record.
Extend ==
  /\ end' \in Nat
  /\ end' >= end
  /\ {e \in committed' : e.offset < end} = committed
  /\ \A e \in committed' : e.offset < end'
  /\ \A e, f \in committed' : e.offset = f.offset => e = f
  /\ \A n \in 0 .. end' - 1 : \E e \in committed' : e.offset = n

\* Answers are final, and a success is true when it is given.
Answer ==
  /\ acked \subseteq acked'
  /\ refused \subseteq refused'
  /\ acked' \cap refused' = {}
  /\ \A record \in acked' \ acked : \E e \in committed' : e.record = record

Next ==
  /\ lossy \/ Extend
  /\ Answer
  /\ UNCHANGED lossy

Spec == Init /\ [][Next]_<<committed, end, lossy, acked, refused>>
=============================================================================
