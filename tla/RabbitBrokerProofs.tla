----------------------------- MODULE RabbitBrokerProofs -----------------------------
(***************************************************************************)
(* What RabbitBroker keeps, for every topology, script and number of       *)
(* messages: the accounting of copies, wakeups and timers.  The types and  *)
(* the lemmas about the operators are those of RabbitTypeProofs.           *)
(***************************************************************************)
EXTENDS RabbitTypeProofs

-----------------------------------------------------------------------------
(* The elements of sequences.                                                *)

LEMMA InBoth ==
  ASSUME NEW A, NEW s \in Seq(A), NEW t \in Seq(A)
  PROVE  /\ \A i \in DOMAIN s : i \in DOMAIN (s \o t) /\ (s \o t)[i] = s[i]
         /\ \A i \in DOMAIN t : Len(s) + i \in DOMAIN (s \o t) /\ (s \o t)[Len(s) + i] = t[i]
         /\ \A i \in DOMAIN (s \o t) : \/ i \in DOMAIN s /\ (s \o t)[i] = s[i]
                                       \/ \E j \in DOMAIN t : (s \o t)[i] = t[j]
<1>1. /\ \A i \in DOMAIN s : i \in DOMAIN (s \o t) /\ (s \o t)[i] = s[i]
      /\ \A i \in DOMAIN t : Len(s) + i \in DOMAIN (s \o t) /\ (s \o t)[Len(s) + i] = t[i]
  OBVIOUS
<1>2. ASSUME NEW i \in DOMAIN (s \o t), i \notin DOMAIN s
      PROVE  \E j \in DOMAIN t : (s \o t)[i] = t[j]
  <2>1. i - Len(s) \in DOMAIN t /\ Len(s) + (i - Len(s)) = i
    BY <1>2
  <2> QED
    BY <1>1, <2>1
<1> QED
  BY <1>1, <1>2

LEMMA InTail ==
  ASSUME NEW A, NEW s \in Seq(A), s # <<>>
  PROVE  /\ Tail(s) \in Seq(A)
         /\ \A i \in DOMAIN Tail(s) : i + 1 \in DOMAIN s /\ Tail(s)[i] = s[i + 1]
         /\ \A i \in DOMAIN s : s[i] # Head(s) => i - 1 \in DOMAIN Tail(s) /\ Tail(s)[i - 1] = s[i]
<1>1. Tail(s) \in Seq(A) /\ Len(Tail(s)) = Len(s) - 1 /\ Head(s) = s[1]
  OBVIOUS
<1>2. \A i \in 1 .. Len(s) - 1 : Tail(s)[i] = s[i + 1]
  OBVIOUS
<1>3. ASSUME NEW i \in DOMAIN s, s[i] # Head(s) PROVE i - 1 \in DOMAIN Tail(s) /\ Tail(s)[i - 1] = s[i]
  <2>1. i \in 2 .. Len(s)
    BY <1>1, <1>3
  <2>2. i - 1 \in 1 .. Len(s) - 1 /\ (i - 1) + 1 = i
    BY <2>1
  <2> QED
    BY <1>1, <1>2, <2>2
<1> QED
  BY <1>1, <1>2, <1>3

-----------------------------------------------------------------------------
(* Work and what settles it belong to the queue of their consumer.           *)

Rightful(e) == e \in WorkEvents => e.queue = QueueOf[e.consumer] /\ e.epoch <= crashEpoch[e.consumer]

RightfulSettle(e) == e \in SettleEvents => e.queue = QueueOf[e.consumer]

LEMMA WorkFrame ==
  ASSUME TypeOK, WorkOK, input' = input,
         \A c \in Consumers : crashEpoch'[c] \in Nat /\ crashEpoch[c] <= crashEpoch'[c],
         \A e \in DOMAIN later' : e \in DOMAIN later \/ Rightful(e),
         \A i \in DOMAIN urgent' : \/ \E j \in DOMAIN urgent : urgent'[i] = urgent[j]
                                   \/ RightfulSettle(urgent'[i])
  PROVE  WorkOK'
<1>1. QueueOf' = QueueOf
  BY DEF QueueOf
<1>2. ASSUME NEW e \in DOMAIN later', e \in WorkEvents
      PROVE  e.queue = QueueOf'[e.consumer] /\ e.epoch <= crashEpoch'[e.consumer]
  <2>1. e.consumer \in Consumers /\ e.epoch \in Nat
    BY <1>2 DEF WorkEvents
  <2>2. e.queue = QueueOf[e.consumer] /\ e.epoch <= crashEpoch[e.consumer]
    BY <1>2 DEF WorkOK, Rightful
  <2>3. /\ crashEpoch[e.consumer] \in Nat /\ crashEpoch'[e.consumer] \in Nat
        /\ crashEpoch[e.consumer] <= crashEpoch'[e.consumer]
    BY <2>1 DEF TypeOK
  <2> QED
    BY <1>1, <2>1, <2>2, <2>3
<1>3. ASSUME NEW i \in DOMAIN urgent', urgent'[i] \in SettleEvents
      PROVE  urgent'[i].queue = QueueOf'[urgent'[i].consumer]
  BY <1>1, <1>3 DEF WorkOK, RightfulSettle
<1> QED
  BY <1>2, <1>3 DEF WorkOK

\* Nothing urgent but what was there, and quiet events.
LEMMA QuietUrgent ==
  ASSUME TypeOK, NEW soon \in Seq(QuietEvents),
         \/ urgent' = urgent \o soon
         \/ urgent # <<>> /\ urgent' = Tail(urgent) \o soon
  PROVE  \A i \in DOMAIN urgent' : \/ \E j \in DOMAIN urgent : urgent'[i] = urgent[j]
                                   \/ RightfulSettle(urgent'[i])
<1>1. \A i \in DOMAIN soon : RightfulSettle(soon[i])
  <2>1. \A e \in QuietEvents : e \notin SettleEvents
    BY UrgentEventTypes DEF QuietEvents, UrgentEvents
  <2> QED
    BY <2>1 DEF RightfulSettle
<1>2. urgent \in Seq(UrgentEvents) /\ soon \in Seq(UrgentEvents)
  BY QuietIsQuiet DEF TypeOK
<1>3. CASE urgent' = urgent \o soon
  <2>1. \A i \in DOMAIN (urgent \o soon) : \/ i \in DOMAIN urgent /\ (urgent \o soon)[i] = urgent[i]
                                           \/ \E j \in DOMAIN soon : (urgent \o soon)[i] = soon[j]
    BY <1>2, InBoth
  <2> QED
    BY <1>1, <1>3, <2>1
<1>4. CASE urgent # <<>> /\ urgent' = Tail(urgent) \o soon
  <2>1. /\ Tail(urgent) \in Seq(UrgentEvents)
        /\ \A i \in DOMAIN Tail(urgent) : i + 1 \in DOMAIN urgent /\ Tail(urgent)[i] = urgent[i + 1]
    BY <1>2, <1>4, InTail
  <2>2. \A i \in DOMAIN (Tail(urgent) \o soon) :
           \/ i \in DOMAIN Tail(urgent) /\ (Tail(urgent) \o soon)[i] = Tail(urgent)[i]
           \/ \E j \in DOMAIN soon : (Tail(urgent) \o soon)[i] = soon[j]
    BY <1>2, <2>1, InBoth
  <2> QED
    BY <1>1, <1>4, <2>1, <2>2
<1> QED
  BY <1>3, <1>4

\* In every step, what is urgent after it.
LEMMA NoneIsQuiet ==
  ASSUME TypeOK
  PROVE  /\ <<>> \in Seq(QuietEvents) /\ urgent \o <<>> = urgent
         /\ urgent # <<>> => Tail(urgent) \o <<>> = Tail(urgent)
BY DEF TypeOK

LEMMA RouteEventsDoNoWork ==
  ASSUME NEW D, DOMAIN D \subseteq RouteEvents \cup EnqueueEvents \cup TtlEvents
  PROVE  \A e \in DOMAIN D : e \notin WorkEvents /\ Rightful(e)
<1>1. \A e \in RouteEvents \cup EnqueueEvents \cup TtlEvents : e \in LaterEvents
  BY DEF LaterEvents
<1>2. \A e \in RouteEvents \cup EnqueueEvents \cup TtlEvents : e \notin WorkEvents
  BY <1>1, LaterEventTypes
<1> QED
  BY <1>2 DEF Rightful

LEMMA WorkStep ==
  ASSUME TypeOK, WorkOK, [Next]_vars
  PROVE  WorkOK'
<1> DEFINE Old(e) == e \in DOMAIN later \/ Rightful(e)
           Calm == \A i \in DOMAIN urgent' : \/ \E j \in DOMAIN urgent : urgent'[i] = urgent[j]
                                             \/ RightfulSettle(urgent'[i])
           SameLife == crashEpoch' = crashEpoch
<1>1. SUFFICES /\ input' = input /\ Calm
               /\ \A c \in Consumers : crashEpoch'[c] \in Nat /\ crashEpoch[c] <= crashEpoch'[c]
               /\ \A e \in DOMAIN later' : Old(e)
  BY WorkFrame
<1>2. SameLife => \A c \in Consumers : crashEpoch'[c] \in Nat /\ crashEpoch[c] <= crashEpoch'[c]
  BY DEF TypeOK
<1>3. /\ <<>> \in Seq(QuietEvents) /\ urgent \o <<>> = urgent
      /\ urgent # <<>> => Tail(urgent) \o <<>> = Tail(urgent)
  BY NoneIsQuiet
<1>4. urgent' = urgent => Calm
  OBVIOUS
<1>5. urgent # <<>> /\ urgent' = Tail(urgent) => Calm
  BY <1>3, QuietUrgent
<1>6. BagOver(later, LaterEvents)
  BY DEF TypeOK
<1>7. ASSUME NEW D, BagOver(D, LaterEvents), later' = Joined(later, D), \A e \in DOMAIN D : Old(e)
      PROVE  \A e \in DOMAIN later' : Old(e)
  <2>1. DOMAIN later' = DOMAIN later \cup DOMAIN D
    BY <1>7, JoinedDomain
  <2> QED
    BY <1>7, <2>1
<1>8. ASSUME NEW D, BagOver(D, LaterEvents), NEW x \in DOMAIN later, later' = Fired(later, x, D),
             \A e \in DOMAIN D : Old(e)
      PROVE  \A e \in DOMAIN later' : Old(e)
  <2>1. DOMAIN later' \subseteq DOMAIN later \cup DOMAIN D
    BY <1>6, <1>8, FiredDomain
  <2> QED
    BY <1>8, <2>1
<1>9. BagOver(EmptyBag, LaterEvents) /\ \A e \in DOMAIN EmptyBag : Old(e)
  BY NoneBag, NoneCounts
<1> DEFINE Goal == /\ input' = input /\ Calm
                   /\ \A c \in Consumers : crashEpoch'[c] \in Nat /\ crashEpoch[c] <= crashEpoch'[c]
                   /\ \A e \in DOMAIN later' : Old(e)
<1>10. Mints => (SameLife /\ \A e \in DOMAIN later' : Old(e))
  <2> SUFFICES ASSUME Mints PROVE SameLife /\ \A e \in DOMAIN later' : Old(e)
    OBVIOUS
  <2>1. PICK e \in RouteEvents : BagOver(One(e), LaterEvents) /\ later' = Joined(later, One(e))
    BY DEF Mints
  <2>2. DOMAIN One(e) = {e}
    BY OneCounts
  <2>3. \A f \in DOMAIN One(e) : Old(f)
    BY <2>2, RouteEventsDoNoWork
  <2> HIDE DEF Old
  <2> QED
    BY <1>7, <2>1, <2>3 DEF Mints
<1>11. CASE UNCHANGED vars
  <2>1. input' = input /\ urgent' = urgent /\ SameLife /\ later' = later
    BY <1>11 DEF vars, state, events
  <2> QED
    BY <1>2, <1>4, <2>1
<1>12. ASSUME NEW p \in Script, Publish(p) PROVE Goal
  <2>1. input' = input /\ Mints /\ urgent' = urgent
    BY <1>12, PublishEffect
  <2> HIDE DEF Old, Calm
  <2> QED
    BY <1>2, <1>4, <1>10, <2>1
<1>13. ASSUME NEW c \in Consumers, Crash(c) PROVE Goal
  <2>1. /\ input' = input
        /\ crashEpoch' = [crashEpoch EXCEPT ![c] = crashEpoch[c] + 1]
        /\ later' = Joined(later, EmptyBag)
        /\ urgent' = urgent \/ urgent' = urgent \o <<DispatchEvent(QueueOf[c])>>
    BY <1>13, CrashEffect
  <2>2. Calm
    <3>1. QueueOf[c] \in Queues
      BY InputFacts DEF TypeOK
    <3>2. <<DispatchEvent(QueueOf[c])>> \in Seq(QuietEvents)
      BY <3>1, WakeIsQuiet
    <3> QED
      BY <1>4, <2>1, <3>2, QuietUrgent
  <2>3. \A d \in Consumers : crashEpoch'[d] \in Nat /\ crashEpoch[d] <= crashEpoch'[d]
    BY <2>1 DEF TypeOK
  <2> HIDE DEF Old, Calm
  <2> QED
    BY <1>7, <1>9, <2>1, <2>2, <2>3
<1>14. ASSUME NEW c \in Consumers, Recover(c) PROVE Goal
  <2>1. /\ input' = input /\ SameLife /\ later' = Joined(later, EmptyBag)
        /\ urgent' = urgent \o <<DispatchEvent(QueueOf[c])>>
    BY <1>14, RecoverEffect
  <2>2. Calm
    <3>1. QueueOf[c] \in Queues
      BY InputFacts DEF TypeOK
    <3>2. <<DispatchEvent(QueueOf[c])>> \in Seq(QuietEvents)
      BY <3>1, WakeIsQuiet
    <3> QED
      BY <2>1, <3>2, QuietUrgent
  <2> HIDE DEF Old, Calm
  <2> QED
    BY <1>2, <1>7, <1>9, <2>1, <2>2
<1>15. CASE PublishReply
  <2>1. /\ input' = input
        /\ Mints \/ (UNCHANGED <<state, history>> /\ later' = Joined(later, EmptyBag))
        /\ urgent # <<>> /\ urgent' = Tail(urgent)
    BY <1>15, PublishReplyEffect
  <2>2. SameLife /\ \A e \in DOMAIN later' : Old(e)
    <3>1. CASE Mints
      BY <1>10, <3>1
    <3>2. CASE UNCHANGED <<state, history>> /\ later' = Joined(later, EmptyBag)
      <4>1. SameLife
        BY <3>2 DEF state
      <4> HIDE DEF Old
      <4> QED
        BY <1>7, <1>9, <3>2, <4>1
    <3> QED
      BY <2>1, <3>1, <3>2
  <2> HIDE DEF Old, Calm
  <2> QED
    BY <1>2, <1>5, <2>1, <2>2
<1>16. CASE Dispatch
  <2>1. input' = input /\ SameLife /\ urgent # <<>> /\ urgent' = Tail(urgent)
    BY <1>16, DispatchEffect
  <2>2. \/ later' = Joined(later, EmptyBag)
        \/ \E c \in Consumers, e \in WorkEvents :
             /\ QueueOf[c] = e.queue /\ e.consumer = c /\ e.epoch = crashEpoch[c]
             /\ BagOver(One(e), LaterEvents) /\ later' = Joined(later, One(e))
    BY <1>16, DispatchEffect
  <2>3. ASSUME NEW c \in Consumers, NEW e \in WorkEvents, QueueOf[c] = e.queue, e.consumer = c,
               e.epoch = crashEpoch[c], BagOver(One(e), LaterEvents), later' = Joined(later, One(e))
        PROVE  \A f \in DOMAIN later' : Old(f)
    <3>1. DOMAIN One(e) = {e}
      BY OneCounts
    <3>2. crashEpoch[c] \in Nat
      BY DEF TypeOK
    <3>3. Rightful(e)
      BY <2>3, <3>2 DEF Rightful
    <3>4. \A f \in DOMAIN One(e) : Old(f)
      BY <3>1, <3>3
    <3> HIDE DEF Old
    <3> QED
      BY <1>7, <2>3, <3>4
  <2> HIDE DEF Old, Calm
  <2> QED
    BY <1>2, <1>5, <1>7, <1>9, <2>1, <2>2, <2>3
<1>17. CASE Ack
  <2>1. /\ input' = input /\ SameLife
        /\ \E soon \in Seq(QuietEvents) : urgent # <<>> /\ urgent' = Tail(urgent) \o soon
        /\ later' = Joined(later, EmptyBag)
    BY <1>17, AckEffect
  <2>2. Calm
    BY <2>1, QuietUrgent
  <2> HIDE DEF Old, Calm
  <2> QED
    BY <1>2, <1>7, <1>9, <2>1, <2>2
<1>18. CASE Nack
  <2>1. /\ input' = input /\ SameLife
        /\ \E e \in SettleEvents : urgent # <<>> /\ urgent' = Tail(urgent) \o <<DispatchEvent(e.queue)>>
        /\ \E burial : /\ BagOver(burial, LaterEvents) /\ DOMAIN burial \subseteq RouteEvents
                       /\ later' = Joined(later, burial)
    <3>1. BagOver(EmptyBag, LaterEvents) /\ DOMAIN EmptyBag \subseteq RouteEvents
      BY NoneBag, NoneCounts
    <3> QED
      BY <1>18, <3>1, NackEffect
  <2>2. Calm
    <3>1. \A e \in SettleEvents : <<DispatchEvent(e.queue)>> \in Seq(QuietEvents)
      BY WakeIsQuiet DEF SettleEvents
    <3> QED
      BY <2>1, <3>1, QuietUrgent
  <2>3. \A e \in DOMAIN later' : Old(e)
    <3>1. PICK burial : /\ BagOver(burial, LaterEvents) /\ DOMAIN burial \subseteq RouteEvents
                        /\ later' = Joined(later, burial)
      BY <2>1
    <3>2. \A e \in DOMAIN burial : Old(e)
      BY <3>1, RouteEventsDoNoWork
    <3> HIDE DEF Old
    <3> QED
      BY <1>7, <3>1, <3>2
  <2> HIDE DEF Old, Calm
  <2> QED
    BY <1>2, <2>1, <2>2, <2>3
<1>19. ASSUME NEW x \in DOMAIN later, Route(x) PROVE Goal
  <2>1. input' = input /\ SameLife /\ urgent' = urgent /\ x \in RouteEvents
    BY <1>19, RouteEffect DEF state
  <2>2. PICK T \in SUBSET (Exchanges \cup Queues) :
          /\ IsFiniteSet(T) /\ BagOver(SetToBag(Forwarded(x.msg, T)), LaterEvents)
          /\ later' = Fired(later, x, SetToBag(Forwarded(x.msg, T)))
    BY <1>19, RouteEffect
  <2>3. DOMAIN SetToBag(Forwarded(x.msg, T)) \subseteq RouteEvents \cup EnqueueEvents
    BY <2>1, <2>2, ForwardedType DEF RouteEvents
  <2>4. \A e \in DOMAIN SetToBag(Forwarded(x.msg, T)) : Old(e)
    BY <2>3, RouteEventsDoNoWork
  <2> HIDE DEF Old, Calm
  <2> QED
    BY <1>2, <1>4, <1>8, <2>1, <2>2, <2>4
<1>20. ASSUME NEW x \in DOMAIN later, Enqueue(x) PROVE Goal
  <2>1. input' = input /\ SameLife /\ urgent' = urgent \o <<DispatchEvent(x.queue)>> /\ x \in EnqueueEvents
    BY <1>20, EnqueueEffect DEF Keeps
  <2>2. PICK entry \in Entry, grown \in Seq(Entry), kept \in Seq(Entry) : \E timer, burial :
          Enqueued(x, entry, grown, kept, timer, burial)
    BY <1>20, EnqueueEffect
  <2>3. PICK timer, burial : Enqueued(x, entry, grown, kept, timer, burial)
    BY <2>2
  <2>4. /\ timer = Timer(x.msg.id, x.queue, entry.stay, kept)
        /\ BagOver(Joined(timer, burial), LaterEvents)
        /\ DOMAIN burial \subseteq RouteEvents
        /\ later' = Fired(later, x, Joined(timer, burial))
    BY <2>3 DEF Enqueued
  <2>5. DOMAIN timer \subseteq TtlEvents
    BY <2>1, <2>4, TimerType DEF EnqueueEvents, Message, Entry
  <2>6. DOMAIN Joined(timer, burial) = DOMAIN timer \cup DOMAIN burial
    BY JoinedDomain
  <2>7. \A e \in DOMAIN Joined(timer, burial) : Old(e)
    <3>1. DOMAIN Joined(timer, burial) \subseteq RouteEvents \cup EnqueueEvents \cup TtlEvents
      BY <2>4, <2>5, <2>6
    <3> QED
      BY <3>1, RouteEventsDoNoWork
  <2>8. Calm
    <3>1. <<DispatchEvent(x.queue)>> \in Seq(QuietEvents)
      BY <2>1, WakeIsQuiet DEF EnqueueEvents
    <3> QED
      BY <2>1, <3>1, QuietUrgent
  <2> HIDE DEF Old, Calm
  <2> QED
    BY <1>2, <1>8, <2>1, <2>3, <2>4, <2>7, <2>8
<1>21. ASSUME NEW x \in DOMAIN later, TtlExpire(x) PROVE Goal
  <2>1. input' = input /\ SameLife /\ urgent' = urgent
    BY <1>21, TtlExpireEffect DEF Keeps
  <2>2. PICK burial : /\ BagOver(burial, LaterEvents) /\ DOMAIN burial \subseteq RouteEvents
                      /\ later' = Fired(later, x, burial)
    BY <1>21, TtlExpireEffect
  <2>3. \A e \in DOMAIN burial : Old(e)
    BY <2>2, RouteEventsDoNoWork
  <2> HIDE DEF Old, Calm
  <2> QED
    BY <1>2, <1>4, <1>8, <2>1, <2>2, <2>3
<1>22. ASSUME NEW x \in DOMAIN later, Deliver(x) PROVE Goal
  <2>1. input' = input /\ SameLife /\ urgent' = urgent /\ x \in WorkEvents
    BY <1>22, DeliverEffect DEF state
  <2>2. \A e \in DOMAIN later' : Old(e)
    <3>1. CASE later' = Fired(later, x, EmptyBag)
      <4> HIDE DEF Old
      <4> QED
        BY <1>8, <1>9, <3>1
    <3>2. ASSUME NEW done \in WorkEvents, later' = Fired(later, x, One(done)),
                 BagOver(One(done), LaterEvents), done.queue = x.queue,
                 done.consumer = x.consumer, done.epoch = x.epoch
          PROVE  \A e \in DOMAIN later' : Old(e)
      <4>1. Rightful(x)
        BY DEF WorkOK, Rightful
      <4>2. Rightful(done)
        BY <2>1, <3>2, <4>1 DEF Rightful
      <4>3. DOMAIN One(done) = {done}
        BY OneCounts
      <4>4. \A e \in DOMAIN One(done) : Old(e)
        BY <4>2, <4>3
      <4> HIDE DEF Old
      <4> QED
        BY <1>8, <3>2, <4>4
    <3> QED
      BY <1>22, <3>1, <3>2, DeliverEffect
  <2> HIDE DEF Old, Calm
  <2> QED
    BY <1>2, <1>4, <2>1, <2>2
<1>23. ASSUME NEW x \in DOMAIN later, ConsumeDone(x) PROVE Goal
  <2>1. input' = input /\ SameLife /\ later' = Fired(later, x, EmptyBag) /\ x \in WorkEvents
    BY <1>23, ConsumeDoneEffect DEF state
  <2>2. Calm
    <3>1. CASE urgent' = urgent
      BY <1>4, <3>1
    <3>2. ASSUME NEW done \in SettleEvents, urgent' = urgent \o <<done>>,
                 done.queue = x.queue, done.consumer = x.consumer
          PROVE  Calm
      <4>1. RightfulSettle(done)
        BY <2>1, <3>2 DEF WorkOK, RightfulSettle
      <4>2. urgent \in Seq(UrgentEvents) /\ <<done>> \in Seq(UrgentEvents)
        BY DEF TypeOK, UrgentEvents
      <4>3. \A i \in DOMAIN (urgent \o <<done>>) :
               \/ i \in DOMAIN urgent /\ (urgent \o <<done>>)[i] = urgent[i]
               \/ \E j \in DOMAIN <<done>> : (urgent \o <<done>>)[i] = <<done>>[j]
        BY <4>2, InBoth
      <4>4. \A j \in DOMAIN <<done>> : <<done>>[j] = done
        OBVIOUS
      <4> QED
        BY <3>2, <4>1, <4>3, <4>4
    <3> QED
      BY <1>23, <3>1, <3>2, ConsumeDoneEffect
  <2> HIDE DEF Old, Calm
  <2> QED
    BY <1>2, <1>8, <1>9, <2>1, <2>2
<1> HIDE DEF Old, Calm
<1> QED
  BY <1>11, <1>12, <1>13, <1>14, <1>15, <1>16, <1>17, <1>18, <1>19, <1>20, <1>21, <1>22, <1>23
     DEF Next, Kernel, Chained, DueEvent, BagToSet

\* Work is done for the queue its consumer reads, in a life it has begun.
LEMMA WorkAlways == Spec => []WorkOK
<1>1. Init => WorkOK
  <2> SUFFICES ASSUME Init PROVE WorkOK
    OBVIOUS
  <2>1. DOMAIN later = {} /\ DOMAIN urgent = {}
    BY NoneCounts DEF Init
  <2> QED
    BY <2>1 DEF WorkOK
<1>2. TypeOK /\ WorkOK /\ [Next]_vars => WorkOK'
  BY WorkStep
<1> QED
  BY <1>1, <1>2, RabbitTypeCorrect, PTL DEF Spec

-----------------------------------------------------------------------------
(* Nobody waits unattended.                                                  *)
(*                                                                           *)
(* An event that will offer a queue's head to its consumers is a waker.      *)
(* While the queue is not empty and some consumer could take its head, a     *)
(* waker is due in this instant, or some consumer of the queue holds a       *)
(* message it is at work on: finishing that makes a waker.                   *)

Waker(e, q) == e.type \in {"dispatch", "ack", "nack"} /\ e.queue = q

Woken(q) == \E i \in DOMAIN urgent : Waker(urgent[i], q)

NoOneFree(q) ==
  \A i \in DOMAIN ConsumerOrder : ~(QueueOf[ConsumerOrder[i]] = q /\ Eligible(ConsumerOrder[i]))

Busy(e, q) ==
  /\ e \in WorkEvents /\ QueueOf[e.consumer] = q /\ Current(e)
  /\ \E i \in DOMAIN unacked[e.consumer] : unacked[e.consumer][i].id = e.msg.id

AtWork(q) == \E e \in DOMAIN later : Busy(e, q)

Attended(q) == Woken(q) \/ queues[q] = <<>> \/ NoOneFree(q) \/ AtWork(q)

AttendedOK == \A q \in Queues : ByHand(q) => Attended(q)

\* A waker that is not the event that fires goes on waiting.
LEMMA WokenStays ==
  ASSUME TypeOK, NEW q, NEW soon \in Seq(UrgentEvents),
         \/ urgent' = urgent \o soon
         \/ urgent # <<>> /\ ~Waker(Head(urgent), q) /\ urgent' = Tail(urgent) \o soon,
         Woken(q)
  PROVE  Woken(q)'
<1>1. PICK i \in DOMAIN urgent : Waker(urgent[i], q)
  BY DEF Woken
<1>2. urgent \in Seq(UrgentEvents)
  BY DEF TypeOK
<1>3. CASE urgent' = urgent \o soon
  <2>1. i \in DOMAIN (urgent \o soon) /\ (urgent \o soon)[i] = urgent[i]
    BY <1>2, InBoth
  <2> QED
    BY <1>1, <1>3, <2>1 DEF Woken, Waker
<1>4. CASE urgent # <<>> /\ ~Waker(Head(urgent), q) /\ urgent' = Tail(urgent) \o soon
  <2>1. Tail(urgent) \in Seq(UrgentEvents)
    BY <1>2, <1>4, InTail
  <2>2. i - 1 \in DOMAIN Tail(urgent) /\ Tail(urgent)[i - 1] = urgent[i]
    <3>1. urgent[i] # Head(urgent)
      BY <1>1, <1>4
    <3> QED
      BY <1>2, <1>4, <3>1, InTail
  <2>3. i - 1 \in DOMAIN (Tail(urgent) \o soon) /\ (Tail(urgent) \o soon)[i - 1] = Tail(urgent)[i - 1]
    BY <2>1, <2>2, InBoth
  <2> QED
    BY <1>1, <1>4, <2>2, <2>3 DEF Woken, Waker
<1> QED
  BY <1>3, <1>4

\* A new waker is due.
LEMMA WokenNow ==
  ASSUME TypeOK, NEW q, NEW soon \in Seq(UrgentEvents),
         \/ urgent' = urgent \o soon
         \/ urgent # <<>> /\ urgent' = Tail(urgent) \o soon,
         NEW i \in DOMAIN soon, Waker(soon[i], q)
  PROVE  Woken(q)'
<1>1. urgent \in Seq(UrgentEvents) /\ (urgent # <<>> => Tail(urgent) \in Seq(UrgentEvents))
  BY InTail DEF TypeOK
<1>2. PICK before \in Seq(UrgentEvents) : urgent' = before \o soon
  BY <1>1
<1>3. \A j \in DOMAIN soon : /\ Len(before) + j \in DOMAIN (before \o soon)
                            /\ (before \o soon)[Len(before) + j] = soon[j]
  BY <1>2, InBoth
<1> QED
  BY <1>2, <1>3 DEF Woken, Waker

\* The consumers of a queue that a step does not disturb stay as free as they were.
LEMMA Undisturbed ==
  ASSUME TypeOK, NEW q \in Queues, input' = input, Attended(q),
         \A c \in Consumers :
           QueueOf[c] = q => /\ unacked'[c] = unacked[c]
                             /\ crashEpoch'[c] = crashEpoch[c] \/ unacked[c] = <<>>
                             /\ c \in crashed => c \in crashed',
         queues[q] = <<>> => queues'[q] = <<>>,
         Woken(q) => Woken(q)',
         \A e \in DOMAIN later : Busy(e, q) => e \in DOMAIN later' \/ AtWork(q)' \/ Woken(q)'
  PROVE  Attended(q)'
<1>1. QueueOf' = QueueOf /\ ConsumerOrder' = ConsumerOrder /\ Prefetch' = Prefetch
  BY DEF QueueOf, ConsumerOrder, Prefetch
<1>2. CASE Woken(q)
  BY <1>2 DEF Attended
<1>3. CASE queues[q] = <<>>
  BY <1>3 DEF Attended
<1>4. CASE NoOneFree(q)
  <2>1. ConsumerOrder \in Seq(Consumers)
    BY InputFacts DEF TypeOK
  <2>2. \A i \in DOMAIN ConsumerOrder : ConsumerOrder[i] \in Consumers
    BY <2>1
  <2>3. NoOneFree(q)'
    BY <1>1, <1>4, <2>2 DEF NoOneFree, Eligible
  <2> QED
    BY <2>3 DEF Attended
<1>5. CASE AtWork(q)
  <2>1. PICK e \in DOMAIN later : Busy(e, q)
    BY <1>5 DEF AtWork
  <2>2. CASE e \in DOMAIN later'
    <3>1. e.consumer \in Consumers /\ QueueOf[e.consumer] = q
      BY <2>1 DEF Busy, WorkEvents
    <3>2. unacked[e.consumer] # <<>>
      BY <2>1 DEF Busy
    <3>3. unacked'[e.consumer] = unacked[e.consumer] /\ crashEpoch'[e.consumer] = crashEpoch[e.consumer]
      BY <3>1, <3>2
    <3>4. Busy(e, q)'
      BY <1>1, <2>1, <3>3 DEF Busy, Current
    <3> QED
      BY <2>2, <3>4 DEF AtWork, Attended
  <2> QED
    BY <2>1, <2>2 DEF Attended
<1> QED
  BY <1>2, <1>3, <1>4, <1>5 DEF Attended

LEMMA JoinedNothing ==
  ASSUME NEW B
  PROVE  DOMAIN Joined(B, EmptyBag) = DOMAIN B
<1>1. DOMAIN Joined(B, EmptyBag) = DOMAIN B \cup DOMAIN EmptyBag
  BY JoinedDomain
<1>2. DOMAIN EmptyBag = {}
  BY NoneCounts
<1> QED
  BY <1>1, <1>2

LEMMA JoinedOne ==
  ASSUME NEW B, NEW e
  PROVE  DOMAIN Joined(B, One(e)) = DOMAIN B \cup {e}
<1>1. DOMAIN Joined(B, One(e)) = DOMAIN B \cup DOMAIN One(e)
  BY JoinedDomain
<1>2. DOMAIN One(e) = {e}
  BY OneCounts
<1> QED
  BY <1>1, <1>2

\* What a dispatch that hands out a message does: its taker is at work.
LEMMA DispatchAttends ==
  ASSUME TypeOK, NEW q \in Queues, ByHand(q), Attended(q), Dispatch
  PROVE  Attended(q)'
<1>1. /\ input' = input /\ urgent # <<>> /\ Head(urgent) \in DispatchEvents
      /\ urgent' = Tail(urgent) /\ UNCHANGED <<crashed, crashEpoch>>
  BY DispatchEffect
<1>2. PICK p \in Queues : p = Head(urgent).queue
  BY <1>1 DEF DispatchEvents
<1>3. QueueOf' = QueueOf /\ ConsumerOrder' = ConsumerOrder /\ Prefetch' = Prefetch
  BY <1>1 DEF QueueOf, ConsumerOrder, Prefetch
<1>4. /\ <<>> \in Seq(UrgentEvents) /\ Tail(urgent) \o <<>> = Tail(urgent)
  BY <1>1, NoneIsQuiet
<1>5. p # q => (Woken(q) => Woken(q)')
  <2>1. p # q => ~Waker(Head(urgent), q)
    BY <1>2 DEF Waker
  <2> QED
    BY <1>1, <1>4, <2>1, WokenStays
<1>6. CASE /\ EligibleConsumers(p) = <<>> \/ queues[p] = <<>>
           /\ later' = Joined(later, EmptyBag) /\ UNCHANGED <<queues, unacked, roundRobin>>
  <2>1. DOMAIN later' = DOMAIN later
    BY <1>6, JoinedNothing
  <2>2. CASE p = q
    <3>1. queues[q] = <<>> \/ NoOneFree(q)
      BY <1>6, <2>2, CandidatesAreEligible DEF NoOneFree
    <3>2. queues'[q] = <<>> \/ NoOneFree(q)'
      BY <1>1, <1>3, <1>6, <3>1 DEF NoOneFree, Eligible
    <3> QED
      BY <3>2 DEF Attended
  <2>3. CASE p # q
    BY <1>1, <1>5, <1>6, <2>1, <2>3, Undisturbed
  <2> QED
    BY <2>2, <2>3
<1>7. ASSUME NEW c \in Consumers, NEW e \in WorkEvents,
             QueueOf[c] = p, e.consumer = c, e.epoch = crashEpoch[c],
             later' = Joined(later, One(e)), queues' = [queues EXCEPT ![p] = Tail(queues[p])],
             unacked' = IF c \in AutoAck THEN unacked
                        ELSE [unacked EXCEPT ![c] = Append(unacked[c], e.msg)]
      PROVE  Attended(q)'
  <2>1. DOMAIN later' = DOMAIN later \cup {e}
    BY <1>7, JoinedOne
  <2>2. CASE p = q
    <3>1. c \notin AutoAck
      BY <1>7, <2>2 DEF ByHand
    <3>2. unacked[c] \in Seq(Message) /\ e.msg \in Message /\ unacked \in [Consumers -> Seq(Message)]
      BY DEF TypeOK, WorkEvents
    <3>3. unacked'[c] = Append(unacked[c], e.msg)
      BY <1>7, <3>1, <3>2
    <3>4. Len(unacked[c]) + 1 \in DOMAIN unacked'[c] /\ unacked'[c][Len(unacked[c]) + 1] = e.msg
      BY <3>2, <3>3
    <3>5. Busy(e, q)'
      BY <1>1, <1>3, <1>7, <2>2, <3>4 DEF Busy, Current
    <3> QED
      BY <2>1, <3>5 DEF AtWork, Attended
  <2>3. CASE p # q
    <3>1. \A d \in Consumers : QueueOf[d] = q => unacked'[d] = unacked[d]
      BY <1>7, <2>3 DEF TypeOK
    <3>2. queues'[q] = queues[q]
      BY <1>7, <2>3 DEF TypeOK
    <3> QED
      BY <1>1, <1>5, <2>1, <2>3, <3>1, <3>2, Undisturbed
  <2> QED
    BY <2>2, <2>3
<1> QED
  <2>1. \/ /\ EligibleConsumers(p) = <<>> \/ queues[p] = <<>>
           /\ later' = Joined(later, EmptyBag) /\ UNCHANGED <<queues, unacked, roundRobin>>
        \/ \E c \in Consumers, e \in WorkEvents :
             /\ QueueOf[c] = p /\ e.consumer = c /\ e.epoch = crashEpoch[c]
             /\ later' = Joined(later, One(e)) /\ queues' = [queues EXCEPT ![p] = Tail(queues[p])]
             /\ unacked' = IF c \in AutoAck THEN unacked
                           ELSE [unacked EXCEPT ![c] = Append(unacked[c], e.msg)]
    BY <1>2, DispatchEffect
  <2> QED
    BY <1>6, <1>7, <2>1

\* A message that is settled leaves its consumer, and the consumer's queue is
\* dispatched; the other queues see nothing of it.
LEMMA SettlingAttends ==
  ASSUME TypeOK, WorkOK, NEW q \in Queues, Attended(q), input' = input,
         urgent # <<>>, NEW e \in SettleEvents, e = Head(urgent),
         unacked' = Released(e.consumer, e.msg.id),
         UNCHANGED <<crashed, crashEpoch>>,
         \A p \in Queues : p # e.queue => queues'[p] = queues[p],
         DOMAIN later \subseteq DOMAIN later',
         NEW soon \in Seq(QuietEvents), urgent' = Tail(urgent) \o soon,
         \E i \in DOMAIN soon : soon[i].type = "dispatch" /\ soon[i].queue = e.queue
  PROVE  Attended(q)'
<1>1. soon \in Seq(UrgentEvents)
  BY QuietIsQuiet
<1>2. CASE q = e.queue
  <2>1. PICK i \in DOMAIN soon : Waker(soon[i], q)
    BY <1>2 DEF Waker
  <2> QED
    BY <1>1, <2>1, WokenNow DEF Attended
<1>3. CASE q # e.queue
  <2>1. e.queue = QueueOf[e.consumer] /\ e.consumer \in Consumers
    <3>1. urgent[1] = e /\ 1 \in DOMAIN urgent
      BY DEF TypeOK
    <3> QED
      BY <3>1 DEF WorkOK, SettleEvents
  <2>2. \A d \in Consumers : QueueOf[d] = q => unacked'[d] = unacked[d]
    <3>1. PICK c \in Consumers : c = e.consumer
      BY <2>1
    <3>2. \A d \in Consumers \ {c} : Released(c, e.msg.id)[d] = unacked[d]
      BY ReleasedKeeps
    <3> QED
      BY <1>3, <2>1, <3>1, <3>2
  <2>3. Woken(q) => Woken(q)'
    <3>1. ~Waker(Head(urgent), q)
      BY <1>3 DEF Waker
    <3> QED
      BY <1>1, <3>1, WokenStays
  <2> QED
    BY <1>3, <2>2, <2>3, Undisturbed
<1> QED
  BY <1>2, <1>3

\* An event that is due and does not end a consumer's work leaves all work.
LEMMA OtherWorkStays ==
  ASSUME TypeOK, NEW x \in DOMAIN later, NEW D, BagOver(D, LaterEvents), later' = Fired(later, x, D), NEW q
  PROVE  \A e \in DOMAIN later : e # x => e \in DOMAIN later'
<1>1. BagOver(later, LaterEvents)
  BY DEF TypeOK
<1>2. (DOMAIN later \ {x}) \cup DOMAIN D \subseteq DOMAIN later'
  BY <1>1, FiredDomain
<1> QED
  BY <1>2

LEMMA NoWorkOfThese ==
  ASSUME NEW x, NEW q, x \in RouteEvents \/ x \in EnqueueEvents \/ x \in TtlEvents
  PROVE  ~Busy(x, q)
<1>1. x \in LaterEvents /\ x \notin WorkEvents
  BY LaterEventTypes DEF LaterEvents
<1> QED
  BY <1>1 DEF Busy

LEMMA AttendedStep ==
  ASSUME TypeOK, WorkOK, AttendedOK, [Next]_vars
  PROVE  AttendedOK'
<1>1. input' = input
  <2>1. CASE UNCHANGED vars
    BY <2>1 DEF vars
  <2>2. CASE Next
    BY <2>2 DEF Next, Publish, Crash, Recover, Kernel, Chained, PublishReply, Dispatch, Ack, Nack,
                DueEvent, Route, Enqueue, TtlExpire, Deliver, ConsumeDone, Fire, Schedule, Chain
  <2> QED
    BY <2>1, <2>2
<1>2. AutoAck' = AutoAck /\ QueueOf' = QueueOf
  BY <1>1 DEF AutoAck, QueueOf
<1>3. SUFFICES ASSUME NEW q \in Queues, ByHand(q), Attended(q)
               PROVE  Attended(q)'
  BY <1>2 DEF AttendedOK, ByHand
<1>4. <<>> \in Seq(UrgentEvents) /\ <<>> \in Seq(QuietEvents) /\ urgent \o <<>> = urgent
  BY NoneIsQuiet
<1>5. urgent' = urgent => (Woken(q) => Woken(q)')
  BY <1>4, WokenStays
<1> DEFINE SameNodes == UNCHANGED <<queues, unacked, crashed, crashEpoch>>
<1>6. ASSUME NEW D, later' = Joined(later, D)
      PROVE  \A e \in DOMAIN later : e \in DOMAIN later'
  <2>1. DOMAIN Joined(later, D) = DOMAIN later \cup DOMAIN D
    BY JoinedDomain
  <2> QED
    BY <1>6, <2>1
<1>7. ASSUME SameNodes, Woken(q) => Woken(q)', \A e \in DOMAIN later : e \in DOMAIN later'
      PROVE  Attended(q)'
  BY <1>1, <1>3, <1>7, Undisturbed
<1>8. Mints => SameNodes /\ \A e \in DOMAIN later : e \in DOMAIN later'
  <2> SUFFICES ASSUME Mints PROVE SameNodes /\ \A e \in DOMAIN later : e \in DOMAIN later'
    OBVIOUS
  <2>1. PICK e : later' = Joined(later, One(e))
    BY DEF Mints
  <2> QED
    BY <1>6, <2>1 DEF Mints
<1>9. CASE UNCHANGED vars
  <2>1. SameNodes /\ urgent' = urgent /\ later' = later
    BY <1>9 DEF vars, state, events
  <2> HIDE DEF SameNodes
  <2> QED
    BY <1>5, <1>7, <2>1
<1>10. ASSUME NEW p \in Script, Publish(p) PROVE Attended(q)'
  <2>1. Mints /\ urgent' = urgent
    BY <1>10, PublishEffect
  <2> HIDE DEF SameNodes
  <2> QED
    BY <1>5, <1>7, <1>8, <2>1
<1>11. CASE PublishReply
  <2>1. /\ Mints \/ (UNCHANGED <<state, history>> /\ later' = Joined(later, EmptyBag))
        /\ urgent # <<>> /\ Head(urgent) \in PublishEvents /\ urgent' = Tail(urgent)
    BY <1>11, PublishReplyEffect
  <2>2. SameNodes /\ \A e \in DOMAIN later : e \in DOMAIN later'
    BY <1>6, <1>8, <2>1 DEF state
  <2>3. Woken(q) => Woken(q)'
    <3>1. ~Waker(Head(urgent), q)
      BY <2>1 DEF Waker, PublishEvents
    <3>2. Tail(urgent) \o <<>> = Tail(urgent)
      BY <2>1, NoneIsQuiet
    <3> QED
      BY <1>4, <2>1, <3>1, <3>2, WokenStays
  <2> HIDE DEF SameNodes
  <2> QED
    BY <1>7, <2>2, <2>3
<1>12. CASE Dispatch
  BY <1>3, <1>12, DispatchAttends
<1>13. CASE Ack
  <2>1. PICK e \in SettleEvents :
          /\ urgent # <<>> /\ e = Head(urgent)
          /\ unacked' = Released(e.consumer, e.msg.id)
          /\ later' = Joined(later, EmptyBag)
          /\ \E soon \in Seq(QuietEvents) :
               /\ urgent' = Tail(urgent) \o soon
               /\ \E i \in DOMAIN soon : soon[i].type = "dispatch" /\ soon[i].queue = e.queue
    BY <1>13, AckEffect
  <2>2. UNCHANGED <<queues, crashed, crashEpoch>>
    BY <1>13, AckEffect
  <2>3. DOMAIN later \subseteq DOMAIN later'
    BY <1>6, <2>1
  <2>4. PICK soon \in Seq(QuietEvents) :
          /\ urgent' = Tail(urgent) \o soon
          /\ \E i \in DOMAIN soon : soon[i].type = "dispatch" /\ soon[i].queue = e.queue
    BY <2>1
  <2> QED
    BY <1>1, <1>3, <2>1, <2>2, <2>3, <2>4, SettlingAttends
<1>14. CASE Nack
  <2>1. PICK e \in SettleEvents :
          /\ urgent # <<>> /\ e = Head(urgent)
          /\ unacked' = Released(e.consumer, e.msg.id)
          /\ urgent' = Tail(urgent) \o <<DispatchEvent(e.queue)>>
          /\ \/ \E queue : queues' = [queues EXCEPT ![e.queue] = queue]
             \/ queues' = queues
          /\ \E D : later' = Joined(later, D)
    BY <1>14, NackEffect
  <2>2. UNCHANGED <<crashed, crashEpoch>>
    BY <1>14, NackEffect
  <2>3. DOMAIN later \subseteq DOMAIN later'
    BY <1>6, <2>1
  <2>4. \A p \in Queues : p # e.queue => queues'[p] = queues[p]
    BY <2>1 DEF TypeOK
  <2>5. PICK soon : soon = <<DispatchEvent(e.queue)>>
    OBVIOUS
  <2>6. /\ soon \in Seq(QuietEvents)
        /\ \E i \in DOMAIN soon : soon[i].type = "dispatch" /\ soon[i].queue = e.queue
    <3>1. e.queue \in Queues
      BY DEF SettleEvents
    <3>2. 1 \in DOMAIN soon /\ soon[1] = DispatchEvent(e.queue)
      BY <2>5
    <3> QED
      BY <2>5, <3>1, <3>2, WakeIsQuiet
  <2> QED
    BY <1>1, <1>3, <2>1, <2>2, <2>3, <2>4, <2>5, <2>6, SettlingAttends
<1>15. ASSUME NEW p \in Queues, urgent' = urgent \o <<DispatchEvent(p)>>
       PROVE  /\ Woken(q) => Woken(q)'
              /\ q = p => Woken(q)'
  <2>1. PICK soon : soon = <<DispatchEvent(p)>>
    OBVIOUS
  <2>2. soon \in Seq(UrgentEvents) /\ 1 \in DOMAIN soon /\ soon[1] = DispatchEvent(p)
    BY <2>1, DispatchEventType
  <2>3. q = p => Waker(soon[1], q)
    BY <2>2 DEF Waker, DispatchEvent
  <2>4. urgent' = urgent \o soon
    BY <1>15, <2>1
  <2> QED
    BY <2>2, <2>3, <2>4, WokenStays, WokenNow
<1>16. ASSUME NEW c \in Consumers, Crash(c) PROVE Attended(q)'
  <2>1. PICK p \in Queues : p = QueueOf[c]
    BY InputFacts DEF TypeOK
  <2>2. /\ later' = Joined(later, EmptyBag)
        /\ crashed' = crashed \cup {c}
        /\ crashEpoch' = [crashEpoch EXCEPT ![c] = crashEpoch[c] + 1]
        /\ unacked' = [unacked EXCEPT ![c] = <<>>]
        /\ \E queue : /\ queues' = [queues EXCEPT ![p] = queue]
                      /\ unacked[c] = <<>> => queue = queues[p]
        /\ \/ unacked[c] = <<>> /\ urgent' = urgent
           \/ unacked[c] # <<>> /\ urgent' = urgent \o <<DispatchEvent(p)>>
    BY <1>16, <2>1, CrashEffect
  <2>3. CASE unacked[c] # <<>> /\ p = q
    BY <1>15, <2>2, <2>3 DEF Attended
  <2>4. CASE unacked[c] = <<>> \/ p # q
    <3>1. queues'[q] = queues[q]
      BY <2>2, <2>4 DEF TypeOK
    <3>2. Woken(q) => Woken(q)'
      BY <1>5, <1>15, <2>2
    <3>3. \A d \in Consumers :
            QueueOf[d] = q => /\ unacked'[d] = unacked[d]
                              /\ crashEpoch'[d] = crashEpoch[d] \/ unacked[d] = <<>>
                              /\ d \in crashed => d \in crashed'
      BY <2>1, <2>2, <2>4 DEF TypeOK
    <3>4. \A e \in DOMAIN later : e \in DOMAIN later'
      BY <1>6, <2>2
    <3> QED
      BY <1>1, <1>3, <3>1, <3>2, <3>3, <3>4, Undisturbed
  <2> QED
    BY <2>3, <2>4
<1>17. ASSUME NEW c \in Consumers, Recover(c) PROVE Attended(q)'
  <2>1. PICK p \in Queues : p = QueueOf[c]
    BY InputFacts DEF TypeOK
  <2>2. /\ later' = Joined(later, EmptyBag) /\ crashed' = crashed \ {c}
        /\ urgent' = urgent \o <<DispatchEvent(p)>> /\ UNCHANGED <<queues, unacked, crashEpoch>>
    BY <1>17, <2>1, RecoverEffect
  <2>3. CASE p = q
    BY <1>15, <2>2, <2>3 DEF Attended
  <2>4. CASE p # q
    <3>1. \A d \in Consumers : QueueOf[d] = q => (d \in crashed => d \in crashed')
      BY <2>1, <2>2, <2>4
    <3>2. \A e \in DOMAIN later : e \in DOMAIN later'
      BY <1>6, <2>2
    <3>3. Woken(q) => Woken(q)'
      BY <1>15, <2>2
    <3> QED
      BY <1>1, <1>3, <2>2, <3>1, <3>2, <3>3, Undisturbed
  <2> QED
    BY <2>3, <2>4
<1>18. ASSUME NEW x \in DOMAIN later, Route(x) PROVE Attended(q)'
  <2>1. urgent' = urgent /\ SameNodes /\ x \in RouteEvents
    BY <1>18, RouteEffect DEF state
  <2>2. PICK D : BagOver(D, LaterEvents) /\ later' = Fired(later, x, D)
    BY <1>18, RouteEffect
  <2>3. \A e \in DOMAIN later : e # x => e \in DOMAIN later'
    BY <2>2, OtherWorkStays
  <2>4. ~Busy(x, q)
    BY <2>1, NoWorkOfThese
  <2> QED
    BY <1>1, <1>3, <1>5, <2>1, <2>3, <2>4, Undisturbed
<1>19. ASSUME NEW x \in DOMAIN later, Enqueue(x) PROVE Attended(q)'
  <2>1. /\ urgent' = urgent \o <<DispatchEvent(x.queue)>> /\ x \in EnqueueEvents
        /\ UNCHANGED <<unacked, crashed, crashEpoch>>
    BY <1>19, EnqueueEffect DEF Keeps
  <2>2. PICK entry \in Entry, grown \in Seq(Entry), kept \in Seq(Entry) : \E timer, burial :
          Enqueued(x, entry, grown, kept, timer, burial)
    BY <1>19, EnqueueEffect
  <2>3. PICK D : BagOver(D, LaterEvents) /\ later' = Fired(later, x, D)
    BY <2>2 DEF Enqueued
  <2>4. queues' = [queues EXCEPT ![x.queue] = kept] /\ x.queue \in Queues
    BY <2>1, <2>2 DEF Enqueued, EnqueueEvents
  <2>5. CASE q = x.queue
    BY <1>15, <2>1, <2>4, <2>5 DEF Attended
  <2>6. CASE q # x.queue
    <3>1. queues'[q] = queues[q]
      BY <2>4, <2>6 DEF TypeOK
    <3>2. Woken(q) => Woken(q)'
      BY <1>15, <2>1, <2>4
    <3>3. \A e \in DOMAIN later : e # x => e \in DOMAIN later'
      BY <2>3, OtherWorkStays
    <3>4. ~Busy(x, q)
      BY <2>1, NoWorkOfThese
    <3> QED
      BY <1>1, <1>3, <2>1, <3>1, <3>2, <3>3, <3>4, Undisturbed
  <2> QED
    BY <2>5, <2>6
<1>20. ASSUME NEW x \in DOMAIN later, TtlExpire(x) PROVE Attended(q)'
  <2>1. urgent' = urgent /\ x \in TtlEvents /\ UNCHANGED <<unacked, crashed, crashEpoch>>
    BY <1>20, TtlExpireEffect DEF Keeps
  <2>2. PICK D : BagOver(D, LaterEvents) /\ later' = Fired(later, x, D)
    BY <1>20, TtlExpireEffect
  <2>3. \/ queues' = queues
        \/ /\ queues[x.queue] # <<>>
           /\ \E i : queues' = [queues EXCEPT ![x.queue] = RemoveAt(queues[x.queue], i)]
    <3>1. \/ queues' = queues
          \/ \E i \in 1 .. Len(queues[x.queue]) :
               queues' = [queues EXCEPT ![x.queue] = RemoveAt(queues[x.queue], i)]
      BY <1>20, TtlExpireEffect
    <3>2. ASSUME NEW i \in 1 .. Len(queues[x.queue]) PROVE queues[x.queue] # <<>>
      BY <3>2
    <3> QED
      BY <3>1, <3>2
  <2>4. queues[q] = <<>> => queues'[q] = <<>>
    BY <2>3 DEF TypeOK
  <2>5. \A e \in DOMAIN later : e # x => e \in DOMAIN later'
    BY <2>2, OtherWorkStays
  <2>6. ~Busy(x, q)
    BY <2>1, NoWorkOfThese
  <2> QED
    BY <1>1, <1>3, <1>5, <2>1, <2>4, <2>5, <2>6, Undisturbed
<1>21. ASSUME NEW x \in DOMAIN later, Deliver(x) PROVE Attended(q)'
  <2>1. urgent' = urgent /\ SameNodes /\ x \in WorkEvents
    BY <1>21, DeliverEffect DEF state
  <2>2. PICK D : /\ BagOver(D, LaterEvents) /\ later' = Fired(later, x, D)
                 /\ \/ ~Current(x)
                    \/ \E done \in WorkEvents : /\ D = One(done)
                                                /\ done.msg = x.msg /\ done.consumer = x.consumer
                                                /\ done.epoch = x.epoch
    <3>1. BagOver(EmptyBag, LaterEvents)
      BY NoneBag
    <3> QED
      BY <1>21, <3>1, DeliverEffect
  <2>3. \A e \in DOMAIN later : e # x => e \in DOMAIN later'
    BY <2>2, OtherWorkStays
  <2>4. Busy(x, q) => AtWork(q)'
    <3> SUFFICES ASSUME Busy(x, q) PROVE AtWork(q)'
      OBVIOUS
    <3>1. PICK done \in WorkEvents : /\ D = One(done)
                                     /\ done.msg = x.msg /\ done.consumer = x.consumer
                                     /\ done.epoch = x.epoch
      BY <2>2 DEF Busy
    <3>2. done \in DOMAIN later'
      <4>1. DOMAIN One(done) = {done} /\ BagOver(later, LaterEvents)
        BY OneCounts DEF TypeOK
      <4>2. (DOMAIN later \ {x}) \cup DOMAIN D \subseteq DOMAIN later'
        BY <2>2, <4>1, FiredDomain
      <4> QED
        BY <3>1, <4>1, <4>2
    <3>3. Busy(done, q)'
      BY <1>2, <2>1, <3>1 DEF Busy, Current
    <3> QED
      BY <3>2, <3>3 DEF AtWork
  <2> QED
    BY <1>1, <1>3, <1>5, <2>1, <2>3, <2>4, Undisturbed
<1>22. ASSUME NEW x \in DOMAIN later, ConsumeDone(x) PROVE Attended(q)'
  <2>1. SameNodes /\ x \in WorkEvents /\ later' = Fired(later, x, EmptyBag)
    BY <1>22, ConsumeDoneEffect DEF state
  <2>2. BagOver(EmptyBag, LaterEvents)
    BY NoneBag
  <2>3. \A e \in DOMAIN later : e # x => e \in DOMAIN later'
    BY <2>1, <2>2, OtherWorkStays
  <2>4. PICK soon \in Seq(UrgentEvents) :
          /\ urgent' = urgent \o soon
          /\ \/ ~Current(x)
             \/ \E done \in SettleEvents : soon = <<done>> /\ done.queue = x.queue
    <3>1. \A done \in SettleEvents : <<done>> \in Seq(UrgentEvents)
      BY DEF UrgentEvents
    <3>2. \/ ~Current(x) /\ urgent' = urgent
          \/ \E done \in SettleEvents : urgent' = urgent \o <<done>> /\ done.queue = x.queue
      BY <1>22, ConsumeDoneEffect
    <3> QED
      BY <1>4, <3>1, <3>2
  <2>5. Woken(q) => Woken(q)'
    BY <2>4, WokenStays
  <2>6. Busy(x, q) => Woken(q)'
    <3> SUFFICES ASSUME Busy(x, q) PROVE Woken(q)'
      OBVIOUS
    <3>1. PICK done \in SettleEvents : soon = <<done>> /\ done.queue = x.queue
      BY <2>4 DEF Busy
    <3>2. x.queue = q
      BY DEF Busy, WorkOK
    <3>3. 1 \in DOMAIN soon /\ Waker(soon[1], q)
      BY <3>1, <3>2 DEF Waker, SettleEvents
    <3> QED
      BY <2>4, <3>3, WokenNow
  <2> QED
    BY <1>1, <1>3, <2>1, <2>3, <2>5, <2>6, Undisturbed
<1> QED
  BY <1>9, <1>10, <1>11, <1>12, <1>13, <1>14, <1>16, <1>17, <1>18, <1>19, <1>20, <1>21, <1>22
     DEF Next, Kernel, Chained, DueEvent, BagToSet

\* Some consumer of every queue whose head could be taken is told, now or when
\* it finishes what it is at work on.
LEMMA AttendedAlways == Spec => []AttendedOK
<1>1. Init => AttendedOK
  <2> SUFFICES ASSUME Init PROVE AttendedOK
    OBVIOUS
  <2>1. \A q \in Queues : queues[q] = <<>>
    BY DEF Init
  <2> QED
    BY <2>1 DEF AttendedOK, Attended
<1>2. TypeOK /\ WorkOK /\ AttendedOK /\ [Next]_vars => AttendedOK'
  BY AttendedStep
<1> QED
  BY <1>1, <1>2, RabbitTypeCorrect, WorkAlways, PTL DEF Spec

\* Between instants no message waits, in a queue without auto-ack consumers,
\* while a consumer of the queue could take it and none of them is at work:
\* every crash, recovery, ack, nack and enqueue dispatches the queue it
\* concerns, whatever the prefetches, and however the instants overlap.
THEOREM NoMessageIsStranded == Spec => []NoStrandedMessage
<1>1. TypeOK /\ AttendedOK => NoStrandedMessage
  <2> SUFFICES ASSUME TypeOK, AttendedOK, urgent = <<>>, NEW q \in Queues, ByHand(q),
                      queues[q] # <<>>, EligibleConsumers(q) # <<>>
               PROVE  \E e \in BagToSet(later) : InHand(e) /\ QueueOf[e.consumer] = q
    BY DEF NoStrandedMessage
  <2>1. ~NoOneFree(q)
    BY CandidatesAreEligible DEF NoOneFree
  <2>2. ~Woken(q)
    BY DEF Woken
  <2>3. PICK e \in DOMAIN later : Busy(e, q)
    BY <2>1, <2>2 DEF AttendedOK, Attended, AtWork
  <2>4. e.type \in {"deliver", "consumeDone"}
    BY <2>3 DEF Busy, WorkEvents
  <2> QED
    BY <2>3, <2>4 DEF BagToSet, InHand, Busy
<1> QED
  BY <1>1, RabbitTypeCorrect, AttendedAlways, PTL

-----------------------------------------------------------------------------
(* Every entry of a queue with a TTL has a timer of its own.                 *)

InTime(q, id, stay) == Number(queues[q], Twins(id, stay)) <= CopiesOf(TtlEvent(id, q, stay), later)

TimersOK == \A q \in HasTtl, id \in Nat, stay \in Nat : InTime(q, id, stay)

\* Nobody puts back what a queue with a TTL handed out.
NothingPutBack(i) ==
  \A c \in Consumers : i.queueOf[c] \in i.hasTtl => c \notin i.requeueOnNack /\ i.maxCrashes[c] = 0

LEMMA InTimeStays ==
  ASSUME TypeOK, TypeOK', NEW q \in Queues, NEW id \in Nat, NEW stay \in Nat, InTime(q, id, stay),
         Number(queues'[q], Twins(id, stay)) <= Number(queues[q], Twins(id, stay)),
         NEW D, BagOver(D, LaterEvents),
         \/ later' = Joined(later, D)
         \/ \E x \in DOMAIN later : x # TtlEvent(id, q, stay) /\ later' = Fired(later, x, D)
  PROVE  InTime(q, id, stay)'
<1>1. PICK e : e = TtlEvent(id, q, stay)
  OBVIOUS
<1>2. BagOver(later, LaterEvents) /\ queues[q] \in Seq(Entry) /\ queues'[q] \in Seq(Entry)
  BY DEF TypeOK
<1>3. Number(queues'[q], Twins(id, stay)) \in Nat /\ Number(queues[q], Twins(id, stay)) \in Nat
  BY <1>2, NumberType
<1>4. CopiesOf(e, later) \in Nat /\ CopiesOf(e, D) \in Nat
  BY <1>2, JoinedCopies
<1>5. CASE later' = Joined(later, D)
  <2>1. CopiesOf(e, later') = CopiesOf(e, later) + CopiesOf(e, D)
    BY <1>2, <1>5, JoinedCopies
  <2> QED
    BY <1>1, <1>3, <1>4, <2>1 DEF InTime
<1>6. ASSUME NEW x \in DOMAIN later, x # e, later' = Fired(later, x, D)
      PROVE  InTime(q, id, stay)'
  <2>1. CopiesOf(e, later') = (CopiesOf(e, later) - Bit(e, {x})) + CopiesOf(e, D)
    BY <1>2, <1>6, FiredCopies
  <2>2. Bit(e, {x}) = 0
    BY <1>6 DEF Bit
  <2> QED
    BY <1>1, <1>3, <1>4, <2>1, <2>2 DEF InTime
<1> QED
  BY <1>1, <1>5, <1>6

\* A new entry gets a timer, unless the overflow took it at once.
LEMMA EnqueueSetsTimers ==
  ASSUME TypeOK, TypeOK', TimersOK, NEW x \in DOMAIN later, Enqueue(x),
         NEW q \in HasTtl, q \in Queues, NEW id \in Nat, NEW stay \in Nat
  PROVE  InTime(q, id, stay)'
<1>1. PICK entry \in Entry, grown \in Seq(Entry), kept \in Seq(Entry) : \E timer, burial :
        Enqueued(x, entry, grown, kept, timer, burial)
  BY EnqueueEffect
<1>2. PICK timer, burial : Enqueued(x, entry, grown, kept, timer, burial)
  BY <1>1
<1>3. x \in EnqueueEvents /\ x.queue \in Queues /\ x.msg.id \in Nat
  BY EnqueueEffect DEF EnqueueEvents, Message
<1>4. BagOver(later, LaterEvents) /\ queues[q] \in Seq(Entry)
  BY DEF TypeOK
<1> DEFINE S == Twins(id, stay)
<1>5. Number(grown, S) = Number(queues[x.queue], S) + Bit(entry, S)
  BY <1>2 DEF Enqueued
<1>6. Number(kept, S) <= Number(grown, S) /\ Number(kept, S) \in Nat /\ Number(grown, S) \in Nat
  <2>1. \/ kept = grown
        \/ kept = Tail(grown) /\ grown # <<>>
    BY <1>2 DEF Enqueued
  <2>2. Number(kept, S) \in Nat /\ Number(grown, S) \in Nat
    BY <1>1, NumberType
  <2>3. CASE kept = Tail(grown) /\ grown # <<>>
    <3>1. Number(grown, S) = Bit(Head(grown), S) + Number(Tail(grown), S)
      BY <2>3, NumberOfTail
    <3>2. Bit(Head(grown), S) \in {0, 1}
      BY DEF Bit
    <3> QED
      BY <2>2, <2>3, <3>1, <3>2
  <2> QED
    BY <2>1, <2>2, <2>3
<1>7. PICK e : e = TtlEvent(id, q, stay)
  OBVIOUS
<1>8. InTime(q, id, stay) /\ Number(queues[q], S) \in Nat /\ CopiesOf(e, later) \in Nat
  BY <1>4, NumberType, JoinedCopies DEF TimersOK
<1>9. /\ later' = Fired(later, x, Joined(timer, burial)) /\ BagOver(Joined(timer, burial), LaterEvents)
      /\ BagOver(timer, LaterEvents) /\ BagOver(burial, LaterEvents)
      /\ queues' = [queues EXCEPT ![x.queue] = kept]
  BY <1>2 DEF Enqueued
<1>10. x # e
  BY <1>3, <1>7 DEF EnqueueEvents, TtlEvent
<1>11. CopiesOf(e, later') = CopiesOf(e, later) + CopiesOf(e, timer) + CopiesOf(e, burial)
  <2>1. CopiesOf(e, later') = (CopiesOf(e, later) - Bit(e, {x})) + CopiesOf(e, Joined(timer, burial))
    BY <1>4, <1>9, FiredCopies
  <2>2. Bit(e, {x}) = 0
    BY <1>10 DEF Bit
  <2>3. CopiesOf(e, Joined(timer, burial)) = CopiesOf(e, timer) + CopiesOf(e, burial)
    BY <1>9, JoinedCopies
  <2>4. CopiesOf(e, timer) \in Nat /\ CopiesOf(e, burial) \in Nat
    BY <1>9, JoinedCopies
  <2> QED
    BY <1>8, <2>1, <2>2, <2>3, <2>4
<1>12. CopiesOf(e, timer) \in Nat /\ CopiesOf(e, burial) \in Nat
  BY <1>9, JoinedCopies
<1>13. CASE q # x.queue
  <2>1. queues'[q] = queues[q]
    BY <1>9, <1>13 DEF TypeOK
  <2> QED
    BY <1>7, <1>8, <1>11, <1>12, <2>1 DEF InTime
<1>14. CASE q = x.queue
  <2>1. queues'[q] = kept
    BY <1>9, <1>14 DEF TypeOK
  <2>2. CASE entry \notin S
    <3>1. Bit(entry, S) = 0
      BY <2>2 DEF Bit
    <3> QED
      BY <1>5, <1>6, <1>7, <1>8, <1>11, <1>12, <1>14, <2>1, <3>1 DEF InTime
  <2>3. CASE entry \in S /\ \E i \in DOMAIN kept : kept[i].msg.id = id
    <3>1. id = x.msg.id /\ stay = entry.stay
      BY <1>2, <2>3 DEF Enqueued, Twins
    <3>2. timer = One(e)
      <4>1. timer = Timer(id, q, stay, kept)
        BY <1>2, <1>14, <3>1 DEF Enqueued
      <4>2. Timer(id, q, stay, kept) = One(TtlEvent(id, q, stay))
        BY <1>14, <2>3, TimerType
      <4> QED
        BY <1>7, <4>1, <4>2
    <3>3. CopiesOf(e, timer) = Bit(e, {e})
      BY <3>2, OneCounts
    <3>4. Bit(e, {e}) = 1 /\ Bit(entry, S) = 1
      BY <2>3 DEF Bit
    <3> QED
      BY <1>5, <1>6, <1>7, <1>8, <1>11, <1>12, <1>14, <2>1, <3>3, <3>4 DEF InTime
  <2>4. CASE ~ \E i \in DOMAIN kept : kept[i].msg.id = id
    <3>1. ~(Number(kept, S) > 0)
      <4>1. Number(kept, S) > 0 <=> \E i \in DOMAIN kept : kept[i] \in S
        BY <1>1, NumberType
      <4>2. \A i \in DOMAIN kept : kept[i] \notin S
        BY <2>4 DEF Twins
      <4> HIDE DEF S
      <4> QED
        BY <4>1, <4>2
    <3> QED
      BY <1>6, <1>7, <1>8, <1>11, <1>12, <2>1, <3>1 DEF InTime
  <2> QED
    BY <2>2, <2>3, <2>4
<1> QED
  BY <1>13, <1>14

\* An expiry takes one entry and the timer it was for.
LEMMA ExpiryTakesOneTimer ==
  ASSUME TypeOK, TypeOK', TimersOK, NEW x \in DOMAIN later, TtlExpire(x),
         NEW q \in HasTtl, q \in Queues, NEW id \in Nat, NEW stay \in Nat
  PROVE  InTime(q, id, stay)'
<1>1. x \in TtlEvents /\ BagOver(later, LaterEvents) /\ queues[q] \in Seq(Entry)
  BY TtlExpireEffect DEF TypeOK
<1>2. x = TtlEvent(x.id, x.queue, x.stay) /\ x.queue \in Queues
  BY <1>1 DEF TtlEvents, TtlEvent
<1>3. PICK burial :
        /\ BagOver(burial, LaterEvents) /\ later' = Fired(later, x, burial)
        /\ \/ Number(queues[x.queue], Twins(x.id, x.stay)) = 0 /\ UNCHANGED queues
           \/ \E i \in 1 .. Len(queues[x.queue]) :
                /\ queues[x.queue][i] \in Twins(x.id, x.stay)
                /\ queues' = [queues EXCEPT ![x.queue] = RemoveAt(queues[x.queue], i)]
  BY TtlExpireEffect
<1> DEFINE S == Twins(id, stay)
           e == TtlEvent(id, q, stay)
<1>4. InTime(q, id, stay) /\ Number(queues[q], S) \in Nat
  BY <1>1, NumberType DEF TimersOK
<1>5. Number(queues'[q], S) \in Nat
  <2>1. queues'[q] \in Seq(Entry)
    BY DEF TypeOK
  <2> QED
    BY <2>1, NumberType
<1>6. /\ Number(queues'[q], S) <= Number(queues[q], S)
      /\ x = e => \/ Number(queues[q], S) = 0
                  \/ Number(queues'[q], S) = Number(queues[q], S) - 1
  <2>1. CASE Number(queues[x.queue], Twins(x.id, x.stay)) = 0 /\ UNCHANGED queues
    <3>1. x = e => x.queue = q /\ x.id = id /\ x.stay = stay
      BY DEF TtlEvent
    <3> QED
      BY <1>4, <2>1, <3>1
  <2>2. ASSUME NEW i \in 1 .. Len(queues[x.queue]),
               queues[x.queue][i] \in Twins(x.id, x.stay),
               queues' = [queues EXCEPT ![x.queue] = RemoveAt(queues[x.queue], i)]
        PROVE  <1>6!1 /\ <1>6!2
    <3>1. CASE q # x.queue
      <4>1. queues'[q] = queues[q]
        BY <2>2, <3>1 DEF TypeOK
      <4>2. x # e
        BY <3>1 DEF TtlEvent
      <4> QED
        BY <1>4, <4>1, <4>2
    <3>2. CASE q = x.queue
      <4>1. queues'[q] = RemoveAt(queues[q], i)
        BY <2>2, <3>2 DEF TypeOK
      <4>2. Number(queues[q], S) = Number(RemoveAt(queues[q], i), S) + Bit(queues[q][i], S)
        BY <1>1, <2>2, <3>2, NumberRemoved
      <4>3. Bit(queues[q][i], S) \in {0, 1} /\ (x = e => Bit(queues[q][i], S) = 1)
        <5>1. x = e => x.id = id /\ x.stay = stay
          BY DEF TtlEvent
        <5> QED
          BY <2>2, <3>2, <5>1 DEF Bit
      <4> QED
        BY <1>4, <1>5, <4>1, <4>2, <4>3
    <3> QED
      BY <3>1, <3>2
  <2> QED
    BY <1>3, <2>1, <2>2
<1>7. CASE x # e
  <2> HIDE DEF e
  <2> QED
    BY <1>3, <1>4, <1>6, <1>7, InTimeStays DEF e
<1>8. CASE x = e
  <2>1. CopiesOf(x, later) \in Nat /\ CopiesOf(x, burial) \in Nat
    BY <1>1, <1>3, JoinedCopies
  <2>2. CopiesOf(x, later') = (CopiesOf(x, later) - Bit(x, {x})) + CopiesOf(x, burial)
    BY <1>1, <1>3, FiredCopies
  <2>3. Bit(x, {x}) = 1
    BY DEF Bit
  <2>4. CopiesOf(x, later) > 0
    BY <1>1, <1>3, JoinedCopies
  <2>5. Number(queues[q], S) <= CopiesOf(x, later)
    BY <1>4, <1>8 DEF InTime
  <2>6. Number(queues'[q], S) <= CopiesOf(x, later')
    BY <1>4, <1>5, <1>6, <1>8, <2>1, <2>2, <2>3, <2>4, <2>5
  <2> QED
    BY <1>8, <2>6 DEF InTime
<1> QED
  BY <1>7, <1>8

\* Nothing in these steps adds to a queue with a TTL or takes a timer.
LEMMA TimersStep ==
  ASSUME TypeOK, TypeOK', WorkOK, TimersOK, [Next]_vars, \A i \in Inputs : NothingPutBack(i)
  PROVE  TimersOK'
<1>1. input' = input
  <2>1. CASE UNCHANGED vars
    BY <2>1 DEF vars
  <2>2. CASE Next
    BY <2>2 DEF Next, Publish, Crash, Recover, Kernel, Chained, PublishReply, Dispatch, Ack, Nack,
                DueEvent, Route, Enqueue, TtlExpire, Deliver, ConsumeDone, Fire, Schedule, Chain
  <2> QED
    BY <2>1, <2>2
<1>2. HasTtl' = HasTtl /\ HasTtl \subseteq Queues
  BY <1>1, InputFacts DEF HasTtl, TypeOK
<1>3. SUFFICES ASSUME NEW q \in HasTtl, NEW id \in Nat, NEW stay \in Nat
               PROVE  InTime(q, id, stay)'
  BY <1>2 DEF TimersOK
<1>4. q \in Queues /\ InTime(q, id, stay)
  BY <1>2 DEF TimersOK
<1>5. \A c \in Consumers : QueueOf[c] = q => c \notin RequeueOnNack /\ MaxCrashes[c] = 0
  BY DEF TypeOK, NothingPutBack, QueueOf, HasTtl, RequeueOnNack, MaxCrashes
<1> DEFINE S == Twins(id, stay)
           Less == Number(queues'[q], S) <= Number(queues[q], S)
<1>6. BagOver(later, LaterEvents) /\ queues[q] \in Seq(Entry) /\ BagOver(EmptyBag, LaterEvents)
  BY <1>4, NoneBag DEF TypeOK
<1>7. Number(queues[q], S) \in Nat
  BY <1>6, NumberType
<1>8. queues'[q] = queues[q] => Less
  BY <1>7
<1>9. ASSUME NEW D, BagOver(D, LaterEvents), later' = Joined(later, D), Less
      PROVE  InTime(q, id, stay)'
  BY <1>4, <1>9, InTimeStays
<1>10. ASSUME NEW x \in DOMAIN later, x \notin TtlEvents,
              NEW D, BagOver(D, LaterEvents), later' = Fired(later, x, D), Less
       PROVE  InTime(q, id, stay)'
  <2>1. x # TtlEvent(id, q, stay)
    BY <1>4, <1>10 DEF TtlEvents, TtlEvent
  <2> QED
    BY <1>4, <1>10, <2>1, InTimeStays
<1>11. Mints => InTime(q, id, stay)'
  <2> SUFFICES ASSUME Mints PROVE InTime(q, id, stay)'
    OBVIOUS
  <2>1. PICK e : BagOver(One(e), LaterEvents) /\ later' = Joined(later, One(e))
    BY DEF Mints
  <2>2. queues' = queues
    BY DEF Mints
  <2> HIDE DEF Less
  <2> QED
    BY <1>8, <1>9, <2>1, <2>2
<1>12. \A x \in RouteEvents \cup EnqueueEvents \cup WorkEvents : x \notin TtlEvents
  BY DEF RouteEvents, EnqueueEvents, WorkEvents, TtlEvents
<1> HIDE DEF Less
<1>13. CASE UNCHANGED vars
  BY <1>4, <1>13 DEF vars, state, events, InTime
<1>14. ASSUME NEW p \in Script, Publish(p) PROVE InTime(q, id, stay)'
  BY <1>11, <1>14, PublishEffect
<1>15. CASE PublishReply
  <2>1. Mints \/ (UNCHANGED <<state, history>> /\ later' = Joined(later, EmptyBag))
    BY <1>15, PublishReplyEffect
  <2> QED
    BY <1>6, <1>8, <1>9, <1>11, <2>1 DEF state
<1>16. CASE Dispatch
  <2>1. PICK D : BagOver(D, LaterEvents) /\ later' = Joined(later, D)
    BY <1>6, <1>16, DispatchEffect
  <2>2. Less
    <3>1. CASE queues' = queues
      BY <1>8, <3>1
    <3>2. ASSUME NEW p, queues[p] # <<>>, queues' = [queues EXCEPT ![p] = Tail(queues[p])]
          PROVE  Less
      <4>1. CASE p = q
        <5>1. queues'[q] = Tail(queues[q])
          BY <1>4, <3>2, <4>1 DEF TypeOK
        <5>2. /\ Number(queues[q], S) = Bit(Head(queues[q]), S) + Number(Tail(queues[q]), S)
              /\ Tail(queues[q]) \in Seq(Entry)
          BY <1>6, <3>2, <4>1, NumberOfTail
        <5>3. Bit(Head(queues[q]), S) \in {0, 1} /\ Number(Tail(queues[q]), S) \in Nat
          BY <5>2, NumberType DEF Bit
        <5> QED
          BY <5>1, <5>2, <5>3 DEF Less
      <4>2. CASE p # q
        BY <1>4, <1>8, <3>2, <4>2 DEF TypeOK
      <4> QED
        BY <4>1, <4>2
    <3>3. queues' = queues \/ \E p : queues[p] # <<>> /\ queues' = [queues EXCEPT ![p] = Tail(queues[p])]
      BY <1>16, DispatchEffect
    <3> QED
      BY <3>1, <3>2, <3>3
  <2> QED
    BY <1>9, <2>1, <2>2
<1>17. CASE Ack
  <2>1. later' = Joined(later, EmptyBag) /\ queues' = queues
    BY <1>17, AckEffect
  <2> QED
    BY <1>6, <1>8, <1>9, <2>1
<1>18. CASE Nack
  <2>1. PICK e \in SettleEvents :
          /\ urgent # <<>> /\ e = Head(urgent)
          /\ \/ e.consumer \in RequeueOnNack /\ \E queue : queues' = [queues EXCEPT ![e.queue] = queue]
             \/ queues' = queues
          /\ \E D : BagOver(D, LaterEvents) /\ later' = Joined(later, D)
    BY <1>6, <1>18, NackEffect
  <2>2. e.queue = QueueOf[e.consumer] /\ e.consumer \in Consumers
    <3>1. urgent[1] = e /\ 1 \in DOMAIN urgent
      BY <2>1 DEF TypeOK
    <3> QED
      BY <3>1 DEF WorkOK, SettleEvents
  <2>3. queues'[q] = queues[q]
    BY <1>4, <1>5, <2>1, <2>2 DEF TypeOK
  <2> QED
    BY <1>8, <1>9, <2>1, <2>3
<1>19. ASSUME NEW c \in Consumers, Crash(c) PROVE InTime(q, id, stay)'
  <2>1. PICK p \in Queues : p = QueueOf[c]
    BY InputFacts DEF TypeOK
  <2>2. /\ crashEpoch[c] < MaxCrashes[c] /\ later' = Joined(later, EmptyBag)
        /\ \E queue : queues' = [queues EXCEPT ![p] = queue]
    BY <1>19, <2>1, CrashEffect
  <2>3. crashEpoch[c] \in Nat
    BY DEF TypeOK
  <2>4. p # q
    BY <1>5, <2>1, <2>2, <2>3
  <2>5. queues'[q] = queues[q]
    BY <1>4, <2>2, <2>4 DEF TypeOK
  <2> QED
    BY <1>6, <1>8, <1>9, <2>2, <2>5
<1>20. ASSUME NEW c \in Consumers, Recover(c) PROVE InTime(q, id, stay)'
  <2>1. later' = Joined(later, EmptyBag) /\ queues' = queues
    BY <1>20, RecoverEffect
  <2> QED
    BY <1>6, <1>8, <1>9, <2>1
<1>21. ASSUME NEW x \in DOMAIN later, Route(x) PROVE InTime(q, id, stay)'
  <2>1. x \in RouteEvents /\ queues' = queues
    BY <1>21, RouteEffect DEF state
  <2>2. PICK D : BagOver(D, LaterEvents) /\ later' = Fired(later, x, D)
    BY <1>21, RouteEffect
  <2> QED
    BY <1>8, <1>10, <1>12, <2>1, <2>2
<1>22. ASSUME NEW x \in DOMAIN later, Enqueue(x) PROVE InTime(q, id, stay)'
  BY <1>4, <1>22, EnqueueSetsTimers
<1>23. ASSUME NEW x \in DOMAIN later, TtlExpire(x) PROVE InTime(q, id, stay)'
  BY <1>4, <1>23, ExpiryTakesOneTimer
<1>24. ASSUME NEW x \in DOMAIN later, Deliver(x) PROVE InTime(q, id, stay)'
  <2>1. x \in WorkEvents /\ queues' = queues
    BY <1>24, DeliverEffect DEF state
  <2>2. PICK D : BagOver(D, LaterEvents) /\ later' = Fired(later, x, D)
    BY <1>6, <1>24, DeliverEffect
  <2> QED
    BY <1>8, <1>10, <1>12, <2>1, <2>2
<1>25. ASSUME NEW x \in DOMAIN later, ConsumeDone(x) PROVE InTime(q, id, stay)'
  <2>1. x \in WorkEvents /\ queues' = queues /\ later' = Fired(later, x, EmptyBag)
    BY <1>25, ConsumeDoneEffect DEF state
  <2> QED
    BY <1>6, <1>8, <1>10, <1>12, <2>1
<1> QED
  BY <1>13, <1>14, <1>15, <1>16, <1>17, <1>18, <1>19, <1>20, <1>21, <1>22, <1>23, <1>24, <1>25
     DEF Next, Kernel, Chained, DueEvent, BagToSet

\* Every entry of a queue with a TTL has a timer of its own, also when copies of
\* one message were enqueued in the same instant, overflow took some of them, or
\* the timer of another copy fired first.  Where a consumer of such a queue may
\* put messages back, by a nack with requeue or by a crash, the theorem does not
\* hold: requeueing arms no timer.
THEOREM TimersHold ==
  ASSUME \A i \in Inputs : NothingPutBack(i)
  PROVE  Spec => []EveryEntryWillExpire
<1>1. Init => TimersOK
  <2> SUFFICES ASSUME Init, NEW q \in HasTtl, NEW id \in Nat, NEW stay \in Nat
               PROVE  InTime(q, id, stay)
    BY DEF TimersOK
  <2>1. q \in Queues
    BY InputFacts DEF Init
  <2>2. Number(queues[q], Twins(id, stay)) = 0
    <3>1. queues[q] = <<>>
      BY <2>1 DEF Init
    <3> QED
      BY <3>1, NumberOfOne
  <2>3. CopiesOf(TtlEvent(id, q, stay), later) = 0
    BY NoneCounts DEF Init
  <2> QED
    BY <2>2, <2>3 DEF InTime
<1>2. TypeOK /\ TypeOK' /\ WorkOK /\ TimersOK /\ [Next]_vars => TimersOK'
  BY TimersStep
<1>3. TypeOK /\ TimersOK => EveryEntryWillExpire
  <2> SUFFICES ASSUME TypeOK, TimersOK, NEW q \in HasTtl, NEW i \in DOMAIN queues[q]
               PROVE  LET entry == queues[q][i]
                          twins == {j \in DOMAIN queues[q] : /\ queues[q][j].msg.id = entry.msg.id
                                                             /\ queues[q][j].stay = entry.stay}
                      IN TimersOf(TtlEvent(entry.msg.id, q, entry.stay)) >= Cardinality(twins)
    BY DEF EveryEntryWillExpire
  <2>1. q \in Queues
    BY InputFacts DEF TypeOK
  <2>2. PICK id \in Nat, stay \in Nat : id = queues[q][i].msg.id /\ stay = queues[q][i].stay
    <3>1. queues[q] \in Seq(Entry)
      BY <2>1 DEF TypeOK
    <3>2. queues[q][i] \in Entry
      BY <3>1
    <3> QED
      BY <3>2 DEF Entry, Message
  <2> DEFINE twins == {j \in DOMAIN queues[q] : /\ queues[q][j].msg.id = id
                                                /\ queues[q][j].stay = stay}
  <2>3. twins = {j \in DOMAIN queues[q] : queues[q][j] \in Twins(id, stay)}
    <3>1. queues[q] \in Seq(Entry)
      BY <2>1 DEF TypeOK
    <3>2. \A j \in DOMAIN queues[q] : queues[q][j] \in Entry
      BY <3>1
    <3> QED
      BY <3>2 DEF Twins
  <2>4. Number(queues[q], Twins(id, stay)) <= CopiesOf(TtlEvent(id, q, stay), later)
    BY <2>1 DEF TimersOK, InTime
  <2>5. CopiesOf(TtlEvent(id, q, stay), later) = TimersOf(TtlEvent(id, q, stay))
    BY DEF CopiesOf, TimersOf, BagIn, BagToSet
  <2>6. Number(queues[q], Twins(id, stay)) = Cardinality(twins)
    BY <2>3 DEF Number
  <2>7. Number(queues[q], Twins(id, stay)) \in Nat /\ CopiesOf(TtlEvent(id, q, stay), later) \in Nat
    <3>1. queues[q] \in Seq(Entry) /\ BagOver(later, LaterEvents) /\ BagOver(EmptyBag, LaterEvents)
      BY <2>1, NoneBag DEF TypeOK
    <3> QED
      BY <3>1, NumberType, JoinedCopies
  <2>8. TimersOf(TtlEvent(id, q, stay)) >= Cardinality(twins)
    BY <2>4, <2>5, <2>6, <2>7
  <2> QED
    BY <2>2, <2>8
<1> QED
  BY <1>1, <1>2, <1>3, RabbitTypeCorrect, WorkAlways, PTL DEF Spec

-----------------------------------------------------------------------------
(* Where the copies of a message are.                                        *)

Underway(id) == Counted(later, OnTheWay(id))

QueuedIn(in, id) == Sum([q \in Queues |-> Number(in[q], EntriesOf(id))], Queues)

HeldIn(in, id) == Sum([c \in Consumers |-> Number(in[c], MessagesOf(id))], Consumers)

InQueues(id) == QueuedIn(queues, id)

InHands(id) == HeldIn(unacked, id)

KeptCopies(id) == Underway(id) + InQueues(id) + InHands(id) + acks[id] + drops[id]

\* The next two lemmas speak of two states of the broker at once.
LEMMA QueuesShift ==
  ASSUME NEW old \in [Queues -> Seq(Entry)], NEW new \in [Queues -> Seq(Entry)], NEW p \in Queues,
         \A q \in Queues \ {p} : new[q] = old[q], NEW id
  PROVE  /\ QueuedIn(old, id) \in Nat
         /\ Number(old[p], EntriesOf(id)) \in Nat /\ Number(new[p], EntriesOf(id)) \in Nat
         /\ QueuedIn(new, id) =
              (QueuedIn(old, id) - Number(old[p], EntriesOf(id))) + Number(new[p], EntriesOf(id))
<1> DEFINE f == [q \in Queues |-> Number(old[q], EntriesOf(id))]
           g == [q \in Queues |-> Number(new[q], EntriesOf(id))]
<1>1. IsFiniteSet(Queues)
  BY NodesAssumption
<1>2. \A q \in Queues : Number(old[q], EntriesOf(id)) \in Nat /\ Number(new[q], EntriesOf(id)) \in Nat
  <2> SUFFICES ASSUME NEW q \in Queues
               PROVE  Number(old[q], EntriesOf(id)) \in Nat /\ Number(new[q], EntriesOf(id)) \in Nat
    OBVIOUS
  <2>1. old[q] \in Seq(Entry) /\ new[q] \in Seq(Entry)
    OBVIOUS
  <2> QED
    BY <2>1, NumberType
<1>3. \A q \in Queues : f[q] \in Nat /\ g[q] \in Nat
  BY <1>2
<1>4. \A q \in Queues \ {p} : f[q] = g[q]
  OBVIOUS
<1>5. f[p] = Number(old[p], EntriesOf(id)) /\ g[p] = Number(new[p], EntriesOf(id))
  OBVIOUS
<1> HIDE DEF f, g
<1>6. Sum(f, Queues) \in Nat
  BY <1>1, <1>3, SumIsNumber
<1>7. Sum(g, Queues) = Sum(f, Queues) - f[p] + g[p]
  BY <1>1, <1>3, <1>4, SumShifts
<1> QED
  BY <1>2, <1>5, <1>6, <1>7 DEF f, g, QueuedIn

LEMMA HandsShift ==
  ASSUME NEW old \in [Consumers -> Seq(Message)], NEW new \in [Consumers -> Seq(Message)], NEW c \in Consumers,
         \A d \in Consumers \ {c} : new[d] = old[d], NEW id
  PROVE  /\ HeldIn(old, id) \in Nat
         /\ Number(old[c], MessagesOf(id)) \in Nat /\ Number(new[c], MessagesOf(id)) \in Nat
         /\ HeldIn(new, id) =
              (HeldIn(old, id) - Number(old[c], MessagesOf(id))) + Number(new[c], MessagesOf(id))
         /\ Number(old[c], MessagesOf(id)) <=
              HeldIn(old, id)
<1> DEFINE f == [d \in Consumers |-> Number(old[d], MessagesOf(id))]
           g == [d \in Consumers |-> Number(new[d], MessagesOf(id))]
<1>1. IsFiniteSet(Consumers)
  BY NodesAssumption
<1>2. \A d \in Consumers : Number(old[d], MessagesOf(id)) \in Nat /\ Number(new[d], MessagesOf(id)) \in Nat
  <2> SUFFICES ASSUME NEW d \in Consumers
               PROVE  Number(old[d], MessagesOf(id)) \in Nat /\ Number(new[d], MessagesOf(id)) \in Nat
    OBVIOUS
  <2>1. old[d] \in Seq(Message) /\ new[d] \in Seq(Message)
    OBVIOUS
  <2> QED
    BY <2>1, NumberType
<1>3. \A d \in Consumers : f[d] \in Nat /\ g[d] \in Nat
  BY <1>2
<1>4. \A d \in Consumers \ {c} : f[d] = g[d]
  OBVIOUS
<1>5. f[c] = Number(old[c], MessagesOf(id)) /\ g[c] = Number(new[c], MessagesOf(id))
  OBVIOUS
<1> HIDE DEF f, g
<1>6. Sum(f, Consumers) \in Nat
  BY <1>1, <1>3, SumIsNumber
<1>7. Sum(g, Consumers) = Sum(f, Consumers) - f[c] + g[c]
  BY <1>1, <1>3, <1>4, SumShifts
<1>8. f[c] <= Sum(f, Consumers)
  <2>1. Sum(f, Consumers) = f[c] + Sum(f, Consumers \ {c})
    BY <1>1, <1>3, SumOfRest
  <2>2. IsFiniteSet(Consumers \ {c}) /\ \A d \in Consumers \ {c} : f[d] \in Nat
    BY <1>1, <1>3, FS_Subset
  <2>3. Sum(f, Consumers \ {c}) \in Nat
    BY <2>2, SumIsNumber
  <2> QED
    BY <1>3, <2>1, <2>3
<1> QED
  BY <1>2, <1>5, <1>6, <1>7, <1>8 DEF f, g, HeldIn

LEMMA QueuedInType ==
  ASSUME NEW in \in [Queues -> Seq(Entry)], NEW id
  PROVE  QueuedIn(in, id) \in Nat
<1> DEFINE f == [q \in Queues |-> Number(in[q], EntriesOf(id))]
<1>1. \A q \in Queues : f[q] \in Nat
  <2> SUFFICES ASSUME NEW q \in Queues PROVE f[q] \in Nat
    OBVIOUS
  <2>1. in[q] \in Seq(Entry)
    OBVIOUS
  <2> QED
    BY <2>1, NumberType
<1> HIDE DEF f
<1>2. Sum(f, Queues) \in Nat
  BY <1>1, NodesAssumption, SumIsNumber
<1> QED
  BY <1>2 DEF QueuedIn, f

LEMMA HeldInType ==
  ASSUME NEW in \in [Consumers -> Seq(Message)], NEW id
  PROVE  HeldIn(in, id) \in Nat
<1> DEFINE f == [c \in Consumers |-> Number(in[c], MessagesOf(id))]
<1>1. \A c \in Consumers : f[c] \in Nat
  <2> SUFFICES ASSUME NEW c \in Consumers PROVE f[c] \in Nat
    OBVIOUS
  <2>1. in[c] \in Seq(Message)
    OBVIOUS
  <2> QED
    BY <2>1, NumberType
<1> HIDE DEF f
<1>2. Sum(f, Consumers) \in Nat
  BY <1>1, NodesAssumption, SumIsNumber
<1> QED
  BY <1>2 DEF HeldIn, f

LEMMA CountsAreNumbers ==
  ASSUME TypeOK, NEW id \in Ids
  PROVE  /\ Underway(id) \in Nat /\ InQueues(id) \in Nat /\ InHands(id) \in Nat
         /\ acks[id] \in Nat /\ drops[id] \in Nat /\ made[id] \in Nat
<1>1. Underway(id) \in Nat
  BY CountedType DEF TypeOK, Underway
<1>2. acks[id] \in Nat /\ drops[id] \in Nat /\ made[id] \in Nat
  BY DEF TypeOK
<1>3. InQueues(id) \in Nat
  <2>1. queues \in [Queues -> Seq(Entry)]
    BY DEF TypeOK
  <2> QED
    BY <2>1, QueuedInType DEF InQueues
<1>4. InHands(id) \in Nat
  <2>1. unacked \in [Consumers -> Seq(Message)]
    BY DEF TypeOK
  <2> QED
    BY <2>1, HeldInType DEF InHands
<1> QED
  BY <1>1, <1>2, <1>3, <1>4

LEMMA CountsNext ==
  ASSUME TypeOK', NEW id, id \in Ids'
  PROVE  /\ Underway(id)' \in Nat /\ InQueues(id)' \in Nat /\ InHands(id)' \in Nat
         /\ acks'[id] \in Nat /\ drops'[id] \in Nat
<1>1. PICK line : line = later'
  OBVIOUS
<1>2. BagOver(line, LaterEvents)
  BY <1>1 DEF TypeOK
<1>3. Underway(id)' \in Nat
  <2>1. Counted(line, OnTheWay(id)) \in Nat
    BY <1>2, CountedType
  <2> QED
    BY <1>1, <2>1 DEF Underway
<1>4. InQueues(id)' \in Nat
  <2>1. PICK in \in [Queues -> Seq(Entry)] : in = queues'
    BY DEF TypeOK
  <2>2. QueuedIn(in, id) \in Nat
    BY QueuedInType
  <2> QED
    BY <2>1, <2>2 DEF InQueues
<1>5. InHands(id)' \in Nat
  <2>1. PICK in \in [Consumers -> Seq(Message)] : in = unacked'
    BY DEF TypeOK
  <2>2. HeldIn(in, id) \in Nat
    BY HeldInType
  <2> QED
    BY <2>1, <2>2 DEF InHands
<1>6. acks'[id] \in Nat /\ drops'[id] \in Nat
  BY DEF TypeOK
<1> QED
  BY <1>3, <1>4, <1>5, <1>6

LEMMA QueuesMove ==
  ASSUME TypeOK, TypeOK', NEW p \in Queues, \A q \in Queues \ {p} : queues'[q] = queues[q], NEW id
  PROVE  /\ Number(queues[p], EntriesOf(id)) \in Nat /\ Number(queues'[p], EntriesOf(id)) \in Nat
         /\ InQueues(id)' = (InQueues(id) - Number(queues[p], EntriesOf(id)))
                              + Number(queues'[p], EntriesOf(id))
<1>1. PICK old, new \in [Queues -> Seq(Entry)] : old = queues /\ new = queues'
  BY DEF TypeOK
<1>2. InQueues(id) = QueuedIn(old, id) /\ InQueues(id)' = QueuedIn(new, id)
  BY <1>1 DEF InQueues
<1>3. \A q \in Queues \ {p} : new[q] = old[q]
  BY <1>1
<1>4. /\ Number(old[p], EntriesOf(id)) \in Nat /\ Number(new[p], EntriesOf(id)) \in Nat
      /\ QueuedIn(new, id) =
           (QueuedIn(old, id) - Number(old[p], EntriesOf(id))) + Number(new[p], EntriesOf(id))
  BY <1>3, QueuesShift
<1> QED
  BY <1>1, <1>2, <1>4

LEMMA HandsMove ==
  ASSUME TypeOK, TypeOK', NEW c \in Consumers, \A d \in Consumers \ {c} : unacked'[d] = unacked[d], NEW id
  PROVE  /\ Number(unacked[c], MessagesOf(id)) \in Nat /\ Number(unacked'[c], MessagesOf(id)) \in Nat
         /\ InHands(id)' = (InHands(id) - Number(unacked[c], MessagesOf(id)))
                             + Number(unacked'[c], MessagesOf(id))
<1>1. PICK old, new \in [Consumers -> Seq(Message)] : old = unacked /\ new = unacked'
  BY DEF TypeOK
<1>2. InHands(id) = HeldIn(old, id) /\ InHands(id)' = HeldIn(new, id)
  BY <1>1 DEF InHands
<1>3. \A d \in Consumers \ {c} : new[d] = old[d]
  BY <1>1
<1>4. /\ Number(old[c], MessagesOf(id)) \in Nat /\ Number(new[c], MessagesOf(id)) \in Nat
      /\ HeldIn(new, id) =
           (HeldIn(old, id) - Number(old[c], MessagesOf(id))) + Number(new[c], MessagesOf(id))
  BY <1>3, HandsShift
<1> QED
  BY <1>1, <1>2, <1>4

\* A message that leaves a queue for good is under way to the dead-letter
\* exchange, or dropped.
LEMMA BuriedOrDropped ==
  ASSUME TypeOK, NEW msg \in Message, NEW q \in Queues, NEW D, Leaves(msg, q, D), NEW id \in Ids
  PROVE  /\ Counted(D, OnTheWay(id)) \in Nat /\ drops'[id] \in Nat
         /\ Counted(D, OnTheWay(id)) + drops'[id] = drops[id] + Bit(msg, MessagesOf(id))
<1>1. D = Buried(msg, q) /\ drops' = DropsOf(msg, q)
  BY DEF Leaves
<1>2. drops[id] \in Nat /\ input \in Inputs
  BY DEF TypeOK
<1>3. drops'[id] = drops[id] + (IF DeadLetterExchange[q] = NoExchange /\ id = msg.id THEN 1 ELSE 0)
  BY <1>1, DropsType
<1>4. Bit(msg, MessagesOf(id)) = IF msg.id = id THEN 1 ELSE 0
  BY DEF Bit, MessagesOf
<1>5. CASE DeadLetterExchange[q] = NoExchange
  <2>1. D = EmptyBag
    BY <1>1, <1>2, <1>5, BuriedType
  <2>2. Counted(EmptyBag, OnTheWay(id)) = 0
    BY NoneCounts
  <2> QED
    BY <1>2, <1>3, <1>4, <1>5, <2>1, <2>2
<1>6. CASE DeadLetterExchange[q] # NoExchange
  <2>1. PICK e \in RouteEvents : e.msg.id = msg.id /\ D = One(e)
    BY <1>1, <1>2, <1>6, BuriedType
  <2>2. Counted(One(e), OnTheWay(id)) = Bit(e, OnTheWay(id))
    BY OneCounts
  <2>3. Bit(e, OnTheWay(id)) = IF msg.id = id THEN 1 ELSE 0
    BY <2>1 DEF Bit, OnTheWay
  <2> QED
    BY <1>2, <1>3, <1>4, <1>6, <2>1, <2>2, <2>3
<1> QED
  BY <1>5, <1>6

LEMMA UnderwayJoined ==
  ASSUME TypeOK, NEW D, BagOver(D, LaterEvents), later' = Joined(later, D), NEW id
  PROVE  Underway(id)' = Underway(id) + Counted(D, OnTheWay(id))
<1>1. BagOver(later, LaterEvents)
  BY DEF TypeOK
<1>2. Counted(Joined(later, D), OnTheWay(id)) = Counted(later, OnTheWay(id)) + Counted(D, OnTheWay(id))
  BY <1>1, JoinedCounts
<1> QED
  BY <1>2 DEF Underway

LEMMA UnderwayFired ==
  ASSUME TypeOK, NEW x \in DOMAIN later, NEW D, BagOver(D, LaterEvents), later' = Fired(later, x, D), NEW id
  PROVE  Underway(id)' = (Underway(id) - Bit(x, OnTheWay(id))) + Counted(D, OnTheWay(id))
<1>1. BagOver(later, LaterEvents)
  BY DEF TypeOK
<1>2. Counted(Fired(later, x, D), OnTheWay(id)) =
        (Counted(later, OnTheWay(id)) - Bit(x, OnTheWay(id))) + Counted(D, OnTheWay(id))
  BY <1>1, FiredCounts
<1> QED
  BY <1>2 DEF Underway

LEMMA OnlyRoutedIsUnderway ==
  ASSUME NEW x \in WorkEvents \cup TtlEvents, NEW id
  PROVE  Bit(x, OnTheWay(id)) = 0
<1>1. x \notin RouteEvents \cup EnqueueEvents
  BY DEF RouteEvents, EnqueueEvents, WorkEvents, TtlEvents
<1> QED
  BY <1>1 DEF Bit, OnTheWay

\* No copy of the message is lost or doubled.
Balanced(id) == KeptCopies(id)' + made[id] = KeptCopies(id) + made'[id]

\* What a step does to the copies in the queues, the hands and the books it
\* leaves alone.
LEMMA SamePlaces ==
  ASSUME TypeOK, NEW id
  PROVE  /\ queues' = queues => InQueues(id)' = InQueues(id)
         /\ unacked' = unacked => InHands(id)' = InHands(id)
BY DEF InQueues, InHands

\* The copies that come and go, place by place.
LEMMA KeptMoves ==
  ASSUME TypeOK, NEW id \in Ids, NEW u \in Int, NEW q \in Int, NEW h \in Int, NEW a \in Int, NEW d \in Int,
         Underway(id)' = Underway(id) + u, InQueues(id)' = InQueues(id) + q,
         InHands(id)' = InHands(id) + h, acks'[id] = acks[id] + a, drops'[id] = drops[id] + d
  PROVE  /\ KeptCopies(id) \in Nat
         /\ KeptCopies(id)' = KeptCopies(id) + (u + q + h + a + d)
<1>1. /\ Underway(id) \in Nat /\ InQueues(id) \in Nat /\ InHands(id) \in Nat
      /\ acks[id] \in Nat /\ drops[id] \in Nat
  BY CountsAreNumbers
<1>2. PICK k1, k2, k3, k4, k5 \in Nat :
        /\ k1 = Underway(id) /\ k2 = InQueues(id) /\ k3 = InHands(id) /\ k4 = acks[id] /\ k5 = drops[id]
  BY <1>1
<1>3. KeptCopies(id) = k1 + k2 + k3 + k4 + k5
  BY <1>2 DEF KeptCopies
<1>4. KeptCopies(id)' = (k1 + u) + (k2 + q) + (k3 + h) + (k4 + a) + (k5 + d)
  BY <1>2 DEF KeptCopies
<1>5. (k1 + u) + (k2 + q) + (k3 + h) + (k4 + a) + (k5 + d) = (k1 + k2 + k3 + k4 + k5) + (u + q + h + a + d)
  OBVIOUS
<1> QED
  BY <1>3, <1>4, <1>5

LEMMA MintsBalance ==
  ASSUME TypeOK, TypeOK', Mints, NEW id \in Ids, id \in Ids'
  PROVE  Balanced(id)
<1>1. PICK e \in RouteEvents : /\ e.msg.id = counter + 1 /\ later' = Joined(later, One(e))
                               /\ BagOver(One(e), LaterEvents) /\ made' = Add(made, counter + 1, 1)
  BY DEF Mints
<1>2. UNCHANGED <<queues, unacked, acks, drops>>
  BY DEF Mints
<1>3. InQueues(id)' = InQueues(id) /\ InHands(id)' = InHands(id)
  BY <1>2, SamePlaces
<1>4. /\ Underway(id) \in Nat /\ InQueues(id) \in Nat /\ InHands(id) \in Nat
      /\ acks[id] \in Nat /\ drops[id] \in Nat /\ made[id] \in Nat
  BY CountsAreNumbers
<1>5. Underway(id)' = Underway(id) + Counted(One(e), OnTheWay(id))
  BY <1>1, UnderwayJoined
<1>6. Counted(One(e), OnTheWay(id)) = IF counter + 1 = id THEN 1 ELSE 0
  <2>1. Counted(One(e), OnTheWay(id)) = Bit(e, OnTheWay(id))
    BY OneCounts
  <2> QED
    BY <1>1, <2>1 DEF Bit, OnTheWay
<1>7. made'[id] = made[id] + (IF id = counter + 1 THEN 1 ELSE 0)
  <2>1. made \in [Ids -> Nat]
    BY DEF TypeOK
  <2> QED
    BY <1>1, <2>1, AddCounts
<1> QED
  BY <1>2, <1>3, <1>4, <1>5, <1>6, <1>7 DEF Balanced, KeptCopies

\* Each destination gets a copy; without destination the message is dropped.
LEMMA RouteBalance ==
  ASSUME TypeOK, TypeOK', NEW x \in DOMAIN later, Route(x), NEW id \in Ids
  PROVE  Balanced(id)
<1>1. PICK T \in SUBSET (Exchanges \cup Queues) :
        /\ IsFiniteSet(T)
        /\ BagOver(SetToBag(Forwarded(x.msg, T)), LaterEvents)
        /\ later' = Fired(later, x, SetToBag(Forwarded(x.msg, T)))
        /\ made' = Add(made, x.msg.id, Cardinality(T) - (IF T = {} THEN 0 ELSE 1))
        /\ drops' = Add(drops, x.msg.id, IF T = {} THEN 1 ELSE 0)
  BY RouteEffect
<1>2. x \in RouteEvents /\ UNCHANGED <<queues, unacked, acks>>
  BY RouteEffect DEF state
<1>3. InQueues(id)' = InQueues(id) /\ InHands(id)' = InHands(id)
  BY <1>2, SamePlaces
<1>4. /\ Underway(id) \in Nat /\ InQueues(id) \in Nat /\ InHands(id) \in Nat
      /\ acks[id] \in Nat /\ drops[id] \in Nat /\ made[id] \in Nat
  BY CountsAreNumbers
<1>5. Cardinality(T) \in Nat /\ (T = {} <=> Cardinality(T) = 0)
  BY <1>1, FS_CardinalityType, FS_EmptySet
<1>6. PICK n \in Nat : n = Cardinality(T) - (IF T = {} THEN 0 ELSE 1)
  BY <1>5
<1>7. PICK k \in Nat : k = IF T = {} THEN 1 ELSE 0
  OBVIOUS
<1>8. made'[id] = made[id] + (IF id = x.msg.id THEN n ELSE 0)
  <2>1. made \in [Ids -> Nat] /\ made' = Add(made, x.msg.id, n)
    BY <1>1, <1>6 DEF TypeOK
  <2> QED
    BY <2>1, AddCounts
<1>9. drops'[id] = drops[id] + (IF id = x.msg.id THEN k ELSE 0)
  <2>1. drops \in [Ids -> Nat] /\ drops' = Add(drops, x.msg.id, k)
    BY <1>1, <1>7 DEF TypeOK
  <2> QED
    BY <2>1, AddCounts
<1>10. Underway(id)' = (Underway(id) - Bit(x, OnTheWay(id)))
                         + Counted(SetToBag(Forwarded(x.msg, T)), OnTheWay(id))
  BY <1>1, UnderwayFired
<1>11. Counted(SetToBag(Forwarded(x.msg, T)), OnTheWay(id)) = IF x.msg.id = id THEN Cardinality(T) ELSE 0
  <2>1. x.msg \in Message
    BY <1>2 DEF RouteEvents
  <2> QED
    BY <1>1, <2>1, ForwardedType
<1>12. Bit(x, OnTheWay(id)) = IF x.msg.id = id THEN 1 ELSE 0
  BY <1>2 DEF Bit, OnTheWay
<1>13. CASE x.msg.id = id
  <2>1. Underway(id)' = (Underway(id) - 1) + Cardinality(T)
    BY <1>10, <1>11, <1>12, <1>13
  <2>2. made'[id] = made[id] + n /\ drops'[id] = drops[id] + k
    BY <1>8, <1>9, <1>13
  <2>3. \/ Cardinality(T) = 0 /\ n = 0 /\ k = 1
        \/ Cardinality(T) = n + 1 /\ k = 0
    BY <1>5, <1>6, <1>7
  <2> QED
    BY <1>2, <1>3, <1>4, <1>5, <2>1, <2>2, <2>3 DEF Balanced, KeptCopies
<1>14. CASE x.msg.id # id
  <2>1. Underway(id)' = Underway(id) /\ made'[id] = made[id] /\ drops'[id] = drops[id]
    BY <1>4, <1>8, <1>9, <1>10, <1>11, <1>12, <1>14
  <2> QED
    BY <1>2, <1>3, <1>4, <2>1 DEF Balanced, KeptCopies
<1> QED
  BY <1>13, <1>14

\* An enqueued copy joins the queue; drop-head overflow buries or drops another.
LEMMA EnqueueBalance ==
  ASSUME TypeOK, TypeOK', NEW x \in DOMAIN later, Enqueue(x), NEW id \in Ids
  PROVE  Balanced(id)
<1>1. PICK entry \in Entry, grown \in Seq(Entry), kept \in Seq(Entry) : \E timer, burial :
        Enqueued(x, entry, grown, kept, timer, burial)
  BY EnqueueEffect
<1>2. PICK timer, burial : Enqueued(x, entry, grown, kept, timer, burial)
  BY <1>1
<1>3. x \in EnqueueEvents /\ UNCHANGED <<unacked, made, acks>>
  BY EnqueueEffect DEF Keeps
<1>4. PICK p \in Queues : p = x.queue
  BY <1>3 DEF EnqueueEvents
<1>5. /\ Underway(id) \in Nat /\ InQueues(id) \in Nat /\ InHands(id) \in Nat
      /\ acks[id] \in Nat /\ drops[id] \in Nat /\ made[id] \in Nat
  BY CountsAreNumbers
<1>6. InHands(id)' = InHands(id)
  BY <1>3, SamePlaces
<1>7. queues'[p] = kept /\ \A q \in Queues \ {p} : queues'[q] = queues[q]
  BY <1>2, <1>4 DEF Enqueued, TypeOK
<1>8. /\ Number(queues[p], EntriesOf(id)) \in Nat /\ Number(kept, EntriesOf(id)) \in Nat
      /\ InQueues(id)' = (InQueues(id) - Number(queues[p], EntriesOf(id))) + Number(kept, EntriesOf(id))
  BY <1>7, QueuesMove
<1>9. Number(grown, EntriesOf(id)) = Number(queues[p], EntriesOf(id)) + Bit(entry, EntriesOf(id))
  BY <1>2, <1>4 DEF Enqueued
<1>10. Bit(x, OnTheWay(id)) = Bit(entry, EntriesOf(id)) /\ Bit(entry, EntriesOf(id)) \in {0, 1}
  <2>1. entry.msg = x.msg
    BY <1>2 DEF Enqueued
  <2> QED
    BY <1>3, <2>1 DEF Bit, OnTheWay, EntriesOf
<1>11. Underway(id)' = (Underway(id) - Bit(x, OnTheWay(id))) + Counted(burial, OnTheWay(id))
  <2>1. /\ later' = Fired(later, x, Joined(timer, burial)) /\ BagOver(Joined(timer, burial), LaterEvents)
        /\ BagOver(timer, LaterEvents) /\ BagOver(burial, LaterEvents)
    BY <1>2 DEF Enqueued
  <2>2. Underway(id)' = (Underway(id) - Bit(x, OnTheWay(id))) + Counted(Joined(timer, burial), OnTheWay(id))
    BY <2>1, UnderwayFired
  <2>3. Counted(Joined(timer, burial), OnTheWay(id)) = Counted(timer, OnTheWay(id)) + Counted(burial, OnTheWay(id))
    BY <2>1, JoinedCounts
  <2>4. Counted(timer, OnTheWay(id)) = 0
    <3>1. PICK t \in TtlEvents : timer = EmptyBag \/ timer = One(t)
      <4>1. timer = Timer(x.msg.id, p, entry.stay, kept)
        BY <1>2, <1>4 DEF Enqueued
      <4>2. timer \in {EmptyBag, One(TtlEvent(x.msg.id, p, entry.stay))}
        <5>1. x.msg.id \in Nat /\ entry.stay \in Nat
          BY <1>3 DEF EnqueueEvents, Message, Entry
        <5> QED
          BY <4>1, <5>1, TimerType
      <4>3. TtlEvent(x.msg.id, p, entry.stay) \in TtlEvents
        BY <1>3 DEF EnqueueEvents, Message, Entry, TtlEvent, TtlEvents
      <4> QED
        BY <4>2, <4>3
    <3>2. Counted(EmptyBag, OnTheWay(id)) = 0
      BY NoneCounts
    <3>3. Counted(One(t), OnTheWay(id)) = Bit(t, OnTheWay(id))
      BY OneCounts
    <3>4. Bit(t, OnTheWay(id)) = 0
      BY OnlyRoutedIsUnderway
    <3> QED
      BY <3>1, <3>2, <3>3, <3>4
  <2>5. Counted(burial, OnTheWay(id)) \in Nat
    BY <2>1, CountedType
  <2> QED
    BY <2>2, <2>3, <2>4, <2>5
<1>12. CASE kept = grown /\ drops' = drops /\ burial = EmptyBag
  <2>1. Counted(burial, OnTheWay(id)) = 0
    BY <1>12, NoneCounts
  <2> QED
    BY <1>3, <1>5, <1>6, <1>8, <1>9, <1>10, <1>11, <1>12, <2>1 DEF Balanced, KeptCopies
<1>13. CASE kept = Tail(grown) /\ Leaves(Head(grown).msg, x.queue, burial)
  <2>1. grown # <<>>
    BY <1>2 DEF Enqueued
  <2>2. /\ Head(grown) \in Entry
        /\ Number(grown, EntriesOf(id)) = Bit(Head(grown), EntriesOf(id)) + Number(kept, EntriesOf(id))
    BY <1>13, <2>1, NumberOfTail
  <2>3. PICK msg \in Message : msg = Head(grown).msg
    BY <2>2 DEF Entry
  <2>4. /\ Counted(burial, OnTheWay(id)) \in Nat /\ drops'[id] \in Nat
        /\ Counted(burial, OnTheWay(id)) + drops'[id] = drops[id] + Bit(msg, MessagesOf(id))
    BY <1>4, <1>13, <2>3, BuriedOrDropped
  <2>5. Bit(Head(grown), EntriesOf(id)) = Bit(msg, MessagesOf(id)) /\ Bit(msg, MessagesOf(id)) \in {0, 1}
    BY <2>2, <2>3, BitOfEntry DEF Bit
  <2>6. PICK gone, came, sent, n, k \in Nat :
          /\ gone = Bit(msg, MessagesOf(id)) /\ came = Bit(entry, EntriesOf(id))
          /\ sent = Counted(burial, OnTheWay(id))
          /\ n = Number(queues[p], EntriesOf(id)) /\ k = Number(kept, EntriesOf(id))
    BY <1>8, <1>10, <2>4, <2>5
  <2>7. n + came = gone + k
    BY <1>9, <2>2, <2>5, <2>6
  <2>8. InQueues(id)' = InQueues(id) + (k - n)
    BY <1>5, <1>8, <2>6
  <2>9. Underway(id)' = Underway(id) + (sent - came)
    BY <1>5, <1>10, <1>11, <2>6
  <2>10. drops'[id] = drops[id] + (gone - sent)
    <3>1. PICK before, after \in Nat : before = drops[id] /\ after = drops'[id]
      BY <1>5, <2>4
    <3>2. sent + after = before + gone
      BY <2>4, <2>6, <3>1
    <3>3. after = before + (gone - sent)
      BY <3>2
    <3> QED
      BY <3>1, <3>3
  <2>11. InHands(id)' = InHands(id) + 0 /\ acks'[id] = acks[id] + 0 /\ made'[id] = made[id]
    BY <1>3, <1>5, <1>6
  <2>12. PICK k1, k2, k3, k4, k5 \in Nat :
           /\ k1 = Underway(id) /\ k2 = InQueues(id) /\ k3 = InHands(id)
           /\ k4 = acks[id] /\ k5 = drops[id]
    BY CountsAreNumbers
  <2>13. KeptCopies(id)' = (k1 + (sent - came)) + (k2 + (k - n)) + k3 + k4 + (k5 + (gone - sent))
    <3>1. /\ Underway(id)' = k1 + (sent - came) /\ InQueues(id)' = k2 + (k - n)
          /\ InHands(id)' = k3 /\ acks'[id] = k4 /\ drops'[id] = k5 + (gone - sent)
      BY <2>8, <2>9, <2>10, <2>11, <2>12
    <3> QED
      BY <3>1 DEF KeptCopies
  <2>14. KeptCopies(id) = k1 + k2 + k3 + k4 + k5
    BY <2>12 DEF KeptCopies
  <2>15. KeptCopies(id)' = k1 + k2 + k3 + k4 + k5
    BY <2>7, <2>13
  <2>16. KeptCopies(id)' = KeptCopies(id)
    BY <2>14, <2>15
  <2> QED
    BY <1>5, <2>11, <2>16 DEF Balanced
<1> QED
  BY <1>2, <1>12, <1>13 DEF Enqueued

\* An expired copy is buried or dropped.
LEMMA ExpiryBalance ==
  ASSUME TypeOK, TypeOK', NEW x \in DOMAIN later, TtlExpire(x), NEW id \in Ids
  PROVE  Balanced(id)
<1>1. PICK burial :
        /\ BagOver(burial, LaterEvents) /\ later' = Fired(later, x, burial)
        /\ \/ UNCHANGED <<queues, drops>> /\ burial = EmptyBag
           \/ \E i \in 1 .. Len(queues[x.queue]) :
                /\ queues' = [queues EXCEPT ![x.queue] = RemoveAt(queues[x.queue], i)]
                /\ Leaves(queues[x.queue][i].msg, x.queue, burial)
  BY TtlExpireEffect
<1>2. x \in TtlEvents /\ UNCHANGED <<unacked, made, acks>>
  BY TtlExpireEffect DEF Keeps
<1>3. PICK p \in Queues : p = x.queue
  BY <1>2 DEF TtlEvents
<1>4. /\ Underway(id) \in Nat /\ InQueues(id) \in Nat /\ InHands(id) \in Nat
      /\ acks[id] \in Nat /\ drops[id] \in Nat /\ made[id] \in Nat
  BY CountsAreNumbers
<1>5. InHands(id)' = InHands(id) + 0 /\ acks'[id] = acks[id] + 0 /\ made'[id] = made[id]
  BY <1>2, <1>4, SamePlaces
<1>6. Underway(id)' = Underway(id) + Counted(burial, OnTheWay(id)) /\ Counted(burial, OnTheWay(id)) \in Nat
  <2>1. Underway(id)' = (Underway(id) - Bit(x, OnTheWay(id))) + Counted(burial, OnTheWay(id))
    BY <1>1, UnderwayFired
  <2>2. Bit(x, OnTheWay(id)) = 0
    BY <1>2, OnlyRoutedIsUnderway
  <2>3. Counted(burial, OnTheWay(id)) \in Nat
    BY <1>1, CountedType
  <2> QED
    BY <1>4, <2>1, <2>2, <2>3
<1>7. CASE UNCHANGED <<queues, drops>> /\ burial = EmptyBag
  <2>1. Counted(burial, OnTheWay(id)) = 0
    BY <1>7, NoneCounts
  <2>2. Underway(id)' = Underway(id) + 0 /\ drops'[id] = drops[id] + 0
    BY <1>4, <1>6, <1>7, <2>1
  <2>3. InQueues(id)' = InQueues(id) + 0
    BY <1>4, <1>7, SamePlaces
  <2>4. KeptCopies(id) \in Nat /\ KeptCopies(id)' = KeptCopies(id) + (0 + 0 + 0 + 0 + 0)
    BY <1>5, <2>2, <2>3, KeptMoves
  <2> QED
    BY <1>4, <1>5, <2>4 DEF Balanced
<1>8. ASSUME NEW i \in 1 .. Len(queues[p]),
             queues' = [queues EXCEPT ![p] = RemoveAt(queues[p], i)],
             Leaves(queues[p][i].msg, p, burial)
      PROVE  Balanced(id)
  <2>1. queues[p] \in Seq(Entry)
    BY DEF TypeOK
  <2>2. /\ Number(queues[p], EntriesOf(id)) =
             Number(RemoveAt(queues[p], i), EntriesOf(id)) + Bit(queues[p][i], EntriesOf(id))
        /\ queues[p][i] \in Entry
    BY <1>8, <2>1, NumberRemoved
  <2>3. PICK msg \in Message : msg = queues[p][i].msg
    BY <2>2 DEF Entry
  <2>4. /\ Counted(burial, OnTheWay(id)) \in Nat /\ drops'[id] \in Nat
        /\ Counted(burial, OnTheWay(id)) + drops'[id] = drops[id] + Bit(msg, MessagesOf(id))
    BY <1>8, <2>3, BuriedOrDropped
  <2>5. Bit(queues[p][i], EntriesOf(id)) = Bit(msg, MessagesOf(id)) /\ Bit(msg, MessagesOf(id)) \in {0, 1}
    BY <2>2, <2>3, BitOfEntry DEF Bit
  <2>6. /\ Number(queues[p], EntriesOf(id)) \in Nat /\ Number(queues'[p], EntriesOf(id)) \in Nat
        /\ InQueues(id)' = (InQueues(id) - Number(queues[p], EntriesOf(id)))
                             + Number(queues'[p], EntriesOf(id))
    <3>1. \A q \in Queues \ {p} : queues'[q] = queues[q]
      BY <1>8 DEF TypeOK
    <3> QED
      BY <3>1, QueuesMove
  <2>7. queues'[p] = RemoveAt(queues[p], i)
    BY <1>8 DEF TypeOK
  <2>8. PICK gone, sent, n, k, before, after \in Nat :
          /\ gone = Bit(msg, MessagesOf(id)) /\ sent = Counted(burial, OnTheWay(id))
          /\ n = Number(queues[p], EntriesOf(id)) /\ k = Number(queues'[p], EntriesOf(id))
          /\ before = drops[id] /\ after = drops'[id]
    BY <1>4, <2>4, <2>5, <2>6
  <2>9. n = k + gone
    BY <2>2, <2>5, <2>7, <2>8
  <2>10. InQueues(id)' = InQueues(id) + (k - n)
    BY <1>4, <2>6, <2>8
  <2>11. after = before + (gone - sent)
    <3>1. sent + after = before + gone
      BY <2>4, <2>8
    <3> QED
      BY <3>1
  <2>12. PICK fewer, more \in Int : fewer = k - n /\ more = gone - sent
    OBVIOUS
  <2>13. /\ Underway(id)' = Underway(id) + sent /\ drops'[id] = drops[id] + more
         /\ InQueues(id)' = InQueues(id) + fewer
    BY <1>6, <2>8, <2>10, <2>11, <2>12
  <2>14. KeptCopies(id) \in Nat /\ KeptCopies(id)' = KeptCopies(id) + (sent + fewer + 0 + 0 + more)
    BY <1>5, <2>13, KeptMoves
  <2>15. sent + fewer + 0 + 0 + more = 0
    BY <2>9, <2>12
  <2> QED
    BY <1>4, <1>5, <2>14, <2>15 DEF Balanced
<1> QED
  BY <1>1, <1>3, <1>7, <1>8

\* The head of a queue goes to the hands of a consumer.
LEMMA DispatchBalance ==
  ASSUME TypeOK, TypeOK', AutoAck = {}, Dispatch, NEW id \in Ids
  PROVE  Balanced(id)
<1>1. UNCHANGED history
  BY DispatchEffect
<1>2. /\ Underway(id) \in Nat /\ InQueues(id) \in Nat /\ InHands(id) \in Nat
      /\ acks[id] \in Nat /\ drops[id] \in Nat /\ made[id] \in Nat
  BY CountsAreNumbers
<1>3. acks'[id] = acks[id] + 0 /\ drops'[id] = drops[id] + 0 /\ made'[id] = made[id]
  BY <1>1, <1>2 DEF history
<1>4. CASE later' = Joined(later, EmptyBag) /\ UNCHANGED <<queues, unacked>>
  <2>1. Underway(id)' = Underway(id) + Counted(EmptyBag, OnTheWay(id))
    BY <1>4, NoneBag, UnderwayJoined
  <2>2. Counted(EmptyBag, OnTheWay(id)) = 0
    BY NoneCounts
  <2>3. Underway(id)' = Underway(id) + 0
    BY <2>1, <2>2
  <2>4. InQueues(id)' = InQueues(id) + 0 /\ InHands(id)' = InHands(id) + 0
    BY <1>2, <1>4, SamePlaces
  <2>5. KeptCopies(id) \in Nat /\ KeptCopies(id)' = KeptCopies(id) + (0 + 0 + 0 + 0 + 0)
    BY <1>3, <2>3, <2>4, KeptMoves
  <2> QED
    BY <1>2, <1>3, <2>5 DEF Balanced
<1>5. ASSUME NEW p \in Queues, NEW c \in Consumers, NEW e \in WorkEvents,
             queues[p] # <<>>, e.msg = Head(queues[p]).msg,
             BagOver(One(e), LaterEvents), later' = Joined(later, One(e)),
             queues' = [queues EXCEPT ![p] = Tail(queues[p])],
             unacked' = [unacked EXCEPT ![c] = Append(unacked[c], e.msg)]
      PROVE  Balanced(id)
  <2>1. Underway(id)' = Underway(id) + 0
    <3>1. Underway(id)' = Underway(id) + Counted(One(e), OnTheWay(id))
      BY <1>5, UnderwayJoined
    <3>2. Counted(One(e), OnTheWay(id)) = Bit(e, OnTheWay(id))
      BY OneCounts
    <3>3. Bit(e, OnTheWay(id)) = 0
      BY OnlyRoutedIsUnderway
    <3> QED
      BY <3>1, <3>2, <3>3
  <2>2. PICK bit \in Nat : bit = Bit(e.msg, MessagesOf(id))
    BY DEF Bit
  <2>3. InQueues(id)' = InQueues(id) + (0 - bit)
    <3>1. queues[p] \in Seq(Entry) /\ queues'[p] = Tail(queues[p])
          /\ \A q \in Queues \ {p} : queues'[q] = queues[q]
      BY <1>5 DEF TypeOK
    <3>2. /\ Number(queues[p], EntriesOf(id)) =
               Bit(Head(queues[p]), EntriesOf(id)) + Number(Tail(queues[p]), EntriesOf(id))
          /\ Head(queues[p]) \in Entry
      BY <1>5, <3>1, NumberOfTail
    <3>3. Bit(Head(queues[p]), EntriesOf(id)) = bit
      BY <1>5, <2>2, <3>2, BitOfEntry
    <3>4. /\ Number(queues[p], EntriesOf(id)) \in Nat /\ Number(queues'[p], EntriesOf(id)) \in Nat
          /\ InQueues(id)' = (InQueues(id) - Number(queues[p], EntriesOf(id)))
                               + Number(queues'[p], EntriesOf(id))
      BY <3>1, QueuesMove
    <3>5. PICK n, k \in Nat : n = Number(queues[p], EntriesOf(id)) /\ k = Number(queues'[p], EntriesOf(id))
      BY <3>4
    <3>6. n = bit + k
      BY <3>1, <3>2, <3>3, <3>5
    <3>7. InQueues(id)' = (InQueues(id) - n) + k
      BY <3>4, <3>5
    <3> QED
      BY <1>2, <3>6, <3>7
  <2>4. InHands(id)' = InHands(id) + bit
    <3>1. unacked[c] \in Seq(Message) /\ unacked'[c] = Append(unacked[c], e.msg) /\ e.msg \in Message
          /\ \A d \in Consumers \ {c} : unacked'[d] = unacked[d]
      BY <1>5 DEF TypeOK, WorkEvents
    <3>2. Number(unacked'[c], MessagesOf(id)) = Number(unacked[c], MessagesOf(id)) + bit
      BY <2>2, <3>1, NumberAppended
    <3>3. /\ Number(unacked[c], MessagesOf(id)) \in Nat /\ Number(unacked'[c], MessagesOf(id)) \in Nat
          /\ InHands(id)' = (InHands(id) - Number(unacked[c], MessagesOf(id)))
                              + Number(unacked'[c], MessagesOf(id))
      BY <3>1, HandsMove
    <3>4. PICK n, k \in Nat : n = Number(unacked[c], MessagesOf(id)) /\ k = Number(unacked'[c], MessagesOf(id))
      BY <3>3
    <3>5. k = n + bit
      BY <3>2, <3>4
    <3>6. InHands(id)' = (InHands(id) - n) + k
      BY <3>3, <3>4
    <3> QED
      BY <1>2, <3>5, <3>6
  <2>5. KeptCopies(id) \in Nat /\ KeptCopies(id)' = KeptCopies(id) + (0 + (0 - bit) + bit + 0 + 0)
    BY <1>3, <2>1, <2>3, <2>4, KeptMoves
  <2>6. 0 + (0 - bit) + bit + 0 + 0 = 0
    OBVIOUS
  <2> QED
    BY <1>2, <1>3, <2>5, <2>6 DEF Balanced
<1>6. PICK p \in Queues : p = Head(urgent).queue
  BY DispatchEffect DEF DispatchEvents
<1>7. \/ later' = Joined(later, EmptyBag) /\ UNCHANGED <<queues, unacked>>
      \/ \E c \in Consumers, e \in WorkEvents :
           /\ queues[p] # <<>> /\ e.msg = Head(queues[p]).msg
           /\ BagOver(One(e), LaterEvents) /\ later' = Joined(later, One(e))
           /\ queues' = [queues EXCEPT ![p] = Tail(queues[p])]
           /\ unacked' = [unacked EXCEPT ![c] = Append(unacked[c], e.msg)]
  <2>1. \A c \in Consumers : c \notin AutoAck
    OBVIOUS
  <2> QED
    BY <1>6, <2>1, DispatchEffect
<1> QED
  BY <1>4, <1>5, <1>7

\* A crash gives back what its consumer held.
LEMMA CrashBalance ==
  ASSUME TypeOK, TypeOK', NEW c \in Consumers, Crash(c), NEW id \in Ids
  PROVE  Balanced(id)
<1>1. PICK p \in Queues : p = QueueOf[c]
  BY InputFacts DEF TypeOK
<1>2. PICK queue \in Seq(Entry) :
        queues' = [queues EXCEPT ![p] = queue] /\ GivenBack(c, queue)
  BY <1>1, CrashEffect
<1>3. /\ later' = Joined(later, EmptyBag) /\ unacked' = [unacked EXCEPT ![c] = <<>>]
      /\ UNCHANGED history
  BY CrashEffect
<1>4. /\ Underway(id) \in Nat /\ InQueues(id) \in Nat /\ InHands(id) \in Nat
      /\ acks[id] \in Nat /\ drops[id] \in Nat /\ made[id] \in Nat
  BY CountsAreNumbers
<1>5. acks'[id] = acks[id] + 0 /\ drops'[id] = drops[id] + 0 /\ made'[id] = made[id]
  BY <1>3, <1>4 DEF history
<1>6. Underway(id)' = Underway(id) + 0
  <2>1. Underway(id)' = Underway(id) + Counted(EmptyBag, OnTheWay(id))
    BY <1>3, NoneBag, UnderwayJoined
  <2>2. Counted(EmptyBag, OnTheWay(id)) = 0
    BY NoneCounts
  <2> QED
    BY <2>1, <2>2
<1>7. /\ Number(queues[p], EntriesOf(id)) \in Nat /\ Number(queue, EntriesOf(id)) \in Nat
      /\ InQueues(id)' = (InQueues(id) - Number(queues[p], EntriesOf(id))) + Number(queue, EntriesOf(id))
  <2>1. queues'[p] = queue /\ \A q \in Queues \ {p} : queues'[q] = queues[q]
    BY <1>2 DEF TypeOK
  <2> QED
    BY <2>1, QueuesMove
<1>8. /\ Number(unacked[c], MessagesOf(id)) \in Nat
      /\ InHands(id)' = (InHands(id) - Number(unacked[c], MessagesOf(id))) + 0
  <2>1. unacked'[c] = <<>> /\ \A d \in Consumers \ {c} : unacked'[d] = unacked[d]
    BY <1>3 DEF TypeOK
  <2>2. Number(unacked'[c], MessagesOf(id)) = 0
    BY <2>1, NumberOfOne
  <2>3. /\ Number(unacked[c], MessagesOf(id)) \in Nat
        /\ InHands(id)' = (InHands(id) - Number(unacked[c], MessagesOf(id)))
                            + Number(unacked'[c], MessagesOf(id))
    BY <2>1, HandsMove
  <2> QED
    BY <2>2, <2>3
<1>9. PICK held, n, k \in Nat : /\ held = Number(unacked[c], MessagesOf(id))
                                /\ n = Number(queues[p], EntriesOf(id)) /\ k = Number(queue, EntriesOf(id))
  BY <1>7, <1>8
<1>10. k = n + held
  BY <1>1, <1>2, <1>9 DEF GivenBack
<1>11. InQueues(id)' = InQueues(id) + held
  <2>1. InQueues(id)' = (InQueues(id) - n) + k
    BY <1>7, <1>9
  <2> QED
    BY <1>4, <1>10, <2>1
<1>12. PICK gone, back \in Int : gone = 0 - held /\ back = held
  OBVIOUS
<1>13. InHands(id)' = InHands(id) + gone /\ InQueues(id)' = InQueues(id) + back
  BY <1>4, <1>8, <1>9, <1>11, <1>12
<1>14. KeptCopies(id) \in Nat /\ KeptCopies(id)' = KeptCopies(id) + (0 + back + gone + 0 + 0)
  BY <1>5, <1>6, <1>13, KeptMoves
<1>15. 0 + back + gone + 0 + 0 = 0
  BY <1>12
<1> QED
  BY <1>4, <1>5, <1>14, <1>15 DEF Balanced

\* An ack counts one copy, and a nack puts back, buries or drops one: that makes
\* up for what the consumer held of the message, if it held one copy.
SettleBalanced(e, id) ==
  KeptCopies(id)' = KeptCopies(id) +
    (IF e.msg.id = id THEN 1 - Number(unacked[e.consumer], MessagesOf(id)) ELSE 0)

LEMMA ReleasedMoves ==
  ASSUME TypeOK, TypeOK', NEW e \in SettleEvents, unacked' = Released(e.consumer, e.msg.id), NEW id
  PROVE  /\ Number(unacked[e.consumer], MessagesOf(id)) \in Nat
         /\ InHands(id) \in Int =>
              InHands(id)' = InHands(id) -
                (IF e.msg.id = id THEN Number(unacked[e.consumer], MessagesOf(id)) ELSE 0)
<1>1. PICK c \in Consumers, j \in Nat : c = e.consumer /\ j = e.msg.id
  BY DEF SettleEvents, Message
<1>2. /\ unacked'[c] = Rest(c, j) /\ \A d \in Consumers \ {c} : unacked'[d] = unacked[d]
      /\ Number(Rest(c, j), MessagesOf(j)) = 0
      /\ \A i : i # j => Number(Rest(c, j), MessagesOf(i)) = Number(unacked[c], MessagesOf(i))
  BY <1>1, ReleasedKeeps
<1>3. /\ Number(unacked[c], MessagesOf(id)) \in Nat
      /\ InHands(id)' = (InHands(id) - Number(unacked[c], MessagesOf(id)))
                          + Number(unacked'[c], MessagesOf(id))
  BY <1>2, HandsMove
<1>4. PICK held \in Nat : held = Number(unacked[c], MessagesOf(id))
  BY <1>3
<1>5. CASE j = id
  <2>1. Number(unacked'[c], MessagesOf(id)) = 0
    BY <1>2, <1>5
  <2>2. InHands(id)' = (InHands(id) - held) + 0
    BY <1>3, <1>4, <2>1
  <2> QED
    BY <1>1, <1>4, <1>5, <2>2
<1>6. CASE j # id
  <2>1. Number(unacked'[c], MessagesOf(id)) = held
    BY <1>2, <1>4, <1>6
  <2>2. InHands(id)' = (InHands(id) - held) + held
    BY <1>3, <1>4, <2>1
  <2> QED
    BY <1>1, <1>4, <1>6, <2>2
<1> QED
  BY <1>5, <1>6

LEMMA AckBalance ==
  ASSUME TypeOK, TypeOK', Ack, NEW id \in Ids
  PROVE  /\ made'[id] = made[id]
         /\ \E e \in SettleEvents : urgent # <<>> /\ e = Head(urgent) /\ SettleBalanced(e, id)
<1>1. PICK e \in SettleEvents :
        /\ urgent # <<>> /\ e = Head(urgent)
        /\ unacked' = Released(e.consumer, e.msg.id)
        /\ acks' = Add(acks, e.msg.id, 1)
        /\ later' = Joined(later, EmptyBag)
  BY AckEffect
<1>2. UNCHANGED <<queues, made, drops>>
  BY AckEffect
<1>3. /\ Underway(id) \in Nat /\ InQueues(id) \in Nat /\ InHands(id) \in Nat
      /\ acks[id] \in Nat /\ drops[id] \in Nat /\ made[id] \in Nat
  BY CountsAreNumbers
<1>4. Underway(id)' = Underway(id) + 0
  <2>1. Underway(id)' = Underway(id) + Counted(EmptyBag, OnTheWay(id))
    BY <1>1, NoneBag, UnderwayJoined
  <2>2. Counted(EmptyBag, OnTheWay(id)) = 0
    BY NoneCounts
  <2> QED
    BY <2>1, <2>2
<1>5. InQueues(id)' = InQueues(id) + 0 /\ drops'[id] = drops[id] + 0
  BY <1>2, <1>3, SamePlaces
<1>6. PICK counted \in Nat : counted = IF e.msg.id = id THEN 1 ELSE 0
  OBVIOUS
<1>7. acks'[id] = acks[id] + counted
  <2>1. acks \in [Ids -> Nat]
    BY DEF TypeOK
  <2>2. \A i \in Ids : Add(acks, e.msg.id, 1)[i] = acks[i] + (IF i = e.msg.id THEN 1 ELSE 0)
    BY <2>1, AddCounts
  <2> QED
    BY <1>1, <1>6, <2>2
<1>8. PICK gone \in Int :
        gone = 0 - (IF e.msg.id = id THEN Number(unacked[e.consumer], MessagesOf(id)) ELSE 0)
  BY <1>1, ReleasedMoves
<1>9. InHands(id)' = InHands(id) + gone
  BY <1>1, <1>3, <1>8, ReleasedMoves
<1>10. KeptCopies(id)' = KeptCopies(id) + (0 + 0 + gone + counted + 0) /\ KeptCopies(id) \in Nat
  BY <1>4, <1>5, <1>7, <1>9, KeptMoves
<1>11. Number(unacked[e.consumer], MessagesOf(id)) \in Nat
  BY <1>1, ReleasedMoves
<1>12. SettleBalanced(e, id)
  BY <1>6, <1>8, <1>10, <1>11 DEF SettleBalanced
<1> QED
  BY <1>1, <1>2, <1>12

LEMMA NackBalance ==
  ASSUME TypeOK, TypeOK', Nack, NEW id \in Ids
  PROVE  /\ made'[id] = made[id]
         /\ \E e \in SettleEvents : urgent # <<>> /\ e = Head(urgent) /\ SettleBalanced(e, id)
<1>1. PICK e \in SettleEvents :
        /\ urgent # <<>> /\ e = Head(urgent)
        /\ unacked' = Released(e.consumer, e.msg.id)
        /\ \/ \E entry \in Entry, queue \in Seq(Entry) :
                /\ e.consumer \in RequeueOnNack
                /\ entry.msg.id = e.msg.id
                /\ \A S : Number(queue, S) = Number(queues[e.queue], S) + Bit(entry, S)
                /\ queues' = [queues EXCEPT ![e.queue] = queue]
                /\ later' = Joined(later, EmptyBag) /\ UNCHANGED drops
           \/ \E burial :
                /\ e.consumer \notin RequeueOnNack
                /\ Leaves(e.msg, e.queue, burial) /\ UNCHANGED queues
                /\ BagOver(burial, LaterEvents) /\ DOMAIN burial \subseteq RouteEvents
                /\ later' = Joined(later, burial)
  BY NackEffect
<1>2. UNCHANGED <<made, acks>>
  BY NackEffect
<1>3. /\ Underway(id) \in Nat /\ InQueues(id) \in Nat /\ InHands(id) \in Nat
      /\ acks[id] \in Nat /\ drops[id] \in Nat /\ made[id] \in Nat
  BY CountsAreNumbers
<1>4. PICK back \in Nat : back = IF e.msg.id = id THEN 1 ELSE 0
  OBVIOUS
<1>5. PICK gone \in Int :
        gone = 0 - (IF e.msg.id = id THEN Number(unacked[e.consumer], MessagesOf(id)) ELSE 0)
  BY <1>1, ReleasedMoves
<1>6. InHands(id)' = InHands(id) + gone
  BY <1>1, <1>3, <1>5, ReleasedMoves
<1>7. Number(unacked[e.consumer], MessagesOf(id)) \in Nat
  BY <1>1, ReleasedMoves
<1>8. acks'[id] = acks[id] + 0
  BY <1>2, <1>3
<1>9. e.queue \in Queues /\ e.msg \in Message
  BY DEF SettleEvents
<1>10. SUFFICES KeptCopies(id) \in Nat /\ KeptCopies(id)' = KeptCopies(id) + (gone + back)
  BY <1>1, <1>2, <1>4, <1>5, <1>7 DEF SettleBalanced
<1>11. ASSUME NEW entry \in Entry, NEW queue \in Seq(Entry), entry.msg.id = e.msg.id,
              \A S : Number(queue, S) = Number(queues[e.queue], S) + Bit(entry, S),
              queues' = [queues EXCEPT ![e.queue] = queue],
              later' = Joined(later, EmptyBag), UNCHANGED drops
       PROVE  KeptCopies(id) \in Nat /\ KeptCopies(id)' = KeptCopies(id) + (gone + back)
  <2>1. Underway(id)' = Underway(id) + Counted(EmptyBag, OnTheWay(id))
    BY <1>11, NoneBag, UnderwayJoined
  <2>2. Counted(EmptyBag, OnTheWay(id)) = 0
    BY NoneCounts
  <2>3. Underway(id)' = Underway(id) + 0 /\ drops'[id] = drops[id] + 0
    BY <1>3, <1>11, <2>1, <2>2
  <2>4. queues'[e.queue] = queue /\ \A q \in Queues \ {e.queue} : queues'[q] = queues[q]
    BY <1>9, <1>11 DEF TypeOK
  <2>5. Bit(entry, EntriesOf(id)) = back
    BY <1>4, <1>11 DEF Bit, EntriesOf
  <2>6. Number(queues'[e.queue], EntriesOf(id)) = Number(queues[e.queue], EntriesOf(id)) + back
    BY <1>11, <2>4, <2>5
  <2>7. /\ Number(queues[e.queue], EntriesOf(id)) \in Nat /\ Number(queues'[e.queue], EntriesOf(id)) \in Nat
        /\ InQueues(id)' = (InQueues(id) - Number(queues[e.queue], EntriesOf(id)))
                             + Number(queues'[e.queue], EntriesOf(id))
    BY <1>9, <2>4, QueuesMove
  <2>8. PICK n, k \in Nat : n = Number(queues[e.queue], EntriesOf(id)) /\ k = Number(queues'[e.queue], EntriesOf(id))
    BY <2>7
  <2>9. k = n + back
    BY <2>6, <2>8
  <2>10. InQueues(id)' = (InQueues(id) - n) + k
    BY <2>7, <2>8
  <2>11. InQueues(id)' = InQueues(id) + back
    BY <1>3, <2>9, <2>10
  <2>12. PICK more \in Int : more = back
    OBVIOUS
  <2>13. InQueues(id)' = InQueues(id) + more
    BY <2>11, <2>12
  <2>14. KeptCopies(id) \in Nat /\ KeptCopies(id)' = KeptCopies(id) + (0 + more + gone + 0 + 0)
    BY <1>6, <1>8, <2>3, <2>13, KeptMoves
  <2>15. 0 + more + gone + 0 + 0 = gone + back
    BY <2>12
  <2> QED
    BY <2>14, <2>15
<1>12. ASSUME NEW burial, Leaves(e.msg, e.queue, burial), UNCHANGED queues,
              BagOver(burial, LaterEvents), later' = Joined(later, burial)
       PROVE  KeptCopies(id) \in Nat /\ KeptCopies(id)' = KeptCopies(id) + (gone + back)
  <2>1. /\ Counted(burial, OnTheWay(id)) \in Nat /\ drops'[id] \in Nat
        /\ Counted(burial, OnTheWay(id)) + drops'[id] = drops[id] + Bit(e.msg, MessagesOf(id))
    BY <1>9, <1>12, BuriedOrDropped
  <2>2. Bit(e.msg, MessagesOf(id)) = back
    BY <1>4, <1>9 DEF Bit, MessagesOf
  <2>3. PICK sent, before, after \in Nat :
          sent = Counted(burial, OnTheWay(id)) /\ before = drops[id] /\ after = drops'[id]
    BY <1>3, <2>1
  <2>4. sent + after = before + back
    BY <2>1, <2>2, <2>3
  <2>5. PICK more \in Int : more = back - sent
    OBVIOUS
  <2>6. drops'[id] = drops[id] + more
    <3>1. after = before + more
      BY <2>4, <2>5
    <3> QED
      BY <2>3, <3>1
  <2>7. Underway(id)' = Underway(id) + sent
    <3>1. Underway(id)' = Underway(id) + Counted(burial, OnTheWay(id))
      BY <1>12, UnderwayJoined
    <3> QED
      BY <2>3, <3>1
  <2>8. InQueues(id)' = InQueues(id) + 0
    BY <1>3, <1>12, SamePlaces
  <2>9. KeptCopies(id) \in Nat /\ KeptCopies(id)' = KeptCopies(id) + (sent + 0 + gone + 0 + more)
    BY <1>6, <1>8, <2>6, <2>7, <2>8, KeptMoves
  <2>10. sent + 0 + gone + 0 + more = gone + back
    BY <2>5
  <2> QED
    BY <2>9, <2>10
<1> QED
  BY <1>1, <1>11, <1>12

\* A step that only moves deliveries and work along.
LEMMA NothingMoves ==
  ASSUME TypeOK, UNCHANGED <<state, history>>, NEW id \in Ids, Underway(id)' = Underway(id)
  PROVE  Balanced(id)
<1>1. InQueues(id)' = InQueues(id) /\ InHands(id)' = InHands(id)
  BY SamePlaces DEF state
<1> QED
  BY <1>1, CountsAreNumbers DEF Balanced, KeptCopies, history

LEMMA WorkBalance ==
  ASSUME TypeOK, NEW x \in DOMAIN later, Deliver(x) \/ ConsumeDone(x), NEW id \in Ids
  PROVE  Balanced(id)
<1>1. Underway(id) \in Nat
  BY CountsAreNumbers
<1>2. ASSUME NEW D, BagOver(D, LaterEvents), later' = Fired(later, x, D), Counted(D, OnTheWay(id)) = 0,
             x \in WorkEvents
      PROVE  Underway(id)' = Underway(id)
  <2>1. Underway(id)' = (Underway(id) - Bit(x, OnTheWay(id))) + Counted(D, OnTheWay(id))
    BY <1>2, UnderwayFired
  <2>2. Bit(x, OnTheWay(id)) = 0
    BY <1>2, OnlyRoutedIsUnderway
  <2> QED
    BY <1>1, <1>2, <2>1, <2>2
<1>3. BagOver(EmptyBag, LaterEvents) /\ Counted(EmptyBag, OnTheWay(id)) = 0
  BY NoneBag, NoneCounts
<1>4. CASE Deliver(x)
  <2>1. x \in WorkEvents /\ UNCHANGED <<state, history>>
    BY <1>4, DeliverEffect
  <2>2. CASE later' = Fired(later, x, EmptyBag)
    BY <1>2, <1>3, <2>1, <2>2, NothingMoves
  <2>3. ASSUME NEW done \in WorkEvents, later' = Fired(later, x, One(done)), BagOver(One(done), LaterEvents)
        PROVE  Balanced(id)
    <3>1. Counted(One(done), OnTheWay(id)) = Bit(done, OnTheWay(id))
      BY OneCounts
    <3>2. Bit(done, OnTheWay(id)) = 0
      BY OnlyRoutedIsUnderway
    <3>3. Underway(id)' = Underway(id)
      BY <1>2, <2>1, <2>3, <3>1, <3>2
    <3> QED
      BY <2>1, <3>3, NothingMoves
  <2> QED
    BY <1>4, <2>2, <2>3, DeliverEffect
<1>5. CASE ConsumeDone(x)
  <2>1. x \in WorkEvents /\ later' = Fired(later, x, EmptyBag) /\ UNCHANGED <<state, history>>
    BY <1>5, ConsumeDoneEffect
  <2> QED
    BY <1>2, <1>3, <2>1, NothingMoves
<1> QED
  BY <1>4, <1>5

\* Nothing but an ack or a nack can change the balance.
LEMMA BalanceStep ==
  ASSUME TypeOK, TypeOK', AutoAck = {}, [Next]_vars, ~Ack, ~Nack, NEW id \in Ids, id \in Ids'
  PROVE  Balanced(id)
<1>1. CASE UNCHANGED vars
  <2>1. UNCHANGED <<state, history>> /\ later' = later
    BY <1>1 DEF vars, events
  <2>2. Underway(id)' = Underway(id)
    BY <2>1 DEF Underway
  <2> QED
    BY <2>1, <2>2, NothingMoves
<1>2. ASSUME later' = Joined(later, EmptyBag) PROVE Underway(id)' = Underway(id)
  <2>1. Underway(id)' = Underway(id) + Counted(EmptyBag, OnTheWay(id))
    BY <1>2, NoneBag, UnderwayJoined
  <2>2. Counted(EmptyBag, OnTheWay(id)) = 0 /\ Underway(id) \in Nat
    BY NoneCounts, CountsAreNumbers
  <2> QED
    BY <2>1, <2>2
<1>3. ASSUME NEW p \in Script, Publish(p) PROVE Balanced(id)
  BY <1>3, PublishEffect, MintsBalance
<1>4. ASSUME NEW c \in Consumers, Crash(c) PROVE Balanced(id)
  BY <1>4, CrashBalance
<1>5. ASSUME NEW c \in Consumers, Recover(c) PROVE Balanced(id)
  <2>1. /\ later' = Joined(later, EmptyBag)
        /\ UNCHANGED <<queues, unacked, roundRobin, crashEpoch, counter, history>>
    BY <1>5, RecoverEffect
  <2>2. InQueues(id)' = InQueues(id) /\ InHands(id)' = InHands(id)
    BY <2>1, SamePlaces
  <2> QED
    BY <1>2, <2>1, <2>2, CountsAreNumbers DEF Balanced, KeptCopies, history
<1>6. CASE PublishReply
  <2>1. Mints \/ (UNCHANGED <<state, history>> /\ later' = Joined(later, EmptyBag))
    BY <1>6, PublishReplyEffect
  <2>2. CASE Mints
    BY <2>2, MintsBalance
  <2>3. CASE UNCHANGED <<state, history>> /\ later' = Joined(later, EmptyBag)
    BY <1>2, <2>3, NothingMoves
  <2> QED
    BY <2>1, <2>2, <2>3
<1>7. CASE Dispatch
  BY <1>7, DispatchBalance
<1>8. ASSUME NEW x \in DOMAIN later, DueEvent(x) PROVE Balanced(id)
  <2>1. CASE Route(x)
    BY <2>1, RouteBalance
  <2>2. CASE Enqueue(x)
    BY <2>2, EnqueueBalance
  <2>3. CASE TtlExpire(x)
    BY <2>3, ExpiryBalance
  <2>4. CASE Deliver(x) \/ ConsumeDone(x)
    BY <2>4, WorkBalance
  <2> QED
    BY <1>8, <2>1, <2>2, <2>3, <2>4 DEF DueEvent
<1>9. BagToSet(later) = DOMAIN later
  BY DEF BagToSet
<1> QED
  BY <1>1, <1>3, <1>4, <1>5, <1>6, <1>7, <1>8, <1>9 DEF Next, Kernel, Chained

-----------------------------------------------------------------------------
(* What a consumer holds is what it works at or settles.                     *)

Handled(c, id) ==
  Number(unacked[c], MessagesOf(id)) =
    Counted(later, Jobs(c, id, crashEpoch[c])) + Number(urgent, Settles(c, id))

HandledOK == ~CrashRacesAck => \A c \in Consumers \ AutoAck, id \in Ids : Handled(c, id)

\* No consumer holds two copies of a message.
OneCopyEach == \A c \in Consumers, id \in Ids : Number(unacked[c], MessagesOf(id)) <= 1

LEMMA HandledNumbers ==
  ASSUME TypeOK, NEW c \in Consumers, NEW id, NEW n
  PROVE  /\ Number(unacked[c], MessagesOf(id)) \in Nat
         /\ Counted(later, Jobs(c, id, n)) \in Nat
         /\ Number(urgent, Settles(c, id)) \in Nat
<1>1. unacked[c] \in Seq(Message) /\ BagOver(later, LaterEvents) /\ urgent \in Seq(UrgentEvents)
  BY DEF TypeOK
<1>2. Number(unacked[c], MessagesOf(id)) \in Nat /\ Number(urgent, Settles(c, id)) \in Nat
  BY <1>1, NumberType
<1>3. Counted(later, Jobs(c, id, n)) \in Nat
  BY <1>1, CountedType
<1> QED
  BY <1>2, <1>3

LEMMA NoJobs ==
  ASSUME NEW D, DOMAIN D \subseteq RouteEvents \cup EnqueueEvents \cup TtlEvents, NEW c, NEW id, NEW n
  PROVE  Counted(D, Jobs(c, id, n)) = 0
<1>1. \A e \in DOMAIN D : e \notin WorkEvents
  BY RouteEventsDoNoWork
<1>2. DOMAIN D \cap Jobs(c, id, n) = {}
  BY <1>1 DEF Jobs
<1>3. Sum(D, {}) = 0
  BY SumTurns, FS_EmptySet
<1> QED
  BY <1>2, <1>3 DEF Counted

LEMMA JobsJoined ==
  ASSUME TypeOK, NEW D, BagOver(D, LaterEvents), later' = Joined(later, D),
         DOMAIN D \subseteq RouteEvents \cup EnqueueEvents \cup TtlEvents,
         NEW c \in Consumers, NEW id, NEW n
  PROVE  Counted(later', Jobs(c, id, n)) = Counted(later, Jobs(c, id, n))
<1>1. BagOver(later, LaterEvents) /\ Counted(later, Jobs(c, id, n)) \in Nat
  BY HandledNumbers DEF TypeOK
<1>2. Counted(Joined(later, D), Jobs(c, id, n)) = Counted(later, Jobs(c, id, n)) + Counted(D, Jobs(c, id, n))
  BY <1>1, JoinedCounts
<1>3. Counted(D, Jobs(c, id, n)) = 0
  BY NoJobs
<1> QED
  BY <1>1, <1>2, <1>3

LEMMA JobsFired ==
  ASSUME TypeOK, NEW x \in DOMAIN later, NEW D, BagOver(D, LaterEvents), later' = Fired(later, x, D),
         NEW c \in Consumers, NEW id, NEW n
  PROVE  Counted(later', Jobs(c, id, n)) =
           (Counted(later, Jobs(c, id, n)) - Bit(x, Jobs(c, id, n))) + Counted(D, Jobs(c, id, n))
<1>1. BagOver(later, LaterEvents)
  BY DEF TypeOK
<1> QED
  BY <1>1, FiredCounts

\* An event of another kind fires.
LEMMA OtherFired ==
  ASSUME TypeOK, NEW x \in DOMAIN later, NEW D, BagOver(D, LaterEvents), later' = Fired(later, x, D),
         x \in RouteEvents \cup EnqueueEvents \cup TtlEvents,
         DOMAIN D \subseteq RouteEvents \cup EnqueueEvents \cup TtlEvents,
         NEW c \in Consumers, NEW id, NEW n
  PROVE  Counted(later', Jobs(c, id, n)) = Counted(later, Jobs(c, id, n))
<1>1. Counted(later', Jobs(c, id, n)) =
        (Counted(later, Jobs(c, id, n)) - Bit(x, Jobs(c, id, n))) + Counted(D, Jobs(c, id, n))
  BY JobsFired
<1>2. Counted(D, Jobs(c, id, n)) = 0
  BY NoJobs
<1>3. x \notin WorkEvents
  BY LaterEventTypes DEF LaterEvents
<1>4. Bit(x, Jobs(c, id, n)) = 0
  BY <1>3 DEF Bit, Jobs
<1>5. Counted(later, Jobs(c, id, n)) \in Nat
  BY HandledNumbers
<1> QED
  BY <1>1, <1>2, <1>4, <1>5

LEMMA QuietSettlesNone ==
  ASSUME TypeOK, NEW soon \in Seq(QuietEvents), NEW c \in Consumers, NEW id
  PROVE  /\ urgent' = urgent \o soon => Number(urgent', Settles(c, id)) = Number(urgent, Settles(c, id))
         /\ urgent # <<>> /\ urgent' = Tail(urgent) \o soon =>
              Number(urgent, Settles(c, id)) = Bit(Head(urgent), Settles(c, id)) + Number(urgent', Settles(c, id))
<1>1. urgent \in Seq(UrgentEvents) /\ soon \in Seq(UrgentEvents) /\ Number(soon, Settles(c, id)) = 0
  BY QuietIsQuiet DEF TypeOK
<1>2. Number(urgent, Settles(c, id)) \in Nat
  BY <1>1, NumberType
<1>3. Number(urgent \o soon, Settles(c, id)) = Number(urgent, Settles(c, id)) + Number(soon, Settles(c, id))
  BY <1>1, NumberOfBoth
<1>4. ASSUME urgent # <<>>
      PROVE  Number(urgent, Settles(c, id)) =
               Bit(Head(urgent), Settles(c, id)) + Number(Tail(urgent) \o soon, Settles(c, id))
  <2>1. /\ Tail(urgent) \in Seq(UrgentEvents)
        /\ Number(urgent, Settles(c, id)) = Bit(Head(urgent), Settles(c, id)) + Number(Tail(urgent), Settles(c, id))
    BY <1>1, <1>4, NumberOfTail
  <2>2. Number(Tail(urgent) \o soon, Settles(c, id)) =
          Number(Tail(urgent), Settles(c, id)) + Number(soon, Settles(c, id))
    BY <1>1, <2>1, NumberOfBoth
  <2>3. Number(Tail(urgent), Settles(c, id)) \in Nat
    BY <2>1, NumberType
  <2> QED
    BY <1>1, <2>1, <2>2, <2>3
<1>5. ASSUME urgent' = urgent \o soon
      PROVE  Number(urgent', Settles(c, id)) = Number(urgent, Settles(c, id))
  BY <1>1, <1>2, <1>3, <1>5
<1>6. ASSUME urgent # <<>>, urgent' = Tail(urgent) \o soon
      PROVE  Number(urgent, Settles(c, id)) = Bit(Head(urgent), Settles(c, id)) + Number(urgent', Settles(c, id))
  BY <1>4, <1>6
<1> QED
  BY <1>5, <1>6

LEMMA HandledFrame ==
  ASSUME TypeOK, NEW c \in Consumers, NEW id, Handled(c, id),
         unacked'[c] = unacked[c], crashEpoch'[c] = crashEpoch[c],
         Counted(later', Jobs(c, id, crashEpoch[c])) = Counted(later, Jobs(c, id, crashEpoch[c])),
         Number(urgent', Settles(c, id)) = Number(urgent, Settles(c, id))
  PROVE  Handled(c, id)'
BY DEF Handled

\* A settled message is not held any more, and no other copy of it was.
LEMMA SettleHandles ==
  ASSUME TypeOK, OneCopyEach, NEW c \in Consumers, NEW id \in Ids, Handled(c, id),
         NEW e \in SettleEvents, urgent # <<>>, e = Head(urgent), unacked' = Released(e.consumer, e.msg.id),
         NEW soon \in Seq(QuietEvents), urgent' = Tail(urgent) \o soon, crashEpoch' = crashEpoch,
         NEW D, BagOver(D, LaterEvents), DOMAIN D \subseteq RouteEvents, later' = Joined(later, D)
  PROVE  Handled(c, id)'
<1>1. PICK d \in Consumers, j \in Nat : d = e.consumer /\ j = e.msg.id
  BY DEF SettleEvents, Message
<1>2. /\ unacked'[d] = Rest(d, j) /\ \A o \in Consumers \ {d} : unacked'[o] = unacked[o]
      /\ Number(Rest(d, j), MessagesOf(j)) = 0
      /\ \A i : i # j => Number(Rest(d, j), MessagesOf(i)) = Number(unacked[d], MessagesOf(i))
  BY <1>1, ReleasedKeeps
<1>3. Counted(later', Jobs(c, id, crashEpoch[c])) = Counted(later, Jobs(c, id, crashEpoch[c]))
  BY JobsJoined
<1>4. Number(urgent, Settles(c, id)) = Bit(e, Settles(c, id)) + Number(urgent', Settles(c, id))
  BY QuietSettlesNone
<1>5. /\ Number(unacked[c], MessagesOf(id)) \in Nat
      /\ Counted(later, Jobs(c, id, crashEpoch[c])) \in Nat
      /\ Number(urgent, Settles(c, id)) \in Nat
  BY HandledNumbers
<1>6. Number(urgent', Settles(c, id)) \in Nat
  <2>1. urgent \in Seq(UrgentEvents) /\ soon \in Seq(UrgentEvents)
    BY QuietIsQuiet DEF TypeOK
  <2>2. urgent' \in Seq(UrgentEvents)
    BY <2>1
  <2> QED
    BY <2>2, NumberType
<1>7. CASE d = c /\ j = id
  <2>1. Bit(e, Settles(c, id)) = 1
    BY <1>1, <1>7 DEF Bit, Settles
  <2>2. Number(unacked[c], MessagesOf(id)) <= 1
    BY DEF OneCopyEach
  <2>3. PICK held, jobs, n, k \in Nat :
          /\ held = Number(unacked[c], MessagesOf(id)) /\ jobs = Counted(later, Jobs(c, id, crashEpoch[c]))
          /\ n = Number(urgent, Settles(c, id)) /\ k = Number(urgent', Settles(c, id))
    BY <1>5, <1>6
  <2>4. held <= 1 /\ held = jobs + n /\ n = 1 + k
    BY <1>4, <2>1, <2>2, <2>3 DEF Handled
  <2>5. jobs = 0 /\ k = 0
    BY <2>4
  <2>6. Number(unacked'[c], MessagesOf(id)) = 0
    BY <1>2, <1>7
  <2>7. Counted(later', Jobs(c, id, crashEpoch'[c])) = 0 /\ Number(urgent', Settles(c, id)) = 0
    BY <1>3, <2>3, <2>5
  <2> QED
    BY <2>6, <2>7 DEF Handled
<1>8. CASE ~(d = c /\ j = id)
  <2>1. Bit(e, Settles(c, id)) = 0
    BY <1>1, <1>8 DEF Bit, Settles
  <2>2. Number(urgent', Settles(c, id)) = Number(urgent, Settles(c, id))
    BY <1>4, <1>6, <2>1
  <2>3. Number(unacked'[c], MessagesOf(id)) = Number(unacked[c], MessagesOf(id))
    BY <1>2, <1>8
  <2> QED
    BY <1>3, <2>2, <2>3 DEF Handled
<1> QED
  BY <1>7, <1>8

LEMMA DeliverHandles ==
  ASSUME TypeOK, NEW x \in DOMAIN later, Deliver(x), NEW c \in Consumers, NEW id, Handled(c, id)
  PROVE  Handled(c, id)'
<1> DEFINE S == Jobs(c, id, crashEpoch[c])
<1>1. /\ x \in WorkEvents /\ urgent' = urgent /\ UNCHANGED <<unacked, crashEpoch>>
      /\ \/ ~Current(x) /\ later' = Fired(later, x, EmptyBag)
         \/ \E done \in WorkEvents :
              /\ Current(x) /\ later' = Fired(later, x, One(done)) /\ BagOver(One(done), LaterEvents)
              /\ done.msg = x.msg /\ done.queue = x.queue
              /\ done.consumer = x.consumer /\ done.epoch = x.epoch
  BY DeliverEffect DEF state
<1>2. Counted(later, S) \in Nat
  BY HandledNumbers
<1>3. SUFFICES Counted(later', S) = Counted(later, S)
  BY <1>1, HandledFrame
<1>4. CASE ~Current(x) /\ later' = Fired(later, x, EmptyBag)
  <2>1. Bit(x, S) = 0
    BY <1>4 DEF Bit, Jobs, Current
  <2>2. Counted(later', S) = (Counted(later, S) - Bit(x, S)) + Counted(EmptyBag, S)
    BY <1>4, NoneBag, JobsFired
  <2>3. Counted(EmptyBag, S) = 0
    BY NoneCounts
  <2> HIDE DEF S
  <2> QED
    BY <1>2, <2>1, <2>2, <2>3
<1>5. ASSUME NEW done \in WorkEvents, later' = Fired(later, x, One(done)), BagOver(One(done), LaterEvents),
             done.msg = x.msg, done.consumer = x.consumer, done.epoch = x.epoch
      PROVE  Counted(later', S) = Counted(later, S)
  <2>1. Bit(done, S) = Bit(x, S) /\ Bit(x, S) \in {0, 1}
    BY <1>1, <1>5 DEF Bit, Jobs
  <2>2. Counted(later', S) = (Counted(later, S) - Bit(x, S)) + Counted(One(done), S)
    BY <1>5, JobsFired
  <2>3. Counted(One(done), S) = Bit(done, S)
    BY OneCounts
  <2> HIDE DEF S
  <2> QED
    BY <1>2, <2>1, <2>2, <2>3
<1> HIDE DEF S
<1> QED
  BY <1>1, <1>4, <1>5

LEMMA ConsumeDoneHandles ==
  ASSUME TypeOK, NEW x \in DOMAIN later, ConsumeDone(x), NEW c \in Consumers, NEW id, Handled(c, id)
  PROVE  Handled(c, id)'
<1> DEFINE S == Jobs(c, id, crashEpoch[c])
<1>1. /\ x \in WorkEvents /\ later' = Fired(later, x, EmptyBag) /\ UNCHANGED <<unacked, crashEpoch>>
      /\ \/ ~Current(x) /\ urgent' = urgent
         \/ \E done \in SettleEvents :
              /\ Current(x) /\ urgent' = Append(urgent, done) /\ urgent' = urgent \o <<done>>
              /\ done.msg = x.msg /\ done.queue = x.queue /\ done.consumer = x.consumer
  BY ConsumeDoneEffect DEF state
<1>2. Counted(later', S) = (Counted(later, S) - Bit(x, S)) + Counted(EmptyBag, S)
  BY <1>1, NoneBag, JobsFired
<1>3. Counted(EmptyBag, S) = 0
  BY NoneCounts
<1>4. Counted(later, S) \in Nat /\ Number(urgent, Settles(c, id)) \in Nat
  BY HandledNumbers
<1>5. Bit(x, S) \in {0, 1}
  BY DEF Bit
<1>6. CASE ~Current(x) /\ urgent' = urgent
  <2>1. Bit(x, S) = 0
    BY <1>6 DEF Bit, Jobs, Current
  <2>2. Counted(later', S) = Counted(later, S)
    <3> HIDE DEF S
    <3> QED
      BY <1>2, <1>3, <1>4, <2>1
  <2> QED
    BY <1>1, <1>6, <2>2, HandledFrame
<1>7. ASSUME NEW done \in SettleEvents, Current(x), urgent' = Append(urgent, done),
             done.msg = x.msg, done.consumer = x.consumer
      PROVE  Handled(c, id)'
  <2>1. Bit(done, Settles(c, id)) = Bit(x, S)
    BY <1>1, <1>7 DEF Bit, Jobs, Settles, Current
  <2>2. urgent \in Seq(UrgentEvents) /\ done \in UrgentEvents
    BY DEF TypeOK, UrgentEvents
  <2>3. Number(urgent', Settles(c, id)) = Number(urgent, Settles(c, id)) + Bit(done, Settles(c, id))
    BY <1>7, <2>2, NumberAppended
  <2>4. Number(unacked[c], MessagesOf(id)) = Counted(later, S) + Number(urgent, Settles(c, id))
    BY DEF Handled
  <2>5. Number(unacked[c], MessagesOf(id)) = Counted(later', S) + Number(urgent', Settles(c, id))
    <3> HIDE DEF S
    <3> QED
      BY <1>2, <1>3, <1>4, <1>5, <2>1, <2>3, <2>4
  <2> QED
    BY <1>1, <2>5 DEF Handled
<1> HIDE DEF S
<1> QED
  BY <1>1, <1>6, <1>7

LEMMA DispatchHandles ==
  ASSUME TypeOK, Dispatch, NEW c \in Consumers \ AutoAck, NEW id, Handled(c, id)
  PROVE  Handled(c, id)'
<1> DEFINE S == Jobs(c, id, crashEpoch[c])
<1>1. /\ urgent # <<>> /\ Head(urgent) \in DispatchEvents /\ urgent' = Tail(urgent)
      /\ crashEpoch' = crashEpoch
  BY DispatchEffect
<1>2. PICK q : q = Head(urgent).queue
  OBVIOUS
<1>3. \/ later' = Joined(later, EmptyBag) /\ unacked' = unacked
      \/ \E d \in Consumers, e \in WorkEvents :
           /\ e.consumer = d /\ e.epoch = crashEpoch[d]
           /\ BagOver(One(e), LaterEvents) /\ later' = Joined(later, One(e))
           /\ unacked' = IF d \in AutoAck THEN unacked
                         ELSE [unacked EXCEPT ![d] = Append(unacked[d], e.msg)]
  BY DispatchEffect
<1>4. Number(urgent', Settles(c, id)) = Number(urgent, Settles(c, id))
  <2>1. <<>> \in Seq(QuietEvents) /\ urgent' = Tail(urgent) \o <<>>
    BY <1>1, NoneIsQuiet
  <2>2. Number(urgent, Settles(c, id)) = Bit(Head(urgent), Settles(c, id)) + Number(urgent', Settles(c, id))
    BY <1>1, <2>1, QuietSettlesNone
  <2>3. Head(urgent) \notin SettleEvents
    BY <1>1, UrgentEventTypes DEF UrgentEvents
  <2>4. Bit(Head(urgent), Settles(c, id)) = 0
    BY <2>3 DEF Bit, Settles
  <2>5. Number(urgent', Settles(c, id)) \in Nat
    <3>1. urgent \in Seq(UrgentEvents)
      BY DEF TypeOK
    <3>2. urgent' \in Seq(UrgentEvents)
      BY <1>1, <3>1
    <3> QED
      BY <3>2, NumberType
  <2> QED
    BY <2>2, <2>4, <2>5
<1>5. /\ Counted(later, S) \in Nat /\ Number(unacked[c], MessagesOf(id)) \in Nat
      /\ Number(urgent, Settles(c, id)) \in Nat
  BY HandledNumbers
<1>6. CASE later' = Joined(later, EmptyBag) /\ unacked' = unacked
  <2>1. DOMAIN EmptyBag \subseteq RouteEvents
    BY NoneCounts
  <2>2. Counted(later', S) = Counted(later, S)
    BY <1>6, <2>1, NoneBag, JobsJoined
  <2> QED
    BY <1>1, <1>4, <1>6, <2>2, HandledFrame
<1>7. ASSUME NEW d \in Consumers, NEW e \in WorkEvents, e.consumer = d, e.epoch = crashEpoch[d],
             BagOver(One(e), LaterEvents), later' = Joined(later, One(e)),
             unacked' = IF d \in AutoAck THEN unacked
                        ELSE [unacked EXCEPT ![d] = Append(unacked[d], e.msg)]
      PROVE  Handled(c, id)'
  <2>1. Counted(later', S) = Counted(later, S) + Bit(e, S)
    <3>1. BagOver(later, LaterEvents) /\ Counted(One(e), S) = Bit(e, S)
      BY OneCounts DEF TypeOK
    <3>2. Counted(Joined(later, One(e)), S) = Counted(later, S) + Counted(One(e), S)
      BY <1>7, <3>1, JoinedCounts
    <3> QED
      BY <1>7, <3>1, <3>2
  <2>2. unacked[c] \in Seq(Message) /\ e.msg \in Message
    BY DEF TypeOK, WorkEvents
  <2>3. Number(unacked'[c], MessagesOf(id)) = Number(unacked[c], MessagesOf(id)) + Bit(e, S)
    <3>1. CASE d = c
      <4>1. unacked'[c] = Append(unacked[c], e.msg)
        BY <1>7, <3>1 DEF TypeOK
      <4>2. Bit(e, S) = Bit(e.msg, MessagesOf(id))
        BY <1>7, <2>2, <3>1 DEF Bit, Jobs, MessagesOf
      <4> QED
        BY <2>2, <4>1, <4>2, NumberAppended
    <3>2. CASE d # c
      <4>1. unacked'[c] = unacked[c]
        BY <1>7, <3>2 DEF TypeOK
      <4>2. Bit(e, S) = 0
        BY <1>7, <3>2 DEF Bit, Jobs
      <4> QED
        BY <1>5, <4>1, <4>2
    <3> QED
      BY <3>1, <3>2
  <2>4. Number(unacked[c], MessagesOf(id)) = Counted(later, S) + Number(urgent, Settles(c, id))
    BY DEF Handled
  <2>5. Bit(e, S) \in {0, 1}
    BY DEF Bit
  <2>6. Number(unacked'[c], MessagesOf(id)) = Counted(later', S) + Number(urgent', Settles(c, id))
    <3> HIDE DEF S
    <3> QED
      BY <1>4, <1>5, <2>1, <2>3, <2>4, <2>5
  <2> QED
    BY <1>1, <2>6 DEF Handled
<1> HIDE DEF S
<1> QED
  BY <1>3, <1>6, <1>7

\* The work of a crashed consumer is of a former life.
LEMMA CrashHandles ==
  ASSUME TypeOK, WorkOK, ~CrashRacesAck, NEW d \in Consumers, Crash(d),
         NEW c \in Consumers, NEW id, Handled(c, id)
  PROVE  Handled(c, id)'
<1>1. /\ later' = Joined(later, EmptyBag) /\ (CrashRacesAck \/ ~Finishing(d))
      /\ crashEpoch' = [crashEpoch EXCEPT ![d] = crashEpoch[d] + 1]
      /\ unacked' = [unacked EXCEPT ![d] = <<>>]
      /\ \/ unacked[d] = <<>> /\ urgent' = urgent
         \/ unacked[d] # <<>> /\ urgent' = urgent \o <<DispatchEvent(QueueOf[d])>>
  BY CrashEffect
<1>2. Number(urgent', Settles(c, id)) = Number(urgent, Settles(c, id))
  <2>1. QueueOf[d] \in Queues
    BY InputFacts DEF TypeOK
  <2>2. <<DispatchEvent(QueueOf[d])>> \in Seq(QuietEvents)
    BY <2>1, WakeIsQuiet
  <2>3. CASE urgent' = urgent
    BY <2>3
  <2>4. CASE urgent' = urgent \o <<DispatchEvent(QueueOf[d])>>
    BY <2>2, <2>4, QuietSettlesNone
  <2> QED
    BY <1>1, <2>3, <2>4
<1>3. \A n : Counted(later', Jobs(c, id, n)) = Counted(later, Jobs(c, id, n))
  <2>1. DOMAIN EmptyBag \subseteq RouteEvents
    BY NoneCounts
  <2> QED
    BY <1>1, <2>1, NoneBag, JobsJoined
<1>4. CASE c # d
  <2>1. unacked'[c] = unacked[c] /\ crashEpoch'[c] = crashEpoch[c]
    BY <1>1, <1>4 DEF TypeOK
  <2> QED
    BY <1>2, <1>3, <2>1, HandledFrame
<1>5. CASE c = d
  <2>1. unacked'[c] = <<>> /\ crashEpoch'[c] = crashEpoch[c] + 1 /\ crashEpoch[c] \in Nat
    BY <1>1, <1>5 DEF TypeOK
  <2>2. Number(unacked'[c], MessagesOf(id)) = 0
    BY <2>1, NumberOfOne
  <2>3. Number(urgent, Settles(c, id)) = 0
    <3>1. \A i \in DOMAIN urgent : urgent[i] \notin Settles(c, id)
      BY <1>1, <1>5 DEF Finishing, Settles, SettleEvents
    <3>2. {i \in DOMAIN urgent : urgent[i] \in Settles(c, id)} = {}
      BY <3>1
    <3> QED
      BY <3>2, FS_EmptySet DEF Number
  <2>4. Counted(later, Jobs(c, id, crashEpoch'[c])) = 0
    <3>1. \A e \in DOMAIN later : e \notin Jobs(c, id, crashEpoch'[c])
      <4> SUFFICES ASSUME NEW e \in DOMAIN later, e \in WorkEvents, e.consumer = c,
                          e.epoch = crashEpoch[c] + 1
                   PROVE  FALSE
        BY <2>1 DEF Jobs
      <4>1. e.epoch <= crashEpoch[c]
        BY DEF WorkOK
      <4> QED
        BY <2>1, <4>1
    <3>2. DOMAIN later \cap Jobs(c, id, crashEpoch'[c]) = {}
      BY <3>1
    <3>3. Sum(later, {}) = 0
      BY SumTurns, FS_EmptySet
    <3> QED
      BY <3>2, <3>3 DEF Counted
  <2>5. Counted(later', Jobs(c, id, crashEpoch'[c])) = 0
    BY <1>3, <2>4
  <2>6. Number(urgent', Settles(c, id)) = 0
    BY <1>2, <2>3
  <2> QED
    BY <2>2, <2>5, <2>6 DEF Handled
<1> QED
  BY <1>4, <1>5

LEMMA InputStays ==
  ASSUME [Next]_vars
  PROVE  input' = input
<1>1. CASE UNCHANGED vars
  BY <1>1 DEF vars
<1>2. CASE Next
  BY <1>2 DEF Next, Publish, Crash, Recover, Kernel, Chained, PublishReply, Dispatch, Ack, Nack,
              DueEvent, Route, Enqueue, TtlExpire, Deliver, ConsumeDone, Fire, Schedule, Chain
<1> QED
  BY <1>1, <1>2

LEMMA HandledStep ==
  ASSUME TypeOK, WorkOK, OneCopyEach, HandledOK, [Next]_vars
  PROVE  HandledOK'
<1>1. CrashRacesAck' = CrashRacesAck /\ AutoAck' = AutoAck /\ Ids' = Ids
  BY InputStays DEF CrashRacesAck, AutoAck, Ids, MaxMessages
<1>2. SUFFICES ASSUME ~CrashRacesAck, NEW c \in Consumers \ AutoAck, NEW id \in Ids, Handled(c, id)
               PROVE  Handled(c, id)'
  BY <1>1 DEF HandledOK
<1> DEFINE Calm == /\ unacked' = unacked /\ crashEpoch' = crashEpoch
                   /\ Counted(later', Jobs(c, id, crashEpoch[c])) = Counted(later, Jobs(c, id, crashEpoch[c]))
                   /\ Number(urgent', Settles(c, id)) = Number(urgent, Settles(c, id))
<1>3. SUFFICES ASSUME ~Calm PROVE Handled(c, id)'
  BY <1>2, HandledFrame
<1>4. ASSUME NEW D, BagOver(D, LaterEvents), later' = Joined(later, D), DOMAIN D \subseteq RouteEvents
      PROVE  Counted(later', Jobs(c, id, crashEpoch[c])) = Counted(later, Jobs(c, id, crashEpoch[c]))
  BY <1>4, JobsJoined
<1>5. BagOver(EmptyBag, LaterEvents) /\ DOMAIN EmptyBag \subseteq RouteEvents
  BY NoneBag, NoneCounts
<1>6. ASSUME Mints, urgent' = urgent \/ Number(urgent', Settles(c, id)) = Number(urgent, Settles(c, id))
      PROVE  Calm
  <2>1. PICK e \in RouteEvents : BagOver(One(e), LaterEvents) /\ later' = Joined(later, One(e))
    BY <1>6 DEF Mints
  <2>2. DOMAIN One(e) \subseteq RouteEvents
    <3>1. DOMAIN One(e) = {e}
      BY OneCounts
    <3> QED
      BY <3>1
  <2> QED
    BY <1>4, <1>6, <2>1, <2>2 DEF Mints
<1>7. CASE UNCHANGED vars
  <2>1. UNCHANGED <<unacked, crashEpoch, later, urgent>>
    BY <1>7 DEF vars, state, events
  <2>2. Calm
    BY <2>1
  <2> QED
    BY <1>3, <2>2
<1>8. ASSUME NEW p \in Script, Publish(p) PROVE Calm
  BY <1>6, <1>8, PublishEffect
<1>9. ASSUME NEW d \in Consumers, Crash(d) PROVE Handled(c, id)'
  BY <1>2, <1>9, CrashHandles
<1>10. ASSUME NEW d \in Consumers, Recover(d) PROVE Calm
  <2>1. /\ later' = Joined(later, EmptyBag) /\ UNCHANGED <<unacked, crashEpoch>>
        /\ urgent' = urgent \o <<DispatchEvent(QueueOf[d])>>
    BY <1>10, RecoverEffect
  <2>2. QueueOf[d] \in Queues
    BY InputFacts DEF TypeOK
  <2>3. <<DispatchEvent(QueueOf[d])>> \in Seq(QuietEvents)
    BY <2>2, WakeIsQuiet
  <2>4. Number(urgent', Settles(c, id)) = Number(urgent, Settles(c, id))
    BY <2>1, <2>3, QuietSettlesNone
  <2> QED
    BY <1>4, <1>5, <2>1, <2>4
<1>11. CASE PublishReply
  <2>1. /\ Mints \/ (UNCHANGED <<state, history>> /\ later' = Joined(later, EmptyBag))
        /\ urgent # <<>> /\ Head(urgent) \in PublishEvents /\ urgent' = Tail(urgent)
    BY <1>11, PublishReplyEffect
  <2>2. Number(urgent', Settles(c, id)) = Number(urgent, Settles(c, id))
    <3>1. <<>> \in Seq(QuietEvents) /\ urgent' = Tail(urgent) \o <<>>
      BY <2>1, NoneIsQuiet
    <3>2. Number(urgent, Settles(c, id)) = Bit(Head(urgent), Settles(c, id)) + Number(urgent', Settles(c, id))
      BY <2>1, <3>1, QuietSettlesNone
    <3>3. Head(urgent) \notin SettleEvents
      BY <2>1, UrgentEventTypes DEF UrgentEvents
    <3>4. Bit(Head(urgent), Settles(c, id)) = 0
      BY <3>3 DEF Bit, Settles
    <3>5. Number(urgent', Settles(c, id)) \in Nat
      <4>1. urgent \in Seq(UrgentEvents)
        BY DEF TypeOK
      <4>2. urgent' \in Seq(UrgentEvents)
        BY <2>1, <4>1
      <4> QED
        BY <4>2, NumberType
    <3> QED
      BY <3>2, <3>4, <3>5
  <2>3. CASE Mints
    BY <1>3, <1>6, <2>2, <2>3
  <2>4. CASE UNCHANGED <<state, history>> /\ later' = Joined(later, EmptyBag)
    <3>1. UNCHANGED <<unacked, crashEpoch>>
      BY <2>4 DEF state
    <3> QED
      BY <1>3, <1>4, <1>5, <2>2, <2>4, <3>1
  <2> QED
    BY <2>1, <2>3, <2>4
<1>12. CASE Dispatch
  BY <1>2, <1>12, DispatchHandles
<1>13. CASE Ack
  <2>1. PICK e \in SettleEvents :
          /\ urgent # <<>> /\ e = Head(urgent)
          /\ unacked' = Released(e.consumer, e.msg.id)
          /\ later' = Joined(later, EmptyBag)
          /\ \E soon \in Seq(QuietEvents) : urgent' = Tail(urgent) \o soon
    BY <1>13, AckEffect
  <2>2. PICK soon \in Seq(QuietEvents) : urgent' = Tail(urgent) \o soon
    BY <2>1
  <2>3. crashEpoch' = crashEpoch
    BY <1>13, AckEffect
  <2> QED
    BY <1>2, <1>5, <2>1, <2>2, <2>3, SettleHandles
<1>14. CASE Nack
  <2>1. PICK e \in SettleEvents :
          /\ urgent # <<>> /\ e = Head(urgent)
          /\ unacked' = Released(e.consumer, e.msg.id)
          /\ urgent' = Tail(urgent) \o <<DispatchEvent(e.queue)>>
          /\ \/ later' = Joined(later, EmptyBag)
             \/ \E burial : /\ BagOver(burial, LaterEvents) /\ DOMAIN burial \subseteq RouteEvents
                            /\ later' = Joined(later, burial)
    BY <1>14, NackEffect
  <2>2. PICK D : BagOver(D, LaterEvents) /\ DOMAIN D \subseteq RouteEvents /\ later' = Joined(later, D)
    BY <1>5, <2>1
  <2>3. crashEpoch' = crashEpoch
    BY <1>14, NackEffect
  <2>4. <<DispatchEvent(e.queue)>> \in Seq(QuietEvents)
    BY WakeIsQuiet DEF SettleEvents
  <2> QED
    BY <1>2, <2>1, <2>2, <2>3, <2>4, SettleHandles
<1>15. ASSUME NEW x \in DOMAIN later, DueEvent(x) PROVE Handled(c, id)'
  <2>1. ASSUME NEW D, BagOver(D, LaterEvents), later' = Fired(later, x, D),
               x \in RouteEvents \cup EnqueueEvents \cup TtlEvents,
               DOMAIN D \subseteq RouteEvents \cup EnqueueEvents \cup TtlEvents
        PROVE  Counted(later', Jobs(c, id, crashEpoch[c])) = Counted(later, Jobs(c, id, crashEpoch[c]))
    BY <2>1, OtherFired
  <2>2. CASE Route(x)
    <3>1. PICK T \in SUBSET (Exchanges \cup Queues) :
            /\ IsFiniteSet(T) /\ BagOver(SetToBag(Forwarded(x.msg, T)), LaterEvents)
            /\ later' = Fired(later, x, SetToBag(Forwarded(x.msg, T)))
      BY <2>2, RouteEffect
    <3>2. x \in RouteEvents /\ urgent' = urgent /\ UNCHANGED <<unacked, crashEpoch>>
      BY <2>2, RouteEffect DEF state
    <3>3. DOMAIN SetToBag(Forwarded(x.msg, T)) \subseteq RouteEvents \cup EnqueueEvents
      BY <3>1, <3>2, ForwardedType DEF RouteEvents
    <3> QED
      BY <1>3, <2>1, <3>1, <3>2, <3>3
  <2>3. CASE Enqueue(x)
    <3>1. PICK entry \in Entry, grown \in Seq(Entry), kept \in Seq(Entry) : \E timer, burial :
            Enqueued(x, entry, grown, kept, timer, burial)
      BY <2>3, EnqueueEffect
    <3>2. PICK timer, burial : Enqueued(x, entry, grown, kept, timer, burial)
      BY <3>1
    <3>3. /\ timer = Timer(x.msg.id, x.queue, entry.stay, kept)
          /\ BagOver(burial, LaterEvents) /\ DOMAIN burial \subseteq RouteEvents
          /\ later' = Fired(later, x, Joined(timer, burial))
          /\ BagOver(Joined(timer, burial), LaterEvents)
      BY <3>2 DEF Enqueued
    <3>4. /\ x \in EnqueueEvents /\ UNCHANGED <<unacked, crashEpoch>>
          /\ urgent' = urgent \o <<DispatchEvent(x.queue)>>
      BY <2>3, EnqueueEffect DEF Keeps
    <3>5. x.queue \in Queues /\ x.msg.id \in Nat /\ entry.stay \in Nat
      BY <3>4 DEF EnqueueEvents, Message, Entry
    <3>6. DOMAIN timer \subseteq TtlEvents
      BY <3>3, <3>5, TimerType
    <3>7. DOMAIN Joined(timer, burial) = DOMAIN timer \cup DOMAIN burial
      BY JoinedDomain
    <3>8. DOMAIN Joined(timer, burial) \subseteq RouteEvents \cup EnqueueEvents \cup TtlEvents
      BY <3>3, <3>6, <3>7
    <3>9. <<DispatchEvent(x.queue)>> \in Seq(QuietEvents)
      BY <3>5, WakeIsQuiet
    <3>10. Number(urgent', Settles(c, id)) = Number(urgent, Settles(c, id))
      BY <3>4, <3>9, QuietSettlesNone
    <3> QED
      BY <1>3, <2>1, <3>3, <3>4, <3>8, <3>10
  <2>4. CASE TtlExpire(x)
    <3>1. PICK burial : /\ BagOver(burial, LaterEvents) /\ DOMAIN burial \subseteq RouteEvents
                        /\ later' = Fired(later, x, burial)
      BY <2>4, TtlExpireEffect
    <3>2. x \in TtlEvents /\ urgent' = urgent /\ UNCHANGED <<unacked, crashEpoch>>
      BY <2>4, TtlExpireEffect DEF Keeps
    <3> QED
      BY <1>3, <2>1, <3>1, <3>2
  <2>5. CASE Deliver(x)
    BY <1>2, <2>5, DeliverHandles
  <2>6. CASE ConsumeDone(x)
    BY <1>2, <2>6, ConsumeDoneHandles
  <2> QED
    BY <1>15, <2>2, <2>3, <2>4, <2>5, <2>6 DEF DueEvent
<1>16. BagToSet(later) = DOMAIN later
  BY DEF BagToSet
<1> HIDE DEF Calm
<1> QED
  BY <1>3, <1>7, <1>8, <1>9, <1>10, <1>11, <1>12, <1>13, <1>14, <1>15, <1>16 DEF Next, Kernel, Chained

LEMMA SettledIsHeld ==
  ASSUME TypeOK, HandledOK, ~CrashRacesAck, AutoAck = {}, NEW e \in SettleEvents, urgent # <<>>, e = Head(urgent),
         e.msg.id \in Ids
  PROVE  Number(unacked[e.consumer], MessagesOf(e.msg.id)) >= 1
<1>1. PICK c \in Consumers, id \in Ids : c = e.consumer /\ id = e.msg.id
  BY DEF SettleEvents
<1>2. Handled(c, id)
  BY DEF HandledOK
<1>3. Number(urgent, Settles(c, id)) >= 1
  <2>1. urgent \in Seq(UrgentEvents)
    BY DEF TypeOK
  <2>2. 1 \in DOMAIN urgent /\ urgent[1] = e
    BY <2>1
  <2>3. e \in Settles(c, id)
    BY <1>1 DEF Settles
  <2>4. Number(urgent, Settles(c, id)) > 0 /\ Number(urgent, Settles(c, id)) \in Nat
    BY <2>1, <2>2, <2>3, NumberType
  <2> QED
    BY <2>4
<1>4. /\ Number(unacked[c], MessagesOf(id)) \in Nat
      /\ Counted(later, Jobs(c, id, crashEpoch[c])) \in Nat
      /\ Number(urgent, Settles(c, id)) \in Nat
  BY HandledNumbers
<1>5. Number(unacked[c], MessagesOf(id)) >= 1
  BY <1>2, <1>3, <1>4 DEF Handled
<1> QED
  BY <1>1, <1>5

-----------------------------------------------------------------------------
(* Every copy made is kept.                                                  *)

KeptOK ==
  AutoAck = {} => \A id \in Ids : /\ KeptCopies(id) >= made[id]
                                  /\ ~CrashRacesAck => KeptCopies(id) = made[id]

LEMMA KeptStep ==
  ASSUME TypeOK, TypeOK', OneCopyEach, HandledOK, KeptOK, [Next]_vars
  PROVE  KeptOK'
<1>1. CrashRacesAck' = CrashRacesAck /\ AutoAck' = AutoAck /\ Ids' = Ids
  BY InputStays DEF CrashRacesAck, AutoAck, Ids, MaxMessages
<1>2. SUFFICES ASSUME AutoAck = {}, NEW id \in Ids
               PROVE  /\ KeptCopies(id)' >= made'[id]
                      /\ ~CrashRacesAck => KeptCopies(id)' = made'[id]
  BY <1>1 DEF KeptOK
<1>3. KeptCopies(id) >= made[id] /\ (~CrashRacesAck => KeptCopies(id) = made[id])
  BY <1>2 DEF KeptOK
<1>4. id \in Ids'
  BY <1>1
<1>5. PICK k, n \in Nat : k = KeptCopies(id) /\ n = made[id]
  BY CountsAreNumbers DEF KeptCopies
<1>6. made'[id] \in Nat
  BY <1>4 DEF TypeOK
<1>7. CASE ~Ack /\ ~Nack
  <2>1. Balanced(id)
    BY <1>2, <1>4, <1>7, BalanceStep
  <2>2. KeptCopies(id)' \in Nat
    <3>1. /\ Underway(id)' \in Nat /\ InQueues(id)' \in Nat /\ InHands(id)' \in Nat
          /\ acks'[id] \in Nat /\ drops'[id] \in Nat
      BY <1>4, CountsNext
    <3> QED
      BY <3>1 DEF KeptCopies
  <2>3. PICK k2, n2 \in Nat : k2 = KeptCopies(id)' /\ n2 = made'[id]
    BY <1>6, <2>2
  <2>4. k2 + n = k + n2
    BY <1>5, <2>1, <2>3 DEF Balanced
  <2> QED
    BY <1>3, <1>5, <2>3, <2>4
<1>8. ASSUME NEW e \in SettleEvents, urgent # <<>>, e = Head(urgent), SettleBalanced(e, id), made'[id] = made[id]
      PROVE  /\ KeptCopies(id)' >= made'[id]
             /\ ~CrashRacesAck => KeptCopies(id)' = made'[id]
  <2>1. CASE e.msg.id # id
    <3>1. KeptCopies(id)' = k + 0
      BY <1>5, <1>8, <2>1 DEF SettleBalanced
    <3> QED
      BY <1>3, <1>5, <1>8, <3>1
  <2>2. CASE e.msg.id = id
    <3>1. PICK c \in Consumers : c = e.consumer
      BY DEF SettleEvents
    <3>2. PICK held \in Nat : held = Number(unacked[c], MessagesOf(id))
      BY HandledNumbers
    <3>3. held <= 1
      BY <3>2 DEF OneCopyEach
    <3>4. ~CrashRacesAck => held >= 1
      <4>1. ~CrashRacesAck => Number(unacked[e.consumer], MessagesOf(e.msg.id)) >= 1
        BY <1>2, <1>8, <2>2, SettledIsHeld
      <4> QED
        BY <2>2, <3>1, <3>2, <4>1
    <3>5. KeptCopies(id)' = k + (1 - held)
      BY <1>5, <1>8, <2>2, <3>1, <3>2 DEF SettleBalanced
    <3> QED
      BY <1>3, <1>5, <1>8, <3>3, <3>4, <3>5
  <2> QED
    BY <2>1, <2>2
<1>9. CASE Ack
  BY <1>8, <1>9, AckBalance
<1>10. CASE Nack
  BY <1>8, <1>10, NackBalance
<1> QED
  BY <1>7, <1>9, <1>10

-----------------------------------------------------------------------------
(* When no consumer holds two copies of a message.                           *)

\* Every consumer is given one message at a time.
OneAtATime(i) == \A c \in Consumers : i.prefetch[c] = 1

\* No exchange sends a message two ways, and no crash overtakes an ack: there
\* is then one copy of each message.
NoForks(i) ==
  /\ i.autoAck = {} /\ ~i.crashRacesAck
  /\ \A x \in Exchanges, k \in Keys : Cardinality(Range(i.hits[x][k])) <= 1

ShortOK == OneAtATime(input) => \A c \in Consumers : Len(unacked[c]) <= 1

SingleOK == NoForks(input) => \A id \in Ids : made[id] <= IF id <= counter THEN 1 ELSE 0

LEMMA ShortStep ==
  ASSUME TypeOK, ShortOK, [Next]_vars
  PROVE  ShortOK'
<1>1. input' = input
  BY InputStays
<1>2. SUFFICES ASSUME OneAtATime(input), NEW c \in Consumers, Len(unacked[c]) <= 1
               PROVE  Len(unacked'[c]) <= 1
  BY <1>1 DEF ShortOK
<1>3. SUFFICES ASSUME unacked' # unacked PROVE Len(unacked'[c]) <= 1
  BY <1>2
<1>4. CASE Dispatch
  <2>1. PICK d \in Consumers, e \in WorkEvents :
          /\ Eligible(d)
          /\ unacked' = IF d \in AutoAck THEN unacked
                        ELSE [unacked EXCEPT ![d] = Append(unacked[d], e.msg)]
    BY <1>3, <1>4, DispatchEffect
  <2>2. Prefetch[d] = 1
    BY <1>2 DEF OneAtATime, Prefetch
  <2>3. Len(unacked[d]) < 1
    BY <2>1, <2>2 DEF Eligible
  <2>4. CASE c = d
    <3>1. unacked'[c] = Append(unacked[c], e.msg) /\ unacked[c] \in Seq(Message)
      BY <1>3, <2>1, <2>4 DEF TypeOK
    <3> QED
      BY <2>3, <2>4, <3>1
  <2>5. CASE c # d
    <3>1. unacked'[c] = unacked[c]
      BY <1>3, <2>1, <2>5 DEF TypeOK
    <3> QED
      BY <1>2, <3>1
  <2> QED
    BY <2>4, <2>5
<1>5. ASSUME NEW e \in SettleEvents, unacked' = Released(e.consumer, e.msg.id)
      PROVE  Len(unacked'[c]) <= 1
  <2>1. PICK d \in Consumers, j \in Nat : d = e.consumer /\ j = e.msg.id
    BY DEF SettleEvents, Message
  <2>2. /\ unacked'[d] = Rest(d, j) /\ Len(Rest(d, j)) <= Len(unacked[d])
        /\ \A o \in Consumers \ {d} : unacked'[o] = unacked[o]
        /\ Released(d, j) \in [Consumers -> Seq(Message)]
    BY <1>5, <2>1, ReleasedKeeps
  <2>3. unacked'[c] \in Seq(Message) /\ unacked[c] \in Seq(Message)
    BY <1>5, <2>1, <2>2 DEF TypeOK
  <2> QED
    BY <1>2, <2>2, <2>3
<1>6. CASE Ack
  BY <1>5, <1>6, AckEffect
<1>7. CASE Nack
  BY <1>5, <1>7, NackEffect
<1>8. ASSUME NEW d \in Consumers, Crash(d) PROVE Len(unacked'[c]) <= 1
  <2>1. unacked' = [unacked EXCEPT ![d] = <<>>]
    BY <1>8, CrashEffect
  <2>2. unacked'[c] = IF c = d THEN <<>> ELSE unacked[c]
    BY <2>1 DEF TypeOK
  <2> QED
    BY <1>2, <2>2
<1>9. \/ Dispatch \/ Ack \/ Nack \/ \E d \in Consumers : Crash(d)
  <2>1. CASE UNCHANGED vars
    BY <1>3, <2>1 DEF vars, state
  <2>2. CASE Next
    BY <1>3, <2>2 DEF Next, Kernel, Chained, DueEvent, Publish, Mint, Recover, PublishReply, Route,
                       Enqueue, TtlExpire, Deliver, ConsumeDone, state
  <2> QED
    BY <2>1, <2>2
<1> QED
  BY <1>4, <1>6, <1>7, <1>8, <1>9

\* Copies are made by publishing and by routing only.
LEMMA CopiesAreMade ==
  ASSUME TypeOK, [Next]_vars
  PROVE  \/ UNCHANGED <<made, counter>> \/ Mints
         \/ \E x \in DOMAIN later : Route(x)
<1>1. CASE UNCHANGED vars
  BY <1>1 DEF vars, state, history
<1>2. ASSUME NEW p \in Script, Publish(p) PROVE Mints
  BY <1>2, PublishEffect
<1>3. CASE PublishReply
  BY <1>3, PublishReplyEffect DEF state, history
<1>4. CASE Dispatch \/ Ack \/ Nack
  BY <1>4 DEF Dispatch, Ack, Nack, history
<1>5. ASSUME NEW c \in Consumers, Crash(c) \/ Recover(c) PROVE UNCHANGED <<made, counter>>
  BY <1>5 DEF Crash, Recover, history
<1>6. ASSUME NEW x \in DOMAIN later, Enqueue(x) \/ TtlExpire(x) \/ Deliver(x) \/ ConsumeDone(x)
      PROVE  UNCHANGED <<made, counter>>
  BY <1>6 DEF Enqueue, TtlExpire, Deliver, ConsumeDone, state, history
<1>7. BagToSet(later) = DOMAIN later
  BY DEF BagToSet
<1> QED
  BY <1>1, <1>2, <1>3, <1>4, <1>5, <1>6, <1>7 DEF Next, Kernel, Chained, DueEvent

LEMMA SingleStep ==
  ASSUME TypeOK, SingleOK, [Next]_vars
  PROVE  SingleOK'
<1>1. input' = input /\ Ids' = Ids
  BY InputStays DEF Ids, MaxMessages
<1>2. SUFFICES ASSUME NoForks(input), NEW id \in Ids, made[id] <= IF id <= counter THEN 1 ELSE 0
               PROVE  made'[id] <= IF id <= counter' THEN 1 ELSE 0
  BY <1>1 DEF SingleOK
<1>3. made \in [Ids -> Nat] /\ counter \in Nat /\ id \in Nat
  BY DEF TypeOK, Ids
<1>4. ASSUME counter' = counter + 1, made' = Add(made, counter + 1, 1)
      PROVE  made'[id] <= IF id <= counter' THEN 1 ELSE 0
  <2>1. made'[id] = made[id] + (IF id = counter + 1 THEN 1 ELSE 0)
    <3>1. PICK j : j = counter + 1
      OBVIOUS
    <3>2. made'[id] = made[id] + (IF id = j THEN 1 ELSE 0)
      BY <1>3, <1>4, <3>1 DEF Add
    <3> QED
      BY <3>1, <3>2
  <2>2. PICK n \in Nat : n = made[id]
    BY <1>3
  <2> QED
    BY <1>2, <1>3, <1>4, <2>1, <2>2
<1>5. ASSUME Mints PROVE made'[id] <= IF id <= counter' THEN 1 ELSE 0
  BY <1>4, <1>5 DEF Mints
<1>6. ASSUME NEW x \in DOMAIN later, Route(x) PROVE made'[id] <= IF id <= counter' THEN 1 ELSE 0
  <2>1. PICK T \in SUBSET (Exchanges \cup Queues) :
          /\ IsFiniteSet(T) /\ T = Range(Hits[x.exchange][x.msg.key])
          /\ made' = Add(made, x.msg.id, Cardinality(T) - (IF T = {} THEN 0 ELSE 1))
    BY <1>6, RouteEffect
  <2>2. x \in RouteEvents /\ counter' = counter
    BY <1>6, RouteEffect DEF state
  <2>3. x.exchange \in Exchanges /\ x.msg.key \in Keys
    BY <2>2 DEF RouteEvents, Message
  <2>4. PICK n \in Nat : n = Cardinality(T)
    BY <2>1, FS_CardinalityType
  <2>5. n <= 1
    BY <1>2, <2>1, <2>3, <2>4 DEF NoForks, Hits
  <2>6. T = {} <=> n = 0
    BY <2>1, <2>4, FS_EmptySet
  <2>7. PICK d : d = n - (IF T = {} THEN 0 ELSE 1)
    OBVIOUS
  <2>8. d = 0
    BY <2>5, <2>6, <2>7
  <2>9. made' = Add(made, x.msg.id, d)
    BY <2>1, <2>4, <2>7
  <2>10. made'[id] = made[id]
    BY <1>3, <2>8, <2>9 DEF Add
  <2> QED
    BY <1>2, <2>2, <2>10
<1>7. CASE UNCHANGED <<made, counter>>
  BY <1>2, <1>7
<1>8. \/ UNCHANGED <<made, counter>> \/ Mints
      \/ \E x \in DOMAIN later : Route(x)
  BY CopiesAreMade
<1> QED
  BY <1>5, <1>6, <1>7, <1>8

LEMMA CounterStep ==
  ASSUME TypeOK, counter <= MaxMessages, [Next]_vars
  PROVE  counter' <= MaxMessages'
<1>1. MaxMessages' = MaxMessages /\ MaxMessages \in Nat /\ counter \in Nat
  BY InputStays, InputFacts DEF MaxMessages, TypeOK
<1>2. \/ counter' = counter
      \/ counter < MaxMessages /\ counter' = counter + 1
  BY CopiesAreMade, RouteEffect DEF Mints, state
<1> QED
  BY <1>1, <1>2

LEMMA NoMoreThanAll ==
  ASSUME NEW A, NEW s \in Seq(A), NEW S
  PROVE  Number(s, S) <= Len(s)
<1>1. {i \in DOMAIN s : s[i] \in S} \subseteq 1 .. Len(s)
  OBVIOUS
<1>2. IsFiniteSet(1 .. Len(s)) /\ Cardinality(1 .. Len(s)) = Len(s)
  <2>1. Len(s) \in Nat
    OBVIOUS
  <2>2. Cardinality(1 .. Len(s)) = IF 1 > Len(s) THEN 0 ELSE Len(s) - 1 + 1
    BY <2>1, FS_Interval
  <2> QED
    BY <2>1, <2>2, FS_Interval
<1> QED
  BY <1>1, <1>2, FS_Subset DEF Number

LEMMA OneCopyHeld ==
  ASSUME TypeOK, KeptOK, ShortOK, SingleOK, OneAtATime(input) \/ NoForks(input)
  PROVE  OneCopyEach
<1> SUFFICES ASSUME NEW c \in Consumers, NEW id \in Ids
             PROVE  Number(unacked[c], MessagesOf(id)) <= 1
  BY DEF OneCopyEach
<1>1. unacked[c] \in Seq(Message) /\ unacked \in [Consumers -> Seq(Message)]
  BY DEF TypeOK
<1>2. PICK held \in Nat : held = Number(unacked[c], MessagesOf(id))
  BY <1>1, NumberType
<1>3. CASE OneAtATime(input)
  <2>1. Len(unacked[c]) <= 1 /\ Len(unacked[c]) \in Nat
    BY <1>1, <1>3 DEF ShortOK
  <2>2. held <= Len(unacked[c])
    BY <1>1, <1>2, NoMoreThanAll
  <2> QED
    BY <1>2, <2>1, <2>2
<1>4. CASE NoForks(input)
  <2>1. AutoAck = {} /\ ~CrashRacesAck
    BY <1>4 DEF NoForks, AutoAck, CrashRacesAck
  <2>2. KeptCopies(id) = made[id]
    BY <2>1 DEF KeptOK
  <2>3. PICK u, q, h, a, d, m \in Nat :
          /\ u = Underway(id) /\ q = InQueues(id) /\ h = InHands(id)
          /\ a = acks[id] /\ d = drops[id] /\ m = made[id]
    BY CountsAreNumbers
  <2>4. u + q + h + a + d = m
    BY <2>2, <2>3 DEF KeptCopies
  <2>5. m <= 1
    <3>1. made[id] <= IF id <= counter THEN 1 ELSE 0
      BY <1>4 DEF SingleOK
    <3>2. id \in Nat /\ counter \in Nat
      BY DEF TypeOK, Ids
    <3> QED
      BY <2>3, <3>1, <3>2
  <2>6. held <= h
    <3>1. Number(unacked[c], MessagesOf(id)) <= HeldIn(unacked, id)
      BY <1>1, HandsShift
    <3> QED
      BY <1>2, <2>3, <3>1 DEF InHands
  <2>7. held <= 1
    BY <2>4, <2>5, <2>6
  <2> QED
    BY <1>2, <2>7
<1> QED
  BY <1>3, <1>4

-----------------------------------------------------------------------------
(* The books of RabbitBroker, in terms of these counts.                      *)

LEMMA HeldIsNumber ==
  ASSUME TypeOK, NEW c \in Consumers, NEW id
  PROVE  Held(c, id) = Number(unacked[c], MessagesOf(id))
<1>1. unacked[c] \in Seq(Message)
  BY DEF TypeOK
<1>2. \A i \in DOMAIN unacked[c] : unacked[c][i].id = id <=> unacked[c][i] \in MessagesOf(id)
  BY <1>1 DEF MessagesOf
<1>3. {i \in DOMAIN unacked[c] : unacked[c][i].id = id} = {i \in DOMAIN unacked[c] : unacked[c][i] \in MessagesOf(id)}
  BY <1>2
<1> QED
  BY <1>3 DEF Held, Number

LEMMA QueuedIsNumber ==
  ASSUME TypeOK, NEW q \in Queues, NEW id
  PROVE  Queued(q, id) = Number(queues[q], EntriesOf(id))
<1>1. queues[q] \in Seq(Entry)
  BY DEF TypeOK
<1>2. \A i \in DOMAIN queues[q] : queues[q][i].msg.id = id <=> queues[q][i] \in EntriesOf(id)
  BY <1>1 DEF EntriesOf
<1>3. {i \in DOMAIN queues[q] : queues[q][i].msg.id = id} = {i \in DOMAIN queues[q] : queues[q][i] \in EntriesOf(id)}
  BY <1>2
<1> QED
  BY <1>3 DEF Queued, Number

LEMMA SettlingIsNumber ==
  ASSUME TypeOK, NEW c \in Consumers, NEW id
  PROVE  Settling(c, id) = Number(urgent, Settles(c, id))
<1> DEFINE Waits(e) == e.type \in {"ack", "nack"} /\ e.consumer = c /\ e.msg.id = id
<1>1. urgent \in Seq(UrgentEvents)
  BY DEF TypeOK
<1>2. \A e \in UrgentEvents : Waits(e) <=> e \in Settles(c, id)
  <2> SUFFICES ASSUME NEW e \in UrgentEvents PROVE Waits(e) <=> e \in Settles(c, id)
    OBVIOUS
  <2>1. e.type \in {"ack", "nack"} <=> e \in SettleEvents
    BY UrgentEventTypes
  <2> QED
    BY <2>1 DEF Settles
<1>3. \A i \in DOMAIN urgent : urgent[i] \in UrgentEvents
  BY <1>1
<1> HIDE DEF Waits
<1>4. {i \in DOMAIN urgent : Waits(urgent[i])} = {i \in DOMAIN urgent : urgent[i] \in Settles(c, id)}
  BY <1>2, <1>3
<1> QED
  BY <1>4 DEF Settling, Number, Waits

LEMMA WorkingIsCounted ==
  ASSUME TypeOK, NEW c \in Consumers, NEW id
  PROVE  Working(c, id) = Counted(later, Jobs(c, id, crashEpoch[c]))
<1> DEFINE Goes(e) == InHand(e) /\ e.consumer = c /\ e.msg.id = id
<1>1. DOMAIN later \subseteq LaterEvents /\ BagToSet(later) = DOMAIN later
  BY DEF TypeOK, BagOver, BagToSet
<1>2. \A e \in DOMAIN later : Goes(e) <=> e \in Jobs(c, id, crashEpoch[c])
  <2> SUFFICES ASSUME NEW e \in DOMAIN later PROVE Goes(e) <=> e \in Jobs(c, id, crashEpoch[c])
    OBVIOUS
  <2>1. e.type \in {"deliver", "consumeDone"} <=> e \in WorkEvents
    BY <1>1, LaterEventTypes
  <2> QED
    BY <2>1 DEF Jobs, InHand, Current
<1> HIDE DEF Goes
<1>3. {e \in BagToSet(later) : Goes(e)} = DOMAIN later \cap Jobs(c, id, crashEpoch[c])
  BY <1>1, <1>2
<1> QED
  BY <1>3 DEF Working, Counted, Sum, Goes

LEMMA TravellingIsUnderway ==
  ASSUME TypeOK, NEW id
  PROVE  Travelling(id) = Underway(id)
<1> DEFINE Goes(e) == e.type \in {"route", "enqueue"} /\ e.msg.id = id
<1>1. DOMAIN later \subseteq LaterEvents /\ BagToSet(later) = DOMAIN later
  BY DEF TypeOK, BagOver, BagToSet
<1>2. \A e \in DOMAIN later : Goes(e) <=> e \in OnTheWay(id)
  <2> SUFFICES ASSUME NEW e \in DOMAIN later PROVE Goes(e) <=> e \in OnTheWay(id)
    OBVIOUS
  <2>1. (e.type = "route" <=> e \in RouteEvents) /\ (e.type = "enqueue" <=> e \in EnqueueEvents)
    BY <1>1, LaterEventTypes
  <2> QED
    BY <2>1 DEF OnTheWay
<1> HIDE DEF Goes
<1>3. {e \in BagToSet(later) : Goes(e)} = DOMAIN later \cap OnTheWay(id)
  BY <1>1, <1>2
<1> QED
  BY <1>3 DEF Travelling, Underway, Counted, Sum, Goes

LEMMA GreaterOfTwo ==
  ASSUME NEW a \in Nat, NEW b \in Nat
  PROVE  Max({a, b}) = IF a >= b THEN a ELSE b
<1>1. PICK m \in {a, b} : m >= a /\ m >= b
  OBVIOUS
<1>2. \A n \in {a, b} : (\A y \in {a, b} : n >= y) => n = m
  BY <1>1
<1>3. Max({a, b}) \in {a, b} /\ \A y \in {a, b} : Max({a, b}) >= y
  <2>1. m \in {a, b} /\ \A y \in {a, b} : m >= y
    BY <1>1
  <2> QED
    BY <2>1 DEF Max
<1> QED
  BY <1>1, <1>2, <1>3

\* What is with the consumers is at least what they hold, and just that where no
\* crash overtakes an ack.
LEMMA CopiesWithConsumers ==
  ASSUME TypeOK, HandledOK, AutoAck = {}, NEW id \in Ids
  PROVE  /\ SumFunction([c \in Consumers |-> With(c, id)]) \in Nat
         /\ SumFunction([c \in Consumers |-> With(c, id)]) >= InHands(id)
         /\ ~CrashRacesAck => SumFunction([c \in Consumers |-> With(c, id)]) = InHands(id)
<1> DEFINE f == [c \in Consumers |-> Number(unacked[c], MessagesOf(id))]
           g == [c \in Consumers |-> With(c, id)]
<1>1. ASSUME NEW c \in Consumers
      PROVE  f[c] \in Nat /\ g[c] \in Nat /\ f[c] <= g[c] /\ (~CrashRacesAck => f[c] = g[c])
  <2>1. /\ Number(unacked[c], MessagesOf(id)) \in Nat
        /\ Counted(later, Jobs(c, id, crashEpoch[c])) \in Nat
        /\ Number(urgent, Settles(c, id)) \in Nat
    BY HandledNumbers
  <2>2. PICK h, w, s \in Nat : /\ h = Number(unacked[c], MessagesOf(id))
                               /\ w = Counted(later, Jobs(c, id, crashEpoch[c]))
                               /\ s = Number(urgent, Settles(c, id))
    BY <2>1
  <2>3. Held(c, id) = h /\ Working(c, id) = w /\ Settling(c, id) = s
    BY <2>2, HeldIsNumber, WorkingIsCounted, SettlingIsNumber
  <2>4. With(c, id) = Max({h, w + s})
    BY <2>3 DEF With
  <2>5. Max({h, w + s}) = IF h >= w + s THEN h ELSE w + s
    BY GreaterOfTwo
  <2>6. ~CrashRacesAck => h = w + s
    BY <2>2 DEF HandledOK, Handled
  <2>7. f[c] = h /\ g[c] = With(c, id)
    BY <2>2
  <2> QED
    BY <2>4, <2>5, <2>6, <2>7
<1>2. SumFunction(g) = Sum(g, Consumers) /\ InHands(id) = Sum(f, Consumers)
  BY DEF SumFunction, Sum, InHands, HeldIn
<1>3. IsFiniteSet(Consumers)
  BY NodesAssumption
<1> HIDE DEF f, g
<1>4. Sum(f, Consumers) \in Nat /\ Sum(g, Consumers) \in Nat
  BY <1>1, <1>3, SumIsNumber
<1>5. Sum(f, Consumers) <= Sum(g, Consumers)
  BY <1>1, <1>3, SumOfGreater
<1>6. ~CrashRacesAck => Sum(f, Consumers) = Sum(g, Consumers)
  BY <1>1, <1>3, SumOfSame
<1>7. /\ SumFunction(g) \in Nat /\ SumFunction(g) >= InHands(id)
      /\ ~CrashRacesAck => SumFunction(g) = InHands(id)
  BY <1>2, <1>4, <1>5, <1>6
<1> QED
  BY <1>7 DEF g

LEMMA BooksAreKept ==
  ASSUME TypeOK, HandledOK, KeptOK, counter <= MaxMessages
  PROVE  EveryCopyAccounted
<1>1. WorkIsHeld
  <2> SUFFICES ASSUME ~CrashRacesAck, NEW c \in Consumers \ AutoAck, NEW id \in Ids, Working(c, id) > 0
               PROVE  Held(c, id) > 0
    BY DEF WorkIsHeld
  <2>1. PICK h, w, s \in Nat : /\ h = Number(unacked[c], MessagesOf(id))
                               /\ w = Counted(later, Jobs(c, id, crashEpoch[c]))
                               /\ s = Number(urgent, Settles(c, id))
    BY HandledNumbers
  <2>2. h = w + s
    BY <2>1 DEF HandledOK, Handled
  <2>3. Held(c, id) = h /\ Working(c, id) = w
    BY <2>1, HeldIsNumber, WorkingIsCounted
  <2> QED
    BY <2>2, <2>3
<1>2. ASSUME AutoAck = {}, NEW id \in Ids
      PROVE  Accounted(id) >= made[id] /\ (~CrashRacesAck => Accounted(id) = made[id])
  <2> DEFINE with == SumFunction([c \in Consumers |-> With(c, id)])
  <2>1. /\ with \in Nat /\ with >= InHands(id) /\ (~CrashRacesAck => with = InHands(id))
    BY <1>2, CopiesWithConsumers
  <2>2. SumFunction([q \in Queues |-> Queued(q, id)]) = InQueues(id)
    <3>1. \A q \in Queues : Queued(q, id) = Number(queues[q], EntriesOf(id))
      BY QueuedIsNumber
    <3>2. [q \in Queues |-> Queued(q, id)] = [q \in Queues |-> Number(queues[q], EntriesOf(id))]
      BY <3>1
    <3> QED
      BY <3>2 DEF SumFunction, Sum, InQueues, QueuedIn
  <2>3. Travelling(id) = Underway(id)
    BY TravellingIsUnderway
  <2> HIDE DEF with
  <2>4. Accounted(id) = ((Underway(id) + InQueues(id)) + with) + acks[id] + drops[id]
    BY <2>2, <2>3 DEF Accounted, Copies, with
  <2>5. PICK u, q, h, a, d, m \in Nat :
          /\ u = Underway(id) /\ q = InQueues(id) /\ h = InHands(id)
          /\ a = acks[id] /\ d = drops[id] /\ m = made[id]
    BY <1>2, CountsAreNumbers
  <2>6. PICK w \in Nat : w = with
    BY <2>1
  <2>7. u + q + h + a + d >= m /\ (~CrashRacesAck => u + q + h + a + d = m)
    BY <1>2, <2>5 DEF KeptOK, KeptCopies
  <2>8. w >= h /\ (~CrashRacesAck => w = h)
    BY <2>1, <2>5, <2>6
  <2>9. Accounted(id) = u + q + w + a + d
    BY <2>4, <2>5, <2>6
  <2> QED
    BY <2>5, <2>7, <2>8, <2>9
<1>3. 1 .. counter \subseteq Ids
  BY InputFacts DEF TypeOK, Ids, MaxMessages
<1> QED
  BY <1>1, <1>2, <1>3 DEF EveryCopyAccounted

CopiesOK ==
  /\ WorkOK /\ HandledOK /\ KeptOK
  /\ ShortOK /\ SingleOK /\ counter <= MaxMessages

\* Where no consumer can hold two copies of one message, because each holds one
\* message at a time or because no exchange forks, every copy of a message that
\* was ever made is in a queue, under way, with a consumer, acknowledged or
\* dropped, and in one of these only: acks, rejections, requeues, expiries,
\* overflows and crashes lose none and double none, and the work that a crash
\* leaves behind is never done (broker.ts, delivery.ts, advanced.ts, dlx.ts).
THEOREM EveryCopyIsKept ==
  ASSUME \A i \in Inputs : OneAtATime(i) \/ NoForks(i)
  PROVE  Spec => []EveryCopyAccounted
<1>1. Init => CopiesOK
  <2> SUFFICES ASSUME Init PROVE CopiesOK
    OBVIOUS
  <2>1. TypeOK
    BY InitType
  <2>2. later = EmptyBag /\ urgent = <<>> /\ counter = 0
    BY DEF Init
  <2>3. WorkOK
    BY <2>2, NoneCounts DEF WorkOK
  <2>4. ASSUME NEW c \in Consumers, NEW id PROVE Number(unacked[c], MessagesOf(id)) = 0
    <3>1. unacked[c] = <<>>
      BY DEF Init
    <3> QED
      BY <3>1, NumberOfOne
  <2>5. ASSUME NEW q \in Queues, NEW id PROVE Number(queues[q], EntriesOf(id)) = 0
    <3>1. queues[q] = <<>>
      BY DEF Init
    <3> QED
      BY <3>1, NumberOfOne
  <2>6. ASSUME NEW S PROVE Counted(later, S) = 0
    BY <2>2, NoneCounts
  <2>7. HandledOK
    <3> SUFFICES ASSUME NEW c \in Consumers, NEW id \in Ids PROVE Handled(c, id)
      BY DEF HandledOK
    <3>1. Number(urgent, Settles(c, id)) = 0
      BY <2>2, NumberOfOne
    <3>2. Number(unacked[c], MessagesOf(id)) = 0 /\ Counted(later, Jobs(c, id, crashEpoch[c])) = 0
      BY <2>4, <2>6
    <3> QED
      BY <3>1, <3>2 DEF Handled
  <2>8. KeptOK
    <3> SUFFICES ASSUME NEW id \in Ids PROVE KeptCopies(id) = 0 /\ made[id] = 0
      BY DEF KeptOK
    <3>1. made[id] = 0 /\ acks[id] = 0 /\ drops[id] = 0
      BY DEF Init, None
    <3>2. Underway(id) = 0
      BY <2>6 DEF Underway
    <3>3. InQueues(id) = 0
      <4> DEFINE f == [q \in Queues |-> Number(queues[q], EntriesOf(id))]
      <4>1. \A q \in Queues : f[q] = 0
        BY <2>5
      <4> HIDE DEF f
      <4>2. Sum(f, Queues) = 0
        BY <4>1, NodesAssumption, SumOfSame
      <4> QED
        BY <4>2 DEF InQueues, QueuedIn, f
    <3>4. InHands(id) = 0
      <4> DEFINE f == [c \in Consumers |-> Number(unacked[c], MessagesOf(id))]
      <4>1. \A c \in Consumers : f[c] = 0
        BY <2>4
      <4> HIDE DEF f
      <4>2. Sum(f, Consumers) = 0
        BY <4>1, NodesAssumption, SumOfSame
      <4> QED
        BY <4>2 DEF InHands, HeldIn, f
    <3> QED
      BY <3>1, <3>2, <3>3, <3>4 DEF KeptCopies
  <2>9. ShortOK /\ SingleOK
    BY DEF Init, None, ShortOK, SingleOK, Ids
  <2>10. counter <= MaxMessages
    BY <2>1, <2>2, InputFacts DEF TypeOK, MaxMessages
  <2> QED
    BY <2>3, <2>7, <2>8, <2>9, <2>10 DEF CopiesOK
<1>2. TypeOK /\ TypeOK' /\ CopiesOK /\ [Next]_vars => CopiesOK'
  <2> SUFFICES ASSUME TypeOK, TypeOK', CopiesOK, [Next]_vars PROVE CopiesOK'
    OBVIOUS
  <2>1. WorkOK /\ HandledOK /\ KeptOK /\ ShortOK /\ SingleOK /\ counter <= MaxMessages
    BY DEF CopiesOK
  <2>2. OneCopyEach
    <3>1. OneAtATime(input) \/ NoForks(input)
      BY DEF TypeOK
    <3> QED
      BY <2>1, <3>1, OneCopyHeld
  <2> QED
    BY <2>1, <2>2, WorkStep, HandledStep, KeptStep, ShortStep, SingleStep, CounterStep DEF CopiesOK
<1>3. TypeOK /\ CopiesOK => EveryCopyAccounted
  BY BooksAreKept DEF CopiesOK
<1> QED
  BY <1>1, <1>2, <1>3, RabbitTypeCorrect, PTL DEF Spec
===============================================================================
