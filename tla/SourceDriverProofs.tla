-------------------------- MODULE SourceDriverProofs --------------------------
(***************************************************************************)
(* What holds of SourceDriver for every bound of the queues and any number *)
(* of frames, with or without IMU parsing: messages are exclusive and hold *)
(* whole frames (MessagesRight), and frames are sent in order               *)
(* (PublishedInOrder).  IInv relates the numbers in the messages of a      *)
(* stream, along the way from the decoder to the destinations.             *)
(***************************************************************************)
EXTENDS SourceDriver, TLAPS, FiniteSetTheorems, SequenceTheorems

-----------------------------------------------------------------------------
(* The types.                                                              *)

\* The driver has no messages before its init(), and keeps them after.
Unready == {"init", "driver"}
Ready == {"register", "start", "spin", "joinHandle", "joinProcess", "stopped", "aborted"}

FillOK == /\ hpc \in {"off", "run", "put", "get"} /\ splitting \in Streams
          /\ filling \in [Streams -> Messages \cup {Null}]
          /\ data \in [Messages -> SUBSET Nat] /\ seq \in [Messages -> Nat]
          /\ frames \in [Streams -> Nat]
          /\ lost \subseteq Streams

SendOK == /\ ppc \in [Streams -> {"off", "poll", "send", "free"}]
          /\ item \in [Streams -> Messages \cup {Null}]
          /\ published \in [Streams -> Nat]
          /\ \A s \in Streams : ppc[s] \in {"send", "free"} <=> item[s] # Null

QueuesOK == /\ stuffed \in [Streams -> Seq(Messages)] /\ spare \in [Streams -> Seq(Messages)]
            /\ \A s \in Streams : Len(stuffed[s]) <= QueueBound /\ Len(spare[s]) <= QueueBound

MainOK == /\ main \in Unready \cup Ready \cup {"exited"}
          /\ main \in Unready =>
               /\ hpc = "off" /\ data = [m \in Messages |-> {}]
               /\ \A s \in Streams : /\ stuffed[s] = <<>> /\ spare[s] = <<>>
                                     /\ item[s] = Null /\ frames[s] = 0 /\ published[s] = 0
          /\ main \in Ready => filling \in [Streams -> Messages]
          /\ hpc # "off" => main \in Ready \ {"register", "start"}

TypeOK == FillOK /\ SendOK /\ QueuesOK /\ MainOK

-----------------------------------------------------------------------------
(* What the messages hold, and how they are numbered.                      *)

\* handle_thread_ is handing over a message of stream s.
Handing(s) == hpc = "put" /\ splitting = s
HandedOver(s) == hpc = "get" /\ splitting = s

\* A message that was handed over holds the frame it names; the one that is
\* filled holds at most the frame to come.
QueuedWhole(s) == \A i \in 1 .. Len(stuffed[s]) : data[stuffed[s][i]] = {seq[stuffed[s][i]]}
SentWhole(s) == item[s] # Null => data[item[s]] = {seq[item[s]]}
FillingRight(s) ==
    /\ Handing(s) => data[filling[s]] = {frames[s]} /\ seq[filling[s]] = frames[s]
    /\ filling[s] # Null /\ ~Handing(s) /\ ~HandedOver(s) =>
         data[filling[s]] \subseteq {frames[s] + 1}

DataInv == \A s \in Streams : QueuedWhole(s) /\ SentWhole(s) /\ FillingRight(s)

\* The last number on its way out, and the last one queued at most.
Sending(s) == IF ppc[s] = "send" THEN seq[item[s]] ELSE published[s]
Newest(s) == IF Handing(s) THEN frames[s] - 1 ELSE frames[s]

\* The numbers ascend along the way.
Ordered(s) ==
    /\ ppc[s] = "send" => published[s] < seq[item[s]]
    /\ Sending(s) <= Newest(s)
    /\ \A i \in 1 .. Len(stuffed[s]) :
          /\ Sending(s) < seq[stuffed[s][i]] /\ seq[stuffed[s][i]] <= Newest(s)
          /\ \A j \in 1 .. Len(stuffed[s]) : i < j => seq[stuffed[s][i]] < seq[stuffed[s][j]]

\* And without a gap, where nothing was lost.
Gapless(s) ==
    /\ ppc[s] = "send" => seq[item[s]] = published[s] + 1
    /\ \A i \in 1 .. Len(stuffed[s]) : seq[stuffed[s][i]] = Sending(s) + i
    /\ Newest(s) = Sending(s) + Len(stuffed[s])

OrderInv == \A s \in Streams : Ordered(s) /\ (s \in lost \/ Gapless(s))

IInv == TypeOK /\ ExclusiveMessages /\ DataInv /\ OrderInv

-----------------------------------------------------------------------------
(* Sequences without repetition, and messages nobody points to.            *)

\* A queue grows by a message that is not in it.
LEMMA AppendOnce ==
    ASSUME NEW S, NEW q \in Seq(S), NEW m \in S, IsInjective(q), m \notin ToSet(q)
    PROVE  IsInjective(Append(q, m)) /\ ToSet(Append(q, m)) = ToSet(q) \cup {m}
<1>1. /\ Len(q) \in Nat /\ DOMAIN q = 1 .. Len(q) /\ DOMAIN Append(q, m) = 1 .. Len(q) + 1
      /\ Append(q, m)[Len(q) + 1] = m /\ \A i \in 1 .. Len(q) : Append(q, m)[i] = q[i]
    BY AppendProperties
<1>2. \A i \in 1 .. Len(q) : q[i] # m
    BY <1>1 DEF ToSet
<1>3. IsInjective(Append(q, m))
    BY <1>1, <1>2 DEF IsInjective
<1> QED
    BY <1>1, <1>3 DEF ToSet

\* And loses its first.
LEMMA TailOnce ==
    ASSUME NEW S, NEW q \in Seq(S), q # <<>>, IsInjective(q)
    PROVE  /\ Tail(q) \in Seq(S) /\ IsInjective(Tail(q))
           /\ Head(q) \in ToSet(q) /\ Head(q) \in S /\ ToSet(Tail(q)) = ToSet(q) \ {Head(q)}
           /\ Len(q) \in Nat \ {0} /\ Len(Tail(q)) = Len(q) - 1 /\ Head(q) = q[1]
           /\ \A i \in 1 .. Len(Tail(q)) : Tail(q)[i] = q[i + 1]
<1>1. /\ Tail(q) \in Seq(S) /\ Head(q) = q[1] /\ q[1] \in S
      /\ Len(q) \in Nat \ {0} /\ Len(Tail(q)) = Len(q) - 1
      /\ DOMAIN q = 1 .. Len(q) /\ DOMAIN Tail(q) = 1 .. Len(q) - 1
      /\ \A i \in 1 .. Len(q) - 1 : Tail(q)[i] = q[i + 1]
    BY HeadTailProperties
<1>2. IsInjective(Tail(q))
    BY <1>1 DEF IsInjective
<1>3. \A i \in 2 .. Len(q) : q[i] # q[1] /\ q[i] = Tail(q)[i - 1]
    BY <1>1 DEF IsInjective
<1>4. ToSet(Tail(q)) = ToSet(q) \ {q[1]}
  <2>1. ASSUME NEW x \in ToSet(Tail(q)) PROVE x \in ToSet(q) \ {q[1]}
      BY <1>1, <1>3 DEF ToSet
  <2>2. ASSUME NEW x \in ToSet(q) \ {q[1]} PROVE x \in ToSet(Tail(q))
    <3>1. PICK i \in 1 .. Len(q) : x = q[i]
        BY <1>1 DEF ToSet
    <3>2. i \in 2 .. Len(q) /\ i - 1 \in 1 .. Len(q) - 1
        BY <1>1, <2>2, <3>1
    <3> QED
        BY <1>1, <1>3, <3>1, <3>2 DEF ToSet
  <2> QED
      BY <2>1, <2>2
<1>5. Head(q) \in ToSet(q)
    BY <1>1 DEF ToSet
<1> QED
    BY <1>1, <1>2, <1>4, <1>5

\* A queue holds no more messages than it is long.
LEMMA QueueFinite ==
    ASSUME NEW S, NEW q \in Seq(S)
    PROVE  IsFiniteSet(ToSet(q)) /\ Cardinality(ToSet(q)) <= Len(q)
<1>1. Len(q) \in Nat /\ DOMAIN q = 1 .. Len(q)
    BY LenProperties
<1>2. q \in Surjection(1 .. Len(q), ToSet(q))
    BY <1>1 DEF Surjection, ToSet
<1>3. ExistsSurjection(1 .. Len(q), ToSet(q))
    BY <1>2 DEF ExistsSurjection
<1> QED
    BY <1>1, <1>3, FS_NatSurjection, FS_SurjCardinalityBound

\* The size of a union.
LEMMA UnionBound ==
    ASSUME NEW S, NEW T, IsFiniteSet(S), IsFiniteSet(T)
    PROVE  /\ IsFiniteSet(S \cup T) /\ Cardinality(S) \in Nat /\ Cardinality(T) \in Nat
           /\ Cardinality(S \cup T) \in Nat
           /\ Cardinality(S \cup T) <= Cardinality(S) + Cardinality(T)
<1>1. IsFiniteSet(S \cup T) /\ IsFiniteSet(S \cap T)
    BY FS_Union, FS_Intersection
<1>2. Cardinality(S \cup T) = Cardinality(S) + Cardinality(T) - Cardinality(S \cap T)
    BY FS_Union
<1> QED
    BY <1>1, <1>2, FS_CardinalityType

\* What stream s points to.
Pointed(s) == {filling[s], item[s]} \cup ToSet(stuffed[s]) \cup ToSet(spare[s])

\* A stream points to two messages and to those in its queues.
LEMMA PointedFinite ==
    ASSUME TypeOK, NEW s \in Streams
    PROVE  IsFiniteSet(Pointed(s)) /\ Cardinality(Pointed(s)) <= 2 * QueueBound + 2
<1> DEFINE F == {filling[s]} \cup {item[s]}
           A == ToSet(stuffed[s])
           B == ToSet(spare[s])
<1>1. IsFiniteSet(F) /\ Cardinality(F) <= 2 /\ Cardinality(F) \in Nat
  <2>1. /\ IsFiniteSet({filling[s]}) /\ Cardinality({filling[s]}) = 1
        /\ IsFiniteSet({item[s]}) /\ Cardinality({item[s]}) = 1
      BY FS_Singleton
  <2> QED
      BY <2>1, UnionBound
<1>2. /\ IsFiniteSet(A) /\ Cardinality(A) <= QueueBound /\ Cardinality(A) \in Nat
      /\ IsFiniteSet(B) /\ Cardinality(B) <= QueueBound /\ Cardinality(B) \in Nat
  <2>1. /\ stuffed[s] \in Seq(Messages) /\ spare[s] \in Seq(Messages)
        /\ Len(stuffed[s]) <= QueueBound /\ Len(spare[s]) <= QueueBound
        /\ Len(stuffed[s]) \in Nat /\ Len(spare[s]) \in Nat /\ QueueBound \in Nat
      BY MessagesAssumption DEF TypeOK, QueuesOK
  <2>2. /\ IsFiniteSet(A) /\ Cardinality(A) <= Len(stuffed[s])
        /\ IsFiniteSet(B) /\ Cardinality(B) <= Len(spare[s])
      BY <2>1, QueueFinite
  <2>3. Cardinality(A) \in Nat /\ Cardinality(B) \in Nat
      BY <2>2, FS_CardinalityType
  <2> QED
      BY <2>1, <2>2, <2>3
<1> HIDE DEF F, A, B
<1>3. /\ IsFiniteSet(F \cup A) /\ Cardinality(F \cup A) \in Nat
      /\ Cardinality(F \cup A) <= 2 + QueueBound
    BY <1>1, <1>2, MessagesAssumption, UnionBound
<1>4. IsFiniteSet(F \cup A \cup B) /\ Cardinality(F \cup A \cup B) <= 2 + QueueBound + QueueBound
    BY <1>2, <1>3, MessagesAssumption, UnionBound
<1>5. Pointed(s) = F \cup A \cup B
    BY DEF Pointed, F, A, B
<1> QED
    BY <1>4, <1>5, MessagesAssumption

\* There are one or two streams.
LEMMA StreamsCount ==
    /\ IsFiniteSet(Streams) /\ Cardinality(Streams) \in Nat
    /\ Streams = {"cloud"} => Cardinality(Streams) = 1
    /\ Streams = {"cloud", "imu"} => Cardinality(Streams) = 2
    /\ Streams = {"cloud"} \/ Streams = {"cloud", "imu"}
<1>1. IsFiniteSet({"cloud"}) /\ Cardinality({"cloud"}) = 1
    BY FS_Singleton
<1>2. IsFiniteSet({"cloud", "imu"}) /\ Cardinality({"cloud", "imu"}) = 2
  <2>1. {"cloud", "imu"} = {"cloud"} \cup {"imu"} /\ "imu" \notin {"cloud"}
      OBVIOUS
  <2> QED
      BY <1>1, <2>1, FS_AddElement
<1>3. Streams = {"cloud"} \/ Streams = {"cloud", "imu"}
    BY StreamsAssumption
<1> QED
    BY <1>1, <1>2, <1>3

\* There are more messages than the program can point to.
LEMMA AnotherMessage ==
    ASSUME NEW L, IsFiniteSet(L),
           Cardinality(L) <= Cardinality(Streams) * (2 * QueueBound + 2)
    PROVE  \E m \in Messages : m \notin L
<1> SUFFICES ASSUME Messages \subseteq L PROVE FALSE
    OBVIOUS
<1>1. IsFiniteSet(Messages) /\ Cardinality(Messages) <= Cardinality(L)
    BY FS_Subset
<1>2. /\ Cardinality(Messages) \in Nat /\ Cardinality(L) \in Nat
      /\ Cardinality(Messages) > Cardinality(Streams) * (2 * QueueBound + 2)
    BY <1>1, FS_CardinalityType, MessagesAssumption
<1>3. Cardinality(Streams) * (2 * QueueBound + 2) \in Nat
    BY StreamsCount, MessagesAssumption
<1> QED
    BY <1>1, <1>2, <1>3

\* make_shared finds an object.
LEMMA FreshIsNew ==
    ASSUME TypeOK
    PROVE  Fresh \in Messages /\ Fresh \notin Live
<1>1. Live = UNION {Pointed(s) : s \in Streams}
    BY DEF Live, Pointed
<1>2. IsFiniteSet(Live) /\ Cardinality(Live) <= Cardinality(Streams) * (2 * QueueBound + 2)
  <2>1. CASE Streams = {"cloud"}
    <3>1. Live = Pointed("cloud") /\ Cardinality(Streams) = 1
        BY <1>1, <2>1, StreamsCount
    <3> QED
        BY <2>1, <3>1, PointedFinite, MessagesAssumption
  <2>2. CASE Streams = {"cloud", "imu"}
    <3>1. Live = Pointed("cloud") \cup Pointed("imu") /\ Cardinality(Streams) = 2
        BY <1>1, <2>2, StreamsCount
    <3>2. /\ IsFiniteSet(Pointed("cloud")) /\ Cardinality(Pointed("cloud")) <= 2 * QueueBound + 2
          /\ IsFiniteSet(Pointed("imu")) /\ Cardinality(Pointed("imu")) <= 2 * QueueBound + 2
        BY <2>2, PointedFinite
    <3>3. IsFiniteSet(Live) /\ Cardinality(Live) <= (2 * QueueBound + 2) + (2 * QueueBound + 2)
        BY <3>1, <3>2, MessagesAssumption, UnionBound
    <3> QED
        BY <3>1, <3>3, MessagesAssumption
  <2> QED
      BY <2>1, <2>2, StreamsCount
<1> QED
    BY <1>2, AnotherMessage DEF Fresh

\* LidarDriverImpl::init finds one for each stream.
LEMMA FillingExists == \E f \in [Streams -> Messages] : IsInjective(f)
<1>1. PICK m \in Messages : TRUE
    BY AnotherMessage, FS_EmptySet, StreamsCount, MessagesAssumption
<1>2. PICK n \in Messages : n # m
  <2>1. IsFiniteSet({m}) /\ Cardinality({m}) = 1
      BY FS_Singleton
  <2> QED
      BY <2>1, AnotherMessage, StreamsCount, MessagesAssumption
<1> DEFINE f == [s \in Streams |-> IF s = "cloud" THEN m ELSE n]
<1>3. f \in [Streams -> Messages]
    OBVIOUS
<1>4. IsInjective(f)
    BY <1>2, StreamsCount DEF IsInjective
<1> QED
    BY <1>3, <1>4

-----------------------------------------------------------------------------
(* The types.                                                              *)

\* The steps of main() keep the types.
LEMMA MainType ==
    ASSUME TypeOK, Main
    PROVE  TypeOK'
<1>1. CASE InitThreads
    BY <1>1
    DEF InitThreads, Goes, TypeOK, FillOK, SendOK, QueuesOK, MainOK, Unready, Ready, exitVars,
        fillVars, queues
<1>2. CASE InitDriver
  <2>1. filling' \in [Streams -> Messages]
      BY <1>2, FillingExists DEF InitDriver
  <2> QED
      BY <1>2, <2>1
      DEF InitDriver, Goes, TypeOK, FillOK, SendOK, QueuesOK, MainOK, Unready, Ready, exitVars,
          sendVars, queues
<1>3. CASE InitFails
    BY <1>3
    DEF InitFails, Goes, TypeOK, FillOK, SendOK, QueuesOK, MainOK, Unready, Ready, exitVars,
        fillVars, sendVars, queues
<1>4. CASE Register
    BY <1>4
    DEF Register, Goes, TypeOK, FillOK, SendOK, QueuesOK, MainOK, Unready, Ready, exitVars,
        fillVars, sendVars, queues
<1>5. CASE Start
    BY <1>5
    DEF Start, Goes, TypeOK, FillOK, SendOK, QueuesOK, MainOK, Unready, Ready, exitVars, sendVars,
        queues
<1>6. CASE Stop
    BY <1>6
    DEF Stop, Goes, TypeOK, FillOK, SendOK, QueuesOK, MainOK, Unready, Ready, fillVars, sendVars,
        queues
<1>7. CASE StopProcess
  <2>1. data' \in [Messages -> SUBSET Nat]
      BY <1>7 DEF StopProcess, TypeOK, FillOK
  <2> QED
      BY <1>7, <2>1
      DEF StopProcess, Goes, TypeOK, FillOK, SendOK, QueuesOK, MainOK, Unready, Ready, sendVars,
          queues
<1>8. CASE StopDone
    BY <1>8
    DEF StopDone, Goes, TypeOK, FillOK, SendOK, QueuesOK, MainOK, Unready, Ready, exitVars,
        fillVars, sendVars, queues
<1>9. CASE Destroy
    BY <1>9
    DEF Destroy, Goes, TypeOK, FillOK, SendOK, QueuesOK, MainOK, Unready, Ready, exitVars,
        fillVars, sendVars, queues
<1> QED
    BY <1>1, <1>2, <1>3, <1>4, <1>5, <1>6, <1>7, <1>8, <1>9 DEF Main

\* So do those of handle_thread_.
LEMMA HandleType ==
    ASSUME TypeOK, Handle
    PROVE  TypeOK'
<1>1. main \in Ready \ {"register", "start"} /\ main' = main
    BY DEF Handle, Decode, Split, Put, Get, HandleExit, ByHandle, TypeOK, MainOK
<1>2. SendOK'
    BY DEF Handle, Decode, Split, Put, Get, HandleExit, ByHandle, sendVars, TypeOK, SendOK
<1>3. filling \in [Streams -> Messages] /\ splitting \in Streams
    BY <1>1 DEF TypeOK, MainOK, FillOK
<1>4. ASSUME FillOK', QueuesOK', filling' \in [Streams -> Messages] PROVE TypeOK'
    BY <1>1, <1>2, <1>4 DEF TypeOK, MainOK, Unready, Ready
<1>5. ASSUME NEW s \in Streams, Decode(s) PROVE TypeOK'
  <2>1. data' \in [Messages -> SUBSET Nat]
    <3>1. frames[s] + 1 \in Nat /\ data[filling[s]] \subseteq Nat /\ filling[s] \in Messages
        BY <1>3 DEF TypeOK, FillOK
    <3>2. data[filling[s]] \cup {frames[s] + 1} \in SUBSET Nat
        BY <3>1
    <3> QED
        BY <1>5, <3>2 DEF Decode, TypeOK, FillOK
  <2> QED
      BY <1>3, <1>4, <1>5, <2>1 DEF Decode, TypeOK, FillOK, QueuesOK, queues
<1>6. ASSUME NEW s \in Streams, Split(s) PROVE TypeOK'
  <2>1. seq' \in [Messages -> Nat] /\ frames' \in [Streams -> Nat]
    <3>1. frames[s] + 1 \in Nat
        BY DEF TypeOK, FillOK
    <3> QED
        BY <1>6, <3>1 DEF Split, TypeOK, FillOK
  <2> QED
      BY <1>3, <1>4, <1>6, <2>1 DEF Split, TypeOK, FillOK, QueuesOK, queues
<1>7. CASE Put
  <2>1. QueuesOK'
    <3>1. CASE Len(stuffed[splitting]) < QueueBound
      <4>1. /\ Append(stuffed[splitting], filling[splitting]) \in Seq(Messages)
            /\ Len(Append(stuffed[splitting], filling[splitting])) <= QueueBound
          BY <1>3, <3>1, AppendProperties, MessagesAssumption DEF TypeOK, QueuesOK
      <4> QED
          BY <1>3, <1>7, <3>1, <4>1 DEF Put, TypeOK, QueuesOK
    <3>2. CASE ~(Len(stuffed[splitting]) < QueueBound)
        BY <1>7, <3>2 DEF Put, TypeOK, QueuesOK
    <3> QED
        BY <3>1, <3>2
  <2>2. lost' \subseteq Streams
      BY <1>3, <1>7 DEF Put, TypeOK, FillOK
  <2> QED
      BY <1>3, <1>4, <1>7, <2>1, <2>2 DEF Put, TypeOK, FillOK
<1>8. CASE Get
  <2>1. QueuesOK' /\ filling' \in [Streams -> Messages]
    <3>1. CASE spare[splitting] # <<>>
      <4>1. /\ Tail(spare[splitting]) \in Seq(Messages) /\ Head(spare[splitting]) \in Messages
            /\ Len(Tail(spare[splitting])) <= QueueBound
          BY <1>3, <3>1, HeadTailProperties, MessagesAssumption DEF TypeOK, QueuesOK
      <4> QED
          BY <1>3, <1>8, <3>1, <4>1 DEF Get, TypeOK, QueuesOK
    <3>2. CASE spare[splitting] = <<>>
        BY <1>3, <1>8, <3>2, FreshIsNew DEF Get, TypeOK, QueuesOK
    <3> QED
        BY <3>1, <3>2
  <2>2. data' \in [Messages -> SUBSET Nat] /\ filling' \in [Streams -> Messages \cup {Null}]
      BY <1>8, <2>1 DEF Get, TypeOK, FillOK
  <2> QED
      BY <1>4, <1>8, <2>1, <2>2 DEF Get, TypeOK, FillOK
<1>9. CASE HandleExit
    BY <1>3, <1>4, <1>9 DEF HandleExit, TypeOK, FillOK, QueuesOK, queues
<1> QED
    BY <1>5, <1>6, <1>7, <1>8, <1>9 DEF Handle

\* So do those of the processing threads.
LEMMA ProcessType ==
    ASSUME TypeOK, NEW s \in Streams, Process(s)
    PROVE  TypeOK'
<1>1. FillOK' /\ main' = main /\ main \notin {"exited", "aborted"}
    BY DEF Process, ProcessExit, PopWait, Send, Free, Moves, Alive, fillVars, TypeOK, FillOK
<1>2. ASSUME SendOK', QueuesOK', main \notin Unready PROVE TypeOK'
    BY <1>1, <1>2
    DEF Process, ProcessExit, PopWait, Send, Free, Moves, fillVars, TypeOK, MainOK, Ready
<1>3. CASE ProcessExit(s)
    BY <1>3 DEF ProcessExit, Moves, fillVars, queues, TypeOK, FillOK, SendOK, QueuesOK, MainOK
<1>4. CASE PopWait(s)
  <2>1. main \notin Unready
      BY <1>4 DEF PopWait, TypeOK, MainOK
  <2>2. /\ Tail(stuffed[s]) \in Seq(Messages) /\ Head(stuffed[s]) \in Messages
        /\ Len(Tail(stuffed[s])) <= QueueBound
      BY <1>4, HeadTailProperties, MessagesAssumption DEF PopWait, TypeOK, QueuesOK
  <2>3. SendOK'
      BY <1>4, <2>2, MessagesAssumption DEF PopWait, Moves, TypeOK, SendOK
  <2>4. QueuesOK'
      BY <1>4, <2>2 DEF PopWait, TypeOK, QueuesOK
  <2> QED
      BY <1>2, <2>1, <2>3, <2>4
<1>5. CASE Send(s)
  <2>1. item[s] \in Messages
      BY <1>5 DEF Send, Moves, TypeOK, SendOK
  <2>2. main \notin Unready
      BY <1>5, <2>1, MessagesAssumption DEF TypeOK, MainOK
  <2>3. SendOK'
      BY <1>5, <2>1 DEF Send, Moves, TypeOK, SendOK, FillOK
  <2>4. QueuesOK'
      BY <1>5 DEF Send, queues, TypeOK, QueuesOK
  <2> QED
      BY <1>2, <2>2, <2>3, <2>4
<1>6. CASE Free(s)
  <2>1. item[s] \in Messages
      BY <1>6 DEF Free, Moves, TypeOK, SendOK
  <2>2. main \notin Unready
      BY <1>6, <2>1, MessagesAssumption DEF TypeOK, MainOK
  <2>3. SendOK'
      BY <1>6 DEF Free, Moves, TypeOK, SendOK
  <2>4. QueuesOK'
    <3>1. CASE Len(spare[s]) < QueueBound
      <4>1. /\ Append(spare[s], item[s]) \in Seq(Messages)
            /\ Len(Append(spare[s], item[s])) <= QueueBound
          BY <2>1, <3>1, AppendProperties, MessagesAssumption DEF TypeOK, QueuesOK
      <4> QED
          BY <1>6, <3>1, <4>1 DEF Free, TypeOK, QueuesOK
    <3>2. CASE ~(Len(spare[s]) < QueueBound)
        BY <1>6, <3>2 DEF Free, TypeOK, QueuesOK
    <3> QED
        BY <3>1, <3>2
  <2> QED
      BY <1>2, <2>2, <2>3, <2>4
<1> QED
    BY <1>3, <1>4, <1>5, <1>6 DEF Process

\* Every step keeps the types.
LEMMA TypeStep ==
    ASSUME TypeOK, [Next]_vars
    PROVE  TypeOK'
<1>1. CASE UNCHANGED vars
    BY <1>1
    DEF vars, exitVars, fillVars, sendVars, queues, TypeOK, FillOK, SendOK, QueuesOK, MainOK
<1> QED
    BY <1>1, MainType, HandleType, ProcessType DEF Next, Ended

-----------------------------------------------------------------------------
(* Messages are exclusive.                                                 *)

\* A message goes from one place of a stream to another, or is dropped.
LEMMA MoveApart ==
    ASSUME Apart, NEW u \in Streams, NEW a \in Places, NEW b \in Places, NEW m,
           a # b, m \in Owned(u, a),
           Owned(u, a)' \subseteq Owned(u, a) \ {m},
           Owned(u, b)' \subseteq Owned(u, b) \cup {m},
           \A s \in Streams : \A p \in Places :
              s # u \/ p \notin {a, b} => Owned(s, p)' \subseteq Owned(s, p)
    PROVE  Apart'
<1> SUFFICES ASSUME NEW s \in Streams, NEW t \in Streams, NEW p \in Places, NEW q \in Places,
                    s # t \/ p # q, NEW x, x \in Owned(s, p)', x \in Owned(t, q)'
             PROVE  FALSE
    BY Zenon DEF Apart
<1>1. ASSUME NEW r \in Streams, NEW l \in Places, x \in Owned(r, l)'
      PROVE  \/ x \in Owned(r, l) /\ (x = m => r = u /\ l = b)
             \/ x = m /\ r = u /\ l = b
  <2>1. CASE r = u /\ l = a
      BY <1>1, <2>1
  <2>2. CASE r = u /\ l = b
      BY <1>1, <2>2
  <2>3. CASE r # u \/ l \notin {a, b}
    <3>1. x \in Owned(r, l)
        BY <1>1, <2>3
    <3>2. x # m
        BY <2>3, <3>1 DEF Apart
    <3> QED
        BY <3>1, <3>2
  <2> QED
      BY <2>1, <2>2, <2>3
<1> QED
    BY <1>1 DEF Apart

\* A message nobody points to is taken in one place.
LEMMA NewApart ==
    ASSUME Apart, NEW u \in Streams, NEW b \in Places, NEW m,
           \A s \in Streams : \A p \in Places : m \notin Owned(s, p),
           Owned(u, b)' \subseteq Owned(u, b) \cup {m},
           \A s \in Streams : \A p \in Places :
              s # u \/ p # b => Owned(s, p)' \subseteq Owned(s, p)
    PROVE  Apart'
<1> SUFFICES ASSUME NEW s \in Streams, NEW t \in Streams, NEW p \in Places, NEW q \in Places,
                    s # t \/ p # q, NEW x, x \in Owned(s, p)', x \in Owned(t, q)'
             PROVE  FALSE
    BY Zenon DEF Apart
<1>1. ASSUME NEW r \in Streams, NEW l \in Places, x \in Owned(r, l)'
      PROVE  x \in Owned(r, l) \/ (x = m /\ r = u /\ l = b)
    BY <1>1
<1> QED
    BY <1>1 DEF Apart

\* Places that only lose messages stay apart.
LEMMA SameApart ==
    ASSUME Apart, \A s \in Streams : \A p \in Places : Owned(s, p)' \subseteq Owned(s, p)
    PROVE  Apart'
    BY DEF Apart

\* Whatever is not handed over keeps its places.
LEMMA SamePlaces ==
    ASSUME UNCHANGED <<item, queues>>, NEW s \in Streams, NEW p \in Places,
           HandedOver(s)' <=> HandedOver(s), filling'[s] = filling[s]
    PROVE  Owned(s, p)' = Owned(s, p)
    BY DEF Owned, HandedOver, queues

\* The places one by one.
LEMMA OwnedFilling ==
    ASSUME NEW s \in Streams
    PROVE  Owned(s, "filling") = (IF HandedOver(s) THEN {} ELSE {filling[s]}) \ {Null}
    BY DEF Owned, HandedOver

\* init() hands out different messages; nothing else in main() moves one.
LEMMA MainExclusive ==
    ASSUME TypeOK, ExclusiveMessages, Main
    PROVE  ExclusiveMessages'
<1>1. NoneTwice'
  <2>1. UNCHANGED queues
      BY DEF Main, InitThreads, InitDriver, InitFails, Register, Start, Stop, StopProcess,
             StopDone, Destroy
  <2> QED
      BY <2>1 DEF ExclusiveMessages, NoneTwice, queues
<1>2. CASE InitDriver
  <2>1. main = "driver" /\ filling' \in [Streams -> Messages] /\ IsInjective(filling')
      BY <1>2, FillingExists DEF InitDriver, Goes
  <2>2. /\ hpc' = "off" /\ \A s \in Streams : /\ stuffed'[s] = <<>> /\ spare'[s] = <<>>
                                            /\ item'[s] = Null
      BY <1>2, <2>1 DEF InitDriver, TypeOK, MainOK, Unready, sendVars, queues
  <2>3. ASSUME NEW s \in Streams, NEW p \in Places
        PROVE  Owned(s, p)' = IF p = "filling" THEN {filling'[s]} ELSE {}
    <3>1. ToSet(<<>>) = {}
        BY DEF ToSet
    <3> QED
        BY <2>1, <2>2, <3>1, MessagesAssumption DEF Owned, Places
  <2>4. \A s, t \in Streams : s # t => filling'[s] # filling'[t]
      BY <2>1 DEF IsInjective
  <2>5. Apart'
      BY <2>3, <2>4 DEF Apart
  <2> QED
      BY <1>1, <2>5 DEF ExclusiveMessages
<1>3. CASE ~InitDriver
  <2>1. /\ UNCHANGED <<filling, item, queues, splitting>>
        /\ hpc' = hpc \/ (hpc = "off" /\ hpc' = "run")
    <3>1. CASE Start
        BY <3>1 DEF Start, Goes, sendVars, TypeOK, MainOK, Ready, Unready, FillOK
    <3>2. CASE ~Start
        BY <1>3, <3>2
        DEF Main, InitThreads, InitFails, Register, Stop, StopProcess, StopDone, Destroy,
            fillVars, sendVars
    <3> QED
        BY <3>1, <3>2
  <2>2. Apart'
    <3>1. \A s \in Streams : HandedOver(s)' <=> HandedOver(s)
        BY <2>1 DEF HandedOver
    <3> QED
        BY <2>1, <3>1, SamePlaces, SameApart DEF ExclusiveMessages
  <2> QED
      BY <1>1, <2>2 DEF ExclusiveMessages
<1> QED
    BY <1>2, <1>3

\* The message handed over leaves the decoder for the queue, or is lost.
LEMMA PutExclusive ==
    ASSUME TypeOK, ExclusiveMessages, Put
    PROVE  ExclusiveMessages'
<1> SUFFICES ASSUME NEW u, u = splitting, NEW m, m = filling[u]
             PROVE  ExclusiveMessages'
    OBVIOUS
<1>1. /\ u \in Streams /\ filling' = filling /\ item' = item /\ spare' = spare
      /\ hpc = "put" /\ hpc' = "get" /\ splitting' = u
      /\ m \in Messages /\ stuffed[u] \in Seq(Messages)
    BY DEF Put, ByHandle, sendVars, TypeOK, FillOK, MainOK, QueuesOK
<1>2. Owned(u, "filling") = {m} /\ Owned(u, "filling")' = {}
    BY <1>1, MessagesAssumption DEF Owned
<1>3. CASE Len(stuffed[u]) < QueueBound
  <2>1. stuffed' = [stuffed EXCEPT ![u] = Append(@, m)]
      BY <1>3 DEF Put
  <2>2. m \notin ToSet(stuffed[u])
    <3>1. Owned(u, "filling") \cap Owned(u, "stuffed") = {}
        BY <1>1 DEF ExclusiveMessages, Apart, Places
    <3> QED
        BY <1>1, <1>2, <3>1, MessagesAssumption DEF Owned
  <2>3. /\ IsInjective(stuffed'[u]) /\ ToSet(stuffed'[u]) = ToSet(stuffed[u]) \cup {m}
        /\ \A s \in Streams \ {u} : stuffed'[s] = stuffed[s]
      BY <1>1, <2>1, <2>2, AppendOnce DEF TypeOK, QueuesOK, ExclusiveMessages, NoneTwice
  <2>4. NoneTwice'
      BY <1>1, <2>3 DEF ExclusiveMessages, NoneTwice
  <2>5. Owned(u, "stuffed")' \subseteq Owned(u, "stuffed") \cup {m}
    <3>1. Owned(u, "stuffed") = ToSet(stuffed[u]) \ {Null}
        BY DEF Owned
    <3>2. Owned(u, "stuffed")' = ToSet(stuffed'[u]) \ {Null}
        BY DEF Owned
    <3> QED
        BY <2>3, <3>1, <3>2
  <2>6. ASSUME NEW s \in Streams, NEW p \in Places, s # u \/ p \notin {"filling", "stuffed"}
        PROVE  Owned(s, p)' \subseteq Owned(s, p)
      BY <1>1, <2>3, <2>6 DEF Owned, Places
  <2>7. Apart'
    <3>1. "filling" \in Places /\ "stuffed" \in Places /\ Apart
        BY DEF Places, ExclusiveMessages
    <3> QED
        BY <1>1, <1>2, <2>5, <2>6, <3>1, MoveApart
  <2> QED
      BY <2>4, <2>7 DEF ExclusiveMessages
<1>4. CASE ~(Len(stuffed[u]) < QueueBound)
  <2>1. stuffed' = stuffed
      BY <1>4 DEF Put
  <2>2. ASSUME NEW s \in Streams, NEW p \in Places PROVE Owned(s, p)' \subseteq Owned(s, p)
      BY <1>1, <2>1 DEF Owned, Places
  <2> QED
      BY <1>1, <2>1, <2>2, SameApart DEF ExclusiveMessages, NoneTwice
<1> QED
    BY <1>3, <1>4

\* The decoder takes one from the free ones, or a new one.
LEMMA GetExclusive ==
    ASSUME TypeOK, ExclusiveMessages, Get
    PROVE  ExclusiveMessages'
<1> SUFFICES ASSUME NEW u, u = splitting, NEW m, m = filling'[u]
             PROVE  ExclusiveMessages'
    OBVIOUS
<1>1. /\ u \in Streams /\ item' = item /\ stuffed' = stuffed
      /\ hpc = "get" /\ hpc' = "run" /\ splitting' = u
      /\ \A s \in Streams \ {u} : filling'[s] = filling[s]
    BY DEF Get, ByHandle, sendVars, TypeOK, FillOK
<1>2. Owned(u, "filling") = {} /\ Owned(u, "filling")' \subseteq {m}
    BY <1>1 DEF Owned
<1>3. CASE spare[u] # <<>>
  <2>1. /\ m = Head(spare[u]) /\ spare' = [spare EXCEPT ![u] = Tail(@)]
        /\ spare[u] \in Seq(Messages) /\ IsInjective(spare[u])
      BY <1>1, <1>3 DEF Get, TypeOK, FillOK, QueuesOK, ExclusiveMessages, NoneTwice
  <2>2. /\ IsInjective(spare'[u]) /\ ToSet(spare'[u]) = ToSet(spare[u]) \ {m}
        /\ m \in ToSet(spare[u]) /\ m \in Messages
        /\ \A s \in Streams \ {u} : spare'[s] = spare[s]
      BY <1>1, <1>3, <2>1, TailOnce DEF TypeOK, QueuesOK
  <2>3. NoneTwice'
      BY <1>1, <2>2 DEF ExclusiveMessages, NoneTwice
  <2>4. m \in Owned(u, "spare") /\ Owned(u, "spare")' \subseteq Owned(u, "spare") \ {m}
      BY <2>2, MessagesAssumption DEF Owned
  <2>5. ASSUME NEW s \in Streams, NEW p \in Places, s # u \/ p \notin {"spare", "filling"}
        PROVE  Owned(s, p)' \subseteq Owned(s, p)
      BY <1>1, <2>2, <2>5 DEF Owned, Places
  <2>6. Apart'
    <3>1. "filling" \in Places /\ "spare" \in Places /\ Apart
        BY DEF Places, ExclusiveMessages
    <3> QED
        BY <1>1, <1>2, <2>4, <2>5, <3>1, MoveApart
  <2> QED
      BY <2>3, <2>6 DEF ExclusiveMessages
<1>4. CASE spare[u] = <<>>
  <2>1. m = Fresh /\ spare' = spare
      BY <1>1, <1>4 DEF Get, TypeOK, FillOK
  <2>2. \A s \in Streams : \A p \in Places : m \notin Owned(s, p)
      BY <2>1, FreshIsNew DEF Owned, Places, Live
  <2>3. ASSUME NEW s \in Streams, NEW p \in Places, s # u \/ p # "filling"
        PROVE  Owned(s, p)' \subseteq Owned(s, p)
      BY <1>1, <2>1, <2>3 DEF Owned, Places
  <2>4. Apart'
    <3>1. "filling" \in Places /\ Apart
        BY DEF Places, ExclusiveMessages
    <3> QED
        BY <1>1, <1>2, <2>2, <2>3, <3>1, NewApart
  <2> QED
      BY <1>1, <2>1, <2>4 DEF ExclusiveMessages, NoneTwice
<1> QED
    BY <1>3, <1>4

\* A processing thread takes the oldest message of its queue.
LEMMA PopExclusive ==
    ASSUME TypeOK, ExclusiveMessages, NEW u \in Streams, PopWait(u)
    PROVE  ExclusiveMessages'
<1> DEFINE m == Head(stuffed[u])
<1>1. /\ UNCHANGED <<filling, hpc, splitting, spare>> /\ item[u] = Null
      /\ stuffed' = [stuffed EXCEPT ![u] = Tail(@)] /\ item' = [item EXCEPT ![u] = m]
      /\ stuffed[u] \in Seq(Messages) /\ IsInjective(stuffed[u]) /\ stuffed[u] # <<>>
    BY DEF PopWait, Moves, fillVars, TypeOK, SendOK, QueuesOK, ExclusiveMessages, NoneTwice
<1>2. /\ IsInjective(stuffed'[u]) /\ ToSet(stuffed'[u]) = ToSet(stuffed[u]) \ {m}
      /\ m \in ToSet(stuffed[u]) /\ m \in Messages
      /\ \A s \in Streams \ {u} : stuffed'[s] = stuffed[s] /\ item'[s] = item[s]
      /\ item'[u] = m
    BY <1>1, TailOnce DEF TypeOK, QueuesOK, SendOK
<1>3. NoneTwice'
    BY <1>1, <1>2 DEF ExclusiveMessages, NoneTwice
<1>4. m \in Owned(u, "stuffed") /\ Owned(u, "stuffed")' \subseteq Owned(u, "stuffed") \ {m}
    BY <1>2, MessagesAssumption DEF Owned
<1>5. Owned(u, "sending")' \subseteq Owned(u, "sending") \cup {m}
    BY <1>2 DEF Owned
<1>6. ASSUME NEW s \in Streams, NEW p \in Places, s # u \/ p \notin {"stuffed", "sending"}
      PROVE  Owned(s, p)' \subseteq Owned(s, p)
    BY <1>1, <1>2, <1>6 DEF Owned, Places
<1>7. Apart'
  <2>1. "stuffed" \in Places /\ "sending" \in Places /\ Apart
      BY DEF Places, ExclusiveMessages
  <2> HIDE DEF m
  <2> QED
      BY <1>4, <1>5, <1>6, <2>1, MoveApart
<1> QED
    BY <1>3, <1>7 DEF ExclusiveMessages

\* And returns it, or releases it.
LEMMA FreeExclusive ==
    ASSUME TypeOK, ExclusiveMessages, NEW u \in Streams, Free(u)
    PROVE  ExclusiveMessages'
<1> DEFINE m == item[u]
<1>1. /\ UNCHANGED <<filling, hpc, splitting, stuffed>> /\ m \in Messages
      /\ item' = [item EXCEPT ![u] = Null] /\ spare[u] \in Seq(Messages) /\ IsInjective(spare[u])
    BY DEF Free, Moves, fillVars, TypeOK, SendOK, QueuesOK, ExclusiveMessages, NoneTwice
<1>2. item'[u] = Null /\ \A s \in Streams \ {u} : item'[s] = item[s]
    BY <1>1 DEF TypeOK, SendOK
<1>3. CASE Len(spare[u]) < QueueBound
  <2>1. spare' = [spare EXCEPT ![u] = Append(@, m)]
      BY <1>3 DEF Free
  <2>2. m \notin ToSet(spare[u])
    <3>1. Owned(u, "sending") \cap Owned(u, "spare") = {}
        BY DEF ExclusiveMessages, Apart, Places
    <3> QED
        BY <1>1, <3>1, MessagesAssumption DEF Owned
  <2>3. /\ IsInjective(spare'[u]) /\ ToSet(spare'[u]) = ToSet(spare[u]) \cup {m}
        /\ \A s \in Streams \ {u} : spare'[s] = spare[s]
      BY <1>1, <2>1, <2>2, AppendOnce DEF TypeOK, QueuesOK
  <2>4. NoneTwice'
      BY <1>1, <2>3 DEF ExclusiveMessages, NoneTwice
  <2>5. m \in Owned(u, "sending") /\ Owned(u, "sending")' \subseteq Owned(u, "sending") \ {m}
      BY <1>1, <1>2, MessagesAssumption DEF Owned
  <2>6. Owned(u, "spare")' \subseteq Owned(u, "spare") \cup {m}
      BY <2>3 DEF Owned
  <2>7. ASSUME NEW s \in Streams, NEW p \in Places, s # u \/ p \notin {"sending", "spare"}
        PROVE  Owned(s, p)' \subseteq Owned(s, p)
      BY <1>1, <1>2, <2>3, <2>7 DEF Owned, Places
  <2>8. Apart'
    <3>1. "sending" \in Places /\ "spare" \in Places /\ Apart
        BY DEF Places, ExclusiveMessages
    <3> HIDE DEF m
    <3> QED
        BY <2>5, <2>6, <2>7, <3>1, MoveApart
  <2> QED
      BY <2>4, <2>8 DEF ExclusiveMessages
<1>4. CASE ~(Len(spare[u]) < QueueBound)
  <2>1. spare' = spare
      BY <1>4 DEF Free, TypeOK, QueuesOK
  <2>2. ASSUME NEW s \in Streams, NEW p \in Places PROVE Owned(s, p)' \subseteq Owned(s, p)
      BY <1>1, <1>2, <2>1 DEF Owned, Places
  <2> QED
      BY <1>1, <2>1, <2>2, SameApart DEF ExclusiveMessages, NoneTwice
<1> QED
    BY <1>3, <1>4

\* Every step keeps the messages apart.
LEMMA ExclusiveStep ==
    ASSUME TypeOK, ExclusiveMessages, [Next]_vars
    PROVE  ExclusiveMessages'
<1>1. ASSUME UNCHANGED <<filling, item, queues>>,
             \A s \in Streams : HandedOver(s)' <=> HandedOver(s)
      PROVE  ExclusiveMessages'
    BY <1>1, SamePlaces, SameApart DEF ExclusiveMessages, NoneTwice, queues
<1>2. ASSUME NEW s \in Streams, Decode(s) \/ Split(s) PROVE ExclusiveMessages'
    BY <1>1, <1>2 DEF Decode, Split, ByHandle, sendVars, HandedOver
<1>3. CASE HandleExit
    BY <1>1, <1>3 DEF HandleExit, ByHandle, sendVars, HandedOver
<1>4. ASSUME NEW s \in Streams, ProcessExit(s) \/ Send(s) PROVE ExclusiveMessages'
    BY <1>1, <1>4 DEF ProcessExit, Send, Moves, fillVars, HandedOver
<1>5. CASE UNCHANGED vars
    BY <1>1, <1>5 DEF vars, fillVars, sendVars, HandedOver
<1> QED
    BY <1>2, <1>3, <1>4, <1>5, MainExclusive, PutExclusive, GetExclusive, PopExclusive,
       FreeExclusive
    DEF Next, Handle, Process, Ended

-----------------------------------------------------------------------------
(* Messages hold whole frames.                                             *)

\* Nobody else points to the message that is filled.
LEMMA FillingAlone ==
    ASSUME TypeOK, ExclusiveMessages, NEW s \in Streams, ~HandedOver(s), filling[s] \in Messages,
           NEW t \in Streams
    PROVE  /\ item[t] # filling[s]
           /\ \A i \in 1 .. Len(stuffed[t]) : stuffed[t][i] # filling[s]
           /\ t # s /\ ~HandedOver(t) => filling[t] # filling[s]
<1>1. Owned(s, "filling") = {filling[s]}
    BY OwnedFilling, MessagesAssumption
<1>2. \A p \in Places : s # t \/ p # "filling" => filling[s] \notin Owned(t, p)
    BY <1>1 DEF ExclusiveMessages, Apart, Places
<1>3. item[t] # filling[s]
    BY <1>2, MessagesAssumption DEF Owned, Places
<1>4. \A i \in 1 .. Len(stuffed[t]) : stuffed[t][i] # filling[s]
  <2>1. filling[s] \notin ToSet(stuffed[t])
      BY <1>2, MessagesAssumption DEF Owned, Places
  <2>2. stuffed[t] \in Seq(Messages)
      BY DEF TypeOK, QueuesOK
  <2> QED
      BY <2>1, <2>2 DEF ToSet
<1>5. ASSUME t # s, ~HandedOver(t) PROVE filling[t] # filling[s]
  <2>1. filling[s] \notin {filling[t]} \ {Null}
      BY <1>2, <1>5, OwnedFilling DEF Places
  <2> QED
      BY <2>1, MessagesAssumption
<1> QED
    BY <1>3, <1>4, <1>5

\* The members of a queue.
LEMMA InQueue ==
    ASSUME TypeOK, NEW s \in Streams, NEW i \in 1 .. Len(stuffed[s])
    PROVE  stuffed[s][i] \in Messages /\ stuffed[s][i] \in ToSet(stuffed[s])
<1>1. stuffed[s] \in Seq(Messages)
    BY DEF TypeOK, QueuesOK
<1> QED
    BY <1>1 DEF ToSet

\* Writing to the message that is filled changes no other.
LEMMA WriteFilling ==
    ASSUME TypeOK, ExclusiveMessages, NEW u \in Streams, filling[u] \in Messages,
           \A r \in Streams : ~HandedOver(r),
           UNCHANGED <<filling, item, stuffed>>,
           \A n \in Messages \ {filling[u]} : data'[n] = data[n] /\ seq'[n] = seq[n],
           NEW s \in Streams
    PROVE  /\ QueuedWhole(s) => QueuedWhole(s)'
           /\ SentWhole(s) => SentWhole(s)'
           /\ s # u /\ filling[s] # Null =>
                data'[filling[s]] = data[filling[s]] /\ seq'[filling[s]] = seq[filling[s]]
           /\ ppc[s] = "send" => seq'[item[s]] = seq[item[s]]
           /\ \A i \in 1 .. Len(stuffed[s]) : seq'[stuffed[s][i]] = seq[stuffed[s][i]]
<1>1. /\ item[s] # filling[u]
      /\ \A i \in 1 .. Len(stuffed[s]) : stuffed[s][i] # filling[u]
      /\ s # u => filling[s] # filling[u]
    BY FillingAlone
<1>2. item[s] \in Messages \cup {Null} /\ filling[s] \in Messages \cup {Null}
      /\ (ppc[s] = "send" => item[s] # Null)
    BY DEF TypeOK, SendOK, FillOK
<1>3. \A i \in 1 .. Len(stuffed[s]) : /\ data'[stuffed[s][i]] = data[stuffed[s][i]]
                                      /\ seq'[stuffed[s][i]] = seq[stuffed[s][i]]
    BY <1>1, InQueue
<1>4. item[s] # Null => data'[item[s]] = data[item[s]] /\ seq'[item[s]] = seq[item[s]]
    BY <1>1, <1>2
<1>5. QueuedWhole(s) => QueuedWhole(s)'
    BY <1>3 DEF QueuedWhole
<1>6. SentWhole(s) => SentWhole(s)'
    BY <1>4 DEF SentWhole
<1> QED
    BY <1>1, <1>2, <1>3, <1>4, <1>5, <1>6

\* No step that moves no message and writes to none.
LEMMA SameData ==
    ASSUME DataInv, UNCHANGED <<filling, item, stuffed, data, seq, frames>>,
           \A s \in Streams : (Handing(s)' <=> Handing(s)) /\ (HandedOver(s)' <=> HandedOver(s))
    PROVE  DataInv'
    BY DEF DataInv, QueuedWhole, SentWhole, FillingRight

\* stop() clears the cloud that is filled, and no other.
LEMMA MainData ==
    ASSUME TypeOK, ExclusiveMessages, DataInv, Main
    PROVE  DataInv'
<1>1. CASE InitDriver
  <2>1. main = "driver" /\ filling' \in [Streams -> Messages]
      BY <1>1, FillingExists DEF InitDriver, Goes
  <2>2. /\ hpc' = "off" /\ data' = [m \in Messages |-> {}] /\ item' = item /\ stuffed' = stuffed
        /\ \A s \in Streams : stuffed[s] = <<>> /\ item[s] = Null
      BY <1>1, <2>1 DEF InitDriver, TypeOK, MainOK, Unready, sendVars, queues
  <2> QED
      BY <2>1, <2>2 DEF DataInv, QueuedWhole, SentWhole, FillingRight, Handing
<1>2. CASE StopProcess
  <2>1. /\ UNCHANGED <<filling, item, stuffed, seq, frames>> /\ hpc = "off" /\ hpc' = "off"
        /\ data' = [data EXCEPT ![filling["cloud"]] = {}]
        /\ main \in Ready
      BY <1>2 DEF StopProcess, Goes, sendVars, queues, Ready
  <2>2. "cloud" \in Streams /\ filling["cloud"] \in Messages /\ data \in [Messages -> SUBSET Nat]
      BY <2>1, StreamsAssumption DEF TypeOK, MainOK, FillOK
  <2>3. /\ data'[filling["cloud"]] = {} /\ \A r \in Streams : ~HandedOver(r)
        /\ \A n \in Messages \ {filling["cloud"]} : data'[n] = data[n] /\ seq'[n] = seq[n]
      BY <2>1, <2>2 DEF HandedOver
  <2> SUFFICES ASSUME NEW s \in Streams
               PROVE  QueuedWhole(s)' /\ SentWhole(s)' /\ FillingRight(s)'
      BY DEF DataInv
  <2>4. /\ QueuedWhole(s)' /\ SentWhole(s)'
        /\ s # "cloud" /\ filling[s] # Null => data'[filling[s]] = data[filling[s]]
      BY <2>1, <2>2, <2>3, WriteFilling DEF DataInv
  <2>5. FillingRight(s)'
      BY <2>1, <2>3, <2>4 DEF DataInv, FillingRight, Handing, HandedOver
  <2> QED
      BY <2>4, <2>5
<1>3. CASE Start
  <2>1. UNCHANGED <<filling, item, stuffed, data, seq, frames>> /\ hpc = "off" /\ hpc' = "run"
      BY <1>3 DEF Start, Goes, sendVars, queues, TypeOK, MainOK, Ready, Unready
  <2> QED
      BY <2>1, SameData DEF Handing, HandedOver
<1>4. CASE ~InitDriver /\ ~StopProcess /\ ~Start
  <2>1. UNCHANGED <<filling, item, stuffed, data, seq, frames, hpc, splitting>>
      BY <1>4
      DEF Main, InitThreads, InitFails, Register, Stop, StopDone, Destroy, fillVars, sendVars,
          queues
  <2> QED
      BY <2>1, SameData DEF Handing, HandedOver
<1> QED
    BY <1>1, <1>2, <1>3, <1>4

\* A packet adds to the message that is filled, for the frame to come.
LEMMA DecodeData ==
    ASSUME TypeOK, ExclusiveMessages, DataInv, NEW u \in Streams, Decode(u)
    PROVE  DataInv'
<1>1. /\ UNCHANGED <<filling, item, stuffed, seq, frames>> /\ hpc = "run" /\ hpc' = "run"
      /\ data' = [data EXCEPT ![filling[u]] = @ \cup {frames[u] + 1}]
    BY DEF Decode, ByHandle, sendVars, queues
<1>2. filling[u] \in Messages /\ data \in [Messages -> SUBSET Nat]
    BY <1>1 DEF TypeOK, MainOK, FillOK
<1>3. /\ data'[filling[u]] = data[filling[u]] \cup {frames[u] + 1}
      /\ \A r \in Streams : ~HandedOver(r) /\ ~Handing(r) /\ ~HandedOver(r)' /\ ~Handing(r)'
      /\ \A n \in Messages \ {filling[u]} : data'[n] = data[n] /\ seq'[n] = seq[n]
    BY <1>1, <1>2 DEF Handing, HandedOver
<1> SUFFICES ASSUME NEW s \in Streams
             PROVE  QueuedWhole(s)' /\ SentWhole(s)' /\ FillingRight(s)'
    BY DEF DataInv
<1>4. /\ QueuedWhole(s)' /\ SentWhole(s)'
      /\ s # u /\ filling[s] # Null => data'[filling[s]] = data[filling[s]]
    BY <1>1, <1>2, <1>3, WriteFilling DEF DataInv
<1>5. filling[s] # Null => data[filling[s]] \subseteq {frames[s] + 1}
    BY <1>3 DEF DataInv, FillingRight
<1>6. FillingRight(s)'
    BY <1>1, <1>2, <1>3, <1>4, <1>5, MessagesAssumption DEF FillingRight
<1> QED
    BY <1>4, <1>6

\* The frame is numbered as what the message holds.
LEMMA SplitData ==
    ASSUME TypeOK, ExclusiveMessages, DataInv, NEW u \in Streams, Split(u)
    PROVE  DataInv'
<1>1. /\ UNCHANGED <<filling, item, stuffed, data>> /\ hpc = "run"
      /\ hpc' = "put" /\ splitting' = u
      /\ seq' = [seq EXCEPT ![filling[u]] = frames[u] + 1]
      /\ frames' = [frames EXCEPT ![u] = @ + 1] /\ data[filling[u]] # {}
    BY DEF Split, ByHandle, sendVars, queues
<1>2. /\ filling[u] \in Messages /\ seq \in [Messages -> Nat] /\ frames \in [Streams -> Nat]
    BY <1>1 DEF TypeOK, MainOK, FillOK
<1>3. /\ seq'[filling[u]] = frames[u] + 1 /\ frames'[u] = frames[u] + 1
      /\ \A r \in Streams \ {u} : frames'[r] = frames[r] /\ ~Handing(r)'
      /\ \A r \in Streams : ~HandedOver(r) /\ ~Handing(r) /\ ~HandedOver(r)'
      /\ \A n \in Messages \ {filling[u]} : data'[n] = data[n] /\ seq'[n] = seq[n]
    BY <1>1, <1>2 DEF Handing, HandedOver
<1> SUFFICES ASSUME NEW s \in Streams
             PROVE  QueuedWhole(s)' /\ SentWhole(s)' /\ FillingRight(s)'
    BY DEF DataInv
<1>4. QueuedWhole(s)' /\ SentWhole(s)'
    BY <1>1, <1>2, <1>3, WriteFilling DEF DataInv
<1>5. filling[s] # Null => data[filling[s]] \subseteq {frames[s] + 1}
    BY <1>3 DEF DataInv, FillingRight
<1>6. CASE s = u
  <2>1. data[filling[u]] = {frames[u] + 1}
      BY <1>1, <1>2, <1>5, <1>6, MessagesAssumption
  <2> QED
      BY <1>1, <1>3, <1>4, <1>6, <2>1 DEF FillingRight, Handing
<1>7. CASE s # u
    BY <1>1, <1>3, <1>4, <1>5, <1>7 DEF FillingRight
<1> QED
    BY <1>4, <1>6, <1>7

\* The message handed over holds its frame.
LEMMA PutData ==
    ASSUME TypeOK, DataInv, Put
    PROVE  DataInv'
<1> SUFFICES ASSUME NEW u, u = splitting, NEW m, m = filling[u] PROVE DataInv'
    OBVIOUS
<1>1. /\ UNCHANGED <<filling, item, data, seq, frames>> /\ hpc = "put" /\ hpc' = "get"
      /\ splitting' = u /\ u \in Streams /\ m \in Messages
      /\ stuffed' = stuffed \/ stuffed' = [stuffed EXCEPT ![u] = Append(@, m)]
      /\ stuffed \in [Streams -> Seq(Messages)]
    BY DEF Put, ByHandle, sendVars, TypeOK, FillOK, MainOK, QueuesOK
<1>2. data[m] = {seq[m]}
    BY <1>1 DEF DataInv, FillingRight, Handing
<1> SUFFICES ASSUME NEW s \in Streams
             PROVE  QueuedWhole(s)' /\ SentWhole(s)' /\ FillingRight(s)'
    BY DEF DataInv
<1>3. SentWhole(s)' /\ FillingRight(s)'
    BY <1>1 DEF DataInv, SentWhole, FillingRight, Handing, HandedOver
<1>4. CASE stuffed'[s] = stuffed[s]
    BY <1>1, <1>3, <1>4 DEF DataInv, QueuedWhole
<1>5. CASE s = u /\ stuffed'[u] = Append(stuffed[u], m)
  <2>1. \A i \in 1 .. Len(stuffed'[u]) :
           (i \in 1 .. Len(stuffed[u]) /\ stuffed'[u][i] = stuffed[u][i]) \/ stuffed'[u][i] = m
      BY <1>1, <1>5, AppendProperties
  <2>2. ASSUME NEW i \in 1 .. Len(stuffed'[u])
        PROVE  data[stuffed'[u][i]] = {seq[stuffed'[u][i]]}
    <3>1. \A j \in 1 .. Len(stuffed[u]) : data[stuffed[u][j]] = {seq[stuffed[u][j]]}
        BY <1>1 DEF DataInv, QueuedWhole
    <3> QED
        BY <1>2, <2>1, <3>1
  <2> QED
      BY <1>1, <1>3, <1>5, <2>2 DEF QueuedWhole
<1> QED
    BY <1>1, <1>4, <1>5

\* The message taken is cleared, and nobody else has it.
LEMMA GetData ==
    ASSUME TypeOK, ExclusiveMessages, DataInv, Get, ExclusiveMessages', TypeOK'
    PROVE  DataInv'
<1> SUFFICES ASSUME NEW u, u = splitting, NEW m, m = filling'[u] PROVE DataInv'
    OBVIOUS
<1>1. /\ UNCHANGED <<item, stuffed, seq, frames>> /\ hpc = "get" /\ hpc' = "run"
      /\ splitting' = u /\ u \in Streams /\ data' = [data EXCEPT ![m] = {}]
      /\ \A s \in Streams \ {u} : filling'[s] = filling[s]
      /\ data \in [Messages -> SUBSET Nat]
    BY DEF Get, ByHandle, sendVars, TypeOK, FillOK
<1>2. m \in Messages /\ m # Null
    BY <1>1, MessagesAssumption DEF TypeOK, MainOK
<1>3. data'[m] = {} /\ \A n \in Messages \ {m} : data'[n] = data[n]
    BY <1>1, <1>2
<1>4. m \in Owned(u, "filling")'
    BY <1>1, <1>2 DEF Owned
<1>5. \A t \in Streams : \A p \in Places : t # u \/ p # "filling" => m \notin Owned(t, p)'
    BY <1>1, <1>4 DEF ExclusiveMessages, Apart, Places
<1> SUFFICES ASSUME NEW s \in Streams
             PROVE  QueuedWhole(s)' /\ SentWhole(s)' /\ FillingRight(s)'
    BY DEF DataInv
<1>6. item[s] # m
    BY <1>1, <1>2, <1>5 DEF Owned, Places
<1>7. QueuedWhole(s)'
  <2>1. m \notin ToSet(stuffed[s])
      BY <1>1, <1>2, <1>5 DEF Owned, Places
  <2> QED
      BY <1>1, <1>3, <2>1, InQueue DEF DataInv, QueuedWhole
<1>8. SentWhole(s)'
    BY <1>1, <1>3, <1>6 DEF DataInv, SentWhole, TypeOK, SendOK
<1>9. FillingRight(s)'
  <2>1. CASE s = u
      BY <1>1, <1>3, <2>1 DEF FillingRight, Handing
  <2>2. CASE s # u
    <3>1. filling[s] # Null => filling[s] \in Messages \ {m}
      <4>1. m \notin {filling[s]} \ {Null}
          BY <1>1, <1>5, <2>2 DEF Owned, Places
      <4> QED
          BY <1>2, <4>1 DEF TypeOK, FillOK
    <3>2. filling[s] # Null => data'[filling[s]] = data[filling[s]]
        BY <1>3, <3>1
    <3>3. ~Handing(s)' /\ ~Handing(s) /\ ~HandedOver(s)
        BY <1>1, <2>2 DEF Handing, HandedOver
    <3> QED
        BY <1>1, <2>2, <3>2, <3>3 DEF DataInv, FillingRight
  <2> QED
      BY <2>1, <2>2
<1> QED
    BY <1>7, <1>8, <1>9

\* The message to send was in the queue.
LEMMA PopData ==
    ASSUME TypeOK, DataInv, NEW u \in Streams, PopWait(u)
    PROVE  DataInv'
<1>1. /\ UNCHANGED <<filling, hpc, splitting, data, seq, frames>>
      /\ stuffed' = [stuffed EXCEPT ![u] = Tail(@)]
      /\ item' = [item EXCEPT ![u] = Head(stuffed[u])]
      /\ stuffed \in [Streams -> Seq(Messages)] /\ stuffed[u] # <<>>
      /\ item \in [Streams -> Messages \cup {Null}]
    BY DEF PopWait, Moves, fillVars, TypeOK, SendOK, QueuesOK
<1>2. /\ item'[u] = stuffed[u][1] /\ 1 \in 1 .. Len(stuffed[u])
      /\ \A i \in 1 .. Len(stuffed'[u]) : i + 1 \in 1 .. Len(stuffed[u])
                                          /\ stuffed'[u][i] = stuffed[u][i + 1]
    BY <1>1, HeadTailProperties
<1> SUFFICES ASSUME NEW s \in Streams
             PROVE  QueuedWhole(s)' /\ SentWhole(s)' /\ FillingRight(s)'
    BY DEF DataInv
<1>3. FillingRight(s)'
    BY <1>1 DEF DataInv, FillingRight, Handing, HandedOver
<1>4. CASE s = u
  <2>1. ASSUME NEW i \in 1 .. Len(stuffed[u])
        PROVE  data[stuffed[u][i]] = {seq[stuffed[u][i]]}
      BY DEF DataInv, QueuedWhole
  <2>2. ASSUME NEW i \in 1 .. Len(stuffed'[u])
        PROVE  data[stuffed'[u][i]] = {seq[stuffed'[u][i]]}
      BY <1>2, <2>1
  <2>3. data[item'[u]] = {seq[item'[u]]}
      BY <1>2, <2>1
  <2> QED
      BY <1>1, <1>3, <1>4, <2>2, <2>3 DEF QueuedWhole, SentWhole
<1>5. CASE s # u
    BY <1>1, <1>3, <1>5 DEF DataInv, QueuedWhole, SentWhole
<1> QED
    BY <1>4, <1>5

\* Returning a message writes to none.
LEMMA FreeData ==
    ASSUME TypeOK, DataInv, NEW u \in Streams, Free(u)
    PROVE  DataInv'
<1>1. /\ UNCHANGED <<filling, hpc, splitting, data, seq, frames, stuffed>>
      /\ item' = [item EXCEPT ![u] = Null]
      /\ item \in [Streams -> Messages \cup {Null}]
    BY DEF Free, Moves, fillVars, TypeOK, SendOK
<1> SUFFICES ASSUME NEW s \in Streams
             PROVE  QueuedWhole(s)' /\ SentWhole(s)' /\ FillingRight(s)'
    BY DEF DataInv
<1>2. QueuedWhole(s)' /\ FillingRight(s)'
    BY <1>1 DEF DataInv, QueuedWhole, FillingRight, Handing, HandedOver
<1>3. SentWhole(s)'
    BY <1>1 DEF DataInv, SentWhole
<1> QED
    BY <1>2, <1>3

\* Every step keeps what the messages hold right.
LEMMA DataStep ==
    ASSUME TypeOK, ExclusiveMessages, DataInv, [Next]_vars
    PROVE  DataInv'
<1>1. CASE Get
    BY <1>1, GetData, TypeStep, ExclusiveStep
<1>2. CASE HandleExit
  <2>1. UNCHANGED <<filling, item, stuffed, data, seq, frames, splitting>>
        /\ hpc = "run" /\ hpc' = "off"
      BY <1>2 DEF HandleExit, ByHandle, sendVars, queues
  <2> QED
      BY <2>1, SameData DEF Handing, HandedOver
<1>3. ASSUME NEW s \in Streams, ProcessExit(s) \/ Send(s) PROVE DataInv'
  <2>1. UNCHANGED <<filling, item, stuffed, data, seq, frames, splitting, hpc>>
      BY <1>3 DEF ProcessExit, Send, Moves, fillVars, queues
  <2> QED
      BY <2>1, SameData DEF Handing, HandedOver
<1>4. CASE UNCHANGED vars
    BY <1>4, SameData DEF vars, fillVars, sendVars, queues, Handing, HandedOver
<1> QED
    BY <1>1, <1>2, <1>3, <1>4, MainData, DecodeData, SplitData, PutData, PopData, FreeData
    DEF Next, Handle, Process, Ended

-----------------------------------------------------------------------------
(* The numbers ascend, without a gap where nothing was lost.               *)

\* A stream whose messages on their way and newest number stay.
LEMMA SameOrder ==
    ASSUME NEW s \in Streams, Ordered(s) /\ (s \in lost \/ Gapless(s)),
           UNCHANGED lost, stuffed'[s] = stuffed[s], published'[s] = published[s],
           Newest(s)' = Newest(s), Sending(s)' = Sending(s),
           ppc'[s] = "send" =>
              ppc[s] = "send" /\ item'[s] = item[s] /\ seq'[item[s]] = seq[item[s]],
           \A i \in 1 .. Len(stuffed[s]) : seq'[stuffed[s][i]] = seq[stuffed[s][i]]
    PROVE  Ordered(s)' /\ (s \in lost \/ Gapless(s))'
<1>1. Ordered(s)'
    BY DEF Ordered
<1>2. Gapless(s) => Gapless(s)'
    BY DEF Gapless
<1> QED
    BY <1>1, <1>2

\* main() numbers nothing and sends nothing.
LEMMA MainOrder ==
    ASSUME TypeOK, OrderInv, Main
    PROVE  OrderInv'
<1>1. UNCHANGED <<stuffed, published, lost, seq, frames, item, splitting>>
    BY DEF Main, InitThreads, InitDriver, InitFails, Register, Start, Stop, StopProcess, StopDone,
           Destroy, fillVars, sendVars, queues
<1>2. (hpc' = "put" <=> hpc = "put") /\ (main \notin Unready => ppc' = ppc)
    BY DEF Main, InitThreads, InitDriver, InitFails, Register, Start, Stop, StopProcess, StopDone,
           Destroy, fillVars, sendVars, Goes, Unready, TypeOK, MainOK, Ready
<1>3. \A s \in Streams : (ppc'[s] = "send") <=> (ppc[s] = "send")
  <2>1. CASE InitThreads
      BY <2>1 DEF InitThreads, Goes, TypeOK, MainOK, SendOK, Unready
  <2>2. CASE ~InitThreads
      BY <2>2
      DEF Main, InitDriver, InitFails, Register, Start, Stop, StopProcess, StopDone, Destroy,
          sendVars
  <2> QED
      BY <2>1, <2>2
<1> SUFFICES ASSUME NEW s \in Streams
             PROVE  Ordered(s)' /\ (s \in lost \/ Gapless(s))'
    BY DEF OrderInv
<1>4. Newest(s)' = Newest(s) /\ Sending(s)' = Sending(s)
    BY <1>1, <1>2, <1>3 DEF Newest, Sending, Handing
<1> QED
    BY <1>1, <1>3, <1>4, SameOrder DEF OrderInv

\* The number given to a frame is not on its way yet.
LEMMA SplitOrder ==
    ASSUME TypeOK, ExclusiveMessages, OrderInv, NEW u \in Streams, Split(u)
    PROVE  OrderInv'
<1>1. /\ UNCHANGED <<stuffed, published, lost, item, filling, ppc, data>> /\ hpc = "run"
      /\ hpc' = "put" /\ splitting' = u
      /\ seq' = [seq EXCEPT ![filling[u]] = frames[u] + 1]
      /\ frames' = [frames EXCEPT ![u] = @ + 1]
      /\ filling[u] \in Messages /\ seq \in [Messages -> Nat] /\ frames \in [Streams -> Nat]
    BY DEF Split, ByHandle, sendVars, queues, TypeOK, MainOK, FillOK
<1>2. /\ \A r \in Streams : ~HandedOver(r)
      /\ \A n \in Messages \ {filling[u]} : data'[n] = data[n] /\ seq'[n] = seq[n]
    BY <1>1 DEF HandedOver
<1> SUFFICES ASSUME NEW s \in Streams
             PROVE  Ordered(s)' /\ (s \in lost \/ Gapless(s))'
    BY DEF OrderInv
<1>3. Newest(s)' = Newest(s)
  <2>1. s = u => frames'[s] = frames[s] + 1
      BY <1>1
  <2>2. s # u => frames'[s] = frames[s]
      BY <1>1
  <2>3. frames[s] \in Nat
      BY <1>1
  <2> QED
      BY <1>1, <2>1, <2>2, <2>3 DEF Newest, Handing
<1>4. /\ ppc[s] = "send" => seq'[item[s]] = seq[item[s]]
      /\ \A i \in 1 .. Len(stuffed[s]) : seq'[stuffed[s][i]] = seq[stuffed[s][i]]
    BY <1>1, <1>2, WriteFilling
<1>5. Sending(s)' = Sending(s)
    BY <1>1, <1>4 DEF Sending
<1> QED
    BY <1>1, <1>3, <1>4, <1>5, SameOrder DEF OrderInv

\* It is queued behind smaller numbers, or lost.
LEMMA PutOrder ==
    ASSUME TypeOK, DataInv, OrderInv, Put
    PROVE  OrderInv'
<1> SUFFICES ASSUME NEW u, u = splitting, NEW m, m = filling[u] PROVE OrderInv'
    OBVIOUS
<1>1. /\ UNCHANGED <<published, item, ppc, seq, frames>> /\ hpc = "put" /\ hpc' = "get"
      /\ splitting' = u /\ u \in Streams /\ m \in Messages
      /\ stuffed \in [Streams -> Seq(Messages)] /\ frames \in [Streams -> Nat]
    BY DEF Put, ByHandle, sendVars, TypeOK, FillOK, MainOK, QueuesOK
<1>2. /\ seq[m] = frames[u] /\ Newest(u) = frames[u] - 1 /\ Newest(u)' = frames[u]
      /\ \A s \in Streams : Sending(s)' = Sending(s)
      /\ \A s \in Streams \ {u} : Newest(s)' = Newest(s)
    BY <1>1 DEF DataInv, FillingRight, Handing, Newest, Sending
<1>3. \A s \in Streams : /\ Sending(s) \in Nat /\ Newest(s) \in Int
                         /\ \A i \in 1 .. Len(stuffed[s]) : seq[stuffed[s][i]] \in Nat
    BY <1>1, InQueue DEF Sending, Newest, TypeOK, SendOK, FillOK
<1> SUFFICES ASSUME NEW s \in Streams
             PROVE  Ordered(s)' /\ (s \in lost \/ Gapless(s))'
    BY DEF OrderInv
<1>4. CASE s # u
  <2>1. stuffed'[s] = stuffed[s] /\ (s \in lost => s \in lost') /\ (s \in lost' => s \in lost)
      BY <1>1, <1>4 DEF Put
  <2>2. Ordered(s)'
      BY <1>1, <1>2, <1>4, <2>1 DEF OrderInv, Ordered
  <2>3. Gapless(s) => Gapless(s)'
      BY <1>1, <1>2, <1>4, <2>1 DEF Gapless
  <2> QED
      BY <2>1, <2>2, <2>3 DEF OrderInv
<1>5. CASE s = u /\ ~(Len(stuffed[u]) < QueueBound)
  <2>1. stuffed' = stuffed /\ s \in lost'
      BY <1>1, <1>5 DEF Put
  <2>2. Ordered(u) /\ Sending(u) <= Newest(u)'
      BY <1>1, <1>2, <1>3 DEF OrderInv, Ordered
  <2>3. \A i \in 1 .. Len(stuffed[u]) : seq[stuffed[u][i]] <= Newest(u)'
      BY <1>1, <1>2, <1>3, <2>2 DEF Ordered
  <2>4. Ordered(u)'
      BY <1>1, <1>2, <2>1, <2>2, <2>3 DEF Ordered
  <2> QED
      BY <1>5, <2>1, <2>4
<1>6. CASE s = u /\ Len(stuffed[u]) < QueueBound
  <2>1. stuffed' = [stuffed EXCEPT ![u] = Append(@, m)] /\ lost' = lost
      BY <1>6, <1>1 DEF Put
  <2> DEFINE q == stuffed[u]
             n == Len(stuffed[u])
  <2>2. /\ n \in Nat /\ Len(stuffed'[u]) = n + 1 /\ stuffed'[u][n + 1] = m
        /\ \A i \in 1 .. n : stuffed'[u][i] = q[i]
      BY <1>1, <2>1, AppendProperties
  <2>3. /\ ppc[u] = "send" => published[u] < seq[item[u]]
        /\ Sending(u) <= Newest(u)
        /\ \A i \in 1 .. n :
              /\ Sending(u) < seq[q[i]] /\ seq[q[i]] <= Newest(u)
              /\ \A j \in 1 .. n : i < j => seq[q[i]] < seq[q[j]]
      BY <1>1 DEF OrderInv, Ordered
  <2>4. \A i \in 1 .. n + 1 : i \in 1 .. n \/ (i = n + 1 /\ stuffed'[u][i] = m)
      BY <2>2
  <2>5. \A i \in 1 .. n : seq[q[i]] <= frames[u] - 1 /\ seq[q[i]] \in Nat
      BY <1>1, <1>2, <1>3, <2>3
  <2>6. Ordered(u)'
    <3> HIDE DEF n
    <3>1. ASSUME NEW i \in 1 .. n + 1
          PROVE  Sending(u) < seq[stuffed'[u][i]] /\ seq[stuffed'[u][i]] <= frames[u]
      <4>1. CASE i \in 1 .. n
        <5>1. stuffed'[u][i] = q[i] /\ Sending(u) < seq[q[i]] /\ seq[q[i]] <= frames[u] - 1
            BY <2>2, <2>3, <2>5, <4>1
        <5>2. seq[q[i]] \in Nat /\ frames[u] \in Nat
            BY <1>1, <2>5, <4>1
        <5> QED
            BY <5>1, <5>2
      <4>2. CASE stuffed'[u][i] = m
          BY <1>1, <1>2, <1>3, <2>3, <4>2
      <4> QED
          BY <2>4, <4>1, <4>2
    <3>2. ASSUME NEW i \in 1 .. n + 1, NEW j \in 1 .. n + 1, i < j
          PROVE  seq[stuffed'[u][i]] < seq[stuffed'[u][j]]
      <4>1. i \in 1 .. n /\ stuffed'[u][i] = q[i]
          BY <2>2, <3>2
      <4>2. CASE j \in 1 .. n
          BY <2>2, <2>3, <3>2, <4>1, <4>2
      <4>3. CASE j = n + 1
          BY <1>1, <1>2, <2>2, <2>5, <4>1, <4>3
      <4> QED
          BY <2>4, <4>2, <4>3
    <3>3. Sending(u)' <= Newest(u)'
        BY <1>1, <1>2, <1>3, <2>3
    <3> QED
        BY <1>1, <1>2, <2>2, <2>3, <3>1, <3>2, <3>3 DEF Ordered
  <2>7. ASSUME Gapless(u) PROVE Gapless(u)'
    <3>1. /\ ppc[u] = "send" => seq[item[u]] = published[u] + 1
          /\ \A i \in 1 .. n : seq[q[i]] = Sending(u) + i
          /\ Newest(u) = Sending(u) + n
        BY <2>7 DEF Gapless
    <3> HIDE DEF n
    <3>2. frames[u] = Sending(u) + (n + 1)
      <4>1. frames[u] \in Nat /\ Sending(u) \in Nat /\ n \in Nat
          BY <1>1, <1>3, <2>2
      <4>2. frames[u] - 1 = Sending(u) + n
          BY <1>2, <3>1
      <4> QED
          BY <4>1, <4>2
    <3>3. \A i \in 1 .. n + 1 : seq[stuffed'[u][i]] = Sending(u) + i
        BY <1>2, <2>2, <2>4, <3>1, <3>2
    <3> QED
        BY <1>1, <1>2, <2>2, <3>1, <3>2, <3>3 DEF Gapless
  <2> QED
      BY <1>6, <2>1, <2>6, <2>7 DEF OrderInv
<1> QED
    BY <1>4, <1>5, <1>6

\* The smallest number queued is sent next.
LEMMA PopOrder ==
    ASSUME TypeOK, OrderInv, NEW u \in Streams, PopWait(u)
    PROVE  OrderInv'
<1>1. /\ UNCHANGED <<published, hpc, splitting, seq, frames, lost>>
      /\ stuffed' = [stuffed EXCEPT ![u] = Tail(@)]
      /\ item' = [item EXCEPT ![u] = Head(stuffed[u])]
      /\ ppc[u] = "poll" /\ ppc' = [ppc EXCEPT ![u] = "send"]
      /\ stuffed \in [Streams -> Seq(Messages)] /\ stuffed[u] # <<>>
      /\ item \in [Streams -> Messages \cup {Null}]
      /\ ppc \in [Streams -> {"off", "poll", "send", "free"}]
      /\ published \in [Streams -> Nat] /\ frames \in [Streams -> Nat]
    BY DEF PopWait, Moves, fillVars, TypeOK, SendOK, QueuesOK, FillOK
<1> DEFINE q == stuffed[u]
           n == Len(stuffed[u])
<1>2. /\ n \in Nat /\ 1 \in 1 .. n /\ Len(stuffed'[u]) = n - 1 /\ item'[u] = q[1]
      /\ ppc'[u] = "send"
      /\ \A i \in 1 .. n - 1 : i + 1 \in 1 .. n /\ stuffed'[u][i] = q[i + 1]
    BY <1>1, HeadTailProperties
<1>3. /\ Sending(u) = published[u] /\ Sending(u)' = seq[q[1]]
      /\ \A s \in Streams : Newest(s)' = Newest(s)
    BY <1>1, <1>2 DEF Sending, Newest, Handing
<1>4. Newest(u) \in Int /\ \A i \in 1 .. n : seq[q[i]] \in Nat
    BY <1>1, InQueue DEF Newest, TypeOK, FillOK
<1> SUFFICES ASSUME NEW s \in Streams
             PROVE  Ordered(s)' /\ (s \in lost \/ Gapless(s))'
    BY DEF OrderInv
<1>5. CASE s # u
  <2>1. stuffed'[s] = stuffed[s] /\ item'[s] = item[s] /\ ppc'[s] = ppc[s]
      BY <1>1, <1>5
  <2>2. Sending(s)' = Sending(s)
      BY <1>1, <2>1 DEF Sending
  <2> QED
      BY <1>1, <1>3, <2>1, <2>2, SameOrder DEF OrderInv
<1>6. CASE s = u
  <2>1. \A i \in 1 .. n :
              /\ published[u] < seq[q[i]] /\ seq[q[i]] <= Newest(u)
              /\ \A j \in 1 .. n : i < j => seq[q[i]] < seq[q[j]]
      BY <1>3 DEF OrderInv, Ordered
  <2>2. Ordered(u)'
    <3> HIDE DEF n
    <3>1. ASSUME NEW i \in 1 .. n - 1
          PROVE  seq[q[1]] < seq[stuffed'[u][i]] /\ seq[stuffed'[u][i]] <= Newest(u)
      <4>1. i + 1 \in 1 .. n /\ stuffed'[u][i] = q[i + 1] /\ 1 < i + 1
          BY <1>2
      <4> QED
          BY <1>2, <2>1, <4>1
    <3>2. ASSUME NEW i \in 1 .. n - 1, NEW j \in 1 .. n - 1, i < j
          PROVE  seq[stuffed'[u][i]] < seq[stuffed'[u][j]]
        BY <1>2, <2>1, <3>2
    <3>3. published[u] < seq[q[1]] /\ seq[q[1]] <= Newest(u)
        BY <1>2, <2>1
    <3> QED
        BY <1>1, <1>2, <1>3, <3>1, <3>2, <3>3 DEF Ordered
  <2>3. ASSUME Gapless(u) PROVE Gapless(u)'
    <3>1. /\ \A i \in 1 .. n : seq[q[i]] = published[u] + i
          /\ Newest(u) = published[u] + n
        BY <1>3, <2>3 DEF Gapless
    <3>2. published[u] \in Nat
        BY <1>1
    <3> HIDE DEF n
    <3>3. seq[q[1]] = published[u] + 1 /\ Newest(u) = seq[q[1]] + (n - 1)
        BY <1>2, <3>1, <3>2
    <3>4. ASSUME NEW i \in 1 .. n - 1 PROVE seq[stuffed'[u][i]] = seq[q[1]] + i
      <4>1. i + 1 \in 1 .. n /\ stuffed'[u][i] = q[i + 1] /\ i \in Int
          BY <1>2
      <4>2. seq[q[i + 1]] = published[u] + (i + 1)
          BY <3>1, <4>1
      <4>3. published[u] + (i + 1) = published[u] + 1 + i
          BY <3>2, <4>1
      <4> QED
          BY <3>3, <4>1, <4>2, <4>3
    <3> QED
        BY <1>1, <1>2, <1>3, <3>3, <3>4 DEF Gapless
  <2> QED
      BY <1>1, <1>6, <2>2, <2>3 DEF OrderInv
<1> QED
    BY <1>5, <1>6

\* Sending a message keeps it the last number on its way out.
LEMMA SendOrder ==
    ASSUME TypeOK, OrderInv, NEW u \in Streams, Send(u)
    PROVE  OrderInv'
<1>1. /\ UNCHANGED <<item, hpc, splitting, seq, frames, lost, stuffed>>
      /\ ppc[u] = "send" /\ ppc' = [ppc EXCEPT ![u] = "free"]
      /\ published' = [published EXCEPT ![u] = seq[item[u]]]
      /\ ppc \in [Streams -> {"off", "poll", "send", "free"}] /\ published \in [Streams -> Nat]
    BY DEF Send, Moves, fillVars, queues, TypeOK, SendOK
<1>2. /\ \A s \in Streams : Sending(s)' = Sending(s) /\ Newest(s)' = Newest(s)
      /\ ppc'[u] = "free"
    BY <1>1 DEF Sending, Newest, Handing
<1> SUFFICES ASSUME NEW s \in Streams
             PROVE  Ordered(s)' /\ (s \in lost \/ Gapless(s))'
    BY DEF OrderInv
<1>3. CASE s # u
    BY <1>1, <1>2, <1>3, SameOrder DEF OrderInv
<1>4. CASE s = u
  <2>1. Ordered(u)'
      BY <1>1, <1>2 DEF OrderInv, Ordered
  <2>2. Gapless(u) => Gapless(u)'
      BY <1>1, <1>2 DEF Gapless
  <2> QED
      BY <1>1, <1>4, <2>1, <2>2 DEF OrderInv
<1> QED
    BY <1>3, <1>4

\* Every step keeps the numbers ascending.
LEMMA OrderStep ==
    ASSUME TypeOK, ExclusiveMessages, DataInv, OrderInv, [Next]_vars
    PROVE  OrderInv'
<1>1. ASSUME UNCHANGED <<stuffed, published, lost, seq, frames, splitting>>,
             hpc' = "put" <=> hpc = "put",
             \A s \in Streams : /\ ppc'[s] = "send" <=> ppc[s] = "send"
                                /\ ppc[s] = "send" => item'[s] = item[s]
      PROVE  OrderInv'
  <2> SUFFICES ASSUME NEW s \in Streams
               PROVE  Ordered(s)' /\ (s \in lost \/ Gapless(s))'
      BY DEF OrderInv
  <2>1. Newest(s)' = Newest(s) /\ Sending(s)' = Sending(s)
      BY <1>1 DEF Newest, Sending, Handing
  <2> QED
      BY <1>1, <2>1, SameOrder DEF OrderInv
<1>2. ASSUME NEW s \in Streams, Decode(s) PROVE OrderInv'
    BY <1>1, <1>2 DEF Decode, ByHandle, sendVars, queues
<1>3. CASE Get
    BY <1>1, <1>3 DEF Get, ByHandle, sendVars
<1>4. CASE HandleExit
    BY <1>1, <1>4 DEF HandleExit, ByHandle, sendVars, queues
<1>5. ASSUME NEW u \in Streams, ProcessExit(u) \/ Free(u) PROVE OrderInv'
  <2>1. /\ UNCHANGED <<stuffed, published, lost, seq, frames, splitting, hpc>>
        /\ \A s \in Streams \ {u} : item'[s] = item[s] /\ ppc'[s] = ppc[s]
        /\ ppc[u] # "send" /\ ppc'[u] # "send"
      BY <1>5 DEF ProcessExit, Free, Moves, fillVars, queues, TypeOK, SendOK
  <2> QED
      BY <1>1, <2>1
<1>6. CASE UNCHANGED vars
    BY <1>1, <1>6 DEF vars, fillVars, sendVars, queues
<1> QED
    BY <1>2, <1>3, <1>4, <1>5, <1>6, MainOrder, SplitOrder, PutOrder, PopOrder, SendOrder
    DEF Next, Handle, Process, Ended

-----------------------------------------------------------------------------
(* The theorems.                                                           *)

\* The invariant holds before init().
LEMMA InitInv == Init => IInv
<1> SUFFICES ASSUME Init PROVE IInv
    OBVIOUS
<1>1. TypeOK
    BY StreamsAssumption, MessagesAssumption
    DEF Init, TypeOK, FillOK, SendOK, QueuesOK, MainOK, Unready, Ready
<1>2. ExclusiveMessages
  <2>1. ToSet(<<>>) = {}
      BY DEF ToSet
  <2>2. \A s \in Streams : \A p \in Places : Owned(s, p) = {}
      BY <2>1 DEF Init, Owned, Places
  <2>3. NoneTwice
      BY DEF Init, NoneTwice, IsInjective
  <2> QED
      BY <2>2, <2>3 DEF ExclusiveMessages, Apart
<1>3. DataInv
    BY DEF Init, DataInv, QueuedWhole, SentWhole, FillingRight, Handing
<1>4. OrderInv
    BY DEF Init, OrderInv, Ordered, Gapless, Sending, Newest, Handing
<1> QED
    BY <1>1, <1>2, <1>3, <1>4 DEF IInv

\* And no step breaks it.
LEMMA StepInv == IInv /\ [Next]_vars => IInv'
    BY TypeStep, ExclusiveStep, DataStep, OrderStep DEF IInv

\* What every theorem below follows from: who holds which message, what is in
\* it, and how the messages on their way to the destinations are numbered.
THEOREM Invariant == Spec => []IInv
    BY InitInv, StepInv, PTL DEF Spec

\* The decoder and the destinations never share a message, a queue holds none
\* twice, and what is sent is one whole frame: getPointCloud, putPointCloud
\* and processPointCloud, and the same for IMU samples.
THEOREM MessagesAreRight == Spec => []MessagesRight
<1>1. IInv => MessagesRight
    BY DEF IInv, MessagesRight, WholeFrames, DataInv, SentWhole, TypeOK, SendOK
<1> QED
    BY <1>1, Invariant, PTL

\* Frames are sent in the order they were split, once, and none is missing
\* unless a queue was full (splitFrame, SyncQueue::push, popWait).
THEOREM FramesAreSentInOrder == Spec => PublishedInOrder
<1>1. ASSUME IInv, [Next]_vars, NEW s \in Streams, published'[s] # published[s]
      PROVE  published'[s] > published[s] /\ (s \in lost \/ published'[s] = published[s] + 1)
  <2>1. Send(s)
    <3>1. ~Main /\ ~Handle /\ ~(UNCHANGED vars) /\ ~Ended
        BY <1>1
        DEF Main, InitThreads, InitDriver, InitFails, Register, Start, Stop, StopProcess,
            StopDone, Destroy, Handle, Decode, Split, Put, Get, HandleExit, ByHandle, Ended, vars,
            sendVars
    <3>2. PICK u \in Streams : Process(u)
        BY <1>1, <3>1 DEF Next
    <3>3. Send(u)
        BY <1>1, <3>2 DEF Process, ProcessExit, PopWait, Free
    <3>4. u = s
        BY <1>1, <3>3 DEF Send, IInv, TypeOK, SendOK
    <3> QED
        BY <3>3, <3>4
  <2>2. ppc[s] = "send" /\ published'[s] = seq[item[s]]
      BY <1>1, <2>1 DEF Send, Moves, IInv, TypeOK, SendOK
  <2> QED
      BY <1>1, <2>2 DEF IInv, OrderInv, Ordered, Gapless
<1>2. IInv /\ [Next]_vars =>
        [\A s \in Streams : published'[s] # published[s] =>
            /\ published'[s] > published[s]
            /\ s \in lost \/ published'[s] = published[s] + 1]_published
    BY <1>1
<1> QED
    BY <1>2, Invariant, PTL DEF Spec, PublishedInOrder
====
