-------------------------- MODULE LivePollerProofs --------------------------
(***************************************************************************)
(* LivePoller for any response of NOAA, any resolution of a time tag and   *)
(* any number of failures and restarts.                                    *)
(***************************************************************************)
EXTENDS LivePoller, SequenceTheorems, FiniteSetTheorems, WellFoundedInduction, TLAPS
-----------------------------------------------------------------------------
(* Whole seconds.                                                          *)

Written == {Serialized(t) : t \in TimeTags}

LEMMA SerializedProperties ==
  /\ \A t \in Int : Serialized(t) \in Int /\ Serialized(t) <= t
  /\ \A t \in Int : Serialized(Serialized(t)) = Serialized(t)
  /\ \A t \in Int : t % Second = 0 => Serialized(t) = t
  /\ \A s, t \in Int : s <= t => Serialized(s) <= Serialized(t)
<1> DEFINE d == Second
<1> d \in Nat \ {0}
  BY PollerAssumption
<1> HIDE DEF d
<1>1. \A t \in Int : t % d \in 0..(d - 1)
  OBVIOUS
<1>2. \A t \in Int : (t - (t % d)) % d = 0
  OBVIOUS
<1>3. \A s, t \in Int : s <= t => s - (s % d) <= t - (t % d)
  OBVIOUS
<1> DEFINE W(t) == t - (t % d)
<1>4. \A t \in Int : W(t) \in Int /\ W(t) <= t /\ (t % d = 0 => W(t) = t)
  BY <1>1
<1>5. \A t \in Int : W(t) % d = 0
  BY <1>2
<1>6. \A s, t \in Int : s <= t => W(s) <= W(t)
  BY <1>3
<1>7. \A t : Serialized(t) = W(t)
  BY DEF Serialized, d
<1> HIDE DEF W
<1> QED
  BY <1>4, <1>5, <1>6, <1>7 DEF d

LEMMA WrittenProperties ==
  /\ TimeTags \subseteq Int /\ Written \subseteq Int
  /\ None \notin Int
  /\ \A t \in Written : Serialized(t) = t
  /\ IsFiniteSet(TimeTags \cup Written)
<1>1. TimeTags \subseteq Int /\ IsFiniteSet(TimeTags) /\ None \notin Int
  BY PollerAssumption
<1>2. Written \subseteq Int /\ \A t \in Written : Serialized(t) = t
  BY <1>1, SerializedProperties DEF Written
<1>3. IsFiniteSet(Written)
  <2> DEFINE f == [t \in TimeTags |-> Serialized(t)]
  <2>1. f \in Surjection(TimeTags, Written)
    BY DEF Surjection, Written
  <2> QED
    BY <1>1, <2>1, FS_Surjection
<1> QED
  BY <1>1, <1>2, <1>3, FS_Union
-----------------------------------------------------------------------------
(* The newest of a set of tags, and the tags in order.                     *)

\* A set of naturals has a least element: this stands for induction below.
LEMMA LeastSize ==
  ASSUME NEW S, S \subseteq Nat, S # {}
  PROVE  \E x \in S : \A y \in S : x <= y
<1>1. \E x \in S : \A y \in S : ~ (<<y, x>> \in OpToRel(<, Nat))
  BY NatLessThanWellFounded, WFMin
<1>2. \A x, y \in S : ~ (<<y, x>> \in OpToRel(<, Nat)) => x <= y
  BY DEF OpToRel
<1> QED
  BY <1>1, <1>2

\* m is the greatest element of S.
GreatestOf(m, S) == m \in S /\ \A x \in S : x <= m

LEMMA GreatestExists ==
  ASSUME NEW S \in SUBSET Int, IsFiniteSet(S), S # {}
  PROVE  \E m : GreatestOf(m, S)
<1> DEFINE Without == {T \in SUBSET Int : IsFiniteSet(T) /\ T # {} /\ ~ \E m : GreatestOf(m, T)}
           Sizes == {Cardinality(T) : T \in Without}
<1> SUFFICES ASSUME Without # {} PROVE FALSE
  OBVIOUS
<1>1. Sizes \subseteq Nat /\ Sizes # {}
  BY FS_CardinalityType
<1>2. PICK T \in Without : \A U \in Without : Cardinality(T) <= Cardinality(U)
  <2>1. \E n \in Sizes : \A k \in Sizes : n <= k
    BY <1>1, LeastSize
  <2> QED
    BY <2>1
<1>3. PICK x \in T : TRUE
  BY <1>2
<1>4. /\ IsFiniteSet(T \ {x}) /\ Cardinality(T) \in Nat
      /\ Cardinality(T \ {x}) = Cardinality(T) - 1
  BY <1>2, <1>3, FS_RemoveElement, FS_CardinalityType
<1>5. T \ {x} \notin Without
  <2>1. T \ {x} \in Without => Cardinality(T) <= Cardinality(T \ {x})
    BY <1>2
  <2> QED
    BY <1>4, <2>1
<1>6. CASE T \ {x} = {}
  <2>1. GreatestOf(x, T)
    BY <1>2, <1>3, <1>6 DEF GreatestOf
  <2> QED
    BY <1>2, <2>1
<1>7. CASE T \ {x} # {}
  <2>1. PICK m : GreatestOf(m, T \ {x})
    BY <1>2, <1>4, <1>5, <1>7
  <2>2. GreatestOf(m, T) \/ GreatestOf(x, T)
    BY <1>2, <1>3, <2>1 DEF GreatestOf
  <2> QED
    BY <1>2, <2>2
<1> QED
  BY <1>6, <1>7

LEMMA MaxIsGreatest ==
  ASSUME NEW S \in SUBSET Int, IsFiniteSet(S), S # {}
  PROVE  Max(S) \in S /\ \A x \in S : x <= Max(S)
<1>1. PICK m : GreatestOf(m, S)
  BY GreatestExists
<1>2. m \in S /\ \A x \in S : m >= x
  BY <1>1 DEF GreatestOf
<1>3. Max(S) \in S /\ \A x \in S : Max(S) >= x
  BY <1>2, Zenon DEF Max
<1> QED
  BY <1>3

\* s lists the elements of S in ascending order.
Increasing(s) == \A i, j \in DOMAIN s : i < j => s[i] < s[j]

LEMMA AscendingExists ==
  ASSUME NEW S \in SUBSET Int, IsFiniteSet(S)
  PROVE  \E s \in [1..Cardinality(S) -> S] : Increasing(s)
<1> DEFINE Listed(T) == \E s \in [1..Cardinality(T) -> T] : Increasing(s)
           Without == {T \in SUBSET Int : IsFiniteSet(T) /\ ~ Listed(T)}
           Sizes == {Cardinality(T) : T \in Without}
<1> SUFFICES ASSUME Without # {} PROVE FALSE
  OBVIOUS
<1>1. Sizes \subseteq Nat /\ Sizes # {}
  BY FS_CardinalityType
<1>2. PICK T \in Without : \A U \in Without : Cardinality(T) <= Cardinality(U)
  <2>1. \E n \in Sizes : \A k \in Sizes : n <= k
    BY <1>1, LeastSize
  <2> QED
    BY <2>1
<1>3. T \in SUBSET Int /\ IsFiniteSet(T) /\ ~ Listed(T)
  BY <1>2
<1>4. CASE T = {}
  <2>1. Cardinality(T) = 0
    BY <1>4, FS_EmptySet
  <2>2. [i \in 1..0 |-> 0] \in [1..Cardinality(T) -> T] /\ Increasing([i \in 1..0 |-> 0])
    BY <2>1 DEF Increasing
  <2> QED
    BY <1>3, <2>2
<1>5. CASE T # {}
  <2>1. PICK m : GreatestOf(m, T)
    BY <1>3, <1>5, GreatestExists
  <2> DEFINE n == Cardinality(T)
             U == T \ {m}
  <2>2. n \in Nat /\ IsFiniteSet(U) /\ Cardinality(U) = n - 1
    BY <1>3, <2>1, FS_RemoveElement, FS_CardinalityType DEF GreatestOf
  <2>3. Listed(U)
    <3>1. U \notin Without
      <4>1. U \in Without => n <= Cardinality(U)
        BY <1>2
      <4> HIDE DEF Without, U, n
      <4> QED
        BY <2>2, <4>1
    <3> QED
      BY <1>3, <2>2, <3>1
  <2>4. PICK s \in [1..(n - 1) -> U] : Increasing(s)
    BY <2>2, <2>3
  <2> DEFINE l == [i \in 1..n |-> IF i = n THEN m ELSE s[i]]
  <2> HIDE DEF n
  <2>5. l \in [1..n -> T]
    BY <2>1, <2>2, <2>4 DEF GreatestOf
  <2>6. \A i \in 1..(n - 1) : s[i] \in T /\ s[i] < m
    <3>1. \A x \in U : x \in T /\ x < m
      BY <1>3, <2>1 DEF GreatestOf
    <3> QED
      BY <2>4, <3>1
  <2>7. Increasing(l)
    BY <2>2, <2>4, <2>6 DEF Increasing
  <2> QED
    BY <1>3, <2>5, <2>7 DEF n
<1> QED
  BY <1>4, <1>5

LEMMA AscendingProperties ==
  ASSUME NEW S \in SUBSET Int, IsFiniteSet(S)
  PROVE  /\ Ascending(S) \in Seq(S)
         /\ \A i, j \in 1..Len(Ascending(S)) :
              i < j => Ascending(S)[i] < Ascending(S)[j]
         /\ \A t \in S : \E i \in 1..Len(Ascending(S)) : Ascending(S)[i] = t
<1> DEFINE n == Cardinality(S)
           a == Ascending(S)
<1>1. n \in Nat
  BY FS_CardinalityType
<1>2. a \in [1..n -> S] /\ \A i, j \in DOMAIN a : i < j => a[i] < a[j]
  <2>1. \E s \in [1..n -> S] : \A i, j \in DOMAIN s : i < j => s[i] < s[j]
    BY AscendingExists DEF Increasing
  <2> QED
    BY <2>1, Zenon DEF Ascending
<1> HIDE DEF n, a
<1>3. a \in Seq(S) /\ Len(a) = n /\ DOMAIN a = 1..n
  BY <1>1, <1>2
<1>4. a \in Injection(1..n, S)
  <2>1. ASSUME NEW i \in 1..n, NEW j \in 1..n, a[i] = a[j]
        PROVE  i = j
    <3>1. a[i] \in Int
      BY <1>2
    <3>2. ~ (a[i] < a[j]) /\ ~ (a[j] < a[i])
      BY <2>1, <3>1
    <3>3. ~ (i < j) /\ ~ (j < i)
      BY <1>2, <1>3, <3>2
    <3> QED
      BY <1>1, <3>3
  <2> QED
    BY <1>2, <2>1 DEF Injection, IsInjective
<1>5. a \in Surjection(1..n, S)
  <2>1. IsFiniteSet(1..n) /\ Cardinality(1..n) = n
    BY <1>1, FS_Interval
  <2> QED
    BY <1>4, <2>1, FS_Injection DEF n
<1>6. \A t \in S : \E i \in 1..n : a[i] = t
  BY <1>5 DEF Surjection
<1> QED
  BY <1>2, <1>3, <1>6 DEF a
-----------------------------------------------------------------------------
(* The inductive invariant.                                                *)

\* What each place in the program says of the process's own variables.
MemorySound ==
  /\ pc = "down" =>
       seen = {} /\ candidates = <<>> /\ startup_baseline = {} /\ queued = <<>>
  /\ pc # "down" => exit_code = None
  /\ pc # "publish" => candidates = <<>> /\ startup_baseline = {}
  /\ pc = "save" => seen # {}

\* A later poll publishes in ascending order, above everything seen; the first
\* one publishes the newest row of the response it keeps as its baseline.
LaterPoll ==
  /\ startup_baseline = {} /\ seen # {}
  /\ \A i, j \in 1..Len(candidates) : i < j => candidates[i] < candidates[j]
  /\ \A x \in seen, i \in 1..Len(candidates) : x < candidates[i]
FirstPoll ==
  \E m \in startup_baseline :
    /\ GreatestOf(m, startup_baseline)
    /\ \/ seen = {} /\ candidates = <<m>>
       \/ seen = {m} /\ candidates = <<>>
CandidatesSound == pc = "publish" => LaterPoll \/ FirstPoll

\* The newest tag seen, the confirmed tags and the checkpoint are on the topic.
OnTopic ==
  /\ seen # {} => \E m \in seen : GreatestOf(m, seen) /\ Serialized(m) \in ToSet(topic)
  /\ \A t \in acked : Serialized(t) \in ToSet(topic)
  /\ CheckpointIsOnTopic

\* The checkpoint is never above what the running process has seen.
CheckpointBelow ==
  /\ checkpoint # None => Serialized(checkpoint) = checkpoint
  /\ pc # "down" /\ checkpoint # None => \E x \in seen : checkpoint <= x

\* A selected tag that is neither confirmed nor given up is above everything seen
\* and above the checkpoint, and the poll that is publishing has it among its
\* candidates; or no process runs, and the next one will give it up.
OfferedSound ==
  \A t \in (offered \ acked) \ abandoned :
     \/ pc = "down" /\ checkpoint = None
     \/ /\ \A x \in seen : x < t
        /\ checkpoint # None => checkpoint < t
        /\ pc # "down" => seen # {}
        /\ pc = "publish" => startup_baseline = {} /\ t \in ToSet(candidates)

\* What the client still has to deliver is newer than everything seen.
NewTags == {t \in TimeTags : \A x \in seen : x < t}
NewWritten == {Serialized(t) : t \in NewTags}
QueuedNewer == queued \in Seq(NewWritten)

\* The newest row of the response is among what the poll has seen or will see.
NewestHandled ==
  /\ pc = "publish" =>
       /\ newest # None
       /\ \E x \in seen \cup ToSet(candidates) \cup startup_baseline : newest <= x
  /\ pc = "save" => newest # None /\ \E x \in seen : newest <= x
  /\ ExitZeroMeansHandled

IInv ==
  /\ TypeOK
  /\ MemorySound
  /\ CandidatesSound
  /\ OnTopic
  /\ CheckpointBelow
  /\ OfferedSound
  /\ QueuedNewer
  /\ NewestHandled

\* The type invariant, in terms of Written.
Types ==
  /\ feed \subseteq TimeTags
  /\ pc \in {"down", "poll", "publish", "save", "sleep"}
  /\ once \in BOOLEAN
  /\ seen \subseteq TimeTags \cup Written
  /\ candidates \in Seq(TimeTags)
  /\ startup_baseline \subseteq TimeTags
  /\ queued \in Seq(Written)
  /\ topic \in Seq(Written)
  /\ checkpoint \in {None} \cup Written
  /\ exit_code \in {None, 0, 1}
  /\ failures \in 0..MaxFailures
  /\ newest \in TimeTags \cup {None}
  /\ acked \subseteq TimeTags /\ offered \subseteq TimeTags /\ abandoned \subseteq TimeTags
  /\ fresh \in BOOLEAN

LEMMA TypesFolded == (TypeOK <=> Types) /\ (TypeOK' <=> Types')
  BY DEF TypeOK, Types, Written
-----------------------------------------------------------------------------
(* The topic.                                                              *)

\* A delivery leaves what is on the topic where it is.
LEMMA Delivered ==
  ASSUME NEW p \in Seq(Written), NEW s \in Seq(Written)
  PROVE  /\ p \o s \in Seq(Written)
         /\ ToSet(p) \subseteq ToSet(p \o s) /\ ToSet(s) \subseteq ToSet(p \o s)
<1>1. /\ p \o s \in Seq(Written) /\ Len(p \o s) = Len(p) + Len(s)
      /\ Len(p) \in Nat /\ Len(s) \in Nat
      /\ DOMAIN p = 1..Len(p) /\ DOMAIN s = 1..Len(s)
      /\ DOMAIN (p \o s) = 1..(Len(p) + Len(s))
  BY ConcatProperties, LenProperties
<1>2. \A i \in 1..Len(p) : i \in 1..(Len(p) + Len(s)) /\ (p \o s)[i] = p[i]
  BY <1>1, ConcatProperties
<1>3. \A i \in 1..Len(s) :
        Len(p) + i \in 1..(Len(p) + Len(s)) /\ (p \o s)[Len(p) + i] = s[i]
  BY <1>1, ConcatProperties
<1> QED
  BY <1>1, <1>2, <1>3 DEF ToSet

\* The first element of a sequence and the rest of it.
LEMMA HeadOrTail ==
  ASSUME NEW S, NEW s \in Seq(S), s # <<>>
  PROVE  /\ Head(s) \in S /\ Tail(s) \in Seq(S)
         /\ Len(s) \in Nat \ {0} /\ Len(Tail(s)) = Len(s) - 1
         /\ Head(s) = s[1]
         /\ \A i \in 1..Len(Tail(s)) : Tail(s)[i] = s[i + 1]
         /\ ToSet(s) = {Head(s)} \cup ToSet(Tail(s))
<1>1. /\ Head(s) \in S /\ Tail(s) \in Seq(S) /\ Len(Tail(s)) = Len(s) - 1
      /\ \A i \in 1..Len(Tail(s)) : Tail(s)[i] = s[i + 1]
      /\ Len(s) \in Nat \ {0} /\ Head(s) = s[1]
  <2>1. Head(s) = s[1]
    OBVIOUS
  <2> QED
    BY <2>1, HeadTailProperties, EmptySeq
<1>2. DOMAIN s = 1..Len(s) /\ DOMAIN Tail(s) = 1..(Len(s) - 1)
  BY <1>1, LenProperties
<1>3. \A i \in 1..Len(s) : i = 1 \/ (i - 1 \in 1..(Len(s) - 1) /\ (i - 1) + 1 = i)
  BY <1>1
<1>4. \A i \in 1..(Len(s) - 1) : i + 1 \in 1..Len(s)
  BY <1>1
<1>5. 1 \in 1..Len(s)
  BY <1>1
<1>6. ToSet(s) \subseteq {Head(s)} \cup ToSet(Tail(s))
  <2> SUFFICES ASSUME NEW i \in 1..Len(s) PROVE s[i] \in {Head(s)} \cup ToSet(Tail(s))
    BY <1>2 DEF ToSet
  <2>1. CASE i = 1
    BY <1>1, <2>1
  <2>2. CASE i # 1
    <3>1. i - 1 \in DOMAIN Tail(s) /\ Tail(s)[i - 1] = s[i]
      BY <1>1, <1>2, <1>3, <2>2
    <3> QED
      BY <3>1 DEF ToSet
  <2> QED
    BY <2>1, <2>2
<1>7. {Head(s)} \cup ToSet(Tail(s)) \subseteq ToSet(s)
  <2>1. Head(s) \in ToSet(s)
    BY <1>1, <1>2, <1>5 DEF ToSet
  <2>2. \A i \in DOMAIN Tail(s) : Tail(s)[i] \in ToSet(s)
    BY <1>1, <1>2, <1>4 DEF ToSet
  <2> QED
    BY <2>1, <2>2 DEF ToSet
<1> QED
  BY <1>1, <1>6, <1>7

LEMMA InFlightType == TypeOK => InFlight \in Seq(Written)
<1> SUFFICES ASSUME TypeOK PROVE InFlight \in Seq(Written)
  OBVIOUS
<1>1. CASE pc = "publish" /\ candidates # <<>>
  <2>1. Serialized(Head(candidates)) \in Written
    BY <1>1, HeadOrTail DEF TypeOK, Written
  <2> QED
    BY <1>1, <2>1, AppendProperties DEF InFlight, TypeOK, Written
<1>2. CASE ~ (pc = "publish" /\ candidates # <<>>)
  BY <1>2 DEF InFlight, TypeOK, Written
<1> QED
  BY <1>1, <1>2

\* A part of a queue is a queue.
LEMMA PartOfQueue ==
  ASSUME NEW S, NEW s \in Seq(S), NEW m \in 1..(Len(s) + 1), NEW n \in 0..Len(s)
  PROVE  SubSeq(s, m, n) \in Seq(S)
<1>1. \A i \in m..n : s[i] \in S
  BY LenProperties
<1> QED
  BY <1>1, SubSeqProperties
-----------------------------------------------------------------------------
(* Initial states, and the environment of a poll.                          *)

LEMMA InitIInv == Init => IInv
<1> SUFFICES ASSUME Init PROVE IInv
  OBVIOUS
<1>1. TypeOK
  <2>1. <<>> \in Seq(TimeTags) /\ <<>> \in Seq(Written) /\ 0 \in 0..MaxFailures
    BY PollerAssumption, EmptySeq
  <2>2. Types
    BY <2>1 DEF Init, Types
  <2> QED
    BY <2>2, TypesFolded
<1>2. MemorySound /\ CandidatesSound /\ CheckpointBelow
  BY DEF Init, MemorySound, CandidatesSound, CheckpointBelow
<1>3. OnTopic /\ OfferedSound
  BY DEF Init, OnTopic, CheckpointIsOnTopic, OfferedSound
<1>4. NewestHandled
  BY PollerAssumption DEF Init, NewestHandled, ExitZeroMeansHandled
<1>5. QueuedNewer
  BY EmptySeq DEF Init, QueuedNewer
<1> QED
  BY <1>1, <1>2, <1>3, <1>4, <1>5 DEF IInv

\* The response changes, or nothing does.
LEMMA FeedKeepsIInv ==
  ASSUME IInv, feed' \subseteq TimeTags,
         UNCHANGED <<pc, memory, kafka, checkpoint, exit_code, failures, history>>
  PROVE  IInv'
<1> USE DEF memory, kafka, history
<1>1. TypeOK'
  BY DEF IInv, TypeOK
<1>2. MemorySound' /\ CandidatesSound' /\ CheckpointBelow'
  BY DEF IInv, MemorySound, CandidatesSound, LaterPoll, FirstPoll, CheckpointBelow
<1>3. OnTopic' /\ OfferedSound'
  BY DEF IInv, OnTopic, CheckpointIsOnTopic, OfferedSound
<1>4. NewestHandled' /\ QueuedNewer'
  BY DEF IInv, NewestHandled, ExitZeroMeansHandled, QueuedNewer, NewWritten, NewTags
<1> QED
  BY <1>1, <1>2, <1>3, <1>4 DEF IInv

LEMMA WakeKeepsIInv == IInv /\ Wake => IInv'
<1> SUFFICES ASSUME IInv, Wake PROVE IInv'
  OBVIOUS
<1> USE DEF Wake, memory, kafka, history
<1>1. TypeOK'
  BY DEF IInv, TypeOK
<1>2. MemorySound' /\ CandidatesSound' /\ CheckpointBelow'
  BY DEF IInv, MemorySound, CandidatesSound, CheckpointBelow
<1>3. OnTopic' /\ OfferedSound'
  BY DEF IInv, OnTopic, CheckpointIsOnTopic, OfferedSound
<1>4. NewestHandled' /\ QueuedNewer'
  BY DEF IInv, NewestHandled, ExitZeroMeansHandled, QueuedNewer, NewWritten, NewTags
<1> QED
  BY <1>1, <1>2, <1>3, <1>4 DEF IInv

\* The client's own thread delivers.
LEMMA BackgroundKeepsIInv == IInv /\ BackgroundDelivery => IInv'
<1> SUFFICES ASSUME IInv, BackgroundDelivery PROVE IInv'
  OBVIOUS
<1> USE DEF BackgroundDelivery, memory, history
<1>0. /\ queued' \in Seq(Written) /\ topic' \in Seq(Written)
      /\ ToSet(topic) \subseteq ToSet(topic')
  <2>1. /\ queued \in Seq(Written) /\ queued # <<>> /\ topic \in Seq(Written)
        /\ Head(queued) \in Written /\ Tail(queued) \in Seq(Written)
    BY HeadOrTail DEF IInv, TypeOK, Written
  <2>2. Append(topic, Head(queued)) = topic \o <<Head(queued)>>
    BY <2>1, AppendIsConcat
  <2>3. <<Head(queued)>> \in Seq(Written)
    BY <2>1
  <2> QED
    BY <2>1, <2>2, <2>3, Delivered
<1>1. TypeOK'
  BY <1>0 DEF IInv, TypeOK, Written
<1>2. MemorySound' /\ CandidatesSound' /\ CheckpointBelow'
  BY DEF IInv, MemorySound, CandidatesSound, LaterPoll, FirstPoll, CheckpointBelow
<1>3. OnTopic' /\ OfferedSound'
  BY <1>0 DEF IInv, OnTopic, CheckpointIsOnTopic, OfferedSound
<1>4. NewestHandled'
  BY DEF IInv, NewestHandled, ExitZeroMeansHandled
<1>5. QueuedNewer'
  <2>1. queued \in Seq(NewWritten) /\ queued # <<>> /\ NewWritten' = NewWritten
    BY DEF IInv, QueuedNewer, NewWritten, NewTags
  <2>2. Tail(queued) \in Seq(NewWritten)
    BY <2>1, HeadOrTail
  <2> QED
    BY <2>1, <2>2 DEF QueuedNewer
<1> QED
  BY <1>1, <1>2, <1>3, <1>4, <1>5 DEF IInv

LEMMA StartKeepsIInv == IInv /\ Start => IInv'
<1> SUFFICES ASSUME IInv, Start PROVE IInv'
  OBVIOUS
<1> USE DEF Start, kafka
<1>0. /\ checkpoint \in {None} \cup Written
      /\ checkpoint # None =>
           checkpoint \in Int /\ Serialized(checkpoint) = checkpoint
  BY WrittenProperties DEF IInv, TypeOK, Written
<1>1. TypeOK'
  BY <1>0 DEF IInv, TypeOK, Written
<1>2. MemorySound' /\ CandidatesSound'
  BY DEF IInv, MemorySound, CandidatesSound
<1>3. OnTopic'
  <2>1. checkpoint # None => GreatestOf(checkpoint, {checkpoint})
    BY <1>0 DEF GreatestOf
  <2> QED
    BY <1>0, <2>1 DEF IInv, OnTopic, CheckpointIsOnTopic
<1>4. CheckpointBelow'
  BY <1>0 DEF IInv, CheckpointBelow
<1>5. OfferedSound'
  <2>1. CASE checkpoint = None
    BY <2>1 DEF OfferedSound
  <2>2. CASE checkpoint # None
    BY <1>0, <2>2 DEF IInv, OfferedSound
  <2> QED
    BY <2>1, <2>2
<1>6. NewestHandled'
  BY DEF IInv, NewestHandled, ExitZeroMeansHandled
<1>7. QueuedNewer'
  BY EmptySeq DEF IInv, MemorySound, QueuedNewer
<1> QED
  BY <1>1, <1>2, <1>3, <1>4, <1>5, <1>6, <1>7 DEF IInv

LEMMA StartFailsKeepsIInv == IInv /\ StartFails => IInv'
<1> SUFFICES ASSUME IInv, StartFails PROVE IInv'
  OBVIOUS
<1> USE DEF StartFails, Failure, memory, kafka, history
<1>0. failures' \in 0..MaxFailures
  BY PollerAssumption DEF IInv, TypeOK
<1>1. TypeOK'
  BY <1>0 DEF IInv, TypeOK
<1>2. MemorySound' /\ CandidatesSound' /\ CheckpointBelow'
  BY DEF IInv, MemorySound, CandidatesSound, CheckpointBelow
<1>3. OnTopic' /\ OfferedSound'
  BY DEF IInv, OnTopic, CheckpointIsOnTopic, OfferedSound
<1>4. NewestHandled' /\ QueuedNewer'
  BY PollerAssumption DEF IInv, NewestHandled, ExitZeroMeansHandled, QueuedNewer,
     NewWritten, NewTags
<1> QED
  BY <1>1, <1>2, <1>3, <1>4 DEF IInv
-----------------------------------------------------------------------------
(* A poll that fails and a process that crashes leave the same behind.     *)

GivesUp ==
  /\ pc # "down"
  /\ \/ pc' = "down" /\ seen' = {} /\ queued' = <<>> /\ exit_code' \in {exit_code, 1}
     \/ pc' = "sleep" /\ UNCHANGED <<seen, exit_code>> /\ queued' \in Seq(NewWritten)
  /\ candidates' = <<>> /\ startup_baseline' = {}
  /\ \E s \in Seq(NewWritten) : topic' = topic \o s
  /\ UNCHANGED <<feed, once, checkpoint, history>>
  /\ failures' = failures \/ Failure

\* What is newer than everything seen is written in whole seconds.
LEMMA NewIsWritten == NewWritten \subseteq Written /\ Seq(NewWritten) \subseteq Seq(Written)
<1>1. NewWritten \subseteq Written
  BY DEF NewWritten, NewTags, Written
<1> QED
  BY <1>1, SeqMonotonic

LEMMA GivesUpKeepsIInv == IInv /\ GivesUp => IInv'
<1> SUFFICES ASSUME IInv, GivesUp PROVE IInv'
  OBVIOUS
<1> USE DEF GivesUp, history
<1>0. failures' \in 0..MaxFailures
  BY PollerAssumption DEF IInv, TypeOK, Failure
<1>d. topic' \in Seq(Written) /\ ToSet(topic) \subseteq ToSet(topic')
  BY NewIsWritten, Delivered DEF IInv, TypeOK, Written
<1>1. TypeOK'
  <2>1. Types
    BY TypesFolded DEF IInv
  <2>2. /\ pc' \in {"down", "poll", "publish", "save", "sleep"}
        /\ seen' \in {seen, {}} /\ exit_code' \in {exit_code, 1}
        /\ queued' \in Seq(Written) /\ candidates' \in Seq(TimeTags)
    <3>1. <<>> \in Seq(Written) /\ <<>> \in Seq(TimeTags)
      BY EmptySeq
    <3> QED
      BY <3>1, NewIsWritten
  <2>3. Types'
    BY <1>0, <1>d, <2>1, <2>2 DEF Types
  <2> QED
    BY <2>3, TypesFolded
<1>2. MemorySound' /\ CandidatesSound' /\ CheckpointBelow'
  BY DEF IInv, MemorySound, CandidatesSound, CheckpointBelow
<1>3. OnTopic' /\ OfferedSound'
  BY <1>d DEF IInv, OnTopic, CheckpointIsOnTopic, OfferedSound
<1>4. NewestHandled'
  BY PollerAssumption DEF IInv, MemorySound, NewestHandled, ExitZeroMeansHandled
<1>5. QueuedNewer'
  <2>1. CASE pc' = "down"
    BY <2>1, EmptySeq DEF QueuedNewer
  <2>2. CASE pc' # "down"
    BY <2>2 DEF QueuedNewer, NewWritten, NewTags
  <2> QED
    BY <2>1, <2>2
<1> QED
  BY <1>1, <1>2, <1>3, <1>4, <1>5 DEF IInv

\* The event of a publish call is newer than everything seen.
LEMMA HeadIsNew ==
  ASSUME IInv, pc = "publish", candidates # <<>>
  PROVE  /\ Head(candidates) \in TimeTags /\ Head(candidates) \in Int
         /\ \A x \in seen : x \in Int /\ x < Head(candidates)
         /\ \/ LaterPoll
            \/ /\ startup_baseline # {} /\ seen = {} /\ Tail(candidates) = <<>>
               /\ GreatestOf(Head(candidates), startup_baseline)
<1>1. /\ Head(candidates) \in TimeTags /\ Head(candidates) = candidates[1]
      /\ Len(candidates) \in Nat \ {0}
  BY HeadOrTail DEF IInv, TypeOK
<1>2. /\ Head(candidates) \in Int
      /\ \A x \in seen : x \in Int
  BY <1>1, WrittenProperties DEF IInv, TypeOK, Written
<1>3. LaterPoll \/ FirstPoll
  BY DEF IInv, CandidatesSound
<1>4. CASE LaterPoll
  BY <1>1, <1>2, <1>4 DEF LaterPoll
<1>5. CASE FirstPoll
  <2>1. PICK m \in startup_baseline :
          GreatestOf(m, startup_baseline) /\ seen = {} /\ candidates = <<m>>
    BY <1>5 DEF FirstPoll
  <2>2. Head(candidates) = m /\ Tail(candidates) = <<>>
    BY <2>1
  <2> QED
    BY <1>1, <1>2, <2>1, <2>2
<1> QED
  BY <1>3, <1>4, <1>5

\* What the client is delivering is newer than everything seen.
LEMMA InFlightNewer == IInv => InFlight \in Seq(NewWritten)
<1> SUFFICES ASSUME IInv PROVE InFlight \in Seq(NewWritten)
  OBVIOUS
<1>0. queued \in Seq(NewWritten)
  BY DEF IInv, QueuedNewer
<1>1. CASE pc = "publish" /\ candidates # <<>>
  <2>1. Head(candidates) \in NewTags
    BY <1>1, HeadIsNew DEF NewTags
  <2>2. Serialized(Head(candidates)) \in NewWritten
    BY <2>1 DEF NewWritten
  <2> QED
    BY <1>0, <1>1, <2>2, AppendProperties DEF InFlight
<1>2. CASE ~ (pc = "publish" /\ candidates # <<>>)
  BY <1>0, <1>2 DEF InFlight
<1> QED
  BY <1>1, <1>2

LEMMA CrashGivesUp == IInv /\ Crash => GivesUp
<1> SUFFICES ASSUME IInv, Crash PROVE GivesUp
  OBVIOUS
<1>1. PICK n \in 0..Len(InFlight) : topic' = topic \o SubSeq(InFlight, 1, n)
  BY DEF Crash
<1>2. SubSeq(InFlight, 1, n) \in Seq(NewWritten)
  <2>1. InFlight \in Seq(NewWritten) /\ Len(InFlight) \in Nat
    BY InFlightNewer, LenProperties
  <2> QED
    BY <2>1, PartOfQueue
<1> QED
  BY <1>1, <1>2 DEF Crash, Forget, GivesUp

LEMMA PollFailedGivesUp ==
  ASSUME IInv, pc # "down",
         NEW stillQueued \in Seq(NewWritten), PollFailed(stillQueued),
         NEW delivered \in Seq(NewWritten), topic' = topic \o delivered,
         UNCHANGED <<feed, once, checkpoint, history>>,
         failures' = failures \/ Failure
  PROVE  GivesUp
  BY DEF PollFailed, Forget, GivesUp

LEMMA PollFailsGivesUp ==
  IInv /\ (FetchFails \/ NoValidRows \/ SaveFails) => GivesUp
<1> SUFFICES ASSUME IInv, FetchFails \/ NoValidRows \/ SaveFails PROVE GivesUp
  OBVIOUS
<1>1. queued \in Seq(NewWritten) /\ <<>> \in Seq(NewWritten) /\ topic' = topic \o <<>>
  <2>1. topic \in Seq(Written) /\ topic' = topic
    BY DEF IInv, TypeOK, Written, FetchFails, NoValidRows, SaveFails
  <2> QED
    BY <2>1, EmptySeq, ConcatEmptySeq DEF IInv, QueuedNewer
<1>2. /\ pc # "down" /\ PollFailed(queued)
      /\ UNCHANGED <<feed, once, checkpoint, history>>
      /\ failures' = failures \/ Failure
  BY DEF FetchFails, NoValidRows, SaveFails
<1> QED
  BY <1>1, <1>2, PollFailedGivesUp

LEMMA PublishTimesOutGivesUp == IInv /\ PublishTimesOut => GivesUp
<1> SUFFICES ASSUME IInv, PublishTimesOut PROVE GivesUp
  OBVIOUS
<1> DEFINE First(n) == SubSeq(InFlight, 1, n)
           Rest(n) == SubSeq(InFlight, n + 1, Len(InFlight))
<1>0. InFlight \in Seq(NewWritten) /\ Len(InFlight) \in Nat
  BY InFlightNewer, LenProperties
<1>1. PICK n \in 0..(Len(InFlight) - 1) : topic' = topic \o First(n) /\ PollFailed(Rest(n))
  BY DEF PublishTimesOut
<1>2. First(n) \in Seq(NewWritten) /\ Rest(n) \in Seq(NewWritten)
  BY <1>0, PartOfQueue
<1> HIDE DEF First, Rest
<1> QED
  BY <1>1, <1>2, PollFailedGivesUp DEF PublishTimesOut

LEMMA PublishRejectedGivesUp == IInv /\ PublishRejected => GivesUp
<1> SUFFICES ASSUME IInv, PublishRejected PROVE GivesUp
  OBVIOUS
<1>1. /\ queued \in Seq(NewWritten) /\ InFlight \in Seq(NewWritten)
      /\ <<>> \in Seq(NewWritten) /\ topic = topic \o <<>>
  BY InFlightNewer, EmptySeq, ConcatEmptySeq DEF IInv, QueuedNewer, TypeOK
<1>2. PICK stillQueued \in Seq(NewWritten), delivered \in Seq(NewWritten) :
        PollFailed(stillQueued) /\ topic' = topic \o delivered
  BY <1>1 DEF PublishRejected
<1> QED
  BY <1>2, PollFailedGivesUp DEF PublishRejected
-----------------------------------------------------------------------------
(* The steps of a poll that goes well.                                     *)

\* The watermark of a process that has seen something.
LEMMA MaxSeen ==
  ASSUME TypeOK, seen # {}
  PROVE  /\ Max(seen) \in seen /\ \A x \in seen : x <= Max(seen)
         /\ seen \subseteq Int
<1>1. seen \in SUBSET Int /\ IsFiniteSet(seen)
  BY WrittenProperties, FS_Subset DEF TypeOK, Written
<1> QED
  BY <1>1, MaxIsGreatest

\* What a poll selects.
LEMMA CandidatesOfPoll ==
  ASSUME TypeOK, feed # {}
  PROVE  /\ Candidates(feed) \in Seq(TimeTags)
         /\ Max(feed) \in feed /\ \A t \in feed : t <= Max(feed)
         /\ seen = {} => Candidates(feed) = <<Max(feed)>>
         /\ seen # {} =>
              /\ \A i, j \in 1..Len(Candidates(feed)) :
                   i < j => Candidates(feed)[i] < Candidates(feed)[j]
              /\ \A t : t \in ToSet(Candidates(feed)) <=> t \in feed /\ \A x \in seen : x < t
<1>1. feed \in SUBSET Int /\ IsFiniteSet(feed) /\ feed \subseteq TimeTags
  BY PollerAssumption, FS_Subset DEF TypeOK
<1>2. Max(feed) \in feed /\ \A t \in feed : t <= Max(feed)
  BY <1>1, MaxIsGreatest
<1>3. CASE seen = {}
  <2>1. Candidates(feed) = <<Max(feed)>>
    BY <1>3 DEF Candidates
  <2>2. <<Max(feed)>> \in Seq(TimeTags)
    <3>1. Max(feed) \in TimeTags
      BY <1>1, <1>2
    <3> HIDE <1>2
    <3> QED
      BY <3>1
  <2> QED
    BY <1>2, <1>3, <2>1, <2>2
<1>4. CASE seen # {}
  <2> DEFINE S == {t \in feed : t > Max(seen)}
             a == Ascending(S)
  <2>1. S \in SUBSET Int /\ IsFiniteSet(S)
    BY <1>1, FS_Subset
  <2>2. Candidates(feed) = a
    BY <1>4 DEF Candidates
  <2>3. \A t \in feed : t > Max(seen) <=> \A x \in seen : x < t
    BY <1>1, <1>4, MaxSeen
  <2>4. \A t : t \in S <=> t \in feed /\ \A x \in seen : x < t
    BY <2>3
  <2>5. /\ a \in Seq(S)
        /\ \A i, j \in 1..Len(a) : i < j => a[i] < a[j]
        /\ \A t \in S : \E i \in 1..Len(a) : a[i] = t
    BY <2>1, AscendingProperties
  <2>6. S \subseteq TimeTags
    BY <1>1
  <2> HIDE DEF S, a
  <2>7. \A t : t \in ToSet(a) <=> t \in S
    <3>1. DOMAIN a = 1..Len(a) /\ \A i \in 1..Len(a) : a[i] \in S
      BY <2>5, LenProperties, ElementOfSeq
    <3> QED
      BY <2>5, <3>1 DEF ToSet
  <2>8. a \in Seq(TimeTags)
    BY <2>5, <2>6, SeqMonotonic
  <2> QED
    BY <1>2, <1>4, <2>2, <2>4, <2>5, <2>7, <2>8
<1> QED
  BY <1>3, <1>4

LEMMA FetchKeepsIInv == IInv /\ Fetch => IInv'
<1> SUFFICES ASSUME IInv, Fetch PROVE IInv'
  OBVIOUS
<1> USE DEF kafka
<1> DEFINE c == Candidates(feed)
           selected == IF seen # {} THEN ToSet(c) ELSE {}
<1>0. /\ TypeOK /\ feed # {} /\ pc = "poll" /\ pc' = "publish"
      /\ candidates' = c /\ newest' = Max(feed)
      /\ startup_baseline' = IF seen # {} THEN {} ELSE feed
      /\ offered' = (offered \cap (feed \cup acked)) \cup selected
      /\ abandoned' = abandoned \ selected
      /\ UNCHANGED <<feed, once, seen, queued, topic, checkpoint, exit_code, failures,
                     acked, fresh>>
      /\ feed \subseteq TimeTags /\ feed \subseteq Int /\ seen \subseteq Int
      /\ Max(feed) \in feed /\ \A t \in feed : t <= Max(feed)
  BY CandidatesOfPoll, WrittenProperties DEF Fetch, IInv, TypeOK, Written
<1>c. /\ c \in Seq(TimeTags) /\ Len(c) \in Nat /\ DOMAIN c = 1..Len(c)
      /\ seen = {} => c = <<Max(feed)>>
      /\ seen # {} =>
           /\ \A i, j \in 1..Len(c) : i < j => c[i] < c[j]
           /\ \A t : t \in ToSet(c) <=> t \in feed /\ \A x \in seen : x < t
  BY <1>0, CandidatesOfPoll, LenProperties
<1> HIDE DEF c
<1>1. TypeOK'
  <2>1. ToSet(c) \subseteq TimeTags
    BY <1>c, ElementOfSeq DEF ToSet
  <2>2. offered' \subseteq TimeTags /\ abandoned' \subseteq TimeTags
    BY <1>0, <2>1 DEF TypeOK
  <2> QED
    BY <1>0, <1>c, <2>2 DEF TypeOK
<1>2. MemorySound' /\ CheckpointBelow'
  BY <1>0 DEF IInv, MemorySound, CheckpointBelow
<1>3. CandidatesSound'
  <2>1. CASE seen = {}
    <3>1. /\ Max(feed) \in startup_baseline'
          /\ GreatestOf(Max(feed), startup_baseline')
          /\ seen' = {} /\ candidates' = <<Max(feed)>>
      BY <1>0, <1>c, <2>1 DEF GreatestOf
    <3> QED
      BY <3>1 DEF CandidatesSound, FirstPoll
  <2>2. CASE seen # {}
    <3>1. \A i \in 1..Len(c) : c[i] \in ToSet(c)
      BY <1>c DEF ToSet
    <3>2. LaterPoll'
      BY <1>0, <1>c, <2>2, <3>1 DEF LaterPoll
    <3> QED
      BY <3>2 DEF CandidatesSound
  <2> QED
    BY <2>1, <2>2
<1>4. OnTopic'
  BY <1>0 DEF IInv, OnTopic, CheckpointIsOnTopic
<1>5. OfferedSound'
  <2>1. CASE seen = {}
    BY <1>0, <2>1 DEF IInv, OfferedSound
  <2>2. CASE seen # {}
    <3> SUFFICES ASSUME NEW t \in offered', t \notin acked', t \notin abandoned'
                 PROVE  /\ \A x \in seen : x < t
                        /\ checkpoint # None => checkpoint < t
                        /\ t \in ToSet(c)
      BY <1>0, <2>2 DEF OfferedSound
    <3>1. t \in feed /\ \A x \in seen : x < t
      BY <1>0, <1>c, <2>2 DEF IInv, OfferedSound
    <3>2. t \in ToSet(c)
      BY <1>c, <2>2, <3>1
    <3>3. checkpoint # None => checkpoint < t
      <4>1. checkpoint # None => \E x \in seen : checkpoint <= x
        BY <1>0 DEF IInv, CheckpointBelow
      <4>2. checkpoint # None => checkpoint \in Int
        BY WrittenProperties DEF IInv, TypeOK, Written
      <4> QED
        BY <1>0, <3>1, <4>1, <4>2
    <3> QED
      BY <3>1, <3>2, <3>3
  <2> QED
    BY <2>1, <2>2
<1>6. NewestHandled'
  <2>1. newest' # None
    BY <1>0, WrittenProperties
  <2>2. CASE seen = {}
    BY <1>0, <2>1, <2>2 DEF NewestHandled, ExitZeroMeansHandled
  <2>3. CASE seen # {}
    <3> DEFINE m == Max(feed)
    <3>0. m \in feed /\ m \in Int /\ m <= m
      BY <1>0
    <3> HIDE DEF m
    <3>1. (\A x \in seen : x < m) => m \in ToSet(c)
      BY <1>c, <2>3, <3>0
    <3>2. \A x \in seen : ~ (x < m) => m <= x
      BY <1>0, <3>0
    <3>3. \E x \in seen \cup ToSet(c) : m <= x
      BY <3>0, <3>1, <3>2, Zenon
    <3> QED
      BY <1>0, <2>1, <3>3 DEF NewestHandled, ExitZeroMeansHandled, m
  <2> QED
    BY <2>2, <2>3
<1>7. QueuedNewer'
  BY <1>0 DEF IInv, QueuedNewer, NewWritten, NewTags
<1> QED
  BY <1>1, <1>2, <1>3, <1>4, <1>5, <1>6, <1>7 DEF IInv

LEMMA FinishPollKeepsIInv == IInv /\ FinishPoll => IInv'
<1> SUFFICES ASSUME IInv, FinishPoll PROVE IInv'
  OBVIOUS
<1> USE DEF kafka, history
<1>0. /\ pc = "publish" /\ pc' = "save" /\ candidates = <<>> /\ candidates' = <<>>
      /\ seen' = seen \cup startup_baseline /\ startup_baseline' = {}
      /\ UNCHANGED <<feed, once, queued, topic, checkpoint, exit_code, failures,
                     newest, acked, offered, abandoned, fresh>>
      /\ TypeOK
  BY DEF FinishPoll, IInv
<1>s. ToSet(<<>>) = {}
  BY DEF ToSet
<1>c. /\ seen # {}
      /\ \/ startup_baseline = {}
         \/ \E m \in seen : seen = {m} /\ GreatestOf(m, startup_baseline)
  BY <1>0 DEF IInv, CandidatesSound, LaterPoll, FirstPoll, GreatestOf
<1>1. TypeOK'
  BY <1>0 DEF TypeOK
<1>2. MemorySound' /\ CandidatesSound'
  BY <1>0, <1>c DEF IInv, MemorySound, CandidatesSound
<1>3. CheckpointBelow'
  BY <1>0 DEF IInv, CheckpointBelow
<1>4. OnTopic'
  <2>1. PICK m \in seen : GreatestOf(m, seen) /\ Serialized(m) \in ToSet(topic)
    BY <1>c DEF IInv, OnTopic
  <2>2. GreatestOf(m, seen \cup startup_baseline)
    BY <1>c, <2>1 DEF GreatestOf
  <2> QED
    BY <1>0, <2>1, <2>2 DEF IInv, OnTopic, CheckpointIsOnTopic
<1>5. OfferedSound'
  <2>1. (offered \ acked) \ abandoned = {}
    BY <1>0, <1>s DEF IInv, OfferedSound
  <2> QED
    BY <1>0, <2>1 DEF OfferedSound
<1>6. NewestHandled'
  BY <1>0, <1>s DEF IInv, NewestHandled, ExitZeroMeansHandled
<1>7. QueuedNewer'
  <2>1. \A t \in NewTags : \A x \in startup_baseline : x < t
    <3> SUFFICES ASSUME NEW t \in NewTags, NEW x \in startup_baseline PROVE x < t
      OBVIOUS
    <3>1. PICK m \in seen : GreatestOf(m, startup_baseline)
      BY <1>c
    <3>2. m < t /\ x <= m /\ m \in startup_baseline
      BY <3>1 DEF NewTags, GreatestOf
    <3>3. x \in Int /\ m \in Int /\ t \in Int
      BY <1>0, <3>2, WrittenProperties DEF TypeOK, NewTags
    <3> QED
      BY <3>2, <3>3
  <2>2. NewTags' = NewTags
    BY <1>0, <2>1 DEF NewTags
  <2> QED
    BY <1>0, <2>2 DEF IInv, QueuedNewer, NewWritten
<1> QED
  BY <1>1, <1>2, <1>3, <1>4, <1>5, <1>6, <1>7 DEF IInv

LEMMA PublishKeepsIInv == IInv /\ Publish => IInv'
<1> SUFFICES ASSUME IInv, Publish PROVE IInv'
  OBVIOUS
<1> DEFINE h == Head(candidates)
<1>0. /\ TypeOK /\ pc = "publish" /\ pc' = "publish" /\ candidates # <<>>
      /\ topic' = topic \o InFlight /\ queued' = <<>>
      /\ seen' = seen \cup {h} /\ candidates' = Tail(candidates) /\ acked' = acked \cup {h}
      /\ UNCHANGED <<feed, once, startup_baseline, checkpoint, exit_code, failures,
                     newest, offered, abandoned, fresh>>
  BY DEF Publish, IInv
<1>h. /\ h \in TimeTags /\ h \in Int /\ Serialized(h) \in Int /\ Serialized(h) <= h
      /\ \A x \in seen : x \in Int /\ x < h
      /\ \/ LaterPoll
         \/ /\ startup_baseline # {} /\ seen = {} /\ Tail(candidates) = <<>>
            /\ GreatestOf(h, startup_baseline)
  BY <1>0, HeadIsNew, SerializedProperties
<1>t. /\ Tail(candidates) \in Seq(TimeTags)
      /\ Len(candidates) \in Nat \ {0} /\ Len(Tail(candidates)) = Len(candidates) - 1
      /\ h = candidates[1]
      /\ \A i \in 1..Len(Tail(candidates)) : Tail(candidates)[i] = candidates[i + 1]
      /\ ToSet(candidates) = {h} \cup ToSet(Tail(candidates))
  BY <1>0, HeadOrTail DEF TypeOK
<1>d. /\ topic' \in Seq(Written) /\ ToSet(topic) \subseteq ToSet(topic')
      /\ Serialized(h) \in ToSet(topic')
  <2>1. topic \in Seq(Written) /\ queued \in Seq(Written) /\ Serialized(h) \in Written
    BY <1>0, <1>h DEF TypeOK, Written
  <2>2. InFlight = Append(queued, Serialized(h)) /\ InFlight \in Seq(Written)
    BY <1>0, InFlightType DEF InFlight
  <2>3. Serialized(h) \in ToSet(InFlight)
    <3>1. /\ Len(queued) + 1 \in DOMAIN InFlight
          /\ InFlight[Len(queued) + 1] = Serialized(h)
      BY <2>1, <2>2, AppendProperties, LenProperties
    <3> QED
      BY <3>1 DEF ToSet
  <2> QED
    BY <1>0, <2>1, <2>2, <2>3, Delivered
<1> HIDE DEF h
<1>1. TypeOK'
  <2>1. Types'
    BY <1>0, <1>h, <1>t, <1>d, TypesFolded DEF Types
  <2> QED
    BY <2>1, TypesFolded
<1>2. MemorySound' /\ CheckpointBelow'
  BY <1>0 DEF IInv, MemorySound, CheckpointBelow
<1>3. CandidatesSound'
  <2>1. CASE LaterPoll
    <3>1. \A i \in 1..Len(Tail(candidates)) : i + 1 \in 1..Len(candidates) /\ 1 < i + 1
      BY <1>t
    <3>2. \A i, j \in 1..Len(Tail(candidates)) :
            i < j => Tail(candidates)[i] < Tail(candidates)[j]
      <4> SUFFICES ASSUME NEW i \in 1..Len(Tail(candidates)),
                          NEW j \in 1..Len(Tail(candidates)), i < j
                   PROVE  candidates[i + 1] < candidates[j + 1]
        BY <1>t
      <4>1. i + 1 < j + 1
        BY <1>t
      <4> QED
        BY <2>1, <3>1, <4>1 DEF LaterPoll
    <3>3. \A x \in seen \cup {h}, i \in 1..Len(Tail(candidates)) : x < Tail(candidates)[i]
      <4>1. 1 \in 1..Len(candidates)
        BY <1>t
      <4> QED
        BY <1>t, <2>1, <3>1, <4>1 DEF LaterPoll
    <3>4. LaterPoll'
      BY <1>0, <2>1, <3>2, <3>3 DEF LaterPoll
    <3> QED
      BY <3>4 DEF CandidatesSound
  <2>2. CASE ~ LaterPoll
    <3>1. /\ h \in startup_baseline' /\ GreatestOf(h, startup_baseline')
          /\ seen' = {h} /\ candidates' = <<>>
      BY <1>0, <1>h, <2>2 DEF GreatestOf
    <3> QED
      BY <3>1 DEF CandidatesSound, FirstPoll
  <2> QED
    BY <2>1, <2>2
<1>4. OnTopic'
  <2>1. GreatestOf(h, seen')
    BY <1>0, <1>h DEF GreatestOf
  <2> QED
    BY <1>0, <1>d, <2>1 DEF IInv, OnTopic, CheckpointIsOnTopic, GreatestOf
<1>5. OfferedSound'
  <2>1. CASE startup_baseline # {}
    BY <1>0, <2>1 DEF IInv, OfferedSound
  <2>2. CASE startup_baseline = {}
    <3> SUFFICES ASSUME NEW t \in offered, t \notin acked, t \notin abandoned, t # h
                 PROVE  /\ \A x \in seen \cup {h} : x < t
                        /\ checkpoint # None => checkpoint < t
                        /\ t \in ToSet(Tail(candidates))
      BY <1>0, <2>2 DEF OfferedSound
    <3>1. /\ \A x \in seen : x < t
          /\ checkpoint # None => checkpoint < t
          /\ t \in ToSet(candidates)
      BY <1>0 DEF IInv, OfferedSound
    <3>2. t \in ToSet(Tail(candidates))
      BY <1>t, <3>1
    <3>3. h < t
      <4>1. PICK i \in 1..Len(candidates) : candidates[i] = t
        BY <1>0, <3>1, LenProperties DEF TypeOK, ToSet
      <4>2. 1 \in 1..Len(candidates) /\ 1 < i
        BY <1>t, <4>1
      <4>3. LaterPoll
        BY <1>h, <2>2
      <4> QED
        BY <1>t, <4>1, <4>2, <4>3 DEF LaterPoll
    <3> QED
      BY <3>1, <3>2, <3>3
  <2> QED
    BY <2>1, <2>2
<1>6. NewestHandled'
  BY <1>0, <1>t DEF IInv, NewestHandled, ExitZeroMeansHandled
<1>7. QueuedNewer'
  BY <1>0, EmptySeq DEF QueuedNewer
<1> QED
  BY <1>1, <1>2, <1>3, <1>4, <1>5, <1>6, <1>7 DEF IInv

LEMMA SaveKeepsIInv == IInv /\ Save => IInv'
<1> SUFFICES ASSUME IInv, Save PROVE IInv'
  OBVIOUS
<1> USE DEF history
<1> DEFINE m == Max(seen)
<1>0. /\ TypeOK /\ pc = "save" /\ seen # {} /\ exit_code = None
      /\ candidates = <<>> /\ startup_baseline = {}
      /\ checkpoint' = Serialized(m)
      /\ UNCHANGED <<feed, once, topic, failures, newest, acked, offered, abandoned, fresh>>
      /\ candidates' = <<>> /\ startup_baseline' = {}
      /\ \/ pc' = "down" /\ seen' = {} /\ queued' = <<>> /\ exit_code' = 0
         \/ pc' = "sleep" /\ seen' = seen /\ queued' = queued /\ exit_code' = None
  BY DEF Save, NewestTag, PollSucceeded, Forget, IInv, MemorySound
<1>m. /\ m \in seen /\ m \in Int /\ \A x \in seen : x \in Int /\ x <= m
      /\ checkpoint' \in Int /\ checkpoint' <= m /\ Serialized(checkpoint') = checkpoint'
      /\ checkpoint' \in Written /\ checkpoint' # None
  <2>1. m \in seen /\ m \in Int /\ \A x \in seen : x \in Int /\ x <= m
    BY <1>0, MaxSeen
  <2>2. Serialized(m) \in Written
    BY <1>0, <2>1, WrittenProperties DEF TypeOK, Written
  <2> QED
    BY <1>0, <2>1, <2>2, SerializedProperties, WrittenProperties
<1> HIDE DEF m
<1>1. TypeOK'
  <2>1. Types
    BY <1>0, TypesFolded
  <2>2. /\ pc' \in {"down", "poll", "publish", "save", "sleep"}
        /\ seen' \in {seen, {}} /\ exit_code' \in {None, 0, 1}
        /\ queued' \in Seq(Written)
    <3>1. <<>> \in Seq(Written) /\ queued \in Seq(Written)
      BY <2>1, EmptySeq DEF Types
    <3> QED
      BY <1>0, <3>1
  <2>3. Types'
    BY <1>0, <1>m, <2>1, <2>2 DEF Types
  <2> QED
    BY <2>3, TypesFolded
<1>2. MemorySound' /\ CandidatesSound'
  BY <1>0 DEF IInv, MemorySound, CandidatesSound
<1>3. OnTopic'
  <2>1. PICK k \in seen : GreatestOf(k, seen) /\ Serialized(k) \in ToSet(topic)
    BY <1>0 DEF IInv, OnTopic
  <2>2. k = m
    BY <1>m, <2>1 DEF GreatestOf
  <2> QED
    BY <1>0, <2>1, <2>2 DEF IInv, OnTopic, CheckpointIsOnTopic
<1>4. CheckpointBelow'
  BY <1>0, <1>m DEF CheckpointBelow
<1>5. OfferedSound'
  <2>1. \A t \in (offered \ acked) \ abandoned : t \in Int /\ m < t
    BY <1>0, <1>m, WrittenProperties DEF IInv, OfferedSound, TypeOK
  <2>2. \A t \in (offered \ acked) \ abandoned : checkpoint' < t
    BY <1>m, <2>1
  <2> QED
    BY <1>0, <2>2 DEF IInv, OfferedSound
<1>6. NewestHandled'
  <2>1. PICK x \in seen : newest <= x
    BY <1>0 DEF IInv, NewestHandled
  <2>2. newest \in Int
    BY <1>0, WrittenProperties DEF IInv, NewestHandled, TypeOK
  <2>3. newest <= m
    BY <1>m, <2>1, <2>2
  <2>4. Serialized(newest) <= checkpoint'
    BY <1>0, <1>m, <2>2, <2>3, SerializedProperties
  <2>5. checkpoint' >= Serialized(newest)
    BY <1>m, <2>2, <2>4, SerializedProperties
  <2> QED
    BY <1>0, <1>m, <2>5 DEF NewestHandled, ExitZeroMeansHandled
<1>7. QueuedNewer'
  <2>1. CASE pc' = "down"
    BY <1>0, <2>1, EmptySeq DEF QueuedNewer
  <2>2. CASE pc' # "down"
    BY <1>0, <2>2 DEF IInv, QueuedNewer, NewWritten, NewTags
  <2> QED
    BY <2>1, <2>2
<1> QED
  BY <1>1, <1>2, <1>3, <1>4, <1>5, <1>6, <1>7 DEF IInv
-----------------------------------------------------------------------------
(* The theorems.                                                           *)

LEMMA NextIInv == IInv /\ [Next]_vars => IInv'
<1> SUFFICES ASSUME IInv, [Next]_vars PROVE IInv'
  OBVIOUS
<1>1. CASE FeedGains
  BY <1>1, FeedKeepsIInv DEF FeedGains, IInv, TypeOK
<1>2. CASE FeedExpires
  BY <1>2, FeedKeepsIInv DEF FeedExpires, IInv, TypeOK
<1>3. CASE Start \/ StartFails
  BY <1>3, StartKeepsIInv, StartFailsKeepsIInv
<1>4. CASE Crash
  BY <1>4, CrashGivesUp, GivesUpKeepsIInv
<1>5. CASE Progress
  BY <1>5, FetchKeepsIInv, PollFailsGivesUp, GivesUpKeepsIInv, PublishKeepsIInv,
     FinishPollKeepsIInv, SaveKeepsIInv, WakeKeepsIInv DEF Progress
<1>6. CASE FetchFails \/ PublishTimesOut \/ PublishRejected \/ SaveFails
  BY <1>6, PollFailsGivesUp, PublishTimesOutGivesUp, PublishRejectedGivesUp, GivesUpKeepsIInv
<1>7. CASE BackgroundDelivery
  BY <1>7, BackgroundKeepsIInv
<1>8. CASE UNCHANGED vars
  <2>1. feed' \subseteq TimeTags
    BY <1>8 DEF vars, IInv, TypeOK
  <2> QED
    BY <1>8, <2>1, FeedKeepsIInv DEF vars
<1> QED
  BY <1>1, <1>2, <1>3, <1>4, <1>5, <1>6, <1>7, <1>8 DEF Next

\* What the poller keeps true of its memory, the topic and the checkpoint.
THEOREM PollerInvariant == Spec => []IInv
  BY InitIInv, NextIInv, PTL DEF Spec

\* Every variable has its type.
THEOREM PollerTypeCorrect == Spec => []TypeOK
<1>1. IInv => TypeOK
  BY DEF IInv
<1> QED
  BY <1>1, PollerInvariant, PTL

\* The checkpoint never runs ahead of Kafka (live_poller.py:131-135, 237).
THEOREM CheckpointOnTopic == Spec => []CheckpointIsOnTopic
<1>1. IInv => CheckpointIsOnTopic
  BY DEF IInv, OnTopic
<1> QED
  BY <1>1, PollerInvariant, PTL

\* The checkpoint never goes back, over any number of polls, failures, crashes and
\* restarts (live_poller.py:177, 212).
THEOREM CheckpointNeverGoesBack == Spec => CheckpointMonotone
<1>1. ASSUME IInv, [Next]_vars, checkpoint # None
      PROVE  checkpoint' # None /\ checkpoint' >= checkpoint
  <2>0. checkpoint \in Int /\ None \notin Int
    BY <1>1, WrittenProperties DEF IInv, TypeOK, Written
  <2>1. CASE Save
    <3>1. pc # "down" /\ seen # {} /\ checkpoint' = Serialized(Max(seen))
      BY <1>1, <2>1 DEF Save, NewestTag, IInv, MemorySound
    <3>2. PICK x \in seen : checkpoint <= x
      BY <1>1, <3>1 DEF IInv, CheckpointBelow
    <3>3. x \in Int /\ Max(seen) \in Int /\ x <= Max(seen)
      BY <1>1, <3>1, MaxSeen DEF IInv
    <3>4. checkpoint <= Max(seen)
      BY <2>0, <3>2, <3>3
    <3>5. Serialized(checkpoint) <= Serialized(Max(seen)) /\ Serialized(Max(seen)) \in Int
      BY <2>0, <3>3, <3>4, SerializedProperties
    <3>6. Serialized(checkpoint) = checkpoint
      BY <1>1 DEF IInv, CheckpointBelow
    <3> QED
      BY <2>0, <3>1, <3>5, <3>6
  <2>2. CASE ~ Save
    <3>1. checkpoint' = checkpoint
      BY <1>1, <2>2 DEF Next, vars, Progress, FeedGains, FeedExpires, Start, StartFails,
         Crash, Fetch, NoValidRows, Publish, FinishPoll, Wake, FetchFails,
         PublishTimesOut, PublishRejected, SaveFails, BackgroundDelivery
    <3> QED
      BY <1>1, <2>0, <3>1
  <2> QED
    BY <2>1, <2>2
<1>2. IInv /\ [Next]_vars =>
        [checkpoint # None => checkpoint' # None /\ checkpoint' >= checkpoint]_vars
  BY <1>1
<1> QED
  BY <1>2, PollerInvariant, PTL DEF Spec, CheckpointMonotone

\* What a running process has not seen is above its watermark: one that has seen
\* nothing has no checkpoint to start from.
LEMMA NewTagsAboveWatermark ==
  ASSUME IInv, pc # "down", NEW t \in NewTags, Watermark # None
  PROVE  t > Watermark
<1>1. t \in Int /\ \A x \in seen : x < t
  BY WrittenProperties DEF NewTags
<1>2. seen # {}
  BY DEF Watermark, IInv, CheckpointBelow
<1>3. Watermark = Max(seen) /\ Max(seen) \in seen /\ Max(seen) \in Int
  BY <1>2, MaxSeen DEF Watermark, IInv
<1> QED
  BY <1>1, <1>3

\* No gap: a tag that a later poll selected is confirmed and on the topic, or above
\* the watermark and so selected again, over failures, crashes and restarts, unless
\* its process ended before any checkpoint was saved (live_poller.py:122-133,
\* 187-189).
THEOREM NoSelectedTagIsLost == Spec => []SelectedNotLost
<1>1. ASSUME IInv PROVE SelectedNotLost
  <2> SUFFICES ASSUME NEW t \in offered, t \notin acked, t \notin abandoned,
                      ~ (pc = "down" /\ checkpoint = None)
               PROVE  Watermark # None /\ t > Watermark
    BY <1>1 DEF SelectedNotLost, IInv, OnTopic
  <2>1. /\ \A x \in seen : x < t
        /\ checkpoint # None => checkpoint < t
        /\ pc # "down" => seen # {}
        /\ t \in Int
    BY <1>1, WrittenProperties DEF IInv, OfferedSound, TypeOK
  <2>2. CASE seen # {}
    <3>1. /\ Watermark = Max(seen) /\ Max(seen) \in seen /\ Max(seen) \in Int
          /\ None \notin Int
      BY <1>1, <2>2, MaxSeen, PollerAssumption DEF Watermark, IInv
    <3> QED
      BY <2>1, <3>1
  <2>3. CASE seen = {}
    <3>1. Watermark = checkpoint /\ checkpoint # None /\ checkpoint \in Int
      BY <1>1, <2>1, <2>3, WrittenProperties DEF Watermark, IInv, TypeOK, Written
    <3> QED
      BY <2>1, <3>1
  <2> QED
    BY <2>2, <2>3
<1> QED
  BY <1>1, PollerInvariant, PTL

\* The steps that put something on the topic put there what is newer than all seen.
LEMMA TopicStep ==
  ASSUME IInv, [Next]_vars, topic' # topic
  PROVE  pc # "down" /\ \E s \in Seq(NewWritten) : topic' = topic \o s
<1>1. Crash \/ PublishTimesOut \/ PublishRejected \/ Publish \/ BackgroundDelivery
  BY DEF Next, vars, kafka, Progress, FeedGains, FeedExpires, Start, StartFails, Fetch,
     NoValidRows, FinishPoll, Save, Wake, FetchFails, SaveFails
<1>2. CASE Crash \/ PublishTimesOut \/ PublishRejected
  BY <1>2, CrashGivesUp, PublishTimesOutGivesUp, PublishRejectedGivesUp DEF GivesUp
<1>3. CASE Publish
  BY <1>3, InFlightNewer DEF Publish
<1>4. CASE BackgroundDelivery
  <2>1. queued \in Seq(NewWritten) /\ queued # <<>> /\ topic' = Append(topic, Head(queued))
    BY <1>4 DEF BackgroundDelivery, IInv, QueuedNewer
  <2>2. Head(queued) \in NewWritten /\ topic \in Seq(Written)
    BY <2>1, HeadOrTail DEF IInv, TypeOK, Written
  <2>3. Head(queued) \in Written
    BY <2>2, NewIsWritten
  <2>4. topic' = topic \o <<Head(queued)>>
    BY <2>1, <2>2, <2>3, AppendIsConcat
  <2>5. <<Head(queued)>> \in Seq(NewWritten)
    BY <2>2
  <2> QED
    BY <2>1, <2>4, <2>5 DEF IInv, MemorySound
<1> QED
  BY <1>1, <1>2, <1>3, <1>4

\* Whatever comes to stand on the topic is a tag above the watermark: what a process
\* has confirmed and what a checkpoint covers is never published again, over any
\* failures, crashes and restarts (live_poller.py:122-133; kafka_io.py:157-188).
THEOREM OnlyNewerIsPublished == Spec => OnlyNewerPublished
<1>1. ASSUME IInv, [Next]_vars, NEW i \in DOMAIN topic' \ DOMAIN topic
      PROVE  \E t \in TimeTags :
                topic'[i] = Serialized(t) /\ (Watermark # None => t > Watermark)
  <2>1. topic' # topic
    BY <1>1
  <2>2. PICK s \in Seq(NewWritten) : topic' = topic \o s
    BY <1>1, <2>1, TopicStep
  <2>3. s \in Seq(Written) /\ topic \in Seq(Written)
    BY <1>1, <2>2, NewIsWritten DEF IInv, TypeOK, Written
  <2>4. /\ Len(topic) \in Nat /\ Len(s) \in Nat
        /\ DOMAIN topic = 1..Len(topic) /\ DOMAIN topic' = 1..(Len(topic) + Len(s))
        /\ \A k \in 1..Len(s) : (topic \o s)[Len(topic) + k] = s[k] /\ s[k] \in NewWritten
    BY <2>2, <2>3, ConcatProperties, LenProperties, ElementOfSeq
  <2>5. i - Len(topic) \in 1..Len(s) /\ Len(topic) + (i - Len(topic)) = i
    BY <1>1, <2>4
  <2>6. topic'[i] \in NewWritten
    BY <2>2, <2>4, <2>5
  <2>7. PICK t \in NewTags : topic'[i] = Serialized(t)
    BY <2>6 DEF NewWritten
  <2>8. pc # "down" /\ t \in TimeTags
    BY <1>1, <2>1, TopicStep DEF NewTags
  <2> QED
    BY <1>1, <2>7, <2>8, NewTagsAboveWatermark
<1>2. IInv /\ [Next]_vars =>
        [\A i \in DOMAIN topic' \ DOMAIN topic :
           \E t \in TimeTags :
              topic'[i] = Serialized(t) /\ (Watermark # None => t > Watermark)]_vars
  BY <1>1
<1> QED
  BY <1>2, PollerInvariant, PTL DEF Spec, OnlyNewerPublished

\* Exit code 0 of --once: the checkpoint covers the newest row of the response
\* (live_poller.py:237-243).
THEOREM ExitZeroIsHandled == Spec => []ExitZeroMeansHandled
<1>1. IInv => ExitZeroMeansHandled
  BY DEF IInv, NewestHandled
<1> QED
  BY <1>1, PollerInvariant, PTL

=============================================================================
