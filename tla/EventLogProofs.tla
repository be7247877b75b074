--------------------------- MODULE EventLogProofs ---------------------------
(***************************************************************************)
(* Proofs about EventLog, for any number of producers, clients and events    *)
(* and any size of the queue, the buffers and the window.                    *)
(*                                                                         *)
(* That the worker strands nobody and that nothing is delivered before it is *)
(* stored rest on PersistInv: an event belongs to one submitter, and a        *)
(* submitter that waits without an answer finds its event in the queue or in  *)
(* the worker's hands.  That a connection neither repeats an event nor has a  *)
(* hole rests on DeliverInv: what each event still has to go through on its   *)
(* way to each client.  The read of the log enters through the lemmas on      *)
(* InStampOrder, Window and After.                                           *)
(***************************************************************************)
EXTENDS EventLog, FiniteSetTheorems, SequenceTheorems, TLAPS

\* An event is one submitter's alone.
EventsOwned ==
    /\ \A p \in Producer : ppc[p] # "idle" => pev[p] \in 1 .. clock
    /\ \A p, q \in Producer :
          p # q /\ ppc[p] # "idle" /\ ppc[q] # "idle" => pev[p] # pev[q]

InHand(e) == worker = e \/ e \in ToSet(queue)

\* What the worker has or will take is waited for and neither stored nor answered,
\* and who waits without an answer is served.
JobsWaited ==
    /\ IsInjective(queue) /\ worker \notin ToSet(queue)
    /\ \A e \in Event : InHand(e) =>
          /\ answer[e] = "none" /\ e \notin db
          /\ \E p \in Producer : ppc[p] = "waiting" /\ pev[p] = e
    /\ \A p \in Producer :
          /\ ppc[p] = "waiting" /\ answer[pev[p]] = "none" => InHand(pev[p])
          /\ ppc[p] \in {"locked", "sync"} =>
                answer[pev[p]] = "none" /\ pev[p] \notin db

\* An answer says what happened, and what is sent is stored.
AnswersTrue ==
    /\ \A e \in Event :
          /\ answer[e] = "ok" => e \in db
          /\ answer[e] = "failed" => e \notin db
          /\ e > clock => answer[e] = "none"
    /\ \A p \in Producer : ppc[p] \in {"stored", "sending"} => pev[p] \in db

\* The queue is not taken away from a submitter that holds the read lock, and the
\* worker leaves an empty one.
ShutdownOrderly ==
    /\ exited => ~open /\ queue = <<>> /\ worker = Idle
    /\ \A p \in Producer : ppc[p] = "locked" => open

PersistRest == EventsOwned /\ JobsWaited /\ AnswersTrue /\ ShutdownOrderly

PersistInv == TypeOK /\ PersistRest

\* The part of the connections' types TypeOK leaves out.
ConnType ==
    /\ buffer \in [Client -> Seq(Event)] /\ got \in [Client -> Seq(Event)]
    /\ replayed \in [Client -> SUBSET Event] /\ missing \in [Client -> SUBSET Event]
    /\ overflow \in [Client -> BOOLEAN]
    /\ base \in [Client -> Event \cup {Idle}] /\ cursor \in [Client -> Event \cup {Idle}]

\* Sends go to connections that are registered, and a connection's record starts
\* with its replay.
ConnShape ==
    /\ \A p \in Producer :
          targets[p] \subseteq Registered /\ (ppc[p] # "sending" => targets[p] = {})
    /\ \A c \in Client :
          /\ cpc[c] = "registered" => 
                got[c] = <<>> /\ base[c] = cursor[c] /\ mode[c] = "fresh"
          /\ replayed[c] \subseteq ToSet(got[c])

\* An event that a producer has not yet sent to the client.
Unsent(p, c) ==
    ppc[p] \in {"locked", "waiting", "sync", "stored"} \/ c \in targets[p]

\* Each event comes to a connection once by broadcast, and if it was replayed
\* too the connection knows.
OnceAt(c) ==
    /\ IsInjective(got[c]) /\ IsInjective(buffer[c])
    /\ ToSet(buffer[c]) \cap ToSet(got[c]) \subseteq replayed[c]
    /\ \A p \in Producer : Unsent(p, c) =>
          /\ pev[p] \notin ToSet(buffer[c])
          /\ pev[p] \in ToSet(got[c]) => pev[p] \in replayed[c]

ComesOnce == \A c \in Client : OnceAt(c)

\* ConnectionComplete from the end of the replay on.
Covered(e, c) ==
    e \in ToSet(got[c]) \cup ToSet(buffer[c]) \cup missing[c] \/ OnItsWay(e, c)

NoHole ==
    \A c \in Client :
        cpc[c] \in {"replayed", "live"} /\ mode[c] = "replayed" /\ ~overflow[c] =>
            \A e \in db : e > base[c] => Covered(e, c)

DeliverInv ==
    ConnType /\ ConnShape /\ DeliveredIsPersisted /\ ComesOnce /\ NoHole

-----------------------------------------------------------------------------
(* The read of the log.                                                     *)

Ascending(s) == \A i, j \in 1 .. Len(s) : i < j => s[i] < s[j]

\* Reading the log in stamp order lists every stored event, once, in ascending
\* order.
LEMMA LogIsListed ==
    ASSUME NEW S \in SUBSET Nat, IsFiniteSet(S)
    PROVE  /\ InStampOrder(S) \in Seq(S)
           /\ Ascending(InStampOrder(S))
           /\ ToSet(InStampOrder(S)) = S
  <1> DEFINE upTo(e) == {x \in S : x <= e}
             rank == [e \in S |-> Cardinality(upTo(e))]
             n == Cardinality(S)
             list == InStampOrder(S)
  <1>1. n \in Nat /\ IsFiniteSet(1 .. n) /\ Cardinality(1 .. n) = n
      BY FS_CardinalityType, FS_Interval
  <1>2. \A e \in S : /\ IsFiniteSet(upTo(e)) /\ Cardinality(upTo(e)) \in Nat
                     /\ Cardinality(upTo(e)) <= n /\ Cardinality(upTo(e)) # 0
      <2> TAKE e \in S
      <2>1. upTo(e) \in SUBSET S /\ upTo(e) # {}
          OBVIOUS
      <2> HIDE DEF upTo
      <2> QED  BY <2>1, FS_Subset, FS_CardinalityType, FS_EmptySet
  <1>3. rank \in [S -> 1 .. n]
      BY <1>1, <1>2
  <1>4. \A a, b \in S : a < b => rank[a] < rank[b]
      <2> SUFFICES ASSUME NEW a \in S, NEW b \in S, a < b PROVE rank[a] < rank[b]
          OBVIOUS
      <2>1. a \in Nat /\ b \in Nat /\ \A x \in S : x \in Nat
          OBVIOUS
      <2>2. \A x \in S : x <= a => x <= b
          BY <2>1
      <2>3. b <= b /\ ~(b <= a)
          BY <2>1
      <2>4. upTo(a) \in SUBSET upTo(b) /\ b \in upTo(b) /\ b \notin upTo(a)
          BY <2>2, <2>3
      <2>5. Cardinality(upTo(a)) <= Cardinality(upTo(b))
            /\ Cardinality(upTo(a)) # Cardinality(upTo(b))
          <3> HIDE DEF upTo
          <3> QED  BY <2>4, <1>2, FS_Subset
      <2> QED  BY <2>5, <1>2
  <1>5. rank \in Injection(S, 1 .. n)
      <2>1. \A a, b \in S : rank[a] = rank[b] => a = b
          <3> HIDE DEF rank
          <3> QED  BY <1>3, <1>4
      <2> QED  BY <2>1, <1>3 DEF Injection, IsInjective
  <1>6. rank \in Surjection(S, 1 .. n)
      BY <1>1, <1>5, FS_Injection
  <1>7. \A i \in 1 .. n : list[i] \in S /\ rank[list[i]] = i
      <2> TAKE i \in 1 .. n
      <2>1. \E e \in S : rank[e] = i
          <3> HIDE DEF rank
          <3> QED  BY <1>6 DEF Surjection
      <2>2. list[i] = CHOOSE e \in S : Cardinality(upTo(e)) = i
          BY DEF InStampOrder
      <2> QED  BY <2>1, <2>2
  <1>8. DOMAIN list = 1 .. n /\ list \in [1 .. n -> S]
      BY <1>7 DEF InStampOrder
  <1>9. list \in Seq(S) /\ Len(list) = n
      BY <1>1, <1>8, SeqDef
  <1>10. Ascending(list)
      <2> SUFFICES ASSUME NEW i \in 1 .. n, NEW j \in 1 .. n, i < j
                   PROVE  list[i] < list[j]
          BY <1>9 DEF Ascending
      <2>1. /\ list[i] \in Nat /\ rank[list[i]] = i /\ list[i] \in S
            /\ list[j] \in Nat /\ rank[list[j]] = j /\ list[j] \in S
          BY <1>7
      <2> HIDE DEF rank, list
      <2>2. CASE list[j] < list[i]
          BY <2>1, <2>2, <1>4
      <2>3. CASE list[j] = list[i]
          BY <2>1, <2>3
      <2> QED  BY <2>1, <2>2, <2>3
  <1>11. \A e \in S : \E i \in 1 .. n : list[i] = e
      <2> TAKE e \in S
      <2>1. rank[e] \in 1 .. n
          BY <1>3
      <2>2. rank[list[rank[e]]] = rank[e] /\ list[rank[e]] \in S
          BY <2>1, <1>7
      <2> HIDE DEF rank, list
      <2>3. list[rank[e]] = e
          BY <2>2, <1>3, <1>5 DEF Injection, IsInjective
      <2> QED  BY <2>1, <2>3
  <1>12. ToSet(list) = S
      <2> HIDE DEF rank, list, n
      <2>1. \A x \in ToSet(list) : x \in S
          BY <1>7, <1>8 DEF ToSet
      <2>2. \A x \in S : x \in ToSet(list)
          BY <1>8, <1>11 DEF ToSet
      <2> QED  BY <2>1, <2>2
  <1> QED  BY <1>9, <1>10, <1>12

\* A window of the log is a part of it, still in ascending order.
LEMMA WindowAscends ==
    ASSUME NEW S \in SUBSET Nat, IsFiniteSet(S)
    PROVE  /\ Window(S) \in Seq(S)
           /\ Ascending(Window(S))
  <1> DEFINE all == InStampOrder(S)
             head == SubSeq(all, 1, WindowHead)
             tail == SubSeq(all, Len(all) - WindowTail + 1, Len(all))
  <1>1. all \in Seq(S) /\ Ascending(all) /\ Len(all) \in Nat
        /\ \A i \in 1 .. Len(all) : all[i] \in S /\ all[i] \in Nat
      BY LogIsListed, LenProperties, ElementOfSeq
  <1>2. WindowHead \in Nat \ {0} /\ WindowTail \in Nat \ {0}
      BY EventLogAssumption
  <1>3. CASE Len(all) <= WindowHead + WindowTail
      BY <1>1, <1>3 DEF Window
  <1>4. CASE ~(Len(all) <= WindowHead + WindowTail)
      <2> HIDE DEF all
      <2>1. Window(S) = head \o tail
          BY <1>4 DEF Window, all
      <2>2. /\ head \in Seq(S) /\ Len(head) = WindowHead
            /\ \A i \in 1 .. WindowHead : head[i] = all[i]
          <3>1. \A i \in 1 .. WindowHead : all[i] \in S
              BY <1>1, <1>2, <1>4
          <3>2. /\ head \in Seq(S)
                /\ Len(head) = IF 1 <= WindowHead THEN WindowHead - 1 + 1 ELSE 0
                /\ \A i \in 1 .. WindowHead - 1 + 1 : head[i] = all[1 + i - 1]
              BY <3>1, <1>2, SubSeqProperties
          <3> QED  BY <3>2, <1>2
      <2>3. /\ tail \in Seq(S) /\ Len(tail) = WindowTail
            /\ \A i \in 1 .. WindowTail : tail[i] = all[Len(all) - WindowTail + i]
          <3> DEFINE m == Len(all) - WindowTail + 1
          <3>1. m \in Int /\ Len(all) \in Int /\ \A i \in m .. Len(all) : all[i] \in S
              BY <1>1, <1>2, <1>4
          <3>2. /\ tail \in Seq(S)
                /\ Len(tail) = IF m <= Len(all) THEN Len(all) - m + 1 ELSE 0
                /\ \A i \in 1 .. Len(all) - m + 1 : tail[i] = all[m + i - 1]
              BY <3>1, SubSeqProperties
          <3> QED  BY <3>2, <1>1, <1>2
      <2> HIDE DEF head, tail
      <2>4. /\ head \o tail \in Seq(S) /\ Len(head \o tail) = WindowHead + WindowTail
            /\ \A i \in 1 .. WindowHead + WindowTail :
                  (head \o tail)[i] = IF i <= WindowHead THEN head[i]
                                      ELSE tail[i - WindowHead]
          BY <2>2, <2>3, ConcatProperties
      <2>5. ASSUME NEW i \in 1 .. WindowHead + WindowTail,
                   NEW j \in 1 .. WindowHead + WindowTail, i < j
            PROVE  (head \o tail)[i] < (head \o tail)[j]
          <3> DEFINE at(k) == IF k <= WindowHead THEN k
                              ELSE Len(all) - WindowTail + (k - WindowHead)
          <3>1. \A k \in 1 .. WindowHead + WindowTail :
                    (head \o tail)[k] = all[at(k)] /\ at(k) \in 1 .. Len(all)
              BY <1>1, <1>2, <1>4, <2>2, <2>3, <2>4
          <3>2. at(i) < at(j)
              BY <1>1, <1>2, <1>4, <2>5
          <3> HIDE DEF at
          <3> QED  BY <1>1, <3>1, <3>2 DEF Ascending
      <2> QED  BY <2>1, <2>4, <2>5, <1>2 DEF Ascending
  <1> QED  BY <1>3, <1>4

\* What follows the cursor in an ascending list is exactly what is later.
LEMMA AfterIsLater ==
    ASSUME NEW S \in SUBSET Nat, NEW m \in Seq(S), Ascending(m), NEW e \in ToSet(m)
    PROVE  /\ After(m, e) \in Seq(S)
           /\ Ascending(After(m, e))
           /\ ToSet(After(m, e)) = {x \in ToSet(m) : x > e}
  <1>0. Len(m) \in Nat /\ DOMAIN m = 1 .. Len(m)
        /\ \A j \in 1 .. Len(m) : m[j] \in S /\ m[j] \in Nat
      BY LenProperties, ElementOfSeq
  <1> DEFINE i == CHOOSE j \in DOMAIN m : m[j] = e
             a == After(m, e)
             k == Len(m) - i
  <1>1. i \in 1 .. Len(m) /\ m[i] = e
      BY <1>0 DEF ToSet
  <1> HIDE DEF i
  <1>2. a = SubSeq(m, i + 1, Len(m))
      BY DEF After, i
  <1>3. \A j \in i + 1 .. Len(m) : m[j] \in S
      BY <1>0, <1>1
  <1>4. /\ a \in Seq(S) 
        /\ Len(a) = IF i + 1 <= Len(m) THEN Len(m) - (i + 1) + 1 ELSE 0
        /\ \A j \in 1 .. Len(m) - (i + 1) + 1 : a[j] = m[(i + 1) + j - 1]
      BY <1>0, <1>1, <1>2, <1>3, SubSeqProperties
  <1> HIDE DEF a
  <1>5. k \in Nat /\ Len(a) = k /\ \A j \in 1 .. k : a[j] = m[i + j] /\ i + j \in 1 .. Len(m)
      <2>0. k \in Nat /\ Len(m) - (i + 1) + 1 = k /\ (i + 1 <= Len(m) <=> k # 0)
          <3>1. Len(m) \in Nat /\ i \in 1 .. Len(m)
              BY <1>0, <1>1
          <3> HIDE DEF k
          <3>2. ASSUME NEW l \in Nat, NEW h \in 1 .. l, k = l - h
                PROVE  k \in Nat /\ l - (h + 1) + 1 = k /\ (h + 1 <= l <=> k # 0)
              BY <3>2
          <3> QED  BY <3>1, <3>2 DEF k
      <2> HIDE DEF k
      <2>1. k \in Nat /\ Len(m) - (i + 1) + 1 = k /\ Len(a) = k
          BY <2>0, <1>4
      <2> USE DEF k
      <2>2. ASSUME NEW j \in 1 .. k PROVE a[j] = m[i + j] /\ i + j \in 1 .. Len(m)
          <3>1. (i + 1) + j - 1 = i + j /\ i + j \in 1 .. Len(m)
              BY <1>0, <1>1, <2>1
          <3>2. a[j] = m[(i + 1) + j - 1]
              BY <1>4, <2>1
          <3> QED  BY <3>1, <3>2
      <2> QED  BY <2>1, <2>2
  <1>6. DOMAIN a = 1 .. k
      BY <1>4, <1>5, LenProperties
  <1> HIDE DEF a, k
  <1>7. Ascending(a)
      BY <1>0, <1>1, <1>5 DEF Ascending
  <1>8. \A x \in ToSet(a) : x \in ToSet(m) /\ x > e
      <2> TAKE x \in ToSet(a)
      <2>1. PICK j \in 1 .. k : a[j] = x
          BY <1>6 DEF ToSet
      <2>2. x = m[i + j] /\ i + j \in 1 .. Len(m) /\ i < i + j
          BY <2>1, <1>1, <1>5
      <2> QED  BY <2>2, <1>0, <1>1 DEF Ascending, ToSet
  <1>9. ASSUME NEW x \in ToSet(m), x > e PROVE x \in ToSet(a)
      <2>1. PICK j \in 1 .. Len(m) : m[j] = x
          BY <1>0 DEF ToSet
      <2>2. j > i
          <3>1. CASE j = i  BY <3>1, <2>1, <1>1, <1>0, <1>9
          <3>2. CASE j < i  BY <3>2, <2>1, <1>1, <1>0, <1>9 DEF Ascending
          <3> QED  BY <3>1, <3>2, <1>0, <1>1
      <2>3. j - i \in 1 .. k /\ i + (j - i) = j
          BY <2>2, <1>0, <1>1 DEF k
      <2>4. a[j - i] = x
          BY <2>3, <2>1, <1>5
      <2> QED  BY <2>3, <2>4, <1>6 DEF ToSet
  <1>10. ToSet(a) = {x \in ToSet(m) : x > e}
      BY <1>8, <1>9
  <1> QED  BY <1>4, <1>7, <1>10 DEF a

-----------------------------------------------------------------------------
(* Sequences as sets.                                                       *)

\* Appending adds one element, and keeps a sequence without repetitions so if the
\* element is new.
LEMMA SetOfAppend ==
    ASSUME NEW S, NEW s \in Seq(S), NEW e \in S
    PROVE  /\ ToSet(Append(s, e)) = ToSet(s) \cup {e}
           /\ Append(s, e) \in Seq(S) /\ Len(Append(s, e)) = Len(s) + 1
           /\ IsInjective(s) /\ e \notin ToSet(s) => IsInjective(Append(s, e))
  <1> DEFINE t == Append(s, e)
  <1>1. /\ t \in Seq(S) /\ Len(t) = Len(s) + 1 /\ Len(s) \in Nat
        /\ DOMAIN s = 1 .. Len(s) /\ DOMAIN t = 1 .. Len(t)
        /\ \A i \in 1 .. Len(s) : t[i] = s[i]
        /\ t[Len(s) + 1] = e
      BY AppendProperties, LenProperties
  <1> HIDE DEF t
  <1>2. \A x \in ToSet(t) : x \in ToSet(s) \cup {e}
      BY <1>1 DEF ToSet
  <1>3. \A x \in ToSet(s) \cup {e} : x \in ToSet(t)
      BY <1>1 DEF ToSet
  <1>4. IsInjective(s) /\ e \notin ToSet(s) => IsInjective(t)
      BY <1>1 DEF ToSet, IsInjective
  <1>5. ToSet(t) = ToSet(s) \cup {e}
      BY <1>2, <1>3
  <1> QED  BY <1>1, <1>4, <1>5 DEF t

\* Taking the head removes one element, for good if there are no repetitions.
LEMMA SetOfTail ==
    ASSUME NEW S, NEW s \in Seq(S), s # <<>>
    PROVE  /\ ToSet(s) = {Head(s)} \cup ToSet(Tail(s))
           /\ Head(s) \in S /\ Tail(s) \in Seq(S) /\ Len(Tail(s)) = Len(s) - 1
           /\ IsInjective(s) => IsInjective(Tail(s)) /\ Head(s) \notin ToSet(Tail(s))
  <1> DEFINE t == Tail(s)
  <1>1. /\ t \in Seq(S) /\ Len(t) = Len(s) - 1 /\ Len(s) \in Nat \ {0}
        /\ DOMAIN s = 1 .. Len(s) /\ DOMAIN t = 1 .. Len(t)
        /\ \A i \in 1 .. Len(t) : t[i] = s[i + 1]
        /\ Head(s) = s[1] /\ Head(s) \in S
      BY HeadTailProperties, LenProperties, EmptySeq
  <1> HIDE DEF t
  <1>2. \A x \in ToSet(t) : x \in ToSet(s)
      BY <1>1 DEF ToSet
  <1>3. \A x \in ToSet(s) : x = Head(s) \/ x \in ToSet(t)
      <2> SUFFICES ASSUME NEW i \in 1 .. Len(s), i # 1 PROVE s[i] \in ToSet(t)
          BY <1>1 DEF ToSet
      <2>1. i - 1 \in 1 .. Len(t) /\ (i - 1) + 1 = i
          BY <1>1
      <2> QED  BY <1>1, <2>1 DEF ToSet
  <1>4. Head(s) \in ToSet(s)
      BY <1>1 DEF ToSet
  <1>5. ASSUME IsInjective(s) PROVE IsInjective(t) /\ Head(s) \notin ToSet(t)
      <2>1. \A i \in 1 .. Len(t) : i + 1 \in 1 .. Len(s) /\ i + 1 # 1
          BY <1>1
      <2>2. \A i, j \in 1 .. Len(t) : t[i] = t[j] => i + 1 = j + 1
          BY <1>1, <1>5, <2>1 DEF IsInjective
      <2>3. \A i \in 1 .. Len(t) : t[i] # Head(s)
          BY <1>1, <1>5, <2>1 DEF IsInjective
      <2> QED  BY <1>1, <2>2, <2>3 DEF IsInjective, ToSet
  <1>6. ToSet(s) = {Head(s)} \cup ToSet(t)
      BY <1>2, <1>3, <1>4
  <1> QED  BY <1>1, <1>5, <1>6 DEF t

\* Elements of an empty sequence and of a sequence of S.
LEMMA SetOfSeq ==
    /\ ToSet(<<>>) = {} /\ IsInjective(<<>>)
    /\ \A S : \A s \in Seq(S) : ToSet(s) \subseteq S /\ (ToSet(s) = {} => s = <<>>)
  <1>1. ToSet(<<>>) = {} /\ IsInjective(<<>>)
      BY DEF ToSet, IsInjective
  <1>2. ASSUME NEW S, NEW s \in Seq(S)
        PROVE  ToSet(s) \subseteq S /\ (ToSet(s) = {} => s = <<>>)
      <2>1. DOMAIN s = 1 .. Len(s) /\ Len(s) \in Nat
            /\ \A i \in 1 .. Len(s) : s[i] \in S
          BY LenProperties, ElementOfSeq
      <2>2. s # <<>> => 1 \in 1 .. Len(s)
          BY <2>1, EmptySeq
      <2> QED  BY <2>1, <2>2 DEF ToSet
  <1> QED  BY <1>1, <1>2

-----------------------------------------------------------------------------
(* Steps of the submitters and of the worker.                                *)

\* Every step keeps the types.
LEMMA TypeStep ==
    ASSUME TypeOK, EventsOwned, JobsWaited, ConnType, [Next]_vars
    PROVE  TypeOK'
  <1> USE EventLogAssumption DEF TypeOK, Event, Idle,
      workerVars, producerVars, connVars, browserVars, EventsOwned, ConnType
  <1>1. ASSUME NEW p \in Producer, Submit(p) PROVE TypeOK'
      BY <1>1 DEF Submit, Goto
  <1>2. ASSUME NEW p \in Producer, Enqueue(p) PROVE TypeOK'
      BY <1>2, SetOfAppend DEF Enqueue, Goto
  <1>3. ASSUME NEW p \in Producer, ContextDone(p) PROVE TypeOK'
      BY <1>3 DEF ContextDone, Goto
  <1>4. ASSUME NEW p \in Producer, Receive(p) PROVE TypeOK'
      BY <1>4 DEF Receive, Goto
  <1>5. ASSUME NEW p \in Producer, SaveSync(p) PROVE TypeOK'
      BY <1>5 DEF SaveSync, Goto, Fault
  <1>6. ASSUME NEW p \in Producer, Broadcast(p) PROVE TypeOK'
      BY <1>6, TRUE DEF Broadcast, Goto, Registered
  <1>7. ASSUME NEW p \in Producer, BroadcastEnds(p) PROVE TypeOK'
      BY <1>7 DEF BroadcastEnds, Goto
  <1>8. ASSUME NEW p \in Producer, NEW c \in Client, SendTo(p, c) PROVE TypeOK'
      <2>1. \A s \in Seq(Event), e \in Event : Len(Append(s, e)) = Len(s) + 1
        BY AppendProperties
      <2>2. pev[p] \in Event /\ buffer[c] \in Seq(Event) /\ Len(buffer[c]) \in Nat
        BY <1>8, LenProperties DEF SendTo
      <2>3. Len(buffer'[c]) <= BufferSize
        BY <1>8, <2>1, <2>2 DEF SendTo
      <2> QED  BY <1>8, <2>3 DEF SendTo
  <1>9. ASSUME WorkerTake PROVE TypeOK'
      BY <1>9, SetOfTail DEF WorkerTake
  <1>10. ASSUME RunPersistJob PROVE TypeOK'
      <2>1. worker \in Event /\ InHand(worker)
        BY <1>10 DEF RunPersistJob, InHand
      <2>2. PICK p \in Producer : ppc[p] = "waiting" /\ pev[p] = worker
        BY <2>1 DEF JobsWaited
      <2>3. worker \in 1 .. clock
        BY <2>2
      <2> QED  BY <1>10, <2>1, <2>3 DEF RunPersistJob, Fault
  <1>11. ASSUME WorkerExit PROVE TypeOK'
      BY <1>11 DEF WorkerExit
  <1>12. ASSUME Shutdown PROVE TypeOK'
      BY <1>12 DEF Shutdown
  <1>13. ASSUME NEW c \in Client, Register(c) PROVE TypeOK'
      BY <1>13 DEF Register
  <1>14. ASSUME NEW c \in Client, Replay(c) PROVE TypeOK'
      <2>1. mode' \in [Client -> {"fresh", "replayed", "resync", "failed"}]
        BY <1>14 DEF Replay
      <2> QED  BY <1>14, <2>1 DEF Replay
  <1>15. ASSUME NEW c \in Client, Stream(c) PROVE TypeOK'
      BY <1>15 DEF Stream
  <1>16. ASSUME NEW c \in Client, Deliver(c) PROVE TypeOK'
      <2>1. Len(Tail(buffer[c])) = Len(buffer[c]) - 1 /\ Len(buffer[c]) \in Nat
        BY <1>16, HeadTailProperties, LenProperties DEF Deliver
      <2>2. Len(buffer'[c]) <= BufferSize
        BY <1>16, <2>1 DEF Deliver
      <2> QED  BY <1>16, <2>2 DEF Deliver
  <1>17. ASSUME NEW gone, Leave(gone) PROVE TypeOK'
      BY <1>17 DEF Leave
  <1>18. CASE UNCHANGED vars
      BY <1>18 DEF vars
  <1> QED
      BY <1>1, <1>2, <1>3, <1>4, <1>5, <1>6, <1>7, <1>8, <1>9, <1>10, <1>11,
      <1>12, <1>13, <1>14, <1>15, <1>16, <1>17, <1>18 DEF Next, Produce,
      Work, Unregister, CloseSession

\* The event of a submitter that has not queued it is its own still.
LEMMA NotInHand ==
    ASSUME TypeOK, EventsOwned, JobsWaited, NEW p \in Producer,
           ppc[p] \in {"locked", "sync"}
    PROVE  pev[p] \in Event /\ ~InHand(pev[p]) /\ answer[pev[p]] = "none"
  <1>1. pev[p] \in Event
      BY EventLogAssumption DEF EventsOwned, TypeOK, Event
  <1>2. ASSUME InHand(pev[p]) PROVE FALSE
      <2>1. PICK q \in Producer : ppc[q] = "waiting" /\ pev[q] = pev[p]
          BY <1>1, <1>2 DEF JobsWaited
      <2> QED  BY <2>1 DEF EventsOwned
  <1> QED  BY <1>1, <1>2 DEF JobsWaited

\* Every step keeps what the submitters and the worker rely on.
LEMMA PersistStep ==
    ASSUME PersistInv, [Next]_vars
    PROVE  PersistRest'
  <1> USE EventLogAssumption DEF TypeOK, Event, Idle,
      workerVars, producerVars, connVars, browserVars, EventsOwned,
      InHand, JobsWaited, AnswersTrue, ShutdownOrderly, PersistInv, PersistRest
  <1>1. ASSUME NEW p \in Producer, Submit(p) PROVE PersistRest'
      BY <1>1 DEF Submit, Goto
  <1>2. ASSUME NEW p \in Producer, Enqueue(p) PROVE PersistRest'
      <2>1. pev[p] \in Event /\ ~InHand(pev[p])
        BY <1>2, NotInHand DEF Enqueue
      <2>2. /\ ToSet(queue') = ToSet(queue) \cup {pev[p]} /\ IsInjective(queue')
            /\ ppc' = [ppc EXCEPT ![p] = "waiting"]
            /\ UNCHANGED <<clock, open, worker, exited, db, answer, pev>>
        BY <1>2, <2>1, SetOfAppend DEF Enqueue, Goto
      <2>3. EventsOwned' /\ AnswersTrue'
        BY <1>2, <2>2 DEF Enqueue
      <2>4. JobsWaited'
        BY <1>2, <2>1, <2>2 DEF Enqueue
      <2>5. ShutdownOrderly'
        BY <1>2, <2>2 DEF Enqueue
      <2> QED  BY <2>3, <2>4, <2>5
  <1>3. ASSUME NEW p \in Producer, ContextDone(p) PROVE PersistRest'
      BY <1>3 DEF ContextDone, Goto
  <1>4. ASSUME NEW p \in Producer, Receive(p) PROVE PersistRest'
      BY <1>4 DEF Receive, Goto
  <1>5. ASSUME NEW p \in Producer, SaveSync(p) PROVE PersistRest'
      <2>1. CASE db' = db \cup {pev[p]} /\ ppc' = [ppc EXCEPT ![p] = "stored"]
        <3>1. pev[p] \in Event /\ ~InHand(pev[p]) /\ answer[pev[p]] = "none"
          BY <1>5, NotInHand DEF SaveSync
        <3>2. UNCHANGED <<clock, open, queue, worker, exited, answer, pev>>
          BY <1>5 DEF SaveSync
        <3>3. EventsOwned' /\ AnswersTrue' /\ ShutdownOrderly'
          BY <1>5, <2>1, <3>1, <3>2 DEF SaveSync
        <3>4. JobsWaited'
          BY <1>5, <2>1, <3>1, <3>2 DEF SaveSync
        <3> QED  BY <3>3, <3>4
      <2>2. CASE db' = db /\ ppc' = [ppc EXCEPT ![p] = "idle"]
        BY <1>5, <2>2 DEF SaveSync
      <2> QED  BY <1>5, <2>1, <2>2 DEF SaveSync, Goto
  <1>6. ASSUME NEW p \in Producer, Broadcast(p) PROVE PersistRest'
      BY <1>6 DEF Broadcast, Goto
  <1>7. ASSUME NEW p \in Producer, BroadcastEnds(p) PROVE PersistRest'
      BY <1>7 DEF BroadcastEnds, Goto
  <1>8. ASSUME NEW p \in Producer, NEW c \in Client, SendTo(p, c) PROVE PersistRest'
      BY <1>8 DEF SendTo
  <1>9. ASSUME WorkerTake PROVE PersistRest'
      BY <1>9, SetOfTail DEF WorkerTake
  <1>10. ASSUME RunPersistJob PROVE PersistRest'
      <2>1. worker \in Event /\ InHand(worker) /\ worker \notin ToSet(queue)
        BY <1>10 DEF RunPersistJob
      <2>2. PICK p \in Producer : ppc[p] = "waiting" /\ pev[p] = worker
        BY <2>1
      <2>3. worker' = Idle /\ UNCHANGED <<clock, open, queue, exited, ppc, pev>>
        BY <1>10 DEF RunPersistJob
      <2>4. \E a \in {"ok", "failed"} :
               /\ answer' = [answer EXCEPT ![worker] = a]
               /\ db' = IF a = "ok" THEN db \cup {worker} ELSE db
        BY <1>10 DEF RunPersistJob
      <2>5. EventsOwned' /\ ShutdownOrderly'
        BY <2>3, <2>4
      <2>6. AnswersTrue'
        BY <2>1, <2>2, <2>3, <2>4
      <2>7. JobsWaited'
        <3>1. worker' \notin ToSet(queue)
          BY <2>3, SetOfSeq
        <3>2. \A e \in Event : InHand(e)' <=> InHand(e) /\ e # worker
          BY <2>1, <2>3
        <3>3. \A q \in Producer : q # p /\ ppc[q] # "idle" => pev[q] \in Event /\ pev[q] # worker
          BY <2>2
        <3> HIDE DEF InHand
        <3>4. \A e \in Event : InHand(e)' =>
                 /\ answer'[e] = "none" /\ e \notin db'
                 /\ \E q \in Producer : ppc'[q] = "waiting" /\ pev'[q] = e
          BY <2>3, <2>4, <3>2
        <3>5. \A q \in Producer :
                 /\ ppc'[q] = "waiting" /\ answer'[pev'[q]] = "none" => InHand(pev[q])'
                 /\ ppc'[q] \in {"locked", "sync"} =>
                       answer'[pev'[q]] = "none" /\ pev'[q] \notin db'
          BY <2>1, <2>2, <2>3, <2>4, <3>2, <3>3
        <3> QED  BY <2>3, <3>1, <3>4, <3>5
      <2> QED  BY <2>5, <2>6, <2>7
  <1>11. ASSUME WorkerExit PROVE PersistRest'
      BY <1>11 DEF WorkerExit
  <1>12. ASSUME Shutdown PROVE PersistRest'
      BY <1>12 DEF Shutdown
  <1>13. ASSUME NEW c \in Client, Register(c) PROVE PersistRest'
      BY <1>13 DEF Register
  <1>14. ASSUME NEW c \in Client, Replay(c) PROVE PersistRest'
      BY <1>14 DEF Replay, Fault, Write
  <1>15. ASSUME NEW c \in Client, Stream(c) PROVE PersistRest'
      BY <1>15 DEF Stream
  <1>16. ASSUME NEW c \in Client, Deliver(c) PROVE PersistRest'
      BY <1>16 DEF Deliver, Write
  <1>17. ASSUME NEW gone, Leave(gone) PROVE PersistRest'
      BY <1>17 DEF Leave
  <1>18. CASE UNCHANGED vars
      BY <1>18 DEF vars
  <1> QED
      BY <1>1, <1>2, <1>3, <1>4, <1>5, <1>6, <1>7, <1>8, <1>9, <1>10, <1>11,
      <1>12, <1>13, <1>14, <1>15, <1>16, <1>17, <1>18 DEF Next, Produce,
      Work, Unregister, CloseSession

-----------------------------------------------------------------------------
(* Steps of the connections.                                                *)

\* The stored events are finitely many.
LEMMA StoredBounded ==
    ASSUME TypeOK
    PROVE  db \in SUBSET Nat /\ db \subseteq Event /\ IsFiniteSet(db) /\ Event \subseteq Nat
  <1>1. MaxEvents \in Nat /\ clock \in 0 .. MaxEvents /\ db \subseteq 1 .. clock
      BY EventLogAssumption DEF TypeOK
  <1>2. clock \in Nat /\ 1 .. clock \subseteq 1 .. MaxEvents /\ 1 .. MaxEvents \subseteq Nat
      BY <1>1
  <1>3. IsFiniteSet(1 .. clock)
      BY <1>2, FS_Interval
  <1>4. IsFiniteSet(db)
      BY <1>1, <1>3, FS_Subset
  <1> QED  BY <1>1, <1>2, <1>4 DEF Event

\* A list in ascending order repeats nothing.
LEMMA AscendingInjective ==
    ASSUME NEW s \in Seq(Nat), Ascending(s)
    PROVE  IsInjective(s)
  <1>1. DOMAIN s = 1 .. Len(s) /\ Len(s) \in Nat
        /\ \A i \in 1 .. Len(s) : s[i] \in Nat
      BY LenProperties, ElementOfSeq
  <1>2. \A i, j \in 1 .. Len(s) : i < j => s[i] # s[j]
      BY <1>1 DEF Ascending
  <1> QED  BY <1>1, <1>2 DEF IsInjective

\* What a replay writes is stored, comes once, and leaves out only what the
\* window leaves out.
LEMMA ReplayRead ==
    ASSUME TypeOK, NEW e \in ToSet(Window(db))
    PROVE  /\ After(Window(db), e) \in Seq(Event)
           /\ IsInjective(After(Window(db), e))
           /\ ToSet(After(Window(db), e)) \subseteq db
           /\ \A x \in db : x > e => \/ x \in ToSet(After(Window(db), e))
                                     \/ x \in db \ ToSet(Window(db))
  <1> DEFINE w == Window(db)
             a == After(w, e)
  <1>1. db \in SUBSET Nat /\ db \subseteq Event /\ IsFiniteSet(db) /\ Event \subseteq Nat
      BY StoredBounded
  <1>2. w \in Seq(db) /\ Ascending(w)
      BY <1>1, WindowAscends
  <1> HIDE DEF w
  <1>3. e \in ToSet(w)
      BY DEF w
  <1>4. /\ a \in Seq(db) /\ Ascending(a)
        /\ ToSet(a) = {x \in ToSet(w) : x > e}
      BY <1>1, <1>2, <1>3, AfterIsLater
  <1> HIDE DEF a
  <1>5. a \in Seq(Event) /\ a \in Seq(Nat)
      BY <1>1, <1>4, SeqMonotonic
  <1>6. ToSet(a) \subseteq db /\ IsInjective(a)
      BY <1>4, <1>5, SetOfSeq, AscendingInjective
  <1> QED  BY <1>4, <1>5, <1>6 DEF a, w

\* What Write does to the connection.
LEMMA WriteEffect ==
    ASSUME ConnType, NEW c \in Client, NEW s \in Seq(Event), Write(c, s)
    PROVE  /\ got' = [got EXCEPT ![c] = got[c] \o s]
           /\ got[c] = <<>> => got'[c] = s
           /\ s = <<>> => got' = got
           /\ \A e \in Event : s = <<e>> => got'[c] = Append(got[c], e)
           /\ got' \in [Client -> Seq(Event)]
           /\ cursor' \in [Client -> Event \cup {Idle}]
  <1>1. got[c] \in Seq(Event) /\ got' = [got EXCEPT ![c] = got[c] \o s]
      BY DEF ConnType, Write
  <1>2. /\ got[c] \o <<>> = got[c] /\ <<>> \o s = s
        /\ got[c] \o s \in Seq(Event)
        /\ \A e \in Event : Append(got[c], e) = got[c] \o <<e>>
      BY <1>1, ConcatEmptySeq, ConcatProperties, AppendIsConcat
  <1>3. s # <<>> => Last(s) \in Event
      <2>1. s # <<>> => Len(s) \in 1 .. Len(s)
          BY EmptySeq, LenProperties
      <2> QED  BY <2>1, ElementOfSeq DEF Last
  <1>4. cursor' \in [Client -> Event \cup {Idle}]
      BY <1>3 DEF ConnType, Write
  <1>5. got' \in [Client -> Seq(Event)] /\ (s = <<>> => got' = got)
      BY <1>1, <1>2 DEF ConnType
  <1>6. got'[c] = got[c] \o s
      BY <1>1 DEF ConnType
  <1> QED  BY <1>1, <1>2, <1>4, <1>5, <1>6

\* A replay either writes nothing and is not counted as one, or writes what is
\* later than the cursor.
LEMMA ReplayEffect ==
    ASSUME TypeOK, ConnType, ConnShape, NEW c \in Client, Replay(c)
    PROVE  /\ cpc[c] = "registered" /\ cpc' = [cpc EXCEPT ![c] = "replayed"]
           /\ UNCHANGED <<clock, db, ppc, pev, targets, buffer, overflow, base>>
           /\ \/ /\ UNCHANGED <<replayed, missing, got, cursor>>
                 /\ mode'[c] # "replayed" /\ \A d \in Client \ {c} : mode'[d] = mode[d]
              \/ \E s \in Seq(Event) :
                   /\ IsInjective(s) /\ ToSet(s) \subseteq db
                   /\ \A x \in db : x > base[c] => x \in ToSet(s) \/ x \in missing'[c]
                   /\ got' = [got EXCEPT ![c] = s]
                   /\ replayed' = [replayed EXCEPT ![c] = ToSet(s)]
                   /\ missing' \in [Client -> SUBSET Event]
                   /\ \A d \in Client \ {c} :
                         missing'[d] = missing[d] /\ mode'[d] = mode[d]
                   /\ cursor' \in [Client -> Event \cup {Idle}]
  <1>1. /\ cpc[c] = "registered" /\ cpc' = [cpc EXCEPT ![c] = "replayed"]
        /\ UNCHANGED <<clock, db, ppc, pev, targets, buffer, overflow, base>>
        /\ got[c] = <<>> /\ base[c] = cursor[c] /\ mode[c] = "fresh"
      BY DEF Replay, ConnShape, workerVars, producerVars
  <1>2. CASE UNCHANGED <<replayed, mode, missing, got, seen, cursor, faults>>
      BY <1>1, <1>2
  <1>3. CASE /\ \E m \in {"failed", "resync"} : mode' = [mode EXCEPT ![c] = m]
             /\ UNCHANGED <<replayed, missing, got, seen, cursor>>
      BY <1>1, <1>3 DEF TypeOK
  <1>4. CASE /\ cursor[c] \in ToSet(Window(db))
             /\ Write(c, After(Window(db), cursor[c]))
             /\ replayed' = [replayed EXCEPT ![c] = ToSet(After(Window(db), cursor[c]))]
             /\ missing' = [missing EXCEPT ![c] = db \ ToSet(Window(db))]
             /\ mode' = [mode EXCEPT ![c] = "replayed"]
      <2> DEFINE s == After(Window(db), cursor[c])
                 m == db \ ToSet(Window(db))
      <2>1. /\ s \in Seq(Event) /\ IsInjective(s) /\ ToSet(s) \subseteq db
            /\ \A x \in db : x > cursor[c] => x \in ToSet(s) \/ x \in m
          BY <1>4, ReplayRead
      <2>2. Write(c, s) /\ missing' = [missing EXCEPT ![c] = m] /\ m \in SUBSET Event
            /\ replayed' = [replayed EXCEPT ![c] = ToSet(s)]
          BY <1>4, StoredBounded
      <2> HIDE DEF s, m
      <2>3. got' = [got EXCEPT ![c] = s] /\ cursor' \in [Client -> Event \cup {Idle}]
          BY <1>1, <2>1, <2>2, WriteEffect DEF ConnType
      <2>4. missing' \in [Client -> SUBSET Event] /\ missing'[c] = m
            /\ \A d \in Client \ {c} : missing'[d] = missing[d] /\ mode'[d] = mode[d]
          BY <1>4, <2>2 DEF ConnType, TypeOK
      <2> QED  BY <1>1, <2>1, <2>2, <2>3, <2>4
  <1> QED  BY <1>2, <1>3, <1>4 DEF Replay

\* A delivery takes the head of the buffer and writes it unless it was replayed.
LEMMA DeliverEffect ==
    ASSUME ConnType, NEW c \in Client, Deliver(c)
    PROVE  LET e == Head(buffer[c]) IN
           /\ e \in Event /\ (e \notin replayed[c] \/ got' = got)
           /\ ToSet(buffer[c]) = {e} \cup ToSet(buffer'[c])
           /\ IsInjective(buffer[c]) =>
                 IsInjective(buffer'[c]) /\ e \notin ToSet(buffer'[c])
           /\ ToSet(got'[c]) = ToSet(got[c]) \cup ({e} \ replayed[c])
           /\ IsInjective(got[c]) /\ e \notin ToSet(got[c]) => IsInjective(got'[c])
           /\ \A d \in Client \ {c} : buffer'[d] = buffer[d] /\ got'[d] = got[d]
           /\ buffer' \in [Client -> Seq(Event)] /\ got' \in [Client -> Seq(Event)]
           /\ cursor' \in [Client -> Event \cup {Idle}]
           /\ UNCHANGED <<clock, db, ppc, pev, targets, cpc, overflow, replayed, mode,
                          base, missing>>
  <1> DEFINE e == Head(buffer[c])
  <1>1. /\ buffer[c] # <<>> /\ buffer[c] \in Seq(Event)
        /\ buffer' = [buffer EXCEPT ![c] = Tail(buffer[c])]
        /\ UNCHANGED <<clock, db, ppc, pev, targets, cpc, overflow, replayed, mode,
                       base, missing>>
      BY DEF Deliver, ConnType, workerVars, producerVars
  <1>2. /\ e \in Event /\ Tail(buffer[c]) \in Seq(Event)
        /\ ToSet(buffer[c]) = {e} \cup ToSet(Tail(buffer[c]))
        /\ IsInjective(buffer[c]) =>
              IsInjective(Tail(buffer[c])) /\ e \notin ToSet(Tail(buffer[c]))
      BY <1>1, SetOfTail
  <1>3. /\ buffer' \in [Client -> Seq(Event)] /\ buffer'[c] = Tail(buffer[c])
        /\ \A d \in Client \ {c} : buffer'[d] = buffer[d]
      BY <1>1, <1>2 DEF ConnType
  <1> HIDE DEF e
  <1>4. <<>> \in Seq(Event) /\ <<e>> \in Seq(Event)
      BY <1>2
  <1>5. CASE e \in replayed[c]
      <2>1. Write(c, <<>>)
          BY <1>5 DEF Deliver, e
      <2>2. /\ got' = got /\ got' \in [Client -> Seq(Event)]
            /\ cursor' \in [Client -> Event \cup {Idle}]
          BY <1>4, <2>1, WriteEffect
      <2>3. {e} \ replayed[c] = {}
          BY <1>5
      <2> QED  BY <1>1, <1>2, <1>3, <1>5, <2>2, <2>3 DEF e
  <1>6. CASE e \notin replayed[c]
      <2>1. Write(c, <<e>>)
          BY <1>6 DEF Deliver, e
      <2>2. /\ got'[c] = Append(got[c], e) /\ got' = [got EXCEPT ![c] = got[c] \o <<e>>]
            /\ got' \in [Client -> Seq(Event)]
            /\ cursor' \in [Client -> Event \cup {Idle}]
          BY <1>2, <1>4, <2>1, WriteEffect
      <2>3. got[c] \in Seq(Event) /\ \A d \in Client \ {c} : got'[d] = got[d]
          BY <2>2 DEF ConnType
      <2>4. /\ ToSet(got'[c]) = ToSet(got[c]) \cup {e}
            /\ IsInjective(got[c]) /\ e \notin ToSet(got[c]) => IsInjective(got'[c])
          BY <1>2, <2>2, <2>3, SetOfAppend
      <2>5. {e} \ replayed[c] = {e}
          BY <1>6
      <2> QED  BY <1>1, <1>2, <1>3, <1>6, <2>2, <2>3, <2>4, <2>5 DEF e
  <1> QED  BY <1>5, <1>6

\* A send appends to the buffer or marks the overflow.
LEMMA SendEffect ==
    ASSUME PersistInv, ConnType, NEW p \in Producer, NEW c \in Client, SendTo(p, c)
    PROVE  /\ pev[p] \in db /\ pev[p] \in Event /\ c \in targets[p]
           /\ targets' = [targets EXCEPT ![p] = @ \ {c}]
           /\ UNCHANGED <<clock, db, ppc, pev, cpc, replayed, mode, base, missing, got>>
           /\ buffer' \in [Client -> Seq(Event)] /\ overflow' \in [Client -> BOOLEAN]
           /\ \A d \in Client \ {c} :
                 buffer'[d] = buffer[d] /\ overflow'[d] = overflow[d]
           /\ \/ buffer' = buffer /\ overflow'[c]
              \/ /\ overflow' = overflow
                 /\ ToSet(buffer'[c]) = ToSet(buffer[c]) \cup {pev[p]}
                 /\ IsInjective(buffer[c]) /\ pev[p] \notin ToSet(buffer[c]) =>
                       IsInjective(buffer'[c])
  <1>1. pev[p] \in db /\ pev[p] \in Event /\ buffer[c] \in Seq(Event)
      BY StoredBounded DEF SendTo, PersistInv, PersistRest, AnswersTrue, ConnType
  <1>2. /\ Append(buffer[c], pev[p]) \in Seq(Event)
        /\ ToSet(Append(buffer[c], pev[p])) = ToSet(buffer[c]) \cup {pev[p]}
        /\ IsInjective(buffer[c]) /\ pev[p] \notin ToSet(buffer[c]) =>
              IsInjective(Append(buffer[c], pev[p]))
      BY <1>1, SetOfAppend
  <1>3. CASE buffer' = [buffer EXCEPT ![c] = Append(@, pev[p])] /\ UNCHANGED overflow
      BY <1>1, <1>2, <1>3 DEF SendTo, ConnType, workerVars
  <1>4. CASE overflow' = [overflow EXCEPT ![c] = TRUE] /\ UNCHANGED buffer
      BY <1>1, <1>4 DEF SendTo, ConnType, workerVars
  <1> QED  BY <1>3, <1>4 DEF SendTo

\* Every step keeps the types of the connections.
LEMMA ConnTypeStep ==
    ASSUME PersistInv, ConnType, ConnShape, [Next]_vars
    PROVE  ConnType'
  <1> USE EventLogAssumption DEF PersistInv, TypeOK, workerVars, producerVars,
      connVars, browserVars, ConnType
  <1>1. ASSUME NEW p \in Producer, Submit(p) PROVE ConnType'
      BY <1>1 DEF Submit, Goto
  <1>2. ASSUME NEW p \in Producer, Enqueue(p) PROVE ConnType'
      BY <1>2 DEF Enqueue, Goto
  <1>3. ASSUME NEW p \in Producer, ContextDone(p) PROVE ConnType'
      BY <1>3 DEF ContextDone, Goto
  <1>4. ASSUME NEW p \in Producer, Receive(p) PROVE ConnType'
      BY <1>4 DEF Receive, Goto
  <1>5. ASSUME NEW p \in Producer, SaveSync(p) PROVE ConnType'
      BY <1>5 DEF SaveSync, Goto, Fault
  <1>6. ASSUME NEW p \in Producer, Broadcast(p) PROVE ConnType'
      BY <1>6 DEF Broadcast, Goto
  <1>7. ASSUME NEW p \in Producer, BroadcastEnds(p) PROVE ConnType'
      BY <1>7 DEF BroadcastEnds, Goto
  <1>8. ASSUME NEW p \in Producer, NEW c \in Client, SendTo(p, c) PROVE ConnType'
      BY <1>8, SendEffect DEF SendTo
  <1>9. ASSUME WorkerTake PROVE ConnType'
      BY <1>9 DEF WorkerTake
  <1>10. ASSUME RunPersistJob PROVE ConnType'
      BY <1>10 DEF RunPersistJob, Fault
  <1>11. ASSUME WorkerExit PROVE ConnType'
      BY <1>11 DEF WorkerExit
  <1>12. ASSUME Shutdown PROVE ConnType'
      BY <1>12 DEF Shutdown
  <1>13. ASSUME NEW c \in Client, Register(c) PROVE ConnType'
      BY <1>13 DEF Register
  <1>14. ASSUME NEW c \in Client, Replay(c) PROVE ConnType'
      <2>1. TypeOK
        OBVIOUS
      <2> HIDE DEF TypeOK
      <2>2. CASE UNCHANGED <<replayed, missing, got, cursor>>
        BY <1>14, <2>1, <2>2, ReplayEffect DEF Replay
      <2>3. CASE ~UNCHANGED <<replayed, missing, got, cursor>>
        <3>1. PICK s \in Seq(Event) :
                   /\ IsInjective(s) /\ ToSet(s) \subseteq db
                   /\ \A x \in db : x > base[c] => x \in ToSet(s) \/ x \in missing'[c]
                   /\ got' = [got EXCEPT ![c] = s]
                   /\ replayed' = [replayed EXCEPT ![c] = ToSet(s)]
                   /\ missing' \in [Client -> SUBSET Event]
                   /\ \A d \in Client \ {c} :
                         missing'[d] = missing[d] /\ mode'[d] = mode[d]
                   /\ cursor' \in [Client -> Event \cup {Idle}]
          BY <1>14, <2>1, <2>3, ReplayEffect
        <3>2. ToSet(s) \in SUBSET Event
          BY <2>1, <3>1, StoredBounded
        <3>3. UNCHANGED <<buffer, overflow, base>>
          BY <1>14 DEF Replay
        <3> QED  BY <3>1, <3>2, <3>3
      <2> QED  BY <2>2, <2>3
  <1>15. ASSUME NEW c \in Client, Stream(c) PROVE ConnType'
      BY <1>15 DEF Stream
  <1>16. ASSUME NEW c \in Client, Deliver(c) PROVE ConnType'
      BY <1>16, DeliverEffect DEF Deliver
  <1>17. ASSUME NEW gone, Leave(gone) PROVE ConnType'
      BY <1>17 DEF Leave
  <1>18. CASE UNCHANGED vars
      BY <1>18 DEF vars
  <1> QED
      BY <1>1, <1>2, <1>3, <1>4, <1>5, <1>6, <1>7, <1>8, <1>9, <1>10, <1>11,
      <1>12, <1>13, <1>14, <1>15, <1>16, <1>17, <1>18 DEF Next, Produce,
      Work, Unregister, CloseSession

\* Every step keeps the shape of the connections.
LEMMA ConnShapeStep ==
    ASSUME PersistInv, ConnType, ConnShape, [Next]_vars
    PROVE  ConnShape'
  <1> USE EventLogAssumption DEF PersistInv, TypeOK, workerVars, producerVars,
      connVars, browserVars, ConnType, ConnShape, Registered
  <1>1. ASSUME NEW p \in Producer, Submit(p) PROVE ConnShape'
      BY <1>1 DEF Submit, Goto
  <1>2. ASSUME NEW p \in Producer, Enqueue(p) PROVE ConnShape'
      BY <1>2 DEF Enqueue, Goto
  <1>3. ASSUME NEW p \in Producer, ContextDone(p) PROVE ConnShape'
      BY <1>3 DEF ContextDone, Goto
  <1>4. ASSUME NEW p \in Producer, Receive(p) PROVE ConnShape'
      BY <1>4 DEF Receive, Goto
  <1>5. ASSUME NEW p \in Producer, SaveSync(p) PROVE ConnShape'
      BY <1>5 DEF SaveSync, Goto, Fault
  <1>6. ASSUME NEW p \in Producer, Broadcast(p) PROVE ConnShape'
      BY <1>6 DEF Broadcast, Goto
  <1>7. ASSUME NEW p \in Producer, BroadcastEnds(p) PROVE ConnShape'
      BY <1>7 DEF BroadcastEnds, Goto
  <1>8. ASSUME NEW p \in Producer, NEW c \in Client, SendTo(p, c) PROVE ConnShape'
      BY <1>8 DEF SendTo
  <1>9. ASSUME WorkerTake PROVE ConnShape'
      BY <1>9 DEF WorkerTake
  <1>10. ASSUME RunPersistJob PROVE ConnShape'
      BY <1>10 DEF RunPersistJob, Fault
  <1>11. ASSUME WorkerExit PROVE ConnShape'
      BY <1>11 DEF WorkerExit
  <1>12. ASSUME Shutdown PROVE ConnShape'
      BY <1>12 DEF Shutdown
  <1>13. ASSUME NEW c \in Client, Register(c) PROVE ConnShape'
      <2>1. ToSet(got'[c]) = {} /\ replayed'[c] = {}
        BY <1>13, SetOfSeq DEF Register
      <2> QED  BY <1>13, <2>1 DEF Register
  <1>14. ASSUME NEW c \in Client, Replay(c) PROVE ConnShape'
      <2>1. TypeOK
        OBVIOUS
      <2> HIDE DEF TypeOK
      <2>2. CASE UNCHANGED <<replayed, missing, got, cursor>>
        BY <1>14, <2>1, <2>2, ReplayEffect DEF Replay, TypeOK
      <2>3. CASE ~UNCHANGED <<replayed, missing, got, cursor>>
        <3>1. PICK s \in Seq(Event) :
                   /\ IsInjective(s) /\ ToSet(s) \subseteq db
                   /\ \A x \in db : x > base[c] => x \in ToSet(s) \/ x \in missing'[c]
                   /\ got' = [got EXCEPT ![c] = s]
                   /\ replayed' = [replayed EXCEPT ![c] = ToSet(s)]
                   /\ missing' \in [Client -> SUBSET Event]
                   /\ \A d \in Client \ {c} :
                         missing'[d] = missing[d] /\ mode'[d] = mode[d]
                   /\ cursor' \in [Client -> Event \cup {Idle}]
          BY <1>14, <2>1, <2>3, ReplayEffect
        <3>2. got'[c] = s /\ replayed'[c] = ToSet(s) /\ cpc' = [cpc EXCEPT ![c] = "replayed"]
              /\ UNCHANGED <<targets, ppc, base>>
          BY <1>14, <3>1 DEF Replay
        <3>3. \A d \in Client \ {c} : cursor'[d] = cursor[d]
          BY <1>14, <2>3 DEF Replay, Write
        <3> QED  BY <2>1, <3>1, <3>2, <3>3 DEF TypeOK
      <2> QED  BY <2>2, <2>3
  <1>15. ASSUME NEW c \in Client, Stream(c) PROVE ConnShape'
      BY <1>15 DEF Stream
  <1>16. ASSUME NEW c \in Client, Deliver(c) PROVE ConnShape'
      <2>1. \A d \in Client \ {c} : cursor'[d] = cursor[d]
        BY <1>16 DEF Deliver, Write
      <2>2. \A d \in Client : ToSet(got[d]) \subseteq ToSet(got'[d])
        BY <1>16, DeliverEffect
      <2>3. /\ cpc[c] = "live" /\ \A d \in Client \ {c} : got'[d] = got[d]
            /\ UNCHANGED <<ppc, targets, cpc, replayed, mode, base>>
        BY <1>16, DeliverEffect DEF Deliver
      <2> QED  BY <2>1, <2>2, <2>3
  <1>17. ASSUME NEW gone, Leave(gone) PROVE ConnShape'
      BY <1>17 DEF Leave
  <1>18. CASE UNCHANGED vars
      BY <1>18 DEF vars
  <1> QED
      BY <1>1, <1>2, <1>3, <1>4, <1>5, <1>6, <1>7, <1>8, <1>9, <1>10, <1>11,
      <1>12, <1>13, <1>14, <1>15, <1>16, <1>17, <1>18 DEF Next, Produce,
      Work, Unregister, CloseSession

\* No step delivers what is not stored.
LEMMA StoredStep ==
    ASSUME PersistInv, ConnType, ConnShape, DeliveredIsPersisted, [Next]_vars
    PROVE  DeliveredIsPersisted'
  <1> USE EventLogAssumption DEF PersistInv, TypeOK, workerVars, producerVars,
      connVars, browserVars, ConnType, DeliveredIsPersisted
  <1>1. ASSUME NEW p \in Producer, Submit(p) PROVE DeliveredIsPersisted'
      BY <1>1 DEF Submit, Goto
  <1>2. ASSUME NEW p \in Producer, Enqueue(p) PROVE DeliveredIsPersisted'
      BY <1>2 DEF Enqueue, Goto
  <1>3. ASSUME NEW p \in Producer, ContextDone(p) PROVE DeliveredIsPersisted'
      BY <1>3 DEF ContextDone, Goto
  <1>4. ASSUME NEW p \in Producer, Receive(p) PROVE DeliveredIsPersisted'
      BY <1>4 DEF Receive, Goto
  <1>5. ASSUME NEW p \in Producer, SaveSync(p) PROVE DeliveredIsPersisted'
      BY <1>5 DEF SaveSync, Goto, Fault
  <1>6. ASSUME NEW p \in Producer, Broadcast(p) PROVE DeliveredIsPersisted'
      BY <1>6 DEF Broadcast, Goto
  <1>7. ASSUME NEW p \in Producer, BroadcastEnds(p) PROVE DeliveredIsPersisted'
      BY <1>7 DEF BroadcastEnds, Goto
  <1>8. ASSUME NEW p \in Producer, NEW c \in Client, SendTo(p, c) PROVE DeliveredIsPersisted'
      <2>1. \A d \in Client : ToSet(buffer'[d]) \subseteq ToSet(buffer[d]) \cup {pev[p]}
        <3> HIDE DEF PersistInv, TypeOK, ConnType
        <3> QED  BY <1>8, SendEffect
      <2>2. pev[p] \in db /\ UNCHANGED <<db, got>>
        <3> HIDE DEF PersistInv, TypeOK, ConnType
        <3> QED  BY <1>8, SendEffect
      <2> QED  BY <2>1, <2>2
  <1>9. ASSUME WorkerTake PROVE DeliveredIsPersisted'
      BY <1>9 DEF WorkerTake
  <1>10. ASSUME RunPersistJob PROVE DeliveredIsPersisted'
      BY <1>10 DEF RunPersistJob, Fault
  <1>11. ASSUME WorkerExit PROVE DeliveredIsPersisted'
      BY <1>11 DEF WorkerExit
  <1>12. ASSUME Shutdown PROVE DeliveredIsPersisted'
      BY <1>12 DEF Shutdown
  <1>13. ASSUME NEW c \in Client, Register(c) PROVE DeliveredIsPersisted'
      <2>1. ToSet(got'[c]) = {} /\ ToSet(buffer'[c]) = {}
        BY <1>13, SetOfSeq DEF Register
      <2> QED  BY <1>13, <2>1 DEF Register
  <1>14. ASSUME NEW c \in Client, Replay(c) PROVE DeliveredIsPersisted'
      <2>1. TypeOK
        OBVIOUS
      <2> HIDE DEF TypeOK
      <2>2. CASE UNCHANGED <<replayed, missing, got, cursor>>
        BY <1>14, <2>1, <2>2, ReplayEffect DEF Replay
      <2>3. CASE ~UNCHANGED <<replayed, missing, got, cursor>>
        <3>1. PICK s \in Seq(Event) :
                   /\ IsInjective(s) /\ ToSet(s) \subseteq db
                   /\ \A x \in db : x > base[c] => x \in ToSet(s) \/ x \in missing'[c]
                   /\ got' = [got EXCEPT ![c] = s]
                   /\ replayed' = [replayed EXCEPT ![c] = ToSet(s)]
                   /\ missing' \in [Client -> SUBSET Event]
                   /\ \A d \in Client \ {c} :
                         missing'[d] = missing[d] /\ mode'[d] = mode[d]
                   /\ cursor' \in [Client -> Event \cup {Idle}]
          BY <1>14, <2>1, <2>3, ReplayEffect
        <3>2. got'[c] = s /\ \A d \in Client \ {c} : got'[d] = got[d]
          BY <3>1
        <3> QED  BY <1>14, <3>1, <3>2 DEF Replay
      <2> QED  BY <2>2, <2>3
  <1>15. ASSUME NEW c \in Client, Stream(c) PROVE DeliveredIsPersisted'
      BY <1>15 DEF Stream
  <1>16. ASSUME NEW c \in Client, Deliver(c) PROVE DeliveredIsPersisted'
      <2>1. \A d \in Client : /\ ToSet(buffer'[d]) \subseteq ToSet(buffer[d])
                              /\ ToSet(got'[d]) \subseteq ToSet(got[d]) \cup ToSet(buffer[d])
        BY <1>16, DeliverEffect
      <2> QED  BY <1>16, <2>1 DEF Deliver
  <1>17. ASSUME NEW gone, Leave(gone) PROVE DeliveredIsPersisted'
      <2>1. \A c \in Client : buffer'[c] \in {buffer[c], <<>>} /\ UNCHANGED <<got, db>>
        BY <1>17 DEF Leave
      <2> QED  BY <2>1, SetOfSeq
  <1>18. CASE UNCHANGED vars
      BY <1>18 DEF vars
  <1> QED
      BY <1>1, <1>2, <1>3, <1>4, <1>5, <1>6, <1>7, <1>8, <1>9, <1>10, <1>11,
      <1>12, <1>13, <1>14, <1>15, <1>16, <1>17, <1>18 DEF Next, Produce,
      Work, Unregister, CloseSession

\* No step brings an event to a connection twice.
LEMMA OnceStep ==
    ASSUME PersistInv, ConnType, ConnShape, DeliveredIsPersisted, ComesOnce, [Next]_vars
    PROVE  ComesOnce'
  <1> USE EventLogAssumption DEF PersistInv, PersistRest, TypeOK, EventsOwned,
      workerVars, producerVars, connVars, browserVars, ConnType, ConnShape,
      ComesOnce, OnceAt, Unsent
  <1>1. ASSUME NEW p \in Producer, Submit(p) PROVE ComesOnce'
      <2>1. clock' = clock + 1 /\ pev' = [pev EXCEPT ![p] = clock + 1] /\ UNCHANGED connVars
            /\ UNCHANGED targets /\ \A q \in Producer \ {p} : ppc'[q] = ppc[q]
        BY <1>1 DEF Submit, Goto
      <2>2. clock + 1 \notin db
        OBVIOUS
      <2>3. \A c \in Client : clock + 1 \notin ToSet(buffer[c]) \cup ToSet(got[c])
        BY <2>2 DEF DeliveredIsPersisted
      <2> QED  BY <2>1, <2>3
  <1>2. ASSUME NEW p \in Producer, Enqueue(p) PROVE ComesOnce'
      BY <1>2 DEF Enqueue, Goto
  <1>3. ASSUME NEW p \in Producer, ContextDone(p) PROVE ComesOnce'
      BY <1>3 DEF ContextDone, Goto
  <1>4. ASSUME NEW p \in Producer, Receive(p) PROVE ComesOnce'
      BY <1>4 DEF Receive, Goto
  <1>5. ASSUME NEW p \in Producer, SaveSync(p) PROVE ComesOnce'
      BY <1>5 DEF SaveSync, Goto, Fault
  <1>6. ASSUME NEW p \in Producer, Broadcast(p) PROVE ComesOnce'
      BY <1>6 DEF Broadcast, Goto
  <1>7. ASSUME NEW p \in Producer, BroadcastEnds(p) PROVE ComesOnce'
      BY <1>7 DEF BroadcastEnds, Goto
  <1>8. ASSUME NEW p \in Producer, NEW c \in Client, SendTo(p, c) PROVE ComesOnce'
      <2>1. /\ c \in targets[p] /\ targets' = [targets EXCEPT ![p] = @ \ {c}]
            /\ UNCHANGED <<ppc, pev, replayed, got>>
            /\ \A d \in Client \ {c} : buffer'[d] = buffer[d]
            /\ ToSet(buffer'[c]) \subseteq ToSet(buffer[c]) \cup {pev[p]}
            /\ pev[p] \notin ToSet(buffer[c]) => IsInjective(buffer'[c])
        <3> HIDE DEF PersistInv, TypeOK, ConnType, ConnShape
        <3> QED  BY <1>8, SendEffect
      <2>2. /\ pev[p] \notin ToSet(buffer[c])
            /\ pev[p] \in ToSet(got[c]) => pev[p] \in replayed[c]
            /\ ppc[p] = "sending"
        BY <1>8, <2>1 DEF SendTo
      <2>3. \A q \in Producer, d \in Client : Unsent(q, d)' => Unsent(q, d)
        BY <2>1
      <2>4. \A q \in Producer : Unsent(q, c)' => pev[q] # pev[p]
        <3>1. ~Unsent(p, c)'
          BY <2>1, <2>2
        <3>2. \A q \in Producer : Unsent(q, c) => ppc[q] # "idle"
          OBVIOUS
        <3>3. \A q \in Producer : Unsent(q, c)' => q # p /\ ppc[q] # "idle"
          BY <2>3, <3>1, <3>2
        <3> QED  BY <2>2, <3>3
      <2> HIDE DEF Unsent
      <2>5. OnceAt(c)'
        BY <2>1, <2>2, <2>3, <2>4
      <2>6. \A d \in Client \ {c} : OnceAt(d)'
        BY <2>1, <2>3
      <2> QED  BY <2>5, <2>6
  <1>9. ASSUME WorkerTake PROVE ComesOnce'
      BY <1>9 DEF WorkerTake
  <1>10. ASSUME RunPersistJob PROVE ComesOnce'
      BY <1>10 DEF RunPersistJob, Fault
  <1>11. ASSUME WorkerExit PROVE ComesOnce'
      BY <1>11 DEF WorkerExit
  <1>12. ASSUME Shutdown PROVE ComesOnce'
      BY <1>12 DEF Shutdown
  <1>13. ASSUME NEW c \in Client, Register(c) PROVE ComesOnce'
      <2>1. /\ got'[c] = <<>> /\ buffer'[c] = <<>> /\ UNCHANGED <<ppc, pev, targets>>
            /\ \A d \in Client \ {c} : /\ got'[d] = got[d] /\ buffer'[d] = buffer[d]
                                      /\ replayed'[d] = replayed[d]
        BY <1>13 DEF Register
      <2>2. ToSet(<<>>) = {} /\ IsInjective(<<>>)
        BY SetOfSeq
      <2>3. OnceAt(c)'
        BY <2>1, <2>2
      <2>4. ASSUME NEW d \in Client \ {c} PROVE OnceAt(d)'
        <3>1. OnceAt(d)
          OBVIOUS
        <3> QED  BY <2>1, <3>1
      <2> HIDE DEF OnceAt
      <2> QED  BY <2>3, <2>4
  <1>14. ASSUME NEW c \in Client, Replay(c) PROVE ComesOnce'
      <2>1. UNCHANGED <<ppc, pev, targets, buffer>>
        BY <1>14 DEF Replay
      <2>2. CASE UNCHANGED <<replayed, got>>
        BY <2>1, <2>2
      <2>3. CASE \E s \in Seq(Event) : /\ IsInjective(s)
                                       /\ got' = [got EXCEPT ![c] = s]
                                       /\ replayed' = [replayed EXCEPT ![c] = ToSet(s)]
        BY <2>1, <2>3
      <2> QED
        <3> HIDE DEF PersistInv, TypeOK, ConnType, ConnShape
        <3>1. TypeOK
          BY DEF PersistInv
        <3> QED  BY <1>14, <2>2, <2>3, <3>1, ReplayEffect
  <1>15. ASSUME NEW c \in Client, Stream(c) PROVE ComesOnce'
      BY <1>15 DEF Stream
  <1>16. ASSUME NEW c \in Client, Deliver(c) PROVE ComesOnce'
      <2> DEFINE e == Head(buffer[c])
      <2>1. /\ ToSet(buffer[c]) = {e} \cup ToSet(buffer'[c])
            /\ IsInjective(buffer'[c]) /\ e \notin ToSet(buffer'[c])
            /\ e \notin replayed[c] \/ got' = got
            /\ ToSet(got'[c]) = ToSet(got[c]) \cup ({e} \ replayed[c])
            /\ e \notin ToSet(got[c]) => IsInjective(got'[c])
            /\ \A d \in Client \ {c} : buffer'[d] = buffer[d] /\ got'[d] = got[d]
            /\ UNCHANGED <<ppc, pev, targets, replayed>>
        <3> HIDE DEF PersistInv, TypeOK, ConnType, ConnShape
        <3> QED  BY <1>16, DeliverEffect
      <2> HIDE DEF e
      <2>2. e \in ToSet(got[c]) => e \in replayed[c]
        BY <2>1
      <2>3. IsInjective(got'[c])
        BY <2>1, <2>2
      <2>4. \A q \in Producer : Unsent(q, c) => pev[q] # e
        BY <2>1
      <2>5. \A q \in Producer, d \in Client : Unsent(q, d)' <=> Unsent(q, d)
        BY <2>1
      <2> HIDE DEF Unsent
      <2>6. OnceAt(c)'
        BY <2>1, <2>3, <2>4, <2>5
      <2>7. \A d \in Client \ {c} : OnceAt(d)'
        BY <2>1, <2>5
      <2> QED  BY <2>6, <2>7
  <1>17. ASSUME NEW gone, Leave(gone) PROVE ComesOnce'
      <2>1. /\ \A c \in Client : buffer'[c] \in {buffer[c], <<>>}
            /\ UNCHANGED <<got, ppc, pev, replayed>>
            /\ \A q \in Producer : targets'[q] \subseteq targets[q]
        BY <1>17 DEF Leave
      <2>2. ToSet(<<>>) = {} /\ IsInjective(<<>>)
        BY SetOfSeq
      <2>3. \A q \in Producer, c \in Client : Unsent(q, c)' => Unsent(q, c)
        BY <2>1
      <2> HIDE DEF Unsent
      <2>4. ASSUME NEW c \in Client PROVE OnceAt(c)'
        <3>1. CASE buffer'[c] = buffer[c]  BY <2>1, <2>3, <3>1
        <3>2. CASE buffer'[c] = <<>>       BY <2>1, <2>2, <2>3, <3>2
        <3> QED  BY <2>1, <3>1, <3>2
      <2> QED  BY <2>4
  <1>18. CASE UNCHANGED vars
      BY <1>18 DEF vars
  <1> QED
      BY <1>1, <1>2, <1>3, <1>4, <1>5, <1>6, <1>7, <1>8, <1>9, <1>10, <1>11,
      <1>12, <1>13, <1>14, <1>15, <1>16, <1>17, <1>18 DEF Next, Produce,
      Work, Unregister, CloseSession

\* A step of a submitter or of the worker opens no hole if what is on its way
\* stays so and what it stores is on its way.
LEMMA NoHoleProduced ==
    ASSUME NoHole, UNCHANGED connVars,
           \A e \in db, c \in Client :
               cpc[c] # "off" /\ OnItsWay(e, c) => e \in db' /\ OnItsWay(e, c)',
           \A e \in db' \ db, c \in Client : OnItsWay(e, c)'
    PROVE  NoHole'
  BY DEF NoHole, Covered, connVars

\* No step leaves a hole in a connection that was replayed.
LEMMA HoleStep ==
    ASSUME PersistInv, ConnType, ConnShape, NoHole, [Next]_vars
    PROVE  NoHole'
  <1> USE EventLogAssumption DEF PersistInv, PersistRest, TypeOK, EventsOwned,
      workerVars, producerVars, connVars, browserVars, ConnType, ConnShape
  <1>1. ASSUME NEW p \in Producer, Submit(p) PROVE NoHole'
      <2>1. ASSUME NEW e \in db, NEW c \in Client, cpc[c] # "off", OnItsWay(e, c)
            PROVE  OnItsWay(e, c)'
        <3>1. PICK q \in Producer :
                 pev[q] = e /\ (ppc[q] \in {"waiting", "stored"} \/ c \in targets[q])
          BY <2>1 DEF OnItsWay
        <3>2. pev'[q] = e /\ (ppc'[q] \in {"waiting", "stored"} \/ c \in targets'[q])
          BY <1>1, <2>1, <3>1 DEF Submit, Goto
        <3> QED  BY <3>2 DEF OnItsWay
      <2>2. UNCHANGED <<db, connVars>>
        BY <1>1 DEF Submit
      <2> QED  BY <2>1, <2>2, NoHoleProduced
  <1>2. ASSUME NEW p \in Producer, Enqueue(p) PROVE NoHole'
      <2>1. ASSUME NEW e \in db, NEW c \in Client, cpc[c] # "off", OnItsWay(e, c)
            PROVE  OnItsWay(e, c)'
        <3>1. PICK q \in Producer :
                 pev[q] = e /\ (ppc[q] \in {"waiting", "stored"} \/ c \in targets[q])
          BY <2>1 DEF OnItsWay
        <3>2. pev'[q] = e /\ (ppc'[q] \in {"waiting", "stored"} \/ c \in targets'[q])
          BY <1>2, <2>1, <3>1 DEF Enqueue, Goto
        <3> QED  BY <3>2 DEF OnItsWay
      <2>2. UNCHANGED <<db, connVars>>
        BY <1>2 DEF Enqueue
      <2> QED  BY <2>1, <2>2, NoHoleProduced
  <1>3. ASSUME NEW p \in Producer, ContextDone(p) PROVE NoHole'
      <2>1. ASSUME NEW e \in db, NEW c \in Client, cpc[c] # "off", OnItsWay(e, c)
            PROVE  OnItsWay(e, c)'
        <3>1. PICK q \in Producer :
                 pev[q] = e /\ (ppc[q] \in {"waiting", "stored"} \/ c \in targets[q])
          BY <2>1 DEF OnItsWay
        <3>2. pev'[q] = e /\ (ppc'[q] \in {"waiting", "stored"} \/ c \in targets'[q])
          BY <1>3, <2>1, <3>1 DEF ContextDone, Goto
        <3> QED  BY <3>2 DEF OnItsWay
      <2>2. UNCHANGED <<db, connVars>>
        BY <1>3 DEF ContextDone
      <2> QED  BY <2>1, <2>2, NoHoleProduced
  <1>4. ASSUME NEW p \in Producer, Receive(p) PROVE NoHole'
      <2>1. ASSUME NEW e \in db, NEW c \in Client, cpc[c] # "off", OnItsWay(e, c)
            PROVE  OnItsWay(e, c)'
        <3>1. PICK q \in Producer :
                 pev[q] = e /\ (ppc[q] \in {"waiting", "stored"} \/ c \in targets[q])
          BY <2>1 DEF OnItsWay
        <3>2. pev'[q] = e /\ (ppc'[q] \in {"waiting", "stored"} \/ c \in targets'[q])
          BY <1>4, <2>1, <3>1, StoredBounded DEF Receive, Goto, AnswersTrue, Event
        <3> QED  BY <3>2 DEF OnItsWay
      <2>2. UNCHANGED <<db, connVars>>
        BY <1>4 DEF Receive
      <2> QED  BY <2>1, <2>2, NoHoleProduced
  <1>5. ASSUME NEW p \in Producer, SaveSync(p) PROVE NoHole'
      <2>1. ASSUME NEW e \in db, NEW c \in Client, cpc[c] # "off", OnItsWay(e, c)
            PROVE  OnItsWay(e, c)'
        <3>1. PICK q \in Producer :
                 pev[q] = e /\ (ppc[q] \in {"waiting", "stored"} \/ c \in targets[q])
          BY <2>1 DEF OnItsWay
        <3>2. pev'[q] = e /\ (ppc'[q] \in {"waiting", "stored"} \/ c \in targets'[q])
          BY <1>5, <2>1, <3>1 DEF SaveSync, Goto
        <3> QED  BY <3>2 DEF OnItsWay
      <2>2. db \subseteq db' /\ UNCHANGED connVars
        BY <1>5 DEF SaveSync
      <2>3. ASSUME NEW e \in db' \ db, NEW c \in Client PROVE OnItsWay(e, c)'
        <3>1. pev'[p] = e /\ ppc'[p] = "stored"
          BY <1>5, <2>3 DEF SaveSync, Goto
        <3> QED  BY <3>1 DEF OnItsWay
      <2> QED  BY <2>1, <2>2, <2>3, NoHoleProduced
  <1>6. ASSUME NEW p \in Producer, Broadcast(p) PROVE NoHole'
      <2>1. ASSUME NEW e \in db, NEW c \in Client, cpc[c] # "off", OnItsWay(e, c)
            PROVE  OnItsWay(e, c)'
        <3>1. PICK q \in Producer :
                 pev[q] = e /\ (ppc[q] \in {"waiting", "stored"} \/ c \in targets[q])
          BY <2>1 DEF OnItsWay
        <3>2. pev'[q] = e /\ (ppc'[q] \in {"waiting", "stored"} \/ c \in targets'[q])
          BY <1>6, <2>1, <3>1 DEF Broadcast, Goto, Registered
        <3> QED  BY <3>2 DEF OnItsWay
      <2>2. UNCHANGED <<db, connVars>>
        BY <1>6 DEF Broadcast
      <2> QED  BY <2>1, <2>2, NoHoleProduced
  <1>7. ASSUME NEW p \in Producer, BroadcastEnds(p) PROVE NoHole'
      <2>1. ASSUME NEW e \in db, NEW c \in Client, cpc[c] # "off", OnItsWay(e, c)
            PROVE  OnItsWay(e, c)'
        <3>1. PICK q \in Producer :
                 pev[q] = e /\ (ppc[q] \in {"waiting", "stored"} \/ c \in targets[q])
          BY <2>1 DEF OnItsWay
        <3>2. pev'[q] = e /\ (ppc'[q] \in {"waiting", "stored"} \/ c \in targets'[q])
          BY <1>7, <2>1, <3>1 DEF BroadcastEnds, Goto
        <3> QED  BY <3>2 DEF OnItsWay
      <2>2. UNCHANGED <<db, connVars>>
        BY <1>7 DEF BroadcastEnds
      <2> QED  BY <2>1, <2>2, NoHoleProduced
  <1>8. ASSUME NEW p \in Producer, NEW c \in Client, SendTo(p, c) PROVE NoHole'
      <2>1. /\ c \in targets[p] /\ targets' = [targets EXCEPT ![p] = @ \ {c}]
            /\ UNCHANGED <<db, ppc, pev, cpc, mode, base, missing, got>>
            /\ \A d \in Client \ {c} : buffer'[d] = buffer[d] /\ overflow'[d] = overflow[d]
            /\ \/ buffer' = buffer /\ overflow'[c]
               \/ /\ overflow' = overflow
                  /\ ToSet(buffer'[c]) = ToSet(buffer[c]) \cup {pev[p]}
        <3> HIDE DEF PersistInv, TypeOK, ConnType, ConnShape
        <3> QED  BY <1>8, SendEffect
      <2>2. ASSUME NEW d \in Client, NEW e \in db, Covered(e, d), ~overflow'[d]
            PROVE  Covered(e, d)'
        <3>1. CASE e \in ToSet(got[d]) \cup ToSet(buffer[d]) \cup missing[d]
          BY <2>1, <3>1 DEF Covered
        <3>2. CASE OnItsWay(e, d)
          <4>1. PICK q \in Producer :
                   pev[q] = e /\ (ppc[q] \in {"waiting", "stored"} \/ d \in targets[q])
            BY <3>2 DEF OnItsWay
          <4>2. CASE q = p /\ d = c
            <5>1. ToSet(buffer'[c]) = ToSet(buffer[c]) \cup {pev[p]}
              BY <2>1, <2>2, <4>2
            <5> QED  BY <4>1, <4>2, <5>1 DEF Covered
          <4>3. CASE ~(q = p /\ d = c)
            <5>1. pev'[q] = e /\ (ppc'[q] \in {"waiting", "stored"} \/ d \in targets'[q])
              BY <2>1, <4>1, <4>3
            <5> QED  BY <5>1 DEF Covered, OnItsWay
          <4> QED  BY <4>2, <4>3
        <3> QED  BY <2>2, <3>1, <3>2 DEF Covered
      <2>3. \A d \in Client : ~overflow'[d] => ~overflow[d]
        BY <2>1
      <2> QED  BY <2>1, <2>2, <2>3 DEF NoHole
  <1>9. ASSUME WorkerTake PROVE NoHole'
      BY <1>9 DEF WorkerTake, NoHole, Covered, OnItsWay
  <1>10. ASSUME RunPersistJob PROVE NoHole'
      <2>1. db \subseteq db' /\ db' \subseteq db \cup {worker} /\ worker \in Event
            /\ UNCHANGED <<connVars, ppc, pev, targets>>
        BY <1>10 DEF RunPersistJob
      <2>2. PICK p \in Producer : ppc[p] = "waiting" /\ pev[p] = worker
        BY <2>1 DEF JobsWaited, InHand
      <2>3. \A e, c : OnItsWay(e, c) => OnItsWay(e, c)'
        BY <2>1 DEF OnItsWay
      <2>4. \A e, c : e = worker => OnItsWay(e, c)'
        BY <2>1, <2>2 DEF OnItsWay
      <2>5. \A e \in db' \ db, c \in Client : OnItsWay(e, c)'
        BY <2>1, <2>4
      <2> QED  BY <2>1, <2>3, <2>5, NoHoleProduced
  <1>11. ASSUME WorkerExit PROVE NoHole'
      BY <1>11 DEF WorkerExit, NoHole, Covered, OnItsWay
  <1>12. ASSUME Shutdown PROVE NoHole'
      BY <1>12 DEF Shutdown, NoHole, Covered, OnItsWay
  <1>13. ASSUME NEW c \in Client, Register(c) PROVE NoHole'
      BY <1>13 DEF Register, NoHole, Covered, OnItsWay
  <1>14. ASSUME NEW c \in Client, Replay(c) PROVE NoHole'
      <2>1. /\ cpc' = [cpc EXCEPT ![c] = "replayed"]
            /\ UNCHANGED <<db, ppc, pev, targets, buffer, overflow, base>>
        BY <1>14 DEF Replay
      <2>2. \A e, d : OnItsWay(e, d)' <=> OnItsWay(e, d)
        BY <2>1 DEF OnItsWay
      <2>3. CASE /\ UNCHANGED <<missing, got>> /\ mode'[c] # "replayed"
                 /\ \A d \in Client \ {c} : mode'[d] = mode[d]
        BY <2>1, <2>2, <2>3 DEF NoHole, Covered
      <2>4. CASE \E s \in Seq(Event) :
                   /\ \A x \in db : x > base[c] => x \in ToSet(s) \/ x \in missing'[c]
                   /\ got' = [got EXCEPT ![c] = s]
                   /\ \A d \in Client \ {c} :
                         missing'[d] = missing[d] /\ mode'[d] = mode[d]
        BY <2>1, <2>2, <2>4 DEF NoHole, Covered
      <2> QED
        <3> HIDE DEF PersistInv, TypeOK, ConnType, ConnShape
        <3>1. TypeOK
          BY DEF PersistInv
        <3> QED  BY <1>14, <2>3, <2>4, <3>1, ReplayEffect
  <1>15. ASSUME NEW c \in Client, Stream(c) PROVE NoHole'
      BY <1>15 DEF Stream, NoHole, Covered, OnItsWay
  <1>16. ASSUME NEW c \in Client, Deliver(c) PROVE NoHole'
      <2>1. /\ ToSet(buffer[c]) = {Head(buffer[c])} \cup ToSet(buffer'[c])
            /\ ToSet(got'[c]) = ToSet(got[c]) \cup ({Head(buffer[c])} \ replayed[c])
            /\ \A d \in Client \ {c} : buffer'[d] = buffer[d] /\ got'[d] = got[d]
            /\ UNCHANGED <<db, ppc, pev, targets, cpc, overflow, mode, base, missing>>
        <3> HIDE DEF PersistInv, TypeOK, ConnType, ConnShape
        <3> QED  BY <1>16, DeliverEffect
      <2>2. \A d \in Client : ToSet(got[d]) \cup ToSet(buffer[d])
                              \subseteq ToSet(got'[d]) \cup ToSet(buffer'[d])
        BY <2>1
      <2>3. \A e, d : OnItsWay(e, d)' <=> OnItsWay(e, d)
        BY <2>1 DEF OnItsWay
      <2> QED  BY <2>1, <2>2, <2>3 DEF NoHole, Covered
  <1>17. ASSUME NEW gone, Leave(gone) PROVE NoHole'
      BY <1>17 DEF Leave, NoHole, Covered, OnItsWay
  <1>18. CASE UNCHANGED vars
      BY <1>18 DEF vars, NoHole, Covered, OnItsWay
  <1> QED
      BY <1>1, <1>2, <1>3, <1>4, <1>5, <1>6, <1>7, <1>8, <1>9, <1>10, <1>11,
      <1>12, <1>13, <1>14, <1>15, <1>16, <1>17, <1>18 DEF Next, Produce,
      Work, Unregister, CloseSession

-----------------------------------------------------------------------------
(* Theorems.                                                                *)

\* PersistInv and DeliverInv together are an inductive invariant of the
\* submitters, the worker and the connections.
THEOREM EventLogInvariant == Spec => [](PersistInv /\ DeliverInv)
  <1>1. Init => PersistInv /\ DeliverInv
      <2> SUFFICES ASSUME Init PROVE PersistInv /\ DeliverInv
          OBVIOUS
      <2> USE EventLogAssumption, SetOfSeq DEF Init
      <2>1. TypeOK
          <3>1. MaxEvents \in Nat /\ QueueSize \in Nat /\ BufferSize \in Nat
              OBVIOUS
          <3>2. <<>> \in Seq(Event) /\ Len(<<>>) = 0
              OBVIOUS
          <3>3. \A c \in Client : Len(buffer[c]) <= BufferSize
              BY <3>1, <3>2
          <3>4. queue \in Seq(Event) /\ Len(queue) <= QueueSize /\ clock \in 0 .. MaxEvents
              BY <3>1, <3>2
          <3> QED  BY <3>3, <3>4 DEF TypeOK, Idle
      <2>2. EventsOwned /\ AnswersTrue /\ ShutdownOrderly
          BY DEF EventsOwned, AnswersTrue, ShutdownOrderly
      <2>3. JobsWaited
          BY DEF JobsWaited, InHand, Event, Idle
      <2>4. ConnType
          BY DEF ConnType
      <2>5. ConnShape /\ DeliveredIsPersisted /\ ComesOnce /\ NoHole
          BY DEF ConnShape, DeliveredIsPersisted, ComesOnce, OnceAt, Unsent, NoHole
      <2> QED  BY <2>1, <2>2, <2>3, <2>4, <2>5 DEF PersistInv, PersistRest, DeliverInv
  <1>2. PersistInv /\ DeliverInv /\ [Next]_vars => (PersistInv /\ DeliverInv)'
      <2> SUFFICES ASSUME PersistInv, DeliverInv, [Next]_vars
                   PROVE  PersistInv' /\ DeliverInv'
          OBVIOUS
      <2>1. PersistInv'
          BY TypeStep, PersistStep DEF PersistInv, PersistRest, DeliverInv
      <2>2. DeliverInv'
          BY ConnTypeStep, ConnShapeStep, StoredStep, OnceStep, HoleStep DEF DeliverInv
      <2> QED  BY <2>1, <2>2
  <1> QED  BY <1>1, <1>2, PTL DEF Spec

\* The state of the event worker, the broker and the connections is always of its
\* types.
THEOREM EventLogTypeCorrect == Spec => []TypeOK
  BY EventLogInvariant, PTL DEF PersistInv

\* The stop function of the persist worker strands nobody: when the worker has
\* returned, the queue is empty and every submitter that waits has its answer.
THEOREM WorkerStrandsNobody == Spec => []NoStrandedJob
  <1>1. PersistInv => NoStrandedJob
      <2> SUFFICES ASSUME PersistInv, exited, NEW p \in Producer, ppc[p] = "waiting"
                   PROVE  answer[pev[p]] # "none"
          BY DEF NoStrandedJob, PersistInv, PersistRest, ShutdownOrderly
      <2>1. queue = <<>> /\ worker = Idle
          BY DEF PersistInv, PersistRest, ShutdownOrderly
      <2>2. pev[p] \in 1 .. clock /\ pev[p] # Idle
          BY DEF PersistInv, PersistRest, EventsOwned, Idle
      <2>3. ~InHand(pev[p])
          BY <2>1, <2>2, SetOfSeq DEF InHand
      <2> QED  BY <2>3 DEF PersistInv, PersistRest, JobsWaited
  <1> QED  BY <1>1, EventLogInvariant, PTL

\* saveEventToDB tells a submitter that its event is stored exactly when it is,
\* through the queue as well as past it.
THEOREM AnswersAreTrue == Spec => []AnswersTrue
  BY EventLogInvariant, PTL DEF PersistInv, PersistRest

\* No client is sent an event, live or replayed, that the log does not hold.
THEOREM NothingDeliveredUnstored == Spec => []DeliveredIsPersisted
  BY EventLogInvariant, PTL DEF DeliverInv

\* A connection that was replayed has no hole after its cursor, although events
\* are stored, broadcast and replayed in every order.
THEOREM ReplayedConnectionHasNoHole == Spec => []ConnectionComplete
  <1>1. NoHole => ConnectionComplete
      BY DEF NoHole, Covered, ConnectionComplete
  <1> QED  BY <1>1, EventLogInvariant, PTL DEF DeliverInv

\* On one connection no event is written twice, although an event stored between
\* the registration and the read of the log comes both ways.
THEOREM NoEventTwice == Spec => []NoDuplicate
  <1>1. ComesOnce => NoDuplicate
      BY DEF ComesOnce, OnceAt, NoDuplicate
  <1> QED  BY <1>1, EventLogInvariant, PTL DEF DeliverInv
=============================================================================
