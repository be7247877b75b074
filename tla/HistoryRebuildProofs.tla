------------------------ MODULE HistoryRebuildProofs ------------------------
(***************************************************************************)
(* Proofs about HistoryRebuild, for any batch size, window and bounds.     *)
(***************************************************************************)
EXTENDS HistoryRebuild, FiniteSetTheorems, SequenceTheorems, WellFoundedInduction,
        TLAPS

(***************************************************************************)
(* The fold's state, and what it keeps of the user's turns.                *)
(***************************************************************************)
AssistantItem == {x \in ConversationItem : x.role = "assistant" /\ x.call = 0}

FoldState ==
    [items : Seq(ConversationItem), pending : AssistantItem, ask : Nat,
     askRun : Nat, omitted : Nat, digest : SUBSET Nat]

Opened(h) == h # <<>> /\ h[1].role = "user" /\ h[1].n = 1

\* An item that repairToolPairing cannot drop: a user turn, or a result
\* directly behind a calling message.
Anchored(h, i) ==
    \/ h[i].role = "user"
    \/ h[i].role = "tool" /\ i > 1 /\ IsCalling(h[i - 1])

HeldTurn(h, n) == \E i \in DOMAIN h : Anchored(h, i) /\ h[i].n = n

Told(events, f) ==
    \/ f.omitted > 0 \/ f.digest # {}
    \/ \A j \in DOMAIN events : events[j].type = "user" => HeldTurn(f.items, events[j].n)

\* The last item is the message that asks the user.
Asking(f) == f.pending = NoItem /\ f.items # <<>> /\ IsCalling(f.items[Len(f.items)])

FoldOK(events, r) ==
    /\ Folded(events) \in FoldState
    /\ Opened(Folded(events).items)
    /\ Told(events, Folded(events))
    /\ Folded(events).askRun <= r

\* The first inductive invariant.
TurnsKept ==
    /\ run = 0 => /\ log = <<>> /\ history = <<>> /\ contents = 0 /\ phase = "idle"
    /\ run > 0 => FoldOK(log, run)
    /\ run > 0 => Opened(history) \/ (history = <<>> /\ phase = "top" /\ task = 1)
    /\ phase = "waiting" => Asking(Folded(log))
    /\ phase = "batch" => batch # <<>>

TurnsInv == TypeOK /\ TurnsKept

(***************************************************************************)
(* Regular sessions.                                                       *)
(***************************************************************************)
\* Every call has its one result directly behind it, and no other result
\* exists.
Settled(h) ==
    \A i \in DOMAIN h :
        /\ IsCalling(h[i]) => /\ Len(h[i].calls) = 1 /\ i < Len(h)
                              /\ h[i + 1].role = "tool" /\ h[i + 1].call = h[i].calls[1]
        /\ h[i].role = "tool" => i > 1 /\ IsCalling(h[i - 1])

\* A calling message with one call, behind a settled conversation.
OpenCall(h, c) ==
    /\ h # <<>> /\ h[Len(h)] = Assistant(h[Len(h)].n, <<c>>)
    /\ Settled(SubSeq(h, 1, Len(h) - 1))

Turn(t) == IF t = 0 THEN <<>> ELSE <<User(t)>>

\* What the fold has of the engine's conversation, phase by phase.
Mirrored ==
    LET f == Folded(log)
    IN /\ f.omitted = omitted /\ f.digest = digest
       /\ phase # "waiting" => f.ask = 0
       /\ phase # "top" => task = 0
       /\ phase \in {"idle", "top", "sent", "closing"} =>
            /\ Flush(f).items = history \o Turn(task)
            /\ Settled(history)
            /\ f.pending # NoItem => task = 0 /\ log # <<>> /\ Last(log).type = "assistant_status"
       /\ phase = "batch" =>
            /\ Len(batch) = 1 /\ batch[1] # 0 /\ OpenCall(history, batch[1])
            /\ f.items = SubSeq(history, 1, Len(history) - 1)
            /\ f.pending = Assistant(history[Len(history)].n, <<>>)
       /\ phase = "waiting" =>
            /\ suspended # 0 /\ f.ask = suspended /\ f.askRun = run
            /\ f.items = history /\ f.pending = NoItem
            /\ OpenCall(history, suspended)

ExactInv == TurnsInv /\ (regular => Mirrored)

-----------------------------------------------------------------------------
(* Least and greatest elements; they stand for induction over data.        *)

\* Every nonempty set of naturals has a least element.
LEMMA LeastNatural ==
    ASSUME NEW T \in SUBSET Nat, T # {}
    PROVE  \E n \in T : \A m \in T : n <= m
  <1>1. PICK n \in T : \A m \in T : ~(<<m, n>> \in OpToRel(<, Nat))
      BY WFMin, NatLessThanWellFounded
  <1>2. ASSUME NEW m \in T, m < n
        PROVE  FALSE
      <2>1. <<m, n>> \in Nat \X Nat /\ <<m, n>>[1] < <<m, n>>[2]
          BY <1>2
      <2>2. <<m, n>> \in OpToRel(<, Nat)
          BY <2>1 DEF OpToRel
      <2> QED  BY <1>1, <2>2
  <1>3. \A m \in T : m \in Nat /\ n \in Nat /\ ~(m < n)
      BY <1>2
  <1> QED  BY <1>3

\* Max names the greatest element of a bounded set.
LEMMA GreatestBounded ==
    ASSUME NEW b \in Int, NEW T \in SUBSET Int, T # {}, \A m \in T : m <= b
    PROVE  Max(T) \in T /\ \A m \in T : m <= Max(T)
  <1> DEFINE D == {k \in Nat : b - k \in T}
  <1>1. D # {}
      <2>1. PICK m \in T : TRUE  OBVIOUS
      <2>2. b - m \in D  BY <2>1
      <2> QED  BY <2>2
  <1>2. PICK k \in D : \A m \in D : k <= m
      BY <1>1, LeastNatural
  <1>3. ASSUME NEW m \in T
        PROVE  m <= b - k
      <2>1. b - m \in D /\ m \in Int /\ k \in Int
          OBVIOUS
      <2>2. k <= b - m
          BY <1>2, <2>1
      <2> HIDE DEF D
      <2> QED  BY <2>1, <2>2
  <1>4. \E x \in T : \A y \in T : x >= y
      BY <1>2, <1>3
  <1>5. Max(T) \in T /\ \A y \in T : Max(T) >= y
      BY <1>4 DEF Max
  <1> QED  BY <1>5

-----------------------------------------------------------------------------
(* Induction over positions, with a set in place of a predicate.           *)

LEMMA Induction ==
    ASSUME NEW a \in Nat, NEW b \in Nat, NEW T,
           a <= b => a \in T,
           \A i \in a .. b - 1 : i \in T => i + 1 \in T
    PROVE  \A i \in a .. b : i \in T
  <1> DEFINE C == {i \in a .. b : i \notin T}
  <1> SUFFICES ASSUME C # {}  PROVE FALSE
      OBVIOUS
  <1>1. PICK i \in C : \A j \in C : i <= j
      <2>1. C \in SUBSET Nat
          OBVIOUS
      <2> HIDE DEF C
      <2> QED  BY <2>1, LeastNatural
  <1>2. i \in a .. b /\ i \notin T
      BY <1>1
  <1>3. CASE i = a
      BY <1>2, <1>3
  <1>4. CASE i # a
      <2>1. i - 1 \in a .. b - 1 /\ i - 1 \in a .. b /\ (i - 1) + 1 = i
          BY <1>2, <1>4
      <2>2. i - 1 \in T
          <3> SUFFICES ASSUME i - 1 \notin T  PROVE FALSE
              OBVIOUS
          <3>1. i - 1 \in C
              BY <2>1
          <3>2. i <= i - 1
              BY <1>1, <3>1
          <3> QED  BY <1>2, <3>2
      <2> QED  BY <1>2, <2>1, <2>2
  <1> QED  BY <1>3, <1>4

-----------------------------------------------------------------------------
(* FlattenSeq, the concatenation repairToolPairing builds its output with.  *)

LEMMA Concat ==
    ASSUME NEW S, NEW s \in Seq(S), NEW t \in Seq(S)
    PROVE  /\ s \o t \in Seq(S) /\ Len(s \o t) = Len(s) + Len(t)
           /\ Len(s) \in Nat /\ Len(t) \in Nat
           /\ \A i \in 1 .. Len(s) : (s \o t)[i] = s[i]
           /\ \A i \in 1 .. Len(t) : (s \o t)[Len(s) + i] = t[i]
  BY ConcatProperties

LEMMA ConcatFirst ==
    ASSUME NEW S, NEW s \in Seq(S), NEW t \in Seq(S), NEW k \in 1 .. Len(s)
    PROVE  k \in 1 .. Len(s \o t) /\ (s \o t)[k] = s[k]
  BY Concat

LEMMA ConcatSecond ==
    ASSUME NEW S, NEW s \in Seq(S), NEW t \in Seq(S), NEW k \in 1 .. Len(t)
    PROVE  Len(s) + k \in 1 .. Len(s \o t) /\ (s \o t)[Len(s) + k] = t[k]
  BY Concat

LEMMA ConcatHead ==
    ASSUME NEW S, NEW s \in Seq(S), NEW t \in Seq(S), Len(s) > 0
    PROVE  Len(s \o t) > 0 /\ (s \o t)[1] = s[1]
  <1> DEFINE c == s \o t
  <1>1. 1 \in 1 .. Len(c) /\ c[1] = s[1] /\ Len(c) \in Nat
      <2>1. 1 \in 1 .. Len(s)
          OBVIOUS
      <2>2. \A k \in 1 .. Len(s) : k \in 1 .. Len(c) /\ c[k] = s[k]
          BY ConcatFirst
      <2>3. Len(c) \in Nat
          BY Concat
      <2> HIDE DEF c
      <2> QED  BY <2>1, <2>2, <2>3
  <1> HIDE DEF c
  <1>2. Len(c) > 0 /\ c[1] = s[1]
      BY <1>1
  <1> QED  BY <1>2 DEF c

\* The partial concatenations of ss, up to its i-th member.
IsFlat(ss, n, f) ==
    f = [i \in 1 .. n |-> IF i = 1 THEN ss[i] ELSE f[i - 1] \o ss[i]]

LEMMA FlatExists ==
    ASSUME NEW ss, NEW n \in Nat, n > 0
    PROVE  \E f : IsFlat(ss, n, f)
  <1> DEFINE T == {m \in Nat : \E f : IsFlat(ss, m, f)}
  <1>1. 1 \in T
      <2> DEFINE f == [i \in 1 .. 1 |-> ss[i]]
      <2>1. \A i \in 1 .. 1 : f[i] = IF i = 1 THEN ss[i] ELSE f[i - 1] \o ss[i]
          OBVIOUS
      <2>2. f = [i \in 1 .. 1 |-> f[i]]
          OBVIOUS
      <2> DEFINE G(i) == IF i = 1 THEN ss[i] ELSE f[i - 1] \o ss[i]
      <2>3. \A i \in 1 .. 1 : f[i] = G(i)
          BY <2>1
      <2> HIDE DEF f, G
      <2>4. f = [i \in 1 .. 1 |-> G(i)]
          BY <2>2, <2>3
      <2>5. IsFlat(ss, 1, f)
          BY <2>4, Zenon DEF IsFlat, G
      <2> QED  BY <2>5
  <1>2. ASSUME NEW m \in 1 .. n - 1, m \in T
        PROVE  m + 1 \in T
      <2>1. PICK f : IsFlat(ss, m, f)
          BY <1>2
      <2>2. \A i \in 1 .. m : f[i] = IF i = 1 THEN ss[i] ELSE f[i - 1] \o ss[i]
          BY <2>1 DEF IsFlat
      <2> DEFINE e == [i \in 1 .. m + 1 |-> IF i = m + 1 THEN f[m] \o ss[i] ELSE f[i]]
                 G(i) == IF i = 1 THEN ss[i] ELSE e[i - 1] \o ss[i]
      <2>3. ASSUME NEW i \in 1 .. m + 1
            PROVE  e[i] = G(i)
          <3>1. CASE i = m + 1
              <4>1. i - 1 = m /\ i - 1 \in 1 .. m + 1 /\ i - 1 # m + 1 /\ i # 1
                  BY <3>1
              <4>2. e[i - 1] = f[m] /\ e[i] = f[m] \o ss[i]
                  BY <3>1, <4>1
              <4> HIDE DEF e
              <4> QED  BY <4>1, <4>2
          <3>2. CASE i # m + 1 /\ i # 1
              <4>1. e[i - 1] = f[i - 1] /\ e[i] = f[i] /\ i \in 1 .. m
                  BY <3>2
              <4> HIDE DEF e
              <4> QED  BY <2>2, <3>2, <4>1
          <3>3. CASE i # m + 1 /\ i = 1
              <4>1. e[i] = f[i] /\ i \in 1 .. m
                  BY <3>3
              <4> HIDE DEF e
              <4> QED  BY <2>2, <3>3, <4>1
          <3> QED  BY <3>1, <3>2, <3>3
      <2>4. e = [i \in 1 .. m + 1 |-> e[i]]
          OBVIOUS
      <2> HIDE DEF e, G
      <2>5. e = [i \in 1 .. m + 1 |-> G(i)]
          BY <2>3, <2>4
      <2>6. IsFlat(ss, m + 1, e)
          BY <2>5, Zenon DEF IsFlat, G
      <2> QED  BY <2>6
  <1> HIDE DEF T
  <1>3. \A i \in 1 .. n : i \in T
      BY <1>1, <1>2, Induction
  <1>4. n \in T
      BY <1>3
  <1> QED  BY <1>4 DEF T

LEMMA FlatIs ==
    ASSUME NEW S, NEW ss \in Seq(Seq(S)), Len(ss) > 0
    PROVE  \E f : /\ FlattenSeq(ss) = f[Len(ss)]
                  /\ f[1] = ss[1]
                  /\ \A i \in 1 .. Len(ss) - 1 : f[i + 1] = f[i] \o ss[i + 1]
                  /\ \A i \in 1 .. Len(ss) : f[i] \in Seq(S)
  <1> DEFINE f == CHOOSE f : IsFlat(ss, Len(ss), f)
             n == Len(ss)
  <1>1. n \in Nat /\ n > 0
      OBVIOUS
  <1>2. IsFlat(ss, n, f)
      BY <1>1, FlatExists
  <1>3. FlattenSeq(ss) = f[n]
      <2>1. n # 0
          BY <1>1
      <2> QED  BY <2>1, Zenon DEF FlattenSeq, IsFlat
  <1> HIDE DEF f
  <1>4. \A i \in 1 .. n : f[i] = IF i = 1 THEN ss[i] ELSE f[i - 1] \o ss[i]
      BY <1>2 DEF IsFlat
  <1>5. f[1] = ss[1]
      BY <1>1, <1>4
  <1>6. ASSUME NEW i \in 1 .. n - 1
        PROVE  f[i + 1] = f[i] \o ss[i + 1]
      <2>1. i + 1 \in 1 .. n /\ i + 1 # 1 /\ (i + 1) - 1 = i
          BY <1>1
      <2> QED  BY <1>4, <2>1
  <1> DEFINE T == {i \in 1 .. n : f[i] \in Seq(S)}
  <1>7. 1 \in T
      BY <1>1, <1>5
  <1>8. ASSUME NEW i \in 1 .. n - 1, i \in T
        PROVE  i + 1 \in T
      <2>1. i + 1 \in 1 .. n /\ ss[i + 1] \in Seq(S) /\ f[i] \in Seq(S)
          BY <1>1, <1>8
      <2>2. f[i + 1] \in Seq(S)
          BY <1>6, <2>1, Concat
      <2> QED  BY <2>1, <2>2
  <1>9. \A i \in 1 .. n : i \in T
      <2> HIDE DEF T
      <2> QED  BY <1>1, <1>7, <1>8, Induction
  <1> QED  BY <1>3, <1>5, <1>6, <1>9

\* The concatenation is a sequence over the members' elements; it starts like
\* the first member and holds what any member holds.
LEMMA FlatFacts ==
    ASSUME NEW S, NEW ss \in Seq(Seq(S))
    PROVE  /\ FlattenSeq(ss) \in Seq(S)
           /\ Len(ss) > 0 /\ ss[1] # <<>> =>
                FlattenSeq(ss) # <<>> /\ FlattenSeq(ss)[1] = ss[1][1]
           /\ \A j \in 1 .. Len(ss) : \A k \in 1 .. Len(ss[j]) :
                \E m \in 1 .. Len(FlattenSeq(ss)) : FlattenSeq(ss)[m] = ss[j][k]
  <1> DEFINE n == Len(ss)
  <1>1. n \in Nat
      OBVIOUS
  <1>2. CASE n = 0
      <2>1. FlattenSeq(ss) = ss /\ ss = <<>>
          BY <1>2 DEF FlattenSeq
      <2> QED  BY <1>2, <2>1
  <1>3. CASE n > 0
      <2>1. PICK f : /\ FlattenSeq(ss) = f[n]
                     /\ f[1] = ss[1]
                     /\ \A i \in 1 .. n - 1 : f[i + 1] = f[i] \o ss[i + 1]
                     /\ \A i \in 1 .. n : f[i] \in Seq(S)
          BY <1>3, FlatIs
      <2>2. n \in 1 .. n /\ \A i \in 1 .. n : ss[i] \in Seq(S)
          BY <1>1, <1>3
      <2> HIDE DEF n
      <2>3. ASSUME ss[1] # <<>>
            PROVE  f[n] # <<>> /\ f[n][1] = ss[1][1]
          <3> DEFINE T == {i \in 1 .. n : Len(f[i]) > 0 /\ f[i][1] = ss[1][1]}
          <3>1. 1 \in T
              <4>1. 1 \in 1 .. n /\ ss[1] \in Seq(S)
                  BY <1>1, <1>3, <2>2
              <4>2. Len(ss[1]) > 0
                  BY <2>3, <4>1
              <4> QED  BY <2>1, <4>1, <4>2
          <3>2. ASSUME NEW i \in 1 .. n - 1, i \in T
                PROVE  i + 1 \in T
              <4>1. /\ i \in 1 .. n /\ i + 1 \in 1 .. n
                    /\ f[i] \in Seq(S) /\ ss[i + 1] \in Seq(S)
                    /\ f[i + 1] = f[i] \o ss[i + 1]
                    /\ Len(f[i]) > 0 /\ f[i][1] = ss[1][1]
                  <5>1. i \in 1 .. n /\ i + 1 \in 1 .. n
                      BY <1>1
                  <5>2. Len(f[i]) > 0 /\ f[i][1] = ss[1][1]
                      BY <3>2
                  <5> HIDE DEF T
                  <5> QED  BY <2>1, <2>2, <5>1, <5>2
              <4>2. /\ Len(f[i] \o ss[i + 1]) > 0
                    /\ (f[i] \o ss[i + 1])[1] = f[i][1]
                  BY <4>1, ConcatHead, Zenon
              <4> QED  BY <4>1, <4>2
          <3>3. \A i \in 1 .. n : i \in T
              <4> HIDE DEF T
              <4> QED  BY <1>1, <3>1, <3>2, Induction
          <3>4. f[n] \in Seq(S) /\ Len(f[n]) > 0 /\ f[n][1] = ss[1][1]
              BY <2>1, <2>2, <3>3
          <3> QED  BY <3>4
      <2>4. ASSUME NEW j \in 1 .. n, NEW k \in 1 .. Len(ss[j])
            PROVE  \E m \in 1 .. Len(f[n]) : f[n][m] = ss[j][k]
          <3> DEFINE x == ss[j][k]
                     T == {i \in 1 .. n : \E m \in 1 .. Len(f[i]) : f[i][m] = x}
          <3>1. j \in T
              <4>1. CASE j = 1
                  BY <2>1, <4>1
              <4>2. CASE j # 1
                  <5>1. /\ j - 1 \in 1 .. n - 1 /\ j - 1 \in 1 .. n /\ (j - 1) + 1 = j
                      BY <1>1, <4>2
                  <5>2. f[j - 1] \in Seq(S) /\ ss[j] \in Seq(S) /\ f[j] = f[j - 1] \o ss[j]
                      BY <2>1, <2>2, <5>1
                  <5>3. /\ Len(f[j - 1]) + k \in 1 .. Len(f[j - 1] \o ss[j])
                        /\ (f[j - 1] \o ss[j])[Len(f[j - 1]) + k] = x
                      BY <5>2, ConcatSecond
                  <5> QED  BY <5>2, <5>3
              <4> QED  BY <4>1, <4>2
          <3>2. ASSUME NEW i \in j .. n - 1, i \in T
                PROVE  i + 1 \in T
              <4>1. /\ i \in 1 .. n - 1 /\ i \in 1 .. n /\ i + 1 \in 1 .. n
                  BY <1>1
              <4>2. /\ f[i] \in Seq(S) /\ ss[i + 1] \in Seq(S)
                    /\ f[i + 1] = f[i] \o ss[i + 1]
                  BY <2>1, <2>2, <4>1
              <4>3. PICK m \in 1 .. Len(f[i]) : f[i][m] = x
                  BY <3>2
              <4> HIDE DEF x
              <4>4. /\ m \in 1 .. Len(f[i] \o ss[i + 1])
                    /\ (f[i] \o ss[i + 1])[m] = x
                  BY <4>2, <4>3, ConcatFirst
              <4> QED  BY <4>1, <4>2, <4>4
          <3>3. \A i \in j .. n : i \in T
              <4> HIDE DEF T
              <4>1. j \in Nat
                  OBVIOUS
              <4> QED  BY <1>1, <3>1, <3>2, <4>1, Induction
          <3>4. n \in j .. n
              BY <1>1
          <3> QED  BY <3>3, <3>4
      <2>5. f[n] \in Seq(S)
          BY <2>1, <2>2
      <2>6. FlattenSeq(ss) = f[n]
          BY <2>1
      <2>7. FlattenSeq(ss) \in Seq(S)
          BY <2>5, <2>6
      <2>8. ss[1] # <<>> => FlattenSeq(ss) # <<>> /\ FlattenSeq(ss)[1] = ss[1][1]
          BY <2>3, <2>6
      <2>9. \A j \in 1 .. n : \A k \in 1 .. Len(ss[j]) :
              \E m \in 1 .. Len(FlattenSeq(ss)) : FlattenSeq(ss)[m] = ss[j][k]
          BY <2>4, <2>6
      <2> QED  BY <2>7, <2>8, <2>9, Zenon DEF n
  <1> QED  BY <1>1, <1>2, <1>3
-----------------------------------------------------------------------------
(* Conversations.                                                          *)

\* ResultRun counts the results up to the first item that is none.
LEMMA ResultRunIs ==
    ASSUME NEW h \in Seq(ConversationItem), NEW i \in 1 .. Len(h)
    PROVE  /\ ResultRun(h, i) \in 0 .. Len(h) - i
           /\ \A j \in i + 1 .. i + ResultRun(h, i) : h[j].role = "tool"
           /\ i + ResultRun(h, i) < Len(h) => h[i + ResultRun(h, i) + 1].role # "tool"
  <1> DEFINE T == {k \in 0 .. Len(h) - i : \A j \in i + 1 .. i + k : h[j].role = "tool"}
             r == Max(T)
  <1>1. Len(h) \in Nat
      OBVIOUS
  <1>2. T \in SUBSET Int /\ 0 \in T /\ \A m \in T : m <= Len(h)
      BY <1>1
  <1>3. r \in T /\ \A m \in T : m <= r
      <2> HIDE DEF T
      <2>1. Len(h) \in Int /\ T # {}
          BY <1>1, <1>2
      <2> QED  BY <1>2, <2>1, GreatestBounded
  <1>4. ASSUME i + r < Len(h), h[i + r + 1].role = "tool"
        PROVE  FALSE
      <2>1. r \in 0 .. Len(h) - i /\ \A j \in i + 1 .. i + r : h[j].role = "tool"
          BY <1>3
      <2> HIDE DEF r
      <2>2. \A j \in i + 1 .. i + (r + 1) : h[j].role = "tool"
          BY <1>4, <2>1
      <2>3. r + 1 \in T
          BY <1>1, <1>4, <2>1, <2>2
      <2>4. r + 1 <= r
          BY <1>3, <2>3
      <2> QED  BY <2>1, <2>4
  <1>5. ResultRun(h, i) = r
      BY DEF ResultRun
  <1> QED  BY <1>3, <1>4, <1>5

LEMMA ResultRunUnique ==
    ASSUME NEW h \in Seq(ConversationItem), NEW i \in 1 .. Len(h),
           NEW k \in 0 .. Len(h) - i,
           \A j \in i + 1 .. i + k : h[j].role = "tool",
           i + k < Len(h) => h[i + k + 1].role # "tool"
    PROVE  ResultRun(h, i) = k
  <1> DEFINE r == ResultRun(h, i)
  <1>1. /\ r \in 0 .. Len(h) - i
        /\ \A j \in i + 1 .. i + r : h[j].role = "tool"
        /\ i + r < Len(h) => h[i + r + 1].role # "tool"
      BY ResultRunIs
  <1> HIDE DEF r
  <1>2. ~(r < k)
      <2> SUFFICES ASSUME r < k  PROVE FALSE
          OBVIOUS
      <2>1. i + r + 1 \in i + 1 .. i + k /\ i + r < Len(h)
          BY <1>1
      <2> QED  BY <1>1, <2>1
  <1>3. ~(k < r)
      <2> SUFFICES ASSUME k < r  PROVE FALSE
          OBVIOUS
      <2>1. i + k + 1 \in i + 1 .. i + r /\ i + k < Len(h)
          BY <1>1
      <2> QED  BY <1>1, <2>1
  <1>4. r = k
      BY <1>1, <1>2, <1>3
  <1> QED  BY <1>4 DEF r

-----------------------------------------------------------------------------
(* repairToolPairing.                                                      *)

\* What a calling message gets for the calls nobody answered.
Unknown(calls, known) ==
    FlattenSeq([k \in DOMAIN calls |->
                   IF calls[k] \in known THEN <<>> ELSE <<UnrecordedToolResult(calls[k])>>])

LEMMA UnknownType ==
    ASSUME NEW calls \in Seq(Nat), NEW known
    PROVE  /\ Unknown(calls, known) \in Seq(ConversationItem)
           /\ Len(calls) = 1 /\ calls[1] \in known => Unknown(calls, known) = <<>>
  <1> DEFINE ss == [k \in DOMAIN calls |->
                      IF calls[k] \in known THEN <<>> ELSE <<UnrecordedToolResult(calls[k])>>]
  <1>1. Len(calls) \in Nat /\ DOMAIN calls = 1 .. Len(calls)
      OBVIOUS
  <1>2. \A c \in Nat : UnrecordedToolResult(c) \in ConversationItem
      BY DEF UnrecordedToolResult, ToolResult, ConversationItem
  <1>3. ASSUME NEW k \in DOMAIN calls
        PROVE  ss[k] \in Seq(ConversationItem)
      <2>1. calls[k] \in Nat
          OBVIOUS
      <2>2. <<UnrecordedToolResult(calls[k])>> \in Seq(ConversationItem)
          BY <1>2, <2>1
      <2> QED  BY <2>2
  <1>4. ss \in Seq(Seq(ConversationItem)) /\ Len(ss) = Len(calls)
      <2>1. ss \in [1 .. Len(calls) -> Seq(ConversationItem)]
          BY <1>1, <1>3
      <2> HIDE DEF ss
      <2> QED  BY <1>1, <2>1
  <1>5. FlattenSeq(ss) \in Seq(ConversationItem)
      <2> HIDE DEF ss
      <2> QED  BY <1>4, FlatFacts
  <1>6. ASSUME Len(calls) = 1, calls[1] \in known
        PROVE  FlattenSeq(ss) = <<>>
      <2>1. ss[1] = <<>> /\ Len(ss) = 1 /\ Len(ss) > 0
          BY <1>1, <1>4, <1>6
      <2> HIDE DEF ss
      <2>2. PICK f : /\ FlattenSeq(ss) = f[Len(ss)]
                     /\ f[1] = ss[1]
          BY <1>4, <2>1, FlatIs
      <2> QED  BY <2>1, <2>2
  <1> QED  BY <1>5, <1>6 DEF Unknown

LEMMA BlockIs ==
    ASSUME NEW h \in Seq(ConversationItem), NEW i \in 1 .. Len(h), NEW skip \in Nat
    PROVE  /\ h[i].role = "tool" => RepairBlock(h, i, skip) = <<>>
           /\ h[i].role # "tool" /\ ~IsCalling(h[i]) => RepairBlock(h, i, skip) = <<h[i]>>
           /\ IsCalling(h[i]) =>
                RepairBlock(h, i, skip) =
                  <<h[i]>> \o SubSeq(h, i + 1, i + ResultRun(h, i))
                    \o Unknown(h[i].calls,
                               {SubSeq(h, i + 1, i + ResultRun(h, i))[k].call :
                                   k \in DOMAIN SubSeq(h, i + 1, i + ResultRun(h, i))}
                                 \union {skip})
  BY DEF RepairBlock, IsCalling, Unknown

LEMMA BlockType ==
    ASSUME NEW h \in Seq(ConversationItem), NEW i \in 1 .. Len(h), NEW skip \in Nat
    PROVE  RepairBlock(h, i, skip) \in Seq(ConversationItem)
  <1>1. h[i] \in ConversationItem /\ <<h[i]>> \in Seq(ConversationItem) /\ Len(h) \in Nat
      OBVIOUS
  <1>2. CASE IsCalling(h[i])
      <2> DEFINE r == ResultRun(h, i)
                 results == SubSeq(h, i + 1, i + r)
                 known == {results[k].call : k \in DOMAIN results} \union {skip}
      <2>1. r \in 0 .. Len(h) - i
          BY ResultRunIs
      <2>2. results \in Seq(ConversationItem)
          <3> HIDE DEF r
          <3>1. \A j \in i + 1 .. i + r : j \in 1 .. Len(h)
              BY <1>1, <2>1
          <3> QED  BY <1>1, <2>1, <3>1
      <2>3. Unknown(h[i].calls, known) \in Seq(ConversationItem)
          <3>1. h[i].calls \in Seq(Nat)
              BY <1>1 DEF ConversationItem
          <3> HIDE DEF known
          <3> QED  BY <3>1, UnknownType
      <2>4. RepairBlock(h, i, skip) = <<h[i]>> \o results \o Unknown(h[i].calls, known)
          BY <1>2, BlockIs
      <2> HIDE DEF results, known
      <2>5. <<h[i]>> \o results \in Seq(ConversationItem)
          BY <1>1, <2>2, Concat
      <2>6. (<<h[i]>> \o results) \o Unknown(h[i].calls, known) \in Seq(ConversationItem)
          BY <2>3, <2>5, Concat
      <2> QED  BY <2>4, <2>6
  <1>3. CASE h[i].role = "tool"
      <2>1. RepairBlock(h, i, skip) = <<>>
          BY <1>3, BlockIs
      <2> QED  BY <2>1
  <1>4. CASE h[i].role # "tool" /\ ~IsCalling(h[i])
      <2>1. RepairBlock(h, i, skip) = <<h[i]>>
          BY <1>4, BlockIs
      <2> QED  BY <1>1, <2>1
  <1> QED  BY <1>2, <1>3, <1>4

LEMMA RepairFacts ==
    ASSUME NEW h \in Seq(ConversationItem), NEW skip \in Nat
    PROVE  /\ RepairToolPairing(h, skip) \in Seq(ConversationItem)
           /\ Opened(h) => Opened(RepairToolPairing(h, skip))
           /\ \A i \in 1 .. Len(h) : Anchored(h, i) =>
                \E m \in 1 .. Len(RepairToolPairing(h, skip)) :
                    RepairToolPairing(h, skip)[m] = h[i]
  <1> DEFINE ss == [i \in DOMAIN h |-> RepairBlock(h, i, skip)]
             g == FlattenSeq(ss)
  <1>1. Len(h) \in Nat /\ DOMAIN h = 1 .. Len(h)
      OBVIOUS
  <1>2. ss \in Seq(Seq(ConversationItem)) /\ Len(ss) = Len(h)
      <2>1. \A i \in 1 .. Len(h) : RepairBlock(h, i, skip) \in Seq(ConversationItem)
          BY BlockType
      <2>2. ss \in [1 .. Len(h) -> Seq(ConversationItem)]
          BY <1>1, <2>1
      <2> HIDE DEF ss
      <2> QED  BY <1>1, <2>2
  <1>3. \A i \in 1 .. Len(h) : ss[i] = RepairBlock(h, i, skip)
      BY <1>1
  <1>4. RepairToolPairing(h, skip) = g
      BY DEF RepairToolPairing
  <1> HIDE DEF ss
  <1>5. /\ g \in Seq(ConversationItem)
        /\ Len(ss) > 0 /\ ss[1] # <<>> => g # <<>> /\ g[1] = ss[1][1]
        /\ \A j \in 1 .. Len(ss) : \A k \in 1 .. Len(ss[j]) :
              \E m \in 1 .. Len(g) : g[m] = ss[j][k]
      BY <1>2, FlatFacts
  <1> HIDE DEF g
  <1>6. ASSUME Opened(h)
        PROVE  Opened(g)
      <2>1. 1 \in 1 .. Len(h) /\ h[1].role = "user" /\ h[1].n = 1
          BY <1>1, <1>6 DEF Opened
      <2>2. RepairBlock(h, 1, skip) = <<h[1]>>
          BY <2>1, BlockIs DEF IsCalling
      <2>3. ss[1] = <<h[1]>> /\ Len(ss) > 0 /\ ss[1] # <<>> /\ ss[1][1] = h[1]
          BY <1>1, <1>2, <1>3, <2>1, <2>2
      <2>4. g # <<>> /\ g[1] = h[1]
          BY <1>5, <2>3
      <2> QED  BY <2>1, <2>4 DEF Opened
  <1>7. ASSUME NEW i \in 1 .. Len(h), Anchored(h, i)
        PROVE  \E m \in 1 .. Len(g) : g[m] = h[i]
      <2>1. CASE h[i].role = "user"
          <3>1. ss[i] = <<h[i]>>
              BY <1>3, <2>1, BlockIs DEF IsCalling
          <3>2. i \in 1 .. Len(ss) /\ 1 \in 1 .. Len(ss[i]) /\ ss[i][1] = h[i]
              BY <1>2, <3>1
          <3> QED  BY <1>5, <3>2
      <2>2. CASE h[i].role = "tool" /\ i > 1 /\ IsCalling(h[i - 1])
          <3> DEFINE j == i - 1
                     r == ResultRun(h, j)
                     results == SubSeq(h, j + 1, j + r)
                     rest == Unknown(h[j].calls,
                                     {results[k].call : k \in DOMAIN results} \union {skip})
          <3>1. j \in 1 .. Len(h) /\ j + 1 = i /\ IsCalling(h[j]) /\ h[j] \in ConversationItem
              BY <1>1, <2>2
          <3>2. /\ r \in 0 .. Len(h) - j
                /\ j + r < Len(h) => h[j + r + 1].role # "tool"
              BY <3>1, ResultRunIs
          <3>3. ss[j] = <<h[j]>> \o results \o rest
              BY <1>3, <3>1, BlockIs
          <3>4. rest \in Seq(ConversationItem)
              <4>1. h[j].calls \in Seq(Nat)
                  BY <3>1 DEF ConversationItem
              <4> QED  BY <4>1, UnknownType
          <3> HIDE DEF rest, r
          <3>5. r >= 1
              <4> SUFFICES ASSUME r = 0  PROVE FALSE
                  BY <3>2
              <4> QED  BY <1>1, <2>2, <3>1, <3>2
          <3>6. results \in Seq(ConversationItem) /\ Len(results) >= 1 /\ results[1] = h[i]
              <4>1. \A k \in j + 1 .. j + r : k \in 1 .. Len(h)
                  BY <1>1, <3>1, <3>2
              <4> HIDE DEF j
              <4> QED  BY <1>1, <3>1, <3>2, <3>5, <4>1
          <3> HIDE DEF results
          <3> DEFINE front == <<h[j]>> \o results
          <3>7. /\ front \in Seq(ConversationItem) /\ 2 \in 1 .. Len(front)
                /\ front[2] = h[i]
              <4>1. <<h[j]>> \in Seq(ConversationItem) /\ Len(<<h[j]>>) = 1
                  BY <3>1
              <4>2. Len(results) \in Nat /\ 1 \in 1 .. Len(results)
                  BY <3>6
              <4>3. /\ front \in Seq(ConversationItem)
                    /\ Len(front) = Len(<<h[j]>>) + Len(results)
                    /\ \A k \in 1 .. Len(results) : front[Len(<<h[j]>>) + k] = results[k]
                  BY <3>6, <4>1, Concat
              <4> HIDE DEF front
              <4> QED  BY <3>6, <4>1, <4>2, <4>3
          <3> HIDE DEF front
          <3>8. 2 \in 1 .. Len(front \o rest) /\ (front \o rest)[2] = h[i]
              <4>1. \A k \in 1 .. Len(front) :
                       k \in 1 .. Len(front \o rest) /\ (front \o rest)[k] = front[k]
                  BY <3>4, <3>7, ConcatFirst
              <4> QED  BY <3>7, <4>1
          <3>9. ss[j] = front \o rest
              BY <3>3 DEF front
          <3>10. 2 \in 1 .. Len(ss[j]) /\ ss[j][2] = h[i] /\ j \in 1 .. Len(ss)
              BY <1>2, <3>1, <3>8, <3>9
          <3> QED  BY <1>5, <3>10
      <2> QED  BY <1>7, <2>1, <2>2 DEF Anchored
  <1> QED  BY <1>4, <1>5, <1>6, <1>7

\* SubSeq, as a sequence of its own.
LEMMA Part ==
    ASSUME NEW S, NEW h \in Seq(S), NEW a \in Nat, NEW b \in Nat,
           1 <= a, a <= b + 1, b <= Len(h)
    PROVE  /\ SubSeq(h, a, b) \in Seq(S) /\ Len(SubSeq(h, a, b)) = b - a + 1
           /\ \A k \in 1 .. b - a + 1 : SubSeq(h, a, b)[k] = h[a + k - 1]
  <1>1. Len(h) \in Nat /\ \A k \in a .. b : k \in 1 .. Len(h) /\ h[k] \in S
      OBVIOUS
  <1>2. SubSeq(h, a, b) = [k \in 1 .. b - a + 1 |-> h[a + k - 1]]
      <2>1. b - a + 1 = (1 + b) - a
          OBVIOUS
      <2> QED  BY <1>1
  <1>3. \A k \in 1 .. b - a + 1 : a + k - 1 \in a .. b
      OBVIOUS
  <1>4. [k \in 1 .. b - a + 1 |-> h[a + k - 1]] \in [1 .. b - a + 1 -> S]
      BY <1>1, <1>3
  <1>5. b - a + 1 \in Nat
      OBVIOUS
  <1> QED  BY <1>2, <1>4, <1>5

LEMMA Prefix ==
    ASSUME NEW S, NEW h \in Seq(S), NEW b \in Nat, b <= Len(h)
    PROVE  /\ SubSeq(h, 1, b) \in Seq(S) /\ Len(SubSeq(h, 1, b)) = b
           /\ \A k \in 1 .. b : SubSeq(h, 1, b)[k] = h[k]
  <1>1. \A a \in Nat : 1 <= a /\ a <= b + 1 =>
          /\ SubSeq(h, a, b) \in Seq(S) /\ Len(SubSeq(h, a, b)) = b - a + 1
          /\ \A k \in 1 .. b - a + 1 : SubSeq(h, a, b)[k] = h[a + k - 1]
      BY Part
  <1>2. PICK a \in Nat : a = 1
      OBVIOUS
  <1>3. /\ SubSeq(h, a, b) \in Seq(S) /\ Len(SubSeq(h, a, b)) = b - a + 1
        /\ \A k \in 1 .. b - a + 1 : SubSeq(h, a, b)[k] = h[a + k - 1]
      BY <1>1, <1>2
  <1>4. b - a + 1 = b /\ \A k \in 1 .. b : a + k - 1 = k
      BY <1>2
  <1> QED  BY <1>2, <1>3, <1>4

\* Two sequences that agree everywhere.
LEMMA SameSeq ==
    ASSUME NEW S, NEW s \in Seq(S), NEW t \in Seq(S), Len(s) = Len(t),
           \A k \in 1 .. Len(s) : s[k] = t[k]
    PROVE  s = t
  BY SeqEqual

\* A beginning and the part behind it.
LEMMA PartsJoin ==
    ASSUME NEW S, NEW h \in Seq(S), NEW a \in Nat, NEW b \in Nat, a <= b, b <= Len(h)
    PROVE  SubSeq(h, 1, a) \o SubSeq(h, a + 1, b) = SubSeq(h, 1, b)
  <1> DEFINE x == SubSeq(h, 1, a)
             y == SubSeq(h, a + 1, b)
             z == SubSeq(h, 1, b)
  <1>1. Len(h) \in Nat
      OBVIOUS
  <1>2. x \in Seq(S) /\ Len(x) = a /\ \A k \in 1 .. a : x[k] = h[k]
      <2>1. /\ x \in Seq(S) /\ Len(x) = a - 1 + 1
            /\ \A k \in 1 .. a - 1 + 1 : x[k] = h[1 + k - 1]
          BY <1>1, Part
      <2> HIDE DEF x
      <2> QED  BY <2>1
  <1>3. y \in Seq(S) /\ Len(y) = b - a /\ \A k \in 1 .. b - a : y[k] = h[a + k]
      <2>1. /\ y \in Seq(S) /\ Len(y) = b - (a + 1) + 1
            /\ \A k \in 1 .. b - (a + 1) + 1 : y[k] = h[(a + 1) + k - 1]
          BY <1>1, Part
      <2> HIDE DEF y
      <2> QED  BY <2>1
  <1>4. z \in Seq(S) /\ Len(z) = b /\ \A k \in 1 .. b : z[k] = h[k]
      <2>1. /\ z \in Seq(S) /\ Len(z) = b - 1 + 1
            /\ \A k \in 1 .. b - 1 + 1 : z[k] = h[1 + k - 1]
          BY <1>1, Part
      <2> HIDE DEF z
      <2> QED  BY <2>1
  <1> HIDE DEF x, y, z
  <1> DEFINE c == x \o y
  <1>5. /\ c \in Seq(S) /\ Len(c) = Len(x) + Len(y)
        /\ \A i \in 1 .. Len(x) : c[i] = x[i]
        /\ \A i \in 1 .. Len(y) : c[Len(x) + i] = y[i]
      <2>1. x \in Seq(S) /\ y \in Seq(S)
          BY <1>2, <1>3
      <2> QED  BY <2>1, Concat
  <1> HIDE DEF c
  <1>6. ASSUME NEW k \in 1 .. b
        PROVE  c[k] = z[k]
      <2>1. CASE k <= a
          BY <1>2, <1>4, <1>5, <2>1
      <2>2. CASE k > a
          <3>1. k - a \in 1 .. b - a /\ a + (k - a) = k
              BY <2>2
          <3>2. c[a + (k - a)] = y[k - a] /\ y[k - a] = h[a + (k - a)]
              BY <1>2, <1>3, <1>5, <3>1
          <3> QED  BY <1>4, <3>1, <3>2
      <2> QED  BY <2>1, <2>2
  <1>7. Len(c) = Len(z)
      BY <1>2, <1>3, <1>4, <1>5
  <1>8. c = z
      BY <1>4, <1>5, <1>6, <1>7, SameSeq
  <1> QED  BY <1>8 DEF c, x, y, z

\* Where the block of item i ends in a settled conversation.
Through(h, i) == IF IsCalling(h[i]) THEN i + 1 ELSE i

LEMMA SettledBlock ==
    ASSUME NEW h \in Seq(ConversationItem), Settled(h), NEW i \in 1 .. Len(h),
           NEW skip \in Nat
    PROVE  /\ Through(h, i) \in i .. Len(h)
           /\ h[i].role = "tool" => RepairBlock(h, i, skip) = <<>>
           /\ h[i].role # "tool" => RepairBlock(h, i, skip) = SubSeq(h, i, Through(h, i))
  <1>1. /\ Len(h) \in Nat /\ DOMAIN h = 1 .. Len(h) /\ h[i] \in ConversationItem
        /\ \A k \in 1 .. Len(h) : h[k] \in ConversationItem
      OBVIOUS
  <1>2. CASE ~IsCalling(h[i])
      <2>1. Through(h, i) = i /\ i \in i .. Len(h)
          BY <1>1, <1>2 DEF Through
      <2>2. SubSeq(h, i, i) = <<h[i]>>
          <3>1. /\ SubSeq(h, i, i) \in Seq(ConversationItem)
                /\ Len(SubSeq(h, i, i)) = i - i + 1
                /\ \A k \in 1 .. i - i + 1 : SubSeq(h, i, i)[k] = h[i + k - 1]
              BY <1>1, Part
          <3> DEFINE t == SubSeq(h, i, i)
          <3>2. t \in Seq(ConversationItem) /\ Len(t) = 1 /\ t[1] = h[i]
              BY <3>1
          <3> HIDE DEF t
          <3>3. t = <<h[i]>>
              BY <1>1, <3>2
          <3> QED  BY <3>3 DEF t
      <2> QED  BY <1>2, <2>1, <2>2, BlockIs
  <1>3. CASE IsCalling(h[i])
      <2>1. /\ Len(h[i].calls) = 1 /\ i < Len(h) /\ i + 1 \in 1 .. Len(h)
            /\ h[i + 1].role = "tool" /\ h[i + 1].call = h[i].calls[1]
            /\ h[i].role # "tool"
          BY <1>1, <1>3 DEF Settled, IsCalling
      <2>2. i + 1 < Len(h) => h[i + 1 + 1].role # "tool"
          <3> SUFFICES ASSUME i + 1 < Len(h), h[i + 1 + 1].role = "tool"
                       PROVE  FALSE
              OBVIOUS
          <3>1. i + 1 + 1 \in DOMAIN h /\ (i + 1 + 1) - 1 = i + 1
              BY <1>1
          <3>2. IsCalling(h[i + 1])
              BY <3>1 DEF Settled
          <3> QED  BY <2>1, <3>2 DEF IsCalling
      <2>3. ResultRun(h, i) = 1
          <3>1. 1 \in 0 .. Len(h) - i
              BY <1>1, <2>1
          <3>2. \A j \in i + 1 .. i + 1 : h[j].role = "tool"
              BY <2>1
          <3> QED  BY <2>2, <3>1, <3>2, ResultRunUnique
      <2> DEFINE results == SubSeq(h, i + 1, i + 1)
                 known == {results[k].call : k \in DOMAIN results} \union {skip}
                 a == <<h[i]>>
      <2>4. /\ results \in Seq(ConversationItem) /\ Len(results) = 1
            /\ results[1] = h[i + 1]
          <3>1. /\ results \in Seq(ConversationItem)
                /\ Len(results) = (i + 1) - (i + 1) + 1
                /\ \A k \in 1 .. (i + 1) - (i + 1) + 1 : results[k] = h[(i + 1) + k - 1]
              BY <1>1, <2>1, Part
          <3> HIDE DEF results
          <3> QED  BY <3>1
      <2>5. Unknown(h[i].calls, known) = <<>>
          <3> HIDE DEF results
          <3>1. 1 \in DOMAIN results
              BY <2>4
          <3>2. h[i].calls[1] \in known
              BY <2>1, <2>4, <3>1
          <3>3. h[i].calls \in Seq(Nat)
              BY <1>1 DEF ConversationItem
          <3> HIDE DEF known
          <3> QED  BY <2>1, <3>2, <3>3, UnknownType
      <2>6. RepairBlock(h, i, skip) = a \o results \o <<>>
          <3>1. RepairBlock(h, i, skip) =
                  <<h[i]>> \o SubSeq(h, i + 1, i + ResultRun(h, i))
                    \o Unknown(h[i].calls,
                               {SubSeq(h, i + 1, i + ResultRun(h, i))[k].call :
                                   k \in DOMAIN SubSeq(h, i + 1, i + ResultRun(h, i))}
                                 \union {skip})
              BY <1>3, BlockIs, Zenon
          <3>2. RepairBlock(h, i, skip) = a \o results \o Unknown(h[i].calls, known)
              BY <2>3, <3>1, Zenon
          <3> QED  BY <2>5, <3>2, Zenon
      <2>7. a \in Seq(ConversationItem) /\ Len(a) = 1 /\ a[1] = h[i]
          BY <1>1
      <2> HIDE DEF results, a
      <2> DEFINE c == a \o results
                 t == SubSeq(h, i, i + 1)
      <2>8. /\ c \in Seq(ConversationItem) /\ Len(c) = 2 /\ c[1] = h[i] /\ c[2] = h[i + 1]
          <3>1. /\ c \in Seq(ConversationItem) /\ Len(c) = Len(a) + Len(results)
                /\ \A k \in 1 .. Len(a) : c[k] = a[k]
                /\ \A k \in 1 .. Len(results) : c[Len(a) + k] = results[k]
              <4>1. a \in Seq(ConversationItem) /\ results \in Seq(ConversationItem)
                  BY <2>4, <2>7
              <4> QED  BY <4>1, Concat
          <3> HIDE DEF c
          <3>2. c[1] = a[1]
              BY <2>7, <3>1
          <3>3. c[1 + 1] = results[1]
              BY <2>4, <2>7, <3>1
          <3> QED  BY <2>4, <2>7, <3>1, <3>2, <3>3
      <2>9. /\ t \in Seq(ConversationItem) /\ Len(t) = 2 /\ t[1] = h[i] /\ t[2] = h[i + 1]
          <3>1. /\ t \in Seq(ConversationItem) /\ Len(t) = (i + 1) - i + 1
                /\ \A k \in 1 .. (i + 1) - i + 1 : t[k] = h[i + k - 1]
              BY <1>1, <2>1, Part
          <3> HIDE DEF t
          <3> QED  BY <3>1
      <2> HIDE DEF c, t
      <2>10. c = t
          BY <2>8, <2>9, SameSeq
      <2>11. c \o <<>> = c
          BY <2>8
      <2>12. Through(h, i) = i + 1 /\ i + 1 \in i .. Len(h)
          BY <1>1, <1>3, <2>1 DEF Through
      <2> QED  BY <2>1, <2>6, <2>10, <2>11, <2>12 DEF c, t
  <1> QED  BY <1>2, <1>3

\* A settled conversation needs no repair.
LEMMA RepairSettled ==
    ASSUME NEW h \in Seq(ConversationItem), Settled(h), NEW skip \in Nat
    PROVE  RepairToolPairing(h, skip) = h
  <1> DEFINE ss == [i \in DOMAIN h |-> RepairBlock(h, i, skip)]
             n == Len(h)
  <1>1. n \in Nat /\ DOMAIN h = 1 .. n
      OBVIOUS
  <1>2. ss \in Seq(Seq(ConversationItem)) /\ Len(ss) = n
      <2>1. \A i \in 1 .. n : RepairBlock(h, i, skip) \in Seq(ConversationItem)
          BY BlockType
      <2>2. ss \in [1 .. n -> Seq(ConversationItem)]
          BY <1>1, <2>1
      <2> HIDE DEF ss
      <2> QED  BY <1>1, <2>2
  <1>3. /\ \A i \in 1 .. n : Through(h, i) \in i .. n
        /\ \A i \in 1 .. n : h[i].role = "tool" => ss[i] = <<>>
        /\ \A i \in 1 .. n : h[i].role # "tool" => ss[i] = SubSeq(h, i, Through(h, i))
      BY <1>1, SettledBlock
  <1>4. RepairToolPairing(h, skip) = FlattenSeq(ss)
      BY DEF RepairToolPairing
  <1> HIDE DEF ss
  <1>5. CASE n = 0
      <2>1. FlattenSeq(ss) = ss /\ ss = <<>> /\ h = <<>>
          BY <1>2, <1>5 DEF FlattenSeq
      <2> QED  BY <1>4, <2>1
  <1>6. CASE n > 0
      <2>1. PICK f : /\ FlattenSeq(ss) = f[n]
                     /\ f[1] = ss[1]
                     /\ \A i \in 1 .. n - 1 : f[i + 1] = f[i] \o ss[i + 1]
                     /\ \A i \in 1 .. n : f[i] \in Seq(ConversationItem)
          <3>1. Len(ss) > 0
              BY <1>2, <1>6
          <3>2. \E f : /\ FlattenSeq(ss) = f[Len(ss)]
                       /\ f[1] = ss[1]
                       /\ \A i \in 1 .. Len(ss) - 1 : f[i + 1] = f[i] \o ss[i + 1]
                       /\ \A i \in 1 .. Len(ss) : f[i] \in Seq(ConversationItem)
              BY <1>2, <3>1, FlatIs, Zenon
          <3> QED  BY <1>2, <3>2, Zenon
      <2> DEFINE T == {i \in 1 .. n : f[i] = SubSeq(h, 1, Through(h, i))}
      <2>2. 1 \in T
          <3>1. 1 \in 1 .. n /\ h[1].role # "tool"
              BY <1>1, <1>6 DEF Settled
          <3>2. f[1] = SubSeq(h, 1, Through(h, 1))
              BY <1>3, <2>1, <3>1
          <3> QED  BY <3>1, <3>2
      <2>3. ASSUME NEW i \in 1 .. n - 1, i \in T
            PROVE  i + 1 \in T
          <3>1. /\ i \in 1 .. n /\ i + 1 \in 1 .. n /\ (i + 1) - 1 = i
              BY <1>1
          <3>2. f[i] = SubSeq(h, 1, Through(h, i)) /\ f[i] \in Seq(ConversationItem)
              BY <2>1, <2>3, <3>1
          <3>3. f[i + 1] = f[i] \o ss[i + 1]
              BY <2>1
          <3>4. CASE h[i + 1].role = "tool"
              <4>1. IsCalling(h[i]) /\ ~IsCalling(h[i + 1])
                  BY <1>1, <3>1, <3>4 DEF Settled, IsCalling
              <4>2. Through(h, i) = i + 1 /\ Through(h, i + 1) = i + 1
                  BY <4>1 DEF Through
              <4>3. f[i + 1] = f[i]
                  BY <1>3, <3>1, <3>2, <3>3, <3>4
              <4> QED  BY <3>1, <3>2, <4>2, <4>3
          <3>5. CASE h[i + 1].role # "tool"
              <4>1. ~IsCalling(h[i])
                  BY <1>1, <3>1, <3>5 DEF Settled
              <4>2. Through(h, i) = i
                  BY <4>1 DEF Through
              <4> DEFINE b == Through(h, i + 1)
              <4>3. b \in i + 1 .. n /\ ss[i + 1] = SubSeq(h, i + 1, b)
                  BY <1>3, <3>1, <3>5
              <4> HIDE DEF b
              <4>4. SubSeq(h, 1, i) \o SubSeq(h, i + 1, b) = SubSeq(h, 1, b)
                  BY <1>1, <3>1, <4>3, PartsJoin
              <4>5. f[i + 1] = SubSeq(h, 1, b)
                  BY <3>2, <3>3, <4>2, <4>3, <4>4
              <4> QED  BY <3>1, <4>5 DEF b
          <3> QED  BY <3>4, <3>5
      <2>4. \A i \in 1 .. n : i \in T
          <3> HIDE DEF T, n
          <3> QED  BY <1>1, <2>2, <2>3, Induction
      <2>5. n \in 1 .. n
          BY <1>1, <1>6
      <2>6. f[n] = SubSeq(h, 1, Through(h, n))
          BY <2>4, <2>5
      <2>7. Through(h, n) = n
          BY <1>3, <2>5
      <2>8. SubSeq(h, 1, n) = h
          OBVIOUS
      <2> QED  BY <1>4, <2>1, <2>6, <2>7, <2>8
  <1> QED  BY <1>1, <1>5, <1>6

-----------------------------------------------------------------------------
(* The fold, one event at a time.                                          *)

IsFolded(events, n, f) ==
    f = [k \in 0 .. n |-> IF k = 0 THEN Folder ELSE Consume(f[k - 1], events[k])]

LEMMA FoldedExists ==
    ASSUME NEW events, NEW n \in Nat
    PROVE  \E f : IsFolded(events, n, f)
  <1> DEFINE T == {m \in Nat : \E f : IsFolded(events, m, f)}
  <1>1. 0 \in T
      <2> DEFINE f == [k \in 0 .. 0 |-> Folder]
                 G(k) == IF k = 0 THEN Folder ELSE Consume(f[k - 1], events[k])
      <2>1. \A k \in 0 .. 0 : f[k] = G(k)
          OBVIOUS
      <2>2. f = [k \in 0 .. 0 |-> f[k]]
          OBVIOUS
      <2> HIDE DEF f, G
      <2>3. f = [k \in 0 .. 0 |-> G(k)]
          BY <2>1, <2>2
      <2>4. IsFolded(events, 0, f)
          BY <2>3, Zenon DEF IsFolded, G
      <2> QED  BY <2>4
  <1>2. ASSUME NEW m \in 0 .. n - 1, m \in T
        PROVE  m + 1 \in T
      <2>1. PICK f : IsFolded(events, m, f)
          BY <1>2
      <2>2. \A k \in 0 .. m : f[k] = IF k = 0 THEN Folder ELSE Consume(f[k - 1], events[k])
          BY <2>1 DEF IsFolded
      <2> DEFINE e == [k \in 0 .. m + 1 |->
                         IF k = m + 1 THEN Consume(f[m], events[k]) ELSE f[k]]
                 G(k) == IF k = 0 THEN Folder ELSE Consume(e[k - 1], events[k])
      <2>3. ASSUME NEW k \in 0 .. m + 1
            PROVE  e[k] = G(k)
          <3>1. CASE k = m + 1
              <4>1. k - 1 = m /\ k - 1 \in 0 .. m + 1 /\ k - 1 # m + 1 /\ k # 0
                  BY <3>1
              <4>2. e[k - 1] = f[m] /\ e[k] = Consume(f[m], events[k])
                  BY <3>1, <4>1
              <4> HIDE DEF e
              <4> QED  BY <4>1, <4>2
          <3>2. CASE k # m + 1 /\ k # 0
              <4>1. k - 1 \in 0 .. m + 1 /\ k - 1 # m + 1 /\ k \in 0 .. m
                  BY <3>2
              <4>2. e[k - 1] = f[k - 1] /\ e[k] = f[k]
                  BY <3>2, <4>1
              <4> HIDE DEF e
              <4> QED  BY <2>2, <3>2, <4>1, <4>2
          <3>3. CASE k # m + 1 /\ k = 0
              <4>1. e[k] = f[k] /\ k \in 0 .. m
                  BY <3>3
              <4> HIDE DEF e
              <4> QED  BY <2>2, <3>3, <4>1
          <3> QED  BY <3>1, <3>2, <3>3
      <2>4. e = [k \in 0 .. m + 1 |-> e[k]]
          OBVIOUS
      <2> HIDE DEF e, G
      <2>5. e = [k \in 0 .. m + 1 |-> G(k)]
          BY <2>3, <2>4
      <2>6. IsFolded(events, m + 1, e)
          BY <2>5, Zenon DEF IsFolded, G
      <2> QED  BY <2>6
  <1> HIDE DEF T
  <1>3. 0 \in Nat
      OBVIOUS
  <1>4. \A k \in 0 .. n : k \in T
      BY <1>1, <1>2, <1>3, Induction
  <1>5. n \in T
      BY <1>4
  <1> QED  BY <1>5 DEF T

LEMMA FoldedIs ==
    ASSUME NEW events \in Seq(LogEvent)
    PROVE  \E f : /\ Folded(events) = f[Len(events)] /\ f[0] = Folder
                  /\ \A k \in 1 .. Len(events) : f[k] = Consume(f[k - 1], events[k])
  <1> DEFINE f == CHOOSE f : IsFolded(events, Len(events), f)
             n == Len(events)
  <1>1. n \in Nat
      OBVIOUS
  <1>2. IsFolded(events, n, f)
      BY <1>1, FoldedExists
  <1>3. Folded(events) = f[n]
      BY Zenon DEF Folded, IsFolded
  <1> HIDE DEF f
  <1>4. \A k \in 0 .. n : f[k] = IF k = 0 THEN Folder ELSE Consume(f[k - 1], events[k])
      BY <1>2 DEF IsFolded
  <1>5. \A k \in 1 .. n : k \in 0 .. n /\ k # 0
      BY <1>1
  <1>6. 0 \in 0 .. n
      BY <1>1
  <1> QED  BY <1>3, <1>4, <1>5, <1>6

LEMMA FoldedEmpty == Folded(<<>>) = Folder
  <1>1. <<>> \in Seq(LogEvent) /\ Len(<<>>) = 0
      OBVIOUS
  <1> QED  BY <1>1, FoldedIs

LEMMA FoldedAppend ==
    ASSUME NEW events \in Seq(LogEvent), NEW e \in LogEvent
    PROVE  Folded(Append(events, e)) = Consume(Folded(events), e)
  <1> DEFINE n == Len(events)
             more == Append(events, e)
  <1>1. /\ n \in Nat /\ more \in Seq(LogEvent) /\ Len(more) = n + 1
        /\ more[n + 1] = e /\ \A k \in 1 .. n : more[k] = events[k]
      OBVIOUS
  <1>2. PICK f : /\ Folded(events) = f[n] /\ f[0] = Folder
                 /\ \A k \in 1 .. n : f[k] = Consume(f[k - 1], events[k])
      BY FoldedIs
  <1> HIDE DEF more
  <1>3. PICK g : /\ Folded(more) = g[Len(more)] /\ g[0] = Folder
                 /\ \A k \in 1 .. Len(more) : g[k] = Consume(g[k - 1], more[k])
      BY <1>1, FoldedIs
  <1> HIDE DEF n
  <1> DEFINE T == {k \in 0 .. n : g[k] = f[k]}
  <1>4. 0 \in T
      BY <1>1, <1>2, <1>3
  <1>5. ASSUME NEW k \in 0 .. n - 1, k \in T
        PROVE  k + 1 \in T
      <2>1. /\ k + 1 \in 1 .. n /\ k + 1 \in 1 .. Len(more) /\ (k + 1) - 1 = k
            /\ k + 1 \in 0 .. n /\ more[k + 1] = events[k + 1] /\ g[k] = f[k]
          BY <1>1, <1>5
      <2>2. g[k + 1] = f[k + 1]
          <3> HIDE DEF T
          <3> QED  BY <1>2, <1>3, <2>1
      <2> QED  BY <2>1, <2>2
  <1>6. \A k \in 0 .. n : k \in T
      <2> HIDE DEF T
      <2>1. 0 \in Nat
          OBVIOUS
      <2> QED  BY <1>1, <1>4, <1>5, <2>1, Induction
  <1>7. g[n] = f[n]
      <2>1. n \in 0 .. n
          BY <1>1
      <2> QED  BY <1>6, <2>1
  <1>8. g[n + 1] = Consume(g[n], e)
      <2>1. n + 1 \in 1 .. Len(more) /\ (n + 1) - 1 = n
          BY <1>1
      <2> QED  BY <1>1, <1>3, <2>1
  <1>9. Folded(more) = Consume(Folded(events), e)
      BY <1>1, <1>2, <1>3, <1>7, <1>8
  <1> QED  BY <1>9 DEF more

\* The fold behind two or three more events.
LEMMA FoldedConcat ==
    ASSUME NEW events \in Seq(LogEvent), NEW a \in LogEvent, NEW b \in LogEvent,
           NEW c \in LogEvent
    PROVE  /\ events \o <<>> = events
           /\ events \o <<a>> = Append(events, a)
           /\ events \o <<a, b>> = Append(Append(events, a), b)
           /\ events \o <<a, b, c>> = Append(Append(Append(events, a), b), c)
  <1>1. events \o <<>> = events
      OBVIOUS
  <1>2. events \o <<a>> = Append(events, a)
      OBVIOUS
  <1>3. events \o <<a, b>> = Append(Append(events, a), b)
      OBVIOUS
  <1>4. events \o <<a, b, c>> = Append(Append(Append(events, a), b), c)
      OBVIOUS
  <1> QED  BY <1>1, <1>2, <1>3, <1>4

-----------------------------------------------------------------------------
(* What the four clients hand to the engine.                               *)

LEMMA CallsType ==
    ASSUME NEW r \in Replies
    PROVE  /\ Calls(r) \in Seq(Items)
           /\ \A k \in DOMAIN Calls(r) : IdentifiedCalls(r) => Calls(r)[k].id = "good"
  <1> DEFINE ss == [k \in DOMAIN r.items |->
                      IF r.items[k].kind = "call" THEN <<r.items[k]>> ELSE <<>>]
  <1>1. PICK n \in 0 .. 2 : r.items \in [1 .. n -> Items]
      BY DEF Replies
  <1>2. \A k \in 1 .. n : r.items[k] \in Items
      BY <1>1
  <1>3. \A k \in 1 .. n :
           (IF r.items[k].kind = "call" THEN <<r.items[k]>> ELSE <<>>) \in Seq(Items)
      <2>1. \A x \in Items : <<x>> \in Seq(Items)
          OBVIOUS
      <2> QED  BY <1>2, <2>1
  <1>4. ss \in [1 .. n -> Seq(Items)]
      <2>1. DOMAIN r.items = 1 .. n
          BY <1>1
      <2> QED  BY <1>3, <2>1
  <1>5. ss \in Seq(Seq(Items))
      <2> HIDE DEF ss
      <2> QED  BY <1>4
  <1>6. FlattenSeq(ss) \in Seq(Items)
      <2> HIDE DEF ss
      <2> QED  BY <1>5, FlatFacts
  <1> QED  BY <1>6 DEF Calls, IdentifiedCalls

\* Every call the engine is handed has an identifier: three clients refuse a
\* reply with a blank or padded one, the fourth numbers the calls itself.
LEMMA AnswerShape ==
    ASSUME NEW a \in Answers
    PROVE  /\ a.text \in BOOLEAN /\ a.calls \in Seq(BOOLEAN)
           /\ \A k \in 1 .. Len(a.calls) : a.calls[k] = TRUE
  <1> DEFINE Good(c) == /\ c.text \in BOOLEAN /\ c.calls \in Seq(BOOLEAN)
                        /\ \A k \in 1 .. Len(c.calls) : c.calls[k] = TRUE
  <1>1. PICK r \in Replies : a \in Received(r)
      BY DEF Answers
  <1>2. Good(Failed)
      <2>1. Failed.text = FALSE /\ Failed.calls = <<>>
          BY DEF Failed
      <2>2. <<>> \in Seq(BOOLEAN) /\ \A k \in 1 .. Len(<<>>) : <<>>[k] = TRUE
          OBVIOUS
      <2>3. FALSE \in BOOLEAN
          OBVIOUS
      <2> QED  BY <2>1, <2>2, <2>3, Zenon
  <1>3. ASSUME NEW text \in BOOLEAN, NEW blank, NEW calls \in Seq(Items),
               \A k \in DOMAIN calls : calls[k].id = "good"
        PROVE  Good(Choice(text, blank, calls))
      <2> DEFINE c == Choice(text, blank, calls)
      <2>1. c.text = text /\ c.calls = [k \in DOMAIN calls |-> calls[k].id = "good"]
          BY DEF Choice
      <2>2. Len(calls) \in Nat /\ DOMAIN calls = 1 .. Len(calls)
          OBVIOUS
      <2> DEFINE d == [k \in DOMAIN calls |-> calls[k].id = "good"]
      <2>3. d \in [1 .. Len(calls) -> BOOLEAN] /\ \A k \in 1 .. Len(calls) : d[k] = TRUE
          BY <1>3, <2>2
      <2>4. c.text = text /\ c.calls = d
          BY <2>1
      <2> HIDE DEF c, d
      <2>5. d \in Seq(BOOLEAN) /\ Len(d) = Len(calls)
          BY <2>2, <2>3
      <2>6. Good(c)
          BY <2>3, <2>4, <2>5
      <2> QED  BY <2>6 DEF c
  <1>4. /\ Calls(r) \in Seq(Items)
        /\ IdentifiedCalls(r) => \A k \in DOMAIN Calls(r) : Calls(r)[k].id = "good"
      BY CallsType
  <1>5. \A kind : HasItem(r, kind) \in BOOLEAN
      BY DEF HasItem
  <1> HIDE DEF Good
  <1>6. IdentifiedCalls(r) => \A blank : Good(Choice(HasItem(r, "text"), blank, Calls(r)))
      BY <1>3, <1>4, <1>5
  <1>7. Good(ChatOpenAI(r))
      BY <1>2, <1>6 DEF ChatOpenAI, ValidResponses, ConvertResponsesResponse
  <1>8. Good(ChatOpenAIChatCompletions(r))
      BY <1>2, <1>6 DEF ChatOpenAIChatCompletions, ValidChatCompletions,
                        ConvertChatCompletionsResponse
  <1>9. Good(ChatAnthropic(r))
      BY <1>2, <1>6 DEF ChatAnthropic, ConvertAnthropicResponse
  <1>10. Good(ChatGoogle(r))
      <2> DEFINE named == [k \in DOMAIN Calls(r) |-> Item("call", "good")]
                 text == HasItem(r, "text") \/ HasItem(r, "reasoning")
      <2>1. Item("call", "good") \in Items /\ Item("call", "good").id = "good"
          BY DEF Items, Item
      <2>2. /\ Len(Calls(r)) \in Nat /\ DOMAIN Calls(r) = 1 .. Len(Calls(r))
          BY <1>4
      <2>3. named \in [1 .. Len(Calls(r)) -> Items]
          BY <2>1, <2>2
      <2>4. \A k \in DOMAIN named : named[k].id = "good"
          BY <2>1
      <2>5. named \in Seq(Items)
          <3> HIDE DEF named
          <3> QED  BY <2>2, <2>3
      <2>6. text \in BOOLEAN
          BY <1>5
      <2>7. \A blank : Good(Choice(text, blank, named))
          <3> HIDE DEF named, text
          <3> QED  BY <1>3, <2>4, <2>5, <2>6
      <2>8. \/ ChatGoogle(r) = Failed
            \/ ChatGoogle(r) = Choice(text, HasItem(r, "blank"), named)
          BY DEF ChatGoogle
      <2> QED  BY <1>2, <2>7, <2>8
  <1>11. Good(a)
      BY <1>1, <1>2, <1>7, <1>8, <1>9, <1>10 DEF Received
  <1> QED  BY <1>11 DEF Good

-----------------------------------------------------------------------------
(* historyFolder.consume, event by event.                                  *)

LEMMA ConsumeIs ==
    ASSUME NEW f, NEW e
    PROVE  /\ e.type = "user" /\ f.ask # 0 /\ e.run = f.askRun =>
                Consume(f, e) = [FlushWith(f, ToolResult(f.ask, e.n)) EXCEPT
                                   !.ask = 0, !.askRun = 0]
           /\ e.type = "user" /\ ~(f.ask # 0 /\ e.run = f.askRun) =>
                Consume(f, e) = FlushWith(f, User(e.n))
           /\ e.type = "assistant_status" =>
                Consume(f, e) = [Flush(f) EXCEPT !.pending = Assistant(e.n, <<>>)]
           /\ e.type = "tool_call" => Consume(f, e) = PendingToolCall(f, e.call)
           /\ e.type = "tool_result" =>
                Consume(f, e) = FlushWith(f, ToolResult(e.call, e.n))
           /\ e.type = "user_request_input" =>
                Consume(f, e) = [Flush(PendingToolCall(f, e.call)) EXCEPT
                                   !.ask = e.call, !.askRun = e.run]
           /\ e.type = "run_completed" /\ e.n # 0 =>
                Consume(f, e) = FlushWith(f, Assistant(e.n, <<>>))
           /\ e.type = "run_completed" /\ e.n = 0 => Consume(f, e) = Flush(f)
           /\ e.type = "history_compacted" => Consume(f, e) = ApplyCompactionCheckpoint(f, e)
           /\ e.type = "system_feedback" => Consume(f, e) = FlushWith(f, User(e.n))
           /\ e.type = "run_ended" => Consume(f, e) = Flush(f)
  BY DEF Consume

LEMMA ItemTypes ==
    ASSUME NEW n \in Nat, NEW c \in Nat
    PROVE  /\ User(n) \in ConversationItem /\ User(n).role = "user" /\ User(n).n = n
           /\ ToolResult(c, n) \in ConversationItem
           /\ ToolResult(c, n).role = "tool" /\ ToolResult(c, n).n = n
           /\ ToolResult(c, n).call = c
           /\ Assistant(n, <<>>) \in AssistantItem
           /\ Assistant(n, <<c>>) \in AssistantItem
           /\ NoItem \in AssistantItem /\ NoItem \in ConversationItem
           /\ Assistant(n, <<c>>) # NoItem /\ IsCalling(Assistant(n, <<c>>))
           /\ n # 0 => Assistant(n, <<>>) # NoItem
           /\ ~IsCalling(User(n)) /\ ~IsCalling(ToolResult(c, n))
           /\ ~IsCalling(Assistant(n, <<>>))
           /\ Assistant(n, <<>>).role # "tool" /\ Assistant(n, <<c>>).role # "tool"
  <1>1. <<>> \in Seq(Nat) /\ <<c>> \in Seq(Nat) /\ <<c>> # <<>>
      OBVIOUS
  <1>2. /\ User(n) \in ConversationItem /\ User(n).role = "user" /\ User(n).n = n
        /\ ~IsCalling(User(n))
      BY <1>1 DEF User, ConversationItem, IsCalling
  <1>3. /\ ToolResult(c, n) \in ConversationItem /\ ~IsCalling(ToolResult(c, n))
        /\ ToolResult(c, n).role = "tool" /\ ToolResult(c, n).n = n
        /\ ToolResult(c, n).call = c
      BY <1>1 DEF ToolResult, ConversationItem, IsCalling
  <1>4. \A m \in Nat, s \in Seq(Nat) : Assistant(m, s) \in AssistantItem
      BY DEF Assistant, ConversationItem, AssistantItem
  <1>5. \A m \in Nat, s \in Seq(Nat) :
           /\ Assistant(m, s).role = "assistant" /\ Assistant(m, s).n = m
           /\ Assistant(m, s).calls = s
      BY DEF Assistant
  <1>6. NoItem = Assistant(0, <<>>) /\ NoItem.n = 0 /\ NoItem.calls = <<>>
      BY DEF NoItem, Assistant
  <1>7. NoItem \in AssistantItem /\ NoItem \in ConversationItem
      BY <1>1, <1>4, <1>6 DEF AssistantItem
  <1>8. Assistant(n, <<c>>) # NoItem /\ IsCalling(Assistant(n, <<c>>))
      BY <1>1, <1>5, <1>6 DEF IsCalling
  <1>9. n # 0 => Assistant(n, <<>>) # NoItem
      <2>1. Assistant(n, <<>>).n = n
          BY DEF Assistant
      <2> QED  BY <1>6, <2>1
  <1>10. ~IsCalling(Assistant(n, <<>>))
      BY <1>1, <1>5 DEF IsCalling
  <1> QED  BY <1>1, <1>2, <1>3, <1>4, <1>5, <1>7, <1>8, <1>9, <1>10

\* h is the beginning of g.
Begins(h, g) == Len(h) <= Len(g) /\ \A i \in 1 .. Len(h) : g[i] = h[i]

LEMMA BeginsAppend ==
    ASSUME NEW h \in Seq(ConversationItem), NEW x \in ConversationItem
    PROVE  /\ Append(h, x) \in Seq(ConversationItem) /\ Begins(h, Append(h, x))
           /\ Len(Append(h, x)) = Len(h) + 1 /\ Append(h, x)[Len(h) + 1] = x
           /\ \A i \in 1 .. Len(h) : Append(h, x)[i] = h[i]
           /\ Len(h) \in Nat /\ Append(h, x) # <<>>
  BY DEF Begins

LEMMA BeginsKeeps ==
    ASSUME NEW h \in Seq(ConversationItem), NEW g \in Seq(ConversationItem), Begins(h, g)
    PROVE  /\ Opened(h) => Opened(g)
           /\ \A n : HeldTurn(h, n) => HeldTurn(g, n)
  <1>1. /\ Len(h) \in Nat /\ Len(g) \in Nat /\ Len(h) <= Len(g)
        /\ DOMAIN h = 1 .. Len(h) /\ DOMAIN g = 1 .. Len(g)
        /\ \A i \in 1 .. Len(h) : g[i] = h[i] /\ i \in 1 .. Len(g)
      BY DEF Begins
  <1>2. ASSUME Opened(h)
        PROVE  Opened(g)
      <2>1. 1 \in 1 .. Len(h)
          BY <1>1, <1>2 DEF Opened
      <2>2. g[1] = h[1] /\ Len(g) > 0
          BY <1>1, <2>1
      <2>3. g # <<>>
          BY <2>2
      <2> QED  BY <1>2, <2>2, <2>3 DEF Opened
  <1>3. ASSUME NEW n, HeldTurn(h, n)
        PROVE  HeldTurn(g, n)
      <2>1. PICK i \in 1 .. Len(h) : Anchored(h, i) /\ h[i].n = n
          BY <1>1, <1>3 DEF HeldTurn
      <2>2. g[i] = h[i] /\ i \in DOMAIN g /\ (i > 1 => g[i - 1] = h[i - 1])
          BY <1>1, <2>1
      <2>3. Anchored(g, i) /\ g[i].n = n
          BY <2>1, <2>2 DEF Anchored
      <2> QED  BY <2>2, <2>3 DEF HeldTurn
  <1> QED  BY <1>2, <1>3

LEMMA FlushFacts ==
    ASSUME NEW f \in FoldState
    PROVE  /\ Flush(f) \in FoldState /\ Flush(f).pending = NoItem
           /\ Flush(f).ask = f.ask /\ Flush(f).askRun = f.askRun
           /\ Flush(f).omitted = f.omitted /\ Flush(f).digest = f.digest
           /\ Begins(f.items, Flush(f).items)
           /\ f.pending = NoItem => Flush(f) = f
           /\ f.pending # NoItem => Flush(f).items = Append(f.items, f.pending)
  <1>1. /\ f.items \in Seq(ConversationItem) /\ f.pending \in ConversationItem
        /\ f.pending \in AssistantItem
      BY DEF FoldState, AssistantItem
  <1>2. CASE f.pending = NoItem
      <2>1. Flush(f) = f
          BY <1>2 DEF Flush
      <2>2. Begins(f.items, f.items)
          BY <1>1 DEF Begins
      <2> QED  BY <1>2, <2>1, <2>2
  <1>3. CASE f.pending # NoItem
      <2> DEFINE more == Append(f.items, f.pending)
      <2>1. Flush(f) = [f EXCEPT !.items = more, !.pending = NoItem]
          BY <1>3 DEF Flush
      <2>2. more \in Seq(ConversationItem) /\ Begins(f.items, more)
          BY <1>1, BeginsAppend
      <2>3. NoItem \in AssistantItem
          BY ItemTypes
      <2> HIDE DEF more
      <2>4. /\ Flush(f) \in FoldState /\ Flush(f).pending = NoItem
            /\ Flush(f).ask = f.ask /\ Flush(f).askRun = f.askRun
            /\ Flush(f).omitted = f.omitted /\ Flush(f).digest = f.digest
            /\ Flush(f).items = more
          BY <2>1, <2>2, <2>3 DEF FoldState
      <2> QED  BY <1>3, <2>2, <2>4 DEF more
  <1> QED  BY <1>2, <1>3

LEMMA FlushWithFacts ==
    ASSUME NEW f \in FoldState, NEW x \in ConversationItem
    PROVE  /\ FlushWith(f, x) \in FoldState /\ FlushWith(f, x).pending = NoItem
           /\ FlushWith(f, x).ask = f.ask /\ FlushWith(f, x).askRun = f.askRun
           /\ FlushWith(f, x).omitted = f.omitted /\ FlushWith(f, x).digest = f.digest
           /\ FlushWith(f, x).items = Append(Flush(f).items, x)
           /\ Begins(f.items, FlushWith(f, x).items)
  <1> DEFINE g == Flush(f)
             more == Append(g.items, x)
  <1>1. /\ g \in FoldState /\ g.pending = NoItem /\ g.ask = f.ask
        /\ g.askRun = f.askRun /\ g.omitted = f.omitted /\ g.digest = f.digest
        /\ Begins(f.items, g.items)
      BY FlushFacts
  <1>2. FlushWith(f, x) = [g EXCEPT !.items = more]
      BY DEF FlushWith
  <1> HIDE DEF g
  <1>3. f.items \in Seq(ConversationItem) /\ g.items \in Seq(ConversationItem)
      BY <1>1 DEF FoldState
  <1>4. more \in Seq(ConversationItem) /\ Begins(g.items, more)
      BY <1>3, BeginsAppend
  <1> HIDE DEF more
  <1>5. Begins(f.items, more)
      BY <1>1, <1>3, <1>4 DEF Begins
  <1>6. /\ FlushWith(f, x) \in FoldState /\ FlushWith(f, x).pending = NoItem
        /\ FlushWith(f, x).ask = f.ask /\ FlushWith(f, x).askRun = f.askRun
        /\ FlushWith(f, x).omitted = f.omitted /\ FlushWith(f, x).digest = f.digest
        /\ FlushWith(f, x).items = more
      BY <1>1, <1>2, <1>4 DEF FoldState
  <1> QED  BY <1>5, <1>6 DEF more, g

LEMMA PendingFacts ==
    ASSUME NEW f \in FoldState, NEW c \in Nat
    PROVE  /\ PendingToolCall(f, c) \in FoldState
           /\ PendingToolCall(f, c).items = f.items
           /\ PendingToolCall(f, c).ask = f.ask /\ PendingToolCall(f, c).askRun = f.askRun
           /\ PendingToolCall(f, c).omitted = f.omitted
           /\ PendingToolCall(f, c).digest = f.digest
           /\ PendingToolCall(f, c).pending.calls = Append(f.pending.calls, c)
           /\ PendingToolCall(f, c).pending.n = f.pending.n
           /\ PendingToolCall(f, c).pending # NoItem
           /\ IsCalling(PendingToolCall(f, c).pending)
           /\ \A n \in Nat : f.pending = Assistant(n, <<>>) =>
                PendingToolCall(f, c).pending = Assistant(n, <<c>>)
  <1> DEFINE p == f.pending
             q == [p EXCEPT !.calls = Append(@, c)]
             g == PendingToolCall(f, c)
  <1>1. g = [f EXCEPT !.pending = q]
      BY DEF PendingToolCall, FoldState
  <1>2. /\ p \in [role : {"user", "assistant", "tool"}, n : Nat, calls : Seq(Nat), call : Nat]
        /\ p.role = "assistant" /\ p.call = 0 /\ p.calls \in Seq(Nat)
      BY DEF FoldState, AssistantItem, ConversationItem
  <1>3. Append(p.calls, c) \in Seq(Nat) /\ Append(p.calls, c) # <<>>
      BY <1>2
  <1>4. /\ q \in [role : {"user", "assistant", "tool"}, n : Nat, calls : Seq(Nat), call : Nat]
        /\ q.role = "assistant" /\ q.call = 0 /\ q.calls = Append(p.calls, c)
        /\ q.n = p.n
      BY <1>2, <1>3
  <1>5. q \in AssistantItem /\ IsCalling(q)
      BY <1>3, <1>4 DEF AssistantItem, ConversationItem, IsCalling
  <1>6. q # NoItem
      BY <1>3, <1>4 DEF NoItem, Assistant
  <1>7. ASSUME NEW n \in Nat, p = Assistant(n, <<>>)
        PROVE  q = Assistant(n, <<c>>)
      BY <1>7 DEF Assistant
  <1> HIDE DEF q
  <1>8. /\ g \in FoldState /\ g.items = f.items /\ g.ask = f.ask /\ g.askRun = f.askRun
        /\ g.omitted = f.omitted /\ g.digest = f.digest /\ g.pending = q
      BY <1>1, <1>5 DEF FoldState
  <1> HIDE DEF g
  <1>9. /\ g.pending.calls = Append(f.pending.calls, c) /\ g.pending.n = f.pending.n
        /\ g.pending # NoItem /\ IsCalling(g.pending)
      BY <1>4, <1>5, <1>6, <1>8
  <1>10. \A n \in Nat : f.pending = Assistant(n, <<>>) => g.pending = Assistant(n, <<c>>)
      BY <1>7, <1>8
  <1> QED  BY <1>8, <1>9, <1>10 DEF g

LEMMA SetPending ==
    ASSUME NEW x \in FoldState, NEW p \in AssistantItem, NEW y, y = [x EXCEPT !.pending = p]
    PROVE  /\ y \in FoldState /\ y.items = x.items /\ y.pending = p
           /\ y.omitted = x.omitted /\ y.digest = x.digest /\ y.ask = x.ask
           /\ y.askRun = x.askRun
  BY DEF FoldState

\* Every event but a checkpoint adds items behind the ones there are.
LEMMA ConsumeGrows ==
    ASSUME NEW f \in FoldState, NEW e \in LogEvent, e.type # "history_compacted"
    PROVE  /\ Consume(f, e) \in FoldState
           /\ Begins(f.items, Consume(f, e).items)
           /\ Consume(f, e).omitted = f.omitted /\ Consume(f, e).digest = f.digest
           /\ Consume(f, e).askRun \in {f.askRun, e.run, 0}
  <1>1. /\ e.n \in Nat /\ e.call \in Nat /\ e.run \in Nat /\ f.ask \in Nat
        /\ e.type \in {"user", "assistant_status", "tool_call", "tool_result",
                       "user_request_input", "run_completed", "system_feedback", "run_ended"}
      BY DEF LogEvent, FoldState
  <1>2. /\ User(e.n) \in ConversationItem /\ ToolResult(f.ask, e.n) \in ConversationItem
        /\ ToolResult(e.call, e.n) \in ConversationItem
        /\ Assistant(e.n, <<>>) \in AssistantItem /\ Assistant(e.n, <<>>) \in ConversationItem
      BY <1>1, ItemTypes DEF AssistantItem
  <1> DEFINE g == Consume(f, e)
             Grown(x) == /\ x \in FoldState /\ Begins(f.items, x.items)
                         /\ x.omitted = f.omitted /\ x.digest = f.digest
                         /\ x.askRun \in {f.askRun, e.run, 0}
  <1>3. \A x \in ConversationItem : Grown(FlushWith(f, x))
      BY FlushWithFacts
  <1>4. Grown(Flush(f))
      BY FlushFacts
  <1>5. \A x, n, r : Grown(x) /\ n \in Nat /\ r \in {e.run, 0} =>
           Grown([x EXCEPT !.ask = n, !.askRun = r])
      <2> SUFFICES ASSUME NEW x, NEW n \in Nat, NEW r \in {e.run, 0}, Grown(x)
                   PROVE  Grown([x EXCEPT !.ask = n, !.askRun = r])
          BY Zenon
      <2> DEFINE y == [x EXCEPT !.ask = n, !.askRun = r]
      <2>1. /\ y \in FoldState /\ y.items = x.items /\ y.omitted = x.omitted
            /\ y.digest = x.digest /\ y.askRun = r
          <3>1. x \in FoldState /\ r \in Nat
              BY <1>1
          <3> HIDE DEF Grown
          <3> QED  BY <3>1 DEF FoldState
      <2> HIDE DEF y
      <2>2. Grown(y)
          BY <2>1
      <2> QED  BY <2>2 DEF y
  <1>6. \A x, p : Grown(x) /\ p \in AssistantItem => Grown([x EXCEPT !.pending = p])
      <2> SUFFICES ASSUME NEW x, NEW p \in AssistantItem, Grown(x)
                   PROVE  Grown([x EXCEPT !.pending = p])
          OBVIOUS
      <2> DEFINE y == [x EXCEPT !.pending = p]
      <2>1. /\ y \in FoldState /\ y.items = x.items /\ y.omitted = x.omitted
            /\ y.digest = x.digest /\ y.askRun = x.askRun
          <3>1. x \in FoldState
              OBVIOUS
          <3> QED  BY <3>1, SetPending
      <2> HIDE DEF y
      <2>2. Grown(y)
          BY <2>1
      <2> QED  BY <2>2 DEF y
  <1>7. Grown(PendingToolCall(f, e.call))
      <2>1. Begins(f.items, f.items)
          BY DEF Begins, FoldState
      <2> QED  BY <1>1, <2>1, PendingFacts
  <1>8. Grown(Flush(PendingToolCall(f, e.call)))
      <2> DEFINE p == PendingToolCall(f, e.call)
      <2>1. /\ p \in FoldState /\ p.items = f.items /\ p.omitted = f.omitted
            /\ p.digest = f.digest /\ p.askRun = f.askRun
          BY <1>1, PendingFacts
      <2> HIDE DEF p
      <2>2. Grown(Flush(p))
          BY <2>1, FlushFacts
      <2> QED  BY <2>2 DEF p
  <1> HIDE DEF Grown
  <1>9. Grown(g)
      <2>1. CASE e.type = "user" /\ f.ask # 0 /\ e.run = f.askRun
          <3>1. g = [FlushWith(f, ToolResult(f.ask, e.n)) EXCEPT !.ask = 0, !.askRun = 0]
              BY <2>1, ConsumeIs, Zenon
          <3>2. Grown(FlushWith(f, ToolResult(f.ask, e.n)))
              BY <1>2, <1>3, Zenon
          <3>3. 0 \in Nat /\ 0 \in {e.run, 0}
              OBVIOUS
          <3> HIDE DEF g
          <3> QED  BY <1>5, <3>1, <3>2, <3>3, Zenon
      <2>2. CASE e.type = "user" /\ ~(f.ask # 0 /\ e.run = f.askRun)
          <3>1. g = FlushWith(f, User(e.n))
              BY <2>2, ConsumeIs, Zenon
          <3> HIDE DEF g
          <3> QED  BY <1>2, <1>3, <3>1, Zenon
      <2>3. CASE e.type = "assistant_status"
          <3>1. g = [Flush(f) EXCEPT !.pending = Assistant(e.n, <<>>)]
              BY <2>3, ConsumeIs, Zenon
          <3> HIDE DEF g
          <3> QED  BY <1>2, <1>4, <1>6, <3>1, Zenon
      <2>4. CASE e.type = "tool_call"
          BY <1>7, <2>4, ConsumeIs
      <2>5. CASE e.type = "tool_result"
          BY <1>2, <1>3, <2>5, ConsumeIs
      <2>6. CASE e.type = "user_request_input"
          <3>1. g = [Flush(PendingToolCall(f, e.call)) EXCEPT
                       !.ask = e.call, !.askRun = e.run]
              BY <2>6, ConsumeIs, Zenon
          <3>2. e.call \in Nat /\ e.run \in {e.run, 0}
              BY <1>1
          <3> HIDE DEF g
          <3> QED  BY <1>5, <1>8, <3>1, <3>2, Zenon
      <2>7. CASE e.type = "run_completed"
          <3>1. CASE e.n = 0
              BY <1>4, <2>7, <3>1, ConsumeIs, Zenon
          <3>2. CASE e.n # 0
              <4>1. g = FlushWith(f, Assistant(e.n, <<>>))
                  BY <2>7, <3>2, ConsumeIs, Zenon
              <4> HIDE DEF g
              <4> QED  BY <1>2, <1>3, <4>1, Zenon
          <3> QED  BY <3>1, <3>2
      <2>8. CASE e.type = "system_feedback"
          BY <1>2, <1>3, <2>8, ConsumeIs
      <2>9. CASE e.type = "run_ended"
          BY <1>4, <2>9, ConsumeIs
      <2> QED  BY <1>1, <2>1, <2>2, <2>3, <2>4, <2>5, <2>6, <2>7, <2>8, <2>9
  <1> QED  BY <1>9 DEF Grown

\* A checkpoint keeps the pinned task; when it drops anything it tells.
LEMMA CheckpointTells ==
    ASSUME NEW f \in FoldState, NEW e \in LogEvent, Opened(f.items), e.pinned = 1
    PROVE  /\ ApplyCompactionCheckpoint(f, e) \in FoldState
           /\ Opened(ApplyCompactionCheckpoint(f, e).items)
           /\ ApplyCompactionCheckpoint(f, e).askRun = f.askRun
           /\ \/ ApplyCompactionCheckpoint(f, e).omitted > 0
              \/ ApplyCompactionCheckpoint(f, e).digest # {}
              \/ /\ f.omitted = 0 /\ f.digest = {}
                 /\ Begins(f.items, ApplyCompactionCheckpoint(f, e).items)
  <1> DEFINE g == Flush(f)
             h == g.items
             s == IF 1 + e.shadowed > Len(h) THEN 0 ELSE e.shadowed
             kept == SubSeq(h, 1, 1) \o SubSeq(h, 1 + s + 1, Len(h))
             c == ApplyCompactionCheckpoint(f, e)
  <1>1. /\ g \in FoldState /\ g.askRun = f.askRun /\ g.omitted = f.omitted
        /\ g.digest = f.digest /\ Begins(f.items, h)
      BY FlushFacts
  <1>2. /\ f.items \in Seq(ConversationItem) /\ h \in Seq(ConversationItem)
        /\ g.omitted \in Nat /\ g.digest \in SUBSET Nat
        /\ e.shadowed \in Nat /\ e.digest \in SUBSET Nat
      BY <1>1 DEF FoldState, LogEvent
  <1>3. Opened(h)
      BY <1>1, <1>2, BeginsKeeps
  <1>4. Len(h) \in Nat /\ Len(h) > 0 /\ ~(e.pinned > Len(h))
      <2>1. Len(h) \in Nat /\ Len(h) > 0
          BY <1>2, <1>3 DEF Opened
      <2> QED  BY <2>1
  <1>5. c = IF e.digest # {} THEN [g EXCEPT !.items = kept, !.digest = e.digest]
            ELSE [g EXCEPT !.items = kept, !.omitted = @ + s]
      BY <1>4, Zenon DEF ApplyCompactionCheckpoint
  <1>6. s \in Nat /\ 1 + s <= Len(h)
      BY <1>2, <1>4
  <1> HIDE DEF g, h
  <1> DEFINE x == SubSeq(h, 1, 1)
             y == SubSeq(h, 1 + s + 1, Len(h))
  <1>7. x \in Seq(ConversationItem) /\ Len(x) = 1 /\ x[1] = h[1]
      <2>1. /\ x \in Seq(ConversationItem) /\ Len(x) = 1 - 1 + 1
            /\ \A k \in 1 .. 1 - 1 + 1 : x[k] = h[1 + k - 1]
          BY <1>2, <1>4, Part
      <2> HIDE DEF x
      <2> QED  BY <2>1
  <1>8. y \in Seq(ConversationItem)
      <2> HIDE DEF s
      <2> QED  BY <1>2, <1>4, <1>6, Part
  <1>9. kept \in Seq(ConversationItem) /\ Opened(kept)
      <2> HIDE DEF x, y
      <2>1. kept = x \o y
          BY DEF x, y
      <2> HIDE DEF kept
      <2>2. kept \in Seq(ConversationItem) /\ Len(kept) > 0 /\ kept[1] = x[1]
          <3>1. Len(x) > 0
              BY <1>7
          <3> QED  BY <1>7, <1>8, <2>1, <3>1, Concat, ConcatHead
      <2>3. kept # <<>>
          BY <2>2
      <2> QED  BY <1>3, <1>7, <2>2, <2>3 DEF Opened
  <1>10. s = 0 => kept = h
      <2>1. SubSeq(h, 1, 1) \o SubSeq(h, 1 + 1, Len(h)) = SubSeq(h, 1, Len(h))
          <3>1. \A a \in Nat : a <= Len(h) =>
                   SubSeq(h, 1, a) \o SubSeq(h, a + 1, Len(h)) = SubSeq(h, 1, Len(h))
              <4>1. Len(h) <= Len(h)
                  BY <1>4
              <4> QED  BY <1>2, <1>4, <4>1, PartsJoin, Zenon
          <3>2. 1 \in Nat /\ 1 <= Len(h)
              BY <1>4
          <3> QED  BY <3>1, <3>2
      <2>2. SubSeq(h, 1, Len(h)) = h
          BY <1>2
      <2>3. s = 0 => 1 + s + 1 = 1 + 1
          OBVIOUS
      <2> HIDE DEF s
      <2> QED  BY <2>1, <2>2, <2>3
  <1> HIDE DEF kept, s, c, x, y
  <1>11. CASE e.digest # {}
      <2>1. c = [g EXCEPT !.items = kept, !.digest = e.digest]
          BY <1>5, <1>11
      <2>2. /\ c \in FoldState /\ c.items = kept /\ c.digest = e.digest
            /\ c.askRun = g.askRun
          BY <1>1, <1>2, <1>9, <2>1 DEF FoldState
      <2> QED  BY <1>1, <1>9, <1>11, <2>2 DEF c
  <1>12. CASE e.digest = {}
      <2>1. c = [g EXCEPT !.items = kept, !.omitted = g.omitted + s]
          BY <1>5, <1>12
      <2>2. g.omitted + s \in Nat
          BY <1>2, <1>6
      <2>3. /\ c \in FoldState /\ c.items = kept /\ c.digest = g.digest
            /\ c.askRun = g.askRun /\ c.omitted = g.omitted + s
          BY <1>1, <1>9, <2>1, <2>2 DEF FoldState
      <2>4. c.omitted > 0 \/ (g.omitted = 0 /\ s = 0)
          BY <1>2, <1>6, <2>3
      <2>5. s = 0 => Begins(f.items, c.items)
          BY <1>1, <1>10, <2>3
      <2>6. c.omitted > 0 \/ c.digest # {}
              \/ (f.omitted = 0 /\ f.digest = {} /\ Begins(f.items, c.items))
          BY <1>1, <2>3, <2>4, <2>5
      <2> QED  BY <1>1, <1>9, <2>3, <2>6 DEF c
  <1> QED  BY <1>11, <1>12

\* One more event of run r.
LEMMA EmitKeeps ==
    ASSUME NEW events \in Seq(LogEvent), NEW e \in LogEvent, NEW r \in Nat,
           FoldOK(events, r), e.run <= r,
           e.type = "history_compacted" => e.pinned = 1,
           e.type = "user" /\ Folded(events).ask # 0 /\ e.run = Folded(events).askRun =>
               Asking(Folded(events))
    PROVE  FoldOK(Append(events, e), r)
  <1> DEFINE f == Folded(events)
             g == Folded(Append(events, e))
             more == Append(events, e)
  <1>1. g = Consume(f, e)
      BY FoldedAppend
  <1>2. /\ f \in FoldState /\ Opened(f.items) /\ Told(events, f) /\ f.askRun <= r
        /\ f.askRun \in Nat /\ f.items \in Seq(ConversationItem) /\ f.ask \in Nat
        /\ e.run \in Nat /\ e.n \in Nat
      BY DEF FoldOK, FoldState, LogEvent
  <1>3. /\ Len(events) \in Nat /\ DOMAIN more = 1 .. Len(events) + 1
        /\ DOMAIN events = 1 .. Len(events) /\ more[Len(events) + 1] = e
        /\ \A j \in 1 .. Len(events) : more[j] = events[j]
      OBVIOUS
  <1>4. e.type = "user" /\ f.ask # 0 /\ e.run = f.askRun => Asking(f)
      OBVIOUS
  <1> HIDE DEF f, g, more
  <1>5. CASE e.type = "history_compacted"
      <2>1. g = ApplyCompactionCheckpoint(f, e)
          BY <1>1, <1>5, ConsumeIs
      <2>2. e.pinned = 1
          BY <1>5
      <2>3. /\ g \in FoldState /\ Opened(g.items) /\ g.askRun = f.askRun
            /\ \/ g.omitted > 0 \/ g.digest # {}
               \/ f.omitted = 0 /\ f.digest = {} /\ Begins(f.items, g.items)
          BY <1>2, <2>1, <2>2, CheckpointTells
      <2>4. Told(more, g)
          <3>1. CASE g.omitted > 0 \/ g.digest # {}
              BY <3>1 DEF Told
          <3>2. CASE f.omitted = 0 /\ f.digest = {} /\ Begins(f.items, g.items)
              <4>1. g.items \in Seq(ConversationItem)
                  BY <2>3 DEF FoldState
              <4>2. \A n : HeldTurn(f.items, n) => HeldTurn(g.items, n)
                  BY <1>2, <3>2, <4>1, BeginsKeeps
              <4>3. \A j \in DOMAIN events :
                       events[j].type = "user" => HeldTurn(f.items, events[j].n)
                  BY <1>2, <3>2 DEF Told
              <4>4. ASSUME NEW j \in DOMAIN more, more[j].type = "user"
                    PROVE  HeldTurn(g.items, more[j].n)
                  <5>1. j # Len(events) + 1
                      BY <1>3, <1>5, <4>4
                  <5>2. j \in 1 .. Len(events) /\ more[j] = events[j]
                      BY <1>3, <5>1
                  <5> QED  BY <1>3, <4>2, <4>3, <4>4, <5>2
              <4> QED  BY <4>4 DEF Told
          <3> QED  BY <2>3, <3>1, <3>2
      <2> QED  BY <1>2, <2>3, <2>4 DEF FoldOK, more, g
  <1>6. CASE e.type # "history_compacted"
      <2>1. /\ g \in FoldState /\ Begins(f.items, g.items)
            /\ g.omitted = f.omitted /\ g.digest = f.digest
            /\ g.askRun \in {f.askRun, e.run, 0}
          BY <1>1, <1>2, <1>6, ConsumeGrows
      <2>2. g.items \in Seq(ConversationItem)
          BY <2>1 DEF FoldState
      <2>3. /\ Opened(g.items)
            /\ \A n : HeldTurn(f.items, n) => HeldTurn(g.items, n)
          BY <1>2, <2>1, <2>2, BeginsKeeps
      <2>4. g.askRun <= r
          BY <1>2, <2>1
      <2>5. e.type = "user" => HeldTurn(g.items, e.n)
          <3> SUFFICES ASSUME e.type = "user"  PROVE HeldTurn(g.items, e.n)
              OBVIOUS
          <3> DEFINE fl == Flush(f).items
          <3>1. fl \in Seq(ConversationItem)
              <4>1. Flush(f) \in FoldState
                  BY <1>2, FlushFacts
              <4> QED  BY <4>1 DEF FoldState
          <3>2. CASE f.ask # 0 /\ e.run = f.askRun
              <4> DEFINE x == ToolResult(f.ask, e.n)
              <4>1. Asking(f)
                  BY <1>4, <3>2
              <4>2. x \in ConversationItem /\ x.role = "tool" /\ x.n = e.n
                  BY <1>2, ItemTypes
              <4>3. fl = f.items
                  BY <1>2, <4>1, FlushFacts DEF Asking
              <4> HIDE DEF x
              <4>4. FlushWith(f, x) \in FoldState /\ FlushWith(f, x).items = Append(fl, x)
                  BY <1>2, <4>2, FlushWithFacts
              <4>5. g = [FlushWith(f, x) EXCEPT !.ask = 0, !.askRun = 0]
                  BY <1>1, <3>2, ConsumeIs DEF x
              <4>6. g.items = Append(fl, x)
                  BY <4>4, <4>5 DEF FoldState
              <4> DEFINE k == Len(fl) + 1
              <4>7. /\ Len(fl) \in Nat /\ Len(fl) > 0 /\ IsCalling(fl[Len(fl)])
                  BY <3>1, <4>1, <4>3 DEF Asking
              <4>8. /\ k \in DOMAIN g.items /\ g.items[k] = x /\ k > 1
                    /\ g.items[k - 1] = fl[Len(fl)]
                  BY <3>1, <4>2, <4>6, <4>7
              <4> HIDE DEF k
              <4>9. Anchored(g.items, k)
                  BY <4>2, <4>7, <4>8 DEF Anchored
              <4> QED  BY <4>2, <4>8, <4>9 DEF HeldTurn
          <3>3. CASE ~(f.ask # 0 /\ e.run = f.askRun)
              <4> DEFINE x == User(e.n)
              <4>1. x \in ConversationItem /\ x.role = "user" /\ x.n = e.n
                  BY <1>2, ItemTypes
              <4>2. g = FlushWith(f, x)
                  BY <1>1, <3>3, ConsumeIs
              <4> HIDE DEF x
              <4>3. g.items = Append(fl, x)
                  BY <1>2, <4>1, <4>2, FlushWithFacts
              <4> DEFINE k == Len(fl) + 1
              <4>4. k \in DOMAIN g.items /\ g.items[k] = x
                  BY <3>1, <4>1, <4>3
              <4> HIDE DEF k
              <4>5. Anchored(g.items, k)
                  BY <4>1, <4>4 DEF Anchored
              <4> QED  BY <4>1, <4>4, <4>5 DEF HeldTurn
          <3> QED  BY <3>2, <3>3
      <2>6. Told(more, g)
          <3>1. CASE f.omitted > 0 \/ f.digest # {}
              BY <2>1, <3>1 DEF Told
          <3>2. CASE ~(f.omitted > 0 \/ f.digest # {})
              <4>1. \A j \in DOMAIN events :
                       events[j].type = "user" => HeldTurn(f.items, events[j].n)
                  BY <1>2, <3>2 DEF Told
              <4>2. ASSUME NEW j \in DOMAIN more, more[j].type = "user"
                    PROVE  HeldTurn(g.items, more[j].n)
                  <5>1. CASE j = Len(events) + 1
                      BY <1>3, <2>5, <4>2, <5>1
                  <5>2. CASE j # Len(events) + 1
                      <6>1. j \in 1 .. Len(events) /\ more[j] = events[j]
                          BY <1>3, <5>2
                      <6> QED  BY <1>3, <2>3, <4>1, <4>2, <6>1
                  <5> QED  BY <5>1, <5>2
              <4> QED  BY <4>2 DEF Told
          <3> QED  BY <3>1, <3>2
      <2> QED  BY <2>1, <2>3, <2>4, <2>6 DEF FoldOK, more, g
  <1> QED  BY <1>5, <1>6

-----------------------------------------------------------------------------
(* Compaction.                                                             *)

LEMMA BoundaryBound ==
    ASSUME NEW h \in Seq(ConversationItem), NEW b \in Int, b < Len(h)
    PROVE  /\ AdjustCompactionBoundary(h, b) \in Int /\ AdjustCompactionBoundary(h, b) <= b
           /\ Settled(h) /\ AdjustCompactionBoundary(h, b) > 0 =>
                h[AdjustCompactionBoundary(h, b) + 1].role # "tool"
  <1> DEFINE a == AdjustCompactionBoundary(h, b)
  <1>1. Len(h) \in Nat /\ DOMAIN h = 1 .. Len(h) /\ ~(b >= Len(h))
      OBVIOUS
  <1>2. CASE b <= 0 \/ h[b + 1].role # "tool"
      <2>1. a = b
          BY <1>2 DEF AdjustCompactionBoundary
      <2> HIDE DEF a
      <2>2. a \in Int /\ a <= b /\ (a > 0 => h[a + 1].role # "tool")
          BY <1>2, <2>1
      <2> QED  BY <2>2 DEF a
  <1>3. CASE ~(b <= 0) /\ h[b + 1].role = "tool"
      <2> DEFINE owners == {i \in 1 .. b : IsCalling(h[i])}
                 owner == Max(owners)
                 answered == ResultRun(h, owner) >= Len(h[owner].calls)
                 plain == {k \in Max({1, owner - CompactionLookback}) .. owner - 1 :
                             h[k].role # "tool" /\ ~IsCalling(h[k])}
      <2>1. a = IF owners = {} THEN b
                ELSE IF answered \/ plain = {} THEN owner - 1 ELSE Max(plain)
          BY <1>1, <1>3, Zenon DEF AdjustCompactionBoundary
      <2>2. owners \in SUBSET Int /\ \A m \in owners : m <= b
          OBVIOUS
      <2>3. CASE owners = {}
          <3>1. a = b
              BY <2>1, <2>3
          <3>2. ~Settled(h)
              <4> SUFFICES ASSUME Settled(h)  PROVE FALSE
                  OBVIOUS
              <4>1. b + 1 \in DOMAIN h /\ (b + 1) - 1 = b /\ b \in 1 .. b
                  BY <1>1, <1>3
              <4>2. IsCalling(h[b])
                  BY <1>3, <4>1 DEF Settled
              <4> QED  BY <2>3, <4>1, <4>2
          <3> HIDE DEF a
          <3>3. a \in Int /\ a <= b
              BY <3>1
          <3> QED  BY <3>2, <3>3 DEF a
      <2>4. CASE owners # {}
          <3>1. owner \in owners /\ \A m \in owners : m <= owner
              <4> HIDE DEF owners
              <4> QED  BY <2>2, <2>4, GreatestBounded
          <3>2. owner \in 1 .. b /\ IsCalling(h[owner])
              BY <3>1
          <3>3. ASSUME Settled(h)
                PROVE  owner = b /\ answered
              <4>1. b + 1 \in DOMAIN h /\ (b + 1) - 1 = b /\ b \in 1 .. b /\ b \in 1 .. Len(h)
                  BY <1>1, <1>3
              <4>2. IsCalling(h[b])
                  BY <1>3, <3>3, <4>1 DEF Settled
              <4>3. b \in owners
                  BY <4>1, <4>2
              <4>4. owner = b
                  <5>1. b <= owner
                      BY <3>1, <4>3
                  <5> HIDE DEF owner
                  <5> QED  BY <3>2, <5>1
              <4>5. Len(h[b].calls) = 1
                  BY <1>1, <3>3, <4>1, <4>2 DEF Settled
              <4>6. ResultRun(h, b) >= 1
                  <5>1. /\ ResultRun(h, b) \in 0 .. Len(h) - b
                        /\ b + ResultRun(h, b) < Len(h) => h[b + ResultRun(h, b) + 1].role # "tool"
                      BY <4>1, ResultRunIs
                  <5>2. ResultRun(h, b) # 0
                      <6> SUFFICES ASSUME ResultRun(h, b) = 0  PROVE FALSE
                          OBVIOUS
                      <6>1. h[b + 0 + 1].role # "tool"
                          BY <5>1
                      <6> QED  BY <1>3, <6>1
                  <5> QED  BY <5>1, <5>2
              <4> QED  BY <4>4, <4>5, <4>6
          <3> HIDE DEF owner
          <3>4. CASE answered \/ plain = {}
              <4>1. a = owner - 1
                  BY <2>1, <2>4, <3>4
              <4> HIDE DEF a
              <4>2. a \in Int /\ a <= b /\ a + 1 = owner
                  BY <3>2, <4>1
              <4>3. h[a + 1].role # "tool"
                  BY <3>2, <4>2 DEF IsCalling
              <4> QED  BY <4>2, <4>3 DEF a
          <3>5. CASE ~(answered \/ plain = {})
              <4>1. a = Max(plain)
                  BY <2>1, <2>4, <3>5
              <4>2. plain \in SUBSET Int /\ \A m \in plain : m <= owner - 1
                  <5>1. Max({1, owner - CompactionLookback}) \in Int
                      <6> DEFINE S == {1, owner - CompactionLookback}
                      <6>1. S \in SUBSET Int /\ S # {} /\ \A m \in S : m <= owner
                          BY <3>2 DEF CompactionLookback
                      <6>2. owner \in Int
                          BY <3>2
                      <6> HIDE DEF S
                      <6>3. Max(S) \in S
                          BY <6>1, <6>2, GreatestBounded
                      <6> QED  BY <6>1, <6>3 DEF S
                  <5> QED  BY <3>2, <5>1
              <4>3. Max(plain) \in plain
                  <5>1. owner - 1 \in Int
                      BY <3>2
                  <5> HIDE DEF plain
                  <5> QED  BY <3>5, <4>2, <5>1, GreatestBounded
              <4>4. Max(plain) \in Int /\ Max(plain) <= owner - 1
                  BY <4>2, <4>3
              <4> HIDE DEF a, plain
              <4>5. a \in Int /\ a <= b
                  BY <3>2, <4>1, <4>4
              <4>6. ~Settled(h)
                  BY <3>3, <3>5
              <4> QED  BY <4>5, <4>6 DEF a
          <3> QED  BY <3>4, <3>5
      <2> QED  BY <2>3, <2>4
  <1> QED  BY <1>2, <1>3

\* pinnedHistoryItems and selectCompactionSpan on a conversation that is empty
\* or opens with the task.
LEMMA SpanFacts ==
    ASSUME NEW h \in Seq(ConversationItem), Opened(h) \/ h = <<>>
    PROVE  /\ SelectCompactionSpan(h) \in Nat
           /\ SelectCompactionSpan(h) > 0 =>
                /\ Opened(h) /\ PinnedHistoryItems(h) = 1
                /\ 1 + SelectCompactionSpan(h) < Len(h)
                /\ Settled(h) => h[1 + SelectCompactionSpan(h) + 1].role # "tool"
  <1> DEFINE users == {i \in DOMAIN h : h[i].role = "user"}
             pinned == PinnedHistoryItems(h)
             b == Len(h) - RecentWindow
             a == AdjustCompactionBoundary(h, b)
             s == SelectCompactionSpan(h)
  <1>1. Len(h) \in Nat /\ DOMAIN h = 1 .. Len(h) /\ RecentWindow \in Nat \ {0}
      BY HistoryAssumption
  <1>2. b \in Int /\ b < Len(h)
      BY <1>1
  <1>3. /\ a \in Int /\ a <= b
        /\ Settled(h) /\ a > 0 => h[a + 1].role # "tool"
      <2> HIDE DEF b
      <2> QED  BY <1>2, BoundaryBound
  <1>4. s = IF Len(h) <= RecentWindow + pinned \/ a <= pinned THEN 0 ELSE a - pinned
      BY DEF SelectCompactionSpan
  <1>5. CASE h = <<>>
      <2>1. users = {}
          BY <1>5
      <2>2. pinned = 0
          BY <2>1 DEF PinnedHistoryItems
      <2>3. Len(h) = 0
          BY <1>5
      <2>4. s = 0
          <3> HIDE DEF pinned, a, s
          <3> QED  BY <1>1, <1>4, <2>2, <2>3
      <2> QED  BY <2>4
  <1>6. CASE Opened(h)
      <2>1. 1 \in users /\ \A i \in users : 1 <= i /\ i \in Nat
          BY <1>1, <1>6 DEF Opened
      <2>2. Min(users) = 1
          <3> HIDE DEF users
          <3>1. \E x \in users : \A y \in users : x <= y
              BY <2>1
          <3>2. Min(users) \in users /\ \A y \in users : Min(users) <= y
              BY <3>1 DEF Min
          <3> QED  BY <2>1, <3>2
      <2>3. pinned = 1
          <3>1. ~\E i \in 1 .. Min(users) - 1 : IsCalling(h[i])
              BY <2>2
          <3>2. users # {}
              BY <2>1
          <3>3. pinned = IF users = {} \/ \E i \in 1 .. Min(users) - 1 : IsCalling(h[i])
                         THEN 0 ELSE Min(users)
              BY DEF PinnedHistoryItems
          <3> HIDE DEF users, pinned
          <3> QED  BY <2>2, <3>1, <3>2, <3>3
      <2> HIDE DEF pinned, a, s
      <2>4. CASE Len(h) <= RecentWindow + pinned \/ a <= pinned
          <3>1. s = 0
              BY <1>4, <2>4
          <3> QED  BY <3>1 DEF s
      <2>5. CASE ~(Len(h) <= RecentWindow + pinned \/ a <= pinned)
          <3>1. s = a - 1 /\ a > 1
              BY <1>3, <1>4, <2>3, <2>5
          <3>2. s \in Nat /\ s > 0 /\ 1 + s = a /\ 1 + s < Len(h)
              BY <1>1, <1>2, <1>3, <3>1
          <3>3. Settled(h) => h[1 + s + 1].role # "tool"
              BY <1>3, <3>1, <3>2
          <3> QED  BY <1>6, <2>3, <3>2, <3>3 DEF s, pinned
      <2> QED  BY <2>4, <2>5
  <1> QED  BY <1>5, <1>6

\* The pinned task, the items behind the span and the new turn.
LEMMA KeptFacts ==
    ASSUME NEW h \in Seq(ConversationItem), Opened(h), NEW s \in Nat, 1 + s < Len(h)
    PROVE  LET kept == SubSeq(h, 1, 1) \o SubSeq(h, 1 + s + 1, Len(h))
           IN /\ kept \in Seq(ConversationItem) /\ Opened(kept)
              /\ Len(kept) = Len(h) - s
              /\ \A k \in 2 .. Len(h) - s : kept[k] = h[k + s]
              /\ kept[1] = h[1]
  <1> DEFINE x == SubSeq(h, 1, 1)
             y == SubSeq(h, 1 + s + 1, Len(h))
             kept == x \o y
  <1>1. Len(h) \in Nat /\ Len(h) > 0
      BY DEF Opened
  <1>2. x \in Seq(ConversationItem) /\ Len(x) = 1 /\ x[1] = h[1]
      <2>1. /\ x \in Seq(ConversationItem) /\ Len(x) = 1 - 1 + 1
            /\ \A k \in 1 .. 1 - 1 + 1 : x[k] = h[1 + k - 1]
          BY <1>1, Part
      <2> HIDE DEF x
      <2> QED  BY <2>1
  <1>3. /\ y \in Seq(ConversationItem) /\ Len(y) = Len(h) - s - 1
        /\ \A k \in 1 .. Len(h) - s - 1 : y[k] = h[k + s + 1]
      <2>1. /\ y \in Seq(ConversationItem) /\ Len(y) = Len(h) - (1 + s + 1) + 1
            /\ \A k \in 1 .. Len(h) - (1 + s + 1) + 1 : y[k] = h[(1 + s + 1) + k - 1]
          BY <1>1, Part
      <2> HIDE DEF y
      <2>2. \A k \in 1 .. Len(h) - s - 1 : (1 + s + 1) + k - 1 = k + s + 1
          BY <1>1
      <2> QED  BY <1>1, <2>1, <2>2
  <1> HIDE DEF x, y
  <1>4. /\ kept \in Seq(ConversationItem) /\ Len(kept) = Len(x) + Len(y)
        /\ \A i \in 1 .. Len(x) : kept[i] = x[i]
        /\ \A i \in 1 .. Len(y) : kept[Len(x) + i] = y[i]
      <2>1. x \in Seq(ConversationItem) /\ y \in Seq(ConversationItem)
          BY <1>2, <1>3
      <2> QED  BY <2>1, Concat
  <1> HIDE DEF kept
  <1>5. Len(kept) = Len(h) - s /\ kept[1] = h[1]
      <2>1. 1 \in 1 .. Len(x)
          BY <1>2
      <2>2. kept[1] = x[1]
          BY <1>4, <2>1
      <2> QED  BY <1>1, <1>2, <1>3, <1>4, <2>2
  <1>6. ASSUME NEW k \in 2 .. Len(h) - s
        PROVE  kept[k] = h[k + s]
      <2>1. k - 1 \in 1 .. Len(y) /\ 1 + (k - 1) = k /\ (k - 1) + s + 1 = k + s
          BY <1>1, <1>3
      <2>2. kept[1 + (k - 1)] = y[k - 1]
          BY <1>2, <1>4, <2>1
      <2>3. y[k - 1] = h[(k - 1) + s + 1]
          BY <1>3, <2>1
      <2> QED  BY <2>1, <2>2, <2>3
  <1>7. Opened(kept)
      <2>1. Len(kept) > 0
          BY <1>1, <1>5
      <2>2. kept # <<>>
          BY <2>1
      <2> QED  BY <1>5, <2>2 DEF Opened
  <1> QED  BY <1>4, <1>5, <1>6, <1>7 DEF kept, x, y

-----------------------------------------------------------------------------
(***************************************************************************)
(* The user's turns: TurnsInv is inductive.                                *)
(***************************************************************************)
EventTypes ==
    {"user", "assistant_status", "tool_call", "tool_result", "user_request_input",
     "run_completed", "history_compacted", "system_feedback", "run_ended"}

LEMMA EventFacts ==
    ASSUME run \in Nat, NEW t \in EventTypes, NEW n \in Nat, NEW c \in Nat
    PROVE  /\ Event(t, n, c) \in LogEvent /\ Event(t, n, c).type = t
           /\ Event(t, n, c).run = run /\ Event(t, n, c).n = n /\ Event(t, n, c).call = c
  BY DEF Event, LogEvent, EventTypes

LEMMA TypeParts ==
    ASSUME TypeOK
    PROVE  /\ history \in Seq(ConversationItem) /\ log \in Seq(LogEvent)
           /\ phase \in {"idle", "top", "sent", "batch", "closing", "waiting"}
           /\ omitted \in Nat /\ suspended \in Nat /\ task \in Nat /\ run \in Nat
           /\ contents \in Nat /\ compactions \in Nat /\ hydrations \in Nat
           /\ digest \in SUBSET Nat /\ batch \in Seq(Nat) /\ regular \in BOOLEAN
  BY DEF TypeOK

\* One more event that is neither a user turn nor a checkpoint.
LEMMA EmitPlain ==
    ASSUME NEW events \in Seq(LogEvent), NEW r \in Nat, FoldOK(events, r),
           NEW e \in LogEvent, e.run = r, e.type \notin {"user", "history_compacted"}
    PROVE  Append(events, e) \in Seq(LogEvent) /\ FoldOK(Append(events, e), r)
  <1>1. e.run <= r /\ e.type # "user" /\ e.type # "history_compacted"
      OBVIOUS
  <1>2. FoldOK(Append(events, e), r)
      BY <1>1, EmitKeeps
  <1> QED  BY <1>2

LEMMA OpenedAppend ==
    ASSUME NEW h \in Seq(ConversationItem), Opened(h), NEW x \in ConversationItem
    PROVE  Append(h, x) \in Seq(ConversationItem) /\ Opened(Append(h, x))
  BY BeginsAppend, BeginsKeeps

\* What is known while a run is under way.
LEMMA UnderWay ==
    ASSUME TurnsInv, phase # "idle" \/ log # <<>>
    PROVE  /\ run > 0 /\ FoldOK(log, run)
           /\ phase # "top" => Opened(history)
           /\ Opened(history) \/ (history = <<>> /\ phase = "top" /\ task = 1)
  <1>1. run \in Nat
      BY TypeParts DEF TurnsInv
  <1>2. run # 0
      BY DEF TurnsInv, TurnsKept
  <1>3. run > 0
      BY <1>1, <1>2
  <1> QED  BY <1>3 DEF TurnsInv, TurnsKept

\* The part every step of a run has to supply.
LEMMA TurnsStep ==
    ASSUME TurnsInv, run > 0, run' = run,
           history' \in Seq(ConversationItem), Opened(history'),
           log' \in Seq(LogEvent), FoldOK(log', run),
           phase' \in {"idle", "top", "sent", "batch", "closing"},
           phase' = "batch" => batch' # <<>>,
           omitted' \in Nat, suspended' \in Nat, task' \in Nat, contents' \in Nat,
           compactions' \in Nat, hydrations' \in Nat, digest' \in SUBSET Nat,
           batch' \in Seq(Nat), regular' \in BOOLEAN
    PROVE  TurnsInv'
  <1>1. run \in Nat
      BY TypeParts DEF TurnsInv
  <1>2. TypeOK'
      BY <1>1 DEF TypeOK
  <1>3. TurnsKept'
      BY <1>1 DEF TurnsKept
  <1> QED  BY <1>2, <1>3 DEF TurnsInv

LEMMA RepairEmpty == RepairToolPairing(<<>>, 0) = <<>>
  <1>1. <<>> \in Seq(ConversationItem) /\ Settled(<<>>) /\ 0 \in Nat
      BY DEF Settled
  <1> QED  BY <1>1, RepairSettled

LEMMA TurnsSubmit == TurnsInv /\ Submit => TurnsInv'
  <1> SUFFICES ASSUME TurnsInv, Submit  PROVE TurnsInv'
      OBVIOUS
  <1>1. TypeOK /\ TurnsKept
      BY DEF TurnsInv
  <1> DEFINE n == contents'
             r == run'
             e == [Event("user", n, 0) EXCEPT !.run = r]
  <1>2. /\ phase = "idle" /\ contents' = contents + 1 /\ run' = run + 1
        /\ log' = Append(log, e) /\ history' = RepairToolPairing(history, 0)
        /\ suspended' = 0 /\ task' = contents' /\ phase' = "top"
        /\ regular' = (regular /\ history' = history)
        /\ UNCHANGED <<omitted, digest, batch, compactions, hydrations>>
      BY DEF Submit, Take, ClearAbandonedSuspension
  <1>3. /\ history \in Seq(ConversationItem) /\ log \in Seq(LogEvent) /\ run \in Nat
        /\ contents \in Nat /\ omitted \in Nat /\ digest \in SUBSET Nat
        /\ batch \in Seq(Nat) /\ compactions \in Nat /\ hydrations \in Nat
        /\ regular \in BOOLEAN
      BY <1>1, TypeParts
  <1>4. n \in Nat /\ r \in Nat /\ n > 0 /\ r > 0
      BY <1>2, <1>3
  <1>5. e \in LogEvent /\ e.type = "user" /\ e.run = r /\ e.n = n
      <2> HIDE DEF n, r
      <2> QED  BY <1>3, <1>4 DEF Event, LogEvent
  <1>6. history' \in Seq(ConversationItem)
      BY <1>2, <1>3, RepairFacts
  <1>7. log' \in Seq(LogEvent)
      BY <1>2, <1>3, <1>5
  <1>8. TypeOK'
      <2> HIDE DEF e
      <2>1. regular' \in BOOLEAN
          BY <1>2
      <2> QED  BY <1>2, <1>3, <1>4, <1>6, <1>7, <2>1 DEF TypeOK
  <1>9. CASE run = 0
      <2>1. log = <<>> /\ history = <<>> /\ contents = 0
          BY <1>1, <1>9 DEF TurnsKept
      <2>2. history' = <<>> /\ task' = 1 /\ n = 1
          BY <1>2, <2>1, RepairEmpty
      <2> DEFINE f == Folder
                 g == Folded(log')
      <2>3. f \in FoldState /\ f.items = <<>> /\ f.ask = 0 /\ f.pending = NoItem
          <3>1. NoItem \in AssistantItem
              <4>1. 0 \in Nat
                  OBVIOUS
              <4> QED  BY <4>1, ItemTypes
          <3>2. /\ f.items = <<>> /\ f.ask = 0 /\ f.pending = NoItem /\ f.askRun = 0
                /\ f.omitted = 0 /\ f.digest = {}
              BY DEF Folder
          <3>3. f \in FoldState
              BY <3>1 DEF Folder, FoldState
          <3> QED  BY <3>2, <3>3
      <2>4. Folded(log) = f
          BY <2>1, FoldedEmpty
      <2>5. g = Consume(f, e)
          <3> HIDE DEF e, f
          <3> QED  BY <1>2, <1>3, <1>5, <2>4, FoldedAppend
      <2> HIDE DEF e, f
      <2>6. g = FlushWith(f, User(1))
          <3>1. Consume(f, e) = FlushWith(f, User(e.n))
              <4>1. e.type = "user" /\ ~(f.ask # 0 /\ e.run = f.askRun)
                  BY <1>5, <2>3
              <4> QED  BY <4>1, ConsumeIs, Zenon
          <3>2. e.n = 1
              BY <1>5, <2>2
          <3> QED  BY <2>5, <3>1, <3>2
      <2>7. Flush(f) = f
          BY <2>3, FlushFacts
      <2>8. User(1) \in ConversationItem /\ User(1).role = "user" /\ User(1).n = 1
          BY ItemTypes
      <2>9. g.items = Append(f.items, User(1))
          BY <2>3, <2>6, <2>7, <2>8, FlushWithFacts
      <2> HIDE DEF g
      <2>10. /\ g \in FoldState /\ g.askRun \in {f.askRun, e.run, 0}
          <3>1. e.type # "history_compacted"
              BY <1>5
          <3> QED  BY <1>5, <2>3, <2>5, <3>1, ConsumeGrows
      <2>11. g.items = <<User(1)>>
          BY <2>3, <2>9
      <2>12. Opened(g.items)
          BY <2>8, <2>11 DEF Opened
      <2>13. g.askRun <= r
          <3>1. f.askRun = 0
              BY DEF f, Folder
          <3> QED  BY <1>4, <1>5, <2>10, <3>1
      <2>14. Told(log', g)
          <3>1. DOMAIN log' = {1} /\ log'[1] = e
              BY <1>2, <1>5, <2>1
          <3>2. 1 \in DOMAIN g.items /\ g.items[1] = User(1)
              BY <2>11
          <3>3. HeldTurn(g.items, 1)
              BY <2>8, <3>2 DEF HeldTurn, Anchored
          <3> QED  BY <1>5, <2>2, <3>1, <3>3 DEF Told
      <2>15. FoldOK(log', run')
          BY <2>10, <2>12, <2>13, <2>14 DEF FoldOK, g
      <2>16. TurnsKept'
          BY <1>2, <1>4, <2>2, <2>15 DEF TurnsKept
      <2> QED  BY <1>8, <2>16 DEF TurnsInv
  <1>10. CASE run # 0
      <2>1. run > 0
          BY <1>3, <1>10
      <2>2. FoldOK(log, run) /\ Opened(history)
          BY <1>1, <1>2, <2>1 DEF TurnsKept
      <2>3. Opened(history')
          BY <1>2, <1>3, <2>2, RepairFacts
      <2>4. Folded(log).askRun <= run /\ Folded(log).askRun \in Nat
          BY <2>2 DEF FoldOK, FoldState
      <2>5. FoldOK(log, r)
          BY <1>2, <1>3, <2>2, <2>4 DEF FoldOK
      <2>6. e.run <= r /\ e.run # Folded(log).askRun /\ e.type # "history_compacted"
          BY <1>2, <1>3, <1>4, <1>5, <2>4
      <2> HIDE DEF e, r
      <2>7. FoldOK(Append(log, e), r)
          BY <1>3, <1>4, <1>5, <2>5, <2>6, EmitKeeps
      <2>8. FoldOK(log', run')
          BY <1>2, <2>7 DEF r
      <2>9. TurnsKept'
          BY <1>2, <1>4, <2>3, <2>8 DEF TurnsKept, r
      <2> QED  BY <1>8, <2>9 DEF TurnsInv
  <1> QED  BY <1>9, <1>10

LEMMA TurnsAnswer == TurnsInv /\ Answer => TurnsInv'
  <1> SUFFICES ASSUME TurnsInv, Answer  PROVE TurnsInv'
      OBVIOUS
  <1> DEFINE n == contents'
             e == Event("user", n, 0)
             x == ToolResult(suspended, n)
  <1>1. /\ phase = "waiting" /\ contents' = contents + 1 /\ log' = log \o <<e>>
        /\ history' = RepairToolPairing(Append(history, x), 0)
        /\ suspended' = 0 /\ phase' = "top"
        /\ UNCHANGED <<omitted, digest, task, batch, run, compactions, hydrations, regular>>
      BY DEF Answer, Take, Emit, ClearAbandonedSuspension
  <1>2. /\ history \in Seq(ConversationItem) /\ log \in Seq(LogEvent) /\ run \in Nat
        /\ contents \in Nat /\ omitted \in Nat /\ digest \in SUBSET Nat /\ task \in Nat
        /\ batch \in Seq(Nat) /\ compactions \in Nat /\ hydrations \in Nat
        /\ regular \in BOOLEAN /\ suspended \in Nat
      BY TypeParts DEF TurnsInv
  <1>3. run > 0 /\ FoldOK(log, run) /\ Opened(history) /\ Asking(Folded(log))
      BY <1>1, UnderWay DEF TurnsInv, TurnsKept
  <1>4. n \in Nat
      BY <1>1, <1>2
  <1>5. e \in LogEvent /\ e.type = "user" /\ e.run = run
      <2> HIDE DEF n
      <2>1. "user" \in EventTypes
          BY DEF EventTypes
      <2> QED  BY <1>2, <1>4, <2>1, EventFacts
  <1>6. x \in ConversationItem
      BY <1>2, <1>4, ItemTypes
  <1>7. history' \in Seq(ConversationItem) /\ Opened(history')
      <2> HIDE DEF x
      <2>1. Append(history, x) \in Seq(ConversationItem) /\ Opened(Append(history, x))
          BY <1>2, <1>3, <1>6, OpenedAppend
      <2> QED  BY <1>1, <2>1, RepairFacts
  <1> HIDE DEF e, n
  <1>8. log' = Append(log, e) /\ log' \in Seq(LogEvent)
      BY <1>1, <1>2, <1>5, FoldedConcat
  <1>9. FoldOK(log', run)
      <2>1. e.run <= run /\ e.type # "history_compacted"
          BY <1>2, <1>5
      <2>2. FoldOK(Append(log, e), run)
          BY <1>2, <1>3, <1>5, <2>1, EmitKeeps
      <2> QED  BY <1>8, <2>2
  <1>10. contents' \in Nat
      BY <1>4 DEF n
  <1> QED  BY <1>1, <1>2, <1>3, <1>7, <1>8, <1>9, <1>10, TurnsStep

\* The user turn that enters history with the request.
LEMMA TurnFacts ==
    ASSUME NEW h \in Seq(ConversationItem), NEW t \in Nat
    PROVE  /\ h \o Turn(t) \in Seq(ConversationItem)
           /\ t = 0 => h \o Turn(t) = h
           /\ t # 0 => h \o Turn(t) = Append(h, User(t))
           /\ Opened(h) => Opened(h \o Turn(t))
           /\ h = <<>> /\ t = 1 => Opened(h \o Turn(t))
  <1>1. User(t) \in ConversationItem /\ User(t).role = "user" /\ User(t).n = t
      BY ItemTypes
  <1>2. CASE t = 0
      <2>1. h \o Turn(t) = h
          BY <1>2 DEF Turn
      <2>2. ~(t = 1)
          BY <1>2
      <2> HIDE DEF Turn
      <2>3. h \o Turn(t) \in Seq(ConversationItem)
          BY <2>1
      <2>4. Opened(h) => Opened(h \o Turn(t))
          BY <2>1
      <2> QED  BY <1>2, <2>1, <2>2, <2>3, <2>4
  <1>3. CASE t # 0
      <2> DEFINE x == User(t)
      <2>1. Turn(t) = <<x>>
          BY <1>3 DEF Turn
      <2> HIDE DEF x
      <2>2. h \o Turn(t) = Append(h, x)
          BY <1>1, <2>1 DEF x
      <2>3. /\ Append(h, x) \in Seq(ConversationItem)
            /\ Opened(h) => Opened(Append(h, x))
          BY <1>1, OpenedAppend DEF x
      <2>4. h = <<>> /\ t = 1 => Opened(Append(h, x))
          <3> SUFFICES ASSUME h = <<>>, t = 1  PROVE Opened(Append(h, x))
              OBVIOUS
          <3>1. Append(h, x) # <<>> /\ Append(h, x)[1] = x
              BY <1>1 DEF x
          <3> QED  BY <1>1, <3>1 DEF Opened, x
      <2> QED  BY <1>3, <2>2, <2>3, <2>4 DEF x
  <1> QED  BY <1>2, <1>3

\* What Compact does, with the pinned task and without the choice of a summary.
LEMMA CompactFacts ==
    ASSUME TurnsInv, phase = "top", Compact
    PROVE  \E s \in Nat, summary \in SUBSET Nat :
             /\ s = SelectCompactionSpan(history) /\ s > 0 /\ Opened(history)
             /\ 1 + s < Len(history) /\ PinnedHistoryItems(history) = 1
             /\ compactions' = compactions + 1
             /\ history' = (SubSeq(history, 1, 1) \o SubSeq(history, 1 + s + 1, Len(history)))
                             \o Turn(task)
             /\ digest' = (IF summary = {} THEN digest ELSE summary)
             /\ omitted' = (IF summary = {} THEN omitted + s ELSE omitted)
             /\ Checkpoint(1, s, summary) \in LogEvent
             /\ Checkpoint(1, s, summary).type = "history_compacted"
             /\ Checkpoint(1, s, summary).run = run
             /\ Checkpoint(1, s, summary).pinned = 1
             /\ Checkpoint(1, s, summary).shadowed = s
             /\ Checkpoint(1, s, summary).digest = summary
             /\ log' = Append(log, Checkpoint(1, s, summary))
  <1>1. /\ history \in Seq(ConversationItem) /\ log \in Seq(LogEvent) /\ run \in Nat
        /\ digest \in SUBSET Nat
      BY TypeParts DEF TurnsInv
  <1>2. Opened(history) \/ history = <<>>
      BY UnderWay
  <1> DEFINE s == SelectCompactionSpan(history)
             pinned == PinnedHistoryItems(history)
             span == SubSeq(history, pinned + 1, pinned + s)
  <1>3. PICK summary \in {digest \union {item.n : item \in ToSet(span)}, {}} :
          /\ s > 0
          /\ compactions' = compactions + 1
          /\ history' = SubSeq(history, 1, pinned)
                          \o SubSeq(history, pinned + s + 1, Len(history))
                          \o (IF task = 0 THEN <<>> ELSE <<User(task)>>)
          /\ digest' = (IF summary = {} THEN digest ELSE summary)
          /\ omitted' = (IF summary = {} THEN omitted + s ELSE omitted)
          /\ log' = log \o <<Checkpoint(pinned, s, summary)>>
      BY Zenon DEF Compact, Emit
  <1>4. s \in Nat /\ s > 0 /\ Opened(history) /\ pinned = 1 /\ 1 + s < Len(history)
      BY <1>1, <1>2, <1>3, SpanFacts
  <1>5. summary \in SUBSET Nat
      <2>1. span \in Seq(ConversationItem)
          <3>1. span = SubSeq(history, 2, 1 + s)
              BY <1>4
          <3>2. Len(history) \in Nat
              BY <1>1
          <3> HIDE DEF s, span
          <3> QED  BY <1>1, <1>4, <3>1, <3>2, Part
      <2> HIDE DEF span
      <2>2. \A item \in ToSet(span) : item.n \in Nat
          <3>1. \A item \in ToSet(span) : item \in ConversationItem
              BY <2>1 DEF ToSet
          <3> QED  BY <3>1 DEF ConversationItem
      <2>3. {item.n : item \in ToSet(span)} \subseteq Nat
          BY <2>2
      <2>4. summary = {} \/ summary = digest \union {item.n : item \in ToSet(span)}
          BY <1>3
      <2> QED  BY <1>1, <2>3, <2>4
  <1> HIDE DEF s, pinned
  <1> DEFINE e == Checkpoint(1, s, summary)
  <1>6. /\ e \in LogEvent /\ e.type = "history_compacted" /\ e.run = run
        /\ e.pinned = 1 /\ e.shadowed = s /\ e.digest = summary
      BY <1>1, <1>4, <1>5 DEF Checkpoint, Event, LogEvent
  <1>7. log' = Append(log, e)
      <2>1. log' = log \o <<e>>
          BY <1>3, <1>4
      <2> HIDE DEF e
      <2> QED  BY <1>1, <1>6, <2>1, FoldedConcat
  <1>8. history' = (SubSeq(history, 1, 1) \o SubSeq(history, 1 + s + 1, Len(history)))
                     \o Turn(task)
      BY <1>3, <1>4 DEF Turn
  <1> HIDE DEF e
  <1> QED  BY <1>3, <1>4, <1>5, <1>6, <1>7, <1>8 DEF e, s, pinned

LEMMA TurnsPrepare == TurnsInv /\ PrepareRequest => TurnsInv'
  <1> SUFFICES ASSUME TurnsInv, PrepareRequest  PROVE TurnsInv'
      OBVIOUS
  <1>1. /\ phase = "top" /\ task' = 0 /\ phase' = "sent"
        /\ UNCHANGED <<suspended, batch, run, contents, hydrations, regular>>
      BY DEF PrepareRequest
  <1>2. /\ history \in Seq(ConversationItem) /\ log \in Seq(LogEvent) /\ run \in Nat
        /\ contents \in Nat /\ omitted \in Nat /\ digest \in SUBSET Nat /\ task \in Nat
        /\ batch \in Seq(Nat) /\ compactions \in Nat /\ hydrations \in Nat
        /\ regular \in BOOLEAN /\ suspended \in Nat
      BY TypeParts DEF TurnsInv
  <1>3. /\ run > 0 /\ FoldOK(log, run)
        /\ Opened(history) \/ (history = <<>> /\ task = 1)
      BY <1>1, UnderWay
  <1>4. CASE Compact
      <2>1. PICK s \in Nat, summary \in SUBSET Nat :
             /\ s > 0 /\ Opened(history) /\ 1 + s < Len(history)
             /\ compactions' = compactions + 1
             /\ history' = (SubSeq(history, 1, 1) \o SubSeq(history, 1 + s + 1, Len(history)))
                             \o Turn(task)
             /\ digest' = (IF summary = {} THEN digest ELSE summary)
             /\ omitted' = (IF summary = {} THEN omitted + s ELSE omitted)
             /\ Checkpoint(1, s, summary) \in LogEvent
             /\ Checkpoint(1, s, summary).type = "history_compacted"
             /\ Checkpoint(1, s, summary).run = run
             /\ Checkpoint(1, s, summary).pinned = 1
             /\ log' = Append(log, Checkpoint(1, s, summary))
          BY <1>1, <1>4, CompactFacts
      <2> DEFINE kept == SubSeq(history, 1, 1) \o SubSeq(history, 1 + s + 1, Len(history))
                 e == Checkpoint(1, s, summary)
      <2>2. kept \in Seq(ConversationItem) /\ Opened(kept)
          BY <1>2, <2>1, KeptFacts
      <2>3. history' = kept \o Turn(task)
          BY <2>1
      <2> HIDE DEF kept
      <2>4. history' \in Seq(ConversationItem) /\ Opened(history')
          BY <1>2, <2>2, <2>3, TurnFacts
      <2>5. /\ e \in LogEvent /\ e.type = "history_compacted" /\ e.run = run
            /\ e.pinned = 1 /\ log' = Append(log, e)
          BY <2>1
      <2> HIDE DEF e
      <2>6. e.run <= run /\ e.type # "user"
          BY <1>2, <2>5
      <2>7. FoldOK(Append(log, e), run)
          BY <1>2, <1>3, <2>5, <2>6, EmitKeeps
      <2>8. log' \in Seq(LogEvent) /\ FoldOK(log', run)
          BY <1>2, <2>5, <2>7
      <2>9. digest' \in SUBSET Nat /\ omitted' \in Nat /\ compactions' \in Nat
          BY <1>2, <2>1
      <2> QED  BY <1>1, <1>2, <1>3, <2>4, <2>8, <2>9, TurnsStep
  <1>5. CASE ~Compact
      <2>1. /\ history' = history \o Turn(task)
            /\ UNCHANGED <<digest, omitted, compactions, log>>
          BY <1>5 DEF PrepareRequest, Turn
      <2>2. history' \in Seq(ConversationItem) /\ Opened(history')
          BY <1>2, <1>3, <2>1, TurnFacts
      <2> QED  BY <1>1, <1>2, <1>3, <2>1, <2>2, TurnsStep
  <1> QED  BY <1>4, <1>5

\* Up to three events of the run, none of them a user turn or a checkpoint.
PlainEvent(e) == e \in LogEvent /\ e.run = run /\ e.type \notin {"user", "history_compacted"}

LEMMA EmittedPlain ==
    ASSUME log \in Seq(LogEvent), run \in Nat, FoldOK(log, run),
           NEW a, NEW b, NEW c, PlainEvent(a), PlainEvent(b), PlainEvent(c)
    PROVE  /\ log \o <<>> \in Seq(LogEvent) /\ FoldOK(log \o <<>>, run)
           /\ log \o <<a>> \in Seq(LogEvent) /\ FoldOK(log \o <<a>>, run)
           /\ log \o <<a, b>> \in Seq(LogEvent) /\ FoldOK(log \o <<a, b>>, run)
           /\ log \o <<a, b, c>> \in Seq(LogEvent) /\ FoldOK(log \o <<a, b, c>>, run)
  <1>1. /\ a \in LogEvent /\ a.run = run /\ a.type \notin {"user", "history_compacted"}
        /\ b \in LogEvent /\ b.run = run /\ b.type \notin {"user", "history_compacted"}
        /\ c \in LogEvent /\ c.run = run /\ c.type \notin {"user", "history_compacted"}
      BY DEF PlainEvent
  <1>2. Append(log, a) \in Seq(LogEvent) /\ FoldOK(Append(log, a), run)
      BY <1>1, EmitPlain
  <1>3. /\ Append(Append(log, a), b) \in Seq(LogEvent)
        /\ FoldOK(Append(Append(log, a), b), run)
      BY <1>1, <1>2, EmitPlain
  <1>4. /\ Append(Append(Append(log, a), b), c) \in Seq(LogEvent)
        /\ FoldOK(Append(Append(Append(log, a), b), c), run)
      BY <1>1, <1>3, EmitPlain
  <1>5. /\ log \o <<>> = log /\ log \o <<a>> = Append(log, a)
        /\ log \o <<a, b>> = Append(Append(log, a), b)
        /\ log \o <<a, b, c>> = Append(Append(Append(log, a), b), c)
      BY <1>1, FoldedConcat
  <1> QED  BY <1>2, <1>3, <1>4, <1>5, Zenon

LEMMA PlainEvents ==
    ASSUME run \in Nat, NEW n \in Nat, NEW c \in Nat
    PROVE  /\ PlainEvent(Event("run_ended", n, c)) /\ PlainEvent(Event("run_completed", n, c))
           /\ PlainEvent(Event("assistant_status", n, c))
           /\ PlainEvent(Event("system_feedback", n, c))
           /\ PlainEvent(Event("tool_call", n, c)) /\ PlainEvent(Event("tool_result", n, c))
           /\ PlainEvent(Event("user_request_input", n, c))
  BY DEF PlainEvent, Event, LogEvent

LEMMA TurnsRequestFails == TurnsInv /\ (RequestFails \/ ClosingFails) => TurnsInv'
  <1> SUFFICES ASSUME TurnsInv, RequestFails \/ ClosingFails  PROVE TurnsInv'
      OBVIOUS
  <1> DEFINE e == Event("run_ended", 0, 0)
  <1>1. /\ phase \in {"sent", "closing"} /\ log' = log \o <<e>> /\ phase' = "idle"
        /\ batch' \in {batch, <<>>}
        /\ UNCHANGED <<history, suspended, contents, regular, omitted, digest,
                       task, run, compactions, hydrations>>
      BY DEF RequestFails, ClosingFails, Emit, Kept
  <1>2. /\ history \in Seq(ConversationItem) /\ log \in Seq(LogEvent) /\ run \in Nat
        /\ contents \in Nat /\ omitted \in Nat /\ digest \in SUBSET Nat /\ task \in Nat
        /\ batch \in Seq(Nat) /\ compactions \in Nat /\ hydrations \in Nat
        /\ regular \in BOOLEAN /\ suspended \in Nat
      BY TypeParts DEF TurnsInv
  <1>3. run > 0 /\ FoldOK(log, run) /\ Opened(history)
      BY <1>1, UnderWay
  <1>4. PlainEvent(e)
      <2>1. 0 \in Nat
          OBVIOUS
      <2> QED  BY <1>2, <2>1, PlainEvents
  <1> HIDE DEF e
  <1>5. log' \in Seq(LogEvent) /\ FoldOK(log', run)
      BY <1>1, <1>2, <1>3, <1>4, EmittedPlain
  <1>6. batch' \in Seq(Nat)
      <2>1. <<>> \in Seq(Nat) /\ batch \in Seq(Nat) /\ (batch' = batch \/ batch' = <<>>)
          BY <1>1, <1>2
      <2> QED  BY <2>1, Zenon
  <1> QED  BY <1>1, <1>2, <1>3, <1>5, <1>6, TurnsStep

\* A text, on both sides: the ways the engine takes one.
LEMMA TurnsText ==
    ASSUME TurnsInv, phase \in {"sent", "closing"}, NEW x \in ConversationItem,
           NEW t \in {"run_completed", "assistant_status", "system_feedback"}, NEW n \in Nat,
           contents' = contents + 1, history' = Append(history, x),
           log' = log \o <<Event(t, n, 0)>>, phase' \in {"idle", "top"},
           batch' \in {batch, <<>>}, regular' \in BOOLEAN,
           UNCHANGED <<suspended, omitted, digest, task, run, compactions, hydrations>>
    PROVE  TurnsInv'
  <1> DEFINE e == Event(t, n, 0)
  <1>1. /\ history \in Seq(ConversationItem) /\ log \in Seq(LogEvent) /\ run \in Nat
        /\ contents \in Nat /\ omitted \in Nat /\ digest \in SUBSET Nat /\ task \in Nat
        /\ batch \in Seq(Nat) /\ compactions \in Nat /\ hydrations \in Nat
        /\ suspended \in Nat
      BY TypeParts DEF TurnsInv
  <1>2. run > 0 /\ FoldOK(log, run) /\ Opened(history)
      BY UnderWay
  <1>3. PlainEvent(e)
      <2>1. 0 \in Nat
          OBVIOUS
      <2> QED  BY <1>1, <2>1, PlainEvents
  <1>4. log' = log \o <<e>>
      OBVIOUS
  <1> HIDE DEF e
  <1>5. log' \in Seq(LogEvent) /\ FoldOK(log', run)
      BY <1>1, <1>2, <1>3, <1>4, EmittedPlain
  <1>6. history' \in Seq(ConversationItem) /\ Opened(history')
      BY <1>1, <1>2, OpenedAppend
  <1>7. /\ contents' \in Nat /\ phase' # "batch"
        /\ phase' \in {"idle", "top", "sent", "batch", "closing"}
      BY <1>1
  <1>8. batch' \in Seq(Nat)
      <2>1. <<>> \in Seq(Nat) /\ batch \in Seq(Nat) /\ (batch' = batch \/ batch' = <<>>)
          BY <1>1
      <2> QED  BY <2>1, Zenon
  <1> QED  BY <1>1, <1>2, <1>5, <1>6, <1>7, <1>8, TurnsStep

TextStep == FinalText \/ DraftText \/ MarkupRejected \/ BlankText \/ ClosingText

LEMMA TurnsTexts == TurnsInv /\ TextStep => TurnsInv'
  <1> SUFFICES ASSUME TurnsInv, TextStep
               PROVE  TurnsInv'
      OBVIOUS
  <1>1. contents \in Nat /\ batch \in Seq(Nat) /\ regular \in BOOLEAN
      BY TypeParts DEF TurnsInv
  <1>2. contents' = contents + 1
      BY DEF TextStep, FinalText, DraftText, MarkupRejected, BlankText, ClosingText, Take
  <1>3. contents' \in Nat /\ 0 \in Nat
      BY <1>1, <1>2
  <1> DEFINE n == contents'
  <1>4. /\ User(n) \in ConversationItem /\ Assistant(n, <<>>) \in ConversationItem
        /\ Assistant(0, <<>>) \in ConversationItem
      <2> HIDE DEF n
      <2> QED  BY <1>3, ItemTypes DEF n, AssistantItem
  <1>5. /\ phase \in {"sent", "closing"} /\ batch' \in {batch, <<>>}
        /\ regular' \in BOOLEAN
        /\ UNCHANGED <<suspended, omitted, digest, task, run, compactions, hydrations>>
      BY <1>1 DEF TextStep, FinalText, DraftText, MarkupRejected, BlankText, ClosingText, Kept
  <1>6. CASE FinalText \/ ClosingText
      <2>1. /\ history' = Append(history, Assistant(contents', <<>>)) /\ phase' = "idle"
            /\ log' = log \o <<Event("run_completed", contents', 0)>>
          BY <1>6 DEF FinalText, ClosingText, Emit
      <2> QED  BY <1>2, <1>3, <1>4, <1>5, <2>1, TurnsText
  <1>7. CASE DraftText
      <2>1. /\ history' = Append(history, Assistant(contents', <<>>)) /\ phase' = "top"
            /\ log' = log \o <<Event("assistant_status", contents', 0)>>
          BY <1>7 DEF DraftText, Emit
      <2> QED  BY <1>2, <1>3, <1>4, <1>5, <2>1, TurnsText
  <1>8. CASE MarkupRejected
      <2>1. /\ history' = Append(history, User(contents')) /\ phase' = "top"
            /\ log' = log \o <<Event("system_feedback", contents', 0)>>
          BY <1>8 DEF MarkupRejected, Emit
      <2> QED  BY <1>2, <1>3, <1>4, <1>5, <2>1, TurnsText
  <1>9. CASE BlankText
      <2>1. /\ history' = Append(history, Assistant(0, <<>>)) /\ phase' \in {"idle", "top"}
            /\ \/ log' = log \o <<Event("run_completed", 0, 0)>>
               \/ log' = log \o <<Event("assistant_status", 0, 0)>>
          BY <1>9 DEF BlankText, Emit
      <2> QED  BY <1>2, <1>3, <1>4, <1>5, <2>1, TurnsText
  <1> QED  BY <1>6, <1>7, <1>8, <1>9 DEF TextStep

\* The status event of an answer, when its content is not empty.
LEMMA StatusFacts ==
    ASSUME log \in Seq(LogEvent), run \in Nat, FoldOK(log, run), NEW n \in Nat, NEW a
    PROVE  log \o StatusEvents(a, n) \in Seq(LogEvent) /\ FoldOK(log \o StatusEvents(a, n), run)
  <1> DEFINE e == Event("assistant_status", n, 0)
  <1>1. PlainEvent(e)
      <2>1. 0 \in Nat
          OBVIOUS
      <2> QED  BY <2>1, PlainEvents
  <1>2. StatusEvents(a, n) = <<e>> \/ StatusEvents(a, n) = <<>>
      BY Zenon DEF StatusEvents
  <1> HIDE DEF e
  <1>3. /\ log \o <<>> \in Seq(LogEvent) /\ FoldOK(log \o <<>>, run)
        /\ log \o <<e>> \in Seq(LogEvent) /\ FoldOK(log \o <<e>>, run)
      BY <1>1, EmittedPlain
  <1> QED  BY <1>2, <1>3, Zenon

\* The message CallTools puts into history.
LEMMA CallToolsFacts ==
    ASSUME TurnsInv, NEW a \in CallingAnswers, CallTools(a)
    PROVE  \E n \in Nat, calls \in Seq(Nat) :
             /\ Len(calls) = Len(a.calls) /\ Len(calls) > 0
             /\ \A j \in 1 .. Len(calls) : calls[j] = contents + j
             /\ n = (IF a.text THEN contents' ELSE 0)
             /\ a.text => n # 0
             /\ Assistant(n, calls) \in ConversationItem
             /\ log' = log \o StatusEvents(a, n)
             /\ history' = Append(history, Assistant(n, calls))
             /\ batch' = calls /\ phase' = "batch" /\ contents' \in Nat
  <1> DEFINE k == Len(a.calls)
             text == IF a.text \/ a.blank THEN 1 ELSE 0
             n == IF a.text THEN contents' ELSE 0
             calls == [j \in 1 .. k |-> IF a.calls[j] THEN contents + j ELSE 0]
  <1>1. a \in Answers /\ a.calls # <<>>
      BY DEF CallingAnswers
  <1>2. /\ a.text \in BOOLEAN /\ a.calls \in Seq(BOOLEAN)
        /\ \A j \in 1 .. k : a.calls[j] = TRUE
      BY <1>1, AnswerShape
  <1>3. k \in Nat /\ k > 0
      BY <1>1, <1>2
  <1>4. contents \in Nat
      BY TypeParts DEF TurnsInv
  <1>5. contents' = contents + (k + text)
      BY Zenon DEF CallTools, Take
  <1>6. contents' \in Nat /\ contents' > 0 /\ n \in Nat
      <2>1. text \in Nat
          OBVIOUS
      <2> HIDE DEF text, k
      <2>2. contents' \in Nat /\ contents' > 0
          BY <1>3, <1>4, <1>5, <2>1
      <2> QED  BY <2>2
  <1>7. /\ log' = log \o StatusEvents(a, n)
        /\ history' = Append(history, Assistant(n, calls))
        /\ batch' = calls /\ phase' = "batch"
      BY Zenon DEF CallTools, Emit
  <1>8. /\ calls \in Seq(Nat) /\ Len(calls) = k
        /\ \A j \in 1 .. k : calls[j] = contents + j
      BY <1>2, <1>3, <1>4
  <1>9. a.text => n # 0
      BY <1>6
  <1>10. Len(calls) > 0 /\ Len(calls) = Len(a.calls)
      BY <1>3, <1>8
  <1>11. \A j \in 1 .. Len(calls) : calls[j] = contents + j
      BY <1>8
  <1> HIDE DEF calls
  <1>12. Assistant(n, calls) \in ConversationItem
      <2> HIDE DEF n
      <2> QED  BY <1>6, <1>8 DEF Assistant, ConversationItem
  <1> DEFINE m == n
  <1>13. m = n
      OBVIOUS
  <1>14. m = IF a.text THEN contents' ELSE 0
      OBVIOUS
  <1> HIDE DEF m, n
  <1> QED  BY <1>6, <1>7, <1>8, <1>9, <1>10, <1>11, <1>12, <1>13, <1>14

LEMMA TurnsCallTools ==
    ASSUME TurnsInv, NEW a \in CallingAnswers, CallTools(a)
    PROVE  TurnsInv'
  <1>1. PICK n \in Nat, calls \in Seq(Nat) :
             /\ Len(calls) > 0 /\ Assistant(n, calls) \in ConversationItem
             /\ log' = log \o StatusEvents(a, n)
             /\ history' = Append(history, Assistant(n, calls))
             /\ batch' = calls /\ phase' = "batch" /\ contents' \in Nat
      BY CallToolsFacts
  <1>2. /\ phase = "sent" /\ regular' \in BOOLEAN
        /\ UNCHANGED <<suspended, omitted, digest, task, run, compactions, hydrations>>
      BY DEF CallTools, Kept
  <1>3. /\ history \in Seq(ConversationItem) /\ log \in Seq(LogEvent) /\ run \in Nat
        /\ contents \in Nat /\ omitted \in Nat /\ digest \in SUBSET Nat /\ task \in Nat
        /\ batch \in Seq(Nat) /\ compactions \in Nat /\ hydrations \in Nat
        /\ regular \in BOOLEAN /\ suspended \in Nat
      BY TypeParts DEF TurnsInv
  <1>4. run > 0 /\ FoldOK(log, run) /\ Opened(history)
      BY <1>2, UnderWay
  <1>5. log' \in Seq(LogEvent) /\ FoldOK(log', run)
      BY <1>1, <1>3, <1>4, StatusFacts
  <1>6. history' \in Seq(ConversationItem) /\ Opened(history')
      BY <1>1, <1>3, <1>4, OpenedAppend
  <1>7. batch' # <<>> /\ batch' \in Seq(Nat)
      BY <1>1
  <1> QED  BY <1>1, <1>2, <1>3, <1>4, <1>5, <1>6, <1>7, TurnsStep

LEMMA TwoSeq ==
    ASSUME NEW S, NEW a \in S, NEW b \in S
    PROVE  <<>> \o <<a>> = <<a>> /\ <<b>> \o <<a>> = <<b, a>>
  <1>1. <<a>> \in Seq(S) /\ <<b>> \in Seq(S) /\ <<b, a>> \in Seq(S) /\ <<>> \in Seq(S)
      OBVIOUS
  <1>2. /\ Len(<<a>>) = 1 /\ Len(<<b>>) = 1 /\ Len(<<b, a>>) = 2 /\ Len(<<>>) = 0
        /\ <<a>>[1] = a /\ <<b>>[1] = b /\ <<b, a>>[1] = b /\ <<b, a>>[2] = a
      OBVIOUS
  <1>3. <<>> \o <<a>> = <<a>>
      BY <1>1, ConcatEmptySeq
  <1>4. <<b>> \o <<a>> = <<b, a>>
      <2> DEFINE x == <<a>>
                 y == <<b>>
                 z == <<b, a>>
      <2>1. /\ y \o x \in Seq(S) /\ Len(y \o x) = Len(y) + Len(x)
            /\ \A i \in 1 .. Len(y) : (y \o x)[i] = y[i]
            /\ \A i \in 1 .. Len(x) : (y \o x)[Len(y) + i] = x[i]
          <3>1. x \in Seq(S) /\ y \in Seq(S)
              BY <1>1
          <3> HIDE DEF x, y
          <3> QED  BY <3>1, Concat
      <2>2. /\ Len(x) = 1 /\ Len(y) = 1 /\ Len(z) = 2 /\ z \in Seq(S)
            /\ x[1] = a /\ y[1] = b /\ z[1] = b /\ z[2] = a
          BY <1>1, <1>2
      <2> HIDE DEF x, y, z
      <2> DEFINE w == y \o x
      <2>3. w \in Seq(S) /\ Len(w) = 2 /\ w[1] = b /\ w[2] = a
          <3> HIDE DEF w
          <3>1. /\ w \in Seq(S) /\ Len(w) = 2 /\ \A i \in 1 .. 1 : w[i] = y[i]
                /\ \A i \in 1 .. 1 : w[1 + i] = x[i]
              BY <2>1, <2>2 DEF w
          <3> QED  BY <2>2, <3>1
      <2> HIDE DEF w
      <2>4. w = z
          BY <2>2, <2>3, SameSeq
      <2> QED  BY <2>4 DEF w, x, y, z
  <1> QED  BY <1>3, <1>4

LEMMA TurnsInvalidBatch ==
    ASSUME TurnsInv, NEW a \in CallingAnswers, InvalidBatch(a)
    PROVE  TurnsInv'
  <1> DEFINE n == IF a.text THEN contents' ELSE 0
             e == Event("run_ended", 0, 0)
             status == Event("assistant_status", n, 0)
  <1>1. /\ phase = "sent" /\ contents' = contents + 1
        /\ log' = log \o (StatusEvents(a, n) \o <<e>>) /\ phase' = "idle" /\ regular' = FALSE
        /\ UNCHANGED <<history, suspended, batch, omitted, digest, task, run,
                       compactions, hydrations>>
      BY DEF InvalidBatch, Take, Emit, Kept
  <1>2. /\ history \in Seq(ConversationItem) /\ log \in Seq(LogEvent) /\ run \in Nat
        /\ contents \in Nat /\ omitted \in Nat /\ digest \in SUBSET Nat /\ task \in Nat
        /\ batch \in Seq(Nat) /\ compactions \in Nat /\ hydrations \in Nat
        /\ regular \in BOOLEAN /\ suspended \in Nat
      BY TypeParts DEF TurnsInv
  <1>3. run > 0 /\ FoldOK(log, run) /\ Opened(history)
      BY <1>1, UnderWay
  <1>4. n \in Nat /\ contents' \in Nat
      <2>1. a \in Answers
          BY DEF CallingAnswers
      <2>2. a.text \in BOOLEAN
          BY <2>1, AnswerShape
      <2> QED  BY <1>1, <1>2, <2>2
  <1> HIDE DEF n
  <1>5. PlainEvent(e) /\ PlainEvent(status)
      <2>1. 0 \in Nat
          OBVIOUS
      <2> QED  BY <1>2, <1>4, <2>1, PlainEvents
  <1>6. StatusEvents(a, n) = <<status>> \/ StatusEvents(a, n) = <<>>
      BY Zenon DEF StatusEvents
  <1> HIDE DEF e, status
  <1>7. log' = log \o <<e>> \/ log' = log \o <<status, e>>
      <2>1. StatusEvents(a, n) \o <<e>> \in {<<e>>, <<status, e>>}
          <3>1. e \in LogEvent /\ status \in LogEvent
              BY <1>5 DEF PlainEvent
          <3>2. <<>> \o <<e>> = <<e>> /\ <<status>> \o <<e>> = <<status, e>>
              BY <3>1, TwoSeq
          <3> QED  BY <1>6, <3>2
      <2> QED  BY <1>1, <2>1
  <1>8. log' \in Seq(LogEvent) /\ FoldOK(log', run)
      BY <1>2, <1>3, <1>5, <1>7, EmittedPlain
  <1> QED  BY <1>1, <1>2, <1>3, <1>4, <1>8, TurnsStep

\* What one call of the batch does, outcome by outcome.
LEMMA ExecuteCallIs ==
    ASSUME NEW o, ExecuteCall(o)
    PROVE  \/ /\ contents' = contents + 1
              /\ history' = Append(history, ToolResult(Head(batch), contents'))
              /\ log' = log \o <<Event("tool_call", 0, Head(batch)),
                                 Event("tool_result", contents', Head(batch))>>
              /\ phase' = (IF Len(batch) = 1 THEN "top" ELSE "batch")
              /\ batch' = Tail(batch) /\ regular' = regular
           \/ /\ contents' = contents + 1
              /\ history' = Append(history, ToolResult(Head(batch), contents'))
              /\ log' = log \o <<Event("tool_result", contents', Head(batch))>>
              /\ phase' = "top" /\ batch' = <<>> /\ regular' = FALSE
           \/ /\ contents' = contents + 1
              /\ history' = Append(history, ToolResult(Head(batch), contents'))
              /\ log' = log \o <<Event("tool_call", 0, Head(batch)),
                                 Event("tool_result", contents', Head(batch))>>
              /\ phase' = "closing" /\ batch' = Tail(batch)
              /\ regular' = (regular /\ Len(batch) = 1)
           \/ /\ contents' = contents /\ history' = history
              /\ log' = log \o <<Event("tool_call", 0, Head(batch)),
                                 Event("run_ended", 0, 0)>>
              /\ phase' = "idle" /\ batch' = <<>> /\ regular' = FALSE
           \/ /\ contents' = contents + 1 /\ history' = history
              /\ log' = log \o <<Event("tool_call", 0, Head(batch)),
                                 Event("tool_result", contents', Head(batch)),
                                 Event("run_ended", 0, 0)>>
              /\ phase' = "idle" /\ batch' = <<>> /\ regular' = FALSE
  BY ZenonT(60) DEF ExecuteCall, Take, Emit

LEMMA TurnsExecuteCall ==
    ASSUME TurnsInv, NEW o, ExecuteCall(o)
    PROVE  TurnsInv'
  <1> DEFINE c == Head(batch)
             n == contents'
             call == Event("tool_call", 0, c)
             result == Event("tool_result", n, c)
             ended == Event("run_ended", 0, 0)
  <1>1. /\ phase = "batch"
        /\ UNCHANGED <<suspended, omitted, digest, task, run, compactions, hydrations>>
      BY DEF ExecuteCall, Kept
  <1>2. /\ history \in Seq(ConversationItem) /\ log \in Seq(LogEvent) /\ run \in Nat
        /\ contents \in Nat /\ omitted \in Nat /\ digest \in SUBSET Nat /\ task \in Nat
        /\ batch \in Seq(Nat) /\ compactions \in Nat /\ hydrations \in Nat
        /\ regular \in BOOLEAN /\ suspended \in Nat
      BY TypeParts DEF TurnsInv
  <1>3. run > 0 /\ FoldOK(log, run) /\ Opened(history)
      BY <1>1, UnderWay
  <1>4. batch # <<>>
      BY <1>1 DEF TurnsInv, TurnsKept
  <1>5. c \in Nat /\ Tail(batch) \in Seq(Nat) /\ (Len(batch) # 1 => Tail(batch) # <<>>)
      <2>1. batch \in Seq(Nat) /\ batch # <<>>
          BY <1>2, <1>4
      <2>2. /\ Head(batch) \in Nat /\ Tail(batch) \in Seq(Nat)
            /\ Len(Tail(batch)) = Len(batch) - 1 /\ Len(batch) \in Nat
          BY <2>1, HeadTailProperties
      <2>3. Len(batch) # 1 => Len(Tail(batch)) # 0
          BY <2>2
      <2>4. Len(<<>>) = 0
          OBVIOUS
      <2>5. Len(batch) # 1 => Tail(batch) # <<>>
          BY <2>3, <2>4, Zenon
      <2> QED  BY <2>2, <2>5, Zenon
  <1>6. 0 \in Nat /\ <<>> \in Seq(Nat)
      OBVIOUS
  <1>7. \/ /\ n = contents + 1 /\ history' = Append(history, ToolResult(c, n))
           /\ log' = log \o <<call, result>>
           /\ phase' = (IF Len(batch) = 1 THEN "top" ELSE "batch")
           /\ batch' = Tail(batch) /\ regular' = regular
        \/ /\ n = contents + 1 /\ history' = Append(history, ToolResult(c, n))
           /\ log' = log \o <<result>>
           /\ phase' = "top" /\ batch' = <<>> /\ regular' = FALSE
        \/ /\ n = contents + 1 /\ history' = Append(history, ToolResult(c, n))
           /\ log' = log \o <<call, result>>
           /\ phase' = "closing" /\ batch' = Tail(batch)
           /\ regular' = (regular /\ Len(batch) = 1)
        \/ /\ n = contents /\ history' = history /\ log' = log \o <<call, ended>>
           /\ phase' = "idle" /\ batch' = <<>> /\ regular' = FALSE
        \/ /\ n = contents + 1 /\ history' = history
           /\ log' = log \o <<call, result, ended>>
           /\ phase' = "idle" /\ batch' = <<>> /\ regular' = FALSE
      BY ExecuteCallIs, Zenon
  <1> HIDE DEF c, call, ended, result
  <1>8. contents' \in Nat /\ n \in Nat
      BY <1>2, <1>7
  <1> HIDE DEF n
  <1>9. PlainEvent(call) /\ PlainEvent(ended) /\ PlainEvent(result)
      BY <1>2, <1>5, <1>6, <1>8, PlainEvents DEF call, ended, result
  <1>10. ToolResult(c, n) \in ConversationItem
      BY <1>5, <1>8, ItemTypes
  <1>11. log' \in Seq(LogEvent) /\ FoldOK(log', run)
      <2>1. \/ log' = log \o <<call, result>> \/ log' = log \o <<result>>
            \/ log' = log \o <<call, ended>>
            \/ log' = log \o <<call, result, ended>>
          BY <1>7, Zenon
      <2> QED  BY <1>2, <1>3, <1>9, <2>1, EmittedPlain
  <1>12. history' \in Seq(ConversationItem) /\ Opened(history')
      <2>1. history' = Append(history, ToolResult(c, n)) \/ history' = history
          BY <1>7, Zenon
      <2>2. /\ Append(history, ToolResult(c, n)) \in Seq(ConversationItem)
            /\ Opened(Append(history, ToolResult(c, n)))
          BY <1>2, <1>3, <1>10, OpenedAppend
      <2> QED  BY <1>2, <1>3, <2>1, <2>2, Zenon
  <1>13. /\ phase' \in {"idle", "top", "sent", "batch", "closing"} /\ batch' \in Seq(Nat)
         /\ phase' = "batch" => batch' # <<>>
      <2>1. batch' \in Seq(Nat)
          BY <1>5, <1>6, <1>7, Zenon
      <2>2. \/ /\ phase' = (IF Len(batch) = 1 THEN "top" ELSE "batch")
               /\ batch' = Tail(batch)
            \/ phase' \in {"top", "closing", "idle"}
          BY <1>7
      <2>3. CASE phase' \in {"top", "closing", "idle"}
          BY <2>1, <2>3
      <2>4. CASE phase' = (IF Len(batch) = 1 THEN "top" ELSE "batch") /\ batch' = Tail(batch)
          <3>1. CASE Len(batch) = 1
              BY <2>1, <2>4, <3>1
          <3>2. CASE Len(batch) # 1
              <4>1. phase' = "batch"
                  BY <2>4, <3>2
              <4>2. batch' # <<>>
                  BY <1>5, <2>4, <3>2, Zenon
              <4> QED  BY <2>1, <4>1, <4>2
          <3> QED  BY <3>1, <3>2
      <2> QED  BY <2>2, <2>3, <2>4
  <1>14. regular' \in BOOLEAN
      BY <1>2, <1>7
  <1> QED  BY <1>1, <1>2, <1>3, <1>8, <1>11, <1>12, <1>13, <1>14, TurnsStep

\* The fold behind a question: its message is the last item.
LEMMA AskFacts ==
    ASSUME NEW f \in FoldState, NEW e \in LogEvent, e.type = "user_request_input"
    PROVE  /\ Consume(f, e).items = Append(f.items, PendingToolCall(f, e.call).pending)
           /\ Consume(f, e).pending = NoItem
           /\ Consume(f, e).ask = e.call /\ Consume(f, e).askRun = e.run
           /\ Consume(f, e).omitted = f.omitted /\ Consume(f, e).digest = f.digest
           /\ Asking(Consume(f, e))
  <1> DEFINE c == e.call
             p == PendingToolCall(f, c)
             g == Flush(p)
             k == Consume(f, e)
  <1>1. c \in Nat /\ e.run \in Nat
      BY DEF LogEvent
  <1>2. k = [g EXCEPT !.ask = c, !.askRun = e.run]
      BY ConsumeIs, Zenon
  <1> HIDE DEF c
  <1>3. /\ p \in FoldState /\ p.pending # NoItem /\ IsCalling(p.pending)
        /\ p.items = f.items /\ p.omitted = f.omitted /\ p.digest = f.digest
      BY <1>1, PendingFacts
  <1> HIDE DEF p
  <1>4. /\ g \in FoldState /\ g.pending = NoItem /\ g.items = Append(p.items, p.pending)
        /\ g.omitted = p.omitted /\ g.digest = p.digest
      BY <1>3, FlushFacts
  <1> HIDE DEF g
  <1>5. /\ k.items = g.items /\ k.pending = g.pending /\ k.ask = c /\ k.askRun = e.run
        /\ k.omitted = g.omitted /\ k.digest = g.digest
      <2> DEFINE r == e.run
      <2>1. r \in Nat /\ k = [g EXCEPT !.ask = c, !.askRun = r]
          BY <1>1, <1>2
      <2> HIDE DEF k, r
      <2>2. /\ k.items = g.items /\ k.pending = g.pending /\ k.ask = c /\ k.askRun = r
            /\ k.omitted = g.omitted /\ k.digest = g.digest
          <3>1. g \in FoldState /\ c \in Nat /\ r \in Nat
              BY <1>1, <1>4, <2>1
          <3> QED  BY <2>1, <3>1 DEF FoldState
      <2> QED  BY <2>2 DEF r
  <1> HIDE DEF k
  <1>6. k.items # <<>> /\ k.items[Len(k.items)] = p.pending
      <2>1. p.items \in Seq(ConversationItem) /\ p.pending \in ConversationItem
          BY <1>3 DEF FoldState, AssistantItem
      <2>2. k.items = Append(p.items, p.pending)
          BY <1>4, <1>5
      <2> QED  BY <2>1, <2>2, BeginsAppend
  <1>7. Asking(k)
      BY <1>3, <1>4, <1>5, <1>6 DEF Asking
  <1>8. k.items = Append(f.items, p.pending) /\ k.pending = NoItem
      BY <1>3, <1>4, <1>5
  <1>9. k.omitted = f.omitted /\ k.digest = f.digest
      BY <1>3, <1>4, <1>5
  <1> QED  BY <1>5, <1>7, <1>8, <1>9 DEF k, p, c

LEMMA TurnsSuspend == TurnsInv /\ Suspend => TurnsInv'
  <1> SUFFICES ASSUME TurnsInv, Suspend  PROVE TurnsInv'
      OBVIOUS
  <1> DEFINE c == Head(batch)
             e == Event("user_request_input", 0, c)
  <1>1. /\ phase = "batch" /\ log' = log \o <<e>> /\ suspended' = c /\ batch' = <<>>
        /\ phase' = "waiting"
        /\ UNCHANGED <<history, contents, regular, omitted, digest, task, run,
                       compactions, hydrations>>
      BY DEF Suspend, Emit, Kept
  <1>2. /\ history \in Seq(ConversationItem) /\ log \in Seq(LogEvent) /\ run \in Nat
        /\ contents \in Nat /\ omitted \in Nat /\ digest \in SUBSET Nat /\ task \in Nat
        /\ batch \in Seq(Nat) /\ compactions \in Nat /\ hydrations \in Nat
        /\ regular \in BOOLEAN /\ suspended \in Nat
      BY TypeParts DEF TurnsInv
  <1>3. run > 0 /\ FoldOK(log, run) /\ Opened(history)
      BY <1>1, UnderWay
  <1>4. c \in Nat
      <2>1. batch # <<>>
          BY <1>1 DEF TurnsInv, TurnsKept
      <2> QED  BY <1>2, <2>1
  <1>5. PlainEvent(e) /\ e.type = "user_request_input"
      <2>1. 0 \in Nat
          OBVIOUS
      <2>2. PlainEvent(e)
          BY <1>2, <1>4, <2>1, PlainEvents
      <2> QED  BY <2>2 DEF Event
  <1>6. e \in LogEvent
      BY <1>5 DEF PlainEvent
  <1> HIDE DEF e
  <1>7. log' \in Seq(LogEvent) /\ FoldOK(log', run)
      BY <1>1, <1>2, <1>3, <1>5, EmittedPlain
  <1>8. Asking(Folded(log'))
      <2>1. log' = Append(log, e)
          BY <1>1, <1>2, <1>6, FoldedConcat
      <2>2. Folded(log') = Consume(Folded(log), e)
          BY <1>2, <1>6, <2>1, FoldedAppend
      <2>3. Folded(log) \in FoldState
          BY <1>3 DEF FoldOK
      <2> QED  BY <1>5, <1>6, <2>2, <2>3, AskFacts
  <1>9. TypeOK'
      BY <1>1, <1>2, <1>4, <1>7 DEF TypeOK
  <1>10. TurnsKept'
      BY <1>1, <1>2, <1>3, <1>7, <1>8 DEF TurnsKept
  <1> QED  BY <1>9, <1>10 DEF TurnsInv

LEMMA TurnsCancelWaiting == TurnsInv /\ CancelWaiting => TurnsInv'
  <1> SUFFICES ASSUME TurnsInv, CancelWaiting  PROVE TurnsInv'
      OBVIOUS
  <1> DEFINE e == Event("run_ended", 0, 0)
  <1>1. /\ phase = "waiting" /\ log' = log \o <<e>> /\ phase' = "idle" /\ regular' = FALSE
        /\ UNCHANGED <<history, suspended, batch, contents, omitted, digest,
                       task, run, compactions, hydrations>>
      BY DEF CancelWaiting, Emit, Kept
  <1>2. /\ history \in Seq(ConversationItem) /\ log \in Seq(LogEvent) /\ run \in Nat
        /\ contents \in Nat /\ omitted \in Nat /\ digest \in SUBSET Nat /\ task \in Nat
        /\ batch \in Seq(Nat) /\ compactions \in Nat /\ hydrations \in Nat
        /\ suspended \in Nat
      BY TypeParts DEF TurnsInv
  <1>3. run > 0 /\ FoldOK(log, run) /\ Opened(history)
      BY <1>1, UnderWay
  <1>4. PlainEvent(e)
      <2>1. 0 \in Nat
          OBVIOUS
      <2> QED  BY <1>2, <2>1, PlainEvents
  <1> HIDE DEF e
  <1>5. log' \in Seq(LogEvent) /\ FoldOK(log', run)
      BY <1>1, <1>2, <1>3, <1>4, EmittedPlain
  <1> QED  BY <1>1, <1>2, <1>3, <1>5, TurnsStep

\* What the log of a session rebuilds.
LEMMA RebuildFacts ==
    ASSUME TurnsInv, run > 0
    PROVE  /\ Fold(log) \in FoldState
           /\ RebuildHistoryFromMessages(log) \in Seq(ConversationItem)
           /\ Opened(RebuildHistoryFromMessages(log))
  <1> DEFINE f == Folded(log)
             g == Flush(f)
  <1>1. f \in FoldState /\ Opened(f.items)
      BY DEF TurnsInv, TurnsKept, FoldOK
  <1> HIDE DEF f
  <1>2. g \in FoldState /\ Begins(f.items, g.items)
      BY <1>1, FlushFacts
  <1>3. Fold(log) = g
      BY DEF Fold, f
  <1>4. f.items \in Seq(ConversationItem) /\ g.items \in Seq(ConversationItem) /\ g.ask \in Nat
      BY <1>1, <1>2 DEF FoldState
  <1> HIDE DEF g
  <1>5. Opened(g.items)
      BY <1>1, <1>2, <1>4, BeginsKeeps
  <1>6. RebuildHistoryFromMessages(log) = RepairToolPairing(g.items, g.ask)
      BY <1>3 DEF RebuildHistoryFromMessages
  <1> QED  BY <1>2, <1>3, <1>4, <1>5, <1>6, RepairFacts

LEMMA TurnsHydrate == TurnsInv /\ HydrateSessionFromPersistence => TurnsInv'
  <1> SUFFICES ASSUME TurnsInv, HydrateSessionFromPersistence  PROVE TurnsInv'
      OBVIOUS
  <1>1. /\ log # <<>> /\ hydrations' = hydrations + 1
        /\ history' = RebuildHistoryFromMessages(log)
        /\ omitted' = Fold(log).omitted /\ digest' = Fold(log).digest
        /\ suspended' = 0 /\ task' = 0 /\ batch' = <<>> /\ phase' = "idle"
        /\ regular' = FALSE
        /\ UNCHANGED <<run, log, contents, compactions>>
      BY DEF HydrateSessionFromPersistence
  <1>2. /\ log \in Seq(LogEvent) /\ run \in Nat /\ contents \in Nat
        /\ compactions \in Nat /\ hydrations \in Nat
      BY TypeParts DEF TurnsInv
  <1>3. run > 0 /\ FoldOK(log, run)
      BY <1>1, UnderWay
  <1>4. /\ Fold(log) \in FoldState /\ history' \in Seq(ConversationItem) /\ Opened(history')
      BY <1>1, <1>3, RebuildFacts
  <1>5. omitted' \in Nat /\ digest' \in SUBSET Nat
      BY <1>1, <1>4 DEF FoldState
  <1>6. hydrations' \in Nat
      BY <1>1, <1>2
  <1>7. suspended' \in Nat /\ task' \in Nat /\ batch' \in Seq(Nat)
      BY <1>1
  <1> QED  BY <1>1, <1>2, <1>3, <1>4, <1>5, <1>6, <1>7, TurnsStep

LEMMA TurnsInit == Init => TurnsInv
  <1> SUFFICES ASSUME Init  PROVE TurnsInv
      OBVIOUS
  <1>1. TypeOK
      BY DEF Init, TypeOK
  <1>2. TurnsKept
      BY DEF Init, TurnsKept
  <1> QED  BY <1>1, <1>2 DEF TurnsInv

LEMMA TurnsNext == TurnsInv /\ [Next]_vars => TurnsInv'
  <1> SUFFICES ASSUME TurnsInv, [Next]_vars  PROVE TurnsInv'
      OBVIOUS
  <1>1. CASE UNCHANGED vars
      BY <1>1 DEF vars, TurnsInv, TypeOK, TurnsKept
  <1>2. ASSUME NEW a \in CallingAnswers, CallTools(a) \/ InvalidBatch(a)
        PROVE  TurnsInv'
      BY <1>2, TurnsCallTools, TurnsInvalidBatch
  <1>3. CASE FinalText \/ DraftText \/ MarkupRejected \/ BlankText \/ ClosingText
      BY <1>3, TurnsTexts DEF TextStep
  <1> QED  BY <1>1, <1>2, <1>3, TurnsSubmit, TurnsAnswer, TurnsPrepare, TurnsRequestFails,
              TurnsSuspend, TurnsCancelWaiting, TurnsExecuteCall, TurnsHydrate DEF Next

(***************************************************************************)
(* Along every behaviour the log folds to a conversation that opens with   *)
(* the session's first task and holds every user turn, or says that it     *)
(* dropped some; the engine's own conversation opens with the same task    *)
(* (RebuildHistoryFromMessages, compaction.go).                            *)
(***************************************************************************)
THEOREM TurnsInvariant == Spec => []TurnsInv
  BY TurnsInit, TurnsNext, PTL DEF Spec

(***************************************************************************)
(* The opening task survives every compaction, repair and rebuild.         *)
(***************************************************************************)
THEOREM OpeningTaskIsKept == Spec => []OpeningTaskSurvives
  <1>1. TurnsInv => OpeningTaskSurvives
      <2> SUFFICES ASSUME TurnsInv, run > 0
                   PROVE  /\ history # <<>> => Opened(history)
                          /\ Opened(RebuildHistoryFromMessages(log))
          BY DEF OpeningTaskSurvives, Opened
      <2>1. history # <<>> => Opened(history)
          BY DEF TurnsInv, TurnsKept
      <2> QED  BY <2>1, RebuildFacts
  <1> QED  BY <1>1, TurnsInvariant, PTL

(***************************************************************************)
(* A user turn that the rebuild does not hold was compacted, and the model *)
(* is told so.                                                             *)
(***************************************************************************)
THEOREM NoTurnLostInSilence == Spec => []LossIsTold
  <1>1. TurnsInv => LossIsTold
      <2> SUFFICES ASSUME TurnsInv  PROVE LossIsTold
          OBVIOUS
      <2> DEFINE f == Folded(log)
                 g == Fold(log)
                 h == RebuildHistoryFromMessages(log)
      <2>1. run \in Nat
          BY TypeParts DEF TurnsInv
      <2>2. CASE run = 0
          <3>1. log = <<>>
              BY <2>2 DEF TurnsInv, TurnsKept
          <3>2. \A j \in DOMAIN log : FALSE
              BY <3>1
          <3> QED  BY <3>2 DEF LossIsTold
      <2>3. CASE run # 0
          <3>1. run > 0
              BY <2>1, <2>3
          <3>2. f \in FoldState /\ Told(log, f)
              BY <3>1 DEF TurnsInv, TurnsKept, FoldOK
          <3>3. /\ g \in FoldState /\ g.omitted = f.omitted /\ g.digest = f.digest
                /\ Begins(f.items, g.items)
              <4> HIDE DEF f
              <4> QED  BY <3>2, FlushFacts DEF Fold, f
          <3>4. h = RepairToolPairing(g.items, g.ask)
              BY DEF RebuildHistoryFromMessages
          <3> HIDE DEF f, g, h
          <3>5. CASE f.omitted > 0 \/ f.digest # {}
              <4>1. g.omitted > 0 \/ g.digest # {}
                  BY <3>3, <3>5
              <4> QED  BY <4>1 DEF LossIsTold, g
          <3>6. CASE ~(f.omitted > 0 \/ f.digest # {})
              <4>1. \A j \in DOMAIN log : log[j].type = "user" => HeldTurn(f.items, log[j].n)
                  BY <3>2, <3>6 DEF Told
              <4>2. /\ f.items \in Seq(ConversationItem) /\ g.items \in Seq(ConversationItem)
                    /\ g.ask \in Nat
                  BY <3>2, <3>3 DEF FoldState
              <4>3. ASSUME NEW j \in DOMAIN log, log[j].type = "user"
                    PROVE  \E item \in ToSet(h) : item.n = log[j].n
                  <5>1. HeldTurn(g.items, log[j].n)
                      BY <3>3, <4>1, <4>2, <4>3, BeginsKeeps
                  <5>2. PICK i \in DOMAIN g.items :
                            Anchored(g.items, i) /\ g.items[i].n = log[j].n
                      BY <5>1 DEF HeldTurn
                  <5>3. i \in 1 .. Len(g.items)
                      BY <4>2
                  <5>4. PICK m \in 1 .. Len(h) : h[m] = g.items[i]
                      BY <3>4, <4>2, <5>2, <5>3, RepairFacts
                  <5>5. h \in Seq(ConversationItem)
                      BY <3>4, <4>2, RepairFacts
                  <5>6. h[m] \in ToSet(h)
                      BY <5>5 DEF ToSet
                  <5> QED  BY <5>2, <5>4, <5>6
              <4>4. {log[i].n : i \in {j \in DOMAIN log : log[j].type = "user"}}
                      \subseteq {item.n : item \in ToSet(h)}
                  BY <4>3
              <4> QED  BY <4>4 DEF LossIsTold, h
          <3> QED  BY <3>5, <3>6
      <2> QED  BY <2>2, <2>3
  <1> QED  BY <1>1, TurnsInvariant, PTL

-----------------------------------------------------------------------------
(***************************************************************************)
(* Regular sessions: the fold has the engine's conversation, item by item. *)
(***************************************************************************)
LEMMA SettledAppend ==
    ASSUME NEW h \in Seq(ConversationItem), Settled(h), NEW x \in ConversationItem,
           ~IsCalling(x), x.role # "tool"
    PROVE  Settled(Append(h, x))
  <1> DEFINE g == Append(h, x)
  <1>1. /\ g \in Seq(ConversationItem) /\ Len(g) = Len(h) + 1 /\ g[Len(h) + 1] = x
        /\ \A i \in 1 .. Len(h) : g[i] = h[i]
        /\ Len(h) \in Nat
      BY BeginsAppend
  <1>2. DOMAIN g = 1 .. Len(h) + 1 /\ DOMAIN h = 1 .. Len(h)
      BY <1>1
  <1> HIDE DEF g
  <1>3. ASSUME NEW i \in DOMAIN g
        PROVE  /\ IsCalling(g[i]) => /\ Len(g[i].calls) = 1 /\ i < Len(g)
                                     /\ g[i + 1].role = "tool" /\ g[i + 1].call = g[i].calls[1]
               /\ g[i].role = "tool" => i > 1 /\ IsCalling(g[i - 1])
      <2>1. CASE i = Len(h) + 1
          BY <1>1, <2>1
      <2>2. CASE i # Len(h) + 1
          <3>1. i \in 1 .. Len(h) /\ g[i] = h[i]
              BY <1>1, <1>2, <2>2
          <3>2. /\ IsCalling(h[i]) => /\ Len(h[i].calls) = 1 /\ i < Len(h)
                                      /\ h[i + 1].role = "tool"
                                      /\ h[i + 1].call = h[i].calls[1]
                /\ h[i].role = "tool" => i > 1 /\ IsCalling(h[i - 1])
              BY <1>2, <3>1 DEF Settled
          <3>3. i < Len(h) => g[i + 1] = h[i + 1] /\ i < Len(g)
              BY <1>1, <3>1
          <3>4. i > 1 => g[i - 1] = h[i - 1]
              BY <1>1, <3>1
          <3> QED  BY <3>1, <3>2, <3>3, <3>4
      <2> QED  BY <2>1, <2>2
  <1>4. Settled(g)
      BY <1>3 DEF Settled
  <1> QED  BY <1>4 DEF g

\* The result of an open call settles it.
LEMMA SettledAnswer ==
    ASSUME NEW h \in Seq(ConversationItem), NEW c \in Nat, OpenCall(h, c), NEW n \in Nat
    PROVE  Settled(Append(h, ToolResult(c, n)))
  <1> DEFINE x == ToolResult(c, n)
             g == Append(h, x)
             L == Len(h)
             p == SubSeq(h, 1, L - 1)
  <1>1. x \in ConversationItem /\ x.role = "tool" /\ x.call = c /\ ~IsCalling(x)
      BY DEF ToolResult, IsCalling, ConversationItem
  <1> HIDE DEF x
  <1>2. /\ g \in Seq(ConversationItem) /\ Len(g) = L + 1 /\ g[L + 1] = x
        /\ \A i \in 1 .. L : g[i] = h[i]
        /\ L \in Nat
      BY <1>1, BeginsAppend
  <1>3. L > 0 /\ h[L] = Assistant(h[L].n, <<c>>) /\ Settled(p)
      BY <1>2 DEF OpenCall
  <1>4. h[L].n \in Nat
      <2>1. h[L] \in ConversationItem
          BY <1>2, <1>3
      <2> HIDE DEF L
      <2> QED  BY <2>1 DEF ConversationItem
  <1>5. IsCalling(h[L]) /\ h[L].role # "tool" /\ h[L].calls = <<c>>
      <2> DEFINE m == h[L].n
      <2>1. h[L] = Assistant(m, <<c>>) /\ m \in Nat
          BY <1>3, <1>4
      <2> HIDE DEF m
      <2>2. IsCalling(Assistant(m, <<c>>)) /\ Assistant(m, <<c>>).role # "tool"
          BY <2>1, ItemTypes
      <2>3. Assistant(m, <<c>>).calls = <<c>>
          BY DEF Assistant
      <2> QED  BY <2>1, <2>2, <2>3
  <1>6. Len(h[L].calls) = 1 /\ h[L].calls[1] = c
      BY <1>5
  <1>7. /\ p \in Seq(ConversationItem) /\ Len(p) = L - 1
        /\ \A k \in 1 .. L - 1 : p[k] = h[k]
      <2> DEFINE b == L - 1
      <2>1. b \in Nat /\ b <= Len(h)
          BY <1>2, <1>3
      <2> HIDE DEF b
      <2>2. /\ SubSeq(h, 1, b) \in Seq(ConversationItem) /\ Len(SubSeq(h, 1, b)) = b
            /\ \A k \in 1 .. b : SubSeq(h, 1, b)[k] = h[k]
          BY <2>1, Prefix
      <2> QED  BY <2>2 DEF b
  <1> HIDE DEF g, L, p
  <1>8. ASSUME NEW i \in DOMAIN g
        PROVE  /\ IsCalling(g[i]) => /\ Len(g[i].calls) = 1 /\ i < Len(g)
                                     /\ g[i + 1].role = "tool" /\ g[i + 1].call = g[i].calls[1]
               /\ g[i].role = "tool" => i > 1 /\ IsCalling(g[i - 1])
      <2>1. i \in 1 .. L + 1
          BY <1>2
      <2>2. CASE i = L + 1
          <3>1. g[i] = x /\ i > 1 /\ i - 1 = L /\ g[i - 1] = h[L]
              BY <1>2, <1>3, <2>2
          <3> QED  BY <1>1, <1>5, <3>1
      <2>3. CASE i = L
          <3>1. g[i] = h[L] /\ g[i + 1] = x /\ i < Len(g)
              BY <1>2, <1>3, <2>3
          <3> QED  BY <1>1, <1>5, <1>6, <3>1
      <2>4. CASE i # L + 1 /\ i # L
          <3>1. i \in 1 .. L - 1 /\ i \in 1 .. L /\ g[i] = h[i] /\ p[i] = h[i] /\ i \in DOMAIN p
              BY <1>2, <1>7, <2>1, <2>4
          <3>2. /\ IsCalling(p[i]) => /\ Len(p[i].calls) = 1 /\ i < Len(p)
                                      /\ p[i + 1].role = "tool"
                                      /\ p[i + 1].call = p[i].calls[1]
                /\ p[i].role = "tool" => i > 1 /\ IsCalling(p[i - 1])
              BY <1>3, <3>1 DEF Settled
          <3>3. i < Len(p) => g[i + 1] = p[i + 1] /\ i < Len(g)
              BY <1>2, <1>7, <3>1
          <3>4. i > 1 => g[i - 1] = p[i - 1]
              <4> SUFFICES ASSUME i > 1  PROVE g[i - 1] = p[i - 1]
                  OBVIOUS
              <4>1. i - 1 \in 1 .. L - 1 /\ i - 1 \in 1 .. L
                  BY <1>2, <3>1
              <4> QED  BY <1>2, <1>7, <4>1
          <3> QED  BY <3>1, <3>2, <3>3, <3>4
      <2> QED  BY <2>2, <2>3, <2>4
  <1>9. Settled(g)
      BY <1>8 DEF Settled
  <1> QED  BY <1>9 DEF g, x

\* A settled conversation without the span behind its first item, cut before
\* an item that is no result.
LEMMA SettledKept ==
    ASSUME NEW h \in Seq(ConversationItem), Opened(h), Settled(h),
           NEW s \in Nat, 1 + s < Len(h), h[1 + s + 1].role # "tool"
    PROVE  Settled(SubSeq(h, 1, 1) \o SubSeq(h, 1 + s + 1, Len(h)))
  <1> DEFINE g == SubSeq(h, 1, 1) \o SubSeq(h, 1 + s + 1, Len(h))
             L == Len(h)
  <1>1. /\ g \in Seq(ConversationItem) /\ Len(g) = L - s
        /\ \A k \in 2 .. L - s : g[k] = h[k + s]
        /\ g[1] = h[1]
      BY KeptFacts
  <1>2. L \in Nat /\ DOMAIN g = 1 .. L - s /\ DOMAIN h = 1 .. L
      BY <1>1
  <1>3. h[1].role = "user" /\ ~IsCalling(h[1])
      BY DEF Opened, IsCalling
  <1> HIDE DEF g
  <1>4. ASSUME NEW i \in DOMAIN g
        PROVE  /\ IsCalling(g[i]) => /\ Len(g[i].calls) = 1 /\ i < Len(g)
                                     /\ g[i + 1].role = "tool" /\ g[i + 1].call = g[i].calls[1]
               /\ g[i].role = "tool" => i > 1 /\ IsCalling(g[i - 1])
      <2>1. i \in 1 .. L - s
          BY <1>2
      <2>2. CASE i = 1
          BY <1>1, <1>3, <2>2
      <2>3. CASE i # 1
          <3> DEFINE j == i + s
          <3>1. /\ i \in 2 .. L - s /\ j \in DOMAIN h /\ g[i] = h[j]
              BY <1>1, <1>2, <2>1, <2>3
          <3>2. /\ IsCalling(h[j]) => /\ Len(h[j].calls) = 1 /\ j < L
                                      /\ h[j + 1].role = "tool"
                                      /\ h[j + 1].call = h[j].calls[1]
                /\ h[j].role = "tool" => j > 1 /\ IsCalling(h[j - 1])
              BY <3>1 DEF Settled
          <3>3. j < L => g[i + 1] = h[j + 1] /\ i < Len(g)
              <4> SUFFICES ASSUME j < L  PROVE g[i + 1] = h[j + 1] /\ i < Len(g)
                  OBVIOUS
              <4>1. i + 1 \in 2 .. L - s /\ (i + 1) + s = j + 1
                  <5>1. L \in Nat /\ i \in 2 .. L - s /\ i + s < L
                      BY <1>2, <3>1
                  <5> HIDE DEF L
                  <5> QED  BY <5>1
              <4> QED  BY <1>1, <1>2, <3>1, <4>1
          <3>4. h[j].role = "tool" => i > 1 /\ g[i - 1] = h[j - 1]
              <4> SUFFICES ASSUME h[j].role = "tool"  PROVE i > 1 /\ g[i - 1] = h[j - 1]
                  OBVIOUS
              <4>1. i # 2
                  <5>1. i = 2 => j = 1 + s + 1
                      BY <1>2
                  <5> QED  BY <5>1
              <4>2. i - 1 \in 2 .. L - s /\ (i - 1) + s = j - 1 /\ i > 1
                  BY <1>2, <3>1, <4>1
              <4> QED  BY <1>1, <4>2
          <3> HIDE DEF j
          <3> QED  BY <3>1, <3>2, <3>3, <3>4
      <2> QED  BY <2>2, <2>3
  <1>5. Settled(g)
      BY <1>4 DEF Settled
  <1> QED  BY <1>5 DEF g

\* The fold of a session's log, whether or not it has run.
LEMMA FoldTyped ==
    ASSUME TurnsInv
    PROVE  Folded(log) \in FoldState
  <1>1. run \in Nat
      BY TypeParts DEF TurnsInv
  <1>2. CASE run = 0
      <2>1. Folded(log) = Folder
          BY <1>2, FoldedEmpty DEF TurnsInv, TurnsKept
      <2>2. NoItem \in AssistantItem
          <3>1. 0 \in Nat
              OBVIOUS
          <3> QED  BY <3>1, ItemTypes
      <2>3. Folder \in FoldState
          BY <2>2 DEF Folder, FoldState
      <2> QED  BY <2>1, <2>3
  <1>3. CASE run # 0
      <2>1. run > 0
          BY <1>1, <1>3
      <2> QED  BY <2>1 DEF TurnsInv, TurnsKept, FoldOK
  <1> QED  BY <1>2, <1>3

\* At rest: between runs, at the top of the loop, and while a request is out.
AtRest == phase \in {"idle", "top", "sent", "closing"}

LEMMA MirroredAtRest ==
    ASSUME TurnsInv, Mirrored, AtRest
    PROVE  /\ Folded(log) \in FoldState /\ history \in Seq(ConversationItem)
           /\ Folded(log).omitted = omitted /\ Folded(log).digest = digest
           /\ Folded(log).ask = 0 /\ (phase # "top" => task = 0)
           /\ Flush(Folded(log)).items = history \o Turn(task) /\ Settled(history)
           /\ task = 0 => Flush(Folded(log)).items = history
           /\ Folded(log).pending # NoItem =>
                task = 0 /\ log # <<>> /\ Last(log).type = "assistant_status"
  <1>1. Folded(log) \in FoldState
      BY FoldTyped
  <1>2. history \in Seq(ConversationItem) /\ task \in Nat
      BY TypeParts DEF TurnsInv
  <1>3. /\ Folded(log).omitted = omitted /\ Folded(log).digest = digest
        /\ Folded(log).ask = 0 /\ (phase # "top" => task = 0)
        /\ Flush(Folded(log)).items = history \o Turn(task) /\ Settled(history)
        /\ Folded(log).pending # NoItem =>
             task = 0 /\ log # <<>> /\ Last(log).type = "assistant_status"
      BY DEF Mirrored, AtRest
  <1>4. task = 0 => history \o Turn(task) = history
      BY <1>2, TurnFacts
  <1> QED  BY <1>1, <1>2, <1>3, <1>4, Zenon

LEMMA RestMirrored ==
    ASSUME NEW g, g = Folded(log'), AtRest', g.omitted = omitted', g.digest = digest',
           g.ask = 0, phase' # "top" => task' = 0,
           Flush(g).items = history' \o Turn(task'), Settled(history'),
           g.pending # NoItem =>
             task' = 0 /\ log' # <<>> /\ Last(log').type = "assistant_status"
    PROVE  Mirrored'
  BY DEF Mirrored, AtRest

LEMMA FoldedEmit ==
    ASSUME NEW events \in Seq(LogEvent), NEW a \in LogEvent, NEW b \in LogEvent
    PROVE  /\ Folded(events \o <<a>>) = Consume(Folded(events), a)
           /\ Folded(events \o <<a, b>>) = Consume(Consume(Folded(events), a), b)
  <1>1. Append(events, a) \in Seq(LogEvent)
      OBVIOUS
  <1>2. Folded(Append(events, a)) = Consume(Folded(events), a)
      BY FoldedAppend
  <1>3. Folded(Append(Append(events, a), b)) = Consume(Folded(Append(events, a)), b)
      BY <1>1, FoldedAppend
  <1>4. /\ events \o <<a>> = Append(events, a)
        /\ events \o <<a, b>> = Append(Append(events, a), b)
      BY FoldedConcat
  <1> QED  BY <1>2, <1>3, <1>4, Zenon

LEMMA LastEmitted ==
    ASSUME NEW events \in Seq(LogEvent), NEW a \in LogEvent
    PROVE  events \o <<a>> # <<>> /\ Last(events \o <<a>>) = a
  <1>1. events \o <<a>> = Append(events, a)
      BY FoldedConcat
  <1>2. /\ Append(events, a) # <<>> /\ Len(Append(events, a)) = Len(events) + 1
        /\ Append(events, a)[Len(events) + 1] = a
      BY AppendProperties
  <1> QED  BY <1>1, <1>2 DEF Last

\* One more message on both sides.
LEMMA BothAppend ==
    ASSUME TurnsInv, Mirrored, AtRest, task = 0,
           NEW x \in ConversationItem, ~IsCalling(x), x.role # "tool",
           NEW g, g = FlushWith(Folded(log), x)
    PROVE  /\ g.omitted = omitted /\ g.digest = digest /\ g.ask = 0
           /\ g.pending = NoItem /\ Flush(g).items = Append(history, x)
           /\ Append(history, x) \in Seq(ConversationItem)
           /\ Settled(Append(history, x))
  <1> DEFINE f == Folded(log)
  <1>1. /\ f \in FoldState /\ history \in Seq(ConversationItem) /\ f.omitted = omitted
        /\ f.digest = digest /\ f.ask = 0 /\ Flush(f).items = history /\ Settled(history)
      BY MirroredAtRest
  <1>2. g = FlushWith(f, x)
      OBVIOUS
  <1> HIDE DEF f
  <1>3. /\ g \in FoldState /\ g.pending = NoItem /\ g.ask = f.ask /\ g.omitted = f.omitted
        /\ g.digest = f.digest /\ g.items = Append(Flush(f).items, x)
      <2> DEFINE k == FlushWith(f, x)
      <2>1. /\ k \in FoldState /\ k.pending = NoItem /\ k.ask = f.ask
            /\ k.omitted = f.omitted /\ k.digest = f.digest
            /\ k.items = Append(Flush(f).items, x)
          BY <1>1, FlushWithFacts
      <2>2. g = k
          BY <1>2
      <2> HIDE DEF k
      <2> QED  BY <2>1, <2>2, Zenon
  <1>4. Flush(g) = g
      BY <1>3, FlushFacts
  <1>5. Settled(Append(history, x)) /\ Append(history, x) \in Seq(ConversationItem)
      BY <1>1, SettledAppend
  <1> QED  BY <1>1, <1>3, <1>4, <1>5

LEMMA MirrorSubmit ==
    ASSUME TurnsInv, Mirrored, Submit, regular'
    PROVE  Mirrored'
  <1> DEFINE n == contents'
             r == run'
             e == [Event("user", n, 0) EXCEPT !.run = r]
             f == Folded(log)
             g == Folded(log')
  <1>1. /\ phase = "idle" /\ contents' = contents + 1 /\ run' = run + 1
        /\ log' = Append(log, e) /\ history' = history /\ task' = contents' /\ phase' = "top"
        /\ UNCHANGED <<omitted, digest>>
      BY DEF Submit, Take
  <1>2. log \in Seq(LogEvent) /\ contents \in Nat /\ run \in Nat
      BY TypeParts DEF TurnsInv
  <1>3. n \in Nat /\ n # 0 /\ r \in Nat
      BY <1>1, <1>2
  <1>4. e \in LogEvent /\ e.type = "user" /\ e.n = n
      <2> HIDE DEF n, r
      <2> QED  BY <1>2, <1>3 DEF Event, LogEvent
  <1> HIDE DEF e
  <1>5. g = Consume(f, e)
      BY <1>1, <1>2, <1>4, FoldedAppend
  <1>6. AtRest
      BY <1>1 DEF AtRest
  <1>7. f.ask = 0 /\ task = 0 /\ history \in Seq(ConversationItem) /\ Settled(history)
      BY <1>1, <1>6, MirroredAtRest
  <1>8. g = FlushWith(f, User(n))
      <2>1. e.type = "user" /\ ~(f.ask # 0 /\ e.run = f.askRun)
          BY <1>4, <1>7
      <2>2. Consume(f, e) = FlushWith(f, User(e.n))
          BY <2>1, ConsumeIs, Zenon
      <2> QED  BY <1>4, <1>5, <2>2, Zenon
  <1> HIDE DEF g, n
  <1>9. User(n) \in ConversationItem /\ ~IsCalling(User(n)) /\ User(n).role # "tool"
      BY <1>3 DEF User, IsCalling, ConversationItem
  <1>10. /\ g.omitted = omitted /\ g.digest = digest /\ g.ask = 0
         /\ g.pending = NoItem /\ Flush(g).items = Append(history, User(n))
      BY <1>6, <1>7, <1>8, <1>9, BothAppend DEF f
  <1>11. Append(history, User(n)) = history' \o Turn(task')
      <2>1. history \o Turn(n) = Append(history, User(n))
          BY <1>3, <1>7, TurnFacts
      <2> QED  BY <1>1, <2>1 DEF n
  <1>12. AtRest'
      BY <1>1 DEF AtRest
  <1>13. g = Folded(log')
      BY DEF g
  <1>14. /\ g.omitted = omitted' /\ g.digest = digest' /\ Settled(history')
         /\ Flush(g).items = history' \o Turn(task')
      BY <1>1, <1>7, <1>10, <1>11
  <1> QED  BY <1>1, <1>10, <1>12, <1>13, <1>14, RestMirrored

LEMMA MirrorAnswer ==
    ASSUME TurnsInv, Mirrored, Answer
    PROVE  Mirrored'
  <1> DEFINE n == contents'
             c == suspended
             e == Event("user", n, 0)
             x == ToolResult(c, n)
             f == Folded(log)
             k == FlushWith(f, x)
             g == Folded(log')
  <1>1. /\ phase = "waiting" /\ contents' = contents + 1 /\ log' = log \o <<e>>
        /\ history' = RepairToolPairing(Append(history, x), 0) /\ phase' = "top"
        /\ UNCHANGED <<omitted, digest, task>>
      BY DEF Answer, Take, Emit, ClearAbandonedSuspension
  <1>2. /\ log \in Seq(LogEvent) /\ contents \in Nat /\ run \in Nat /\ c \in Nat
        /\ history \in Seq(ConversationItem)
      BY TypeParts DEF TurnsInv
  <1>3. n \in Nat
      BY <1>1, <1>2
  <1>4. e \in LogEvent /\ e.type = "user" /\ e.run = run /\ e.n = n
      <2> HIDE DEF n
      <2> QED  BY <1>2, <1>3 DEF Event, LogEvent
  <1> HIDE DEF e
  <1>5. g = Consume(f, e)
      BY <1>1, <1>2, <1>4, FoldedEmit
  <1>6. /\ task = 0 /\ c # 0 /\ f.ask = c /\ f.askRun = run /\ f.items = history
        /\ f.pending = NoItem /\ OpenCall(history, c)
        /\ f.omitted = omitted /\ f.digest = digest
      BY <1>1 DEF Mirrored
  <1>7. f \in FoldState
      BY FoldTyped
  <1>8. x \in ConversationItem
      BY <1>2, <1>3, ItemTypes
  <1>9. g = [k EXCEPT !.ask = 0, !.askRun = 0]
      <2>1. e.type = "user" /\ f.ask # 0 /\ e.run = f.askRun
          BY <1>4, <1>6
      <2>2. Consume(f, e) = [FlushWith(f, ToolResult(f.ask, e.n)) EXCEPT !.ask = 0, !.askRun = 0]
          BY <2>1, ConsumeIs, Zenon
      <2> QED  BY <1>4, <1>5, <1>6, <2>2, Zenon
  <1> HIDE DEF f, g, x
  <1>10. /\ k \in FoldState /\ k.pending = NoItem /\ k.omitted = f.omitted
         /\ k.digest = f.digest /\ k.items = Append(Flush(f).items, x)
      BY <1>7, <1>8, FlushWithFacts
  <1>11. Flush(f) = f
      BY <1>6, <1>7, FlushFacts
  <1> HIDE DEF k
  <1>12. /\ g \in FoldState /\ g.pending = NoItem /\ g.omitted = omitted /\ g.digest = digest
         /\ g.ask = 0 /\ g.items = Append(history, x)
      <2>1. /\ g \in FoldState /\ g.pending = k.pending /\ g.omitted = k.omitted
            /\ g.digest = k.digest /\ g.ask = 0 /\ g.items = k.items
          BY <1>9, <1>10 DEF FoldState
      <2> QED  BY <1>6, <1>10, <1>11, <2>1
  <1>13. Settled(Append(history, x))
      BY <1>2, <1>3, <1>6, SettledAnswer DEF x
  <1>14. Append(history, x) \in Seq(ConversationItem)
      BY <1>2, <1>8
  <1>15. history' = Append(history, x)
      <2>1. 0 \in Nat
          OBVIOUS
      <2> QED  BY <1>1, <1>13, <1>14, <2>1, RepairSettled
  <1>16. history' \o Turn(task') = history'
      <2>1. task' = 0 /\ 0 \in Nat
          BY <1>1, <1>6
      <2> QED  BY <1>14, <1>15, <2>1, TurnFacts
  <1>17. Flush(g).items = history' \o Turn(task')
      <2>1. Flush(g) = g
          BY <1>12, FlushFacts
      <2> QED  BY <1>12, <1>15, <1>16, <2>1
  <1>18. AtRest' /\ g = Folded(log')
      BY <1>1 DEF AtRest, g
  <1>19. g.omitted = omitted' /\ g.digest = digest' /\ Settled(history')
      BY <1>1, <1>12, <1>13, <1>15
  <1> QED  BY <1>1, <1>12, <1>17, <1>18, <1>19, RestMirrored

\* A checkpoint the fold applies as it was taken.
LEMMA CheckpointIs ==
    ASSUME NEW f \in FoldState, NEW e \in LogEvent, e.pinned = 1,
           NEW s \in Nat, e.shadowed = s, NEW h, h = Flush(f).items, 1 + s < Len(h),
           Opened(h), NEW c, c = ApplyCompactionCheckpoint(f, e)
    PROVE  /\ c.items = SubSeq(h, 1, 1) \o SubSeq(h, 1 + s + 1, Len(h))
           /\ c \in FoldState /\ c.pending = NoItem /\ c.ask = f.ask
           /\ c.digest = (IF e.digest = {} THEN f.digest ELSE e.digest)
           /\ c.omitted = (IF e.digest = {} THEN f.omitted + s ELSE f.omitted)
  <1> DEFINE g == Flush(f)
             kept == SubSeq(h, 1, 1) \o SubSeq(h, 1 + s + 1, Len(h))
  <1>1. /\ g \in FoldState /\ g.ask = f.ask /\ g.omitted = f.omitted
        /\ g.digest = f.digest /\ g.pending = NoItem
      BY FlushFacts
  <1>2. g.items = h
      OBVIOUS
  <1> HIDE DEF g
  <1>3. /\ h \in Seq(ConversationItem) /\ g.omitted \in Nat /\ g.digest \in SUBSET Nat
        /\ e.digest \in SUBSET Nat
      BY <1>1, <1>2 DEF FoldState, LogEvent
  <1>4. Len(h) \in Nat /\ ~(1 > Len(h)) /\ ~(1 + s > Len(h))
      <2>1. Len(h) \in Nat
          BY <1>3
      <2> QED  BY <2>1
  <1>5. kept \in Seq(ConversationItem)
      BY <1>3, KeptFacts
  <1>6. c = IF e.digest # {} THEN [g EXCEPT !.items = kept, !.digest = e.digest]
            ELSE [g EXCEPT !.items = kept, !.omitted = @ + s]
      BY <1>2, <1>4, Zenon DEF ApplyCompactionCheckpoint, g
  <1> HIDE DEF kept
  <1>7. CASE e.digest # {}
      <2>1. c = [g EXCEPT !.items = kept, !.digest = e.digest]
          BY <1>6, <1>7
      <2>2. /\ c.items = kept /\ c \in FoldState /\ c.digest = e.digest /\ c.omitted = g.omitted
            /\ c.ask = g.ask /\ c.pending = g.pending
          BY <1>1, <1>3, <1>5, <2>1 DEF FoldState
      <2> QED  BY <1>1, <1>7, <2>2 DEF kept
  <1>8. CASE e.digest = {}
      <2>1. c = [g EXCEPT !.items = kept, !.omitted = g.omitted + s]
          BY <1>6, <1>8
      <2>2. g.omitted + s \in Nat
          BY <1>3
      <2>3. /\ c.items = kept /\ c \in FoldState /\ c.digest = g.digest
            /\ c.omitted = g.omitted + s /\ c.ask = g.ask /\ c.pending = g.pending
          BY <1>1, <1>5, <2>1, <2>2 DEF FoldState
      <2> QED  BY <1>1, <1>8, <2>3 DEF kept
  <1> QED  BY <1>7, <1>8

\* Compaction and the entry of the new turn, in either order.
LEMMA KeptTurn ==
    ASSUME NEW h \in Seq(ConversationItem), Opened(h), NEW s \in Nat, 1 + s < Len(h),
           NEW t \in Nat, NEW H, H = h \o Turn(t)
    PROVE  /\ Opened(H) /\ H \in Seq(ConversationItem) /\ 1 + s < Len(H)
           /\ SubSeq(H, 1, 1) \o SubSeq(H, 1 + s + 1, Len(H)) =
                (SubSeq(h, 1, 1) \o SubSeq(h, 1 + s + 1, Len(h))) \o Turn(t)
  <1> DEFINE k == SubSeq(h, 1, 1) \o SubSeq(h, 1 + s + 1, Len(h))
             K == SubSeq(H, 1, 1) \o SubSeq(H, 1 + s + 1, Len(H))
             x == User(t)
  <1>1. /\ k \in Seq(ConversationItem) /\ Len(k) = Len(h) - s /\ k[1] = h[1]
        /\ \A i \in 2 .. Len(h) - s : k[i] = h[i + s]
      BY KeptFacts
  <1>2. Len(h) \in Nat
      OBVIOUS
  <1>3. CASE t = 0
      <2>1. H = h /\ k \o Turn(t) = k
          BY <1>1, <1>3, TurnFacts
      <2>2. K = k
          BY <2>1
      <2> QED  BY <2>1, <2>2
  <1>4. CASE t # 0
      <2>1. H = Append(h, x)
          BY <1>4, TurnFacts
      <2>2. k \o Turn(t) = Append(k, x)
          <3> HIDE DEF k
          <3> QED  BY <1>1, <1>4, TurnFacts
      <2>3. x \in ConversationItem
          BY ItemTypes
      <2> HIDE DEF x, k
      <2>4. /\ H \in Seq(ConversationItem) /\ Len(H) = Len(h) + 1 /\ H[Len(h) + 1] = x
            /\ \A i \in 1 .. Len(h) : H[i] = h[i]
          BY <2>1, <2>3, BeginsAppend
      <2>5. Opened(H)
          BY <2>1, <2>3, OpenedAppend
      <2>6. 1 + s < Len(H)
          BY <1>2, <2>4
      <2>7. /\ K \in Seq(ConversationItem) /\ Len(K) = Len(H) - s /\ K[1] = H[1]
            /\ \A i \in 2 .. Len(H) - s : K[i] = H[i + s]
          BY <2>4, <2>5, <2>6, KeptFacts
      <2> DEFINE R == Append(k, x)
      <2>8. /\ R \in Seq(ConversationItem) /\ Len(R) = Len(k) + 1 /\ R[Len(k) + 1] = x
            /\ \A i \in 1 .. Len(k) : R[i] = k[i]
          BY <1>1, <2>3, BeginsAppend
      <2> HIDE DEF R, K
      <2>9. Len(K) = Len(h) - s + 1 /\ Len(R) = Len(h) - s + 1
          BY <1>1, <1>2, <2>4, <2>7, <2>8
      <2>10. ASSUME NEW i \in 1 .. Len(h) - s + 1
             PROVE  K[i] = R[i]
          <3>1. CASE i = 1
              <4>1. 1 \in 1 .. Len(k) /\ 1 \in 1 .. Len(h)
                  BY <1>1, <1>2
              <4> QED  BY <1>1, <2>4, <2>7, <2>8, <3>1, <4>1
          <3>2. CASE i = Len(h) - s + 1
              <4>1. i \in 2 .. Len(H) - s /\ i + s = Len(h) + 1 /\ i = Len(k) + 1
                  BY <1>1, <1>2, <2>4, <3>2
              <4> QED  BY <2>4, <2>7, <2>8, <4>1
          <3>3. CASE i # 1 /\ i # Len(h) - s + 1
              <4>1. /\ i \in 2 .. Len(H) - s /\ i \in 2 .. Len(h) - s
                    /\ i + s \in 1 .. Len(h) /\ i \in 1 .. Len(k)
                  BY <1>1, <1>2, <2>4, <3>3
              <4> QED  BY <1>1, <2>4, <2>7, <2>8, <4>1
          <3> QED  BY <3>1, <3>2, <3>3
      <2>11. K = R
          BY <2>7, <2>8, <2>9, <2>10, SameSeq
      <2> QED  BY <2>2, <2>4, <2>5, <2>6, <2>11 DEF R, K, k
  <1> QED  BY <1>3, <1>4

LEMMA MirrorPrepare ==
    ASSUME TurnsInv, Mirrored, PrepareRequest
    PROVE  Mirrored'
  <1> DEFINE f == Folded(log)
             g == Folded(log')
             H == Flush(f).items
  <1>1. phase = "top" /\ task' = 0 /\ phase' = "sent"
      BY DEF PrepareRequest
  <1>2. AtRest /\ AtRest'
      BY <1>1 DEF AtRest
  <1>3. /\ f \in FoldState /\ history \in Seq(ConversationItem)
        /\ f.omitted = omitted /\ f.digest = digest /\ f.ask = 0
        /\ H = history \o Turn(task) /\ Settled(history)
        /\ f.pending # NoItem =>
             task = 0 /\ log # <<>> /\ Last(log).type = "assistant_status"
      BY <1>2, MirroredAtRest
  <1>4. log \in Seq(LogEvent) /\ task \in Nat /\ 0 \in Nat
      BY TypeParts DEF TurnsInv
  <1>5. ASSUME NEW h \in Seq(ConversationItem), Settled(h)
        PROVE  /\ Settled(h \o Turn(task)) /\ h \o Turn(task) \in Seq(ConversationItem)
      <2>1. CASE task = 0
          BY <1>4, <1>5, <2>1, TurnFacts
      <2>2. CASE task # 0
          <3>1. User(task) \in ConversationItem /\ ~IsCalling(User(task)) /\ User(task).role # "tool"
              BY <1>4 DEF User, IsCalling, ConversationItem
          <3> QED  BY <1>4, <1>5, <2>2, <3>1, TurnFacts, SettledAppend
      <2> QED  BY <2>1, <2>2
  <1>6. ASSUME NEW h \in Seq(ConversationItem)
        PROVE  h \o Turn(0) = h
      BY <1>4, TurnFacts
  <1>7. CASE Compact
      <2>1. PICK s \in Nat, summary \in SUBSET Nat :
             /\ s = SelectCompactionSpan(history) /\ s > 0 /\ Opened(history)
             /\ 1 + s < Len(history)
             /\ history' = (SubSeq(history, 1, 1) \o SubSeq(history, 1 + s + 1, Len(history)))
                             \o Turn(task)
             /\ digest' = (IF summary = {} THEN digest ELSE summary)
             /\ omitted' = (IF summary = {} THEN omitted + s ELSE omitted)
             /\ Checkpoint(1, s, summary) \in LogEvent
             /\ Checkpoint(1, s, summary).type = "history_compacted"
             /\ Checkpoint(1, s, summary).pinned = 1
             /\ Checkpoint(1, s, summary).shadowed = s
             /\ Checkpoint(1, s, summary).digest = summary
             /\ log' = Append(log, Checkpoint(1, s, summary))
          BY <1>1, <1>7, CompactFacts
      <2> DEFINE e == Checkpoint(1, s, summary)
                 k == SubSeq(history, 1, 1) \o SubSeq(history, 1 + s + 1, Len(history))
      <2>2. /\ e \in LogEvent /\ e.type = "history_compacted" /\ e.pinned = 1
            /\ e.shadowed = s /\ e.digest = summary /\ log' = Append(log, e)
          BY <2>1
      <2> HIDE DEF e
      <2>3. g = ApplyCompactionCheckpoint(f, e)
          <3>1. g = Consume(f, e)
              BY <1>4, <2>2, FoldedAppend
          <3>2. Consume(f, e) = ApplyCompactionCheckpoint(f, e)
              BY <2>2, ConsumeIs, Zenon
          <3> QED  BY <3>1, <3>2
      <2>4. /\ Opened(H) /\ H \in Seq(ConversationItem) /\ 1 + s < Len(H)
            /\ SubSeq(H, 1, 1) \o SubSeq(H, 1 + s + 1, Len(H)) = k \o Turn(task)
          <3>1. /\ history \in Seq(ConversationItem) /\ Opened(history) /\ s \in Nat
                /\ 1 + s < Len(history) /\ task \in Nat /\ H = history \o Turn(task)
              BY <1>3, <1>4, <2>1
          <3> HIDE DEF H
          <3> QED  BY <3>1, KeptTurn, Zenon
      <2> HIDE DEF f, g, k, H
      <2>5. /\ g.items = SubSeq(H, 1, 1) \o SubSeq(H, 1 + s + 1, Len(H))
            /\ g \in FoldState /\ g.pending = NoItem /\ g.ask = f.ask
            /\ g.digest = (IF e.digest = {} THEN f.digest ELSE e.digest)
            /\ g.omitted = (IF e.digest = {} THEN f.omitted + s ELSE f.omitted)
          <3>1. /\ f \in FoldState /\ e \in LogEvent /\ e.pinned = 1 /\ s \in Nat
                /\ e.shadowed = s /\ H = Flush(f).items /\ 1 + s < Len(H) /\ Opened(H)
                /\ g = ApplyCompactionCheckpoint(f, e)
              BY <1>3, <2>2, <2>3, <2>4 DEF H
          <3> QED  BY <3>1, CheckpointIs
      <2>6. k \in Seq(ConversationItem) /\ Settled(k)
          <3>1. history[1 + s + 1].role # "tool"
              BY <1>3, <2>1, SpanFacts
          <3> QED  BY <1>3, <2>1, <3>1, SettledKept, KeptFacts DEF k
      <2>7. history' = k \o Turn(task)
          BY <2>1 DEF k
      <2>8. Settled(history') /\ history' \in Seq(ConversationItem)
          BY <1>5, <2>6, <2>7
      <2>9. Flush(g).items = history' \o Turn(task')
          <3>1. Flush(g) = g
              BY <2>5, FlushFacts
          <3>2. history' \o Turn(task') = history'
              BY <1>1, <1>6, <2>8
          <3> QED  BY <2>4, <2>5, <2>7, <3>1, <3>2
      <2>10. g.omitted = omitted' /\ g.digest = digest' /\ g.ask = 0
          BY <1>3, <2>1, <2>2, <2>5
      <2>11. g = Folded(log')
          BY DEF g
      <2> QED  BY <1>1, <1>2, <2>5, <2>8, <2>9, <2>10, <2>11, RestMirrored
  <1>8. CASE ~Compact
      <2>1. history' = history \o Turn(task) /\ UNCHANGED <<digest, omitted, log>>
          BY <1>8 DEF PrepareRequest, Turn
      <2>2. Settled(history') /\ history' \in Seq(ConversationItem)
          BY <1>3, <1>5, <2>1
      <2>3. Flush(f).items = history' \o Turn(task')
          <3>1. history' \o Turn(task') = history'
              BY <1>1, <1>6, <2>2
          <3> QED  BY <1>3, <2>1, <3>1
      <2>4. f = Folded(log')
          BY <2>1
      <2>5. /\ f.omitted = omitted' /\ f.digest = digest' /\ f.ask = 0
            /\ f.pending # NoItem =>
                 task' = 0 /\ log' # <<>> /\ Last(log').type = "assistant_status"
          BY <1>1, <1>3, <2>1
      <2> HIDE DEF f
      <2> QED  BY <1>1, <1>2, <2>2, <2>3, <2>4, <2>5, RestMirrored
  <1> QED  BY <1>7, <1>8

LEMMA MirrorRequestFails ==
    ASSUME TurnsInv, Mirrored, RequestFails \/ ClosingFails
    PROVE  Mirrored'
  <1> DEFINE e == Event("run_ended", 0, 0)
             f == Folded(log)
             g == Folded(log')
  <1>1. /\ phase \in {"sent", "closing"} /\ log' = log \o <<e>> /\ phase' = "idle"
        /\ UNCHANGED <<history, omitted, digest, task>>
      BY DEF RequestFails, ClosingFails, Emit, Kept
  <1>2. log \in Seq(LogEvent) /\ run \in Nat
      BY TypeParts DEF TurnsInv
  <1>3. e \in LogEvent /\ e.type = "run_ended"
      BY <1>2 DEF Event, LogEvent
  <1> HIDE DEF e
  <1>4. g = Flush(f)
      <2>1. g = Consume(f, e)
          BY <1>1, <1>2, <1>3, FoldedEmit
      <2>2. Consume(f, e) = Flush(f)
          BY <1>3, ConsumeIs, Zenon
      <2> QED  BY <2>1, <2>2
  <1>5. AtRest /\ AtRest'
      BY <1>1 DEF AtRest
  <1>6. /\ f \in FoldState /\ f.omitted = omitted /\ f.digest = digest /\ f.ask = 0
        /\ task = 0 /\ Flush(f).items = history \o Turn(task) /\ Settled(history)
      BY <1>1, <1>5, MirroredAtRest
  <1> HIDE DEF f, g
  <1>7. /\ g \in FoldState /\ g.pending = NoItem /\ g.omitted = f.omitted
        /\ g.digest = f.digest /\ g.ask = f.ask
      BY <1>4, <1>6, FlushFacts
  <1>8. Flush(g) = g
      BY <1>7, FlushFacts
  <1>9. g = Folded(log')
      BY DEF g
  <1>10. /\ g.omitted = omitted' /\ g.digest = digest' /\ g.ask = 0 /\ task' = 0
         /\ Flush(g).items = history' \o Turn(task') /\ Settled(history')
      BY <1>1, <1>4, <1>6, <1>7, <1>8
  <1> QED  BY <1>5, <1>7, <1>9, <1>10, RestMirrored

LEMMA MirrorFinalText ==
    ASSUME TurnsInv, Mirrored, FinalText \/ MarkupRejected \/ ClosingText
    PROVE  Mirrored'
  <1> DEFINE n == contents'
             t == IF ~MarkupRejected THEN "run_completed" ELSE "system_feedback"
             x == IF ~MarkupRejected THEN Assistant(n, <<>>) ELSE User(n)
             e == Event(t, n, 0)
             f == Folded(log)
             g == Folded(log')
  <1>1. /\ phase \in {"sent", "closing"} /\ contents' = contents + 1 /\ phase' \in {"idle", "top"}
        /\ history' = Append(history, x) /\ log' = log \o <<e>>
        /\ UNCHANGED <<omitted, digest, task>>
      <2>1. CASE MarkupRejected
          BY <2>1 DEF MarkupRejected, Take, Emit, Kept
      <2>2. CASE ~MarkupRejected
          BY <2>2 DEF FinalText, ClosingText, Take, Emit, Kept
      <2> QED  BY <2>1, <2>2
  <1>2. log \in Seq(LogEvent) /\ run \in Nat /\ contents \in Nat
      BY TypeParts DEF TurnsInv
  <1>3. n \in Nat /\ n # 0
      BY <1>1, <1>2
  <1> HIDE DEF n
  <1>4. e \in LogEvent /\ e.type = t /\ e.n = n
      BY <1>2, <1>3 DEF Event, LogEvent
  <1>5. x \in ConversationItem /\ ~IsCalling(x) /\ x.role # "tool"
      BY <1>3 DEF User, Assistant, IsCalling, ConversationItem
  <1>6. g = FlushWith(f, x)
      <2>1. g = Consume(f, e)
          <3> HIDE DEF e
          <3> QED  BY <1>1, <1>2, <1>4, FoldedEmit
      <2>2. CASE ~MarkupRejected
          <3>1. e.type = "run_completed" /\ x = Assistant(n, <<>>)
              BY <1>4, <2>2
          <3> HIDE DEF e, x
          <3>2. Consume(f, e) = FlushWith(f, Assistant(e.n, <<>>))
              BY <1>3, <1>4, <3>1, ConsumeIs, Zenon
          <3> QED  BY <1>4, <2>1, <3>1, <3>2, Zenon
      <2>3. CASE MarkupRejected
          <3>1. e.type = "system_feedback" /\ x = User(n)
              BY <1>4, <2>3
          <3> HIDE DEF e, x
          <3>2. Consume(f, e) = FlushWith(f, User(e.n))
              BY <3>1, ConsumeIs, Zenon
          <3> QED  BY <1>4, <2>1, <3>1, <3>2, Zenon
      <2> QED  BY <2>2, <2>3
  <1>7. AtRest /\ AtRest'
      BY <1>1 DEF AtRest
  <1>8. task = 0
      BY <1>1, <1>7, MirroredAtRest
  <1> HIDE DEF e, x, g
  <1>9. /\ g.omitted = omitted /\ g.digest = digest /\ g.ask = 0
        /\ g.pending = NoItem /\ Flush(g).items = Append(history, x)
        /\ Append(history, x) \in Seq(ConversationItem)
        /\ Settled(Append(history, x))
      BY <1>5, <1>6, <1>7, <1>8, BothAppend
  <1>10. history' \o Turn(task') = history'
      <2>1. task' = 0 /\ 0 \in Nat /\ history' \in Seq(ConversationItem)
          BY <1>1, <1>8, <1>9
      <2> QED  BY <2>1, TurnFacts
  <1>11. g = Folded(log')
      BY DEF g
  <1>12. /\ g.omitted = omitted' /\ g.digest = digest' /\ Settled(history') /\ task' = 0
         /\ Flush(g).items = history' \o Turn(task')
      BY <1>1, <1>8, <1>9, <1>10
  <1> QED  BY <1>7, <1>9, <1>11, <1>12, RestMirrored

\* The fold behind a status event.
LEMMA StatusIs ==
    ASSUME NEW f \in FoldState, NEW e \in LogEvent, e.type = "assistant_status",
           NEW g, g = Consume(f, e)
    PROVE  /\ g \in FoldState /\ g.items = Flush(f).items
           /\ g.pending = Assistant(e.n, <<>>)
           /\ g.ask = f.ask /\ g.omitted = f.omitted /\ g.digest = f.digest
  <1> DEFINE k == Flush(f)
             p == Assistant(e.n, <<>>)
  <1>1. e.n \in Nat
      BY DEF LogEvent
  <1>2. p \in AssistantItem
      BY <1>1, ItemTypes
  <1>3. k \in FoldState /\ k.ask = f.ask /\ k.omitted = f.omitted /\ k.digest = f.digest
      BY FlushFacts
  <1>4. g = [k EXCEPT !.pending = p]
      <2>1. Consume(f, e) = [k EXCEPT !.pending = p]
          BY ConsumeIs, Zenon
      <2> QED  BY <2>1
  <1> HIDE DEF k, p
  <1>5. /\ g \in FoldState /\ g.items = k.items /\ g.pending = p
        /\ g.ask = k.ask /\ g.omitted = k.omitted /\ g.digest = k.digest
      BY <1>2, <1>3, <1>4 DEF FoldState
  <1> QED  BY <1>3, <1>5 DEF k, p

LEMMA MirrorDraftText ==
    ASSUME TurnsInv, Mirrored, DraftText
    PROVE  Mirrored'
  <1> DEFINE n == contents'
             x == Assistant(n, <<>>)
             e == Event("assistant_status", n, 0)
             f == Folded(log)
             g == Folded(log')
  <1>1. /\ phase = "sent" /\ contents' = contents + 1 /\ phase' = "top"
        /\ history' = Append(history, x) /\ log' = log \o <<e>>
        /\ UNCHANGED <<omitted, digest, task>>
      BY DEF DraftText, Take, Emit, Kept
  <1>2. log \in Seq(LogEvent) /\ run \in Nat /\ contents \in Nat
      BY TypeParts DEF TurnsInv
  <1>3. n \in Nat /\ n # 0
      BY <1>1, <1>2
  <1> HIDE DEF n
  <1>4. e \in LogEvent /\ e.type = "assistant_status" /\ e.n = n
      BY <1>2, <1>3 DEF Event, LogEvent
  <1>5. x \in ConversationItem /\ ~IsCalling(x) /\ x.role # "tool"
      BY <1>3 DEF Assistant, IsCalling, ConversationItem
  <1>6. x # NoItem
      BY <1>3 DEF Assistant, NoItem
  <1> HIDE DEF e
  <1>7. g = Consume(f, e)
      BY <1>1, <1>2, <1>4, FoldedEmit
  <1>8. AtRest /\ AtRest'
      BY <1>1 DEF AtRest
  <1>9. /\ f \in FoldState /\ f.omitted = omitted /\ f.digest = digest /\ f.ask = 0
        /\ task = 0 /\ Flush(f).items = history /\ Settled(history)
        /\ history \in Seq(ConversationItem)
      BY <1>1, <1>8, MirroredAtRest
  <1> HIDE DEF f, g
  <1>10. /\ g \in FoldState /\ g.items = Flush(f).items /\ g.pending = Assistant(e.n, <<>>)
         /\ g.ask = f.ask /\ g.omitted = f.omitted /\ g.digest = f.digest
      BY <1>4, <1>7, <1>9, StatusIs
  <1>11. g.pending = x
      BY <1>4, <1>10
  <1> HIDE DEF x
  <1>12. Flush(g).items = history'
      <2>1. Flush(g).items = Append(g.items, g.pending)
          BY <1>6, <1>10, <1>11, FlushFacts
      <2> QED  BY <1>1, <1>9, <1>10, <1>11, <2>1
  <1>13. Settled(history') /\ history' \in Seq(ConversationItem)
      BY <1>1, <1>5, <1>9, SettledAppend
  <1>14. history' \o Turn(task') = history'
      <2>1. task' = 0 /\ 0 \in Nat
          BY <1>1, <1>9
      <2> QED  BY <1>13, <2>1, TurnFacts
  <1>15. task' = 0 /\ log' # <<>> /\ Last(log').type = "assistant_status"
      <2>1. log' # <<>> /\ Last(log') = e
          BY <1>1, <1>2, <1>4, LastEmitted
      <2> QED  BY <1>1, <1>4, <1>9, <2>1
  <1>16. g = Folded(log')
      BY DEF g
  <1>17. /\ g.omitted = omitted' /\ g.digest = digest' /\ g.ask = 0
         /\ Flush(g).items = history' \o Turn(task')
      BY <1>1, <1>9, <1>10, <1>12, <1>14
  <1> QED  BY <1>8, <1>13, <1>15, <1>16, <1>17, RestMirrored

LEMMA FrontAppend ==
    ASSUME NEW h \in Seq(ConversationItem), NEW x \in ConversationItem
    PROVE  /\ SubSeq(Append(h, x), 1, Len(Append(h, x)) - 1) = h
           /\ Append(h, x)[Len(Append(h, x))] = x
  <1> DEFINE g == Append(h, x)
             L == Len(h)
             p == SubSeq(g, 1, L)
  <1>1. /\ g \in Seq(ConversationItem) /\ Len(g) = L + 1 /\ g[L + 1] = x
        /\ L \in Nat /\ \A i \in 1 .. L : g[i] = h[i]
      BY BeginsAppend
  <1> HIDE DEF g
  <1>2. L <= Len(g) /\ Len(g) - 1 = L
      BY <1>1
  <1>3. /\ p \in Seq(ConversationItem) /\ Len(p) = L
        /\ \A k \in 1 .. L : p[k] = g[k]
      BY <1>1, <1>2, Prefix
  <1> HIDE DEF p
  <1>4. p = h
      BY <1>1, <1>3, SameSeq
  <1> QED  BY <1>1, <1>2, <1>4 DEF g, p

LEMMA OpenCallParts ==
    ASSUME NEW h \in Seq(ConversationItem), NEW c \in Nat, OpenCall(h, c)
    PROVE  /\ h[Len(h)].n \in Nat
           /\ Append(SubSeq(h, 1, Len(h) - 1), Assistant(h[Len(h)].n, <<c>>)) = h
  <1> DEFINE L == Len(h)
             b == L - 1
             p == SubSeq(h, 1, b)
             x == h[L]
             q == Append(p, x)
  <1>1. L \in Nat /\ L > 0 /\ x = Assistant(x.n, <<c>>)
      BY DEF OpenCall
  <1>2. x \in ConversationItem /\ b \in Nat /\ b <= L /\ b + 1 = L
      BY <1>1
  <1>3. /\ p \in Seq(ConversationItem) /\ Len(p) = b
        /\ \A k \in 1 .. b : p[k] = h[k]
      <2> HIDE DEF b
      <2> QED  BY <1>2, Prefix
  <1>4. x.n \in Nat
      <2> HIDE DEF x
      <2> QED  BY <1>2 DEF ConversationItem
  <1> HIDE DEF p, x
  <1>5. /\ q \in Seq(ConversationItem) /\ Len(q) = Len(p) + 1 /\ q[Len(p) + 1] = x
        /\ \A i \in 1 .. Len(p) : q[i] = p[i]
      BY <1>2, <1>3, BeginsAppend
  <1> HIDE DEF q
  <1>6. Len(q) = L /\ q[L] = x /\ \A i \in 1 .. b : q[i] = h[i]
      <2> HIDE DEF b, L
      <2> QED  BY <1>2, <1>3, <1>5
  <1>7. \A i \in 1 .. L : q[i] = h[i]
      <2>1. q[L] = h[L]
          BY <1>6 DEF x
      <2>2. \A i \in 1 .. L : i = L \/ i \in 1 .. b
          <3> HIDE DEF L, b
          <3> QED  BY <1>1, <1>2
      <2> QED  BY <1>6, <2>1, <2>2
  <1>8. q = h
      BY <1>5, <1>6, <1>7, SameSeq
  <1> QED  BY <1>1, <1>4, <1>8 DEF q, p, x

LEMMA MirrorCallTools ==
    ASSUME TurnsInv, Mirrored, NEW a \in CallingAnswers, CallTools(a), regular'
    PROVE  Mirrored'
  <1> DEFINE f == Folded(log)
             g == Folded(log')
  <1>1. /\ phase = "sent" /\ UNCHANGED <<omitted, digest, task>>
        /\ Len(a.calls) = 1 /\ ~a.blank
        /\ a.text \/ Last(log).type # "assistant_status"
      BY Zenon DEF CallTools, Kept
  <1>2. PICK n \in Nat, calls \in Seq(Nat) :
             /\ Len(calls) = Len(a.calls)
             /\ \A j \in 1 .. Len(calls) : calls[j] = contents + j
             /\ n = (IF a.text THEN contents' ELSE 0)
             /\ a.text => n # 0
             /\ Assistant(n, calls) \in ConversationItem
             /\ log' = log \o StatusEvents(a, n)
             /\ history' = Append(history, Assistant(n, calls))
             /\ batch' = calls /\ phase' = "batch"
      BY CallToolsFacts
  <1>3. log \in Seq(LogEvent) /\ run \in Nat /\ contents \in Nat
      BY TypeParts DEF TurnsInv
  <1> DEFINE c == contents + 1
             x == Assistant(n, calls)
  <1>4. c \in Nat /\ c # 0 /\ Len(calls) = 1 /\ calls[1] = c
      BY <1>1, <1>2, <1>3
  <1>5. calls = <<c>>
      <2> HIDE DEF c
      <2> QED  BY <1>4
  <1>6. AtRest
      BY <1>1 DEF AtRest
  <1>7. /\ f \in FoldState /\ f.omitted = omitted /\ f.digest = digest /\ f.ask = 0
        /\ task = 0 /\ Flush(f).items = history /\ Settled(history)
        /\ history \in Seq(ConversationItem)
        /\ f.pending # NoItem => Last(log).type = "assistant_status"
      BY <1>1, <1>6, MirroredAtRest
  <1>8. /\ g.items = history /\ g.pending = Assistant(n, <<>>) /\ g.ask = 0
        /\ g.omitted = omitted /\ g.digest = digest
      <2>1. CASE ~a.text
          <3>1. StatusEvents(a, n) = <<>> /\ n = 0
              BY <1>1, <1>2, <2>1 DEF StatusEvents
          <3>2. log' = log
              BY <1>2, <1>3, <3>1
          <3>3. f.pending = NoItem
              BY <1>1, <1>7, <2>1
          <3>4. Flush(f) = f
              <4> HIDE DEF f
              <4> QED  BY <1>7, <3>3, FlushFacts
          <3>5. NoItem = Assistant(n, <<>>)
              BY <3>1 DEF NoItem
          <3> QED  BY <1>7, <3>2, <3>3, <3>4, <3>5
      <2>2. CASE a.text
          <3> DEFINE e == Event("assistant_status", n, 0)
          <3>1. log' = log \o <<e>>
              BY <1>2, <2>2 DEF StatusEvents
          <3>2. e \in LogEvent /\ e.type = "assistant_status" /\ e.n = n
              BY <1>3 DEF Event, LogEvent
          <3> HIDE DEF e
          <3>3. g = Consume(f, e)
              BY <1>3, <3>1, <3>2, FoldedEmit
          <3> HIDE DEF f, g
          <3>4. /\ g.items = Flush(f).items /\ g.pending = Assistant(e.n, <<>>)
                /\ g.ask = f.ask /\ g.omitted = f.omitted /\ g.digest = f.digest
              BY <1>7, <3>2, <3>3, StatusIs
          <3> QED  BY <1>7, <3>2, <3>4
      <2> QED  BY <2>1, <2>2
  <1>9. x = Assistant(n, <<c>>) /\ x.n = n /\ x \in ConversationItem
      <2>1. x = Assistant(n, <<c>>)
          BY <1>5, Zenon
      <2>2. x.n = n
          BY DEF Assistant
      <2> QED  BY <1>2, <2>1, <2>2
  <1> HIDE DEF x, c, f, g
  <1>10. history' = Append(history, x)
      BY <1>2 DEF x
  <1>11. /\ SubSeq(history', 1, Len(history') - 1) = history
         /\ history'[Len(history')] = x /\ history' # <<>>
      BY <1>7, <1>9, <1>10, FrontAppend, BeginsAppend
  <1>12. OpenCall(history', c)
      BY <1>7, <1>9, <1>11 DEF OpenCall
  <1>13. /\ batch' = calls /\ phase' = "batch" /\ g.pending = Assistant(history'[Len(history')].n, <<>>)
         /\ g.items = SubSeq(history', 1, Len(history') - 1)
      BY <1>2, <1>8, <1>9, <1>11
  <1>14. /\ Len(batch') = 1 /\ batch'[1] # 0 /\ OpenCall(history', batch'[1])
      BY <1>4, <1>12, <1>13
  <1>15. g.omitted = omitted' /\ g.digest = digest' /\ g.ask = 0 /\ task' = 0
      BY <1>1, <1>7, <1>8
  <1> QED  BY <1>13, <1>14, <1>15 DEF Mirrored, g

\* What is known of an open call: the conversation and the fold.
LEMMA MirroredCall ==
    ASSUME TurnsInv, Mirrored, phase = "batch"
    PROVE  LET c == batch[1]
               f == Folded(log)
               p == PendingToolCall(f, c)
           IN /\ Len(batch) = 1 /\ c \in Nat /\ c # 0 /\ Head(batch) = c
              /\ OpenCall(history, c) /\ history \in Seq(ConversationItem)
              /\ f \in FoldState /\ p \in FoldState /\ p.ask = 0
              /\ p.omitted = omitted /\ p.digest = digest /\ task = 0
              /\ Flush(p).items = history /\ Append(f.items, p.pending) = history
  <1> DEFINE c == batch[1]
             f == Folded(log)
             p == PendingToolCall(f, c)
             m == history[Len(history)].n
  <1>1. /\ f.omitted = omitted /\ f.digest = digest /\ f.ask = 0 /\ task = 0
        /\ Len(batch) = 1 /\ c # 0 /\ OpenCall(history, c)
        /\ f.items = SubSeq(history, 1, Len(history) - 1)
        /\ f.pending = Assistant(m, <<>>)
      BY DEF Mirrored
  <1>2. history \in Seq(ConversationItem) /\ batch \in Seq(Nat)
      BY TypeParts DEF TurnsInv
  <1>3. c \in Nat /\ Head(batch) = c
      <2>1. Len(batch) = 1
          BY <1>1
      <2>2. \A s \in Seq(Nat) : Len(s) = 1 => s[1] \in Nat /\ Head(s) = s[1]
          OBVIOUS
      <2> QED  BY <1>2, <2>1, <2>2, Zenon
  <1>4. f \in FoldState
      BY FoldTyped
  <1> HIDE DEF c
  <1>5. /\ m \in Nat
        /\ Append(SubSeq(history, 1, Len(history) - 1), Assistant(m, <<c>>)) = history
      BY <1>1, <1>2, <1>3, OpenCallParts
  <1> HIDE DEF f, m
  <1>6. /\ p \in FoldState /\ p.items = f.items /\ p.ask = f.ask /\ p.omitted = f.omitted
        /\ p.digest = f.digest /\ p.pending # NoItem /\ p.pending = Assistant(m, <<c>>)
      BY <1>1, <1>3, <1>4, <1>5, PendingFacts
  <1> HIDE DEF p
  <1>7. Flush(p).items = Append(p.items, p.pending)
      BY <1>6, FlushFacts
  <1>8. Append(f.items, p.pending) = history /\ Flush(p).items = history
      BY <1>1, <1>5, <1>6, <1>7
  <1>9. /\ Len(batch) = 1 /\ c \in Nat /\ c # 0 /\ Head(batch) = c
        /\ OpenCall(history, c) /\ history \in Seq(ConversationItem)
        /\ f \in FoldState /\ p \in FoldState /\ p.ask = 0
        /\ p.omitted = omitted /\ p.digest = digest /\ task = 0
        /\ Flush(p).items = history /\ Append(f.items, p.pending) = history
      BY <1>1, <1>2, <1>3, <1>4, <1>6, <1>8
  <1> QED  BY <1>9, Zenon DEF c, f, p

\* The fold behind a call and its result.
LEMMA CallAndResult ==
    ASSUME TurnsInv, Mirrored, phase = "batch", NEW n \in Nat,
           NEW a \in LogEvent, a.type = "tool_call", a.call = Head(batch),
           NEW b \in LogEvent, b.type = "tool_result", b.call = Head(batch), b.n = n,
           NEW k, k = Consume(Consume(Folded(log), a), b),
           NEW x, x = ToolResult(Head(batch), n)
    PROVE  /\ k \in FoldState /\ k.omitted = omitted /\ k.digest = digest /\ k.ask = 0
           /\ k.pending = NoItem /\ k.items = Append(history, x)
           /\ Append(history, x) \in Seq(ConversationItem) /\ Settled(Append(history, x))
           /\ Len(batch) = 1 /\ task = 0
  <1> DEFINE c == batch[1]
             f == Folded(log)
             p == PendingToolCall(f, c)
  <1>1. /\ Len(batch) = 1 /\ c \in Nat /\ Head(batch) = c
        /\ OpenCall(history, c) /\ history \in Seq(ConversationItem)
        /\ p \in FoldState /\ p.ask = 0
        /\ p.omitted = omitted /\ p.digest = digest /\ task = 0
        /\ Flush(p).items = history
      BY MirroredCall, Zenon
  <1>2. Consume(f, a) = p
      <2>1. Consume(f, a) = PendingToolCall(f, a.call)
          BY ConsumeIs, Zenon
      <2> QED  BY <1>1, <2>1, Zenon
  <1>3. x = ToolResult(c, n) /\ x \in ConversationItem
      BY <1>1, ItemTypes
  <1>4. k = FlushWith(p, x)
      <2>1. Consume(p, b) = FlushWith(p, ToolResult(b.call, b.n))
          BY ConsumeIs, Zenon
      <2>2. k = Consume(p, b) /\ ToolResult(b.call, b.n) = x
          BY <1>1, <1>2, Zenon
      <2> QED  BY <2>1, <2>2, Zenon
  <1> HIDE DEF c, p
  <1>5. /\ k \in FoldState /\ k.pending = NoItem /\ k.ask = p.ask /\ k.omitted = p.omitted
        /\ k.digest = p.digest /\ k.items = Append(Flush(p).items, x)
      <2> DEFINE w == FlushWith(p, x)
      <2>1. /\ w \in FoldState /\ w.pending = NoItem /\ w.ask = p.ask /\ w.omitted = p.omitted
            /\ w.digest = p.digest /\ w.items = Append(Flush(p).items, x)
          BY <1>1, <1>3, FlushWithFacts
      <2>2. k = w
          BY <1>4
      <2> HIDE DEF w
      <2> QED  BY <2>1, <2>2, Zenon
  <1>6. Settled(Append(history, x)) /\ Append(history, x) \in Seq(ConversationItem)
      <2>1. Settled(Append(history, ToolResult(c, n)))
          BY <1>1, SettledAnswer
      <2> QED  BY <1>1, <1>3, <2>1
  <1> QED  BY <1>1, <1>5, <1>6

LEMMA MirrorExecuteCall ==
    ASSUME TurnsInv, Mirrored, NEW o, ExecuteCall(o), regular'
    PROVE  Mirrored'
  <1> DEFINE c == Head(batch)
             n == contents + 1
             a == Event("tool_call", 0, c)
             b == Event("tool_result", n, c)
             k == Consume(Consume(Folded(log), a), b)
             x == ToolResult(c, n)
             g == Folded(log')
  <1>1. phase = "batch" /\ UNCHANGED <<omitted, digest, task>>
      BY DEF ExecuteCall, Kept
  <1>2. /\ history \in Seq(ConversationItem) /\ log \in Seq(LogEvent) /\ run \in Nat
        /\ contents \in Nat
      BY TypeParts DEF TurnsInv
  <1>3. c \in Nat /\ Len(batch) = 1
      BY <1>1, MirroredCall, Zenon
  <1>4. n \in Nat
      BY <1>2
  <1>5. /\ contents' = n /\ history' = Append(history, x) /\ log' = log \o <<a, b>>
        /\ phase' \in {"top", "closing"}
      <2>1. ~(regular' = FALSE)
          OBVIOUS
      <2> QED  BY <1>3, <2>1, ExecuteCallIs, Zenon
  <1>6. /\ a \in LogEvent /\ a.type = "tool_call" /\ a.call = c
        /\ b \in LogEvent /\ b.type = "tool_result" /\ b.call = c /\ b.n = n
      <2> HIDE DEF c, n
      <2> QED  BY <1>2, <1>3, <1>4 DEF Event, LogEvent
  <1> HIDE DEF a, b, n
  <1>7. /\ k \in FoldState /\ k.omitted = omitted /\ k.digest = digest /\ k.ask = 0
        /\ k.pending = NoItem /\ k.items = Append(history, x)
        /\ Append(history, x) \in Seq(ConversationItem) /\ Settled(Append(history, x))
        /\ task = 0
      BY <1>1, <1>4, <1>6, CallAndResult
  <1>8. task' = 0 /\ 0 \in Nat
      BY <1>1, <1>7
  <1> HIDE DEF x
  <1>9. g = k
      BY <1>2, <1>5, <1>6, FoldedEmit
  <1>10. AtRest' /\ g = Folded(log')
      BY <1>5 DEF AtRest
  <1> HIDE DEF g, k
  <1>11. Flush(g) = g
      BY <1>7, <1>9, FlushFacts
  <1>12. history' \o Turn(task') = history'
      BY <1>5, <1>7, <1>8, TurnFacts
  <1>13. /\ g.omitted = omitted' /\ g.digest = digest' /\ g.ask = 0 /\ g.pending = NoItem
         /\ Flush(g).items = history' \o Turn(task') /\ Settled(history')
      BY <1>1, <1>5, <1>7, <1>9, <1>11, <1>12
  <1> QED  BY <1>8, <1>10, <1>13, RestMirrored

LEMMA MirrorSuspend ==
    ASSUME TurnsInv, Mirrored, Suspend
    PROVE  Mirrored'
  <1> DEFINE c == batch[1]
             e == Event("user_request_input", 0, c)
             f == Folded(log)
             p == PendingToolCall(f, c)
             g == Folded(log')
  <1>1. /\ phase = "batch" /\ log' = log \o <<Event("user_request_input", 0, Head(batch))>>
        /\ suspended' = Head(batch) /\ phase' = "waiting"
        /\ UNCHANGED <<history, omitted, digest, task, run>>
      BY DEF Suspend, Emit, Kept
  <1>2. /\ c \in Nat /\ c # 0 /\ Head(batch) = c /\ OpenCall(history, c)
        /\ f \in FoldState /\ p.omitted = omitted /\ p.digest = digest /\ task = 0
        /\ Append(f.items, p.pending) = history
      BY <1>1, MirroredCall, Zenon
  <1>3. log \in Seq(LogEvent) /\ run \in Nat
      BY TypeParts DEF TurnsInv
  <1>4. log' = log \o <<e>> /\ suspended' = c
      BY <1>1, <1>2
  <1> HIDE DEF c
  <1>5. e \in LogEvent /\ e.type = "user_request_input" /\ e.run = run /\ e.call = c
      BY <1>2, <1>3 DEF Event, LogEvent
  <1> HIDE DEF e
  <1>6. g = Consume(f, e)
      BY <1>3, <1>4, <1>5, FoldedEmit
  <1>7. f.omitted = omitted /\ f.digest = digest
      BY DEF Mirrored
  <1> HIDE DEF f, g
  <1>8. /\ g.items = Append(f.items, PendingToolCall(f, e.call).pending)
        /\ g.pending = NoItem /\ g.ask = e.call /\ g.askRun = e.run
        /\ g.omitted = f.omitted /\ g.digest = f.digest
      BY <1>2, <1>5, <1>6, AskFacts
  <1>9. g.items = history
      BY <1>2, <1>5, <1>8
  <1>10. /\ suspended' # 0 /\ g.ask = suspended' /\ g.askRun = run' /\ g.items = history'
         /\ g.pending = NoItem /\ OpenCall(history', suspended') /\ phase' = "waiting"
         /\ g.omitted = omitted' /\ g.digest = digest' /\ task' = 0
      BY <1>1, <1>2, <1>4, <1>5, <1>7, <1>8, <1>9
  <1> QED  BY <1>10 DEF Mirrored, g

\* A step of a regular session starts from a regular session.
LEMMA RegularBefore ==
    ASSUME TypeOK, [Next]_vars, regular'
    PROVE  regular
  <1>1. regular \in BOOLEAN
      BY TypeParts
  <1>2. CASE Submit
      BY <1>2 DEF Submit
  <1>3. ASSUME NEW a \in CallingAnswers, CallTools(a) \/ InvalidBatch(a)
        PROVE  regular
      <2>1. CASE CallTools(a)
          BY <2>1, Zenon DEF CallTools
      <2>2. CASE InvalidBatch(a)
          BY <2>2 DEF InvalidBatch
      <2> QED  BY <1>3, <2>1, <2>2
  <1>4. ASSUME NEW o, ExecuteCall(o)
        PROVE  regular
      BY <1>4, ExecuteCallIs
  <1>5. CASE Answer \/ PrepareRequest \/ RequestFails \/ ClosingFails \/ TextStep
      BY <1>5 DEF Answer, PrepareRequest, RequestFails, ClosingFails, TextStep, FinalText,
                  DraftText, MarkupRejected, BlankText, ClosingText
  <1>6. CASE Suspend \/ CancelWaiting \/ HydrateSessionFromPersistence
      BY <1>6 DEF Suspend, CancelWaiting, HydrateSessionFromPersistence
  <1>7. CASE UNCHANGED vars
      BY <1>7 DEF vars
  <1> QED  BY <1>2, <1>3, <1>4, <1>5, <1>6, <1>7 DEF Next, TextStep

LEMMA ExactInit == Init => ExactInv
  <1> SUFFICES ASSUME Init  PROVE ExactInv
      OBVIOUS
  <1>1. TurnsInv
      BY TurnsInit
  <1>2. /\ log = <<>> /\ history = <<>> /\ task = 0 /\ phase = "idle" /\ omitted = 0
        /\ digest = {}
      BY DEF Init
  <1>3. Folded(log) = Folder
      BY <1>2, FoldedEmpty
  <1>4. /\ Folder.omitted = 0 /\ Folder.digest = {} /\ Folder.ask = 0
        /\ Folder.pending = NoItem /\ Folder.items = <<>>
      BY DEF Folder
  <1>5. Flush(Folder) = Folder
      BY <1>4, Zenon DEF Flush
  <1>6. history \o Turn(task) = <<>> /\ Settled(history)
      BY <1>2 DEF Turn, Settled
  <1>7. Mirrored
      BY <1>2, <1>3, <1>4, <1>5, <1>6 DEF Mirrored
  <1> QED  BY <1>1, <1>7 DEF ExactInv

LEMMA ExactNext == ExactInv /\ [Next]_vars => ExactInv'
  <1> SUFFICES ASSUME ExactInv, [Next]_vars  PROVE ExactInv'
      OBVIOUS
  <1>1. TurnsInv /\ TurnsInv'
      BY TurnsNext DEF ExactInv
  <1>2. ASSUME regular'
        PROVE  Mirrored'
      <2>1. regular
          BY <1>1, <1>2, RegularBefore DEF TurnsInv
      <2>2. Mirrored
          BY <2>1 DEF ExactInv
      <2>3. ASSUME NEW a \in CallingAnswers, CallTools(a) \/ InvalidBatch(a)
            PROVE  Mirrored'
          <3>1. CASE CallTools(a)
              BY <1>1, <1>2, <2>2, <3>1, MirrorCallTools
          <3>2. CASE InvalidBatch(a)
              BY <1>2, <3>2 DEF InvalidBatch
          <3> QED  BY <2>3, <3>1, <3>2
      <2>4. ASSUME NEW o, ExecuteCall(o)
            PROVE  Mirrored'
          BY <1>1, <1>2, <2>2, <2>4, MirrorExecuteCall
      <2>5. CASE CancelWaiting \/ HydrateSessionFromPersistence \/ BlankText
          BY <1>2, <2>5 DEF CancelWaiting, HydrateSessionFromPersistence, BlankText
      <2>6. CASE UNCHANGED vars
          BY <2>2, <2>6 DEF vars, Mirrored
      <2>7. CASE Submit
          BY <1>1, <1>2, <2>2, <2>7, MirrorSubmit
      <2>8. CASE Answer \/ PrepareRequest \/ RequestFails \/ ClosingFails
          BY <1>1, <2>2, <2>8, MirrorAnswer, MirrorPrepare, MirrorRequestFails
      <2>9. CASE FinalText \/ MarkupRejected \/ ClosingText \/ DraftText
          BY <1>1, <2>2, <2>9, MirrorFinalText, MirrorDraftText
      <2>10. CASE Suspend
          BY <1>1, <2>2, <2>10, MirrorSuspend
      <2> QED  BY <2>3, <2>4, <2>5, <2>6, <2>7, <2>8, <2>9, <2>10 DEF Next
  <1> QED  BY <1>1, <1>2 DEF ExactInv

(***************************************************************************)
(* While a session is regular the fold of its log has the engine's         *)
(* conversation in every phase of the run: between runs and while a        *)
(* request is out item by item, during a call up to the open call, while   *)
(* the user is asked with the question pending (historyFolder).            *)
(***************************************************************************)
THEOREM FoldMirrorsEngine == Spec => []ExactInv
  BY ExactInit, ExactNext, PTL DEF Spec

(***************************************************************************)
(* The log of an uninterrupted session rebuilds the engine's conversation  *)
(* exactly, with its omission count and digest.                            *)
(***************************************************************************)
THEOREM RegularRebuildIsExact == Spec => []RebuildIsExact
  <1>1. ExactInv => RebuildIsExact
      <2> SUFFICES ASSUME ExactInv, regular, phase = "idle"
                   PROVE  /\ RebuildHistoryFromMessages(log) = history
                          /\ Fold(log).omitted = omitted /\ Fold(log).digest = digest
          BY DEF RebuildIsExact
      <2> DEFINE f == Folded(log)
                 g == Flush(f)
      <2>1. TurnsInv /\ Mirrored /\ AtRest
          BY DEF ExactInv, AtRest
      <2>2. /\ f \in FoldState /\ history \in Seq(ConversationItem)
            /\ f.omitted = omitted /\ f.digest = digest /\ f.ask = 0
            /\ g.items = history /\ Settled(history)
          BY <2>1, MirroredAtRest
      <2> HIDE DEF f
      <2>3. g.omitted = f.omitted /\ g.digest = f.digest /\ g.ask = f.ask
          BY <2>2, FlushFacts
      <2>4. Fold(log) = g
          BY DEF Fold, f
      <2> HIDE DEF g
      <2>5. RebuildHistoryFromMessages(log) = RepairToolPairing(g.items, g.ask)
          BY <2>4 DEF RebuildHistoryFromMessages
      <2>6. RepairToolPairing(history, 0) = history
          <3>1. 0 \in Nat
              OBVIOUS
          <3> QED  BY <2>2, <3>1, RepairSettled
      <2> QED  BY <2>2, <2>3, <2>4, <2>5, <2>6
  <1> QED  BY <1>1, FoldMirrorsEngine, PTL

LEMMA SettledPaired ==
    ASSUME NEW h \in Seq(ConversationItem), Settled(h)
    PROVE  Paired(h)
  <1>1. Len(h) \in Nat /\ DOMAIN h = 1 .. Len(h)
      OBVIOUS
  <1>2. ASSUME NEW i \in 1 .. Len(h), IsCalling(h[i])
        PROVE  /\ ResultRun(h, i) = 1 /\ i + 1 \in 1 .. Len(h)
               /\ Len(h[i].calls) = 1 /\ h[i + 1].call = h[i].calls[1]
      <2>1. /\ Len(h[i].calls) = 1 /\ i < Len(h) /\ h[i + 1].role = "tool"
            /\ h[i + 1].call = h[i].calls[1]
          BY <1>1, <1>2 DEF Settled
      <2>2. i + 1 \in 1 .. Len(h) /\ 1 \in 0 .. Len(h) - i
          BY <1>1, <2>1
      <2>3. \A j \in i + 1 .. i + 1 : h[j].role = "tool"
          BY <2>1
      <2>4. i + 1 < Len(h) => h[i + 1 + 1].role # "tool"
          <3> SUFFICES ASSUME i + 1 < Len(h), h[i + 1 + 1].role = "tool"  PROVE FALSE
              OBVIOUS
          <3> DEFINE m == i + 1 + 1
          <3>1. m \in DOMAIN h /\ m - 1 = i + 1 /\ h[m].role = "tool"
              BY <1>1
          <3> HIDE DEF m
          <3>2. IsCalling(h[m - 1])
              BY <3>1 DEF Settled
          <3>3. IsCalling(h[i + 1])
              BY <3>1, <3>2
          <3> QED  BY <2>1, <3>3 DEF IsCalling
      <2>5. \A k \in 0 .. Len(h) - i :
               /\ \A j \in i + 1 .. i + k : h[j].role = "tool"
               /\ i + k < Len(h) => h[i + k + 1].role # "tool"
               => ResultRun(h, i) = k
          BY ResultRunUnique
      <2>6. ResultRun(h, i) = 1
          BY <2>2, <2>3, <2>4, <2>5
      <2> QED  BY <2>1, <2>2, <2>6
  <1>3. ASSUME NEW i \in DOMAIN h
        PROVE  PairedAt(h, i)
      <2>1. ASSUME IsCalling(h[i])
            PROVE  /\ ResultRun(h, i) = Len(h[i].calls)
                   /\ {h[j].call : j \in i + 1 .. i + ResultRun(h, i)} = ToSet(h[i].calls)
          <3>1. /\ ResultRun(h, i) = 1 /\ i + 1 \in 1 .. Len(h)
                /\ Len(h[i].calls) = 1 /\ h[i + 1].call = h[i].calls[1]
              BY <1>1, <1>2, <2>1
          <3>2. h[i].calls \in Seq(Nat)
              <4>1. h[i] \in ConversationItem
                  BY <1>1
              <4> QED  BY <4>1 DEF ConversationItem
          <3>3. ToSet(h[i].calls) = {h[i].calls[1]}
              BY <3>1, <3>2 DEF ToSet
          <3>4. i + 1 .. i + ResultRun(h, i) = {i + 1}
              BY <1>1, <3>1
          <3>5. {h[j].call : j \in i + 1 .. i + ResultRun(h, i)} = {h[i + 1].call}
              BY <3>4
          <3> QED  BY <3>1, <3>3, <3>5
      <2>2. ASSUME h[i].role = "tool"
            PROVE  \E o \in 1 .. i - 1 : IsCalling(h[o]) /\ o + ResultRun(h, o) >= i
          <3> DEFINE o == i - 1
          <3>1. i > 1 /\ IsCalling(h[o])
              BY <2>2 DEF Settled
          <3>2. o \in 1 .. Len(h) /\ o \in 1 .. i - 1 /\ o + 1 >= i
              BY <1>1, <3>1
          <3> HIDE DEF o
          <3>3. ResultRun(h, o) = 1
              BY <1>2, <3>1, <3>2
          <3> QED  BY <3>1, <3>2, <3>3
      <2> QED  BY <2>1, <2>2 DEF PairedAt
  <1> QED  BY <1>3 DEF Paired

(***************************************************************************)
(* Every request of a regular session, the closing one behind a delivery   *)
(* included, carries a conversation in which the results behind a message  *)
(* answer its calls, each once, and no result stands elsewhere             *)
(* (repairToolPairing, adjustCompactionBoundary).                          *)
(***************************************************************************)
THEOREM RegularRequestsPaired == 
    Spec => [](regular /\ phase \in {"sent", "closing"} => Paired(history))
  <1>1. ExactInv => (regular /\ phase \in {"sent", "closing"} => Paired(history))
      <2> SUFFICES ASSUME ExactInv, regular, phase \in {"sent", "closing"}
                   PROVE  Paired(history)
          OBVIOUS
      <2>1. TurnsInv /\ Mirrored /\ AtRest
          BY DEF ExactInv, AtRest
      <2>2. history \in Seq(ConversationItem) /\ Settled(history)
          BY <2>1, MirroredAtRest
      <2> QED  BY <2>2, SettledPaired
  <1> QED  BY <1>1, FoldMirrorsEngine, PTL
=============================================================================
