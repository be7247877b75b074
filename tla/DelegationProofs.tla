-------------------------- MODULE DelegationProofs --------------------------
(***************************************************************************)
(* Proofs about Delegation, for any memory keys and any bounds.            *)
(***************************************************************************)
EXTENDS Delegation, FiniteSetTheorems, SequenceTheorems, WellFoundedInduction, TLAPS

-----------------------------------------------------------------------------
(* Least and greatest elements; they stand for induction over data.        *)

\* Every nonempty set of naturals has a least element.
LEMMA LeastNatural ==
    ASSUME NEW T \in SUBSET Nat, T # {}
    PROVE  \E n \in T : \A m \in T : n <= m
  <1>1. PICK n \in T : \A m \in T : ~(<<m, n>> \in OpToRel(<, Nat))
      BY WFMin, NatLessThanWellFounded
  <1>2. ASSUME NEW m \in T, m < n
        PROVE  FALSE
      <2>1. <<m, n>> \in Nat \X Nat /\ <<m, n>>[1] < <<m, n>>[2]
          BY <1>2
      <2>2. <<m, n>> \in OpToRel(<, Nat)
          BY <2>1 DEF OpToRel
      <2> QED  BY <1>1, <2>2
  <1>3. \A m \in T : m \in Nat /\ n \in Nat /\ ~(m < n)
      BY <1>2
  <1> QED  BY <1>3

\* Max names the greatest element of a bounded set.
LEMMA GreatestBounded ==
    ASSUME NEW b \in Int, NEW T \in SUBSET Int, T # {}, \A m \in T : m <= b
    PROVE  Max(T) \in T /\ \A m \in T : m <= Max(T)
  <1> DEFINE D == {k \in Nat : b - k \in T}
  <1>1. D # {}
      <2>1. PICK m \in T : TRUE  OBVIOUS
      <2>2. b - m \in D  BY <2>1
      <2> QED  BY <2>2
  <1>2. PICK k \in D : \A m \in D : k <= m
      BY <1>1, LeastNatural
  <1>3. ASSUME NEW m \in T
        PROVE  m <= b - k
      <2>1. b - m \in D /\ m \in Int /\ k \in Int
          OBVIOUS
      <2>2. k <= b - m
          BY <1>2, <2>1
      <2> HIDE DEF D
      <2> QED  BY <2>1, <2>2
  <1>4. \E x \in T : \A y \in T : x >= y
      BY <1>2, <1>3
  <1>5. Max(T) \in T /\ \A y \in T : Max(T) >= y
      BY <1>4 DEF Max
  <1> QED  BY <1>5

-----------------------------------------------------------------------------
(* Conversations.                                                          *)

\* ResultRun counts the results up to the first item that is none.
LEMMA ResultRunIs ==
    ASSUME NEW h \in Seq(ConversationItem), NEW i \in 1 .. Len(h)
    PROVE  /\ ResultRun(h, i) \in 0 .. Len(h) - i
           /\ \A j \in i + 1 .. i + ResultRun(h, i) : h[j].role = "tool"
           /\ i + ResultRun(h, i) < Len(h) => h[i + ResultRun(h, i) + 1].role # "tool"
  <1> DEFINE T == {k \in 0 .. Len(h) - i : \A j \in i + 1 .. i + k : h[j].role = "tool"}
             r == Max(T)
  <1>1. Len(h) \in Nat
      OBVIOUS
  <1>2. T \in SUBSET Int /\ 0 \in T /\ \A m \in T : m <= Len(h)
      BY <1>1
  <1>3. r \in T /\ \A m \in T : m <= r
      <2> HIDE DEF T
      <2>1. Len(h) \in Int /\ T # {}
          BY <1>1, <1>2
      <2> QED  BY <1>2, <2>1, GreatestBounded
  <1>4. ASSUME i + r < Len(h), h[i + r + 1].role = "tool"
        PROVE  FALSE
      <2>1. r \in 0 .. Len(h) - i /\ \A j \in i + 1 .. i + r : h[j].role = "tool"
          BY <1>3
      <2> HIDE DEF r
      <2>2. \A j \in i + 1 .. i + (r + 1) : h[j].role = "tool"
          BY <1>4, <2>1
      <2>3. r + 1 \in T
          BY <1>1, <1>4, <2>1, <2>2
      <2>4. r + 1 <= r
          BY <1>3, <2>3
      <2> QED  BY <2>1, <2>4
  <1>5. ResultRun(h, i) = r
      BY DEF ResultRun
  <1> QED  BY <1>3, <1>4, <1>5

LEMMA ResultRunUnique ==
    ASSUME NEW h \in Seq(ConversationItem), NEW i \in 1 .. Len(h),
           NEW k \in 0 .. Len(h) - i,
           \A j \in i + 1 .. i + k : h[j].role = "tool",
           i + k < Len(h) => h[i + k + 1].role # "tool"
    PROVE  ResultRun(h, i) = k
  <1> DEFINE r == ResultRun(h, i)
  <1>1. /\ r \in 0 .. Len(h) - i
        /\ \A j \in i + 1 .. i + r : h[j].role = "tool"
        /\ i + r < Len(h) => h[i + r + 1].role # "tool"
      BY ResultRunIs
  <1> HIDE DEF r
  <1>2. ~(r < k)
      <2> SUFFICES ASSUME r < k  PROVE FALSE
          OBVIOUS
      <2>1. i + r + 1 \in i + 1 .. i + k /\ i + r < Len(h)
          BY <1>1
      <2> QED  BY <1>1, <2>1
  <1>3. ~(k < r)
      <2> SUFFICES ASSUME k < r  PROVE FALSE
          OBVIOUS
      <2>1. i + k + 1 \in i + 1 .. i + r /\ i + k < Len(h)
          BY <1>1
      <2> QED  BY <1>1, <2>1
  <1>4. r = k
      BY <1>1, <1>2, <1>3
  <1> QED  BY <1>4 DEF r

\* Two conversations that agree from i to behind its results have the same run.
LEMMA SameRun ==
    ASSUME NEW h \in Seq(ConversationItem), NEW i \in 1 .. Len(h),
           NEW g \in Seq(ConversationItem), NEW d \in Int, i + d \in 1 .. Len(g),
           i + d + ResultRun(h, i) <= Len(g),
           \A j \in i + 1 .. i + ResultRun(h, i) : g[j + d] = h[j],
           i + d + ResultRun(h, i) < Len(g) =>
               g[i + d + ResultRun(h, i) + 1].role # "tool"
    PROVE  ResultRun(g, i + d) = ResultRun(h, i)
  <1> DEFINE r == ResultRun(h, i)
  <1>1. /\ r \in 0 .. Len(h) - i
        /\ \A j \in i + 1 .. i + r : h[j].role = "tool"
      BY ResultRunIs
  <1>2. /\ i + d + r <= Len(g)
        /\ \A j \in i + 1 .. i + r : g[j + d] = h[j]
        /\ i + d + r < Len(g) => g[i + d + r + 1].role # "tool"
      OBVIOUS
  <1> HIDE DEF r
  <1>3. r \in 0 .. Len(g) - (i + d) /\ i + d \in Nat
      BY <1>1, <1>2
  <1>4. ASSUME NEW j \in i + d + 1 .. i + d + r
        PROVE  g[j].role = "tool"
      <2>1. j - d \in i + 1 .. i + r /\ (j - d) + d = j
          BY <1>1
      <2>2. g[(j - d) + d] = h[j - d]
          BY <1>2, <2>1
      <2> QED  BY <1>1, <2>1, <2>2
  <1>5. ResultRun(g, i + d) = r
      BY <1>2, <1>3, <1>4, ResultRunUnique
  <1> QED  BY <1>5 DEF r

\* The first n items are paired alike in two conversations that share them, if
\* neither goes on with a result.
LEMMA PairedPrefix ==
    ASSUME NEW h \in Seq(ConversationItem), NEW g \in Seq(ConversationItem),
           NEW n \in 0 .. Len(h), n <= Len(g),
           \A j \in 1 .. n : g[j] = h[j],
           n < Len(h) => h[n + 1].role # "tool",
           n < Len(g) => g[n + 1].role # "tool",
           NEW i \in 1 .. n, PairedAt(h, i)
    PROVE  PairedAt(g, i)
  <1>1. ASSUME NEW k \in 1 .. n
        PROVE  /\ k + ResultRun(h, k) <= n
               /\ ResultRun(g, k) = ResultRun(h, k)
               /\ ResultRun(h, k) \in Nat
      <2> DEFINE r == ResultRun(h, k)
      <2>1. /\ k \in 1 .. Len(h) /\ k \in 1 .. Len(g)
            /\ n \in Nat /\ Len(g) \in Nat /\ Len(h) \in Nat
          OBVIOUS
      <2>2. /\ r \in 0 .. Len(h) - k
            /\ \A j \in k + 1 .. k + r : h[j].role = "tool"
            /\ k + r < Len(h) => h[k + r + 1].role # "tool"
          BY <2>1, ResultRunIs
      <2> HIDE DEF r
      <2>3. k + r <= n
          <3> SUFFICES ASSUME k + r > n  PROVE FALSE
              BY <2>1, <2>2
          <3>1. n + 1 \in k + 1 .. k + r /\ n < Len(h)
              BY <2>1, <2>2
          <3> QED  BY <2>2, <3>1
      <2>4. \A j \in k + 1 .. k + r : g[j].role = "tool"
          BY <2>1, <2>2, <2>3
      <2>5. r \in 0 .. Len(g) - k
          BY <2>1, <2>2, <2>3
      <2>6. k + r < Len(g) => g[k + r + 1].role # "tool"
          <3>1. CASE k + r = n
              BY <2>1, <2>2, <3>1
          <3>2. CASE k + r < n
              <4>1. k + r + 1 \in 1 .. n /\ k + r < Len(h)
                  BY <2>1, <2>2, <3>2
              <4> QED  BY <2>1, <2>2, <4>1
          <3> QED  BY <2>1, <2>2, <2>3, <3>1, <3>2
      <2>7. ResultRun(g, k) = r
          BY <2>1, <2>4, <2>5, <2>6, ResultRunUnique
      <2> QED  BY <2>1, <2>2, <2>3, <2>7 DEF r
  <1>2. g[i] = h[i]
      OBVIOUS
  <1>3. ASSUME IsCalling(g[i])
        PROVE  /\ ResultRun(g, i) = Len(g[i].calls)
               /\ {g[j].call : j \in i + 1 .. i + ResultRun(g, i)} = ToSet(g[i].calls)
      <2> DEFINE r == ResultRun(h, i)
      <2>1. /\ r = Len(h[i].calls)
            /\ {h[j].call : j \in i + 1 .. i + r} = ToSet(h[i].calls)
          BY <1>2, <1>3 DEF PairedAt
      <2>2. i + r <= n /\ ResultRun(g, i) = r /\ r \in Nat
          BY <1>1
      <2> HIDE DEF r
      <2>3. \A j \in i + 1 .. i + r : g[j] = h[j]
          BY <2>2
      <2>4. {g[j].call : j \in i + 1 .. i + r} = {h[j].call : j \in i + 1 .. i + r}
          BY <2>3
      <2> QED  BY <1>2, <2>1, <2>2, <2>4
  <1>4. ASSUME g[i].role = "tool"
        PROVE  \E o \in 1 .. i - 1 : IsCalling(g[o]) /\ o + ResultRun(g, o) >= i
      <2>1. PICK o \in 1 .. i - 1 : IsCalling(h[o]) /\ o + ResultRun(h, o) >= i
          BY <1>2, <1>4 DEF PairedAt
      <2>2. o \in 1 .. n /\ g[o] = h[o]
          OBVIOUS
      <2> QED  BY <1>1, <2>1, <2>2
  <1> QED  BY <1>3, <1>4 DEF PairedAt

\* A turn without calls behind a paired conversation.
LEMMA PairedAppend ==
    ASSUME NEW h \in Seq(ConversationItem), Paired(h),
           NEW x \in ConversationItem, x.role # "tool"
    PROVE  /\ \A i \in 1 .. Len(h) : PairedAt(Append(h, x), i)
           /\ ~IsCalling(x) => Paired(Append(h, x))
  <1> DEFINE g == Append(h, x)
  <1>1. /\ g \in Seq(ConversationItem) /\ Len(g) = Len(h) + 1 /\ Len(h) \in Nat
        /\ g[Len(h) + 1] = x /\ \A j \in 1 .. Len(h) : g[j] = h[j]
        /\ DOMAIN g = 1 .. Len(h) + 1
      OBVIOUS
  <1> HIDE DEF g
  <1>2. \A i \in 1 .. Len(h) : PairedAt(g, i)
      <2> SUFFICES ASSUME NEW i \in 1 .. Len(h)  PROVE PairedAt(g, i)
          OBVIOUS
      <2>1. PairedAt(h, i)
          BY DEF Paired
      <2>2. Len(h) \in 0 .. Len(h)
          BY <1>1
      <2> QED  BY <1>1, <2>1, <2>2, PairedPrefix
  <1>3. ASSUME ~IsCalling(x)
        PROVE  PairedAt(g, Len(h) + 1)
      BY <1>1, <1>3 DEF PairedAt
  <1>4. ~IsCalling(x) => Paired(g)
      BY <1>1, <1>2, <1>3 DEF Paired
  <1> QED  BY <1>2, <1>4 DEF g

\* The items behind a cut that does not stand before a result are paired.
LEMMA PairedSuffix ==
    ASSUME NEW h \in Seq(ConversationItem), Paired(h),
           NEW c \in 0 .. Len(h) - 1, h[c + 1].role # "tool"
    PROVE  Paired(SubSeq(h, c + 1, Len(h)))
  <1> DEFINE g == SubSeq(h, c + 1, Len(h))
  <1>1. /\ g \in Seq(ConversationItem) /\ Len(g) = Len(h) - c /\ Len(h) \in Nat
        /\ \A j \in 1 .. Len(h) - c : g[j] = h[j + c]
        /\ DOMAIN g = 1 .. Len(h) - c
      OBVIOUS
  <1> HIDE DEF g
  <1>2. ASSUME NEW k \in c + 1 .. Len(h)
        PROVE  /\ ResultRun(g, k - c) = ResultRun(h, k)
               /\ ResultRun(h, k) \in 0 .. Len(h) - k
      <2> DEFINE r == ResultRun(h, k)
      <2>1. k \in 1 .. Len(h) /\ k + (-c) \in 1 .. Len(g) /\ k + (-c) = k - c /\ -c \in Int
          BY <1>1
      <2>2. /\ r \in 0 .. Len(h) - k
            /\ k + r < Len(h) => h[k + r + 1].role # "tool"
          BY <2>1, ResultRunIs
      <2> HIDE DEF r
      <2>3. k + (-c) + r <= Len(g)
          BY <1>1, <2>1, <2>2
      <2>4. ASSUME NEW j \in k + 1 .. k + r
            PROVE  g[j + (-c)] = h[j]
          <3>1. j + (-c) \in 1 .. Len(h) - c /\ (j + (-c)) + c = j
              BY <1>1, <2>1, <2>2
          <3> QED  BY <1>1, <3>1
      <2>5. ASSUME k + (-c) + r < Len(g)
            PROVE  g[k + (-c) + r + 1].role # "tool"
          <3>1. /\ k + (-c) + r + 1 \in 1 .. Len(h) - c
                /\ (k + (-c) + r + 1) + c = k + r + 1 /\ k + r < Len(h)
              BY <1>1, <2>1, <2>2, <2>5
          <3> QED  BY <1>1, <2>2, <3>1
      <2>6. ResultRun(g, k + (-c)) = ResultRun(h, k)
          BY <1>1, <2>1, <2>3, <2>4, <2>5, SameRun DEF r
      <2> QED  BY <2>1, <2>2, <2>6 DEF r
  <1>3. ASSUME NEW i \in 1 .. Len(h) - c
        PROVE  PairedAt(g, i)
      <2>1. /\ i + c \in c + 1 .. Len(h) /\ i + c \in 1 .. Len(h) /\ (i + c) - c = i
            /\ g[i] = h[i + c]
          BY <1>1
      <2>2. PairedAt(h, i + c)
          BY <2>1 DEF Paired
      <2>3. ResultRun(g, i) = ResultRun(h, i + c) /\ ResultRun(h, i + c) \in 0 .. Len(h) - (i + c)
          BY <1>2, <2>1
      <2>4. ASSUME IsCalling(g[i])
            PROVE  /\ ResultRun(g, i) = Len(g[i].calls)
                   /\ {g[j].call : j \in i + 1 .. i + ResultRun(g, i)} = ToSet(g[i].calls)
          <3> DEFINE r == ResultRun(h, i + c)
          <3>1. /\ r = Len(h[i + c].calls)
                /\ {h[j].call : j \in i + c + 1 .. i + c + r} = ToSet(h[i + c].calls)
              BY <2>1, <2>2, <2>4 DEF PairedAt
          <3>2. r \in 0 .. Len(h) - (i + c) /\ ResultRun(g, i) = r
              BY <2>3
          <3> HIDE DEF r
          <3>3. \A j \in i + 1 .. i + r : j + c \in i + c + 1 .. i + c + r /\ g[j] = h[j + c]
              BY <1>1, <3>2
          <3>4. \A j \in i + c + 1 .. i + c + r :
                   j - c \in i + 1 .. i + r /\ g[j - c] = h[j]
              <4> SUFFICES ASSUME NEW j \in i + c + 1 .. i + c + r
                           PROVE  j - c \in i + 1 .. i + r /\ g[j - c] = h[j]
                  OBVIOUS
              <4>1. j - c \in i + 1 .. i + r /\ (j - c) + c = j
                  BY <3>2
              <4> QED  BY <3>3, <4>1
          <3>5. {g[j].call : j \in i + 1 .. i + r}
                   = {h[j].call : j \in i + c + 1 .. i + c + r}
              BY <3>3, <3>4
          <3> QED  BY <2>1, <3>1, <3>2, <3>5
      <2>5. ASSUME g[i].role = "tool"
            PROVE  \E o \in 1 .. i - 1 : IsCalling(g[o]) /\ o + ResultRun(g, o) >= i
          <3>1. PICK o \in 1 .. i + c - 1 : IsCalling(h[o]) /\ o + ResultRun(h, o) >= i + c
              BY <2>1, <2>2, <2>5 DEF PairedAt
          <3>2. o \in 1 .. Len(h)
              BY <2>1
          <3>3. /\ ResultRun(h, o) \in Nat
                /\ \A j \in o + 1 .. o + ResultRun(h, o) : h[j].role = "tool"
              BY <3>2, ResultRunIs
          <3>4. o > c
              <4> SUFFICES ASSUME o <= c  PROVE FALSE
                  OBVIOUS
              <4>1. c + 1 \in o + 1 .. o + ResultRun(h, o)
                  BY <3>1, <3>3
              <4> QED  BY <3>3, <4>1
          <3>5. /\ o - c \in 1 .. i - 1 /\ o \in c + 1 .. Len(h)
                /\ o - c \in 1 .. Len(h) - c /\ (o - c) + c = o
              BY <2>1, <3>4
          <3>6. g[o - c] = h[o] /\ ResultRun(g, o - c) = ResultRun(h, o)
              BY <1>1, <1>2, <3>5
          <3>7. (o - c) + ResultRun(g, o - c) >= i
              BY <3>1, <3>3, <3>6
          <3> QED  BY <3>1, <3>5, <3>6, <3>7
      <2> QED  BY <2>4, <2>5 DEF PairedAt
  <1>4. Paired(g)
      BY <1>1, <1>3 DEF Paired
  <1> QED  BY <1>4 DEF g

\* adjustCompactionBoundary leaves no result in front of the cut: in a paired
\* conversation the calling message it goes back to is the owner of the result
\* and is answered in full.
LEMMA BoundaryFacts ==
    ASSUME NEW h \in Seq(ConversationItem), Paired(h), NEW b \in 1 .. Len(h) - 1
    PROVE  /\ AdjustCompactionBoundary(h, b) \in 0 .. b
           /\ h[AdjustCompactionBoundary(h, b) + 1].role # "tool"
  <1>1. Len(h) \in Nat /\ b + 1 \in 1 .. Len(h) /\ ~(b <= 0) /\ ~(b >= Len(h)) /\ b \in Int
      OBVIOUS
  <1>2. CASE h[b + 1].role # "tool"
      <2>1. AdjustCompactionBoundary(h, b) = b
          BY <1>2 DEF AdjustCompactionBoundary
      <2> QED  BY <1>1, <1>2, <2>1
  <1>3. CASE h[b + 1].role = "tool"
      <2> DEFINE owners == {i \in 1 .. b : IsCalling(h[i])}
                 owner == Max(owners)
      <2>1. PICK o \in 1 .. b : IsCalling(h[o]) /\ o + ResultRun(h, o) >= b + 1
          <3>1. PairedAt(h, b + 1)
              BY <1>1 DEF Paired
          <3> QED  BY <1>1, <1>3, <3>1 DEF PairedAt
      <2>2. o \in owners /\ owners \in SUBSET Int /\ \A m \in owners : m <= b
          BY <2>1
      <2>3. owner \in owners /\ \A m \in owners : m <= owner
          <3> HIDE DEF owners
          <3>1. owners # {}
              BY <2>2
          <3> QED  BY <1>1, <2>2, <3>1, GreatestBounded
      <2>4. owner \in 1 .. b /\ IsCalling(h[owner]) /\ o <= owner
          BY <2>2, <2>3
      <2> HIDE DEF owner
      <2>5. owner = o
          <3>1. o \in 1 .. Len(h)
              BY <1>1
          <3>2. /\ ResultRun(h, o) \in Nat
                /\ \A j \in o + 1 .. o + ResultRun(h, o) : h[j].role = "tool"
              BY <3>1, ResultRunIs
          <3>3. h[owner].role # "tool"
              BY <2>4 DEF IsCalling
          <3>4. ~(owner \in o + 1 .. o + ResultRun(h, o))
              BY <3>2, <3>3
          <3> QED  BY <2>1, <2>4, <3>2, <3>4
      <2>6. ResultRun(h, owner) >= Len(h[owner].calls)
          <3>1. owner \in DOMAIN h /\ Len(h[owner].calls) \in Nat
              <4>1. owner \in 1 .. Len(h)
                  BY <1>1, <2>4
              <4>2. h[owner] \in ConversationItem
                  BY <4>1, ElementOfSeq
              <4>3. h[owner].calls \in Seq(Nat)
                  BY <4>2 DEF ConversationItem
              <4> QED  BY <4>1, <4>3
          <3>2. PairedAt(h, owner)
              BY <3>1 DEF Paired
          <3>3. ResultRun(h, owner) = Len(h[owner].calls)
              BY <2>4, <3>2 DEF PairedAt
          <3> QED  BY <3>1, <3>3
      <2>7. AdjustCompactionBoundary(h, b) = owner - 1
          <3>1. owners # {}
              BY <2>2
          <3> QED  BY <1>1, <1>3, <2>6, <3>1 DEF AdjustCompactionBoundary, owner
      <2>8. (owner - 1) + 1 = owner /\ owner - 1 \in 0 .. b
          BY <1>1, <2>4
      <2> QED  BY <2>4, <2>7, <2>8 DEF IsCalling
  <1> QED  BY <1>2, <1>3

\* compactWorkerBundle keeps a child's conversation paired.
LEMMA CompactedPaired ==
    ASSUME NEW h \in Seq(ConversationItem), Paired(h), NEW pressure \in BOOLEAN
    PROVE  /\ CompactWorkerBundle(h, pressure) \in Seq(ConversationItem)
           /\ Paired(CompactWorkerBundle(h, pressure))
  <1>1. CASE ~pressure \/ Len(h) <= RecentWindow
      BY <1>1 DEF CompactWorkerBundle
  <1>2. CASE pressure /\ ~(Len(h) <= RecentWindow)
      <2> DEFINE b == Len(h) - RecentWindow
                 c == AdjustCompactionBoundary(h, b)
      <2>1. RecentWindow \in Nat \ {0} /\ Len(h) \in Nat
          BY DelegationAssumption
      <2>2. b \in 1 .. Len(h) - 1
          BY <1>2, <2>1
      <2>3. c \in 0 .. b /\ h[c + 1].role # "tool"
          <3> HIDE DEF b
          <3> QED  BY <2>2, BoundaryFacts
      <2>4. c \in 0 .. Len(h) - 1
          <3> HIDE DEF c
          <3> QED  BY <2>1, <2>2, <2>3
      <2> HIDE DEF c
      <2>5. Paired(SubSeq(h, c + 1, Len(h)))
          BY <2>3, <2>4, PairedSuffix
      <2>6. SubSeq(h, c + 1, Len(h)) \in Seq(ConversationItem)
          BY <2>1, <2>4
      <2>7. CompactWorkerBundle(h, pressure) = SubSeq(h, c + 1, Len(h))
          BY <1>2 DEF CompactWorkerBundle, c
      <2> QED  BY <2>5, <2>6, <2>7
  <1> QED  BY <1>1, <1>2

(***************************************************************************)
(* A batch under way: the last calling message has the results of its      *)
(* first calls behind it, and the batch is what is left of them.           *)
(***************************************************************************)
Answering(h, batch) ==
    \E o \in DOMAIN h :
        /\ IsCalling(h[o]) /\ batch # <<>>
        /\ Len(h[o].calls) = Len(h) - o + Len(batch)
        /\ \A j \in DOMAIN h[o].calls : h[o].calls[j] = j
        /\ \A j \in o + 1 .. Len(h) : h[j].role = "tool" /\ h[j].call = j - o
        /\ \A j \in DOMAIN batch : batch[j] = Len(h) - o + j
        /\ \A i \in 1 .. o - 1 : PairedAt(h, i)

\* A calling message opens a batch.
LEMMA BatchOpens ==
    ASSUME NEW h \in Seq(ConversationItem), Paired(h), NEW k \in Nat \ {0}
    PROVE  LET calls == [j \in 1 .. k |-> j]
               g == Append(h, Assistant(0, calls))
           IN  calls \in Seq(Nat) /\ g \in Seq(ConversationItem) /\ Answering(g, calls)
  <1> DEFINE calls == [j \in 1 .. k |-> j]
             x == Assistant(0, calls)
             g == Append(h, x)
  <1>1. calls \in Seq(Nat) /\ Len(calls) = k /\ DOMAIN calls = 1 .. k /\ calls # <<>>
      OBVIOUS
  <1> HIDE DEF calls
  <1>2. x \in ConversationItem /\ IsCalling(x) /\ x.role # "tool" /\ x.calls = calls
      BY <1>1 DEF Assistant, ConversationItem, IsCalling
  <1> HIDE DEF x
  <1>3. /\ g \in Seq(ConversationItem) /\ Len(g) = Len(h) + 1 /\ Len(h) \in Nat
        /\ g[Len(h) + 1] = x /\ DOMAIN g = 1 .. Len(h) + 1
      BY <1>2
  <1>4. \A i \in 1 .. Len(h) : PairedAt(g, i)
      BY <1>2, PairedAppend
  <1> HIDE DEF g
  <1>5. \A j \in DOMAIN calls : calls[j] = j
      BY DEF calls
  <1>6. Answering(g, calls)
      <2>1. Len(h) + 1 \in DOMAIN g
          BY <1>3
      <2>2. /\ IsCalling(g[Len(h) + 1]) /\ calls # <<>>
            /\ Len(g[Len(h) + 1].calls) = Len(g) - (Len(h) + 1) + Len(calls)
            /\ \A j \in DOMAIN g[Len(h) + 1].calls : g[Len(h) + 1].calls[j] = j
          BY <1>1, <1>2, <1>3, <1>5
      <2>3. \A j \in Len(h) + 1 + 1 .. Len(g) :
                g[j].role = "tool" /\ g[j].call = j - (Len(h) + 1)
          BY <1>3
      <2>4. \A j \in DOMAIN calls : calls[j] = Len(g) - (Len(h) + 1) + j
          BY <1>1, <1>3, <1>5
      <2>5. \A i \in 1 .. (Len(h) + 1) - 1 : PairedAt(g, i)
          BY <1>3, <1>4
      <2> QED  BY <2>1, <2>2, <2>3, <2>4, <2>5 DEF Answering
  <1> QED  BY <1>1, <1>3, <1>6 DEF g, x, calls

\* Each result answers the next call, and the last one closes the batch.
LEMMA BatchAnswered ==
    ASSUME NEW h \in Seq(ConversationItem), NEW batch \in Seq(Nat), Answering(h, batch)
    PROVE  LET g == Append(h, ToolResult(Head(batch), 0))
           IN  /\ batch # <<>> /\ Tail(batch) \in Seq(Nat) /\ g \in Seq(ConversationItem)
               /\ Len(batch) = 1 => Paired(g)
               /\ Len(batch) # 1 => Answering(g, Tail(batch))
  <1> DEFINE x == ToolResult(Head(batch), 0)
             g == Append(h, x)
             L == Len(h)
  <1>1. PICK o \in DOMAIN h :
          /\ IsCalling(h[o]) /\ batch # <<>>
          /\ Len(h[o].calls) = Len(h) - o + Len(batch)
          /\ \A j \in DOMAIN h[o].calls : h[o].calls[j] = j
          /\ \A j \in o + 1 .. Len(h) : h[j].role = "tool" /\ h[j].call = j - o
          /\ \A j \in DOMAIN batch : batch[j] = Len(h) - o + j
          /\ \A i \in 1 .. o - 1 : PairedAt(h, i)
      BY DEF Answering
  <1>2. L \in Nat /\ o \in 1 .. L /\ h[o].role = "assistant" /\ h[o].calls # <<>>
      BY <1>1 DEF IsCalling
  <1>3. /\ Head(batch) \in Nat /\ Head(batch) = L - o + 1
        /\ Tail(batch) \in Seq(Nat) /\ Len(Tail(batch)) = Len(batch) - 1
        /\ \A j \in 1 .. Len(batch) - 1 : Tail(batch)[j] = batch[j + 1]
        /\ Len(batch) \in Nat \ {0} /\ DOMAIN batch = 1 .. Len(batch)
      BY <1>1, <1>2
  <1>4. /\ x \in ConversationItem /\ x.role = "tool" /\ x.call = L - o + 1
      BY <1>3 DEF ToolResult, ConversationItem
  <1> HIDE DEF x
  <1>5. /\ g \in Seq(ConversationItem) /\ Len(g) = L + 1 /\ g[L + 1] = x
        /\ DOMAIN g = 1 .. L + 1 /\ \A j \in 1 .. L : g[j] = h[j]
      BY <1>4
  <1> HIDE DEF g
  <1>6. ASSUME NEW i \in 1 .. o - 1
        PROVE  PairedAt(g, i)
      <2>1. /\ o - 1 \in 0 .. L /\ o - 1 <= Len(g) /\ i \in 1 .. o - 1
            /\ \A j \in 1 .. o - 1 : g[j] = h[j]
          BY <1>2, <1>5
      <2>2. (o - 1) + 1 = o /\ h[o].role # "tool" /\ g[o].role # "tool"
          BY <1>2, <1>5
      <2>3. PairedAt(h, i)
          BY <1>1
      <2> HIDE DEF L
      <2> QED  BY <1>5, <2>1, <2>2, <2>3, PairedPrefix DEF L
  <1>7. \A j \in o + 1 .. L + 1 : g[j].role = "tool" /\ g[j].call = j - o
      <2> SUFFICES ASSUME NEW j \in o + 1 .. L + 1
                   PROVE  g[j].role = "tool" /\ g[j].call = j - o
          OBVIOUS
      <2>1. CASE j = L + 1
          BY <1>2, <1>4, <1>5, <2>1
      <2>2. CASE j # L + 1
          <3>1. j \in o + 1 .. L /\ j \in 1 .. L
              BY <1>2, <2>2
          <3> QED  BY <1>1, <1>5, <3>1
      <2> QED  BY <2>1, <2>2
  <1>8. o \in DOMAIN g /\ g[o] = h[o]
      BY <1>2, <1>5
  <1>9. ASSUME Len(batch) # 1
        PROVE  Answering(g, Tail(batch))
      <2>1. Tail(batch) # <<>>
          <3>1. Len(Tail(batch)) # 0
              BY <1>3, <1>9
          <3> QED  BY <3>1, EmptySeq
      <2>2. Len(g[o].calls) = Len(g) - o + Len(Tail(batch))
          BY <1>1, <1>2, <1>3, <1>5, <1>8
      <2>3. \A j \in DOMAIN Tail(batch) : Tail(batch)[j] = Len(g) - o + j
          <3> SUFFICES ASSUME NEW j \in 1 .. Len(batch) - 1
                       PROVE  Tail(batch)[j] = Len(g) - o + j
              BY <1>3
          <3>1. j + 1 \in DOMAIN batch /\ Tail(batch)[j] = batch[j + 1]
              BY <1>3
          <3>2. batch[j + 1] = L - o + (j + 1)
              BY <1>1, <3>1
          <3> QED  BY <1>2, <1>5, <3>1, <3>2
      <2>4. \A j \in o + 1 .. Len(g) : g[j].role = "tool" /\ g[j].call = j - o
          BY <1>5, <1>7
      <2> QED  BY <1>1, <1>6, <1>8, <2>1, <2>2, <2>3, <2>4 DEF Answering
  <1>10. ASSUME Len(batch) = 1
         PROVE  Paired(g)
      <2> DEFINE r == L - o + 1
      <2>1. r \in 0 .. Len(g) - o /\ o + r = L + 1 /\ ~(o + r < Len(g)) /\ o \in 1 .. Len(g)
          BY <1>2, <1>5
      <2>2. ResultRun(g, o) = r
          <3> HIDE DEF r, L
          <3>1. \A j \in o + 1 .. o + r : g[j].role = "tool"
              BY <1>7, <2>1
          <3> QED  BY <1>5, <2>1, <3>1, ResultRunUnique
      <2>3. h[o].calls \in Seq(Nat) /\ Len(h[o].calls) = r
          <3>1. h[o] \in ConversationItem
              BY <1>2, ElementOfSeq
          <3> QED  BY <1>1, <1>3, <1>10, <3>1 DEF ConversationItem
      <2>4. ToSet(h[o].calls) = 1 .. r
          <3>1. DOMAIN h[o].calls = 1 .. r
              BY <2>3
          <3> QED  BY <1>1, <3>1 DEF ToSet
      <2>5. {g[j].call : j \in o + 1 .. o + r} = 1 .. r
          <3>1. \A j \in o + 1 .. o + r : g[j].call = j - o /\ j - o \in 1 .. r
              <4> HIDE DEF r, L
              <4>1. \A j \in o + 1 .. o + r : g[j].call = j - o
                  BY <1>7, <2>1
              <4>2. \A j \in o + 1 .. o + r : j - o \in 1 .. r
                  BY <1>2, <2>1
              <4> QED  BY <4>1, <4>2
          <3>2. \A k \in 1 .. r : k + o \in o + 1 .. o + r /\ g[k + o].call = k
              <4> SUFFICES ASSUME NEW k \in 1 .. r
                           PROVE  k + o \in o + 1 .. o + r /\ g[k + o].call = k
                  OBVIOUS
              <4>1. k + o \in o + 1 .. o + r /\ (k + o) - o = k
                  BY <1>2, <2>1
              <4> QED  BY <3>1, <4>1
          <3> HIDE DEF r
          <3> QED  BY <3>1, <3>2
      <2>6. PairedAt(g, o)
          BY <1>2, <1>8, <2>2, <2>3, <2>4, <2>5 DEF PairedAt
      <2>7. ASSUME NEW i \in o + 1 .. L + 1
            PROVE  PairedAt(g, i)
          <3>1. g[i].role = "tool" /\ ~IsCalling(g[i])
              BY <1>7 DEF IsCalling
          <3>2. o \in 1 .. i - 1 /\ IsCalling(g[o]) /\ o + ResultRun(g, o) >= i
              BY <1>1, <1>2, <1>8, <2>1, <2>2
          <3> QED  BY <3>1, <3>2 DEF PairedAt
      <2>8. \A i \in DOMAIN g : i \in 1 .. o - 1 \/ i = o \/ i \in o + 1 .. L + 1
          BY <1>2, <1>5
      <2> QED  BY <1>6, <2>6, <2>7, <2>8 DEF Paired
  <1> QED  BY <1>1, <1>3, <1>5, <1>9, <1>10 DEF g, x

-----------------------------------------------------------------------------
(* The goal tree.                                                          *)

\* A goal stands behind its parent.
GrowsDown(gs) == \A g \in DOMAIN gs : gs[g].parent < g

OpenBelow(gs, g) == {c \in DOMAIN gs : gs[c].parent = g /\ ~Terminal(gs[c])}

\* The recursion of collectActiveBranchLines, over the goals from n on.
IsEnds(gs, n, f) ==
    f = [g \in n .. Len(gs) |->
            IF OpenBelow(gs, g) = {} THEN {g} ELSE UNION {f[c] : c \in OpenBelow(gs, g)}]

Ends(gs) ==
    CHOOSE f : f = [g \in DOMAIN gs |->
            IF OpenBelow(gs, g) = {} THEN {g} ELSE UNION {f[c] : c \in OpenBelow(gs, g)}]

LEMMA CollectIs ==
    ASSUME NEW gs
    PROVE  CollectActiveBranchLines(gs) =
             UNION {Ends(gs)[r] : r \in {r \in DOMAIN gs : gs[r].parent = 0 /\ gs[r].blocking /\ ~Terminal(gs[r])}}
  BY DEF CollectActiveBranchLines, Ends, OpenBelow

LEMMA EndsExist ==
    ASSUME NEW gs \in Seq(Goal), GrowsDown(gs)
    PROVE  \E f : IsEnds(gs, 1, f)
  <1> DEFINE T == {n \in Nat : n <= Len(gs) + 1 /\ n >= 1 /\ \E f : IsEnds(gs, n, f)}
  <1>1. Len(gs) \in Nat /\ DOMAIN gs = 1 .. Len(gs)
      OBVIOUS
  <1>2. T # {}
      <2>1. IsEnds(gs, Len(gs) + 1, [g \in {} |-> {}])
          <3>1. Len(gs) + 1 .. Len(gs) = {}
              BY <1>1
          <3> QED  BY <3>1 DEF IsEnds
      <2>2. Len(gs) + 1 \in T
          BY <1>1, <2>1
      <2> QED  BY <2>2
  <1>3. PICK n \in T : \A m \in T : n <= m
      <2> HIDE DEF T
      <2>1. T \in SUBSET Nat
          BY DEF T
      <2> QED  BY <1>2, <2>1, LeastNatural
  <1>4. CASE n = 1
      BY <1>3, <1>4
  <1>5. CASE n # 1
      <2>1. n - 1 \in 1 .. Len(gs) /\ n \in Nat
          BY <1>1, <1>5
      <2>2. PICK f : IsEnds(gs, n, f)
          BY <1>3
      <2> DEFINE below(g) == OpenBelow(gs, g)
                 e == [g \in n - 1 .. Len(gs) |->
                          IF g \in n .. Len(gs) THEN f[g]
                          ELSE IF below(g) = {} THEN {g} ELSE UNION {f[c] : c \in below(g)}]
      <2>3. \A g \in n - 1 .. Len(gs) : below(g) \subseteq n .. Len(gs)
          <3> SUFFICES ASSUME NEW g \in n - 1 .. Len(gs), NEW c \in below(g)
                       PROVE  c \in n .. Len(gs)
              OBVIOUS
          <3>1. c \in 1 .. Len(gs) /\ gs[c].parent = g /\ gs[c].parent < c
              BY <1>1 DEF OpenBelow, GrowsDown
          <3> QED  BY <1>1, <2>1, <3>1
      <2>4. \A c \in n .. Len(gs) : e[c] = f[c]
          BY <2>1, <1>1
      <2>5. \A g \in n .. Len(gs) :
               f[g] = IF below(g) = {} THEN {g} ELSE UNION {f[c] : c \in below(g)}
          BY <2>2 DEF IsEnds
      <2> HIDE DEF below
      <2>6. \A g \in n - 1 .. Len(gs) :
               e[g] = IF below(g) = {} THEN {g} ELSE UNION {f[c] : c \in below(g)}
          BY <2>5
      <2>7. \A g \in n - 1 .. Len(gs) :
               {f[c] : c \in below(g)} = {e[c] : c \in below(g)}
          BY <2>3, <2>4
      <2>8. e = [g \in n - 1 .. Len(gs) |->
                    IF below(g) = {} THEN {g} ELSE UNION {e[c] : c \in below(g)}]
          <3>1. \A g \in n - 1 .. Len(gs) :
                   e[g] = IF below(g) = {} THEN {g} ELSE UNION {e[c] : c \in below(g)}
              <4> HIDE DEF e
              <4> QED  BY <2>6, <2>7
          <3> DEFINE F(g) == IF below(g) = {} THEN {g} ELSE UNION {e[c] : c \in below(g)}
          <3>2. \A g \in n - 1 .. Len(gs) : e[g] = F(g)
              BY <3>1
          <3>3. e = [g \in n - 1 .. Len(gs) |-> e[g]]
              OBVIOUS
          <3> HIDE DEF e, F
          <3>4. e = [g \in n - 1 .. Len(gs) |-> F(g)]
              BY <3>2, <3>3
          <3> QED  BY <3>4 DEF F
      <2>9. IsEnds(gs, n - 1, e)
          <3> HIDE DEF e
          <3> QED  BY <2>8 DEF IsEnds, below
      <2>10. n - 1 \in T
          <3> HIDE DEF e
          <3> QED  BY <1>1, <2>1, <2>9
      <2>11. n <= n - 1
          BY <1>3, <2>10
      <2> QED  BY <2>1, <2>11
  <1> QED  BY <1>4, <1>5

\* The recursion is well defined and every branch ends somewhere.
LEMMA EndsNonempty ==
    ASSUME NEW gs \in Seq(Goal), GrowsDown(gs), NEW r \in DOMAIN gs
    PROVE  Ends(gs)[r] # {}
  <1> DEFINE e == Ends(gs)
  <1>1. Len(gs) \in Nat /\ DOMAIN gs = 1 .. Len(gs)
      OBVIOUS
  <1>2. e = [g \in DOMAIN gs |->
                IF OpenBelow(gs, g) = {} THEN {g} ELSE UNION {e[c] : c \in OpenBelow(gs, g)}]
      <2>1. \E f : f = [g \in DOMAIN gs |->
                IF OpenBelow(gs, g) = {} THEN {g} ELSE UNION {f[c] : c \in OpenBelow(gs, g)}]
          <3>1. PICK f : IsEnds(gs, 1, f)
              BY EndsExist
          <3>2. f = [g \in 1 .. Len(gs) |->
                IF OpenBelow(gs, g) = {} THEN {g} ELSE UNION {f[c] : c \in OpenBelow(gs, g)}]
              BY <3>1, Zenon DEF IsEnds
          <3>3. f = [g \in DOMAIN gs |->
                IF OpenBelow(gs, g) = {} THEN {g} ELSE UNION {f[c] : c \in OpenBelow(gs, g)}]
              BY <1>1, <3>2, Zenon
          <3> QED  BY <3>3, Zenon
      <2> QED  BY <2>1, Zenon DEF Ends
  <1> HIDE DEF e
  <1>3. \A g \in DOMAIN gs :
           e[g] = IF OpenBelow(gs, g) = {} THEN {g} ELSE UNION {e[c] : c \in OpenBelow(gs, g)}
      BY <1>2
  <1> DEFINE D == {g \in DOMAIN gs : e[g] = {}}
  <1>4. ASSUME D # {}
        PROVE  FALSE
      <2>1. D \in SUBSET Int /\ \A m \in D : m <= Len(gs)
          BY <1>1
      <2>2. Max(D) \in D /\ \A m \in D : m <= Max(D)
          <3> HIDE DEF D
          <3>1. Len(gs) \in Int
              BY <1>1
          <3> QED  BY <1>4, <2>1, <3>1, GreatestBounded
      <2> DEFINE g == Max(D)
      <2>3. g \in DOMAIN gs /\ e[g] = {} /\ \A m \in DOMAIN gs : m > g => e[m] # {}
          <3>1. ASSUME NEW m \in DOMAIN gs, m > g, e[m] = {}
                PROVE  FALSE
              <4>1. m \in D
                  BY <3>1
              <4>2. m <= g /\ m \in Int /\ g \in Int
                  BY <2>1, <2>2, <4>1
              <4> HIDE DEF g
              <4> QED  BY <3>1, <4>2
          <3> QED  BY <2>2, <3>1
      <2> HIDE DEF g
      <2>4. OpenBelow(gs, g) # {}
          BY <1>3, <2>3
      <2>5. PICK c \in OpenBelow(gs, g) : TRUE
          BY <2>4
      <2>6. c \in DOMAIN gs /\ c > g
          BY <1>1, <2>3 DEF OpenBelow, GrowsDown
      <2>7. e[c] # {}
          BY <2>3, <2>6
      <2>8. e[g] = UNION {e[d] : d \in OpenBelow(gs, g)}
          BY <1>3, <2>3, <2>4
      <2> QED  BY <2>3, <2>5, <2>7, <2>8
  <1>5. e[r] # {}
      BY <1>4
  <1> QED  BY <1>5 DEF e

\* The gate is closed exactly while a blocking root goal is open.
LEMMA GateOfTree ==
    ASSUME NEW gs \in Seq(Goal), GrowsDown(gs)
    PROVE  CanFinalize(gs) <=>
             ~\E g \in DOMAIN gs : gs[g].parent = 0 /\ gs[g].blocking /\ ~Terminal(gs[g])
  <1> DEFINE roots == {r \in DOMAIN gs : gs[r].parent = 0 /\ gs[r].blocking /\ ~Terminal(gs[r])}
  <1>1. CollectActiveBranchLines(gs) = UNION {Ends(gs)[r] : r \in roots}
      BY CollectIs
  <1>2. \A r \in roots : Ends(gs)[r] # {}
      BY EndsNonempty
  <1>3. CollectActiveBranchLines(gs) = {} <=> roots = {}
      <2> HIDE DEF roots
      <2> QED  BY <1>1, <1>2
  <1> QED  BY <1>3 DEF CanFinalize

\* ReplaceAll finds no cycle in a tree whose goals stand behind their parents.
LEMMA NoCycle ==
    ASSUME NEW gs \in Seq(Goal), GrowsDown(gs), Len(gs) <= MaxGoals
    PROVE  ReplaceAllAccepts(gs)
  <1>1. Len(gs) \in Nat /\ DOMAIN gs = 1 .. Len(gs)
      OBVIOUS
  <1>2. ASSUME NEW g \in DOMAIN gs
        PROVE  gs[g].parent \in 0 .. Len(gs)
      <2>1. gs[g] \in Goal
          BY <1>1, ElementOfSeq
      <2>2. gs[g].parent \in Nat /\ gs[g].parent < g
          BY <2>1 DEF Goal, GrowsDown
      <2> QED  BY <1>1, <2>2
  <1>3. ASSUME NEW loop \in SUBSET DOMAIN gs, loop # {},
               \A g \in loop : gs[g].parent \in loop
        PROVE  FALSE
      <2>1. loop \in SUBSET Nat
          BY <1>1
      <2>2. PICK n \in loop : \A m \in loop : n <= m
          BY <1>3, <2>1, LeastNatural
      <2>3. gs[n].parent \in loop /\ gs[n].parent < n
          BY <1>3 DEF GrowsDown
      <2> QED  BY <2>1, <2>2, <2>3
  <1> QED  BY <1>2, <1>3 DEF ReplaceAllAccepts

\* Both goal_manage operations keep the tree.
GoodTree(gs) == gs \in Seq(Goal) /\ GrowsDown(gs) /\ Len(gs) <= MaxGoals

LEMMA TreeKept ==
    ASSUME NEW gs, GoodTree(gs)
    PROVE  /\ \A parent \in 0 .. Len(gs), blocking \in BOOLEAN :
                GoodTree(AddGoalWithBlocking(gs, parent, blocking))
           /\ \A g \in DOMAIN gs, status \in {"complete", "rejected"} :
                GoodTree(UpdateGoalStatus(gs, g, status))
  <1>1. gs \in Seq(Goal) /\ Len(gs) \in Nat /\ DOMAIN gs = 1 .. Len(gs) /\ MaxGoals \in Nat
      BY DelegationAssumption DEF GoodTree
  <1>2. ASSUME NEW parent \in 0 .. Len(gs), NEW blocking \in BOOLEAN
        PROVE  GoodTree(AddGoalWithBlocking(gs, parent, blocking))
      <2> DEFINE x == [parent |-> parent, blocking |-> blocking, status |-> "pending"]
                 t == Append(gs, x)
      <2>1. CASE Len(gs) >= MaxGoals
          BY <2>1 DEF AddGoalWithBlocking
      <2>2. CASE ~(Len(gs) >= MaxGoals)
          <3>1. AddGoalWithBlocking(gs, parent, blocking) = t
              BY <2>2 DEF AddGoalWithBlocking
          <3>2. x \in Goal /\ x.parent = parent
              BY <1>1 DEF Goal
          <3> HIDE DEF x
          <3>3. /\ t \in Seq(Goal) /\ Len(t) = Len(gs) + 1 /\ DOMAIN t = 1 .. Len(gs) + 1
                /\ t[Len(gs) + 1] = x /\ \A j \in 1 .. Len(gs) : t[j] = gs[j]
              BY <1>1, <3>2
          <3> HIDE DEF t
          <3>4. \A g \in DOMAIN t : t[g].parent < g
              <4> SUFFICES ASSUME NEW g \in 1 .. Len(gs) + 1  PROVE t[g].parent < g
                  BY <3>3
              <4>1. CASE g = Len(gs) + 1
                  BY <1>1, <3>2, <3>3, <4>1
              <4>2. CASE g # Len(gs) + 1
                  <5>1. g \in 1 .. Len(gs)
                      BY <1>1, <4>2
                  <5> QED  BY <1>1, <3>3, <5>1 DEF GoodTree, GrowsDown
              <4> QED  BY <4>1, <4>2
          <3> QED  BY <1>1, <2>2, <3>1, <3>3, <3>4 DEF GoodTree, GrowsDown
      <2> QED  BY <2>1, <2>2
  <1>3. ASSUME NEW g \in DOMAIN gs, NEW status \in {"complete", "rejected"}
        PROVE  GoodTree(UpdateGoalStatus(gs, g, status))
      <2> DEFINE t == [gs EXCEPT ![g].status = status]
      <2>1. gs[g] \in Goal
          BY <1>1, ElementOfSeq
      <2>2. [gs[g] EXCEPT !.status = status] \in Goal
          BY <2>1 DEF Goal
      <2>3. t \in Seq(Goal) /\ Len(t) = Len(gs) /\ DOMAIN t = DOMAIN gs
          BY <1>1, <2>2
      <2>4. \A k \in DOMAIN gs : t[k].parent = gs[k].parent
          <3>1. ASSUME NEW k \in DOMAIN gs, k # g PROVE t[k].parent = gs[k].parent
              BY <1>1, <3>1
          <3>2. t[g] = [gs[g] EXCEPT !.status = status]
              BY <1>1
          <3>3. t[g].parent = gs[g].parent
              BY <2>1, <3>2 DEF Goal
          <3> QED  BY <3>1, <3>3
      <2> HIDE DEF t
      <2>5. GoodTree(t)
          BY <2>3, <2>4 DEF GoodTree, GrowsDown
      <2> QED  BY <2>5 DEF UpdateGoalStatus, t
  <1> QED  BY <1>2, <1>3
-----------------------------------------------------------------------------
(* Working memory.                                                         *)

GoodMemory(m) == IsFiniteSet(m) /\ Cardinality(m) <= MaxEntries

\* memory_save_entry adds an entry only below the limit.
LEMMA MemoryKept ==
    ASSUME NEW m \in SUBSET Keys, GoodMemory(m), NEW key \in Keys
    PROVE  SaveEntry(m, key) \in SUBSET Keys /\ GoodMemory(SaveEntry(m, key))
  <1>1. MaxEntries \in Nat /\ IsFiniteSet(m) /\ Cardinality(m) \in Nat
      BY DelegationAssumption, FS_CardinalityType DEF GoodMemory
  <1>2. CASE Cardinality(m) >= MaxEntries /\ key \notin m
      BY <1>2 DEF SaveEntry
  <1>3. CASE key \in m
      <2>1. m \union {key} = m
          BY <1>3
      <2> QED  BY <1>3, <2>1 DEF SaveEntry
  <1>4. CASE ~(Cardinality(m) >= MaxEntries) /\ key \notin m
      <2>1. SaveEntry(m, key) = m \union {key}
          BY <1>4 DEF SaveEntry
      <2>2. IsFiniteSet(m \union {key}) /\ Cardinality(m \union {key}) = Cardinality(m) + 1
          BY <1>1, <1>4, FS_AddElement
      <2> QED  BY <1>1, <1>4, <2>1, <2>2 DEF GoodMemory
  <1> QED  BY <1>2, <1>3, <1>4

-----------------------------------------------------------------------------
(* The inductive invariant.                                                *)

\* No delegation in progress, no child run of it.
IdleHasNoRun == call.pc = "idle" => call.run = 0

(***************************************************************************)
(* The conversation of the child in progress is paired whenever it may be  *)
(* sent or kept; while its batch is answered it is paired but for the      *)
(* calls that are left.  What the registry holds is paired.                *)
(***************************************************************************)
ConversationsPaired ==
    /\ call.pc \in {"loop", "model"} => Paired(call.history)
    /\ call.pc = "tools" => Answering(call.history, call.batch)
    /\ \A a \in DOMAIN agents : Paired(agents[a])

\* The live goal tree and memory, and their snapshots, fit the loader.
StateRestorable ==
    /\ GoodTree(goals) /\ GoodTree(log.goals)
    /\ GoodMemory(memory) /\ GoodMemory(log.memory)

\* A conversation's id is the number of the child run that created it.
IdsKnown == \A k \in DOMAIN order : order[k] <= Len(rows)

DelegationInv ==
    /\ TypeOK /\ RowMatchesReport /\ IdleHasNoRun
    /\ ConversationsPaired /\ StateRestorable
    /\ RegistryConsistent /\ IdsKnown

LEMMA InvInit == Init => DelegationInv
  <1> SUFFICES ASSUME Init  PROVE DelegationInv
      OBVIOUS
  <1>1. MaxIterations \in Nat /\ MaxGoals \in Nat /\ MaxEntries \in Nat /\ MaxRetained \in Nat
      BY DelegationAssumption
  <1>2. /\ rows = <<>> /\ reports = <<>> /\ agents = <<>> /\ order = <<>> /\ call = Idle
        /\ goals = <<>> /\ memory = {} /\ log = [goals |-> <<>>, memory |-> {}]
        /\ live = TRUE /\ stale = {} /\ faults = 0 /\ stops = 0
      BY DEF Init
  <1>3. TypeOK
      <2>1. Idle \in Execution
          BY <1>1 DEF Idle, Execution
      <2>2. agents \in [DOMAIN agents -> Seq(ConversationItem)]
          BY <1>2
      <2> QED  BY <1>2, <2>1, <2>2 DEF TypeOK
  <1>4. GoodTree(<<>>)
      BY <1>1 DEF GoodTree, GrowsDown
  <1>5. GoodMemory({})
      BY <1>1, FS_EmptySet DEF GoodMemory
  <1>6. StateRestorable
      BY <1>2, <1>4, <1>5 DEF StateRestorable
  <1>7. RowMatchesReport /\ IdleHasNoRun /\ IdsKnown
      BY <1>2 DEF RowMatchesReport, IdleHasNoRun, IdsKnown, Idle
  <1>8. ConversationsPaired
      BY <1>2 DEF ConversationsPaired, Idle
  <1>9. RegistryConsistent
      BY <1>1, <1>2 DEF RegistryConsistent, Idle, ToSet, IsInjective
  <1> QED  BY <1>3, <1>6, <1>7, <1>8, <1>9 DEF DelegationInv

\* Parts of the invariant that a step does not touch.
LEMMA RowsFrame ==
    ASSUME DelegationInv, UNCHANGED <<rows, reports, stale>>, call'.run = call.run,
           call'.pc = "idle" => call.pc = "idle"
    PROVE  RowMatchesReport' /\ IdleHasNoRun'
  BY DEF DelegationInv, RowMatchesReport, IdleHasNoRun

LEMMA RegistryFrame ==
    ASSUME DelegationInv, UNCHANGED <<agents, order>>, Len(rows') = Len(rows),
           call'.pc # "idle" => call.pc # "idle" /\ call'.child = call.child
    PROVE  RegistryConsistent' /\ IdsKnown'
  BY DEF DelegationInv, RegistryConsistent, IdsKnown

\* goal_manage keeps a tree the loader accepts, persisted or not.
LEMMA InvManageSubgoals == DelegationInv /\ ManageSubgoals => DelegationInv'
  <1> SUFFICES ASSUME DelegationInv, ManageSubgoals  PROVE DelegationInv'
      OBVIOUS
  <1>1. UNCHANGED <<rows, reports, agents, order, call, memory, live, stale, stops>>
      BY DEF ManageSubgoals
  <1>2. GoodTree(goals')
      <2>1. GoodTree(goals)
          BY DEF DelegationInv, StateRestorable
      <2>2. \/ \E parent \in 0 .. Len(goals), blocking \in BOOLEAN :
                 goals' = AddGoalWithBlocking(goals, parent, blocking)
            \/ \E g \in DOMAIN goals, status \in {"complete", "rejected"} :
                 goals' = UpdateGoalStatus(goals, g, status)
          BY DEF ManageSubgoals
      <2> QED  BY <2>1, <2>2, TreeKept
  <1>3. PICK bad \in BOOLEAN : EmitGoals(bad)
      BY DEF ManageSubgoals
  <1>4. /\ log' \in [goals : Seq(Goal), memory : SUBSET Keys]
        /\ log'.memory = log.memory /\ log'.goals \in {log.goals, goals'}
      BY <1>2, <1>3 DEF EmitGoals, GoodTree, DelegationInv, TypeOK
  <1>5. TypeOK'
      <2>1. faults' \in Nat
          BY <1>3 DEF EmitGoals, Failing, DelegationInv, TypeOK
      <2>2. goals' \in Seq(Goal)
          BY <1>2 DEF GoodTree
      <2> QED  BY <1>1, <1>4, <2>1, <2>2 DEF DelegationInv, TypeOK
  <1>6. StateRestorable'
      BY <1>1, <1>2, <1>4 DEF DelegationInv, StateRestorable
  <1>7. ConversationsPaired'
      BY <1>1 DEF DelegationInv, ConversationsPaired
  <1> QED  BY <1>1, <1>5, <1>6, <1>7, RowsFrame, RegistryFrame DEF DelegationInv

LEMMA InvSaveMemory == DelegationInv /\ SaveMemory => DelegationInv'
  <1> SUFFICES ASSUME DelegationInv, SaveMemory  PROVE DelegationInv'
      OBVIOUS
  <1>1. UNCHANGED <<rows, reports, agents, order, call, goals, live, stale, stops>>
      BY DEF SaveMemory
  <1>2. PICK key \in Keys, bad \in BOOLEAN :
          /\ memory' = SaveEntry(memory, key) /\ Failing(bad)
          /\ log' = IF bad THEN log ELSE [log EXCEPT !.memory = memory']
      BY DEF SaveMemory
  <1>3. memory' \in SUBSET Keys /\ GoodMemory(memory')
      <2>1. memory \in SUBSET Keys /\ GoodMemory(memory)
          BY DEF DelegationInv, StateRestorable, TypeOK
      <2> QED  BY <1>2, <2>1, MemoryKept
  <1>4. /\ log' \in [goals : Seq(Goal), memory : SUBSET Keys]
        /\ log'.goals = log.goals /\ log'.memory \in {log.memory, memory'}
      BY <1>2, <1>3 DEF DelegationInv, TypeOK
  <1>5. TypeOK'
      BY <1>1, <1>2, <1>3, <1>4 DEF Failing, DelegationInv, TypeOK
  <1>6. StateRestorable'
      BY <1>1, <1>3, <1>4 DEF DelegationInv, StateRestorable
  <1>7. ConversationsPaired'
      BY <1>1 DEF DelegationInv, ConversationsPaired
  <1> QED  BY <1>1, <1>5, <1>6, <1>7, RowsFrame, RegistryFrame DEF DelegationInv
\* A child run starts; its conversation is paired with the instruction behind it.
LEMMA Seeded ==
    ASSUME NEW prior \in Seq(ConversationItem), Paired(prior), NEW n \in Nat
    PROVE  Append(prior, User(n)) \in Seq(ConversationItem) /\ Paired(Append(prior, User(n)))
  <1>1. User(n) \in ConversationItem /\ User(n).role # "tool" /\ ~IsCalling(User(n))
      BY DEF User, ConversationItem, IsCalling
  <1> QED  BY <1>1, PairedAppend

\* evictLocked: what is kept of the order is its newest ids, behind them the new
\* one, and the map holds exactly those.
LEMMA RegistryCreate ==
    ASSUME DelegationInv, Create(Len(rows) + 1)
    PROVE  /\ order' \in Seq(Nat) /\ agents' \in [DOMAIN agents' -> Seq(ConversationItem)]
           /\ DOMAIN agents' = ToSet(order') /\ IsInjective(order')
           /\ Len(order') <= MaxRetained /\ Len(rows) + 1 \in DOMAIN agents'
           /\ \A k \in DOMAIN order' : order'[k] <= Len(rows) + 1
           /\ \A a \in DOMAIN agents' : Paired(agents'[a])
  <1> DEFINE id == Len(rows) + 1
             o == Append(order, id)
             m == Max({1, Len(o) - MaxRetained + 1})
  <1>1. /\ MaxRetained \in Nat \ {0} /\ id \in Nat /\ Len(rows) \in Nat
        /\ order \in Seq(Nat) /\ Len(order) \in Nat
        /\ agents \in [DOMAIN agents -> Seq(ConversationItem)]
      BY DelegationAssumption DEF DelegationInv, TypeOK
  <1>2. /\ \A k \in 1 .. Len(order) : order[k] \in Nat /\ order[k] <= Len(rows)
        /\ \A j, k \in 1 .. Len(order) : order[j] = order[k] => j = k
      <2>1. DOMAIN order = 1 .. Len(order)
          BY <1>1
      <2> QED  BY <1>1, <2>1 DEF DelegationInv, IdsKnown, RegistryConsistent, IsInjective
  <1>3. /\ o \in Seq(Nat) /\ Len(o) = Len(order) + 1 /\ o[Len(o)] = id
        /\ \A k \in 1 .. Len(order) : o[k] = order[k]
      BY <1>1
  <1>4. \A j, k \in 1 .. Len(o) : o[j] = o[k] => j = k
      <2> HIDE DEF o
      <2>1. \A k \in 1 .. Len(o) : k \in 1 .. Len(order) \/ k = Len(o)
          BY <1>1, <1>3
      <2>2. \A k \in 1 .. Len(order) : o[k] # id
          BY <1>1, <1>2, <1>3
      <2> QED  BY <1>2, <1>3, <2>1, <2>2
  <1>5. \A k \in 1 .. Len(o) : o[k] <= id /\ o[k] \in Nat
      <2> HIDE DEF o
      <2>1. \A k \in 1 .. Len(o) : k \in 1 .. Len(order) \/ k = Len(o)
          BY <1>1, <1>3
      <2> SUFFICES ASSUME NEW k \in 1 .. Len(o)  PROVE o[k] <= id /\ o[k] \in Nat
          OBVIOUS
      <2>2. CASE k = Len(o)
          BY <1>1, <1>3, <2>2
      <2>3. CASE k \in 1 .. Len(order)
          <3>1. o[k] \in Nat /\ o[k] <= Len(rows)
              BY <1>2, <1>3, <2>3
          <3> QED  BY <1>1, <3>1
      <2> QED  BY <2>1, <2>2, <2>3
  <1>6. m \in 1 .. Len(o) /\ m >= Len(o) - MaxRetained + 1
      <2> DEFINE T == {1, Len(o) - MaxRetained + 1}
      <2> HIDE DEF o
      <2>1. T \in SUBSET Int /\ T # {} /\ \A k \in T : k <= Len(o)
          BY <1>1, <1>3
      <2>2. Len(o) \in Int
          BY <1>1, <1>3
      <2>3. Max(T) \in T /\ \A k \in T : k <= Max(T)
          <3> HIDE DEF T
          <3> QED  BY <2>1, <2>2, GreatestBounded
      <2>4. m = Max(T)
          OBVIOUS
      <2> HIDE DEF m
      <2> QED  BY <1>1, <1>3, <2>1, <2>3, <2>4
  <1> HIDE DEF o, m
  <1>7. /\ order' = SubSeq(o, m, Len(o))
        /\ agents' = [a \in ToSet(order') |-> IF a \in DOMAIN agents THEN agents[a] ELSE <<>>]
      BY DEF Create, Evict, o, m
  <1>8. /\ order' \in Seq(Nat) /\ Len(order') = Len(o) - m + 1
        /\ DOMAIN order' = 1 .. Len(order')
        /\ \A k \in 1 .. Len(order') : m + k - 1 \in 1 .. Len(o) /\ order'[k] = o[m + k - 1]
      <2>1. Len(o) \in Nat
          BY <1>1, <1>3
      <2> QED  BY <1>3, <1>6, <1>7, <2>1
  <1>9. Len(order') <= MaxRetained /\ Len(order') \in Nat \ {0}
      BY <1>1, <1>3, <1>6, <1>8
  <1>10. IsInjective(order')
      <2> SUFFICES ASSUME NEW j \in 1 .. Len(order'), NEW k \in 1 .. Len(order'),
                          order'[j] = order'[k]
                   PROVE  j = k
          BY <1>8 DEF IsInjective
      <2>1. o[m + j - 1] = o[m + k - 1] /\ m + j - 1 \in 1 .. Len(o) /\ m + k - 1 \in 1 .. Len(o)
          BY <1>8
      <2>2. m + j - 1 = m + k - 1
          BY <1>4, <2>1
      <2> QED  BY <1>6, <2>2
  <1>11. \A k \in DOMAIN order' : order'[k] <= id
      BY <1>5, <1>8
  <1>12. DOMAIN agents' = ToSet(order')
      BY <1>7
  <1>13. id \in ToSet(order')
      <2>1. Len(order') \in DOMAIN order' /\ m + Len(order') - 1 = Len(o)
          BY <1>3, <1>6, <1>8, <1>9
      <2>2. order'[Len(order')] = id
          BY <1>3, <1>8, <2>1
      <2> QED  BY <2>1, <2>2 DEF ToSet
  <1>14. \A a \in DOMAIN agents' : agents'[a] \in Seq(ConversationItem) /\ Paired(agents'[a])
      <2> SUFFICES ASSUME NEW a \in ToSet(order')
                   PROVE  agents'[a] \in Seq(ConversationItem) /\ Paired(agents'[a])
          BY <1>12
      <2>1. CASE a \in DOMAIN agents
          <3>1. agents'[a] = agents[a]
              BY <1>7, <2>1
          <3> QED  BY <1>1, <2>1, <3>1 DEF DelegationInv, ConversationsPaired
      <2>2. CASE a \notin DOMAIN agents
          <3>1. agents'[a] = <<>>
              BY <1>7, <2>2
          <3>2. <<>> \in Seq(ConversationItem) /\ Paired(<<>>)
              BY DEF Paired
          <3> QED  BY <3>1, <3>2
      <2> QED  BY <2>1, <2>2
  <1>15. agents' \in [DOMAIN agents' -> Seq(ConversationItem)]
      BY <1>7, <1>12, <1>14
  <1> QED  BY <1>8, <1>9, <1>10, <1>11, <1>12, <1>13, <1>14, <1>15
LEMMA InvDelegateTask == DelegationInv /\ DelegateTask => DelegationInv'
  <1> SUFFICES ASSUME DelegationInv, DelegateTask  PROVE DelegationInv'
      OBVIOUS
  <1> DEFINE n == Len(rows) + 1
  <1>1. /\ UNCHANGED <<goals, memory, log, live, stale, faults, stops>>
        /\ rows' = Append(rows, "running") /\ reports' = Append(reports, NoReport)
        /\ call.pc = "idle"
      BY DEF DelegateTask, StartChildRun
  <1>2. /\ rows \in Seq(Statuses) /\ reports \in Seq(Report) /\ Len(reports) = Len(rows)
        /\ Len(rows) \in Nat /\ n \in Nat \ {0} /\ MaxIterations \in Nat
      BY DelegationAssumption DEF DelegationInv, TypeOK
  <1>3. /\ rows' \in Seq(Statuses) /\ reports' \in Seq(Report) /\ Len(rows') = n
        /\ Len(reports') = n /\ DOMAIN rows' = 1 .. n /\ DOMAIN rows = 1 .. Len(rows)
        /\ reports'[n] = NoReport
        /\ \A r \in 1 .. Len(rows) : rows'[r] = rows[r] /\ reports'[r] = reports[r]
      <2>1. "running" \in Statuses /\ NoReport \in Report
          BY DEF Statuses, Report, NoReport
      <2> QED  BY <1>1, <1>2, <2>1
  <1>4. PICK child \in Nat, prior \in Seq(ConversationItem) :
          /\ SeedConversation(child, prior) /\ Paired(prior)
          /\ \/ child = n /\ Create(n)
             \/ child \in DOMAIN agents /\ UNCHANGED <<agents, order>>
      <2>1. CASE SeedConversation(n, <<>>) /\ Create(n)
          <3>1. <<>> \in Seq(ConversationItem) /\ Paired(<<>>)
              BY DEF Paired
          <3> QED  BY <1>2, <2>1, <3>1
      <2>2. CASE \E id \in Told \intersect DOMAIN agents :
                   SeedConversation(id, agents[id]) /\ UNCHANGED <<agents, order>>
          <3>1. PICK id \in Told \intersect DOMAIN agents :
                   SeedConversation(id, agents[id]) /\ UNCHANGED <<agents, order>>
              BY <2>2
          <3>2. PICK r \in DOMAIN reports : id = reports[r].child
              BY DEF Told
          <3>3. reports[r] \in Report
              BY <1>2, <3>2, ElementOfSeq
          <3>4. id \in Nat
              BY <3>2, <3>3 DEF Report
          <3>5. agents[id] \in Seq(ConversationItem) /\ Paired(agents[id])
              BY DEF DelegationInv, TypeOK, ConversationsPaired
          <3> QED  BY <3>1, <3>4, <3>5
      <2> QED  BY <2>1, <2>2 DEF DelegateTask
  <1> DEFINE h == Append(prior, User(n))
  <1>5. h \in Seq(ConversationItem) /\ Paired(h)
      <2>1. n \in Nat /\ Paired(prior)
          BY <1>2, <1>4
      <2> HIDE DEF n
      <2> QED  BY <2>1, Seeded
  <1>6. call' = [Idle EXCEPT !.pc = "loop", !.run = n, !.child = child, !.history = h]
      BY <1>4 DEF SeedConversation
  <1> HIDE DEF h
  <1>7. /\ call' \in Execution /\ call'.pc = "loop" /\ call'.run = n
        /\ call'.child = child /\ call'.history = h
      <2>1. call' = [pc |-> "loop", run |-> n, child |-> child, history |-> h,
                     iteration |-> 0, batch |-> <<>>]
          <3> HIDE DEF n
          <3> QED  BY <1>6 DEF Idle
      <2>2. n \in Nat /\ 0 \in 0 .. MaxIterations /\ <<>> \in Seq(Nat)
          BY <1>2
      <2> HIDE DEF n
      <2> QED  BY <1>5, <2>1, <2>2 DEF Execution
  <1>8. /\ order' \in Seq(Nat) /\ agents' \in [DOMAIN agents' -> Seq(ConversationItem)]
        /\ DOMAIN agents' = ToSet(order') /\ IsInjective(order')
        /\ Len(order') <= MaxRetained /\ child \in DOMAIN agents'
        /\ \A k \in DOMAIN order' : order'[k] <= n
        /\ \A a \in DOMAIN agents' : Paired(agents'[a])
      <2>1. CASE child = n /\ Create(n)
          BY <2>1, RegistryCreate
      <2>2. CASE child \in DOMAIN agents /\ UNCHANGED <<agents, order>>
          <3>1. \A k \in DOMAIN order : order[k] \in Nat /\ order[k] <= Len(rows)
              BY DEF DelegationInv, IdsKnown, TypeOK
          <3>2. \A k \in DOMAIN order : order[k] <= n
              BY <1>2, <3>1
          <3> QED  BY <2>2, <3>2
               DEF DelegationInv, RegistryConsistent, ConversationsPaired, TypeOK
      <2> QED  BY <1>4, <2>1, <2>2
  <1>9. TypeOK'
      BY <1>1, <1>3, <1>7, <1>8 DEF DelegationInv, TypeOK
  <1>10. RowMatchesReport'
      <2> SUFFICES ASSUME NEW r \in 1 .. n
                   PROVE  /\ reports'[r].status # "none" => rows'[r] = reports'[r].status
                          /\ rows'[r] = "running" =>
                               call'.run = r \/ reports'[r].errors \/ r \in stale'
          BY <1>3 DEF RowMatchesReport
      <2>1. CASE r = n
          BY <1>3, <1>7, <2>1 DEF NoReport
      <2>2. CASE r \in 1 .. Len(rows)
          <3>1. call.run = 0 /\ r # 0
              BY <1>1, <1>2 DEF DelegationInv, IdleHasNoRun
          <3> QED  BY <1>1, <1>3, <2>2, <3>1 DEF DelegationInv, RowMatchesReport
      <2> QED  BY <1>2, <2>1, <2>2
  <1>11. IdleHasNoRun' /\ ConversationsPaired'
      BY <1>5, <1>7, <1>8 DEF IdleHasNoRun, ConversationsPaired
  <1>12. StateRestorable'
      BY <1>1 DEF DelegationInv, StateRestorable
  <1>13. RegistryConsistent' /\ IdsKnown'
      BY <1>3, <1>7, <1>8 DEF RegistryConsistent, IdsKnown
  <1> QED  BY <1>9, <1>10, <1>11, <1>12, <1>13 DEF DelegationInv

\* A write to one place of a sequence.
LEMMA Rewritten ==
    ASSUME NEW S, NEW s \in Seq(S), NEW i, NEW x \in S
    PROVE  [s EXCEPT ![i] = x] \in Seq(S) /\ Len([s EXCEPT ![i] = x]) = Len(s)
  <1>1. CASE i \in 1 .. Len(s)
      BY <1>1
  <1>2. CASE i \notin 1 .. Len(s)
      <2>1. s = [k \in 1 .. Len(s) |-> s[k]] /\ DOMAIN s = 1 .. Len(s)
          OBVIOUS
      <2>2. [s EXCEPT ![i] = x] = s
          BY <1>2, <2>1
      <2> QED  BY <2>2
  <1> QED  BY <1>1, <1>2

\* The end of a delegation, whatever the repository did with its status.
LEMMA InvReturn ==
    ASSUME DelegationInv, NEW status \in {"completed", "failed", "cancelled"},
           NEW h \in Seq(ConversationItem), Paired(h), Return(status, h)
    PROVE  DelegationInv'
  <1>1. PICK bad \in {"no", "lost", "unread"} : Failing(bad # "no") /\ Persist(status, bad)
      BY DEF Return
  <1>2. /\ UNCHANGED <<order, goals, memory, log, live, stale, stops>>
        /\ call' = Idle /\ Save(call.child, h)
      BY DEF Return
  <1>3. /\ rows \in Seq(Statuses) /\ reports \in Seq(Report) /\ Len(reports) = Len(rows)
        /\ call.child \in Nat /\ MaxIterations \in Nat /\ Len(rows) \in Nat
        /\ DOMAIN rows = 1 .. Len(rows) /\ DOMAIN reports = 1 .. Len(rows)
      BY DelegationAssumption DEF DelegationInv, TypeOK, Execution
  <1> DEFINE facts == StatusFacts(status, bad)
  <1>4. /\ facts \in Report
        /\ bad = "no" => facts.status = status
        /\ bad # "no" => facts.status = "none" /\ facts.errors
      BY <1>3 DEF StatusFacts, Report, NoReport
  <1> HIDE DEF facts
  <1>5. /\ reports' = [reports EXCEPT ![call.run] = facts]
        /\ rows' = IF bad = "lost" THEN rows ELSE [rows EXCEPT ![call.run] = status]
      BY <1>1 DEF Persist, UpdateChildRunStatus, facts
  <1>6. status \in Statuses /\ status # "running"
      BY DEF Statuses
  <1>7. /\ rows' \in Seq(Statuses) /\ Len(rows') = Len(rows) /\ DOMAIN rows' = DOMAIN rows
        /\ reports' \in Seq(Report) /\ Len(reports') = Len(reports)
      <2>1. [rows EXCEPT ![call.run] = status] \in Seq(Statuses)
            /\ Len([rows EXCEPT ![call.run] = status]) = Len(rows)
          BY <1>3, <1>6, Rewritten
      <2>2. reports' \in Seq(Report) /\ Len(reports') = Len(reports)
          BY <1>3, <1>4, <1>5, Rewritten
      <2> QED  BY <1>3, <1>5, <2>1, <2>2
  <1>8. /\ agents' \in [DOMAIN agents' -> Seq(ConversationItem)]
        /\ DOMAIN agents' = DOMAIN agents
        /\ \A a \in DOMAIN agents' : Paired(agents'[a])
      <2>1. /\ agents \in [DOMAIN agents -> Seq(ConversationItem)]
            /\ \A a \in DOMAIN agents : Paired(agents[a])
          BY DEF DelegationInv, TypeOK, ConversationsPaired
      <2>2. agents' = IF call.child \in DOMAIN agents THEN [agents EXCEPT ![call.child] = h]
                      ELSE agents
          BY <1>2 DEF Save
      <2> QED  BY <2>1, <2>2
  <1>9. Idle \in Execution /\ Idle.pc = "idle" /\ Idle.run = 0
      BY <1>3 DEF Idle, Execution
  <1>10. TypeOK'
      <2>1. faults' \in Nat
          BY <1>1 DEF Failing, DelegationInv, TypeOK
      <2> QED  BY <1>2, <1>7, <1>8, <1>9, <2>1, <1>3 DEF DelegationInv, TypeOK
  <1>11. RowMatchesReport'
      <2> SUFFICES ASSUME NEW r \in DOMAIN rows
                   PROVE  /\ reports'[r].status # "none" => rows'[r] = reports'[r].status
                          /\ rows'[r] = "running" =>
                               call'.run = r \/ reports'[r].errors \/ r \in stale'
          BY <1>7 DEF RowMatchesReport
      <2>1. /\ reports[r].status # "none" => rows[r] = reports[r].status
            /\ rows[r] = "running" => call.run = r \/ reports[r].errors \/ r \in stale
          BY DEF DelegationInv, RowMatchesReport
      <2>2. CASE r = call.run
          <3>1. reports'[r] = facts /\ rows'[r] = IF bad = "lost" THEN rows[r] ELSE status
              BY <1>3, <1>5, <2>2
          <3> QED  BY <1>4, <1>6, <3>1
      <2>3. CASE r # call.run
          <3>1. reports'[r] = reports[r] /\ rows'[r] = rows[r]
              BY <1>3, <1>5, <2>3
          <3> QED  BY <1>2, <2>1, <2>3, <3>1
      <2> QED  BY <2>2, <2>3
  <1>12. IdleHasNoRun' /\ ConversationsPaired'
      BY <1>2, <1>8, <1>9 DEF IdleHasNoRun, ConversationsPaired
  <1>13. StateRestorable'
      BY <1>2 DEF DelegationInv, StateRestorable
  <1>14. RegistryConsistent' /\ IdsKnown'
      BY <1>2, <1>7, <1>8, <1>9 DEF DelegationInv, RegistryConsistent, IdsKnown
  <1> QED  BY <1>10, <1>11, <1>12, <1>13, <1>14 DEF DelegationInv
\* A step of a child that keeps running: it changes the delegation in progress
\* and nothing else.
LEMMA InvBusy ==
    ASSUME DelegationInv, Busy, call' \in Execution, call'.run = call.run,
           call'.child = call.child, call'.pc # "idle", call.pc # "idle",
           call'.pc \in {"loop", "model"} => Paired(call'.history),
           call'.pc = "tools" => Answering(call'.history, call'.batch)
    PROVE  DelegationInv'
  <1>1. UNCHANGED <<rows, reports, agents, order, goals, memory, log, live, stale,
                    faults, stops>>
      BY DEF Busy
  <1>2. TypeOK'
      BY <1>1 DEF DelegationInv, TypeOK
  <1>3. ConversationsPaired'
      BY <1>1 DEF DelegationInv, ConversationsPaired
  <1>4. StateRestorable'
      BY <1>1 DEF DelegationInv, StateRestorable
  <1> QED  BY <1>1, <1>2, <1>3, <1>4, RowsFrame, RegistryFrame DEF DelegationInv

LEMMA InvLoopHead == DelegationInv /\ LoopHead => DelegationInv'
  <1> SUFFICES ASSUME DelegationInv, LoopHead  PROVE DelegationInv'
      OBVIOUS
  <1>1. /\ call \in Execution /\ call.pc = "loop" /\ call.history \in Seq(ConversationItem)
        /\ Paired(call.history) /\ MaxIterations \in Nat
      BY DelegationAssumption
      DEF LoopHead, DelegationInv, TypeOK, ConversationsPaired, Execution
  <1>2. CASE Return("failed", call.history) \/ Return("cancelled", call.history)
      BY <1>1, <1>2, InvReturn
  <1>3. CASE /\ call.iteration < MaxIterations
             /\ call' = [call EXCEPT !.pc = "model", !.iteration = @ + 1]
             /\ UNCHANGED <<rows, reports, agents, order, goals, memory, log,
                            live, stale, faults, stops>>
      <2>1. Busy
          BY <1>3 DEF Busy
      <2>2. /\ call' \in Execution /\ call'.pc = "model" /\ call'.run = call.run
            /\ call'.child = call.child /\ call'.history = call.history
          <3>1. call.iteration + 1 \in 0 .. MaxIterations
              BY <1>1, <1>3 DEF Execution
          <3>2. call' = [call EXCEPT !.pc = "model", !.iteration = call.iteration + 1]
              BY <1>3
          <3> DEFINE i == call.iteration + 1
          <3> HIDE DEF i
          <3> QED  BY <1>1, <3>1, <3>2 DEF Execution, i
      <2> QED  BY <1>1, <2>1, <2>2, InvBusy
  <1> QED  BY <1>2, <1>3 DEF LoopHead

LEMMA InvModelAnswers == DelegationInv /\ ModelAnswers => DelegationInv'
  <1> SUFFICES ASSUME DelegationInv, ModelAnswers  PROVE DelegationInv'
      OBVIOUS
  <1>1. /\ call \in Execution /\ call.pc = "model" /\ call.history \in Seq(ConversationItem)
        /\ Paired(call.history) /\ MaxIterations \in Nat /\ call.iteration \in Nat
        /\ MaxBatch \in Nat \ {0}
      <2>1. call \in Execution /\ call.pc = "model" /\ MaxIterations \in Nat
            /\ MaxBatch \in Nat \ {0}
          BY DelegationAssumption DEF ModelAnswers, DelegationInv, TypeOK
      <2>2. Paired(call.history)
          BY <2>1 DEF DelegationInv, ConversationsPaired
      <2> QED  BY <2>1, <2>2 DEF Execution
  <1>2. CASE Return("failed", call.history)
      BY <1>1, <1>2, InvReturn
  <1>3. ASSUME NEW pressure \in BOOLEAN, NEW h,
               h = CompactWorkerBundle(call.history, pressure),
               \/ Return("completed", Append(h, Assistant(call.iteration, <<>>)))
               \/ call' = [call EXCEPT !.pc = "loop", !.history = h] /\ Busy
               \/ \E k \in 1 .. MaxBatch :
                    /\ call' = [call EXCEPT !.pc = "tools", !.batch = [j \in 1 .. k |-> j],
                                  !.history = Append(h, Assistant(0, [j \in 1 .. k |-> j]))]
                    /\ Busy
        PROVE  DelegationInv'
      <2>1. h \in Seq(ConversationItem) /\ Paired(h)
          BY <1>1, <1>3, CompactedPaired
      <2>2. CASE Return("completed", Append(h, Assistant(call.iteration, <<>>)))
          <3> DEFINE x == Assistant(call.iteration, <<>>)
          <3>1. x \in ConversationItem /\ x.role # "tool" /\ ~IsCalling(x)
              BY <1>1 DEF Assistant, ConversationItem, IsCalling
          <3> HIDE DEF x
          <3>2. Append(h, x) \in Seq(ConversationItem) /\ Paired(Append(h, x))
              BY <2>1, <3>1, PairedAppend
          <3>3. Return("completed", Append(h, x))
              BY <2>2 DEF x
          <3> QED  BY <3>2, <3>3, InvReturn
      <2>3. CASE call' = [call EXCEPT !.pc = "loop", !.history = h] /\ Busy
          <3>1. /\ call' \in Execution /\ call'.pc = "loop" /\ call'.run = call.run
                /\ call'.child = call.child /\ call'.history = h
              BY <1>1, <2>1, <2>3 DEF Execution
          <3> QED  BY <1>1, <2>1, <2>3, <3>1, InvBusy
      <2>4. ASSUME NEW k \in 1 .. MaxBatch, Busy,
                   call' = [call EXCEPT !.pc = "tools", !.batch = [j \in 1 .. k |-> j],
                              !.history = Append(h, Assistant(0, [j \in 1 .. k |-> j]))]
            PROVE  DelegationInv'
          <3> DEFINE calls == [j \in 1 .. k |-> j]
                     g == Append(h, Assistant(0, calls))
          <3>1. k \in Nat \ {0}
              BY <1>1
          <3>2. calls \in Seq(Nat) /\ g \in Seq(ConversationItem) /\ Answering(g, calls)
              BY <2>1, <3>1, BatchOpens
          <3>3. call' = [call EXCEPT !.pc = "tools", !.batch = calls, !.history = g]
              BY <2>4
          <3> HIDE DEF g, calls
          <3>4. /\ call' \in Execution /\ call'.pc = "tools" /\ call'.run = call.run
                /\ call'.child = call.child /\ call'.history = g /\ call'.batch = calls
              BY <1>1, <3>2, <3>3 DEF Execution
          <3> QED  BY <1>1, <2>4, <3>2, <3>4, InvBusy
      <2> QED  BY <1>3, <2>2, <2>3, <2>4
  <1> QED  BY <1>2, <1>3 DEF ModelAnswers

\* A result answers the next call of the batch; its tool may save an entry.
LEMMA InvToolCall == DelegationInv /\ ToolCall => DelegationInv'
  <1> SUFFICES ASSUME DelegationInv, ToolCall  PROVE DelegationInv'
      OBVIOUS
  <1> DEFINE g == Append(call.history, ToolResult(Head(call.batch), 0))
  <1>1. UNCHANGED <<rows, reports, agents, order, goals, log, live, stale, faults, stops>>
      BY DEF ToolCall
  <1>2. /\ call \in Execution /\ call.pc = "tools" /\ call.history \in Seq(ConversationItem)
        /\ call.batch \in Seq(Nat) /\ Answering(call.history, call.batch)
      BY DEF ToolCall, DelegationInv, TypeOK, ConversationsPaired, Execution
  <1>3. /\ Tail(call.batch) \in Seq(Nat) /\ g \in Seq(ConversationItem)
        /\ Len(call.batch) = 1 => Paired(g)
        /\ Len(call.batch) # 1 => Answering(g, Tail(call.batch))
      BY <1>2, BatchAnswered
  <1>4. call' = [call EXCEPT !.batch = Tail(call.batch),
                   !.pc = IF Len(call.batch) = 1 THEN "loop" ELSE "tools", !.history = g]
      BY <1>2 DEF ToolCall, Execution
  <1> HIDE DEF g
  <1>5. /\ call' \in Execution /\ call'.run = call.run /\ call'.child = call.child
        /\ call'.history = g /\ call'.batch = Tail(call.batch)
        /\ call'.pc = IF Len(call.batch) = 1 THEN "loop" ELSE "tools"
      BY <1>2, <1>3, <1>4 DEF Execution
  <1>6. memory' \in SUBSET Keys /\ GoodMemory(memory')
      <2>1. memory \in SUBSET Keys /\ GoodMemory(memory)
          BY DEF DelegationInv, StateRestorable, TypeOK
      <2>2. UNCHANGED memory \/ \E key \in Keys : memory' = SaveEntry(memory, key)
          BY DEF ToolCall
      <2> QED  BY <2>1, <2>2, MemoryKept
  <1>7. TypeOK'
      BY <1>1, <1>5, <1>6 DEF DelegationInv, TypeOK
  <1>8. ConversationsPaired'
      BY <1>1, <1>3, <1>5 DEF DelegationInv, ConversationsPaired
  <1>9. StateRestorable'
      BY <1>1, <1>6 DEF DelegationInv, StateRestorable
  <1>10. RowMatchesReport' /\ IdleHasNoRun'
      BY <1>1, <1>5, RowsFrame
  <1>11. RegistryConsistent' /\ IdsKnown'
      BY <1>1, <1>2, <1>5, RegistryFrame
  <1> QED  BY <1>7, <1>8, <1>9, <1>10, <1>11 DEF DelegationInv

\* The session leaves memory: a delegation in progress leaves a stale row.
LEMMA InvStop == DelegationInv /\ Stop => DelegationInv'
  <1> SUFFICES ASSUME DelegationInv, Stop  PROVE DelegationInv'
      OBVIOUS
  <1>1. /\ stops' = stops + 1 /\ live' = FALSE /\ call' = Idle
        /\ agents' = <<>> /\ order' = <<>> /\ goals' = <<>> /\ memory' = {}
        /\ stale' = stale \union {r \in DOMAIN rows : r = call.run}
        /\ UNCHANGED <<rows, reports, log, faults>>
      BY DEF Stop
  <1>2. /\ MaxIterations \in Nat /\ MaxGoals \in Nat /\ MaxEntries \in Nat
        /\ MaxRetained \in Nat
      BY DelegationAssumption
  <1>3. Idle \in Execution /\ Idle.pc = "idle" /\ Idle.run = 0
      BY <1>2 DEF Idle, Execution
  <1>4. TypeOK'
      <2>1. stale' \subseteq Nat /\ stops' \in Nat
          BY <1>1 DEF DelegationInv, TypeOK
      <2>2. agents' \in [DOMAIN agents' -> Seq(ConversationItem)]
          BY <1>1
      <2>3. order' \in Seq(Nat) /\ goals' \in Seq(Goal) /\ memory' \in SUBSET Keys
          BY <1>1
      <2>4. live' \in BOOLEAN /\ call' \in Execution
          BY <1>1, <1>3, Zenon
      <2> QED  BY <1>1, <2>1, <2>2, <2>3, <2>4 DEF DelegationInv, TypeOK
  <1>5. RowMatchesReport'
      BY <1>1 DEF DelegationInv, RowMatchesReport
  <1>6. IdleHasNoRun' /\ ConversationsPaired'
      BY <1>1, <1>3 DEF IdleHasNoRun, ConversationsPaired
  <1>7. StateRestorable'
      <2>1. GoodTree(<<>>)
          BY <1>2 DEF GoodTree, GrowsDown
      <2>2. GoodMemory({})
          BY <1>2, FS_EmptySet DEF GoodMemory
      <2> QED  BY <1>1, <2>1, <2>2 DEF DelegationInv, StateRestorable
  <1>8. RegistryConsistent' /\ IdsKnown'
      BY <1>1, <1>2, <1>3 DEF RegistryConsistent, IdsKnown, ToSet, IsInjective
  <1> QED  BY <1>4, <1>5, <1>6, <1>7, <1>8 DEF DelegationInv

\* Recovery rewrites only rows that say "running", and nothing was told of those.
LEMMA InvRecover == DelegationInv /\ RecoverStaleRunTree => DelegationInv'
  <1> SUFFICES ASSUME DelegationInv, RecoverStaleRunTree  PROVE DelegationInv'
      OBVIOUS
  <1>1. /\ rows' = [r \in DOMAIN rows |-> IF rows[r] = "running" THEN "failed" ELSE rows[r]]
        /\ stale' = {}
        /\ UNCHANGED <<reports, agents, order, call, goals, memory, log, live, faults, stops>>
      BY DEF RecoverStaleRunTree
  <1>2. /\ rows \in Seq(Statuses) /\ reports \in Seq(Report) /\ Len(reports) = Len(rows)
        /\ Len(rows) \in Nat
      BY DEF DelegationInv, TypeOK
  <1>3. rows' \in Seq(Statuses) /\ Len(rows') = Len(rows) /\ DOMAIN rows' = DOMAIN rows
      BY <1>1, <1>2 DEF Statuses
  <1>4. TypeOK'
      BY <1>1, <1>3 DEF DelegationInv, TypeOK
  <1>5. RowMatchesReport'
      <2> SUFFICES ASSUME NEW r \in DOMAIN rows
                   PROVE  /\ reports[r].status # "none" => rows'[r] = reports[r].status
                          /\ rows'[r] # "running"
          BY <1>1, <1>3 DEF RowMatchesReport
      <2>1. reports[r].status # "running"
          <3>1. r \in 1 .. Len(reports)
              BY <1>2
          <3>2. reports[r] \in Report
              BY <1>2, <3>1, ElementOfSeq
          <3> QED  BY <3>2 DEF Report
      <2>2. reports[r].status # "none" => rows[r] = reports[r].status
          BY DEF DelegationInv, RowMatchesReport
      <2> QED  BY <1>1, <2>1, <2>2
  <1>6. IdleHasNoRun' /\ ConversationsPaired' /\ StateRestorable'
      BY <1>1 DEF DelegationInv, IdleHasNoRun, ConversationsPaired, StateRestorable
  <1>7. RegistryConsistent' /\ IdsKnown'
      BY <1>1, <1>3, RegistryFrame
  <1> QED  BY <1>4, <1>5, <1>6, <1>7 DEF DelegationInv

LEMMA InvHydrate == DelegationInv /\ Hydrate => DelegationInv'
  <1> SUFFICES ASSUME DelegationInv, Hydrate  PROVE DelegationInv'
      OBVIOUS
  <1>1. /\ live' = TRUE /\ goals' = log.goals /\ memory' = log.memory
        /\ UNCHANGED <<rows, reports, agents, order, call, log, stale, faults, stops>>
      BY DEF Hydrate, LoadRuntimeStateEntries
  <1>2. TypeOK'
      BY <1>1 DEF DelegationInv, TypeOK
  <1>3. StateRestorable'
      BY <1>1 DEF DelegationInv, StateRestorable
  <1>4. ConversationsPaired'
      BY <1>1 DEF DelegationInv, ConversationsPaired
  <1> QED  BY <1>1, <1>2, <1>3, <1>4, RowsFrame, RegistryFrame DEF DelegationInv

-----------------------------------------------------------------------------
(***************************************************************************)
(* The invariant holds in every behaviour: a delegation's row and report,  *)
(* the conversations, the registry, the goal tree and working memory stay  *)
(* in step, whatever fails and whenever the process stops.                 *)
(***************************************************************************)
THEOREM DelegationInvariant == Spec => []DelegationInv
  <1>1. DelegationInv /\ [Next]_vars => DelegationInv'
      <2>1. DelegationInv /\ UNCHANGED vars => DelegationInv'
          BY DEF vars, DelegationInv, TypeOK, RowMatchesReport, IdleHasNoRun,
                 ConversationsPaired, StateRestorable, RegistryConsistent, IdsKnown
      <2> QED  BY <2>1, InvManageSubgoals, InvSaveMemory, InvDelegateTask, InvLoopHead,
                  InvModelAnswers, InvToolCall, InvStop, InvRecover, InvHydrate DEF Next
  <1> QED  BY <1>1, InvInit, PTL DEF Spec

\* What the parent was told is what the row says, and no row stays "running"
\* without a report of errors or a recovery to come (worker.go, runtime_events.go).
THEOREM RowsMatchReports == Spec => []RowMatchesReport
  BY DelegationInvariant, PTL DEF DelegationInv

\* No request of a child, and no conversation kept for a follow-up, separates a
\* call from its results, whatever compactWorkerBundle cut off.
THEOREM ChildrenStayPaired == Spec => []ChildConversationPaired
  <1>1. DelegationInv => ChildConversationPaired
      BY DEF DelegationInv, ConversationsPaired, ChildConversationPaired
  <1> QED  BY <1>1, DelegationInvariant, PTL

\* The map and the order of the child registry name the same conversations,
\* within the bound, and the conversation being driven is not evicted.
THEOREM RegistryStaysConsistent == Spec => []RegistryConsistent
  BY DelegationInvariant, PTL DEF DelegationInv

\* CanFinalize answers yes exactly when no blocking root goal is open: every
\* active branch that collectActiveBranchLines follows ends at some goal.
THEOREM FinalizeGateIsExact == Spec => []FinalizeGate
  <1>1. DelegationInv => FinalizeGate
      <2> SUFFICES ASSUME DelegationInv  PROVE FinalizeGate
          OBVIOUS
      <2>1. goals \in Seq(Goal) /\ GrowsDown(goals)
          BY DEF DelegationInv, StateRestorable, GoodTree
      <2> QED  BY <2>1, GateOfTree DEF FinalizeGate
  <1> QED  BY <1>1, DelegationInvariant, PTL

\* The loader accepts whatever the session persisted: the goal snapshot has no
\* cycle and no unknown parent, and neither snapshot exceeds its limit.
THEOREM RestoreIsAccepted == Spec => []RestoreAccepted
  <1>1. DelegationInv => RestoreAccepted
      <2> SUFFICES ASSUME DelegationInv  PROVE RestoreAccepted
          OBVIOUS
      <2>1. GoodTree(log.goals) /\ GoodMemory(log.memory)
          BY DEF DelegationInv, StateRestorable
      <2>2. ReplaceAllAccepts(log.goals)
          BY <2>1, NoCycle DEF GoodTree
      <2> QED  BY <2>1, <2>2 DEF RestoreAccepted, ReplaceEntriesAccepts, GoodMemory
  <1> QED  BY <1>1, DelegationInvariant, PTL
=============================================================================
