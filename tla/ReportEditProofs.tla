--------------------------- MODULE ReportEditProofs ---------------------------
(***************************************************************************)
(* Proofs about ReportEdit, for any blocks, charts, drafts, contexts and   *)
(* earlier reports, and any number of runs, edits and faults: a finalized  *)
(* report is sound, it is delivered, and an edit scope holds.              *)
(*                                                                         *)
(* The invariant has four parts.  Whatever is kept of a report (the live   *)
(* one, the scope's base, snapshots and rows) is a report whose blocks     *)
(* have names of their own and which was finalized soundly, because a load *)
(* or a restart may bring any of them back.  A run that is not over has no *)
(* row, so that a delivery never replaces what an earlier one delivered.   *)
(* What is kept and reads finalized was delivered.  And the scope is the   *)
(* one captured from the base: no call of the run has changed it.          *)
(***************************************************************************)
EXTENDS ReportEdit, SequenceTheorems, FiniteSetTheorems, TLAPS

Good(r) == IsReport(r) /\ DistinctBlocks(r.blocks) /\ Sound(r)

\* Every report that is kept can be brought back.
ReportsGood ==
    /\ Good(report) /\ Good(base) /\ Good(latest)
    /\ \A i \in 0..MaxRuns : \A r \in snapshot[i] \cup rows[i] : Good(r)

\* Where a run is, and that no row exists of a run that is not over.
RunShape ==
    /\ run \in [phase : {"idle", "running", "waiting"}, id : 0..MaxRuns]
    /\ step \in {"free", "edited", "finalized"}
    /\ DOMAIN snapshot = 0..MaxRuns /\ DOMAIN rows = 0..MaxRuns
    /\ edits \in 0..MaxEdits /\ faults \in 0..MaxFaults
    /\ step # "free" => run.phase = "running"
    /\ \A i \in 0..MaxRuns : i > run.id \/ (i = run.id /\ run.phase # "idle") => rows[i] = {}

\* What reads finalized was delivered, the reports a load may bring back included.
Settled(r) == IsFinalized(r) /\ ~r.dropped => Delivered(r)
DeliveryInv ==
    /\ step # "finalized" => Settled(report)
    /\ Settled(latest)
    /\ \A i \in 0..MaxRuns : \A r \in snapshot[i] : Settled(r)

\* The scope is the captured one, and a selection's target is still there.
ScopeCaptured ==
    /\ edit.context \in Contexts \cup {Unscoped}
    /\ edit = ConfigureEditState(edit.context, base.blocks)
TargetStays ==
    edit.context.scope = "partial_selection" /\ FindBlock(base.blocks, edit.context.block) # {}
        => FindBlock(report.blocks, edit.context.block) # {}

ReportInv ==
    /\ ReportsGood /\ RunShape /\ DeliveryInv
    /\ ScopeCaptured /\ TargetStays /\ ScopeHolds

-----------------------------------------------------------------------------
(* Sequences of blocks *)

\* Inserting shifts what lies behind the place by one.
LEMMA InsertAtFacts ==
    ASSUME NEW S, NEW s \in Seq(S), NEW i \in 1 .. Len(s) + 1, NEW e \in S
    PROVE  /\ InsertAt(s, i, e) \in Seq(S)
           /\ Len(InsertAt(s, i, e)) = Len(s) + 1
           /\ InsertAt(s, i, e)[i] = e
           /\ \A k \in 1 .. i - 1 : InsertAt(s, i, e)[k] = s[k]
           /\ \A k \in i .. Len(s) : InsertAt(s, i, e)[k + 1] = s[k]
  <1> DEFINE before == SubSeq(s, 1, i - 1)
             after == SubSeq(s, i, Len(s))
             front == before \o <<e>>
  <1>1. Len(s) \in Nat /\ \A k \in 1 .. Len(s) : s[k] \in S
      BY ElementOfSeq
  <1>2. before \in Seq(S) /\ Len(before) = i - 1 /\ \A k \in 1 .. i - 1 : before[k] = s[k]
      <2>1. \A k \in 1 .. i - 1 : s[k] \in S
        BY <1>1
      <2>2. /\ before \in Seq(S) /\ Len(before) = IF 1 <= i - 1 THEN i - 1 - 1 + 1 ELSE 0
            /\ \A k \in 1 .. i - 1 - 1 + 1 : before[k] = s[1 + k - 1]
        BY <1>1, <2>1, SubSeqProperties
      <2> HIDE DEF before
      <2> QED  BY <1>1, <2>2
  <1>3. after \in Seq(S) /\ Len(after) = Len(s) - i + 1
        /\ \A k \in 1 .. Len(s) - i + 1 : after[k] = s[i + k - 1]
      <2>1. \A k \in i .. Len(s) : s[k] \in S
        BY <1>1
      <2>2. /\ after \in Seq(S) /\ Len(after) = IF i <= Len(s) THEN Len(s) - i + 1 ELSE 0
            /\ \A k \in 1 .. Len(s) - i + 1 : after[k] = s[i + k - 1]
        BY <1>1, <2>1, SubSeqProperties
      <2> HIDE DEF after
      <2> QED  BY <1>1, <2>2
  <1>4. <<e>> \in Seq(S) /\ Len(<<e>>) = 1 /\ <<e>>[1] = e
      OBVIOUS
  <1> HIDE DEF before, after
  <1>5. front \in Seq(S) /\ Len(front) = i
        /\ \A k \in 1 .. i : front[k] = IF k < i THEN s[k] ELSE e
      <2>1. /\ front \in Seq(S) /\ Len(front) = Len(before) + Len(<<e>>)
            /\ \A k \in 1 .. Len(before) + Len(<<e>>) : front[k] =
                   IF k <= Len(before) THEN before[k] ELSE <<e>>[k - Len(before)]
        BY <1>2, <1>4, ConcatProperties
      <2> HIDE DEF front
      <2>2. front \in Seq(S) /\ Len(front) = i
        BY <1>2, <1>4, <2>1
      <2>3. ASSUME NEW k \in 1 .. i PROVE front[k] = IF k < i THEN s[k] ELSE e
        <3>1. front[k] = IF k <= i - 1 THEN before[k] ELSE <<e>>[k - (i - 1)]
          <4>1. k \in 1 .. Len(before) + Len(<<e>>) /\ Len(before) = i - 1
            BY <1>2, <1>4
          <4> QED  BY <2>1, <4>1
        <3>2. CASE k < i
          BY <1>2, <3>1, <3>2
        <3>3. CASE k = i
          <4>1. k - (i - 1) = 1
            BY <3>3
          <4> QED  BY <1>4, <3>1, <3>3, <4>1
        <3> QED  BY <3>2, <3>3
      <2> QED  BY <2>2, <2>3
  <1> HIDE DEF front
  <1>6. /\ front \o after \in Seq(S) /\ Len(front \o after) = Len(front) + Len(after)
        /\ \A k \in 1 .. Len(front) + Len(after) : (front \o after)[k] =
               IF k <= Len(front) THEN front[k] ELSE after[k - Len(front)]
      BY <1>3, <1>5, ConcatProperties
  <1>7. InsertAt(s, i, e) = front \o after
      BY DEF InsertAt, front, before, after
  <1>8. ASSUME NEW k \in 1 .. Len(s) + 1
        PROVE  (front \o after)[k] = IF k < i THEN s[k] ELSE IF k = i THEN e ELSE s[k - 1]
      <2>0. k \in Int /\ i \in Int
        BY <1>1
      <2>1. (front \o after)[k] = IF k <= i THEN front[k] ELSE after[k - i]
        BY <1>1, <1>3, <1>5, <1>6
      <2>2. CASE k <= i
        BY <1>5, <2>1, <2>2
      <2>3. CASE k > i
        <3>1. k - i \in 1 .. Len(s) - i + 1 /\ i + (k - i) - 1 = k - 1
          BY <1>1, <2>3
        <3>2. after[k - i] = s[k - 1]
          BY <1>3, <3>1
        <3> QED  BY <2>1, <2>3, <3>2
      <2>4. k <= i \/ k > i
        BY <2>0
      <2> QED  BY <2>2, <2>3, <2>4, Zenon
  <1>9. Len(front) + Len(after) = Len(s) + 1
      BY <1>1, <1>3, <1>5
  <1> DEFINE whole == front \o after
  <1>10. /\ InsertAt(s, i, e) = whole /\ whole \in Seq(S) /\ Len(whole) = Len(s) + 1
         /\ \A k \in 1 .. Len(s) + 1 :
                whole[k] = IF k < i THEN s[k] ELSE IF k = i THEN e ELSE s[k - 1]
      BY <1>6, <1>7, <1>8, <1>9
  <1> HIDE DEF whole
  <1>11. whole[i] = e
      BY <1>1, <1>10
  <1>12. \A k \in 1 .. i - 1 : whole[k] = s[k]
      BY <1>1, <1>10
  <1>13. ASSUME NEW k \in i .. Len(s) PROVE whole[k + 1] = s[k]
      <2>1. k + 1 \in 1 .. Len(s) + 1 /\ k + 1 > i /\ (k + 1) - 1 = k
        BY <1>1
      <2> QED  BY <1>1, <1>10, <2>1
  <1> QED  BY <1>10, <1>11, <1>12, <1>13

\* Removing closes the gap.
LEMMA RemoveAtFacts ==
    ASSUME NEW S, NEW s \in Seq(S), NEW i \in 1 .. Len(s)
    PROVE  /\ RemoveAt(s, i) \in Seq(S)
           /\ Len(RemoveAt(s, i)) = Len(s) - 1
           /\ \A k \in 1 .. Len(s) - 1 : RemoveAt(s, i)[k] = IF k < i THEN s[k] ELSE s[k + 1]
  <1> DEFINE before == SubSeq(s, 1, i - 1)
             after == SubSeq(s, i + 1, Len(s))
  <1>1. Len(s) \in Nat /\ \A k \in 1 .. Len(s) : s[k] \in S
      BY ElementOfSeq
  <1>2. before \in Seq(S) /\ Len(before) = i - 1 /\ \A k \in 1 .. i - 1 : before[k] = s[k]
      <2>1. \A k \in 1 .. i - 1 : s[k] \in S
        BY <1>1
      <2>2. /\ before \in Seq(S) /\ Len(before) = IF 1 <= i - 1 THEN i - 1 - 1 + 1 ELSE 0
            /\ \A k \in 1 .. i - 1 - 1 + 1 : before[k] = s[1 + k - 1]
        BY <1>1, <2>1, SubSeqProperties
      <2> HIDE DEF before
      <2> QED  BY <1>1, <2>2
  <1>3. after \in Seq(S) /\ Len(after) = Len(s) - i
        /\ \A k \in 1 .. Len(s) - i : after[k] = s[i + k]
      <2>1. \A k \in i + 1 .. Len(s) : s[k] \in S
        BY <1>1
      <2>2. /\ after \in Seq(S)
            /\ Len(after) = IF i + 1 <= Len(s) THEN Len(s) - (i + 1) + 1 ELSE 0
            /\ \A k \in 1 .. Len(s) - (i + 1) + 1 : after[k] = s[(i + 1) + k - 1]
        BY <1>1, <2>1, SubSeqProperties
      <2> HIDE DEF after
      <2> QED  BY <1>1, <2>2
  <1> HIDE DEF before, after
  <1>4. /\ before \o after \in Seq(S) /\ Len(before \o after) = Len(before) + Len(after)
        /\ \A k \in 1 .. Len(before) + Len(after) : (before \o after)[k] =
               IF k <= Len(before) THEN before[k] ELSE after[k - Len(before)]
      BY <1>2, <1>3, ConcatProperties
  <1>5. RemoveAt(s, i) = before \o after
      BY DEF RemoveAt, before, after
  <1>6. ASSUME NEW k \in 1 .. Len(s) - 1
        PROVE  (before \o after)[k] = IF k < i THEN s[k] ELSE s[k + 1]
      <2>0. k \in Int /\ i \in Int
        BY <1>1
      <2>1. (before \o after)[k] = IF k <= i - 1 THEN before[k] ELSE after[k - (i - 1)]
        BY <1>1, <1>2, <1>3, <1>4
      <2>2. CASE k < i
        BY <1>2, <2>1, <2>2
      <2>3. CASE k >= i
        <3>1. k - (i - 1) \in 1 .. Len(s) - i /\ i + (k - (i - 1)) = k + 1
          BY <1>1, <2>3
        <3>2. after[k - (i - 1)] = s[k + 1]
          BY <1>3, <3>1
        <3> QED  BY <2>1, <2>3, <3>2
      <2>4. k < i \/ k >= i
        BY <2>0
      <2> QED  BY <2>2, <2>3, <2>4, Zenon
  <1>7. Len(before) + Len(after) = Len(s) - 1
      BY <1>1, <1>2, <1>3
  <1> HIDE DEF before
  <1> QED  BY <1>4, <1>5, <1>6, <1>7

\* Taking out a block leaves the others, each under a name of its own.
LEMMA WithoutFacts ==
    ASSUME NEW blocks \in Seq(ReportBlock), DistinctBlocks(blocks), NEW id
    PROVE  /\ Without(blocks, id) \in Seq(ReportBlock)
           /\ DistinctBlocks(Without(blocks, id))
           /\ FindBlock(Without(blocks, id), id) = {}
           /\ \A i \in FindBlock(blocks, id) :
                  i \in 1 .. Len(blocks) /\ Len(Without(blocks, id)) = Len(blocks) - 1
  <1>1. Len(blocks) \in Nat /\ DOMAIN blocks = 1 .. Len(blocks)
      BY LenProperties
  <1>2. CASE FindBlock(blocks, id) = {}
      BY <1>2 DEF Without
  <1>3. CASE FindBlock(blocks, id) # {}
      <2>1. PICK i \in FindBlock(blocks, id) : TRUE
        BY <1>3
      <2>2. i \in 1 .. Len(blocks) /\ blocks[i].id = id /\ i \in Int
        BY <1>1, <2>1 DEF FindBlock
      <2>3. \A j \in 1 .. Len(blocks) : blocks[j].id = id => j = i
        BY <1>1, <2>2 DEF DistinctBlocks
      <2>4. FindBlock(blocks, id) = {i}
        BY <1>1, <2>2, <2>3 DEF FindBlock
      <2>5. Min({i}) = i
        BY <2>2 DEF Min
      <2>6. Without(blocks, id) = RemoveAt(blocks, i)
        BY <1>3, <2>4, <2>5 DEF Without
      <2> DEFINE w == RemoveAt(blocks, i)
      <2>7. /\ w \in Seq(ReportBlock) /\ Len(w) = Len(blocks) - 1
            /\ \A k \in 1 .. Len(blocks) - 1 : w[k] = IF k < i THEN blocks[k] ELSE blocks[k + 1]
        BY <2>2, RemoveAtFacts
      <2>8. DOMAIN w = 1 .. Len(blocks) - 1
        BY <2>7, LenProperties
      <2> HIDE DEF w
      <2>9. DistinctBlocks(w)
        <3> SUFFICES ASSUME NEW k \in 1 .. Len(blocks) - 1, NEW l \in 1 .. Len(blocks) - 1,
                            w[k].id = w[l].id
                     PROVE  k = l
          BY <2>8 DEF DistinctBlocks
        <3> DEFINE old(n) == IF n < i THEN n ELSE n + 1
        <3>1. old(k) \in 1 .. Len(blocks) /\ old(l) \in 1 .. Len(blocks)
          BY <1>1, <2>2
        <3>2. w[k] = blocks[old(k)] /\ w[l] = blocks[old(l)]
          BY <2>7
        <3>3. old(k) = old(l)
          <4> HIDE DEF old
          <4> QED  BY <1>1, <3>1, <3>2 DEF DistinctBlocks
        <3> QED  BY <1>1, <2>2, <3>3
      <2>10. FindBlock(w, id) = {}
        <3> SUFFICES ASSUME NEW k \in 1 .. Len(blocks) - 1, w[k].id = id PROVE FALSE
          BY <2>8 DEF FindBlock
        <3> DEFINE old == IF k < i THEN k ELSE k + 1
        <3>1. old \in 1 .. Len(blocks) /\ old # i
          BY <1>1, <2>2
        <3>2. w[k] = blocks[old]
          BY <2>7
        <3> HIDE DEF old
        <3> QED  BY <2>3, <3>1, <3>2
      <2>11. w = Without(blocks, id)
        BY <2>6 DEF w
      <2> QED  BY <2>2, <2>4, <2>7, <2>9, <2>10, <2>11
  <1> QED  BY <1>2, <1>3

\* Putting in a block that is not there is undone by taking it out.
LEMMA InsertFacts ==
    ASSUME NEW blocks \in Seq(ReportBlock), DistinctBlocks(blocks),
           NEW b \in ReportBlock, FindBlock(blocks, b.id) = {}, NEW i \in 1 .. Len(blocks) + 1
    PROVE  /\ InsertAt(blocks, i, b) \in Seq(ReportBlock)
           /\ DistinctBlocks(InsertAt(blocks, i, b))
           /\ FindBlock(InsertAt(blocks, i, b), b.id) = {i}
           /\ InsertAt(blocks, i, b)[i] = b
           /\ Without(InsertAt(blocks, i, b), b.id) = blocks
           /\ InsertAt(blocks, i, b) # <<>>
  <1> DEFINE n == InsertAt(blocks, i, b)
             old(k) == IF k < i THEN k ELSE k - 1
  <1> HIDE DEF n, old
  <1>1. Len(blocks) \in Nat /\ DOMAIN blocks = 1 .. Len(blocks) /\ i \in Int
      BY LenProperties
  <1>2. /\ n \in Seq(ReportBlock) /\ Len(n) = Len(blocks) + 1
        /\ \A k \in 1 .. Len(blocks) + 1 :
               n[k] = IF k < i THEN blocks[k] ELSE IF k = i THEN b ELSE blocks[k - 1]
      <2>1. n = InsertAt(blocks, i, b)
        BY DEF n
      <2>2. n \in Seq(ReportBlock)
        BY <2>1, InsertAtFacts
      <2>3. Len(n) = Len(blocks) + 1
        BY <2>1, InsertAtFacts
      <2>4. n[i] = b
        BY <2>1, InsertAtFacts
      <2>5. \A k \in 1 .. i - 1 : n[k] = blocks[k]
        BY <2>1, InsertAtFacts
      <2>6. ASSUME NEW k \in i + 1 .. Len(blocks) + 1 PROVE n[k] = blocks[k - 1]
        <3>1. \A l \in i .. Len(blocks) : n[l + 1] = blocks[l]
          BY <2>1, InsertAtFacts
        <3>2. k - 1 \in i .. Len(blocks) /\ (k - 1) + 1 = k
          BY <1>1
        <3> QED  BY <3>1, <3>2
      <2> QED  BY <1>1, <2>2, <2>3, <2>4, <2>5, <2>6
  <1> USE DEF old
  <1>3. DOMAIN n = 1 .. Len(blocks) + 1
      BY <1>2, LenProperties
  <1>4. n[i] = b
      BY <1>1, <1>2
  <1>5. ASSUME NEW k \in 1 .. Len(blocks) + 1, k # i
        PROVE  old(k) \in 1 .. Len(blocks) /\ n[k] = blocks[old(k)]
      <2>1. old(k) \in 1 .. Len(blocks)
        BY <1>1, <1>5
      <2>2. n[k] = blocks[old(k)]
        BY <1>1, <1>2, <1>5
      <2> QED  BY <2>1, <2>2
  <1>6. \A k \in 1 .. Len(blocks) : blocks[k].id # b.id
      BY <1>1 DEF FindBlock
  <1>7. \A k \in 1 .. Len(blocks) + 1 : k # i => n[k].id # b.id
      <2> HIDE DEF old
      <2> QED  BY <1>5, <1>6
  <1>8. FindBlock(n, b.id) = {i}
      BY <1>3, <1>4, <1>7 DEF FindBlock
  <1>9. DistinctBlocks(n)
      <2> SUFFICES ASSUME NEW k \in 1 .. Len(blocks) + 1, NEW l \in 1 .. Len(blocks) + 1,
                          n[k].id = n[l].id
                   PROVE  k = l
        BY <1>3 DEF DistinctBlocks
      <2>1. CASE k = i \/ l = i
        BY <1>4, <1>7, <2>1
      <2>2. CASE k # i /\ l # i
        <3>1. old(k) = old(l)
          <4> HIDE DEF old
          <4> QED  BY <1>1, <1>5, <2>2 DEF DistinctBlocks
        <3> QED  BY <1>1, <2>2, <3>1
      <2> QED  BY <2>1, <2>2
  <1>10. Without(n, b.id) = RemoveAt(n, i)
      <2>1. Min({i}) = i
        BY <1>1 DEF Min
      <2> QED  BY <1>8, <2>1 DEF Without
  <1>11. RemoveAt(n, i) = blocks
      <2>1. i \in 1 .. Len(n)
        BY <1>1, <1>2
      <2>2. /\ RemoveAt(n, i) \in Seq(ReportBlock) /\ Len(RemoveAt(n, i)) = Len(n) - 1
            /\ \A k \in 1 .. Len(n) - 1 : RemoveAt(n, i)[k] = IF k < i THEN n[k] ELSE n[k + 1]
        BY <1>2, <2>1, RemoveAtFacts
      <2>3. Len(RemoveAt(n, i)) = Len(blocks)
        BY <1>1, <1>2, <2>2
      <2>4. ASSUME NEW k \in 1 .. Len(blocks) PROVE RemoveAt(n, i)[k] = blocks[k]
        <3>1. RemoveAt(n, i)[k] = IF k < i THEN n[k] ELSE n[k + 1]
          BY <1>1, <1>2, <2>2
        <3>2. CASE k < i
          BY <1>1, <1>2, <3>1, <3>2
        <3>3. CASE k >= i
          <4>1. k + 1 \in 1 .. Len(blocks) + 1 /\ k + 1 > i /\ (k + 1) - 1 = k
            BY <1>1, <3>3
          <4>2. n[k + 1] = blocks[k]
            BY <1>1, <1>2, <4>1
          <4> QED  BY <1>1, <3>1, <3>3, <4>2
        <3> QED  BY <1>1, <3>2, <3>3
      <2> QED  BY <2>2, <2>3, <2>4, SeqEqual
  <1>12. n # <<>>
      BY <1>1, <1>2
  <1> QED  BY <1>2, <1>4, <1>8, <1>9, <1>10, <1>11, <1>12 DEF n

-----------------------------------------------------------------------------
(* Reports *)

\* A load replaces every field, so it brings the saved report back as it was.
LEMMA LoadIsSaved ==
    ASSUME NEW current, NEW saved, IsReport(current), IsReport(saved)
    PROVE  LoadReportSnapshot(current, saved) = saved
  BY DEF IsReport, ReportState, LoadReportSnapshot

\* The report of a new session.
LEMMA BlankFacts == Good(Blank) /\ ~IsFinalized(Blank)
  <1>1. Blank.charts \in [{} -> ReportChart] /\ DOMAIN Blank.charts = {}
      BY DEF Blank
  <1>2. Blank.blocks = <<>> /\ <<>> \in Seq(ReportBlock) /\ DOMAIN <<>> = {}
      BY DEF Blank
  <1>4. IsReport(Blank)
      BY <1>1, <1>2 DEF IsReport, ReportState, Blank
  <1>5. ~IsFinalized(Blank)
      BY <1>1, <1>2 DEF IsFinalized, HasContent
  <1>6. DistinctBlocks(Blank.blocks)
      BY <1>2 DEF DistinctBlocks
  <1> QED  BY <1>4, <1>5, <1>6 DEF Good, Sound

\* A change of the report makes it a draft.
LEMMA EditedBlocks ==
    ASSUME NEW r, IsReport(r), NEW blocks \in Seq(ReportBlock), DistinctBlocks(blocks)
    PROVE  LET n == [Edited(r) EXCEPT !.blocks = blocks]
           IN  /\ Good(n) /\ ~IsFinalized(n)
               /\ n.blocks = blocks /\ n.charts = r.charts /\ n.layout = r.layout
  BY DEF IsReport, ReportState, Edited, Good, Sound, IsFinalized

\* A chart that is written leaves every other chart as it was.
LEMMA EditedCharts ==
    ASSUME NEW r, IsReport(r), DistinctBlocks(r.blocks),
           NEW c \in ChartIds, NEW d \in ReportChart
    PROVE  LET charts == [x \in DOMAIN r.charts \cup {c} |-> IF x = c THEN d ELSE r.charts[x]]
               n == [Edited(r) EXCEPT !.charts = charts]
           IN  /\ Good(n) /\ ~IsFinalized(n)
               /\ n.blocks = r.blocks /\ n.layout = r.layout
               /\ \A x \in ChartIds \ {c} : ChartsIn(n, x) = ChartsIn(r, x)
  <1> DEFINE charts == [x \in DOMAIN r.charts \cup {c} |-> IF x = c THEN d ELSE r.charts[x]]
             n == [Edited(r) EXCEPT !.charts = charts]
  <1>1. charts \in [DOMAIN r.charts \cup {c} -> ReportChart]
        /\ DOMAIN charts = DOMAIN r.charts \cup {c}
        /\ \A x \in DOMAIN r.charts \ {c} : charts[x] = r.charts[x]
      BY DEF IsReport, ReportState
  <1> HIDE DEF charts
  <1>2. /\ n.charts = charts /\ n.blocks = r.blocks /\ n.layout = r.layout /\ n.needsFinalize
        /\ n \in ReportState(DOMAIN charts)
      BY <1>1 DEF IsReport, ReportState, Edited
  <1> HIDE DEF n
  <1>3. IsReport(n) /\ ~IsFinalized(n)
      BY <1>1, <1>2 DEF IsReport, IsFinalized
  <1>4. \A x \in ChartIds \ {c} : ChartsIn(n, x) = ChartsIn(r, x)
      BY <1>1, <1>2 DEF ChartsIn
  <1> QED  BY <1>2, <1>3, <1>4 DEF Good, Sound, n, charts

\* A layout that is set touches neither blocks nor charts.
LEMMA EditedLayout ==
    ASSUME NEW r, IsReport(r), DistinctBlocks(r.blocks), NEW l \in Layouts \cup {Plain}
    PROVE  LET n == [Edited(r) EXCEPT !.layout = l]
           IN  Good(n) /\ ~IsFinalized(n) /\ n.blocks = r.blocks /\ n.charts = r.charts
  BY DEF IsReport, ReportState, Edited, Good, Sound, IsFinalized

\* What finalization looks at: blocks, charts and the ledger, which only grows.
LEMMA IssuesMonotone ==
    ASSUME NEW r, NEW n, n.blocks = r.blocks, n.charts = r.charts, r.results \subseteq n.results,
           ReportFinalizeIssues(r) = {}
    PROVE  ReportFinalizeIssues(n) = {}
  <1>1. \A c : Showing(n, c) = Showing(r, c)
      BY DEF Showing
  <1>2. UnknownEvidence(n) \subseteq UnknownEvidence(r)
      BY DEF UnknownEvidence
  <1> DEFINE blocksOf(x) == IF x.blocks = <<>> THEN {<<"no_blocks">>} ELSE {}
             missing(x) == {<<"missing_chart", c>> :
                            c \in {c \in ChartIds \ DOMAIN x.charts : Showing(x, c) # {}}}
             doubled(x) == {<<"duplicate_chart", c>> :
                            c \in {c \in ChartIds : Cardinality(Showing(x, c)) > 1}}
             unknown(x) == {<<"unknown_evidence", e>> : e \in UnknownEvidence(x)}
  <1>3. \A x : ReportFinalizeIssues(x) = blocksOf(x) \cup missing(x) \cup doubled(x) \cup unknown(x)
      BY DEF ReportFinalizeIssues
  <1>4. blocksOf(n) = blocksOf(r)
      OBVIOUS
  <1>5. missing(n) = missing(r) /\ doubled(n) = doubled(r)
      BY <1>1
  <1>6. unknown(n) \subseteq unknown(r)
      BY <1>2
  <1> HIDE DEF blocksOf, missing, doubled, unknown
  <1> QED  BY <1>3, <1>4, <1>5, <1>6

\* The places an upsert or a move may choose.
LEMMA IndexesFit ==
    ASSUME NEW blocks \in Seq(ReportBlock), NEW before, NEW after
    PROVE  InsertIndexes(blocks, before, after) \subseteq 1 .. Len(blocks) + 1
  <1>1. Len(blocks) \in Nat /\ DOMAIN blocks = 1 .. Len(blocks)
      BY LenProperties
  <1>2. \A id : FindBlock(blocks, id) \subseteq 1 .. Len(blocks)
      BY <1>1 DEF FindBlock
  <1> QED  BY <1>1, <1>2 DEF InsertIndexes

-----------------------------------------------------------------------------
(* What the actions do to the report *)

\* A tool call that changed the report.
DraftStep ==
    /\ Tool /\ UNCHANGED edit
    /\ Good(report') /\ ~IsFinalized(report')

\* An upsert changes the block it names and leaves the rest in order.
LEMMA UpsertEffect ==
    ASSUME ReportsGood, NEW action, NEW id \in BlockIds, NEW d \in Drafts, NEW before, NEW after,
           UpsertBlock(action, id, d, before, after)
    PROVE  /\ DraftStep
           /\ report'.charts = report.charts /\ report'.layout = report.layout
           /\ Without(report'.blocks, id) = Without(report.blocks, id)
           /\ \E i \in DOMAIN report'.blocks :
                  FindBlock(report'.blocks, id) = {i} /\ report'.blocks[i] = BlockOf(id, d)
  <1> DEFINE w == Without(report.blocks, id)
             b == BlockOf(id, d)
  <1>1. IsReport(report) /\ report.blocks \in Seq(ReportBlock) /\ DistinctBlocks(report.blocks)
      BY DEF ReportsGood, Good, IsReport, ReportState
  <1>2. /\ w \in Seq(ReportBlock) /\ DistinctBlocks(w) /\ FindBlock(w, id) = {}
        /\ \A i \in FindBlock(report.blocks, id) :
               i \in 1 .. Len(report.blocks) /\ Len(w) = Len(report.blocks) - 1
      BY <1>1, WithoutFacts
  <1>3. Len(w) \in Nat /\ Len(report.blocks) \in Nat
      BY <1>1, <1>2, LenProperties
  <1>4. b \in ReportBlock /\ b.id = id
      <2>1. d \in BlockDraft /\ WellFormed(d)
        BY ArgumentsTyped DEF UpsertBlock, UpsertAllowed
      <2>2. d.kind \in {"text", "chart"}
        BY <2>1 DEF WellFormed
      <2> QED  BY <2>1, <2>2, NamesAreStrings DEF BlockDraft, ReportBlock, BlockOf
  <1> HIDE DEF w, b
  <1>5. PICK i \in UpsertIndexes(id, before, after) :
            report' = [Edited(report) EXCEPT !.blocks = InsertAt(Without(@, id), i, b)]
      BY DEF UpsertBlock, b
  <1>6. i \in 1 .. Len(w) + 1
      <2>1. CASE i \in FindBlock(report.blocks, id)
        BY <1>2, <1>3, <2>1
      <2>2. CASE i \in InsertIndexes(w, before, after)
        BY <1>2, <2>2, IndexesFit
      <2> QED  BY <2>1, <2>2 DEF UpsertIndexes, w
  <1> DEFINE n == InsertAt(w, i, b)
  <1>7. /\ n \in Seq(ReportBlock) /\ DistinctBlocks(n) /\ FindBlock(n, b.id) = {i}
        /\ n[i] = b /\ Without(n, b.id) = w
      BY <1>2, <1>4, <1>6, InsertFacts
  <1> HIDE DEF n
  <1>8. report' = [Edited(report) EXCEPT !.blocks = n]
      <2>1. Edited(report).blocks = report.blocks
        BY <1>1 DEF Edited, IsReport, ReportState
      <2> QED  BY <1>1, <1>5, <2>1 DEF n, w, Edited, IsReport, ReportState
  <1>9. /\ Good(report') /\ ~IsFinalized(report')
        /\ report'.blocks = n /\ report'.charts = report.charts /\ report'.layout = report.layout
      BY <1>1, <1>7, <1>8, EditedBlocks
  <1>10. i \in DOMAIN n
      BY <1>7 DEF FindBlock
  <1>11. Tool /\ UNCHANGED edit
      BY DEF UpsertBlock
  <1> QED  BY <1>4, <1>7, <1>9, <1>10, <1>11 DEF DraftStep, w, b

\* A removal leaves a draft.
LEMMA RemoveEffect ==
    ASSUME ReportsGood, NEW id \in BlockIds, RemoveBlock(id)
    PROVE  DraftStep
  <1>1. IsReport(report) /\ report.blocks \in Seq(ReportBlock) /\ DistinctBlocks(report.blocks)
      BY DEF ReportsGood, Good, IsReport, ReportState
  <1> DEFINE w == Without(report.blocks, id)
  <1>2. w \in Seq(ReportBlock) /\ DistinctBlocks(w)
      BY <1>1, WithoutFacts
  <1>3. report' = [Edited(report) EXCEPT !.blocks = w]
      BY <1>1 DEF RemoveBlock, Edited, IsReport, ReportState
  <1> HIDE DEF w
  <1>4. Good(report') /\ ~IsFinalized(report')
      BY <1>1, <1>2, <1>3, EditedBlocks
  <1> QED  BY <1>4 DEF DraftStep, RemoveBlock

\* A move leaves a draft.
LEMMA MoveEffect ==
    ASSUME ReportsGood, NEW id \in BlockIds, NEW before, NEW after, MoveBlock(id, before, after)
    PROVE  DraftStep
  <1>1. IsReport(report) /\ report.blocks \in Seq(ReportBlock) /\ DistinctBlocks(report.blocks)
      BY DEF ReportsGood, Good, IsReport, ReportState
  <1> DEFINE w == Without(report.blocks, id)
  <1>2. w \in Seq(ReportBlock) /\ DistinctBlocks(w) /\ FindBlock(w, id) = {}
      BY <1>1, WithoutFacts
  <1>3. PICK from \in FindBlock(report.blocks, id), to \in InsertIndexes(w, before, after) :
            report' = [Edited(report) EXCEPT
                          !.blocks = InsertAt(Without(@, id), to, report.blocks[from])]
      BY DEF MoveBlock
  <1> DEFINE b == report.blocks[from]
             n == InsertAt(w, to, b)
  <1>4. b \in ReportBlock /\ b.id = id
      <2>1. from \in DOMAIN report.blocks /\ b.id = id
        BY DEF FindBlock
      <2>2. DOMAIN report.blocks = 1 .. Len(report.blocks)
        BY <1>1, LenProperties
      <2> QED  BY <1>1, <2>1, <2>2, ElementOfSeq
  <1>5. report' = [Edited(report) EXCEPT !.blocks = n]
      <2>1. Edited(report).blocks = report.blocks
        BY <1>1 DEF Edited, IsReport, ReportState
      <2> QED  BY <1>1, <1>3, <2>1 DEF Edited, IsReport, ReportState
  <1> HIDE DEF w, b
  <1>6. to \in 1 .. Len(w) + 1
      BY <1>2, IndexesFit
  <1>7. n \in Seq(ReportBlock) /\ DistinctBlocks(n)
      BY <1>2, <1>4, <1>6, InsertFacts
  <1> HIDE DEF n
  <1>8. Good(report') /\ ~IsFinalized(report')
      BY <1>1, <1>5, <1>7, EditedBlocks
  <1> QED  BY <1>8 DEF DraftStep, MoveBlock

\* A chart mutation changes the chart it names.
LEMMA ChartEffect ==
    ASSUME ReportsGood, NEW c \in ChartIds, NEW d \in ChartDrafts, CreateChart(c, d)
    PROVE  /\ DraftStep
           /\ report'.blocks = report.blocks /\ report'.layout = report.layout
           /\ \A x \in ChartIds \ {c} : ChartsIn(report', x) = ChartsIn(report, x)
  <1>1. IsReport(report) /\ DistinctBlocks(report.blocks) /\ d \in ReportChart
      BY ArgumentsTyped DEF ReportsGood, Good
  <1> DEFINE charts == [x \in DOMAIN report.charts \cup {c} |->
                            IF x = c THEN d ELSE report.charts[x]]
             n == [Edited(report) EXCEPT !.charts = charts]
  <1>2. report' = n
      <2>1. Edited(report).charts = report.charts
        BY <1>1 DEF Edited, IsReport, ReportState
      <2> QED  BY <2>1 DEF CreateChart
  <1>3. /\ Good(n) /\ ~IsFinalized(n) /\ n.blocks = report.blocks /\ n.layout = report.layout
        /\ \A x \in ChartIds \ {c} : ChartsIn(n, x) = ChartsIn(report, x)
      BY <1>1, EditedCharts
  <1> HIDE DEF n
  <1> QED  BY <1>2, <1>3 DEF DraftStep, CreateChart

\* A layout mutation changes the layout alone.
LEMMA LayoutEffect ==
    ASSUME ReportsGood, NEW l \in Layouts \cup {Plain}, ConfigureLayout(l)
    PROVE  DraftStep /\ report'.blocks = report.blocks /\ report'.charts = report.charts
  <1>1. IsReport(report) /\ DistinctBlocks(report.blocks)
      BY DEF ReportsGood, Good
  <1> DEFINE n == [Edited(report) EXCEPT !.layout = l]
  <1>2. report' = n
      BY DEF ConfigureLayout
  <1>3. Good(n) /\ ~IsFinalized(n) /\ n.blocks = report.blocks /\ n.charts = report.charts
      BY <1>1, EditedLayout
  <1> HIDE DEF n
  <1> QED  BY <1>2, <1>3 DEF DraftStep, ConfigureLayout

\* Preparing a run keeps the report or brings back one that was kept.
LEMMA PrepareEffect ==
    ASSUME ReportsGood, RunShape, NEW c, NEW t \in NoTarget .. run.id, PrepareUserRun(c, t)
    PROVE  /\ report' = report \/ \E i \in 0 .. MaxRuns : report' \in rows[i] \cup snapshot[i]
           /\ Good(report')
           /\ edit' = ConfigureEditState(c, report'.blocks)
           /\ base' = IF c = Unscoped THEN Blank ELSE report'
  <1>1. edit' = ConfigureEditState(c, report'.blocks)
        /\ base' = IF c = Unscoped THEN Blank ELSE report'
      BY DEF PrepareUserRun
  <1>2. CASE report' = report
      BY <1>1, <1>2 DEF ReportsGood
  <1>3. CASE /\ t # NoTarget
             /\ \E saved \in TargetReport(t) :
                    Restorable(saved) /\ report' = LoadReportSnapshot(report, saved)
      <2>1. t \in 0 .. MaxRuns
        BY <1>3, BoundsAreNaturals DEF NoTarget, RunShape
      <2>2. PICK saved \in TargetReport(t) : report' = LoadReportSnapshot(report, saved)
        BY <1>3
      <2>3. saved \in rows[t] \cup snapshot[t]
        BY DEF TargetReport
      <2>4. Good(saved)
        BY <2>1, <2>3 DEF ReportsGood
      <2>5. report' = saved
        BY <2>2, <2>4, LoadIsSaved DEF ReportsGood, Good
      <2> QED  BY <1>1, <2>1, <2>3, <2>4, <2>5
  <1> QED  BY <1>2, <1>3 DEF PrepareUserRun

\* A step of the system: a preparation, a change by a tool, or what follows them.
LEMMA NextCases ==
    ASSUME ReportsGood, [Next]_vars
    PROVE  \/ \E c \in Contexts, t \in NoTarget .. run.id : StartRun(c, t) \/ ResumeRun(c, t)
           \/ AskUser \/ RunEnds
           \/ DraftStep \/ RefusedEdit
           \/ \E id \in ResultIds : RecordResult(id)
           \/ FinalizeReport \/ EmitReportPreview \/ DropOutcome
           \/ DeliverReport \/ DeliverFails \/ Restart \/ CaptureReportView
           \/ UNCHANGED vars
  BY UpsertEffect, RemoveEffect, MoveEffect, ChartEffect, LayoutEffect DEF Next

-----------------------------------------------------------------------------
(* Every kept report stays good *)

\* The change of a mark, or a longer ledger, keeps a report good.
LEMMA MarksGood ==
    ASSUME NEW r, Good(r)
    PROVE  /\ \A id \in STRING : Good([r EXCEPT !.results = @ \cup {id}])
           /\ \A m \in BOOLEAN : Good([r EXCEPT !.dropped = @ \/ m])
           /\ Good([r EXCEPT !.needsFinalize = TRUE])
           /\ ReportFinalizeIssues(r) = {} => Good([r EXCEPT !.titled = TRUE, !.needsFinalize = FALSE])
  <1>1. IsReport(r) /\ DistinctBlocks(r.blocks) /\ Sound(r)
      BY DEF Good
  <1>2. ASSUME NEW id \in STRING PROVE Good([r EXCEPT !.results = @ \cup {id}])
      <2> DEFINE n == [r EXCEPT !.results = @ \cup {id}]
      <2>1. /\ n.blocks = r.blocks /\ n.charts = r.charts /\ r.results \subseteq n.results
            /\ n.titled = r.titled /\ n.needsFinalize = r.needsFinalize /\ IsReport(n)
        BY <1>1 DEF IsReport, ReportState
      <2> HIDE DEF n
      <2>2. IsFinalized(n) = IsFinalized(r)
        BY <2>1 DEF IsFinalized, HasContent
      <2>3. Sound(n)
        BY <1>1, <2>1, <2>2, IssuesMonotone DEF Sound
      <2> QED  BY <1>1, <2>1, <2>3 DEF Good, n
  <1>3. ASSUME NEW m \in BOOLEAN PROVE Good([r EXCEPT !.dropped = @ \/ m])
      <2> DEFINE n == [r EXCEPT !.dropped = @ \/ m]
      <2>0. (r.dropped \/ m) \in BOOLEAN
        BY Zenon
      <2>1. /\ n.blocks = r.blocks /\ n.charts = r.charts /\ n.results = r.results
            /\ n.titled = r.titled /\ n.needsFinalize = r.needsFinalize /\ IsReport(n)
        BY <1>1, <2>0 DEF IsReport, ReportState
      <2> HIDE DEF n
      <2>2. IsFinalized(n) = IsFinalized(r)
        BY <2>1 DEF IsFinalized, HasContent
      <2>3. Sound(n)
        BY <1>1, <2>1, <2>2, IssuesMonotone DEF Sound
      <2> QED  BY <1>1, <2>1, <2>3 DEF Good, n
  <1>4. Good([r EXCEPT !.needsFinalize = TRUE])
      BY <1>1 DEF IsReport, ReportState, Good, Sound, IsFinalized
  <1>5. ASSUME ReportFinalizeIssues(r) = {}
        PROVE  Good([r EXCEPT !.titled = TRUE, !.needsFinalize = FALSE])
      <2> DEFINE n == [r EXCEPT !.titled = TRUE, !.needsFinalize = FALSE]
      <2>1. /\ n.blocks = r.blocks /\ n.charts = r.charts /\ n.results = r.results /\ IsReport(n)
        BY <1>1 DEF IsReport, ReportState
      <2> HIDE DEF n
      <2>2. ReportFinalizeIssues(n) = {}
        BY <1>5, <2>1, IssuesMonotone
      <2> QED  BY <1>1, <2>1, <2>2 DEF Good, Sound, n
  <1> QED  BY <1>2, <1>3, <1>4, <1>5

\* No step keeps, loads or restores a report that is not good.
LEMMA GoodStep ==
    ASSUME ReportsGood, RunShape, [Next]_vars
    PROVE  ReportsGood'
  <1> DEFINE Stored == \A i \in 0 .. MaxRuns : \A r \in snapshot[i] \cup rows[i] : Good(r)
  <1>1. Good(report) /\ Good(base) /\ Good(latest) /\ Stored /\ Good(Blank)
      BY BlankFacts DEF ReportsGood
  <1> SUFFICES Good(report)' /\ Good(base)' /\ Good(latest)' /\ Stored'
      BY DEF ReportsGood
  <1>2. ASSUME NEW c \in Contexts, NEW t \in NoTarget .. run.id, StartRun(c, t) \/ ResumeRun(c, t)
        PROVE  Good(report)' /\ Good(base)' /\ Good(latest)' /\ Stored'
      <2>1. PrepareUserRun(c, t) /\ UNCHANGED <<snapshot, latest, rows>>
        BY <1>2 DEF StartRun, ResumeRun
      <2>2. Good(report') /\ base' = IF c = Unscoped THEN Blank ELSE report'
        BY <2>1, PrepareEffect
      <2> QED  BY <1>1, <2>1, <2>2
  <1>3. ASSUME AskUser \/ UNCHANGED vars
        PROVE  Good(report)' /\ Good(base)' /\ Good(latest)' /\ Stored'
      BY <1>1, <1>3 DEF AskUser, vars
  <1>4. ASSUME RunEnds
        PROVE  Good(report)' /\ Good(base)' /\ Good(latest)' /\ Stored'
      BY <1>1, <1>4 DEF RunEnds, Over
  <1>5. ASSUME DraftStep
        PROVE  Good(report)' /\ Good(base)' /\ Good(latest)' /\ Stored'
      BY <1>1, <1>5 DEF DraftStep, Tool
  <1>6. ASSUME RefusedEdit
        PROVE  Good(report)' /\ Good(base)' /\ Good(latest)' /\ Stored'
      BY <1>1, <1>6 DEF RefusedEdit, Tool
  <1>7. ASSUME NEW id \in ResultIds, RecordResult(id)
        PROVE  Good(report)' /\ Good(base)' /\ Good(latest)' /\ Stored'
      <2>1. Good(report')
        BY <1>1, <1>7, MarksGood, NamesAreStrings DEF RecordResult
      <2> QED  BY <1>1, <1>7, <2>1 DEF RecordResult
  <1>8. ASSUME FinalizeReport
        PROVE  Good(report)' /\ Good(base)' /\ Good(latest)' /\ Stored'
      <2>1. Good(report')
        BY <1>1, <1>8, MarksGood DEF FinalizeReport
      <2> QED  BY <1>1, <1>8, <2>1 DEF FinalizeReport
  <1>9. ASSUME EmitReportPreview
        PROVE  Good(report)' /\ Good(base)' /\ Good(latest)' /\ Stored'
      <2>1. report' = report /\ base' = base /\ latest' = report /\ rows' = rows
            /\ snapshot' = [snapshot EXCEPT ![run.id] = {report}]
        BY <1>9 DEF EmitReportPreview, Saved
      <2> QED  BY <1>1, <2>1 DEF RunShape
  <1>10. ASSUME DropOutcome
        PROVE  Good(report)' /\ Good(base)' /\ Good(latest)' /\ Stored'
      <2>1. (step = "finalized") \in BOOLEAN
        OBVIOUS
      <2>2. Good([report EXCEPT !.dropped = @ \/ step = "finalized"])
        BY <1>1, <2>1, MarksGood
      <2> QED  BY <1>1, <1>10, <2>2 DEF DropOutcome, Over
  <1>11. ASSUME DeliverReport
        PROVE  Good(report)' /\ Good(base)' /\ Good(latest)' /\ Stored'
      <2>1. report' = report /\ base' = Blank /\ latest' = report
            /\ rows' = [rows EXCEPT ![run.id] = {report}]
            /\ snapshot' = [snapshot EXCEPT ![run.id] = {report}]
        BY <1>11 DEF DeliverReport, Saved, Over
      <2> QED  BY <1>1, <2>1 DEF RunShape
  <1>12. ASSUME DeliverFails
        PROVE  Good(report)' /\ Good(base)' /\ Good(latest)' /\ Stored'
      <2>1. Good(report')
        BY <1>1, <1>12, MarksGood DEF DeliverFails, RollbackFinalizeDraft
      <2>2. /\ base' = Blank /\ latest' = latest /\ snapshot' = snapshot
            /\ rows' = rows \/ rows' = [rows EXCEPT ![run.id] = {report}]
        BY <1>12 DEF DeliverFails, Over
      <2>3. \A i \in 0 .. MaxRuns : rows'[i] = rows[i] \/ rows'[i] = {report}
        BY <2>2 DEF RunShape
      <2> QED  BY <1>1, <2>1, <2>2, <2>3
  <1>13. ASSUME Restart
        PROVE  Good(report)' /\ Good(base)' /\ Good(latest)' /\ Stored'
      <2>1. LoadReportSnapshot(Blank, latest) = latest
        BY <1>1, LoadIsSaved DEF Good
      <2> QED  BY <1>1, <1>13, <2>1 DEF Restart
  <1>14. ASSUME CaptureReportView
        PROVE  Good(report)' /\ Good(base)' /\ Good(latest)' /\ Stored'
      <2>1. LoadReportSnapshot(report, latest) = latest
        BY <1>1, LoadIsSaved DEF Good
      <2>2. report' \in {latest, report} /\ base' = Blank /\ UNCHANGED <<snapshot, latest, rows>>
        BY <1>14, <2>1 DEF CaptureReportView
      <2> QED  BY <1>1, <2>2
  <1> HIDE DEF Stored
  <1> QED  BY NextCases, <1>2, <1>3, <1>4, <1>5, <1>6, <1>7, <1>8, <1>9, <1>10, <1>11, <1>12,
              <1>13, <1>14

-----------------------------------------------------------------------------
(* Runs and rows *)

\* A row is written only as its run ends, and runs are numbered upwards.
LEMMA ShapeStep ==
    ASSUME ReportsGood, RunShape, [Next]_vars
    PROVE  RunShape'
  <1> USE BoundsAreNaturals DEF RunShape
  <1>1. ASSUME NEW c \in Contexts, NEW t \in NoTarget .. run.id, StartRun(c, t) PROVE RunShape'
      <2>1. run' = [phase |-> "running", id |-> run.id + 1] /\ run.id + 1 \in 0 .. MaxRuns
            /\ run.phase = "idle" /\ UNCHANGED <<step, snapshot, rows, edits, faults>>
        BY <1>1 DEF StartRun
      <2> QED  BY <2>1
  <1>2. ASSUME NEW c \in Contexts, NEW t \in NoTarget .. run.id, ResumeRun(c, t) PROVE RunShape'
      BY <1>2 DEF ResumeRun
  <1>3. ASSUME AskUser \/ UNCHANGED vars PROVE RunShape'
      BY <1>3 DEF AskUser, vars
  <1>4. ASSUME RunEnds PROVE RunShape'
      BY <1>4 DEF RunEnds, Over
  <1>5. ASSUME DraftStep \/ RefusedEdit PROVE RunShape'
      BY <1>5 DEF DraftStep, RefusedEdit, Tool
  <1>6. ASSUME NEW id \in ResultIds, RecordResult(id) PROVE RunShape'
      BY <1>6 DEF RecordResult
  <1>7. ASSUME FinalizeReport PROVE RunShape'
      BY <1>7 DEF FinalizeReport
  <1>8. ASSUME EmitReportPreview PROVE RunShape'
      BY <1>8 DEF EmitReportPreview, Saved
  <1>9. ASSUME DropOutcome PROVE RunShape'
      BY <1>9 DEF DropOutcome, Over, Fault
  <1>10. ASSUME DeliverReport PROVE RunShape'
      BY <1>10 DEF DeliverReport, Over, Saved
  <1>11. ASSUME DeliverFails PROVE RunShape'
      BY <1>11 DEF DeliverFails, Over, Fault
  <1>12. ASSUME Restart PROVE RunShape'
      BY <1>12 DEF Restart, Fault
  <1>13. ASSUME CaptureReportView PROVE RunShape'
      BY <1>13 DEF CaptureReportView
  <1> QED  BY NextCases, <1>1, <1>2, <1>3, <1>4, <1>5, <1>6, <1>7, <1>8, <1>9, <1>10, <1>11, <1>12,
              <1>13

-----------------------------------------------------------------------------
(* Delivery *)

\* A row that is written does not take away what was delivered: its run had none.
LEMMA DeliveredStays ==
    ASSUME RunShape, NEW r, Delivered(r), run.phase # "idle",
           rows' = rows \/ rows' = [rows EXCEPT ![run.id] = {report}]
    PROVE  \E i \in 0 .. MaxRuns : \E row \in rows'[i] : Content(row) = Content(r)
  <1>1. PICK i \in 0 .. MaxRuns : \E row \in rows[i] : Content(row) = Content(r)
      BY DEF Delivered
  <1>2. rows[run.id] = {} /\ run.id \in 0 .. MaxRuns
      BY DEF RunShape
  <1>3. i # run.id
      BY <1>1, <1>2
  <1>4. rows'[i] = rows[i]
      BY <1>3 DEF RunShape
  <1> QED  BY <1>1, <1>4

\* A report that reads finalized after a step was delivered or its outcome dropped.
LEMMA DeliveryStep ==
    ASSUME ReportsGood, RunShape, DeliveryInv, [Next]_vars
    PROVE  DeliveryInv'
  <1> DEFINE Here(r) == \E i \in 0 .. MaxRuns : \E row \in rows'[i] : Content(row) = Content(r)
             Fine(r) == IsFinalized(r) /\ ~r.dropped => Here(r)
  <1>1. ASSUME /\ step' # "finalized" => Fine(report')
               /\ Fine(latest') /\ \A i \in 0 .. MaxRuns : \A r \in snapshot'[i] : Fine(r)
        PROVE  DeliveryInv'
      BY <1>1 DEF DeliveryInv, Settled, Delivered
  <1>2. /\ step # "finalized" => Settled(report)
        /\ Settled(latest) /\ \A i \in 0 .. MaxRuns : \A r \in snapshot[i] : Settled(r)
      BY DEF DeliveryInv
  <1>3. ASSUME rows' = rows, NEW r, Settled(r) PROVE Fine(r)
      BY <1>3 DEF Settled, Delivered
  <1>4. ASSUME run.phase # "idle", rows' = rows \/ rows' = [rows EXCEPT ![run.id] = {report}],
               NEW r, Settled(r)
        PROVE  Fine(r)
      BY <1>4, DeliveredStays DEF Settled
  <1>5. \A r \in UNION {rows[i] : i \in 0 .. MaxRuns} : Settled(r)
      BY DEF Settled, Delivered
  <1> HIDE DEF Fine
  <1>6. ASSUME NEW c \in Contexts, NEW t \in NoTarget .. run.id, StartRun(c, t) \/ ResumeRun(c, t)
        PROVE  DeliveryInv'
      <2>1. PrepareUserRun(c, t) /\ UNCHANGED <<step, snapshot, latest, rows>>
        BY <1>6 DEF StartRun, ResumeRun
      <2>2. report' = report \/ \E i \in 0 .. MaxRuns : report' \in rows[i] \cup snapshot[i]
        BY <2>1, PrepareEffect
      <2>3. step' # "finalized" => Settled(report')
        <3>1. CASE report' = report
          BY <1>2, <2>1, <3>1
        <3>2. ASSUME NEW i \in 0 .. MaxRuns, report' \in rows[i] \cup snapshot[i]
              PROVE  Settled(report')
          BY <1>2, <1>5, <3>2
        <3> QED  BY <2>2, <3>1, <3>2
      <2> QED  BY <1>1, <1>2, <1>3, <2>1, <2>3
  <1>7. ASSUME AskUser \/ UNCHANGED vars PROVE DeliveryInv'
      <2>1. UNCHANGED <<report, step, snapshot, latest, rows>>
        BY <1>7 DEF AskUser, vars
      <2> QED  BY <1>1, <1>2, <1>3, <2>1
  <1>8. ASSUME RunEnds PROVE DeliveryInv'
      <2>1. UNCHANGED <<report, snapshot, latest, rows>> /\ step # "finalized"
        BY <1>8 DEF RunEnds
      <2> QED  BY <1>1, <1>2, <1>3, <2>1
  <1>9. ASSUME DraftStep PROVE DeliveryInv'
      <2>1. UNCHANGED <<snapshot, latest, rows>> /\ ~IsFinalized(report')
        BY <1>9 DEF DraftStep, Tool
      <2>2. Fine(report')
        BY <2>1 DEF Fine
      <2> QED  BY <1>1, <1>2, <1>3, <2>1, <2>2
  <1>10. ASSUME RefusedEdit PROVE DeliveryInv'
      <2>1. UNCHANGED <<report, snapshot, latest, rows>> /\ step # "finalized"
        BY <1>10 DEF RefusedEdit, Tool
      <2> QED  BY <1>1, <1>2, <1>3, <2>1
  <1>11. ASSUME NEW id \in ResultIds, RecordResult(id) PROVE DeliveryInv'
      <2>1. UNCHANGED <<step, snapshot, latest, rows>> /\ step # "finalized"
            /\ report' = [report EXCEPT !.results = @ \cup {id}]
        BY <1>11 DEF RecordResult
      <2>2. /\ Content(report') = Content(report) /\ IsFinalized(report') = IsFinalized(report)
            /\ report'.dropped = report.dropped
        BY <2>1 DEF ReportsGood, Good, IsReport, ReportState, Content, IsFinalized, HasContent
      <2>3. Fine(report')
        BY <1>2, <2>1, <2>2 DEF Settled, Fine, Delivered
      <2> QED  BY <1>1, <1>2, <1>3, <2>1, <2>3
  <1>12. ASSUME FinalizeReport PROVE DeliveryInv'
      <2>1. UNCHANGED <<snapshot, latest, rows>> /\ step' = "finalized"
        BY <1>12 DEF FinalizeReport
      <2> QED  BY <1>1, <1>2, <1>3, <2>1
  <1>13. ASSUME EmitReportPreview PROVE DeliveryInv'
      <2>1. /\ step = "edited" /\ UNCHANGED <<report, rows>> /\ latest' = report
            /\ snapshot' = [snapshot EXCEPT ![run.id] = {report}]
        BY <1>13 DEF EmitReportPreview, Saved
      <2>2. Fine(report)
        BY <1>2, <1>3, <2>1
      <2>3. \A i \in 0 .. MaxRuns : snapshot'[i] = snapshot[i] \/ snapshot'[i] = {report}
        BY <2>1 DEF RunShape
      <2> QED  BY <1>1, <1>2, <1>3, <2>1, <2>2, <2>3
  <1>14. ASSUME DropOutcome PROVE DeliveryInv'
      <2>1. UNCHANGED <<snapshot, latest, rows>>
            /\ report' = [report EXCEPT !.dropped = @ \/ step = "finalized"]
        BY <1>14 DEF DropOutcome
      <2>2. CASE step = "finalized"
        <3>1. report'.dropped
          BY <2>1, <2>2 DEF ReportsGood, Good, IsReport, ReportState
        <3>2. Fine(report')
          BY <3>1 DEF Fine
        <3> QED  BY <1>1, <1>2, <1>3, <2>1, <3>2
      <2>3. CASE step # "finalized"
        <3>1. /\ Content(report') = Content(report) /\ IsFinalized(report') = IsFinalized(report)
              /\ report'.dropped = report.dropped
          BY <2>1, <2>3
             DEF ReportsGood, Good, IsReport, ReportState, Content, IsFinalized, HasContent
        <3>2. Fine(report')
          BY <1>2, <2>1, <2>3, <3>1 DEF Settled, Fine, Delivered
        <3> QED  BY <1>1, <1>2, <1>3, <2>1, <3>2
      <2> QED  BY <2>2, <2>3
  <1>15. ASSUME DeliverReport PROVE DeliveryInv'
      <2>1. /\ report' = report /\ latest' = report /\ run.phase # "idle"
            /\ rows' = [rows EXCEPT ![run.id] = {report}]
            /\ snapshot' = [snapshot EXCEPT ![run.id] = {report}]
        BY <1>15 DEF DeliverReport, Saved, RunShape
      <2>2. rows'[run.id] = {report} /\ run.id \in 0 .. MaxRuns
        BY <2>1 DEF RunShape
      <2>3. Fine(report)
        BY <2>2 DEF Fine
      <2>4. \A i \in 0 .. MaxRuns : snapshot'[i] = snapshot[i] \/ snapshot'[i] = {report}
        BY <2>1 DEF RunShape
      <2> QED  BY <1>1, <1>2, <1>4, <2>1, <2>3, <2>4
  <1>16. ASSUME DeliverFails PROVE DeliveryInv'
      <2>1. /\ report' = [report EXCEPT !.needsFinalize = TRUE] /\ UNCHANGED <<latest, snapshot>>
            /\ run.phase # "idle"
            /\ rows' = rows \/ rows' = [rows EXCEPT ![run.id] = {report}]
        BY <1>16 DEF DeliverFails, RollbackFinalizeDraft, RunShape
      <2>2. ~IsFinalized(report')
        BY <2>1 DEF ReportsGood, Good, IsReport, ReportState, IsFinalized
      <2>3. Fine(report')
        BY <2>2 DEF Fine
      <2> QED  BY <1>1, <1>2, <1>4, <2>1, <2>3
  <1>17. ASSUME Restart PROVE DeliveryInv'
      <2>1. LoadReportSnapshot(Blank, latest) = latest
        BY BlankFacts, LoadIsSaved DEF ReportsGood, Good
      <2>2. UNCHANGED <<snapshot, latest, rows>> /\ report' \in {latest, Blank}
        BY <1>17, <2>1 DEF Restart
      <2>3. Fine(Blank)
        BY BlankFacts DEF Fine
      <2> QED  BY <1>1, <1>2, <1>3, <2>2, <2>3
  <1>18. ASSUME CaptureReportView PROVE DeliveryInv'
      <2>1. LoadReportSnapshot(report, latest) = latest
        BY LoadIsSaved DEF ReportsGood, Good
      <2>2. UNCHANGED <<step, snapshot, latest, rows>> /\ report' \in {latest, report}
        BY <1>18, <2>1 DEF CaptureReportView
      <2> QED  BY <1>1, <1>2, <1>3, <2>2
  <1> QED  BY NextCases, <1>6, <1>7, <1>8, <1>9, <1>10, <1>11, <1>12, <1>13, <1>14, <1>15, <1>16,
              <1>17, <1>18

-----------------------------------------------------------------------------
(* The edit scope *)

\* The selection's part of ScopeHolds: what one version of the target may become.
KeepsRest(was, now) ==
    \/ now = was
    \/ /\ [now EXCEPT !.content = was.content] = was
       /\ \E range \in SelectionBounds(edit.context, was.content) :
              /\ IsPrefix(SubSeq(was.content, 1, range[1] - 1), now.content)
              /\ IsSuffix(SubSeq(was.content, range[2] + 1, Len(was.content)), now.content)

Now(was) == report.blocks[CHOOSE j \in FindBlock(report.blocks, was.id) : TRUE]
SelectionKept ==
    \A i \in FindBlock(base.blocks, edit.context.block) :
        KeepsRest(base.blocks[i], Now(base.blocks[i]))
OutsideKept ==
    /\ Rest(report) = Rest(base)
    /\ \A c \in ChartIds \ EditableCharts(base.blocks, edit.context.block, edit.context.chart) :
           ChartsIn(report, c) = ChartsIn(base, c)
    /\ edit.context.scope = "layout" => report.charts = base.charts
    /\ edit.context.scope # "layout" => report.layout = base.layout

\* ScopeHolds, in its part about the selection and its part about the rest.
LEMMA ScopeParts ==
    /\ ScopeHolds <=> (edit.context.scope \in Partial =>
           OutsideKept /\ (edit.context.scope = "partial_selection" => SelectionKept))
    /\ ScopeHolds' <=> (edit'.context.scope \in Partial =>
           OutsideKept' /\ (edit'.context.scope = "partial_selection" => SelectionKept'))
  BY DEF ScopeHolds, OutsideKept, SelectionKept, KeepsRest, Now

\* In a report whose blocks have names of their own, a name leads to one block.
LEMMA NamedBlock ==
    ASSUME NEW r, Good(r), NEW id, NEW i \in FindBlock(r.blocks, id)
    PROVE  FindBlock(r.blocks, id) = {i} /\ r.blocks[i].id = id /\ r.blocks[i] \in ReportBlock
  <1>1. r.blocks \in Seq(ReportBlock) /\ DistinctBlocks(r.blocks)
      BY DEF Good, IsReport, ReportState
  <1>2. DOMAIN r.blocks = 1 .. Len(r.blocks)
      BY <1>1, LenProperties
  <1>3. i \in DOMAIN r.blocks /\ r.blocks[i].id = id
      BY DEF FindBlock
  <1>4. r.blocks[i] \in ReportBlock
      BY <1>1, <1>2, <1>3, ElementOfSeq
  <1> QED  BY <1>1, <1>3, <1>4 DEF FindBlock, DistinctBlocks

\* A scope that is configured is captured and holds: the report is its own base.
LEMMA ScopeStarts ==
    ASSUME NEW c \in Contexts \cup {Unscoped}, Good(report'), Good(base'),
           base' = IF c = Unscoped THEN Blank ELSE report',
           edit' = ConfigureEditState(c, report'.blocks)
    PROVE  (ScopeCaptured /\ TargetStays /\ ScopeHolds)'
  <1>1. edit'.context = c
      BY DEF ConfigureEditState, RefreshFromReportState, Reset
  <1>2. edit' = ConfigureEditState(c, base'.blocks)
      BY DEF ConfigureEditState
  <1>3. CASE c = Unscoped
      <2>1. c.scope \notin Partial /\ c.scope # "partial_selection"
        BY <1>3 DEF Unscoped, Partial, None
      <2> QED  BY <1>1, <1>2, <2>1 DEF ScopeCaptured, TargetStays, ScopeHolds
  <1>4. CASE c # Unscoped
      <2>1. base' = report'
        BY <1>4
      <2>2. ASSUME NEW i \in FindBlock(base'.blocks, c.block)
            PROVE  report'.blocks[CHOOSE j \in FindBlock(report'.blocks, base'.blocks[i].id) : TRUE]
                       = base'.blocks[i]
        <3>1. FindBlock(report'.blocks, c.block) = {i} /\ base'.blocks[i].id = c.block
          BY <2>1, NamedBlock
        <3> QED  BY <2>1, <3>1
      <2>3. ScopeHolds'
        BY <1>1, <2>1, <2>2 DEF ScopeHolds, Rest
      <2> QED  BY <1>1, <1>2, <2>1, <2>3 DEF ScopeCaptured, TargetStays
  <1> QED  BY <1>3, <1>4

\* A step that leaves the scope, its base, and the blocks, charts and layout alone.
LEMMA ScopeUndisturbed ==
    ASSUME ScopeCaptured, TargetStays, ScopeHolds, UNCHANGED <<edit, base>>,
           report'.blocks = report.blocks, report'.charts = report.charts,
           report'.layout = report.layout
    PROVE  (ScopeCaptured /\ TargetStays /\ ScopeHolds)'
  <1>1. OutsideKept => OutsideKept'
      BY DEF OutsideKept, Rest, ChartsIn
  <1>2. \A was : Now(was)' = Now(was)
      BY DEF Now
  <1>3. \A was, now : KeepsRest(was, now)' = KeepsRest(was, now)
      BY DEF KeepsRest
  <1>4. SelectionKept => SelectionKept'
      BY <1>2, <1>3 DEF SelectionKept
  <1>5. ScopeHolds'
      BY <1>1, <1>4, ScopeParts
  <1> QED  BY <1>5 DEF ScopeCaptured, TargetStays

\* A step that ends the scope.
LEMMA ScopeEnds ==
    ASSUME edit' = Reset, base' = Blank
    PROVE  (ScopeCaptured /\ TargetStays /\ ScopeHolds)'
  <1>1. edit'.context = Unscoped
      BY DEF Reset
  <1>2. Unscoped.scope \notin Partial /\ Unscoped.scope # "partial_selection"
      BY DEF Unscoped, Partial, None
  <1> QED  BY <1>1, <1>2 DEF ScopeCaptured, TargetStays, ScopeHolds, ConfigureEditState

\* What the captured scope is in terms of its base.
LEMMA CapturedScope ==
    ASSUME ScopeCaptured, Good(base), edit.context.scope \in Partial
    PROVE  /\ edit.allowed =
                  EditableCharts(base.blocks, edit.context.block, edit.context.chart)
           /\ \A k \in FindBlock(base.blocks, edit.context.block) :
                  /\ base.blocks[k] \in ReportBlock /\ base.blocks[k].id = edit.context.block
                  /\ edit.target.kind = base.blocks[k].kind
                  /\ edit.target.content = base.blocks[k].content
                  /\ edit.target.chart = base.blocks[k].chart
                  /\ edit.target.sources = base.blocks[k].sources
  <1> DEFINE c == edit.context
             found == FindBlock(base.blocks, c.block)
  <1>1. c # Unscoped
      BY DEF Unscoped, Partial, None
  <1>2. edit = RefreshFromReportState(c, base.blocks)
      BY <1>1 DEF ScopeCaptured, ConfigureEditState
  <1>3. edit.allowed = EditableCharts(base.blocks, c.block, c.chart)
      BY <1>2 DEF RefreshFromReportState
  <1>4. ASSUME NEW k \in found
        PROVE  /\ base.blocks[k] \in ReportBlock /\ base.blocks[k].id = c.block
               /\ edit.target.kind = base.blocks[k].kind
               /\ edit.target.content = base.blocks[k].content
               /\ edit.target.chart = base.blocks[k].chart
               /\ edit.target.sources = base.blocks[k].sources
      <2>1. found = {k} /\ base.blocks[k] \in ReportBlock /\ base.blocks[k].id = c.block
        BY NamedBlock
      <2>2. (CHOOSE i \in found : TRUE) = k
        BY <2>1
      <2> HIDE DEF c
      <2>3. edit.target = IF found = {} THEN NoBlock
                          ELSE LET b == base.blocks[CHOOSE i \in found : TRUE]
                               IN  [kind |-> b.kind, content |-> b.content,
                                    chart |-> b.chart, sources |-> b.sources]
        BY <1>2 DEF RefreshFromReportState
      <2>4. edit.target = [kind |-> base.blocks[k].kind, content |-> base.blocks[k].content,
                           chart |-> base.blocks[k].chart, sources |-> base.blocks[k].sources]
        BY <2>1, <2>2, <2>3
      <2> QED  BY <2>1, <2>4
  <1> QED  BY <1>3, <1>4

\* Under a partial scope an upsert reaches the target alone, within its selection.
LEMMA UpsertKeepsScope ==
    ASSUME ReportsGood, ScopeCaptured, TargetStays, ScopeHolds,
           NEW action, NEW id \in BlockIds, NEW d \in Drafts, NEW before, NEW after,
           UpsertBlock(action, id, d, before, after)
    PROVE  (ScopeCaptured /\ TargetStays /\ ScopeHolds)'
  <1>1. edit' = edit /\ base' = base /\ UpsertAllowed(action, id, d)
      BY DEF UpsertBlock, Tool
  <1>2. /\ report'.charts = report.charts /\ report'.layout = report.layout
        /\ Without(report'.blocks, id) = Without(report.blocks, id)
        /\ \E i \in DOMAIN report'.blocks :
               FindBlock(report'.blocks, id) = {i} /\ report'.blocks[i] = BlockOf(id, d)
      BY UpsertEffect
  <1>3. CASE edit.context.scope \notin Partial
      <2>1. ScopeHolds'
        BY <1>1, <1>3, ScopeParts
      <2>2. TargetStays'
        BY <1>1, <1>3 DEF TargetStays, Partial
      <2> QED  BY <1>1, <2>1, <2>2 DEF ScopeCaptured
  <1>4. CASE edit.context.scope \in Partial
      <2>1. edit.context.scope \in {"partial_block", "partial_selection"} /\ id = edit.context.block
        BY <1>1, <1>4 DEF UpsertAllowed, BlockMutationAllowed, Partial, None
      <2>2. PICK i \in DOMAIN report'.blocks :
                FindBlock(report'.blocks, id) = {i} /\ report'.blocks[i] = BlockOf(id, d)
        BY <1>2
      <2>3. TargetStays'
        BY <1>1, <2>1, <2>2 DEF TargetStays
      <2>4. OutsideKept /\ (edit.context.scope = "partial_selection" => SelectionKept)
        BY <1>4, ScopeParts
      <2>5. OutsideKept'
        <3>1. Rest(report)' = Without(report'.blocks, id) /\ Rest(base)' = Without(base.blocks, id)
              /\ Rest(report) = Without(report.blocks, id) /\ Rest(base) = Without(base.blocks, id)
          BY <1>1, <2>1 DEF Rest
        <3>2. \A c : ChartsIn(report, c)' = ChartsIn(report, c) /\ ChartsIn(base, c)' = ChartsIn(base, c)
          BY <1>1, <1>2 DEF ChartsIn
        <3> QED  BY <1>1, <1>2, <2>4, <3>1, <3>2 DEF OutsideKept
      <2>6. ASSUME edit.context.scope = "partial_selection" PROVE SelectionKept'
        <3> SUFFICES ASSUME NEW k \in FindBlock(base.blocks, edit.context.block)
                     PROVE  KeepsRest(base.blocks[k], Now(base.blocks[k]))'
          BY <1>1 DEF SelectionKept
        <3> DEFINE was == base.blocks[k]
                   now == BlockOf(id, d)
        <3>1. /\ was \in ReportBlock /\ was.id = id
              /\ edit.target.kind = was.kind /\ edit.target.content = was.content
              /\ edit.target.chart = was.chart /\ edit.target.sources = was.sources
          BY <1>4, <2>1, CapturedScope DEF ReportsGood
        <3>2. Now(was)' = now
          BY <1>1, <2>2, <3>1 DEF Now
        <3>3. /\ SelectionMutationAllowed(d.content) /\ edit.target.kind \in {None, d.kind}
              /\ d.chart = edit.target.chart /\ d.sources = edit.target.sources
          BY <1>1, <2>6 DEF UpsertAllowed, SelectionBlockMutationAllowed
        <3>4. was.kind = d.kind
          BY <3>1, <3>3 DEF ReportBlock, None
        <3>5. [now EXCEPT !.content = was.content] = was
          BY <3>1, <3>3, <3>4 DEF ReportBlock, BlockOf
        <3>6. now.content = d.content
          BY DEF BlockOf
        <3> HIDE DEF was, now
        <3>7. \E range \in SelectionBounds(edit.context, was.content) :
                  /\ IsPrefix(SubSeq(was.content, 1, range[1] - 1), now.content)
                  /\ IsSuffix(SubSeq(was.content, range[2] + 1, Len(was.content)), now.content)
          BY <3>1, <3>3, <3>6 DEF SelectionMutationAllowed
        <3>8. KeepsRest(was, now)'
          BY <1>1, <3>5, <3>7 DEF KeepsRest, was, now
        <3> QED  BY <1>1, <3>2, <3>8 DEF KeepsRest, was
      <2>7. ScopeHolds'
        BY <1>1, <2>5, <2>6, ScopeParts
      <2> QED  BY <1>1, <2>3, <2>7 DEF ScopeCaptured
  <1> QED  BY <1>3, <1>4

\* A removal or a move is refused under every partial scope.
LEMMA UnscopedKeepsScope ==
    ASSUME ScopeCaptured, edit.context.scope \notin Partial, UNCHANGED <<edit, base>>
    PROVE  (ScopeCaptured /\ TargetStays /\ ScopeHolds)'
  <1>1. ScopeHolds'
      BY ScopeParts
  <1>2. TargetStays'
      BY DEF TargetStays, Partial
  <1> QED  BY <1>1, <1>2 DEF ScopeCaptured

\* Under a partial scope a chart mutation reaches the captured charts alone.
LEMMA ChartKeepsScope ==
    ASSUME ReportsGood, ScopeCaptured, TargetStays, ScopeHolds,
           NEW chart \in ChartIds, NEW d \in ChartDrafts, CreateChart(chart, d)
    PROVE  (ScopeCaptured /\ TargetStays /\ ScopeHolds)'
  <1>1. edit' = edit /\ base' = base /\ ChartMutationAllowed(chart)
      BY DEF CreateChart, Tool
  <1>2. /\ report'.blocks = report.blocks /\ report'.layout = report.layout
        /\ \A x \in ChartIds \ {chart} : ChartsIn(report', x) = ChartsIn(report, x)
      BY ChartEffect
  <1>3. CASE edit.context.scope \notin Partial
      BY <1>1, <1>3, UnscopedKeepsScope
  <1>4. CASE edit.context.scope \in Partial
      <2>1. edit.context.scope # "layout" /\ chart \in edit.allowed
        BY <1>1, <1>4 DEF ChartMutationAllowed, Partial, None
      <2>2. chart \in EditableCharts(base.blocks, edit.context.block, edit.context.chart)
        BY <1>4, <2>1, CapturedScope DEF ReportsGood
      <2>3. OutsideKept /\ (edit.context.scope = "partial_selection" => SelectionKept)
        BY <1>4, ScopeParts
      <2>4. OutsideKept'
        <3>1. Rest(report)' = Rest(report) /\ Rest(base)' = Rest(base)
          BY <1>1, <1>2 DEF Rest
        <3>2. \A c : ChartsIn(base, c)' = ChartsIn(base, c)
          BY <1>1 DEF ChartsIn
        <3>3. \A c \in ChartIds \ EditableCharts(base.blocks, edit.context.block, edit.context.chart) :
                  ChartsIn(report', c) = ChartsIn(report, c)
          BY <1>2, <2>2
        <3> QED  BY <1>1, <1>2, <2>1, <2>3, <3>1, <3>2, <3>3 DEF OutsideKept
      <2>5. SelectionKept => SelectionKept'
        <3>1. \A was : Now(was)' = Now(was)
          BY <1>2 DEF Now
        <3>2. \A was, now : KeepsRest(was, now)' = KeepsRest(was, now)
          BY <1>1 DEF KeepsRest
        <3> QED  BY <1>1, <3>1, <3>2 DEF SelectionKept
      <2>6. ScopeHolds'
        BY <1>1, <2>3, <2>4, <2>5, ScopeParts
      <2> QED  BY <1>1, <1>2, <2>6 DEF ScopeCaptured, TargetStays
  <1> QED  BY <1>3, <1>4

\* Of the partial scopes only layout lets the layout change.
LEMMA LayoutKeepsScope ==
    ASSUME ReportsGood, ScopeCaptured, TargetStays, ScopeHolds,
           NEW l \in Layouts \cup {Plain}, ConfigureLayout(l)
    PROVE  (ScopeCaptured /\ TargetStays /\ ScopeHolds)'
  <1>1. edit' = edit /\ base' = base /\ LayoutMutationAllowed
      BY DEF ConfigureLayout, Tool
  <1>2. report'.blocks = report.blocks /\ report'.charts = report.charts
      BY LayoutEffect
  <1>3. CASE edit.context.scope \notin Partial
      BY <1>1, <1>3, UnscopedKeepsScope
  <1>4. CASE edit.context.scope \in Partial
      <2>1. edit.context.scope = "layout"
        BY <1>1, <1>4 DEF LayoutMutationAllowed, Partial, None
      <2>2. OutsideKept
        BY <1>4, ScopeParts
      <2>3. OutsideKept'
        <3>1. Rest(report)' = Rest(report) /\ Rest(base)' = Rest(base)
          BY <1>1, <1>2 DEF Rest
        <3>2. \A c : ChartsIn(report, c)' = ChartsIn(report, c) /\ ChartsIn(base, c)' = ChartsIn(base, c)
          BY <1>1, <1>2 DEF ChartsIn
        <3> QED  BY <1>1, <1>2, <2>1, <2>2, <3>1, <3>2 DEF OutsideKept
      <2>4. ScopeHolds'
        BY <1>1, <2>1, <2>3, ScopeParts
      <2> QED  BY <1>1, <1>2, <2>4 DEF ScopeCaptured, TargetStays
  <1> QED  BY <1>3, <1>4

\* No step widens a scope or reaches outside it.
LEMMA ScopeStep ==
    ASSUME ReportsGood, ReportsGood', RunShape, ScopeCaptured, TargetStays, ScopeHolds, [Next]_vars
    PROVE  (ScopeCaptured /\ TargetStays /\ ScopeHolds)'
  <1> DEFINE Goal == (ScopeCaptured /\ TargetStays /\ ScopeHolds)'
  <1>1. ASSUME NEW c \in Contexts, NEW t \in NoTarget .. run.id, StartRun(c, t) \/ ResumeRun(c, t)
        PROVE  Goal
      <2>1. PrepareUserRun(c, t)
        BY <1>1 DEF StartRun, ResumeRun
      <2>2. /\ Good(report') /\ edit' = ConfigureEditState(c, report'.blocks)
            /\ base' = IF c = Unscoped THEN Blank ELSE report'
        BY <2>1, PrepareEffect
      <2>3. Good(base')
        BY DEF ReportsGood
      <2>4. c \in Contexts \cup {Unscoped}
        OBVIOUS
      <2> QED  BY <2>2, <2>3, <2>4, ScopeStarts
  <1>2. ASSUME AskUser \/ UNCHANGED vars PROVE Goal
      <2>1. UNCHANGED <<edit, base, report>>
        BY <1>2 DEF AskUser, vars
      <2> QED  BY <2>1, ScopeUndisturbed
  <1>3. ASSUME \/ RunEnds \/ DropOutcome \/ DeliverReport \/ DeliverFails
               \/ Restart \/ CaptureReportView
        PROVE  Goal
      <2>1. edit' = Reset /\ base' = Blank
        BY <1>3 DEF RunEnds, DropOutcome, DeliverReport, DeliverFails, Restart,
                    CaptureReportView, Over
      <2> QED  BY <2>1, ScopeEnds
  <1>4. ASSUME NEW id \in BlockIds, RemoveBlock(id) PROVE Goal
      <2>1. BlockMutationAllowed("remove", id) /\ UNCHANGED <<edit, base>>
        BY <1>4 DEF RemoveBlock, Tool
      <2>2. edit.context.scope \notin Partial
        BY <2>1 DEF BlockMutationAllowed, Partial, None
      <2> QED  BY <2>1, <2>2, UnscopedKeepsScope
  <1>5. ASSUME NEW id \in BlockIds, NEW before, NEW after, MoveBlock(id, before, after) PROVE Goal
      <2>1. BlockMutationAllowed("move", id) /\ UNCHANGED <<edit, base>>
        BY <1>5 DEF MoveBlock, Tool
      <2>2. edit.context.scope \notin Partial
        BY <2>1 DEF BlockMutationAllowed, Partial, None
      <2> QED  BY <2>1, <2>2, UnscopedKeepsScope
  <1>6. ASSUME RefusedEdit \/ EmitReportPreview PROVE Goal
      <2>1. UNCHANGED <<edit, base, report>>
        BY <1>6 DEF RefusedEdit, EmitReportPreview, Tool
      <2> QED  BY <2>1, ScopeUndisturbed
  <1>7. ASSUME NEW id \in ResultIds, RecordResult(id) PROVE Goal
      <2>1. UNCHANGED <<edit, base>> /\ report' = [report EXCEPT !.results = @ \cup {id}]
        BY <1>7 DEF RecordResult
      <2>2. /\ report'.blocks = report.blocks /\ report'.charts = report.charts
            /\ report'.layout = report.layout
        BY <2>1 DEF ReportsGood, Good, IsReport, ReportState
      <2> QED  BY <2>1, <2>2, ScopeUndisturbed
  <1>8. ASSUME FinalizeReport PROVE Goal
      <2>1. UNCHANGED <<edit, base>>
            /\ report' = [report EXCEPT !.titled = TRUE, !.needsFinalize = FALSE]
        BY <1>8 DEF FinalizeReport
      <2>2. /\ report'.blocks = report.blocks /\ report'.charts = report.charts
            /\ report'.layout = report.layout
        BY <2>1 DEF ReportsGood, Good, IsReport, ReportState
      <2> QED  BY <2>1, <2>2, ScopeUndisturbed
  <1>9. ASSUME NEW a, NEW id \in BlockIds, NEW d \in Drafts, NEW before, NEW after,
               UpsertBlock(a, id, d, before, after)
        PROVE  Goal
      BY <1>9, UpsertKeepsScope
  <1>10. ASSUME NEW c \in ChartIds, NEW d \in ChartDrafts, CreateChart(c, d) PROVE Goal
      BY <1>10, ChartKeepsScope
  <1>11. ASSUME NEW l \in Layouts \cup {Plain}, ConfigureLayout(l) PROVE Goal
      BY <1>11, LayoutKeepsScope
  <1> HIDE DEF Goal
  <1>12. Goal
      BY <1>1, <1>2, <1>3, <1>4, <1>5, <1>6, <1>7, <1>8, <1>9, <1>10, <1>11 DEF Next
  <1> QED  BY <1>12 DEF Goal

-----------------------------------------------------------------------------
(* The theorems *)

\* The state after an earlier run.
LEMMA ReportInit == Init => ReportInv
  <1> SUFFICES ASSUME Init PROVE ReportInv
      OBVIOUS
  <1>1. PICK r \in Starts :
            /\ report = r /\ latest = r
            /\ snapshot = [i \in 0 .. MaxRuns |-> IF i = 0 /\ HasContent(r) THEN {r} ELSE {}]
            /\ rows = [i \in 0 .. MaxRuns |->
                          IF i = 0 /\ IsFinalized(r) /\ ~r.dropped THEN {r} ELSE {}]
      BY DEF Init
  <1>2. Good(r) /\ Good(Blank)
      BY StartsAreReports, BlankFacts DEF Good
  <1>3. ReportsGood
      BY <1>1, <1>2 DEF ReportsGood, Init
  <1>4. RunShape
      <2>1. run = [phase |-> "idle", id |-> 0] /\ step = "free" /\ edits = 0 /\ faults = 0
        BY DEF Init
      <2>2. DOMAIN snapshot = 0 .. MaxRuns /\ DOMAIN rows = 0 .. MaxRuns
        BY <1>1
      <2>3. \A i \in 0 .. MaxRuns : i > 0 => rows[i] = {}
        BY <1>1
      <2> QED  BY <2>1, <2>2, <2>3, BoundsAreNaturals DEF RunShape
  <1>5. DeliveryInv
      <2>1. Settled(r)
        <3> SUFFICES ASSUME IsFinalized(r), ~r.dropped PROVE Delivered(r)
          BY DEF Settled
        <3>1. 0 \in 0 .. MaxRuns /\ rows[0] = {r}
          BY <1>1, BoundsAreNaturals
        <3> QED  BY <3>1 DEF Delivered
      <2>2. \A i \in 0 .. MaxRuns : snapshot[i] \subseteq {r}
        BY <1>1
      <2> QED  BY <1>1, <2>1, <2>2 DEF DeliveryInv
  <1>6. ScopeCaptured /\ TargetStays /\ ScopeHolds
      <2>1. edit = Reset /\ base = Blank /\ edit.context = Unscoped
        BY DEF Init, Reset
      <2>2. Unscoped.scope \notin Partial /\ Unscoped.scope # "partial_selection"
        BY DEF Unscoped, Partial, None
      <2> QED  BY <2>1, <2>2 DEF ScopeCaptured, TargetStays, ScopeHolds, ConfigureEditState
  <1> QED  BY <1>3, <1>4, <1>5, <1>6 DEF ReportInv

\* Every step of the tools, of delivery and of recovery keeps the invariant.
THEOREM ReportInvariant == Spec => []ReportInv
  <1>1. ReportInv /\ [Next]_vars => ReportInv'
      <2> SUFFICES ASSUME ReportInv, [Next]_vars PROVE ReportInv'
        OBVIOUS
      <2>1. ReportsGood /\ RunShape /\ DeliveryInv /\ ScopeCaptured /\ TargetStays /\ ScopeHolds
        BY DEF ReportInv
      <2>2. ReportsGood'
        BY <2>1, GoodStep
      <2>3. RunShape'
        BY <2>1, ShapeStep
      <2>4. DeliveryInv'
        BY <2>1, DeliveryStep
      <2>5. (ScopeCaptured /\ TargetStays /\ ScopeHolds)'
        BY <2>1, <2>2, ScopeStep
      <2> QED  BY <2>2, <2>3, <2>4, <2>5 DEF ReportInv
  <1> QED  BY ReportInit, <1>1, PTL DEF Spec

\* The types of the report, its snapshots and rows, the scope and the run.
THEOREM ReportTypeCorrect == Spec => []TypeOK
  <1>1. ReportInv => TypeOK
      BY DEF ReportInv, ReportsGood, Good, RunShape, ScopeCaptured, TypeOK
  <1> QED  BY ReportInvariant, <1>1, PTL

\* However many calls a run makes under a partial edit scope, what lies outside is
\* as it was when the scope was configured (report_guardrails.go).
THEOREM EditStaysInScope == Spec => []ScopeHolds
  <1>1. ReportInv => ScopeHolds
      BY DEF ReportInv
  <1> QED  BY ReportInvariant, <1>1, PTL

\* Whatever reads finalized would pass finalization again: the live report, every
\* snapshot and every delivered report (reportFinalizeIssues).
THEOREM FinalizedReportIsSound == Spec => []FinalizedIsSound
  <1>1. ReportInv => FinalizedIsSound
      BY DEF ReportInv, ReportsGood, Good, FinalizedIsSound
  <1> QED  BY ReportInvariant, <1>1, PTL

\* A report that reads finalized between tool calls was delivered with this
\* content, unless the outcome of its finalization was dropped
\* (finalizeAndPersistReport, rollbackFinalizeDraft).
THEOREM FinalizedReportIsDelivered == Spec => []FinalizedIsDelivered
  <1>1. ReportInv => FinalizedIsDelivered
      BY DEF ReportInv, DeliveryInv, Settled, FinalizedIsDelivered
  <1> QED  BY ReportInvariant, <1>1, PTL

=============================================================================
