------------------------------ MODULE ReportEdit ------------------------------
(***************************************************************************)
(* The report a session edits: its blocks, charts, layout and evidence     *)
(* ledger (server/tools/report_*.go), the edit scope a user gives a run,   *)
(* the snapshots that are persisted with every edit, and the delivery of a *)
(* finalized report (server/handler/runtime_events.go, runtime_hooks.go).  *)
(*                                                                         *)
(* A block's text is a sequence of tokens: plain text, chart references    *)
(* ({{chart:id}}, the chart's own name) and Markup, which the user does    *)
(* not see and whose runes a selection therefore does not count.  Markdown *)
(* and html blocks are treated alike by all this code and are one kind,    *)
(* "text"; a title is part of the text.  An evidence reference is the name *)
(* of what it cites.  The tool call is split in two steps, what it does to *)
(* the state and what becomes of its outcome, because a run can be         *)
(* cancelled, or its event not be stored, in between.                      *)
(***************************************************************************)
EXTENDS Integers, Sequences, FiniteSets, SequencesExt

CONSTANTS
    BlockIds, ChartIds, ResultIds,
    Drafts,        \* what a call may ask a block to be: [kind, content, chart, sources]
    ChartDrafts,   \* what a call may ask a chart to be: [option, sources]
    Layouts,       \* layouts a merge may ask for
    Contexts,      \* edit contexts a user may send: [scope, block, chart, start, end, text]
    Starts,        \* reports an earlier run may have left
    MaxRuns,       \* bound: runs after the earlier one
    MaxEdits,      \* bound: tool calls that reach the report
    MaxFaults      \* bound: failed writes, cancellations and restarts

Markup == "*"
None == "none"
NoTarget == -1
Plain == "plain"

\* What the tools' arguments and the report consist of.
BlockDraft == [kind : STRING, content : Seq(STRING), chart : STRING, sources : SUBSET STRING]
ReportChart == [option : Nat, sources : SUBSET STRING]
ReportBlock == [id : STRING, kind : {"text", "chart"}, content : Seq(STRING),
                chart : STRING, sources : SUBSET STRING]
ReportState(chartIds) ==
    [blocks : Seq(ReportBlock), charts : [chartIds -> ReportChart], layout : Layouts \cup {Plain},
     titled : BOOLEAN, needsFinalize : BOOLEAN, results : SUBSET STRING, dropped : BOOLEAN]
IsReport(r) == DOMAIN r.charts \subseteq ChartIds /\ r \in ReportState(DOMAIN r.charts)

ASSUME BoundsAreNaturals == MaxRuns \in Nat /\ MaxEdits \in Nat /\ MaxFaults \in Nat
ASSUME NamesAreStrings ==
    /\ BlockIds \subseteq STRING /\ ChartIds \subseteq STRING
    /\ ResultIds \subseteq STRING
ASSUME ArgumentsTyped ==
    /\ \A d \in Drafts : d \in BlockDraft
    /\ \A d \in ChartDrafts : d \in ReportChart

VARIABLES
    report,   \* ReportState (dropped: history, see DropOutcome)
    edit,     \* ReportEditState
    base,     \* history: the report when the active edit scope was configured
    run,      \* [phase, id]; id 0 is the earlier run
    step,     \* what the current tool call has done: "free", "edited", "finalized"
    snapshot, \* run -> the last report snapshot among its events
    latest,   \* the session's last report snapshot event
    rows,     \* run -> the delivered report
    edits, faults

vars == <<report, edit, base, run, step, snapshot, latest, rows, edits, faults>>

Blank == [blocks |-> <<>>, charts |-> <<>>, layout |-> Plain, titled |-> FALSE,
          needsFinalize |-> FALSE, results |-> {}, dropped |-> FALSE]
NoBlock == [kind |-> None, content |-> <<>>, chart |-> None, sources |-> {}]
Unscoped == [scope |-> None, block |-> None, chart |-> None,
             start |-> 0, end |-> 0, text |-> <<>>]
Reset == [context |-> Unscoped, allowed |-> {}, target |-> NoBlock]

-----------------------------------------------------------------------------
(* Blocks *)

FindBlock(blocks, id) == {i \in DOMAIN blocks : blocks[i].id = id}
Without(blocks, id) ==
    IF FindBlock(blocks, id) = {} THEN blocks
    ELSE RemoveAt(blocks, Min(FindBlock(blocks, id)))
DistinctBlocks(blocks) ==
    \A i, j \in DOMAIN blocks : blocks[i].id = blocks[j].id => i = j
ChartReferences(content) == ToSet(content) \cap ChartIds

\* Where a block goes: none, or both, of the two anchors given, or one of them.
InsertIndexes(blocks, before, after) ==
    CASE before = None /\ after = None -> {Len(blocks) + 1}
      [] before # None /\ after = None -> FindBlock(blocks, before)
      [] before = None /\ after # None -> {i + 1 : i \in FindBlock(blocks, after)}
      [] OTHER -> {}

\* Structure a block must have to be built: text needs text, a chart its chart.
WellFormed(draft) ==
    CASE draft.kind = "text" -> draft.content # <<>>
      [] draft.kind = "chart" -> draft.chart # None
      [] OTHER -> FALSE

BlockOf(id, draft) == [id |-> id, kind |-> draft.kind, content |-> draft.content,
                       chart |-> draft.chart, sources |-> draft.sources]

Edited(r) == [r EXCEPT !.needsFinalize = TRUE, !.dropped = FALSE]

-----------------------------------------------------------------------------
(* The edit scope *)

\* Charts a partial edit may change: the one named, and the target block's own.
EditableCharts(blocks, block, chart) ==
    ({chart} \ {None}) \cup
    UNION {({blocks[i].chart} \ {None}) \cup ChartReferences(blocks[i].content) :
           i \in FindBlock(blocks, block)}

RefreshFromReportState(context, blocks) ==
    LET found == FindBlock(blocks, context.block)
    IN  [context |-> context,
         allowed |-> EditableCharts(blocks, context.block, context.chart),
         target |-> IF found = {} THEN NoBlock
                    ELSE LET b == blocks[CHOOSE i \in found : TRUE]
                         IN  [kind |-> b.kind, content |-> b.content,
                              chart |-> b.chart, sources |-> b.sources]]

ConfigureEditState(context, blocks) ==
    IF context = Unscoped THEN Reset ELSE RefreshFromReportState(context, blocks)

ValidContext(c) ==
    CASE c.scope \in {None, "whole_report", "layout"} -> TRUE
      [] c.scope = "partial_block" -> c.block # None
      [] c.scope = "partial_chart" -> c.chart # None
      [] c.scope = "partial_selection" -> c.block # None /\ c.text # <<>> /\ c.start < c.end
      [] OTHER -> FALSE

BlockMutationAllowed(action, id) ==
    \/ edit.context.scope \in {None, "whole_report"}
    \/ /\ edit.context.scope \in {"partial_block", "partial_selection"}
       /\ action = "upsert"
       /\ id = edit.context.block

ChartMutationAllowed(chart) ==
    \/ edit.context.scope \in {None, "whole_report"}
    \/ edit.context.scope # "layout" /\ chart \in edit.allowed

LayoutMutationAllowed == edit.context.scope \in {None, "whole_report", "layout"}

\* The positions of the content the user sees, in order.
ProjectContent(content) ==
    SelectSeq([i \in DOMAIN content |-> i], LAMBDA i : content[i] # Markup)

\* The raw range <<from, upto>> of a selection, the empty set if it no longer fits.
SelectionBounds(context, content) ==
    LET shown == ProjectContent(content)
    IN  IF /\ context.start < context.end /\ context.end <= Len(shown)
           /\ [i \in 1..(context.end - context.start) |->
                  content[shown[context.start + i]]] = context.text
        THEN {<<shown[context.start + 1], shown[context.end]>>}
        ELSE {}

\* The start and the end of the target's text must still be there.
SelectionMutationAllowed(content) ==
    LET original == edit.target.content
    IN  \E range \in SelectionBounds(edit.context, original) :
            /\ IsPrefix(SubSeq(original, 1, range[1] - 1), content)
            /\ IsSuffix(SubSeq(original, range[2] + 1, Len(original)), content)

SelectionBlockMutationAllowed(id, draft) ==
    \/ edit.context.scope # "partial_selection"
    \/ /\ id = edit.context.block
       /\ SelectionMutationAllowed(draft.content)
       /\ edit.target.kind \in {None, draft.kind}
       /\ draft.chart = edit.target.chart
       /\ draft.sources = edit.target.sources

-----------------------------------------------------------------------------
(* Finalization *)

HasContent(r) == r.blocks # <<>> \/ DOMAIN r.charts # {}
IsFinalized(r) == HasContent(r) /\ ~r.needsFinalize /\ r.titled

\* The blocks that show chart c.
Showing(r, c) ==
    {i \in DOMAIN r.blocks :
        IF r.blocks[i].kind = "chart" THEN r.blocks[i].chart = c
        ELSE c \in ChartReferences(r.blocks[i].content)}

UnknownEvidence(r) ==
    (UNION {r.blocks[i].sources : i \in DOMAIN r.blocks}
        \cup UNION {r.charts[c].sources : c \in DOMAIN r.charts})
    \ (r.results \cup DOMAIN r.charts)

ReportFinalizeIssues(r) ==
    (IF r.blocks = <<>> THEN {<<"no_blocks">>} ELSE {})
        \cup {<<"missing_chart", c>> : c \in {c \in ChartIds \ DOMAIN r.charts : Showing(r, c) # {}}}
        \cup {<<"duplicate_chart", c>> : c \in {c \in ChartIds : Cardinality(Showing(r, c)) > 1}}
        \cup {<<"unknown_evidence", e>> : e \in UnknownEvidence(r)}

\* What LoadReportSnapshot accepts: names used once, text in text blocks, a chart
\* in chart blocks; a text block that names a chart is refused.
Restorable(r) ==
    /\ DistinctBlocks(r.blocks)
    /\ \A i \in DOMAIN r.blocks :
           IF r.blocks[i].kind = "text"
           THEN r.blocks[i].content # <<>> /\ r.blocks[i].chart = None
           ELSE r.blocks[i].chart # None

LoadReportSnapshotMutant(current, saved) ==
    [current EXCEPT !.titled = saved.titled, !.layout = saved.layout,
        !.needsFinalize = saved.needsFinalize, !.blocks = saved.blocks,
        !.charts = saved.charts, !.dropped = saved.dropped]

\* The snapshot replaces title, layout, delivery mark, blocks, charts and ledger.
LoadReportSnapshot(current, saved) ==
    [current EXCEPT !.titled = saved.titled, !.layout = saved.layout,
        !.needsFinalize = saved.needsFinalize, !.blocks = saved.blocks,
        !.charts = saved.charts, !.results = saved.results, !.dropped = saved.dropped]

\* A report an earlier run can have left: its blocks have names of their own, and
\* it was finalized only if nothing stood against it (ReportEditProofs).
Sound(r) == IsFinalized(r) => ReportFinalizeIssues(r) = {}

ASSUME StartsAreReports ==
    \A r \in Starts : IsReport(r) /\ DistinctBlocks(r.blocks) /\ Sound(r)

-----------------------------------------------------------------------------
(* Runs *)

Init ==
    /\ \E r \in Starts :
           /\ report = r
           /\ latest = r
           /\ snapshot = [i \in 0..MaxRuns |-> IF i = 0 /\ HasContent(r) THEN {r} ELSE {}]
           /\ rows = [i \in 0..MaxRuns |->
                         IF i = 0 /\ IsFinalized(r) /\ ~r.dropped THEN {r} ELSE {}]
    /\ edit = Reset
    /\ base = Blank
    /\ run = [phase |-> "idle", id |-> 0]
    /\ step = "free"
    /\ edits = 0
    /\ faults = 0

\* The report of a target run: the delivered one, else its last snapshot.
TargetReport(target) == IF rows[target] # {} THEN rows[target] ELSE snapshot[target]

\* PrepareUserRun: nothing changes unless the target loads.
PrepareUserRun(context, target) ==
    /\ ValidContext(context)
    /\ \/ target = NoTarget /\ UNCHANGED report
       \/ /\ target # NoTarget
          /\ \E saved \in TargetReport(target) :
              /\ Restorable(saved)
              /\ report' = LoadReportSnapshot(report, saved)
    /\ edit' = ConfigureEditState(context, report'.blocks)
    /\ base' = IF context = Unscoped THEN Blank ELSE report'

\* ChatHandler: a new run.  A target that does not load starts no run.
StartRun(context, target) ==
    /\ run.phase = "idle" /\ run.id < MaxRuns
    /\ PrepareUserRun(context, target)
    /\ run' = [phase |-> "running", id |-> run.id + 1]
    /\ UNCHANGED <<step, snapshot, latest, rows, edits, faults>>

\* SubmitUserInputHandler answers without a context; a chat message answers with
\* the one the user sent.
ResumeRun(context, target) ==
    /\ run.phase = "waiting"
    /\ PrepareUserRun(context, target)
    /\ run' = [run EXCEPT !.phase = "running"]
    /\ UNCHANGED <<step, snapshot, latest, rows, edits, faults>>

AskUser ==
    /\ run.phase = "running" /\ step = "free"
    /\ run' = [run EXCEPT !.phase = "waiting"]
    /\ UNCHANGED <<report, edit, base, step, snapshot, latest, rows, edits, faults>>

\* FinishRun clears the edit scope with the run.
Over ==
    /\ run' = [run EXCEPT !.phase = "idle"]
    /\ edit' = Reset
    /\ base' = Blank
    /\ step' = "free"

RunEnds ==
    /\ run.phase \in {"running", "waiting"} /\ step = "free"
    /\ Over
    /\ UNCHANGED <<report, snapshot, latest, rows, edits, faults>>

-----------------------------------------------------------------------------
(* The report tools.  A refused edit has an outcome too, and a preview. *)

Tool ==
    /\ run.phase = "running" /\ step = "free" /\ edits < MaxEdits
    /\ edits' = edits + 1
    /\ step' = "edited"
    /\ UNCHANGED <<base, run, snapshot, latest, rows, faults>>

\* The places an upsert may put a block: its old one, unless an anchor is given.
UpsertIndexes(id, before, after) ==
    IF before = None /\ after = None /\ FindBlock(report.blocks, id) # {}
    THEN FindBlock(report.blocks, id)
    ELSE InsertIndexes(Without(report.blocks, id), before, after)

UpsertAllowed(action, id, draft) ==
    /\ WellFormed(draft)
    /\ action = "append" => FindBlock(report.blocks, id) = {}
    /\ BlockMutationAllowed(action, id)
    /\ SelectionBlockMutationAllowed(id, draft)

UpsertBlockMutant(action, id, draft, before, after) ==
    /\ Tool
    /\ UpsertAllowed(action, id, draft)
    /\ \E i \in UpsertIndexes(id, before, after) :
           report' = [Edited(report) EXCEPT
               !.blocks = InsertAt(Without(@, id), i, BlockOf(id, draft))]
    /\ edit' = ConfigureEditState(edit.context, report'.blocks)

UpsertBlock(action, id, draft, before, after) ==
    /\ Tool
    /\ UpsertAllowed(action, id, draft)
    /\ \E i \in UpsertIndexes(id, before, after) :
           report' = [Edited(report) EXCEPT
               !.blocks = InsertAt(Without(@, id), i, BlockOf(id, draft))]
    /\ UNCHANGED edit

RemoveBlock(id) ==
    /\ Tool
    /\ BlockMutationAllowed("remove", id)
    /\ FindBlock(report.blocks, id) # {}
    /\ report' = [Edited(report) EXCEPT !.blocks = Without(@, id)]
    /\ UNCHANGED edit

MoveBlock(id, before, after) ==
    /\ Tool
    /\ BlockMutationAllowed("move", id)
    /\ \E from \in FindBlock(report.blocks, id),
          to \in InsertIndexes(Without(report.blocks, id), before, after) :
           report' = [Edited(report) EXCEPT
               !.blocks = InsertAt(Without(@, id), to, report.blocks[from])]
    /\ UNCHANGED edit

CreateChart(chart, draft) ==
    /\ Tool
    /\ ChartMutationAllowed(chart)
    /\ report' = [Edited(report) EXCEPT
           !.charts = [c \in DOMAIN @ \cup {chart} |-> IF c = chart THEN draft ELSE @[c]]]
    /\ UNCHANGED edit

\* merge gives a layout, reset the plain one
ConfigureLayout(layout) ==
    /\ Tool
    /\ LayoutMutationAllowed
    /\ report' = [Edited(report) EXCEPT !.layout = layout]
    /\ UNCHANGED edit

RefusedEdit == Tool /\ UNCHANGED <<report, edit>>

\* An analysis tool records what it found; no preview follows.
RecordResult(id) ==
    /\ run.phase = "running" /\ step = "free"
    /\ report' = [report EXCEPT !.results = @ \cup {id}]
    /\ UNCHANGED <<edit, base, run, step, snapshot, latest, rows, edits, faults>>

\* Active goals may refuse it as well (Delegation); a refusal changes nothing.
FinalizeReport ==
    /\ run.phase = "running" /\ step = "free"
    /\ ~IsFinalized(report)
    /\ ReportFinalizeIssues(report) = {}
    /\ report' = [report EXCEPT !.titled = TRUE, !.needsFinalize = FALSE]
    /\ step' = "finalized"
    /\ UNCHANGED <<edit, base, run, snapshot, latest, rows, edits, faults>>

-----------------------------------------------------------------------------
(* What becomes of a tool call's outcome *)

Saved(r) ==
    /\ snapshot' = [snapshot EXCEPT ![run.id] = {r}]
    /\ latest' = r

\* emitReportPreviewUpdate: every edit, refused ones too, stores a snapshot.
EmitReportPreview ==
    /\ step = "edited"
    /\ Saved(report)
    /\ step' = "free"
    /\ UNCHANGED <<report, edit, base, run, rows, edits, faults>>

Fault == faults < MaxFaults /\ faults' = faults + 1

\* The run was cancelled while the tool ran, so the engine drops the result; or
\* the result, or the preview after it, could not be stored, so the dispatcher
\* cancels the run.  No hook sees the result and the report stays as the tool
\* left it.
DropOutcome ==
    /\ step # "free"
    /\ Fault
    /\ report' = [report EXCEPT !.dropped = @ \/ step = "finalized"]
    /\ Over
    /\ UNCHANGED <<snapshot, latest, rows, edits>>

\* finalizeAndPersistReport: the report row with its file, then the final event.
\* The engine answers once more without tools and the run completes.
DeliverReport ==
    /\ step = "finalized"
    /\ rows' = [rows EXCEPT ![run.id] = {report}]
    /\ Saved(report)
    /\ Over
    /\ UNCHANGED <<report, edits, faults>>

RollbackFinalizeDraftMutant(r) == r

RollbackFinalizeDraft(r) == [r EXCEPT !.needsFinalize = TRUE]

\* A delivery that fails before the row, or at the event after it.
DeliverFails ==
    /\ step = "finalized"
    /\ Fault
    /\ \/ UNCHANGED rows
       \/ rows' = [rows EXCEPT ![run.id] = {report}]
    /\ report' = RollbackFinalizeDraft(report)
    /\ Over
    /\ UNCHANGED <<snapshot, latest, edits>>

\* The process restarts and the session is hydrated from its events.  A run that
\* was waiting is restored; a snapshot that does not load leaves a blank session.
\* No event ever records an active edit scope.
Restart ==
    /\ Fault
    /\ report' = IF Restorable(latest) THEN LoadReportSnapshot(Blank, latest) ELSE Blank
    /\ edit' = Reset
    /\ base' = Blank
    /\ run' = IF run.phase = "waiting" /\ Restorable(latest) THEN run
              ELSE [run EXCEPT !.phase = "idle"]
    /\ step' = "free"
    /\ UNCHANGED <<snapshot, latest, rows, edits>>

\* CaptureReportViewHandler hydrates a session whose report shows no block, also a
\* live one in the middle of a run: the last snapshot, if one was stored, replaces
\* the report, and the run goes on without its edit scope.  Reading the events
\* and loading what they hold is one step.
CaptureReportView ==
    /\ report.blocks = <<>> /\ Restorable(latest)
    /\ report' = IF \E i \in 0..MaxRuns : snapshot[i] # {}
                 THEN LoadReportSnapshot(report, latest) ELSE report
    /\ edit' = Reset
    /\ base' = Blank
    /\ UNCHANGED <<run, step, snapshot, latest, rows, edits, faults>>

Anchors == BlockIds \cup {None}

Next ==
    \/ \E c \in Contexts, t \in NoTarget..run.id : StartRun(c, t) \/ ResumeRun(c, t)
    \/ AskUser \/ RunEnds
    \/ \E a \in {"append", "upsert"}, id \in BlockIds, d \in Drafts,
          before \in Anchors, after \in Anchors : UpsertBlock(a, id, d, before, after)
    \/ \E id \in BlockIds : RemoveBlock(id)
    \/ \E id \in BlockIds, before \in Anchors, after \in Anchors : MoveBlock(id, before, after)
    \/ \E c \in ChartIds, d \in ChartDrafts : CreateChart(c, d)
    \/ \E l \in Layouts \cup {Plain} : ConfigureLayout(l)
    \/ RefusedEdit
    \/ \E id \in ResultIds : RecordResult(id)
    \/ FinalizeReport
    \/ EmitReportPreview \/ DropOutcome \/ DeliverReport \/ DeliverFails
    \/ Restart \/ CaptureReportView

Spec == Init /\ [][Next]_vars

-----------------------------------------------------------------------------
(* Properties *)

TypeOK ==
    /\ IsReport(report) /\ IsReport(base) /\ IsReport(latest)
    /\ edit.context \in Contexts \cup {Unscoped}
    /\ run \in [phase : {"idle", "running", "waiting"}, id : 0..MaxRuns]
    /\ step \in {"free", "edited", "finalized"}
    /\ DOMAIN snapshot = 0..MaxRuns /\ DOMAIN rows = 0..MaxRuns
    /\ \A i \in 0..MaxRuns : \A r \in snapshot[i] \cup rows[i] : IsReport(r)
    /\ edits \in 0..MaxEdits /\ faults \in 0..MaxFaults

Partial == {"partial_block", "partial_chart", "partial_selection", "layout"}
Rest(r) == IF edit.context.scope \in {"partial_block", "partial_selection"}
           THEN Without(r.blocks, edit.context.block)
           ELSE r.blocks
ChartsIn(r, chart) == IF chart \in DOMAIN r.charts THEN {r.charts[chart]} ELSE {}

\* However many calls a run makes under a partial edit scope, everything outside
\* the scope is what it was when the scope was configured: the other blocks and
\* their order, the charts the target did not show then, the layout, and, in a
\* selection, the target's kind, chart, citations and the text before and after.
\* It would fail if a call widened its own scope, since the guards of
\* report_guardrails.go read the scope as captured and the report as it is now.
ScopeHolds ==
    edit.context.scope \in Partial =>
        /\ Rest(report) = Rest(base)
        /\ \A c \in ChartIds \ EditableCharts(base.blocks, edit.context.block, edit.context.chart) :
               ChartsIn(report, c) = ChartsIn(base, c)
        /\ edit.context.scope = "layout" => report.charts = base.charts
        /\ edit.context.scope # "layout" => report.layout = base.layout
        /\ edit.context.scope = "partial_selection" =>
               \A i \in FindBlock(base.blocks, edit.context.block) :
                   LET was == base.blocks[i]
                       now == report.blocks[CHOOSE j \in FindBlock(report.blocks, was.id) : TRUE]
                   IN  \/ now = was
                       \/ /\ [now EXCEPT !.content = was.content] = was
                          /\ \E range \in SelectionBounds(edit.context, was.content) :
                                 /\ IsPrefix(SubSeq(was.content, 1, range[1] - 1), now.content)
                                 /\ IsSuffix(SubSeq(was.content, range[2] + 1, Len(was.content)), now.content)

\* A report whose delivery state reads "finalized" (describeReportDeliveryState)
\* would pass finalization again: it shows existing charts once each and cites
\* only evidence in its ledger, after any edit, load, rollback or restart.
FinalizedIsSound ==
    \A r \in {report} \cup UNION {rows[i] \cup snapshot[i] : i \in 0..MaxRuns} : Sound(r)

Content(r) == <<r.blocks, r.charts, r.layout, r.titled>>
Delivered(r) == \E i \in 0..MaxRuns : \E row \in rows[i] : Content(row) = Content(r)

\* A session whose report reads "finalized" between tool calls has a delivered
\* report with exactly this content (finalizeAndPersistReport and the rollback in
\* reportLifecycleHook), unless the outcome of report_finalize itself was dropped.
FinalizedIsDelivered ==
    step # "finalized" /\ IsFinalized(report) /\ ~report.dropped => Delivered(report)

\* Violated (DropOutcome): the same with nothing excepted.
FinalizedMeansDelivered == step # "finalized" /\ IsFinalized(report) => Delivered(report)

\* Violated (UpsertBlock with a text draft that names a chart): every stored
\* snapshot can be restored.
SnapshotRestorable == Restorable(latest)

\* Violated: under a selection the target's text is the old one with the selected
\* part replaced, the text before and the text after both kept whole.
SelectionProtected ==
    edit.context.scope = "partial_selection" =>
        \A i \in FindBlock(report.blocks, edit.context.block) :
            \A range \in SelectionBounds(edit.context, edit.target.content) :
                Len(report.blocks[i].content) >= Len(edit.target.content) - (range[2] - range[1] + 1)

\* Violated (ResumeRun without a context): an answer leaves the scope of its run.
ScopeKept ==
    [][run.phase = "waiting" /\ run'.phase = "running" => edit'.context = edit.context]_vars
=============================================================================
