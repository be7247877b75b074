----------------------------- MODULE Delegation -----------------------------
(***************************************************************************)
(* Delegated work and the state it shares with the parent run: the         *)
(* task_delegate tool and the child run it drives, the registry of child   *)
(* conversations, the goal tree, working memory, and what of all this      *)
(* survives when the session leaves memory and is built again from the     *)
(* log of its root runs.                                                   *)
(*                                                                         *)
(* task_delegate is an "action" tool and a session has one run at a time,  *)
(* so at most one delegation is in progress; the child's registry does not *)
(* hold task_delegate or goal_manage, but does hold memory_save_entry.     *)
(***************************************************************************)
EXTENDS Conversation

CONSTANTS
    Keys,           \* working-memory keys
    MaxRetained,    \* maxRetainedChildren
    MaxIterations,  \* maxWorkerIterations
    MaxBatch,       \* tool calls of one child message
    RecentWindow,   \* recentContextWindow
    MaxGoals,       \* maxGoals
    MaxEntries,     \* maxMemoryEntries
    MaxDelegations, \* bound: task_delegate calls that start a child run
    MaxFaults,      \* bound: repository operations that fail
    MaxStops        \* bound: times the session leaves memory

ASSUME DelegationAssumption ==
    /\ {MaxRetained, MaxIterations, MaxBatch, RecentWindow} \subseteq Nat \ {0}
    /\ {MaxGoals, MaxEntries, MaxDelegations, MaxFaults, MaxStops} \subseteq Nat

VARIABLES
    rows,      \* status of the child runs' rows, in the order they were created
    reports,   \* what task_delegate told the parent of each child run
    agents,    \* ChildAgentRegistry.agents: id -> conversation and goal
    order,     \* ChildAgentRegistry.order
    call,      \* the task_delegate execution in progress
    goals,     \* SubgoalManager.Goals; a goal's id is its position
    memory,    \* WorkingMemory.Entries: its keys
    log,       \* newest goal and memory snapshots in the root runs' events
    live,      \* the session object is in memory
    stale,     \* child runs that were running when the process stopped
    faults, stops

vars == <<rows, reports, agents, order, call, goals, memory, log,
          live, stale, faults, stops>>

Idle == [pc |-> "idle", run |-> 0, child |-> 0, history |-> <<>>, iteration |-> 0,
         batch |-> <<>>]

NoReport == [status |-> "none", child |-> 0, errors |-> FALSE]

Init ==
    /\ rows = <<>> /\ reports = <<>> /\ agents = <<>> /\ order = <<>>
    /\ call = Idle
    /\ goals = <<>> /\ memory = {} /\ log = [goals |-> <<>>, memory |-> {}]
    /\ live = TRUE /\ stale = {} /\ faults = 0 /\ stops = 0

\* A repository operation fails or not.
Failing(bad) ==
    /\ bad => faults < MaxFaults
    /\ faults' = IF bad THEN faults + 1 ELSE faults

-----------------------------------------------------------------------------
(***************************************************************************)
(* SubgoalManager and goal_manage.                                         *)
(***************************************************************************)
Terminal(g) == g.status \in {"complete", "rejected"}

\* AddGoalWithBlocking without its limit.
AddGoalWithBlockingMutant(gs, parent, blocking) ==
    Append(gs, [parent |-> parent, blocking |-> blocking, status |-> "pending"])

\* AddGoalWithBlocking: the tree unchanged when the limit is reached or the
\* parent does not exist.
AddGoalWithBlocking(gs, parent, blocking) ==
    IF Len(gs) >= MaxGoals \/ parent \notin 0 .. Len(gs) THEN gs
    ELSE Append(gs, [parent |-> parent, blocking |-> blocking, status |-> "pending"])

UpdateGoalStatus(gs, g, status) == [gs EXCEPT ![g].status = status]

\* collectActiveBranchLines, with a branch named by the goal it ends at,
\* when any child, finished or not, continues a branch.
CollectActiveBranchLinesMutant(gs) ==
    LET children(g) == {c \in DOMAIN gs : gs[c].parent = g}
        ends[g \in DOMAIN gs] ==
            IF Terminal(gs[g]) THEN {}
            ELSE IF children(g) = {} THEN {g} ELSE UNION {ends[c] : c \in children(g)}
    IN UNION {ends[g] : g \in {r \in DOMAIN gs : gs[r].parent = 0 /\ gs[r].blocking}}

\* collectActiveBranchLines, with a branch named by the goal it ends at.
CollectActiveBranchLines(gs) ==
    LET open(g) == {c \in DOMAIN gs : gs[c].parent = g /\ ~Terminal(gs[c])}
        ends[g \in DOMAIN gs] ==
            IF open(g) = {} THEN {g} ELSE UNION {ends[c] : c \in open(g)}
        roots == {r \in DOMAIN gs : gs[r].parent = 0 /\ gs[r].blocking /\ ~Terminal(gs[r])}
    IN UNION {ends[r] : r \in roots}

CanFinalize(gs) == CollectActiveBranchLines(gs) = {}

\* ReplaceAll accepts a persisted tree.
ReplaceAllAccepts(gs) ==
    /\ Len(gs) <= MaxGoals
    /\ \A g \in DOMAIN gs : gs[g].parent \in 0 .. Len(gs)
    /\ ~\E loop \in SUBSET DOMAIN gs :
          loop # {} /\ \A g \in loop : gs[g].parent \in loop

\* emitUpdate: the snapshot is persisted under the root run, or the write
\* fails and the dispatcher cancels the run.
EmitGoals(bad) ==
    /\ Failing(bad)
    /\ log' = IF bad THEN log ELSE [log EXCEPT !.goals = goals']

\* goal_manage, action add, complete or reject, called by the parent run.
ManageSubgoals ==
    /\ live /\ call.pc = "idle"
    /\ \/ \E parent \in 0 .. Len(goals), blocking \in BOOLEAN :
            goals' = AddGoalWithBlocking(goals, parent, blocking)
       \/ \E g \in DOMAIN goals, status \in {"complete", "rejected"} :
            goals' = UpdateGoalStatus(goals, g, status)
    /\ goals' # goals
    /\ \E bad \in BOOLEAN : EmitGoals(bad)
    /\ UNCHANGED <<rows, reports, agents, order, call, memory, live, stale, stops>>

-----------------------------------------------------------------------------
(***************************************************************************)
(* WorkingMemory and memory_save_entry.                                    *)
(***************************************************************************)
SaveEntry(m, key) ==
    IF Cardinality(m) >= MaxEntries /\ key \notin m THEN m ELSE m \union {key}

ReplaceEntriesAccepts(m) == Cardinality(m) <= MaxEntries

\* Called by the parent: the event belongs to the root run.
SaveMemory ==
    /\ live /\ call.pc = "idle"
    /\ \E key \in Keys, bad \in BOOLEAN :
        /\ memory' = SaveEntry(memory, key) /\ memory' # memory
        /\ Failing(bad)
        /\ log' = IF bad THEN log ELSE [log EXCEPT !.memory = memory']
    /\ UNCHANGED <<rows, reports, agents, order, call, goals, live, stale, stops>>

-----------------------------------------------------------------------------
(***************************************************************************)
(* ChildAgentRegistry.                                                     *)
(***************************************************************************)
\* evictLocked: the oldest conversations beyond the bound are dropped.
Evict(o) ==
    /\ order' = SubSeq(o, Max({1, Len(o) - MaxRetained + 1}), Len(o))
    /\ agents' = [a \in ToSet(order') |-> IF a \in DOMAIN agents THEN agents[a] ELSE <<>>]

Create(id) == Evict(Append(order, id))

\* Save: what is not retained any more is not brought back.
Save(id, history) ==
    agents' = IF id \in DOMAIN agents THEN [agents EXCEPT ![id] = history] ELSE agents

-----------------------------------------------------------------------------
(***************************************************************************)
(* task_delegate: validation, the child run's row, and the conversation it *)
(* starts from.  A refused call, or a row that cannot be written, changes  *)
(* nothing.  The ids a parent can name are the ones it was given.          *)
(***************************************************************************)
Told == {reports[r].child : r \in DOMAIN reports} \ {0}

StartChildRun == rows' = Append(rows, "running") /\ reports' = Append(reports, NoReport)

\* The instruction travels behind the conversation the child already had.
SeedConversation(child, prior) ==
    call' = [Idle EXCEPT !.pc = "loop", !.run = Len(rows) + 1, !.child = child,
               !.history = Append(prior, User(Len(rows) + 1))]

DelegateTask ==
    /\ live /\ call.pc = "idle" /\ Len(rows) < MaxDelegations
    /\ StartChildRun
    /\ \/ \* action = start
          SeedConversation(Len(rows) + 1, <<>>) /\ Create(Len(rows) + 1)
       \/ \* action = continue; an id the registry does not know is refused
          \E id \in Told \intersect DOMAIN agents :
            SeedConversation(id, agents[id]) /\ UNCHANGED <<agents, order>>
    /\ UNCHANGED <<goals, memory, log, live, stale, faults, stops>>

(***************************************************************************)
(* The end of a delegation.  UpdateChildRunStatus writes the row, reads it *)
(* back, and a token event follows, all detached from the run's context;   *)
(* a completion writes the summary first.  "lost" is a failed status       *)
(* write, "unread" any other failure.  The status is told only when        *)
(* nothing failed, the conversation's id only on success.                  *)
(***************************************************************************)
\* The status is told whatever the repository answered.
StatusFactsMutant(status, bad) ==
    [status |-> status, errors |-> FALSE,
     child |-> IF status = "completed" THEN call.child ELSE 0]

\* delegateStatusFacts and the id of a successful delegation
StatusFacts(status, bad) ==
    IF bad # "no" THEN [NoReport EXCEPT !.errors = TRUE]
    ELSE [status |-> status, errors |-> FALSE,
          child |-> IF status = "completed" THEN call.child ELSE 0]

UpdateChildRunStatus(status, bad) ==
    rows' = IF bad = "lost" THEN rows ELSE [rows EXCEPT ![call.run] = status]

\* persistDelegateFailure and persistDelegateCompletion
Persist(status, bad) ==
    /\ UpdateChildRunStatus(status, bad)
    /\ reports' = [reports EXCEPT ![call.run] = StatusFacts(status, bad)]

\* The deferred Save runs whatever the result.
Return(status, history) ==
    /\ \E bad \in {"no", "lost", "unread"} : Failing(bad # "no") /\ Persist(status, bad)
    /\ Save(call.child, history)
    /\ call' = Idle
    /\ UNCHANGED <<order, goals, memory, log, live, stale, stops>>

\* The loop's head: the iteration limit, a context that is done (the run was
\* or five minutes have passed), or one more request.
LoopHead ==
    /\ call.pc = "loop"
    /\ \/ call.iteration = MaxIterations /\ Return("failed", call.history)
       \/ call.iteration < MaxIterations /\ Return("cancelled", call.history)
       \/ /\ call.iteration < MaxIterations
          /\ call' = [call EXCEPT !.pc = "model", !.iteration = @ + 1]
          /\ UNCHANGED <<rows, reports, agents, order, goals, memory, log,
                         live, stale, faults, stops>>

\* compactWorkerBundle: under pressure only the newest items are kept.
CompactWorkerBundle(h, pressure) ==
    IF ~pressure \/ Len(h) <= RecentWindow THEN h
    ELSE SubSeq(h, AdjustCompactionBoundary(h, Len(h) - RecentWindow) + 1, Len(h))

Busy == UNCHANGED <<rows, reports, agents, order, goals, memory, log, live,
                    stale, faults, stops>>

\* The child's answer: an error or no choice, a final text, neither text to
\* stop at nor calls, or a batch of calls.
ModelAnswers ==
    /\ call.pc = "model"
    /\ \/ Return("failed", call.history)
       \/ \E pressure \in BOOLEAN :
            LET h == CompactWorkerBundle(call.history, pressure) IN
            \/ Return("completed", Append(h, Assistant(call.iteration, <<>>)))
            \/ call' = [call EXCEPT !.pc = "loop", !.history = h] /\ Busy
            \/ \E k \in 1 .. MaxBatch :
                 /\ call' = [call EXCEPT !.pc = "tools", !.batch = [j \in 1 .. k |-> j],
                               !.history = Append(h, Assistant(0, [j \in 1 .. k |-> j]))]
                 /\ Busy

\* One call of the child's batch; it may save to working memory.  Its events
\* belong to the child run, and the batch is not interrupted by a cancellation.
ToolCall ==
    /\ call.pc = "tools"
    /\ call' = [call EXCEPT !.batch = Tail(@),
                  !.pc = IF Len(call.batch) = 1 THEN "loop" ELSE "tools",
                  !.history = Append(@, ToolResult(Head(call.batch), 0))]
    /\ \/ UNCHANGED memory
       \/ \E key \in Keys : memory' = SaveEntry(memory, key)
    /\ UNCHANGED <<rows, reports, agents, order, goals, log, live, stale,
                   faults, stops>>

-----------------------------------------------------------------------------
(***************************************************************************)
(* The process stops, or the idle session is evicted.                      *)
(***************************************************************************)
Stop ==
    /\ live /\ stops < MaxStops /\ stops' = stops + 1
    /\ live' = FALSE /\ call' = Idle
    /\ agents' = <<>> /\ order' = <<>> /\ goals' = <<>> /\ memory' = {}
    /\ stale' = stale \union {r \in DOMAIN rows : r = call.run}
    /\ UNCHANGED <<rows, reports, log, faults>>

\* recoverStaleRunTree, for a session that is not live.
RecoverStaleRunTree ==
    /\ ~live /\ \E r \in DOMAIN rows : rows[r] = "running"
    /\ rows' = [r \in DOMAIN rows |-> IF rows[r] = "running" THEN "failed" ELSE rows[r]]
    /\ stale' = {}
    /\ UNCHANGED <<reports, agents, order, call, goals, memory, log, live,
                   faults, stops>>

LoadRuntimeStateEntries(state) ==
    /\ ReplaceAllAccepts(state.goals) /\ ReplaceEntriesAccepts(state.memory)
    /\ goals' = state.goals /\ memory' = state.memory

\* hydrateSessionFromPersistence and deriveRuntimeStateFromMessages: the
\* newest snapshots of the root runs' events.
Hydrate ==
    /\ ~live /\ live' = TRUE /\ LoadRuntimeStateEntries(log)
    /\ UNCHANGED <<rows, reports, agents, order, call, log, stale, faults, stops>>

Next ==
    \/ ManageSubgoals \/ SaveMemory \/ DelegateTask \/ LoopHead
    \/ ModelAnswers \/ ToolCall \/ Stop \/ RecoverStaleRunTree \/ Hydrate

Spec == Init /\ [][Next]_vars

-----------------------------------------------------------------------------
Statuses == {"running", "completed", "failed", "cancelled"}

Report == [status : {"none", "completed", "failed", "cancelled"}, child : Nat,
           errors : BOOLEAN]

Goal == [parent : Nat, blocking : BOOLEAN, status : {"pending", "complete", "rejected"}]

Execution == [pc : {"idle", "loop", "model", "tools"}, run : Nat, child : Nat,
              history : Seq(ConversationItem), iteration : 0 .. MaxIterations,
              batch : Seq(Nat)]

\* The variables hold what the code can put there.
TypeOK ==
    /\ rows \in Seq(Statuses) /\ reports \in Seq(Report) /\ Len(reports) = Len(rows)
    /\ agents \in [DOMAIN agents -> Seq(ConversationItem)] /\ order \in Seq(Nat)
    /\ call \in Execution
    /\ goals \in Seq(Goal) /\ memory \subseteq Keys
    /\ log \in [goals : Seq(Goal), memory : SUBSET Keys]
    /\ stale \subseteq Nat /\ {faults, stops} \subseteq Nat /\ live \in BOOLEAN

(***************************************************************************)
(* What the parent was told of a child run is what its row says, and a row *)
(* left "running" is the delegation in progress, one whose return reported *)
(* persistence errors, or one the process was killed in and recovery has   *)
(* not reached (persistDelegateFailure, "or the child run row stays        *)
(* running forever").                                                      *)
(***************************************************************************)
RowMatchesReport ==
    \A r \in DOMAIN rows :
        /\ reports[r].status # "none" => rows[r] = reports[r].status
        /\ rows[r] = "running" => call.run = r \/ reports[r].errors \/ r \in stale

(***************************************************************************)
(* Every request of a child, and every conversation kept for a follow-up,  *)
(* has its results behind their calls, whatever was trimmed and however    *)
(* the earlier turns of the child ended.                                   *)
(***************************************************************************)
ChildConversationPaired ==
    /\ call.pc = "model" => Paired(call.history)
    /\ \A a \in DOMAIN agents : Paired(agents[a])

(***************************************************************************)
(* The registry's map and its order name the same conversations, no more   *)
(* of them than the bound, and the one being driven is among them.         *)
(***************************************************************************)
RegistryConsistent ==
    /\ DOMAIN agents = ToSet(order) /\ IsInjective(order)
    /\ Len(order) <= MaxRetained
    /\ call.pc # "idle" => call.child \in DOMAIN agents

(***************************************************************************)
(* The finalize gate is closed exactly while a blocking root goal is open, *)
(* whatever the state of the goals below it (CanFinalize).                 *)
(***************************************************************************)
FinalizeGate ==
    CanFinalize(goals) <=>
        ~\E g \in DOMAIN goals :
            goals[g].parent = 0 /\ goals[g].blocking /\ ~Terminal(goals[g])

(***************************************************************************)
(* What the session persists, its loader accepts: a stopped session can    *)
(* always be built again (ReplaceAll, ReplaceEntries).                     *)
(***************************************************************************)
RestoreAccepted ==
    ReplaceAllAccepts(log.goals) /\ ReplaceEntriesAccepts(log.memory)

(***************************************************************************)
(* An entry saved to working memory survives the session's eviction        *)
(* (docs/agentic-principles.md, "Decisions that must survive the context   *)
(* window are written explicitly by the model to working memory").  It     *)
(* does not hold: a child's entry is logged under the child run, and the   *)
(* session is rebuilt from the events of its root runs.                    *)
(***************************************************************************)
MemorySurvives == live => memory \subseteq log.memory
=============================================================================
