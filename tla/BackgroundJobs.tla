---------------------------- MODULE BackgroundJobs ----------------------------
(***************************************************************************)
(* The session's JobManager: analysis tools submitted by one turn and run   *)
(* in the background, the notices of their completion that ride the next    *)
(* model request, and the execution context the shared tool instances carry *)
(* in a field.  The engine goroutine is reduced to what touches them: it     *)
(* prepares the tools when a run starts, builds a request (twice when it     *)
(* compacts), sends it, and submits jobs in the tool batch that follows.     *)
(*                                                                         *)
(* Each job is a goroutine with a program counter jpc[j]; job IDs are        *)
(* fresh, so a job is named by its ID.                                       *)
(***************************************************************************)
EXTENDS Naturals, Sequences, FiniteSets

CONSTANTS Job,          \* the job IDs that may be drawn
          Tool,         \* jobAllowedTools
          Unset,        \* no job, no context
          MaxRetained,  \* maxRetainedJobs
          MaxRuns       \* how many runs the session starts

ASSUME BackgroundJobsAssumption ==
    /\ Unset \notin Job
    /\ MaxRetained \in Nat \ {0}
    /\ MaxRuns \in Nat

VARIABLES
    status,       \* JobManager.jobs[j].Status; "none", "gone": not in the map
    order,        \* JobManager.order
    unannounced,  \* JobManager.unannounced
    jpc,          \* where the goroutine of each job is
    execMu,       \* the job that holds JobManager.execMu
    jobTool,      \* the tool of each job
    jobCtx,       \* the context each job was submitted with
    usedCtx,      \* the context its tool's Execute worked with
    toolCtx,      \* the context field of each shared tool instance
    run,          \* the number of the newest run
    phase,        \* where the engine goroutine is
    bundle,       \* jobs whose notice is in the request being built
    sent          \* how often each job's notice was sent to the model

manager == <<status, order, unannounced>>
jobs    == <<jpc, execMu, jobTool, jobCtx, usedCtx>>
request == <<bundle, sent>>
jobsVars == <<manager, jobs, toolCtx, run, phase, request>>

\* A run's context, and the same without its cancellation.
Ctx == [run : 0 .. MaxRuns, detached : BOOLEAN]
RunCtx(r) == [run |-> r, detached |-> FALSE]
WithoutCancel(c) == [c EXCEPT !.detached = TRUE]

Finished(j) == status[j] \in {"succeeded", "failed"}
Retained(j) == status[j] = "running" \/ Finished(j)

JobsInit ==
    /\ status = [j \in Job |-> "none"]
    /\ order = <<>> /\ unannounced = <<>>
    /\ jpc = [j \in Job |-> "none"]
    /\ execMu = Unset
    /\ jobTool \in [Job -> Tool]
    /\ jobCtx = [j \in Job |-> Unset]
    /\ usedCtx = [j \in Job |-> Unset]
    /\ toolCtx = [t \in Tool |-> RunCtx(0)]
    /\ run = 0 /\ phase = "idle"
    /\ bundle = {} /\ sent = [j \in Job |-> 0]

-----------------------------------------------------------------------------
(* JobManager.                                                              *)

FinishedUpTo(s, i) == Cardinality({k \in 1 .. i : Finished(s[k])})

\* evictLocked's loop: the oldest finished jobs beyond the retention bound.
Evicted(s) ==
    LET old(k) == Finished(s[k]) /\ FinishedUpTo(s, k) <= Len(s) - MaxRetained
    IN  {s[i] : i \in {k \in DOMAIN s : old(k)}}

Submit(j) ==
    /\ phase = "tools" /\ status[j] = "none"
    /\ LET all  == Append(order, j)
           gone == Evicted(all)
       IN  /\ order' = SelectSeq(all, LAMBDA k : k \notin gone)
           /\ status' = [k \in Job |-> CASE k = j -> "running"
                                         [] k \in gone -> "gone"
                                         [] OTHER -> status[k]]
    /\ jobCtx' = [jobCtx EXCEPT ![j] = WithoutCancel(RunCtx(run))]
    /\ jpc' = [jpc EXCEPT ![j] = "queued"]
    /\ UNCHANGED <<unannounced, execMu, jobTool, usedCtx, toolCtx, run, phase,
                   request>>

\* A job that does not wait for its turn.
JobStartMutant(j) ==
    /\ jpc[j] = "queued"
    /\ execMu' = j
    /\ toolCtx' = [toolCtx EXCEPT ![jobTool[j]] = jobCtx[j]]
    /\ jpc' = [jpc EXCEPT ![j] = "execute"]
    /\ UNCHANGED <<manager, jobTool, jobCtx, usedCtx, run, phase, request>>

\* run: take execMu, install the job's context in the shared tool.  A tool the
\* registry does not have is a job that fails.
JobStart(j) ==
    /\ jpc[j] = "queued" /\ execMu = Unset
    /\ execMu' = j
    /\ \/ /\ toolCtx' = [toolCtx EXCEPT ![jobTool[j]] = jobCtx[j]]
          /\ jpc' = [jpc EXCEPT ![j] = "execute"]
       \/ jpc' = [jpc EXCEPT ![j] = "finish"] /\ UNCHANGED toolCtx
    /\ UNCHANGED <<manager, jobTool, jobCtx, usedCtx, run, phase, request>>

\* tool.Execute reads the context field after it was installed.
JobExecute(j) ==
    /\ jpc[j] = "execute"
    /\ usedCtx' = [usedCtx EXCEPT ![j] = toolCtx[jobTool[j]]]
    /\ jpc' = [jpc EXCEPT ![j] = "finish"]
    /\ UNCHANGED <<manager, execMu, jobTool, jobCtx, toolCtx, run, phase,
                   request>>

\* A failure that returns without recording itself.
JobFinishMutant(j) ==
    /\ jpc[j] = "finish"
    /\ \/ /\ status' = [status EXCEPT ![j] = "succeeded"]
          /\ unannounced' = Append(unannounced, j)
       \/ UNCHANGED <<status, unannounced>>
    /\ execMu' = Unset
    /\ jpc' = [jpc EXCEPT ![j] = "done"]
    /\ UNCHANGED <<order, jobTool, jobCtx, usedCtx, toolCtx, run, phase, request>>

\* finish, then the deferred unlock.  A job that is not in the map any more is
\* dropped silently.
JobFinish(j) ==
    /\ jpc[j] = "finish"
    /\ IF Retained(j)
       THEN /\ \E s \in {"succeeded", "failed"} :
                   status' = [status EXCEPT ![j] = s]
            /\ unannounced' = Append(unannounced, j)
       ELSE UNCHANGED <<status, unannounced>>
    /\ execMu' = Unset
    /\ jpc' = [jpc EXCEPT ![j] = "done"]
    /\ UNCHANGED <<order, jobTool, jobCtx, usedCtx, toolCtx, run, phase, request>>

Queued(j) == \E i \in DOMAIN unannounced : unannounced[i] = j

\* The queue is read and not cleared.
TakeCompletedNoticesMutant ==
    /\ bundle' = {j \in Job : Retained(j) /\ Queued(j)}
    /\ UNCHANGED unannounced

\* A job evicted before it was announced gets no notice.
TakeCompletedNotices ==
    /\ bundle' = {j \in Job : Retained(j) /\ Queued(j)}
    /\ unannounced' = <<>>

-----------------------------------------------------------------------------
(* The engine goroutine.                                                    *)

\* prepareRuntimeTools installs the run's context in every tool.
RunStart ==
    /\ phase = "idle" /\ run < MaxRuns
    /\ run' = run + 1
    /\ toolCtx' = [t \in Tool |-> RunCtx(run')]
    /\ phase' = "loop"
    /\ UNCHANGED <<manager, jobs, request>>

\* buildBundle, in prepareRequestBundle or in finalResponseAfterFinalize.
BuildBundle ==
    /\ phase = "loop"
    /\ TakeCompletedNotices
    /\ phase' = "built"
    /\ UNCHANGED <<status, order, jobs, toolCtx, run, sent>>

\* prepareRequestBundle over the trigger: after summarizing, the bundle is built
\* again and the first one thrown away.
Compact ==
    /\ phase = "built"
    /\ TakeCompletedNotices
    /\ phase' = "ready"
    /\ UNCHANGED <<status, order, jobs, toolCtx, run, sent>>

Send ==
    /\ phase \in {"built", "ready"}
    /\ sent' = [j \in Job |-> IF j \in bundle THEN sent[j] + 1 ELSE sent[j]]
    /\ bundle' = {}
    /\ phase' = "tools"
    /\ UNCHANGED <<manager, jobs, toolCtx, run>>

NextIteration ==
    /\ phase = "tools"
    /\ phase' = "loop"
    /\ UNCHANGED <<manager, jobs, toolCtx, run, request>>

RunEnd ==
    /\ phase = "tools"
    /\ phase' = "idle"
    /\ UNCHANGED <<manager, jobs, toolCtx, run, request>>

-----------------------------------------------------------------------------

JobStep(j) == JobStart(j) \/ JobExecute(j) \/ JobFinish(j)

EngineStep ==
    \/ RunStart \/ BuildBundle \/ Compact \/ Send \/ NextIteration \/ RunEnd
    \/ \E j \in Job : Submit(j)

JobsNext == EngineStep \/ \E j \in Job : JobStep(j)

JobsSpec == JobsInit /\ [][JobsNext]_jobsVars

\* Goroutines are scheduled, and a tool's Execute returns: both job tools are
\* bounded by a timeout of their own.
JobsFairSpec == JobsSpec /\ \A j \in Job : WF_jobsVars(JobStep(j))

-----------------------------------------------------------------------------
(* Properties.                                                              *)

\* Every variable has its type.
JobsTypeOK ==
    /\ status \in [Job -> {"none", "running", "succeeded", "failed", "gone"}]
    /\ order \in Seq(Job) /\ unannounced \in Seq(Job)
    /\ jpc \in [Job -> {"none", "queued", "execute", "finish", "done"}]
    /\ execMu \in Job \cup {Unset}
    /\ jobTool \in [Job -> Tool]
    /\ jobCtx \in [Job -> Ctx \cup {Unset}]
    /\ usedCtx \in [Job -> Ctx \cup {Unset}]
    /\ toolCtx \in [Tool -> Ctx]
    /\ run \in 0 .. MaxRuns
    /\ phase \in {"idle", "loop", "built", "ready", "tools"}
    /\ bundle \subseteq Job
    /\ sent \in [Job -> Nat]

\* JobManager.run's serialization: the goroutine inside execMu is the only one
\* between installing its context and recording its outcome.
OneExecution ==
    \A j \in Job : jpc[j] \in {"execute", "finish"} => execMu = j

\* A job whose goroutine has not ended is in the map and in the eviction order,
\* so its outcome is never dropped, however many jobs are submitted meanwhile.
RunningRetained ==
    \A j \in Job :
        jpc[j] \in {"queued", "execute", "finish"} =>
            status[j] = "running" /\ \E i \in DOMAIN order : order[i] = j

\* The completion of a job is announced to the model at most once, and never
\* while a second copy of its notice is queued or in the request being built.
AnnouncedAtMostOnce ==
    \A j \in Job :
        LET inBundle == IF j \in bundle THEN 1 ELSE 0
            queued   == {i \in DOMAIN unannounced : unannounced[i] = j}
        IN  sent[j] + inBundle + Cardinality(queued) <= 1

\* The retention bound is exceeded only by running jobs, and a job that is
\* dropped is older than every finished job that is kept.
RetentionStep ==
    order' # order =>
        /\ Len(order') > MaxRetained =>
               \A i \in DOMAIN order' : status'[order'[i]] = "running"
        /\ \A i, k \in DOMAIN order :
               /\ status'[order[i]] = "gone"
               /\ status'[order[k]] \in {"succeeded", "failed"}
               => i < k
RetentionPolicy == [][RetentionStep]_jobsVars

\* Every submitted job gets an outcome, whatever is queued before it.
JobSettles == \A j \in Job : jpc[j] = "queued" ~> Finished(j)

\* The completion of a retained job is not lost: it is queued, in the request
\* being built, or was sent.
NoticeNotLost ==
    \A j \in Job :
        Finished(j) => Queued(j) \/ j \in bundle \/ sent[j] > 0

\* A job's tool works with the context the job was submitted with, detached
\* from that turn's cancellation.
JobKeepsItsContext ==
    \A j \in Job : usedCtx[j] # Unset => usedCtx[j] = jobCtx[j]
=============================================================================
