------------------------------ MODULE Sources ------------------------------
(***************************************************************************)
(* The data sources of one session: the upload of a file, the import of a  *)
(* file into the analysis database, the live binding of an object of an    *)
(* upstream database, the removal of a source from the session and its     *)
(* deletion from the workspace, the confirmation of a semantic profile,    *)
(* the configuration of a live source and its connection test, and the     *)
(* report a run saves through the same file service.                       *)
(*                                                                         *)
(* Every request is a process; one action is one call of a repository, of  *)
(* the object store or of the analysis database, and any of them may fail  *)
(* while the fault budget lasts.  Imports and live binds run under the     *)
(* session's upload lock; a removal takes that lock for each table it      *)
(* drops and for nothing else.                                             *)
(*                                                                         *)
(* There is one file object and one object of a live source.  A snapshot   *)
(* has the identity of the request that made it (the code draws a UUID),   *)
(* and the analysis table has the identity of its snapshot.                *)
(***************************************************************************)
EXTENDS Integers

CONSTANTS
  Procs,       \* requests that can be in progress at a time
  MaxOps,      \* requests made in a behaviour, and so snapshots
  MaxFaults,   \* calls that fail
  Ops          \* the kinds of request made

VARIABLES
  db,      \* the rows: sources, snapshots, profiles, confirmations, bindings
  table,   \* the snapshots whose table is in the analysis database
  cfg,     \* the live source's configuration row
  file,    \* the uploaded file: stored object, row, attachment
  report,  \* the run's report: stored object, rows, the run's reference
  lock,    \* who holds the session's upload lock
  torn,    \* the objects a removal may have left in pieces (history)
  proc,    \* the requests
  left     \* the faults and requests still allowed

vars == <<db, table, cfg, file, report, lock, torn, proc, left>>

Objs == {"file", "live"}
Ids == 1..MaxOps
NoProc == "none"
AllOps == {"upload", "import", "bind", "remove", "delete", "create", "update",
           "test", "confirm", "list", "query", "report"}

ASSUME ConstantsAssumption ==
  /\ MaxOps \in Nat \ {0} /\ MaxFaults \in Nat
  /\ NoProc \notin Procs /\ Ops \subseteq AllOps

NoSnap == [obj |-> "file", status |-> "none"]
NoConf == [receipt |-> 0, plain |-> 0]
NoCfg == [on |-> FALSE, allow |-> FALSE, version |-> 0, tested |-> 0]
Idle == [pc |-> "idle", obj |-> "file", id |-> 0, sel |-> {}, tag |-> "none",
         warn |-> FALSE, res |-> "none"]

Busy(p) == proc[p].pc # "idle"
Rows(o) == {i \in Ids : db.snap[i].status # "none" /\ db.snap[i].obj = o}

(***************************************************************************)
(* Initially the workspace may already have the configured live source,    *)
(* with the object in its allowlist; nothing is uploaded, imported, bound. *)
(***************************************************************************)
Init ==
  /\ cfg \in {NoCfg, [NoCfg EXCEPT !.on = TRUE, !.allow = TRUE, !.version = 1]}
  /\ db = [src |-> [o \in Objs |-> o = "live" /\ cfg.on],
           snap |-> [i \in Ids |-> NoSnap],
           prof |-> [i \in Ids |-> "none"],
           conf |-> [i \in Ids |-> NoConf],
           asset |-> {},
           bind |-> [o \in Objs |-> 0]]
  /\ table = {}
  /\ file = [object |-> FALSE, row |-> FALSE, attached |-> FALSE]
  /\ report = [object |-> FALSE, file |-> FALSE, row |-> FALSE, ref |-> FALSE]
  /\ lock = NoProc
  /\ torn = {}
  /\ proc = [p \in Procs |-> Idle]
  /\ left = [faults |-> MaxFaults, ops |-> MaxOps]

-----------------------------------------------------------------------------
(* Steps of a request                                                      *)

At(p, pc) == proc[p].pc = pc

Go(p, pc) == proc' = [proc EXCEPT ![p].pc = pc]

Spend(k) ==
  /\ left.faults >= k
  /\ left' = [left EXCEPT !.faults = @ - k]

\* The answer is written; every path out of an import or a live bind passes
\* the UnlockUpload that follows the call.
End(p, r) ==
  /\ proc' = [proc EXCEPT ![p] = [Idle EXCEPT !.res = r]]
  /\ lock' = IF lock = p THEN NoProc ELSE lock

\* failSnapshotIfPresent: the failure is written to the snapshot row if the
\* row is there and the write succeeds; k faults were spent on the cause.
FailSnapshot(p, k) ==
  /\ LET i == proc[p].id IN
     \/ /\ Spend(k)
        /\ db' = IF db.snap[i].status = "none" THEN db
                 ELSE [db EXCEPT !.snap[i].status = "failed"]
     \/ Spend(k + 1) /\ UNCHANGED db
  /\ End(p, "failed")

(***************************************************************************)
(* A request enters after its handler's own lookups: the source must be    *)
(* there and be of the kind the operation is for.  Its id is the UUID it   *)
(* would give a snapshot.                                                  *)
(***************************************************************************)
Enter(p, op, rec) ==
  /\ ~Busy(p) /\ left.ops > 0 /\ op \in Ops
  /\ proc' = [proc EXCEPT ![p] = rec]
  /\ left' = [left EXCEPT !.ops = @ - 1]
  /\ UNCHANGED <<db, table, cfg, file, report, lock, torn>>

NextId == MaxOps - left.ops + 1
Request(pc, o) == [Idle EXCEPT !.pc = pc, !.obj = o, !.id = NextId]
NobodyAt(pc) == \A q \in Procs : ~At(q, pc)

\* The name, the type and the first bytes of the file are acceptable.
UploadHandler(p) ==
  /\ ~db.src["file"] /\ ~file.object /\ ~file.row /\ NobodyAt("u_put")
  /\ Enter(p, "upload", Request("u_put", "file"))

\* One handler for both kinds: a file is imported, a live object is bound.
ImportDataSourceHandler(p) ==
  \E o \in Objs :
    /\ db.src[o]
    /\ Enter(p, IF o = "file" THEN "import" ELSE "bind", Request("i_lock", o))

DeleteSessionSourceHandler(p) ==
  \E o \in Objs : db.src[o] /\ Enter(p, "remove", Request("r_check", o))

\* A file source is removed from the session, never from the workspace.
DeleteDataSourceHandler(p) ==
  db.src["live"] /\ Enter(p, "delete", Request("d_list", "live"))

CreateDataSourceHandler(p) ==
  /\ ~db.src["live"] /\ cfg = NoCfg /\ NobodyAt("n_row")
  /\ Enter(p, "create", Request("n_row", "live"))

UpdateDataSourceHandler(p) ==
  db.src["live"] /\ Enter(p, "update", Request("e_read", "live"))

TestDataSourceHandler(p) ==
  db.src["live"] /\ Enter(p, "test", Request("t_run", "live"))

\* A confirmation comes from the user's request or, with a receipt, from the
\* tool; the engine commits one tool call at a time.
ConfirmProfileHandler(p) ==
  \E i \in Ids, g \in {"plain", "receipt"} :
    /\ db.prof[i] # "none"
    /\ g = "receipt" => \A q \in Procs : proc[q].tag # g
    /\ Enter(p, "confirm", [Request("c_look", "file") EXCEPT !.id = i, !.tag = g])

SessionSourcesHandler(p) == Enter(p, "list", Request("l_read", "file"))

LiveQuery(p) == db.src["live"] /\ Enter(p, "query", Request("q_read", "live"))

\* report_finalize of the run: one at a time, as every tool that writes.
FinalizeReport(p) ==
  /\ \A q \in Procs : proc[q].tag # "report"
  /\ Enter(p, "report", [Request("s_row", "file") EXCEPT !.tag = "report"])

-----------------------------------------------------------------------------
(* Upload of a file                                                        *)

UploadPut(p) ==
  /\ At(p, "u_put")
  /\ \/ /\ file' = [file EXCEPT !.object = TRUE]
        /\ Go(p, "u_row") /\ UNCHANGED <<left, lock>>
     \/ Spend(1) /\ End(p, "failed") /\ UNCHANGED file
  /\ UNCHANGED <<db, table, cfg, report, torn>>

\* A row that cannot be written takes the stored object with it.
UploadRow(p) ==
  /\ At(p, "u_row")
  /\ \/ /\ file' = [file EXCEPT !.row = TRUE]
        /\ Go(p, "u_attach") /\ UNCHANGED <<left, lock>>
     \/ /\ \/ Spend(1) /\ file' = [file EXCEPT !.object = FALSE]
           \/ Spend(2) /\ UNCHANGED file
        /\ End(p, "failed")
  /\ UNCHANGED <<db, table, cfg, report, torn>>

UploadAttach(p) ==
  /\ At(p, "u_attach")
  /\ \/ /\ file' = [file EXCEPT !.attached = TRUE]
        /\ Go(p, "u_source") /\ UNCHANGED <<left, lock>>
     \/ /\ \E keepObject, keepRow \in BOOLEAN :
             /\ Spend(1 + (IF keepObject THEN 1 ELSE 0) + (IF keepRow THEN 1 ELSE 0))
             /\ file' = [file EXCEPT !.object = keepObject, !.row = keepRow]
        /\ End(p, "failed")
  /\ UNCHANGED <<db, table, cfg, report, torn>>

\* EnsureFileSource, after which the handler imports the file at once.
EnsureFileSource(p) ==
  /\ At(p, "u_source")
  /\ \/ /\ db' = [db EXCEPT !.src["file"] = TRUE]
        /\ Go(p, "i_lock") /\ UNCHANGED <<left, lock>>
     \/ Spend(1) /\ End(p, "failed") /\ UNCHANGED db
  /\ UNCHANGED <<table, cfg, file, report, torn>>

-----------------------------------------------------------------------------
(* Import of a file and live bind, under the upload lock                   *)

\* The live bind runs without the session's upload lock.
LockUploadMutant(p) ==
  /\ At(p, "i_lock")
  /\ IF proc[p].obj = "file"
     THEN lock = NoProc /\ lock' = p /\ Go(p, "i_open")
     ELSE Go(p, "i_begin") /\ UNCHANGED lock
  /\ UNCHANGED <<db, table, cfg, file, report, torn, left>>

LockUpload(p) ==
  /\ At(p, "i_lock") /\ lock = NoProc
  /\ lock' = p
  /\ Go(p, IF proc[p].obj = "file" THEN "i_open" ELSE "i_begin")
  /\ UNCHANGED <<db, table, cfg, file, report, torn, left>>

\* MaterializeToTemp and the worksheet check: a workbook of several sheets,
\* or one that cannot be opened, is answered before any row is written.
OpenFile(p) ==
  /\ At(p, "i_open")
  /\ \/ /\ db.src["file"] /\ file.row /\ file.attached /\ file.object
        /\ Go(p, "i_begin") /\ UNCHANGED <<left, lock>>
     \/ End(p, "needs_choice") /\ UNCHANGED left
     \/ Spend(1) /\ End(p, "failed")
  /\ UNCHANGED <<db, table, cfg, file, report, torn>>

\* The creating snapshot row; its source must still exist (foreign key).
BeginSnapshotImport(p) ==
  /\ At(p, "i_begin")
  /\ LET o == proc[p].obj IN
     \/ /\ db.src[o]
        /\ db' = [db EXCEPT !.snap[proc[p].id] = [obj |-> o, status |-> "creating"]]
        /\ Go(p, IF o = "file" THEN "i_table" ELSE "b_fetch")
        /\ UNCHANGED <<left, lock>>
     \/ /\ (IF db.src[o] THEN Spend(1) ELSE UNCHANGED left)
        /\ End(p, "failed") /\ UNCHANGED db
  /\ UNCHANGED <<table, cfg, file, report, torn>>

\* The file is opened, its header read and the table created; a file that
\* cannot be read, or has no header, leaves no table.
CreateTable(p) ==
  /\ At(p, "i_table")
  /\ \/ /\ table' = table \cup {proc[p].id}
        /\ Go(p, "i_rows") /\ UNCHANGED <<db, left, lock>>
     \/ FailSnapshot(p, 0) /\ UNCHANGED table
  /\ UNCHANGED <<cfg, file, report, torn>>

\* The rows go in, batch by batch; a ragged row or a failed batch drops the
\* table, and the drop of the incomplete table may fail as well.
ImportFileRawAs(p) ==
  /\ At(p, "i_rows")
  /\ \/ Go(p, "i_schema") /\ UNCHANGED <<db, table, left, lock>>
     \/ FailSnapshot(p, 0) /\ table' = table \ {proc[p].id}
     \/ FailSnapshot(p, 1) /\ UNCHANGED table
  /\ UNCHANGED <<cfg, file, report, torn>>

\* The connector describes an object it is configured for and that is in the
\* allowlist, when the upstream database answers.
Describable == cfg.on /\ cfg.allow

FetchLiveObjectMetadata(p) ==
  /\ At(p, "b_fetch")
  /\ \/ Describable /\ Go(p, "i_profile") /\ UNCHANGED <<db, left, lock>>
     \/ FailSnapshot(p, 0)
  /\ UNCHANGED <<table, cfg, file, report, torn>>

\* FinalizeSnapshotImport reads the row back, which must still be creating,
\* and observes the table.
ExtractSchema(p) ==
  /\ At(p, "i_schema")
  /\ LET creating == db.snap[proc[p].id].status = "creating" IN
     \/ creating /\ proc[p].id \in table /\ Go(p, "i_check") /\ UNCHANGED <<db, left, lock>>
     \/ creating /\ FailSnapshot(p, IF proc[p].id \in table THEN 1 ELSE 0)
     \/ ~creating /\ End(p, "failed") /\ UNCHANGED <<db, left>>
     \/ Spend(1) /\ End(p, "failed") /\ UNCHANGED db
  /\ UNCHANGED <<table, cfg, file, report, torn>>

\* The observed facts and the ready status are written to the row.
CompleteImport(p) ==
  /\ At(p, "i_check")
  /\ LET i == proc[p].id IN
     \/ /\ db' = IF db.snap[i].status = "none" THEN db
                 ELSE [db EXCEPT !.snap[i].status = "ready"]
        /\ Go(p, "i_profile") /\ UNCHANGED <<left, lock>>
     \/ FailSnapshot(p, 1)
  /\ UNCHANGED <<table, cfg, file, report, torn>>

\* The profile row needs its snapshot and source rows (foreign keys).
CreateSemanticProfile(p) ==
  /\ At(p, "i_profile")
  /\ LET i == proc[p].id
         fk == db.snap[i].status # "none" /\ db.src[proc[p].obj] IN
     \/ /\ fk
        /\ db' = [db EXCEPT !.prof[i] = "profiled"]
        /\ Go(p, IF proc[p].obj = "file" THEN "i_bind" ELSE "b_ready")
        /\ UNCHANGED <<left, lock>>
     \/ FailSnapshot(p, IF fk THEN 1 ELSE 0)
  /\ UNCHANGED <<table, cfg, file, report, torn>>

\* A live snapshot turns ready after its profile; an update of a row that is
\* gone changes nothing and reports nothing, and a failure here is not
\* written to the row.
ActivateLive(p) ==
  /\ At(p, "b_ready")
  /\ LET i == proc[p].id IN
     \/ /\ db' = IF db.snap[i].status = "none" THEN db
                 ELSE [db EXCEPT !.snap[i].status = "ready"]
        /\ Go(p, "i_bind") /\ UNCHANGED <<left, lock>>
     \/ Spend(1) /\ End(p, "failed") /\ UNCHANGED db
  /\ UNCHANGED <<table, cfg, file, report, torn>>

\* The binding row has a foreign key to the source and none to the snapshot.
UpsertBinding(p) ==
  /\ At(p, "i_bind")
  /\ LET o == proc[p].obj
         cause == IF db.src[o] THEN 1 ELSE 0 IN
     \/ /\ db.src[o]
        /\ db' = [db EXCEPT !.bind[o] = proc[p].id]
        /\ Go(p, "i_list") /\ UNCHANGED <<left, lock>>
     \/ o = "file" /\ FailSnapshot(p, cause)
     \/ o = "live" /\ Spend(cause) /\ End(p, "failed") /\ UNCHANGED db
  /\ UNCHANGED <<table, cfg, file, report, torn>>

Warned(p) == proc' = [proc EXCEPT ![p].sel = {}, ![p].warn = TRUE, ![p].pc = "i_clean"]

ListSuperseded(p) ==
  /\ At(p, "i_list")
  /\ \/ /\ proc' = [proc EXCEPT ![p].sel = Rows(proc[p].obj) \ {proc[p].id},
                                ![p].pc = "i_clean"]
        /\ UNCHANGED left
     \/ Spend(1) /\ Warned(p)
  /\ UNCHANGED <<db, table, cfg, file, report, lock, torn>>

Dropped(i) == [db EXCEPT !.snap[i] = NoSnap, !.prof[i] = "none", !.conf[i] = NoConf]

\* The row is deleted although its table could not be dropped.
CleanupSupersededMutant(p) ==
  /\ At(p, "i_clean")
  /\ \E i \in proc[p].sel :
       /\ db' = Dropped(i)
       /\ \/ table' = table \ {i} /\ UNCHANGED left
          \/ UNCHANGED table /\ Spend(1)
       /\ proc' = [proc EXCEPT ![p].sel = @ \ {i}]
  /\ UNCHANGED <<cfg, file, report, lock, torn>>

\* One superseded snapshot: its table, its profile, its row, in that order; a
\* failure is reported and leaves what comes after it.
CleanupSuperseded(p) ==
  /\ At(p, "i_clean")
  /\ \E i \in proc[p].sel :
       /\ \/ /\ table' = table \ {i} /\ db' = Dropped(i)
             /\ proc' = [proc EXCEPT ![p].sel = @ \ {i}]
             /\ UNCHANGED left
          \/ /\ Spend(1)
             /\ proc' = [proc EXCEPT ![p].sel = @ \ {i}, ![p].warn = TRUE]
             /\ \/ UNCHANGED <<table, db>>
                \/ table' = table \ {i} /\ UNCHANGED db
                \/ /\ table' = table \ {i}
                   /\ db' = [db EXCEPT !.prof[i] = "none", !.conf[i] = NoConf]
  /\ UNCHANGED <<cfg, file, report, lock, torn>>

\* The result is returned, the lock released, the audit event recorded.
ImportDone(p) ==
  /\ At(p, "i_clean") /\ proc[p].sel = {}
  /\ End(p, "ok")
  /\ UNCHANGED <<db, table, cfg, file, report, torn, left>>

-----------------------------------------------------------------------------
(* Removal from the session, deletion from the workspace                   *)

RemoveCheck(p) ==
  /\ At(p, "r_check")
  /\ \/ db.bind[proc[p].obj] = 0 /\ End(p, "ok") /\ UNCHANGED left
     \/ db.bind[proc[p].obj] # 0 /\ Go(p, "r_list") /\ UNCHANGED <<lock, left>>
     \/ Spend(1) /\ End(p, "failed")
  /\ UNCHANGED <<db, table, cfg, file, report, torn>>

RemoveList(p) ==
  /\ At(p, "r_list")
  /\ \/ /\ proc' = [proc EXCEPT ![p].sel = Rows(proc[p].obj),
                                ![p].pc = IF proc[p].obj = "file" THEN "r_drop" ELSE "r_prof"]
        /\ torn' = torn \cup {proc[p].obj}
        /\ UNCHANGED <<lock, left>>
     \/ Spend(1) /\ End(p, "failed") /\ UNCHANGED torn
  /\ UNCHANGED <<db, table, cfg, file, report>>

\* dropRuntimeTable: the lock is taken for the one table and given back.
RemoveDrop(p) ==
  /\ At(p, "r_drop")
  /\ \/ /\ proc[p].sel \cap table # {} /\ lock = NoProc
        /\ \E i \in proc[p].sel \cap table :
             \/ table' = table \ {i} /\ UNCHANGED <<proc, lock, left>>
             \/ Spend(1) /\ End(p, "failed") /\ UNCHANGED table
     \/ /\ proc[p].sel \cap table = {} /\ (proc[p].sel = {} \/ lock = NoProc)
        /\ Go(p, "r_prof") /\ UNCHANGED <<table, lock, left>>
  /\ UNCHANGED <<db, cfg, file, report, torn>>

\* The rows when the profiles of some snapshots are gone, and the confirmations of
\* some more.
Unprofiled(profiles, confirmed) ==
  [db EXCEPT !.prof = [i \in Ids |-> IF i \in profiles THEN "none" ELSE @[i]],
             !.conf = [i \in Ids |-> IF i \in profiles \cup confirmed THEN NoConf ELSE @[i]]]

\* The profiles go one by one, the confirmations of each before it; a delete
\* that fails leaves what comes after it, the profile without confirmations
\* included.  The deletes of one removal are one step.
RemoveProfiles(p) ==
  /\ At(p, "r_prof")
  /\ \/ /\ db' = Unprofiled(proc[p].sel, {})
        /\ Go(p, "r_rows") /\ UNCHANGED <<lock, left>>
     \/ /\ \E gone \in SUBSET proc[p].sel : \E bare \in proc[p].sel \cup {0} :
             db' = Unprofiled(gone, {bare})
        /\ Spend(1) /\ End(p, "failed")
  /\ UNCHANGED <<table, cfg, file, report, torn>>

RemoveRow(p) ==
  /\ At(p, "r_rows")
  /\ \/ \E i \in proc[p].sel :
          /\ db' = Dropped(i)
          /\ proc' = [proc EXCEPT ![p].sel = @ \ {i}]
          /\ UNCHANGED <<lock, left>>
     \/ proc[p].sel = {} /\ Go(p, "r_bind") /\ UNCHANGED <<db, lock, left>>
     \/ proc[p].sel # {} /\ Spend(1) /\ End(p, "failed") /\ UNCHANGED db
  /\ UNCHANGED <<table, cfg, file, report, torn>>

\* With the binding the object is whole again, for the requests to come; one that
\* the removal overlapped may still bind what it has taken apart.
RemoveBinding(p) ==
  /\ At(p, "r_bind")
  /\ \/ /\ db' = [db EXCEPT !.bind[proc[p].obj] = 0]
        /\ torn' = IF \E q \in Procs \ {p} : Busy(q) /\ proc[q].obj = proc[p].obj
                   THEN torn ELSE torn \ {proc[p].obj}
        /\ End(p, "ok") /\ UNCHANGED left
     \/ Spend(1) /\ End(p, "failed") /\ UNCHANGED <<db, torn>>
  /\ UNCHANGED <<table, cfg, file, report>>

\* A live source has no tables to drop; the delete cascades to every row.
DeleteWorkspaceSource(p) ==
  \/ /\ At(p, "d_list")
     /\ \/ Go(p, "d_row") /\ UNCHANGED <<lock, left>>
        \/ Spend(1) /\ End(p, "failed")
     /\ UNCHANGED <<db, table, cfg, file, report, torn>>
  \/ /\ At(p, "d_row")
     /\ \/ /\ LET gone == Rows("live")
                  Kept(f, none) == [i \in Ids |-> IF i \in gone THEN none ELSE f[i]] IN
              db' = [db EXCEPT !.src["live"] = FALSE, !.bind["live"] = 0,
                               !.snap = Kept(@, NoSnap), !.prof = Kept(@, "none"),
                               !.conf = Kept(@, NoConf)]
           /\ cfg' = [cfg EXCEPT !.on = FALSE, !.tested = 0]
           /\ End(p, "ok") /\ UNCHANGED left
        \/ Spend(1) /\ End(p, "failed") /\ UNCHANGED <<db, cfg>>
     /\ UNCHANGED <<table, file, report, torn>>

-----------------------------------------------------------------------------
(* Confirmation of a profile                                               *)

\* Earlier confirmations are not looked at.
ConfirmLookMutant(p) ==
  /\ At(p, "c_look")
  /\ Go(p, "c_row")
  /\ UNCHANGED <<db, table, cfg, file, report, torn, lock, left>>

\* The profile and, with a receipt, its earlier confirmations are read: one with
\* the same facts is taken up, one with different facts refuses the receipt.
ConfirmLook(p) ==
  /\ At(p, "c_look")
  /\ LET i == proc[p].id IN
     \/ /\ db.prof[i] # "none"
        /\ Go(p, IF proc[p].tag = "receipt" /\ db.conf[i].receipt > 0 THEN "c_asset" ELSE "c_row")
        /\ UNCHANGED <<lock, left>>
     \/ /\ db.prof[i] = "none" \/ (proc[p].tag = "receipt" /\ db.conf[i].receipt > 0)
        /\ End(p, "failed") /\ UNCHANGED left
     \/ Spend(1) /\ End(p, "failed")
  /\ UNCHANGED <<db, table, cfg, file, report, torn>>

ConfirmCreate(p) ==
  /\ At(p, "c_row")
  /\ LET i == proc[p].id
         kind == IF proc[p].tag = "receipt" THEN "receipt" ELSE "plain" IN
     \/ /\ db.prof[i] # "none"
        /\ db' = [db EXCEPT !.conf[i][kind] = @ + 1]
        /\ Go(p, "c_asset") /\ UNCHANGED <<lock, left>>
     \/ /\ (IF db.prof[i] # "none" THEN Spend(1) ELSE UNCHANGED left)
        /\ End(p, "failed") /\ UNCHANGED db
  /\ UNCHANGED <<table, cfg, file, report, torn>>

\* A confirmation of workspace scope also leaves a reusable asset, keyed by
\* the confirmation, which outlives the profile.
UpsertSemanticAssets(p) ==
  /\ At(p, "c_asset")
  /\ \/ /\ db' \in {db, [db EXCEPT !.asset = @ \cup {proc[p].id}]}
        /\ Go(p, "c_status") /\ UNCHANGED <<lock, left>>
     \/ Spend(1) /\ End(p, "failed") /\ UNCHANGED db
  /\ UNCHANGED <<table, cfg, file, report, torn>>

ConfirmStatus(p) ==
  /\ At(p, "c_status")
  /\ LET i == proc[p].id IN
     \/ /\ db' = IF db.prof[i] = "none" THEN db ELSE [db EXCEPT !.prof[i] = "confirmed"]
        /\ End(p, "ok") /\ UNCHANGED left
     \/ Spend(1) /\ End(p, "failed") /\ UNCHANGED db
  /\ UNCHANGED <<table, cfg, file, report, torn>>

-----------------------------------------------------------------------------
(* Configuration of the live source                                        *)

CreateConfiguredSource(p) ==
  /\ At(p, "n_row")
  /\ \/ db' = [db EXCEPT !.src["live"] = TRUE] /\ Go(p, "n_cfg") /\ UNCHANGED <<lock, left>>
     \/ Spend(1) /\ End(p, "failed") /\ UNCHANGED db
  /\ UNCHANGED <<table, cfg, file, report, torn>>

\* The configuration row has a foreign key to the source's row.
CreateSourceConfig(p) ==
  /\ At(p, "n_cfg")
  /\ \/ /\ db.src["live"]
        /\ \E a \in BOOLEAN :
             cfg' = [on |-> TRUE, allow |-> a, version |-> 1, tested |-> 0]
        /\ End(p, "ok") /\ UNCHANGED left
     \/ /\ (IF db.src["live"] THEN Spend(1) ELSE UNCHANGED left)
        /\ End(p, "failed") /\ UNCHANGED cfg
  /\ UNCHANGED <<db, table, file, report, torn>>

\* An edit of the configuration reads the row and validates it together with what
\* it changes; one of the name goes past it.
NormalizeConfig(p) ==
  /\ At(p, "e_read")
  /\ \/ cfg.on /\ Go(p, "e_write") /\ UNCHANGED <<lock, left>>
     \/ Go(p, "e_name") /\ UNCHANGED <<lock, left>>
     \/ ~cfg.on /\ End(p, "failed") /\ UNCHANGED left
     \/ Spend(1) /\ End(p, "failed")
  /\ UNCHANGED <<db, table, cfg, file, report, torn>>

\* The row is written back and the last test forgotten, then the source's row
\* with its name; an update of a row that is gone changes nothing.
UpdateDataSource(p) ==
  /\ \/ /\ At(p, "e_write")
        /\ \E a \in BOOLEAN :
             cfg' = IF cfg.on THEN [cfg EXCEPT !.allow = a, !.version = @ + 1, !.tested = 0]
                    ELSE cfg
        /\ Go(p, "e_name") /\ UNCHANGED <<lock, left>>
     \/ At(p, "e_name") /\ End(p, "ok") /\ UNCHANGED <<cfg, left>>
     \/ /\ At(p, "e_write") \/ At(p, "e_name")
        /\ Spend(1) /\ End(p, "failed") /\ UNCHANGED cfg
  /\ UNCHANGED <<db, table, file, report, torn>>

\* A test connects with the configuration it read; proc.id keeps its version,
\* or 0 when the source is not configured or the connection fails.
TestConnection(p) ==
  /\ At(p, "t_run")
  /\ \E v \in {0} \cup (IF cfg.on THEN {cfg.version} ELSE {}) :
       proc' = [proc EXCEPT ![p].pc = "t_write", ![p].id = v]
  /\ UNCHANGED <<db, table, cfg, file, report, torn, lock, left>>

\* The result goes to the row, whichever configuration is there by then;
\* cfg.tested is the version last tested well.
TestDataSource(p) ==
  /\ At(p, "t_write")
  /\ \/ /\ cfg' = IF cfg.on THEN [cfg EXCEPT !.tested = proc[p].id] ELSE cfg
        /\ End(p, "ok") /\ UNCHANGED left
     \/ Spend(1) /\ End(p, "failed") /\ UNCHANGED cfg
  /\ UNCHANGED <<db, table, file, report, torn>>

-----------------------------------------------------------------------------
(* Reads                                                                   *)

Resolves(o) ==
  db.bind[o] # 0 => db.src[o] /\ db.snap[db.bind[o]].status # "none"

\* A binding whose source or snapshot row is missing turns the whole listing
\* into an error.
GetSessionSources(p) ==
  /\ At(p, "l_read")
  /\ \/ End(p, IF \A o \in Objs : Resolves(o) THEN "ok" ELSE "partial") /\ UNCHANGED left
     \/ Spend(1) /\ End(p, "failed")
  /\ UNCHANGED <<db, table, cfg, file, report, torn>>

\* requireLiveBindings and the object boundary of the query.
LiveBound == db.src["live"] /\ db.bind["live"] # 0 /\ Resolves("live")

ExecuteSessionLiveQuery(p) ==
  /\ At(p, "q_read")
  /\ \/ End(p, IF LiveBound /\ cfg.on THEN "ok" ELSE "refused") /\ UNCHANGED left
     \/ Spend(1) /\ End(p, "failed")
  /\ UNCHANGED <<db, table, cfg, file, report, torn>>

-----------------------------------------------------------------------------
(* The report of a run                                                     *)

\* replaceExistingReport: the report row, then the file row, whose delete
\* clears the run's reference (ON DELETE SET NULL).
ReplaceReportRow(p) ==
  /\ At(p, "s_row")
  /\ \/ report' = [report EXCEPT !.row = FALSE] /\ Go(p, "s_file") /\ UNCHANGED <<lock, left>>
     \/ Spend(1) /\ End(p, "failed") /\ UNCHANGED report
  /\ UNCHANGED <<db, table, cfg, file, torn>>

\* The earlier file row is left in place.
ReplaceReportFileMutant(p) ==
  /\ At(p, "s_file")
  /\ Go(p, "s_put")
  /\ UNCHANGED <<db, table, cfg, file, torn, report, lock, left>>

ReplaceReportFile(p) ==
  /\ At(p, "s_file")
  /\ \/ /\ report' = [report EXCEPT !.file = FALSE, !.ref = FALSE]
        /\ Go(p, "s_put") /\ UNCHANGED <<lock, left>>
     \/ Spend(1) /\ End(p, "failed") /\ UNCHANGED report
  /\ UNCHANGED <<db, table, cfg, file, torn>>

\* The object's key comes from the run, so an earlier report is overwritten.
PutReport(p) ==
  /\ At(p, "s_put")
  /\ \/ report' = [report EXCEPT !.object = TRUE] /\ Go(p, "s_meta") /\ UNCHANGED <<lock, left>>
     \/ Spend(1) /\ End(p, "failed") /\ UNCHANGED report
  /\ UNCHANGED <<db, table, cfg, file, torn>>

CreateReportFile(p) ==
  /\ At(p, "s_meta")
  /\ \/ /\ ~report.file
        /\ report' = [report EXCEPT !.file = TRUE] /\ Go(p, "s_report") /\ UNCHANGED <<lock, left>>
     \/ /\ \E keep \in BOOLEAN :
             /\ Spend((IF report.file THEN 0 ELSE 1) + (IF keep THEN 1 ELSE 0))
             /\ report' = [report EXCEPT !.object = keep]
        /\ End(p, "failed")
  /\ UNCHANGED <<db, table, cfg, file, torn>>

SaveReportHTML(p) ==
  /\ At(p, "s_report")
  /\ \/ report' = [report EXCEPT !.row = TRUE] /\ Go(p, "s_bind") /\ UNCHANGED <<lock, left>>
     \/ /\ \E keepObject, keepFile \in BOOLEAN :
             /\ Spend(1 + (IF keepObject THEN 1 ELSE 0) + (IF keepFile THEN 1 ELSE 0))
             /\ report' = [report EXCEPT !.object = keepObject, !.file = keepFile]
        /\ End(p, "failed")
  /\ UNCHANGED <<db, table, cfg, file, torn>>

\* The object and the report row are found through that row, the file row by
\* itself; each of the three deletes is tried, whether or not the others failed.
\* k faults were spent on what made the report unwanted.
DeleteReportFile(k) ==
  \E o, f, r, found \in BOOLEAN :
    /\ ~found => o /\ r
    /\ Spend(k + (IF f THEN 1 ELSE 0)
               + (IF found THEN (IF o THEN 1 ELSE 0) + (IF r THEN 1 ELSE 0) ELSE 1))
    /\ report' = [report EXCEPT !.object = o, !.file = f, !.row = r]

\* finalizeAndPersistReport: the run's reference is written last.
BindReportFile(p) ==
  /\ At(p, "s_bind")
  /\ \/ report' = [report EXCEPT !.ref = TRUE] /\ End(p, "ok") /\ UNCHANGED left
     \/ DeleteReportFile(1) /\ End(p, "failed")
  /\ UNCHANGED <<db, table, cfg, file, torn>>

-----------------------------------------------------------------------------
Step(p) ==
  \/ UploadPut(p) \/ UploadRow(p) \/ UploadAttach(p) \/ EnsureFileSource(p)
  \/ LockUpload(p) \/ OpenFile(p) \/ BeginSnapshotImport(p)
  \/ CreateTable(p) \/ ImportFileRawAs(p) \/ ExtractSchema(p) \/ CompleteImport(p)
  \/ FetchLiveObjectMetadata(p)
  \/ CreateSemanticProfile(p) \/ ActivateLive(p) \/ UpsertBinding(p)
  \/ ListSuperseded(p) \/ CleanupSuperseded(p) \/ ImportDone(p)
  \/ RemoveCheck(p) \/ RemoveList(p) \/ RemoveDrop(p) \/ RemoveProfiles(p)
  \/ RemoveRow(p) \/ RemoveBinding(p) \/ DeleteWorkspaceSource(p)
  \/ ConfirmLook(p) \/ ConfirmCreate(p) \/ UpsertSemanticAssets(p)
  \/ ConfirmStatus(p)
  \/ CreateConfiguredSource(p) \/ CreateSourceConfig(p) \/ NormalizeConfig(p)
  \/ UpdateDataSource(p) \/ TestConnection(p) \/ TestDataSource(p)
  \/ GetSessionSources(p) \/ ExecuteSessionLiveQuery(p)
  \/ ReplaceReportRow(p) \/ ReplaceReportFile(p) \/ PutReport(p)
  \/ CreateReportFile(p) \/ SaveReportHTML(p) \/ BindReportFile(p)

Arrive(p) ==
  \/ UploadHandler(p) \/ ImportDataSourceHandler(p) \/ DeleteSessionSourceHandler(p)
  \/ DeleteDataSourceHandler(p) \/ CreateDataSourceHandler(p)
  \/ UpdateDataSourceHandler(p) \/ TestDataSourceHandler(p)
  \/ ConfirmProfileHandler(p) \/ SessionSourcesHandler(p) \/ LiveQuery(p)
  \/ FinalizeReport(p)

Next == \E p \in Procs : Step(p) \/ Arrive(p)

Spec == Init /\ [][Next]_vars

-----------------------------------------------------------------------------
(* Properties                                                              *)

Pcs == {"idle", "u_put", "u_row", "u_attach", "u_source", "i_lock", "i_open", "i_begin",
        "i_table", "i_rows", "i_schema", "i_check", "i_profile", "i_bind", "i_list", "i_clean", "b_fetch",
        "b_ready", "r_check", "r_list", "r_drop", "r_prof", "r_rows", "r_bind",
        "d_list", "d_row", "c_look", "c_row", "c_asset", "c_status", "n_row", "n_cfg",
        "e_read", "e_write", "e_name", "t_run", "t_write", "l_read", "q_read",
        "s_row", "s_file", "s_put", "s_meta", "s_report", "s_bind"}

Critical == {"i_open", "i_begin", "i_table", "i_rows", "i_schema", "i_check", "i_profile", "i_bind", "i_list",
             "i_clean", "b_fetch", "b_ready"}

SourceRows ==
  [src : [Objs -> BOOLEAN],
   snap : [Ids -> [obj : Objs, status : {"none", "creating", "ready", "failed"}]],
   prof : [Ids -> {"none", "profiled", "confirmed"}],
   conf : [Ids -> [receipt : Nat, plain : Nat]],
   asset : SUBSET Nat,
   bind : [Objs -> Ids \cup {0}]]

Requests ==
  [pc : Pcs, obj : Objs, id : Nat, sel : SUBSET Ids,
   tag : {"none", "plain", "receipt", "report"}, warn : BOOLEAN,
   res : {"none", "ok", "failed", "needs_choice", "partial", "refused"}]

\* The rows, the stored objects and the requests.
StateType ==
  /\ db \in SourceRows
  /\ table \subseteq Ids
  /\ cfg \in [on : BOOLEAN, allow : BOOLEAN, version : Nat, tested : Nat]
  /\ file \in [object : BOOLEAN, row : BOOLEAN, attached : BOOLEAN]
  /\ report \in [object : BOOLEAN, file : BOOLEAN, row : BOOLEAN, ref : BOOLEAN]
  /\ lock \in Procs \cup {NoProc}
  /\ torn \subseteq Objs
  /\ proc \in [Procs -> Requests]
  /\ left \in [faults : Nat, ops : 0..MaxOps]

\* The upload lock is held exactly by the request that is between LockUpload
\* and UnlockUpload: no path out of an import or a live bind keeps it
\* (upload.go: a return in between "would leak uploadMu and wedge the whole
\* session").
LockHeld == \A p \in Procs : lock = p <=> proc[p].pc \in Critical

TypeOK == StateType /\ LockHeld

\* Whatever imports, live binds and reads overlap and whichever of their calls
\* fail, a source the session is bound to can be used: its active snapshot is
\* ready, has its profile and, for a file, its table.  Only a removal takes a bound
\* source apart: from where it begins, and if it breaks off or overlaps another
\* request about the object, until one completes that overlaps none.
BoundIsUsable ==
  \A o \in Objs \ torn :
    db.bind[o] # 0 =>
      /\ db.snap[db.bind[o]] = [obj |-> o, status |-> "ready"]
      /\ db.prof[db.bind[o]] # "none"
      /\ o = "file" => db.bind[o] \in table

\* Every table of the analysis database has a snapshot row, through which a
\* later import or removal finds and drops it, whatever failed on the way.
TableHasRow == table \subseteq Rows("file")

\* An import or bind that reports no cleanup error leaves no other snapshot of
\* its object and no other table, broken-off earlier attempts included.
SupersededGone ==
  \A p \in Procs :
    proc[p].pc = "i_clean" /\ proc[p].sel = {} /\ ~proc[p].warn =>
      /\ Rows(proc[p].obj) \subseteq {proc[p].id}
      /\ proc[p].obj = "file" => table \subseteq {proc[p].id}

\* A receipt is recorded once for a profile, also when the commit that carried
\* it failed after the confirmation row was written and is tried again.
ReceiptOnce == \A i \in Ids : db.conf[i].receipt <= 1

\* A report the run refers to has its file row and its stored object, whatever
\* call of saving it again, or of undoing that, failed.
BoundReportDownloadable == report.ref => report.file /\ report.object

\* "Serialize live binds per session: concurrent binds of the same object
\* could interleave snapshot creation, binding upsert, and superseded-snapshot
\* cleanup into a corrupted binding" (data_source.go): once the requests about an
\* object are answered, its binding leads to a snapshot row.  A removal is not
\* serialized with the bind it overlaps.
BindingResolves ==
  \A o \in Objs : (\A p \in Procs : Busy(p) => proc[p].obj # o) => Resolves(o)

\* The result of the last connection test on a live source's row belongs to
\* the configuration on the row, which every edit resets.
TestedIsCurrent == cfg.on /\ cfg.tested # 0 => cfg.tested = cfg.version

\* A live source that no request is creating has its configuration.
CreatedHasConfig ==
  db.src["live"] /\ ~cfg.on => \E p \in Procs : proc[p].pc = "n_cfg"

=============================================================================
